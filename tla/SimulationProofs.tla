--------------------------- MODULE SimulationProofs ---------------------------
(***************************************************************************)
(* Theorems about the event loop, for every schematic and every use of it. *)
(*                                                                         *)
(* Types come first.  The event queue's contracts need a bound on how far  *)
(* ahead of the time each input's events are, which is then the key to the *)
(* main theorem as well: what an output sends is never overtaken.          *)
(***************************************************************************)
EXTENDS SimulationInvariant, FiniteSetTheorems, SequenceTheorems, TLAPS

USE DEF SizesValid, ConnectionsValid, InvertersValid

-----------------------------------------------------------------------------
(***************************************************************************)
(* The schematic.                                                          *)
(***************************************************************************)

\* Inputs and outputs are pairs of an element and one of its connection ids.
LEMMA InputPairs ==
    /\ \A e \in Element : \A i \in InputIds(e) : <<e, i>> \in Inputs
    /\ \A p \in Inputs : /\ p[1] \in Element
                         /\ p[2] \in InputIds(p[1])
                         /\ p = <<p[1], p[2]>>
BY DEF Inputs

LEMMA OutputPairs ==
    /\ \A e \in Element : \A j \in OutputIds(e) : <<e, j>> \in Outputs
    /\ \A o \in Outputs : /\ o[1] \in Element
                          /\ o[2] \in OutputIds(o[1])
                          /\ o = <<o[1], o[2]>>
BY DEF Outputs

\* The null input is no input.
LEMMA NullNotInput == NullInput \notin Inputs
BY InputPairs, SchematicSizes DEF NullInput, Element

\* Two outputs do not drive the same input.
LEMMA OneDriver ==
    ASSUME NEW o \in Outputs, NEW p \in Outputs,
           Sink[o] = Sink[p], Sink[o] # NullInput
    PROVE  o = p
BY SchematicConnections

\* Writing a logic value leaves a vector of logic values.
LEMMA WriteBit ==
    ASSUME NEW S, NEW f \in [S -> BOOLEAN], NEW i, NEW v \in BOOLEAN
    PROVE  [f EXCEPT ![i] = v] \in [S -> BOOLEAN]
OBVIOUS

\* An element with internal state has all the inputs its update reads.
StateVectors(type) == [0 .. (InternalStateSize(type) - 1) -> BOOLEAN]

LEMMA UpdateInternalStateType ==
    ASSUME NEW e \in Element, HasInternalState(Type[e]),
           NEW old \in [InputIds(e) -> BOOLEAN],
           NEW new \in [InputIds(e) -> BOOLEAN],
           NEW st \in StateVectors(Type[e])
    PROVE  UpdateInternalState(Type[e], InputCount[e], old, new, st)
              \in StateVectors(Type[e])
<1> DEFINE t == Type[e]
<1>0. t \in ElementType /\ CountsValid(t, InputCount[e], OutputCount[e])
  BY SchematicSizes
<1>1. CASE t = "clock_generator"
  <2>1. InputIds(e) = 0 .. 2 /\ InternalStateSize(t) = 4
    BY <1>0, <1>1 DEF CountsValid, InputIds, InternalStateSize, HasNoLogic
  <2>2. st \in [0 .. 3 -> BOOLEAN]
    BY <2>1 DEF StateVectors
  <2>3. UpdateClockGenerator(old, new, st) \in [0 .. 3 -> BOOLEAN]
    BY <2>2, <2>1 DEF UpdateClockGenerator
  <2> QED BY <1>1, <2>1, <2>3 DEF UpdateInternalState, StateVectors
<1>2. CASE t = "flipflop_jk"
  <2>1. InputIds(e) = 0 .. 4 /\ InternalStateSize(t) = 2
    BY <1>0, <1>2 DEF CountsValid, InputIds, InternalStateSize, HasNoLogic
  <2>2. st \in [0 .. 1 -> BOOLEAN]
    BY <2>1 DEF StateVectors
  <2> DEFINE v == IF new[1] /\ new[2] THEN ~st[1]
                  ELSE IF new[1] THEN TRUE
                  ELSE IF new[2] THEN FALSE ELSE st[0]
             B == [0 .. 1 -> BOOLEAN]
  <2>3. /\ [st EXCEPT ![0] = v] \in B
        /\ [st EXCEPT ![1] = st[0]] \in B
        /\ [st EXCEPT ![0] = TRUE, ![1] = TRUE] \in B
        /\ [st EXCEPT ![0] = FALSE, ![1] = FALSE] \in B
    <3>0. st[0] \in BOOLEAN /\ st[1] \in BOOLEAN
      BY <2>2
    <3>1. v \in BOOLEAN
      BY <3>0
    <3> HIDE DEF v
    <3> QED BY <2>2, <3>1, WriteBit
  <2>4. UpdateFlipflopJK(old, new, st) \in B
    <3>1. [st EXCEPT ![0] = IF new[1] /\ new[2] THEN ~st[1]
                  ELSE IF new[1] THEN TRUE
                  ELSE IF new[2] THEN FALSE ELSE @] = [st EXCEPT ![0] = v]
      OBVIOUS
    <3> HIDE DEF v
    <3> QED BY <2>2, <2>3, <3>1 DEF UpdateFlipflopJK
  <2> QED BY <1>2, <2>1, <2>4 DEF UpdateInternalState, StateVectors
<1>3. CASE t = "shift_register"
  <2>1. InputIds(e) = 0 .. 2 /\ InternalStateSize(t) = 10 /\ InputCount[e] = 3
    BY <1>0, <1>3 DEF CountsValid, InputIds, InternalStateSize, HasNoLogic
  <2>2. st \in [0 .. 9 -> BOOLEAN]
    BY <2>1 DEF StateVectors
  <2>3. UpdateShiftRegister(old, new, st, InputCount[e]) \in [0 .. 9 -> BOOLEAN]
    BY <2>2, <2>1 DEF UpdateShiftRegister, RisingEdge, FallingEdge
  <2>4. UpdateInternalState(t, InputCount[e], old, new, st)
           = UpdateShiftRegister(old, new, st, InputCount[e])
    BY <1>3, Zenon DEF UpdateInternalState
  <2> QED BY <2>1, <2>3, <2>4 DEF StateVectors
<1>4. CASE t \in {"latch_d", "button"}
  <2>1. InternalStateSize(t) = 1 /\ (t = "latch_d" => InputIds(e) = 0 .. 1)
    BY <1>0, <1>4 DEF CountsValid, InputIds, InternalStateSize, HasNoLogic
  <2>2. st \in [0 .. 0 -> BOOLEAN]
    BY <2>1 DEF StateVectors
  <2> QED BY <1>4, <2>1, <2>2 DEF UpdateInternalState, StateVectors
<1>5. CASE t \in {"flipflop_d", "flipflop_ms_d"}
  <2>1. /\ InputIds(e) = 0 .. 3
        /\ InternalStateSize(t) = IF t = "flipflop_d" THEN 1 ELSE 2
    BY <1>0, <1>5 DEF CountsValid, InputIds, InternalStateSize, HasNoLogic
  <2>2. CASE t = "flipflop_d"
    <3>1. st \in [0 .. 0 -> BOOLEAN]
      BY <2>1, <2>2 DEF StateVectors
    <3> DEFINE v == IF new[3] THEN FALSE
                    ELSE IF new[2] THEN TRUE
                    ELSE IF RisingEdge(old, new) THEN new[1] ELSE st[0]
    <3>2. new[1] \in BOOLEAN /\ st[0] \in BOOLEAN
      BY <2>1, <3>1
    <3>3. v \in BOOLEAN
      BY <3>2, Zenon
    <3>4. UpdateFlipflopD(old, new, st) = [st EXCEPT ![0] = v]
      BY Zenon DEF UpdateFlipflopD
    <3> HIDE DEF v
    <3>5. UpdateFlipflopD(old, new, st) \in [0 .. 0 -> BOOLEAN]
      BY <3>1, <3>3, <3>4, WriteBit
    <3> QED BY <2>1, <2>2, <3>5 DEF UpdateInternalState, StateVectors
  <2>3. CASE t = "flipflop_ms_d"
    <3>1. st \in [0 .. 1 -> BOOLEAN]
      BY <2>1, <2>3 DEF StateVectors
    <3> DEFINE v == IF new[3] THEN FALSE
                    ELSE IF new[2] THEN TRUE
                    ELSE IF RisingEdge(old, new) THEN new[1] ELSE st[0]
               w == IF new[3] THEN FALSE
                    ELSE IF new[2] THEN TRUE
                    ELSE IF FallingEdge(old, new) THEN st[0] ELSE st[1]
    <3>2. new[1] \in BOOLEAN /\ st[0] \in BOOLEAN /\ st[1] \in BOOLEAN
      BY <2>1, <3>1
    <3>3. v \in BOOLEAN /\ w \in BOOLEAN
      BY <3>2, Zenon
    <3>4. UpdateFlipflopMsD(old, new, st) = [st EXCEPT ![0] = v, ![1] = w]
      BY Zenon DEF UpdateFlipflopMsD
    <3> HIDE DEF v, w
    <3>5. UpdateFlipflopMsD(old, new, st) \in [0 .. 1 -> BOOLEAN]
      BY <3>1, <3>3, <3>4, WriteBit
    <3> QED BY <2>1, <2>3, <3>5 DEF UpdateInternalState, StateVectors
  <2> QED BY <1>5, <2>2, <2>3
<1> QED
  BY <1>1, <1>2, <1>3, <1>4, <1>5 DEF HasInternalState, InternalStateSize

\* What an element drives is a logic value.
LEMMA OutputValueType ==
    ASSUME NEW e \in Element, NEW j \in OutputIds(e),
           NEW in \in [Inputs -> BOOLEAN], NEW st,
           HasInternalState(Type[e]) => st[e] \in StateVectors(Type[e])
    PROVE  OutputValue(in, st, e, j) \in BOOLEAN
<1> DEFINE t == Type[e]
<1>0. t \in ElementType /\ CountsValid(t, InputCount[e], OutputCount[e])
  BY SchematicSizes
<1>1. CASE HasInternalState(t)
  <2>1. CASE t = "clock_generator"
    <3>1. j \in 0 .. 2 /\ InternalStateSize(t) = 4
      BY <1>0, <2>1 DEF CountsValid, OutputIds, InternalStateSize, HasNoLogic
    <3> QED BY <1>1, <2>1, <3>1 DEF OutputValue, OutputFromState, StateVectors
  <2>2. CASE t = "shift_register"
    <3>1. j \in 0 .. 1 /\ InternalStateSize(t) = 10 /\ OutputCount[e] = 2
      BY <1>0, <2>2 DEF CountsValid, OutputIds, InternalStateSize, HasNoLogic
    <3> QED BY <1>1, <2>2, <3>1 DEF OutputValue, OutputFromState, StateVectors
  <2>3. CASE t \in {"flipflop_jk", "flipflop_ms_d"}
    <3>1. InternalStateSize(t) = 2
      BY <2>3 DEF InternalStateSize
    <3>2. st[e][1] \in BOOLEAN
      BY <1>1, <3>1 DEF StateVectors
    <3> QED BY <1>1, <2>3, <3>2, Zenon DEF OutputValue, OutputFromState
  <2>4. CASE t \in {"button", "latch_d", "flipflop_d"}
    <3>1. InternalStateSize(t) = 1
      BY <2>4 DEF InternalStateSize
    <3> QED BY <1>1, <2>4, <3>1 DEF OutputValue, OutputFromState, StateVectors
  <2> QED
    BY <1>1, <2>1, <2>2, <2>3, <2>4 DEF HasInternalState, InternalStateSize
<1>2. CASE ~HasInternalState(t)
  <2>1. \A i \in InputIds(e) : Uninverted(in, e)[i] \in BOOLEAN
    BY DEF Uninverted
  <2>2. OutputFromInputs(t, Uninverted(in, e)) \in BOOLEAN
    BY <2>1 DEF OutputFromInputs, Uninverted
  <2> QED BY <1>2, <2>2 DEF OutputValue
<1> QED BY <1>1, <1>2

-----------------------------------------------------------------------------
(***************************************************************************)
(* The events an element sends.                                            *)
(***************************************************************************)

\* A new event belongs to one changed output that drives an input.
LEMMA ChangedOutputsElements ==
    ASSUME NEW t \in Nat, NEW e \in Element, NEW old, NEW new,
           NEW ev \in ChangedOutputs(t, e, old, new)
    PROVE  \E o \in Outputs :
              /\ o[1] = e
              /\ Sink[o] \in Inputs
              /\ ev = [time |-> t + Delay[o], input |-> Sink[o],
                       value |-> new[o[2]]]
              /\ old[o[2]] # new[o[2]]
<1>1. PICK j \in OutputIds(e) :
         /\ ev = [time |-> t + Delay[<<e, j>>], input |-> Sink[<<e, j>>],
                  value |-> new[j]]
         /\ old[j] # new[j]
         /\ Sink[<<e, j>>] # NullInput
  BY DEF ChangedOutputs
<1>2. <<e, j>> \in Outputs
  BY OutputPairs
<1>3. Sink[<<e, j>>] \in Inputs
  BY <1>1, <1>2, SchematicConnections
<1> WITNESS <<e, j>> \in Outputs
<1> QED BY <1>1, <1>2, <1>3

\* And every changed output that drives an input has one.
LEMMA ChangedOutputsComplete ==
    ASSUME NEW t, NEW e, NEW old, NEW new, NEW j \in OutputIds(e),
           old[j] # new[j], Sink[<<e, j>>] # NullInput
    PROVE  [time |-> t + Delay[<<e, j>>], input |-> Sink[<<e, j>>],
            value |-> new[j]] \in ChangedOutputs(t, e, old, new)
BY DEF ChangedOutputs

\* Submitting them is never refused and keeps the queue's precondition.
LEMMA SubmitOutputs ==
    ASSUME time \in Nat,
           NEW e \in Element,
           NEW Q \in SUBSET Event, Unique(Q), SentBefore(Q, e),
           NEW old, NEW new \in [OutputIds(e) -> BOOLEAN],
           NEW N, N = ChangedOutputs(time, e, old, new)
    PROVE  /\ N \subseteq Event
           /\ \A ev \in N : ev.time > time /\ IsConnected(ev.input)
           /\ SubmitError(N, Q) = "none"
           /\ Unique(Q \cup N)
<1>1. ASSUME NEW ev \in N
      PROVE  \E o \in Outputs :
                /\ o[1] = e
                /\ Sink[o] \in Inputs
                /\ ev = [time |-> time + Delay[o], input |-> Sink[o],
                         value |-> new[o[2]]]
  BY ChangedOutputsElements
<1>2. ASSUME NEW ev \in N
      PROVE  ev \in Event /\ ev.time > time /\ IsConnected(ev.input)
  <2>1. PICK o \in Outputs :
           /\ o[1] = e
           /\ Sink[o] \in Inputs
           /\ ev = [time |-> time + Delay[o], input |-> Sink[o],
                    value |-> new[o[2]]]
    BY <1>1
  <2>2. new[o[2]] \in BOOLEAN
    BY <2>1, OutputPairs
  <2>3. Delay[o] \in Nat /\ Delay[o] > 0
    BY SchematicConnections
  <2> QED BY <2>1, <2>2, <2>3 DEF Event, IsConnected, Drives
<1>3. ASSUME NEW ev \in N, NEW other \in Q, ev.time = other.time,
             ev.input = other.input
      PROVE  FALSE
  <2>1. PICK o \in Outputs :
           /\ o[1] = e
           /\ ev = [time |-> time + Delay[o], input |-> Sink[o],
                    value |-> new[o[2]]]
    BY <1>1
  <2>2. other.time < time + Delay[o]
    BY <1>3, <2>1 DEF SentBefore
  <2>3. Delay[o] \in Nat /\ other.time \in Nat
    BY SchematicConnections DEF Event
  <2> QED BY <1>3, <2>1, <2>2, <2>3
<1>4. ASSUME NEW ev \in N, NEW other \in N, ev.input = other.input
      PROVE  ev = other
  <2>1. PICK o \in Outputs :
           /\ Sink[o] \in Inputs
           /\ ev = [time |-> time + Delay[o], input |-> Sink[o],
                    value |-> new[o[2]]]
    BY <1>1
  <2>2. PICK q \in Outputs :
           /\ Sink[q] \in Inputs
           /\ other = [time |-> time + Delay[q], input |-> Sink[q],
                       value |-> new[q[2]]]
    BY <1>1
  <2>3. o = q
    BY <1>4, <2>1, <2>2, OneDriver, NullNotInput
  <2> QED BY <2>1, <2>2, <2>3
<1>5. SubmitError(N, Q) = "none"
  <2>1. \A ev \in N : ~(ev.time <= time)
    BY <1>2 DEF Event
  <2> QED BY <2>1, <1>3 DEF SubmitError
<1>6. Unique(Q \cup N)
  BY <1>3, <1>4 DEF Unique
<1> QED BY <1>2, <1>5, <1>6

-----------------------------------------------------------------------------
(***************************************************************************)
(* An input follows the output that drives it.                             *)
(***************************************************************************)

\* With the queue Q and the inputs `in`, input p is going to be `want`.
Follows(Q, in, p, want) ==
    /\ \A ev \in Q : ev.input = p
                   /\ (\A other \in Q : other.input = ev.input
                                          => other.time <= ev.time)
                   => ev.value = want
    /\ (\A ev \in Q : ev.input # p) => in[p] = want

\* The earliest events G are applied and the events N are sent, of which one
\* goes to p exactly if what drives p has changed from w1 to w2.
Replaced(Q, G, N, p, in1, in2, w1, w2) ==
    /\ Q \subseteq Event /\ G \subseteq Q /\ N \subseteq Event
    /\ w1 \in BOOLEAN /\ w2 \in BOOLEAN
    /\ Unique(Q)
    /\ \A g \in G, q \in Q : g.time <= q.time
    /\ in2[p] = IF \E ev \in G : ev.input = p
                THEN \E ev \in G : ev.input = p /\ ev.value
                ELSE in1[p]
    /\ \/ w2 = w1 /\ \A n \in N : n.input # p
       \/ \E n \in N :
             /\ n.input = p /\ n.value = w2
             /\ \A q \in Q : q.input = p => q.time < n.time
             /\ \A m \in N : m.input = p => m = n

\* Then the input still follows what drives it.
LEMMA FollowsAfter ==
    ASSUME NEW Q, NEW G, NEW N, NEW p, NEW in1, NEW in2, NEW w1, NEW w2,
           Follows(Q, in1, p, w1),
           Replaced(Q, G, N, p, in1, in2, w1, w2)
    PROVE  Follows((Q \ G) \cup N, in2, p, w2)
<1> USE DEF Replaced
<1> DEFINE R == (Q \ G) \cup N
<1>1. CASE \E n \in N :
              /\ n.input = p /\ n.value = w2
              /\ \A q \in Q : q.input = p => q.time < n.time
              /\ \A m \in N : m.input = p => m = n
  <2>1. PICK n \in N :
           /\ n.input = p /\ n.value = w2
           /\ \A q \in Q : q.input = p => q.time < n.time
           /\ \A m \in N : m.input = p => m = n
    BY <1>1
  <2>2. ASSUME NEW ev \in R, ev.input = p,
               \A other \in R : other.input = ev.input => other.time <= ev.time
        PROVE  ev.value = w2
    <3>1. n.time <= ev.time
      BY <2>1, <2>2
    <3>2. ev \notin Q
      <4> SUFFICES ASSUME ev \in Q PROVE FALSE
        OBVIOUS
      <4>1. ev.time < n.time /\ ev.time \in Nat /\ n.time \in Nat
        BY <2>1, <2>2 DEF Event
      <4> QED BY <3>1, <4>1
    <3>3. ev \in N
      BY <3>2
    <3> QED BY <2>1, <2>2, <3>3
  <2>3. \E ev \in R : ev.input = p
    BY <2>1
  <2> QED BY <2>2, <2>3 DEF Follows
<1>2. CASE w2 = w1 /\ \A n \in N : n.input # p
  <2>1. ASSUME NEW ev \in R, ev.input = p,
               \A other \in R : other.input = ev.input => other.time <= ev.time
        PROVE  ev.value = w2
    <3>1. ev \in Q \ G
      BY <1>2, <2>1
    <3>2. \A other \in Q : other.input = ev.input => other.time <= ev.time
      BY <2>1, <3>1
    <3> QED BY <1>2, <2>1, <3>1, <3>2 DEF Follows
  <2>2. ASSUME \A ev \in R : ev.input # p
        PROVE  in2[p] = w2
    <3>1. CASE \E g \in G : g.input = p
      <4>1. PICK g \in G : g.input = p
        BY <3>1
      <4>2. \A q \in Q : q.input = p => q \in G
        BY <2>2
      <4>3. \A q \in Q : q.input = p => q = g
        <5> SUFFICES ASSUME NEW q \in Q, q.input = p PROVE q = g
          OBVIOUS
        <5>1. q \in G
          BY <4>2
        <5>2. q.time <= g.time /\ g.time <= q.time
          BY <5>1
        <5>3. q.time \in Nat /\ g.time \in Nat
          BY DEF Event
        <5>4. q.time = g.time
          BY <5>2, <5>3
        <5> QED BY <4>1, <5>4 DEF Unique
      <4>4. g.value = w1
        <5>1. g.time \in Nat
          BY DEF Event
        <5>2. \A other \in Q : other.input = g.input => other.time <= g.time
          BY <4>1, <4>3, <5>1
        <5> QED BY <4>1, <5>2 DEF Follows
      <4>5. (\E ev \in G : ev.input = p /\ ev.value) = g.value
        <5>1. g.value \in BOOLEAN
          BY DEF Event
        <5>2. (\E ev \in G : ev.input = p /\ ev.value) <=> g.value
          BY <4>1, <4>3
        <5> QED BY <5>1, <5>2
      <4> QED BY <1>2, <3>1, <4>4, <4>5
    <3>2. CASE ~ \E g \in G : g.input = p
      <4>1. \A ev \in Q : ev.input # p
        BY <2>2, <3>2
      <4>2. in1[p] = w1
        BY <4>1 DEF Follows
      <4> QED BY <1>2, <3>2, <4>2
    <3> QED BY <3>1, <3>2
  <2> QED BY <2>1, <2>2 DEF Follows
<1> QED BY <1>1, <1>2

-----------------------------------------------------------------------------
(***************************************************************************)
(* Construction.                                                           *)
(***************************************************************************)

\* The limits of the calls that the environment chooses.
LEMMA Limits ==
    /\ CheckInterval \in Nat /\ CheckInterval > 0
    /\ CountMax \in Nat /\ CountMax > 0
    /\ MaxTries \in Nat
    /\ UserInputs \subseteq Inputs
    /\ \A p \in UserInputs : ~IsConnected(p)
    /\ RunConfigs \subseteq RunConfig
BY CallAssumption

LEMMA UninvertedType ==
    ASSUME NEW in \in [Inputs -> BOOLEAN], NEW e \in Element
    PROVE  Uninverted(in, e) \in [InputIds(e) -> BOOLEAN]
BY DEF Uninverted

LEMMA OutputVectorType ==
    ASSUME NEW e \in Element, NEW in \in [Inputs -> BOOLEAN], NEW st,
           HasInternalState(Type[e]) => st[e] \in StateVectors(Type[e])
    PROVE  OutputVector(in, st, e) \in [OutputIds(e) -> BOOLEAN]
BY OutputValueType DEF OutputVector

LEMMA InitialTypes ==
    /\ InitialInput \in [Inputs -> BOOLEAN]
    /\ DOMAIN InitialState = Element
    /\ \A e \in Element : InitialState[e] \in StateVectors(Type[e])
<1>1. InitialInput \in [Inputs -> BOOLEAN]
  BY DEF InitialInput
<1>2. DOMAIN InitialState = Element
  BY DEF InitialState
<1>3. ASSUME NEW e \in Element
      PROVE  InitialState[e] \in StateVectors(Type[e])
  <2>1. CASE HasInternalState(Type[e])
    <3>1. AllOff(InputCount[e]) \in [InputIds(e) -> BOOLEAN]
      BY DEF AllOff, InputIds
    <3>2. Uninverted(InitialInput, e) \in [InputIds(e) -> BOOLEAN]
      BY <1>1, UninvertedType
    <3>3. AllOff(InternalStateSize(Type[e])) \in StateVectors(Type[e])
      BY DEF AllOff, StateVectors
    <3> QED BY <2>1, <3>1, <3>2, <3>3, UpdateInternalStateType DEF InitialState
  <2>2. CASE ~HasInternalState(Type[e])
    <3>1. InternalStateSize(Type[e]) = 0
      BY <2>2 DEF HasInternalState
    <3> QED BY <2>2, <3>1 DEF InitialState, AllOff, StateVectors
  <2> QED BY <2>1, <2>2
<1> QED BY <1>1, <1>2, <1>3

\* Initially an element's events correct the inputs it drives.
LEMMA InitialEventsElements ==
    ASSUME NEW ev \in InitialEvents
    PROVE  \E o \in Outputs :
              /\ Sink[o] \in Inputs
              /\ InitiallyEvaluated(o[1])
              /\ ev = [time |-> Delay[o], input |-> Sink[o],
                       value |-> OutputValue(InitialInput, InitialState, o[1], o[2])]
<1>1. PICK e \in Element :
         /\ InitiallyEvaluated(e)
         /\ ev \in ChangedOutputs(0, e, SwitchedOffOutputs(e),
                        OutputVector(InitialInput, InitialState, e))
  BY DEF InitialEvents
<1>2. PICK o \in Outputs :
         /\ o[1] = e
         /\ Sink[o] \in Inputs
         /\ ev = [time |-> 0 + Delay[o], input |-> Sink[o],
                  value |-> OutputVector(InitialInput, InitialState, e)[o[2]]]
  BY <1>1, ChangedOutputsElements
<1>3. /\ OutputVector(InitialInput, InitialState, e)[o[2]]
            = OutputValue(InitialInput, InitialState, o[1], o[2])
      /\ 0 + Delay[o] = Delay[o]
  BY <1>2, OutputPairs, SchematicConnections DEF OutputVector
<1> QED BY <1>1, <1>2, <1>3

LEMMA InitialEventsTyped ==
    /\ InitialEvents \subseteq Event
    /\ Unique(InitialEvents)
    /\ \A ev \in InitialEvents : /\ ev.time > 0
                                 /\ IsConnected(ev.input)
    /\ \A o \in Outputs, ev \in InitialEvents :
          Sink[o] = ev.input => /\ ev.time = Delay[o]
                                /\ InitiallyEvaluated(o[1])
<1> DEFINE Of(o) == [time |-> Delay[o], input |-> Sink[o],
                     value |-> OutputValue(InitialInput, InitialState, o[1], o[2])]
<1>1. \A ev \in InitialEvents :
         \E o \in Outputs : /\ Sink[o] \in Inputs
                            /\ InitiallyEvaluated(o[1])
                            /\ ev = Of(o)
  BY InitialEventsElements
<1>2. \A o \in Outputs : /\ Of(o).value \in BOOLEAN
                         /\ Delay[o] \in Nat /\ Delay[o] > 0
  BY OutputPairs, OutputValueType, InitialTypes, SchematicConnections
<1>3. \A o \in Outputs, q \in Outputs :
         Sink[o] = Sink[q] /\ Sink[o] \in Inputs => o = q
  BY OneDriver, NullNotInput
<1>4. InitialEvents \subseteq Event
  BY <1>1, <1>2 DEF Event
<1>5. Unique(InitialEvents)
  BY <1>1, <1>3 DEF Unique
<1>6. \A ev \in InitialEvents : ev.time > 0 /\ IsConnected(ev.input)
  BY <1>1, <1>2 DEF IsConnected, Drives
<1>7. \A o \in Outputs, ev \in InitialEvents :
         Sink[o] = ev.input => ev.time = Delay[o] /\ InitiallyEvaluated(o[1])
  BY <1>1, <1>3
<1> QED BY <1>4, <1>5, <1>6, <1>7

\* Wires are not evaluated at the start: they are off and so is what they drive,
\* the ones whose input is inverted by the logic item before them included.
LEMMA InitialWires ==
    ASSUME NEW o \in Outputs, Sink[o] # NullInput, ~InitiallyEvaluated(o[1])
    PROVE  /\ InitialInput[Sink[o]] = FALSE
           /\ OutputValue(InitialInput, InitialState, o[1], o[2]) = FALSE
<1> DEFINE e == o[1]
           p == Sink[o]
<1>0. e \in Element /\ o[2] \in OutputIds(e) /\ p \in Inputs
  BY OutputPairs, SchematicConnections
<1>1. Type[e] = "wire"
  <2>1. CASE HasNoLogic(Type[e])
    <3>1. OutputCount[e] = 0
      BY <1>0, <2>1, SchematicSizes DEF CountsValid, HasNoLogic
    <3> QED BY <1>0, <3>1 DEF OutputIds
  <2> QED BY <2>1 DEF InitiallyEvaluated
<1>2. IsConnected(p) /\ \A q \in Outputs : Drives(q, p) => q = o
  BY OneDriver DEF IsConnected, Drives
<1>3. InitialInput[p] = FALSE
  <2>1. ~UnconnectedOff(p)
    BY <1>2 DEF UnconnectedOff
  <2>2. p[2] \in {1, 2} => \/ ~UnconnectedOff(<<p[1], 1>>)
                            \/ ~UnconnectedOff(<<p[1], 2>>)
    BY <1>0, <2>1, InputPairs
  <2>3. \A q \in Outputs : Drives(q, p) => Type[q[1]] \notin LogicItemType
    BY <1>1, <1>2 DEF LogicItemType
  <2> QED BY <1>0, <2>1, <2>2, <2>3 DEF InitialInput
<1>4. \A i \in InputIds(e) : Uninverted(InitialInput, e)[i] = FALSE
  <2> SUFFICES ASSUME NEW i \in InputIds(e)
               PROVE  Uninverted(InitialInput, e)[i] = FALSE
    OBVIOUS
  <2> DEFINE w == <<e, i>>
  <2>1. w \in Inputs /\ w[1] = e
    BY <1>0, InputPairs
  <2>2. Inverted[w] \in BOOLEAN
    BY <2>1, SchematicConnections
  <2>3. InitialInput[w] = Inverted[w]
    <3>1. CASE Inverted[w]
      <4>1. PICK q \in Outputs : Sink[q] = w /\ Type[q[1]] \in LogicItemType
        BY <1>1, <2>1, <3>1, WireInverters
      <4> QED BY <2>1, <2>2, <3>1, <4>1 DEF InitialInput, Drives
    <3>2. CASE ~Inverted[w]
      BY <1>1, <2>1, <2>2, <3>2 DEF InitialInput, HasEnableInput
    <3> QED BY <3>1, <3>2
  <2>4. Uninverted(InitialInput, e)[i] = (InitialInput[w] # Inverted[w])
    BY DEF Uninverted
  <2> QED BY <2>3, <2>4
<1>5. ~HasInternalState(Type[e])
  BY <1>1 DEF HasInternalState, InternalStateSize
<1>6. OutputFromInputs(Type[e], Uninverted(InitialInput, e)) = FALSE
  BY <1>1, <1>4 DEF OutputFromInputs, Uninverted
<1> QED BY <1>3, <1>5, <1>6 DEF OutputValue

THEOREM InitInvariant == Init => IInv
<1> SUFFICES ASSUME Init PROVE IInv
  OBVIOUS
<1>1. TypeOK
  <2>1. history \in [Element -> Seq(Nat)]
    BY DEF Init
  <2> QED BY <2>1, InitialTypes, InitialEventsTyped
          DEF Init, TypeOK, StateVectors
<1>2. NoError /\ eventCount < CountMax
  BY Limits DEF Init, NoError
<1>3. QueueInvariant
  <2>1. Unique(events) /\ EventsNotPast
    BY InitialEventsTyped DEF Init, EventsNotPast
  <2>2. EventsWithinDelay
    <3>1. ASSUME NEW o \in Outputs, NEW ev \in events, Sink[o] = ev.input
          PROVE  ev.time <= time + Delay[o] /\ Group(time, o[1]) = {}
      <4>1. ev.time = Delay[o] /\ time = 0 /\ Delay[o] \in Nat
        BY <3>1, InitialEventsTyped, SchematicConnections DEF Init
      <4>2. \A other \in events : other.time # 0
        BY InitialEventsTyped DEF Init
      <4> QED BY <4>1, <4>2 DEF Group
    <3> QED BY <3>1 DEF EventsWithinDelay
  <2>3. UserEventsNext
    BY InitialEventsTyped DEF Init, UserEventsNext
  <2> QED BY <2>1, <2>2, <2>3 DEF QueueInvariant
<1>4. CallOK
  BY DEF Init, CallOK
<1>5. InputsFollowOutputs
  <2> SUFFICES ASSUME NEW o \in Outputs, Sink[o] # NullInput
               PROVE  Follows(events, input, Sink[o],
                              OutputValue(input, state, o[1], o[2]))
    BY DEF InputsFollowOutputs, IsLast, Follows
  <2> DEFINE want == OutputValue(InitialInput, InitialState, o[1], o[2])
  <2>1. input = InitialInput /\ state = InitialState /\ events = InitialEvents
    BY DEF Init
  <2>2. o[1] \in Element /\ o[2] \in OutputIds(o[1]) /\ Sink[o] \in Inputs
        /\ <<o[1], o[2]>> = o
    BY OutputPairs, SchematicConnections
  <2>3. ASSUME NEW ev \in InitialEvents, ev.input = Sink[o]
        PROVE  ev.value = want
    <3>1. PICK q \in Outputs :
             /\ Sink[q] \in Inputs
             /\ ev = [time |-> Delay[q], input |-> Sink[q],
                      value |-> OutputValue(InitialInput, InitialState, q[1], q[2])]
      BY InitialEventsElements
    <3>2. q = o
      BY <2>3, <3>1, OneDriver, NullNotInput
    <3> QED BY <3>1, <3>2
  <2>4. ASSUME \A ev \in InitialEvents : ev.input # Sink[o]
        PROVE  InitialInput[Sink[o]] = want
    <3>1. CASE InitiallyEvaluated(o[1])
      <4> DEFINE old == SwitchedOffOutputs(o[1])
                 new == OutputVector(InitialInput, InitialState, o[1])
      <4>1. old[o[2]] = InitialInput[Sink[o]] /\ new[o[2]] = want
        BY <2>2 DEF SwitchedOffOutputs, OutputVector
      <4>2. SUFFICES ASSUME old[o[2]] # new[o[2]] PROVE FALSE
        BY <4>1
      <4> DEFINE ev == [time |-> 0 + Delay[o], input |-> Sink[o],
                        value |-> new[o[2]]]
      <4>3. ev \in ChangedOutputs(0, o[1], old, new)
        <5> HIDE DEF old, new
        <5> QED BY <2>2, <4>2, ChangedOutputsComplete
      <4>4. ev \in InitialEvents
        BY <2>2, <3>1, <4>3 DEF InitialEvents
      <4> QED BY <2>4, <4>4
    <3>2. CASE ~InitiallyEvaluated(o[1])
      BY <3>2, InitialWires
    <3> QED BY <3>1, <3>2
  <2> QED BY <2>1, <2>3, <2>4 DEF Follows
<1> QED BY <1>1, <1>2, <1>3, <1>4, <1>5 DEF IInv

-----------------------------------------------------------------------------
(***************************************************************************)
(* Time moves on: what is queued stays within its delay.                   *)
(***************************************************************************)
LEMMA QueueTyped ==
    ASSUME TypeOK
    PROVE  /\ \A ev \in events : /\ ev.time \in Nat
                                  /\ ev.input \in Inputs
                                  /\ ev.value \in BOOLEAN
           /\ \A o \in Outputs : Delay[o] \in Nat /\ Delay[o] > 0
BY SchematicConnections DEF TypeOK, Event

LEMMA TimeMoves ==
    ASSUME TypeOK, QueueInvariant, UNCHANGED events,
           time' \in Nat, time' > time, \A ev \in events : ev.time >= time'
    PROVE  /\ Unique(events)'
           /\ EventsWithinDelay'
           /\ UserEventsNext'
           /\ \A e \in Element : SentBefore(events, e)'
<1>0. time \in Nat
  BY DEF TypeOK
<1>1. ASSUME NEW o \in Outputs, NEW ev \in events, Sink[o] = ev.input
      PROVE  ev.time < time' + Delay[o]
  <2>1. ev.time <= time + Delay[o]
    BY <1>1 DEF QueueInvariant, EventsWithinDelay
  <2> QED BY <1>0, <2>1, QueueTyped
<1>2. \A e \in Element : SentBefore(events, e)'
  BY <1>1 DEF SentBefore
<1>3. EventsWithinDelay'
  <2>1. ASSUME NEW o \in Outputs, NEW ev \in events, Sink[o] = ev.input
        PROVE  ev.time <= time' + Delay[o] /\ ev.time # time' + Delay[o]
    <3>1. ev.time < time' + Delay[o]
      BY <1>1, <2>1
    <3> QED BY <3>1, QueueTyped
  <2> QED BY <2>1 DEF EventsWithinDelay
<1>4. UserEventsNext'
  <2>1. ASSUME NEW ev \in events, ~IsConnected(ev.input)
        PROVE  ev.time <= time' + Epsilon
    <3>1. ev.time <= time + Epsilon
      BY <2>1 DEF QueueInvariant, UserEventsNext
    <3> QED BY <1>0, <3>1, QueueTyped DEF Epsilon
  <2> QED BY <2>1 DEF UserEventsNext
<1>5. Unique(events)'
  BY DEF QueueInvariant, Unique
<1> QED BY <1>2, <1>3, <1>4, <1>5

\* Nothing happens to the queue or to the circuit.
LEMMA QueueKept ==
    ASSUME QueueInvariant, UNCHANGED <<time, events>>,
           pc \in {"events", "try"} /\ pc' \notin {"events", "try"}
              => \A ev \in events : ev.time > time,
           TypeOK
    PROVE  QueueInvariant'
<1>1. Unique(events)' /\ UserEventsNext'
  BY DEF QueueInvariant, UserEventsNext
<1>2. EventsWithinDelay'
  BY DEF QueueInvariant, EventsWithinDelay, Group
<1>3. EventsNotPast'
  BY QueueTyped DEF QueueInvariant, EventsNotPast, TypeOK
<1> QED BY <1>1, <1>2, <1>3 DEF QueueInvariant

LEMMA CircuitKept ==
    ASSUME InputsFollowOutputs, UNCHANGED <<events, input, state>>
    PROVE  InputsFollowOutputs'
BY DEF InputsFollowOutputs, IsLast, OutputValue

\* Outside of a time point all current events are done.
LEMMA NoCurrentEvents ==
    ASSUME TypeOK, QueueInvariant, pc \notin {"events", "try"}
    PROVE  NextEventAfter(time)
BY DEF QueueInvariant, EventsNotPast, NextEventAfter

LEMMA PointDone ==
    ASSUME TypeOK, QueueInvariant, pc \in {"events", "try"}, ~IsNextTime(time)
    PROVE  /\ NextEventAfter(time)
           /\ \A ev \in events : ev.time > time
<1>1. \A ev \in events : ev.time \in Nat /\ ev.time >= time /\ time \in Nat
  BY QueueTyped DEF QueueInvariant, EventsNotPast, TypeOK
<1>2. \A ev \in events : ev.time # time
  BY <1>1 DEF IsNextTime
<1> QED BY <1>1, <1>2 DEF NextEventAfter

-----------------------------------------------------------------------------
(***************************************************************************)
(* The steps of run.                                                       *)
(***************************************************************************)
LEMMA RunCallType ==
    ASSUME TypeOK, eventCount < CountMax,
           NEW caller \in {<<"run">>} \cup InputCaller,
           NEW cfg \in RunConfig
    PROVE  /\ RunCall(caller, cfg) \in
                 [caller : {<<"run">>} \cup InputCaller, infinite : BOOLEAN,
                  end : Nat, timeout : BOOLEAN, maxCount : Nat, nextCheck : Nat]
           /\ RunCall(caller, cfg).caller = caller
           /\ RunCall(caller, cfg).infinite = cfg.infinite
           /\ RunCall(caller, cfg).end = time + cfg.simulateFor
           /\ cfg.simulateFor \in Nat \ {0}
           /\ time + cfg.simulateFor \in Nat
           /\ time <= time + cfg.simulateFor
           /\ RunCall(caller, cfg).nextCheck <= RunCall(caller, cfg).maxCount
           /\ eventCount < RunCall(caller, cfg).maxCount
<1>1. /\ time \in Nat /\ eventCount \in Nat
      /\ cfg.infinite \in BOOLEAN /\ cfg.timeout \in BOOLEAN
      /\ cfg.simulateFor \in Nat \ {0} /\ cfg.maxEvents \in Nat \ {0}
  BY DEF TypeOK, RunConfig
<1>2. StopCount(cfg) \in Nat /\ eventCount < StopCount(cfg)
  BY <1>1, Limits DEF StopCount
<1> DEFINE check == IF cfg.timeout THEN eventCount + CheckInterval ELSE CountMax
<1>3. check \in Nat
  BY <1>1, Limits
<1>4. /\ SmallerOf(StopCount(cfg), check) \in Nat
      /\ SmallerOf(StopCount(cfg), check) <= StopCount(cfg)
  BY <1>2, <1>3 DEF SmallerOf
<1> QED BY <1>1, <1>2, <1>4 DEF RunCall

LEMMA Callers ==
    \A c \in InputCaller \cup TryCaller : c # <<"run">>
BY DEF InputCaller, TryCaller

LEMMA StartRunStep ==
    ASSUME IInv, NEW cfg \in RunConfigs, StartRun(cfg)
    PROVE  IInv'
<1> USE DEF IInv, StartRun
<1>1. TypeOK'
  BY DEF TypeOK
<1>2. NoError'
  BY NoCurrentEvents DEF NoError, CurrentEventsDone
<1>3. QueueInvariant'
  BY QueueKept
<1>4. CallOK'
  <2>1. call' = RunCall(<<"run">>, cfg) /\ cfg \in RunConfig
    BY Limits
  <2>2. RunCallOK'
    BY <2>1, RunCallType DEF RunCallOK, InputCaller
  <2> QED BY <2>2 DEF CallOK
<1>5. InputsFollowOutputs'
  BY CircuitKept
<1> QED BY <1>1, <1>2, <1>3, <1>4, <1>5

LEMMA SetUnconnectedInputStep ==
    ASSUME IInv, NEW p \in UserInputs, NEW value \in BOOLEAN,
           SetUnconnectedInput(p, value)
    PROVE  IInv'
<1> USE DEF IInv, SetUnconnectedInput
<1> DEFINE caller == <<"set_unconnected_input", p, value>>
<1>1. TypeOK'
  BY DEF TypeOK
<1>2. NoError'
  BY NoCurrentEvents DEF NoError, CurrentEventsDone
<1>3. QueueInvariant'
  BY QueueKept
<1>4. CallOK'
  <2>1. caller \in InputCaller
    BY DEF InputCaller
  <2>2. StepConfig \in RunConfig
    BY DEF StepConfig, RunConfig, Epsilon
  <2>3. call' = RunCall(caller, StepConfig)
    OBVIOUS
  <2> HIDE DEF caller
  <2>4. /\ StepConfig.infinite = FALSE /\ StepConfig.limited = FALSE
        /\ StepConfig.timeout = FALSE /\ StepConfig.simulateFor = Epsilon
    BY DEF StepConfig
  <2>5. call'.nextCheck = CountMax
    BY <2>3, <2>4, Limits DEF RunCall, StopCount, SmallerOf
  <2>6. call'.end = time + Epsilon /\ call'.infinite = FALSE /\ call'.caller = caller
    BY <2>1, <2>2, <2>3, <2>4, RunCallType
  <2>7. \A ev \in events : ~IsConnected(ev.input) => ev.time <= call'.end
    BY <2>6 DEF QueueInvariant, UserEventsNext
  <2>8. RunCallOK'
    BY <2>1, <2>2, <2>3, <2>4, <2>5, <2>6, <2>7, RunCallType DEF RunCallOK, InputCaller
  <2> QED BY <2>8 DEF CallOK
<1>5. InputsFollowOutputs'
  BY CircuitKept
<1> QED BY <1>1, <1>2, <1>3, <1>4, <1>5

LEMMA AdvanceStep ==
    ASSUME IInv, AdvanceToNextEvent
    PROVE  IInv'
<1> USE DEF IInv, AdvanceToNextEvent
<1>1. PICK t \in {ev.time : ev \in events} :
         /\ IsNextTime(t)
         /\ call.infinite \/ t <= call.end
         /\ time' = t
         /\ error' = SetTimeError(t)
  OBVIOUS
<1>2. t \in Nat /\ t > time /\ \A ev \in events : ev.time >= t
  BY <1>1, QueueTyped DEF QueueInvariant, EventsNotPast, IsNextTime
<1>3. TypeOK'
  BY <1>1, <1>2 DEF TypeOK
<1>4. NoError'
  <2>1. time \in Nat /\ ~(t < time) /\ ~ \E ev \in events : ev.time < t
    BY <1>2, QueueTyped DEF TypeOK
  <2> QED BY <1>1, <2>1 DEF NoError, SetTimeError
<1>5. QueueInvariant'
  BY <1>1, <1>2, TimeMoves DEF QueueInvariant, EventsNotPast
<1>6. CallOK'
  BY <1>1, <1>2 DEF CallOK, RunCallOK
<1>7. InputsFollowOutputs'
  BY CircuitKept
<1> QED BY <1>3, <1>4, <1>5, <1>6, <1>7

LEMMA ContinueStep ==
    ASSUME IInv, ContinueRun \/ ContinueAfterCheck
    PROVE  IInv'
<1> USE DEF IInv
<1>1. /\ UNCHANGED <<time, events, input, state, history, largestHistoryEvent,
                     eventCount, error>>
      /\ TimePointDone /\ pc' = "run" /\ RunCallOK
  BY DEF ContinueRun, ContinueAfterCheck, TimePointDone, CallOK
<1>2. TypeOK' /\ NoError'
  BY <1>1 DEF TypeOK, NoError
<1>3. QueueInvariant'
  BY <1>1, PointDone, QueueKept DEF TimePointDone
<1>4. CallOK'
  <2>1. CASE ContinueRun
    <3>1. UNCHANGED <<time, events, eventCount, call>>
      BY <2>1 DEF ContinueRun
    <3>2. eventCount < call.maxCount
      <4>1. /\ eventCount \in Nat /\ call.nextCheck \in Nat
            /\ call.maxCount \in Nat /\ call.nextCheck <= call.maxCount
        BY <1>1 DEF TypeOK, RunCallOK
      <4> QED BY <2>1, <4>1 DEF ContinueRun
    <3>3. RunCallOK'
      BY <1>1, <3>1, <3>2 DEF RunCallOK, InputCaller
    <3> QED BY <1>1, <3>3 DEF CallOK
  <2>2. CASE ContinueAfterCheck
    <3> DEFINE next == SmallerOf(call.maxCount, call.nextCheck + CheckInterval)
    <3>1. call.maxCount \in Nat /\ call.nextCheck \in Nat
      BY <1>1 DEF RunCallOK
    <3>2. next \in Nat /\ next <= call.maxCount
      BY <3>1, Limits DEF SmallerOf
    <3>3. call' = [call EXCEPT !.nextCheck = next]
      BY <2>2 DEF ContinueAfterCheck
    <3> HIDE DEF next
    <3>4. call.caller = <<"run">>
      <4>1. eventCount \in Nat
        BY DEF TypeOK
      <4> QED BY <1>1, <2>2, <3>1, <4>1, Limits DEF ContinueAfterCheck, RunCallOK
    <3>5. /\ call' \in [caller : {<<"run">>} \cup InputCaller, infinite : BOOLEAN,
                 end : Nat, timeout : BOOLEAN, maxCount : Nat, nextCheck : Nat]
          /\ call'.caller = call.caller /\ call'.end = call.end
          /\ call'.infinite = call.infinite
          /\ call'.nextCheck <= call'.maxCount
          /\ eventCount < call'.maxCount
      BY <1>1, <2>2, <3>2, <3>3 DEF RunCallOK, ContinueAfterCheck
    <3>6. RunCallOK'
      BY <1>1, <3>4, <3>5 DEF RunCallOK, InputCaller
    <3> QED BY <1>1, <3>6 DEF CallOK
  <2> QED BY <2>1, <2>2
<1>5. InputsFollowOutputs'
  BY <1>1, CircuitKept
<1> QED BY <1>1, <1>2, <1>3, <1>4, <1>5

LEMMA StopStep ==
    ASSUME IInv, StopRun
    PROVE  IInv'
<1> USE DEF IInv, StopRun
<1>1. RunCallOK /\ NextEventAfter(time) /\ \A ev \in events : ev.time > time
  BY PointDone DEF TimePointDone, CallOK
<1>2. call.caller = <<"run">>
  BY <1>1, Limits DEF RunCallOK, TypeOK
<1>3. pc' = "idle"
  BY <1>2 DEF ReturnFromRun
<1>4. TypeOK' /\ NoError'
  BY <1>1, <1>3 DEF TypeOK, NoError, CurrentEventsDone
<1>5. QueueInvariant'
  BY <1>1, QueueKept
<1>6. CallOK'
  BY <1>3 DEF CallOK
<1>7. InputsFollowOutputs'
  BY CircuitKept
<1> QED BY <1>4, <1>5, <1>6, <1>7

LEMMA EndStep ==
    ASSUME IInv, EndRun
    PROVE  IInv'
<1> DEFINE end == EndTime
<1>0. /\ TypeOK /\ QueueInvariant /\ InputsFollowOutputs
      /\ RunCallOK
      /\ eventCount < CountMax
      /\ pc = "run"
      /\ events = {} \/ (~call.infinite /\ NextEventAfter(call.end))
      /\ time' = end
      /\ pc' = IF call.caller = <<"run">> THEN "idle" ELSE "submit"
      /\ call' = IF pc' = "idle" THEN NoCall ELSE call
      /\ error' = IF \E ev \in events : ev.time <= end
                  THEN "current events not processed"
                  ELSE SetTimeError(end)
      /\ UNCHANGED <<events, input, state, history, largestHistoryEvent,
                     eventCount>>
  BY DEF IInv, EndRun, ReturnFromRun, CallOK
<1>1. /\ time \in Nat /\ largestHistoryEvent \in Nat
      /\ call.end \in Nat /\ call.infinite \in BOOLEAN
      /\ call.infinite \/ time <= call.end
  BY <1>0 DEF RunCallOK, TypeOK
<1>2. end \in Nat /\ end >= time
  BY <1>1 DEF EndTime, LargerOf
<1>3. \A ev \in events : ev.time > end
  BY <1>0, <1>1 DEF EndTime, NextEventAfter
<1>9. \A ev \in events : ev.time \in Nat
  BY <1>0, QueueTyped
<1> HIDE DEF end
<1>4. TypeOK'
  BY <1>0, <1>2 DEF TypeOK
<1>5. NoError' /\ (eventCount < CountMax)'
  <2>1. ~(end < time)
    BY <1>1, <1>2
  <2>2. \A ev \in events : ~(ev.time <= end) /\ ~(ev.time < end)
    BY <1>2, <1>3, <1>9
  <2> QED BY <1>0, <2>1, <2>2 DEF NoError, SetTimeError
<1>6. QueueInvariant'
  <2>1. CASE end > time
    <3>1. \A ev \in events : ev.time >= end
      BY <1>2, <1>3, <1>9
    <3> QED BY <1>0, <1>2, <1>3, <2>1, <3>1, TimeMoves
            DEF QueueInvariant, EventsNotPast
  <2>2. CASE end = time
    BY <1>0, <2>2, QueueKept
  <2>3. end > time \/ end = time
    BY <1>1, <1>2
  <2> QED BY <2>1, <2>2, <2>3
<1>7. CallOK'
  <2>1. CASE call.caller = <<"run">>
    BY <1>0, <2>1 DEF CallOK
  <2>2. CASE call.caller # <<"run">>
    <3>1. ~call.infinite /\ call.caller \in InputCaller /\ end = call.end
      BY <1>0, <2>2 DEF RunCallOK, end, EndTime
    <3>2. \A ev \in events : IsConnected(ev.input)
      <4> SUFFICES ASSUME NEW ev \in events, ~IsConnected(ev.input) PROVE FALSE
        OBVIOUS
      <4>1. ev.time <= call.end /\ ev.time > end
        BY <1>0, <1>3, <2>2 DEF RunCallOK
      <4> QED BY <1>1, <1>9, <3>1, <4>1
    <3>3. call' = call /\ pc' = "submit"
      BY <1>0, <2>2
    <3> QED BY <1>0, <3>1, <3>2, <3>3 DEF CallOK, SubmitCallOK
  <2> QED BY <2>1, <2>2
<1>8. InputsFollowOutputs'
  BY <1>0, CircuitKept
<1> QED BY <1>4, <1>5, <1>6, <1>7, <1>8 DEF IInv

-----------------------------------------------------------------------------
(***************************************************************************)
(* The evaluation of element e, on the events G due for it (none when the  *)
(* user writes its state): what follows for the queue and for the outputs. *)
(***************************************************************************)
Evaluates(e, G, N) ==
    /\ G \subseteq events
    /\ \A g \in G : g.time = time /\ g.input[1] = e
    /\ Group(time, e) \subseteq G
    /\ \A ev \in events : ev.time >= time
    /\ SentBefore(events, e)
    /\ time' = time
    /\ input' \in [Inputs -> BOOLEAN]
    /\ \A p \in Inputs : input'[p] = IF \E ev \in G : ev.input = p
                                 THEN \E ev \in G : ev.input = p /\ ev.value
                                 ELSE input[p]
    /\ \A f \in Element : state'[f] \in StateVectors(Type[f])
    /\ \A f \in Element \ {e} : state'[f] = state[f]
    /\ N = ChangedOutputs(time, e, OutputVector(input, state, e),
                          OutputVector(input, state, e)')
    /\ events' = (events \ G) \cup N
    /\ pc' \in {"events", "try"} \/ \A ev \in events : ev.time > time

LEMMA Evaluation ==
    ASSUME TypeOK, QueueInvariant, InputsFollowOutputs,
           NEW e \in Element, NEW G, NEW N, Evaluates(e, G, N)
    PROVE  /\ events' \subseteq Event
           /\ SubmitError(N, events \ G) = "none"
           /\ \A ev \in N : ev.time > time /\ IsConnected(ev.input)
           /\ Group(time, e)' = {}
           /\ QueueInvariant'
           /\ InputsFollowOutputs'
<1> USE DEF Evaluates
<1> DEFINE old == OutputVector(input, state, e)
           new == OutputVector(input, state, e)'
<1>0. /\ time \in Nat /\ events \subseteq Event
      /\ input \in [Inputs -> BOOLEAN]
      /\ \A f \in Element : state[f] \in StateVectors(Type[f])
      /\ Unique(events)
  BY DEF TypeOK, StateVectors, QueueInvariant
<1>1. /\ old \in [OutputIds(e) -> BOOLEAN]
      /\ new \in [OutputIds(e) -> BOOLEAN]
      /\ \A j \in OutputIds(e) : /\ old[j] = OutputValue(input, state, e, j)
                                 /\ new[j] = OutputValue(input, state, e, j)'
  <2>1. old \in [OutputIds(e) -> BOOLEAN]
    BY <1>0, OutputVectorType
  <2>2. new = OutputVector(input', state', e)
    BY DEF OutputVector, OutputValue
  <2>3. OutputVector(input', state', e) \in [OutputIds(e) -> BOOLEAN]
    BY OutputVectorType
  <2> QED BY <2>1, <2>2, <2>3 DEF OutputVector
<1>2. N = ChangedOutputs(time, e, old, new)
  OBVIOUS
<1> HIDE DEF old, new
<1>3. /\ events \ G \in SUBSET Event
      /\ Unique(events \ G)
      /\ SentBefore(events \ G, e)
  BY <1>0 DEF Unique, SentBefore
<1>4. /\ N \subseteq Event
      /\ \A ev \in N : ev.time > time /\ IsConnected(ev.input)
      /\ SubmitError(N, events \ G) = "none"
      /\ Unique((events \ G) \cup N)
  BY <1>0, <1>1, <1>2, <1>3, SubmitOutputs
<1>5. ASSUME NEW ev \in N
      PROVE  \E o \in Outputs :
                /\ o[1] = e
                /\ Sink[o] \in Inputs
                /\ ev = [time |-> time + Delay[o], input |-> Sink[o],
                         value |-> new[o[2]]]
                /\ old[o[2]] # new[o[2]]
  BY <1>0, <1>2, ChangedOutputsElements
<1>6. events' \subseteq Event
  BY <1>0, <1>4
<1>7. \A f \in Element : Group(time, f)' \subseteq Group(time, f) \ G
  <2> SUFFICES ASSUME NEW f \in Element, NEW ev \in Group(time, f)'
               PROVE  ev \in Group(time, f) \ G
    OBVIOUS
  <2>1. ev \in events' /\ ev.time = time /\ ev.input[1] = f
    BY DEF Group
  <2>2. ev \notin N
    BY <1>0, <1>4, <2>1
  <2> QED BY <2>1, <2>2 DEF Group
<1>8. Group(time, e)' = {}
  BY <1>7
<1>9. QueueInvariant'
  <2>1. Unique(events)'
    BY <1>4 DEF Unique
  <2>2. EventsNotPast'
    <3>1. \A ev \in events' : ev.time >= time
      BY <1>0, <1>4 DEF Event
    <3>2. (\A ev \in events : ev.time > time) => \A ev \in events' : ev.time > time
      BY <1>4
    <3> QED BY <3>1, <3>2 DEF EventsNotPast
  <2>3. EventsWithinDelay'
    <3> SUFFICES ASSUME NEW o \in Outputs, NEW ev \in events',
                        Sink[o] = ev.input
                 PROVE  /\ ev.time <= time + Delay[o]
                        /\ ev.time = time + Delay[o] => Group(time, o[1])' = {}
      BY DEF EventsWithinDelay
    <3>1. CASE ev \in N
      <4>1. PICK q \in Outputs :
               /\ q[1] = e
               /\ Sink[q] \in Inputs
               /\ ev = [time |-> time + Delay[q], input |-> Sink[q],
                        value |-> new[q[2]]]
        BY <1>5, <3>1
      <4>2. q = o
        BY <4>1, OneDriver, NullNotInput
      <4>3. ev.time = time + Delay[o] /\ Delay[o] \in Nat
        BY <4>1, <4>2, SchematicConnections
      <4> QED BY <1>0, <1>8, <4>1, <4>2, <4>3
    <3>2. CASE ev \in events \ G
      <4>1. /\ ev.time <= time + Delay[o]
            /\ ev.time = time + Delay[o] => Group(time, o[1]) = {}
        BY <3>2 DEF QueueInvariant, EventsWithinDelay
      <4> QED BY <1>7, <4>1, OutputPairs
    <3> QED BY <3>1, <3>2
  <2>4. UserEventsNext'
    BY <1>4 DEF QueueInvariant, UserEventsNext
  <2> QED BY <2>1, <2>2, <2>3, <2>4 DEF QueueInvariant
<1>10. InputsFollowOutputs'
  <2> SUFFICES ASSUME NEW o \in Outputs, Sink[o] # NullInput
               PROVE  Follows((events \ G) \cup N, input', Sink[o],
                              OutputValue(input, state, o[1], o[2])')
    BY DEF InputsFollowOutputs, IsLast, Follows
  <2> DEFINE p  == Sink[o]
             w1 == OutputValue(input, state, o[1], o[2])
             w2 == OutputValue(input, state, o[1], o[2])'
  <2>1. /\ o[1] \in Element /\ o[2] \in OutputIds(o[1]) /\ p \in Inputs
        /\ o = <<o[1], o[2]>>
    BY OutputPairs, SchematicConnections
  <2>2. w1 \in BOOLEAN
    BY <1>0, <2>1, OutputValueType
  <2>3. w2 \in BOOLEAN
    <3>1. w2 = OutputValue(input', state', o[1], o[2])
      BY DEF OutputValue
    <3>2. OutputValue(input', state', o[1], o[2]) \in BOOLEAN
      BY <2>1, OutputValueType
    <3> QED BY <3>1, <3>2
  <2>4. Follows(events, input, p, w1)
    BY DEF InputsFollowOutputs, IsLast, Follows
  <2>5. \/ w2 = w1 /\ \A n \in N : n.input # p
        \/ \E n \in N :
              /\ n.input = p /\ n.value = w2
              /\ \A q \in events : q.input = p => q.time < n.time
              /\ \A m \in N : m.input = p => m = n
    <3>1. CASE o[1] # e
      <4>1. \A i \in InputIds(o[1]) : input'[<<o[1], i>>] = input[<<o[1], i>>]
        <5> SUFFICES ASSUME NEW i \in InputIds(o[1])
                     PROVE  input'[<<o[1], i>>] = input[<<o[1], i>>]
          OBVIOUS
        <5>1. <<o[1], i>> \in Inputs
          BY <2>1, InputPairs
        <5>2. ~ \E ev \in G : ev.input = <<o[1], i>>
          BY <3>1
        <5> QED BY <5>1, <5>2
      <4>2. Uninverted(input, o[1]) = Uninverted(input, o[1])'
        BY <4>1 DEF Uninverted
      <4>3. w2 = w1
        BY <2>1, <3>1, <4>2 DEF OutputValue
      <4>4. \A n \in N : n.input # p
        BY <1>5, <2>1, <3>1, OneDriver, NullNotInput
      <4> QED BY <4>3, <4>4
    <3>2. CASE o[1] = e /\ w1 = w2
      <4>1. \A n \in N : n.input # p
        <5> SUFFICES ASSUME NEW n \in N, n.input = p PROVE FALSE
          OBVIOUS
        <5>1. PICK q \in Outputs :
                 /\ Sink[q] \in Inputs
                 /\ n = [time |-> time + Delay[q], input |-> Sink[q],
                         value |-> new[q[2]]]
                 /\ old[q[2]] # new[q[2]]
          BY <1>5
        <5>2. q = o
          BY <5>1, OneDriver, NullNotInput
        <5> QED BY <1>1, <2>1, <3>2, <5>1, <5>2
      <4> QED BY <3>2, <4>1
    <3>3. CASE o[1] = e /\ w1 # w2
      <4> DEFINE n == [time |-> time + Delay[o], input |-> p, value |-> w2]
      <4>1. n \in N
        <5>1. old[o[2]] # new[o[2]] /\ new[o[2]] = w2
          BY <1>1, <2>1, <3>3
        <5>2. [time |-> time + Delay[<<e, o[2]>>], input |-> Sink[<<e, o[2]>>],
               value |-> new[o[2]]] \in N
          BY <1>2, <2>1, <3>3, <5>1, ChangedOutputsComplete
        <5> QED BY <2>1, <3>3, <5>1, <5>2
      <4>2. \A q \in events : q.input = p => q.time < n.time
        BY <3>3 DEF SentBefore
      <4>3. \A m \in N : m.input = p => m = n
        <5> SUFFICES ASSUME NEW m \in N, m.input = p PROVE m = n
          OBVIOUS
        <5>1. PICK q \in Outputs :
                 /\ Sink[q] \in Inputs
                 /\ m = [time |-> time + Delay[q], input |-> Sink[q],
                         value |-> new[q[2]]]
          BY <1>5
        <5>2. q = o
          BY <5>1, OneDriver, NullNotInput
        <5> QED BY <1>1, <2>1, <3>3, <5>1, <5>2
      <4>4. n.input = p /\ n.value = w2
        OBVIOUS
      <4> HIDE DEF n
      <4> QED BY <4>1, <4>2, <4>3, <4>4
    <3> QED BY <3>1, <3>2, <3>3
  <2>6. \A g \in G, q \in events : g.time <= q.time
    OBVIOUS
  <2>7. input'[p] = IF \E ev \in G : ev.input = p
                    THEN \E ev \in G : ev.input = p /\ ev.value
                    ELSE input[p]
    BY <2>1
  <2> HIDE DEF w1, w2, p
  <2>8. Follows((events \ G) \cup N, input', p, w2)
    <3>1. Replaced(events, G, N, p, input, input', w1, w2)
      BY <1>0, <1>4, <2>2, <2>3, <2>5, <2>6, <2>7 DEF Replaced
    <3> QED BY <2>4, <3>1, FollowsAfter, Zenon
  <2> QED BY <2>8 DEF p, w2
<1> QED BY <1>4, <1>6, <1>8, <1>9, <1>10

-----------------------------------------------------------------------------
(***************************************************************************)
(* Processing an event group.                                              *)
(***************************************************************************)

\* At most one event for each input: a group is finite.
LEMMA GroupSize ==
    ASSUME TypeOK, Unique(events), NEW e \in Element
    PROVE  Cardinality(Group(time, e)) \in Nat
<1> DEFINE G == Group(time, e)
           f == [ev \in G |-> ev.input[2]]
<1>1. \A ev \in G : /\ ev \in events
                    /\ ev.time = time
                    /\ ev.input[2] \in InputIds(e)
                    /\ ev.input = <<e, ev.input[2]>>
  BY QueueTyped, InputPairs DEF Group
<1>2. f \in Injection(G, InputIds(e))
  <2>1. f \in [G -> InputIds(e)]
    BY <1>1
  <2>2. \A a, b \in G : f[a] = f[b] => a = b
    <3> SUFFICES ASSUME NEW a \in G, NEW b \in G, f[a] = f[b] PROVE a = b
      OBVIOUS
    <3>1. a.input = b.input /\ a.time = b.time
      BY <1>1
    <3> QED BY <1>1, <3>1 DEF Unique
  <2> QED BY <2>1, <2>2 DEF Injection, IsInjective
<1>3. IsFiniteSet(InputIds(e))
  <2>1. InputCount[e] - 1 \in Int
    BY SchematicSizes
  <2> QED BY <2>1, FS_Interval DEF InputIds
<1>4. IsFiniteSet(G)
  <2> HIDE DEF f, G
  <2> QED BY <1>2, <1>3, FS_Injection
<1> QED BY <1>4, FS_CardinalityType

LEMMA HistoryType ==
    ASSUME TypeOK, NEW e \in Element, NEW newInput, RecordHistory(e, newInput)
    PROVE  /\ history' \in [Element -> Seq(Nat)]
           /\ largestHistoryEvent' \in Nat
<1>0. /\ time \in Nat /\ HistoryLength[e] \in Nat
      /\ largestHistoryEvent \in Nat /\ history \in [Element -> Seq(Nat)]
  BY SchematicConnections DEF TypeOK
<1>1. CASE RecordsHistory(e, newInput)
  <2> DEFINE h    == history[e]
             gone == {i \in DOMAIN h : h[i] < time - HistoryLength[e]}
             kept == ShrinkHistory(h, time - HistoryLength[e])
  <2>1. h \in Seq(Nat) /\ Len(h) \in Nat /\ DOMAIN h = 1 .. Len(h)
    BY <1>0
  <2>2. Cardinality(gone) \in Nat
    <3>1. IsFiniteSet(1 .. Len(h))
      BY <2>1, FS_Interval
    <3>2. gone \in SUBSET (1 .. Len(h))
      BY <2>1
    <3> HIDE DEF gone
    <3> QED BY <3>1, <3>2, FS_Subset, FS_CardinalityType
  <2>3. kept = SubSeq(h, Cardinality(gone) + 1, Len(h))
    BY DEF ShrinkHistory
  <2> HIDE DEF h, gone, kept
  <2>4. kept \in Seq(Nat)
    <3> DEFINE first == Cardinality(gone) + 1
    <3>1. \A i \in first .. Len(h) : h[i] \in Nat
      BY <2>1, <2>2
    <3>2. first \in Int /\ Len(h) \in Int
      BY <2>1, <2>2
    <3> HIDE DEF first
    <3>3. SubSeq(h, first, Len(h)) \in Seq(Nat)
      BY <3>1, <3>2, SubSeqProperties
    <3> QED BY <2>3, <3>3 DEF first
  <2>5. Append(kept, time) \in Seq(Nat)
    BY <1>0, <2>4
  <2>6. history' = [history EXCEPT ![e] = Append(kept, time)]
    BY <1>1 DEF RecordHistory, h, kept
  <2>7. largestHistoryEvent' \in Nat
    BY <1>0, <1>1 DEF RecordHistory
  <2> QED BY <1>0, <2>5, <2>6, <2>7
<1>2. CASE ~RecordsHistory(e, newInput)
  BY <1>0, <1>2 DEF RecordHistory
<1> QED BY <1>1, <1>2

LEMMA CallersArguments ==
    /\ \A c \in TryCaller : /\ c[2] \in UserStates /\ c[2][1] \in Element
                             /\ HasInternalState(Type[c[2][1]])
                             /\ c[3] \in BOOLEAN
    /\ \A c \in InputCaller : c[2] \in UserInputs /\ c[3] \in BOOLEAN
<1>1. \A s \in UserStates : s[1] \in Element /\ HasInternalState(Type[s[1]])
  <2> SUFFICES ASSUME NEW s \in UserStates
               PROVE  s[1] \in Element /\ HasInternalState(Type[s[1]])
    OBVIOUS
  <2>1. s[1] \in Element /\ s[2] \in 0 .. (InternalStateSize(Type[s[1]]) - 1)
    BY CallAssumption
  <2> QED BY <2>1 DEF HasInternalState
<1> QED BY <1>1 DEF TryCaller, InputCaller

LEMMA ProcessEventGroupStep ==
    ASSUME IInv, NEW e \in Element, ProcessEventGroup(e)
    PROVE  IInv'
<1> DEFINE G  == Group(time, e)
           in == InputAfter(G)
           st == StateAfter(e, in)
           N  == EventsAfter(e, in, st)
<1>1. /\ TypeOK /\ QueueInvariant /\ InputsFollowOutputs /\ CallOK
      /\ pc \in {"events", "try"}
      /\ G # {}
      /\ input' = in
      /\ state' = st
      /\ RecordHistory(e, in)
      /\ events' = (events \ G) \cup N
      /\ error' = SubmitError(N, events \ G)
      /\ eventCount' = eventCount + Cardinality(G)
      /\ (eventCount < CountMax)'
      /\ UNCHANGED <<time, pc, call>>
  BY DEF IInv, ProcessEventGroup, IsNextGroup
<1>2. /\ time \in Nat /\ events \subseteq Event
      /\ input \in [Inputs -> BOOLEAN]
      /\ DOMAIN state = Element
      /\ \A f \in Element : state[f] \in StateVectors(Type[f])
  BY <1>1 DEF TypeOK, StateVectors
<1>3. in \in [Inputs -> BOOLEAN]
  BY <1>2 DEF InputAfter
<1>4. \A p \in Inputs : in[p] = IF \E ev \in G : ev.input = p
                               THEN \E ev \in G : ev.input = p /\ ev.value
                               ELSE input[p]
  BY DEF InputAfter
<1> HIDE DEF in
<1>5. /\ DOMAIN st = Element
      /\ \A f \in Element \ {e} : st[f] = state[f]
      /\ st[e] \in StateVectors(Type[e])
  <2>1. CASE HasInternalState(Type[e])
    <3> DEFINE v == UpdateInternalState(Type[e], InputCount[e],
                        Uninverted(input, e), Uninverted(in, e), state[e])
    <3>1. v \in StateVectors(Type[e])
      BY <1>2, <1>3, <2>1, UninvertedType, UpdateInternalStateType
    <3>2. st = [state EXCEPT ![e] = v]
      BY <2>1 DEF StateAfter
    <3> HIDE DEF v, st
    <3> QED BY <1>2, <3>1, <3>2
  <2>2. CASE ~HasInternalState(Type[e])
    BY <1>2, <2>2 DEF StateAfter
  <2> QED BY <2>1, <2>2
<1>6. N = ChangedOutputs(time, e, OutputVector(input, state, e),
                         OutputVector(input, state, e)')
  BY <1>1 DEF EventsAfter, OutputVector, OutputValue
<1> HIDE DEF st, N
<1>7. \A ev \in events : ev.time \in Nat /\ ev.time >= time
  BY <1>1, QueueTyped DEF QueueInvariant, EventsNotPast
<1>8. SentBefore(events, e)
  <2> SUFFICES ASSUME NEW o \in Outputs, NEW ev \in events,
                      o[1] = e, Sink[o] = ev.input
               PROVE  ev.time < time + Delay[o]
    BY DEF SentBefore
  <2>1. ev.time <= time + Delay[o] /\ ev.time # time + Delay[o]
    BY <1>1 DEF QueueInvariant, EventsWithinDelay
  <2>2. Delay[o] \in Nat
    BY SchematicConnections
  <2> QED BY <1>2, <1>7, <2>1, <2>2
<1>9. /\ events' \subseteq Event
      /\ SubmitError(N, events \ G) = "none"
      /\ \A ev \in N : ev.time > time /\ IsConnected(ev.input)
      /\ Group(time, e)' = {}
      /\ QueueInvariant'
      /\ InputsFollowOutputs'
  <2>1. G \in SUBSET events /\ \A g \in G : g.time = time /\ g.input[1] = e
    BY DEF Group
  <2>2. \A f \in Element : state'[f] \in StateVectors(Type[f])
    BY <1>1, <1>2, <1>5
  <2>3. Evaluates(e, G, N)
    BY <1>1, <1>3, <1>4, <1>5, <1>6, <1>7, <1>8, <2>1, <2>2 DEF Evaluates
  <2> HIDE DEF G
  <2> QED BY <1>1, <2>3, Evaluation
<1>10. TypeOK'
  <2>1. history' \in [Element -> Seq(Nat)] /\ largestHistoryEvent' \in Nat
    BY <1>1, HistoryType
  <2>2. eventCount' \in Nat
    BY <1>1, GroupSize DEF TypeOK, QueueInvariant
  <2>3. \A f \in Element : state'[f] \in StateVectors(Type[f])
    BY <1>1, <1>2, <1>5
  <2> QED BY <1>1, <1>3, <1>5, <1>9, <2>1, <2>2, <2>3 DEF TypeOK, StateVectors
<1>11. CallOK'
  <2>1. CASE pc = "events"
    <3>1. RunCallOK /\ UNCHANGED <<time, call>>
      BY <1>1, <2>1 DEF CallOK
    <3>2. \A ev \in events' : ~IsConnected(ev.input) => ev \in events
      BY <1>1, <1>9
    <3>3. RunCallOK'
      BY <1>1, <2>1, <3>1, <3>2 DEF RunCallOK, InputCaller
    <3> QED BY <1>1, <2>1, <3>3 DEF CallOK
  <2>2. CASE pc = "try"
    <3> DEFINE f == call.caller[2][1]
    <3>1. TryCallOK /\ UNCHANGED <<time, call, pc>>
      BY <1>1, <2>2 DEF CallOK
    <3>2. f \in Element /\ HasInternalState(Type[f])
      BY <3>1, CallersArguments DEF TryCallOK
    <3>3. /\ Group(time, f) # {} => state[f] = call.startState
          /\ state[f] = call.startState => SentBefore(events, f)
      BY <3>1 DEF TryCallOK
    <3>0. f' = f
      BY <3>1
    <3> HIDE DEF f
    <3>4. Group(time, f)' # {} => state'[f] = call.startState
      <4> SUFFICES ASSUME Group(time, f)' # {} PROVE state'[f] = call.startState
        OBVIOUS
      <4>1. f # e
        BY <1>9, <3>0
      <4>2. PICK ev \in events' : ev.time = time /\ ev.input[1] = f
        BY <1>1, <3>0 DEF Group
      <4>3. ev \in events
        BY <1>1, <1>2, <1>9, <4>2
      <4>4. Group(time, f) # {}
        BY <4>2, <4>3 DEF Group
      <4> QED BY <1>1, <1>5, <3>2, <3>3, <4>1, <4>4
    <3>5. state'[f] = call.startState => SentBefore(events, f)'
      <4> SUFFICES ASSUME state'[f] = call.startState,
                          NEW o \in Outputs, NEW ev \in events',
                          o[1] = f, Sink[o] = ev.input
                   PROVE  ev.time < time + Delay[o]
        BY <1>1, <3>0 DEF SentBefore
      <4>1. state[f] = call.startState
        BY <1>1, <1>5, <3>2, <3>3
      <4>2. ev \notin N
        <5> SUFFICES ASSUME ev \in N PROVE FALSE
          OBVIOUS
        <5>1. PICK q \in Outputs :
                 /\ q[1] = e
                 /\ Sink[q] \in Inputs
                 /\ ev = [time |-> time + Delay[q], input |-> Sink[q],
                          value |-> OutputVector(input, state, e)'[q[2]]]
                 /\ OutputVector(input, state, e)[q[2]]
                       # OutputVector(input, state, e)'[q[2]]
          BY <1>2, <1>6, ChangedOutputsElements
        <5>2. q = o
          BY <5>1, OneDriver, NullNotInput
        <5>3. f = e /\ q[2] \in OutputIds(e)
          BY <5>1, <5>2, OutputPairs
        <5>4. OutputVector(input, state, e)[q[2]]
                = OutputVector(input, state, e)'[q[2]]
          BY <3>2, <4>1, <5>3 DEF OutputVector, OutputValue
        <5> QED BY <5>1, <5>4
      <4>3. ev \in events
        BY <1>1, <4>2
      <4> QED BY <3>3, <4>1, <4>3 DEF SentBefore
    <3>6. TryCallOK'
      BY <3>1, <3>4, <3>5 DEF TryCallOK, TryCaller, f
    <3> QED BY <1>1, <2>2, <3>6 DEF CallOK
  <2> QED BY <1>1, <2>1, <2>2
<1>12. NoError'
  BY <1>1, <1>9 DEF NoError
<1> QED BY <1>1, <1>9, <1>10, <1>11, <1>12 DEF IInv

-----------------------------------------------------------------------------
(***************************************************************************)
(* The ends of the other two calls.                                        *)
(***************************************************************************)
LEMMA SubmitUserInputStep ==
    ASSUME IInv, SubmitUserInput
    PROVE  IInv'
<1> DEFINE p     == call.caller[2]
           value == call.caller[3]
           N     == UserEvents(p, value)
<1>1. /\ TypeOK /\ QueueInvariant /\ InputsFollowOutputs /\ SubmitCallOK
      /\ eventCount < CountMax
      /\ pc = "submit" /\ pc' = "idle"
      /\ events' = events \cup N
      /\ error' = SubmitError(N, events)
      /\ UNCHANGED <<time, input, state, history, largestHistoryEvent,
                     eventCount>>
  BY DEF IInv, SubmitUserInput, CallOK
<1>2. p \in Inputs /\ ~IsConnected(p) /\ value \in BOOLEAN
  BY <1>1, CallersArguments, Limits DEF SubmitCallOK
<1>3. \A ev \in events : IsConnected(ev.input)
  BY <1>1 DEF SubmitCallOK
<1>4. /\ time \in Nat
      /\ \A ev \in events : ev.time > time
      /\ Unique(events)
  BY <1>1 DEF TypeOK, QueueInvariant, EventsNotPast
<1>5. /\ N \subseteq Event
      /\ \A n \in N : n.time = time + 1 /\ n.input = p
      /\ \A m, n \in N : m = n
  <2>1. time + Epsilon = time + 1 /\ time + 1 \in Nat
    BY <1>4 DEF Epsilon
  <2> QED BY <1>2, <2>1 DEF UserEvents, Event
<1> HIDE DEF N, p, value
<1>6. NoError'
  <2>1. ~ \E ev \in N : ev.time <= time
    BY <1>4, <1>5
  <2>2. \A ev \in N, other \in events : ev.input # other.input
    BY <1>2, <1>3, <1>5
  <2> QED BY <1>1, <2>1, <2>2 DEF NoError, SubmitError
<1>7. TypeOK'
  BY <1>1, <1>5 DEF TypeOK
<1>8. QueueInvariant'
  <2>1. Unique(events)'
    BY <1>1, <1>2, <1>3, <1>4, <1>5 DEF Unique
  <2>2. EventsNotPast'
    BY <1>1, <1>4, <1>5 DEF EventsNotPast
  <2>3. EventsWithinDelay'
    <3> SUFFICES ASSUME NEW o \in Outputs, NEW ev \in events',
                        Sink[o] = ev.input
                 PROVE  /\ ev.time <= time + Delay[o]
                        /\ ev.time = time + Delay[o] => Group(time, o[1])' = {}
      BY <1>1 DEF EventsWithinDelay
    <3>1. ev \in events
      BY <1>1, <1>2, <1>5 DEF IsConnected, Drives
    <3>2. Group(time, o[1])' = {}
      BY <1>1, <1>4, <1>5 DEF Group
    <3> QED BY <1>1, <3>1, <3>2 DEF QueueInvariant, EventsWithinDelay
  <2>4. UserEventsNext'
    BY <1>1, <1>4, <1>5 DEF QueueInvariant, UserEventsNext, Epsilon
  <2> QED BY <2>1, <2>2, <2>3, <2>4 DEF QueueInvariant
<1>9. InputsFollowOutputs'
  <2> SUFFICES ASSUME NEW o \in Outputs, Sink[o] # NullInput
               PROVE  Follows(events \cup N, input, Sink[o],
                              OutputValue(input, state, o[1], o[2]))
    BY <1>1 DEF InputsFollowOutputs, IsLast, Follows, OutputValue
  <2>1. \A n \in N : n.input # Sink[o]
    BY <1>2, <1>5 DEF IsConnected, Drives
  <2>2. Follows(events, input, Sink[o], OutputValue(input, state, o[1], o[2]))
    BY <1>1 DEF InputsFollowOutputs, IsLast, Follows
  <2> HIDE DEF N
  <2> QED BY <2>1, <2>2 DEF Follows
<1>10. CallOK'
  BY <1>1 DEF CallOK
<1> QED BY <1>1, <1>6, <1>7, <1>8, <1>9, <1>10 DEF IInv

\* The next try: the time moves on, the state of the element is remembered.
LEMMA NextTry ==
    ASSUME IInv, NEW caller \in TryCaller, NEW tries \in Nat,
           \A ev \in events : ev.time > time,
           time' = time + Epsilon,
           pc' = "try",
           call' = TryCall(caller[2], caller[3], tries),
           error' = IF NextEventAfter(time) THEN SetTimeError(time + Epsilon)
                    ELSE CurrentEventsDone,
           UNCHANGED <<events, input, state, history, largestHistoryEvent,
                       eventCount>>
    PROVE  IInv'
<1> DEFINE next == time + Epsilon
<1>1. /\ TypeOK /\ QueueInvariant /\ InputsFollowOutputs
      /\ eventCount < CountMax
  BY DEF IInv
<1>2. time \in Nat /\ next \in Nat /\ next > time /\ next = time + 1
  BY <1>1 DEF TypeOK, Epsilon
<1>3. \A ev \in events : ev.time >= next
  BY <1>1, <1>2, QueueTyped
<1> HIDE DEF next
<1>4. TypeOK'
  BY <1>1, <1>2 DEF TypeOK, next
<1>5. NoError'
  <2>1. NextEventAfter(time)
    BY DEF NextEventAfter
  <2>2. ~(next < time) /\ \A ev \in events : ~(ev.time < next)
    BY <1>1, <1>2, <1>3, QueueTyped
  <2> QED BY <2>1, <2>2 DEF NoError, SetTimeError, next
<1>6. time' = next
  BY DEF next
<1>7. QueueInvariant' /\ \A e \in Element : SentBefore(events, e)'
  BY <1>1, <1>2, <1>3, <1>6, TimeMoves DEF QueueInvariant, EventsNotPast
<1>8. CallOK'
  <2> DEFINE e == caller[2][1]
  <2>1. caller[2] \in UserStates /\ e \in Element /\ caller[3] \in BOOLEAN
    BY CallersArguments
  <2>2. caller = <<"try_set_internal_state", caller[2], caller[3]>>
    BY DEF TryCaller
  <2>3. /\ call'.caller = caller
        /\ call'.tries = tries
        /\ call'.startState = state[e]
    BY <2>2 DEF TryCall
  <2>4. TryCallOK'
    BY <1>7, <2>1, <2>3 DEF TryCallOK, TryCaller, SentBefore
  <2> QED BY <2>4 DEF CallOK
<1>9. InputsFollowOutputs'
  BY <1>1, CircuitKept
<1> QED BY <1>1, <1>4, <1>5, <1>7, <1>8, <1>9 DEF IInv

LEMMA TrySetInternalStateStep ==
    ASSUME IInv, NEW s \in UserStates, NEW value \in BOOLEAN,
           TrySetInternalState(s, value)
    PROVE  IInv'
<1> DEFINE caller == <<"try_set_internal_state", s, value>>
<1>1. \A ev \in events : ev.time > time
  BY DEF IInv, TrySetInternalState, QueueInvariant, EventsNotPast
<1>2. caller \in TryCaller /\ caller[2] = s /\ caller[3] = value
  BY DEF TryCaller
<1> HIDE DEF caller
<1> QED BY <1>1, <1>2, NextTry DEF TrySetInternalState

LEMMA TryAgainStep ==
    ASSUME IInv, TryAgain
    PROVE  IInv'
<1>1. TypeOK /\ QueueInvariant /\ pc = "try" /\ TryCallOK /\ ~IsNextTime(time)
  BY DEF IInv, TryAgain, TryPointDone, CallOK
<1>2. \A ev \in events : ev.time > time
  BY <1>1, PointDone
<1>3. call.caller \in TryCaller /\ call.tries + 1 \in Nat
  BY <1>1 DEF TryCallOK
<1> QED BY <1>1, <1>2, <1>3, NextTry DEF TryAgain

LEMMA GiveUpStep ==
    ASSUME IInv, GiveUp
    PROVE  IInv'
<1>1. /\ TypeOK /\ QueueInvariant /\ InputsFollowOutputs
      /\ eventCount < CountMax
      /\ pc = "try" /\ ~IsNextTime(time) /\ pc' = "idle"
      /\ error' = CurrentEventsDone
      /\ UNCHANGED <<time, events, input, state, history, largestHistoryEvent,
                     eventCount>>
  BY DEF IInv, GiveUp, TryPointDone
<1>2. NextEventAfter(time) /\ \A ev \in events : ev.time > time
  BY <1>1, PointDone
<1>3. TypeOK' /\ NoError' /\ CallOK'
  BY <1>1, <1>2 DEF TypeOK, NoError, CurrentEventsDone, CallOK
<1>4. QueueInvariant' /\ InputsFollowOutputs'
  BY <1>1, <1>2, QueueKept, CircuitKept
<1> QED BY <1>1, <1>3, <1>4 DEF IInv

LEMMA WriteInternalStateStep ==
    ASSUME IInv, WriteInternalState
    PROVE  IInv'
<1>1. /\ TypeOK /\ QueueInvariant /\ InputsFollowOutputs /\ TryCallOK
      /\ eventCount < CountMax
      /\ pc = "try" /\ pc' = "idle" /\ ~IsNextTime(time)
  BY DEF IInv, WriteInternalState, CallOK, TryPointDone
<1>2. PICK e \in Element, value \in BOOLEAN :
         call.caller[2][1] = e /\ call.caller[3] = value
  <2>1. call.caller[2][1] \in Element /\ call.caller[3] \in BOOLEAN
    BY <1>1, CallersArguments DEF TryCallOK
  <2> QED BY <2>1
<1>14. PICK i : call.caller[2][2] = i
  OBVIOUS
<1> DEFINE st == [state EXCEPT ![e][i] = value]
           N  == ChangedOutputs(time, e, OutputVector(input, state, e),
                                OutputVector(input, st, e))
<1>3. /\ state[e] = call.startState
      /\ state' = st
      /\ events' = events \cup N
      /\ error' = IF NextEventAfter(time) THEN SubmitError(N, events)
                  ELSE CurrentEventsDone
      /\ UNCHANGED <<time, input, history, largestHistoryEvent, eventCount>>
  BY <1>2, <1>14 DEF WriteInternalState, TryStateChanged
<1>4. NextEventAfter(time) /\ \A ev \in events : ev.time > time
  BY <1>1, PointDone
<1>5. /\ time \in Nat /\ input \in [Inputs -> BOOLEAN]
      /\ DOMAIN state = Element
      /\ \A f \in Element : state[f] \in StateVectors(Type[f])
  BY <1>1 DEF TypeOK, StateVectors
<1>6. /\ DOMAIN st = Element
      /\ \A f \in Element \ {e} : st[f] = state[f]
      /\ st[e] \in StateVectors(Type[e])
  <2> DEFINE v == [state[e] EXCEPT ![i] = value]
  <2>1. v \in StateVectors(Type[e])
    BY <1>5, WriteBit DEF StateVectors
  <2>2. st = [state EXCEPT ![e] = v]
    OBVIOUS
  <2> HIDE DEF v, st
  <2> QED BY <1>5, <2>1, <2>2
<1> HIDE DEF st
<1>7. N = ChangedOutputs(time, e, OutputVector(input, state, e),
                         OutputVector(input, state, e)')
  <2>1. OutputVector(input, state, e)' = OutputVector(input, st, e)
    BY <1>3 DEF OutputVector, OutputValue
  <2> QED BY <2>1
<1>8. SentBefore(events, e)
  BY <1>1, <1>2, <1>3 DEF TryCallOK
<1> HIDE DEF N
<1>9. Evaluates(e, {}, N)
  <2>1. Group(time, e) = {}
    BY <1>4, <1>5 DEF Group
  <2>2. \A ev \in events : ev.time >= time
    BY <1>1, <1>4, <1>5, QueueTyped
  <2>3. \A f \in Element : state'[f] \in StateVectors(Type[f])
    BY <1>3, <1>5, <1>6
  <2>4. events' = (events \ {}) \cup N
    BY <1>3
  <2> QED BY <1>3, <1>4, <1>5, <1>6, <1>7, <1>8, <2>1, <2>2, <2>3, <2>4
          DEF Evaluates
<1>10. /\ events' \subseteq Event
       /\ SubmitError(N, events \ {}) = "none"
       /\ QueueInvariant'
       /\ InputsFollowOutputs'
  BY <1>1, <1>9, Evaluation
<1>11. TypeOK'
  <2>1. \A f \in Element : state'[f] \in StateVectors(Type[f])
    BY <1>3, <1>5, <1>6
  <2> QED BY <1>1, <1>3, <1>6, <1>10, <2>1 DEF TypeOK, StateVectors
<1>12. NoError'
  <2>1. events \ {} = events
    OBVIOUS
  <2> QED BY <1>3, <1>4, <1>10, <2>1 DEF NoError
<1>13. CallOK'
  BY <1>1 DEF CallOK
<1> QED BY <1>1, <1>3, <1>10, <1>11, <1>12, <1>13 DEF IInv

-----------------------------------------------------------------------------
(***************************************************************************)
(* The theorems.                                                           *)
(***************************************************************************)

\* Every step of every call keeps the invariant.
THEOREM StepInvariant == IInv /\ [Next]_vars => IInv'
<1> SUFFICES ASSUME IInv, [Next]_vars PROVE IInv'
  OBVIOUS
<1>1. CASE \E cfg \in RunConfigs : StartRun(cfg)
  BY <1>1, StartRunStep
<1>2. CASE \E p \in UserInputs, value \in BOOLEAN : SetUnconnectedInput(p, value)
  BY <1>2, SetUnconnectedInputStep
<1>3. CASE \E s \in UserStates, value \in BOOLEAN : TrySetInternalState(s, value)
  BY <1>3, TrySetInternalStateStep
<1>4. CASE CallStep
  <2>1. CASE \E e \in Element : ProcessEventGroup(e)
    BY <2>1, ProcessEventGroupStep
  <2>2. CASE AdvanceToNextEvent
    BY <2>2, AdvanceStep
  <2>3. CASE ContinueRun \/ ContinueAfterCheck
    BY <2>3, ContinueStep
  <2>4. CASE StopRun
    BY <2>4, StopStep
  <2>5. CASE EndRun
    BY <2>5, EndStep
  <2>6. CASE SubmitUserInput
    BY <2>6, SubmitUserInputStep
  <2>7. CASE TryAgain
    BY <2>7, TryAgainStep
  <2>8. CASE GiveUp
    BY <2>8, GiveUpStep
  <2>9. CASE WriteInternalState
    BY <2>9, WriteInternalStateStep
  <2> QED BY <1>4, <2>1, <2>2, <2>3, <2>4, <2>5, <2>6, <2>7, <2>8, <2>9
          DEF CallStep
<1>5. CASE UNCHANGED vars
  <2> USE <1>5 DEF vars, IInv
  <2>1. TypeOK' /\ NoError' /\ CallOK'
    BY DEF TypeOK, NoError, CallOK, RunCallOK, SubmitCallOK, TryCallOK,
           TryCaller, InputCaller, Group, SentBefore
  <2>2. QueueInvariant'
    BY QueueKept
  <2>3. InputsFollowOutputs'
    BY CircuitKept
  <2> QED BY <2>1, <2>2, <2>3
<1> QED BY <1>1, <1>2, <1>3, <1>4, <1>5 DEF Next

THEOREM Invariant == Spec => []IInv
BY InitInvariant, StepInvariant, PTL DEF Spec

\* Values, states, events and times stay what they are typed to be, for every
\* schematic (the narrow C++ types of simulation.h excepted).
THEOREM TypeCorrect == Spec => []TypeOK
<1>1. IInv => TypeOK
  BY DEF IInv
<1> QED BY <1>1, Invariant, PTL

\* On no schematic and under no sequence of calls does the simulation throw
\* from its queue, lose the order of time or fail a contract.
THEOREM NeverFails == Spec => []NoError
<1>1. IInv => NoError
  BY DEF IInv
<1> QED BY <1>1, Invariant, PTL

\* How far ahead the queued events are: never in the past, never two for one
\* input and time, and within the delay of the output that sent them.
THEOREM QueueBounded == Spec => []QueueInvariant
<1>1. IInv => QueueInvariant
  BY DEF IInv
<1> QED BY <1>1, Invariant, PTL

\* A caller never sees a time point that is processed in part
\* (class invariant of Simulation, simulation.h:94).
THEOREM TimePointsComplete == Spec => []CurrentEventsSimulated
<1>1. IInv => CurrentEventsSimulated
  BY NoCurrentEvents DEF IInv, CurrentEventsSimulated
<1> QED BY <1>1, Invariant, PTL

\* No output change is lost or overtaken on any schematic.
THEOREM InputsFollow == Spec => []InputsFollowOutputs
<1>1. IInv => InputsFollowOutputs
  BY DEF IInv
<1> QED BY <1>1, Invariant, PTL

\* In a circuit that has settled every connected input holds what the element
\* that drives it outputs.
Settled == \A o \in Outputs : Sink[o] # NullInput =>
              input[Sink[o]] = OutputValue(input, state, o[1], o[2])

THEOREM FinishedIsSettled == Spec => [](IsFinished => Settled)
<1>1. IInv => (IsFinished => Settled)
  BY DEF IInv, InputsFollowOutputs, IsFinished, Settled
<1> QED BY <1>1, Invariant, PTL

\* The event limit is never overrun by more than one time point, although the
\* run compares the count only at its checks.
THEOREM LimitNeverOverrun == Spec => LimitRespected
<1>1. IInv /\ [Next]_vars => [pc = "run" /\ pc' = "events" =>
                                  eventCount < call.maxCount]_vars
  BY DEF IInv, CallOK, RunCallOK
<1> QED BY <1>1, Invariant, PTL DEF Spec, LimitRespected

\* A run that is not interrupted ends at its end time, an infinite one with
\* nothing left to simulate or to show.
THEOREM RunsComplete == Spec => RunEndsComplete
<1>1. ASSUME IInv, Next, pc = "run", pc' \in {"idle", "submit"}
      PROVE  IF call.infinite THEN IsFinished' ELSE time' = call.end
  <2>1. EndRun
    BY <1>1 DEF Next, CallStep, StartRun, SetUnconnectedInput,
          TrySetInternalState, ProcessEventGroup, AdvanceToNextEvent,
          ContinueRun, ContinueAfterCheck, StopRun, SubmitUserInput, TryAgain,
          GiveUp, WriteInternalState, TimePointDone, TryPointDone
  <2>2. CASE call.infinite
    <3>1. time \in Nat /\ largestHistoryEvent \in Nat
      BY <1>1 DEF IInv, TypeOK
    <3>2. EndTime >= largestHistoryEvent
      BY <2>2, <3>1 DEF EndTime, LargerOf
    <3> QED BY <2>1, <2>2, <3>2 DEF EndRun, IsFinished
  <2>3. CASE ~call.infinite
    BY <2>1, <2>3 DEF EndRun, EndTime
  <2> QED BY <2>2, <2>3
<1>2. IInv /\ [Next]_vars => [pc = "run" /\ pc' \in {"idle", "submit"} =>
          IF call.infinite THEN IsFinished' ELSE time' = call.end]_vars
  BY <1>1
<1> QED BY <1>2, Invariant, PTL DEF Spec, RunEndsComplete
=============================================================================
