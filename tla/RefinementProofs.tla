-------------------------- MODULE RefinementProofs ---------------------------
(***************************************************************************)
(* The event loop implements the synchronous machine, on every schematic.  *)
(* The mapping completes the time point that is being processed, so that   *)
(* processing a group must change nothing in it: the group's events take   *)
(* effect on its own element only, and what the element sends lies in the  *)
(* future.  All other steps happen while nothing is due, where the mapping *)
(* is the simulation as it is.                                             *)
(***************************************************************************)
EXTENDS SimulationRefinement, SimulationHistory, SimulationProofs

\* The synchronous machine and the simulation use the same schematic and element logic.
LEMMA SameSchematic ==
    /\ Synchronous!Element = Element
    /\ Synchronous!Inputs = Inputs /\ Synchronous!Outputs = Outputs
    /\ Synchronous!NullInput = NullInput
    /\ \A e : Synchronous!OutputIds(e) = OutputIds(e)
    /\ \A p : Synchronous!IsConnected(p) = IsConnected(p)
    /\ \A in, e : Synchronous!Uninverted(in, e) = Uninverted(in, e)
  BY DEF Synchronous!Element, Element, Synchronous!Inputs, Inputs, Synchronous!Outputs,
         Outputs, Synchronous!NullInput, NullInput, Synchronous!OutputIds, OutputIds,
         Synchronous!InputIds, InputIds, Synchronous!IsConnected, IsConnected,
         Synchronous!Drives, Drives, Synchronous!Uninverted, Uninverted

\* They agree on which elements have a state,
LEMMA SameState ==
    \A type : Synchronous!HasInternalState(type) = HasInternalState(type)
  BY DEF Synchronous!HasInternalState, HasInternalState, Synchronous!InternalStateSize,
         InternalStateSize

\* on how new inputs change it,
LEMMA SameUpdate ==
    \A type, count, old, new, st :
        Synchronous!UpdateInternalState(type, count, old, new, st)
            = UpdateInternalState(type, count, old, new, st)
  BY DEF Synchronous!UpdateInternalState, UpdateInternalState,
         Synchronous!UpdateClockGenerator, UpdateClockGenerator,
         Synchronous!UpdateFlipflopJK, UpdateFlipflopJK,
         Synchronous!UpdateShiftRegister, UpdateShiftRegister,
         Synchronous!UpdateFlipflopD, UpdateFlipflopD,
         Synchronous!UpdateFlipflopMsD, UpdateFlipflopMsD,
         Synchronous!RisingEdge, RisingEdge, Synchronous!FallingEdge, FallingEdge

\* and on what an element outputs.
LEMMA SameOutputs ==
    \A in, st, e, j : Synchronous!OutputValue(in, st, e, j) = OutputValue(in, st, e, j)
  BY DEF Synchronous!OutputValue, OutputValue, Synchronous!OutputFromState, OutputFromState,
         Synchronous!OutputFromInputs, OutputFromInputs, Synchronous!HasInternalState,
         HasInternalState, Synchronous!InternalStateSize, InternalStateSize,
         Synchronous!Uninverted, Uninverted, InputIds, Synchronous!InputIds

\* What the machine sends for a set of elements is what each of them submits.
LEMMA SentIsSubmitted ==
    ASSUME NEW E \in SUBSET Element, NEW t, NEW in1, NEW st1, NEW in2, NEW st2
    PROVE  Synchronous!Sent(E, t, in1, st1, in2, st2) =
             UNION {ChangedOutputs(t, e, OutputVector(in1, st1, e),
                                         OutputVector(in2, st2, e)) : e \in E}
<1> DEFINE L == Synchronous!Sent(E, t, in1, st1, in2, st2)
           C(e) == ChangedOutputs(t, e, OutputVector(in1, st1, e), OutputVector(in2, st2, e))
           Ev(o) == [time |-> t + Delay[o], input |-> Sink[o],
                     value |-> OutputValue(in2, st2, o[1], o[2])]
           Changed(o) == OutputValue(in1, st1, o[1], o[2]) # OutputValue(in2, st2, o[1], o[2])
<1>1. \A x : x \in L <=> \E o \in Outputs : /\ o[1] \in E /\ Sink[o] # NullInput
                                           /\ Changed(o) /\ x = Ev(o)
  BY SameSchematic, SameOutputs DEF Synchronous!Sent
<1>2. \A e \in E : \A x : x \in C(e) <=> \E j \in OutputIds(e) :
                         /\ Sink[<<e, j>>] # NullInput
                         /\ Changed(<<e, j>>) /\ x = Ev(<<e, j>>)
  BY DEF ChangedOutputs, OutputVector
<1> HIDE DEF L, C, Ev, Changed
<1>3. ASSUME NEW x \in L PROVE \E e \in E : x \in C(e)
  <2>1. PICK o \in Outputs : /\ o[1] \in E /\ Sink[o] # NullInput
                             /\ Changed(o) /\ x = Ev(o)
    BY <1>1, <1>3
  <2>2. o[2] \in OutputIds(o[1]) /\ o = <<o[1], o[2]>>
    BY OutputPairs
  <2> QED
    BY <1>2, <2>1, <2>2
<1>4. ASSUME NEW e \in E, NEW x \in C(e) PROVE x \in L
  <2>1. PICK j \in OutputIds(e) : /\ Sink[<<e, j>>] # NullInput
                                  /\ Changed(<<e, j>>) /\ x = Ev(<<e, j>>)
    BY <1>2, <1>4
  <2>2. <<e, j>> \in Outputs /\ <<e, j>>[1] = e
    BY OutputPairs
  <2> QED
    BY <1>1, <2>1, <2>2
<1>5. L = UNION {C(e) : e \in E}
  BY <1>3, <1>4
<1> QED
  BY <1>5 DEF L, C

-----------------------------------------------------------------------------
\* The states of the elements are a function, which the types alone do not say.
StateFunction == state = [e \in Element |-> state[e]]

\* The machine is in the state of the simulation.
Plain == /\ CompletedInput = input
         /\ CompletedState = state
         /\ CompletedEvents = events

\* It is when nothing is due.
LEMMA NothingDue == TypeOK /\ StateFunction /\ NextEventAfter(time) => Plain
<1> SUFFICES ASSUME TypeOK, StateFunction, NextEventAfter(time) PROVE Plain
  OBVIOUS
<1>1. Due = {} /\ Touched = {}
  BY QueueTyped DEF Due, Touched, NextEventAfter, TypeOK
<1>2. CompletedInput = input
  BY <1>1 DEF CompletedInput, InputAfter, TypeOK
<1>3. CompletedState = state
  BY <1>1 DEF CompletedState, StateFunction
<1>4. CompletedEvents = events
  BY <1>1 DEF CompletedEvents
<1> QED
  BY <1>2, <1>3, <1>4 DEF Plain

\* It is in the next state, too.
LEMMA NothingDueNext ==
    TypeOK' /\ StateFunction' /\ NextEventAfter(time)' =>
        /\ CompletedInput' = input' /\ CompletedState' = state' /\ CompletedEvents' = events'
<1>1. TypeOK' /\ StateFunction' /\ NextEventAfter(time)' => Plain'
  BY NothingDue, PTL
<1> QED
  BY <1>1 DEF Plain

\* The states stay a function.
LEMMA StateFunctionStep == StateFunction /\ [Next]_vars => StateFunction'
  BY DEF StateFunction, Next, vars, CallStep, StartRun, SetUnconnectedInput,
         TrySetInternalState, ProcessEventGroup, StateAfter, AdvanceToNextEvent,
         ContinueRun, ContinueAfterCheck, StopRun, EndRun, SubmitUserInput, TryAgain,
         GiveUp, WriteInternalState

-----------------------------------------------------------------------------
\* The steps of the machine, from a state in which nothing is due.

\* The time moves to events that wait, which take effect at once.
LEMMA ReachesTimePoint ==
    ASSUME TypeOK, StateFunction, NextEventAfter(time), UNCHANGED <<events, input, state>>,
           time' \in Nat, time' > time, IsNextTime(time')
    PROVE  Synchronous!TimePoint
<1> DEFINE t == time'
           D == {ev \in events : ev.time = t}
           T == {ev.input[1] : ev \in D}
           in2 == InputAfter(D)
           st2 == [e \in Element |-> IF e \in T THEN StateAfter(e, in2)[e] ELSE state[e]]
<1>1. Plain
  BY NothingDue
<1>2. Due' = D /\ Touched' = T
  BY DEF Due, Touched
<1>3. /\ Synchronous!Due(t) = D /\ Synchronous!Touched(t) = T
  BY <1>1 DEF Synchronous!Due, Synchronous!Touched, Plain
<1>4. CompletedInput' = in2 /\ Synchronous!NewInput(t) = in2
  BY <1>1, <1>2, <1>3, SameSchematic
  DEF CompletedInput, InputAfter, Synchronous!NewInput, Plain
<1>5. CompletedState' = st2
  BY <1>2, <1>4 DEF CompletedState, StateAfter
<1>6. Synchronous!NewState(t) = st2
  <2>1. ASSUME NEW e \in Element
        PROVE  StateAfter(e, in2)[e] =
                 IF HasInternalState(Type[e])
                 THEN UpdateInternalState(Type[e], InputCount[e], Uninverted(input, e),
                                          Uninverted(in2, e), state[e])
                 ELSE state[e]
    BY DEF StateAfter, TypeOK
  <2>2. Synchronous!NewState(t) =
          [e \in Element |->
             IF e \in T /\ HasInternalState(Type[e])
             THEN UpdateInternalState(Type[e], InputCount[e], Uninverted(input, e),
                                      Uninverted(in2, e), state[e])
             ELSE state[e]]
    BY <1>1, <1>3, <1>4, SameSchematic, SameState, SameUpdate
    DEF Synchronous!NewState, Plain
  <2> HIDE DEF T, in2
  <2> QED
    BY <2>1, <2>2
<1>7. CompletedEvents' = (events \ D) \cup
                         Synchronous!Sent(T, t, input, state, in2, st2)
  <2>1. T \in SUBSET Element
    BY QueueTyped, InputPairs DEF TypeOK
  <2> HIDE DEF T, D, in2, st2
  <2>2. CompletedEvents' = (events \ D) \cup
          UNION {ChangedOutputs(t, e, OutputVector(input, state, e),
                                      OutputVector(in2, st2, e)) : e \in T}
    BY <1>2, <1>4, <1>5 DEF CompletedEvents, EventsAfter
  <2> QED
    BY <2>1, <2>2, SentIsSubmitted
<1> HIDE DEF D, T, in2, st2
<1>8. Synchronous!NextTime(t) /\ t \in {ev.time : ev \in CompletedEvents}
  BY <1>1 DEF Synchronous!NextTime, IsNextTime, Plain
<1>9. /\ CompletedEvents' = (CompletedEvents \ Synchronous!Due(t)) \cup
             Synchronous!Sent(Synchronous!Touched(t), t, CompletedInput, CompletedState,
                              Synchronous!NewInput(t), Synchronous!NewState(t))
      /\ CompletedInput' = Synchronous!NewInput(t)
      /\ CompletedState' = Synchronous!NewState(t)
  BY <1>1, <1>3, <1>4, <1>5, <1>6, <1>7 DEF Plain
<1> QED
  BY <1>8, <1>9 DEF Synchronous!TimePoint

\* The time moves without reaching an event.
LEMMA Waits ==
    ASSUME TypeOK, StateFunction, TypeOK', StateFunction', NextEventAfter(time),
           UNCHANGED <<events, input, state>>,
           time' > time, \A ev \in events : ev.time > time'
    PROVE  Synchronous!TimePasses
<1>1. Plain
  BY NothingDue
<1>2. NextEventAfter(time)'
  BY DEF NextEventAfter
<1>3. CompletedInput' = input' /\ CompletedState' = state' /\ CompletedEvents' = events'
  BY <1>2, NothingDueNext
<1>4. \A ev \in events : time' < ev.time
  BY QueueTyped DEF TypeOK
<1> QED
  BY <1>1, <1>3, <1>4 DEF Synchronous!TimePasses, Plain

-----------------------------------------------------------------------------
\* What an element outputs depends on its own inputs and its own state.
LEMMA SameElement ==
    ASSUME NEW e, NEW in1, NEW st1, NEW in2, NEW st2,
           Uninverted(in1, e) = Uninverted(in2, e), st1[e] = st2[e]
    PROVE  OutputVector(in1, st1, e) = OutputVector(in2, st2, e)
  BY DEF OutputVector, OutputValue

\* What an element sends arrives later.
LEMMA SentLater ==
    ASSUME TypeOK, NEW e \in Element, NEW old, NEW new
    PROVE  \A ev \in ChangedOutputs(time, e, old, new) : ev.time > time
<1> SUFFICES ASSUME NEW ev \in ChangedOutputs(time, e, old, new) PROVE ev.time > time
  OBVIOUS
<1>1. PICK j \in OutputIds(e) : ev.time = time + Delay[<<e, j>>]
  BY DEF ChangedOutputs
<1>2. Delay[<<e, j>>] \in Nat /\ Delay[<<e, j>>] > 0
  BY OutputPairs, QueueTyped
<1>3. time \in Nat
  BY DEF TypeOK
<1> QED
  BY <1>1, <1>2, <1>3

\* The group of an element at the present time, and what the others have left.
LEMMA GroupIsDue ==
    ASSUME TypeOK, NEW e \in Element, NEW N, \A ev \in N : ev.time > time,
           events' = (events \ Group(time, e)) \cup N, time' = time,
           Group(time, e) # {}
    PROVE  /\ Due' = {ev \in Due : ev.input[1] # e}
           /\ Touched' = Touched \ {e}
           /\ e \in Touched
           /\ events' \ Due' = (events \ Due) \cup N
<1>0. time \in Nat
  BY DEF TypeOK
<1>1. Group(time, e) = {ev \in Due : ev.input[1] = e}
  BY DEF Group, Due
<1>2. \A ev \in N : ev.time # time
  BY <1>0
<1>3. Due' = {ev \in Due : ev.input[1] # e}
  BY <1>1, <1>2 DEF Due
<1>4. Touched' = Touched \ {e} /\ e \in Touched
  BY <1>1, <1>3 DEF Touched
<1>5. events' \ Due' = (events \ Due) \cup N
  <2>1. \A ev \in Due : ev \notin N
    BY <1>2 DEF Due
  <2> QED
    BY <1>1, <1>3, <2>1
<1> QED
  BY <1>3, <1>4, <1>5

\* The machine has already done what processing a group does.
LEMMA GroupStutters ==
    ASSUME IInv, StateFunction, NEW e \in Element, ProcessEventGroup(e)
    PROVE  UNCHANGED Synchronous!vars
<1> DEFINE G  == Group(time, e)
           in == InputAfter(G)
           N  == EventsAfter(e, in, StateAfter(e, in))
<1>1. /\ G # {}
      /\ input' = in /\ state' = StateAfter(e, in)
      /\ events' = (events \ G) \cup N
      /\ time' = time
  BY DEF ProcessEventGroup, IsNextGroup
<1>2. /\ TypeOK /\ TypeOK' /\ StateFunction'
  <2>1. IInv'
    BY ProcessEventGroupStep
  <2>2. StateFunction'
    <3>1. [Next]_vars
      BY DEF Next, CallStep
    <3> QED
      BY <3>1, StateFunctionStep
  <2> QED
    BY <2>1, <2>2 DEF IInv
<1>3. \A ev \in N : ev.time > time
  BY <1>2, SentLater DEF EventsAfter
<1>4. N = ChangedOutputs(time, e, OutputVector(input, state, e),
                                  OutputVector(input', state', e))
  BY <1>1 DEF EventsAfter
<1> HIDE DEF N
<1>5. /\ Due' = {ev \in Due : ev.input[1] # e}
      /\ Touched' = Touched \ {e} /\ e \in Touched
      /\ events' \ Due' = (events \ Due) \cup N
  BY <1>1, <1>2, <1>3, GroupIsDue
<1>6. /\ \A p \in Inputs : p[1] = e => input'[p] = CompletedInput[p]
      /\ \A p \in Inputs : p[1] # e => input'[p] = input[p]
  BY <1>1 DEF InputAfter, CompletedInput, Due, Group
<1>7. /\ Uninverted(input', e) = Uninverted(CompletedInput, e)
      /\ \A f \in Element \ {e} : Uninverted(input', f) = Uninverted(input, f)
  BY <1>6, InputPairs DEF Uninverted
<1>8. CompletedInput' = CompletedInput
  <2>1. \A p \in Inputs :
           CompletedInput'[p] = IF \E ev \in Due' : ev.input = p
                                THEN \E ev \in Due' : ev.input = p /\ ev.value
                                ELSE input'[p]
    BY DEF CompletedInput, InputAfter
  <2>2. \A p \in Inputs :
           CompletedInput[p] = IF \E ev \in Due : ev.input = p
                               THEN \E ev \in Due : ev.input = p /\ ev.value
                               ELSE input[p]
    BY DEF CompletedInput, InputAfter
  <2>3. \A p \in Inputs : CompletedInput'[p] = CompletedInput[p]
    <3> SUFFICES ASSUME NEW p \in Inputs PROVE CompletedInput'[p] = CompletedInput[p]
      OBVIOUS
    <3>1. CASE p[1] = e
      <4>1. ~ \E ev \in Due' : ev.input = p
        BY <1>5, <3>1
      <4>2. CompletedInput'[p] = input'[p]
        BY <2>1, <4>1
      <4> QED
        BY <1>6, <3>1, <4>2
    <3>2. CASE p[1] # e
      <4>1. \A ev : ev.input = p => (ev \in Due' <=> ev \in Due)
        BY <1>5, <3>2
      <4>2. input'[p] = input[p]
        BY <1>6, <3>2
      <4>3. /\ (\E ev \in Due' : ev.input = p) <=> (\E ev \in Due : ev.input = p)
            /\ (\E ev \in Due' : ev.input = p /\ ev.value)
                 <=> (\E ev \in Due : ev.input = p /\ ev.value)
        BY <4>1
      <4>4. /\ (\E ev \in Due' : ev.input = p /\ ev.value)
                 = (\E ev \in Due : ev.input = p /\ ev.value)
        BY <4>3
      <4> QED
        BY <2>1, <2>2, <4>2, <4>3, <4>4
    <3> QED
      BY <3>1, <3>2
  <2>4. /\ CompletedInput = [p \in Inputs |-> CompletedInput[p]]
        /\ CompletedInput' = [p \in Inputs |-> CompletedInput'[p]]
    BY DEF CompletedInput, InputAfter
  <2> QED
    BY <2>3, <2>4
<1>9. state'[e] = CompletedState[e]
  <2>1. StateAfter(e, in)[e] = StateAfter(e, CompletedInput)[e]
    BY <1>1, <1>2, <1>7 DEF StateAfter, TypeOK
  <2> QED
    BY <1>1, <1>5, <2>1 DEF CompletedState
<1>10. \A f \in Element \ {e} : state'[f] = state[f]
  BY <1>1, <1>2 DEF StateAfter, TypeOK
<1>11. CompletedState' = CompletedState
  <2>1. ASSUME NEW f \in Element PROVE CompletedState'[f] = CompletedState[f]
    <3>1. CASE f = e
      BY <1>5, <1>9, <3>1 DEF CompletedState
    <3>2. CASE f # e /\ f \in Touched
      <4>1. StateAfter(f, CompletedInput)[f] =
              IF HasInternalState(Type[f])
              THEN UpdateInternalState(Type[f], InputCount[f], Uninverted(input, f),
                                       Uninverted(CompletedInput, f), state[f])
              ELSE state[f]
        BY <1>2 DEF StateAfter, TypeOK
      <4>2. StateAfter(f, CompletedInput)'[f] =
              IF HasInternalState(Type[f])
              THEN UpdateInternalState(Type[f], InputCount[f], Uninverted(input', f),
                                       Uninverted(CompletedInput', f), state'[f])
              ELSE state'[f]
        BY <1>2 DEF StateAfter, TypeOK
      <4> QED
        BY <1>5, <1>7, <1>8, <1>10, <3>2, <4>1, <4>2 DEF CompletedState
    <3>3. CASE f # e /\ f \notin Touched
      BY <1>5, <1>10, <3>3 DEF CompletedState
    <3> QED
      BY <3>1, <3>2, <3>3
  <2>2. /\ CompletedState = [f \in Element |-> CompletedState[f]]
        /\ CompletedState' = [f \in Element |-> CompletedState'[f]]
    BY DEF CompletedState
  <2> QED
    BY <2>1, <2>2
<1>12. CompletedEvents' = CompletedEvents
  <2> DEFINE S(f) == EventsAfter(f, CompletedInput, CompletedState)
  <2>1. N = S(e)
    <3>1. OutputVector(input', state', e) = OutputVector(CompletedInput, CompletedState, e)
      BY <1>7, <1>9, SameElement
    <3> QED
      BY <1>4, <3>1 DEF EventsAfter
  <2>2. \A f \in Element \ {e} : EventsAfter(f, CompletedInput, CompletedState)' = S(f)
    <3> SUFFICES ASSUME NEW f \in Element \ {e}
                 PROVE  EventsAfter(f, CompletedInput, CompletedState)' = S(f)
      OBVIOUS
    <3>1. OutputVector(input', state', f) = OutputVector(input, state, f)
      BY <1>7, <1>10, SameElement
    <3>2. EventsAfter(f, CompletedInput, CompletedState)' =
            ChangedOutputs(time', f, OutputVector(input', state', f),
                           OutputVector(CompletedInput', CompletedState', f))
      BY DEF EventsAfter, ChangedOutputs, OutputVector, OutputValue
    <3> QED
      BY <1>1, <1>8, <1>11, <3>1, <3>2 DEF EventsAfter
  <2>3. Touched \subseteq Element
    BY <1>2, QueueTyped, InputPairs DEF Touched, Due
  <2>4. CompletedEvents = (events \ Due) \cup UNION {S(f) : f \in Touched}
    BY DEF CompletedEvents
  <2>5. CompletedEvents' = ((events \ Due) \cup N) \cup
           UNION {EventsAfter(f, CompletedInput, CompletedState)' : f \in Touched \ {e}}
    BY <1>5 DEF CompletedEvents
  <2>6. CompletedEvents' = ((events \ Due) \cup S(e)) \cup
           UNION {S(f) : f \in Touched \ {e}}
    BY <2>1, <2>2, <2>3, <2>5
  <2> HIDE DEF S
  <2> QED
    BY <1>5, <2>4, <2>6
<1> QED
  BY <1>1, <1>8, <1>11, <1>12 DEF Synchronous!vars
-----------------------------------------------------------------------------
\* The other steps of the simulation.

\* A call that starts, goes on or stops leaves the machine alone.
LEMMA MachineKept ==
    UNCHANGED <<time, events, input, state>> => UNCHANGED Synchronous!vars
<1> SUFFICES ASSUME UNCHANGED <<time, events, input, state>>
             PROVE  UNCHANGED Synchronous!vars
  OBVIOUS
<1>1. Due' = Due /\ Touched' = Touched
  BY DEF Due, Touched
<1>2. CompletedInput' = CompletedInput
  BY <1>1 DEF CompletedInput, InputAfter
<1>3. CompletedState' = CompletedState
  BY <1>1, <1>2 DEF CompletedState, StateAfter
<1>4. \A f : EventsAfter(f, CompletedInput, CompletedState)'
               = EventsAfter(f, CompletedInput, CompletedState)
  BY <1>2, <1>3 DEF EventsAfter, ChangedOutputs, OutputVector, OutputValue
<1>5. CompletedEvents' = CompletedEvents
  BY <1>1, <1>4 DEF CompletedEvents
<1> QED
  BY <1>2, <1>3, <1>5 DEF Synchronous!vars

\* The run goes to the next time point.
LEMMA AdvanceReaches ==
    ASSUME IInv, StateFunction, AdvanceToNextEvent
    PROVE  Synchronous!TimePoint
<1>1. TypeOK /\ QueueInvariant /\ pc = "run"
  BY DEF IInv, AdvanceToNextEvent
<1>2. NextEventAfter(time)
  BY <1>1, NoCurrentEvents
<1>3. PICK ev \in events : IsNextTime(ev.time) /\ time' = ev.time
  BY DEF AdvanceToNextEvent
<1>4. time' \in Nat /\ time' > time
  BY <1>1, <1>2, <1>3, QueueTyped DEF NextEventAfter
<1>5. UNCHANGED <<events, input, state>>
  BY DEF AdvanceToNextEvent
<1> QED
  BY <1>1, <1>2, <1>3, <1>4, <1>5, ReachesTimePoint

\* The end of a run, if it is not the present, lies before the next event.
LEMMA EndWaits ==
    ASSUME IInv, StateFunction, EndRun
    PROVE  Synchronous!TimePasses \/ UNCHANGED Synchronous!vars
<1>1. /\ TypeOK /\ QueueInvariant /\ RunCallOK /\ pc = "run"
      /\ events = {} \/ (~call.infinite /\ NextEventAfter(call.end))
      /\ time' = EndTime
      /\ UNCHANGED <<events, input, state>>
  BY DEF IInv, EndRun, CallOK
<1>2. TypeOK' /\ StateFunction'
  <2>1. IInv'
    BY EndStep
  <2>2. [Next]_vars
    BY DEF Next, CallStep
  <2> QED
    BY <2>1, <2>2, StateFunctionStep DEF IInv
<1>3. /\ time \in Nat /\ largestHistoryEvent \in Nat
      /\ call.end \in Nat /\ call.infinite \in BOOLEAN
      /\ call.infinite \/ time <= call.end
  BY <1>1 DEF RunCallOK, TypeOK
<1>4. time' \in Nat /\ time' >= time
  BY <1>1, <1>3 DEF EndTime, LargerOf
<1>5. \A ev \in events : ev.time > time'
  BY <1>1, <1>3 DEF EndTime, NextEventAfter
<1>6. NextEventAfter(time)
  BY <1>1, NoCurrentEvents
<1>7. CASE time' > time
  BY <1>1, <1>2, <1>5, <1>6, <1>7, Waits
<1>8. CASE time' = time
  BY <1>1, <1>8, MachineKept
<1> QED
  BY <1>3, <1>4, <1>7, <1>8

\* One time step, which some event waits for or none.
LEMMA NextTryMoves ==
    ASSUME TypeOK, StateFunction, TypeOK', StateFunction', NextEventAfter(time),
           time' = time + Epsilon, UNCHANGED <<events, input, state>>
    PROVE  Synchronous!TimePoint \/ Synchronous!TimePasses
<1>1. time \in Nat /\ time' = time + 1
  BY DEF TypeOK, Epsilon
<1>2. \A ev \in events : ev.time \in Nat /\ ev.time >= time'
  BY <1>1, QueueTyped DEF NextEventAfter
<1>3. CASE \E ev \in events : ev.time = time'
  <2>1. IsNextTime(time') /\ time' \in Nat /\ time' > time
    BY <1>1, <1>2, <1>3 DEF IsNextTime
  <2> QED
    BY <2>1, ReachesTimePoint
<1>4. CASE ~ \E ev \in events : ev.time = time'
  <2>1. time' > time /\ \A ev \in events : ev.time > time'
    BY <1>1, <1>2, <1>4
  <2> QED
    BY <2>1, Waits
<1> QED
  BY <1>3, <1>4

\* Nothing is due when a user's input or state is submitted, before or after.
LEMMA MachineIsPlain ==
    ASSUME IInv, StateFunction, IInv', StateFunction', NextEventAfter(time),
           pc' = "idle"
    PROVE  /\ Plain
           /\ CompletedInput' = input' /\ CompletedState' = state'
           /\ CompletedEvents' = events'
<1>1. Plain
  BY NothingDue DEF IInv
<1>2. NextEventAfter(time)'
  <2>1. TypeOK' /\ QueueInvariant' /\ pc' \notin {"events", "try"}
    BY DEF IInv
  <2> QED
    BY <2>1 DEF QueueInvariant, EventsNotPast, NextEventAfter
<1> QED
  BY <1>1, <1>2, NothingDueNext DEF IInv

\* The user's event arrives one time step later, if it changes the input at all.
LEMMA SubmitIsUserInput ==
    ASSUME IInv, StateFunction, IInv', StateFunction', SubmitUserInput
    PROVE  Synchronous!UserInput \/ UNCHANGED Synchronous!vars
<1> DEFINE p == call.caller[2]
           value == call.caller[3]
<1>1. /\ TypeOK /\ QueueInvariant /\ SubmitCallOK
      /\ pc = "submit" /\ pc' = "idle"
      /\ events' = events \cup UserEvents(p, value)
      /\ UNCHANGED <<time, input, state>>
  BY DEF IInv, SubmitUserInput, CallOK
<1>2. p \in Inputs /\ ~IsConnected(p) /\ value \in BOOLEAN
  BY <1>1, CallersArguments, Limits DEF SubmitCallOK
<1>3. \A ev \in events : ev.input # p
  BY <1>1, <1>2 DEF SubmitCallOK
<1>4. /\ Plain
      /\ CompletedInput' = input' /\ CompletedState' = state'
      /\ CompletedEvents' = events'
  <2>1. NextEventAfter(time)
    BY <1>1, NoCurrentEvents
  <2> QED
    BY <1>1, <2>1, MachineIsPlain
<1> HIDE DEF p, value
<1>5. CASE value = input[p]
  <2>1. events' = events
    BY <1>1, <1>5 DEF UserEvents
  <2> QED
    BY <1>1, <2>1, MachineKept
<1>6. CASE value # input[p]
  <2>1. value = ~input[p]
    BY <1>1, <1>2, <1>6 DEF TypeOK
  <2>2. events' = events \cup {[time |-> time + 1, input |-> p, value |-> ~input[p]]}
    BY <1>1, <1>6, <2>1 DEF UserEvents, Epsilon
  <2> QED
    BY <1>1, <1>2, <1>3, <1>4, <2>2, SameSchematic DEF Synchronous!UserInput, Plain
<1> QED
  BY <1>5, <1>6

\* A written state bit goes out like any other change.
LEMMA WriteIsUserWrite ==
    ASSUME IInv, StateFunction, IInv', StateFunction', WriteInternalState
    PROVE  Synchronous!UserWrite
<1>1. /\ TypeOK /\ QueueInvariant /\ TryCallOK
      /\ pc = "try" /\ pc' = "idle" /\ ~IsNextTime(time)
  BY DEF IInv, WriteInternalState, CallOK, TryPointDone
<1>2. PICK e \in Element, value \in BOOLEAN :
         /\ call.caller[2][1] = e /\ call.caller[3] = value
         /\ call.caller[2] \in UserStates
  BY <1>1, CallersArguments DEF TryCallOK
<1>3. PICK i : call.caller[2][2] = i
  OBVIOUS
<1> DEFINE st == [state EXCEPT ![e][i] = value]
           N  == ChangedOutputs(time, e, OutputVector(input, state, e),
                                OutputVector(input, st, e))
<1>4. /\ state[e] = call.startState
      /\ state' = st
      /\ events' = events \cup N
      /\ UNCHANGED <<time, input>>
  BY <1>2, <1>3 DEF WriteInternalState, TryStateChanged
<1>5. i \in DOMAIN state[e]
  <2>1. i \in 0 .. (InternalStateSize(Type[e]) - 1)
    BY <1>2, <1>3, CallAssumption
  <2> QED
    BY <1>1, <2>1 DEF TypeOK
<1>6. \A j \in OutputIds(e) : \A ev \in events :
         ev.input = Sink[<<e, j>>] => ev.time < time + Delay[<<e, j>>]
  BY <1>1, <1>2, <1>4, OutputPairs DEF TryCallOK, SentBefore
<1> HIDE DEF st
<1>7. events' = events \cup Synchronous!Sent({e}, time, input, state, input, state')
  <2>1. Synchronous!Sent({e}, time, input, state, input, st) =
          UNION {ChangedOutputs(time, f, OutputVector(input, state, f),
                                         OutputVector(input, st, f)) : f \in {e}}
    BY SentIsSubmitted
  <2> HIDE DEF N
  <2>2. Synchronous!Sent({e}, time, input, state, input, st) = N
    BY <2>1 DEF N
  <2> QED
    BY <1>4, <2>2
<1>8. /\ Plain
      /\ CompletedInput' = input' /\ CompletedState' = state'
      /\ CompletedEvents' = events'
  <2>1. NextEventAfter(time)
    BY <1>1, PointDone
  <2> QED
    BY <1>1, <2>1, MachineIsPlain
<1>9. \E j \in DOMAIN state[e], v \in BOOLEAN : state' = [state EXCEPT ![e][j] = v]
  BY <1>4, <1>5 DEF st
<1> HIDE DEF N
<1> QED
  <2>1. \E j \in DOMAIN CompletedState[e], v \in BOOLEAN :
           CompletedState' = [CompletedState EXCEPT ![e][j] = v]
    BY <1>8, <1>9 DEF Plain
  <2>2. \A j \in Synchronous!OutputIds(e) : \A ev \in CompletedEvents :
           ev.input = Sink[<<e, j>>] => ev.time < time + Delay[<<e, j>>]
    BY <1>6, <1>8, SameSchematic DEF Plain
  <2>3. CompletedEvents' = CompletedEvents \cup
           Synchronous!Sent({e}, time, CompletedInput, CompletedState, CompletedInput,
                            CompletedState')
    BY <1>7, <1>8 DEF Plain
  <2>4. UNCHANGED <<time, CompletedInput>> /\ e \in Synchronous!Element
    BY <1>4, <1>8, SameSchematic DEF Plain
  <2> QED
    BY <2>1, <2>2, <2>3, <2>4 DEF Synchronous!UserWrite

-----------------------------------------------------------------------------
\* The circuit starts with nothing due.
LEMMA StartsTogether == Init => Synchronous!Init /\ StateFunction
<1> SUFFICES ASSUME Init PROVE Synchronous!Init /\ StateFunction
  OBVIOUS
<1>1. StateFunction
  BY DEF StateFunction, Init, InitialState
<1>2. TypeOK
  BY InitInvariant DEF IInv
<1>3. NextEventAfter(time)
  BY InitialEventsTyped DEF Init, NextEventAfter
<1>4. Plain
  BY <1>1, <1>2, <1>3, NothingDue
<1> QED
  BY <1>1, <1>4 DEF Plain, Init, Synchronous!Init

\* Every step of the event loop is a step of the machine, or nothing it sees.
LEMMA StepsTogether ==
    IInv /\ IInv' /\ StateFunction /\ [Next]_vars => [Synchronous!Next]_Synchronous!vars
<1> SUFFICES ASSUME IInv, IInv', StateFunction, [Next]_vars
             PROVE  Synchronous!Next \/ UNCHANGED Synchronous!vars
  OBVIOUS
<1> USE DEF Synchronous!Next
<1>0. StateFunction' /\ TypeOK /\ TypeOK' /\ QueueInvariant
  BY StateFunctionStep DEF IInv
<1>1. CASE \E cfg \in RunConfigs : StartRun(cfg)
  BY <1>1, MachineKept DEF StartRun
<1>2. CASE \E p \in UserInputs, value \in BOOLEAN : SetUnconnectedInput(p, value)
  BY <1>2, MachineKept DEF SetUnconnectedInput
<1>3. CASE \E s \in UserStates, value \in BOOLEAN : TrySetInternalState(s, value)
  <2>1. /\ pc = "idle" /\ time' = time + Epsilon
        /\ UNCHANGED <<events, input, state>>
    BY <1>3 DEF TrySetInternalState
  <2>2. NextEventAfter(time)
    BY <1>0, <2>1, NoCurrentEvents
  <2> QED
    BY <1>0, <2>1, <2>2, NextTryMoves
<1>4. CASE CallStep
  <2>1. CASE \E e \in Element : ProcessEventGroup(e)
    BY <2>1, GroupStutters
  <2>2. CASE AdvanceToNextEvent
    BY <2>2, AdvanceReaches
  <2>3. CASE ContinueRun \/ ContinueAfterCheck \/ StopRun \/ GiveUp
    BY <2>3, MachineKept DEF ContinueRun, ContinueAfterCheck, StopRun, GiveUp
  <2>4. CASE EndRun
    BY <2>4, EndWaits
  <2>5. CASE SubmitUserInput
    BY <1>0, <2>5, SubmitIsUserInput
  <2>6. CASE TryAgain
    <3>1. /\ pc = "try" /\ ~IsNextTime(time) /\ time' = time + Epsilon
          /\ UNCHANGED <<events, input, state>>
      BY <2>6 DEF TryAgain, TryPointDone
    <3>2. NextEventAfter(time)
      BY <1>0, <3>1, PointDone
    <3> QED
      BY <1>0, <3>1, <3>2, NextTryMoves
  <2>7. CASE WriteInternalState
    BY <1>0, <2>7, WriteIsUserWrite
  <2> QED
    BY <1>4, <2>1, <2>2, <2>3, <2>4, <2>5, <2>6, <2>7 DEF CallStep
<1>5. CASE UNCHANGED vars
  BY <1>5, MachineKept DEF vars
<1> QED
  BY <1>1, <1>2, <1>3, <1>4, <1>5 DEF Next

\* The event loop, which processes one element at a time in the order of their
\* numbers, behaves on every schematic like the machine that takes a whole time
\* point in one step: the order of the elements makes no difference.
THEOREM SimulationIsSynchronous == Spec => ImplementsSynchronousCircuit
<1>1. IInv /\ StateFunction /\ [Next]_vars => IInv' /\ StateFunction'
  BY StepInvariant, StateFunctionStep
<1>2. IInv /\ IInv' /\ StateFunction /\ [Next]_vars
        => [Synchronous!Next]_Synchronous!vars
  BY StepsTogether
<1>3. Init => IInv /\ StateFunction /\ Synchronous!Init
  BY InitInvariant, StartsTogether
<1> QED
  BY <1>1, <1>2, <1>3, PTL DEF Spec, ImplementsSynchronousCircuit, Synchronous!Spec

------------------------------------------------------------------------------
(***************************************************************************)
(* The view of the recorded transitions shows the waveform, on every       *)
(* schematic and at every time that the history covers.                    *)
(*                                                                         *)
(* The program stores neither values nor the transitions it no longer      *)
(* needs.  What makes the view right is that the transitions ascend, one   *)
(* for a time point at most, and that their number after a time tells the  *)
(* value at that time from the value now.                                  *)
(***************************************************************************)

USE DEF SizesValid, ConnectionsValid

\* The first k transitions of h are up to t, the others after it.
Splits(h, k, t) == /\ \A i \in 1 .. k : h[i] <= t
                   /\ \A i \in (k + 1) .. Len(h) : h[i] > t

Ascending(h) == \A i, j \in 1 .. Len(h) : i < j => h[i] < h[j]

\* Transitions are in the past, or at the present time if the element has
\* been processed there.
TransitionsPast ==
    \A e \in Recorded : \A i \in 1 .. Len(history[e]) :
        /\ history[e][i] <= time
        /\ history[e][i] = time => Group(time, e) = {}

TransitionsAscend == \A e \in Recorded : Ascending(history[e])

\* The value at a time follows from the value now and the transitions since.
Toggled(n, v) == (n % 2 = 1) # v

ValueAfter(e, n) == Toggled(n, LastValue(e))

Covered(e) == {t \in 0 .. time : t >= time - HistoryLength[e]}

WaveFollows ==
    \A e \in Recorded : \A t \in Covered(e), k \in 0 .. Len(history[e]) :
        Splits(history[e], k, t) => wave[e][t] = ValueAfter(e, Len(history[e]) - k)

HInv == TransitionsPast /\ TransitionsAscend /\ WaveFollows

-----------------------------------------------------------------------------
\* A set of natural numbers has a least element: the provers' only induction.
LEMMA LeastNat ==
    ASSUME NEW T \in SUBSET Nat, T # {}
    PROVE  \E m \in T : \A n \in T : m <= n
<1> DEFINE R == {ss \in Nat \X Nat : ss[1] < ss[2]}
<1>1. IsWellFoundedOn(R, Nat)
  BY NatLessThanWellFounded DEF OpToRel
<1> HIDE DEF R
<1>2. PICK m \in T : \A n \in T : <<n, m>> \notin R
  BY <1>1, WFMin
<1>3. \A n \in T : ~(n < m)
  BY <1>2 DEF R
<1> QED
  BY <1>3

\* A value toggled zero times, or once more.
LEMMA ToggledZero == ASSUME NEW v \in BOOLEAN PROVE Toggled(0, v) = v
<1>1. 0 % 2 = 0
  OBVIOUS
<1> QED
  BY <1>1 DEF Toggled

LEMMA ToggledNext ==
    ASSUME NEW v \in BOOLEAN, NEW n \in Nat
    PROVE  Toggled(n + 1, ~v) = Toggled(n, v)
<1>1. ((n + 1) % 2 = 1) <=> ~(n % 2 = 1)
  OBVIOUS
<1> QED
  BY <1>1 DEF Toggled

\* What shrink_history drops of ascending transitions, and what it keeps.
LEMMA Shrinks ==
    ASSUME NEW h \in Seq(Nat), Ascending(h), NEW m \in Int
    PROVE  \E k \in 0 .. Len(h) :
              /\ \A i \in 1 .. k : h[i] < m
              /\ ShrinkHistory(h, m) \in Seq(Nat)
              /\ Len(ShrinkHistory(h, m)) = Len(h) - k
              /\ \A i \in 1 .. (Len(h) - k) : ShrinkHistory(h, m)[i] = h[k + i]
<1> DEFINE n == Len(h)
           T == {l \in 0 .. n : l = n \/ h[l + 1] >= m}
           gone == {i \in 1 .. n : h[i] < m}
<1>0. /\ n \in Nat
      /\ \A i \in 1 .. n : h[i] \in Nat
      /\ \A i, j \in 1 .. n : i < j => h[i] < h[j]
  BY DEF Ascending
<1>1. ShrinkHistory(h, m) = SubSeq(h, Cardinality(gone) + 1, n)
  <2>1. DOMAIN h = 1 .. Len(h)
    OBVIOUS
  <2>2. {i \in DOMAIN h : h[i] < m} = gone
    BY <2>1
  <2> QED
    BY <2>2 DEF ShrinkHistory
<1> HIDE DEF n, gone
<1>2. T \in SUBSET Nat /\ n \in T
  BY <1>0
<1> HIDE DEF T
<1>3. PICK k \in T : \A l \in T : k <= l
  BY <1>2, LeastNat
<1>4. k \in 0 .. n /\ (k = n \/ h[k + 1] >= m)
  BY DEF T
<1>5. ASSUME NEW i \in 1 .. k PROVE h[i] < m
  <2> DEFINE j == i - 1
  <2>1. j \in 0 .. n /\ j # n /\ j < k /\ j + 1 = i /\ i \in 1 .. n
    BY <1>0, <1>4
  <2> HIDE DEF j
  <2>2. j \notin T
    BY <1>0, <1>3, <1>4, <2>1
  <2>3. ~(h[j + 1] >= m)
    BY <2>1, <2>2 DEF T
  <2>4. ~(h[i] >= m) /\ h[i] \in Nat
    BY <1>0, <2>1, <2>3
  <2> QED
    BY <2>4
<1>6. ASSUME NEW i \in (k + 1) .. n PROVE h[i] >= m
  <2>1. k # n /\ i \in 1 .. n /\ k + 1 \in 1 .. n /\ (i = k + 1 \/ k + 1 < i)
    BY <1>0, <1>4
  <2>2. i = k + 1 \/ h[k + 1] < h[i]
    BY <1>0, <2>1
  <2>3. h[k + 1] >= m /\ h[i] \in Nat /\ h[k + 1] \in Nat
    BY <1>0, <1>4, <2>1
  <2> QED
    BY <2>2, <2>3
<1>7. Cardinality(gone) = k
  <2>1. \A i \in 1 .. n : h[i] < m <=> i \in 1 .. k
    <3> SUFFICES ASSUME NEW i \in 1 .. n PROVE h[i] < m <=> i \in 1 .. k
      OBVIOUS
    <3>1. CASE i \in 1 .. k
      BY <1>5, <3>1
    <3>2. CASE i \notin 1 .. k
      <4>1. i \in (k + 1) .. n /\ h[i] \in Nat
        BY <1>0, <1>4, <3>2
      <4>2. h[i] >= m
        BY <1>6, <4>1
      <4> QED
        BY <3>2, <4>1, <4>2
    <3> QED
      BY <3>1, <3>2
  <2>2. gone = 1 .. k
    BY <1>0, <1>4, <2>1 DEF gone
  <2>3. Cardinality(1 .. k) = IF 1 > k THEN 0 ELSE k - 1 + 1
    BY <1>4, FS_Interval
  <2>4. Cardinality(1 .. k) = k
    BY <1>0, <1>4, <2>3
  <2> QED
    BY <2>2, <2>4
<1>8. /\ SubSeq(h, k + 1, n) \in Seq(Nat)
      /\ Len(SubSeq(h, k + 1, n)) = IF k + 1 <= n THEN n - (k + 1) + 1 ELSE 0
      /\ \A i \in 1 .. n - (k + 1) + 1 : SubSeq(h, k + 1, n)[i] = h[(k + 1) + i - 1]
  <2>1. /\ k + 1 \in Int /\ n \in Int
        /\ \A i \in (k + 1) .. n : h[i] \in Nat
    BY <1>0, <1>4
  <2> QED
    BY <2>1, SubSeqProperties
<1>9. /\ Len(SubSeq(h, k + 1, n)) = n - k
      /\ \A i \in 1 .. (n - k) : SubSeq(h, k + 1, n)[i] = h[k + i]
  <2>1. (IF k + 1 <= n THEN n - (k + 1) + 1 ELSE 0) = n - k
    BY <1>0, <1>4
  <2>2. \A i \in 1 .. (n - k) : i \in 1 .. n - (k + 1) + 1 /\ (k + 1) + i - 1 = k + i
    BY <1>0, <1>4
  <2>3. \A i \in 1 .. (n - k) : SubSeq(h, k + 1, n)[i] = h[k + i]
    <3> SUFFICES ASSUME NEW i \in 1 .. (n - k) PROVE SubSeq(h, k + 1, n)[i] = h[k + i]
      OBVIOUS
    <3> QED
      BY <1>8, <2>2
  <2> QED
    BY <1>8, <2>1, <2>3
<1> QED
  BY <1>1, <1>4, <1>5, <1>7, <1>8, <1>9 DEF n

-----------------------------------------------------------------------------
(***************************************************************************)
(* What a step does to the history of an element.                          *)
(***************************************************************************)

\* Nothing, while the time may pass.
Quiet(e) == /\ history'[e] = history[e]
            /\ LastValue(e)' = LastValue(e)
            /\ time' >= time
            /\ time' = time => Group(time, e)' \subseteq Group(time, e)

\* The element is processed and its first input changes.
Transition(e) ==
    /\ history'[e] = Append(ShrinkHistory(history[e], time - HistoryLength[e]), time)
    /\ LastValue(e)' = ~LastValue(e)
    /\ time' = time
    /\ Group(time, e) # {}
    /\ Group(time, e)' = {}

\* An element that keeps a history has a first input.
LEMMA RecordedHasInput ==
    \A e \in Recorded : /\ e \in Element /\ <<e, 0>> \in Inputs
                        /\ HistoryLength[e] \in Nat /\ HistoryLength[e] > 0
<1>1. \A e \in Recorded : e \in Element /\ InputCount[e] \in Nat /\ InputCount[e] > 0
  BY SchematicSizes DEF Recorded
<1>2. \A e \in Recorded : 0 \in InputIds(e)
  BY <1>1 DEF InputIds
<1> QED
  BY <1>1, <1>2, InputPairs, SchematicConnections DEF Recorded

\* The histories are sequences of times.
LEMMA TimesTyped ==
    ASSUME NEW h \in Seq(Nat)
    PROVE  Len(h) \in Nat /\ \A i \in 1 .. Len(h) : h[i] \in Nat
OBVIOUS

HistoryOK(e) == /\ time \in Nat
                /\ history[e] \in Seq(Nat)
                /\ Len(history[e]) \in Nat
                /\ \A i \in 1 .. Len(history[e]) : history[e][i] \in Nat

LEMMA HistoryTyped == ASSUME TypeOK, NEW e \in Recorded PROVE HistoryOK(e)
<1>1. e \in Element /\ time \in Nat /\ history \in [Element -> Seq(Nat)]
  BY RecordedHasInput DEF TypeOK
<1>2. history[e] \in Seq(Nat)
  BY <1>1
<1> QED
  BY <1>1, <1>2, TimesTyped DEF HistoryOK

LEMMA HistoryTypedNext == ASSUME TypeOK', NEW e \in Recorded PROVE HistoryOK(e)'
<1>1. e \in Element /\ time' \in Nat /\ history' \in [Element -> Seq(Nat)]
  BY RecordedHasInput DEF TypeOK
<1>2. history'[e] \in Seq(Nat)
  BY <1>1
<1> QED
  BY <1>1, <1>2, TimesTyped DEF HistoryOK

\* A step that leaves the inputs and the histories alone.
LEMMA QuietStep ==
    ASSUME TypeOK, UNCHANGED <<input, history>>, time' >= time,
           NEW N, events' = events \cup N, time' = time => \A ev \in N : ev.time > time,
           NEW e \in Recorded
    PROVE  Quiet(e)
<1>1. LastValue(e)' = LastValue(e)
  BY DEF LastValue
<1>2. time' = time => Group(time, e)' \subseteq Group(time, e)
  BY DEF Group, TypeOK
<1> QED
  BY <1>1, <1>2 DEF Quiet

\* Processing a group is quiet for all other elements.
LEMMA ProcessedElement ==
    ASSUME IInv, NEW f \in Element, ProcessEventGroup(f), NEW e \in Recorded
    PROVE  Quiet(e) \/ Transition(e)
<1> DEFINE G  == Group(time, f)
           in == InputAfter(G)
           N  == EventsAfter(f, in, StateAfter(f, in))
<1>1. /\ G # {}
      /\ input' = in
      /\ events' = (events \ G) \cup N
      /\ RecordHistory(f, in)
      /\ time' = time
  BY DEF ProcessEventGroup, IsNextGroup
<1>2. /\ TypeOK /\ time \in Nat
      /\ history \in [Element -> Seq(Nat)] /\ input \in [Inputs -> BOOLEAN]
  BY DEF IInv, TypeOK
<1>3. \A ev \in N : ev.time > time
  <2> SUFFICES ASSUME NEW ev \in N PROVE ev.time > time
    OBVIOUS
  <2> DEFINE old == OutputVector(input, state, f)
             new == OutputVector(in, StateAfter(f, in), f)
  <2>1. ev \in ChangedOutputs(time, f, old, new)
    BY DEF EventsAfter
  <2> HIDE DEF old, new
  <2>2. PICK j \in OutputIds(f) : ev.time = time + Delay[<<f, j>>]
    BY <2>1 DEF ChangedOutputs
  <2> QED
    BY <1>2, <2>2, OutputPairs, QueueTyped
<1> HIDE DEF N
<1>4. /\ Group(time, e)' \subseteq Group(time, e)
      /\ f = e => Group(time, e)' = {}
  <2>1. \A ev \in N : ev.time # time
    BY <1>2, <1>3
  <2> QED
    BY <1>1, <2>1 DEF Group
<1>5. e \in Element /\ <<e, 0>> \in Inputs /\ HistoryLength[e] > 0
  BY RecordedHasInput
<1>6. CASE f = e /\ in[<<e, 0>>] # input[<<e, 0>>]
  <2>1. history'[e] = Append(ShrinkHistory(history[e], time - HistoryLength[e]), time)
    BY <1>1, <1>2, <1>5, <1>6 DEF RecordHistory, RecordsHistory
  <2>2. LastValue(e)' = ~LastValue(e)
    <3>1. Inverted[<<e, 0>>] \in BOOLEAN /\ input[<<e, 0>>] \in BOOLEAN
          /\ in[<<e, 0>>] \in BOOLEAN
      BY <1>2, <1>5, SchematicConnections DEF InputAfter
    <3> HIDE DEF in
    <3> QED
      BY <1>1, <1>6, <3>1 DEF LastValue
  <2> QED
    BY <1>1, <1>4, <1>6, <2>1, <2>2 DEF Transition
<1>7. CASE ~(f = e /\ in[<<e, 0>>] # input[<<e, 0>>])
  <2>1. in[<<e, 0>>] = input[<<e, 0>>]
    <3>1. CASE f # e
      <4>1. \A ev \in G : ev.input # <<e, 0>>
        BY <3>1 DEF Group
      <4> HIDE DEF G
      <4> QED
        BY <1>5, <4>1 DEF InputAfter
    <3> QED
      BY <1>7, <3>1
  <2>2. LastValue(e)' = LastValue(e)
    BY <1>1, <2>1 DEF LastValue
  <2>3. history'[e] = history[e]
    BY <1>1, <1>2, <1>5, <2>1 DEF RecordHistory, RecordsHistory
  <2> QED
    BY <1>1, <1>2, <1>4, <2>2, <2>3 DEF Quiet
<1> QED
  BY <1>6, <1>7

\* Every step is quiet for an element or makes one transition of it.
LEMMA StepOfElement ==
    ASSUME IInv, IInv', [Next]_vars, NEW e \in Recorded
    PROVE  Quiet(e) \/ Transition(e)
<1>0. TypeOK /\ time \in Nat /\ error' = "none" /\ QueueInvariant
  BY DEF IInv, NoError, TypeOK
<1>1. CASE UNCHANGED <<time, events, input, history>>
  <2>1. events' = events \cup {} /\ time' >= time
    BY <1>0, <1>1
  <2> QED
    BY <1>0, <1>1, <2>1, QuietStep
<1>2. CASE \/ \E s \in UserStates, value \in BOOLEAN : TrySetInternalState(s, value)
           \/ TryAgain
  <2>1. /\ time' = time + 1
        /\ UNCHANGED <<events, input, history>>
    BY <1>2 DEF TrySetInternalState, TryAgain, Epsilon
  <2>2. events' = events \cup {} /\ time' >= time /\ time' # time
    BY <1>0, <2>1
  <2> QED
    BY <1>0, <2>1, <2>2, QuietStep
<1>3. CASE AdvanceToNextEvent \/ EndRun
  <2>1. PICK t : time' = t /\ SetTimeError(t) = "none" /\ UNCHANGED <<events, input, history>>
    BY <1>0, <1>3 DEF AdvanceToNextEvent, EndRun
  <2>2. time' >= time
    <3>1. time' \in Nat
      BY DEF IInv, TypeOK
    <3> QED
      BY <1>0, <2>1, <3>1 DEF SetTimeError
  <2>3. events' = events \cup {}
    BY <2>1
  <2> QED
    BY <1>0, <2>1, <2>2, <2>3, QuietStep
<1>4. CASE SubmitUserInput
  <2> DEFINE N == UserEvents(call.caller[2], call.caller[3])
  <2>1. /\ events' = events \cup N
        /\ UNCHANGED <<time, input, history>>
    BY <1>4 DEF SubmitUserInput
  <2>2. \A ev \in N : ev.time > time
    BY <1>0 DEF UserEvents, Epsilon
  <2>3. time' >= time
    BY <1>0, <2>1
  <2> HIDE DEF N
  <2> QED
    BY <1>0, <2>1, <2>2, <2>3, QuietStep
<1>5. CASE WriteInternalState
  <2>1. PICK N : /\ events' = events \cup N
                 /\ error' = IF NextEventAfter(time) THEN SubmitError(N, events)
                             ELSE CurrentEventsDone
                 /\ UNCHANGED <<time, input, history>>
    BY <1>5 DEF WriteInternalState
  <2>2. \A ev \in N : ev.time > time
    <3>1. ~NextEventAfter(time) => CurrentEventsDone # "none"
      BY DEF CurrentEventsDone
    <3>2. SubmitError(N, events) = "none"
      BY <1>0, <2>1, <3>1
    <3>3. ~ \E ev \in N : ev.time <= time
      BY <3>2 DEF SubmitError
    <3>4. \A ev \in N : ev.time \in Nat
      BY <2>1, QueueTyped DEF IInv, TypeOK, Event
    <3> QED
      BY <1>0, <3>3, <3>4
  <2>3. time' >= time
    BY <1>0, <2>1
  <2> QED
    BY <1>0, <2>1, <2>2, <2>3, QuietStep
<1>6. CASE \E f \in Element : ProcessEventGroup(f)
  BY <1>6, ProcessedElement
<1> QED
  BY <1>1, <1>2, <1>3, <1>4, <1>5, <1>6
  DEF Next, CallStep, vars, StartRun, SetUnconnectedInput, ContinueRun,
      ContinueAfterCheck, StopRun, GiveUp
-----------------------------------------------------------------------------
(***************************************************************************)
(* The invariant is inductive.                                             *)
(***************************************************************************)

\* What a transition leaves: the kept transitions and the present time.
LEMMA AfterTransition ==
    ASSUME IInv, HInv, NEW e \in Recorded, Transition(e)
    PROVE  \E k \in 0 .. Len(history[e]) :
              /\ \A i \in 1 .. k : history[e][i] < time - HistoryLength[e]
              /\ Len(history'[e]) = Len(history[e]) - k + 1
              /\ history'[e][Len(history[e]) - k + 1] = time
              /\ \A i \in 1 .. (Len(history[e]) - k) :
                    /\ history'[e][i] = history[e][k + i]
                    /\ history'[e][i] < time
<1> DEFINE h == history[e]
           m == time - HistoryLength[e]
           s == ShrinkHistory(h, m)
<1>1. /\ h \in Seq(Nat) /\ Ascending(h) /\ m \in Int /\ time \in Nat /\ Len(h) \in Nat
      /\ \A i \in 1 .. Len(h) : h[i] \in Nat
  <2>1. HistoryOK(e)
    BY HistoryTyped DEF IInv
  <2>2. Ascending(h)
    BY DEF HInv, TransitionsAscend
  <2>3. HistoryLength[e] \in Nat
    BY RecordedHasInput
  <2> QED
    BY <2>1, <2>2, <2>3 DEF HistoryOK
<1>2. \A i \in 1 .. Len(h) : h[i] < time
  <2>1. \A i \in 1 .. Len(h) : h[i] <= time /\ h[i] # time
    BY DEF HInv, TransitionsPast, Transition
  <2> QED
    BY <1>1, <2>1
<1>3. history'[e] = Append(s, time)
  BY DEF Transition
<1> HIDE DEF h, m, s
<1>4. PICK k \in 0 .. Len(h) :
         /\ \A i \in 1 .. k : h[i] < m
         /\ s \in Seq(Nat)
         /\ Len(s) = Len(h) - k
         /\ \A i \in 1 .. (Len(h) - k) : s[i] = h[k + i]
  BY <1>1, Shrinks DEF s
<1>5. /\ Len(Append(s, time)) = Len(s) + 1
      /\ \A i \in 1 .. Len(s) : Append(s, time)[i] = s[i]
      /\ Append(s, time)[Len(s) + 1] = time
  BY <1>1, <1>4, AppendProperties
<1>6. ASSUME NEW i \in 1 .. (Len(h) - k)
      PROVE  history'[e][i] = h[k + i] /\ history'[e][i] < time
  <2>1. k + i \in 1 .. Len(h) /\ i \in 1 .. Len(s)
    BY <1>1, <1>4
  <2> QED
    BY <1>2, <1>3, <1>4, <1>5, <2>1
<1>7. /\ Len(history'[e]) = Len(h) - k + 1
      /\ history'[e][Len(h) - k + 1] = time
  BY <1>3, <1>4, <1>5
<1> QED
  BY <1>4, <1>6, <1>7 DEF h, m

\* Transitions stay in the past and keep ascending: a group is popped once for a time.
LEMMA TransitionsStep ==
    ASSUME IInv, HInv, IInv', NEW e \in Recorded, Quiet(e) \/ Transition(e)
    PROVE  /\ \A i \in 1 .. Len(history'[e]) :
                /\ history'[e][i] <= time'
                /\ history'[e][i] = time' => Group(time, e)' = {}
           /\ Ascending(history'[e])
<1>0. /\ time \in Nat /\ time' \in Nat
      /\ Len(history[e]) \in Nat
      /\ \A i \in 1 .. Len(history[e]) : history[e][i] \in Nat
  BY HistoryTyped, HistoryTypedNext DEF IInv, HistoryOK
<1>1. CASE Quiet(e)
  <2>1. /\ \A i \in 1 .. Len(history[e]) : history[e][i] <= time
        /\ \A i \in 1 .. Len(history[e]) : history[e][i] = time => Group(time, e) = {}
        /\ Ascending(history[e])
    BY DEF HInv, TransitionsPast, TransitionsAscend
  <2>2. /\ history'[e] = history[e] /\ time' >= time
        /\ time' = time => Group(time, e)' \subseteq Group(time, e)
    BY <1>1 DEF Quiet
  <2>3. ASSUME NEW i \in 1 .. Len(history[e])
        PROVE  history[e][i] <= time' /\ (history[e][i] = time' => Group(time, e)' = {})
    <3>1. history[e][i] <= time'
      BY <1>0, <2>1, <2>2
    <3>2. ASSUME history[e][i] = time' PROVE Group(time, e)' = {}
      <4>1. time' = time
        BY <1>0, <2>1, <2>2, <3>2
      <4> QED
        BY <2>1, <2>2, <3>2, <4>1
    <3> QED
      BY <3>1, <3>2
  <2> QED
    BY <2>1, <2>2, <2>3
<1>2. CASE Transition(e)
  <2> DEFINE h == history[e]
             g == history'[e]
  <2>1. PICK k \in 0 .. Len(h) :
           /\ Len(g) = Len(h) - k + 1
           /\ g[Len(h) - k + 1] = time
           /\ \A i \in 1 .. (Len(h) - k) : g[i] = h[k + i] /\ g[i] < time
    BY <1>2, AfterTransition
  <2>2. time' = time /\ Group(time, e)' = {}
    BY <1>2 DEF Transition
  <2>3. \A i, j \in 1 .. Len(h) : i < j => h[i] < h[j]
    BY DEF HInv, TransitionsAscend, Ascending
  <2> DEFINE n == Len(h) - k
  <2>4. n \in Nat /\ k \in Nat /\ k + n = Len(h)
    BY <1>0, <2>1
  <2>5. Len(g) = n + 1 /\ g[n + 1] = time /\ \A i \in 1 .. n : g[i] = h[k + i] /\ g[i] < time
    BY <2>1
  <2>6. \A i \in 1 .. n : k + i \in 1 .. Len(h) /\ h[k + i] \in Nat
    BY <1>0, <2>4
  <2> HIDE DEF n, g, h
  <2>7. \A i \in 1 .. (n + 1) : i \in 1 .. n \/ i = n + 1
    BY <2>4
  <2>8. \A i \in 1 .. Len(g) : g[i] <= time'
    BY <1>0, <2>2, <2>5, <2>6, <2>7
  <2>9. ASSUME NEW i \in 1 .. Len(g), NEW j \in 1 .. Len(g), i < j PROVE g[i] < g[j]
    <3>1. i \in 1 .. n
      BY <2>4, <2>5, <2>9
    <3>2. CASE j = n + 1
      BY <2>5, <3>1, <3>2
    <3>3. CASE j \in 1 .. n
      <4>1. k + i < k + j
        BY <2>4, <2>9
      <4> QED
        BY <2>3, <2>5, <2>6, <3>1, <3>3, <4>1
    <3> QED
      BY <2>5, <2>7, <3>2, <3>3
  <2> QED
    BY <2>2, <2>8, <2>9 DEF Ascending, g
<1> QED
  BY <1>1, <1>2

\* What the recorder adds to the waveform.
WaveStep(e) ==
    \A t \in Covered(e)' : wave'[e][t] = IF t < time THEN wave[e][t] ELSE LastValue(e)'

\* A transition changes the value now and the number of transitions since, so that
\* all values before it stay; what shrink_history drops lies before what is covered.
LEMMA WaveValueStep ==
    ASSUME IInv, HInv, IInv', NEW e \in Recorded, Quiet(e) \/ Transition(e), WaveStep(e),
           NEW t \in Covered(e)', NEW k \in 0 .. Len(history'[e]), Splits(history'[e], k, t)
    PROVE  wave'[e][t] = Toggled(Len(history'[e]) - k, LastValue(e)')
<1>0. /\ time \in Nat /\ time' \in Nat /\ time' >= time
      /\ HistoryLength[e] \in Nat
      /\ Len(history[e]) \in Nat /\ Len(history'[e]) \in Nat
      /\ LastValue(e) \in BOOLEAN /\ LastValue(e)' \in BOOLEAN
      /\ t \in Nat /\ t <= time' /\ t >= time' - HistoryLength[e]
  <2>1. time \in Nat /\ time' \in Nat /\ Len(history[e]) \in Nat /\ Len(history'[e]) \in Nat
    BY HistoryTyped, HistoryTypedNext DEF IInv, HistoryOK
  <2>2. time' >= time
    BY <2>1 DEF Quiet, Transition
  <2>3. LastValue(e) \in BOOLEAN /\ LastValue(e)' \in BOOLEAN
    BY DEF LastValue
  <2>4. t \in 0 .. time' /\ t >= time' - HistoryLength[e]
    BY DEF Covered
  <2>5. HistoryLength[e] \in Nat
    BY RecordedHasInput
  <2>6. t \in Nat /\ t <= time'
    BY <2>1, <2>4
  <2> QED
    BY <2>1, <2>2, <2>3, <2>4, <2>5, <2>6
<1>1. CASE t >= time
  <2>1. wave'[e][t] = LastValue(e)'
    BY <1>0, <1>1 DEF WaveStep
  <2>2. k = Len(history'[e])
    <3>1. \A i \in 1 .. Len(history'[e]) : history'[e][i] <= time'
      BY TransitionsStep
    <3>2. \A i \in 1 .. Len(history'[e]) : history'[e][i] \in Nat
      BY HistoryTypedNext DEF IInv, HistoryOK
    <3>3. \A i \in 1 .. Len(history'[e]) : history'[e][i] <= time
      <4>1. CASE Quiet(e)
        BY <4>1 DEF HInv, TransitionsPast, Quiet
      <4>2. CASE Transition(e)
        BY <3>1, <4>2 DEF Transition
      <4> QED
        BY <4>1, <4>2
    <3>4. \A i \in 1 .. Len(history'[e]) : ~(history'[e][i] > t)
      BY <1>0, <1>1, <3>2, <3>3
    <3>5. ~(k + 1 \in 1 .. Len(history'[e]))
      <4>1. k + 1 \in 1 .. Len(history'[e]) => k + 1 \in (k + 1) .. Len(history'[e])
        BY <1>0
      <4> QED
        BY <3>4, <4>1 DEF Splits
    <3> QED
      BY <1>0, <3>5
  <2>3. Len(history'[e]) - k = 0
    BY <1>0, <2>2
  <2> QED
    BY <1>0, <2>1, <2>3, ToggledZero
<1>2. CASE t < time
  <2>1. wave'[e][t] = wave[e][t]
    BY <1>0, <1>2 DEF WaveStep
  <2>2. t \in Covered(e)
    <3>1. t \in 0 .. time /\ t >= time - HistoryLength[e]
      BY <1>0, <1>2
    <3> QED
      BY <3>1 DEF Covered
  <2>3. CASE Quiet(e)
    <3>1. /\ history'[e] = history[e] /\ LastValue(e)' = LastValue(e)
      BY <2>3 DEF Quiet
    <3>2. k \in 0 .. Len(history[e]) /\ Splits(history[e], k, t)
      BY <3>1
    <3>3. wave[e][t] = Toggled(Len(history[e]) - k, LastValue(e))
      BY <2>2, <3>2 DEF HInv, WaveFollows, ValueAfter
    <3> QED
      BY <2>1, <3>1, <3>3
  <2>4. CASE Transition(e)
    <3> DEFINE h == history[e]
               g == history'[e]
    <3>1. PICK d \in 0 .. Len(h) :
             /\ \A i \in 1 .. d : h[i] < time - HistoryLength[e]
             /\ Len(g) = Len(h) - d + 1
             /\ g[Len(h) - d + 1] = time
             /\ \A i \in 1 .. (Len(h) - d) : g[i] = h[d + i] /\ g[i] < time
      BY <2>4, AfterTransition
    <3>2. /\ \A i \in 1 .. k : g[i] <= t
          /\ \A i \in (k + 1) .. Len(g) : g[i] > t
      BY DEF Splits
    <3>3. \A i \in 1 .. Len(h) : h[i] \in Nat
      BY HistoryTyped DEF IInv, HistoryOK
    <3>4. \A l \in 0 .. Len(h) : Splits(h, l, t) =>
             wave[e][t] = Toggled(Len(h) - l, LastValue(e))
      BY <2>2 DEF HInv, WaveFollows, ValueAfter
    <3>5. time' = time /\ LastValue(e)' = ~LastValue(e)
      BY <2>4 DEF Transition
    <3> DEFINE n == Len(h)
               l == Len(g)
    <3>6. n \in Nat /\ l \in Nat /\ d \in 0 .. n /\ k \in 0 .. l /\ l = n - d + 1
      BY <1>0, <3>1
    <3>7. k <= n - d
      <4>1. ASSUME k = l PROVE FALSE
        <5>1. g[l] = time /\ l \in 1 .. k
          BY <3>1, <3>6, <4>1
        <5> QED
          BY <1>0, <1>2, <3>2, <5>1
      <4> QED
        BY <3>6, <4>1
    <3> HIDE DEF h, g
    <3>8. ASSUME NEW i \in 1 .. (k + d) PROVE h[i] <= t
      <4>1. i \in 1 .. n /\ h[i] \in Nat
        BY <3>3, <3>6, <3>7
      <4>2. CASE i \in 1 .. d
        BY <1>0, <3>1, <3>5, <4>1, <4>2
      <4>3. CASE i \notin 1 .. d
        <5>1. i - d \in 1 .. k /\ i - d \in 1 .. (n - d) /\ d + (i - d) = i
          BY <3>6, <3>7, <4>1, <4>3
        <5> QED
          BY <3>1, <3>2, <5>1
      <4> QED
        BY <4>2, <4>3
    <3>9. ASSUME NEW i \in (k + d + 1) .. n PROVE h[i] > t
      <4>1. i - d \in (k + 1) .. l /\ i - d \in 1 .. (n - d) /\ d + (i - d) = i
        BY <3>6, <3>7
      <4> QED
        BY <3>1, <3>2, <4>1
    <3>10. k + d \in 0 .. n /\ Splits(h, k + d, t)
      BY <3>6, <3>7, <3>8, <3>9 DEF Splits
    <3>11. wave[e][t] = Toggled(n - (k + d), LastValue(e))
      BY <3>4, <3>10
    <3>12. l - k = (n - (k + d)) + 1 /\ n - (k + d) \in Nat
      BY <3>6, <3>7
    <3>13. Toggled(l - k, ~LastValue(e)) = Toggled(n - (k + d), LastValue(e))
      BY <1>0, <3>12, ToggledNext
    <3> QED
      BY <1>0, <2>1, <3>5, <3>11, <3>13 DEF g
  <2> QED
    BY <2>3, <2>4
<1> QED
  BY <1>0, <1>1, <1>2

\* At the start there are no transitions.
LEMMA InitHistory == InitH => HInv
<1> SUFFICES ASSUME InitH PROVE HInv
  OBVIOUS
<1>1. time = 0 /\ \A e \in Recorded : history[e] = <<>>
  BY RecordedHasInput DEF InitH, Init
<1>2. TransitionsPast /\ TransitionsAscend
  BY <1>1 DEF TransitionsPast, TransitionsAscend, Ascending
<1>3. WaveFollows
  <2> SUFFICES ASSUME NEW e \in Recorded, NEW t \in Covered(e),
                      NEW k \in 0 .. Len(history[e])
               PROVE  wave[e][t] = ValueAfter(e, Len(history[e]) - k)
    BY DEF WaveFollows
  <2>1. t = 0 /\ Len(history[e]) - k = 0
    BY <1>1 DEF Covered
  <2>2. wave[e][0] = LastValue(e) /\ LastValue(e) \in BOOLEAN
    BY DEF InitH, LastValue
  <2> QED
    BY <2>1, <2>2, ToggledZero DEF ValueAfter
<1> QED
  BY <1>2, <1>3 DEF HInv

\* One step of the simulation and of the recorder.
LEMMA StepHistory == IInv /\ IInv' /\ HInv /\ [NextH]_wvars => HInv'
<1> SUFFICES ASSUME IInv, IInv', HInv, [NextH]_wvars PROVE HInv'
  OBVIOUS
<1>1. CASE NextH
  <2>1. [Next]_vars
    BY <1>1 DEF NextH
  <2>2. \A e \in Recorded : Quiet(e) \/ Transition(e)
    BY <2>1, StepOfElement
  <2>3. \A e \in Recorded : WaveStep(e)
    BY <1>1 DEF NextH, WaveStep, Covered
  <2>4. TransitionsPast' /\ TransitionsAscend'
    <3>1. Recorded' = Recorded
      BY DEF Recorded
    <3> QED
      BY <2>2, <3>1, TransitionsStep DEF TransitionsPast, TransitionsAscend, Ascending
  <2>5. WaveFollows'
    <3> SUFFICES ASSUME NEW e \in Recorded, NEW t \in Covered(e)',
                        NEW k \in 0 .. Len(history'[e]), Splits(history'[e], k, t)
                 PROVE  wave'[e][t] = Toggled(Len(history'[e]) - k, LastValue(e)')
      BY DEF WaveFollows, ValueAfter, Splits, Recorded
    <3> QED
      BY <2>2, <2>3, WaveValueStep
  <2> QED
    BY <2>4, <2>5 DEF HInv
<1>2. CASE UNCHANGED wvars
  <2>1. UNCHANGED <<time, events, input, history, wave>>
    BY <1>2 DEF wvars, vars
  <2>2. TransitionsPast' /\ TransitionsAscend'
    BY <2>1 DEF HInv, TransitionsPast, TransitionsAscend, Group, Recorded
  <2>3. WaveFollows'
    BY <2>1 DEF HInv, WaveFollows, Covered, ValueAfter, LastValue, Recorded
  <2> QED
    BY <2>2, <2>3 DEF HInv
<1> QED
  BY <1>1, <1>2
-----------------------------------------------------------------------------
(***************************************************************************)
(* What the view looks up.                                                 *)
(***************************************************************************)

\* find_index_extrapolated finds an index, and all entries before it end in time.
LEMMA FindsIndex ==
    ASSUME TypeOK, NEW e \in Recorded, NEW t \in Int, NEW m \in 0 .. Len(history[e])
    PROVE  /\ FindIndex(e, t, m) \in m .. Len(history[e])
           /\ \/ FindIndex(e, t, m) = Len(history[e])
              \/ history[e][FindIndex(e, t, m) + 1] > t
           /\ \A i \in m .. (FindIndex(e, t, m) - 1) : history[e][i + 1] <= t
<1> DEFINE h == history[e]
           n == Len(h)
           T == {l \in m .. n : l = n \/ h[l + 1] > t}
           Found(k) == /\ k = Len(history[e]) \/ history[e][k + 1] > t
                       /\ \A i \in m .. (k - 1) : history[e][i + 1] <= t
<1>1. /\ n \in Nat /\ m \in 0 .. n
      /\ \A i \in 1 .. n : h[i] \in Nat
  BY HistoryTyped DEF HistoryOK
<1>2. FindIndex(e, t, m) = CHOOSE k \in m .. Len(history[e]) : Found(k)
  BY DEF FindIndex
<1> HIDE DEF n, h
<1>3. T \in SUBSET Nat /\ n \in T
  BY <1>1
<1> HIDE DEF T
<1>4. PICK k \in T : \A l \in T : k <= l
  BY <1>3, LeastNat
<1>5. k \in m .. n /\ (k = n \/ h[k + 1] > t)
  BY DEF T
<1>6. ASSUME NEW i \in m .. (k - 1) PROVE h[i + 1] <= t
  <2>1. i \in m .. n /\ i # n /\ i < k /\ i + 1 \in 1 .. n
    BY <1>1, <1>5
  <2>2. i \notin T
    BY <1>1, <1>4, <1>5, <2>1
  <2>3. ~(h[i + 1] > t) /\ h[i + 1] \in Nat
    BY <1>1, <2>1, <2>2 DEF T
  <2> QED
    BY <2>3
<1>7. k \in m .. Len(history[e]) /\ Found(k)
  BY <1>5, <1>6 DEF n, h
<1> HIDE DEF Found
<1>8. FindIndex(e, t, m) \in m .. Len(history[e]) /\ Found(FindIndex(e, t, m))
  BY <1>2, <1>7
<1> QED
  BY <1>8 DEF Found

\* Looked up from the minimal index, the transitions are split at the time.
LEMMA ViewSplits ==
    ASSUME TypeOK, TransitionsAscend, NEW e \in Recorded,
           NEW t \in Int, t >= time - HistoryLength[e]
    PROVE  /\ MinIndex(e) \in Nat
           /\ FindIndex(e, t, MinIndex(e)) \in MinIndex(e) .. Len(history[e])
           /\ Splits(history[e], FindIndex(e, t, MinIndex(e)), t)
<1> DEFINE h == history[e]
           n == Len(h)
           first == time - HistoryLength[e]
           m == MinIndex(e)
           k == FindIndex(e, t, m)
<1>1. /\ n \in Nat /\ first \in Int /\ t >= first
      /\ \A i \in 1 .. n : h[i] \in Nat
      /\ \A i, j \in 1 .. n : i < j => h[i] < h[j]
  <2>1. HistoryOK(e) /\ HistoryLength[e] \in Nat
    BY HistoryTyped, RecordedHasInput
  <2>2. \A i, j \in 1 .. n : i < j => h[i] < h[j]
    BY DEF TransitionsAscend, Ascending
  <2> QED
    BY <2>1, <2>2 DEF HistoryOK
<1>2. m \in 0 .. n /\ \A i \in 0 .. (m - 1) : h[i + 1] <= first
  BY <1>1, FindsIndex DEF MinIndex
<1> HIDE DEF m, first
<1>3. /\ k \in m .. n
      /\ k = n \/ h[k + 1] > t
      /\ \A i \in m .. (k - 1) : h[i + 1] <= t
  BY <1>2, FindsIndex
<1> HIDE DEF k, n, h
<1>4. ASSUME NEW i \in 1 .. k PROVE h[i] <= t
  <2>1. i - 1 \in 0 .. (k - 1) /\ (i - 1) + 1 = i /\ i \in 1 .. n
    BY <1>1, <1>2, <1>3
  <2>2. CASE i - 1 <= m - 1
    <3>1. i - 1 \in 0 .. (m - 1)
      BY <1>1, <1>2, <2>1, <2>2
    <3>2. h[i] <= first /\ h[i] \in Nat
      BY <1>1, <1>2, <2>1, <3>1
    <3> QED
      BY <1>1, <3>2
  <2>3. CASE ~(i - 1 <= m - 1)
    <3>1. i - 1 \in m .. (k - 1)
      BY <1>1, <1>2, <1>3, <2>1, <2>3
    <3> QED
      BY <1>3, <2>1, <3>1
  <2> QED
    BY <2>2, <2>3
<1>5. ASSUME NEW i \in (k + 1) .. n PROVE h[i] > t
  <2>1. k # n /\ i \in 1 .. n /\ k + 1 \in 1 .. n /\ (i = k + 1 \/ k + 1 < i)
    BY <1>1, <1>2, <1>3
  <2>2. h[k + 1] > t /\ h[k + 1] \in Nat /\ h[i] \in Nat
    BY <1>1, <1>3, <2>1
  <2>3. i = k + 1 \/ h[k + 1] < h[i]
    BY <1>1, <2>1
  <2> QED
    BY <2>2, <2>3
<1>6. Splits(h, k, t)
  BY <1>4, <1>5 DEF Splits, n
<1> QED
  BY <1>1, <1>2, <1>3, <1>6 DEF m, k, n, h

\* The value of the view is the one of the wave.
LEMMA ValueIsWave == IInv /\ HInv => ViewShowsWave
<1> SUFFICES ASSUME IInv, HInv, NEW e \in Recorded, NEW t \in 0 .. time,
                    t >= time - HistoryLength[e]
             PROVE  ViewValue(e, t) = wave[e][t]
  BY DEF ViewShowsWave, Viewed
<1>1. TypeOK /\ TransitionsAscend /\ t \in Int /\ t \in Covered(e)
  BY DEF IInv, HInv, Covered, TypeOK
<1> DEFINE k == FindIndex(e, t, MinIndex(e))
<1>2. /\ MinIndex(e) \in Nat /\ k \in MinIndex(e) .. Len(history[e])
      /\ Splits(history[e], k, t)
  BY <1>1, ViewSplits
<1>3. ViewValue(e, t) = EntryValue(e, k)
  BY DEF ViewValue
<1> HIDE DEF k
<1>4. k \in 0 .. Len(history[e])
  BY <1>2
<1>5. wave[e][t] = ValueAfter(e, Len(history[e]) - k)
  BY <1>1, <1>2, <1>4 DEF HInv, WaveFollows
<1> QED
  BY <1>3, <1>5 DEF EntryValue, ValueAfter, Toggled

\* The entries of a stretch are not empty and cover it.
LEMMA StretchIsCovered == IInv /\ HInv => DrawnEntriesValid
<1> SUFFICES ASSUME IInv, HInv, NEW e \in Recorded, NEW t \in 0 .. time, NEW u \in 0 .. time,
                    t < u, t >= time - HistoryLength[e]
             PROVE  /\ From(e, t) < Until(e, u)
                    /\ \A k \in From(e, t) .. (Until(e, u) - 1) : EntryValid(e, k)
                    /\ EntryTime(e, From(e, t) - 1) <= t
                    /\ EntryTime(e, Until(e, u) - 1) >= u
  BY DEF DrawnEntriesValid, Viewed
<1> DEFINE h == history[e]
           n == Len(h)
           m == MinIndex(e)
           a == FindIndex(e, t, m)
           b == FindIndex(e, u - 1, m)
<1>1. /\ TypeOK /\ TransitionsAscend /\ time \in Nat
      /\ n \in Nat /\ \A i \in 1 .. n : h[i] \in Nat
      /\ \A i, j \in 1 .. n : i < j => h[i] < h[j]
      /\ t \in Nat /\ u \in Nat /\ u <= time /\ t <= u - 1 /\ u - 1 \in Int
      /\ HistoryLength[e] \in Nat
  <2>1. TypeOK /\ TransitionsAscend /\ HistoryOK(e) /\ HistoryLength[e] \in Nat
    BY HistoryTyped, RecordedHasInput DEF IInv, HInv
  <2>2. \A i, j \in 1 .. n : i < j => h[i] < h[j]
    BY <2>1 DEF TransitionsAscend, Ascending
  <2>3. time \in Nat /\ n \in Nat /\ \A i \in 1 .. n : h[i] \in Nat
    BY <2>1 DEF HistoryOK
  <2> QED
    BY <2>1, <2>2, <2>3
<1>2. u - 1 >= time - HistoryLength[e]
  BY <1>1
<1>3. m \in Nat /\ a \in m .. n /\ Splits(h, a, t)
  BY <1>1, ViewSplits
<1>4. b \in m .. n /\ Splits(h, b, u - 1)
  BY <1>1, <1>2, ViewSplits
<1>5. From(e, t) = a /\ Until(e, u) = b + 1
  BY DEF From, Until, Epsilon
<1>6. \A k : EntryTime(e, k) = IF k < m THEN -1000 ELSE IF k >= n THEN time ELSE h[k + 1]
  BY DEF EntryTime, TimeMin
<1> HIDE DEF a, b, n, h, m
<1>7. \A i \in 1 .. a : h[i] <= t
  BY <1>3 DEF Splits
<1>8. /\ \A i \in 1 .. b : h[i] <= u - 1
      /\ \A i \in (b + 1) .. n : h[i] > u - 1
  BY <1>4 DEF Splits, n
<1>9. a <= b
  <2> SUFFICES ASSUME ~(a <= b) PROVE FALSE
    OBVIOUS
  <2>1. b + 1 \in 1 .. a /\ b + 1 \in (b + 1) .. n /\ b + 1 \in 1 .. n
    BY <1>1, <1>3, <1>4
  <2> QED
    BY <1>1, <1>7, <1>8, <2>1
<1>10. ASSUME NEW k \in a .. b PROVE EntryTime(e, k - 1) < EntryTime(e, k)
  <2>1. k \in Nat /\ k >= m /\ k <= n
    BY <1>1, <1>3, <1>4
  <2>2. EntryTime(e, k) = IF k >= n THEN time ELSE h[k + 1]
    BY <1>1, <1>3, <1>6, <2>1
  <2>3. k < n => k + 1 \in 1 .. n
    BY <1>1, <2>1
  <2>4. EntryTime(e, k) \in Nat
    BY <1>1, <2>1, <2>2, <2>3
  <2>5. CASE k - 1 < m
    BY <1>6, <2>4, <2>5
  <2>6. CASE ~(k - 1 < m)
    <3>1. k \in 1 .. n /\ k \in 1 .. b /\ ~(k - 1 >= n) /\ (k - 1) + 1 = k
      BY <1>1, <1>3, <1>4, <2>1, <2>6
    <3>2. EntryTime(e, k - 1) = h[k]
      BY <1>6, <2>6, <3>1
    <3>3. h[k] <= u - 1 /\ h[k] \in Nat
      BY <1>1, <1>8, <3>1
    <3>4. k < n => h[k] < h[k + 1]
      BY <1>1, <2>1, <2>3, <3>1
    <3> QED
      BY <1>1, <2>1, <2>2, <3>2, <3>3, <3>4
  <2> QED
    BY <2>5, <2>6
<1>11. EntryTime(e, a - 1) <= t
  <2>1. CASE a - 1 < m
    BY <1>1, <1>6, <2>1
  <2>2. CASE ~(a - 1 < m)
    <3>1. a \in 1 .. a /\ ~(a - 1 >= n) /\ (a - 1) + 1 = a
      BY <1>1, <1>3, <2>2
    <3> QED
      BY <1>6, <1>7, <2>2, <3>1
  <2> QED
    BY <2>1, <2>2
<1>12. EntryTime(e, b) >= u
  <2>1. ~(b < m)
    BY <1>1, <1>3, <1>4
  <2>2. CASE b >= n
    BY <1>1, <1>6, <2>1, <2>2
  <2>3. CASE ~(b >= n)
    <3>1. b + 1 \in (b + 1) .. n /\ b + 1 \in 1 .. n
      BY <1>1, <1>3, <1>4, <2>3
    <3>2. h[b + 1] > u - 1 /\ h[b + 1] \in Nat
      BY <1>1, <1>8, <3>1
    <3> QED
      BY <1>1, <1>6, <2>1, <2>3, <3>2
  <2> QED
    BY <2>2, <2>3
<1>13. (b + 1) - 1 = b /\ a < b + 1
  BY <1>1, <1>3, <1>4, <1>9
<1> QED
  BY <1>5, <1>10, <1>11, <1>12, <1>13 DEF EntryValid

-----------------------------------------------------------------------------
\* The invariant of the histories, with the one of the simulation.
LEMMA HistoryInvariant == SpecH => [](IInv /\ HInv)
<1>1. InitH => IInv /\ HInv
  BY InitHistory, InitInvariant DEF InitH
<1>2. [NextH]_wvars => [Next]_vars
  BY DEF NextH, wvars
<1>3. IInv /\ HInv /\ [NextH]_wvars => IInv' /\ HInv'
  BY <1>2, StepInvariant, StepHistory
<1> QED
  BY <1>1, <1>3, PTL DEF SpecH

\* At every time that the history covers the view gives the value that the
\* input had, although values are never stored and old transitions are dropped
\* (record_input_history, shrink_history, HistoryView::value).
THEOREM ViewIsTheWave == SpecH => []ViewShowsWave
BY HistoryInvariant, ValueIsWave, PTL

\* Drawing a stretch of a wire never meets an empty entry, whose constructor
\* would throw, and leaves no gap (render_wire.cpp:130).
THEOREM StretchesAreValid == SpecH => []DrawnEntriesValid
BY HistoryInvariant, StretchIsCovered, PTL
==============================================================================
