------------------------- MODULE SynchronousCircuit -------------------------
(***************************************************************************)
(* What the simulation promises: a synchronous machine in which a whole    *)
(* time point is one step.  All values due at that time change together,   *)
(* then every element that saw a change is evaluated on the values of the  *)
(* whole time point, whatever the order of the elements ("the simulation   *)
(* either fully processes or doesn't process events for a specific         *)
(* time-point", core/simulation.h:125).                                    *)
(***************************************************************************)
EXTENDS Schematic

CONSTANTS InitialInput, InitialState, InitialEvents

VARIABLES time, events, input, state

vars == <<time, events, input, state>>

NextTime(t) == /\ \E ev \in events : ev.time = t
               /\ \A ev \in events : t <= ev.time

Due(t) == {ev \in events : ev.time = t}

Touched(t) == {ev.input[1] : ev \in Due(t)}

NewInput(t) == [p \in Inputs |-> IF \E ev \in Due(t) : ev.input = p
                                 THEN \E ev \in Due(t) : ev.input = p /\ ev.value
                                 ELSE input[p]]

NewState(t) ==
    [e \in Element |->
        IF e \in Touched(t) /\ HasInternalState(Type[e])
        THEN UpdateInternalState(Type[e], InputCount[e], Uninverted(input, e),
                                 Uninverted(NewInput(t), e), state[e])
        ELSE state[e]]

\* What the outputs of the elements in E send when (in1, st1) becomes (in2, st2).
Sent(E, t, in1, st1, in2, st2) ==
    {[time |-> t + Delay[o], input |-> Sink[o],
      value |-> OutputValue(in2, st2, o[1], o[2])] :
        o \in {p \in Outputs :
                 /\ p[1] \in E
                 /\ Sink[p] # NullInput
                 /\ OutputValue(in1, st1, p[1], p[2])
                       # OutputValue(in2, st2, p[1], p[2])}}

Init ==
    /\ time = 0
    /\ events = InitialEvents
    /\ input = InitialInput
    /\ state = InitialState

\* Time goes to the next time point, which takes effect as a whole.
TimePoint ==
    \E t \in {ev.time : ev \in events} :
        /\ NextTime(t)
        /\ t > time
        /\ time' = t
        /\ input' = NewInput(t)
        /\ state' = NewState(t)
        /\ events' = (events \ Due(t)) \cup
                     Sent(Touched(t), t, input, state, NewInput(t), NewState(t))

\* Time passes up to, and not including, the next event.
TimePasses ==
    /\ time' > time
    /\ \A ev \in events : time' < ev.time
    /\ UNCHANGED <<events, input, state>>

\* The user changes one state bit.  The change goes out like any other, and no
\* output of the element may have sent something else at this very time.
UserWrite ==
    \E e \in Element :
        /\ \E i \in DOMAIN state[e], value \in BOOLEAN :
              state' = [state EXCEPT ![e][i] = value]
        /\ \A j \in OutputIds(e) : \A ev \in events :
              ev.input = Sink[<<e, j>>] => ev.time < time + Delay[<<e, j>>]
        /\ events' = events \cup Sent({e}, time, input, state, input, state')
        /\ UNCHANGED <<time, input>>

\* The user changes an input that no output drives and nobody else changes.
UserInput ==
    \E p \in Inputs :
        /\ ~IsConnected(p)
        /\ \A ev \in events : ev.input # p
        /\ events' = events \cup
              {[time |-> time + 1, input |-> p, value |-> ~input[p]]}
        /\ UNCHANGED <<time, input, state>>

Next == TimePoint \/ TimePasses \/ UserWrite \/ UserInput

Spec == Init /\ [][Next]_vars
=============================================================================
