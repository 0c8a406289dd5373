------------------------- MODULE SimulationInvariant -------------------------
(***************************************************************************)
(* The inductive invariant of the simulation: how far ahead of the time    *)
(* the queued events can be, and what the operations rely on half way.     *)
(***************************************************************************)
EXTENDS Simulation

\* No two events for one time and input: the queue's precondition.
Unique(Q) == \A ev, other \in Q :
                ev.time = other.time /\ ev.input = other.input => ev = other

\* Events on their way to the sinks of element e were sent before the present.
SentBefore(Q, e) ==
    \A o \in Outputs, ev \in Q :
        o[1] = e /\ Sink[o] = ev.input => ev.time < time + Delay[o]

EventsNotPast ==
    \A ev \in events : IF pc \in {"events", "try"} THEN ev.time >= time
                       ELSE ev.time > time

\* An event is at most its output's delay ahead, and just as far only once
\* its element has been evaluated at the present time.
EventsWithinDelay ==
    \A o \in Outputs, ev \in events : Sink[o] = ev.input =>
        /\ ev.time <= time + Delay[o]
        /\ ev.time = time + Delay[o] => Group(time, o[1]) = {}

\* A user's event is at most one time step ahead.
UserEventsNext ==
    \A ev \in events : ~IsConnected(ev.input) => ev.time <= time + Epsilon

QueueInvariant == /\ Unique(events)
                  /\ EventsNotPast
                  /\ EventsWithinDelay
                  /\ UserEventsNext

-----------------------------------------------------------------------------
InputCaller == {<<"set_unconnected_input", p, v>> :
                   p \in UserInputs, v \in BOOLEAN}
TryCaller == {<<"try_set_internal_state", s, v>> :
                 s \in UserStates, v \in BOOLEAN}

\* set_unconnected_input runs over every event a user queued before.
RunCallOK ==
    /\ call \in [caller : {<<"run">>} \cup InputCaller, infinite : BOOLEAN,
                 end : Nat, timeout : BOOLEAN, maxCount : Nat, nextCheck : Nat]
    /\ call.infinite \/ time <= call.end
    /\ call.nextCheck <= call.maxCount
    /\ pc = "run" => eventCount < call.maxCount
    /\ call.caller # <<"run">> =>
          /\ ~call.infinite
          /\ call.nextCheck = CountMax
          /\ \A ev \in events : ~IsConnected(ev.input) => ev.time <= call.end

\* No earlier event of the user's is left when a new one is submitted.
SubmitCallOK ==
    /\ call.caller \in InputCaller
    /\ \A ev \in events : IsConnected(ev.input)

\* As long as the element's state is the one at the start of the time point,
\* the element has not sent anything at this time point.
TryCallOK ==
    /\ call.caller \in TryCaller
    /\ call.tries \in Nat
    /\ LET e == call.caller[2][1]
       IN  /\ Group(time, e) # {} => state[e] = call.startState
           /\ state[e] = call.startState => SentBefore(events, e)

CallOK == /\ pc \in {"run", "events"} => RunCallOK
          /\ pc = "submit" => SubmitCallOK
          /\ pc = "try" => TryCallOK

IInv == /\ TypeOK
        /\ NoError
        /\ eventCount < CountMax
        /\ QueueInvariant
        /\ CallOK
        /\ InputsFollowOutputs
=============================================================================
