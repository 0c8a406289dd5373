----------------------------- MODULE Simulation -----------------------------
(***************************************************************************)
(* The event driven simulation of a schematic: core/simulation.{h,cpp} and *)
(* core/component/simulation/simulation_queue.cpp.                         *)
(*                                                                         *)
(* The simulation is a single threaded object.  Its three operations that  *)
(* change it -- run, try_set_internal_state and set_unconnected_input --   *)
(* are cut into the steps of their loops: a step to the next time point,   *)
(* the processing of one event group, the check of the limits.  `pc` says  *)
(* where in these loops the program is, "idle" is between two calls.       *)
(*                                                                         *)
(* An exception or a failed contract ends the program's use of the object: *)
(* `error` names it and every action requires error = "none".              *)
(*                                                                         *)
(* An operator marked "Fault" is the definition below it with a bug in it; *)
(* no specification uses it.                                               *)
(***************************************************************************)
EXTENDS Schematic, FiniteSets, Sequences

CONSTANTS
    RunConfigs,     \* the RunConfig values callers pass to run
    UserStates,     \* the <<element, state index>> that callers write
    UserInputs,     \* the unconnected inputs that callers set
    CheckInterval,  \* timer_check_interval (1000 in the code)
    MaxTries,       \* max_tries of try_set_internal_state (10 in the code)
    CountMax,       \* numeric_limits<event_count_t>::max(); bound: the event
                    \* counter stays below it
    CallHorizon     \* bound: no call starts after this simulation time

\* A RunConfig.  `infinite` is simulate_for = infinite_simulation, `limited`
\* is max_events # no_max_events, `timeout` is a finite realtime_timeout.  The
\* values that validate() rejects are left out, and so are the zeros, with
\* which run returns at once; neither changes the simulation.
RunConfig == [infinite : BOOLEAN, simulateFor : Nat \ {0},
              limited : BOOLEAN, maxEvents : Nat \ {0}, timeout : BOOLEAN]

ASSUME CallAssumption ==
    /\ RunConfigs \subseteq RunConfig
    /\ \A s \in UserStates : /\ s[1] \in Element
                             /\ s[2] \in 0 .. (InternalStateSize(Type[s[1]]) - 1)
                             /\ IsInternalStateUserWritable(Type[s[1]])
    /\ UserInputs \subseteq {p \in Inputs : ~IsConnected(p)}
    /\ CheckInterval \in Nat \ {0}
    /\ MaxTries \in Nat \ {0}
    /\ CountMax \in Nat \ {0}
    /\ CallHorizon \in Nat

VARIABLES
    time,           \* queue_.time_
    events,         \* queue_.events_
    input,          \* input_values_
    state,          \* internal_states_
    history,        \* first_input_histories_
    largestHistoryEvent,
    eventCount,     \* event_count_
    pc,             \* "idle", "run", "events" (in run), "submit" or "try"
    call,           \* the arguments and locals of the call in progress
    error           \* the exception or contract violation, "none" if none

vars == <<time, events, input, state, history, largestHistoryEvent,
          eventCount, pc, call, error>>

Event == [time : Nat, input : Inputs, value : BOOLEAN]

-----------------------------------------------------------------------------
(***************************************************************************)
(* The queue.                                                              *)
(***************************************************************************)

\* next_event_time() = t, of a queue that is not empty
IsNextTime(t) == /\ \E ev \in events : ev.time = t
                 /\ \A ev \in events : t <= ev.time

\* next_event_time() > t; an empty queue answers time_t::max()
NextEventAfter(t) == \A ev \in events : ev.time > t

\* Fault: the events of a group are popped one by one.
GroupOneByOne(t, e) ==
    LET group == {ev \in events : ev.time = t /\ ev.input[1] = e}
    IN  IF group = {} THEN {} ELSE {CHOOSE ev \in group : TRUE}

\* The events that pop_event_group returns for element e at time t.  The
\* priority queue orders them by time, then element id.
Group(t, e) == {ev \in events : ev.time = t /\ ev.input[1] = e}

IsNextGroup(t, e) ==
    /\ IsNextTime(t)
    /\ Group(t, e) # {}
    /\ \A ev \in events : ev.time = t => e <= ev.input[1]

\* The exception that submitting the events `new` leads to.  submit_event
\* throws for an event that is not in the future.  The queue accepts a second
\* event for one time and input, and SimulationEventGroup throws when both are
\* popped; `events` is a set and cannot hold both, so it is found here.
SubmitError(new, queued) ==
    IF \E ev \in new : ev.time <= time
    THEN "event not in the future"
    ELSE IF \E ev \in new, other \in queued :
                ev.time = other.time /\ ev.input = other.input
    THEN "two events for one time and input"
    ELSE "none"

\* The events of submit_events_for_changed_outputs for element e at time t,
\* where `old` and `new` give the value of every output.
ChangedOutputs(t, e, old, new) ==
    {[time  |-> t + Delay[<<e, j>>],
      input |-> Sink[<<e, j>>],
      value |-> new[j]] :
        j \in {k \in OutputIds(e) : /\ old[k] # new[k]
                                    /\ Sink[<<e, k>>] # NullInput}}

OutputVector(in, st, e) == [j \in OutputIds(e) |-> OutputValue(in, st, e, j)]

-----------------------------------------------------------------------------
(***************************************************************************)
(* Construction.                                                           *)
(***************************************************************************)

AllOff(n) == [i \in 0 .. (n - 1) |-> FALSE]

UnconnectedOff(p) == ~IsConnected(p) /\ ~Inverted[p]

\* initialize_input_values, then set_outputs_to_zero
InitialInput ==
    [p \in Inputs |->
        \/ HasEnableInput(Type[p[1]]) /\ p[2] = 0 /\ UnconnectedOff(p)
        \/ /\ Type[p[1]] = "flipflop_jk"
           /\ p[2] \in {1, 2}
           /\ UnconnectedOff(<<p[1], 1>>) /\ UnconnectedOff(<<p[1], 2>>)
        \/ /\ Inverted[p]
           /\ \E o \in Outputs : Drives(o, p) /\ Type[o[1]] \in LogicItemType]

\* initialize_circuit_state leaves wires and elements without logic alone.
InitiallyEvaluated(e) == Type[e] # "wire" /\ ~HasNoLogic(Type[e])

InitialState ==
    [e \in Element |->
        IF HasInternalState(Type[e])
        THEN UpdateInternalState(Type[e], InputCount[e], AllOff(InputCount[e]),
                                 Uninverted(InitialInput, e),
                                 AllOff(InternalStateSize(Type[e])))
        ELSE AllOff(0)]

\* get_outputs_switched_off: what the driven inputs hold
SwitchedOffOutputs(e) ==
    [j \in OutputIds(e) |-> IF Sink[<<e, j>>] = NullInput THEN FALSE
                            ELSE InitialInput[Sink[<<e, j>>]]]

InitialEvents ==
    UNION {ChangedOutputs(0, e, SwitchedOffOutputs(e),
                          OutputVector(InitialInput, InitialState, e)) :
              e \in {f \in Element : InitiallyEvaluated(f)}}

NoCall == [caller |-> "none"]

Init ==
    /\ time = 0
    /\ events = InitialEvents
    /\ input = InitialInput
    /\ state = InitialState
    /\ history = [e \in Element |-> << >>]
    /\ largestHistoryEvent = 0
    /\ eventCount = 0
    /\ pc = "idle"
    /\ call = NoCall
    /\ error = "none"

-----------------------------------------------------------------------------
(***************************************************************************)
(* process_event_group: apply the group's events, evaluate the element and *)
(* submit an event for every output that changed.                          *)
(***************************************************************************)

\* apply_events
InputAfter(group) ==
    [p \in Inputs |-> IF \E ev \in group : ev.input = p
                      THEN \E ev \in group : ev.input = p /\ ev.value
                      ELSE input[p]]

\* shrink_history: drop the entries before `minTime`; the entries ascend, so
\* these are the ones pop_front meets first
ShrinkHistory(h, minTime) ==
    SubSeq(h, Cardinality({i \in DOMAIN h : h[i] < minTime}) + 1, Len(h))

\* record_input_history: only input 0, only if the element keeps a history
RecordsHistory(e, newInput) ==
    /\ HistoryLength[e] > 0
    /\ <<e, 0>> \in Inputs
    /\ newInput[<<e, 0>>] # input[<<e, 0>>]

RecordHistory(e, newInput) ==
    IF RecordsHistory(e, newInput)
    THEN /\ history' = [history EXCEPT ![e] =
                Append(ShrinkHistory(@, time - HistoryLength[e]), time)]
         /\ largestHistoryEvent' =
                IF largestHistoryEvent >= time + HistoryLength[e]
                THEN largestHistoryEvent ELSE time + HistoryLength[e]
    ELSE UNCHANGED <<history, largestHistoryEvent>>

StateAfter(e, newInput) ==
    IF HasInternalState(Type[e])
    THEN [state EXCEPT ![e] = UpdateInternalState(Type[e], InputCount[e],
                                  Uninverted(input, e),
                                  Uninverted(newInput, e), @)]
    ELSE state

\* The new events; elements without logic have no outputs.
EventsAfter(e, newInput, newState) ==
    ChangedOutputs(time, e, OutputVector(input, state, e),
                   OutputVector(newInput, newState, e))

\* One iteration of process_all_current_events.
ProcessEventGroup(e) ==
    LET group    == Group(time, e)
        newInput == InputAfter(group)
        newState == StateAfter(e, newInput)
        new      == EventsAfter(e, newInput, newState)
    IN  /\ error = "none"
        /\ pc \in {"events", "try"}
        /\ IsNextGroup(time, e)
        /\ input' = newInput
        /\ state' = newState
        /\ RecordHistory(e, newInput)
        /\ events' = (events \ group) \cup new
        /\ error' = SubmitError(new, events \ group)
        /\ eventCount' = eventCount + Cardinality(group)
        /\ eventCount' < CountMax
        /\ UNCHANGED <<time, pc, call>>

-----------------------------------------------------------------------------
(***************************************************************************)
(* run                                                                     *)
(***************************************************************************)

SmallerOf(a, b) == IF a <= b THEN a ELSE b
LargerOf(a, b)  == IF a >= b THEN a ELSE b

\* SimulationQueue::set_time
SetTimeError(t) ==
    IF t < time THEN "time set to the past"
    ELSE IF \E ev \in events : ev.time < t THEN "time set beyond next event"
    ELSE "none"

\* Expects and Ensures of the three operations: all current events are done.
CurrentEventsDone == IF NextEventAfter(time) THEN "none"
                     ELSE "current events not processed"

StopCount(cfg) == IF cfg.limited THEN eventCount + cfg.maxEvents ELSE CountMax

RunCall(caller, cfg) ==
    [caller    |-> caller,
     infinite  |-> cfg.infinite,
     end       |-> time + cfg.simulateFor,
     timeout   |-> cfg.timeout,
     maxCount  |-> StopCount(cfg),
     nextCheck |-> SmallerOf(StopCount(cfg),
                             IF cfg.timeout THEN eventCount + CheckInterval
                             ELSE CountMax)]

StartRun(cfg) ==
    /\ error = "none"
    /\ pc = "idle"
    /\ time <= CallHorizon
    /\ cfg.limited => eventCount <= CountMax - cfg.maxEvents   \* or throws
    /\ pc' = "run"
    /\ call' = RunCall(<<"run">>, cfg)
    /\ error' = CurrentEventsDone
    /\ UNCHANGED <<time, events, input, state, history, largestHistoryEvent,
                   eventCount>>

\* The loop condition holds: on to the next time point.
AdvanceToNextEvent ==
    /\ error = "none"
    /\ pc = "run"
    /\ \E t \in {ev.time : ev \in events} :
          /\ IsNextTime(t)
          /\ call.infinite \/ t <= call.end
          /\ time' = t
          /\ error' = SetTimeError(t)
    /\ pc' = "events"
    /\ UNCHANGED <<events, input, state, history, largestHistoryEvent,
                   eventCount, call>>

\* Back in the caller: run itself, or set_unconnected_input.
ReturnFromRun == pc' = IF call.caller = <<"run">> THEN "idle" ELSE "submit"

TimePointDone == pc = "events" /\ ~IsNextTime(time)

\* The time point is processed and the event count is below the next check.
ContinueRun ==
    /\ error = "none"
    /\ TimePointDone
    /\ eventCount < call.nextCheck
    /\ pc' = "run"
    /\ UNCHANGED <<time, events, input, state, history, largestHistoryEvent,
                   eventCount, call, error>>

\* Fault: the next check may be later than the stop count.
ContinueAfterCheckLate ==
    /\ error = "none"
    /\ TimePointDone
    /\ eventCount >= call.nextCheck
    /\ eventCount < call.maxCount
    /\ pc' = "run"
    /\ call' = [call EXCEPT !.nextCheck = @ + CheckInterval]
    /\ UNCHANGED <<time, events, input, state, history, largestHistoryEvent,
                   eventCount, error>>

\* A check that finds neither the timeout nor the event limit reached.
ContinueAfterCheck ==
    /\ error = "none"
    /\ TimePointDone
    /\ eventCount >= call.nextCheck
    /\ eventCount < call.maxCount
    /\ pc' = "run"
    /\ call' = [call EXCEPT !.nextCheck =
                   SmallerOf(call.maxCount, @ + CheckInterval)]
    /\ UNCHANGED <<time, events, input, state, history, largestHistoryEvent,
                   eventCount, error>>

\* A check that interrupts the run.  The timer may fire at any check.
StopRun ==
    /\ error = "none"
    /\ TimePointDone
    /\ eventCount >= call.nextCheck
    /\ call.timeout \/ eventCount >= call.maxCount
    /\ ReturnFromRun
    /\ call' = IF pc' = "idle" THEN NoCall ELSE call
    /\ error' = CurrentEventsDone
    /\ UNCHANGED <<time, events, input, state, history, largestHistoryEvent,
                   eventCount>>

\* Fault: an infinite run ends at its last event.
EndTimeNow == IF call.infinite THEN time ELSE call.end

\* The loop condition fails: the time goes to the end of the run, or in an
\* infinite run to the end of the last recorded history.
EndTime == IF call.infinite THEN LargerOf(time, largestHistoryEvent)
           ELSE call.end

EndRun ==
    /\ error = "none"
    /\ pc = "run"
    /\ events = {} \/ (~call.infinite /\ NextEventAfter(call.end))
    /\ time' = EndTime
    /\ ReturnFromRun
    /\ call' = IF pc' = "idle" THEN NoCall ELSE call
    /\ error' = IF \E ev \in events : ev.time <= EndTime
                THEN "current events not processed"
                ELSE SetTimeError(EndTime)
    /\ UNCHANGED <<events, input, state, history, largestHistoryEvent,
                   eventCount>>

-----------------------------------------------------------------------------
(***************************************************************************)
(* set_unconnected_input: run for one time step, then submit the event.    *)
(***************************************************************************)
Epsilon == 1

StepConfig == [infinite |-> FALSE, simulateFor |-> Epsilon,
               limited |-> FALSE, maxEvents |-> 1, timeout |-> FALSE]

SetUnconnectedInput(p, value) ==
    /\ error = "none"
    /\ pc = "idle"
    /\ time <= CallHorizon
    /\ pc' = "run"
    /\ call' = RunCall(<<"set_unconnected_input", p, value>>, StepConfig)
    /\ error' = CurrentEventsDone
    /\ UNCHANGED <<time, events, input, state, history, largestHistoryEvent,
                   eventCount>>

\* Fault: one time step too late.
UserEventsLate(p, value) ==
    IF value = input[p] THEN {}
    ELSE {[time |-> time + 2 * Epsilon, input |-> p, value |-> value]}

UserEvents(p, value) ==
    IF value = input[p] THEN {}
    ELSE {[time |-> time + Epsilon, input |-> p, value |-> value]}

SubmitUserInput ==
    LET new == UserEvents(call.caller[2], call.caller[3])
    IN  /\ error = "none"
        /\ pc = "submit"
        /\ events' = events \cup new
        /\ error' = SubmitError(new, events)
        /\ pc' = "idle"
        /\ call' = NoCall
        /\ UNCHANGED <<time, input, state, history, largestHistoryEvent,
                       eventCount>>

-----------------------------------------------------------------------------
(***************************************************************************)
(* try_set_internal_state: look for a time point at which processing does  *)
(* not change the element's state, and write the state there.              *)
(***************************************************************************)
TryCall(s, value, tries) ==
    [caller |-> <<"try_set_internal_state", s, value>>,
     tries |-> tries, startState |-> state[s[1]]]

TrySetInternalState(s, value) ==
    /\ error = "none"
    /\ pc = "idle"
    /\ time <= CallHorizon
    /\ pc' = "try"
    /\ time' = time + Epsilon
    /\ call' = TryCall(s, value, 1)
    /\ error' = IF NextEventAfter(time) THEN SetTimeError(time + Epsilon)
                ELSE CurrentEventsDone
    /\ UNCHANGED <<events, input, state, history, largestHistoryEvent,
                   eventCount>>

\* Fault: the state is written before the time point is processed.
TryPointDoneEarly == pc = "try"

TryPointDone == pc = "try" /\ ~IsNextTime(time)

\* Fault: the state is written whether or not it has just changed.
TryStateChangedNever == FALSE

TryStateChanged == state[call.caller[2][1]] # call.startState

TryAgain ==
    /\ error = "none"
    /\ TryPointDone
    /\ TryStateChanged
    /\ call.tries < MaxTries
    /\ time' = time + Epsilon
    /\ call' = TryCall(call.caller[2], call.caller[3], call.tries + 1)
    /\ error' = IF NextEventAfter(time) THEN SetTimeError(time + Epsilon)
                ELSE CurrentEventsDone
    /\ UNCHANGED <<events, input, state, history, largestHistoryEvent,
                   eventCount, pc>>

\* Fault: one try too many is awaited.
GiveUpLater ==
    /\ error = "none"
    /\ TryPointDone
    /\ TryStateChanged
    /\ call.tries > MaxTries
    /\ pc' = "idle"
    /\ call' = NoCall
    /\ error' = CurrentEventsDone
    /\ UNCHANGED <<time, events, input, state, history, largestHistoryEvent,
                   eventCount>>

GiveUp ==
    /\ error = "none"
    /\ TryPointDone
    /\ TryStateChanged
    /\ call.tries = MaxTries
    /\ pc' = "idle"
    /\ call' = NoCall
    /\ error' = CurrentEventsDone
    /\ UNCHANGED <<time, events, input, state, history, largestHistoryEvent,
                   eventCount>>

\* Fault: the changed outputs are not submitted.
WriteInternalStateSilently ==
    LET s == call.caller[2]
    IN  /\ error = "none"
        /\ TryPointDone
        /\ ~TryStateChanged
        /\ state' = [state EXCEPT ![s[1]][s[2]] = call.caller[3]]
        /\ error' = CurrentEventsDone
        /\ pc' = "idle"
        /\ call' = NoCall
        /\ UNCHANGED <<time, events, input, history, largestHistoryEvent,
                       eventCount>>

WriteInternalState ==
    LET s        == call.caller[2]
        e        == s[1]
        newState == [state EXCEPT ![e][s[2]] = call.caller[3]]
        new      == ChangedOutputs(time, e, OutputVector(input, state, e),
                                   OutputVector(input, newState, e))
    IN  /\ error = "none"
        /\ TryPointDone
        /\ ~TryStateChanged
        /\ state' = newState
        /\ events' = events \cup new
        /\ error' = IF NextEventAfter(time) THEN SubmitError(new, events)
                    ELSE CurrentEventsDone
        /\ pc' = "idle"
        /\ call' = NoCall
        /\ UNCHANGED <<time, input, history, largestHistoryEvent, eventCount>>

-----------------------------------------------------------------------------
\* The steps of a call in progress; the program runs a call to its end.
CallStep ==
    \/ \E e \in Element : ProcessEventGroup(e)
    \/ AdvanceToNextEvent
    \/ ContinueRun
    \/ ContinueAfterCheck
    \/ StopRun
    \/ EndRun
    \/ SubmitUserInput
    \/ TryAgain
    \/ GiveUp
    \/ WriteInternalState

Next ==
    \/ \E cfg \in RunConfigs : StartRun(cfg)
    \/ \E p \in UserInputs, value \in BOOLEAN : SetUnconnectedInput(p, value)
    \/ \E s \in UserStates, value \in BOOLEAN : TrySetInternalState(s, value)
    \/ CallStep

Spec == Init /\ [][Next]_vars /\ WF_vars(CallStep)

-----------------------------------------------------------------------------
IsFinished == events = {} /\ time >= largestHistoryEvent

TypeOK ==
    /\ time \in Nat
    /\ events \subseteq Event
    /\ input \in [Inputs -> BOOLEAN]
    /\ DOMAIN state = Element
    /\ \A e \in Element :
          state[e] \in [0 .. (InternalStateSize(Type[e]) - 1) -> BOOLEAN]
    /\ history \in [Element -> Seq(Nat)]
    /\ largestHistoryEvent \in Nat
    /\ eventCount \in Nat
    /\ pc \in {"idle", "run", "events", "submit", "try"}

\* No call ever throws out of the event queue or fails a contract: no event
\* is submitted for the present or the past, none for a time and an input
\* that already have one, and the time never passes an unprocessed event
\* (simulation_queue.cpp, simulation_event_group.cpp, Expects and Ensures of
\* simulation.cpp).
NoError == error = "none"

\* Between time points there is nothing left to do at the current time
\* (class invariant of Simulation, simulation.h:94).
CurrentEventsSimulated ==
    pc \in {"idle", "run", "submit"} => NextEventAfter(time)

\* No event is lost or overtaken: what element o[1] drives on output o is what
\* the last event on its way to the driven input will set there, or what the
\* input already holds if there is none (submit_events_for_changed_outputs).
\* In particular the inputs of a finished circuit are its outputs.
IsLast(ev) ==
    \A other \in events : other.input = ev.input => other.time <= ev.time

InputsFollowOutputs ==
    \A o \in Outputs : Sink[o] # NullInput =>
        LET want == OutputValue(input, state, o[1], o[2])
        IN  /\ \A ev \in events :
                  ev.input = Sink[o] /\ IsLast(ev) => ev.value = want
            /\ (\A ev \in events : ev.input # Sink[o]) => input[Sink[o]] = want

\* run never opens another time point once max_events have been processed,
\* although it compares the count only at its checks (simulation.cpp:433).
LimitRespected ==
    [][pc = "run" /\ pc' = "events" => eventCount < call.maxCount]_vars

\* An uninterrupted run ends where it should: at its end time, or in an
\* infinite run with nothing left to simulate or to show (simulation.cpp:445).
RunEndsComplete ==
    [][pc = "run" /\ pc' \in {"idle", "submit"} =>
          IF call.infinite THEN IsFinished' ELSE time' = call.end]_vars

\* Every call returns, the ones on circuits that never settle included, if
\* they are limited in time or in events.
CallReturns == pc # "idle" ~> pc = "idle"
=============================================================================
