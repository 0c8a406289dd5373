------------------------ MODULE InteractiveSimulation ------------------------
(***************************************************************************)
(* The simulation that follows real time, and the window that runs it:     *)
(* core/interactive_simulation.cpp with spatial_simulation.cpp, its place  *)
(* in the circuit store (circuit_store.cpp), and the timer, the repaints   *)
(* and the settings of gui/widget/circuit_widget.cpp.                      *)
(*                                                                         *)
(* The circuit is abstract: a simulation knows the time from which on it   *)
(* is finished, that is nothing changes any more unless the user clicks    *)
(* (Simulation::is_finished).  Real time passes between the steps, and     *)
(* while a run is in progress; only its differences matter, so that it is  *)
(* counted from the generation of the simulation.  The timer fires at any  *)
(* time: its interval is a lower bound only.  `granted`, `clicked` and     *)
(* `rebased` are history variables.  An operator whose comment starts with "Fault" is a faulty   *)
(* variant of the one that follows it.                                     *)
(***************************************************************************)
EXTENDS Integers

CONSTANTS
    Second,      \* ticks of the real time in a second
    Rates,       \* time rates that are chosen, in simulation time per second
    Timeout,     \* simulation_interval, the longest a run should take
    Durations,   \* real time that passes at once
    Settles,     \* how long a circuit is busy after a change
    TryTime,     \* simulation time that a click takes at most
    RealtimeMax, \* bound: real time
    ClickMax,    \* bound: clicks on a simulation
    RebaseMax    \* bound: changes of the rate of a simulation

ASSUME InteractiveConstants ==
    /\ Second \in Nat \ {0} /\ Rates \subseteq Nat
    /\ Timeout \in Nat /\ Durations \subseteq Nat
    /\ Settles \subseteq Nat /\ TryTime \in Nat
    /\ RealtimeMax \in Nat /\ ClickMax \in Nat /\ RebaseMax \in Nat

VARIABLES
    now,          \* the real time since the simulation was generated
    circuitState, \* circuit_state_ of the widget and the store
    config,       \* simulation_config_ of the widget and the store
    circuit,      \* the layout, which changes when it is edited or loaded
    sim,          \* interactive_simulation_
    pending,      \* simulation_image_update_pending_
    update,       \* a repaint has been requested
    granted,      \* the sum of rate times real time, over this simulation
    clicked,      \* simulation time taken by clicks
    rebased       \* changes of the rate

ghosts == <<granted, clicked, rebased>>
vars == <<now, circuitState, config, circuit, sim, pending, update, ghosts>>

CircuitState == {"editing", "non_interactive", "simulation"}
Config       == [rate : Rates, wireDelay : BOOLEAN]
Circuits     == {0, 1}

IsSimulation == circuitState = "simulation"

\* The rounding of a time to an integer, halves to the even one (round_fast).
Rounded(n) ==
    LET q == n \div Second
        r == n % Second
    IN  IF 2 * r < Second \/ (2 * r = Second /\ q % 2 = 0) THEN q ELSE q + 1

\* expected_simulation_time
Expected(s, realtime) ==
    s.simulationTimeReference + Rounded(s.rate * (realtime - s.realtimeReference))

IsFinished(s) == s.time >= s.settled

\* What a picture shows that is drawn now: the same once nothing changes.
Picture ==
    [state |-> circuitState, circuit |-> circuit, clicks |-> sim.clicks,
     time |-> IF IsFinished(sim) THEN sim.settled ELSE sim.time]

NewSimulation(rate, settled) ==
    [rate |-> rate, time |-> 0, settled |-> settled, clicks |-> 0,
     realtimeReference |-> 0, simulationTimeReference |-> 0]
NoSimulation == NewSimulation(0, 0)

\* generate_simulation
Generate(cfg) ==
    /\ \E settled \in Settles : sim' = NewSimulation(cfg.rate, settled)
    /\ now' = 0
    /\ granted' = 0 /\ clicked' = 0 /\ rebased' = 0

Drop ==
    /\ sim' = NoSimulation
    /\ now' = 0
    /\ granted' = 0 /\ clicked' = 0 /\ rebased' = 0

Init ==
    /\ now = 0
    /\ circuitState = "editing"
    /\ config \in Config
    /\ circuit = 0
    /\ sim = NoSimulation
    /\ pending = FALSE /\ update = TRUE
    /\ granted = 0 /\ clicked = 0 /\ rebased = 0

------------------------------------------------------------------------------
\* Nothing happens for a while; the real time is read while simulating only.
TimePasses(d) ==
    /\ IsSimulation
    /\ now + d <= RealtimeMax
    /\ now' = now + d
    /\ granted' = granted + config.rate * d
    /\ UNCHANGED <<circuitState, config, circuit, sim, pending, update, clicked,
                   rebased>>

\* CircuitWidget::renderEvent, after update or when the system asks for it.
Paint ==
    /\ pending' = FALSE /\ update' = FALSE
    /\ UNCHANGED <<now, circuitState, config, circuit, sim, ghosts>>

\* Changes of the layout in the editing states.
Edit ==
    /\ circuitState = "editing"
    /\ circuit' \in Circuits \ {circuit}
    /\ update' = TRUE
    /\ UNCHANGED <<now, circuitState, config, sim, pending, ghosts>>

\* CircuitWidget::set_circuit_state and CircuitStore::set_circuit_state
SetCircuitState(new) ==
    /\ circuitState # new
    /\ circuitState' = new
    /\ IF new = "simulation" THEN Generate(config) ELSE Drop
    /\ update' = TRUE
    /\ UNCHANGED <<config, circuit, pending>>

\* Fault: the real time starts again where it started last.
SetSimulationTimeRateOnly(s, rate) ==
    [s EXCEPT !.simulationTimeReference = Expected(s, now), !.rate = rate]

SetSimulationTimeRate(s, rate) ==
    [s EXCEPT !.simulationTimeReference = Expected(s, now),
              !.realtimeReference = now, !.rate = rate]

\* The slider for the time rate: CircuitWidget::set_simulation_config.
SetTimeRate(rate) ==
    /\ rate # config.rate
    /\ rebased < RebaseMax
    /\ config' = [config EXCEPT !.rate = rate]
    /\ IF IsSimulation
       THEN sim' = SetSimulationTimeRate(sim, rate) /\ rebased' = rebased + 1
       ELSE UNCHANGED <<sim, rebased>>
    /\ update' = TRUE
    /\ UNCHANGED <<now, circuitState, circuit, pending, granted, clicked>>

\* The box for the wire delay, which TopWidget disables while simulating: the
\* store throws then.
SetUseWireDelay ==
    /\ ~IsSimulation
    /\ config' = [config EXCEPT !.wireDelay = ~config.wireDelay]
    /\ update' = TRUE
    /\ UNCHANGED <<now, circuitState, circuit, sim, pending, ghosts>>

\* CircuitWidget::set_editable_circuit: the simulation is left, and generated
\* anew from the circuit and the configuration that were loaded.
SetEditableCircuit(cfg) ==
    /\ circuit' \in Circuits \ {circuit}
    /\ config' = cfg
    /\ IF IsSimulation THEN Generate(cfg) ELSE UNCHANGED <<now, sim, ghosts>>
    /\ update' = TRUE
    /\ UNCHANGED <<circuitState, pending>>

\* A click on an element: InteractiveSimulation::mouse_press.  The simulation
\* may run on for some steps before it takes the change, or give up.
MousePress(dt) ==
    /\ IsSimulation
    /\ sim.clicks < ClickMax
    /\ \E settled \in {sim.settled} \cup {sim.time + dt + n : n \in Settles} :
          sim' = [sim EXCEPT !.time = @ + dt, !.settled = settled, !.clicks = @ + 1]
    /\ clicked' = clicked + dt
    /\ update' = TRUE
    /\ UNCHANGED <<now, circuitState, config, circuit, pending, granted,
                   rebased>>

------------------------------------------------------------------------------
\* Fault: the simulation is due again from the end of the run on.
CaughtUpLate(s, start, time, end) ==
    IF Expected(s, start) > time
    THEN [s EXCEPT !.time = time, !.realtimeReference = end,
                   !.simulationTimeReference = s.time]
    ELSE [s EXCEPT !.time = time]

\* The end of InteractiveSimulation::run, started at the real time `start`: a
\* run that stopped early drops what was missing when it started.
CaughtUp(s, start, time, end) ==
    IF Expected(s, start) > time
    THEN [s EXCEPT !.time = time, !.realtimeReference = start,
                   !.simulationTimeReference = s.time]
    ELSE [s EXCEPT !.time = time]

\* A run is complete, or the timeout stopped it at one of its events.
RunTo(time, d) ==
    /\ now + d <= RealtimeMax
    /\ time > sim.time
    /\ \/ time = Expected(sim, now)
       \/ time < Expected(sim, now) /\ time <= sim.settled /\ d >= Timeout
    /\ now' = now + d
    /\ sim' = CaughtUp(sim, now, time, now + d)
    /\ granted' = granted + config.rate * d

\* InteractiveSimulation::run
Run == \/ /\ Expected(sim, now) <= sim.time
          /\ UNCHANGED <<now, sim, granted>>
       \/ \E d \in Durations, time \in sim.time .. Expected(sim, now) : RunTo(time, d)

\* Fault: asked after the run.
ChangesPicture == ~IsFinished(sim')

\* run_simulation
ChangedPicture == ~IsFinished(sim)

\* CircuitWidget::on_timer_run_simulation
OnTimerRunSimulation ==
    /\ IsSimulation
    /\ IF pending
       THEN update' = TRUE /\ UNCHANGED <<now, sim, granted, pending>>
       ELSE /\ Run
            /\ pending' = ChangedPicture
            /\ update' = (update \/ ChangedPicture)
    /\ UNCHANGED <<circuitState, config, circuit, clicked, rebased>>

Next ==
    \/ \E d \in Durations : TimePasses(d)
    \/ Paint
    \/ Edit
    \/ \E new \in CircuitState : SetCircuitState(new)
    \/ \E rate \in Rates : SetTimeRate(rate)
    \/ SetUseWireDelay
    \/ \E cfg \in Config : SetEditableCircuit(cfg)
    \/ \E dt \in 0 .. TryTime : MousePress(dt)
    \/ OnTimerRunSimulation

Spec == Init /\ [][Next]_vars

------------------------------------------------------------------------------
\* The simulation is never faster than its rates allow, whatever the order of
\* changes of the rate, late runs, dropped backlogs and clicks: its time is at
\* most what they granted and clicks took, and the rounding of half a tick for
\* every change of the rate and for the run (expected_simulation_time).
NeverFasterThanRate ==
    2 * Second * (sim.time - clicked) <= 2 * granted + Second * (rebased + 1)

\* A run leaves nothing to catch up but what passed while it ran, or the
\* simulation would get slower and slower; and it drops no more than what was
\* missing at its start (interactive_simulation.cpp:137), up to a tick that is
\* rounded.
BacklogDropped ==
    [][sim'.time > sim.time /\ sim'.clicks = sim.clicks =>
          LET passed == sim.rate * (now' - now)
              due    == Second * Expected(sim, now)'
          IN  /\ due - Second * sim'.time <= passed + Second
              /\ due - Second * sim.time >= passed - Second]_vars

\* Whatever changes the picture requests a repaint, also while an older request
\* is pending: the last events of a simulation that has settled are not left out
\* (run_simulation asks before the run, on_timer_run_simulation).
ChangesRepainted == [][Picture' # Picture => update']_vars
=============================================================================
