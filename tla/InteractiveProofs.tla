--------------------------- MODULE InteractiveProofs ---------------------------
(***************************************************************************)
(* Proofs about InteractiveSimulation, for every clock, every set of rates *)
(* and every bound.                                                        *)
(***************************************************************************)
EXTENDS InteractiveSimulation, TLAPS

\* Rounding is off by half a tick at most.
LEMMA RoundedIsNear ==
    ASSUME NEW n \in Nat
    PROVE  /\ Rounded(n) \in Nat
           /\ 2 * (Second * Rounded(n)) <= 2 * n + Second
           /\ 2 * n <= 2 * (Second * Rounded(n)) + Second
<1> DEFINE q == n \div Second
           r == n % Second
<1>0. Second \in Nat /\ Second > 0
  BY InteractiveConstants
<1>1. q \in Nat /\ r \in Nat /\ r < Second /\ n = Second * q + r
  BY <1>0
<1>2. Rounded(n) = q \/ Rounded(n) = q + 1
  BY DEF Rounded
<1>3. CASE Rounded(n) = q
  <2>1. 2 * r <= Second
    BY <1>0, <1>1, <1>3 DEF Rounded
  <2> QED BY <1>0, <1>1, <1>3, <2>1
<1>4. CASE Rounded(n) = q + 1
  <2>1. 2 * r >= Second
    BY <1>0, <1>1, <1>4 DEF Rounded
  <2>2. Second * (q + 1) = Second * q + Second
    BY <1>0, <1>1
  <2> QED BY <1>0, <1>1, <1>4, <2>1, <2>2
<1> QED BY <1>2, <1>3, <1>4

\* A longer time is rounded to more, by the difference up to a tick.
LEMMA RoundedSum ==
    ASSUME NEW m \in Nat, NEW n \in Nat
    PROVE  /\ Second * (Rounded(m + n) - Rounded(m)) <= n + Second
           /\ Second * (Rounded(m + n) - Rounded(m)) >= n - Second
<1>0. Second \in Nat
  BY InteractiveConstants
<1>1. m + n \in Nat
  OBVIOUS
<1>2. /\ Rounded(m) \in Nat
      /\ 2 * (Second * Rounded(m)) <= 2 * m + Second
      /\ 2 * m <= 2 * (Second * Rounded(m)) + Second
  BY RoundedIsNear
<1>3. /\ Rounded(m + n) \in Nat
      /\ 2 * (Second * Rounded(m + n)) <= 2 * (m + n) + Second
      /\ 2 * (m + n) <= 2 * (Second * Rounded(m + n)) + Second
  BY <1>1, RoundedIsNear
<1>4. Second * (Rounded(m + n) - Rounded(m))
         = Second * Rounded(m + n) - Second * Rounded(m)
  BY <1>0, <1>2, <1>3
<1>5. Second * Rounded(m) \in Nat /\ Second * Rounded(m + n) \in Nat
  BY <1>0, <1>2, <1>3
<1> QED BY <1>0, <1>2, <1>3, <1>4, <1>5

------------------------------------------------------------------------------
\* What has been granted up to now, without rounding, is never less than what
\* the references promise.
Simulation == [rate : Nat, time : Nat, settled : Nat, clicks : Nat,
               realtimeReference : Nat, simulationTimeReference : Nat]

ReferencesType ==
    /\ now \in Nat /\ config.rate \in Nat
    /\ sim \in Simulation
    /\ sim.realtimeReference <= now
    /\ granted \in Nat /\ clicked \in Nat /\ rebased \in Nat
    /\ IsSimulation => sim.rate = config.rate
    /\ ~IsSimulation => sim = NoSimulation

Elapsed == sim.rate * (now - sim.realtimeReference)

ReferencesGranted ==
    2 * (Second * sim.simulationTimeReference) + 2 * Elapsed
       <= 2 * granted + 2 * (Second * clicked) + Second * rebased

TimeGranted ==
    2 * (Second * sim.time)
       <= 2 * granted + 2 * (Second * clicked) + Second * rebased + Second

IInv == ReferencesType /\ ReferencesGranted /\ TimeGranted

LEMMA NewSimulationGranted ==
    ASSUME NEW rate \in Nat, NEW settled \in Nat,
           sim' = NewSimulation(rate, settled), now' = 0,
           granted' = 0, clicked' = 0, rebased' = 0
    PROVE  /\ sim' \in Simulation /\ sim'.rate = rate
           /\ sim'.realtimeReference <= now'
           /\ ReferencesGranted' /\ TimeGranted'
<1>1. Second \in Nat
  BY InteractiveConstants
<1>2. /\ sim' \in Simulation /\ sim'.rate = rate
      /\ sim'.realtimeReference = 0 /\ sim'.time = 0
      /\ sim'.simulationTimeReference = 0
  BY DEF NewSimulation, Simulation
<1>3. Elapsed' = 0
  BY <1>2 DEF Elapsed
<1>4. ReferencesGranted' /\ TimeGranted'
  BY <1>1, <1>2, <1>3 DEF ReferencesGranted, TimeGranted
<1> QED BY <1>2, <1>4

LEMMA InitIInv == Init => IInv
<1> SUFFICES ASSUME Init PROVE IInv
  OBVIOUS
<1>1. Second \in Nat /\ Rates \subseteq Nat
  BY InteractiveConstants
<1>2. /\ sim.realtimeReference = 0 /\ sim.time = 0 /\ sim.rate = 0
      /\ sim.simulationTimeReference = 0 /\ now = 0
      /\ granted = 0 /\ clicked = 0 /\ rebased = 0
      /\ sim \in Simulation /\ sim = NoSimulation
  BY DEF Init, NoSimulation, NewSimulation, Simulation
<1>3. config.rate \in Nat /\ ~IsSimulation
  BY <1>1 DEF Init, Config, IsSimulation
<1>4. ReferencesType
  BY <1>2, <1>3 DEF ReferencesType
<1>5. Elapsed = 0
  BY <1>2 DEF Elapsed
<1>6. ReferencesGranted /\ TimeGranted
  BY <1>1, <1>2, <1>5 DEF ReferencesGranted, TimeGranted
<1> QED BY <1>4, <1>6 DEF IInv

\* As long as real time passes, references and time stay granted.
LEMMA TimePassesIInv ==
    ASSUME IInv, NEW d \in Durations, TimePasses(d)
    PROVE  IInv'
<1>1. Second \in Nat /\ d \in Nat
  BY InteractiveConstants
<1>2. /\ now' = now + d /\ granted' = granted + config.rate * d
      /\ UNCHANGED <<sim, config, circuitState, clicked, rebased>> /\ IsSimulation
  BY DEF TimePasses
<1>3. config.rate * d \in Nat
  BY <1>1 DEF IInv, ReferencesType
<1>4. ReferencesType'
  <2>1. sim.realtimeReference \in Nat /\ sim.realtimeReference <= now /\ now \in Nat
    BY DEF IInv, ReferencesType, Simulation
  <2>2. sim'.realtimeReference <= now' /\ now' \in Nat
    BY <1>1, <1>2, <2>1
  <2>3. granted' \in Nat
    BY <1>2, <1>3 DEF IInv, ReferencesType
  <2> QED BY <1>2, <2>2, <2>3 DEF IInv, ReferencesType, IsSimulation
<1>5. Elapsed' = Elapsed + config.rate * d /\ Elapsed \in Int
  BY <1>1, <1>2 DEF Elapsed, IInv, ReferencesType, Simulation
<1>6. /\ Second * sim.simulationTimeReference \in Int
      /\ Second * clicked \in Int /\ Second * rebased \in Int /\ Second * sim.time \in Int
  BY <1>1 DEF IInv, ReferencesType, Simulation
<1>7. granted \in Int
  BY DEF IInv, ReferencesType
<1>8. ReferencesGranted'
  BY <1>2, <1>3, <1>5, <1>6, <1>7 DEF IInv, ReferencesGranted
<1>9. TimeGranted'
  BY <1>1, <1>2, <1>3, <1>6, <1>7 DEF IInv, TimeGranted
<1> QED BY <1>4, <1>8, <1>9 DEF IInv

LEMMA SetCircuitStateIInv ==
    ASSUME IInv, NEW new \in CircuitState, SetCircuitState(new)
    PROVE  IInv'
<1>1. config' = config /\ config.rate \in Nat /\ circuitState' = new
  BY DEF SetCircuitState, IInv, ReferencesType
<1>2. CASE new = "simulation"
  <2>1. PICK settled \in Settles :
           /\ sim' = NewSimulation(config.rate, settled)
           /\ now' = 0 /\ granted' = 0 /\ clicked' = 0 /\ rebased' = 0
    BY <1>2 DEF SetCircuitState, Generate
  <2>2. settled \in Nat
    BY InteractiveConstants
  <2>3. /\ sim' \in Simulation /\ sim'.rate = config.rate
        /\ sim'.realtimeReference <= now'
        /\ ReferencesGranted' /\ TimeGranted'
    BY <1>1, <2>1, <2>2, NewSimulationGranted
  <2> QED BY <1>1, <1>2, <2>1, <2>3 DEF IInv, ReferencesType, IsSimulation
<1>3. CASE new # "simulation"
  <2>1. /\ sim' = NewSimulation(0, 0) /\ sim' = NoSimulation'
        /\ now' = 0 /\ granted' = 0 /\ clicked' = 0 /\ rebased' = 0
    BY <1>3 DEF SetCircuitState, Drop, NoSimulation, NewSimulation
  <2>2. /\ sim' \in Simulation /\ sim'.rate = 0
        /\ sim'.realtimeReference <= now'
        /\ ReferencesGranted' /\ TimeGranted'
    BY <2>1, NewSimulationGranted
  <2> QED BY <1>1, <1>3, <2>1, <2>2 DEF IInv, ReferencesType, IsSimulation
<1> QED BY <1>2, <1>3

LEMMA SetTimeRateIInv ==
    ASSUME IInv, NEW rate \in Rates, SetTimeRate(rate)
    PROVE  IInv'
<1>1. Second \in Nat /\ rate \in Nat
  BY InteractiveConstants
<1>2. config'.rate = rate
  BY DEF SetTimeRate
<1>3. UNCHANGED <<now, circuitState, granted, clicked>>
  BY DEF SetTimeRate
<1>4. CASE IsSimulation
  <2> DEFINE n == sim.rate * (now - sim.realtimeReference)
  <2>1. n \in Nat
    BY DEF IInv, ReferencesType, Simulation
  <2>2. Rounded(n) \in Nat /\ 2 * (Second * Rounded(n)) <= 2 * n + Second
    BY <2>1, RoundedIsNear
  <2>3. sim' = SetSimulationTimeRate(sim, rate) /\ rebased' = rebased + 1
    BY <1>4 DEF SetTimeRate
  <2>4. /\ sim'.simulationTimeReference = sim.simulationTimeReference + Rounded(n)
        /\ sim'.realtimeReference = now /\ sim'.rate = rate
        /\ sim'.time = sim.time /\ sim' \in Simulation
    <3>1. sim \in Simulation /\ now \in Nat
      BY DEF IInv, ReferencesType
    <3>2. sim' = [sim EXCEPT !.simulationTimeReference
                                = sim.simulationTimeReference + Rounded(n),
                             !.realtimeReference = now, !.rate = rate]
      BY <2>3 DEF SetSimulationTimeRate, Expected
    <3>3. sim.simulationTimeReference + Rounded(n) \in Nat
      BY <2>2, <3>1 DEF Simulation
    <3> HIDE DEF n
    <3>4. /\ sim'.simulationTimeReference = sim.simulationTimeReference + Rounded(n)
          /\ sim'.realtimeReference = now /\ sim'.rate = rate
          /\ sim'.time = sim.time
      BY <3>1, <3>2 DEF Simulation
    <3>5. sim' \in Simulation
      BY <1>1, <3>1, <3>2, <3>3 DEF Simulation
    <3> QED BY <3>4, <3>5
  <2>5. ReferencesType'
    BY <1>1, <1>2, <1>3, <1>4, <2>3, <2>4 DEF IInv, ReferencesType, IsSimulation
  <2>6. Elapsed' = 0
    BY <1>1, <1>3, <2>4 DEF Elapsed, IInv, ReferencesType
  <2>7. Second * sim'.simulationTimeReference
           = Second * sim.simulationTimeReference + Second * Rounded(n)
    BY <1>1, <2>2, <2>4 DEF IInv, ReferencesType, Simulation
  <2>8. Second * rebased' = Second * rebased + Second
    BY <1>1, <2>3 DEF IInv, ReferencesType
  <2>9. /\ Second * sim.simulationTimeReference \in Int /\ Second * Rounded(n) \in Int
        /\ Second * clicked \in Int /\ Second * rebased \in Int
        /\ Second * sim.time \in Int /\ granted \in Int
    BY <1>1, <2>2 DEF IInv, ReferencesType, Simulation
  <2>10. ReferencesGranted'
    <3>1. 2 * (Second * sim.simulationTimeReference) + 2 * n
             <= 2 * granted + 2 * (Second * clicked) + Second * rebased
      BY DEF IInv, ReferencesGranted, Elapsed
    <3>2. 2 * (Second * sim'.simulationTimeReference) + 2 * Elapsed'
             <= 2 * granted + 2 * (Second * clicked) + Second * rebased'
      BY <1>1, <2>1, <2>2, <2>6, <2>7, <2>8, <2>9, <3>1
    <3> QED BY <1>3, <3>2 DEF ReferencesGranted
  <2>11. TimeGranted'
    BY <1>1, <1>3, <2>4, <2>8, <2>9 DEF IInv, TimeGranted
  <2> QED BY <2>5, <2>10, <2>11 DEF IInv
<1>5. CASE ~IsSimulation
  <2>1. UNCHANGED <<sim, rebased>>
    BY <1>5 DEF SetTimeRate
  <2>2. ReferencesType'
    BY <1>1, <1>2, <1>3, <1>5, <2>1
       DEF IInv, ReferencesType, IsSimulation, NoSimulation, NewSimulation
  <2>3. ReferencesGranted' /\ TimeGranted'
    BY <1>3, <2>1 DEF IInv, ReferencesGranted, TimeGranted, Elapsed
  <2> QED BY <2>2, <2>3 DEF IInv
<1> QED BY <1>4, <1>5

LEMMA SetEditableCircuitIInv ==
    ASSUME IInv, NEW cfg \in Config, SetEditableCircuit(cfg)
    PROVE  IInv'
<1>1. /\ config' = cfg /\ cfg.rate \in Nat /\ circuitState' = circuitState
  BY InteractiveConstants DEF SetEditableCircuit, Config
<1>2. CASE IsSimulation
  <2>1. PICK settled \in Settles :
           /\ sim' = NewSimulation(cfg.rate, settled)
           /\ now' = 0 /\ granted' = 0 /\ clicked' = 0 /\ rebased' = 0
    BY <1>2 DEF SetEditableCircuit, Generate
  <2>2. settled \in Nat
    BY InteractiveConstants
  <2>3. /\ sim' \in Simulation /\ sim'.rate = cfg.rate
        /\ sim'.realtimeReference <= now'
        /\ ReferencesGranted' /\ TimeGranted'
    BY <1>1, <2>1, <2>2, NewSimulationGranted
  <2> QED BY <1>1, <1>2, <2>1, <2>3 DEF IInv, ReferencesType, IsSimulation
<1>3. CASE ~IsSimulation
  <2>1. UNCHANGED <<now, sim, granted, clicked, rebased>>
    BY <1>3 DEF SetEditableCircuit, ghosts
  <2>2. ReferencesType'
    BY <1>1, <1>3, <2>1
       DEF IInv, ReferencesType, IsSimulation, NoSimulation, NewSimulation
  <2>3. ReferencesGranted' /\ TimeGranted'
    BY <2>1 DEF IInv, ReferencesGranted, TimeGranted, Elapsed
  <2> QED BY <2>2, <2>3 DEF IInv
<1> QED BY <1>2, <1>3

LEMMA MousePressIInv ==
    ASSUME IInv, NEW dt \in 0 .. TryTime, MousePress(dt)
    PROVE  IInv'
<1>1. Second \in Nat /\ dt \in Nat
  BY InteractiveConstants
<1>2. /\ IsSimulation /\ clicked' = clicked + dt
      /\ UNCHANGED <<now, circuitState, config, granted, rebased>>
  BY DEF MousePress
<1>3. PICK settled \in {sim.settled} \cup {sim.time + dt + n : n \in Settles} :
         sim' = [sim EXCEPT !.time = @ + dt, !.settled = settled, !.clicks = @ + 1]
  BY DEF MousePress
<1>4. sim \in Simulation /\ clicked \in Nat /\ granted \in Nat /\ rebased \in Nat
  BY DEF IInv, ReferencesType
<1>5. settled \in Nat
  <2>1. CASE settled = sim.settled
    BY <1>4, <2>1 DEF Simulation
  <2>2. CASE settled \in {sim.time + dt + n : n \in Settles}
    <3>1. PICK n \in Settles : settled = sim.time + dt + n
      BY <2>2
    <3>2. n \in Nat
      BY InteractiveConstants
    <3> QED BY <1>1, <1>4, <3>1, <3>2 DEF Simulation
  <2> QED BY <1>3, <2>1, <2>2
<1>6. /\ sim'.time = sim.time + dt /\ sim'.rate = sim.rate
      /\ sim'.realtimeReference = sim.realtimeReference
      /\ sim'.simulationTimeReference = sim.simulationTimeReference
      /\ sim' \in Simulation
  <2>1. /\ sim'.time = sim.time + dt /\ sim'.rate = sim.rate
        /\ sim'.realtimeReference = sim.realtimeReference
        /\ sim'.simulationTimeReference = sim.simulationTimeReference
    BY <1>3, <1>4 DEF Simulation
  <2>2. sim.time + dt \in Nat /\ sim.clicks + 1 \in Nat
    BY <1>1, <1>4 DEF Simulation
  <2>3. sim' \in Simulation
    BY <1>3, <1>4, <1>5, <2>2 DEF Simulation
  <2> QED BY <2>1, <2>3
<1>7. ReferencesType'
  BY <1>1, <1>2, <1>4, <1>6 DEF IInv, ReferencesType, IsSimulation
<1>8. /\ Second * clicked' = Second * clicked + Second * dt /\ Second * dt \in Nat
      /\ Second * sim'.time = Second * sim.time + Second * dt
  BY <1>1, <1>2, <1>4, <1>6 DEF Simulation
<1>9. /\ Second * sim.simulationTimeReference \in Int /\ Elapsed \in Int
      /\ Second * clicked \in Int /\ Second * rebased \in Int
      /\ Second * sim.time \in Int
  BY <1>1, <1>4 DEF IInv, ReferencesType, Elapsed, Simulation
<1>10. Elapsed' = Elapsed
  BY <1>2, <1>6 DEF Elapsed
<1>11. ReferencesGranted'
  <2>1. 2 * (Second * sim.simulationTimeReference) + 2 * Elapsed
           <= 2 * granted + 2 * (Second * clicked) + Second * rebased
    BY DEF IInv, ReferencesGranted
  <2>2. 2 * (Second * sim.simulationTimeReference) + 2 * Elapsed
           <= 2 * granted + 2 * (Second * clicked + Second * dt) + Second * rebased
    BY <1>4, <1>8, <1>9, <2>1
  <2> QED BY <1>2, <1>6, <1>8, <1>10, <2>2 DEF ReferencesGranted
<1>12. TimeGranted'
  BY <1>1, <1>2, <1>4, <1>8, <1>9 DEF IInv, TimeGranted
<1> QED BY <1>7, <1>11, <1>12 DEF IInv

------------------------------------------------------------------------------
\* What a run that has something to simulate does to the simulation.
LEMMA RunEffect ==
    ASSUME IInv, IsSimulation, NEW d \in Durations,
           NEW time \in sim.time .. Expected(sim, now), RunTo(time, d)
    PROVE  LET expected == Expected(sim, now)
           IN  /\ expected \in Nat /\ time \in Nat /\ d \in Nat
               /\ expected = sim.simulationTimeReference + Rounded(Elapsed)
               /\ sim.time < time /\ time <= expected
               /\ now' = now + d
               /\ granted' = granted + sim.rate * d
               /\ sim' \in Simulation
               /\ sim'.time = time /\ sim'.rate = sim.rate
               /\ \/ /\ time = expected
                     /\ sim'.realtimeReference = sim.realtimeReference
                     /\ sim'.simulationTimeReference = sim.simulationTimeReference
                  \/ /\ time < expected
                     /\ sim'.realtimeReference = now
                     /\ sim'.simulationTimeReference = sim.time
<1> DEFINE expected == Expected(sim, now)
<1>1. sim \in Simulation /\ now \in Nat /\ sim.rate = config.rate
  BY DEF IInv, ReferencesType
<1>2. d \in Nat
  BY InteractiveConstants
<1>3. Elapsed \in Nat
  BY DEF IInv, ReferencesType, Elapsed, Simulation
<1>4. Rounded(Elapsed) \in Nat
  BY <1>3, RoundedIsNear
<1>5. expected = sim.simulationTimeReference + Rounded(Elapsed)
  BY DEF Expected, Elapsed
<1>6. expected \in Nat
  BY <1>1, <1>4, <1>5 DEF Simulation
<1> HIDE DEF expected
<1>7. sim.time \in Nat /\ time \in Int /\ sim.time <= time /\ time <= expected
  BY <1>1, <1>6 DEF Simulation, expected
<1>8. /\ time > sim.time /\ now' = now + d /\ granted' = granted + sim.rate * d
      /\ sim' = CaughtUp(sim, now, time, now + d)
  BY <1>1 DEF RunTo
<1>9. time \in Nat
  BY <1>7, <1>8
<1>10. CASE time = expected
  <2>1. sim' = [sim EXCEPT !.time = time]
    BY <1>6, <1>8, <1>10 DEF CaughtUp, expected
  <2>2. /\ sim' \in Simulation /\ sim'.time = time /\ sim'.rate = sim.rate
        /\ sim'.realtimeReference = sim.realtimeReference
        /\ sim'.simulationTimeReference = sim.simulationTimeReference
    BY <1>1, <1>9, <2>1 DEF Simulation
  <2> QED BY <1>2, <1>5, <1>6, <1>7, <1>8, <1>9, <1>10, <2>2 DEF expected
<1>11. CASE time < expected
  <2>1. sim' = [sim EXCEPT !.time = time, !.realtimeReference = now,
                           !.simulationTimeReference = sim.time]
    BY <1>6, <1>8, <1>9, <1>11 DEF CaughtUp, expected
  <2>2. sim' \in Simulation
    BY <1>1, <1>7, <1>9, <2>1 DEF Simulation
  <2>3. /\ sim'.time = time /\ sim'.rate = sim.rate
        /\ sim'.realtimeReference = now
        /\ sim'.simulationTimeReference = sim.time
    BY <1>1, <2>1 DEF Simulation
  <2> QED BY <1>2, <1>5, <1>6, <1>7, <1>8, <1>9, <1>11, <2>2, <2>3 DEF expected
<1> QED BY <1>6, <1>7, <1>10, <1>11

LEMMA RunIInv ==
    ASSUME IInv, IsSimulation, NEW d \in Durations,
           NEW time \in sim.time .. Expected(sim, now), RunTo(time, d),
           UNCHANGED <<circuitState, config, clicked, rebased>>
    PROVE  IInv'
<1> DEFINE expected == Expected(sim, now)
<1>0. Second \in Nat /\ Second > 0
  BY InteractiveConstants
<1>1. /\ expected \in Nat /\ time \in Nat /\ d \in Nat
      /\ expected = sim.simulationTimeReference + Rounded(Elapsed)
      /\ sim.time < time /\ time <= expected
      /\ now' = now + d /\ granted' = granted + sim.rate * d
      /\ sim' \in Simulation /\ sim'.time = time /\ sim'.rate = sim.rate
      /\ \/ /\ time = expected
            /\ sim'.realtimeReference = sim.realtimeReference
            /\ sim'.simulationTimeReference = sim.simulationTimeReference
         \/ /\ time < expected
            /\ sim'.realtimeReference = now
            /\ sim'.simulationTimeReference = sim.time
  BY RunEffect
<1> HIDE DEF expected
<1>2. /\ sim \in Simulation /\ now \in Nat /\ granted \in Nat
      /\ clicked \in Nat /\ rebased \in Nat /\ sim.realtimeReference <= now
      /\ config.rate \in Nat /\ sim.rate = config.rate /\ circuitState = "simulation"
  BY DEF IInv, ReferencesType, IsSimulation
<1>3. /\ sim.time \in Nat /\ sim.rate \in Nat /\ sim.realtimeReference \in Nat
      /\ sim.simulationTimeReference \in Nat
  BY <1>2 DEF Simulation
<1>4. sim.rate * d \in Nat /\ granted' \in Nat
  BY <1>1, <1>2, <1>3
<1>5. Elapsed \in Nat
  BY <1>2, <1>3 DEF Elapsed
<1>6. ReferencesType'
  <2>1. sim'.realtimeReference <= now' /\ now' \in Nat
    BY <1>1, <1>2, <1>3
  <2> QED BY <1>1, <1>2, <1>4, <2>1 DEF ReferencesType, IsSimulation
<1>7. Rounded(Elapsed) \in Nat /\ 2 * (Second * Rounded(Elapsed)) <= 2 * Elapsed + Second
  BY <1>5, RoundedIsNear
<1> DEFINE limit == 2 * granted + 2 * (Second * clicked) + Second * rebased
<1>8. /\ Second * clicked \in Nat /\ Second * rebased \in Nat /\ limit \in Nat
      /\ Second * sim.simulationTimeReference \in Nat
  BY <1>0, <1>2, <1>3
<1>9. 2 * (Second * sim.simulationTimeReference) + 2 * Elapsed <= limit
  BY DEF IInv, ReferencesGranted
<1>10. limit' = limit + 2 * (sim.rate * d)
  BY <1>1, <1>2, <1>4, <1>8
<1> HIDE DEF limit
<1>11. 2 * (Second * expected) <= limit + Second
  <2>1. Second * expected
          = Second * sim.simulationTimeReference + Second * Rounded(Elapsed)
    BY <1>0, <1>1, <1>3, <1>7
  <2>2. Second * Rounded(Elapsed) \in Nat
    BY <1>0, <1>7
  <2> QED BY <1>0, <1>5, <1>7, <1>8, <1>9, <2>1, <2>2
<1>12. Second * time <= Second * expected /\ Second * time \in Nat /\ Second * expected \in Nat
  BY <1>0, <1>1
<1>13. TimeGranted'
  <2>1. 2 * (Second * sim'.time) <= limit' + Second
    BY <1>0, <1>1, <1>4, <1>8, <1>10, <1>11, <1>12
  <2> QED BY <2>1 DEF TimeGranted, limit
<1>14. 2 * (Second * sim'.simulationTimeReference) + 2 * Elapsed' <= limit'
  <2>1. CASE /\ sim'.realtimeReference = sim.realtimeReference
             /\ sim'.simulationTimeReference = sim.simulationTimeReference
    <3>1. Elapsed' = Elapsed + sim.rate * d
      BY <1>1, <1>2, <1>3, <2>1 DEF Elapsed
    <3> QED BY <1>4, <1>5, <1>8, <1>9, <1>10, <2>1, <3>1
  <2>2. CASE /\ time < expected
             /\ sim'.realtimeReference = now
             /\ sim'.simulationTimeReference = sim.time
    <3>1. Elapsed' = sim.rate * d
      BY <1>1, <1>2, <1>3, <2>2 DEF Elapsed
    <3>2. Second * (sim.time + 1) <= Second * expected
      BY <1>0, <1>1, <1>3
    <3>3. Second * (sim.time + 1) = Second * sim.time + Second
      BY <1>0, <1>3
    <3>4. Second * sim.time \in Nat
      BY <1>0, <1>3
    <3> QED BY <1>0, <1>4, <1>8, <1>10, <1>11, <1>12, <2>2, <3>1, <3>2, <3>3, <3>4
  <2> QED BY <1>1, <2>1, <2>2
<1>15. ReferencesGranted'
  BY <1>14 DEF ReferencesGranted, limit
<1> QED BY <1>6, <1>13, <1>15 DEF IInv

\* Nothing that the invariant is about changes.
LEMMA UnchangedIInv ==
    ASSUME IInv, UNCHANGED <<now, circuitState, sim, granted, clicked, rebased>>,
           config'.rate = config.rate
    PROVE  IInv'
<1>1. ReferencesType'
  BY DEF IInv, ReferencesType, IsSimulation, NoSimulation, NewSimulation
<1>2. ReferencesGranted' /\ TimeGranted'
  BY DEF IInv, ReferencesGranted, TimeGranted, Elapsed
<1> QED BY <1>1, <1>2 DEF IInv

LEMMA NextIInv == IInv /\ [Next]_vars => IInv'
<1> SUFFICES ASSUME IInv, [Next]_vars PROVE IInv'
  OBVIOUS
<1>1. ASSUME NEW d \in Durations, TimePasses(d) PROVE IInv'
  BY <1>1, TimePassesIInv
<1>2. CASE Paint
  BY <1>2, UnchangedIInv DEF Paint, ghosts
<1>3. CASE Edit
  BY <1>3, UnchangedIInv DEF Edit, ghosts
<1>4. ASSUME NEW new \in CircuitState, SetCircuitState(new) PROVE IInv'
  BY <1>4, SetCircuitStateIInv
<1>5. ASSUME NEW rate \in Rates, SetTimeRate(rate) PROVE IInv'
  BY <1>5, SetTimeRateIInv
<1>6. ASSUME SetUseWireDelay PROVE IInv'
  <2>1. config'.rate = config.rate
    BY <1>6 DEF SetUseWireDelay
  <2> QED BY <1>6, <2>1, UnchangedIInv DEF SetUseWireDelay, ghosts
<1>7. ASSUME NEW cfg \in Config, SetEditableCircuit(cfg) PROVE IInv'
  BY <1>7, SetEditableCircuitIInv
<1>8. ASSUME NEW dt \in 0 .. TryTime, MousePress(dt) PROVE IInv'
  BY <1>8, MousePressIInv
<1>9. ASSUME OnTimerRunSimulation PROVE IInv'
  <2>1. IsSimulation /\ UNCHANGED <<circuitState, config, clicked, rebased>>
    BY <1>9 DEF OnTimerRunSimulation
  <2>2. CASE UNCHANGED <<now, sim, granted>>
    BY <2>1, <2>2, UnchangedIInv
  <2>3. ASSUME NEW d \in Durations, NEW time \in sim.time .. Expected(sim, now),
               RunTo(time, d)
        PROVE  IInv'
    BY <2>1, <2>3, RunIInv
  <2> QED BY <1>9, <2>2, <2>3 DEF OnTimerRunSimulation, Run
<1>10. CASE UNCHANGED vars
  BY <1>10, UnchangedIInv DEF vars, ghosts
<1> QED BY <1>1, <1>2, <1>3, <1>4, <1>5, <1>6, <1>7, <1>8, <1>9, <1>10 DEF Next

LEMMA InvariantHolds == Spec => []IInv
BY InitIInv, NextIInv, PTL DEF Spec

LEMMA GrantedIsRate == IInv => NeverFasterThanRate
<1> SUFFICES ASSUME IInv PROVE NeverFasterThanRate
  OBVIOUS
<1>1. /\ Second \in Nat /\ sim.time \in Nat
      /\ granted \in Nat /\ clicked \in Nat /\ rebased \in Nat
  BY InteractiveConstants DEF IInv, ReferencesType, Simulation
<1>2. /\ 2 * Second * (sim.time - clicked)
           = 2 * (Second * sim.time) - 2 * (Second * clicked)
      /\ Second * (rebased + 1) = Second * rebased + Second
  BY <1>1
<1>3. /\ Second * sim.time \in Nat /\ Second * clicked \in Nat
      /\ Second * rebased \in Nat
  BY <1>1
<1> QED BY <1>1, <1>2, <1>3 DEF IInv, TimeGranted, NeverFasterThanRate

\* The simulation is never faster than its rates allow (NeverFasterThanRate),
\* for every resolution of the clock, every rate and every order of the calls.
THEOREM RateIsNeverExceeded == Spec => []NeverFasterThanRate
BY InvariantHolds, GrantedIsRate, PTL

------------------------------------------------------------------------------
\* The step of BacklogDropped.
DropsBacklog ==
    sim'.time > sim.time /\ sim'.clicks = sim.clicks =>
       LET passed == sim.rate * (now' - now)
           due    == Second * Expected(sim, now)'
       IN  /\ due - Second * sim'.time <= passed + Second
           /\ due - Second * sim.time >= passed - Second

LEMMA RunDropsBacklog ==
    ASSUME IInv, IsSimulation, NEW d \in Durations,
           NEW time \in sim.time .. Expected(sim, now), RunTo(time, d)
    PROVE  DropsBacklog
<1> DEFINE n == sim.rate * d
           due == Second * Expected(sim, now)'
<1>1. /\ Second \in Nat /\ now \in Nat /\ sim.rate \in Nat /\ sim.time \in Nat
      /\ sim.realtimeReference \in Nat /\ sim.realtimeReference <= now
      /\ sim.simulationTimeReference \in Nat /\ d \in Nat
  BY InteractiveConstants DEF IInv, ReferencesType, Simulation
<1>2. Elapsed \in Nat /\ n \in Nat
  BY <1>1 DEF Elapsed
<1>3. /\ time \in Nat /\ sim.time < time
      /\ now' = now + d /\ sim'.time = time /\ sim'.rate = sim.rate
  BY RunEffect
<1>4. Expected(sim, now)' = sim'.simulationTimeReference
                              + Rounded(sim'.rate * (now' - sim'.realtimeReference))
  BY DEF Expected
<1>5. sim.rate * (now' - now) = n
  BY <1>1, <1>3
<1>6. Rounded(Elapsed) \in Nat /\ Rounded(n) \in Nat /\ Rounded(Elapsed + n) \in Nat
  BY <1>2, RoundedIsNear
<1> SUFFICES /\ due - Second * time <= n + Second
             /\ due - Second * sim.time >= n - Second
  BY <1>3, <1>5 DEF DropsBacklog
<1>7. CASE /\ time = sim.simulationTimeReference + Rounded(Elapsed)
           /\ sim'.realtimeReference = sim.realtimeReference
           /\ sim'.simulationTimeReference = sim.simulationTimeReference
  <2>1. sim'.rate * (now' - sim'.realtimeReference) = Elapsed + n
    BY <1>1, <1>3, <1>7 DEF Elapsed
  <2>2. Expected(sim, now)' = sim.simulationTimeReference + Rounded(Elapsed + n)
    BY <1>4, <1>7, <2>1
  <2> HIDE DEF n
  <2>3. due - Second * time = Second * (Rounded(Elapsed + n) - Rounded(Elapsed))
    BY <1>1, <1>6, <1>7, <2>2
  <2>4. /\ Second * (Rounded(Elapsed + n) - Rounded(Elapsed)) <= n + Second
        /\ Second * (Rounded(Elapsed + n) - Rounded(Elapsed)) >= n - Second
    BY <1>2, RoundedSum
  <2>5. due \in Nat /\ Second * time \in Nat /\ Second * sim.time \in Nat
    BY <1>1, <1>3, <1>6, <2>2
  <2>6. Second * sim.time <= Second * time
    BY <1>1, <1>3
  <2> QED BY <1>1, <1>2, <2>3, <2>4, <2>5, <2>6
<1>8. CASE /\ sim'.realtimeReference = now
           /\ sim'.simulationTimeReference = sim.time
  <2>1. sim'.rate * (now' - sim'.realtimeReference) = n
    BY <1>1, <1>3, <1>8
  <2>2. Expected(sim, now)' = sim.time + Rounded(n)
    BY <1>4, <1>8, <2>1
  <2> HIDE DEF n
  <2>3. due = Second * sim.time + Second * Rounded(n)
    BY <1>1, <1>6, <2>2
  <2>4. /\ 2 * (Second * Rounded(n)) <= 2 * n + Second
        /\ 2 * n <= 2 * (Second * Rounded(n)) + Second
    BY <1>2, RoundedIsNear
  <2>5. /\ Second * time \in Nat /\ Second * sim.time \in Nat
        /\ Second * Rounded(n) \in Nat
    BY <1>1, <1>3, <1>6
  <2>6. Second * sim.time <= Second * time
    BY <1>1, <1>3
  <2> QED BY <1>1, <1>2, <2>3, <2>4, <2>5, <2>6
<1> QED BY RunEffect, <1>7, <1>8

LEMMA NextDropsBacklog == IInv /\ [Next]_vars => DropsBacklog
<1> SUFFICES ASSUME IInv, [Next]_vars PROVE DropsBacklog
  OBVIOUS
<1>1. sim \in Simulation
  BY DEF IInv, ReferencesType
<1>2. CASE sim' = sim
  BY <1>1, <1>2 DEF DropsBacklog, Simulation
<1>3. ASSUME NEW rate, NEW settled, sim' = NewSimulation(rate, settled)
      PROVE  DropsBacklog
  BY <1>1, <1>3 DEF DropsBacklog, NewSimulation, Simulation
<1>4. ASSUME NEW rate, sim' = SetSimulationTimeRate(sim, rate) PROVE DropsBacklog
  BY <1>1, <1>4 DEF DropsBacklog, SetSimulationTimeRate, Simulation
<1>5. ASSUME NEW dt, MousePress(dt) PROVE DropsBacklog
  BY <1>1, <1>5 DEF DropsBacklog, MousePress, Simulation
<1>6. CASE OnTimerRunSimulation
  <2>1. ASSUME NEW d \in Durations, NEW time \in sim.time .. Expected(sim, now),
               RunTo(time, d)
        PROVE  DropsBacklog
    BY <1>6, <2>1, RunDropsBacklog DEF OnTimerRunSimulation
  <2> QED BY <1>2, <1>6, <2>1 DEF OnTimerRunSimulation, Run
<1>7. ASSUME NEW new, SetCircuitState(new) PROVE DropsBacklog
  BY <1>3, <1>7 DEF SetCircuitState, Generate, Drop, NoSimulation
<1>8. ASSUME NEW cfg, SetEditableCircuit(cfg) PROVE DropsBacklog
  BY <1>2, <1>3, <1>8 DEF SetEditableCircuit, Generate
<1>9. ASSUME NEW rate, SetTimeRate(rate) PROVE DropsBacklog
  BY <1>2, <1>4, <1>9 DEF SetTimeRate
<1> QED BY <1>2, <1>5, <1>6, <1>7, <1>8, <1>9
    DEF Next, vars, TimePasses, Paint, Edit, SetUseWireDelay

\* A run leaves nothing to catch up but what passed while it ran, and drops no
\* more than what was missing at its start (BacklogDropped), for every clock.
THEOREM BacklogIsDropped == Spec => BacklogDropped
<1>1. IInv /\ [Next]_vars => [DropsBacklog]_vars
  BY NextDropsBacklog
<1>2. BacklogDropped <=> [][DropsBacklog]_vars
  BY PTL DEF BacklogDropped, DropsBacklog
<1> QED BY InvariantHolds, <1>1, <1>2, PTL DEF Spec
=============================================================================
