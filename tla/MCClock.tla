------------------------------- MODULE MCClock -------------------------------
(***************************************************************************)
(* A circuit that never settles: a clock generator toggles a jk flipflop,  *)
(* whose outputs clock and feed a shift register, and the outputs of the   *)
(* register are the clock and the data of a d flipflop.  The short pulses  *)
(* of the generator also clock a master slave flipflop, which changes on   *)
(* both edges and so keeps a write waiting.  The enable input of the clock *)
(* and the data of the master slave flipflop are the user's, and so are    *)
(* states of the flipflops and of the register.                            *)
(*                                                                         *)
(*   clock 0 -> wire 1 -> jk 2 -> shift register 3 -> d 4                  *)
(*                   \--> clock input of ms_d 5                            *)
(***************************************************************************)
EXTENDS SimulationRefinement, SimulationInvariant, TLC

ClockCount == 6
ClockType == 0 :> "clock_generator" @@ 1 :> "wire" @@ 2 :> "flipflop_jk" @@
             3 :> "shift_register" @@ 4 :> "flipflop_d" @@ 5 :> "flipflop_ms_d"
ClockInputCount  == 0 :> 3 @@ 1 :> 1 @@ 2 :> 5 @@ 3 :> 3 @@ 4 :> 4 @@ 5 :> 4
ClockOutputCount == 0 :> 3 @@ 1 :> 2 @@ 2 :> 2 @@ 3 :> 2 @@ 4 :> 1 @@ 5 :> 1
ClockSink == <<0, 0>> :> <<1, 0>> @@ <<0, 1>> :> <<0, 1>> @@ <<0, 2>> :> <<0, 2>> @@
             <<1, 0>> :> <<2, 0>> @@ <<1, 1>> :> <<5, 0>> @@
             <<2, 0>> :> <<3, 0>> @@ <<2, 1>> :> <<3, 1>> @@
             <<3, 0>> :> <<4, 0>> @@ <<3, 1>> :> <<4, 1>> @@
             <<4, 0>> :> NullInput @@ <<5, 0>> :> NullInput
ClockInverted == [p \in Inputs |-> p \in {<<4, 0>>}]
ClockDelay == [o \in Outputs |-> CASE o = <<0, 1>> -> 1 [] o = <<0, 2>> -> 3
                                   [] o = <<1, 1>> -> 2 [] OTHER -> 1]
ClockHistory == [e \in Element |-> IF e = 1 THEN 2 ELSE 0]

ClockRuns == {[infinite |-> TRUE, simulateFor |-> 1, limited |-> TRUE,
               maxEvents |-> 4, timeout |-> TRUE],
              [infinite |-> FALSE, simulateFor |-> 4, limited |-> FALSE,
               maxEvents |-> 1, timeout |-> FALSE]}
ClockStates == {<<2, 1>>, <<3, 8>>, <<5, 0>>}
ClockInputs == {<<0, 0>>, <<5, 1>>}
=============================================================================
