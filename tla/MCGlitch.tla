------------------------------- MODULE MCGlitch -------------------------------
(***************************************************************************)
(* A circuit with two paths of different delay from a button to an xor     *)
(* gate, which therefore glitches, a latch behind it that the user writes, *)
(* and a lamp.  Elements 2 (a buffer, so an inverter) and 3 have inverted  *)
(* outputs: they are the inverted inputs that those outputs drive.         *)
(*                                                                         *)
(*   button 0 -> wire 1 -> inverter 2 -> o xor 3 -> wire 4 -> latch 5 -> 6 *)
(*                    \------------------> xor 3                           *)
(***************************************************************************)
EXTENDS SimulationRefinement, SimulationInvariant, SimulationHistory, TLC

GlitchCount == 7
GlitchType == 0 :> "button" @@ 1 :> "wire" @@ 2 :> "buffer_element" @@
              3 :> "xor_element" @@ 4 :> "wire" @@ 5 :> "latch_d" @@ 6 :> "led"
GlitchInputCount  == 0 :> 0 @@ 1 :> 1 @@ 2 :> 1 @@ 3 :> 2 @@ 4 :> 1 @@ 5 :> 2 @@ 6 :> 1
GlitchOutputCount == 0 :> 1 @@ 1 :> 2 @@ 2 :> 1 @@ 3 :> 1 @@ 4 :> 1 @@ 5 :> 1 @@ 6 :> 0
GlitchSink == <<0, 0>> :> <<1, 0>> @@ <<1, 0>> :> <<2, 0>> @@
              <<1, 1>> :> <<3, 1>> @@ <<2, 0>> :> <<3, 0>> @@
              <<3, 0>> :> <<4, 0>> @@ <<4, 0>> :> <<5, 0>> @@
              <<5, 0>> :> <<6, 0>>
GlitchInverted == [p \in Inputs |-> p \in {<<3, 0>>, <<4, 0>>}]
GlitchDelay == <<0, 0>> :> 1 @@ <<1, 0>> :> 1 @@ <<1, 1>> :> 3 @@
               <<2, 0>> :> 1 @@ <<3, 0>> :> 1 @@ <<4, 0>> :> 1 @@ <<5, 0>> :> 1
GlitchHistory == [e \in Element |-> CASE e = 1 -> 3 [] e = 4 -> 2 [] OTHER -> 0]

Run(infinite, simulateFor, limited, maxEvents, timeout) ==
    [infinite |-> infinite, simulateFor |-> simulateFor,
     limited |-> limited, maxEvents |-> maxEvents, timeout |-> timeout]

GlitchRuns == {Run(FALSE, 2, FALSE, 1, FALSE), Run(TRUE, 1, FALSE, 1, TRUE),
               Run(TRUE, 1, TRUE, 2, FALSE)}
GlitchStates == {<<0, 0>>, <<5, 0>>}
GlitchInputs == {<<5, 1>>}
=============================================================================
