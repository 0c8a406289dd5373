------------------------------ MODULE MCHistory ------------------------------
(***************************************************************************)
(* A wire whose input the user sets, in front of an inverter: both keep a  *)
(* history, the inverter's shorter than the distance of its transitions.   *)
(***************************************************************************)
EXTENDS SimulationHistory, TLC

HistCount == 2
HistType == 0 :> "wire" @@ 1 :> "buffer_element"
HistInputCount  == 0 :> 1 @@ 1 :> 1
HistOutputCount == 0 :> 1 @@ 1 :> 1
HistSink == <<0, 0>> :> <<1, 0>> @@ <<1, 0>> :> NullInput
HistInverted == [p \in Inputs |-> p = <<1, 0>>]
HistDelay == <<0, 0>> :> 3 @@ <<1, 0>> :> 1
HistLength == 0 :> 4 @@ 1 :> 1

HistRuns == {[infinite |-> FALSE, simulateFor |-> d, limited |-> FALSE,
              maxEvents |-> 1, timeout |-> FALSE] : d \in {1, 2}}
            \cup {[infinite |-> TRUE, simulateFor |-> 1, limited |-> l,
                   maxEvents |-> 1, timeout |-> FALSE] : l \in BOOLEAN}
HistInputs == {<<0, 0>>}
=============================================================================
