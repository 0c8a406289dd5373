---------------------------- MODULE ElementLogic ----------------------------
(***************************************************************************)
(* The logic of one element: core/element/logicitem/simulation_info.cpp.   *)
(*                                                                         *)
(* A vector of logic values (logic_small_vector_t) is a function from      *)
(* 0..n-1 to BOOLEAN.  `old` and `new` are the element's input vectors     *)
(* before and after a group of events, inverters already applied.          *)
(***************************************************************************)
EXTENDS Integers

LogicItemType == {"buffer_element", "and_element", "or_element", "xor_element",
                  "button", "led", "display_number", "display_ascii",
                  "clock_generator", "flipflop_jk", "shift_register",
                  "latch_d", "flipflop_d", "flipflop_ms_d"}

\* sub_circuit is left out: every function below throws for it.
ElementType == LogicItemType \cup {"unused", "placeholder", "wire"}

HasNoLogic(type) ==
    type \in {"placeholder", "led", "display_ascii", "display_number"}

InternalStateSize(type) ==
    CASE type \in {"button", "latch_d", "flipflop_d"}  -> 1
      [] type \in {"flipflop_jk", "flipflop_ms_d"}     -> 2
      [] type = "clock_generator"                      -> 4
      [] type = "shift_register"                       -> 10
      [] OTHER                                         -> 0

HasInternalState(type) == InternalStateSize(type) # 0

\* Only clock generators loop outputs back into their own inputs.
HasInternalConnections(type) == type = "clock_generator"

IsInternalStateUserWritable(type) == ~HasInternalConnections(type)

\* Types with an enable input; it is input 0 for all of them.
HasEnableInput(type) ==
    type \in {"clock_generator", "display_number", "display_ascii"}

-----------------------------------------------------------------------------
RisingEdge(old, new)  == new[0] /\ ~old[0]
FallingEdge(old, new) == ~new[0] /\ old[0]

\* state = <<enabled, output_value, on_finish_event, off_finish_event>>;
\* inputs 1 and 2 are the looped back on_finish and off_finish outputs.
UpdateClockGenerator(old, new, state) ==
    LET onFinished  == new[1] # old[1]
        offFinished == new[2] # old[2]
    IN  CASE ~state[0] /\ new[0] ->
               [state EXCEPT ![0] = TRUE, ![1] = TRUE, ![2] = ~@]
          [] state[0] /\ onFinished ->
               [state EXCEPT ![1] = FALSE, ![3] = ~@]
          [] state[0] /\ ~onFinished /\ offFinished /\ new[0] ->
               [state EXCEPT ![1] = TRUE, ![2] = ~@]
          [] state[0] /\ ~onFinished /\ offFinished /\ ~new[0] ->
               [state EXCEPT ![0] = FALSE]
          [] OTHER -> state

\* inputs: clock, j, k, set, reset; state[0] is the master, state[1] the slave
UpdateFlipflopJK(old, new, state) ==
    CASE new[4]             -> [state EXCEPT ![0] = FALSE, ![1] = FALSE]
      [] ~new[4] /\ new[3]  -> [state EXCEPT ![0] = TRUE, ![1] = TRUE]
      [] ~new[4] /\ ~new[3] /\ RisingEdge(old, new) ->
           [state EXCEPT ![0] = IF new[1] /\ new[2] THEN ~state[1]
                                ELSE IF new[1] THEN TRUE
                                ELSE IF new[2] THEN FALSE
                                ELSE @]
      [] ~new[4] /\ ~new[3] /\ FallingEdge(old, new) ->
           [state EXCEPT ![1] = state[0]]
      [] OTHER -> state

\* inputs: clock and the lanes; the register holds its lanes interleaved
UpdateShiftRegister(old, new, state, inputCount) ==
    LET lanes == inputCount - 1
    IN  [i \in DOMAIN state |->
           IF RisingEdge(old, new) /\ i < lanes THEN new[i + 1]
           ELSE IF FallingEdge(old, new) /\ i >= lanes THEN state[i - lanes]
           ELSE state[i]]

\* inputs: clock, data, set, reset
UpdateFlipflopD(old, new, state) ==
    [state EXCEPT ![0] = IF new[3] THEN FALSE
                         ELSE IF new[2] THEN TRUE
                         ELSE IF RisingEdge(old, new) THEN new[1]
                         ELSE @]

UpdateFlipflopMsD(old, new, state) ==
    [state EXCEPT ![0] = IF new[3] THEN FALSE
                         ELSE IF new[2] THEN TRUE
                         ELSE IF RisingEdge(old, new) THEN new[1]
                         ELSE state[0],
                  ![1] = IF new[3] THEN FALSE
                         ELSE IF new[2] THEN TRUE
                         ELSE IF FallingEdge(old, new) THEN state[0]
                         ELSE state[1]]

UpdateInternalState(type, inputCount, old, new, state) ==
    CASE type = "clock_generator" -> UpdateClockGenerator(old, new, state)
      [] type = "flipflop_jk"     -> UpdateFlipflopJK(old, new, state)
      [] type = "shift_register"  ->
           UpdateShiftRegister(old, new, state, inputCount)
      [] type = "latch_d"         ->
           [state EXCEPT ![0] = IF new[0] THEN new[1] ELSE @]
      [] type = "flipflop_d"      -> UpdateFlipflopD(old, new, state)
      [] type = "flipflop_ms_d"   -> UpdateFlipflopMsD(old, new, state)
      [] OTHER                    -> state        \* button

-----------------------------------------------------------------------------
\* Output `j` of an element with internal state.
OutputFromState(type, outputCount, state, j) ==
    CASE type = "clock_generator" -> state[j + 1]
      [] type = "flipflop_jk"     -> IF j = 0 THEN state[1] ELSE ~state[1]
      [] type = "shift_register"  -> state[10 - outputCount + j]
      [] type = "flipflop_ms_d"   -> state[1]
      [] OTHER                    -> state[0]     \* button, latch_d, flipflop_d

\* Every output of an element without internal state.  A wire may have no
\* input (add_wire_without_input): it is never evaluated, its outputs are off.
OutputFromInputs(type, in) ==
    CASE type = "and_element" -> \A i \in DOMAIN in : in[i]
      [] type = "or_element"  -> \E i \in DOMAIN in : in[i]
      [] type = "xor_element" ->
           \E i \in DOMAIN in : in[i] /\ \A k \in DOMAIN in \ {i} : ~in[k]
      [] OTHER                -> 0 \in DOMAIN in /\ in[0]  \* wire, buffer
=============================================================================
