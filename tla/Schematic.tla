------------------------------ MODULE Schematic ------------------------------
(***************************************************************************)
(* The circuit a simulation runs: core/schematic.{h,cpp}.  A schematic is  *)
(* built once and never changes, so it is a set of CONSTANTS.              *)
(*                                                                         *)
(* An input (input_t) and an output (output_t) are pairs of an element id  *)
(* and a connection id.  One output drives at most one input and one input *)
(* has at most one driver; fan-out is the work of wire elements.           *)
(***************************************************************************)
EXTENDS ElementLogic

CONSTANTS
    ElementCount,    \* number of elements; ids are 0..ElementCount-1
    Type,            \* element_types_
    InputCount,      \* sizes of input_connections_
    OutputCount,     \* sizes of output_connections_
    Sink,            \* output_connections_: the input each output drives
    Inverted,        \* input_inverters_
    Delay,           \* output_delays_
    HistoryLength    \* history_lengths_

Element == 0 .. (ElementCount - 1)
InputIds(e)  == 0 .. (InputCount[e] - 1)
OutputIds(e) == 0 .. (OutputCount[e] - 1)

Inputs  == UNION {{e} \X InputIds(e) : e \in Element}
Outputs == UNION {{e} \X OutputIds(e) : e \in Element}

\* null_input: an output that drives nothing
NullInput == <<-1, -1>>

\* Numbers of inputs and outputs is_input_output_count_valid accepts, as far
\* as the element logic relies on them.
CountsValid(type, inputs, outputs) ==
    CASE type = "unused"          -> inputs = 0 /\ outputs = 0
      [] HasNoLogic(type)         -> inputs >= 1 /\ outputs = 0
      [] type = "wire"            -> inputs <= 1
      [] type = "button"          -> inputs = 0 /\ outputs = 1
      [] type = "clock_generator" -> inputs = 3 /\ outputs = 3
      [] type = "flipflop_jk"     -> inputs = 5 /\ outputs = 2
      [] type = "shift_register"  -> inputs = 3 /\ outputs = 2
      [] type = "latch_d"         -> inputs = 2 /\ outputs = 1
      [] type \in {"flipflop_d", "flipflop_ms_d"} -> inputs = 4 /\ outputs = 1
      [] OTHER                    -> inputs >= 1 /\ outputs = 1

SizesValid ==
    /\ ElementCount \in Nat
    /\ Type \in [Element -> ElementType]
    /\ InputCount \in [Element -> Nat]
    /\ OutputCount \in [Element -> Nat]
    /\ \A e \in Element : CountsValid(Type[e], InputCount[e], OutputCount[e])

\* What connect leaves: one output for an input, and positive delays.
ConnectionsValid ==
    /\ Sink \in [Outputs -> Inputs \cup {NullInput}]
    /\ \A o, p \in Outputs : Sink[o] = Sink[p] /\ Sink[o] # NullInput => o = p
    /\ Inverted \in [Inputs -> BOOLEAN]
    /\ Delay \in [Outputs -> Nat \ {0}]
    /\ HistoryLength \in [Element -> Nat]

\* generate_schematic adds wires without inverters; set_output_inverters then
\* inverts the inputs that inverted outputs of logic items drive.
InvertersValid ==
    \A p \in Inputs : Type[p[1]] = "wire" /\ Inverted[p] =>
        \E o \in Outputs : Sink[o] = p /\ Type[o[1]] \in LogicItemType

ASSUME SchematicSizes == SizesValid
ASSUME SchematicConnections == ConnectionsValid
ASSUME WireInverters == InvertersValid

Drives(o, p)   == Sink[o] = p
IsConnected(p) == \E o \in Outputs : Drives(o, p)

\* The input vector of element e with its inverters applied.
Uninverted(input, e) == [i \in InputIds(e) |-> input[<<e, i>>] # Inverted[<<e, i>>]]

\* What element e drives on its output j.
OutputValue(input, state, e, j) ==
    IF HasInternalState(Type[e])
    THEN OutputFromState(Type[e], OutputCount[e], state[e], j)
    ELSE OutputFromInputs(Type[e], Uninverted(input, e))
=============================================================================
