----------------------------- MODULE MCGeneration -----------------------------
(***************************************************************************)
(* A clock generator drives the row, a gate with an inverted output drives *)
(* the longer column; the two inputs of another gate and the enable input  *)
(* of the clock are at other ends.  Lines branch, cross and get connected; *)
(* a fourth item is not inserted.                                          *)
(***************************************************************************)
EXTENDS SchematicGeneration

Left   == <<<<0, 1>>, <<1, 1>>>>
Row    == <<<<0, 1>>, <<2, 1>>>>
Long   == <<<<0, 1>>, <<3, 1>>>>
Column == <<<<1, 0>>, <<1, 2>>>>
Driven == <<<<1, 0>>, <<1, 3>>>>
Side   == <<<<2, 0>>, <<2, 1>>>>
Corner == <<<<1, 0>>, <<2, 0>>>>
Feed   == <<<<0, 2>>, <<3, 2>>>>

DrawCalls == [add_wire_segment |-> 0, draw_wire |-> 2, toggle_wire_crosspoint |-> 6]
Drawn == [lines : {<<>>, <<Long>>, <<Long, Driven>>, <<Feed, Column>>},
          added : {{Left, Row, Column, Side, Corner, Feed}}, calls : {DrawCalls}]

Numbered(seq) == [j \in 0 .. Len(seq) - 1 |-> seq[j + 1]]
Clock == [type |-> "clock_generator", inserted |-> TRUE,
          inputInverters |-> Numbered(<<FALSE, FALSE, FALSE>>), inputs |-> 0 :> <<3, 2>>,
          outputInverters |-> Numbered(<<FALSE, FALSE, FALSE>>), outputs |-> 0 :> <<0, 1>>,
          delays |-> Numbered(<<1, 5, 7>>)]
Gate == [type |-> "xor_element", inserted |-> TRUE,
         inputInverters |-> Numbered(<<TRUE, FALSE>>), inputs |-> Numbered(<<<<3, 1>>, <<2, 0>>>>),
         outputInverters |-> Numbered(<<FALSE>>), outputs |-> <<>>, delays |-> Numbered(<<3>>)]
Inverter == [type |-> "buffer_element", inserted |-> TRUE,
             inputInverters |-> Numbered(<<FALSE>>), inputs |-> <<>>,
             outputInverters |-> Numbered(<<TRUE>>), outputs |-> 0 :> <<1, 3>>,
             delays |-> Numbered(<<3>>)]
Pasted == [Gate EXCEPT !.inserted = FALSE]
FourItems == <<Clock, Pasted, Gate, Inverter>>

TwoOutputs  == (<<0, 1>> :> "right") @@ (<<1, 3>> :> "up")
ThreeInputs == (<<3, 1>> :> "left") @@ (<<2, 0>> :> "undirected") @@ (<<3, 2>> :> "left")
NoBodies    == {}
NoDeltas    == {}
NoneOrThree == {0, 3}
==============================================================================
