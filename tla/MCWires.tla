------------------------------- MODULE MCWires -------------------------------
(***************************************************************************)
(* Lines in the shape of a plus meet, cross and continue each other in its *)
(* centre; a logic item drives the row, another one a column that is       *)
(* longer; three sides of a square can be closed to a loop.                *)
(***************************************************************************)
EXTENDS WiresRefinement

DrawCalls   == [draw_wire |-> 5, toggle_wire_crosspoint |-> 8]
SelectCalls == [add_wire_segment |-> 0, set_visible_selection |-> 1,
    change_insertion_mode |-> 3, delete_all |-> 2, move_or_delete_temporary |-> 3,
    move_temporary_unchecked |-> 4, regularize_temporary_selection |-> 4,
    split_temporary_before_insert |-> 4]

Left   == <<<<0, 1>>, <<1, 1>>>>
Right  == <<<<1, 1>>, <<2, 1>>>>
Row    == <<<<0, 1>>, <<2, 1>>>>
Long   == <<<<0, 1>>, <<3, 1>>>>
Top    == <<<<1, 0>>, <<1, 1>>>>
Column == <<<<1, 0>>, <<1, 2>>>>
Driven == <<<<1, 0>>, <<1, 3>>>>
Corner == <<<<1, 0>>, <<2, 0>>>>
Side   == <<<<2, 0>>, <<2, 1>>>>

\* Wires that are drawn on, and wires that fall apart when a piece is taken out.
DrawOn == [lines : {<<Long>>, <<Long, Column>>, <<Long, Driven>>, <<Top, Right, Corner>>},
           added : {{Left, Top, Column, Side}}, calls : {DrawCalls}]
SelectIn == [lines : {<<Row, Top>>, <<Side, Row>>}, added : {{Column}}, calls : {SelectCalls}]
DrawnAndSelected == DrawOn \cup SelectIn

TwoOutputs    == (<<0, 1>> :> "right") @@ (<<1, 3>> :> "up")
RightInput    == <<3, 1>> :> "left"
NoBodies      == {}
OneLeft       == {<<-1, 0>>}
NoOrCenter    == {{}, {{}}, {{<<1, 1>>}}}
==============================================================================
