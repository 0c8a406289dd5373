----------------------------- MODULE MCCircuitUI -----------------------------
(***************************************************************************)
(* A row of cells with one or two items and a mouse that also leaves the   *)
(* row.                                                                    *)
(***************************************************************************)
EXTENDS CircuitUI

CONSTANT Plain  \* the attributes of all items

PlainDefinition == [attrs |-> Plain, inverted |-> FALSE]
OneDefinition == {PlainDefinition}
OnePlain == {Plain}
CellRects == {Cover(p, q) : p, q \in Points}
RowPoints == 0 .. Cells

OnFirstCells(n) == [i \in 1 .. n |-> [def |-> PlainDefinition, position |-> i]]
LoadedWith(n, entryMax) ==
    [items |-> OnFirstCells(n), calls |-> {}, entryMax |-> entryMax, selectionMax |-> 2]
OneLoaded == {LoadedWith(1, 5)}
OneOrTwoLoaded == {LoadedWith(1, 4), LoadedWith(2, 4)}
TwoItemClipboard == {<<[def |-> PlainDefinition, offset |-> 0],
                       [def |-> PlainDefinition, offset |-> 1]>>}
==============================================================================
