------------------------------ MODULE WireIndex ------------------------------
(***************************************************************************)
(* Lines on the grid and the collision index: index/collision_index.cpp.   *)
(*                                                                         *)
(* A line is an ordered pair of points.  A segment is a line in a wire; its *)
(* units are numbered from 0, and the sets valid, selected and tracked     *)
(* hold the units that are marked.  The collision index keeps, for every   *)
(* point, what occupies it: messages about the inserted segments keep it   *)
(* up to date, and a message that does not fit throws.  Logic items are    *)
(* fixed: where their connections are and which points their bodies cover. *)
(***************************************************************************)
EXTENDS Integers, FiniteSets, FiniteSetsExt, SequencesExt, HistoryStack

CONSTANTS
    Width, Height,    \* the grid: (0 .. Width) \X (0 .. Height)
    ItemOutputs,      \* the orientation of the output at each of some points
    ItemInputs,       \* and of the input
    ItemBodies        \* points that a body covers

Grid == (0 .. Width) \X (0 .. Height)
Orientation == {"left", "right", "up", "down", "undirected"}

ASSUME ItemConstants ==
    /\ Width \in Nat /\ Height \in Nat
    /\ DOMAIN ItemOutputs \subseteq Grid /\ DOMAIN ItemInputs \subseteq Grid
    /\ \A p \in DOMAIN ItemOutputs : ItemOutputs[p] \in Orientation
    /\ \A p \in DOMAIN ItemInputs : ItemInputs[p] \in Orientation
    /\ ItemBodies \subseteq Grid

Connections == DOMAIN ItemOutputs \cup DOMAIN ItemInputs

TemporaryWire == 0
CollidingWire == 1
FirstInserted == 2
NoWire        == -1
ConnectionTag == -2
IsInserted(s) == s.wire >= FirstInserted

------------------------------------------------------------------------------
(* Lines and parts                                                           *)

PointBefore(p, q) == p[1] < q[1] \/ (p[1] = q[1] /\ p[2] < q[2])
LineBefore(l, m)  ==
    PointBefore(l[1], m[1]) \/ (l[1] = m[1] /\ PointBefore(l[2], m[2]))

IsHorizontal(l) == l[1][2] = l[2][2]
Length(l)       == l[2][1] - l[1][1] + l[2][2] - l[1][2]
PointAt(l, o)   == IF IsHorizontal(l) THEN <<l[1][1] + o, l[1][2]>>
                                      ELSE <<l[1][1], l[1][2] + o>>
OffsetOf(l, p)  == p[1] - l[1][1] + p[2] - l[1][2]
SubLine(l, begin, end) == <<PointAt(l, begin), PointAt(l, end)>>
Inner(l)  == {PointAt(l, o) : o \in 1 .. Length(l) - 1}
Ends(l)   == {l[1], l[2]}
Points(l) == Inner(l) \cup Ends(l)
Moved(l, delta) == <<<<l[1][1] + delta[1], l[1][2] + delta[2]>>,
                     <<l[2][1] + delta[1], l[2][2] + delta[2]>>>>

OrientationAt(l, p) == CASE IsHorizontal(l) /\ p = l[1] -> "left"
                         [] IsHorizontal(l) /\ p # l[1] -> "right"
                         [] ~IsHorizontal(l) /\ p = l[1] -> "up"
                         [] OTHER -> "down"
Opposite == [left |-> "right", right |-> "left", up |-> "down", down |-> "up"]

Units(begin, end) == begin .. end - 1
Shift(units, delta) == {u + delta : u \in units}
\* The maximal runs of some units, in ascending order.
Runs(units) ==
    LET begins == {u \in units : u - 1 \notin units}
        Run(b) == [begin |-> b, end |-> Min({e \in Shift(units, 1) : e > b /\ e \notin units})]
        Begin(i) == CHOOSE b \in begins : Cardinality({a \in begins : a <= b}) = i
    IN [i \in 1 .. Cardinality(begins) |-> Run(Begin(i))]

TypeAt(s, p) == IF p = s.line[1] THEN s.type0 ELSE s.type1
WithTypeAt(s, p, type) == IF p = s.line[1] THEN [s EXCEPT !.type0 = type]
                                           ELSE [s EXCEPT !.type1 = type]

\* A part of a segment: an end that is cut off becomes a shadow point.
Cut(s, begin, end) ==
    LET CutUnits(units) == Shift(units \cap Units(begin, end), -begin)
    IN [s EXCEPT !.line = SubLine(@, begin, end),
                 !.type0 = IF begin = 0 THEN @ ELSE "shadow",
                 !.type1 = IF end = Length(s.line) THEN @ ELSE "shadow",
                 !.valid = CutUnits(@), !.selected = CutUnits(@),
                 !.tracked = CutUnits(@)]

Join(lower, upper) ==
    LET JoinUnits(units, more) == units \cup Shift(more, Length(lower.line))
    IN [lower EXCEPT !.line = <<@[1], upper.line[2]>>, !.type1 = upper.type1,
                     !.valid = JoinUnits(@, upper.valid),
                     !.selected = JoinUnits(@, upper.selected),
                     !.tracked = JoinUnits(@, upper.tracked)]

------------------------------------------------------------------------------
(* What occupies a point                                                     *)

NoEntry == [element |-> "none", horizontal |-> NoWire, vertical |-> NoWire]
ItemEntry(p) == CASE p \in Connections -> [NoEntry EXCEPT !.element = "item",
                                                          !.vertical = ConnectionTag]
                  [] p \notin Connections /\ p \in ItemBodies ->
                       [NoEntry EXCEPT !.element = "item"]
                  [] OTHER -> NoEntry
ItemIndex == [p \in Grid |-> ItemEntry(p)]

IsWire(w) == w >= 0
IsEmptyEntry(d) == d.element # "item" /\ ~IsWire(d.horizontal) /\ ~IsWire(d.vertical)
IsItemConnection(d) == d = [NoEntry EXCEPT !.element = "item", !.vertical = ConnectionTag]
IsItemBody(d)       == d = [NoEntry EXCEPT !.element = "item"]
IsItemWireConnection(d) ==
    d.element = "item" /\ IsWire(d.horizontal) /\ d.vertical = ConnectionTag
IsWireConnection(d) ==
    d.element = "none" /\ IsWire(d.horizontal) /\ d.vertical = ConnectionTag
IsWireHorizontal(d) ==
    d.element = "none" /\ IsWire(d.horizontal) /\ d.vertical = NoWire
IsWireVertical(d) ==
    d.element = "none" /\ d.horizontal = NoWire /\ IsWire(d.vertical)
IsWireCrossing(d) ==
    d.element = "none" /\ IsWire(d.horizontal) /\ IsWire(d.vertical)
IsPoint(d, type) ==
    d.element = type /\ IsWire(d.horizontal) /\ d.vertical = d.horizontal
FirstWire(c, p) ==
    LET d == c.index[p]
    IN CASE IsWire(d.horizontal) -> d.horizontal
         [] ~IsWire(d.horizontal) /\ IsWire(d.vertical) -> d.vertical
         [] OTHER -> NoWire

EndItemType == [input |-> "connection", output |-> "connection",
                corner |-> "corner", cross |-> "cross"]
EndItems(s) ==
    [p \in {q \in Ends(s.line) : TypeAt(s, q) # "shadow"} |-> EndItemType[TypeAt(s, p)]]
InnerItems(l) == [p \in Inner(l) |-> IF IsHorizontal(l) THEN "horizontal" ELSE "vertical"]
Items(s) == InnerItems(s.line) @@ EndItems(s)

\* An entry may change from one wire to another as an item of some type.
IsExpected(d, item, wire) ==
    CASE item = "connection" ->
           d.vertical \in {NoWire, ConnectionTag} /\ d.horizontal = wire
      [] item = "horizontal" -> d.horizontal = wire
      [] item = "vertical"   -> d.vertical = wire
      [] item \in {"corner", "cross"} ->
           d.element \in {"none", item} /\ d.horizontal = wire /\ d.vertical = wire
Updated(d, item, wire) ==
    CASE item = "connection" -> [d EXCEPT !.vertical = ConnectionTag, !.horizontal = wire]
      [] item = "horizontal" -> [d EXCEPT !.horizontal = wire]
      [] item = "vertical"   -> [d EXCEPT !.vertical = wire]
      [] item \in {"corner", "cross"} ->
           [d EXCEPT !.element = item, !.horizontal = wire, !.vertical = wire]
WithoutTags(d) == IF IsEmptyEntry(d) THEN NoEntry ELSE d

\* One message: its items are at different points.
SetWireState(c, items, old, new) ==
    IF ~c.failed /\ \A p \in DOMAIN items : IsExpected(c.index[p], items[p], old)
    THEN [c EXCEPT !.index = [p \in Grid |->
            IF p \in DOMAIN items THEN WithoutTags(Updated(@[p], items[p], new)) ELSE @[p]]]
    ELSE Fail(c)

SegmentInserted(c, s) ==
    IF IsInserted(s) THEN SetWireState(c, Items(s), NoWire, s.wire) ELSE c
SegmentUninserted(c, s) ==
    IF IsInserted(s) THEN SetWireState(c, Items(s), s.wire, NoWire) ELSE c
\* Fault: the old end points stay in the index.
InsertedEndPointsAdded(c, old, new) == SetWireState(c, EndItems(new), NoWire, new.wire)
InsertedEndPointsUpdated(c, old, new) ==
    SetWireState(SetWireState(c, EndItems(old), old.wire, NoWire),
                 EndItems(new), NoWire, new.wire)

\* Lines cross, and an end may touch anything but a body, a connection that is
\* taken or a crossing.
PointCollides(d, item) ==
    CASE IsEmptyEntry(d) -> FALSE
      [] ~IsEmptyEntry(d) /\ item = "horizontal" -> ~IsWireVertical(d)
      [] ~IsEmptyEntry(d) /\ item = "vertical"   -> ~IsWireHorizontal(d)
      [] ~IsEmptyEntry(d) /\ item = "unknown"    ->
           IsItemBody(d) \/ IsItemWireConnection(d) \/ IsWireCrossing(d)
IsLineColliding(c, l) ==
    LET items == InnerItems(l) @@ [p \in Ends(l) |-> "unknown"]
    IN \E p \in DOMAIN items : PointCollides(c.index[p], items[p])
==============================================================================
