----------------------------- MODULE WireSegments -----------------------------
(***************************************************************************)
(* The operations on segments that edits of wires are made of:             *)
(* editing/edit_wire_detail.cpp.                                           *)
(*                                                                         *)
(* Segments move between the temporary wire, the colliding wire and the    *)
(* inserted wires, whole or in part; they are merged and split, and the    *)
(* collision index follows.  A segment is named by its key; its id, which  *)
(* is a wire and a position in it, and how ids change are left out.  The   *)
(* segment part that an edit is about is handed down by reference: it is   *)
(* the field at of a circuit.  A step leaves a circuit that failed as it is. *)
(***************************************************************************)
EXTENDS WireIndex

NoPart == [key |-> 0, begin |-> 0, end |-> 0]
Part(key, begin, end) == [key |-> key, begin |-> begin, end |-> end]
WholePart(c, key) == Part(key, 0, Length(c.segments[key].line))

Keys(c) == DOMAIN c.segments
KeysOfWire(c, w) == {k \in Keys(c) : c.segments[k].wire = w}
LineOf(c, part)  == SubLine(c.segments[part.key].line, part.begin, part.end)

WireInputCount(c, w) == Cardinality({p \in Grid : \E k \in KeysOfWire(c, w) :
    p \in Ends(c.segments[k].line) /\ TypeAt(c.segments[k], p) = "input"})
WithInputsRegistered(c) ==
    IF \E w \in {c.segments[k].wire : k \in Keys(c)} : WireInputCount(c, w) > 1
    THEN Fail(c) ELSE c

\* The segments with some keys are replaced; the index is told.
UninsertedAll(c, keys) ==
    LET told[ks \in SUBSET keys] ==
            IF ks = {} THEN c
            ELSE SegmentUninserted(told[ks \ {Max(ks)}], c.segments[Max(ks)])
    IN told[keys]
InsertedAll(c, new) ==
    LET told[ks \in SUBSET DOMAIN new] ==
            IF ks = {} THEN c ELSE SegmentInserted(told[ks \ {Max(ks)}], new[Max(ks)])
    IN told[DOMAIN new]
WithSegments(c, old, new) ==
    IF c.failed THEN c ELSE WithInputsRegistered(
        [c EXCEPT !.segments = new @@ [k \in DOMAIN @ \ old |-> @[k]]])
Replace(c, old, new) ==
    WithSegments(InsertedAll(UninsertedAll(c, old), new), old, new)

------------------------------------------------------------------------------
(* Moving a part of a segment to a wire                                      *)

\* The first piece keeps the key; a key is given for the last one, or it gets
\* the next, and a piece in the middle the one after that.
EndKey(c, given) == IF given = 0 THEN c.nextKey ELSE given
MovedKey(c, part, given) ==
    CASE part.begin = 0 -> part.key
      [] part.begin > 0 /\ part.end = Length(c.segments[part.key].line) ->
           EndKey(c, given)
      [] OTHER -> c.nextKey + 1
Pieces(c, part, wire, given) ==
    LET s     == c.segments[part.key]
        last  == Length(s.line)
        moved == MovedKey(c, part, given)
        Piece(condition, key, piece) == IF condition THEN key :> piece ELSE <<>>
    IN (moved :> [Cut(s, part.begin, part.end) EXCEPT !.wire = wire])
       @@ Piece(part.begin > 0, part.key, Cut(s, 0, part.begin))
       @@ Piece(part.end < last, EndKey(c, given), Cut(s, part.end, last))

ReplaceByPieces(c, key, given, pieces) ==
    Replace([c EXCEPT !.nextKey = Max({@ + Cardinality(DOMAIN pieces) - 1, given + 1})],
            {key}, pieces)
Move(c, part, wire, given) ==
    CASE c.failed \/ (given # 0 /\ given \in Keys(c)) -> Fail(c)
      [] ~c.failed /\ part = WholePart(c, part.key) /\ c.segments[part.key].wire = wire -> c
      [] OTHER -> ReplaceByPieces(c, part.key, given, Pieces(c, part, wire, given))

PushMergeIf(condition, c, key0, key1) ==
    IF condition THEN PushEntry(c, [type |-> "merge", key |-> key0, other |-> key1]) ELSE c
\* Fault: a piece in the middle is merged with one of its neighbours only.
PushMergeFirst(c, before, part, given) ==
    LET moved == MovedKey(before, part, given)
    IN PushMergeIf(moved # part.key, c, part.key, moved)
\* The merges are undone in reverse order.
PushMerges(c, before, part, given) ==
    LET moved == MovedKey(before, part, given)
        last  == Length(before.segments[part.key].line)
    IN PushMergeIf(part.end < last, PushMergeIf(moved # part.key, c, part.key, moved),
                   moved, EndKey(before, given))
MoveWithHistory(c, part, wire, given) ==
    IF c.failed THEN c ELSE PushMerges(Move(c, part, wire, given), c, part, given)

AtMoved(c, before) ==
    IF c.failed THEN c
    ELSE [c EXCEPT !.at = WholePart(c, MovedKey(before, before.at, 0))]
MoveAt(c, wire)            == AtMoved(Move(c, c.at, wire, 0), c)
MoveAtWithHistory(c, wire) == AtMoved(MoveWithHistory(c, c.at, wire, 0), c)

DropAt(c) == [Replace(c, {c.at.key}, <<>>) EXCEPT !.at = NoPart]

------------------------------------------------------------------------------
(* End points                                                                *)

TemporaryTypes == {"shadow", "cross"}
PushEndpointsOf(c, before, key) ==
    LET s == before.segments[key]
    IN PushEntry(c, [type |-> "set_endpoints", key |-> key,
                     type0 |-> s.type0, type1 |-> s.type1])
WithEndpoints(c, key, type0, type1) ==
    LET old == c.segments[key]
        new == [old EXCEPT !.type0 = type0, !.type1 = type1]
        c1  == [c EXCEPT !.segments[key] = new]
    IN WithInputsRegistered(IF IsInserted(old) THEN InsertedEndPointsUpdated(c1, old, new)
                                               ELSE c1)
IsTypeAllowed(s, type) == IsInserted(s) \/ (s.wire = TemporaryWire /\ type \in TemporaryTypes)
SetEndpoints(c, key, type0, type1, recorded) ==
    LET s == c.segments[key]
    IN CASE c.failed -> c
         [] ~c.failed /\ s.wire # CollidingWire /\ s.type0 = type0 /\ s.type1 = type1 -> c
         [] OTHER -> IF IsTypeAllowed(s, type0) /\ IsTypeAllowed(s, type1)
                     THEN WithEndpoints(IF recorded THEN PushEndpointsOf(c, c, key) ELSE c,
                                        key, type0, type1)
                     ELSE Fail(c)

SetTypeAt(c, key, p, type, recorded) ==
    LET new == WithTypeAt(c.segments[key], p, type)
    IN IF c.failed THEN c ELSE SetEndpoints(c, key, new.type0, new.type1, recorded)
ResetEndpoints(c, key, recorded) == SetEndpoints(c, key, "shadow", "shadow", recorded)
\* Only the ends that the part touches.
ResetPartEndpoints(c, part, recorded) ==
    LET s == c.segments[part.key]
    IN SetEndpoints(c, part.key,
                    IF part.begin = 0 THEN "shadow" ELSE s.type0,
                    IF part.end = Length(s.line) THEN "shadow" ELSE s.type1, recorded)

\* All shadow points first, so that the index has room for the new types.
SetTypes(c, p, types) ==
    LET set[keys \in SUBSET DOMAIN types] ==
            IF keys = {} THEN c
            ELSE SetTypeAt(set[keys \ {Max(keys)}], Max(keys), p, types[Max(keys)], FALSE)
    IN set[DOMAIN types]
UpdateInsertedEndpoints(c, p, types) ==
    SetTypes(SetTypes(c, p, [k \in DOMAIN types |-> "shadow"]), p, types)

\* Where a logic item has an output, the wire has its input.
SetInputAt(c, key, p) ==
    IF p \in DOMAIN ItemOutputs THEN SetTypeAt(c, key, p, "input", FALSE) ELSE c
SetWireInputs(c, key) ==
    LET l == c.segments[key].line IN SetInputAt(SetInputAt(c, key, l[1]), key, l[2])

------------------------------------------------------------------------------
(* Merging segments                                                          *)

AreMergeable(c, key0, key1) ==
    LET s0 == c.segments[key0]  s1 == c.segments[key1]
    IN /\ key0 # key1 /\ s0.wire = s1.wire
       /\ IsHorizontal(s0.line) = IsHorizontal(s1.line)
       /\ s0.line[2] = s1.line[1] \/ s1.line[2] = s0.line[1]
LowerKey(c, key0, key1) ==
    IF LineBefore(c.segments[key0].line, c.segments[key1].line) THEN key0 ELSE key1
UpperKey(c, key0, key1) == IF LowerKey(c, key0, key1) = key0 THEN key1 ELSE key0

\* The segment part of the edit is preserved.
AtMerged(c, lower, upper) ==
    LET length == Length(c.segments[lower].line)
    IN IF c.at.key # upper THEN c.at
       ELSE Part(lower, c.at.begin + length, c.at.end + length)
Merge(c, key0, key1) ==
    LET lower == LowerKey(c, key0, key1)
        upper == UpperKey(c, key0, key1)
    IN IF c.failed \/ ~AreMergeable(c, key0, key1) THEN Fail(c)
       ELSE [Replace(c, {lower, upper},
                     lower :> Join(c.segments[lower], c.segments[upper]))
                EXCEPT !.at = AtMerged(c, lower, upper)]

PushSplit(c, before, lower, upper) ==
    PushEntry(c, [type |-> "split", key |-> lower, other |-> upper,
                  offset |-> Length(before.segments[lower].line)])
\* End points that vanish in a merge are kept for temporary segments only.
PushVanished(c, before, key, type) ==
    IF before.segments[key].wire = TemporaryWire /\ type # "shadow"
    THEN PushEndpointsOf(c, before, key) ELSE c
PushMerged(c, before, lower, upper) ==
    PushSplit(PushVanished(PushVanished(c, before, lower, before.segments[lower].type1),
                           before, upper, before.segments[upper].type0),
              before, lower, upper)
MergeWithHistory(c, key0, key1) ==
    IF c.failed THEN c
    ELSE PushMerged(Merge(c, key0, key1), c, LowerKey(c, key0, key1), UpperKey(c, key0, key1))

SplitAt(c, key, p) ==
    LET s == c.segments[key]
    IN Move(c, Part(key, OffsetOf(s.line, p), Length(s.line)), s.wire, 0)

------------------------------------------------------------------------------
(* The end points of inserted segments where something changed               *)

InsertedAt(c, p) ==
    {k \in Keys(c) : IsInserted(c.segments[k]) /\ p \in Points(c.segments[k].line)}
ThroughAt(c, p) == {k \in InsertedAt(c, p) : p \in Inner(c.segments[k].line)}

FirstOf(type, keys) == [k \in keys |-> IF k = Min(keys) THEN type ELSE "shadow"]
\* The types that the ends of segments at a point ask for.
EndTypes(c, p, keys) ==
    CASE Cardinality(keys) = 1 ->
           [k \in keys |-> IF TypeAt(c.segments[k], p) = "input" THEN "input" ELSE "output"]
      [] Cardinality(keys) = 2 -> FirstOf("corner", keys)
      [] OTHER -> FirstOf("cross", keys)
AreStraight(c, keys) ==
    Cardinality(keys) = 2 /\ Cardinality({IsHorizontal(c.segments[k].line) : k \in keys}) = 1
FixEnds(c, p) ==
    LET keys == InsertedAt(c, p)
    IN CASE keys = {} -> c
         [] \/ ThroughAt(c, p) # {} \/ Cardinality(keys) > 4
            \/ Cardinality({c.segments[k].wire : k \in keys}) > 1 -> Fail(c)
         [] OTHER -> IF AreStraight(c, keys) THEN MergeWithHistory(c, Min(keys), Max(keys))
                     ELSE UpdateInsertedEndpoints(c, p, EndTypes(c, p, keys))

\* A line that a single other line ends at is split there.
FixAndMerge(c, p) ==
    LET through == ThroughAt(c, p)
    IN FixEnds(IF Cardinality(InsertedAt(c, p)) = 2 /\ through # {}
               THEN SplitAt(c, Min(through), p) ELSE c, p)
FixAndMergeEnds(c, l) ==
    LET fix[i \in 0 .. 2] == IF i = 0 THEN c ELSE FixAndMerge(fix[i - 1], l[i])
    IN fix[2]

------------------------------------------------------------------------------
(* Wires                                                                     *)

InWire(c, from, to) ==
    [k \in KeysOfWire(c, from) |-> [c.segments[k] EXCEPT !.wire = to]]
MoveWire(c, from, to) == Replace(c, KeysOfWire(c, from), InWire(c, from, to))
LastWire(c) == c.wires + FirstInserted - 1

AddWire(c) == [c EXCEPT !.wires = @ + 1]
\* The last wire gets the id of the deleted one.
DeleteEmptyWire(c, w) ==
    IF c.failed \/ KeysOfWire(c, w) # {} \/ w < FirstInserted THEN Fail(c)
    ELSE [MoveWire(c, LastWire(c), w) EXCEPT !.wires = @ - 1]
MergeAndDeleteWire(c, to, from) ==
    IF to >= from THEN Fail(c) ELSE DeleteEmptyWire(MoveWire(c, from, to), from)

Touching(c, keys) ==
    LET points == UNION {Ends(c.segments[k].line) : k \in keys}
    IN {k \in Keys(c) : Ends(c.segments[k].line) \cap points # {}}
\* The segments of a wire that hang together with a point.
ConnectedSegments(c, w, p) ==
    LET wire == KeysOfWire(c, w)
        grown[i \in Nat] ==
            IF i = 0 THEN {k \in wire : p \in Ends(c.segments[k].line)}
            ELSE grown[i - 1] \cup (wire \cap Touching(c, grown[i - 1]))
    IN grown[Cardinality(wire)]
\* The end point that stands for p in the graph of a wire.
GraphPoint(c, w, p) ==
    LET points == UNION {Ends(c.segments[k].line) : k \in KeysOfWire(c, w)}
        after  == {q \in points : ~PointBefore(q, p)}
    IN CHOOSE q \in after : \A r \in after : ~PointBefore(r, q)

\* The segments at p1 go to a new wire, if those at p0 are in the same one.
SplitBrokenWire(c, p0, p1) ==
    LET w    == FirstWire(c, p0)
        keys == ConnectedSegments(c, w, GraphPoint(c, w, p1))
    IN IF c.failed \/ w = NoWire \/ w # FirstWire(c, p1) THEN c
       ELSE Replace(AddWire(c), keys,
                    [k \in keys |-> [c.segments[k] EXCEPT !.wire = LastWire(c) + 1]])

------------------------------------------------------------------------------
(* Valid units, which a user sees as just inserted, and collisions           *)

MarkValid(c, part) ==
    [c EXCEPT !.segments[part.key].valid = @ \cup Units(part.begin, part.end)]
UnmarkValid(c, part) ==
    [c EXCEPT !.segments[part.key].valid = @ \ Units(part.begin, part.end)]
PushRuns(c, type, key, units) ==
    LET Of(run) == [type |-> type, key |-> key, begin |-> run.begin, end |-> run.end]
        runs == Runs(units)
    IN PushEntries(c, [i \in DOMAIN runs |-> Of(runs[i])])
MarkValidWithHistory(c, part) ==
    MarkValid(PushRuns(c, "to_insert", part.key,
                       Units(part.begin, part.end) \ c.segments[part.key].valid), part)
UnmarkValidWithHistory(c, part) ==
    UnmarkValid(PushRuns(c, "to_colliding_expect_valid", part.key,
                         Units(part.begin, part.end) \cap c.segments[part.key].valid), part)

HasInput(c, w) == IsWire(w) /\ WireInputCount(c, w) > 0
\* Fault: a line between two points of one wire does not collide.
EndpointsCollideNoLoop(c, l) ==
    Cardinality({w \in {FirstWire(c, p) : p \in Ends(l)} : HasInput(c, w)}) > 1
\* A wire is a tree with one input at most, and meets a logic item head on.
EndpointsCollide(c, l) ==
    LET free    == {p \in Ends(l) : FirstWire(c, p) = NoWire}
        outputs == free \cap DOMAIN ItemOutputs
        wires   == {FirstWire(c, p) : p \in Ends(l) \ free}
        Fits(orientation, p) == orientation \in {"undirected", Opposite[OrientationAt(l, p)]}
    IN \/ free = {} /\ Cardinality(wires) = 1
       \/ Cardinality({w \in wires : HasInput(c, w)}) + Cardinality(outputs) > 1
       \/ \E p \in outputs : ~Fits(ItemOutputs[p], p)
       \/ \E p \in free \cap DOMAIN ItemInputs : ~Fits(ItemInputs[p], p)
IsWireColliding(c, l) == EndpointsCollide(c, l) \/ IsLineColliding(c, l)
==============================================================================
