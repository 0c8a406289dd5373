-------------------------------- MODULE Wires --------------------------------
(***************************************************************************)
(* Editing the wires of a circuit: editing/edit_wire.cpp, and the parts of *)
(* the history and of the modifier that handle segments.                   *)
(*                                                                         *)
(* A user draws lines, moves and deletes parts of them, and turns crossing *)
(* wires into connected ones.  The program keeps every inserted wire a     *)
(* tree of segments that are cut where lines meet and joined where they    *)
(* continue.  Undo replays the inverse of each such step, and finds the    *)
(* segments again by their keys.                                           *)
(***************************************************************************)
EXTENDS WireSegments

CONSTANTS
    Loaded,          \* what may be loaded: its lines in the order of insertion; added:
                     \* lines that are added later; calls: the methods that are called,
                     \* and a bound for each of them: entries on both stacks when it
                     \* starts, new_group aside
    Deltas,          \* distances that a selection is moved by
    TrueCrossPoints, \* cross points that are given to a regularization: a set with one
                     \* set of points, or none
    KeyMax,          \* bound: the next key when an edit starts
    ReplayKeyMax,    \* bound: the next key when undo or redo starts
    SegmentMax       \* bound: segments when an edit starts

ASSUME WireConstants ==
    /\ KeyMax \in Nat /\ ReplayKeyMax \in Nat /\ SegmentMax \in Nat
    /\ \A loaded \in Loaded :
         /\ loaded.lines \in Seq(Grid \X Grid) /\ loaded.added \subseteq Grid \X Grid
         /\ \A l \in Range(loaded.lines) \cup loaded.added :
                PointBefore(l[1], l[2]) /\ (l[1][1] = l[2][1] \/ l[1][2] = l[2][2])
         /\ \A name \in DOMAIN loaded.calls : loaded.calls[name] \in Nat
    /\ \A given \in TrueCrossPoints : given \subseteq SUBSET Grid /\ Cardinality(given) <= 1

VARIABLE circuit

Mode == {"temporary", "collisions", "insert_or_discard"}
Hint == {"no_hint", "expect_valid", "assume_colliding"}
NewSegment(line) == [wire |-> TemporaryWire, line |-> line,
                     type0 |-> "shadow", type1 |-> "shadow",
                     valid |-> {}, selected |-> {}, tracked |-> {}]

------------------------------------------------------------------------------
(* Temporary segments                                                        *)

PushCreateAfter(c, s) ==
    PushEntry(IF {s.type0, s.type1} = {"shadow"} THEN c ELSE PushEndpointsOf(c, c, c.at.key),
              [type |-> "create", key |-> c.at.key, line |-> s.line])
PushCreate(c) ==
    LET s == c.segments[c.at.key]
    IN PushCreateAfter(PushRuns(c, "add_visible", c.at.key, s.selected), s)

\* The other parts of the segment stay.
DeleteTemporary(c) ==
    IF c.failed \/ c.segments[c.at.key].wire # TemporaryWire THEN Fail(c)
    ELSE DropAt(PushCreate(MoveAtWithHistory(c, TemporaryWire)))

IsRepresentable(l, delta) == Ends(Moved(l, delta)) \subseteq Grid
MoveTemporaryUnchecked(c, key, delta) ==
    IF c.failed THEN c
    ELSE [PushEntry(c, [type |-> "move", key |-> key, delta |-> <<-delta[1], -delta[2]>>])
            EXCEPT !.segments[key].line = Moved(@, delta)]
MoveTemporaryAt(c, delta) == MoveTemporaryUnchecked(c, c.at.key, delta)
MoveOrDeleteTemporary(c, delta) ==
    CASE c.failed \/ c.segments[c.at.key].wire # TemporaryWire -> Fail(c)
      [] ~c.failed /\ c.segments[c.at.key].wire = TemporaryWire
         /\ ~IsRepresentable(LineOf(c, c.at), delta) -> DeleteTemporary(c)
      [] OTHER -> MoveTemporaryAt(MoveAtWithHistory(c, TemporaryWire), delta)

------------------------------------------------------------------------------
(* Insertion modes                                                           *)

PushAt(c, type) == PushEntry(c, [type |-> type, key |-> c.at.key,
                                 begin |-> c.at.begin, end |-> c.at.end])

\* The wire for a line: a new one, the one it touches, or both of them merged.
WiresAt(c, l) == {FirstWire(c, p) : p \in Ends(l)} \ {NoWire}
WithTargetWire(c, l) ==
    CASE WiresAt(c, l) = {} -> AddWire(c)
      [] FirstWire(c, l[1]) # NoWire /\ FirstWire(c, l[2]) # NoWire ->
           MergeAndDeleteWire(c, Min(WiresAt(c, l)), Max(WiresAt(c, l)))
      [] OTHER -> c
TargetWire(c, l) == IF WiresAt(c, l) = {} THEN LastWire(AddWire(c)) ELSE Min(WiresAt(c, l))

ResetAt(c, recorded) == ResetEndpoints(c, c.at.key, recorded)
SetInputsAt(c)       == SetWireInputs(c, c.at.key)
MarkAt(c)            == IF c.failed THEN c ELSE MarkValid(c, c.at)
InsertInto(c, wire) ==
    PushAt(SetInputsAt(MoveAtWithHistory(ResetAt(c, TRUE), wire)), "to_temporary")
InsertUninserted(c) ==
    LET l == LineOf(c, c.at)
    IN FixAndMergeEnds(InsertInto(WithTargetWire(c, l), TargetWire(c, l)), l)

TemporaryToColliding(c, hint) ==
    LET collides == IsWireColliding(c, LineOf(c, c.at))
    IN CASE collides /\ hint = "expect_valid" -> Fail(c)
         [] (collides /\ hint # "expect_valid") \/ hint = "assume_colliding" ->
              PushAt(MoveAtWithHistory(ResetPartEndpoints(c, c.at, TRUE), CollidingWire),
                     "to_temporary")
         [] OTHER -> MarkAt(InsertUninserted(c))

InsertToColliding(c) == MarkValidWithHistory(c, c.at)

\* Fault: a wire that falls into two parts stays one.
RepairWireUnbroken(c, w, l) ==
    IF KeysOfWire(c, w) = {} THEN DeleteEmptyWire(c, w) ELSE FixAndMergeEnds(c, l)
\* What is left of the wire is cut, joined and divided where the part was.
RepairWire(c, w, l) ==
    IF KeysOfWire(c, w) = {} THEN DeleteEmptyWire(c, w)
    ELSE SplitBrokenWire(FixAndMergeEnds(c, l), l[1], l[2])
InsertedToTemporary(c) ==
    RepairWire(PushAt(ResetAt(MoveAt(UnmarkValid(c, c.at), TemporaryWire), FALSE),
                      "to_colliding_expect_valid"),
               c.segments[c.at.key].wire, LineOf(c, c.at))
UninsertedToTemporary(c) ==
    PushAt(MoveAtWithHistory(c, TemporaryWire), "to_colliding_assume_colliding")
CollidingToTemporary(c) ==
    IF IsInserted(c.segments[c.at.key]) THEN InsertedToTemporary(c)
                                        ELSE UninsertedToTemporary(c)

CollidingToInsert(c, hint) ==
    CASE IsInserted(c.segments[c.at.key]) -> UnmarkValidWithHistory(c, c.at)
      [] c.segments[c.at.key].wire = CollidingWire /\ hint # "expect_valid" ->
           DeleteTemporary(UninsertedToTemporary(c))
      [] OTHER -> Fail(c)

\* A part of an inserted segment may be valid in some places and normal in others.
ModesOf(c, part) ==
    LET s == c.segments[part.key]
        ModeAt(u) == IF u \in s.valid THEN "collisions" ELSE "insert_or_discard"
    IN CASE s.wire = TemporaryWire -> {"temporary"}
         [] s.wire = CollidingWire -> {"collisions"}
         [] OTHER -> {ModeAt(u) : u \in Units(part.begin, part.end)}

\* A part of an inserted segment does not end where it crosses another wire.
IsSanitized(c, part) ==
    \/ ~IsInserted(c.segments[part.key])
    \/ \A p \in Ends(LineOf(c, part)) : ~IsWireCrossing(c.index[p])

FromTemporary(c, modes, hint) ==
    IF "temporary" \in modes THEN TemporaryToColliding(c, hint) ELSE c
ToInsert(c, mode, hint) ==
    IF ~c.failed /\ mode = "insert_or_discard" THEN CollidingToInsert(c, hint) ELSE c
FromInsert(c, modes) ==
    IF ~c.failed /\ "insert_or_discard" \in modes THEN InsertToColliding(c) ELSE c
ToTemporary(c, mode) ==
    IF ~c.failed /\ mode = "temporary" THEN CollidingToTemporary(c) ELSE c
ChangeModes(c, modes, mode, hint) ==
    CASE mode = "temporary" /\ ~IsSanitized(c, c.at) -> Fail(c)
      [] modes = {mode} -> c
      [] OTHER -> ToTemporary(FromInsert(ToInsert(FromTemporary(c, modes, hint),
                                                  mode, hint), modes), mode)
ChangeInsertionMode(c, mode, hint) ==
    IF c.failed THEN c ELSE ChangeModes(c, ModesOf(c, c.at), mode, hint)

AddTemporary(c, line, key) ==
    LET new == EndKey(c, key)
        c1 == [c EXCEPT !.segments = (new :> NewSegment(line)) @@ @,
                        !.nextKey = Max({@ + 1, key + 1}), !.at = Part(new, 0, Length(line))]
    IN IF c.failed \/ new \in Keys(c) THEN Fail(c) ELSE PushEntry(c1, Entry("delete", new))
AddWireSegment(c, line, mode) ==
    ChangeInsertionMode(AddTemporary(c, line, 0), mode, "no_hint")

------------------------------------------------------------------------------
(* Cross points                                                              *)

DeleteAt(c, part) ==
    DeleteTemporary(ChangeInsertionMode([c EXCEPT !.at = part], "temporary", "no_hint"))
\* Keys change while segments are deleted: each deletion looks again.
DeleteFirstWireAt(c, p) ==
    IF c.failed \/ InsertedAt(c, p) = {} THEN c
    ELSE DeleteAt(c, WholePart(c, Min(InsertedAt(c, p))))
DeleteWiresAt(c, p) ==
    LET deleted[i \in 0 .. 4] == IF i = 0 THEN c ELSE DeleteFirstWireAt(deleted[i - 1], p)
    IN deleted[4]
AddLines(c, lines) ==
    LET added[i \in 0 .. Len(lines)] ==
            IF i = 0 THEN c ELSE AddWireSegment(added[i - 1], lines[i], "insert_or_discard")
    IN added[Len(lines)]

Halves(p, l) == <<<<l[1], p>>, <<p, l[2]>>>>
\* The lines that replace those of some segments at a point; none, if they stay.
\* Fault: wires that both have an input are connected.
CrosspointLinesAnyInputs(c, p, keys) ==
    IF Cardinality(keys) # 2 \/ Cardinality({c.segments[k].wire : k \in keys}) # 2 THEN <<>>
    ELSE Halves(p, c.segments[Min(keys)].line) \o Halves(p, c.segments[Max(keys)].line)
CrosspointLines(c, p, keys) ==
    LET wires == {c.segments[k].wire : k \in keys}
    IN IF \/ Cardinality(keys) # 2 \/ Cardinality(wires) # 2
          \/ \A w \in wires : HasInput(c, w)
       THEN <<>>
       ELSE Halves(p, c.segments[Min(keys)].line) \o Halves(p, c.segments[Max(keys)].line)
CrossingLines(c, keys) ==
    LET lines == SetToSortSeq({c.segments[k].line : k \in keys}, LineBefore)
    IN IF Cardinality(keys) # 4 THEN <<>>
       ELSE <<<<lines[1][1], lines[4][2]>>, <<lines[2][1], lines[3][2]>>>>
Redraw(c, p, lines) == IF lines = <<>> THEN c ELSE AddLines(DeleteWiresAt(c, p), lines)
ToggleWireCrosspoint(c, p) ==
    LET keys  == InsertedAt(c, p)
        wires == {c.segments[k].wire : k \in keys}
    IN IF IsPoint(c.index[p], "cross") /\ Cardinality(keys) = 4 /\ Cardinality(wires) # 1
       THEN Fail(c)
       ELSE Redraw(c, p,
                   CASE IsWireCrossing(c.index[p])   -> CrosspointLines(c, p, keys)
                     [] IsPoint(c.index[p], "cross") -> CrossingLines(c, keys)
                     [] OTHER -> <<>>)

------------------------------------------------------------------------------
(* Temporary selections: splitting and regularization                        *)

SelectedKeys(c)    == {k \in Keys(c) : c.segments[k].selected # {}}
IsWholeSelected(c) == \A k \in SelectedKeys(c) :
    c.segments[k].selected = Units(0, Length(c.segments[k].line))

SplitOff(c, key, p) ==
    LET l == c.segments[key].line
    IN MoveWithHistory(c, Part(key, OffsetOf(l, p), Length(l)), TemporaryWire, 0)
\* The points are taken in descending order: the first piece keeps the key.
SplitSegment(c, key, points) ==
    LET order == SetToSortSeq(points, LAMBDA p, q : PointBefore(q, p))
        split[i \in 0 .. Len(order)] ==
            IF i = 0 THEN c ELSE SplitOff(split[i - 1], key, order[i])
    IN split[Len(order)]
SplitKeys(c, keys, points) ==
    LET split[ks \in SUBSET keys] ==
            IF ks = {} THEN c
            ELSE SplitSegment(split[ks \ {Max(ks)}], Max(ks),
                              points \cap Inner(c.segments[Max(ks)].line))
    IN split[keys]

\* Where other wires can be connected.
SplitPoints(c, keys) ==
    {p \in UNION {Inner(c.segments[k].line) : k \in keys} :
        IsPoint(c.index[p], "corner") \/ IsPoint(c.index[p], "cross")
        \/ IsWireConnection(c.index[p])}
SplitTemporaryBeforeInsert(c, keys) == SplitKeys(c, keys, SplitPoints(c, keys))

\* Of lines that overlap, one stands for an orientation.
Adjacent(c, p) ==
    LET ending == {k \in SelectedKeys(c) : p \in Ends(c.segments[k].line)}
        Toward(k) == OrientationAt(c.segments[k].line, p)
    IN [o \in {Toward(k) : k \in ending} |-> Max({k \in ending : Toward(k) = o})]
Straight(adjacent) == {o \in {"left", "up"} : {o, Opposite[o]} \subseteq DOMAIN adjacent}

\* Every merge leaves one key for two; names says which key a segment has now.
MergePairs(c, pairs) ==
    LET MergeIn(state, key0, key1) ==
            [circuit |-> MergeWithHistory(state.circuit, key0, key1),
             names |-> [n \in DOMAIN state.names |->
                            IF state.names[n] = UpperKey(state.circuit, key0, key1)
                            THEN LowerKey(state.circuit, key0, key1) ELSE state.names[n]]]
        Step(state, pair) ==
            IF state.circuit.failed THEN state
            ELSE MergeIn(state, state.names[pair[1]], state.names[pair[2]])
        merged[i \in 0 .. Len(pairs)] ==
            IF i = 0 THEN [circuit |-> c, names |-> [k \in Keys(c) |-> k]]
            ELSE Step(merged[i - 1], pairs[i])
    IN merged[Len(pairs)].circuit

\* Lines that continue each other are joined; where three meet, or four at a
\* point that was a cross point, one gets a cross point.
IsCross(adjacent, p, given) ==
    LET count == Cardinality(DOMAIN adjacent)
    IN count = 3 \/ (count = 4 /\ \A points \in given : p \in points)
SetCross(c, p, adjacent) ==
    SetTypeAt(c, adjacent[IF "right" \in DOMAIN adjacent THEN "right" ELSE "left"],
              p, "cross", TRUE)
StraightPairs(adjacent) == {<<adjacent[o], adjacent[Opposite[o]]>> : o \in Straight(adjacent)}
RegularizeEnds(c, adjacent, given) ==
    LET crosses == {p \in DOMAIN adjacent : IsCross(adjacent[p], p, given)}
        joined  == {p \in DOMAIN adjacent \ crosses : Cardinality(DOMAIN adjacent[p]) \in {2, 4}}
        pairs   == UNION {StraightPairs(adjacent[p]) : p \in joined}
        order   == SetToSeq(crosses)
        crossed[i \in 0 .. Len(order)] ==
            IF i = 0 THEN c ELSE SetCross(crossed[i - 1], order[i], adjacent[order[i]])
    IN MergePairs(crossed[Len(order)], SetToSeq(pairs))
WithAdjacent(c, given) ==
    RegularizeEnds(c, [p \in UNION {Ends(c.segments[k].line) : k \in SelectedKeys(c)} |->
                           Adjacent(c, p)], given)
RegularizeTemporarySelection(c, given) ==
    WithAdjacent(SplitKeys(c, SelectedKeys(c), UNION given), given)

------------------------------------------------------------------------------
(* The visible selection                                                     *)

SelectionOf(c) == [k \in SelectedKeys(c) |-> c.segments[k].selected]
AllSelected(c) == [k \in Keys(c) |-> Units(0, Length(c.segments[k].line))]
SetVisibleSelection(c, new) ==
    LET old == SelectionOf(c)
        e == CASE DOMAIN old = {} -> [type |-> "clear"]
               [] DOMAIN old # {} /\ old = AllSelected(c) -> [type |-> "select_all"]
               [] OTHER -> [type |-> "set", units |-> old]
        selected == [k \in Keys(c) |-> [c.segments[k] EXCEPT !.selected =
                        IF k \in DOMAIN new THEN new[k] ELSE {}]]
    IN CASE ~(DOMAIN new \subseteq Keys(c)) -> Fail(c)
         [] old = new -> c
         [] OTHER -> [PushEntry(c, e) EXCEPT !.segments = selected]
AddToVisibleSelection(c, part) ==
    [c EXCEPT !.segments[part.key].selected = @ \cup Units(part.begin, part.end)]

\* An end on a crossing goes to the next point that is none.
FindLower(c, l, o, limit) ==
    LET good == {i \in limit .. o - 1 : ~IsWireCrossing(c.index[PointAt(l, i)])}
    IN IF good = {} THEN Min({limit, o}) ELSE Max(good)
FindHigher(c, l, o, limit) ==
    LET good == {i \in o + 1 .. limit : ~IsWireCrossing(c.index[PointAt(l, i)])}
    IN IF good = {} THEN Max({limit, o}) ELSE Min(good)
SanitizedUnits(c, key, begin, end, mode) ==
    LET l == c.segments[key].line
        Collides(o) == IsWireCrossing(c.index[PointAt(l, o)])
        b == CASE ~Collides(begin) -> begin
               [] Collides(begin) /\ mode = "expand" -> FindLower(c, l, begin, 0)
               [] Collides(begin) /\ mode = "shrink" -> FindHigher(c, l, begin, end)
        e == CASE ~Collides(end) -> end
               [] Collides(end) /\ mode = "expand" -> FindHigher(c, l, end, Length(l))
               [] Collides(end) /\ mode = "shrink" -> FindLower(c, l, end, begin)
    IN IF IsInserted(c.segments[key]) THEN Units(b, e) ELSE Units(begin, end)

------------------------------------------------------------------------------
(* Undo and redo                                                             *)

ModeChange ==
    [to_temporary                  |-> [mode |-> "temporary", hint |-> "no_hint"],
     to_colliding_expect_valid     |-> [mode |-> "collisions", hint |-> "expect_valid"],
     to_colliding_assume_colliding |-> [mode |-> "collisions", hint |-> "assume_colliding"],
     to_insert                     |-> [mode |-> "insert_or_discard", hint |-> "expect_valid"]]

\* A segment that is split in an inserted wire becomes a corner for a moment.
SplitInserted(c, key, offset, new) ==
    LET s == c.segments[key]
    IN UpdateInsertedEndpoints(Move(c, Part(key, offset, Length(s.line)), s.wire, new),
                               PointAt(s.line, offset),
                               (key :> "corner") @@ (new :> "shadow"))
SplitUninserted(c, key, offset, new) ==
    LET s == c.segments[key]
    IN MoveWithHistory(c, Part(key, offset, Length(s.line)), s.wire, new)
SplitSegmentAt(c, key, offset, new) ==
    CASE c.failed \/ offset \notin 1 .. Length(c.segments[key].line) - 1 -> Fail(c)
      [] OTHER -> IF IsInserted(c.segments[key]) THEN SplitInserted(c, key, offset, new)
                                                 ELSE SplitUninserted(c, key, offset, new)

ReplayOfSegment(c, e) ==
    LET inserted == IsInserted(c.segments[e.key])
    IN CASE e.type = "delete" -> DeleteTemporary([c EXCEPT !.at = WholePart(c, e.key)])
         [] e.type = "move"   -> MoveTemporaryUnchecked(c, e.key, e.delta)
         [] e.type \in DOMAIN ModeChange ->
              ChangeInsertionMode([c EXCEPT !.at = Part(e.key, e.begin, e.end)],
                                  ModeChange[e.type].mode, ModeChange[e.type].hint)
         [] e.type = "set_endpoints" ->
              IF c.segments[e.key].wire = TemporaryWire
              THEN SetEndpoints(c, e.key, e.type0, e.type1, TRUE) ELSE Fail(c)
         [] e.type = "merge" ->
              IF inserted \/ e.other \notin Keys(c) THEN Fail(c)
              ELSE MergeWithHistory(c, e.key, e.other)
         [] e.type = "split" -> SplitSegmentAt(c, e.key, e.offset, e.other)
         [] e.type = "add_visible" ->
              AddToVisibleSelection(c, Part(e.key, e.begin, e.end))

\* A key that the key index does not know throws.
ReplayEntry(c, e) ==
    CASE c.failed              -> c
      [] ~c.failed /\ e.type = "create" -> AddTemporary(c, e.line, e.key)
      [] ~c.failed /\ e.type \in {"clear", "select_all", "set"} ->
           SetVisibleSelection(c, CASE e.type = "clear"      -> <<>>
                                    [] e.type = "select_all" -> AllSelected(c)
                                    [] e.type = "set"        -> e.units)
      [] OTHER -> IF e.key \in Keys(c) THEN ReplayOfSegment([c EXCEPT !.at = NoPart], e)
                  ELSE Fail(c)

UndoGroup(c) == ReplayStack(FinishUndoGroup(c), "undo", ReplayEntry)
RedoGroup(c) == ReplayStack(c, "redo", ReplayEntry)

------------------------------------------------------------------------------
(* Edits of a selection: its parts are taken one by one from a copy of the   *)
(* selection that is tracked while segments are cut and joined.              *)

TrackSelection(c) ==
    [c EXCEPT !.segments = [k \in DOMAIN @ |-> [@[k] EXCEPT !.tracked = c.segments[k].selected]]]
TrackedKeys(c) == {k \in Keys(c) : c.segments[k].tracked # {}}
\* The order of the parts is that of the ids in a flat map: low or high keys first.
FirstTracked(c, order) == IF order = "low_first" THEN Min(TrackedKeys(c))
                                                 ELSE Max(TrackedKeys(c))
TakeRun(c, k, run) == [c EXCEPT !.segments[k].tracked = @ \ Units(run.begin, run.end),
                                !.at = Part(k, run.begin, run.end)]
TakePart(c, k) == TakeRun(c, k, Runs(c.segments[k].tracked)[1])
ConsumeTracked(c, order, Edit(_)) ==
    LET units == UNION {{k} \X c.segments[k].tracked : k \in Keys(c)}
        EditNext(d) == IF d.failed \/ TrackedKeys(d) = {} THEN d
                       ELSE Edit(TakePart(d, FirstTracked(d, order)))
        consumed[i \in 0 .. Cardinality(units)] ==
            IF i = 0 THEN c ELSE EditNext(consumed[i - 1])
    IN consumed[Cardinality(units)]
Consume(c, order, Edit(_)) == ConsumeTracked(TrackSelection(c), order, Edit)

ChangeSelectionMode(c, order, mode) ==
    Consume(c, order, LAMBDA d : ChangeInsertionMode(d, mode, "no_hint"))
MoveOrDeleteSelection(c, order, delta) ==
    Consume(c, order, LAMBDA d : MoveOrDeleteTemporary(d, delta))
DeleteAll(c, order) == Consume(c, order, LAMBDA d : DeleteAt(d, d.at))
MoveSelectionUnchecked(c, delta) ==
    LET moved[keys \in SUBSET SelectedKeys(c)] ==
            IF keys = {} THEN c
            ELSE MoveTemporaryUnchecked(moved[keys \ {Max(keys)}], Max(keys), delta)
    IN moved[SelectedKeys(c)]

\* A line is drawn: it is cut where it can be connected before it is inserted.
TrackAll(s) == [s EXCEPT !.tracked = Units(0, Length(s.line))]
TrackNew(c, old) == [c EXCEPT !.segments =
    [k \in DOMAIN @ |-> IF k \in old THEN @[k] ELSE TrackAll(@[k])]]
SplitAtBeforeInsert(c) == SplitTemporaryBeforeInsert(c, {c.at.key})
DrawWire(c, order, line, mode) ==
    ConsumeTracked(TrackNew(SplitAtBeforeInsert(AddTemporary(c, line, 0)), Keys(c)), order,
                   LAMBDA d : ChangeInsertionMode(d, mode, "no_hint"))
\* What was drawn is taken back by undo, and cannot be redone.
RetractGroup(c) == ClearRedo(UndoGroup(c))

------------------------------------------------------------------------------
(* The actions are the public methods of EditableCircuit, and what drawing a *)
(* wire makes of them.                                                       *)

EmptyCircuit ==
    [segments |-> <<>>, wires |-> 0, index |-> ItemIndex, nextKey |-> 1, at |-> NoPart,
     loaded |-> [calls |-> <<>>], history |-> "disabled", undo |-> <<>>, redo |-> <<>>, failed |-> FALSE]
LoadedCircuit(loaded) ==
    [AddLines(EmptyCircuit, loaded.lines) EXCEPT
        !.history = "track_undo_new", !.at = NoPart, !.loaded = loaded]

Init == \E loaded \in Loaded : circuit = LoadedCircuit(loaded)

Entries(s) == SelectSeq(s, LAMBDA e : ~IsNewGroup(e))
\* An edit may pass the bounds; no other edit follows then.
CanCall(name) ==
    /\ name \in DOMAIN circuit.loaded.calls /\ ~circuit.failed
    /\ circuit.nextKey <= KeyMax
    /\ Cardinality(Keys(circuit)) <= SegmentMax
    /\ Len(Entries(circuit.undo)) + Len(Entries(circuit.redo)) <= circuit.loaded.calls[name]
Return(c) == circuit' = [c EXCEPT !.at = NoPart]

Order == {"low_first", "high_first"}
IsTemporarySelected ==
    \A k \in SelectedKeys(circuit) : circuit.segments[k].wire = TemporaryWire
IsSelectionSanitized ==
    \A k \in SelectedKeys(circuit) :
        \A run \in Range(Runs(circuit.segments[k].selected)) :
            IsSanitized(circuit, Part(k, run.begin, run.end))

DoAddWireSegment ==
    /\ CanCall("add_wire_segment")
    /\ \E line \in circuit.loaded.added, mode \in Mode : Return(AddWireSegment(circuit, line, mode))

\* An open group would be taken back with the line; a line of which nothing
\* could be inserted is taken back at once.
DoDrawWire ==
    /\ CanCall("draw_wire") /\ ~HasUngrouped(circuit.undo)
    /\ \E line \in circuit.loaded.added, mode \in Mode \ {"temporary"}, order \in Order :
         \E drawn \in {DrawWire(circuit, order, line, mode)} :
           drawn.segments # circuit.segments /\ Return(drawn)
DoDrawNothing ==
    /\ CanCall("draw_wire") /\ ~HasUngrouped(circuit.undo)
    /\ \E line \in circuit.loaded.added, order \in Order :
         \E drawn \in {DrawWire(circuit, order, line, "insert_or_discard")} :
           drawn.segments = circuit.segments /\ Return(RetractGroup(drawn))
DoRetractWire ==
    /\ CanCall("draw_wire") /\ HasUngrouped(circuit.undo)
    /\ Return(RetractGroup(circuit))

DoSetVisibleSelection ==
    /\ CanCall("set_visible_selection")
    /\ \/ \E k \in Keys(circuit), mode \in {"expand", "shrink"} :
            \E begin, end \in 0 .. Length(circuit.segments[k].line) :
              LET units == SanitizedUnits(circuit, k, begin, end, mode)
              IN /\ begin < end /\ units # {}
                 /\ Return(SetVisibleSelection(circuit, k :> units))
       \/ \E new \in {<<>>, AllSelected(circuit)} :
            Return(SetVisibleSelection(circuit, new))

DoChangeInsertionMode ==
    /\ CanCall("change_insertion_mode")
    /\ \E mode \in Mode, order \in Order :
         /\ mode = "temporary" => IsSelectionSanitized
         /\ Return(ChangeSelectionMode(circuit, order, mode))

DoMoveOrDelete ==
    /\ CanCall("move_or_delete_temporary") /\ IsTemporarySelected
    /\ \E delta \in Deltas, order \in Order :
         Return(MoveOrDeleteSelection(circuit, order, delta))

DoMoveUnchecked ==
    /\ CanCall("move_temporary_unchecked")
    /\ IsTemporarySelected /\ IsWholeSelected(circuit)
    /\ \E delta \in Deltas :
         /\ \A k \in SelectedKeys(circuit) : IsRepresentable(circuit.segments[k].line, delta)
         /\ Return(MoveSelectionUnchecked(circuit, delta))

DoDeleteAll ==
    /\ CanCall("delete_all") /\ IsSelectionSanitized
    /\ \E order \in Order : Return(DeleteAll(circuit, order))

DoToggleCrosspoint ==
    /\ CanCall("toggle_wire_crosspoint")
    /\ \E p \in Grid : Return(ToggleWireCrosspoint(circuit, p))

DoRegularize ==
    /\ CanCall("regularize_temporary_selection")
    /\ IsTemporarySelected /\ IsWholeSelected(circuit)
    /\ \E given \in TrueCrossPoints : Return(RegularizeTemporarySelection(circuit, given))

DoSplitBeforeInsert ==
    /\ CanCall("split_temporary_before_insert")
    /\ IsTemporarySelected /\ IsWholeSelected(circuit)
    /\ Return(SplitTemporaryBeforeInsert(circuit, SelectedKeys(circuit)))

DoFinishUndoGroup == ~circuit.failed /\ Return(FinishUndoGroup(circuit))
\* A replay may take new keys for segments that exist for a moment.
CanReplay == ~circuit.failed /\ circuit.nextKey <= ReplayKeyMax
DoUndoGroup == CanReplay /\ Return(UndoGroup(circuit))
\* Callers finish the open group before they redo.
DoRedoGroup == CanReplay /\ ~HasUngrouped(circuit.undo) /\ Return(RedoGroup(circuit))

Edit == \/ DoAddWireSegment \/ DoDrawWire \/ DoSetVisibleSelection
        \/ DoChangeInsertionMode \/ DoMoveOrDelete \/ DoMoveUnchecked \/ DoDeleteAll
        \/ DoToggleCrosspoint \/ DoRegularize \/ DoSplitBeforeInsert
Next == \/ Edit
        \/ DoDrawNothing \/ DoRetractWire
        \/ DoFinishUndoGroup \/ DoUndoGroup \/ DoRedoGroup

Spec == Init /\ [][Next]_circuit

------------------------------------------------------------------------------
(* Properties                                                                *)

\* No legal call throws: every message that the collision index gets fits, a
\* wire never gets a second input, an inverse operation finds its segments in
\* the mode it expects and free of collisions (collision_index.cpp,
\* segment_tree.cpp, edit_wire.cpp, edit_history.cpp).
WiresNeverThrow == ~circuit.failed

InsertedWires == FirstInserted .. LastWire(circuit)
EndingAt(w, p) == {k \in KeysOfWire(circuit, w) : p \in Ends(circuit.segments[k].line)}
Vertices(w)    == UNION {Ends(circuit.segments[k].line) : k \in KeysOfWire(circuit, w)}
TypesAt(w, p)  == {TypeAt(circuit.segments[k], p) : k \in EndingAt(w, p)}

\* One of the segments that meet has the end point, the others a shadow of it.
IsOneOf(type, w, p) ==
    /\ TypesAt(w, p) = {type, "shadow"}
    /\ Cardinality({k \in EndingAt(w, p) : TypeAt(circuit.segments[k], p) = type}) = 1
IsEndPointRight(w, p) ==
    LET ending == EndingAt(w, p)
        toward == {OrientationAt(circuit.segments[k].line, p) : k \in ending}
    IN /\ Cardinality(toward) = Cardinality(ending)
       /\ CASE Cardinality(ending) = 1 ->
                 TypesAt(w, p) = {IF p \in DOMAIN ItemOutputs THEN "input" ELSE "output"}
            [] Cardinality(ending) = 2 ->
                 IsOneOf("corner", w, p) /\ \A o \in toward : Opposite[o] \notin toward
            [] OTHER -> IsOneOf("cross", w, p)

\* Every inserted wire is a tree with one input at most, cut exactly where its
\* lines meet, and every end has the type that its neighbours ask for; segments
\* that are not inserted carry nothing that only an inserted one may.
TreesWellFormed ==
    /\ \A w \in InsertedWires :
         LET keys == KeysOfWire(circuit, w)
         IN /\ keys # {}
            /\ Cardinality(Vertices(w)) = Cardinality(keys) + 1
            /\ \A p \in Vertices(w) : ConnectedSegments(circuit, w, p) = keys
            /\ \A k \in keys : Inner(circuit.segments[k].line) \cap Vertices(w) = {}
            /\ \A p \in Vertices(w) : IsEndPointRight(w, p)
            /\ WireInputCount(circuit, w) <= 1
    /\ \A k \in Keys(circuit) :
         LET s == circuit.segments[k]
         IN CASE s.wire = TemporaryWire -> /\ {s.type0, s.type1} \subseteq TemporaryTypes
                                           /\ s.valid = {}
              [] s.wire = CollidingWire -> /\ {s.type0, s.type1} = {"shadow"}
                                           /\ s.valid = {}
              [] OTHER -> s.wire \in InsertedWires

\* The collision index says of every point what the layout has there, however
\* segments were cut, joined and moved between wires.
IndexMatchesLayout ==
    LET inserted == {k \in Keys(circuit) : IsInserted(circuit.segments[k])}
        Has(p, item) == {circuit.segments[k].wire : k \in {j \in inserted :
            LET items == Items(circuit.segments[j])
            IN p \in DOMAIN items /\ items[p] = item}}
        WireOf(wires) == IF wires = {} THEN NoWire ELSE Max(wires)
        Point(p, item) ==
            [element |-> item, horizontal |-> WireOf(Has(p, item)), vertical |-> WireOf(Has(p, item))]
        Expected(p) ==
            CASE Has(p, "corner") # {} -> Point(p, "corner")
              [] Has(p, "cross") # {} -> Point(p, "cross")
              [] Has(p, "connection") # {} ->
                   [ItemEntry(p) EXCEPT !.horizontal = WireOf(Has(p, "connection")),
                                        !.vertical = ConnectionTag]
              [] OTHER -> IF ItemEntry(p) # NoEntry THEN ItemEntry(p)
                          ELSE [NoEntry EXCEPT !.horizontal = WireOf(Has(p, "horizontal")),
                                               !.vertical = WireOf(Has(p, "vertical"))]
    IN \A p \in Grid : circuit.index[p] = Expected(p)

Edges(c, w) == UNION {{<<PointAt(c.segments[k].line, o), PointAt(c.segments[k].line, o + 1)>> :
                          o \in Units(0, Length(c.segments[k].line))} : k \in KeysOfWire(c, w)}
Drawing(c) == {Edges(c, w) : w \in FirstInserted .. LastWire(c)}

\* Toggling a cross point takes wires out and draws them again: no piece of a
\* wire is lost or left temporary, and toggling again connects what was
\* connected before (_add_wire_crosspoint, _remove_wire_crosspoint).
CrossPoints(c) ==
    {p \in Grid : IsWireCrossing(c.index[p]) \/ IsPoint(c.index[p], "cross")}
TogglesKeepWires == \A p \in CrossPoints(circuit) :
    \E once \in {ToggleWireCrosspoint(circuit, p)} :
        /\ UNION Drawing(once) = UNION Drawing(circuit)
        /\ Drawing(ToggleWireCrosspoint(once, p)) = Drawing(circuit)
==============================================================================
