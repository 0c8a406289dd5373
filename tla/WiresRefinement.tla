--------------------------- MODULE WiresRefinement ---------------------------
(***************************************************************************)
(* Wires implements UndoSnapshots: what a user sees of the wires comes     *)
(* back with undo and redo, although segments were cut, joined and moved   *)
(* between wires that changed their ids.                                   *)
(***************************************************************************)
EXTENDS Wires

VARIABLE snapshots

\* The id of a wire, and which of the segments that meet at a point holds its
\* corner or cross point, may differ.
SegmentSnapshot(c, k) ==
    LET s == c.segments[k]
    IN [key |-> k, line |-> s.line, valid |-> s.valid, selected |-> s.selected,
        wire  |-> Min({s.wire, FirstInserted}),
        types |-> IF IsInserted(s) THEN <<>> ELSE <<s.type0, s.type1>>]
Snapshot(c) ==
    LET inserted == {k \in Keys(c) : IsInserted(c.segments[k])}
    IN [segments |-> {SegmentSnapshot(c, k) : k \in Keys(c)},
        trees    |-> {KeysOfWire(c, c.segments[k].wire) : k \in inserted},
        points   |-> UNION {{<<p, TypeAt(c.segments[k], p)>> :
                              p \in Ends(c.segments[k].line)} : k \in inserted}]

Equal(s1, s2) == s1 = s2
Rest(s) == SubSeq(s, 2, Len(s))
RecordStart(past, future) ==
    snapshots' = [start |-> Snapshot(circuit'), past |-> past, future |-> future]

RecordedInit ==
    /\ Init
    /\ snapshots = [start |-> Snapshot(circuit), past |-> <<>>, future |-> <<>>]

RecordedFinish ==
    /\ DoFinishUndoGroup
    /\ IF HasUngrouped(circuit.undo)
       THEN RecordStart(<<snapshots.start>> \o snapshots.past, <<>>)
       ELSE UNCHANGED snapshots

RecordedUndo ==
    /\ DoUndoGroup
    /\ CASE HasUngrouped(circuit.undo) ->
              RecordStart(snapshots.past, <<Snapshot(circuit)>>)
         [] circuit.undo = <<>> -> UNCHANGED snapshots
         [] OTHER -> RecordStart(Rest(snapshots.past),
                                 <<snapshots.start>> \o snapshots.future)

RecordedRedo ==
    /\ DoRedoGroup
    /\ IF circuit.redo = <<>> THEN UNCHANGED snapshots
       ELSE RecordStart(<<snapshots.start>> \o snapshots.past, Rest(snapshots.future))

\* Nothing was drawn, or it was taken back: only what redo returns to is lost.
RecordedRetract ==
    /\ DoDrawNothing \/ DoRetractWire
    /\ snapshots' = [snapshots EXCEPT !.future = <<>>]

RecordedNext ==
    \/ Edit /\ UNCHANGED snapshots
    \/ RecordedRetract
    \/ RecordedFinish
    \/ RecordedUndo
    \/ RecordedRedo

RecordedSpec == RecordedInit /\ [][RecordedNext]_<<circuit, snapshots>>

Undoing == INSTANCE UndoSnapshots WITH
    EqualButAttributes <- Equal,
    present <- Snapshot(circuit),
    start   <- snapshots.start,
    open    <- HasUngrouped(circuit.undo),
    past    <- snapshots.past,
    future  <- snapshots.future

\* Undo restores lines, trees, types of points, modes and the selection as they
\* were at the start of the group, and redo what was undone; taking back a wire
\* that is being drawn leaves no trace but an empty redo stack.
WiresImplementUndoSnapshots == Undoing!Spec
==============================================================================
