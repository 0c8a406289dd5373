---------------------- MODULE CircuitHistoryRefinement ----------------------
(***************************************************************************)
(* CircuitHistory implements UndoSnapshots.  A history variable records    *)
(* the circuit when a group is finished, as the repository's fuzz test     *)
(* does (fuzz_core, validate_undo), and undo and redo have to come back to *)
(* what was recorded.                                                      *)
(***************************************************************************)
EXTENDS CircuitHistory

VARIABLE snapshots

WithoutAttributes(s) ==
    {[e EXCEPT !.item.def = e.item.def.inverted] : e \in s.elements}
EqualButAttributes(s1, s2) == WithoutAttributes(s1) = WithoutAttributes(s2)

Rest(s) == SubSeq(s, 2, Len(s))
RecordStart(past, future) ==
    snapshots' = [start |-> Snapshot(circuit'), past |-> past, future |-> future]

RecordedInit ==
    /\ Init
    /\ snapshots = [start |-> Snapshot(circuit), past |-> <<>>, future |-> <<>>]

RecordedFinish ==
    /\ DoFinishUndoGroup
    /\ IF HasUngrouped(circuit.undo)
       THEN RecordStart(<<snapshots.start>> \o snapshots.past, <<>>)
       ELSE UNCHANGED snapshots

RecordedChangeAttributes ==
    /\ DoChangeSettingAttributes
    /\ RecordStart((IF ReopensGroup(circuit) THEN <<>> ELSE <<snapshots.start>>)
                       \o snapshots.past, <<>>)

\* The snapshot that a replay leaves, if it has put a group on the other stack.
IfPushed(before, after, snapshot) == IF after = before THEN <<>> ELSE <<snapshot>>

RecordedUndo ==
    /\ DoUndoGroup
    /\ CASE HasUngrouped(circuit.undo) ->
              RecordStart(snapshots.past,
                          IfPushed(<<>>, circuit'.redo, Snapshot(circuit)))
         [] circuit.undo = <<>> -> UNCHANGED snapshots
         [] OTHER ->
              RecordStart(Rest(snapshots.past),
                          IfPushed(circuit.redo, circuit'.redo, snapshots.start)
                              \o snapshots.future)

RecordedRedo ==
    /\ DoRedoGroup
    /\ IF circuit.redo = <<>> THEN UNCHANGED snapshots
       ELSE RecordStart(IfPushed(circuit.undo, circuit'.undo, snapshots.start)
                            \o snapshots.past, Rest(snapshots.future))

RecordedNext ==
    \/ Edit /\ UNCHANGED snapshots
    \/ RecordedFinish
    \/ RecordedChangeAttributes
    \/ RecordedUndo
    \/ RecordedRedo

RecordedSpec == RecordedInit /\ [][RecordedNext]_<<circuit, snapshots>>

Undoing == INSTANCE UndoSnapshots WITH
    present <- Snapshot(circuit),
    start   <- snapshots.start,
    open    <- HasUngrouped(circuit.undo),
    past    <- snapshots.past,
    future  <- snapshots.future

\* Undo restores the circuit as it was at the start of the group, whatever was
\* edited in between and however the entries were compressed, and redo restores
\* what was undone; an edit that leaves no entry has changed nothing, and only
\* finishing a group forgets what was undone.
ImplementsUndoSnapshots == Undoing!Spec

Groups(c) == Len(SelectSeq(c.undo \o c.redo, IsNewGroup))

\* Undo moves the last finished group to the other stack, so that no group is
\* lost: what validate_redo of the fuzz test expects of the redo stack.
UndoKeepsGroups ==
    [][DoUndoGroup /\ ~HasUngrouped(circuit.undo)
           => Groups(circuit') = Groups(circuit)]_circuit
==============================================================================
