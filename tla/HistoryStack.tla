---------------------------- MODULE HistoryStack ----------------------------
(***************************************************************************)
(* The undo and the redo stack of an editable circuit, and the replay of   *)
(* one group of their entries.  A circuit is a record that has the fields  *)
(* history, undo, redo and failed; what else it holds, and what an entry   *)
(* means, is up to the module that uses this one: it gives the operator    *)
(* Replay that performs an entry.  An exception sets failed.               *)
(* An operator whose comment starts with "Fault" is a faulty variant of    *)
(* the one that follows it.                                                *)
(***************************************************************************)
EXTENDS Integers, Sequences, SequencesExt

Fail(c) == [c EXCEPT !.failed = TRUE]

IsNewGroup(e) == e.type = "new_group"
Entry(type, key) == [type |-> type, key |-> key]

HasUngrouped(s) == s # <<>> /\ ~IsNewGroup(Last(s))
PushNewGroup(s) == IF HasUngrouped(s) THEN Append(s, [type |-> "new_group"]) ELSE s
ReopenGroup(s)  == SubSeq(s, 1, SelectLastInSeq(s, LAMBDA e : ~IsNewGroup(e)))

\* The stack that edits push to: get_stack.
Tracked(c) == IF c.history = "track_redo_replay" THEN "redo" ELSE "undo"
Record(c, Push(_)) ==
    IF c.history = "disabled" THEN c ELSE [c EXCEPT ![Tracked(c)] = Push(@)]
PushEntries(c, entries) == Record(c, LAMBDA s : s \o entries)
PushEntry(c, e) == PushEntries(c, <<e>>)

\* A loop over the members of s.
ForEach(c, s, Step(_, _)) ==
    LET done[i \in 0 .. Len(s)] == IF i = 0 THEN c ELSE Step(done[i - 1], s[i])
    IN done[Len(s)]

FinishReplay(c) ==
    [c EXCEPT ![Tracked(c)] = PushNewGroup(@), !.history = "track_undo_new"]
ReplayOneGroup(c, name, Replay(_, _)) ==
    LET s     == Front(c[name])
        start == SelectLastInSeq(s, IsNewGroup)
        popped == [c EXCEPT ![name] = SubSeq(s, 1, start),
                            !.history = IF name = "undo" THEN "track_redo_replay"
                                        ELSE "track_undo_replay"]
    IN FinishReplay(ForEach(popped, Reverse(SubSeq(s, start + 1, Len(s))), Replay))

ReplayStack(c, name, Replay(_, _)) ==
    CASE \/ c.history # "track_undo_new"
         \/ HasUngrouped(c.undo)
         \/ HasUngrouped(c.redo) -> Fail(c)
      [] OTHER -> IF c[name] = <<>> THEN c ELSE ReplayOneGroup(c, name, Replay)

FinishUndoGroup(c) ==
    IF c.history = "track_undo_new" /\ HasUngrouped(c.undo)
    THEN [c EXCEPT !.undo = PushNewGroup(@), !.redo = <<>>] ELSE c
ClearRedo(c) == [c EXCEPT !.redo = <<>>]
==============================================================================
