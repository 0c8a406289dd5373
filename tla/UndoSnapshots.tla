---------------------------- MODULE UndoSnapshots ----------------------------
(***************************************************************************)
(* What undo and redo promise, told with snapshots of the whole circuit    *)
(* instead of inverse operations: undo returns to the circuit at the start *)
(* of the last group, redo to the one that the undo left.  This is how     *)
(* the repository's fuzz test validates them (fuzz_core, validate_undo),   *)
(* which also expects that no group is ever forgotten.                     *)
(***************************************************************************)
EXTENDS Sequences

CONSTANT EqualButAttributes(_, _)  \* compares two snapshots

VARIABLES
    present,  \* the circuit
    start,    \* the circuit when the open group began
    open,     \* whether the open group has entries
    past,     \* the starts of the finished groups, the last one first
    future    \* what redo returns to, the next one first

vars == <<present, start, open, past, future>>

Init == open = FALSE /\ start = present /\ past = <<>> /\ future = <<>>

\* An edit that leaves the group without entries has changed nothing.
Edit == /\ open' \in BOOLEAN /\ (~open' => present' = start)
        /\ UNCHANGED <<start, past, future>>

Finish == /\ open /\ open' = FALSE
          /\ start' = present /\ present' = present
          /\ past' = <<start>> \o past /\ future' = <<>>

\* Consecutive changes of attributes join one group.
ChangeAttributes == /\ EqualButAttributes(present, present')
                    /\ open' = FALSE /\ start' = present' /\ future' = <<>>
                    /\ \/ past' = <<start>> \o past
                       \/ ~open /\ past # <<>> /\ past' = past

\* A group that leads back to where it began may be forgotten: performing its
\* entries backwards may leave no entry on the other stack.
UndoOpenGroup == /\ open /\ open' = FALSE
                 /\ present' = start /\ start' = start
                 /\ past' = past
                 /\ \/ future' = <<present>>
                    \/ present' = present /\ future' = <<>>

\* Finished groups stay, and nothing can be redone.
Retract == /\ open' = FALSE
           /\ present' = start /\ UNCHANGED <<start, past>>
           /\ future' = <<>>

Undo == /\ ~open /\ open' = FALSE
        /\ past # <<>> /\ past' = Tail(past)
        /\ present' = Head(past) /\ start' = present'
        /\ \/ future' = <<present>> \o future
           \/ present' = present /\ future' = future

Redo == /\ ~open /\ open' = FALSE
        /\ future # <<>> /\ future' = Tail(future)
        /\ present' = Head(future) /\ start' = present'
        /\ \/ past' = <<present>> \o past
           \/ present' = present /\ past' = past

Next == Edit \/ Finish \/ ChangeAttributes \/ UndoOpenGroup \/ Retract \/ Undo \/ Redo

Spec == Init /\ [][Next]_vars
==============================================================================
