-------------------------- MODULE MCWindowThreads --------------------------
(* A user with two files, of which one exists, and two circuits to draw.     *)
EXTENDS WindowThreads

MCCircuits == {"empty", "example", "c1", "c2"}
MCEdited == {"empty", "c1", "c2"}
MCFiles == {"f1", "f2"}
MCInitialDisk == [f1 |-> "c1", f2 |-> "absent"]
MCInputKinds == {"move", "press"}
MCCombinedKinds == {"move"}
MCEditKinds == {"press"}
==============================================================================
