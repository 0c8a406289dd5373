------------------------ MODULE SimulationRefinement ------------------------
(***************************************************************************)
(* The simulation implements the synchronous machine.  While the groups of *)
(* a time point are processed one by one, the abstract machine already     *)
(* shows the time point as complete: the mapping finishes what is left of  *)
(* it, all elements at once.  That processing a group changes nothing in   *)
(* this picture says that the order of the elements does not matter.       *)
(***************************************************************************)
EXTENDS Simulation

Due == {ev \in events : ev.time = time}
Touched == {ev.input[1] : ev \in Due}

CompletedInput == InputAfter(Due)

CompletedState ==
    [e \in Element |-> IF e \in Touched
                       THEN StateAfter(e, CompletedInput)[e] ELSE state[e]]

CompletedEvents ==
    (events \ Due) \cup
    UNION {EventsAfter(e, CompletedInput, CompletedState) : e \in Touched}

Synchronous ==
    INSTANCE SynchronousCircuit WITH input  <- CompletedInput,
                                     state  <- CompletedState,
                                     events <- CompletedEvents

\* Every behaviour of the event loop is one of the synchronous machine.
ImplementsSynchronousCircuit == Synchronous!Spec
=============================================================================
