-------------------------- MODULE MCPageRevisions --------------------------
(* Instances of PageRevisions for TLC: which handlers an instance runs.     *)
EXTENDS PageRevisions, TLC

Symmetry == Permutations(Clients)

EveryHandler    == AllHandlers
GuardedHandlers == {"update", "candidate", "gc"}
EditorHandlers  == {"update"}
RestoreAndCollect == {"update", "restore", "gc"}
=============================================================================
