--------------------------- MODULE MCTaskLifecycle ---------------------------
(***************************************************************************)
(* Small instances of TaskLifecycle.                                       *)
(***************************************************************************)
EXTENDS TaskLifecycle, TLC

Symmetry == Permutations(Procs) \union Permutations(Tasks)
=============================================================================
