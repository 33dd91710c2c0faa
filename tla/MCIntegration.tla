---------------------------- MODULE MCIntegration ----------------------------
(***************************************************************************)
(* Small instances of Integration.                                         *)
(***************************************************************************)
EXTENDS Integration, TLC

Symmetry == Permutations(Tasks)
=============================================================================
