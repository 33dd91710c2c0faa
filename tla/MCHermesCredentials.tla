------------------------ MODULE MCHermesCredentials ------------------------
(***************************************************************************)
(* Two state directories, one with two tasks, for HermesCredentials.       *)
(***************************************************************************)
EXTENDS HermesCredentials, TLC

CONSTANTS d1, d2, t3
TwoDirs == [t \in Tasks |-> IF t = t3 THEN d2 ELSE d1]
Symmetry == Permutations(Providers)
=============================================================================
