---------------------------- MODULE MCClaudeLogin ----------------------------
(***************************************************************************)
(* Small instances of ClaudeLogin.                                         *)
(***************************************************************************)
EXTENDS ClaudeLogin, TLC

Symmetry == Permutations(Homes)
=============================================================================
