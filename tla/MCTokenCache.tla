---------------------------- MODULE MCTokenCache ----------------------------
(***************************************************************************)
(* Small instances of TokenCache for TLC.                                  *)
(***************************************************************************)
EXTENDS TokenCache, TLC

CONSTANTS c1, c2, a1, a2

CallerSymmetry == Permutations(Callers) \cup Permutations(Admins)
=============================================================================
