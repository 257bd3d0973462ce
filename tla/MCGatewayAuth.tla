--------------------------- MODULE MCGatewayAuth ---------------------------
(***************************************************************************)
(* Small instances of GatewayAuth for TLC.                                 *)
(***************************************************************************)
EXTENDS GatewayAuth, TLC

CONSTANTS w1, w2, a1, a2, lms

WorkerSymmetry == Permutations(Workers) \cup Permutations(Admins)
=============================================================================
