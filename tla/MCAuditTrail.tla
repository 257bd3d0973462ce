----------------------------- MODULE MCAuditTrail -----------------------------
(***************************************************************************)
(* Small instances of AuditTrail, with the constants of MCProvisioning.    *)
(***************************************************************************)
EXTENDS MCProvisioning, AuditTrail
=============================================================================
