---------------------------- MODULE MCAvailability ----------------------------
(***************************************************************************)
(* Small instances of Availability, with the constants of MCProvisioning.  *)
(***************************************************************************)
EXTENDS MCProvisioning, Availability

\* A call succeeds, fails before it is sent (the token lock is busy), or is lost.
OkAnswer == {Accepted}

\* The first room has a provider limit of its own.
FirstLimited == (r1 :> 1) @@ (r2 :> NoLimit)

MeetingSymmetry == Permutations(Meetings)
=============================================================================
