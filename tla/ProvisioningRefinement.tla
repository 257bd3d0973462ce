------------------------ MODULE ProvisioningRefinement ------------------------
(***************************************************************************)
(* Provisioning implements ClassMeetings, as long as operators wait for    *)
(* the request that is creating a meeting before they reconcile its row.   *)
(***************************************************************************)
EXTENDS Provisioning

NoBooking == [room |-> NoRoom, span |-> NoSlot]

\* Where a stored status puts the creation of a class.  A row the stale-row task
\* flagged, or an operator has to look at, is still being tried: its meeting
\* may exist.
PhaseOf(status) ==
    CASE status \in {"ABSENT", "DRAFT"} -> "new"
      [] status \in {"RESERVED", "PROVISIONING", "PROVIDER_STATE_UNKNOWN",
                     "PROVIDER_RESPONSE_INVALID"} -> "trying"
      [] status = "RETRYABLE_FAILED" -> "waiting"
      [] status \in {"READY", "LIVE"} -> "ready"
      [] OTHER -> "closed"

BookingOf(r) == IF r.active THEN [room |-> r.room, span |-> r.reservation]
                            ELSE NoBooking

\* Some transmission, awaited or not, may still create a meeting.
Undecided(m) ==
    \/ orphans[m] > 0
    \/ \E w \in Workers : pc[w] = "sent" /\ job[w].meeting = m /\ job[w].cal = 0

Promised == INSTANCE ClassMeetings WITH
    Bookings <- [room : Rooms, span : {Interval(q.slot) : q \in Requests}],
    NoBooking <- NoBooking,
    phase    <- [m \in Meetings |-> PhaseOf(row[m].status)],
    booking  <- [m \in Meetings |-> BookingOf(row[m])],
    pending  <- [m \in Meetings |-> Undecided(m)],
    made     <- created,
    running  <- [m \in Meetings |-> live[m] # {}]

\* Requests, retries, crashes, the stale-row task and operators together do what
\* the abstract class meeting may do and nothing else: they ask the provider
\* only when nothing was or may be created, never exchange a booking, and
\* release it only when nothing was created or no meeting of the class runs.
Promise == Promised!Spec
=============================================================================
