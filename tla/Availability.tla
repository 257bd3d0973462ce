----------------------------- MODULE Availability -----------------------------
(***************************************************************************)
(* GET /api/v1/rooms/availability/, beside the requests of Provisioning.   *)
(*                                                                         *)
(* Sources: apps/rooms/services.py (availability, configured,              *)
(* capacity_error), apps/meetings/views.py (AvailabilityView.get).         *)
(*                                                                         *)
(* The rooms are listed once and then looked at one after the other, with  *)
(* one query for the reservations and one for the provider limit of each.  *)
(* No transaction encloses the queries and nothing is locked, so every     *)
(* query sees what has been committed by then.                             *)
(***************************************************************************)
EXTENDS ProvisioningRefinement

VARIABLE query   \* the availability request being served

allVars == <<vars, query>>

NoQuery == [at |-> "idle", slot |-> NoSlot, rooms |-> {}, usable |-> {},
            answer |-> FALSE, changed |-> FALSE, truth |-> {}]

----------------------------------------------------------------------------
\* Defect: the reservations of meetings whose attempt failed are not looked at.
TakenUnlessFailed(r, slot) == SlotTakenUnlessFailed(NoMeeting, r, Interval(slot))

\* capacity_error's first query; no meeting is left out.
Taken(r, slot) == SlotTaken(NoMeeting, r, Interval(slot))

\* The slots some room could be allocated for at this moment.
Allocatable == {q.slot : q \in {p \in Requests :
                                \E r \in Rooms : Eligible(NoMeeting, r, p.slot)}}

\* Everything the answer depends on.
Situation == [held    |-> [m \in Meetings |-> BookingOf(row[m])],
              counted |-> {m \in Meetings : row[m].status \in CountedStatuses},
              usable  |-> {r \in Rooms : offer[r] \in Presets}]

\* The rooms are left in the order they were listed in.
AtRoom(r) == /\ r \in query.rooms
             /\ \A s \in query.rooms : Rank[r] <= Rank[s]

Ask(slot) ==
    /\ query.at = "idle"
    /\ query' = [NoQuery EXCEPT
            !.at = "room", !.slot = slot,
            !.rooms = {r \in Rooms : offer[r] # "inactive"},
            !.usable = {r \in Rooms : offer[r] \in Presets},
            !.truth = {(slot \in Allocatable)}]

\* configured(): the fields of the room are those of the listing, the presets
\* are read now.
SeenUsable(r) == {(r \in query.usable), (offer[r] \in Presets)}

Configured(r) ==
    /\ query.at = "room" /\ AtRoom(r)
    /\ TRUE \in SeenUsable(r)
    /\ query' = [query EXCEPT !.at = "reservations"]

NotConfigured(r) ==
    /\ query.at = "room" /\ AtRoom(r)
    /\ FALSE \in SeenUsable(r)
    /\ query' = [query EXCEPT !.rooms = @ \ {r}]

Answered(yes) == query' = [query EXCEPT !.at = "answered", !.rooms = {},
                                        !.usable = {}, !.answer = yes]

NextAfter(r) == query' = [query EXCEPT !.at = "room", !.rooms = @ \ {r}]

CheckReservations(r) ==
    /\ query.at = "reservations" /\ AtRoom(r)
    /\ \/ Taken(r, query.slot) /\ NextAfter(r)
       \/ /\ ~Taken(r, query.slot)
          /\ IF Limit[r] = NoLimit
             THEN Answered(TRUE)
             ELSE query' = [query EXCEPT !.at = "limit"]

CheckLimit(r) ==
    /\ query.at = "limit" /\ AtRoom(r)
    /\ \/ CapReached(r) /\ NextAfter(r)
       \/ ~CapReached(r) /\ Answered(TRUE)

NoRoomLeft ==
    /\ query.at = "room" /\ query.rooms = {}
    /\ Answered(FALSE)

QueryEnds == query.at = "answered" /\ query' = NoQuery

----------------------------------------------------------------------------
(***************************************************************************)
(* Book-keeping for the property: whether the situation changed while the  *)
(* query ran, and which answers were true meanwhile.  Of a query during    *)
(* which it changes again nothing is claimed, and it is followed no longer.*)
(***************************************************************************)
Observed ==
    IF query.at \in {"idle", "answered"} \/ Situation' = Situation THEN query
    ELSE IF query.changed THEN NoQuery
    ELSE [query EXCEPT !.changed = TRUE,
                       !.truth = @ \cup {(query.slot \in Allocatable')}]

AvailabilityInit == Init /\ query = NoQuery

Serve ==
    \/ \E q \in Requests : Ask(q.slot)
    \/ \E r \in Rooms : \/ Configured(r) \/ NotConfigured(r)
                        \/ CheckReservations(r) \/ CheckLimit(r)
    \/ NoRoomLeft
    \/ QueryEnds

\* The answer leaves at once: nothing that happens before it does matters.
AvailabilityNext == \/ Serve /\ UNCHANGED vars
                    \/ query.at # "answered" /\ Next /\ query' = Observed

AvailabilitySpec == AvailabilityInit /\ [][AvailabilityNext]_allVars

\* Although it reads room by room and query by query while meetings are
\* allocated, released and rooms reconfigured, availability() gives an answer
\* that was true at some moment of the request, unless what it depends on
\* changed twice or more meanwhile.
AnswerWasTrue == query.at = "answered" => query.answer \in query.truth

----------------------------------------------------------------------------
(***************************************************************************)
(* The inductive invariant, used by the proof.  Nothing remembers what the *)
(* rooms were like before the situation changed, nor need it: one change   *)
(* takes capacity or gives capacity and never does both, so what was seen  *)
(* before it is true of now, or what is seen after it was true before.     *)
(***************************************************************************)
Usable == {r \in Rooms : offer[r] \in Presets}

\* The room has capacity for what is asked, whether or not it is configured.
Free(r) == ~Taken(r, query.slot) /\ ~CapReached(r)

Looking == query.at \in {"room", "reservations", "limit"}

\* While nothing changed, no room that can be allocated was passed over.
Undisturbed ==
    /\ query.usable = Usable
    /\ query.truth = {(query.slot \in Allocatable)}
    /\ Usable \cap {r \in Rooms : Free(r)} \subseteq query.rooms

\* After a change, an answer that was never true is out of reach: a room is left
\* that could be allocated all the time, or none that is seen as usable could be.
Disturbed ==
    /\ FALSE \in query.truth
       \/ \E r \in query.rooms \cap query.usable \cap Usable : Free(r)
    /\ TRUE \in query.truth
       \/ \A r \in query.usable \cup Usable : ~Free(r)

\* What the queries about the room being looked at have found.
Found(r) ==
    /\ query.at \in {"reservations", "limit"} => r \in query.usable \cup Usable
    /\ query.at = "limit" => \/ ~Taken(r, query.slot)
                             \/ query.changed /\ TRUE \in query.truth
                             \/ query.changed /\ CapReached(r)

Queries == [at : {"idle", "room", "reservations", "limit", "answered"},
            slot : [start : Nat, end : Nat],
            rooms : SUBSET Rooms, usable : SUBSET Rooms,
            answer : BOOLEAN, changed : BOOLEAN, truth : SUBSET BOOLEAN]

QueryInv ==
    /\ query \in Queries
    /\ AnswerWasTrue
    /\ Looking => /\ query.slot \in {q.slot : q \in Requests}
                  /\ IF query.changed THEN Disturbed ELSE Undisturbed
                  /\ \A r \in Rooms : AtRoom(r) => Found(r)

\* The provider counts finitely many meetings, however many classes there may be.
FinitelyMany == IsFiniteSet({m \in Meetings : row[m].status \in CountedStatuses})
=============================================================================
