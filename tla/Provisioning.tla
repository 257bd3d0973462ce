---------------------------- MODULE Provisioning ----------------------------
(***************************************************************************)
(* POST /api/v1/meetings/ from the registration of a class to the stored   *)
(* outcome of the provider call, with everything that runs against it: the *)
(* other requests, the stale-provisioning task, operators in Admin, crashes*)
(* and the provider itself.                                                *)
(*                                                                         *)
(* Sources: apps/meetings/services.py (register, provision, cancel),       *)
(* apps/meetings/views.py (MeetingListView.post), apps/rooms/services.py   *)
(* (RoomAllocator), apps/meetings/tasks.py, apps/meetings/admin.py.        *)
(*                                                                         *)
(* A step is a database transaction, an HTTP exchange, or one iteration of *)
(* the allocation loop.  A worker in "alloc" is inside its first           *)
(* transaction and holds the row lock of its meeting.                      *)
(***************************************************************************)
EXTENDS ConvayClient, FiniteSets

CONSTANTS
    Meetings,        \* (integration_client, external_class_id) pairs
    Rooms,           \* Room rows
    Workers,         \* requests the web processes serve at the same time
    Requests,        \* validated request bodies: [info, date, slot]
    NoMeeting, NoRoom,
    Rank,            \* position in ORDER BY priority, public_id
    Limit,           \* provider_active_meeting_limit, or NoLimit
    NoLimit,
    Presets,         \* instant provider payloads an administrator may configure
    RoomFaults,      \* the ways a room may be taken out of service in this run
    BufferBefore, BufferAfter, DayLength,
    StartExchanges,  \* answers to start-meeting this run considers
    AuthExchanges,   \* answers to authenticate this run considers
    LegacyStatuses,  \* statuses rows of older releases may have at the start
    OperatorsWait    \* operators reconcile only settled meetings

NoSlot == [start |-> 0, end |-> 0]

ASSUME ConstantsAssumption ==
    /\ NoMeeting \notin Meetings
    /\ NoRoom \notin Rooms
    /\ \A q \in Requests : /\ q.date \in Nat
                           /\ q.slot \in [start : Nat, end : Nat]
                           /\ q.slot.start < q.slot.end
                           /\ q = [info |-> q.info, date |-> q.date, slot |-> q.slot]
    /\ Rank \in [Rooms -> Nat]
    /\ \A r, s \in Rooms : Rank[r] = Rank[s] => r = s
    /\ Limit \in [Rooms -> Nat \cup {NoLimit}]
    /\ NoLimit \notin Nat
    /\ RoomFaults \subseteq {"inactive", "unusable"}
    /\ Presets \cap {"inactive", "unusable", "none"} = {}
    /\ BufferBefore \in Nat /\ BufferAfter \in Nat
    /\ DayLength \in Nat \ {0}
    /\ StartExchanges \subseteq Exchanges
    /\ AuthExchanges \subseteq Exchanges
    /\ LegacyStatuses \subseteq {"DRAFT", "FAILED"}
    /\ OperatorsWait \in BOOLEAN

VARIABLES
    row,      \* the meetings table
    offer,    \* per room: its resolved instant payload, or why it has none
    pc, job,  \* per worker: where its request is, and its local variables
    created,  \* per meeting: how many Convay meetings were created for it
    live,     \* per meeting: which of them are still running
    orphans   \* per meeting: transmissions nobody waits for, still undecided

vars == <<row, offer, pc, job, created, live, orphans>>

----------------------------------------------------------------------------
(***************************************************************************)
(* Rows.  A row that does not exist has status "ABSENT".                   *)
(***************************************************************************)
Statuses == {"DRAFT", "RESERVED", "PROVISIONING", "READY", "LIVE", "ENDED",
             "CANCELLED", "FAILED", "RETRYABLE_FAILED", "NON_RETRYABLE_FAILED",
             "PROVIDER_RESPONSE_INVALID", "PROVIDER_STATE_UNKNOWN"}

AbsentRow == [status |-> "ABSENT", info |-> "none", date |-> 0,
              slot |-> NoSlot, room |-> NoRoom, reservation |-> NoSlot,
              active |-> FALSE, payload |-> "none", calendar |-> 0,
              url |-> FALSE, error |-> "NONE"]

\* The defaults register() gives a new row.
NewRow(q) == [AbsentRow EXCEPT !.status = "DRAFT", !.info = q.info,
                               !.date = q.date, !.slot = q.slot]

\* A row registered before start and end times were required.
LegacyRow(status, q) ==
    [AbsentRow EXCEPT !.status = status, !.info = q.info, !.date = q.date]

\* Defect: only date and times are compared.
SameRequestAnyInfo(r, q) ==
    /\ r.date = q.date
    /\ r.slot # NoSlot => r.slot = q.slot

\* register() compares start_at and end_at only where the row has them.
SameRequest(r, q) ==
    /\ r.info = q.info
    /\ r.date = q.date
    /\ r.slot # NoSlot => r.slot = q.slot

----------------------------------------------------------------------------
(***************************************************************************)
(* Capacity (apps/rooms/services.py)                                       *)
(***************************************************************************)
\* Defect: the buffer after the class is forgotten.
IntervalNoBufferAfter(slot) == [start |-> slot.start - BufferBefore,
                                end   |-> slot.end]

Interval(slot) == [start |-> slot.start - BufferBefore,
                   end   |-> slot.end + BufferAfter]

Overlap(a, b) == a.start < b.end /\ b.start < a.end

\* Defect: a failed meeting waiting for its retry is not counted.
SlotTakenUnlessFailed(m, r, slot) ==
    \E n \in Meetings \ {m} :
        /\ row[n].active /\ row[n].status # "RETRYABLE_FAILED"
        /\ row[n].room = r /\ Overlap(row[n].reservation, slot)

\* The exclusion constraint, and capacity_error's first query: some other
\* meeting holds the room at an overlapping time.
SlotTaken(m, r, slot) ==
    \E n \in Meetings \ {m} :
        row[n].active /\ row[n].room = r /\ Overlap(row[n].reservation, slot)

\* The constraints of the table: a held reservation is complete and overlaps no
\* other one.
Storable(m, r) ==
    r.active => /\ r.room # NoRoom /\ r.slot # NoSlot
                /\ ~SlotTaken(m, r.room, r.reservation)

CountedStatuses == {"RESERVED", "PROVISIONING", "READY", "LIVE",
                    "PROVIDER_RESPONSE_INVALID", "PROVIDER_STATE_UNKNOWN"}

CapReached(r) ==
    /\ Limit[r] # NoLimit
    /\ Cardinality({n \in Meetings : row[n].room = r
                                     /\ row[n].status \in CountedStatuses})
            >= Limit[r]

\* Defect: the room is not looked at again under its lock.
EligibleAsListed(m, r, slot) ==
    /\ ~SlotTaken(m, r, Interval(slot))
    /\ ~CapReached(r)

\* reserve_specific_room: the room is active, configured, and has capacity.
Eligible(m, r, slot) ==
    /\ offer[r] \in Presets
    /\ ~SlotTaken(m, r, Interval(slot))
    /\ ~CapReached(r)

----------------------------------------------------------------------------
(***************************************************************************)
(* Workers                                                                 *)
(***************************************************************************)
PCs == {"idle", "claim", "alloc", "auth", "sent", "error", "save", "token",
        "done"}

NoRequest == [info |-> "none", date |-> 0, slot |-> NoSlot]

IdleJob == [meeting |-> NoMeeting, request |-> NoRequest, made |-> FALSE,
            retrying |-> FALSE, attempt |-> 1, rooms |-> {}, room |-> NoRoom,
            cal |-> 0, out |-> Success, answer |-> "none"]

\* Between the first transaction and the one that stores the outcome.
Engaged(w) == pc[w] \in {"auth", "sent", "error", "save"}

\* Some worker is inside the transaction that holds m's row lock.
Locked(m) == \E w \in Workers : pc[w] = "alloc" /\ job[w].meeting = m

\* The request that was creating m's Convay meeting has finished.  What it sent
\* may be undecided still, if it got no answer: nobody can see that.
Settled(m) == \A w \in Workers : Engaged(w) => job[w].meeting # m

Goto(w, label) == pc' = [pc EXCEPT ![w] = label]

\* The response leaves; of the worker's state only what it answered is kept.
Answer(w, code) ==
    /\ Goto(w, "done")
    /\ job' = [job EXCEPT ![w] = [IdleJob EXCEPT !.meeting = job[w].meeting,
                                                 !.request = job[w].request,
                                                 !.answer = code]]

SuccessAnswer(w) == IF job[w].made THEN "CREATED" ELSE "OK"

Begin(w, m, q, made) ==
    /\ Goto(w, "claim")
    /\ job' = [job EXCEPT ![w] = [IdleJob EXCEPT !.meeting = m, !.request = q,
                                                 !.made = made]]

provider == <<created, live, orphans>>

Init ==
    /\ row \in [Meetings -> {AbsentRow} \cup
                    {LegacyRow(s, q) : s \in LegacyStatuses, q \in Requests}]
    /\ offer \in [Rooms -> Presets \cup RoomFaults]
    /\ pc = [w \in Workers |-> "idle"]
    /\ job = [w \in Workers |-> IdleJob]
    /\ created = [m \in Meetings |-> 0]
    /\ live = [m \in Meetings |-> {}]
    /\ orphans = [m \in Meetings |-> 0]

----------------------------------------------------------------------------
(***************************************************************************)
(* register(): get_or_create, then the unlocked comparison with the stored *)
(* request.                                                                *)
(***************************************************************************)
RegisterNew(w, m, q) ==
    /\ pc[w] = "idle"
    /\ row[m].status = "ABSENT"
    /\ row' = [row EXCEPT ![m] = NewRow(q)]
    /\ Begin(w, m, q, TRUE)
    /\ UNCHANGED <<offer, provider>>

RegisterExisting(w, m, q) ==
    /\ pc[w] = "idle"
    /\ row[m].status # "ABSENT"
    /\ SameRequest(row[m], q)
    /\ Begin(w, m, q, FALSE)
    /\ UNCHANGED <<row, offer, provider>>

RegisterMismatch(w, m, q) ==
    /\ pc[w] = "idle"
    /\ row[m].status # "ABSENT"
    /\ ~SameRequest(row[m], q)
    /\ Goto(w, "done")
    /\ job' = [job EXCEPT ![w] = [IdleJob EXCEPT
                    !.meeting = m, !.request = q,
                    !.answer = "EXISTING_MEETING_MISMATCH"]]
    /\ UNCHANGED <<row, offer, provider>>

(***************************************************************************)
(* provision(), first transaction, up to the choice of a room.             *)
(***************************************************************************)
Replayed == {"READY", "LIVE"}

\* Defect: an outcome that is unknown does not stop another creation.
RefusalUnlessUnknown(r, q) ==
    CASE r.status \in {"RESERVED", "PROVISIONING"} -> "CREATION_IN_PROGRESS"
      [] r.status = "PROVIDER_RESPONSE_INVALID"
            -> "PROVIDER_RECONCILIATION_REQUIRED"
      [] r.status = "ENDED" -> "CLASS_ALREADY_COMPLETED"
      [] r.status \in {"NON_RETRYABLE_FAILED", "FAILED"}
            -> "PREVIOUS_CREATION_FAILED"
      [] r.status = "CANCELLED" -> "CLASS_CANCELLED"
      [] OTHER -> IF q.slot.start \div DayLength # r.date
                  THEN "CLASS_DATE_MISMATCH" ELSE "none"

\* Defect: the start is not compared with the class date.
RefusalAnyDate(r, q) ==
    CASE r.status \in {"RESERVED", "PROVISIONING"} -> "CREATION_IN_PROGRESS"
      [] r.status \in {"PROVIDER_STATE_UNKNOWN", "PROVIDER_RESPONSE_INVALID"}
            -> "PROVIDER_RECONCILIATION_REQUIRED"
      [] r.status = "ENDED" -> "CLASS_ALREADY_COMPLETED"
      [] r.status \in {"NON_RETRYABLE_FAILED", "FAILED"}
            -> "PREVIOUS_CREATION_FAILED"
      [] r.status = "CANCELLED" -> "CLASS_CANCELLED"
      [] OTHER -> "none"

\* The GatewayError provision() raises for a row, or "none".
Refusal(r, q) ==
    CASE r.status \in {"RESERVED", "PROVISIONING"} -> "CREATION_IN_PROGRESS"
      [] r.status \in {"PROVIDER_STATE_UNKNOWN", "PROVIDER_RESPONSE_INVALID"}
            -> "PROVIDER_RECONCILIATION_REQUIRED"
      [] r.status = "ENDED" -> "CLASS_ALREADY_COMPLETED"
      [] r.status \in {"NON_RETRYABLE_FAILED", "FAILED"}
            -> "PREVIOUS_CREATION_FAILED"
      [] r.status = "CANCELLED" -> "CLASS_CANCELLED"
      [] OTHER ->
            IF r.status = "RETRYABLE_FAILED" /\ (r.calendar # 0 \/ r.url)
            THEN "PROVIDER_RECONCILIATION_REQUIRED"
            ELSE IF q.slot.start \div DayLength # r.date
            THEN "CLASS_DATE_MISMATCH"
            ELSE "none"

\* A retry whose reservation is still held goes on with it.
Resumes(r) == r.status = "RETRYABLE_FAILED" /\ r.active /\ r.room # NoRoom

AtClaim(w) == pc[w] = "claim" /\ ~Locked(job[w].meeting)

ClaimReplay(w) ==
    /\ AtClaim(w)
    /\ row[job[w].meeting].status \in Replayed
    /\ Goto(w, "token")
    /\ UNCHANGED <<row, offer, job, provider>>

ClaimRefused(w) ==
    LET r == row[job[w].meeting]
    IN  /\ AtClaim(w)
        /\ r.status \notin Replayed
        /\ Refusal(r, job[w].request) # "none"
        /\ Answer(w, Refusal(r, job[w].request))
        /\ UNCHANGED <<row, offer, provider>>

Claimable(w) ==
    LET r == row[job[w].meeting]
    IN  /\ AtClaim(w)
        /\ r.status \notin Replayed
        /\ Refusal(r, job[w].request) = "none"

\* Defect: a retry resolves the payload anew.
ClaimResumeNewPayload(w) ==
    LET m == job[w].meeting
    IN  /\ Claimable(w)
        /\ Resumes(row[m])
        /\ offer[row[m].room] \in Presets
        /\ row' = [row EXCEPT ![m].status = "PROVISIONING",
                              ![m].payload = offer[row[m].room]]
        /\ Goto(w, "auth")
        /\ job' = [job EXCEPT ![w].retrying = TRUE, ![w].room = row[m].room]
        /\ UNCHANGED <<offer, provider>>

\* The stored payload is sent again, to the room reserved at first.
ClaimResume(w) ==
    LET m == job[w].meeting
    IN  /\ Claimable(w)
        /\ Resumes(row[m])
        /\ row' = [row EXCEPT ![m].status = "PROVISIONING"]
        /\ Goto(w, "auth")
        /\ job' = [job EXCEPT ![w].retrying = TRUE, ![w].room = row[m].room]
        /\ UNCHANGED <<offer, provider>>

\* allocate_any_room lists the active rooms before it locks any of them.
ClaimAllocate(w) ==
    LET r == row[job[w].meeting]
    IN  /\ Claimable(w)
        /\ ~Resumes(r)
        /\ Goto(w, "alloc")
        /\ job' = [job EXCEPT
                ![w].retrying = (r.status = "RETRYABLE_FAILED"),
                ![w].rooms = {x \in Rooms : offer[x] # "inactive"}]
        /\ UNCHANGED <<row, offer, provider>>

(***************************************************************************)
(* allocate_any_room: the rooms in rank order, each checked under its own  *)
(* lock.  The first one that is eligible is reserved, and the payload      *)
(* snapshot and PROVISIONING are committed with it.                        *)
(***************************************************************************)
NextRoom(w, r) == /\ r \in job[w].rooms
                  /\ \A s \in job[w].rooms : Rank[r] <= Rank[s]

\* The payload of a retry is the stored one, if there is one.
ResendsSnapshot(w) == job[w].retrying /\ row[job[w].meeting].payload # "none"

Snapshot(w, r) ==
    IF ResendsSnapshot(w) THEN row[job[w].meeting].payload ELSE offer[r]

ReserveRoom(w) ==
    LET m == job[w].meeting
        slot == job[w].request.slot
    IN  /\ pc[w] = "alloc"
        /\ \E r \in Rooms :
              /\ NextRoom(w, r)
              /\ Eligible(m, r, slot)
              /\ row' = [row EXCEPT ![m] = [@ EXCEPT
                        !.status = "PROVISIONING", !.room = r, !.slot = slot,
                        !.reservation = Interval(slot), !.active = TRUE,
                        !.payload = Snapshot(w, r)]]
              /\ job' = [job EXCEPT ![w].rooms = {}, ![w].room = r]
        /\ Goto(w, "auth")
        /\ UNCHANGED <<offer, provider>>

\* The presets are not locked: one is edited after the room was found eligible
\* and before the payload is resolved.  The reservation is rolled back.
PresetWithdrawn(w) ==
    /\ pc[w] = "alloc"
    /\ ~ResendsSnapshot(w)
    /\ "unusable" \in RoomFaults
    /\ \E r \in Rooms :
          /\ NextRoom(w, r)
          /\ Eligible(job[w].meeting, r, job[w].request.slot)
          /\ offer' = [offer EXCEPT ![r] = "unusable"]
    /\ Answer(w, "PROVIDER_CONTRACT_UNCONFIRMED")
    /\ UNCHANGED <<row, provider>>

\* Defect: the allocation loop tries the same room again.
SkipRoomAgain(w) ==
    /\ pc[w] = "alloc"
    /\ \E r \in Rooms :
          /\ NextRoom(w, r)
          /\ ~Eligible(job[w].meeting, r, job[w].request.slot)
    /\ UNCHANGED vars

SkipRoom(w) ==
    /\ pc[w] = "alloc"
    /\ \E r \in Rooms :
          /\ NextRoom(w, r)
          /\ ~Eligible(job[w].meeting, r, job[w].request.slot)
          /\ job' = [job EXCEPT ![w].rooms = @ \ {r}]
    /\ UNCHANGED <<row, offer, pc, provider>>

NoCapacity(w) ==
    /\ pc[w] = "alloc"
    /\ job[w].rooms = {}
    /\ Answer(w, "NO_CAPACITY_AVAILABLE")
    /\ UNCHANGED <<row, offer, provider>>

----------------------------------------------------------------------------
(***************************************************************************)
(* provision(), the provider call.  get_token reads the room's is_active   *)
(* from the instance the worker holds: locked and active for a room just   *)
(* reserved, read afresh when a retry first needs it.                      *)
(***************************************************************************)
RoomGone(w) == /\ job[w].retrying
               /\ job[w].attempt = 1
               /\ offer[job[w].room] = "inactive"

AuthErrors == ({AuthBusy, TokenExpired} \cup
                  {Authenticate(x) : x \in AuthExchanges}) \ {Success}

AuthFails(w) ==
    /\ pc[w] = "auth"
    /\ \E out \in IF RoomGone(w) THEN {RoomInactive} ELSE AuthErrors :
          job' = [job EXCEPT ![w].out = out]
    /\ Goto(w, "error")
    /\ UNCHANGED <<row, offer, provider>>

\* With a token at hand, start_meeting transmits.
Transmit(w) ==
    /\ pc[w] = "auth"
    /\ ~RoomGone(w)
    /\ Goto(w, "sent")
    /\ UNCHANGED <<row, offer, job, provider>>

\* The outcome of start_meeting.  A transmission the provider has not decided
\* on stays with the provider, unless the answer is a refusal.
Delivered(w, x) ==
    LET m == job[w].meeting
    IN  /\ pc[w] = "sent"
        /\ Refuses(x) => job[w].cal = 0
        /\ Confirms(x) => job[w].cal # 0
        /\ orphans' = IF job[w].cal = 0 /\ ~Refuses(x)
                      THEN [orphans EXCEPT ![m] = @ + 1] ELSE orphans
        /\ UNCHANGED <<row, offer, created, live>>

ReceiveResult(w, x) ==
    /\ Delivered(w, x)
    /\ StartMeeting(x).code = "NONE"
    /\ Goto(w, "save")
    /\ UNCHANGED job

\* A first 401: drop the cached token, authenticate again, transmit again.
ReceiveUnauthorized(w, x) ==
    /\ Delivered(w, x)
    /\ StartMeeting(x).status = 401
    /\ job[w].attempt = 1
    /\ Goto(w, "auth")
    /\ job' = [job EXCEPT ![w].attempt = 2]

ReceiveError(w, x) ==
    /\ Delivered(w, x)
    /\ StartMeeting(x).code # "NONE"
    /\ StartMeeting(x).status = 401 => job[w].attempt = 2
    /\ Goto(w, "error")
    /\ job' = [job EXCEPT ![w].out = StartMeeting(x),
                          ![w].cal = IF StartMeeting(x).known THEN @ ELSE 0]

(***************************************************************************)
(* provision(), the error path.  It does not look at the current status.   *)
(* The save is refused when the identifiers do not fit their columns or    *)
(* when a constraint of the table rejects the row; the exception is not    *)
(* handled and the transaction is rolled back.                             *)
(***************************************************************************)
FailedRow(r, out, cal) ==
    [r EXCEPT !.status = FailureStatus(out),
              !.active = KeepsReservation(out),
              !.calendar = IF out.known THEN cal ELSE @,
              !.error = out.code]

Saves(m, r, out) == out.fits /\ Storable(m, r)

RecordError(w) ==
    LET m == job[w].meeting
        r == FailedRow(row[m], job[w].out, job[w].cal)
    IN  /\ pc[w] = "error"
        /\ ~Locked(m)
        /\ Saves(m, r, job[w].out)
        /\ row' = [row EXCEPT ![m] = r]
        /\ Answer(w, job[w].out.code)
        /\ UNCHANGED <<offer, provider>>

RecordErrorFails(w) ==
    LET m == job[w].meeting
        r == FailedRow(row[m], job[w].out, job[w].cal)
    IN  /\ pc[w] = "error"
        /\ ~Locked(m)
        /\ ~Saves(m, r, job[w].out)
        /\ Answer(w, "INTERNAL_ERROR")
        /\ UNCHANGED <<row, offer, provider>>

(***************************************************************************)
(* provision(), the success path: values the row already has are kept.     *)
(***************************************************************************)
Either(stored, received) == IF stored # 0 THEN stored ELSE received

AwaitsResult == {"PROVISIONING", "PROVIDER_STATE_UNKNOWN"}

SaveResult(w) ==
    LET m == job[w].meeting
    IN  /\ pc[w] = "save"
        /\ ~Locked(m)
        /\ row[m].status \in AwaitsResult
        /\ row' = [row EXCEPT ![m] = [@ EXCEPT
                  !.calendar = Either(row[m].calendar, job[w].cal),
                  !.url = TRUE, !.status = "READY", !.error = "NONE"]]
        /\ Answer(w, SuccessAnswer(w))
        /\ UNCHANGED <<offer, provider>>

\* The audit record of a late response is rolled back with its transaction.
LateResponse(w) ==
    /\ pc[w] = "save"
    /\ ~Locked(job[w].meeting)
    /\ row[job[w].meeting].status \notin AwaitsResult
    /\ Answer(w, "PROVIDER_RECONCILIATION_REQUIRED")
    /\ UNCHANGED <<row, offer, provider>>

(***************************************************************************)
(* MeetingListView.post after a replay: callers with meeting:token get a   *)
(* current token.  An error of get_token is not handled there.             *)
(***************************************************************************)
ReplayAnswered(w) ==
    /\ pc[w] = "token"
    /\ Answer(w, SuccessAnswer(w))
    /\ UNCHANGED <<row, offer, provider>>

ReplayTokenFails(w) ==
    /\ pc[w] = "token"
    /\ Answer(w, "INTERNAL_ERROR")
    /\ UNCHANGED <<row, offer, provider>>

NextRequest(w) ==
    /\ pc[w] = "done"
    /\ Goto(w, "idle")
    /\ job' = [job EXCEPT ![w] = IdleJob]
    /\ UNCHANGED <<row, offer, provider>>

\* The process dies, or an exception other than ProviderError (Redis down,
\* credentials that do not decrypt) ends the request.  Open transactions are
\* rolled back; what was transmitted stays transmitted.
Abort(w) ==
    LET m == job[w].meeting
    IN  /\ pc[w] \notin {"idle", "done"}
        /\ Goto(w, "idle")
        /\ job' = [job EXCEPT ![w] = IdleJob]
        /\ orphans' = IF pc[w] = "sent" /\ job[w].cal = 0
                      THEN [orphans EXCEPT ![m] = @ + 1] ELSE orphans
        /\ UNCHANGED <<row, offer, created, live>>

----------------------------------------------------------------------------
(***************************************************************************)
(* The provider                                                            *)
(***************************************************************************)
NewProviderMeeting(m) ==
    /\ created' = [created EXCEPT ![m] = @ + 1]
    /\ live' = [live EXCEPT ![m] = @ \cup {created[m] + 1}]

ProviderCreates(w) ==
    LET m == job[w].meeting
    IN  /\ pc[w] = "sent"
        /\ job[w].cal = 0
        /\ NewProviderMeeting(m)
        /\ job' = [job EXCEPT ![w].cal = created[m] + 1]
        /\ UNCHANGED <<row, offer, pc, orphans>>

OrphanCreates(m) ==
    /\ orphans[m] > 0
    /\ orphans' = [orphans EXCEPT ![m] = @ - 1]
    /\ NewProviderMeeting(m)
    /\ UNCHANGED <<row, offer, pc, job>>

OrphanDropped(m) ==
    /\ orphans[m] > 0
    /\ orphans' = [orphans EXCEPT ![m] = @ - 1]
    /\ UNCHANGED <<row, offer, pc, job, created, live>>

ProviderEnds(m) ==
    /\ \E c \in live[m] : live' = [live EXCEPT ![m] = @ \ {c}]
    /\ UNCHANGED <<row, offer, pc, job, created, orphans>>

----------------------------------------------------------------------------
(***************************************************************************)
(* flag_stale_provisioning, administrators and operators.  Age is not      *)
(* modelled: any PROVISIONING row may have become stale.                   *)
(***************************************************************************)
\* Defect: the task selects the status before provisioning started.
FlagStaleReserved(S) ==
    /\ S # {}
    /\ \A m \in S : row[m].status = "RESERVED" /\ ~Locked(m)
    /\ row' = [m \in Meetings |->
                 IF m \in S
                 THEN [row[m] EXCEPT !.status = "PROVIDER_STATE_UNKNOWN",
                                     !.error = "PROVISIONING_INTERRUPTED"]
                 ELSE row[m]]
    /\ UNCHANGED <<offer, pc, job, provider>>

FlagStale(S) ==
    /\ S # {}
    /\ \A m \in S : row[m].status = "PROVISIONING" /\ ~Locked(m)
    /\ row' = [m \in Meetings |->
                 IF m \in S
                 THEN [row[m] EXCEPT !.status = "PROVIDER_STATE_UNKNOWN",
                                     !.error = "PROVISIONING_INTERRUPTED"]
                 ELSE row[m]]
    /\ UNCHANGED <<offer, pc, job, provider>>

\* docs/architecture.md:45: reconciliation waits for the creating request.
Reconcilable(m) == OperatorsWait => Settled(m)

Endable == {"READY", "LIVE", "PROVIDER_RESPONSE_INVALID",
            "PROVIDER_STATE_UNKNOWN"}

\* confirm_provider_ended skips the selected rows with any other status.  Operators
\* verify the remote state first.
ConfirmProviderEnded(S) ==
    /\ S # {}
    /\ \A m \in S : /\ row[m].status \in Endable
                     /\ ~Locked(m)
                     /\ live[m] = {}
                     /\ Reconcilable(m)
    /\ row' = [m \in Meetings |->
                 IF m \in S
                 THEN [row[m] EXCEPT !.status = "ENDED", !.active = FALSE]
                 ELSE row[m]]
    /\ UNCHANGED <<offer, pc, job, provider>>

\* The recovery form, loaded, cleaned and saved without interruption.
Recover(m) ==
    /\ row[m].status = "PROVIDER_STATE_UNKNOWN"
    /\ ~Locked(m)
    /\ Reconcilable(m)
    /\ \E c \in 1..created[m] :
          /\ row[m].calendar \in {0, c}
          /\ row' = [row EXCEPT ![m] = [@ EXCEPT
                    !.calendar = c, !.url = TRUE, !.status = "READY",
                    !.active = TRUE, !.error = "NONE"]]
    /\ UNCHANGED <<offer, pc, job, provider>>

\* Defect: a meeting can be cancelled while it is being created.
CancellableAnytime == {"DRAFT", "RESERVED", "PROVISIONING", "FAILED",
                       "RETRYABLE_FAILED", "NON_RETRYABLE_FAILED"}

Cancellable == {"DRAFT", "RESERVED", "FAILED", "RETRYABLE_FAILED",
                "NON_RETRYABLE_FAILED"}

Cancel(m) ==
    /\ row[m].status \in Cancellable
    /\ ~Locked(m)
    /\ row' = [row EXCEPT ![m] = [@ EXCEPT !.status = "CANCELLED",
                                          !.active = FALSE]]
    /\ UNCHANGED <<offer, pc, job, provider>>

\* Room and preset administration, as far as allocation can see it.
ConfigureRoom(r, o) ==
    /\ o # offer[r]
    /\ offer' = [offer EXCEPT ![r] = o]
    /\ UNCHANGED <<row, pc, job, provider>>

----------------------------------------------------------------------------
Register(w) ==
    \E m \in Meetings, q \in Requests :
        \/ RegisterNew(w, m, q)
        \/ RegisterExisting(w, m, q)
        \/ RegisterMismatch(w, m, q)

Receive(w) ==
    \E x \in StartExchanges :
        \/ ReceiveResult(w, x)
        \/ ReceiveUnauthorized(w, x)
        \/ ReceiveError(w, x)

Claim(w) == \/ ClaimReplay(w) \/ ClaimRefused(w)
            \/ ClaimResume(w) \/ ClaimAllocate(w)

Allocate(w) == \/ ReserveRoom(w) \/ PresetWithdrawn(w)
               \/ SkipRoom(w) \/ NoCapacity(w)

StoreOutcome(w) == \/ RecordError(w) \/ RecordErrorFails(w)
                   \/ SaveResult(w) \/ LateResponse(w)

Reply(w) == ReplayAnswered(w) \/ ReplayTokenFails(w) \/ NextRequest(w)

Worker(w) == \/ Register(w) \/ Claim(w) \/ Allocate(w)
             \/ AuthFails(w) \/ Transmit(w) \/ Receive(w)
             \/ StoreOutcome(w) \/ Reply(w) \/ Abort(w)
             \/ ProviderCreates(w)

Environment ==
    \/ \E m \in Meetings : \/ OrphanCreates(m) \/ OrphanDropped(m)
                            \/ ProviderEnds(m) \/ Recover(m) \/ Cancel(m)
    \/ \E S \in SUBSET Meetings : FlagStale(S) \/ ConfirmProviderEnded(S)
    \/ \E r \in Rooms, o \in Presets \cup RoomFaults : ConfigureRoom(r, o)

Next == (\E w \in Workers : Worker(w)) \/ Environment

Spec == Init /\ [][Next]_vars

(***************************************************************************)
(* Fairness: a web process that is not killed carries its request on (the  *)
(* HTTP client has timeouts, so an answer or a transport error arrives);   *)
(* PostgreSQL grants a contended row lock to the waiters in turn; Beat     *)
(* runs flag_stale_provisioning every minute.  Nothing is assumed of the   *)
(* provider, of operators, or of crashes.                                  *)
(***************************************************************************)
Progress(w) == \/ Claim(w) \/ Allocate(w) \/ AuthFails(w) \/ Transmit(w)
               \/ Receive(w) \/ StoreOutcome(w) \/ Reply(w)

Fairness == /\ \A w \in Workers : WF_vars(Progress(w)) /\ SF_vars(Claim(w))
            /\ \A m \in Meetings :
                  WF_vars(\E S \in SUBSET Meetings : m \in S /\ FlagStale(S))

FairSpec == Spec /\ Fairness

----------------------------------------------------------------------------
(***************************************************************************)
(* Properties                                                              *)
(***************************************************************************)
Rows == [status : Statuses \cup {"ABSENT"},
         info : {q.info : q \in Requests} \cup {"none"},
         date : Nat,
         slot : [start : Nat, end : Nat],
         room : Rooms \cup {NoRoom},
         reservation : [start : Int, end : Int],
         active : BOOLEAN,
         payload : Presets \cup {"none"},
         calendar : Nat,
         url : BOOLEAN,
         error : Codes \cup {"PROVISIONING_INTERRUPTED"}]

Answers == Codes \cup
    {"none", "CREATED", "OK", "EXISTING_MEETING_MISMATCH",
     "CREATION_IN_PROGRESS", "PROVIDER_RECONCILIATION_REQUIRED",
     "CLASS_ALREADY_COMPLETED", "PREVIOUS_CREATION_FAILED", "CLASS_CANCELLED",
     "CLASS_DATE_MISMATCH", "PROVIDER_CONTRACT_UNCONFIRMED",
     "NO_CAPACITY_AVAILABLE", "INTERNAL_ERROR"}

Jobs == [meeting : Meetings \cup {NoMeeting},
         request : Requests \cup {NoRequest},
         made : BOOLEAN, retrying : BOOLEAN, attempt : {1, 2},
         rooms : SUBSET Rooms, room : Rooms \cup {NoRoom}, cal : Nat,
         out : Outcomes, answer : Answers]

\* Every table, worker and provider record has its type, and only an idle
\* worker is without a meeting.
TypeOK ==
    /\ row \in [Meetings -> Rows]
    /\ offer \in [Rooms -> Presets \cup RoomFaults]
    /\ pc \in [Workers -> PCs]
    /\ job \in [Workers -> Jobs]
    /\ created \in [Meetings -> Nat]
    /\ live \in [Meetings -> SUBSET Nat]
    /\ orphans \in [Meetings -> Nat]
    /\ \A w \in Workers :
          pc[w] # "idle" => job[w].meeting \in Meetings
                            /\ job[w].request \in Requests

\* However requests, retries, re-authentications, crashes, the stale-row task
\* and operators interleave, at most one Convay meeting exists or may still
\* come to exist for a class: provision() never transmits while an earlier
\* transmission could have succeeded.
AtMostOneProviderMeeting == \A m \in Meetings : created[m] + orphans[m] <= 1

\* Two meetings that hold the same room are apart by both buffers, whichever of
\* allocation, retry, error path and recovery made them hold it.
NoDoubleBooking ==
    \A m, n \in Meetings :
        (m # n /\ row[m].active /\ row[n].active /\ row[m].room = row[n].room)
            => \/ row[m].slot.end + BufferAfter + BufferBefore <= row[n].slot.start
               \/ row[n].slot.end + BufferAfter + BufferBefore <= row[m].slot.start

HoldingStatuses == {"PROVISIONING", "READY", "RETRYABLE_FAILED",
                    "PROVIDER_RESPONSE_INVALID", "PROVIDER_STATE_UNKNOWN"}

\* A meeting that exists, may exist or will be retried holds a room for its own
\* buffered time; a meeting with any other status holds none.
HoldsRoomUntilResolved ==
    \A m \in Meetings :
        /\ row[m].active <=> row[m].status \in HoldingStatuses
        /\ row[m].active => /\ row[m].room \in Rooms
                            /\ row[m].slot # NoSlot
                            /\ row[m].reservation = Interval(row[m].slot)

\* A row that says READY names a meeting Convay really created for it, and has
\* the start URL the LMS is promised.
ReadyIsUsable ==
    \A m \in Meetings : row[m].status = "READY" =>
        row[m].calendar \in 1..created[m] /\ row[m].url

\* While a Convay meeting runs, its room is reserved: no failure code, crash, late
\* answer, stale-row mark, cancellation or recovery releases a room under a
\* running meeting.  Only "confirmed ended" can: it looks at what runs now, and a
\* transmission that got no answer may be executed afterwards.
RunningMeetingHoldsRoom ==
    \A m \in Meetings : live[m] # {} => row[m].active \/ row[m].status = "ENDED"

\* A released meeting stays released: a worker that reports late never
\* revives a class that ended, was cancelled or failed for good, provided
\* operators wait for the creating request.
Terminal == {"ENDED", "CANCELLED", "NON_RETRYABLE_FAILED", "FAILED"}

TerminalIsFinal ==
    [][OperatorsWait => \A m \in Meetings : row[m].status \in Terminal =>
            row'[m].status \in {row[m].status, "CANCELLED"}]_vars

\* The original request is immutable, and from the first transmission on so are
\* room, reserved interval and payload: a retry resends the snapshot to the room
\* reserved first, whatever administrators reconfigured in between.
RetryKeepsSnapshot ==
    [][\A m \in Meetings :
        /\ row[m].status # "ABSENT" => /\ row'[m].info = row[m].info
                                       /\ row'[m].date = row[m].date
        /\ row[m].slot # NoSlot => row'[m].slot = row[m].slot
        /\ row[m].room # NoRoom => /\ row'[m].room = row[m].room
                                   /\ row'[m].reservation = row[m].reservation
                                   /\ row'[m].payload = row[m].payload]_vars

\* A caller that is told 200 or 201 gets the meeting it asked for: the stored
\* class data and times are those of its own request.
AnswerMatchesRequest ==
    \A w \in Workers : job[w].answer \in {"CREATED", "OK"} =>
        LET r == row[job[w].meeting]
            q == job[w].request
        IN  r.info = q.info /\ r.date = q.date /\ r.slot = q.slot

\* A meeting that was ever given a room starts on the date its class was
\* registered for.  The date of the row is immutable, and the start comes from
\* whichever of its requests claims the row: the one that does need not be the
\* one that registered it, and only its own date was compared with the row.
ClassOnItsDate ==
    \A m \in Meetings : row[m].room # NoRoom =>
        row[m].slot.start \div DayLength = row[m].date

\* The meetings of a room that exist, may exist or will be retried never exceed
\* the provider's active-meeting limit configured for it.
WithinProviderLimit ==
    \A r \in Rooms : Limit[r] # NoLimit =>
        Cardinality({m \in Meetings : row[m].room = r
                        /\ row[m].status \in CountedStatuses}) <= Limit[r]

\* Every request that is received is answered or dies with its process.
RequestsEnd == \A w \in Workers : pc[w] # "idle" ~> pc[w] = "idle"

\* No meeting stays PROVISIONING forever, even if its worker died: it is
\* resolved by the worker or flagged by the stale-row task.
ProvisioningEnds ==
    \A m \in Meetings :
        row[m].status = "PROVISIONING" ~> row[m].status # "PROVISIONING"

----------------------------------------------------------------------------
(***************************************************************************)
(* Inductive invariants, used by the proofs.                               *)
(***************************************************************************)

\* No transmission was made for m that has created, or may create, a meeting.
Untouched(m) == created[m] = 0 /\ orphans[m] = 0

\* Statuses from which provision() may transmit.
OpenStatuses == {"ABSENT", "DRAFT", "RETRYABLE_FAILED"}

\* At most one worker at a time works on the provider call of a meeting, and
\* at most one holds its row lock.
OneCreator ==
    \A w, v \in Workers : job[w].meeting = job[v].meeting =>
        /\ Engaged(w) /\ Engaged(v) => w = v
        /\ pc[w] = "alloc" /\ pc[v] = "alloc" => w = v

\* A row that may be claimed is nobody's, and nothing was created for it.
OpenIsUntouched ==
    \A m \in Meetings : row[m].status \in OpenStatuses =>
        Untouched(m) /\ \A w \in Workers : Engaged(w) => job[w].meeting # m

\* What a worker may rely on about its transmission.
Knows(w) ==
    LET m == job[w].meeting
    IN  /\ pc[w] = "alloc" => row[m].status \in OpenStatuses
        /\ pc[w] \in {"claim", "alloc", "auth"} => job[w].cal = 0
        /\ pc[w] = "auth" => Untouched(m)
        /\ pc[w] = "sent" => orphans[m] = 0
        /\ pc[w] = "sent" /\ job[w].cal = 0 => Untouched(m)
        /\ pc[w] = "error" /\ ~job[w].out.ambiguous /\ ~job[w].out.known
              => Untouched(m)

WorkerKnowledge == \A w \in Workers : Knows(w)

CreationInv == /\ OneCreator
               /\ OpenIsUntouched
               /\ WorkerKnowledge
               /\ AtMostOneProviderMeeting

\* The row has a complete reservation, held or not.
HasRoom(m) == /\ row[m].room \in Rooms
              /\ row[m].slot # NoSlot
              /\ row[m].reservation = Interval(row[m].slot)

\* Reservations that are held in the same room do not overlap.
HeldDisjoint ==
    \A m, n \in Meetings :
        (m # n /\ row[m].active /\ row[n].active /\ row[m].room = row[n].room)
            => ~Overlap(row[m].reservation, row[n].reservation)

BookingInv == /\ HoldsRoomUntilResolved
              /\ HeldDisjoint
              /\ \A w \in Workers : Engaged(w) => HasRoom(job[w].meeting)

NoLegacyDrafts == "DRAFT" \notin LegacyStatuses

\* What the rest of the system may rely on about one meeting: whatever is stored
\* or runs was created; the row has no status that nothing writes; it has a room
\* only for a time on its date; and nothing was or may still be created where no
\* room is held, unless an operator confirmed the end.
SoundRow(m) ==
    LET r == row[m]
    IN  /\ live[m] \subseteq 1..created[m]
        /\ r.calendar \in 0..created[m]
        /\ r.status = "READY" => r.calendar # 0 /\ r.url
        /\ r.status \notin {"RESERVED", "LIVE"}
        /\ r.status \in {"ABSENT", "DRAFT"} => r.room = NoRoom
        /\ r.status = "ABSENT" => r.slot = NoSlot
        /\ r.room # NoRoom => /\ r.slot # NoSlot
                              /\ r.slot.start \div DayLength = r.date
        /\ NoLegacyDrafts /\ r.slot = NoSlot
              => r.status \in {"ABSENT", "FAILED", "CANCELLED"}
        /\ ~r.active /\ r.status # "ENDED" => Untouched(m)

\* A request that was not turned away agrees with the row about the class, and
\* about its times as long as the row has no room.  A draft of an older release
\* gets its times together with a room, from a request the others were not
\* compared with.
Agrees(r, q) ==
    /\ r.info = q.info
    /\ r.date = q.date
    /\ (r.room = NoRoom \/ NoLegacyDrafts) /\ r.slot # NoSlot => r.slot = q.slot

\* What a worker may rely on about the row of its meeting, and the others about
\* what it knows of the provider.
SoundJob(w) ==
    LET m == job[w].meeting
        r == row[m]
        q == job[w].request
    IN  /\ r.status # "ABSENT"
        /\ job[w].answer # "EXISTING_MEETING_MISMATCH" => Agrees(r, q)
        /\ pc[w] = "token" \/ job[w].answer \in {"CREATED", "OK"}
              => r.slot # NoSlot
        /\ pc[w] = "alloc" => /\ r.room = NoRoom
                              /\ q.slot.start \div DayLength = r.date
        /\ Engaged(w) => /\ job[w].answer = "none"
                         /\ job[w].cal \in 0..created[m]
                         /\ r.status \in AwaitsResult \cup {"READY", "ENDED"}
                         /\ OperatorsWait => r.status \in AwaitsResult
        /\ pc[w] \in {"claim", "alloc", "token"} => job[w].answer = "none"
        /\ pc[w] = "save" => job[w].cal # 0

OutcomeInv ==
    /\ \A m \in Meetings : SoundRow(m)
    /\ \A w \in Workers : IF pc[w] = "idle" THEN job[w] = IdleJob
                                            ELSE SoundJob(w)
=============================================================================
