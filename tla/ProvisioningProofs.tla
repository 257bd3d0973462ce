------------------------- MODULE ProvisioningProofs -------------------------
(***************************************************************************)
(* Theorems about Provisioning, for every set of meetings, rooms, workers, *)
(* requests, presets, buffers and provider answers, and whether or not     *)
(* operators wait: types, one Convay meeting per class, one meeting per    *)
(* room and time.                                                          *)
(***************************************************************************)
EXTENDS Provisioning, TLAPS

(***************************************************************************)
(* ConvayClient                                                            *)
(***************************************************************************)

\* Whatever Convay answers, start_meeting and authenticate end in a
\* well-formed result or ProviderError.
LEMMA OutcomesTyped ==
    ASSUME NEW x \in Exchanges
    PROVE  StartMeeting(x) \in Outcomes /\ Authenticate(x) \in Outcomes
<1>1. \A s \in 0..599, creation \in BOOLEAN :
         HttpError(s, creation) \in Outcomes /\ Malformed(s, creation) \in Outcomes
  BY DEF HttpError, HttpCode, Malformed, ProviderError, Outcomes, Codes
<1>2. \A kind \in {"connect", "transport", "response"}, creation \in BOOLEAN :
         RequestError(kind, creation) \in Outcomes
  BY DEF RequestError, ProviderError, Outcomes, Codes
<1>3. x.status \in 0..599 /\ x.body \in Bodies
      /\ x.kind \in {"connect", "transport", "response"}
  BY DEF Exchanges
<1>4. ParseMeeting(x.status, x.body) \in Outcomes
  <2>1. KnownCreated(x.status, x.body) \in Outcomes
    BY <1>3 DEF KnownCreated, Writable, ProviderError, Outcomes, Codes
  <2>2. Success \in Outcomes
    BY DEF Success, ProviderError, Outcomes, Codes
  <2>3. /\ ProviderError("PROVIDER_VALIDATION_ERROR", FALSE, x.status, FALSE) \in Outcomes
        /\ ProviderError("MALFORMED_CREATION_RESPONSE", TRUE, x.status, FALSE) \in Outcomes
    BY <1>3 DEF ProviderError, Outcomes, Codes
  <2>4. x.body.envelope \in Envelopes
    BY <1>3 DEF Bodies
  <2> QED
    BY <1>1, <1>3, <2>1, <2>2, <2>3, <2>4 DEF ParseMeeting, Envelopes
<1>5. StartMeeting(x) \in Outcomes
  BY <1>1, <1>2, <1>3, <1>4 DEF StartMeeting
<1>6. Authenticate(x) \in Outcomes
  <2>1. /\ Success \in Outcomes
        /\ ProviderError("MALFORMED_AUTH_RESPONSE", FALSE, x.status, FALSE) \in Outcomes
    BY <1>3 DEF Success, ProviderError, Outcomes, Codes
  <2> QED
    BY <1>1, <1>2, <1>3, <2>1 DEF Authenticate
<1> QED
  BY <1>5, <1>6

\* The classification is sound: an error that start_meeting reports as neither
\* ambiguous nor known-created, and every 401, answers an exchange by which
\* the provider created nothing.
LEMMA DefiniteErrorsAreRefusals ==
    ASSUME NEW x \in Exchanges,
           NEW out, out = StartMeeting(x),
           \/ out.code # "NONE" /\ ~out.ambiguous /\ ~out.known
           \/ out.status = 401
    PROVE  Refuses(x)
<1>1. x.status \in 0..599 /\ x.body \in Bodies
      /\ x.kind \in {"connect", "transport", "response"}
      /\ (x.kind = "response" <=> x.status >= 200)
  BY DEF Exchanges
<1>2. CASE x.kind # "response"
  BY <1>1, <1>2 DEF StartMeeting, RequestError, ProviderError, Refuses
<1>3. CASE x.kind = "response" /\ ~IsSuccess(x.status)
  <2>1. out = HttpError(x.status, TRUE)
    BY <1>3 DEF StartMeeting
  <2>2. ~AmbiguousStatus(x.status)
    <3>1. SUFFICES ASSUME AmbiguousStatus(x.status) PROVE FALSE
      OBVIOUS
    <3>2. out = ProviderError("PROVIDER_STATE_UNKNOWN", TRUE, x.status, FALSE)
      BY <2>1, <3>1 DEF HttpError
    <3> QED
      BY <1>1, <3>1, <3>2 DEF ProviderError, AmbiguousStatus
  <2> QED
    BY <1>1, <1>3, <2>2 DEF Refuses, IsSuccess, AmbiguousStatus
<1>4. CASE x.kind = "response" /\ IsSuccess(x.status)
  <2>1. out = ParseMeeting(x.status, x.body)
    BY <1>4 DEF StartMeeting
  <2>2. x.body.envelope \in Envelopes
    BY <1>1 DEF Bodies
  <2>3. x.status # 401
    BY <1>4, <1>1 DEF IsSuccess
  <2>4. x.body.envelope = "refused"
    <3>1. \/ x.body.envelope = "refused"
          \/ out = Malformed(x.status, TRUE)
          \/ out = KnownCreated(x.status, x.body)
          \/ out = Success
          \/ out = ProviderError("MALFORMED_CREATION_RESPONSE", TRUE, x.status, FALSE)
      BY <2>1, <2>2 DEF ParseMeeting, Envelopes
    <3> QED
      BY <2>3, <3>1 DEF Malformed, KnownCreated, Success, ProviderError
  <2> QED
    BY <1>4, <2>4 DEF Refuses
<1> QED
  BY <1>2, <1>3, <1>4

----------------------------------------------------------------------------
(***************************************************************************)
(* Type correctness                                                        *)
(***************************************************************************)
TypeOfJob(w) == pc[w] # "idle" => /\ job[w].meeting \in Meetings
                                  /\ job[w].request \in Requests

\* The defaults of workers and rows are well typed.
LEMMA DefaultsTyped ==
    /\ IdleJob \in Jobs
    /\ AbsentRow \in Rows
    /\ \A q \in Requests : NewRow(q) \in Rows
    /\ \A q \in Requests, s \in LegacyStatuses : LegacyRow(s, q) \in Rows
    /\ \A q \in Requests : Interval(q.slot) \in [start : Int, end : Int]
<1>1. Success \in Outcomes
  BY DEF Success, ProviderError, Outcomes, Codes
<1>2. IdleJob \in Jobs
  BY <1>1 DEF IdleJob, Jobs, Answers
<1>3. AbsentRow \in Rows
  BY DEF AbsentRow, Rows, NoSlot, Statuses, Codes
<1>4. ASSUME NEW q \in Requests PROVE NewRow(q) \in Rows
  BY <1>3, ConstantsAssumption, ZenonT(40) DEF NewRow, AbsentRow, Rows, Statuses
<1>5. ASSUME NEW q \in Requests, NEW s \in LegacyStatuses
      PROVE  LegacyRow(s, q) \in Rows
  BY <1>3, ConstantsAssumption, ZenonT(40) DEF LegacyRow, AbsentRow, Rows, Statuses
<1>6. ASSUME NEW q \in Requests
      PROVE  Interval(q.slot) \in [start : Int, end : Int]
  BY ConstantsAssumption DEF Interval
<1> QED
  BY <1>2, <1>3, <1>4, <1>5, <1>6

\* A worker that answers keeps its meeting and its request.
LEMMA AnswerTyped ==
    ASSUME TypeOK, NEW w \in Workers, NEW code \in Answers,
           pc[w] # "idle", Answer(w, code)
    PROVE  /\ pc' \in [Workers -> PCs]
           /\ job' \in [Workers -> Jobs]
           /\ \A v \in Workers : TypeOfJob(v)'
<1>1. [IdleJob EXCEPT !.meeting = job[w].meeting, !.request = job[w].request,
                      !.answer = code] \in Jobs
  BY DefaultsTyped DEF TypeOK, IdleJob, Jobs
<1>2. pc' \in [Workers -> PCs] /\ job' \in [Workers -> Jobs]
  BY <1>1 DEF TypeOK, Answer, Goto, PCs
<1>3. ASSUME NEW v \in Workers PROVE TypeOfJob(v)'
  <2>1. CASE v = w
    BY <2>1 DEF TypeOK, TypeOfJob, Answer, Goto, IdleJob
  <2>2. CASE v # w
    BY <2>2 DEF TypeOK, TypeOfJob, Answer, Goto
  <2> QED
    BY <2>1, <2>2
<1> QED
  BY <1>2, <1>3

\* The codes a request is refused with, and the outcomes of get_token, are
\* well typed.
LEMMA CodesTyped ==
    /\ \A r, q : Refusal(r, q) \in Answers
    /\ \A o \in Outcomes : o.code \in Answers
    /\ \A o \in Outcomes : FailureStatus(o) \in Statuses
    /\ \A o \in Outcomes : KeepsReservation(o) \in BOOLEAN
    /\ AuthErrors \subseteq Outcomes
    /\ RoomInactive \in Outcomes
    /\ \A w : SuccessAnswer(w) \in Answers
<1>1. \A r, q : Refusal(r, q) \in Answers
  BY DEF Refusal, Answers
<1>2. \A o \in Outcomes : o.code \in Answers
  BY DEF Outcomes, Answers
<1>3. \A o \in Outcomes : FailureStatus(o) \in Statuses
  BY DEF FailureStatus, Statuses
<1>4. \A o \in Outcomes : KeepsReservation(o) \in BOOLEAN
  BY DEF KeepsReservation
<1>5. {AuthBusy, TokenExpired, RoomInactive} \subseteq Outcomes
  BY DEF AuthBusy, TokenExpired, RoomInactive, ProviderError, Outcomes, Codes
<1>6. \A x \in AuthExchanges : Authenticate(x) \in Outcomes
  BY OutcomesTyped, ConstantsAssumption
<1>7. \A w : SuccessAnswer(w) \in Answers
  BY DEF SuccessAnswer, Answers
<1> QED
  BY <1>1, <1>2, <1>3, <1>4, <1>5, <1>6, <1>7 DEF AuthErrors

\* Moving a worker on, with a well-typed update of its local variables that
\* leaves meeting and request alone, preserves the worker part of TypeOK.
LEMMA WorkerTyped ==
    ASSUME TypeOK, NEW w \in Workers, NEW label \in PCs, NEW j \in Jobs,
           j.meeting \in Meetings, j.request \in Requests,
           pc' = [pc EXCEPT ![w] = label], job' = [job EXCEPT ![w] = j]
    PROVE  /\ pc' \in [Workers -> PCs]
           /\ job' \in [Workers -> Jobs]
           /\ \A v \in Workers : TypeOfJob(v)'
  BY DEF TypeOK, TypeOfJob

\* The same for a worker that becomes idle.
LEMMA IdleTyped ==
    ASSUME TypeOK, NEW w \in Workers,
           pc' = [pc EXCEPT ![w] = "idle"], job' = [job EXCEPT ![w] = IdleJob]
    PROVE  /\ pc' \in [Workers -> PCs]
           /\ job' \in [Workers -> Jobs]
           /\ \A v \in Workers : TypeOfJob(v)'
  BY DefaultsTyped DEF TypeOK, TypeOfJob, PCs

\* Updating single fields of a worker's variables keeps them well typed.
LEMMA JobFields ==
    ASSUME NEW j \in Jobs
    PROVE  /\ \A b \in BOOLEAN : [j EXCEPT !.retrying = b] \in Jobs
           /\ \A b \in BOOLEAN, r \in Rooms \cup {NoRoom} :
                  [j EXCEPT !.retrying = b, !.room = r] \in Jobs
           /\ \A R \in SUBSET Rooms, r \in Rooms :
                  [j EXCEPT !.rooms = R, !.room = r] \in Jobs
           /\ \A b \in BOOLEAN, R \in SUBSET Rooms :
                  [j EXCEPT !.retrying = b, !.rooms = R] \in Jobs
           /\ [j EXCEPT !.attempt = 2] \in Jobs
           /\ \A n \in Nat : [j EXCEPT !.cal = n] \in Jobs
           /\ \A o \in Outcomes : [j EXCEPT !.out = o] \in Jobs
           /\ \A o \in Outcomes, n \in Nat : [j EXCEPT !.out = o, !.cal = n] \in Jobs
  BY DEF Jobs

\* The updates transactions make to a row keep it well typed.
LEMMA RowFields ==
    ASSUME NEW r \in Rows
    PROVE  /\ \A s \in Statuses : [r EXCEPT !.status = s] \in Rows
           /\ \A s \in Statuses, b \in BOOLEAN :
                  [r EXCEPT !.status = s, !.active = b] \in Rows
           /\ \A s \in Statuses, e \in Codes \cup {"PROVISIONING_INTERRUPTED"} :
                  [r EXCEPT !.status = s, !.error = e] \in Rows
           /\ \A s \in Statuses, b \in BOOLEAN, c \in Nat, e \in Codes :
                  [r EXCEPT !.status = s, !.active = b, !.calendar = c,
                            !.error = e] \in Rows
           /\ \A s \in Statuses, c \in Nat, e \in Codes :
                  [r EXCEPT !.calendar = c, !.url = TRUE, !.status = s,
                            !.error = e] \in Rows
           /\ \A s \in Statuses, c \in Nat, e \in Codes :
                  [r EXCEPT !.calendar = c, !.url = TRUE, !.status = s,
                            !.active = TRUE, !.error = e] \in Rows
           /\ \A x \in Rooms, slot \in [start : Nat, end : Nat],
                 i \in [start : Int, end : Int], y \in Presets \cup {"none"} :
                  [r EXCEPT !.status = "PROVISIONING", !.room = x, !.slot = slot,
                            !.reservation = i, !.active = TRUE,
                            !.payload = y] \in Rows
<1>1. \A s \in Statuses : [r EXCEPT !.status = s] \in Rows
  BY DEF Rows
<1>2. \A s \in Statuses, b \in BOOLEAN :
            [r EXCEPT !.status = s, !.active = b] \in Rows
  BY DEF Rows
<1>3. \A s \in Statuses, e \in Codes \cup {"PROVISIONING_INTERRUPTED"} :
            [r EXCEPT !.status = s, !.error = e] \in Rows
  BY DEF Rows
<1>4. \A s \in Statuses, b \in BOOLEAN, c \in Nat, e \in Codes :
            [r EXCEPT !.status = s, !.active = b, !.calendar = c,
                      !.error = e] \in Rows
  BY DEF Rows
<1>5. \A s \in Statuses, c \in Nat, e \in Codes :
            [r EXCEPT !.calendar = c, !.url = TRUE, !.status = s,
                      !.error = e] \in Rows
  BY DEF Rows
<1>6. \A s \in Statuses, c \in Nat, e \in Codes :
            [r EXCEPT !.calendar = c, !.url = TRUE, !.status = s,
                      !.active = TRUE, !.error = e] \in Rows
  BY DEF Rows
<1>7. \A x \in Rooms, slot \in [start : Nat, end : Nat],
           i \in [start : Int, end : Int], y \in Presets \cup {"none"} :
            [r EXCEPT !.status = "PROVISIONING", !.room = x, !.slot = slot,
                      !.reservation = i, !.active = TRUE,
                      !.payload = y] \in Rows
  BY ZenonT(40) DEF Rows, Statuses
<1> QED
  BY <1>1, <1>2, <1>3, <1>4, <1>5, <1>6, <1>7

\* Registration and the first transaction are well typed.
LEMMA ClaimTyped ==
    ASSUME TypeOK, NEW w \in Workers,
           Register(w) \/ Claim(w) \/ Allocate(w)
    PROVE  TypeOK'
<1>1. ASSUME NEW m \in Meetings, NEW q \in Requests, RegisterNew(w, m, q)
      PROVE  TypeOK'
  <2>1. [IdleJob EXCEPT !.meeting = m, !.request = q, !.made = TRUE] \in Jobs
    BY DefaultsTyped DEF IdleJob, Jobs
  <2>2. /\ pc' \in [Workers -> PCs] /\ job' \in [Workers -> Jobs]
        /\ \A v \in Workers : TypeOfJob(v)'
    BY <1>1, <2>1, WorkerTyped DEF RegisterNew, Begin, Goto, PCs, IdleJob
  <2>3. row' \in [Meetings -> Rows]
    BY <1>1, DefaultsTyped DEF RegisterNew, TypeOK
  <2> QED
    BY <1>1, <2>2, <2>3 DEF RegisterNew, TypeOK, TypeOfJob, provider
<1>2. ASSUME NEW m \in Meetings, NEW q \in Requests, RegisterExisting(w, m, q)
      PROVE  TypeOK'
  <2>1. [IdleJob EXCEPT !.meeting = m, !.request = q, !.made = FALSE] \in Jobs
    BY DefaultsTyped DEF IdleJob, Jobs
  <2>2. /\ pc' \in [Workers -> PCs] /\ job' \in [Workers -> Jobs]
        /\ \A v \in Workers : TypeOfJob(v)'
    BY <1>2, <2>1, WorkerTyped DEF RegisterExisting, Begin, Goto, PCs, IdleJob
  <2> QED
    BY <1>2, <2>2 DEF RegisterExisting, TypeOK, TypeOfJob, provider
<1>3. ASSUME NEW m \in Meetings, NEW q \in Requests, RegisterMismatch(w, m, q)
      PROVE  TypeOK'
  <2>1. [IdleJob EXCEPT !.meeting = m, !.request = q,
                        !.answer = "EXISTING_MEETING_MISMATCH"] \in Jobs
    BY DefaultsTyped DEF IdleJob, Jobs, Answers
  <2>2. /\ pc' \in [Workers -> PCs] /\ job' \in [Workers -> Jobs]
        /\ \A v \in Workers : TypeOfJob(v)'
    BY <1>3, <2>1, WorkerTyped DEF RegisterMismatch, Goto, PCs, IdleJob
  <2> QED
    BY <1>3, <2>2 DEF RegisterMismatch, TypeOK, TypeOfJob, provider
<1>4. CASE ClaimReplay(w)
  BY <1>4 DEF ClaimReplay, AtClaim, Goto, PCs, TypeOK, TypeOfJob, provider
<1>5. CASE ClaimRefused(w)
  <2>1. Refusal(row[job[w].meeting], job[w].request) \in Answers /\ pc[w] # "idle"
    BY <1>5, CodesTyped DEF ClaimRefused, AtClaim
  <2> QED
    BY <1>5, <2>1, AnswerTyped DEF ClaimRefused, TypeOK, TypeOfJob, provider
<1>6. CASE ClaimResume(w)
  <2>1. job[w].meeting \in Meetings /\ job[w].request \in Requests
    BY <1>6 DEF ClaimResume, Claimable, AtClaim, TypeOK
  <2> DEFINE j == [job[w] EXCEPT !.retrying = TRUE,
                                 !.room = row[job[w].meeting].room]
  <2>2. job[w] \in Jobs /\ j \in Jobs
    <3>1. job[w] \in Jobs /\ row[job[w].meeting].room \in Rooms \cup {NoRoom}
      BY <2>1 DEF TypeOK, Rows
    <3> QED
      BY <3>1, JobFields
  <2>3. /\ pc' \in [Workers -> PCs] /\ job' \in [Workers -> Jobs]
        /\ \A v \in Workers : TypeOfJob(v)'
    <3>1. j.meeting \in Meetings /\ j.request \in Requests
      BY <2>1, <2>2 DEF Jobs
    <3>2. job' = [job EXCEPT ![w] = j] /\ pc' = [pc EXCEPT ![w] = "auth"]
      BY <1>6 DEF ClaimResume, Goto
    <3> QED
      BY <2>2, <3>1, <3>2, WorkerTyped DEF PCs
  <2>4. row' \in [Meetings -> Rows]
    <3>1. [row[job[w].meeting] EXCEPT !.status = "PROVISIONING"] \in Rows
      BY <2>1, RowFields DEF TypeOK, Statuses
    <3> QED
      BY <1>6, <2>1, <3>1 DEF ClaimResume, TypeOK
  <2> QED
    BY <1>6, <2>3, <2>4 DEF ClaimResume, TypeOK, TypeOfJob, provider
<1>7. CASE ClaimAllocate(w)
  <2>1. job[w].meeting \in Meetings /\ job[w].request \in Requests
    BY <1>7 DEF ClaimAllocate, Claimable, AtClaim, TypeOK
  <2>2. /\ pc' \in [Workers -> PCs] /\ job' \in [Workers -> Jobs]
        /\ \A v \in Workers : TypeOfJob(v)'
    <3> DEFINE j == [job[w] EXCEPT
                        !.retrying = (row[job[w].meeting].status = "RETRYABLE_FAILED"),
                        !.rooms = {x \in Rooms : offer[x] # "inactive"}]
    <3>1. job[w] \in Jobs /\ j \in Jobs
      BY JobFields DEF TypeOK
    <3>2. j.meeting \in Meetings /\ j.request \in Requests
      BY <2>1, <3>1 DEF Jobs
    <3>3. job' = [job EXCEPT ![w] = j] /\ pc' = [pc EXCEPT ![w] = "alloc"]
      BY <1>7 DEF ClaimAllocate, Goto
    <3> QED
      BY <3>1, <3>2, <3>3, WorkerTyped DEF PCs
  <2> QED
    BY <1>7, <2>2 DEF ClaimAllocate, TypeOK, TypeOfJob, provider
<1>8. CASE ReserveRoom(w)
  <2>1. job[w].meeting \in Meetings /\ job[w].request \in Requests
    BY <1>8 DEF ReserveRoom, TypeOK
  <2>2. /\ pc' \in [Workers -> PCs] /\ job' \in [Workers -> Jobs]
        /\ \A v \in Workers : TypeOfJob(v)'
    <3>1. PICK r \in Rooms : job' = [job EXCEPT ![w].rooms = {}, ![w].room = r]
      BY <1>8 DEF ReserveRoom
    <3> DEFINE j == [job[w] EXCEPT !.rooms = {}, !.room = r]
    <3>2. job[w] \in Jobs /\ j \in Jobs
      BY JobFields DEF TypeOK
    <3>3. j.meeting \in Meetings /\ j.request \in Requests
      BY <2>1, <3>2 DEF Jobs
    <3>4. job' = [job EXCEPT ![w] = j] /\ pc' = [pc EXCEPT ![w] = "auth"]
      BY <1>8, <3>1 DEF ReserveRoom, Goto
    <3> QED
      BY <3>2, <3>3, <3>4, WorkerTyped DEF PCs
  <2>3. row' \in [Meetings -> Rows]
    <3> DEFINE m == job[w].meeting
               slot == job[w].request.slot
    <3>1. PICK r \in Rooms :
             /\ Eligible(m, r, slot)
             /\ row' = [row EXCEPT ![m] = [@ EXCEPT
                        !.status = "PROVISIONING", !.room = r, !.slot = slot,
                        !.reservation = Interval(slot), !.active = TRUE,
                        !.payload = Snapshot(w, r)]]
      BY <1>8 DEF ReserveRoom
    <3>2. slot \in [start : Nat, end : Nat] /\ Interval(slot) \in [start : Int, end : Int]
      BY <2>1, DefaultsTyped, ConstantsAssumption
    <3>3. row[m] \in Rows
      BY <2>1 DEF TypeOK
    <3>4. Snapshot(w, r) \in Presets \cup {"none"}
      BY <3>1, <3>3 DEF Snapshot, ResendsSnapshot, Eligible, Rows
    <3>5. [row[m] EXCEPT !.status = "PROVISIONING", !.room = r, !.slot = slot,
                         !.reservation = Interval(slot), !.active = TRUE,
                         !.payload = Snapshot(w, r)] \in Rows
      BY <3>2, <3>3, <3>4, RowFields
    <3> QED
      BY <2>1, <3>1, <3>5 DEF TypeOK
  <2> QED
    BY <1>8, <2>2, <2>3 DEF ReserveRoom, TypeOK, TypeOfJob, provider
<1>9. CASE SkipRoom(w)
  <2>1. /\ job' \in [Workers -> Jobs]
        /\ \A v \in Workers : TypeOfJob(v)'
    BY <1>9, SMTT(30) DEF SkipRoom, TypeOK, TypeOfJob, Jobs
  <2> QED
    BY <1>9, <2>1 DEF SkipRoom, TypeOK, TypeOfJob, provider
<1>10. CASE NoCapacity(w)
  <2>1. "NO_CAPACITY_AVAILABLE" \in Answers /\ pc[w] # "idle"
    BY <1>10 DEF NoCapacity, Answers
  <2> QED
    BY <1>10, <2>1, AnswerTyped DEF NoCapacity, TypeOK, TypeOfJob, provider
<1>11. CASE PresetWithdrawn(w)
  <2>1. "PROVIDER_CONTRACT_UNCONFIRMED" \in Answers /\ pc[w] # "idle"
    BY <1>11 DEF PresetWithdrawn, Answers
  <2>2. offer' \in [Rooms -> Presets \cup RoomFaults]
    BY <1>11 DEF PresetWithdrawn, TypeOK
  <2> QED
    BY <1>11, <2>1, <2>2, AnswerTyped DEF PresetWithdrawn, TypeOK, TypeOfJob, provider
<1> QED
  BY <1>1, <1>2, <1>3, <1>4, <1>5, <1>6, <1>7, <1>8, <1>9, <1>10,
     <1>11 DEF Register, Claim, Allocate

\* The provider call and the transactions that store its outcome are well
\* typed.
LEMMA OutcomeTyped ==
    ASSUME TypeOK, NEW w \in Workers,
           \/ AuthFails(w) \/ Transmit(w) \/ Receive(w) \/ StoreOutcome(w)
           \/ Reply(w) \/ Abort(w) \/ ProviderCreates(w)
    PROVE  TypeOK'
<1> DEFINE m == job[w].meeting
<1>1. job[w] \in Jobs /\ pc[w] \in PCs
  BY DEF TypeOK
<1>2. pc[w] # "idle" => /\ m \in Meetings /\ job[w].request \in Requests
                        /\ row[m] \in Rows /\ orphans[m] \in Nat
                        /\ created[m] \in Nat
  BY DEF TypeOK
<1>3. CASE AuthFails(w)
  <2>1. PICK out \in Outcomes : job' = [job EXCEPT ![w].out = out]
    BY <1>3, CodesTyped DEF AuthFails
  <2>2. [job[w] EXCEPT !.out = out] \in Jobs
    BY <1>1, JobFields
  <2>3. /\ [job[w] EXCEPT !.out = out].meeting \in Meetings
        /\ [job[w] EXCEPT !.out = out].request \in Requests
    BY <1>1, <1>2, <1>3 DEF AuthFails, Jobs
  <2>4. /\ pc' \in [Workers -> PCs] /\ job' \in [Workers -> Jobs]
        /\ \A v \in Workers : TypeOfJob(v)'
    BY <1>3, <2>1, <2>2, <2>3, WorkerTyped DEF AuthFails, Goto, PCs
  <2> QED
    BY <1>3, <2>4 DEF AuthFails, TypeOK, TypeOfJob, provider
<1>4. CASE Transmit(w)
  BY <1>4 DEF Transmit, Goto, PCs, TypeOK, TypeOfJob, provider
<1>5. ASSUME NEW x \in StartExchanges,
             \/ ReceiveResult(w, x) \/ ReceiveUnauthorized(w, x)
             \/ ReceiveError(w, x)
      PROVE  TypeOK'
  <2>1. StartMeeting(x) \in Outcomes
    BY OutcomesTyped, ConstantsAssumption
  <2>2. pc[w] = "sent" /\ UNCHANGED <<row, offer, created, live>>
    BY <1>5 DEF ReceiveResult, ReceiveUnauthorized, ReceiveError, Delivered
  <2>3. orphans' \in [Meetings -> Nat]
    BY <1>2, <1>5, <2>2 DEF ReceiveResult, ReceiveUnauthorized, ReceiveError,
                            Delivered, TypeOK
  <2>4. CASE ReceiveResult(w, x)
    BY <2>2, <2>3, <2>4 DEF ReceiveResult, Goto, PCs, TypeOK
  <2>5. CASE ReceiveUnauthorized(w, x)
    <3> DEFINE j == [job[w] EXCEPT !.attempt = 2]
    <3>1. j \in Jobs /\ j.meeting \in Meetings /\ j.request \in Requests
      BY <1>1, <1>2, <2>2, JobFields, ZenonT(40) DEF Jobs
    <3>2. pc' = [pc EXCEPT ![w] = "auth"] /\ job' = [job EXCEPT ![w] = j]
      BY <2>5 DEF ReceiveUnauthorized, Goto
    <3>3. /\ pc' \in [Workers -> PCs] /\ job' \in [Workers -> Jobs]
          /\ \A v \in Workers : TypeOfJob(v)'
      BY <3>1, <3>2, WorkerTyped DEF PCs
    <3> QED
      BY <2>2, <2>3, <3>3 DEF TypeOK, TypeOfJob
  <2>6. CASE ReceiveError(w, x)
    <3> DEFINE out == StartMeeting(x)
               c == IF out.known THEN job[w].cal ELSE 0
               j == [job[w] EXCEPT !.out = out, !.cal = c]
    <3>1. c \in Nat
      BY <1>1 DEF Jobs
    <3>2. j \in Jobs
      BY <1>1, <2>1, <3>1, JobFields
    <3>3. j.meeting \in Meetings /\ j.request \in Requests
      BY <1>1, <1>2, <2>2 DEF Jobs
    <3>4. pc' = [pc EXCEPT ![w] = "error"] /\ job' = [job EXCEPT ![w] = j]
      BY <2>6 DEF ReceiveError, Goto
    <3>5. /\ pc' \in [Workers -> PCs] /\ job' \in [Workers -> Jobs]
          /\ \A v \in Workers : TypeOfJob(v)'
      BY <3>2, <3>3, <3>4, WorkerTyped DEF PCs
    <3> QED
      BY <2>2, <2>3, <3>5 DEF TypeOK, TypeOfJob
  <2> QED
    BY <1>5, <2>4, <2>5, <2>6
<1>6. CASE RecordError(w)
  <2> DEFINE out == job[w].out
             r == FailedRow(row[m], out, job[w].cal)
  <2>1. pc[w] # "idle" /\ out \in Outcomes /\ job[w].cal \in Nat
    BY <1>1, <1>6 DEF RecordError, Jobs
  <2>2. row[m].calendar \in Nat /\ out.code \in Codes
    BY <1>2, <2>1 DEF Rows, Outcomes
  <2>3. r \in Rows
    BY <1>2, <2>1, <2>2, CodesTyped, RowFields DEF FailedRow
  <2>4. row' \in [Meetings -> Rows]
    BY <1>2, <1>6, <2>1, <2>3 DEF RecordError, TypeOK
  <2>5. out.code \in Answers
    BY <2>1, CodesTyped
  <2>6. Answer(w, out.code)
    BY <1>6 DEF RecordError
  <2>7. /\ pc' \in [Workers -> PCs] /\ job' \in [Workers -> Jobs]
        /\ \A v \in Workers : TypeOfJob(v)'
    BY <2>1, <2>5, <2>6, AnswerTyped
  <2> QED
    BY <1>6, <2>4, <2>7 DEF RecordError, TypeOK, TypeOfJob, provider
<1>7. CASE SaveResult(w)
  <2>1. pc[w] # "idle" /\ job[w].cal \in Nat /\ SuccessAnswer(w) \in Answers
    BY <1>1, <1>7, CodesTyped DEF SaveResult, Jobs
  <2>2. row[m].calendar \in Nat
    BY <1>2, <2>1 DEF Rows
  <2> DEFINE c == Either(row[m].calendar, job[w].cal)
  <2>3. [row[m] EXCEPT !.calendar = c, !.url = TRUE, !.status = "READY",
                       !.error = "NONE"] \in Rows
    <3>1. c \in Nat /\ "READY" \in Statuses /\ "NONE" \in Codes
      BY <2>1, <2>2 DEF Either, Statuses, Codes
    <3> QED
      BY <1>2, <2>1, <3>1, RowFields
  <2>4. row' = [row EXCEPT ![m] = [@ EXCEPT !.calendar = c, !.url = TRUE,
                                     !.status = "READY", !.error = "NONE"]]
    BY <1>7 DEF SaveResult
  <2>5. row' \in [Meetings -> Rows]
    BY <1>2, <2>1, <2>3, <2>4 DEF TypeOK
  <2>6. Answer(w, SuccessAnswer(w))
    BY <1>7 DEF SaveResult
  <2>7. /\ pc' \in [Workers -> PCs] /\ job' \in [Workers -> Jobs]
        /\ \A v \in Workers : TypeOfJob(v)'
    BY <2>1, <2>6, AnswerTyped
  <2> QED
    BY <1>7, <2>5, <2>7 DEF SaveResult, TypeOK, TypeOfJob, provider
<1>8. CASE \/ RecordErrorFails(w) \/ LateResponse(w)
           \/ ReplayAnswered(w) \/ ReplayTokenFails(w)
  <2>1. PICK code \in Answers : Answer(w, code)
    BY <1>8, CodesTyped DEF RecordErrorFails, LateResponse, ReplayAnswered,
                            ReplayTokenFails, Answers
  <2>2. pc[w] # "idle" /\ UNCHANGED <<row, offer, created, live, orphans>>
    BY <1>8 DEF RecordErrorFails, LateResponse, ReplayAnswered,
                ReplayTokenFails, provider
  <2> QED
    BY <2>1, <2>2, AnswerTyped DEF TypeOK, TypeOfJob
<1>9. CASE NextRequest(w)
  BY <1>9, IdleTyped DEF NextRequest, Goto, TypeOK, TypeOfJob, provider
<1>10. CASE Abort(w)
  <2>1. orphans' \in [Meetings -> Nat]
    BY <1>2, <1>10 DEF Abort, TypeOK
  <2> QED
    BY <1>10, <2>1, IdleTyped DEF Abort, Goto, TypeOK, TypeOfJob
<1>11. CASE ProviderCreates(w)
  <2> DEFINE j == [job[w] EXCEPT !.cal = created[m] + 1]
  <2>1. pc[w] = "sent"
    BY <1>11 DEF ProviderCreates
  <2>2. j \in Jobs
    <3>1. created[m] + 1 \in Nat
      BY <1>2, <2>1
    <3> QED
      BY <1>1, <3>1, JobFields
  <2>3. j.meeting \in Meetings /\ j.request \in Requests
    BY <1>1, <1>2, <2>1 DEF Jobs
  <2>4. job' = [job EXCEPT ![w] = j] /\ pc' = pc
    BY <1>11 DEF ProviderCreates
  <2>5. /\ job' \in [Workers -> Jobs]
        /\ \A v \in Workers : TypeOfJob(v)'
    BY <2>2, <2>3, <2>4 DEF TypeOK, TypeOfJob
  <2>6. created' \in [Meetings -> Nat] /\ live' \in [Meetings -> SUBSET Nat]
    BY <1>2, <1>11, <2>1 DEF ProviderCreates, NewProviderMeeting, TypeOK
  <2> QED
    BY <1>11, <2>5, <2>6 DEF ProviderCreates, TypeOK, TypeOfJob
<1> QED
  BY <1>3, <1>4, <1>5, <1>6, <1>7, <1>8, <1>9, <1>10, <1>11
     DEF Receive, StoreOutcome, Reply

\* So are the provider, the stale-row task, administrators and operators.
LEMMA EnvironmentTyped ==
    ASSUME TypeOK, Environment
    PROVE  TypeOK'
<1>1. ASSUME NEW m \in Meetings, \/ OrphanCreates(m) \/ OrphanDropped(m)
                                 \/ ProviderEnds(m)
      PROVE  TypeOK'
  <2>1. orphans' \in [Meetings -> Nat]
    BY <1>1 DEF OrphanCreates, OrphanDropped, ProviderEnds, TypeOK
  <2>2. created' \in [Meetings -> Nat]
    BY <1>1 DEF OrphanCreates, OrphanDropped, ProviderEnds,
                NewProviderMeeting, TypeOK
  <2>3. live' \in [Meetings -> SUBSET Nat]
    <3>1. created[m] + 1 \in Nat
      BY DEF TypeOK
    <3> QED
      BY <1>1, <3>1 DEF OrphanCreates, OrphanDropped, ProviderEnds,
                NewProviderMeeting, TypeOK
  <2> QED
    BY <1>1, <2>1, <2>2, <2>3
       DEF OrphanCreates, OrphanDropped, ProviderEnds, TypeOK
<1>2. ASSUME NEW m \in Meetings, Recover(m)
      PROVE  TypeOK'
  <2>1. PICK c \in 1..created[m] :
           row' = [row EXCEPT ![m] = [@ EXCEPT
                    !.calendar = c, !.url = TRUE, !.status = "READY",
                    !.active = TRUE, !.error = "NONE"]]
    BY <1>2 DEF Recover
  <2>2. c \in Nat /\ "READY" \in Statuses /\ "NONE" \in Codes /\ row[m] \in Rows
    BY DEF TypeOK, Statuses, Codes
  <2>3. [row[m] EXCEPT !.calendar = c, !.url = TRUE, !.status = "READY",
                       !.active = TRUE, !.error = "NONE"] \in Rows
    BY <2>2, RowFields
  <2> QED
    BY <1>2, <2>1, <2>3 DEF Recover, TypeOK, provider
<1>3. ASSUME NEW m \in Meetings, Cancel(m)
      PROVE  TypeOK'
  <2>1. [row[m] EXCEPT !.status = "CANCELLED", !.active = FALSE] \in Rows
    BY RowFields DEF TypeOK, Statuses
  <2> QED
    BY <1>3, <2>1 DEF Cancel, TypeOK, provider
<1>4. ASSUME NEW S \in SUBSET Meetings, FlagStale(S) \/ ConfirmProviderEnded(S)
      PROVE  TypeOK'
  <2>1. \A m \in Meetings :
           /\ [row[m] EXCEPT !.status = "PROVIDER_STATE_UNKNOWN",
                             !.error = "PROVISIONING_INTERRUPTED"] \in Rows
           /\ [row[m] EXCEPT !.status = "ENDED", !.active = FALSE] \in Rows
    BY RowFields DEF TypeOK, Statuses
  <2>2. row' \in [Meetings -> Rows]
    BY <1>4, <2>1 DEF FlagStale, ConfirmProviderEnded, TypeOK
  <2> QED
    BY <1>4, <2>2 DEF FlagStale, ConfirmProviderEnded, TypeOK, provider
<1>5. ASSUME NEW r \in Rooms, NEW o \in Presets \cup RoomFaults,
             ConfigureRoom(r, o)
      PROVE  TypeOK'
  BY <1>5 DEF ConfigureRoom, TypeOK, provider
<1> QED
  BY <1>1, <1>2, <1>3, <1>4, <1>5 DEF Environment

\* Every step of the system preserves the types.
LEMMA TypeStep == TypeOK /\ [Next]_vars => TypeOK'
<1>1. ASSUME TypeOK, NEW w \in Workers, Worker(w)
      PROVE  TypeOK'
  BY <1>1, ClaimTyped, OutcomeTyped DEF Worker
<1>2. ASSUME TypeOK, UNCHANGED vars
      PROVE  TypeOK'
  BY <1>2 DEF TypeOK, vars
<1> QED
  BY <1>1, <1>2, EnvironmentTyped DEF Next

\* The tables a run starts with are well typed.
LEMMA InitTyped == Init => TypeOK
<1> SUFFICES ASSUME Init PROVE TypeOK
  OBVIOUS
<1>1. row \in [Meetings -> Rows]
  BY DefaultsTyped DEF Init
<1> QED
  BY <1>1, DefaultsTyped DEF Init, TypeOK, PCs

\* All tables, workers and provider records keep their types.
THEOREM TypeCorrect == Spec => []TypeOK
<1> QED
  BY InitTyped, TypeStep, PTL DEF Spec

----------------------------------------------------------------------------
(***************************************************************************)
(* At most one Convay meeting per class.                                   *)
(*                                                                         *)
(* The property is not inductive: that a transmission creates nothing a    *)
(* second time depends on which statuses a worker may start from, on its   *)
(* being alone with the meeting, and on what it may conclude from an error.*)
(* CreationInv states exactly these.                                       *)
(***************************************************************************)

\* A worker that leaves the provider call, or moves outside it, disturbs
\* nothing as long as no row becomes claimable.
LEMMA Leaves ==
    ASSUME TypeOK, CreationInv, NEW w \in Workers,
           NEW label \in {"idle", "claim", "token", "done"}, NEW j,
           label = "claim" => j.cal = 0,
           pc' = [pc EXCEPT ![w] = label], job' = [job EXCEPT ![w] = j],
           created' = created, orphans' = orphans,
           \A m \in Meetings : row'[m].status \in OpenStatuses =>
                                  row[m].status \in OpenStatuses,
           \A v \in Workers \ {w} : pc[v] = "alloc" =>
                  row'[job[v].meeting].status \in OpenStatuses
    PROVE  CreationInv'
<1>1. \A v \in Workers : v # w => pc'[v] = pc[v] /\ job'[v] = job[v]
  BY DEF TypeOK
<1>2. pc'[w] = label /\ job'[w] = j
  BY DEF TypeOK
<1>3. OneCreator'
  BY <1>1, <1>2 DEF CreationInv, OneCreator, Engaged
<1>4. OpenIsUntouched'
  BY <1>1, <1>2 DEF CreationInv, OpenIsUntouched, Engaged, Untouched
<1>5. ASSUME NEW v \in Workers PROVE Knows(v)'
  <2>1. CASE v = w
    BY <1>2, <2>1 DEF Knows
  <2>2. CASE v # w
    BY <1>1, <2>2 DEF CreationInv, WorkerKnowledge, Knows, Untouched
  <2> QED
    BY <2>1, <2>2
<1>6. AtMostOneProviderMeeting'
  BY DEF CreationInv, AtMostOneProviderMeeting
<1> QED
  BY <1>3, <1>4, <1>5, <1>6 DEF CreationInv, WorkerKnowledge

\* A step of the environment that creates nothing and makes no row claimable.
LEMMA Quiet ==
    ASSUME TypeOK, CreationInv, pc' = pc, job' = job,
           created' = created, orphans' = orphans,
           \A m \in Meetings : row'[m].status \in OpenStatuses =>
                                  row[m].status \in OpenStatuses,
           \A v \in Workers : pc[v] = "alloc" =>
                  row'[job[v].meeting].status \in OpenStatuses
    PROVE  CreationInv'
<1>1. OneCreator' /\ AtMostOneProviderMeeting'
  BY DEF CreationInv, OneCreator, Engaged, AtMostOneProviderMeeting
<1>2. OpenIsUntouched'
  BY DEF CreationInv, OpenIsUntouched, Engaged, Untouched
<1>3. WorkerKnowledge'
  BY DEF CreationInv, WorkerKnowledge, Knows, Untouched
<1> QED
  BY <1>1, <1>2, <1>3 DEF CreationInv

\* Registration and the first transaction preserve CreationInv.
LEMMA ClaimCreation ==
    ASSUME TypeOK, CreationInv, NEW w \in Workers,
           Register(w) \/ Claim(w) \/ Allocate(w)
    PROVE  CreationInv'
<1> DEFINE m == job[w].meeting
<1>1. ASSUME NEW n \in Meetings, NEW q \in Requests,
             \/ RegisterNew(w, n, q) \/ RegisterExisting(w, n, q)
             \/ RegisterMismatch(w, n, q)
      PROVE  CreationInv'
  <2>1. \A k \in Meetings : row'[k].status \in OpenStatuses
                              <=> row[k].status \in OpenStatuses
    <3>1. CASE RegisterNew(w, n, q)
      <4>1. NewRow(q).status = "DRAFT"
        BY DEF NewRow, AbsentRow
      <4> QED
        BY <3>1, <4>1 DEF RegisterNew, OpenStatuses, TypeOK
    <3>2. CASE RegisterExisting(w, n, q) \/ RegisterMismatch(w, n, q)
      BY <3>2 DEF RegisterExisting, RegisterMismatch
    <3> QED
      BY <1>1, <3>1, <3>2
  <2>2. \A v \in Workers : pc[v] = "alloc" =>
           row'[job[v].meeting].status \in OpenStatuses
    BY <2>1 DEF TypeOK, CreationInv, WorkerKnowledge, Knows
  <2>3. created' = created /\ orphans' = orphans
    BY <1>1 DEF RegisterNew, RegisterExisting, RegisterMismatch, provider
  <2>4. CASE RegisterMismatch(w, n, q)
    <3>1. PICK j : pc' = [pc EXCEPT ![w] = "done"] /\ job' = [job EXCEPT ![w] = j]
      BY <2>4 DEF RegisterMismatch, Goto
    <3> QED
      BY <2>1, <2>2, <2>3, <3>1, Leaves
  <2>5. ASSUME NEW made, Begin(w, n, q, made) PROVE CreationInv'
    <3> DEFINE j == [IdleJob EXCEPT !.meeting = n, !.request = q, !.made = made]
    <3>1. pc' = [pc EXCEPT ![w] = "claim"] /\ job' = [job EXCEPT ![w] = j]
      BY <2>5 DEF Begin, Goto
    <3>2. j.cal = 0
      BY DEF IdleJob
    <3> QED
      BY <2>1, <2>2, <2>3, <3>1, <3>2, Leaves
  <2> QED
    BY <1>1, <2>4, <2>5 DEF RegisterNew, RegisterExisting
<1>2. ASSUME ClaimRefused(w) \/ NoCapacity(w) \/ PresetWithdrawn(w)
      PROVE  CreationInv'
  <2>1. PICK j : pc' = [pc EXCEPT ![w] = "done"] /\ job' = [job EXCEPT ![w] = j]
    BY <1>2 DEF ClaimRefused, NoCapacity, PresetWithdrawn, Answer, Goto
  <2>2. UNCHANGED <<row, created, orphans>>
    BY <1>2 DEF ClaimRefused, NoCapacity, PresetWithdrawn, provider
  <2> QED
    BY <2>1, <2>2, Leaves DEF CreationInv, WorkerKnowledge, Knows
<1>3. CASE ClaimReplay(w)
  <2>1. pc' = [pc EXCEPT ![w] = "token"] /\ job' = [job EXCEPT ![w] = job[w]]
    BY <1>3 DEF ClaimReplay, Goto, TypeOK
  <2>2. UNCHANGED <<row, created, orphans>>
    BY <1>3 DEF ClaimReplay, provider
  <2> QED
    BY <2>1, <2>2, Leaves DEF CreationInv, WorkerKnowledge, Knows
<1>4. ASSUME Claimable(w) PROVE row[m].status \in OpenStatuses /\ m \in Meetings
  <2>1. m \in Meetings /\ row[m].status \in Statuses \cup {"ABSENT"}
    BY <1>4 DEF Claimable, AtClaim, TypeOK, Rows
  <2> QED
    BY <1>4, <2>1 DEF Claimable, Refusal, Replayed, OpenStatuses, Statuses
<1>5. CASE ClaimAllocate(w)
  <2>1. /\ row[m].status \in OpenStatuses /\ m \in Meetings
        /\ pc[w] = "claim" /\ ~Locked(m)
    BY <1>4, <1>5 DEF ClaimAllocate, Claimable, AtClaim
  <2>2. /\ \A v \in Workers : v # w => pc'[v] = pc[v] /\ job'[v] = job[v]
        /\ pc'[w] = "alloc" /\ job'[w].meeting = m /\ job'[w].cal = job[w].cal
        /\ UNCHANGED <<row, created, orphans>>
    BY <1>5 DEF ClaimAllocate, Goto, TypeOK, Jobs, provider
  <2>3. OneCreator'
    BY <2>1, <2>2 DEF CreationInv, OneCreator, Engaged, Locked
  <2>4. OpenIsUntouched'
    BY <2>2 DEF CreationInv, OpenIsUntouched, Engaged, Untouched
  <2>5. WorkerKnowledge'
    BY <2>1, <2>2 DEF CreationInv, WorkerKnowledge, Knows, Untouched
  <2> QED
    BY <2>2, <2>3, <2>4, <2>5 DEF CreationInv, AtMostOneProviderMeeting
<1>6. CASE SkipRoom(w)
  <2>1. /\ pc' = pc
        /\ \A v \in Workers : /\ job'[v].meeting = job[v].meeting
                              /\ job'[v].cal = job[v].cal
                              /\ job'[v].out = job[v].out
        /\ UNCHANGED <<row, created, orphans>>
    BY <1>6 DEF SkipRoom, TypeOK, Jobs, provider
  <2>2. OneCreator'
    BY <2>1 DEF CreationInv, OneCreator, Engaged
  <2>3. OpenIsUntouched'
    BY <2>1 DEF CreationInv, OpenIsUntouched, Engaged, Untouched
  <2>4. WorkerKnowledge'
    BY <2>1 DEF CreationInv, WorkerKnowledge, Knows, Untouched
  <2> QED
    BY <2>1, <2>2, <2>3, <2>4 DEF CreationInv, AtMostOneProviderMeeting
<1>7. CASE ClaimResume(w) \/ ReserveRoom(w)
  <2>1. /\ row[m].status \in OpenStatuses /\ m \in Meetings /\ job[w].cal = 0
        /\ \A v \in Workers : v # w /\ job[v].meeting = m => pc[v] # "alloc"
    <3>1. CASE ClaimResume(w)
      BY <1>4, <3>1 DEF ClaimResume, Claimable, AtClaim, Locked, CreationInv,
                        WorkerKnowledge, Knows
    <3>2. CASE ReserveRoom(w)
      BY <3>2 DEF ReserveRoom, TypeOK, CreationInv, WorkerKnowledge, Knows,
                  OneCreator
    <3> QED
      BY <1>7, <3>1, <3>2
  <2>2. /\ \A v \in Workers : v # w => pc'[v] = pc[v] /\ job'[v] = job[v]
        /\ pc'[w] = "auth" /\ job'[w].meeting = m /\ job'[w].cal = job[w].cal
        /\ UNCHANGED <<created, orphans>>
    <3>1. CASE ClaimResume(w)
      BY <3>1 DEF ClaimResume, Goto, TypeOK, Jobs, provider
    <3>2. CASE ReserveRoom(w)
      BY <3>2 DEF ReserveRoom, Goto, TypeOK, Jobs, provider
    <3> QED
      BY <1>7, <3>1, <3>2
  <2>3. /\ \A n \in Meetings : n # m => row'[n] = row[n]
        /\ row'[m].status = "PROVISIONING"
    <3>1. CASE ClaimResume(w)
      BY <2>1, <3>1 DEF ClaimResume, TypeOK, Rows
    <3>2. CASE ReserveRoom(w)
      BY <2>1, <3>2 DEF ReserveRoom, TypeOK, Rows
    <3> QED
      BY <1>7, <3>1, <3>2
  <2>4. Untouched(m) /\ \A v \in Workers : Engaged(v) => job[v].meeting # m
    BY <2>1 DEF CreationInv, OpenIsUntouched
  <2>5. OneCreator'
    BY <2>2, <2>4 DEF CreationInv, OneCreator, Engaged
  <2>6. OpenIsUntouched'
    BY <2>2, <2>3 DEF CreationInv, OpenIsUntouched, Engaged, Untouched, OpenStatuses
  <2>7. ASSUME NEW v \in Workers PROVE Knows(v)'
    <3>1. CASE v = w
      BY <2>1, <2>2, <2>4, <3>1 DEF Knows, Untouched
    <3>2. CASE v # w
      <4>1. pc[v] = "alloc" => job[v].meeting # m /\ job[v].meeting \in Meetings
        BY <2>1, <3>2 DEF TypeOK
      <4> QED
        BY <2>2, <2>3, <3>2, <4>1 DEF CreationInv, WorkerKnowledge, Knows, Untouched
    <3> QED
      BY <3>1, <3>2
  <2> QED
    BY <2>2, <2>5, <2>6, <2>7 DEF CreationInv, WorkerKnowledge, AtMostOneProviderMeeting
<1> QED
  BY <1>1, <1>2, <1>3, <1>5, <1>6, <1>7 DEF Register, Claim, Allocate

\* A worker in the provider call is the only one concerned with its meeting,
\* and the row is not claimable meanwhile.
LEMMA EngagedAlone ==
    ASSUME TypeOK, CreationInv, NEW w \in Workers, Engaged(w)
    PROVE  /\ job[w].meeting \in Meetings
           /\ row[job[w].meeting].status \notin OpenStatuses
           /\ \A v \in Workers : v # w /\ job[v].meeting = job[w].meeting
                                    => ~Engaged(v) /\ pc[v] # "alloc"
<1>1. job[w].meeting \in Meetings
  BY DEF Engaged, TypeOK
<1>2. row[job[w].meeting].status \notin OpenStatuses
  BY <1>1 DEF CreationInv, OpenIsUntouched
<1> QED
  BY <1>1, <1>2 DEF CreationInv, OneCreator, WorkerKnowledge, Knows

\* A step inside the provider call, or out of it by an abort, may change what
\* the provider has of the worker's own meeting.
LEMMA Moves ==
    ASSUME TypeOK, CreationInv, NEW w \in Workers, Engaged(w),
           NEW label \in {"idle", "auth", "sent", "error", "save"}, NEW j,
           label # "idle" => j.meeting = job[w].meeting,
           pc' = [pc EXCEPT ![w] = label], job' = [job EXCEPT ![w] = j],
           row' = row,
           \A n \in Meetings : n # job[w].meeting =>
                 created'[n] = created[n] /\ orphans'[n] = orphans[n],
           created'[job[w].meeting] + orphans'[job[w].meeting] <= 1,
           Knows(w)'
    PROVE  CreationInv'
<1> DEFINE m == job[w].meeting
<1>1. /\ m \in Meetings /\ row[m].status \notin OpenStatuses
      /\ \A v \in Workers : v # w /\ job[v].meeting = m
                               => ~Engaged(v) /\ pc[v] # "alloc"
  BY EngagedAlone
<1>2. \A v \in Workers : v # w => pc'[v] = pc[v] /\ job'[v] = job[v]
  BY DEF TypeOK
<1>3. pc'[w] = label /\ job'[w] = j
  BY DEF TypeOK
<1>4. OneCreator'
  BY <1>1, <1>2, <1>3 DEF CreationInv, OneCreator, Engaged
<1>5. OpenIsUntouched'
  BY <1>1, <1>2, <1>3 DEF CreationInv, OpenIsUntouched, Engaged, Untouched
<1>6. ASSUME NEW v \in Workers, v # w PROVE Knows(v)'
  <2>1. CASE job[v].meeting = m
    BY <1>1, <1>2, <1>6, <2>1 DEF CreationInv, WorkerKnowledge, Knows, Engaged
  <2>2. CASE job[v].meeting # m /\ pc[v] # "idle"
    <3>1. job[v].meeting \in Meetings
      BY <2>2 DEF TypeOK
    <3> QED
      BY <1>2, <1>6, <2>2, <3>1 DEF CreationInv, WorkerKnowledge, Knows, Untouched
  <2>3. CASE pc[v] = "idle"
    BY <1>2, <1>6, <2>3 DEF Knows
  <2> QED
    BY <2>1, <2>2, <2>3
<1>7. AtMostOneProviderMeeting'
  BY <1>1 DEF CreationInv, AtMostOneProviderMeeting
<1> QED
  BY <1>4, <1>5, <1>6, <1>7 DEF CreationInv, WorkerKnowledge

\* An error of get_token is definite.
LEMMA AuthErrorsDefinite ==
    \A o \in AuthErrors \cup {RoomInactive} : ~o.ambiguous /\ ~o.known
<1>1. ASSUME NEW x PROVE LET o == Authenticate(x) IN ~o.ambiguous /\ ~o.known
  BY DEF Authenticate, RequestError, HttpError, Malformed, Success, ProviderError
<1> QED
  BY <1>1 DEF AuthErrors, AuthBusy, TokenExpired, RoomInactive, ProviderError

\* The provider call preserves CreationInv.
LEMMA CallCreation ==
    ASSUME TypeOK, CreationInv, NEW w \in Workers,
           AuthFails(w) \/ Transmit(w) \/ Receive(w) \/ ProviderCreates(w)
    PROVE  CreationInv'
<1> DEFINE m == job[w].meeting
<1>1. Engaged(w)
  BY DEF AuthFails, Transmit, Receive, ReceiveResult, ReceiveUnauthorized,
         ReceiveError, Delivered, ProviderCreates, Engaged
<1>2. /\ m \in Meetings /\ created[m] \in Nat /\ orphans[m] \in Nat
      /\ created[m] + orphans[m] <= 1 /\ job[w] \in Jobs
  BY <1>1, EngagedAlone DEF TypeOK, CreationInv, AtMostOneProviderMeeting
<1>3. Knows(w)
  BY DEF CreationInv, WorkerKnowledge
<1>4. CASE AuthFails(w)
  <2>1. PICK out \in AuthErrors \cup {RoomInactive} :
           job' = [job EXCEPT ![w] = [job[w] EXCEPT !.out = out]]
    BY <1>4 DEF AuthFails
  <2>2. /\ pc[w] = "auth" /\ pc' = [pc EXCEPT ![w] = "error"]
        /\ UNCHANGED <<row, created, orphans>>
    BY <1>4 DEF AuthFails, Goto, provider
  <2>3. [job[w] EXCEPT !.out = out].meeting = m
    BY <1>2 DEF Jobs
  <2>4. Knows(w)'
    BY <1>2, <1>3, <2>1, <2>2, <2>3 DEF Knows, Untouched, TypeOK
  <2> QED
    BY <1>1, <1>2, <2>1, <2>2, <2>3, <2>4, Moves
<1>5. CASE Transmit(w)
  <2>1. /\ pc[w] = "auth" /\ pc' = [pc EXCEPT ![w] = "sent"]
        /\ job' = [job EXCEPT ![w] = job[w]]
        /\ UNCHANGED <<row, created, orphans>>
    BY <1>5 DEF Transmit, Goto, provider, TypeOK
  <2>2. Knows(w)'
    BY <1>3, <2>1 DEF Knows, Untouched, TypeOK
  <2> QED
    BY <1>1, <1>2, <2>1, <2>2, Moves
<1>6. CASE ProviderCreates(w)
  <2>1. /\ pc[w] = "sent" /\ job[w].cal = 0
        /\ pc' = [pc EXCEPT ![w] = "sent"]
        /\ job' = [job EXCEPT ![w] = [job[w] EXCEPT !.cal = created[m] + 1]]
        /\ created' = [created EXCEPT ![m] = @ + 1]
        /\ UNCHANGED <<row, orphans>>
    BY <1>6 DEF ProviderCreates, NewProviderMeeting, TypeOK
  <2>2. Untouched(m)
    BY <1>3, <2>1 DEF Knows
  <2> DEFINE j == [job[w] EXCEPT !.cal = created[m] + 1]
  <2>3. j.meeting = m /\ j.cal = 1
    BY <1>2, <2>2 DEF Jobs, Untouched
  <2>4. \A n \in Meetings : n # m => created'[n] = created[n] /\ orphans'[n] = orphans[n]
    BY <2>1 DEF TypeOK
  <2>5. created'[m] = 1 /\ orphans'[m] = 0
    BY <1>2, <2>1, <2>2 DEF TypeOK, Untouched
  <2>6. pc'[w] = "sent" /\ job'[w] = j
    BY <2>1 DEF TypeOK
  <2>7. Knows(w)'
    BY <2>3, <2>5, <2>6 DEF Knows
  <2>8. created'[m] + orphans'[m] <= 1
    BY <2>5
  <2> HIDE DEF j
  <2>9. job' = [job EXCEPT ![w] = j]
    BY <2>1 DEF j
  <2> QED
    BY <1>1, <2>1, <2>3, <2>4, <2>7, <2>8, <2>9, Moves
<1>7. ASSUME NEW x \in StartExchanges,
             \/ ReceiveResult(w, x) \/ ReceiveUnauthorized(w, x)
             \/ ReceiveError(w, x)
      PROVE  CreationInv'
  <2> DEFINE out == StartMeeting(x)
  <2>1. Delivered(w, x)
    BY <1>7 DEF ReceiveResult, ReceiveUnauthorized, ReceiveError
  <2>2. pc[w] = "sent" /\ UNCHANGED <<row, created>>
    BY <2>1 DEF Delivered
  <2>3. orphans[m] = 0 /\ (job[w].cal = 0 => created[m] = 0)
    BY <1>3, <2>2 DEF Knows, Untouched
  <2>4. /\ \A n \in Meetings : n # m => created'[n] = created[n] /\ orphans'[n] = orphans[n]
        /\ created'[m] + orphans'[m] <= 1
    BY <1>2, <2>1, <2>2, <2>3 DEF Delivered, TypeOK
  <2>5. ASSUME Refuses(x)
        PROVE  job[w].cal = 0 /\ created'[m] = 0 /\ orphans'[m] = 0
    BY <1>2, <2>1, <2>2, <2>3, <2>5 DEF Delivered
  <2>6. CASE ReceiveResult(w, x)
    <3>1. pc' = [pc EXCEPT ![w] = "save"] /\ job' = [job EXCEPT ![w] = job[w]]
      BY <2>6 DEF ReceiveResult, Goto, TypeOK
    <3>2. Knows(w)'
      BY <3>1 DEF Knows, TypeOK
    <3> QED
      BY <1>1, <2>2, <2>4, <3>1, <3>2, Moves
  <2>7. CASE ReceiveUnauthorized(w, x)
    <3>1. /\ pc' = [pc EXCEPT ![w] = "auth"]
          /\ job' = [job EXCEPT ![w] = [job[w] EXCEPT !.attempt = 2]]
          /\ out.status = 401
      BY <2>7 DEF ReceiveUnauthorized, Goto
    <3>2. Refuses(x)
      BY <3>1, DefiniteErrorsAreRefusals, ConstantsAssumption
    <3>3. LET j == [job[w] EXCEPT !.attempt = 2] IN j.meeting = m /\ j.cal = 0
      BY <1>2, <2>5, <3>2 DEF Jobs
    <3>4. Knows(w)'
      BY <2>5, <3>1, <3>2, <3>3 DEF Knows, Untouched, TypeOK
    <3> QED
      BY <1>1, <2>2, <2>4, <3>1, <3>3, <3>4, Moves
  <2>8. CASE ReceiveError(w, x)
    <3> DEFINE j == [job[w] EXCEPT !.out = out,
                                   !.cal = IF out.known THEN job[w].cal ELSE 0]
    <3>1. /\ pc' = [pc EXCEPT ![w] = "error"]
          /\ job' = [job EXCEPT ![w] = j]
          /\ out.code # "NONE"
      BY <2>8 DEF ReceiveError, Goto
    <3>2. j.meeting = m /\ j.out = out
      BY <1>2 DEF Jobs
    <3>3. ~out.ambiguous /\ ~out.known => Refuses(x)
      BY <3>1, DefiniteErrorsAreRefusals, ConstantsAssumption
    <3>4. pc'[w] = "error" /\ job'[w] = j
      BY <3>1 DEF TypeOK
    <3>5. Knows(w)'
      BY <2>5, <3>2, <3>3, <3>4 DEF Knows, Untouched
    <3> QED
      BY <1>1, <2>2, <2>4, <3>1, <3>2, <3>5, Moves
  <2> QED
    BY <1>7, <2>6, <2>7, <2>8
<1> QED
  BY <1>4, <1>5, <1>6, <1>7 DEF Receive

\* The transactions that store the outcome, and the answers, preserve
\* CreationInv.  Only the error path can make a row claimable again, and only
\* after an error by which nothing was created.
LEMMA StoreCreation ==
    ASSUME TypeOK, CreationInv, NEW w \in Workers, StoreOutcome(w) \/ Reply(w)
    PROVE  CreationInv'
<1> DEFINE m == job[w].meeting
<1>0. PICK label \in {"idle", "done"} : \E j :
         /\ pc' = [pc EXCEPT ![w] = label] /\ job' = [job EXCEPT ![w] = j]
         /\ created' = created /\ orphans' = orphans
  <2>1. CASE NextRequest(w)
    BY <2>1 DEF NextRequest, Goto, provider
  <2>2. CASE \/ RecordError(w) \/ RecordErrorFails(w) \/ SaveResult(w)
             \/ LateResponse(w) \/ ReplayAnswered(w) \/ ReplayTokenFails(w)
    <3>1. PICK code : Answer(w, code)
      BY <2>2 DEF RecordError, RecordErrorFails, SaveResult, LateResponse,
                  ReplayAnswered, ReplayTokenFails
    <3>2. created' = created /\ orphans' = orphans
      BY <2>2 DEF RecordError, RecordErrorFails, SaveResult, LateResponse,
                  ReplayAnswered, ReplayTokenFails, provider
    <3> QED
      BY <3>1, <3>2 DEF Answer, Goto
  <2> QED
    BY <2>1, <2>2 DEF StoreOutcome, Reply
<1>1. PICK j :
         /\ pc' = [pc EXCEPT ![w] = label] /\ job' = [job EXCEPT ![w] = j]
         /\ created' = created /\ orphans' = orphans
  BY <1>0
<1>2. ASSUME row' = row PROVE CreationInv'
  BY <1>1, <1>2, Leaves DEF CreationInv, WorkerKnowledge, Knows
<1>3. \A v \in Workers : pc[v] = "alloc" =>
         job[v].meeting \in Meetings /\ row[job[v].meeting].status \in OpenStatuses
  BY DEF TypeOK, CreationInv, WorkerKnowledge, Knows
<1>4. CASE SaveResult(w)
  <2>1. m \in Meetings /\ ~Locked(m)
    BY <1>4 DEF SaveResult, TypeOK
  <2>2. /\ \A n \in Meetings : n # m => row'[n] = row[n]
        /\ row'[m].status = "READY"
    BY <1>4, <2>1 DEF SaveResult, TypeOK, Rows
  <2>3. \A n \in Meetings : row'[n].status \in OpenStatuses
                                => row[n].status \in OpenStatuses
    BY <2>2 DEF OpenStatuses
  <2>4. \A v \in Workers : pc[v] = "alloc" =>
           row'[job[v].meeting].status \in OpenStatuses
    BY <1>3, <2>1, <2>2 DEF Locked
  <2> QED
    BY <1>1, <2>3, <2>4, Leaves
<1>5. CASE RecordError(w)
  <2> DEFINE out == job[w].out
  <2>1. pc[w] = "error" /\ m \in Meetings /\ ~Locked(m) /\ Engaged(w)
    BY <1>5 DEF RecordError, TypeOK, Engaged
  <2>2. /\ \A n \in Meetings : n # m => row'[n] = row[n]
        /\ row'[m].status = FailureStatus(out)
    BY <1>5, <2>1 DEF RecordError, FailedRow, TypeOK, Rows
  <2>3. \A v \in Workers : v # w => pc'[v] = pc[v] /\ job'[v] = job[v]
    BY <1>1 DEF TypeOK
  <2>4. pc'[w] = label
    BY <1>1 DEF TypeOK
  <2>5. \A v \in Workers \ {w} : pc[v] = "alloc" =>
           row'[job[v].meeting].status \in OpenStatuses
    BY <1>3, <2>1, <2>2 DEF Locked
  <2>6. CASE FailureStatus(out) \notin OpenStatuses
    <3>1. \A n \in Meetings : row'[n].status \in OpenStatuses
                                  => row[n].status \in OpenStatuses
      BY <2>2, <2>6
    <3> QED
      BY <1>1, <2>5, <3>1, Leaves
  <2>7. CASE FailureStatus(out) \in OpenStatuses
    <3>1. ~out.ambiguous /\ ~out.known
      BY <2>7 DEF FailureStatus, OpenStatuses
    <3>2. Untouched(m)
      BY <2>1, <3>1 DEF CreationInv, WorkerKnowledge, Knows
    <3>3. \A v \in Workers : v # w /\ Engaged(v) => job[v].meeting # m
      BY <2>1, EngagedAlone
    <3>4. OneCreator'
      BY <1>1, <2>3, <2>4 DEF CreationInv, OneCreator, Engaged
    <3>5. OpenIsUntouched'
      <4>1. ASSUME NEW n \in Meetings, row'[n].status \in OpenStatuses
            PROVE  /\ created'[n] = 0 /\ orphans'[n] = 0
                   /\ \A v \in Workers : Engaged(v)' => job'[v].meeting # n
        <5>1. CASE n = m
          BY <1>1, <2>3, <2>4, <3>2, <3>3, <5>1 DEF Engaged, Untouched
        <5>2. CASE n # m
          BY <1>1, <2>2, <2>3, <2>4, <4>1, <5>2
             DEF CreationInv, OpenIsUntouched, Engaged, Untouched
        <5> QED
          BY <5>1, <5>2
      <4> QED
        BY <4>1 DEF OpenIsUntouched, Untouched
    <3>6. ASSUME NEW v \in Workers PROVE Knows(v)'
      <4>1. CASE v = w
        BY <2>4, <4>1 DEF Knows
      <4>2. CASE v # w
        BY <1>1, <2>3, <2>5, <4>2 DEF CreationInv, WorkerKnowledge, Knows, Untouched
      <4> QED
        BY <4>1, <4>2
    <3> QED
      BY <1>1, <3>4, <3>5, <3>6
         DEF CreationInv, WorkerKnowledge, AtMostOneProviderMeeting
  <2> QED
    BY <2>6, <2>7
<1> QED
  BY <1>2, <1>4, <1>5 DEF StoreOutcome, Reply, RecordErrorFails, LateResponse,
     ReplayAnswered, ReplayTokenFails, NextRequest

\* So does a request that dies, even between transmission and answer.
LEMMA AbortCreation ==
    ASSUME TypeOK, CreationInv, NEW w \in Workers, Abort(w)
    PROVE  CreationInv'
<1> DEFINE m == job[w].meeting
<1>1. /\ pc' = [pc EXCEPT ![w] = "idle"] /\ job' = [job EXCEPT ![w] = IdleJob]
      /\ row' = row /\ created' = created /\ pc[w] # "idle"
  BY DEF Abort, Goto
<1>2. CASE pc[w] = "sent" /\ job[w].cal = 0
  <2>1. Engaged(w) /\ m \in Meetings
    BY <1>2 DEF Engaged, TypeOK
  <2>2. created[m] = 0 /\ orphans[m] = 0
    BY <1>2 DEF CreationInv, WorkerKnowledge, Knows, Untouched
  <2>3. orphans' = [orphans EXCEPT ![m] = @ + 1]
    BY <1>2 DEF Abort
  <2>4. created'[m] + orphans'[m] <= 1
    BY <1>1, <2>1, <2>2, <2>3 DEF TypeOK
  <2>5. \A n \in Meetings : n # m => created'[n] = created[n] /\ orphans'[n] = orphans[n]
    BY <1>1, <2>3 DEF TypeOK
  <2>6. pc'[w] = "idle"
    BY <1>1 DEF TypeOK
  <2>7. Knows(w)'
    BY <2>6 DEF Knows
  <2> QED
    BY <1>1, <2>1, <2>4, <2>5, <2>7, Moves
<1>3. CASE ~(pc[w] = "sent" /\ job[w].cal = 0)
  <2>1. orphans' = orphans
    BY <1>3 DEF Abort
  <2> QED
    BY <1>1, <2>1, Leaves DEF CreationInv, WorkerKnowledge, Knows
<1> QED
  BY <1>2, <1>3

\* The provider, the stale-row task, administrators and operators preserve
\* CreationInv, whether or not operators wait.
LEMMA EnvironmentCreation ==
    ASSUME TypeOK, CreationInv, Environment
    PROVE  CreationInv'
<1>1. \A v \in Workers : pc[v] = "alloc" =>
         job[v].meeting \in Meetings /\ row[job[v].meeting].status \in OpenStatuses
  BY DEF TypeOK, CreationInv, WorkerKnowledge, Knows
<1>2. ASSUME NEW m \in Meetings, OrphanCreates(m) \/ OrphanDropped(m)
      PROVE  CreationInv'
  <2>1. /\ created[m] \in Nat /\ orphans[m] \in Nat
        /\ created[m] + orphans[m] <= 1 /\ orphans[m] > 0
        /\ row' = row /\ pc' = pc /\ job' = job
    BY <1>2 DEF OrphanCreates, OrphanDropped, TypeOK, CreationInv,
                AtMostOneProviderMeeting
  <2>2. /\ \A n \in Meetings : n # m => created'[n] = created[n] /\ orphans'[n] = orphans[n]
        /\ created'[m] + orphans'[m] <= 1
    BY <1>2, <2>1 DEF OrphanCreates, OrphanDropped, NewProviderMeeting, TypeOK
  <2>3. ~Untouched(m)
    BY <2>1 DEF Untouched
  <2>4. OneCreator'
    BY <2>1 DEF CreationInv, OneCreator, Engaged
  <2>5. OpenIsUntouched'
    BY <2>1, <2>2, <2>3 DEF CreationInv, OpenIsUntouched, Engaged, Untouched
  <2>6. ASSUME NEW v \in Workers PROVE Knows(v)'
    <3>1. CASE job[v].meeting = m
      BY <2>1, <2>3, <3>1 DEF CreationInv, WorkerKnowledge, Knows
    <3>2. CASE job[v].meeting # m /\ pc[v] # "idle"
      <4>1. job[v].meeting \in Meetings
        BY <3>2 DEF TypeOK
      <4> QED
        BY <2>1, <2>2, <3>2, <4>1 DEF CreationInv, WorkerKnowledge, Knows, Untouched
    <3>3. CASE pc[v] = "idle"
      BY <2>1, <3>3 DEF Knows
    <3> QED
      BY <3>1, <3>2, <3>3
  <2> QED
    BY <2>2, <2>4, <2>5, <2>6 DEF CreationInv, WorkerKnowledge, AtMostOneProviderMeeting
<1>3. ASSUME NEW m \in Meetings, ProviderEnds(m)
      PROVE  CreationInv'
  BY <1>1, <1>3, Quiet DEF ProviderEnds
<1>4. ASSUME NEW m \in Meetings, Recover(m) \/ Cancel(m)
      PROVE  CreationInv'
  <2>1. /\ ~Locked(m) /\ \A n \in Meetings : n # m => row'[n] = row[n]
        /\ row'[m].status \in {"READY", "CANCELLED"}
        /\ UNCHANGED <<pc, job, created, orphans>>
    <3>1. CASE Recover(m)
      BY <3>1 DEF Recover, provider, TypeOK, Rows
    <3>2. CASE Cancel(m)
      BY <3>2 DEF Cancel, provider, TypeOK, Rows
    <3> QED
      BY <1>4, <3>1, <3>2
  <2>2. \A n \in Meetings : row'[n].status \in OpenStatuses
                                => row[n].status \in OpenStatuses
    BY <2>1 DEF OpenStatuses
  <2>3. \A v \in Workers : pc[v] = "alloc" =>
           row'[job[v].meeting].status \in OpenStatuses
    BY <1>1, <2>1 DEF Locked
  <2> QED
    BY <2>1, <2>2, <2>3, Quiet
<1>5. ASSUME NEW S \in SUBSET Meetings, FlagStale(S) \/ ConfirmProviderEnded(S)
      PROVE  CreationInv'
  <2>1. /\ \A n \in S : ~Locked(n)
        /\ UNCHANGED <<pc, job, created, orphans>>
    BY <1>5 DEF FlagStale, ConfirmProviderEnded, provider
  <2>2. \A n \in Meetings : IF n \in S
           THEN row'[n].status \in {"PROVIDER_STATE_UNKNOWN", "ENDED"}
           ELSE row'[n] = row[n]
    <3>1. CASE FlagStale(S)
      BY <3>1 DEF FlagStale, TypeOK, Rows
    <3>2. CASE ConfirmProviderEnded(S)
      <4>1. row' = [n \in Meetings |->
                      IF n \in S
                      THEN [row[n] EXCEPT !.status = "ENDED", !.active = FALSE]
                      ELSE row[n]]
        BY <3>2 DEF ConfirmProviderEnded
      <4>2. \A n \in Meetings : row[n] \in Rows
        BY DEF TypeOK
      <4>3. \A n \in Meetings :
               [row[n] EXCEPT !.status = "ENDED", !.active = FALSE].status = "ENDED"
        BY <4>2 DEF Rows
      <4> QED
        BY <4>1, <4>3
    <3> QED
      BY <1>5, <3>1, <3>2
  <2>3. \A n \in Meetings : row'[n].status \in OpenStatuses
                                => row[n].status \in OpenStatuses
    BY <2>2 DEF OpenStatuses
  <2>4. \A v \in Workers : pc[v] = "alloc" =>
           row'[job[v].meeting].status \in OpenStatuses
    BY <1>1, <2>1, <2>2 DEF Locked
  <2> QED
    BY <2>1, <2>3, <2>4, Quiet
<1>6. ASSUME NEW r \in Rooms, NEW o \in Presets \cup RoomFaults,
             ConfigureRoom(r, o)
      PROVE  CreationInv'
  BY <1>1, <1>6, Quiet DEF ConfigureRoom, provider
<1> QED
  BY <1>2, <1>3, <1>4, <1>5, <1>6 DEF Environment

\* Every step of the system preserves CreationInv.
LEMMA CreationStep == TypeOK /\ CreationInv /\ [Next]_vars => CreationInv'
<1>1. ASSUME TypeOK, CreationInv, NEW w \in Workers, Worker(w)
      PROVE  CreationInv'
  BY <1>1, ClaimCreation, CallCreation, StoreCreation, AbortCreation DEF Worker
<1>2. ASSUME TypeOK, CreationInv, UNCHANGED vars
      PROVE  CreationInv'
  <2>1. UNCHANGED <<row, pc, job, created, orphans>>
    BY <1>2 DEF vars
  <2> QED
    BY <1>2, <2>1, Quiet DEF CreationInv, WorkerKnowledge, Knows
<1> QED
  BY <1>1, <1>2, EnvironmentCreation DEF Next

\* Nothing was transmitted at the start.
LEMMA InitCreation == Init => CreationInv
<1> SUFFICES ASSUME Init PROVE CreationInv
  OBVIOUS
<1>1. \A w \in Workers : pc[w] = "idle"
  BY DEF Init
<1>2. \A m \in Meetings : created[m] = 0 /\ orphans[m] = 0
  BY DEF Init
<1>3. OneCreator /\ OpenIsUntouched
  BY <1>1, <1>2 DEF OneCreator, OpenIsUntouched, Engaged, Untouched
<1>4. WorkerKnowledge
  BY <1>1 DEF WorkerKnowledge, Knows
<1> QED
  BY <1>2, <1>3, <1>4 DEF CreationInv, AtMostOneProviderMeeting

\* However many requests, retries, crashes, late answers, flagged rows and
\* operators interleave, provision() leaves at most one Convay meeting that
\* exists or may still come to exist for a class.
THEOREM AtMostOnce == Spec => []AtMostOneProviderMeeting
<1>1. CreationInv => AtMostOneProviderMeeting
  BY DEF CreationInv
<1> QED
  BY <1>1, InitCreation, CreationStep, TypeCorrect, PTL DEF Spec

----------------------------------------------------------------------------
(***************************************************************************)
(* Rooms: no double booking, and a room is held exactly until its meeting  *)
(* is resolved.                                                            *)
(*                                                                         *)
(* The error path of provision() reserves again without looking at the     *)
(* status it overwrites.  That it does so for a row that has a room at all *)
(* is what BookingInv adds to the two properties.                          *)
(***************************************************************************)

\* Who is in the provider call of which meeting does not grow, except for
\* meetings that have a reservation.
LEMMA EngagedKeepRooms ==
    ASSUME BookingInv,
           \A n \in Meetings : HasRoom(n) => HasRoom(n)',
           \A v \in Workers : Engaged(v)' =>
               /\ job'[v].meeting \in Meetings
               /\ \/ Engaged(v) /\ job'[v].meeting = job[v].meeting
                  \/ HasRoom(job'[v].meeting)
    PROVE  \A v \in Workers : (Engaged(v) => HasRoom(job[v].meeting))'
<1> SUFFICES ASSUME NEW v \in Workers, Engaged(v)'
             PROVE  HasRoom(job[v].meeting)'
  OBVIOUS
<1>1. PICK n \in Meetings : n = job'[v].meeting /\ HasRoom(n)
  BY DEF BookingInv
<1>2. HasRoom(n)'
  BY <1>1
<1> QED
  BY <1>1, <1>2 DEF HasRoom

\* The new contents of one row keep reservations complete and disjoint when
\* they hold a room only by a free reservation, or by the one held before.
LEMMA OneRow ==
    ASSUME TypeOK, HoldsRoomUntilResolved, HeldDisjoint,
           NEW m \in Meetings, NEW r, row'[m] = r,
           \A n \in Meetings \ {m} : row'[n] = row[n],
           r.active <=> r.status \in HoldingStatuses,
           r.active => /\ r.room \in Rooms /\ r.slot # NoSlot
                       /\ r.reservation = Interval(r.slot)
                       /\ \/ ~SlotTaken(m, r.room, r.reservation)
                          \/ /\ row[m].active /\ row[m].room = r.room
                             /\ row[m].reservation = r.reservation
    PROVE  HoldsRoomUntilResolved' /\ HeldDisjoint'
<1>1. row'[m] = r /\ \A n \in Meetings : n # m => row'[n] = row[n]
  OBVIOUS
<1>2. HoldsRoomUntilResolved'
  BY <1>1 DEF HoldsRoomUntilResolved, Interval
<1>3. ASSUME r.active, NEW n \in Meetings \ {m},
             row[n].active, row[n].room = r.room
      PROVE  ~Overlap(r.reservation, row[n].reservation)
  <2>1. CASE ~SlotTaken(m, r.room, r.reservation)
    BY <1>3, <2>1 DEF SlotTaken, Overlap
  <2>2. CASE /\ row[m].active /\ row[m].room = r.room
             /\ row[m].reservation = r.reservation
    BY <1>3, <2>2 DEF HeldDisjoint
  <2> QED
    BY <1>3, <2>1, <2>2
<1>4. ASSUME NEW a \in Meetings, NEW b \in Meetings, a # b,
             row'[a].active, row'[b].active, row'[a].room = row'[b].room
      PROVE  ~Overlap(row'[a].reservation, row'[b].reservation)
  <2>1. CASE a = m
    BY <1>1, <1>3, <1>4, <2>1
  <2>2. CASE b = m
    BY <1>1, <1>3, <1>4, <2>2 DEF Overlap
  <2>3. CASE a # m /\ b # m
    BY <1>1, <1>4, <2>3 DEF HeldDisjoint
  <2> QED
    BY <2>1, <2>2, <2>3
<1>5. HeldDisjoint'
  BY <1>4 DEF HeldDisjoint, Overlap
<1> QED
  BY <1>2, <1>5

\* A step that leaves the table alone.
LEMMA SameRows ==
    ASSUME TypeOK, BookingInv, row' = row,
           \A v \in Workers : Engaged(v)' =>
               Engaged(v) /\ job'[v].meeting = job[v].meeting
    PROVE  BookingInv'
<1>1. HoldsRoomUntilResolved' /\ HeldDisjoint'
  BY DEF BookingInv, HoldsRoomUntilResolved, HeldDisjoint, Interval, Overlap
<1>2. \A n \in Meetings : HasRoom(n) => HasRoom(n)'
  BY DEF HasRoom, Interval
<1>3. \A v \in Workers : Engaged(v) => job[v].meeting \in Meetings
  BY DEF Engaged, TypeOK
<1> QED
  BY <1>1, <1>2, <1>3, EngagedKeepRooms DEF BookingInv

\* A row that is rewritten keeps a reservation it had.
LEMMA RoomKept ==
    ASSUME NEW m \in Meetings, NEW r, row'[m] = r,
           \A n \in Meetings \ {m} : row'[n] = row[n],
           \/ ~HasRoom(m)
           \/ r.room = row[m].room /\ r.slot = row[m].slot
              /\ r.reservation = row[m].reservation
           \/ r.room \in Rooms /\ r.slot # NoSlot
              /\ r.reservation = Interval(r.slot)
    PROVE  \A n \in Meetings : HasRoom(n) => HasRoom(n)'
<1>1. row'[m] = r /\ \A n \in Meetings : n # m => row'[n] = row[n]
  OBVIOUS
<1> QED
  BY <1>1 DEF HasRoom, Interval

\* A step of a request changes the variables of its own worker only.
LEMMA OwnStep ==
    ASSUME TypeOK, NEW w \in Workers, Worker(w)
    PROVE  \A v \in Workers \ {w} : pc'[v] = pc[v] /\ job'[v] = job[v]
<1>1. \/ \E label, j : pc' = [pc EXCEPT ![w] = label] /\ job' = [job EXCEPT ![w] = j]
      \/ \E label : pc' = [pc EXCEPT ![w] = label] /\ job' = job
      \/ \E j : pc' = pc /\ job' = [job EXCEPT ![w] = j]
  <2>1. CASE Register(w)
    BY <2>1 DEF Register, RegisterNew, RegisterExisting, RegisterMismatch,
                Begin, Goto
  <2>2. CASE Claim(w) \/ Allocate(w)
    BY <2>2 DEF Claim, ClaimReplay, ClaimRefused, ClaimResume, ClaimAllocate,
                Allocate, ReserveRoom, SkipRoom, NoCapacity, PresetWithdrawn,
                Answer, Goto
  <2>3. CASE AuthFails(w) \/ Transmit(w) \/ Receive(w)
    <3>1. CASE AuthFails(w) \/ Transmit(w)
      BY <3>1 DEF AuthFails, Transmit, Goto
    <3>2. CASE Receive(w)
      <4>1. PICK x : \/ ReceiveResult(w, x) \/ ReceiveUnauthorized(w, x)
                     \/ ReceiveError(w, x)
        BY <3>2 DEF Receive
      <4>2. CASE ReceiveResult(w, x)
        BY <4>2 DEF ReceiveResult, Goto
      <4>3. CASE ReceiveUnauthorized(w, x)
        BY <4>3 DEF ReceiveUnauthorized, Goto
      <4>4. CASE ReceiveError(w, x)
        BY <4>4 DEF ReceiveError, Goto
      <4> QED
        BY <4>1, <4>2, <4>3, <4>4
    <3> QED
      BY <2>3, <3>1, <3>2
  <2>4. CASE StoreOutcome(w) \/ Reply(w)
    BY <2>4 DEF StoreOutcome, RecordError, RecordErrorFails, SaveResult,
                LateResponse, Reply, ReplayAnswered, ReplayTokenFails,
                NextRequest, Answer, Goto
  <2>5. CASE Abort(w) \/ ProviderCreates(w)
    BY <2>5 DEF Abort, ProviderCreates, Goto
  <2> QED
    BY <2>1, <2>2, <2>3, <2>4, <2>5 DEF Worker
<1> QED
  BY <1>1 DEF TypeOK

\* Only ClaimResume and ReserveRoom make a worker work on a provider call.
LEMMA StaysEngaged ==
    ASSUME TypeOK, NEW w \in Workers, Worker(w), ~ClaimResume(w), ~ReserveRoom(w),
           Engaged(w)'
    PROVE  Engaged(w) /\ job'[w].meeting = job[w].meeting
<1>1. CASE \/ Register(w) \/ StoreOutcome(w) \/ Reply(w) \/ Abort(w)
           \/ ClaimReplay(w) \/ ClaimRefused(w) \/ ClaimAllocate(w)
           \/ NoCapacity(w) \/ PresetWithdrawn(w)
  <2>1. PICK label \in {"idle", "claim", "alloc", "token", "done"} :
           pc' = [pc EXCEPT ![w] = label]
    BY <1>1 DEF Register, RegisterNew, RegisterExisting, RegisterMismatch,
                Begin, StoreOutcome, RecordError, RecordErrorFails,
                SaveResult, LateResponse, Reply, ReplayAnswered,
                ReplayTokenFails, NextRequest, Abort, ClaimReplay,
                ClaimRefused, ClaimAllocate, NoCapacity, PresetWithdrawn,
                Answer, Goto
  <2> QED
    BY <2>1 DEF Engaged, TypeOK
<1>2. CASE SkipRoom(w)
  BY <1>2 DEF SkipRoom, Engaged
<1>3. CASE AuthFails(w) \/ Transmit(w) \/ Receive(w) \/ ProviderCreates(w)
  <2>1. Engaged(w)
    BY <1>3 DEF AuthFails, Transmit, Receive, ReceiveResult,
                ReceiveUnauthorized, ReceiveError, Delivered,
                ProviderCreates, Engaged
  <2>2. job'[w].meeting = job[w].meeting
    <3>1. job[w] \in Jobs
      BY DEF TypeOK
    <3>2. CASE AuthFails(w)
      BY <3>1, <3>2 DEF AuthFails, TypeOK, Jobs
    <3>3. CASE Transmit(w) \/ ProviderCreates(w)
      BY <3>1, <3>3 DEF Transmit, ProviderCreates, TypeOK, Jobs
    <3>4. CASE Receive(w)
      BY <3>1, <3>4 DEF Receive, ReceiveResult, ReceiveUnauthorized,
                        ReceiveError, TypeOK, Jobs
    <3> QED
      BY <1>3, <3>2, <3>3, <3>4
  <2> QED
    BY <2>1, <2>2
<1> QED
  BY <1>1, <1>2, <1>3 DEF Worker, Claim, Allocate

\* The steps of a request that write no row.
LEMMA ReadOnlyBooking ==
    ASSUME TypeOK, BookingInv, NEW w \in Workers, Worker(w), row' = row,
           ~ClaimResume(w), ~ReserveRoom(w)
    PROVE  BookingInv'
<1>1. \A v \in Workers : Engaged(v)' =>
         Engaged(v) /\ job'[v].meeting = job[v].meeting
  BY OwnStep, StaysEngaged DEF Engaged
<1> QED
  BY <1>1, SameRows

\* The steps of a request that write its row.
LEMMA WritingBooking ==
    ASSUME TypeOK, CreationInv, BookingInv, NEW w \in Workers,
           \/ Register(w) /\ row' # row
           \/ ClaimResume(w) \/ ReserveRoom(w) \/ RecordError(w) \/ SaveResult(w)
    PROVE  BookingInv'
<1>1. CASE Register(w) /\ row' # row
  <2>1. PICK m \in Meetings, q \in Requests : RegisterNew(w, m, q)
    BY <1>1 DEF Register, RegisterExisting, RegisterMismatch
  <2>2. /\ row'[m] = NewRow(q) /\ \A n \in Meetings \ {m} : row'[n] = row[n]
        /\ row[m].status = "ABSENT" /\ pc' = [pc EXCEPT ![w] = "claim"]
        /\ \A v \in Workers \ {w} : job'[v] = job[v]
    BY <2>1 DEF RegisterNew, Begin, Goto, TypeOK
  <2>3. ~NewRow(q).active /\ NewRow(q).status = "DRAFT"
    BY DEF NewRow, AbsentRow
  <2>4. HoldsRoomUntilResolved' /\ HeldDisjoint'
    BY <2>2, <2>3, OneRow DEF BookingInv, HoldingStatuses
  <2>5. \A v \in Workers : Engaged(v)' => /\ v # w /\ Engaged(v)
                                          /\ job'[v] = job[v]
                                          /\ job[v].meeting \in Meetings \ {m}
    BY <2>2 DEF Engaged, TypeOK, CreationInv, OpenIsUntouched, OpenStatuses
  <2>6. \A v \in Workers : (Engaged(v) => HasRoom(job[v].meeting))'
    BY <2>2, <2>5 DEF BookingInv, HasRoom, Interval
  <2> QED
    BY <2>4, <2>6 DEF BookingInv
<1>2. ASSUME pc[w] # "idle", NEW r, row'[job[w].meeting] = r,
             \A n \in Meetings \ {job[w].meeting} : row'[n] = row[n],
             r.active <=> r.status \in HoldingStatuses,
             r.room \in Rooms /\ r.slot # NoSlot /\ r.reservation = Interval(r.slot),
             r.active => \/ ~SlotTaken(job[w].meeting, r.room, r.reservation)
                         \/ /\ row[job[w].meeting].active
                            /\ row[job[w].meeting].room = r.room
                            /\ row[job[w].meeting].reservation = r.reservation,
             \A v \in Workers \ {w} : pc'[v] = pc[v] /\ job'[v] = job[v],
             job'[w].meeting = job[w].meeting
      PROVE  BookingInv'
  <2>1. job[w].meeting \in Meetings
    BY <1>2 DEF TypeOK
  <2>2. HoldsRoomUntilResolved' /\ HeldDisjoint'
    BY <1>2, <2>1, OneRow DEF BookingInv
  <2>3. \A n \in Meetings : HasRoom(n) => HasRoom(n)'
    BY <1>2, <2>1, RoomKept
  <2>4. ASSUME NEW v \in Workers, Engaged(v)' PROVE HasRoom(job[v].meeting)'
    <3>1. CASE v = w
      BY <1>2, <3>1 DEF HasRoom, Interval
    <3>2. CASE v # w
      <4>1. Engaged(v) /\ job'[v] = job[v] /\ job[v].meeting \in Meetings
        BY <1>2, <2>4, <3>2 DEF Engaged, TypeOK
      <4>2. PICK n \in Meetings : n = job[v].meeting /\ HasRoom(n)
        BY <4>1 DEF BookingInv
      <4>3. HasRoom(n)'
        BY <2>3, <4>2
      <4> QED
        BY <4>1, <4>2, <4>3 DEF HasRoom
    <3> QED
      BY <3>1, <3>2
  <2> QED
    BY <2>2, <2>4 DEF BookingInv
<1> DEFINE m == job[w].meeting
<1>3. ASSUME pc[w] # "idle" PROVE m \in Meetings /\ row[m] \in Rows
  BY <1>3 DEF TypeOK
<1>4. job[w] \in Jobs
  BY DEF TypeOK
<1>5. CASE ClaimResume(w)
  <2> DEFINE r == [row[m] EXCEPT !.status = "PROVISIONING"]
  <2>1. pc[w] # "idle" /\ row[m].active /\ m \in Meetings /\ row[m] \in Rows
    BY <1>3, <1>5 DEF ClaimResume, Claimable, AtClaim, Resumes
  <2>2. /\ row'[m] = r /\ \A n \in Meetings \ {m} : row'[n] = row[n]
        /\ \A v \in Workers \ {w} : pc'[v] = pc[v] /\ job'[v] = job[v]
        /\ job'[w].meeting = m
    BY <1>4, <1>5, <2>1 DEF ClaimResume, Goto, TypeOK, Jobs
  <2>3. /\ r.active = row[m].active /\ r.status = "PROVISIONING"
        /\ r.room = row[m].room /\ r.slot = row[m].slot
        /\ r.reservation = row[m].reservation
    BY <2>1 DEF Rows
  <2>4. HasRoom(m)
    BY <2>1 DEF BookingInv, HoldsRoomUntilResolved, HasRoom
  <2> HIDE DEF r
  <2> QED
    BY <1>2, <2>1, <2>2, <2>3, <2>4 DEF HasRoom, HoldingStatuses
<1>6. CASE ReserveRoom(w)
  <2> DEFINE slot == job[w].request.slot
  <2>1. pc[w] # "idle" /\ m \in Meetings /\ row[m] \in Rows
    BY <1>3, <1>6 DEF ReserveRoom
  <2>2. PICK x \in Rooms :
           /\ Eligible(m, x, slot)
           /\ row' = [row EXCEPT ![m] = [@ EXCEPT
                        !.status = "PROVISIONING", !.room = x, !.slot = slot,
                        !.reservation = Interval(slot), !.active = TRUE,
                        !.payload = Snapshot(w, x)]]
           /\ job' = [job EXCEPT ![w].rooms = {}, ![w].room = x]
    BY <1>6 DEF ReserveRoom
  <2>3. slot # NoSlot
    <3>1. job[w].request \in Requests
      BY <2>1 DEF TypeOK
    <3> QED
      BY <3>1, ConstantsAssumption DEF NoSlot
  <2> DEFINE r == [row[m] EXCEPT
                     !.status = "PROVISIONING", !.room = x, !.slot = slot,
                     !.reservation = Interval(slot), !.active = TRUE,
                     !.payload = Snapshot(w, x)]
  <2>4. /\ r.active /\ r.status = "PROVISIONING" /\ r.room = x
        /\ r.slot = slot /\ r.reservation = Interval(slot)
    BY <2>1 DEF Rows
  <2>5. row'[m] = r /\ \A n \in Meetings \ {m} : row'[n] = row[n]
    BY <2>1, <2>2 DEF TypeOK
  <2>6. /\ \A v \in Workers \ {w} : pc'[v] = pc[v] /\ job'[v] = job[v]
        /\ job'[w].meeting = m
    BY <1>4, <1>6, <2>1, <2>2 DEF ReserveRoom, Goto, TypeOK, Jobs
  <2>7. ~SlotTaken(m, r.room, r.reservation)
    BY <2>2, <2>4 DEF Eligible
  <2> HIDE DEF r
  <2> QED
    BY <1>2, <2>1, <2>3, <2>4, <2>5, <2>6, <2>7 DEF HoldingStatuses
<1>7. CASE RecordError(w)
  <2> DEFINE out == job[w].out
             r == FailedRow(row[m], out, job[w].cal)
  <2>1. pc[w] # "idle" /\ m \in Meetings /\ row[m] \in Rows /\ HasRoom(m)
    BY <1>3, <1>7 DEF RecordError, BookingInv, Engaged
  <2>2. /\ r.active = KeepsReservation(out) /\ r.status = FailureStatus(out)
        /\ r.room = row[m].room /\ r.slot = row[m].slot
        /\ r.reservation = row[m].reservation
    BY <2>1 DEF FailedRow, Rows
  <2>3. row'[m] = r /\ \A n \in Meetings \ {m} : row'[n] = row[n]
    BY <1>7, <2>1 DEF RecordError, TypeOK
  <2>4. /\ \A v \in Workers \ {w} : pc'[v] = pc[v] /\ job'[v] = job[v]
        /\ job'[w].meeting = m
    BY <1>4, <1>7 DEF RecordError, Answer, Goto, TypeOK, IdleJob
  <2>5. r.active => ~SlotTaken(m, r.room, r.reservation)
    BY <1>7 DEF RecordError, Saves, Storable
  <2>6. KeepsReservation(out) <=> FailureStatus(out) \in HoldingStatuses
    BY DEF KeepsReservation, FailureStatus, HoldingStatuses
  <2> HIDE DEF r
  <2> QED
    BY <1>2, <2>1, <2>2, <2>3, <2>4, <2>5, <2>6 DEF HasRoom
<1>8. CASE SaveResult(w)
  <2> DEFINE r == [row[m] EXCEPT
                  !.calendar = Either(row[m].calendar, job[w].cal),
                  !.url = TRUE, !.status = "READY", !.error = "NONE"]
  <2>1. /\ pc[w] # "idle" /\ m \in Meetings /\ row[m] \in Rows /\ HasRoom(m)
        /\ row[m].status \in AwaitsResult
    BY <1>3, <1>8 DEF SaveResult, BookingInv, Engaged
  <2>2. /\ r.active = row[m].active /\ r.status = "READY"
        /\ r.room = row[m].room /\ r.slot = row[m].slot
        /\ r.reservation = row[m].reservation
    BY <2>1 DEF Rows
  <2>3. row'[m] = r /\ \A n \in Meetings \ {m} : row'[n] = row[n]
    BY <1>8, <2>1 DEF SaveResult, TypeOK
  <2>4. /\ \A v \in Workers \ {w} : pc'[v] = pc[v] /\ job'[v] = job[v]
        /\ job'[w].meeting = m
    BY <1>4, <1>8 DEF SaveResult, Answer, Goto, TypeOK, IdleJob
  <2>5. row[m].active
    BY <2>1 DEF BookingInv, HoldsRoomUntilResolved, HoldingStatuses, AwaitsResult
  <2> HIDE DEF r
  <2> QED
    BY <1>2, <2>1, <2>2, <2>3, <2>4, <2>5 DEF HasRoom, HoldingStatuses
<1> QED
  BY <1>1, <1>5, <1>6, <1>7, <1>8

\* The stale-row task, administrators and operators only keep or release
\* reservations.
LEMMA EnvironmentBooking ==
    ASSUME TypeOK, BookingInv, Environment
    PROVE  BookingInv'
<1>1. ASSUME NEW m \in Meetings,
             OrphanCreates(m) \/ OrphanDropped(m) \/ ProviderEnds(m)
      PROVE  BookingInv'
  BY <1>1, SameRows DEF OrphanCreates, OrphanDropped, ProviderEnds, Engaged
<1>2. ASSUME NEW r \in Rooms, NEW o \in Presets \cup RoomFaults,
             ConfigureRoom(r, o)
      PROVE  BookingInv'
  BY <1>2, SameRows DEF ConfigureRoom, Engaged
\* A row keeps its room; it is held afterwards only if it was before.
<1> DEFINE Keeps(n, r) ==
             /\ r.room = row[n].room /\ r.slot = row[n].slot
             /\ r.reservation = row[n].reservation
             /\ r.active => row[n].active
             /\ r.active <=> r.status \in HoldingStatuses
<1>3. ASSUME pc' = pc, job' = job, \A n \in Meetings : Keeps(n, row'[n])
      PROVE  BookingInv'
  <2>1. HoldsRoomUntilResolved'
    BY <1>3 DEF BookingInv, HoldsRoomUntilResolved, Interval
  <2>2. HeldDisjoint'
    BY <1>3 DEF BookingInv, HeldDisjoint, Overlap
  <2>3. \A n \in Meetings : HasRoom(n) => HasRoom(n)'
    BY <1>3 DEF HasRoom, Interval
  <2>4. \A v \in Workers : Engaged(v)' =>
           /\ job'[v].meeting \in Meetings
           /\ Engaged(v) /\ job'[v].meeting = job[v].meeting
    BY <1>3 DEF Engaged, TypeOK
  <2> QED
    BY <2>1, <2>2, <2>3, <2>4, EngagedKeepRooms DEF BookingInv
<1>4. \A n \in Meetings : /\ row[n] \in Rows
                          /\ row[n].active <=> row[n].status \in HoldingStatuses
  BY DEF TypeOK, BookingInv, HoldsRoomUntilResolved
<1>5. \A n \in Meetings : Keeps(n, row[n])
  BY <1>4
<1>6. ASSUME NEW m \in Meetings, Recover(m)
      PROVE  BookingInv'
  <2>1. PICK c : row' = [row EXCEPT ![m] = [row[m] EXCEPT
                    !.calendar = c, !.url = TRUE, !.status = "READY",
                    !.active = TRUE, !.error = "NONE"]]
    BY <1>6 DEF Recover
  <2> DEFINE r == [row[m] EXCEPT !.calendar = c, !.url = TRUE, !.status = "READY",
                                 !.active = TRUE, !.error = "NONE"]
  <2>2. pc' = pc /\ job' = job /\ row[m].active
    BY <1>4, <1>6 DEF Recover, HoldingStatuses
  <2>3. Keeps(m, r)
    BY <1>4, <2>2 DEF Rows, HoldingStatuses
  <2>4. \A n \in Meetings : row'[n] = IF n = m THEN r ELSE row[n]
    BY <2>1 DEF TypeOK
  <2> HIDE DEF Keeps, r
  <2>5. \A n \in Meetings : Keeps(n, row'[n])
    BY <1>5, <2>3, <2>4
  <2> QED
    BY <1>3, <2>2, <2>5
<1>7. ASSUME NEW m \in Meetings, Cancel(m)
      PROVE  BookingInv'
  <2> DEFINE r == [row[m] EXCEPT !.status = "CANCELLED", !.active = FALSE]
  <2>1. pc' = pc /\ job' = job
    BY <1>7 DEF Cancel
  <2>2. Keeps(m, r)
    BY <1>4 DEF Rows, HoldingStatuses
  <2>3. \A n \in Meetings : row'[n] = IF n = m THEN r ELSE row[n]
    BY <1>7 DEF Cancel, TypeOK
  <2> HIDE DEF Keeps, r
  <2>4. \A n \in Meetings : Keeps(n, row'[n])
    BY <1>5, <2>2, <2>3
  <2> QED
    BY <1>3, <2>1, <2>4
<1>8. ASSUME NEW S \in SUBSET Meetings, FlagStale(S)
      PROVE  BookingInv'
  <2> DEFINE r(n) == [row[n] EXCEPT !.status = "PROVIDER_STATE_UNKNOWN",
                                    !.error = "PROVISIONING_INTERRUPTED"]
  <2>1. /\ pc' = pc /\ job' = job
        /\ \A n \in S : row[n].status = "PROVISIONING"
        /\ row' = [n \in Meetings |-> IF n \in S THEN r(n) ELSE row[n]]
    BY <1>8 DEF FlagStale
  <2>2. ASSUME NEW n \in S PROVE Keeps(n, r(n))
    BY <1>4, <2>1, ZenonT(40) DEF Rows, HoldingStatuses
  <2> HIDE DEF Keeps, r
  <2>3. \A n \in Meetings : Keeps(n, row'[n])
    BY <1>5, <2>1, <2>2
  <2> QED
    BY <1>3, <2>1, <2>3
<1>9. ASSUME NEW S \in SUBSET Meetings, ConfirmProviderEnded(S)
      PROVE  BookingInv'
  <2> DEFINE r(n) == [row[n] EXCEPT !.status = "ENDED", !.active = FALSE]
  <2>1. /\ pc' = pc /\ job' = job
        /\ row' = [n \in Meetings |-> IF n \in S THEN r(n) ELSE row[n]]
    BY <1>9 DEF ConfirmProviderEnded
  <2>2. ASSUME NEW n \in S PROVE Keeps(n, r(n))
    BY <1>4 DEF Rows, HoldingStatuses
  <2> HIDE DEF Keeps, r
  <2>3. \A n \in Meetings : Keeps(n, row'[n])
    BY <1>5, <2>1, <2>2
  <2> QED
    BY <1>3, <2>1, <2>3
<1> QED
  BY <1>1, <1>2, <1>6, <1>7, <1>8, <1>9 DEF Environment

\* The steps of a request that write a row.
LEMMA RowWriters ==
    ASSUME NEW w \in Workers, Worker(w)
    PROVE  \/ row' = row /\ ~ClaimResume(w) /\ ~ReserveRoom(w)
           \/ Register(w) /\ row' # row
           \/ ClaimResume(w) \/ ReserveRoom(w) \/ RecordError(w) \/ SaveResult(w)
<1>1. CASE \/ Register(w) \/ ClaimResume(w) \/ ReserveRoom(w)
           \/ RecordError(w) \/ SaveResult(w)
  BY <1>1
<1>2. CASE \/ ClaimReplay(w) \/ ClaimRefused(w) \/ ClaimAllocate(w)
           \/ SkipRoom(w) \/ NoCapacity(w) \/ PresetWithdrawn(w)
           \/ AuthFails(w) \/ Transmit(w)
           \/ Reply(w) \/ Abort(w) \/ ProviderCreates(w)
           \/ RecordErrorFails(w) \/ LateResponse(w)
  BY <1>2 DEF ClaimReplay, ClaimRefused, ClaimAllocate, SkipRoom,
              NoCapacity, PresetWithdrawn, AuthFails, Transmit, Reply,
              ReplayAnswered, ReplayTokenFails, NextRequest, Abort,
              ProviderCreates, RecordErrorFails, LateResponse
<1>3. CASE Receive(w)
  BY <1>3 DEF Receive, ReceiveResult, ReceiveUnauthorized, ReceiveError,
              Delivered
<1> QED
  BY <1>1, <1>2, <1>3 DEF Worker, Claim, Allocate, StoreOutcome

\* Every step of the system preserves BookingInv.
LEMMA BookingStep ==
    TypeOK /\ CreationInv /\ BookingInv /\ [Next]_vars => BookingInv'
<1>1. ASSUME TypeOK, CreationInv, BookingInv, NEW w \in Workers, Worker(w)
      PROVE  BookingInv'
  BY <1>1, RowWriters, ReadOnlyBooking, WritingBooking
<1>2. ASSUME TypeOK, BookingInv, UNCHANGED vars
      PROVE  BookingInv'
  BY <1>2, SameRows DEF vars, Engaged
<1> QED
  BY <1>1, <1>2, EnvironmentBooking DEF Next

\* No row of an earlier release holds a room.
LEMMA InitBooking == Init => BookingInv
<1> SUFFICES ASSUME Init PROVE BookingInv
  OBVIOUS
<1>1. \A m \in Meetings : ~row[m].active /\ row[m].status \notin HoldingStatuses
  <2>1. ~AbsentRow.active /\ AbsentRow.status \notin HoldingStatuses
    BY DEF AbsentRow, HoldingStatuses
  <2>2. \A s \in LegacyStatuses, q \in Requests :
           /\ ~LegacyRow(s, q).active
           /\ LegacyRow(s, q).status \notin HoldingStatuses
    BY ConstantsAssumption DEF LegacyRow, AbsentRow, HoldingStatuses
  <2>3. \A m \in Meetings : row[m] \in {AbsentRow} \cup
           {LegacyRow(s, q) : s \in LegacyStatuses, q \in Requests}
    BY DEF Init
  <2> QED
    BY <2>1, <2>2, <2>3
<1>2. \A w \in Workers : ~Engaged(w)
  BY DEF Init, Engaged
<1> QED
  BY <1>1, <1>2 DEF BookingInv, HoldsRoomUntilResolved, HeldDisjoint

\* The inductive invariant holds in every reachable state.
LEMMA BookingInvariant == Spec => []BookingInv
<1> QED
  BY InitBooking, InitCreation, CreationStep, BookingStep, TypeCorrect, PTL DEF Spec

\* Two meetings that hold the same room are apart by both buffers, whichever
\* of allocation, retry, error path and recovery made them hold it.
THEOREM RoomsNotDoubleBooked == Spec => []NoDoubleBooking
<1>1. TypeOK /\ BookingInv => NoDoubleBooking
  <2> SUFFICES ASSUME TypeOK, BookingInv,
                      NEW m \in Meetings, NEW n \in Meetings, m # n,
                      row[m].active, row[n].active, row[m].room = row[n].room
               PROVE  \/ row[m].slot.end + BufferAfter + BufferBefore <= row[n].slot.start
                      \/ row[n].slot.end + BufferAfter + BufferBefore <= row[m].slot.start
    BY DEF NoDoubleBooking
  <2>1. ~Overlap(Interval(row[m].slot), Interval(row[n].slot))
    BY DEF BookingInv, HoldsRoomUntilResolved, HeldDisjoint
  <2>2. /\ row[m].slot \in [start : Nat, end : Nat]
        /\ row[n].slot \in [start : Nat, end : Nat]
    BY DEF TypeOK, Rows
  <2> QED
    BY <2>1, <2>2, ConstantsAssumption DEF Overlap, Interval
<1> QED
  BY <1>1, BookingInvariant, TypeCorrect, PTL

\* A meeting that exists, may exist or will be retried holds its room, and one
\* that is resolved holds none.
THEOREM RoomsHeldUntilResolved == Spec => []HoldsRoomUntilResolved
<1>1. BookingInv => HoldsRoomUntilResolved
  BY DEF BookingInv
<1> QED
  BY <1>1, BookingInvariant, PTL
=============================================================================
