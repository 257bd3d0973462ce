---------------------------- MODULE OutcomeProofs ----------------------------
(***************************************************************************)
(* What the stored outcome of a request is worth, for every set of         *)
(* meetings, rooms, workers, requests and provider answers: a READY row    *)
(* names a Convay meeting, an answer is about the meeting that was asked   *)
(* for, a meeting that runs holds its room, and what was decided stays.    *)
(*                                                                         *)
(* None of these is inductive.  OutcomeInv adds what a worker knows at each*)
(* point of its request, and which rows nothing but that worker changes.   *)
(***************************************************************************)
EXTENDS ProvisioningProofs

\* start_meeting reports success only for an answer that names a meeting.
LEMMA SuccessIsConfirmed ==
    ASSUME NEW x \in Exchanges, StartMeeting(x).code = "NONE"
    PROVE  Confirms(x)
<1>1. x.status \in 0..599 /\ x.body \in Bodies
      /\ x.kind \in {"connect", "transport", "response"}
  BY DEF Exchanges
<1>2. x.kind = "response"
  BY DEF StartMeeting, RequestError, ProviderError
<1>3. IsSuccess(x.status)
  BY <1>2 DEF StartMeeting, HttpError, HttpCode, ProviderError
<1>4. ParseMeeting(x.status, x.body).code = "NONE"
  BY <1>2, <1>3 DEF StartMeeting
<1>5. x.body.envelope \in Envelopes
  BY <1>1 DEF Bodies
<1>6. x.body.envelope = "object" /\ x.body.calendar = "valid"
  BY <1>4, <1>5 DEF ParseMeeting, Malformed, ProviderError, Envelopes
<1> QED
  BY <1>2, <1>3, <1>6 DEF Confirms

\* Nobody has started at the beginning, and rows of earlier releases have
\* neither a room nor a meeting.
LEMMA InitOutcome == Init => OutcomeInv
<1> SUFFICES ASSUME Init PROVE OutcomeInv
  OBVIOUS
<1>1. ASSUME NEW m \in Meetings PROVE SoundRow(m)
  <2>1. \/ row[m] = AbsentRow
        \/ \E s \in LegacyStatuses, q \in Requests : row[m] = LegacyRow(s, q)
    BY DEF Init
  <2>2. /\ row[m].calendar = 0 /\ row[m].room = NoRoom
        /\ row[m].status \in {"ABSENT"} \cup LegacyStatuses
        /\ row[m].slot = NoSlot
    <3>1. /\ AbsentRow.calendar = 0 /\ AbsentRow.room = NoRoom
          /\ AbsentRow.status = "ABSENT" /\ AbsentRow.slot = NoSlot
      BY DEF AbsentRow
    <3>2. \A s, q : /\ LegacyRow(s, q).calendar = 0
                    /\ LegacyRow(s, q).room = NoRoom
                    /\ LegacyRow(s, q).status = s
                    /\ LegacyRow(s, q).slot = NoSlot
      BY DEF LegacyRow, AbsentRow
    <3> QED
      BY <2>1, <3>1, <3>2
  <2>3. created[m] = 0 /\ live[m] = {} /\ orphans[m] = 0
    BY DEF Init
  <2>4. LegacyStatuses \subseteq {"DRAFT", "FAILED"}
    BY ConstantsAssumption
  <2>5. NoLegacyDrafts => row[m].status \in {"ABSENT", "FAILED", "CANCELLED"}
    BY <2>2, <2>4 DEF NoLegacyDrafts
  <2>6. row[m].status \in {"ABSENT", "DRAFT", "FAILED"}
    BY <2>2, <2>4
  <2> QED
    BY <2>2, <2>3, <2>5, <2>6 DEF SoundRow, Untouched
<1>2. \A w \in Workers : pc[w] = "idle" /\ job[w] = IdleJob
  BY DEF Init
<1> QED
  BY <1>1, <1>2 DEF OutcomeInv

\* The part of OutcomeInv about one worker.
SoundWorker(w) == IF pc[w] = "idle" THEN job[w] = IdleJob ELSE SoundJob(w)

\* What the row of a meeting may become, and its creations, without a worker
\* that waits or talks elsewhere having to know.
LEMMA Bystander ==
    ASSUME TypeOK, OutcomeInv, NEW v \in Workers, pc'[v] = pc[v], job'[v] = job[v],
           NEW m \in Meetings, job[v].meeting = m,
           row'[m].info = row[m].info, row'[m].date = row[m].date,
           row'[m].status # "ABSENT",
           row[m].slot # NoSlot => row'[m].slot = row[m].slot,
           \/ row'[m].slot = row[m].slot /\ (row'[m].room = NoRoom => row[m].room = NoRoom)
           \/ row'[m].room # NoRoom /\ (NoLegacyDrafts => row[m].slot # NoSlot),
           pc[v] = "alloc" => row'[m].room = row[m].room,
           created'[m] \in Nat, created'[m] >= created[m],
           Engaged(v) => row'[m].status \in AwaitsResult \cup {"READY", "ENDED"},
           Engaged(v) /\ OperatorsWait => row'[m].status \in AwaitsResult
    PROVE  SoundWorker(v)'
<1>1. CASE pc[v] = "idle"
  BY <1>1 DEF OutcomeInv, SoundWorker, IdleJob
<1>2. CASE pc[v] # "idle"
  <2>1. SoundJob(v)
    BY <1>2 DEF OutcomeInv
  <2>2. created[m] \in Nat
    BY DEF TypeOK
  <2>3. Engaged(v)' <=> Engaged(v)
    BY DEF Engaged
  <2>4. job'[v].answer # "EXISTING_MEETING_MISMATCH"
           => Agrees(row'[m], job'[v].request)
    BY <2>1 DEF SoundJob, Agrees
  <2>5. SoundJob(v)'
    BY <2>1, <2>2, <2>3, <2>4 DEF SoundJob
  <2> QED
    BY <1>2, <2>5 DEF SoundWorker
<1> QED
  BY <1>1, <1>2

\* A step that concerns one meeting, and the workers that concern themselves
\* with it.
LEMMA OneMeeting ==
    ASSUME TypeOK, OutcomeInv, NEW m \in Meetings,
           \A n \in Meetings \ {m} :
               /\ row'[n] = row[n] /\ created'[n] = created[n]
               /\ live'[n] = live[n] /\ orphans'[n] = orphans[n],
           SoundRow(m)',
           \A v \in Workers :
               \/ SoundWorker(v)'
               \/ /\ pc'[v] = pc[v] /\ job'[v] = job[v]
                  /\ job[v].meeting # m
    PROVE  OutcomeInv'
<1>1. ASSUME NEW n \in Meetings PROVE SoundRow(n)'
  BY DEF OutcomeInv, SoundRow, Untouched
<1>2. ASSUME NEW v \in Workers PROVE SoundWorker(v)'
  <2>1. CASE pc'[v] = pc[v] /\ job'[v] = job[v] /\ job[v].meeting # m
    <3>1. CASE pc[v] = "idle"
      BY <2>1, <3>1 DEF OutcomeInv, SoundWorker, IdleJob
    <3>2. CASE pc[v] # "idle"
      <4>1. job[v].meeting \in Meetings \ {m} /\ SoundJob(v)
        BY <2>1, <3>2 DEF OutcomeInv, TypeOK
      <4>2. /\ row'[job[v].meeting] = row[job[v].meeting]
            /\ created'[job[v].meeting] = created[job[v].meeting]
        BY <4>1
      <4> QED
        BY <2>1, <3>2, <4>1, <4>2 DEF SoundWorker, SoundJob, Engaged, Agrees
    <3> QED
      BY <3>1, <3>2
  <2> QED
    BY <1>2, <2>1
<1> QED
  BY <1>1, <1>2 DEF OutcomeInv, SoundWorker

\* A step of one worker that writes no row and creates nothing.
LEMMA SameTable ==
    ASSUME TypeOK, OutcomeInv, NEW w \in Workers,
           row' = row, created' = created, live' = live,
           \A n \in Meetings : ~row[n].active /\ row[n].status # "ENDED"
                                  => orphans'[n] = orphans[n],
           \A v \in Workers \ {w} : pc'[v] = pc[v] /\ job'[v] = job[v],
           SoundWorker(w)'
    PROVE  OutcomeInv'
<1>1. ASSUME NEW n \in Meetings PROVE SoundRow(n)'
  <2>1. SoundRow(n)
    BY DEF OutcomeInv
  <2> QED
    BY <2>1 DEF SoundRow, Untouched
<1>2. ASSUME NEW v \in Workers PROVE SoundWorker(v)'
  <2>1. CASE v # w /\ pc[v] = "idle"
    BY <2>1 DEF OutcomeInv, SoundWorker, IdleJob
  <2>2. CASE v # w /\ pc[v] # "idle"
    <3>1. SoundJob(v) /\ pc'[v] = pc[v] /\ job'[v] = job[v]
      BY <2>2 DEF OutcomeInv
    <3> QED
      BY <2>2, <3>1 DEF SoundWorker, SoundJob, Engaged, Agrees
  <2> QED
    BY <2>1, <2>2
<1> QED
  BY <1>1, <1>2 DEF OutcomeInv, SoundWorker

\* A worker that answers something other than success, or that it found the
\* meeting as the row describes it.
LEMMA AnswerSound ==
    ASSUME TypeOK, NEW w \in Workers, pc[w] # "idle", SoundJob(w),
           NEW code, Answer(w, code),
           job[w].answer = "none",
           row'[job[w].meeting].info = row[job[w].meeting].info,
           row'[job[w].meeting].date = row[job[w].meeting].date,
           row'[job[w].meeting].room = row[job[w].meeting].room,
           row'[job[w].meeting].slot = row[job[w].meeting].slot,
           row'[job[w].meeting].status # "ABSENT",
           code \in {"CREATED", "OK"} => row[job[w].meeting].slot # NoSlot
    PROVE  /\ SoundWorker(w)'
           /\ \A v \in Workers \ {w} : pc'[v] = pc[v] /\ job'[v] = job[v]
<1> DEFINE m == job[w].meeting
           j == [IdleJob EXCEPT !.meeting = m, !.request = job[w].request,
                                !.answer = code]
<1>1. /\ pc'[w] = "done" /\ job'[w] = j
      /\ \A v \in Workers \ {w} : pc'[v] = pc[v] /\ job'[v] = job[v]
  BY DEF Answer, Goto, TypeOK
<1>2. j.meeting = m /\ j.request = job[w].request /\ j.answer = code
  BY DefaultsTyped DEF Jobs
<1> HIDE DEF j
<1>3. Agrees(row'[m], j.request)
  BY <1>2 DEF SoundJob, Agrees
<1>4. SoundJob(w)'
  BY <1>1, <1>2, <1>3 DEF SoundJob, Engaged
<1> QED
  BY <1>1, <1>4 DEF SoundWorker

\* Registration preserves OutcomeInv.
LEMMA RegisterOutcome ==
    ASSUME TypeOK, CreationInv, OutcomeInv, NEW w \in Workers, Register(w)
    PROVE  OutcomeInv'
<1>1. PICK m \in Meetings, q \in Requests :
         \/ RegisterNew(w, m, q) \/ RegisterExisting(w, m, q)
         \/ RegisterMismatch(w, m, q)
  BY DEF Register
<1>2. q.slot # NoSlot /\ q.slot \in [start : Nat, end : Nat]
  BY ConstantsAssumption DEF NoSlot
<1>3. ASSUME NEW made \in BOOLEAN, Begin(w, m, q, made)
      PROVE  /\ pc'[w] = "claim" /\ job'[w].meeting = m /\ job'[w].request = q
             /\ job'[w].answer = "none"
             /\ \A v \in Workers \ {w} : pc'[v] = pc[v] /\ job'[v] = job[v]
  <2> DEFINE j == [IdleJob EXCEPT !.meeting = m, !.request = q, !.made = made]
  <2>1. pc' = [pc EXCEPT ![w] = "claim"] /\ job' = [job EXCEPT ![w] = j]
    BY <1>3 DEF Begin, Goto
  <2>2. j.meeting = m /\ j.request = q /\ j.answer = IdleJob.answer
    BY DefaultsTyped DEF Jobs
  <2>3. IdleJob.answer = "none"
    BY DEF IdleJob
  <2> HIDE DEF j
  <2> QED
    BY <2>1, <2>2, <2>3 DEF TypeOK
<1>4. CASE RegisterNew(w, m, q)
  <2> DEFINE r == NewRow(q)
  <2>1. /\ r.status = "DRAFT" /\ r.info = q.info /\ r.date = q.date
        /\ r.slot = q.slot /\ r.room = NoRoom /\ r.calendar = 0
    <3>1. AbsentRow \in Rows /\ AbsentRow.room = NoRoom /\ AbsentRow.calendar = 0
      BY DefaultsTyped DEF AbsentRow
    <3> QED
      BY <3>1 DEF NewRow, Rows
  <2>2. /\ row[m].status = "ABSENT" /\ row'[m] = r
        /\ \A n \in Meetings \ {m} : row'[n] = row[n]
        /\ created' = created /\ live' = live /\ orphans' = orphans
        /\ Begin(w, m, q, TRUE)
    BY <1>4 DEF RegisterNew, TypeOK, provider
  <2>3. created[m] = 0 /\ live[m] = {} /\ orphans[m] = 0
    <3>1. created[m] = 0 /\ orphans[m] = 0
      BY <2>2 DEF CreationInv, OpenIsUntouched, OpenStatuses, Untouched
    <3> QED
      BY <3>1 DEF OutcomeInv, SoundRow
  <2> HIDE DEF r
  <2>4. SoundRow(m)'
    BY <1>2, <2>1, <2>2, <2>3 DEF SoundRow, Untouched
  <2>5. SoundWorker(w)'
    <3>1. Agrees(row'[m], q)
      BY <2>1, <2>2 DEF Agrees
    <3> QED
      BY <1>3, <2>1, <2>2, <3>1 DEF SoundWorker, SoundJob, Engaged
  <2>6. \A v \in Workers \ {w} : /\ pc'[v] = pc[v] /\ job'[v] = job[v]
                                 /\ job[v].meeting # m
    <3>1. ASSUME NEW v \in Workers \ {w}, job[v].meeting = m PROVE FALSE
      <4>1. pc[v] # "idle"
        BY <3>1, ConstantsAssumption DEF OutcomeInv, IdleJob
      <4> QED
        BY <2>2, <3>1, <4>1 DEF OutcomeInv, SoundJob
    <3> QED
      BY <1>3, <2>2, <3>1
  <2> QED
    BY <2>2, <2>4, <2>5, <2>6, OneMeeting
<1>5. CASE RegisterExisting(w, m, q)
  <2>1. /\ UNCHANGED <<row, created, live, orphans>>
        /\ row[m].status # "ABSENT" /\ SameRequest(row[m], q)
        /\ Begin(w, m, q, FALSE)
    BY <1>5 DEF RegisterExisting, provider
  <2>2. Agrees(row'[m], q)
    BY <2>1 DEF SameRequest, Agrees
  <2>3. SoundWorker(w)'
    BY <1>3, <2>1, <2>2 DEF SoundWorker, SoundJob, Engaged
  <2> QED
    BY <1>3, <2>1, <2>3, SameTable
<1>6. CASE RegisterMismatch(w, m, q)
  <2> DEFINE j == [IdleJob EXCEPT !.meeting = m, !.request = q,
                                  !.answer = "EXISTING_MEETING_MISMATCH"]
  <2>1. /\ UNCHANGED <<row, created, live, orphans>>
        /\ row[m].status # "ABSENT"
        /\ pc'[w] = "done" /\ job'[w] = j
        /\ \A v \in Workers \ {w} : pc'[v] = pc[v] /\ job'[v] = job[v]
    BY <1>6 DEF RegisterMismatch, Goto, provider, TypeOK
  <2>2. j.meeting = m /\ j.answer = "EXISTING_MEETING_MISMATCH"
    BY DefaultsTyped DEF Jobs
  <2> HIDE DEF j
  <2>3. SoundWorker(w)'
    BY <2>1, <2>2 DEF SoundWorker, SoundJob, Engaged
  <2> QED
    BY <2>1, <2>3, SameTable
<1> QED
  BY <1>1, <1>4, <1>5, <1>6

\* A worker that acts for its meeting knows it.
LEMMA AtWork ==
    ASSUME TypeOK, OutcomeInv, NEW w \in Workers, pc[w] # "idle"
    PROVE  /\ job[w].meeting \in Meetings /\ job[w].request \in Requests
           /\ job[w] \in Jobs /\ row[job[w].meeting] \in Rows
           /\ created[job[w].meeting] \in Nat /\ orphans[job[w].meeting] \in Nat
           /\ SoundJob(w) /\ SoundRow(job[w].meeting)
  BY DEF TypeOK, OutcomeInv

\* Who may claim a row does so for a draft, or resumes.
LEMMA ClaimableRows ==
    ASSUME TypeOK, CreationInv, BookingInv, OutcomeInv, NEW w \in Workers,
           Claimable(w)
    PROVE  LET r == row[job[w].meeting]
           IN  /\ pc[w] = "claim" /\ ~Locked(job[w].meeting)
               /\ r.status \in {"DRAFT", "RETRYABLE_FAILED"}
               /\ Resumes(r) <=> r.status = "RETRYABLE_FAILED"
               /\ ~Resumes(r) => r.room = NoRoom
               /\ job[w].request.slot.start \div DayLength = r.date
<1> DEFINE r == row[job[w].meeting]
<1>1. pc[w] = "claim" /\ ~Locked(job[w].meeting)
  BY DEF Claimable, AtClaim
<1>2. job[w].meeting \in Meetings /\ r \in Rows /\ SoundJob(w) /\ SoundRow(job[w].meeting)
  BY <1>1, AtWork
<1>3. r.status \in {"DRAFT", "RETRYABLE_FAILED"}
  <2>1. r.status \in Statuses
    BY <1>2 DEF Rows, SoundJob
  <2> QED
    BY <2>1 DEF Claimable, Refusal, Replayed, Statuses
<1>4. job[w].request.slot.start \div DayLength = r.date
  BY <1>3 DEF Claimable, Refusal
<1>5. r.status = "RETRYABLE_FAILED" => r.active /\ r.room \in Rooms
  BY <1>2 DEF BookingInv, HoldsRoomUntilResolved, HoldingStatuses
<1>6. Resumes(r) <=> r.status = "RETRYABLE_FAILED"
  BY <1>5, ConstantsAssumption DEF Resumes
<1>7. ~Resumes(r) => r.room = NoRoom
  BY <1>2, <1>3, <1>6 DEF SoundRow
<1> QED
  BY <1>1, <1>3, <1>4, <1>6, <1>7

\* So do the refusals and the allocation that finds no room.
LEMMA RefusedOutcome ==
    ASSUME TypeOK, OutcomeInv, NEW w \in Workers,
           ClaimRefused(w) \/ NoCapacity(w) \/ PresetWithdrawn(w)
    PROVE  OutcomeInv'
<1>1. pc[w] \in {"claim", "alloc"}
  BY DEF ClaimRefused, AtClaim, NoCapacity, PresetWithdrawn
<1>2. SoundJob(w) /\ job[w].answer = "none" /\ row[job[w].meeting].status # "ABSENT"
  BY <1>1, AtWork DEF SoundJob
<1>3. PICK code : Answer(w, code) /\ code \notin {"CREATED", "OK"}
  BY DEF ClaimRefused, Refusal, NoCapacity, PresetWithdrawn
<1>4. UNCHANGED <<row, created, live, orphans>>
  BY DEF ClaimRefused, NoCapacity, PresetWithdrawn, provider
<1>5. /\ SoundWorker(w)'
      /\ \A v \in Workers \ {w} : pc'[v] = pc[v] /\ job'[v] = job[v]
  BY <1>1, <1>2, <1>3, <1>4, AnswerSound
<1> QED
  BY <1>4, <1>5, SameTable

\* A worker that takes a row to the provider leaves it with a room on its date,
\* PROVISIONING and its own.
LEMMA ClaimOutcome ==
    ASSUME TypeOK, CreationInv, BookingInv, OutcomeInv, NEW w \in Workers,
           ClaimResume(w) \/ ReserveRoom(w)
    PROVE  OutcomeInv'
<1> DEFINE m == job[w].meeting
           q == job[w].request
<1>1. pc[w] \in {"claim", "alloc"}
  BY DEF ClaimResume, Claimable, AtClaim, ReserveRoom
<1>2. /\ m \in Meetings /\ job[w] \in Jobs /\ row[m] \in Rows /\ SoundJob(w)
      /\ created[m] \in Nat /\ SoundRow(m) /\ job[w].cal = 0
  BY <1>1, AtWork DEF CreationInv, WorkerKnowledge, Knows
<1>3. /\ row[m].status \in {"DRAFT", "RETRYABLE_FAILED"}
      /\ \A v \in Workers \ {w} : job[v].meeting = m => pc[v] # "alloc"
  <2>1. CASE ClaimResume(w)
    BY <1>2, <2>1, ClaimableRows DEF ClaimResume, Claimable, AtClaim, Locked
  <2>2. CASE ReserveRoom(w)
    BY <1>2, <2>2 DEF ReserveRoom, SoundJob, CreationInv, WorkerKnowledge, Knows,
                      OpenStatuses, OneCreator
  <2> QED
    BY <2>1, <2>2
<1>4. \A v \in Workers : Engaged(v) => job[v].meeting # m
  BY <1>2, <1>3 DEF CreationInv, OpenIsUntouched, OpenStatuses
<1>5. /\ pc'[w] = "auth" /\ job'[w].meeting = m /\ job'[w].request = q
      /\ job'[w].answer = job[w].answer /\ job'[w].cal = job[w].cal
      /\ \A v \in Workers \ {w} : pc'[v] = pc[v] /\ job'[v] = job[v]
      /\ created' = created /\ live' = live /\ orphans' = orphans
  <2>1. CASE ClaimResume(w)
    BY <1>2, <2>1 DEF ClaimResume, Goto, TypeOK, Jobs, provider
  <2>2. CASE ReserveRoom(w)
    <3>1. PICK x \in Rooms : job' = [job EXCEPT ![w].rooms = {}, ![w].room = x]
      BY <2>2 DEF ReserveRoom
    <3> DEFINE j == [job[w] EXCEPT !.rooms = {}, !.room = x]
    <3>2. /\ j.meeting = m /\ j.request = q /\ j.cal = job[w].cal
          /\ j.answer = job[w].answer
      BY <1>2 DEF Jobs
    <3>3. job' = [job EXCEPT ![w] = j] /\ pc' = [pc EXCEPT ![w] = "auth"]
      BY <2>2, <3>1 DEF ReserveRoom, Goto
    <3> HIDE DEF j
    <3> QED
      BY <2>2, <3>2, <3>3 DEF ReserveRoom, TypeOK, provider
  <2> QED
    BY <2>1, <2>2
<1>6. /\ \A n \in Meetings \ {m} : row'[n] = row[n]
      /\ row'[m].status = "PROVISIONING" /\ row'[m].active
      /\ row'[m].info = row[m].info /\ row'[m].date = row[m].date
      /\ row'[m].calendar = row[m].calendar
      /\ row'[m].room # NoRoom /\ row'[m].slot # NoSlot
      /\ row'[m].slot.start \div DayLength = row[m].date
      /\ row[m].slot # NoSlot => row'[m].slot = row[m].slot
      /\ \/ row'[m].slot = row[m].slot /\ row'[m].room = row[m].room
         \/ row'[m].slot = q.slot
  <2>1. CASE ClaimResume(w)
    <3>1. row' = [row EXCEPT ![m] = [row[m] EXCEPT !.status = "PROVISIONING"]]
      BY <2>1 DEF ClaimResume
    <3>2. row[m].active /\ row[m].room # NoRoom
      BY <2>1 DEF ClaimResume, Resumes
    <3> QED
      BY <1>2, <3>1, <3>2 DEF TypeOK, Rows, SoundRow
  <2>2. CASE ReserveRoom(w)
    <3>1. PICK x \in Rooms :
             row' = [row EXCEPT ![m] = [row[m] EXCEPT
                        !.status = "PROVISIONING", !.room = x, !.slot = q.slot,
                        !.reservation = Interval(q.slot), !.active = TRUE,
                        !.payload = Snapshot(w, x)]]
      BY <2>2 DEF ReserveRoom
    <3> DEFINE r == [row[m] EXCEPT
                        !.status = "PROVISIONING", !.room = x, !.slot = q.slot,
                        !.reservation = Interval(q.slot), !.active = TRUE,
                        !.payload = Snapshot(w, x)]
    <3>2. /\ r.status = "PROVISIONING" /\ r.active /\ r.room = x
          /\ r.slot = q.slot /\ r.info = row[m].info /\ r.date = row[m].date
          /\ r.calendar = row[m].calendar
      BY <1>2 DEF Rows
    <3>3. row'[m] = r /\ \A n \in Meetings \ {m} : row'[n] = row[n]
      BY <1>2, <3>1 DEF TypeOK
    <3>4. x # NoRoom /\ q.slot # NoSlot
      BY <1>1, <1>2, ConstantsAssumption, AtWork DEF NoSlot
    <3>5. /\ q.slot.start \div DayLength = row[m].date
          /\ row[m].slot # NoSlot => q.slot = row[m].slot
      BY <1>2, <2>2 DEF ReserveRoom, SoundJob, Agrees
    <3> HIDE DEF r
    <3> QED
      BY <3>2, <3>3, <3>4, <3>5
  <2> QED
    BY <2>1, <2>2
<1>7. NoLegacyDrafts => row[m].slot # NoSlot
  BY <1>2, <1>3 DEF SoundRow
<1>8. SoundRow(m)'
  BY <1>2, <1>5, <1>6 DEF SoundRow
<1>9. SoundWorker(w)'
  <2>1. job[w].answer = "none"
    BY <1>1, <1>2 DEF SoundJob
  <2>2. Agrees(row'[m], q)
    BY <1>2, <1>6, <1>7, <2>1 DEF SoundJob, Agrees
  <2> QED
    BY <1>2, <1>5, <1>6, <2>1, <2>2 DEF SoundWorker, SoundJob, AwaitsResult
<1>10. ASSUME NEW v \in Workers \ {w}, job[v].meeting = m PROVE SoundWorker(v)'
  BY <1>2, <1>3, <1>4, <1>5, <1>6, <1>7, <1>10, Bystander
<1> QED
  BY <1>2, <1>5, <1>6, <1>8, <1>9, <1>10, OneMeeting

\* The other steps of the first transaction leave the table alone.
LEMMA WaitingOutcome ==
    ASSUME TypeOK, CreationInv, BookingInv, OutcomeInv, NEW w \in Workers,
           ClaimReplay(w) \/ ClaimAllocate(w) \/ SkipRoom(w)
    PROVE  OutcomeInv'
<1> DEFINE m == job[w].meeting
           q == job[w].request
<1>1. pc[w] \in {"claim", "alloc"}
  BY DEF ClaimReplay, ClaimAllocate, Claimable, AtClaim, SkipRoom
<1>2. /\ m \in Meetings /\ job[w] \in Jobs /\ row[m] \in Rows /\ SoundJob(w)
      /\ SoundRow(m) /\ job[w].answer = "none"
  BY <1>1, AtWork DEF SoundJob
<1>3. /\ UNCHANGED <<row, created, live, orphans>>
      /\ \A v \in Workers \ {w} : pc'[v] = pc[v] /\ job'[v] = job[v]
  BY DEF ClaimReplay, ClaimAllocate, SkipRoom, Goto, TypeOK, provider
<1>4. CASE ClaimReplay(w)
  <2>1. pc'[w] = "token" /\ job' = job
    BY <1>4 DEF ClaimReplay, Goto, TypeOK
  <2>2. row[m].slot # NoSlot
    <3>1. row[m].status = "READY"
      BY <1>2, <1>4 DEF ClaimReplay, Replayed, SoundRow
    <3> QED
      BY <1>2, <3>1 DEF BookingInv, HoldsRoomUntilResolved, HoldingStatuses
  <2>3. SoundWorker(w)'
    BY <1>2, <1>3, <2>1, <2>2 DEF SoundWorker, SoundJob, Engaged, Agrees
  <2> QED
    BY <1>3, <2>3, SameTable
<1>5. CASE ClaimAllocate(w)
  <2> DEFINE j == [job[w] EXCEPT
                     !.retrying = (row[m].status = "RETRYABLE_FAILED"),
                     !.rooms = {x \in Rooms : offer[x] # "inactive"}]
  <2>1. pc'[w] = "alloc" /\ job'[w] = j
    BY <1>5 DEF ClaimAllocate, Goto, TypeOK
  <2>2. j.meeting = m /\ j.request = q /\ j.answer = "none"
    BY <1>2 DEF Jobs
  <2> HIDE DEF j
  <2>3. /\ row[m].room = NoRoom /\ q.slot.start \div DayLength = row[m].date
        /\ pc[w] = "claim"
    BY <1>5, ClaimableRows DEF ClaimAllocate
  <2>4. SoundWorker(w)'
    BY <1>2, <1>3, <2>1, <2>2, <2>3 DEF SoundWorker, SoundJob, Engaged, Agrees
  <2> QED
    BY <1>3, <2>4, SameTable
<1>6. CASE SkipRoom(w)
  <2>1. /\ pc' = pc /\ job'[w].meeting = m /\ job'[w].request = q
        /\ job'[w].answer = "none" /\ pc[w] = "alloc"
    BY <1>2, <1>6 DEF SkipRoom, TypeOK, Jobs
  <2>2. SoundWorker(w)'
    BY <1>2, <1>3, <2>1 DEF SoundWorker, SoundJob, Engaged, Agrees
  <2> QED
    BY <1>3, <2>2, SameTable
<1> QED
  BY <1>4, <1>5, <1>6

\* In the provider call a worker keeps its row, and learns of meetings that were
\* created only.
LEMMA CallOutcome ==
    ASSUME TypeOK, CreationInv, BookingInv, OutcomeInv, NEW w \in Workers,
           AuthFails(w) \/ Transmit(w) \/ Receive(w) \/ ProviderCreates(w)
    PROVE  OutcomeInv'
<1> DEFINE m == job[w].meeting
           q == job[w].request
<1>1. Engaged(w) /\ pc[w] \in {"auth", "sent"}
  BY DEF AuthFails, Transmit, Receive, ReceiveResult, ReceiveUnauthorized,
         ReceiveError, Delivered, ProviderCreates, Engaged
<1>2. /\ m \in Meetings /\ job[w] \in Jobs /\ row[m] \in Rows /\ SoundJob(w)
      /\ created[m] \in Nat /\ orphans[m] \in Nat /\ SoundRow(m)
      /\ job[w].answer = "none" /\ job[w].cal \in 0..created[m]
      /\ live[m] \subseteq 1..created[m]
  BY <1>1, AtWork DEF SoundJob, SoundRow
<1>3. row[m].active \/ row[m].status = "ENDED"
  BY <1>1, <1>2 DEF SoundJob, AwaitsResult, BookingInv, HoldsRoomUntilResolved,
                    HoldingStatuses
<1>4. \A v \in Workers \ {w} : job[v].meeting = m => ~Engaged(v) /\ pc[v] # "alloc"
  BY <1>1, EngagedAlone
\* The worker part, from what the step does to its variables.
<1>5. ASSUME row' = row, created'[m] \in Nat, created'[m] >= created[m],
             pc'[w] \in {"auth", "sent", "error", "save"},
             job'[w].meeting = m, job'[w].request = q, job'[w].answer = "none",
             job'[w].cal \in 0..created'[m],
             pc'[w] = "save" => job'[w].cal # 0
      PROVE  SoundWorker(w)'
  BY <1>1, <1>2, <1>5 DEF SoundWorker, SoundJob, Engaged, Agrees
<1>6. CASE AuthFails(w)
  <2>1. PICK out : job' = [job EXCEPT ![w].out = out]
    BY <1>6 DEF AuthFails
  <2>2. /\ UNCHANGED <<row, created, live, orphans>>
        /\ pc' = [pc EXCEPT ![w] = "error"]
    BY <1>6 DEF AuthFails, Goto, provider
  <2>3. /\ job'[w].meeting = m /\ job'[w].request = q /\ job'[w].answer = "none"
        /\ job'[w].cal = job[w].cal
    BY <1>2, <2>1 DEF TypeOK, Jobs
  <2>4. SoundWorker(w)'
    BY <1>2, <1>5, <2>2, <2>3 DEF TypeOK
  <2>5. \A v \in Workers \ {w} : pc'[v] = pc[v] /\ job'[v] = job[v]
    BY <2>1, <2>2 DEF TypeOK
  <2> QED
    BY <2>2, <2>4, <2>5, SameTable
<1>7. CASE Transmit(w)
  <2>1. /\ UNCHANGED <<row, created, live, orphans, job>>
        /\ pc' = [pc EXCEPT ![w] = "sent"]
    BY <1>7 DEF Transmit, Goto, provider
  <2>2. SoundWorker(w)'
    BY <1>2, <1>5, <2>1 DEF TypeOK
  <2> QED
    BY <2>1, <2>2, SameTable DEF TypeOK
<1>8. ASSUME NEW x \in StartExchanges,
             \/ ReceiveResult(w, x) \/ ReceiveUnauthorized(w, x)
             \/ ReceiveError(w, x)
      PROVE  OutcomeInv'
  <2>1. Delivered(w, x) /\ x \in Exchanges
    BY <1>8, ConstantsAssumption DEF ReceiveResult, ReceiveUnauthorized, ReceiveError
  <2>2. /\ UNCHANGED <<row, created, live>>
        /\ \A n \in Meetings : n # m => orphans'[n] = orphans[n]
    BY <2>1 DEF Delivered, TypeOK
  <2>3. \A n \in Meetings : ~row[n].active /\ row[n].status # "ENDED"
                               => orphans'[n] = orphans[n]
    BY <1>3, <2>2
  <2>4. PICK label \in {"auth", "error", "save"} : pc' = [pc EXCEPT ![w] = label]
    BY <1>8 DEF ReceiveResult, ReceiveUnauthorized, ReceiveError, Goto
  <2>5. PICK j : job' = [job EXCEPT ![w] = j] /\ j.meeting = m /\ j.request = q
                 /\ j.answer = "none" /\ j.cal \in {0, job[w].cal}
                 /\ (label = "save" => j.cal # 0)
    <3>1. CASE ReceiveResult(w, x)
      <4>1. job' = [job EXCEPT ![w] = job[w]]
        BY <3>1 DEF ReceiveResult, TypeOK
      <4>2. job[w].cal # 0
        BY <2>1, <3>1, SuccessIsConfirmed DEF ReceiveResult, Delivered
      <4> QED
        BY <1>2, <4>1, <4>2
    <3>2. CASE ReceiveUnauthorized(w, x)
      <4> DEFINE j == [job[w] EXCEPT !.attempt = 2]
      <4>1. job' = [job EXCEPT ![w] = j] /\ pc' = [pc EXCEPT ![w] = "auth"]
        BY <3>2 DEF ReceiveUnauthorized, Goto
      <4>2. /\ j.meeting = m /\ j.request = q /\ j.answer = "none"
            /\ j.cal = job[w].cal
        BY <1>2 DEF Jobs
      <4>3. label # "save"
        BY <2>4, <4>1 DEF TypeOK
      <4> HIDE DEF j
      <4> QED
        BY <4>1, <4>2, <4>3
    <3>3. CASE ReceiveError(w, x)
      <4> DEFINE c == IF StartMeeting(x).known THEN job[w].cal ELSE 0
                 j == [job[w] EXCEPT !.out = StartMeeting(x), !.cal = c]
      <4>1. job' = [job EXCEPT ![w] = j] /\ pc' = [pc EXCEPT ![w] = "error"]
        BY <3>3 DEF ReceiveError, Goto
      <4>2. c \in {0, job[w].cal}
        OBVIOUS
      <4> HIDE DEF c
      <4>3. /\ j.meeting = m /\ j.request = q /\ j.answer = "none"
            /\ j.cal = c
        BY <1>2 DEF Jobs
      <4>4. label # "save"
        BY <2>4, <4>1 DEF TypeOK
      <4> HIDE DEF j
      <4> QED
        BY <4>1, <4>2, <4>3, <4>4
    <3> QED
      BY <1>8, <3>1, <3>2, <3>3
  <2>6. /\ pc'[w] = label /\ job'[w] = j
        /\ \A v \in Workers \ {w} : pc'[v] = pc[v] /\ job'[v] = job[v]
    BY <2>4, <2>5 DEF TypeOK
  <2>7. SoundWorker(w)'
    BY <1>2, <1>5, <2>2, <2>5, <2>6
  <2> QED
    BY <2>2, <2>3, <2>6, <2>7, SameTable
<1>9. CASE ProviderCreates(w)
  <2> DEFINE j == [job[w] EXCEPT !.cal = created[m] + 1]
  <2>1. /\ row' = row /\ pc' = pc /\ job' = [job EXCEPT ![w] = j]
        /\ created' = [created EXCEPT ![m] = @ + 1]
        /\ live' = [live EXCEPT ![m] = @ \cup {created[m] + 1}]
        /\ orphans' = orphans
    BY <1>9 DEF ProviderCreates, NewProviderMeeting
  <2>2. /\ j.meeting = m /\ j.request = q /\ j.answer = "none"
        /\ j.cal = created[m] + 1
    BY <1>2 DEF Jobs
  <2> HIDE DEF j
  <2>3. /\ job'[w] = j
        /\ \A v \in Workers \ {w} : pc'[v] = pc[v] /\ job'[v] = job[v]
    BY <2>1 DEF TypeOK
  <2>4. /\ created'[m] = created[m] + 1
        /\ live'[m] = live[m] \cup {created[m] + 1}
        /\ \A n \in Meetings \ {m} : /\ created'[n] = created[n]
                                     /\ live'[n] = live[n]
    BY <1>2, <2>1 DEF TypeOK
  <2>5. created'[m] \in Nat /\ j.cal \in 0..created'[m]
    BY <1>2, <2>2, <2>4
  <2>6. SoundWorker(w)'
    BY <1>1, <1>5, <2>1, <2>2, <2>3, <2>4, <2>5, <1>2
  <2>7. SoundRow(m)'
    <3>1. live'[m] \subseteq 1..created'[m]
      BY <1>2, <2>4
    <3>2. row[m].calendar \in 0..created[m]
      BY <1>2 DEF SoundRow
    <3>3. row[m].calendar \in 0..created'[m]
      BY <1>2, <2>4, <3>2
    <3>4. row'[m] = row[m] /\ (row[m].active \/ row[m].status = "ENDED")
      BY <1>3, <2>1
    <3>5. SoundRow(m)
      BY <1>2
    <3> QED
      BY <2>2, <2>3, <3>1, <3>3, <3>4, <3>5 DEF SoundRow
  <2>8. ASSUME NEW v \in Workers \ {w}, job[v].meeting = m PROVE SoundWorker(v)'
    <3>1. ~Engaged(v) /\ pc'[v] = pc[v] /\ job'[v] = job[v]
      BY <1>4, <2>1, <2>3, <2>8
    <3>2. row[m].status # "ABSENT"
      BY <1>2 DEF SoundJob
    <3>3. created'[m] >= created[m] /\ created'[m] \in Nat
      BY <1>2, <2>4
    <3>4. row'[m] = row[m] /\ m \in Meetings
      BY <1>2, <2>1
    <3> QED
      BY <2>8, <3>1, <3>2, <3>3, <3>4, Bystander
  <2> QED
    BY <1>2, <2>1, <2>2, <2>3, <2>4, <2>6, <2>7, <2>8, OneMeeting
<1> QED
  BY <1>6, <1>7, <1>8, <1>9 DEF Receive

\* A worker that ends without writing its row.
LEMMA ReplyOutcome ==
    ASSUME TypeOK, CreationInv, BookingInv, OutcomeInv, NEW w \in Workers,
           \/ RecordErrorFails(w) \/ LateResponse(w) \/ Reply(w) \/ Abort(w)
    PROVE  OutcomeInv'
<1>1. PICK m : m = job[w].meeting
  OBVIOUS
<1>2. CASE RecordErrorFails(w) \/ LateResponse(w) \/ ReplayAnswered(w)
           \/ ReplayTokenFails(w)
  <2>1. pc[w] \in {"error", "save", "token"}
    BY <1>2 DEF RecordErrorFails, LateResponse, ReplayAnswered, ReplayTokenFails
  <2>2. PICK code : Answer(w, code) /\ (code \in {"CREATED", "OK"} => pc[w] = "token")
    BY <1>2 DEF RecordErrorFails, LateResponse, ReplayAnswered, ReplayTokenFails
  <2>3. UNCHANGED <<row, created, live, orphans>>
    BY <1>2 DEF RecordErrorFails, LateResponse, ReplayAnswered, ReplayTokenFails,
                provider
  <2>4. /\ SoundJob(w) /\ job[w].answer = "none" /\ row[m].status # "ABSENT"
        /\ pc[w] = "token" => row[m].slot # NoSlot
    BY <1>1, <2>1, AtWork DEF SoundJob, Engaged
  <2>5. /\ SoundWorker(w)'
        /\ \A v \in Workers \ {w} : pc'[v] = pc[v] /\ job'[v] = job[v]
    BY <1>1, <2>1, <2>2, <2>3, <2>4, AnswerSound
  <2> QED
    BY <2>3, <2>5, SameTable
<1>3. CASE NextRequest(w) \/ Abort(w)
  <2>1. /\ pc' = [pc EXCEPT ![w] = "idle"] /\ job' = [job EXCEPT ![w] = IdleJob]
        /\ UNCHANGED <<row, created, live>>
    BY <1>3 DEF NextRequest, Abort, Goto, provider
  <2>2. /\ SoundWorker(w)'
        /\ \A v \in Workers \ {w} : pc'[v] = pc[v] /\ job'[v] = job[v]
    BY <2>1 DEF TypeOK, SoundWorker, IdleJob
  <2>3. ASSUME NEW n \in Meetings, ~row[n].active, row[n].status # "ENDED"
        PROVE  orphans'[n] = orphans[n]
    <3>1. CASE pc[w] = "sent"
      <4>1. Engaged(w) /\ m \in Meetings /\ SoundJob(w)
        BY <1>1, <3>1, AtWork DEF Engaged
      <4>2. row[m].active \/ row[m].status = "ENDED"
        BY <1>1, <4>1 DEF SoundJob, AwaitsResult, BookingInv,
                                HoldsRoomUntilResolved, HoldingStatuses
      <4> QED
        BY <1>1, <1>3, <2>3, <4>1, <4>2 DEF NextRequest, Abort, provider, TypeOK
    <3>2. CASE pc[w] # "sent"
      BY <1>3, <3>2 DEF NextRequest, Abort, provider
    <3> QED
      BY <3>1, <3>2
  <2> QED
    BY <2>1, <2>2, <2>3, SameTable
<1> QED
  BY <1>2, <1>3 DEF Reply

\* The stored outcome: a failure that releases the room follows a refusal, and a
\* success names the meeting the provider answered with.
LEMMA StoredOutcome ==
    ASSUME TypeOK, CreationInv, BookingInv, OutcomeInv, NEW w \in Workers,
           RecordError(w) \/ SaveResult(w)
    PROVE  OutcomeInv'
<1>1. PICK m : m = job[w].meeting
  OBVIOUS
<1>2. Engaged(w) /\ pc[w] \in {"error", "save"}
  BY SMTT(30) DEF RecordError, SaveResult, Engaged
<1>3. /\ m \in Meetings /\ job[w] \in Jobs /\ row[m] \in Rows /\ SoundJob(w)
      /\ created[m] \in Nat /\ orphans[m] \in Nat /\ SoundRow(m)
      /\ job[w].answer = "none" /\ job[w].cal \in 0..created[m]
      /\ pc[w] = "save" => job[w].cal # 0
      /\ UNCHANGED <<created, live, orphans>>
  BY <1>1, <1>2, AtWork DEF SoundJob, RecordError, SaveResult, provider
<1>4. row[m].slot # NoSlot /\ row[m].room \in Rooms
  BY <1>1, <1>2 DEF BookingInv, HasRoom
<1>5. PICK r : /\ row' = [row EXCEPT ![m] = r]
               /\ r.info = row[m].info /\ r.date = row[m].date
               /\ r.slot = row[m].slot /\ r.room = row[m].room
               /\ r.status # "ABSENT" /\ SoundRow(m)'
  <2>1. CASE RecordError(w)
    <3> DEFINE out == job[w].out
               r == FailedRow(row[m], out, job[w].cal)
    <3>1. row' = [row EXCEPT ![m] = r]
      BY <1>1, <2>1 DEF RecordError
    <3>2. /\ r.status = FailureStatus(out) /\ r.active = KeepsReservation(out)
          /\ r.calendar = (IF out.known THEN job[w].cal ELSE row[m].calendar)
          /\ r.info = row[m].info /\ r.date = row[m].date
          /\ r.slot = row[m].slot /\ r.room = row[m].room
      BY <1>3 DEF FailedRow, Rows
    <3>3. /\ FailureStatus(out) \notin {"ABSENT", "DRAFT", "READY", "RESERVED", "LIVE"}
          /\ ~KeepsReservation(out) => ~out.known /\ ~out.ambiguous
      BY DEF FailureStatus, KeepsReservation
    <3>4. ~KeepsReservation(out) => Untouched(m)
      BY <1>1, <1>2, <2>1, <3>3 DEF RecordError, CreationInv, WorkerKnowledge, Knows
    <3>5. row'[m] = r
      BY <1>3, <3>1 DEF TypeOK
    <3>6. r.calendar \in 0..created[m] /\ live[m] \subseteq 1..created[m]
      BY <1>3, <3>2 DEF SoundRow
    <3> HIDE DEF r, out
    <3>7. SoundRow(m)'
      BY <1>3, <1>4, <3>2, <3>3, <3>4, <3>5, <3>6 DEF SoundRow, Untouched
    <3> QED
      BY <3>1, <3>2, <3>3, <3>7
  <2>2. CASE SaveResult(w)
    <3> DEFINE c == Either(row[m].calendar, job[w].cal)
               r == [row[m] EXCEPT !.calendar = c, !.url = TRUE,
                                   !.status = "READY", !.error = "NONE"]
    <3>1. row' = [row EXCEPT ![m] = r] /\ row[m].status \in AwaitsResult
          /\ pc[w] = "save"
      BY <1>1, <2>2 DEF SaveResult
    <3>2. c \in 0..created[m] /\ c # 0
      BY <1>3, <3>1 DEF Either, SoundRow
    <3> HIDE DEF c
    <3>3. /\ r.status = "READY" /\ r.active = row[m].active /\ r.url
          /\ r.calendar = c /\ r.info = row[m].info /\ r.date = row[m].date
          /\ r.slot = row[m].slot /\ r.room = row[m].room
      BY <1>3 DEF Rows
    <3>4. row[m].active
      BY <1>3, <3>1 DEF AwaitsResult, BookingInv, HoldsRoomUntilResolved,
                        HoldingStatuses
    <3>5. row'[m] = r
      BY <1>3, <3>1 DEF TypeOK
    <3> HIDE DEF r
    <3>6. SoundRow(m)'
      BY <1>3, <1>4, <3>2, <3>3, <3>4, <3>5 DEF SoundRow
    <3> QED
      BY <3>1, <3>3, <3>6
  <2> QED
    BY <2>1, <2>2
<1>6. row'[m] = r /\ \A n \in Meetings \ {m} : row'[n] = row[n]
  BY <1>3, <1>5 DEF TypeOK
<1>7. /\ SoundWorker(w)'
      /\ \A v \in Workers \ {w} : pc'[v] = pc[v] /\ job'[v] = job[v]
  <2>1. PICK code : Answer(w, code)
    BY DEF RecordError, SaveResult
  <2> QED
    BY <1>1, <1>2, <1>3, <1>4, <1>5, <1>6, <2>1, AnswerSound
<1>8. ASSUME NEW v \in Workers \ {w}, job[v].meeting = m PROVE SoundWorker(v)'
  <2>1. ~Engaged(v)
    BY <1>1, <1>2, <1>8, EngagedAlone
  <2>2. created'[m] \in Nat /\ created'[m] >= created[m]
    BY <1>3
  <2> QED
    BY <1>3, <1>5, <1>6, <1>7, <1>8, <2>1, <2>2, Bystander
<1> QED
  BY <1>3, <1>5, <1>6, <1>7, <1>8, OneMeeting

\* A step no request takes: each row stays sound, keeps its request and its room,
\* and is not moved away under a worker that waits for it.
LEMMA TableOutcome ==
    ASSUME TypeOK, OutcomeInv, pc' = pc, job' = job,
           \A n \in Meetings :
               /\ SoundRow(n)'
               /\ row'[n].info = row[n].info /\ row'[n].date = row[n].date
               /\ row'[n].slot = row[n].slot /\ row'[n].room = row[n].room
               /\ row[n].status # "ABSENT" => row'[n].status # "ABSENT"
               /\ created'[n] \in Nat /\ created'[n] >= created[n]
               /\ row[n].status \in AwaitsResult \cup {"READY", "ENDED"}
                     => row'[n].status \in AwaitsResult \cup {"READY", "ENDED"}
               /\ OperatorsWait /\ ~Settled(n) /\ row[n].status \in AwaitsResult
                     => row'[n].status \in AwaitsResult
    PROVE  OutcomeInv'
<1>1. ASSUME NEW v \in Workers PROVE SoundWorker(v)'
  <2>1. CASE pc[v] = "idle"
    BY <2>1 DEF OutcomeInv, SoundWorker, IdleJob
  <2>2. CASE pc[v] # "idle"
    <3>1. PICK m \in Meetings : m = job[v].meeting
      BY <2>2 DEF TypeOK
    <3>2. SoundJob(v)
      BY <2>2 DEF OutcomeInv
    <3>3. row[m].status # "ABSENT"
      BY <3>1, <3>2 DEF SoundJob
    <3>4. Engaged(v) /\ OperatorsWait => row'[m].status \in AwaitsResult
      <4>1. Engaged(v) => ~Settled(m)
        BY <3>1 DEF Settled
      <4> QED
        BY <3>1, <3>2, <4>1 DEF SoundJob
    <3>5. Engaged(v) => row'[m].status \in AwaitsResult \cup {"READY", "ENDED"}
      BY <3>1, <3>2 DEF SoundJob
    <3> QED
      BY <3>1, <3>3, <3>4, <3>5, Bystander
  <2> QED
    BY <2>1, <2>2
<1> QED
  BY <1>1 DEF OutcomeInv, SoundWorker

\* What the provider does creates, drops or ends meetings of rows that hold a
\* room or were confirmed ended.
LEMMA ProviderOutcome ==
    ASSUME TypeOK, OutcomeInv, NEW m \in Meetings,
           OrphanCreates(m) \/ OrphanDropped(m) \/ ProviderEnds(m)
    PROVE  OutcomeInv'
<1>1. /\ row' = row /\ pc' = pc /\ job' = job
      /\ \A n \in Meetings \ {m} : /\ created'[n] = created[n]
                                   /\ live'[n] = live[n] /\ orphans'[n] = orphans[n]
  BY DEF OrphanCreates, OrphanDropped, ProviderEnds, NewProviderMeeting, TypeOK
<1>2. /\ created[m] \in Nat /\ orphans[m] \in Nat /\ row[m] \in Rows /\ SoundRow(m)
      /\ live[m] \subseteq 1..created[m]
  BY DEF TypeOK, OutcomeInv, SoundRow
<1>3. /\ created'[m] \in {created[m], created[m] + 1}
      /\ live'[m] \subseteq live[m] \cup {created'[m]}
      /\ created'[m] = created[m] => live'[m] \subseteq live[m]
      /\ orphans[m] = 0 => created'[m] = created[m] /\ orphans'[m] = 0
  BY <1>2 DEF OrphanCreates, OrphanDropped, ProviderEnds, NewProviderMeeting, TypeOK
<1>4. created'[m] \in Nat /\ created'[m] >= created[m]
  BY <1>2, <1>3
<1>5. live'[m] \subseteq 1..created'[m]
  BY <1>2, <1>3
<1>6. row[m].calendar \in 0..created'[m]
  <2>1. row[m].calendar \in 0..created[m]
    BY <1>2 DEF SoundRow
  <2> QED
    BY <1>2, <1>4, <2>1
<1>7. ~row[m].active /\ row[m].status # "ENDED" => Untouched(m)'
  BY <1>2, <1>3 DEF SoundRow, Untouched
<1>8. SoundRow(m)'
  BY <1>1, <1>2, <1>5, <1>6, <1>7 DEF SoundRow
<1>9. ASSUME NEW n \in Meetings
      PROVE  SoundRow(n)' /\ created'[n] \in Nat /\ created'[n] >= created[n]
  <2>1. SoundRow(n) /\ created[n] \in Nat
    BY DEF OutcomeInv, TypeOK
  <2>2. CASE n # m
    BY <1>1, <2>1, <2>2 DEF SoundRow, Untouched
  <2> QED
    BY <1>4, <1>8, <2>2
<1> QED
  BY <1>1, <1>9, TableOutcome

\* The stale-row task and operators: a room is released only of a class that
\* ended, or for which nothing was created.
LEMMA OperatorOutcome ==
    ASSUME TypeOK, CreationInv, BookingInv, OutcomeInv,
           \/ \E S \in SUBSET Meetings : FlagStale(S) \/ ConfirmProviderEnded(S)
           \/ \E m \in Meetings : Recover(m) \/ Cancel(m)
    PROVE  OutcomeInv'
<1>1. UNCHANGED <<pc, job, created, live, orphans>>
  BY DEF FlagStale, ConfirmProviderEnded, Recover, Cancel, provider
<1>2. ASSUME NEW n \in Meetings, NEW s, NEW a,
             s \notin {"ABSENT", "READY", "RESERVED", "LIVE", "DRAFT"},
             row'[n].status = s, row'[n].active = a,
             row'[n].info = row[n].info, row'[n].date = row[n].date,
             row'[n].slot = row[n].slot, row'[n].room = row[n].room,
             row'[n].calendar = row[n].calendar,
             NoLegacyDrafts /\ row[n].slot = NoSlot => s = "CANCELLED",
             ~a /\ s # "ENDED" => Untouched(n)
      PROVE  SoundRow(n)'
  <2>1. SoundRow(n)
    BY DEF OutcomeInv
  <2> QED
    BY <1>1, <1>2, <2>1 DEF SoundRow, Untouched
<1>3. ASSUME NEW n \in Meetings
      PROVE  /\ SoundRow(n)'
             /\ row'[n].info = row[n].info /\ row'[n].date = row[n].date
             /\ row'[n].slot = row[n].slot /\ row'[n].room = row[n].room
             /\ row[n].status # "ABSENT" => row'[n].status # "ABSENT"
             /\ row[n].status \in AwaitsResult \cup {"READY", "ENDED"}
                   => row'[n].status \in AwaitsResult \cup {"READY", "ENDED"}
             /\ OperatorsWait /\ ~Settled(n) /\ row[n].status \in AwaitsResult
                   => row'[n].status \in AwaitsResult
  <2>1. row[n] \in Rows /\ created[n] \in Nat /\ orphans[n] \in Nat /\ SoundRow(n)
    BY DEF TypeOK, OutcomeInv
  <2>2. row[n].active => row[n].slot # NoSlot
    BY DEF BookingInv, HoldsRoomUntilResolved
  <2>3. CASE row'[n] = row[n]
    BY <1>1, <2>1, <2>3 DEF SoundRow, Untouched
  <2>4. ASSUME NEW S \in SUBSET Meetings, FlagStale(S), row'[n] # row[n]
        PROVE  /\ row[n].status = "PROVISIONING"
               /\ row'[n] = [row[n] EXCEPT !.status = "PROVIDER_STATE_UNKNOWN",
                                           !.error = "PROVISIONING_INTERRUPTED"]
    BY <2>4 DEF FlagStale
  <2>5. CASE /\ row[n].status = "PROVISIONING"
             /\ row'[n] = [row[n] EXCEPT !.status = "PROVIDER_STATE_UNKNOWN",
                                         !.error = "PROVISIONING_INTERRUPTED"]
    <3>1. /\ row'[n].status = "PROVIDER_STATE_UNKNOWN"
          /\ row'[n].active = row[n].active
          /\ row'[n].info = row[n].info /\ row'[n].date = row[n].date
          /\ row'[n].slot = row[n].slot /\ row'[n].room = row[n].room
          /\ row'[n].calendar = row[n].calendar
      BY <2>1, <2>5 DEF Rows
    <3>2. row[n].active
      BY <2>5 DEF BookingInv, HoldsRoomUntilResolved, HoldingStatuses
    <3>3. SoundRow(n)'
      BY <1>2, <2>2, <3>1, <3>2
    <3> QED
      BY <3>1, <3>3 DEF AwaitsResult
  <2>6. ASSUME NEW S \in SUBSET Meetings, ConfirmProviderEnded(S), row'[n] # row[n]
        PROVE  /\ row[n].status \in Endable /\ live[n] = {} /\ Reconcilable(n)
               /\ row'[n] = [row[n] EXCEPT !.status = "ENDED", !.active = FALSE]
    BY <2>6 DEF ConfirmProviderEnded
  <2>7. CASE /\ row[n].status \in Endable /\ live[n] = {} /\ Reconcilable(n)
             /\ row'[n] = [row[n] EXCEPT !.status = "ENDED", !.active = FALSE]
    <3>1. /\ row'[n].status = "ENDED" /\ row'[n].active = FALSE
          /\ row'[n].info = row[n].info /\ row'[n].date = row[n].date
          /\ row'[n].slot = row[n].slot /\ row'[n].room = row[n].room
          /\ row'[n].calendar = row[n].calendar
      BY <2>1, <2>7 DEF Rows
    <3>2. row[n].status # "LIVE"
      BY <2>1 DEF SoundRow
    <3>3. row[n].slot # NoSlot
      BY <2>2, <2>7, <3>2 DEF Endable, BookingInv, HoldsRoomUntilResolved, HoldingStatuses
    <3>4. OperatorsWait => Settled(n)
      BY <2>7 DEF Reconcilable
    <3>5. SoundRow(n)'
      BY <1>2, <3>1, <3>3
    <3> QED
      BY <3>1, <3>4, <3>5
  <2>8. ASSUME NEW m \in Meetings, Recover(m), row'[n] # row[n]
        PROVE  /\ row[n].status = "PROVIDER_STATE_UNKNOWN" /\ Reconcilable(n)
               /\ \E c \in 1..created[n] : row'[n] = [row[n] EXCEPT
                      !.calendar = c, !.url = TRUE, !.status = "READY",
                      !.active = TRUE, !.error = "NONE"]
    <3>1. row \in [Meetings -> Rows]
      BY DEF TypeOK
    <3>2. PICK c \in 1..created[m] : row' = [row EXCEPT ![m] = [row[m] EXCEPT
                    !.calendar = c, !.url = TRUE, !.status = "READY",
                    !.active = TRUE, !.error = "NONE"]]
      BY <2>8 DEF Recover
    <3>3. n = m
      BY <2>8, <3>1, <3>2
    <3>4. row'[n] = [row[n] EXCEPT !.calendar = c, !.url = TRUE, !.status = "READY",
                                   !.active = TRUE, !.error = "NONE"]
      BY <3>1, <3>2, <3>3
    <3> QED
      BY <2>8, <3>3, <3>4 DEF Recover
  <2>9. CASE /\ row[n].status = "PROVIDER_STATE_UNKNOWN" /\ Reconcilable(n)
             /\ \E c \in 1..created[n] : row'[n] = [row[n] EXCEPT
                    !.calendar = c, !.url = TRUE, !.status = "READY",
                    !.active = TRUE, !.error = "NONE"]
    <3>1. PICK c \in 1..created[n] : row'[n] = [row[n] EXCEPT
                    !.calendar = c, !.url = TRUE, !.status = "READY",
                    !.active = TRUE, !.error = "NONE"]
      BY <2>9
    <3>2. /\ row'[n].status = "READY" /\ row'[n].active = TRUE
          /\ row'[n].info = row[n].info /\ row'[n].date = row[n].date
          /\ row'[n].slot = row[n].slot /\ row'[n].room = row[n].room
          /\ row'[n].calendar = c /\ row'[n].url = TRUE
      BY <2>1, <3>1 DEF Rows
    <3>3. row[n].slot # NoSlot
      BY <2>2, <2>9 DEF BookingInv, HoldsRoomUntilResolved, HoldingStatuses
    <3>4. c \in 0..created[n] /\ c # 0
      BY <2>1
    <3>5. OperatorsWait => Settled(n)
      BY <2>9 DEF Reconcilable
    <3>6. SoundRow(n)'
      BY <1>1, <2>1, <3>2, <3>3, <3>4 DEF SoundRow
    <3> QED
      BY <3>2, <3>5, <3>6
  <2>10. ASSUME NEW m \in Meetings, Cancel(m), row'[n] # row[n]
         PROVE  /\ row[n].status \in Cancellable
                /\ row'[n] = [row[n] EXCEPT !.status = "CANCELLED", !.active = FALSE]
    BY <2>10 DEF Cancel, TypeOK
  <2>11. CASE /\ row[n].status \in Cancellable
              /\ row'[n] = [row[n] EXCEPT !.status = "CANCELLED", !.active = FALSE]
    <3>1. /\ row'[n].status = "CANCELLED" /\ row'[n].active = FALSE
          /\ row'[n].info = row[n].info /\ row'[n].date = row[n].date
          /\ row'[n].slot = row[n].slot /\ row'[n].room = row[n].room
          /\ row'[n].calendar = row[n].calendar
      BY <2>1, <2>11 DEF Rows
    <3>2. row[n].status \in {"DRAFT", "FAILED", "RETRYABLE_FAILED", "NON_RETRYABLE_FAILED"}
      BY <2>1, <2>11 DEF SoundRow, Cancellable
    <3>3. row[n].status # "RETRYABLE_FAILED" => ~row[n].active
      BY <3>2 DEF BookingInv, HoldsRoomUntilResolved, HoldingStatuses
    <3>4. row[n].status = "RETRYABLE_FAILED" => Untouched(n)
      BY DEF CreationInv, OpenIsUntouched, OpenStatuses
    <3>5. Untouched(n)
      BY <2>1, <3>2, <3>3, <3>4 DEF SoundRow
    <3>6. SoundRow(n)'
      BY <1>2, <3>1, <3>5
    <3> QED
      BY <3>1, <3>2, <3>6 DEF AwaitsResult
  <2> QED
    BY <2>3, <2>4, <2>5, <2>6, <2>7, <2>8, <2>9, <2>10, <2>11
<1> QED
  BY <1>1, <1>3, TableOutcome, SMTT(30) DEF TypeOK

\* Every step of the system preserves OutcomeInv.
LEMMA OutcomeStep ==
    TypeOK /\ CreationInv /\ BookingInv /\ OutcomeInv /\ [Next]_vars => OutcomeInv'
<1>1. ASSUME TypeOK, CreationInv, BookingInv, OutcomeInv, NEW w \in Workers, Worker(w)
      PROVE  OutcomeInv'
  BY <1>1, RegisterOutcome, RefusedOutcome, ClaimOutcome, WaitingOutcome, CallOutcome,
     ReplyOutcome, StoredOutcome DEF Worker, Claim, Allocate, StoreOutcome
<1>2. ASSUME TypeOK, OutcomeInv,
             UNCHANGED <<row, pc, job, created, live, orphans>>
      PROVE  OutcomeInv'
  <2>1. \A m \in Meetings : SoundRow(m)'
    BY <1>2 DEF OutcomeInv, SoundRow, Untouched
  <2> QED
    BY <1>2, <2>1, TableOutcome DEF TypeOK
<1>3. ASSUME TypeOK, CreationInv, BookingInv, OutcomeInv, Environment
      PROVE  OutcomeInv'
  <2>1. ASSUME NEW r \in Rooms, NEW o, ConfigureRoom(r, o) PROVE OutcomeInv'
    BY <1>2, <1>3, <2>1 DEF ConfigureRoom, provider
  <2> QED
    BY <1>3, <2>1, ProviderOutcome, OperatorOutcome DEF Environment
<1> QED
  BY <1>1, <1>2, <1>3 DEF Next, vars

\* All that was found to hold in every reachable state.
SystemInv == TypeOK /\ CreationInv /\ BookingInv /\ OutcomeInv

LEMMA SystemStep ==
    /\ Init => SystemInv
    /\ SystemInv /\ [Next]_vars => SystemInv'
<1>1. Init => SystemInv
  BY InitTyped, InitCreation, InitBooking, InitOutcome DEF SystemInv
<1>2. SystemInv /\ [Next]_vars => SystemInv'
  BY TypeStep, CreationStep, BookingStep, OutcomeStep DEF SystemInv
<1> QED
  BY <1>1, <1>2

LEMMA SystemInvariant == Spec => []SystemInv
<1> QED
  BY SystemStep, PTL DEF Spec

\* A row that says READY names a meeting Convay really created for it, and has
\* the start URL the LMS is promised.
THEOREM ReadyMeetingsAreUsable == Spec => []ReadyIsUsable
<1>1. SystemInv => ReadyIsUsable
  <2> SUFFICES ASSUME SystemInv, NEW m \in Meetings, row[m].status = "READY"
               PROVE  row[m].calendar \in 1..created[m] /\ row[m].url
    BY DEF ReadyIsUsable
  <2>1. SoundRow(m) /\ created[m] \in Nat
    BY DEF SystemInv, OutcomeInv, TypeOK
  <2>2. row[m].calendar \in 0..created[m] /\ row[m].calendar # 0 /\ row[m].url
    BY <2>1 DEF SoundRow
  <2> QED
    BY <2>1, <2>2
<1> QED
  BY <1>1, SystemInvariant, PTL

\* While a Convay meeting runs, its room is reserved, whatever codes, crashes and
\* late answers a request meets and whenever operators act: only a row that an
\* operator confirmed as ended can be without.
THEOREM RunningMeetingsHoldTheirRoom == Spec => []RunningMeetingHoldsRoom
<1>1. SystemInv => RunningMeetingHoldsRoom
  <2> SUFFICES ASSUME SystemInv, NEW m \in Meetings,
                      ~row[m].active, row[m].status # "ENDED"
               PROVE  live[m] = {}
    BY DEF RunningMeetingHoldsRoom
  <2>1. created[m] = 0 /\ live[m] \subseteq 1..created[m]
    BY DEF SystemInv, OutcomeInv, SoundRow, Untouched
  <2> QED
    BY <2>1
<1> QED
  BY <1>1, SystemInvariant, PTL

\* A meeting that was ever given a room starts on the date its class was
\* registered for, whichever request claimed the row.
THEOREM ClassesKeepTheirDate == Spec => []ClassOnItsDate
<1>1. SystemInv => ClassOnItsDate
  BY DEF SystemInv, OutcomeInv, SoundRow, ClassOnItsDate
<1> QED
  BY <1>1, SystemInvariant, PTL

\* Who is told 200 or 201 gets the meeting it asked for, where no draft is left
\* from a release that did not require times: two requests for such a draft are
\* compared with its date only, and the first to claim it decides its times.
THEOREM AnswersMatchTheirRequest ==
    NoLegacyDrafts => (Spec => []AnswerMatchesRequest)
<1> SUFFICES ASSUME NoLegacyDrafts PROVE Spec => []AnswerMatchesRequest
  OBVIOUS
<1>1. SystemInv => AnswerMatchesRequest
  <2> SUFFICES ASSUME SystemInv, NEW w \in Workers, job[w].answer \in {"CREATED", "OK"}
               PROVE  LET r == row[job[w].meeting]
                          q == job[w].request
                      IN  r.info = q.info /\ r.date = q.date /\ r.slot = q.slot
    BY DEF AnswerMatchesRequest
  <2>1. pc[w] # "idle"
    BY DEF SystemInv, OutcomeInv, IdleJob
  <2>2. SoundJob(w)
    BY <2>1 DEF SystemInv, OutcomeInv
  <2> QED
    BY <2>2 DEF SoundJob, Agrees
<1> QED
  BY <1>1, SystemInvariant, PTL

\* What one step may do to one row.
RowStep(m) ==
    LET r == row[m]
        s == row'[m]
    IN  \/ s = r
        \/ r.status = "ABSENT" /\ r.slot = NoSlot /\ r.room = NoRoom
        \/ /\ r.status \in {"DRAFT", "RETRYABLE_FAILED"}
           /\ s.info = r.info /\ s.date = r.date
           /\ r.slot # NoSlot => s.slot = r.slot
           /\ r.room # NoRoom => /\ s.room = r.room /\ s.payload = r.payload
                                 /\ s.reservation = r.reservation
        \/ /\ \/ OperatorsWait => r.status \in AwaitsResult
              \/ r.status \in Endable
              \/ s.status = "CANCELLED"
           /\ s.info = r.info /\ s.date = r.date /\ s.slot = r.slot
           /\ s.room = r.room /\ s.reservation = r.reservation
           /\ s.payload = r.payload

LEMMA RowSteps ==
    ASSUME SystemInv, [Next]_vars, NEW m \in Meetings
    PROVE  RowStep(m)
<1>1. row[m] \in Rows /\ SoundRow(m)
  BY DEF SystemInv, TypeOK, OutcomeInv
<1>2. ASSUME NEW n \in Meetings, NEW r, row' = [row EXCEPT ![n] = r], n # m
      PROVE  row'[m] = row[m]
  BY <1>2 DEF SystemInv, TypeOK
<1>3. ASSUME NEW r, row' = [row EXCEPT ![m] = r]
      PROVE  row'[m] = r
  BY <1>3 DEF SystemInv, TypeOK
<1>4. ASSUME NEW w \in Workers, Worker(w), row' # row
      PROVE  RowStep(m)
  <2>1. CASE Register(w)
    <3>1. PICK n \in Meetings, q \in Requests : RegisterNew(w, n, q)
      BY <1>4, <2>1 DEF Register, RegisterExisting, RegisterMismatch
    <3>2. row[n].status = "ABSENT" /\ row' = [row EXCEPT ![n] = NewRow(q)]
      BY <3>1 DEF RegisterNew
    <3> QED
      BY <1>1, <1>2, <3>2 DEF RowStep, SoundRow
  <2>2. CASE ClaimResume(w) \/ ReserveRoom(w) \/ RecordError(w) \/ SaveResult(w)
    <3>1. PICK n : n = job[w].meeting
      OBVIOUS
    <3>2. pc[w] # "idle"
      BY <2>2 DEF ClaimResume, Claimable, AtClaim, ReserveRoom, RecordError, SaveResult
    <3>3. n \in Meetings /\ SoundJob(w)
      BY <3>1, <3>2, AtWork DEF SystemInv
    <3>4. \E r : row' = [row EXCEPT ![n] = r]
      BY <2>2, <3>1 DEF ClaimResume, ReserveRoom, RecordError, SaveResult
    <3>5. CASE n # m
      BY <1>2, <3>3, <3>4, <3>5 DEF RowStep
    <3>6. CASE n = m /\ ClaimResume(w)
      <4>1. row'[m] = [row[m] EXCEPT !.status = "PROVISIONING"]
        BY <1>3, <3>1, <3>6 DEF ClaimResume
      <4>2. row[m].status = "RETRYABLE_FAILED"
        BY <3>1, <3>6 DEF ClaimResume, Resumes
      <4> QED
        BY <1>1, <4>1, <4>2 DEF RowStep, Rows
    <3>7. CASE n = m /\ ReserveRoom(w)
      <4>1. PICK x \in Rooms : row'[m] = [row[m] EXCEPT
                        !.status = "PROVISIONING", !.room = x,
                        !.slot = job[w].request.slot,
                        !.reservation = Interval(job[w].request.slot),
                        !.active = TRUE, !.payload = Snapshot(w, x)]
        BY <1>3, <3>1, <3>7 DEF ReserveRoom
      <4>2. pc[w] = "alloc"
        BY <3>7 DEF ReserveRoom
      <4>3. /\ row[m].room = NoRoom
            /\ row[m].slot # NoSlot => row[m].slot = job[w].request.slot
        BY <3>1, <3>3, <3>7, <4>2 DEF SoundJob, Agrees
      <4>4. row[m].status \in {"DRAFT", "RETRYABLE_FAILED"}
        BY <3>1, <3>3, <3>7, <4>2 DEF SystemInv, CreationInv, WorkerKnowledge,
                                      Knows, OpenStatuses, SoundJob
      <4>5. /\ row'[m].info = row[m].info /\ row'[m].date = row[m].date
            /\ row'[m].slot = job[w].request.slot
        BY <1>1, <4>1 DEF Rows
      <4> QED
        BY <4>3, <4>4, <4>5 DEF RowStep
    <3>8. CASE n = m /\ (RecordError(w) \/ SaveResult(w))
      <4>1. /\ row'[m].info = row[m].info /\ row'[m].date = row[m].date
            /\ row'[m].slot = row[m].slot /\ row'[m].room = row[m].room
            /\ row'[m].reservation = row[m].reservation
            /\ row'[m].payload = row[m].payload
        <5>1. CASE RecordError(w)
          <6>1. row'[m] = FailedRow(row[m], job[w].out, job[w].cal)
            BY <1>3, <3>1, <3>8, <5>1 DEF RecordError
          <6> QED
            BY <1>1, <6>1 DEF FailedRow, Rows
        <5>2. CASE SaveResult(w)
          <6>1. row'[m] = [row[m] EXCEPT
                  !.calendar = Either(row[m].calendar, job[w].cal),
                  !.url = TRUE, !.status = "READY", !.error = "NONE"]
            BY <1>3, <3>1, <3>8, <5>2 DEF SaveResult
          <6> QED
            BY <1>1, <6>1 DEF Rows
        <5> QED
          BY <3>8, <5>1, <5>2
      <4>2. Engaged(w)
        BY <3>8 DEF RecordError, SaveResult, Engaged
      <4>3. OperatorsWait => row[m].status \in AwaitsResult
        BY <3>1, <3>3, <3>8, <4>2 DEF SoundJob
      <4> QED
        BY <4>1, <4>3 DEF RowStep
    <3> QED
      BY <2>2, <3>5, <3>6, <3>7, <3>8
  <2> QED
    BY <1>4, <2>1, <2>2, RowWriters
<1>5. ASSUME NEW S \in SUBSET Meetings, FlagStale(S) \/ ConfirmProviderEnded(S)
      PROVE  RowStep(m)
  <2>1. \/ row'[m] = row[m]
        \/ /\ row[m].status = "PROVISIONING"
           /\ row'[m] = [row[m] EXCEPT !.status = "PROVIDER_STATE_UNKNOWN",
                                       !.error = "PROVISIONING_INTERRUPTED"]
        \/ /\ row[m].status \in Endable
           /\ row'[m] = [row[m] EXCEPT !.status = "ENDED", !.active = FALSE]
    BY <1>5 DEF FlagStale, ConfirmProviderEnded
  <2> QED
    BY <1>1, <2>1, ZenonT(40) DEF RowStep, Rows, AwaitsResult
<1>6. ASSUME NEW n \in Meetings, Recover(n) \/ Cancel(n)
      PROVE  RowStep(m)
  <2>1. CASE n # m
    <3>1. \E r : row' = [row EXCEPT ![n] = r]
      BY <1>6 DEF Recover, Cancel
    <3> QED
      BY <1>2, <2>1, <3>1 DEF RowStep
  <2>2. CASE n = m /\ Recover(n)
    <3>1. PICK c : row'[m] = [row[m] EXCEPT
                    !.calendar = c, !.url = TRUE, !.status = "READY",
                    !.active = TRUE, !.error = "NONE"]
      BY <1>3, <2>2 DEF Recover
    <3>2. row[m].status \in Endable
      BY <2>2 DEF Recover, Endable
    <3> QED
      BY <1>1, <3>1, <3>2 DEF RowStep, Rows
  <2>3. CASE n = m /\ Cancel(n)
    <3>1. row'[m] = [row[m] EXCEPT !.status = "CANCELLED", !.active = FALSE]
      BY <1>3, <2>3 DEF Cancel
    <3> QED
      BY <1>1, <3>1 DEF RowStep, Rows
  <2> QED
    BY <1>6, <2>1, <2>2, <2>3
<1>7. CASE row' = row
  BY <1>7 DEF RowStep
<1>8. CASE Environment /\ row' # row
  BY <1>5, <1>6, <1>8 DEF Environment, OrphanCreates, OrphanDropped, ProviderEnds,
                          ConfigureRoom
<1> QED
  BY <1>4, <1>7, <1>8 DEF Next, vars

\* A released meeting stays released: a worker that reports late never revives
\* a class that ended, was cancelled or failed for good, provided operators wait
\* for the creating request.
THEOREM ReleasedStaysReleased == Spec => TerminalIsFinal
<1>1. SystemInv /\ [Next]_vars =>
        [OperatorsWait => \A m \in Meetings : row[m].status \in Terminal =>
            row'[m].status \in {row[m].status, "CANCELLED"}]_vars
  BY RowSteps DEF RowStep, Terminal, AwaitsResult, Endable
<1> QED
  BY <1>1, SystemInvariant, PTL DEF Spec, TerminalIsFinal

\* From the first transmission on, room, interval and payload stay what they
\* were, and the registered request always does.
THEOREM SnapshotsAreKept == Spec => RetryKeepsSnapshot
<1> DEFINE Kept(m) ==
        /\ row[m].status # "ABSENT" => /\ row'[m].info = row[m].info
                                       /\ row'[m].date = row[m].date
        /\ row[m].slot # NoSlot => row'[m].slot = row[m].slot
        /\ row[m].room # NoRoom => /\ row'[m].room = row[m].room
                                   /\ row'[m].reservation = row[m].reservation
                                   /\ row'[m].payload = row[m].payload
<1>1. SystemInv /\ [Next]_vars => [\A m \in Meetings : Kept(m)]_vars
  <2> SUFFICES ASSUME SystemInv, [Next]_vars, NEW m \in Meetings PROVE Kept(m)
    OBVIOUS
  <2>1. RowStep(m)
    BY RowSteps
  <2> QED
    BY <2>1 DEF RowStep
<1> QED
  BY <1>1, SystemInvariant, PTL DEF Spec, RetryKeepsSnapshot
=============================================================================
