----------------------------- MODULE PromiseProofs -----------------------------
(***************************************************************************)
(* Provisioning implements ClassMeetings for every set of meetings, rooms, *)
(* workers, requests and provider answers, where operators wait for the    *)
(* creating request.  Each step of the detailed system is, through the     *)
(* mapping of ProvisioningRefinement, one step of the abstract class or    *)
(* none.                                                                   *)
(***************************************************************************)
EXTENDS ProvisioningRefinement, OutcomeProofs

\* The abstract variables, as functions of the concrete ones.
Phases  == [m \in Meetings |-> PhaseOf(row[m].status)]
Booked  == [m \in Meetings |-> BookingOf(row[m])]
Pending == [m \in Meetings |-> Undecided(m)]
Running == [m \in Meetings |-> live[m] # {}]

\* What a step leaves as it was for the abstract class n.
Same(n) == /\ PhaseOf(row'[n].status) = PhaseOf(row[n].status)
           /\ BookingOf(row'[n]) = BookingOf(row[n])
           /\ Undecided(n)' <=> Undecided(n)
           /\ created'[n] = created[n]
           /\ live'[n] = {} <=> live[n] = {}

\* A step that moves no class is a stuttering step of the abstract system.
LEMMA Unmoved ==
    ASSUME TypeOK, TypeOK', \A n \in Meetings : Same(n)
    PROVE  UNCHANGED Promised!vars
<1>1. Phases' = Phases /\ Booked' = Booked /\ created' = created
  BY DEF Same, Phases, Booked, TypeOK
<1>2. Pending' = Pending
  <2>1. ASSUME NEW n \in Meetings PROVE Undecided(n)' = Undecided(n)
    BY Zenon DEF Same, Undecided
  <2> QED
    BY <2>1 DEF Pending
<1>3. Running' = Running
  BY DEF Same, Running
<1> QED
  BY <1>1, <1>2, <1>3 DEF Promised!vars, Phases, Booked, Pending, Running

\* A step that moves one class m at most.
LEMMA Moved ==
    ASSUME TypeOK, TypeOK', NEW m \in Meetings,
           \A n \in Meetings \ {m} : Same(n)
    PROVE  /\ Phases' = [Phases EXCEPT ![m] = PhaseOf(row'[m].status)]
           /\ PhaseOf(row'[m].status) = PhaseOf(row[m].status) => Phases' = Phases
           /\ Booked' = [Booked EXCEPT ![m] = BookingOf(row'[m])]
           /\ BookingOf(row'[m]) = BookingOf(row[m]) => Booked' = Booked
           /\ Undecided(m)' => Pending' = [Pending EXCEPT ![m] = TRUE]
           /\ ~Undecided(m)' => Pending' = [Pending EXCEPT ![m] = FALSE]
           /\ (Undecided(m)' <=> Undecided(m)) => Pending' = Pending
           /\ created' = [created EXCEPT ![m] = created'[m]]
           /\ live'[m] # {} => Running' = [Running EXCEPT ![m] = TRUE]
           /\ live'[m] = {} => Running' = [Running EXCEPT ![m] = FALSE]
           /\ (live'[m] = {} <=> live[m] = {}) => Running' = Running
<1>1. Phases' = [Phases EXCEPT ![m] = PhaseOf(row'[m].status)]
  BY DEF Same, Phases
<1>2. Booked' = [Booked EXCEPT ![m] = BookingOf(row'[m])]
  BY DEF Same, Booked
<1>3. Pending' = [Pending EXCEPT ![m] = Undecided(m)']
  <2>1. ASSUME NEW n \in Meetings \ {m} PROVE Undecided(n)' = Undecided(n)
    BY Zenon DEF Same, Undecided
  <2> QED
    BY <2>1 DEF Pending
<1>4. /\ Undecided(m)' => Undecided(m)' = TRUE
      /\ ~Undecided(m)' => Undecided(m)' = FALSE
      /\ (Undecided(m)' <=> Undecided(m)) => Undecided(m)' = Undecided(m)
  BY Zenon DEF Undecided
<1>5. created' = [created EXCEPT ![m] = created'[m]]
  BY DEF Same, TypeOK
<1>6. Running' = [Running EXCEPT ![m] = (live'[m] # {})]
  BY DEF Same, Running
<1>7. PhaseOf(row'[m].status) = PhaseOf(row[m].status) => Phases' = Phases
  BY <1>1 DEF Phases
<1>8. BookingOf(row'[m]) = BookingOf(row[m]) => Booked' = Booked
  BY <1>2 DEF Booked
<1>9. (Undecided(m)' <=> Undecided(m)) => Pending' = Pending
  BY <1>3, <1>4 DEF Pending
<1>10. (live'[m] = {} <=> live[m] = {}) => Running' = Running
  BY <1>6 DEF Running
<1>11. /\ live'[m] # {} => Running' = [Running EXCEPT ![m] = TRUE]
       /\ live'[m] = {} => Running' = [Running EXCEPT ![m] = FALSE]
  BY <1>6
<1> QED
  BY <1>1, <1>2, <1>3, <1>4, <1>5, <1>7, <1>8, <1>9, <1>10, <1>11

\* No draft and no row of an earlier release has begun.
LEMMA PromiseInit == Init => Promised!Init
<1> SUFFICES ASSUME Init PROVE Promised!Init
  OBVIOUS
<1>1. ASSUME NEW m \in Meetings
      PROVE  /\ PhaseOf(row[m].status) \in {"new", "closed"}
             /\ BookingOf(row[m]) = NoBooking
             /\ Undecided(m) <=> FALSE
             /\ created[m] = 0 /\ live[m] = {}
  <2>1. /\ AbsentRow.status = "ABSENT" /\ ~AbsentRow.active
        /\ \A s, q : LegacyRow(s, q).status = s /\ ~LegacyRow(s, q).active
    BY DEF AbsentRow, LegacyRow
  <2>2. row[m].status \in {"ABSENT", "DRAFT", "FAILED"} /\ ~row[m].active
    BY <2>1, ConstantsAssumption DEF Init
  <2>3. ~Undecided(m)
    BY DEF Init, Undecided
  <2> QED
    BY <2>2, <2>3 DEF Init, PhaseOf, BookingOf
<1>2. Phases \in [Meetings -> {"new", "closed"}]
  BY <1>1 DEF Phases
<1>3. Booked = [m \in Meetings |-> NoBooking]
  BY <1>1 DEF Booked
<1>4. Pending = [m \in Meetings |-> FALSE]
  <2>1. ASSUME NEW m \in Meetings PROVE Undecided(m) = FALSE
    BY <1>1, Zenon DEF Undecided
  <2> QED
    BY <2>1 DEF Pending
<1>5. Running = [m \in Meetings |-> FALSE]
  BY <1>1 DEF Running
<1> QED
  BY <1>2, <1>3, <1>4, <1>5 DEF Init, Promised!Init, Phases, Booked, Pending, Running

\* The worker waits for the provider's decision about m.
Waits(w, m) == pc[w] = "sent" /\ job[w].meeting = m /\ job[w].cal = 0

\* It does so alone, and nothing else is undecided about m.
LEMMA WaitsAlone ==
    ASSUME SystemInv, NEW w \in Workers, NEW m \in Meetings, Waits(w, m)
    PROVE  /\ created[m] = 0 /\ orphans[m] = 0 /\ live[m] = {}
           /\ \A v \in Workers \ {w} : ~Waits(v, m)
<1>1. Untouched(m) /\ Engaged(w)
  BY DEF Waits, SystemInv, CreationInv, WorkerKnowledge, Knows, Engaged
<1>2. live[m] = {}
  BY <1>1 DEF Untouched, SystemInv, OutcomeInv, SoundRow
<1>3. ASSUME NEW v \in Workers \ {w}, Waits(v, m) PROVE FALSE
  BY <1>1, <1>3 DEF Waits, Engaged, SystemInv, CreationInv, OneCreator
<1> QED
  BY <1>1, <1>2, <1>3 DEF Untouched

\* Whom a step may leave undecided or decide.
LEMMA UndecidedKept ==
    ASSUME NEW w \in Workers, NEW n \in Meetings, orphans'[n] = orphans[n],
           \A v \in Workers \ {w} : pc'[v] = pc[v] /\ job'[v] = job[v],
           Waits(w, n)' <=> Waits(w, n)
    PROVE  Undecided(n)' <=> Undecided(n)
<1>1. Undecided(n) <=> orphans[n] > 0 \/ \E v \in Workers : Waits(v, n)
  BY DEF Undecided, Waits
<1>2. Undecided(n)' <=> orphans'[n] > 0 \/ \E v \in Workers : Waits(v, n)'
  BY DEF Undecided, Waits
<1>3. \A v \in Workers : Waits(v, n)' <=> Waits(v, n)
  BY DEF Waits
<1> QED
  BY <1>1, <1>2, <1>3

\* Steps of a request between two decisions of the provider.
LEMMA QuietStep ==
    ASSUME SystemInv, TypeOK', NEW w \in Workers,
           row' = row, created' = created, live' = live, orphans' = orphans,
           \A v \in Workers \ {w} : pc'[v] = pc[v] /\ job'[v] = job[v],
           pc[w] = "sent" => job[w].cal # 0,
           pc'[w] = "sent" => job'[w].cal # 0
    PROVE  UNCHANGED Promised!vars
<1>1. ASSUME NEW n \in Meetings PROVE Same(n)
  <2>1. Waits(w, n)' <=> Waits(w, n)
    BY DEF Waits
  <2>2. Undecided(n)' <=> Undecided(n)
    BY <2>1, UndecidedKept
  <2> QED
    BY <2>2 DEF Same
<1> QED
  BY <1>1, Unmoved DEF SystemInv

\* Registration, refusals, replays and answers, and the search for a room, do
\* nothing the abstract class can see.
LEMMA UnseenSteps ==
    ASSUME SystemInv, TypeOK', NEW w \in Workers,
           \/ Register(w) \/ ClaimReplay(w) \/ ClaimRefused(w) \/ ClaimAllocate(w)
           \/ SkipRoom(w) \/ NoCapacity(w) \/ PresetWithdrawn(w) \/ AuthFails(w)
           \/ RecordErrorFails(w) \/ LateResponse(w) \/ Reply(w)
    PROVE  UNCHANGED Promised!vars
<1>1. /\ UNCHANGED <<created, live, orphans>>
      /\ \A v \in Workers \ {w} : pc'[v] = pc[v] /\ job'[v] = job[v]
  <2>1. UNCHANGED <<created, live, orphans>>
    BY ZenonT(40) DEF Register, RegisterNew, RegisterExisting, RegisterMismatch, ClaimReplay,
           ClaimRefused, ClaimAllocate, SkipRoom, NoCapacity, PresetWithdrawn, AuthFails,
           RecordErrorFails, LateResponse, Reply, ReplayAnswered, ReplayTokenFails,
           NextRequest, provider
  <2> QED
    BY <2>1, OwnStep, SMTT(30) DEF SystemInv, Worker, Claim, Allocate, StoreOutcome
<1>2. pc[w] # "sent" /\ pc'[w] # "sent"
  BY ZenonT(40) DEF Register, RegisterNew, RegisterExisting, RegisterMismatch, Begin, Goto, Answer,
         ClaimReplay, ClaimRefused, ClaimAllocate, Claimable, AtClaim, SkipRoom,
         NoCapacity, PresetWithdrawn, AuthFails, RecordErrorFails, LateResponse, Reply,
         ReplayAnswered, ReplayTokenFails, NextRequest, SystemInv, TypeOK
<1>3. CASE row' = row
  BY <1>1, <1>2, <1>3, QuietStep
<1>4. CASE row' # row
  <2>1. PICK m \in Meetings, q \in Requests : RegisterNew(w, m, q)
    BY <1>4 DEF Register, RegisterExisting, RegisterMismatch, ClaimReplay, ClaimRefused,
                ClaimAllocate, SkipRoom, NoCapacity, PresetWithdrawn, AuthFails,
                RecordErrorFails, LateResponse, Reply, ReplayAnswered,
                ReplayTokenFails, NextRequest
  <2>2. /\ row' = [row EXCEPT ![m] = NewRow(q)] /\ row[m].status = "ABSENT"
    BY <2>1 DEF RegisterNew
  <2>3. /\ NewRow(q).status = "DRAFT" /\ ~NewRow(q).active
    BY DEF NewRow, AbsentRow
  <2>4. ~row[m].active
    BY <2>2 DEF SystemInv, BookingInv, HoldsRoomUntilResolved, HoldingStatuses
  <2>5. ASSUME NEW n \in Meetings PROVE Same(n)
    <3>1. PhaseOf(row'[n].status) = PhaseOf(row[n].status)
          /\ BookingOf(row'[n]) = BookingOf(row[n])
      BY <2>2, <2>3, <2>4 DEF PhaseOf, BookingOf, SystemInv, TypeOK
    <3>2. Waits(w, n)' <=> Waits(w, n)
      BY <1>2 DEF Waits
    <3> QED
      BY <1>1, <3>1, <3>2, UndecidedKept DEF Same
  <2> QED
    BY <2>5, Unmoved DEF SystemInv
<1> QED
  BY <1>3, <1>4

\* A step of one worker for its meeting leaves the other classes alone.
LEMMA OthersSame ==
    ASSUME NEW w \in Workers, NEW m \in Meetings, job[w].meeting = m,
           \A n \in Meetings \ {m} :
               /\ row'[n] = row[n] /\ created'[n] = created[n]
               /\ live'[n] = live[n] /\ orphans'[n] = orphans[n],
           \A v \in Workers \ {w} : pc'[v] = pc[v] /\ job'[v] = job[v],
           pc'[w] = "sent" => job'[w].meeting = m
    PROVE  \A n \in Meetings \ {m} : Same(n)
<1>1. ASSUME NEW n \in Meetings \ {m} PROVE Same(n)
  <2>1. Waits(w, n)' <=> Waits(w, n)
    BY DEF Waits
  <2>2. Undecided(n)' <=> Undecided(n)
    BY <2>1, UndecidedKept
  <2> QED
    BY <2>2 DEF Same
<1> QED
  BY <1>1

\* Where nobody works on m, nothing about it is undecided.
LEMMA OpenIsDecided ==
    ASSUME SystemInv, NEW m \in Meetings, row[m].status \in OpenStatuses
    PROVE  created[m] = 0 /\ orphans[m] = 0 /\ ~Undecided(m)
  BY DEF SystemInv, CreationInv, OpenIsUntouched, Untouched, Undecided, Engaged

\* The abstract values of one class.
LEMMA AtClass ==
    ASSUME NEW m \in Meetings
    PROVE  /\ Phases[m] = PhaseOf(row[m].status) /\ Booked[m] = BookingOf(row[m])
           /\ Pending[m] <=> Undecided(m)
           /\ Running[m] <=> live[m] # {}
  BY DEF Phases, Booked, Pending, Running

\* ClaimResume resumes the booking of the first attempt.
LEMMA ResumeStep ==
    ASSUME SystemInv, TypeOK', NEW w \in Workers, ClaimResume(w)
    PROVE  Promised!Next
<1>1. PICK m : m = job[w].meeting
  OBVIOUS
<1>2. pc[w] = "claim" /\ row[m].status = "RETRYABLE_FAILED" /\ row[m].active
  BY <1>1 DEF ClaimResume, Claimable, AtClaim, Resumes
<1>3. m \in Meetings /\ row[m] \in Rows /\ job[w] \in Jobs
  BY <1>1, <1>2, AtWork DEF SystemInv
<1>4. /\ row' = [row EXCEPT ![m] = [row[m] EXCEPT !.status = "PROVISIONING"]]
      /\ UNCHANGED <<created, live, orphans>>
  BY <1>1 DEF ClaimResume, provider
<1>5. /\ pc'[w] = "auth"
      /\ \A v \in Workers \ {w} : pc'[v] = pc[v] /\ job'[v] = job[v]
  BY DEF ClaimResume, Goto, SystemInv, TypeOK
<1>6. /\ row'[m].status = "PROVISIONING" /\ BookingOf(row'[m]) = BookingOf(row[m])
      /\ \A n \in Meetings \ {m} : row'[n] = row[n]
  BY <1>3, <1>4 DEF SystemInv, TypeOK, Rows, BookingOf
<1>7. created[m] = 0 /\ ~Undecided(m)
  BY <1>2, <1>3, OpenIsDecided DEF OpenStatuses
<1>8. ~Undecided(m)'
  BY <1>2, <1>3, <1>4, <1>5, <1>7, UndecidedKept DEF Waits
<1>9. \A n \in Meetings \ {m} : Same(n)
  BY <1>1, <1>3, <1>4, <1>5, <1>6, OthersSame
<1>10. Promised!Resume(m)
  <2>1. Phases' = [Phases EXCEPT ![m] = "trying"] /\ Phases[m] = "waiting"
    BY <1>2, <1>3, <1>6, <1>9, Moved, AtClass DEF PhaseOf, SystemInv
  <2>2. Booked' = Booked /\ Running' = Running
    BY <1>3, <1>4, <1>6, <1>9, Moved DEF SystemInv
  <2>3. Pending' = Pending /\ ~Pending[m]
    BY <1>3, <1>7, <1>8, <1>9, Moved, AtClass DEF SystemInv
  <2> QED
    BY <1>4, <1>7, <2>1, <2>2, <2>3
       DEF Promised!Resume, Promised!NothingMade, Phases, Booked, Pending, Running
<1> QED
  BY <1>3, <1>10 DEF Promised!Next

\* ReserveRoom books a room nobody else has for that time.
LEMMA BookStep ==
    ASSUME SystemInv, TypeOK', BookingInv', NEW w \in Workers, ReserveRoom(w)
    PROVE  Promised!Next
<1>1. PICK m : m = job[w].meeting
  OBVIOUS
<1>2. pc[w] = "alloc"
  BY DEF ReserveRoom
<1>3. /\ m \in Meetings /\ row[m] \in Rows /\ job[w] \in Jobs
      /\ job[w].request \in Requests /\ SoundJob(w)
  BY <1>1, <1>2, AtWork DEF SystemInv
<1>4. row[m].status \in OpenStatuses /\ row[m].room = NoRoom
  BY <1>1, <1>2, <1>3 DEF SystemInv, CreationInv, WorkerKnowledge, Knows, SoundJob
<1>5. row[m].status = "DRAFT" /\ ~row[m].active
  BY <1>1, <1>3, <1>4, ConstantsAssumption
     DEF OpenStatuses, SoundJob, SystemInv, BookingInv, HoldsRoomUntilResolved,
         HoldingStatuses
<1>6. PICK x \in Rooms :
         /\ row' = [row EXCEPT ![m] = [row[m] EXCEPT
                        !.status = "PROVISIONING", !.room = x,
                        !.slot = job[w].request.slot,
                        !.reservation = Interval(job[w].request.slot),
                        !.active = TRUE, !.payload = Snapshot(w, x)]]
         /\ job' = [job EXCEPT ![w].rooms = {}, ![w].room = x]
  BY <1>1 DEF ReserveRoom
<1>7. /\ pc' = [pc EXCEPT ![w] = "auth"] /\ UNCHANGED <<created, live, orphans>>
  BY DEF ReserveRoom, Goto, provider
<1>8. pc'[w] = "auth" /\ \A v \in Workers \ {w} : pc'[v] = pc[v] /\ job'[v] = job[v]
  <2> DEFINE j == [job[w] EXCEPT !.rooms = {}, !.room = x]
  <2>1. job' = [job EXCEPT ![w] = j]
    BY <1>6
  <2> HIDE DEF j
  <2> QED
    BY <1>7, <2>1 DEF SystemInv, TypeOK
<1> DEFINE b == [room |-> x, span |-> Interval(job[w].request.slot)]
<1>9. /\ row'[m].status = "PROVISIONING" /\ BookingOf(row'[m]) = b
      /\ row'[m].active /\ row'[m].room = x
      /\ row'[m].reservation = Interval(job[w].request.slot)
      /\ \A n \in Meetings \ {m} : row'[n] = row[n]
  BY <1>3, <1>6 DEF SystemInv, TypeOK, Rows, BookingOf
<1>10. created[m] = 0 /\ ~Undecided(m)
  BY <1>3, <1>4, OpenIsDecided
<1>11. ~Undecided(m)'
  BY <1>2, <1>3, <1>7, <1>8, <1>10, UndecidedKept DEF Waits
<1>12. \A n \in Meetings \ {m} : Same(n)
  BY <1>1, <1>3, <1>7, <1>8, <1>9, OthersSame
<1>13. ASSUME NEW n \in Meetings \ {m} PROVE ~Promised!Clash(Booked[n], b)
  <2>1. Booked[n] = BookingOf(row[n]) /\ row'[n] = row[n]
    BY <1>9, AtClass
  <2>2. CASE row[n].active
    <3>1. Booked[n] = [room |-> row[n].room, span |-> row[n].reservation]
      BY <2>1, <2>2 DEF BookingOf
    <3>2. row[n].room = x => ~Overlap(row'[n].reservation, row'[m].reservation)
      BY <1>3, <1>9, <2>1, <2>2 DEF BookingInv, HeldDisjoint
    <3>3. b.room = x /\ b.span = row'[m].reservation
      BY <1>9
    <3> HIDE DEF b
    <3> QED
      BY <2>1, <3>1, <3>2, <3>3 DEF Promised!Clash, Overlap
  <2>3. CASE ~row[n].active
    BY <2>1, <2>3 DEF Promised!Clash, BookingOf
  <2> QED
    BY <2>2, <2>3
<1>14. b \in [room : Rooms, span : {Interval(q.slot) : q \in Requests}]
  BY <1>3
<1>15. Promised!Book(m, b)
  <2>1. Phases' = [Phases EXCEPT ![m] = "trying"] /\ Phases[m] = "new"
    BY <1>3, <1>5, <1>9, <1>12, Moved, AtClass DEF PhaseOf, SystemInv
  <2>2. Booked' = [Booked EXCEPT ![m] = b] /\ Running' = Running
    BY <1>3, <1>7, <1>9, <1>12, Moved DEF SystemInv
  <2>3. Pending' = Pending /\ ~Pending[m]
    BY <1>3, <1>10, <1>11, <1>12, Moved, AtClass DEF SystemInv
  <2> HIDE DEF b
  <2> QED
    BY <1>7, <1>10, <1>13, <2>1, <2>2, <2>3
       DEF Promised!Book, Promised!NothingMade, Phases, Booked, Pending, Running
<1> HIDE DEF b
<1> QED
  BY <1>3, <1>14, <1>15 DEF Promised!Next

\* A worker that works on the provider call holds the class for trying.
LEMMA Trying ==
    ASSUME SystemInv, OperatorsWait, NEW w \in Workers, Engaged(w)
    PROVE  /\ job[w].meeting \in Meetings
           /\ row[job[w].meeting].status \in AwaitsResult
           /\ row[job[w].meeting].active
           /\ Phases[job[w].meeting] = "trying"
<1>1. job[w].meeting \in Meetings /\ SoundJob(w)
  BY AtWork DEF SystemInv, Engaged
<1>2. row[job[w].meeting].status \in AwaitsResult
  BY <1>1 DEF SoundJob
<1> QED
  BY <1>1, <1>2, AtClass DEF AwaitsResult, PhaseOf, SystemInv, BookingInv,
                             HoldsRoomUntilResolved, HoldingStatuses

\* Transmit asks the provider.
LEMMA AskStep ==
    ASSUME SystemInv, TypeOK', OperatorsWait, NEW w \in Workers, Transmit(w)
    PROVE  Promised!Next
<1>1. PICK m : m = job[w].meeting
  OBVIOUS
<1>2. /\ pc[w] = "auth" /\ Engaged(w) /\ pc' = [pc EXCEPT ![w] = "sent"]
      /\ UNCHANGED <<row, job, created, live, orphans>>
  BY DEF Transmit, Goto, Engaged, provider
<1>3. m \in Meetings /\ Phases[m] = "trying"
  BY <1>1, <1>2, Trying
<1>4. created[m] = 0 /\ orphans[m] = 0 /\ job[w].cal = 0
  BY <1>1, <1>2 DEF SystemInv, CreationInv, WorkerKnowledge, Knows, Untouched
<1>5. ~Undecided(m)
  <2>1. ASSUME NEW v \in Workers, Waits(v, m) PROVE FALSE
    BY <1>1, <1>2, <1>3, <2>1, WaitsAlone, EngagedAlone DEF Waits, SystemInv, Engaged
  <2> QED
    BY <1>4, <2>1 DEF Undecided, Waits
<1>6. pc'[w] = "sent" /\ \A v \in Workers \ {w} : pc'[v] = pc[v] /\ job'[v] = job[v]
  BY <1>2 DEF SystemInv, TypeOK
<1>7. Undecided(m)'
  BY <1>1, <1>2, <1>4, <1>6 DEF Undecided
<1>8. \A n \in Meetings \ {m} : Same(n)
  BY <1>1, <1>2, <1>3, <1>6, OthersSame
<1>9. Promised!Ask(m)
  <2>1. Phases' = Phases /\ Booked' = Booked /\ Running' = Running
    BY <1>2, <1>3, <1>8, Moved DEF SystemInv
  <2>2. Pending' = [Pending EXCEPT ![m] = TRUE] /\ ~Pending[m]
    BY <1>3, <1>5, <1>7, <1>8, Moved, AtClass DEF SystemInv
  <2> QED
    BY <1>2, <1>3, <1>4, <2>1, <2>2
       DEF Promised!Ask, Promised!NothingMade, Phases, Booked, Pending, Running
<1> QED
  BY <1>3, <1>9 DEF Promised!Next

\* An answer: a refusal settles the matter, any other answer, and the death of
\* the worker, leave it with the provider.
LEMMA AnswerStep ==
    ASSUME SystemInv, TypeOK', NEW w \in Workers, Receive(w) \/ Abort(w)
    PROVE  [Promised!Next]_Promised!vars
<1>1. PICK m : m = job[w].meeting
  OBVIOUS
<1>2. /\ UNCHANGED <<row, created, live>>
      /\ \A v \in Workers \ {w} : pc'[v] = pc[v] /\ job'[v] = job[v]
      /\ pc'[w] # "sent"
  <2>1. UNCHANGED <<row, created, live>>
    BY DEF Receive, ReceiveResult, ReceiveUnauthorized, ReceiveError, Delivered, Abort
  <2>2. \E label \in {"save", "auth", "error", "idle"} : pc' = [pc EXCEPT ![w] = label]
    BY DEF Receive, ReceiveResult, ReceiveUnauthorized, ReceiveError, Abort, Goto
  <2>3. job' = job \/ \E j : job' = [job EXCEPT ![w] = j]
    BY DEF Receive, ReceiveResult, ReceiveUnauthorized, ReceiveError, Abort
  <2> QED
    BY <2>1, <2>2, <2>3 DEF SystemInv, TypeOK
<1>3. CASE ~(pc[w] = "sent" /\ job[w].cal = 0)
  <2>1. orphans' = orphans
    BY <1>3 DEF Receive, ReceiveResult, ReceiveUnauthorized, ReceiveError, Delivered, Abort
  <2>2. pc[w] = "sent" => job[w].cal # 0
    BY <1>3
  <2> QED
    BY <1>2, <2>1, <2>2, QuietStep
<1>4. CASE pc[w] = "sent" /\ job[w].cal = 0
  <2>1. m \in Meetings /\ Waits(w, m)
    BY <1>1, <1>4, AtWork DEF Waits, SystemInv
  <2>2. created[m] = 0 /\ orphans[m] = 0 /\ \A v \in Workers \ {w} : ~Waits(v, m)
    BY <2>1, WaitsAlone
  <2>3. \/ orphans' = [orphans EXCEPT ![m] = @ + 1]
        \/ orphans' = orphans
    BY <1>1, <1>4 DEF Receive, ReceiveResult, ReceiveUnauthorized, ReceiveError, Delivered, Abort
  <2>4. \A n \in Meetings \ {m} : orphans'[n] = orphans[n]
    BY <2>1, <2>3 DEF SystemInv, TypeOK
  <2>5. \A n \in Meetings \ {m} : Same(n)
    BY <1>1, <1>2, <2>1, <2>4, OthersSame
  <2>6. Undecided(m)
    BY <2>1 DEF Undecided, Waits
  <2>7. CASE orphans' = [orphans EXCEPT ![m] = @ + 1]
    <3>1. orphans'[m] = 1
      BY <2>1, <2>2, <2>7 DEF SystemInv, TypeOK
    <3>2. Undecided(m)'
      BY <3>1 DEF Undecided
    <3>3. Same(m)
      BY <1>2, <2>6, <3>2 DEF Same
    <3>4. \A n \in Meetings : Same(n)
      BY <2>5, <3>3
    <3> QED
      BY <3>4, Unmoved DEF SystemInv
  <2>8. CASE orphans' = orphans
    <3>1. \A v \in Workers : ~Waits(v, m)'
      BY <1>2, <2>2 DEF Waits
    <3>2. ~Undecided(m)'
      BY <2>1, <2>2, <2>8, <3>1 DEF Undecided, Waits
    <3>3. Promised!Refuse(m)
      <4>1. Phases' = Phases /\ Booked' = Booked /\ Running' = Running
        BY <1>2, <2>1, <2>5, Moved DEF SystemInv
      <4>2. Pending' = [Pending EXCEPT ![m] = FALSE] /\ Pending[m]
        BY <2>1, <2>5, <2>6, <3>2, Moved, AtClass DEF SystemInv
      <4> QED
        BY <1>2, <4>1, <4>2 DEF Promised!Refuse, Phases, Booked, Pending, Running
    <3> QED
      BY <2>1, <3>3 DEF Promised!Next
  <2> QED
    BY <2>3, <2>7, <2>8
<1> QED
  BY <1>3, <1>4

\* The provider creates a meeting, for a worker that waits or for nobody.
LEMMA CreateStep ==
    ASSUME SystemInv, TypeOK', NEW m \in Meetings,
           \/ OrphanCreates(m)
           \/ \E w \in Workers : ProviderCreates(w) /\ job[w].meeting = m
    PROVE  Promised!Next
<1>1. /\ row' = row /\ pc' = pc
      /\ created' = [created EXCEPT ![m] = created[m] + 1]
      /\ live' = [live EXCEPT ![m] = live[m] \cup {created[m] + 1}]
  BY DEF OrphanCreates, ProviderCreates, NewProviderMeeting
<1>2. /\ created'[m] = created[m] + 1 /\ live'[m] # {}
      /\ \A n \in Meetings \ {m} : created'[n] = created[n] /\ live'[n] = live[n]
  BY <1>1 DEF SystemInv, TypeOK
<1>3. /\ Undecided(m) /\ ~Undecided(m)'
      /\ \A n \in Meetings \ {m} : Undecided(n)' <=> Undecided(n)
  <2>1. CASE OrphanCreates(m)
    <3>1. /\ orphans[m] > 0 /\ job' = job
          /\ orphans' = [orphans EXCEPT ![m] = orphans[m] - 1]
      BY <2>1 DEF OrphanCreates
    <3>2. created[m] + orphans[m] <= 1
      BY DEF SystemInv, CreationInv, AtMostOneProviderMeeting
    <3>3. orphans'[m] = 0 /\ \A n \in Meetings \ {m} : orphans'[n] = orphans[n]
      BY <3>1, <3>2 DEF SystemInv, TypeOK
    <3>4. \A v \in Workers : ~Waits(v, m)
      BY <3>1, WaitsAlone
    <3> QED
      BY <1>1, <3>1, <3>3, <3>4 DEF Undecided, Waits
  <2>2. ASSUME NEW w \in Workers, ProviderCreates(w), job[w].meeting = m
        PROVE  /\ Undecided(m) /\ ~Undecided(m)'
               /\ \A n \in Meetings \ {m} : Undecided(n)' <=> Undecided(n)
    <3> DEFINE j == [job[w] EXCEPT !.cal = created[m] + 1]
    <3>1. /\ Waits(w, m) /\ orphans' = orphans
          /\ job' = [job EXCEPT ![w] = j]
      BY <2>2 DEF ProviderCreates, Waits
    <3>2. j.cal = created[m] + 1 /\ j.meeting = m /\ j.cal # 0
      BY <2>2 DEF SystemInv, TypeOK, Jobs
    <3> HIDE DEF j
    <3>3. job'[w] = j /\ \A v \in Workers \ {w} : pc'[v] = pc[v] /\ job'[v] = job[v]
      BY <1>1, <3>1 DEF SystemInv, TypeOK
    <3>4. orphans[m] = 0 /\ \A v \in Workers \ {w} : ~Waits(v, m)
      BY <3>1, WaitsAlone
    <3>5. \A v \in Workers : ~Waits(v, m)'
      BY <3>2, <3>3, <3>4 DEF Waits
    <3>6. \A n \in Meetings \ {m} : Waits(w, n)' <=> Waits(w, n)
      BY <2>2, <3>2, <3>3 DEF Waits
    <3>7. \A n \in Meetings \ {m} : Undecided(n)' <=> Undecided(n)
      BY <3>1, <3>3, <3>6, UndecidedKept
    <3>8. Undecided(m)
      BY <3>1 DEF Undecided, Waits
    <3>9. ~Undecided(m)'
      BY <3>1, <3>4, <3>5 DEF Undecided, Waits
    <3> QED
      BY <3>7, <3>8, <3>9
  <2> QED
    BY <2>1, <2>2
<1>4. \A n \in Meetings \ {m} : Same(n)
  BY <1>1, <1>2, <1>3 DEF Same
<1>5. Promised!Create(m)
  <2>1. Phases' = Phases /\ Booked' = Booked
    BY <1>1, <1>4, Moved DEF SystemInv
  <2>2. Running' = [Running EXCEPT ![m] = TRUE]
    BY <1>2, <1>4, Moved DEF SystemInv
  <2>3. Pending' = [Pending EXCEPT ![m] = FALSE] /\ Pending[m]
    BY <1>3, <1>4, Moved, AtClass DEF SystemInv
  <2> QED
    BY <1>1, <2>1, <2>2, <2>3 DEF Promised!Create, Phases, Booked, Pending, Running
<1> QED
  BY <1>5 DEF Promised!Next

\* What nobody waits for is dropped, and meetings end.
LEMMA ProviderStep ==
    ASSUME SystemInv, TypeOK', NEW m \in Meetings, OrphanDropped(m) \/ ProviderEnds(m)
    PROVE  [Promised!Next]_Promised!vars
<1>1. /\ UNCHANGED <<row, pc, job, created>>
      /\ \A n \in Meetings \ {m} : live'[n] = live[n] /\ orphans'[n] = orphans[n]
  BY DEF OrphanDropped, ProviderEnds, SystemInv, TypeOK
<1>2. \A n \in Meetings \ {m} : Same(n)
  BY <1>1 DEF Same, Undecided
<1>3. Phases' = Phases /\ Booked' = Booked
  BY <1>1, <1>2, Moved DEF SystemInv
<1>4. CASE OrphanDropped(m)
  <2>1. orphans[m] > 0 /\ orphans' = [orphans EXCEPT ![m] = orphans[m] - 1] /\ live' = live
    BY <1>4 DEF OrphanDropped
  <2>2. created[m] + orphans[m] <= 1
    BY DEF SystemInv, CreationInv, AtMostOneProviderMeeting
  <2>3. orphans'[m] = 0
    BY <2>1, <2>2 DEF SystemInv, TypeOK
  <2>4. \A v \in Workers : ~Waits(v, m)
    BY <2>1, WaitsAlone
  <2>5. Undecided(m) /\ ~Undecided(m)'
    BY <1>1, <2>1, <2>3, <2>4 DEF Undecided, Waits
  <2>6. Pending' = [Pending EXCEPT ![m] = FALSE] /\ Pending[m] /\ Running' = Running
    BY <1>2, <2>1, <2>5, Moved, AtClass DEF SystemInv
  <2>7. Promised!Refuse(m)
    BY <1>1, <1>3, <2>6 DEF Promised!Refuse, Phases, Booked, Pending, Running
  <2> QED
    BY <2>7 DEF Promised!Next
<1>5. CASE ProviderEnds(m)
  <2>1. orphans' = orphans /\ live[m] # {}
    BY <1>5 DEF ProviderEnds
  <2>2. Undecided(m)' <=> Undecided(m)
    BY <1>1, <2>1 DEF Undecided
  <2>3. CASE live'[m] # {}
    <3>1. \A n \in Meetings : Same(n)
      BY <1>1, <1>2, <2>1, <2>2, <2>3 DEF Same
    <3> QED
      BY <3>1, Unmoved DEF SystemInv
  <2>4. CASE live'[m] = {}
    <3>1. Running' = [Running EXCEPT ![m] = FALSE] /\ Running[m] /\ Pending' = Pending
      BY <1>2, <2>1, <2>2, <2>4, Moved, AtClass DEF SystemInv
    <3>2. Promised!Finish(m)
      BY <1>1, <1>3, <3>1 DEF Promised!Finish, Phases, Booked, Pending, Running
    <3> QED
      BY <3>2 DEF Promised!Next
  <2> QED
    BY <2>3, <2>4
<1> QED
  BY <1>4, <1>5

\* RecordError: an unknown outcome is still being tried, a refusal is postponed or
\* given up.
LEMMA FailStep ==
    ASSUME SystemInv, TypeOK', OperatorsWait, NEW w \in Workers, RecordError(w)
    PROVE  [Promised!Next]_Promised!vars
<1>1. PICK m : m = job[w].meeting
  OBVIOUS
<1> DEFINE out == job[w].out
           r == FailedRow(row[m], out, job[w].cal)
<1>2. /\ pc[w] = "error" /\ Engaged(w) /\ row' = [row EXCEPT ![m] = r]
      /\ UNCHANGED <<created, live, orphans>>
  BY <1>1 DEF RecordError, Engaged, provider
<1>3. /\ m \in Meetings /\ row[m] \in Rows /\ Phases[m] = "trying"
      /\ row[m].status \in AwaitsResult /\ row[m].active
  BY <1>1, <1>2, Trying DEF SystemInv, TypeOK
<1>4. /\ r.status = FailureStatus(out) /\ r.active = KeepsReservation(out)
      /\ r.room = row[m].room /\ r.reservation = row[m].reservation
  BY <1>3 DEF FailedRow, Rows
<1>5. row'[m] = r /\ \A n \in Meetings \ {m} : row'[n] = row[n]
  BY <1>2, <1>3 DEF SystemInv, TypeOK
<1> HIDE DEF r
<1>6. /\ pc'[w] = "done"
      /\ \A v \in Workers \ {w} : pc'[v] = pc[v] /\ job'[v] = job[v]
  BY DEF RecordError, Answer, Goto, SystemInv, TypeOK
<1>7. \A n \in Meetings \ {m} : Same(n)
  BY <1>1, <1>2, <1>3, <1>5, <1>6, OthersSame
<1>8. Undecided(m)' <=> Undecided(m)
  BY <1>2, <1>3, <1>6, UndecidedKept DEF Waits
<1>9. Running' = Running /\ Pending' = Pending
  BY <1>2, <1>3, <1>7, <1>8, Moved DEF SystemInv
<1>10. CASE out.known \/ out.ambiguous
  <2>1. r.status \in {"PROVIDER_RESPONSE_INVALID", "PROVIDER_STATE_UNKNOWN"} /\ r.active
    BY <1>4, <1>10 DEF FailureStatus, KeepsReservation
  <2>2. PhaseOf(row'[m].status) = PhaseOf(row[m].status)
    BY <1>3, <1>5, <2>1 DEF PhaseOf, AwaitsResult
  <2>3. BookingOf(row'[m]) = BookingOf(row[m])
    BY <1>3, <1>4, <1>5, <2>1 DEF BookingOf
  <2>4. Same(m)
    BY <1>2, <1>8, <2>2, <2>3 DEF Same
  <2>5. \A n \in Meetings : Same(n)
    BY <1>7, <2>4
  <2> QED
    BY <2>5, Unmoved DEF SystemInv
<1>11. CASE ~out.known /\ ~out.ambiguous
  <2>1. created[m] = 0 /\ orphans[m] = 0
    BY <1>1, <1>2, <1>11 DEF SystemInv, CreationInv, WorkerKnowledge, Knows, Untouched
  <2>2. \A v \in Workers : ~Waits(v, m)
    <3>1. ASSUME NEW v \in Workers, Waits(v, m) PROVE FALSE
      BY <1>1, <1>2, <3>1, EngagedAlone DEF Waits, Engaged, SystemInv
    <3> QED
      BY <3>1
  <2>3. ~Undecided(m)
    BY <2>1, <2>2 DEF Undecided, Waits
  <2>4. ~Pending[m]
    BY <1>3, <2>3, AtClass
  <2>5. \/ r.status = "RETRYABLE_FAILED" /\ r.active
        \/ r.status = "NON_RETRYABLE_FAILED" /\ ~r.active
    BY <1>4, <1>11 DEF FailureStatus, KeepsReservation
  <2>6. CASE r.status = "RETRYABLE_FAILED" /\ r.active
    <3>1. BookingOf(row'[m]) = BookingOf(row[m])
      BY <1>3, <1>4, <1>5, <2>6 DEF BookingOf
    <3>2. PhaseOf(row'[m].status) = "waiting"
      BY <1>5, <2>6 DEF PhaseOf
    <3>3. Phases' = [Phases EXCEPT ![m] = "waiting"] /\ Booked' = Booked
      BY <1>3, <1>7, <3>1, <3>2, Moved DEF SystemInv
    <3>4. Promised!Postpone(m)
      BY <1>2, <1>3, <1>9, <2>1, <2>4, <3>3
         DEF Promised!Postpone, Promised!NothingMade, Phases, Booked, Pending, Running
    <3> QED
      BY <1>3, <3>4 DEF Promised!Next
  <2>7. CASE r.status = "NON_RETRYABLE_FAILED" /\ ~r.active
    <3>1. BookingOf(row'[m]) = NoBooking
      BY <1>5, <2>7 DEF BookingOf
    <3>2. PhaseOf(row'[m].status) = "closed"
      BY <1>5, <2>7 DEF PhaseOf
    <3>3. /\ Phases' = [Phases EXCEPT ![m] = "closed"]
          /\ Booked' = [Booked EXCEPT ![m] = NoBooking]
      BY <1>3, <1>7, <3>1, <3>2, Moved DEF SystemInv
    <3>4. Promised!GiveUp(m)
      BY <1>2, <1>3, <1>9, <2>1, <2>4, <3>3
         DEF Promised!GiveUp, Promised!NothingMade, Phases, Booked, Pending, Running
    <3> QED
      BY <1>3, <3>4 DEF Promised!Next
  <2> QED
    BY <2>5, <2>6, <2>7
<1> QED
  BY <1>10, <1>11

\* One row whose meeting was created becomes READY.
LEMMA ReadyStep ==
    ASSUME SystemInv, TypeOK', NEW m \in Meetings,
           NEW c \in 1..created[m],
           \A n \in Meetings \ {m} : Same(n),
           UNCHANGED <<created, live>>, Undecided(m)' <=> Undecided(m),
           row[m].status \in AwaitsResult, row'[m].status = "READY",
           row'[m].active, row'[m].room = row[m].room,
           row'[m].reservation = row[m].reservation
    PROVE  Promised!Next
<1>1. row[m].active
  BY DEF AwaitsResult, SystemInv, BookingInv, HoldsRoomUntilResolved, HoldingStatuses
<1>2. created[m] = 1
  <2>1. created[m] + orphans[m] <= 1 /\ created[m] \in Nat /\ orphans[m] \in Nat
    BY DEF SystemInv, CreationInv, AtMostOneProviderMeeting, TypeOK
  <2>2. c \in 1..created[m]
    OBVIOUS
  <2> QED
    BY <2>1, <2>2
<1>3. BookingOf(row'[m]) = BookingOf(row[m])
  BY <1>1 DEF BookingOf
<1>4. PhaseOf(row'[m].status) = "ready" /\ PhaseOf(row[m].status) = "trying"
  BY DEF PhaseOf, AwaitsResult
<1>5. Phases' = [Phases EXCEPT ![m] = "ready"] /\ Phases[m] = "trying" /\ Booked' = Booked
  BY <1>3, <1>4, Moved, AtClass DEF SystemInv
<1>6. Running' = Running /\ Pending' = Pending
  BY Moved DEF SystemInv
<1>7. Promised!Ready(m)
  BY <1>2, <1>5, <1>6 DEF Promised!Ready, Phases, Booked, Pending, Running
<1> QED
  BY <1>7 DEF Promised!Next

\* SaveResult and the recovery form.
LEMMA SuccessStep ==
    ASSUME SystemInv, TypeOK', OperatorsWait,
           \/ \E w \in Workers : SaveResult(w)
           \/ \E m \in Meetings : Recover(m)
    PROVE  Promised!Next
<1>1. ASSUME NEW w \in Workers, SaveResult(w) PROVE Promised!Next
  <2>1. PICK m : m = job[w].meeting
    OBVIOUS
  <2> DEFINE r == [row[m] EXCEPT !.calendar = Either(row[m].calendar, job[w].cal),
                                 !.url = TRUE, !.status = "READY", !.error = "NONE"]
  <2>2. /\ pc[w] = "save" /\ Engaged(w) /\ row' = [row EXCEPT ![m] = r]
        /\ UNCHANGED <<created, live, orphans>>
    BY <1>1, <2>1 DEF SaveResult, Engaged, provider
  <2>3. /\ m \in Meetings /\ row[m] \in Rows /\ row[m].status \in AwaitsResult
        /\ row[m].active /\ created[m] \in Nat
    BY <2>1, <2>2, Trying DEF SystemInv, TypeOK
  <2>4. /\ r.status = "READY" /\ r.active = row[m].active
        /\ r.room = row[m].room /\ r.reservation = row[m].reservation
    BY <2>3 DEF Rows
  <2>5. row'[m] = r /\ \A n \in Meetings \ {m} : row'[n] = row[n]
    BY <2>2, <2>3 DEF SystemInv, TypeOK
  <2> HIDE DEF r
  <2>6. /\ pc'[w] = "done"
        /\ \A v \in Workers \ {w} : pc'[v] = pc[v] /\ job'[v] = job[v]
    BY <1>1 DEF SaveResult, Answer, Goto, SystemInv, TypeOK
  <2>7. \A n \in Meetings \ {m} : Same(n)
    BY <2>1, <2>2, <2>3, <2>5, <2>6, OthersSame
  <2>8. Undecided(m)' <=> Undecided(m)
    BY <2>2, <2>3, <2>6, UndecidedKept DEF Waits
  <2>9. SoundJob(w)
    BY <2>2, AtWork DEF SystemInv
  <2>10. job[w].cal \in 0..created[m] /\ job[w].cal # 0
    BY <2>1, <2>2, <2>9 DEF SoundJob
  <2>11. job[w].cal \in 1..created[m]
    BY <2>3, <2>10
  <2> QED
    BY <2>2, <2>3, <2>4, <2>5, <2>7, <2>8, <2>11, ReadyStep
<1>2. ASSUME NEW m \in Meetings, Recover(m) PROVE Promised!Next
  <2>1. /\ UNCHANGED <<pc, job, created, live, orphans>>
        /\ row[m].status = "PROVIDER_STATE_UNKNOWN"
    BY <1>2 DEF Recover, provider
  <2>2. PICK c \in 1..created[m] : row' = [row EXCEPT ![m] = [row[m] EXCEPT
                    !.calendar = c, !.url = TRUE, !.status = "READY",
                    !.active = TRUE, !.error = "NONE"]]
    BY <1>2 DEF Recover
  <2>3. row[m] \in Rows
    BY DEF SystemInv, TypeOK
  <2>4. /\ row'[m].status = "READY" /\ row'[m].active
        /\ row'[m].room = row[m].room /\ row'[m].reservation = row[m].reservation
        /\ \A n \in Meetings \ {m} : row'[n] = row[n]
    BY <2>2, <2>3 DEF SystemInv, TypeOK, Rows
  <2>5. \A n \in Meetings : Undecided(n)' <=> Undecided(n)
    BY <2>1 DEF Undecided
  <2>6. \A n \in Meetings \ {m} : Same(n)
    BY <2>1, <2>4, <2>5 DEF Same
  <2>7. row[m].status \in AwaitsResult
    BY <2>1 DEF AwaitsResult
  <2> QED
    BY <2>1, <2>4, <2>5, <2>6, <2>7, ReadyStep
<1> QED
  BY <1>1, <1>2

\* The stale-row task is not seen, operators close what is over, and a class
\* that has not begun or waits is cancelled.
LEMMA OperatorStep ==
    ASSUME SystemInv, TypeOK', OperatorsWait,
           \/ \E S \in SUBSET Meetings : FlagStale(S) \/ ConfirmProviderEnded(S)
           \/ \E m \in Meetings : Cancel(m)
    PROVE  [Promised!Next]_Promised!vars
<1>1. UNCHANGED <<pc, job, created, live, orphans>>
  BY DEF FlagStale, ConfirmProviderEnded, Cancel, provider
<1>2. \A n \in Meetings : Undecided(n)' <=> Undecided(n)
  BY <1>1 DEF Undecided
<1>3. ASSUME NEW n \in Meetings, PhaseOf(row'[n].status) = PhaseOf(row[n].status),
             BookingOf(row'[n]) = BookingOf(row[n])
      PROVE  Same(n)
  BY <1>1, <1>2, <1>3 DEF Same
<1>4. \A n \in Meetings : row[n] \in Rows
  BY DEF SystemInv, TypeOK
<1>5. ASSUME NEW S \in SUBSET Meetings, FlagStale(S)
      PROVE  UNCHANGED Promised!vars
  <2>1. ASSUME NEW n \in Meetings PROVE Same(n)
    <3>1. CASE n \in S
      <4>1. /\ row[n].status = "PROVISIONING"
            /\ row'[n] = [row[n] EXCEPT !.status = "PROVIDER_STATE_UNKNOWN",
                                        !.error = "PROVISIONING_INTERRUPTED"]
        BY <1>5, <3>1 DEF FlagStale
      <4>2. /\ row'[n].status = "PROVIDER_STATE_UNKNOWN"
            /\ row'[n].active = row[n].active /\ row'[n].room = row[n].room
            /\ row'[n].reservation = row[n].reservation
        BY <1>4, <4>1 DEF Rows
      <4>3. PhaseOf(row'[n].status) = PhaseOf(row[n].status)
        BY <4>1, <4>2 DEF PhaseOf
      <4>4. BookingOf(row'[n]) = BookingOf(row[n])
        BY <4>2 DEF BookingOf
      <4> QED
        BY <1>3, <4>3, <4>4
    <3>2. CASE n \notin S
      BY <1>3, <1>5, <3>2 DEF FlagStale
    <3> QED
      BY <3>1, <3>2
  <2> QED
    BY <2>1, Unmoved DEF SystemInv
<1>6. ASSUME NEW S \in SUBSET Meetings, ConfirmProviderEnded(S)
      PROVE  Promised!Close(S)
  <2>1. ASSUME NEW n \in S
        PROVE  Phases[n] \in {"trying", "ready"} /\ ~Running[n]
    <3>1. row[n].status \in Endable /\ live[n] = {}
      BY <1>6 DEF ConfirmProviderEnded
    <3> QED
      BY <3>1, AtClass DEF PhaseOf, Endable
  <2>2. ASSUME NEW n \in Meetings
        PROVE  /\ PhaseOf(row'[n].status) = IF n \in S THEN "closed" ELSE Phases[n]
               /\ BookingOf(row'[n]) = IF n \in S THEN NoBooking ELSE Booked[n]
    <3>1. CASE n \in S
      <4>1. row'[n] = [row[n] EXCEPT !.status = "ENDED", !.active = FALSE]
        BY <1>6, <3>1 DEF ConfirmProviderEnded
      <4>2. row'[n].status = "ENDED" /\ ~row'[n].active
        BY <1>4, <4>1 DEF Rows
      <4> QED
        BY <3>1, <4>2 DEF PhaseOf, BookingOf
    <3>2. CASE n \notin S
      BY <1>6, <3>2, AtClass DEF ConfirmProviderEnded
    <3> QED
      BY <3>1, <3>2
  <2>3. Phases' = [n \in Meetings |-> IF n \in S THEN "closed" ELSE Phases[n]]
    BY <2>2 DEF Phases
  <2>4. Booked' = [n \in Meetings |-> IF n \in S THEN NoBooking ELSE Booked[n]]
    BY <2>2 DEF Booked
  <2>5. Pending' = Pending
    <3>1. ASSUME NEW n \in Meetings PROVE Undecided(n)' = Undecided(n)
      BY <1>2, Zenon DEF Undecided
    <3> QED
      BY <3>1 DEF Pending
  <2>6. Running' = Running
    BY <1>1 DEF Running
  <2> QED
    BY <1>1, <2>1, <2>3, <2>4, <2>5, <2>6
       DEF Promised!Close, Phases, Booked, Pending, Running
<1>7. ASSUME NEW m \in Meetings, Cancel(m)
      PROVE  [Promised!Next]_Promised!vars
  <2>1. /\ row' = [row EXCEPT ![m] = [row[m] EXCEPT !.status = "CANCELLED",
                                                    !.active = FALSE]]
        /\ row[m].status \in Cancellable
    BY <1>7 DEF Cancel
  <2>2. /\ row'[m].status = "CANCELLED" /\ ~row'[m].active
        /\ \A n \in Meetings \ {m} : row'[n] = row[n]
    BY <1>4, <2>1 DEF SystemInv, TypeOK, Rows
  <2>3. \A n \in Meetings \ {m} : Same(n)
    BY <1>3, <2>2
  <2>4. PhaseOf(row'[m].status) = "closed" /\ BookingOf(row'[m]) = NoBooking
    BY <2>2 DEF PhaseOf, BookingOf
  <2>5. row[m].status # "RESERVED"
    BY DEF SystemInv, OutcomeInv, SoundRow
  <2>6. CASE row[m].status \in {"DRAFT", "RETRYABLE_FAILED"}
    <3>1. created[m] = 0 /\ ~Pending[m] /\ Phases[m] \in {"new", "waiting"}
      BY <2>6, OpenIsDecided, AtClass DEF OpenStatuses, PhaseOf
    <3>2. /\ Phases' = [Phases EXCEPT ![m] = "closed"]
          /\ Booked' = [Booked EXCEPT ![m] = NoBooking]
          /\ Pending' = Pending /\ Running' = Running
      BY <1>1, <1>2, <2>3, <2>4, Moved DEF SystemInv
    <3>3. Promised!Cancel(m)
      BY <1>1, <3>1, <3>2
         DEF Promised!Cancel, Promised!NothingMade, Phases, Booked, Pending, Running
    <3> QED
      BY <3>3 DEF Promised!Next
  <2>7. CASE row[m].status \in {"FAILED", "NON_RETRYABLE_FAILED"}
    <3>1. ~row[m].active
      BY <2>7 DEF SystemInv, BookingInv, HoldsRoomUntilResolved, HoldingStatuses
    <3>2. Same(m)
      BY <1>3, <2>4, <2>7, <3>1 DEF PhaseOf, BookingOf
    <3>3. \A n \in Meetings : Same(n)
      BY <2>3, <3>2
    <3> QED
      BY <3>3, Unmoved DEF SystemInv
  <2> QED
    BY <2>1, <2>5, <2>6, <2>7 DEF Cancellable
<1> QED
  BY <1>5, <1>6, <1>7 DEF Promised!Next

\* Every step of the detailed system is an abstract step or none.
LEMMA PromiseStep ==
    ASSUME SystemInv, TypeOK', BookingInv', OperatorsWait, [Next]_vars
    PROVE  [Promised!Next]_Promised!vars
<1>1. ASSUME NEW w \in Workers, Worker(w)
      PROVE  [Promised!Next]_Promised!vars
  <2>1. CASE ProviderCreates(w)
    <3>1. job[w].meeting \in Meetings
      BY <2>1, AtWork DEF ProviderCreates, SystemInv
    <3> QED
      BY <2>1, <3>1, CreateStep
  <2> QED
    BY <1>1, <2>1, UnseenSteps, ResumeStep, BookStep, AskStep, AnswerStep, FailStep,
       SuccessStep DEF Worker, Claim, Allocate, StoreOutcome
<1>2. CASE Environment
  <2>1. ASSUME NEW r \in Rooms, NEW o, ConfigureRoom(r, o)
        PROVE  UNCHANGED Promised!vars
    <3>1. UNCHANGED <<row, pc, job, created, live, orphans>>
      BY <2>1 DEF ConfigureRoom, provider
    <3>2. \A n \in Meetings : Same(n)
      BY <3>1 DEF Same, Undecided
    <3> QED
      BY <3>2, Unmoved DEF SystemInv
  <2> QED
    BY <1>2, <2>1, CreateStep, ProviderStep, SuccessStep, OperatorStep DEF Environment
<1>3. CASE UNCHANGED vars
  <2>1. \A n \in Meetings : Same(n)
    BY <1>3 DEF vars, Same, Undecided
  <2> QED
    BY <2>1, Unmoved DEF SystemInv
<1> QED
  BY <1>1, <1>2, <1>3 DEF Next

\* Requests, retries, crashes, the stale-row task and operators together do what
\* the abstract class meeting may do and nothing else, if operators wait for the
\* creating request.
THEOREM PromiseKept == OperatorsWait => (Spec => Promise)
<1> SUFFICES ASSUME OperatorsWait PROVE Spec => Promise
  OBVIOUS
<1>1. Init => Promised!Init
  BY PromiseInit
<1>2. SystemInv /\ SystemInv' /\ [Next]_vars => [Promised!Next]_Promised!vars
  BY PromiseStep DEF SystemInv
<1> QED
  BY <1>1, <1>2, SystemInvariant, PTL DEF Spec, Promise, Promised!Spec
=============================================================================
