---------------------------- MODULE CompanionProofs ----------------------------
(***************************************************************************)
(* The proofs about the parts that read or write the meetings table beside *)
(* the provisioning requests: the audit log, the administration form and   *)
(* the availability query.  Each keeps what SystemInv says, or the part of *)
(* it that a form does not break, and adds an invariant of its own.        *)
(*                                                                         *)
(* AuditInv adds to the two properties of the log what a worker that may   *)
(* transmit has already logged, and that the code of the error it is about *)
(* to record says whether a meeting is known, which the log itself does    *)
(* not, and that a token request under way found a settled meeting.        *)
(* FormInv follows the table and what the forms have loaded.         *)
(* QueryInv follows one query through one change of what it depends on.    *)
(***************************************************************************)
EXTENDS AuditTrail, MeetingAdminForm, Availability, PromiseProofs, FiniteSetTheorems

(***************************************************************************)
(* The audit log tells the story the meetings table tells, for every set   *)
(* of meetings, rooms, workers, requests and provider answers, as long as  *)
(* operators wait for the creating request.                                *)
(***************************************************************************)
\* Whether a meeting is known follows from the code of the error.
LEMMA CodesTellKnown ==
    /\ \A x \in Exchanges : CodeTellsKnown(StartMeeting(x))
    /\ \A o \in AuthErrors \cup {RoomInactive} : CodeTellsKnown(o)
<1>1. \A s, creation : /\ CodeTellsKnown(HttpError(s, creation))
                       /\ CodeTellsKnown(Malformed(s, creation))
                       /\ CodeTellsKnown(RequestError(s, creation))
  BY DEF CodeTellsKnown, HttpError, HttpCode, Malformed, RequestError, ProviderError
<1>2. ASSUME NEW x \in Exchanges PROVE CodeTellsKnown(StartMeeting(x))
  <2>1. x.status \in 0..599 /\ x.body \in Bodies
    BY <1>2 DEF Exchanges
  <2>2. x.body.envelope \in Envelopes
    BY <2>1 DEF Bodies
  <2>3. CodeTellsKnown(KnownCreated(x.status, x.body))
    BY DEF CodeTellsKnown, KnownCreated, ProviderError
  <2>4. /\ CodeTellsKnown(Success)
        /\ CodeTellsKnown(ProviderError("PROVIDER_VALIDATION_ERROR", FALSE, x.status, FALSE))
        /\ CodeTellsKnown(ProviderError("MALFORMED_CREATION_RESPONSE", TRUE, x.status, FALSE))
    BY DEF CodeTellsKnown, Success, ProviderError
  <2>5. CodeTellsKnown(ParseMeeting(x.status, x.body))
    BY <1>1, <2>2, <2>3, <2>4 DEF ParseMeeting, Envelopes
  <2> QED
    BY <1>1, <2>5 DEF StartMeeting
<1>3. ASSUME NEW x PROVE CodeTellsKnown(Authenticate(x))
  <2>1. CodeTellsKnown(Success)
    BY DEF CodeTellsKnown, Success, ProviderError
  <2>2. CodeTellsKnown(ProviderError("MALFORMED_AUTH_RESPONSE", FALSE, x.status, FALSE))
    BY DEF CodeTellsKnown, ProviderError
  <2> QED
    BY <1>1, <2>1, <2>2 DEF Authenticate
<1>4. CodeTellsKnown(AuthBusy) /\ CodeTellsKnown(TokenExpired) /\ CodeTellsKnown(RoomInactive)
  BY DEF CodeTellsKnown, AuthBusy, TokenExpired, RoomInactive, ProviderError
<1> QED
  BY <1>2, <1>3, <1>4 DEF AuthErrors

\* The audit log only adds to what the meetings do.
LEMMA AuditRefines ==
    /\ AuditInit => Init
    /\ [AuditNext]_auditVars => [Next]_vars
<1>1. AuditInit => Init
  BY DEF AuditInit
<1>2. \A w \in Workers : AuditedWorker(w) \/ UnauditedWorker(w) => Worker(w)
  BY DEF AuditedWorker, UnauditedWorker, Worker, Claim, Allocate, StoreOutcome
<1>3. AuditedEnvironment \/ UnauditedEnvironment => Environment
  BY DEF AuditedEnvironment, UnauditedEnvironment, Environment
<1>4. \A m \in Meetings : TokenRequest(m) => UNCHANGED vars
  BY DEF TokenRequest, AskToken, TokenRefused, TokenServed
<1> QED
  BY <1>1, <1>2, <1>3, <1>4 DEF AuditNext, Next, auditVars

LEMMA AuditedSystem == AuditSpec => []SystemInv
<1> QED
  BY SystemStep, AuditRefines, PTL DEF AuditSpec

\* The records that carry no error.
LEMMA PlainEvents ==
    \A a : /\ Plain(a).action = a
           /\ a \in {"provider_provisioning_started", "provider_retry_started",
                     "provider_state_unknown", "meeting_created",
                     "admin_recovered_provider_meeting",
                     "admin_confirmed_provider_ended", "meeting_cancelled"}
                 => Plain(a) \in Events
<1>1. "NONE" \in Codes
  BY DEF Codes
<1>2. \A a : Plain(a) = [action |-> a, code |-> "NONE", unknown |-> FALSE]
  BY DEF Plain, Event
<1> QED
  BY <1>1, <1>2 DEF Events

\* What a row that is neither READY nor ENDED says of its log, and a READY one.
LEMMA Unsettled ==
    ASSUME AuditInv, OperatorsWait, NEW m \in Meetings
    PROVE  /\ row[m].status \notin {"READY", "ENDED"} =>
                 log[m].before.action \notin Settling /\ asking[m] = "none"
           /\ row[m].status \in {"READY", "LIVE"} => log[m].before.action \in Settling
<1>1. log[m] \in Logs /\ row[m].status \in Concluded(Telling(log[m]))
  BY DEF AuditInv, LogExplainsStatus
<1>2. log[m].last.action # "provider_error" => log[m].before = log[m].last
  BY <1>1 DEF Logs
<1>3. log[m].before.action \in Settling => Telling(log[m]) = log[m].before
  BY <1>2 DEF Telling
<1>4. \A e : e.action \in Settling => Concluded(e) \subseteq {"READY", "ENDED"}
  BY DEF Settling, Concluded
<1>5. row[m].status \notin {"READY", "ENDED"} => log[m].before.action \notin Settling
  BY <1>1, <1>3, <1>4
<1>6. ASSUME row[m].status \in {"READY", "LIVE"}
      PROVE  Telling(log[m]).action \in Settling
  <2>1. Telling(log[m]) \in Events
    BY <1>1 DEF Telling, Logs
  <2>2. \A o : FailureStatus(o) \notin {"READY", "LIVE"}
    BY DEF FailureStatus
  <2>3. LegacyStatuses \subseteq {"DRAFT", "FAILED"}
    BY ConstantsAssumption
  <2> QED
    BY <1>1, <1>6, <2>1, <2>2, <2>3 DEF Concluded, Events, Settling
<1>7. Telling(log[m]).action \in Settling => log[m].before.action \in Settling
  BY <1>2 DEF Telling, Settling
<1> QED
  BY <1>5, <1>6, <1>7 DEF AuditInv

\* What a step must leave for AuditInv to hold again: logs that are not taken
\* back, explain the rows, and speak of every worker that comes to be engaged.
LEMMA AuditKept ==
    ASSUME SystemInv, AuditInv,
           log' \in [Meetings -> Logs],
           asking' \in [Meetings -> {"none", "active", "inactive"}],
           \A m \in Meetings :
               /\ log[m].started => log'[m].started
               /\ OperatorsWait => row'[m].status \in Concluded(Telling(log'[m]))
               /\ OperatorsWait /\ asking'[m] # "none" =>
                     log'[m].before.action \in Settling
               /\ created'[m] > 0 \/ orphans'[m] > 0 =>
                     created[m] > 0 \/ orphans[m] > 0 \/ log[m].started,
           \A v \in Workers :
               /\ Engaged(v)' => \/ /\ Engaged(v) /\ job'[v].meeting = job[v].meeting
                                 \/ log'[job'[v].meeting].started
               /\ pc'[v] = "error" => \/ pc[v] = "error" /\ job'[v].out = job[v].out
                                      \/ CodeTellsKnown(job'[v].out)
    PROVE  AuditInv'
<1>1. LogExplainsStatus'
  BY DEF LogExplainsStatus
<1>2. ASSUME NEW v \in Workers, Engaged(v)'
      PROVE  log'[job'[v].meeting].started
  <2>1. CASE Engaged(v) /\ job'[v].meeting = job[v].meeting
    <3>1. job[v].meeting \in Meetings /\ log[job[v].meeting].started
      BY <2>1, AtWork DEF AuditInv, SystemInv, Engaged
    <3> QED
      BY <2>1, <3>1
  <2> QED
    BY <1>2, <2>1
<1>3. ASSUME NEW v \in Workers, pc'[v] = "error"
      PROVE  CodeTellsKnown(job'[v].out)
  BY <1>3 DEF AuditInv
<1>4. \A m \in Meetings : created'[m] > 0 \/ orphans'[m] > 0 => log'[m].started
  BY DEF AuditInv
<1> QED
  BY <1>1, <1>2, <1>3, <1>4 DEF AuditInv, Logs, Events, CodeTellsKnown

\* A row and its log written together.
LEMMA Recorded ==
    ASSUME AuditInv, NEW S \in SUBSET Meetings, NEW e \in Events, Record(S, e)
    PROVE  /\ log' \in [Meetings -> Logs]
           /\ \A m \in Meetings : log'[m].started = log[m].started
           /\ \A m \in S : /\ log'[m].last = e
                           /\ log'[m].before = IF e.action = "provider_error"
                                               THEN log[m].before ELSE e
           /\ \A m \in Meetings \ S : log'[m] = log[m]
<1>1. \A m \in Meetings : log[m] \in Logs
  BY DEF AuditInv
<1>2. ASSUME NEW m \in Meetings
      PROVE  /\ Noted(log[m], e) \in Logs
             /\ Noted(log[m], e).last = e
             /\ Noted(log[m], e).before = IF e.action = "provider_error"
                                          THEN log[m].before ELSE e
             /\ Noted(log[m], e).started = log[m].started
  <2>1. log[m] \in [last : Events, before : Events, started : BOOLEAN]
    BY <1>1 DEF Logs
  <2>2. PICK b \in Events : b = IF e.action = "provider_error" THEN log[m].before ELSE e
    BY <2>1
  <2>3. Noted(log[m], e) = [log[m] EXCEPT !.last = e, !.before = b]
    BY <2>2 DEF Noted
  <2>4. Noted(log[m], e) = [last |-> e, before |-> b, started |-> log[m].started]
    BY <2>1, <2>3
  <2> QED
    BY <2>1, <2>2, <2>4 DEF Logs
<1> QED
  BY <1>1, <1>2 DEF Record

\* What the log of a row that does not exist says.
LEMMA NothingLogged ==
    ASSUME AuditInv, OperatorsWait, NEW m \in Meetings, row[m].status = "ABSENT"
    PROVE  "DRAFT" \in Concluded(Telling(log[m]))
<1>1. "ABSENT" \in Concluded(Telling(log[m]))
  BY DEF AuditInv, LogExplainsStatus
<1>2. \A o : FailureStatus(o) # "ABSENT"
  BY DEF FailureStatus
<1>3. Telling(log[m]) \in Events
  BY DEF AuditInv, Logs, Telling
<1>4. Telling(log[m]).action = "none"
  BY <1>1, <1>2, <1>3 DEF Concluded, Events
<1> QED
  BY <1>1, <1>4 DEF Concluded

\* A request that is not yet engaged becomes so only with its record.
LEMMA UnauditedClaims ==
    ASSUME TypeOK, NEW w \in Workers, UnauditedWorker(w)
    PROVE  Worker(w) /\ ~ClaimResume(w) /\ ~ReserveRoom(w)
<1>1. Worker(w)
  BY DEF UnauditedWorker, Worker, Claim, Allocate, StoreOutcome
<1>2. pc \in [Workers -> PCs]
  BY DEF TypeOK
<1>3. ~(pc[w] \in {"claim", "alloc"} /\ pc'[w] = "auth")
  <2>1. CASE \/ ClaimReplay(w) \/ ClaimRefused(w) \/ ClaimAllocate(w)
             \/ PresetWithdrawn(w) \/ SkipRoom(w) \/ NoCapacity(w)
    BY <1>2, <2>1, SMTT(30) DEF ClaimReplay, ClaimRefused, ClaimAllocate, PresetWithdrawn,
       SkipRoom, NoCapacity, Answer, Goto
  <2>2. CASE Register(w) \/ AuthFails(w) \/ Transmit(w) \/ Receive(w) \/ ProviderCreates(w)
    BY <1>2, <2>2 DEF Register, RegisterNew, RegisterExisting, RegisterMismatch, AuthFails,
       Transmit, Receive, ReceiveResult, ReceiveUnauthorized, ReceiveError, Delivered,
       ProviderCreates
  <2>3. CASE RecordErrorFails(w) \/ LateResponse(w) \/ Reply(w) \/ Abort(w)
    BY <1>2, <2>3 DEF RecordErrorFails, LateResponse, Reply, ReplayAnswered,
       ReplayTokenFails, NextRequest, Abort, Goto
  <2> QED
    BY <2>1, <2>2, <2>3 DEF UnauditedWorker
<1>4. ClaimResume(w) \/ ReserveRoom(w) => pc[w] \in {"claim", "alloc"} /\ pc'[w] = "auth"
  BY <1>2 DEF ClaimResume, Claimable, AtClaim, ReserveRoom, Goto
<1> QED
  BY <1>1, <1>3, <1>4

\* Of the rows, an unaudited step can at most make a draft.
LEMMA UnauditedRows ==
    ASSUME SystemInv, AuditInv, OperatorsWait, NEW w \in Workers, UnauditedWorker(w)
    PROVE  \A m \in Meetings : row'[m].status \in Concluded(Telling(log[m]))
<1>1. LogExplainsStatus
  BY DEF AuditInv
<1>2. CASE row' = row
  BY <1>1, <1>2 DEF LogExplainsStatus
<1>3. CASE row' # row
  <2>1. Register(w)
    BY <1>3 DEF UnauditedWorker, ClaimReplay, ClaimRefused, ClaimAllocate, PresetWithdrawn,
       SkipRoom, NoCapacity, AuthFails, Transmit, Receive, ReceiveResult,
       ReceiveUnauthorized, ReceiveError, Delivered, RecordErrorFails, LateResponse,
       Reply, ReplayAnswered, ReplayTokenFails, NextRequest, Abort, ProviderCreates
  <2>2. PICK m \in Meetings, q \in Requests : RegisterNew(w, m, q)
    BY <1>3, <2>1 DEF Register, RegisterExisting, RegisterMismatch
  <2>3. row \in [Meetings -> Rows]
    BY DEF SystemInv, TypeOK
  <2>4. NewRow(q).status = "DRAFT"
    BY DEF NewRow, AbsentRow
  <2>5. "DRAFT" \in Concluded(Telling(log[m]))
    BY <2>2, NothingLogged DEF RegisterNew
  <2> QED
    BY <1>1, <2>2, <2>3, <2>4, <2>5 DEF RegisterNew, LogExplainsStatus
<1> QED
  BY <1>2, <1>3

\* What an unaudited step may do to the provider is due to a worker that waits
\* for its answer.
LEMMA UnauditedProvider ==
    ASSUME SystemInv, AuditInv, NEW w \in Workers, UnauditedWorker(w)
    PROVE  \A m \in Meetings : created'[m] > 0 \/ orphans'[m] > 0 =>
               created[m] > 0 \/ orphans[m] > 0 \/ log[m].started
<1>1. CASE created' = created /\ orphans' = orphans
  BY <1>1
<1>2. CASE ~(created' = created /\ orphans' = orphans)
  <2>1. Receive(w) \/ Abort(w) \/ ProviderCreates(w)
    BY <1>2 DEF UnauditedWorker, Register, RegisterNew, RegisterExisting, RegisterMismatch,
       ClaimReplay, ClaimRefused, ClaimAllocate, PresetWithdrawn, SkipRoom, NoCapacity,
       AuthFails, Transmit, RecordErrorFails, LateResponse, Reply, ReplayAnswered,
       ReplayTokenFails, NextRequest, provider
  <2>2. /\ pc[w] = "sent"
        /\ \A m \in Meetings : m # job[w].meeting =>
              created'[m] = created[m] /\ orphans'[m] = orphans[m]
    <3>1. created \in [Meetings -> Nat] /\ orphans \in [Meetings -> Nat]
      BY DEF SystemInv, TypeOK
    <3>2. CASE Receive(w)
      BY <3>1, <3>2 DEF Receive, ReceiveResult, ReceiveUnauthorized, ReceiveError, Delivered
    <3>3. CASE Abort(w)
      BY <1>2, <3>1, <3>3 DEF Abort
    <3>4. CASE ProviderCreates(w)
      BY <3>1, <3>4 DEF ProviderCreates, NewProviderMeeting
    <3> QED
      BY <2>1, <3>2, <3>3, <3>4
  <2>3. log[job[w].meeting].started
    BY <2>2 DEF AuditInv, Engaged
  <2> QED
    BY <2>2, <2>3, SMTT(30)
<1> QED
  BY <1>1, <1>2

\* An error waits to be recorded once authentication or the transmission failed.
LEMMA UnauditedErrors ==
    ASSUME TypeOK, NEW w \in Workers, UnauditedWorker(w), pc'[w] = "error"
    PROVE  CodeTellsKnown(job'[w].out)
<1>1. pc \in [Workers -> PCs] /\ job \in [Workers -> Jobs]
  BY DEF TypeOK
<1>2. CASE AuthFails(w)
  <2>1. PICK o \in AuthErrors \cup {RoomInactive} : job' = [job EXCEPT ![w].out = o]
    BY <1>2 DEF AuthFails
  <2>2. job'[w].out = o
    BY <1>1, <2>1 DEF Jobs
  <2> QED
    BY <2>1, <2>2, CodesTellKnown
<1>3. CASE Receive(w)
  <2>1. PICK x \in StartExchanges : ReceiveError(w, x)
    <3>1. \A x : ~ReceiveResult(w, x) /\ ~ReceiveUnauthorized(w, x)
      BY <1>1 DEF ReceiveResult, ReceiveUnauthorized, Goto
    <3> QED
      BY <1>3, <3>1 DEF Receive
  <2>2. x \in Exchanges
    BY ConstantsAssumption
  <2>3. job'[w].out = StartMeeting(x)
    BY <1>1, <2>1 DEF ReceiveError, Jobs
  <2> QED
    BY <2>2, <2>3, CodesTellKnown
<1>4. CASE ~AuthFails(w) /\ ~Receive(w)
  <2>1. CASE \/ ClaimReplay(w) \/ ClaimRefused(w) \/ ClaimAllocate(w)
             \/ PresetWithdrawn(w) \/ SkipRoom(w) \/ NoCapacity(w)
    BY <1>1, <2>1, SMTT(30) DEF ClaimReplay, ClaimRefused, ClaimAllocate, PresetWithdrawn,
       SkipRoom, NoCapacity, Answer, Goto
  <2>2. CASE Register(w) \/ Transmit(w) \/ ProviderCreates(w)
    BY <1>1, <2>2 DEF Register, RegisterNew, RegisterExisting, RegisterMismatch, Begin,
       Transmit, ProviderCreates, Goto
  <2>3. CASE RecordErrorFails(w) \/ LateResponse(w) \/ Reply(w) \/ Abort(w)
    BY <1>1, <2>3 DEF RecordErrorFails, LateResponse, Reply, ReplayAnswered,
       ReplayTokenFails, NextRequest, Abort, Answer, Goto
  <2> QED
    BY <1>4, <2>1, <2>2, <2>3 DEF UnauditedWorker
<1> QED
  BY <1>2, <1>3, <1>4

LEMMA UnauditedKept ==
    ASSUME SystemInv, AuditInv, NEW w \in Workers, UnauditedWorker(w), UNCHANGED asking
    PROVE  AuditInv'
<1>1. TypeOK /\ Worker(w) /\ ~ClaimResume(w) /\ ~ReserveRoom(w)
  BY UnauditedClaims DEF SystemInv
<1>2. log' = log
  BY DEF UnauditedWorker
<1>3. \A v \in Workers \ {w} : pc'[v] = pc[v] /\ job'[v] = job[v]
  BY <1>1, OwnStep
<1>4. ASSUME NEW v \in Workers
      PROVE  /\ Engaged(v)' => Engaged(v) /\ job'[v].meeting = job[v].meeting
             /\ pc'[v] = "error" => \/ pc[v] = "error" /\ job'[v].out = job[v].out
                                    \/ CodeTellsKnown(job'[v].out)
  <2>1. CASE v = w
    BY <1>1, <2>1, StaysEngaged, UnauditedErrors
  <2>2. CASE v # w
    BY <1>3, <2>2 DEF Engaged
  <2> QED
    BY <2>1, <2>2
<1>5. /\ log' \in [Meetings -> Logs]
      /\ asking' \in [Meetings -> {"none", "active", "inactive"}]
      /\ \A m \in Meetings : OperatorsWait /\ asking'[m] # "none" =>
                                log'[m].before.action \in Settling
  BY <1>2 DEF AuditInv
<1>6. OperatorsWait => \A m \in Meetings : row'[m].status \in Concluded(Telling(log'[m]))
  BY <1>2, UnauditedRows
<1> QED
  BY <1>2, <1>4, <1>5, <1>6, UnauditedProvider, AuditKept

\* A record about some meetings says nothing of the others: it must explain the
\* new status of those it is about, and no other row may change its status.
LEMMA RecordKept ==
    ASSUME SystemInv, AuditInv, NEW S \in SUBSET Meetings, NEW e \in Events, Record(S, e),
           \A m \in S : /\ row'[m].status \in Concluded(e)
                        /\ OperatorsWait => \/ row[m].status \notin {"READY", "ENDED"}
                                            \/ e.action \in Settling,
           \A m \in Meetings \ S : row'[m].status = row[m].status,
           created' = created, orphans' = orphans, asking' = asking,
           \A v \in Workers : \/ pc'[v] \notin {"auth", "sent", "error", "save"}
                              \/ pc'[v] = pc[v] /\ job'[v] = job[v]
    PROVE  AuditInv'
<1>1. /\ log' \in [Meetings -> Logs]
      /\ \A m \in Meetings : log'[m].started = log[m].started
      /\ \A m \in S : /\ log'[m].last = e
                      /\ log'[m].before = IF e.action = "provider_error"
                                          THEN log[m].before ELSE e
      /\ \A m \in Meetings \ S : log'[m] = log[m]
  BY Recorded
<1>2. ASSUME OperatorsWait, NEW m \in Meetings
      PROVE  /\ row'[m].status \in Concluded(Telling(log'[m]))
             /\ asking'[m] # "none" => log'[m].before.action \in Settling
  <2>1. CASE m \notin S
    BY <1>1, <1>2, <2>1 DEF AuditInv, LogExplainsStatus
  <2>2. CASE m \in S /\ e.action = "provider_error"
    <3>1. log[m].before.action \notin Settling /\ asking[m] = "none"
      BY <1>2, <2>2, Unsettled DEF Settling
    <3> QED
      BY <1>1, <2>2, <3>1 DEF Telling
  <2>3. CASE m \in S /\ e.action # "provider_error"
    <3>1. e.action \notin Settling => asking[m] = "none"
      BY <1>2, <2>3, Unsettled
    <3> QED
      BY <1>1, <2>3, <3>1 DEF Telling
  <2> QED
    BY <2>1, <2>2, <2>3
<1>3. \A v \in Workers :
          /\ Engaged(v)' => Engaged(v) /\ job'[v].meeting = job[v].meeting
          /\ pc'[v] = "error" => pc[v] = "error" /\ job'[v].out = job[v].out
  BY DEF Engaged
<1>4. asking' \in [Meetings -> {"none", "active", "inactive"}]
  BY DEF AuditInv
<1> QED
  BY <1>1, <1>2, <1>3, <1>4, AuditKept

LEMMA StartKept ==
    ASSUME SystemInv, AuditInv, NEW w \in Workers,
           ClaimResume(w) \/ ReserveRoom(w), RecordStart(w), UNCHANGED asking
    PROVE  AuditInv'
<1>1. PICK m : m = job[w].meeting
  OBVIOUS
<1>2. pc[w] \in {"claim", "alloc"} /\ TypeOK
  BY DEF ClaimResume, Claimable, AtClaim, ReserveRoom, SystemInv
<1>3. m \in Meetings /\ row[m] \in Rows
  BY <1>1, <1>2 DEF TypeOK
<1>4. /\ row'[m].status = "PROVISIONING"
      /\ \A n \in Meetings \ {m} : row'[n] = row[n]
      /\ pc'[w] = "auth" /\ job'[w].meeting = m
      /\ created' = created /\ orphans' = orphans
  <2>1. job[w] \in Jobs /\ pc \in [Workers -> PCs] /\ row \in [Meetings -> Rows]
        /\ job \in [Workers -> Jobs]
    BY <1>2 DEF TypeOK
  <2>2. CASE ClaimResume(w)
    BY <1>1, <1>3, <2>1, <2>2 DEF ClaimResume, Goto, Rows, Jobs, provider
  <2>3. CASE ReserveRoom(w)
    <3>1. PICK r \in Rooms :
             /\ row' = [row EXCEPT ![m] = [@ EXCEPT
                       !.status = "PROVISIONING", !.room = r, !.slot = job[w].request.slot,
                       !.reservation = Interval(job[w].request.slot), !.active = TRUE,
                       !.payload = Snapshot(w, r)]]
             /\ job' = [job EXCEPT ![w].rooms = {}, ![w].room = r]
      BY <1>1, <2>3 DEF ReserveRoom
    <3>2. row'[m].status = "PROVISIONING" /\ \A n \in Meetings \ {m} : row'[n] = row[n]
      BY <1>3, <2>1, <3>1 DEF Rows
    <3>3. job'[w].meeting = m
      BY <1>1, <2>1, <3>1 DEF Jobs
    <3> QED
      BY <2>1, <2>3, <3>2, <3>3 DEF ReserveRoom, Goto, provider
  <2> QED
    BY <2>2, <2>3
<1>5. PICK a \in {"provider_retry_started", "provider_provisioning_started"} :
         log' = [log EXCEPT ![m] = Started(Plain(a))]
  BY <1>1 DEF RecordStart
<1>6. Plain(a) \in Events /\ Plain(a).action = a
  BY PlainEvents
<1>7. /\ log' \in [Meetings -> Logs]
      /\ log'[m].last = Plain(a) /\ log'[m].before = Plain(a) /\ log'[m].started
      /\ \A n \in Meetings \ {m} : log'[n] = log[n]
  BY <1>3, <1>5, <1>6 DEF AuditInv, Logs, Started
<1>8. "PROVISIONING" \in Concluded(Telling(log'[m]))
  BY <1>6, <1>7 DEF Concluded, Telling
<1>9. \A v \in Workers \ {w} : pc'[v] = pc[v] /\ job'[v] = job[v]
  BY <1>2, OwnStep DEF Worker, Claim, Allocate
<1>10. \A n \in Meetings :
          /\ log[n].started => log'[n].started
          /\ OperatorsWait => row'[n].status \in Concluded(Telling(log'[n]))
          /\ OperatorsWait /\ asking'[n] # "none" => log'[n].before.action \in Settling
  <2>1. row[m].status \notin {"READY", "ENDED"}
    <3>1. CASE ClaimResume(w)
      BY <1>1, <3>1, ClaimableRows DEF ClaimResume, SystemInv
    <3>2. CASE ReserveRoom(w)
      BY <1>1, <1>2, <3>2 DEF ReserveRoom, SystemInv, CreationInv, WorkerKnowledge, Knows,
         OpenStatuses
    <3> QED
      BY <3>1, <3>2
  <2>2. OperatorsWait => asking'[m] = "none"
    BY <1>3, <2>1, Unsettled
  <2> QED
    BY <1>4, <1>7, <1>8, <2>2 DEF AuditInv, LogExplainsStatus
<1>11. \A v \in Workers :
          /\ Engaged(v)' => \/ Engaged(v) /\ job'[v].meeting = job[v].meeting
                            \/ log'[job'[v].meeting].started
          /\ pc'[v] = "error" => pc[v] = "error" /\ job'[v].out = job[v].out
  BY <1>4, <1>7, <1>9 DEF Engaged
<1> QED
  BY <1>4, <1>7, <1>10, <1>11, AuditKept DEF AuditInv

\* The status of a failed meeting follows from what the record keeps of the
\* error, although it does not keep whether a meeting is known.
LEMMA ErrorExplains ==
    ASSUME NEW out \in Outcomes, CodeTellsKnown(out)
    PROVE  /\ ErrorEvent(out) \in Events
           /\ FailureStatus(out) \in Concluded(ErrorEvent(out))
<1>1. /\ ErrorEvent(out).action = "provider_error"
      /\ ErrorEvent(out).code = out.code
      /\ ErrorEvent(out).unknown = out.ambiguous
  BY DEF ErrorEvent, Event
<1>2. ErrorEvent(out) \in Events
  BY DEF ErrorEvent, Event, Events, Outcomes
<1>3. PICK o : o = [code |-> out.code, ambiguous |-> out.ambiguous,
                    known |-> out.code = "PROVIDER_RESPONSE_INVALID"]
  OBVIOUS
<1>4. /\ o.code = out.code /\ o.ambiguous = out.ambiguous
      /\ o.known = (out.code = "PROVIDER_RESPONSE_INVALID")
  BY <1>3
<1>5. FailureStatus(o) = FailureStatus(out)
  BY <1>4 DEF FailureStatus, CodeTellsKnown, Outcomes
<1>6. Concluded(ErrorEvent(out)) = {FailureStatus(o)}
  BY <1>1, <1>3 DEF Concluded
<1> QED
  BY <1>2, <1>5, <1>6

LEMMA ResultKept ==
    ASSUME SystemInv, AuditInv, NEW w \in Workers,
           \/ RecordError(w) /\ Record({job[w].meeting}, ErrorEvent(job[w].out))
           \/ SaveResult(w) /\ Record({job[w].meeting}, Plain("meeting_created")),
           UNCHANGED asking
    PROVE  AuditInv'
<1>1. PICK m : m = job[w].meeting
  OBVIOUS
<1>2. pc[w] \in {"error", "save"} /\ TypeOK
  BY DEF RecordError, SaveResult, SystemInv
<1>3. m \in Meetings /\ row[m] \in Rows /\ job[w].out \in Outcomes
  BY <1>1, <1>2 DEF TypeOK, Jobs
<1>4. /\ \A n \in Meetings \ {m} : row'[n].status = row[n].status
      /\ pc'[w] = "done" /\ created' = created /\ orphans' = orphans
  BY <1>1, <1>2 DEF RecordError, SaveResult, Answer, Goto, TypeOK, provider
<1>5. \A v \in Workers \ {w} : pc'[v] = pc[v] /\ job'[v] = job[v]
  BY <1>2, OwnStep DEF Worker, StoreOutcome
<1>6. \A v \in Workers : \/ pc'[v] \notin {"auth", "sent", "error", "save"}
                         \/ pc'[v] = pc[v] /\ job'[v] = job[v]
  BY <1>4, <1>5
<1>7. CASE RecordError(w) /\ Record({job[w].meeting}, ErrorEvent(job[w].out))
  <2>1. CodeTellsKnown(job[w].out)
    BY <1>7 DEF AuditInv, RecordError
  <2>2. row'[m].status = FailureStatus(job[w].out)
    BY <1>1, <1>3, <1>7 DEF RecordError, FailedRow, SystemInv, TypeOK, Rows
  <2>3. OperatorsWait => row[m].status \notin {"READY", "ENDED"}
    BY <1>1, <1>2, AtWork DEF SystemInv, SoundJob, Engaged, AwaitsResult
  <2>4. PICK e \in Events : /\ e = ErrorEvent(job[w].out)
                            /\ row'[m].status \in Concluded(e)
    BY <1>3, <2>1, <2>2, ErrorExplains
  <2>5. Record({m}, e)
    BY <1>1, <1>7, <2>4 DEF Record
  <2> QED
    BY <1>3, <1>4, <1>6, <2>3, <2>4, <2>5, RecordKept
<1>8. CASE SaveResult(w) /\ Record({job[w].meeting}, Plain("meeting_created"))
  <2>1. Plain("meeting_created") \in Events /\ "READY" \in Concluded(Plain("meeting_created"))
    BY PlainEvents DEF Concluded
  <2>2. /\ \A n \in {m} : row'[n].status = "READY"
        /\ Plain("meeting_created").action \in Settling
    BY <1>1, <1>3, <1>8, PlainEvents DEF SaveResult, SystemInv, TypeOK, Rows, Settling
  <2>3. {m} \in SUBSET Meetings /\ Record({m}, Plain("meeting_created"))
    BY <1>1, <1>3, <1>8
  <2> QED
    BY <1>4, <1>6, <2>1, <2>2, <2>3, RecordKept
<1> QED
  BY <1>7, <1>8

LEMMA OperatorKept ==
    ASSUME SystemInv, AuditInv, AuditedEnvironment, UNCHANGED asking
    PROVE  AuditInv'
<1>1. row \in [Meetings -> Rows]
  BY DEF SystemInv, TypeOK
<1>2. UNCHANGED <<pc, job, created, orphans>>
  BY DEF AuditedEnvironment, FlagStale, ConfirmProviderEnded, Recover, Cancel, provider
<1>3. ASSUME NEW S \in SUBSET Meetings, NEW a, Record(S, Plain(a)),
             Plain(a) \in Events,
             \A m \in S : /\ row'[m].status \in Concluded(Plain(a))
                          /\ \/ row[m].status \notin {"READY", "ENDED"}
                             \/ a \in Settling,
             \A m \in Meetings \ S : row'[m].status = row[m].status
      PROVE  AuditInv'
  BY <1>2, <1>3, RecordKept, PlainEvents
<1>4. /\ "PROVIDER_STATE_UNKNOWN" \in Concluded(Plain("provider_state_unknown"))
      /\ "ENDED" \in Concluded(Plain("admin_confirmed_provider_ended"))
      /\ "READY" \in Concluded(Plain("admin_recovered_provider_meeting"))
      /\ "CANCELLED" \in Concluded(Plain("meeting_cancelled"))
  BY DEF Plain, Event, Concluded
<1>5. \A a \in {"provider_state_unknown", "admin_confirmed_provider_ended",
                "admin_recovered_provider_meeting", "meeting_cancelled"} : Plain(a) \in Events
  BY PlainEvents
<1>6. ASSUME NEW S \in SUBSET Meetings, FlagStale(S),
             Record(S, Plain("provider_state_unknown"))
      PROVE  AuditInv'
  <2>1. /\ \A m \in S : /\ row[m].status = "PROVISIONING"
                        /\ row'[m].status = "PROVIDER_STATE_UNKNOWN"
        /\ \A m \in Meetings \ S : row'[m].status = row[m].status
    BY <1>1, <1>6 DEF FlagStale, Rows
  <2> QED
    BY <1>3, <1>4, <1>5, <1>6, <2>1
<1>7. ASSUME NEW S \in SUBSET Meetings, ConfirmProviderEnded(S),
             Record(S, Plain("admin_confirmed_provider_ended"))
      PROVE  AuditInv'
  <2>1. /\ \A m \in S : row'[m].status = "ENDED"
        /\ \A m \in Meetings \ S : row'[m].status = row[m].status
    BY <1>1, <1>7, ZenonT(40) DEF ConfirmProviderEnded, Rows
  <2> QED
    BY <1>3, <1>4, <1>5, <1>7, <2>1 DEF Settling
<1>8. ASSUME NEW m \in Meetings, Recover(m),
             Record({m}, Plain("admin_recovered_provider_meeting"))
      PROVE  AuditInv'
  <2>1. /\ \A n \in {m} : row'[n].status = "READY"
        /\ \A n \in Meetings \ {m} : row'[n].status = row[n].status
    BY <1>1, <1>8 DEF Recover, Rows
  <2> QED
    BY <1>3, <1>4, <1>5, <1>8, <2>1 DEF Settling
<1>9. ASSUME NEW m \in Meetings, Cancel(m), Record({m}, Plain("meeting_cancelled"))
      PROVE  AuditInv'
  <2>1. /\ \A n \in {m} : /\ row[n].status \notin {"READY", "ENDED"}
                          /\ row'[n].status = "CANCELLED"
        /\ \A n \in Meetings \ {m} : row'[n].status = row[n].status
    BY <1>1, <1>9 DEF Cancel, Cancellable, Rows
  <2> QED
    BY <1>3, <1>4, <1>5, <1>9, <2>1
<1> QED
  BY <1>6, <1>7, <1>8, <1>9 DEF AuditedEnvironment

LEMMA ProviderKept ==
    ASSUME SystemInv, AuditInv, UnauditedEnvironment, UNCHANGED asking
    PROVE  AuditInv'
<1>1. UNCHANGED <<row, pc, job, log>>
  BY DEF UnauditedEnvironment, OrphanCreates, OrphanDropped, ProviderEnds, ConfigureRoom
<1>2. created \in [Meetings -> Nat] /\ orphans \in [Meetings -> Nat]
  BY DEF SystemInv, TypeOK
<1>3. \A m \in Meetings : created'[m] > 0 \/ orphans'[m] > 0 =>
          created[m] > 0 \/ orphans[m] > 0
  BY <1>2 DEF UnauditedEnvironment, OrphanCreates, OrphanDropped, ProviderEnds,
     ConfigureRoom, NewProviderMeeting, provider
<1>4. /\ log' \in [Meetings -> Logs]
      /\ asking' \in [Meetings -> {"none", "active", "inactive"}]
      /\ \A m \in Meetings :
            /\ log[m].started => log'[m].started
            /\ OperatorsWait => row'[m].status \in Concluded(Telling(log'[m]))
            /\ OperatorsWait /\ asking'[m] # "none" => log'[m].before.action \in Settling
  BY <1>1 DEF AuditInv, LogExplainsStatus
<1>5. \A v \in Workers :
          /\ Engaged(v)' => Engaged(v) /\ job'[v].meeting = job[v].meeting
          /\ pc'[v] = "error" => pc[v] = "error" /\ job'[v].out = job[v].out
  BY <1>1 DEF Engaged
<1> QED
  BY <1>3, <1>4, <1>5, AuditKept

\* A token request finds a settled meeting, and leaves the log telling of it.
LEMMA TokenRequestKept ==
    ASSUME SystemInv, AuditInv, NEW m \in Meetings, TokenRequest(m)
    PROVE  AuditInv'
<1>1. UNCHANGED vars
  BY DEF TokenRequest, AskToken, TokenRefused, TokenServed
<1>2. \A v \in Workers :
          /\ Engaged(v)' => Engaged(v) /\ job'[v].meeting = job[v].meeting
          /\ pc'[v] = "error" => pc[v] = "error" /\ job'[v].out = job[v].out
  BY <1>1 DEF Engaged, vars
<1>3. /\ asking' \in [Meetings -> {"none", "active", "inactive"}]
      /\ \A n \in Meetings \ {m} : asking'[n] = asking[n]
  BY DEF AuditInv, TokenRequest, AskToken, TokenRefused, TokenServed
<1>4. CASE UNCHANGED log
  <2>1. OperatorsWait /\ asking'[m] # "none" => log[m].before.action \in Settling
    BY <1>4, Unsettled DEF AuditInv, TokenRequest, AskToken, TokenRefused, TokenServed
  <2> QED
    BY <1>1, <1>2, <1>3, <1>4, <2>1, AuditKept DEF vars, provider, AuditInv, LogExplainsStatus
<1>5. CASE TokenRefused(m)
  <2>1. PICK out \in AuthErrors \cup {RoomInactive} : Record({m}, ErrorEvent(out))
    BY <1>5 DEF TokenRefused
  <2>2. PICK e : e = ErrorEvent(out)
    OBVIOUS
  <2>3. e \in Events /\ e.action = "provider_error"
    BY <2>2, CodesTyped DEF ErrorEvent, Event, Events, Outcomes
  <2>4. /\ log' \in [Meetings -> Logs]
        /\ \A n \in Meetings : log'[n].started = log[n].started
        /\ log'[m].last = e /\ log'[m].before = log[m].before
        /\ \A n \in Meetings \ {m} : log'[n] = log[n]
    BY <2>1, <2>2, <2>3, Recorded
  <2>5. asking'[m] = "none" /\ asking[m] # "none"
    BY <1>5 DEF TokenRefused, AuditInv
  <2>6. OperatorsWait => Telling(log'[m]) = Telling(log[m])
    <3>1. log[m] \in Logs /\ (OperatorsWait => log[m].before.action \in Settling)
      BY <2>5 DEF AuditInv
    <3> QED
      BY <2>3, <2>4, <3>1 DEF Telling, Logs
  <2>7. OperatorsWait => \A n \in Meetings : row'[n].status \in Concluded(Telling(log'[n]))
    BY <1>1, <2>4, <2>6 DEF vars, AuditInv, LogExplainsStatus
  <2>8. \A n \in Meetings :
           OperatorsWait /\ asking'[n] # "none" => log'[n].before.action \in Settling
    BY <1>3, <2>4, <2>5 DEF AuditInv
  <2> QED
    BY <1>1, <1>2, <1>3, <2>4, <2>7, <2>8, AuditKept DEF vars, provider, AuditInv
<1> QED
  BY <1>4, <1>5 DEF TokenRequest, AskToken, TokenServed

LEMMA InitAudit == AuditInit => AuditInv
<1> SUFFICES ASSUME AuditInit PROVE AuditInv
  OBVIOUS
<1>1. Plain("none") \in Events /\ Plain("none").action = "none"
  BY DEF Plain, Event, Events, Codes
<1>2. /\ log \in [Meetings -> Logs]
      /\ \A m \in Meetings : Telling(log[m]) = Plain("none")
      /\ asking = [m \in Meetings |-> "none"]
  BY <1>1 DEF AuditInit, Logs, Telling
<1>3. \A m \in Meetings : row[m].status \in {"ABSENT"} \cup LegacyStatuses
  <2>1. AbsentRow.status = "ABSENT" /\ \A s, q : LegacyRow(s, q).status = s
    BY DEF AbsentRow, LegacyRow
  <2> QED
    BY <2>1 DEF AuditInit, Init
<1>4. LogExplainsStatus
  BY <1>1, <1>2, <1>3 DEF LogExplainsStatus, Concluded
<1>5. /\ \A m \in Meetings : created[m] = 0 /\ orphans[m] = 0
      /\ \A w \in Workers : pc[w] = "idle"
  BY DEF AuditInit, Init
<1> QED
  BY <1>2, <1>4, <1>5 DEF AuditInv, Engaged

LEMMA AuditStep == SystemInv /\ AuditInv /\ [AuditNext]_auditVars => AuditInv'
<1>1. ASSUME SystemInv, AuditInv, NEW w \in Workers, AuditedWorker(w)
      PROVE  UNCHANGED asking => AuditInv'
  BY <1>1, StartKept, ResultKept DEF AuditedWorker
<1>2. ASSUME AuditInv, UNCHANGED auditVars PROVE AuditInv'
  BY <1>2 DEF auditVars, vars, AuditInv, LogExplainsStatus, Engaged
<1> QED
  BY <1>1, <1>2, UnauditedKept, OperatorKept, ProviderKept, TokenRequestKept DEF AuditNext

LEMMA AuditInvariant == AuditSpec => [](SystemInv /\ AuditInv)
<1> QED
  BY AuditedSystem, InitAudit, AuditStep, PTL DEF AuditSpec

\* As long as operators wait for the creating request, the log tells the story of
\* the table: after crashes, stale-row marks, failed saves, operators and refused
\* tokens in any order, the record that tells, the last one about the status or
\* the settling one before a refused token, implies the status the row has.
THEOREM LogTellsTheStatus == AuditSpec => []LogExplainsStatus
<1>1. AuditInv => LogExplainsStatus
  BY DEF AuditInv
<1> QED
  BY <1>1, AuditInvariant, PTL

\* Nothing is sent to Convay for a meeting whose log does not already say that
\* provisioning was started: a crash during the call leaves a trace.
THEOREM AttemptsLeaveATrace == AuditSpec => []AttemptsAreLogged
<1>1. SystemInv /\ AuditInv => AttemptsAreLogged
  BY DEF SystemInv, AuditInv, AttemptsAreLogged, Undecided, Engaged, TypeOK
<1> QED
  BY <1>1, AuditInvariant, PTL

----------------------------------------------------------------------------
(***************************************************************************)
(* The administration form.  OutcomeInv does not survive a form, which may *)
(* write READY over whatever a request is doing; the reservations do.      *)
(***************************************************************************)
\* A row that is rewritten keeps the table sound if it holds its room only by a
\* free reservation, or by the one it held before.
LEMMA RowWritten ==
    ASSUME TypeOK, TableInv, NEW m \in Meetings, NEW r \in Rows, row'[m] = r,
           \A n \in Meetings \ {m} : row'[n] = row[n],
           OwnReservation(r),
           r.active => \/ ~SlotTaken(m, r.room, r.reservation)
                       \/ /\ row[m].active /\ row[m].room = r.room
                          /\ row[m].reservation = r.reservation
    PROVE  TableInv'
<1>1. HoldsRoomUntilResolved
  BY DEF TableInv, OwnReservation, HoldsRoomUntilResolved, TypeOK, Rows
<1>2. r.active => /\ r.room \in Rooms /\ r.slot # NoSlot
                  /\ r.reservation = Interval(r.slot)
  BY DEF OwnReservation, Rows
<1>3. HeldDisjoint'
  BY <1>1, <1>2, OneRow DEF TableInv, OwnReservation
<1>4. \A n \in Meetings : OwnReservation(row'[n])
  BY DEF TableInv
<1> QED
  BY <1>3, <1>4 DEF TableInv, OwnReservation, Interval

\* A row that is stored under the constraints of the table.
LEMMA RowStored ==
    ASSUME TypeOK, TableInv, NEW m \in Meetings, NEW r \in Rows,
           row' = [row EXCEPT ![m] = r], OwnReservation(r), Storable(m, r)
    PROVE  TableInv'
<1>1. row'[m] = r /\ \A n \in Meetings \ {m} : row'[n] = row[n]
  BY DEF TypeOK
<1> QED
  BY <1>1, RowWritten DEF Storable

\* A step that leaves rooms and reservations alone and takes up none.
LEMMA RowsReleased ==
    ASSUME TableInv,
           \A n \in Meetings :
               LET r == row[n]
                   s == row'[n]
               IN  /\ s.room = r.room /\ s.slot = r.slot
                   /\ s.reservation = r.reservation
                   /\ s.active => r.active
                   /\ s.active <=> s.status \in HoldingStatuses
    PROVE  TableInv'
<1>1. \A n \in Meetings : OwnReservation(row'[n])
  BY DEF TableInv, OwnReservation
<1>2. HeldDisjoint'
  BY DEF TableInv, HeldDisjoint, Overlap
<1> QED
  BY <1>1, <1>2 DEF TableInv, OwnReservation, Interval

\* What one request, task or operator does to the table, whatever a form wrote
\* there before.
LEMMA PlainTable ==
    ASSUME TypeOK, TypeOK', TableInv, [Next]_vars
    PROVE  TableInv'
<1>1. CASE row' = row
  BY <1>1 DEF TableInv, OwnReservation, HeldDisjoint, Interval, Overlap
<1>2. \A n \in Meetings : row[n] \in Rows /\ row'[n] \in Rows /\ OwnReservation(row[n])
  BY DEF TypeOK, TableInv
<1>3. ASSUME NEW n \in Meetings, NEW r, row' = [row EXCEPT ![n] = r]
      PROVE  row'[n] = r /\ \A k \in Meetings \ {n} : row'[k] = row[k]
  BY <1>3 DEF TypeOK
<1>4. ASSUME NEW w \in Workers, Worker(w), row' # row
      PROVE  TableInv'
  <2> DEFINE m == job[w].meeting
  <2>1. CASE Register(w)
    <3>1. PICK n \in Meetings, q \in Requests : RegisterNew(w, n, q)
      BY <1>4, <2>1 DEF Register, RegisterExisting, RegisterMismatch
    <3>2. row' = [row EXCEPT ![n] = NewRow(q)] /\ row'[n] = NewRow(q)
      BY <3>1 DEF RegisterNew, TypeOK
    <3>3. /\ ~NewRow(q).active /\ NewRow(q).status = "DRAFT"
          /\ NewRow(q).room = NoRoom
      BY DEF NewRow, AbsentRow
    <3>4. OwnReservation(NewRow(q)) /\ Storable(n, NewRow(q))
      BY <3>3 DEF OwnReservation, HoldingStatuses, Storable
    <3> HIDE DEF m
    <3> QED
      BY <1>2, <3>2, <3>4, RowStored
  <2>2. ASSUME pc[w] # "idle" PROVE m \in Meetings /\ job[w].request \in Requests
    BY <2>2 DEF TypeOK
  <2>3. CASE ClaimResume(w)
    <3>1. m \in Meetings /\ row[m].active
      BY <2>2, <2>3 DEF ClaimResume, Claimable, AtClaim, Resumes
    <3>2. /\ row'[m] = [row[m] EXCEPT !.status = "PROVISIONING"]
          /\ \A n \in Meetings \ {m} : row'[n] = row[n]
      BY <1>3, <2>3, <3>1 DEF ClaimResume
    <3>3. /\ row'[m].room = row[m].room /\ row'[m].slot = row[m].slot
          /\ row'[m].reservation = row[m].reservation
          /\ row'[m].active = row[m].active /\ row'[m].status = "PROVISIONING"
          /\ \A n \in Meetings \ {m} : row'[n] = row[n]
      BY <1>2, <3>1, <3>2 DEF Rows
    <3> HIDE DEF m
    <3>4. OwnReservation(row'[m])
      BY <1>2, <3>1, <3>3 DEF OwnReservation, HoldingStatuses
    <3> QED
      BY <1>2, <3>1, <3>3, <3>4, RowWritten
  <2>4. CASE ReserveRoom(w)
    <3>1. PICK x \in Rooms :
             /\ Eligible(m, x, job[w].request.slot)
             /\ row' = [row EXCEPT ![m] = [row[m] EXCEPT
                        !.status = "PROVISIONING", !.room = x,
                        !.slot = job[w].request.slot,
                        !.reservation = Interval(job[w].request.slot),
                        !.active = TRUE, !.payload = Snapshot(w, x)]]
      BY <2>4 DEF ReserveRoom
    <3>2. /\ m \in Meetings /\ job[w].request.slot # NoSlot
      BY <2>2, <2>4, ConstantsAssumption DEF ReserveRoom, NoSlot
    <3>3. /\ row'[m] = [row[m] EXCEPT
                        !.status = "PROVISIONING", !.room = x,
                        !.slot = job[w].request.slot,
                        !.reservation = Interval(job[w].request.slot),
                        !.active = TRUE, !.payload = Snapshot(w, x)]
          /\ \A n \in Meetings \ {m} : row'[n] = row[n]
      BY <1>3, <3>1, <3>2
    <3>4. /\ row'[m].status = "PROVISIONING" /\ row'[m].room = x
          /\ row'[m].slot = job[w].request.slot /\ row'[m].active
          /\ row'[m].reservation = Interval(job[w].request.slot)
          /\ \A n \in Meetings \ {m} : row'[n] = row[n]
      BY <1>2, <3>2, <3>3 DEF Rows
    <3>5. ~SlotTaken(m, row'[m].room, row'[m].reservation)
      BY <3>1, <3>4 DEF Eligible
    <3> HIDE DEF m
    <3>6. OwnReservation(row'[m])
      BY <3>2, <3>4, ConstantsAssumption DEF OwnReservation, HoldingStatuses
    <3> QED
      BY <1>2, <3>2, <3>4, <3>5, <3>6, RowWritten
  <2>5. CASE RecordError(w)
    <3> DEFINE out == job[w].out
               r == FailedRow(row[m], out, job[w].cal)
    <3>1. m \in Meetings
      BY <2>2, <2>5 DEF RecordError
    <3>2. row' = [row EXCEPT ![m] = r] /\ Storable(m, r)
      BY <2>5 DEF RecordError, Saves
    <3>3. /\ r.active = KeepsReservation(out) /\ r.status = FailureStatus(out)
          /\ r.room = row[m].room /\ r.slot = row[m].slot
          /\ r.reservation = row[m].reservation
      BY <1>2, <3>1 DEF FailedRow, Rows
    <3>4. KeepsReservation(out) <=> FailureStatus(out) \in HoldingStatuses
      BY DEF KeepsReservation, FailureStatus, HoldingStatuses
    <3>5. r \in Rows
      BY <1>2, <3>1, <3>2 DEF TypeOK
    <3> HIDE DEF r, m, out
    <3>6. OwnReservation(r)
      BY <1>2, <3>1, <3>2, <3>3, <3>4 DEF OwnReservation, Storable
    <3> QED
      BY <3>1, <3>2, <3>5, <3>6, RowStored
  <2>6. CASE SaveResult(w)
    <3>1. m \in Meetings /\ row[m].status \in AwaitsResult
      BY <2>2, <2>6 DEF SaveResult
    <3>2. /\ row'[m] = [row[m] EXCEPT
                  !.calendar = Either(row[m].calendar, job[w].cal),
                  !.url = TRUE, !.status = "READY", !.error = "NONE"]
          /\ \A n \in Meetings \ {m} : row'[n] = row[n]
      BY <1>3, <2>6, <3>1 DEF SaveResult
    <3>3. /\ row'[m].room = row[m].room /\ row'[m].slot = row[m].slot
          /\ row'[m].reservation = row[m].reservation
          /\ row'[m].active = row[m].active /\ row'[m].status = "READY"
          /\ \A n \in Meetings \ {m} : row'[n] = row[n]
      BY <1>2, <3>1, <3>2 DEF Rows
    <3> HIDE DEF m
    <3>4. row[m].active
      BY <1>2, <3>1 DEF OwnReservation, HoldingStatuses, AwaitsResult
    <3>5. OwnReservation(row'[m])
      BY <1>2, <3>1, <3>3, <3>4 DEF OwnReservation, HoldingStatuses
    <3> QED
      BY <1>2, <3>1, <3>3, <3>4, <3>5, RowWritten
  <2> QED
    BY <1>4, <2>1, <2>3, <2>4, <2>5, <2>6, RowWriters
<1>5. ASSUME NEW S \in SUBSET Meetings, FlagStale(S) \/ ConfirmProviderEnded(S)
      PROVE  TableInv'
  <2>1. ASSUME NEW n \in Meetings
        PROVE  /\ row'[n].room = row[n].room /\ row'[n].slot = row[n].slot
               /\ row'[n].reservation = row[n].reservation
               /\ row'[n].active => row[n].active
               /\ row'[n].active <=> row'[n].status \in HoldingStatuses
    <3>1. \/ row'[n] = row[n]
          \/ /\ row[n].status = "PROVISIONING"
             /\ row'[n] = [row[n] EXCEPT !.status = "PROVIDER_STATE_UNKNOWN",
                                         !.error = "PROVISIONING_INTERRUPTED"]
          \/ row'[n] = [row[n] EXCEPT !.status = "ENDED", !.active = FALSE]
      BY <1>5 DEF FlagStale, ConfirmProviderEnded
    <3>2. row[n] \in Rows /\ (row[n].active <=> row[n].status \in HoldingStatuses)
      BY <1>2 DEF OwnReservation
    <3> QED
      BY <3>1, <3>2, ZenonT(40) DEF HoldingStatuses, Rows
  <2> QED
    BY <2>1, RowsReleased
<1>6. ASSUME NEW m \in Meetings, Recover(m) \/ Cancel(m)
      PROVE  TableInv'
  <2>1. ASSUME NEW n \in Meetings
        PROVE  /\ row'[n].room = row[n].room /\ row'[n].slot = row[n].slot
               /\ row'[n].reservation = row[n].reservation
               /\ row'[n].active => row[n].active
               /\ row'[n].active <=> row'[n].status \in HoldingStatuses
    <3>1. row[n].active <=> row[n].status \in HoldingStatuses
      BY <1>2 DEF OwnReservation
    <3>2. CASE row'[n] = row[n]
      BY <3>1, <3>2
    <3>3. CASE n = m /\ Recover(m)
      <4>1. row[n].status = "PROVIDER_STATE_UNKNOWN" /\ row[n].active
        BY <3>1, <3>3 DEF Recover, HoldingStatuses
      <4>2. PICK c : row' = [row EXCEPT ![m] = [row[m] EXCEPT
                            !.calendar = c, !.url = TRUE, !.status = "READY",
                            !.active = TRUE, !.error = "NONE"]]
        BY <3>3 DEF Recover
      <4>3. /\ row'[n].room = row[n].room /\ row'[n].slot = row[n].slot
            /\ row'[n].reservation = row[n].reservation
            /\ row'[n].active /\ row'[n].status = "READY"
        BY <1>2, <3>3, <4>2 DEF TypeOK, Rows
      <4> QED
        BY <4>1, <4>3 DEF HoldingStatuses
    <3>4. CASE n = m /\ Cancel(m)
      <4>1. row' = [row EXCEPT ![m] = [row[m] EXCEPT !.status = "CANCELLED",
                                                     !.active = FALSE]]
        BY <3>4 DEF Cancel
      <4>2. /\ row'[n].room = row[n].room /\ row'[n].slot = row[n].slot
            /\ row'[n].reservation = row[n].reservation
            /\ ~row'[n].active /\ row'[n].status = "CANCELLED"
        BY <1>2, <3>4, <4>1 DEF TypeOK, Rows
      <4> QED
        BY <4>2 DEF HoldingStatuses
    <3>5. row'[n] = row[n] \/ n = m
      BY <1>6 DEF Recover, Cancel, TypeOK
    <3> QED
      BY <1>6, <3>2, <3>3, <3>4, <3>5
  <2> QED
    BY <2>1, RowsReleased
<1>7. CASE Environment /\ row' # row
  BY <1>5, <1>6, <1>7 DEF Environment, OrphanCreates, OrphanDropped, ProviderEnds,
                          ConfigureRoom
<1> QED
  BY <1>1, <1>4, <1>7 DEF Next, vars

\* What a form may write: the loaded row, or READY in a room that is free.
LEMMA FormWrites ==
    ASSUME FormInv, NEW m \in Meetings, SaveForm(m)
    PROVE  TypeOK' /\ TableInv'
<1>1. /\ form[m] \in Forms /\ form[m].loaded \in Rows
      /\ OwnReservation(form[m].loaded)
  BY DEF FormInv, Forms
<1> DEFINE r == SavedRow(form[m], row[m])
<1>2. /\ row' = [row EXCEPT ![m] = r] /\ Storable(m, r)
      /\ UNCHANGED <<offer, pc, job, created, live, orphans>>
  BY DEF SaveForm, Savable, provider
<1>3. PICK e : e = [form[m].loaded EXCEPT !.calendar = form[m].calendar]
  OBVIOUS
<1>4. /\ e \in Rows /\ e.room = form[m].loaded.room /\ e.slot = form[m].loaded.slot
      /\ e.reservation = form[m].loaded.reservation
      /\ e.active = form[m].loaded.active /\ e.status = form[m].loaded.status
  BY <1>1, <1>3 DEF Rows, Forms
<1>5. OwnReservation(e)
  BY <1>1, <1>4 DEF OwnReservation
<1>6. r \in Rows /\ OwnReservation(r)
  <2>1. CASE ~Unknown(row[m])
    BY <1>3, <1>4, <1>5, <2>1 DEF SavedRow
  <2>2. CASE Unknown(row[m])
    <3>1. r = [e EXCEPT !.url = TRUE, !.status = "READY",
                        !.active = TRUE, !.error = "NONE"]
      BY <1>3, <2>2 DEF SavedRow
    <3>2. "READY" \in Statuses /\ "NONE" \in Codes
      BY DEF Statuses, Codes
    <3>3. r \in Rows
      BY <1>4, <3>1, <3>2 DEF Rows
    <3>4. /\ r.room = e.room /\ r.slot = e.slot /\ r.reservation = e.reservation
          /\ r.active /\ r.status = "READY"
      BY <1>4, <3>1 DEF Rows
    <3>5. r.room # NoRoom
      BY <1>2, <3>4 DEF Storable
    <3> HIDE DEF r
    <3> QED
      BY <1>5, <3>3, <3>4, <3>5 DEF OwnReservation, HoldingStatuses
  <2> QED
    BY <2>1, <2>2
<1> HIDE DEF r
<1>7. TypeOK'
  BY <1>2, <1>6 DEF FormInv, TypeOK
<1> QED
  BY <1>2, <1>6, <1>7, RowStored DEF FormInv

\* Neither a form nor anything beside it disturbs the table, and what a form has
\* loaded was once in the table.
LEMMA FormStepSound == FormInv /\ [FormNext]_<<vars, formVars>> => FormInv'
<1> SUFFICES ASSUME FormInv, [FormNext]_<<vars, formVars>> PROVE FormInv'
  OBVIOUS
<1>1. CASE UNCHANGED <<vars, formVars>> \/ (Next /\ UNCHANGED formVars)
  <2>1. TypeOK'
    BY <1>1, TypeStep DEF FormInv
  <2>2. TableInv'
    BY <1>1, <2>1, PlainTable DEF FormInv
  <2> QED
    BY <1>1, <2>1, <2>2 DEF FormInv, formVars, OwnReservation, Interval
<1>2. ASSUME NEW m \in Meetings, FormStep(m) PROVE FormInv'
  <2>1. TypeOK' /\ TableInv'
    <3>1. CASE UNCHANGED vars
      <4>1. TypeOK'
        BY <3>1, TypeStep DEF FormInv
      <4> QED
        BY <3>1, <4>1, PlainTable DEF FormInv
    <3> QED
      BY <1>2, <3>1, FormWrites DEF FormStep, LoadForm, CleanForm, SaveRefused
  <2>2. PICK f : form' = [form EXCEPT ![m] = f]
                 /\ \/ f = NoForm
                    \/ f \in Entries(m, row[m])
                    \/ f = [form[m] EXCEPT !.stage = "cleaned"]
    BY <1>2 DEF FormStep, LoadForm, CleanForm, SaveForm, SaveRefused
  <2>3. /\ row[m] \in Rows /\ OwnReservation(row[m]) /\ form[m] \in Forms
        /\ OwnReservation(form[m].loaded) /\ created[m] \in Nat
    BY DEF FormInv, TypeOK, TableInv
  <2>4. f \in Forms /\ OwnReservation(f.loaded)
    <3>1. CASE f = NoForm
      <4>1. AbsentRow \in Rows
        BY DefaultsTyped
      <4>2. OwnReservation(AbsentRow)
        BY DEF OwnReservation, AbsentRow, HoldingStatuses
      <4> QED
        BY <3>1, <4>1, <4>2 DEF NoForm, Forms
    <3>2. CASE f \in Entries(m, row[m])
      <4>1. f.loaded = row[m]
        BY <3>2 DEF Entries
      <4>2. PICK c \in Nat, u \in BOOLEAN :
               f = [stage |-> "loaded", loaded |-> row[m], calendar |-> c, url |-> u]
        <5>1. row[m].calendar \in Nat /\ 1..created[m] \subseteq Nat
          BY <2>3 DEF Rows
        <5>2. \/ f = [stage |-> "loaded", loaded |-> row[m],
                      calendar |-> row[m].calendar, url |-> FALSE]
              \/ \E c \in 1..created[m] :
                   f = [stage |-> "loaded", loaded |-> row[m], calendar |-> c, url |-> TRUE]
          BY <3>2 DEF Entries
        <5> QED
          BY <5>1, <5>2
      <4>3. f \in Forms
        BY <2>3, <4>2 DEF Forms
      <4> QED
        BY <2>3, <4>1, <4>3
    <3>3. CASE f = [form[m] EXCEPT !.stage = "cleaned"]
      BY <2>3, <3>3 DEF Forms
    <3> QED
      BY <2>2, <3>1, <3>2, <3>3
  <2>5. /\ form' \in [Meetings -> Forms]
        /\ \A n \in Meetings : OwnReservation(form'[n].loaded)
    BY <2>2, <2>4 DEF FormInv
  <2> QED
    BY <2>1, <2>5 DEF FormInv, OwnReservation, Interval
<1> QED
  BY <1>1, <1>2 DEF FormNext

\* No row holds a room at first, and no form is open.
LEMMA FormInitSound == FormInit => FormInv
<1> SUFFICES ASSUME FormInit PROVE FormInv
  OBVIOUS
<1>1. TypeOK /\ BookingInv
  BY InitTyped, InitBooking DEF FormInit
<1>2. AbsentRow \in Rows /\ OwnReservation(AbsentRow)
  BY DefaultsTyped DEF OwnReservation, AbsentRow, HoldingStatuses
<1>3. NoForm \in Forms /\ NoForm.loaded = AbsentRow
  BY <1>2 DEF NoForm, Forms
<1>4. ASSUME NEW m \in Meetings PROVE row[m].room = NoRoom
  <2>1. AbsentRow.room = NoRoom /\ \A s, q : LegacyRow(s, q).room = NoRoom
    BY DEF AbsentRow, LegacyRow
  <2> QED
    BY <2>1 DEF FormInit, Init
<1>5. ASSUME NEW m \in Meetings PROVE OwnReservation(row[m])
  BY <1>1, <1>4, ConstantsAssumption
     DEF BookingInv, HoldsRoomUntilResolved, OwnReservation
<1>6. /\ form \in [Meetings -> Forms]
      /\ \A m \in Meetings : OwnReservation(form[m].loaded)
  BY <1>2, <1>3 DEF FormInit
<1> QED
  BY <1>1, <1>5, <1>6 DEF FormInv, TableInv, BookingInv

\* The table is sound whatever is saved from a stale form.
LEMMA FormInvariant == FormSpec => []FormInv
<1> QED
  BY FormInitSound, FormStepSound, PTL DEF FormSpec

\* A form that was not loaded from a row to be tried writes none.
LEMMA FormCreation ==
    ASSUME FormStatuses \cap OpenStatuses = {},
           FormInv, FormCreationInv, [FormNext]_<<vars, formVars>>
    PROVE  FormCreationInv'
<1>1. CASE UNCHANGED <<vars, formVars>> \/ (Next /\ UNCHANGED formVars)
  <2>1. CreationInv'
    BY <1>1, CreationStep DEF FormInv, FormCreationInv
  <2> QED
    BY <1>1, <2>1 DEF FormCreationInv, formVars
<1>2. ASSUME NEW m \in Meetings, FormStep(m) PROVE FormCreationInv'
  <2>1. PICK f : form' = [form EXCEPT ![m] = f]
                 /\ \/ f = NoForm
                    \/ f.loaded.status \in FormStatuses
                    \/ f.loaded = form[m].loaded /\ form[m].stage # "none"
    <3>1. CASE LoadForm(m)
      <4>1. PICK f \in Entries(m, row[m]) : form' = [form EXCEPT ![m] = f]
        BY <3>1 DEF LoadForm
      <4>2. f.loaded = row[m]
        BY <4>1 DEF Entries
      <4> QED
        BY <3>1, <4>1, <4>2 DEF LoadForm
    <3>2. CASE CleanForm(m)
      <4>1. PICK f : /\ form' = [form EXCEPT ![m] = f]
                     /\ f = NoForm \/ f = [form[m] EXCEPT !.stage = "cleaned"]
        BY <3>2 DEF CleanForm
      <4>2. form[m] \in Forms /\ form[m].stage # "none"
        BY <3>2 DEF CleanForm, FormInv
      <4>3. f = NoForm \/ f.loaded = form[m].loaded
        BY <4>1, <4>2 DEF Forms
      <4> QED
        BY <4>1, <4>2, <4>3
    <3> QED
      BY <1>2, <3>1, <3>2 DEF FormStep, SaveForm, SaveRefused
  <2>2. \A n \in Meetings : form'[n].stage # "none" =>
           form'[n].loaded.status \notin OpenStatuses
    BY <2>1 DEF FormCreationInv, FormInv, NoForm
  <2>3. CASE SaveForm(m)
    <3> DEFINE r == SavedRow(form[m], row[m])
    <3>1. /\ row' = [row EXCEPT ![m] = r] /\ ~Locked(m)
          /\ UNCHANGED <<pc, job, created, orphans>>
          /\ form[m].loaded.status \notin OpenStatuses
      BY <2>3 DEF SaveForm, FormCreationInv, provider
    <3>2. r.status \notin OpenStatuses
      <4>1. form[m] \in Forms
        BY DEF FormInv
      <4>2. r.status \in {"READY", form[m].loaded.status}
        BY <4>1 DEF SavedRow, Forms, Rows
      <4> QED
        BY <3>1, <4>2 DEF OpenStatuses
    <3>3. row'[m] = r /\ \A n \in Meetings \ {m} : row'[n] = row[n]
      BY <3>1 DEF FormInv, TypeOK
    <3> HIDE DEF r
    <3>4. \A n \in Meetings : row'[n].status \in OpenStatuses
                                => row[n].status \in OpenStatuses
      BY <3>2, <3>3
    <3>5. ASSUME NEW v \in Workers, pc[v] = "alloc"
          PROVE  row'[job[v].meeting].status \in OpenStatuses
      <4>1. job[v].meeting \in Meetings \ {m}
        BY <3>1, <3>5 DEF Locked, FormInv, TypeOK
      <4>2. row[job[v].meeting].status \in OpenStatuses
        BY <3>5 DEF FormCreationInv, CreationInv, WorkerKnowledge, Knows
      <4> QED
        BY <3>3, <4>1, <4>2
    <3>6. CreationInv'
      BY <3>1, <3>4, <3>5, Quiet DEF FormInv, FormCreationInv
    <3> QED
      BY <2>2, <3>6 DEF FormCreationInv
  <2>4. CASE UNCHANGED vars
    <3>1. CreationInv'
      BY <2>4, CreationStep DEF FormInv, FormCreationInv
    <3> QED
      BY <2>2, <3>1 DEF FormCreationInv
  <2> QED
    BY <1>2, <2>3, <2>4 DEF FormStep, LoadForm, CleanForm, SaveRefused
<1> QED
  BY <1>1, <1>2 DEF FormNext

\* Stale forms written over whatever requests, the task and operators did since
\* they were loaded make no request transmit a second time, as long as no form
\* is opened on a draft or on a failed meeting that may be retried.
THEOREM FormsCreateNothing ==
    FormStatuses \cap OpenStatuses = {} => (FormSpec => []AtMostOneProviderMeeting)
<1> SUFFICES ASSUME FormStatuses \cap OpenStatuses = {}
             PROVE  FormSpec => []AtMostOneProviderMeeting
  OBVIOUS
<1>1. FormInit => FormInv /\ FormCreationInv
  BY FormInitSound, InitCreation DEF FormInit, FormCreationInv, NoForm
<1>2. FormInv /\ FormCreationInv /\ [FormNext]_<<vars, formVars>>
        => FormCreationInv'
  BY FormCreation
<1>3. FormCreationInv => AtMostOneProviderMeeting
  BY DEF FormCreationInv, CreationInv
<1> QED
  BY <1>1, <1>2, <1>3, FormInvariant, PTL DEF FormSpec

\* Nor do they leave a status that holds a room without its reservation, or the
\* reservation without such a status, whichever rows they were opened on.
THEOREM FormsKeepReservations == FormSpec => []HoldsRoomUntilResolved
<1>1. FormInv => HoldsRoomUntilResolved
  BY DEF FormInv, TableInv, OwnReservation, HoldsRoomUntilResolved, TypeOK, Rows
<1> QED
  BY <1>1, FormInvariant, PTL

----------------------------------------------------------------------------
(***************************************************************************)
(* The availability query, which holds no lock and reads the rooms and     *)
(* their reservations one statement after the other.                       *)
(***************************************************************************)
\* A query changes no other state.
LEMMA AvailabilityRefines ==
    /\ AvailabilityInit => Init
    /\ [AvailabilityNext]_allVars => [Next]_vars
  BY DEF AvailabilityInit, AvailabilityNext, allVars

\* What the requests and operators keep, they keep beside the queries.
LEMMA QueriedSystem == AvailabilitySpec => []SystemInv
<1> QED
  BY SystemStep, AvailabilityRefines, PTL DEF AvailabilitySpec

Counted(m) == row[m].status \in CountedStatuses

\* Whoever is counted holds the room.
LEMMA CountedHold ==
    ASSUME SystemInv, NEW m \in Meetings
    PROVE  /\ Counted(m) => row[m].active
           /\ row[m].active => row[m].room \in Rooms /\ row[m].room # NoRoom
           /\ row[m].active /\ ~Counted(m) => row[m].status = "RETRYABLE_FAILED"
<1>1. /\ row[m].status \notin {"RESERVED", "LIVE"}
      /\ row[m].active <=> row[m].status \in HoldingStatuses
      /\ row[m].active => row[m].room \in Rooms
  BY DEF SystemInv, OutcomeInv, SoundRow, BookingInv, HoldsRoomUntilResolved
<1> QED
  BY <1>1, ConstantsAssumption DEF Counted, CountedStatuses, HoldingStatuses

\* One row gives up what it has, or takes more, and keeps its room meanwhile.
Frees(m) == /\ row'[m].active => row[m].active
            /\ Counted(m)' => Counted(m)
Takes(m) == /\ row[m].active => row'[m].active
            /\ Counted(m) => Counted(m)'
Stays(m) == row[m].active /\ row'[m].active =>
                row'[m].room = row[m].room /\ row'[m].reservation = row[m].reservation

LEMMA RowMonotone ==
    ASSUME SystemInv, SystemInv', [Next]_vars, NEW m \in Meetings
    PROVE  Stays(m) /\ (Frees(m) \/ Takes(m))
<1>1. Stays(m)
  <2>1. RowStep(m)
    BY RowSteps
  <2>2. row[m].active => row[m].room # NoRoom /\ row[m].status # "ABSENT"
    BY CountedHold DEF SystemInv, BookingInv, HoldsRoomUntilResolved, HoldingStatuses
  <2> QED
    BY <2>1, <2>2 DEF RowStep, Stays
<1>2. Counted(m)' => row'[m].active
  BY DEF SystemInv, OutcomeInv, SoundRow, BookingInv, HoldsRoomUntilResolved, Counted,
         CountedStatuses, HoldingStatuses
<1>3. Counted(m) => row[m].active
  BY CountedHold
<1> QED
  BY <1>1, <1>2, <1>3 DEF Frees, Takes

\* A step gives capacity, or takes it.
Looser == /\ Usable \subseteq Usable'
          /\ \A r \in Rooms, q \in Requests : Taken(r, q.slot)' => Taken(r, q.slot)
          /\ \A r \in Rooms : CapReached(r)' => CapReached(r)
Tighter == /\ Usable' \subseteq Usable
           /\ \A r \in Rooms, q \in Requests : Taken(r, q.slot) => Taken(r, q.slot)'
           /\ \A r \in Rooms : CapReached(r) => CapReached(r)'

CountsIn(r) == {n \in Meetings : row[n].room = r /\ Counted(n)}

\* Fewer meetings do not reach a limit more do not reach.
LEMMA FewerCount ==
    ASSUME NEW S, NEW T, IsFiniteSet(T), S \subseteq T, NEW k \in Nat,
           Cardinality(S) >= k
    PROVE  Cardinality(T) >= k
<1>1. IsFiniteSet(S) /\ Cardinality(S) <= Cardinality(T)
  BY FS_Subset
<1>2. Cardinality(S) \in Nat /\ Cardinality(T) \in Nat
  BY <1>1, FS_CardinalityType
<1> QED
  BY <1>1, <1>2

\* Where every row gives up what it has, capacity is given.
LEMMA RowsFree ==
    ASSUME SystemInv, SystemInv', FinitelyMany, offer' = offer,
           \A m \in Meetings : Stays(m) /\ Frees(m)
    PROVE  Looser
<1>1. Usable \subseteq Usable'
  BY DEF Usable
<1>2. ASSUME NEW r \in Rooms, NEW q \in Requests, Taken(r, q.slot)'
      PROVE  Taken(r, q.slot)
  BY <1>2 DEF Taken, SlotTaken, Interval, Overlap, Frees, Stays
<1>3. ASSUME NEW r \in Rooms, CapReached(r)' PROVE CapReached(r)
  <2>1. ASSUME NEW n \in Meetings, Counted(n)', row'[n].room = r
        PROVE  row[n].room = r /\ Counted(n)
    <3>1. row'[n].active /\ Counted(n) /\ row[n].active
      BY <2>1, CountedHold DEF Frees, SystemInv, OutcomeInv, SoundRow, BookingInv,
         HoldsRoomUntilResolved, Counted, CountedStatuses, HoldingStatuses
    <3> QED
      BY <2>1, <3>1 DEF Stays
  <2>2. CountsIn(r)' \subseteq CountsIn(r)
    BY <2>1 DEF CountsIn, Counted
  <2>3. CountsIn(r) \subseteq {m \in Meetings : row[m].status \in CountedStatuses}
    BY DEF CountsIn, Counted
  <2>4. IsFiniteSet(CountsIn(r))
    BY <2>3, FS_Subset DEF FinitelyMany
  <2>5. /\ Limit[r] # NoLimit /\ Cardinality(CountsIn(r)') >= Limit[r]
    BY <1>3 DEF CapReached, CountsIn, Counted
  <2>6. Limit[r] \in Nat
    BY <2>5, ConstantsAssumption
  <2>7. Cardinality(CountsIn(r)) >= Limit[r]
    BY <2>2, <2>4, <2>5, <2>6, FewerCount
  <2> QED
    BY <2>5, <2>7 DEF CapReached, CountsIn, Counted
<1> QED
  BY <1>1, <1>2, <1>3 DEF Looser

\* Where every row takes more, capacity is taken.
LEMMA RowsTake ==
    ASSUME SystemInv, SystemInv', FinitelyMany', offer' = offer,
           \A m \in Meetings : Stays(m) /\ Takes(m)
    PROVE  Tighter
<1>1. Usable' \subseteq Usable
  BY DEF Usable
<1>2. ASSUME NEW r \in Rooms, NEW q \in Requests, Taken(r, q.slot)
      PROVE  Taken(r, q.slot)'
  BY <1>2 DEF Taken, SlotTaken, Interval, Overlap, Takes, Stays
<1>3. ASSUME NEW r \in Rooms, CapReached(r) PROVE CapReached(r)'
  <2>1. ASSUME NEW n \in Meetings, Counted(n), row[n].room = r
        PROVE  row'[n].room = r /\ Counted(n)'
    <3>1. row[n].active /\ Counted(n)' /\ row'[n].active
      BY <2>1, CountedHold DEF Takes
    <3> QED
      BY <2>1, <3>1 DEF Stays
  <2>2. CountsIn(r) \subseteq CountsIn(r)'
    BY <2>1 DEF CountsIn, Counted
  <2>3. CountsIn(r)' \subseteq {m \in Meetings : row'[m].status \in CountedStatuses}
    BY DEF CountsIn, Counted
  <2>4. IsFiniteSet(CountsIn(r)')
    BY <2>3, FS_Subset DEF FinitelyMany
  <2>5. /\ Limit[r] # NoLimit /\ Cardinality(CountsIn(r)) >= Limit[r]
    BY <1>3 DEF CapReached, CountsIn, Counted
  <2>6. Limit[r] \in Nat
    BY <2>5, ConstantsAssumption
  <2>7. Cardinality(CountsIn(r)') >= Limit[r]
    BY <2>2, <2>4, <2>5, <2>6, FewerCount
  <2> QED
    BY <2>5, <2>7 DEF CapReached, CountsIn, Counted
<1> QED
  BY <1>1, <1>2, <1>3 DEF Tighter

\* Which rows and rooms a step may write.
LEMMA Writes ==
    ASSUME TypeOK, [Next]_vars
    PROVE  \/ row' = row /\ offer' = offer
           \/ row' = row /\ \E r \in Rooms : \E o : offer' = [offer EXCEPT ![r] = o]
           \/ offer' = offer /\ \E m \in Meetings :
                                   \A n \in Meetings \ {m} : row'[n] = row[n]
           \/ offer' = offer /\ \E S \in SUBSET Meetings :
                                   FlagStale(S) \/ ConfirmProviderEnded(S)
<1>1. ASSUME NEW w \in Workers, Worker(w), row' = row
      PROVE  offer' = offer \/ \E r \in Rooms : \E o : offer' = [offer EXCEPT ![r] = o]
  BY <1>1 DEF Worker, Register, RegisterNew, RegisterExisting, RegisterMismatch, Claim,
     ClaimReplay, ClaimRefused, ClaimResume, ClaimAllocate, Allocate, ReserveRoom,
     PresetWithdrawn, SkipRoom, NoCapacity, AuthFails, Transmit, Receive, ReceiveResult,
     ReceiveUnauthorized, ReceiveError, Delivered, StoreOutcome, RecordError,
     RecordErrorFails, SaveResult, LateResponse, Reply, ReplayAnswered, ReplayTokenFails,
     NextRequest, Abort, ProviderCreates
<1>2. ASSUME NEW w \in Workers, Worker(w), row' # row
      PROVE  /\ offer' = offer
             /\ \E m \in Meetings : \A n \in Meetings \ {m} : row'[n] = row[n]
  <2>1. CASE Register(w)
    <3>1. PICK m \in Meetings, q \in Requests : RegisterNew(w, m, q)
      BY <1>2, <2>1 DEF Register, RegisterExisting, RegisterMismatch
    <3> QED
      BY <3>1 DEF RegisterNew, TypeOK
  <2>2. CASE ClaimResume(w) \/ ReserveRoom(w) \/ RecordError(w) \/ SaveResult(w)
    <3>1. PICK m : m = job[w].meeting
      OBVIOUS
    <3>2. pc[w] # "idle" /\ offer' = offer
      BY <2>2 DEF ClaimResume, Claimable, AtClaim, ReserveRoom, RecordError, SaveResult
    <3>3. \E r : row' = [row EXCEPT ![m] = r]
      BY <2>2, <3>1 DEF ClaimResume, ReserveRoom, RecordError, SaveResult
    <3>4. m \in Meetings
      BY <3>1, <3>2 DEF TypeOK
    <3> QED
      BY <3>2, <3>3, <3>4 DEF TypeOK
  <2> QED
    BY <1>2, <2>1, <2>2, RowWriters
<1>3. ASSUME NEW m \in Meetings, Recover(m) \/ Cancel(m)
      PROVE  offer' = offer /\ \A n \in Meetings \ {m} : row'[n] = row[n]
  BY <1>3 DEF Recover, Cancel, TypeOK
<1>4. CASE Environment
  BY <1>3, <1>4 DEF Environment, OrphanCreates, OrphanDropped, ProviderEnds,
                    ConfigureRoom, FlagStale, ConfirmProviderEnded
<1> QED
  BY <1>1, <1>2, <1>4, SMTT(30) DEF Next, vars

\* Only a room that is configured or goes out of service changes what is usable.
LEMMA OfferMonotone ==
    ASSUME TypeOK, row' = row, NEW r \in Rooms, NEW o, offer' = [offer EXCEPT ![r] = o]
    PROVE  Looser \/ Tighter
<1>1. /\ \A s \in Rooms, q \in Requests : Taken(s, q.slot)' <=> Taken(s, q.slot)
      /\ \A s \in Rooms : CapReached(s)' <=> CapReached(s)
  BY DEF Taken, SlotTaken, Interval, Overlap, CapReached
<1>2. /\ o \in Presets => Usable \subseteq Usable'
      /\ o \notin Presets => Usable' \subseteq Usable
  BY DEF Usable, TypeOK
<1> QED
  BY <1>1, <1>2 DEF Looser, Tighter

\* No step takes capacity and gives some too.
LEMMA StepMonotone ==
    ASSUME SystemInv, SystemInv', FinitelyMany, FinitelyMany', [Next]_vars
    PROVE  Looser \/ Tighter
<1>1. \A m \in Meetings : Stays(m) /\ (Frees(m) \/ Takes(m))
  BY RowMonotone
<1>2. ASSUME NEW n \in Meetings, row'[n] = row[n] PROVE Frees(n) /\ Takes(n)
  BY <1>2 DEF Frees, Takes, Counted
<1>3. CASE row' = row /\ offer' = offer
  BY <1>1, <1>2, <1>3, RowsFree
<1>4. CASE row' = row /\ \E r \in Rooms : \E o : offer' = [offer EXCEPT ![r] = o]
  BY <1>4, OfferMonotone DEF SystemInv
<1>5. CASE offer' = offer /\ \E m \in Meetings :
              \A n \in Meetings \ {m} : row'[n] = row[n]
  <2>1. PICK m \in Meetings : \A n \in Meetings \ {m} : row'[n] = row[n]
    BY <1>5
  <2>2. \/ \A n \in Meetings : Frees(n)
        \/ \A n \in Meetings : Takes(n)
    BY <1>1, <1>2, <2>1
  <2> QED
    BY <1>1, <1>5, <2>2, RowsFree, RowsTake
<1>6. CASE offer' = offer /\ \E S \in SUBSET Meetings :
              FlagStale(S) \/ ConfirmProviderEnded(S)
  <2>1. ASSUME NEW n \in Meetings PROVE Frees(n)
    <3>1. \/ row'[n] = row[n]
          \/ /\ row[n].status = "PROVISIONING"
             /\ row'[n] = [row[n] EXCEPT !.status = "PROVIDER_STATE_UNKNOWN",
                                         !.error = "PROVISIONING_INTERRUPTED"]
          \/ row'[n] = [row[n] EXCEPT !.status = "ENDED", !.active = FALSE]
      BY <1>6 DEF FlagStale, ConfirmProviderEnded
    <3>2. row[n] \in Rows
      BY DEF SystemInv, TypeOK
    <3> QED
      BY <3>1, <3>2 DEF Frees, Counted, CountedStatuses, Rows
  <2> QED
    BY <1>1, <1>6, <2>1, RowsFree
<1> QED
  BY <1>3, <1>4, <1>5, <1>6, Writes DEF SystemInv

\* A room is counted against its limit with finitely many others.
LEMMA StillFinitelyMany ==
    ASSUME TypeOK, FinitelyMany, [Next]_vars
    PROVE  FinitelyMany'
<1> DEFINE C == {m \in Meetings : row[m].status \in CountedStatuses}
           D == {m \in Meetings : row'[m].status \in CountedStatuses}
<1>1. CASE row' = row
  BY <1>1 DEF FinitelyMany
<1>2. ASSUME NEW m \in Meetings, \A n \in Meetings \ {m} : row'[n] = row[n]
      PROVE  FinitelyMany'
  <2>1. D \subseteq C \cup {m}
    BY <1>2
  <2>2. IsFiniteSet(C \cup {m})
    BY FS_AddElement DEF FinitelyMany
  <2> QED
    BY <2>1, <2>2, FS_Subset DEF FinitelyMany
<1>3. ASSUME NEW S \in SUBSET Meetings, FlagStale(S) \/ ConfirmProviderEnded(S)
      PROVE  FinitelyMany'
  <2>1. ASSUME NEW n \in D PROVE n \in C
    <3>1. \/ row'[n] = row[n]
          \/ row[n].status = "PROVISIONING"
          \/ row'[n] = [row[n] EXCEPT !.status = "ENDED", !.active = FALSE]
      BY <1>3 DEF FlagStale, ConfirmProviderEnded
    <3>2. row[n] \in Rows
      BY DEF TypeOK
    <3> QED
      BY <3>1, <3>2 DEF CountedStatuses, Rows
  <2> QED
    BY <2>1, FS_Subset DEF FinitelyMany
<1> QED
  BY <1>1, <1>2, <1>3, Writes

\* The situation is all that the answer depends on.
LEMMA SameSituation ==
    ASSUME SystemInv, SystemInv', Situation' = Situation
    PROVE  /\ Usable' = Usable
           /\ \A r \in Rooms, q \in Requests : Taken(r, q.slot)' <=> Taken(r, q.slot)
           /\ \A r \in Rooms : CapReached(r)' <=> CapReached(r)
<1>1. /\ Booked' = Booked /\ Usable' = Usable
      /\ {m \in Meetings : Counted(m)}' = {m \in Meetings : Counted(m)}
  BY DEF Situation, Booked, Usable, Counted
<1>2. ASSUME NEW m \in Meetings
      PROVE  /\ row'[m].active <=> row[m].active
             /\ Counted(m)' <=> Counted(m)
             /\ row[m].active => /\ row'[m].room = row[m].room
                                 /\ row'[m].reservation = row[m].reservation
  <2>1. BookingOf(row'[m]) = BookingOf(row[m])
    BY <1>1 DEF Booked
  <2>2. /\ row[m].active => row[m].room # NoRoom
        /\ row'[m].active => row'[m].room # NoRoom
    BY ConstantsAssumption DEF SystemInv, BookingInv, HoldsRoomUntilResolved
  <2>3. row[m].active \in BOOLEAN /\ row'[m].active \in BOOLEAN
    BY DEF SystemInv, TypeOK, Rows
  <2>4. Counted(m)' <=> Counted(m)
    BY <1>1
  <2> QED
    BY <2>1, <2>2, <2>3, <2>4 DEF BookingOf, NoBooking
<1>3. \A r \in Rooms, q \in Requests : Taken(r, q.slot)' <=> Taken(r, q.slot)
  BY <1>2 DEF Taken, SlotTaken, Interval, Overlap
<1>4. ASSUME NEW r \in Rooms PROVE CapReached(r)' <=> CapReached(r)
  <2>1. CountsIn(r)' = CountsIn(r)
    BY <1>2, CountedHold DEF CountsIn, Counted
  <2> QED
    BY <2>1 DEF CapReached, CountsIn, Counted
<1> QED
  BY <1>1, <1>3, <1>4

\* A slot can be allocated where a usable room has capacity for it.
LEMMA AllocatableSlots ==
    ASSUME NEW s \in {q.slot : q \in Requests}
    PROVE  s \in Allocatable <=>
               \E r \in Usable : ~Taken(r, s) /\ ~CapReached(r)
  BY DEF Allocatable, Eligible, Usable, Taken

\* One change of the situation, while the rooms are being looked at.
LEMMA FirstChange ==
    ASSUME SystemInv, QueryInv, Looking, ~query.changed, Looser \/ Tighter,
           query' = [query EXCEPT !.changed = TRUE,
                         !.truth = @ \cup {(query.slot \in Allocatable')}]
    PROVE  QueryInv'
<1> DEFINE slot == query.slot
<1>1. /\ query \in Queries /\ Undisturbed /\ \A r \in Rooms : AtRoom(r) => Found(r)
      /\ slot \in {q.slot : q \in Requests} /\ query.at # "answered"
  BY DEF QueryInv, Looking
<1>2. /\ query' \in Queries /\ query'.changed /\ query'.slot = slot
      /\ query'.at = query.at
      /\ query'.rooms = query.rooms /\ query'.usable = query.usable
      /\ slot \in Allocatable \/ slot \in Allocatable' => TRUE \in query'.truth
      /\ slot \notin Allocatable \/ slot \notin Allocatable' => FALSE \in query'.truth
  <2>1. PICK T : T = {(slot \in Allocatable)} \cup {(slot \in Allocatable')}
    OBVIOUS
  <2>2. \A x \in T : x \in BOOLEAN
    <3>1. (slot \in Allocatable) \in BOOLEAN /\ (slot \in Allocatable') \in BOOLEAN
      BY SMT
    <3> QED
      BY <2>1, <3>1, Zenon
  <2>3. /\ slot \in Allocatable \/ slot \in Allocatable' => TRUE \in T
        /\ slot \notin Allocatable \/ slot \notin Allocatable' => FALSE \in T
    <3>1. (slot \in Allocatable) \in T /\ (slot \in Allocatable') \in T
      BY <2>1, Zenon
    <3>2. /\ slot \in Allocatable => (slot \in Allocatable) = TRUE
          /\ slot \notin Allocatable => (slot \in Allocatable) = FALSE
          /\ slot \in Allocatable' => (slot \in Allocatable') = TRUE
          /\ slot \notin Allocatable' => (slot \in Allocatable') = FALSE
      BY SMT
    <3> QED
      BY <3>1, <3>2, Zenon
  <2>4. query' = [query EXCEPT !.changed = TRUE, !.truth = T]
    BY <1>1, <2>1, Zenon DEF Undisturbed
  <2> QED
    BY <1>1, <2>2, <2>3, <2>4 DEF Queries
<1>3. /\ slot \in Allocatable <=> \E r \in Usable : Free(r)
      /\ slot \in Allocatable' <=> \E r \in Usable' : Free(r)'
  <2>1. slot \in Allocatable <=>
            \E r \in Usable : ~Taken(r, slot) /\ ~CapReached(r)
    BY <1>1, AllocatableSlots
  <2>2. slot \in Allocatable' <=>
            \E r \in Usable' : ~Taken(r, slot)' /\ ~CapReached(r)'
    BY <1>1 DEF Allocatable, Eligible, Usable, Taken
  <2> QED
    BY <1>2, <2>1, <2>2 DEF Free, Taken
<1>4. /\ Looser => \A r \in Rooms : Free(r) => Free(r)'
      /\ Tighter => \A r \in Rooms : Free(r)' => Free(r)
  BY <1>1, <1>2 DEF Looser, Tighter, Free, Taken
<1>5. /\ query.usable = Usable /\ Usable \subseteq Rooms /\ Usable' \subseteq Rooms
      /\ \A r \in Usable : Free(r) => r \in query.rooms
  BY <1>1 DEF Undisturbed, Usable
<1>6. CASE slot \in Allocatable /\ slot \in Allocatable'
  <2>1. \E r \in query.rooms \cap query.usable \cap Usable' : Free(r)'
    <3>1. CASE Looser
      BY <1>3, <1>4, <1>5, <1>6, <3>1 DEF Looser
    <3>2. CASE Tighter
      BY <1>3, <1>4, <1>5, <1>6, <3>2 DEF Tighter
    <3> QED
      BY <3>1, <3>2
  <2>2. TRUE \in query'.truth
    BY <1>2, <1>6
  <2>3. Disturbed'
    BY <1>2, <2>1, <2>2 DEF Disturbed
  <2>4. \A r \in Rooms : AtRoom(r)' => Found(r)'
    BY <1>1, <1>2, <1>5, <2>2 DEF AtRoom, Found
  <2> QED
    BY <1>1, <1>2, <2>3, <2>4 DEF QueryInv, AnswerWasTrue
<1>7. CASE slot \notin Allocatable /\ slot \notin Allocatable'
  <2>1. \A r \in query.usable \cup Usable' : ~Free(r)'
    <3>1. CASE Looser
      BY <1>3, <1>4, <1>5, <1>7, <3>1 DEF Looser
    <3>2. CASE Tighter
      BY <1>3, <1>4, <1>5, <1>7, <3>2 DEF Tighter
    <3> QED
      BY <3>1, <3>2
  <2>2. FALSE \in query'.truth
    BY <1>2, <1>7
  <2>3. Disturbed'
    BY <1>2, <2>1, <2>2 DEF Disturbed
  <2>4. ASSUME NEW r \in Rooms, AtRoom(r)' PROVE Found(r)'
    <3>1. AtRoom(r) /\ Found(r)
      BY <1>1, <1>2, <2>4 DEF AtRoom
    <3>2. query.at \in {"reservations", "limit"} => r \in query.usable
      BY <1>5, <3>1 DEF Found
    <3>3. query.at = "limit" => ~Taken(r, query.slot)' \/ CapReached(r)'
      <4>1. query.at = "limit" => ~Taken(r, query.slot) /\ CapReached(r)
        <5>1. r \in query.usable => ~Free(r)
          BY <1>3, <1>5, <1>7
        <5> QED
          BY <3>1, <3>2, <5>1 DEF Found, Free
      <4>2. Looser => (Taken(r, query.slot)' => Taken(r, query.slot))
        BY <1>1, <1>2 DEF Looser, Taken
      <4>3. Tighter => (CapReached(r) => CapReached(r)')
        BY DEF Tighter
      <4> QED
        BY <4>1, <4>2, <4>3
    <3> QED
      BY <1>2, <3>2, <3>3 DEF Found
  <2> QED
    BY <1>1, <1>2, <2>3, <2>4 DEF QueryInv, AnswerWasTrue
<1>8. CASE ~(slot \in Allocatable <=> slot \in Allocatable')
  <2>1. TRUE \in query'.truth /\ FALSE \in query'.truth
    BY <1>2, <1>8
  <2>2. Disturbed'
    BY <2>1 DEF Disturbed
  <2>3. \A r \in Rooms : AtRoom(r)' => Found(r)'
    BY <1>1, <1>2, <1>5, <2>1 DEF AtRoom, Found
  <2> QED
    BY <1>1, <1>2, <2>2, <2>3 DEF QueryInv, AnswerWasTrue
<1> QED
  BY <1>6, <1>7, <1>8, Zenon

\* Where nothing the query depends on changes, what is known of it stays true.
LEMMA NothingChanged ==
    ASSUME QueryInv, query' = query, Usable' = Usable,
           \A r \in Rooms, q \in Requests : Taken(r, q.slot)' <=> Taken(r, q.slot),
           \A r \in Rooms : CapReached(r)' <=> CapReached(r)
    PROVE  QueryInv'
<1>1. CASE ~Looking
  BY <1>1 DEF QueryInv, AnswerWasTrue, Looking
<1>2. CASE Looking
  <2> DEFINE slot == query.slot
  <2>1. slot \in {q.slot : q \in Requests} /\ Usable \subseteq Rooms
    BY <1>2 DEF QueryInv, Usable
  <2>2. \A r \in Rooms : /\ Free(r)' <=> Free(r)
                         /\ Taken(r, slot)' <=> Taken(r, slot)
                         /\ CapReached(r)' <=> CapReached(r)
    BY <2>1 DEF Free, Taken
  <2>3. slot \in Allocatable <=> slot \in Allocatable'
    <3>1. slot \in Allocatable <=> \E r \in Usable : ~Taken(r, slot) /\ ~CapReached(r)
      BY <2>1, AllocatableSlots
    <3>2. slot \in Allocatable' <=>
              \E r \in Usable' : ~Taken(r, slot)' /\ ~CapReached(r)'
      BY <2>1 DEF Allocatable, Eligible, Usable, Taken
    <3> QED
      BY <2>1, <2>2, <3>1, <3>2
  <2>4. ~query.changed => Undisturbed'
    <3>1. (slot \in Allocatable) = (slot \in Allocatable')
      BY <2>3, SMT
    <3>2. ~query.changed => query.truth = {(slot \in Allocatable)}
      BY <1>2, Zenon DEF QueryInv, Undisturbed
    <3>3. ~query.changed => query'.truth = {(slot \in Allocatable')}
      BY <3>1, <3>2, Zenon
    <3>4. ~query.changed => /\ query'.usable = Usable'
                            /\ Usable' \cap {r \in Rooms : Free(r)'} \subseteq query'.rooms
      BY <1>2, <2>1, <2>2 DEF QueryInv, Undisturbed
    <3> QED
      BY <3>3, <3>4, Zenon DEF Undisturbed
  <2>5. query.changed => Disturbed'
    BY <1>2, <2>1, <2>2 DEF QueryInv, Disturbed, Queries
  <2>6. \A r \in Rooms : AtRoom(r)' => Found(r)'
    BY <1>2, <2>2 DEF QueryInv, AtRoom, Found
  <2> QED
    BY <1>2, <2>1, <2>4, <2>5, <2>6 DEF QueryInv, AnswerWasTrue, Queries
<1> QED
  BY <1>1, <1>2

\* The steps of everything else, beside the query.
LEMMA QueryObserves ==
    ASSUME SystemInv, SystemInv', FinitelyMany, FinitelyMany', QueryInv,
           [Next]_vars, query.at # "answered", query' = Observed
    PROVE  QueryInv'
<1>1. NoQuery \in Queries /\ NoQuery.at = "idle"
  BY DEF NoQuery, Queries, NoSlot
<1>2. CASE Situation' = Situation
  BY <1>2, SameSituation, NothingChanged DEF Observed
<1>3. CASE query.at = "idle"
  BY <1>3 DEF Observed, QueryInv, AnswerWasTrue, Looking
<1>4. CASE Situation' # Situation /\ query.at # "idle" /\ query.changed
  <2>1. query' = NoQuery
    BY <1>4 DEF Observed
  <2> QED
    BY <1>1, <2>1 DEF QueryInv, AnswerWasTrue, Looking
<1>5. CASE Situation' # Situation /\ query.at # "idle" /\ ~query.changed
  <2>1. query' = [query EXCEPT !.changed = TRUE,
                     !.truth = @ \cup {(query.slot \in Allocatable')}]
    BY <1>5 DEF Observed
  <2>2. Looking
    BY <1>5 DEF QueryInv, Queries, Looking
  <2> QED
    BY <1>5, <2>1, <2>2, StepMonotone, FirstChange
<1> QED
  BY <1>2, <1>3, <1>4, <1>5

\* The rooms come in the order of their ranks, one at a time.
LEMMA OneRoomAtATime ==
    ASSUME NEW r \in Rooms, NEW s \in Rooms, AtRoom(r), AtRoom(s)
    PROVE  r = s
<1>1. Rank[r] \in Nat /\ Rank[s] \in Nat /\ Rank[r] <= Rank[s] /\ Rank[s] <= Rank[r]
  BY ConstantsAssumption DEF AtRoom
<1>2. Rank[r] = Rank[s]
  BY <1>1
<1> QED
  BY <1>2, ConstantsAssumption

\* A query that goes on to the next room leaves one behind that has no capacity
\* or is not configured.
LEMMA PassedOver ==
    ASSUME QueryInv, Looking, UNCHANGED vars, NEW r \in Rooms,
           r \notin Usable \/ r \notin query.usable \/ ~Free(r),
           query' = [query EXCEPT !.at = "room", !.rooms = @ \ {r}]
    PROVE  QueryInv'
<1>1. /\ query' \in Queries /\ query'.at = "room" /\ query'.rooms = query.rooms \ {r}
      /\ query'.slot = query.slot /\ query'.usable = query.usable
      /\ query'.changed = query.changed /\ query'.truth = query.truth
  BY DEF QueryInv, Queries
<1>2. /\ Usable' = Usable /\ Allocatable' = Allocatable
      /\ \A s \in Rooms : Free(s)' <=> Free(s)
  BY <1>1 DEF vars, Usable, Allocatable, Eligible, SlotTaken, CapReached, Overlap, Interval,
              Free, Taken
<1>3. ~query.changed => Undisturbed'
  <2>1. ~query.changed => query'.truth = {(query'.slot \in Allocatable')}
    BY <1>1, <1>2, Zenon DEF QueryInv, Undisturbed
  <2>2. ~query.changed => /\ query'.usable = Usable'
                          /\ Usable' \cap {s \in Rooms : Free(s)'} \subseteq query'.rooms
    BY <1>1, <1>2 DEF QueryInv, Undisturbed
  <2> QED
    BY <2>1, <2>2, Zenon DEF Undisturbed
<1>4. query.changed => Disturbed'
  <2>1. Usable \subseteq Rooms /\ query.usable \subseteq Rooms
    BY DEF Usable, QueryInv, Queries
  <2> QED
    BY <1>1, <1>2, <2>1 DEF QueryInv, Disturbed
<1> QED
  BY <1>1, <1>3, <1>4 DEF QueryInv, AnswerWasTrue, Found

\* A query that asks the database more about the same room.
LEMMA LooksCloser ==
    ASSUME QueryInv, Looking, UNCHANGED vars, NEW at \in {"reservations", "limit"},
           query' = [query EXCEPT !.at = at],
           \A r \in Rooms : AtRoom(r) => /\ r \in query.usable \cup Usable
                                         /\ at = "limit" => ~Taken(r, query.slot)
    PROVE  QueryInv'
<1>1. /\ query' \in Queries /\ query'.at = at /\ query'.rooms = query.rooms
      /\ query'.slot = query.slot /\ query'.usable = query.usable
      /\ query'.changed = query.changed /\ query'.truth = query.truth
  BY DEF QueryInv, Queries
<1>2. /\ Usable' = Usable /\ Allocatable' = Allocatable
      /\ \A s \in Rooms : Free(s)' <=> Free(s)
      /\ \A s \in Rooms : Taken(s, query.slot)' <=> Taken(s, query.slot)
  BY <1>1 DEF vars, Usable, Allocatable, Eligible, SlotTaken, CapReached, Overlap, Interval,
              Free, Taken
<1>3. ~query.changed => Undisturbed'
  <2>1. ~query.changed => query'.truth = {(query'.slot \in Allocatable')}
    BY <1>1, <1>2, Zenon DEF QueryInv, Undisturbed
  <2>2. ~query.changed => /\ query'.usable = Usable'
                          /\ Usable' \cap {s \in Rooms : Free(s)'} \subseteq query'.rooms
    BY <1>1, <1>2 DEF QueryInv, Undisturbed
  <2> QED
    BY <2>1, <2>2, Zenon DEF Undisturbed
<1>4. query.changed => Disturbed'
  <2>1. Usable \subseteq Rooms /\ query.usable \subseteq Rooms
    BY DEF Usable, QueryInv, Queries
  <2> QED
    BY <1>1, <1>2, <2>1 DEF QueryInv, Disturbed
<1>5. ASSUME NEW r \in Rooms, AtRoom(r)' PROVE Found(r)'
  <2>1. AtRoom(r)
    BY <1>1, <1>5 DEF AtRoom
  <2> QED
    BY <1>1, <1>2, <2>1 DEF Found, Taken
<1> QED
  BY <1>1, <1>3, <1>4, <1>5 DEF QueryInv, AnswerWasTrue

\* The answer leaves with the last step of the query.
LEMMA AnswerTrue ==
    ASSUME QueryInv, NEW yes \in BOOLEAN, yes \in query.truth, Answered(yes)
    PROVE  QueryInv'
<1>1. /\ query' \in Queries /\ query'.at = "answered"
      /\ query'.answer = yes /\ query'.truth = query.truth
  BY DEF QueryInv, Queries, Answered
<1>2. ~Looking'
  BY <1>1 DEF Looking
<1> QED
  BY <1>1, <1>2 DEF QueryInv, AnswerWasTrue

\* A slot that can be allocated now has been true to say since it was asked for.
LEMMA Truths ==
    ASSUME QueryInv, Looking, ~query.changed
    PROVE  /\ (\E r \in Usable : Free(r)) => TRUE \in query.truth
           /\ ~(\E r \in Usable : Free(r)) => FALSE \in query.truth
<1> DEFINE slot == query.slot
<1>1. slot \in Allocatable <=> \E r \in Usable : Free(r)
  BY AllocatableSlots DEF QueryInv, Free
<1>2. query.truth = {(slot \in Allocatable)}
  BY Zenon DEF QueryInv, Undisturbed
<1>3. /\ slot \in Allocatable => (slot \in Allocatable) = TRUE
      /\ slot \notin Allocatable => (slot \in Allocatable) = FALSE
  BY SMT
<1>4. (slot \in Allocatable) \in query.truth
  BY <1>2, Zenon
<1> QED
  BY <1>1, <1>3, <1>4, Zenon

\* A query starts from the rooms that are offered at that moment.
LEMMA AskStarts ==
    ASSUME NEW s \in {q.slot : q \in Requests}, UNCHANGED vars, Ask(s)
    PROVE  QueryInv'
<1> DEFINE listed == {r \in Rooms : offer[r] # "inactive"}
<1>1. PICK T : T = {(s \in Allocatable)}
  OBVIOUS
<1>2. query' = [NoQuery EXCEPT !.at = "room", !.slot = s, !.rooms = listed,
                               !.usable = Usable, !.truth = T]
  BY <1>1, Zenon DEF Ask, Usable
<1>3. s \in [start : Nat, end : Nat]
  BY ConstantsAssumption
<1>4. T \in SUBSET BOOLEAN
  <2>1. (s \in Allocatable) \in BOOLEAN
    BY SMT
  <2>2. \A x \in T : x \in BOOLEAN
    BY <1>1, <2>1, Zenon
  <2> QED
    BY <2>2
<1>5. /\ query' \in Queries /\ query'.at = "room" /\ query'.slot = s
      /\ query'.rooms = listed /\ query'.usable = Usable /\ ~query'.changed
      /\ query'.truth = T
  BY <1>2, <1>3, <1>4 DEF NoQuery, Queries, Usable, NoSlot
<1>6. Usable' = Usable /\ Allocatable' = Allocatable
  BY DEF vars, Usable, Allocatable, Eligible, SlotTaken, CapReached, Overlap, Interval
<1>7. Usable \subseteq listed
  BY ConstantsAssumption DEF Usable
<1>8. Undisturbed'
  <2>1. query'.truth = {(query'.slot \in Allocatable')}
    BY <1>1, <1>5, <1>6, Zenon
  <2>2. /\ query'.usable = Usable'
        /\ Usable' \cap {r \in Rooms : Free(r)'} \subseteq query'.rooms
    BY <1>5, <1>6, <1>7
  <2> QED
    BY <2>1, <2>2, Zenon DEF Undisturbed
<1> QED
  BY <1>5, <1>8 DEF QueryInv, AnswerWasTrue, Found

\* The steps of the query itself.
LEMMA QueryServed ==
    ASSUME QueryInv, UNCHANGED vars, Serve
    PROVE  QueryInv'
<1>1. ASSUME NEW q \in Requests, Ask(q.slot) PROVE QueryInv'
  BY <1>1, AskStarts
<1>2. ASSUME NEW r \in Rooms, Configured(r) PROVE QueryInv'
  <2>1. /\ query.at = "room" /\ AtRoom(r)
        /\ r \in query.usable \/ offer[r] \in Presets
        /\ query' = [query EXCEPT !.at = "reservations"]
    <3>1. TRUE \in SeenUsable(r) => r \in query.usable \/ offer[r] \in Presets
      <4>1. ASSUME NEW x, x \in SeenUsable(r)
            PROVE  x = (r \in query.usable) \/ x = (offer[r] \in Presets)
        BY <4>1, Zenon DEF SeenUsable
      <4> QED
        BY <4>1
    <3> QED
      BY <1>2, <3>1 DEF Configured
  <2>2. Looking /\ AtRoom(r) /\ r \in query.usable \cup Usable
    BY <1>2, <2>1 DEF Looking, Usable, Configured
  <2>3. \A s \in Rooms : AtRoom(s) => s \in query.usable \cup Usable
    BY <2>2, OneRoomAtATime
  <2> QED
    BY <2>1, <2>2, <2>3, LooksCloser
<1>3. ASSUME NEW r \in Rooms, NotConfigured(r) PROVE QueryInv'
  <2>1. r \notin query.usable \/ r \notin Usable
    <3>1. FALSE \in SeenUsable(r)
      BY <1>3 DEF NotConfigured
    <3>2. ASSUME NEW x, x \in SeenUsable(r)
          PROVE  x = (r \in query.usable) \/ x = (offer[r] \in Presets)
      BY <3>2, Zenon DEF SeenUsable
    <3> QED
      BY <3>1, <3>2 DEF Usable
  <2>2. /\ Looking /\ query \in Queries
        /\ query' = [query EXCEPT !.rooms = @ \ {r}] /\ query.at = "room"
    BY <1>3 DEF NotConfigured, Looking, QueryInv
  <2>3. query' = [query EXCEPT !.at = "room", !.rooms = @ \ {r}]
    BY <2>2 DEF Queries
  <2> QED
    BY <2>1, <2>2, <2>3, PassedOver
<1>4. ASSUME NEW r \in Rooms, AtRoom(r), query.at \in {"reservations", "limit"},
             NextAfter(r), ~Free(r)
      PROVE  QueryInv'
  BY <1>4, PassedOver DEF NextAfter, Looking
<1>5. ASSUME NEW r \in Rooms, AtRoom(r), query.at \in {"reservations", "limit"},
             Answered(TRUE), ~CapReached(r),
             query.at = "reservations" => ~Taken(r, query.slot)
      PROVE  QueryInv'
  <2>1. Looking /\ Found(r)
    BY <1>5 DEF QueryInv, Looking
  <2>2. CASE query.changed /\ TRUE \in query.truth
    BY <1>5, <2>2, AnswerTrue
  <2>3. CASE ~Taken(r, query.slot)
    <3>1. Free(r) /\ r \in query.usable \cup Usable
      BY <1>5, <2>1, <2>3 DEF Free, Found
    <3>2. TRUE \in query.truth
      <4>1. CASE query.changed
        BY <2>1, <3>1, <4>1 DEF QueryInv, Disturbed
      <4>2. CASE ~query.changed
        BY <2>1, <3>1, <4>2, Truths DEF QueryInv, Undisturbed
      <4> QED
        BY <4>1, <4>2
    <3> QED
      BY <1>5, <3>2, AnswerTrue
  <2> QED
    BY <1>5, <2>1, <2>2, <2>3 DEF Found
<1>6. ASSUME NEW r \in Rooms, CheckReservations(r) PROVE QueryInv'
  <2>1. CASE Taken(r, query.slot) /\ NextAfter(r)
    BY <1>4, <1>6, <2>1 DEF CheckReservations, Free
  <2>2. CASE ~Taken(r, query.slot) /\ Limit[r] = NoLimit /\ Answered(TRUE)
    BY <1>5, <1>6, <2>2 DEF CheckReservations, CapReached
  <2>3. CASE ~Taken(r, query.slot) /\ query' = [query EXCEPT !.at = "limit"]
    <3>1. Looking /\ AtRoom(r) /\ Found(r) /\ query.at = "reservations"
      BY <1>6 DEF CheckReservations, QueryInv, Looking
    <3>2. \A s \in Rooms : AtRoom(s) => s = r
      BY <3>1, OneRoomAtATime
    <3> QED
      BY <2>3, <3>1, <3>2, LooksCloser DEF Found
  <2> QED
    BY <1>6, <2>1, <2>2, <2>3 DEF CheckReservations
<1>7. ASSUME NEW r \in Rooms, CheckLimit(r) PROVE QueryInv'
  BY <1>4, <1>5, <1>7 DEF CheckLimit, Free
<1>8. CASE NoRoomLeft
  <2>1. Looking /\ query.rooms = {} /\ Answered(FALSE)
    BY <1>8 DEF NoRoomLeft, Looking
  <2>2. FALSE \in query.truth
    <3>1. CASE query.changed
      BY <2>1, <3>1 DEF QueryInv, Disturbed
    <3>2. CASE ~query.changed
      <4>1. \A r \in Usable : ~Free(r)
        BY <2>1, <3>2 DEF QueryInv, Undisturbed, Usable
      <4> QED
        BY <2>1, <3>2, <4>1, Truths
    <3> QED
      BY <3>1, <3>2
  <2> QED
    BY <2>1, <2>2, AnswerTrue
<1>9. CASE QueryEnds
  BY <1>9 DEF QueryEnds, NoQuery, QueryInv, AnswerWasTrue, Looking, Queries, NoSlot
<1> QED
  BY <1>1, <1>2, <1>3, <1>6, <1>7, <1>8, <1>9 DEF Serve

\* Nothing is counted at first, and no query runs.
LEMMA InitQuery == AvailabilityInit => FinitelyMany /\ QueryInv
<1> SUFFICES ASSUME AvailabilityInit PROVE FinitelyMany /\ QueryInv
  OBVIOUS
<1>1. ASSUME NEW m \in Meetings PROVE row[m].status \notin CountedStatuses
  <2>1. AbsentRow.status = "ABSENT" /\ \A s, q : LegacyRow(s, q).status = s
    BY DEF AbsentRow, LegacyRow
  <2> QED
    BY <2>1, ConstantsAssumption DEF AvailabilityInit, Init, CountedStatuses
<1>2. FinitelyMany
  <2>1. {m \in Meetings : row[m].status \in CountedStatuses} = {}
    BY <1>1
  <2> QED
    BY <2>1, FS_EmptySet DEF FinitelyMany
<1>3. QueryInv
  BY DEF AvailabilityInit, NoQuery, QueryInv, AnswerWasTrue, Looking, Queries, NoSlot
<1> QED
  BY <1>2, <1>3

\* Every step, of the query or of anything else.
LEMMA QueryStep ==
    /\ SystemInv /\ SystemInv' /\ FinitelyMany /\ QueryInv
    /\ [AvailabilityNext]_allVars
    => FinitelyMany' /\ QueryInv'
<1> SUFFICES ASSUME SystemInv, SystemInv', FinitelyMany, QueryInv,
                    [AvailabilityNext]_allVars
             PROVE  FinitelyMany' /\ QueryInv'
  OBVIOUS
<1>1. [Next]_vars
  BY AvailabilityRefines
<1>2. FinitelyMany'
  <2>1. TypeOK
    BY DEF SystemInv
  <2> QED
    BY <1>1, <2>1, StillFinitelyMany
<1>3. CASE UNCHANGED allVars
  <2>1. query' = query /\ row' = row /\ offer' = offer
    BY <1>3 DEF allVars, vars
  <2>2. Usable' = Usable
    BY <2>1 DEF Usable
  <2>3. ASSUME NEW r \in Rooms PROVE CapReached(r)' <=> CapReached(r)
    BY <2>1 DEF CapReached
  <2>4. ASSUME NEW r \in Rooms, NEW q \in Requests
        PROVE  Taken(r, q.slot)' <=> Taken(r, q.slot)
    BY <2>1 DEF Taken, SlotTaken, Interval, Overlap
  <2> QED
    BY <1>2, <2>1, <2>2, <2>3, <2>4, NothingChanged
<1>4. CASE Serve /\ UNCHANGED vars
  BY <1>2, <1>4, QueryServed
<1>5. CASE query.at # "answered" /\ Next /\ query' = Observed
  BY <1>1, <1>2, <1>5, QueryObserves
<1> QED
  BY <1>2, <1>3, <1>4, <1>5 DEF AvailabilityNext

\* While everything else goes on, an availability query answers with what was
\* true at some moment while it ran, unless what it depends on changed twice.
THEOREM AnswersWereTrue == AvailabilitySpec => []AnswerWasTrue
<1>1. QueryInv => AnswerWasTrue
  BY DEF QueryInv
<1> QED
  BY <1>1, InitQuery, QueryStep, QueriedSystem, PTL DEF AvailabilitySpec

\* The queries disturb nothing: what the table promises of each request it
\* promises beside them as well.
THEOREM PromiseKeptBesideQueries == OperatorsWait => (AvailabilitySpec => Promise)
<1> SUFFICES ASSUME OperatorsWait PROVE AvailabilitySpec => Promise
  OBVIOUS
<1>1. Init => Promised!Init
  BY PromiseInit
<1>2. SystemInv /\ SystemInv' /\ [Next]_vars => [Promised!Next]_Promised!vars
  BY PromiseStep DEF SystemInv
<1> QED
  BY <1>1, <1>2, AvailabilityRefines, QueriedSystem, PTL
     DEF AvailabilitySpec, Promise, Promised!Spec
=============================================================================
