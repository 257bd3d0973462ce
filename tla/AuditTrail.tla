------------------------------ MODULE AuditTrail ------------------------------
(***************************************************************************)
(* The audit log of the meetings, beside Provisioning: which AuditLog rows *)
(* the transactions that change a meeting insert with the change, and the  *)
(* one a request for a Convay token inserts when it is refused.            *)
(*                                                                         *)
(* Sources: apps/audit/services.py (audit) and its calls in                *)
(* apps/meetings/services.py, apps/meetings/tasks.py,                      *)
(* apps/meetings/admin.py and apps/meetings/views.py (MeetingTokenView).   *)
(*                                                                         *)
(* Kept are the last row that speaks of the meeting's status, the last     *)
(* before it that is no provider_error, and whether an attempt was ever    *)
(* announced.  Left out: meeting_draft_created, existing_meeting_mismatch, *)
(* meeting_ready_replayed, slot_reserved and convay_token_issued, which    *)
(* say nothing of the status; and provider_retry_failed,                   *)
(* provider_state_unknown and provider_retry_succeeded where a request     *)
(* inserts them beside the provider_error or meeting_created of the same   *)
(* transaction, whose status they repeat.                                  *)
(*                                                                         *)
(* Bound: one token request per meeting at a time.                         *)
(***************************************************************************)
EXTENDS ProvisioningRefinement

VARIABLES
    log,     \* per meeting: what its audit log says
    asking   \* per meeting: the room a token request has read, "none" without one

auditVars == <<vars, log, asking>>

Event(action, code, unknown) ==
    [action |-> action, code |-> code, unknown |-> unknown]

Plain(action) == Event(action, "NONE", FALSE)

\* Defect: the metadata of a provider error lacks its outcome_unknown flag.
ErrorEventCodeOnly(out) == Event("provider_error", out.code, FALSE)

\* audit(..., provider_error=exc) keeps the code, the upstream status and
\* whether the outcome is unknown, but not whether the meeting was created.
ErrorEvent(out) == Event("provider_error", out.code, out.ambiguous)

Noted(l, e) ==
    [l EXCEPT !.last = e,
              !.before = IF e.action = "provider_error" THEN @ ELSE e]

Record(S, e) ==
    log' = [m \in Meetings |-> IF m \in S THEN Noted(log[m], e) ELSE log[m]]

Started(e) == [last |-> e, before |-> e, started |-> TRUE]

\* Defect: only retries are announced.
RecordRetryOnly(w) ==
    log' = [log EXCEPT ![job[w].meeting] =
               IF job'[w].retrying
               THEN Started(Plain("provider_retry_started"))
               ELSE @]

\* provider_retry_started, or provider_provisioning_started.
RecordStart(w) ==
    log' = [log EXCEPT ![job[w].meeting] =
               Started(Plain(IF job'[w].retrying
                             THEN "provider_retry_started"
                             ELSE "provider_provisioning_started"))]

----------------------------------------------------------------------------
AuditInit == /\ Init
             /\ log = [m \in Meetings |-> [last |-> Plain("none"),
                                           before |-> Plain("none"),
                                           started |-> FALSE]]
             /\ asking = [m \in Meetings |-> "none"]

\* The transactions that claim a meeting or store an outcome.
AuditedWorker(w) ==
    \/ (ClaimResume(w) \/ ReserveRoom(w)) /\ RecordStart(w)
    \/ RecordError(w) /\ Record({job[w].meeting}, ErrorEvent(job[w].out))
    \/ SaveResult(w) /\ Record({job[w].meeting}, Plain("meeting_created"))

\* late_provider_response_requires_review is inserted in the transaction that
\* the raised GatewayError then rolls back, and so is provider_error where the
\* outcome cannot be stored.
UnauditedWorker(w) ==
    /\ \/ Register(w) \/ ClaimReplay(w) \/ ClaimRefused(w) \/ ClaimAllocate(w)
       \/ PresetWithdrawn(w) \/ SkipRoom(w) \/ NoCapacity(w)
       \/ AuthFails(w) \/ Transmit(w) \/ Receive(w)
       \/ RecordErrorFails(w) \/ LateResponse(w) \/ Reply(w) \/ Abort(w)
       \/ ProviderCreates(w)
    /\ UNCHANGED log

AuditedEnvironment ==
    \/ \E S \in SUBSET Meetings :
          \/ FlagStale(S) /\ Record(S, Plain("provider_state_unknown"))
          \/ ConfirmProviderEnded(S)
                /\ Record(S, Plain("admin_confirmed_provider_ended"))
    \/ \E m \in Meetings :
          \/ Recover(m)
                /\ Record({m}, Plain("admin_recovered_provider_meeting"))
          \/ Cancel(m) /\ Record({m}, Plain("meeting_cancelled"))

UnauditedEnvironment ==
    /\ \/ \E m \in Meetings :
             OrphanCreates(m) \/ OrphanDropped(m) \/ ProviderEnds(m)
       \/ \E r \in Rooms, o \in Presets \cup RoomFaults : ConfigureRoom(r, o)
    /\ UNCHANGED log

\* POST meetings/{id}/token: the row is read without a lock, and nothing of what
\* follows looks at it again.
AskToken(m) ==
    /\ asking[m] = "none"
    /\ row[m].status \in {"READY", "LIVE"} /\ row[m].room # NoRoom
    /\ asking' = [asking EXCEPT ![m] =
                     IF offer[row[m].room] = "inactive" THEN "inactive" ELSE "active"]
    /\ UNCHANGED <<vars, log>>

\* get_token raises: a provider_error of a meeting whose row stays as it is, in
\* the words of a failed provisioning.
TokenRefused(m) ==
    /\ asking[m] # "none"
    /\ \E out \in IF asking[m] = "inactive" THEN {RoomInactive} ELSE AuthErrors :
          Record({m}, ErrorEvent(out))
    /\ asking' = [asking EXCEPT ![m] = "none"]
    /\ UNCHANGED vars

TokenServed(m) ==
    /\ asking[m] = "active"
    /\ asking' = [asking EXCEPT ![m] = "none"]
    /\ UNCHANGED <<vars, log>>

TokenRequest(m) == AskToken(m) \/ TokenRefused(m) \/ TokenServed(m)

AuditNext ==
    \/ /\ \/ \E w \in Workers : AuditedWorker(w) \/ UnauditedWorker(w)
          \/ AuditedEnvironment
          \/ UnauditedEnvironment
       /\ UNCHANGED asking
    \/ \E m \in Meetings : TokenRequest(m)

AuditSpec == AuditInit /\ [][AuditNext]_auditVars /\ Fairness

----------------------------------------------------------------------------
\* The status a reader of the log concludes from its last row about it.
Concluded(e) ==
    CASE e.action = "none" -> {"ABSENT", "DRAFT"} \cup LegacyStatuses
      [] e.action \in {"provider_provisioning_started", "provider_retry_started"}
            -> {"PROVISIONING"}
      [] e.action = "provider_state_unknown" -> {"PROVIDER_STATE_UNKNOWN"}
      [] e.action = "provider_error" ->
            {FailureStatus([code |-> e.code, ambiguous |-> e.unknown,
                            known |-> e.code = "PROVIDER_RESPONSE_INVALID"])}
      [] e.action \in {"meeting_created", "admin_recovered_provider_meeting"}
            -> {"READY"}
      [] e.action = "admin_confirmed_provider_ended" -> {"ENDED"}
      [] e.action = "meeting_cancelled" -> {"CANCELLED"}

\* Records after which a row awaits no provider answer, until it is over.
Settling == {"meeting_created", "admin_recovered_provider_meeting",
             "admin_confirmed_provider_ended"}

\* A provider_error after one of those is about a token.
Telling(l) ==
    IF l.last.action = "provider_error" /\ l.before.action \in Settling
    THEN l.before ELSE l.last

\* The log tells the story of the table although the same record is written for a
\* failed provisioning and for a refused token, and does not say whether a meeting
\* was created: as long as operators wait for the creating request, a reader who
\* takes a provider_error after a settling record for a refused token concludes
\* the status the row has, whatever crashes, stale-row marks, failed saves and
\* token requests that outlive the READY row intervene.
LogExplainsStatus ==
    OperatorsWait => \A m \in Meetings : row[m].status \in Concluded(Telling(log[m]))

\* Nothing is sent to Convay for a meeting whose log does not already say that
\* provisioning was started: a crash during the call leaves a trace.
AttemptsAreLogged ==
    \A m \in Meetings : (created[m] > 0 \/ Undecided(m)) => log[m].started

----------------------------------------------------------------------------
(***************************************************************************)
(* Inductive invariant, used by the proofs.                                *)
(***************************************************************************)
\* An error whose code is PROVIDER_RESPONSE_INVALID knows a meeting, and no
\* other does.
CodeTellsKnown(out) == out.known <=> out.code = "PROVIDER_RESPONSE_INVALID"

\* What the last record about the status of a meeting may be.
Events == [action : {"none", "provider_provisioning_started",
                     "provider_retry_started", "provider_state_unknown",
                     "provider_error", "meeting_created",
                     "admin_recovered_provider_meeting",
                     "admin_confirmed_provider_ended", "meeting_cancelled"},
           code : Codes, unknown : BOOLEAN]

\* What is kept of the log of one meeting.
Logs == {l \in [last : Events, before : Events, started : BOOLEAN] :
            l.last.action # "provider_error" => l.before = l.last}

\* Beside the two properties: a worker that may transmit has left its trace, the
\* error it is about to record is told by its code, and a token request that is
\* under way found a settled meeting.
AuditInv ==
    /\ log \in [Meetings -> Logs]
    /\ asking \in [Meetings -> {"none", "active", "inactive"}]
    /\ LogExplainsStatus
    /\ \A m \in Meetings :
          /\ created[m] > 0 \/ orphans[m] > 0 => log[m].started
          /\ OperatorsWait /\ asking[m] # "none" => log[m].before.action \in Settling
    /\ \A w \in Workers :
          /\ Engaged(w) => log[job[w].meeting].started
          /\ pc[w] = "error" => CodeTellsKnown(job[w].out)
=============================================================================
