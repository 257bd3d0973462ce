---------------------------- MODULE ClassMigration ----------------------------
(***************************************************************************)
(* Migration 0004, which makes (integration_client, external_class_id)     *)
(* unique, against requests the web processes serve meanwhile.             *)
(*                                                                         *)
(* Sources: apps/meetings/migrations/0004 (preserve_historical_duplicates),*)
(* apps/meetings/services.py (register, and provision as far as it reads   *)
(* and writes the row).                                                    *)
(*                                                                         *)
(* The rows of one logical class are followed, numbered in the order they  *)
(* were created.  The migration is one transaction: its renames are seen   *)
(* by others when it commits, and lock the rows until then.  A worker that *)
(* is inside a transaction ("want", "hold", "store") has a lock on the     *)
(* table, for which the ALTER TABLE of the constraint has to wait.         *)
(***************************************************************************)
EXTENDS Integers, FiniteSets

CONSTANTS
    Workers,
    MaxRows,        \* bound: rows that are ever created for the class
    HistoricalRows, \* rows an earlier release may have left, without their name
    NewName,        \* the name a row gets: the class id, cut, and 8 digits of its key
    OtherNames      \* names of rows of the client's other classes

\* The statuses of the schemas up to 0005; the database accepts any.
Statuses == {"LIVE", "READY", "PROVIDER_RESPONSE_INVALID", "PROVIDER_STATE_UNKNOWN",
             "PROVISIONING", "RESERVED", "DRAFT", "FAILED", "ENDED", "CANCELLED",
             "RETRYABLE_FAILED", "NON_RETRYABLE_FAILED"}

\* The reservation is a column of its own, whatever the status.
ASSUME RowsAssumption ==
    /\ MaxRows \in Nat
    /\ HistoricalRows \subseteq [status : Statuses, calendar : BOOLEAN, active : BOOLEAN]

VARIABLES
    table,       \* the rows of the class, in a function over 1..n
    constrained, \* the unique constraint is in force
    mig,         \* the migration
    pc, target,  \* per worker: where its request is, and the row it works on
    raced        \* requests were served while the migration ran

vars == <<table, constrained, mig, pc, target, raced>>

Rows == DOMAIN table

Row(named, status, calendar, active) ==
    [named |-> named, status |-> status, calendar |-> calendar, active |-> active]

NewDraft == Row(TRUE, "DRAFT", FALSE, FALSE)

\* The rows that still have the name of the class.
Named == {i \in Rows : table[i].named}

NoTarget == 0

Init ==
    /\ \E n \in 0..(MaxRows - 1) :
          table \in [1..n -> {Row(TRUE, h.status, h.calendar, h.active) :
                                h \in HistoricalRows}]
    /\ constrained = FALSE
    /\ mig = [at |-> "before", todo |-> {}, renamed |-> {}]
    /\ pc = [w \in Workers |-> "idle"]
    /\ target = [w \in Workers |-> NoTarget]
    /\ raced = FALSE

----------------------------------------------------------------------------
(***************************************************************************)
(* The migration                                                           *)
(***************************************************************************)
Migrating == mig.at \in {"list", "rename", "constrain"}

\* Defect: the provider is called inside the transaction.
InTransactionDuringCall(w) == pc[w] \in {"want", "hold", "call", "store"}

InTransaction(w) == pc[w] \in {"want", "hold", "store"}

\* Of any other status the rank is -1.
StatusRank(status) ==
    CASE status = "LIVE" -> 9
      [] status = "READY" -> 8
      [] status = "PROVIDER_RESPONSE_INVALID" -> 7
      [] status = "PROVIDER_STATE_UNKNOWN" -> 6
      [] status = "PROVISIONING" -> 5
      [] status = "RESERVED" -> 4
      [] status = "DRAFT" -> 3
      [] status = "FAILED" -> 2
      [] status = "ENDED" -> 1
      [] status = "CANCELLED" -> 0
      [] OTHER -> -1

\* Defect: rows are ranked by their status only.
PreferredByStatus(i, j) ==
    \/ StatusRank(table[i].status) > StatusRank(table[j].status)
    \/ StatusRank(table[i].status) = StatusRank(table[j].status) /\ i < j

\* i comes before j in the sorted group: by calendar id, then status, then an
\* active reservation, then age.
Preferred(i, j) ==
    LET a == table[i]
        b == table[j]
    IN  IF a.calendar # b.calendar THEN a.calendar
        ELSE IF StatusRank(a.status) # StatusRank(b.status)
        THEN StatusRank(a.status) > StatusRank(b.status)
        ELSE IF a.active # b.active THEN a.active ELSE i < j

\* The query for duplicate groups; without one there is nothing to rename.
FindDuplicates ==
    /\ mig.at \in {"before", "failed"}
    /\ mig' = [mig EXCEPT !.at = IF Cardinality(Named) > 1 THEN "list"
                                                           ELSE "rename"]
    /\ raced' = (\E w \in Workers : pc[w] # "idle")
    /\ UNCHANGED <<table, constrained, pc, target>>

\* Defect: rows with a reservation are never renamed.
ListGroupUnreserved ==
    /\ mig.at = "list"
    /\ mig' = [mig EXCEPT !.at = "rename",
                 !.todo = {i \in Named : /\ ~table[i].active
                                         /\ \E j \in Named : Preferred(j, i)}]
    /\ UNCHANGED <<table, constrained, pc, target, raced>>

\* The rows of the group, read without locking them.
ListGroup ==
    /\ mig.at = "list"
    /\ mig' = [mig EXCEPT !.at = "rename",
                 !.todo = {i \in Named : \E j \in Named : Preferred(j, i)}]
    /\ UNCHANGED <<table, constrained, pc, target, raced>>

LockedByWorker(i) == \E w \in Workers : pc[w] = "hold" /\ target[w] = i

RenameDuplicate(i) ==
    /\ mig.at = "rename"
    /\ i \in mig.todo
    /\ ~LockedByWorker(i)
    /\ mig' = [mig EXCEPT !.todo = @ \ {i}, !.renamed = @ \cup {i}]
    /\ UNCHANGED <<table, constrained, pc, target, raced>>

EndRenames ==
    /\ mig.at = "rename"
    /\ mig.todo = {}
    /\ mig' = [mig EXCEPT !.at = "constrain"]
    /\ UNCHANGED <<table, constrained, pc, target, raced>>

TableFree == \A w \in Workers : ~InTransaction(w)

\* No name occurs twice, the new ones included.
NamesUnique ==
    /\ Cardinality(Named \ mig.renamed) <= 1
    /\ \A i \in mig.renamed : /\ NewName[i] \notin OtherNames
                              /\ \A j \in mig.renamed \ {i} : NewName[i] # NewName[j]

AddConstraint ==
    /\ mig.at = "constrain"
    /\ TableFree
    /\ NamesUnique
    /\ table' = [i \in Rows |-> [table[i] EXCEPT
                                    !.named = @ /\ i \notin mig.renamed]]
    /\ constrained' = TRUE
    /\ mig' = [at |-> "done", todo |-> {}, renamed |-> {}]
    /\ UNCHANGED <<pc, target, raced>>

RolledBack == mig' = [at |-> "failed", todo |-> {}, renamed |-> {}]

\* A row was inserted since the duplicates were listed, or two names clash.
ConstraintViolated ==
    /\ mig.at = "constrain"
    /\ TableFree
    /\ ~NamesUnique
    /\ RolledBack
    /\ UNCHANGED <<table, constrained, pc, target, raced>>

\* w waits for a row the migration renamed, and the migration for w.
Deadlocked(w) == /\ mig.at = "constrain"
                 /\ pc[w] \in {"want", "store"}
                 /\ target[w] \in mig.renamed

----------------------------------------------------------------------------
(***************************************************************************)
(* Requests.  While ALTER TABLE waits, new statements on the table queue   *)
(* behind it.                                                              *)
(***************************************************************************)
TableOpen == mig.at # "constrain"

Served == raced' = (raced \/ Migrating)

Goto(w, label, i) == /\ pc' = [pc EXCEPT ![w] = label]
                     /\ target' = [target EXCEPT ![w] = i]
                     /\ Served

\* Both statuses a worker stores hold the reservation.
Becomes(i, status, calendar) ==
    table' = [table EXCEPT ![i] = Row(table[i].named, status, calendar, TRUE)]

\* get_or_create: the get.  More than one row is MultipleObjectsReturned, which
\* is answered EXISTING_MEETING_REQUIRES_REVIEW.
Look(w) ==
    /\ pc[w] = "idle"
    /\ TableOpen
    /\ \/ Named = {} /\ Goto(w, "insert", NoTarget)
       \/ Cardinality(Named) = 1 /\ \E i \in Named : Goto(w, "found", i)
       \/ Cardinality(Named) > 1 /\ Goto(w, "idle", NoTarget)
    /\ UNCHANGED <<table, constrained, mig>>

\* get_or_create: the insert.  On a unique violation the row of the other
\* request is fetched.
Insert(w) ==
    /\ pc[w] = "insert"
    /\ TableOpen
    /\ \/ /\ constrained => Named = {}
          /\ Cardinality(Rows) < MaxRows
          /\ LET i == Cardinality(Rows) + 1
             IN  /\ table' = [j \in Rows \cup {i} |->
                                IF j = i THEN NewDraft ELSE table[j]]
                 /\ Goto(w, "found", i)
       \/ /\ constrained /\ Named # {}
          /\ \E i \in Named : Goto(w, "found", i)
          /\ UNCHANGED table
    /\ UNCHANGED <<constrained, mig>>

\* provision() opens its transaction and asks for the row lock.
Begin(w) ==
    /\ pc[w] = "found"
    /\ TableOpen
    /\ Goto(w, "want", target[w])
    /\ UNCHANGED <<table, constrained, mig>>

RowFree(i) == /\ i \notin mig.renamed
              /\ ~LockedByWorker(i)

\* A draft is claimed, and a failed row with no provider fields.
Claimable(r) == \/ r.status = "DRAFT"
                \/ r.status = "RETRYABLE_FAILED" /\ ~r.calendar

LockRow(w) ==
    /\ pc[w] = "want"
    /\ RowFree(target[w])
    /\ IF Claimable(table[target[w]]) THEN Goto(w, "hold", target[w])
                                      ELSE Goto(w, "idle", NoTarget)
    /\ UNCHANGED <<table, constrained, mig>>

\* The room is reserved and PROVISIONING committed.
CommitClaim(w) ==
    /\ pc[w] = "hold"
    /\ Becomes(target[w], "PROVISIONING", table[target[w]].calendar)
    /\ Goto(w, "call", target[w])
    /\ UNCHANGED <<constrained, mig>>

ProviderCreates(w) ==
    /\ pc[w] = "call"
    /\ Goto(w, "created", target[w])
    /\ UNCHANGED <<table, constrained, mig>>

BeginStore(w) ==
    /\ pc[w] = "created"
    /\ TableOpen
    /\ Goto(w, "store", target[w])
    /\ UNCHANGED <<table, constrained, mig>>

StoreResult(w) ==
    /\ pc[w] = "store"
    /\ RowFree(target[w])
    /\ Becomes(target[w], "READY", TRUE)
    /\ Goto(w, "idle", NoTarget)
    /\ UNCHANGED <<constrained, mig>>

\* The process dies; what it had not committed is rolled back.
Abort(w) ==
    /\ pc[w] # "idle"
    /\ Goto(w, "idle", NoTarget)
    /\ UNCHANGED <<table, constrained, mig>>

\* PostgreSQL ends a deadlock by aborting one of the transactions.
BreakDeadlock(w) ==
    /\ Deadlocked(w)
    /\ \/ RolledBack /\ UNCHANGED <<pc, target, raced>>
       \/ Goto(w, "idle", NoTarget) /\ UNCHANGED mig
    /\ UNCHANGED <<table, constrained>>

Migration == \/ FindDuplicates \/ ListGroup \/ EndRenames
             \/ (\E i \in Rows : RenameDuplicate(i))
             \/ AddConstraint \/ ConstraintViolated

Transaction(w) == LockRow(w) \/ CommitClaim(w) \/ StoreResult(w)

Request(w) == \/ Look(w) \/ Insert(w) \/ Begin(w) \/ Transaction(w)
              \/ ProviderCreates(w) \/ BeginStore(w) \/ Abort(w)

Next == \/ Migration
        \/ \E w \in Workers : Request(w) \/ BreakDeadlock(w)

Spec == Init /\ [][Next]_vars

\* The migration process and open transactions go on, and PostgreSQL detects
\* deadlocks.  Row locks are granted in turn.
FairSpec == /\ Spec
            /\ WF_vars(Migration)
            /\ \A i \in 1..MaxRows : SF_vars(i \in Rows /\ RenameDuplicate(i))
            /\ \A w \in Workers : /\ WF_vars(CommitClaim(w))
                                  /\ SF_vars(LockRow(w)) /\ SF_vars(StoreResult(w))
                                  /\ WF_vars(BreakDeadlock(w))

----------------------------------------------------------------------------
\* After a migration during which no request was served, no meeting is created
\* for a class one of whose rows, renamed ones included, names a Convay meeting:
\* of the duplicates the right one kept the name.
NoSecondMeeting ==
    [][\A w \in Workers :
         (/\ mig.at = "done" /\ ~raced
          /\ pc[w] = "call" /\ pc'[w] = "created")
             => \A i \in Rows : ~table[i].calendar]_vars

\* Two rows of the class get one name, or one of them a name that is taken.
NamesClash == \E i \in Rows : \/ NewName[i] \in OtherNames
                              \/ \E j \in Rows \ {i} : NewName[i] = NewName[j]

\* The constraint cannot fail over the duplicates that were there, whatever their
\* statuses and reservations: only a row inserted while the migration runs makes
\* it roll back, or a clash of the new names (8 digits of the key tell them apart).
FailsOnlyIfRacedOrClashing == mig.at = "failed" => raced \/ NamesClash

\* Although the migration waits for the requests that are inside a transaction,
\* and they may be waiting for the rows it renamed, it comes to an end.
MigrationEnds == Migrating ~> mig.at \in {"done", "failed"}

----------------------------------------------------------------------------
(***************************************************************************)
(* Inductive invariants, used by the proofs.                               *)
(***************************************************************************)
RowType == [named : BOOLEAN, status : Statuses,
            calendar : BOOLEAN, active : BOOLEAN]

\* The rows are numbered 1..n.
TableType == \E n \in Nat : table \in [1..n -> RowType]

MigType == mig \in [at : {"before", "list", "rename", "constrain", "done", "failed"},
                    todo : SUBSET Nat, renamed : SUBSET Nat]

AtMostOne(S) == \A i, j \in S : i = j

\* Without requests, what the renames leave of the class is one row.
OneLeft == (mig.at \in {"rename", "constrain"} /\ ~raced)
               => AtMostOne(Named \ (mig.renamed \cup mig.todo))

AllIdle == \A w \in Workers : pc[w] = "idle"

MigrationInv ==
    /\ TableType
    /\ MigType
    /\ raced \in BOOLEAN
    /\ (Migrating /\ ~raced) => AllIdle
    /\ OneLeft
    /\ mig.at = "constrain" => mig.todo = {}
    /\ mig.renamed \subseteq Rows
    /\ FailsOnlyIfRacedOrClashing

OnRow == {"found", "want", "hold", "call", "created", "store"}

\* A request that is creating the meeting of its row, or about to.
InCharge == {"hold", "call", "created", "store"}

\* Rows get a calendar id when the meeting has been created, not before: an
\* earlier release left none with a row that is still a draft.
DraftsAreNew == \A h \in HistoricalRows : h.status = "DRAFT" => ~h.calendar

\* A row has one request in charge of it, and no meeting until that is done.
ClaimInv ==
    /\ pc \in [Workers -> OnRow \cup {"idle", "insert"}]
    /\ target \in [Workers -> Nat]
    /\ \A i \in Rows : table[i].status = "DRAFT" => ~table[i].calendar
    /\ \A w \in Workers :
          /\ pc[w] \in OnRow => target[w] \in Rows
          /\ pc[w] \in InCharge => ~table[target[w]].calendar
          /\ pc[w] = "hold" => Claimable(table[target[w]])
          /\ pc[w] \in {"call", "created", "store"} =>
                table[target[w]].status = "PROVISIONING"
    /\ \A v, w \in Workers :
          v # w /\ pc[v] \in InCharge /\ pc[w] \in InCharge => target[v] # target[w]

HasMeeting(S) == \E i \in S : table[i].calendar

\* What the migration leaves: one row with the name, which requests find, and if
\* any row names a meeting that one does.
OneClass ==
    /\ AtMostOne(Named)
    /\ HasMeeting(Rows) => HasMeeting(Named)
    /\ \A w \in Workers : pc[w] \in OnRow => target[w] \in Named

KeptInv ==
    /\ constrained <=> mig.at = "done"
    /\ mig.at # "done" => \A i \in Rows : table[i].named
    /\ mig.at \in {"before", "failed", "list"} => mig.todo = {} /\ mig.renamed = {}
    /\ mig.at \in {"rename", "constrain"} /\ ~raced =>
          (HasMeeting(Rows) => HasMeeting(Named \ (mig.renamed \cup mig.todo)))
    /\ mig.at = "done" /\ ~raced => OneClass
=============================================================================
