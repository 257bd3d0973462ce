-------------------------- MODULE MeetingAdminForm --------------------------
(***************************************************************************)
(* The change form of a meeting in Admin (apps/meetings/admin.py), run     *)
(* against everything in Provisioning.  Django loads the row without a     *)
(* lock, MeetingRecoveryForm.clean reads it again without a lock, and      *)
(* MeetingAdmin.save_model locks it and then writes every column of the    *)
(* row as it was loaded.                                                   *)
(*                                                                         *)
(* Provisioning!Recover is this form when nothing happens in between.      *)
(***************************************************************************)
EXTENDS Provisioning

CONSTANTS
    MaxForms,       \* bound: forms submitted per meeting
    FormStatuses    \* statuses of the rows whose form is opened in this run

ASSUME FormsAssumption == /\ MaxForms \in Nat
                          /\ FormStatuses \subseteq Statuses

VARIABLES form,      \* per meeting: the submission being processed
          submitted  \* per meeting: how many there were

formVars == <<form, submitted>>

NoForm == [stage |-> "none", loaded |-> AbsentRow, calendar |-> 0, url |-> FALSE]

FormInit == /\ Init
            /\ form = [m \in Meetings |-> NoForm]
            /\ submitted = [m \in Meetings |-> 0]

Unknown(r) == r.status = "PROVIDER_STATE_UNKNOWN"

\* What can be entered.  calendarId and start URL are editable only when the
\* loaded row is PROVIDER_STATE_UNKNOWN; operators enter what Convay shows, or
\* save the form as it is.
Entries(m, r) ==
    {[stage |-> "loaded", loaded |-> r, calendar |-> r.calendar, url |-> FALSE]}
    \cup {[stage |-> "loaded", loaded |-> r, calendar |-> c, url |-> TRUE] :
             c \in IF Unknown(r) THEN 1..created[m] ELSE {}}

LoadForm(m) ==
    /\ form[m].stage = "none"
    /\ row[m].status \in FormStatuses
    /\ submitted[m] < MaxForms
    /\ \E f \in Entries(m, row[m]) : form' = [form EXCEPT ![m] = f]
    /\ submitted' = [submitted EXCEPT ![m] = @ + 1]
    /\ UNCHANGED vars

\* clean() demands the recovery fields of a row that is UNKNOWN by now.
Valid(f, r) == Unknown(r) => /\ f.url
                             /\ r.calendar \in {0, f.calendar}

CleanForm(m) ==
    /\ form[m].stage = "loaded"
    /\ form' = [form EXCEPT ![m] = IF Valid(form[m], row[m])
                                   THEN [form[m] EXCEPT !.stage = "cleaned"]
                                   ELSE NoForm]
    /\ UNCHANGED <<vars, submitted>>

\* Defect: an UNKNOWN row saved without a start URL is given back for a retry.
SavedRowReopened(f, r) ==
    LET entered == [f.loaded EXCEPT !.calendar = f.calendar]
    IN  IF Unknown(r)
        THEN [entered EXCEPT !.status = IF f.url THEN "READY" ELSE "RETRYABLE_FAILED",
                             !.active = TRUE, !.error = "NONE"]
        ELSE entered

\* save_model under the row lock.  A row that is UNKNOWN by now becomes READY
\* with the columns of the loaded one; any other is overwritten as loaded.  The
\* start URL that is stored is that of the form, and an empty one where the form
\* was loaded before the row was UNKNOWN: the hidden field is not missed.
SavedRow(f, r) ==
    LET entered == [f.loaded EXCEPT !.calendar = f.calendar]
    IN  IF Unknown(r)
        THEN [entered EXCEPT !.url = TRUE, !.status = "READY",
                             !.active = TRUE, !.error = "NONE"]
        ELSE entered

\* save_model raises for an UNKNOWN row that has another calendarId; the table's
\* constraints may refuse too.
Savable(m, f, r) ==
    /\ Unknown(r) => r.calendar \in {0, f.calendar}
    /\ Storable(m, SavedRow(f, r))

SaveForm(m) ==
    /\ form[m].stage = "cleaned"
    /\ ~Locked(m)
    /\ Savable(m, form[m], row[m])
    /\ row' = [row EXCEPT ![m] = SavedRow(form[m], row[m])]
    /\ form' = [form EXCEPT ![m] = NoForm]
    /\ UNCHANGED <<offer, pc, job, provider, submitted>>

SaveRefused(m) ==
    /\ form[m].stage = "cleaned"
    /\ ~Locked(m)
    /\ ~Savable(m, form[m], row[m])
    /\ form' = [form EXCEPT ![m] = NoForm]
    /\ UNCHANGED <<vars, submitted>>

FormStep(m) == LoadForm(m) \/ CleanForm(m) \/ SaveForm(m) \/ SaveRefused(m)

FormNext == \/ Next /\ UNCHANGED formVars
            \/ \E m \in Meetings : FormStep(m)

FormSpec == FormInit /\ [][FormNext]_<<vars, formVars>>

----------------------------------------------------------------------------
\* Operators cannot release a meeting that is PROVISIONING, nor take it away
\* from the request that creates it: no submitted form changes such a row.
OperatorsKeepProvisioning ==
    [][\A m \in Meetings :
        row[m].status = "PROVISIONING" /\ FormStep(m) => row'[m] = row[m]]_<<vars, formVars>>

\* AtMostOneProviderMeeting is the other property of the form: as long as none is
\* opened on a row that may still be tried (FormStatuses has no OpenStatuses),
\* stale rows written over whatever happened since make no request transmit again.

----------------------------------------------------------------------------
(***************************************************************************)
(* The inductive invariant, used by the proofs.  Where forms write rows    *)
(* back, a request no longer knows in which status its row is, nor whether *)
(* the row still has the room it was given.  What remains is a matter of   *)
(* each row, stored or loaded, by itself.                                  *)
(***************************************************************************)

\* A row says by its status whether it holds its room, and the reservation of a
\* row that has a room is complete.
OwnReservation(r) ==
    /\ r.active <=> r.status \in HoldingStatuses
    /\ r.active => r.room # NoRoom
    /\ r.room # NoRoom => r.slot # NoSlot /\ r.reservation = Interval(r.slot)

TableInv == /\ \A m \in Meetings : OwnReservation(row[m])
            /\ HeldDisjoint

Forms == [stage : {"none", "loaded", "cleaned"}, loaded : Rows,
          calendar : Nat, url : BOOLEAN]

\* Beside CreationInv, for forms of rows that are not to be tried: they write
\* no such status.
FormCreationInv ==
    /\ CreationInv
    /\ \A m \in Meetings : form[m].stage # "none" =>
          form[m].loaded.status \notin OpenStatuses

FormInv == /\ TypeOK
           /\ TableInv
           /\ form \in [Meetings -> Forms]
           /\ \A m \in Meetings : OwnReservation(form[m].loaded)
=============================================================================
