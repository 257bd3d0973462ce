---------------------------- MODULE ClassMeetings ----------------------------
(***************************************************************************)
(* What creating the Convay meeting of a class promises, without requests, *)
(* locks, rows, retries or operators: a class books a room and a time      *)
(* nobody else has, asks the provider, and asks again only when the last   *)
(* attempt is known to have created nothing.  The booking is kept until    *)
(* that is known, or until an operator closes the class.                   *)
(***************************************************************************)
EXTENDS Integers

CONSTANTS
    Meetings,      \* (integration_client, external_class_id) pairs
    Bookings,      \* [room, span]: a room for a time, buffers included
    NoBooking

VARIABLES
    phase,         \* per class: "new", "trying", "waiting", "ready" or "closed"
    booking,       \* per class: what it holds, or NoBooking
    pending,       \* per class: the provider may still create a meeting
    made,          \* per class: how many meetings the provider created
    running        \* per class: one of them is running

vars == <<phase, booking, pending, made, running>>

\* Classes that failed in an earlier release are closed from the start.
Init == /\ phase \in [Meetings -> {"new", "closed"}]
        /\ booking = [m \in Meetings |-> NoBooking]
        /\ pending = [m \in Meetings |-> FALSE]
        /\ made = [m \in Meetings |-> 0]
        /\ running = [m \in Meetings |-> FALSE]

Clash(a, b) == /\ a # NoBooking
               /\ a.room = b.room
               /\ a.span.start < b.span.end
               /\ b.span.start < a.span.end

\* Nothing was created for m, and nothing can be any more.
NothingMade(m) == made[m] = 0 /\ ~pending[m]

Book(m, b) ==
    /\ phase[m] = "new"
    /\ NothingMade(m)
    /\ \A n \in Meetings \ {m} : ~Clash(booking[n], b)
    /\ phase' = [phase EXCEPT ![m] = "trying"]
    /\ booking' = [booking EXCEPT ![m] = b]
    /\ UNCHANGED <<pending, made, running>>

\* A retry goes on with the booking of the first attempt.
Resume(m) ==
    /\ phase[m] = "waiting"
    /\ NothingMade(m)
    /\ phase' = [phase EXCEPT ![m] = "trying"]
    /\ UNCHANGED <<booking, pending, made, running>>

Ask(m) ==
    /\ phase[m] = "trying"
    /\ NothingMade(m)
    /\ pending' = [pending EXCEPT ![m] = TRUE]
    /\ UNCHANGED <<phase, booking, made, running>>

\* The provider refuses, or never executes what was sent.
Refuse(m) ==
    /\ pending[m]
    /\ pending' = [pending EXCEPT ![m] = FALSE]
    /\ UNCHANGED <<phase, booking, made, running>>

Create(m) ==
    /\ pending[m]
    /\ pending' = [pending EXCEPT ![m] = FALSE]
    /\ made' = [made EXCEPT ![m] = @ + 1]
    /\ running' = [running EXCEPT ![m] = TRUE]
    /\ UNCHANGED <<phase, booking>>

Finish(m) ==
    /\ running[m]
    /\ running' = [running EXCEPT ![m] = FALSE]
    /\ UNCHANGED <<phase, booking, pending, made>>

\* An attempt that created nothing: to be repeated, or given up for good.
Postpone(m) ==
    /\ phase[m] = "trying"
    /\ NothingMade(m)
    /\ phase' = [phase EXCEPT ![m] = "waiting"]
    /\ UNCHANGED <<booking, pending, made, running>>

GiveUp(m) ==
    /\ phase[m] = "trying"
    /\ NothingMade(m)
    /\ phase' = [phase EXCEPT ![m] = "closed"]
    /\ booking' = [booking EXCEPT ![m] = NoBooking]
    /\ UNCHANGED <<pending, made, running>>

Ready(m) ==
    /\ phase[m] = "trying"
    /\ made[m] = 1
    /\ phase' = [phase EXCEPT ![m] = "ready"]
    /\ UNCHANGED <<booking, pending, made, running>>

\* Operators close classes of which no provider meeting runs.  One that is still
\* pending may be made later: the class is not asked for again.
Close(S) ==
    /\ \A m \in S : /\ phase[m] \in {"trying", "ready"}
                    /\ ~running[m]
    /\ phase' = [m \in Meetings |-> IF m \in S THEN "closed" ELSE phase[m]]
    /\ booking' = [m \in Meetings |-> IF m \in S THEN NoBooking ELSE booking[m]]
    /\ UNCHANGED <<pending, made, running>>

Cancel(m) ==
    /\ phase[m] \in {"new", "waiting"}
    /\ NothingMade(m)
    /\ phase' = [phase EXCEPT ![m] = "closed"]
    /\ booking' = [booking EXCEPT ![m] = NoBooking]
    /\ UNCHANGED <<pending, made, running>>

Next ==
    \/ \E m \in Meetings :
          \/ \E b \in Bookings : Book(m, b)
          \/ Resume(m) \/ Ask(m) \/ Refuse(m) \/ Create(m) \/ Finish(m)
          \/ Postpone(m) \/ GiveUp(m) \/ Ready(m) \/ Cancel(m)
    \/ \E S \in SUBSET Meetings : Close(S)

Spec == Init /\ [][Next]_vars
=============================================================================
