----------------------------- MODULE TokenCache -----------------------------
(***************************************************************************)
(* The Convay account tokens of one room: get_token and invalidate         *)
(* (apps/convay/tokens.py) as provision(), the convay-token endpoint and   *)
(* the credential test of Admin call them, against the room's change form  *)
(* and activation actions (apps/rooms/admin.py).                           *)
(*                                                                         *)
(* Callers work on the Room instance they loaded, however old it is.  The  *)
(* cache entry and its lock are named by that instance's credential        *)
(* version.  A step is one access to Redis or to the database, or one      *)
(* exchange with Convay; time passes between steps.  The columns last_auth_at,*)
(* last_auth_success and last_error, which nothing reads, are left out.    *)
(***************************************************************************)
EXTENDS Integers

CONSTANTS
    Callers,       \* processes inside get_token
    Admins,        \* administrators with a room form open
    Usernames,     \* account names an administrator may enter
    Lifetimes,     \* lifetimes Convay gives its tokens, in seconds, or NoExpiry
    NoExpiry,
    Skew,          \* CONVAY_TOKEN_EXPIRY_SKEW_SECONDS
    OpaqueTtl,     \* how long a token of unknown expiry is cached (60 s)
    Lease,         \* lifetime of the lock (60 s)
    FormsAlone,    \* no form is saved over a row that changed since it was loaded
    MaxTime, MaxPasswords, MaxLogins    \* bounds

ASSUME TokenConstants ==
    /\ Usernames # {}
    /\ NoExpiry \notin Int
    /\ Lifetimes \subseteq Nat \cup {NoExpiry}
    /\ Skew \in Nat /\ OpaqueTtl \in Nat \ {0} /\ Lease \in Nat \ {0}
    /\ FormsAlone \in BOOLEAN
    /\ MaxTime \in Nat /\ MaxPasswords \in Nat \ {0} /\ MaxLogins \in Nat

VARIABLES
    now,
    room,       \* the Room row
    booked,     \* some meeting references the room
    cache,      \* per credential version: the token in Redis
    lock,       \* per credential version: the Redis lock
    call,       \* per caller: its get_token
    form,       \* per administrator: the row as loaded, and whether one is
    passwords,  \* passwords entered so far
    logins      \* tokens Convay issued so far

vars == <<now, room, booked, cache, lock, call, form, passwords, logins>>

----------------------------------------------------------------------------
Versions == 1..MaxPasswords

NoToken == [username |-> "none", password |-> 0, expiry |-> 0, serial |-> 0]
NoEntry == [token |-> NoToken, until |-> 0]
Free    == [owner |-> "nobody", until |-> 0]

FirstRoom(u) == [username |-> u, password |-> 1, version |-> 1,
                 active |-> TRUE]

\* No call, or one that is over: nothing of it is remembered, as no call keeps
\* what it does not read again.
Idle == [pc |-> "idle", inst |-> FirstRoom("none"), force |-> FALSE,
         token |-> NoToken, ttl |-> 0, entered |-> 0, attempt |-> 1,
         rejected |-> 0]

Closed == [open |-> FALSE, loaded |-> FirstRoom("none")]

Init == \E u \in Usernames :
    /\ now = 0
    /\ room = FirstRoom(u)
    /\ booked = FALSE
    /\ cache = [v \in Versions |-> NoEntry]
    /\ lock = [v \in Versions |-> Free]
    /\ call = [c \in Callers |-> Idle]
    /\ form = [a \in Admins |-> Closed]
    /\ passwords = 1
    /\ logins = 0

Key(c) == call[c].inst.version

End(c) == call' = [call EXCEPT ![c] = Idle]

\* Left unchanged by everything a caller does apart from its own step.
others == <<now, booked, form, passwords>>

----------------------------------------------------------------------------
(***************************************************************************)
(* get_token                                                               *)
(***************************************************************************)

\* An inactive room is refused before anything is touched.
Begin(c, forced) ==
    /\ call[c].pc = "idle"
    /\ room.active
    /\ call' = [call EXCEPT ![c].pc = "enter", ![c].inst = room,
                            ![c].force = forced]
    /\ UNCHANGED <<room, cache, lock, logins, others>>

\* Defect: nobody waits for the lock.
AvailableAlways(v) == v \in Versions

Available(v) == lock[v].until <= now

Acquire(c) ==
    /\ call[c].pc = "enter"
    /\ Available(Key(c))
    /\ lock' = [lock EXCEPT ![Key(c)] = [owner |-> c, until |-> now + Lease]]
    /\ call' = [call EXCEPT ![c].pc = "read", ![c].entered = now]
    /\ UNCHANGED <<room, cache, logins, others>>

\* The lock stayed taken for the whole blocking timeout: PROVIDER_AUTH_BUSY.
Busy(c) ==
    /\ call[c].pc = "enter"
    /\ ~Available(Key(c))
    /\ End(c)
    /\ UNCHANGED <<room, cache, lock, logins, others>>

\* Defect: the entry is trusted for as long as Redis keeps it.
ServableWhileKept(e) == e.until > now

\* A cached token is served only while it is worth more than the skew, whatever
\* Redis thinks of its lifetime.
Servable(e) == /\ e.until > now
               /\ e.token.expiry # NoExpiry => e.token.expiry - now > Skew

ServeCached(c) ==
    /\ call[c].pc = "read"
    /\ ~call[c].force
    /\ Servable(cache[Key(c)])
    /\ call' = [call EXCEPT ![c].pc = "release",
                            ![c].token = cache[Key(c)].token]
    /\ UNCHANGED <<room, cache, lock, logins, others>>

Login(c) ==
    /\ call[c].pc = "read"
    /\ call[c].force \/ ~Servable(cache[Key(c)])
    /\ call' = [call EXCEPT ![c].pc = "login", ![c].force = FALSE]
    /\ UNCHANGED <<room, cache, lock, logins, others>>

LoginRefused(c) ==
    /\ call[c].pc = "login"
    /\ call' = [call EXCEPT ![c].pc = "refused"]
    /\ UNCHANGED <<room, cache, lock, logins, others>>

\* Convay logs the instance's account in.
NewToken(c, life) ==
    [username |-> call[c].inst.username, password |-> call[c].inst.password,
     expiry |-> IF life = NoExpiry THEN NoExpiry ELSE now + life,
     serial |-> logins + 1]

TimeToLive(t) == IF t.expiry = NoExpiry THEN OpaqueTtl ELSE t.expiry - now - Skew

\* A token that is not worth more than the skew is as good as a refusal.
LoginAnswered(c, life) ==
    LET t == NewToken(c, life)
    IN  /\ call[c].pc = "login"
        /\ logins < MaxLogins
        /\ logins' = logins + 1
        /\ call' = IF TimeToLive(t) > 0
                   THEN [call EXCEPT ![c].pc = "store", ![c].token = t,
                                     ![c].ttl = TimeToLive(t)]
                   ELSE [call EXCEPT ![c].pc = "refused"]
        /\ UNCHANGED <<room, cache, lock, others>>

\* setex counts the lifetime from the moment it is executed.
StoreToken(c) ==
    /\ call[c].pc = "store"
    /\ cache' = [cache EXCEPT ![Key(c)] =
                    [token |-> call[c].token, until |-> now + call[c].ttl]]
    /\ call' = [call EXCEPT ![c].pc = "release", ![c].ttl = 0]
    /\ UNCHANGED <<room, lock, logins, others>>

Holds(c) == lock[Key(c)].owner = c /\ lock[Key(c)].until > now

\* Leaving the lock's block.  A caller whose lease ran out gets a LockError
\* instead of its result: PROVIDER_AUTH_BUSY.
Release(c) ==
    /\ call[c].pc \in {"release", "refused"}
    /\ Holds(c)
    /\ lock' = [lock EXCEPT ![Key(c)] = Free]
    /\ call' = [call EXCEPT ![c].entered = 0, ![c].pc =
                   IF call[c].pc = "release" THEN "served" ELSE "failed"]
    /\ UNCHANGED <<room, cache, logins, others>>

LeaseLost(c) ==
    /\ call[c].pc \in {"release", "refused"}
    /\ ~Holds(c)
    /\ End(c)
    /\ UNCHANGED <<room, cache, lock, logins, others>>

(***************************************************************************)
(* What the callers do next                                                *)
(***************************************************************************)
Invalidate(v) == cache' = [cache EXCEPT ![v] = NoEntry]

\* The token went to the LMS, or the meeting was created with it.
Served(c) ==
    /\ call[c].pc = "served"
    /\ End(c)
    /\ UNCHANGED <<room, cache, lock, logins, others>>

\* Defect: the second attempt may use the cache.
RejectedUnforced(c) ==
    /\ call[c].pc = "served"
    /\ call[c].attempt = 1
    /\ Invalidate(Key(c))
    /\ call' = [call EXCEPT ![c].pc = "enter", ![c].force = FALSE,
                            ![c].token = NoToken, ![c].attempt = 2,
                            ![c].rejected = logins]
    /\ UNCHANGED <<room, lock, logins, others>>

\* provision(): start_meeting answered 401 for the first time.
Rejected(c) ==
    /\ call[c].pc = "served"
    /\ call[c].attempt = 1
    /\ Invalidate(Key(c))
    /\ call' = [call EXCEPT ![c].pc = "enter", ![c].force = TRUE,
                            ![c].token = NoToken, ![c].attempt = 2,
                            ![c].rejected = logins]
    /\ UNCHANGED <<room, lock, logins, others>>

\* provision(): start_meeting answered 401 for the second time.
RejectedAgain(c) ==
    /\ call[c].pc = "served"
    /\ call[c].attempt = 2
    /\ Invalidate(Key(c))
    /\ End(c)
    /\ UNCHANGED <<room, lock, logins, others>>

\* get_token raised; provision() also invalidates if the login answered 401.
Failed(c) ==
    /\ call[c].pc = "failed"
    /\ UNCHANGED cache \/ Invalidate(Key(c))
    /\ End(c)
    /\ UNCHANGED <<room, lock, logins, others>>

\* The process dies; a lock it holds stays until its lease runs out.
Crash(c) ==
    /\ call[c].pc # "idle"
    /\ End(c)
    /\ UNCHANGED <<room, cache, lock, logins, others>>

----------------------------------------------------------------------------
(***************************************************************************)
(* Administration of the room                                              *)
(***************************************************************************)
callers == <<cache, lock, call, logins>>

LoadRoom(a) ==
    /\ ~form[a].open
    /\ form' = [form EXCEPT ![a] = [open |-> TRUE, loaded |-> room]]
    /\ UNCHANGED <<now, room, booked, passwords, callers>>

\* Defect: a new password keeps the credential version.
SavedSameVersion(loaded, u, newPassword) ==
    IF newPassword
    THEN [loaded EXCEPT !.username = u, !.password = passwords + 1]
    ELSE [loaded EXCEPT !.username = u]

\* The credentials of a saved form.  Without a new password the whole row is
\* written as it was loaded, version and password included.
Saved(loaded, u, newPassword) ==
    IF newPassword
    THEN [loaded EXCEPT !.username = u, !.password = passwords + 1,
                        !.version = room.version + 1]
    ELSE [loaded EXCEPT !.username = u]

\* save_model under the room's lock, with the is_active that was submitted.
\* The account of a room with meetings cannot be reassigned.
SaveRoom(a, u, newPassword, active) ==
    LET loaded == form[a].loaded
    IN  /\ form[a].open
        /\ FormsAlone => loaded = room
        /\ u # room.username => ~booked
        /\ newPassword => passwords < MaxPasswords
        /\ room' = [Saved(loaded, u, newPassword) EXCEPT !.active = active]
        /\ passwords' = IF newPassword THEN passwords + 1 ELSE passwords
        /\ form' = [form EXCEPT ![a] = Closed]
        /\ UNCHANGED <<now, booked, callers>>

DiscardForm(a) ==
    /\ form[a].open
    /\ form' = [form EXCEPT ![a] = Closed]
    /\ UNCHANGED <<now, room, booked, passwords, callers>>

SetActive(value) ==
    /\ room.active # value
    /\ room' = [room EXCEPT !.active = value]
    /\ UNCHANGED <<now, booked, form, passwords, callers>>

\* A meeting reserves the room.
Book ==
    /\ ~booked
    /\ room.active
    /\ booked' = TRUE
    /\ UNCHANGED <<now, room, form, passwords, callers>>

Tick ==
    /\ now < MaxTime
    /\ now' = now + 1
    /\ UNCHANGED <<room, booked, form, passwords, callers>>

----------------------------------------------------------------------------
GetToken(c) ==
    \/ \E forced \in BOOLEAN : Begin(c, forced)
    \/ Acquire(c) \/ Busy(c) \/ ServeCached(c) \/ Login(c)
    \/ LoginRefused(c) \/ \E life \in Lifetimes : LoginAnswered(c, life)
    \/ StoreToken(c) \/ Release(c) \/ LeaseLost(c)
    \/ Served(c) \/ Rejected(c) \/ RejectedAgain(c) \/ Failed(c) \/ Crash(c)

Administer(a) ==
    \/ LoadRoom(a) \/ DiscardForm(a)
    \/ \E u \in Usernames, newPassword, active \in BOOLEAN :
          SaveRoom(a, u, newPassword, active)

Next == \/ \E c \in Callers : GetToken(c)
        \/ \E a \in Admins : Administer(a)
        \/ \E value \in BOOLEAN : SetActive(value)
        \/ Book
        \/ Tick

Spec == Init /\ [][Next]_vars

----------------------------------------------------------------------------
(***************************************************************************)
(* Properties                                                              *)
(***************************************************************************)

\* Whoever is served a token, from the cache or from a login, gets one of the
\* account and password its Room instance has: no rotation, invalidation, lost
\* lease or late store makes a token of other credentials reappear.
ServedTokenIsOfTheAccount ==
    \A c \in Callers : call[c].pc = "served" =>
        /\ call[c].token.username = call[c].inst.username
        /\ call[c].token.password = call[c].inst.password

\* A token that get_token returns is at that moment still good for more than the
\* skew minus the lease (240 of the 300 s), however late its login was answered
\* or stored, however long Redis keeps it and however slow its caller was.
ReturnedTokenIsValid ==
    [][\A c \in Callers :
        call[c].pc = "release" /\ call'[c].pc = "served"
            => \/ call[c].token.expiry = NoExpiry
               \/ call[c].token.expiry - now > Skew - Lease]_vars

\* The second attempt at creating a meeting is made with a token that was issued
\* after the first one was rejected, whatever others cached meanwhile.
RetryUsesNewLogin ==
    \A c \in Callers : call[c].pc = "served" /\ call[c].attempt = 2 =>
        call[c].token.serial > call[c].rejected

\* Two logins for one room and credential version run at the same time only if
\* one of them has outlived its lease.
OneLoginPerLease ==
    \A c, d \in Callers :
        (c # d /\ call[c].pc = "login" /\ call[d].pc = "login"
               /\ Key(c) = Key(d))
            => now >= call[c].entered + Lease \/ now >= call[d].entered + Lease

----------------------------------------------------------------------------
(***************************************************************************)
(* Inductive invariant, used by the proofs.                                *)
(***************************************************************************)
Rooms == [username : Usernames \cup {"none"}, password : Nat,
          version : Versions, active : BOOLEAN]

Tokens == [username : Usernames \cup {"none"}, password : Nat,
           expiry : Int \cup {NoExpiry}, serial : Nat]

Calls == [pc : {"idle", "enter", "read", "login", "store", "release", "refused",
                "served", "failed"},
          inst : Rooms, force : BOOLEAN, token : Tokens, ttl : Int,
          entered : Nat, attempt : {1, 2}, rejected : Nat]

CacheTyped ==
    /\ now \in Nat
    /\ room \in Rooms /\ room.version <= passwords
    /\ passwords \in Versions
    /\ cache \in [Versions -> [token : Tokens, until : Int]]
    /\ lock \in [Versions -> [owner : Callers \cup {"nobody"}, until : Nat]]
    /\ call \in [Callers -> Calls]
    /\ form \in [Admins -> [open : BOOLEAN, loaded : Rooms]]
    /\ \A a \in Admins : form[a].loaded.version <= passwords
    /\ logins \in Nat

\* Without stale forms password and version are counted up together, so in the
\* row and in every copy of it a version says which password it stands for.
PasswordsNumbered ==
    FormsAlone =>
        /\ room.version = passwords /\ room.password = passwords
        /\ \A a \in Admins : form[a].loaded.password = form[a].loaded.version

\* The entry of a version, if Redis may still have it, is of the account and of
\* that version's password.
SoundEntry(v) ==
    cache[v].until > 0 => /\ cache[v].token.username \in Usernames
                          /\ FormsAlone => cache[v].token.password = v

\* A call knows an account and the password of its version; the token it has is
\* of both, and a second attempt has logged in for it after the first.
SoundCall(k) ==
    /\ k.pc = "idle" => k = Idle
    /\ k.pc # "idle" => k.inst.username \in Usernames
    /\ FormsAlone => k.inst.password = k.inst.version
    /\ k.attempt = 2 => /\ k.rejected <= logins
                        /\ k.pc \in {"enter", "read"} => k.force
    /\ k.pc \in {"store", "release", "served"} =>
          /\ k.token.username \in Usernames
          /\ FormsAlone => k.token.password = k.inst.version
          /\ k.attempt = 2 => k.token.serial > k.rejected

\* As long as its lease runs, the lock is that of the caller that reads the
\* cache or logs in.
LeaseHeld(c) ==
    call[c].pc \in {"read", "login"} /\ now < call[c].entered + Lease
        => lock[Key(c)] = [owner |-> c, until |-> call[c].entered + Lease]

CacheInv == /\ CacheTyped
            /\ PasswordsNumbered
            /\ room.username \in Usernames
            /\ \A v \in Versions : SoundEntry(v)
            /\ \A c \in Callers : SoundCall(call[c]) /\ LeaseHeld(c)

\* A caller that still holds the lock at the end entered it less than a lease
\* ago, and the token it found or got was worth more than the skew after that.
FreshCall(c) ==
    LET k == call[c]
    IN  /\ k.pc \in {"read", "login", "store", "release"} =>
              /\ k.entered <= now
              /\ Holds(c) => lock[Key(c)].until = k.entered + Lease
        /\ k.pc \in {"store", "release"} /\ k.token.expiry # NoExpiry =>
              k.token.expiry > k.entered + Skew

FreshCalls == \A c \in Callers : FreshCall(c)

\* No room is renamed: there is one account.
OneAccount == \A u, v \in Usernames : u = v
=============================================================================
