------------------------------ MODULE TokenProofs ------------------------------
(***************************************************************************)
(* The Convay account tokens of a room, for every number of callers and    *)
(* administrators and any lifetimes, lease and skew.                       *)
(*                                                                         *)
(* CacheInv says what a call may rely on: the password its credential      *)
(* version stands for, the token it has, the lock while its lease runs.    *)
(***************************************************************************)
EXTENDS TokenCache, TLAPS

LEMMA IdleCall ==
    Idle \in Calls /\ Idle.pc = "idle" /\ SoundCall(Idle) /\ SoundCall(Idle)'
<1>1. 1 \in Versions
  BY TokenConstants DEF Versions
<1>2. FirstRoom("none") \in Rooms /\ FirstRoom("none").password = FirstRoom("none").version
  BY <1>1 DEF FirstRoom, Rooms
<1>3. NoToken \in Tokens
  BY DEF NoToken, Tokens
<1>4. /\ Idle \in Calls /\ Idle.pc = "idle" /\ Idle.attempt = 1
      /\ Idle.inst.password = Idle.inst.version
  BY <1>2, <1>3 DEF Idle, Calls
<1> QED
  BY <1>4 DEF SoundCall

LEMMA CacheBegins == Init => CacheInv
<1> SUFFICES ASSUME Init PROVE CacheInv
  OBVIOUS
<1>1. PICK u \in Usernames : room = FirstRoom(u)
  BY DEF Init
<1>2. 1 \in Versions
  BY TokenConstants DEF Versions
<1>3. /\ room \in Rooms /\ room.version = 1 /\ room.password = 1
      /\ room.username \in Usernames
  BY <1>1, <1>2 DEF FirstRoom, Rooms
<1>4. /\ Closed \in [open : BOOLEAN, loaded : Rooms]
      /\ Closed.loaded.version = 1 /\ Closed.loaded.password = 1
  BY <1>2 DEF Closed, FirstRoom, Rooms
<1>5. NoEntry \in [token : Tokens, until : Int] /\ NoEntry.until = 0
  BY DEF NoEntry, NoToken, Tokens
<1>6. Free \in [owner : Callers \cup {"nobody"}, until : Nat]
  BY DEF Free
<1>7. CacheTyped
  BY <1>2, <1>3, <1>4, <1>5, <1>6, IdleCall DEF Init, CacheTyped
<1>8. PasswordsNumbered
  BY <1>3, <1>4 DEF Init, PasswordsNumbered
<1>9. \A v \in Versions : SoundEntry(v)
  BY <1>5 DEF Init, SoundEntry
<1>10. \A c \in Callers : SoundCall(call[c]) /\ LeaseHeld(c)
  BY IdleCall DEF Init, LeaseHeld
<1> QED
  BY <1>3, <1>7, <1>8, <1>9, <1>10 DEF CacheInv

\* What a step of one caller must leave: a call that is sound, entries that are,
\* and the leases of the others.
LEMMA CallKept ==
    ASSUME CacheInv, UNCHANGED <<room, others>>,
           NEW c \in Callers, NEW k \in Calls, call' = [call EXCEPT ![c] = k],
           SoundCall(k)',
           k.pc \in {"read", "login"} /\ now < k.entered + Lease
               => lock'[k.inst.version] = [owner |-> c, until |-> k.entered + Lease],
           cache' \in [Versions -> [token : Tokens, until : Int]],
           \A v \in Versions : cache'[v] = cache[v] \/ SoundEntry(v)',
           lock' \in [Versions -> [owner : Callers \cup {"nobody"}, until : Nat]],
           \A d \in Callers \ {c} : LeaseHeld(d) => LeaseHeld(d)',
           logins' \in Nat, logins' >= logins
    PROVE  CacheInv'
<1>1. call \in [Callers -> Calls] /\ logins \in Nat
  BY DEF CacheInv, CacheTyped
<1>2. call' \in [Callers -> Calls] /\ call'[c] = k /\ \A d \in Callers \ {c} : call'[d] = call[d]
  BY <1>1
<1>3. CacheTyped'
  BY <1>2 DEF CacheInv, CacheTyped, others
<1>4. PasswordsNumbered' /\ room'.username \in Usernames
  BY DEF CacheInv, PasswordsNumbered, others
<1>5. \A v \in Versions : SoundEntry(v)'
  BY DEF CacheInv, SoundEntry
<1>6. ASSUME NEW d \in Callers PROVE SoundCall(call[d])' /\ LeaseHeld(d)'
  <2>1. CASE d = c
    <3>1. SoundCall(call[d])'
      BY <1>2, <2>1 DEF SoundCall
    <3>2. LeaseHeld(d)'
      BY <1>2, <2>1 DEF LeaseHeld, Key, others
    <3> QED
      BY <3>1, <3>2
  <2>2. CASE d # c
    <3>1. call'[d] = call[d] /\ call[d] \in Calls /\ SoundCall(call[d])
      BY <1>1, <1>2, <2>2 DEF CacheInv
    <3>2. call[d].rejected <= logins => call[d].rejected <= logins'
      BY <1>1, <3>1 DEF Calls
    <3>3. SoundCall(call[d])'
      BY <3>1, <3>2 DEF SoundCall
    <3> QED
      BY <2>2, <3>3 DEF CacheInv
  <2> QED
    BY <2>1, <2>2
<1> QED
  BY <1>3, <1>4, <1>5, <1>6 DEF CacheInv

\* A call that is over, after it dropped the entry of its version or did not.
LEMMA EndKept ==
    ASSUME CacheInv, UNCHANGED <<room, lock, logins, others>>,
           NEW c \in Callers, End(c), cache' = cache \/ Invalidate(Key(c))
    PROVE  CacheInv'
<1>1. /\ cache \in [Versions -> [token : Tokens, until : Int]]
      /\ lock \in [Versions -> [owner : Callers \cup {"nobody"}, until : Nat]]
      /\ call \in [Callers -> Calls] /\ logins \in Nat
  BY DEF CacheInv, CacheTyped
<1>2. NoEntry \in [token : Tokens, until : Int] /\ NoEntry.until = 0
  BY DEF NoEntry, NoToken, Tokens
<1>3. /\ cache' \in [Versions -> [token : Tokens, until : Int]]
      /\ \A v \in Versions : cache'[v] = cache[v] \/ cache'[v].until = 0
  BY <1>1, <1>2 DEF Invalidate
<1>4. \A v \in Versions : cache'[v] = cache[v] \/ SoundEntry(v)'
  BY <1>3 DEF SoundEntry
<1>5. \A d \in Callers \ {c} : LeaseHeld(d) => LeaseHeld(d)'
  BY <1>1 DEF End, LeaseHeld, Key, others
<1>6. /\ call' = [call EXCEPT ![c] = Idle] /\ lock' = lock
      /\ logins' \in Nat /\ logins' >= logins
  BY <1>1 DEF End
<1> QED
  BY <1>1, <1>3, <1>4, <1>5, <1>6, IdleCall, CallKept

\* The step of a caller that moves on without touching anything but its call.
LEMMA MovesOn ==
    ASSUME CacheInv, UNCHANGED <<room, cache, lock, logins, others>>,
           NEW c \in Callers, NEW k \in Calls, call' = [call EXCEPT ![c] = k],
           SoundCall(k)',
           k.pc \in {"read", "login"} /\ now < k.entered + Lease
               => lock[k.inst.version] = [owner |-> c, until |-> k.entered + Lease]
    PROVE  CacheInv'
<1>1. /\ cache \in [Versions -> [token : Tokens, until : Int]]
      /\ lock \in [Versions -> [owner : Callers \cup {"nobody"}, until : Nat]]
      /\ call \in [Callers -> Calls] /\ logins \in Nat
  BY DEF CacheInv, CacheTyped
<1>2. \A d \in Callers \ {c} : LeaseHeld(d) => LeaseHeld(d)'
  BY <1>1 DEF LeaseHeld, Key, others
<1>3. /\ \A v \in Versions : cache'[v] = cache[v] \/ SoundEntry(v)'
      /\ lock' = lock /\ cache' = cache /\ logins' \in Nat /\ logins' >= logins
  BY <1>1
<1> QED
  BY <1>1, <1>2, <1>3, CallKept

LEMMA BeginKept ==
    ASSUME CacheInv, NEW c \in Callers, NEW forced \in BOOLEAN, Begin(c, forced)
    PROVE  CacheInv'
<1>1. PICK k : k = [call[c] EXCEPT !.pc = "enter", !.inst = room, !.force = forced]
  OBVIOUS
<1>2. call[c] = Idle /\ room \in Rooms /\ call \in [Callers -> Calls]
      /\ room.username \in Usernames /\ (FormsAlone => room.password = room.version)
  BY DEF CacheInv, CacheTyped, PasswordsNumbered, SoundCall, Begin
<1>3. /\ k \in Calls /\ k.pc = "enter" /\ k.inst = room /\ k.attempt = 1
  BY <1>1, <1>2, IdleCall DEF Calls, Idle
<1>4. SoundCall(k)'
  BY <1>2, <1>3 DEF SoundCall
<1>5. call' = [call EXCEPT ![c] = k]
  BY <1>1, <1>2 DEF Begin
<1> QED
  BY <1>3, <1>4, <1>5, MovesOn DEF Begin

\* Whoever finds the lock free finds no lease running.
LEMMA AcquireKept ==
    ASSUME CacheInv, NEW c \in Callers, Acquire(c)
    PROVE  CacheInv'
<1>1. PICK k : k = [call[c] EXCEPT !.pc = "read", !.entered = now]
  OBVIOUS
<1>2. /\ call[c] \in Calls /\ SoundCall(call[c]) /\ call[c].pc = "enter"
      /\ call \in [Callers -> Calls] /\ now \in Nat /\ logins \in Nat /\ Lease \in Nat
      /\ cache \in [Versions -> [token : Tokens, until : Int]]
      /\ lock \in [Versions -> [owner : Callers \cup {"nobody"}, until : Nat]]
  BY TokenConstants DEF CacheInv, CacheTyped, Acquire
<1>3. /\ k \in Calls /\ k.pc = "read" /\ k.inst = call[c].inst /\ k.entered = now
      /\ k.force = call[c].force /\ k.attempt = call[c].attempt
      /\ k.rejected = call[c].rejected
  BY <1>1, <1>2 DEF Calls
<1>4. SoundCall(k)'
  BY <1>2, <1>3 DEF SoundCall, Acquire
<1>5. Key(c) \in Versions /\ k.inst.version = Key(c)
  BY <1>2, <1>3 DEF Key, Calls, Rooms
<1>6. PICK l : l = [owner |-> c, until |-> now + Lease]
  OBVIOUS
<1>7. /\ lock' = [lock EXCEPT ![Key(c)] = l] /\ call' = [call EXCEPT ![c] = k]
      /\ lock[Key(c)].until <= now /\ UNCHANGED <<room, cache, logins, others>>
  BY <1>1, <1>2, <1>6 DEF Acquire, Available
<1>8. /\ lock' \in [Versions -> [owner : Callers \cup {"nobody"}, until : Nat]]
      /\ lock'[Key(c)] = l
  BY <1>2, <1>5, <1>6, <1>7
<1>9. ASSUME NEW d \in Callers \ {c}, LeaseHeld(d) PROVE LeaseHeld(d)'
  <2>1. call'[d] = call[d] /\ call[d] \in Calls /\ Key(d) \in Versions /\ now' = now
    BY <1>2, <1>7 DEF Key, Calls, Rooms, others
  <2>2. CASE Key(d) = Key(c)
    <3>1. ~(call[d].pc \in {"read", "login"} /\ now < call[d].entered + Lease)
      <4>1. call[d].entered \in Nat
        BY <2>1 DEF Calls
      <4> QED
        BY <1>2, <1>7, <1>9, <2>2, <4>1 DEF LeaseHeld
    <3> QED
      BY <2>1, <3>1 DEF LeaseHeld
  <2>3. CASE Key(d) # Key(c)
    <3>1. lock'[Key(d)] = lock[Key(d)] /\ Key(d)' = Key(d)
      BY <1>2, <1>7, <2>1, <2>3 DEF Key
    <3> QED
      BY <1>9, <2>1, <3>1 DEF LeaseHeld
  <2> QED
    BY <2>2, <2>3
<1>10. logins' \in Nat /\ logins' >= logins
  BY <1>2, <1>7
<1> QED
  BY <1>2, <1>3, <1>4, <1>5, <1>6, <1>7, <1>8, <1>9, <1>10, CallKept

LEMMA CacheReadKept ==
    ASSUME CacheInv, NEW c \in Callers, ServeCached(c)
    PROVE  CacheInv'
<1>1. PICK t : t = cache[Key(c)].token
  OBVIOUS
<1>2. PICK k : k = [call[c] EXCEPT !.pc = "release", !.token = t]
  OBVIOUS
<1>3. /\ call[c] \in Calls /\ SoundCall(call[c]) /\ call[c].pc = "read"
      /\ ~call[c].force /\ call \in [Callers -> Calls] /\ now \in Nat
      /\ cache \in [Versions -> [token : Tokens, until : Int]]
  BY DEF CacheInv, CacheTyped, ServeCached
<1>4. Key(c) \in Versions
  BY <1>3 DEF Key, Calls, Rooms
<1>5. t \in Tokens /\ t.username \in Usernames /\ (FormsAlone => t.password = Key(c))
  <2>1. cache[Key(c)].until > 0
    BY <1>3, <1>4 DEF ServeCached, Servable
  <2> QED
    BY <1>1, <1>3, <1>4, <2>1 DEF CacheInv, SoundEntry
<1>6. /\ k \in Calls /\ k.pc = "release" /\ k.inst = call[c].inst /\ k.token = t
      /\ k.force = call[c].force /\ k.attempt = call[c].attempt
      /\ k.rejected = call[c].rejected
  BY <1>2, <1>3, <1>5 DEF Calls
<1>7. SoundCall(k)'
  BY <1>3, <1>5, <1>6 DEF SoundCall, Key
<1> QED
  BY <1>1, <1>2, <1>3, <1>6, <1>7, MovesOn DEF ServeCached

LEMMA LoginKept ==
    ASSUME CacheInv, NEW c \in Callers, Login(c)
    PROVE  CacheInv'
<1>1. PICK k : k = [call[c] EXCEPT !.pc = "login", !.force = FALSE]
  OBVIOUS
<1>2. /\ call[c] \in Calls /\ SoundCall(call[c]) /\ LeaseHeld(c)
      /\ call \in [Callers -> Calls] /\ call[c].pc = "read"
  BY DEF CacheInv, CacheTyped, Login
<1>3. /\ k \in Calls /\ k.pc = "login" /\ k.inst = call[c].inst
      /\ k.attempt = call[c].attempt
      /\ k.rejected = call[c].rejected /\ k.entered = call[c].entered
  <2>1. PICK d : d = [call[c] EXCEPT !.pc = "login"]
    OBVIOUS
  <2>2. /\ d \in Calls /\ d.pc = "login" /\ d.inst = call[c].inst
        /\ d.attempt = call[c].attempt
        /\ d.rejected = call[c].rejected /\ d.entered = call[c].entered
    BY <1>2, <2>1 DEF Calls
  <2>3. k = [d EXCEPT !.force = FALSE]
    BY <1>1, <2>1
  <2> QED
    BY <2>2, <2>3 DEF Calls
<1>4. call' = [call EXCEPT ![c] = k] /\ UNCHANGED <<room, cache, lock, logins, others>>
  BY <1>1, <1>2 DEF Login
<1>5. SoundCall(k)'
  BY <1>2, <1>3, <1>4 DEF SoundCall
<1> QED
  BY <1>2, <1>3, <1>4, <1>5, MovesOn DEF LeaseHeld, Key

LEMMA RefusalKept ==
    ASSUME CacheInv, NEW c \in Callers, LoginRefused(c)
    PROVE  CacheInv'
<1>1. PICK k : k = [call[c] EXCEPT !.pc = "refused"]
  OBVIOUS
<1>2. /\ call[c] \in Calls /\ SoundCall(call[c]) /\ call \in [Callers -> Calls]
      /\ call[c].pc = "login"
  BY DEF CacheInv, CacheTyped, LoginRefused
<1>3. /\ k \in Calls /\ k.pc = "refused" /\ k.inst = call[c].inst
      /\ k.attempt = call[c].attempt /\ k.rejected = call[c].rejected
  BY <1>1, <1>2 DEF Calls
<1>4. call' = [call EXCEPT ![c] = k] /\ UNCHANGED <<room, cache, lock, logins, others>>
  BY <1>1, <1>2 DEF LoginRefused
<1>5. SoundCall(k)'
  BY <1>2, <1>3, <1>4 DEF SoundCall
<1> QED
  BY <1>2, <1>3, <1>4, <1>5, MovesOn

\* A login is later than every rejection.
LEMMA AnswerKept ==
    ASSUME CacheInv, NEW c \in Callers, NEW life \in Lifetimes, LoginAnswered(c, life)
    PROVE  CacheInv'
<1>1. PICK t : t = NewToken(c, life)
  OBVIOUS
<1>2. /\ call[c] \in Calls /\ SoundCall(call[c]) /\ call[c].pc = "login"
      /\ call \in [Callers -> Calls] /\ now \in Nat /\ logins \in Nat
      /\ lock \in [Versions -> [owner : Callers \cup {"nobody"}, until : Nat]]
      /\ cache \in [Versions -> [token : Tokens, until : Int]]
      /\ call[c].rejected \in Nat /\ call[c].inst \in Rooms
  BY DEF CacheInv, CacheTyped, LoginAnswered, Calls
<1>3. /\ t \in Tokens /\ t.username = call[c].inst.username
      /\ t.password = call[c].inst.password /\ t.serial = logins + 1
  <2>1. life = NoExpiry \/ life \in Nat
    BY TokenConstants
  <2>2. (IF life = NoExpiry THEN NoExpiry ELSE now + life) \in Int \cup {NoExpiry}
    BY <1>2, <2>1
  <2>3. logins + 1 \in Nat
    BY <1>2
  <2> QED
    BY <1>1, <1>2, <2>2, <2>3 DEF NewToken, Tokens, Rooms
<1>4. PICK n : n = TimeToLive(t)
  OBVIOUS
<1>5. n \in Int
  BY <1>3, <1>4, TokenConstants, <1>2 DEF TimeToLive, Tokens
<1>6. PICK k : k = IF n > 0 THEN [call[c] EXCEPT !.pc = "store", !.token = t, !.ttl = n]
                            ELSE [call[c] EXCEPT !.pc = "refused"]
  OBVIOUS
<1>7. /\ k \in Calls /\ k.pc \in {"store", "refused"} /\ k.inst = call[c].inst
      /\ k.pc = "store" => k.token = t
      /\ k.force = call[c].force /\ k.attempt = call[c].attempt
      /\ k.rejected = call[c].rejected
  <2>1. CASE n > 0
    BY <1>2, <1>3, <1>5, <1>6, <2>1 DEF Calls
  <2>2. CASE ~(n > 0)
    BY <1>2, <1>6, <2>2 DEF Calls
  <2> QED
    BY <2>1, <2>2
<1>8. /\ call' = [call EXCEPT ![c] = k] /\ logins' = logins + 1
      /\ UNCHANGED <<room, cache, lock, others>>
  <2>1. CASE n > 0
    BY <1>1, <1>2, <1>4, <1>6, <2>1 DEF LoginAnswered
  <2>2. CASE ~(n > 0)
    BY <1>1, <1>2, <1>4, <1>6, <2>2 DEF LoginAnswered
  <2> QED
    BY <2>1, <2>2
<1>9. SoundCall(k)'
  <2>1. k.attempt = 2 => k.rejected <= logins
    BY <1>2, <1>7 DEF SoundCall
  <2>2. k.attempt = 2 => k.rejected <= logins' /\ logins + 1 > k.rejected
    BY <1>2, <1>7, <1>8, <2>1
  <2> QED
    BY <1>2, <1>3, <1>7, <1>8, <2>1, <2>2 DEF SoundCall
<1>10. \A d \in Callers \ {c} : LeaseHeld(d) => LeaseHeld(d)'
  BY <1>2, <1>8 DEF LeaseHeld, Key, others
<1>11. logins' \in Nat /\ logins' >= logins
  BY <1>2, <1>8
<1> QED
  BY <1>2, <1>7, <1>8, <1>9, <1>10, <1>11, CallKept

\* Redis gets the token with the account and password the call has.
LEMMA StoreKept ==
    ASSUME CacheInv, NEW c \in Callers, StoreToken(c)
    PROVE  CacheInv'
<1>1. PICK e : e = [token |-> call[c].token, until |-> now + call[c].ttl]
  OBVIOUS
<1>2. PICK k : k = [call[c] EXCEPT !.pc = "release", !.ttl = 0]
  OBVIOUS
<1>3. /\ call[c] \in Calls /\ SoundCall(call[c]) /\ call[c].pc = "store"
      /\ call \in [Callers -> Calls] /\ now \in Nat /\ logins \in Nat
      /\ cache \in [Versions -> [token : Tokens, until : Int]]
      /\ lock \in [Versions -> [owner : Callers \cup {"nobody"}, until : Nat]]
  BY DEF CacheInv, CacheTyped, StoreToken
<1>4. /\ Key(c) \in Versions /\ call[c].token \in Tokens /\ call[c].ttl \in Int
      /\ Key(c) = call[c].inst.version
  BY <1>3 DEF Key, Calls, Rooms
<1>5. /\ call' = [call EXCEPT ![c] = k] /\ cache' = [cache EXCEPT ![Key(c)] = e]
      /\ UNCHANGED <<room, lock, logins, others>>
  BY <1>1, <1>2, <1>3 DEF StoreToken
<1>6. /\ k \in Calls /\ k.pc = "release" /\ k.inst = call[c].inst
      /\ k.token = call[c].token /\ k.force = call[c].force
      /\ k.attempt = call[c].attempt /\ k.rejected = call[c].rejected
  <2>1. PICK d : d = [call[c] EXCEPT !.pc = "release"]
    OBVIOUS
  <2>2. /\ d \in Calls /\ d.pc = "release" /\ d.inst = call[c].inst
        /\ d.token = call[c].token /\ d.force = call[c].force
        /\ d.attempt = call[c].attempt /\ d.rejected = call[c].rejected
    BY <1>3, <2>1 DEF Calls
  <2>3. k = [d EXCEPT !.ttl = 0]
    BY <1>2, <2>1
  <2> QED
    BY <2>2, <2>3 DEF Calls
<1>7. SoundCall(k)'
  BY <1>3, <1>5, <1>6 DEF SoundCall
<1>8. e \in [token : Tokens, until : Int] /\ e.token = call[c].token
  BY <1>1, <1>3, <1>4
<1>9. cache' \in [Versions -> [token : Tokens, until : Int]]
  BY <1>3, <1>5, <1>8
<1>10. \A v \in Versions : cache'[v] = cache[v] \/ SoundEntry(v)'
  BY <1>3, <1>4, <1>5, <1>8 DEF SoundEntry, SoundCall
<1>11. \A d \in Callers \ {c} : LeaseHeld(d) => LeaseHeld(d)'
  BY <1>3, <1>5 DEF LeaseHeld, Key, others
<1>12. /\ lock' \in [Versions -> [owner : Callers \cup {"nobody"}, until : Nat]]
       /\ logins' \in Nat /\ logins' >= logins
  BY <1>3, <1>5
<1>13. call' = [call EXCEPT ![c] = k] /\ UNCHANGED <<room, others>>
       /\ k.pc \notin {"read", "login"}
  BY <1>5, <1>6
<1> QED
  BY <1>6, <1>7, <1>9, <1>10, <1>11, <1>12, <1>13, CallKept

\* Only the owner of the lock gives it back.
LEMMA ReleaseKept ==
    ASSUME CacheInv, NEW c \in Callers, Release(c)
    PROVE  CacheInv'
<1>1. PICK label \in {"served", "failed"} :
         label = IF call[c].pc = "release" THEN "served" ELSE "failed"
  OBVIOUS
<1>2. PICK k : k = [call[c] EXCEPT !.entered = 0, !.pc = label]
  OBVIOUS
<1>3. /\ call[c] \in Calls /\ SoundCall(call[c])
      /\ call \in [Callers -> Calls] /\ now \in Nat /\ logins \in Nat
      /\ cache \in [Versions -> [token : Tokens, until : Int]]
      /\ lock \in [Versions -> [owner : Callers \cup {"nobody"}, until : Nat]]
  BY DEF CacheInv, CacheTyped
<1>4. Key(c) \in Versions
  BY <1>3 DEF Key, Calls, Rooms
<1>5. /\ call' = [call EXCEPT ![c] = k] /\ lock' = [lock EXCEPT ![Key(c)] = Free]
      /\ lock[Key(c)].owner = c /\ call[c].pc # "idle"
      /\ UNCHANGED <<room, cache, logins, others>>
  BY <1>1, <1>2, <1>3 DEF Release, Holds
<1>6. /\ k \in Calls /\ k.pc = label /\ k.inst = call[c].inst
      /\ k.token = call[c].token /\ k.force = call[c].force
      /\ k.attempt = call[c].attempt /\ k.rejected = call[c].rejected
  <2>1. PICK d : d = [call[c] EXCEPT !.entered = 0]
    OBVIOUS
  <2>2. /\ d \in Calls /\ d.inst = call[c].inst
        /\ d.token = call[c].token /\ d.force = call[c].force
        /\ d.attempt = call[c].attempt /\ d.rejected = call[c].rejected
    BY <1>3, <2>1 DEF Calls
  <2>3. k = [d EXCEPT !.pc = label]
    BY <1>2, <2>1
  <2> QED
    BY <2>2, <2>3 DEF Calls
<1>7. SoundCall(k)'
  BY <1>1, <1>3, <1>5, <1>6 DEF SoundCall
<1>8. Free \in [owner : Callers \cup {"nobody"}, until : Nat]
  BY DEF Free
<1>9. lock' \in [Versions -> [owner : Callers \cup {"nobody"}, until : Nat]]
  BY <1>3, <1>5, <1>8
<1>10. ASSUME NEW d \in Callers \ {c}, LeaseHeld(d) PROVE LeaseHeld(d)'
  <2>1. call'[d] = call[d] /\ call[d] \in Calls /\ Key(d) \in Versions /\ now' = now
    BY <1>3, <1>5 DEF Key, Calls, Rooms, others
  <2>2. CASE Key(d) = Key(c)
    <3>1. ~(call[d].pc \in {"read", "login"} /\ now < call[d].entered + Lease)
      BY <1>5, <1>10, <2>2 DEF LeaseHeld
    <3> QED
      BY <2>1, <3>1 DEF LeaseHeld
  <2>3. CASE Key(d) # Key(c)
    <3>1. lock'[Key(d)] = lock[Key(d)] /\ Key(d)' = Key(d)
      BY <1>3, <1>5, <2>1, <2>3 DEF Key
    <3> QED
      BY <1>10, <2>1, <3>1 DEF LeaseHeld
  <2> QED
    BY <2>2, <2>3
<1>11. /\ cache' = cache /\ logins' \in Nat /\ logins' >= logins
       /\ \A v \in Versions : cache'[v] = cache[v] \/ SoundEntry(v)'
  BY <1>3, <1>5
<1> QED
  BY <1>1, <1>3, <1>5, <1>6, <1>7, <1>9, <1>10, <1>11, CallKept

\* A rejected token leaves the cache before the second attempt begins.
LEMMA RejectedKept ==
    ASSUME CacheInv, NEW c \in Callers, Rejected(c)
    PROVE  CacheInv'
<1>1. PICK k : k = [call[c] EXCEPT !.pc = "enter", !.force = TRUE, !.token = NoToken,
                                   !.attempt = 2, !.rejected = logins]
  OBVIOUS
<1>2. /\ call[c] \in Calls /\ SoundCall(call[c]) /\ call[c].pc = "served"
      /\ call \in [Callers -> Calls] /\ logins \in Nat
      /\ cache \in [Versions -> [token : Tokens, until : Int]]
      /\ lock \in [Versions -> [owner : Callers \cup {"nobody"}, until : Nat]]
  BY DEF CacheInv, CacheTyped, Rejected
<1>3. NoToken \in Tokens
  BY DEF NoToken, Tokens
<1>4. /\ k \in Calls /\ k.pc = "enter" /\ k.inst = call[c].inst /\ k.force
      /\ k.rejected = logins
  BY <1>1, <1>2, <1>3 DEF Calls
<1>5. /\ call' = [call EXCEPT ![c] = k] /\ Invalidate(Key(c))
      /\ UNCHANGED <<room, lock, logins, others>>
  BY <1>1, <1>2 DEF Rejected
<1>6. SoundCall(k)'
  BY <1>2, <1>4, <1>5 DEF SoundCall
<1>7. NoEntry \in [token : Tokens, until : Int] /\ NoEntry.until = 0
  BY <1>3 DEF NoEntry
<1>8. /\ cache' \in [Versions -> [token : Tokens, until : Int]]
      /\ \A v \in Versions : cache'[v] = cache[v] \/ cache'[v].until = 0
  BY <1>2, <1>5, <1>7 DEF Invalidate
<1>9. \A v \in Versions : cache'[v] = cache[v] \/ SoundEntry(v)'
  BY <1>8 DEF SoundEntry
<1>10. \A d \in Callers \ {c} : LeaseHeld(d) => LeaseHeld(d)'
  BY <1>2, <1>5 DEF LeaseHeld, Key, others
<1>11. lock' = lock /\ logins' \in Nat /\ logins' >= logins
  BY <1>2, <1>5
<1> QED
  BY <1>2, <1>4, <1>5, <1>6, <1>8, <1>9, <1>10, <1>11, CallKept

LEMMA GetTokenKept ==
    ASSUME CacheInv, NEW c \in Callers, GetToken(c)
    PROVE  CacheInv'
<1>1. CASE \E forced \in BOOLEAN : Begin(c, forced)
  BY <1>1, BeginKept
<1>2. CASE Acquire(c)
  BY <1>2, AcquireKept
<1>3. CASE ServeCached(c)
  BY <1>3, CacheReadKept
<1>4. CASE Login(c) \/ LoginRefused(c)
  BY <1>4, LoginKept, RefusalKept
<1>5. CASE \E life \in Lifetimes : LoginAnswered(c, life)
  BY <1>5, AnswerKept
<1>6. CASE StoreToken(c)
  BY <1>6, StoreKept
<1>7. CASE Release(c)
  BY <1>7, ReleaseKept
<1>8. CASE Rejected(c)
  BY <1>8, RejectedKept
<1>9. CASE Busy(c) \/ LeaseLost(c) \/ Served(c) \/ Crash(c)
  <2>1. End(c) /\ UNCHANGED <<room, cache, lock, logins, others>>
    BY <1>9 DEF Busy, LeaseLost, Served, Crash
  <2> QED
    BY <2>1, EndKept
<1>10. CASE RejectedAgain(c) \/ Failed(c)
  <2>1. /\ End(c) /\ UNCHANGED <<room, lock, logins, others>>
        /\ cache' = cache \/ Invalidate(Key(c))
    BY <1>10 DEF RejectedAgain, Failed
  <2> QED
    BY <2>1, EndKept
<1> QED
  BY <1>1, <1>2, <1>3, <1>4, <1>5, <1>6, <1>7, <1>8, <1>9, <1>10 DEF GetToken

----------------------------------------------------------------------------
(***************************************************************************)
(* Administration and time                                                 *)
(***************************************************************************)

\* A step that leaves the callers, the cache and the clock alone disturbs only
\* the row and the forms.
LEMMA AdministrationKept ==
    ASSUME CacheInv, UNCHANGED <<now, callers>>,
           room' \in Rooms, room'.username \in Usernames,
           passwords' \in Versions, room'.version <= passwords',
           form' \in [Admins -> [open : BOOLEAN, loaded : Rooms]],
           \A a \in Admins : form'[a].loaded.version <= passwords',
           PasswordsNumbered'
    PROVE  CacheInv'
<1>1. CacheTyped'
  BY DEF CacheInv, CacheTyped, callers
<1>2. \A v \in Versions : SoundEntry(v)'
  BY DEF CacheInv, SoundEntry, callers
<1>3. \A c \in Callers : SoundCall(call[c])'
  BY DEF CacheInv, SoundCall, callers
<1>4. \A c \in Callers : LeaseHeld(c)'
  BY DEF CacheInv, LeaseHeld, Key, callers
<1> QED
  BY <1>1, <1>2, <1>3, <1>4 DEF CacheInv

\* Opening, saving or discarding a form.
LEMMA FormKept ==
    ASSUME CacheInv, UNCHANGED <<now, callers>>,
           NEW a \in Admins, NEW f \in [open : BOOLEAN, loaded : Rooms],
           form' = [form EXCEPT ![a] = f],
           f.loaded.version <= passwords, FormsAlone => f.loaded.password = f.loaded.version,
           room' \in Rooms, room'.username \in Usernames,
           passwords' \in Versions, room'.version <= passwords', passwords <= passwords',
           FormsAlone => room'.version = passwords' /\ room'.password = passwords'
    PROVE  CacheInv'
<1>1. /\ form \in [Admins -> [open : BOOLEAN, loaded : Rooms]] /\ passwords \in Nat
      /\ \A b \in Admins : form[b].loaded.version <= passwords
      /\ FormsAlone => \A b \in Admins : form[b].loaded.password = form[b].loaded.version
  BY DEF CacheInv, CacheTyped, PasswordsNumbered, Versions
<1>2. /\ form' \in [Admins -> [open : BOOLEAN, loaded : Rooms]]
      /\ \A b \in Admins : form'[b] = form[b] \/ form'[b] = f
  BY <1>1
<1>3. \A b \in Admins : form'[b].loaded.version <= passwords
  BY <1>1, <1>2
<1>4. \A b \in Admins : form'[b].loaded.version \in Nat
  BY <1>2 DEF Rooms, Versions
<1>5. \A b \in Admins : form'[b].loaded.version <= passwords'
  BY <1>1, <1>3, <1>4 DEF Versions
<1>6. PasswordsNumbered'
  BY <1>1, <1>2 DEF PasswordsNumbered
<1> QED
  BY <1>2, <1>5, <1>6, AdministrationKept

LEMMA ClosedForm ==
    /\ Closed \in [open : BOOLEAN, loaded : Rooms]
    /\ Closed.loaded.version = 1 /\ Closed.loaded.password = 1
<1>1. 1 \in Versions
  BY TokenConstants DEF Versions
<1> QED
  BY <1>1 DEF Closed, FirstRoom, Rooms

LEMMA SaveKept ==
    ASSUME CacheInv, NEW a \in Admins, NEW u \in Usernames, NEW newPassword \in BOOLEAN,
           NEW active \in BOOLEAN, SaveRoom(a, u, newPassword, active)
    PROVE  CacheInv'
<1>1. PICK r : r = form[a].loaded
  OBVIOUS
<1>2. /\ r \in Rooms /\ room \in Rooms /\ passwords \in Versions
      /\ r.version <= passwords /\ room.version <= passwords
      /\ form \in [Admins -> [open : BOOLEAN, loaded : Rooms]]
      /\ FormsAlone => /\ r = room
                       /\ room.version = passwords /\ room.password = passwords
  BY <1>1 DEF CacheInv, CacheTyped, PasswordsNumbered, SaveRoom
<1>3. PICK s : s = [Saved(r, u, newPassword) EXCEPT !.active = active]
  OBVIOUS
<1>4. /\ room' = s /\ form' = [form EXCEPT ![a] = Closed]
      /\ passwords' = IF newPassword THEN passwords + 1 ELSE passwords
      /\ newPassword => passwords < MaxPasswords
      /\ UNCHANGED <<now, callers>>
  BY <1>1, <1>3 DEF SaveRoom
<1>5. /\ room.version \in Nat /\ passwords \in Nat /\ MaxPasswords \in Nat
      /\ room.version >= 1 /\ passwords >= 1 /\ passwords <= MaxPasswords
      /\ r.version \in Versions /\ r.version \in Nat /\ r.password \in Nat
  BY <1>2, TokenConstants DEF Rooms, Versions
<1>6. /\ passwords' \in Versions /\ passwords <= passwords'
      /\ newPassword => passwords' = passwords + 1
      /\ ~newPassword => passwords' = passwords
  BY <1>4, <1>5 DEF Versions
<1>7. PICK f : f = Closed
  OBVIOUS
<1>8. /\ f \in [open : BOOLEAN, loaded : Rooms] /\ f.loaded.version <= passwords
      /\ f.loaded.password = f.loaded.version /\ form' = [form EXCEPT ![a] = f]
  BY <1>7, <1>4, <1>5, ClosedForm
<1>9. CASE newPassword
  <2>1. /\ passwords < MaxPasswords /\ room.version <= passwords
        /\ room.version + 1 <= passwords + 1
    BY <1>2, <1>4, <1>5, <1>9
  <2>2. room.version + 1 \in Versions
    BY <1>5, <2>1 DEF Versions
  <2>3. PICK p : p = Saved(r, u, newPassword)
    OBVIOUS
  <2>4. p = [r EXCEPT !.username = u, !.password = passwords + 1,
                      !.version = room.version + 1]
    BY <1>9, <2>3 DEF Saved
  <2>5. p \in Rooms /\ p.username = u /\ p.version = room.version + 1
        /\ p.password = passwords + 1
    <3>1. PICK n : n = passwords + 1
      OBVIOUS
    <3>2. PICK m : m = room.version + 1
      OBVIOUS
    <3>3. n \in Nat /\ m \in Versions
      BY <1>5, <2>2, <3>1, <3>2
    <3>4. p = [r EXCEPT !.username = u, !.password = n, !.version = m]
      BY <2>4, <3>1, <3>2
    <3>5. p \in Rooms /\ p.username = u /\ p.version = m /\ p.password = n
      BY <1>2, <3>3, <3>4 DEF Rooms
    <3> QED
      BY <3>1, <3>2, <3>5
  <2>6. s = [p EXCEPT !.active = active]
    BY <1>3, <2>3
  <2>7. s \in Rooms /\ s.username = u /\ s.version = room.version + 1
        /\ s.password = passwords + 1
    BY <2>5, <2>6 DEF Rooms
  <2>8. FormsAlone => s.version = passwords' /\ s.password = passwords'
    BY <1>2, <1>6, <1>9, <2>7
  <2> QED
    BY <1>4, <1>6, <1>9, <1>8, <2>1, <2>7, <2>8, FormKept
<1>10. CASE ~newPassword
  <2>1. PICK p : p = Saved(r, u, newPassword)
    OBVIOUS
  <2>2. p = [r EXCEPT !.username = u]
    BY <1>10, <2>1 DEF Saved
  <2>3. /\ p \in Rooms /\ p.username = u /\ p.version = r.version
        /\ p.password = r.password
    BY <1>2, <2>2 DEF Rooms
  <2>4. s = [p EXCEPT !.active = active]
    BY <1>3, <2>1
  <2>5. /\ s \in Rooms /\ s.username = u /\ s.version = r.version
        /\ s.password = r.password
    BY <2>3, <2>4 DEF Rooms
  <2>6. /\ s.version <= passwords'
        /\ FormsAlone => s.version = passwords' /\ s.password = passwords'
    BY <1>2, <1>6, <1>10, <2>5
  <2> QED
    BY <1>4, <1>6, <1>10, <1>8, <2>5, <2>6, FormKept
<1> QED
  BY <1>9, <1>10

LEMMA AdminKept ==
    ASSUME CacheInv, NEW a \in Admins, Administer(a)
    PROVE  CacheInv'
<1>1. /\ room \in Rooms /\ room.username \in Usernames
      /\ passwords \in Versions /\ room.version <= passwords
      /\ FormsAlone => room.version = passwords /\ room.password = passwords
      /\ form \in [Admins -> [open : BOOLEAN, loaded : Rooms]]
  BY DEF CacheInv, CacheTyped, PasswordsNumbered
<1>2. passwords <= passwords
  BY <1>1 DEF Versions
<1>3. CASE LoadRoom(a)
  <2>1. PICK f : f = [open |-> TRUE, loaded |-> room]
    OBVIOUS
  <2>2. f \in [open : BOOLEAN, loaded : Rooms] /\ f.loaded = room
    BY <1>1, <2>1
  <2>3. /\ form' = [form EXCEPT ![a] = f] /\ room' = room /\ passwords' = passwords
        /\ UNCHANGED <<now, callers>>
    BY <1>3, <2>1 DEF LoadRoom
  <2> QED
    BY <1>1, <1>2, <2>2, <2>3, FormKept
<1>4. CASE DiscardForm(a)
  <2>1. /\ form' = [form EXCEPT ![a] = Closed] /\ room' = room /\ passwords' = passwords
        /\ UNCHANGED <<now, callers>>
    BY <1>4 DEF DiscardForm
  <2>2. PICK f : f = Closed
    OBVIOUS
  <2>3. /\ f \in [open : BOOLEAN, loaded : Rooms] /\ f.loaded.version <= passwords
        /\ f.loaded.password = f.loaded.version
    BY <1>1, <2>2, ClosedForm DEF Versions
  <2> QED
    BY <1>1, <1>2, <2>1, <2>2, <2>3, FormKept
<1>5. CASE \E u \in Usernames, newPassword, active \in BOOLEAN :
              SaveRoom(a, u, newPassword, active)
  BY <1>5, SaveKept
<1> QED
  BY <1>3, <1>4, <1>5 DEF Administer

\* Activation, a booking, or a second that passes.
LEMMA BesidesKept ==
    ASSUME CacheInv, (\E value \in BOOLEAN : SetActive(value)) \/ Book \/ Tick
    PROVE  CacheInv'
<1>1. /\ room \in Rooms /\ room.username \in Usernames
      /\ passwords \in Versions /\ room.version <= passwords
      /\ form \in [Admins -> [open : BOOLEAN, loaded : Rooms]]
      /\ \A a \in Admins : form[a].loaded.version <= passwords
      /\ now \in Nat /\ call \in [Callers -> Calls] /\ Lease \in Nat
  BY TokenConstants DEF CacheInv, CacheTyped
<1>2. CASE \E value \in BOOLEAN : SetActive(value)
  <2>1. PICK value \in BOOLEAN : SetActive(value)
    BY <1>2
  <2>2. /\ room' \in Rooms /\ room'.username = room.username
        /\ room'.version = room.version /\ room'.password = room.password
        /\ UNCHANGED <<now, form, passwords, callers>>
    BY <1>1, <2>1 DEF SetActive, Rooms
  <2>3. PasswordsNumbered'
    BY <2>2 DEF CacheInv, PasswordsNumbered
  <2> QED
    BY <1>1, <2>2, <2>3, AdministrationKept
<1>3. CASE Book
  <2>1. UNCHANGED <<now, room, form, passwords, callers>>
    BY <1>3 DEF Book
  <2>2. PasswordsNumbered'
    BY <2>1 DEF CacheInv, PasswordsNumbered
  <2> QED
    BY <1>1, <2>1, <2>2, AdministrationKept
<1>4. CASE Tick
  <2>1. now' = now + 1 /\ UNCHANGED <<room, form, passwords, callers>>
    BY <1>4 DEF Tick
  <2>2. CacheTyped' /\ PasswordsNumbered'
    BY <1>1, <2>1 DEF CacheInv, CacheTyped, PasswordsNumbered, callers
  <2>3. \A v \in Versions : SoundEntry(v)'
    BY <2>1 DEF CacheInv, SoundEntry, callers
  <2>4. \A c \in Callers : SoundCall(call[c])'
    BY <2>1 DEF CacheInv, SoundCall, callers
  <2>5. ASSUME NEW c \in Callers PROVE LeaseHeld(c)'
    <3>1. call'[c] = call[c] /\ call[c].entered \in Nat /\ lock' = lock
      BY <1>1, <2>1 DEF Calls, callers
    <3>2. now' < call[c].entered + Lease => now < call[c].entered + Lease
      BY <1>1, <2>1, <3>1
    <3>3. LeaseHeld(c)
      BY DEF CacheInv
    <3> QED
      BY <3>1, <3>2, <3>3 DEF LeaseHeld, Key
  <2> QED
    BY <2>1, <2>2, <2>3, <2>4, <2>5 DEF CacheInv
<1> QED
  BY <1>2, <1>3, <1>4

----------------------------------------------------------------------------
(***************************************************************************)
(* The theorems                                                            *)
(***************************************************************************)
LEMMA CacheStep == CacheInv /\ [Next]_vars => CacheInv'
<1> SUFFICES ASSUME CacheInv, [Next]_vars PROVE CacheInv'
  OBVIOUS
<1>1. CASE \E c \in Callers : GetToken(c)
  BY <1>1, GetTokenKept
<1>2. CASE \E a \in Admins : Administer(a)
  BY <1>2, AdminKept
<1>3. CASE (\E value \in BOOLEAN : SetActive(value)) \/ Book \/ Tick
  BY <1>3, BesidesKept
<1>4. CASE UNCHANGED vars
  <2>1. UNCHANGED <<now, room, cache, lock, call, form, passwords, logins>>
    BY <1>4 DEF vars
  <2>2. CacheTyped' /\ PasswordsNumbered'
    BY <2>1 DEF CacheInv, CacheTyped, PasswordsNumbered
  <2>3. \A v \in Versions : SoundEntry(v)'
    BY <2>1 DEF CacheInv, SoundEntry
  <2>4. \A c \in Callers : SoundCall(call[c])' /\ LeaseHeld(c)'
    BY <2>1 DEF CacheInv, SoundCall, LeaseHeld, Key
  <2> QED
    BY <2>1, <2>2, <2>3, <2>4 DEF CacheInv
<1> QED
  BY <1>1, <1>2, <1>3, <1>4 DEF Next

LEMMA CacheInvariant == Spec => []CacheInv
  BY CacheBegins, CacheStep, PTL DEF Spec

\* ServedTokenIsOfTheAccount: while no form is saved over a row it did not load
\* and the account is never renamed, get_token serves a token of the account and
\* password of its caller's Room instance, however the steps interleave.
THEOREM TokensAreOfTheAccount ==
    FormsAlone /\ OneAccount => (Spec => []ServedTokenIsOfTheAccount)
<1> SUFFICES ASSUME FormsAlone, OneAccount PROVE Spec => []ServedTokenIsOfTheAccount
  OBVIOUS
<1>1. ASSUME CacheInv PROVE ServedTokenIsOfTheAccount
  <2> SUFFICES ASSUME NEW c \in Callers, call[c].pc = "served"
               PROVE  /\ call[c].token.username = call[c].inst.username
                      /\ call[c].token.password = call[c].inst.password
    BY DEF ServedTokenIsOfTheAccount
  <2>1. SoundCall(call[c])
    BY <1>1 DEF CacheInv
  <2> QED
    BY <2>1 DEF SoundCall, OneAccount
<1> QED
  BY <1>1, CacheInvariant, PTL

\* RetryUsesNewLogin: after a 401 provision() starts the meeting with a token
\* issued since, because its second get_token is forced past the cache.
THEOREM RetriesLogInAgain == Spec => []RetryUsesNewLogin
<1>1. ASSUME CacheInv PROVE RetryUsesNewLogin
  BY <1>1 DEF CacheInv, SoundCall, RetryUsesNewLogin
<1> QED
  BY <1>1, CacheInvariant, PTL

\* OneLoginPerLease: the lock admits one login per credential version for as long
\* as the lease of 60 seconds runs.
THEOREM LoginsTakeTurns == Spec => []OneLoginPerLease
<1>1. ASSUME CacheInv PROVE OneLoginPerLease
  <2> SUFFICES ASSUME NEW c \in Callers, NEW d \in Callers, c # d,
                      call[c].pc = "login", call[d].pc = "login", Key(c) = Key(d)
               PROVE  now >= call[c].entered + Lease \/ now >= call[d].entered + Lease
    BY DEF OneLoginPerLease
  <2>1. LeaseHeld(c) /\ LeaseHeld(d)
    BY <1>1 DEF CacheInv
  <2>2. now \in Nat /\ call[c].entered \in Nat /\ call[d].entered \in Nat /\ Lease \in Nat
    BY <1>1, TokenConstants DEF CacheInv, CacheTyped, Calls
  <2>3. ~(now < call[c].entered + Lease /\ now < call[d].entered + Lease)
    BY <2>1 DEF LeaseHeld
  <2> QED
    BY <2>2, <2>3
<1> QED
  BY <1>1, CacheInvariant, PTL

\* A step of one caller leaves the calls of the others alone.
LEMMA CallsApart ==
    ASSUME call \in [Callers -> Calls],
           NEW c \in Callers, NEW d \in Callers \ {c}, GetToken(d)
    PROVE  call'[c] = call[c]
<1>1. CASE (\E forced \in BOOLEAN : Begin(d, forced)) \/ Acquire(d) \/ ServeCached(d)
           \/ Login(d) \/ LoginRefused(d) \/ StoreToken(d) \/ Release(d) \/ Rejected(d)
  BY <1>1 DEF Begin, Acquire, ServeCached, Login, LoginRefused, StoreToken, Release,
              Rejected
<1>2. CASE Busy(d) \/ LeaseLost(d) \/ Served(d) \/ RejectedAgain(d) \/ Failed(d) \/ Crash(d)
  BY <1>2 DEF Busy, LeaseLost, Served, RejectedAgain, Failed, Crash, End
<1>3. CASE \E life \in Lifetimes : LoginAnswered(d, life)
  BY <1>3 DEF LoginAnswered
<1> QED
  BY <1>1, <1>2, <1>3 DEF GetToken

----------------------------------------------------------------------------
(***************************************************************************)
(* What is left of a token when it is returned                             *)
(***************************************************************************)

\* Taking the lock or giving it back lets nobody else find itself its owner.
LEMMA LockOfOthers ==
    ASSUME CacheInv, NEW c \in Callers, GetToken(c), NEW d \in Callers \ {c}, Holds(d)'
    PROVE  Holds(d) /\ lock'[Key(d)] = lock[Key(d)]
<1>1. /\ call \in [Callers -> Calls] /\ now \in Nat /\ now' = now
      /\ lock \in [Versions -> [owner : Callers \cup {"nobody"}, until : Nat]]
  BY DEF CacheInv, CacheTyped, GetToken, Begin, Acquire, Busy, ServeCached, Login,
     LoginRefused, LoginAnswered, StoreToken, Release, LeaseLost, Served, Rejected,
     RejectedAgain, Failed, Crash, others
<1>2. call'[d] = call[d] /\ Key(d)' = Key(d)
  BY <1>1, CallsApart DEF Key
<1>3. Key(d) \in Versions
  BY <1>1 DEF Key, Calls, Rooms
<1>4. CASE lock' = lock
  BY <1>1, <1>2, <1>4 DEF Holds
<1>5. CASE lock' # lock
  <2>1. PICK l, v : /\ lock' = [lock EXCEPT ![v] = l]
                    /\ l.owner = c \/ l = Free
    <3>1. CASE Acquire(c)
      <4>1. PICK l : l = [owner |-> c, until |-> now + Lease]
        OBVIOUS
      <4>2. lock' = [lock EXCEPT ![Key(c)] = l] /\ l.owner = c
        BY <3>1, <4>1 DEF Acquire
      <4> QED
        BY <4>2
    <3>2. CASE Release(c)
      BY <3>2 DEF Release
    <3> QED
      BY <1>5, <3>1, <3>2 DEF GetToken, Begin, Busy, ServeCached, Login, LoginRefused,
         LoginAnswered, StoreToken, LeaseLost, Served, Rejected, RejectedAgain, Failed,
         Crash
  <2>2. lock'[Key(d)] = lock[Key(d)] \/ lock'[Key(d)] = l
    BY <1>1, <1>3, <2>1
  <2>3. lock'[Key(d)] # l
    <3>1. lock'[Key(d)].owner = d /\ lock'[Key(d)].until > now
      BY <1>1, <1>2 DEF Holds
    <3>2. ~(Free.until > now)
      BY <1>1 DEF Free
    <3> QED
      BY <2>1, <3>1, <3>2
  <2> QED
    BY <1>1, <1>2, <2>2, <2>3 DEF Holds
<1> QED
  BY <1>4, <1>5

\* A token read from the cache or got by a login is worth more than the skew then.
LEMMA FreshOwn ==
    ASSUME CacheInv, NEW c \in Callers, FreshCall(c), GetToken(c)
    PROVE  FreshCall(c)'
<1>1. /\ call \in [Callers -> Calls] /\ call[c] \in Calls /\ now \in Nat
      /\ Skew \in Nat /\ Lease \in Nat /\ NoExpiry \notin Int
      /\ lock \in [Versions -> [owner : Callers \cup {"nobody"}, until : Nat]]
      /\ cache \in [Versions -> [token : Tokens, until : Int]]
      /\ Key(c) \in Versions /\ call[c].entered \in Nat /\ call[c].token \in Tokens
  BY TokenConstants DEF CacheInv, CacheTyped, Key, Calls, Rooms
<1>2. now' = now
  BY DEF GetToken, Begin, Acquire, Busy, ServeCached, Login, LoginRefused, LoginAnswered,
     StoreToken, Release, LeaseLost, Served, Rejected, RejectedAgain, Failed, Crash, others
<1>3. ASSUME call'[c].pc \notin {"read", "login", "store", "release"}
      PROVE  FreshCall(c)'
  BY <1>3 DEF FreshCall
<1>4. CASE Acquire(c)
  <2>1. PICK k : k = [call[c] EXCEPT !.pc = "read", !.entered = now]
    OBVIOUS
  <2>2. k.pc = "read" /\ k.entered = now /\ k.inst = call[c].inst
    BY <1>1, <2>1 DEF Calls
  <2>3. call'[c] = k /\ lock'[Key(c)].until = now + Lease
    BY <1>1, <1>4, <2>1 DEF Acquire
  <2> QED
    BY <1>1, <1>2, <2>2, <2>3 DEF FreshCall, Key
<1>5. CASE Login(c)
  <2>1. PICK k : k = [call[c] EXCEPT !.pc = "login", !.force = FALSE]
    OBVIOUS
  <2>2. k.pc = "login" /\ k.entered = call[c].entered /\ k.inst = call[c].inst
    BY <1>1, <2>1 DEF Calls
  <2>3. call'[c] = k /\ lock' = lock /\ call[c].pc = "read"
    BY <1>1, <1>5, <2>1 DEF Login
  <2> QED
    BY <1>1, <1>2, <2>2, <2>3 DEF FreshCall, Key, Holds
<1>6. CASE StoreToken(c)
  <2>1. PICK k : k = [call[c] EXCEPT !.pc = "release", !.ttl = 0]
    OBVIOUS
  <2>2. /\ k.pc = "release" /\ k.entered = call[c].entered /\ k.inst = call[c].inst
        /\ k.token = call[c].token
    BY <1>1, <2>1 DEF Calls
  <2>3. call'[c] = k /\ lock' = lock /\ call[c].pc = "store"
    BY <1>1, <1>6, <2>1 DEF StoreToken
  <2> QED
    BY <1>1, <1>2, <2>2, <2>3 DEF FreshCall, Key, Holds
<1>7. CASE ServeCached(c)
  <2>1. PICK t : t = cache[Key(c)].token
    OBVIOUS
  <2>2. PICK k : k = [call[c] EXCEPT !.pc = "release", !.token = t]
    OBVIOUS
  <2>3. /\ k.pc = "release" /\ k.entered = call[c].entered /\ k.inst = call[c].inst
        /\ k.token = t
    BY <1>1, <2>2 DEF Calls
  <2>4. /\ call'[c] = k /\ lock' = lock /\ call[c].pc = "read"
        /\ t.expiry # NoExpiry => t.expiry - now > Skew
    BY <1>1, <1>7, <2>1, <2>2 DEF ServeCached, Servable
  <2>5. t.expiry # NoExpiry => t.expiry > call[c].entered + Skew
    <3>1. t.expiry \in Int \cup {NoExpiry} /\ call[c].entered <= now
      BY <1>1, <2>1, <2>4 DEF Tokens, FreshCall
    <3> QED
      BY <1>1, <2>4, <3>1
  <2> QED
    BY <1>1, <1>2, <2>3, <2>4, <2>5 DEF FreshCall, Key, Holds
<1>8. CASE \E life \in Lifetimes : LoginAnswered(c, life)
  <2>1. PICK life \in Lifetimes : LoginAnswered(c, life)
    BY <1>8
  <2>2. PICK t : t = NewToken(c, life)
    OBVIOUS
  <2>3. PICK n : n = TimeToLive(t)
    OBVIOUS
  <2>4. CASE n > 0
    <3>1. PICK k : k = [call[c] EXCEPT !.pc = "store", !.token = t, !.ttl = n]
      OBVIOUS
    <3>2. /\ k.pc = "store" /\ k.entered = call[c].entered /\ k.inst = call[c].inst
          /\ k.token = t
      BY <1>1, <3>1 DEF Calls
    <3>3. call'[c] = k /\ lock' = lock /\ call[c].pc = "login"
      BY <1>1, <2>1, <2>2, <2>3, <2>4, <3>1 DEF LoginAnswered
    <3>4. t.expiry # NoExpiry => t.expiry > call[c].entered + Skew
      <4>1. t.expiry = IF life = NoExpiry THEN NoExpiry ELSE now + life
        BY <2>2 DEF NewToken
      <4>2. t.expiry # NoExpiry => t.expiry \in Int
        BY <1>1, <4>1, TokenConstants
      <4>3. t.expiry # NoExpiry => t.expiry - now - Skew > 0
        BY <2>3, <2>4 DEF TimeToLive
      <4>4. call[c].entered <= now
        BY <3>3 DEF FreshCall
      <4> QED
        BY <1>1, <4>2, <4>3, <4>4
    <3> QED
      BY <1>1, <1>2, <3>2, <3>3, <3>4 DEF FreshCall, Key, Holds
  <2>5. CASE ~(n > 0)
    <3>1. call'[c].pc = "refused"
      BY <1>1, <2>1, <2>2, <2>3, <2>5 DEF LoginAnswered, Calls
    <3> QED
      BY <1>3, <3>1
  <2> QED
    BY <2>4, <2>5
<1>9. CASE (\E forced \in BOOLEAN : Begin(c, forced)) \/ LoginRefused(c) \/ Rejected(c)
  <2>1. call'[c].pc \in {"enter", "refused"}
    <3>1. CASE \E forced \in BOOLEAN : Begin(c, forced)
      BY <1>1, <3>1 DEF Begin, Calls
    <3>2. CASE LoginRefused(c)
      BY <1>1, <3>2 DEF LoginRefused, Calls
    <3>3. CASE Rejected(c)
      BY <1>1, <3>3 DEF Rejected, Calls
    <3> QED
      BY <1>9, <3>1, <3>2, <3>3
  <2> QED
    BY <1>3, <2>1
<1>10. CASE Release(c)
  <2>1. call'[c].pc \in {"served", "failed"}
    BY <1>1, <1>10 DEF Release, Calls
  <2> QED
    BY <1>3, <2>1
<1>11. CASE Busy(c) \/ LeaseLost(c) \/ Served(c) \/ RejectedAgain(c) \/ Failed(c) \/ Crash(c)
  <2>1. call' = [call EXCEPT ![c] = Idle]
    BY <1>11 DEF Busy, LeaseLost, Served, RejectedAgain, Failed, Crash, End
  <2>2. call'[c].pc = "idle"
    BY <1>1, <2>1, IdleCall
  <2> QED
    BY <1>3, <2>2
<1> QED
  BY <1>4, <1>5, <1>6, <1>7, <1>8, <1>9, <1>10, <1>11 DEF GetToken

\* A step that is no caller's moves no call and no lock, and the clock only on.
LEMMA OutsideCalls ==
    ASSUME CacheInv, [Next]_vars, ~\E c \in Callers : GetToken(c)
    PROVE  UNCHANGED <<call, lock>> /\ now' >= now
<1>1. now \in Nat
  BY DEF CacheInv, CacheTyped
<1>2. CASE \E a \in Admins : Administer(a)
  BY <1>1, <1>2 DEF Administer, LoadRoom, DiscardForm, SaveRoom, callers
<1>3. CASE (\E value \in BOOLEAN : SetActive(value)) \/ Book \/ UNCHANGED vars
  BY <1>1, <1>3 DEF SetActive, Book, callers, vars
<1>4. CASE Tick
  BY <1>1, <1>4 DEF Tick, callers
<1> QED
  BY <1>2, <1>3, <1>4 DEF Next

LEMMA FreshStep == CacheInv /\ FreshCalls /\ [Next]_vars => FreshCalls'
<1> SUFFICES ASSUME CacheInv, FreshCalls, [Next]_vars, NEW d \in Callers
             PROVE  FreshCall(d)'
  BY DEF FreshCalls
<1>1. FreshCall(d) /\ call \in [Callers -> Calls] /\ now \in Nat /\ call[d].entered \in Nat
  BY DEF FreshCalls, CacheInv, CacheTyped, Calls
<1>2. CASE GetToken(d)
  BY <1>1, <1>2, FreshOwn
<1>3. CASE \E c \in Callers \ {d} : GetToken(c)
  <2>1. PICK c \in Callers \ {d} : GetToken(c)
    BY <1>3
  <2>2. call'[d] = call[d] /\ Key(d)' = Key(d)
    BY <1>1, <2>1, CallsApart DEF Key
  <2>3. now' = now
    BY <2>1 DEF GetToken, Begin, Acquire, Busy, ServeCached, Login, LoginRefused,
       LoginAnswered, StoreToken, Release, LeaseLost, Served, Rejected, RejectedAgain,
       Failed, Crash, others
  <2>4. Holds(d)' => Holds(d) /\ lock'[Key(d)] = lock[Key(d)]
    BY <2>1, LockOfOthers
  <2> QED
    BY <1>1, <2>2, <2>3, <2>4 DEF FreshCall
<1>4. CASE ~\E c \in Callers : GetToken(c)
  <2>1. UNCHANGED <<call, lock>> /\ now' >= now
    BY <1>4, OutsideCalls
  <2>2. now' \in Int
    BY <1>1, <1>4 DEF Next, Administer, LoadRoom, DiscardForm, SaveRoom, SetActive, Book,
       Tick, vars
  <2>3. Holds(d)' => Holds(d)
    <3>1. lock[Key(d)].until \in Nat
      BY <1>1 DEF CacheInv, CacheTyped, Key, Calls, Rooms
    <3> QED
      BY <1>1, <2>1, <2>2, <3>1 DEF Holds, Key
  <2> QED
    BY <1>1, <2>1, <2>2, <2>3 DEF FreshCall, Key
<1> QED
  BY <1>2, <1>3, <1>4

LEMMA FreshInvariant == Spec => []FreshCalls
<1>1. Init => FreshCalls
  BY IdleCall DEF Init, FreshCalls, FreshCall
<1> QED
  BY <1>1, CacheInvariant, FreshStep, PTL DEF Spec

\* ReturnedTokenIsValid: whoever gets a token from get_token still held the lock,
\* so less than a lease has passed since the token was worth more than the skew.
THEOREM ReturnedTokensAreValid == Spec => ReturnedTokenIsValid
<1>1. ASSUME CacheInv, FreshCalls, [Next]_vars, NEW c \in Callers,
             call[c].pc = "release", call'[c].pc = "served"
      PROVE  \/ call[c].token.expiry = NoExpiry
             \/ call[c].token.expiry - now > Skew - Lease
  <2>1. /\ call \in [Callers -> Calls] /\ now \in Nat /\ Skew \in Nat /\ Lease \in Nat
        /\ call[c].entered \in Nat /\ call[c].token.expiry \in Int \cup {NoExpiry}
    BY <1>1, TokenConstants DEF CacheInv, CacheTyped, Calls, Tokens
  <2>2. Holds(c)
    <3>1. call'[c] # call[c]
      BY <1>1
    <3>2. GetToken(c)
      BY <1>1, <2>1, <3>1, CallsApart, OutsideCalls
    <3>3. CASE Release(c)
      BY <3>3 DEF Release
    <3>4. CASE (\E forced \in BOOLEAN : Begin(c, forced)) \/ Acquire(c) \/ ServeCached(c)
               \/ Login(c) \/ LoginRefused(c) \/ StoreToken(c) \/ Rejected(c)
               \/ \E life \in Lifetimes : LoginAnswered(c, life)
      BY <1>1, <3>4 DEF Begin, Acquire, ServeCached, Login, LoginRefused, StoreToken,
         Rejected, LoginAnswered
    <3>5. CASE Busy(c) \/ LeaseLost(c) \/ Served(c) \/ RejectedAgain(c) \/ Failed(c)
               \/ Crash(c)
      <4>1. call' = [call EXCEPT ![c] = Idle]
        BY <3>5 DEF Busy, LeaseLost, Served, RejectedAgain, Failed, Crash, End
      <4> QED
        BY <1>1, <2>1, <4>1, IdleCall
    <3> QED
      BY <3>2, <3>3, <3>4, <3>5 DEF GetToken
  <2>3. /\ lock[Key(c)].until > now
        /\ lock[Key(c)].until = call[c].entered + Lease
        /\ call[c].token.expiry # NoExpiry
              => call[c].token.expiry > call[c].entered + Skew
    BY <1>1, <2>2 DEF FreshCalls, FreshCall, Holds
  <2> QED
    BY <2>1, <2>3
<1>2. CacheInv /\ FreshCalls /\ [Next]_vars =>
        [\A c \in Callers :
            call[c].pc = "release" /\ call'[c].pc = "served"
                => \/ call[c].token.expiry = NoExpiry
                   \/ call[c].token.expiry - now > Skew - Lease]_vars
  BY <1>1
<1> QED
  BY <1>2, CacheInvariant, FreshInvariant, PTL DEF Spec, ReturnedTokenIsValid
=============================================================================
