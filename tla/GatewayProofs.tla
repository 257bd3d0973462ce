----------------------------- MODULE GatewayProofs -----------------------------
(***************************************************************************)
(* Machine authentication, for every number of requests, administrators,   *)
(* addresses and scopes and any durations: what a Gateway token was got    *)
(* for, and how many secrets are tried.                                    *)
(***************************************************************************)
EXTENDS GatewayAuth, TLAPS

\* A point of time lies in the minute it is counted for.
LEMMA InItsMinute ==
    ASSUME NEW t \in Nat
    PROVE  /\ t \div Minute \in Nat
           /\ (t \div Minute) * Minute <= t
           /\ t < (t \div Minute + 1) * Minute
<1>1. Minute \in Nat \ {0}
  BY GatewayAuthConstants
<1> QED
  BY <1>1

LEMMA Beginning == Init => GatewayInv
<1> SUFFICES ASSUME Init PROVE GatewayInv
  OBVIOUS
<1>1. /\ NewClient \in ClientRows /\ NewClient.version = NewClient.secret
      /\ Idle \in WorkRecords /\ Idle.loaded = NewClient
      /\ Closed \in [open : BOOLEAN, loaded : ClientRows] /\ Closed.loaded = NewClient
  BY DEF NewClient, Idle, NoToken, Closed, ClientRows, WorkRecords, TokenRecords
<1>2. GatewayTyped
  BY <1>1 DEF Init, GatewayTyped
<1>3. SecretsPaired
  BY <1>1 DEF Init, SecretsPaired
<1>5. BucketsCount
  BY GatewayAuthConstants DEF Init, BucketsCount
<1> QED
  BY <1>2, <1>3, <1>5 DEF GatewayInv

\* What a request may do to the records of its worker and to the tokens.
LEMMA WorkSteps ==
    ASSUME GatewayTyped, NEW w \in Workers, Serve(w)
    PROVE  /\ UNCHANGED <<now, administered>>
           /\ \E r \in WorkRecords :
                 /\ work' = [work EXCEPT ![w] = r]
                 /\ r.loaded \in {work[w].loaded, client, NewClient}
           /\ \/ tokens' = tokens
              \/ Authentic(w) /\ tokens' = tokens \cup {IssuedToken(w)}
<1>1. work[w] \in WorkRecords /\ work \in [Workers -> WorkRecords] /\ client \in ClientRows
      /\ tokens \subseteq TokenRecords
  BY DEF GatewayTyped
<1>2. Idle \in WorkRecords /\ Idle.loaded = NewClient
  BY DEF Idle, NoToken, NewClient, ClientRows, WorkRecords, TokenRecords
<1>3. ASSUME NEW remote \in Remotes, NEW secret \in 1..secrets, Exchange(w, remote, secret)
      PROVE  \E r \in WorkRecords : /\ work' = [work EXCEPT ![w] = r]
                                    /\ r.loaded \in {work[w].loaded, NewClient}
  <2>1. CASE work' = work
    <3>1. work' = [work EXCEPT ![w] = work[w]]
      BY <1>1, <2>1
    <3> QED
      BY <1>1, <3>1
  <2>2. CASE work' # work
    <3> DEFINE r == [Idle EXCEPT !.pc = "lookup", !.secret = secret, !.remote = remote]
    <3>1. work' = [work EXCEPT ![w] = r]
      BY <1>3, <2>2 DEF Exchange
    <3>2. secret \in Nat
      BY DEF GatewayTyped
    <3>3. r \in WorkRecords /\ r.loaded = NewClient
      BY <1>2, <3>2 DEF WorkRecords
    <3> QED
      BY <3>1, <3>3
  <2> QED
    BY <2>1, <2>2
<1>4. ASSUME NEW remote \in Remotes, NEW t \in tokens, Validate(w, t, remote)
      PROVE  \E r \in WorkRecords : work' = [work EXCEPT ![w] = r] /\ r.loaded = NewClient
  <2> DEFINE r == [Idle EXCEPT !.pc = "serving", !.token = t, !.remote = remote,
                               !.scopes = EffectiveScopes(t)]
  <2>1. work' = [work EXCEPT ![w] = r]
    BY <1>4 DEF Validate
  <2>2. t \in TokenRecords /\ EffectiveScopes(t) \in SUBSET Scopes
    BY <1>1 DEF EffectiveScopes, TokenRecords
  <2>3. r \in WorkRecords /\ r.loaded = NewClient
    BY <1>2, <2>2 DEF WorkRecords
  <2> QED
    BY <2>1, <2>3
<1>5. ASSUME Lookup(w)
      PROVE  \E r \in WorkRecords : work' = [work EXCEPT ![w] = r] /\ r.loaded = client
  <2> DEFINE r == [work[w] EXCEPT !.pc = "check", !.loaded = client]
  <2>1. work' = [work EXCEPT ![w] = r]
    BY <1>5 DEF Lookup
  <2>2. r \in WorkRecords /\ r.loaded = client
    BY <1>1 DEF WorkRecords
  <2> QED
    BY <2>1, <2>2
<1>6. CASE Issue(w) \/ Refuse(w) \/ Finish(w)
  BY <1>2, <1>6 DEF Issue, Refuse, Finish, administered
<1>7. CASE \/ \E remote \in Remotes, secret \in 1..secrets : Exchange(w, remote, secret)
           \/ \E remote \in Remotes, t \in tokens : Validate(w, t, remote)
           \/ Lookup(w)
  <2>1. UNCHANGED <<now, administered, tokens>>
    BY <1>7 DEF Exchange, Validate, Lookup, administered
  <2> QED
    BY <1>3, <1>4, <1>5, <1>7, <2>1
<1> QED
  BY <1>6, <1>7 DEF Serve

\* The token issued is of the version and the secret its worker read together.
LEMMA ServeSecrets ==
    ASSUME GatewayTyped, SecretsPaired, NEW w \in Workers, Serve(w)
    PROVE  SecretsPaired' /\ work' \in [Workers -> WorkRecords]
           /\ tokens' \subseteq TokenRecords
<1>1. PICK r \in WorkRecords : /\ work' = [work EXCEPT ![w] = r]
                               /\ r.loaded \in {work[w].loaded, client, NewClient}
  BY WorkSteps
<1>2. client' = client /\ form' = form
  BY WorkSteps DEF administered
<1>3. work \in [Workers -> WorkRecords] /\ tokens \subseteq TokenRecords /\ now \in Nat
  BY DEF GatewayTyped
<1>4. r.loaded.version = r.loaded.secret
  BY <1>1 DEF SecretsPaired, NewClient
<1>5. \A v \in Workers : work'[v].loaded.version = work'[v].loaded.secret
  BY <1>1, <1>3, <1>4 DEF SecretsPaired
<1>6. work' \in [Workers -> WorkRecords]
  BY <1>1, <1>3
<1>7. ASSUME Authentic(w)
      PROVE  IssuedToken(w) \in TokenRecords /\ IssuedToken(w).ver = IssuedToken(w).secret
  <2>1. work[w] \in WorkRecords /\ work[w].loaded \in ClientRows
    BY <1>3 DEF WorkRecords
  <2>2. TokenTtl \in Nat
    BY GatewayAuthConstants
  <2> QED
    BY <1>3, <1>7, <2>1, <2>2
    DEF Authentic, IssuedToken, SecretsPaired, TokenRecords, WorkRecords, ClientRows
<1>8. \A t \in tokens' : t.ver = t.secret /\ t \in TokenRecords
  BY <1>3, <1>7, WorkSteps DEF SecretsPaired
<1> QED
  BY <1>2, <1>5, <1>6, <1>8 DEF SecretsPaired

\* A bucket that let an exchange of this minute pass is still there, so the next
\* one is counted on top of it.
LEMMA ServeBuckets ==
    ASSUME GatewayTyped, BucketsOutlastTheirMinute => BucketsCount,
           NEW w \in Workers, Serve(w)
    PROVE  /\ bucket' \in [Remotes \X Minutes -> [count : Nat, until : Nat]]
           /\ checked' \in [Remotes \X Minutes -> Nat]
           /\ BucketsOutlastTheirMinute => BucketsCount'
<1>1. CASE bucket' = bucket /\ checked' = checked
  BY <1>1 DEF GatewayTyped, BucketsCount
<1>2. CASE ~(bucket' = bucket /\ checked' = checked)
  <2>1. PICK remote \in Remotes, secret \in 1..secrets : Exchange(w, remote, secret)
    BY <1>2 DEF Serve, Validate, Lookup, Issue, Refuse, Finish
  <2>2. PICK k : k = now \div Minute
    OBVIOUS
  <2>3. PICK b : b = <<remote, k>>
    OBVIOUS
  <2>4. PICK n : n = Count(b)
    OBVIOUS
  <2>5. PICK e : e = [count |-> n, until |-> now + BucketTtl]
    OBVIOUS
  <2>6. /\ bucket' = [bucket EXCEPT ![b] = e]
        /\ \/ checked' = checked
           \/ ~(n > MaxExchanges) /\ checked' = [checked EXCEPT ![b] = @ + 1]
    BY <2>1, <2>2, <2>3, <2>4, <2>5 DEF Exchange, Throttled
  <2>7. b \in Remotes \X Minutes
    BY <1>2, <2>6 DEF GatewayTyped
  <2>8. /\ now \in Nat /\ BucketTtl \in Nat /\ MaxExchanges \in Nat /\ Minute \in Nat
        /\ bucket[b] \in [count : Nat, until : Nat] /\ checked[b] \in Nat
        /\ k \in Nat /\ b[2] = k
    BY <2>2, <2>3, <2>7, GatewayAuthConstants, InItsMinute DEF GatewayTyped
  <2>9. n \in Nat \ {0} /\ (bucket[b].until > now => n = bucket[b].count + 1)
    BY <2>4, <2>8 DEF Count
  <2>10. e \in [count : Nat, until : Nat] /\ e.count = n /\ e.until = now + BucketTtl
    BY <2>5, <2>8, <2>9
  <2>11. /\ bucket' \in [Remotes \X Minutes -> [count : Nat, until : Nat]]
         /\ checked' \in [Remotes \X Minutes -> Nat]
         /\ bucket'[b] = e /\ checked'[b] \in {checked[b], checked[b] + 1}
         /\ checked'[b] = checked[b] + 1 => n <= MaxExchanges
         /\ \A d \in (Remotes \X Minutes) \ {b} :
               bucket'[d] = bucket[d] /\ checked'[d] = checked[d]
    BY <2>6, <2>7, <2>8, <2>9, <2>10 DEF GatewayTyped
  <2>12. ASSUME BucketsOutlastTheirMinute PROVE BucketsCount'
    <3>1. /\ checked[b] <= MaxExchanges
          /\ checked[b] > 0 => /\ (k + 1) * Minute <= bucket[b].until
                               /\ checked[b] <= bucket[b].count
      BY <2>7, <2>8, <2>12 DEF BucketsCount
    <3>2. now < (k + 1) * Minute /\ (k + 1) * Minute <= now + BucketTtl
      <4>1. k * Minute <= now /\ now < (k + 1) * Minute
        BY <2>2, <2>8, InItsMinute
      <4>2. Minute <= BucketTtl
        BY <2>8, <2>12 DEF BucketsOutlastTheirMinute
      <4>3. (k + 1) * Minute = k * Minute + Minute /\ k * Minute \in Nat
        BY <2>8
      <4> QED
        BY <2>8, <4>1, <4>2, <4>3
    <3>3. checked[b] < n
      <4>1. PICK end : end = (k + 1) * Minute
        OBVIOUS
      <4>2. end \in Nat
        BY <2>8, <4>1
      <4> QED
        BY <2>8, <2>9, <3>1, <3>2, <4>1, <4>2
    <3>4. checked'[b] <= MaxExchanges /\ checked'[b] <= e.count
      BY <2>8, <2>9, <2>10, <2>11, <3>1, <3>3
    <3>5. (b[2] + 1) * Minute <= e.until
      BY <2>8, <2>10, <3>2
    <3> QED
      BY <2>11, <2>12, <3>4, <3>5 DEF BucketsCount
  <2> QED
    BY <2>11, <2>12
<1> QED
  BY <1>1, <1>2

LEMMA ServeStep ==
    ASSUME GatewayInv, NEW w \in Workers, Serve(w)
    PROVE  GatewayInv'
<1>1. UNCHANGED <<now, client, secrets, form>>
  BY WorkSteps DEF GatewayInv, administered
<1>2. SecretsPaired' /\ work' \in [Workers -> WorkRecords] /\ tokens' \subseteq TokenRecords
  BY ServeSecrets DEF GatewayInv
<1>3. /\ bucket' \in [Remotes \X Minutes -> [count : Nat, until : Nat]]
      /\ checked' \in [Remotes \X Minutes -> Nat]
      /\ BucketsOutlastTheirMinute => BucketsCount'
  BY ServeBuckets DEF GatewayInv
<1>4. GatewayTyped'
  BY <1>1, <1>2, <1>3 DEF GatewayTyped, GatewayInv
<1> QED
  BY <1>2, <1>3, <1>4 DEF GatewayInv, BucketsOutlastTheirMinute

\* Nothing an administrator does touches tokens, requests or buckets; it must
\* leave every copy of the row a row that was.
LEMMA AdministeredKept ==
    ASSUME GatewayInv, UNCHANGED <<now, tokens, work, bucket, checked>>,
           secrets' \in Nat, client' \in ClientRows, client'.version = client'.secret,
           form' \in [Admins -> [open : BOOLEAN, loaded : ClientRows]],
           \A a \in Admins : form'[a].loaded.version = form'[a].loaded.secret
    PROVE  GatewayInv'
  BY DEF GatewayInv, GatewayTyped, SecretsPaired, BucketsOutlastTheirMinute, BucketsCount

LEMMA RotationStep ==
    ASSUME GatewayInv, RotateSecret
    PROVE  GatewayInv'
<1>1. /\ client \in ClientRows /\ secrets \in Nat
      /\ form \in [Admins -> [open : BOOLEAN, loaded : ClientRows]]
      /\ \A a \in Admins : form[a].loaded.version = form[a].loaded.secret
  BY DEF GatewayInv, GatewayTyped, SecretsPaired
<1>2. PICK n : n = secrets + 1
  OBVIOUS
<1>3. n \in Nat
  BY <1>1, <1>2
<1>4. client' \in ClientRows /\ client'.version = n /\ client'.secret = n
  BY <1>1, <1>2, <1>3 DEF RotateSecret, Rotated, ClientRows
<1>5. UNCHANGED <<now, tokens, work, bucket, checked, form>> /\ secrets' = n
  BY <1>2 DEF RotateSecret, served
<1> QED
  BY <1>1, <1>3, <1>4, <1>5, AdministeredKept

LEMMA FormStep ==
    ASSUME GatewayInv, NEW a \in Admins, Administer(a)
    PROVE  GatewayInv'
<1>1. /\ client \in ClientRows /\ client.version = client.secret /\ secrets \in Nat
      /\ form \in [Admins -> [open : BOOLEAN, loaded : ClientRows]]
      /\ \A b \in Admins : form[b].loaded.version = form[b].loaded.secret
  BY DEF GatewayInv, GatewayTyped, SecretsPaired
<1>2. UNCHANGED <<now, tokens, work, bucket, checked, secrets>>
  BY DEF Administer, LoadClient, DiscardForm, SaveClient, served
<1>3. /\ form' \in [Admins -> [open : BOOLEAN, loaded : ClientRows]]
      /\ \A b \in Admins : form'[b].loaded.version = form'[b].loaded.secret
  <2>1. PICK f : /\ form' = [form EXCEPT ![a] = f]
                 /\ \/ f = [open |-> TRUE, loaded |-> client]
                    \/ f = Closed
    BY DEF Administer, LoadClient, DiscardForm, SaveClient
  <2>2. f \in [open : BOOLEAN, loaded : ClientRows] /\ f.loaded.version = f.loaded.secret
    <3>1. NewClient \in ClientRows /\ NewClient.version = NewClient.secret
      BY DEF NewClient, ClientRows
    <3>2. CASE f = [open |-> TRUE, loaded |-> client]
      BY <1>1, <3>2
    <3>3. CASE f = Closed
      BY <3>1, <3>3 DEF Closed
    <3> QED
      BY <2>1, <3>2, <3>3
  <2> QED
    BY <1>1, <2>1, <2>2
<1>4. client' \in ClientRows /\ client'.version = client'.secret
  <2>1. CASE client' = client
    BY <1>1, <2>1
  <2>2. CASE client' # client
    <3>1. PICK active \in BOOLEAN, scopes \in SUBSET Scopes, allowed \in SUBSET Remotes :
             SaveClient(a, active, scopes, allowed)
      BY <2>2 DEF Administer, LoadClient, DiscardForm
    <3>2. PICK c : c = form[a].loaded
      OBVIOUS
    <3>3. c \in ClientRows /\ c.version = c.secret
      BY <1>1, <3>2
    <3>4. client' = [c EXCEPT !.active = active, !.scopes = scopes, !.allowed = allowed]
      BY <3>1, <3>2 DEF SaveClient
    <3> QED
      BY <3>3, <3>4 DEF ClientRows
  <2> QED
    BY <2>1, <2>2
<1> QED
  BY <1>1, <1>2, <1>3, <1>4, AdministeredKept

LEMMA GatewayStep == GatewayInv /\ [Next]_vars => GatewayInv'
<1>1. ASSUME GatewayInv, Tick PROVE GatewayInv'
  <2>1. now' \in Nat
    BY <1>1 DEF GatewayInv, GatewayTyped, Tick
  <2> QED
    BY <1>1, <2>1 DEF Tick, administered, served, GatewayInv, GatewayTyped, SecretsPaired,
       BucketsOutlastTheirMinute, BucketsCount
<1>2. ASSUME GatewayInv, UNCHANGED vars PROVE GatewayInv'
  BY <1>2 DEF vars, GatewayInv, GatewayTyped, SecretsPaired,
     BucketsOutlastTheirMinute, BucketsCount
<1> QED
  BY <1>1, <1>2, ServeStep, RotationStep, FormStep DEF Next

LEMMA GatewayInvariant == Spec => []GatewayInv
<1> QED
  BY Beginning, GatewayStep, PTL DEF Spec

\* A token that would pass validation was obtained with the secret that is valid
\* now, even if the secret was rotated while the exchange was checking it, and
\* even if a form loaded before the rotation was saved after it.
THEOREM TokensBelongToTheSecret == Spec => []TokensAreOfTheCurrentSecret
<1>1. GatewayInv => TokensAreOfTheCurrentSecret
  BY DEF GatewayInv, SecretsPaired, TokensAreOfTheCurrentSecret
<1> QED
  BY <1>1, GatewayInvariant, PTL

\* From one address at most MaxExchanges secrets are checked in a minute, however
\* the exchanges are spread over it and over the workers, as Redis keeps a
\* bucket no shorter than the minute it counts.
THEOREM ExchangesPerMinute ==
    BucketsOutlastTheirMinute => (Spec => []ExchangesAreLimited)
<1> SUFFICES ASSUME BucketsOutlastTheirMinute PROVE Spec => []ExchangesAreLimited
  OBVIOUS
<1>1. GatewayInv => ExchangesAreLimited
  BY DEF GatewayInv, BucketsCount, ExchangesAreLimited
<1> QED
  BY <1>1, GatewayInvariant, PTL
=============================================================================
