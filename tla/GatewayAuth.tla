---------------------------- MODULE GatewayAuth ----------------------------
(***************************************************************************)
(* Machine authentication of one integration client: the exchange of its   *)
(* secret for a Gateway token, the use of tokens, and its administration   *)
(* (apps/integrations/tokens.py, views.py, models.py, admin.py).           *)
(*                                                                         *)
(* A step is one access to Redis or to the database with the computation   *)
(* that follows it.  A request that is refused changes nothing but the     *)
(* throttling bucket, so refusals after it only end the exchange.          *)
(* last_used_at, which nothing reads, is left out.                         *)
(***************************************************************************)
EXTENDS Integers

CONSTANTS
    Workers,       \* requests served at the same time
    Admins,        \* administrators with a client form open
    Scopes,        \* SCOPES
    Remotes,       \* socket addresses
    TokenTtl,      \* GATEWAY_ACCESS_TOKEN_TTL_SECONDS
    Minute,        \* length of a throttling bucket's minute
    BucketTtl,     \* how long Redis keeps a bucket after its last increment
    MaxExchanges,  \* exchanges allowed per address and minute
    MaxTime, MaxSecrets    \* bounds

ASSUME GatewayAuthConstants ==
    /\ TokenTtl \in Nat \ {0} /\ Minute \in Nat \ {0} /\ BucketTtl \in Nat
    /\ MaxExchanges \in Nat
    /\ MaxTime \in Nat /\ MaxSecrets \in Nat \ {0}

VARIABLES
    now,
    client,    \* the IntegrationClient row
    secrets,   \* secrets generated so far
    tokens,    \* Gateway tokens issued; each remembers the secret it was got for
    work,      \* per worker: the request it serves
    form,      \* per administrator: the row as loaded, and whether one is
    bucket,    \* per address and minute: the counter in Redis
    checked    \* per address and minute: exchanges that were not throttled

vars == <<now, client, secrets, tokens, work, form, bucket, checked>>

----------------------------------------------------------------------------
Minutes == 0..(MaxTime \div Minute)

NewClient == [secret |-> 1, version |-> 1, active |-> TRUE,
              scopes |-> Scopes, allowed |-> Remotes]

NoToken == [ver |-> 0, secret |-> 0, scopes |-> {}, exp |-> 0]

Idle == [pc |-> "idle", secret |-> 0, remote |-> "none", loaded |-> NewClient,
         token |-> NoToken, scopes |-> {}]

Closed == [open |-> FALSE, loaded |-> NewClient]

\* The admin's add view creates the row and rotates its secret in one
\* transaction, so a client starts with its first secret.
Init ==
    /\ now = 0
    /\ client = NewClient
    /\ secrets = 1
    /\ tokens = {}
    /\ work = [w \in Workers |-> Idle]
    /\ form = [a \in Admins |-> Closed]
    /\ bucket = [b \in Remotes \X Minutes |-> [count |-> 0, until |-> 0]]
    /\ checked = [b \in Remotes \X Minutes |-> 0]

administered == <<client, secrets, form>>

----------------------------------------------------------------------------
(***************************************************************************)
(* POST /api/v1/auth/token/                                                *)
(***************************************************************************)
Count(b) == IF bucket[b].until > now THEN bucket[b].count + 1 ELSE 1

\* Defect: one exchange too many.
ThrottledLate(count) == count > MaxExchanges + 1

Throttled(count) == count > MaxExchanges

\* throttle_exchange: INCR and EXPIRE in one transaction.  Counting stops when
\* further exchanges of the minute could only be throttled again.
Exchange(w, remote, secret) ==
    LET b == <<remote, now \div Minute>>
        count == Count(b)
    IN  /\ work[w].pc = "idle"
        /\ count <= MaxExchanges + 1
        /\ bucket' = [bucket EXCEPT ![b] = [count |-> count,
                                            until |-> now + BucketTtl]]
        /\ IF Throttled(count)
           THEN UNCHANGED <<work, checked>>
           ELSE /\ checked' = [checked EXCEPT ![b] = @ + 1]
                /\ work' = [work EXCEPT ![w] = [Idle EXCEPT
                                !.pc = "lookup", !.secret = secret,
                                !.remote = remote]]
        /\ UNCHANGED <<now, tokens, administered>>

Lookup(w) ==
    /\ work[w].pc = "lookup"
    /\ work' = [work EXCEPT ![w].pc = "check", ![w].loaded = client]
    /\ UNCHANGED <<now, tokens, bucket, checked, administered>>

Authentic(w) ==
    LET c == work[w].loaded
    IN  /\ work[w].secret = c.secret
        /\ c.active
        /\ work[w].remote \in c.allowed

\* Defect: the token version is read again after the secret was checked.
IssuedTokenCurrentVersion(w) ==
    [ver |-> client.version, secret |-> work[w].secret,
     scopes |-> work[w].loaded.scopes, exp |-> now + TokenTtl]

\* The claims come from the row the secret was checked against, however long the
\* hashing took.
IssuedToken(w) ==
    [ver |-> work[w].loaded.version, secret |-> work[w].secret,
     scopes |-> work[w].loaded.scopes, exp |-> now + TokenTtl]

Issue(w) ==
    /\ work[w].pc = "check"
    /\ Authentic(w)
    /\ tokens' = tokens \cup {IssuedToken(w)}
    /\ work' = [work EXCEPT ![w] = Idle]
    /\ UNCHANGED <<now, bucket, checked, administered>>

Refuse(w) ==
    /\ work[w].pc = "check"
    /\ ~Authentic(w)
    /\ work' = [work EXCEPT ![w] = Idle]
    /\ UNCHANGED <<now, tokens, bucket, checked, administered>>

(***************************************************************************)
(* Requests with a token                                                   *)
(***************************************************************************)
Accepts(t, remote) ==
    /\ now < t.exp
    /\ client.active
    /\ client.version = t.ver
    /\ remote \in client.allowed

EffectiveScopes(t) == client.scopes \cap t.scopes

Validate(w, t, remote) ==
    /\ work[w].pc = "idle"
    /\ Accepts(t, remote)
    /\ work' = [work EXCEPT ![w] = [Idle EXCEPT
                    !.pc = "serving", !.token = t, !.remote = remote,
                    !.scopes = EffectiveScopes(t)]]
    /\ UNCHANGED <<now, tokens, bucket, checked, administered>>

Finish(w) ==
    /\ work[w].pc = "serving"
    /\ work' = [work EXCEPT ![w] = Idle]
    /\ UNCHANGED <<now, tokens, bucket, checked, administered>>

----------------------------------------------------------------------------
(***************************************************************************)
(* Administration of the client                                            *)
(***************************************************************************)
served == <<tokens, work, bucket, checked>>

\* rotate_secret writes secret_hash and token_version, and nothing else.
Rotated == [client EXCEPT !.secret = secrets + 1, !.version = secrets + 1]

RotateSecret ==
    /\ secrets < MaxSecrets
    /\ client' = Rotated
    /\ secrets' = secrets + 1
    /\ UNCHANGED <<now, form, served>>

LoadClient(a) ==
    /\ ~form[a].open
    /\ form' = [form EXCEPT ![a] = [open |-> TRUE, loaded |-> client]]
    /\ UNCHANGED <<now, client, secrets, served>>

\* The form writes the whole row, secret_hash and token_version as loaded: saved
\* over a rotation it brings the replaced secret back, and with it its tokens.
SaveClient(a, active, scopes, allowed) ==
    /\ form[a].open
    /\ client' = [form[a].loaded EXCEPT !.active = active, !.scopes = scopes,
                                        !.allowed = allowed]
    /\ form' = [form EXCEPT ![a] = Closed]
    /\ UNCHANGED <<now, secrets, served>>

DiscardForm(a) ==
    /\ form[a].open
    /\ form' = [form EXCEPT ![a] = Closed]
    /\ UNCHANGED <<now, client, secrets, served>>

Tick ==
    /\ now < MaxTime
    /\ now' = now + 1
    /\ UNCHANGED <<administered, served>>

----------------------------------------------------------------------------
Serve(w) ==
    \/ \E remote \in Remotes :
          \/ \E secret \in 1..secrets : Exchange(w, remote, secret)
          \/ \E t \in tokens : Validate(w, t, remote)
    \/ Lookup(w) \/ Issue(w) \/ Refuse(w) \/ Finish(w)

Administer(a) ==
    \/ LoadClient(a) \/ DiscardForm(a)
    \/ \E active \in BOOLEAN, scopes \in SUBSET Scopes, allowed \in SUBSET Remotes :
          SaveClient(a, active, scopes, allowed)

Next == \/ \E w \in Workers : Serve(w)
        \/ \E a \in Admins : Administer(a)
        \/ RotateSecret
        \/ Tick

Spec == Init /\ [][Next]_vars

----------------------------------------------------------------------------
(***************************************************************************)
(* Properties                                                              *)
(***************************************************************************)

\* A token that would pass validation was obtained with the secret that is valid
\* now, even if the secret was rotated while the exchange was checking it, and
\* even if a form loaded before the rotation was saved after it.
TokensAreOfTheCurrentSecret ==
    \A t \in tokens : t.ver = client.version => t.secret = client.secret

\* From one address at most MaxExchanges secrets are checked in a minute, however
\* the exchanges are spread over it and over the workers.
ExchangesAreLimited ==
    \A b \in Remotes \X Minutes : checked[b] <= MaxExchanges

----------------------------------------------------------------------------
(***************************************************************************)
(* Inductive invariant, used by the proofs.                                *)
(***************************************************************************)
ClientRows == [secret : Nat, version : Nat, active : BOOLEAN,
               scopes : SUBSET Scopes, allowed : SUBSET Remotes]

TokenRecords == [ver : Nat, secret : Nat, scopes : SUBSET Scopes, exp : Nat]

WorkRecords == [pc : {"idle", "lookup", "check", "serving"}, secret : Nat,
                remote : Remotes \cup {"none"}, loaded : ClientRows,
                token : TokenRecords, scopes : SUBSET Scopes]

GatewayTyped ==
    /\ now \in Nat /\ secrets \in Nat
    /\ client \in ClientRows
    /\ tokens \subseteq TokenRecords
    /\ work \in [Workers -> WorkRecords]
    /\ form \in [Admins -> [open : BOOLEAN, loaded : ClientRows]]
    /\ bucket \in [Remotes \X Minutes -> [count : Nat, until : Nat]]
    /\ checked \in [Remotes \X Minutes -> Nat]

\* Secret and version are only ever written together, from the row itself, from
\* a form or by a rotation; so a copy of the row, however old, pairs them as the
\* row once did, and a token carries a version and the secret it belongs to.
SecretsPaired ==
    /\ client.version = client.secret
    /\ \A a \in Admins : form[a].loaded.version = form[a].loaded.secret
    /\ \A w \in Workers : work[w].loaded.version = work[w].loaded.secret
    /\ \A t \in tokens : t.ver = t.secret

\* Redis keeps a bucket to the end of the minute it counts.
BucketsOutlastTheirMinute == BucketTtl >= Minute

\* A bucket through which an exchange passed is kept to the end of its minute,
\* and has counted every exchange that passed.
BucketsCount ==
    \A b \in Remotes \X Minutes :
        /\ checked[b] <= MaxExchanges
        /\ checked[b] > 0 => /\ (b[2] + 1) * Minute <= bucket[b].until
                             /\ checked[b] <= bucket[b].count

GatewayInv == /\ GatewayTyped
              /\ SecretsPaired
              /\ BucketsOutlastTheirMinute => BucketsCount
=============================================================================
