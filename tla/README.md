# Meeting Gateway: TLA+ specifications, model checking and proofs

The Meeting Gateway is a Django service between an LMS and the Convay meeting
provider. The LMS asks for the meeting of a class; the gateway reserves a room
(a Convay account), logs it in, starts an instant meeting and answers with the
start URL. It may not create two meetings for a class, book a room twice,
release a room under a running meeting, or hand out a token of the wrong
account, whatever requests, crashes, timeouts, administrators and the provider
do. This directory models that, checks it with TLC on small instances, and
proves with TLAPS, for every instance, its safety and action properties and
that it implements an abstract specification of a class meeting.

Paths below are relative to the repository's root.

## 1. The system

| Component | State | Operations | Talks to | Must hold |
|---|---|---|---|---|
| Meeting provisioning (`apps/meetings/services.py`, `views.py`) | `meetings` rows: status, times, room, reservation, payload, provider fields | `register`, `provision`, `cancel`, `POST /meetings/` | row and room locks, Convay client, token cache | one provider meeting per class, immutable request, final outcomes |
| Room allocation (`apps/rooms/services.py`) | reservations in `meetings`, rooms, presets | `reserve_specific_room`, `allocate_any_room`, `capacity_error` | called inside provisioning's first transaction | no overlapping reservations in a room; provider limit |
| Convay client (`apps/convay/client.py`) | none | `authenticate`, `start_meeting` | HTTP | the class of each exchange: released, retryable, unknown |
| Account tokens (`apps/convay/tokens.py`) | Redis entry and lock per room and credential version | `get_token`, `invalidate` | Convay client, Room row | tokens of the right account, outside the skew |
| Stale-row task (`apps/meetings/tasks.py`) | none | `flag_stale_provisioning` | `meetings`, skipping locked rows | no row stays PROVISIONING |
| Meeting administration (`apps/meetings/admin.py`) | a loaded form | recovery form, `confirm_provider_ended` | `meetings` | never disturbs a creation that is going on |
| Room, preset and client administration (`apps/rooms/admin.py`, `apps/integrations/admin.py`) | loaded forms | save, activate, rotate | rooms, presets, clients | credentials and secrets only move forward |
| Machine authentication (`apps/integrations/tokens.py`, `views.py`) | clients, JWTs, Redis counters | throttled exchange, validation, rotation | every API request | tokens die with their secret, scopes are not widened |
| Availability (`apps/rooms/services.py`, `views.py`) | the query being served | `GET /rooms/availability/` | rooms, presets, `meetings`, without locks | an answer that was true |
| Presets (`apps/rooms/configuration.py`, `rooms/admin.py`) | presets, the client's choice, the room's configuration | save, delete, choose, `resolve_config` | read by allocation, row by row | the payload is a configuration that was in force |
| Audit log (`apps/audit`) | log rows | `audit()` in the transactions of the others | | the log tells what happened to the row |
| Migration 0004 | the schema, renamed duplicates | `preserve_historical_duplicates`, the unique constraint | requests served meanwhile, PostgreSQL's locks | the row that names a Convay meeting keeps the class |
| Search, diagnostics, health, middleware, encryption, `bootstrap_roles` | none that others read | | | not modelled (section 7) |

What is hard here:

- **Interleaving.** gunicorn runs four workers; requests for the same class, and
  for different classes on the same room, run at once. `register` compares
  without a lock; `provision` is two transactions with two HTTP exchanges
  between them, during which nothing is locked.
- **An unreliable provider.** A request may be executed although its connection
  broke; there is no query to find out.
- **Crashes** between the committed claim and the stored outcome.
- **Reconciliation.** A Beat task and operators change rows that a request still
  works on. Admin forms write whole rows as they were loaded.
- **Reads in pieces.** Availability and the configuration of a payload are read
  query by query, in READ COMMITTED, while others write.
- **Leases and expiry** in Redis: a lock that ends before its holder, an entry
  whose lifetime starts later than computed.

`PROJECT.json` lists every hazard at its line with the properties about it.

## 2. Modules

| Module | Models | Extends |
|---|---|---|
| `ConvayClient` | `_post`, `_parse_meeting`, `normalize_auth`: operators from an exchange to an outcome (success, or an error code with `known`, `retryable`, `ambiguous`) | Integers |
| `Provisioning` | the life of a meeting row: requests, allocation, transmission, outcome paths, provider, task, operators, crashes | `ConvayClient` |
| `ClassMeetings` | the abstract specification: what creating the meeting of a class promises | Integers |
| `ProvisioningRefinement` | the refinement mapping from `Provisioning` to `ClassMeetings` | `Provisioning` |
| `MeetingAdminForm` | the admin change form: load, clean and save as separate steps | `Provisioning` |
| `Availability` | an availability query beside everything in `Provisioning` | `ProvisioningRefinement` |
| `AuditTrail` | the audit records of meetings beside everything in `Provisioning` | `ProvisioningRefinement` |
| `PresetConfig` | validation and merging of configurations, presets edited during an allocation | |
| `ClassMigration` | migration 0004 beside `register` and `provision` | |
| `TokenCache` | the tokens of one room, its form and activation | |
| `GatewayAuth` | one API client: exchange, tokens, validation, rotation, form | |
| `MCProvisioning`, `MCAdminForm`, `MCAvailability`, `MCAuditTrail`, `MCPresetConfig`, `MCClassMigration`, `MCTokenCache`, `MCGatewayAuth` | values for TLC | the above |
| `ProvisioningProofs` | proofs: types, at most one meeting, reservations | `Provisioning`, `TLAPS` |
| `OutcomeProofs` | proofs: what rows and answers say, what never changes | `ProvisioningProofs` |
| `PromiseProofs` | proof of the refinement | `ProvisioningRefinement`, `OutcomeProofs` |
| `CompanionProofs` | proofs: audit log, admin form, availability query | `AuditTrail`, `MeetingAdminForm`, `Availability`, `PromiseProofs` |
| `GatewayProofs`, `TokenProofs`, `PresetProofs`, `MigrationProofs` | proofs | `GatewayAuth`, `TokenCache`, `PresetConfig`, `ClassMigration`, each with `TLAPS` |

### State and code

`Provisioning`:

- `row[m]` is the `meetings` row of class `m`. `ABSENT` means there is none.
  `info` stands for all class data that `register` compares (title, teacher, …),
  `date` for `class_date`, `slot` for the start and end, `reservation` for the
  reserved range, `active` for `reservation_active`, `calendar` for
  `calendar_id` (0: none), `url` for a stored start URL.
- `offer[r]` is what a room gives to allocation: the resolved payload, or the
  reason it has none (`inactive`; `unusable`, when its configuration is
  incomplete or its preset invalid).
- `pc[w]`, `job[w]` are a web request and its local variables.
  `claim` is the wait for the row lock, `alloc` the allocation loop inside the
  first transaction, `auth` after it committed, `sent` with a transmission on its
  way, `error` and `save` before the second transaction, `token` the `get_token`
  of a replay.
- `created`, `live`, `orphans` are Convay's side: how many meetings were created
  for a class, which of them run, and how many transmissions may still be
  executed although nobody waits for them.

A step is a transaction, an exchange, or an iteration of the allocation loop.
The loop has its own steps because other requests commit in between; the row
lock is held through it (`Locked`).

| Action | Code |
|---|---|
| `RegisterNew`, `RegisterExisting`, `RegisterMismatch` | `register()` |
| `ClaimReplay`, `ClaimRefused`, `ClaimResume`, `ClaimAllocate` | `provision()` under the row lock, up to the room |
| `ReserveRoom`, `SkipRoom`, `PresetWithdrawn`, `NoCapacity` | `allocate_any_room`, `reserve_specific_room`, payload resolution and the commit of PROVISIONING |
| `AuthFails`, `Transmit` | `get_token` and the call of `start_meeting` |
| `ReceiveResult`, `ReceiveUnauthorized`, `ReceiveError` | its answer; the single re-authentication after a 401 |
| `RecordError`, `RecordErrorFails` | the `except ProviderError` transaction, and its failure to store |
| `SaveResult`, `LateResponse` | the transaction that stores the result, and the one that finds another status |
| `ReplayAnswered`, `ReplayTokenFails`, `NextRequest` | the view's answer |
| `Abort` | the process dies, or an unexpected exception |
| `ProviderCreates`, `OrphanCreates`, `OrphanDropped`, `ProviderEnds` | Convay |
| `FlagStale` | `flag_stale_provisioning` (`skip_locked`) |
| `ConfirmProviderEnded`, `Recover` | Admin |
| `Cancel` | `cancel()`, which has no public caller (README.md:77) but is part of the service |
| `ConfigureRoom` | any change of rooms, presets and credentials, as allocation sees it |

`TokenCache` has one action per Redis access or exchange of `get_token`, the
three ways its callers go on (`Served`, `Rejected`, `Failed`), and the room's
form. Callers work on the `Room` instance they loaded, so a rotation in between
leaves them with the old password *and* the old cache key. `GatewayAuth`
separates the throttle, the lookup of the client and the check of the secret,
because the hashing between them is slow enough for a rotation.

`ClassMeetings` is what an LMS and the operators may rely on, without requests,
locks, rows or retries. A class is new, being tried, waiting for another try, ready
or closed; it holds a booking (a room for a buffered time) or none; of the provider
it is known whether a transmission may still create a meeting, how many were made,
and whether one runs. `Book` needs a booking that clashes with no other, `Ask` needs
that nothing was or may be made, a retry keeps the booking, and a booking is given
back only when nothing was made or what was made is over. `ProvisioningRefinement`
maps statuses to phases (RESERVED, PROVISIONING and the two statuses an operator has
to look at are all "being tried"), `reservation_active` with room and range to the
booking, and transmissions whose outcome is open to `pending`. Registration, claims
that are refused, rooms that are skipped, answers, crashes and the stale-row task
become stutters. The mapping holds when operators reconcile a row only after the
request that creates its meeting has finished (`OperatorsWait`, `Settled`), which
docs/architecture.md:45 asks of them, and no more: a transmission that request gave up
may still be executed afterwards, which nobody can observe, so `Close` is allowed
while one is pending. Without the wait a request reports to a row that was closed
behind its back, and `OneRoom` shows what still holds then.

`Availability` and `AuditTrail` add variables to `Provisioning` and join its
actions. An availability query is a step per SQL query; `Observed` keeps, for the
property alone, the answers that were true while it ran. `AuditTrail` conjoins to
each action the record its transaction inserts, and none where the transaction is
rolled back; a request for a Convay token (`MeetingTokenView`), which reads the row
once and may be refused much later, inserts the same `provider_error` as a failed
provisioning. `PresetConfig` follows one allocation, which reads the system default,
the client's preset and the room's configuration in separate steps, twice; the second
time only the default is read again, because Django keeps the preset with the client
instance. `ClassMigration` follows the rows of one class: the migration is one
transaction, whose renames others see when it commits, whose row locks they wait for,
and whose ALTER TABLE waits for them. The old rows have any status and, independently, any
reservation column; what the 8 digits of a row's key and the cut to 160 characters make
of its name is a parameter, `NewName`, and two names may clash.

## 3. Runs

| Run | Question | Instance | Result |
|---|---|---|---|
| `OneClass` | Does one row stay consistent with its request, the provider and its own history? | 1 class, 3 requests in flight, other class data and other dates, ten kinds of answer, bad logins, 2 payloads, room deactivation, old FAILED rows | `TypeOK`, `ReadyIsUsable`, `AnswerMatchesRequest`, `ClassOnItsDate`, `TerminalIsFinal`, `RetryKeepsSnapshot` hold, and `Promise`: `ClassMeetings` is implemented (588 k states) |
| `OneRoom` | Two classes compete for a room, operators reconcile at any time | 2 classes, 1 room, 2 requests in flight, times that only the buffers make overlap | `AtMostOneProviderMeeting`, `NoDoubleBooking`, `HoldsRoomUntilResolved`, `RunningMeetingHoldsRoom` hold (975 k) |
| `TwoRooms` | Falling back to a second room, retries, rolled back reservations | 2 classes, 2 rooms, same times, presets come and go | `NoDoubleBooking` holds (1.9 M) |
| `Liveness` | Do requests and PROVISIONING end, and does the log tell how? | 1 class, 2 requests, a token request, old DRAFT and FAILED rows, all answers, operators who wait, `AuditSpec`, no symmetry | `RequestsEnd`, `ProvisioningEnds`, `LogExplainsStatus`, `AttemptsAreLogged` hold (47 k) |
| `Availability` | Is the answer of an unlocked query true? Are two classes booked as promised? | 2 classes, 2 rooms, one with limit 1, 1 request in flight, presets break | `AnswerWasTrue`, `Promise` hold (917 k) |
| `Presets` | Is the payload a configuration somebody configured? | 2 presets, 6 layers in all places, 2 saves during the allocation | `PayloadWasInForce`, `FieldsWereInForce`, `FailuresNeedAnEdit` hold (400 k) |
| `Migration` | Does the right row keep the class, and does the migration end? | up to 3 old rows of 9 kinds, 4 in all, names that clash, 2 workers | `NoSecondMeeting`, `FailsOnlyIfRacedOrClashing`, `MigrationEnds` hold (24 k) |
| `AdminForm` | Can a stale form open a class for a second meeting? | 2 classes, 1 room, a form each, loaded from a row that may not be tried again | `AtMostOneProviderMeeting` holds (719 k) |
| `Tokens` | Are shared tokens right and fresh? | 2 callers, 1 administrator, 2 passwords, lease 1, skew 2, lifetimes 2 and 3 | `ServedTokenIsOfTheAccount`, `RetryUsesNewLogin`, `OneLoginPerLease`, `ReturnedTokenIsValid` hold (3.0 M) |
| `GatewayTokens` | Exchange and use of tokens against rotation and stale forms | 2 workers, 2 secrets, 1 scope, 1 address, 2 minutes, a bucket each | `TokensAreOfTheCurrentSecret`, `ExchangesAreLimited` hold (1.2 M) |
| `ProviderLimit` | Is the limit "conservative"? (docs/convay-contract.md:35) | 2 classes apart in time, limit 1 | violated |
| `StaleForm` | Can operators not release PROVISIONING? (docs/architecture.md:45) | 1 class, 1 form | violated |

The last two are disagreements between code and documentation, described under
"findings" in `PROJECT.json`. The passing runs exclude what makes these and the
divergences of section 6 appear by a named constant or by the instance, and nothing
else:

- `OneClass` has no DRAFT rows of older releases (`LegacyStatuses`);
- limits are `NoLimit` outside `ProviderLimit` and `Availability`, which does not
  state `WithinProviderLimit`;
- `FormsAlone = TRUE` in `Tokens`: nobody saves a room form over a row that changed
  since it was loaded;
- `FormStatuses` in `AdminForm`: no form of a DRAFT, a RETRYABLE_FAILED or a row that
  does not exist is opened (a form saved over what a request made of such a row opens
  it for a second creation; `StaleForm` opens any);
- `OperatorsWait` wherever `TerminalIsFinal`, `LogExplainsStatus` or `Promise` is checked,
  which need it: the refinement by its definition, the other two as a hypothesis of
  theirs;
- `Usernames` has one name in `Tokens`;
- `AnswerWasTrue` claims nothing of a query during which what it depends on changes
  twice or more, `PayloadWasInForce` and `FieldsWereInForce` nothing of an
  allocation with two saves, `NoSecondMeeting` nothing of a migration during which
  requests were served. Without these conditions TLC finds each of them violated.

### Bounds

- *Meetings, rooms.* Every property speaks of one class or of a pair of classes in
  one room; the second room is there for the fallback.
- *Requests in flight.* Two suffice for a race; the third in `OneClass` lets a
  request arrive while one creates and another waits or reports late. A request
  that is done may start again without bound.
- *Times.* A day has 10 units, a class 2, a buffer 1. The pairs are equal times,
  times that overlap, and times that touch only through the buffers.
- *Answers.* `MCProvisioning` names one exchange for each branch of the client:
  the classification is a function of the exchange, so more of a kind adds nothing.
- *Availability.* Two rooms, so that an answer can combine one that was full with
  one that filled up behind the query; one of them has a limit. One worker is
  enough: two classes still change between the queries. A query during which the
  situation changes a second time is not followed further.
- *Presets.* Two, so that the client's can be the default or not; one other
  top-level field and two flags, in six layers that overlap in each kind of field,
  one of them invalid. `MaxSaves` is 2: with one the properties claim most, with
  two the failures become possible.
- *Migration.* Up to three rows of earlier releases of nine kinds: statuses of high,
  low and no rank (the last is that of RETRYABLE_FAILED), with and without a Convay
  meeting, and pairs that differ in the reservation column alone; a fourth for a row inserted meanwhile; two workers, so
  that one may wait for the other or for the migration.
- *Retries, crashes, rounds of the task.* Unbounded. Counters (`created`,
  `orphans`) stay small because of the property itself.
- *Token requests.* One per class at a time; it may be under way while the class ends.
- *Token times.* The lease is shorter than the skew, as 60 s and 300 s are; a token of
  lifetime 2 cannot be stored, one of lifetime 3 is and outlives its entry or not.
  Tokens without an expiry, which are stored for a fixed time, double the states and
  pass as well (6.0 M); the theorems include them.
- *Buckets.* Two minutes of two units (`MaxTime` 3), so that a bucket ends while the
  run goes on.
- *Time* (`MaxTime`), *passwords*, *logins*, *secrets*, *forms* are capped by
  constants named so. Two of each is the smallest number with a "before" and an
  "after"; Convay's refusal remains possible when `MaxLogins` is reached.
  `Exchange` stops counting when further exchanges of a minute could only be
  refused.
- *Symmetry* of workers, meetings, callers and administrators: no action or
  property tells them apart. Not used where a
  liveness property is checked.

### Fairness

`FairSpec` assumes, per worker, weak fairness of `Progress` and strong fairness of
`Claim`, and, per meeting, weak fairness of `FlagStale`. A web process that is
alive carries on: the HTTP client has connect and read timeouts, so an exchange
ends in an answer or a transport error. PostgreSQL grants a row lock to its
waiters in turn, which is the strong fairness: the lock may be taken and freed
again while one waits. Beat runs the task every 60 seconds
(`config/settings/base.py`). Nothing is assumed of the provider, of operators,
of registration, or of crashes, which may occur and need not. `AuditSpec` has the
same fairness: a record is inserted in the step it describes.

`ClassMigration!FairSpec` assumes that the migration process goes on (weak fairness
of `Migration`), that open transactions do (`CommitClaim`), that PostgreSQL grants
row locks in turn (strong fairness of `RenameDuplicate`, `LockRow`, `StoreResult`)
and looks for deadlocks (`BreakDeadlock`). Requests need not arrive or go on, except
inside a transaction; a provider call, which is outside one, may last for ever.

## 4. Proofs

Every invariant and every action property of a passing run is proved for all
values of the constants, and so is the refinement (`Promise`). The classes, rooms,
requests in flight, request bodies, provider answers, buffers, limits, presets,
layers, old rows, callers, administrators and passwords are any; so are operators
that do not wait and rows of older releases, unless a theorem says otherwise. The
assumptions of the modules (`ConstantsAssumption` and the like) say what kind of
value a constant has, and that a table has finitely many presets, which the unique
default is counted over; TLC evaluates them in every run.

A hypothesis of a theorem is one of these, and each states a condition under which
the code keeps its word, not a convenience of the proof:

| Hypothesis | Where | Why, and what happens without it |
|---|---|---|
| `OperatorsWait` | `PromiseKept`; inside `TerminalIsFinal`, `LogExplainsStatus` | docs/architecture.md:45 asks it of operators. Without it a request reports to a row that was closed behind its back |
| `NoLegacyDrafts` | `AnswersMatchTheirRequest` | the divergence about DRAFT rows (section 6) |
| `FormsAlone` | `TokensAreOfTheAccount` | the divergence about stale forms (section 6) |
| `FormStatuses \cap OpenStatuses = {}` | `FormsCreateNothing` | a form loaded from a class that may be tried writes it back as such (section 6) |
| `OneAccount` | `TokensAreOfTheAccount` | the divergence about renamed accounts (section 6) |
| `BucketsOutlastTheirMinute` | `ExchangesPerMinute` | the code lets a counter live two minutes; a counter that ends before its minute would start again |
| `DraftsAreNew` | `MigrationKeepsTheMeeting` | `provision` stores a calendar id only together with a status that is no longer DRAFT, and does not resume a RETRYABLE_FAILED row that has one; the old rows of the `Migration` run are like that |

### The arguments

`ProvisioningProofs`, about `Spec`:

- `TypeCorrect`. The type invariant is inductive. Lemmas state that every outcome of
  the client has its type.
- `AtMostOnce`. The property is not inductive: it does not say why a worker that
  transmits finds nothing created. `CreationInv` adds
  - `OneCreator`: at most one worker is engaged in the provider call of a class,
    and at most one holds its row lock;
  - `OpenIsUntouched`: for a row that may be claimed nothing was created, nothing
    is undecided, and nobody is engaged;
  - `WorkerKnowledge`: what a worker at each point knows; above all that a
    failure which makes the row RETRYABLE is one after which nothing exists.

  A claim takes the row out of the open statuses, and the only ways
  back are outcomes that are neither ambiguous nor known. The task and the
  operators never lead there. So the second transaction of a worker is the only
  one that can reopen a row, and it does so only if its own transmission was
  refused.
- `RoomsNotDoubleBooked`, `RoomsHeldUntilResolved`. `BookingInv`
  states that reservations are exactly the buffered intervals while they are held
  (`HoldsRoomUntilResolved`), that held ones in a room are disjoint
  (`HeldDisjoint`, the exclusion constraint), and that the row of an engaged
  worker has a complete reservation, held or not. The last part is needed because
  the error path and recovery *reactivate* a reservation: they must find one, and
  the constraint must judge it. `NoDoubleBooking`, with both buffers spelled out
  on times, follows by arithmetic.

`OutcomeProofs` adds `OutcomeInv`, and calls all four invariants together `SystemInv`.
`SoundRow` says what a row may be: what it names was created; it has a room only for a
time on its date; nothing runs, was made or may come where no room is held, unless the
row was confirmed ended.
`SoundJob` says what a request may still rely on after it let go of the row: it agrees
with the row about the class (`Agrees`), and while it is engaged the row awaits its
result. `RowStep` lists what a step may do to one row; the theorems about steps,
`ReleasedStaysReleased` and `SnapshotsAreKept`, follow from it. That `Agrees` survives,
although `register` compares without a lock, rests on what it compares never changing:
class data, date, and times once the row has them. Only an old draft has none.

`PromiseProofs` takes each action of `Provisioning` to one of `ClassMeetings` under
`SystemInv`: a committed allocation is `Book`, a transmission `Ask`, and so on; the
steps the abstraction does not see leave the phase, booking and provider's side of
every class as they are (`Same`, `Unmoved`). The two hard steps are `Ask`, which needs
`Untouched` (from `CreationInv`), and giving a booking back, which needs that nothing
runs or may come (from `OutcomeInv`).

`CompanionProofs`:

- *Audit log.* `AuditInv` adds that an engaged worker has left its trace, and that the
  code of the error it is about to record tells whether a meeting is known. The log
  does not record `known`, and yet the status it leads to depends on it. That a
  `provider_error` can be told from that of a refused token (`Telling`) rests on
  `OutcomeInv`: while operators wait the row of an engaged worker awaits its result, so
  no settling record precedes; and on a token request having found a settled row, which
  can only end afterwards (`Unsettled`).
- *Admin form.* `OutcomeInv` does not survive a form, which writes READY over whatever
  goes on. `TableInv` does: each row holds a reservation with the statuses that hold
  one, and held ones are disjoint. Every step of `Provisioning` keeps it without
  knowing what workers know (`PlainTable`), because each either finds the row as it
  needs it under the lock or is judged by the table's constraints. A form writes what
  it loaded, which satisfied the same condition when it was loaded (`FormWrites`).
  `FormsCreateNothing` adds `CreationInv`, which a form keeps as long as it does not
  write back a status that is open for creation.
- *Availability.* Nothing remembers what the rooms were like before the situation
  changed. The proof needs no memory, because of `StepMonotone`: one step gives
  capacity or takes it, never both. So a room that was passed over as full was full
  afterwards or was full before, and a room that was seen free was free before or is
  free now (`Disturbed`). That
  a step is monotone rests on `SystemInv`: a row that is held keeps its room, and
  whoever is counted against a provider limit holds the room. Cardinalities compare
  because finitely many rows are counted at any time (`FinitelyMany`), whatever the
  number of classes.

`GatewayProofs`. Secret and version are only written together (`SecretsPaired`), so
every copy of the client row, however old, pairs them as they once were; that is all
`TokensBelongToTheSecret` needs, stale forms included. `ExchangesPerMinute` needs that a bucket through which somebody passed lives
to the end of its minute and counted everybody (`BucketsCount`).

`TokenProofs`. `PasswordsNumbered`: without stale forms a version names one password,
in the row and in each copy of it. `SoundEntry` and `SoundCall` carry this through the
cache and through each caller; `LeaseHeld` says that the lock is one's own as long as
the lease runs, which `OneLoginPerLease` needs of both callers. `ReturnedTokensAreValid`
needs it too: an entry may be served while Redis keeps it although it is inside the
skew, but who takes it from there still holds the lock it was taken under, so that less
than a lease has passed since more than the skew was left.

`PresetProofs`. `LastLayerWins`: for any configurations `Flat(Resolve(s, c, r))` is
`LastWins(s, c, r)`, from `FieldsAssumption` (names of fields and of nested flags are
disjoint); `MergeOverrides` says it of one round of the loop. `PresetInv` follows what
the allocation has read: before the first save it is what there is (`Unedited`), after
one save what would be stored now was in force before or after it, as a whole or, when
the client's preset is the default as well, field by field (`EditedOnce`, `Fits`).

`MigrationProofs`. `MigrationInv` adds that without requests all workers are idle while
the migration runs, and that what is neither renamed nor about to be is at most one row
(`OneLeft`). The latter holds when the group is listed because the sort key orders
rows totally (`PreferredTotal`), whatever the statuses and reservations are; a row
inserted afterwards breaks it, which is why `raced` is needed, and `NamesClash` names
what is left. For `MigrationKeepsTheMeeting`, `KeptInv` adds that if any row names
a meeting the row that stays does, because the sort key asks for the calendar id
first, and `ClaimInv` that a row has one request in charge and no meeting until that
request is done.

TLC checked each inductive invariant as an invariant before it was proved:

| Invariant | Instance | States |
|---|---|---|
| `CreationInv`, `BookingInv`, `OutcomeInv` | `OneClass`; 2 requests and old rows; `OneRoom`, operators that do not wait | 588 k, 103 k, 975 k |
| `AuditInv` | `Liveness` | 47 k |
| `FormInv`, `FormCreationInv` | `AdminForm` | 719 k |
| `QueryInv` | `Availability`; with operators that do not wait | 917 k, 1.2 M |
| `GatewayInv` | `GatewayTokens` | 1.2 M |
| `CacheInv`, `FreshCalls` | `Tokens`; 1 caller, stale forms and 2 usernames | 3.0 M, 1.5 M |
| `PresetInv` | `Presets`, three saves | 1.7 M |
| `MigrationInv`, `ClaimInv`, `KeptInv` | `Migration` | 24 k |

Only model-checked: the liveness properties `RequestsEnd`, `ProvisioningEnds` and
`MigrationEnds`, since fairness is stated with ENABLED, which the prover does not
reason about; and the two properties that are violated. `FairSpec` implies `Spec`
(and the same of `AuditSpec`), so all theorems hold under fairness too. The theorems
about `Spec` do not cover stale admin forms: those about `FormSpec` do, and `StaleForm`
shows what forms break.

## 5. What the model takes for granted

- `FlagStale` may take any PROVISIONING row: its ten-minute age is not modelled.
  This is weaker than the code for the safety properties. Real ages matter when a
  request outlives ten minutes, and those behaviours are included.
- Inside `Provisioning` a token is obtained or not; `TokenCache` has the detail.
- The unique constraint on (client, class) makes `MultipleObjectsReturned`
  impossible in `Provisioning`; migration 0004 establishes it, and `ClassMigration`
  has the time before.
- Convay executes a transmission at most once. A 401 and the other refusals are
  answers of a provider that did not create a meeting (docs/convay-contract.md).
- Identifiers, URLs and names are abstract; that an identifier can be too long for
  its column is kept (`fits`), because the error path then fails.
- Encryption and logs have no influence on control flow, except that a
  value which does not decrypt ends a request (`Abort`).
- Renaming a room that has meetings is refused by a trigger (migration 0002), so
  `TokenCache` allows it only before that.

## 6. Divergences

Besides the two violation runs, these disagreements between code and documents were
met. Each can be reproduced by the change named with it.

- *Changed interval of a DRAFT row.* docs/api-workflow.md:61-62 says that a changed
  interval returns EXISTING_MEETING_MISMATCH. `register` compares times only where
  the row has them, and without a lock: two requests with different times for a DRAFT
  row without times both pass, and one is answered with the meeting of the other
  (`AnswerMatchesRequest` with DRAFT in `LegacyStatuses` and two times).
- *Renamed account.* docs/architecture.md:18 gives a Room exactly one account
  identity. Changing the username of a room without meetings leaves
  `credential_version` (`rooms/admin.py:127`), and with it the key of the cached
  token, as it is (`ServedTokenIsOfTheAccount` with two `Usernames`).
- *Stale client form.* README.md:75 says that rotation invalidates existing tokens.
  A client form loaded before the rotation writes the old hash and token version back
  (`integrations/admin.py:36`), so that tokens and secret of before the rotation are
  good again; `TokensAreOfTheCurrentSecret` holds nevertheless, because the two are
  undone together. A stale room form does the same to password and credential version
  (`ServedTokenIsOfTheAccount` with `FormsAlone = FALSE`).
- *Confirmed ended.* An operator who confirms the end of an UNKNOWN meeting after the
  creating request has finished, as docs/architecture.md:45 asks, releases the room;
  Convay may execute the transmission that got no answer afterwards, and the meeting
  then runs in a room that is free. `RunningMeetingHoldsRoom` says that this is the only
  way to such a meeting.
- *Recovery without a start URL.* `meetings/admin.py:39` says "Recovery requires
  calendarId, meetingPanelAddress, and startMeetingUrl." `clean` asks it of a row that
  is UNKNOWN then; `save_model` looks again, and when the row has become UNKNOWN in
  between it stores READY with the empty field, encrypted (`SavedRow`, `Savable`).
- *Forms of open classes.* A form loaded from a DRAFT or RETRYABLE_FAILED row and saved
  after a request created the meeting opens the class for a second one
  (`AtMostOneProviderMeeting` under `FormSpec` with any `FormStatuses`), the same stale
  write as in `StaleForm`.
- *Refused tokens in the log.* docs/architecture.md:51 lets operators correlate errors
  with audit events. The `provider_error` of a refused token (`meetings/views.py:327`)
  looks like that of a failed provisioning; a reader has to look at the record before it
  (`Telling`).
- *Snapshot.* README.md:77 and docs/api-workflow.md:30 call availability a
  point-in-time snapshot. It is read in pieces; `AnswerWasTrue` says how far the
  words hold.
- *Late response.* docs/architecture.md:51 lets operators correlate errors with audit
  events. The record `late_provider_response_requires_review`
  (`services.py:216-220`) is always rolled back by the exception that follows it.
- *Which duplicate stays.* docs/architecture.md:55 says that no duplicate is selected
  arbitrarily and ENDED, FAILED and CANCELLED classes stay closed. The order of
  migration 0004 prefers a DRAFT row to an ended one without a calendar id, so such a
  class can be created again.
- docs/convay-contract.md:12 says that tokens with an expiry are cached for at most
  300 seconds, the code and docs/api-workflow.md:107 cache them until the skew;
  docs/convay-contract.md:46-48 calls the reservation "released" after a 429 or a
  refused connection, where `services.py:170-177` keeps it for the retry, as
  docs/architecture.md:45 says.

## 7. Plan and what is not modelled

Done: every component of the table in section 1 but those named below; the abstract
specification and its refinement; proofs of every safety and action property that a
passing run checks, and of the refinement.

To be done next:

1. An abstract specification of what `TokenCache` promises its callers (a token of the
   account, outside the skew), with its refinement proved from `CacheInv`.
2. `AvailabilitySpec`, `AuditSpec` and `FormSpec` are separate; the theorems about
   `Spec` hold in each of the first two (`AvailabilityRefines`, `AuditRefines`), and
   could be stated there.

Not modelled: search and retrieve are one or two queries whose result nothing depends
on. Request serializers only accept or refuse a body; the requests of the models are
accepted ones. Audit records about rooms, presets, clients and issued tokens follow
the action they name without a condition. The other migrations create tables,
columns, and the checks and triggers that appear as guards. Response sanitising,
middleware, logging and error formatting have no state. Health checks are I/O probes.
`bootstrap_roles` is an idempotent command. Fernet encryption and its key rotation
are library calls.

## 8. Running

```
tlc -workers 2 -config OneClass.cfg MCProvisioning.tla
tlapm PromiseProofs.tla
```

A configuration's module is listed in `PROJECT.json` ("runs"), as are the
mutants: for every property a plausible defect of the code, defined next to what
it changes (comments starting with "Defect"), under which the run fails.
