# Verification of fast-kit in TLA+

fast-kit is a FastAPI application: API processes, a background worker and a
scheduler that share a PostgreSQL database, a Redis cache and a NATS JetStream
server. This directory holds TLA+ models of its components, the TLC
configurations that check them on small instances, and TLAPS proofs of the main
results for every instance. `PROJECT.json` maps every definition to the lines it
models and lists runs, mutants, findings, hazards and theorems.

Run a model with `tlc -config MCOutbox.cfg MCOutbox`, a proof module with
`tlapm OutboxProofs.tla`.

## Inventory

| Part (under `src/app`) | State | Operations | What is hard about it | What makes it correct | Module |
|---|---|---|---|---|---|
| Outbox: `core/database.py` (`durable_unit_of_work`), `core/nats_bus.py` (`publish_durable`, `relay_pending_outbox`), `event_outbox/.../repository.py` | tables `event_outbox`, `event_store`; the events stream | commit business write and row together; relay pending rows after it | relays of concurrent requests read the same rows; a crash between publish and commit; publishes of unknown outcome; row locks | nothing announced that was not committed; nothing marked that was not sent; no relay deadlock | `Outbox` |
| Delivery: `nats_bus.py` (`_consume_loop` to `_dead_letter`), `worker.py`, notification handlers | JetStream consumer, side effects, DLQ stream | fetch, handle, ack, nak, dead-letter | `ack_wait` against slow handlers, lost acks, worker crashes, delivery limit, failing DLQ publish | nothing leaves the stream unhandled and uncopied | `Delivery` |
| Dead letters: `nats_bus.py` (`start_dlq_consuming`...), `event_outbox/api/router.py` | DLQ stream, table `dead_letter_events` | persist, retry with backoff, replay, resolve | database outages, duplicates, replay that fails halfway | acked only when stored; resolved only when re-sent or dismissed | `DeadLetter` |
| Ordering: `modules/ordering` | tables `orders`, `jobs` | create order with jobs, transition a job | read-check-write without a lock, column-wise UPDATE, unique keys inserted in any order | status history is a path; orders are all or nothing | `JobOrdering` |
| Buses and processes: `core/event_bus.py`, `nats_bus.py`, `main.py`, `scheduler.py` | stream configurations, caches chosen at startup, handlers, audit row | start, publish, run local handlers, record | start races and crashes, Redis or NATS away at the wrong moment, handlers before the commit | streams fit; audit honest; revoked tokens refused | `EventBus` |
| Tokens: `auth/use_cases/refresh.py`, `logout.py`, `auth/api/dependencies.py`, `core/jwt.py` | blacklist keys with TTL in Redis | login, refresh (rotation), logout, two authentication guards | check, then await, then write; TTLs rounded to seconds | a revoked token is refused; a refresh token is spent once unless refreshes overlap | `TokenSessions` |
| Users and their caches: `user/`, `auth/use_cases/login.py`, `profile.py`, `activate_account.py`, `auth/infrastructure/event_handlers.py`, admin `UserAdmin` | table `users`, two cache entries | register, status, delete, restore, prune, activate; login, profile | stale fills, lost invalidations, merges of old snapshots, soft deletion and re-registration | a stale entry has a cause and dies out; a write does what it says | `UserAccounts` |
| OTP and rate limiter: `otp/use_cases`, `core/rate_limit.py`, `core/cache.py` | table `otps`, cache entry, counter key | generate, validate (cache, then table), activate | double use, cache and table out of step, INCR and SETEX apart | one use unless validations overlap; bounded admission | `Otp`, `RateLimit` |
| RBAC and seeding: `rbac/`, `require_permission`, admin role views, `core/seed.py` | four tables, per-user cache | create, assign, revoke, guard, seed | stale permission lists, cascades, concurrent starts | a wrong list has a cause and expires; seeding is complete | `Rbac` |
| Owners, cars, lists: `owner/`, `car/`, admin views, `core/pagination.py` | three tables with foreign keys | create, prune, edit, paged lists | lookup then insert, cascades, pages without an order | one owner per user, no orphan, a walk sees every row | `Fleet` |
| Shell: settings, envelopes, error handlers, health, serializer, migrations | none | - | - | - | - |

Interactions. A write request of Ordering runs in `durable_unit_of_work`; its
use case stages one event in the same session; after the commit the request
relays every pending row to the `EVENTS` stream. The worker pulls from that
stream, runs the notification handlers, and copies what it cannot handle to
`EVENTS_DLQ`, which a second consumer of the worker writes to
`dead_letter_events`; operators replay from there into `EVENTS`. Every other
use case commits first and then calls `publish`, which sends the event, runs the
handlers of its own process (that is how user caches are cleared) and adds an
audit row. Guards, logins and OTPs share Redis with those handlers.

## Modules

| Module | Models | State and actions |
|---|---|---|
| `AtLeastOnce` | the promise of an outbox: committed, sent, confirmed, in that order | `Commit`, `Send`, `Confirm` |
| `Outbox` | `durable_unit_of_work` with `publish_durable` and the relay | one row per request. `pc` follows a request through its two transactions; `marks`, `bumps`, `snap` are the open relay transaction and the ORM values it read; `stream` and `eventStore` record who sent or audited what |
| `Delivery` | the worker's loop for one event type | `broker` and `deliveries` are JetStream's view of each message, `inbox`, `cur`, `num` the worker's, `effects` and `dlq` the outcomes |
| `DeadLetter` | the DLQ consumer and the replay and resolve endpoints | as `Delivery`, plus the table, and a small program counter per operator request |
| `JobOrdering` | order creation and job transitions at READ COMMITTED | committed columns, the committed events of each job, the keys each open create has inserted, the status a transition saw, the columns its flush writes, the status its refresh returned |
| `TokenSessions` | the sessions of one user on a clock of ticks, `TPS` to the second | token pairs with parents, the end of each blacklist entry, requests with the token they carry; `width` is history |
| `UserAccounts` | one email address: its row, the requests that write it, the caches that copy it | writers go idle, read, loaded, committed, profile_gone; readers missed, fetched; `dirty` and `overlapped` are history |
| `RateLimit` | the counter key | operators and the variable `counter`, extended by the module whose requests use it |
| `Otp` | the codes of one user and type, behind `RateLimit`, with account activation | rows, the cached code, generating and validating requests |
| `Rbac` | roles, permissions, associations, the permission cache, guards, admin panel, seeding | tables as sets of pairs; requests commit, list the users concerned and delete entry by entry |
| `EventBus` | the processes: lifespan, both buses, scheduler | what a process chose at its start, stream configurations, one user entry, one token; the scheduler connects as a process does |
| `Fleet` | users, owners and cars, and clients that walk through pages | a table is a function from ids to a column, with the linear order (`scan`) its rows are met in; `Count` and `Page` are the two statements of a list |
| `OutboxProofs`, `DeliveryProofs`, `DeadLetterProofs`, `TokenSessionsProofs`, `UserAccountsProofs`, `RbacProofs`, `OtpProofs`, `EventBusProofs` | theorems about the module each is named after; `OutboxProofs` also about `JobOrdering`, `UserAccountsProofs` also about `Fleet` | the inductive invariant comes first, then one lemma per part of it |
| `MC*` | constants for TLC | |

An action is what happens between two awaits that others can observe. Mutant
operators (marked "Mutant:") stand before the definition they vary; no
specification uses them. Variables and fields marked "history" record what
happened for a property to talk about; no guard reads them.

### How the models read the code

* **Sessions.** A transaction's writes become visible at commit; a row it has
  updated stays locked until it ends. The ORM writes only changed columns. In the
  relay the batch keeps the loaded rows referenced, so
  `increment_outbox_attempts` works on the values read with the batch (`snap`).
  In `JobRepository.update` and `SQLAlchemyUserRepository.update` nothing
  references the row loaded before, the session's weak identity map has dropped
  it, and `session.get` or `merge` selects again.
* **created_at** is `now()`, the start of the transaction. The models give every
  transaction a distinct start. Two transactions that start in the same
  microsecond would be relayed in an unspecified relative order; `NoLockCycle`
  says nothing about that case.
* **Publishing.** A publish that raises may have been stored all the same
  (`Outbox`); in `EventBus` a failed publish is one that was not stored.
* **JetStream** is modelled from what the code asks of it: explicit acks,
  `max_deliver`, WORK_QUEUE retention for events (an ack removes), LIMITS for the
  DLQ (an ack only stops redelivery), `add_stream` that accepts an identical
  configuration and refuses a different one.
* **Redis** is modelled from the commands the cache service sends: SETEX replaces
  value and life, INCR creates a key without a life, a key disappears when its
  life is over. Ticks are as short as wanted: any number of steps fits into one.
* **Batches of ten in the DLQ consumer** are one message per fetch with several
  consumers, because the messages of a batch are persisted one by one and share
  no state. `Delivery` keeps the batch: a message that waits for others of its
  batch is one whose `ack_wait` can run out.
* **Serialization** is a set: events `serialize` refuses (`Unserializable`),
  messages `deserialize` refuses (`Poison`), dead letters that are not events
  (`Garbled`) or whose class is gone (`Renamed`).
* **Users** in `UserAccounts` are a status and a deletion mark; the password, the
  name and the phone number travel through the same merge and the same caches.
  `Rbac` takes the seeded user to be a superuser, for whom both guards skip the
  permission list.
* **Tables in `Fleet`** have a scan order because no list has an ORDER BY: an
  insert lands at any place of it and an update moves its row, as in a heap
  table. The order is a set of pairs, so that a row that stays keeps its place
  among the rows that stay by definition, without renumbering.
* **Deadlocks of unique inserts** are broken by PostgreSQL: a create that waits
  for itself fails (`InsertFails`). A seeding that meets a row it wanted to insert
  fails with an IntegrityError as a whole (`SeedFails`).
* `get_durable_session` (`ordering/api/dependencies.py`) is taken to deliver the
  session of `durable_unit_of_work`, as its use sites expect.

## Runs

| Run | Bounds | Checks |
|---|---|---|
| `outbox` (`MCOutbox.cfg`) | 3 requests: one whose row the broker takes and two whose rows it always refuses, which fill a batch of the limit 2 | `TypeOK`, `NoPhantomEvent`, `PublishedWasSent`, `AuditMatchesStream`, `NoLockCycle`, `OwnRowIsTried`, `RelaySettlesBatch`, refinement `ImplementsPromise`, liveness `RequestsEnd` |
| `delivery` | 2 workers, a readable and a poison message, 3 deliveries as deployed, 2 faults, 1 failing DLQ publish | `TypeOK`, `NoSilentLoss`, `DeadLetterIsLast`, `NoRetryAfterDeadLetter`, liveness `MessagesSettle` |
| `dead_letter` | 2 consumers, 2 operators, a replayable and a garbled copy, 2 deliveries, 1 fault | `AckedIsPersisted`, `OutageIsSurvived`, `ResolvedWasRepublished`, liveness `DeadLettersSettle` |
| `job_transitions` | 1 job, 4 transitions to any status, symmetry | `SerialHistory`, `EventsExplainStatus` |
| `order_creation` | 3 creates over 2 numbers and 2 jobs listed in opposite orders, 1 transition | `OrdersAtomic`, liveness `CreatesEnd` |
| `sessions` | 3 requests of any kind with any tokens issued, 3 pairs of which 1 by login, access 1 s, refresh 2 s, 2 ticks to the second, 4 ticks | `LogoutRevokesBoth`, `DoubleSpendNeedsOverlap`, `RevokedIsRefused` |
| `accounts` | 2 writers, 1 reading client without limit, 2 identities of the address, TTL 1, 1 admin edit | `StaleEntryHasCause`, `SerialWithoutOverlap`, liveness `ProfileConverges` |
| `rbac` | 2 users, the seeded role, 1 permission, 2 requests, 1 guard without limit, 1 starting process, 1 admin change | `StaleListHasCause`, `SeedIsComplete`, liveness `PermissionsConverge` |
| `otp` | 2 generations, 3 validations or activations, TTL 2, window 1, maximum 2 | `DoubleUseNeedsOverlap`, `CachedIsLatest`, `UsedIsNotCached`, `AdmittedBounded` |
| `event_bus` | 2 processes, 2 stream configurations, one request of each kind, 1 beat, 2 outages | `RunningHasStreams`, `AnsweredIsInvalidated`, `FailsClosed` |
| `fleet` | 2 users, 2 creates, 3 plates, 2 changes, 1 walk with pages of one row | `OwnershipIntact`, `WalkSeesEveryRow` |
| `job_status_race` (`MCJobStatus.cfg`) | 3 transitions of 1 job | violation of `TransitionsAreValid` |

Every module states its types in `TypeOK` (`OrderingTypeOK` and `FleetTypeOK` in
the two modules that share a proof module with another, whose names would clash).
The runs of `Outbox` and `Delivery` check it; for all ten it is proved.

Why the bounds are enough. The outbox needs two relays to conflict over two rows and a
third request whose row neither of them read, and two rows that always fail to starve a
third; an event that cannot be serialized stages no row and ends its request at once, so
no run has one and only the theorems cover it. A delivery needs two holders of one
message, each with its own delivery number, and a fault for each of them; the theorems
then remove the bounds. Four transitions are a full path from `PENDING` to `COMPLETE`,
and three already overlap in every way that two reads and a write can. Three creates are
a cycle of two plus a competitor for the order number. A session property involves one
token and at most two requests that revoke it while a third presents it; half seconds
suffice for the rounding, and lifetimes of one and two seconds let both tokens expire
within four ticks. A stale entry needs one write, one reader and one expiry; two writes
overlap, and a second identity covers prune and re-registration. A wrong permission list
needs a change and a guard, a second change makes it wrong again; a rival start acts on
a start like the rows that requests and the admin panel add meanwhile, so one start is
run, and `SeedingIsComplete` is proved for any number. A code can be consumed by two
validations while a third retries. A process needs a rival with another configuration. A
walk needs three rows, two that it began with and one that is inserted between its
pages, and an edit that moves or removes one. `MaxSlips`, `MaxDlqFailures` and
`MaxOutages` bound faults, `MaxEdits`, `MaxChanges`, `MaxOwners`, `MaxPairs`,
`MaxLogins`, `MaxUsers` and `MaxTime` the length of a behaviour; every other step is
unbounded.

`CHECK_DEADLOCK FALSE` is set where the system may come to rest: all messages
settled, all requests answered, the clock at its bound. `Outbox` says so with
`Terminated` instead.

Fairness. `Step(r)` of a request and of a live worker is weakly fair: the event
loop resumes a coroutine whose await has completed, PostgreSQL grants a lock that
is free, and a publish ends by an answer or a timeout. In `UserAccounts` and
`Rbac` a request that has begun ends, possibly by failing, for the same reason.
`AckWaitExpires` and `Tick` are weakly fair: the server's timer runs out, time
passes and Redis expires keys. There is none on crashes, database errors,
operators, clients, starts of processes, or the restart of a worker, for which
docker-compose has no policy; liveness of delivery therefore assumes that some
worker stays alive.

## What the runs show

* The outbox, the delivery path, the DLQ consumer and order creation do what they
  promise: at-least-once with duplicates, never loss by an early ack, never an
  announcement of an uncommitted write; no request hangs.
* A revoked token is refused everywhere, except in its last second; a refresh
  token yields two pairs only when two refreshes are in flight together.
* A cached user or permission list is wrong only for the causes the properties
  name, and never for longer than a TTL after the changes stop (profile and
  permissions; credentials are renewed by every login, see below).
* Writes of users that do not overlap have their effect although they go through
  a merge; a code is used once unless validations overlap; the limiter admits its
  maximum plus what its own SETEX overwrote.
* A serving process and a running scheduler have the streams they would have created;
  nothing accepts a revoked token, and no answered update leaves an older cache entry,
  because Redis was away at the start.
* Rows that keep failing starve a younger one only when they fill a whole batch.
* The unique index and the cascades keep owners and cars consistent although no
  use case locks anything; a walk through the pages meets every row, whatever is
  inserted between two of its pages, unless a change disturbs it: a row of the list
  leaves or moves, or one comes between a count and its page.

One statement of the code is not what it does, shown by a run of its own:
`JobStateMachine` is the "single source of truth" for transitions, but two
overlapping transitions commit an edge it forbids (`job_status_race`).

### Observations

Facts of the code met while modelling, which a maintainer may want to know. The
models contain each of them; no property of a passing run contradicts it.

* Rows "remain pending for a background retry" (`core/database.py:50`): only a
  later write request relays them.
* `attempts` is set to one more than the value read with the batch, so overlapping
  relays lose increments and a slow one can set the column back
  (`event_outbox/.../repository.py:57`). Nothing acts on it: a hundred rows that always
  fail keep every younger row from being relayed.
* A DLQ publish that fails on the last delivery leaves the message in the stream
  with no delivery left and no copy, not "recoverable" (`nats_bus.py:490`).
* A dead letter whose class is gone is answered 422 by the replay endpoint,
  though the plan says it stays replayable (`event_outbox/api/router.py:178`);
  with `NATS_ENABLED=false` a replay sends nothing and still resolves the row.
* Three overlapping transitions can leave a job in `PREPRESS` with
  `file_editable` true (`ordering/.../repository.py:75`).
* With the in-memory bus handlers run before the commit: a rollback leaves a
  notification of something that never happened (`core/event_bus.py:52`).
* The scheduler ends at its first failed publish (`scheduler.py:43`).
* A process that started without Redis answers 503 on guarded paths, the updates of users
  among them, until it is restarted (`main.py:63`).
* A worker-less event type fills its WORK_QUEUE stream without limit.
* The notification repository factory returns a repository of a closed session,
  which reopens silently (`notification/infrastructure/event_handlers.py:83`).
* Two refreshes with one token that pass the blacklist check together both get a
  pair (`refresh.py:57`); `new_jti` of the refresh event is the old one
  (`refresh.py:77`). The truncated TTL ends a blacklist entry up to a second
  before its token.
* A login answered from the cache writes the entry back with a full TTL, so
  credentials stay cached, stale or not, while logins continue (`login.py:92`);
  the rehash of a password is flushed and never committed (`hasher.py:47`).
* An update of a user that was pruned after it was read inserts the row again
  through `merge` (`user/.../repository.py:51`); activation overwrites a
  concurrent suspension; `update_status` of a soft-deleted user leaves
  `deleted_at` set.
* The SETEX of the first request of a window overwrites concurrent INCRs; a
  process that dies between the two leaves a counter that never expires
  (`rate_limit.py:30`).
* Nothing the admin panel does clears a cache; deleting an owner with cars fails
  there, because the ORM nulls `owner_id` first.
* Two processes that seed an empty database together: one fails to start with an
  IntegrityError. Seeding an email that is already registered leaves
  `is_superuser` false.
* The lists have no ORDER BY, so a page is only as stable as the table's heap;
  `OwnerModel` declares its foreign key without the `ON DELETE CASCADE` of
  migration 0004.

## Proofs

All theorems hold for every value of the constants under the named assumptions
of the modules, which only type the constants, keep kinds of ids apart, ask for
positive limits and, where a proof counts requests or rows (`TokenSessions`, `Otp`,
`Fleet`), for finitely many of them. TLC evaluates each assumption in the runs.

**OutboxProofs.** None of the safety properties is inductive: that the stream
holds committed writes only depends on what relays hold in memory. The
inductive invariant has three parts. `DurableInv` chains the durable state
(audit records were sent, what was sent was a row, rows are committed, marked
rows are audited). `RelayInv` ties an open relay to it: it works on rows only
and marks only what it sent itself, which is what makes an overlapping
relay's commit harmless. `OrderInv` says start times are distinct and a
relay holds only rows older than those it has still to lock; from it
`NoDeadlock` follows by the usual argument on ordered locks. `Refinement` maps
`sent` to the rows in the stream and `confirmed` to the marked rows: a commit
maps to `Commit`, a publish to `Send`, a relay commit to `Confirm` of its
marks, everything else stutters. `BatchIsSettled` (`RelaySettlesBatch`) has an
invariant of its own: while the bus is open, a relay drops no row of its batch, so
at its commit every row has been marked or bumped. `OwnRowTried` (`OwnRowIsTried`) adds
`ReadInv`: a relay that has read holds its own row, finds it published, or holds a full
batch of older rows; `OwnRowStep` is the relay's commit, which leaves what it holds tried,
and `TriedStays` every later step.

**JobOrdering, in OutboxProofs.** `CreateInv` says that an open create has inserted
a first part of its keys, and that nobody else has one of them, committed or not;
an order is then whole when it commits, since it commits with all its keys. It is
what the unique indexes and the rollback are for: without either, two creates
share a key. `TransitionInv` says an open transition was checked against a status
that some committed event announced, which is all that `EventsExplainStatus` needs.
`AloneInv` says a transition that nothing overlaps is the only one of its job and
still sees the row it read, so its columns and its event are right
(`SerialHistory`). The two are local to a job: the lemmas carry them through a
step of another job by `OthersKept`, and `CommitStep` extends the history of the
job that commits.

**DeliveryProofs.** `IInv` adds to the types `CountInv` (the delivery number a
worker holds never exceeds what the server handed out, and a deliverable message
has deliveries left) and `WorkerInv` (a worker about to ack has the effect or
the copy that justifies it; one about to dead-letter holds a poison message or
the last delivery). `DeadLetterEndsRetries` combines them: the copy carries
delivery number MaxDeliver, so the server has none left to give.

**DeadLetterProofs.** `ConsumerInv` says what a busy consumer holds, `CountInv`
that a copy has deliveries left as long as it can be delivered, `OperatorInv`
that a replay about to set `resolved_at` has been stored. `LossInv` keeps the
accounts `OutageIsSurvived` needs: every delivery of a copy without a row was a
failed write or a fault, but for the one under way, so a copy whose deliveries
are used up without a row has failed every time.

**TokenSessionsProofs.** `EntryInv`, that a blacklist entry lasts into the last
second of its token, is where the rounding counts; it rests on the lemma
`WholeSeconds` about `int()`. `HeldInv` ties what a request has decoded to the
tokens issued, `LogoutInv` says that each half of a logout leaves its token
revoked or expired. `SpendInv` counts: the pairs issued for a token and the
refreshes on their way to one are no more than the refreshes that were at work on
it at one moment; a rotation moves one from the second count to the first.

**UserAccountsProofs.** `WriterInv`: what a writer has read and loaded is the row,
as long as no write overlaps it; `SerialWithoutOverlap` is the commit of such a
snapshot. `ReaderInv`: what a reader has fetched is the row, or marked, or a copy
that a writer still has to delete. `CacheInv` is `StaleEntryHasCause` with one
more thing to say: a profile is owed by a writer of the same identity, since
prune and registration reuse the address.

**Fleet, in UserAccountsProofs.** `OwnershipIntact` is nearly inductive: it lacks
`RowsInv`, that owner ids come from one counter. A step keeps it because the insert
checks the foreign key and the unique index at its own time, not at the lookup's,
and because a cascade drops the cars of the owners it drops (`CascadeStep`). The
walk rests on `WalkInv`: every row it still has to meet lies at or after the offset
of its next page, and `total` promises that page. A change that does not disturb the
walk keeps the order of the rows the list had and so can only move a row to a
later position (`PositionGrows`). That a written row leaves a linear order linear
is `WrittenOrder`; without it a page would not be a set of consecutive rows, and
`FleetTypeCorrect` says so of every table.

**RbacProofs.** `GuardInv`: what a guard has read, and no change overlapped, is
what the tables say. `ChangesTaint` is the lemma behind it (every step that alters
anyone's permissions marks the guards at work; `NoDanglingAssignment` is what makes
a new role or permission harmless), `CommitOwes` the one behind
`StaleListHasCause`: a commit alters nobody's permissions but of those it then
owes a deletion. `SeedInv`, which gives `SeedIsComplete`, says that a start no
change overlapped still holds exactly what the tables lack.

**OtpProofs.** `CodeInv` numbers the generations and records overlaps; `KnownInv`
says that a code is delivered after it is cached, so a consumed code is one whose
`cache.set` is past; `MissInv` that a validation which missed or emptied the cache
will not find its code there again. With these `UsedIsNotCached` and
`CachedIsLatest` are inductive. `CountInv` bounds uses by the width, as `SpendInv`
does for refreshes. `LimitInv` is about the limiter: one request at most has still
to set the expiry, and its place under the maximum is not yet taken.

**EventBusProofs.** `StreamInv` follows a start through its two `add_stream` calls;
the scheduler's two are the same; a configuration accepted once stays, because no call
replaces it. `CacheInv` says that a process with a security cache invalidates in Redis,
that no request is ahead of the row and that an update past its handlers left no
older entry; `AuditInv` and `NoteInv` order publish, record, notification and
commit. `FailsClosed` is a property of steps and follows from the types: a running
process outside tests has no cache that accepts everything.

Every invariant and every action property that a passing run checks is proved. Only
model-checked is liveness (`RequestsEnd`, `MessagesSettle`, `DeadLettersSettle`,
`CreatesEnd`, `ProfileConverges`, `PermissionsConverge`), which is out of the prover's
reach. `TransitionsAreValid` is refuted by a run, and `SerialHistory` is what holds
in its place.

## Not modelled, and the plan

* Read endpoints that answer from one SELECT (get by id, lists of roles,
  permissions, orders, dead letters and event store rows) change no state and
  promise nothing across requests; the paged lists stand for them in `Fleet`.
* Replay of `event_store` rows re-sends one row and changes none.
* The event serializer, slugs, hashing, JWT encoding, email templates, settings,
  response envelopes and error mapping are pure conversions; where their outcome
  matters it is a set or a guard of a module.
* The session cookie and forms of the admin panel are the library's.
* Migrations: `entrypoint.sh` runs `alembic upgrade head` whenever a container starts,
  before its server; that two containers may do so together is not modelled. The
  constraints they create are those the modules rely on.
* Registrations in `Fleet`: its users are there from the start, and it is restores and
  status changes that bring a row into the list of users during a walk.
* Renames of roles and permissions in the admin panel. To a cached list they are what a
  deletion and a grant are, which `Rbac` has.

Left in the plan, in this order: a composition of `Outbox`, `Delivery` and
`DeadLetter` into one pipeline with the replay loop closed; `NATS_ENABLED=false` as a second
implementation of a weaker promise than `AtLeastOnce`.
