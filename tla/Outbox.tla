------------------------------- MODULE Outbox -------------------------------
(***************************************************************************)
(* The transactional outbox of the API process: `durable_unit_of_work`     *)
(* (app/core/database.py), `publish_durable`, `relay_pending_outbox` and   *)
(* `_relay_outbox_row` (app/core/nats_bus.py) over the outbox repository   *)
(* (event_outbox/infrastructure/persistence/repository.py).                *)
(*                                                                         *)
(* A request runs one use case in one database transaction and stages one  *)
(* event in it (create_order and transition_job_status each stage exactly  *)
(* one), so a request also names its outbox row.  After the commit the     *)
(* request relays every pending row it can see, its own and the ones other *)
(* requests left behind, in a second transaction.  Requests interleave at  *)
(* every await that another request can observe.                           *)
(***************************************************************************)
EXTENDS Integers, FiniteSets

CONSTANTS
    Requests,        \* the write requests; also the names of their rows
    BatchLimit,      \* `limit` of get_pending_outbox (100 in the code)
    Unserializable,  \* requests whose event `serialize` refuses
    Rejected         \* requests whose payload the broker always refuses

ASSUME OutboxAssumption ==
    /\ BatchLimit \in Nat \ {0}
    /\ Unserializable \subseteq Requests
    /\ Rejected \subseteq Requests

VARIABLES
    connected,  \* `_js is not None`: set by connect, cleared by close
    pc,         \* where each request is
    clock,      \* transaction start times handed out so far
    createdAt,  \* created_at of the row: the start of its transaction
    committed,  \* requests whose business transaction is committed
    rows,       \* committed outbox rows
    published,  \* rows whose committed published_at is not NULL
    attempts,   \* committed attempts column
    eventStore, \* committed event_store rows, <<row, relaying request>>
    stream,     \* messages JetStream stored, <<row, relaying request>>
    batch,      \* the rows the relay of a request read as pending
    snap,       \* the attempts values it read with them
    todo,       \* the rows of the batch it has still to relay
    cur,        \* the row it is relaying
    marks,      \* rows its open relay transaction set published_at on
    bumps       \* rows its open relay transaction set attempts on

dbVars == <<committed, rows, published, attempts, eventStore>>
relayVars == <<batch, snap, todo, cur, marks, bumps>>
vars == <<connected, pc, clock, createdAt, dbVars, stream, relayVars>>

RelayPcs == {"relay", "publish", "mark", "attempt"}
FinalPcs == {"done", "unrelayed", "failed", "crashed"}
Pcs == {"idle", "open"} \cup RelayPcs \cup FinalPcs

Init ==
    /\ connected = TRUE
    /\ pc = [r \in Requests |-> "idle"]
    /\ clock = 0
    /\ createdAt = [r \in Requests |-> 0]
    /\ committed = {}
    /\ rows = {}
    /\ published = {}
    /\ attempts = [r \in Requests |-> 0]
    /\ eventStore = {}
    /\ stream = {}
    /\ batch = [r \in Requests |-> {}]
    /\ snap = [r \in Requests |-> [e \in Requests |-> 0]]
    /\ todo = [r \in Requests |-> {}]
    /\ cur = [r \in Requests |-> r]
    /\ marks = [r \in Requests |-> {}]
    /\ bumps = [r \in Requests |-> {}]

Goto(r, label) == pc' = [pc EXCEPT ![r] = label]

-----------------------------------------------------------------------------
(* The business transaction.                                               *)

\* Mutant: the event is staged in a session of its own and committed at once.
BeginStagesApart(r) ==
    /\ pc[r] = "idle"
    /\ clock' = clock + 1
    /\ createdAt' = [createdAt EXCEPT ![r] = clock + 1]
    /\ rows' = rows \cup {r}
    /\ Goto(r, "open")
    /\ UNCHANGED <<connected, committed, published, attempts, eventStore,
                   stream, relayVars>>

\* The use case body runs inside the transaction: business writes, then
\* publish_durable.  Nothing of it is visible to others before the commit.
Begin(r) ==
    /\ pc[r] = "idle"
    /\ clock' = clock + 1
    /\ createdAt' = [createdAt EXCEPT ![r] = clock + 1]
    /\ Goto(r, "open")
    /\ UNCHANGED <<connected, dbVars, stream, relayVars>>

\* The rows the commit of r makes visible: publish_durable logs a
\* serialization error and returns, and the transaction goes on without a row.
StagedRows(r) == {r} \ Unserializable

\* session.commit() of the business transaction succeeds.
Commit(r) ==
    /\ pc[r] = "open"
    /\ committed' = committed \cup {r}
    /\ rows' = rows \cup StagedRows(r)
    /\ Goto(r, "relay")
    /\ UNCHANGED <<connected, clock, createdAt, published, attempts,
                   eventStore, stream, relayVars>>

\* The transaction commits but the answer is lost: the request fails with an
\* exception, without a relay, and its row stays behind.
CommitUnacknowledged(r) ==
    /\ pc[r] = "open"
    /\ committed' = committed \cup {r}
    /\ rows' = rows \cup StagedRows(r)
    /\ Goto(r, "failed")
    /\ UNCHANGED <<connected, clock, createdAt, published, attempts,
                   eventStore, stream, relayVars>>

\* The use case, a flush or the commit raises: rollback and re-raise.
Rollback(r) ==
    /\ pc[r] = "open"
    /\ Goto(r, "failed")
    /\ UNCHANGED <<connected, clock, createdAt, dbVars, stream, relayVars>>

-----------------------------------------------------------------------------
(* The relay, in a transaction of its own.                                 *)

Pending == rows \ published

\* Mutant: the newest rows come first.
NewestPending ==
    {B \in SUBSET Pending :
        /\ Cardinality(B) = BatchLimit \/ B = Pending
        /\ Cardinality(B) <= BatchLimit
        /\ \A b \in B, p \in Pending \ B : createdAt[b] > createdAt[p]}

\* get_pending_outbox: the BatchLimit oldest rows, no row lock.
OldestPending ==
    {B \in SUBSET Pending :
        /\ Cardinality(B) = BatchLimit \/ B = Pending
        /\ Cardinality(B) <= BatchLimit
        /\ \A b \in B, p \in Pending \ B : createdAt[b] < createdAt[p]}

ReadPending(r) ==
    /\ pc[r] = "relay"
    /\ connected
    /\ \E B \in OldestPending :
          /\ batch' = [batch EXCEPT ![r] = B]
          /\ todo' = [todo EXCEPT ![r] = B]
          /\ snap' = [snap EXCEPT ![r] = [e \in Requests |-> IF e \in B THEN attempts[e] ELSE 0]]
    /\ Goto(r, "publish")
    /\ UNCHANGED <<connected, clock, createdAt, dbVars, stream,
                   cur, marks, bumps>>

\* relay_pending_outbox with no connection logs and returns; the empty relay
\* transaction is committed.
SkipRelay(r) ==
    /\ pc[r] = "relay"
    /\ ~connected
    /\ Goto(r, "done")
    /\ UNCHANGED <<connected, clock, createdAt, dbVars, stream, relayVars>>

\* Mutant: the batch is relayed in no particular order.
NextRowUnordered(r, e) == e \in todo[r]

\* The row the loop of relay_pending_outbox comes to next.
NextRow(r, e) == e \in todo[r] /\ \A d \in todo[r] : createdAt[e] <= createdAt[d]

\* _js.publish is acknowledged by the stream.
PublishOk(r) ==
    /\ pc[r] = "publish"
    /\ connected
    /\ \E e \in Requests \ Rejected :
          /\ NextRow(r, e)
          /\ cur' = [cur EXCEPT ![r] = e]
          /\ stream' = stream \cup {<<e, r>>}
    /\ Goto(r, "mark")
    /\ UNCHANGED <<connected, clock, createdAt, dbVars, batch, snap, todo,
                   marks, bumps>>

\* _js.publish raises.  A timeout does not tell whether the stream stored the
\* message, so it may be there all the same.
PublishFails(r) ==
    /\ pc[r] = "publish"
    /\ connected
    /\ \E e \in Requests :
          /\ NextRow(r, e)
          /\ cur' = [cur EXCEPT ![r] = e]
          /\ \/ stream' = stream
             \/ e \notin Rejected /\ stream' = stream \cup {<<e, r>>}
    /\ Goto(r, "attempt")
    /\ UNCHANGED <<connected, clock, createdAt, dbVars, batch, snap, todo,
                   marks, bumps>>

\* _relay_outbox_row returns at once when the bus was closed in between.
SkipRow(r) ==
    /\ pc[r] = "publish"
    /\ ~connected
    /\ \E e \in Requests :
          NextRow(r, e) /\ todo' = [todo EXCEPT ![r] = @ \ {e}]
    /\ UNCHANGED <<connected, pc, clock, createdAt, dbVars, stream,
                   batch, snap, cur, marks, bumps>>

\* A row an open relay transaction has updated stays locked until it ends.
Holds(r) == marks[r] \cup bumps[r]
LockFree(r, e) == \A s \in Requests \ {r} : e \notin Holds(s)

\* mark_outbox_published, which waits for the row lock, then add_event_store.
MarkPublished(r) ==
    /\ pc[r] = "mark"
    /\ LockFree(r, cur[r])
    /\ marks' = [marks EXCEPT ![r] = @ \cup {cur[r]}]
    /\ todo' = [todo EXCEPT ![r] = @ \ {cur[r]}]
    /\ Goto(r, "publish")
    /\ UNCHANGED <<connected, clock, createdAt, dbVars, stream,
                   batch, snap, cur, bumps>>

\* Mutant: a failed publish is marked as published as well.
IncrementAttemptsFallsThrough(r) ==
    /\ pc[r] = "attempt"
    /\ LockFree(r, cur[r])
    /\ bumps' = [bumps EXCEPT ![r] = @ \cup {cur[r]}]
    /\ marks' = [marks EXCEPT ![r] = @ \cup {cur[r]}]
    /\ todo' = [todo EXCEPT ![r] = @ \ {cur[r]}]
    /\ Goto(r, "publish")
    /\ UNCHANGED <<connected, clock, createdAt, dbVars, stream,
                   batch, snap, cur>>

\* Mutant: the counter is changed on an object nobody flushes.
IncrementAttemptsUnflushed(r) ==
    /\ pc[r] = "attempt"
    /\ LockFree(r, cur[r])
    /\ todo' = [todo EXCEPT ![r] = @ \ {cur[r]}]
    /\ Goto(r, "publish")
    /\ UNCHANGED <<connected, clock, createdAt, dbVars, stream,
                   batch, snap, cur, marks, bumps>>

\* increment_outbox_attempts: the ORM writes back the value it read plus one.
IncrementAttempts(r) ==
    /\ pc[r] = "attempt"
    /\ LockFree(r, cur[r])
    /\ bumps' = [bumps EXCEPT ![r] = @ \cup {cur[r]}]
    /\ todo' = [todo EXCEPT ![r] = @ \ {cur[r]}]
    /\ Goto(r, "publish")
    /\ UNCHANGED <<connected, clock, createdAt, dbVars, stream,
                   batch, snap, cur, marks>>

\* The relay session is closed: its locks are released, its objects are gone.
EndRelay(r) ==
    /\ batch' = [batch EXCEPT ![r] = {}]
    /\ snap' = [snap EXCEPT ![r] = [e \in Requests |-> 0]]
    /\ todo' = [todo EXCEPT ![r] = {}]
    /\ cur' = [cur EXCEPT ![r] = r]
    /\ marks' = [marks EXCEPT ![r] = {}]
    /\ bumps' = [bumps EXCEPT ![r] = {}]

\* Committed published_at after r commits: only changed columns are written.
PublishedAfter(r) == published \cup marks[r]

\* Mutant: the counter runs down instead of up.
AttemptsAfterDown(r) ==
    [e \in Requests |-> IF e \in bumps[r] THEN snap[r][e] - 1 ELSE attempts[e]]

\* Committed attempts after r commits: the value r read, plus one.
AttemptsAfter(r) ==
    [e \in Requests |-> IF e \in bumps[r] THEN snap[r][e] + 1 ELSE attempts[e]]

\* relay_session.commit().
RelayCommit(r) ==
    /\ pc[r] = "publish"
    /\ todo[r] = {}
    /\ published' = PublishedAfter(r)
    /\ attempts' = AttemptsAfter(r)
    /\ eventStore' = eventStore \cup (marks[r] \X {r})
    /\ EndRelay(r)
    /\ Goto(r, "done")
    /\ UNCHANGED <<connected, clock, createdAt, committed, rows, stream>>

\* A statement or the commit of the relay transaction raises: rollback, log,
\* and the request still succeeds.
RelayAbort(r) ==
    /\ pc[r] \in RelayPcs
    /\ EndRelay(r)
    /\ Goto(r, "unrelayed")
    /\ UNCHANGED <<connected, clock, createdAt, dbVars, stream>>

-----------------------------------------------------------------------------
(* Faults of the process.                                                  *)

\* The process dies, or the request is cancelled; the database rolls back
\* whatever transaction was open and releases its locks.
Crash(r) ==
    /\ pc[r] \in {"open"} \cup RelayPcs
    /\ EndRelay(r)
    /\ Goto(r, "crashed")
    /\ UNCHANGED <<connected, clock, createdAt, dbVars, stream>>

\* NatsEventBus.close at shutdown.
Close ==
    /\ connected
    /\ connected' = FALSE
    /\ UNCHANGED <<pc, clock, createdAt, dbVars, stream, relayVars>>

\* Every request has been answered or lost.
Quiescent == \A r \in Requests : pc[r] \in FinalPcs
Terminated == Quiescent /\ UNCHANGED vars

\* What a request does by itself, once it runs and nothing interrupts it.
Step(r) ==
    \/ Commit(r) \/ CommitUnacknowledged(r) \/ Rollback(r)
    \/ ReadPending(r) \/ SkipRelay(r)
    \/ PublishOk(r) \/ PublishFails(r) \/ SkipRow(r)
    \/ MarkPublished(r) \/ IncrementAttempts(r) \/ RelayCommit(r)

Next ==
    \/ \E r \in Requests : Begin(r) \/ Step(r) \/ RelayAbort(r) \/ Crash(r)
    \/ Close
    \/ Terminated

Spec == Init /\ [][Next]_vars

\* The event loop runs every request that can move, and every publish ends,
\* with an acknowledgement or a timeout.  A database error is not counted on.
FairSpec == Spec /\ \A r \in Requests : WF_vars(Step(r))

-----------------------------------------------------------------------------
(* Properties.                                                             *)

\* Every column and every local of a relay keeps its type; the attempts column,
\* written back from a stale read, never drops below zero.
TypeOK ==
    /\ connected \in BOOLEAN
    /\ pc \in [Requests -> Pcs]
    /\ clock \in Nat
    /\ createdAt \in [Requests -> Nat]
    /\ committed \subseteq Requests
    /\ rows \subseteq Requests
    /\ published \subseteq Requests
    /\ attempts \in [Requests -> Nat]
    /\ eventStore \subseteq Requests \X Requests
    /\ stream \subseteq Requests \X Requests
    /\ batch \in [Requests -> SUBSET Requests]
    /\ snap \in [Requests -> [Requests -> Nat]]
    /\ todo \in [Requests -> SUBSET Requests]
    /\ cur \in [Requests -> Requests]
    /\ marks \in [Requests -> SUBSET Requests]
    /\ bumps \in [Requests -> SUBSET Requests]

Sent == {m[1] : m \in stream}

\* No message ever announces a business write that was not committed,
\* whoever relays the row and however transactions are rolled back.
NoPhantomEvent == Sent \subseteq committed

\* published_at is never set on a row JetStream does not hold, and a row that
\* carries it has an audit record in the event store; the commit of the relay
\* is all or nothing even when it is rolled back, cancelled or overlapped.
PublishedWasSent ==
    /\ published \subseteq Sent
    /\ \A e \in Requests : e \in published <=> \E r \in Requests : <<e, r>> \in eventStore

\* Every audit record stands for a publish of its own: overlapping relays may
\* add several for one row, never more than the messages they sent.
AuditMatchesStream == eventStore \subseteq stream

\* A relay waiting for a row lock.
Waiting(r, e) == pc[r] \in {"mark", "attempt"} /\ e = cur[r] /\ ~LockFree(r, e)

\* Two relays never wait for each other: all of them update rows in
\* created_at order, so PostgreSQL never has a deadlock to break.
NoLockCycle ==
    \A r, s \in Requests, d, e \in Requests :
        ~(r # s /\ Waiting(r, e) /\ e \in Holds(s) /\ Waiting(s, d) /\ d \in Holds(r))

\* A relay that reaches its commit with the bus open settles everything it
\* read: each row is published, by it or by another, or counts one more
\* failed attempt than the relay saw.
RelaySettlesBatch ==
    [][\A r \in Requests : (connected /\ RelayCommit(r)) =>
          \A e \in batch[r] : e \in published' \/ attempts'[e] > snap[r][e]]_vars

Tried(e) == e \in published \/ attempts[e] > 0

\* A request whose relay has committed, with the bus open ever since, has seen its own
\* row tried, by itself or by another relay, unless a full batch of older rows stood
\* before it, each of which has been tried: rows that keep failing starve a younger one
\* only when they fill the batch, and no younger row ever does.
OwnRowIsTried ==
    connected => \A r \in Requests \ Unserializable : pc[r] = "done" =>
        \/ Tried(r)
        \/ \E B \in SUBSET rows :
              /\ Cardinality(B) = BatchLimit
              /\ \A e \in B : createdAt[e] < createdAt[r] /\ Tried(e)

\* Every request that has begun is answered: no fault of the relay and no
\* lock of another relay holds it for ever.  (None begins twice, so it is the
\* same to say that again and again no request is under way.)
RequestsEnd == []<>(\A r \in Requests : pc[r] \in {"idle"} \cup FinalPcs)

-----------------------------------------------------------------------------
(* What the outbox promises: see AtLeastOnce.                              *)

Promise == INSTANCE AtLeastOnce
    WITH Events <- Requests, committed <- committed, sent <- Sent,
         confirmed <- published

\* The outbox, with its overlapping relays and faults, implements the
\* at-least-once contract.
ImplementsPromise == Promise!Spec
=============================================================================
