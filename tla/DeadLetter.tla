----------------------------- MODULE DeadLetter -----------------------------
(***************************************************************************)
(* Dead letters after they reached the DLQ stream: `start_dlq_consuming`,  *)
(* `_persist_dlq_message` and `_retry_or_abandon_dlq_message` of           *)
(* app/core/nats_bus.py copy them into the dead_letter_events table, and   *)
(* the endpoints of event_outbox/api/router.py replay and resolve them.    *)
(*                                                                         *)
(* The DLQ stream has LIMITS retention: an ack only stops redelivery.  A   *)
(* row of the table is named after the delivery that wrote it.             *)
(***************************************************************************)
EXTENDS Integers, FiniteSets

CONSTANTS
    Copies,          \* messages of the DLQ stream
    Garbled,         \* the ones whose bytes are not a serialized event
    Renamed,         \* the ones whose event class can no longer be imported
    Consumers,       \* worker processes running the DLQ consumer
    Operators,       \* admin requests that replay or resolve a row
    NoCopy,          \* a consumer that holds nothing
    NoRow,           \* an operator request that has not picked a row
    MaxDeliver,      \* NATS_DLQ_CONSUMER_MAX_DELIVER (5 in the code)
    MaxSlips         \* bound: crashes, lost acks, expired ack_waits

ASSUME DeadLetterAssumption ==
    /\ Garbled \subseteq Copies
    /\ Renamed \subseteq Copies \ Garbled
    /\ NoCopy \notin Copies
    /\ MaxDeliver \in Nat \ {0}
    /\ MaxSlips \in Nat

VARIABLES
    broker,       \* what the DLQ consumer of JetStream does with each copy
    deliveries,   \* how often it has delivered it
    pc, cur,      \* each consumer: where it is, the copy it holds
    num,          \* num_delivered of the delivery it holds
    dbFailures,   \* persist attempts of each copy that raised
    table,        \* committed dead_letter_events rows, <<copy, delivery>>
    resolved,     \* rows whose resolved_at is set
    dismissed,    \* rows an operator resolved by hand
    republished,  \* replays the events stream stored, <<row, operator>>
    op,           \* each operator request: where it is
    opRow,        \* and the row it is about
    slips         \* faults so far, see MaxSlips

brokerVars == <<broker, deliveries>>
consumerVars == <<pc, cur, num>>
tableVars == <<table, resolved, dismissed>>
opVars == <<republished, op, opRow>>
vars == <<brokerVars, consumerVars, dbFailures, tableVars, opVars, slips>>

Rows == Copies \X (1 .. MaxDeliver)

Init ==
    /\ broker = [c \in Copies |-> "absent"]
    /\ deliveries = [c \in Copies |-> 0]
    /\ pc = [k \in Consumers |-> "idle"]
    /\ cur = [k \in Consumers |-> NoCopy]
    /\ num = [k \in Consumers |-> 0]
    /\ dbFailures = [c \in Copies |-> 0]
    /\ table = {}
    /\ resolved = {}
    /\ dismissed = {}
    /\ republished = {}
    /\ op = [o \in Operators |-> "idle"]
    /\ opRow = [o \in Operators |-> NoRow]
    /\ slips = 0

-----------------------------------------------------------------------------
(* JetStream (external).                                                   *)

\* Another delivery, as long as max_deliver allows one.
Requeued(c) == IF deliveries[c] < MaxDeliver THEN "ready" ELSE "abandoned"

\* _dead_letter stored a copy.
Arrive(c) ==
    /\ broker[c] = "absent"
    /\ broker' = [broker EXCEPT ![c] = "ready"]
    /\ UNCHANGED <<deliveries, consumerVars, dbFailures, tableVars, opVars, slips>>

Held(c) == \E k \in Consumers : cur[k] = c

AckWaitExpires(c) ==
    /\ broker[c] = "pending"
    /\ ~Held(c)
    /\ broker' = [broker EXCEPT ![c] = Requeued(c)]
    /\ UNCHANGED <<deliveries, consumerVars, dbFailures, tableVars, opVars, slips>>

AckWaitExpiresEarly(c) ==
    /\ slips < MaxSlips
    /\ broker[c] = "pending"
    /\ Held(c)
    /\ broker' = [broker EXCEPT ![c] = Requeued(c)]
    /\ slips' = slips + 1
    /\ UNCHANGED <<deliveries, consumerVars, dbFailures, tableVars, opVars>>

-----------------------------------------------------------------------------
(* The DLQ consumer.                                                       *)

Release(k, label) ==
    /\ pc' = [pc EXCEPT ![k] = label]
    /\ cur' = [cur EXCEPT ![k] = NoCopy]
    /\ num' = [num EXCEPT ![k] = 0]

\* sub.fetch delivers a copy whose backoff, if any, is over.  The copies of a
\* batch are persisted one by one; a batch is that many consumers here.
Fetch(k, c) ==
    /\ pc[k] = "idle"
    /\ broker[c] = "ready"
    /\ broker' = [broker EXCEPT ![c] = "pending"]
    /\ deliveries' = [deliveries EXCEPT ![c] = @ + 1]
    /\ pc' = [pc EXCEPT ![k] = "persist"]
    /\ cur' = [cur EXCEPT ![k] = c]
    /\ num' = [num EXCEPT ![k] = deliveries[c] + 1]
    /\ UNCHANGED <<dbFailures, tableVars, opVars, slips>>

\* _persist_dlq_message: garbled bytes are stored verbatim, so every copy gets
\* a row; add_dead_letter and its commit succeed.
PersistOk(k) ==
    /\ pc[k] = "persist"
    /\ table' = table \cup {<<cur[k], num[k]>>}
    /\ pc' = [pc EXCEPT ![k] = "ack"]
    /\ UNCHANGED <<brokerVars, cur, num, dbFailures, resolved, dismissed, opVars, slips>>

\* Mutant: a failed write is acked instead of retried.
PersistFailsAcks(k) ==
    /\ pc[k] = "persist"
    /\ table' = table
    /\ dbFailures' = [dbFailures EXCEPT ![cur[k]] = @ + 1]
    /\ broker' = [broker EXCEPT ![cur[k]] = "acked"]
    /\ Release(k, "idle")
    /\ UNCHANGED <<deliveries, resolved, dismissed, opVars, slips>>

\* Mutant: the first failed write terminates the copy.
PersistFailsOnce(k) ==
    /\ pc[k] = "persist"
    /\ table' = table
    /\ dbFailures' = [dbFailures EXCEPT ![cur[k]] = @ + 1]
    /\ broker' = [broker EXCEPT ![cur[k]] = "abandoned"]
    /\ Release(k, "idle")
    /\ UNCHANGED <<deliveries, resolved, dismissed, opVars, slips>>

\* Mutant: a failed write extends ack_wait instead of giving the copy back.
PersistFailsKeeps(k) ==
    /\ pc[k] = "persist"
    /\ table' = table
    /\ dbFailures' = dbFailures
    /\ pc' = [pc EXCEPT ![k] = "idle"]
    /\ UNCHANGED <<brokerVars, cur, num, resolved, dismissed, opVars, slips>>

\* The write raises, before or after the database committed it: rollback, then
\* _retry_or_abandon_dlq_message.  Its nak carries a growing delay below the
\* limit and none at the limit; either way JetStream decides by its count.
PersistFails(k) ==
    /\ pc[k] = "persist"
    /\ table' \in {table, table \cup {<<cur[k], num[k]>>}}
    /\ dbFailures' = [dbFailures EXCEPT ![cur[k]] = @ + 1]
    /\ broker' = [broker EXCEPT ![cur[k]] = IF @ = "pending" THEN Requeued(cur[k]) ELSE @]
    /\ Release(k, "idle")
    /\ UNCHANGED <<deliveries, resolved, dismissed, opVars, slips>>

\* msg.ack() after the commit; past the last delivery it may come too late.
Ack(k) ==
    /\ pc[k] = "ack"
    /\ \/ broker' = [broker EXCEPT ![cur[k]] = "acked"]
       \/ broker[cur[k]] = "abandoned" /\ broker' = broker
    /\ Release(k, "idle")
    /\ UNCHANGED <<deliveries, dbFailures, tableVars, opVars, slips>>

AckLost(k) ==
    /\ slips < MaxSlips
    /\ pc[k] = "ack"
    /\ slips' = slips + 1
    /\ Release(k, "idle")
    /\ UNCHANGED <<brokerVars, dbFailures, tableVars, opVars>>

\* The worker dies, by itself or because fetch, ack or nak raised.
ConsumerDies(k) ==
    /\ slips < MaxSlips
    /\ pc[k] # "dead"
    /\ slips' = slips + 1
    /\ Release(k, "dead")
    /\ UNCHANGED <<brokerVars, dbFailures, tableVars, opVars>>

ConsumerStarts(k) ==
    /\ pc[k] = "dead"
    /\ pc' = [pc EXCEPT ![k] = "idle"]
    /\ UNCHANGED <<brokerVars, cur, num, dbFailures, tableVars, opVars, slips>>

-----------------------------------------------------------------------------
(* The admin endpoints.                                                    *)

\* replay_dead_letter_event reads the row and deserializes it, which needs
\* both the bytes and the event class; resolved_at is not looked at.
ReplayReads(o, row) ==
    /\ op[o] = "idle"
    /\ row \in table
    /\ opRow' = [opRow EXCEPT ![o] = row]
    /\ op' = [op EXCEPT ![o] = IF row[1] \in Garbled \cup Renamed THEN "refused" ELSE "publish"]
    /\ UNCHANGED <<brokerVars, consumerVars, dbFailures, tableVars, republished, slips>>

\* Mutant: nothing is published before the row is resolved.
ReplayPublishesMaybe(o) ==
    /\ op[o] = "publish"
    /\ op' = [op EXCEPT ![o] = "mark"]
    /\ UNCHANGED <<brokerVars, consumerVars, dbFailures, tableVars, republished, opRow, slips>>

\* publish_raw is acknowledged by the events stream.
ReplayPublishes(o) ==
    /\ op[o] = "publish"
    /\ republished' = republished \cup {<<opRow[o], o>>}
    /\ op' = [op EXCEPT ![o] = "mark"]
    /\ UNCHANGED <<brokerVars, consumerVars, dbFailures, tableVars, opRow, slips>>

\* publish_raw raises, possibly after the stream stored the message, or the
\* commit of resolved_at raises: the endpoint answers 500 and the row stays
\* unresolved.
ReplayFails(o) ==
    /\ \/ /\ op[o] = "publish"
          /\ republished' \in {republished, republished \cup {<<opRow[o], o>>}}
       \/ /\ op[o] = "mark"
          /\ republished' = republished
    /\ op' = [op EXCEPT ![o] = "error"]
    /\ UNCHANGED <<brokerVars, consumerVars, dbFailures, tableVars, opRow, slips>>

\* mark_dead_letter_resolved and commit.
ReplayMarks(o) ==
    /\ op[o] = "mark"
    /\ resolved' = resolved \cup {opRow[o]}
    /\ op' = [op EXCEPT ![o] = "republished"]
    /\ UNCHANGED <<brokerVars, consumerVars, dbFailures, table, dismissed,
                   republished, opRow, slips>>

\* resolve_dead_letter_event.
Resolve(o, row) ==
    /\ op[o] = "idle"
    /\ row \in table
    /\ resolved' = resolved \cup {row}
    /\ dismissed' = dismissed \cup {row}
    /\ opRow' = [opRow EXCEPT ![o] = row]
    /\ op' = [op EXCEPT ![o] = "dismissed"]
    /\ UNCHANGED <<brokerVars, consumerVars, dbFailures, table, republished, slips>>

ConsumerStep(k) == (\E c \in Copies : Fetch(k, c)) \/ PersistOk(k) \/ PersistFails(k) \/ Ack(k)
OperatorStep(o) == ReplayPublishes(o) \/ ReplayFails(o) \/ ReplayMarks(o)

Next ==
    \/ \E c \in Copies : Arrive(c) \/ AckWaitExpires(c) \/ AckWaitExpiresEarly(c)
    \/ \E k \in Consumers : \/ ConsumerStep(k) \/ AckLost(k)
                            \/ ConsumerDies(k) \/ ConsumerStarts(k)
    \/ \E o \in Operators : \/ OperatorStep(o)
                            \/ \E row \in table : ReplayReads(o, row) \/ Resolve(o, row)

Spec == Init /\ [][Next]_vars

\* As in Delivery: live consumers run on and ack_wait runs out; nobody is
\* bound to restart a worker, to replay or to resolve.
FairSpec ==
    /\ Spec
    /\ \A k \in Consumers : WF_vars(ConsumerStep(k))
    /\ \A c \in Copies : WF_vars(AckWaitExpires(c))

-----------------------------------------------------------------------------
(* Properties.                                                             *)

BrokerStates == {"absent", "ready", "pending", "abandoned", "acked"}

\* Every variable keeps its type; only rows of the table are ever resolved, and no
\* copy is delivered more often than the DLQ consumer's max_deliver.
TypeOK ==
    /\ broker \in [Copies -> BrokerStates]
    /\ deliveries \in [Copies -> 0 .. MaxDeliver]
    /\ pc \in [Consumers -> {"idle", "persist", "ack", "dead"}]
    /\ cur \in [Consumers -> Copies \cup {NoCopy}]
    /\ num \in [Consumers -> 0 .. MaxDeliver]
    /\ dbFailures \in [Copies -> Nat]
    /\ table \subseteq Rows
    /\ resolved \subseteq table
    /\ dismissed \subseteq table
    /\ republished \subseteq Rows \X Operators
    /\ op \in [Operators -> {"idle", "publish", "mark", "refused", "error",
                             "republished", "dismissed"}]
    /\ opRow \in [Operators -> Rows \cup {NoRow}]
    /\ slips \in 0 .. MaxSlips

Persisted(c) == \E n \in 1 .. MaxDeliver : <<c, n>> \in table

\* A dead letter is taken off the consumer only when an operator can see it.
AckedIsPersisted == \A c \in Copies : broker[c] = "acked" => Persisted(c)

\* A transient database outage does not discard a dead letter: one that never
\* reached the table used up every delivery on failed writes and faults.
OutageIsSurvived ==
    \A c \in Copies : (broker[c] = "abandoned" /\ ~Persisted(c))
                         => dbFailures[c] + slips >= MaxDeliver

\* A row counts as resolved only if an operator dismissed it by hand or the
\* events stream holds a replay of it.
ResolvedWasRepublished ==
    \A row \in resolved : row \in dismissed \/ \E o \in Operators : <<row, o>> \in republished

\* While a consumer stays alive every dead letter reaches the table or is
\* given up after the last delivery.
DeadLettersSettle ==
    <>[](\E k \in Consumers : pc[k] # "dead")
        => \A c \in Copies : broker[c] = "ready" ~> (Persisted(c) \/ broker[c] = "abandoned")
=============================================================================
