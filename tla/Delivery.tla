------------------------------ MODULE Delivery ------------------------------
(***************************************************************************)
(* The worker's side of the event bus: `_consume_loop`, `_handle_message`, *)
(* `_handle_delivery_failure`, `_route_poison_message` and `_dead_letter`  *)
(* of app/core/nats_bus.py, for one event type, run by the processes of    *)
(* app/worker.py against one durable JetStream pull consumer.              *)
(*                                                                         *)
(* The stream has WORK_QUEUE retention and the consumer explicit acks with *)
(* max_deliver = NATS_CONSUMER_MAX_DELIVER: an acked message is removed,   *)
(* an unacked one is redelivered when it is nak'ed or when ack_wait runs   *)
(* out, until it has been delivered MaxDeliver times.  JetStream itself is *)
(* external; only what the worker relies on is modelled.                   *)
(***************************************************************************)
EXTENDS Integers, FiniteSets

CONSTANTS
    Workers,         \* worker processes sharing the durable consumer
    Messages,        \* messages of the events stream
    Poison,          \* the ones that cannot be deserialized
    NoMessage,       \* a worker that handles nothing
    MaxDeliver,      \* NATS_CONSUMER_MAX_DELIVER (3 in the code)
    FetchBatch,      \* fetch(batch=10)
    MaxSlips,        \* bound: crashes, lost acks and naks, expired ack_waits
    MaxDlqFailures   \* bound: failed publishes to the DLQ subject

ASSUME DeliveryAssumption ==
    /\ Poison \subseteq Messages
    /\ NoMessage \notin Messages
    /\ MaxDeliver \in Nat \ {0}
    /\ FetchBatch \in Nat \ {0}
    /\ MaxSlips \in Nat
    /\ MaxDlqFailures \in Nat

VARIABLES
    broker,       \* what JetStream will do with each message
    deliveries,   \* how often it has delivered it
    pc,           \* where each worker is
    inbox,        \* the fetched messages a worker has not finished with
    cur,          \* the one it is handling
    num,          \* metadata.num_delivered of the deliveries it holds
    effects,      \* deliveries whose handler committed its side effect
    dlq,          \* deliveries that put a copy in the DLQ stream
    slips,        \* faults so far, see MaxSlips
    dlqFailures   \* see MaxDlqFailures

brokerVars == <<broker, deliveries>>
workerVars == <<pc, inbox, cur, num>>
outcomeVars == <<effects, dlq>>
faultVars == <<slips, dlqFailures>>
vars == <<brokerVars, workerVars, outcomeVars, faultVars>>

BrokerStates == {"absent", "ready", "pending", "exhausted", "acked"}
Pcs == {"idle", "handle", "ack", "failed", "nak", "deadletter", "dlqack", "dead"}

Init ==
    /\ broker = [m \in Messages |-> "absent"]
    /\ deliveries = [m \in Messages |-> 0]
    /\ pc = [w \in Workers |-> "idle"]
    /\ inbox = [w \in Workers |-> {}]
    /\ cur = [w \in Workers |-> NoMessage]
    /\ num = [w \in Workers |-> [m \in Messages |-> 0]]
    /\ effects = {}
    /\ dlq = {}
    /\ slips = 0
    /\ dlqFailures = 0

-----------------------------------------------------------------------------
(* JetStream, as the worker sees it (external).                            *)

\* Mutant: the consumer is created with one delivery too many.
RequeuedOnceMore(m) == IF deliveries[m] <= MaxDeliver THEN "ready" ELSE "exhausted"

\* A message that is not settled becomes available again, or, once it has
\* been delivered MaxDeliver times, is never delivered again.
Requeued(m) == IF deliveries[m] < MaxDeliver THEN "ready" ELSE "exhausted"

\* An ack removes the message, also when the delivery it answers is no longer
\* the last one.  For a message past its last delivery the ack may come too
\* late.
BrokerAck(m) ==
    \/ broker' = [broker EXCEPT ![m] = "acked"]
    \/ broker[m] = "exhausted" /\ broker' = broker

BrokerNak(m) ==
    broker' = [broker EXCEPT ![m] = IF @ = "pending" THEN Requeued(m) ELSE @]

\* The relay, a scheduler or a replay stores a message.
Publish(m) ==
    /\ broker[m] = "absent"
    /\ broker' = [broker EXCEPT ![m] = "ready"]
    /\ UNCHANGED <<deliveries, workerVars, outcomeVars, faultVars>>

Held(m) == \E w \in Workers : m \in inbox[w]

\* ack_wait runs out for a message nobody holds any more.
AckWaitExpires(m) ==
    /\ broker[m] = "pending"
    /\ ~Held(m)
    /\ broker' = [broker EXCEPT ![m] = Requeued(m)]
    /\ UNCHANGED <<deliveries, workerVars, outcomeVars, faultVars>>

\* ack_wait runs out while a worker is still busy with the message, or with
\* others of the batch it came in.
AckWaitExpiresEarly(m) ==
    /\ slips < MaxSlips
    /\ broker[m] = "pending"
    /\ Held(m)
    /\ broker' = [broker EXCEPT ![m] = Requeued(m)]
    /\ slips' = slips + 1
    /\ UNCHANGED <<deliveries, workerVars, outcomeVars, dlqFailures>>

-----------------------------------------------------------------------------
(* The worker.                                                             *)

Goto(w, label) == pc' = [pc EXCEPT ![w] = label]

\* The loop goes on to the next message.
Finish(w) ==
    /\ Goto(w, "idle")
    /\ inbox' = [inbox EXCEPT ![w] = @ \ {cur[w]}]
    /\ cur' = [cur EXCEPT ![w] = NoMessage]
    /\ num' = [num EXCEPT ![w][cur[w]] = 0]

\* The delivery a worker is handling.
CurDelivery(w) == <<cur[w], num[w][cur[w]]>>

\* _consume_loop: sub.fetch returns a batch; a timeout changes nothing.
Fetch(w) ==
    /\ pc[w] = "idle"
    /\ inbox[w] = {}
    /\ \E S \in SUBSET {m \in Messages : broker[m] = "ready"} :
          /\ S # {}
          /\ Cardinality(S) <= FetchBatch
          /\ broker' = [m \in Messages |-> IF m \in S THEN "pending" ELSE broker[m]]
          /\ deliveries' = [m \in Messages |->
                               IF m \in S THEN deliveries[m] + 1 ELSE deliveries[m]]
          /\ inbox' = [inbox EXCEPT ![w] = S]
          /\ num' = [num EXCEPT ![w] = [m \in Messages |->
                               IF m \in S THEN deliveries[m] + 1 ELSE 0]]
    /\ UNCHANGED <<pc, cur, outcomeVars, faultVars>>

\* _handle_message deserializes; a poison message goes to _route_poison_message,
\* which dead-letters it whatever its delivery count.
Take(w) ==
    /\ pc[w] = "idle"
    /\ \E m \in inbox[w] :
          /\ cur' = [cur EXCEPT ![w] = m]
          /\ Goto(w, IF m \in Poison THEN "deadletter" ELSE "handle")
    /\ UNCHANGED <<brokerVars, inbox, num, outcomeVars, faultVars>>

\* The handlers return: the notification is recorded and committed.
HandlerOk(w) ==
    /\ pc[w] = "handle"
    /\ effects' = effects \cup {CurDelivery(w)}
    /\ Goto(w, "ack")
    /\ UNCHANGED <<brokerVars, inbox, cur, num, dlq, faultVars>>

\* A handler raises; its own transaction may have been committed before.
HandlerFails(w) ==
    /\ pc[w] = "handle"
    /\ effects' \in {effects, effects \cup {CurDelivery(w)}}
    /\ Goto(w, "failed")
    /\ UNCHANGED <<brokerVars, inbox, cur, num, dlq, faultVars>>

\* Mutant: the original stays in the stream after it was dead-lettered.
AckForgetsDlq(w) ==
    /\ pc[w] \in {"ack", "dlqack"}
    /\ IF pc[w] = "ack" THEN BrokerAck(cur[w]) ELSE broker' = broker
    /\ Finish(w)
    /\ UNCHANGED <<deliveries, outcomeVars, faultVars>>

\* msg.ack() after the handlers, or after the DLQ copy is stored.
Ack(w) ==
    /\ pc[w] \in {"ack", "dlqack"}
    /\ BrokerAck(cur[w])
    /\ Finish(w)
    /\ UNCHANGED <<deliveries, outcomeVars, faultVars>>

\* The ack is sent without waiting for an answer and is lost on the way.
AckLost(w) ==
    /\ slips < MaxSlips
    /\ pc[w] \in {"ack", "dlqack"}
    /\ slips' = slips + 1
    /\ Finish(w)
    /\ UNCHANGED <<brokerVars, outcomeVars, dlqFailures>>

\* msg.ack() raises inside the try of _handle_message: a handled message is
\* treated like a failed one.
AckRaises(w) ==
    /\ pc[w] = "ack"
    /\ Goto(w, "failed")
    /\ UNCHANGED <<brokerVars, inbox, cur, num, outcomeVars, faultVars>>

\* Mutant: the limit is off by one and the message gives up early.
DeliveryFailedEarly(w) ==
    /\ pc[w] = "failed"
    /\ Goto(w, IF num[w][cur[w]] < MaxDeliver - 1 THEN "nak" ELSE "deadletter")
    /\ UNCHANGED <<brokerVars, inbox, cur, num, outcomeVars, faultVars>>

\* _handle_delivery_failure.
DeliveryFailed(w) ==
    /\ pc[w] = "failed"
    /\ Goto(w, IF num[w][cur[w]] < MaxDeliver THEN "nak" ELSE "deadletter")
    /\ UNCHANGED <<brokerVars, inbox, cur, num, outcomeVars, faultVars>>

\* _dead_letter: the copy is stored in the DLQ stream.
DlqPublishOk(w) ==
    /\ pc[w] = "deadletter"
    /\ dlq' = dlq \cup {CurDelivery(w)}
    /\ Goto(w, "dlqack")
    /\ UNCHANGED <<brokerVars, inbox, cur, num, effects, faultVars>>

\* Mutant: the original is acked although the DLQ has no copy.
DlqPublishFailsAcks(w) ==
    /\ pc[w] = "deadletter"
    /\ dlqFailures < MaxDlqFailures
    /\ dlqFailures' = dlqFailures + 1
    /\ Goto(w, "dlqack")
    /\ UNCHANGED <<brokerVars, inbox, cur, num, outcomeVars, slips>>

\* _dead_letter: the bus is already closed, or the publish raises, whether or
\* not the copy was stored.
DlqPublishFails(w) ==
    /\ pc[w] = "deadletter"
    /\ dlqFailures < MaxDlqFailures
    /\ dlq' \in {dlq, dlq \cup {CurDelivery(w)}}
    /\ dlqFailures' = dlqFailures + 1
    /\ Goto(w, "nak")
    /\ UNCHANGED <<brokerVars, inbox, cur, num, effects, slips>>

\* msg.nak().
Nak(w) ==
    /\ pc[w] = "nak"
    /\ BrokerNak(cur[w])
    /\ Finish(w)
    /\ UNCHANGED <<deliveries, outcomeVars, faultVars>>

NakLost(w) ==
    /\ slips < MaxSlips
    /\ pc[w] = "nak"
    /\ slips' = slips + 1
    /\ Finish(w)
    /\ UNCHANGED <<brokerVars, outcomeVars, dlqFailures>>

\* The process dies, or an exception that nothing catches (fetch, nak, the ack
\* of _dead_letter) ends the gather of main().
WorkerDies(w) ==
    /\ slips < MaxSlips
    /\ pc[w] # "dead"
    /\ slips' = slips + 1
    /\ Goto(w, "dead")
    /\ inbox' = [inbox EXCEPT ![w] = {}]
    /\ cur' = [cur EXCEPT ![w] = NoMessage]
    /\ num' = [num EXCEPT ![w] = [m \in Messages |-> 0]]
    /\ UNCHANGED <<brokerVars, outcomeVars, dlqFailures>>

\* An operator starts the worker again: the durable consumer is still there.
WorkerStarts(w) ==
    /\ pc[w] = "dead"
    /\ Goto(w, "idle")
    /\ UNCHANGED <<brokerVars, inbox, cur, num, outcomeVars, faultVars>>

\* What a live worker goes on doing.
Step(w) ==
    \/ Fetch(w) \/ Take(w)
    \/ HandlerOk(w) \/ HandlerFails(w)
    \/ Ack(w) \/ AckRaises(w)
    \/ DeliveryFailed(w) \/ DlqPublishOk(w) \/ DlqPublishFails(w) \/ Nak(w)

Next ==
    \/ \E m \in Messages : Publish(m) \/ AckWaitExpires(m) \/ AckWaitExpiresEarly(m)
    \/ \E w \in Workers : \/ Step(w) \/ AckLost(w) \/ NakLost(w)
                          \/ WorkerDies(w) \/ WorkerStarts(w)

Spec == Init /\ [][Next]_vars

\* Live workers keep running, and the server times unheld messages out.  No
\* fairness on WorkerStarts: nothing in the deployment restarts a worker.
FairSpec ==
    /\ Spec
    /\ \A w \in Workers : WF_vars(Step(w))
    /\ \A m \in Messages : WF_vars(AckWaitExpires(m))

-----------------------------------------------------------------------------
(* Properties.                                                             *)

Deliveries == Messages \X (1 .. MaxDeliver)

\* Every variable keeps its type; in particular a message is never delivered more
\* often than the max_deliver the consumer was created with.
TypeOK ==
    /\ broker \in [Messages -> BrokerStates]
    /\ deliveries \in [Messages -> 0 .. MaxDeliver]
    /\ pc \in [Workers -> Pcs]
    /\ inbox \in [Workers -> SUBSET Messages]
    /\ cur \in [Workers -> Messages \cup {NoMessage}]
    /\ num \in [Workers -> [Messages -> 0 .. MaxDeliver]]
    /\ effects \subseteq Deliveries
    /\ dlq \subseteq Deliveries
    /\ slips \in 0 .. MaxSlips
    /\ dlqFailures \in 0 .. MaxDlqFailures

Handled(m) == \E n \in 1 .. MaxDeliver : <<m, n>> \in effects
HasCopy(m) == \E n \in 1 .. MaxDeliver : <<m, n>> \in dlq

\* The stream never lets go of an event that no handler completed and the DLQ
\* has no copy of, whatever late, lost or repeated acks and naks arrive.
NoSilentLoss ==
    \A m \in Messages : broker[m] = "acked" => Handled(m) \/ HasCopy(m)

\* A readable event is dead-lettered only by the last delivery it is entitled
\* to, even when workers hold several deliveries of it at once.
DeadLetterIsLast ==
    \A d \in dlq : d[1] \in Poison \/ d[2] = MaxDeliver

\* A readable event that has been dead-lettered is never delivered again: only
\* a poison one may be, when _dead_letter's ack did not reach the broker.
NoRetryAfterDeadLetter ==
    \A m \in Messages \ Poison : HasCopy(m) => broker[m] # "ready"

\* Acked, or out of deliveries because a fault used one up.
Settled(m) ==
    \/ broker[m] = "acked"
    \/ broker[m] = "exhausted" /\ slips + dlqFailures > 0

\* As long as a worker stays alive, every message leaves the stream, handled
\* or dead-lettered; only a fault can leave it there undelivered.
MessagesSettle ==
    <>[](\E w \in Workers : pc[w] # "dead")
        => \A m \in Messages : broker[m] = "ready" ~> Settled(m)
=============================================================================
