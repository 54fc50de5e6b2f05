--------------------------- MODULE DeliveryProofs ---------------------------
(***************************************************************************)
(* Proofs about Delivery, for any number of workers and messages, any      *)
(* delivery limit and any number of faults.                                *)
(***************************************************************************)
EXTENDS Delivery, TLAPS

Busy(w) == pc[w] \notin {"idle", "dead"}

\* JetStream hands out a message only while it has deliveries left.
CountInv ==
    /\ \A m \in Messages : broker[m] \in {"absent", "ready"} => deliveries[m] < MaxDeliver
    /\ \A w \in Workers : \A m \in inbox[w] :
          1 <= num[w][m] /\ num[w][m] <= deliveries[m]
    /\ \A d \in dlq : d[2] <= deliveries[d[1]]

\* A worker about to ack has the outcome that justifies the ack, and one about
\* to dead-letter holds a poison message or the last delivery.
WorkerInv ==
    \A w \in Workers :
        /\ Busy(w) => cur[w] \in inbox[w]
        /\ ~Busy(w) => cur[w] = NoMessage
        /\ pc[w] = "ack" => CurDelivery(w) \in effects
        /\ pc[w] = "dlqack" => CurDelivery(w) \in dlq
        /\ pc[w] = "deadletter" => cur[w] \in Poison \/ num[w][cur[w]] = MaxDeliver

\* The conjuncts of the inductive invariant that speak of the outcome.
OutcomeInv == NoSilentLoss /\ DeadLetterIsLast

IInv == TypeOK /\ CountInv /\ WorkerInv /\ OutcomeInv

-----------------------------------------------------------------------------

\* A step keeps every variable in its type.
LEMMA TypeStep ==
    ASSUME IInv, [Next]_vars
    PROVE  TypeOK'
<1> USE DeliveryAssumption DEF IInv, TypeOK, CountInv, WorkerInv, Busy, BrokerStates, Pcs, Deliveries, Goto, brokerVars, workerVars, outcomeVars, faultVars
<1>1. ASSUME NEW m \in Messages, Publish(m) PROVE TypeOK'
  BY <1>1 DEF Publish
<1>2. ASSUME NEW m \in Messages, AckWaitExpires(m) PROVE TypeOK'
  BY <1>2 DEF AckWaitExpires, Requeued
<1>3. ASSUME NEW m \in Messages, AckWaitExpiresEarly(m) PROVE TypeOK'
  BY <1>3 DEF AckWaitExpiresEarly, Requeued
<1>4. ASSUME NEW w \in Workers, Fetch(w) PROVE TypeOK'
  BY <1>4 DEF Fetch
<1>5. ASSUME NEW w \in Workers, Take(w) PROVE TypeOK'
  BY <1>5 DEF Take
<1>6. ASSUME NEW w \in Workers, HandlerOk(w) PROVE TypeOK'
  BY <1>6 DEF HandlerOk, CurDelivery
<1>7. ASSUME NEW w \in Workers, HandlerFails(w) PROVE TypeOK'
  BY <1>7 DEF HandlerFails, CurDelivery
<1>8. ASSUME NEW w \in Workers, Ack(w) PROVE TypeOK'
  <2>1. cur[w] \in Messages /\ cur[w] \in inbox[w]
    BY <1>8 DEF Ack
  <2>2. broker' \in [Messages -> BrokerStates]
    BY <1>8, <2>1 DEF Ack, BrokerAck
  <2>3. pc' \in [Workers -> Pcs] /\ cur' \in [Workers -> Messages \cup {NoMessage}]
    BY <1>8 DEF Ack, Finish
  <2>4. inbox' \in [Workers -> SUBSET Messages]
    BY <1>8 DEF Ack, Finish
  <2>5. num' \in [Workers -> [Messages -> 0 .. MaxDeliver]]
    BY <1>8, <2>1 DEF Ack, Finish
  <2>6. QED
    BY <1>8, <2>2, <2>3, <2>4, <2>5 DEF Ack
<1>9. ASSUME NEW w \in Workers, AckLost(w) PROVE TypeOK'
  BY <1>9 DEF AckLost, Finish
<1>10. ASSUME NEW w \in Workers, AckRaises(w) PROVE TypeOK'
  BY <1>10 DEF AckRaises
<1>11. ASSUME NEW w \in Workers, DeliveryFailed(w) PROVE TypeOK'
  BY <1>11 DEF DeliveryFailed
<1>12. ASSUME NEW w \in Workers, DlqPublishOk(w) PROVE TypeOK'
  BY <1>12 DEF DlqPublishOk, CurDelivery
<1>13. ASSUME NEW w \in Workers, DlqPublishFails(w) PROVE TypeOK'
  BY <1>13 DEF DlqPublishFails, CurDelivery
<1>14. ASSUME NEW w \in Workers, Nak(w) PROVE TypeOK'
  BY <1>14 DEF Nak, BrokerNak, Requeued, Finish
<1>15. ASSUME NEW w \in Workers, NakLost(w) PROVE TypeOK'
  BY <1>15 DEF NakLost, Finish
<1>16. ASSUME NEW w \in Workers, WorkerDies(w) PROVE TypeOK'
  BY <1>16 DEF WorkerDies
<1>17. ASSUME NEW w \in Workers, WorkerStarts(w) PROVE TypeOK'
  BY <1>17 DEF WorkerStarts
<1>18. CASE UNCHANGED vars
  BY <1>18 DEF vars
<1>19. QED
  BY <1>1, <1>2, <1>3, <1>4, <1>5, <1>6, <1>7, <1>8, <1>9, <1>10, <1>11, <1>12, <1>13, <1>14, <1>15, <1>16, <1>17, <1>18 DEF Next, Step

\* A step never hands out a delivery beyond the limit.
LEMMA CountStep ==
    ASSUME IInv, [Next]_vars
    PROVE  CountInv'
<1> USE DeliveryAssumption DEF IInv, TypeOK, CountInv, WorkerInv, Busy, Goto, brokerVars, workerVars, outcomeVars, faultVars
<1>1. ASSUME NEW m \in Messages, Publish(m) PROVE CountInv'
  BY <1>1 DEF Publish
<1>2. ASSUME NEW m \in Messages, AckWaitExpires(m) PROVE CountInv'
  BY <1>2 DEF AckWaitExpires, Requeued
<1>3. ASSUME NEW m \in Messages, AckWaitExpiresEarly(m) PROVE CountInv'
  BY <1>3 DEF AckWaitExpiresEarly, Requeued
<1>4. ASSUME NEW w \in Workers, Fetch(w) PROVE CountInv'
  <2>1. PICK S \in SUBSET {m \in Messages : broker[m] = "ready"} :
          /\ broker' = [m \in Messages |-> IF m \in S THEN "pending" ELSE broker[m]]
          /\ deliveries' = [m \in Messages |->
                               IF m \in S THEN deliveries[m] + 1 ELSE deliveries[m]]
          /\ inbox' = [inbox EXCEPT ![w] = S]
          /\ num' = [num EXCEPT ![w] = [m \in Messages |->
                               IF m \in S THEN deliveries[m] + 1 ELSE 0]]
    BY <1>4 DEF Fetch
  <2>2. \A m \in Messages : deliveries[m] \in Nat /\ deliveries[m] <= deliveries'[m]
    BY <2>1
  <2>3. \A m \in Messages : broker'[m] \in {"absent", "ready"} => deliveries'[m] < MaxDeliver
    BY <2>1
  <2>4. ASSUME NEW v \in Workers, NEW m \in inbox'[v]
        PROVE  1 <= num'[v][m] /\ num'[v][m] <= deliveries'[m]
    <3>1. CASE v = w
      BY <2>1, <2>2, <3>1
    <3>2. CASE v # w
      <4>1. m \in inbox[v] /\ num'[v][m] = num[v][m] /\ m \in Messages
        BY <2>1, <3>2
      <4>2. num[v][m] \in Nat /\ deliveries'[m] \in Nat
        BY <2>1, <4>1
      <4>3. QED
        BY <2>2, <4>1, <4>2
    <3>3. QED
      BY <3>1, <3>2
  <2>5. ASSUME NEW d \in dlq' PROVE d[2] <= deliveries'[d[1]]
    <3>1. d \in dlq /\ d[1] \in Messages /\ d[2] \in Nat
      BY <1>4 DEF Fetch, Deliveries
    <3>2. d[2] <= deliveries[d[1]] /\ deliveries'[d[1]] \in Nat
      BY <2>1, <3>1
    <3>3. QED
      BY <2>2, <3>1, <3>2
  <2>6. QED
    BY <2>3, <2>4, <2>5
<1>5. ASSUME NEW w \in Workers, Take(w) PROVE CountInv'
  BY <1>5 DEF Take
<1>6. ASSUME NEW w \in Workers, HandlerOk(w) PROVE CountInv'
  BY <1>6 DEF HandlerOk, CurDelivery
<1>7. ASSUME NEW w \in Workers, HandlerFails(w) PROVE CountInv'
  BY <1>7 DEF HandlerFails, CurDelivery
<1>8. ASSUME NEW w \in Workers, Ack(w) PROVE CountInv'
  BY <1>8 DEF Ack, BrokerAck, Finish
<1>9. ASSUME NEW w \in Workers, AckLost(w) PROVE CountInv'
  BY <1>9 DEF AckLost, Finish
<1>10. ASSUME NEW w \in Workers, AckRaises(w) PROVE CountInv'
  BY <1>10 DEF AckRaises
<1>11. ASSUME NEW w \in Workers, DeliveryFailed(w) PROVE CountInv'
  BY <1>11 DEF DeliveryFailed
<1>12. ASSUME NEW w \in Workers, DlqPublishOk(w) PROVE CountInv'
  <2>1. ASSUME NEW d \in dlq' PROVE d[2] <= deliveries[d[1]]
    <3>1. CASE d \in dlq
      BY <3>1
    <3>2. CASE d = <<cur[w], num[w][cur[w]]>>
      <4>1. cur[w] \in inbox[w]
        BY <1>12 DEF DlqPublishOk
      <4>2. num[w][cur[w]] <= deliveries[cur[w]]
        BY <4>1
      <4>3. QED
        BY <3>2, <4>2
    <3>3. QED
      BY <1>12, <3>1, <3>2 DEF DlqPublishOk, CurDelivery
  <2>2. QED
    BY <1>12, <2>1 DEF DlqPublishOk
<1>13. ASSUME NEW w \in Workers, DlqPublishFails(w) PROVE CountInv'
  BY <1>13 DEF DlqPublishFails, CurDelivery
<1>14. ASSUME NEW w \in Workers, Nak(w) PROVE CountInv'
  BY <1>14 DEF Nak, BrokerNak, Requeued, Finish
<1>15. ASSUME NEW w \in Workers, NakLost(w) PROVE CountInv'
  BY <1>15 DEF NakLost, Finish
<1>16. ASSUME NEW w \in Workers, WorkerDies(w) PROVE CountInv'
  BY <1>16 DEF WorkerDies
<1>17. ASSUME NEW w \in Workers, WorkerStarts(w) PROVE CountInv'
  BY <1>17 DEF WorkerStarts
<1>18. CASE UNCHANGED vars
  BY <1>18 DEF vars
<1>19. QED
  BY <1>1, <1>2, <1>3, <1>4, <1>5, <1>6, <1>7, <1>8, <1>9, <1>10, <1>11, <1>12, <1>13, <1>14, <1>15, <1>16, <1>17, <1>18 DEF Next, Step

\* A step keeps every worker's next ack or dead-letter justified.
LEMMA WorkerStep ==
    ASSUME IInv, [Next]_vars
    PROVE  WorkerInv'
<1> USE DeliveryAssumption DEF IInv, TypeOK, CountInv, WorkerInv, Busy, CurDelivery, Goto, brokerVars, workerVars, outcomeVars, faultVars
<1>1. ASSUME NEW m \in Messages, Publish(m) PROVE WorkerInv'
  BY <1>1 DEF Publish
<1>2. ASSUME NEW m \in Messages, AckWaitExpires(m) PROVE WorkerInv'
  BY <1>2 DEF AckWaitExpires, Requeued
<1>3. ASSUME NEW m \in Messages, AckWaitExpiresEarly(m) PROVE WorkerInv'
  BY <1>3 DEF AckWaitExpiresEarly, Requeued
<1>4. ASSUME NEW w \in Workers, Fetch(w) PROVE WorkerInv'
  BY <1>4 DEF Fetch
<1>5. ASSUME NEW w \in Workers, Take(w) PROVE WorkerInv'
  BY <1>5 DEF Take
<1>6. ASSUME NEW w \in Workers, HandlerOk(w) PROVE WorkerInv'
  BY <1>6 DEF HandlerOk, CurDelivery
<1>7. ASSUME NEW w \in Workers, HandlerFails(w) PROVE WorkerInv'
  BY <1>7 DEF HandlerFails, CurDelivery
<1>8. ASSUME NEW w \in Workers, Ack(w) PROVE WorkerInv'
  BY <1>8 DEF Ack, BrokerAck, Finish
<1>9. ASSUME NEW w \in Workers, AckLost(w) PROVE WorkerInv'
  BY <1>9 DEF AckLost, Finish
<1>10. ASSUME NEW w \in Workers, AckRaises(w) PROVE WorkerInv'
  BY <1>10 DEF AckRaises
<1>11. ASSUME NEW w \in Workers, DeliveryFailed(w) PROVE WorkerInv'
  <2>1. cur[w] \in inbox[w] /\ cur[w] \in Messages
    BY <1>11 DEF DeliveryFailed
  <2>2. num[w][cur[w]] \in Nat /\ num[w][cur[w]] <= MaxDeliver
    BY <2>1
  <2>3. pc'[w] = "deadletter" => num[w][cur[w]] = MaxDeliver
    <3>1. num[w][cur[w]] < MaxDeliver \/ num[w][cur[w]] = MaxDeliver
      <4> HIDE DEF IInv, TypeOK, CountInv, WorkerInv, CurDelivery
      <4>1. QED
        BY <2>2
    <3>2. ASSUME num[w][cur[w]] < MaxDeliver PROVE pc'[w] = "nak"
      BY <1>11, <3>2 DEF DeliveryFailed
    <3>3. QED
      BY <3>1, <3>2
  <2>4. QED
    BY <1>11, <2>1, <2>3 DEF DeliveryFailed
<1>12. ASSUME NEW w \in Workers, DlqPublishOk(w) PROVE WorkerInv'
  BY <1>12 DEF DlqPublishOk, CurDelivery
<1>13. ASSUME NEW w \in Workers, DlqPublishFails(w) PROVE WorkerInv'
  BY <1>13 DEF DlqPublishFails, CurDelivery
<1>14. ASSUME NEW w \in Workers, Nak(w) PROVE WorkerInv'
  BY <1>14 DEF Nak, BrokerNak, Requeued, Finish
<1>15. ASSUME NEW w \in Workers, NakLost(w) PROVE WorkerInv'
  BY <1>15 DEF NakLost, Finish
<1>16. ASSUME NEW w \in Workers, WorkerDies(w) PROVE WorkerInv'
  BY <1>16 DEF WorkerDies
<1>17. ASSUME NEW w \in Workers, WorkerStarts(w) PROVE WorkerInv'
  BY <1>17 DEF WorkerStarts
<1>18. CASE UNCHANGED vars
  BY <1>18 DEF vars
<1>19. QED
  BY <1>1, <1>2, <1>3, <1>4, <1>5, <1>6, <1>7, <1>8, <1>9, <1>10, <1>11, <1>12, <1>13, <1>14, <1>15, <1>16, <1>17, <1>18 DEF Next, Step

\* A step never lets an unhandled message go, nor dead-letters it early.
LEMMA OutcomeStep ==
    ASSUME IInv, [Next]_vars
    PROVE  OutcomeInv'
<1> USE DeliveryAssumption DEF IInv, TypeOK, CountInv, WorkerInv, Busy, OutcomeInv, NoSilentLoss, DeadLetterIsLast, Handled, HasCopy, Deliveries, CurDelivery, Goto, brokerVars, workerVars, outcomeVars, faultVars
<1>1. ASSUME NEW m \in Messages, Publish(m) PROVE OutcomeInv'
  BY <1>1 DEF Publish
<1>2. ASSUME NEW m \in Messages, AckWaitExpires(m) PROVE OutcomeInv'
  BY <1>2 DEF AckWaitExpires, Requeued
<1>3. ASSUME NEW m \in Messages, AckWaitExpiresEarly(m) PROVE OutcomeInv'
  BY <1>3 DEF AckWaitExpiresEarly, Requeued
<1>4. ASSUME NEW w \in Workers, Fetch(w) PROVE OutcomeInv'
  <2>1. \A m \in Messages : broker'[m] = "acked" => broker[m] = "acked"
    BY <1>4 DEF Fetch
  <2>2. QED
    BY <1>4, <2>1 DEF Fetch
<1>5. ASSUME NEW w \in Workers, Take(w) PROVE OutcomeInv'
  BY <1>5 DEF Take
<1>6. ASSUME NEW w \in Workers, HandlerOk(w) PROVE OutcomeInv'
  BY <1>6 DEF HandlerOk, CurDelivery
<1>7. ASSUME NEW w \in Workers, HandlerFails(w) PROVE OutcomeInv'
  BY <1>7 DEF HandlerFails, CurDelivery
<1>8. ASSUME NEW w \in Workers, Ack(w) PROVE OutcomeInv'
  <2>1. cur[w] \in inbox[w] /\ cur[w] \in Messages
    BY <1>8 DEF Ack
  <2>2. num[w][cur[w]] \in 1 .. MaxDeliver
    BY <2>1
  <2>3. Handled(cur[w]) \/ HasCopy(cur[w])
    BY <1>8, <2>2 DEF Ack
  <2>4. \A m \in Messages : broker'[m] = "acked" => broker[m] = "acked" \/ m = cur[w]
    BY <1>8 DEF Ack, BrokerAck
  <2>5. QED
    BY <1>8, <2>3, <2>4 DEF Ack
<1>9. ASSUME NEW w \in Workers, AckLost(w) PROVE OutcomeInv'
  BY <1>9 DEF AckLost, Finish
<1>10. ASSUME NEW w \in Workers, AckRaises(w) PROVE OutcomeInv'
  BY <1>10 DEF AckRaises
<1>11. ASSUME NEW w \in Workers, DeliveryFailed(w) PROVE OutcomeInv'
  BY <1>11 DEF DeliveryFailed
<1>12. ASSUME NEW w \in Workers, DlqPublishOk(w) PROVE OutcomeInv'
  <2>1. dlq \subseteq dlq' /\ dlq' \subseteq dlq \cup {CurDelivery(w)}
    BY <1>12 DEF DlqPublishOk
  <2>2. cur[w] \in Poison \/ num[w][cur[w]] = MaxDeliver
    BY <1>12 DEF DlqPublishOk
  <2>3. DeadLetterIsLast'
    BY <2>1, <2>2
  <2>4. NoSilentLoss'
    BY <1>12, <2>1 DEF DlqPublishOk
  <2>5. QED
    BY <2>3, <2>4
<1>13. ASSUME NEW w \in Workers, DlqPublishFails(w) PROVE OutcomeInv'
  <2>1. dlq \subseteq dlq' /\ dlq' \subseteq dlq \cup {CurDelivery(w)}
    BY <1>13 DEF DlqPublishFails
  <2>2. cur[w] \in Poison \/ num[w][cur[w]] = MaxDeliver
    BY <1>13 DEF DlqPublishFails
  <2>3. DeadLetterIsLast'
    BY <2>1, <2>2
  <2>4. NoSilentLoss'
    BY <1>13, <2>1 DEF DlqPublishFails
  <2>5. QED
    BY <2>3, <2>4
<1>14. ASSUME NEW w \in Workers, Nak(w) PROVE OutcomeInv'
  BY <1>14 DEF Nak, BrokerNak, Requeued, Finish
<1>15. ASSUME NEW w \in Workers, NakLost(w) PROVE OutcomeInv'
  BY <1>15 DEF NakLost, Finish
<1>16. ASSUME NEW w \in Workers, WorkerDies(w) PROVE OutcomeInv'
  BY <1>16 DEF WorkerDies
<1>17. ASSUME NEW w \in Workers, WorkerStarts(w) PROVE OutcomeInv'
  BY <1>17 DEF WorkerStarts
<1>18. CASE UNCHANGED vars
  BY <1>18 DEF vars
<1>19. QED
  BY <1>1, <1>2, <1>3, <1>4, <1>5, <1>6, <1>7, <1>8, <1>9, <1>10, <1>11, <1>12, <1>13, <1>14, <1>15, <1>16, <1>17, <1>18 DEF Next, Step

-----------------------------------------------------------------------------

\* The strengthening is inductive under every interleaving of workers and
\* every fault.
THEOREM Inductive == Spec => []IInv
<1>1. Init => IInv
  BY DeliveryAssumption DEF Init, IInv, TypeOK, CountInv, WorkerInv, OutcomeInv,
     NoSilentLoss, DeadLetterIsLast, Busy, BrokerStates, Pcs, Deliveries
<1>2. IInv /\ [Next]_vars => IInv'
  BY TypeStep, CountStep, WorkerStep, OutcomeStep DEF IInv
<1>3. QED
  BY <1>1, <1>2, PTL DEF Spec

\* Every variable keeps its type; in particular no message is delivered more
\* often than max_deliver allows.
THEOREM TypeCorrect == Spec => []TypeOK
<1>1. IInv => TypeOK
  BY DEF IInv
<1>2. QED
  BY <1>1, Inductive, PTL

\* The work queue never drops an event without an effect or a DLQ copy.
THEOREM NothingLostSilently == Spec => []NoSilentLoss
<1>1. IInv => NoSilentLoss
  BY DEF IInv, OutcomeInv
<1>2. QED
  BY <1>1, Inductive, PTL

\* A readable event is dead-lettered by its last delivery only.
THEOREM DeadLetteredLast == Spec => []DeadLetterIsLast
<1>1. IInv => DeadLetterIsLast
  BY DEF IInv, OutcomeInv
<1>2. QED
  BY <1>1, Inductive, PTL

\* A readable event that was dead-lettered is never delivered again.
THEOREM DeadLetterEndsRetries == Spec => []NoRetryAfterDeadLetter
<1>1. IInv => NoRetryAfterDeadLetter
  <2> SUFFICES ASSUME IInv, NEW m \in Messages \ Poison, HasCopy(m)
               PROVE  broker[m] # "ready"
    BY DEF NoRetryAfterDeadLetter
  <2>1. PICK n \in 1 .. MaxDeliver : <<m, n>> \in dlq
    BY DEF HasCopy
  <2>2. n = MaxDeliver /\ n <= deliveries[m]
    BY <2>1 DEF IInv, OutcomeInv, DeadLetterIsLast, CountInv
  <2>3. QED
    BY <2>2, DeliveryAssumption DEF IInv, CountInv, TypeOK
<1>2. QED
  BY <1>1, Inductive, PTL
=============================================================================
