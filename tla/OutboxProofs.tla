---------------------------- MODULE OutboxProofs ----------------------------
(***************************************************************************)
(* Proofs about the write path.  First Outbox, for any set of requests,    *)
(* any batch limit and any number of overlapping relays; then JobOrdering, *)
(* whose requests stage the events of the outbox, for any requests, jobs,  *)
(* numbers and orders.  The two specifications share no variable.          *)
(***************************************************************************)
EXTENDS Outbox, JobOrdering, SequenceTheorems, TLAPS

Relaying(r) == pc[r] \in {"publish", "mark", "attempt"}

\* What is committed, sent and audited, and in which order it came to be.
DurableInv ==
    /\ rows \subseteq committed
    /\ stream \subseteq rows \X Requests
    /\ eventStore \subseteq stream
    /\ \A e \in Requests :
          e \in published <=> \E r \in Requests : <<e, r>> \in eventStore

\* What the open relay transaction of a request stands on: it works on
\* committed rows, and only marks what it sent itself.
RelayInv ==
    \A r \in Requests :
        /\ batch[r] \subseteq rows
        /\ todo[r] \subseteq batch[r]
        /\ Holds(r) \subseteq batch[r]
        /\ \A e \in marks[r] : <<e, r>> \in stream
        /\ pc[r] \in {"mark", "attempt"} => NextRow(r, cur[r])
        /\ pc[r] = "mark" => <<cur[r], r>> \in stream
        /\ ~Relaying(r) => todo[r] = {} /\ Holds(r) = {}

\* Transaction start times are distinct, and a relay holds only rows older
\* than every row it has still to lock.
OrderInv ==
    /\ \A e \in rows : pc[e] # "idle"
    /\ \A e \in Requests : createdAt[e] <= clock
    /\ \A d, e \in Requests :
          pc[d] # "idle" /\ pc[e] # "idle" /\ createdAt[d] = createdAt[e] => d = e
    /\ \A r \in Requests : \A d \in Holds(r), e \in todo[r] :
          createdAt[d] < createdAt[e]

\* While the bus is open a relay drops no row of its batch: it has still to come to it,
\* or has set one of its two columns.
BatchInv == connected => \A r \in Requests : batch[r] \subseteq todo[r] \cup Holds(r)

\* A full batch of older rows.
OlderBatch(r, B) == Cardinality(B) = BatchLimit /\ \A e \in B : createdAt[e] < createdAt[r]

\* A request on its way to its relay has committed its row; and its relay finds it among
\* the rows it reads, unless it is published or a full batch of older ones stands before it.
ReadInv ==
    \A r \in Requests \ Unserializable :
        /\ pc[r] \in RelayPcs => r \in rows
        /\ Relaying(r) => r \in published \cup batch[r] \/ OlderBatch(r, batch[r])

-----------------------------------------------------------------------------

\* Every variable keeps its type in every step of the outbox.
THEOREM TypeCorrect == Spec => []TypeOK
<1>1. Init => TypeOK
  BY DEF Init, TypeOK, Pcs
<1>2. TypeOK /\ [Next]_vars => TypeOK'
  <2> SUFFICES ASSUME TypeOK, [Next]_vars PROVE TypeOK'
    OBVIOUS
  <2> USE DEF TypeOK, Goto, dbVars, relayVars, Pcs, RelayPcs, FinalPcs
  <2>1. ASSUME NEW r \in Requests, Begin(r) PROVE TypeOK'
    BY <2>1 DEF Begin
  <2>2. ASSUME NEW r \in Requests, Commit(r) PROVE TypeOK'
    BY <2>2 DEF Commit, StagedRows
  <2>3. ASSUME NEW r \in Requests, CommitUnacknowledged(r) PROVE TypeOK'
    BY <2>3 DEF CommitUnacknowledged, StagedRows
  <2>4. ASSUME NEW r \in Requests, Rollback(r) PROVE TypeOK'
    BY <2>4 DEF Rollback
  <2>5. ASSUME NEW r \in Requests, ReadPending(r) PROVE TypeOK'
    BY <2>5 DEF ReadPending, OldestPending, Pending
  <2>6. ASSUME NEW r \in Requests, SkipRelay(r) PROVE TypeOK'
    BY <2>6 DEF SkipRelay
  <2>7. ASSUME NEW r \in Requests, PublishOk(r) PROVE TypeOK'
    BY <2>7 DEF PublishOk
  <2>8. ASSUME NEW r \in Requests, PublishFails(r) PROVE TypeOK'
    BY <2>8 DEF PublishFails
  <2>9. ASSUME NEW r \in Requests, SkipRow(r) PROVE TypeOK'
    BY <2>9 DEF SkipRow
  <2>10. ASSUME NEW r \in Requests, MarkPublished(r) PROVE TypeOK'
    BY <2>10 DEF MarkPublished
  <2>11. ASSUME NEW r \in Requests, IncrementAttempts(r) PROVE TypeOK'
    BY <2>11 DEF IncrementAttempts
  <2>12. ASSUME NEW r \in Requests, RelayCommit(r) PROVE TypeOK'
    BY <2>12 DEF RelayCommit, EndRelay, PublishedAfter, AttemptsAfter
  <2>13. ASSUME NEW r \in Requests, RelayAbort(r) PROVE TypeOK'
    BY <2>13 DEF RelayAbort, EndRelay
  <2>14. ASSUME NEW r \in Requests, Crash(r) PROVE TypeOK'
    BY <2>14 DEF Crash, EndRelay
  <2>15. CASE Close
    BY <2>15 DEF Close
  <2>16. CASE UNCHANGED vars
    BY <2>16 DEF vars
  <2>17. QED
    BY <2>1, <2>2, <2>3, <2>4, <2>5, <2>6, <2>7, <2>8, <2>9, <2>10, <2>11,
       <2>12, <2>13, <2>14, <2>15, <2>16 DEF Next, Step, Terminated
<1>3. QED
  BY <1>1, <1>2, PTL DEF Spec

\* A step keeps the committed, sent and audited sets consistent.
LEMMA DurableStep ==
    ASSUME TypeOK, DurableInv, RelayInv, OrderInv, [Next]_vars
    PROVE  DurableInv'
<1> USE DEF TypeOK, DurableInv, RelayInv, Holds, Goto, dbVars, relayVars
<1>1. ASSUME NEW r \in Requests, Begin(r) PROVE DurableInv'
  BY <1>1 DEF Begin
<1>2. ASSUME NEW r \in Requests, Commit(r) PROVE DurableInv'
  BY <1>2 DEF Commit, StagedRows
<1>3. ASSUME NEW r \in Requests, CommitUnacknowledged(r) PROVE DurableInv'
  BY <1>3 DEF CommitUnacknowledged, StagedRows
<1>4. ASSUME NEW r \in Requests, Rollback(r) PROVE DurableInv'
  BY <1>4 DEF Rollback
<1>5. ASSUME NEW r \in Requests, ReadPending(r) PROVE DurableInv'
  BY <1>5 DEF ReadPending, OldestPending, Pending
<1>6. ASSUME NEW r \in Requests, SkipRelay(r) PROVE DurableInv'
  BY <1>6 DEF SkipRelay
<1>7. ASSUME NEW r \in Requests, PublishOk(r) PROVE DurableInv'
  <2>1. PICK e \in Requests :
          NextRow(r, e) /\ (stream' = stream \/ stream' = stream \cup {<<e, r>>})
    BY <1>7 DEF PublishOk
  <2>2. e \in rows
    BY <2>1 DEF NextRow
  <2>3. stream' \subseteq rows \X Requests /\ eventStore \subseteq stream'
    BY <2>1, <2>2
  <2>4. QED
    BY <2>3, <1>7 DEF PublishOk
<1>8. ASSUME NEW r \in Requests, PublishFails(r) PROVE DurableInv'
  <2>1. PICK e \in Requests :
          NextRow(r, e) /\ (stream' = stream \/ stream' = stream \cup {<<e, r>>})
    BY <1>8 DEF PublishFails
  <2>2. e \in rows
    BY <2>1 DEF NextRow
  <2>3. stream' \subseteq rows \X Requests /\ eventStore \subseteq stream'
    BY <2>1, <2>2
  <2>4. QED
    BY <2>3, <1>8 DEF PublishFails
<1>9. ASSUME NEW r \in Requests, SkipRow(r) PROVE DurableInv'
  BY <1>9 DEF SkipRow
<1>10. ASSUME NEW r \in Requests, MarkPublished(r) PROVE DurableInv'
  BY <1>10 DEF MarkPublished
<1>11. ASSUME NEW r \in Requests, IncrementAttempts(r) PROVE DurableInv'
  BY <1>11 DEF IncrementAttempts
<1>12. ASSUME NEW r \in Requests, RelayCommit(r) PROVE DurableInv'
  <2> USE <1>12 DEF RelayCommit, EndRelay, PublishedAfter
  <2>1. eventStore' \subseteq stream'
    <3>1. ASSUME NEW p \in marks[r] \X {r} PROVE p \in stream
      <4>1. PICK e \in marks[r] : p = <<e, r>>
        OBVIOUS
      <4>2. QED
        BY <4>1
    <3>2. QED
      BY <3>1
  <2>2. ASSUME NEW e \in Requests
        PROVE  e \in published' <=> \E s \in Requests : <<e, s>> \in eventStore'
    <3>1. CASE e \in marks[r]
      <4>1. <<e, r>> \in eventStore'
        BY <3>1
      <4>2. QED
        BY <3>1, <4>1
    <3>2. CASE e \notin marks[r]
      <4>1. \A s \in Requests : <<e, s>> \in eventStore' <=> <<e, s>> \in eventStore
        BY <3>2
      <4>2. QED
        BY <3>2, <4>1
    <3>3. QED
      BY <3>1, <3>2
  <2>3. QED
    BY <2>1, <2>2
<1>13. ASSUME NEW r \in Requests, RelayAbort(r) PROVE DurableInv'
  BY <1>13 DEF RelayAbort, EndRelay
<1>14. ASSUME NEW r \in Requests, Crash(r) PROVE DurableInv'
  BY <1>14 DEF Crash, EndRelay
<1>15. CASE Close
  BY <1>15 DEF Close
<1>16. CASE UNCHANGED vars
  BY <1>16 DEF vars
<1>17. QED
  BY <1>1, <1>2, <1>3, <1>4, <1>5, <1>6, <1>7, <1>8, <1>9, <1>10, <1>11, <1>12, <1>13, <1>14, <1>15, <1>16 DEF Next, Step, Terminated

\* A step keeps every open relay on committed rows it sent itself.
LEMMA RelayStep ==
    ASSUME TypeOK, DurableInv, RelayInv, OrderInv, [Next]_vars
    PROVE  RelayInv'
<1> USE DEF TypeOK, DurableInv, RelayInv, Holds, Relaying, NextRow, RelayPcs, Goto, dbVars, relayVars
<1>1. ASSUME NEW r \in Requests, Begin(r) PROVE RelayInv'
  BY <1>1 DEF Begin, OrderInv
<1>2. ASSUME NEW r \in Requests, Commit(r) PROVE RelayInv'
  BY <1>2 DEF Commit, StagedRows
<1>3. ASSUME NEW r \in Requests, CommitUnacknowledged(r) PROVE RelayInv'
  BY <1>3 DEF CommitUnacknowledged, StagedRows
<1>4. ASSUME NEW r \in Requests, Rollback(r) PROVE RelayInv'
  BY <1>4 DEF Rollback
<1>5. ASSUME NEW r \in Requests, ReadPending(r) PROVE RelayInv'
  BY <1>5 DEF ReadPending, OldestPending, Pending
<1>6. ASSUME NEW r \in Requests, SkipRelay(r) PROVE RelayInv'
  BY <1>6 DEF SkipRelay
<1>7. ASSUME NEW r \in Requests, PublishOk(r) PROVE RelayInv'
  BY <1>7 DEF PublishOk
<1>8. ASSUME NEW r \in Requests, PublishFails(r) PROVE RelayInv'
  BY <1>8 DEF PublishFails
<1>9. ASSUME NEW r \in Requests, SkipRow(r) PROVE RelayInv'
  BY <1>9 DEF SkipRow
<1>10. ASSUME NEW r \in Requests, MarkPublished(r) PROVE RelayInv'
  BY <1>10 DEF MarkPublished
<1>11. ASSUME NEW r \in Requests, IncrementAttempts(r) PROVE RelayInv'
  BY <1>11 DEF IncrementAttempts
<1>12. ASSUME NEW r \in Requests, RelayCommit(r) PROVE RelayInv'
  BY <1>12 DEF RelayCommit, EndRelay, PublishedAfter
<1>13. ASSUME NEW r \in Requests, RelayAbort(r) PROVE RelayInv'
  BY <1>13 DEF RelayAbort, EndRelay
<1>14. ASSUME NEW r \in Requests, Crash(r) PROVE RelayInv'
  BY <1>14 DEF Crash, EndRelay
<1>15. CASE Close
  BY <1>15 DEF Close
<1>16. CASE UNCHANGED vars
  BY <1>16 DEF vars
<1>17. QED
  BY <1>1, <1>2, <1>3, <1>4, <1>5, <1>6, <1>7, <1>8, <1>9, <1>10, <1>11, <1>12, <1>13, <1>14, <1>15, <1>16 DEF Next, Step, Terminated

\* A step keeps every relay locking rows in created_at order.
LEMMA OrderStep ==
    ASSUME TypeOK, DurableInv, RelayInv, OrderInv, [Next]_vars
    PROVE  OrderInv'
<1> USE DEF TypeOK, DurableInv, RelayInv, OrderInv, Holds, Relaying, NextRow, RelayPcs, Goto, dbVars, relayVars
<1>1. ASSUME NEW r \in Requests, Begin(r) PROVE OrderInv'
  <2> USE <1>1 DEF Begin
  <2>1. \A e \in Requests : e # r => createdAt'[e] = createdAt[e] /\ pc'[e] = pc[e]
    OBVIOUS
  <2>2. \A e \in Requests : createdAt'[e] <= clock'
    OBVIOUS
  <2>3. createdAt'[r] = clock + 1 /\ pc'[r] # "idle" /\ r \notin rows
    OBVIOUS
  <2>4. \A d, e \in Requests :
           pc'[d] # "idle" /\ pc'[e] # "idle" /\ createdAt'[d] = createdAt'[e] => d = e
    BY <2>1, <2>3
  <2>5. \A s \in Requests : \A d \in Holds(s), e \in todo[s] : d # r /\ e # r
    BY <2>3
  <2>6. ASSUME NEW s \in Requests, NEW d \in Holds(s)', NEW e \in todo'[s]
        PROVE  createdAt'[d] < createdAt'[e]
    BY <2>1, <2>5
  <2>7. QED
    BY <2>1, <2>2, <2>3, <2>4, <2>6
<1>2. ASSUME NEW r \in Requests, Commit(r) PROVE OrderInv'
  BY <1>2 DEF Commit, StagedRows
<1>3. ASSUME NEW r \in Requests, CommitUnacknowledged(r) PROVE OrderInv'
  BY <1>3 DEF CommitUnacknowledged, StagedRows
<1>4. ASSUME NEW r \in Requests, Rollback(r) PROVE OrderInv'
  BY <1>4 DEF Rollback
<1>5. ASSUME NEW r \in Requests, ReadPending(r) PROVE OrderInv'
  <2> USE <1>5 DEF ReadPending, OldestPending, Pending
  <2>1. ASSUME NEW s \in Requests, NEW d \in Holds(s)', NEW e \in todo'[s]
        PROVE  createdAt'[d] < createdAt'[e]
    <3>1. ~Relaying(r) /\ Holds(r) = {} /\ Holds(s)' = Holds(s)
      OBVIOUS
    <3>2. s # r
      BY <3>1
    <3>3. todo'[s] = todo[s]
      BY <3>2
    <3>4. QED
      BY <3>1, <3>3
  <2>2. QED
    BY <2>1
<1>6. ASSUME NEW r \in Requests, SkipRelay(r) PROVE OrderInv'
  BY <1>6 DEF SkipRelay
<1>7. ASSUME NEW r \in Requests, PublishOk(r) PROVE OrderInv'
  BY <1>7 DEF PublishOk
<1>8. ASSUME NEW r \in Requests, PublishFails(r) PROVE OrderInv'
  BY <1>8 DEF PublishFails
<1>9. ASSUME NEW r \in Requests, SkipRow(r) PROVE OrderInv'
  BY <1>9 DEF SkipRow
<1>10. ASSUME NEW r \in Requests, MarkPublished(r) PROVE OrderInv'
  <2> USE <1>10 DEF MarkPublished
  <2>1. cur[r] \in todo[r] /\ \A e \in todo[r] : createdAt[cur[r]] <= createdAt[e]
    OBVIOUS
  <2>2. ASSUME NEW e \in todo'[r] PROVE createdAt[cur[r]] < createdAt[e]
    <3>1. e \in todo[r] /\ e # cur[r]
      OBVIOUS
    <3>2. pc[e] # "idle" /\ pc[cur[r]] # "idle"
      BY <2>1, <3>1
    <3>3. createdAt[cur[r]] # createdAt[e]
      BY <2>1, <3>1, <3>2
    <3>4. createdAt[cur[r]] \in Nat /\ createdAt[e] \in Nat
      BY <2>1, <3>1
    <3>5. createdAt[cur[r]] <= createdAt[e]
      BY <2>1, <3>1
    <3> HIDE <1>10 DEF MarkPublished, TypeOK, DurableInv, RelayInv, OrderInv, NextRow
    <3>6. QED
      BY <3>3, <3>4, <3>5
  <2>3. ASSUME NEW s \in Requests, NEW d \in Holds(s)', NEW e \in todo'[s]
        PROVE  createdAt'[d] < createdAt'[e]
    <3>1. CASE s = r /\ d = cur[r]
      BY <2>2, <3>1
    <3>2. CASE ~(s = r /\ d = cur[r])
      <4>1. d \in Holds(s) /\ e \in todo[s]
        BY <3>2
      <4>2. QED
        BY <4>1
    <3>3. QED
      BY <3>1, <3>2
  <2>4. QED
    BY <2>3
<1>11. ASSUME NEW r \in Requests, IncrementAttempts(r) PROVE OrderInv'
  <2> USE <1>11 DEF IncrementAttempts
  <2>1. cur[r] \in todo[r] /\ \A e \in todo[r] : createdAt[cur[r]] <= createdAt[e]
    OBVIOUS
  <2>2. ASSUME NEW e \in todo'[r] PROVE createdAt[cur[r]] < createdAt[e]
    <3>1. e \in todo[r] /\ e # cur[r]
      OBVIOUS
    <3>2. pc[e] # "idle" /\ pc[cur[r]] # "idle"
      BY <2>1, <3>1
    <3>3. createdAt[cur[r]] # createdAt[e]
      BY <2>1, <3>1, <3>2
    <3>4. createdAt[cur[r]] \in Nat /\ createdAt[e] \in Nat
      BY <2>1, <3>1
    <3>5. createdAt[cur[r]] <= createdAt[e]
      BY <2>1, <3>1
    <3> HIDE <1>11 DEF IncrementAttempts, TypeOK, DurableInv, RelayInv, OrderInv, NextRow
    <3>6. QED
      BY <3>3, <3>4, <3>5
  <2>3. ASSUME NEW s \in Requests, NEW d \in Holds(s)', NEW e \in todo'[s]
        PROVE  createdAt'[d] < createdAt'[e]
    <3>1. CASE s = r /\ d = cur[r]
      BY <2>2, <3>1
    <3>2. CASE ~(s = r /\ d = cur[r])
      <4>1. d \in Holds(s) /\ e \in todo[s]
        BY <3>2
      <4>2. QED
        BY <4>1
    <3>3. QED
      BY <3>1, <3>2
  <2>4. QED
    BY <2>3
<1>12. ASSUME NEW r \in Requests, RelayCommit(r) PROVE OrderInv'
  BY <1>12 DEF RelayCommit, EndRelay, PublishedAfter
<1>13. ASSUME NEW r \in Requests, RelayAbort(r) PROVE OrderInv'
  BY <1>13 DEF RelayAbort, EndRelay
<1>14. ASSUME NEW r \in Requests, Crash(r) PROVE OrderInv'
  BY <1>14 DEF Crash, EndRelay
<1>15. CASE Close
  BY <1>15 DEF Close
<1>16. CASE UNCHANGED vars
  BY <1>16 DEF vars
<1>17. QED
  BY <1>1, <1>2, <1>3, <1>4, <1>5, <1>6, <1>7, <1>8, <1>9, <1>10, <1>11, <1>12, <1>13, <1>14, <1>15, <1>16 DEF Next, Step, Terminated

-----------------------------------------------------------------------------

\* The strengthening is inductive: it holds at the start and every step of
\* every request keeps it.
THEOREM Inductive == Spec => [](DurableInv /\ RelayInv /\ OrderInv)
<1>1. Init => DurableInv /\ RelayInv /\ OrderInv
  BY DEF Init, DurableInv, RelayInv, OrderInv, Holds, Relaying
<1>2. TypeOK /\ (DurableInv /\ RelayInv /\ OrderInv) /\ [Next]_vars
        => (DurableInv /\ RelayInv /\ OrderInv)'
  BY DurableStep, RelayStep, OrderStep
<1>3. QED
  BY <1>1, <1>2, TypeCorrect, PTL DEF Spec

\* No relay ever sends a message for a business write that is not committed.
THEOREM NoPhantom == Spec => []NoPhantomEvent
<1>1. DurableInv => NoPhantomEvent
  BY DEF DurableInv, NoPhantomEvent, Sent
<1>2. QED
  BY <1>1, Inductive, PTL

\* A row marked published was stored by the broker and has an audit record.
THEOREM MarkedMeansSent == Spec => []PublishedWasSent
<1>1. TypeOK /\ DurableInv => PublishedWasSent
  <2> SUFFICES ASSUME TypeOK, DurableInv, NEW e \in published PROVE e \in Sent
    BY DEF DurableInv, PublishedWasSent
  <2>1. PICK r \in Requests : <<e, r>> \in eventStore
    BY DEF DurableInv, TypeOK
  <2>2. <<e, r>> \in stream
    BY <2>1 DEF DurableInv
  <2>3. QED
    BY <2>2 DEF Sent
<1>2. QED
  BY <1>1, TypeCorrect, Inductive, PTL

\* The event store never has more records of a row than messages were sent.
THEOREM AuditIsHonest == Spec => []AuditMatchesStream
<1>1. DurableInv => AuditMatchesStream
  BY DEF DurableInv, AuditMatchesStream
<1>2. QED
  BY <1>1, Inductive, PTL

\* Relays that wait for each other's row locks cannot exist.
THEOREM NoDeadlock == Spec => []NoLockCycle
<1>1. TypeOK /\ RelayInv /\ OrderInv => NoLockCycle
  <2> SUFFICES ASSUME TypeOK, RelayInv, OrderInv,
                      NEW r \in Requests, NEW s \in Requests,
                      NEW d \in Requests, NEW e \in Requests,
                      Waiting(r, e), e \in Holds(s), Waiting(s, d), d \in Holds(r)
               PROVE  FALSE
    BY DEF NoLockCycle
  <2>1. e \in todo[r] /\ d \in todo[s]
    BY DEF Waiting, RelayInv, NextRow
  <2>2. createdAt[d] < createdAt[e] /\ createdAt[e] < createdAt[d]
    BY <2>1 DEF OrderInv
  <2>3. createdAt[d] \in Nat /\ createdAt[e] \in Nat
    BY DEF TypeOK
  <2>4. QED
    BY <2>2, <2>3
<1>2. QED
  BY <1>1, TypeCorrect, Inductive, PTL

\* A step takes a row off the list of a relay only to set a column of it, unless the bus
\* is closed, and the bus does not open again.
LEMMA BatchStep ==
    ASSUME TypeOK, BatchInv, [Next]_vars
    PROVE  BatchInv'
<1> USE DEF TypeOK, BatchInv, Holds, Goto, dbVars, relayVars
<1>1. ASSUME NEW r \in Requests, Begin(r) \/ Commit(r) \/ CommitUnacknowledged(r) \/ Rollback(r)
      PROVE  BatchInv'
  BY <1>1 DEF Begin, Commit, CommitUnacknowledged, Rollback
<1>2. ASSUME NEW r \in Requests, ReadPending(r) PROVE BatchInv'
  BY <1>2 DEF ReadPending
<1>3. ASSUME NEW r \in Requests, SkipRelay(r) \/ SkipRow(r) PROVE BatchInv'
  BY <1>3 DEF SkipRelay, SkipRow
<1>4. ASSUME NEW r \in Requests, PublishOk(r) \/ PublishFails(r) PROVE BatchInv'
  BY <1>4 DEF PublishOk, PublishFails
<1>5. ASSUME NEW r \in Requests, MarkPublished(r) \/ IncrementAttempts(r) PROVE BatchInv'
  <2>1. /\ connected' = connected /\ batch' = batch
        /\ \A s \in Requests \ {r} : todo'[s] = todo[s] /\ Holds(s)' = Holds(s)
        /\ todo'[r] = todo[r] \ {cur[r]} /\ Holds(r)' = Holds(r) \cup {cur[r]}
    BY <1>5 DEF MarkPublished, IncrementAttempts
  <2> HIDE DEF Holds
  <2>2. QED
    BY <2>1
<1>6. ASSUME NEW r \in Requests, RelayCommit(r) \/ RelayAbort(r) \/ Crash(r) PROVE BatchInv'
  <2>1. /\ connected' = connected /\ batch'[r] = {}
        /\ \A s \in Requests \ {r} :
              batch'[s] = batch[s] /\ todo'[s] = todo[s] /\ Holds(s)' = Holds(s)
    BY <1>6 DEF RelayCommit, RelayAbort, Crash, EndRelay
  <2> HIDE DEF Holds
  <2>2. QED
    BY <2>1
<1>7. CASE Close \/ UNCHANGED vars
  BY <1>7 DEF Close, vars
<1>8. QED
  BY <1>1, <1>2, <1>3, <1>4, <1>5, <1>6, <1>7 DEF Next, Step, Terminated

\* A relay that commits while the bus is open leaves every row it read published, or with
\* more attempts than it saw, whatever other relays did to the row in between.
THEOREM BatchIsSettled == Spec => RelaySettlesBatch
<1>1. Init => BatchInv
  BY DEF Init, BatchInv
<1>2. TypeOK /\ BatchInv /\ [Next]_vars => BatchInv'
  BY BatchStep
<1>3. ASSUME TypeOK, BatchInv, NEW r \in Requests, connected, RelayCommit(r), NEW e \in batch[r]
      PROVE  e \in published' \/ attempts'[e] > snap[r][e]
  <2>1. e \in marks[r] \/ e \in bumps[r]
    BY <1>3 DEF BatchInv, RelayCommit, Holds
  <2>2. e \in Requests /\ snap[r][e] \in Nat
    BY <1>3 DEF TypeOK
  <2>3. e \in bumps[r] => attempts'[e] = snap[r][e] + 1
    BY <1>3, <2>2 DEF RelayCommit, AttemptsAfter
  <2>4. QED
    BY <1>3, <2>1, <2>2, <2>3 DEF RelayCommit, PublishedAfter
<1>4. TypeOK /\ BatchInv =>
        \A r \in Requests : (connected /\ RelayCommit(r)) =>
            \A e \in batch[r] : e \in published' \/ attempts'[e] > snap[r][e]
  BY <1>3
<1>5. QED
  BY <1>1, <1>2, <1>4, TypeCorrect, PTL DEF Spec, RelaySettlesBatch

\* The bus does not open again, rows keep their start times, and a row that has been tried
\* stays so: an increment from a stale value is still an increment.
LEMMA TriedStays ==
    ASSUME TypeOK, OrderInv, [Next]_vars
    PROVE  /\ connected' => connected
           /\ rows \subseteq rows' /\ published \subseteq published'
           /\ \A e \in Requests : pc[e] # "idle" => createdAt'[e] = createdAt[e]
           /\ \A e \in Requests : Tried(e) => Tried(e)'
<1> DEFINE Kept ==
        /\ connected' => connected
        /\ rows \subseteq rows' /\ published \subseteq published'
        /\ \A e \in Requests : pc[e] # "idle" => createdAt'[e] = createdAt[e]
        /\ \A e \in Requests : Tried(e) => Tried(e)'
<1> USE DEF TypeOK, dbVars, relayVars, Tried
<1>1. ASSUME NEW r \in Requests, Begin(r) \/ Commit(r) \/ CommitUnacknowledged(r) \/ Rollback(r)
      PROVE  Kept
  BY <1>1 DEF Begin, Commit, CommitUnacknowledged, Rollback
<1>2. ASSUME NEW r \in Requests,
             ReadPending(r) \/ SkipRelay(r) \/ SkipRow(r) \/ PublishOk(r) \/ PublishFails(r)
      PROVE  Kept
  BY <1>2 DEF ReadPending, SkipRelay, SkipRow, PublishOk, PublishFails
<1>3. ASSUME NEW r \in Requests,
             MarkPublished(r) \/ IncrementAttempts(r) \/ RelayAbort(r) \/ Crash(r)
      PROVE  Kept
  BY <1>3 DEF MarkPublished, IncrementAttempts, RelayAbort, Crash
<1>4. ASSUME NEW r \in Requests, RelayCommit(r) PROVE Kept
  <2>1. /\ UNCHANGED <<connected, rows, createdAt>>
        /\ published \subseteq published'
    BY <1>4 DEF RelayCommit, PublishedAfter
  <2>2. ASSUME NEW e \in Requests PROVE attempts[e] > 0 => attempts'[e] > 0
    BY <1>4, <2>2 DEF RelayCommit, AttemptsAfter
  <2>3. QED
    BY <2>1, <2>2
<1>5. CASE Close \/ UNCHANGED vars
  BY <1>5 DEF Close, vars
<1>6. QED
  BY <1>1, <1>2, <1>3, <1>4, <1>5 DEF Next, Step, Terminated

\* The batch is read after the commit of the request's own row, oldest rows first.
LEMMA OwnRowIsRead ==
    ASSUME TypeOK, RelayInv, OrderInv, ReadInv, NEW r \in Requests \ Unserializable, ReadPending(r)
    PROVE  r \in published \cup batch'[r] \/ OlderBatch(r, batch[r])'
<1>1. PICK B \in OldestPending : batch' = [batch EXCEPT ![r] = B]
  BY DEF ReadPending
<1>2. batch'[r] = B /\ createdAt' = createdAt /\ r \in rows
  BY <1>1 DEF ReadPending, TypeOK, ReadInv, RelayPcs, dbVars
<1>3. CASE r \notin published \cup B
  <2>1. r \in Pending \ B
    BY <1>2, <1>3 DEF Pending
  <2>2. Cardinality(B) = BatchLimit
    BY <2>1 DEF OldestPending
  <2>3. \A e \in B : createdAt[e] < createdAt[r]
    BY <2>1 DEF OldestPending
  <2>4. QED
    BY <1>2, <2>2, <2>3 DEF OlderBatch
<1>4. QED
  BY <1>2, <1>3

\* A step keeps what ReadInv says of a row and the relay of its own request.
LEMMA ReadInvStep ==
    ASSUME TypeOK, RelayInv, OrderInv, ReadInv, [Next]_vars
    PROVE  ReadInv'
<1> SUFFICES ASSUME NEW s \in Requests \ Unserializable
             PROVE  /\ pc'[s] \in RelayPcs => s \in rows'
                    /\ Relaying(s)' => s \in published' \cup batch'[s] \/ OlderBatch(s, batch[s])'
  BY DEF ReadInv
<1>1. /\ rows \subseteq rows' /\ published \subseteq published'
      /\ \A e \in Requests : pc[e] # "idle" => createdAt'[e] = createdAt[e]
  BY TriedStays
<1>2. ASSUME pc[s] \in RelayPcs, batch'[s] = batch[s], Relaying(s)' => Relaying(s)
      PROVE  Relaying(s)' => s \in published' \cup batch'[s] \/ OlderBatch(s, batch[s])'
  <2>1. \A e \in batch[s] : e \in Requests /\ pc[e] # "idle"
    BY DEF RelayInv, OrderInv, TypeOK
  <2>2. createdAt'[s] = createdAt[s] /\ \A e \in batch[s] : createdAt'[e] = createdAt[e]
    BY <1>1, <1>2, <2>1 DEF RelayPcs
  <2>3. OlderBatch(s, batch[s]) => OlderBatch(s, batch[s])'
    BY <1>2, <2>2 DEF OlderBatch
  <2>4. QED
    BY <1>1, <1>2, <2>3 DEF ReadInv, Relaying
<1>3. CASE pc'[s] = pc[s] /\ batch'[s] = batch[s]
  BY <1>1, <1>2, <1>3 DEF ReadInv, Relaying, RelayPcs
<1> USE DEF TypeOK, Goto
<1>4. ASSUME NEW r \in Requests, Begin(r) \/ Commit(r) \/ CommitUnacknowledged(r) \/ Rollback(r)
      PROVE  (s # r => pc'[s] = pc[s]) /\ batch' = batch
             /\ (s = r => pc'[s] \notin {"publish", "mark", "attempt"}
                          /\ (pc'[s] = "relay" => s \in rows'))
  BY <1>4 DEF Begin, Commit, CommitUnacknowledged, Rollback, StagedRows, relayVars
<1>5. ASSUME NEW r \in Requests, ReadPending(r)
      PROVE  s # r => pc'[s] = pc[s] /\ batch'[s] = batch[s]
  BY <1>5 DEF ReadPending
<1>6. ASSUME NEW r \in Requests,
             SkipRelay(r) \/ SkipRow(r) \/ PublishOk(r) \/ PublishFails(r)
                \/ MarkPublished(r) \/ IncrementAttempts(r)
      PROVE  /\ s # r => pc'[s] = pc[s]
             /\ batch' = batch
             /\ s = r => pc[s] \in RelayPcs /\ (pc'[s] = "done" \/ Relaying(s))
  BY <1>6 DEF SkipRelay, SkipRow, PublishOk, PublishFails, MarkPublished, IncrementAttempts,
     RelayPcs, Relaying, relayVars
<1>7. ASSUME NEW r \in Requests, RelayCommit(r) \/ RelayAbort(r) \/ Crash(r)
      PROVE  /\ s # r => pc'[s] = pc[s] /\ batch'[s] = batch[s]
             /\ s = r => pc'[s] \in FinalPcs
  BY <1>7 DEF RelayCommit, RelayAbort, Crash, EndRelay, FinalPcs
<1>8. CASE Close \/ UNCHANGED vars
  BY <1>3, <1>8 DEF Close, vars, relayVars
<1>9. ASSUME NEW r \in Requests, Begin(r) \/ Commit(r) \/ CommitUnacknowledged(r) \/ Rollback(r)
      PROVE  /\ pc'[s] \in RelayPcs => s \in rows'
             /\ Relaying(s)' => s \in published' \cup batch'[s] \/ OlderBatch(s, batch[s])'
  BY <1>3, <1>4, <1>9 DEF Relaying, RelayPcs
<1>10. ASSUME NEW r \in Requests, ReadPending(r)
      PROVE  /\ pc'[s] \in RelayPcs => s \in rows'
             /\ Relaying(s)' => s \in published' \cup batch'[s] \/ OlderBatch(s, batch[s])'
  <2>1. CASE s = r
    <3>1. s \in rows'
      BY <1>1, <1>10, <2>1 DEF ReadInv, ReadPending, RelayPcs
    <3>2. QED
      BY <1>1, <1>10, <2>1, <3>1, OwnRowIsRead
  <2>2. QED
    BY <1>3, <1>5, <1>10, <2>1
<1>11. ASSUME NEW r \in Requests,
             SkipRelay(r) \/ SkipRow(r) \/ PublishOk(r) \/ PublishFails(r)
                \/ MarkPublished(r) \/ IncrementAttempts(r)
      PROVE  /\ pc'[s] \in RelayPcs => s \in rows'
             /\ Relaying(s)' => s \in published' \cup batch'[s] \/ OlderBatch(s, batch[s])'
  <2>1. CASE s = r
    <3>1. pc[s] \in RelayPcs /\ batch'[s] = batch[s] /\ (Relaying(s)' => Relaying(s))
      BY <1>6, <1>11, <2>1 DEF Relaying
    <3>2. QED
      BY <1>1, <1>2, <3>1 DEF ReadInv
  <2>2. QED
    BY <1>3, <1>6, <1>11, <2>1
<1>12. ASSUME NEW r \in Requests, RelayCommit(r) \/ RelayAbort(r) \/ Crash(r)
      PROVE  /\ pc'[s] \in RelayPcs => s \in rows'
             /\ Relaying(s)' => s \in published' \cup batch'[s] \/ OlderBatch(s, batch[s])'
  BY <1>3, <1>7, <1>12 DEF FinalPcs, RelayPcs, Relaying
<1>13. QED
  BY <1>8, <1>9, <1>10, <1>11, <1>12 DEF Next, Step, Terminated

\* What the property says of one request.
LEMMA OwnRowStep ==
    ASSUME TypeOK, TypeOK', RelayInv, OrderInv, BatchInv, ReadInv, OwnRowIsTried, [Next]_vars
    PROVE  OwnRowIsTried'
<1> SUFFICES ASSUME connected', NEW s \in Requests \ Unserializable, pc'[s] = "done"
             PROVE  \/ Tried(s)'
                    \/ \E B \in SUBSET rows' :
                          /\ Cardinality(B) = BatchLimit
                          /\ \A e \in B : createdAt'[e] < createdAt'[s] /\ Tried(e)'
  BY DEF OwnRowIsTried
<1>1. /\ connected
      /\ rows \subseteq rows' /\ published \subseteq published'
      /\ \A e \in Requests : pc[e] # "idle" => createdAt'[e] = createdAt[e]
      /\ \A e \in Requests : Tried(e) => Tried(e)'
  BY TriedStays
<1>2. \A e \in rows : e \in Requests /\ createdAt'[e] = createdAt[e]
  BY <1>1 DEF OrderInv, TypeOK
<1>3. CASE pc[s] = "done"
  <2>1. createdAt'[s] = createdAt[s]
    BY <1>1, <1>3
  <2>2. CASE Tried(s)
    BY <1>1, <2>2
  <2>3. CASE ~Tried(s)
    <3>1. PICK B \in SUBSET rows :
              Cardinality(B) = BatchLimit /\ \A e \in B : createdAt[e] < createdAt[s] /\ Tried(e)
      BY <1>1, <1>3, <2>3 DEF OwnRowIsTried
    <3>2. \A e \in B : createdAt'[e] < createdAt'[s] /\ Tried(e)'
      BY <1>1, <1>2, <2>1, <3>1
    <3>3. QED
      BY <1>1, <3>1, <3>2
  <2>4. QED
    BY <2>2, <2>3
<1>4. CASE pc[s] # "done"
  <2>1. RelayCommit(s)
    BY <1>1, <1>4 DEF Next, Step, Terminated, vars, Begin, Commit, CommitUnacknowledged,
       Rollback, ReadPending, SkipRelay, PublishOk, PublishFails, SkipRow, MarkPublished,
       IncrementAttempts, RelayCommit, RelayAbort, Crash, Close, Goto, TypeOK
  <2>2. batch[s] \subseteq rows /\ Relaying(s) /\ s \in rows
    BY <2>1 DEF RelayCommit, RelayInv, ReadInv, Relaying, RelayPcs
  <2>3. ASSUME NEW e \in batch[s] PROVE Tried(e)'
    <3>1. e \in marks[s] \/ e \in bumps[s]
      BY <1>1, <2>1, <2>3 DEF BatchInv, RelayCommit, Holds
    <3>2. e \in Requests /\ snap[s][e] \in Nat
      BY <2>2, <2>3 DEF TypeOK
    <3>3. e \in bumps[s] => attempts'[e] = snap[s][e] + 1
      BY <2>1, <3>2 DEF RelayCommit, AttemptsAfter
    <3>4. QED
      BY <2>1, <3>1, <3>2, <3>3 DEF RelayCommit, PublishedAfter, Tried
  <2>4. CASE s \in published \cup batch[s]
    BY <1>1, <2>3, <2>4 DEF Tried
  <2>5. CASE OlderBatch(s, batch[s])
    <3>1. \A e \in batch[s] : createdAt'[e] < createdAt'[s] /\ Tried(e)'
      BY <1>2, <2>2, <2>3, <2>5 DEF OlderBatch
    <3>2. QED
      BY <1>1, <2>2, <2>5, <3>1 DEF OlderBatch
  <2>6. QED
    BY <2>2, <2>4, <2>5 DEF ReadInv
<1>5. QED
  BY <1>3, <1>4

\* A row is only ever passed over for a full batch of older ones that have been tried: for
\* any batch limit, any number of overlapping relays and any broker.
THEOREM OwnRowTried == Spec => []OwnRowIsTried
<1>1. Init => BatchInv /\ ReadInv /\ OwnRowIsTried
  BY DEF Init, BatchInv, ReadInv, OwnRowIsTried, RelayPcs, Relaying
<1>2. TypeOK /\ TypeOK' /\ DurableInv /\ RelayInv /\ OrderInv
        /\ (BatchInv /\ ReadInv /\ OwnRowIsTried) /\ [Next]_vars
        => (BatchInv /\ ReadInv /\ OwnRowIsTried)'
  BY BatchStep, ReadInvStep, OwnRowStep
<1>3. QED
  BY <1>1, <1>2, TypeCorrect, Inductive, PTL DEF Spec

\* The outbox implements the at-least-once contract: every step is a step of
\* the contract or leaves what the contract sees unchanged.
THEOREM Refinement == Spec => ImplementsPromise
<1>1. Init => Promise!Init
  BY DEF Init, Promise!Init, Sent
<1>2. TypeOK /\ DurableInv /\ DurableInv' /\ RelayInv /\ [Next]_vars
        => [Promise!Next]_Promise!vars
  <2> SUFFICES ASSUME TypeOK, DurableInv, DurableInv', RelayInv, [Next]_vars
               PROVE  [Promise!Next]_Promise!vars
    OBVIOUS
  <2> DEFINE Stutter == committed' = committed /\ stream' = stream /\ published' = published
  <2>1. Stutter => UNCHANGED Promise!vars
    BY DEF Promise!vars, Sent
  <2>2. ASSUME NEW r \in Requests, Commit(r) \/ CommitUnacknowledged(r)
        PROVE  Promise!Commit(r)
    BY <2>2 DEF Promise!Commit, Commit, CommitUnacknowledged, Sent
  <2>3. ASSUME NEW r \in Requests, PublishOk(r) \/ PublishFails(r)
        PROVE  Stutter \/ \E e \in Requests : Promise!Send(e)
    <3>1. PICK e \in Requests :
            NextRow(r, e) /\ (stream' = stream \/ stream' = stream \cup {<<e, r>>})
      BY <2>3 DEF PublishOk, PublishFails
    <3>2. committed' = committed /\ published' = published
      BY <2>3 DEF PublishOk, PublishFails, dbVars
    <3>3. e \in committed
      BY <3>1 DEF NextRow, RelayInv, DurableInv
    <3>4. CASE stream' = stream \cup {<<e, r>>}
      <4>1. <<e, r>>[1] = e
        OBVIOUS
      <4>2. \A x : x \in Sent' <=> x \in Sent \cup {e}
        BY <3>4, <4>1, Zenon DEF Sent
      <4>3. Sent' = Sent \cup {e}
        BY <4>2, Zenon
      <4>4. QED
        BY <3>2, <3>3, <4>3 DEF Promise!Send
    <3>5. QED
      BY <3>1, <3>2, <3>4
  <2>4. ASSUME NEW r \in Requests, RelayCommit(r)
        PROVE  Promise!Confirm(marks[r])
    <3>1. ASSUME NEW e \in marks[r] PROVE e \in Sent
      <4>1. <<e, r>> \in stream /\ <<e, r>>[1] = e
        BY DEF RelayInv
      <4>2. QED
        BY <4>1, Zenon DEF Sent
    <3>2. QED
      BY <2>4, <3>1 DEF RelayCommit, PublishedAfter, Promise!Confirm, Sent
  <2>5. ASSUME NEW r \in Requests,
               \/ Begin(r) \/ Rollback(r) \/ ReadPending(r) \/ SkipRelay(r)
               \/ SkipRow(r) \/ MarkPublished(r) \/ IncrementAttempts(r)
               \/ RelayAbort(r) \/ Crash(r)
        PROVE  Stutter
    BY <2>5 DEF dbVars, Begin, Rollback, ReadPending, SkipRelay, SkipRow,
       MarkPublished, IncrementAttempts, RelayAbort, Crash
  <2>6. ASSUME Close \/ UNCHANGED vars PROVE Stutter
    BY <2>6 DEF Close, vars, dbVars
  <2>7. \A r \in Requests : marks[r] \in SUBSET Requests
    BY DEF TypeOK
  <2>8. QED
    BY <2>1, <2>2, <2>3, <2>4, <2>5, <2>6, <2>7
       DEF Next, Step, Terminated, Promise!Next
<1>3. QED
  BY <1>1, <1>2, TypeCorrect, Inductive, PTL DEF Spec, ImplementsPromise, Promise!Spec

-----------------------------------------------------------------------------
(***************************************************************************)
(* JobOrdering                                                             *)
(***************************************************************************)

\* An open create has inserted a first part of its keys; nobody else has one of them, in
\* a committed row or in a transaction that is still open.
CreateOk(c) ==
    /\ at[c] \in {"idle", "insert", "done", "failed"}
    /\ at[c] # "insert" => inserted[c] = <<>>
    /\ Len(inserted[c]) <= Len(Keys(c))
    /\ \A i \in 1..Len(inserted[c]) : inserted[c][i] = Keys(c)[i]
    /\ \A k \in KeySet(c) : ~Exists(k)

CreateInv ==
    /\ \A c \in Creates : CreateOk(c)
    /\ \A c, d \in Creates : c # d => KeySet(c) \cap KeySet(d) = {}

Open(t) == at[t] \in {"checked", "update", "flushed"}

\* What the events of job j have said its status was, up to the n-th.
Announced(j, n) == {"PENDING"} \cup {log[j][i].new : i \in 1..n}

\* An open transition was checked against a status that was announced, and shows the
\* status it sets, if it sets one.
CheckedOk(t) == Open(t) =>
    /\ target[t] \in Jobs
    /\ wanted[t] \in TRANSITIONS[seen[t]]
    /\ seen[t] \in Announced(target[t], Len(log[target[t]]))
    /\ (at[t] = "flushed" /\ "job_status" \in dirty[t]) => shown[t] = wanted[t]

TransitionInv == \A t \in Transitions : CheckedOk(t)

\* A transition no other overlaps is the only one of its job, and the row is as it read it.
AloneOk(t) == (Open(t) /\ target[t] \notin overlapped) =>
    /\ OpenOn(target[t]) = {t}
    /\ seen[t] = status[target[t]]
    /\ at[t] \in {"update", "flushed"} => dirty[t] = ColumnsChanged(t)
    /\ at[t] = "flushed" => shown[t] = Written(t)

AloneInv == \A t \in Transitions : AloneOk(t)

OrderingInv ==
    /\ OrderingTypeOK /\ CreateInv /\ TransitionInv /\ AloneInv
    /\ OrdersAtomic /\ SerialHistory /\ EventsExplainStatus

-----------------------------------------------------------------------------
(* Keys and statuses *)

\* The keys of a create are its number, then its jobs.
LEMMA KeysOf ==
    ASSUME NEW c \in Creates
    PROVE  /\ Keys(c) \in Seq(Jobs \cup Numbers)
           /\ Len(Keys(c)) = Len(JobsOf[c]) + 1 /\ Len(JobsOf[c]) \in Nat
           /\ Keys(c)[1] = NumberOf[c]
           /\ \A i \in 1..Len(JobsOf[c]) : Keys(c)[i + 1] = JobsOf[c][i] /\ JobsOf[c][i] \in Jobs
<1>1. JobsOf[c] \in Seq(Jobs) /\ NumberOf[c] \in Numbers
  BY OrderingAssumption
<1>2. JobsOf[c] \in Seq(Jobs \cup Numbers) /\ <<NumberOf[c]>> \in Seq(Jobs \cup Numbers)
  BY <1>1
<1>. DEFINE n == <<NumberOf[c]>>
            js == JobsOf[c]
<1>3. Len(n) = 1 /\ n[1] = NumberOf[c]
  OBVIOUS
<1>. HIDE DEF n
<1>4. /\ n \o js \in Seq(Jobs \cup Numbers) /\ Len(n \o js) = Len(n) + Len(js)
      /\ \A i \in 1..(Len(n) + Len(js)) :
            (n \o js)[i] = IF i <= Len(n) THEN n[i] ELSE js[i - Len(n)]
  BY <1>2, ConcatProperties DEF n
<1>5. Len(js) \in Nat /\ \A i \in 1..Len(js) : js[i] \in Jobs
  BY <1>1
<1>. HIDE DEF js
<1>6. Keys(c) = n \o js
  BY DEF Keys, n, js
<1>7. (n \o js)[1] = n[1]
  BY <1>3, <1>4, <1>5
<1>8. ASSUME NEW i \in 1..Len(js) PROVE (n \o js)[i + 1] = js[i]
  <2>1. i + 1 \in 1..(1 + Len(js)) /\ ~(i + 1 <= 1) /\ (i + 1) - 1 = i
    BY <1>5
  <2>. QED
    BY <1>3, <1>4, <2>1
<1>. QED
  BY <1>3, <1>4, <1>5, <1>6, <1>7, <1>8 DEF js

\* Every key a create has inserted is one of its keys.
LEMMA KeySetOf ==
    ASSUME OrderingTypeOK, NEW c \in Creates
    PROVE  /\ inserted[c] \in Seq(Jobs \cup Numbers) /\ Len(inserted[c]) \in Nat
           /\ KeySet(c) = {inserted[c][i] : i \in 1..Len(inserted[c])}
           /\ KeySet(c) \subseteq Jobs \cup Numbers
<1>1. inserted[c] \in Seq(Jobs \cup Numbers)
  BY DEF OrderingTypeOK
<1>2. /\ DOMAIN inserted[c] = 1..Len(inserted[c])
      /\ \A i \in 1..Len(inserted[c]) : inserted[c][i] \in Jobs \cup Numbers
  BY <1>1
<1>. QED
  BY <1>1, <1>2 DEF KeySet

\* The state machine stays among its statuses and has no edge from a status to itself.
LEMMA Machine ==
    ASSUME NEW s \in Statuses
    PROVE  TRANSITIONS[s] \subseteq Statuses /\ s \notin TRANSITIONS[s]
  BY DEF Statuses, TRANSITIONS

-----------------------------------------------------------------------------
(* Types *)

\* The ways a request moves.
LEMMA OrderingCases ==
    ASSUME [OrderingNext]_orderingVars
    PROVE  \/ \E c \in Creates : \/ CreateBegin(c) \/ InsertRow(c) \/ CreateCommit(c)
                                 \/ at[c] = "insert" /\ EndFailed(c)
           \/ \E t \in Transitions :
                 \/ \E j \in Jobs, new \in Requested :
                       TransitionRead(t, j, new) \/ TransitionRejected(t, j, new)
                 \/ UpdateReads(t) \/ FlushAndRefresh(t) \/ TransitionCommit(t) \/ TransitionCrash(t)
           \/ UNCHANGED orderingVars
  BY DEF OrderingNext, CreateStep, TransitionStep, InsertFails, CreateCrash, Inserting

\* A step keeps every variable in its type.
LEMMA OrderingTypeStep ==
    ASSUME OrderingTypeOK, TransitionInv, [OrderingNext]_orderingVars
    PROVE  OrderingTypeOK'
<1>. USE DEF OrderingTypeOK
<1>1. ASSUME NEW c \in Creates, CreateBegin(c) PROVE OrderingTypeOK'
  BY <1>1 DEF CreateBegin, MoveTo, dataVars, createVars, transVars, Callers
<1>2. ASSUME NEW c \in Creates, InsertRow(c) PROVE OrderingTypeOK'
  <2>1. NextKey(c) \in Jobs \cup Numbers
    <3>1. /\ Len(inserted[c]) \in Nat /\ Len(inserted[c]) < Len(Keys(c))
          /\ Keys(c) \in Seq(Jobs \cup Numbers) /\ Len(Keys(c)) \in Nat
      BY <1>2, KeysOf, KeySetOf DEF InsertRow, Inserting
    <3>2. Len(inserted[c]) + 1 \in 1..Len(Keys(c))
      BY <3>1
    <3>. QED
      BY <3>1, <3>2, ElementOfSeq DEF NextKey
  <2>2. Append(inserted[c], NextKey(c)) \in Seq(Jobs \cup Numbers)
    BY <2>1
  <2>. QED
    BY <1>2, <2>2 DEF InsertRow, dataVars, transVars
<1>3. ASSUME NEW c \in Creates, EndFailed(c) PROVE OrderingTypeOK'
  BY <1>3 DEF EndFailed, MoveTo, dataVars, transVars, Callers
<1>4. ASSUME NEW c \in Creates, CreateCommit(c) PROVE OrderingTypeOK'
  <2>1. NumberOf[c] \in Numbers
    BY OrderingAssumption
  <2>. QED
    BY <1>4, <2>1 DEF CreateCommit, MoveTo, transVars, Callers
<1>5. ASSUME NEW t \in Transitions, NEW j \in Jobs, NEW new \in Requested, TransitionRead(t, j, new)
      PROVE  OrderingTypeOK'
  <2>1. new \in Statuses
    BY <1>5, Machine DEF TransitionRead, CanTransition
  <2>. QED
    BY <1>5, <2>1 DEF TransitionRead, MoveTo, dataVars, createVars, Callers
<1>6. ASSUME NEW t \in Transitions, NEW j \in Jobs, NEW new \in Requested, TransitionRejected(t, j, new)
      PROVE  OrderingTypeOK'
  BY <1>6 DEF TransitionRejected, MoveTo, dataVars, createVars, transVars, Callers
<1>7. ASSUME NEW t \in Transitions, UpdateReads(t) PROVE OrderingTypeOK'
  BY <1>7 DEF UpdateReads, ColumnsChanged, MoveTo, dataVars, createVars, Callers
<1>8. ASSUME NEW t \in Transitions, FlushAndRefresh(t) PROVE OrderingTypeOK'
  <2>1. target[t] \in Jobs
    BY <1>8 DEF FlushAndRefresh, TransitionInv, CheckedOk, Open
  <2>2. Written(t) \in Statuses
    BY <2>1 DEF Written
  <2>. QED
    BY <1>8, <2>2 DEF FlushAndRefresh, MoveTo, dataVars, createVars, Callers
<1>9. ASSUME NEW t \in Transitions, TransitionCommit(t) PROVE OrderingTypeOK'
  <2>1. target[t] \in Jobs
    BY <1>9 DEF TransitionCommit, TransitionInv, CheckedOk, Open
  <2>2. Written(t) \in Statuses /\ JobStatusChanged(t) \in Event
    BY <2>1 DEF Written, JobStatusChanged, Event
  <2>3. /\ status' \in [Jobs -> Statuses]
        /\ at' \in [Callers -> {"idle", "insert", "checked", "update", "flushed", "done", "failed"}]
    BY <1>9, <2>1, <2>2 DEF TransitionCommit, MoveTo, Callers
  <2>4. editable' \in [Jobs -> BOOLEAN]
    <3>1. IsFileEditable(wanted[t]) \in BOOLEAN
      BY DEF IsFileEditable
    <3>2. PICK b \in BOOLEAN : editable' = [editable EXCEPT ![target[t]] = b]
      BY <1>9, <2>1, <3>1 DEF TransitionCommit
    <3>. QED
      BY <3>2
  <2>5. log' \in [Jobs -> Seq(Event)]
    <3>1. Append(log[target[t]], JobStatusChanged(t)) \in Seq(Event)
      BY <2>1, <2>2
    <3>. QED
      BY <1>9, <3>1 DEF TransitionCommit
  <2>. QED
    BY <1>9, <2>3, <2>4, <2>5 DEF TransitionCommit, createVars, transVars
<1>10. ASSUME NEW t \in Transitions, TransitionCrash(t) PROVE OrderingTypeOK'
  BY <1>10 DEF TransitionCrash, MoveTo, dataVars, createVars, transVars, Callers
<1>11. CASE UNCHANGED orderingVars
  BY <1>11 DEF orderingVars, dataVars, createVars, transVars
<1>. QED
  BY <1>1, <1>2, <1>3, <1>4, <1>5, <1>6, <1>7, <1>8, <1>9, <1>10, <1>11, OrderingCases

-----------------------------------------------------------------------------
(* Orders *)

\* Transitions leave the orders alone.
LEMMA CreatesKept ==
    ASSUME OrderingTypeOK, CreateInv, OrdersAtomic,
           UNCHANGED <<orderOf, jobOf, inserted>>, \A c \in Creates : at'[c] = at[c]
    PROVE  CreateInv' /\ OrdersAtomic'
<1>1. ASSUME NEW c \in Creates PROVE KeySet(c)' = KeySet(c) /\ Keys(c)' = Keys(c)
  BY DEF KeySet, Keys
<1>2. \A k : Exists(k)' = Exists(k)
  BY DEF Exists
<1>3. CreateInv'
  BY <1>1, <1>2 DEF CreateInv, CreateOk
<1>4. OrdersAtomic'
  BY DEF OrdersAtomic
<1>. QED
  BY <1>3, <1>4

\* One create moves, to a state that is in order, and takes no key of another.
LEMMA OneCreate ==
    ASSUME CreateInv, NEW c \in Creates, CreateOk(c)',
           \A d \in Creates \ {c} : at'[d] = at[d] /\ inserted'[d] = inserted[d],
           \A d \in Creates \ {c} : KeySet(c)' \cap KeySet(d) = {},
           \A d \in Creates \ {c} : \A k \in KeySet(d) : ~Exists(k)'
    PROVE  CreateInv'
<1>1. ASSUME NEW d \in Creates \ {c} PROVE KeySet(d)' = KeySet(d) /\ Keys(d)' = Keys(d)
  BY DEF KeySet, Keys
<1>2. ASSUME NEW d \in Creates PROVE CreateOk(d)'
  <2>1. CASE d # c
    <3>1. CreateOk(d)
      BY DEF CreateInv
    <3>. QED
      BY <1>1, <2>1, <3>1 DEF CreateOk
  <2>. QED
    BY <2>1
<1>3. ASSUME NEW d \in Creates, NEW e \in Creates, d # e PROVE KeySet(d)' \cap KeySet(e)' = {}
  BY <1>1, <1>3 DEF CreateInv
<1>. QED
  BY <1>2, <1>3 DEF CreateInv

\* A create that begins, is rolled back, or inserts one more key that nobody has.
LEMMA CreateMoves ==
    ASSUME OrderingTypeOK, CreateInv, OrdersAtomic, NEW c \in Creates,
           CreateBegin(c) \/ InsertRow(c) \/ (at[c] = "insert" /\ EndFailed(c))
    PROVE  CreateInv' /\ OrdersAtomic'
<1>1. /\ orderOf' = orderOf /\ jobOf' = jobOf
      /\ \A d \in Creates \ {c} : at'[d] = at[d] /\ inserted'[d] = inserted[d]
      /\ at'[c] \in {"insert", "failed"} /\ (at'[c] # "insert" => inserted'[c] = <<>>)
  BY DEF OrderingTypeOK, CreateBegin, InsertRow, EndFailed, Inserting, MoveTo, dataVars, createVars, Callers
<1>2. (\A k : Exists(k)' = Exists(k)) /\ Keys(c)' = Keys(c) /\ CreateOk(c)
      /\ Len(Keys(c)) \in Nat
  BY <1>1, KeysOf DEF Exists, Keys, CreateInv
<1>3. OrdersAtomic'
  BY <1>1 DEF OrdersAtomic
<1>4. \A d \in Creates \ {c} : \A k \in KeySet(d) : ~Exists(k)'
  BY <1>2 DEF CreateInv, CreateOk
<1>5. CreateOk(c)' /\ \A d \in Creates \ {c} : KeySet(c)' \cap KeySet(d) = {}
  <2>1. CASE InsertRow(c)
    <3>. DEFINE n == Len(inserted[c]) + 1
    <3>1. /\ inserted[c] \in Seq(Jobs \cup Numbers) /\ n \in 1..Len(Keys(c)) /\ Len(Keys(c)) \in Nat
          /\ NextKey(c) = Keys(c)[n] /\ NextKey(c) \in Jobs \cup Numbers
      <4>1. Len(inserted[c]) \in Nat /\ Len(inserted[c]) < Len(Keys(c)) /\ Len(Keys(c)) \in Nat
        BY <2>1, KeysOf, KeySetOf DEF InsertRow, Inserting
      <4>2. n \in 1..Len(Keys(c))
        BY <4>1
      <4>. QED
        BY <4>1, <4>2, KeysOf, KeySetOf, ElementOfSeq DEF NextKey
    <3>2. inserted'[c] = Append(inserted[c], NextKey(c))
      BY <2>1 DEF InsertRow, OrderingTypeOK
    <3>3. /\ Len(inserted'[c]) = n /\ inserted'[c] \in Seq(Jobs \cup Numbers)
          /\ \A i \in 1..n : inserted'[c][i] = IF i = n THEN NextKey(c) ELSE inserted[c][i]
      BY <3>1, <3>2, AppendProperties
    <3>4. Len(inserted'[c]) <= Len(Keys(c)) /\ \A i \in 1..Len(inserted'[c]) : inserted'[c][i] = Keys(c)[i]
      BY <1>2, <3>1, <3>3 DEF CreateOk
    <3>5. KeySet(c)' = KeySet(c) \cup {NextKey(c)}
      <4>1. KeySet(c)' = {inserted'[c][i] : i \in 1..n}
        <5>1. DOMAIN inserted'[c] = 1..n
          BY <3>3
        <5>. QED
          BY <5>1 DEF KeySet
      <4>2. n \in Nat \ {0} /\ KeySet(c) = {inserted[c][i] : i \in 1..(n - 1)}
        BY <3>1, KeySetOf
      <4>. HIDE DEF n
      <4>3. 1..n = (1..(n - 1)) \cup {n} /\ n \notin 1..(n - 1)
        BY <4>2
      <4>4. \A i \in 1..(n - 1) : inserted'[c][i] = inserted[c][i]
        BY <3>3, <4>3
      <4>5. inserted'[c][n] = NextKey(c)
        BY <3>3, <4>3
      <4>. QED
        BY <4>1, <4>2, <4>3, <4>4, <4>5
    <3>6. /\ ~Exists(NextKey(c)) /\ \A d \in Creates \ {c} : NextKey(c) \notin KeySet(d)
      BY <2>1 DEF InsertRow, Taken, Blockers
    <3>7. CreateOk(c)'
      BY <1>1, <1>2, <3>4, <3>5, <3>6 DEF CreateOk
    <3>8. \A d \in Creates \ {c} : KeySet(c)' \cap KeySet(d) = {}
      BY <3>5, <3>6 DEF CreateInv
    <3>. QED
      BY <3>7, <3>8
  <2>2. CASE CreateBegin(c)
    <3>1. inserted'[c] = inserted[c] /\ KeySet(c)' = KeySet(c) /\ at'[c] = "insert"
      BY <2>2 DEF CreateBegin, createVars, KeySet, MoveTo, OrderingTypeOK, Callers
    <3>2. CreateOk(c)'
      BY <1>1, <1>2, <3>1 DEF CreateOk
    <3>3. \A d \in Creates \ {c} : KeySet(c)' \cap KeySet(d) = {}
      BY <3>1 DEF CreateInv
    <3>. QED
      BY <3>2, <3>3
  <2>3. CASE EndFailed(c)
    <3>1. inserted'[c] = <<>>
      BY <2>3 DEF EndFailed, OrderingTypeOK
    <3>2. KeySet(c)' = {} /\ Len(inserted'[c]) = 0
      BY <3>1 DEF KeySet
    <3>3. CreateOk(c)'
      BY <1>1, <1>2, <3>1, <3>2 DEF CreateOk
    <3>. QED
      BY <3>2, <3>3
  <2>. QED
    BY <2>1, <2>2, <2>3
<1>6. CreateInv'
  BY <1>1, <1>4, <1>5, OneCreate
<1>. QED
  BY <1>3, <1>6

\* A create that commits has every one of its keys, and they were nobody's.
LEMMA CreateCommits ==
    ASSUME OrderingTypeOK, CreateInv, OrdersAtomic, NEW c \in Creates, CreateCommit(c)
    PROVE  CreateInv' /\ OrdersAtomic'
<1>1. /\ NumberOf[c] \in Numbers /\ NumberOf[c] \notin Jobs /\ NoOrder \notin Creates
      /\ orderOf' = [orderOf EXCEPT ![NumberOf[c]] = c]
      /\ jobOf' = [j \in Jobs |-> IF j \in KeySet(c) THEN c ELSE jobOf[j]]
      /\ inserted' = [inserted EXCEPT ![c] = <<>>]
      /\ at' = [at EXCEPT ![c] = "done"]
  BY OrderingAssumption DEF CreateCommit, MoveTo
<1>2. CreateOk(c) /\ Len(Keys(c)) \in Nat
  BY KeysOf DEF CreateInv
<1>3. KeySet(c) = {Keys(c)[i] : i \in 1..Len(Keys(c))}
  <2>1. Len(inserted[c]) = Len(Keys(c))
    BY <1>2, KeySetOf DEF CreateCommit, Inserting, CreateOk
  <2>2. \A i \in 1..Len(Keys(c)) : inserted[c][i] = Keys(c)[i]
    BY <1>2, <2>1 DEF CreateOk
  <2>3. KeySet(c) = {inserted[c][i] : i \in 1..Len(Keys(c))}
    BY <2>1, KeySetOf
  <2>. QED
    BY <2>2, <2>3
<1>4. /\ NumberOf[c] \in KeySet(c) /\ orderOf[NumberOf[c]] = NoOrder
      /\ \A i \in 1..Len(JobsOf[c]) : JobsOf[c][i] \in KeySet(c)
  <2>1. 1 \in 1..Len(Keys(c)) /\ \A i \in 1..Len(JobsOf[c]) : i + 1 \in 1..Len(Keys(c))
    BY KeysOf
  <2>2. NumberOf[c] \in KeySet(c) /\ \A i \in 1..Len(JobsOf[c]) : JobsOf[c][i] \in KeySet(c)
    BY <1>3, <2>1, KeysOf
  <2>. QED
    BY <1>1, <1>2, <2>2 DEF CreateOk, Exists
<1>5. \A j \in Jobs : j \in KeySet(c) => jobOf[j] = NoOrder
  BY <1>2 DEF CreateOk, Exists
<1>6. OrdersAtomic'
  <2>1. ASSUME NEW d \in Creates, at'[d] = "done"
        PROVE  orderOf'[NumberOf[d]] = d /\ \A i \in DOMAIN JobsOf[d] : jobOf'[JobsOf[d][i]] = d
    <3>1. CASE d = c
      <4>1. DOMAIN JobsOf[c] = 1..Len(JobsOf[c])
        BY OrderingAssumption
      <4>. QED
        BY <1>1, <1>4, <3>1, <4>1, KeysOf DEF OrderingTypeOK
    <3>2. CASE d # c
      <4>1. at[d] = "done"
        BY <1>1, <2>1, <3>2 DEF Callers, OrderingTypeOK
      <4>2. orderOf[NumberOf[d]] = d /\ \A i \in DOMAIN JobsOf[d] : jobOf[JobsOf[d][i]] = d
        BY <4>1 DEF OrdersAtomic
      <4>3. NumberOf[d] \in Numbers /\ \A i \in DOMAIN JobsOf[d] : JobsOf[d][i] \in Jobs
        BY OrderingAssumption
      <4>. QED
        BY <1>1, <1>4, <1>5, <4>2, <4>3 DEF OrderingTypeOK
    <3>. QED
      BY <3>1, <3>2
  <2>2. ASSUME NEW j \in Jobs, jobOf'[j] # NoOrder
        PROVE  orderOf'[NumberOf[jobOf'[j]]] = jobOf'[j]
    <3>1. CASE j \in KeySet(c)
      BY <1>1, <3>1 DEF OrderingTypeOK
    <3>2. CASE j \notin KeySet(c)
      <4>1. jobOf'[j] = jobOf[j] /\ jobOf[j] \in Creates /\ orderOf[NumberOf[jobOf[j]]] = jobOf[j]
        BY <1>1, <2>2, <3>2 DEF OrdersAtomic, OrderingTypeOK
      <4>2. NumberOf[jobOf[j]] \in Numbers
        BY <4>1, OrderingAssumption
      <4>. QED
        BY <1>1, <1>4, <4>1, <4>2 DEF OrderingTypeOK
    <3>. QED
      BY <3>1, <3>2
  <2>. QED
    BY <2>1, <2>2 DEF OrdersAtomic
<1>7. CreateInv'
  <2>1. /\ \A d \in Creates \ {c} : at'[d] = at[d] /\ inserted'[d] = inserted[d]
        /\ inserted'[c] = <<>> /\ at'[c] = "done" /\ Keys(c)' = Keys(c)
    BY <1>1 DEF Keys, Callers, OrderingTypeOK
  <2>2. KeySet(c)' = {} /\ Len(inserted'[c]) = 0
    BY <2>1 DEF KeySet
  <2>3. ASSUME NEW d \in Creates \ {c}, NEW k \in KeySet(d) PROVE ~Exists(k)'
    <3>1. ~Exists(k) /\ k \notin KeySet(c) /\ k \in Jobs \cup Numbers
      BY KeySetOf DEF CreateInv, CreateOk
    <3>. QED
      BY <1>1, <1>4, <3>1 DEF Exists, OrderingTypeOK
  <2>4. CreateOk(c)'
    BY <1>2, <2>1, <2>2 DEF CreateOk
  <2>. QED
    BY <2>1, <2>2, <2>3, <2>4, OneCreate
<1>. QED
  BY <1>6, <1>7

\* The invariants about orders are kept by every step.
LEMMA OrdersKeptInStep ==
    ASSUME OrderingTypeOK, CreateInv, OrdersAtomic, [OrderingNext]_orderingVars
    PROVE  CreateInv' /\ OrdersAtomic'
<1>1. ASSUME NEW t \in Transitions, NEW j \in Jobs, NEW new \in Requested,
             TransitionRead(t, j, new) \/ TransitionRejected(t, j, new)
      PROVE  UNCHANGED <<orderOf, jobOf, inserted>> /\ \A c \in Creates : at'[c] = at[c]
  BY <1>1, OrderingAssumption DEF OrderingTypeOK, TransitionRead, TransitionRejected, MoveTo,
    dataVars, createVars, Callers
<1>2. ASSUME NEW t \in Transitions,
             UpdateReads(t) \/ FlushAndRefresh(t) \/ TransitionCommit(t) \/ TransitionCrash(t)
      PROVE  UNCHANGED <<orderOf, jobOf, inserted>> /\ \A c \in Creates : at'[c] = at[c]
  BY <1>2, OrderingAssumption DEF OrderingTypeOK, UpdateReads, FlushAndRefresh, TransitionCommit, TransitionCrash,
     MoveTo, dataVars, createVars, Callers
<1>3. CASE UNCHANGED orderingVars
  BY <1>3, CreatesKept DEF orderingVars, dataVars, createVars
<1>. QED
  BY <1>1, <1>2, <1>3, OrderingCases, CreatesKept, CreateMoves, CreateCommits

-----------------------------------------------------------------------------
(* Transitions *)

\* What SerialHistory and EventsExplainStatus say of one job.
SerialOk(j) ==
    /\ \A i \in DOMAIN log[j] :
          /\ log[j][i].new \in TRANSITIONS[log[j][i].old]
          /\ log[j][i].old = IF i = 1 THEN "PENDING" ELSE log[j][i - 1].new
    /\ status[j] = IF log[j] = <<>> THEN "PENDING" ELSE log[j][Len(log[j])].new
    /\ editable[j] = (status[j] \in {"PENDING", "HOLD"})

ExplainOk(j) ==
    /\ status[j] \in Announced(j, Len(log[j]))
    /\ \A i \in DOMAIN log[j] : log[j][i].old \in Announced(j, i - 1)

HistoryInv ==
    /\ TransitionInv /\ AloneInv
    /\ \A j \in Jobs \ overlapped : SerialOk(j)
    /\ \A j \in Jobs : ExplainOk(j)

LEMMA ByJob ==
    /\ SerialHistory <=> \A j \in Jobs \ overlapped : SerialOk(j)
    /\ EventsExplainStatus <=> \A j \in Jobs : ExplainOk(j)
<1>1. SerialHistory <=> \A j \in Jobs \ overlapped : SerialOk(j)
  BY Zenon DEF SerialHistory, SerialOk
<1>2. EventsExplainStatus <=> \A j \in Jobs : ExplainOk(j)
  BY Zenon DEF EventsExplainStatus, ExplainOk, Announced
<1>. QED
  BY <1>1, <1>2

\* Where no row and no history changes, jobs stay as they are.
LEMMA JobsKept ==
    ASSUME \A j \in Jobs \ overlapped : SerialOk(j), \A j \in Jobs : ExplainOk(j),
           UNCHANGED <<status, editable, log>>, overlapped \subseteq overlapped'
    PROVE  /\ (\A j \in Jobs \ overlapped : SerialOk(j))'
           /\ (\A j \in Jobs : ExplainOk(j))'
           /\ \A j, n : Announced(j, n)' = Announced(j, n)
<1>1. \A j, n : Announced(j, n)' = Announced(j, n)
  BY DEF Announced
<1>2. \A j : (SerialOk(j)' <=> SerialOk(j)) /\ (ExplainOk(j)' <=> ExplainOk(j))
  BY <1>1 DEF SerialOk, ExplainOk
<1>. QED
  BY <1>1, <1>2

\* A transition that another request's step leaves alone.
LEMMA OthersKept ==
    ASSUME NEW u \in Transitions, CheckedOk(u), AloneOk(u),
           UNCHANGED <<at[u], target[u], seen[u], wanted[u], dirty[u], shown[u]>>,
           overlapped \subseteq overlapped',
           Open(u) => Announced(target[u], Len(log[target[u]]))
                          \subseteq Announced(target[u], Len(log[target[u]]))',
           (Open(u) /\ target[u] \notin overlapped') =>
               /\ OpenOn(target[u])' \subseteq OpenOn(target[u])
               /\ status'[target[u]] = status[target[u]]
               /\ editable'[target[u]] = editable[target[u]]
    PROVE  CheckedOk(u)' /\ AloneOk(u)'
<1>1. CheckedOk(u)'
  BY DEF CheckedOk, Open
<1>2. ASSUME Open(u)', target'[u] \notin overlapped'
      PROVE  /\ OpenOn(target[u])' = {u}
             /\ seen'[u] = status'[target'[u]]
             /\ at'[u] \in {"update", "flushed"} => dirty'[u] = ColumnsChanged(u)'
             /\ at'[u] = "flushed" => shown'[u] = Written(u)'
  <2>1. Open(u) /\ target[u] \notin overlapped
    BY <1>2 DEF Open
  <2>2. u \in OpenOn(target[u])'
    BY <1>2 DEF Open, OpenOn
  <2>3. ColumnsChanged(u)' = ColumnsChanged(u) /\ Written(u)' = Written(u)
    BY <1>2, <2>1 DEF ColumnsChanged, Written
  <2>. QED
    BY <1>2, <2>1, <2>2, <2>3 DEF AloneOk
<1>. QED
  BY <1>1, <1>2 DEF AloneOk

\* Every step of a create, and a step of nobody, leaves the transitions alone.
LEMMA OrdersMove ==
    ASSUME OrderingTypeOK, HistoryInv,
           UNCHANGED <<status, editable, log, transVars>>, \A u \in Transitions : at'[u] = at[u]
    PROVE  HistoryInv'
<1>1. /\ \A j \in Jobs \ overlapped : SerialOk(j)
      /\ \A j \in Jobs : ExplainOk(j)
      /\ \A u \in Transitions : CheckedOk(u) /\ AloneOk(u)
      /\ UNCHANGED <<target, seen, wanted, dirty, shown, overlapped>>
  BY DEF HistoryInv, TransitionInv, AloneInv, transVars
<1>2. /\ (\A j \in Jobs \ overlapped : SerialOk(j))'
      /\ (\A j \in Jobs : ExplainOk(j))'
      /\ \A j, n : Announced(j, n)' = Announced(j, n)
  BY <1>1, JobsKept
<1>3. \A j : OpenOn(j)' = OpenOn(j)
  BY <1>1 DEF OpenOn
<1>4. ASSUME NEW u \in Transitions PROVE CheckedOk(u)' /\ AloneOk(u)'
  <2>1. Announced(target[u], Len(log[target[u]])) = Announced(target[u], Len(log[target[u]]))'
    BY <1>1, <1>2
  <2>. QED
    BY <1>1, <1>3, <2>1, OthersKept
<1>. QED
  BY <1>2, <1>4 DEF HistoryInv, TransitionInv, AloneInv

\* A step of one transition that changes no row and no history, and keeps or ends its place
\* among the transitions of its job.
LEMMA OneMoves ==
    ASSUME OrderingTypeOK, HistoryInv, UNCHANGED <<status, editable, log>>, NEW t \in Transitions,
           overlapped \subseteq overlapped',
           \A u \in Transitions \ {t} :
               UNCHANGED <<at[u], target[u], seen[u], wanted[u], dirty[u], shown[u]>>,
           \A j \in Jobs \ overlapped' : OpenOn(j) \ {t} # {} => OpenOn(j)' \subseteq OpenOn(j),
           CheckedOk(t)', AloneOk(t)'
    PROVE  HistoryInv'
<1>1. /\ \A j \in Jobs \ overlapped : SerialOk(j)
      /\ \A j \in Jobs : ExplainOk(j)
      /\ \A u \in Transitions : CheckedOk(u) /\ AloneOk(u)
  BY DEF HistoryInv, TransitionInv, AloneInv
<1>2. /\ (\A j \in Jobs \ overlapped : SerialOk(j))'
      /\ (\A j \in Jobs : ExplainOk(j))'
      /\ \A j, n : Announced(j, n)' = Announced(j, n)
  BY <1>1, JobsKept
<1>3. ASSUME NEW u \in Transitions \ {t} PROVE CheckedOk(u)' /\ AloneOk(u)'
  <2>1. UNCHANGED <<at[u], target[u], seen[u], wanted[u], dirty[u], shown[u]>>
    OBVIOUS
  <2>2. CheckedOk(u) /\ AloneOk(u)
    BY <1>1
  <2>3. Announced(target[u], Len(log[target[u]])) = Announced(target[u], Len(log[target[u]]))'
    BY <1>2, <2>1
  <2>4. ASSUME Open(u), target[u] \notin overlapped'
        PROVE  OpenOn(target[u])' \subseteq OpenOn(target[u])
    <3>1. u \in OpenOn(target[u]) \ {t} /\ target[u] \in Jobs
      BY <2>2, <2>4 DEF Open, OpenOn, CheckedOk
    <3>. QED
      BY <2>4, <3>1
  <2>. QED
    BY <2>1, <2>2, <2>3, <2>4, OthersKept
<1>4. \A u \in Transitions : CheckedOk(u)' /\ AloneOk(u)'
  BY <1>3
<1>. QED
  BY <1>2, <1>4 DEF HistoryInv, TransitionInv, AloneInv

\* get_by_id and transition_to: a second transition of the job makes it an overlapped one.
LEMMA ReadStep ==
    ASSUME OrderingTypeOK, HistoryInv,
           NEW t \in Transitions, NEW j \in Jobs, NEW new \in Requested, TransitionRead(t, j, new)
    PROVE  HistoryInv'
<1>1. /\ at[t] = "idle" /\ at'[t] = "checked" /\ target'[t] = j /\ seen'[t] = status[j]
      /\ wanted'[t] = new /\ new \in TRANSITIONS[status[j]]
      /\ overlapped \subseteq overlapped' /\ (j \notin overlapped' => OpenOn(j) = {})
      /\ \A u \in Transitions \ {t} :
            UNCHANGED <<at[u], target[u], seen[u], wanted[u], dirty[u], shown[u]>>
  BY DEF OrderingTypeOK, TransitionRead, CanTransition, MoveTo, Callers
<1>2. UNCHANGED <<status, editable, log>>
  BY DEF TransitionRead, dataVars
<1>3. CheckedOk(t)'
  <2>1. status[j] \in Announced(j, Len(log[j]))
    BY DEF HistoryInv, ExplainOk
  <2>. QED
    BY <1>1, <1>2, <2>1 DEF CheckedOk, Open, Announced
<1>4. \A k \in Jobs : k # j => OpenOn(k)' = OpenOn(k)
  BY <1>1 DEF OpenOn
<1>5. AloneOk(t)'
  <2>1. ASSUME j \notin overlapped' PROVE OpenOn(j)' = {t}
    BY <1>1, <2>1 DEF OpenOn
  <2>. QED
    BY <1>1, <1>2, <2>1 DEF AloneOk
<1>6. \A k \in Jobs \ overlapped' : OpenOn(k) \ {t} # {} => OpenOn(k)' \subseteq OpenOn(k)
  BY <1>1, <1>4
<1>. QED
  BY <1>1, <1>2, <1>3, <1>5, <1>6, OneMoves

\* update(), flush() and refresh(): the columns that differ, then the row as it reads.
LEMMA SaveStep ==
    ASSUME OrderingTypeOK, HistoryInv, NEW t \in Transitions, UpdateReads(t) \/ FlushAndRefresh(t)
    PROVE  HistoryInv'
<1>1. /\ UNCHANGED <<status, editable, log, target, seen, wanted, overlapped>>
      /\ Open(t) /\ Open(t)'
      /\ \A u \in Transitions \ {t} :
            UNCHANGED <<at[u], target[u], seen[u], wanted[u], dirty[u], shown[u]>>
  BY DEF OrderingTypeOK, UpdateReads, FlushAndRefresh, MoveTo, Open, Callers, dataVars
<1>2. CheckedOk(t) /\ AloneOk(t)
  BY DEF HistoryInv, TransitionInv, AloneInv
<1>3. \A k : OpenOn(k)' = OpenOn(k)
  BY <1>1 DEF OpenOn, Open
<1>4. ColumnsChanged(t)' = ColumnsChanged(t)
  BY <1>1 DEF ColumnsChanged
<1>5. CheckedOk(t)' /\ AloneOk(t)'
  <2>1. CASE UpdateReads(t)
    <3>1. at[t] = "checked" /\ at'[t] = "update" /\ dirty'[t] = ColumnsChanged(t)
      BY <2>1 DEF UpdateReads, OrderingTypeOK, MoveTo, Callers
    <3>. QED
      BY <1>1, <1>2, <1>3, <1>4, <3>1 DEF CheckedOk, AloneOk, Announced
  <2>2. CASE FlushAndRefresh(t)
    <3>1. at[t] = "update" /\ at'[t] = "flushed" /\ shown'[t] = Written(t) /\ dirty' = dirty
      BY <2>2 DEF FlushAndRefresh, OrderingTypeOK, MoveTo, Callers
    <3>2. Written(t)' = Written(t) /\ ("job_status" \in dirty[t] => Written(t) = wanted[t])
      BY <1>1, <3>1 DEF Written
    <3>. QED
      BY <1>1, <1>2, <1>3, <1>4, <3>1, <3>2 DEF CheckedOk, AloneOk, Announced
  <2>. QED
    BY <2>1, <2>2
<1>. QED
  BY <1>1, <1>3, <1>5, OneMoves

\* A transition that is rejected or lost.
LEMMA EndStep ==
    ASSUME OrderingTypeOK, HistoryInv, NEW t \in Transitions,
           UNCHANGED <<status, editable, log, transVars>>, at' = [at EXCEPT ![t] = "failed"]
    PROVE  HistoryInv'
<1>1. /\ UNCHANGED <<target, seen, wanted, dirty, shown, overlapped>>
      /\ ~Open(t)' /\ \A u \in Transitions \ {t} : at'[u] = at[u]
  BY DEF OrderingTypeOK, Open, Callers, transVars
<1>2. \A k : OpenOn(k)' \subseteq OpenOn(k)
  BY <1>1 DEF OpenOn, Open
<1>3. CheckedOk(t)' /\ AloneOk(t)'
  BY <1>1 DEF CheckedOk, AloneOk
<1>. QED
  BY <1>1, <1>2, <1>3, OneMoves

\* publish_durable and the commit: the history of the job grows by the event of this
\* transition, and the row is what its UPDATE wrote.
LEMMA CommitStep ==
    ASSUME OrderingTypeOK, HistoryInv, NEW t \in Transitions, TransitionCommit(t)
    PROVE  HistoryInv'
<1>1. /\ \A u \in Transitions : CheckedOk(u) /\ AloneOk(u)
      /\ \A k \in Jobs \ overlapped : SerialOk(k)
      /\ \A k \in Jobs : ExplainOk(k)
      /\ Open(t) /\ at[t] = "flushed" /\ target[t] \in Jobs
  BY DEF HistoryInv, TransitionInv, AloneInv, CheckedOk, Open, TransitionCommit
<1>2. PICK j \in Jobs : j = target[t]
  BY <1>1
<1>3. PICK e \in Event : e = JobStatusChanged(t)
  BY <1>1 DEF JobStatusChanged, Event, OrderingTypeOK
<1>4. PICK n \in Nat : n = Len(log[j])
  BY DEF OrderingTypeOK
<1>5. /\ UNCHANGED <<target, seen, wanted, dirty, shown, overlapped>>
      /\ status'[j] = Written(t)
      /\ editable'[j] <=> IF "file_editable" \in dirty[t] THEN IsFileEditable(wanted[t]) ELSE editable[j]
      /\ \A k \in Jobs \ {j} : status'[k] = status[k] /\ log'[k] = log[k] /\ editable'[k] = editable[k]
      /\ \A u \in Transitions \ {t} : at'[u] = at[u]
      /\ ~Open(t)' /\ editable' \in [Jobs -> BOOLEAN]
  <2>1. editable' = [editable EXCEPT ![j] =
                        IF "file_editable" \in dirty[t] THEN IsFileEditable(wanted[t]) ELSE @]
    BY <1>2 DEF TransitionCommit
  <2>2. IsFileEditable(wanted[t]) \in BOOLEAN /\ editable[j] \in BOOLEAN
    BY DEF IsFileEditable, OrderingTypeOK
  <2>3. PICK b \in BOOLEAN : /\ b <=> IF "file_editable" \in dirty[t] THEN IsFileEditable(wanted[t]) ELSE editable[j]
                             /\ editable' = [editable EXCEPT ![j] = b]
    BY <2>1, <2>2
  <2>. QED
    BY <1>2, <2>3 DEF TransitionCommit, OrderingTypeOK, Open, Callers, MoveTo, transVars
<1>6. /\ DOMAIN log[j] = 1..n /\ DOMAIN log'[j] = 1..(n + 1) /\ Len(log'[j]) = n + 1
      /\ \A i \in 1..n : log'[j][i] = log[j][i]
      /\ log'[j][n + 1] = e /\ log'[j] # <<>> /\ (log[j] = <<>> <=> n = 0)
  <2>1. log[j] \in Seq(Event) /\ log'[j] = Append(log[j], e)
    BY <1>2, <1>3 DEF TransitionCommit, OrderingTypeOK
  <2>2. /\ Append(log[j], e) \in Seq(Event) /\ Len(Append(log[j], e)) = n + 1
        /\ \A i \in 1..(n + 1) : Append(log[j], e)[i] = IF i = n + 1 THEN e ELSE log[j][i]
    BY <1>4, <2>1, AppendProperties
  <2>. QED
    BY <1>4, <2>1, <2>2, EmptySeq
<1>7. \A m \in 0..n : Announced(j, m)' = Announced(j, m)
  <2>1. \A m \in 0..n : \A i \in 1..m : log'[j][i] = log[j][i]
    BY <1>6
  <2>. QED
    BY <2>1 DEF Announced
<1>8. Announced(j, n + 1)' = Announced(j, n) \cup {e.new}
  <2>1. 1..(n + 1) = (1..n) \cup {n + 1}
    OBVIOUS
  <2>. QED
    BY <1>6, <2>1 DEF Announced
<1>9. ExplainOk(j)'
  <2>1. CheckedOk(t) /\ ExplainOk(j)
    BY <1>1
  <2>2. e.old = seen[t] /\ e.new = shown[t] /\ seen[t] \in Announced(j, n)
    BY <1>1, <1>2, <1>3, <1>4, <2>1 DEF CheckedOk, JobStatusChanged
  <2>3. status'[j] \in Announced(j, n + 1)'
    BY <1>1, <1>2, <1>4, <1>5, <1>8, <2>1, <2>2 DEF CheckedOk, ExplainOk, Written
  <2>4. ASSUME NEW i \in 1..(n + 1) PROVE log'[j][i].old \in Announced(j, i - 1)'
    <3>1. CASE i = n + 1
      BY <1>6, <1>7, <2>2, <3>1
    <3>2. CASE i \in 1..n
      <4>1. i - 1 \in 0..n /\ log[j][i].old \in Announced(j, i - 1)
        BY <1>6, <2>1, <3>2 DEF ExplainOk
      <4>. QED
        BY <1>6, <1>7, <3>2, <4>1
    <3>. QED
      BY <3>1, <3>2
  <2>. QED
    BY <1>6, <2>3, <2>4 DEF ExplainOk
<1>10. ASSUME j \notin overlapped PROVE SerialOk(j)'
  <2>1. /\ CheckedOk(t) /\ AloneOk(t) /\ SerialOk(j) /\ seen[t] = status[j]
        /\ dirty[t] = ColumnsChanged(t) /\ shown[t] = Written(t)
        /\ wanted[t] \in TRANSITIONS[seen[t]]
    BY <1>1, <1>2, <1>10 DEF AloneOk, CheckedOk
  <2>2. wanted[t] # status[j] /\ "job_status" \in dirty[t]
    BY <1>2, <2>1, Machine DEF OrderingTypeOK, ColumnsChanged
  <2>3. status'[j] = wanted[t] /\ e.new = wanted[t] /\ e.old = status[j]
    BY <1>3, <1>5, <2>1, <2>2 DEF JobStatusChanged, Written
  <2>4. editable'[j] <=> wanted[t] \in {"PENDING", "HOLD"}
    BY <1>2, <1>5, <2>1 DEF ColumnsChanged, IsFileEditable, FileEditableStatuses
  <2>5. editable'[j] = (status'[j] \in {"PENDING", "HOLD"})
    <3>1. editable'[j] \in BOOLEAN
      BY <1>5
    <3>. QED
      BY <2>3, <2>4, <3>1
  <2>6. ASSUME NEW i \in 1..(n + 1)
        PROVE  /\ log'[j][i].new \in TRANSITIONS[log'[j][i].old]
               /\ log'[j][i].old = IF i = 1 THEN "PENDING" ELSE log'[j][i - 1].new
    <3>1. CASE i = n + 1
      <4>1. i # 1 => n \in 1..n /\ i - 1 = n
        BY <3>1
      <4>2. status[j] = IF i = 1 THEN "PENDING" ELSE log[j][i - 1].new
        BY <1>4, <1>6, <2>1, <3>1 DEF SerialOk
      <4>. QED
        BY <1>6, <2>1, <2>3, <3>1, <4>1, <4>2
    <3>2. CASE i \in 1..n
      <4>1. i # 1 => i - 1 \in 1..n
        BY <3>2
      <4>2. /\ log[j][i].new \in TRANSITIONS[log[j][i].old]
            /\ log[j][i].old = IF i = 1 THEN "PENDING" ELSE log[j][i - 1].new
        BY <1>6, <2>1, <3>2 DEF SerialOk
      <4>. QED
        BY <1>6, <3>2, <4>1, <4>2
    <3>. QED
      BY <3>1, <3>2
  <2>. QED
    BY <1>6, <2>3, <2>5, <2>6 DEF SerialOk
<1>11. ASSUME NEW k \in Jobs \ {j}
       PROVE  /\ SerialOk(k)' <=> SerialOk(k)
              /\ ExplainOk(k)' <=> ExplainOk(k)
              /\ \A m : Announced(k, m)' = Announced(k, m)
  <2>1. \A m : Announced(k, m)' = Announced(k, m)
    BY <1>5 DEF Announced
  <2>. QED
    BY <1>5, <2>1 DEF SerialOk, ExplainOk
<1>12. ASSUME NEW u \in Transitions PROVE CheckedOk(u)' /\ AloneOk(u)'
  <2>1. CASE u = t
    BY <1>5, <2>1 DEF CheckedOk, AloneOk
  <2>2. CASE u # t
    <3>1. UNCHANGED <<at[u], target[u], seen[u], wanted[u], dirty[u], shown[u]>>
      BY <1>5, <2>2
    <3>2. CheckedOk(u) /\ AloneOk(u) /\ overlapped' = overlapped
      BY <1>1, <1>5
    <3>3. Open(u) => Announced(target[u], Len(log[target[u]]))
                       \subseteq Announced(target[u], Len(log[target[u]]))'
      <4>1. CASE target[u] = j
        <5>1. /\ Announced(target[u], Len(log[target[u]])) = Announced(j, n)
              /\ Announced(target[u], Len(log[target[u]]))' = Announced(j, n + 1)'
          BY <1>4, <1>6, <3>1, <4>1 DEF Announced
        <5>. QED
          BY <1>8, <5>1
      <4>2. CASE target[u] # j
        <5>1. Open(u) => target[u] \in Jobs \ {j}
          BY <3>2, <4>2 DEF CheckedOk
        <5>. QED
          BY <1>5, <3>1, <5>1 DEF Announced
      <4>. QED
        BY <4>1, <4>2
    <3>4. ASSUME Open(u), target[u] \notin overlapped'
          PROVE  /\ OpenOn(target[u])' \subseteq OpenOn(target[u])
                 /\ status'[target[u]] = status[target[u]]
                 /\ editable'[target[u]] = editable[target[u]]
      <4>1. OpenOn(target[u]) = {u} /\ target[u] \in Jobs
        BY <3>2, <3>4 DEF AloneOk, CheckedOk
      <4>2. target[u] # j
        BY <1>1, <1>2, <2>2, <4>1 DEF OpenOn, Open
      <4>3. OpenOn(target[u])' \subseteq OpenOn(target[u])
        BY <1>5, <3>1 DEF OpenOn, Open
      <4>. QED
        BY <1>5, <4>1, <4>2, <4>3
    <3>. QED
      BY <3>1, <3>2, <3>3, <3>4, OthersKept
  <2>. QED
    BY <2>1, <2>2
<1>13. /\ (\A k \in Jobs \ overlapped : SerialOk(k))'
       /\ (\A k \in Jobs : ExplainOk(k))'
  BY <1>1, <1>5, <1>9, <1>10, <1>11
<1>. QED
  BY <1>12, <1>13 DEF HistoryInv, TransitionInv, AloneInv

\* Every step keeps what is said of the transitions, of the rows and of their histories.
LEMMA HistoryStep ==
    ASSUME OrderingTypeOK, HistoryInv, [OrderingNext]_orderingVars
    PROVE  HistoryInv'
<1>1. ASSUME NEW c \in Creates,
             \/ CreateBegin(c) \/ InsertRow(c) \/ CreateCommit(c)
             \/ at[c] = "insert" /\ EndFailed(c)
      PROVE  UNCHANGED <<status, editable, log, transVars>> /\ \A u \in Transitions : at'[u] = at[u]
  BY <1>1, OrderingAssumption
     DEF OrderingTypeOK, CreateBegin, InsertRow, CreateCommit, EndFailed, MoveTo, dataVars, Callers
<1>2. ASSUME NEW t \in Transitions, NEW j \in Jobs, NEW new \in Requested, TransitionRejected(t, j, new)
      PROVE  HistoryInv'
  BY <1>2, EndStep DEF TransitionRejected, MoveTo, dataVars
<1>3. ASSUME NEW t \in Transitions, TransitionCrash(t) PROVE HistoryInv'
  BY <1>3, EndStep DEF TransitionCrash, MoveTo, dataVars
<1>4. CASE UNCHANGED orderingVars
  BY <1>4, OrdersMove DEF orderingVars, dataVars
<1>. QED
  BY <1>1, <1>2, <1>3, <1>4, OrderingCases, OrdersMove, ReadStep, SaveStep, CommitStep

-----------------------------------------------------------------------------
(* Theorems *)

LEMMA OrderingInitInv == OrderingInit => OrderingInv
<1>. SUFFICES ASSUME OrderingInit PROVE OrderingInv
  OBVIOUS
<1>1. OrderingTypeOK
  BY DEF OrderingInit, OrderingTypeOK, Statuses
<1>2. \A c \in Creates : inserted[c] = <<>> /\ KeySet(c) = {} /\ Len(inserted[c]) = 0 /\ at[c] = "idle"
  BY DEF OrderingInit, KeySet, Callers
<1>3. CreateInv
  <2>1. ASSUME NEW c \in Creates PROVE CreateOk(c)
    <3>1. Len(Keys(c)) \in Nat
      BY KeysOf
    <3>. QED
      BY <1>2, <3>1 DEF CreateOk
  <2>. QED
    BY <1>2, <2>1 DEF CreateInv
<1>4. TransitionInv /\ AloneInv
  BY DEF OrderingInit, TransitionInv, AloneInv, CheckedOk, AloneOk, Open, Callers
<1>5. OrdersAtomic
  BY DEF OrderingInit, OrdersAtomic, Callers
<1>6. ASSUME NEW j \in Jobs PROVE SerialOk(j) /\ ExplainOk(j)
  <2>1. status[j] = "PENDING" /\ log[j] = <<>> /\ DOMAIN log[j] = {}
    BY DEF OrderingInit
  <2>2. editable[j] = (status[j] \in {"PENDING", "HOLD"})
    <3>1. editable[j] = TRUE
      BY DEF OrderingInit
    <3>2. status[j] \in {"PENDING", "HOLD"}
      BY <2>1
    <3>. QED
      BY <3>1, <3>2, Zenon
  <2>. QED
    BY <2>1, <2>2 DEF SerialOk, ExplainOk, Announced
<1>. QED
  BY <1>1, <1>3, <1>4, <1>5, <1>6, ByJob DEF OrderingInv

LEMMA OrderingNextInv == OrderingInv /\ [OrderingNext]_orderingVars => OrderingInv'
<1>. SUFFICES ASSUME OrderingInv, [OrderingNext]_orderingVars PROVE OrderingInv'
  OBVIOUS
<1>1. HistoryInv
  BY ByJob DEF OrderingInv, HistoryInv
<1>2. OrderingTypeOK' /\ CreateInv' /\ OrdersAtomic'
  BY OrderingTypeStep, OrdersKeptInStep DEF OrderingInv
<1>3. HistoryInv'
  BY <1>1, HistoryStep DEF OrderingInv
<1>4. SerialHistory'
  BY <1>3, Zenon DEF HistoryInv, SerialHistory, SerialOk
<1>5. EventsExplainStatus'
  BY <1>3, Zenon DEF HistoryInv, EventsExplainStatus, ExplainOk, Announced
<1>. QED
  BY <1>2, <1>3, <1>4, <1>5 DEF OrderingInv, HistoryInv

THEOREM OrderingInvariance == OrderingSpec => []OrderingInv
  BY OrderingInitInv, OrderingNextInv, PTL DEF OrderingSpec

\* Every column holds a value its table declares; job_status, which the schema accepts as
\* any string, only ever holds a status of the state machine.
THEOREM OrderingTypeCorrect == OrderingSpec => []OrderingTypeOK
<1>1. OrderingInv => OrderingTypeOK
  BY DEF OrderingInv
<1>. QED
  BY <1>1, OrderingInvariance, PTL

\* CreateOrderUseCase is all or nothing, for any number of requests that ask for any numbers
\* and jobs, in any order.
THEOREM OrdersAreAtomic == OrderingSpec => []OrdersAtomic
<1>1. OrderingInv => OrdersAtomic
  BY DEF OrderingInv
<1>. QED
  BY <1>1, OrderingInvariance, PTL

\* The history of a job whose transitions did not overlap is a path of JobStateMachine that
\* leads to the row as it is stored.
THEOREM HistoryIsSerial == OrderingSpec => []SerialHistory
<1>1. OrderingInv => SerialHistory
  BY DEF OrderingInv
<1>. QED
  BY <1>1, OrderingInvariance, PTL

\* However transitions overlap, the committed events account for the status of every job.
THEOREM EventsExplain == OrderingSpec => []EventsExplainStatus
<1>1. OrderingInv => EventsExplainStatus
  BY DEF OrderingInv
<1>. QED
  BY <1>1, OrderingInvariance, PTL
=============================================================================
