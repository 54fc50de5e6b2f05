-------------------------- MODULE DeadLetterProofs --------------------------
(***************************************************************************)
(* Proofs about DeadLetter, for any copies, consumers and operator         *)
(* requests, any delivery limit and any number of faults.                  *)
(***************************************************************************)
EXTENDS DeadLetter, TLAPS

Busy(k) == pc[k] \in {"persist", "ack"}

\* A busy consumer holds a copy, and one that acks has written its row.
ConsumerInv ==
    \A k \in Consumers :
        /\ Busy(k) => cur[k] \in Copies /\ num[k] \in 1 .. MaxDeliver
        /\ ~Busy(k) => cur[k] = NoCopy
        /\ pc[k] = "ack" => <<cur[k], num[k]>> \in table

\* JetStream hands out a copy as long as it has deliveries left, and no longer.
CountInv ==
    \A c \in Copies :
        /\ broker[c] \in {"absent", "ready"} => deliveries[c] < MaxDeliver
        /\ broker[c] = "abandoned" => deliveries[c] = MaxDeliver

\* Every delivery of a copy without a row was a failed write or a fault, but for the one
\* that is under way.
UnderWay(c) == IF broker[c] = "pending" /\ Held(c) THEN 1 ELSE 0

LossInv == \A c \in Copies :
               Persisted(c) \/ deliveries[c] <= dbFailures[c] + slips + UnderWay(c)

\* A replay about to set resolved_at has been stored by the events stream.
OperatorInv ==
    \A o \in Operators :
        /\ op[o] \in {"publish", "mark"} => opRow[o] \in table
        /\ op[o] = "mark" => <<opRow[o], o>> \in republished

IInv == /\ TypeOK /\ ConsumerInv /\ CountInv /\ LossInv /\ OperatorInv
        /\ AckedIsPersisted /\ ResolvedWasRepublished

-----------------------------------------------------------------------------
(* Types *)

\* A step keeps every variable in its type.
LEMMA TypeStep ==
    ASSUME IInv, [Next]_vars
    PROVE  TypeOK'
<1> USE DeadLetterAssumption DEF IInv, TypeOK, ConsumerInv, CountInv, OperatorInv, Busy,
        BrokerStates, Rows, Requeued, Release, brokerVars, consumerVars, tableVars, opVars
<1>1. ASSUME NEW c \in Copies, Arrive(c) PROVE TypeOK'
  BY <1>1 DEF Arrive
<1>2. ASSUME NEW c \in Copies, AckWaitExpires(c) PROVE TypeOK'
  BY <1>2 DEF AckWaitExpires
<1>3. ASSUME NEW c \in Copies, AckWaitExpiresEarly(c) PROVE TypeOK'
  BY <1>3 DEF AckWaitExpiresEarly
<1>4. ASSUME NEW k \in Consumers, NEW c \in Copies, Fetch(k, c) PROVE TypeOK'
  BY <1>4 DEF Fetch
<1>5. ASSUME NEW k \in Consumers, PersistOk(k) PROVE TypeOK'
  BY <1>5 DEF PersistOk
<1>6. ASSUME NEW k \in Consumers, PersistFails(k) PROVE TypeOK'
  <2>1. cur[k] \in Copies /\ num[k] \in 1 .. MaxDeliver
    BY <1>6 DEF PersistFails
  <2>2. broker' \in [Copies -> BrokerStates] /\ dbFailures' \in [Copies -> Nat]
    BY <1>6, <2>1 DEF PersistFails
  <2>3. table \subseteq table' /\ table' \subseteq Rows
    BY <1>6, <2>1 DEF PersistFails
  <2>. QED
    BY <1>6, <2>2, <2>3 DEF PersistFails
<1>7. ASSUME NEW k \in Consumers, Ack(k) PROVE TypeOK'
  BY <1>7 DEF Ack
<1>8. ASSUME NEW k \in Consumers, AckLost(k) PROVE TypeOK'
  BY <1>8 DEF AckLost
<1>9. ASSUME NEW k \in Consumers, ConsumerDies(k) PROVE TypeOK'
  BY <1>9 DEF ConsumerDies
<1>10. ASSUME NEW k \in Consumers, ConsumerStarts(k) PROVE TypeOK'
  BY <1>10 DEF ConsumerStarts
<1>11. ASSUME NEW o \in Operators, NEW row \in table, ReplayReads(o, row) PROVE TypeOK'
  BY <1>11 DEF ReplayReads
<1>12. ASSUME NEW o \in Operators, NEW row \in table, Resolve(o, row) PROVE TypeOK'
  BY <1>12 DEF Resolve
<1>13. ASSUME NEW o \in Operators, ReplayPublishes(o) PROVE TypeOK'
  BY <1>13 DEF ReplayPublishes
<1>14. ASSUME NEW o \in Operators, ReplayFails(o) PROVE TypeOK'
  BY <1>14 DEF ReplayFails
<1>15. ASSUME NEW o \in Operators, ReplayMarks(o) PROVE TypeOK'
  BY <1>15 DEF ReplayMarks
<1>16. CASE UNCHANGED vars
  BY <1>16 DEF vars
<1>. QED
  BY <1>1, <1>2, <1>3, <1>4, <1>5, <1>6, <1>7, <1>8, <1>9, <1>10, <1>11, <1>12, <1>13, <1>14,
     <1>15, <1>16 DEF Next, ConsumerStep, OperatorStep

-----------------------------------------------------------------------------
(* Consumers and deliveries *)

\* A step keeps what busy consumers hold and what JetStream has left to deliver.
LEMMA ConsumerStepInv ==
    ASSUME IInv, [Next]_vars
    PROVE  ConsumerInv' /\ CountInv'
<1> USE DeadLetterAssumption DEF IInv, TypeOK, ConsumerInv, CountInv, Busy,
        BrokerStates, Requeued, Release, brokerVars, consumerVars, tableVars, opVars
<1>1. ASSUME NEW c \in Copies, Arrive(c) PROVE ConsumerInv' /\ CountInv'
  BY <1>1 DEF Arrive
<1>2. ASSUME NEW c \in Copies, AckWaitExpires(c) PROVE ConsumerInv' /\ CountInv'
  BY <1>2 DEF AckWaitExpires
<1>3. ASSUME NEW c \in Copies, AckWaitExpiresEarly(c) PROVE ConsumerInv' /\ CountInv'
  BY <1>3 DEF AckWaitExpiresEarly
<1>4. ASSUME NEW k \in Consumers, NEW c \in Copies, Fetch(k, c) PROVE ConsumerInv' /\ CountInv'
  <2>1. ConsumerInv'
    BY <1>4 DEF Fetch
  <2>2. CountInv'
    BY <1>4 DEF Fetch
  <2>. QED
    BY <2>1, <2>2
<1>5. ASSUME NEW k \in Consumers, PersistOk(k) PROVE ConsumerInv' /\ CountInv'
  BY <1>5 DEF PersistOk
<1>6. ASSUME NEW k \in Consumers, PersistFails(k) PROVE ConsumerInv' /\ CountInv'
  <2>1. ConsumerInv'
    BY <1>6 DEF PersistFails
  <2>2. CountInv'
    BY <1>6 DEF PersistFails
  <2>. QED
    BY <2>1, <2>2
<1>7. ASSUME NEW k \in Consumers, Ack(k) PROVE ConsumerInv' /\ CountInv'
  <2>1. ConsumerInv'
    BY <1>7 DEF Ack
  <2>2. CountInv'
    BY <1>7 DEF Ack
  <2>. QED
    BY <2>1, <2>2
<1>8. ASSUME NEW k \in Consumers, AckLost(k) \/ ConsumerDies(k) \/ ConsumerStarts(k)
      PROVE  ConsumerInv' /\ CountInv'
  BY <1>8 DEF AckLost, ConsumerDies, ConsumerStarts
<1>9. ASSUME NEW o \in Operators, \/ OperatorStep(o)
                                  \/ \E row \in table : ReplayReads(o, row) \/ Resolve(o, row)
      PROVE  ConsumerInv' /\ CountInv'
  BY <1>9 DEF OperatorStep, ReplayReads, Resolve, ReplayPublishes, ReplayFails, ReplayMarks
<1>10. CASE UNCHANGED vars
  BY <1>10 DEF vars
<1>. QED
  BY <1>1, <1>2, <1>3, <1>4, <1>5, <1>6, <1>7, <1>8, <1>9, <1>10 DEF Next, ConsumerStep

\* Rows are never removed.
LEMMA TableGrows ==
    ASSUME IInv, [Next]_vars
    PROVE  table \subseteq table' /\ \A c \in Copies : Persisted(c) => Persisted(c)'
<1>1. table \subseteq table'
  BY DEF Next, ConsumerStep, OperatorStep, Arrive, AckWaitExpires, AckWaitExpiresEarly, Fetch,
     PersistOk, PersistFails, Ack, AckLost, ConsumerDies, ConsumerStarts, ReplayReads, Resolve,
     ReplayPublishes, ReplayFails, ReplayMarks, tableVars, vars
<1>. QED
  BY <1>1 DEF Persisted

\* A consumer that takes or gives up another copy does not matter to this one.
LEMMA HeldByOthers ==
    ASSUME IInv, NEW k \in Consumers, NEW x, cur' = [cur EXCEPT ![k] = x],
           NEW c \in Copies, c # cur[k], c # x
    PROVE  Held(c)' <=> Held(c)
  BY DEF IInv, TypeOK, Held

\* A consumer that acks has left a row of the copy it holds.
LEMMA AckedWrote ==
    ASSUME IInv, NEW k \in Consumers, pc[k] = "ack"
    PROVE  cur[k] \in Copies /\ Persisted(cur[k])
  BY DEF IInv, ConsumerInv, Busy, Persisted

-----------------------------------------------------------------------------
(* Outages *)

\* A step accounts for every delivery that left no row.
LEMMA LossStep ==
    ASSUME IInv, [Next]_vars
    PROVE  LossInv'
<1>. SUFFICES ASSUME NEW c \in Copies, ~Persisted(c)'
              PROVE  (deliveries[c] <= dbFailures[c] + slips + UnderWay(c))'
  BY DEF LossInv
<1>1. ~Persisted(c)
  BY TableGrows
<1>2. deliveries[c] <= dbFailures[c] + slips + UnderWay(c)
  BY <1>1 DEF IInv, LossInv
<1>3. /\ deliveries[c] \in Nat /\ dbFailures[c] \in Nat /\ slips \in Nat
      /\ UnderWay(c) \in {0, 1} /\ UnderWay(c)' \in {0, 1}
      /\ deliveries \in [Copies -> 0 .. MaxDeliver] /\ dbFailures \in [Copies -> Nat]
      /\ broker \in [Copies -> BrokerStates] /\ cur \in [Consumers -> Copies \cup {NoCopy}]
      /\ NoCopy \notin Copies
  BY DeadLetterAssumption DEF IInv, TypeOK, UnderWay
<1>. DEFINE Goal == (deliveries[c] <= dbFailures[c] + slips + UnderWay(c))'
<1>4. ASSUME NEW x \in Copies, Arrive(x) PROVE Goal
  <2>1. UNCHANGED <<deliveries, cur, dbFailures, slips>>
    BY <1>4 DEF Arrive, consumerVars
  <2>2. UnderWay(c)' = UnderWay(c)
    BY <1>3, <1>4, <2>1 DEF Arrive, UnderWay, Held
  <2>. QED
    BY <1>2, <2>1, <2>2
<1>5. ASSUME NEW x \in Copies, AckWaitExpires(x) PROVE Goal
  <2>1. UNCHANGED <<deliveries, cur, dbFailures, slips>>
    BY <1>5 DEF AckWaitExpires, consumerVars
  <2>2. UnderWay(c)' = UnderWay(c)
    BY <1>3, <1>5, <2>1 DEF AckWaitExpires, UnderWay, Held, Requeued
  <2>. QED
    BY <1>2, <2>1, <2>2
<1>6. ASSUME NEW x \in Copies, AckWaitExpiresEarly(x) PROVE Goal
  <2>1. UNCHANGED <<deliveries, cur, dbFailures>> /\ slips' = slips + 1
    BY <1>6 DEF AckWaitExpiresEarly, consumerVars
  <2>. QED
    BY <1>2, <1>3, <2>1
<1>7. ASSUME NEW k \in Consumers, NEW x \in Copies, Fetch(k, x) PROVE Goal
  <2>1. /\ UNCHANGED <<dbFailures, slips>> /\ broker[x] = "ready" /\ cur[k] = NoCopy
        /\ deliveries' = [deliveries EXCEPT ![x] = @ + 1]
        /\ broker' = [broker EXCEPT ![x] = "pending"] /\ cur' = [cur EXCEPT ![k] = x]
    BY <1>7 DEF Fetch, IInv, ConsumerInv, Busy
  <2>2. CASE c = x
    <3>1. UnderWay(c) = 0 /\ UnderWay(c)' = 1
      BY <1>3, <2>1, <2>2 DEF UnderWay, Held
    <3>2. deliveries'[c] = deliveries[c] + 1
      BY <1>3, <2>1, <2>2
    <3>. QED
      BY <1>2, <1>3, <2>1, <3>1, <3>2
  <2>3. CASE c # x
    <3>1. Held(c)' <=> Held(c)
      BY <1>3, <2>1, <2>3, HeldByOthers
    <3>. QED
      BY <1>2, <1>3, <2>1, <2>3, <3>1 DEF UnderWay
  <2>. QED
    BY <2>2, <2>3
<1>8. ASSUME NEW k \in Consumers, PersistOk(k) PROVE Goal
  BY <1>2, <1>8 DEF PersistOk, brokerVars, UnderWay, Held
<1>9. ASSUME NEW k \in Consumers, PersistFails(k) PROVE Goal
  <2>. DEFINE x == cur[k]
  <2>1. /\ UNCHANGED <<deliveries, slips>> /\ x \in Copies
        /\ dbFailures' = [dbFailures EXCEPT ![x] = @ + 1]
        /\ broker' = [broker EXCEPT ![x] = IF @ = "pending" THEN Requeued(x) ELSE @]
        /\ cur' = [cur EXCEPT ![k] = NoCopy]
    BY <1>9 DEF PersistFails, Release, IInv, ConsumerInv, Busy
  <2>2. CASE c = x
    <3>1. dbFailures'[c] = dbFailures[c] + 1
      BY <1>3, <2>1, <2>2
    <3>. QED
      BY <1>2, <1>3, <2>1, <3>1
  <2>3. CASE c # x
    <3>1. Held(c)' <=> Held(c)
      BY <1>3, <2>1, <2>3, HeldByOthers
    <3>2. dbFailures'[c] = dbFailures[c] /\ broker'[c] = broker[c]
      BY <1>3, <2>1, <2>3
    <3>. QED
      BY <1>2, <1>3, <2>1, <3>1, <3>2 DEF UnderWay
  <2>. QED
    BY <2>2, <2>3
<1>10. ASSUME NEW k \in Consumers, Ack(k) PROVE Goal
  <2>1. cur[k] \in Copies /\ c # cur[k]
    BY <1>1, <1>10, AckedWrote DEF Ack
  <2>2. UNCHANGED <<deliveries, dbFailures, slips>> /\ cur' = [cur EXCEPT ![k] = NoCopy]
        /\ broker'[c] = broker[c]
    BY <1>3, <1>10, <2>1 DEF Ack, Release
  <2>3. Held(c)' <=> Held(c)
    BY <1>3, <2>1, <2>2, HeldByOthers
  <2>. QED
    BY <1>2, <2>2, <2>3 DEF UnderWay
<1>11. ASSUME NEW k \in Consumers, AckLost(k) \/ ConsumerDies(k) PROVE Goal
  <2>1. UNCHANGED <<broker, deliveries, dbFailures>> /\ slips' = slips + 1
    BY <1>11 DEF AckLost, ConsumerDies, brokerVars
  <2>. QED
    BY <1>2, <1>3, <2>1
<1>12. ASSUME NEW k \in Consumers, ConsumerStarts(k) PROVE Goal
  BY <1>2, <1>12 DEF ConsumerStarts, brokerVars, UnderWay, Held
<1>13. ASSUME NEW o \in Operators, \/ OperatorStep(o)
                                   \/ \E row \in table : ReplayReads(o, row) \/ Resolve(o, row)
       PROVE  Goal
  <2>1. UNCHANGED <<broker, deliveries, dbFailures, slips, cur>>
    BY <1>13 DEF OperatorStep, ReplayReads, Resolve, ReplayPublishes, ReplayFails, ReplayMarks,
       brokerVars, consumerVars
  <2>. QED
    BY <1>2, <2>1 DEF UnderWay, Held
<1>14. CASE UNCHANGED vars
  BY <1>2, <1>14 DEF vars, brokerVars, consumerVars, UnderWay, Held
<1>. QED
  BY <1>4, <1>5, <1>6, <1>7, <1>8, <1>9, <1>10, <1>11, <1>12, <1>13, <1>14 DEF Next, ConsumerStep

-----------------------------------------------------------------------------
(* Acks and operators *)

\* Only an ack takes a copy off the consumer, and it follows the commit of the row.
LEMMA AckStep ==
    ASSUME IInv, [Next]_vars
    PROVE  AckedIsPersisted'
<1>. SUFFICES ASSUME NEW c \in Copies, broker'[c] = "acked" PROVE Persisted(c)'
  BY DEF AckedIsPersisted
<1>1. broker[c] = "acked" => Persisted(c)'
  BY TableGrows DEF IInv, AckedIsPersisted
<1>2. ASSUME NEW k \in Consumers, Ack(k), broker[c] # "acked" PROVE Persisted(c)'
  <2>1. cur[k] = c
    BY <1>2, AckedWrote DEF Ack, IInv, TypeOK
  <2>. QED
    BY <1>2, <2>1, AckedWrote, TableGrows DEF Ack
<1>3. ASSUME broker[c] # "acked" PROVE \E k \in Consumers : Ack(k)
  <2>1. broker \in [Copies -> BrokerStates] /\ \A x \in Copies : Requeued(x) # "acked"
    BY DEF IInv, TypeOK, Requeued
  <2>2. ASSUME NEW x \in Copies, Arrive(x) \/ AckWaitExpires(x) \/ AckWaitExpiresEarly(x)
        PROVE  FALSE
    BY <1>3, <2>1, <2>2 DEF Arrive, AckWaitExpires, AckWaitExpiresEarly
  <2>3. ASSUME NEW k \in Consumers, \/ PersistOk(k) \/ AckLost(k)
                                    \/ ConsumerDies(k) \/ ConsumerStarts(k)
        PROVE  FALSE
    BY <1>3, <2>3 DEF PersistOk, AckLost, ConsumerDies, ConsumerStarts, brokerVars
  <2>4. ASSUME NEW k \in Consumers, NEW x \in Copies, Fetch(k, x) PROVE FALSE
    BY <1>3, <2>1, <2>4 DEF Fetch
  <2>5. ASSUME NEW k \in Consumers, PersistFails(k) PROVE FALSE
    <3>1. cur[k] \in Copies
      BY <2>5 DEF PersistFails, IInv, ConsumerInv, Busy
    <3>. QED
      BY <1>3, <2>1, <2>5, <3>1 DEF PersistFails
  <2>6. ASSUME NEW o \in Operators, \/ OperatorStep(o)
                                    \/ \E row \in table : ReplayReads(o, row) \/ Resolve(o, row)
        PROVE  FALSE
    BY <1>3, <2>6 DEF OperatorStep, ReplayReads, Resolve, ReplayPublishes, ReplayFails,
       ReplayMarks, brokerVars
  <2>7. CASE UNCHANGED vars
    BY <1>3, <2>7 DEF vars, brokerVars
  <2>. QED
    BY <2>2, <2>3, <2>4, <2>5, <2>6, <2>7 DEF Next, ConsumerStep
<1>. QED
  BY <1>1, <1>2, <1>3

\* A replay keeps what it has published until it sets resolved_at, and rows are resolved by
\* such a replay or by hand.
LEMMA OperatorStepInv ==
    ASSUME IInv, [Next]_vars
    PROVE  OperatorInv' /\ ResolvedWasRepublished'
<1> USE DEF IInv, OperatorInv, ResolvedWasRepublished
<1>1. table \subseteq table'
  BY TableGrows
<1>2. op \in [Operators -> {"idle", "publish", "mark", "refused", "error", "republished", "dismissed"}]
      /\ opRow \in [Operators -> Rows \cup {NoRow}]
  BY DEF TypeOK
<1>3. ASSUME NEW o \in Operators, NEW row \in table, ReplayReads(o, row)
      PROVE  OperatorInv' /\ ResolvedWasRepublished'
  BY <1>1, <1>2, <1>3 DEF ReplayReads, tableVars
<1>4. ASSUME NEW o \in Operators, NEW row \in table, Resolve(o, row)
      PROVE  OperatorInv' /\ ResolvedWasRepublished'
  BY <1>1, <1>2, <1>4 DEF Resolve
<1>5. ASSUME NEW o \in Operators, ReplayPublishes(o) PROVE OperatorInv' /\ ResolvedWasRepublished'
  BY <1>1, <1>2, <1>5 DEF ReplayPublishes, tableVars
<1>6. ASSUME NEW o \in Operators, ReplayFails(o) PROVE OperatorInv' /\ ResolvedWasRepublished'
  BY <1>1, <1>2, <1>6 DEF ReplayFails, tableVars
<1>7. ASSUME NEW o \in Operators, ReplayMarks(o) PROVE OperatorInv' /\ ResolvedWasRepublished'
  BY <1>1, <1>2, <1>7 DEF ReplayMarks
<1>8. ASSUME UNCHANGED opVars, UNCHANGED <<resolved, dismissed>>
      PROVE  OperatorInv' /\ ResolvedWasRepublished'
  BY <1>1, <1>8 DEF opVars
<1>9. ASSUME \A o \in Operators : ~OperatorStep(o) /\
                \A row \in table : ~ReplayReads(o, row) /\ ~Resolve(o, row)
      PROVE  UNCHANGED opVars /\ UNCHANGED <<resolved, dismissed>>
  BY <1>9 DEF Next, ConsumerStep, Arrive, AckWaitExpires, AckWaitExpiresEarly, Fetch, PersistOk,
     PersistFails, Ack, AckLost, ConsumerDies, ConsumerStarts, tableVars, opVars, vars
<1>. QED
  BY <1>3, <1>4, <1>5, <1>6, <1>7, <1>8, <1>9 DEF OperatorStep

-----------------------------------------------------------------------------
(* The theorems *)

\* The inductive invariant holds in every reachable state.
THEOREM Invariance == Spec => []IInv
<1>1. Init => IInv
  BY DeadLetterAssumption DEF Init, IInv, TypeOK, BrokerStates, ConsumerInv, Busy, CountInv,
     LossInv, UnderWay, OperatorInv, AckedIsPersisted, ResolvedWasRepublished
<1>2. IInv /\ [Next]_vars => IInv'
  <2>. SUFFICES ASSUME IInv, [Next]_vars
                PROVE  /\ TypeOK' /\ ConsumerInv' /\ CountInv' /\ LossInv' /\ OperatorInv'
                       /\ AckedIsPersisted' /\ ResolvedWasRepublished'
    BY DEF IInv
  <2>. QED
    BY TypeStep, ConsumerStepInv, LossStep, AckStep, OperatorStepInv
<1>. QED
  BY <1>1, <1>2, PTL DEF Spec

\* The variables keep their types; in particular no copy is delivered more than
\* MaxDeliver times, and only rows of the table are resolved.
THEOREM TypeCorrect == Spec => []TypeOK
<1>1. IInv => TypeOK
  BY DEF IInv
<1>. QED
  BY <1>1, Invariance, PTL

\* A dead letter is acked only after a row of it was committed, for any number of consumers
\* that hold it at once.
THEOREM AckedIsStored == Spec => []AckedIsPersisted
<1>1. IInv => AckedIsPersisted
  BY DEF IInv
<1>. QED
  BY <1>1, Invariance, PTL

\* A dead letter that is given up without a row has used up every delivery on failed writes
\* and faults, whatever the limit.
THEOREM OutagesSurvived == Spec => []OutageIsSurvived
<1>1. IInv => OutageIsSurvived
  <2>. SUFFICES ASSUME IInv, NEW c \in Copies, broker[c] = "abandoned", ~Persisted(c)
                PROVE  dbFailures[c] + slips >= MaxDeliver
    BY DEF OutageIsSurvived
  <2>1. deliveries[c] = MaxDeliver /\ deliveries[c] <= dbFailures[c] + slips + UnderWay(c)
    BY DEF IInv, CountInv, LossInv
  <2>2. UnderWay(c) = 0 /\ dbFailures[c] \in Nat /\ slips \in Nat /\ MaxDeliver \in Nat
    BY DeadLetterAssumption DEF UnderWay, IInv, TypeOK
  <2>. QED
    BY <2>1, <2>2
<1>. QED
  BY <1>1, Invariance, PTL

\* A resolved row was dismissed by hand or sent again, however operators overlap.
THEOREM ResolvedHonestly == Spec => []ResolvedWasRepublished
<1>1. IInv => ResolvedWasRepublished
  BY DEF IInv
<1>. QED
  BY <1>1, Invariance, PTL

=============================================================================
