----------------------------- MODULE AtLeastOnce -----------------------------
(***************************************************************************)
(* What a transactional outbox promises its callers, without rows, relays, *)
(* transactions or locks: an event is sent only after the write it tells   *)
(* of is committed, and is struck off the list only after it was sent.     *)
(* Sending twice is allowed; undoing any of the three is not.              *)
(***************************************************************************)
CONSTANT Events

VARIABLES
    committed,  \* events whose business write is durable
    sent,       \* events the broker holds at least one message of
    confirmed   \* events nobody will send again on purpose

vars == <<committed, sent, confirmed>>

Init == committed = {} /\ sent = {} /\ confirmed = {}

Commit(e) ==
    /\ committed' = committed \cup {e}
    /\ UNCHANGED <<sent, confirmed>>

Send(e) ==
    /\ e \in committed
    /\ sent' = sent \cup {e}
    /\ UNCHANGED <<committed, confirmed>>

\* Several events may be struck off at once: a relay commits a whole batch.
Confirm(batch) ==
    /\ batch \subseteq sent
    /\ confirmed' = confirmed \cup batch
    /\ UNCHANGED <<committed, sent>>

Next ==
    \/ \E e \in Events : Commit(e) \/ Send(e)
    \/ \E batch \in SUBSET Events : Confirm(batch)

Spec == Init /\ [][Next]_vars
=============================================================================
