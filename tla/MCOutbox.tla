------------------------------ MODULE MCOutbox ------------------------------
(* Instance of Outbox for TLC: an event the broker takes, and two it refuses,  *)
(* which fill a batch.                                                         *)
EXTENDS Outbox, TLC

CONSTANTS r1, r2, r3
=============================================================================
