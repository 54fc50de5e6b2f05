----------------------------- MODULE MCDelivery -----------------------------
(* Instances of Delivery for TLC.                                          *)
EXTENDS Delivery, TLC

CONSTANTS w1, w2, m1, p1
=============================================================================
