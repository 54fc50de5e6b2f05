---------------------------- MODULE MCDeadLetter ----------------------------
(* Instances of DeadLetter for TLC.                                        *)
EXTENDS DeadLetter, TLC

CONSTANTS k1, k2, o1, o2, c1, c2, g1, n1
=============================================================================
