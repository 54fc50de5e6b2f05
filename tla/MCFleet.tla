------------------------------ MODULE MCFleet ------------------------------
EXTENDS Fleet, TLC

Symm == Permutations(Requests) \cup Permutations(Plates)
=============================================================================
