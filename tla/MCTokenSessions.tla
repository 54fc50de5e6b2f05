-------------------------- MODULE MCTokenSessions --------------------------
EXTENDS TokenSessions, TLC

Symm == Permutations(Requests)
=============================================================================
