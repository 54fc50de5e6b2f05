----------------------------- MODULE MCEventBus -----------------------------
EXTENDS EventBus, TLC

Symm == Permutations(Procs) \cup Permutations(Configs)
=============================================================================
