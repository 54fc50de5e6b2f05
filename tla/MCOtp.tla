------------------------------- MODULE MCOtp --------------------------------
EXTENDS Otp, TLC

Symm == Permutations(Generators) \cup Permutations(Validators)
=============================================================================
