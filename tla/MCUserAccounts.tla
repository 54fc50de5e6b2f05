-------------------------- MODULE MCUserAccounts ---------------------------
(* Instance of UserAccounts for TLC. *)
EXTENDS UserAccounts
=============================================================================
