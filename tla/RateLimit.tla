----------------------------- MODULE RateLimit -----------------------------
(***************************************************************************)
(* RateLimiter: one counter key in Redis, incremented by every request and *)
(* given its expiry by the request that found it absent, in a second       *)
(* command.  The requests and their order belong to the module that uses   *)
(* the limiter.                                                            *)
(***************************************************************************)
EXTENDS Naturals

CONSTANTS
    Max,     \* max_requests
    Window   \* window_seconds, in ticks

ASSUME LimiterConstants == Max \in Nat \ {0} /\ Window \in Nat \ {0}

\* n is the key's value, 0 when there is no key; left is the rest of its life, NoExpiry
\* while no SETEX was done.  lost and admitted (history) count, since the key was created,
\* the increments that a SETEX overwrote and the requests that passed.
VARIABLE counter

NoExpiry == Window + 1
NoKey == [n |-> 0, left |-> 0, lost |-> 0, admitted |-> 0]

Counters == [n : Nat, left : 0..NoExpiry, lost : Nat, admitted : Nat]

\* INCR creates the key without an expiry and keeps the one it has.
Incr == counter' = [counter EXCEPT !.n = @ + 1, !.left = IF counter.n = 0 THEN NoExpiry ELSE @]

\* set_ttl after a count of 1: SETEX stores 1, whatever the key holds by now.
SetTtl(pass) == counter' = [n |-> 1, left |-> Window,
                            lost |-> counter.lost + (IF counter.n > 1 THEN counter.n - 1 ELSE 0),
                            admitted |-> counter.admitted + (IF pass THEN 1 ELSE 0)]

\* Mutant: the comparison is made with the count before the increment.
PassesOneMore(count) == count - 1 <= Max

\* The request that was answered count passes unless it exceeds the maximum.
Passes(count) == count <= Max

\* INCR by a request that is not the first: it is decided by the answer alone.
IncrAndDecide ==
    counter' = [counter EXCEPT !.n = @ + 1,
                               !.admitted = @ + (IF Passes(counter.n + 1) THEN 1 ELSE 0)]

\* Redis drops the key at the end of the window.
Age == CASE counter.left \in {0, NoExpiry} -> counter
         [] counter.left = 1 -> NoKey
         [] OTHER -> [counter EXCEPT !.left = @ - 1]

\* In one life of the key no more requests pass than the maximum and the increments that
\* the SETEX of the first one overwrote.
AdmittedBounded == counter.admitted <= Max + counter.lost
=============================================================================
