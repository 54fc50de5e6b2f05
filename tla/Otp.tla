--------------------------------- MODULE Otp --------------------------------
(***************************************************************************)
(* The one-time passwords of one user and type: generation (row, then      *)
(* cache), validation (cache first, then the latest row) behind the        *)
(* per-user rate limiter, and account activation, which validates a code   *)
(* and then updates the user.                                              *)
(*                                                                         *)
(* Codes are distinct; a code is the number of its OTP, 0 a wrong guess.   *)
(* Rows are ordered by created_at, the start of the transaction that       *)
(* inserts them, and numbered in that order.                               *)
(***************************************************************************)
EXTENDS RateLimit, FiniteSets

CONSTANTS
    Generators,  \* send-otp requests, each handled once
    Validators,  \* validate and activate requests, each handled once
    TTL          \* OTP_EXPIRY_SECONDS, in ticks

ASSUME OtpConstants == TTL \in Nat \ {0} /\ IsFiniteSet(Generators) /\ IsFiniteSet(Validators)

VARIABLES
    otp,      \* the rows of the otps table, in creation order
    cached,   \* otp:{user}:{type}: the OTP whose code is cached, and the rest of its TTL
    gen,      \* the generating requests
    val,      \* the validating requests
    account   \* the status of the user: "pending" or "active"

vars == <<otp, cached, gen, val, account, counter>>

Codes == 1..Cardinality(Generators)
NoCode == [code |-> 0, left |-> 0]
Busy == {"begun", "committed", "cached"}
Waiting == {"first", "admitted", "missed", "hit", "deleted", "read", "marked"}

\* Used by generation g of OTP o; overlapped (history): a later generation began before
\* this one ended; accepted and width (history): validations that consumed the code, and
\* the most that were at work on it at one moment.
NoOtp == [row |-> FALSE, used |-> FALSE, left |-> 0, overlapped |-> FALSE, accepted |-> 0, width |-> 0]

\* Codes a client can know: those of a generation that came to its end.
Delivered == {gen[g].code : g \in {h \in Generators : gen[h].pc = "ok"}}

\* find_latest_by_user_and_type.
Latest == LET rows == {c \in Codes : otp[c].row} IN
          IF rows = {} THEN 0 ELSE CHOOSE c \in rows : \A d \in rows : d <= c

Init ==
    /\ otp = [c \in Codes |-> NoOtp]
    /\ cached = NoCode
    /\ gen = [g \in Generators |-> [pc |-> "idle", code |-> 0]]
    /\ val = [v \in Validators |-> [pc |-> "idle", kind |-> "validate", code |-> 0]]
    /\ account = "pending"
    /\ counter = NoKey

------------------------------------------------------------------------------
(* Generation *)

\* send_activation_otp reads the user, which starts the transaction, refuses an active
\* account, draws the code and computes expires_at.
GenerateBegin(g) ==
    /\ gen[g].pc = "idle" /\ account = "pending"
    /\ LET c == 1 + Cardinality({h \in Generators : gen[h].pc # "idle"}) IN
       /\ gen' = [gen EXCEPT ![g] = [pc |-> "begun", code |-> c]]
       /\ otp' = [d \in Codes |->
            IF d = c THEN [NoOtp EXCEPT !.left = TTL]
            ELSE IF \E h \in Generators : gen[h].pc \in Busy /\ gen[h].code = d
            THEN [otp[d] EXCEPT !.overlapped = TRUE]
            ELSE otp[d]]
    /\ UNCHANGED <<cached, val, account, counter>>

GenerateCommit(g) ==
    /\ gen[g].pc = "begun"
    /\ otp' = [otp EXCEPT ![gen[g].code].row = TRUE]
    /\ gen' = [gen EXCEPT ![g].pc = "committed"]
    /\ UNCHANGED <<cached, val, account, counter>>

\* Mutant: a code that is cached already is kept (SET NX).
GenerateCacheOnce(g) ==
    /\ gen[g].pc = "committed"
    /\ cached' = IF cached.left > 0 THEN cached ELSE [code |-> gen[g].code, left |-> TTL]
    /\ gen' = [gen EXCEPT ![g].pc = "cached"]
    /\ UNCHANGED <<otp, val, account, counter>>

\* cache.set with the full TTL, counted from now.
GenerateCache(g) ==
    /\ gen[g].pc = "committed"
    /\ cached' = [code |-> gen[g].code, left |-> TTL]
    /\ gen' = [gen EXCEPT ![g].pc = "cached"]
    /\ UNCHANGED <<otp, val, account, counter>>

\* The event is published and the code mailed.
GenerateSend(g) ==
    /\ gen[g].pc = "cached"
    /\ gen' = [gen EXCEPT ![g].pc = "ok"]
    /\ UNCHANGED <<otp, cached, val, account, counter>>

GenerateFails(g) ==
    /\ gen[g].pc \in Busy
    /\ gen' = [gen EXCEPT ![g].pc = "failed"]
    /\ UNCHANGED <<otp, cached, val, account, counter>>

------------------------------------------------------------------------------
(* Validation *)

Goto(v, pc) == val' = [val EXCEPT ![v].pc = pc]
End(v) == val' = [val EXCEPT ![v] = [pc |-> "done", kind |-> "validate", code |-> 0]]

\* A request that passed its limiter goes to work on code c.
Enter(v, kind, c, pc) ==
    /\ val' = [val EXCEPT ![v] = [pc |-> pc, kind |-> kind, code |-> c]]
    /\ LET n == 1 + Cardinality({w \in Validators : val[w].pc \in Waiting /\ val[w].code = c}) IN
       otp' = IF c # 0 /\ n > otp[c].width THEN [otp EXCEPT ![c].width = n] ELSE otp

\* POST /auth/otp/validate: RateLimiter.check on the key of the user.  The first request
\* of a window has still to set the expiry.
ValidateFirst(v, c) ==
    /\ val[v].pc = "idle" /\ counter.n = 0
    /\ Incr /\ Enter(v, "validate", c, "first")
    /\ UNCHANGED <<cached, gen, account>>

ValidateNext(v, c) ==
    /\ val[v].pc = "idle" /\ counter.n > 0
    /\ IncrAndDecide
    /\ IF Passes(counter.n + 1) THEN Enter(v, "validate", c, "admitted")
       ELSE End(v) /\ UNCHANGED otp
    /\ UNCHANGED <<cached, gen, account>>

SetExpiry(v) ==
    /\ val[v].pc = "first"
    /\ SetTtl(Passes(1)) /\ Goto(v, "admitted")
    /\ UNCHANGED <<otp, cached, gen, account>>

\* POST /auth/activate/verify, which has a limiter of its own: the user must be pending.
ActivateBegin(v, c) ==
    /\ val[v].pc = "idle"
    /\ IF account = "pending" THEN Enter(v, "activate", c, "admitted")
       ELSE End(v) /\ UNCHANGED otp
    /\ UNCHANGED <<cached, gen, account, counter>>

\* The fast path compares the code with the cached one.
ReadCache(v) ==
    /\ val[v].pc = "admitted"
    /\ Goto(v, IF cached.left > 0 /\ cached.code = val[v].code THEN "hit" ELSE "missed")
    /\ UNCHANGED <<otp, cached, gen, account, counter>>

\* Mutant: the fast path marks the row and leaves the cached code to expire.
DeleteCachedNever(v) ==
    /\ val[v].pc = "hit"
    /\ Goto(v, "deleted")
    /\ UNCHANGED <<otp, cached, gen, account, counter>>

\* The key is deleted first, whatever it holds by now.
DeleteCached(v) ==
    /\ val[v].pc = "hit"
    /\ cached' = NoCode /\ Goto(v, "deleted")
    /\ UNCHANGED <<otp, gen, account, counter>>

\* mark_as_used and commit: the row is written whether or not it is used already.
MarkUsed(c) == [otp EXCEPT ![c].used = TRUE, ![c].accepted = @ + 1]

MarkCached(v) ==
    /\ val[v].pc = "deleted"
    /\ otp' = MarkUsed(val[v].code) /\ Goto(v, "accepted")
    /\ UNCHANGED <<cached, gen, account, counter>>

\* Mutant: the fallback does not look at is_used.
ReadRowUsedToo(v) ==
    /\ val[v].pc = "missed"
    /\ LET c == Latest IN
       IF c # 0 /\ c = val[v].code /\ otp[c].left > 0 THEN Goto(v, "read") ELSE End(v)
    /\ UNCHANGED <<otp, cached, gen, account, counter>>

\* The fallback: only the latest row counts, unexpired, unused and with this code.
ReadRow(v) ==
    /\ val[v].pc = "missed"
    /\ LET c == Latest IN
       IF c # 0 /\ c = val[v].code /\ otp[c].left > 0 /\ ~otp[c].used
         THEN Goto(v, "read") ELSE End(v)
    /\ UNCHANGED <<otp, cached, gen, account, counter>>

MarkRow(v) ==
    /\ val[v].pc = "read"
    /\ otp' = MarkUsed(val[v].code) /\ Goto(v, "marked")
    /\ UNCHANGED <<cached, gen, account, counter>>

DeleteAfterMark(v) ==
    /\ val[v].pc = "marked"
    /\ cached' = NoCode /\ Goto(v, "accepted")
    /\ UNCHANGED <<otp, gen, account, counter>>

\* validate answers; activate writes user.verify() and commits.
Finish(v) ==
    /\ val[v].pc = "accepted"
    /\ account' = IF val[v].kind = "activate" THEN "active" ELSE account
    /\ End(v)
    /\ UNCHANGED <<otp, cached, gen, counter>>

ValidateFails(v) ==
    /\ val[v].pc \in Waiting \cup {"accepted"}
    /\ End(v)
    /\ UNCHANGED <<otp, cached, gen, account, counter>>

\* Entries and rows grow older together.
Tick ==
    /\ otp' = [c \in Codes |-> [otp[c] EXCEPT !.left = IF @ = 0 THEN 0 ELSE @ - 1]]
    /\ cached' = IF cached.left <= 1 THEN NoCode ELSE [cached EXCEPT !.left = @ - 1]
    /\ counter' = Age
    /\ UNCHANGED <<gen, val, account>>

Next ==
    \/ \E g \in Generators : \/ GenerateBegin(g) \/ GenerateCommit(g) \/ GenerateCache(g)
                             \/ GenerateSend(g) \/ GenerateFails(g)
    \/ \E v \in Validators : \/ \E c \in Delivered \cup {0} :
                                   ValidateFirst(v, c) \/ ValidateNext(v, c) \/ ActivateBegin(v, c)
                             \/ SetExpiry(v) \/ ReadCache(v) \/ DeleteCached(v)
                             \/ MarkCached(v) \/ ReadRow(v) \/ MarkRow(v)
                             \/ DeleteAfterMark(v) \/ Finish(v) \/ ValidateFails(v)
    \/ Tick

Spec == Init /\ [][Next]_vars

------------------------------------------------------------------------------
OtpRecords == [row : BOOLEAN, used : BOOLEAN, left : 0..TTL, overlapped : BOOLEAN,
               accepted : Nat, width : Nat]
GenRecords == [pc : Busy \cup {"idle", "ok", "failed"}, code : {0} \cup Codes]
ValRecords == [pc : Waiting \cup {"idle", "accepted", "done"}, kind : {"validate", "activate"},
               code : {0} \cup Codes]

TypeOK ==
    /\ otp \in [Codes -> OtpRecords]
    /\ cached \in [code : {0} \cup Codes, left : 0..TTL]
    /\ gen \in [Generators -> GenRecords]
    /\ val \in [Validators -> ValRecords]
    /\ account \in {"pending", "active"}
    /\ counter \in Counters

\* A code is consumed no more often than validations were at work on it at one moment:
\* one that is retried, in sequence, after any failure, is consumed once, through the
\* cache, the table or both.
DoubleUseNeedsOverlap == \A c \in Codes : otp[c].accepted <= otp[c].width

\* The cached code is that of the latest row, unless the later generation has not reached
\* its cache.set, died before it, or overlapped the one that is cached.
CachedIsLatest ==
    cached.left > 0 => \A g \in Generators :
        (gen[g].code > cached.code /\ otp[gen[g].code].row)
        => gen[g].pc \in {"committed", "failed"} \/ otp[cached.code].overlapped

\* A consumed code is not in the cache: no later validation finds it on the fast path,
\* which does not ask the table.  That a code is known only after its cache.set, and that
\* the fast path deletes before it marks, make it so.
UsedIsNotCached == cached.left > 0 => ~otp[cached.code].used
=============================================================================
