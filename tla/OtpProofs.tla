----------------------------- MODULE OtpProofs -----------------------------
(***************************************************************************)
(* Proofs about Otp and RateLimit, for any finite sets of generating and   *)
(* validating requests, any lifetimes, window and maximum.                 *)
(***************************************************************************)
EXTENDS Otp, FiniteSetTheorems, TLAPS

Begun == {h \in Generators : gen[h].pc # "idle"}

\* Generations are numbered in the order in which they begin, and one that is still busy
\* when a later one begins is overlapped.
CodeInv ==
    /\ \A g \in Generators : IF g \in Begun THEN gen[g].code \in 1..Cardinality(Begun)
                             ELSE gen[g].code = 0
    /\ \A g, h \in Begun : gen[g].code = gen[h].code => g = h
    /\ \A g, h \in Generators : (gen[g].pc \in Busy /\ gen[h].code > gen[g].code)
                                => otp[gen[g].code].overlapped

\* A code that is presented or consumed was delivered, one that is cached was generated.
KnownInv ==
    /\ \A v \in Validators : val[v].pc \notin {"idle", "done"} => val[v].code \in Delivered \cup {0}
    /\ \A c \in Codes : otp[c].used => c \in Delivered
    /\ cached.left > 0 => \E g \in Generators : /\ gen[g].pc \in {"cached", "ok", "failed"}
                                               /\ gen[g].code = cached.code

\* A validation that has missed the cache, or emptied it, will not see its code there again.
MissInv ==
    \A v \in Validators :
        (val[v].pc \in {"missed", "deleted", "read", "marked", "accepted"} /\ cached.left > 0)
        => cached.code # val[v].code

\* The validations at work on code c, and those of them that will consume it.
AtWork(c) == {v \in Validators : val[v].pc \in Waiting /\ val[v].code = c}
Consuming(c) == {v \in AtWork(c) : val[v].pc \in {"hit", "deleted", "read"}}

\* What was consumed and what is about to be are no more than the width on record.
CountInv ==
    \A c \in Codes :
        /\ Cardinality(AtWork(c)) <= otp[c].width
        /\ ~otp[c].used => otp[c].accepted = 0
        /\ otp[c].accepted + Cardinality(Consuming(c)) <= otp[c].width

\* One request at most has still to set the expiry, of a key that has none; until then the
\* others have left a place for it.
LimitInv ==
    /\ \A v, w \in Validators : val[v].pc = "first" /\ val[w].pc = "first" => v = w
    /\ \A v \in Validators : val[v].pc = "first" => counter.left = NoExpiry
    /\ counter.n = 0 => counter = NoKey
    /\ counter.n > 0 => counter.left > 0
    /\ counter.left = NoExpiry =>
          counter.lost = 0 /\ counter.admitted < counter.n /\ counter.admitted < Max
    /\ counter.admitted <= counter.n + counter.lost /\ counter.admitted <= Max + counter.lost

IInv == /\ TypeOK /\ CodeInv /\ KnownInv /\ MissInv /\ CountInv /\ LimitInv
        /\ CachedIsLatest /\ UsedIsNotCached

-----------------------------------------------------------------------------
(* What the parts of an action do *)

LEMMA BegunFacts ==
    ASSUME TypeOK
    PROVE  /\ IsFiniteSet(Begun) /\ Cardinality(Begun) \in Nat /\ Cardinality(Generators) \in Nat
           /\ \A g \in Generators \ Begun : /\ 1 + Cardinality(Begun) \in Codes
                                            /\ Cardinality(Begun \cup {g}) = 1 + Cardinality(Begun)
<1>1. IsFiniteSet(Generators) /\ IsFiniteSet(Begun)
  BY OtpConstants, FS_Subset DEF Begun
<1>2. Cardinality(Begun) \in Nat /\ Cardinality(Generators) \in Nat
  BY <1>1, FS_CardinalityType
<1>3. ASSUME NEW g \in Generators \ Begun
      PROVE  /\ 1 + Cardinality(Begun) \in Codes
             /\ Cardinality(Begun \cup {g}) = 1 + Cardinality(Begun)
  <2>1. Cardinality(Begun \cup {g}) = Cardinality(Begun) + 1
    BY <1>1, FS_AddElement
  <2>2. Begun \cup {g} \subseteq Generators
    BY DEF Begun
  <2>3. Cardinality(Begun \cup {g}) <= Cardinality(Generators)
    BY <1>1, <2>2, FS_Subset
  <2>. QED
    BY <1>2, <2>1, <2>3 DEF Codes
<1>. QED
  BY <1>1, <1>2, <1>3

\* A generation gets the number after all others, and overlaps those that are busy.
LEMMA BeginEffect ==
    ASSUME TypeOK, CodeInv, NEW g \in Generators, GenerateBegin(g), NEW c,
           c = 1 + Cardinality(Begun)
    PROVE  /\ c \in Codes /\ g \notin Begun /\ c \notin Delivered
           /\ gen' \in [Generators -> GenRecords]
           /\ gen'[g].pc = "begun" /\ gen'[g].code = c
           /\ \A h \in Generators \ {g} : gen'[h] = gen[h]
           /\ Begun' = Begun \cup {g} /\ Cardinality(Begun') = c /\ Delivered' = Delivered
           /\ otp' \in [Codes -> OtpRecords]
           /\ ~otp'[c].row /\ ~otp'[c].used /\ otp'[c].accepted = 0 /\ otp'[c].width = 0
           /\ \A d \in Codes \ {c} :
                 /\ otp'[d].row = otp[d].row /\ otp'[d].used = otp[d].used
                 /\ otp'[d].accepted = otp[d].accepted /\ otp'[d].width = otp[d].width
                 /\ otp[d].overlapped => otp'[d].overlapped
                 /\ (\E h \in Generators : gen[h].pc \in Busy /\ gen[h].code = d) => otp'[d].overlapped
<1>1. g \in Generators \ Begun
  BY DEF GenerateBegin, Begun
<1>2. c \in Codes /\ c \in Nat /\ Cardinality(Begun) \in Nat /\ Cardinality(Begun \cup {g}) = c
  BY <1>1, BegunFacts DEF Codes
<1>3. gen' = [gen EXCEPT ![g] = [pc |-> "begun", code |-> c]]
  BY DEF GenerateBegin, Begun
<1>4. /\ gen' \in [Generators -> GenRecords]
      /\ gen'[g].pc = "begun" /\ gen'[g].code = c
      /\ \A h \in Generators \ {g} : gen'[h] = gen[h]
  BY <1>2, <1>3 DEF TypeOK, GenRecords, Busy
<1>5. Begun' = Begun \cup {g} /\ Delivered' = Delivered
  BY <1>1, <1>4 DEF Begun, Delivered
<1>6. c \notin Delivered
  <2>1. ASSUME NEW h \in Generators, gen[h].pc = "ok" PROVE gen[h].code # c
    <3>1. h \in Begun
      BY <2>1 DEF Begun
    <3>. QED
      BY <1>2, <3>1 DEF CodeInv
  <2>. QED
    BY <2>1 DEF Delivered
<1>7. ASSUME NEW d \in Codes
      PROVE  otp'[d] = IF d = c THEN [NoOtp EXCEPT !.left = TTL]
                       ELSE IF \E h \in Generators : gen[h].pc \in Busy /\ gen[h].code = d
                       THEN [otp[d] EXCEPT !.overlapped = TRUE]
                       ELSE otp[d]
  BY DEF GenerateBegin, Begun
<1>8. /\ otp'[c] \in OtpRecords /\ ~otp'[c].row /\ ~otp'[c].used
      /\ otp'[c].accepted = 0 /\ otp'[c].width = 0
  <2>1. otp'[c] = [row |-> FALSE, used |-> FALSE, left |-> TTL, overlapped |-> FALSE,
                   accepted |-> 0, width |-> 0]
    BY <1>2, <1>7 DEF NoOtp
  <2>2. TTL \in 0..TTL
    BY OtpConstants
  <2>. QED
    BY <2>1, <2>2 DEF OtpRecords
<1>9. ASSUME NEW d \in Codes \ {c}
      PROVE  /\ otp'[d] \in OtpRecords
             /\ otp'[d].row = otp[d].row /\ otp'[d].used = otp[d].used
             /\ otp'[d].accepted = otp[d].accepted /\ otp'[d].width = otp[d].width
             /\ otp[d].overlapped => otp'[d].overlapped
             /\ (\E h \in Generators : gen[h].pc \in Busy /\ gen[h].code = d) => otp'[d].overlapped
  <2>1. otp[d] \in OtpRecords
    BY DEF TypeOK
  <2>2. otp'[d] = IF \E h \in Generators : gen[h].pc \in Busy /\ gen[h].code = d
                  THEN [otp[d] EXCEPT !.overlapped = TRUE] ELSE otp[d]
    BY <1>7
  <2>. QED
    BY <2>1, <2>2 DEF OtpRecords
<1>10. otp' \in [Codes -> OtpRecords]
  <2>1. \A d \in Codes : otp'[d] \in OtpRecords
    BY <1>8, <1>9
  <2>. DEFINE f == [d \in Codes |-> IF d = c THEN [NoOtp EXCEPT !.left = TTL]
                       ELSE IF \E h \in Generators : gen[h].pc \in Busy /\ gen[h].code = d
                       THEN [otp[d] EXCEPT !.overlapped = TRUE]
                       ELSE otp[d]]
  <2>2. otp' = f
    BY DEF GenerateBegin, Begun
  <2>. QED
    BY <2>1, <2>2
<1>. QED
  BY <1>1, <1>2, <1>4, <1>5, <1>6, <1>8, <1>9, <1>10

\* A busy generation that moves on stays the same generation; it delivers its code or not.
LEMMA MoveEffect ==
    ASSUME TypeOK, NEW g \in Generators, gen[g].pc \in Busy,
           NEW pc \in Busy \cup {"ok", "failed"}, gen' = [gen EXCEPT ![g].pc = pc]
    PROVE  /\ gen' \in [Generators -> GenRecords]
           /\ gen'[g].pc = pc /\ gen'[g].code = gen[g].code /\ gen[g].code \in {0} \cup Codes
           /\ \A h \in Generators \ {g} : gen'[h] = gen[h]
           /\ \A h \in Generators : gen'[h].code = gen[h].code
           /\ Begun' = Begun /\ Delivered \subseteq Delivered'
<1>1. gen[g] \in GenRecords /\ gen \in [Generators -> GenRecords]
  BY DEF TypeOK
<1>. DEFINE x == [gen[g] EXCEPT !.pc = pc]
<1>2. gen' = [gen EXCEPT ![g] = x]
  OBVIOUS
<1>3. x \in GenRecords /\ x.pc = pc /\ x.code = gen[g].code /\ gen[g].code \in {0} \cup Codes
  BY <1>1 DEF GenRecords
<1>. HIDE DEF x
<1>4. /\ gen' \in [Generators -> GenRecords] /\ gen'[g] = x
      /\ \A h \in Generators \ {g} : gen'[h] = gen[h]
  BY <1>1, <1>2, <1>3
<1>5. \A h \in Generators : gen'[h].code = gen[h].code
  BY <1>3, <1>4
<1>6. Begun' = Begun
  BY <1>3, <1>4 DEF Begun, Busy
<1>7. Delivered \subseteq Delivered'
  BY <1>3, <1>4 DEF Delivered, Busy
<1>. QED
  BY <1>3, <1>4, <1>5, <1>6, <1>7

\* A validation that moves on keeps its code.
LEMMA GotoEffect ==
    ASSUME TypeOK, NEW v \in Validators, NEW pc \in Waiting \cup {"accepted"}, Goto(v, pc)
    PROVE  /\ val' \in [Validators -> ValRecords]
           /\ val'[v].pc = pc /\ val'[v].code = val[v].code /\ val[v].code \in {0} \cup Codes
           /\ \A w \in Validators \ {v} : val'[w] = val[w]
<1>1. val[v] \in ValRecords /\ val \in [Validators -> ValRecords]
  BY DEF TypeOK
<1>. DEFINE x == [val[v] EXCEPT !.pc = pc]
<1>2. val' = [val EXCEPT ![v] = x]
  BY DEF Goto
<1>3. x \in ValRecords /\ x.pc = pc /\ x.code = val[v].code /\ val[v].code \in {0} \cup Codes
  BY <1>1 DEF ValRecords
<1>. HIDE DEF x
<1>. QED
  BY <1>1, <1>2, <1>3

LEMMA EndEffect ==
    ASSUME TypeOK, NEW v \in Validators, End(v)
    PROVE  /\ val' \in [Validators -> ValRecords]
           /\ val'[v].pc = "done"
           /\ \A w \in Validators \ {v} : val'[w] = val[w]
<1>. DEFINE x == [pc |-> "done", kind |-> "validate", code |-> 0]
<1>1. x \in ValRecords /\ x.pc = "done"
  BY DEF ValRecords
<1>2. val' = [val EXCEPT ![v] = x] /\ val \in [Validators -> ValRecords]
  BY DEF End, TypeOK
<1>. HIDE DEF x
<1>. QED
  BY <1>1, <1>2

LEMMA WorkFinite ==
    ASSUME NEW c
    PROVE  /\ IsFiniteSet(AtWork(c)) /\ Cardinality(AtWork(c)) \in Nat
           /\ IsFiniteSet(Consuming(c)) /\ Cardinality(Consuming(c)) \in Nat
           /\ Cardinality(Consuming(c)) <= Cardinality(AtWork(c))
<1>1. AtWork(c) \subseteq Validators /\ Consuming(c) \subseteq AtWork(c)
  BY DEF AtWork, Consuming
<1>2. IsFiniteSet(AtWork(c)) /\ IsFiniteSet(Consuming(c))
  BY <1>1, OtpConstants, FS_Subset
<1>. QED
  BY <1>1, <1>2, FS_Subset, FS_CardinalityType

\* A validation that comes to work on a code is counted in its width.
LEMMA EnterEffect ==
    ASSUME TypeOK, NEW v \in Validators, NEW kind \in {"validate", "activate"},
           NEW c \in Codes \cup {0}, NEW pc \in {"first", "admitted"}, Enter(v, kind, c, pc)
    PROVE  /\ val' \in [Validators -> ValRecords]
           /\ val'[v].pc = pc /\ val'[v].code = c
           /\ \A w \in Validators \ {v} : val'[w] = val[w]
           /\ otp' \in [Codes -> OtpRecords]
           /\ c \in Codes => 1 + Cardinality(AtWork(c)) <= otp'[c].width
           /\ \A d \in Codes :
                 /\ otp'[d].row = otp[d].row /\ otp'[d].used = otp[d].used
                 /\ otp'[d].overlapped = otp[d].overlapped /\ otp'[d].accepted = otp[d].accepted
                 /\ otp'[d].width >= otp[d].width
<1>. DEFINE x == [pc |-> pc, kind |-> kind, code |-> c]
            n == 1 + Cardinality(AtWork(c))
<1>1. x \in ValRecords /\ x.pc = pc /\ x.code = c
  BY DEF ValRecords, Waiting
<1>2. val' = [val EXCEPT ![v] = x] /\ val \in [Validators -> ValRecords]
  BY DEF Enter, TypeOK
<1>3. otp' = IF c # 0 /\ n > otp[c].width THEN [otp EXCEPT ![c].width = n] ELSE otp
  BY DEF Enter, AtWork
<1>4. n \in Nat
  BY WorkFinite
<1>5. otp \in [Codes -> OtpRecords] /\ \A d \in Codes : otp[d] \in OtpRecords /\ otp[d].width \in Nat
  BY DEF TypeOK, OtpRecords
<1>. HIDE DEF x, n
<1>6. CASE c # 0 /\ n > otp[c].width
  <2>. DEFINE y == [otp[c] EXCEPT !.width = n]
  <2>1. c \in Codes /\ otp' = [otp EXCEPT ![c] = y]
    BY <1>3, <1>6
  <2>2. /\ y \in OtpRecords /\ y.width = n /\ y.row = otp[c].row /\ y.used = otp[c].used
        /\ y.overlapped = otp[c].overlapped /\ y.accepted = otp[c].accepted
    BY <1>4, <1>5, <2>1 DEF OtpRecords
  <2>. HIDE DEF y
  <2>3. otp' \in [Codes -> OtpRecords] /\ otp'[c] = y /\ \A d \in Codes \ {c} : otp'[d] = otp[d]
    BY <1>5, <2>1, <2>2
  <2>. QED
    BY <1>1, <1>2, <1>4, <1>5, <1>6, <2>1, <2>2, <2>3 DEF n
<1>7. CASE ~(c # 0 /\ n > otp[c].width)
  <2>1. otp' = otp /\ (c \in Codes => n <= otp[c].width)
    BY <1>3, <1>4, <1>5, <1>7 DEF Codes
  <2>. QED
    BY <1>1, <1>2, <1>5, <2>1 DEF n
<1>. QED
  BY <1>6, <1>7

\* A code that is consumed once more changes no other.
LEMMA MarkEffect ==
    ASSUME TypeOK, NEW c \in Codes, otp' = MarkUsed(c)
    PROVE  /\ otp' \in [Codes -> OtpRecords]
           /\ otp'[c].used /\ otp'[c].accepted = otp[c].accepted + 1
           /\ otp'[c].width = otp[c].width /\ otp'[c].row = otp[c].row
           /\ otp'[c].overlapped = otp[c].overlapped
           /\ \A d \in Codes \ {c} : otp'[d] = otp[d]
<1>1. otp \in [Codes -> OtpRecords] /\ otp[c] \in OtpRecords
  BY DEF TypeOK
<1>. DEFINE y == [otp[c] EXCEPT !.used = TRUE, !.accepted = otp[c].accepted + 1]
<1>2. otp' = [otp EXCEPT ![c] = y]
  BY <1>1 DEF MarkUsed
<1>3. /\ y \in OtpRecords /\ y.used /\ y.accepted = otp[c].accepted + 1 /\ y.width = otp[c].width
      /\ y.row = otp[c].row /\ y.overlapped = otp[c].overlapped
  <2>1. otp[c].accepted + 1 \in Nat
    BY <1>1 DEF OtpRecords
  <2>. DEFINE k == otp[c].accepted + 1
  <2>2. y = [otp[c] EXCEPT !.used = TRUE, !.accepted = k]
    OBVIOUS
  <2>. HIDE DEF y, k
  <2>3. y \in OtpRecords
    BY <1>1, <2>1, <2>2 DEF OtpRecords, k
  <2>4. y.used /\ y.accepted = k
    BY <1>1, <2>2 DEF OtpRecords
  <2>5. y.width = otp[c].width /\ y.row = otp[c].row /\ y.overlapped = otp[c].overlapped
    BY <1>1, <2>2 DEF OtpRecords
  <2>. QED
    BY <2>3, <2>4, <2>5 DEF k
<1>. HIDE DEF y
<1>. QED
  BY <1>1, <1>2, <1>3

\* Time changes nothing but the lives of rows, entry and counter.
LEMMA TickEffect ==
    ASSUME TypeOK, Tick
    PROVE  /\ UNCHANGED <<gen, val, account>>
           /\ otp' \in [Codes -> OtpRecords]
           /\ \A d \in Codes :
                 /\ otp'[d].row = otp[d].row /\ otp'[d].used = otp[d].used
                 /\ otp'[d].overlapped = otp[d].overlapped /\ otp'[d].accepted = otp[d].accepted
                 /\ otp'[d].width = otp[d].width
           /\ cached' \in [code : {0} \cup Codes, left : 0..TTL]
           /\ cached'.left > 0 => cached.left > 0 /\ cached'.code = cached.code
<1>1. ASSUME NEW d \in Codes
      PROVE  /\ otp'[d] \in OtpRecords
             /\ otp'[d].row = otp[d].row /\ otp'[d].used = otp[d].used
             /\ otp'[d].overlapped = otp[d].overlapped /\ otp'[d].accepted = otp[d].accepted
             /\ otp'[d].width = otp[d].width
  <2>. DEFINE k == IF otp[d].left = 0 THEN 0 ELSE otp[d].left - 1
  <2>1. otp[d] \in OtpRecords
    BY DEF TypeOK
  <2>2. k \in 0..TTL
    BY <2>1, OtpConstants DEF OtpRecords
  <2>3. otp'[d] = [otp[d] EXCEPT !.left = k]
    BY DEF Tick
  <2>. HIDE DEF k
  <2>. QED
    BY <2>1, <2>2, <2>3 DEF OtpRecords
<1>2. otp' \in [Codes -> OtpRecords]
  BY <1>1 DEF Tick
<1>3. /\ cached' \in [code : {0} \cup Codes, left : 0..TTL]
      /\ cached'.left > 0 => cached.left > 0 /\ cached'.code = cached.code
  <2>1. cached \in [code : {0} \cup Codes, left : 0..TTL]
    BY DEF TypeOK
  <2>2. CASE cached.left <= 1
    <3>1. cached' = NoCode
      BY <2>2 DEF Tick
    <3>. QED
      BY <3>1, OtpConstants DEF NoCode
  <2>3. CASE cached.left > 1
    <3>1. cached' = [cached EXCEPT !.left = cached.left - 1]
      BY <2>1, <2>3, OtpConstants DEF Tick
    <3>2. cached.left - 1 \in 0..TTL
      BY <2>1, <2>3, OtpConstants
    <3>. QED
      BY <2>1, <2>3, <3>1, <3>2
  <2>. QED
    BY <2>1, <2>2, <2>3, OtpConstants
<1>. QED
  BY <1>1, <1>2, <1>3 DEF Tick

\* The commands of the limiter keep the counter's type.
LEMMA CounterTyped ==
    ASSUME counter \in Counters
    PROVE  /\ Incr => counter' \in Counters
           /\ IncrAndDecide => counter' \in Counters
           /\ \A pass : SetTtl(pass) => counter' \in Counters
           /\ Age \in Counters
<1> USE LimiterConstants DEF Counters
<1>1. ASSUME Incr PROVE counter' \in Counters
  <2>. DEFINE l == IF counter.n = 0 THEN NoExpiry ELSE counter.left
  <2>1. counter' = [counter EXCEPT !.n = counter.n + 1, !.left = l]
    BY <1>1 DEF Incr
  <2>2. l \in 0..NoExpiry /\ counter.n + 1 \in Nat
    BY DEF NoExpiry
  <2>. HIDE DEF l
  <2>. QED
    BY <2>1, <2>2
<1>2. ASSUME IncrAndDecide PROVE counter' \in Counters
  <2>. DEFINE a == counter.admitted + (IF Passes(counter.n + 1) THEN 1 ELSE 0)
  <2>1. counter' = [counter EXCEPT !.n = counter.n + 1, !.admitted = a]
    BY <1>2 DEF IncrAndDecide
  <2>2. a \in Nat /\ counter.n + 1 \in Nat
    OBVIOUS
  <2>. HIDE DEF a
  <2>. QED
    BY <2>1, <2>2
<1>3. ASSUME NEW pass, SetTtl(pass) PROVE counter' \in Counters
  <2>. DEFINE a == counter.admitted + (IF pass THEN 1 ELSE 0)
              l == counter.lost + (IF counter.n > 1 THEN counter.n - 1 ELSE 0)
  <2>1. counter' = [n |-> 1, left |-> Window, lost |-> l, admitted |-> a] /\ a \in Nat /\ l \in Nat
    BY <1>3 DEF SetTtl
  <2>. HIDE DEF a, l
  <2>2. Window \in 0..NoExpiry
    BY DEF NoExpiry
  <2>. QED
    BY <2>1, <2>2
<1>4. Age \in Counters
  <2>1. CASE counter.left \in {0, NoExpiry}
    BY <2>1 DEF Age, NoExpiry
  <2>2. CASE counter.left = 1
    BY <2>2 DEF Age, NoKey, NoExpiry
  <2>3. CASE counter.left \notin {0, 1, NoExpiry}
    <3>1. Age = [counter EXCEPT !.left = counter.left - 1]
      BY <2>3 DEF Age
    <3>2. counter.left - 1 \in 0..NoExpiry
      BY <2>3 DEF NoExpiry
    <3>. QED
      BY <3>1, <3>2
  <2>. QED
    BY <2>1, <2>2, <2>3
<1>. QED
  BY <1>1, <1>2, <1>3, <1>4

\* What the steps of a validation have in common.
ValidateStep(v) ==
    \/ \E c \in Delivered \cup {0} : ValidateFirst(v, c) \/ ValidateNext(v, c) \/ ActivateBegin(v, c)
    \/ SetExpiry(v) \/ ReadCache(v) \/ DeleteCached(v) \/ MarkCached(v) \/ ReadRow(v)
    \/ MarkRow(v) \/ DeleteAfterMark(v) \/ Finish(v) \/ ValidateFails(v)

GenerateStep(g) ==
    \/ GenerateBegin(g) \/ GenerateCommit(g) \/ GenerateCache(g) \/ GenerateSend(g)
    \/ GenerateFails(g)

LEMMA NextCases ==
    ASSUME [Next]_vars
    PROVE  \/ \E g \in Generators : GenerateStep(g)
           \/ \E v \in Validators : ValidateStep(v)
           \/ Tick \/ UNCHANGED vars
  BY DEF Next, GenerateStep, ValidateStep

\* The kinds of step a validation takes: it comes to work, moves on, consumes, or ends.
LEMMA ValidateKinds ==
    ASSUME NEW v \in Validators, ValidateStep(v)
    PROVE  /\ gen' = gen
           /\ \/ \E c \in Delivered \cup {0}, kind \in {"validate", "activate"},
                    pc \in {"first", "admitted"} :
                    Enter(v, kind, c, pc) /\ val[v].pc = "idle" /\ cached' = cached
              \/ End(v) /\ otp' = otp /\ cached' = cached
              \/ SetExpiry(v) \/ ReadCache(v) \/ DeleteCached(v) \/ MarkCached(v)
              \/ (ReadRow(v) /\ Goto(v, "read")) \/ MarkRow(v) \/ DeleteAfterMark(v)
<1>1. ASSUME NEW c \in Delivered \cup {0}, ValidateFirst(v, c) \/ ValidateNext(v, c) \/ ActivateBegin(v, c)
      PROVE  \/ \E kind \in {"validate", "activate"}, pc \in {"first", "admitted"} :
                    Enter(v, kind, c, pc) /\ val[v].pc = "idle" /\ cached' = cached
             \/ End(v) /\ otp' = otp /\ cached' = cached
  BY <1>1 DEF ValidateFirst, ValidateNext, ActivateBegin
<1>2. ASSUME ReadRow(v) PROVE (ReadRow(v) /\ Goto(v, "read")) \/ (End(v) /\ otp' = otp /\ cached' = cached)
  BY <1>2 DEF ReadRow
<1>3. ASSUME Finish(v) \/ ValidateFails(v) PROVE End(v) /\ otp' = otp /\ cached' = cached
  BY <1>3 DEF Finish, ValidateFails
<1>4. gen' = gen
  BY DEF ValidateStep, ValidateFirst, ValidateNext, ActivateBegin, SetExpiry, ReadCache, DeleteCached,
         MarkCached, ReadRow, MarkRow, DeleteAfterMark, Finish, ValidateFails
<1>. QED
  BY <1>1, <1>2, <1>3, <1>4 DEF ValidateStep

-----------------------------------------------------------------------------
(* Types *)

\* A delivered code is a code.
LEMMA DeliveredTyped ==
    ASSUME TypeOK, CodeInv
    PROVE  Delivered \subseteq Codes
<1>1. ASSUME NEW g \in Generators, gen[g].pc = "ok" PROVE gen[g].code \in Codes
  <2>1. gen[g].code \in 1..Cardinality(Begun) /\ gen[g] \in GenRecords
    BY <1>1 DEF CodeInv, Begun, TypeOK
  <2>2. gen[g].code # 0
    BY <2>1, BegunFacts
  <2>. QED
    BY <2>1, <2>2 DEF GenRecords
<1>. QED
  BY <1>1 DEF Delivered

\* A step keeps every variable in its type.
LEMMA TypeStep ==
    ASSUME IInv, [Next]_vars
    PROVE  TypeOK'
<1>1. TypeOK /\ CodeInv /\ KnownInv /\ Delivered \subseteq Codes /\ counter \in Counters
  BY DeliveredTyped DEF IInv, TypeOK
<1>2. ASSUME NEW g \in Generators, GenerateStep(g) PROVE TypeOK'
  <2>1. UNCHANGED <<val, account, counter>>
    BY <1>2 DEF GenerateStep, GenerateBegin, GenerateCommit, GenerateCache, GenerateSend, GenerateFails
  <2>2. CASE GenerateBegin(g)
    BY <1>1, <2>1, <2>2, BeginEffect DEF GenerateBegin, TypeOK
  <2>3. CASE GenerateCommit(g)
    <3>1. gen' \in [Generators -> GenRecords]
      BY <1>1, <2>3, MoveEffect DEF GenerateCommit, Busy
    <3>2. otp' \in [Codes -> OtpRecords]
      BY <1>1, <2>3 DEF GenerateCommit, TypeOK, OtpRecords
    <3>. QED
      BY <1>1, <2>1, <2>3, <3>1, <3>2 DEF GenerateCommit, TypeOK
  <2>4. CASE GenerateCache(g)
    <3>1. gen' \in [Generators -> GenRecords] /\ gen[g].code \in {0} \cup Codes
      BY <1>1, <2>4, MoveEffect DEF GenerateCache, Busy
    <3>2. TTL \in 0..TTL
      BY OtpConstants
    <3>. QED
      BY <1>1, <2>1, <2>4, <3>1, <3>2 DEF GenerateCache, TypeOK
  <2>5. CASE GenerateSend(g)
    BY <1>1, <2>1, <2>5, MoveEffect DEF GenerateSend, TypeOK, Busy
  <2>6. CASE GenerateFails(g)
    BY <1>1, <2>1, <2>6, MoveEffect DEF GenerateFails, TypeOK
  <2>. QED
    BY <1>2, <2>2, <2>3, <2>4, <2>5, <2>6 DEF GenerateStep
<1>3. ASSUME NEW v \in Validators, ValidateStep(v) PROVE TypeOK'
  <2>1. counter' \in Counters
    <3>1. counter' = counter \/ Incr \/ IncrAndDecide \/ SetTtl(Passes(1))
      BY <1>3 DEF ValidateStep, ValidateFirst, ValidateNext, ActivateBegin, SetExpiry, ReadCache,
         DeleteCached, MarkCached, ReadRow, MarkRow, DeleteAfterMark, Finish, ValidateFails
    <3>. QED
      BY <1>1, <3>1, CounterTyped
  <2>2. account' \in {"pending", "active"}
    BY <1>1, <1>3 DEF TypeOK, ValidateStep, ValidateFirst, ValidateNext, ActivateBegin, SetExpiry, ReadCache,
         DeleteCached, MarkCached, ReadRow, MarkRow, DeleteAfterMark, Finish, ValidateFails
  <2>3. cached' \in [code : {0} \cup Codes, left : 0..TTL]
    <3>1. cached' = cached \/ cached' = NoCode
      BY <1>3 DEF ValidateStep, ValidateFirst, ValidateNext, ActivateBegin, SetExpiry, ReadCache,
         DeleteCached, MarkCached, ReadRow, MarkRow, DeleteAfterMark, Finish, ValidateFails
    <3>2. NoCode \in [code : {0} \cup Codes, left : 0..TTL]
      BY OtpConstants DEF NoCode
    <3>. QED
      BY <1>1, <3>1, <3>2 DEF TypeOK
  <2>4. gen' = gen
    BY <1>3, ValidateKinds
  <2>. SUFFICES val' \in [Validators -> ValRecords] /\ otp' \in [Codes -> OtpRecords]
    BY <1>1, <2>1, <2>2, <2>3, <2>4 DEF TypeOK
  <2>5. ASSUME NEW c \in Delivered \cup {0}, NEW kind \in {"validate", "activate"},
               NEW pc \in {"first", "admitted"}, Enter(v, kind, c, pc)
        PROVE  val' \in [Validators -> ValRecords] /\ otp' \in [Codes -> OtpRecords]
    BY <1>1, <2>5, EnterEffect
  <2>6. CASE End(v) /\ otp' = otp
    BY <1>1, <2>6, EndEffect DEF TypeOK
  <2>7. CASE SetExpiry(v) \/ ReadCache(v) \/ DeleteCached(v) \/ (ReadRow(v) /\ Goto(v, "read"))
             \/ DeleteAfterMark(v)
    <3>1. otp' = otp /\ \E pc \in Waiting \cup {"accepted"} : Goto(v, pc)
      BY <2>7 DEF SetExpiry, ReadCache, DeleteCached, ReadRow, DeleteAfterMark, Waiting
    <3>. QED
      BY <1>1, <3>1, GotoEffect DEF TypeOK
  <2>8. CASE MarkCached(v) \/ MarkRow(v)
    <3>1. otp' = MarkUsed(val[v].code) /\ \E pc \in Waiting \cup {"accepted"} : Goto(v, pc)
      BY <2>8 DEF MarkCached, MarkRow, Waiting
    <3>2. val[v].code \in {0} \cup Codes
      BY <1>1, <3>1, GotoEffect
    <3>3. val[v].code = 0 => otp' = otp
      BY <1>1, <3>1 DEF MarkUsed, TypeOK, Codes
    <3>. QED
      BY <1>1, <3>1, <3>2, <3>3, GotoEffect, MarkEffect DEF TypeOK
  <2>. QED
    BY <1>3, <2>5, <2>6, <2>7, <2>8, ValidateKinds
<1>4. CASE Tick
  <2>1. counter' \in Counters
    BY <1>1, <1>4, CounterTyped DEF Tick
  <2>. QED
    BY <1>1, <1>4, <2>1, TickEffect DEF TypeOK
<1>5. CASE UNCHANGED vars
  BY <1>1, <1>5 DEF vars, TypeOK
<1>. QED
  BY <1>2, <1>3, <1>4, <1>5, NextCases

-----------------------------------------------------------------------------
(* Generations and what is known of their codes *)

\* A busy generation has a code of its own.
LEMMA CodeFacts ==
    ASSUME TypeOK, CodeInv
    PROVE  /\ \A g \in Begun : gen[g].code \in Codes
           /\ \A g \in Generators : gen[g].code \in Nat /\ gen[g].code <= Cardinality(Begun)
           /\ \A g \in Generators : gen[g].pc \in Busy =>
                 g \in Begun /\ gen[g].code \notin Delivered
<1>1. Cardinality(Begun) \in Nat
  BY BegunFacts
<1>2. ASSUME NEW g \in Begun PROVE gen[g].code \in Codes
  <2>1. gen[g] \in GenRecords /\ gen[g].code \in 1..Cardinality(Begun)
    BY DEF CodeInv, TypeOK, Begun
  <2>. QED
    BY <1>1, <2>1 DEF GenRecords
<1>3. ASSUME NEW g \in Generators PROVE gen[g].code \in Nat /\ gen[g].code <= Cardinality(Begun)
  BY <1>1 DEF CodeInv
<1>4. ASSUME NEW g \in Generators, gen[g].pc \in Busy
      PROVE  g \in Begun /\ gen[g].code \notin Delivered
  BY <1>4 DEF Begun, Busy, Delivered, CodeInv
<1>. QED
  BY <1>2, <1>3, <1>4

\* The steps of a generation keep the numbering, and overlap what is busy when one begins.
LEMMA CodeStep ==
    ASSUME IInv, [Next]_vars
    PROVE  CodeInv'
<1>1. TypeOK /\ CodeInv /\ Cardinality(Begun) \in Nat
  BY BegunFacts DEF IInv
<1>2. ASSUME NEW g \in Generators, GenerateBegin(g) PROVE CodeInv'
  <2>. DEFINE c == 1 + Cardinality(Begun)
  <2>1. /\ c \in Codes /\ g \notin Begun /\ gen'[g].pc = "begun" /\ gen'[g].code = c
        /\ \A h \in Generators \ {g} : gen'[h] = gen[h]
        /\ Begun' = Begun \cup {g} /\ Cardinality(Begun') = c
    BY <1>1, <1>2, BeginEffect
  <2>2. \A d \in Codes \ {c} :
             /\ otp[d].overlapped => otp'[d].overlapped
             /\ (\E h \in Generators : gen[h].pc \in Busy /\ gen[h].code = d) => otp'[d].overlapped
    BY <1>1, <1>2, BeginEffect
  <2>3. c = 1 + Cardinality(Begun)
    OBVIOUS
  <2>. HIDE DEF c
  <2>4. ASSUME NEW h \in Generators
        PROVE  IF h \in Begun' THEN gen'[h].code \in 1..Cardinality(Begun') ELSE gen'[h].code = 0
    BY <1>1, <2>1, <2>3 DEF CodeInv
  <2>5. ASSUME NEW h \in Begun', NEW k \in Begun', gen'[h].code = gen'[k].code PROVE h = k
    <3>1. \A x \in Begun : x # g /\ x \in Generators /\ gen'[x].code = gen[x].code /\ gen[x].code # c
      BY <1>1, <2>1, <2>3 DEF CodeInv, Begun
    <3>. QED
      BY <1>1, <2>1, <2>5, <3>1 DEF CodeInv
  <2>6. ASSUME NEW h \in Generators, NEW k \in Generators,
               gen'[h].pc \in Busy, gen'[k].code > gen'[h].code
        PROVE  otp'[gen'[h].code].overlapped
    <3>1. gen'[k].code <= c /\ gen'[k].code \in Nat /\ gen'[h].code \in Nat
      BY <1>1, <2>1, <2>3, CodeFacts
    <3>2. h # g
      BY <1>1, <2>1, <2>3, <2>6, <3>1
    <3>3. gen'[h] = gen[h] /\ gen[h].code \in Codes /\ gen[h].code # c
      BY <1>1, <2>1, <2>3, <2>6, <3>1, <3>2, CodeFacts
    <3>. QED
      BY <2>2, <2>6, <3>3
  <2>. QED
    BY <2>4, <2>5, <2>6 DEF CodeInv
<1>3. ASSUME NEW g \in Generators, gen[g].pc \in Busy, NEW pc \in Busy \cup {"ok", "failed"},
             gen' = [gen EXCEPT ![g].pc = pc],
             \A d \in Codes : otp'[d].overlapped = otp[d].overlapped
      PROVE  CodeInv'
  <2>1. /\ \A h \in Generators : gen'[h].code = gen[h].code
        /\ \A h \in Generators \ {g} : gen'[h] = gen[h]
        /\ Begun' = Begun
    BY <1>1, <1>3, MoveEffect
  <2>2. ASSUME NEW h \in Generators, NEW k \in Generators,
               gen'[h].pc \in Busy, gen'[k].code > gen'[h].code
        PROVE  otp'[gen'[h].code].overlapped
    <3>1. gen[h].pc \in Busy /\ gen[h].code \in Codes
      BY <1>1, <1>3, <2>1, <2>2, CodeFacts
    <3>. QED
      BY <1>1, <1>3, <2>1, <2>2, <3>1 DEF CodeInv
  <2>3. ASSUME NEW h \in Generators
        PROVE  IF h \in Begun' THEN gen'[h].code \in 1..Cardinality(Begun') ELSE gen'[h].code = 0
    BY <1>1, <2>1 DEF CodeInv
  <2>4. ASSUME NEW h \in Begun', NEW k \in Begun', gen'[h].code = gen'[k].code PROVE h = k
    BY <1>1, <2>1, <2>4 DEF CodeInv, Begun
  <2>. QED
    BY <2>2, <2>3, <2>4 DEF CodeInv
<1>4. ASSUME NEW g \in Generators,
             GenerateCommit(g) \/ GenerateCache(g) \/ GenerateSend(g) \/ GenerateFails(g)
      PROVE  CodeInv'
  <2>1. \A d \in Codes : otp'[d].overlapped = otp[d].overlapped
    <3>1. CASE GenerateCommit(g)
      BY <1>1, <3>1 DEF GenerateCommit, TypeOK, OtpRecords
    <3>2. CASE otp' = otp
      BY <3>2
    <3>. QED
      BY <1>4, <3>1, <3>2 DEF GenerateCache, GenerateSend, GenerateFails
  <2>2. \E pc \in Busy \cup {"ok", "failed"} : gen' = [gen EXCEPT ![g].pc = pc]
    BY <1>4 DEF GenerateCommit, GenerateCache, GenerateSend, GenerateFails, Busy
  <2>3. gen[g].pc \in Busy
    BY <1>4 DEF GenerateCommit, GenerateCache, GenerateSend, GenerateFails, Busy
  <2>. QED
    BY <1>3, <2>1, <2>2, <2>3
<1>5. ASSUME gen' = gen, \A d \in Codes : otp'[d].overlapped = otp[d].overlapped
      PROVE  CodeInv'
  <2>1. Begun' = Begun
    BY <1>5 DEF Begun
  <2>2. ASSUME NEW h \in Generators, NEW k \in Generators,
               gen[h].pc \in Busy, gen[k].code > gen[h].code
        PROVE  otp'[gen[h].code].overlapped
    BY <1>1, <1>5, <2>2, CodeFacts DEF CodeInv
  <2>. QED
    BY <1>1, <1>5, <2>1, <2>2 DEF CodeInv
<1>6. ASSUME NEW v \in Validators, ValidateStep(v)
      PROVE  gen' = gen /\ \A d \in Codes : otp'[d].overlapped = otp[d].overlapped
  <2>1. gen' = gen /\ Delivered \subseteq Codes
    BY <1>1, <1>6, ValidateKinds, DeliveredTyped
  <2>. SUFFICES \A d \in Codes : otp'[d].overlapped = otp[d].overlapped
    BY <2>1
  <2>2. ASSUME NEW c \in Delivered \cup {0}, NEW kind \in {"validate", "activate"},
               NEW pc \in {"first", "admitted"}, Enter(v, kind, c, pc)
        PROVE  \A d \in Codes : otp'[d].overlapped = otp[d].overlapped
    BY <1>1, <2>1, <2>2, EnterEffect
  <2>3. CASE MarkCached(v) \/ MarkRow(v)
    <3>1. otp' = MarkUsed(val[v].code) /\ val[v].code \in {0} \cup Codes
      BY <1>1, <2>3 DEF MarkCached, MarkRow, TypeOK, ValRecords
    <3>2. val[v].code = 0 => otp' = otp
      BY <1>1, <3>1 DEF MarkUsed, TypeOK, Codes
    <3>. QED
      BY <1>1, <3>1, <3>2, MarkEffect
  <2>4. CASE otp' = otp
    BY <2>4
  <2>. QED
    BY <1>6, <2>1, <2>2, <2>3, <2>4, ValidateKinds
       DEF SetExpiry, ReadCache, DeleteCached, ReadRow, DeleteAfterMark
<1>7. CASE Tick \/ UNCHANGED vars
  <2>1. gen' = gen /\ \A d \in Codes : otp'[d].overlapped = otp[d].overlapped
    BY <1>1, <1>7, TickEffect DEF vars
  <2>. QED
    BY <1>5, <2>1
<1>. QED
  BY <1>2, <1>4, <1>5, <1>6, <1>7, NextCases DEF GenerateStep

\* What a validation does to the codes that are known: one it consumes was delivered.
LEMMA MarkIsKnown ==
    ASSUME TypeOK, CodeInv, KnownInv, NEW v \in Validators, MarkCached(v) \/ MarkRow(v)
    PROVE  /\ otp' = MarkUsed(val[v].code) /\ val[v].code \in Delivered \cup {0}
           /\ \A d \in Codes : d # val[v].code => otp'[d] = otp[d]
<1>1. otp' = MarkUsed(val[v].code) /\ val[v].code \in Delivered \cup {0}
  BY DEF MarkCached, MarkRow, KnownInv
<1>2. val[v].code = 0 => otp' = otp
  BY <1>1 DEF MarkUsed, TypeOK, Codes
<1>3. Delivered \subseteq Codes
  BY DeliveredTyped
<1>. QED
  BY <1>1, <1>2, <1>3, MarkEffect

\* Codes stay known, and what is cached comes from a generation that has come that far.
LEMMA KnownStep ==
    ASSUME IInv, [Next]_vars
    PROVE  KnownInv'
<1>1. TypeOK /\ CodeInv /\ KnownInv /\ Delivered \subseteq Codes
  BY DeliveredTyped DEF IInv
<1>2. ASSUME val' = val, Delivered \subseteq Delivered',
             \A c \in Codes : otp'[c].used => otp[c].used \/ c \in Delivered,
             cached'.left > 0 => \E g \in Generators : /\ gen'[g].pc \in {"cached", "ok", "failed"}
                                                       /\ gen'[g].code = cached'.code
      PROVE  KnownInv'
  BY <1>1, <1>2 DEF KnownInv
<1>3. ASSUME NEW g \in Generators, GenerateStep(g) PROVE KnownInv'
  <2>1. val' = val
    BY <1>3 DEF GenerateStep, GenerateBegin, GenerateCommit, GenerateCache, GenerateSend, GenerateFails
  <2>2. CASE GenerateBegin(g)
    <3>1. Delivered' = Delivered /\ \A c \in Codes : otp'[c].used => otp[c].used
      BY <1>1, <2>2, BeginEffect
    <3>2. \A h \in Generators : gen[h].pc \in {"cached", "ok", "failed"} => gen'[h] = gen[h]
      BY <1>1, <2>2, BeginEffect DEF GenerateBegin
    <3>3. cached' = cached
      BY <2>2 DEF GenerateBegin
    <3>. QED
      BY <1>1, <1>2, <2>1, <3>1, <3>2, <3>3 DEF KnownInv
  <2>3. CASE GenerateCommit(g)
    <3>1. /\ Delivered \subseteq Delivered' /\ cached' = cached /\ gen[g].pc = "begun"
          /\ \A h \in Generators \ {g} : gen'[h] = gen[h]
      BY <1>1, <2>3, MoveEffect DEF GenerateCommit, Busy
    <3>2. \A c \in Codes : otp'[c].used = otp[c].used
      BY <1>1, <2>3 DEF GenerateCommit, TypeOK, OtpRecords
    <3>. QED
      BY <1>1, <1>2, <2>1, <3>1, <3>2 DEF KnownInv
  <2>4. CASE GenerateCache(g)
    <3>1. /\ Delivered \subseteq Delivered' /\ otp' = otp
          /\ gen'[g].pc = "cached" /\ gen'[g].code = gen[g].code
          /\ cached' = [code |-> gen[g].code, left |-> TTL]
      BY <1>1, <2>4, MoveEffect DEF GenerateCache, Busy
    <3>. QED
      BY <1>2, <2>1, <3>1
  <2>5. CASE GenerateSend(g) \/ GenerateFails(g)
    <3>1. /\ Delivered \subseteq Delivered' /\ otp' = otp /\ cached' = cached
          /\ gen'[g].pc \in {"ok", "failed"} /\ gen'[g].code = gen[g].code
          /\ \A h \in Generators \ {g} : gen'[h] = gen[h]
      BY <1>1, <2>5, MoveEffect DEF GenerateSend, GenerateFails, Busy
    <3>. QED
      BY <1>1, <1>2, <2>1, <3>1 DEF KnownInv
  <2>. QED
    BY <1>3, <2>2, <2>3, <2>4, <2>5 DEF GenerateStep
<1>4. ASSUME NEW v \in Validators, ValidateStep(v) PROVE KnownInv'
  <2>1. gen' = gen /\ Delivered' = Delivered
    BY <1>4, ValidateKinds DEF Delivered
  <2>2. cached' = cached \/ cached' = NoCode
    BY <1>4 DEF ValidateStep, ValidateFirst, ValidateNext, ActivateBegin, SetExpiry, ReadCache,
       DeleteCached, MarkCached, ReadRow, MarkRow, DeleteAfterMark, Finish, ValidateFails
  <2>3. cached'.left > 0 => cached' = cached
    BY <2>2 DEF NoCode
  <2>. SUFFICES /\ \A w \in Validators : val'[w].pc \notin {"idle", "done"} =>
                       val'[w].code \in Delivered \cup {0}
                /\ \A c \in Codes : otp'[c].used => c \in Delivered
    BY <1>1, <2>1, <2>3 DEF KnownInv
  <2>4. ASSUME NEW c \in Delivered \cup {0}, NEW kind \in {"validate", "activate"},
               NEW pc \in {"first", "admitted"}, Enter(v, kind, c, pc)
        PROVE  /\ \A w \in Validators : val'[w].pc \notin {"idle", "done"} =>
                       val'[w].code \in Delivered \cup {0}
               /\ \A d \in Codes : otp'[d].used => d \in Delivered
    BY <1>1, <2>4, EnterEffect DEF KnownInv
  <2>5. CASE End(v) /\ otp' = otp
    BY <1>1, <2>5, EndEffect DEF KnownInv
  <2>6. ASSUME val[v].pc \notin {"idle", "done"}, NEW pc \in Waiting \cup {"accepted"}, Goto(v, pc)
        PROVE  \A w \in Validators : val'[w].pc \notin {"idle", "done"} =>
                       val'[w].code \in Delivered \cup {0}
    BY <1>1, <2>6, GotoEffect DEF KnownInv
  <2>7. CASE SetExpiry(v) \/ ReadCache(v) \/ DeleteCached(v) \/ (ReadRow(v) /\ Goto(v, "read"))
             \/ DeleteAfterMark(v)
    <3>1. /\ otp' = otp /\ val[v].pc \notin {"idle", "done"}
          /\ \E pc \in Waiting \cup {"accepted"} : Goto(v, pc)
      BY <2>7 DEF SetExpiry, ReadCache, DeleteCached, ReadRow, DeleteAfterMark, Waiting
    <3>. QED
      BY <1>1, <2>6, <3>1 DEF KnownInv
  <2>8. CASE MarkCached(v) \/ MarkRow(v)
    <3>1. /\ val[v].pc \notin {"idle", "done"}
          /\ \E pc \in Waiting \cup {"accepted"} : Goto(v, pc)
      BY <2>8 DEF MarkCached, MarkRow, Waiting
    <3>2. \A d \in Codes : otp'[d].used => d \in Delivered
      BY <1>1, <2>8, MarkIsKnown DEF KnownInv, Codes
    <3>. QED
      BY <2>6, <3>1, <3>2
  <2>. QED
    BY <1>4, <2>4, <2>5, <2>7, <2>8, ValidateKinds
<1>5. CASE Tick
  <2>1. Delivered' = Delivered
    BY <1>1, <1>5, TickEffect DEF Delivered
  <2>. QED
    BY <1>1, <1>2, <1>5, <2>1, TickEffect DEF KnownInv
<1>6. CASE UNCHANGED vars
  BY <1>1, <1>6 DEF KnownInv, Delivered, vars
<1>. QED
  BY <1>3, <1>4, <1>5, <1>6, NextCases

-----------------------------------------------------------------------------
(* The cache and the table *)

\* A code that a generation puts into the cache was not delivered yet.
LEMMA CachedIsNew ==
    ASSUME TypeOK, CodeInv, KnownInv, NEW g \in Generators, GenerateCache(g)
    PROVE  /\ gen[g].code \in Codes /\ ~otp[gen[g].code].used
           /\ \A v \in Validators : val[v].pc \notin {"idle", "done"} => val[v].code # gen[g].code
<1>1. gen[g].code \in Codes /\ gen[g].code \notin Delivered /\ gen[g].code # 0
  BY CodeFacts DEF GenerateCache, Busy, Codes
<1>. QED
  BY <1>1 DEF KnownInv

\* A validation that missed the cache will not see its code there: codes are delivered
\* after they are cached, and cached once.
LEMMA MissStep ==
    ASSUME IInv, [Next]_vars
    PROVE  MissInv'
<1>1. TypeOK /\ CodeInv /\ KnownInv /\ MissInv /\ Delivered \subseteq Codes
  BY DeliveredTyped DEF IInv
<1>2. ASSUME val' = val, cached'.left > 0 => cached.left > 0 /\ cached'.code = cached.code
      PROVE  MissInv'
  BY <1>1, <1>2 DEF MissInv
<1>3. ASSUME NEW g \in Generators, GenerateStep(g) PROVE MissInv'
  <2>1. val' = val
    BY <1>3 DEF GenerateStep, GenerateBegin, GenerateCommit, GenerateCache, GenerateSend, GenerateFails
  <2>2. CASE GenerateCache(g)
    <3>1. cached'.code = gen[g].code
      BY <2>2 DEF GenerateCache
    <3>. QED
      BY <1>1, <2>1, <2>2, <3>1, CachedIsNew DEF MissInv
  <2>3. CASE cached' = cached
    BY <1>2, <2>1, <2>3
  <2>. QED
    BY <1>3, <2>2, <2>3 DEF GenerateStep, GenerateBegin, GenerateCommit, GenerateSend, GenerateFails
<1>4. ASSUME NEW v \in Validators, ValidateStep(v) PROVE MissInv'
  <2>1. ASSUME NEW w \in Validators \ {v} PROVE val'[w] = val[w]
    <3>1. ASSUME NEW c \in Delivered \cup {0}, NEW kind \in {"validate", "activate"},
                 NEW pc \in {"first", "admitted"}, Enter(v, kind, c, pc)
          PROVE  val'[w] = val[w]
      BY <1>1, <3>1, EnterEffect
    <3>2. CASE End(v)
      BY <1>1, <3>2, EndEffect
    <3>3. ASSUME NEW pc \in Waiting \cup {"accepted"}, Goto(v, pc) PROVE val'[w] = val[w]
      BY <1>1, <3>3, GotoEffect
    <3>. QED
      BY <1>4, <3>1, <3>2, <3>3, ValidateKinds
         DEF SetExpiry, ReadCache, DeleteCached, MarkCached, MarkRow, DeleteAfterMark, Waiting
  <2>2. cached' = cached \/ cached'.left = 0
    BY <1>4 DEF ValidateStep, ValidateFirst, ValidateNext, ActivateBegin, SetExpiry, ReadCache,
       DeleteCached, MarkCached, ReadRow, MarkRow, DeleteAfterMark, Finish, ValidateFails, NoCode
  <2>3. ASSUME val'[v].pc \in {"missed", "deleted", "read", "marked", "accepted"}, cached'.left > 0
        PROVE  cached'.code # val'[v].code
    <3>1. ASSUME NEW c \in Delivered \cup {0}, NEW kind \in {"validate", "activate"},
                 NEW pc \in {"first", "admitted"}, Enter(v, kind, c, pc)
          PROVE  FALSE
      BY <1>1, <2>3, <3>1, EnterEffect
    <3>2. CASE End(v)
      BY <1>1, <2>3, <3>2, EndEffect
    <3>3. CASE SetExpiry(v)
      BY <1>1, <2>3, <3>3, GotoEffect DEF SetExpiry, Waiting
    <3>4. CASE ReadCache(v)
      BY <1>1, <2>3, <3>4, GotoEffect DEF ReadCache, Waiting
    <3>5. CASE DeleteCached(v) \/ DeleteAfterMark(v)
      BY <2>3, <3>5 DEF DeleteCached, DeleteAfterMark, NoCode
    <3>6. CASE MarkCached(v) \/ MarkRow(v) \/ (ReadRow(v) /\ Goto(v, "read"))
      <4>1. /\ val[v].pc \in {"missed", "deleted", "read"} /\ cached' = cached
            /\ \E pc \in Waiting \cup {"accepted"} : Goto(v, pc)
        BY <3>6 DEF MarkCached, MarkRow, ReadRow, Waiting
      <4>2. val'[v].code = val[v].code
        BY <1>1, <4>1, GotoEffect
      <4>. QED
        BY <1>1, <2>3, <4>1, <4>2 DEF MissInv
    <3>. QED
      BY <1>4, <3>1, <3>2, <3>3, <3>4, <3>5, <3>6, ValidateKinds
  <2>. QED
    BY <1>1, <2>1, <2>2, <2>3 DEF MissInv
<1>5. CASE Tick \/ UNCHANGED vars
  BY <1>1, <1>2, <1>5, TickEffect DEF vars
<1>. QED
  BY <1>3, <1>4, <1>5, NextCases

\* Whoever consumes a code has found or made the cache empty of it.
LEMMA UsedStep ==
    ASSUME IInv, [Next]_vars
    PROVE  UsedIsNotCached'
<1>1. TypeOK /\ CodeInv /\ KnownInv /\ MissInv /\ UsedIsNotCached /\ Delivered \subseteq Codes
  BY DeliveredTyped DEF IInv
<1>2. cached.left > 0 => cached.code \in Codes
  <2>1. ASSUME cached.left > 0, NEW g \in Generators, gen[g].pc \in {"cached", "ok", "failed"},
               gen[g].code = cached.code
        PROVE  cached.code \in Codes
    BY <1>1, <2>1, CodeFacts DEF Begun
  <2>. QED
    BY <1>1, <2>1 DEF KnownInv
<1>3. ASSUME cached'.left > 0 => cached.left > 0 /\ cached'.code = cached.code,
             \A c \in Codes : otp'[c].used => otp[c].used
      PROVE  UsedIsNotCached'
  BY <1>1, <1>2, <1>3 DEF UsedIsNotCached
<1>4. ASSUME NEW g \in Generators, GenerateStep(g) PROVE UsedIsNotCached'
  <2>1. CASE GenerateBegin(g)
    BY <1>1, <1>3, <2>1, BeginEffect DEF GenerateBegin
  <2>2. CASE GenerateCommit(g)
    <3>1. \A c \in Codes : otp'[c].used = otp[c].used
      BY <1>1, <2>2 DEF GenerateCommit, TypeOK, OtpRecords
    <3>. QED
      BY <1>3, <2>2, <3>1 DEF GenerateCommit
  <2>3. CASE GenerateCache(g)
    <3>1. otp' = otp /\ cached'.code = gen[g].code
      BY <2>3 DEF GenerateCache
    <3>. QED
      BY <1>1, <2>3, <3>1, CachedIsNew DEF UsedIsNotCached
  <2>4. CASE GenerateSend(g) \/ GenerateFails(g)
    BY <1>3, <2>4 DEF GenerateSend, GenerateFails
  <2>. QED
    BY <1>4, <2>1, <2>2, <2>3, <2>4 DEF GenerateStep
<1>5. ASSUME NEW v \in Validators, ValidateStep(v) PROVE UsedIsNotCached'
  <2>1. cached' = cached \/ cached'.left = 0
    BY <1>5 DEF ValidateStep, ValidateFirst, ValidateNext, ActivateBegin, SetExpiry, ReadCache,
       DeleteCached, MarkCached, ReadRow, MarkRow, DeleteAfterMark, Finish, ValidateFails, NoCode
  <2>2. ASSUME NEW c \in Delivered \cup {0}, NEW kind \in {"validate", "activate"},
               NEW pc \in {"first", "admitted"}, Enter(v, kind, c, pc)
        PROVE  \A d \in Codes : otp'[d].used = otp[d].used
    BY <1>1, <2>2, EnterEffect
  <2>3. CASE MarkCached(v) \/ MarkRow(v)
    <3>1. val[v].pc \in {"deleted", "read"} /\ cached' = cached
      BY <2>3 DEF MarkCached, MarkRow
    <3>2. cached.left > 0 => cached.code # val[v].code
      BY <1>1, <3>1 DEF MissInv
    <3>3. cached.left > 0 => otp'[cached.code] = otp[cached.code]
      BY <1>1, <1>2, <2>3, <3>2, MarkIsKnown
    <3>. QED
      BY <1>1, <3>1, <3>3 DEF UsedIsNotCached
  <2>4. CASE otp' = otp
    BY <1>3, <2>1, <2>4
  <2>. QED
    BY <1>3, <1>5, <2>1, <2>2, <2>3, <2>4, ValidateKinds
       DEF SetExpiry, ReadCache, DeleteCached, ReadRow, DeleteAfterMark
<1>6. CASE Tick \/ UNCHANGED vars
  BY <1>1, <1>3, <1>6, TickEffect DEF vars
<1>. QED
  BY <1>4, <1>5, <1>6, NextCases

\* The cache is behind the table only while a generation is between the two, or after an
\* overlap or a failure.
LEMMA LatestStep ==
    ASSUME IInv, [Next]_vars
    PROVE  CachedIsLatest'
<1>1. TypeOK /\ CodeInv /\ KnownInv /\ CachedIsLatest /\ Delivered \subseteq Codes
  BY DeliveredTyped DEF IInv
<1>2. ASSUME cached.left > 0
      PROVE  \E h \in Begun : gen[h].code = cached.code /\ cached.code \in Codes
  BY <1>1, <1>2, CodeFacts DEF KnownInv, Begun
<1>3. ASSUME gen' = gen, cached'.left > 0 => cached.left > 0 /\ cached'.code = cached.code,
             \A c \in Codes : otp'[c].row = otp[c].row /\ otp'[c].overlapped = otp[c].overlapped
      PROVE  CachedIsLatest'
  <2>1. ASSUME cached'.left > 0, NEW g \in Generators, gen'[g].code > cached'.code,
               otp'[gen'[g].code].row
        PROVE  gen'[g].pc \in {"committed", "failed"} \/ otp'[cached'.code].overlapped
    <3>1. cached.left > 0 /\ cached'.code = cached.code /\ cached.code \in Codes
      BY <1>2, <1>3, <2>1
    <3>2. gen[g].code \in Codes
      BY <1>1, <1>3, <2>1, <3>1 DEF TypeOK, GenRecords, Codes
    <3>. QED
      BY <1>1, <1>3, <2>1, <3>1, <3>2 DEF CachedIsLatest
  <2>. QED
    BY <2>1 DEF CachedIsLatest
<1>4. ASSUME NEW g \in Generators, GenerateBegin(g) PROVE CachedIsLatest'
  <2>. DEFINE c == 1 + Cardinality(Begun)
  <2>1. /\ c \in Codes /\ gen'[g].code = c /\ ~otp'[c].row /\ cached' = cached
        /\ \A h \in Generators \ {g} : gen'[h] = gen[h]
    BY <1>1, <1>4, BeginEffect DEF GenerateBegin
  <2>2. \A d \in Codes \ {c} : /\ otp'[d].row = otp[d].row
                               /\ otp[d].overlapped => otp'[d].overlapped
    BY <1>1, <1>4, BeginEffect
  <2>3. \A h \in Generators : gen[h].code # c
    BY <1>1, CodeFacts, BegunFacts
  <2>. HIDE DEF c
  <2>4. ASSUME cached.left > 0, NEW h \in Generators, gen'[h].code > cached.code,
               otp'[gen'[h].code].row
        PROVE  gen'[h].pc \in {"committed", "failed"} \/ otp'[cached.code].overlapped
    <3>1. h # g /\ gen'[h] = gen[h]
      BY <2>1, <2>4
    <3>2. cached.code \in Codes /\ cached.code # c
      BY <1>2, <2>3, <2>4 DEF Begun
    <3>3. gen[h].code \in Codes \ {c}
      BY <1>1, <2>3, <2>4, <3>1, <3>2 DEF TypeOK, GenRecords, Codes
    <3>. QED
      BY <1>1, <2>2, <2>4, <3>1, <3>2, <3>3 DEF CachedIsLatest
  <2>. QED
    BY <2>1, <2>4 DEF CachedIsLatest
<1>5. ASSUME NEW g \in Generators, GenerateCommit(g) PROVE CachedIsLatest'
  <2>1. /\ cached' = cached /\ gen'[g].pc = "committed" /\ gen'[g].code = gen[g].code
        /\ \A h \in Generators \ {g} : gen'[h] = gen[h]
        /\ gen[g].code \in Codes /\ g \in Begun
    BY <1>1, <1>5, MoveEffect, CodeFacts DEF GenerateCommit, Busy
  <2>2. \A d \in Codes : /\ otp'[d].overlapped = otp[d].overlapped
                         /\ d # gen[g].code => otp'[d] = otp[d]
    BY <1>1, <1>5 DEF GenerateCommit, TypeOK, OtpRecords
  <2>3. ASSUME cached.left > 0, NEW h \in Generators, gen'[h].code > cached.code,
               otp'[gen'[h].code].row
        PROVE  gen'[h].pc \in {"committed", "failed"} \/ otp'[cached.code].overlapped
    <3>1. CASE h = g
      BY <2>1, <3>1
    <3>2. CASE h # g
      <4>1. gen'[h] = gen[h] /\ gen[h].code \in Codes /\ cached.code \in Codes
        BY <1>1, <1>2, <2>1, <2>3, <3>2 DEF TypeOK, GenRecords, Codes
      <4>2. gen[h].code # gen[g].code
        <5>1. h \in Begun
          BY <1>1, <4>1 DEF CodeInv, Codes
        <5>. QED
          BY <1>1, <2>1, <3>2, <5>1 DEF CodeInv
      <4>. QED
        BY <1>1, <2>2, <2>3, <4>1, <4>2 DEF CachedIsLatest
    <3>. QED
      BY <3>1, <3>2
  <2>. QED
    BY <2>1, <2>3 DEF CachedIsLatest
<1>6. ASSUME NEW g \in Generators, GenerateCache(g) PROVE CachedIsLatest'
  <2>1. /\ cached'.code = gen[g].code /\ otp' = otp
        /\ \A h \in Generators : gen'[h].code = gen[h].code
    BY <1>1, <1>6, MoveEffect DEF GenerateCache, Busy
  <2>2. \A h \in Generators : gen[h].code > gen[g].code => otp[gen[g].code].overlapped
    BY <1>1, <1>6 DEF CodeInv, GenerateCache, Busy
  <2>. QED
    BY <2>1, <2>2 DEF CachedIsLatest
<1>7. ASSUME NEW g \in Generators, GenerateSend(g) \/ GenerateFails(g) PROVE CachedIsLatest'
  <2>1. /\ cached' = cached /\ otp' = otp
        /\ gen'[g].pc = "failed" \/ gen[g].pc = "cached"
        /\ \A h \in Generators : gen'[h].code = gen[h].code
        /\ \A h \in Generators \ {g} : gen'[h] = gen[h]
    BY <1>1, <1>7, MoveEffect DEF GenerateSend, GenerateFails, Busy
  <2>. QED
    BY <1>1, <2>1 DEF CachedIsLatest
<1>8. ASSUME NEW v \in Validators, ValidateStep(v) PROVE CachedIsLatest'
  <2>1. gen' = gen
    BY <1>8, ValidateKinds
  <2>2. cached' = cached \/ cached'.left = 0
    BY <1>8 DEF ValidateStep, ValidateFirst, ValidateNext, ActivateBegin, SetExpiry, ReadCache,
       DeleteCached, MarkCached, ReadRow, MarkRow, DeleteAfterMark, Finish, ValidateFails, NoCode
  <2>3. \A d \in Codes : otp'[d].row = otp[d].row /\ otp'[d].overlapped = otp[d].overlapped
    <3>1. ASSUME NEW c \in Delivered \cup {0}, NEW kind \in {"validate", "activate"},
               NEW pc \in {"first", "admitted"}, Enter(v, kind, c, pc)
          PROVE  \A d \in Codes : otp'[d].row = otp[d].row /\ otp'[d].overlapped = otp[d].overlapped
      BY <1>1, <3>1, EnterEffect
    <3>2. CASE MarkCached(v) \/ MarkRow(v)
      BY <1>1, <3>2, MarkIsKnown, MarkEffect DEF Codes
    <3>3. CASE otp' = otp
      BY <3>3
    <3>. QED
      BY <1>8, <3>1, <3>2, <3>3, ValidateKinds
         DEF SetExpiry, ReadCache, DeleteCached, ReadRow, DeleteAfterMark
  <2>. QED
    BY <1>3, <2>1, <2>2, <2>3
<1>9. CASE Tick \/ UNCHANGED vars
  BY <1>1, <1>3, <1>9, TickEffect DEF vars
<1>. QED
  BY <1>4, <1>5, <1>6, <1>7, <1>8, <1>9, NextCases DEF GenerateStep

-----------------------------------------------------------------------------
(* Double use *)

Counted(c) ==
    /\ Cardinality(AtWork(c)) <= otp[c].width
    /\ ~otp[c].used => otp[c].accepted = 0
    /\ otp[c].accepted + Cardinality(Consuming(c)) <= otp[c].width

\* A code keeps its count when nobody comes to work on it or to consume it.
LEMMA CountKept ==
    ASSUME TypeOK, TypeOK', NEW c \in Codes, Counted(c),
           AtWork(c)' \subseteq AtWork(c), Consuming(c)' \subseteq Consuming(c),
           otp'[c].width >= otp[c].width, otp'[c].accepted = otp[c].accepted,
           otp'[c].used = otp[c].used
    PROVE  Counted(c)'
<1>1. /\ IsFiniteSet(AtWork(c)) /\ IsFiniteSet(Consuming(c))
      /\ Cardinality(AtWork(c)) \in Nat /\ Cardinality(Consuming(c)) \in Nat
  BY WorkFinite
<1>2. /\ Cardinality(AtWork(c)') <= Cardinality(AtWork(c)) /\ Cardinality(AtWork(c)') \in Nat
      /\ Cardinality(Consuming(c)') <= Cardinality(Consuming(c)) /\ Cardinality(Consuming(c)') \in Nat
  BY <1>1, FS_Subset, FS_CardinalityType
<1>3. otp[c] \in OtpRecords /\ otp'[c] \in OtpRecords
  BY DEF TypeOK
<1>4. otp[c].width \in Nat /\ otp'[c].width \in Nat /\ otp[c].accepted \in Nat
  BY <1>3 DEF OtpRecords
<1>5. Cardinality(AtWork(c)') <= otp'[c].width
  BY <1>1, <1>2, <1>4 DEF Counted
<1>6. otp'[c].accepted + Cardinality(Consuming(c)') <= otp'[c].width
  BY <1>1, <1>2, <1>4 DEF Counted
<1>7. ~otp'[c].used => otp'[c].accepted = 0
  BY DEF Counted
<1>. QED
  BY <1>5, <1>6, <1>7 DEF Counted

\* A validation that will consume a code finds it unused, so that no more consume it than
\* are at work on it now.
LEMMA CountFirstUse ==
    ASSUME TypeOK, TypeOK', NEW c \in Codes, Counted(c), otp' = otp, ~otp[c].used,
           AtWork(c)' \subseteq AtWork(c)
    PROVE  Counted(c)'
<1>1. /\ IsFiniteSet(AtWork(c)) /\ Cardinality(AtWork(c)) \in Nat
  BY WorkFinite
<1>2. Cardinality(AtWork(c)') <= Cardinality(AtWork(c)) /\ Cardinality(AtWork(c)') \in Nat
  BY <1>1, FS_Subset, FS_CardinalityType
<1>3. Consuming(c)' \subseteq AtWork(c)
  BY DEF Consuming
<1>4. Cardinality(Consuming(c)') <= Cardinality(AtWork(c)) /\ Cardinality(Consuming(c)') \in Nat
  BY <1>1, <1>3, FS_Subset, FS_CardinalityType
<1>5. otp[c].width \in Nat /\ otp[c].accepted = 0
  BY DEF TypeOK, OtpRecords, Counted
<1>6. Cardinality(AtWork(c)') <= otp'[c].width
  BY <1>1, <1>2, <1>5 DEF Counted
<1>7. otp'[c].accepted + Cardinality(Consuming(c)') <= otp'[c].width
  BY <1>1, <1>4, <1>5 DEF Counted
<1>. QED
  BY <1>5, <1>6, <1>7 DEF Counted

\* One use more is one validation less that is about to use it.
LEMMA CountUse ==
    ASSUME TypeOK, TypeOK', NEW c \in Codes, Counted(c), NEW v \in Consuming(c),
           otp' = MarkUsed(c), AtWork(c)' \subseteq AtWork(c),
           Consuming(c)' \subseteq Consuming(c) \ {v}
    PROVE  Counted(c)'
<1>1. /\ IsFiniteSet(AtWork(c)) /\ IsFiniteSet(Consuming(c))
      /\ Cardinality(AtWork(c)) \in Nat /\ Cardinality(Consuming(c)) \in Nat
  BY WorkFinite
<1>2. Cardinality(AtWork(c)') <= Cardinality(AtWork(c)) /\ Cardinality(AtWork(c)') \in Nat
  BY <1>1, FS_Subset, FS_CardinalityType
<1>3. IsFiniteSet(Consuming(c) \ {v}) /\ Cardinality(Consuming(c) \ {v}) = Cardinality(Consuming(c)) - 1
  BY <1>1, FS_RemoveElement
<1>4. /\ Cardinality(Consuming(c)') <= Cardinality(Consuming(c)) - 1
      /\ Cardinality(Consuming(c)') \in Nat
  BY <1>3, FS_Subset, FS_CardinalityType
<1>5. otp'[c].used /\ otp'[c].accepted = otp[c].accepted + 1 /\ otp'[c].width = otp[c].width
  BY MarkEffect
<1>6. otp[c].width \in Nat /\ otp[c].accepted \in Nat
  BY DEF TypeOK, OtpRecords
<1>7. Cardinality(AtWork(c)') <= otp'[c].width
  BY <1>1, <1>2, <1>5, <1>6 DEF Counted
<1>8. otp'[c].accepted + Cardinality(Consuming(c)') <= otp'[c].width
  BY <1>1, <1>4, <1>5, <1>6 DEF Counted
<1>. QED
  BY <1>5, <1>7, <1>8 DEF Counted

\* The validations at work on a code are those of before and the one that moves.
LEMMA WorkSets ==
    ASSUME NEW v \in Validators, NEW c, \A w \in Validators \ {v} : val'[w] = val[w]
    PROVE  /\ (val'[v].pc \notin Waiting \/ val'[v].code # c \/ v \in AtWork(c))
                 => AtWork(c)' \subseteq AtWork(c)
           /\ AtWork(c)' \subseteq AtWork(c) \cup {v}
           /\ Consuming(c)' \subseteq Consuming(c) \cup {v}
           /\ (val'[v].pc \notin {"hit", "deleted", "read"} \/ val'[v].code # c \/ v \in Consuming(c))
                 => Consuming(c)' \subseteq Consuming(c)
           /\ val'[v].pc \notin {"hit", "deleted", "read"} => v \notin Consuming(c)'
  BY DEF AtWork, Consuming

LEMMA CountStep ==
    ASSUME IInv, [Next]_vars, TypeOK'
    PROVE  CountInv'
<1>1. /\ TypeOK /\ CodeInv /\ KnownInv /\ UsedIsNotCached /\ Delivered \subseteq Codes
      /\ \A c \in Codes : Counted(c)
  BY DeliveredTyped DEF IInv, CountInv, Counted
<1>. SUFFICES ASSUME NEW c \in Codes PROVE Counted(c)'
  BY DEF CountInv, Counted
<1>2. ASSUME val' = val
      PROVE  AtWork(c)' = AtWork(c) /\ Consuming(c)' = Consuming(c)
  BY <1>2 DEF AtWork, Consuming
<1>3. ASSUME NEW g \in Generators, GenerateStep(g) PROVE Counted(c)'
  <2>1. val' = val
    BY <1>3 DEF GenerateStep, GenerateBegin, GenerateCommit, GenerateCache, GenerateSend, GenerateFails
  <2>2. CASE GenerateBegin(g)
    <3>. DEFINE new == 1 + Cardinality(Begun)
    <3>1. new \notin Delivered /\ new \in Codes
      BY <1>1, <2>2, BeginEffect
    <3>2. ~otp'[new].used /\ otp'[new].accepted = 0 /\ otp'[new].width = 0
      BY <1>1, <2>2, BeginEffect
    <3>3. \A d \in Codes \ {new} : /\ otp'[d].used = otp[d].used /\ otp'[d].accepted = otp[d].accepted
                                   /\ otp'[d].width = otp[d].width
      BY <1>1, <2>2, BeginEffect
    <3>. HIDE DEF new
    <3>4. CASE c = new
      <4>1. AtWork(c) = {} /\ Consuming(c) = {}
        BY <1>1, <3>1, <3>4 DEF KnownInv, AtWork, Consuming, Waiting, Codes
      <4>2. Cardinality(AtWork(c)') = 0 /\ Cardinality(Consuming(c)') = 0
        BY <1>2, <2>1, <4>1, FS_EmptySet
      <4>. QED
        BY <3>2, <3>4, <4>2 DEF Counted
    <3>5. CASE c # new
      <4>1. otp[c].width \in Nat
        BY <1>1 DEF TypeOK, OtpRecords
      <4>. QED
        BY <1>1, <1>2, <2>1, <3>3, <3>5, <4>1, CountKept
    <3>. QED
      BY <3>4, <3>5
  <2>3. CASE GenerateCommit(g)
    <3>1. otp[c] \in OtpRecords
      BY <1>1 DEF TypeOK
    <3>2. otp'[c] = otp[c] \/ otp'[c] = [otp[c] EXCEPT !.row = TRUE]
      BY <1>1, <2>3 DEF GenerateCommit, TypeOK
    <3>3. /\ otp'[c].used = otp[c].used /\ otp'[c].accepted = otp[c].accepted
          /\ otp'[c].width = otp[c].width /\ otp[c].width \in Nat
      BY <3>1, <3>2 DEF OtpRecords
    <3>. QED
      BY <1>1, <1>2, <2>1, <3>3, CountKept
  <2>4. CASE otp' = otp
    BY <1>1, <1>2, <2>1, <2>4 DEF Counted
  <2>. QED
    BY <1>3, <2>2, <2>3, <2>4 DEF GenerateStep, GenerateCache, GenerateSend, GenerateFails
<1>4. ASSUME NEW v \in Validators, ValidateStep(v) PROVE Counted(c)'
  <2>0. otp[c].width \in Nat /\ otp'[c].width \in Nat /\ val[v] \in ValRecords
    BY <1>1 DEF TypeOK, OtpRecords
  <2>1. ASSUME NEW k \in Delivered \cup {0}, NEW kind \in {"validate", "activate"},
               NEW pc \in {"first", "admitted"}, Enter(v, kind, k, pc), val[v].pc = "idle"
        PROVE  Counted(c)'
    <3>1. /\ val'[v].pc = pc /\ val'[v].code = k /\ \A w \in Validators \ {v} : val'[w] = val[w]
          /\ k \in Codes => 1 + Cardinality(AtWork(k)) <= otp'[k].width
          /\ otp'[c].used = otp[c].used /\ otp'[c].accepted = otp[c].accepted
          /\ otp'[c].width >= otp[c].width
      BY <1>1, <2>1, EnterEffect
    <3>2. AtWork(c)' \subseteq AtWork(c) \cup {v} /\ Consuming(c)' \subseteq Consuming(c)
      BY <3>1, WorkSets
    <3>3. CASE k # c
      BY <1>1, <3>1, <3>2, <3>3, WorkSets, CountKept
    <3>4. CASE k = c
      <4>1. IsFiniteSet(AtWork(c)) /\ Cardinality(AtWork(c)) \in Nat
            /\ IsFiniteSet(Consuming(c)) /\ Cardinality(Consuming(c)) \in Nat
        BY WorkFinite
      <4>2. v \notin AtWork(c)
        BY <2>1 DEF AtWork, Waiting
      <4>3. Cardinality(AtWork(c) \cup {v}) = Cardinality(AtWork(c)) + 1 /\ IsFiniteSet(AtWork(c) \cup {v})
        BY <4>1, <4>2, FS_AddElement
      <4>4. Cardinality(AtWork(c)') <= Cardinality(AtWork(c)) + 1 /\ Cardinality(AtWork(c)') \in Nat
        BY <3>2, <4>3, FS_Subset, FS_CardinalityType
      <4>5. Cardinality(Consuming(c)') <= Cardinality(Consuming(c)) /\ Cardinality(Consuming(c)') \in Nat
        BY <3>2, <4>1, FS_Subset, FS_CardinalityType
      <4>6. Cardinality(AtWork(c)') <= otp'[c].width
        BY <2>0, <3>1, <3>4, <4>1, <4>4
      <4>7. otp'[c].accepted + Cardinality(Consuming(c)') <= otp'[c].width
        <5>1. otp[c].accepted \in Nat
          BY <1>1 DEF TypeOK, OtpRecords
        <5>. QED
          BY <1>1, <2>0, <3>1, <4>1, <4>5, <5>1 DEF Counted
      <4>8. ~otp'[c].used => otp'[c].accepted = 0
        BY <1>1, <3>1 DEF Counted
      <4>. QED
        BY <4>6, <4>7, <4>8 DEF Counted
    <3>. QED
      BY <3>3, <3>4
  <2>2. CASE End(v) /\ otp' = otp
    <3>1. val'[v].pc = "done" /\ \A w \in Validators \ {v} : val'[w] = val[w]
      BY <1>1, <2>2, EndEffect
    <3>2. AtWork(c)' \subseteq AtWork(c) /\ Consuming(c)' \subseteq Consuming(c)
      BY <3>1, WorkSets DEF Waiting
    <3>. QED
      BY <1>1, <2>0, <2>2, <3>2, CountKept
  <2>3. ASSUME NEW pc \in Waiting \cup {"accepted"}, Goto(v, pc), val[v].pc \in Waiting
        PROVE  /\ val'[v].pc = pc /\ val'[v].code = val[v].code
               /\ \A w \in Validators \ {v} : val'[w] = val[w]
               /\ AtWork(c)' \subseteq AtWork(c)
    <3>1. /\ val'[v].pc = pc /\ val'[v].code = val[v].code
          /\ \A w \in Validators \ {v} : val'[w] = val[w]
      BY <1>1, <2>3, GotoEffect
    <3>. QED
      BY <2>3, <3>1, WorkSets DEF AtWork
  <2>4. CASE SetExpiry(v) \/ DeleteCached(v) \/ DeleteAfterMark(v)
    <3>1. /\ val[v].pc \in Waiting /\ otp' = otp
          /\ \E pc \in Waiting \cup {"accepted"} :
                Goto(v, pc) /\ (pc \in {"admitted", "accepted"} \/ val[v].pc = "hit")
      BY <2>4 DEF SetExpiry, DeleteCached, DeleteAfterMark, Waiting
    <3>2. PICK pc \in Waiting \cup {"accepted"} :
                Goto(v, pc) /\ (pc \in {"admitted", "accepted"} \/ val[v].pc = "hit")
      BY <3>1
    <3>3. /\ val'[v].pc = pc /\ val'[v].code = val[v].code
          /\ \A w \in Validators \ {v} : val'[w] = val[w]
          /\ AtWork(c)' \subseteq AtWork(c)
      BY <2>3, <3>1, <3>2
    <3>4. Consuming(c)' \subseteq Consuming(c)
      <4>1. val[v].pc = "hit" => v \in Consuming(c) \/ val'[v].code # c
        BY <3>3 DEF Consuming, AtWork, Waiting
      <4>. QED
        BY <3>2, <3>3, <4>1, WorkSets
    <3>. QED
      BY <1>1, <2>0, <3>1, <3>3, <3>4, CountKept
  <2>5. CASE ReadCache(v)
    <3>1. val[v].pc \in Waiting /\ otp' = otp
      BY <2>5 DEF ReadCache, Waiting
    <3>2. CASE cached.left > 0 /\ cached.code = val[v].code /\ val[v].code = c
      <4>1. Goto(v, "hit") /\ ~otp[c].used
        BY <1>1, <2>5, <3>2 DEF ReadCache, UsedIsNotCached
      <4>2. AtWork(c)' \subseteq AtWork(c)
        BY <2>3, <3>1, <4>1 DEF Waiting
      <4>. QED
        BY <1>1, <3>1, <4>1, <4>2, CountFirstUse
    <3>3. CASE ~(cached.left > 0 /\ cached.code = val[v].code /\ val[v].code = c)
      <4>1. PICK pc \in {"hit", "missed"} : Goto(v, pc) /\ (pc = "hit" => val[v].code # c)
        BY <2>5, <3>3 DEF ReadCache
      <4>2. /\ val'[v].pc = pc /\ val'[v].code = val[v].code
            /\ \A w \in Validators \ {v} : val'[w] = val[w]
            /\ AtWork(c)' \subseteq AtWork(c)
        BY <2>3, <3>1, <4>1 DEF Waiting
      <4>3. Consuming(c)' \subseteq Consuming(c)
        BY <4>1, <4>2, WorkSets
      <4>. QED
        BY <1>1, <2>0, <3>1, <4>2, <4>3, CountKept
    <3>. QED
      BY <3>2, <3>3
  <2>6. CASE ReadRow(v) /\ Goto(v, "read")
    <3>1. val[v].pc \in Waiting /\ otp' = otp
      BY <2>6 DEF ReadRow, Waiting
    <3>2. /\ val'[v].pc = "read" /\ val'[v].code = val[v].code
          /\ \A w \in Validators \ {v} : val'[w] = val[w]
          /\ AtWork(c)' \subseteq AtWork(c)
      BY <2>3, <2>6, <3>1 DEF Waiting
    <3>3. CASE val[v].code = c
      <4>1. ~otp[c].used
        <5>1. ~End(v)
          BY <1>1, <3>2, EndEffect
        <5>. QED
          BY <2>6, <3>3, <5>1 DEF ReadRow
      <4>. QED
        BY <1>1, <3>1, <3>2, <4>1, CountFirstUse
    <3>4. CASE val[v].code # c
      <4>1. Consuming(c)' \subseteq Consuming(c)
        BY <3>2, <3>4, WorkSets
      <4>. QED
        BY <1>1, <2>0, <3>1, <3>2, <4>1, CountKept
    <3>. QED
      BY <3>3, <3>4
  <2>7. CASE MarkCached(v) \/ MarkRow(v)
    <3>1. PICK pc \in {"accepted", "marked"} :
               /\ Goto(v, pc) /\ val[v].pc \in {"deleted", "read"} /\ otp' = MarkUsed(val[v].code)
      BY <2>7 DEF MarkCached, MarkRow
    <3>2. /\ val'[v].pc = pc /\ val'[v].code = val[v].code
          /\ \A w \in Validators \ {v} : val'[w] = val[w]
          /\ AtWork(c)' \subseteq AtWork(c)
      BY <2>3, <3>1 DEF Waiting
    <3>3. Consuming(c)' \subseteq Consuming(c) \ {v}
      BY <3>2, WorkSets
    <3>4. CASE val[v].code = c
      <4>1. v \in Consuming(c)
        BY <3>1, <3>4 DEF Consuming, AtWork, Waiting
      <4>. QED
        BY <1>1, <3>1, <3>2, <3>3, <3>4, <4>1, CountUse
    <3>5. CASE val[v].code # c
      <4>1. otp'[c] = otp[c]
        BY <1>1, <2>7, <3>5, MarkIsKnown
      <4>. QED
        BY <1>1, <2>0, <3>2, <3>3, <4>1, CountKept
    <3>. QED
      BY <3>4, <3>5
  <2>. QED
    BY <1>4, <2>1, <2>2, <2>4, <2>5, <2>6, <2>7, ValidateKinds
<1>5. CASE Tick
  <2>1. /\ otp'[c].used = otp[c].used /\ otp'[c].accepted = otp[c].accepted
        /\ otp'[c].width = otp[c].width /\ val' = val /\ otp[c].width \in Nat
    BY <1>1, <1>5, TickEffect DEF TypeOK, OtpRecords
  <2>. QED
    BY <1>1, <1>2, <2>1, CountKept
<1>6. CASE UNCHANGED vars
  BY <1>1, <1>2, <1>6 DEF Counted, vars
<1>. QED
  BY <1>3, <1>4, <1>5, <1>6, NextCases

-----------------------------------------------------------------------------
(* The limiter *)

\* The conjuncts of LimitInv about the counter alone.
CounterOk ==
    /\ counter.n = 0 => counter = NoKey
    /\ counter.n > 0 => counter.left > 0
    /\ counter.left = NoExpiry =>
          counter.lost = 0 /\ counter.admitted < counter.n /\ counter.admitted < Max
    /\ counter.admitted <= counter.n + counter.lost /\ counter.admitted <= Max + counter.lost

\* The commands of the limiter: the first INCR, one that is decided, SETEX, and time.
LEMMA CounterStep ==
    ASSUME counter \in Counters, CounterOk
    PROVE  /\ (counter.n = 0 /\ Incr) => CounterOk' /\ counter'.left = NoExpiry
           /\ (counter.n > 0 /\ IncrAndDecide) => CounterOk' /\ counter'.left = counter.left
           /\ (counter.left = NoExpiry /\ SetTtl(Passes(1))) => CounterOk'
           /\ counter' = Age => CounterOk' /\ (counter.left = NoExpiry => counter'.left = NoExpiry)
<1>1. /\ counter.n \in Nat /\ counter.left \in 0..NoExpiry /\ counter.lost \in Nat
      /\ counter.admitted \in Nat /\ NoExpiry = Window + 1 /\ Window \in Nat \ {0} /\ Max \in Nat \ {0}
  BY LimiterConstants DEF Counters, NoExpiry
<1>2. ASSUME counter.n = 0, Incr PROVE CounterOk' /\ counter'.left = NoExpiry
  <2>1. counter = NoKey
    BY <1>2 DEF CounterOk
  <2>2. /\ counter'.n = 1 /\ counter'.left = NoExpiry
        /\ counter'.lost = 0 /\ counter'.admitted = 0
    <3>1. counter.lost = 0 /\ counter.admitted = 0
      BY <2>1 DEF NoKey
    <3>2. counter' = [counter EXCEPT !.n = 1, !.left = NoExpiry]
      BY <1>2 DEF Incr
    <3>. QED
      BY <3>1, <3>2 DEF Counters
  <2>. QED
    BY <1>1, <2>2 DEF CounterOk
<1>3. ASSUME counter.n > 0, IncrAndDecide PROVE CounterOk' /\ counter'.left = counter.left
  <2>. DEFINE a == counter.admitted + (IF counter.n + 1 <= Max THEN 1 ELSE 0)
  <2>1. counter' = [counter EXCEPT !.n = counter.n + 1, !.admitted = a]
    BY <1>3 DEF IncrAndDecide, Passes
  <2>2. /\ counter'.n = counter.n + 1 /\ counter'.left = counter.left
        /\ counter'.lost = counter.lost /\ counter'.admitted = a
    BY <2>1 DEF Counters
  <2>. QED
    BY <1>1, <1>3, <2>2 DEF CounterOk
<1>4. ASSUME counter.left = NoExpiry, SetTtl(Passes(1)) PROVE CounterOk'
  <2>1. counter.n > 0
    BY <1>1, <1>4 DEF CounterOk, NoKey
  <2>2. Passes(1) /\ counter.lost = 0 /\ counter.admitted < counter.n /\ counter.admitted < Max
    BY <1>1, <1>4 DEF Passes, CounterOk
  <2>3. counter.lost + (IF counter.n > 1 THEN counter.n - 1 ELSE 0) = counter.n - 1
    BY <1>1, <2>1, <2>2
  <2>4. counter'.n = 1 /\ counter'.left = Window
    BY <1>4 DEF SetTtl
  <2>5. counter'.lost = counter.n - 1 /\ counter'.admitted = counter.admitted + 1
    BY <1>4, <2>2, <2>3 DEF SetTtl
  <2>6. Window # NoExpiry /\ Window > 0
    BY <1>1
  <2>. QED
    BY <1>1, <2>1, <2>2, <2>4, <2>5, <2>6 DEF CounterOk
<1>5. ASSUME counter' = Age
      PROVE  CounterOk' /\ (counter.left = NoExpiry => counter'.left = NoExpiry)
  <2>1. CASE counter.left \in {0, NoExpiry}
    <3>1. counter' = counter
      BY <1>1, <1>5, <2>1 DEF Age
    <3>. QED
      BY <2>1, <3>1 DEF CounterOk
  <2>2. CASE counter.left = 1
    <3>1. counter' = NoKey
      BY <1>1, <1>5, <2>2 DEF Age
    <3>. QED
      BY <1>1, <2>2, <3>1 DEF CounterOk, NoKey
  <2>3. CASE counter.left \notin {0, 1, NoExpiry}
    <3>1. counter' = [counter EXCEPT !.left = counter.left - 1]
      BY <1>1, <1>5, <2>3 DEF Age
    <3>2. /\ counter'.n = counter.n /\ counter'.left = counter.left - 1
          /\ counter'.lost = counter.lost /\ counter'.admitted = counter.admitted
      BY <3>1 DEF Counters
    <3>3. counter.n > 0
      BY <1>1, <2>3 DEF CounterOk, NoKey
    <3>. QED
      BY <1>1, <2>3, <3>2, <3>3 DEF CounterOk
  <2>. QED
    BY <2>1, <2>2, <2>3
<1>. QED
  BY <1>2, <1>3, <1>4, <1>5

LEMMA LimitStep ==
    ASSUME IInv, [Next]_vars
    PROVE  LimitInv'
<1>1. /\ TypeOK /\ CodeInv /\ Delivered \subseteq Codes /\ counter \in Counters /\ CounterOk
      /\ \A v, w \in Validators : val[v].pc = "first" /\ val[w].pc = "first" => v = w
      /\ \A v \in Validators : val[v].pc = "first" => counter.left = NoExpiry
  BY DeliveredTyped DEF IInv, TypeOK, LimitInv, CounterOk
<1>2. ASSUME CounterOk', counter.left = NoExpiry => counter'.left = NoExpiry,
             \A v \in Validators : val'[v].pc = "first" => val[v].pc = "first"
      PROVE  LimitInv'
  BY <1>1, <1>2 DEF LimitInv, CounterOk
<1>3. ASSUME NEW g \in Generators, GenerateStep(g) PROVE LimitInv'
  <2>1. UNCHANGED <<val, counter>>
    BY <1>3 DEF GenerateStep, GenerateBegin, GenerateCommit, GenerateCache, GenerateSend, GenerateFails
  <2>. QED
    BY <1>1, <1>2, <2>1 DEF CounterOk
<1>4. ASSUME NEW v \in Validators, NEW c \in Delivered \cup {0}, ValidateFirst(v, c) PROVE LimitInv'
  <2>1. counter.n = 0 /\ Incr /\ Enter(v, "validate", c, "first")
    BY <1>4 DEF ValidateFirst
  <2>2. val'[v].pc = "first" /\ \A w \in Validators \ {v} : val'[w] = val[w]
    BY <1>1, <2>1, EnterEffect
  <2>3. CounterOk' /\ counter'.left = NoExpiry
    BY <1>1, <2>1, CounterStep
  <2>4. \A w \in Validators : val[w].pc # "first"
    BY <1>1, <2>1, LimiterConstants DEF CounterOk, NoKey, NoExpiry
  <2>. QED
    BY <2>2, <2>3, <2>4 DEF LimitInv, CounterOk
<1>5. ASSUME NEW v \in Validators, NEW c \in Delivered \cup {0}, ValidateNext(v, c) PROVE LimitInv'
  <2>1. CounterOk' /\ counter'.left = counter.left
    BY <1>1, <1>5, CounterStep DEF ValidateNext
  <2>2. val'[v].pc # "first" /\ \A w \in Validators \ {v} : val'[w] = val[w]
    BY <1>1, <1>5, EnterEffect, EndEffect DEF ValidateNext
  <2>. QED
    BY <1>1, <1>2, <2>1, <2>2
<1>6. ASSUME NEW v \in Validators, SetExpiry(v) PROVE LimitInv'
  <2>1. CounterOk'
    BY <1>1, <1>6, CounterStep DEF SetExpiry
  <2>2. val'[v].pc # "first" /\ \A w \in Validators \ {v} : val'[w] = val[w]
    BY <1>1, <1>6, GotoEffect DEF SetExpiry, Waiting
  <2>3. \A w \in Validators : val'[w].pc # "first"
    BY <1>1, <1>6, <2>2 DEF SetExpiry
  <2>. QED
    BY <2>1, <2>3 DEF LimitInv, CounterOk
<1>7. ASSUME NEW v \in Validators, NEW c \in Delivered \cup {0}, ActivateBegin(v, c) PROVE LimitInv'
  <2>1. counter' = counter /\ val'[v].pc # "first" /\ \A w \in Validators \ {v} : val'[w] = val[w]
    BY <1>1, <1>7, EnterEffect, EndEffect DEF ActivateBegin
  <2>. QED
    BY <1>1, <1>2, <2>1 DEF CounterOk
<1>8. ASSUME NEW v \in Validators,
             \/ ReadCache(v) \/ DeleteCached(v) \/ MarkCached(v) \/ ReadRow(v) \/ MarkRow(v)
             \/ DeleteAfterMark(v) \/ Finish(v) \/ ValidateFails(v)
      PROVE  LimitInv'
  <2>1. counter' = counter
    BY <1>8 DEF ReadCache, DeleteCached, MarkCached, ReadRow, MarkRow, DeleteAfterMark, Finish, ValidateFails
  <2>2. End(v) \/ \E pc \in (Waiting \cup {"accepted"}) \ {"first"} : Goto(v, pc)
    BY <1>8 DEF ReadCache, DeleteCached, MarkCached, ReadRow, MarkRow, DeleteAfterMark, Finish,
       ValidateFails, Waiting
  <2>3. val'[v].pc # "first" /\ \A w \in Validators \ {v} : val'[w] = val[w]
    BY <1>1, <2>2, EndEffect, GotoEffect
  <2>. QED
    BY <1>1, <1>2, <2>1, <2>3 DEF CounterOk
<1>9. CASE Tick
  <2>1. CounterOk' /\ (counter.left = NoExpiry => counter'.left = NoExpiry) /\ val' = val
    BY <1>1, <1>9, CounterStep DEF Tick
  <2>. QED
    BY <1>2, <2>1
<1>10. CASE UNCHANGED vars
  BY <1>1, <1>2, <1>10 DEF vars, CounterOk
<1>. QED
  BY <1>3, <1>4, <1>5, <1>6, <1>7, <1>8, <1>9, <1>10, NextCases DEF ValidateStep

-----------------------------------------------------------------------------
(* The theorems *)

LEMMA InitInv == Init => IInv
<1> SUFFICES ASSUME Init PROVE IInv
  OBVIOUS
<1>1. TypeOK
  <2>1. 0 \in 0..TTL /\ 0 \in 0..NoExpiry
    BY OtpConstants, LimiterConstants DEF NoExpiry
  <2>2. NoOtp \in OtpRecords /\ NoCode \in [code : {0} \cup Codes, left : 0..TTL] /\ NoKey \in Counters
    BY <2>1 DEF NoOtp, OtpRecords, NoCode, NoKey, Counters
  <2>3. gen \in [Generators -> GenRecords] /\ val \in [Validators -> ValRecords]
    BY DEF Init, GenRecords, ValRecords
  <2>. QED
    BY <2>2, <2>3 DEF Init, TypeOK
<1>2. Begun = {} /\ \A g \in Generators : gen[g].pc = "idle" /\ gen[g].code = 0
  BY DEF Init, Begun
<1>3. CodeInv
  BY <1>2 DEF CodeInv, Busy
<1>4. KnownInv /\ MissInv /\ CachedIsLatest /\ UsedIsNotCached
  BY DEF Init, KnownInv, MissInv, CachedIsLatest, UsedIsNotCached, NoOtp, NoCode
<1>5. CountInv
  <2>1. ASSUME NEW c \in Codes PROVE AtWork(c) = {} /\ Consuming(c) = {}
    BY DEF Init, AtWork, Consuming, Waiting
  <2>2. Cardinality({}) = 0
    BY FS_EmptySet
  <2>3. ASSUME NEW c \in Codes
        PROVE  otp[c].width = 0 /\ otp[c].accepted = 0
    BY DEF Init, NoOtp
  <2>4. ASSUME NEW c \in Codes
        PROVE  /\ Cardinality(AtWork(c)) <= otp[c].width
               /\ ~otp[c].used => otp[c].accepted = 0
               /\ otp[c].accepted + Cardinality(Consuming(c)) <= otp[c].width
    <3>1. Cardinality(AtWork(c)) = 0 /\ Cardinality(Consuming(c)) = 0
      BY <2>1, <2>2
    <3>. QED
      BY <2>3, <3>1
  <2>. QED
    BY <2>4 DEF CountInv
<1>6. LimitInv
  BY LimiterConstants DEF Init, LimitInv, NoKey, NoExpiry
<1>. QED
  BY <1>1, <1>3, <1>4, <1>5, <1>6 DEF IInv

\* The inductive invariant holds in every reachable state.
THEOREM Invariance == Spec => []IInv
<1>1. IInv /\ [Next]_vars => IInv'
  BY TypeStep, CodeStep, KnownStep, MissStep, UsedStep, LatestStep, CountStep, LimitStep DEF IInv
<1>. QED
  BY <1>1, InitInv, PTL DEF Spec

\* The rows, the entry, the requests and the counter keep their types.
THEOREM TypeCorrect == Spec => []TypeOK
<1>1. IInv => TypeOK
  BY DEF IInv
<1>. QED
  BY <1>1, Invariance, PTL

\* For any number of generations and validations: a code is consumed no more often than
\* validations were at work on it at one moment, and so once by requests in sequence.
THEOREM NoDoubleUse == Spec => []DoubleUseNeedsOverlap
<1>1. IInv => DoubleUseNeedsOverlap
  <2>1. ASSUME IInv, NEW c \in Codes PROVE otp[c].accepted <= otp[c].width
    <3>1. otp[c].accepted \in Nat /\ otp[c].width \in Nat
      BY <2>1 DEF IInv, TypeOK, OtpRecords
    <3>. QED
      BY <2>1, <3>1, WorkFinite DEF IInv, CountInv
  <2>. QED
    BY <2>1 DEF DoubleUseNeedsOverlap
<1>. QED
  BY <1>1, Invariance, PTL

\* The cached code is that of the latest row but for overlaps and failures.
THEOREM CacheKeepsUp == Spec => []CachedIsLatest
<1>1. IInv => CachedIsLatest
  BY DEF IInv
<1>. QED
  BY <1>1, Invariance, PTL

\* No consumed code is ever found on the fast path.
THEOREM CacheForgetsUsed == Spec => []UsedIsNotCached
<1>1. IInv => UsedIsNotCached
  BY DEF IInv
<1>. QED
  BY <1>1, Invariance, PTL

\* For any maximum and window, one life of the counter admits no more than the maximum and
\* the increments that its SETEX overwrote.
THEOREM Limited == Spec => []AdmittedBounded
<1>1. IInv => AdmittedBounded
  BY DEF IInv, LimitInv, AdmittedBounded
<1>. QED
  BY <1>1, Invariance, PTL
=============================================================================
