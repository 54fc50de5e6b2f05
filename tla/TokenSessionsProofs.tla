------------------------ MODULE TokenSessionsProofs ------------------------
(***************************************************************************)
(* Proofs about TokenSessions, for any finite set of requests, any         *)
(* lifetimes, any resolution of the clock, and any bounds.                 *)
(***************************************************************************)
EXTENDS TokenSessions, FiniteSetTheorems, TLAPS

Working == Pcs \ (Ended \cup {"idle"})

\* A pair was issued for a pair that existed.
ParentInv == \A p \in 1..Len(pairs) : pairs[p].parent \in 0..Len(pairs)

\* A request at work, and an answered logout, hold tokens that were issued; what it has
\* decoded is the kind of token it asks for.
HeldBy(r) ==
    /\ (req[r].pc \in Working \/ (req[r].kind = "logout" /\ req[r].pc = "ok"))
          => req[r].token \in Issued /\ req[r].second \in Issued
    /\ req[r].pc \in {"found", "rotated"} => req[r].kind = "refresh"
    /\ (req[r].kind = "refresh" /\ req[r].pc \in {"decoded", "checked", "found", "rotated"})
          => req[r].token.type = "refresh"

HeldInv == \A r \in Requests : HeldBy(r)

\* A blacklist entry lasts into the last second of its token, however late it was written.
EntryInv ==
    \A t \in Tokens : blacklist[t] # 0 => t \in Issued /\ blacklist[t] > Exp(t) - TPS

\* Each half of a logout leaves its token revoked or expired.
LoggedOut(r) ==
    /\ (req[r].pc \in {"half", "revoked"} \/ (req[r].kind = "logout" /\ req[r].pc = "ok"))
          => Expired(req[r].token) \/ blacklist[req[r].token] # 0
    /\ (req[r].pc = "revoked" \/ (req[r].kind = "logout" /\ req[r].pc = "ok"))
          => Expired(req[r].second) \/ blacklist[req[r].second] # 0

LogoutInv == \A r \in Requests : LoggedOut(r)

IInv == TypeOK /\ ParentInv /\ HeldInv /\ EntryInv /\ LogoutInv

-----------------------------------------------------------------------------
(* Time *)

\* The part of x that is a whole number of seconds is less than a second short of it.
LEMMA WholeSeconds ==
    ASSUME NEW T \in Nat \ {0}, NEW x \in Int
    PROVE  /\ x \div T \in Int /\ T * (x \div T) \in Int
           /\ T * (x \div T) <= x /\ x < T * (x \div T) + T
  BY SMT

\* The expiry of an issued token is a time.
LEMMA ExpTyped ==
    ASSUME TypeOK, NEW t \in Issued
    PROVE  Exp(t) \in Int /\ t \in Tokens
<1>1. t.pair \in 1..Len(pairs) /\ t \in Tokens
  BY SessionConstants DEF TypeOK, Issued, Tokens
<1>2. pairs[t.pair].at \in Nat
  <2>1. pairs[t.pair] \in PairRecords
    BY <1>1 DEF TypeOK
  <2>. QED
    BY <2>1 DEF PairRecords
<1>3. (pairs[t.pair].at \div TPS) * TPS \in Int
  BY <1>2, SessionConstants, WholeSeconds
<1>4. TPS * (IF t.type = "access" THEN AccessTTL ELSE RefreshTTL) \in Int
  BY SessionConstants
<1>. QED
  BY <1>1, <1>3, <1>4 DEF Exp

\* An entry written now outlives its token less a second, and is not zero.
LEMMA RevokeCovers ==
    ASSUME TypeOK, NEW t \in Issued
    PROVE  /\ now + TPS * RemainingTTL(t) \in Nat \ {0}
           /\ now + TPS * RemainingTTL(t) > Exp(t) - TPS
<1>. DEFINE s == (Exp(t) - now) \div TPS
<1>1. Exp(t) \in Int /\ now \in Nat /\ TPS \in Nat \ {0}
  BY ExpTyped, SessionConstants DEF TypeOK
<1>2. s \in Int /\ Exp(t) - now < TPS * s + TPS
  BY <1>1, WholeSeconds
<1>3. RemainingTTL(t) = IF s > 1 THEN s ELSE 1
  BY DEF RemainingTTL
<1>. HIDE DEF s
<1>4. TPS * s \in Int
  BY <1>1, <1>2
<1>5. CASE s > 1
  <2>1. TPS * s > 0
    BY <1>1, <1>2, <1>5
  <2>. QED
    BY <1>1, <1>2, <1>3, <1>4, <1>5, <2>1
<1>6. CASE ~(s > 1)
  <2>1. TPS * s <= TPS
    BY <1>1, <1>2, <1>6
  <2>2. RemainingTTL(t) = 1
    BY <1>3, <1>6
  <2>. QED
    BY <1>1, <1>2, <1>4, <2>1, <2>2
<1>. QED
  BY <1>5, <1>6

-----------------------------------------------------------------------------
(* Pairs and requests *)

\* A new pair changes no token issued before.
LEMMA PairsGrow ==
    ASSUME TypeOK, \/ pairs' = pairs
                   \/ \E x \in PairRecords : pairs' = Append(pairs, x)
    PROVE  /\ Len(pairs') >= Len(pairs) /\ Len(pairs) \in Nat
           /\ \A p \in 1..Len(pairs) : p \in 1..Len(pairs') /\ pairs'[p] = pairs[p]
           /\ \A t \in Issued : t \in Issued' /\ Exp(t)' = Exp(t)
<1>1. pairs \in Seq(PairRecords)
  BY DEF TypeOK
<1>2. Len(pairs') >= Len(pairs) /\ Len(pairs) \in Nat /\ Len(pairs') \in Nat
      /\ \A p \in 1..Len(pairs) : pairs'[p] = pairs[p]
  BY <1>1
<1>3. \A t \in Issued : t.pair \in 1..Len(pairs)
  BY DEF Issued
<1>4. \A t \in Issued : t \in Issued'
  BY <1>2 DEF Issued
<1>5. \A t \in Issued : Exp(t)' = Exp(t)
  BY <1>2, <1>3 DEF Exp
<1>. QED
  BY <1>2, <1>4, <1>5

\* What Goto leaves in a request.
LEMMA GotoRecord ==
    ASSUME TypeOK, NEW r \in Requests, NEW pc \in Pcs, Goto(r, pc)
    PROVE  /\ req' \in [Requests -> RequestStates] /\ req'[r].pc = pc
           /\ \A x \in Requests \ {r} : req'[x] = req[x]
           /\ (pc \notin Ended \/ (pc = "ok" /\ req[r].kind = "logout")) =>
                 /\ req'[r].kind = req[r].kind /\ req'[r].token = req[r].token
                 /\ req'[r].second = req[r].second
           /\ ~(pc \notin Ended \/ (pc = "ok" /\ req[r].kind = "logout")) => req'[r].kind = "auth"
<1>1. req \in [Requests -> RequestStates] /\ req[r] \in RequestStates
  BY DEF TypeOK
<1>. DEFINE fresh == [Fresh EXCEPT !.pc = pc]
            kept == [req[r] EXCEPT !.pc = pc]
<1>2. fresh \in RequestStates /\ fresh.pc = pc /\ fresh.kind = "auth"
  BY DEF RequestStates, Fresh, Kinds
<1>3. /\ kept \in RequestStates /\ kept.pc = pc /\ kept.kind = req[r].kind
      /\ kept.token = req[r].token /\ kept.second = req[r].second
  BY <1>1 DEF RequestStates
<1>4. req' = [req EXCEPT ![r] = IF pc \in Ended /\ (pc # "ok" \/ req[r].kind # "logout")
                                THEN fresh ELSE kept]
  BY <1>1 DEF Goto
<1>. HIDE DEF fresh, kept
<1>5. req' \in [Requests -> RequestStates] /\ \A x \in Requests \ {r} : req'[x] = req[x]
  BY <1>1, <1>2, <1>3, <1>4
<1>6. ASSUME pc \notin Ended \/ (pc = "ok" /\ req[r].kind = "logout") PROVE req'[r] = kept
  BY <1>1, <1>4, <1>6 DEF Ended
<1>7. ASSUME ~(pc \notin Ended \/ (pc = "ok" /\ req[r].kind = "logout")) PROVE req'[r] = fresh
  BY <1>1, <1>4, <1>7 DEF Ended
<1>. QED
  BY <1>2, <1>3, <1>5, <1>6, <1>7

\* What a step may do to everything but the requests: the clock advances, a pair is added,
\* a token that was issued is revoked.
LEMMA Effects ==
    ASSUME IInv, [Next]_vars
    PROVE  /\ now' \in {now, now + 1} /\ now' \in 0..MaxTime
           /\ status' \in {"active", "blocked"}
           /\ \/ pairs' = pairs
              \/ \E x \in PairRecords : /\ x.parent \in 0..Len(pairs) /\ Len(pairs) < MaxPairs
                                        /\ pairs' = Append(pairs, x)
           /\ \/ blacklist' = blacklist
              \/ \E t \in Issued : Revoke(t)
<1> USE SessionConstants
<1>. DEFINE Goal == /\ now' \in {now, now + 1} /\ now' \in 0..MaxTime
                    /\ status' \in {"active", "blocked"}
                    /\ \/ pairs' = pairs
                       \/ \E x \in PairRecords :
                             /\ x.parent \in 0..Len(pairs) /\ Len(pairs) < MaxPairs
                             /\ pairs' = Append(pairs, x)
                    /\ \/ blacklist' = blacklist
                       \/ \E t \in Issued : Revoke(t)
<1>1. now \in 0..MaxTime /\ status \in {"active", "blocked"} /\ Len(pairs) \in Nat
      /\ Len(pairs) <= MaxPairs
  BY DEF IInv, TypeOK
<1>2. ASSUME NEW p \in 0..Len(pairs) PROVE [at |-> now, parent |-> p] \in PairRecords
  BY <1>1, <1>2 DEF PairRecords
<1>3. CASE Login
  <2>1. NewPair(0) /\ Len(pairs) < MaxPairs /\ UNCHANGED <<now, blacklist, status>>
    BY <1>3 DEF Login
  <2>. QED
    BY <1>1, <1>2, <2>1 DEF NewPair
<1>4. ASSUME NEW r \in Requests, RefreshIssue(r) PROVE Goal
  <2>1. req[r].token \in Issued
    BY <1>4 DEF RefreshIssue, IInv, HeldInv, HeldBy, Working, Pcs, Ended
  <2>2. req[r].token.pair \in 0..Len(pairs)
    BY <1>1, <2>1 DEF Issued
  <2>3. NewPair(req[r].token.pair) /\ Len(pairs) < MaxPairs /\ UNCHANGED <<now, blacklist, status>>
    BY <1>4 DEF RefreshIssue
  <2>. QED
    BY <1>1, <1>2, <2>2, <2>3 DEF NewPair
<1>5. ASSUME NEW r \in Requests, RefreshRotate(r) \/ LogoutRefresh(r) \/ LogoutAccess(r) PROVE Goal
  <2>1. req[r].token \in Issued /\ req[r].second \in Issued
    BY <1>5 DEF RefreshRotate, LogoutRefresh, LogoutAccess, IInv, HeldInv, HeldBy, Working, Pcs, Ended
  <2>2. UNCHANGED <<now, pairs, status>>
    BY <1>5 DEF RefreshRotate, LogoutRefresh, LogoutAccess
  <2>3. blacklist' = blacklist \/ Revoke(req[r].token) \/ Revoke(req[r].second)
    BY <1>5 DEF RefreshRotate, LogoutRefresh, LogoutAccess, RevokeUnlessExpired
  <2>. QED
    BY <1>1, <2>1, <2>2, <2>3
<1>6. ASSUME NEW r \in Requests,
             \/ \E k \in Kinds, t \in Issued, u \in Issued : Arrive(r, k, t, u)
             \/ RefreshDecode(r) \/ AccessDecode(r) \/ CheckBlacklist(r) \/ RefreshLookup(r)
             \/ AccessLookup(r) \/ LogoutAnswer(r) \/ RequestFails(r)
      PROVE  Goal
  BY <1>1, <1>6 DEF Arrive, RefreshDecode, AccessDecode, DecodeAs, CheckBlacklist, RefreshLookup,
     AccessLookup, LookupUser, LogoutAnswer, RequestFails
<1>7. CASE Tick
  BY <1>1, <1>7 DEF Tick
<1>8. ASSUME NEW s \in {"active", "blocked"}, SetStatus(s) PROVE Goal
  BY <1>1, <1>8 DEF SetStatus
<1>9. CASE UNCHANGED vars
  BY <1>1, <1>9 DEF vars
<1>. QED
  BY <1>3, <1>4, <1>5, <1>6, <1>7, <1>8, <1>9 DEF Next

\* Pairs and entries keep their types, pairs their parents, and every entry covers its token.
LEMMA TablesStep ==
    ASSUME IInv, [Next]_vars
    PROVE  /\ pairs' \in Seq(PairRecords) /\ Len(pairs') <= MaxPairs
           /\ blacklist' \in [Tokens -> Nat]
           /\ ParentInv' /\ EntryInv'
           /\ \A t \in Issued : /\ t \in Issued' /\ Exp(t)' = Exp(t)
                                /\ Expired(t) => Expired(t)'
                                /\ blacklist[t] # 0 => blacklist'[t] # 0
<1>1. /\ pairs \in Seq(PairRecords) /\ Len(pairs) \in Nat /\ Len(pairs) <= MaxPairs
      /\ blacklist \in [Tokens -> Nat] /\ now \in Nat /\ MaxPairs \in Nat
  BY SessionConstants DEF IInv, TypeOK
<1>2. /\ Len(pairs') >= Len(pairs)
      /\ \A p \in 1..Len(pairs) : p \in 1..Len(pairs') /\ pairs'[p] = pairs[p]
      /\ \A t \in Issued : t \in Issued' /\ Exp(t)' = Exp(t)
  <2>1. pairs' = pairs \/ \E x \in PairRecords : pairs' = Append(pairs, x)
    BY Effects
  <2>. QED
    BY <2>1, PairsGrow DEF IInv
<1>3. pairs' \in Seq(PairRecords) /\ Len(pairs') <= MaxPairs /\ ParentInv'
  <2>1. CASE pairs' = pairs
    BY <1>1, <2>1 DEF IInv, ParentInv
  <2>2. CASE pairs' # pairs
    <3>1. PICK x \in PairRecords : /\ x.parent \in 0..Len(pairs) /\ Len(pairs) < MaxPairs
                                   /\ pairs' = Append(pairs, x)
      BY <2>2, Effects
    <3>2. pairs' \in Seq(PairRecords) /\ Len(pairs') = Len(pairs) + 1 /\ pairs'[Len(pairs) + 1] = x
      BY <1>1, <3>1
    <3>3. ASSUME NEW p \in 1..Len(pairs') PROVE pairs'[p].parent \in 0..Len(pairs')
      <4>1. CASE p \in 1..Len(pairs)
        BY <1>1, <1>2, <3>2, <4>1 DEF IInv, ParentInv
      <4>2. CASE p = Len(pairs) + 1
        BY <1>1, <3>1, <3>2, <4>2
      <4>. QED
        BY <1>1, <3>2, <4>1, <4>2
    <3>. QED
      BY <1>1, <3>1, <3>2, <3>3 DEF ParentInv
  <2>. QED
    BY <2>1, <2>2
<1>4. now' \in Nat /\ now' >= now
  BY <1>1, Effects
<1>5. ASSUME NEW t \in Issued, Expired(t) PROVE Expired(t)'
  <2>1. Exp(t) \in Int /\ Exp(t)' = Exp(t)
    BY <1>2, ExpTyped DEF IInv
  <2>. QED
    BY <1>1, <1>4, <1>5, <2>1 DEF Expired
<1>6. \/ blacklist' = blacklist
      \/ \E t \in Issued : /\ t \in Tokens /\ now + TPS * RemainingTTL(t) \in Nat \ {0}
                           /\ now + TPS * RemainingTTL(t) > Exp(t) - TPS
                           /\ blacklist' = [blacklist EXCEPT ![t] = now + TPS * RemainingTTL(t)]
  BY Effects, RevokeCovers, ExpTyped DEF Revoke, IInv
<1>7. CASE blacklist' = blacklist
  <2>1. EntryInv'
    BY <1>2, <1>7 DEF IInv, EntryInv
  <2>. QED
    BY <1>1, <1>2, <1>3, <1>5, <1>7, <2>1
<1>8. ASSUME NEW t \in Issued, NEW e \in Nat \ {0}, t \in Tokens, e > Exp(t) - TPS,
             blacklist' = [blacklist EXCEPT ![t] = e]
      PROVE  /\ blacklist' \in [Tokens -> Nat] /\ EntryInv'
             /\ \A u \in Issued : blacklist[u] # 0 => blacklist'[u] # 0
  <2>1. blacklist' \in [Tokens -> Nat]
    BY <1>1, <1>8
  <2>2. ASSUME NEW u \in Tokens, blacklist'[u] # 0 PROVE u \in Issued' /\ blacklist'[u] > Exp(u)' - TPS
    <3>1. CASE u = t
      BY <1>1, <1>2, <1>8, <3>1
    <3>2. CASE u # t
      BY <1>1, <1>2, <1>8, <2>2, <3>2 DEF IInv, EntryInv
    <3>. QED
      BY <3>1, <3>2
  <2>3. ASSUME NEW u \in Issued, blacklist[u] # 0 PROVE blacklist'[u] # 0
    <3>1. u \in Tokens
      BY ExpTyped DEF IInv
    <3>. QED
      BY <1>1, <1>8, <2>3, <3>1
  <2>. QED
    BY <2>1, <2>2, <2>3 DEF EntryInv
<1>. QED
  BY <1>2, <1>3, <1>5, <1>6, <1>7, <1>8

\* A request that a step does not move keeps what it holds and what it has revoked.
LEMMA StaysPut ==
    ASSUME IInv, [Next]_vars, NEW r \in Requests, req'[r] = req[r]
    PROVE  HeldBy(r)' /\ LoggedOut(r)'
<1>1. HeldBy(r) /\ LoggedOut(r)
  BY DEF IInv, HeldInv, LogoutInv
<1>2. \A t \in Issued : /\ t \in Issued'
                        /\ Expired(t) => Expired(t)'
                        /\ blacklist[t] # 0 => blacklist'[t] # 0
  BY TablesStep
<1>3. HeldBy(r)'
  BY <1>1, <1>2 DEF HeldBy
<1>4. LoggedOut(r)'
  <2>1. (req[r].pc \in Working \/ (req[r].kind = "logout" /\ req[r].pc = "ok"))
          => req[r].token \in Issued /\ req[r].second \in Issued
    BY <1>1 DEF HeldBy
  <2>2. {"half", "revoked"} \subseteq Working
    BY DEF Working, Pcs, Ended
  <2>. QED
    BY <1>1, <1>2, <2>1, <2>2 DEF LoggedOut, Expired, Exp
<1>. QED
  BY <1>3, <1>4

\* A request that a step moves takes with it what its next point requires.
LEMMA Moves ==
    ASSUME IInv, [Next]_vars, NEW r \in Requests, NEW pc \in Pcs, Goto(r, pc),
           pc \in Working => req[r].pc \in Working,
           pc \in {"found", "rotated"} => req[r].kind = "refresh",
           (req[r].kind = "refresh" /\ pc \in {"decoded", "checked", "found", "rotated"})
              => req[r].token.type = "refresh",
           (pc = "ok" /\ req[r].kind = "logout") => req[r].pc = "revoked",
           pc = "revoked" => req[r].pc = "half",
           pc = "half" => Expired(req[r].token) \/ blacklist'[req[r].token] # 0,
           pc = "revoked" => Expired(req[r].second) \/ blacklist'[req[r].second] # 0
    PROVE  /\ req' \in [Requests -> RequestStates]
           /\ \A x \in Requests : HeldBy(x)' /\ LoggedOut(x)'
<1>1. /\ req' \in [Requests -> RequestStates] /\ req'[r].pc = pc
      /\ \A x \in Requests \ {r} : req'[x] = req[x]
      /\ (pc \notin Ended \/ (pc = "ok" /\ req[r].kind = "logout")) =>
            /\ req'[r].kind = req[r].kind /\ req'[r].token = req[r].token
            /\ req'[r].second = req[r].second
      /\ ~(pc \notin Ended \/ (pc = "ok" /\ req[r].kind = "logout")) => req'[r].kind = "auth"
  BY GotoRecord DEF IInv
<1>2. HeldBy(r) /\ LoggedOut(r)
  BY DEF IInv, HeldInv, LogoutInv
<1>3. \A t \in Issued : /\ t \in Issued'
                        /\ Expired(t) => Expired(t)'
                        /\ blacklist[t] # 0 => blacklist'[t] # 0
  BY TablesStep
<1>4. {"half", "revoked"} \subseteq Working /\ Working \cap Ended = {} /\ "idle" \notin Working
      /\ {"found", "rotated", "decoded", "checked"} \subseteq Working
  BY DEF Working, Pcs, Ended
<1>5. CASE pc \notin Ended \/ (pc = "ok" /\ req[r].kind = "logout")
  <2>1. /\ req'[r].kind = req[r].kind /\ req'[r].token = req[r].token
        /\ req'[r].second = req[r].second
    BY <1>1, <1>5
  <2>2. (pc \in Working \/ (req[r].kind = "logout" /\ pc = "ok"))
          => req[r].token \in Issued /\ req[r].second \in Issued
    BY <1>2, <1>4 DEF HeldBy
  <2>3. HeldBy(r)'
    BY <1>1, <1>3, <2>1, <2>2 DEF HeldBy
  <2>4. LoggedOut(r)'
    BY <1>1, <1>2, <1>3, <1>4, <2>1, <2>2 DEF LoggedOut, Expired, Exp
  <2>. QED
    BY <1>1, <2>3, <2>4, StaysPut
<1>6. CASE ~(pc \notin Ended \/ (pc = "ok" /\ req[r].kind = "logout"))
  <2>1. req'[r].kind = "auth" /\ req'[r].pc \in Ended
    BY <1>1, <1>6
  <2>2. HeldBy(r)' /\ LoggedOut(r)'
    BY <1>4, <2>1 DEF HeldBy, LoggedOut, Ended
  <2>. QED
    BY <1>1, <2>2, StaysPut
<1>. QED
  BY <1>5, <1>6

\* Every step keeps what requests hold and what logouts have revoked.
LEMMA RequestsStep ==
    ASSUME IInv, [Next]_vars
    PROVE  /\ req' \in [Requests -> RequestStates]
           /\ HeldInv' /\ LogoutInv'
<1>. DEFINE Goal == /\ req' \in [Requests -> RequestStates]
                    /\ \A x \in Requests : HeldBy(x)' /\ LoggedOut(x)'
<1>. SUFFICES Goal
  BY DEF HeldInv, LogoutInv
<1>1. /\ \A r \in Requests : HeldBy(r) /\ LoggedOut(r) /\ req[r] \in RequestStates
      /\ req \in [Requests -> RequestStates] /\ blacklist \in [Tokens -> Nat]
  BY DEF IInv, TypeOK, HeldInv, LogoutInv
<1>2. CASE UNCHANGED req
  BY <1>1, <1>2, StaysPut
<1>3. ASSUME NEW r \in Requests, NEW k \in Kinds, NEW t \in Issued, NEW u \in Issued,
             Arrive(r, k, t, u)
      PROVE  Goal
  <2>. DEFINE x == [kind |-> k, pc |-> "arrived", token |-> t, second |-> u]
  <2>1. x \in RequestStates
    BY ExpTyped DEF IInv, RequestStates, Pcs
  <2>2. req' = [req EXCEPT ![r] = x]
    BY <1>3 DEF Arrive
  <2>3. t \in Issued' /\ u \in Issued'
    BY TablesStep
  <2>4. HeldBy(r)' /\ LoggedOut(r)'
    BY <1>1, <2>2, <2>3 DEF HeldBy, LoggedOut
  <2>. HIDE DEF x
  <2>. QED
    BY <1>1, <2>1, <2>2, <2>4, StaysPut
<1>4. {"decoded", "refused", "ok", "failed", "checked", "found", "rotated", "half", "revoked"}
         \subseteq Pcs
      /\ {"arrived", "decoded", "checked", "found", "rotated", "half", "revoked"} = Working
      /\ Working \cap {"refused", "ok", "failed"} = {}
  BY DEF Pcs, Ended, Working
<1>5. ASSUME NEW r \in Requests, RefreshDecode(r) \/ AccessDecode(r) PROVE Goal
  <2>1. /\ req[r].pc = "arrived"
        /\ Goto(r, "refused") \/ (Goto(r, "decoded") /\ (req[r].kind = "refresh" => req[r].token.type = "refresh"))
    BY <1>5 DEF RefreshDecode, AccessDecode, DecodeAs
  <2>. QED
    BY <1>4, <2>1, Moves
<1>6. ASSUME NEW r \in Requests, CheckBlacklist(r) PROVE Goal
  <2>1. /\ req[r].pc = "decoded"
        /\ Goto(r, "refused") \/ (Goto(r, "ok") /\ req[r].kind = "auth") \/ Goto(r, "checked")
    BY <1>6 DEF CheckBlacklist
  <2>. QED
    BY <1>1, <1>4, <2>1, Moves DEF HeldBy
<1>7. ASSUME NEW r \in Requests, RefreshLookup(r) \/ AccessLookup(r) PROVE Goal
  <2>1. /\ req[r].pc = "checked"
        /\ \/ Goto(r, "refused")
           \/ Goto(r, "ok") /\ req[r].kind = "auth_user"
           \/ Goto(r, "found") /\ req[r].kind = "refresh"
    BY <1>7 DEF RefreshLookup, AccessLookup, LookupUser
  <2>. QED
    BY <1>1, <1>4, <2>1, Moves DEF HeldBy
<1>8. ASSUME NEW r \in Requests, RefreshRotate(r) \/ RefreshIssue(r) PROVE Goal
  <2>1. \/ req[r].pc = "found" /\ Goto(r, "rotated")
        \/ req[r].pc = "rotated" /\ Goto(r, "ok")
    BY <1>8 DEF RefreshRotate, RefreshIssue
  <2>. QED
    BY <1>1, <1>4, <2>1, Moves DEF HeldBy
<1>9. ASSUME NEW t \in Issued, RevokeUnlessExpired(t) PROVE Expired(t) \/ blacklist'[t] # 0
  BY <1>1, <1>9, ExpTyped, RevokeCovers DEF RevokeUnlessExpired, Revoke, IInv
<1>10. ASSUME NEW r \in Requests, LogoutRefresh(r) \/ LogoutAccess(r) PROVE Goal
  <2>1. req[r].token \in Issued /\ req[r].second \in Issued
    BY <1>1, <1>4, <1>10 DEF LogoutRefresh, LogoutAccess, HeldBy
  <2>2. \/ req[r].pc \in Working /\ Goto(r, "refused")
        \/ req[r].pc \in Working /\ Goto(r, "half") /\ RevokeUnlessExpired(req[r].token)
        \/ req[r].pc = "half" /\ Goto(r, "revoked") /\ RevokeUnlessExpired(req[r].second)
    BY <1>4, <1>10 DEF LogoutRefresh, LogoutAccess
  <2>3. CASE Goto(r, "refused")
    BY <1>4, <2>3, Moves
  <2>4. CASE req[r].pc \in Working /\ Goto(r, "half") /\ RevokeUnlessExpired(req[r].token)
    <3>1. Expired(req[r].token) \/ blacklist'[req[r].token] # 0
      BY <1>9, <2>1, <2>4
    <3>. QED
      BY <1>4, <2>4, <3>1, Moves
  <2>5. CASE req[r].pc = "half" /\ Goto(r, "revoked") /\ RevokeUnlessExpired(req[r].second)
    <3>1. Expired(req[r].second) \/ blacklist'[req[r].second] # 0
      BY <1>9, <2>1, <2>5
    <3>. QED
      BY <1>4, <2>5, <3>1, Moves
  <2>. QED
    BY <2>2, <2>3, <2>4, <2>5
<1>11. ASSUME NEW r \in Requests, LogoutAnswer(r) \/ RequestFails(r) PROVE Goal
  <2>1. \/ req[r].pc = "revoked" /\ Goto(r, "ok")
        \/ Goto(r, "failed")
    BY <1>11 DEF LogoutAnswer, RequestFails
  <2>2. CASE Goto(r, "failed")
    BY <1>4, <2>2, Moves
  <2>3. CASE req[r].pc = "revoked" /\ Goto(r, "ok")
    BY <1>4, <2>3, Moves
  <2>. QED
    BY <2>1, <2>2, <2>3
<1>. QED
  BY <1>2, <1>3, <1>5, <1>6, <1>7, <1>8, <1>10, <1>11
     DEF Next, Login, SetStatus, Tick, vars

-----------------------------------------------------------------------------
(* Overlapping refreshes *)

\* The refreshes of pair p that have passed the blacklist check and not yet issued.
Spending(p) == {r \in Requests : /\ req[r].kind = "refresh" /\ req[r].token.pair = p
                                 /\ req[r].pc \in {"checked", "found", "rotated"}}

RefreshToken(p) == [pair |-> p, type |-> "refresh"]

\* Nothing is issued for a token that is not blacklisted; until its last second, what was
\* issued and what is under way are together no more than the overlap on record.
Spent(p) ==
    /\ blacklist[RefreshToken(p)] = 0 =>
          /\ Children(p) = {}
          /\ \A r \in Spending(p) : req[r].pc # "rotated"
    /\ now < Exp(RefreshToken(p)) - TPS =>
          Cardinality(Children(p)) + Cardinality(Spending(p)) <= width[p]

SpendInv == \A p \in 1..Len(pairs) : Spent(p)

\* These sets are finite.
LEMMA Finite ==
    ASSUME TypeOK, NEW p
    PROVE  /\ IsFiniteSet(Children(p)) /\ Cardinality(Children(p)) \in Nat
           /\ IsFiniteSet(Spending(p)) /\ Cardinality(Spending(p)) \in Nat
           /\ IsFiniteSet(InWindow(p)) /\ Cardinality(InWindow(p)) \in Nat
<1>1. IsFiniteSet(1..Len(pairs))
  BY FS_Interval DEF TypeOK
<1>2. Children(p) \subseteq 1..Len(pairs) /\ Spending(p) \subseteq Requests
      /\ InWindow(p) \subseteq Requests
  BY DEF Children, Spending, InWindow
<1>3. IsFiniteSet(Children(p)) /\ IsFiniteSet(Spending(p)) /\ IsFiniteSet(InWindow(p))
  BY <1>1, <1>2, SessionConstants, FS_Subset
<1>. QED
  BY <1>3, FS_CardinalityType

\* The refresh token of an issued pair is an issued token.
LEMMA PairToken ==
    ASSUME TypeOK, NEW p \in 1..Len(pairs)
    PROVE  RefreshToken(p) \in Issued /\ RefreshToken(p) \in Tokens /\ p \in 1..MaxPairs
  BY SessionConstants DEF TypeOK, RefreshToken, Issued, Tokens

\* A step that issues nothing for pair p and lets no refresh of it pass the check keeps
\* Spent(p).
LEMMA SpentKept ==
    ASSUME IInv, [Next]_vars, NEW p \in 1..Len(pairs), Spent(p), TypeOK',
           Children(p)' = Children(p), width' = width, Spending(p)' \subseteq Spending(p),
           \A r \in Spending(p)' : req'[r].pc = "rotated" =>
               req[r].pc = "rotated" \/ blacklist'[RefreshToken(p)] # 0
    PROVE  Spent(p)'
<1>. DEFINE t == RefreshToken(p)
<1>1. t \in Issued /\ t \in Tokens
  BY PairToken DEF IInv
<1>2. Exp(t) \in Int /\ Exp(t)' = Exp(t) /\ (blacklist[t] # 0 => blacklist'[t] # 0)
  BY <1>1, TablesStep, ExpTyped DEF IInv
<1>3. now' >= now /\ now \in Nat /\ now' \in Nat /\ TPS \in Nat
  BY Effects, SessionConstants DEF IInv, TypeOK
<1>4. Cardinality(Spending(p)') <= Cardinality(Spending(p))
      /\ Cardinality(Spending(p)) \in Nat /\ Cardinality(Children(p)) \in Nat
      /\ Cardinality(Spending(p)') \in Nat
  <2>1. IsFiniteSet(Spending(p)) /\ Cardinality(Children(p)) \in Nat
    BY Finite DEF IInv
  <2>. QED
    BY <2>1, FS_Subset, FS_CardinalityType
<1>5. width[p] \in Nat
  BY PairToken DEF IInv, TypeOK
<1>6. t' = t
  BY DEF RefreshToken
<1>7. blacklist'[t] = 0 => Children(p)' = {} /\ \A r \in Spending(p)' : req'[r].pc # "rotated"
  BY <1>2 DEF Spent
<1>8. now' < Exp(t)' - TPS => Cardinality(Children(p)') + Cardinality(Spending(p)') <= width'[p]
  BY <1>2, <1>3, <1>4, <1>5 DEF Spent
<1>. QED
  BY <1>7, <1>8 DEF Spent, RefreshToken

\* A request that does not move, or ends up outside the refreshes under way, adds nothing
\* to them.
LEMMA SpendingShrinks ==
    ASSUME NEW r \in Requests, NEW p, \A x \in Requests \ {r} : req'[x] = req[x],
           req'[r].pc \notin {"checked", "found", "rotated"}
    PROVE  /\ Spending(p)' \subseteq Spending(p)
           /\ \A x \in Spending(p)' : req'[x].pc = "rotated" => req[x].pc = "rotated"
  BY DEF Spending

\* Nothing is issued for a pair without NewPair.
LEMMA ChildrenKept ==
    ASSUME pairs' = pairs, NEW p
    PROVE  Children(p)' = Children(p)
  BY DEF Children

\* A pair is a child of its parent.
LEMMA ChildrenGrow ==
    ASSUME TypeOK, NEW q, NewPair(q), NEW p
    PROVE  /\ Children(p)' = IF p = q THEN Children(p) \cup {Len(pairs) + 1} ELSE Children(p)
           /\ Len(pairs) + 1 \notin Children(p) /\ Len(pairs') = Len(pairs) + 1
<1>1. pairs \in Seq(PairRecords) /\ Len(pairs) \in Nat
  BY DEF TypeOK
<1>2. /\ Len(pairs') = Len(pairs) + 1
      /\ \A x \in 1..Len(pairs) : pairs'[x] = pairs[x]
      /\ pairs'[Len(pairs) + 1].parent = q
  BY <1>1 DEF NewPair
<1>. QED
  BY <1>1, <1>2 DEF Children

\* A refresh that passes the check is counted before anything is issued for its token.
LEMMA CheckSpent ==
    ASSUME IInv, [Next]_vars, TypeOK', NEW r \in Requests, CheckBlacklist(r),
           NEW p \in 1..Len(pairs), Spent(p)
    PROVE  Spent(p)'
<1>. DEFINE t == RefreshToken(p)
            n == Cardinality(InWindow(req[r].token.pair)) + 1
            enters == req[r].kind = "refresh" /\ ~Blacklisted(req[r].token)
<1>1. /\ req[r].pc = "decoded" /\ UNCHANGED <<now, pairs, blacklist>>
      /\ Goto(r, IF Blacklisted(req[r].token) THEN "refused"
                 ELSE IF req[r].kind = "auth" THEN "ok" ELSE "checked")
      /\ width' = IF enters /\ n > width[req[r].token.pair]
                  THEN [width EXCEPT ![req[r].token.pair] = n] ELSE width
  BY DEF CheckBlacklist
<1>2. HeldBy(r) /\ req[r].pc \in Working
  BY <1>1 DEF IInv, HeldInv, Working, Pcs, Ended
<1>3. req[r].token \in Issued /\ req[r].token.pair \in 1..Len(pairs)
      /\ (req[r].kind = "refresh" => req[r].token = RefreshToken(req[r].token.pair))
  BY <1>1, <1>2 DEF HeldBy, Issued, RefreshToken
<1>4. \A x \in Requests \ {r} : req'[x] = req[x]
  BY <1>1, GotoRecord DEF IInv, Pcs, Ended
<1>5. Children(p)' = Children(p)
  BY <1>1, ChildrenKept
<1>6. width \in [1..MaxPairs -> Nat] /\ p \in 1..MaxPairs /\ req[r].token.pair \in 1..MaxPairs
  BY <1>3, PairToken DEF IInv, TypeOK
<1>7. CASE ~enters
  <2>1. req'[r].pc \notin {"checked", "found", "rotated"} \/ req'[r].kind # "refresh"
    <3>1. CASE Blacklisted(req[r].token)
      BY <1>1, <3>1, GotoRecord DEF IInv, Pcs, Ended
    <3>2. CASE ~Blacklisted(req[r].token)
      <4>1. Goto(r, "ok") \/ Goto(r, "checked")
        BY <1>1, <3>2
      <4>2. req[r].kind # "refresh"
        BY <1>7, <3>2
      <4>. QED
        BY <4>1, <4>2, GotoRecord DEF IInv, Pcs, Ended
    <3>. QED
      BY <3>1, <3>2
  <2>2. Spending(p)' \subseteq Spending(p)
        /\ \A x \in Spending(p)' : req'[x].pc = "rotated" => req[x].pc = "rotated"
    BY <1>4, <2>1 DEF Spending
  <2>. QED
    BY <1>1, <1>5, <1>7, <2>2, SpentKept
<1>8. CASE enters /\ p # req[r].token.pair
  <2>1. Goto(r, "checked")
    BY <1>1, <1>8
  <2>2. req'[r].token = req[r].token
    BY <2>1, GotoRecord DEF IInv, Pcs, Ended
  <2>3. Spending(p)' = Spending(p)
        /\ \A x \in Spending(p)' : req'[x].pc = "rotated" => req[x].pc = "rotated"
    BY <1>4, <1>8, <2>2 DEF Spending
  <2>4. width'[p] = width[p] /\ Exp(t)' = Exp(t)
    BY <1>1, <1>6, <1>8 DEF Exp
  <2>. QED
    BY <1>1, <1>5, <2>3, <2>4 DEF Spent, RefreshToken
<1>9. CASE enters /\ p = req[r].token.pair
  <2>1. Goto(r, "checked") /\ req[r].token = t
    BY <1>1, <1>3, <1>9
  <2>2. req'[r].token = req[r].token /\ req'[r].kind = "refresh" /\ req'[r].pc = "checked"
    BY <1>9, <2>1, GotoRecord DEF IInv, Pcs, Ended
  <2>3. Spending(p)' = Spending(p) \cup {r} /\ r \notin Spending(p)
    BY <1>1, <1>4, <1>9, <2>2 DEF Spending
  <2>4. Exp(t)' = Exp(t) /\ now' = now /\ blacklist' = blacklist
    BY <1>1 DEF Exp
  <2>5. CASE blacklist[t] = 0
    <3>1. Children(p) = {} /\ \A x \in Spending(p) : req[x].pc # "rotated"
      BY <2>5 DEF Spent
    <3>2. InWindow(p) = Spending(p)
      BY <3>1 DEF InWindow, Spending
    <3>3. \A x \in Spending(p)' : req'[x].pc # "rotated"
      <4>1. Spending(p) \subseteq Requests
        BY DEF Spending
      <4>. QED
        BY <1>4, <2>2, <2>3, <3>1, <4>1
    <3>4. Cardinality(Spending(p)') = n /\ n \in Nat /\ Cardinality(Children(p)') = 0
      <4>1. IsFiniteSet(Spending(p)) /\ Cardinality(Spending(p)) \in Nat
        BY Finite DEF IInv
      <4>2. Cardinality(Spending(p) \cup {r}) = Cardinality(Spending(p)) + 1
        BY <2>3, <4>1, FS_AddElement
      <4>3. Cardinality(Children(p)') = 0
        BY <1>5, <3>1, FS_EmptySet
      <4>. QED
        BY <1>9, <2>3, <3>2, <4>1, <4>2, <4>3
    <3>5. width'[p] >= n
      BY <1>1, <1>6, <1>9, <3>4
    <3>6. width'[p] \in Nat
      BY <1>6 DEF TypeOK
    <3>. QED
      BY <1>5, <2>4, <3>1, <3>3, <3>4, <3>5, <3>6 DEF Spent, RefreshToken
  <2>6. CASE blacklist[t] # 0
    <3>1. t \in Tokens /\ Exp(t) \in Int
      BY PairToken, ExpTyped DEF IInv
    <3>2. blacklist[t] > Exp(t) - TPS
      BY <2>6, <3>1 DEF IInv, EntryInv
    <3>3. ~(now < blacklist[t])
      BY <1>9, <2>1 DEF Blacklisted
    <3>4. ~(now < Exp(t) - TPS)
      BY <3>1, <3>2, <3>3, SessionConstants DEF IInv, TypeOK
    <3>. QED
      BY <2>4, <2>6, <3>4 DEF Spent, RefreshToken
  <2>. QED
    BY <2>5, <2>6
<1>. QED
  BY <1>7, <1>8, <1>9

\* What is issued was under way.
LEMMA IssueSpent ==
    ASSUME IInv, [Next]_vars, TypeOK', NEW r \in Requests, RefreshIssue(r),
           NEW p \in 1..Len(pairs), Spent(p)
    PROVE  Spent(p)'
<1>. DEFINE q == req[r].token.pair
<1>1. /\ req[r].pc = "rotated" /\ NewPair(q) /\ Goto(r, "ok")
      /\ UNCHANGED <<now, blacklist, width>>
  BY DEF RefreshIssue
<1>2. req[r].kind = "refresh"
  BY <1>1 DEF IInv, HeldInv, HeldBy
<1>3. /\ \A x \in Requests \ {r} : req'[x] = req[x]
      /\ req'[r].pc = "ok"
  BY <1>1, GotoRecord DEF IInv, Pcs, Ended
<1>4. Spending(p)' \subseteq Spending(p)
      /\ \A x \in Spending(p)' : req'[x].pc = "rotated" => req[x].pc = "rotated"
  BY <1>3, SpendingShrinks
<1>5. CASE p # q
  <2>1. Children(p)' = Children(p)
    BY <1>1, <1>5, ChildrenGrow DEF IInv
  <2>. QED
    BY <1>1, <1>4, <2>1, SpentKept
<1>6. CASE p = q
  <2>1. r \in Spending(p) /\ Spending(p)' = Spending(p) \ {r}
    BY <1>1, <1>2, <1>3, <1>6 DEF Spending
  <2>2. blacklist'[RefreshToken(p)] # 0
    BY <1>1, <2>1 DEF Spent
  <2>3. Children(p)' = Children(p) \cup {Len(pairs) + 1} /\ Len(pairs) + 1 \notin Children(p)
    BY <1>1, <1>6, ChildrenGrow DEF IInv
  <2>4. Cardinality(Children(p)') = Cardinality(Children(p)) + 1 /\ Cardinality(Children(p)) \in Nat
    BY <2>3, Finite, FS_AddElement DEF IInv
  <2>5. Cardinality(Spending(p)') = Cardinality(Spending(p)) - 1 /\ Cardinality(Spending(p)) \in Nat
    BY <2>1, Finite, FS_RemoveElement DEF IInv
  <2>6. Exp(RefreshToken(p))' = Exp(RefreshToken(p))
    BY PairToken, TablesStep DEF IInv
  <2>. QED
    BY <1>1, <2>2, <2>4, <2>5, <2>6 DEF Spent, RefreshToken
<1>. QED
  BY <1>5, <1>6

\* Every step keeps Spent of the pairs that exist.
LEMMA SpentStep ==
    ASSUME IInv, [Next]_vars, TypeOK', NEW p \in 1..Len(pairs), Spent(p)
    PROVE  Spent(p)'
<1>. DEFINE moved(r) == /\ Spending(p)' \subseteq Spending(p)
                        /\ \A x \in Spending(p)' : req'[x].pc = "rotated" =>
                              req[x].pc = "rotated" \/ blacklist'[RefreshToken(p)] # 0
<1>1. ASSUME NEW r \in Requests, NEW pc \in Pcs, Goto(r, pc), UNCHANGED <<pairs, width>>,
             pc \notin {"checked", "found", "rotated"}
      PROVE  Spent(p)'
  <2>1. (\A x \in Requests \ {r} : req'[x] = req[x]) /\ req'[r].pc = pc
    BY <1>1, GotoRecord DEF IInv
  <2>. QED
    BY <1>1, <2>1, SpendingShrinks, ChildrenKept, SpentKept
<1>2. CASE Login
  <2>1. NewPair(0) /\ UNCHANGED <<req, width>> /\ p # 0
    BY <1>2 DEF Login
  <2>2. Children(p)' = Children(p)
    BY <2>1, ChildrenGrow DEF IInv
  <2>. QED
    BY <2>1, <2>2, SpentKept DEF Spending
<1>3. ASSUME NEW r \in Requests, NEW k \in Kinds, NEW t \in Issued, NEW u \in Issued,
             Arrive(r, k, t, u)
      PROVE  Spent(p)'
  <2>1. /\ \A x \in Requests \ {r} : req'[x] = req[x]
        /\ req'[r].pc = "arrived" /\ UNCHANGED <<pairs, width>>
    BY <1>3 DEF Arrive, IInv, TypeOK
  <2>. QED
    BY <2>1, SpendingShrinks, ChildrenKept, SpentKept
<1>4. ASSUME NEW r \in Requests,
             \/ RefreshDecode(r) \/ AccessDecode(r) \/ AccessLookup(r) \/ LogoutRefresh(r)
             \/ LogoutAccess(r) \/ LogoutAnswer(r) \/ RequestFails(r)
      PROVE  Spent(p)'
  <2>1. /\ UNCHANGED <<pairs, width>>
        /\ \E pc \in {"refused", "decoded", "ok", "half", "revoked", "failed"} : Goto(r, pc)
    BY <1>4 DEF RefreshDecode, AccessDecode, DecodeAs, AccessLookup, LookupUser, LogoutRefresh,
       LogoutAccess, LogoutAnswer, RequestFails
  <2>. QED
    BY <1>1, <2>1 DEF Pcs, Ended
<1>5. ASSUME NEW r \in Requests, RefreshLookup(r) PROVE Spent(p)'
  <2>1. /\ UNCHANGED <<pairs, width>> /\ req[r].pc = "checked"
        /\ Goto(r, "found") \/ Goto(r, "refused")
    BY <1>5 DEF RefreshLookup, LookupUser
  <2>2. CASE Goto(r, "found")
    <3>1. /\ \A x \in Requests \ {r} : req'[x] = req[x]
          /\ req'[r].kind = req[r].kind /\ req'[r].token = req[r].token /\ req'[r].pc = "found"
      BY <2>2, GotoRecord DEF IInv, Pcs, Ended
    <3>2. Spending(p)' \subseteq Spending(p)
          /\ \A x \in Spending(p)' : req'[x].pc = "rotated" => req[x].pc = "rotated"
      BY <2>1, <3>1 DEF Spending
    <3>. QED
      BY <2>1, <3>2, ChildrenKept, SpentKept
  <2>. QED
    BY <1>1, <2>1, <2>2 DEF Pcs, Ended
<1>6. ASSUME NEW r \in Requests, RefreshRotate(r) PROVE Spent(p)'
  <2>1. /\ UNCHANGED <<pairs, width>> /\ req[r].pc = "found"
        /\ Goto(r, "rotated") /\ Revoke(req[r].token)
    BY <1>6 DEF RefreshRotate
  <2>2. /\ \A x \in Requests \ {r} : req'[x] = req[x]
        /\ req'[r].kind = req[r].kind /\ req'[r].token = req[r].token /\ req'[r].pc = "rotated"
    BY <2>1, GotoRecord DEF IInv, Pcs, Ended
  <2>3. req[r].token \in Issued /\ req[r].token.type = "refresh"
    BY <2>1 DEF IInv, HeldInv, HeldBy, Working, Pcs, Ended
  <2>4. req[r].token.pair = p => req[r].token = RefreshToken(p)
    BY <2>3 DEF Issued, RefreshToken
  <2>5. blacklist'[req[r].token] # 0
    BY <2>1, <2>3, RevokeCovers, ExpTyped DEF Revoke, IInv, TypeOK
  <2>6. Spending(p)' \subseteq Spending(p)
        /\ \A x \in Spending(p)' : req'[x].pc = "rotated" =>
              req[x].pc = "rotated" \/ blacklist'[RefreshToken(p)] # 0
    BY <2>1, <2>2, <2>4, <2>5 DEF Spending
  <2>. QED
    BY <2>1, <2>6, ChildrenKept, SpentKept
<1>7. ASSUME UNCHANGED <<pairs, req, width>> PROVE Spent(p)'
  BY <1>7, ChildrenKept, SpentKept DEF Spending
<1>. QED
  BY <1>2, <1>3, <1>4, <1>5, <1>6, <1>7, CheckSpent, IssueSpent DEF Next, Tick, SetStatus, vars

\* A pair that has just been issued has no children, and no refresh of it is under way.
LEMMA NewPairSpent ==
    ASSUME IInv, [Next]_vars, TypeOK', NEW p \in 1..Len(pairs'), p \notin 1..Len(pairs)
    PROVE  Spent(p)'
<1>1. pairs \in Seq(PairRecords) /\ Len(pairs) \in Nat
  BY DEF IInv, TypeOK
<1>2. CASE Login \/ \E r \in Requests : RefreshIssue(r)
  <2>1. PICK q : NewPair(q) /\ q \in 0..Len(pairs) /\ width' = width
    <3>1. ASSUME NEW r \in Requests, RefreshIssue(r) PROVE req[r].token.pair \in 0..Len(pairs)
      BY <1>1, <3>1 DEF RefreshIssue, IInv, HeldInv, HeldBy, Working, Pcs, Ended, Issued
    <3>. QED
      BY <1>1, <1>2, <3>1 DEF Login, RefreshIssue
  <2>2. p = Len(pairs) + 1
    BY <1>1, <2>1, ChildrenGrow DEF IInv
  <2>3. Children(p) = {} /\ Children(p)' = {}
    <3>1. Children(p) = {}
      BY <1>1, <2>2 DEF Children, IInv, ParentInv
    <3>. QED
      BY <1>1, <2>1, <2>2, <3>1, ChildrenGrow DEF IInv
  <2>4. \A x \in Requests : (req[x].pc \in {"checked", "found", "rotated"} /\ req[x].kind = "refresh")
             => req[x].token.pair # p
    BY <1>1, <2>2 DEF IInv, HeldInv, HeldBy, Working, Pcs, Ended, Issued
  <2>5. \A x \in Requests : req'[x] = req[x] \/ req'[x].pc = "ok"
    <3>1. ASSUME NEW r \in Requests, RefreshIssue(r)
          PROVE  \A x \in Requests : req'[x] = req[x] \/ req'[x].pc = "ok"
      BY <3>1, GotoRecord DEF RefreshIssue, IInv, Pcs, Ended
    <3>. QED
      BY <1>2, <3>1 DEF Login
  <2>6. Spending(p)' = {}
    BY <2>4, <2>5 DEF Spending
  <2>7. width'[p] \in Nat
    <3>1. p \in 1..MaxPairs
      BY SessionConstants DEF TypeOK
    <3>. QED
      BY <3>1 DEF TypeOK
  <2>8. Cardinality(Children(p)') = 0 /\ Cardinality(Spending(p)') = 0
    BY <2>3, <2>6, FS_EmptySet
  <2>. QED
    BY <2>3, <2>6, <2>7, <2>8 DEF Spent
<1>3. CASE ~(Login \/ \E r \in Requests : RefreshIssue(r))
  <2>1. pairs' = pairs
    BY <1>3 DEF Next, Arrive, RefreshDecode, AccessDecode, DecodeAs, CheckBlacklist,
       RefreshLookup, AccessLookup, LookupUser, RefreshRotate, LogoutRefresh, LogoutAccess,
       LogoutAnswer, RequestFails, SetStatus, Tick, vars
  <2>. QED
    BY <2>1
<1>. QED
  BY <1>2, <1>3

-----------------------------------------------------------------------------
(* The theorems *)

\* Only the blacklist check takes a request on from "decoded".
LEMMA PassedTheCheck ==
    ASSUME IInv, [Next]_vars, NEW r \in Requests,
           req[r].pc = "decoded", req'[r].pc \in {"checked", "ok"}
    PROVE  ~Blacklisted(req[r].token)
<1>1. ASSUME NEW x \in Requests, x # r,
             req' # req => \E pc \in Pcs : Goto(x, pc)
      PROVE  FALSE
  BY <1>1, GotoRecord DEF IInv
<1>2. ASSUME NEW x \in Requests, NEW k \in Kinds, NEW t \in Issued, NEW u \in Issued,
             Arrive(x, k, t, u)
      PROVE  FALSE
  <2>1. req[x].pc = "idle" /\ x # r
    BY <1>2 DEF Arrive
  <2>. QED
    BY <1>2, <2>1 DEF Arrive, IInv, TypeOK
<1>3. ASSUME NEW x \in Requests,
             \/ RefreshDecode(x) \/ AccessDecode(x) \/ RefreshLookup(x) \/ AccessLookup(x)
             \/ RefreshRotate(x) \/ RefreshIssue(x)
             \/ LogoutRefresh(x) \/ LogoutAccess(x) \/ LogoutAnswer(x)
      PROVE  FALSE
  <2>1. /\ req[x].pc # "decoded"
        /\ \E pc \in {"refused", "decoded", "found", "ok", "rotated", "half", "revoked"} : Goto(x, pc)
    BY <1>3 DEF RefreshDecode, AccessDecode, DecodeAs, RefreshLookup, AccessLookup, LookupUser,
       RefreshRotate, RefreshIssue, LogoutRefresh, LogoutAccess, LogoutAnswer
  <2>2. x # r /\ \E pc \in Pcs : Goto(x, pc)
    BY <2>1 DEF Pcs, Ended
  <2>. QED
    BY <1>1, <2>2
<1>4. ASSUME NEW x \in Requests, RequestFails(x) PROVE FALSE
  <2>1. Goto(x, "failed") /\ "failed" \in Pcs
    BY <1>4 DEF RequestFails, Pcs, Ended
  <2>2. x # r
    BY <2>1, GotoRecord DEF IInv
  <2>. QED
    BY <1>1, <2>1, <2>2
<1>5. ASSUME UNCHANGED req PROVE FALSE
  BY <1>5
<1>6. PICK x \in Requests : CheckBlacklist(x)
  BY <1>2, <1>3, <1>4, <1>5 DEF Next, Login, SetStatus, Tick, vars
<1>7. \E pc \in {"refused", "ok", "checked"} :
          Goto(x, pc) /\ (Blacklisted(req[x].token) => pc = "refused")
  BY <1>6 DEF CheckBlacklist
<1>8. x = r
  BY <1>1, <1>7 DEF Pcs, Ended
<1>. QED
  BY <1>7, <1>8, GotoRecord DEF IInv, Pcs, Ended

\* The initial state has no pairs, no entries and no requests at work.
LEMMA InitIInv ==
    ASSUME Init
    PROVE  IInv /\ SpendInv
<1>1. Len(pairs) = 0 /\ pairs \in Seq(PairRecords)
  BY DEF Init
<1>2. Fresh \in RequestStates
  BY DEF Fresh, RequestStates, Kinds, Pcs
<1>3. TypeOK
  BY <1>1, <1>2, SessionConstants DEF Init, TypeOK
<1>4. ParentInv /\ SpendInv
  BY <1>1 DEF ParentInv, SpendInv
<1>5. HeldInv /\ LogoutInv
  BY DEF Init, HeldInv, HeldBy, LogoutInv, LoggedOut, Fresh, Working
<1>6. EntryInv
  BY DEF Init, EntryInv
<1>. QED
  BY <1>3, <1>4, <1>5, <1>6 DEF IInv

\* The inductive invariant holds in every reachable state.
THEOREM Invariance == Spec => [](IInv /\ SpendInv)
<1>1. Init => IInv /\ SpendInv
  BY InitIInv
<1>2. IInv /\ SpendInv /\ [Next]_vars => (IInv /\ SpendInv)'
  <2>. SUFFICES ASSUME IInv, SpendInv, [Next]_vars PROVE IInv' /\ SpendInv'
    OBVIOUS
  <2>1. TypeOK'
    <3>1. width' \in [1..MaxPairs -> Nat]
      <4>1. width \in [1..MaxPairs -> Nat]
        BY DEF IInv, TypeOK
      <4>2. ASSUME NEW r \in Requests, CheckBlacklist(r) PROVE width' \in [1..MaxPairs -> Nat]
        <5>1. Cardinality(InWindow(req[r].token.pair)) + 1 \in Nat
          BY Finite DEF IInv
        <5>. QED
          BY <4>1, <4>2, <5>1 DEF CheckBlacklist
      <4>. QED
        BY <4>1, <4>2 DEF Next, Login, Arrive, RefreshDecode, AccessDecode, DecodeAs,
           RefreshLookup, AccessLookup, LookupUser, RefreshRotate, RefreshIssue, LogoutRefresh,
           LogoutAccess, LogoutAnswer, RequestFails, SetStatus, Tick, vars
    <3>. QED
      BY <3>1, Effects, TablesStep, RequestsStep DEF TypeOK
  <2>2. IInv'
    BY <2>1, TablesStep, RequestsStep DEF IInv
  <2>3. SpendInv'
    BY <2>1, SpentStep, NewPairSpent DEF SpendInv
  <2>. QED
    BY <2>2, <2>3
<1>. QED
  BY <1>1, <1>2, PTL DEF Spec

\* The clock, pairs, entries and requests keep their types.
THEOREM TypeCorrect == Spec => []TypeOK
<1>1. IInv => TypeOK
  BY DEF IInv
<1>. QED
  BY <1>1, Invariance, PTL

\* An answered logout has revoked both tokens or found them expired, for any number of
\* other requests that write the same entries.
THEOREM LogoutRevokes == Spec => []LogoutRevokesBoth
<1>1. IInv => LogoutRevokesBoth
  BY DEF IInv, LogoutInv, LoggedOut, LogoutRevokesBoth
<1>. QED
  BY <1>1, Invariance, PTL

\* No request gets past the blacklist check with a revoked token before the last second of
\* its life, for any lifetimes and any resolution of the clock.
THEOREM RevokedRefused == Spec => RevokedIsRefused
<1>1. IInv /\ [Next]_vars =>
        [\A r \in Requests :
          (req[r].pc = "decoded" /\ req'[r].pc \in {"checked", "ok"}
             /\ blacklist[req[r].token] # 0)
          => Exp(req[r].token) - now < TPS]_vars
  <2>. SUFFICES ASSUME IInv, [Next]_vars, NEW r \in Requests, req[r].pc = "decoded",
                       req'[r].pc \in {"checked", "ok"}, blacklist[req[r].token] # 0
                PROVE  Exp(req[r].token) - now < TPS
    OBVIOUS
  <2>. DEFINE t == req[r].token
  <2>1. t \in Issued
    BY DEF IInv, HeldInv, HeldBy, Working, Pcs, Ended
  <2>2. t \in Tokens /\ Exp(t) \in Int /\ blacklist[t] \in Nat /\ now \in Nat /\ TPS \in Nat
    BY <2>1, ExpTyped, SessionConstants DEF IInv, TypeOK
  <2>3. blacklist[t] > Exp(t) - TPS
    BY <2>2 DEF IInv, EntryInv
  <2>4. ~(now < blacklist[t])
    BY PassedTheCheck DEF Blacklisted
  <2>. QED
    BY <2>2, <2>3, <2>4
<1>. QED
  BY <1>1, Invariance, PTL DEF Spec, RevokedIsRefused

\* Until its last second, a refresh token yields no more pairs than refreshes of it were at
\* one moment between the check and the rotation: whoever sends one at a time gets one.
THEOREM NoDoubleSpend == Spec => []DoubleSpendNeedsOverlap
<1>1. IInv /\ SpendInv => DoubleSpendNeedsOverlap
  <2>. SUFFICES ASSUME IInv, SpendInv, NEW p \in 1..Len(pairs),
                       now < Exp([pair |-> p, type |-> "refresh"]) - TPS
                PROVE  Cardinality(Children(p)) <= width[p]
    BY DEF DoubleSpendNeedsOverlap
  <2>1. Cardinality(Children(p)) + Cardinality(Spending(p)) <= width[p]
    BY DEF SpendInv, Spent, RefreshToken
  <2>2. Cardinality(Children(p)) \in Nat /\ Cardinality(Spending(p)) \in Nat /\ width[p] \in Nat
    BY Finite, PairToken DEF IInv, TypeOK
  <2>. QED
    BY <2>1, <2>2
<1>. QED
  BY <1>1, Invariance, PTL

=============================================================================
