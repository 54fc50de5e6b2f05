--------------------------- MODULE TokenSessions ---------------------------
(***************************************************************************)
(* The JWT sessions of one user: login issues a pair of tokens, refresh    *)
(* exchanges a refresh token for a new pair and blacklists the old one,    *)
(* logout blacklists a refresh and an access token, and the two            *)
(* authentication dependencies accept an access token.                     *)
(*                                                                         *)
(* Time is counted in ticks, TPS of them to the second, because the code   *)
(* rounds: a token's exp claim is a whole second and the TTL of a          *)
(* blacklist entry is truncated to one.  Every await that reaches Redis,   *)
(* the database or the bus ends a step.                                    *)
(***************************************************************************)
EXTENDS Integers, Sequences, FiniteSets

CONSTANTS
    Requests,    \* the HTTP requests of the behaviour
    AccessTTL,   \* ACCESS_TOKEN_EXPIRE_MINUTES, in seconds
    RefreshTTL,  \* REFRESH_TOKEN_EXPIRE_DAYS, in seconds
    TPS,         \* ticks per second
    MaxPairs,    \* bound: token pairs issued
    MaxLogins,   \* bound: pairs issued by a login
    MaxTime      \* bound: ticks

ASSUME SessionConstants ==
    /\ AccessTTL \in Nat \ {0} /\ RefreshTTL \in Nat \ {0}
    /\ TPS \in Nat \ {0} /\ MaxPairs \in Nat /\ MaxLogins \in Nat /\ MaxTime \in Nat
    /\ IsFiniteSet(Requests)

VARIABLES
    now,        \* the clock, in ticks
    pairs,      \* pairs[p] = [at |-> tick of issue, parent |-> pair refreshed, 0 for a login]
    blacklist,  \* token:blacklist:{jti}: tick the entry ends, 0 if never written
    status,     \* the user row: "active" or "blocked" (suspended, inactive, deleted)
    req,        \* the requests
    width       \* history: most refreshes of pair p that were between check and rotation at once

vars == <<now, pairs, blacklist, status, req, width>>

Tokens == [pair : 1..MaxPairs, type : {"access", "refresh"}]
Kinds == {"refresh", "logout", "auth", "auth_user"}
Ended == {"ok", "refused", "failed"}
NoToken == [pair |-> 0, type |-> "access"]
Fresh == [kind |-> "auth", pc |-> "idle", token |-> NoToken, second |-> NoToken]

\* Tokens a client can present: those of a pair that was returned to it.
Issued == [pair : 1..Len(pairs), type : {"access", "refresh"}]

\* create_access_token and create_refresh_token: exp is encoded as a whole second.
Exp(t) == (pairs[t.pair].at \div TPS) * TPS
            + TPS * (IF t.type = "access" THEN AccessTTL ELSE RefreshTTL)

\* decode raises ExpiredSignatureError from the second exp on.
Expired(t) == now >= Exp(t)

\* Mutant: every entry gets the life of an access token.
RemainingTTLOfAccess(t) == AccessTTL

\* max(int(exp - now), 1) seconds, the TTL both use cases give the entry.
RemainingTTL(t) == LET s == (Exp(t) - now) \div TPS IN IF s > 1 THEN s ELSE 1

\* cache.set: SETEX gives the key a new expiry, whatever it had.
Revoke(t) == blacklist' = [blacklist EXCEPT ![t] = now + TPS * RemainingTTL(t)]

\* cache.exists: Redis drops a key when its TTL is over.
Blacklisted(t) == now < blacklist[t]

NewPair(parent) == pairs' = Append(pairs, [at |-> now, parent |-> parent])

\* The next point of request r; the arguments of a request that ends are forgotten,
\* except those of an answered logout.
Goto(r, pc) == req' = [req EXCEPT ![r] =
    IF pc \in Ended /\ (pc # "ok" \/ @.kind # "logout") THEN [Fresh EXCEPT !.pc = pc]
    ELSE [@ EXCEPT !.pc = pc]]

\* The pairs issued for the refresh token of pair p, or by a login if p = 0.
Children(p) == {q \in 1..Len(pairs) : pairs[q].parent = p}

\* The refreshes of pair p that have passed the blacklist check and not yet rotated.
InWindow(p) == {r \in Requests : /\ req[r].kind = "refresh"
                                 /\ req[r].token.pair = p
                                 /\ req[r].pc \in {"checked", "found"}}

Init ==
    /\ now = 0
    /\ pairs = << >>
    /\ blacklist = [t \in Tokens |-> 0]
    /\ status = "active"
    /\ req = [r \in Requests |-> Fresh]
    /\ width = [p \in 1..MaxPairs |-> 0]

------------------------------------------------------------------------------
\* POST /auth/login with the right password.  The status it sees may be the one of a
\* cached row (module UserAccounts), so it is not compared with the table here.
Login ==
    /\ Len(pairs) < MaxPairs /\ Cardinality(Children(0)) < MaxLogins
    /\ NewPair(0)
    /\ UNCHANGED <<now, blacklist, status, req, width>>

\* A request arrives with tokens the client holds, possibly the wrong ones.
Arrive(r, k, t, u) ==
    /\ req[r].pc = "idle"
    /\ k # "logout" => u = t
    /\ req' = [req EXCEPT ![r] = [kind |-> k, pc |-> "arrived", token |-> t, second |-> u]]
    /\ UNCHANGED <<now, pairs, blacklist, status, width>>

\* jwt.decode and the test of the type claim.
DecodeAs(r, type) ==
    /\ req[r].pc = "arrived"
    /\ LET t == req[r].token IN
       Goto(r, IF Expired(t) \/ t.type # type THEN "refused" ELSE "decoded")
    /\ UNCHANGED <<now, pairs, blacklist, status, width>>

RefreshDecode(r) == req[r].kind = "refresh" /\ DecodeAs(r, "refresh")
AccessDecode(r) == req[r].kind \in {"auth", "auth_user"} /\ DecodeAs(r, "access")

\* cache.exists(token:blacklist:{jti}).  require_authenticated ends here.
CheckBlacklist(r) ==
    /\ req[r].pc = "decoded"
    /\ Goto(r, IF Blacklisted(req[r].token) THEN "refused"
               ELSE IF req[r].kind = "auth" THEN "ok" ELSE "checked")
    /\ LET p == req[r].token.pair
           n == Cardinality(InWindow(p)) + 1 IN
       width' = IF /\ req[r].kind = "refresh"
                   /\ ~Blacklisted(req[r].token)
                   /\ n > width[p]
                THEN [width EXCEPT ![p] = n] ELSE width
    /\ UNCHANGED <<now, pairs, blacklist, status>>

\* get_by_uuid and the tests of the status.
LookupUser(r, next) ==
    /\ req[r].pc = "checked"
    /\ Goto(r, IF status = "active" THEN next ELSE "refused")
    /\ UNCHANGED <<now, pairs, blacklist, status, width>>

RefreshLookup(r) == req[r].kind = "refresh" /\ LookupUser(r, "found")
AccessLookup(r) == req[r].kind = "auth_user" /\ LookupUser(r, "ok")

\* Mutant: the use case issues the pair without blacklisting the old token.
RefreshRotateKeeps(r) ==
    /\ req[r].pc = "found"
    /\ Goto(r, "rotated")
    /\ UNCHANGED <<now, pairs, blacklist, status, width>>

\* The old refresh token is blacklisted for what is left of its life.
RefreshRotate(r) ==
    /\ req[r].pc = "found"
    /\ Revoke(req[r].token)
    /\ Goto(r, "rotated")
    /\ UNCHANGED <<now, pairs, status, width>>

\* create_token_pair, publish and the answer; when publish raises, the pair is lost
\* with the request (RequestFails).
RefreshIssue(r) ==
    /\ req[r].pc = "rotated"
    /\ Len(pairs) < MaxPairs
    /\ NewPair(req[r].token.pair)
    /\ Goto(r, "ok")
    /\ UNCHANGED <<now, blacklist, status, width>>

\* The half of a logout that revokes token t: an expired token is skipped.
RevokeUnlessExpired(t) == IF Expired(t) THEN UNCHANGED blacklist ELSE Revoke(t)

\* Mutant: an expired refresh token ends the logout before the access token's turn.
LogoutRefreshReturns(r) ==
    /\ req[r].pc = "arrived"
    /\ req[r].kind = "logout"
    /\ LET t == req[r].token IN
       IF Expired(t) THEN Goto(r, "ok") /\ UNCHANGED blacklist
       ELSE IF t.type # "refresh" THEN Goto(r, "refused") /\ UNCHANGED blacklist
       ELSE Goto(r, "half") /\ Revoke(t)
    /\ UNCHANGED <<now, pairs, status, width>>

LogoutRefresh(r) ==
    /\ req[r].pc = "arrived"
    /\ req[r].kind = "logout"
    /\ LET t == req[r].token IN
       IF ~Expired(t) /\ t.type # "refresh"
         THEN Goto(r, "refused") /\ UNCHANGED blacklist
         ELSE Goto(r, "half") /\ RevokeUnlessExpired(t)
    /\ UNCHANGED <<now, pairs, status, width>>

LogoutAccess(r) ==
    /\ req[r].pc = "half"
    /\ LET t == req[r].second IN
       IF ~Expired(t) /\ t.type # "access"
         THEN Goto(r, "refused") /\ UNCHANGED blacklist
         ELSE Goto(r, "revoked") /\ RevokeUnlessExpired(t)
    /\ UNCHANGED <<now, pairs, status, width>>

\* The UserLoggedOutEvent is published and the client is answered.
LogoutAnswer(r) ==
    /\ req[r].pc = "revoked"
    /\ Goto(r, "ok")
    /\ UNCHANGED <<now, pairs, blacklist, status, width>>

\* Any await may raise (Redis, the database, the bus), or the process may die: the
\* request ends and what it wrote stays written.
RequestFails(r) ==
    /\ req[r].pc \notin Ended \cup {"idle"}
    /\ Goto(r, "failed")
    /\ UNCHANGED <<now, pairs, blacklist, status, width>>

\* The user is suspended, deactivated, restored or pruned by other requests.
SetStatus(s) ==
    /\ s # status
    /\ status' = s
    /\ UNCHANGED <<now, pairs, blacklist, req, width>>

Tick ==
    /\ now < MaxTime
    /\ now' = now + 1
    /\ UNCHANGED <<pairs, blacklist, status, req, width>>

Next ==
    \/ Login
    \/ \E r \in Requests :
          \/ \E k \in Kinds, t \in Issued, u \in Issued : Arrive(r, k, t, u)
          \/ RefreshDecode(r) \/ AccessDecode(r) \/ CheckBlacklist(r)
          \/ RefreshLookup(r) \/ AccessLookup(r)
          \/ RefreshRotate(r) \/ RefreshIssue(r)
          \/ LogoutRefresh(r) \/ LogoutAccess(r) \/ LogoutAnswer(r)
          \/ RequestFails(r)
    \/ \E s \in {"active", "blocked"} : SetStatus(s)
    \/ Tick

Spec == Init /\ [][Next]_vars

------------------------------------------------------------------------------
Pcs == Ended \cup {"idle", "arrived", "decoded", "checked", "found", "rotated", "half", "revoked"}
PairRecords == [at : Nat, parent : 0..MaxPairs]
RequestStates == [kind : Kinds, pc : Pcs, token : Tokens \cup {NoToken},
                  second : Tokens \cup {NoToken}]

TypeOK ==
    /\ now \in 0..MaxTime
    /\ pairs \in Seq(PairRecords)
    /\ Len(pairs) <= MaxPairs
    /\ blacklist \in [Tokens -> Nat]
    /\ status \in {"active", "blocked"}
    /\ req \in [Requests -> RequestStates]
    /\ width \in [1..MaxPairs -> Nat]

\* A token that refresh or logout has revoked passes the blacklist check of no request,
\* whatever the requests do in between, except in the last second of its life: the
\* truncated TTL lets the entry end before the token does.
RevokedIsRefused ==
    [][\A r \in Requests :
          (req[r].pc = "decoded" /\ req'[r].pc \in {"checked", "ok"}
             /\ blacklist[req[r].token] # 0)
          => Exp(req[r].token) - now < TPS]_vars

\* A logout that answered has revoked both of its tokens, unless they were expired, even
\* when another request wrote the same entries before, between or after its halves.
LogoutRevokesBoth ==
    \A r \in Requests : (req[r].kind = "logout" /\ req[r].pc = "ok") =>
        \A t \in {req[r].token, req[r].second} : Expired(t) \/ blacklist[t] # 0

\* A refresh token yields no more pairs than refreshes of it were between the blacklist
\* check and the rotation at one moment: a client that sends one refresh at a time never
\* gets two.  (The last second, when the entry may already be gone, is left out.)
DoubleSpendNeedsOverlap ==
    \A p \in 1..Len(pairs) :
        (now < Exp([pair |-> p, type |-> "refresh"]) - TPS) => Cardinality(Children(p)) <= width[p]
=============================================================================
