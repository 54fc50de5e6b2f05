-------------------------------- MODULE Rbac --------------------------------
(***************************************************************************)
(* Roles and permissions: the four tables, the list of permission names    *)
(* cached per user under user_permissions:{id}, the endpoints that change  *)
(* the tables, the two guards that fill the cache (require_permission and  *)
(* has_admin_access), the admin panel, and the seeding done at startup.    *)
(*                                                                         *)
(* An endpoint commits and then deletes cache entries, one await each; for *)
(* a grant it first selects the users of the role.  The admin panel and    *)
(* the pruning of a user change the tables and delete nothing.             *)
(***************************************************************************)
EXTENDS Naturals, FiniteSets

CONSTANTS
    Users, Roles, Permissions,
    SeedUser, SeedRole, SeedPermissions,  \* what seed_superuser creates
    Requests,   \* calls of the endpoints that assign and revoke, each handled once
    Guards,     \* protected requests, again and again
    Starters,   \* application processes that start
    TTL,        \* 300 seconds, in ticks
    MaxEdits    \* bound: changes made by the admin panel and by prune

ASSUME RbacConstants ==
    /\ SeedUser \in Users /\ SeedRole \in Roles /\ SeedPermissions \subseteq Permissions
    /\ TTL \in Nat \ {0} /\ MaxEdits \in Nat

VARIABLES
    users, roles, permissions,  \* the rows that exist
    grants,    \* role_permissions: pairs <<role, permission>>
    members,   \* user_roles: pairs <<user, role>>
    cache,     \* user_permissions:{id}
    req,       \* the requests
    guard,     \* the protected requests
    starter,   \* the starting processes
    edits      \* changes made by the admin panel

tables == <<users, roles, permissions, grants, members>>
vars == <<tables, cache, req, guard, starter, edits>>

Targets == [name : {"grant", "revoke"}, role : Roles, arg : Permissions]
              \cup [name : {"join", "leave"}, role : Roles, arg : Users]

NoOp == [name |-> "none", role |-> SeedRole, arg |-> SeedUser]

\* dirty (history): a change of the tables or an invalidation overlapped the guard that
\* read the names, or a change came after them that nothing invalidates.
NoEntry == [names |-> {}, left |-> 0, dirty |-> FALSE]
NoGuard == [pc |-> "idle", user |-> SeedUser, names |-> {}, dirty |-> FALSE]
NoStart == [pc |-> "idle", permissions |-> {}, roles |-> {}, users |-> {},
            grants |-> {}, members |-> {}, overlapped |-> FALSE]

\* get_user_permissions: the join of the four tables.
get_user_permissions(u) ==
    {p \in permissions : \E r \in roles : <<u, r>> \in members /\ <<r, p>> \in grants}

\* user_has_permission: the count behind GET /rbac/users/{id}/check.
user_has_permission(u, p) ==
    \E r \in roles : p \in permissions /\ <<u, r>> \in members /\ <<r, p>> \in grants

\* user_has_role, by name.
user_has_role(u, r) == r \in roles /\ <<u, r>> \in members

\* get_user_ids_for_role.
get_user_ids_for_role(r) == {u \in Users : <<u, r>> \in members}

\* What the use cases look up before they write.
MayGrant(r, p) == r \in roles /\ p \in permissions
MayRevoke(r, p) == r \in roles /\ p \in permissions /\ <<r, p>> \in grants
MayJoin(u, r) == r \in roles /\ ~user_has_role(u, r)
MayLeave(u, r) == user_has_role(u, r)

Taint == guard' = [g \in Guards |-> IF guard[g].pc = "idle" THEN guard[g]
                                    ELSE [guard[g] EXCEPT !.dirty = TRUE]]
Dirtied(us) == [u \in Users |-> IF u \in us /\ cache[u].left > 0
                                THEN [cache[u] EXCEPT !.dirty = TRUE] ELSE cache[u]]
Overlap == [s \in Starters |-> IF starter[s].pc = "begun"
                               THEN [starter[s] EXCEPT !.overlapped = TRUE] ELSE starter[s]]

Init ==
    /\ users \in {Users, Users \ {SeedUser}}
    /\ roles \in {Roles, Roles \ {SeedRole}}
    /\ permissions \in {Permissions, Permissions \ SeedPermissions}
    /\ grants \in SUBSET (roles \X permissions)
    /\ members \in SUBSET (users \X roles)
    /\ cache = [u \in Users |-> NoEntry]
    /\ req = [q \in Requests |-> [op |-> NoOp, pc |-> "idle", left |-> {}]]
    /\ guard = [g \in Guards |-> NoGuard]
    /\ starter = [s \in Starters |-> NoStart]
    /\ edits = 0

------------------------------------------------------------------------------
(* The endpoints that assign and revoke *)

\* The lookups of the use case; it raises when they do not allow the change.
Check(q, name, r, arg, may) ==
    /\ req[q].pc = "idle"
    /\ req' = [req EXCEPT ![q] =
                 IF may THEN [@ EXCEPT !.pc = "checked", !.op = [name |-> name, role |-> r, arg |-> arg]]
                 ELSE [@ EXCEPT !.pc = "done"]]
    /\ UNCHANGED <<tables, cache, guard, starter, edits>>

assign_permission_to_role(q, r, p) == Check(q, "grant", r, p, MayGrant(r, p))
revoke_permission_from_role(q, r, p) == Check(q, "revoke", r, p, MayRevoke(r, p))
assign_role_to_user(q, r, u) == Check(q, "join", r, u, MayJoin(u, r))
revoke_role_from_user(q, r, u) == Check(q, "leave", r, u, MayLeave(u, r))

\* A row whose role, permission or user is gone violates a foreign key; a row that is
\* already there, or already gone, is left as it is.
Holds(op) == /\ op.role \in roles
             /\ IF op.name \in {"grant", "revoke"} THEN op.arg \in permissions ELSE op.arg \in users

\* Mutant: the endpoint that revokes a role deletes no entry.
NamedJoinOnly(op) == IF op.name = "join" THEN {op.arg} ELSE {}

\* The user whose entry the endpoint deletes without a lookup.
Named(op) == IF op.name \in {"join", "leave"} THEN {op.arg} ELSE {}

Commit(q) ==
    /\ req[q].pc = "checked"
    /\ LET op == req[q].op IN
       /\ op.name \in {"grant", "join"} => Holds(op)
       /\ grants' = CASE op.name = "grant"  -> grants \cup {<<op.role, op.arg>>}
                      [] op.name = "revoke" -> grants \ {<<op.role, op.arg>>}
                      [] OTHER -> grants
       /\ members' = CASE op.name = "join"  -> members \cup {<<op.arg, op.role>>}
                       [] op.name = "leave" -> members \ {<<op.arg, op.role>>}
                       [] OTHER -> members
       /\ req' = [req EXCEPT ![q].pc = IF op.name \in {"join", "leave"} THEN "listed"
                                       ELSE "committed",
                             ![q].left = Named(op)]
    /\ Taint /\ starter' = Overlap
    /\ UNCHANGED <<users, roles, permissions, cache, edits>>

\* After the commit of a grant or a revoke the users of the role are selected.
ListUsers(q) ==
    /\ req[q].pc = "committed"
    /\ req' = [req EXCEPT ![q].pc = "listed",
                          ![q].left = get_user_ids_for_role(req[q].op.role)]
    /\ UNCHANGED <<tables, cache, guard, starter, edits>>

Done(q) == [req EXCEPT ![q] = [op |-> NoOp, pc |-> "done", left |-> {}]]

\* cache.delete for one of them.
Invalidate(q, u) ==
    /\ req[q].pc = "listed" /\ u \in req[q].left
    /\ cache' = [cache EXCEPT ![u] = NoEntry]
    /\ req' = [req EXCEPT ![q].left = @ \ {u}]
    /\ Taint
    /\ UNCHANGED <<tables, starter, edits>>

Answer(q) ==
    /\ req[q].pc = "listed" /\ req[q].left = {}
    /\ req' = Done(q)
    /\ UNCHANGED <<tables, cache, guard, starter, edits>>

\* Redis or the database raises, an IntegrityError, the death of the process; entries the
\* request had still to delete stay until they expire.
Missed(q) == CASE req[q].pc = "committed" -> get_user_ids_for_role(req[q].op.role)
               [] req[q].pc = "listed" -> req[q].left
               [] OTHER -> {}

RequestFails(q) ==
    /\ req[q].pc \notin {"idle", "done"}
    /\ req' = Done(q)
    /\ cache' = Dirtied(Missed(q))
    /\ IF Missed(q) # {} THEN Taint ELSE UNCHANGED guard
    /\ UNCHANGED <<tables, starter, edits>>

\* POST /rbac/roles and /rbac/permissions: a name that is free is taken.  The lookup
\* before the insert only chooses between 409 and the IntegrityError of the unique index.
CreateRole(r) ==
    /\ r \notin roles /\ edits < MaxEdits
    /\ roles' = roles \cup {r} /\ edits' = edits + 1
    /\ starter' = Overlap
    /\ UNCHANGED <<users, permissions, grants, members, cache, req, guard>>

CreatePermission(p) ==
    /\ p \notin permissions /\ edits < MaxEdits
    /\ permissions' = permissions \cup {p} /\ edits' = edits + 1
    /\ starter' = Overlap
    /\ UNCHANGED <<users, roles, grants, members, cache, req, guard>>

\* The admin panel deletes a role or a permission, or edits the association tables, and a
\* user is pruned: foreign keys cascade and no entry is deleted.
Restrict(us, rs, ps) ==
    /\ users' = us /\ roles' = rs /\ permissions' = ps
    /\ grants' = grants \cap (rs \X ps)
    /\ members' = members \cap (us \X rs)

Edit ==
    /\ edits' = edits + 1 /\ edits < MaxEdits
    /\ cache' = Dirtied(Users) /\ Taint /\ starter' = Overlap
    /\ UNCHANGED req

AdminDeletesRole(r) == r \in roles /\ Restrict(users, roles \ {r}, permissions) /\ Edit
AdminDeletesPermission(p) ==
    p \in permissions /\ Restrict(users, roles, permissions \ {p}) /\ Edit
PruneUser(u) == u \in users /\ Restrict(users \ {u}, roles, permissions) /\ Edit

AdminEditsMembers(u, r) ==
    /\ u \in users /\ r \in roles
    /\ members' = IF <<u, r>> \in members THEN members \ {<<u, r>>} ELSE members \cup {<<u, r>>}
    /\ UNCHANGED <<users, roles, permissions, grants>>
    /\ Edit

AdminEditsGrants(r, p) ==
    /\ r \in roles /\ p \in permissions
    /\ grants' = IF <<r, p>> \in grants THEN grants \ {<<r, p>>} ELSE grants \cup {<<r, p>>}
    /\ UNCHANGED <<users, roles, permissions, members>>
    /\ Edit

------------------------------------------------------------------------------
(* The guards that fill the cache *)

\* A hit is answered from the entry and changes nothing; on a miss the names are selected.
GuardMiss(g, u) ==
    /\ guard[g].pc = "idle"
    /\ u \in users /\ cache[u].left = 0
    /\ guard' = [guard EXCEPT ![g] = [NoGuard EXCEPT !.pc = "missed", !.user = u]]
    /\ UNCHANGED <<tables, cache, req, starter, edits>>

\* A superuser, which SeedUser is taken to be, passes both guards without a lookup.  The
\* admin panel verifies its session on every request.
require_permission(g, u) == u # SeedUser /\ GuardMiss(g, u)
has_admin_access(g, u) == u # SeedUser /\ GuardMiss(g, u)

GuardRead(g) ==
    /\ guard[g].pc = "missed"
    /\ guard' = [guard EXCEPT ![g].pc = "read",
                              ![g].names = get_user_permissions(guard[g].user)]
    /\ UNCHANGED <<tables, cache, req, starter, edits>>

GuardFill(g) ==
    /\ guard[g].pc = "read"
    /\ cache' = [cache EXCEPT ![guard[g].user] =
                   [names |-> guard[g].names, left |-> TTL, dirty |-> guard[g].dirty]]
    /\ guard' = [guard EXCEPT ![g] = NoGuard]
    /\ UNCHANGED <<tables, req, starter, edits>>

GuardFails(g) ==
    /\ guard[g].pc # "idle"
    /\ guard' = [guard EXCEPT ![g] = NoGuard]
    /\ UNCHANGED <<tables, cache, req, starter, edits>>

\* Mutant: the entries are set without a TTL.
TickKeeps == UNCHANGED vars

Tick ==
    /\ cache' = [u \in Users |-> IF cache[u].left <= 1 THEN NoEntry
                                 ELSE [cache[u] EXCEPT !.left = @ - 1]]
    /\ UNCHANGED <<tables, req, guard, starter, edits>>

------------------------------------------------------------------------------
(* seed_superuser *)

\* Mutant: the permissions are granted only to a role that the start creates.
SeedGrantsNewRole == ({SeedRole} \ roles) \X SeedPermissions

\* Each permission the role does not have yet.
SeedGrants == ({SeedRole} \X SeedPermissions) \ grants

\* The lookups of one transaction decide what it inserts.
SeedBegin(s) ==
    /\ starter[s].pc = "idle"
    /\ LET ps == SeedPermissions \ permissions
           rs == {SeedRole} \ roles
           us == {SeedUser} \ users IN
       starter' = [starter EXCEPT ![s] =
           [pc |-> "begun", permissions |-> ps, roles |-> rs, users |-> us,
           grants |-> SeedGrants,
           members |-> {<<SeedUser, SeedRole>>} \ members,
           overlapped |-> FALSE]]
    /\ UNCHANGED <<tables, cache, req, guard, edits>>

\* No row of the transaction exists by now, and every row it refers to still does.
SeedFits(t) ==
    /\ t.permissions \cap permissions = {} /\ t.roles \cap roles = {}
    /\ t.users \cap users = {} /\ t.grants \cap grants = {} /\ t.members \cap members = {}
    /\ \A x \in t.grants : /\ x[1] \in roles \cup t.roles
                           /\ x[2] \in permissions \cup t.permissions
    /\ \A x \in t.members : x[1] \in users \cup t.users /\ x[2] \in roles \cup t.roles

SeedCommit(s) ==
    /\ starter[s].pc = "begun"
    /\ LET t == starter[s] IN
       /\ SeedFits(t)
       /\ permissions' = permissions \cup t.permissions /\ roles' = roles \cup t.roles
       /\ users' = users \cup t.users
       /\ grants' = grants \cup t.grants /\ members' = members \cup t.members
    /\ starter' = [Overlap EXCEPT ![s] = [NoStart EXCEPT !.pc = "started",
                                                        !.overlapped = starter[s].overlapped]]
    /\ cache' = Dirtied(Users) /\ Taint
    /\ UNCHANGED <<req, edits>>

\* An IntegrityError against a second starter, or a crash: nothing is committed and the
\* process may be started again.
SeedFails(s) ==
    /\ starter[s].pc = "begun"
    /\ starter' = [starter EXCEPT ![s] = NoStart]
    /\ UNCHANGED <<tables, cache, req, guard, edits>>

RequestStep(q) == \/ Commit(q) \/ ListUsers(q) \/ Answer(q) \/ RequestFails(q)
                  \/ \E u \in Users : Invalidate(q, u)
GuardStep(g) == GuardRead(g) \/ GuardFill(g) \/ GuardFails(g)

Next ==
    \/ \E q \in Requests :
          \/ RequestStep(q)
          \/ \E r \in Roles :
                \/ \E p \in Permissions : \/ assign_permission_to_role(q, r, p)
                                          \/ revoke_permission_from_role(q, r, p)
                \/ \E u \in Users : \/ assign_role_to_user(q, r, u)
                                    \/ revoke_role_from_user(q, r, u)
    \/ \E g \in Guards : \/ GuardStep(g)
                         \/ \E u \in Users : require_permission(g, u) \/ has_admin_access(g, u)
    \/ \E s \in Starters : SeedBegin(s) \/ SeedCommit(s) \/ SeedFails(s)
    \/ \E r \in Roles : CreateRole(r) \/ AdminDeletesRole(r)
    \/ \E p \in Permissions : CreatePermission(p) \/ AdminDeletesPermission(p)
    \/ \E u \in Users : PruneUser(u) \/ \E r \in Roles : AdminEditsMembers(u, r)
    \/ \E r \in Roles, p \in Permissions : AdminEditsGrants(r, p)
    \/ Tick

Spec == Init /\ [][Next]_vars

\* Requests that have begun end, and time passes; nothing makes a starter succeed.
Fairness == /\ \A q \in Requests : WF_vars(RequestStep(q))
            /\ \A g \in Guards : WF_vars(GuardStep(g))
            /\ WF_vars(Tick)

FairSpec == Spec /\ Fairness

------------------------------------------------------------------------------
Entries == [names : SUBSET Permissions, left : 0..TTL, dirty : BOOLEAN]
RequestStates == [op : Targets \cup {NoOp}, left : SUBSET Users,
                  pc : {"idle", "checked", "committed", "listed", "done"}]
GuardStates == [pc : {"idle", "missed", "read"}, user : Users, names : SUBSET Permissions,
                dirty : BOOLEAN]
StarterStates == [pc : {"idle", "begun", "started"}, permissions : SUBSET Permissions,
                  roles : SUBSET Roles, users : SUBSET Users,
                  grants : SUBSET (Roles \X Permissions), members : SUBSET (Users \X Roles),
                  overlapped : BOOLEAN]

TypeOK ==
    /\ users \subseteq Users /\ roles \subseteq Roles /\ permissions \subseteq Permissions
    /\ grants \subseteq Roles \X Permissions /\ members \subseteq Users \X Roles
    /\ cache \in [Users -> Entries]
    /\ req \in [Requests -> RequestStates]
    /\ guard \in [Guards -> GuardStates]
    /\ starter \in [Starters -> StarterStates]
    /\ edits \in 0..MaxEdits

\* No association survives a row it refers to.
NoDanglingAssignment == grants \subseteq roles \X permissions /\ members \subseteq users \X roles

\* The guard and GET /rbac/users/{id}/check would answer differently for user u.
Disagrees(u) == cache[u].left > 0 /\ \E p \in Permissions :
                    (p \in cache[u].names) # user_has_permission(u, p)

\* Request q has committed and will still delete the entry of u: it names u, or it has u
\* on its list, or u is a member of its role when it makes the list.
Owes(q, u) == \/ req[q].pc = "listed" /\ u \in req[q].left
              \/ req[q].pc = "committed" /\ u \in get_user_ids_for_role(req[q].op.role)

\* A cached permission list that disagrees with the tables has a cause: a committed change
\* that still owes the deletion, a guard that a change overlapped, or a change that
\* deletes nothing.  Grants and memberships of one user may change at once.
StaleListHasCause ==
    \A u \in Users : Disagrees(u) => cache[u].dirty \/ \E q \in Requests : Owes(q, u)

\* A start that no other change overlapped leaves the superuser with every permission the
\* routers ask for, whatever was there before.
SeedIsComplete ==
    [][\A s \in Starters :
          (starter[s].pc = "begun" /\ starter'[s].pc = "started" /\ ~starter[s].overlapped)
          => \A p \in SeedPermissions : user_has_permission(SeedUser, p)']_vars

\* Once the changes stop, every cached list comes to agree with the tables: an entry is
\* only filled from them and lives for one TTL.
PermissionsConverge == \A u \in Users : <>[](~Disagrees(u))
=============================================================================
