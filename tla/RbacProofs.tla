----------------------------- MODULE RbacProofs -----------------------------
(***************************************************************************)
(* Proofs about Rbac, for any users, roles, permissions, requests, guards, *)
(* starting processes and number of administrator's changes.               *)
(***************************************************************************)
EXTENDS Rbac, TLAPS

\* What a guard has read, and no change overlapped, is what the tables say.
GuardInv ==
    \A g \in Guards : (guard[g].pc = "read" /\ ~guard[g].dirty) =>
        guard[g].names = get_user_permissions(guard[g].user)

IInv == TypeOK /\ NoDanglingAssignment /\ GuardInv /\ StaleListHasCause

-----------------------------------------------------------------------------
(* The queries *)

\* The guard's list and the check of GET /rbac/users/{id}/check are one condition.
LEMMA NamesArePermissions ==
    \A u, p : p \in get_user_permissions(u) <=> user_has_permission(u, p)
  BY DEF get_user_permissions, user_has_permission

\* The queries depend on the tables only.
LEMMA QueriesKept ==
    ASSUME UNCHANGED tables
    PROVE  /\ \A u : get_user_permissions(u)' = get_user_permissions(u)
           /\ \A u, p : user_has_permission(u, p)' = user_has_permission(u, p)
           /\ \A r : get_user_ids_for_role(r)' = get_user_ids_for_role(r)
  BY DEF tables, get_user_permissions, user_has_permission, get_user_ids_for_role

\* A new role or permission has no associations, so it changes no user's permissions.
LEMMA NewRowsGrantNothing ==
    ASSUME NoDanglingAssignment, roles \subseteq roles', permissions \subseteq permissions',
           UNCHANGED <<grants, members>>
    PROVE  /\ \A u : get_user_permissions(u)' = get_user_permissions(u)
           /\ \A u, p : user_has_permission(u, p)' = user_has_permission(u, p)
           /\ \A r : get_user_ids_for_role(r)' = get_user_ids_for_role(r)
  BY DEF NoDanglingAssignment, get_user_permissions, user_has_permission, get_user_ids_for_role

-----------------------------------------------------------------------------
(* Types *)

\* The lookups of a use case keep the types.
LEMMA CheckTyped ==
    ASSUME TypeOK, NEW q \in Requests, NEW name, NEW r, NEW arg, NEW may,
           [name |-> name, role |-> r, arg |-> arg] \in Targets, Check(q, name, r, arg, may)
    PROVE  TypeOK'
<1>. DEFINE op == [name |-> name, role |-> r, arg |-> arg]
            x == IF may THEN [req[q] EXCEPT !.pc = "checked", !.op = op]
                 ELSE [req[q] EXCEPT !.pc = "done"]
<1>. HIDE DEF op
<1>1. req[q] \in RequestStates /\ op \in Targets
  BY DEF TypeOK, op
<1>2. x \in RequestStates
  BY <1>1 DEF RequestStates
<1>3. req' = [req EXCEPT ![q] = x] /\ UNCHANGED <<tables, cache, guard, starter, edits>>
  BY DEF Check, op
<1>. HIDE DEF x
<1>. QED
  BY <1>2, <1>3 DEF TypeOK, tables

\* Tainting guards, dirtying entries and marking overlapped starts keep the types.
LEMMA HistoryTyped ==
    ASSUME TypeOK
    PROVE  /\ Taint => guard' \in [Guards -> GuardStates]
           /\ \A us : Dirtied(us) \in [Users -> Entries]
           /\ Overlap \in [Starters -> StarterStates]
<1>1. ASSUME NEW g \in Guards PROVE [guard[g] EXCEPT !.dirty = TRUE] \in GuardStates
  BY DEF TypeOK, GuardStates
<1>2. ASSUME NEW u \in Users PROVE [cache[u] EXCEPT !.dirty = TRUE] \in Entries
  BY DEF TypeOK, Entries
<1>3. ASSUME NEW t \in Starters PROVE [starter[t] EXCEPT !.overlapped = TRUE] \in StarterStates
  BY DEF TypeOK, StarterStates
<1>4. Taint => guard' \in [Guards -> GuardStates]
  BY <1>1 DEF TypeOK, Taint
<1>5. \A us : Dirtied(us) \in [Users -> Entries]
  BY <1>2 DEF TypeOK, Dirtied
<1>6. Overlap \in [Starters -> StarterStates]
  BY <1>3 DEF TypeOK, Overlap
<1>. QED
  BY <1>4, <1>5, <1>6

\* A committing request changes one association, of rows of the right kind.
LEMMA CommitTyped ==
    ASSUME TypeOK, NEW q \in Requests, Commit(q)
    PROVE  TypeOK'
<1>. DEFINE op == req[q].op
            x == [req[q] EXCEPT !.pc = IF op.name \in {"join", "leave"} THEN "listed" ELSE "committed",
                                !.left = Named(op)]
<1>1. op \in Targets \cup {NoOp} /\ req[q] \in RequestStates
  BY DEF TypeOK, RequestStates
<1>2. Named(op) \in SUBSET Users
  BY <1>1 DEF Named, Targets, NoOp
<1>3. /\ op.name = "grant" => <<op.role, op.arg>> \in Roles \X Permissions
      /\ op.name = "join" => <<op.arg, op.role>> \in Users \X Roles
  BY <1>1 DEF Targets, NoOp
<1>4. grants' \subseteq grants \cup IF op.name = "grant" THEN {<<op.role, op.arg>>} ELSE {}
  BY DEF Commit
<1>5. members' \subseteq members \cup IF op.name = "join" THEN {<<op.arg, op.role>>} ELSE {}
  BY DEF Commit
<1>6. req' = [req EXCEPT ![q] = x]
  BY DEF Commit
<1>7. Taint /\ starter' = Overlap /\ UNCHANGED <<users, roles, permissions, cache, edits>>
  BY DEF Commit
<1>. HIDE DEF op
<1>8. x \in RequestStates
  BY <1>1, <1>2 DEF RequestStates
<1>. HIDE DEF x
<1>9. req' \in [Requests -> RequestStates]
  BY <1>6, <1>8 DEF TypeOK
<1>10. grants' \subseteq Roles \X Permissions /\ members' \subseteq Users \X Roles
  BY <1>3, <1>4, <1>5 DEF TypeOK
<1>. QED
  BY <1>7, <1>9, <1>10, HistoryTyped DEF TypeOK

\* The other steps of a request keep the types.
LEMMA RequestTyped ==
    ASSUME TypeOK, NEW q \in Requests,
           \/ ListUsers(q) \/ Answer(q) \/ RequestFails(q) \/ \E u \in Users : Invalidate(q, u)
    PROVE  TypeOK'
<1>. DEFINE done == [op |-> NoOp, pc |-> "done", left |-> {}]
<1>1. req[q] \in RequestStates /\ done \in RequestStates
  BY DEF TypeOK, RequestStates
<1>2. CASE ListUsers(q)
  <2>. DEFINE x == [req[q] EXCEPT !.pc = "listed", !.left = get_user_ids_for_role(req[q].op.role)]
  <2>1. x \in RequestStates
    BY <1>1 DEF RequestStates, get_user_ids_for_role
  <2>2. req' = [req EXCEPT ![q] = x] /\ UNCHANGED <<tables, cache, guard, starter, edits>>
    BY <1>2 DEF ListUsers
  <2>. HIDE DEF x
  <2>. QED
    BY <2>1, <2>2 DEF TypeOK, tables
<1>3. CASE Answer(q)
  BY <1>1, <1>3 DEF Answer, Done, TypeOK, tables
<1>4. CASE RequestFails(q)
  <2>1. req' = [req EXCEPT ![q] = done] /\ UNCHANGED <<tables, starter, edits>>
    BY <1>4 DEF RequestFails, Done
  <2>2. cache' \in [Users -> Entries] /\ guard' \in [Guards -> GuardStates]
    BY <1>4, HistoryTyped DEF RequestFails, TypeOK
  <2>. HIDE DEF done
  <2>. QED
    BY <1>1, <2>1, <2>2 DEF TypeOK, tables
<1>5. ASSUME NEW u \in Users, Invalidate(q, u) PROVE TypeOK'
  <2>. DEFINE x == [req[q] EXCEPT !.left = @ \ {u}]
  <2>1. x \in RequestStates
    BY <1>1 DEF RequestStates
  <2>2. /\ req' = [req EXCEPT ![q] = x] /\ cache' = [cache EXCEPT ![u] = NoEntry]
        /\ Taint /\ UNCHANGED <<tables, starter, edits>>
    BY <1>5 DEF Invalidate
  <2>3. NoEntry \in Entries
    BY RbacConstants DEF NoEntry, Entries
  <2>. HIDE DEF x
  <2>. QED
    BY <2>1, <2>2, <2>3, HistoryTyped DEF TypeOK, tables
<1>. QED
  BY <1>2, <1>3, <1>4, <1>5

\* The steps of a guard keep the types.
LEMMA GuardTyped ==
    ASSUME TypeOK, NEW g \in Guards, GuardStep(g) \/ \E u \in Users : GuardMiss(g, u)
    PROVE  TypeOK'
<1>1. guard[g] \in GuardStates /\ NoGuard \in GuardStates
  BY RbacConstants DEF TypeOK, GuardStates, NoGuard
<1>2. CASE GuardRead(g)
  <2>. DEFINE x == [guard[g] EXCEPT !.pc = "read", !.names = get_user_permissions(guard[g].user)]
  <2>1. get_user_permissions(guard[g].user) \subseteq Permissions
    BY DEF get_user_permissions, TypeOK
  <2>2. x \in GuardStates
    BY <1>1, <2>1 DEF GuardStates
  <2>3. guard' = [guard EXCEPT ![g] = x] /\ UNCHANGED <<tables, cache, req, starter, edits>>
    BY <1>2 DEF GuardRead
  <2>. HIDE DEF x
  <2>. QED
    BY <2>2, <2>3 DEF TypeOK, tables
<1>3. CASE GuardFill(g)
  <2>. DEFINE x == [names |-> guard[g].names, left |-> TTL, dirty |-> guard[g].dirty]
  <2>1. x \in Entries
    BY <1>1, RbacConstants DEF GuardStates, Entries
  <2>2. /\ cache' = [cache EXCEPT ![guard[g].user] = x] /\ guard' = [guard EXCEPT ![g] = NoGuard]
        /\ UNCHANGED <<tables, req, starter, edits>>
    BY <1>3 DEF GuardFill
  <2>. HIDE DEF x
  <2>. QED
    BY <1>1, <2>1, <2>2 DEF TypeOK, tables
<1>4. CASE GuardFails(g)
  BY <1>1, <1>4 DEF GuardFails, TypeOK, tables
<1>5. ASSUME NEW u \in Users, GuardMiss(g, u) PROVE TypeOK'
  <2>. DEFINE x == [NoGuard EXCEPT !.pc = "missed", !.user = u]
  <2>1. x \in GuardStates
    BY <1>1 DEF GuardStates
  <2>2. guard' = [guard EXCEPT ![g] = x] /\ UNCHANGED <<tables, cache, req, starter, edits>>
    BY <1>5 DEF GuardMiss
  <2>. HIDE DEF x
  <2>. QED
    BY <2>1, <2>2 DEF TypeOK, tables
<1>. QED
  BY <1>2, <1>3, <1>4, <1>5 DEF GuardStep

\* The steps of a start keep the types.
LEMMA StarterTyped ==
    ASSUME TypeOK, NEW s \in Starters, SeedBegin(s) \/ SeedCommit(s) \/ SeedFails(s)
    PROVE  TypeOK'
<1>1. starter[s] \in StarterStates /\ NoStart \in StarterStates
  BY DEF TypeOK, StarterStates, NoStart
<1>2. CASE SeedBegin(s)
  <2>. DEFINE x == [pc |-> "begun", permissions |-> SeedPermissions \ permissions,
                    roles |-> {SeedRole} \ roles, users |-> {SeedUser} \ users,
                    grants |-> SeedGrants, members |-> {<<SeedUser, SeedRole>>} \ members,
                    overlapped |-> FALSE]
  <2>1. x \in StarterStates
    BY RbacConstants DEF StarterStates, SeedGrants
  <2>2. starter' = [starter EXCEPT ![s] = x] /\ UNCHANGED <<tables, cache, req, guard, edits>>
    BY <1>2 DEF SeedBegin
  <2>. HIDE DEF x
  <2>. QED
    BY <2>1, <2>2 DEF TypeOK, tables
<1>3. CASE SeedCommit(s)
  <2>. DEFINE x == [NoStart EXCEPT !.pc = "started", !.overlapped = starter[s].overlapped]
  <2>1. x \in StarterStates
    BY <1>1 DEF StarterStates
  <2>2. starter' = [Overlap EXCEPT ![s] = x]
    BY <1>3 DEF SeedCommit
  <2>3. cache' = Dirtied(Users) /\ Taint /\ UNCHANGED <<req, edits>>
    BY <1>3 DEF SeedCommit
  <2>4. /\ users' \subseteq Users /\ roles' \subseteq Roles /\ permissions' \subseteq Permissions
        /\ grants' \subseteq Roles \X Permissions /\ members' \subseteq Users \X Roles
    BY <1>1, <1>3 DEF SeedCommit, TypeOK, StarterStates
  <2>. HIDE DEF x
  <2>. QED
    BY <2>1, <2>2, <2>3, <2>4, HistoryTyped DEF TypeOK
<1>4. CASE SeedFails(s)
  BY <1>1, <1>4 DEF SeedFails, TypeOK, tables
<1>. QED
  BY <1>2, <1>3, <1>4

\* The administrator's changes, the creation of rows and the passing of time keep the types.
LEMMA EditTyped ==
    ASSUME TypeOK,
           \/ \E r \in Roles : CreateRole(r) \/ AdminDeletesRole(r)
           \/ \E p \in Permissions : CreatePermission(p) \/ AdminDeletesPermission(p)
           \/ \E u \in Users : PruneUser(u) \/ \E r \in Roles : AdminEditsMembers(u, r)
           \/ \E r \in Roles, p \in Permissions : AdminEditsGrants(r, p)
    PROVE  TypeOK'
<1>1. edits' \in 0..MaxEdits
  <2>1. edits' = edits + 1 /\ edits < MaxEdits
    BY DEF CreateRole, CreatePermission, AdminDeletesRole, AdminDeletesPermission, PruneUser,
       AdminEditsMembers, AdminEditsGrants, Edit
  <2>. QED
    BY <2>1, RbacConstants DEF TypeOK
<1>2. /\ users' \subseteq Users /\ roles' \subseteq Roles /\ permissions' \subseteq Permissions
      /\ grants' \subseteq Roles \X Permissions /\ members' \subseteq Users \X Roles
  <2>1. CASE \E r \in Roles : CreateRole(r) \/ AdminDeletesRole(r)
    BY <2>1 DEF TypeOK, CreateRole, AdminDeletesRole, Restrict
  <2>2. CASE \E p \in Permissions : CreatePermission(p) \/ AdminDeletesPermission(p)
    BY <2>2 DEF TypeOK, CreatePermission, AdminDeletesPermission, Restrict
  <2>3. CASE \E u \in Users : PruneUser(u)
    BY <2>3 DEF TypeOK, PruneUser, Restrict
  <2>4. CASE \E u \in Users, r \in Roles : AdminEditsMembers(u, r)
    BY <2>4 DEF TypeOK, AdminEditsMembers
  <2>5. CASE \E r \in Roles, p \in Permissions : AdminEditsGrants(r, p)
    BY <2>5 DEF TypeOK, AdminEditsGrants
  <2>. QED
    BY <2>1, <2>2, <2>3, <2>4, <2>5
<1>3. cache' \in {cache, Dirtied(Users)} /\ (Taint \/ guard' = guard) /\ starter' = Overlap
      /\ req' = req
  BY DEF CreateRole, CreatePermission, AdminDeletesRole, AdminDeletesPermission, PruneUser,
     AdminEditsMembers, AdminEditsGrants, Edit
<1>. QED
  BY <1>1, <1>2, <1>3, HistoryTyped DEF TypeOK

\* Entries age within their types.
LEMMA TickTyped ==
    ASSUME TypeOK, Tick
    PROVE  TypeOK'
<1>1. ASSUME NEW u \in Users
      PROVE  (IF cache[u].left <= 1 THEN NoEntry ELSE [cache[u] EXCEPT !.left = @ - 1]) \in Entries
  BY RbacConstants DEF TypeOK, Entries, NoEntry
<1>. QED
  BY <1>1 DEF TypeOK, Tick, tables

\* A step keeps every variable in its type.
LEMMA TypeStep ==
    ASSUME TypeOK, [Next]_vars
    PROVE  TypeOK'
<1>1. ASSUME NEW q \in Requests, NEW r \in Roles, NEW p \in Permissions,
             assign_permission_to_role(q, r, p) \/ revoke_permission_from_role(q, r, p)
      PROVE  TypeOK'
  BY <1>1, CheckTyped DEF assign_permission_to_role, revoke_permission_from_role, Targets
<1>2. ASSUME NEW q \in Requests, NEW r \in Roles, NEW u \in Users,
             assign_role_to_user(q, r, u) \/ revoke_role_from_user(q, r, u)
      PROVE  TypeOK'
  BY <1>2, CheckTyped DEF assign_role_to_user, revoke_role_from_user, Targets
<1>3. ASSUME NEW q \in Requests, RequestStep(q) PROVE TypeOK'
  BY <1>3, CommitTyped, RequestTyped DEF RequestStep
<1>4. ASSUME NEW g \in Guards,
             GuardStep(g) \/ \E u \in Users : require_permission(g, u) \/ has_admin_access(g, u)
      PROVE  TypeOK'
  BY <1>4, GuardTyped DEF require_permission, has_admin_access
<1>5. CASE UNCHANGED vars
  BY <1>5 DEF vars, tables, TypeOK
<1>. QED
  BY <1>1, <1>2, <1>3, <1>4, <1>5, StarterTyped, EditTyped, TickTyped DEF Next

-----------------------------------------------------------------------------
(* Associations *)

\* What leaves the five tables alone.
LEMMA TablesKept ==
    ASSUME [Next]_vars
    PROVE  \/ UNCHANGED tables
           \/ \E q \in Requests : Commit(q)
           \/ \E r \in Roles : CreateRole(r) \/ AdminDeletesRole(r)
           \/ \E p \in Permissions : CreatePermission(p) \/ AdminDeletesPermission(p)
           \/ \E u \in Users : PruneUser(u) \/ \E r \in Roles : AdminEditsMembers(u, r)
           \/ \E r \in Roles, p \in Permissions : AdminEditsGrants(r, p)
           \/ \E s \in Starters : SeedCommit(s)
<1>1. ASSUME NEW q \in Requests,
             \/ ListUsers(q) \/ Answer(q) \/ RequestFails(q) \/ \E u \in Users : Invalidate(q, u)
             \/ \E r \in Roles, p \in Permissions :
                   assign_permission_to_role(q, r, p) \/ revoke_permission_from_role(q, r, p)
             \/ \E r \in Roles, u \in Users :
                   assign_role_to_user(q, r, u) \/ revoke_role_from_user(q, r, u)
      PROVE  UNCHANGED tables
  BY <1>1 DEF ListUsers, Answer, RequestFails, Invalidate, assign_permission_to_role,
     revoke_permission_from_role, assign_role_to_user, revoke_role_from_user, Check
<1>2. ASSUME NEW g \in Guards,
             GuardStep(g) \/ \E u \in Users : require_permission(g, u) \/ has_admin_access(g, u)
      PROVE  UNCHANGED tables
  BY <1>2 DEF GuardStep, GuardRead, GuardFill, GuardFails, require_permission, has_admin_access,
     GuardMiss
<1>3. ASSUME NEW s \in Starters, SeedBegin(s) \/ SeedFails(s) PROVE UNCHANGED tables
  BY <1>3 DEF SeedBegin, SeedFails
<1>4. CASE Tick
  BY <1>4 DEF Tick
<1>5. CASE UNCHANGED vars
  BY <1>5 DEF vars
<1>. QED
  BY <1>1, <1>2, <1>3, <1>4, <1>5 DEF Next, RequestStep

\* A step leaves no association without its rows: an insert is refused, a deletion cascades.
LEMMA DanglingStep ==
    ASSUME TypeOK, NoDanglingAssignment, [Next]_vars
    PROVE  NoDanglingAssignment'
<1> USE DEF NoDanglingAssignment
<1>1. CASE UNCHANGED tables
  BY <1>1 DEF tables
<1>2. ASSUME NEW q \in Requests, Commit(q) PROVE NoDanglingAssignment'
  <2>. DEFINE op == req[q].op
  <2>1. UNCHANGED <<users, roles, permissions>>
    BY <1>2 DEF Commit
  <2>2. grants' \subseteq grants \cup IF op.name = "grant" THEN {<<op.role, op.arg>>} ELSE {}
    BY <1>2 DEF Commit
  <2>3. members' \subseteq members \cup IF op.name = "join" THEN {<<op.arg, op.role>>} ELSE {}
    BY <1>2 DEF Commit
  <2>4. op.name \in {"grant", "join"} => Holds(op)
    BY <1>2 DEF Commit
  <2>. HIDE DEF op
  <2>. QED
    BY <2>1, <2>2, <2>3, <2>4 DEF Holds
<1>3. ASSUME NEW r \in Roles, CreateRole(r) \/ AdminDeletesRole(r) PROVE NoDanglingAssignment'
  BY <1>3 DEF CreateRole, AdminDeletesRole, Restrict
<1>4. ASSUME NEW p \in Permissions, CreatePermission(p) \/ AdminDeletesPermission(p)
      PROVE  NoDanglingAssignment'
  BY <1>4 DEF CreatePermission, AdminDeletesPermission, Restrict
<1>5. ASSUME NEW u \in Users, PruneUser(u) PROVE NoDanglingAssignment'
  BY <1>5 DEF PruneUser, Restrict
<1>6. ASSUME NEW u \in Users, NEW r \in Roles, AdminEditsMembers(u, r) PROVE NoDanglingAssignment'
  BY <1>6 DEF AdminEditsMembers
<1>7. ASSUME NEW r \in Roles, NEW p \in Permissions, AdminEditsGrants(r, p)
      PROVE  NoDanglingAssignment'
  BY <1>7 DEF AdminEditsGrants
<1>8. ASSUME NEW s \in Starters, SeedCommit(s) PROVE NoDanglingAssignment'
  <2>1. starter[s] \in StarterStates
    BY DEF TypeOK
  <2>2. /\ roles' = roles \cup starter[s].roles /\ users' = users \cup starter[s].users
        /\ permissions' = permissions \cup starter[s].permissions
        /\ grants' = grants \cup starter[s].grants /\ members' = members \cup starter[s].members
    BY <1>8 DEF SeedCommit
  <2>3. /\ \A x \in starter[s].grants : x[1] \in roles' /\ x[2] \in permissions'
        /\ \A x \in starter[s].members : x[1] \in users' /\ x[2] \in roles'
    BY <1>8, <2>2 DEF SeedCommit, SeedFits
  <2>4. starter[s].grants \subseteq Roles \X Permissions /\ starter[s].members \subseteq Users \X Roles
    BY <2>1 DEF StarterStates
  <2>5. starter[s].grants \subseteq roles' \X permissions' /\ starter[s].members \subseteq users' \X roles'
    BY <2>3, <2>4
  <2>. QED
    BY <2>2, <2>5
<1>. QED
  BY <1>1, <1>2, <1>3, <1>4, <1>5, <1>6, <1>7, <1>8, TablesKept

-----------------------------------------------------------------------------
(* Cached lists *)

\* A change of what the queries answer taints every guard at work.
LEMMA ChangesTaint ==
    ASSUME TypeOK, NoDanglingAssignment, [Next]_vars
    PROVE  \/ Taint
           \/ /\ \A u : get_user_permissions(u)' = get_user_permissions(u)
              /\ \A u, p : user_has_permission(u, p)' = user_has_permission(u, p)
              /\ \A r : get_user_ids_for_role(r)' = get_user_ids_for_role(r)
<1>1. ASSUME NEW r \in Roles, CreateRole(r)
      PROVE  roles \subseteq roles' /\ permissions \subseteq permissions' /\ UNCHANGED <<grants, members>>
  BY <1>1 DEF CreateRole
<1>2. ASSUME NEW p \in Permissions, CreatePermission(p)
      PROVE  roles \subseteq roles' /\ permissions \subseteq permissions' /\ UNCHANGED <<grants, members>>
  BY <1>2 DEF CreatePermission
<1>3. ASSUME \/ \E q \in Requests : Commit(q)
             \/ \E r \in Roles : AdminDeletesRole(r)
             \/ \E p \in Permissions : AdminDeletesPermission(p)
             \/ \E u \in Users : PruneUser(u) \/ \E r \in Roles : AdminEditsMembers(u, r)
             \/ \E r \in Roles, p \in Permissions : AdminEditsGrants(r, p)
             \/ \E s \in Starters : SeedCommit(s)
      PROVE  Taint
  BY <1>3 DEF Commit, AdminDeletesRole, AdminDeletesPermission, PruneUser, AdminEditsMembers,
     AdminEditsGrants, SeedCommit, Edit
<1>. QED
  BY <1>1, <1>2, <1>3, TablesKept, QueriesKept, NewRowsGrantNothing

\* A user that a committing request does not owe a deletion keeps permissions and roles.
LEMMA CommitOwes ==
    ASSUME TypeOK, NEW q \in Requests, Commit(q), NEW u \in Users, ~Owes(q, u)'
    PROVE  /\ \A p : user_has_permission(u, p)' = user_has_permission(u, p)
           /\ \A r : u \in get_user_ids_for_role(r)' <=> u \in get_user_ids_for_role(r)
<1>. DEFINE op == req[q].op
<1>1. /\ req'[q].op = op /\ req'[q].left = Named(op)
      /\ req'[q].pc = IF op.name \in {"join", "leave"} THEN "listed" ELSE "committed"
  <2>1. req \in [Requests -> RequestStates] /\ req[q] \in RequestStates
    BY DEF TypeOK
  <2>. QED
    BY <2>1 DEF Commit, RequestStates
<1>2. UNCHANGED <<users, roles, permissions>>
  BY DEF Commit
<1>3. /\ grants' = CASE op.name = "grant"  -> grants \cup {<<op.role, op.arg>>}
                     [] op.name = "revoke" -> grants \ {<<op.role, op.arg>>}
                     [] OTHER -> grants
      /\ members' = CASE op.name = "join"  -> members \cup {<<op.arg, op.role>>}
                      [] op.name = "leave" -> members \ {<<op.arg, op.role>>}
                      [] OTHER -> members
  BY DEF Commit
<1>. HIDE DEF op
<1>4. CASE op.name \in {"join", "leave"}
  <2>1. u # op.arg
    BY <1>1, <1>4 DEF Owes, Named
  <2>2. grants' = grants /\ \A r : <<u, r>> \in members' <=> <<u, r>> \in members
    BY <1>3, <1>4, <2>1
  <2>. QED
    BY <1>2, <2>2 DEF user_has_permission, get_user_ids_for_role
<1>5. CASE op.name \notin {"join", "leave"}
  <2>1. members' = members
    BY <1>3, <1>5
  <2>2. <<u, op.role>> \notin members
    BY <1>1, <1>5, <2>1 DEF Owes, get_user_ids_for_role
  <2>3. \A r, p : r # op.role => (<<r, p>> \in grants' <=> <<r, p>> \in grants)
    BY <1>3
  <2>. QED
    BY <1>2, <2>1, <2>2, <2>3 DEF user_has_permission, get_user_ids_for_role
<1>. QED
  BY <1>4, <1>5

\* While the queries answer as before, StaleListHasCause needs only that entries are kept,
\* dropped or marked, and that owed deletions stay owed unless made or marked.
LEMMA CausesKept ==
    ASSUME StaleListHasCause,
           \A u, p : user_has_permission(u, p)' = user_has_permission(u, p),
           \A u \in Users : \/ ~(cache'[u].left > 0) \/ cache'[u].dirty
                            \/ /\ cache[u].left > 0 /\ cache'[u].names = cache[u].names
                               /\ ~cache[u].dirty,
           \A u \in Users, q \in Requests :
               Owes(q, u) => Owes(q, u)' \/ ~(cache'[u].left > 0) \/ cache'[u].dirty
    PROVE  StaleListHasCause'
<1>. SUFFICES ASSUME NEW u \in Users, Disagrees(u)', ~cache'[u].dirty
              PROVE  \E q \in Requests : Owes(q, u)'
  BY DEF StaleListHasCause
<1>1. cache'[u].left > 0
  BY DEF Disagrees
<1>2. Disagrees(u) /\ ~cache[u].dirty
  BY <1>1 DEF Disagrees
<1>3. PICK q \in Requests : Owes(q, u)
  BY <1>2 DEF StaleListHasCause
<1>. QED
  BY <1>1, <1>3

\* An entry marked as dirty by Dirtied is marked, gone, or not among those to mark.
LEMMA DirtiedMarks ==
    ASSUME TypeOK, NEW us, cache' = Dirtied(us), NEW u \in Users
    PROVE  /\ u \in us => ~(cache'[u].left > 0) \/ cache'[u].dirty
           /\ \/ ~(cache'[u].left > 0) \/ cache'[u].dirty
              \/ cache[u].left > 0 /\ cache'[u].names = cache[u].names /\ ~cache[u].dirty
<1>1. cache[u] \in Entries
  BY DEF TypeOK
<1>2. cache'[u] = IF u \in us /\ cache[u].left > 0 THEN [cache[u] EXCEPT !.dirty = TRUE]
                  ELSE cache[u]
  BY DEF Dirtied
<1>. QED
  BY <1>1, <1>2 DEF Entries

\* An entry that does not change is kept, dropped or marked.
LEMMA EntriesKept ==
    ASSUME cache' = cache, NEW u \in Users
    PROVE  \/ ~(cache'[u].left > 0) \/ cache'[u].dirty
           \/ cache[u].left > 0 /\ cache'[u].names = cache[u].names /\ ~cache[u].dirty
  OBVIOUS

\* Owed deletions depend on the request and on the query for the members of a role.
LEMMA OwedKept ==
    ASSUME NEW q, NEW u, req'[q] = req[q],
           \A r : u \in get_user_ids_for_role(r)' <=> u \in get_user_ids_for_role(r)
    PROVE  Owes(q, u)' <=> Owes(q, u)
  BY DEF Owes

\* A request that has committed keeps StaleListHasCause: it deletes what it owes.
LEMMA StaleRequest ==
    ASSUME TypeOK, StaleListHasCause, NEW q \in Requests,
           \/ ListUsers(q) \/ Answer(q) \/ RequestFails(q) \/ \E u \in Users : Invalidate(q, u)
    PROVE  StaleListHasCause'
<1>1. UNCHANGED tables
  BY DEF ListUsers, Answer, RequestFails, Invalidate
<1>2. req \in [Requests -> RequestStates] /\ req[q] \in RequestStates
  BY DEF TypeOK
<1>3. ASSUME NEW x \in Requests, x # q PROVE req'[x] = req[x]
  BY <1>2, <1>3 DEF ListUsers, Answer, RequestFails, Invalidate, Done
<1>4. ASSUME NEW x \in Requests, x # q, NEW u \in Users PROVE Owes(x, u)' <=> Owes(x, u)
  BY <1>1, <1>3, <1>4, OwedKept, QueriesKept
<1>5. CASE ListUsers(q)
  <2>1. cache' = cache /\ req'[q].pc = "listed"
        /\ req'[q].left = get_user_ids_for_role(req[q].op.role) /\ req[q].pc = "committed"
    BY <1>2, <1>5 DEF ListUsers, RequestStates
  <2>2. ASSUME NEW u \in Users, Owes(q, u) PROVE Owes(q, u)'
    BY <2>1, <2>2 DEF Owes
  <2>. QED
    BY <1>1, <1>4, <2>1, <2>2, EntriesKept, QueriesKept, CausesKept
<1>6. CASE Answer(q)
  <2>1. cache' = cache /\ \A u : ~Owes(q, u)
    BY <1>6 DEF Answer, Owes
  <2>. QED
    BY <1>1, <1>4, <2>1, EntriesKept, QueriesKept, CausesKept
<1>7. CASE RequestFails(q)
  <2>1. cache' = Dirtied(Missed(q))
    BY <1>7 DEF RequestFails
  <2>2. ASSUME NEW u \in Users, Owes(q, u) PROVE u \in Missed(q)
    BY <2>2 DEF Owes, Missed
  <2>. QED
    BY <1>1, <1>4, <2>1, <2>2, DirtiedMarks, QueriesKept, CausesKept
<1>8. ASSUME NEW v \in Users, Invalidate(q, v) PROVE StaleListHasCause'
  <2>1. /\ cache' = [cache EXCEPT ![v] = NoEntry] /\ req[q].pc = "listed"
        /\ req'[q].pc = "listed" /\ req'[q].left = req[q].left \ {v}
    BY <1>2, <1>8 DEF Invalidate, RequestStates
  <2>2. cache'[v].left = 0 /\ \A u \in Users \ {v} : cache'[u] = cache[u]
    BY <2>1 DEF TypeOK, NoEntry
  <2>3. ASSUME NEW u \in Users, Owes(q, u) PROVE Owes(q, u)' \/ u = v
    BY <2>1, <2>3 DEF Owes
  <2>. QED
    BY <1>1, <1>4, <2>2, <2>3, QueriesKept, CausesKept
<1>. QED
  BY <1>5, <1>6, <1>7, <1>8

\* A commit owes the deletions its change makes necessary.
LEMMA StaleCommit ==
    ASSUME TypeOK, StaleListHasCause, NEW q \in Requests, Commit(q)
    PROVE  StaleListHasCause'
<1>. SUFFICES ASSUME NEW u \in Users, Disagrees(u)', ~cache'[u].dirty, ~Owes(q, u)'
              PROVE  \E x \in Requests : Owes(x, u)'
  BY DEF StaleListHasCause
<1>1. cache' = cache /\ req[q].pc = "checked"
      /\ \A x \in Requests \ {q} : req'[x] = req[x]
  BY DEF Commit, TypeOK
<1>2. /\ \A p : user_has_permission(u, p)' = user_has_permission(u, p)
      /\ \A r : u \in get_user_ids_for_role(r)' <=> u \in get_user_ids_for_role(r)
  BY CommitOwes
<1>3. PICK x \in Requests : Owes(x, u)
  BY <1>1, <1>2 DEF StaleListHasCause, Disagrees
<1>4. x # q
  BY <1>1, <1>3 DEF Owes
<1>. QED
  BY <1>1, <1>2, <1>3, <1>4, OwedKept

\* Guards, starts, edits, new rows and the clock keep StaleListHasCause: what is read
\* without an overlap agrees with the tables, and a change that deletes nothing marks.
LEMMA StaleOther ==
    ASSUME TypeOK, NoDanglingAssignment, GuardInv, StaleListHasCause, [Next]_vars,
           \A q \in Requests : ~RequestStep(q)
    PROVE  StaleListHasCause'
<1>1. ASSUME NEW q \in Requests, NEW name, NEW r, NEW arg, NEW may, Check(q, name, r, arg, may)
      PROVE  StaleListHasCause'
  <2>1. cache' = cache /\ UNCHANGED tables /\ req[q].pc = "idle"
        /\ \A x \in Requests \ {q} : req'[x] = req[x]
    BY <1>1 DEF Check, TypeOK
  <2>2. ASSUME NEW x \in Requests, NEW u \in Users, Owes(x, u) PROVE Owes(x, u)'
    <3>1. x # q
      BY <2>1, <2>2 DEF Owes
    <3>. QED
      BY <2>1, <2>2, <3>1, OwedKept, QueriesKept
  <2>. QED
    BY <2>1, <2>2, EntriesKept, QueriesKept, CausesKept
<1>2. ASSUME NEW g \in Guards, GuardFill(g) PROVE StaleListHasCause'
  <2>. DEFINE v == guard[g].user
  <2>1. guard[g] \in GuardStates /\ cache \in [Users -> Entries]
    BY DEF TypeOK
  <2>2. UNCHANGED tables /\ req' = req /\ guard[g].pc = "read"
        /\ cache' = [cache EXCEPT ![v] =
                       [names |-> guard[g].names, left |-> TTL, dirty |-> guard[g].dirty]]
    BY <1>2 DEF GuardFill
  <2>3. /\ cache'[v].names = guard[g].names /\ cache'[v].dirty = guard[g].dirty
        /\ \A u \in Users \ {v} : cache'[u] = cache[u]
    BY <2>1, <2>2 DEF GuardStates
  <2>4. ASSUME NEW u \in Users, Disagrees(u)', ~cache'[u].dirty
        PROVE  \E q \in Requests : Owes(q, u)'
    <3>1. CASE u = v
      <4>1. cache'[u].names = get_user_permissions(u)
        BY <2>2, <2>3, <2>4, <3>1 DEF GuardInv
      <4>. QED
        BY <2>2, <2>4, <4>1, NamesArePermissions, QueriesKept DEF Disagrees
    <3>2. CASE u # v
      <4>1. Disagrees(u) /\ ~cache[u].dirty
        BY <2>2, <2>3, <2>4, <3>2, QueriesKept DEF Disagrees
      <4>. QED
        BY <2>2, <4>1, OwedKept, QueriesKept DEF StaleListHasCause
    <3>. QED
      BY <3>1, <3>2
  <2>. QED
    BY <2>4 DEF StaleListHasCause
<1>3. CASE Tick
  <2>1. UNCHANGED tables /\ req' = req
    BY <1>3 DEF Tick
  <2>2. ASSUME NEW u \in Users
        PROVE  \/ ~(cache'[u].left > 0) \/ cache'[u].dirty
               \/ cache[u].left > 0 /\ cache'[u].names = cache[u].names /\ ~cache[u].dirty
    <3>1. cache[u] \in Entries
      BY DEF TypeOK
    <3>2. cache'[u] = IF cache[u].left <= 1 THEN NoEntry ELSE [cache[u] EXCEPT !.left = @ - 1]
      BY <1>3 DEF Tick
    <3>. QED
      BY <3>1, <3>2 DEF Entries, NoEntry
  <2>. QED
    BY <2>1, <2>2, OwedKept, QueriesKept, CausesKept
<1>4. CASE cache' = Dirtied(Users)
  <2>1. ASSUME NEW u \in Users PROVE ~(cache'[u].left > 0) \/ cache'[u].dirty
    BY <1>4, <2>1, DirtiedMarks
  <2>. QED
    BY <2>1 DEF StaleListHasCause, Disagrees
<1>5. ASSUME cache' = cache, req' = req,
             \A u, p : user_has_permission(u, p)' = user_has_permission(u, p),
             \A r : get_user_ids_for_role(r)' = get_user_ids_for_role(r)
      PROVE  StaleListHasCause'
  BY <1>5, EntriesKept, OwedKept, CausesKept
<1>6. ASSUME NEW r \in Roles, CreateRole(r) PROVE StaleListHasCause'
  BY <1>5, <1>6, NewRowsGrantNothing DEF CreateRole
<1>7. ASSUME NEW p \in Permissions, CreatePermission(p) PROVE StaleListHasCause'
  BY <1>5, <1>7, NewRowsGrantNothing DEF CreatePermission
<1>8. ASSUME \/ \E r \in Roles : AdminDeletesRole(r)
             \/ \E p \in Permissions : AdminDeletesPermission(p)
             \/ \E u \in Users : PruneUser(u) \/ \E r \in Roles : AdminEditsMembers(u, r)
             \/ \E r \in Roles, p \in Permissions : AdminEditsGrants(r, p)
             \/ \E s \in Starters : SeedCommit(s)
      PROVE  StaleListHasCause'
  BY <1>4, <1>8 DEF AdminDeletesRole, AdminDeletesPermission, PruneUser, AdminEditsMembers,
     AdminEditsGrants, SeedCommit, Edit
<1>9. ASSUME \/ \E s \in Starters : SeedBegin(s) \/ SeedFails(s)
             \/ \E g \in Guards : \/ GuardRead(g) \/ GuardFails(g)
                                  \/ \E u \in Users : GuardMiss(g, u)
             \/ UNCHANGED vars
      PROVE  StaleListHasCause'
  <2>1. UNCHANGED <<tables, cache, req>>
    BY <1>9 DEF SeedBegin, SeedFails, GuardRead, GuardFails, GuardMiss, vars
  <2>. QED
    BY <1>5, <2>1, QueriesKept
<1>. QED
  BY <1>1, <1>2, <1>3, <1>6, <1>7, <1>8, <1>9
     DEF Next, GuardStep, require_permission, has_admin_access, assign_permission_to_role,
     revoke_permission_from_role, assign_role_to_user, revoke_role_from_user

\* A guard keeps what it has read until it fills the cache; a change marks it.
LEMMA GuardKept ==
    ASSUME TypeOK, NoDanglingAssignment, GuardInv, [Next]_vars
    PROVE  GuardInv'
<1>. SUFFICES ASSUME NEW g \in Guards, guard'[g].pc = "read", ~guard'[g].dirty
              PROVE  guard'[g].names = get_user_permissions(guard[g].user)'
  BY DEF GuardInv
<1>1. guard \in [Guards -> GuardStates] /\ guard[g] \in GuardStates
  BY DEF TypeOK
<1>2. CASE Taint
  <2>1. guard'[g].pc = "idle" \/ guard'[g].dirty
    BY <1>1, <1>2 DEF Taint, GuardStates
  <2>. QED
    BY <2>1
<1>3. CASE \E x \in Guards : \/ GuardStep(x)
                             \/ \E u \in Users : require_permission(x, u) \/ has_admin_access(x, u)
  <2>1. PICK x \in Guards : \/ GuardStep(x) \/ \E u \in Users : GuardMiss(x, u)
    BY <1>3 DEF require_permission, has_admin_access
  <2>2. UNCHANGED tables
    BY <2>1 DEF GuardStep, GuardRead, GuardFill, GuardFails, GuardMiss
  <2>3. CASE x # g
    <3>1. guard'[g] = guard[g]
      BY <1>1, <2>1, <2>3 DEF GuardStep, GuardRead, GuardFill, GuardFails, GuardMiss
    <3>. QED
      BY <2>2, <3>1, QueriesKept DEF GuardInv
  <2>4. CASE x = g
    <3>1. GuardRead(g)
      <4>1. guard' = [guard EXCEPT ![g] = NoGuard] => guard'[g].pc # "read"
        BY <1>1 DEF NoGuard
      <4>2. ASSUME NEW u \in Users, GuardMiss(g, u) PROVE guard'[g].pc # "read"
        BY <1>1, <4>2 DEF GuardMiss, NoGuard
      <4>. QED
        BY <2>1, <2>4, <4>1, <4>2 DEF GuardStep, GuardFill, GuardFails
    <3>2. guard'[g].names = get_user_permissions(guard[g].user) /\ guard'[g].user = guard[g].user
      BY <1>1, <3>1 DEF GuardRead, GuardStates
    <3>. QED
      BY <2>2, <3>2, QueriesKept
  <2>. QED
    BY <2>3, <2>4
<1>4. ASSUME guard' = guard, \A u : get_user_permissions(u)' = get_user_permissions(u)
      PROVE  guard'[g].names = get_user_permissions(guard[g].user)'
  BY <1>4 DEF GuardInv
<1>5. ASSUME ~Taint PROVE \/ guard' = guard
                          \/ \E x \in Guards : \/ GuardStep(x)
                                \/ \E u \in Users : require_permission(x, u) \/ has_admin_access(x, u)
  BY <1>5 DEF Next, RequestStep, Commit, ListUsers, Answer, RequestFails, Invalidate,
     assign_permission_to_role, revoke_permission_from_role, assign_role_to_user,
     revoke_role_from_user, Check, CreateRole, CreatePermission, AdminDeletesRole,
     AdminDeletesPermission, PruneUser, AdminEditsMembers, AdminEditsGrants, Edit, SeedBegin,
     SeedCommit, SeedFails, Tick, vars
<1>. QED
  BY <1>2, <1>3, <1>4, <1>5, ChangesTaint

-----------------------------------------------------------------------------
(* The theorems *)

\* An empty cache disagrees with nothing.
LEMMA InitIInv ==
    ASSUME Init
    PROVE  IInv
<1>1. TypeOK
  BY RbacConstants DEF Init, TypeOK, Entries, RequestStates, GuardStates, StarterStates, NoEntry,
     NoOp, NoGuard, NoStart
<1>2. NoDanglingAssignment
  BY DEF Init, NoDanglingAssignment
<1>3. GuardInv
  BY DEF Init, GuardInv, NoGuard
<1>4. StaleListHasCause
  BY DEF Init, StaleListHasCause, Disagrees, NoEntry
<1>. QED
  BY <1>1, <1>2, <1>3, <1>4 DEF IInv

\* The inductive invariant holds in every reachable state.
THEOREM Invariance == Spec => []IInv
<1>1. Init => IInv
  BY InitIInv
<1>2. IInv /\ [Next]_vars => IInv'
  <2>. SUFFICES ASSUME IInv, [Next]_vars PROVE IInv'
    OBVIOUS
  <2>1. TypeOK /\ NoDanglingAssignment /\ GuardInv /\ StaleListHasCause
    BY DEF IInv
  <2>2. TypeOK' /\ NoDanglingAssignment' /\ GuardInv'
    BY <2>1, TypeStep, DanglingStep, GuardKept
  <2>3. CASE \A q \in Requests : ~RequestStep(q)
    BY <2>1, <2>2, <2>3, StaleOther DEF IInv
  <2>4. ASSUME NEW q \in Requests, RequestStep(q) PROVE StaleListHasCause'
    BY <2>1, <2>4, StaleCommit, StaleRequest DEF RequestStep
  <2>. QED
    BY <2>2, <2>3, <2>4 DEF IInv
<1>. QED
  BY <1>1, <1>2, PTL DEF Spec

\* The tables, cached lists, requests, guards and starts keep their types.
THEOREM TypeCorrect == Spec => []TypeOK
<1>1. IInv => TypeOK
  BY DEF IInv
<1>. QED
  BY <1>1, Invariance, PTL

\* No association refers to a row that is gone, whatever overlaps: an insert whose row was
\* deleted after the lookup is refused, and a deletion cascades.
THEOREM NoDangling == Spec => []NoDanglingAssignment
<1>1. IInv => NoDanglingAssignment
  BY DEF IInv
<1>. QED
  BY <1>1, Invariance, PTL

\* For any number of overlapping requests and guards, a cached permission list is wrong
\* only while a request still owes its deletion, or for a cause marked in the entry.
THEOREM StaleList == Spec => []StaleListHasCause
<1>1. IInv => StaleListHasCause
  BY DEF IInv
<1>. QED
  BY <1>1, Invariance, PTL

-----------------------------------------------------------------------------
(* Seeding *)

\* A start that no change overlapped still holds exactly what the tables lack.
SeedInv ==
    \A s \in Starters : (starter[s].pc = "begun" /\ ~starter[s].overlapped) =>
        /\ starter[s].permissions = SeedPermissions \ permissions
        /\ starter[s].roles = {SeedRole} \ roles
        /\ starter[s].grants = ({SeedRole} \X SeedPermissions) \ grants
        /\ starter[s].members = {<<SeedUser, SeedRole>>} \ members

\* Every change of the tables marks the starts under way.
LEMMA SeedKept ==
    ASSUME TypeOK, SeedInv, [Next]_vars
    PROVE  SeedInv'
<1>1. starter \in [Starters -> StarterStates]
  BY DEF TypeOK
<1>2. CASE starter' = Overlap
  <2>1. ASSUME NEW s \in Starters, starter'[s].pc = "begun" PROVE starter'[s].overlapped
    <3>1. starter[s] \in StarterStates
      BY <1>1
    <3>. QED
      BY <1>1, <1>2, <2>1, <3>1 DEF Overlap, StarterStates
  <2>. QED
    BY <2>1 DEF SeedInv
<1>3. ASSUME NEW t \in Starters, SeedCommit(t) PROVE SeedInv'
  <2>1. ASSUME NEW s \in Starters, starter'[s].pc = "begun" PROVE starter'[s].overlapped
    <3>1. starter[s] \in StarterStates /\ s # t
      BY <1>1, <1>3, <2>1 DEF SeedCommit, Overlap, NoStart
    <3>2. starter'[s] = IF starter[s].pc = "begun" THEN [starter[s] EXCEPT !.overlapped = TRUE]
                        ELSE starter[s]
      BY <1>3, <3>1 DEF SeedCommit, Overlap
    <3>. QED
      BY <2>1, <3>1, <3>2 DEF StarterStates
  <2>. QED
    BY <2>1 DEF SeedInv
<1>4. ASSUME NEW t \in Starters, SeedBegin(t) \/ SeedFails(t) PROVE SeedInv'
  <2>1. UNCHANGED <<roles, permissions, grants, members>>
    BY <1>4 DEF SeedBegin, SeedFails, tables
  <2>2. \A s \in Starters \ {t} : starter'[s] = starter[s]
    BY <1>1, <1>4 DEF SeedBegin, SeedFails
  <2>3. \/ starter'[t] = NoStart
        \/ starter'[t] = [pc |-> "begun", permissions |-> SeedPermissions \ permissions,
              roles |-> {SeedRole} \ roles, users |-> {SeedUser} \ users, grants |-> SeedGrants,
              members |-> {<<SeedUser, SeedRole>>} \ members, overlapped |-> FALSE]
    BY <1>1, <1>4 DEF SeedBegin, SeedFails
  <2>. QED
    BY <2>1, <2>2, <2>3 DEF SeedInv, SeedGrants, NoStart
<1>5. CASE UNCHANGED tables /\ starter' = starter
  BY <1>5 DEF SeedInv, tables
<1>6. \/ starter' = Overlap
      \/ \E t \in Starters : SeedBegin(t) \/ SeedCommit(t) \/ SeedFails(t)
      \/ UNCHANGED tables /\ starter' = starter
  <2>1. ASSUME \E q \in Requests : RequestStep(q)
        PROVE  starter' = Overlap \/ (UNCHANGED tables /\ starter' = starter)
    <3>1. PICK q \in Requests : RequestStep(q)
      BY <2>1
    <3>2. Commit(q) => starter' = Overlap
      BY DEF Commit
    <3>3. ListUsers(q) \/ Answer(q) \/ RequestFails(q) \/ (\E u \in Users : Invalidate(q, u))
          => UNCHANGED tables /\ starter' = starter
      BY DEF ListUsers, Answer, RequestFails, Invalidate
    <3>. QED
      BY <3>1, <3>2, <3>3 DEF RequestStep
  <2>2. ASSUME NEW q, NEW r, NEW a, \/ assign_permission_to_role(q, r, a)
                                    \/ revoke_permission_from_role(q, r, a)
                                    \/ assign_role_to_user(q, r, a)
                                    \/ revoke_role_from_user(q, r, a)
        PROVE  UNCHANGED tables /\ starter' = starter
    BY <2>2 DEF assign_permission_to_role, revoke_permission_from_role, assign_role_to_user,
       revoke_role_from_user, Check
  <2>3. ASSUME NEW g \in Guards,
               GuardStep(g) \/ \E u \in Users : require_permission(g, u) \/ has_admin_access(g, u)
        PROVE  UNCHANGED tables /\ starter' = starter
    BY <2>3 DEF GuardStep, GuardRead, GuardFill, GuardFails, require_permission,
       has_admin_access, GuardMiss
  <2>4. ASSUME \/ \E r \in Roles : CreateRole(r) \/ AdminDeletesRole(r)
               \/ \E p \in Permissions : CreatePermission(p) \/ AdminDeletesPermission(p)
               \/ \E u \in Users : PruneUser(u) \/ \E r \in Roles : AdminEditsMembers(u, r)
               \/ \E r \in Roles, p \in Permissions : AdminEditsGrants(r, p)
        PROVE  starter' = Overlap
    BY <2>4 DEF CreateRole, AdminDeletesRole, CreatePermission, AdminDeletesPermission,
       PruneUser, AdminEditsMembers, AdminEditsGrants, Edit
  <2>5. ASSUME Tick \/ UNCHANGED vars PROVE UNCHANGED tables /\ starter' = starter
    BY <2>5 DEF Tick, vars
  <2>. QED
    BY <2>1, <2>2, <2>3, <2>4, <2>5 DEF Next
<1>. QED
  BY <1>2, <1>3, <1>4, <1>5, <1>6

\* Only a commit takes a start from begun to started.
LEMMA StartsByCommit ==
    ASSUME TypeOK, [Next]_vars, NEW s \in Starters,
           starter[s].pc = "begun", starter'[s].pc = "started"
    PROVE  SeedCommit(s)
<1>1. starter \in [Starters -> StarterStates] /\ starter[s] \in StarterStates
  BY DEF TypeOK
<1>2. starter' # starter
  OBVIOUS
<1>3. starter' # Overlap
  BY <1>1 DEF Overlap, StarterStates
<1>4. ~ \E q \in Requests : RequestStep(q)
  BY <1>2, <1>3 DEF RequestStep, Commit, ListUsers, Answer, RequestFails, Invalidate
<1>5. \E t \in Starters : SeedBegin(t) \/ SeedCommit(t) \/ SeedFails(t)
  BY <1>2, <1>3, <1>4 DEF Next, vars, assign_permission_to_role, revoke_permission_from_role,
     assign_role_to_user, revoke_role_from_user, Check, GuardStep, GuardRead, GuardFill,
     GuardFails, require_permission, has_admin_access, GuardMiss, CreateRole, AdminDeletesRole,
     CreatePermission, AdminDeletesPermission, PruneUser, AdminEditsMembers, AdminEditsGrants,
     Edit, Tick
<1>6. ASSUME NEW t \in Starters, SeedBegin(t) \/ SeedFails(t) PROVE FALSE
  <2>1. t # s => starter'[s] = starter[s]
    BY <1>1, <1>6 DEF SeedBegin, SeedFails
  <2>2. t = s => starter'[s].pc # "started"
    BY <1>1, <1>6 DEF SeedBegin, SeedFails, NoStart
  <2>. QED
    BY <2>1, <2>2
<1>7. ASSUME NEW t \in Starters, SeedCommit(t), t # s PROVE FALSE
  <2>1. starter'[s] = [starter[s] EXCEPT !.overlapped = TRUE]
    BY <1>1, <1>7 DEF SeedCommit, Overlap
  <2>. QED
    BY <1>1, <2>1 DEF StarterStates
<1>. QED
  BY <1>5, <1>6, <1>7

\* Whatever was in the tables before, for any number of processes that start at once: a
\* start whose transaction no change overlapped leaves the superuser every permission.
THEOREM SeedingIsComplete == Spec => SeedIsComplete
<1>1. Init => SeedInv
  BY DEF Init, SeedInv, NoStart
<1>2. TypeOK /\ SeedInv /\ [Next]_vars => SeedInv'
  BY SeedKept
<1>3. TypeOK /\ SeedInv /\ [Next]_vars =>
        [\A s \in Starters :
          (starter[s].pc = "begun" /\ starter'[s].pc = "started" /\ ~starter[s].overlapped)
          => \A p \in SeedPermissions : user_has_permission(SeedUser, p)']_vars
  <2>. SUFFICES ASSUME TypeOK, SeedInv, [Next]_vars, NEW s \in Starters,
                       starter[s].pc = "begun", starter'[s].pc = "started",
                       ~starter[s].overlapped, NEW p \in SeedPermissions
                PROVE  user_has_permission(SeedUser, p)'
    OBVIOUS
  <2>1. SeedCommit(s)
    BY StartsByCommit
  <2>2. p \in permissions' /\ SeedRole \in roles'
    BY <2>1 DEF SeedCommit, SeedInv
  <2>3. <<SeedRole, p>> \in grants' /\ <<SeedUser, SeedRole>> \in members'
    BY <2>1 DEF SeedCommit, SeedInv
  <2>. QED
    BY <2>2, <2>3 DEF user_has_permission
<1>. QED
  BY <1>1, <1>2, <1>3, TypeCorrect, PTL DEF Spec, SeedIsComplete

=============================================================================
