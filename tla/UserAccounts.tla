---------------------------- MODULE UserAccounts ----------------------------
(***************************************************************************)
(* The row of one user in the users table, the requests that write it, and *)
(* the two caches of it: auth:credentials:{email}, filled by login, and    *)
(* profile:{uuid}, filled by GET /auth/profile.  A write invalidates both  *)
(* through the UserUpdatedEvent it publishes after its commit.             *)
(*                                                                         *)
(* An email address may be registered again after its user was pruned, so  *)
(* the row carries the identity of the user it belongs to.  A user is its  *)
(* status and whether deleted_at is set; the other columns behave alike.   *)
(***************************************************************************)
EXTENDS Naturals, FiniteSets

CONSTANTS
    Writers,   \* requests that change the row, each handled once
    Readers,   \* clients that log in and fetch the profile, again and again
    Targets,   \* statuses asked for by PATCH /users/{uuid}/status
    TTL,       \* CACHE_TTL, in ticks
    MaxUsers,  \* bound: identities the email address ever has
    MaxEdits   \* bound: edits in the admin panel

ASSUME AccountConstants ==
    /\ Targets \subseteq {"pending", "active", "suspended"}
    /\ TTL \in Nat \ {0} /\ MaxUsers \in Nat \ {0} /\ MaxEdits \in Nat

VARIABLES
    row,       \* the table's row; id 0 when the table has none
    created,   \* identities handed out
    creds,     \* the cached credentials
    profile,   \* the cached profile of each identity
    wr,        \* the writing requests
    rd,        \* the reading requests
    edits      \* admin edits made

vars == <<row, created, creds, profile, wr, rd, edits>>

Status == {"pending", "active", "inactive", "suspended"}
Ids == 1..MaxUsers
Absent == [id |-> 0, status |-> "pending", deleted |-> FALSE]
Rows == [id : Ids, status : Status, deleted : BOOLEAN] \cup {Absent}

\* dirty (history): a write overlapped the request that cached the entry, or changed the
\* row without an invalidation since.
NoEntry == [id |-> 0, status |-> "pending", left |-> 0, dirty |-> FALSE]
Entries == [id : Ids, status : Status, left : 1..TTL, dirty : BOOLEAN] \cup {NoEntry}

NoOp == [name |-> "none", to |-> "pending"]
Op(name) == [name |-> name, to |-> "pending"]
StatusOp(s) == [name |-> "update_status", to |-> s]
Ops == {StatusOp(s) : s \in Targets} \cup {Op(n) : n \in {"delete", "restore", "activate", "prune"}}
Fresh == [op |-> NoOp, pc |-> "idle", ent |-> Absent, base |-> Absent, overlapped |-> FALSE]

\* What each use case makes of the user it has read: the entities it may go on to save,
\* none when it raises.
UpdateStatus(u, s) == {[u EXCEPT !.status = s]}
SoftDelete(u) == {[u EXCEPT !.status = "inactive", !.deleted = TRUE]}
Restore(u) == IF u.deleted THEN {[u EXCEPT !.status = "pending", !.deleted = FALSE]} ELSE {}
Verify(u) == IF u.status = "pending" THEN {[u EXCEPT !.status = "active"]} ELSE {}

Outcomes(op, u) ==
    IF u.id = 0 THEN {}
    ELSE CASE op.name = "update_status" -> UpdateStatus(u, op.to)
           [] op.name = "delete"        -> SoftDelete(u)
           [] op.name = "restore"       -> Restore(u)
           [] op.name = "activate"      -> Verify(u)
           [] op.name = "prune"         -> {Absent}

\* Mutant: the mapper leaves deleted_at out.
MergedStatusOnly(ent, base) ==
    [row EXCEPT !.status = IF ent.status # base.status THEN ent.status ELSE row.status]

\* session.merge and flush: a column is written when the entity differs from the row that
\* merge loaded.
Merged(ent, base) ==
    [id |-> row.id,
     status |-> IF ent.status # base.status THEN ent.status ELSE row.status,
     deleted |-> IF ent.deleted # base.deleted THEN ent.deleted ELSE row.deleted]

InFlight(r) == rd[r].pc # "idle"
Working(w) == wr[w].pc \in {"read", "loaded", "committed", "profile_gone"}

\* A change of row or of the caches by a write taints the readers it overlaps.
Taint == rd' = [r \in Readers |-> IF InFlight(r) THEN [rd[r] EXCEPT !.dirty = TRUE] ELSE rd[r]]

\* A change no invalidation will follow taints the cached entries as well.
Dirty(e) == IF e.left = 0 THEN e ELSE [e EXCEPT !.dirty = TRUE]
TaintCaches == creds' = Dirty(creds) /\ profile' = [i \in Ids |-> Dirty(profile[i])]

\* Writer w moves to pc, or ends; with a commit the other writers at work are overlapped.
Step(w, pc) == wr' = [wr EXCEPT ![w].pc = pc]
Done(w) == wr' = [wr EXCEPT ![w] = [Fresh EXCEPT !.pc = "done"]]
Commit(w, pc) == wr' = [v \in Writers |->
    IF v = w THEN [wr[v] EXCEPT !.pc = pc]
    ELSE IF Working(v) THEN [wr[v] EXCEPT !.overlapped = TRUE] ELSE wr[v]]

Init ==
    /\ row = [id |-> 1, status |-> "pending", deleted |-> FALSE]
    /\ created = 1
    /\ creds = NoEntry
    /\ profile = [i \in Ids |-> NoEntry]
    /\ wr = [w \in Writers |-> Fresh]
    /\ rd = [r \in Readers |-> [kind |-> "login", pc |-> "idle", id |-> 0, status |-> "pending",
                                dirty |-> FALSE]]
    /\ edits = 0

------------------------------------------------------------------------------
(* Writes *)

\* The use case reads the user by uuid and changes the entity, or raises.
ReadUser(w, op) ==
    /\ wr[w].pc = "idle"
    /\ IF Outcomes(op, row) = {} THEN Done(w)
       ELSE wr' = [wr EXCEPT ![w].op = op, ![w].pc = "read", ![w].ent = row]
    /\ UNCHANGED <<row, created, creds, profile, rd, edits>>

\* The endpoints.  Activation validates a code between its read and its merge, which
\* takes time and changes nothing here (module Otp).
update_status(w) == \E s \in Targets : ReadUser(w, StatusOp(s))
delete_user(w) == ReadUser(w, Op("delete"))
prune_user(w) == ReadUser(w, Op("prune"))
restore_user(w) == ReadUser(w, Op("restore"))
activate_account(w) == ReadUser(w, Op("activate"))

\* merge: the session kept no reference to the row read before, so it is selected again.
LoadForMerge(w) ==
    /\ wr[w].pc = "read" /\ wr[w].op.name # "prune"
    /\ wr' = [wr EXCEPT ![w].pc = "loaded",
                        ![w].base = IF row.id = wr[w].ent.id THEN row ELSE Absent]
    /\ UNCHANGED <<row, created, creds, profile, rd, edits>>

\* flush and commit: an UPDATE of the changed columns, or, when merge found no row, an
\* INSERT of the whole entity.
CommitUpdate(w) ==
    /\ wr[w].pc = "loaded"
    /\ \E ent \in Outcomes(wr[w].op, wr[w].ent) :
       \/ wr[w].base.id # 0 /\ row.id = ent.id /\ row' = Merged(ent, wr[w].base)
       \/ wr[w].base.id = 0 /\ row.id = 0 /\ row' = ent
    /\ Commit(w, "committed") /\ Taint
    /\ UNCHANGED <<created, creds, profile, edits>>

\* The UPDATE matched no row (StaleDataError), or the email is taken (IntegrityError).
CommitRefused(w) ==
    /\ wr[w].pc = "loaded"
    /\ IF wr[w].base.id # 0 THEN row.id # wr[w].ent.id ELSE row.id # 0
    /\ Done(w)
    /\ UNCHANGED <<row, created, creds, profile, rd, edits>>

\* DELETE by uuid and commit: the answer does not depend on the rows it matched.
CommitPrune(w) ==
    /\ wr[w].pc = "read" /\ wr[w].op.name = "prune"
    /\ row' = IF row.id = wr[w].ent.id THEN Absent ELSE row
    /\ Commit(w, "committed") /\ Taint
    /\ UNCHANGED <<created, creds, profile, edits>>

\* The invalidation handler, run by publish after the event reached NATS.
InvalidateProfile(w) ==
    /\ wr[w].pc = "committed"
    /\ profile' = [profile EXCEPT ![wr[w].ent.id] = NoEntry]
    /\ Step(w, "profile_gone") /\ Taint
    /\ UNCHANGED <<row, created, creds, edits>>

\* Mutant: the handler deletes the profile only.
InvalidateCredentialsSkips(w) ==
    /\ wr[w].pc = "profile_gone"
    /\ Done(w) /\ Taint
    /\ UNCHANGED <<row, created, creds, profile, edits>>

InvalidateCredentials(w) ==
    /\ wr[w].pc = "profile_gone"
    /\ creds' = NoEntry
    /\ Done(w) /\ Taint
    /\ UNCHANGED <<row, created, profile, edits>>

\* The request raises or dies.  After the commit (NATS refuses the event, Redis a delete)
\* what is cached stays.
WriterFails(w) ==
    /\ Working(w)
    /\ Done(w)
    /\ IF wr[w].pc \in {"committed", "profile_gone"}
         THEN TaintCaches /\ Taint
         ELSE UNCHANGED <<creds, profile, rd>>
    /\ UNCHANGED <<row, created, edits>>

\* POST /users/register, when the email is free.  Of two registrations the unique index
\* lets one commit; UserRegisteredEvent invalidates nothing.
RegisterUser(w) ==
    /\ wr[w].pc = "idle"
    /\ row.id = 0 /\ created < MaxUsers
    /\ row' = [Absent EXCEPT !.id = created + 1]
    /\ created' = created + 1
    /\ wr' = [v \in Writers |->
                IF v = w THEN [Fresh EXCEPT !.pc = "done"]
                ELSE IF Working(v) THEN [wr[v] EXCEPT !.overlapped = TRUE] ELSE wr[v]]
    /\ TaintCaches /\ Taint
    /\ UNCHANGED edits

\* The admin panel writes the row in a session of its own and publishes nothing.
AdminEdit(s) ==
    /\ row.id # 0 /\ edits < MaxEdits
    /\ row' = [row EXCEPT !.status = s]
    /\ edits' = edits + 1
    /\ wr' = [w \in Writers |-> IF Working(w) THEN [wr[w] EXCEPT !.overlapped = TRUE] ELSE wr[w]]
    /\ TaintCaches /\ Taint
    /\ UNCHANGED created

------------------------------------------------------------------------------
(* Reads that fill the caches *)

\* login: the credentials come from the cache when it has them.
LoginHit(r) ==
    /\ rd[r].pc = "idle" /\ creds.left > 0
    /\ rd' = [rd EXCEPT ![r] = [kind |-> "login", pc |-> "fetched", id |-> creds.id,
                                status |-> creds.status, dirty |-> creds.dirty]]
    /\ UNCHANGED <<row, created, creds, profile, wr, edits>>

LoginMiss(r) ==
    /\ rd[r].pc = "idle" /\ creds.left = 0
    /\ rd' = [rd EXCEPT ![r] = [kind |-> "login", pc |-> "missed", id |-> 0,
                                status |-> "pending", dirty |-> FALSE]]
    /\ UNCHANGED <<row, created, creds, profile, wr, edits>>

\* profile: the client's token names the user; a hit is answered and changes nothing.
ProfileMiss(r, i) ==
    /\ rd[r].pc = "idle" /\ profile[i].left = 0 /\ i <= created
    /\ rd' = [rd EXCEPT ![r] = [kind |-> "profile", pc |-> "missed", id |-> i,
                                status |-> "pending", dirty |-> FALSE]]
    /\ UNCHANGED <<row, created, creds, profile, wr, edits>>

Idle(r) == [rd[r] EXCEPT !.pc = "idle", !.id = 0, !.status = "pending", !.dirty = FALSE]

\* get_by_email or get_by_uuid; a user that is not there ends the request.
FetchRow(r) ==
    /\ rd[r].pc = "missed"
    /\ rd' = [rd EXCEPT ![r] =
         IF row.id # 0 /\ (rd[r].kind = "login" \/ row.id = rd[r].id)
         THEN [@ EXCEPT !.pc = "fetched", !.id = row.id, !.status = row.status]
         ELSE Idle(r)]
    /\ UNCHANGED <<row, created, creds, profile, wr, edits>>

Entry(r) == [id |-> rd[r].id, status |-> rd[r].status, left |-> TTL, dirty |-> rd[r].dirty]

\* login refuses the suspended and the inactive; a login that succeeds caches what it
\* used, even when that came out of the cache.
LoginEnds(r) ==
    /\ rd[r].pc = "fetched" /\ rd[r].kind = "login"
    /\ creds' = IF rd[r].status \in {"suspended", "inactive"} THEN creds ELSE Entry(r)
    /\ rd' = [rd EXCEPT ![r] = Idle(r)]
    /\ UNCHANGED <<row, created, profile, wr, edits>>

ProfileEnds(r) ==
    /\ rd[r].pc = "fetched" /\ rd[r].kind = "profile"
    /\ profile' = [profile EXCEPT ![rd[r].id] = Entry(r)]
    /\ rd' = [rd EXCEPT ![r] = Idle(r)]
    /\ UNCHANGED <<row, created, creds, wr, edits>>

\* A wrong password, a stage that raises, the death of the process.
ReaderFails(r) ==
    /\ InFlight(r)
    /\ rd' = [rd EXCEPT ![r] = Idle(r)]
    /\ UNCHANGED <<row, created, creds, profile, wr, edits>>

\* Mutant: the entries are set without a TTL.
AgedNever(e) == e

Aged(e) == IF e.left <= 1 THEN NoEntry ELSE [e EXCEPT !.left = @ - 1]

\* Redis expires the entries.
Tick ==
    /\ creds' = Aged(creds)
    /\ profile' = [i \in Ids |-> Aged(profile[i])]
    /\ UNCHANGED <<row, created, wr, rd, edits>>

WriterStep(w) == \/ LoadForMerge(w) \/ CommitUpdate(w) \/ CommitRefused(w) \/ CommitPrune(w)
                 \/ InvalidateProfile(w) \/ InvalidateCredentials(w) \/ WriterFails(w)
ReaderStep(r) == FetchRow(r) \/ LoginEnds(r) \/ ProfileEnds(r) \/ ReaderFails(r)

Next ==
    \/ \E w \in Writers : \/ update_status(w) \/ delete_user(w) \/ prune_user(w)
                          \/ restore_user(w) \/ activate_account(w)
                          \/ RegisterUser(w)
                          \/ WriterStep(w)
    \/ \E s \in Status : AdminEdit(s)
    \/ \E r \in Readers : \/ LoginHit(r) \/ LoginMiss(r)
                          \/ \E i \in Ids : ProfileMiss(r, i)
                          \/ ReaderStep(r)
    \/ Tick

Spec == Init /\ [][Next]_vars

\* A request that has begun ends, and time passes.
Fairness == /\ \A w \in Writers : WF_vars(WriterStep(w))
            /\ \A r \in Readers : WF_vars(ReaderStep(r))
            /\ WF_vars(Tick)

FairSpec == Spec /\ Fairness

------------------------------------------------------------------------------
WriterStates == [op : Ops \cup {NoOp},
                 pc : {"idle", "read", "loaded", "committed", "profile_gone", "done"},
                 ent : Rows, base : Rows, overlapped : BOOLEAN]
ReaderStates == [kind : {"login", "profile"}, pc : {"idle", "missed", "fetched"},
                 id : 0..MaxUsers, status : Status, dirty : BOOLEAN]

TypeOK ==
    /\ row \in Rows
    /\ created \in Ids
    /\ creds \in Entries
    /\ profile \in [Ids -> Entries]
    /\ wr \in [Writers -> WriterStates]
    /\ rd \in [Readers -> ReaderStates]
    /\ edits \in 0..MaxEdits

Stale(e) == e.left > 0 /\ (e.id # row.id \/ e.status # row.status)
Pending(pcs) == \E w \in Writers : wr[w].pc \in pcs

\* A cached entry that differs from the row has a cause: a write that committed and has
\* still to invalidate it, a reader that a write overlapped between its read and its
\* cache.set, or a change whose event was never handled (failed publish, admin edit,
\* registration).  Logins and profile reads that no write overlaps never leave one.
StaleEntryHasCause ==
    /\ Stale(creds) => creds.dirty \/ Pending({"committed", "profile_gone"})
    /\ \A i \in Ids : Stale(profile[i]) => profile[i].dirty \/ Pending({"committed"})

\* A write that no other write overlaps has the effect its entity method describes on the
\* row as it is, although it commits a snapshot through merge.
SerialWithoutOverlap ==
    [][\A w \in Writers :
          (wr[w].pc # "committed" /\ wr'[w].pc = "committed" /\ ~wr[w].overlapped)
          => row' \in Outcomes(wr[w].op, row)]_vars

\* A stale profile does not outlive the writes: once they stop, every cached profile comes
\* to agree with the row, because only the table fills that cache and entries expire.
ProfileConverges == \A i \in Ids : <>[](~Stale(profile[i]))
=============================================================================
