------------------------- MODULE UserAccountsProofs -------------------------
(***************************************************************************)
(* Proofs about users and what belongs to them.  First UserAccounts, for   *)
(* any writing and reading requests, any number of identities, edits and   *)
(* ticks of a cache entry; then Fleet, for any users, plates, requests,    *)
(* walks and page size.  The two specifications share no variable.         *)
(***************************************************************************)
EXTENDS UserAccounts, Fleet, FiniteSetTheorems, TLAPS

\* A writer at work has read a user; as long as no write overlaps it, the row is what it
\* read, and what its merge loaded.
WriterOk(w) ==
    /\ Working(w) => wr[w].op \in Ops /\ wr[w].ent.id \in Ids
    /\ wr[w].pc = "loaded" => wr[w].op.name # "prune"
    /\ (wr[w].pc \in {"read", "loaded"} /\ ~wr[w].overlapped) => row = wr[w].ent
    /\ (wr[w].pc = "loaded" /\ ~wr[w].overlapped) => row = wr[w].base

WriterInv == \A w \in Writers : WriterOk(w)

\* Writers that have committed and still owe the deletion of the credentials, or of profile i.
CredsOwed == Pending({"committed", "profile_gone"})
ProfileOwed(i) == \E w \in Writers : wr[w].pc = "committed" /\ wr[w].ent.id = i

Differs(x) == x.id # row.id \/ x.status # row.status

\* What a request has fetched, and no write overlapped, is the row, or a copy of it that a
\* writer still has to delete.
ReaderInv ==
    \A r \in Readers : rd[r].pc = "fetched" =>
        /\ rd[r].id \in Ids
        /\ (rd[r].kind = "login" /\ Differs(rd[r])) => rd[r].dirty \/ CredsOwed
        /\ (rd[r].kind = "profile" /\ Differs(rd[r])) => rd[r].dirty

\* A profile is cached under its own identity, so it is owed by a writer of that identity.
CacheInv ==
    /\ Stale(creds) => creds.dirty \/ CredsOwed
    /\ \A i \in Ids : /\ profile[i].left > 0 => profile[i].id = i
                      /\ Stale(profile[i]) => profile[i].dirty \/ ProfileOwed(i)

IInv == TypeOK /\ WriterInv /\ ReaderInv /\ CacheInv

-----------------------------------------------------------------------------
(* Entities and entries *)

\* A use case keeps the identity of the user it changes; prune alone leaves nothing.
LEMMA OutcomeTyped ==
    ASSUME NEW op \in Ops, NEW u \in Rows, NEW e \in Outcomes(op, u)
    PROVE  /\ u.id \in Ids /\ e \in Rows
           /\ op.name # "prune" => e.id = u.id
           /\ op.name = "prune" => e = Absent
<1>1. u.id # 0 /\ u \in [id : Ids, status : Status, deleted : BOOLEAN]
  BY DEF Outcomes, Rows, Absent
<1>2. CASE op.name = "update_status"
  <2>1. op.to \in Status
    BY AccountConstants DEF Ops, StatusOp, Op, Status
  <2>2. e = [u EXCEPT !.status = op.to]
    BY <1>1, <1>2 DEF Outcomes, UpdateStatus
  <2>. QED
    BY <1>1, <1>2, <2>1, <2>2 DEF Rows
<1>3. CASE op.name = "delete"
  <2>1. e = [u EXCEPT !.status = "inactive", !.deleted = TRUE]
    BY <1>1, <1>3 DEF Outcomes, SoftDelete
  <2>. QED
    BY <1>1, <1>3, <2>1 DEF Rows, Status
<1>4. CASE op.name = "restore"
  <2>1. e = [u EXCEPT !.status = "pending", !.deleted = FALSE]
    BY <1>1, <1>4 DEF Outcomes, Restore
  <2>. QED
    BY <1>1, <1>4, <2>1 DEF Rows, Status
<1>5. CASE op.name = "activate"
  <2>1. e = [u EXCEPT !.status = "active"]
    BY <1>1, <1>5 DEF Outcomes, Verify
  <2>. QED
    BY <1>1, <1>5, <2>1 DEF Rows, Status
<1>6. CASE op.name = "prune"
  BY <1>1, <1>6 DEF Outcomes, Rows
<1>. QED
  BY <1>2, <1>3, <1>4, <1>5, <1>6 DEF Ops, StatusOp, Op

\* What a merge writes is a row.
LEMMA MergedTyped ==
    ASSUME row \in Rows, row.id # 0, NEW e \in Rows, NEW base \in Rows
    PROVE  Merged(e, base) \in Rows /\ Merged(e, base).id = row.id
<1>1. ASSUME NEW x \in Rows PROVE x.status \in Status /\ x.deleted \in BOOLEAN
  <2>1. CASE x = Absent
    BY <2>1 DEF Absent, Status
  <2>2. CASE x \in [id : Ids, status : Status, deleted : BOOLEAN]
    BY <2>2
  <2>. QED
    BY <2>1, <2>2 DEF Rows
<1>2. row.id \in Ids
  BY DEF Rows, Absent
<1>3. Merged(e, base) \in [id : Ids, status : Status, deleted : BOOLEAN]
  BY <1>1, <1>2 DEF Merged
<1>. QED
  BY <1>3 DEF Merged, Rows

\* Entries stay entries when they are marked and when they grow older; neither changes what
\* they say.
LEMMA EntryKept ==
    ASSUME NEW e \in Entries
    PROVE  /\ Dirty(e) \in Entries /\ Aged(e) \in Entries
           /\ Dirty(e).left > 0 => Dirty(e).dirty /\ e.left > 0 /\ Dirty(e).id = e.id
           /\ Aged(e).left > 0 => /\ e.left > 0 /\ Aged(e).id = e.id
                                  /\ Aged(e).status = e.status /\ Aged(e).dirty = e.dirty
<1>1. CASE e = NoEntry
  BY <1>1 DEF NoEntry, Entries, Dirty, Aged
<1>2. CASE e \in [id : Ids, status : Status, left : 1..TTL, dirty : BOOLEAN]
  <2>1. e.id \in Ids /\ e.status \in Status /\ e.left \in 1..TTL /\ e.dirty \in BOOLEAN
    BY <1>2
  <2>2. Dirty(e) = [e EXCEPT !.dirty = TRUE]
    BY <2>1, AccountConstants DEF Dirty
  <2>3. CASE e.left <= 1
    <3>1. Aged(e) = NoEntry /\ NoEntry.left = 0
      BY <2>3 DEF Aged, NoEntry
    <3>2. NoEntry \in Entries /\ Dirty(e) \in Entries
      BY <1>2, <2>2 DEF Entries
    <3>. QED
      BY <1>2, <2>1, <2>2, <3>1, <3>2
  <2>4. CASE e.left > 1
    <3>1. e.left - 1 \in 1..TTL
      BY <2>1, <2>4, AccountConstants
    <3>2. Aged(e) = [e EXCEPT !.left = e.left - 1]
      BY <2>1, <2>4, AccountConstants DEF Aged
    <3>3. Aged(e) \in Entries
      BY <1>2, <3>1, <3>2 DEF Entries
    <3>4. Dirty(e) \in Entries
      BY <1>2, <2>2 DEF Entries
    <3>. QED
      BY <1>2, <2>1, <2>2, <3>2, <3>3, <3>4
  <2>. QED
    BY <2>1, <2>3, <2>4, AccountConstants
<1>. QED
  BY <1>1, <1>2 DEF Entries

-----------------------------------------------------------------------------
(* What the parts of an action do *)

\* A reader that is tainted keeps what it has; one in flight is dirty from then on.
LEMMA TaintEffect ==
    ASSUME TypeOK, Taint
    PROVE  /\ rd' \in [Readers -> ReaderStates]
           /\ \A r \in Readers : /\ rd'[r].pc = rd[r].pc /\ rd'[r].id = rd[r].id
                                 /\ rd'[r].pc = "fetched" => rd'[r].dirty
<1>1. \A r \in Readers : rd[r] \in ReaderStates
  BY DEF TypeOK
<1>2. ASSUME NEW r \in Readers PROVE rd'[r] = IF InFlight(r) THEN [rd[r] EXCEPT !.dirty = TRUE] ELSE rd[r]
  BY DEF Taint
<1>3. ASSUME NEW r \in Readers
      PROVE  /\ rd'[r] \in ReaderStates
             /\ rd'[r].pc = rd[r].pc /\ rd'[r].id = rd[r].id
             /\ rd'[r].pc = "fetched" => rd'[r].dirty
  BY <1>1, <1>2 DEF InFlight, ReaderStates
<1>. QED
  BY <1>3 DEF Taint

\* Entries that no invalidation will delete are dirty.
LEMMA TaintCachesEffect ==
    ASSUME TypeOK, TaintCaches
    PROVE  /\ creds' \in Entries /\ profile' \in [Ids -> Entries]
           /\ creds'.left > 0 => creds'.dirty
           /\ \A i \in Ids : profile'[i].left > 0 =>
                  profile'[i].dirty /\ profile[i].left > 0 /\ profile'[i].id = profile[i].id
<1>1. creds' = Dirty(creds) /\ creds \in Entries
  BY DEF TaintCaches, TypeOK
<1>2. creds' \in Entries /\ (creds'.left > 0 => creds'.dirty)
  BY <1>1, EntryKept
<1>3. ASSUME NEW i \in Ids
      PROVE  /\ profile'[i] \in Entries
             /\ profile'[i].left > 0 =>
                  profile'[i].dirty /\ profile[i].left > 0 /\ profile'[i].id = profile[i].id
  <2>1. profile'[i] = Dirty(profile[i]) /\ profile[i] \in Entries
    BY DEF TaintCaches, TypeOK
  <2>. QED
    BY <2>1, EntryKept
<1>4. profile' \in [Ids -> Entries]
  BY <1>3 DEF TaintCaches
<1>. QED
  BY <1>2, <1>3, <1>4

\* The commit of w leaves every other writer as it is, overlapped if it is at work.
Overlaps(w) ==
    \A v \in Writers \ {w} :
        /\ wr'[v].pc = wr[v].pc /\ wr'[v].op = wr[v].op
        /\ wr'[v].ent = wr[v].ent /\ wr'[v].base = wr[v].base
        /\ Working(v) => wr'[v].overlapped

LEMMA CommitEffect ==
    ASSUME TypeOK, NEW w \in Writers, Commit(w, "committed")
    PROVE  /\ wr' \in [Writers -> WriterStates]
           /\ wr'[w] = [wr[w] EXCEPT !.pc = "committed"]
           /\ wr'[w].pc = "committed" /\ wr'[w].op = wr[w].op /\ wr'[w].ent = wr[w].ent
           /\ Overlaps(w)
<1>1. \A v \in Writers : wr[v] \in WriterStates
  BY DEF TypeOK
<1>2. wr'[w] = [wr[w] EXCEPT !.pc = "committed"]
  BY DEF Commit
<1>3. ASSUME NEW v \in Writers \ {w}
      PROVE  wr'[v] = IF Working(v) THEN [wr[v] EXCEPT !.overlapped = TRUE] ELSE wr[v]
  BY DEF Commit
<1>4. \A v \in Writers : wr'[v] \in WriterStates
  <2>1. wr'[w] \in WriterStates
    BY <1>1, <1>2 DEF WriterStates
  <2>2. ASSUME NEW v \in Writers \ {w} PROVE wr'[v] \in WriterStates
    BY <1>1, <1>3 DEF WriterStates
  <2>. QED
    BY <2>1, <2>2
<1>5. wr' \in [Writers -> WriterStates]
  BY <1>4 DEF Commit
<1>6. Overlaps(w)
  BY <1>1, <1>3 DEF Overlaps, WriterStates
<1>7. wr'[w].pc = "committed" /\ wr'[w].op = wr[w].op /\ wr'[w].ent = wr[w].ent
  BY <1>1, <1>2 DEF WriterStates
<1>. QED
  BY <1>2, <1>5, <1>6, <1>7

\* A writer that ends, or takes a step of its own, changes no other.
LEMMA WriterEffect ==
    ASSUME TypeOK, NEW w \in Writers
    PROVE  /\ Done(w) => /\ wr' \in [Writers -> WriterStates] /\ wr'[w].pc = "done"
                         /\ \A v \in Writers \ {w} : wr'[v] = wr[v]
           /\ Step(w, "profile_gone") =>
                 /\ wr' \in [Writers -> WriterStates]
                 /\ wr'[w] = [wr[w] EXCEPT !.pc = "profile_gone"]
                 /\ \A v \in Writers \ {w} : wr'[v] = wr[v]
<1>1. wr[w] \in WriterStates /\ wr \in [Writers -> WriterStates]
  BY DEF TypeOK
<1>2. [Fresh EXCEPT !.pc = "done"] \in WriterStates /\ [Fresh EXCEPT !.pc = "done"].pc = "done"
  BY DEF Fresh, WriterStates, Rows
<1>3. [wr[w] EXCEPT !.pc = "profile_gone"] \in WriterStates
  BY <1>1 DEF WriterStates
<1>4. ASSUME Done(w)
      PROVE  /\ wr' \in [Writers -> WriterStates] /\ wr'[w].pc = "done"
             /\ \A v \in Writers \ {w} : wr'[v] = wr[v]
  BY <1>1, <1>2, <1>4 DEF Done
<1>5. ASSUME Step(w, "profile_gone")
      PROVE  /\ wr' \in [Writers -> WriterStates]
             /\ wr'[w] = [wr[w] EXCEPT !.pc = "profile_gone"]
             /\ \A v \in Writers \ {w} : wr'[v] = wr[v]
  <2>1. wr' = [wr EXCEPT ![w] = [wr[w] EXCEPT !.pc = "profile_gone"]]
    BY <1>5 DEF Step
  <2>. QED
    BY <1>1, <1>3, <2>1
<1>. QED
  BY <1>4, <1>5

-----------------------------------------------------------------------------
(* Types *)

\* What a merge, an insert or a deletion leaves is a row.
LEMMA CommittedRow ==
    ASSUME IInv, NEW w \in Writers, CommitUpdate(w)
    PROVE  \E ent \in Outcomes(wr[w].op, wr[w].ent) :
               /\ ent \in Rows /\ ent.id = wr[w].ent.id /\ row' \in Rows
               /\ \/ row.id = ent.id /\ row' = Merged(ent, wr[w].base) /\ row'.id = row.id
                  \/ wr[w].base.id = 0 /\ row.id = 0 /\ row' = ent
<1>1. wr[w] \in WriterStates /\ row \in Rows
  BY DEF IInv, TypeOK
<1>2. wr[w].op \in Ops /\ wr[w].op.name # "prune" /\ wr[w].ent.id \in Ids
  BY DEF IInv, WriterInv, WriterOk, CommitUpdate, Working
<1>3. PICK ent \in Outcomes(wr[w].op, wr[w].ent) :
         \/ wr[w].base.id # 0 /\ row.id = ent.id /\ row' = Merged(ent, wr[w].base)
         \/ wr[w].base.id = 0 /\ row.id = 0 /\ row' = ent
  BY DEF CommitUpdate
<1>4. wr[w].ent \in Rows /\ wr[w].base \in Rows
  BY <1>1 DEF WriterStates
<1>5. ent \in Rows /\ ent.id = wr[w].ent.id
  BY <1>2, <1>4, OutcomeTyped
<1>6. row.id = ent.id => Merged(ent, wr[w].base) \in Rows /\ Merged(ent, wr[w].base).id = row.id
  BY <1>1, <1>2, <1>4, <1>5, MergedTyped DEF Ids
<1>. QED
  BY <1>3, <1>5, <1>6

\* A request that reads the user goes to work on the row as it is, or ends.
LEMMA ReadUserEffect ==
    ASSUME TypeOK, NEW w \in Writers, NEW op \in Ops, ReadUser(w, op)
    PROVE  /\ wr' \in [Writers -> WriterStates]
           /\ \A v \in Writers \ {w} : wr'[v] = wr[v]
           /\ \/ wr'[w].pc = "done"
              \/ wr'[w].pc = "read" /\ wr'[w].op = op /\ wr'[w].ent = row /\ row.id \in Ids
<1>1. wr[w] \in WriterStates /\ wr \in [Writers -> WriterStates] /\ row \in Rows
  BY DEF TypeOK
<1>2. CASE Outcomes(op, row) = {}
  BY <1>2, WriterEffect DEF ReadUser
<1>3. CASE Outcomes(op, row) # {}
  <2>. DEFINE x == [wr[w] EXCEPT !.op = op, !.pc = "read", !.ent = row]
  <2>1. wr' = [wr EXCEPT ![w] = x]
    BY <1>3 DEF ReadUser
  <2>2. x \in WriterStates /\ x.pc = "read" /\ x.op = op /\ x.ent = row
    BY <1>1 DEF WriterStates
  <2>3. row.id \in Ids
    BY <1>1, <1>3, OutcomeTyped
  <2>. HIDE DEF x
  <2>. QED
    BY <1>1, <2>1, <2>2, <2>3
<1>. QED
  BY <1>2, <1>3

\* The five endpoints are requests that read the user.
LEMMA Endpoints ==
    ASSUME NEW w \in Writers,
           \/ update_status(w) \/ delete_user(w) \/ prune_user(w) \/ restore_user(w) \/ activate_account(w)
    PROVE  \E op \in Ops : ReadUser(w, op)
  BY DEF update_status, delete_user, prune_user, restore_user, activate_account, Ops

\* merge loads the row that has the identity of the entity, or none.
LEMMA LoadEffect ==
    ASSUME TypeOK, NEW w \in Writers, LoadForMerge(w)
    PROVE  /\ wr' \in [Writers -> WriterStates]
           /\ \A v \in Writers \ {w} : wr'[v] = wr[v]
           /\ wr'[w].pc = "loaded" /\ wr'[w].op = wr[w].op /\ wr'[w].ent = wr[w].ent
           /\ wr'[w].overlapped = wr[w].overlapped
           /\ row = wr[w].ent => wr'[w].base = row
<1>1. wr[w] \in WriterStates /\ wr \in [Writers -> WriterStates] /\ row \in Rows
  BY DEF TypeOK
<1>. DEFINE b == IF row.id = wr[w].ent.id THEN row ELSE Absent
            x == [wr[w] EXCEPT !.pc = "loaded", !.base = b]
<1>2. wr' = [wr EXCEPT ![w] = x]
  BY DEF LoadForMerge
<1>3. b \in Rows /\ (row = wr[w].ent => b = row)
  BY <1>1 DEF Rows
<1>. HIDE DEF b
<1>4. /\ x \in WriterStates /\ x.pc = "loaded" /\ x.op = wr[w].op /\ x.ent = wr[w].ent
      /\ x.overlapped = wr[w].overlapped /\ x.base = b
  BY <1>1, <1>3 DEF WriterStates
<1>. HIDE DEF x
<1>. QED
  BY <1>1, <1>2, <1>3, <1>4

\* What a step of reader r leaves in its record.
LEMMA ReaderEffect ==
    ASSUME TypeOK, NEW r \in Readers,
           \/ LoginHit(r) \/ LoginMiss(r) \/ (\E i \in Ids : ProfileMiss(r, i)) \/ ReaderStep(r)
    PROVE  /\ rd' \in [Readers -> ReaderStates]
           /\ \A s \in Readers \ {r} : rd'[s] = rd[s]
           /\ UNCHANGED <<row, created, wr, edits>>
           /\ \/ rd'[r].pc # "fetched"
              \/ LoginHit(r) /\ rd'[r].kind = "login" /\ rd'[r].id \in Ids /\ creds.left > 0
                 /\ rd'[r].id = creds.id /\ rd'[r].status = creds.status /\ rd'[r].dirty = creds.dirty
              \/ FetchRow(r) /\ rd'[r].id \in Ids /\ rd'[r].id = row.id /\ rd'[r].status = row.status
<1>. DEFINE Goal(x) ==
         /\ x \in ReaderStates
         /\ \/ x.pc # "fetched"
            \/ LoginHit(r) /\ x.kind = "login" /\ x.id \in Ids /\ creds.left > 0
               /\ x.id = creds.id /\ x.status = creds.status /\ x.dirty = creds.dirty
            \/ FetchRow(r) /\ x.id \in Ids /\ x.id = row.id /\ x.status = row.status
<1>1. rd[r] \in ReaderStates /\ rd \in [Readers -> ReaderStates] /\ row \in Rows /\ creds \in Entries
  BY DEF TypeOK
<1>2. Idle(r) \in ReaderStates /\ Idle(r).pc = "idle"
  <2>1. 0 \in 0..MaxUsers /\ "pending" \in Status
    BY AccountConstants DEF Status
  <2>. QED
    BY <1>1, <2>1 DEF Idle, ReaderStates
<1>3. SUFFICES \E x : /\ rd' = [rd EXCEPT ![r] = x] /\ Goal(x)
                      /\ UNCHANGED <<row, created, wr, edits>>
  <2>1. PICK x : rd' = [rd EXCEPT ![r] = x] /\ Goal(x) /\ UNCHANGED <<row, created, wr, edits>>
    BY <1>3
  <2>2. rd' \in [Readers -> ReaderStates] /\ rd'[r] = x /\ \A s \in Readers \ {r} : rd'[s] = rd[s]
    BY <1>1, <2>1
  <2>. QED
    BY <2>1, <2>2
<1>4. CASE LoginHit(r)
  <2>. DEFINE x == [kind |-> "login", pc |-> "fetched", id |-> creds.id,
                    status |-> creds.status, dirty |-> creds.dirty]
  <2>1. creds.left > 0 /\ rd' = [rd EXCEPT ![r] = x] /\ UNCHANGED <<row, created, wr, edits>>
    BY <1>4 DEF LoginHit
  <2>2. creds \in [id : Ids, status : Status, left : 1..TTL, dirty : BOOLEAN]
    BY <1>1, <2>1 DEF Entries, NoEntry
  <2>3. x \in ReaderStates /\ x.id \in Ids
    BY <2>2 DEF ReaderStates, Ids
  <2>. QED
    BY <1>4, <2>1, <2>3
<1>5. CASE LoginMiss(r)
  <2>. DEFINE x == [kind |-> "login", pc |-> "missed", id |-> 0, status |-> "pending", dirty |-> FALSE]
  <2>1. rd' = [rd EXCEPT ![r] = x] /\ UNCHANGED <<row, created, wr, edits>>
    BY <1>5 DEF LoginMiss
  <2>2. x \in ReaderStates
    BY AccountConstants DEF ReaderStates, Status
  <2>. QED
    BY <2>1, <2>2
<1>6. ASSUME NEW i \in Ids, ProfileMiss(r, i) PROVE \E x : /\ rd' = [rd EXCEPT ![r] = x] /\ Goal(x)
                      /\ UNCHANGED <<row, created, wr, edits>>
  <2>. DEFINE x == [kind |-> "profile", pc |-> "missed", id |-> i, status |-> "pending", dirty |-> FALSE]
  <2>1. rd' = [rd EXCEPT ![r] = x] /\ UNCHANGED <<row, created, wr, edits>>
    BY <1>6 DEF ProfileMiss
  <2>2. x \in ReaderStates
    BY DEF ReaderStates, Status, Ids
  <2>. QED
    BY <2>1, <2>2
<1>7. CASE FetchRow(r)
  <2>. DEFINE x == [rd[r] EXCEPT !.pc = "fetched", !.id = row.id, !.status = row.status]
  <2>1. UNCHANGED <<row, created, wr, edits>>
    BY <1>7 DEF FetchRow
  <2>2. CASE row.id # 0 /\ (rd[r].kind = "login" \/ row.id = rd[r].id)
    <3>1. rd' = [rd EXCEPT ![r] = x]
      BY <1>7, <2>2 DEF FetchRow
    <3>2. row \in [id : Ids, status : Status, deleted : BOOLEAN]
      BY <1>1, <2>2 DEF Rows, Absent
    <3>3. x \in ReaderStates /\ x.id \in Ids /\ x.id = row.id /\ x.status = row.status
      <4>1. row.id \in Ids /\ row.id \in 0..MaxUsers /\ row.status \in Status
        BY <3>2 DEF Ids
      <4>. QED
        BY <1>1, <4>1 DEF ReaderStates
    <3>. QED
      BY <1>7, <2>1, <3>1, <3>3
  <2>3. CASE ~(row.id # 0 /\ (rd[r].kind = "login" \/ row.id = rd[r].id))
    <3>1. rd' = [rd EXCEPT ![r] = Idle(r)]
      BY <1>7, <2>3 DEF FetchRow
    <3>. QED
      BY <1>2, <2>1, <3>1
  <2>. QED
    BY <2>2, <2>3
<1>8. CASE LoginEnds(r) \/ ProfileEnds(r) \/ ReaderFails(r)
  <2>1. rd' = [rd EXCEPT ![r] = Idle(r)] /\ UNCHANGED <<row, created, wr, edits>>
    BY <1>8 DEF LoginEnds, ProfileEnds, ReaderFails
  <2>. QED
    BY <1>2, <2>1
<1>. QED
  BY <1>4, <1>5, <1>6, <1>7, <1>8 DEF ReaderStep

\* What a reader writes to a cache is an entry.
LEMMA EntryTyped ==
    ASSUME IInv, NEW r \in Readers, rd[r].pc = "fetched"
    PROVE  /\ Entry(r) \in Entries /\ Entry(r).left > 0 /\ rd[r].id \in Ids
           /\ Entry(r).id = rd[r].id /\ Entry(r).status = rd[r].status /\ Entry(r).dirty = rd[r].dirty
<1>1. rd[r] \in ReaderStates /\ rd[r].id \in Ids
  BY DEF IInv, TypeOK, ReaderInv
<1>2. TTL \in 1..TTL /\ TTL > 0
  BY AccountConstants
<1>3. Entry(r) \in [id : Ids, status : Status, left : 1..TTL, dirty : BOOLEAN]
  BY <1>1, <1>2 DEF Entry, ReaderStates
<1>. QED
  BY <1>1, <1>2, <1>3 DEF Entry, Entries

\* A step keeps every variable in its type.
LEMMA TypeStep ==
    ASSUME IInv, [Next]_vars
    PROVE  TypeOK'
<1>1. TypeOK
  BY DEF IInv
<1>2. ASSUME NEW w \in Writers, NEW op \in Ops, ReadUser(w, op) PROVE TypeOK'
  BY <1>1, <1>2, ReadUserEffect DEF ReadUser, TypeOK
<1>3. ASSUME NEW w \in Writers, LoadForMerge(w) PROVE TypeOK'
  BY <1>1, <1>3, LoadEffect DEF LoadForMerge, TypeOK
<1>4. ASSUME NEW w \in Writers, CommitUpdate(w) PROVE TypeOK'
  <2>1. row' \in Rows
    BY <1>4, CommittedRow
  <2>2. Commit(w, "committed") /\ Taint
    BY <1>4 DEF CommitUpdate
  <2>. QED
    BY <1>1, <1>4, <2>1, <2>2, CommitEffect, TaintEffect DEF CommitUpdate, TypeOK
<1>5. ASSUME NEW w \in Writers, CommitRefused(w) PROVE TypeOK'
  BY <1>1, <1>5, WriterEffect DEF CommitRefused, TypeOK
<1>6. ASSUME NEW w \in Writers, CommitPrune(w) PROVE TypeOK'
  <2>1. row' \in Rows
    BY <1>1, <1>6 DEF CommitPrune, TypeOK, Rows
  <2>2. Commit(w, "committed") /\ Taint
    BY <1>6 DEF CommitPrune
  <2>. QED
    BY <1>1, <1>6, <2>1, <2>2, CommitEffect, TaintEffect DEF CommitPrune, TypeOK
<1>7. ASSUME NEW w \in Writers, InvalidateProfile(w) PROVE TypeOK'
  <2>1. profile' \in [Ids -> Entries]
    BY <1>1, <1>7 DEF InvalidateProfile, TypeOK, Entries
  <2>2. Step(w, "profile_gone") /\ Taint
    BY <1>7 DEF InvalidateProfile
  <2>. QED
    BY <1>1, <1>7, <2>1, <2>2, WriterEffect, TaintEffect DEF InvalidateProfile, TypeOK
<1>8. ASSUME NEW w \in Writers, InvalidateCredentials(w) PROVE TypeOK'
  BY <1>1, <1>8, WriterEffect, TaintEffect DEF InvalidateCredentials, TypeOK, Entries
<1>9. ASSUME NEW w \in Writers, WriterFails(w) PROVE TypeOK'
  <2>1. wr' \in [Writers -> WriterStates] /\ UNCHANGED <<row, created, edits>>
    BY <1>1, <1>9, WriterEffect DEF WriterFails
  <2>2. CASE TaintCaches /\ Taint
    BY <1>1, <2>1, <2>2, TaintCachesEffect, TaintEffect DEF TypeOK
  <2>3. CASE UNCHANGED <<creds, profile, rd>>
    BY <1>1, <2>1, <2>3 DEF TypeOK
  <2>. QED
    BY <1>9, <2>2, <2>3 DEF WriterFails
<1>10. ASSUME NEW w \in Writers, RegisterUser(w) PROVE TypeOK'
  <2>1. created + 1 \in Ids
    BY <1>1, <1>10, AccountConstants DEF RegisterUser, TypeOK, Ids
  <2>2. row' \in Rows /\ created' \in Ids
    BY <1>10, <2>1 DEF RegisterUser, Rows, Absent, Status
  <2>3. ASSUME NEW v \in Writers PROVE wr'[v] \in WriterStates
    <3>1. wr[v] \in WriterStates
      BY <1>1 DEF TypeOK
    <3>2. wr'[v] \in {[Fresh EXCEPT !.pc = "done"], [wr[v] EXCEPT !.overlapped = TRUE], wr[v]}
      BY <1>10 DEF RegisterUser
    <3>. QED
      BY <3>1, <3>2 DEF Fresh, WriterStates, Rows
  <2>4. wr' \in [Writers -> WriterStates]
    BY <1>10, <2>3 DEF RegisterUser
  <2>5. TaintCaches /\ Taint /\ edits' = edits
    BY <1>10 DEF RegisterUser
  <2>. QED
    BY <1>1, <2>2, <2>4, <2>5, TaintCachesEffect, TaintEffect DEF TypeOK
<1>11. ASSUME NEW s \in Status, AdminEdit(s) PROVE TypeOK'
  <2>1. row' \in Rows
    <3>1. row \in [id : Ids, status : Status, deleted : BOOLEAN]
      BY <1>1, <1>11 DEF AdminEdit, TypeOK, Rows, Absent
    <3>2. row' = [row EXCEPT !.status = s]
      BY <1>11 DEF AdminEdit
    <3>3. row' \in [id : Ids, status : Status, deleted : BOOLEAN]
      BY <3>1, <3>2
    <3>. QED
      BY <3>3 DEF Rows
  <2>2. edits' \in 0..MaxEdits
    BY <1>1, <1>11, AccountConstants DEF AdminEdit, TypeOK
  <2>3. ASSUME NEW v \in Writers PROVE wr'[v] \in WriterStates
    BY <1>1, <1>11 DEF AdminEdit, TypeOK, WriterStates
  <2>4. wr' \in [Writers -> WriterStates]
    BY <1>11, <2>3 DEF AdminEdit
  <2>5. TaintCaches /\ Taint /\ created' = created
    BY <1>11 DEF AdminEdit
  <2>. QED
    BY <1>1, <2>1, <2>2, <2>4, <2>5, TaintCachesEffect, TaintEffect DEF TypeOK
<1>12. ASSUME NEW r \in Readers, ReaderStep(r) PROVE TypeOK'
  <2>1. CASE LoginEnds(r)
    <3>1. creds' \in Entries
      BY <1>1, <2>1, EntryTyped DEF LoginEnds, TypeOK
    <3>. QED
      BY <1>1, <1>12, <2>1, <3>1, ReaderEffect DEF LoginEnds, TypeOK
  <2>2. CASE ProfileEnds(r)
    <3>1. profile' \in [Ids -> Entries]
      BY <1>1, <2>2, EntryTyped DEF ProfileEnds, TypeOK
    <3>. QED
      BY <1>1, <1>12, <2>2, <3>1, ReaderEffect DEF ProfileEnds, TypeOK
  <2>3. CASE FetchRow(r) \/ ReaderFails(r)
    BY <1>1, <1>12, <2>3, ReaderEffect DEF FetchRow, ReaderFails, TypeOK
  <2>. QED
    BY <1>12, <2>1, <2>2, <2>3 DEF ReaderStep
<1>13. ASSUME NEW r \in Readers,
              LoginHit(r) \/ LoginMiss(r) \/ (\E i \in Ids : ProfileMiss(r, i))
       PROVE TypeOK'
  BY <1>1, <1>13, ReaderEffect DEF LoginHit, LoginMiss, ProfileMiss, TypeOK
<1>14. CASE Tick
  <2>1. creds' \in Entries /\ \A i \in Ids : Aged(profile[i]) \in Entries
    BY <1>1, <1>14, EntryKept DEF Tick, TypeOK
  <2>. QED
    BY <1>1, <1>14, <2>1 DEF Tick, TypeOK
<1>15. CASE UNCHANGED vars
  BY <1>1, <1>15 DEF vars, TypeOK
<1>. QED
  BY <1>2, <1>3, <1>4, <1>5, <1>6, <1>7, <1>8, <1>9, <1>10, <1>11, <1>12, <1>13, <1>14, <1>15, Endpoints
     DEF Next, WriterStep

-----------------------------------------------------------------------------
(* Writers *)

\* A writer keeps its part of the invariant when nothing touches it or the row, when it
\* ends, and when a commit of another overlaps it.
LEMMA WriterKept ==
    ASSUME WriterInv, NEW v \in Writers
    PROVE  /\ (wr'[v] = wr[v] /\ row' = row) => WriterOk(v)'
           /\ wr'[v].pc = "done" => WriterOk(v)'
           /\ \A w \in Writers \ {v} : Overlaps(w) => WriterOk(v)'
<1>1. WriterOk(v)
  BY DEF WriterInv
<1>2. ASSUME wr'[v] = wr[v], row' = row PROVE WriterOk(v)'
  BY <1>1, <1>2 DEF WriterOk, Working
<1>3. ASSUME wr'[v].pc = "done" PROVE WriterOk(v)'
  BY <1>3 DEF WriterOk, Working
<1>4. ASSUME NEW w \in Writers \ {v}, Overlaps(w) PROVE WriterOk(v)'
  BY <1>1, <1>4 DEF WriterOk, Working, Overlaps
<1>. QED
  BY <1>2, <1>3, <1>4

\* Every commit overlaps the other writers, so that one which was not overlapped still
\* holds the row.
LEMMA WriterStepInv ==
    ASSUME IInv, [Next]_vars
    PROVE  WriterInv'
<1>1. TypeOK /\ WriterInv
  BY DEF IInv
<1>2. ASSUME NEW w \in Writers, NEW op \in Ops, ReadUser(w, op) PROVE WriterInv'
  <2>1. row' = row
    BY <1>2 DEF ReadUser
  <2>2. WriterOk(w)'
    BY <1>1, <1>2, <2>1, ReadUserEffect DEF WriterOk, Working
  <2>. QED
    BY <1>1, <1>2, <2>1, <2>2, ReadUserEffect, WriterKept DEF WriterInv
<1>3. ASSUME NEW w \in Writers, LoadForMerge(w) PROVE WriterInv'
  <2>1. row' = row /\ wr[w].pc = "read" /\ wr[w].op.name # "prune" /\ WriterOk(w)
    BY <1>1, <1>3 DEF LoadForMerge, WriterInv
  <2>2. WriterOk(w)'
    BY <1>1, <1>3, <2>1, LoadEffect DEF WriterOk, Working
  <2>. QED
    BY <1>1, <1>3, <2>1, <2>2, LoadEffect, WriterKept DEF WriterInv
<1>4. ASSUME NEW w \in Writers, CommitUpdate(w) \/ CommitPrune(w) PROVE WriterInv'
  <2>1. Commit(w, "committed") /\ Working(w) /\ WriterOk(w)
    BY <1>1, <1>4 DEF CommitUpdate, CommitPrune, WriterInv, Working
  <2>2. WriterOk(w)'
    BY <1>1, <2>1, CommitEffect DEF WriterOk, Working
  <2>3. ASSUME NEW v \in Writers \ {w} PROVE WriterOk(v)'
    BY <1>1, <2>1, CommitEffect, WriterKept
  <2>. QED
    BY <2>2, <2>3 DEF WriterInv
<1>5. ASSUME NEW w \in Writers, CommitRefused(w) \/ InvalidateCredentials(w) \/ WriterFails(w)
      PROVE  WriterInv'
  <2>1. row' = row /\ Done(w)
    BY <1>5 DEF CommitRefused, InvalidateCredentials, WriterFails
  <2>. QED
    BY <1>1, <2>1, WriterEffect, WriterKept DEF WriterInv
<1>6. ASSUME NEW w \in Writers, InvalidateProfile(w) PROVE WriterInv'
  <2>1. row' = row /\ Step(w, "profile_gone") /\ Working(w) /\ WriterOk(w)
    BY <1>1, <1>6 DEF InvalidateProfile, WriterInv, Working
  <2>2. wr[w] \in WriterStates /\ wr'[w] = [wr[w] EXCEPT !.pc = "profile_gone"]
    BY <1>1, <2>1, WriterEffect DEF TypeOK
  <2>3. WriterOk(w)'
    BY <2>1, <2>2 DEF WriterOk, Working, WriterStates
  <2>. QED
    BY <1>1, <2>1, <2>3, WriterEffect, WriterKept DEF WriterInv
<1>7. ASSUME NEW w \in Writers, RegisterUser(w) PROVE WriterInv'
  <2>1. wr'[w].pc = "done"
    BY <1>7 DEF RegisterUser, Fresh
  <2>2. ASSUME NEW v \in Writers \ {w} PROVE WriterOk(v)'
    <3>1. Overlaps(w)
      BY <1>1, <1>7 DEF RegisterUser, Overlaps, TypeOK, WriterStates
    <3>. QED
      BY <1>1, <3>1, WriterKept
  <2>. QED
    BY <1>1, <2>1, <2>2, WriterKept DEF WriterInv
<1>8. ASSUME NEW s \in Status, AdminEdit(s) PROVE WriterInv'
  <2>1. ASSUME NEW v \in Writers PROVE WriterOk(v)'
    <3>1. wr[v] \in WriterStates /\ WriterOk(v)
      BY <1>1 DEF TypeOK, WriterInv
    <3>2. wr'[v] = IF Working(v) THEN [wr[v] EXCEPT !.overlapped = TRUE] ELSE wr[v]
      BY <1>8 DEF AdminEdit
    <3>. QED
      BY <3>1, <3>2 DEF WriterOk, Working, WriterStates
  <2>. QED
    BY <2>1 DEF WriterInv
<1>9. ASSUME NEW r \in Readers,
             \/ LoginHit(r) \/ LoginMiss(r) \/ (\E i \in Ids : ProfileMiss(r, i)) \/ ReaderStep(r)
      PROVE  WriterInv'
  BY <1>1, <1>9, ReaderEffect, WriterKept DEF WriterInv
<1>10. CASE Tick \/ UNCHANGED vars
  BY <1>1, <1>10, WriterKept DEF Tick, vars, WriterInv
<1>. QED
  BY <1>2, <1>3, <1>4, <1>5, <1>6, <1>7, <1>8, <1>9, <1>10, Endpoints DEF Next, WriterStep

-----------------------------------------------------------------------------
(* Readers and caches *)

\* A step of w that changes no other writer keeps what is owed: the credentials unless w
\* owed them, a profile unless w owed it.
LEMMA OwedKept ==
    ASSUME NEW w \in Writers,
           \A v \in Writers \ {w} : wr'[v].pc = wr[v].pc /\ wr'[v].ent = wr[v].ent
    PROVE  /\ (CredsOwed /\ wr[w].pc \notin {"committed", "profile_gone"}) => CredsOwed'
           /\ \A i \in Ids : (ProfileOwed(i) /\ ~(wr[w].pc = "committed" /\ wr[w].ent.id = i))
                             => ProfileOwed(i)'
  BY DEF CredsOwed, ProfileOwed, Pending

\* The caches keep their part when neither they nor the row change and nothing owed is lost.
LEMMA CachesKept ==
    ASSUME CacheInv, UNCHANGED <<row, creds, profile>>, CredsOwed => CredsOwed',
           \A i \in Ids : ProfileOwed(i) => ProfileOwed(i)'
    PROVE  CacheInv'
  BY DEF CacheInv, Stale

LEMMA ReadersKept ==
    ASSUME ReaderInv, UNCHANGED <<row, rd>>, CredsOwed => CredsOwed'
    PROVE  ReaderInv'
  BY DEF ReaderInv, Differs

\* A write taints every reader that has fetched, so that none of them claims the row.
LEMMA ReadersTainted ==
    ASSUME TypeOK, ReaderInv, Taint
    PROVE  ReaderInv'
  BY TaintEffect DEF ReaderInv

\* Entries that are all dirty need no other cause.
LEMMA CachesTainted ==
    ASSUME TypeOK, CacheInv, TaintCaches
    PROVE  CacheInv'
<1>1. Stale(creds)' => creds'.dirty
  BY TaintCachesEffect DEF Stale
<1>2. ASSUME NEW i \in Ids
      PROVE  /\ profile'[i].left > 0 => profile'[i].id = i
             /\ Stale(profile[i])' => profile'[i].dirty
  BY TaintCachesEffect DEF Stale, CacheInv
<1>. QED
  BY <1>1, <1>2 DEF CacheInv

\* A commit that changes the row to new, for the identity of the writer alone, makes the
\* writer owe every entry that agreed with it.
LEMMA CachesCommit ==
    ASSUME TypeOK, CacheInv, NEW w \in Writers, wr[w].pc \in {"read", "loaded"},
           Commit(w, "committed"), UNCHANGED <<creds, profile>>,
           row' = row \/ row.id \in {0, wr[w].ent.id}
    PROVE  CacheInv'
<1>1. wr'[w].pc = "committed" /\ wr'[w].ent = wr[w].ent /\ Overlaps(w)
  BY CommitEffect
<1>2. CredsOwed'
  BY <1>1 DEF CredsOwed, Pending
<1>3. \A i \in Ids : ProfileOwed(i) => ProfileOwed(i)'
  BY <1>1, OwedKept DEF Overlaps
<1>4. CASE row' = row
  BY <1>2, <1>3, <1>4, CachesKept
<1>5. ASSUME row.id \in {0, wr[w].ent.id}, NEW i \in Ids, Stale(profile[i])'
      PROVE  profile'[i].dirty \/ ProfileOwed(i)'
  <2>1. profile[i].left > 0 /\ profile[i].id = i /\ i # 0
    BY <1>5 DEF Stale, CacheInv, Ids
  <2>2. CASE Stale(profile[i])
    BY <1>3, <2>2 DEF CacheInv
  <2>3. CASE ~Stale(profile[i])
    <3>1. i = wr[w].ent.id
      BY <1>5, <2>1, <2>3 DEF Stale
    <3>. QED
      BY <1>1, <3>1 DEF ProfileOwed
  <2>. QED
    BY <2>2, <2>3
<1>6. CASE row.id \in {0, wr[w].ent.id}
  BY <1>2, <1>5, <1>6 DEF CacheInv
<1>. QED
  BY <1>4, <1>6

\* The steps of the readers, which see the row as it is or as an entry has it.
LEMMA ReaderStepInv ==
    ASSUME IInv, NEW r \in Readers,
           \/ LoginHit(r) \/ LoginMiss(r) \/ (\E i \in Ids : ProfileMiss(r, i)) \/ ReaderStep(r)
    PROVE  ReaderInv' /\ CacheInv'
<1>1. TypeOK /\ ReaderInv /\ CacheInv
  BY DEF IInv
<1>2. UNCHANGED <<row, wr>>
  BY <1>1, ReaderEffect
<1>3. (CredsOwed => CredsOwed') /\ \A i \in Ids : ProfileOwed(i) => ProfileOwed(i)'
  BY <1>2 DEF CredsOwed, ProfileOwed, Pending
<1>4. ReaderInv'
  <2>1. ASSUME rd'[r].pc = "fetched"
        PROVE  /\ rd'[r].id \in Ids
               /\ (rd'[r].kind = "login" /\ Differs(rd[r])') => rd'[r].dirty \/ CredsOwed'
               /\ (rd'[r].kind = "profile" /\ Differs(rd[r])') => rd'[r].dirty
    <3>1. CASE LoginHit(r) /\ rd'[r].kind = "login" /\ rd'[r].id \in Ids /\ creds.left > 0
               /\ rd'[r].id = creds.id /\ rd'[r].status = creds.status /\ rd'[r].dirty = creds.dirty
      BY <1>1, <1>2, <1>3, <3>1 DEF CacheInv, Stale, Differs
    <3>2. CASE rd'[r].id \in Ids /\ rd'[r].id = row.id /\ rd'[r].status = row.status
      BY <1>2, <3>2 DEF Differs
    <3>. QED
      BY <1>1, <2>1, <3>1, <3>2, ReaderEffect
  <2>2. \A s \in Readers \ {r} : rd'[s] = rd[s]
    BY <1>1, ReaderEffect
  <2>. QED
    BY <1>1, <1>2, <1>3, <2>1, <2>2 DEF ReaderInv, Differs
<1>. SUFFICES CacheInv'
  BY <1>4
<1>5. CASE LoginEnds(r)
  <2>1. rd[r].pc = "fetched" /\ rd[r].kind = "login" /\ profile' = profile
    BY <1>5 DEF LoginEnds
  <2>2. CASE creds' = creds
    BY <1>1, <1>2, <1>3, <2>1, <2>2, CachesKept
  <2>3. CASE creds' = Entry(r)
    <3>1. creds'.id = rd[r].id /\ creds'.status = rd[r].status /\ creds'.dirty = rd[r].dirty
      BY <2>1, <2>3, EntryTyped
    <3>2. Stale(creds)' => creds'.dirty \/ CredsOwed'
      BY <1>1, <1>2, <1>3, <2>1, <3>1 DEF ReaderInv, Differs, Stale
    <3>. QED
      BY <1>1, <1>2, <1>3, <2>1, <3>2 DEF CacheInv, Stale
  <2>. QED
    BY <1>5, <2>2, <2>3 DEF LoginEnds
<1>6. CASE ProfileEnds(r)
  <2>1. /\ rd[r].pc = "fetched" /\ rd[r].kind = "profile" /\ creds' = creds
        /\ profile' = [profile EXCEPT ![rd[r].id] = Entry(r)] /\ profile \in [Ids -> Entries]
    BY <1>1, <1>6 DEF ProfileEnds, TypeOK
  <2>2. ASSUME NEW i \in Ids, i = rd[r].id
        PROVE  /\ profile'[i].left > 0 => profile'[i].id = i
               /\ Stale(profile[i])' => profile'[i].dirty
    BY <1>1, <1>2, <2>1, <2>2, EntryTyped DEF ReaderInv, Differs, Stale
  <2>3. ASSUME NEW i \in Ids, i # rd[r].id PROVE profile'[i] = profile[i]
    BY <2>1, <2>3
  <2>. QED
    BY <1>1, <1>2, <1>3, <2>1, <2>2, <2>3 DEF CacheInv, Stale
<1>7. CASE UNCHANGED <<creds, profile>>
  BY <1>1, <1>2, <1>3, <1>7, CachesKept
<1>. QED
  BY <1>5, <1>6, <1>7 DEF LoginHit, LoginMiss, ProfileMiss, ReaderStep, FetchRow, ReaderFails

\* The steps of the writers: one that commits comes to owe what it made stale, one that
\* deletes an entry taints those who could write it back, one that fails taints all.
LEMMA InvalidationStepInv ==
    ASSUME IInv, NEW w \in Writers, WriterStep(w)
    PROVE  ReaderInv' /\ CacheInv'
<1>1. TypeOK /\ WriterInv /\ ReaderInv /\ CacheInv /\ wr[w] \in WriterStates
  BY DEF IInv, TypeOK
<1>2. CASE LoadForMerge(w) \/ CommitRefused(w)
  <2>1. /\ wr[w].pc \in {"read", "loaded"} /\ UNCHANGED <<row, creds, profile, rd>>
        /\ \A v \in Writers \ {w} : wr'[v] = wr[v]
    BY <1>1, <1>2, LoadEffect, WriterEffect DEF LoadForMerge, CommitRefused
  <2>2. (CredsOwed => CredsOwed') /\ \A i \in Ids : ProfileOwed(i) => ProfileOwed(i)'
    BY <2>1, OwedKept
  <2>. QED
    BY <1>1, <2>1, <2>2, CachesKept, ReadersKept
<1>3. CASE CommitUpdate(w)
  <2>1. /\ wr[w].pc = "loaded" /\ Commit(w, "committed") /\ Taint /\ UNCHANGED <<creds, profile>>
        /\ row.id \in {0, wr[w].ent.id}
    BY <1>3, CommittedRow DEF CommitUpdate
  <2>. QED
    BY <1>1, <2>1, CachesCommit, ReadersTainted
<1>4. CASE CommitPrune(w)
  <2>1. /\ wr[w].pc = "read" /\ Commit(w, "committed") /\ Taint /\ UNCHANGED <<creds, profile>>
        /\ row' = row \/ row.id \in {0, wr[w].ent.id}
    BY <1>4 DEF CommitPrune
  <2>. QED
    BY <1>1, <2>1, CachesCommit, ReadersTainted
<1>5. CASE InvalidateProfile(w)
  <2>1. /\ wr[w].pc = "committed" /\ Taint /\ Step(w, "profile_gone") /\ UNCHANGED <<row, creds>>
        /\ profile' = [profile EXCEPT ![wr[w].ent.id] = NoEntry] /\ profile \in [Ids -> Entries]
    BY <1>1, <1>5 DEF InvalidateProfile, TypeOK
  <2>2. wr'[w].pc = "profile_gone" /\ \A v \in Writers \ {w} : wr'[v] = wr[v]
    BY <1>1, <2>1, WriterEffect DEF WriterStates
  <2>3. CredsOwed'
    BY <2>2 DEF CredsOwed, Pending
  <2>4. ASSUME NEW i \in Ids, i = wr[w].ent.id PROVE profile'[i].left = 0
    BY <2>1, <2>4 DEF NoEntry
  <2>5. ASSUME NEW i \in Ids, i # wr[w].ent.id
        PROVE  profile'[i] = profile[i] /\ (ProfileOwed(i) => ProfileOwed(i)')
    BY <2>1, <2>2, <2>5, OwedKept
  <2>6. ASSUME NEW i \in Ids
        PROVE  /\ profile'[i].left > 0 => profile'[i].id = i
               /\ Stale(profile[i])' => profile'[i].dirty \/ ProfileOwed(i)'
    BY <1>1, <2>1, <2>4, <2>5 DEF CacheInv, Stale
  <2>. QED
    BY <1>1, <2>1, <2>3, <2>6, ReadersTainted DEF CacheInv
<1>6. CASE InvalidateCredentials(w)
  <2>1. /\ wr[w].pc = "profile_gone" /\ Taint /\ Done(w) /\ creds' = NoEntry
        /\ UNCHANGED <<row, profile>>
    BY <1>6 DEF InvalidateCredentials
  <2>2. \A i \in Ids : ProfileOwed(i) => ProfileOwed(i)'
    BY <1>1, <2>1, WriterEffect, OwedKept
  <2>. QED
    BY <1>1, <2>1, <2>2, ReadersTainted DEF CacheInv, Stale, NoEntry
<1>7. CASE WriterFails(w)
  <2>1. CASE wr[w].pc \in {"committed", "profile_gone"}
    BY <1>1, <1>7, <2>1, CachesTainted, ReadersTainted DEF WriterFails
  <2>2. CASE wr[w].pc \notin {"committed", "profile_gone"}
    <3>1. UNCHANGED <<row, creds, profile, rd>> /\ \A v \in Writers \ {w} : wr'[v] = wr[v]
      BY <1>1, <1>7, <2>2, WriterEffect DEF WriterFails
    <3>2. (CredsOwed => CredsOwed') /\ \A i \in Ids : ProfileOwed(i) => ProfileOwed(i)'
      BY <2>2, <3>1, OwedKept
    <3>. QED
      BY <1>1, <3>1, <3>2, CachesKept, ReadersKept
  <2>. QED
    BY <2>1, <2>2
<1>. QED
  BY <1>2, <1>3, <1>4, <1>5, <1>6, <1>7 DEF WriterStep

LEMMA CacheStepInv ==
    ASSUME IInv, [Next]_vars
    PROVE  ReaderInv' /\ CacheInv'
<1>1. TypeOK /\ ReaderInv /\ CacheInv
  BY DEF IInv
<1>2. ASSUME NEW w \in Writers, NEW op \in Ops, ReadUser(w, op) PROVE ReaderInv' /\ CacheInv'
  <2>1. wr[w].pc = "idle" /\ UNCHANGED <<row, creds, profile, rd>>
    BY <1>2 DEF ReadUser
  <2>2. (CredsOwed => CredsOwed') /\ \A i \in Ids : ProfileOwed(i) => ProfileOwed(i)'
    BY <1>1, <1>2, <2>1, ReadUserEffect, OwedKept
  <2>. QED
    BY <1>1, <2>1, <2>2, CachesKept, ReadersKept
<1>3. ASSUME NEW w \in Writers, RegisterUser(w) PROVE ReaderInv' /\ CacheInv'
  BY <1>1, <1>3, CachesTainted, ReadersTainted DEF RegisterUser
<1>4. ASSUME NEW s \in Status, AdminEdit(s) PROVE ReaderInv' /\ CacheInv'
  BY <1>1, <1>4, CachesTainted, ReadersTainted DEF AdminEdit
<1>5. CASE Tick
  <2>1. UNCHANGED <<row, wr, rd>> /\ creds \in Entries /\ \A i \in Ids : profile[i] \in Entries
    BY <1>1, <1>5 DEF Tick, TypeOK
  <2>2. (CredsOwed => CredsOwed') /\ \A i \in Ids : ProfileOwed(i) => ProfileOwed(i)'
    BY <2>1 DEF CredsOwed, ProfileOwed, Pending
  <2>3. ReaderInv'
    BY <1>1, <2>1, <2>2, ReadersKept
  <2>4. Stale(creds)' => creds'.dirty \/ CredsOwed'
    <3>1. creds' = Aged(creds)
      BY <1>5 DEF Tick
    <3>. QED
      BY <1>1, <2>1, <2>2, <3>1, EntryKept DEF CacheInv, Stale
  <2>5. ASSUME NEW i \in Ids
        PROVE  /\ profile'[i].left > 0 => profile'[i].id = i
               /\ Stale(profile[i])' => profile'[i].dirty \/ ProfileOwed(i)'
    <3>1. profile'[i] = Aged(profile[i])
      BY <1>5 DEF Tick
    <3>. QED
      BY <1>1, <2>1, <2>2, <3>1, EntryKept DEF CacheInv, Stale
  <2>. QED
    BY <2>3, <2>4, <2>5 DEF CacheInv
<1>6. CASE UNCHANGED vars
  <2>1. (CredsOwed => CredsOwed') /\ \A i \in Ids : ProfileOwed(i) => ProfileOwed(i)'
    BY <1>6 DEF CredsOwed, ProfileOwed, Pending, vars
  <2>. QED
    BY <1>1, <1>6, <2>1, CachesKept, ReadersKept DEF vars
<1>. QED
  BY <1>2, <1>3, <1>4, <1>5, <1>6, Endpoints, InvalidationStepInv, ReaderStepInv DEF Next

-----------------------------------------------------------------------------
(* The theorems *)

LEMMA InitInv == Init => IInv
<1> SUFFICES ASSUME Init PROVE IInv
  OBVIOUS
<1>1. TypeOK
  <2>1. 1 \in Ids /\ 0 \in 0..MaxUsers /\ 0 \in 0..MaxEdits
    BY AccountConstants DEF Ids
  <2>2. row \in Rows /\ created \in Ids /\ edits \in 0..MaxEdits
    BY <2>1 DEF Init, Rows, Status
  <2>3. creds \in Entries /\ profile \in [Ids -> Entries]
    BY DEF Init, Entries
  <2>4. wr \in [Writers -> WriterStates]
    BY DEF Init, Fresh, WriterStates, Rows
  <2>5. rd \in [Readers -> ReaderStates]
    BY <2>1 DEF Init, ReaderStates, Status
  <2>. QED
    BY <2>2, <2>3, <2>4, <2>5 DEF TypeOK
<1>2. WriterInv
  BY DEF Init, WriterInv, WriterOk, Working, Fresh
<1>3. ReaderInv
  BY DEF Init, ReaderInv
<1>4. CacheInv
  BY DEF Init, CacheInv, Stale, NoEntry
<1>. QED
  BY <1>1, <1>2, <1>3, <1>4 DEF IInv

\* The inductive invariant holds in every reachable state.
THEOREM Invariance == Spec => []IInv
<1>1. IInv /\ [Next]_vars => IInv'
  BY TypeStep, WriterStepInv, CacheStepInv DEF IInv
<1>. QED
  BY <1>1, InitInv, PTL DEF Spec

\* The row, the entries and the requests keep their types.
THEOREM TypeCorrect == Spec => []TypeOK
<1>1. IInv => TypeOK
  BY DEF IInv
<1>. QED
  BY <1>1, Invariance, PTL

\* For any number of overlapping writers and readers, identities and ticks: an entry that
\* differs from the row is owed a deletion by a writer, or marked with its cause.
THEOREM StaleEntry == Spec => []StaleEntryHasCause
<1>1. IInv => StaleEntryHasCause
  BY DEF IInv, CacheInv, StaleEntryHasCause, CredsOwed, ProfileOwed, Pending
<1>. QED
  BY <1>1, Invariance, PTL

\* A write that no other overlaps has its documented effect on the row as it is, although
\* it commits what its merge makes of a snapshot.
THEOREM WritesAreSerial == Spec => SerialWithoutOverlap
<1>. DEFINE A(w) == (wr[w].pc # "committed" /\ wr'[w].pc = "committed" /\ ~wr[w].overlapped)
                    => row' \in Outcomes(wr[w].op, row)
<1>1. ASSUME IInv, [Next]_vars, NEW w \in Writers PROVE A(w)
  <2>1. TypeOK /\ WriterOk(w) /\ wr[w] \in WriterStates /\ row \in Rows
    BY <1>1 DEF IInv, WriterInv, TypeOK
  <2>2. CASE CommitUpdate(w)
    <3>1. PICK ent \in Outcomes(wr[w].op, wr[w].ent) :
             /\ ent \in Rows /\ ent.id = wr[w].ent.id
             /\ \/ row.id = ent.id /\ row' = Merged(ent, wr[w].base) /\ row'.id = row.id
                \/ wr[w].base.id = 0 /\ row.id = 0 /\ row' = ent
      BY <1>1, <2>2, CommittedRow
    <3>2. ASSUME ~wr[w].overlapped PROVE row = wr[w].ent /\ wr[w].base = row /\ row.id \in Ids
      BY <2>1, <2>2, <3>2 DEF CommitUpdate, WriterOk, Working
    <3>3. ASSUME ~wr[w].overlapped PROVE row' = ent
      <4>1. row' = Merged(ent, row) /\ ent.id = row.id
        BY <3>1, <3>2, <3>3 DEF Ids
      <4>2. row' = [id |-> ent.id, status |-> ent.status, deleted |-> ent.deleted]
        BY <4>1 DEF Merged
      <4>3. ent = [id |-> ent.id, status |-> ent.status, deleted |-> ent.deleted]
        BY <3>1 DEF Rows, Absent
      <4>. QED
        BY <4>2, <4>3
    <3>. QED
      BY <3>1, <3>2, <3>3
  <2>3. CASE CommitPrune(w)
    <3>1. ASSUME ~wr[w].overlapped
          PROVE  row = wr[w].ent /\ row.id # 0 /\ row' = Absent /\ wr[w].op.name = "prune"
      BY <2>1, <2>3, <3>1 DEF CommitPrune, WriterOk, Working, Ids
    <3>. QED
      BY <3>1 DEF Outcomes
  <2>4. ASSUME NEW v \in Writers, CommitUpdate(v) \/ CommitPrune(v), v # w
        PROVE  wr'[w].pc = wr[w].pc
    BY <2>1, <2>4, CommitEffect DEF CommitUpdate, CommitPrune, Overlaps
  <2>5. ASSUME NEW v \in Writers, NEW op \in Ops, ReadUser(v, op) PROVE A(w)
    BY <2>1, <2>5, ReadUserEffect
  <2>6. ASSUME NEW v \in Writers,
               \/ LoadForMerge(v) \/ CommitRefused(v) \/ InvalidateProfile(v)
               \/ InvalidateCredentials(v) \/ WriterFails(v)
        PROVE  A(w)
    <3>1. wr'[w] = wr[w] \/ wr'[w].pc # "committed"
      BY <2>1, <2>6, LoadEffect, WriterEffect
         DEF CommitRefused, InvalidateProfile, InvalidateCredentials, WriterFails, TypeOK, WriterStates
    <3>. QED
      BY <3>1
  <2>7. ASSUME NEW v \in Writers, RegisterUser(v) PROVE A(w)
    <3>1. wr'[w] \in {[Fresh EXCEPT !.pc = "done"], [wr[w] EXCEPT !.overlapped = TRUE], wr[w]}
      BY <2>7 DEF RegisterUser
    <3>. QED
      BY <2>1, <3>1 DEF Fresh, WriterStates
  <2>8. ASSUME NEW s \in Status, AdminEdit(s) PROVE A(w)
    <3>1. wr'[w] \in {[wr[w] EXCEPT !.overlapped = TRUE], wr[w]}
      BY <2>8 DEF AdminEdit
    <3>. QED
      BY <2>1, <3>1 DEF WriterStates
  <2>9. ASSUME NEW r \in Readers,
             \/ LoginHit(r) \/ LoginMiss(r) \/ (\E i \in Ids : ProfileMiss(r, i)) \/ ReaderStep(r)
        PROVE  A(w)
    BY <2>1, <2>9, ReaderEffect
  <2>10. CASE Tick \/ UNCHANGED vars
    BY <2>10 DEF Tick, vars
  <2>. QED
    BY <1>1, <2>2, <2>3, <2>4, <2>5, <2>6, <2>7, <2>8, <2>9, <2>10, Endpoints DEF Next, WriterStep
<1>2. IInv /\ [Next]_vars => [\A w \in Writers : A(w)]_vars
  BY <1>1
<1>. QED
  BY <1>2, Invariance, PTL DEF Spec, SerialWithoutOverlap

-----------------------------------------------------------------------------
(***************************************************************************)
(* Fleet                                                                   *)
(***************************************************************************)

\* The ids of owner rows come from one counter, and a table is finite.
RowsInv ==
    /\ DOMAIN owners \subseteq 1..made
    /\ IsFiniteSet(DOMAIN cars)

\* What an undisturbed walk still has to meet lies at or after the place its next page
\* starts from; and total promises another page as long as something is missing.
WalkOk(v) == ~v.disturbed =>
    /\ v.pc \in {"count", "counted"} =>
          \A r \in v.start \ v.seen : r \in ListRows(v.list) /\ v.offset <= Position(v.list, r)
    /\ v.pc = "counted" => v.total = Cardinality(ListRows(v.list))
    /\ v.pc = "paged" =>
          \A r \in v.start \ v.seen : /\ r \in ListRows(v.list)
                                      /\ v.offset + PageSize <= Position(v.list, r)
                                      /\ v.offset + PageSize < v.total
    /\ v.pc = "done" => v.start \subseteq v.seen

WalkInv == \A w \in Walkers : WalkOk(walk[w])

FleetInv == FleetTypeOK /\ RowsInv /\ OwnershipIntact /\ WalkInv

-----------------------------------------------------------------------------
(* Tables and the order of their rows *)

\* What is left of a table keeps a linear order.
LEMMA KeptOrder ==
    ASSUME NEW t, NEW S, scan[t] \in Orders(S), NEW rest \in SUBSET S
    PROVE  Kept(t, rest) \in Orders(rest)
<1>1. /\ Kept(t, rest) \subseteq rest \X rest
      /\ \A a, b \in rest : <<a, b>> \in Kept(t, rest) <=> <<a, b>> \in scan[t]
  BY DEF Kept
<1>2. /\ \A a, b \in S : <<a, b>> \in scan[t] <=> a # b /\ <<b, a>> \notin scan[t]
      /\ \A a, b, c \in S : <<a, b>> \in scan[t] /\ <<b, c>> \in scan[t] => <<a, c>> \in scan[t]
  BY DEF Orders
<1>. QED
  BY <1>1, <1>2 DEF Orders

\* A row that is written finds a place in a linear order.
LEMMA WrittenOrder ==
    ASSUME NEW t, NEW S, scan[t] \in Orders(S), NEW new, NEW o \in Written(t, S \ {new}, new)
    PROVE  o \in Orders(S \cup {new})
<1>. DEFINE rest == S \ {new}
<1>1. PICK before \in SUBSET rest :
         /\ \A b \in before, a \in rest \ before : <<b, a>> \in scan[t]
         /\ o = Kept(t, rest) \cup (before \X {new}) \cup ({new} \X (rest \ before))
  BY DEF Written
<1>2. Kept(t, rest) \in Orders(rest)
  BY KeptOrder
<1>3. new \notin rest /\ S \cup {new} = rest \cup {new}
  OBVIOUS
<1>4. \A a, b \in rest : <<a, b>> \in Kept(t, rest) <=> <<a, b>> \in scan[t]
  BY DEF Kept
<1>. HIDE DEF rest
<1>5. /\ \A a, b \in rest : <<a, b>> \in o <=> <<a, b>> \in scan[t]
      /\ \A a \in rest : /\ <<a, new>> \in o <=> a \in before
                         /\ <<new, a>> \in o <=> a \notin before
      /\ <<new, new>> \notin o
      /\ o \subseteq (rest \cup {new}) \X (rest \cup {new})
  <2>1. Kept(t, rest) \subseteq rest \X rest
    BY DEF Kept
  <2>. QED
    BY <1>1, <1>3, <1>4, <2>1
<1>6. /\ \A a, b \in rest : <<a, b>> \in scan[t] <=> a # b /\ <<b, a>> \notin scan[t]
      /\ \A a, b, c \in rest : <<a, b>> \in scan[t] /\ <<b, c>> \in scan[t] => <<a, c>> \in scan[t]
  BY <1>2, <1>4 DEF Orders
<1>7. \A a, b \in rest \cup {new} : <<a, b>> \in o <=> a # b /\ <<b, a>> \notin o
  BY <1>1, <1>3, <1>5, <1>6
<1>8. \A a, b, c \in rest \cup {new} : <<a, b>> \in o /\ <<b, c>> \in o => <<a, c>> \in o
  BY <1>1, <1>3, <1>5, <1>6
<1>. QED
  BY <1>3, <1>5, <1>7, <1>8 DEF Orders

\* What FleetTypeOK says of the tables.
TablesOk ==
    /\ DOMAIN users \subseteq Users /\ users \in [DOMAIN users -> BOOLEAN]
    /\ DOMAIN owners \subseteq OwnerIds /\ owners \in [DOMAIN owners -> Users]
    /\ DOMAIN cars \subseteq Plates /\ cars \in [DOMAIN cars -> OwnerIds]

ScanOk ==
    scan \in [users : Orders(DOMAIN users), owners : Orders(DOMAIN owners), cars : Orders(DOMAIN cars)]

WalksOk ==
    walk \in [Walkers -> [pc : {"idle", "count", "counted", "paged", "done"}, list : Lists,
                          offset : Nat, total : Nat, start : SUBSET RowIds, seen : SUBSET RowIds,
                          disturbed : BOOLEAN]]

RequestsOk ==
    /\ made \in 0..MaxOwners /\ changes \in 0..MaxChanges
    /\ req \in [Requests -> [pc : {"idle", "checked", "done"}, user : Users]]

LEMMA TypeParts == FleetTypeOK <=> TablesOk /\ ScanOk /\ WalksOk /\ RequestsOk
  BY DEF FleetTypeOK, TablesOk, ScanOk, WalksOk, RequestsOk

\* A table of which one row is written anew, or some leave, is in order; the others as before.
LEMMA PutScan ==
    ASSUME ScanOk
    PROVE  /\ \A k : Put("users", DOMAIN users, k) =>
                 scan' \in [users : Orders(DOMAIN users \cup {k}), owners : Orders(DOMAIN owners),
                            cars : Orders(DOMAIN cars)]
           /\ \A k : Put("owners", DOMAIN owners, k) =>
                 scan' \in [users : Orders(DOMAIN users), owners : Orders(DOMAIN owners \cup {k}),
                            cars : Orders(DOMAIN cars)]
           /\ \A k : Put("cars", DOMAIN cars, k) =>
                 scan' \in [users : Orders(DOMAIN users), owners : Orders(DOMAIN owners),
                            cars : Orders(DOMAIN cars \cup {k})]
<1>1. /\ scan["users"] \in Orders(DOMAIN users) /\ scan["owners"] \in Orders(DOMAIN owners)
      /\ scan["cars"] \in Orders(DOMAIN cars)
  BY DEF ScanOk
<1>2. ASSUME NEW k, Put("users", DOMAIN users, k)
      PROVE  scan' \in [users : Orders(DOMAIN users \cup {k}), owners : Orders(DOMAIN owners),
                        cars : Orders(DOMAIN cars)]
  <2>1. PICK o \in Written("users", DOMAIN users \ {k}, k) : scan' = [scan EXCEPT !["users"] = o]
    BY <1>2 DEF Put
  <2>2. o \in Orders(DOMAIN users \cup {k})
    BY <1>1, WrittenOrder
  <2>. QED
    BY <1>1, <2>1, <2>2 DEF ScanOk
<1>3. ASSUME NEW k, Put("owners", DOMAIN owners, k)
      PROVE  scan' \in [users : Orders(DOMAIN users), owners : Orders(DOMAIN owners \cup {k}),
                        cars : Orders(DOMAIN cars)]
  <2>1. PICK o \in Written("owners", DOMAIN owners \ {k}, k) : scan' = [scan EXCEPT !["owners"] = o]
    BY <1>3 DEF Put
  <2>2. o \in Orders(DOMAIN owners \cup {k})
    BY <1>1, WrittenOrder
  <2>. QED
    BY <1>1, <2>1, <2>2 DEF ScanOk
<1>4. ASSUME NEW k, Put("cars", DOMAIN cars, k)
      PROVE  scan' \in [users : Orders(DOMAIN users), owners : Orders(DOMAIN owners),
                        cars : Orders(DOMAIN cars \cup {k})]
  <2>1. PICK o \in Written("cars", DOMAIN cars \ {k}, k) : scan' = [scan EXCEPT !["cars"] = o]
    BY <1>4 DEF Put
  <2>2. o \in Orders(DOMAIN cars \cup {k})
    BY <1>1, WrittenOrder
  <2>. QED
    BY <1>1, <2>1, <2>2 DEF ScanOk
<1>. QED
  BY <1>2, <1>3, <1>4

\* A watched step changes the disturbed flag of a walk and nothing else of it.
LEMMA WatchStep ==
    ASSUME WalksOk, Watch
    PROVE  /\ WalksOk'
           /\ \A w \in Walkers :
                 /\ walk'[w].pc = walk[w].pc /\ walk'[w].list = walk[w].list
                 /\ walk'[w].offset = walk[w].offset /\ walk'[w].total = walk[w].total
                 /\ walk'[w].start = walk[w].start /\ walk'[w].seen = walk[w].seen
                 /\ walk[w].pc \notin {"idle", "done"} =>
                       (walk'[w].disturbed <=> walk[w].disturbed \/ Disturbs(walk[w]))
                 /\ walk[w].pc \in {"idle", "done"} => walk'[w] = walk[w]
<1>1. ASSUME NEW w \in Walkers
      PROVE  \E b \in BOOLEAN :
                 /\ walk'[w] = IF walk[w].pc \in {"idle", "done"} THEN walk[w]
                               ELSE [walk[w] EXCEPT !.disturbed = b]
                 /\ b <=> (walk[w].disturbed \/ Disturbs(walk[w]))
  <2>1. (walk[w].disturbed \/ Disturbs(walk[w])) \in BOOLEAN
    BY DEF Disturbs
  <2>. QED
    BY <2>1 DEF Watch
<1>2. walk' = [w \in Walkers |-> walk'[w]]
  BY DEF Watch
<1>3. ASSUME NEW w \in Walkers
      PROVE  /\ walk'[w] \in [pc : {"idle", "count", "counted", "paged", "done"}, list : Lists,
                              offset : Nat, total : Nat, start : SUBSET RowIds, seen : SUBSET RowIds,
                              disturbed : BOOLEAN]
             /\ walk'[w].pc = walk[w].pc /\ walk'[w].list = walk[w].list
             /\ walk'[w].offset = walk[w].offset /\ walk'[w].total = walk[w].total
             /\ walk'[w].start = walk[w].start /\ walk'[w].seen = walk[w].seen
             /\ walk[w].pc \notin {"idle", "done"} =>
                   (walk'[w].disturbed <=> walk[w].disturbed \/ Disturbs(walk[w]))
             /\ walk[w].pc \in {"idle", "done"} => walk'[w] = walk[w]
  <2>1. walk[w] \in [pc : {"idle", "count", "counted", "paged", "done"}, list : Lists,
                     offset : Nat, total : Nat, start : SUBSET RowIds, seen : SUBSET RowIds,
                     disturbed : BOOLEAN]
    BY DEF WalksOk
  <2>2. CASE walk[w].pc \in {"idle", "done"}
    <3>1. walk'[w] = walk[w]
      BY <1>1, <2>2
    <3>. QED
      BY <2>1, <2>2, <3>1
  <2>3. CASE walk[w].pc \notin {"idle", "done"}
    <3>1. PICK b \in BOOLEAN : /\ walk'[w] = [walk[w] EXCEPT !.disturbed = b]
                               /\ b <=> (walk[w].disturbed \/ Disturbs(walk[w]))
      BY <1>1, <2>3
    <3>2. walk'[w].disturbed = b
      BY <2>1, <3>1
    <3>3. walk'[w].disturbed <=> walk[w].disturbed \/ Disturbs(walk[w])
      BY <3>1, <3>2, Zenon
    <3>4. /\ walk'[w].pc = walk[w].pc /\ walk'[w].list = walk[w].list
          /\ walk'[w].offset = walk[w].offset /\ walk'[w].total = walk[w].total
          /\ walk'[w].start = walk[w].start /\ walk'[w].seen = walk[w].seen
          /\ walk'[w] \in [pc : {"idle", "count", "counted", "paged", "done"}, list : Lists,
                           offset : Nat, total : Nat, start : SUBSET RowIds, seen : SUBSET RowIds,
                           disturbed : BOOLEAN]
      BY <2>1, <3>1
    <3>. QED
      BY <2>3, <3>3, <3>4
  <2>. QED
    BY <2>2, <2>3
<1>4. WalksOk'
  BY <1>2, <1>3 DEF WalksOk
<1>. QED
  BY <1>3, <1>4

-----------------------------------------------------------------------------
(* The rows *)

RowsOk == TablesOk /\ ScanOk /\ RequestsOk /\ RowsInv /\ OwnershipIntact

\* No step but a write touches a row.
LEMMA RowsKept ==
    ASSUME RowsOk, UNCHANGED <<tables, made>>, RequestsOk'
    PROVE  RowsOk'
  BY DEF RowsOk, TablesOk, ScanOk, RowsInv, OwnershipIntact, tables

\* An owner is created, or refused by an index.
LEMMA InsertOwnerStep ==
    ASSUME RowsOk, NEW q \in Requests, InsertOwner(q)
    PROVE  RowsOk'
<1>. DEFINE u == req[q].user
<1>1. /\ u \in Users /\ req' = [req EXCEPT ![q].pc = "done"]
      /\ users' = users /\ cars' = cars /\ changes' = changes
  BY DEF InsertOwner, RowsOk, RequestsOk
<1>2. req' \in [Requests -> [pc : {"idle", "checked", "done"}, user : Users]]
  BY <1>1 DEF RowsOk, RequestsOk
<1>3. CASE UNCHANGED <<owners, scan, made>>
  <2>1. RequestsOk' /\ UNCHANGED <<tables, made>>
    BY <1>1, <1>2, <1>3 DEF RowsOk, RequestsOk, tables
  <2>. QED
    BY <2>1, RowsKept
<1>4. CASE ~UNCHANGED <<owners, scan, made>>
  <2>1. /\ OwnerFits(u) /\ made < MaxOwners /\ made' = made + 1
        /\ owners' = With(owners, made + 1, u) /\ Put("owners", DOMAIN owners, made + 1)
    BY <1>4 DEF InsertOwner
  <2>2. /\ made \in 0..MaxOwners /\ MaxOwners \in Nat /\ made + 1 \in OwnerIds
        /\ made + 1 \notin DOMAIN owners /\ DOMAIN owners \subseteq 1..made
    BY <2>1, FleetConstants DEF RowsOk, RequestsOk, RowsInv, OwnerIds
  <2>3. owners \in [DOMAIN owners -> Users]
    BY DEF RowsOk, TablesOk
  <2>4. /\ DOMAIN owners' = DOMAIN owners \cup {made + 1}
        /\ owners' \in [DOMAIN owners' -> Users]
        /\ owners'[made + 1] = u /\ \A o \in DOMAIN owners : owners'[o] = owners[o]
    BY <1>1, <2>1, <2>2, <2>3 DEF With
  <2>5. TablesOk' /\ RequestsOk' /\ RowsInv'
    BY <1>1, <1>2, <2>1, <2>2, <2>4 DEF RowsOk, TablesOk, RequestsOk, RowsInv
  <2>6. ScanOk'
    <3>1. scan' \in [users : Orders(DOMAIN users), owners : Orders(DOMAIN owners \cup {made + 1}),
                     cars : Orders(DOMAIN cars)]
      BY <2>1, PutScan DEF RowsOk
    <3>. QED
      BY <1>1, <2>4, <3>1 DEF ScanOk
  <2>7. OwnershipIntact'
    BY <1>1, <2>1, <2>2, <2>4 DEF RowsOk, OwnershipIntact, OwnerFits, get_by_user_id
  <2>. QED
    BY <2>5, <2>6, <2>7 DEF RowsOk
<1>. QED
  BY <1>3, <1>4

\* A car is created, or moved to another owner.
LEMMA PutCarStep ==
    ASSUME RowsOk, NEW p \in Plates, NEW o \in DOMAIN owners,
           cars' = With(cars, p, o), Put("cars", DOMAIN cars, p),
           UNCHANGED <<users, owners, made>>, RequestsOk'
    PROVE  RowsOk'
<1>1. o \in OwnerIds /\ cars \in [DOMAIN cars -> OwnerIds] /\ DOMAIN cars \subseteq Plates
  BY DEF RowsOk, TablesOk
<1>2. /\ DOMAIN cars' = DOMAIN cars \cup {p} /\ cars' \in [DOMAIN cars' -> OwnerIds]
      /\ cars'[p] = o /\ \A x \in DOMAIN cars \ {p} : cars'[x] = cars[x]
  BY <1>1 DEF With
<1>3. ScanOk'
  <2>1. scan' \in [users : Orders(DOMAIN users), owners : Orders(DOMAIN owners),
                   cars : Orders(DOMAIN cars \cup {p})]
    BY PutScan DEF RowsOk
  <2>. QED
    BY <1>2, <2>1 DEF ScanOk
<1>4. IsFiniteSet(DOMAIN cars')
  BY <1>2, FS_AddElement DEF RowsOk, RowsInv
<1>5. TablesOk'
  BY <1>1, <1>2 DEF RowsOk, TablesOk
<1>6. OwnershipIntact'
  BY <1>2 DEF RowsOk, OwnershipIntact
<1>. QED
  BY <1>3, <1>4, <1>5, <1>6 DEF RowsOk, RowsInv

\* A user row is written anew.
LEMMA PutUserStep ==
    ASSUME RowsOk, NEW u \in DOMAIN users, NEW live \in BOOLEAN,
           users' = With(users, u, live), Put("users", DOMAIN users, u),
           UNCHANGED <<owners, cars, made>>, RequestsOk'
    PROVE  RowsOk'
<1>1. users \in [DOMAIN users -> BOOLEAN] /\ DOMAIN users \subseteq Users
  BY DEF RowsOk, TablesOk
<1>2. DOMAIN users' = DOMAIN users /\ users' \in [DOMAIN users' -> BOOLEAN]
  BY <1>1 DEF With
<1>3. ScanOk'
  <2>1. scan' \in [users : Orders(DOMAIN users \cup {u}), owners : Orders(DOMAIN owners),
                   cars : Orders(DOMAIN cars)]
    BY PutScan DEF RowsOk
  <2>2. DOMAIN users \cup {u} = DOMAIN users
    OBVIOUS
  <2>. QED
    BY <1>2, <2>1, <2>2 DEF ScanOk
<1>. QED
  BY <1>1, <1>2, <1>3 DEF RowsOk, TablesOk, RowsInv, OwnershipIntact

\* The panel gives an owner to a user who has no other.
LEMMA PutOwnerStep ==
    ASSUME RowsOk, NEW o \in DOMAIN owners, NEW u \in DOMAIN users, get_by_user_id(u) \subseteq {o},
           owners' = With(owners, o, u), Put("owners", DOMAIN owners, o),
           UNCHANGED <<users, cars, made>>, RequestsOk'
    PROVE  RowsOk'
<1>1. owners \in [DOMAIN owners -> Users] /\ DOMAIN users \subseteq Users
  BY DEF RowsOk, TablesOk
<1>2. /\ DOMAIN owners' = DOMAIN owners /\ owners' \in [DOMAIN owners' -> Users]
      /\ owners'[o] = u /\ \A x \in DOMAIN owners \ {o} : owners'[x] = owners[x]
  BY <1>1 DEF With
<1>3. ScanOk'
  <2>1. scan' \in [users : Orders(DOMAIN users), owners : Orders(DOMAIN owners \cup {o}),
                   cars : Orders(DOMAIN cars)]
    BY PutScan DEF RowsOk
  <2>2. DOMAIN owners \cup {o} = DOMAIN owners
    OBVIOUS
  <2>. QED
    BY <1>2, <2>1, <2>2 DEF ScanOk
<1>4. OwnershipIntact'
  BY <1>2 DEF RowsOk, OwnershipIntact, get_by_user_id
<1>. QED
  BY <1>1, <1>2, <1>3, <1>4 DEF RowsOk, TablesOk, RowsInv

\* The panel deletes an owner that has no car.
LEMMA DropOwnerStep ==
    ASSUME RowsOk, NEW o \in DOMAIN owners, \A p \in DOMAIN cars : cars[p] # o,
           owners' = Restrict(owners, DOMAIN owners \ {o}),
           scan' = [scan EXCEPT !.owners = Kept("owners", DOMAIN owners \ {o})],
           UNCHANGED <<users, cars, made>>, RequestsOk'
    PROVE  RowsOk'
<1>1. owners \in [DOMAIN owners -> Users]
  BY DEF RowsOk, TablesOk
<1>2. /\ DOMAIN owners' = DOMAIN owners \ {o} /\ owners' \in [DOMAIN owners' -> Users]
      /\ \A x \in DOMAIN owners \ {o} : owners'[x] = owners[x]
  BY <1>1 DEF Restrict
<1>3. ScanOk'
  <2>1. Kept("owners", DOMAIN owners \ {o}) \in Orders(DOMAIN owners \ {o})
    <3>1. scan["owners"] \in Orders(DOMAIN owners)
      BY DEF RowsOk, ScanOk
    <3>. QED
      BY <3>1, KeptOrder
  <2>. QED
    BY <1>2, <2>1 DEF RowsOk, ScanOk
<1>4. OwnershipIntact'
  BY <1>2 DEF RowsOk, OwnershipIntact
<1>. QED
  BY <1>2, <1>3, <1>4 DEF RowsOk, TablesOk, RowsInv

\* The panel deletes a car.
LEMMA DropCarStep ==
    ASSUME RowsOk, NEW p \in DOMAIN cars,
           cars' = Restrict(cars, DOMAIN cars \ {p}),
           scan' = [scan EXCEPT !.cars = Kept("cars", DOMAIN cars \ {p})],
           UNCHANGED <<users, owners, made>>, RequestsOk'
    PROVE  RowsOk'
<1>1. cars \in [DOMAIN cars -> OwnerIds]
  BY DEF RowsOk, TablesOk
<1>2. /\ DOMAIN cars' = DOMAIN cars \ {p} /\ cars' \in [DOMAIN cars' -> OwnerIds]
      /\ \A x \in DOMAIN cars \ {p} : cars'[x] = cars[x]
  BY <1>1 DEF Restrict
<1>3. ScanOk'
  <2>1. Kept("cars", DOMAIN cars \ {p}) \in Orders(DOMAIN cars \ {p})
    <3>1. scan["cars"] \in Orders(DOMAIN cars)
      BY DEF RowsOk, ScanOk
    <3>. QED
      BY <3>1, KeptOrder
  <2>. QED
    BY <1>2, <2>1 DEF RowsOk, ScanOk
<1>4. IsFiniteSet(DOMAIN cars')
  BY <1>2, FS_RemoveElement DEF RowsOk, RowsInv
<1>5. OwnershipIntact'
  BY <1>2 DEF RowsOk, OwnershipIntact
<1>. QED
  BY <1>2, <1>3, <1>4, <1>5 DEF RowsOk, TablesOk, RowsInv

\* A user is pruned, with its owner and the cars of that owner.
LEMMA CascadeStep ==
    ASSUME RowsOk, NEW us \in SUBSET Users, Cascade(us), made' = made, RequestsOk'
    PROVE  RowsOk'
<1>1. /\ users \in [DOMAIN users -> BOOLEAN] /\ owners \in [DOMAIN owners -> Users]
      /\ cars \in [DOMAIN cars -> OwnerIds]
  BY DEF RowsOk, TablesOk
<1>2. /\ DOMAIN users' = DOMAIN users \ us /\ users' \in [DOMAIN users' -> BOOLEAN]
      /\ \A x \in DOMAIN users' : users'[x] = users[x]
  BY <1>1 DEF Cascade, Restrict
<1>3. /\ DOMAIN owners' = {o \in DOMAIN owners : owners[o] \notin us}
      /\ owners' \in [DOMAIN owners' -> Users]
      /\ \A x \in DOMAIN owners' : owners'[x] = owners[x]
  BY <1>1 DEF Cascade, Restrict
<1>4. /\ DOMAIN cars' = {p \in DOMAIN cars : cars[p] \in DOMAIN owners'}
      /\ cars' \in [DOMAIN cars' -> OwnerIds]
      /\ \A x \in DOMAIN cars' : cars'[x] = cars[x]
  BY <1>1 DEF Cascade, Restrict
<1>5. ScanOk'
  <2>1. /\ scan["users"] \in Orders(DOMAIN users) /\ scan["owners"] \in Orders(DOMAIN owners)
        /\ scan["cars"] \in Orders(DOMAIN cars)
    BY DEF RowsOk, ScanOk
  <2>2. DOMAIN users' \subseteq DOMAIN users /\ DOMAIN owners' \subseteq DOMAIN owners
        /\ DOMAIN cars' \subseteq DOMAIN cars
    BY <1>2, <1>3, <1>4
  <2>3. /\ Kept("users", DOMAIN users') \in Orders(DOMAIN users')
        /\ Kept("owners", DOMAIN owners') \in Orders(DOMAIN owners')
        /\ Kept("cars", DOMAIN cars') \in Orders(DOMAIN cars')
    BY <2>1, <2>2, KeptOrder
  <2>. QED
    BY <2>3 DEF Cascade, ScanOk
<1>6. IsFiniteSet(DOMAIN cars')
  BY <1>4, FS_Subset DEF RowsOk, RowsInv
<1>7. OwnershipIntact'
  BY <1>2, <1>3, <1>4 DEF RowsOk, OwnershipIntact
<1>8. TablesOk'
  BY <1>2, <1>3, <1>4 DEF RowsOk, TablesOk
<1>. QED
  BY <1>3, <1>5, <1>6, <1>7, <1>8 DEF RowsOk, RowsInv

\* The steps of a client that walks through a list.
WalkStep(w) ==
    \/ Count(w) \/ Page(w) \/ Turn(w)
    \/ \E l \in Lists : Start(w, l)

\* A step writes rows under the eyes of the walks, looks up an owner, or moves a walk.
LEMMA StepKinds ==
    ASSUME RowsOk, [FleetNext]_fleetVars
    PROVE  /\ RowsOk'
           /\ \/ Watch
              \/ UNCHANGED <<tables, walk>>
              \/ UNCHANGED <<tables, made, changes, req>> /\ \E w \in Walkers : WalkStep(w)
<1>. DEFINE Goal == RowsOk' /\ (\/ Watch
                                \/ UNCHANGED <<tables, walk>>
                                \/ UNCHANGED <<tables, made, changes, req>> /\ \E w \in Walkers : WalkStep(w))
<1>1. ASSUME Edit PROVE RequestsOk' /\ made' = made /\ Watch
  BY <1>1, FleetConstants DEF Edit, RowsOk, RequestsOk
<1>2. ASSUME NEW q \in Requests, InsertOwner(q) PROVE Goal
  BY <1>2, InsertOwnerStep DEF InsertOwner
<1>3. ASSUME NEW q \in Requests, NEW u \in Users, create_owner(q, u) PROVE Goal
  <2>1. RequestsOk'
    BY <1>3 DEF create_owner, RowsOk, RequestsOk
  <2>. QED
    BY <1>3, <2>1, RowsKept DEF create_owner
<1>4. ASSUME NEW p \in Plates, NEW o \in OwnerIds, create_car(p, o) PROVE Goal
  <2>1. RequestsOk'
    BY <1>4 DEF create_car, RowsOk, RequestsOk
  <2>. QED
    BY <1>4, <2>1, PutCarStep DEF create_car
<1>5. ASSUME NEW p \in Plates, NEW o \in OwnerIds, AdminEditsCar(p, o) PROVE Goal
  BY <1>1, <1>5, PutCarStep DEF AdminEditsCar
<1>6. ASSUME NEW p \in Plates, AdminDeletesCar(p) PROVE Goal
  BY <1>1, <1>6, DropCarStep DEF AdminDeletesCar
<1>7. ASSUME NEW u \in Users, delete(u) PROVE Goal
  BY <1>1, <1>7, CascadeStep DEF delete
<1>8. ASSUME NEW u \in Users, NEW live \in BOOLEAN, UpdateUser(u, live) PROVE Goal
  BY <1>1, <1>8, PutUserStep DEF UpdateUser
<1>9. ASSUME NEW o \in OwnerIds, AdminDeletesOwner(o) PROVE Goal
  BY <1>1, <1>9, DropOwnerStep DEF AdminDeletesOwner
<1>10. ASSUME NEW o \in OwnerIds, NEW u \in Users, AdminEditsOwner(o, u) PROVE Goal
  BY <1>1, <1>10, PutOwnerStep DEF AdminEditsOwner
<1>11. ASSUME NEW w \in Walkers,
              \/ Count(w) \/ Page(w) \/ Turn(w) \/ list_users(w) \/ list_owners(w) \/ list_cars(w)
              \/ \E o \in OwnerIds : list_by_owner(w, o)
       PROVE  Goal
  <2>1. WalkStep(w)
    BY <1>11 DEF WalkStep, list_users, list_owners, list_cars, list_by_owner, Lists
  <2>2. UNCHANGED <<tables, made, changes, req>>
    BY <2>1 DEF WalkStep, Count, Page, Turn, Start
  <2>3. RowsOk'
    BY <2>2, RowsKept DEF RowsOk, RequestsOk
  <2>. QED
    BY <2>1, <2>2, <2>3
<1>12. CASE UNCHANGED fleetVars
  <2>1. RequestsOk' /\ UNCHANGED <<tables, walk, made>>
    BY <1>12 DEF fleetVars, RowsOk, RequestsOk
  <2>. QED
    BY <2>1, RowsKept
<1>. QED
  BY <1>2, <1>3, <1>4, <1>5, <1>6, <1>7, <1>8, <1>9, <1>10, <1>11, <1>12 DEF FleetNext

-----------------------------------------------------------------------------
(* Walks *)

\* A list has finitely many rows.
LEMMA FiniteList ==
    ASSUME NEW us, NEW os, NEW cs, NEW l \in Lists,
           DOMAIN us \subseteq Users, DOMAIN os \subseteq OwnerIds,
           DOMAIN cs \subseteq Plates, IsFiniteSet(DOMAIN cs)
    PROVE  RowsIn(us, os, cs, l) \subseteq RowIds /\ IsFiniteSet(RowsIn(us, os, cs, l))
<1>1. IsFiniteSet(Users) /\ IsFiniteSet(OwnerIds)
  BY FleetConstants, FS_Interval DEF OwnerIds
<1>2. \/ RowsIn(us, os, cs, l) \in SUBSET Users
      \/ RowsIn(us, os, cs, l) \in SUBSET OwnerIds
      \/ RowsIn(us, os, cs, l) \in SUBSET DOMAIN cs
  BY DEF Lists, RowsIn
<1>. QED
  BY <1>1, <1>2, FS_Subset DEF RowIds

\* Before any row of a list there are fewer rows than all of them.
LEMMA ListFacts ==
    ASSUME RowsOk, NEW l \in Lists
    PROVE  /\ ListRows(l) \subseteq RowIds /\ IsFiniteSet(ListRows(l))
           /\ Cardinality(ListRows(l)) \in Nat
           /\ \A r \in ListRows(l) : /\ Position(l, r) \in Nat
                                     /\ Position(l, r) < Cardinality(ListRows(l))
<1>1. \/ l.table = "users" /\ ListRows(l) \subseteq DOMAIN users
      \/ l.table = "owners" /\ ListRows(l) \subseteq DOMAIN owners
      \/ l.table = "cars" /\ ListRows(l) \subseteq DOMAIN cars
  BY DEF Lists, ListRows, RowsIn
<1>2. ListRows(l) \subseteq RowIds /\ IsFiniteSet(ListRows(l)) /\ Cardinality(ListRows(l)) \in Nat
  BY FiniteList, FS_CardinalityType DEF RowsOk, TablesOk, RowsInv, ListRows
<1>3. \A r \in ListRows(l) : <<r, r>> \notin scan[l.table]
  <2>1. /\ scan["users"] \in Orders(DOMAIN users) /\ scan["owners"] \in Orders(DOMAIN owners)
        /\ scan["cars"] \in Orders(DOMAIN cars)
    BY DEF RowsOk, ScanOk
  <2>. QED
    BY <1>1, <2>1 DEF Orders
<1>4. ASSUME NEW r \in ListRows(l)
      PROVE  Position(l, r) \in Nat /\ Position(l, r) < Cardinality(ListRows(l))
  <2>. DEFINE S == ListRows(l)
              T == {a \in ListRows(l) : <<a, r>> \in scan[l.table]}
  <2>1. T \in SUBSET S /\ T # S
    BY <1>3
  <2>2. IsFiniteSet(T) /\ Cardinality(T) <= Cardinality(S) /\ Cardinality(T) # Cardinality(S)
    BY <1>2, <2>1, FS_Subset
  <2>3. Cardinality(T) \in Nat
    BY <2>2, FS_CardinalityType
  <2>4. Position(l, r) = Cardinality(T)
    BY DEF Position
  <2>. QED
    BY <1>2, <2>2, <2>3, <2>4
<1>. QED
  BY <1>2, <1>4

\* Inserts only push a row to the back.
LEMMA PositionGrows ==
    ASSUME RowsOk, RowsOk', NEW l \in Lists, ListRows(l) \subseteq ListRows(l)',
           \A a, b \in ListRows(l) : <<a, b>> \in scan[l.table] <=> <<a, b>> \in scan'[l.table],
           NEW r \in ListRows(l)
    PROVE  Position(l, r) <= Position(l, r)'
<1>. DEFINE S == {a \in ListRows(l) : <<a, r>> \in scan[l.table]}
            T == {a \in ListRows(l)' : <<a, r>> \in scan'[l.table]}
<1>1. S \in SUBSET T
  OBVIOUS
<1>2. IsFiniteSet(ListRows(l)')
  BY FiniteList DEF RowsOk, TablesOk, RowsInv, ListRows
<1>3. IsFiniteSet(T) /\ T \in SUBSET (ListRows(l)')
  BY <1>2, FS_Subset
<1>4. Cardinality(S) <= Cardinality(T)
  BY <1>1, <1>3, FS_Subset
<1>5. Position(l, r) = Cardinality(S) /\ Position(l, r)' = Cardinality(T)
  BY DEF Position
<1>. QED
  BY <1>4, <1>5

\* A walk that is still undisturbed after a step that writes rows keeps what it stands on.
LEMMA WatchedWalk ==
    ASSUME RowsOk, RowsOk', WalksOk, WalkInv, Watch
    PROVE  WalkInv'
<1>. SUFFICES ASSUME NEW w \in Walkers PROVE WalkOk(walk[w])'
  BY DEF WalkInv
<1>1. PICK l \in Lists : l = walk[w].list
  BY DEF WalksOk
<1>2. /\ walk'[w].pc = walk[w].pc /\ walk'[w].list = l
      /\ walk'[w].offset = walk[w].offset /\ walk'[w].total = walk[w].total
      /\ walk'[w].start = walk[w].start /\ walk'[w].seen = walk[w].seen
      /\ walk[w].pc \notin {"idle", "done"} =>
            (walk'[w].disturbed <=> walk[w].disturbed \/ Disturbs(walk[w]))
      /\ walk[w].pc \in {"idle", "done"} => walk'[w] = walk[w]
  BY <1>1, WatchStep
<1>3. WalkOk(walk[w])
  BY DEF WalkInv
<1>4. CASE walk[w].pc \in {"idle", "done"}
  BY <1>2, <1>3, <1>4 DEF WalkOk
<1>5. CASE walk[w].pc \notin {"idle", "done"} /\ ~walk'[w].disturbed
  <2>1. /\ ~walk[w].disturbed /\ ListRows(l) \subseteq ListRows(l)'
        /\ \A a, b \in ListRows(l) : <<a, b>> \in scan[l.table] <=> <<a, b>> \in scan'[l.table]
        /\ walk[w].pc = "counted" => ListRows(l)' = ListRows(l)
    BY <1>1, <1>2, <1>5 DEF Disturbs, ListRows
  <2>2. /\ walk[w].offset \in Nat /\ PageSize \in Nat
        /\ walk[w].offset + PageSize \in Nat
    BY FleetConstants DEF WalksOk
  <2>3. ASSUME NEW r \in ListRows(l), NEW n \in Nat, n <= Position(l, r)
        PROVE  r \in ListRows(l)' /\ n <= Position(l, r)'
    <3>1. Position(l, r) <= Position(l, r)' /\ Position(l, r) \in Nat
      BY <2>1, PositionGrows, ListFacts
    <3>2. Position(l, r)' \in Nat
      <4>1. IsFiniteSet({a \in ListRows(l)' : <<a, r>> \in scan'[l.table]})
        <5>1. IsFiniteSet(ListRows(l)')
          BY FiniteList DEF RowsOk, TablesOk, RowsInv, ListRows
        <5>. QED
          BY <5>1, FS_Subset
      <4>. QED
        BY <4>1, FS_CardinalityType DEF Position
    <3>. QED
      BY <2>1, <2>3, <3>1, <3>2
  <2>4. walk'[w].pc \in {"count", "counted"} =>
          \A r \in walk'[w].start \ walk'[w].seen :
              r \in ListRows(l)' /\ walk'[w].offset <= Position(l, r)'
    BY <1>1, <1>2, <1>3, <2>1, <2>2, <2>3 DEF WalkOk
  <2>5. walk'[w].pc = "counted" => walk'[w].total = Cardinality(ListRows(l)')
    BY <1>1, <1>2, <1>3, <2>1 DEF WalkOk
  <2>6. walk'[w].pc = "paged" =>
          \A r \in walk'[w].start \ walk'[w].seen :
              /\ r \in ListRows(l)' /\ walk'[w].offset + PageSize <= Position(l, r)'
              /\ walk'[w].offset + PageSize < walk'[w].total
    BY <1>1, <1>2, <1>3, <2>1, <2>2, <2>3 DEF WalkOk
  <2>7. (walk[w].list)' = l /\ walk'[w].pc # "done"
    BY <1>2, <1>5
  <2>8. /\ ListRows(walk[w].list)' = ListRows(l)'
        /\ \A r : Position(walk[w].list, r)' = Position(l, r)'
    BY <2>7 DEF ListRows, Position
  <2>. QED
    BY <2>4, <2>5, <2>6, <2>7, <2>8 DEF WalkOk
<1>6. CASE walk'[w].disturbed
  BY <1>6 DEF WalkOk
<1>. QED
  BY <1>4, <1>5, <1>6

\* While no row changes, a walk that does not move keeps what it stands on.
LEMMA StillWalk ==
    ASSUME UNCHANGED tables, NEW w \in Walkers, walk'[w] = walk[w], WalkOk(walk[w])
    PROVE  WalkOk(walk[w])'
<1>1. UNCHANGED <<users, owners, cars, scan>>
  BY DEF tables
<1>. QED
  BY <1>1 DEF WalkOk, ListRows, RowsIn, Position

WalkRecords == [pc : {"idle", "count", "counted", "paged", "done"}, list : Lists,
                offset : Nat, total : Nat, start : SUBSET RowIds, seen : SUBSET RowIds,
                disturbed : BOOLEAN]

\* A client starts, counts, reads a page, turns to the next one or stops.
LEMMA MovedWalk ==
    ASSUME RowsOk, WalksOk, WalkInv, UNCHANGED tables, NEW w \in Walkers, WalkStep(w)
    PROVE  WalksOk' /\ WalkInv'
<1>1. /\ walk[w] \in WalkRecords /\ WalkOk(walk[w])
      /\ walk \in [Walkers -> WalkRecords]
      /\ \A x \in Walkers : WalkOk(walk[x])
  BY DEF WalksOk, WalkInv, WalkRecords
<1>2. UNCHANGED <<users, owners, cars, scan>>
  BY DEF tables
<1>3. SUFFICES \E v \in WalkRecords : walk' = [walk EXCEPT ![w] = v] /\ WalkOk(v)
  <2>1. ASSUME NEW v \in WalkRecords, walk' = [walk EXCEPT ![w] = v], WalkOk(v)
        PROVE  WalksOk' /\ WalkInv'
    <3>1. walk' \in [Walkers -> WalkRecords] /\ walk'[w] = v
          /\ \A x \in Walkers \ {w} : walk'[x] = walk[x]
      BY <1>1, <2>1
    <3>2. WalkOk(walk[w])'
      BY <1>2, <2>1, <3>1 DEF WalkOk, ListRows, Position
    <3>3. \A x \in Walkers \ {w} : WalkOk(walk[x])'
      BY <1>1, <3>1, StillWalk
    <3>4. WalksOk'
      BY <3>1 DEF WalksOk, WalkRecords
    <3>. QED
      BY <3>2, <3>3, <3>4 DEF WalkInv
  <2>. QED
    BY <2>1
<1>4. PICK l \in Lists : l = walk[w].list
  BY <1>1 DEF WalkRecords
<1>5. ASSUME NEW k \in Lists, Start(w, k)
      PROVE  \E v \in WalkRecords : walk' = [walk EXCEPT ![w] = v] /\ WalkOk(v)
  <2>. DEFINE v == [NoWalk EXCEPT !.pc = "count", !.list = k, !.start = ListRows(k)]
  <2>1. ListRows(k) \subseteq RowIds /\ \A r \in ListRows(k) : Position(k, r) \in Nat
    BY ListFacts
  <2>2. v \in WalkRecords
    BY <2>1 DEF NoWalk, WalkRecords
  <2>3. /\ v.pc = "count" /\ v.list = k /\ v.start = ListRows(k) /\ v.offset = 0 /\ v.seen = {}
    BY DEF NoWalk
  <2>. HIDE DEF v
  <2>4. WalkOk(v)
    BY <2>1, <2>3 DEF WalkOk
  <2>5. walk' = [walk EXCEPT ![w] = v]
    BY <1>5 DEF Start, v
  <2>. QED
    BY <2>2, <2>4, <2>5
<1>6. ASSUME Count(w)
      PROVE  \E v \in WalkRecords : walk' = [walk EXCEPT ![w] = v] /\ WalkOk(v)
  <2>. DEFINE v == [walk[w] EXCEPT !.pc = "counted", !.total = Cardinality(ListRows(l))]
  <2>1. Cardinality(ListRows(l)) \in Nat
    BY ListFacts
  <2>2. v \in WalkRecords
    BY <1>1, <2>1 DEF WalkRecords
  <2>3. /\ walk[w].pc = "count" /\ v.pc = "counted" /\ v.list = l /\ v.total = Cardinality(ListRows(l))
        /\ v.offset = walk[w].offset /\ v.start = walk[w].start /\ v.seen = walk[w].seen
        /\ v.disturbed = walk[w].disturbed
    BY <1>1, <1>4, <1>6 DEF WalkRecords, Count
  <2>4. walk' = [walk EXCEPT ![w] = v]
    BY <1>1, <1>4, <1>6 DEF Count, Counted, WalkRecords
  <2>. HIDE DEF v
  <2>5. WalkOk(v)
    BY <1>1, <1>4, <2>3 DEF WalkOk
  <2>. QED
    BY <2>2, <2>4, <2>5
<1>7. ASSUME Page(w)
      PROVE  \E v \in WalkRecords : walk' = [walk EXCEPT ![w] = v] /\ WalkOk(v)
  <2>. DEFINE items == {r \in ListRows(l) :
                          Position(l, r) \in walk[w].offset..(walk[w].offset + PageSize - 1)}
              v == [walk[w] EXCEPT !.pc = "paged", !.seen = walk[w].seen \cup items]
  <2>1. /\ items \subseteq RowIds /\ Cardinality(ListRows(l)) \in Nat
        /\ \A r \in ListRows(l) : Position(l, r) \in Nat /\ Position(l, r) < Cardinality(ListRows(l))
    BY ListFacts
  <2>2. walk[w].offset \in Nat /\ PageSize \in Nat
    BY <1>1, FleetConstants DEF WalkRecords
  <2>3. /\ walk[w].pc = "counted" /\ walk' = [walk EXCEPT ![w] = v]
    BY <1>1, <1>4, <1>7 DEF Page, Offset, WalkRecords
  <2>4. \A r \in ListRows(l) \ items : walk[w].offset <= Position(l, r) =>
            walk[w].offset + PageSize <= Position(l, r)
    BY <2>1, <2>2
  <2>. HIDE DEF items
  <2>5. v \in WalkRecords
    BY <1>1, <2>1 DEF WalkRecords
  <2>6. /\ v.pc = "paged" /\ v.list = l /\ v.total = walk[w].total
        /\ v.offset = walk[w].offset /\ v.start = walk[w].start /\ v.seen = walk[w].seen \cup items
        /\ v.disturbed = walk[w].disturbed
    BY <1>1, <1>4 DEF WalkRecords
  <2>. HIDE DEF v
  <2>7. ASSUME ~v.disturbed, NEW r \in v.start \ v.seen
        PROVE  /\ r \in ListRows(l) /\ v.offset + PageSize <= Position(l, r)
               /\ v.offset + PageSize < v.total
    <3>1. r \in walk[w].start \ walk[w].seen /\ r \notin items /\ ~walk[w].disturbed
      BY <2>6, <2>7
    <3>2. /\ r \in ListRows(l) /\ walk[w].offset <= Position(l, r)
          /\ walk[w].total = Cardinality(ListRows(l))
      BY <1>1, <1>4, <2>3, <3>1 DEF WalkOk
    <3>3. walk[w].offset + PageSize <= Position(l, r) /\ Position(l, r) < walk[w].total
      BY <2>1, <2>4, <3>1, <3>2
    <3>. QED
      BY <2>1, <2>2, <2>6, <3>2, <3>3
  <2>8. WalkOk(v)
    BY <2>6, <2>7 DEF WalkOk
  <2>. QED
    BY <2>3, <2>5, <2>8
<1>8. ASSUME Turn(w)
      PROVE  \E v \in WalkRecords : walk' = [walk EXCEPT ![w] = v] /\ WalkOk(v)
  <2>1. walk[w].pc = "paged" /\ walk[w].offset \in Nat /\ PageSize \in Nat
    BY <1>1, <1>8, FleetConstants DEF Turn, WalkRecords
  <2>2. CASE walk[w].offset + PageSize < walk[w].total
    <3>. DEFINE next == walk[w].offset + PageSize
                v == [walk[w] EXCEPT !.pc = "count", !.offset = next]
    <3>1. walk' = [walk EXCEPT ![w] = v]
      BY <1>8, <2>2 DEF Turn
    <3>. next \in Nat
      BY <2>1
    <3>. HIDE DEF next
    <3>2. v \in WalkRecords
      BY <1>1 DEF WalkRecords
    <3>3. /\ v.pc = "count" /\ v.list = l /\ v.offset = next
          /\ v.start = walk[w].start /\ v.seen = walk[w].seen /\ v.disturbed = walk[w].disturbed
      BY <1>1, <1>4 DEF WalkRecords
    <3>. HIDE DEF v
    <3>4. WalkOk(v)
      BY <1>1, <1>4, <2>1, <3>3 DEF WalkOk, next
    <3>. QED
      BY <3>1, <3>2, <3>4
  <2>3. CASE ~(walk[w].offset + PageSize < walk[w].total)
    <3>. DEFINE v == [walk[w] EXCEPT !.pc = "done"]
    <3>1. walk' = [walk EXCEPT ![w] = v]
      BY <1>8, <2>3 DEF Turn
    <3>2. v \in WalkRecords
      BY <1>1 DEF WalkRecords
    <3>3. v.pc = "done" /\ v.start = walk[w].start /\ v.seen = walk[w].seen
          /\ v.disturbed = walk[w].disturbed
      BY <1>1 DEF WalkRecords
    <3>. HIDE DEF v
    <3>4. ~walk[w].disturbed => walk[w].start \subseteq walk[w].seen
      BY <1>1, <2>1, <2>3 DEF WalkOk
    <3>5. WalkOk(v)
      BY <3>3, <3>4 DEF WalkOk
    <3>. QED
      BY <3>1, <3>2, <3>5
  <2>. QED
    BY <2>2, <2>3
<1>. QED
  BY <1>5, <1>6, <1>7, <1>8 DEF WalkStep

-----------------------------------------------------------------------------
(* Theorems *)

LEMMA FleetParts == FleetInv <=> RowsOk /\ WalksOk /\ WalkInv
  BY TypeParts DEF FleetInv, RowsOk

LEMMA FleetInitInv == FleetInit => RowsOk /\ WalksOk /\ WalkInv
<1>. SUFFICES ASSUME FleetInit PROVE RowsOk /\ WalksOk /\ WalkInv
  OBVIOUS
<1>1. DOMAIN users = Users /\ DOMAIN owners = {} /\ DOMAIN cars = {}
  BY DEF FleetInit
<1>2. TablesOk
  BY <1>1 DEF FleetInit, TablesOk
<1>3. ScanOk
  <2>1. {} \in Orders({})
    BY DEF Orders
  <2>. QED
    BY <1>1, <2>1 DEF FleetInit, ScanOk
<1>4. RequestsOk
  BY FleetConstants DEF FleetInit, RequestsOk
<1>5. RowsInv /\ OwnershipIntact
  BY <1>1, FS_EmptySet DEF RowsInv, OwnershipIntact
<1>6. \A w \in Walkers : walk[w] = NoWalk
  BY DEF FleetInit
<1>7. WalksOk
  BY DEF FleetInit, WalksOk, NoWalk, Lists
<1>8. WalkInv
  BY <1>6 DEF WalkInv, WalkOk, NoWalk
<1>. QED
  BY <1>2, <1>3, <1>4, <1>5, <1>7, <1>8 DEF RowsOk

LEMMA FleetStep ==
    ASSUME RowsOk, WalksOk, WalkInv, [FleetNext]_fleetVars
    PROVE  RowsOk' /\ WalksOk' /\ WalkInv'
<1>1. /\ RowsOk'
      /\ \/ Watch
         \/ UNCHANGED <<tables, walk>>
         \/ UNCHANGED <<tables, made, changes, req>> /\ \E w \in Walkers : WalkStep(w)
  BY StepKinds
<1>2. CASE Watch
  BY <1>1, <1>2, WatchStep, WatchedWalk
<1>3. CASE UNCHANGED <<tables, walk>>
  <2>1. \A w \in Walkers : WalkOk(walk[w])'
    BY <1>3, StillWalk DEF WalkInv
  <2>. QED
    BY <1>1, <1>3, <2>1 DEF WalksOk, WalkInv
<1>4. ASSUME UNCHANGED <<tables, made, changes, req>>, NEW w \in Walkers, WalkStep(w)
      PROVE  WalksOk' /\ WalkInv'
  BY <1>4, MovedWalk
<1>. QED
  BY <1>1, <1>2, <1>3, <1>4

\* The strengthening is inductive.
THEOREM FleetInvariance == FleetSpec => []FleetInv
<1>1. FleetInit => FleetInv
  BY FleetInitInv, FleetParts
<1>2. FleetInv /\ [FleetNext]_fleetVars => FleetInv'
  <2>. SUFFICES ASSUME FleetInv, [FleetNext]_fleetVars PROVE FleetInv'
    OBVIOUS
  <2>1. RowsOk' /\ WalksOk' /\ WalkInv'
    BY FleetParts, FleetStep
  <2>. QED
    BY <2>1 DEF FleetInv, FleetTypeOK, RowsOk, TablesOk, ScanOk, WalksOk, RequestsOk
<1>. QED
  BY <1>1, <1>2, PTL DEF FleetSpec

\* Every row has its columns, and the rows of a table always lie in a linear order, so that
\* OFFSET and LIMIT mean one page.
THEOREM FleetTypeCorrect == FleetSpec => []FleetTypeOK
<1>1. FleetInv => FleetTypeOK
  BY DEF FleetInv
<1>. QED
  BY <1>1, FleetInvariance, PTL

\* No orphan, and one owner per user: whatever requests pass the lookup together, and
\* whoever is pruned or edited meanwhile.
THEOREM OwnershipHolds == FleetSpec => []OwnershipIntact
<1>1. FleetInv => OwnershipIntact
  BY DEF FleetInv
<1>. QED
  BY <1>1, FleetInvariance, PTL

\* Offset pagination over a table that only grows loses no row, for any page size, any
\* length of the list and any place an insert takes.
THEOREM WalkIsComplete == FleetSpec => []WalkSeesEveryRow
<1>1. FleetInv => WalkSeesEveryRow
  BY DEF FleetInv, WalkInv, WalkOk, WalkSeesEveryRow
<1>. QED
  BY <1>1, FleetInvariance, PTL
=============================================================================
