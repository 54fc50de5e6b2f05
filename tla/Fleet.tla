------------------------------- MODULE Fleet -------------------------------
(***************************************************************************)
(* Owners and cars under the users they belong to, and the paged lists of  *)
(* users, owners and cars.  A table is its rows and the order a scan meets *)
(* them in: no list states an ORDER BY, so an insert may land anywhere and *)
(* an update moves its row.                                                *)
(*                                                                         *)
(* A list is two statements, the count and the page, each of which sees    *)
(* what is committed when it starts.                                       *)
(***************************************************************************)
EXTENDS Naturals, FiniteSets, Functions

CONSTANTS
    Users, Plates,
    Requests,   \* calls of POST /owners, each handled once
    Walkers,    \* clients that walk through the pages of one list
    PageSize,
    MaxOwners,  \* bound: owners ever created
    MaxChanges  \* bound: changes of users and of the admin panel

ASSUME FleetConstants ==
    /\ IsFiniteSet(Users) /\ Users # {}
    /\ PageSize \in Nat \ {0} /\ MaxOwners \in Nat /\ MaxChanges \in Nat

VARIABLES
    users,    \* whether each user row passes the filter of the list of users
    owners,   \* the user_id of each owner row
    cars,     \* the owner_id of each car row, by its plate
    scan,     \* the order a scan meets the rows of each table in
    made, changes,  \* counters for the bounds
    req,
    walk

tables == <<users, owners, cars, scan>>
fleetVars == <<tables, made, changes, req, walk>>

OwnerIds == 1..MaxOwners
RowIds == Users \cup OwnerIds \cup Plates
Lists == {[table |-> t, of |-> 0] : t \in {"users", "owners", "cars"}}
             \cup {[table |-> "cars", of |-> o] : o \in OwnerIds}

\* A strict linear order of S, as the pairs <<a, b>> of a row and one that comes later.
Orders(S) == {o \in SUBSET (S \X S) :
    /\ \A a, b \in S : <<a, b>> \in o <=> a # b /\ <<b, a>> \notin o
    /\ \A a, b, c \in S : <<a, b>> \in o /\ <<b, c>> \in o => <<a, c>> \in o}

\* The rows that stay keep their order.
Kept(t, rest) == scan[t] \cap (rest \X rest)

\* An INSERT or an UPDATE writes the row anew: it comes after some first part of the others.
Written(t, rest, new) ==
    {Kept(t, rest) \cup (before \X {new}) \cup ({new} \X (rest \ before)) :
        before \in {B \in SUBSET rest : \A b \in B, a \in rest \ B : <<b, a>> \in scan[t]}}

Put(t, ids, new) == \E o \in Written(t, ids \ {new}, new) : scan' = [scan EXCEPT ![t] = o]

With(t, new, value) == [r \in DOMAIN t \cup {new} |-> IF r = new THEN value ELSE t[r]]

\* The rows of a list: list_all of the three repositories, and list_by_owner.  The list of
\* users is filtered, by deleted_at unless include_deleted and by status if one is asked for.
RowsIn(us, os, cs, l) == CASE l.table = "users"  -> {u \in DOMAIN us : us[u]}
                           [] l.table = "owners" -> DOMAIN os
                           [] l.table = "cars" /\ l.of = 0 -> DOMAIN cs
                           [] OTHER -> {p \in DOMAIN cs : cs[p] = l.of}

ListRows(l) == RowsIn(users, owners, cars, l)

\* How many rows of the list a scan meets before this one.
Position(l, r) == Cardinality({a \in ListRows(l) : <<a, r>> \in scan[l.table]})

\* A walk is disturbed when a row it may not have met yet leaves or moves, and when
\* rows come between a count and its page.
Disturbs(w) ==
    LET old == ListRows(w.list)
        new == RowsIn(users', owners', cars', w.list)
        t == w.list.table IN
    ~ /\ old \subseteq new
      /\ \A a, b \in old : <<a, b>> \in scan[t] <=> <<a, b>> \in scan'[t]
      /\ w.pc = "counted" => new = old

Watch == walk' = [w \in Walkers |-> IF walk[w].pc \in {"idle", "done"} THEN walk[w]
                                    ELSE [walk[w] EXCEPT !.disturbed = @ \/ Disturbs(walk[w])]]

NoWalk == [pc |-> "idle", list |-> [table |-> "users", of |-> 0], offset |-> 0, total |-> 0,
           start |-> {}, seen |-> {}, disturbed |-> FALSE]

FleetInit ==
    /\ users = [u \in Users |-> TRUE] /\ owners = <<>> /\ cars = <<>>
    /\ \E o \in Orders(Users) : scan = [users |-> o, owners |-> {}, cars |-> {}]
    /\ made = 0 /\ changes = 0
    /\ req = [q \in Requests |-> [pc |-> "idle", user |-> CHOOSE u \in Users : TRUE]]
    /\ walk = [w \in Walkers |-> NoWalk]

------------------------------------------------------------------------------
(* Owners and cars *)

get_by_user_id(u) == {o \in DOMAIN owners : owners[o] = u}

\* The lookup of CreateOwnerUseCase: 409 when the user has an owner.
create_owner(q, u) ==
    /\ req[q].pc = "idle"
    /\ req' = [req EXCEPT ![q] = [pc |-> IF get_by_user_id(u) = {} THEN "checked" ELSE "done",
                                  user |-> u]]
    /\ UNCHANGED <<tables, made, changes, walk>>

\* The foreign key and the unique index on user_id.
OwnerFits(u) == u \in DOMAIN users /\ get_by_user_id(u) = {}

\* The insert, or its IntegrityError.
InsertOwner(q) ==
    /\ req[q].pc = "checked"
    /\ req' = [req EXCEPT ![q].pc = "done"]
    /\ IF OwnerFits(req[q].user) /\ made < MaxOwners
       THEN /\ made' = made + 1
            /\ owners' = With(owners, made + 1, req[q].user)
            /\ Put("owners", DOMAIN owners, made + 1)
       ELSE UNCHANGED <<owners, scan, made>>
    /\ UNCHANGED <<users, cars, changes>> /\ Watch

\* create_car looks nothing up: the insert succeeds or raises.
create_car(p, o) ==
    /\ p \notin DOMAIN cars /\ o \in DOMAIN owners
    /\ cars' = With(cars, p, o) /\ Put("cars", DOMAIN cars, p)
    /\ UNCHANGED <<users, owners, made, changes, req>> /\ Watch

------------------------------------------------------------------------------
(* Users, and the admin panel *)

Edit == /\ changes < MaxChanges /\ changes' = changes + 1
        /\ UNCHANGED <<made, req>> /\ Watch

\* A user row is written anew (a status update, a soft delete, a restore) and enters or
\* leaves the filter, or not.
UpdateUser(u, listed) ==
    /\ u \in DOMAIN users
    /\ users' = With(users, u, listed) /\ Put("users", DOMAIN users, u)
    /\ UNCHANGED <<owners, cars>> /\ Edit

\* Mutant: ON DELETE CASCADE is missing on cars, and the key is not enforced.
CascadeOwnersOnly(us) ==
    /\ users' = Restrict(users, DOMAIN users \ us)
    /\ owners' = Restrict(owners, {o \in DOMAIN owners : owners[o] \notin us})
    /\ scan' = [scan EXCEPT !.users = Kept("users", DOMAIN users'),
                            !.owners = Kept("owners", DOMAIN owners')]
    /\ UNCHANGED cars

\* ON DELETE CASCADE from users to owners and from owners to cars.
Cascade(us) ==
    /\ users' = Restrict(users, DOMAIN users \ us)
    /\ owners' = Restrict(owners, {o \in DOMAIN owners : owners[o] \notin us})
    /\ cars' = Restrict(cars, {p \in DOMAIN cars : cars[p] \in DOMAIN owners'})
    /\ scan' = [users |-> Kept("users", DOMAIN users'), owners |-> Kept("owners", DOMAIN owners'),
                cars |-> Kept("cars", DOMAIN cars')]

delete(u) == u \in DOMAIN users /\ Cascade({u}) /\ Edit

\* The ORM clears owner_id of the owner's cars first, which the column refuses.
AdminDeletesOwner(o) ==
    /\ o \in DOMAIN owners /\ \A p \in DOMAIN cars : cars[p] # o
    /\ owners' = Restrict(owners, DOMAIN owners \ {o})
    /\ scan' = [scan EXCEPT !.owners = Kept("owners", DOMAIN owners \ {o})]
    /\ UNCHANGED <<users, cars>> /\ Edit

\* The form of an owner offers user_id.
AdminEditsOwner(o, u) ==
    /\ o \in DOMAIN owners /\ u \in DOMAIN users /\ get_by_user_id(u) \subseteq {o}
    /\ owners' = With(owners, o, u) /\ Put("owners", DOMAIN owners, o)
    /\ UNCHANGED <<users, cars>> /\ Edit

AdminEditsCar(p, o) ==
    /\ p \in DOMAIN cars /\ o \in DOMAIN owners
    /\ cars' = With(cars, p, o) /\ Put("cars", DOMAIN cars, p)
    /\ UNCHANGED <<users, owners>> /\ Edit

AdminDeletesCar(p) ==
    /\ p \in DOMAIN cars
    /\ cars' = Restrict(cars, DOMAIN cars \ {p})
    /\ scan' = [scan EXCEPT !.cars = Kept("cars", DOMAIN cars \ {p})]
    /\ UNCHANGED <<users, owners>> /\ Edit

------------------------------------------------------------------------------
(* A client walks through a list *)

Start(w, l) ==
    /\ walk[w].pc = "idle"
    /\ walk' = [walk EXCEPT ![w] = [NoWalk EXCEPT !.pc = "count", !.list = l,
                                                  !.start = ListRows(l)]]
    /\ UNCHANGED <<tables, made, changes, req>>

list_users(w) == Start(w, [table |-> "users", of |-> 0])
list_owners(w) == Start(w, [table |-> "owners", of |-> 0])
list_cars(w) == Start(w, [table |-> "cars", of |-> 0])
list_by_owner(w, o) == Start(w, [table |-> "cars", of |-> o])

Counted(l) == Cardinality(ListRows(l))

\* SELECT count(*) over the filtered query.
Count(w) ==
    /\ walk[w].pc = "count"
    /\ walk' = [walk EXCEPT ![w].pc = "counted", ![w].total = Counted(walk[w].list)]
    /\ UNCHANGED <<tables, made, changes, req>>

\* Mutant: after the first page the offset skips one row more.
OffsetSkipsOne(offset) == IF offset = 0 THEN 0 ELSE offset + 1

\* PaginationParams.offset, as the query uses it.
Offset(offset) == offset

\* OFFSET and LIMIT.
Page(w) ==
    /\ walk[w].pc = "counted"
    /\ LET from == Offset(walk[w].offset)
           l == walk[w].list
           items == {r \in ListRows(l) : Position(l, r) \in from..(from + PageSize - 1)} IN
       walk' = [walk EXCEPT ![w].pc = "paged", ![w].seen = @ \cup items]
    /\ UNCHANGED <<tables, made, changes, req>>

\* The client asks for the next page while total promises one.
Turn(w) ==
    /\ walk[w].pc = "paged"
    /\ LET v == walk[w]
           next == v.offset + PageSize IN
       walk' = [walk EXCEPT ![w] = IF next < v.total
                                   THEN [v EXCEPT !.pc = "count", !.offset = next]
                                   ELSE [v EXCEPT !.pc = "done"]]
    /\ UNCHANGED <<tables, made, changes, req>>

FleetNext ==
    \/ \E q \in Requests : InsertOwner(q) \/ \E u \in Users : create_owner(q, u)
    \/ \E p \in Plates : \/ AdminDeletesCar(p)
                         \/ \E o \in OwnerIds : create_car(p, o) \/ AdminEditsCar(p, o)
    \/ \E u \in Users : delete(u) \/ \E listed \in BOOLEAN : UpdateUser(u, listed)
    \/ \E o \in OwnerIds : AdminDeletesOwner(o) \/ \E u \in Users : AdminEditsOwner(o, u)
    \/ \E w \in Walkers : \/ Count(w) \/ Page(w) \/ Turn(w)
                          \/ list_users(w) \/ list_owners(w) \/ list_cars(w)
                          \/ \E o \in OwnerIds : list_by_owner(w, o)

FleetSpec == FleetInit /\ [][FleetNext]_fleetVars

------------------------------------------------------------------------------
\* Every row has its columns and its place in the scan of its table.
FleetTypeOK ==
    /\ DOMAIN users \subseteq Users /\ users \in [DOMAIN users -> BOOLEAN]
    /\ DOMAIN owners \subseteq OwnerIds /\ owners \in [DOMAIN owners -> Users]
    /\ DOMAIN cars \subseteq Plates /\ cars \in [DOMAIN cars -> OwnerIds]
    /\ scan \in [users : Orders(DOMAIN users), owners : Orders(DOMAIN owners), cars : Orders(DOMAIN cars)]
    /\ made \in 0..MaxOwners /\ changes \in 0..MaxChanges
    /\ req \in [Requests -> [pc : {"idle", "checked", "done"}, user : Users]]
    /\ walk \in [Walkers -> [pc : {"idle", "count", "counted", "paged", "done"}, list : Lists,
                             offset : Nat, total : Nat, start : SUBSET RowIds, seen : SUBSET RowIds,
                             disturbed : BOOLEAN]]

\* No owner without its user and no car without its owner, though the use cases look up
\* neither and users are pruned meanwhile; and a user has at most one owner, however many
\* requests passed the lookup together: with two, scalar_one_or_none in get_by_user_id
\* would fail for that user for good.
OwnershipIntact ==
    /\ \A o \in DOMAIN owners : owners[o] \in DOMAIN users
    /\ \A p \in DOMAIN cars : cars[p] \in DOMAIN owners
    /\ \A o1, o2 \in DOMAIN owners : owners[o1] = owners[o2] => o1 = o2

\* A client that reads page after page meets every row that was there when it began, even
\* while rows are inserted before the ones it reads, unless the walk was disturbed.
WalkSeesEveryRow ==
    \A w \in Walkers : (walk[w].pc = "done" /\ ~walk[w].disturbed) =>
        walk[w].start \subseteq walk[w].seen
=============================================================================
