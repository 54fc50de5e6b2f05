----------------------------- MODULE JobOrdering -----------------------------
(***************************************************************************)
(* Orders and their jobs: CreateOrderUseCase, TransitionJobStatusUseCase,  *)
(* the Job entity, JobStateMachine and the ordering repositories of        *)
(* app/modules/ordering, each request in one PostgreSQL transaction at the *)
(* default READ COMMITTED level, as durable_unit_of_work runs it.  The     *)
(* event each of them stages commits with it; Outbox takes it from there.  *)
(***************************************************************************)
EXTENDS Integers, Sequences, FiniteSets

CONSTANTS
    Creates,      \* requests that create an order
    Transitions,  \* requests that transition a job
    Jobs,         \* job ids
    Numbers,      \* order numbers
    NumberOf,     \* [Creates -> Numbers]: the order number a request asks for
    JobsOf,       \* [Creates -> Seq(Jobs)]: the jobs it lists, in this order
    NoJob, NoOrder

ASSUME OrderingAssumption ==
    /\ NumberOf \in [Creates -> Numbers]
    /\ JobsOf \in [Creates -> Seq(Jobs) \ {<<>>}]
    /\ Jobs \cap Numbers = {} /\ Creates \cap Transitions = {}
    /\ NoJob \notin Jobs /\ NoOrder \notin Creates

-----------------------------------------------------------------------------
(* JobStateMachine.                                                        *)

Statuses == {"PENDING", "RECEIVED_ARTWORK", "PREPRESS", "BATCHED", "HOLD",
             "CANCELED", "COMPLETE"}

TRANSITIONS ==
    [PENDING          |-> {"RECEIVED_ARTWORK", "HOLD", "CANCELED"},
     RECEIVED_ARTWORK |-> {"PREPRESS", "HOLD", "CANCELED"},
     PREPRESS         |-> {"BATCHED", "HOLD", "CANCELED"},
     BATCHED          |-> {"COMPLETE", "HOLD", "CANCELED"},
     HOLD             |-> {"PENDING", "CANCELED"},
     CANCELED         |-> {},
     COMPLETE         |-> {}]

FileEditableStatuses == {"PENDING", "HOLD"}

CanTransition(from, to) == to \in TRANSITIONS[from]

IsFileEditable(s) == s \in FileEditableStatuses

-----------------------------------------------------------------------------

VARIABLES
    orderOf,     \* committed orders: the request that created each number
    jobOf,       \* committed jobs: the request that created each job
    status,      \* committed job_status
    editable,    \* committed file_editable
    log,         \* committed JobStatusChanged events of each job, in commit order
    at,          \* where each request is
    inserted,    \* keys the open transaction of a create has inserted
    target,      \* a transition: its job
    seen,        \*   the status it was checked against
    wanted,      \*   the status it sets
    dirty,       \*   the columns its flush writes
    shown,       \*   the status its refresh read back
    overlapped   \* jobs that had two transitions open at once

dataVars == <<orderOf, jobOf, status, editable, log>>
createVars == <<inserted>>
transVars == <<target, seen, wanted, dirty, shown, overlapped>>
orderingVars == <<dataVars, at, createVars, transVars>>

Callers == Creates \cup Transitions

OrderingInit ==
    /\ orderOf = [n \in Numbers |-> NoOrder]
    /\ jobOf = [j \in Jobs |-> NoOrder]
    /\ status = [j \in Jobs |-> "PENDING"]
    /\ editable = [j \in Jobs |-> TRUE]
    /\ log = [j \in Jobs |-> <<>>]
    /\ at = [r \in Callers |-> "idle"]
    /\ inserted = [c \in Creates |-> <<>>]
    /\ target = [t \in Transitions |-> NoJob]
    /\ seen = [t \in Transitions |-> "PENDING"]
    /\ wanted = [t \in Transitions |-> "PENDING"]
    /\ dirty = [t \in Transitions |-> {}]
    /\ shown = [t \in Transitions |-> "PENDING"]
    /\ overlapped = {}

MoveTo(r, label) == at' = [at EXCEPT ![r] = label]

-----------------------------------------------------------------------------
(* CreateOrderUseCase.                                                     *)

\* The order, then its jobs, one INSERT each.
Keys(c) == <<NumberOf[c]>> \o JobsOf[c]
KeySet(c) == {inserted[c][i] : i \in DOMAIN inserted[c]}
NextKey(c) == Keys(c)[Len(inserted[c]) + 1]
Inserting(c) == at[c] = "insert" /\ Len(inserted[c]) < Len(Keys(c))

Exists(k) == IF k \in Jobs THEN jobOf[k] # NoOrder ELSE orderOf[k] # NoOrder

\* Mutant: the column is declared without unique=True.
TakenNever(c, k) == FALSE

\* The unique index already holds this key, committed or from this transaction.
Taken(c, k) == Exists(k) \/ k \in KeySet(c)

\* The open transaction whose uncommitted row the unique index waits for.
Blockers(c) == {d \in Creates \ {c} : Inserting(c) /\ NextKey(c) \in KeySet(d)}

\* The transactions a blocked INSERT waits for, directly or not.
WaitsFor(c) ==
    LET reach[n \in Nat] == IF n = 0 THEN Blockers(c)
                            ELSE reach[n - 1] \cup UNION {Blockers(d) : d \in reach[n - 1]}
    IN  reach[Cardinality(Creates)]

CreateBegin(c) ==
    /\ at[c] = "idle"
    /\ MoveTo(c, "insert")
    /\ UNCHANGED <<dataVars, createVars, transVars>>

\* session.flush() of the next row.
InsertRow(c) ==
    /\ Inserting(c)
    /\ Blockers(c) = {} /\ ~Taken(c, NextKey(c))
    /\ inserted' = [inserted EXCEPT ![c] = Append(@, NextKey(c))]
    /\ UNCHANGED <<dataVars, at, transVars>>

\* Mutant: the session is neither rolled back nor closed.
EndFailedOpen(c) ==
    /\ MoveTo(c, "failed")
    /\ UNCHANGED <<dataVars, createVars, transVars>>

\* The exception leaves the unit of work, which rolls back.
EndFailed(c) ==
    /\ MoveTo(c, "failed")
    /\ inserted' = [inserted EXCEPT ![c] = <<>>]
    /\ UNCHANGED <<dataVars, transVars>>

\* IntegrityError from the flush, or PostgreSQL breaks a cycle of waits.
InsertFails(c) ==
    /\ Inserting(c)
    /\ \/ Blockers(c) = {} /\ Taken(c, NextKey(c))
       \/ c \in WaitsFor(c)
    /\ EndFailed(c)

\* The connection or the process is lost.
CreateCrash(c) ==
    /\ at[c] = "insert"
    /\ EndFailed(c)

\* publish_durable stages OrderCreated and the unit of work commits.
CreateCommit(c) ==
    /\ at[c] = "insert" /\ ~Inserting(c)
    /\ orderOf' = [orderOf EXCEPT ![NumberOf[c]] = c]
    /\ jobOf' = [j \in Jobs |-> IF j \in KeySet(c) THEN c ELSE jobOf[j]]
    /\ inserted' = [inserted EXCEPT ![c] = <<>>]
    /\ MoveTo(c, "done")
    /\ UNCHANGED <<status, editable, log, transVars>>

-----------------------------------------------------------------------------
(* TransitionJobStatusUseCase.                                             *)

OpenOn(j) == {t \in Transitions : target[t] = j /\ at[t] \in {"checked", "update", "flushed"}}

\* get_by_id and Job.transition_to on the detached entity.
TransitionRead(t, j, new) ==
    /\ at[t] = "idle"
    /\ jobOf[j] # NoOrder /\ CanTransition(status[j], new)
    /\ target' = [target EXCEPT ![t] = j]
    /\ seen' = [seen EXCEPT ![t] = status[j]]
    /\ wanted' = [wanted EXCEPT ![t] = new]
    /\ overlapped' = overlapped \cup (IF OpenOn(j) = {} THEN {} ELSE {j})
    /\ MoveTo(t, "checked")
    /\ UNCHANGED <<dataVars, createVars, dirty, shown>>

\* JobNotFoundError or InvalidStatusTransitionError.
TransitionRejected(t, j, new) ==
    /\ at[t] = "idle"
    /\ jobOf[j] = NoOrder \/ ~CanTransition(status[j], new)
    /\ MoveTo(t, "failed")
    /\ UNCHANGED <<dataVars, createVars, transVars>>

\* Mutant: the mapper copies job_status only.
ColumnsChangedStatusOnly(t) == {c \in {"job_status"} : status[target[t]] # wanted[t]}

\* The columns map_job_to_model changes on the row as it reads now.
ColumnsChanged(t) ==
    {c \in {"job_status", "file_editable"} :
        \/ c = "job_status" /\ status[target[t]] # wanted[t]
        \/ c = "file_editable" /\ editable[target[t]] # IsFileEditable(wanted[t])}

\* update(): the row get_by_id loaded is referenced by nobody, so session.get
\* selects it again; only the columns that now differ are dirty.
UpdateReads(t) ==
    /\ at[t] = "checked"
    /\ dirty' = [dirty EXCEPT ![t] = ColumnsChanged(t)]
    /\ MoveTo(t, "update")
    /\ UNCHANGED <<dataVars, createVars, target, seen, wanted, shown, overlapped>>

\* The transactions that hold the row lock of job j.
Writers(j) == {t \in OpenOn(j) : at[t] = "flushed" /\ dirty[t] # {}}

\* The row as the transaction sees it after its UPDATE.
Written(t) == IF "job_status" \in dirty[t] THEN wanted[t] ELSE status[target[t]]

\* flush() and refresh(): an UPDATE waits for the row lock; nothing dirty, no UPDATE.
FlushAndRefresh(t) ==
    /\ at[t] = "update"
    /\ dirty[t] = {} \/ Writers(target[t]) = {}
    /\ shown' = [shown EXCEPT ![t] = Written(t)]
    /\ MoveTo(t, "flushed")
    /\ UNCHANGED <<dataVars, createVars, target, seen, wanted, dirty, overlapped>>

\* Mutant: the event is built from the entity before it was saved.
JobStatusChangedUnsaved(t) == [job |-> target[t], old |-> seen[t], new |-> seen[t]]

JobStatusChanged(t) == [job |-> target[t], old |-> seen[t], new |-> shown[t]]

\* publish_durable stages the event and the unit of work commits both.
TransitionCommit(t) ==
    LET j == target[t] IN
    /\ at[t] = "flushed"
    /\ status' = [status EXCEPT ![j] = Written(t)]
    /\ editable' = [editable EXCEPT ![j] =
                        IF "file_editable" \in dirty[t] THEN IsFileEditable(wanted[t]) ELSE @]
    /\ log' = [log EXCEPT ![j] = Append(@, JobStatusChanged(t))]
    /\ MoveTo(t, "done")
    /\ UNCHANGED <<orderOf, jobOf, createVars, transVars>>

\* The connection or the process is lost: nothing of it is committed.
TransitionCrash(t) ==
    /\ at[t] \in {"checked", "update", "flushed"}
    /\ MoveTo(t, "failed")
    /\ UNCHANGED <<dataVars, createVars, transVars>>

-----------------------------------------------------------------------------

\* The schema takes any string as the new status.
Requested == Statuses \cup {"UNKNOWN"}

CreateStep(c) == CreateBegin(c) \/ InsertRow(c) \/ InsertFails(c) \/ CreateCommit(c)

\* A transition that has been received runs on; receiving it is up to the client.
TransitionStep(t) == UpdateReads(t) \/ FlushAndRefresh(t) \/ TransitionCommit(t)

OrderingNext ==
    \/ \E c \in Creates : CreateStep(c) \/ CreateCrash(c)
    \/ \E t \in Transitions :
          \/ \E j \in Jobs, new \in Requested : TransitionRead(t, j, new) \/ TransitionRejected(t, j, new)
          \/ TransitionStep(t)
          \/ TransitionCrash(t)

OrderingSpec == OrderingInit /\ [][OrderingNext]_orderingVars

\* The event loop resumes a request whose statement has completed.
FairOrderingSpec ==
    /\ OrderingSpec
    /\ \A c \in Creates : WF_orderingVars(CreateStep(c))
    /\ \A t \in Transitions : WF_orderingVars(TransitionStep(t))

-----------------------------------------------------------------------------
(* Properties.                                                             *)

Event == [job : Jobs, old : Statuses, new : Statuses]

\* Every column holds a value the code's tables declare for it; job_status, which
\* the schema accepts as any string, holds a status of the state machine.
OrderingTypeOK ==
    /\ orderOf \in [Numbers -> Creates \cup {NoOrder}]
    /\ jobOf \in [Jobs -> Creates \cup {NoOrder}]
    /\ status \in [Jobs -> Statuses]
    /\ editable \in [Jobs -> BOOLEAN]
    /\ log \in [Jobs -> Seq(Event)]
    /\ at \in [Callers -> {"idle", "insert", "checked", "update", "flushed", "done", "failed"}]
    /\ inserted \in [Creates -> Seq(Jobs \cup Numbers)]
    /\ target \in [Transitions -> Jobs \cup {NoJob}]
    /\ seen \in [Transitions -> Statuses]
    /\ wanted \in [Transitions -> Statuses]
    /\ dirty \in [Transitions -> SUBSET {"job_status", "file_editable"}]
    /\ shown \in [Transitions -> Statuses]
    /\ overlapped \subseteq Jobs

\* CreateOrderUseCase is all or nothing: an order that was answered with success
\* keeps its number and every job it listed, whatever other requests ask for the
\* same number or jobs, and no job exists without the order that listed it.
OrdersAtomic ==
    /\ \A c \in Creates : at[c] = "done" =>
          orderOf[NumberOf[c]] = c /\ \A i \in DOMAIN JobsOf[c] : jobOf[JobsOf[c][i]] = c
    /\ \A j \in Jobs : jobOf[j] # NoOrder => orderOf[NumberOf[jobOf[j]]] = jobOf[j]

\* Where no two transitions of a job were ever open together, its events are one
\* legal path of the state machine from PENDING to the status now stored, and
\* file_editable is what the machine says of that status.
SerialHistory ==
    \A j \in Jobs \ overlapped :
        LET h == log[j] IN
        /\ \A i \in DOMAIN h : /\ h[i].new \in TRANSITIONS[h[i].old]
                               /\ h[i].old = IF i = 1 THEN "PENDING" ELSE h[i - 1].new
        /\ status[j] = IF h = <<>> THEN "PENDING" ELSE h[Len(h)].new
        /\ editable[j] = (status[j] \in {"PENDING", "HOLD"})

\* Whatever overlaps, JobStatusChanged events account for the data: the status a
\* job has, and the old status of every event, is PENDING or was announced by an
\* event committed before.
EventsExplainStatus ==
    \A j \in Jobs :
        LET h == log[j]
            announced(n) == {"PENDING"} \cup {h[i].new : i \in 1..n}
        IN  /\ status[j] \in announced(Len(h))
            /\ \A i \in DOMAIN h : h[i].old \in announced(i - 1)

\* JobStateMachine is the source of truth for status changes: no commit moves a
\* job's status along an edge its table does not have.
TransitionsAreValid ==
    [][\A j \in Jobs : status'[j] # status[j] => status'[j] \in TRANSITIONS[status[j]]]_orderingVars

\* Requests that insert the same unique keys in opposite orders do not wait for
\* each other forever: each one ends.
CreatesEnd == \A c \in Creates : <>(at[c] \in {"done", "failed"})

=============================================================================
