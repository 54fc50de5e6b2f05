------------------------------ MODULE EventBus ------------------------------
(***************************************************************************)
(* The processes of the API over the two buses: what lifespan sets up once *)
(* and keeps until the process ends (the bus, the streams, the general and *)
(* the security cache), direct publish, publish_durable of the in-memory   *)
(* bus, and the scheduler.                                                 *)
(*                                                                         *)
(* A status update of a user commits and then publishes UserUpdatedEvent,  *)
(* whose local handler deletes the cached user.  The durable events of the *)
(* NATS bus are in Outbox, the races of the cache's readers in             *)
(* UserAccounts: a fill is one step here.                                  *)
(***************************************************************************)
EXTENDS Integers

CONSTANTS
    Procs,
    Updates,      \* requests that update the user and publish, each handled once
    Transitions,  \* requests that move a job with publish_durable, each handled once
    Protected,    \* requests that carry one access token, each handled once
    Beats,        \* bound: the events of the scheduler
    Configs,      \* the stream configurations that get deployed
    MaxOutages,   \* bound: how often NATS or Redis goes away
    None          \* no configuration, no process

ASSUME EventBusConstants ==
    /\ MaxOutages \in Nat /\ None \notin Configs \cup Procs
    /\ Updates \cap Transitions = {} /\ (Updates \cup Transitions) \cap Protected = {}

VARIABLES
    enabled,   \* NATS_ENABLED, the same for every process
    nats, redis,   \* reachable
    outages,
    streams,   \* the configuration each stream was created with
    proc,      \* the processes
    version,   \* the user row, as the number of committed updates
    entry,     \* the version in the cache
    revoked,   \* the token is in the blacklist
    req,       \* the requests
    stream, audit,   \* published events, rows of the event store
    committed, notes,   \* transitions, and those with a notification
    scheduler  \* a process of its own, on the same bus class

world == <<nats, redis, outages>>
data == <<version, entry, revoked, stream, audit, committed, notes>>
vars == <<enabled, world, streams, proc, data, req, scheduler>>

Requests == Updates \cup Transitions \cup Protected
Empty == -1   \* no entry
Down == [pc |-> "down", config |-> None, cache |-> "null", security |-> "none"]

Init ==
    /\ enabled \in BOOLEAN
    /\ nats \in BOOLEAN /\ redis \in BOOLEAN /\ outages = 0
    /\ streams = [s \in {"events", "dlq"} |-> None]
    /\ proc = [p \in Procs |-> Down]
    /\ version = 0 /\ entry = Empty /\ revoked = FALSE
    /\ req = [q \in Requests |-> [pc |-> "idle", by |-> None, cache |-> "null", v |-> 0,
                               missed |-> FALSE]]
    /\ stream = {} /\ audit = {} /\ committed = {} /\ notes = {}
    /\ scheduler = [pc |-> "down", config |-> None]

NatsFlips == /\ outages < MaxOutages \/ ~nats
             /\ nats' = ~nats /\ outages' = IF nats THEN outages + 1 ELSE outages
             /\ UNCHANGED <<enabled, redis, streams, proc, data, req, scheduler>>

RedisFlips == /\ outages < MaxOutages \/ ~redis
              /\ redis' = ~redis /\ outages' = IF redis THEN outages + 1 ELSE outages
              /\ UNCHANGED <<enabled, nats, streams, proc, data, req, scheduler>>

------------------------------------------------------------------------------
(* lifespan *)

To(p, pc) == proc' = [proc EXCEPT ![p].pc = pc]

create_event_bus(p, c) ==
    /\ proc[p].pc = "down" /\ enabled => nats
    /\ proc' = [proc EXCEPT ![p] = [@ EXCEPT !.pc = IF enabled THEN "connected" ELSE "bus",
                                            !.config = c]]
    /\ UNCHANGED <<enabled, world, streams, data, req, scheduler>>

\* Mutant: the BadRequestError of a stream that differs is swallowed.
AcceptsAny(c, s) == TRUE

\* add_stream creates the stream or finds the one it describes.
Accepts(c, s) == streams[s] \in {None, c}
Created(c, s) == [streams EXCEPT ![s] = IF @ = None THEN c ELSE @]

\* One of the two add_stream calls; any error ends the start.
_ensure_stream(p, s, from, to) ==
    /\ proc[p].pc = from
    /\ IF nats /\ Accepts(proc[p].config, s)
       THEN streams' = Created(proc[p].config, s) /\ To(p, to)
       ELSE proc' = [proc EXCEPT ![p] = Down] /\ UNCHANGED streams
    /\ UNCHANGED <<enabled, world, data, req, scheduler>>

_ensure_streams(p) == \/ _ensure_stream(p, "events", "connected", "events")
                      \/ _ensure_stream(p, "dlq", "events", "bus")

\* Mutant: outside tests, too, the security cache falls back to NullCache.
SecurityCacheOpen(up) == IF up THEN "redis" ELSE "null"

\* Without Redis the security cache stays unset, which answers 503.
SecurityCache(up) == IF up THEN "redis" ELSE "none"

\* The ping decides both caches until the process ends, and with them the handler that
\* invalidates.
ConnectCaches(p) ==
    /\ proc[p].pc = "bus"
    /\ proc' = [proc EXCEPT ![p] = [@ EXCEPT !.pc = "up",
                                            !.cache = IF redis THEN "redis" ELSE "null",
                                            !.security = SecurityCache(redis)]]
    /\ UNCHANGED <<enabled, world, streams, data, req, scheduler>>

\* The end of the process, wherever its requests are.
Crash(p) ==
    /\ proc[p].pc # "down"
    /\ proc' = [proc EXCEPT ![p] = Down]
    /\ req' = [q \in Requests |-> IF req[q].by = p /\ req[q].pc \notin {"ok", "error"}
                                  THEN [req[q] EXCEPT !.pc = "error"] ELSE req[q]]
    /\ UNCHANGED <<enabled, world, streams, data, scheduler>>

------------------------------------------------------------------------------
(* The requests *)

Goto(q, pc) == req' = [req EXCEPT ![q].pc = pc]

\* The update is committed before the publish.  Every endpoint that publishes
\* UserUpdatedEvent depends on the security cache, so that it answers 503 without one.
CommitUpdate(q, p) ==
    /\ req[q].pc = "idle" /\ proc[p].pc = "up" /\ proc[p].security # "none"
    /\ version' = version + 1
    /\ req' = [req EXCEPT ![q] = [@ EXCEPT !.pc = IF enabled THEN "publish" ELSE "handlers",
                                          !.by = p, !.cache = proc[p].cache, !.v = version + 1]]
    /\ UNCHANGED <<enabled, world, streams, proc, entry, revoked, stream, audit, committed,
                   notes, scheduler>>

\* What becomes of a request whose publish raises.
NotSent == "error"

\* _publish_to_nats comes first, and raises past the handlers and the event store.
publish(q) ==
    /\ req[q].pc = "publish"
    /\ Goto(q, IF nats THEN "handlers" ELSE NotSent)
    /\ stream' = IF nats THEN stream \cup {q} ELSE stream
    /\ UNCHANGED <<enabled, world, streams, proc, version, entry, revoked, audit, committed,
                   notes, scheduler>>

\* Mutant: the in-memory bus swallows what a handler raises, as the NATS bus does.
RaisesNever == FALSE

\* _invoke_local_handlers logs, InMemoryEventBus.publish lets it pass.
Raises == ~enabled

\* create_invalidate_user_caches_handler; its cache may be the NullCache, and Redis down.
invalidate_user_caches(q) ==
    /\ req[q].pc = "handlers" /\ q \in Updates
    /\ LET fails == req[q].cache = "redis" /\ ~redis IN
       /\ entry' = IF req[q].cache = "redis" /\ redis THEN Empty ELSE entry
       /\ req' = [req EXCEPT ![q].pc = IF fails /\ Raises THEN "error"
                                       ELSE IF enabled THEN "record" ELSE "ok",
                             ![q].missed = fails]
    /\ UNCHANGED <<enabled, world, streams, proc, version, revoked, stream, audit, committed,
                   notes, scheduler>>

\* A session of its own, whose failure is logged.
_record_event_store(q) ==
    /\ req[q].pc = "record"
    /\ audit' \in {audit, audit \cup {q}}
    /\ Goto(q, "ok")
    /\ UNCHANGED <<enabled, world, streams, proc, version, entry, revoked, stream, committed,
                   notes, scheduler>>

\* publish_durable of the in-memory bus: the handlers run inside the transaction, and
\* the notification is committed in a session of its own.
publish_durable(q, p) ==
    /\ ~enabled /\ req[q].pc = "idle" /\ proc[p].pc = "up"
    /\ \E fails \in BOOLEAN :
          /\ notes' = IF fails THEN notes ELSE notes \cup {q}
          /\ req' = [req EXCEPT ![q] = [@ EXCEPT !.by = p,
                       !.pc = IF fails /\ Raises THEN "error" ELSE "commit"]]
    /\ UNCHANGED <<enabled, world, streams, proc, version, entry, revoked, stream, audit,
                   committed, scheduler>>

CommitTransition(q) ==
    /\ req[q].pc = "commit"
    /\ \/ committed' = committed \cup {q} /\ Goto(q, "ok")
       \/ Goto(q, "error") /\ UNCHANGED committed
    /\ UNCHANGED <<enabled, world, streams, proc, version, entry, revoked, stream, audit, notes,
                   scheduler>>

\* get_security_cache_service: 503 when it is unset.  NullCache finds no token revoked.
Authenticate(q, p) ==
    /\ req[q].pc = "idle" /\ proc[p].pc = "up"
    /\ LET refuses == CASE proc[p].security = "none"  -> TRUE
                        [] proc[p].security = "redis" -> ~redis \/ revoked
                        [] OTHER -> FALSE IN
       req' = [req EXCEPT ![q].pc = IF refuses THEN "error" ELSE "ok", ![q].by = p]
    /\ UNCHANGED <<enabled, world, streams, proc, data, scheduler>>

Logout(p) ==
    /\ proc[p].pc = "up" /\ proc[p].security = "redis" /\ redis /\ ~revoked
    /\ revoked' = TRUE
    /\ UNCHANGED <<enabled, world, streams, proc, version, entry, stream, audit, committed,
                   notes, req, scheduler>>

\* A login or a profile request caches what it read.
Fill(p) ==
    /\ proc[p].pc = "up" /\ proc[p].cache = "redis" /\ redis /\ entry = Empty
    /\ entry' = version
    /\ UNCHANGED <<enabled, world, streams, proc, version, revoked, stream, audit, committed,
                   notes, req, scheduler>>

------------------------------------------------------------------------------
(* The scheduler, a process of its own whose bus has no handlers.  Whatever raises ends *)
(* it, and nothing in the deployment starts it again.                                   *)

SchedulerStart(c) ==
    /\ scheduler.pc = "down" /\ enabled /\ nats
    /\ scheduler' = [pc |-> "connected", config |-> c]
    /\ UNCHANGED <<enabled, world, streams, proc, data, req>>

\* One of the two add_stream calls of its connect.
SchedulerEnsures(s, from, to) ==
    /\ scheduler.pc = from
    /\ IF nats /\ Accepts(scheduler.config, s)
       THEN streams' = Created(scheduler.config, s) /\ scheduler' = [scheduler EXCEPT !.pc = to]
       ELSE scheduler' = [scheduler EXCEPT !.pc = "exited"] /\ UNCHANGED streams
    /\ UNCHANGED <<enabled, world, proc, data, req>>

SchedulerConnects == \/ SchedulerEnsures("events", "connected", "events")
                     \/ SchedulerEnsures("dlq", "events", "running")

SchedulerPublish(b) ==
    /\ scheduler.pc = "running" /\ b \notin stream
    /\ IF nats THEN /\ stream' = stream \cup {b} /\ audit' \in {audit, audit \cup {b}}
                    /\ UNCHANGED scheduler
       ELSE scheduler' = [scheduler EXCEPT !.pc = "exited"] /\ UNCHANGED <<stream, audit>>
    /\ UNCHANGED <<enabled, world, streams, proc, version, entry, revoked, committed, notes, req>>

Next ==
    \/ NatsFlips \/ RedisFlips
    \/ \E p \in Procs : \/ \E c \in Configs : create_event_bus(p, c)
                        \/ _ensure_streams(p) \/ ConnectCaches(p) \/ Crash(p)
                        \/ Logout(p) \/ Fill(p)
                        \/ \E q \in Updates : CommitUpdate(q, p)
                        \/ \E q \in Transitions : publish_durable(q, p)
                        \/ \E q \in Protected : Authenticate(q, p)
    \/ \E q \in Updates : publish(q) \/ invalidate_user_caches(q) \/ _record_event_store(q)
    \/ \E q \in Transitions : CommitTransition(q)
    \/ SchedulerConnects \/ \E c \in Configs : SchedulerStart(c)
    \/ \E b \in Beats : SchedulerPublish(b)

Spec == Init /\ [][Next]_vars

------------------------------------------------------------------------------
ProcStates == [pc : {"down", "connected", "events", "bus", "up"}, config : Configs \cup {None},
               cache : {"redis", "null"}, security : {"redis", "none"}]

ReqStates == [pc : {"idle", "publish", "handlers", "record", "commit", "ok", "error"},
              by : Procs \cup {None}, cache : {"redis", "null"}, v : Nat, missed : BOOLEAN]

TypeOK ==
    /\ enabled \in BOOLEAN /\ nats \in BOOLEAN /\ redis \in BOOLEAN
    /\ outages \in 0..MaxOutages
    /\ streams \in [{"events", "dlq"} -> Configs \cup {None}]
    /\ proc \in [Procs -> ProcStates]
    /\ version \in Nat /\ entry \in {Empty} \cup (0..version) /\ revoked \in BOOLEAN
    /\ req \in [Requests -> ReqStates]
    /\ stream \subseteq Updates \cup Beats /\ audit \subseteq Updates \cup Beats
    /\ committed \subseteq Transitions /\ notes \subseteq Transitions
    /\ scheduler \in [pc : {"down", "connected", "events", "running", "exited"},
                      config : Configs \cup {None}]

Fits(c) == streams["events"] = c /\ streams["dlq"] = c

\* A process that serves over NATS, and a scheduler that publishes, find both streams as
\* they would have created them, even when starts with different configurations race or
\* die between the two calls.
RunningHasStreams ==
    /\ \A p \in Procs : (proc[p].pc = "up" /\ enabled) => Fits(proc[p].config)
    /\ scheduler.pc = "running" => Fits(scheduler.config)

\* An update answered with success leaves no older version in the cache, unless its handler
\* failed over NATS: no process invalidates in a NullCache while others serve from Redis.
AnsweredIsInvalidated ==
    \A q \in Updates : (req[q].pc = "ok" /\ (enabled => ~req[q].missed))
        => entry = Empty \/ entry >= req[q].v

\* The event store never claims an event the stream has not got, and over NATS every
\* update answered with success was sent.
AuditImpliesSent ==
    /\ audit \subseteq stream
    /\ enabled => \A q \in Updates : req[q].pc = "ok" => q \in stream

\* With the in-memory bus no transition commits without its notification.
CommittedIsNotified == committed \subseteq notes

\* Once a token is revoked no process accepts it, those that started without Redis included.
FailsClosed ==
    [][\A q \in Protected : (req[q].pc # "ok" /\ req'[q].pc = "ok") => ~revoked]_vars
=============================================================================
