--------------------------- MODULE EventBusProofs ---------------------------
(***************************************************************************)
(* Proofs about EventBus, for any processes, requests, configurations and  *)
(* number of outages.                                                      *)
(***************************************************************************)
EXTENDS EventBus, TLAPS

\* A process between its two add_stream calls, or after them, was started by the NATS bus
\* and found in every stream it has passed what it would have created.
StreamInv ==
    /\ \A p \in Procs :
          /\ proc[p].pc # "down" => proc[p].config \in Configs
          /\ proc[p].pc \in {"connected", "events"} => enabled
          /\ proc[p].pc = "events" => streams["events"] = proc[p].config
          /\ (proc[p].pc \in {"bus", "up"} /\ enabled) => Fits(proc[p].config)
    /\ scheduler.pc \in {"connected", "events", "running"} => scheduler.config \in Configs
    /\ scheduler.pc = "events" => streams["events"] = scheduler.config
    /\ scheduler.pc = "running" => Fits(scheduler.config)

\* A process with a security cache has Redis for its general cache too, so an update that
\* got past its guard invalidates there.  No request is ahead of the row, and an update past
\* its handler left no older version in the cache.
CacheInv ==
    /\ \A p \in Procs : proc[p].security = "redis" => proc[p].cache = "redis"
    /\ \A q \in Requests : req[q].v <= version
    /\ \A q \in Updates :
          /\ req[q].pc \notin {"idle", "error"} => req[q].cache = "redis"
          /\ (req[q].pc \in {"record", "ok"} /\ (enabled => ~req[q].missed))
             => entry = Empty \/ entry >= req[q].v

\* Over NATS an update that got past its publish is in the stream.
AuditInv ==
    /\ audit \subseteq stream
    /\ \A q \in Updates : \/ enabled /\ req[q].pc \in {"handlers", "ok"}
                         \/ req[q].pc = "record"
                         => q \in stream

\* A transition about to commit has had its handlers.
NoteInv ==
    /\ committed \subseteq notes
    /\ \A q \in Transitions : req[q].pc = "commit" => q \in notes

IInv == TypeOK /\ StreamInv /\ CacheInv /\ AuditInv /\ NoteInv

-----------------------------------------------------------------------------
\* A step keeps every variable in its type.
LEMMA TypeStep ==
    ASSUME IInv, [Next]_vars
    PROVE  TypeOK'
<1> USE EventBusConstants DEF IInv, TypeOK, ProcStates, ReqStates, Requests, Empty, Down, world, data
<1>1. ASSUME NatsFlips PROVE TypeOK'
  BY <1>1 DEF NatsFlips
<1>2. ASSUME RedisFlips PROVE TypeOK'
  BY <1>2 DEF RedisFlips
<1>3. ASSUME NEW p \in Procs, NEW c \in Configs, create_event_bus(p, c) PROVE TypeOK'
  <2>. DEFINE r == [proc[p] EXCEPT !.pc = IF enabled THEN "connected" ELSE "bus", !.config = c]
  <2>1. proc[p] \in ProcStates
    OBVIOUS
  <2>2. r \in ProcStates
    BY <1>3, <2>1 DEF create_event_bus, ProcStates
  <2>3. proc' = [proc EXCEPT ![p] = r]
    BY <1>3 DEF create_event_bus
  <2>. HIDE DEF r
  <2>. QED
    BY <1>3, <2>2, <2>3 DEF create_event_bus
<1>4. ASSUME NEW p \in Procs, _ensure_stream(p, "events", "connected", "events") PROVE TypeOK'
  BY <1>4 DEF _ensure_stream, Accepts, Created, To
<1>5. ASSUME NEW p \in Procs, _ensure_stream(p, "dlq", "events", "bus") PROVE TypeOK'
  BY <1>5 DEF _ensure_stream, Accepts, Created, To
<1>6. ASSUME NEW p \in Procs, ConnectCaches(p) PROVE TypeOK'
  <2>. DEFINE r == [proc[p] EXCEPT !.pc = "up", !.cache = IF redis THEN "redis" ELSE "null",
                              !.security = SecurityCache(redis)]
  <2>1. proc[p] \in ProcStates
    OBVIOUS
  <2>2. r \in ProcStates
    BY <1>6, <2>1 DEF ConnectCaches, SecurityCache, ProcStates
  <2>3. proc' = [proc EXCEPT ![p] = r]
    BY <1>6 DEF ConnectCaches, SecurityCache
  <2>. HIDE DEF r
  <2>. QED
    BY <1>6, <2>2, <2>3 DEF ConnectCaches, SecurityCache
<1>7. ASSUME NEW p \in Procs, Crash(p) PROVE TypeOK'
  BY <1>7 DEF Crash
<1>8. ASSUME NEW p \in Procs, Logout(p) PROVE TypeOK'
  BY <1>8 DEF Logout
<1>9. ASSUME NEW p \in Procs, Fill(p) PROVE TypeOK'
  BY <1>9 DEF Fill
<1>10. ASSUME NEW p \in Procs, NEW q \in Updates, CommitUpdate(q, p) PROVE TypeOK'
  <2>. DEFINE pc == IF enabled THEN "publish" ELSE "handlers"
              r == [req[q] EXCEPT !.pc = pc, !.by = p, !.cache = proc[p].cache, !.v = version + 1]
  <2>1. req[q] \in ReqStates /\ proc[p].cache \in {"redis", "null"} /\ version + 1 \in Nat
    OBVIOUS
  <2>2. pc \in {"publish", "handlers"}
    OBVIOUS
  <2>3. req' = [req EXCEPT ![q] = r]
    BY <1>10 DEF CommitUpdate
  <2>. HIDE DEF pc
  <2>4. r \in ReqStates
    BY <2>1, <2>2
  <2>. HIDE DEF r
  <2>. QED
    BY <1>10, <2>3, <2>4 DEF CommitUpdate
<1>11. ASSUME NEW p \in Procs, NEW q \in Transitions, publish_durable(q, p) PROVE TypeOK'
  <2>1. PICK fails \in BOOLEAN :
          /\ notes' = IF fails THEN notes ELSE notes \cup {q}
          /\ req' = [req EXCEPT ![q] = [@ EXCEPT !.by = p,
                       !.pc = IF fails /\ Raises THEN "error" ELSE "commit"]]
    BY <1>11 DEF publish_durable
  <2>. DEFINE pc == IF fails /\ Raises THEN "error" ELSE "commit"
              r == [req[q] EXCEPT !.by = p, !.pc = pc]
  <2>2. pc \in {"error", "commit"} /\ req[q] \in ReqStates
    OBVIOUS
  <2>3. req' = [req EXCEPT ![q] = r]
    BY <2>1
  <2>. HIDE DEF pc
  <2>4. r \in ReqStates
    BY <2>2
  <2>. HIDE DEF r
  <2>5. notes' \subseteq Transitions
    BY <2>1
  <2>. QED
    <3>1. UNCHANGED <<enabled, world, streams, proc, version, entry, revoked, stream, audit,
                      committed, scheduler>>
      BY <1>11 DEF publish_durable
    <3>. QED
      BY <2>3, <2>4, <2>5, <3>1
<1>12. ASSUME NEW p \in Procs, NEW q \in Protected, Authenticate(q, p) PROVE TypeOK'
  <2>1. PICK pc \in {"error", "ok"} : req' = [req EXCEPT ![q].pc = pc, ![q].by = p]
    BY <1>12 DEF Authenticate
  <2>2. req[q] \in ReqStates
    OBVIOUS
  <2>. DEFINE r == [req[q] EXCEPT !.pc = pc, !.by = p]
  <2>3. r \in ReqStates
    BY <2>2
  <2>4. req' = [req EXCEPT ![q] = r]
    BY <2>1
  <2>. HIDE DEF r
  <2>. QED
    <3>1. UNCHANGED <<enabled, world, streams, proc, data, scheduler>>
      BY <1>12 DEF Authenticate
    <3>. QED
      BY <2>3, <2>4, <3>1
<1>13. ASSUME NEW q \in Updates, publish(q) PROVE TypeOK'
  BY <1>13 DEF publish, NotSent, Goto
<1>14. ASSUME NEW q \in Updates, invalidate_user_caches(q) PROVE TypeOK'
  <2>. DEFINE fails == req[q].cache = "redis" /\ ~redis
              pc == IF fails /\ ~enabled THEN "error" ELSE IF enabled THEN "record" ELSE "ok"
              r == [req[q] EXCEPT !.pc = pc, !.missed = fails]
  <2>1. fails \in BOOLEAN /\ pc \in {"error", "record", "ok"} /\ req[q] \in ReqStates
    OBVIOUS
  <2>2. req' = [req EXCEPT ![q].pc = pc, ![q].missed = fails] /\ entry' \in {Empty, entry}
    BY <1>14, Zenon DEF invalidate_user_caches, Raises
  <2>. HIDE DEF fails, pc
  <2>3. r \in ReqStates /\ req' = [req EXCEPT ![q] = r]
    BY <2>1, <2>2
  <2>. HIDE DEF r
  <2>. QED
    <3>1. UNCHANGED <<enabled, world, streams, proc, version, revoked, stream, audit, committed,
                      notes, scheduler>>
      BY <1>14 DEF invalidate_user_caches
    <3>2. entry' \in {Empty} \cup (0..version)
      BY <2>2
    <3>. QED
      BY <2>3, <3>1, <3>2
<1>15. ASSUME NEW q \in Updates, _record_event_store(q) PROVE TypeOK'
  BY <1>15 DEF _record_event_store, Goto
<1>16. ASSUME NEW q \in Transitions, CommitTransition(q) PROVE TypeOK'
  BY <1>16 DEF CommitTransition, Goto
<1>17. ASSUME NEW c \in Configs, SchedulerStart(c) PROVE TypeOK'
  BY <1>17 DEF SchedulerStart
<1>18. ASSUME NEW b \in Beats, SchedulerPublish(b) PROVE TypeOK'
  BY <1>18 DEF SchedulerPublish
<1>19. ASSUME SchedulerConnects PROVE TypeOK'
  BY <1>19 DEF SchedulerConnects, SchedulerEnsures, Accepts, Created
<1>20. CASE UNCHANGED vars
  BY <1>20 DEF vars
<1>. QED
  BY <1>1, <1>2, <1>3, <1>4, <1>5, <1>6, <1>7, <1>8, <1>9, <1>10, <1>11, <1>12, <1>13, <1>14, <1>15, <1>16, <1>17, <1>18, <1>19, <1>20 DEF Next, _ensure_streams

\* A step leaves every started process with its streams: a stream, once created, keeps
\* its configuration.
LEMMA StreamStep ==
    ASSUME IInv, [Next]_vars
    PROVE  StreamInv'
<1> USE EventBusConstants DEF IInv, TypeOK, ProcStates, ReqStates, Requests, Empty, Down, world, data, StreamInv, Fits
<1>1. ASSUME NatsFlips PROVE StreamInv'
  BY <1>1 DEF NatsFlips
<1>2. ASSUME RedisFlips PROVE StreamInv'
  BY <1>2 DEF RedisFlips
<1>3. ASSUME NEW p \in Procs, NEW c \in Configs, create_event_bus(p, c) PROVE StreamInv'
  BY <1>3 DEF create_event_bus
<1>4. ASSUME NEW p \in Procs, _ensure_stream(p, "events", "connected", "events") PROVE StreamInv'
  BY <1>4 DEF _ensure_stream, Accepts, Created, To
<1>5. ASSUME NEW p \in Procs, _ensure_stream(p, "dlq", "events", "bus") PROVE StreamInv'
  BY <1>5 DEF _ensure_stream, Accepts, Created, To
<1>6. ASSUME NEW p \in Procs, ConnectCaches(p) PROVE StreamInv'
  BY <1>6 DEF ConnectCaches, SecurityCache
<1>7. ASSUME NEW p \in Procs, Crash(p) PROVE StreamInv'
  BY <1>7 DEF Crash
<1>8. ASSUME NEW p \in Procs, Logout(p) PROVE StreamInv'
  BY <1>8 DEF Logout
<1>9. ASSUME NEW p \in Procs, Fill(p) PROVE StreamInv'
  BY <1>9 DEF Fill
<1>10. ASSUME NEW p \in Procs, NEW q \in Updates, CommitUpdate(q, p) PROVE StreamInv'
  BY <1>10 DEF CommitUpdate
<1>11. ASSUME NEW p \in Procs, NEW q \in Transitions, publish_durable(q, p) PROVE StreamInv'
  BY <1>11 DEF publish_durable, Raises
<1>12. ASSUME NEW p \in Procs, NEW q \in Protected, Authenticate(q, p) PROVE StreamInv'
  BY <1>12 DEF Authenticate
<1>13. ASSUME NEW q \in Updates, publish(q) PROVE StreamInv'
  BY <1>13 DEF publish, NotSent, Goto
<1>14. ASSUME NEW q \in Updates, invalidate_user_caches(q) PROVE StreamInv'
  BY <1>14 DEF invalidate_user_caches, Raises
<1>15. ASSUME NEW q \in Updates, _record_event_store(q) PROVE StreamInv'
  BY <1>15 DEF _record_event_store, Goto
<1>16. ASSUME NEW q \in Transitions, CommitTransition(q) PROVE StreamInv'
  BY <1>16 DEF CommitTransition, Goto
<1>17. ASSUME NEW c \in Configs, SchedulerStart(c) PROVE StreamInv'
  BY <1>17 DEF SchedulerStart
<1>18. ASSUME NEW b \in Beats, SchedulerPublish(b) PROVE StreamInv'
  BY <1>18 DEF SchedulerPublish
<1>19. ASSUME SchedulerConnects PROVE StreamInv'
  BY <1>19 DEF SchedulerConnects, SchedulerEnsures, Accepts, Created
<1>20. CASE UNCHANGED vars
  BY <1>20 DEF vars
<1>. QED
  BY <1>1, <1>2, <1>3, <1>4, <1>5, <1>6, <1>7, <1>8, <1>9, <1>10, <1>11, <1>12, <1>13, <1>14, <1>15, <1>16, <1>17, <1>18, <1>19, <1>20 DEF Next, _ensure_streams

\* A step leaves no older version behind an update that has invalidated.
LEMMA CacheStep ==
    ASSUME IInv, [Next]_vars
    PROVE  CacheInv'
<1> USE EventBusConstants DEF IInv, TypeOK, ProcStates, ReqStates, Requests, Empty, Down, world, data, CacheInv
<1>1. ASSUME NatsFlips PROVE CacheInv'
  BY <1>1 DEF NatsFlips
<1>2. ASSUME RedisFlips PROVE CacheInv'
  BY <1>2 DEF RedisFlips
<1>3. ASSUME NEW p \in Procs, NEW c \in Configs, create_event_bus(p, c) PROVE CacheInv'
  BY <1>3 DEF create_event_bus
<1>4. ASSUME NEW p \in Procs, _ensure_stream(p, "events", "connected", "events") PROVE CacheInv'
  BY <1>4 DEF _ensure_stream, Accepts, Created, To
<1>5. ASSUME NEW p \in Procs, _ensure_stream(p, "dlq", "events", "bus") PROVE CacheInv'
  BY <1>5 DEF _ensure_stream, Accepts, Created, To
<1>6. ASSUME NEW p \in Procs, ConnectCaches(p) PROVE CacheInv'
  BY <1>6 DEF ConnectCaches, SecurityCache
<1>7. ASSUME NEW p \in Procs, Crash(p) PROVE CacheInv'
  BY <1>7 DEF Crash
<1>8. ASSUME NEW p \in Procs, Logout(p) PROVE CacheInv'
  BY <1>8 DEF Logout
<1>9. ASSUME NEW p \in Procs, Fill(p) PROVE CacheInv'
  BY <1>9 DEF Fill
<1>10. ASSUME NEW p \in Procs, NEW q \in Updates, CommitUpdate(q, p) PROVE CacheInv'
  BY <1>10 DEF CommitUpdate
<1>11. ASSUME NEW p \in Procs, NEW q \in Transitions, publish_durable(q, p) PROVE CacheInv'
  BY <1>11 DEF publish_durable, Raises
<1>12. ASSUME NEW p \in Procs, NEW q \in Protected, Authenticate(q, p) PROVE CacheInv'
  BY <1>12 DEF Authenticate
<1>13. ASSUME NEW q \in Updates, publish(q) PROVE CacheInv'
  BY <1>13 DEF publish, NotSent, Goto
<1>14. ASSUME NEW q \in Updates, invalidate_user_caches(q) PROVE CacheInv'
  BY <1>14 DEF invalidate_user_caches, Raises
<1>15. ASSUME NEW q \in Updates, _record_event_store(q) PROVE CacheInv'
  BY <1>15 DEF _record_event_store, Goto
<1>16. ASSUME NEW q \in Transitions, CommitTransition(q) PROVE CacheInv'
  BY <1>16 DEF CommitTransition, Goto
<1>17. ASSUME NEW c \in Configs, SchedulerStart(c) PROVE CacheInv'
  BY <1>17 DEF SchedulerStart
<1>18. ASSUME NEW b \in Beats, SchedulerPublish(b) PROVE CacheInv'
  BY <1>18 DEF SchedulerPublish
<1>19. ASSUME SchedulerConnects PROVE CacheInv'
  BY <1>19 DEF SchedulerConnects, SchedulerEnsures, Accepts, Created
<1>20. CASE UNCHANGED vars
  BY <1>20 DEF vars
<1>. QED
  BY <1>1, <1>2, <1>3, <1>4, <1>5, <1>6, <1>7, <1>8, <1>9, <1>10, <1>11, <1>12, <1>13, <1>14, <1>15, <1>16, <1>17, <1>18, <1>19, <1>20 DEF Next, _ensure_streams

\* A step records and answers only what was sent.
LEMMA AuditStep ==
    ASSUME IInv, [Next]_vars
    PROVE  AuditInv'
<1> USE EventBusConstants DEF IInv, TypeOK, ProcStates, ReqStates, Requests, Empty, Down, world, data, AuditInv
<1>1. ASSUME NatsFlips PROVE AuditInv'
  BY <1>1 DEF NatsFlips
<1>2. ASSUME RedisFlips PROVE AuditInv'
  BY <1>2 DEF RedisFlips
<1>3. ASSUME NEW p \in Procs, NEW c \in Configs, create_event_bus(p, c) PROVE AuditInv'
  BY <1>3 DEF create_event_bus
<1>4. ASSUME NEW p \in Procs, _ensure_stream(p, "events", "connected", "events") PROVE AuditInv'
  BY <1>4 DEF _ensure_stream, Accepts, Created, To
<1>5. ASSUME NEW p \in Procs, _ensure_stream(p, "dlq", "events", "bus") PROVE AuditInv'
  BY <1>5 DEF _ensure_stream, Accepts, Created, To
<1>6. ASSUME NEW p \in Procs, ConnectCaches(p) PROVE AuditInv'
  BY <1>6 DEF ConnectCaches, SecurityCache
<1>7. ASSUME NEW p \in Procs, Crash(p) PROVE AuditInv'
  BY <1>7 DEF Crash
<1>8. ASSUME NEW p \in Procs, Logout(p) PROVE AuditInv'
  BY <1>8 DEF Logout
<1>9. ASSUME NEW p \in Procs, Fill(p) PROVE AuditInv'
  BY <1>9 DEF Fill
<1>10. ASSUME NEW p \in Procs, NEW q \in Updates, CommitUpdate(q, p) PROVE AuditInv'
  BY <1>10 DEF CommitUpdate
<1>11. ASSUME NEW p \in Procs, NEW q \in Transitions, publish_durable(q, p) PROVE AuditInv'
  BY <1>11 DEF publish_durable, Raises
<1>12. ASSUME NEW p \in Procs, NEW q \in Protected, Authenticate(q, p) PROVE AuditInv'
  BY <1>12 DEF Authenticate
<1>13. ASSUME NEW q \in Updates, publish(q) PROVE AuditInv'
  BY <1>13 DEF publish, NotSent, Goto
<1>14. ASSUME NEW q \in Updates, invalidate_user_caches(q) PROVE AuditInv'
  BY <1>14 DEF invalidate_user_caches, Raises
<1>15. ASSUME NEW q \in Updates, _record_event_store(q) PROVE AuditInv'
  <2>1. req[q].pc = "record" /\ req' = [req EXCEPT ![q].pc = "ok"]
    BY <1>15 DEF _record_event_store, Goto
  <2>2. audit' \subseteq audit \cup {q} /\ stream' = stream /\ enabled' = enabled
    BY <1>15 DEF _record_event_store
  <2>. QED
    BY <2>1, <2>2
<1>16. ASSUME NEW q \in Transitions, CommitTransition(q) PROVE AuditInv'
  BY <1>16 DEF CommitTransition, Goto
<1>17. ASSUME NEW c \in Configs, SchedulerStart(c) PROVE AuditInv'
  BY <1>17 DEF SchedulerStart
<1>18. ASSUME NEW b \in Beats, SchedulerPublish(b) PROVE AuditInv'
  BY <1>18 DEF SchedulerPublish
<1>19. ASSUME SchedulerConnects PROVE AuditInv'
  BY <1>19 DEF SchedulerConnects, SchedulerEnsures, Accepts, Created
<1>20. CASE UNCHANGED vars
  BY <1>20 DEF vars
<1>. QED
  BY <1>1, <1>2, <1>3, <1>4, <1>5, <1>6, <1>7, <1>8, <1>9, <1>10, <1>11, <1>12, <1>13, <1>14, <1>15, <1>16, <1>17, <1>18, <1>19, <1>20 DEF Next, _ensure_streams

\* A step commits no transition before its handlers ran.
LEMMA NoteStep ==
    ASSUME IInv, [Next]_vars
    PROVE  NoteInv'
<1> USE EventBusConstants DEF IInv, TypeOK, ProcStates, ReqStates, Requests, Empty, Down, world, data, NoteInv
<1>1. ASSUME NatsFlips PROVE NoteInv'
  BY <1>1 DEF NatsFlips
<1>2. ASSUME RedisFlips PROVE NoteInv'
  BY <1>2 DEF RedisFlips
<1>3. ASSUME NEW p \in Procs, NEW c \in Configs, create_event_bus(p, c) PROVE NoteInv'
  BY <1>3 DEF create_event_bus
<1>4. ASSUME NEW p \in Procs, _ensure_stream(p, "events", "connected", "events") PROVE NoteInv'
  BY <1>4 DEF _ensure_stream, Accepts, Created, To
<1>5. ASSUME NEW p \in Procs, _ensure_stream(p, "dlq", "events", "bus") PROVE NoteInv'
  BY <1>5 DEF _ensure_stream, Accepts, Created, To
<1>6. ASSUME NEW p \in Procs, ConnectCaches(p) PROVE NoteInv'
  BY <1>6 DEF ConnectCaches, SecurityCache
<1>7. ASSUME NEW p \in Procs, Crash(p) PROVE NoteInv'
  BY <1>7 DEF Crash
<1>8. ASSUME NEW p \in Procs, Logout(p) PROVE NoteInv'
  BY <1>8 DEF Logout
<1>9. ASSUME NEW p \in Procs, Fill(p) PROVE NoteInv'
  BY <1>9 DEF Fill
<1>10. ASSUME NEW p \in Procs, NEW q \in Updates, CommitUpdate(q, p) PROVE NoteInv'
  BY <1>10 DEF CommitUpdate
<1>11. ASSUME NEW p \in Procs, NEW q \in Transitions, publish_durable(q, p) PROVE NoteInv'
  BY <1>11 DEF publish_durable, Raises
<1>12. ASSUME NEW p \in Procs, NEW q \in Protected, Authenticate(q, p) PROVE NoteInv'
  BY <1>12 DEF Authenticate
<1>13. ASSUME NEW q \in Updates, publish(q) PROVE NoteInv'
  BY <1>13 DEF publish, NotSent, Goto
<1>14. ASSUME NEW q \in Updates, invalidate_user_caches(q) PROVE NoteInv'
  BY <1>14 DEF invalidate_user_caches, Raises
<1>15. ASSUME NEW q \in Updates, _record_event_store(q) PROVE NoteInv'
  BY <1>15 DEF _record_event_store, Goto
<1>16. ASSUME NEW q \in Transitions, CommitTransition(q) PROVE NoteInv'
  BY <1>16 DEF CommitTransition, Goto
<1>17. ASSUME NEW c \in Configs, SchedulerStart(c) PROVE NoteInv'
  BY <1>17 DEF SchedulerStart
<1>18. ASSUME NEW b \in Beats, SchedulerPublish(b) PROVE NoteInv'
  BY <1>18 DEF SchedulerPublish
<1>19. ASSUME SchedulerConnects PROVE NoteInv'
  BY <1>19 DEF SchedulerConnects, SchedulerEnsures, Accepts, Created
<1>20. CASE UNCHANGED vars
  BY <1>20 DEF vars
<1>. QED
  BY <1>1, <1>2, <1>3, <1>4, <1>5, <1>6, <1>7, <1>8, <1>9, <1>10, <1>11, <1>12, <1>13, <1>14, <1>15, <1>16, <1>17, <1>18, <1>19, <1>20 DEF Next, _ensure_streams

\* The inductive invariant holds in every reachable state.
THEOREM Invariance == Spec => []IInv
<1>1. Init => IInv
  <2>. SUFFICES ASSUME Init PROVE IInv
    OBVIOUS
  <2>. USE EventBusConstants DEF Init, Down, Empty, Requests
  <2>1. TypeOK
    <3>1. Down \in ProcStates
      BY DEF ProcStates
    <3>2. [pc |-> "idle", by |-> None, cache |-> "null", v |-> 0, missed |-> FALSE] \in ReqStates
      BY DEF ReqStates
    <3>3. proc \in [Procs -> ProcStates] /\ req \in [Updates \cup Transitions \cup Protected -> ReqStates]
      BY <3>1, <3>2
    <3>4. streams \in [{"events", "dlq"} -> Configs \cup {None}]
      OBVIOUS
    <3>5. entry \in {-1} \cup (0..version) /\ version \in Nat /\ outages \in 0..MaxOutages
      OBVIOUS
    <3>. QED
      BY <3>3, <3>4, <3>5, Zenon DEF TypeOK
  <2>2. StreamInv /\ AuditInv /\ NoteInv
    BY DEF StreamInv, AuditInv, NoteInv
  <2>3. CacheInv
    BY DEF CacheInv
  <2>. QED
    BY <2>1, <2>2, <2>3 DEF IInv
<1>2. IInv /\ [Next]_vars => IInv'
  BY TypeStep, StreamStep, CacheStep, AuditStep, NoteStep DEF IInv
<1>. QED
  BY <1>1, <1>2, PTL DEF Spec

\* The variables keep their types; with them, no process outside tests ever runs with a
\* security cache that accepts everything.
THEOREM TypeCorrect == Spec => []TypeOK
  BY Invariance, PTL DEF IInv

\* A process that serves over NATS, and a running scheduler, have both streams as they would
\* have created them.
THEOREM StreamsFit == Spec => []RunningHasStreams
<1>1. IInv => RunningHasStreams
  BY DEF IInv, StreamInv, RunningHasStreams, Fits
<1>. QED
  BY <1>1, Invariance, PTL

\* An answered update left no older version in the cache it was given.
THEOREM UpdatesInvalidate == Spec => []AnsweredIsInvalidated
<1>1. IInv => AnsweredIsInvalidated
  BY DEF IInv, CacheInv, AnsweredIsInvalidated
<1>. QED
  BY <1>1, Invariance, PTL

\* The event store and the answers of the API claim only events the stream has got.
THEOREM AuditIsHonest == Spec => []AuditImpliesSent
<1>1. IInv => AuditImpliesSent
  BY DEF IInv, AuditInv, AuditImpliesSent
<1>. QED
  BY <1>1, Invariance, PTL

\* With the in-memory bus every committed transition has its notification.
THEOREM Notified == Spec => []CommittedIsNotified
<1>1. IInv => CommittedIsNotified
  BY DEF IInv, NoteInv, CommittedIsNotified
<1>. QED
  BY <1>1, Invariance, PTL

\* A step accepts no request once the token is revoked.
LEMMA ClosedStep ==
    ASSUME IInv, [Next]_vars
    PROVE  \A r \in Protected : (req[r].pc # "ok" /\ req'[r].pc = "ok") => ~revoked
<1> USE EventBusConstants DEF IInv, TypeOK, ProcStates, ReqStates, Requests, Empty, Down, world, data
<1>. DEFINE Closed == \A r \in Protected : (req[r].pc # "ok" /\ req'[r].pc = "ok") => ~revoked
<1>1. ASSUME NatsFlips PROVE Closed
  BY <1>1 DEF NatsFlips
<1>2. ASSUME RedisFlips PROVE Closed
  BY <1>2 DEF RedisFlips
<1>3. ASSUME NEW p \in Procs, NEW c \in Configs, create_event_bus(p, c) PROVE Closed
  BY <1>3 DEF create_event_bus
<1>4. ASSUME NEW p \in Procs, _ensure_stream(p, "events", "connected", "events") PROVE Closed
  BY <1>4 DEF _ensure_stream, Accepts, Created, To
<1>5. ASSUME NEW p \in Procs, _ensure_stream(p, "dlq", "events", "bus") PROVE Closed
  BY <1>5 DEF _ensure_stream, Accepts, Created, To
<1>6. ASSUME NEW p \in Procs, ConnectCaches(p) PROVE Closed
  BY <1>6 DEF ConnectCaches, SecurityCache
<1>7. ASSUME NEW p \in Procs, Crash(p) PROVE Closed
  BY <1>7 DEF Crash
<1>8. ASSUME NEW p \in Procs, Logout(p) PROVE Closed
  BY <1>8 DEF Logout
<1>9. ASSUME NEW p \in Procs, Fill(p) PROVE Closed
  BY <1>9 DEF Fill
<1>10. ASSUME NEW p \in Procs, NEW q \in Updates, CommitUpdate(q, p) PROVE Closed
  BY <1>10 DEF CommitUpdate
<1>11. ASSUME NEW p \in Procs, NEW q \in Transitions, publish_durable(q, p) PROVE Closed
  BY <1>11 DEF publish_durable, Raises
<1>12. ASSUME NEW p \in Procs, NEW q \in Protected, Authenticate(q, p) PROVE Closed
  BY <1>12 DEF Authenticate
<1>13. ASSUME NEW q \in Updates, publish(q) PROVE Closed
  BY <1>13 DEF publish, NotSent, Goto
<1>14. ASSUME NEW q \in Updates, invalidate_user_caches(q) PROVE Closed
  BY <1>14 DEF invalidate_user_caches, Raises
<1>15. ASSUME NEW q \in Updates, _record_event_store(q) PROVE Closed
  BY <1>15 DEF _record_event_store, Goto
<1>16. ASSUME NEW q \in Transitions, CommitTransition(q) PROVE Closed
  BY <1>16 DEF CommitTransition, Goto
<1>17. ASSUME NEW c \in Configs, SchedulerStart(c) PROVE Closed
  BY <1>17 DEF SchedulerStart
<1>18. ASSUME NEW b \in Beats, SchedulerPublish(b) PROVE Closed
  BY <1>18 DEF SchedulerPublish
<1>19. ASSUME SchedulerConnects PROVE Closed
  BY <1>19 DEF SchedulerConnects, SchedulerEnsures, Accepts, Created
<1>20. CASE UNCHANGED vars
  BY <1>20 DEF vars
<1>. QED
  BY <1>1, <1>2, <1>3, <1>4, <1>5, <1>6, <1>7, <1>8, <1>9, <1>10, <1>11, <1>12, <1>13, <1>14, <1>15, <1>16, <1>17, <1>18, <1>19, <1>20 DEF Next, _ensure_streams

\* No process accepts a revoked token, those that started without Redis included.
THEOREM RefusesRevoked == Spec => FailsClosed
<1>1. IInv /\ [Next]_vars =>
        [\A q \in Protected : (req[q].pc # "ok" /\ req'[q].pc = "ok") => ~revoked]_vars
  BY ClosedStep
<1>. QED
  BY <1>1, Invariance, PTL DEF Spec, FailsClosed
=============================================================================
