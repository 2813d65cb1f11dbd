--------------------------- MODULE Serving_proofs ---------------------------
(***************************************************************************)
(* What a gateway process starts with, tells about itself and lets in, for *)
(* every command line, every cluster, any number of connections, and any   *)
(* failures, signals and refreshes.                                        *)
(***************************************************************************)
EXTENDS Serving, FiniteSetTheorems, TLAPS

-----------------------------------------------------------------------------
(* Constants and helpers.                                                  *)

\* The steps of run, by number.
LEMMA StepsShape ==
  /\ Len(Steps) = 15 /\ Serving = 16 /\ Draining = 17 /\ Exited = 18
  /\ Steps[1] = "ensure_dedup" /\ Steps[2] = "ensure_membership"
  /\ Steps[3] = "membership_reader" /\ Steps[4] = "publisher"
  /\ Steps[5] = "readiness_watcher" /\ Steps[6] = "engine" /\ Steps[7] = "ownership"
  /\ Steps[8] = "forwarder" /\ Steps[9] = "codec" /\ Steps[10] = "outbound"
  /\ Steps[11] = "produce" /\ Steps[12] = "authz" /\ Steps[13] = "signal"
  /\ Steps[14] = "tls_watch" /\ Steps[15] = "bind"
  BY DEF Steps, Serving, Draining, Exited

\* The numbers of the steps that the argument mentions.
LEMMA StepNumbers ==
  ASSUME NEW i \in 1..15
  PROVE  /\ Steps[i] = "ensure_dedup" <=> i = 1
         /\ Steps[i] = "ensure_membership" <=> i = 2
         /\ Steps[i] = "ownership" <=> i = 7
         /\ Steps[i] = "tls_watch" <=> i = 14
  <1>1. \/ i = 1 \/ i = 2 \/ i = 3 \/ i = 4 \/ i = 5 \/ i = 6 \/ i = 7 \/ i = 8 \/ i = 9
        \/ i = 10 \/ i = 11 \/ i = 12 \/ i = 13 \/ i = 14 \/ i = 15
    OBVIOUS
  <1> QED
    BY <1>1, StepsShape

\* A window that the command line accepts is passed on as it was written.
LEMMA WindowExact ==
  ASSUME NEW ms \in Nat, protocol_millis_i64(ms)
  PROVE  quantity(ms) = ms
  BY WidthAssumption DEF protocol_millis_i64, quantity

\* A quantity of milliseconds stays one.
LEMMA QuantityType ==
  ASSUME NEW ms \in Nat
  PROVE  quantity(ms) \in Nat
  BY WidthAssumption DEF quantity

\* Optional flags have the type of their default.
LEMMA OrType ==
  ASSUME NEW T, NEW s \in Seq(T), NEW d \in T
  PROVE  Or(s, d) \in T
  BY DEF Or

-----------------------------------------------------------------------------
(* Startup.                                                                *)

Topics == [partitions : Nat, retention : Nat, replicas : Nat, own : BOOLEAN]

StartupTypes ==
  /\ \E p \in Profiles : args = p.args
  /\ step \in 1..18
  /\ rf \in Nat
  /\ \/ rf = runtime_config(args).replication_factor
     \/ rf = 1 /\ runtime_config(args).allow_fallback
  /\ topics \in [InternalTopics -> Topics]

\* A process that has begun was given a command line that main accepts, has
\* passed by no topic, and has created them as it was asked to.
Created ==
  /\ step < 18 => configured(args)
  /\ 1 < step /\ step < 18 => topics["dedup"] # NoTopic
  /\ 2 < step /\ step < 18 => topics["membership"] # NoTopic
  /\ \A t \in InternalTopics : topics[t].own =>
       /\ topics[t].partitions = topic_configs(args, t).partitions
       /\ topics[t].retention = topic_configs(args, t).retention

StartupInv == StartupTypes /\ Created

\* What the flags are.
LEMMA ArgsTyped ==
  ASSUME \E p \in Profiles : args = p.args
  PROVE  /\ args \in Args
         /\ runtime_config(args).replication_factor \in Nat
         /\ runtime_config(args).allow_fallback \in BOOLEAN
         /\ \A t \in InternalTopics :
              topic_configs(args, t).partitions \in Nat /\ topic_configs(args, t).retention \in Nat
  <1>1. args \in Args
    BY ProfilesAssumption
  <1>2. /\ args.replication_factor \in Seq(Nat) /\ args.allow_fallback \in Seq(BOOLEAN)
        /\ args.dedup_window \in Nat /\ args.dedup_partitions \in Nat
    BY <1>1 DEF Args
  <1>3. Or(args.replication_factor, 3) \in Nat
    BY <1>2, OrType
  <1>4. Or(args.allow_fallback, TRUE) \in BOOLEAN
    BY <1>2, OrType
  <1>5. quantity(args.dedup_window) \in Nat
    BY <1>2, QuantityType
  <1> QED
    BY <1>1, <1>2, <1>3, <1>4, <1>5 DEF runtime_config, topic_configs

\* At the start: a command line, no topic of the process's own.
LEMMA StartupInit == Init => StartupInv
  <1> SUFFICES ASSUME Init PROVE StartupInv
    OBVIOUS
  <1>1. \E p \in Profiles : args = p.args
    BY DEF Init
  <1>2. StartupTypes
    <2>1. step \in 1..18 /\ rf = runtime_config(args).replication_factor
      BY StepsShape DEF Init
    <2>2. NoTopic \in Topics
      BY DEF Topics, NoTopic
    <2>3. topics \in [InternalTopics -> Topics]
      BY <2>2 DEF Init
    <2> QED
      BY <1>1, <2>1, <2>3, ArgsTyped DEF StartupTypes
  <1>3. Created
    BY StepsShape DEF Init, Created, NoTopic, InternalTopics
  <1> QED
    BY <1>2, <1>3 DEF StartupInv

\* Who writes the progress of run and its topics.
LEMMA StartupFrame ==
  ASSUME [Next]_vars
  PROVE  \/ UNCHANGED <<args, step, rf, topics>>
         \/ \E t \in InternalTopics : EnsureTopic(t) \/ FallBack(t) \/ OtherCreates(t)
         \/ step <= Len(Steps) /\ step' = step + 1 /\ UNCHANGED <<args, rf, topics>>
            /\ Steps[step] \notin {"ensure_dedup", "ensure_membership"}
         \/ step' = Exited /\ UNCHANGED <<args, rf, topics>>
         \/ StopAccepting
  <1>1. CASE UNCHANGED vars
    BY <1>1 DEF vars
  <1>2. CASE Startup
    BY <1>2 DEF Startup, StartStep, StartFails, Exit, startup
  <1>3. CASE Watcher
    BY <1>3 DEF Watcher, Check, Publish, Sleep, WatcherRetires, startup
  <1>4. CASE Supervision
    BY <1>4 DEF Supervision, TaskEnds, Cancel, startup
  <1>5. CASE \E c \in Conns : Connection(c)
    BY <1>5 DEF Connection, Accept, Handshake, Request, Authorize, Respond, ClientLeaves,
       Graceful, startup
  <1>6. CASE Drain
    BY <1>6 DEF Drain, drain_connections, Exit, startup
  <1>7. CASE Refresh
    BY <1>7 DEF Refresh, RefreshAcls, RefreshMalformed, RefreshFails, ReloadTls,
       RefresherStops, startup
  <1>8. CASE Outside
    BY <1>8 DEF Outside, FirstAssignment, WarmthChanges, Signal, SignalEarly, AclsChange,
       FileChanges, Exit, startup
  <1> QED
    BY <1>1, <1>2, <1>3, <1>4, <1>5, <1>6, <1>7, <1>8 DEF Next, Finished

\* One step per writer.
LEMMA StartupStep ==
  ASSUME StartupInv, [Next]_vars
  PROVE  StartupInv'
  <1>0. StartupTypes /\ Created
    BY DEF StartupInv
  <1>a. /\ runtime_config(args).replication_factor \in Nat
        /\ \A t \in InternalTopics :
             topic_configs(args, t).partitions \in Nat /\ topic_configs(args, t).retention \in Nat
    BY <1>0, ArgsTyped DEF StartupTypes
  <1> HIDE DEF topic_configs, runtime_config, configured
  <1>1. CASE UNCHANGED <<args, step, rf, topics>>
    BY <1>0, <1>1 DEF StartupInv, StartupTypes, Created
  <1>2. ASSUME NEW t \in InternalTopics, EnsureTopic(t) PROVE StartupInv'
    <2>1. /\ UNCHANGED args /\ rf' = runtime_config(args).replication_factor /\ step' = step + 1
          /\ (t = "dedup" => step = 1) /\ (t = "membership" => step = 2) /\ step \in 1..2
      BY <1>0, <1>2, StepsShape, StepNumbers DEF EnsureTopic, Ensuring, Starting, StartupTypes, InternalTopics
    <2>2. /\ topics' \in [InternalTopics -> Topics] /\ topics'[t] # NoTopic
          /\ \A x \in InternalTopics : x # t => topics'[x] = topics[x]
          /\ \A x \in InternalTopics : topics'[x].own =>
               /\ topics'[x].partitions = topic_configs(args, x).partitions
               /\ topics'[x].retention = topic_configs(args, x).retention
      <3>1. CASE topics[t] = NoTopic
        <4>1. PICK n : n = [partitions |-> topic_configs(args, t).partitions,
                            retention |-> topic_configs(args, t).retention,
                            replicas |-> rf, own |-> TRUE]
          OBVIOUS
        <4>2. topics' = [topics EXCEPT ![t] = n]
          BY <1>2, <3>1, <4>1 DEF EnsureTopic
        <4>3. /\ n \in Topics /\ n # NoTopic
              /\ n.partitions = topic_configs(args, t).partitions
              /\ n.retention = topic_configs(args, t).retention
          BY <1>0, <1>a, <4>1 DEF Topics, NoTopic, StartupTypes
        <4> QED
          BY <1>0, <4>2, <4>3 DEF StartupTypes, Created
      <3>2. CASE topics[t] # NoTopic
        <4>1. UNCHANGED topics
          BY <1>2, <3>2 DEF EnsureTopic
        <4> QED
          BY <1>0, <3>2, <4>1 DEF StartupTypes, Created
      <3> QED
        BY <3>1, <3>2
    <2>3. StartupTypes'
      BY <1>0, <1>a, <2>1, <2>2 DEF StartupTypes
    <2>4. Created'
      BY <1>0, <2>1, <2>2 DEF Created, InternalTopics
    <2> QED
      BY <2>3, <2>4 DEF StartupInv
  <1>3. ASSUME NEW t \in InternalTopics, FallBack(t) PROVE StartupInv'
    <2>1. /\ UNCHANGED <<args, topics>>
          /\ \/ rf' = 1 /\ runtime_config(args).allow_fallback /\ UNCHANGED step
             \/ UNCHANGED rf /\ step' = 18
      BY <1>3, StepsShape DEF FallBack, fallback, Exit
    <2> QED
      BY <1>0, <2>1 DEF StartupInv, StartupTypes, Created
  <1>4. ASSUME NEW t \in InternalTopics, OtherCreates(t) PROVE StartupInv'
    <2>1. PICK n : n = [partitions |-> 1, retention |-> 1, replicas |-> 1, own |-> FALSE]
      OBVIOUS
    <2>2. n \in Topics /\ n # NoTopic /\ ~n.own
      BY <2>1 DEF Topics, NoTopic
    <2>3. UNCHANGED <<args, step, rf>> /\ topics' = [topics EXCEPT ![t] = n]
      BY <1>4, <2>1 DEF OtherCreates
    <2> QED
      BY <1>0, <2>2, <2>3 DEF StartupInv, StartupTypes, Created, InternalTopics
  <1>5. CASE /\ step <= Len(Steps) /\ step' = step + 1 /\ UNCHANGED <<args, rf, topics>>
             /\ Steps[step] \notin {"ensure_dedup", "ensure_membership"}
    <2>1. 2 < step /\ step \in 1..15
      BY <1>0, <1>5, StepsShape, StepNumbers DEF StartupTypes
    <2> QED
      BY <1>0, <1>5, <2>1 DEF StartupInv, StartupTypes, Created
  <1>6. CASE step' = Exited /\ UNCHANGED <<args, rf, topics>>
    BY <1>0, <1>6, StepsShape DEF StartupInv, StartupTypes, Created
  <1>7. CASE StopAccepting
    <2>1. step = 16 /\ step' = 17 /\ UNCHANGED <<args, rf, topics>>
      BY <1>7, StepsShape DEF StopAccepting, Listening, startup
    <2> QED
      BY <1>0, <2>1 DEF StartupInv, StartupTypes, Created
  <1> QED
    BY <1>1, <1>2, <1>3, <1>4, <1>5, <1>6, <1>7, StartupFrame

-----------------------------------------------------------------------------
(* Tasks, readiness, supervision.                                          *)

TaskTypes ==
  /\ task \in [Tasks -> {"absent", "running", "reporting", "ended"}]
  /\ ready \in BOOLEAN /\ cancelled \in BOOLEAN /\ warm \in BOOLEAN
  /\ watcher \in {"absent", "check", "warm", "cold", "wait", "stop", "done"}
  /\ found \subseteq {"callback", "publisher", "engine"}

\* The ownership task exists only after the step that spawns it.
SpawnedLate == task["ownership"] # "absent" => 7 < step

TaskInv == TaskTypes /\ SpawnedLate /\ FirstAssignmentPrepared

\* At the start there is no task.
LEMMA TaskInit == Init => TaskInv
  <1> SUFFICES ASSUME Init PROVE TaskInv
    OBVIOUS
  <1>1. ready = FALSE /\ cancelled = FALSE /\ warm = FALSE /\ watcher = "absent" /\ found = {}
        /\ task = [t \in Tasks |-> "absent"]
    BY DEF Init
  <1>2. "ownership" \in Tasks
    BY DEF Tasks, Supervised
  <1> QED
    BY <1>1, <1>2 DEF TaskInv, TaskTypes, SpawnedLate, FirstAssignmentPrepared

\* The end of the process spawns nothing.
LEMMA ExitTasks ==
  ASSUME TaskInv, StartupTypes, Exit, UNCHANGED readiness
  PROVE  TaskInv'
  <1>1. task' \in [Tasks -> {"absent", "running", "reporting", "ended"}]
    BY DEF TaskInv, TaskTypes, Exit
  <1>2. step' = 18
    BY StepsShape DEF Exit
  <1> QED
    BY <1>1, <1>2 DEF TaskInv, TaskTypes, SpawnedLate, FirstAssignmentPrepared, readiness

\* A task that exists changes its state, and readiness is not set.
LEMMA TaskMoves ==
  ASSUME TaskInv, StartupTypes, NEW t \in Tasks, NEW v \in {"reporting", "ended"},
         task[t] # "absent", task' = [task EXCEPT ![t] = v],
         ready' \in BOOLEAN, ready' => ready, cancelled' \in BOOLEAN, warm' \in BOOLEAN,
         UNCHANGED <<step, watcher, found>>
  PROVE  TaskInv'
  <1>1. TaskTypes'
    BY DEF TaskInv, TaskTypes
  <1>2. SpawnedLate'
    BY DEF TaskInv, TaskTypes, SpawnedLate
  <1>3. FirstAssignmentPrepared'
    BY DEF TaskInv, FirstAssignmentPrepared
  <1> QED
    BY <1>1, <1>2, <1>3 DEF TaskInv

\* What a step of the startup does to the tasks.
LEMMA StartStepTasks ==
  ASSUME TaskInv, StartupTypes, StartStep
  PROVE  TaskInv'
  <1>1. /\ step \in 1..15 /\ step' = step + 1
        /\ UNCHANGED <<ready, cancelled, warm, found>>
    BY StepsShape DEF StartStep, StartupTypes
  <1>2. Spawns(Steps[step]) => Steps[step] \in Tasks
    BY DEF Spawns, Tasks, Supervised
  <1>3. task' \in [Tasks -> {"absent", "running", "reporting", "ended"}]
    BY <1>2 DEF StartStep, TaskInv, TaskTypes
  <1>4. task'["ownership"] # "absent" => task["ownership"] # "absent" \/ step = 7
    <2>1. PICK n : n = Steps[step]
      OBVIOUS
    <2>2. n = "ownership" => step = 7
      BY <1>1, <2>1, StepNumbers
    <2>3. task' = IF Spawns(n) THEN [task EXCEPT ![n] = "running"] ELSE task
      BY <2>1 DEF StartStep
    <2>4. n # "ownership" => task'["ownership"] = task["ownership"]
      BY <2>3 DEF TaskInv, TaskTypes, Tasks, Supervised
    <2> QED
      BY <2>2, <2>4
  <1>5. watcher' \in {watcher, "check"}
    BY DEF StartStep
  <1>6. TaskTypes'
    BY <1>1, <1>3, <1>5 DEF TaskInv, TaskTypes
  <1>7. SpawnedLate'
    BY <1>1, <1>4 DEF TaskInv, SpawnedLate
  <1>8. FirstAssignmentPrepared'
    BY <1>1, <1>5 DEF TaskInv, FirstAssignmentPrepared
  <1> QED
    BY <1>6, <1>7, <1>8 DEF TaskInv

\* The first assignment comes after the publisher and the engine are there.
LEMMA FirstAssignmentTasks ==
  ASSUME TaskInv, StartupTypes, FirstAssignment
  PROVE  TaskInv'
  <1>1. /\ Running /\ task["ownership"] = "running"
        /\ found' = {"callback"} \cup {s \in {"publisher", "engine"} : Past(s)}
        /\ UNCHANGED <<step, task, ready, cancelled, warm, watcher>>
    BY DEF FirstAssignment
  <1>2. 7 < step /\ step \in 1..18
    BY <1>1 DEF TaskInv, SpawnedLate, StartupTypes
  <1>3. Past("publisher")
    <2>1. 4 \in 1..Len(Steps) /\ Steps[4] = "publisher" /\ 4 < step
      BY <1>2, StepsShape
    <2> QED
      BY <1>1, <2>1 DEF Past
  <1>4. Past("engine")
    <2>1. 6 \in 1..Len(Steps) /\ Steps[6] = "engine" /\ 6 < step
      BY <1>2, StepsShape
    <2> QED
      BY <1>1, <2>1 DEF Past
  <1>5. found' = {"callback", "publisher", "engine"}
    BY <1>1, <1>3, <1>4
  <1> QED
    BY <1>1, <1>5 DEF TaskInv, TaskTypes, SpawnedLate, FirstAssignmentPrepared

\* The watcher copies warmth into the flag until it has seen the token.
LEMMA WatcherTasks ==
  ASSUME TaskInv, Watcher
  PROVE  TaskInv'
  <1>1. UNCHANGED <<step, task, cancelled, warm, found>>
    BY DEF Watcher, Check, Publish, Sleep, WatcherRetires
  <1>2. /\ ready' \in BOOLEAN
        /\ watcher' \in {"absent", "check", "warm", "cold", "wait", "stop", "done"}
        /\ watcher' = "done" => ready' = FALSE
    <2>1. CASE Check
      BY <2>1 DEF Check, TaskInv, TaskTypes
    <2>2. CASE Publish
      BY <2>2 DEF Publish, set_ready, TaskInv, TaskTypes
    <2>3. CASE Sleep
      BY <2>3 DEF Sleep, TaskInv, TaskTypes
    <2>4. CASE WatcherRetires
      BY <2>4 DEF WatcherRetires, Retire, TaskInv, TaskTypes
    <2> QED
      BY <2>1, <2>2, <2>3, <2>4 DEF Watcher
  <1> QED
    BY <1>1, <1>2 DEF TaskInv, TaskTypes, SpawnedLate, FirstAssignmentPrepared

\* Steps that move run on, or nothing of this at all.
LEMMA TasksUntouched ==
  ASSUME TaskInv, step' >= step, step \in Nat, step' \in Nat, UNCHANGED <<task, readiness>>
  PROVE  TaskInv'
  BY DEF TaskInv, TaskTypes, SpawnedLate, FirstAssignmentPrepared, readiness

\* One step per writer.
LEMMA TaskStep ==
  ASSUME StartupInv, TaskInv, [Next]_vars
  PROVE  TaskInv'
  <1>0. StartupTypes /\ step \in Nat
    BY DEF StartupInv, StartupTypes
  <1>1. CASE UNCHANGED <<step, task, readiness>>
    BY <1>0, <1>1, TasksUntouched
  <1>2. CASE Startup
    <2>1. CASE StartStep
      BY <1>0, <2>1, StartStepTasks
    <2>2. CASE StartFails
      BY <1>0, <2>2, ExitTasks DEF StartFails
    <2>3. ASSUME NEW t \in InternalTopics, EnsureTopic(t) PROVE TaskInv'
      BY <1>0, <2>3, TasksUntouched DEF EnsureTopic
    <2>4. ASSUME NEW t \in InternalTopics, FallBack(t) PROVE TaskInv'
      <3>1. CASE fallback
        BY <1>0, <2>4, <3>1, TasksUntouched DEF FallBack
      <3>2. CASE ~fallback
        BY <1>0, <2>4, <3>2, ExitTasks DEF FallBack
      <3> QED
        BY <3>1, <3>2
    <2> QED
      BY <1>2, <2>1, <2>2, <2>3, <2>4 DEF Startup
  <1>3. CASE Watcher
    BY <1>3, WatcherTasks
  <1>4. CASE Supervision
    <2>1. ASSUME NEW t \in Supervised, TaskEnds(t) PROVE TaskInv'
      <3>1. t \in Tasks
        BY DEF Tasks
      <3>2. PICK v : v = IF cancelled THEN "ended" ELSE "reporting"
        OBVIOUS
      <3>3. /\ v \in {"reporting", "ended"} /\ task[t] = "running" /\ task' = [task EXCEPT ![t] = v]
            /\ UNCHANGED <<step, watcher, found, cancelled>>
        BY <2>1, <3>2 DEF TaskEnds, report
      <3>4. ready' = (ready /\ cancelled) /\ warm' = (warm /\ t # "ownership")
        BY <2>1 DEF TaskEnds, report
      <3>5. ready' \in BOOLEAN /\ (ready' => ready) /\ warm' \in BOOLEAN /\ cancelled' \in BOOLEAN
        BY <3>3, <3>4 DEF TaskInv, TaskTypes
      <3> QED
        BY <1>0, <3>1, <3>3, <3>5, TaskMoves
    <2>2. ASSUME NEW t \in Supervised \cup {"signal"}, Cancel(t) PROVE TaskInv'
      <3>1. t \in Tasks
        BY DEF Tasks
      <3>2. /\ task[t] = "reporting" /\ task' = [task EXCEPT ![t] = "ended"] /\ cancelled' = TRUE
            /\ UNCHANGED <<step, watcher, found, ready, warm>>
        BY <2>2 DEF Cancel, cancel
      <3>3. ready' \in BOOLEAN /\ (ready' => ready) /\ warm' \in BOOLEAN /\ cancelled' \in BOOLEAN
        BY <3>2 DEF TaskInv, TaskTypes
      <3> QED
        BY <1>0, <3>1, <3>2, <3>3, TaskMoves
    <2> QED
      BY <1>4, <2>1, <2>2 DEF Supervision
  <1>5. CASE \E c \in Conns : Connection(c)
    BY <1>5, <1>1 DEF Connection, Accept, Handshake, Request, Authorize, Respond, ClientLeaves, Graceful
  <1>6. CASE StopAccepting
    <2>1. step = 16 /\ step' = 17 /\ UNCHANGED <<task, readiness>>
      BY <1>6, StepsShape DEF StopAccepting, Listening
    <2> QED
      BY <2>1, TasksUntouched
  <1>7. CASE Drain
    BY <1>0, <1>7, ExitTasks DEF Drain, drain_connections
  <1>8. CASE Refresh
    <2>1. CASE RefreshAcls \/ RefreshMalformed \/ RefreshFails \/ ReloadTls
      BY <1>1, <2>1 DEF RefreshAcls, RefreshMalformed, RefreshFails, ReloadTls, acl_refresh_failed
    <2>2. ASSUME NEW t \in {"authz", "tls_watch"}, RefresherStops(t) PROVE TaskInv'
      <3>1. t \in Tasks
        BY DEF Tasks
      <3>2. /\ task[t] = "running" /\ task' = [task EXCEPT ![t] = "ended"]
            /\ UNCHANGED <<step, watcher, found, ready, warm, cancelled>>
        BY <2>2 DEF RefresherStops, readiness
      <3>3. ready' \in BOOLEAN /\ (ready' => ready) /\ warm' \in BOOLEAN /\ cancelled' \in BOOLEAN
        BY <3>2 DEF TaskInv, TaskTypes
      <3> QED
        BY <1>0, <3>1, <3>2, <3>3, TaskMoves
    <2> QED
      BY <1>8, <2>1, <2>2 DEF Refresh
  <1>9. CASE Outside
    <2>1. CASE FirstAssignment
      BY <1>0, <2>1, FirstAssignmentTasks
    <2>2. CASE WarmthChanges
      BY <2>2 DEF WarmthChanges, TaskInv, TaskTypes, SpawnedLate, FirstAssignmentPrepared
    <2>3. CASE Signal
      <3>1. /\ task["signal"] = "running" /\ task' = [task EXCEPT !["signal"] = "reporting"] /\ ready' = FALSE
            /\ UNCHANGED <<step, watcher, found, warm, cancelled>> /\ "signal" \in Tasks
        BY <2>3 DEF Signal, Tasks
      <3>2. ready' \in BOOLEAN /\ (ready' => ready) /\ warm' \in BOOLEAN /\ cancelled' \in BOOLEAN
        BY <3>1 DEF TaskInv, TaskTypes
      <3> QED
        BY <1>0, <3>1, <3>2, TaskMoves
    <2>4. CASE SignalEarly
      BY <1>0, <2>4, ExitTasks DEF SignalEarly
    <2>5. CASE AclsChange \/ FileChanges \/ \E t \in InternalTopics : OtherCreates(t)
      BY <1>1, <2>5 DEF AclsChange, FileChanges, OtherCreates
    <2> QED
      BY <1>9, <2>1, <2>2, <2>3, <2>4, <2>5 DEF Outside
  <1>10. CASE UNCHANGED vars
    BY <1>1, <1>10 DEF vars, readiness
  <1> QED
    BY <1>2, <1>3, <1>4, <1>5, <1>6, <1>7, <1>8, <1>9, <1>10 DEF Next, Finished

-----------------------------------------------------------------------------
(* What the refreshers keep.                                               *)

Entries == [principal : STRING, permission : STRING, pattern : STRING]

\* The snapshot is empty or one that the broker held; a process that serves
\* with TLS has a certificate.
RefreshInv ==
  /\ acls \in held /\ held \subseteq AclStates \cup {{}}
  /\ cache = {} \/ cache \in held
  /\ file \in [version : Nat \ {0}, good : BOOLEAN]
  /\ tls \in 0..file.version
  /\ args.tls_cert /\ 14 < step /\ step < 18 => 0 < tls

\* At the start.
LEMMA RefreshInit == Init => RefreshInv
  <1> SUFFICES ASSUME Init PROVE RefreshInv
    OBVIOUS
  <1>1. acls \in AclStates \cup {{}} /\ held = {acls} /\ cache = {}
    BY DEF Init
  <1>2. file = [version |-> 1, good |-> TRUE] /\ tls = 0
    BY DEF Init
  <1>3. step = 1 \/ step = 18
    BY StepsShape DEF Init
  <1> QED
    BY <1>1, <1>2, <1>3 DEF RefreshInv

\* A malformed answer is not taken.
LEMMA MalformedRefused ==
  ASSUME RefreshInv, NEW bad \in acls
  PROVE  fetch((acls \ {bad}) \cup {[bad EXCEPT !.pattern = "match"]}) = cache
  <1>1. acls \subseteq Entries
    BY ProfilesAssumption DEF RefreshInv, Entries
  <1>2. [bad EXCEPT !.pattern = "match"].pattern = "match"
    BY <1>1 DEF Entries
  <1> QED
    BY <1>2 DEF fetch

\* Who writes what is refreshed, and the step it is compared with.
LEMMA RefreshStep ==
  ASSUME StartupInv, RefreshInv, [Next]_vars
  PROVE  RefreshInv'
  <1>0. step \in 1..18 /\ UNCHANGED args
    <2>1. step \in 1..18
      BY DEF StartupInv, StartupTypes
    <2>2. UNCHANGED args
      BY StartupFrame DEF EnsureTopic, FallBack, OtherCreates, StopAccepting, startup
    <2> QED
      BY <2>1, <2>2
  <1>1. CASE UNCHANGED <<step, refreshed>>
    BY <1>0, <1>1 DEF RefreshInv, refreshed
  <1>2. CASE step' = 18 /\ UNCHANGED refreshed
    BY <1>2 DEF RefreshInv, refreshed
  <1>3. CASE StartStep
    <2>1. /\ step \in 1..15 /\ step' = step + 1 /\ UNCHANGED <<acls, cache, held, file>>
          /\ tls' = IF Starting("tls_watch") /\ args.tls_cert THEN file.version ELSE tls
      BY <1>0, <1>3, StepsShape DEF StartStep
    <2>2. Starting("tls_watch") <=> step = 14
      BY <2>1, StepsShape, StepNumbers DEF Starting
    <2>3. tls' \in 0..file.version /\ (args.tls_cert /\ 14 < step' => 0 < tls')
      BY <1>0, <2>1, <2>2 DEF RefreshInv
    <2> QED
      BY <1>0, <2>1, <2>3 DEF RefreshInv
  <1>4. CASE Startup
    <2>1. CASE StartFails
      BY <1>2, <2>1, StepsShape DEF StartFails, Exit
    <2>2. ASSUME NEW t \in InternalTopics, EnsureTopic(t) PROVE RefreshInv'
      <3>1. step < 3 /\ step' = step + 1 /\ UNCHANGED refreshed
        BY <1>0, <2>2, StepsShape, StepNumbers DEF EnsureTopic, Ensuring, Starting
      <3> QED
        BY <1>0, <3>1 DEF RefreshInv, refreshed
    <2>3. ASSUME NEW t \in InternalTopics, FallBack(t) PROVE RefreshInv'
      BY <1>1, <1>2, <2>3, StepsShape DEF FallBack, Exit
    <2> QED
      BY <1>3, <1>4, <2>1, <2>2, <2>3 DEF Startup
  <1>5. CASE Watcher \/ Supervision
    BY <1>1, <1>5 DEF Watcher, Check, Publish, Sleep, WatcherRetires, Supervision, TaskEnds, Cancel
  <1>6. CASE \E c \in Conns : Connection(c)
    BY <1>6, <1>1 DEF Connection, Accept, Handshake, Request, Authorize, Respond, ClientLeaves, Graceful
  <1>7. CASE StopAccepting
    <2>1. step = 16 /\ step' = 17 /\ UNCHANGED refreshed
      BY <1>7, StepsShape DEF StopAccepting, Listening
    <2> QED
      BY <1>0, <2>1 DEF RefreshInv, refreshed
  <1>8. CASE Drain
    BY <1>2, <1>8, StepsShape DEF Drain, drain_connections, Exit
  <1>9. CASE Refresh
    <2>1. CASE RefreshAcls
      <3>1. cache' \in {cache, acls} /\ UNCHANGED <<step, acls, held, file, tls>>
        BY <2>1 DEF RefreshAcls, fetch
      <3> QED
        BY <1>0, <3>1 DEF RefreshInv
    <2>2. CASE RefreshMalformed
      <3>1. UNCHANGED <<step, acls, held, file, tls>>
        BY <2>2 DEF RefreshMalformed
      <3>2. cache' = cache
        BY <2>2, MalformedRefused DEF RefreshMalformed
      <3> QED
        BY <1>0, <3>1, <3>2 DEF RefreshInv
    <2>3. CASE ReloadTls
      <3>1. UNCHANGED <<step, acls, held, file, cache>> /\ tls' \in {tls, file.version}
        BY <2>3 DEF ReloadTls
      <3> QED
        BY <1>0, <3>1 DEF RefreshInv
    <2>4. CASE RefreshFails \/ \E t \in {"authz", "tls_watch"} : RefresherStops(t)
      BY <1>1, <2>4 DEF RefreshFails, RefresherStops
    <2> QED
      BY <1>9, <2>1, <2>2, <2>3, <2>4 DEF Refresh
  <1>10. CASE Outside
    <2>1. CASE AclsChange
      <3>1. /\ acls' \in AclStates /\ held' = held \cup {acls'}
            /\ UNCHANGED <<step, cache, file, tls>>
        BY <2>1 DEF AclsChange
      <3> QED
        BY <1>0, <3>1 DEF RefreshInv
    <2>2. CASE FileChanges
      <3>1. /\ \E good \in BOOLEAN : file' = [version |-> file.version + 1, good |-> good]
            /\ UNCHANGED <<step, acls, held, cache, tls>>
        BY <2>2 DEF FileChanges
      <3> QED
        BY <1>0, <3>1 DEF RefreshInv
    <2>3. CASE FirstAssignment \/ WarmthChanges \/ Signal \/ \E t \in InternalTopics : OtherCreates(t)
      BY <1>1, <2>3 DEF FirstAssignment, WarmthChanges, Signal, OtherCreates
    <2>4. CASE SignalEarly
      BY <1>2, <2>4, StepsShape DEF SignalEarly, Exit
    <2> QED
      BY <1>10, <2>1, <2>2, <2>3, <2>4 DEF Outside
  <1>11. CASE UNCHANGED vars
    BY <1>1, <1>11 DEF vars, refreshed
  <1> QED
    BY <1>4, <1>5, <1>6, <1>7, <1>8, <1>9, <1>10, <1>11 DEF Next, Finished

-----------------------------------------------------------------------------
(* Connections.                                                            *)

ConnTypes ==
  [st : {"none", "handshake", "open", "closed"}, cert : Nat, principal : {"", "alice"},
   graceful : BOOLEAN, req : {"none", "entered", "decided"},
   caller : {"", "alice", "bob", "ANONYMOUS"},
   verdict : {"", "allow", "deny"}, last : {"", "answered", "left", "cut"}]

\* The sets of ACLs in H, or the settings, let p in.
Justified(p, H) == args.authz = "off" \/ \E entries \in H : Grants(entries, p)

\* A connection: its requests come after its handshake, whoever it names was
\* named by its certificate or by a token, and whoever it lets in is allowed.
ConnSound(k, H) ==
  /\ k.req # "none" => k.st = "open"
  /\ k.req = "none" => k.caller = "" /\ k.verdict = ""
  /\ k.st = "handshake" \/ k.principal = "alice" => 0 < k.cert
  /\ k.caller = "bob" => args.bearer = "unsecured"
  /\ k.caller = "alice" => k.principal = "alice"
  /\ k.verdict = "allow" => Justified(k.caller, H)

Busy == {c \in Conns : conn[c].req # "none"}

ConnInv ==
  /\ conn \in [Conns -> ConnTypes]
  /\ \A c \in Conns : ConnSound(conn[c], held)
  /\ inflight = Cardinality(Busy)

\* At the start there is no connection.
LEMMA ConnInit == Init => ConnInv
  <1> SUFFICES ASSUME Init PROVE ConnInv
    OBVIOUS
  <1>1. conn = [c \in Conns |-> Closed] /\ inflight = 0
    BY DEF Init
  <1>2. Closed \in ConnTypes /\ ConnSound(Closed, held) /\ Closed.req = "none"
    <2>1. /\ Closed.req = "none" /\ Closed.st = "none" /\ Closed.principal = "" /\ Closed.caller = ""
          /\ Closed.verdict = ""
      BY DEF Closed
    <2>2. ConnSound(Closed, held)
      BY <2>1 DEF ConnSound
    <2>3. Closed \in ConnTypes
      BY DEF Closed, ConnTypes
    <2> QED
      BY <2>1, <2>2, <2>3
  <1>3. Busy = {}
    BY <1>1, <1>2 DEF Busy
  <1> QED
    BY <1>1, <1>2, <1>3, FS_EmptySet DEF ConnInv

\* The broker's ACLs of the past only become more.
LEMMA SoundStays ==
  ASSUME UNCHANGED args, NEW k, NEW H, NEW G, H \subseteq G, ConnSound(k, H)
  PROVE  ConnSound(k, G)'
  <1>1. \A entries, p : Grants(entries, p)' <=> Grants(entries, p)
    BY DEF Grants, Applies
  <1> QED
    BY <1>1 DEF ConnSound, Justified

\* The gauge: handlers that end are counted off, whatever ends them.
LEMMA GaugeDrops ==
  ASSUME ConnInv, drop_guard, Busy' \subseteq Busy
  PROVE  inflight' = Cardinality(Busy')
  <1>1. PICK A, B, D : A = Busy /\ B = Busy' /\ D = {c \in Conns : conn[c].req # "none" /\ conn'[c].req = "none"}
    OBVIOUS
  <1>2. D = A \ B /\ B \subseteq A /\ A \subseteq Conns
    BY <1>1 DEF Busy
  <1>3. IsFiniteSet(A)
    BY <1>2, FS_Subset, ProfilesAssumption
  <1>4. IsFiniteSet(B) /\ A \cap B = B
    BY <1>2, <1>3, FS_Subset
  <1>5. Cardinality(A \ B) = Cardinality(A) - Cardinality(A \cap B)
    BY <1>3, FS_Difference
  <1>6. Cardinality(A) \in Nat /\ Cardinality(B) \in Nat
    BY <1>3, <1>4, FS_CardinalityType
  <1>7. inflight' = Cardinality(A) - Cardinality(D)
    BY <1>1 DEF drop_guard, ConnInv
  <1>8. Cardinality(A) - (Cardinality(A) - Cardinality(B)) = Cardinality(B)
    BY <1>6
  <1> QED
    BY <1>1, <1>2, <1>4, <1>5, <1>7, <1>8

\* A step of one connection that keeps it sound.
LEMMA OneConnection ==
  ASSUME ConnInv, NEW c \in Conns, NEW k \in ConnTypes, ConnSound(k, held),
         conn' = [conn EXCEPT ![c] = k], UNCHANGED <<args, held>>,
         \/ conn[c].req # "none" /\ k.req # "none" /\ UNCHANGED inflight
         \/ conn[c].req = "none" /\ k.req = "none" /\ (UNCHANGED inflight \/ drop_guard)
         \/ k.req = "none" /\ drop_guard
         \/ conn[c].req = "none" /\ k.req # "none" /\ inflight' = inflight + 1
         \/ conn[c].req # "none" /\ k.req # "none" /\ drop_guard
  PROVE  ConnInv'
  <1>1. /\ conn' \in [Conns -> ConnTypes] /\ conn'[c] = k
        /\ \A x \in Conns : x # c => conn'[x] = conn[x]
    BY DEF ConnInv
  <1>2. \A x \in Conns : ConnSound(conn'[x], held)
    BY <1>1 DEF ConnInv
  <1>3. ASSUME NEW x \in Conns, NEW y, y = conn'[x], NEW H, H = held PROVE ConnSound(y, H)'
    BY <1>2, <1>3, SoundStays
  <1>4. inflight' = Cardinality(Busy')
    <2>1. CASE Busy' = Busy /\ UNCHANGED inflight
      BY <2>1 DEF ConnInv
    <2>2. CASE drop_guard /\ Busy' \subseteq Busy
      BY <2>2, GaugeDrops
    <2>3. CASE conn[c].req = "none" /\ k.req # "none" /\ inflight' = inflight + 1
      <3>1. PICK A, B : A = Busy /\ B = Busy'
        OBVIOUS
      <3>2. A \subseteq Conns /\ B = A \cup {c} /\ c \notin A
        BY <1>1, <2>3, <3>1 DEF Busy
      <3>3. IsFiniteSet(A)
        BY <3>2, FS_Subset, ProfilesAssumption
      <3>4. Cardinality(B) = Cardinality(A) + 1
        BY <3>2, <3>3, FS_AddElement
      <3> QED
        BY <2>3, <3>1, <3>4 DEF ConnInv
    <2>4. \/ Busy' = Busy /\ UNCHANGED inflight
          \/ drop_guard /\ Busy' \subseteq Busy
          \/ conn[c].req = "none" /\ k.req # "none" /\ inflight' = inflight + 1
      <3>1. k.req = "none" => Busy' \subseteq Busy
        BY <1>1 DEF Busy
      <3>2. (k.req = "none" <=> conn[c].req = "none") => Busy' = Busy
        BY <1>1 DEF Busy
      <3> QED
        BY <3>1, <3>2
    <2> QED
      BY <2>1, <2>2, <2>3, <2>4
  <1>5. \A x \in Conns : ConnSound(conn[x], held)'
    BY <1>3
  <1> QED
    BY <1>1, <1>4, <1>5 DEF ConnInv

\* An empty connection.
LEMMA ClosedSound ==
  /\ Closed \in ConnTypes /\ Closed.req = "none" /\ Closed.st = "none" /\ Closed.principal = ""
  /\ Closed.caller = "" /\ Closed.verdict = ""
  BY DEF Closed, ConnTypes

\* A connection whose handler has ended, and one that has.
EndedOf(k, l) == [k EXCEPT !.req = "none", !.caller = "", !.verdict = "", !.last = l]
GoneOf(l) == [Closed EXCEPT !.st = "closed", !.last = l]

\* The fields of the first ...
LEMMA EndedFields ==
  ASSUME NEW k \in ConnTypes, NEW l \in {"", "answered", "left", "cut"}
  PROVE  /\ EndedOf(k, l) \in ConnTypes
         /\ EndedOf(k, l).req = "none" /\ EndedOf(k, l).caller = "" /\ EndedOf(k, l).verdict = ""
         /\ EndedOf(k, l).last = l /\ EndedOf(k, l).st = k.st
         /\ EndedOf(k, l).principal = k.principal /\ EndedOf(k, l).cert = k.cert
  <1> DEFINE e == EndedOf(k, l)
  <1>1. e \in ConnTypes
    BY DEF ConnTypes, EndedOf
  <1>2. e.req = "none" /\ e.caller = "" /\ e.verdict = "" /\ e.last = l
    BY DEF ConnTypes, EndedOf
  <1>3. e.st = k.st /\ e.principal = k.principal /\ e.cert = k.cert
    BY DEF ConnTypes, EndedOf
  <1> QED
    BY <1>1, <1>2, <1>3

\* ... and of the second.
LEMMA GoneFields ==
  ASSUME NEW l \in {"", "answered", "left", "cut"}, NEW e, e = GoneOf(l)
  PROVE  /\ e \in ConnTypes /\ e.req = "none" /\ e.caller = "" /\ e.verdict = "" /\ e.last = l
         /\ e.st = "closed" /\ e.principal = ""
  <1>1. PICK k \in ConnTypes : k = Closed
    BY ClosedSound
  <1>2. e = [k EXCEPT !.st = "closed", !.last = l]
    BY <1>1 DEF GoneOf
  <1>3. e \in ConnTypes
    BY <1>2 DEF ConnTypes
  <1>4. /\ e.st = "closed" /\ e.last = l /\ e.req = k.req /\ e.caller = k.caller
        /\ e.verdict = k.verdict /\ e.principal = k.principal
    BY <1>2 DEF ConnTypes
  <1> QED
    BY <1>1, <1>3, <1>4, ClosedSound

\* What ends a handler or a connection leaves it sound.
LEMMA EndingsSound ==
  ASSUME ConnInv, NEW c \in Conns, NEW how \in {"", "answered", "left", "cut"}
  PROVE  /\ Ended(c, how) \in ConnTypes /\ ConnSound(Ended(c, how), held) /\ Ended(c, how).req = "none"
         /\ Ended(c, how).last = IF conn[c].req = "none" THEN conn[c].last ELSE how
         /\ Gone(c, how) \in ConnTypes /\ ConnSound(Gone(c, how), held) /\ Gone(c, how).req = "none"
         /\ Gone(c, how).last = IF conn[c].req = "none" THEN conn[c].last ELSE how
  <1>1. PICK k \in ConnTypes : k = conn[c] /\ ConnSound(k, held)
    BY DEF ConnInv
  <1>2. PICK l \in {"", "answered", "left", "cut"} : l = IF k.req = "none" THEN k.last ELSE how
    BY DEF ConnTypes
  <1>3. PICK e : e = Ended(c, how)
    OBVIOUS
  <1>4. e = EndedOf(k, l)
    BY <1>1, <1>2, <1>3 DEF Ended, ConnTypes, EndedOf
  <1>5. /\ e \in ConnTypes /\ e.req = "none" /\ e.caller = "" /\ e.verdict = "" /\ e.last = l
        /\ e.st = k.st /\ e.principal = k.principal /\ e.cert = k.cert
    <2>1. /\ EndedOf(k, l) \in ConnTypes
          /\ EndedOf(k, l).req = "none" /\ EndedOf(k, l).caller = "" /\ EndedOf(k, l).verdict = ""
          /\ EndedOf(k, l).last = l /\ EndedOf(k, l).st = k.st
          /\ EndedOf(k, l).principal = k.principal /\ EndedOf(k, l).cert = k.cert
      BY ONLY EndedFields, k \in ConnTypes, l \in {"", "answered", "left", "cut"}
    <2> QED
      BY ONLY <1>4, <2>1, Zenon
  <1>6. ConnSound(e, held)
    BY <1>1, <1>5 DEF ConnSound
  <1>7. PICK g : g = Gone(c, how)
    OBVIOUS
  <1>8. g = GoneOf(l)
    BY <1>3, <1>5, <1>7 DEF Gone, GoneOf
  <1>9. /\ g \in ConnTypes /\ g.req = "none" /\ g.caller = "" /\ g.verdict = "" /\ g.last = l
        /\ g.st = "closed" /\ g.principal = ""
    BY <1>8, GoneFields
  <1>10. ConnSound(g, held)
    BY <1>9 DEF ConnSound
  <1> QED
    BY <1>1, <1>2, <1>3, <1>5, <1>6, <1>7, <1>9, <1>10

\* A connection that is accepted with TLS gets the certificate in use.
LEMMA AcceptSound ==
  ASSUME ConnInv, RefreshInv, UNCHANGED <<args, held>>, NEW c \in Conns, Accept(c)
  PROVE  ConnInv'
  <1>1. PICK s, n : s = (IF args.tls_cert THEN "handshake" ELSE "open") /\ n = tls
    OBVIOUS
  <1>2. s \in {"handshake", "open"} /\ n \in Nat /\ (s = "handshake" => 0 < n)
    BY <1>1, StepsShape DEF Accept, Listening, RefreshInv
  <1>3. PICK k \in ConnTypes : k = Closed
    BY ClosedSound
  <1>4. conn[c] = k
    BY <1>3 DEF Accept
  <1>5. PICK e : e = [k EXCEPT !.st = s, !.cert = n]
    OBVIOUS
  <1>6. conn' = [conn EXCEPT ![c] = e] /\ UNCHANGED inflight
    BY <1>1, <1>4, <1>5 DEF Accept, ConnInv
  <1>7. e \in ConnTypes
    BY <1>2, <1>5 DEF ConnTypes
  <1>8. /\ e.st = s /\ e.cert = n /\ e.req = k.req /\ e.caller = k.caller /\ e.verdict = k.verdict
        /\ e.principal = k.principal
    BY <1>5 DEF ConnTypes
  <1>9. ConnSound(e, held) /\ e.req = "none" /\ k.req = "none"
    BY <1>2, <1>3, <1>8, ClosedSound DEF ConnSound
  <1> QED
    BY <1>4, <1>6, <1>7, <1>9, OneConnection

\* The handshake names a principal, or the connection is gone.
LEMMA HandshakeSound ==
  ASSUME ConnInv, UNCHANGED <<args, held>>, NEW c \in Conns, Handshake(c)
  PROVE  ConnInv'
  <1>1. PICK k \in ConnTypes : k = conn[c] /\ ConnSound(k, held)
    BY DEF ConnInv
  <1>2. k.st = "handshake" /\ k.req = "none" /\ 0 < k.cert /\ UNCHANGED inflight
    BY <1>1 DEF Handshake, ConnSound, ConnTypes
  <1>3. CASE conn' = [conn EXCEPT ![c] = Gone(c, "")]
    <2>1. PICK g : g = Gone(c, "")
      OBVIOUS
    <2>2. g \in ConnTypes /\ ConnSound(g, held) /\ g.req = "none"
      BY <2>1, EndingsSound
    <2> QED
      BY <1>1, <1>2, <1>3, <2>1, <2>2, OneConnection
  <1>4. ASSUME NEW p \in peer_principal, conn' = [conn EXCEPT ![c].st = "open", ![c].principal = p]
        PROVE  ConnInv'
    <2>1. p \in {"", "alice"}
      BY DEF peer_principal
    <2>2. PICK e : e = [k EXCEPT !.st = "open", !.principal = p]
      OBVIOUS
    <2>3. conn' = [conn EXCEPT ![c] = e]
      BY <1>1, <1>4, <2>2 DEF ConnInv
    <2>4. e \in ConnTypes
      BY <2>1, <2>2 DEF ConnTypes
    <2>5. /\ e.st = "open" /\ e.principal = p /\ e.req = k.req /\ e.caller = k.caller
          /\ e.verdict = k.verdict /\ e.cert = k.cert
      BY <2>2 DEF ConnTypes
    <2>6. ConnSound(e, held)
      BY <1>1, <1>2, <2>5 DEF ConnSound
    <2> QED
      BY <1>1, <1>2, <2>3, <2>4, <2>5, <2>6, OneConnection
  <1> QED
    BY <1>3, <1>4 DEF Handshake

\* A request that comes in is somebody's.
LEMMA RequestSound ==
  ASSUME ConnInv, UNCHANGED <<args, held>>, NEW c \in Conns, Request(c)
  PROVE  ConnInv'
  <1>1. PICK k \in ConnTypes : k = conn[c] /\ ConnSound(k, held)
    BY DEF ConnInv
  <1>2. k.st = "open" /\ k.req = "none" /\ inflight' = inflight + 1
    BY <1>1 DEF Request
  <1>3. PICK token \in {"none", "valid", "invalid"} :
          conn' = [conn EXCEPT ![c].req = "entered", ![c].verdict = "",
                               ![c].caller = resolve_principal(conn[c].principal, token)]
    BY DEF Request
  <1>4. PICK p : p = resolve_principal(k.principal, token)
    OBVIOUS
  <1>5. /\ p \in {"alice", "bob", "ANONYMOUS"} /\ (p = "bob" => args.bearer = "unsecured")
        /\ (p = "alice" => k.principal = "alice")
    BY <1>4 DEF resolve_principal, ConnTypes
  <1>6. PICK e : e = [k EXCEPT !.req = "entered", !.verdict = "", !.caller = p]
    OBVIOUS
  <1>7. conn' = [conn EXCEPT ![c] = e]
    BY <1>1, <1>3, <1>4, <1>6 DEF ConnInv
  <1>8. e \in ConnTypes
    BY <1>5, <1>6 DEF ConnTypes
  <1>9. /\ e.req = "entered" /\ e.verdict = "" /\ e.caller = p /\ e.st = k.st /\ e.principal = k.principal
        /\ e.cert = k.cert
    BY <1>6 DEF ConnTypes
  <1>10. ConnSound(e, held)
    BY <1>1, <1>2, <1>5, <1>9 DEF ConnSound
  <1> QED
    BY <1>1, <1>2, <1>7, <1>8, <1>9, <1>10, OneConnection

\* The verdict is that of a snapshot which the broker held.
LEMMA AuthorizeSound ==
  ASSUME ConnInv, RefreshInv, UNCHANGED <<args, held>>, NEW c \in Conns, Authorize(c)
  PROVE  ConnInv'
  <1>1. PICK k \in ConnTypes : k = conn[c] /\ ConnSound(k, held)
    BY DEF ConnInv
  <1>2. k.req = "entered" /\ UNCHANGED inflight
    BY <1>1 DEF Authorize
  <1>3. PICK v : v = IF authorize_resource(k.caller) THEN "allow" ELSE "deny"
    OBVIOUS
  <1>4. v = "allow" => Justified(k.caller, held)
    <2>1. CASE args.authz = "off"
      BY <2>1 DEF Justified
    <2>2. CASE Grants(cache, k.caller) /\ cache \in held
      BY <2>2 DEF Justified
    <2>3. CASE Grants(cache, k.caller) /\ cache = {}
      <3>1. k.caller \in args.authz_super_users
        BY <2>3 DEF Grants, Applies
      <3>2. Grants(acls, k.caller) /\ acls \in held
        BY <3>1 DEF Grants, RefreshInv
      <3> QED
        BY <3>2 DEF Justified
    <2> QED
      BY <1>3, <2>1, <2>2, <2>3 DEF authorize_resource, RefreshInv
  <1>5. PICK e : e = [k EXCEPT !.req = "decided", !.verdict = v]
    OBVIOUS
  <1>6. conn' = [conn EXCEPT ![c] = e]
    BY <1>1, <1>3, <1>5 DEF ConnInv, Authorize
  <1>7. e \in ConnTypes
    BY <1>3, <1>5 DEF ConnTypes
  <1>8. /\ e.req = "decided" /\ e.verdict = v /\ e.caller = k.caller /\ e.st = k.st
        /\ e.principal = k.principal /\ e.cert = k.cert
    BY <1>5 DEF ConnTypes
  <1>9. ConnSound(e, held)
    BY <1>1, <1>2, <1>4, <1>8 DEF ConnSound
  <1> QED
    BY <1>1, <1>2, <1>6, <1>7, <1>8, <1>9, OneConnection

\* Every way out of a handler, and of a connection.
LEMMA EndingStep ==
  ASSUME ConnInv, UNCHANGED <<args, held>>, NEW c \in Conns,
         Respond(c) \/ ClientLeaves(c) \/ Graceful(c)
  PROVE  ConnInv'
  <1>1. PICK k \in ConnTypes : k = conn[c] /\ ConnSound(k, held)
    BY DEF ConnInv
  <1>2. drop_guard
    BY DEF Respond, ClientLeaves, Graceful
  <1>3. ASSUME NEW how \in {"", "answered", "left", "cut"}, NEW e, e \in {Gone(c, how), Ended(c, how)},
               conn' = [conn EXCEPT ![c] = e]
        PROVE  ConnInv'
    <2>1. e \in ConnTypes /\ ConnSound(e, held) /\ e.req = "none"
      BY <1>3, EndingsSound
    <2> QED
      BY <1>2, <1>3, <2>1, OneConnection
  <1>4. ASSUME conn[c].req # "none", conn' = [conn EXCEPT ![c] = [conn[c] EXCEPT !.graceful = TRUE]]
        PROVE  ConnInv'
    <2>1. PICK e : e = [k EXCEPT !.graceful = TRUE]
      OBVIOUS
    <2>2. conn' = [conn EXCEPT ![c] = e]
      BY <1>1, <1>4, <2>1
    <2>3. e \in ConnTypes
      BY <2>1 DEF ConnTypes
    <2>4. /\ e.req = k.req /\ e.verdict = k.verdict /\ e.caller = k.caller /\ e.st = k.st
          /\ e.principal = k.principal /\ e.cert = k.cert
      BY <2>1 DEF ConnTypes
    <2>5. ConnSound(e, held)
      BY <1>1, <2>4 DEF ConnSound
    <2> QED
      BY <1>1, <1>2, <1>4, <2>2, <2>3, <2>4, <2>5, OneConnection
  <1>5. CASE Respond(c)
    <2>1. PICK e : e = IF conn[c].graceful THEN Gone(c, "answered") ELSE Ended(c, "answered")
      OBVIOUS
    <2>2. conn' = [conn EXCEPT ![c] = e]
      BY <1>5, <2>1 DEF Respond
    <2> QED
      BY <1>3, <2>1, <2>2
  <1>6. CASE ClientLeaves(c)
    BY <1>3, <1>6 DEF ClientLeaves
  <1>7. CASE Graceful(c)
    BY <1>3, <1>4, <1>7 DEF Graceful, graceful_shutdown
  <1> QED
    BY <1>5, <1>6, <1>7

\* The deadline of the drain cuts off what is still open.
LEMMA DrainSound ==
  ASSUME ConnInv, UNCHANGED <<args, held>>, Drain
  PROVE  ConnInv'
  <1>1. /\ conn' = [c \in Conns |-> IF c \in Open THEN Gone(c, "cut") ELSE conn[c]]
        /\ drop_guard
    BY DEF Drain, drain_connections
  <1>2. ASSUME NEW c \in Conns
        PROVE  /\ conn'[c] \in ConnTypes /\ ConnSound(conn'[c], held)
               /\ conn'[c].req # "none" => conn[c].req # "none"
    BY <1>1, EndingsSound DEF ConnInv
  <1>3. Busy' \subseteq Busy
    BY <1>2 DEF Busy
  <1>4. inflight' = Cardinality(Busy')
    BY <1>1, <1>3, GaugeDrops
  <1>5. conn' \in [Conns -> ConnTypes]
    BY <1>1, <1>2
  <1>6. ASSUME NEW x \in Conns, NEW y, y = conn'[x], NEW H, H = held PROVE ConnSound(y, H)'
    BY <1>2, <1>6, SoundStays
  <1>7. \A x \in Conns : ConnSound(conn[x], held)'
    BY <1>6
  <1> QED
    BY <1>4, <1>5, <1>7 DEF ConnInv

\* A step that leaves the connections alone; ACLs may be added to the past.
LEMMA ConnsUntouched ==
  ASSUME ConnInv, UNCHANGED <<args, serving>>, held \subseteq held'
  PROVE  ConnInv'
  <1>1. ASSUME NEW x \in Conns, NEW y, y = conn[x], NEW H, H = held, NEW G, G = held'
        PROVE  ConnSound(y, G)'
    BY <1>1, SoundStays DEF ConnInv
  <1>2. ASSUME NEW x \in Conns PROVE ConnSound(conn[x], held)'
    BY <1>1 DEF serving
  <1>3. Busy' = Busy
    BY DEF Busy, serving
  <1> QED
    BY <1>2, <1>3 DEF ConnInv, serving

\* One step per writer.
LEMMA ConnStep ==
  ASSUME RefreshInv, ConnInv, [Next]_vars
  PROVE  ConnInv'
  <1>0. UNCHANGED args
    BY StartupFrame DEF EnsureTopic, FallBack, OtherCreates, StopAccepting, startup
  <1>1. CASE UNCHANGED <<serving, held>>
    BY <1>0, <1>1, ConnsUntouched
  <1>2. ASSUME NEW c \in Conns, Connection(c) PROVE ConnInv'
    <2>1. UNCHANGED held
      BY <1>2 DEF Connection, Accept, Handshake, Request, Authorize, Respond, ClientLeaves,
         Graceful, refreshed
    <2> QED
      BY <1>0, <1>2, <2>1, AcceptSound, HandshakeSound, RequestSound, AuthorizeSound, EndingStep
      DEF Connection
  <1>3. CASE Drain
    BY <1>0, <1>3, DrainSound DEF Drain, refreshed
  <1>4. CASE AclsChange
    BY <1>0, <1>4, ConnsUntouched DEF AclsChange
  <1>5. CASE Startup
    BY <1>1, <1>5 DEF Startup, StartStep, StartFails, EnsureTopic, FallBack, refreshed
  <1>6. CASE Watcher \/ Supervision
    BY <1>1, <1>6 DEF Watcher, Check, Publish, Sleep, WatcherRetires, Supervision, TaskEnds,
       Cancel, refreshed
  <1>7. CASE StopAccepting \/ Refresh
    BY <1>1, <1>7 DEF StopAccepting, Refresh, RefreshAcls, RefreshMalformed, RefreshFails,
       ReloadTls, RefresherStops, refreshed
  <1>8. CASE Outside
    BY <1>1, <1>4, <1>8 DEF Outside, FirstAssignment, WarmthChanges, Signal, SignalEarly,
       FileChanges, OtherCreates, refreshed
  <1>9. CASE UNCHANGED vars
    BY <1>1, <1>9 DEF vars, serving
  <1> QED
    BY <1>2, <1>3, <1>5, <1>6, <1>7, <1>8, <1>9 DEF Next, Finished

-----------------------------------------------------------------------------
(* The theorems.                                                           *)

ProcessInv == StartupInv /\ TaskInv /\ RefreshInv /\ ConnInv

\* The four parts hold together for every process.
LEMMA ProcessInvariant == Spec => []ProcessInv
  <1>1. Init => ProcessInv
    BY StartupInit, TaskInit, RefreshInit, ConnInit DEF ProcessInv
  <1>2. ProcessInv /\ [Next]_vars => ProcessInv'
    BY StartupStep, TaskStep, RefreshStep, ConnStep DEF ProcessInv
  <1> QED
    BY <1>1, <1>2, PTL DEF Spec

\* The gauge is a number of connections.
LEMMA GaugeType ==
  ASSUME ConnInv PROVE inflight \in 0..Cardinality(Conns)
  <1>1. PICK A : A = Busy
    OBVIOUS
  <1>2. A \subseteq Conns
    BY <1>1 DEF Busy
  <1>3. IsFiniteSet(A) /\ Cardinality(A) <= Cardinality(Conns)
    BY <1>2, FS_Subset, ProfilesAssumption
  <1>4. Cardinality(A) \in Nat /\ Cardinality(Conns) \in Nat
    BY <1>3, FS_CardinalityType, ProfilesAssumption
  <1> QED
    BY <1>1, <1>3, <1>4 DEF ConnInv

\* The order of run leaves no step without what it needs (bin/gateway.rs, run):
\* both internal topics exist with the window and partitions of the command line
\* before anything works with them, and the first assignment of the ownership
\* consumer finds the publisher and the engine; every variable keeps its type.
THEOREM Starts == Spec => []StartsAsConfigured
  <1>1. ASSUME ProcessInv PROVE StartsAsConfigured
    <2>0. StartupTypes /\ Created /\ TaskInv /\ RefreshInv /\ ConnInv
      BY <1>1 DEF ProcessInv, StartupInv
    <2>1. TypeOK
      <3>1. /\ \E p \in Profiles : args = p.args
            /\ step \in 1..Exited
            /\ \/ rf = runtime_config(args).replication_factor
               \/ rf = 1 /\ runtime_config(args).allow_fallback
        BY <2>0, StepsShape DEF StartupTypes
      <3>2. \A t \in InternalTopics : topics[t].partitions \in Nat /\ topics[t].retention \in Nat
        BY <2>0 DEF StartupTypes, Topics
      <3>3. \A c \in Conns : /\ conn[c].st \in {"none", "handshake", "open", "closed"}
                             /\ conn[c].req \in {"none", "entered", "decided"}
        BY <2>0 DEF ConnInv, ConnTypes
      <3>4. /\ acls \in held /\ held \subseteq AclStates \cup {{}}
            /\ file.version \in Nat \ {0} /\ tls \in 0..file.version
        BY <2>0 DEF RefreshInv
      <3>5. inflight \in 0..Cardinality(Conns)
        BY <2>0, GaugeType
      <3>6. TaskTypes
        BY <2>0 DEF TaskInv
      <3> QED
        BY <3>1, <3>2, <3>3, <3>4, <3>5, <3>6 DEF TypeOK, TaskTypes
    <2>2. TopicsAsConfigured
      <3> SUFFICES ASSUME Past("ensure_membership"), NEW t \in InternalTopics
                   PROVE  /\ topics[t] # NoTopic
                          /\ topics[t].own /\ t = "dedup" =>
                               /\ topics[t].retention = args.dedup_window
                               /\ topics[t].partitions = args.dedup_partitions
        BY DEF TopicsAsConfigured
      <3>1. 2 < step /\ step < 18
        <4>1. PICK i \in 1..15 : Steps[i] = "ensure_membership" /\ i < step
          BY StepsShape DEF Past
        <4>2. i = 2
          BY <4>1, StepNumbers
        <4> QED
          BY <4>1, <4>2, StepsShape DEF Past, Running
      <3>2. step \in 1..18 /\ args \in Args
        BY <2>0, ArgsTyped DEF StartupTypes
      <3>3. topics[t] # NoTopic /\ configured(args)
        BY <2>0, <3>1, <3>2 DEF Created, InternalTopics
      <3>4. quantity(args.dedup_window) = args.dedup_window
        BY <3>2, <3>3, WindowExact DEF configured, validate_protocol_runtime, Args
      <3>5. topics[t].own /\ t = "dedup" =>
              /\ topics[t].retention = args.dedup_window /\ topics[t].partitions = args.dedup_partitions
        BY <2>0, <3>4 DEF Created, topic_configs
      <3> QED
        BY <3>3, <3>5
    <2> QED
      BY <2>0, <2>1, <2>2 DEF StartsAsConfigured, TaskInv
  <1> QED
    BY <1>1, ProcessInvariant, PTL

\* Whoever is let in was allowed by one complete set of ACLs that the broker
\* held, is a super user, or authorization is off, and is who its certificate
\* or its token says (authz/mod.rs, serve.rs, auth_layer.rs).
THEOREM OnlyTheAllowed == Spec => []GrantsAreJustified
  <1>1. ASSUME ProcessInv PROVE GrantsAreJustified
    <2> SUFFICES ASSUME NEW c \in Conns, conn[c].verdict = "allow"
                 PROVE  /\ args.authz = "off" \/ \E entries \in held : Grants(entries, conn[c].caller)
                        /\ conn[c].caller = "bob" => args.bearer = "unsecured"
                        /\ conn[c].caller = "alice" => conn[c].principal = "alice" /\ conn[c].cert > 0
      BY DEF GrantsAreJustified
    <2>1. ConnSound(conn[c], held) /\ conn[c] \in ConnTypes
      BY <1>1 DEF ProcessInv, ConnInv
    <2> QED
      BY <2>1 DEF ConnSound, Justified, ConnTypes
  <1> QED
    BY <1>1, ProcessInvariant, PTL

\* A shutdown ends a request in progress only at the drain deadline; until then
\* it is answered, or its client goes away (serve.rs).
THEOREM Drains == Spec => RequestsAreDrained
  <1>1. ASSUME ProcessInv, [Next]_vars
        PROVE  [\A c \in Conns : conn[c].req # "none" /\ conn'[c].req = "none" =>
                  \/ conn'[c].last \in {"answered", "left"}
                  \/ step = Draining /\ step' = Exited]_vars
    <2> SUFFICES ASSUME Next, NEW c \in Conns, conn[c].req # "none", conn'[c].req = "none"
                 PROVE  conn'[c].last \in {"answered", "left"} \/ (step = Draining /\ step' = Exited)
      BY <1>1
    <2>0. ConnInv
      BY <1>1 DEF ProcessInv
    <2>1. CASE UNCHANGED conn
      BY <2>1
    <2>2. ASSUME NEW d \in Conns, Connection(d)
          PROVE  conn'[c].last \in {"answered", "left"}
      <3>1. CASE Accept(d) \/ Request(d) \/ Authorize(d)
        <4>1. PICK k \in ConnTypes : k = conn[d]
          BY <2>0 DEF ConnInv
        <4>2. d # c => conn'[c] = conn[c]
          BY <2>0, <3>1 DEF Accept, Request, Authorize, ConnInv
        <4>3. conn[d].req # "none" => conn'[d].req # "none"
          BY <2>0, <3>1, <4>1 DEF Accept, Request, Authorize, ConnInv, ConnTypes
        <4> QED
          BY <4>2, <4>3
      <3>2. CASE Handshake(d)
        <4>1. d # c => conn'[c] = conn[c]
          BY <2>0, <3>2 DEF Handshake, ConnInv
        <4>2. conn[d].req = "none"
          BY <2>0, <3>2 DEF Handshake, ConnInv, ConnSound
        <4> QED
          BY <4>1, <4>2
      <3>3. ASSUME NEW e, conn' = [conn EXCEPT ![d] = e],
                   e.last \in {"answered", "left"} \/ conn[d].req = "none" \/ e.req # "none"
            PROVE  conn'[c].last \in {"answered", "left"}
        BY <2>0, <3>3 DEF ConnInv
      <3>4. CASE Respond(d)
        <4>1. PICK e : e = IF conn[d].graceful THEN Gone(d, "answered") ELSE Ended(d, "answered")
          OBVIOUS
        <4>2. e.last = "answered" \/ conn[d].req = "none"
          BY <2>0, <4>1, EndingsSound
        <4>3. conn' = [conn EXCEPT ![d] = e]
          BY <3>4, <4>1 DEF Respond
        <4> QED
          BY <3>3, <4>2, <4>3
      <3>5. CASE ClientLeaves(d)
        <4>1. PICK e : e = Gone(d, "left")
          OBVIOUS
        <4>2. e.last = "left" \/ conn[d].req = "none"
          BY <2>0, <4>1, EndingsSound
        <4>3. conn' = [conn EXCEPT ![d] = e]
          BY <3>5, <4>1 DEF ClientLeaves
        <4> QED
          BY <3>3, <4>2, <4>3
      <3>6. CASE Graceful(d)
        <4>1. PICK e : e = graceful_shutdown(d)
          OBVIOUS
        <4>2. conn[d].req = "none" \/ e.req # "none"
          BY <2>0, <4>1 DEF graceful_shutdown, ConnInv, ConnTypes
        <4>3. conn' = [conn EXCEPT ![d] = e]
          BY <3>6, <4>1 DEF Graceful
        <4> QED
          BY <3>3, <4>2, <4>3
      <3> QED
        BY <2>2, <3>1, <3>2, <3>4, <3>5, <3>6 DEF Connection
    <2>3. CASE Drain
      BY <2>3 DEF Drain, drain_connections, Exit
    <2>4. CASE Startup
      BY <2>1, <2>4 DEF Startup, StartStep, StartFails, EnsureTopic, FallBack, serving
    <2>5. CASE Watcher \/ Supervision
      BY <2>1, <2>5 DEF Watcher, Check, Publish, Sleep, WatcherRetires, Supervision, TaskEnds,
         Cancel, serving
    <2>6. CASE StopAccepting \/ Refresh
      BY <2>1, <2>6 DEF StopAccepting, Refresh, RefreshAcls, RefreshMalformed, RefreshFails,
         ReloadTls, RefresherStops, serving
    <2>7. CASE Outside
      BY <2>1, <2>7 DEF Outside, FirstAssignment, WarmthChanges, Signal, SignalEarly, AclsChange,
         FileChanges, OtherCreates, serving
    <2> QED
      BY <2>1, <2>2, <2>3, <2>4, <2>5, <2>6, <2>7 DEF Next, Finished, vars
  <1> QED
    BY <1>1, ProcessInvariant, PTL DEF Spec, RequestsAreDrained
=============================================================================
