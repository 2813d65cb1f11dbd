------------------------------- MODULE Serving -------------------------------
(***************************************************************************)
(* The life of a gateway process: bin/gateway.rs (run and the tasks it     *)
(* spawns), serve.rs, health.rs, authz/, dedup/topic.rs and the request    *)
(* guard of metrics.rs.  The process starts in fixed steps, any of which   *)
(* may fail; supervised tasks report their end by clearing readiness and   *)
(* cancelling one token; a watcher copies the warmth of the dedup store    *)
(* into the readiness flag; the accept loop stops at the token and drains  *)
(* its connections against a deadline; two refreshers keep the ACL         *)
(* snapshot and the TLS material current.  What the supervised tasks do is *)
(* the subject of DedupEngine, Membership and Outbound.                    *)
(***************************************************************************)
EXTENDS GatewayConfig, FiniteSets

CONSTANTS Profiles,     \* command lines, with how much may happen to the process:
                        \* faults (failed calls, tasks that end), changes (of ACLs,
                        \* files and topics), flips (the first assignment of
                        \* the store, then changes of its warmth), conns
          Conns,        \* connections
          AclStates,    \* ACLs the broker may hold
          Brokers       \* number of brokers of the cluster

ASSUME ProfilesAssumption ==
    /\ \A p \in Profiles : p.args \in Args
    /\ IsFiniteSet(Conns) /\ Brokers \in Nat
    /\ \A entries \in AclStates :
          entries \subseteq [principal : STRING, permission : STRING, pattern : STRING]

VARIABLES args, step, rf, topics,        \* the command line, the progress of run
          task, ready, cancelled,        \* spawned tasks, readiness, the token
          warm, watcher, found,          \* DedupStore::is_warm, the readiness watcher,
                                         \* what the first assignment callback found
          conn, inflight,                \* connections, the gauge
          acls, cache, held,             \* at the broker, in the gateway, ever held
          file, tls,                     \* certificate on disk, certificate in use
          budget                         \* what may still happen

vars == <<args, step, rf, topics, task, ready, cancelled, warm, watcher, found,
          conn, inflight, acls, cache, held, file, tls, budget>>

startup == <<args, rf, topics>>
serving == <<conn, inflight>>
refreshed == <<acls, cache, held, file, tls>>
readiness == <<ready, cancelled, warm, watcher, found>>

-----------------------------------------------------------------------------
\* Fault injection: the ownership task is spawned before what its callbacks need.
Steps_OwnershipFirst ==
    <<"ensure_dedup", "ensure_membership", "membership_reader", "ownership", "publisher",
      "readiness_watcher", "engine", "forwarder", "codec", "outbound", "produce",
      "authz", "signal", "tls_watch", "bind">>

\* What run does before it serves, in order.
Steps ==
    <<"ensure_dedup", "ensure_membership", "membership_reader", "publisher",
      "readiness_watcher", "engine", "ownership", "forwarder", "codec", "outbound",
      "produce", "authz", "signal", "tls_watch", "bind">>

Serving == Len(Steps) + 1
Draining == Serving + 1
Exited == Draining + 1
Starting(s) == step <= Len(Steps) /\ Steps[step] = s
Running == step < Exited
Past(s) == Running /\ \E i \in 1..Len(Steps) : Steps[i] = s /\ i < step

\* The tasks whose unexpected end ends the process, and the two refreshers.
Supervised == {"membership_reader", "ownership", "outbound"}
Tasks == Supervised \cup {"signal", "authz", "tls_watch"}

NoTopic == [partitions |-> 0, retention |-> 0, replicas |-> 0, own |-> FALSE]
Closed == [st |-> "none", cert |-> 0, principal |-> "", graceful |-> FALSE, req |-> "none",
           caller |-> "", verdict |-> "", last |-> ""]

Init ==
    /\ \E p \in Profiles : args = p.args /\ budget = p.budget
    /\ step = IF configured(args) THEN 1 ELSE Exited
    /\ rf = runtime_config(args).replication_factor
    /\ topics \in [InternalTopics -> {NoTopic}]
    /\ task = [t \in Tasks |-> "absent"]
    /\ ready = FALSE /\ cancelled = FALSE /\ warm = FALSE
    /\ watcher = "absent" /\ found = {}
    /\ conn = [c \in Conns |-> Closed] /\ inflight = 0
    /\ acls \in IF args.authz = "off" THEN {{}} ELSE AclStates
    /\ cache = {} /\ held = {acls}
    /\ file = [version |-> 1, good |-> TRUE] /\ tls = 0

Spend(what) == budget[what] > 0 /\ budget' = [budget EXCEPT ![what] = @ - 1]
Fault == Spend("faults")
Change == Spend("changes")

\* The process ends: run returns, and with the runtime every task is gone.
Exit == /\ step' = Exited
        /\ task' = [t \in Tasks |-> IF task[t] = "absent" THEN "absent" ELSE "ended"]

-----------------------------------------------------------------------------
(* Startup. *)

Ensuring(t) == Starting(IF t = "dedup" THEN "ensure_dedup" ELSE "ensure_membership")

\* create_with_rf: the topic is created with as many replicas as asked for, or
\* was there already, whatever its settings.
EnsureTopic(t) ==
    /\ Ensuring(t)
    /\ IF topics[t] = NoTopic
         THEN /\ rf <= Brokers
              /\ topics' = [topics EXCEPT ![t] =
                    [partitions |-> topic_configs(args, t).partitions,
                     retention |-> topic_configs(args, t).retention,
                     replicas |-> rf, own |-> TRUE]]
         ELSE UNCHANGED topics
    /\ step' = step + 1
    /\ rf' = runtime_config(args).replication_factor
    /\ UNCHANGED <<args, task, readiness, serving, refreshed, budget>>

fallback == runtime_config(args).allow_fallback /\ rf > 1

\* INVALID_REPLICATION_FACTOR: once more with one replica, where that is allowed.
FallBack(t) ==
    /\ Ensuring(t) /\ topics[t] = NoTopic /\ rf > Brokers
    /\ IF fallback THEN rf' = 1 /\ UNCHANGED <<step, task>> ELSE Exit /\ UNCHANGED rf
    /\ UNCHANGED <<args, topics, readiness, serving, refreshed, budget>>

\* Another gateway, with settings of its own, creates the topic first.
OtherCreates(t) ==
    /\ Running /\ topics[t] = NoTopic /\ Change
    /\ topics' = [topics EXCEPT ![t] = [partitions |-> 1, retention |-> 1, replicas |-> 1, own |-> FALSE]]
    /\ UNCHANGED <<args, step, rf, task, readiness, serving, refreshed>>

\* The task a step spawns, if its settings ask for it.
Spawns(s) == CASE s \in {"membership_reader", "ownership", "signal"} -> TRUE
               [] s = "outbound" -> args.outbound = "valid"
               [] s = "authz" -> args.authz = "simple"
               [] s = "tls_watch" -> args.tls_cert
               [] OTHER -> FALSE

StartStep ==
    /\ step <= Len(Steps) /\ Steps[step] \notin {"ensure_dedup", "ensure_membership"}
    /\ task' = IF Spawns(Steps[step]) THEN [task EXCEPT ![Steps[step]] = "running"] ELSE task
    /\ watcher' = IF Starting("readiness_watcher") THEN "check" ELSE watcher
    /\ tls' = IF Starting("tls_watch") /\ args.tls_cert THEN file.version ELSE tls
    /\ Starting("tls_watch") /\ args.tls_cert => file.good
    /\ step' = step + 1
    /\ UNCHANGED <<startup, ready, cancelled, warm, found, serving, acls, cache, held,
                   file, budget>>

\* The steps that end run with an error: calls to the broker, and TLS material
\* that cannot be loaded.
Fallible(s) == \/ s \in {"ensure_dedup", "ensure_membership", "publisher", "produce", "bind"}
               \/ s = "outbound" /\ args.outbound = "valid"
               \/ s = "codec" /\ args.registry
               \/ s \in {"forwarder", "tls_watch"} /\ args.tls_cert

StartFails ==
    /\ step <= Len(Steps) /\ Fallible(Steps[step])
    /\ IF Starting("tls_watch") /\ ~file.good THEN UNCHANGED budget ELSE Fault
    /\ Exit
    /\ UNCHANGED <<startup, readiness, serving, refreshed>>

-----------------------------------------------------------------------------
(* Readiness and supervision. *)

\* The ownership consumer's first assignment callback, and what it finds
\* installed in the store; from then on warmth comes and goes.
FirstAssignment ==
    /\ Running /\ task["ownership"] = "running" /\ found = {} /\ Spend("flips")
    /\ found' = {"callback"} \cup {s \in {"publisher", "engine"} : Past(s)}
    /\ UNCHANGED <<startup, step, task, ready, cancelled, warm, watcher, serving, refreshed>>

WarmthChanges ==
    /\ Running /\ task["ownership"] = "running" /\ found # {}
    /\ Spend("flips")
    /\ warm' = ~warm
    /\ UNCHANGED <<startup, step, task, ready, cancelled, watcher, found, serving, refreshed>>

set_ready(v) == ready' = v

\* The watcher reads is_warm ...
Check ==
    /\ Running /\ watcher = "check"
    /\ watcher' = IF warm THEN "warm" ELSE "cold"
    /\ UNCHANGED <<startup, step, task, ready, cancelled, warm, found, serving, refreshed,
                   budget>>

\* ... stores what it read, and waits: a fresh wait sees a cancelled token at once.
Publish ==
    /\ Running /\ watcher \in {"warm", "cold"}
    /\ set_ready(watcher = "warm")
    /\ watcher' = IF cancelled THEN "stop" ELSE "wait"
    /\ UNCHANGED <<startup, step, task, cancelled, warm, found, serving, refreshed, budget>>

Sleep ==
    /\ Running /\ watcher = "wait"
    /\ watcher' = "check"
    /\ UNCHANGED <<startup, step, task, ready, cancelled, warm, found, serving, refreshed,
                   budget>>

\* The watcher sees the token in its select.
Retire == Running /\ cancelled /\ watcher \in {"wait", "stop"} /\ watcher' = "done"
          /\ ready' = FALSE

WatcherRetires ==
    Retire /\ UNCHANGED <<startup, step, task, cancelled, warm, found, serving, refreshed,
                          budget>>

\* A supervised task returns, or the signal arrives: not ready first ...
report(t) == /\ task' = [task EXCEPT ![t] = IF cancelled THEN "ended" ELSE "reporting"]
             /\ ready' = (ready /\ cancelled)

TaskEnds(t) ==
    /\ Running /\ task[t] = "running"
    /\ IF cancelled THEN UNCHANGED budget ELSE Fault
    /\ report(t)
    /\ warm' = (warm /\ t # "ownership")
    /\ UNCHANGED <<startup, step, cancelled, watcher, found, serving, refreshed>>

Signal ==
    /\ Running /\ task["signal"] = "running"
    /\ task' = [task EXCEPT !["signal"] = "reporting"] /\ ready' = FALSE
    /\ UNCHANGED <<startup, step, cancelled, warm, watcher, found, serving, refreshed,
                   budget>>

\* Before its handler is installed the signal ends the process.
SignalEarly ==
    /\ step <= Len(Steps) /\ task["signal"] = "absent"
    /\ Exit
    /\ UNCHANGED <<startup, readiness, serving, refreshed, budget>>

\* Fault injection: the outbound supervisor only logs.
cancel_NotOutbound(t) == cancelled' = (cancelled \/ t # "outbound")

\* ... and then the token.
cancel(t) == cancelled' = TRUE

Cancel(t) ==
    /\ Running /\ task[t] = "reporting"
    /\ cancel(t)
    /\ task' = [task EXCEPT ![t] = "ended"]
    /\ UNCHANGED <<startup, step, ready, warm, watcher, found, serving, refreshed, budget>>

-----------------------------------------------------------------------------
(* Connections. *)

Listening == step = Serving

\* A handler ends, a connection ends.
Ended(c, how) == [conn[c] EXCEPT !.req = "none", !.caller = "", !.verdict = "",
                                 !.last = IF conn[c].req = "none" THEN @ ELSE how]
Gone(c, how) == [Closed EXCEPT !.st = "closed", !.last = Ended(c, how).last]

\* The select is biased: nothing is accepted once the token is cancelled.
Accept(c) ==
    /\ Listening /\ ~cancelled /\ conn[c] = Closed /\ Spend("conns")
    /\ conn' = [conn EXCEPT ![c].st = IF args.tls_cert THEN "handshake" ELSE "open",
                            ![c].cert = tls]
    /\ UNCHANGED <<startup, step, task, readiness, inflight, refreshed>>

\* peer_principal: the subject of the client's certificate, if it showed one.
peer_principal == CASE args.tls_client_auth = "required" -> {"alice"}
                    [] args.tls_client_auth = "optional" -> {"alice", ""}
                    [] OTHER -> {""}

Handshake(c) ==
    /\ step \in {Serving, Draining} /\ conn[c].st = "handshake"
    /\ \/ \E p \in peer_principal :
             conn' = [conn EXCEPT ![c].st = "open", ![c].principal = p]
       \/ conn' = [conn EXCEPT ![c] = Gone(c, "")]      \* failed, or dropped at the token
    /\ UNCHANGED <<startup, step, task, readiness, inflight, refreshed, budget>>

\* auth_layer.rs: a token counts if a validator is configured and accepts it,
\* and then replaces the principal of the connection.
resolve_principal(p, token) ==
    IF args.bearer = "unsecured" /\ token = "valid" THEN "bob"
    ELSE IF p = "" THEN "ANONYMOUS" ELSE p

Request(c) ==
    /\ step \in {Serving, Draining} /\ conn[c].st = "open" /\ conn[c].req = "none"
    /\ ~conn[c].graceful
    /\ \E token \in {"none", "valid", "invalid"} :
          conn' = [conn EXCEPT ![c].req = "entered", ![c].verdict = "",
                               ![c].caller = resolve_principal(conn[c].principal, token)]
    /\ inflight' = inflight + 1                          \* begin_request
    /\ UNCHANGED <<startup, step, task, readiness, refreshed, budget>>

Applies(entries, p, permission) == \E e \in entries : e.principal = p /\ e.permission = permission

\* SimpleAclAuthorizer over a set of entries.
Grants(entries, p) == \/ p \in args.authz_super_users
                      \/ Applies(entries, p, "allow") /\ ~Applies(entries, p, "deny")

authorize_resource(p) == args.authz = "off" \/ Grants(cache, p)

Authorize(c) ==
    /\ conn[c].req = "entered"
    /\ conn' = [conn EXCEPT ![c].req = "decided",
                            ![c].verdict = IF authorize_resource(conn[c].caller) THEN "allow" ELSE "deny"]
    /\ UNCHANGED <<startup, step, task, readiness, inflight, refreshed, budget>>

\* RequestGuard::drop, on every way out of a handler.
drop_guard == inflight' = inflight - Cardinality({c \in Conns : conn[c].req # "none" /\ conn'[c].req = "none"})

Respond(c) ==
    /\ conn[c].req = "decided"
    /\ conn' = [conn EXCEPT ![c] =
                  IF conn[c].graceful THEN Gone(c, "answered") ELSE Ended(c, "answered")]
    /\ drop_guard
    /\ UNCHANGED <<startup, step, task, readiness, refreshed, budget>>

ClientLeaves(c) ==
    /\ step \in {Serving, Draining} /\ conn[c].st = "open"
    /\ conn' = [conn EXCEPT ![c] = Gone(c, "left")]
    /\ drop_guard
    /\ UNCHANGED <<startup, step, task, readiness, refreshed, budget>>

\* The request in progress is finished, an idle connection is closed.
graceful_shutdown(c) ==
    IF conn[c].req = "none" THEN Gone(c, "") ELSE [conn[c] EXCEPT !.graceful = TRUE]

Graceful(c) ==
    /\ step \in {Serving, Draining} /\ cancelled /\ conn[c].st = "open" /\ ~conn[c].graceful
    /\ conn' = [conn EXCEPT ![c] = graceful_shutdown(c)]
    /\ drop_guard
    /\ UNCHANGED <<startup, step, task, readiness, refreshed, budget>>

StopAccepting ==
    /\ Listening /\ cancelled
    /\ step' = Draining
    /\ UNCHANGED <<startup, task, readiness, serving, refreshed, budget>>

Open == {c \in Conns : conn[c].st \in {"handshake", "open"}}

drain_connections == \* all gone, or the deadline: the remaining ones are aborted
    /\ step = Draining
    /\ conn' = [c \in Conns |-> IF c \in Open THEN Gone(c, "cut") ELSE conn[c]]
    /\ drop_guard
    /\ Exit

Drain ==
    drain_connections /\ UNCHANGED <<startup, readiness, refreshed, budget>>

-----------------------------------------------------------------------------
(* The two refreshers. *)

AclsChange ==
    /\ Running /\ args.authz = "simple" /\ Change
    /\ acls' \in AclStates \ {acls} /\ held' = held \cup {acls'}
    /\ UNCHANGED <<startup, step, task, readiness, serving, cache, file, tls>>

\* Fault injection: what cannot be converted is left out.
fetch_Partial(answer) == {e \in answer : e.pattern # "match"}

\* A malformed answer has the filter-only pattern where an entry should be.
fetch(answer) == IF \E e \in answer : e.pattern = "match" THEN cache ELSE answer

Refreshing == Running /\ task["authz"] = "running"

RefreshAcls ==
    /\ Refreshing
    /\ cache' = fetch(acls)
    /\ UNCHANGED <<startup, step, task, readiness, serving, acls, held, file, tls, budget>>

RefreshMalformed ==
    /\ Refreshing /\ Fault
    /\ \E bad \in acls : cache' = fetch((acls \ {bad}) \cup {[bad EXCEPT !.pattern = "match"]})
    /\ UNCHANGED <<startup, step, task, readiness, serving, acls, held, file, tls>>

\* No answer: the task keeps the snapshot and goes on.
acl_refresh_failed == UNCHANGED task

RefreshFails ==
    /\ Refreshing /\ Fault /\ acl_refresh_failed
    /\ UNCHANGED <<startup, step, readiness, serving, refreshed>>

FileChanges ==
    /\ Running /\ args.tls_cert
    /\ \/ Change /\ file' = [version |-> file.version + 1, good |-> TRUE]
       \/ Fault /\ file' = [version |-> file.version + 1, good |-> FALSE]
    /\ UNCHANGED <<startup, step, task, readiness, serving, acls, cache, held, tls>>

ReloadTls ==
    /\ Running /\ task["tls_watch"] = "running"
    /\ tls' = IF file.good THEN file.version ELSE tls
    /\ UNCHANGED <<startup, step, task, readiness, serving, acls, cache, held, file, budget>>

RefresherStops(t) ==
    /\ Running /\ cancelled /\ task[t] = "running"
    /\ task' = [task EXCEPT ![t] = "ended"]
    /\ UNCHANGED <<startup, step, readiness, serving, refreshed, budget>>

-----------------------------------------------------------------------------
Finished == step = Exited /\ UNCHANGED vars

Startup == StartStep \/ StartFails \/ (\E t \in InternalTopics : EnsureTopic(t) \/ FallBack(t))
Watcher == Check \/ Publish \/ Sleep \/ WatcherRetires
Supervision == \/ \E t \in Supervised : TaskEnds(t)
               \/ \E t \in Supervised \cup {"signal"} : Cancel(t)
Connection(c) == \/ Accept(c) \/ Handshake(c) \/ Request(c) \/ Authorize(c) \/ Respond(c)
                 \/ ClientLeaves(c) \/ Graceful(c)
Refresh == \/ RefreshAcls \/ RefreshMalformed \/ RefreshFails \/ ReloadTls
           \/ \E t \in {"authz", "tls_watch"} : RefresherStops(t)
Outside == \/ \E t \in InternalTopics : OtherCreates(t)
           \/ FirstAssignment \/ WarmthChanges \/ Signal \/ SignalEarly
           \/ AclsChange \/ FileChanges

Next == \/ Startup \/ Watcher \/ Supervision \/ (\E c \in Conns : Connection(c))
        \/ StopAccepting \/ Drain \/ Refresh \/ Outside \/ Finished

\* The runtime polls every task that can go on; calls to the broker return, or
\* fail, in the end; the drain has a deadline.
Fairness == /\ WF_vars(Startup) /\ WF_vars(Watcher)
            /\ WF_vars(\E t \in Supervised \cup {"signal"} : Cancel(t))
            /\ WF_vars(StopAccepting \/ Drain)
            /\ WF_vars(RefreshAcls \/ ReloadTls)

Spec == Init /\ [][Next]_vars /\ Fairness

-----------------------------------------------------------------------------
\* Every variable holds what its field of the process can hold; run falls back
\* to one replica, and no further, and only if it may.
TypeOK ==
    /\ \E p \in Profiles : args = p.args
    /\ step \in 1..Exited
    /\ \/ rf = runtime_config(args).replication_factor
       \/ rf = 1 /\ runtime_config(args).allow_fallback
    /\ \A t \in InternalTopics : topics[t].partitions \in Nat /\ topics[t].retention \in Nat
    /\ task \in [Tasks -> {"absent", "running", "reporting", "ended"}]
    /\ ready \in BOOLEAN /\ cancelled \in BOOLEAN /\ warm \in BOOLEAN
    /\ watcher \in {"absent", "check", "warm", "cold", "wait", "stop", "done"}
    /\ found \subseteq {"callback", "publisher", "engine"}
    /\ \A c \in Conns : /\ conn[c].st \in {"none", "handshake", "open", "closed"}
                        /\ conn[c].req \in {"none", "entered", "decided"}
    /\ inflight \in 0..Cardinality(Conns)
    /\ acls \in held /\ held \subseteq AclStates \cup {{}}
    /\ file.version \in Nat \ {0} /\ tls \in 0..file.version

\* dedup/topic.rs:4: retention.ms is the dedup horizon, and the partition count
\* the number of ownership shards.  When the store starts to work with them
\* both internal topics exist, and those this process created have exactly the
\* window and the partitions that were written on the command line.
TopicsAsConfigured ==
    Past("ensure_membership") =>
        \A t \in InternalTopics :
            /\ topics[t] # NoTopic
            /\ topics[t].own /\ t = "dedup" =>
                  /\ topics[t].retention = args.dedup_window
                  /\ topics[t].partitions = args.dedup_partitions

\* bin/gateway.rs:612: the first assignment of the ownership consumer, which may
\* come as soon as its task is spawned, finds the publisher that announces it
\* and the engine that fences the partition's transactional id.
FirstAssignmentPrepared == found # {} => {"publisher", "engine"} \subseteq found

\* authz/mod.rs:114: whoever is let in was, by the rules of one complete set of
\* ACLs the broker held at some time (or authorization is off, or the caller a
\* super user), and is the caller that its certificate or its token names.
GrantsAreJustified ==
    \A c \in Conns : conn[c].verdict = "allow" =>
        /\ args.authz = "off" \/ \E entries \in held : Grants(entries, conn[c].caller)
        /\ conn[c].caller = "bob" => args.bearer = "unsecured"
        /\ conn[c].caller = "alice" => conn[c].principal = "alice" /\ conn[c].cert > 0

\* serve.rs:28: a shutdown ends a request in progress only at the drain
\* deadline; until then it is answered, or its client goes away.
RequestsAreDrained ==
    [][\A c \in Conns : conn[c].req # "none" /\ conn'[c].req = "none" =>
          \/ conn'[c].last \in {"answered", "left"}
          \/ step = Draining /\ step' = Exited]_vars

\* bin/gateway.rs:804, 838, 968: when a supervised task ends, or the signal
\* arrives, the process ends: no part of the gateway lives on without it,
\* however far the startup had come.
EndsAfterFailure ==
    (cancelled \/ \E t \in Supervised \cup {"signal"} : task[t] = "reporting") ~> step = Exited

\* health.rs:14: the readiness flag follows the warmth of the store both ways.
ReadinessFollowsWarmth ==
    /\ (Running /\ ready /\ ~warm) ~> (~ready \/ warm \/ ~Running)
    /\ (watcher # "absent" /\ warm) ~> (ready \/ ~warm \/ cancelled \/ ~Running)

\* bin/gateway.rs:866: the watcher may store a stale TRUE over the FALSE of
\* whoever cancelled the token, or be spawned after that; all the same there is
\* a last time that a process that is stopping calls itself ready.
UnreadyForGood == cancelled ~> [](~ready \/ ~Running)

\* authz/mod.rs:41, serve.rs:194: after failed or malformed refreshes the ACLs
\* the broker holds are the ones enforced in the end, and the certificate on
\* disk the one presented.
RefreshesCatchUp ==
    /\ (task["authz"] = "running" /\ cache # acls) ~> (cache = acls \/ cancelled \/ ~Running)
    /\ (task["tls_watch"] = "running" /\ file.good /\ tls # file.version)
          ~> (tls = file.version \/ ~file.good \/ cancelled \/ ~Running)

\* The order of run in bin/gateway.rs leaves no step without what it needs.
StartsAsConfigured == TypeOK /\ TopicsAsConfigured /\ FirstAssignmentPrepared

\* The process goes on, or ends, as its supervision intends: requests are
\* drained, failures end it, and what is refreshed in the background catches up.
StopsAndCatchesUp ==
    /\ RequestsAreDrained /\ EndsAfterFailure
    /\ ReadinessFollowsWarmth /\ UnreadyForGood /\ RefreshesCatchUp

=============================================================================
