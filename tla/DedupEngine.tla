---------------------------- MODULE DedupEngine ----------------------------
(***************************************************************************)
(* Keyed (idempotent) produce in the gateway: every replica runs a         *)
(* DedupEngine, a DedupStore and the ownership consumer that feeds it      *)
(* (crates/gateway/src/dedup/mod.rs and store.rs).                         *)
(*                                                                         *)
(* A dedup partition is owned by one replica, through the assignment of a  *)
(* Kafka consumer group.  The owner writes a keyed record and its claim in *)
(* one Kafka transaction, under the transactional id of that partition,    *)
(* and remembers the claim in a map; a replica that gains a partition      *)
(* first takes over the transactional id (which fences the previous        *)
(* owner), then replays the claim topic up to the end it captured, and     *)
(* only then answers requests.                                             *)
(*                                                                         *)
(* Kafka itself is external: the claim log, the transaction coordinator    *)
(* and the group coordinator are modelled from how the code uses them.     *)
(*                                                                         *)
(* A request writes at most one data record, so the coordinates            *)
(* (topic, partition, offset) of a record are abstracted to the request    *)
(* that wrote it, and a claim is the name of that request.                 *)
(***************************************************************************)
EXTENDS Integers, Sequences, FiniteSets

CONSTANTS
  Replicas,            \* the gateway processes
  Partitions,          \* the partitions of the dedup topic
  Keys,                \* idempotency keys
  Requests,            \* keyed produce calls
  partition_for,       \* the dedup partition of every key
  None,                \* no claim, no replica, no transaction
  warmup_empty_polls,  \* the setting of that name
  MaxFaults,           \* bound: how often each kind of fault may happen
  Mixes                \* bound: the kinds of faults that one behaviour may combine

\* failure: a broker call fails or its answer is lost.  cancel: the caller
\* drops the produce future.  rebalance: the group moves partitions although
\* no member left.  evict: the group coordinator drops a live member.
\* stop: orderly shutdown.  crash: the process dies.
Faults == {"failure", "cancel", "rebalance", "evict", "stop", "crash"}

ASSUME PartitionsAssumption == partition_for \in [Keys -> Partitions]
ASSUME BoundsAssumption ==
  warmup_empty_polls \in Nat \ {0} /\ MaxFaults \in [Faults -> Nat] /\ Mixes \subseteq SUBSET Faults

VARIABLES
  \* The Kafka cluster (external).
  log,        \* log[p]: the committed claims of dedup partition p, in order
  data,       \* the requests whose data record is committed
  txn,        \* txn[p]: the transaction open under p's transactional id
  current,    \* current[p]: the replica that holds p's producer epoch
  coord,      \* coord[p]: the group member p is assigned to
  \* DedupStore and ownership consumer of each replica.
  owned,      \* owned[r]: the partitions r believes it owns
  map,        \* map[r][k]: the claim r knows for k
  warm,       \* warm[r]: replay has caught up since the last assignment
  restart_required,
  empty_polls,
  replay_targets,  \* replay_targets[r][p]: captured end, or -1
  position,   \* position[r][p]: claims of p the consumer of r has read
  own,        \* own[r]: where the ownership task of r is
  gained,     \* gained[r]: partitions of the assignment being prepared
  todo,       \* todo[r]: partitions still to release or prepare
  slots,      \* slots[r][p]: the transactional producer of r for p
  \* Keyed produce calls.
  at,         \* at[i]: the replica that handles call i
  key,        \* key[i]: its idempotency key
  pc,         \* pc[i]: where the call is
  answer,     \* answer[i]: the coordinates it returned
  \* Bookkeeping of the model.
  spent,      \* spent[f]: faults of kind f so far
  excuses     \* what has happened that the engine has no defence against

kafkaVars == <<log, data, txn, current>>
storeVars == <<owned, map, warm, restart_required, empty_polls,
               replay_targets, position>>
taskVars == <<own, gained, todo>>
reqVars == <<at, key, pc, answer>>
vars == <<kafkaVars, coord, storeVars, taskVars, slots, reqVars, spent, excuses>>

-----------------------------------------------------------------------------
(* Where a call is, and where an ownership task is.                        *)

\* A call holds the slot lock of its partition while its pc is in Holding,
\* and a Transaction guard as well while it is in InTxn.
InTxn == {"data", "claim", "commit", "committing", "abort"}
Holding == {"check", "init", "begin"} \cup InTxn
Finished == {"ok", "dup", "unavailable", "error", "cancelled"}
PCs == {"idle", "lock"} \cup Holding \cup Finished

\* usurped: a lazy init took a transactional id from another replica.
\* stale_gate: a call looked its key up in a map that was being taken down.
Excuses == {"usurped", "stale_gate"}
Excused == excuses # {}

\* "poll": in the poll loop; "releasing" and "preparing": in a rebalance
\* callback; "exited": the loop has returned, calls may still drain;
\* "down": no process.
OwnStates == {"poll", "releasing", "preparing", "exited", "down"}

\* An open transaction: the call that writes it, whether the claim has been
\* sent after the data record, and whether EndTxn(commit) is on its way.
Txns == [req: Requests, claim: BOOLEAN, ending: BOOLEAN]

ASSUME NoneAssumption == None \notin Replicas \cup Requests \cup Txns

KafkaTypeOK ==
  /\ log \in [Partitions -> Seq(Requests)]
  /\ data \in SUBSET Requests
  /\ txn \in [Partitions -> Txns \cup {None}]
  /\ current \in [Partitions -> Replicas \cup {None}]
  /\ coord \in [Partitions -> Replicas \cup {None}]

StoreTypeOK ==
  /\ owned \in [Replicas -> SUBSET Partitions]
  /\ map \in [Replicas -> [Keys -> Requests \cup {None}]]
  /\ warm \in [Replicas -> BOOLEAN]
  /\ restart_required \in [Replicas -> BOOLEAN]
  /\ empty_polls \in [Replicas -> 0..warmup_empty_polls]
  /\ replay_targets \in [Replicas -> [Partitions -> Nat \cup {-1}]]
  /\ position \in [Replicas -> [Partitions -> Nat]]

TaskTypeOK ==
  /\ own \in [Replicas -> OwnStates]
  /\ gained \in [Replicas -> SUBSET Partitions]
  /\ todo \in [Replicas -> SUBSET Partitions]
  /\ slots \in [Replicas -> [Partitions -> {"none", "ready", "recovery"}]]

CallTypeOK ==
  /\ at \in [Requests -> Replicas]
  /\ key \in [Requests -> Keys]
  /\ pc \in [Requests -> PCs]
  /\ answer \in [Requests -> Requests \cup {None}]

\* Every variable holds a value of its type.
TypeOK ==
  /\ KafkaTypeOK
  /\ StoreTypeOK
  /\ TaskTypeOK
  /\ CallTypeOK
  /\ spent \in [Faults -> Nat]
  /\ excuses \in SUBSET Excuses

Fresh(r, state) ==
  /\ owned' = [owned EXCEPT ![r] = {}]
  /\ map' = [map EXCEPT ![r] = [k \in Keys |-> None]]
  /\ warm' = [warm EXCEPT ![r] = FALSE]
  /\ own' = [own EXCEPT ![r] = state]
  /\ gained' = [gained EXCEPT ![r] = {}]
  /\ todo' = [todo EXCEPT ![r] = {}]

\* DedupStore::new, DedupEngine::new: an empty store that owns nothing and no
\* producer; no call has arrived.
Init ==
  /\ log = [p \in Partitions |-> <<>>]
  /\ data = {}
  /\ txn = [p \in Partitions |-> None]
  /\ current = [p \in Partitions |-> None]
  /\ coord = [p \in Partitions |-> None]
  /\ owned = [r \in Replicas |-> {}]
  /\ map = [r \in Replicas |-> [k \in Keys |-> None]]
  /\ warm = [r \in Replicas |-> FALSE]
  /\ restart_required = [r \in Replicas |-> FALSE]
  /\ empty_polls = [r \in Replicas |-> 0]
  /\ replay_targets = [r \in Replicas |-> [p \in Partitions |-> -1]]
  /\ position = [r \in Replicas |-> [p \in Partitions |-> 0]]
  /\ own = [r \in Replicas |-> "poll"]
  /\ gained = [r \in Replicas |-> {}]
  /\ todo = [r \in Replicas |-> {}]
  /\ slots = [r \in Replicas |-> [p \in Partitions |-> "none"]]
  /\ at \in [Requests -> Replicas]
  /\ key \in [Requests -> Keys]
  /\ pc = [i \in Requests |-> "idle"]
  /\ answer = [i \in Requests |-> None]
  /\ spent = [f \in Faults |-> 0]
  /\ excuses = {}

PartOf(i) == partition_for[key[i]]

\* A fault of kind f happens, if the bounds allow another one.
Spend(f) ==
  /\ spent[f] < MaxFaults[f]
  /\ \E mix \in Mixes : f \in mix /\ \A g \in Faults : spent[g] > 0 => g \in mix
  /\ spent' = [spent EXCEPT ![f] = @ + 1]

\* A call of replica r to the transaction coordinator of p can fail for two
\* reasons: another producer has fenced it, or the call itself is lost.
FencedOrFailure(r, p) ==
  \/ current[p] # r /\ UNCHANGED spent
  \/ current[p] = r /\ Spend("failure")

owns(r, p) == p \in owned[r]
is_warm(r) == warm[r] /\ ~restart_required[r]

\* Fault injection: a dropped future leaks the lock it holds.
SlotFree_Leaked(r, p) ==
  \A i \in Requests :
    ~(at[i] = r /\ PartOf(i) = p /\ pc[i] \in Holding \cup {"cancelled"})

\* The slot mutex of p at r is free: no call of r holds it.  (The ownership
\* task takes it within one step.)
SlotFree(r, p) ==
  \A i \in Requests : ~(at[i] = r /\ PartOf(i) = p /\ pc[i] \in Holding)

require_restart(r) ==
  /\ restart_required' = [restart_required EXCEPT ![r] = TRUE]
  /\ warm' = [warm EXCEPT ![r] = FALSE]

apply(r, k, c) == map' = [map EXCEPT ![r][k] = c]

SetSlot(r, p, s) == slots' = [slots EXCEPT ![r][p] = s]
Goto(i, l) == pc' = [pc EXCEPT ![i] = l]

-----------------------------------------------------------------------------
(* dedup_produce and txn_write.                                            *)

\* The gate that dedup_produce puts before each of its two lookups.
gate(i) == owns(at[i], PartOf(i)) /\ is_warm(at[i])

\* The lookup: answer from the map, or go on at label l.
LookupThen(i, l) ==
  LET c == map[at[i]][key[i]] IN
  \/ c # None /\ Goto(i, "dup") /\ answer' = [answer EXCEPT ![i] = c]
  \/ c = None /\ Goto(i, l) /\ UNCHANGED answer

requestOnly == <<kafkaVars, coord, storeVars, taskVars, slots, at, key, spent>>

\* The call arrives: first gate and the fast path, no lock.  (Both happen under
\* the lock again, so nothing depends on their being one step.)
dedup_produce(i) ==
  /\ pc[i] = "idle"
  /\ own[at[i]] # "down"
  /\ \/ gate(i) /\ LookupThen(i, "lock")
     \/ ~gate(i) /\ Goto(i, "unavailable") /\ UNCHANGED answer
  /\ UNCHANGED <<requestOnly, excuses>>

\* The call gets the slot lock and passes the gate again, or not.
LockSlot(i) ==
  /\ pc[i] = "lock"
  /\ SlotFree(at[i], PartOf(i))
  /\ Goto(i, IF gate(i) THEN "check" ELSE "unavailable")
  /\ UNCHANGED <<answer, requestOnly, excuses>>

\* Fault injection: the lookup under the lock is left out.
Recheck_Skipped(i) ==
  /\ pc[i] = "check"
  /\ Goto(i, IF slots[at[i]][PartOf(i)] = "none" THEN "init" ELSE "begin")
  /\ UNCHANGED <<answer, requestOnly, excuses>>

\* The lookup under the lock.  Another worker thread may have run a rebalance
\* callback, which clears the map without taking the lock, since the gate.
Recheck(i) ==
  /\ pc[i] = "check"
  /\ LookupThen(i, IF slots[at[i]][PartOf(i)] = "none" THEN "init" ELSE "begin")
  /\ excuses' = excuses \cup {x \in {"stale_gate"} : ~gate(i) /\ map[at[i]][key[i]] = None}
  /\ UNCHANGED requestOnly

\* init_transactions (external): the coordinator bumps the epoch, which fences
\* every other producer of the transactional id and aborts what it left open.
init_transactions(r, p) ==
  /\ current' = [current EXCEPT ![p] = r]
  /\ txn' = [txn EXCEPT ![p] = None]
  /\ UNCHANGED <<log, data>>

\* The init_producer of a call, perhaps under an id another replica has taken.
init_producer(i) ==
  /\ init_transactions(at[i], PartOf(i))
  /\ excuses' = excuses \cup {x \in {"usurped"} : current[PartOf(i)] # at[i]}

\* txn_write initializes the producer of an empty slot.
LazyInit(i) ==
  /\ pc[i] = "init"
  /\ init_producer(i)
  /\ SetSlot(at[i], PartOf(i), "ready")
  /\ Goto(i, "begin")
  /\ UNCHANGED <<coord, storeVars, taskVars, at, key, answer, spent>>

\* ... which fails, before or after the coordinator has bumped the epoch.
LazyInitFails(i) ==
  /\ pc[i] = "init"
  /\ Spend("failure")
  /\ UNCHANGED <<kafkaVars, excuses>> \/ init_producer(i)
  /\ Goto(i, "error")
  /\ UNCHANGED <<coord, storeVars, taskVars, slots, at, key, answer>>

\* begin_transaction is local: it succeeds unless an earlier guard was dropped.
BeginTransaction(i) ==
  /\ pc[i] = "begin"
  /\ slots[at[i]][PartOf(i)] = "ready"
  /\ Goto(i, "data")
  /\ UNCHANGED <<answer, requestOnly, excuses>>

\* ... and then the replica has to restart; dedup_produce empties the slot.
RecoveryRequired(i) ==
  /\ pc[i] = "begin"
  /\ slots[at[i]][PartOf(i)] = "recovery"
  /\ require_restart(at[i])
  /\ SetSlot(at[i], PartOf(i), "none")
  /\ Goto(i, "error")
  /\ UNCHANGED <<kafkaVars, coord, owned, map, empty_polls, replay_targets,
                 position, taskVars, at, key, answer, spent, excuses>>

\* The data record goes to the user topic and opens the transaction.
SendData(i) ==
  LET p == PartOf(i) IN
  /\ pc[i] = "data"
  /\ current[p] = at[i]
  /\ txn' = [txn EXCEPT ![p] = [req |-> i, claim |-> FALSE, ending |-> FALSE]]
  /\ Goto(i, "claim")
  /\ UNCHANGED <<log, data, current, coord, storeVars, taskVars, slots,
                 at, key, answer, spent, excuses>>

\* The claim goes to partition p of the dedup topic, in the same transaction.
SendClaim(i) ==
  LET p == PartOf(i) IN
  /\ pc[i] = "claim"
  /\ current[p] = at[i]
  /\ txn' = [txn EXCEPT ![p] = [req |-> i, claim |-> TRUE, ending |-> FALSE]]
  /\ Goto(i, "commit")
  /\ UNCHANGED <<log, data, current, coord, storeVars, taskVars, slots,
                 at, key, answer, spent, excuses>>

\* Either send fails: abort.
AfterSendError == "abort"
SendFails(i) ==
  /\ pc[i] \in {"data", "claim"}
  /\ FencedOrFailure(at[i], PartOf(i))
  /\ Goto(i, AfterSendError)
  /\ UNCHANGED <<kafkaVars, coord, storeVars, taskVars, slots, at, key, answer, excuses>>

\* What the coordinator keeps of an EndTxn(commit) of replica r that it has
\* received (e = TRUE) or rejected (e = FALSE); a fenced producer has no say.
EndTxn(r, p, e) ==
  txn' = IF current[p] # r \/ txn[p] = None THEN txn
         ELSE [txn EXCEPT ![p] = [req |-> txn[p].req, claim |-> txn[p].claim, ending |-> e]]

\* EndTxn(commit) is sent.
SendCommit(i) ==
  /\ pc[i] = "commit"
  /\ EndTxn(at[i], PartOf(i), TRUE)
  /\ Goto(i, "committing")
  /\ UNCHANGED <<log, data, current, coord, storeVars, taskVars, slots,
                 at, key, answer, spent, excuses>>

\* The coordinator commits (external): data record and claim become visible to
\* read-committed consumers together.  It may do so when nobody waits any more.
BrokerCommit(p) ==
  /\ txn[p] # None
  /\ txn[p].ending
  /\ data' = data \cup {txn[p].req}
  /\ log' = IF txn[p].claim THEN [log EXCEPT ![p] = Append(@, txn[p].req)] ELSE log
  /\ txn' = [txn EXCEPT ![p] = None]
  /\ UNCHANGED <<current, coord, storeVars, taskVars, slots, reqVars, spent, excuses>>

\* The commit is confirmed: the claim enters the local map.
CommitSucceeds(i) ==
  /\ pc[i] = "committing"
  /\ i \in data
  /\ apply(at[i], key[i], i)
  /\ Goto(i, "ok")
  /\ answer' = [answer EXCEPT ![i] = i]
  /\ UNCHANGED <<kafkaVars, coord, owned, warm, restart_required, empty_polls,
                 replay_targets, position, taskVars, slots, at, key, spent, excuses>>

\* A definite commit failure: the transaction is still open and can be aborted.
CommitFails(i) ==
  /\ pc[i] = "committing"
  /\ i \notin data
  /\ FencedOrFailure(at[i], PartOf(i))
  /\ EndTxn(at[i], PartOf(i), FALSE)
  /\ Goto(i, "abort")
  /\ UNCHANGED <<log, data, current, coord, storeVars, taskVars, slots,
                 at, key, answer, excuses>>

\* Fault injection: a lost answer is taken for a confirmed abort.
CommitUncertain_Serving(i) ==
  /\ pc[i] = "committing"
  /\ Spend("failure")
  /\ SetSlot(at[i], PartOf(i), "none")
  /\ Goto(i, "error")
  /\ UNCHANGED <<kafkaVars, coord, storeVars, taskVars, at, key, answer, excuses>>

\* The answer to EndTxn is lost.  Whether or not the commit happened, or still
\* will, the abort that follows cannot be confirmed.
CommitUncertain(i) ==
  /\ pc[i] = "committing"
  /\ Spend("failure")
  /\ require_restart(at[i])
  /\ SetSlot(at[i], PartOf(i), "none")
  /\ Goto(i, "error")
  /\ UNCHANGED <<kafkaVars, coord, owned, map, empty_polls, replay_targets,
                 position, taskVars, at, key, answer, excuses>>

\* A confirmed abort empties the slot and leaves the replica serving.
AbortConfirmed(i) ==
  LET p == PartOf(i) IN
  /\ pc[i] = "abort"
  /\ current[p] = at[i]
  /\ txn' = [txn EXCEPT ![p] = None]
  /\ SetSlot(at[i], p, "none")
  /\ Goto(i, "error")
  /\ UNCHANGED <<log, data, current, coord, storeVars, taskVars, at, key,
                 answer, spent, excuses>>

\* An abort that fails leaves the outcome open: the replica must restart.
AbortFails(i) ==
  /\ pc[i] = "abort"
  /\ FencedOrFailure(at[i], PartOf(i))
  /\ require_restart(at[i])
  /\ SetSlot(at[i], PartOf(i), "none")
  /\ Goto(i, "error")
  /\ UNCHANGED <<kafkaVars, coord, owned, map, empty_polls, replay_targets,
                 position, taskVars, at, key, answer, excuses>>

\* The caller drops the future (client gone, forward deadline): the lock is
\* released; a dropped Transaction guard poisons the producer, a dropped
\* init_producer may have reached the coordinator.  Between gate and lookup
\* there is no await to be dropped at.
Cancel(i) ==
  /\ pc[i] \in {"lock"} \cup (Holding \ {"check"})
  /\ Spend("cancel")
  /\ SetSlot(at[i], PartOf(i),
             IF pc[i] \in InTxn THEN "recovery" ELSE slots[at[i]][PartOf(i)])
  /\ Goto(i, "cancelled")
  /\ UNCHANGED <<kafkaVars, excuses>> \/ (pc[i] = "init" /\ init_producer(i))
  /\ UNCHANGED <<coord, storeVars, taskVars, at, key, answer>>

-----------------------------------------------------------------------------
(* The rebalance callbacks of OwnershipReplay and the poll loop.           *)

\* update_assignment.  Publishing the assignment to the membership topic,
\* its last statement, concerns routing only.
update_assignment(r, assigned) ==
  /\ warm' = [warm EXCEPT ![r] = FALSE]
  /\ empty_polls' = [empty_polls EXCEPT ![r] = 0]
  /\ owned' = [owned EXCEPT ![r] = assigned]
  /\ map' = [map EXCEPT ![r] =
       [k \in Keys |-> IF partition_for[k] \in owned[r] \ assigned
                       THEN None ELSE map[r][k]]]

\* Partitions r believes it owns although the coordinator took them away.
Lost(r) == {p \in owned[r] : coord[p] # r}

\* The first half of on_partitions_revoked, for partitions the group moves
\* away or for all those the member has lost.
on_partitions_revoked(r, S) ==
  /\ own[r] = "poll"
  /\ S # {}
  /\ \/ S = Lost(r) /\ UNCHANGED spent
     \/ S \subseteq owned[r] /\ Lost(r) = {} /\ Spend("rebalance")
  /\ replay_targets' = [replay_targets EXCEPT ![r] = [p \in Partitions |-> -1]]
  /\ update_assignment(r, owned[r] \ S)
  /\ own' = [own EXCEPT ![r] = "releasing"]
  /\ todo' = [todo EXCEPT ![r] = S]
  /\ UNCHANGED <<kafkaVars, coord, restart_required, position, gained, slots,
                 reqVars, excuses>>

\* Fault injection: the slot is emptied under the call that holds it.
release_partitions_NoWait(r, p) ==
  /\ own[r] = "releasing"
  /\ p \in todo[r]
  /\ SetSlot(r, p, "none")
  /\ todo' = [todo EXCEPT ![r] = @ \ {p}]
  /\ UNCHANGED <<kafkaVars, coord, storeVars, own, gained, reqVars, spent, excuses>>

\* release_partitions waits for the call that holds the slot.
release_partitions(r, p) ==
  /\ own[r] = "releasing"
  /\ p \in todo[r]
  /\ SlotFree(r, p)
  /\ SetSlot(r, p, "none")
  /\ todo' = [todo EXCEPT ![r] = @ \ {p}]
  /\ UNCHANGED <<kafkaVars, coord, storeVars, own, gained, reqVars, spent, excuses>>

\* The callback returns and the member rejoins: what it gave up can be assigned.
RevokeDone(r) ==
  /\ own[r] = "releasing"
  /\ todo[r] = {}
  /\ own' = [own EXCEPT ![r] = "poll"]
  /\ coord' = [p \in Partitions |->
                 IF coord[p] = r /\ p \notin owned[r] THEN None ELSE coord[p]]
  /\ UNCHANGED <<kafkaVars, storeVars, gained, todo, slots, reqVars, spent, excuses>>

\* The first half of on_partitions_assigned: the group gives the free
\* partitions S to r.  A rebalance may also leave the assignment as it is.
on_partitions_assigned(r, S) ==
  /\ own[r] = "poll"
  /\ Lost(r) = {}
  /\ S \subseteq {p \in Partitions : coord[p] = None}
  /\ IF S = {} THEN Spend("rebalance") ELSE UNCHANGED spent
  /\ coord' = [p \in Partitions |-> IF p \in S THEN r ELSE coord[p]]
  /\ warm' = [warm EXCEPT ![r] = FALSE]
  /\ own' = [own EXCEPT ![r] = "preparing"]
  /\ gained' = [gained EXCEPT ![r] = S]
  /\ todo' = [todo EXCEPT ![r] = S]
  /\ UNCHANGED <<kafkaVars, owned, map, restart_required, empty_polls,
                 replay_targets, position, slots, reqVars, excuses>>

\* prepare_partitions: a fresh producer for every gained partition.
prepare_partitions(r, p) ==
  /\ own[r] = "preparing"
  /\ p \in todo[r]
  /\ SlotFree(r, p)
  /\ init_transactions(r, p)
  /\ SetSlot(r, p, "ready")
  /\ todo' = [todo EXCEPT ![r] = @ \ {p}]
  /\ UNCHANGED <<coord, storeVars, own, gained, reqVars, spent, excuses>>

\* The second half of on_partitions_assigned: seek, capture the ends of every
\* assigned partition, adopt the assignment.
CaptureEnds(r) ==
  LET assigned == owned[r] \cup gained[r] IN
  /\ own[r] = "preparing"
  /\ todo[r] = {}
  /\ position' = [position EXCEPT ![r] =
       [p \in Partitions |-> IF p \in gained[r] THEN 0 ELSE position[r][p]]]
  /\ replay_targets' = [replay_targets EXCEPT ![r] =
       [p \in Partitions |-> IF p \in assigned THEN Len(log[p]) ELSE -1]]
  /\ update_assignment(r, assigned)
  /\ own' = [own EXCEPT ![r] = "poll"]
  /\ gained' = [gained EXCEPT ![r] = {}]
  /\ UNCHANGED <<kafkaVars, coord, restart_required, todo, slots, reqVars,
                 spent, excuses>>

\* Fault injection: empty polls alone prove replay (the earlier warm gate).
replay_complete_EmptyPollsOnly(r) ==
  {p \in Partitions : replay_targets[r][p] # -1} # {}

\* Fault injection: off by one, waiting for a claim past the captured end.
replay_complete_PastEnd(r) ==
  LET targets == {p \in Partitions : replay_targets[r][p] # -1} IN
  targets # {} /\ \A p \in targets : position[r][p] > replay_targets[r][p]

\* replay_complete over the partitions that have a target.
replay_complete(r) ==
  LET targets == {p \in Partitions : replay_targets[r][p] # -1} IN
  /\ targets # {}
  /\ \A p \in targets : position[r][p] >= replay_targets[r][p]

\* The warm gate, at the end of every pass of the loop with n empty polls.
WarmGate(r, n) ==
  warm' = [warm EXCEPT ![r] =
            @ \/ (~is_warm(r) /\ n >= warmup_empty_polls /\ replay_complete(r))]

\* poll returns nothing.
PollEmpty(r) ==
  LET n == IF empty_polls[r] < warmup_empty_polls THEN empty_polls[r] + 1
                                                  ELSE empty_polls[r] IN
  /\ own[r] = "poll"
  /\ ~restart_required[r]
  /\ empty_polls' = [empty_polls EXCEPT ![r] = n]
  /\ WarmGate(r, n)
  /\ UNCHANGED <<kafkaVars, coord, owned, map, restart_required, replay_targets,
                 position, taskVars, slots, reqVars, spent, excuses>>

\* poll returns the next committed claim of an assigned partition.
PollClaim(r, p) ==
  LET c == log[p][position[r][p] + 1] IN
  /\ own[r] = "poll"
  /\ ~restart_required[r]
  /\ p \in owned[r]
  /\ position[r][p] < Len(log[p])
  /\ empty_polls' = [empty_polls EXCEPT ![r] = 0]
  /\ position' = [position EXCEPT ![r][p] = @ + 1]
  /\ apply(r, key[c], c)
  /\ UNCHANGED warm
  /\ UNCHANGED <<kafkaVars, coord, owned, restart_required, replay_targets,
                 taskVars, slots, reqVars, spent, excuses>>

\* What is left when the ownership loop returns: nothing is owned, the map is
\* empty, the member leaves the group.  Calls that hold a slot carry on.
ExitLoop(r) ==
  /\ Fresh(r, "exited")
  /\ coord' = [p \in Partitions |-> IF coord[p] = r THEN None ELSE coord[p]]
  /\ UNCHANGED <<restart_required, empty_polls, replay_targets, position, reqVars, excuses>>

\* The pass after a poll sees restart_required.
ExitForRestart(r) ==
  /\ own[r] = "poll" /\ restart_required[r]
  /\ ExitLoop(r)
  /\ UNCHANGED <<kafkaVars, slots, spent>>

\* prepare_partitions fails or is dropped half way through a partition: the
\* slot is empty, and the coordinator may have bumped the epoch.
PrepareCutShort(r) ==
  /\ own[r] = "preparing"
  /\ \E p \in todo[r] :
       /\ SlotFree(r, p)
       /\ SetSlot(r, p, "none")
       /\ UNCHANGED kafkaVars \/ init_transactions(r, p)

\* The shutdown token fires; the poll future is dropped, callback and all.
Shutdown(r) ==
  /\ own[r] \in {"poll", "releasing", "preparing"}
  /\ Spend("stop")
  /\ UNCHANGED <<kafkaVars, slots>> \/ PrepareCutShort(r)
  /\ ExitLoop(r)

\* The poll itself fails.
PollFails(r) ==
  /\ own[r] = "poll"
  /\ Spend("failure")
  /\ ExitLoop(r)
  /\ UNCHANGED <<kafkaVars, slots>>

\* Preparing a producer fails, or reading the log ends does; and with it the poll.
AssignFails(r) ==
  /\ own[r] = "preparing"
  /\ Spend("failure")
  /\ PrepareCutShort(r) \/ (todo[r] = {} /\ UNCHANGED <<kafkaVars, slots>>)
  /\ ExitLoop(r)

\* The process is gone, and with it its calls and its producers.
GoDown(r) ==
  /\ Fresh(r, "down")
  /\ restart_required' = [restart_required EXCEPT ![r] = FALSE]
  /\ empty_polls' = [empty_polls EXCEPT ![r] = 0]
  /\ replay_targets' = [replay_targets EXCEPT ![r] = [p \in Partitions |-> -1]]
  /\ position' = [position EXCEPT ![r] = [p \in Partitions |-> 0]]
  /\ slots' = [slots EXCEPT ![r] = [p \in Partitions |-> "none"]]
  /\ pc' = [i \in Requests |->
              IF at[i] = r /\ pc[i] \in {"lock"} \cup Holding
              THEN "cancelled" ELSE pc[i]]
  /\ UNCHANGED <<kafkaVars, coord, at, key, answer, excuses>>

\* The supervisor saw the loop return; the drain deadline ends the process.
ProcessEnds(r) ==
  /\ own[r] = "exited"
  /\ GoDown(r)
  /\ UNCHANGED spent

Crash(r) ==
  /\ own[r] # "down"
  /\ Spend("crash")
  /\ GoDown(r)

\* A new process takes the place of the old one once the group has forgotten it.
StartProcess(r) ==
  /\ own[r] = "down"
  /\ \A p \in Partitions : coord[p] # r
  /\ own' = [own EXCEPT ![r] = "poll"]
  /\ UNCHANGED <<kafkaVars, coord, storeVars, gained, todo, slots, reqVars,
                 spent, excuses>>

\* The session of a dead member, or (a fault) of a live one, times out
\* (external): its partitions are free, and a live member does not know yet.
SessionTimeout(r) ==
  /\ \E p \in Partitions : coord[p] = r
  /\ IF own[r] = "down" THEN UNCHANGED spent ELSE Spend("evict")
  /\ coord' = [p \in Partitions |-> IF coord[p] = r THEN None ELSE coord[p]]
  /\ UNCHANGED <<kafkaVars, storeVars, taskVars, slots, reqVars, excuses>>

-----------------------------------------------------------------------------

Call(i) ==
  \/ dedup_produce(i) \/ LockSlot(i) \/ Recheck(i)
  \/ LazyInit(i) \/ LazyInitFails(i)
  \/ BeginTransaction(i) \/ RecoveryRequired(i)
  \/ SendData(i) \/ SendClaim(i) \/ SendFails(i)
  \/ SendCommit(i) \/ CommitSucceeds(i) \/ CommitFails(i) \/ CommitUncertain(i)
  \/ AbortConfirmed(i) \/ AbortFails(i)

Ownership(r) ==
  \/ \E S \in SUBSET Partitions : on_partitions_revoked(r, S)
  \/ \E p \in Partitions : release_partitions(r, p)
  \/ RevokeDone(r)
  \/ \E S \in SUBSET Partitions : on_partitions_assigned(r, S)
  \/ \E p \in Partitions : prepare_partitions(r, p)
  \/ CaptureEnds(r)
  \/ PollEmpty(r)
  \/ \E p \in Partitions : PollClaim(r, p)
  \/ ExitForRestart(r) \/ Shutdown(r) \/ PollFails(r) \/ AssignFails(r)

Process(r) ==
  ProcessEnds(r) \/ Crash(r) \/ StartProcess(r) \/ SessionTimeout(r)

Next ==
  \/ \E i \in Requests : Call(i) \/ Cancel(i)
  \/ \E r \in Replicas : Ownership(r) \/ Process(r)
  \/ \E p \in Partitions : BrokerCommit(p)

Spec == Init /\ [][Next]_vars

-----------------------------------------------------------------------------
(* Safety.                                                                 *)

\* The promise of the engine, an idempotency key is written at most once
\* (dedup/mod.rs:1, "Single-owner exactly-once dedup engine"), as far as the
\* code keeps it whatever fails, is cancelled, evicted or crashes: a key is
\* written twice only after txn_write re-initialized an empty slot of
\* a partition whose transactional id another replica had taken over, or after
\* a rebalance callback took the map down between a call's gate and its lookup.
AtMostOnceUnlessExcused == Excused \/ \A i, j \in data : key[i] = key[j] => i = j

\* A call that succeeds, first or deduplicated, returns the coordinates of a
\* committed record of its own key, also across rebalances and takeovers.
AnswersAreDurable ==
  \A i \in Requests : pc[i] \in {"ok", "dup"} =>
    answer[i] \in data /\ key[answer[i]] = key[i]

\* The owner that answers requests knows every committed claim of the
\* partitions it serves, unless a dropped guard or a call that still holds the
\* slot accounts for the difference, or it has been fenced.
WarmMapComplete ==
  \A r \in Replicas, p \in Partitions :
    /\ is_warm(r) /\ owns(r, p) /\ ~Excused
    /\ current[p] = r /\ slots[r][p] # "recovery" /\ SlotFree(r, p)
    => \A n \in 1..Len(log[p]) : map[r][key[log[p][n]]] # None

-----------------------------------------------------------------------------
(* Liveness.                                                               *)

\* The steps a running process, the group and the brokers keep taking: a call
\* is polled to its end, the ownership task goes round its loop and through
\* its callbacks, free partitions are assigned, dead members time out and are
\* replaced.  Nothing makes a fault happen.
Fairness ==
  /\ \A i \in Requests :
       WF_vars(LockSlot(i) \/ Recheck(i) \/ LazyInit(i) \/ BeginTransaction(i) \/ RecoveryRequired(i)
               \/ SendData(i) \/ SendClaim(i) \/ SendCommit(i) \/ CommitSucceeds(i)
               \/ AbortConfirmed(i)
               \/ (current[PartOf(i)] # at[i]
                    /\ (SendFails(i) \/ CommitFails(i) \/ AbortFails(i))))
  /\ \A p \in Partitions : WF_vars(BrokerCommit(p))
  /\ \A r \in Replicas :
       /\ WF_vars(Lost(r) # {} /\ on_partitions_revoked(r, Lost(r)))
       /\ WF_vars((\E p \in Partitions : release_partitions(r, p)) \/ RevokeDone(r))
       /\ WF_vars((\E p \in Partitions : prepare_partitions(r, p)) \/ CaptureEnds(r))
       /\ WF_vars(PollEmpty(r))
       /\ \A p \in Partitions : WF_vars(PollClaim(r, p))
       /\ WF_vars(ExitForRestart(r))
       /\ WF_vars(ProcessEnds(r))
       /\ WF_vars(StartProcess(r))
       /\ WF_vars(own[r] = "down" /\ SessionTimeout(r))
  /\ WF_vars(\E r \in Replicas, S \in SUBSET Partitions :
               S # {} /\ on_partitions_assigned(r, S))

FairSpec == Spec /\ Fairness

\* No call waits for ever: neither on the slot lock nor on a rebalance that
\* itself waits for the slot (release_partitions, prepare_partitions).
CallsFinish ==
  \A i \in Requests : pc[i] # "idle" ~> pc[i] \in Finished

\* Once faults stop, every dedup partition gets, and keeps, an owner that has
\* caught up and answers: the warm gate does not stay shut.
EventuallyServed ==
  <>[](\A p \in Partitions : \E r \in Replicas :
         coord[p] = r /\ owns(r, p) /\ is_warm(r))

=============================================================================
