----------------------------- MODULE Membership -----------------------------
(***************************************************************************)
(* Which replica serves a dedup partition, and how the others know.  Every *)
(* change of its assignment makes a replica publish what it owns to the    *)
(* membership topic (dedup/membership.rs, MembershipPublisher); every      *)
(* replica tails that topic into a routing table (MembershipStore).  The   *)
(* ownership consumer (dedup/store.rs) appears here with the callbacks     *)
(* that publish; what it does to claims is DedupEngine's.                  *)
(***************************************************************************)
EXTENDS Naturals, Sequences, FiniteSets

CONSTANTS
  Replicas,    \* processes, by advertised address
  Partitions,  \* dedup partitions
  Readers,     \* replicas whose routing table is followed: the tables do not
               \* influence each other
  None,        \* no replica
  MaxFaults,   \* bound: how often each kind of fault may happen
  MaxKinds     \* bound: how many kinds of faults one behaviour may combine

\* publish: the send to the membership topic fails.  reread: the reader's
\* group rebalances.  The others are as in DedupEngine.
Faults == {"rebalance", "evict", "crash", "publish", "reread"}

ASSUME MembershipAssumption ==
  None \notin Replicas /\ Readers \subseteq Replicas /\ MaxFaults \in [Faults -> Nat] /\ MaxKinds \in Nat

VARIABLES
  coord,    \* coord[p]: the group member p is assigned to (external)
  own,      \* own[r]: where the ownership task of r is
  gained,   \* gained[r]: partitions of the assignment being prepared
  owned,    \* owned[r]: the partitions r believes it owns
  process,  \* process[r]: which process runs at address r
  topic,    \* the membership topic, by offset
  nodes,    \* nodes[r]: node_id to its latest record, as r has read it
  routing,  \* routing[r][p]: the address r forwards p to
  pos,      \* pos[r]: how far r has read
  spent,    \* spent[f]: faults of kind f so far
  unpublished  \* partitions for whose owner the topic does not speak

groupVars == <<coord, own, gained, owned, process>>
readerVars == <<nodes, routing, pos>>
vars == <<groupVars, topic, readerVars, spent, unpublished>>

\* A node_id is a UUID drawn at start: a restarted process is a new node at
\* the same address, and the record of the old one stays in the topic.
NodeIds == Replicas \X (1..(MaxFaults["crash"] + 1))
node_id(r) == <<r, process[r]>>
advertised_addr(n) == n[1]

NodeInfo == [node: NodeIds, owned: SUBSET Partitions]
NodeEntry == [owned: SUBSET Partitions, offset: Nat]

\* "revoking" and "publishing": in update_assignment, called from
\* on_partitions_revoked or on_partitions_assigned.
OwnStates == {"poll", "revoking", "preparing", "publishing", "down"}

\* Every variable holds a value of its type.
TypeOK ==
  /\ coord \in [Partitions -> Replicas \cup {None}]
  /\ own \in [Replicas -> OwnStates]
  /\ gained \in [Replicas -> SUBSET Partitions]
  /\ owned \in [Replicas -> SUBSET Partitions]
  /\ process \in [Replicas -> 1..(MaxFaults["crash"] + 1)]
  /\ topic \in Seq(NodeInfo)
  /\ DOMAIN nodes = Readers
  /\ \A r \in Readers : DOMAIN nodes[r] \subseteq NodeIds
                        /\ nodes[r] \in [DOMAIN nodes[r] -> NodeEntry]
  /\ routing \in [Readers -> [Partitions -> Replicas \cup {None}]]
  /\ pos \in [Readers -> 0..Len(topic)]
  /\ spent \in [Faults -> Nat]
  /\ unpublished \in SUBSET Partitions

NoRoute == [p \in Partitions |-> None]

\* MembershipStore::new: nothing read, nothing routed.
Init ==
  /\ coord = NoRoute
  /\ own = [r \in Replicas |-> "poll"]
  /\ gained = [r \in Replicas |-> {}]
  /\ owned = [r \in Replicas |-> {}]
  /\ process = [r \in Replicas |-> 1]
  /\ topic = <<>>
  /\ nodes = [r \in Readers |-> <<>>]
  /\ routing = [r \in Readers |-> NoRoute]
  /\ pos = [r \in Readers |-> 0]
  /\ spent = [f \in Faults |-> 0]
  /\ unpublished = {}

Spend(f) ==
  /\ spent[f] < MaxFaults[f]
  /\ Cardinality({g \in Faults : spent[g] > 0} \cup {f}) <= MaxKinds
  /\ spent' = [spent EXCEPT ![f] = @ + 1]

Up(r) == own[r] # "down"

-----------------------------------------------------------------------------
(* The routing table.                                                      *)

\* Fault injection: the first claimant found keeps the partition.
rebuild_FirstWins(ns) ==
  LET claimants(p) == {n \in DOMAIN ns : p \in ns[n].owned} IN
  [p \in Partitions |->
     IF claimants(p) = {} THEN None
     ELSE advertised_addr(CHOOSE n \in claimants(p) :
            \A m \in claimants(p) : ns[n].offset <= ns[m].offset)]

\* rebuild: of the nodes that claim p, the one with the highest offset.
rebuild(ns) ==
  LET claimants(p) == {n \in DOMAIN ns : p \in ns[n].owned} IN
  [p \in Partitions |->
     IF claimants(p) = {} THEN None
     ELSE advertised_addr(CHOOSE n \in claimants(p) :
            \A m \in claimants(p) : ns[n].offset >= ns[m].offset)]

owner_of(r, p) == routing[r][p]

\* apply, for the next record of the topic: poll hands records over in order,
\* and each one replaces what its node said before, newer or not.
apply(r) ==
  LET rec == topic[pos[r] + 1]
      ns == [n \in DOMAIN nodes[r] \cup {rec.node} |->
               IF n = rec.node THEN [owned |-> rec.owned, offset |-> pos[r] + 1]
                               ELSE nodes[r][n]]
  IN
  /\ r \in Readers
  /\ Up(r)
  /\ pos[r] < Len(topic)
  /\ nodes' = [nodes EXCEPT ![r] = ns]
  /\ routing' = [routing EXCEPT ![r] = rebuild(ns)]
  /\ pos' = [pos EXCEPT ![r] = @ + 1]
  /\ UNCHANGED <<groupVars, topic, spent, unpublished>>

\* MembershipReplay::on_partitions_assigned seeks to the beginning and keeps
\* the table, so the replay passes through what the nodes used to say.
Reread(r) ==
  /\ r \in Readers
  /\ Up(r)
  /\ pos[r] > 0
  /\ Spend("reread")
  /\ pos' = [pos EXCEPT ![r] = 0]
  /\ UNCHANGED <<groupVars, topic, nodes, routing, unpublished>>

-----------------------------------------------------------------------------
(* The ownership consumer's callbacks and what they publish.               *)

\* Partitions r believes it owns although the coordinator took them away.
Lost(r) == {p \in owned[r] : coord[p] # r}

\* on_partitions_revoked up to the publish in update_assignment.
on_partitions_revoked(r, S) ==
  /\ own[r] = "poll"
  /\ S # {}
  /\ \/ S = Lost(r) /\ UNCHANGED spent
     \/ S \subseteq owned[r] /\ Lost(r) = {} /\ Spend("rebalance")
  /\ owned' = [owned EXCEPT ![r] = @ \ S]
  /\ own' = [own EXCEPT ![r] = "revoking"]
  /\ UNCHANGED <<coord, gained, process, topic, readerVars, unpublished>>

\* on_partitions_assigned: the group gives the free partitions S to r, which
\* starts to prepare them.
on_partitions_assigned(r, S) ==
  /\ own[r] = "poll"
  /\ Lost(r) = {}
  /\ S # {}
  /\ S \subseteq {p \in Partitions : coord[p] = None}
  /\ coord' = [p \in Partitions |-> IF p \in S THEN r ELSE coord[p]]
  /\ own' = [own EXCEPT ![r] = "preparing"]
  /\ gained' = [gained EXCEPT ![r] = S]
  /\ UNCHANGED <<owned, process, topic, readerVars, spent, unpublished>>

\* on_partitions_assigned once prepared: update_assignment adopts the
\* assignment, up to its publish.
Adopt(r) ==
  /\ own[r] = "preparing"
  /\ owned' = [owned EXCEPT ![r] = @ \cup gained[r]]
  /\ gained' = [gained EXCEPT ![r] = {}]
  /\ own' = [own EXCEPT ![r] = "publishing"]
  /\ UNCHANGED <<coord, process, topic, readerVars, spent, unpublished>>

\* The callback returns; partitions given up can be assigned again.
CallbackReturns(r) ==
  /\ own' = [own EXCEPT ![r] = "poll"]
  /\ coord' = [p \in Partitions |->
                 IF own[r] = "revoking" /\ coord[p] = r /\ p \notin owned[r]
                 THEN None ELSE coord[p]]

\* The record at offset i is its node's latest.
Latest(i) == \A j \in 1..Len(topic) : topic[j].node = topic[i].node => j <= i

\* What the latest record of the process at r claims.
Claimed(r) ==
  {p \in Partitions : \E i \in 1..Len(topic) :
     topic[i].node = node_id(r) /\ Latest(i) /\ p \in topic[i].owned}

\* Fault injection: only what an assignment adds is published.
publish_GainsOnly(r) ==
  /\ own[r] \in {"revoking", "publishing"}
  /\ topic' = IF own[r] = "revoking" THEN topic
              ELSE Append(topic, [node |-> node_id(r), owned |-> owned[r]])
  /\ unpublished' = unpublished \ {p \in owned[r] : coord[p] = r}
  /\ CallbackReturns(r)
  /\ UNCHANGED <<gained, owned, process, readerVars, spent>>

\* publish: one record with everything the process owns.
publish(r) ==
  /\ own[r] \in {"revoking", "publishing"}
  /\ topic' = Append(topic, [node |-> node_id(r), owned |-> owned[r]])
  /\ unpublished' = unpublished \ {p \in owned[r] : coord[p] = r}
  /\ CallbackReturns(r)
  /\ UNCHANGED <<gained, owned, process, readerVars, spent>>

\* A failed publish is logged, and nothing publishes again before the next
\* assignment: neither what r owns nor what it gave up is announced.
PublishFails(r) ==
  /\ own[r] \in {"revoking", "publishing"}
  /\ Spend("publish")
  /\ unpublished' = unpublished \cup owned[r] \cup Claimed(r)
  /\ CallbackReturns(r)
  /\ UNCHANGED <<gained, owned, process, topic, readerVars>>

\* The process ends, by a crash or because a supervisor cancelled it: nothing
\* withdraws its record.  If the record outranks that of a replica that has
\* the partition by now, the topic has stopped speaking for that replica.
Crash(r) ==
  /\ Up(r)
  /\ Spend("crash")
  /\ own' = [own EXCEPT ![r] = "down"]
  /\ gained' = [gained EXCEPT ![r] = {}]
  /\ owned' = [owned EXCEPT ![r] = {}]
  /\ nodes' = [nodes EXCEPT ![r] = <<>>]
  /\ routing' = [routing EXCEPT ![r] = NoRoute]
  /\ pos' = [pos EXCEPT ![r] = 0]
  /\ unpublished' = unpublished \cup {p \in Claimed(r) : coord[p] \notin {r, None}}
  /\ UNCHANGED <<coord, process, topic>>

Restart(r) ==
  /\ own[r] = "down"
  /\ \A p \in Partitions : coord[p] # r
  /\ own' = [own EXCEPT ![r] = "poll"]
  /\ process' = [process EXCEPT ![r] = @ + 1]
  /\ UNCHANGED <<coord, gained, owned, topic, readerVars, spent, unpublished>>

\* The session of a dead member, or (a fault) of a live one, times out.
SessionTimeout(r) ==
  /\ \E p \in Partitions : coord[p] = r
  /\ IF own[r] = "down" THEN UNCHANGED spent ELSE Spend("evict")
  /\ coord' = [p \in Partitions |-> IF coord[p] = r THEN None ELSE coord[p]]
  /\ UNCHANGED <<own, gained, owned, process, topic, readerVars, unpublished>>

Replica(r) ==
  \/ apply(r) \/ Reread(r)
  \/ \E S \in SUBSET Partitions : on_partitions_revoked(r, S) \/ on_partitions_assigned(r, S)
  \/ Adopt(r) \/ publish(r) \/ PublishFails(r)
  \/ Crash(r) \/ Restart(r) \/ SessionTimeout(r)

Next == \E r \in Replicas : Replica(r)

Spec == Init /\ [][Next]_vars

-----------------------------------------------------------------------------

\* No replica is in a callback or has one to run.
Settled == \A r \in Replicas : Up(r) => own[r] = "poll" /\ Lost(r) = {}

\* A routing table that has read the whole topic names, for each partition,
\* the live replica that owns it, whatever records crashed processes, earlier
\* owners and members that were evicted have left behind.  The two ways out
\* are a publish that failed (store.rs only logs it) and a process that ended
\* with a record that still claims what the group had given to another.
RoutesFollowOwnership ==
  Settled =>
    \A r \in Readers, s \in Replicas : \A p \in owned[s] \ unpublished :
      Up(r) /\ pos[r] = Len(topic) => owner_of(r, p) = s

\* Processes are numbered by the crashes so far; a dead one owns nothing.
ProcessShape ==
  /\ spent["crash"] <= MaxFaults["crash"]
  /\ \A r \in Replicas :
       /\ process[r] <= spent["crash"] + 1
       /\ own[r] = "down" => process[r] <= spent["crash"] /\ owned[r] = {}

\* The routing table is what the nodes make it.
Rebuilt == \A r \in Readers : routing[r] = rebuild(nodes[r])

\* The entries of a table come from the topic; what has been read since the
\* last seek is up to date.
TableRead ==
  /\ \A i \in 1..Len(topic) : \E j \in 1..Len(topic) :
       topic[j].node = topic[i].node /\ Latest(j)
  /\ \A r \in Readers :
       /\ \A n \in DOMAIN nodes[r] :
            /\ nodes[r][n].offset <= Len(topic)
            /\ \E i \in 1..Len(topic) : topic[i].node = n
       /\ \A i \in 1..pos[r] :
            (\A j \in 1..pos[r] : topic[j].node = topic[i].node => j <= i)
            => /\ topic[i].node \in DOMAIN nodes[r]
               /\ nodes[r][topic[i].node] = [owned |-> topic[i].owned, offset |-> i]

\* The topic speaks for an owner: its latest record claims the partition, and a
\* later claim is that of a live member that has lost the partition, and is
\* about to find out or to say so.
Announced ==
  \A s \in Replicas, p \in Partitions :
    /\ own[s] \in {"poll", "preparing"} /\ p \in owned[s]
    /\ coord[p] = s /\ p \notin unpublished
    => \E i \in 1..Len(topic) :
         /\ topic[i].node = node_id(s) /\ Latest(i) /\ p \in topic[i].owned
         /\ \A j \in 1..Len(topic) : j > i /\ Latest(j) /\ p \in topic[j].owned =>
              \E e \in Replicas \ {s} :
                /\ topic[j].node = node_id(e) /\ Up(e)
                /\ p \in owned[e] \/ own[e] = "revoking"

\* The same, over what makes it hold: tables that follow the topic, and a topic
\* that speaks for the owners (membership.rs, dedup/store.rs).
RoutingInv ==
  /\ TypeOK /\ ProcessShape
  /\ Rebuilt /\ TableRead /\ Announced
  /\ RoutesFollowOwnership

\* The steps a live process, the group and the broker keep taking; nothing
\* makes a fault happen.
Fairness ==
  /\ \A r \in Readers : WF_vars(apply(r))
  /\ \A r \in Replicas :
       WF_vars(\/ Lost(r) # {} /\ on_partitions_revoked(r, Lost(r))
               \/ Adopt(r) \/ publish(r)
               \/ own[r] = "down" /\ SessionTimeout(r)
               \/ Restart(r))
  /\ WF_vars(\E r \in Replicas, S \in SUBSET Partitions : on_partitions_assigned(r, S))

FairSpec == Spec /\ Fairness

\* Once faults stop, every partition has an owner and every routing table
\* names it for good, unless the topic does not speak for that owner: a
\* keyed record that is retried elsewhere does reach the owner in the end.
EventuallyRouted ==
  <>[](\A r \in Readers, p \in Partitions :
         coord[p] # None /\ (p \in unpublished \/ owner_of(r, p) = coord[p]))

=============================================================================
