------------------------- MODULE Membership_proofs -------------------------
(***************************************************************************)
(* Proofs about Membership, for every number of replicas, partitions,      *)
(* readers and faults: RoutingInv is inductive, and so a routing table     *)
(* that has read the topic names the live owners.                          *)
(***************************************************************************)
EXTENDS Membership, WellFoundedInduction, TLAPS

\* The least-number principle, from the well-foundedness of < on Nat.
LEMMA LeastNat ==
  ASSUME NEW T \in SUBSET Nat, T # {}
  PROVE  \E x \in T : \A y \in T : x <= y
  <1>1. PICK R : /\ IsWellFoundedOn(R, Nat)
                 /\ \A x, y \in Nat : y < x => <<y, x>> \in R
    <2>1. \A x, y \in Nat : y < x => <<y, x>> \in OpToRel(<, Nat)
      BY DEF OpToRel
    <2> QED
      BY <2>1, NatLessThanWellFounded, Zenon
  <1>2. PICK x \in T : \A y \in T : ~(<<y, x>> \in R)
    BY <1>1, WFMin, Zenon
  <1>3. \A y \in T : y \in Nat /\ x \in Nat
    OBVIOUS
  <1>4. \A y \in T : ~(y < x)
    BY <1>1, <1>2, <1>3, Zenon
  <1> QED
    BY <1>3, <1>4

\* A bounded set of numbers has a greatest element.
LEMMA GreatestNat ==
  ASSUME NEW N \in Nat, NEW T \in SUBSET (0..N), T # {}
  PROVE  \E x \in T : \A y \in T : y <= x
  <1> DEFINE U == {k \in Nat : N - k \in T}
  <1>1. PICK t \in T : TRUE
    OBVIOUS
  <1>2. t \in 0..N /\ N - t \in U
    BY <1>1
  <1>3. PICK u \in U : \A v \in U : u <= v
    BY <1>2, LeastNat
  <1>4. ASSUME NEW y \in T PROVE y <= N - u
    <2>1. y \in 0..N
      BY <1>4
    <2>2. N - y \in U
      BY <1>4, <2>1
    <2> QED
      BY <1>3, <2>1, <2>2
  <1> QED
    BY <1>3, <1>4

-----------------------------------------------------------------------------

\* Spending a fault counts it, within its bound, and no other.
LEMMA SpendSound ==
  ASSUME TypeOK, NEW f \in Faults, Spend(f)
  PROVE  /\ spent' \in [Faults -> Nat]
         /\ spent'[f] = spent[f] + 1 /\ spent'[f] <= MaxFaults[f]
         /\ \A g \in Faults : g # f => spent'[g] = spent[g]
  <1>1. spent[f] < MaxFaults[f] /\ spent' = [spent EXCEPT ![f] = spent[f] + 1]
    BY DEF Spend
  <1>2. spent \in [Faults -> Nat] /\ MaxFaults[f] \in Nat
    BY MembershipAssumption DEF TypeOK
  <1> QED
    BY <1>1, <1>2

\* A record is added at the end of the topic: it is its node's latest, and takes
\* the place of the record that was.
LEMMA Appended ==
  ASSUME TypeOK, NEW x \in NodeInfo, topic' = Append(topic, x)
  PROVE  /\ topic' \in Seq(NodeInfo) /\ Len(topic) \in Nat
         /\ Len(topic') = Len(topic) + 1
         /\ \A i \in 1..Len(topic) : topic'[i] = topic[i]
         /\ topic'[Len(topic) + 1] = x
         /\ \A i \in 1..Len(topic) : Latest(i)' <=> Latest(i) /\ topic[i].node # x.node
         /\ \A i \in Nat : i = Len(topic) + 1 => Latest(i)'
  <1>1. /\ topic' \in Seq(NodeInfo) /\ Len(topic) \in Nat
        /\ Len(topic') = Len(topic) + 1
        /\ \A i \in 1..Len(topic) : topic'[i] = topic[i]
        /\ topic'[Len(topic) + 1] = x
    BY DEF TypeOK
  <1>2. \A i \in 1..Len(topic) : Latest(i)' <=> Latest(i) /\ topic[i].node # x.node
    BY <1>1 DEF Latest
  <1>3. \A i \in Nat : i = Len(topic) + 1 => Latest(i)'
    BY <1>1 DEF Latest
  <1> QED
    BY <1>1, <1>2, <1>3

\* The nodes of a table that claim p.
Claimants(ns, p) == {n \in DOMAIN ns : p \in ns[n].owned}

\* rebuild picks, of the nodes that claim p, one with the highest offset.
LEMMA RebuildPicks ==
  ASSUME NEW ns, NEW N \in Nat, NEW p \in Partitions,
         \A n \in DOMAIN ns : ns[n].offset \in 0..N
  PROVE  /\ Claimants(ns, p) = {} => rebuild(ns)[p] = None
         /\ Claimants(ns, p) # {} =>
              \E n \in Claimants(ns, p) :
                /\ rebuild(ns)[p] = advertised_addr(n)
                /\ \A m \in Claimants(ns, p) : ns[n].offset >= ns[m].offset
  <1>1. CASE Claimants(ns, p) = {}
    BY <1>1 DEF rebuild, Claimants
  <1>2. CASE Claimants(ns, p) # {}
    <2> DEFINE T == {ns[n].offset : n \in Claimants(ns, p)}
               Best(n) == \A m \in Claimants(ns, p) : ns[n].offset >= ns[m].offset
    <2>1. T \in SUBSET (0..N) /\ T # {}
      BY <1>2 DEF Claimants
    <2>2. PICK x \in T : \A y \in T : y <= x
      BY <2>1, GreatestNat
    <2>3. \E n \in Claimants(ns, p) : Best(n)
      BY <2>1, <2>2
    <2>4. rebuild(ns)[p] = advertised_addr(CHOOSE n \in Claimants(ns, p) : Best(n))
      BY <1>2 DEF rebuild, Claimants
    <2> QED
      BY <1>2, <2>3, <2>4
  <1> QED
    BY <1>1, <1>2

\* rebuild names replicas, or none.
LEMMA RebuildTyped ==
  ASSUME NEW ns, NEW N \in Nat, DOMAIN ns \subseteq NodeIds,
         \A n \in DOMAIN ns : ns[n].offset \in 0..N
  PROVE  rebuild(ns) \in [Partitions -> Replicas \cup {None}]
  <1>1. ASSUME NEW p \in Partitions PROVE rebuild(ns)[p] \in Replicas \cup {None}
    <2>1. \A n \in Claimants(ns, p) : advertised_addr(n) \in Replicas
      BY DEF Claimants, NodeIds, advertised_addr
    <2> QED
      BY <2>1, RebuildPicks
  <1>2. rebuild(ns) = [p \in Partitions |-> rebuild(ns)[p]]
    BY DEF rebuild
  <1> QED
    BY <1>1, <1>2

\* What the table of r becomes when the next record is applied.
Applied(r) ==
  [n \in DOMAIN nodes[r] \cup {topic[pos[r] + 1].node} |->
     IF n = topic[pos[r] + 1].node
     THEN [owned |-> topic[pos[r] + 1].owned, offset |-> pos[r] + 1]
     ELSE nodes[r][n]]

\* Applying a record makes a table.
LEMMA AppliedTyped ==
  ASSUME TypeOK, TableRead, NEW r \in Readers, pos[r] < Len(topic)
  PROVE  /\ pos[r] \in Nat /\ pos[r] + 1 \in 1..Len(topic) /\ Len(topic) \in Nat
         /\ DOMAIN Applied(r) = DOMAIN nodes[r] \cup {topic[pos[r] + 1].node}
         /\ DOMAIN Applied(r) \subseteq NodeIds
         /\ Applied(r) \in [DOMAIN Applied(r) -> NodeEntry]
         /\ \A n \in DOMAIN Applied(r) : Applied(r)[n].offset \in 0..Len(topic)
  <1>1. pos[r] \in Nat /\ pos[r] + 1 \in 1..Len(topic) /\ Len(topic) \in Nat
    BY DEF TypeOK
  <1>2. topic[pos[r] + 1] \in NodeInfo
    BY <1>1 DEF TypeOK
  <1>3. /\ topic[pos[r] + 1].node \in NodeIds /\ topic[pos[r] + 1].owned \in SUBSET Partitions
        /\ [owned |-> topic[pos[r] + 1].owned, offset |-> pos[r] + 1] \in NodeEntry
    BY <1>1, <1>2 DEF NodeInfo, NodeEntry
  <1>4. /\ DOMAIN Applied(r) = DOMAIN nodes[r] \cup {topic[pos[r] + 1].node}
        /\ DOMAIN Applied(r) \subseteq NodeIds
    BY <1>3 DEF Applied, TypeOK
  <1>5. ASSUME NEW n \in DOMAIN Applied(r)
        PROVE  Applied(r)[n] \in NodeEntry /\ Applied(r)[n].offset \in 0..Len(topic)
    <2>1. CASE n = topic[pos[r] + 1].node
      BY <1>1, <1>3, <1>4, <2>1 DEF Applied
    <2>2. CASE n # topic[pos[r] + 1].node
      <3>1. n \in DOMAIN nodes[r] /\ Applied(r)[n] = nodes[r][n]
        BY <1>4, <2>2 DEF Applied
      <3>2. nodes[r][n] \in NodeEntry /\ nodes[r][n].offset <= Len(topic)
        BY <3>1 DEF TypeOK, TableRead
      <3> QED
        BY <1>1, <3>1, <3>2 DEF NodeEntry
    <2> QED
      BY <2>1, <2>2
  <1>6. Applied(r) \in [DOMAIN Applied(r) -> NodeEntry]
    BY <1>5 DEF Applied
  <1> QED
    BY <1>1, <1>4, <1>5, <1>6

\* What each action does to the tables: apply updates one, a crash empties one.
LEMMA applyEffect ==
  ASSUME TypeOK, TableRead, NEW r \in Replicas, apply(r)
  PROVE  /\ r \in Readers /\ pos[r] < Len(topic)
         /\ nodes' = [nodes EXCEPT ![r] = Applied(r)]
         /\ routing' = [routing EXCEPT ![r] = rebuild(Applied(r))]
         /\ pos' = [pos EXCEPT ![r] = pos[r] + 1]
         /\ UNCHANGED <<groupVars, topic, spent, unpublished>>
  BY DEF apply, Applied

\* A callback's return keeps the types.
LEMMA CallbackTyped ==
  ASSUME TypeOK, NEW r \in Replicas, CallbackReturns(r)
  PROVE  coord' \in [Partitions -> Replicas \cup {None}] /\ own' \in [Replicas -> OwnStates]
  BY DEF CallbackReturns, TypeOK, OwnStates

\* Every step keeps the types; that a restart finds a number for its process
\* needs the count of crashes, that rebuild has a result the bound on offsets.
LEMMA TypeStep ==
  ASSUME TypeOK, ProcessShape, TableRead, [Next]_vars
  PROVE  TypeOK'
  <1> USE DEF groupVars, readerVars
  <1>0. {"rebalance", "evict", "crash", "publish", "reread"} \subseteq Faults /\ MaxFaults["crash"] \in Nat
    BY MembershipAssumption DEF Faults
  <1>1. ASSUME NEW r \in Replicas, apply(r) PROVE TypeOK'
    <2>1. /\ r \in Readers /\ pos[r] < Len(topic)
          /\ nodes' = [nodes EXCEPT ![r] = Applied(r)]
          /\ routing' = [routing EXCEPT ![r] = rebuild(Applied(r))]
          /\ pos' = [pos EXCEPT ![r] = pos[r] + 1]
          /\ UNCHANGED <<groupVars, topic, spent, unpublished>>
      BY <1>1, applyEffect
    <2>2. /\ pos[r] + 1 \in 1..Len(topic) /\ Len(topic) \in Nat
          /\ DOMAIN Applied(r) \subseteq NodeIds
          /\ Applied(r) \in [DOMAIN Applied(r) -> NodeEntry]
          /\ \A n \in DOMAIN Applied(r) : Applied(r)[n].offset \in 0..Len(topic)
      BY <2>1, AppliedTyped
    <2>3. rebuild(Applied(r)) \in [Partitions -> Replicas \cup {None}]
      BY <2>2, RebuildTyped
    <2>4. \A s \in Readers : nodes'[s] = IF s = r THEN Applied(r) ELSE nodes[s]
      BY <2>1 DEF TypeOK
    <2>5. pos' \in [Readers -> 0..Len(topic)]
      BY <2>1, <2>2 DEF TypeOK
    <2>6. DOMAIN nodes' = Readers
      BY <2>1 DEF TypeOK
    <2>7. routing' \in [Readers -> [Partitions -> Replicas \cup {None}]]
      BY <2>1, <2>3 DEF TypeOK
    <2> QED
      BY <2>1, <2>2, <2>4, <2>5, <2>6, <2>7 DEF TypeOK
  <1>2. ASSUME NEW r \in Replicas, Reread(r) PROVE TypeOK'
    <2>1. spent' \in [Faults -> Nat]
      BY <1>0, <1>2, SpendSound DEF Reread
    <2>2. pos \in [Readers -> 0..Len(topic)] /\ Len(topic) \in Nat
      BY DEF TypeOK
    <2>3. pos' \in [Readers -> 0..Len(topic)]
      BY <1>2, <2>2 DEF Reread
    <2> QED
      BY <1>2, <2>1, <2>3 DEF Reread, TypeOK
  <1>3. ASSUME NEW r \in Replicas, NEW S \in SUBSET Partitions, on_partitions_revoked(r, S)
        PROVE  TypeOK'
    <2>1. spent' \in [Faults -> Nat]
      BY <1>0, <1>3, SpendSound DEF on_partitions_revoked, TypeOK
    <2> QED
      BY <1>3, <2>1 DEF on_partitions_revoked, TypeOK, OwnStates
  <1>4. ASSUME NEW r \in Replicas, NEW S \in SUBSET Partitions, on_partitions_assigned(r, S)
        PROVE  TypeOK'
    BY <1>4 DEF on_partitions_assigned, TypeOK, OwnStates
  <1>5. ASSUME NEW r \in Replicas, Adopt(r) PROVE TypeOK'
    BY <1>5 DEF Adopt, TypeOK, OwnStates
  <1>6. ASSUME NEW r \in Replicas, publish(r) PROVE TypeOK'
    <2>1. [node |-> node_id(r), owned |-> owned[r]] \in NodeInfo
      BY DEF TypeOK, node_id, NodeInfo, NodeIds
    <2>2. topic' \in Seq(NodeInfo) /\ Len(topic') = Len(topic) + 1 /\ Len(topic) \in Nat
      BY <1>6, <2>1, Appended DEF publish
    <2>3. pos' \in [Readers -> 0..Len(topic')]
      BY <1>6, <2>2 DEF publish, TypeOK
    <2> QED
      BY <1>6, <2>2, <2>3, CallbackTyped DEF publish, TypeOK
  <1>7. ASSUME NEW r \in Replicas, PublishFails(r) PROVE TypeOK'
    <2>1. spent' \in [Faults -> Nat] /\ Claimed(r) \in SUBSET Partitions
      BY <1>0, <1>7, SpendSound DEF PublishFails, Claimed
    <2> QED
      BY <1>7, <2>1, CallbackTyped DEF PublishFails, TypeOK
  <1>8. ASSUME NEW r \in Replicas, Crash(r) PROVE TypeOK'
    <2>1. spent' \in [Faults -> Nat] /\ Claimed(r) \in SUBSET Partitions
      BY <1>0, <1>8, SpendSound DEF Crash, Claimed
    <2>2. DOMAIN <<>> = {} /\ <<>> \in [{} -> NodeEntry]
      OBVIOUS
    <2>3. DOMAIN nodes' = Readers /\ \A s \in Readers : nodes'[s] = IF s = r THEN <<>> ELSE nodes[s]
      BY <1>8 DEF Crash, TypeOK
    <2>4. routing' \in [Readers -> [Partitions -> Replicas \cup {None}]]
      BY <1>8 DEF Crash, TypeOK, NoRoute
    <2>a. Len(topic) \in Nat /\ 0 \in 0..Len(topic)
      BY DEF TypeOK
    <2>5. pos' \in [Readers -> 0..Len(topic)] /\ UNCHANGED <<coord, process, topic>>
      BY <1>8, <2>a DEF Crash, TypeOK
    <2>6. own' \in [Replicas -> OwnStates] /\ gained' \in [Replicas -> SUBSET Partitions]
          /\ owned' \in [Replicas -> SUBSET Partitions] /\ unpublished' \in SUBSET Partitions
      BY <1>8, <2>1 DEF Crash, TypeOK, OwnStates
    <2> QED
      BY <2>1, <2>2, <2>3, <2>4, <2>5, <2>6 DEF TypeOK
  <1>9. ASSUME NEW r \in Replicas, Restart(r) PROVE TypeOK'
    <2>1. process[r] + 1 \in 1..(MaxFaults["crash"] + 1)
      BY <1>0, <1>9 DEF Restart, TypeOK, ProcessShape
    <2> QED
      BY <1>9, <2>1 DEF Restart, TypeOK, OwnStates
  <1>10. ASSUME NEW r \in Replicas, SessionTimeout(r) PROVE TypeOK'
    <2>1. spent' \in [Faults -> Nat]
      BY <1>0, <1>10, SpendSound DEF SessionTimeout, TypeOK
    <2> QED
      BY <1>10, <2>1 DEF SessionTimeout, TypeOK
  <1>11. ASSUME UNCHANGED vars PROVE TypeOK'
    BY <1>11 DEF vars, TypeOK
  <1> QED
    BY <1>1, <1>2, <1>3, <1>4, <1>5, <1>6, <1>7, <1>8, <1>9, <1>10, <1>11 DEF Next, Replica

\* A process is counted by the crash before it, and dies owning nothing.
LEMMA ProcessStep ==
  ASSUME TypeOK, ProcessShape, [Next]_vars
  PROVE  ProcessShape'
  <1> USE DEF groupVars, readerVars
  <1>0. {"rebalance", "evict", "crash", "publish", "reread"} \subseteq Faults
    BY DEF Faults
  <1>1. ASSUME NEW r \in Replicas, apply(r) PROVE ProcessShape'
    BY <1>1 DEF apply, ProcessShape
  <1>2. ASSUME NEW r \in Replicas, Reread(r) PROVE ProcessShape'
    BY <1>0, <1>2, SpendSound DEF Reread, ProcessShape
  <1>3. ASSUME NEW r \in Replicas, NEW S \in SUBSET Partitions, on_partitions_revoked(r, S)
        PROVE  ProcessShape'
    <2>1. spent'["crash"] = spent["crash"]
      BY <1>0, <1>3, SpendSound DEF on_partitions_revoked
    <2> QED
      BY <1>3, <2>1 DEF on_partitions_revoked, ProcessShape, TypeOK
  <1>4. ASSUME NEW r \in Replicas, NEW S \in SUBSET Partitions, on_partitions_assigned(r, S)
        PROVE  ProcessShape'
    BY <1>4 DEF on_partitions_assigned, ProcessShape, TypeOK
  <1>5. ASSUME NEW r \in Replicas, Adopt(r) PROVE ProcessShape'
    BY <1>5 DEF Adopt, ProcessShape, TypeOK
  <1>6. ASSUME NEW r \in Replicas, publish(r) PROVE ProcessShape'
    BY <1>6 DEF publish, CallbackReturns, ProcessShape, TypeOK
  <1>7. ASSUME NEW r \in Replicas, PublishFails(r) PROVE ProcessShape'
    <2>1. spent'["crash"] = spent["crash"]
      BY <1>0, <1>7, SpendSound DEF PublishFails
    <2> QED
      BY <1>7, <2>1 DEF PublishFails, CallbackReturns, ProcessShape, TypeOK
  <1>8. ASSUME NEW r \in Replicas, Crash(r) PROVE ProcessShape'
    <2>1. spent'["crash"] = spent["crash"] + 1 /\ spent'["crash"] <= MaxFaults["crash"]
      BY <1>0, <1>8, SpendSound DEF Crash
    <2>2. \A s \in Replicas : process[s] \in Nat /\ spent["crash"] \in Nat
      BY <1>0 DEF TypeOK
    <2> QED
      BY <1>8, <2>1, <2>2 DEF Crash, ProcessShape, Up, TypeOK
  <1>9. ASSUME NEW r \in Replicas, Restart(r) PROVE ProcessShape'
    <2>1. \A s \in Replicas : process[s] \in Nat /\ spent["crash"] \in Nat
      BY <1>0 DEF TypeOK
    <2> QED
      BY <1>9, <2>1 DEF Restart, ProcessShape, TypeOK
  <1>10. ASSUME NEW r \in Replicas, SessionTimeout(r) PROVE ProcessShape'
    <2>1. spent'["crash"] = spent["crash"]
      BY <1>0, <1>10, SpendSound DEF SessionTimeout
    <2> QED
      BY <1>10, <2>1 DEF SessionTimeout, ProcessShape
  <1>11. ASSUME UNCHANGED vars PROVE ProcessShape'
    BY <1>11 DEF vars, ProcessShape
  <1> QED
    BY <1>1, <1>2, <1>3, <1>4, <1>5, <1>6, <1>7, <1>8, <1>9, <1>10, <1>11 DEF Next, Replica

\* The tables: only apply, Reread, publish and Crash touch a table or the topic.
LEMMA TableStep ==
  ASSUME TypeOK, TableRead, TypeOK', [Next]_vars
  PROVE  TableRead'
  <1> USE DEF groupVars, readerVars
  <1>1. ASSUME NEW r \in Replicas, apply(r) PROVE TableRead'
    <2> DEFINE c == pos[r] + 1
    <2>1. /\ r \in Readers /\ pos[r] < Len(topic)
          /\ nodes' = [nodes EXCEPT ![r] = Applied(r)]
          /\ pos' = [pos EXCEPT ![r] = pos[r] + 1]
          /\ UNCHANGED topic
      BY <1>1, applyEffect
    <2>2. /\ pos[r] \in Nat /\ c \in 1..Len(topic) /\ Len(topic) \in Nat
          /\ DOMAIN Applied(r) = DOMAIN nodes[r] \cup {topic[c].node}
          /\ \A n \in DOMAIN Applied(r) : Applied(r)[n].offset \in 0..Len(topic)
      BY <2>1, AppliedTyped
    <2>3. \A s \in Readers : /\ nodes'[s] = IF s = r THEN Applied(r) ELSE nodes[s]
                             /\ pos'[s] = IF s = r THEN pos[r] + 1 ELSE pos[s]
      BY <2>1 DEF TypeOK
    <2>4. ASSUME NEW i \in 1..c, \A j \in 1..c : topic[j].node = topic[i].node => j <= i
          PROVE  /\ topic[i].node \in DOMAIN Applied(r)
                 /\ Applied(r)[topic[i].node] = [owned |-> topic[i].owned, offset |-> i]
      <3>1. CASE i = c
        BY <2>2, <3>1 DEF Applied
      <3>2. CASE i # c
        <4>1. i \in 1..pos[r] /\ topic[c].node # topic[i].node
          BY <2>2, <2>4, <3>2
        <4>2. \A j \in 1..pos[r] : topic[j].node = topic[i].node => j <= i
          BY <2>2, <2>4
        <4>3. /\ topic[i].node \in DOMAIN nodes[r]
              /\ nodes[r][topic[i].node] = [owned |-> topic[i].owned, offset |-> i]
          BY <2>1, <4>1, <4>2 DEF TableRead
        <4> QED
          BY <2>2, <4>1, <4>3 DEF Applied
      <3> QED
        BY <3>1, <3>2
    <2>5. \A n \in DOMAIN Applied(r) : \E i \in 1..Len(topic) : topic[i].node = n
      BY <2>1, <2>2 DEF TableRead
    <2>6. \A n \in DOMAIN Applied(r) : Applied(r)[n].offset <= Len(topic)
      BY <2>2
    <2> HIDE DEF c
    <2>7. ASSUME NEW s \in Readers
          PROVE  /\ \A n \in DOMAIN nodes'[s] :
                      /\ nodes'[s][n].offset <= Len(topic)
                      /\ \E i \in 1..Len(topic) : topic[i].node = n
                 /\ \A i \in 1..pos'[s] :
                      (\A j \in 1..pos'[s] : topic[j].node = topic[i].node => j <= i)
                      => /\ topic[i].node \in DOMAIN nodes'[s]
                         /\ nodes'[s][topic[i].node] = [owned |-> topic[i].owned, offset |-> i]
      <3>1. CASE s = r
        BY <2>3, <2>4, <2>5, <2>6, <3>1 DEF c
      <3>2. CASE s # r
        BY <2>3, <3>2 DEF TableRead
      <3> QED
        BY <3>1, <3>2
    <2> QED
      BY <2>1, <2>7 DEF TableRead, Latest
  <1>2. ASSUME NEW r \in Replicas, Reread(r) PROVE TableRead'
    <2>1. \A s \in Readers : pos'[s] = IF s = r THEN 0 ELSE pos[s]
      BY <1>2 DEF Reread, TypeOK
    <2>2. UNCHANGED <<topic, nodes>>
      BY <1>2 DEF Reread
    <2> QED
      BY <2>1, <2>2 DEF TableRead, Latest
  <1>3. ASSUME NEW r \in Replicas, publish(r) PROVE TableRead'
    <2>0. [node |-> node_id(r), owned |-> owned[r]] \in NodeInfo
      BY DEF TypeOK, node_id, NodeInfo, NodeIds
    <2>1. PICK x \in NodeInfo : topic' = Append(topic, x) /\ UNCHANGED <<nodes, pos>>
      BY <1>3, <2>0 DEF publish
    <2>2. /\ Len(topic) \in Nat /\ Len(topic') = Len(topic) + 1
          /\ \A i \in 1..Len(topic) : topic'[i] = topic[i]
          /\ topic'[Len(topic) + 1] = x
          /\ \A i \in 1..Len(topic) : Latest(i)' <=> Latest(i) /\ topic[i].node # x.node
          /\ \A i \in Nat : i = Len(topic) + 1 => Latest(i)'
      BY <2>1, Appended
    <2>3. ASSUME NEW i \in 1..Len(topic') PROVE \E j \in 1..Len(topic') :
            topic'[j].node = topic'[i].node /\ Latest(j)'
      <3>1. CASE topic'[i].node = x.node
        <4>1. PICK j \in Nat : j = Len(topic) + 1
          BY <2>2
        <4>2. j \in 1..Len(topic') /\ topic'[j] = x /\ Latest(j)'
          BY <2>2, <4>1
        <4> QED
          BY <3>1, <4>2
      <3>2. CASE topic'[i].node # x.node
        <4>1. i \in 1..Len(topic)
          BY <2>2, <3>2
        <4>2. PICK j \in 1..Len(topic) : topic[j].node = topic[i].node /\ Latest(j)
          BY <4>1 DEF TableRead
        <4> QED
          BY <2>2, <3>2, <4>1, <4>2
      <3> QED
        BY <3>1, <3>2
    <2>4. ASSUME NEW s \in Readers
          PROVE  /\ \A n \in DOMAIN nodes[s] :
                      /\ nodes[s][n].offset <= Len(topic')
                      /\ \E i \in 1..Len(topic') : topic'[i].node = n
                 /\ \A i \in 1..pos[s] :
                      (\A j \in 1..pos[s] : topic'[j].node = topic'[i].node => j <= i)
                      => /\ topic'[i].node \in DOMAIN nodes[s]
                         /\ nodes[s][topic'[i].node] = [owned |-> topic'[i].owned, offset |-> i]
      <3>1. pos[s] \in 0..Len(topic)
        BY DEF TypeOK
      <3>a. nodes[s] \in [DOMAIN nodes[s] -> NodeEntry]
        BY DEF TypeOK
      <3>2. \A n \in DOMAIN nodes[s] : nodes[s][n].offset \in Nat
        BY <3>a DEF NodeEntry
      <3>b. \A n \in DOMAIN nodes[s] :
              nodes[s][n].offset <= Len(topic) /\ \E i \in 1..Len(topic) : topic[i].node = n
        BY DEF TableRead
      <3>c. 1..Len(topic) \subseteq 1..Len(topic')
        BY <2>2
      <3>3. \A n \in DOMAIN nodes[s] :
              /\ nodes[s][n].offset <= Len(topic')
              /\ \E i \in 1..Len(topic') : topic'[i].node = n
        BY <2>2, <3>2, <3>b, <3>c
      <3>4. \A i \in 1..pos[s] : topic'[i] = topic[i]
        BY <2>2, <3>1
      <3>5. ASSUME NEW i \in 1..pos[s],
                   \A j \in 1..pos[s] : topic'[j].node = topic'[i].node => j <= i
            PROVE  /\ topic'[i].node \in DOMAIN nodes[s]
                   /\ nodes[s][topic'[i].node] = [owned |-> topic'[i].owned, offset |-> i]
        <4>1. topic'[i] = topic[i] /\ \A j \in 1..pos[s] : topic[j].node = topic[i].node => j <= i
          BY <3>4, <3>5
        <4>2. (\A j \in 1..pos[s] : topic[j].node = topic[i].node => j <= i)
              => /\ topic[i].node \in DOMAIN nodes[s]
                 /\ nodes[s][topic[i].node] = [owned |-> topic[i].owned, offset |-> i]
          BY DEF TableRead
        <4> QED
          BY <4>1, <4>2
      <3> QED
        BY <3>3, <3>5
    <2> QED
      BY <2>1, <2>3, <2>4 DEF TableRead
  <1>4. ASSUME NEW r \in Replicas, Crash(r) PROVE TableRead'
    <2>1. \A s \in Readers : /\ nodes'[s] = IF s = r THEN <<>> ELSE nodes[s]
                             /\ pos'[s] = IF s = r THEN 0 ELSE pos[s]
      BY <1>4 DEF Crash, TypeOK
    <2>2. DOMAIN <<>> = {} /\ UNCHANGED topic
      BY <1>4 DEF Crash
    <2>4. ASSUME NEW s \in Readers
          PROVE  /\ \A n \in DOMAIN nodes'[s] :
                      /\ nodes'[s][n].offset <= Len(topic)
                      /\ \E i \in 1..Len(topic) : topic[i].node = n
                 /\ \A i \in 1..pos'[s] :
                      (\A j \in 1..pos'[s] : topic[j].node = topic[i].node => j <= i)
                      => /\ topic[i].node \in DOMAIN nodes'[s]
                         /\ nodes'[s][topic[i].node] = [owned |-> topic[i].owned, offset |-> i]
      <3>1. CASE s = r
        BY <2>1, <2>2, <3>1
      <3>2. CASE s # r
        BY <2>1, <3>2 DEF TableRead
      <3> QED
        BY <3>1, <3>2
    <2> QED
      BY <2>2, <2>4 DEF TableRead, Latest
  <1>5. ASSUME UNCHANGED <<topic, nodes, pos>> PROVE TableRead'
    BY <1>5 DEF TableRead, Latest
  <1> QED
    BY <1>1, <1>2, <1>3, <1>4, <1>5 DEF Next, Replica, vars, on_partitions_revoked,
       on_partitions_assigned, Adopt, PublishFails, Restart, SessionTimeout

\* Whatever changes a table rebuilds the routes from it.
LEMMA RebuiltStep ==
  ASSUME TypeOK, TableRead, Rebuilt, [Next]_vars
  PROVE  Rebuilt'
  <1> USE DEF groupVars, readerVars
  <1>1. ASSUME NEW r \in Replicas, apply(r) PROVE Rebuilt'
    <2>1. /\ nodes' = [nodes EXCEPT ![r] = Applied(r)]
          /\ routing' = [routing EXCEPT ![r] = rebuild(Applied(r))]
      BY <1>1, applyEffect
    <2>2. \A s \in Readers : /\ nodes'[s] = IF s = r THEN Applied(r) ELSE nodes[s]
                             /\ routing'[s] = IF s = r THEN rebuild(Applied(r)) ELSE routing[s]
      BY <2>1 DEF TypeOK
    <2>3. \A s \in Readers : routing'[s] = rebuild(nodes'[s])
      BY <2>2 DEF Rebuilt
    <2> QED
      BY <2>3 DEF Rebuilt, rebuild
  <1>2. ASSUME NEW r \in Replicas, Crash(r) PROVE Rebuilt'
    <2>1. \A s \in Readers : /\ nodes'[s] = IF s = r THEN <<>> ELSE nodes[s]
                             /\ routing'[s] = IF s = r THEN NoRoute ELSE routing[s]
      BY <1>2 DEF Crash, TypeOK
    <2>2. DOMAIN <<>> = {}
      OBVIOUS
    <2>3. rebuild(<<>>) = NoRoute
      BY <2>2 DEF rebuild, NoRoute
    <2>4. \A s \in Readers : routing'[s] = rebuild(nodes'[s])
      BY <2>1, <2>3 DEF Rebuilt
    <2> QED
      BY <2>4 DEF Rebuilt, rebuild
  <1>3. ASSUME UNCHANGED <<nodes, routing>> PROVE Rebuilt'
    BY <1>3 DEF Rebuilt, rebuild
  <1> QED
    BY <1>1, <1>2, <1>3 DEF Next, Replica, vars, Reread, on_partitions_revoked,
       on_partitions_assigned, Adopt, publish, PublishFails, Restart, SessionTimeout
-----------------------------------------------------------------------------
(* Announced, taken apart.                                                 *)

\* s serves p, and nothing went wrong with saying so.
Serves(s, p) ==
  /\ own[s] \in {"poll", "preparing"} /\ p \in owned[s]
  /\ coord[p] = s /\ p \notin unpublished

\* e lost p, and is about to find out or to say so.
Outdated(e, p) == Up(e) /\ (p \in owned[e] \/ own[e] = "revoking")

\* The record at offset i speaks for s.
SpeaksAt(i, s, p) ==
  /\ topic[i].node = node_id(s) /\ Latest(i) /\ p \in topic[i].owned
  /\ \A j \in 1..Len(topic) : j > i /\ Latest(j) /\ p \in topic[j].owned =>
       \E e \in Replicas \ {s} : topic[j].node = node_id(e) /\ Outdated(e, p)

Speaks(s, p) == \E i \in 1..Len(topic) : SpeaksAt(i, s, p)

\* Announced, in those terms, now.
LEMMA AnnouncedParts ==
  Announced <=> \A s \in Replicas, p \in Partitions : Serves(s, p) => Speaks(s, p)
  BY DEF Announced, Serves, Speaks, SpeaksAt, Outdated

\* The same of the state after a step.
LEMMA AnnouncedPartsPrime ==
  ASSUME \A s \in Replicas, p \in Partitions : Serves(s, p)' => Speaks(s, p)'
  PROVE  Announced'
  BY DEF Announced, Serves, Speaks, SpeaksAt, Outdated

\* A step that writes nothing to the topic leaves a record speaking for s, if
\* whoever claims the partition later stays as it is.
LEMMA SpeaksKept ==
  ASSUME TypeOK, NEW s \in Replicas, NEW p \in Partitions, Speaks(s, p),
         UNCHANGED topic, process'[s] = process[s],
         \A e \in Replicas \ {s} : p \in Claimed(e) /\ Outdated(e, p) =>
           process'[e] = process[e] /\ Outdated(e, p)'
  PROVE  Speaks(s, p)'
  <1>1. PICK i \in 1..Len(topic) : SpeaksAt(i, s, p)
    BY DEF Speaks
  <1>2. \A j \in 1..Len(topic) : Latest(j)' <=> Latest(j)
    BY DEF Latest
  <1>3. ASSUME NEW j \in 1..Len(topic), j > i, Latest(j), p \in topic[j].owned
        PROVE  \E e \in Replicas \ {s} : topic[j].node = node_id(e)' /\ Outdated(e, p)'
    <2>1. PICK e \in Replicas \ {s} : topic[j].node = node_id(e) /\ Outdated(e, p)
      BY <1>1, <1>3 DEF SpeaksAt
    <2>2. p \in Claimed(e)
      BY <1>3, <2>1 DEF Claimed
    <2> QED
      BY <2>1, <2>2 DEF node_id
  <1>4. topic[i].node = node_id(s)' /\ Latest(i)' /\ p \in topic[i].owned
    BY <1>1, <1>2 DEF SpeaksAt, node_id
  <1>5. SpeaksAt(i, s, p)'
    BY <1>2, <1>3, <1>4 DEF SpeaksAt
  <1> QED
    BY <1>5 DEF Speaks

\* The publish of another replica leaves the record of s speaking for it: the
\* new record claims only what its node believes it owns.
LEMMA SpeaksPublished ==
  ASSUME TypeOK, NEW r \in Replicas, publish(r),
         NEW s \in Replicas \ {r}, NEW p \in Partitions, Speaks(s, p)
  PROVE  Speaks(s, p)'
  <1>0. [node |-> node_id(r), owned |-> owned[r]] \in NodeInfo
    BY DEF TypeOK, node_id, NodeInfo, NodeIds
  <1>1. PICK x \in NodeInfo : topic' = Append(topic, x) /\ x.node = node_id(r) /\ x.owned = owned[r]
    BY <1>0 DEF publish
  <1>2. /\ Len(topic) \in Nat /\ Len(topic') = Len(topic) + 1
        /\ \A i \in 1..Len(topic) : topic'[i] = topic[i]
        /\ topic'[Len(topic) + 1] = x
        /\ \A i \in 1..Len(topic) : Latest(i)' <=> Latest(i) /\ topic[i].node # x.node
    BY <1>1, Appended
  <1>3. PICK i \in 1..Len(topic) : SpeaksAt(i, s, p)
    BY DEF Speaks
  <1>4. /\ UNCHANGED <<owned, process>>
        /\ \A e \in Replicas : own'[e] = IF e = r THEN "poll" ELSE own[e]
    BY DEF publish, CallbackReturns, TypeOK
  <1>5. \A e \in Replicas : /\ node_id(e)' = node_id(e)
                            /\ node_id(e) = node_id(r) => e = r
    BY <1>4 DEF node_id
  <1>6. i \in 1..Len(topic') /\ topic'[i].node = node_id(s)' /\ Latest(i)' /\ p \in topic'[i].owned
    BY <1>1, <1>2, <1>3, <1>5 DEF SpeaksAt
  <1>7. ASSUME NEW j \in 1..Len(topic'), j > i, Latest(j)', p \in topic'[j].owned
        PROVE  \E e \in Replicas \ {s} : topic'[j].node = node_id(e)' /\ Outdated(e, p)'
    <2>1. CASE j \in 1..Len(topic)
      <3>1. Latest(j) /\ topic[j].node # x.node /\ topic'[j] = topic[j] /\ p \in topic[j].owned
        BY <1>2, <1>7, <2>1
      <3>2. PICK e \in Replicas \ {s} : topic[j].node = node_id(e) /\ Outdated(e, p)
        BY <1>3, <1>7, <2>1, <3>1 DEF SpeaksAt
      <3>3. e # r
        BY <1>1, <3>1, <3>2
      <3>4. Outdated(e, p)'
        BY <1>4, <3>2, <3>3 DEF Outdated, Up
      <3> QED
        BY <1>5, <3>1, <3>2, <3>4
    <2>2. CASE j = Len(topic) + 1
      <3>1. topic'[j].node = node_id(r)' /\ p \in owned[r]
        BY <1>1, <1>2, <1>5, <1>7, <2>2
      <3>2. Outdated(r, p)'
        BY <1>4, <3>1 DEF Outdated, Up
      <3> QED
        BY <3>1, <3>2
    <2> QED
      BY <1>2, <2>1, <2>2
  <1>8. SpeaksAt(i, s, p)'
    BY <1>6, <1>7 DEF SpeaksAt
  <1> QED
    BY <1>6, <1>8 DEF Speaks

\* The record just published speaks for its own replica: nothing is later.
LEMMA SpeaksSelf ==
  ASSUME TypeOK, NEW r \in Replicas, publish(r), NEW p \in owned[r]
  PROVE  Speaks(r, p)'
  <1>0. [node |-> node_id(r), owned |-> owned[r]] \in NodeInfo
    BY DEF TypeOK, node_id, NodeInfo, NodeIds
  <1>1. PICK x \in NodeInfo : topic' = Append(topic, x) /\ x.node = node_id(r) /\ x.owned = owned[r]
    BY <1>0 DEF publish
  <1>2. /\ Len(topic) \in Nat /\ Len(topic') = Len(topic) + 1
        /\ topic'[Len(topic) + 1] = x
        /\ \A i \in Nat : i = Len(topic) + 1 => Latest(i)'
    BY <1>1, Appended
  <1>3. PICK i \in Nat : i = Len(topic) + 1
    BY <1>2
  <1>4. /\ i \in 1..Len(topic') /\ topic'[i].node = node_id(r)' /\ Latest(i)' /\ p \in topic'[i].owned
        /\ \A j \in 1..Len(topic') : ~(j > i)
    BY <1>1, <1>2, <1>3 DEF publish, node_id
  <1>5. SpeaksAt(i, r, p)'
    BY <1>4 DEF SpeaksAt
  <1> QED
    BY <1>4, <1>5 DEF Speaks

\* No step makes the topic stop speaking for a replica that serves.
LEMMA AnnouncedStep ==
  ASSUME TypeOK, ProcessShape, Announced, [Next]_vars
  PROVE  Announced'
  <1> USE DEF groupVars, readerVars
  <1>0. None \notin Replicas
    BY MembershipAssumption
  <1>3. SUFFICES ASSUME NEW s \in Replicas, NEW p \in Partitions, Serves(s, p)'
                 PROVE  Speaks(s, p)'
    BY AnnouncedPartsPrime
  <1>4. Serves(s, p) => Speaks(s, p)
    BY AnnouncedParts
  <1>1. ASSUME UNCHANGED <<groupVars, topic, unpublished>> PROVE Speaks(s, p)'
    <2>1. Serves(s, p)
      BY <1>1, <1>3 DEF Serves
    <2>2. \A e \in Replicas \ {s} : Outdated(e, p) => Outdated(e, p)'
      BY <1>1 DEF Outdated, Up
    <2> QED
      BY <1>1, <1>4, <2>1, <2>2, SpeaksKept
  <1>2. SUFFICES ASSUME NEW r \in Replicas, Replica(r), ~(apply(r) \/ Reread(r))
                 PROVE  Speaks(s, p)'
    BY <1>1 DEF Next, Replica, vars, apply, Reread
  <1>5. ASSUME NEW S \in SUBSET Partitions, on_partitions_revoked(r, S) PROVE Speaks(s, p)'
    <2>1. /\ UNCHANGED <<coord, process, topic, unpublished>>
          /\ \A e \in Replicas : /\ own'[e] = IF e = r THEN "revoking" ELSE own[e]
                                 /\ e # r => owned'[e] = owned[e]
      BY <1>5 DEF on_partitions_revoked, TypeOK
    <2>2. Serves(s, p)
      BY <1>3, <2>1 DEF Serves
    <2>3. \A e \in Replicas \ {s} : Outdated(e, p) => Outdated(e, p)'
      BY <2>1 DEF Outdated, Up
    <2> QED
      BY <1>4, <2>1, <2>2, <2>3, SpeaksKept
  <1>6. ASSUME NEW S \in SUBSET Partitions, on_partitions_assigned(r, S) PROVE Speaks(s, p)'
    <2>1. /\ UNCHANGED <<owned, process, topic, unpublished>>
          /\ own[r] = "poll" /\ Lost(r) = {}
          /\ \A e \in Replicas : own'[e] = IF e = r THEN "preparing" ELSE own[e]
          /\ coord'[p] = IF p \in S THEN r ELSE coord[p]
      BY <1>6 DEF on_partitions_assigned, TypeOK
    <2>2. coord[p] = s
      BY <1>3, <2>1 DEF Serves, Lost
    <2>3. Serves(s, p)
      BY <1>3, <2>1, <2>2 DEF Serves
    <2>4. \A e \in Replicas \ {s} : Outdated(e, p) => Outdated(e, p)'
      BY <2>1 DEF Outdated, Up
    <2> QED
      BY <1>4, <2>1, <2>3, <2>4, SpeaksKept
  <1>7. ASSUME Adopt(r) PROVE Speaks(s, p)'
    <2>1. /\ UNCHANGED <<coord, process, topic, unpublished>> /\ own[r] = "preparing"
          /\ \A e \in Replicas : /\ own'[e] = IF e = r THEN "publishing" ELSE own[e]
                                 /\ owned[e] \subseteq owned'[e]
                                 /\ e # r => owned'[e] = owned[e]
      BY <1>7 DEF Adopt, TypeOK
    <2>2. Serves(s, p)
      BY <1>3, <2>1 DEF Serves
    <2>3. \A e \in Replicas \ {s} : Outdated(e, p) => Outdated(e, p)'
      BY <2>1 DEF Outdated, Up
    <2> QED
      BY <1>4, <2>1, <2>2, <2>3, SpeaksKept
  <1>8. ASSUME publish(r) PROVE Speaks(s, p)'
    <2>1. /\ UNCHANGED <<owned, process>>
          /\ unpublished' = unpublished \ {q \in owned[r] : coord[q] = r}
          /\ \A e \in Replicas : own'[e] = IF e = r THEN "poll" ELSE own[e]
          /\ coord'[p] \in {coord[p], None}
      BY <1>8 DEF publish, CallbackReturns, TypeOK
    <2>2. coord[p] = s
      BY <1>0, <1>3, <2>1 DEF Serves
    <2>3. CASE s = r
      BY <1>3, <1>8, <2>1, <2>3, SpeaksSelf DEF Serves
    <2>4. CASE s # r
      <3>1. Serves(s, p)
        BY <1>3, <2>1, <2>2, <2>4 DEF Serves
      <3> QED
        BY <1>4, <1>8, <2>4, <3>1, SpeaksPublished
    <2> QED
      BY <2>3, <2>4
  <1>9. ASSUME PublishFails(r) PROVE Speaks(s, p)'
    <2>1. /\ UNCHANGED <<owned, process, topic>>
          /\ unpublished' = unpublished \cup owned[r] \cup Claimed(r)
          /\ \A e \in Replicas : own'[e] = IF e = r THEN "poll" ELSE own[e]
          /\ coord'[p] \in {coord[p], None}
      BY <1>9 DEF PublishFails, CallbackReturns, TypeOK
    <2>2. p \notin owned[r] /\ p \notin Claimed(r) /\ p \notin unpublished
      BY <1>3, <2>1 DEF Serves
    <2>3. s # r /\ Serves(s, p)
      BY <1>0, <1>3, <2>1, <2>2 DEF Serves
    <2>4. \A e \in Replicas \ {s} : p \in Claimed(e) /\ Outdated(e, p) => Outdated(e, p)'
      BY <2>1, <2>2 DEF Outdated, Up
    <2> QED
      BY <1>4, <2>1, <2>3, <2>4, SpeaksKept
  <1>10. ASSUME Crash(r) PROVE Speaks(s, p)'
    <2>1. /\ UNCHANGED <<coord, process, topic>>
          /\ unpublished' = unpublished \cup {q \in Claimed(r) : coord[q] \notin {r, None}}
          /\ \A e \in Replicas : /\ own'[e] = IF e = r THEN "down" ELSE own[e]
                                 /\ e # r => owned'[e] = owned[e]
      BY <1>10 DEF Crash, TypeOK
    <2>2. s # r /\ Serves(s, p)
      BY <1>3, <2>1 DEF Serves
    <2>3. p \notin Claimed(r)
      BY <1>0, <1>3, <2>1, <2>2 DEF Serves
    <2>4. \A e \in Replicas \ {s} : p \in Claimed(e) /\ Outdated(e, p) => Outdated(e, p)'
      BY <2>1, <2>3 DEF Outdated, Up
    <2> QED
      BY <1>4, <2>1, <2>2, <2>4, SpeaksKept
  <1>11. ASSUME Restart(r) PROVE Speaks(s, p)'
    <2>1. /\ UNCHANGED <<coord, owned, topic, unpublished>> /\ own[r] = "down" /\ owned[r] = {}
          /\ \A e \in Replicas : e # r => own'[e] = own[e] /\ process'[e] = process[e]
      BY <1>11 DEF Restart, TypeOK, ProcessShape
    <2>2. s # r /\ Serves(s, p)
      BY <1>3, <2>1 DEF Serves
    <2>3. \A e \in Replicas \ {s} : Outdated(e, p) =>
            process'[e] = process[e] /\ Outdated(e, p)'
      BY <2>1 DEF Outdated, Up
    <2> QED
      BY <1>4, <2>1, <2>2, <2>3, SpeaksKept
  <1>12. ASSUME SessionTimeout(r) PROVE Speaks(s, p)'
    <2>1. UNCHANGED <<own, owned, process, topic, unpublished>> /\ coord'[p] \in {coord[p], None}
      BY <1>12 DEF SessionTimeout
    <2>2. Serves(s, p)
      BY <1>0, <1>3, <2>1 DEF Serves
    <2>3. \A e \in Replicas \ {s} : Outdated(e, p) => Outdated(e, p)'
      BY <2>1 DEF Outdated, Up
    <2> QED
      BY <1>4, <2>1, <2>2, <2>3, SpeaksKept
  <1> QED
    BY <1>2, <1>5, <1>6, <1>7, <1>8, <1>9, <1>10, <1>11, <1>12 DEF Replica

-----------------------------------------------------------------------------

\* When nothing is under way, the record that speaks for the owner is the last
\* that claims the partition: a later claimant would be a second owner.  A
\* table that has read everything holds that record, and rebuild picks it.
LEMMA RoutesFollow ==
  ASSUME TypeOK, ProcessShape, Rebuilt, TableRead, Announced
  PROVE  RoutesFollowOwnership
  <1> SUFFICES ASSUME Settled, NEW r \in Readers, NEW s \in Replicas,
                      NEW p \in owned[s] \ unpublished, Up(r), pos[r] = Len(topic)
               PROVE  routing[r][p] = s
    BY DEF RoutesFollowOwnership, owner_of
  <1>1. p \in Partitions /\ own[s] = "poll" /\ coord[p] = s
    BY DEF TypeOK, ProcessShape, Settled, Up, Lost
  <1>2. PICK i \in 1..Len(topic) : SpeaksAt(i, s, p)
    BY <1>1, AnnouncedParts DEF Serves, Speaks
  <1>3. \A j \in 1..Len(topic) : j > i /\ Latest(j) => p \notin topic[j].owned
    <2> SUFFICES ASSUME NEW j \in 1..Len(topic), j > i, Latest(j), p \in topic[j].owned
                 PROVE  FALSE
      OBVIOUS
    <2>1. PICK e \in Replicas \ {s} : Outdated(e, p)
      BY <1>2 DEF SpeaksAt
    <2>2. p \in owned[e] /\ coord[p] = e
      BY <2>1 DEF Outdated, Settled, Lost
    <2> QED
      BY <1>1, <2>1, <2>2
  <1>4. ASSUME NEW j \in 1..Len(topic), Latest(j)
        PROVE  /\ topic[j].node \in DOMAIN nodes[r]
               /\ nodes[r][topic[j].node] = [owned |-> topic[j].owned, offset |-> j]
    BY <1>4 DEF TableRead, Latest
  <1>5. node_id(s) \in Claimants(nodes[r], p) /\ nodes[r][node_id(s)].offset = i
    <2>1. topic[i].node = node_id(s) /\ Latest(i) /\ p \in topic[i].owned
      BY <1>2 DEF SpeaksAt
    <2>2. node_id(s) \in DOMAIN nodes[r]
          /\ nodes[r][node_id(s)] = [owned |-> topic[i].owned, offset |-> i]
      BY <1>4, <2>1
    <2> QED
      BY <2>1, <2>2 DEF Claimants
  <1>6. Len(topic) \in Nat /\ \A n \in DOMAIN nodes[r] : nodes[r][n].offset \in 0..Len(topic)
    <2>1. nodes[r] \in [DOMAIN nodes[r] -> NodeEntry] /\ Len(topic) \in Nat
      BY DEF TypeOK
    <2>2. \A n \in DOMAIN nodes[r] : nodes[r][n].offset \in Nat
      BY <2>1 DEF NodeEntry
    <2>3. \A n \in DOMAIN nodes[r] : nodes[r][n].offset <= Len(topic)
      BY DEF TableRead
    <2> QED
      BY <2>1, <2>2, <2>3
  <1>7. PICK n \in Claimants(nodes[r], p) :
          /\ rebuild(nodes[r])[p] = advertised_addr(n)
          /\ nodes[r][n].offset >= i
    BY <1>1, <1>5, <1>6, RebuildPicks
  <1>8. PICK j \in 1..Len(topic) : topic[j].node = n /\ Latest(j)
    BY <1>7 DEF TableRead, Claimants
  <1>9. nodes[r][n] = [owned |-> topic[j].owned, offset |-> j]
    BY <1>4, <1>8
  <1>10. p \in topic[j].owned /\ j >= i
    BY <1>7, <1>9 DEF Claimants
  <1>11. j = i
    BY <1>3, <1>8, <1>10
  <1>12. n = node_id(s)
    BY <1>2, <1>8, <1>11 DEF SpeaksAt
  <1> QED
    BY <1>7, <1>12 DEF advertised_addr, node_id, Rebuilt

\* At the start nothing is owned, published or read.
LEMMA RoutingInit == Init => RoutingInv
  <1> SUFFICES ASSUME Init PROVE RoutingInv
    OBVIOUS
  <1>0. /\ MaxFaults["crash"] \in Nat /\ "crash" \in Faults
        /\ DOMAIN <<>> = {} /\ <<>> \in [{} -> NodeEntry] /\ Len(<<>>) = 0 /\ <<>> \in Seq(NodeInfo)
    BY MembershipAssumption DEF Faults
  <1>1. TypeOK
    <2>1. \A r \in Readers : DOMAIN nodes[r] \subseteq NodeIds
                             /\ nodes[r] \in [DOMAIN nodes[r] -> NodeEntry]
      BY <1>0 DEF Init
    <2>2. 1 \in 1..(MaxFaults["crash"] + 1)
      BY <1>0
    <2>3. pos \in [Readers -> 0..Len(topic)] /\ topic \in Seq(NodeInfo)
      BY <1>0 DEF Init
    <2> QED
      BY <2>1, <2>2, <2>3 DEF Init, TypeOK, NoRoute, OwnStates
  <1>2. ProcessShape
    BY <1>0 DEF Init, ProcessShape
  <1>3. rebuild(<<>>) = NoRoute
    BY <1>0 DEF rebuild, NoRoute
  <1>4. Rebuilt
    BY <1>3 DEF Init, Rebuilt
  <1>5. TableRead
    BY <1>0 DEF Init, TableRead
  <1>6. Announced
    BY DEF Init, Announced
  <1> QED
    BY <1>1, <1>2, <1>4, <1>5, <1>6, RoutesFollow DEF RoutingInv

\* What RoutingInv rests on is inductive.
RoutingParts == TypeOK /\ ProcessShape /\ Rebuilt /\ TableRead /\ Announced

\* One step of the whole.
LEMMA PartsStep ==
  ASSUME RoutingParts, [Next]_vars
  PROVE  RoutingParts'
  <1>1. TypeOK /\ ProcessShape /\ Rebuilt /\ TableRead /\ Announced
    BY DEF RoutingParts
  <1>2. TypeOK'
    BY <1>1, TypeStep
  <1>3. ProcessShape'
    BY <1>1, ProcessStep
  <1>4. TableRead'
    BY <1>1, <1>2, TableStep
  <1>5. Rebuilt'
    BY <1>1, RebuiltStep
  <1>6. Announced'
    BY <1>1, AnnouncedStep
  <1> QED
    BY <1>2, <1>3, <1>4, <1>5, <1>6 DEF RoutingParts

\* The routing tables, whatever the group, the crashes and the failed publishes
\* do: MembershipStore's table names the live owner of every partition the
\* topic speaks for, once it has read the topic and nothing is under way.
THEOREM Routing == Spec => []RoutingInv
  <1>1. Init => RoutingParts
    BY RoutingInit DEF RoutingInv, RoutingParts
  <1>2. RoutingParts /\ [Next]_vars => RoutingParts'
    BY PartsStep
  <1>3. RoutingParts => RoutingInv
    BY RoutesFollow DEF RoutingInv, RoutingParts
  <1> QED
    BY <1>1, <1>2, <1>3, PTL DEF Spec
=============================================================================
