-------------------------- MODULE DedupInvariant --------------------------
(***************************************************************************)
(* The inductive invariant behind the safety properties of DedupEngine. It *)
(* is what makes the take-over order of dedup/store.rs (fence, capture the *)
(* end, replay, serve) sufficient.                                         *)
(***************************************************************************)
EXTENDS DedupEngine

\* At most one call of a replica holds the slot of a partition.
OneHolder ==
  \A i, j \in Requests :
    /\ at[i] = at[j] /\ PartOf(i) = PartOf(j)
    /\ pc[i] \in Holding /\ pc[j] \in Holding
    => i = j

\* The slot holds the producer its call is using.
SlotFits ==
  \A i \in Requests :
    /\ pc[i] = "init" => slots[at[i]][PartOf(i)] = "none"
    /\ pc[i] = "begin" => slots[at[i]][PartOf(i)] # "none"
    /\ pc[i] \in InTxn => slots[at[i]][PartOf(i)] = "ready"

\* An open transaction belongs to the current producer, and to a call that is
\* writing it or has given up on it.
TxnOwned ==
  \A p \in Partitions : txn[p] # None =>
    /\ PartOf(txn[p].req) = p /\ current[p] = at[txn[p].req] /\ txn[p].req \notin data
    /\ pc[txn[p].req] \in {"claim", "commit", "committing", "abort", "error", "cancelled"}
    /\ txn[p].ending => /\ txn[p].claim
                        /\ pc[txn[p].req] \in {"committing", "error", "cancelled"}

\* A call that has sent its record has the open transaction, unless it has been
\* fenced or its record is committed.
TxnOpen ==
  \A i \in Requests :
    /\ pc[i] \in {"claim", "commit", "committing"}
    /\ current[PartOf(i)] = at[i] /\ i \notin data
    => /\ txn[PartOf(i)] # None /\ txn[PartOf(i)].req = i
       /\ pc[i] # "claim" => txn[PartOf(i)].claim

\* A record is committed only after its call has asked for it.
CommitAsked ==
  \A i \in Requests : i \in data => pc[i] \in {"committing", "ok", "error", "cancelled"}

\* The claim log of p holds the committed calls of p, and nothing else.
LogSound ==
  \A p \in Partitions : \A n \in 1..Len(log[p]) :
    log[p][n] \in data /\ PartOf(log[p][n]) = p
LogComplete ==
  \A i \in Requests : i \in data => \E n \in 1..Len(log[PartOf(i)]) : log[PartOf(i)][n] = i

\* A claim in a map names a committed record of the key it is stored under.
MapTruthful ==
  \A r \in Replicas, k \in Keys :
    map[r][k] # None => map[r][k] \in data /\ key[map[r][k]] = k

\* What the rebalance callbacks leave behind.
CallbackShape ==
  \A r \in Replicas :
    /\ own[r] \in {"exited", "down"} => owned[r] = {}
    /\ own[r] = "releasing" => todo[r] \cap owned[r] = {}
    /\ own[r] # "preparing" => gained[r] = {}
    /\ gained[r] \cap owned[r] = {}
    /\ own[r] = "preparing" => todo[r] \subseteq gained[r]

\* The warm gate: a warm replica has read every owned partition up to the end
\* it captured.
WarmReplayed ==
  \A r \in Replicas :
    /\ \A p, q \in Partitions :
         p \in owned[r] /\ replay_targets[r][q] # -1 => replay_targets[r][p] # -1
    /\ warm[r] => own[r] = "poll"
    /\ \A p \in Partitions : warm[r] /\ p \in owned[r] =>
         replay_targets[r][p] # -1 /\ position[r][p] >= replay_targets[r][p]

\* A gained partition that is prepared, and not adopted yet, is quiet.
PreparedQuiet ==
  \A r \in Replicas, p \in Partitions :
    own[r] = "preparing" /\ p \in gained[r] /\ p \notin todo[r] =>
      SlotFree(r, p) /\ (current[p] = r => txn[p] = None)

\* What replay has read is in the map, for as long as the partition is owned.
ReplayedKnown ==
  \A r \in Replicas, p \in Partitions :
    /\ position[r][p] <= Len(log[p])
    /\ p \in owned[r] => \A n \in 1..Len(log[p]) :
         n <= position[r][p] => map[r][key[log[p][n]]] # None

\* The producer of p is r's, r still trusts it, and no lazy init stole it.
Trusted(r, p) ==
  /\ p \in owned[r] /\ current[p] = r
  /\ ~restart_required[r] /\ slots[r][p] # "recovery"

\* Claims beyond the captured end are r's own: known, or about to be.
LateKnown ==
  \A r \in Replicas, p \in Partitions :
    Trusted(r, p) /\ ~Excused /\ replay_targets[r][p] # -1 =>
      \A n \in 1..Len(log[p]) : n > replay_targets[r][p] =>
        \/ map[r][key[log[p][n]]] # None
        \/ pc[log[p][n]] = "committing" /\ at[log[p][n]] = r

\* A trusted producer has no abandoned transaction.
NoAbandonedTxn ==
  \A r \in Replicas, p \in Partitions :
    Trusted(r, p) /\ txn[p] # None => pc[txn[p].req] \in InTxn

\* A call about to write with the current producer writes a fresh key.
FreshKey ==
  \A i \in Requests :
    /\ pc[i] \in {"init", "begin", "data"} /\ slots[at[i]][PartOf(i)] # "recovery"
    /\ current[PartOf(i)] = at[i] /\ ~Excused
    => /\ txn[PartOf(i)] = None
       /\ \A j \in data : key[j] # key[i]

\* So does a transaction that may still commit, whoever waits for it.
TxnFresh ==
  \A p \in Partitions : txn[p] # None /\ ~Excused =>
    \A j \in data : key[j] # key[txn[p].req]

IInv ==
  /\ TypeOK
  /\ OneHolder /\ SlotFits
  /\ TxnOwned /\ TxnOpen /\ CommitAsked
  /\ LogSound /\ LogComplete
  /\ MapTruthful /\ AnswersAreDurable
  /\ CallbackShape /\ WarmReplayed /\ PreparedQuiet
  /\ ReplayedKnown /\ LateKnown
  /\ NoAbandonedTxn
  /\ FreshKey /\ TxnFresh
  /\ AtMostOnceUnlessExcused

=============================================================================
