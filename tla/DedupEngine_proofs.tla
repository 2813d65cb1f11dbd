------------------------ MODULE DedupEngine_proofs ------------------------
(***************************************************************************)
(* Proofs about DedupEngine, for every number of replicas, partitions,     *)
(* keys, calls and faults: first that it is well typed and what a step may *)
(* never do, then that DedupInvariant!IInv is inductive; and so a key is   *)
(* written at most once, a warm owner's map is complete, and DedupEngine   *)
(* implements ExactlyOnce.                                                 *)
(*                                                                         *)
(* The lemma of an action first says what the action does to each element  *)
(* of the state, and then takes the conjuncts it disturbs one by one.      *)
(***************************************************************************)
EXTENDS DedupRefinement, DedupInvariant, TLAPS

\* At the start.
LEMMA TypeInit == Init => TypeOK
  <1> SUFFICES ASSUME Init PROVE TypeOK
    OBVIOUS
  <1>1. KafkaTypeOK
    BY DEF Init, KafkaTypeOK
  <1>2. StoreTypeOK
    BY BoundsAssumption DEF Init, StoreTypeOK
  <1>3. TaskTypeOK
    BY DEF Init, TaskTypeOK, OwnStates
  <1>4. CallTypeOK
    BY DEF Init, CallTypeOK, PCs
  <1> QED
    BY <1>1, <1>2, <1>3, <1>4 DEF Init, TypeOK, Excuses

\* The lookup answers with a claim of the map, or goes on.
LEMMA LookupSound ==
  ASSUME TypeOK, NEW i \in Requests, NEW l \in PCs, LookupThen(i, l)
  PROVE  pc' \in [Requests -> PCs] /\ answer' \in [Requests -> Requests \cup {None}]
  <1>1. map[at[i]][key[i]] \in Requests \cup {None}
    BY DEF TypeOK, StoreTypeOK, CallTypeOK
  <1>2. "dup" \in PCs
    BY DEF PCs, Finished
  <1> QED
    BY <1>1, <1>2 DEF LookupThen, Goto, TypeOK, CallTypeOK

\* Half a prepare_partitions: an empty slot, and perhaps a new epoch.
LEMMA CutShortSound ==
  ASSUME TypeOK, NEW r \in Replicas, PrepareCutShort(r)
  PROVE  /\ log' \in [Partitions -> Seq(Requests)] /\ data' \in SUBSET Requests
         /\ txn' \in [Partitions -> Txns \cup {None}]
         /\ current' \in [Partitions -> Replicas \cup {None}]
         /\ slots' \in [Replicas -> [Partitions -> {"none", "ready", "recovery"}]]
  <1>1. PICK p \in todo[r] : /\ SetSlot(r, p, "none")
                             /\ UNCHANGED kafkaVars \/ init_transactions(r, p)
    BY DEF PrepareCutShort
  <1>2. p \in Partitions
    BY DEF TypeOK, TaskTypeOK
  <1>3. CASE UNCHANGED kafkaVars
    BY <1>1, <1>2, <1>3 DEF TypeOK, KafkaTypeOK, TaskTypeOK, kafkaVars, SetSlot
  <1>4. CASE init_transactions(r, p)
    BY <1>1, <1>2, <1>4 DEF TypeOK, KafkaTypeOK, TaskTypeOK, init_transactions, SetSlot
  <1> QED
    BY <1>1, <1>3, <1>4

\* Initializing a producer, from a call.
LEMMA InitProducerSound ==
  ASSUME TypeOK, NEW i \in Requests, init_producer(i), coord' = coord
  PROVE  KafkaTypeOK' /\ excuses' \in SUBSET Excuses
  <1>1. at[i] \in Replicas /\ PartOf(i) \in Partitions
    BY PartitionsAssumption DEF TypeOK, CallTypeOK, PartOf
  <1>2. KafkaTypeOK'
    BY <1>1 DEF init_producer, init_transactions, TypeOK, KafkaTypeOK
  <1>3. excuses' \in SUBSET Excuses
    BY DEF init_producer, TypeOK, Excuses
  <1> QED
    BY <1>2, <1>3

\* One step per action.
LEMMA TypeStep == TypeOK /\ [Next]_vars => TypeOK'
  <1> SUFFICES ASSUME TypeOK, [Next]_vars PROVE TypeOK'
    OBVIOUS
  <1> USE DEF TypeOK, kafkaVars, storeVars, taskVars, reqVars
  <1>0. /\ PCs = {"idle", "lock"} \cup Holding \cup Finished
        /\ \A i \in Requests : at[i] \in Replicas /\ key[i] \in Keys /\ PartOf(i) \in Partitions
    BY PartitionsAssumption DEF PCs, CallTypeOK, PartOf
  <1>1. ASSUME NEW i \in Requests, dedup_produce(i) PROVE TypeOK'
    <2>1. CallTypeOK'
      <3>1. CASE ~gate(i)
        BY <1>0, <1>1, <3>1 DEF dedup_produce, requestOnly, Goto, CallTypeOK, Finished
      <3>2. CASE gate(i)
        BY <1>0, <1>1, <3>2, LookupSound DEF dedup_produce, requestOnly, CallTypeOK
      <3> QED
        BY <3>1, <3>2
    <2> QED
      BY <1>1, <2>1 DEF dedup_produce, requestOnly, KafkaTypeOK, StoreTypeOK, TaskTypeOK
  <1>2. ASSUME NEW i \in Requests, LockSlot(i) PROVE TypeOK'
    <2>1. CallTypeOK'
      BY <1>0, <1>2 DEF LockSlot, requestOnly, Goto, PCs, Holding, InTxn, Finished, CallTypeOK
    <2> QED
      BY <1>2, <2>1 DEF LockSlot, requestOnly, KafkaTypeOK, StoreTypeOK, TaskTypeOK
  <1>34. ASSUME NEW i \in Requests, Recheck(i) PROVE TypeOK'
    <2>1. CallTypeOK'
      <3>1. PICK l \in {"init", "begin"} : LookupThen(i, l)
        BY <1>34 DEF Recheck
      <3>2. l \in PCs
        BY <3>1 DEF PCs, Holding
      <3> QED
        BY <1>34, <3>1, <3>2, LookupSound DEF Recheck, requestOnly, CallTypeOK
    <2>2. excuses' \in SUBSET Excuses
      BY <1>34 DEF Recheck, Excuses
    <2> QED
      BY <1>34, <2>1, <2>2 DEF Recheck, requestOnly, KafkaTypeOK, StoreTypeOK, TaskTypeOK
  <1>3. ASSUME NEW i \in Requests, LazyInit(i) PROVE TypeOK'
    <2>1. KafkaTypeOK' /\ excuses' \in SUBSET Excuses
      BY <1>3, InitProducerSound DEF LazyInit
    <2>2. TaskTypeOK'
      BY <1>0, <1>3 DEF LazyInit, SetSlot, OwnStates, TaskTypeOK
    <2>3. CallTypeOK'
      BY <1>0, <1>3 DEF LazyInit, Goto, PCs, Holding, InTxn, Finished, CallTypeOK
    <2> QED
      BY <1>3, <2>1, <2>2, <2>3 DEF LazyInit, StoreTypeOK
  <1>4. ASSUME NEW i \in Requests, LazyInitFails(i) PROVE TypeOK'
    <2>1. KafkaTypeOK' /\ excuses' \in SUBSET Excuses
      BY <1>4, InitProducerSound DEF LazyInitFails, KafkaTypeOK
    <2>2. CallTypeOK'
      BY <1>0, <1>4 DEF LazyInitFails, Goto, PCs, Holding, InTxn, Finished, CallTypeOK
    <2>3. spent' \in [Faults -> Nat]
      BY <1>4, BoundsAssumption DEF LazyInitFails, Spend, Faults
    <2> QED
      BY <1>4, <2>1, <2>2, <2>3 DEF LazyInitFails, StoreTypeOK, TaskTypeOK
  <1>5. ASSUME NEW i \in Requests, BeginTransaction(i) PROVE TypeOK'
    <2>1. CallTypeOK'
      BY <1>0, <1>5 DEF BeginTransaction, requestOnly, Goto, PCs, Holding, InTxn, Finished, CallTypeOK
    <2> QED
      BY <1>5, <2>1 DEF BeginTransaction, requestOnly, KafkaTypeOK, StoreTypeOK, TaskTypeOK
  <1>6. ASSUME NEW i \in Requests, RecoveryRequired(i) PROVE TypeOK'
    <2>1. StoreTypeOK'
      BY <1>0, <1>6, BoundsAssumption DEF RecoveryRequired, require_restart, SetSlot, StoreTypeOK
    <2>2. TaskTypeOK'
      BY <1>0, <1>6 DEF RecoveryRequired, require_restart, SetSlot, OwnStates, TaskTypeOK
    <2>3. CallTypeOK'
      BY <1>0, <1>6 DEF RecoveryRequired, require_restart, SetSlot, Goto, PCs, Holding, InTxn, Finished, CallTypeOK
    <2> QED
      BY <1>6, <2>1, <2>2, <2>3 DEF RecoveryRequired, require_restart, SetSlot, KafkaTypeOK
  <1>7. ASSUME NEW i \in Requests, SendData(i) PROVE TypeOK'
    <2>1. KafkaTypeOK'
      BY <1>0, <1>7 DEF SendData, Txns, KafkaTypeOK
    <2>2. CallTypeOK'
      BY <1>0, <1>7 DEF SendData, Goto, PCs, Holding, InTxn, Finished, CallTypeOK
    <2> QED
      BY <1>7, <2>1, <2>2 DEF SendData, StoreTypeOK, TaskTypeOK
  <1>8. ASSUME NEW i \in Requests, SendClaim(i) PROVE TypeOK'
    <2>1. KafkaTypeOK'
      BY <1>0, <1>8 DEF SendClaim, Txns, KafkaTypeOK
    <2>2. CallTypeOK'
      BY <1>0, <1>8 DEF SendClaim, Goto, PCs, Holding, InTxn, Finished, CallTypeOK
    <2> QED
      BY <1>8, <2>1, <2>2 DEF SendClaim, StoreTypeOK, TaskTypeOK
  <1>9. ASSUME NEW i \in Requests, SendFails(i) PROVE TypeOK'
    <2>1. CallTypeOK'
      BY <1>0, <1>9 DEF SendFails, FencedOrFailure, Goto, AfterSendError, PCs, Holding, InTxn, Finished, CallTypeOK
    <2>2. spent' \in [Faults -> Nat]
      BY <1>0, <1>9, BoundsAssumption DEF SendFails, FencedOrFailure, Spend, Faults
    <2> QED
      BY <1>9, <2>1, <2>2 DEF SendFails, FencedOrFailure, KafkaTypeOK, StoreTypeOK, TaskTypeOK
  <1>10. ASSUME NEW i \in Requests, SendCommit(i) PROVE TypeOK'
    <2>1. KafkaTypeOK'
      BY <1>0, <1>10 DEF SendCommit, EndTxn, Txns, KafkaTypeOK
    <2>2. CallTypeOK'
      BY <1>0, <1>10 DEF SendCommit, Goto, PCs, Holding, InTxn, Finished, CallTypeOK
    <2> QED
      BY <1>10, <2>1, <2>2 DEF SendCommit, StoreTypeOK, TaskTypeOK
  <1>11. ASSUME NEW i \in Requests, CommitSucceeds(i) PROVE TypeOK'
    <2>1. StoreTypeOK'
      BY <1>0, <1>11, BoundsAssumption DEF CommitSucceeds, apply, StoreTypeOK
    <2>2. CallTypeOK'
      BY <1>0, <1>11 DEF CommitSucceeds, Goto, PCs, Holding, InTxn, Finished, CallTypeOK
    <2> QED
      BY <1>11, <2>1, <2>2 DEF CommitSucceeds, KafkaTypeOK, TaskTypeOK
  <1>12. ASSUME NEW i \in Requests, CommitFails(i) PROVE TypeOK'
    <2>1. KafkaTypeOK'
      BY <1>0, <1>12 DEF CommitFails, FencedOrFailure, EndTxn, Txns, KafkaTypeOK
    <2>2. CallTypeOK'
      BY <1>0, <1>12 DEF CommitFails, FencedOrFailure, Goto, PCs, Holding, InTxn, Finished, CallTypeOK
    <2>3. spent' \in [Faults -> Nat]
      BY <1>0, <1>12, BoundsAssumption DEF CommitFails, FencedOrFailure, Spend, Faults
    <2> QED
      BY <1>12, <2>1, <2>2, <2>3 DEF CommitFails, FencedOrFailure, StoreTypeOK, TaskTypeOK
  <1>13. ASSUME NEW i \in Requests, CommitUncertain(i) PROVE TypeOK'
    <2>1. StoreTypeOK'
      BY <1>0, <1>13, BoundsAssumption DEF CommitUncertain, require_restart, SetSlot, StoreTypeOK
    <2>2. TaskTypeOK'
      BY <1>0, <1>13 DEF CommitUncertain, require_restart, SetSlot, OwnStates, TaskTypeOK
    <2>3. CallTypeOK'
      BY <1>0, <1>13 DEF CommitUncertain, require_restart, SetSlot, Goto, PCs, Holding, InTxn, Finished, CallTypeOK
    <2>4. spent' \in [Faults -> Nat]
      BY <1>0, <1>13, BoundsAssumption DEF CommitUncertain, require_restart, SetSlot, Spend, Faults
    <2> QED
      BY <1>13, <2>1, <2>2, <2>3, <2>4 DEF CommitUncertain, require_restart, SetSlot, KafkaTypeOK
  <1>14. ASSUME NEW i \in Requests, AbortConfirmed(i) PROVE TypeOK'
    <2>1. KafkaTypeOK'
      BY <1>0, <1>14 DEF AbortConfirmed, SetSlot, KafkaTypeOK
    <2>2. TaskTypeOK'
      BY <1>0, <1>14 DEF AbortConfirmed, SetSlot, OwnStates, TaskTypeOK
    <2>3. CallTypeOK'
      BY <1>0, <1>14 DEF AbortConfirmed, SetSlot, Goto, PCs, Holding, InTxn, Finished, CallTypeOK
    <2> QED
      BY <1>14, <2>1, <2>2, <2>3 DEF AbortConfirmed, SetSlot, StoreTypeOK
  <1>15. ASSUME NEW i \in Requests, AbortFails(i) PROVE TypeOK'
    <2>1. StoreTypeOK'
      BY <1>0, <1>15, BoundsAssumption DEF AbortFails, require_restart, SetSlot, FencedOrFailure, StoreTypeOK
    <2>2. TaskTypeOK'
      BY <1>0, <1>15 DEF AbortFails, require_restart, SetSlot, FencedOrFailure, OwnStates, TaskTypeOK
    <2>3. CallTypeOK'
      BY <1>0, <1>15 DEF AbortFails, require_restart, SetSlot, FencedOrFailure, Goto, PCs, Holding, InTxn, Finished, CallTypeOK
    <2>4. spent' \in [Faults -> Nat]
      BY <1>0, <1>15, BoundsAssumption DEF AbortFails, require_restart, SetSlot, FencedOrFailure, Spend, Faults
    <2> QED
      BY <1>15, <2>1, <2>2, <2>3, <2>4 DEF AbortFails, require_restart, SetSlot, FencedOrFailure, KafkaTypeOK
  <1>16. ASSUME NEW i \in Requests, Cancel(i) PROVE TypeOK'
    <2>1. TaskTypeOK'
      BY <1>0, <1>16 DEF Cancel, SetSlot, OwnStates, TaskTypeOK
    <2>2. CallTypeOK'
      BY <1>0, <1>16 DEF Cancel, Goto, PCs, Holding, InTxn, Finished, CallTypeOK
    <2>3. spent' \in [Faults -> Nat]
      BY <1>16, BoundsAssumption DEF Cancel, Spend, Faults
    <2>4. KafkaTypeOK' /\ excuses' \in SUBSET Excuses
      BY <1>16, InitProducerSound DEF Cancel, KafkaTypeOK
    <2> QED
      BY <1>16, <2>1, <2>2, <2>3, <2>4 DEF Cancel, StoreTypeOK
  <1>17. ASSUME NEW r \in Replicas, NEW S \in SUBSET Partitions, on_partitions_revoked(r, S) PROVE TypeOK'
    <2>1. StoreTypeOK'
      BY <1>0, <1>17, BoundsAssumption DEF on_partitions_revoked, update_assignment, StoreTypeOK
    <2>2. TaskTypeOK'
      BY <1>0, <1>17 DEF on_partitions_revoked, update_assignment, OwnStates, TaskTypeOK
    <2>3. spent' \in [Faults -> Nat]
      BY <1>0, <1>17, BoundsAssumption DEF on_partitions_revoked, update_assignment, Spend, Faults
    <2> QED
      BY <1>17, <2>1, <2>2, <2>3 DEF on_partitions_revoked, update_assignment, KafkaTypeOK, CallTypeOK
  <1>18. ASSUME NEW r \in Replicas, NEW p \in Partitions, release_partitions(r, p) PROVE TypeOK'
    <2>1. TaskTypeOK'
      BY <1>0, <1>18 DEF release_partitions, SetSlot, OwnStates, TaskTypeOK
    <2> QED
      BY <1>18, <2>1 DEF release_partitions, SetSlot, KafkaTypeOK, StoreTypeOK, CallTypeOK
  <1>19. ASSUME NEW r \in Replicas, RevokeDone(r) PROVE TypeOK'
    <2>1. KafkaTypeOK'
      BY <1>0, <1>19 DEF RevokeDone, KafkaTypeOK
    <2>2. TaskTypeOK'
      BY <1>0, <1>19 DEF RevokeDone, OwnStates, TaskTypeOK
    <2> QED
      BY <1>19, <2>1, <2>2 DEF RevokeDone, StoreTypeOK, CallTypeOK
  <1>20. ASSUME NEW r \in Replicas, NEW S \in SUBSET Partitions, on_partitions_assigned(r, S) PROVE TypeOK'
    <2>1. KafkaTypeOK'
      BY <1>0, <1>20 DEF on_partitions_assigned, KafkaTypeOK
    <2>2. StoreTypeOK'
      BY <1>0, <1>20, BoundsAssumption DEF on_partitions_assigned, StoreTypeOK
    <2>3. TaskTypeOK'
      BY <1>0, <1>20 DEF on_partitions_assigned, OwnStates, TaskTypeOK
    <2>4. spent' \in [Faults -> Nat]
      BY <1>0, <1>20, BoundsAssumption DEF on_partitions_assigned, Spend, Faults
    <2> QED
      BY <1>20, <2>1, <2>2, <2>3, <2>4 DEF on_partitions_assigned, CallTypeOK
  <1>21. ASSUME NEW r \in Replicas, NEW p \in Partitions, prepare_partitions(r, p) PROVE TypeOK'
    <2>1. KafkaTypeOK'
      BY <1>0, <1>21 DEF prepare_partitions, init_transactions, SetSlot, KafkaTypeOK
    <2>2. TaskTypeOK'
      BY <1>0, <1>21 DEF prepare_partitions, init_transactions, SetSlot, OwnStates, TaskTypeOK
    <2> QED
      BY <1>21, <2>1, <2>2 DEF prepare_partitions, init_transactions, SetSlot, StoreTypeOK, CallTypeOK
  <1>22. ASSUME NEW r \in Replicas, CaptureEnds(r) PROVE TypeOK'
    <2>1. StoreTypeOK'
      BY <1>0, <1>22, BoundsAssumption DEF CaptureEnds, update_assignment, KafkaTypeOK, TaskTypeOK, StoreTypeOK
    <2>2. TaskTypeOK'
      BY <1>0, <1>22 DEF CaptureEnds, update_assignment, OwnStates, TaskTypeOK
    <2> QED
      BY <1>22, <2>1, <2>2 DEF CaptureEnds, update_assignment, KafkaTypeOK, CallTypeOK
  <1>23. ASSUME NEW r \in Replicas, PollEmpty(r) PROVE TypeOK'
    <2>1. StoreTypeOK'
      BY <1>0, <1>23, BoundsAssumption DEF PollEmpty, WarmGate, StoreTypeOK
    <2> QED
      BY <1>23, <2>1 DEF PollEmpty, WarmGate, KafkaTypeOK, TaskTypeOK, CallTypeOK
  <1>24. ASSUME NEW r \in Replicas, NEW p \in Partitions, PollClaim(r, p) PROVE TypeOK'
    <2>1. StoreTypeOK'
      <3>1. log[p][position[r][p] + 1] \in Requests
        BY <1>24 DEF PollClaim, KafkaTypeOK, StoreTypeOK
      <3>2. key[log[p][position[r][p] + 1]] \in Keys
        BY <1>0, <3>1
      <3> QED
        BY <1>24, <3>1, <3>2, BoundsAssumption DEF PollClaim, apply, StoreTypeOK
    <2> QED
      BY <1>24, <2>1 DEF PollClaim, KafkaTypeOK, TaskTypeOK, CallTypeOK
  <1>25. ASSUME NEW r \in Replicas, ExitForRestart(r) PROVE TypeOK'
    <2>1. KafkaTypeOK'
      BY <1>0, <1>25 DEF ExitForRestart, ExitLoop, Fresh, KafkaTypeOK
    <2>2. StoreTypeOK'
      BY <1>0, <1>25, BoundsAssumption DEF ExitForRestart, ExitLoop, Fresh, StoreTypeOK
    <2>3. TaskTypeOK'
      BY <1>0, <1>25 DEF ExitForRestart, ExitLoop, Fresh, OwnStates, TaskTypeOK
    <2> QED
      BY <1>25, <2>1, <2>2, <2>3 DEF ExitForRestart, ExitLoop, Fresh, CallTypeOK
  <1>26. ASSUME NEW r \in Replicas, Shutdown(r) PROVE TypeOK'
    <2>1. KafkaTypeOK'
      BY <1>26, CutShortSound DEF Shutdown, ExitLoop, KafkaTypeOK
    <2>2. StoreTypeOK'
      BY <1>0, <1>26, BoundsAssumption DEF Shutdown, ExitLoop, Fresh, StoreTypeOK
    <2>3. TaskTypeOK'
      <3>1. slots' \in [Replicas -> [Partitions -> {"none", "ready", "recovery"}]]
        BY <1>26, CutShortSound DEF Shutdown, TaskTypeOK
      <3> QED
        BY <1>26, <3>1 DEF Shutdown, ExitLoop, Fresh, OwnStates, TaskTypeOK
    <2>4. spent' \in [Faults -> Nat]
      BY <1>26, BoundsAssumption DEF Shutdown, Spend, Faults
    <2> QED
      BY <1>26, <2>1, <2>2, <2>3, <2>4 DEF Shutdown, ExitLoop, Fresh, CallTypeOK
  <1>27. ASSUME NEW r \in Replicas, AssignFails(r) PROVE TypeOK'
    <2>1. KafkaTypeOK'
      BY <1>27, CutShortSound DEF AssignFails, ExitLoop, KafkaTypeOK
    <2>2. StoreTypeOK'
      BY <1>0, <1>27, BoundsAssumption DEF AssignFails, ExitLoop, Fresh, StoreTypeOK
    <2>3. TaskTypeOK'
      <3>1. slots' \in [Replicas -> [Partitions -> {"none", "ready", "recovery"}]]
        BY <1>27, CutShortSound DEF AssignFails, TaskTypeOK
      <3> QED
        BY <1>27, <3>1 DEF AssignFails, ExitLoop, Fresh, OwnStates, TaskTypeOK
    <2>4. spent' \in [Faults -> Nat]
      BY <1>27, BoundsAssumption DEF AssignFails, Spend, Faults
    <2> QED
      BY <1>27, <2>1, <2>2, <2>3, <2>4 DEF AssignFails, ExitLoop, Fresh, CallTypeOK
  <1>35. ASSUME NEW r \in Replicas, PollFails(r) PROVE TypeOK'
    <2>1. KafkaTypeOK'
      BY <1>0, <1>35 DEF PollFails, ExitLoop, Fresh, KafkaTypeOK
    <2>2. StoreTypeOK'
      BY <1>0, <1>35, BoundsAssumption DEF PollFails, ExitLoop, Fresh, StoreTypeOK
    <2>3. TaskTypeOK'
      BY <1>0, <1>35 DEF PollFails, ExitLoop, Fresh, OwnStates, TaskTypeOK
    <2>4. spent' \in [Faults -> Nat]
      BY <1>0, <1>35, BoundsAssumption DEF PollFails, ExitLoop, Fresh, Spend, Faults
    <2> QED
      BY <1>35, <2>1, <2>2, <2>3, <2>4 DEF PollFails, ExitLoop, Fresh, CallTypeOK
  <1>28. ASSUME NEW r \in Replicas, ProcessEnds(r) PROVE TypeOK'
    <2>1. StoreTypeOK'
      BY <1>0, <1>28, BoundsAssumption DEF ProcessEnds, GoDown, Fresh, StoreTypeOK
    <2>2. TaskTypeOK'
      BY <1>0, <1>28 DEF ProcessEnds, GoDown, Fresh, OwnStates, TaskTypeOK
    <2>3. CallTypeOK'
      BY <1>0, <1>28 DEF ProcessEnds, GoDown, Fresh, PCs, Holding, InTxn, Finished, CallTypeOK
    <2> QED
      BY <1>28, <2>1, <2>2, <2>3 DEF ProcessEnds, GoDown, Fresh, KafkaTypeOK
  <1>29. ASSUME NEW r \in Replicas, Crash(r) PROVE TypeOK'
    <2>1. StoreTypeOK'
      BY <1>0, <1>29, BoundsAssumption DEF Crash, GoDown, Fresh, StoreTypeOK
    <2>2. TaskTypeOK'
      BY <1>0, <1>29 DEF Crash, GoDown, Fresh, OwnStates, TaskTypeOK
    <2>3. CallTypeOK'
      BY <1>0, <1>29 DEF Crash, GoDown, Fresh, PCs, Holding, InTxn, Finished, CallTypeOK
    <2>4. spent' \in [Faults -> Nat]
      BY <1>0, <1>29, BoundsAssumption DEF Crash, GoDown, Fresh, Spend, Faults
    <2> QED
      BY <1>29, <2>1, <2>2, <2>3, <2>4 DEF Crash, GoDown, Fresh, KafkaTypeOK
  <1>30. ASSUME NEW r \in Replicas, StartProcess(r) PROVE TypeOK'
    <2>1. TaskTypeOK'
      BY <1>0, <1>30 DEF StartProcess, OwnStates, TaskTypeOK
    <2> QED
      BY <1>30, <2>1 DEF StartProcess, KafkaTypeOK, StoreTypeOK, CallTypeOK
  <1>31. ASSUME NEW r \in Replicas, SessionTimeout(r) PROVE TypeOK'
    <2>1. KafkaTypeOK'
      BY <1>0, <1>31 DEF SessionTimeout, KafkaTypeOK
    <2>2. spent' \in [Faults -> Nat]
      BY <1>0, <1>31, BoundsAssumption DEF SessionTimeout, Spend, Faults
    <2> QED
      BY <1>31, <2>1, <2>2 DEF SessionTimeout, StoreTypeOK, TaskTypeOK, CallTypeOK
  <1>32. ASSUME NEW p \in Partitions, BrokerCommit(p) PROVE TypeOK'
    <2>1. KafkaTypeOK'
      BY <1>0, <1>32 DEF BrokerCommit, Txns, KafkaTypeOK
    <2> QED
      BY <1>32, <2>1 DEF BrokerCommit, StoreTypeOK, TaskTypeOK, CallTypeOK
  <1>33. ASSUME UNCHANGED vars PROVE TypeOK'
    BY <1>33 DEF vars, KafkaTypeOK, StoreTypeOK, TaskTypeOK, CallTypeOK
  <1> QED
    BY <1>1, <1>2, <1>3, <1>4, <1>5, <1>6, <1>7, <1>8, <1>9, <1>10, <1>11, <1>12, <1>13, <1>14, <1>15, <1>16, <1>17, <1>18, <1>19, <1>20, <1>21, <1>22, <1>23, <1>24, <1>25, <1>26, <1>27, <1>28, <1>29, <1>30, <1>31, <1>32, <1>33, <1>34, <1>35
       DEF Next, Call, Ownership, Process

\* Every variable keeps its type: no step of a call, a rebalance or a restart
\* stores anything in a claim map, a slot or a log that does not belong there.
THEOREM TypeCorrect == Spec => []TypeOK
  BY TypeInit, TypeStep, PTL DEF Spec

-----------------------------------------------------------------------------
(* The inductive invariant.                                                *)

\* r takes the producer epoch of p.
NewEpoch(r, p) ==
  \A q \in Partitions : /\ txn'[q] = IF q = p THEN None ELSE txn[q]
                        /\ current'[q] = IF q = p THEN r ELSE current[q]

\* Calls are at replicas and have keys and partitions, and what the cluster
\* stores are calls.
LEMMA Placed ==
  ASSUME TypeOK
  PROVE  /\ \A j \in Requests : at[j] \in Replicas /\ key[j] \in Keys /\ PartOf(j) \in Partitions
         /\ \A q \in Partitions : txn[q] # None => txn[q].req \in Requests
         /\ \A q \in Partitions : \A n \in 1..Len(log[q]) : log[q][n] \in Requests
         /\ data \subseteq Requests
  <1>1. \A j \in Requests : at[j] \in Replicas /\ key[j] \in Keys /\ PartOf(j) \in Partitions
    BY PartitionsAssumption DEF TypeOK, CallTypeOK, PartOf
  <1>2. \A q \in Partitions : txn[q] # None => txn[q].req \in Requests
    BY DEF TypeOK, KafkaTypeOK, Txns
  <1>3. \A q \in Partitions : \A n \in 1..Len(log[q]) : log[q][n] \in Requests
    BY DEF TypeOK, KafkaTypeOK
  <1>4. data \subseteq Requests
    BY DEF TypeOK, KafkaTypeOK
  <1> QED
    BY <1>1, <1>2, <1>3, <1>4

\* An open transaction is not None.
LEMMA TxnMade ==
  ASSUME NEW i \in Requests, NEW c \in BOOLEAN, NEW e \in BOOLEAN
  PROVE  /\ [req |-> i, claim |-> c, ending |-> e] \in Txns
         /\ [req |-> i, claim |-> c, ending |-> e] # None
  BY NoneAssumption DEF Txns

\* A producer epoch is taken: what was open under the id is aborted.
LEMMA Epoch ==
  ASSUME TypeOK, NEW r \in Replicas, NEW p \in Partitions, init_transactions(r, p)
  PROVE  NewEpoch(r, p) /\ UNCHANGED <<log, data>>
  BY DEF TypeOK, KafkaTypeOK, init_transactions, NewEpoch

\* ... from a call: without an excuse, the id was the call's replica's already.
LEMMA LazyEpoch ==
  ASSUME TypeOK, NEW i \in Requests, init_producer(i)
  PROVE  /\ NewEpoch(at[i], PartOf(i)) /\ UNCHANGED <<log, data>>
         /\ ~Excused' => ~Excused /\ \A q \in Partitions : current'[q] = current[q]
  <1>1. NewEpoch(at[i], PartOf(i)) /\ UNCHANGED <<log, data>>
    BY Epoch, Placed DEF init_producer
  <1>2. ~Excused' => ~Excused /\ current[PartOf(i)] = at[i]
    BY DEF init_producer, Excused
  <1> QED
    BY <1>1, <1>2 DEF NewEpoch

\* The length of a claim log is a number.
LEMMA Lengths ==
  ASSUME TypeOK
  PROVE  \A q \in Partitions : Len(log[q]) \in Nat
  BY DEF TypeOK, KafkaTypeOK

\* A conjunct depends on its own variables only.
LEMMA Frame ==
  /\ OneHolder /\ UNCHANGED <<at, key, pc>> => OneHolder'
  /\ SlotFits /\ UNCHANGED <<at, key, pc, slots>> => SlotFits'
  /\ TxnOwned /\ UNCHANGED <<at, current, data, key, pc, txn>> => TxnOwned'
  /\ TxnOpen /\ UNCHANGED <<at, current, data, key, pc, txn>> => TxnOpen'
  /\ CommitAsked /\ UNCHANGED <<data, pc>> => CommitAsked'
  /\ LogSound /\ UNCHANGED <<data, key, log>> => LogSound'
  /\ LogComplete /\ UNCHANGED <<data, key, log>> => LogComplete'
  /\ MapTruthful /\ UNCHANGED <<data, key, map>> => MapTruthful'
  /\ AnswersAreDurable /\ UNCHANGED <<answer, data, key, pc>> => AnswersAreDurable'
  /\ CallbackShape /\ UNCHANGED <<gained, own, owned, todo>> => CallbackShape'
  /\ WarmReplayed /\ UNCHANGED <<own, owned, position, replay_targets, warm>>
       => WarmReplayed'
  /\ PreparedQuiet /\ UNCHANGED <<at, current, gained, key, own, pc, todo, txn>>
       => PreparedQuiet'
  /\ ReplayedKnown /\ UNCHANGED <<key, log, map, owned, position>> => ReplayedKnown'
  /\ LateKnown /\ UNCHANGED <<at, current, excuses, key, log, map, owned, pc,
       replay_targets, restart_required, slots>> => LateKnown'
  /\ NoAbandonedTxn /\ UNCHANGED <<current, owned, pc, restart_required, slots, txn>>
       => NoAbandonedTxn'
  /\ FreshKey /\ UNCHANGED <<at, current, data, excuses, key, pc, slots, txn>> => FreshKey'
  /\ TxnFresh /\ UNCHANGED <<data, excuses, key, txn>> => TxnFresh'
  /\ AtMostOnceUnlessExcused /\ UNCHANGED <<data, excuses, key>> => AtMostOnceUnlessExcused'
  <1>1. OneHolder /\ UNCHANGED <<at, key, pc>> => OneHolder'
    BY DEF OneHolder, PartOf
  <1>2. SlotFits /\ UNCHANGED <<at, key, pc, slots>> => SlotFits'
    BY DEF SlotFits, PartOf
  <1>3. TxnOwned /\ UNCHANGED <<at, current, data, key, pc, txn>> => TxnOwned'
    BY DEF TxnOwned, PartOf
  <1>4. TxnOpen /\ UNCHANGED <<at, current, data, key, pc, txn>> => TxnOpen'
    BY DEF TxnOpen, PartOf
  <1>5. CommitAsked /\ UNCHANGED <<data, pc>> => CommitAsked'
    BY DEF CommitAsked
  <1>6. LogSound /\ UNCHANGED <<data, key, log>> => LogSound'
    BY DEF LogSound, PartOf
  <1>7. LogComplete /\ UNCHANGED <<data, key, log>> => LogComplete'
    BY DEF LogComplete, PartOf
  <1>8. MapTruthful /\ UNCHANGED <<data, key, map>> => MapTruthful'
    BY DEF MapTruthful
  <1>9. AnswersAreDurable /\ UNCHANGED <<answer, data, key, pc>> => AnswersAreDurable'
    BY DEF AnswersAreDurable
  <1>10. CallbackShape /\ UNCHANGED <<gained, own, owned, todo>> => CallbackShape'
    BY DEF CallbackShape
  <1>11. WarmReplayed /\ UNCHANGED <<own, owned, position, replay_targets, warm>>
           => WarmReplayed'
    BY DEF WarmReplayed
  <1>12. PreparedQuiet /\ UNCHANGED <<at, current, gained, key, own, pc, todo, txn>>
           => PreparedQuiet'
    BY DEF PreparedQuiet, SlotFree, PartOf
  <1>13. ReplayedKnown /\ UNCHANGED <<key, log, map, owned, position>> => ReplayedKnown'
    BY DEF ReplayedKnown
  <1>14. LateKnown /\ UNCHANGED <<at, current, excuses, key, log, map, owned, pc,
           replay_targets, restart_required, slots>> => LateKnown'
    BY DEF LateKnown, Trusted, Excused
  <1>15. NoAbandonedTxn /\ UNCHANGED <<current, owned, pc, restart_required, slots, txn>>
           => NoAbandonedTxn'
    BY DEF NoAbandonedTxn, Trusted
  <1>16. FreshKey /\ UNCHANGED <<at, current, data, excuses, key, pc, slots, txn>>
           => FreshKey'
    BY DEF FreshKey, PartOf, Excused
  <1>17. TxnFresh /\ UNCHANGED <<data, excuses, key, txn>> => TxnFresh'
    BY DEF TxnFresh, Excused
  <1>18. AtMostOnceUnlessExcused /\ UNCHANGED <<data, excuses, key>>
           => AtMostOnceUnlessExcused'
    BY DEF AtMostOnceUnlessExcused, Excused
  <1> QED
    BY <1>1, <1>2, <1>3, <1>4, <1>5, <1>6, <1>7, <1>8, <1>9, <1>10, <1>11, <1>12, <1>13,
       <1>14, <1>15, <1>16, <1>17, <1>18

-----------------------------------------------------------------------------
\* The call arrives: a duplicate is answered from the map, which is truthful.
LEMMA dedup_produceStep ==
  ASSUME IInv, TypeOK', NEW i \in Requests, dedup_produce(i)
  PROVE  IInv'
  <1> USE DEF kafkaVars, storeVars, taskVars, reqVars
  <1>1. /\ \A j \in Requests : j # i => pc'[j] = pc[j] /\ answer'[j] = answer[j]
        /\ \/ pc'[i] \in {"lock", "unavailable"}
           \/ pc'[i] = "dup" /\ answer'[i] # None /\ answer'[i] = map[at[i]][key[i]]
        /\ pc[i] = "idle"
        /\ UNCHANGED <<log, data, txn, current, owned, map, warm, restart_required,
             replay_targets, position, own, gained, todo, slots, at, key, excuses>>
    BY Placed DEF IInv, TypeOK, CallTypeOK, dedup_produce, LookupThen, Goto, requestOnly
  <1>2. OneHolder'
    BY <1>1, Placed DEF IInv, OneHolder, PartOf, Holding, InTxn
  <1>3. SlotFits'
    BY <1>1, Placed DEF IInv, SlotFits, PartOf, InTxn
  <1>4. TxnOwned'
    BY <1>1, Placed DEF IInv, TxnOwned, PartOf
  <1>5. TxnOpen'
    BY <1>1, Placed DEF IInv, TxnOpen, PartOf
  <1>6. CommitAsked'
    BY <1>1, Placed DEF IInv, CommitAsked
  <1>7. AnswersAreDurable'
    BY <1>1, Placed DEF IInv, AnswersAreDurable, MapTruthful
  <1>8. PreparedQuiet'
    BY <1>1, Placed DEF IInv, PreparedQuiet, SlotFree, PartOf, Holding, InTxn
  <1>9. LateKnown'
    BY <1>1, Placed DEF IInv, LateKnown, Trusted, Excused
  <1>10. NoAbandonedTxn'
    BY <1>1, Placed DEF IInv, NoAbandonedTxn, Trusted, InTxn
  <1>11. FreshKey'
    BY <1>1, Placed DEF IInv, FreshKey, PartOf, Excused
  <1>12. LogSound' /\ LogComplete' /\ MapTruthful' /\ CallbackShape' /\ WarmReplayed'
           /\ ReplayedKnown' /\ TxnFresh' /\ AtMostOnceUnlessExcused'
    BY <1>1, Frame DEF IInv
  <1> QED
    BY <1>2, <1>3, <1>4, <1>5, <1>6, <1>7, <1>8, <1>9, <1>10, <1>11, <1>12 DEF IInv

\* The slot lock: nobody else holds it, and a gained partition does not pass the gate.
LEMMA LockSlotStep ==
  ASSUME IInv, TypeOK', NEW i \in Requests, LockSlot(i)
  PROVE  IInv'
  <1> USE DEF kafkaVars, storeVars, taskVars, reqVars
  <1>1. /\ \A j \in Requests :
             pc'[j] = IF j = i THEN IF gate(i) THEN "check" ELSE "unavailable" ELSE pc[j]
        /\ pc[i] = "lock" /\ SlotFree(at[i], PartOf(i))
        /\ UNCHANGED <<log, data, txn, current, owned, map, warm, restart_required,
             replay_targets, position, own, gained, todo, slots, at, key, answer, excuses>>
    BY Placed DEF IInv, TypeOK, CallTypeOK, LockSlot, Goto, requestOnly
  <1>2. OneHolder'
    BY <1>1, Placed DEF IInv, OneHolder, PartOf, Holding, InTxn, SlotFree
  <1>3. SlotFits'
    BY <1>1, Placed DEF IInv, SlotFits, PartOf, InTxn
  <1>4. TxnOwned'
    BY <1>1, Placed DEF IInv, TxnOwned, PartOf
  <1>5. TxnOpen'
    BY <1>1, Placed DEF IInv, TxnOpen, PartOf
  <1>6. CommitAsked'
    BY <1>1, Placed DEF IInv, CommitAsked
  <1>7. AnswersAreDurable'
    BY <1>1, Placed DEF IInv, AnswersAreDurable
  <1>8. PreparedQuiet'
    BY <1>1, Placed
       DEF IInv, PreparedQuiet, SlotFree, PartOf, Holding, InTxn, CallbackShape, gate, owns
  <1>9. LateKnown'
    BY <1>1, Placed DEF IInv, LateKnown, Trusted, Excused
  <1>10. NoAbandonedTxn'
    BY <1>1, Placed DEF IInv, NoAbandonedTxn, Trusted, InTxn
  <1>11. FreshKey'
    BY <1>1, Placed DEF IInv, FreshKey, PartOf, Excused
  <1>12. LogSound' /\ LogComplete' /\ MapTruthful' /\ CallbackShape' /\ WarmReplayed'
           /\ ReplayedKnown' /\ TxnFresh' /\ AtMostOnceUnlessExcused'
    BY <1>1, Frame DEF IInv
  <1> QED
    BY <1>2, <1>3, <1>4, <1>5, <1>6, <1>7, <1>8, <1>9, <1>10, <1>11, <1>12 DEF IInv

\* The lookup under the lock.  An owner that passes the gate knows every committed
\* claim of the partition: those it has replayed, and those after the captured end,
\* which are its own; so a key it does not know has no record.
LEMMA RecheckStep ==
  ASSUME IInv, TypeOK', NEW i \in Requests, Recheck(i)
  PROVE  IInv'
  <1> USE DEF kafkaVars, storeVars, taskVars, reqVars
  <1>1. /\ \A j \in Requests : j # i => pc'[j] = pc[j] /\ answer'[j] = answer[j]
        /\ \/ /\ pc'[i] = "dup" /\ answer'[i] # None /\ answer'[i] = map[at[i]][key[i]]
           \/ /\ pc'[i] = IF slots[at[i]][PartOf(i)] = "none" THEN "init" ELSE "begin"
              /\ map[at[i]][key[i]] = None /\ (gate(i) \/ Excused')
        /\ Excused => Excused'
        /\ pc[i] = "check"
        /\ UNCHANGED <<log, data, txn, current, owned, map, warm, restart_required,
             replay_targets, position, own, gained, todo, slots, at, key>>
    BY Placed DEF IInv, TypeOK, CallTypeOK, Recheck, LookupThen, Goto, requestOnly, Excused
  <1>2. OneHolder'
    BY <1>1, Placed DEF IInv, OneHolder, PartOf, Holding, InTxn
  <1>3. SlotFits'
    BY <1>1, Placed DEF IInv, SlotFits, PartOf, InTxn
  <1>4. TxnOwned'
    BY <1>1, Placed DEF IInv, TxnOwned, PartOf
  <1>5. TxnOpen'
    BY <1>1, Placed DEF IInv, TxnOpen, PartOf
  <1>6. CommitAsked'
    BY <1>1, Placed DEF IInv, CommitAsked
  <1>7. AnswersAreDurable'
    BY <1>1, Placed DEF IInv, AnswersAreDurable, MapTruthful
  <1>8. PreparedQuiet'
    BY <1>1, Placed DEF IInv, PreparedQuiet, SlotFree, PartOf, Holding, InTxn
  <1>9. LateKnown'
    BY <1>1, Placed DEF IInv, LateKnown, Trusted, Excused
  <1>10. NoAbandonedTxn'
    BY <1>1, Placed DEF IInv, NoAbandonedTxn, Trusted, InTxn
  <1>11. FreshKey'
    <2> SUFFICES ASSUME NEW j \in Requests, pc'[j] \in {"init", "begin", "data"},
                        slots[at[j]][PartOf(j)] # "recovery", current[PartOf(j)] = at[j],
                          ~Excused'
                 PROVE  txn[PartOf(j)] = None /\ \A d \in data : key[d] # key[j]
      BY <1>1 DEF FreshKey, PartOf
    <2>1. CASE j # i
      BY <1>1, <2>1 DEF IInv, FreshKey
    <2>2. CASE j = i
      <3>1. /\ gate(i) /\ map[at[i]][key[i]] = None /\ ~Excused
            /\ pc[i] = "check"
        BY <1>1, <2>2
      <3>2. Trusted(at[i], PartOf(i)) /\ warm[at[i]]
        BY <2>2, <3>1 DEF gate, owns, is_warm, Trusted
      <3>3. ASSUME NEW d \in Requests, at[d] = at[i], PartOf(d) = PartOf(i)
            PROVE  pc[d] \notin InTxn
        BY <3>1, <3>3 DEF IInv, OneHolder, Holding, InTxn
      <3>4. txn[PartOf(i)] = None
        BY Placed, <3>2, <3>3 DEF IInv, NoAbandonedTxn, TxnOwned, Trusted
      <3>5. ASSUME NEW d \in data, key[d] = key[i] PROVE FALSE
        <4>1. d \in Requests /\ PartOf(d) = PartOf(i)
          BY Placed, <3>5 DEF IInv, PartOf
        <4>2. PICK n \in 1..Len(log[PartOf(i)]) : log[PartOf(i)][n] = d
          BY <4>1 DEF IInv, LogComplete
        <4>3. CASE n <= position[at[i]][PartOf(i)]
          BY Placed, <3>1, <3>2, <3>5, <4>2, <4>3 DEF IInv, ReplayedKnown, Trusted
        <4>4. CASE ~(n <= position[at[i]][PartOf(i)])
          <5>1. /\ replay_targets[at[i]][PartOf(i)] # -1
                /\ position[at[i]][PartOf(i)] >= replay_targets[at[i]][PartOf(i)]
            BY Placed, <3>2 DEF IInv, WarmReplayed, Trusted
          <5>2. /\ position[at[i]][PartOf(i)] \in Nat
                /\ replay_targets[at[i]][PartOf(i)] \in Nat \cup {-1}
            BY Placed DEF IInv, TypeOK, StoreTypeOK
          <5>3. n > replay_targets[at[i]][PartOf(i)]
            BY <4>4, <5>1, <5>2
          <5>4. \/ map[at[i]][key[d]] # None
                \/ pc[d] = "committing" /\ at[d] = at[i]
            BY Placed, <3>1, <3>2, <4>2, <5>1, <5>3 DEF IInv, LateKnown
          <5> QED
            BY <3>1, <3>3, <3>5, <4>1, <5>4 DEF InTxn
        <4> QED
          BY <4>3, <4>4
      <3> QED
        BY <2>2, <3>4, <3>5
    <2> QED
      BY <2>1, <2>2
  <1>12. TxnFresh'
    BY <1>1, Placed DEF IInv, TxnFresh, Excused
  <1>13. AtMostOnceUnlessExcused'
    BY <1>1, Placed DEF IInv, AtMostOnceUnlessExcused, Excused
  <1>14. LogSound' /\ LogComplete' /\ MapTruthful' /\ CallbackShape' /\ WarmReplayed'
           /\ ReplayedKnown'
    BY <1>1, Frame DEF IInv
  <1> QED
    BY <1>2, <1>3, <1>4, <1>5, <1>6, <1>7, <1>8, <1>9, <1>10, <1>11, <1>12, <1>13, <1>14
       DEF IInv

\* The lazy initialization: an excuse, or an epoch the replica already had.
LEMMA LazyInitStep ==
  ASSUME IInv, TypeOK', NEW i \in Requests, LazyInit(i)
  PROVE  IInv'
  <1> USE DEF kafkaVars, storeVars, taskVars, reqVars
  <1>1. /\ \A j \in Requests : pc'[j] = IF j = i THEN "begin" ELSE pc[j]
        /\ \A s \in Replicas, q \in Partitions :
             slots'[s][q] = IF s = at[i] /\ q = PartOf(i) THEN "ready" ELSE slots[s][q]
        /\ \A q \in Partitions : txn'[q] = IF q = PartOf(i) THEN None ELSE txn[q]
        /\ \A q \in Partitions : current'[q] = IF q = PartOf(i) THEN at[i] ELSE current[q]
        /\ ~Excused' => ~Excused /\ \A q \in Partitions : current'[q] = current[q]
        /\ pc[i] = "init"
        /\ UNCHANGED <<log, data, owned, map, warm, restart_required, replay_targets,
             position, own, gained, todo, at, key, answer>>
    BY Placed DEF IInv, TypeOK, KafkaTypeOK, TaskTypeOK, CallTypeOK, LazyInit,
       init_producer, init_transactions, SetSlot, Goto, Excused
  <1>2. OneHolder'
    BY <1>1, Placed DEF IInv, OneHolder, PartOf, Holding, InTxn
  <1>3. SlotFits'
    BY <1>1, Placed DEF IInv, SlotFits, PartOf, InTxn, OneHolder, Holding
  <1>4. TxnOwned'
    BY <1>1, Placed DEF IInv, TxnOwned, PartOf
  <1>5. TxnOpen'
    BY <1>1, Placed DEF IInv, TxnOpen, PartOf, OneHolder, Holding, InTxn
  <1>6. CommitAsked'
    BY <1>1, Placed DEF IInv, CommitAsked
  <1>7. AnswersAreDurable'
    BY <1>1, Placed DEF IInv, AnswersAreDurable
  <1>8. PreparedQuiet'
    BY <1>1, Placed DEF IInv, PreparedQuiet, SlotFree, PartOf, Holding, InTxn, OneHolder
  <1>9. LateKnown'
    BY <1>1, Placed DEF IInv, LateKnown, Trusted, Excused, SlotFits, PartOf, InTxn
  <1>10. NoAbandonedTxn'
    BY <1>1, Placed DEF IInv, NoAbandonedTxn, Trusted, InTxn, TxnOwned, PartOf, SlotFits
  <1>11. FreshKey'
    BY <1>1, Placed DEF IInv, FreshKey, PartOf, Excused, OneHolder, Holding, InTxn, SlotFits
  <1>12. TxnFresh'
    BY <1>1, Placed DEF IInv, TxnFresh, Excused
  <1>13. AtMostOnceUnlessExcused'
    BY <1>1, Placed DEF IInv, AtMostOnceUnlessExcused, Excused
  <1>14. LogSound' /\ LogComplete' /\ MapTruthful' /\ CallbackShape' /\ WarmReplayed'
           /\ ReplayedKnown'
    BY <1>1, Frame DEF IInv
  <1> QED
    BY <1>2, <1>3, <1>4, <1>5, <1>6, <1>7, <1>8, <1>9, <1>10, <1>11, <1>12, <1>13, <1>14
       DEF IInv

\* The lazy initialization fails, before or after the epoch is taken.
LEMMA LazyInitFailsStep ==
  ASSUME IInv, TypeOK', NEW i \in Requests, LazyInitFails(i)
  PROVE  IInv'
  <1> USE DEF kafkaVars, storeVars, taskVars, reqVars
  <1>1. /\ \A j \in Requests : pc'[j] = IF j = i THEN "error" ELSE pc[j]
        /\ (UNCHANGED <<txn, current, excuses>>) \/ (NewEpoch(at[i], PartOf(i))
             /\ (~Excused' => ~Excused /\ \A q \in Partitions : current'[q] = current[q]))
        /\ pc[i] = "init"
        /\ UNCHANGED <<log, data, owned, map, warm, restart_required, replay_targets,
             position, own, gained, todo, slots, at, key, answer>>
    <2>1.  \A j \in Requests : pc'[j] = IF j = i THEN "error" ELSE pc[j]
      BY Placed DEF IInv, TypeOK, CallTypeOK, LazyInitFails, init_producer,
         init_transactions, Goto
    <2>2.  (UNCHANGED <<txn, current, excuses>>) \/ (NewEpoch(at[i], PartOf(i))
             /\ (~Excused' => ~Excused /\ \A q \in Partitions : current'[q] = current[q]))
      BY LazyEpoch DEF IInv, LazyInitFails
    <2>3.  pc[i] = "init"
      BY DEF LazyInitFails, init_producer, init_transactions, Goto
    <2>4.  UNCHANGED <<log, data, owned, map, warm, restart_required, replay_targets,
             position, own, gained, todo, slots, at, key, answer>>
      BY DEF LazyInitFails, init_producer, init_transactions, Goto
    <2> QED
      BY <2>1, <2>2, <2>3, <2>4
  <1>2. OneHolder'
    BY <1>1, Placed DEF IInv, OneHolder, PartOf, Holding, InTxn
  <1>3. SlotFits'
    BY <1>1, Placed DEF IInv, SlotFits, PartOf, InTxn
  <1>4. TxnOwned'
    BY <1>1, Placed DEF IInv, TxnOwned, PartOf, NewEpoch
  <1>5. TxnOpen'
    BY <1>1, Placed DEF IInv, TxnOpen, PartOf, OneHolder, Holding, InTxn, NewEpoch
  <1>6. CommitAsked'
    BY <1>1, Placed DEF IInv, CommitAsked
  <1>7. AnswersAreDurable'
    BY <1>1, Placed DEF IInv, AnswersAreDurable
  <1>8. PreparedQuiet'
    BY <1>1, Placed DEF IInv, PreparedQuiet, SlotFree, PartOf, Holding, InTxn, NewEpoch
  <1>9. LateKnown'
    <2> SUFFICES ASSUME NEW s \in Replicas, NEW q \in Partitions, Trusted(s, q)', ~Excused',
                        replay_targets'[s][q] # -1, NEW n \in 1..Len(log'[q]),
                          n > replay_targets'[s][q]
                 PROVE  \/ map'[s][key'[log'[q][n]]] # None
                        \/ pc'[log'[q][n]] = "committing" /\ at'[log'[q][n]] = s
      BY DEF LateKnown
    <2>1. Trusted(s, q) /\ ~Excused /\ replay_targets[s][q] # -1
      BY <1>1, Placed DEF IInv, LateKnown, Trusted, Excused, NewEpoch
    <2>2. \/ map[s][key[log[q][n]]] # None
          \/ pc[log[q][n]] = "committing" /\ at[log[q][n]] = s
      BY <1>1, <2>1 DEF IInv, LateKnown
    <2> QED
      BY <1>1, Placed, <2>2 DEF IInv, LateKnown, Trusted, Excused, NewEpoch
  <1>10. NoAbandonedTxn'
    BY <1>1, Placed DEF IInv, NoAbandonedTxn, Trusted, InTxn, TxnOwned, PartOf, NewEpoch
  <1>11. FreshKey'
    BY <1>1, Placed DEF IInv, FreshKey, PartOf, Excused, OneHolder, Holding, InTxn, NewEpoch
  <1>12. TxnFresh'
    BY <1>1, Placed DEF IInv, TxnFresh, Excused, NewEpoch
  <1>13. AtMostOnceUnlessExcused'
    BY <1>1, Placed DEF IInv, AtMostOnceUnlessExcused, Excused
  <1>14. LogSound' /\ LogComplete' /\ MapTruthful' /\ CallbackShape' /\ WarmReplayed'
           /\ ReplayedKnown'
    BY <1>1, Frame DEF IInv
  <1> QED
    BY <1>2, <1>3, <1>4, <1>5, <1>6, <1>7, <1>8, <1>9, <1>10, <1>11, <1>12, <1>13, <1>14
       DEF IInv

\* begin_transaction moves the call only.
LEMMA BeginTransactionStep ==
  ASSUME IInv, TypeOK', NEW i \in Requests, BeginTransaction(i)
  PROVE  IInv'
  <1> USE DEF kafkaVars, storeVars, taskVars, reqVars
  <1>1. /\ \A j \in Requests : pc'[j] = IF j = i THEN "data" ELSE pc[j]
        /\ pc[i] = "begin" /\ slots[at[i]][PartOf(i)] = "ready"
        /\ UNCHANGED <<log, data, txn, current, owned, map, warm, restart_required,
             replay_targets, position, own, gained, todo, slots, at, key, answer, excuses>>
    BY Placed DEF IInv, TypeOK, CallTypeOK, BeginTransaction, Goto, requestOnly
  <1>2. OneHolder'
    BY <1>1, Placed DEF IInv, OneHolder, PartOf, Holding, InTxn
  <1>3. SlotFits'
    BY <1>1, Placed DEF IInv, SlotFits, PartOf, InTxn
  <1>4. TxnOwned'
    BY <1>1, Placed DEF IInv, TxnOwned, PartOf
  <1>5. TxnOpen'
    BY <1>1, Placed DEF IInv, TxnOpen, PartOf
  <1>6. CommitAsked'
    BY <1>1, Placed DEF IInv, CommitAsked
  <1>7. AnswersAreDurable'
    BY <1>1, Placed DEF IInv, AnswersAreDurable
  <1>8. PreparedQuiet'
    BY <1>1, Placed DEF IInv, PreparedQuiet, SlotFree, PartOf, Holding, InTxn
  <1>9. LateKnown'
    <2> SUFFICES ASSUME NEW s \in Replicas, NEW q \in Partitions, Trusted(s, q)', ~Excused',
                        replay_targets'[s][q] # -1, NEW n \in 1..Len(log'[q]),
                          n > replay_targets'[s][q]
                 PROVE  \/ map'[s][key'[log'[q][n]]] # None
                        \/ pc'[log'[q][n]] = "committing" /\ at'[log'[q][n]] = s
      BY DEF LateKnown
    <2>1. Trusted(s, q) /\ ~Excused /\ replay_targets[s][q] # -1
      BY <1>1, Placed DEF IInv, LateKnown, Trusted, Excused
    <2>2. \/ map[s][key[log[q][n]]] # None
          \/ pc[log[q][n]] = "committing" /\ at[log[q][n]] = s
      BY <1>1, <2>1 DEF IInv, LateKnown
    <2> QED
      BY <1>1, Placed, <2>2 DEF IInv, LateKnown, Trusted, Excused
  <1>10. NoAbandonedTxn'
    BY <1>1, Placed DEF IInv, NoAbandonedTxn, Trusted, InTxn
  <1>11. FreshKey'
    BY <1>1, Placed DEF IInv, FreshKey, PartOf, Excused
  <1>12. LogSound' /\ LogComplete' /\ MapTruthful' /\ CallbackShape' /\ WarmReplayed'
           /\ ReplayedKnown' /\ TxnFresh' /\ AtMostOnceUnlessExcused'
    BY <1>1, Frame DEF IInv
  <1> QED
    BY <1>2, <1>3, <1>4, <1>5, <1>6, <1>7, <1>8, <1>9, <1>10, <1>11, <1>12 DEF IInv

\* RecoveryRequired, CommitUncertain and AbortFails: the slot is emptied and the
\* replica, which must restart, is no longer trusted.
LEMMA GiveUpStep ==
  ASSUME IInv, TypeOK', NEW i \in Requests, pc[i] \in {"begin", "committing", "abort"},
         require_restart(at[i]), SetSlot(at[i], PartOf(i), "none"), Goto(i, "error"),
         UNCHANGED <<kafkaVars, owned, map, replay_targets, position, taskVars, at, key,
         answer, excuses>>
  PROVE  IInv'
  <1> USE DEF kafkaVars, storeVars, taskVars, reqVars
  <1>1. /\ \A j \in Requests : pc'[j] = IF j = i THEN "error" ELSE pc[j]
        /\ \A s \in Replicas, q \in Partitions :
             slots'[s][q] = IF s = at[i] /\ q = PartOf(i) THEN "none" ELSE slots[s][q]
        /\ \A s \in Replicas : ~restart_required'[s] => s # at[i] /\ ~restart_required[s]
        /\ \A s \in Replicas : warm'[s] => s # at[i] /\ warm[s]
        /\ pc[i] \in {"begin", "committing", "abort"}
        /\ UNCHANGED <<log, data, txn, current, owned, map, replay_targets, position, own,
             gained, todo, at, key, answer, excuses>>
    BY Placed DEF IInv, TypeOK, StoreTypeOK, TaskTypeOK, CallTypeOK, require_restart,
       SetSlot, Goto
  <1>2. OneHolder'
    BY <1>1, Placed DEF IInv, OneHolder, PartOf, Holding, InTxn
  <1>3. SlotFits'
    BY <1>1, Placed DEF IInv, SlotFits, PartOf, InTxn, OneHolder, Holding
  <1>4. TxnOwned'
    BY <1>1, Placed DEF IInv, TxnOwned, PartOf
  <1>5. TxnOpen'
    BY <1>1, Placed DEF IInv, TxnOpen, PartOf
  <1>6. CommitAsked'
    BY <1>1, Placed DEF IInv, CommitAsked
  <1>7. AnswersAreDurable'
    BY <1>1, Placed DEF IInv, AnswersAreDurable
  <1>8. WarmReplayed'
    BY <1>1, Placed DEF IInv, WarmReplayed
  <1>9. PreparedQuiet'
    BY <1>1, Placed DEF IInv, PreparedQuiet, SlotFree, PartOf, Holding, InTxn
  <1>10. LateKnown'
    <2> SUFFICES ASSUME NEW s \in Replicas, NEW q \in Partitions, Trusted(s, q)', ~Excused',
                        replay_targets'[s][q] # -1, NEW n \in 1..Len(log'[q]),
                          n > replay_targets'[s][q]
                 PROVE  \/ map'[s][key'[log'[q][n]]] # None
                        \/ pc'[log'[q][n]] = "committing" /\ at'[log'[q][n]] = s
      BY DEF LateKnown
    <2>1. Trusted(s, q) /\ ~Excused /\ replay_targets[s][q] # -1
      BY <1>1, Placed DEF IInv, LateKnown, Trusted, Excused
    <2>2. \/ map[s][key[log[q][n]]] # None
          \/ pc[log[q][n]] = "committing" /\ at[log[q][n]] = s
      BY <1>1, <2>1 DEF IInv, LateKnown
    <2> QED
      BY <1>1, Placed, <2>2 DEF IInv, LateKnown, Trusted, Excused
  <1>11. NoAbandonedTxn'
    <2> SUFFICES ASSUME NEW s \in Replicas, NEW q \in Partitions, Trusted(s, q)',
      txn'[q] # None
                 PROVE  pc'[txn'[q].req] \in InTxn
      BY DEF NoAbandonedTxn
    <2>1. Trusted(s, q) /\ txn[q] # None
      BY <1>1, Placed DEF IInv, NoAbandonedTxn, Trusted, InTxn, TxnOwned, PartOf
    <2>2. pc[txn[q].req] \in InTxn
      BY <2>1 DEF IInv, NoAbandonedTxn
    <2> QED
      BY <1>1, Placed, <2>1, <2>2 DEF IInv, NoAbandonedTxn, Trusted, InTxn, TxnOwned, PartOf
  <1>12. FreshKey'
    BY <1>1, Placed DEF IInv, FreshKey, PartOf, Excused, OneHolder, Holding, InTxn
  <1>13. LogSound' /\ LogComplete' /\ MapTruthful' /\ CallbackShape' /\ ReplayedKnown'
           /\ TxnFresh' /\ AtMostOnceUnlessExcused'
    BY <1>1, Frame DEF IInv
  <1> QED
    BY <1>2, <1>3, <1>4, <1>5, <1>6, <1>7, <1>8, <1>9, <1>10, <1>11, <1>12, <1>13 DEF IInv

\* The data record opens the transaction: its key is fresh.
LEMMA SendDataStep ==
  ASSUME IInv, TypeOK', NEW i \in Requests, SendData(i)
  PROVE  IInv'
  <1> USE DEF kafkaVars, storeVars, taskVars, reqVars
  <1>1. /\ \A j \in Requests : pc'[j] = IF j = i THEN "claim" ELSE pc[j]
        /\ \A q \in Partitions : IF q = PartOf(i) THEN txn'[q] # None /\ txn'[q].req = i
             /\ ~txn'[q].claim /\ ~txn'[q].ending ELSE txn'[q] = txn[q]
        /\ pc[i] = "data" /\ current[PartOf(i)] = at[i]
        /\ UNCHANGED <<log, data, current, owned, map, warm, restart_required,
             replay_targets, position, own, gained, todo, slots, at, key, answer, excuses>>
    <2>1.  \A j \in Requests : pc'[j] = IF j = i THEN "claim" ELSE pc[j]
      BY Placed DEF IInv, TypeOK, CallTypeOK, SendData, Goto
    <2>2.  \A q \in Partitions : IF q = PartOf(i) THEN txn'[q] # None /\ txn'[q].req = i
             /\ ~txn'[q].claim /\ ~txn'[q].ending ELSE txn'[q] = txn[q]
      <3>1. txn' = [txn EXCEPT ![PartOf(i)] = [req |-> i, claim |-> FALSE,
              ending |-> FALSE]]
        BY DEF SendData
      <3>2. [req |-> i, claim |-> FALSE, ending |-> FALSE] # None
        BY TxnMade
      <3>3. txn \in [Partitions -> Txns \cup {None}]
        BY DEF IInv, TypeOK, KafkaTypeOK
      <3> QED
        BY <3>1, <3>2, <3>3
    <2>3.  pc[i] = "data" /\ current[PartOf(i)] = at[i]
      BY DEF SendData, Goto
    <2>4.  UNCHANGED <<log, data, current, owned, map, warm, restart_required,
             replay_targets, position, own, gained, todo, slots, at, key, answer, excuses>>
      BY DEF SendData, Goto
    <2> QED
      BY <2>1, <2>2, <2>3, <2>4
  <1>2. OneHolder'
    BY <1>1, Placed DEF IInv, OneHolder, PartOf, Holding, InTxn
  <1>3. SlotFits'
    BY <1>1, Placed DEF IInv, SlotFits, PartOf, InTxn
  <1>4. TxnOwned'
    BY <1>1, Placed DEF IInv, TxnOwned, PartOf, CommitAsked
  <1>5. TxnOpen'
    BY <1>1, Placed DEF IInv, TxnOpen, PartOf, OneHolder, Holding, InTxn
  <1>6. CommitAsked'
    BY <1>1, Placed DEF IInv, CommitAsked
  <1>7. AnswersAreDurable'
    BY <1>1, Placed DEF IInv, AnswersAreDurable
  <1>8. PreparedQuiet'
    BY <1>1, Placed DEF IInv, PreparedQuiet, SlotFree, PartOf, Holding, InTxn, CallbackShape
  <1>9. LateKnown'
    <2> SUFFICES ASSUME NEW s \in Replicas, NEW q \in Partitions, Trusted(s, q)', ~Excused',
                        replay_targets'[s][q] # -1, NEW n \in 1..Len(log'[q]),
                          n > replay_targets'[s][q]
                 PROVE  \/ map'[s][key'[log'[q][n]]] # None
                        \/ pc'[log'[q][n]] = "committing" /\ at'[log'[q][n]] = s
      BY DEF LateKnown
    <2>1. Trusted(s, q) /\ ~Excused /\ replay_targets[s][q] # -1
      BY <1>1, Placed DEF IInv, LateKnown, Trusted, Excused
    <2>2. \/ map[s][key[log[q][n]]] # None
          \/ pc[log[q][n]] = "committing" /\ at[log[q][n]] = s
      BY <1>1, <2>1 DEF IInv, LateKnown
    <2> QED
      BY <1>1, Placed, <2>2 DEF IInv, LateKnown, Trusted, Excused
  <1>10. NoAbandonedTxn'
    BY <1>1, Placed DEF IInv, NoAbandonedTxn, Trusted, InTxn
  <1>11. FreshKey'
    BY <1>1, Placed DEF IInv, FreshKey, PartOf, Excused, OneHolder, Holding, InTxn
  <1>12. TxnFresh'
    BY <1>1, Placed DEF IInv, TxnFresh, Excused, FreshKey, PartOf, SlotFits, InTxn
  <1>13. LogSound' /\ LogComplete' /\ MapTruthful' /\ CallbackShape' /\ WarmReplayed'
           /\ ReplayedKnown' /\ AtMostOnceUnlessExcused'
    BY <1>1, Frame DEF IInv
  <1> QED
    BY <1>2, <1>3, <1>4, <1>5, <1>6, <1>7, <1>8, <1>9, <1>10, <1>11, <1>12, <1>13 DEF IInv

\* The claim joins the transaction.
LEMMA SendClaimStep ==
  ASSUME IInv, TypeOK', NEW i \in Requests, SendClaim(i)
  PROVE  IInv'
  <1> USE DEF kafkaVars, storeVars, taskVars, reqVars
  <1>1. /\ \A j \in Requests : pc'[j] = IF j = i THEN "commit" ELSE pc[j]
        /\ \A q \in Partitions : IF q = PartOf(i) THEN txn'[q] # None /\ txn'[q].req = i
             /\ txn'[q].claim /\ ~txn'[q].ending ELSE txn'[q] = txn[q]
        /\ pc[i] = "claim" /\ current[PartOf(i)] = at[i]
        /\ UNCHANGED <<log, data, current, owned, map, warm, restart_required,
             replay_targets, position, own, gained, todo, slots, at, key, answer, excuses>>
    <2>1.  \A j \in Requests : pc'[j] = IF j = i THEN "commit" ELSE pc[j]
      BY Placed DEF IInv, TypeOK, CallTypeOK, SendClaim, Goto
    <2>2.  \A q \in Partitions : IF q = PartOf(i) THEN txn'[q] # None /\ txn'[q].req = i
             /\ txn'[q].claim /\ ~txn'[q].ending ELSE txn'[q] = txn[q]
      <3>1. txn' = [txn EXCEPT ![PartOf(i)] = [req |-> i, claim |-> TRUE, ending |-> FALSE]]
        BY DEF SendClaim
      <3>2. [req |-> i, claim |-> TRUE, ending |-> FALSE] # None
        BY TxnMade
      <3>3. txn \in [Partitions -> Txns \cup {None}]
        BY DEF IInv, TypeOK, KafkaTypeOK
      <3> QED
        BY <3>1, <3>2, <3>3
    <2>3.  pc[i] = "claim" /\ current[PartOf(i)] = at[i]
      BY DEF SendClaim, Goto
    <2>4.  UNCHANGED <<log, data, current, owned, map, warm, restart_required,
             replay_targets, position, own, gained, todo, slots, at, key, answer, excuses>>
      BY DEF SendClaim, Goto
    <2> QED
      BY <2>1, <2>2, <2>3, <2>4
  <1>2. OneHolder'
    BY <1>1, Placed DEF IInv, OneHolder, PartOf, Holding, InTxn
  <1>3. SlotFits'
    BY <1>1, Placed DEF IInv, SlotFits, PartOf, InTxn
  <1>4. TxnOwned'
    BY <1>1, Placed DEF IInv, TxnOwned, PartOf, CommitAsked
  <1>5. TxnOpen'
    BY <1>1, Placed DEF IInv, TxnOpen, PartOf, OneHolder, Holding, InTxn
  <1>6. CommitAsked'
    BY <1>1, Placed DEF IInv, CommitAsked
  <1>7. AnswersAreDurable'
    BY <1>1, Placed DEF IInv, AnswersAreDurable
  <1>8. PreparedQuiet'
    BY <1>1, Placed DEF IInv, PreparedQuiet, SlotFree, PartOf, Holding, InTxn
  <1>9. LateKnown'
    <2> SUFFICES ASSUME NEW s \in Replicas, NEW q \in Partitions, Trusted(s, q)', ~Excused',
                        replay_targets'[s][q] # -1, NEW n \in 1..Len(log'[q]),
                          n > replay_targets'[s][q]
                 PROVE  \/ map'[s][key'[log'[q][n]]] # None
                        \/ pc'[log'[q][n]] = "committing" /\ at'[log'[q][n]] = s
      BY DEF LateKnown
    <2>1. Trusted(s, q) /\ ~Excused /\ replay_targets[s][q] # -1
      BY <1>1, Placed DEF IInv, LateKnown, Trusted, Excused
    <2>2. \/ map[s][key[log[q][n]]] # None
          \/ pc[log[q][n]] = "committing" /\ at[log[q][n]] = s
      BY <1>1, <2>1 DEF IInv, LateKnown
    <2> QED
      BY <1>1, Placed, <2>2 DEF IInv, LateKnown, Trusted, Excused
  <1>10. NoAbandonedTxn'
    BY <1>1, Placed DEF IInv, NoAbandonedTxn, Trusted, InTxn
  <1>11. FreshKey'
    BY <1>1, Placed DEF IInv, FreshKey, PartOf, Excused, OneHolder, Holding, InTxn
  <1>12. TxnFresh'
    BY <1>1, Placed DEF IInv, TxnFresh, Excused, TxnOpen, PartOf, CommitAsked
  <1>13. LogSound' /\ LogComplete' /\ MapTruthful' /\ CallbackShape' /\ WarmReplayed'
           /\ ReplayedKnown' /\ AtMostOnceUnlessExcused'
    BY <1>1, Frame DEF IInv
  <1> QED
    BY <1>2, <1>3, <1>4, <1>5, <1>6, <1>7, <1>8, <1>9, <1>10, <1>11, <1>12, <1>13 DEF IInv

\* A failed send leaves the transaction open, and its call in it.
LEMMA SendFailsStep ==
  ASSUME IInv, TypeOK', NEW i \in Requests, SendFails(i)
  PROVE  IInv'
  <1> USE DEF kafkaVars, storeVars, taskVars, reqVars
  <1>1. /\ \A j \in Requests : pc'[j] = IF j = i THEN "abort" ELSE pc[j]
        /\ pc[i] \in {"data", "claim"}
        /\ UNCHANGED <<log, data, txn, current, owned, map, warm, restart_required,
             replay_targets, position, own, gained, todo, slots, at, key, answer, excuses>>
    BY Placed DEF IInv, TypeOK, CallTypeOK, SendFails, Goto, AfterSendError
  <1>2. OneHolder'
    BY <1>1, Placed DEF IInv, OneHolder, PartOf, Holding, InTxn
  <1>3. SlotFits'
    BY <1>1, Placed DEF IInv, SlotFits, PartOf, InTxn
  <1>4. TxnOwned'
    BY <1>1, Placed DEF IInv, TxnOwned, PartOf
  <1>5. TxnOpen'
    BY <1>1, Placed DEF IInv, TxnOpen, PartOf
  <1>6. CommitAsked'
    BY <1>1, Placed DEF IInv, CommitAsked
  <1>7. AnswersAreDurable'
    BY <1>1, Placed DEF IInv, AnswersAreDurable
  <1>8. PreparedQuiet'
    BY <1>1, Placed DEF IInv, PreparedQuiet, SlotFree, PartOf, Holding, InTxn
  <1>9. LateKnown'
    BY <1>1, Placed DEF IInv, LateKnown, Trusted, Excused
  <1>10. NoAbandonedTxn'
    BY <1>1, Placed DEF IInv, NoAbandonedTxn, Trusted, InTxn
  <1>11. FreshKey'
    BY <1>1, Placed DEF IInv, FreshKey, PartOf, Excused
  <1>12. LogSound' /\ LogComplete' /\ MapTruthful' /\ CallbackShape' /\ WarmReplayed'
           /\ ReplayedKnown' /\ TxnFresh' /\ AtMostOnceUnlessExcused'
    BY <1>1, Frame DEF IInv
  <1> QED
    BY <1>2, <1>3, <1>4, <1>5, <1>6, <1>7, <1>8, <1>9, <1>10, <1>11, <1>12 DEF IInv

\* EndTxn(commit): the transaction is the call's own, with its claim, or it is fenced.
LEMMA SendCommitStep ==
  ASSUME IInv, TypeOK', NEW i \in Requests, SendCommit(i)
  PROVE  IInv'
  <1> USE DEF kafkaVars, storeVars, taskVars, reqVars
  <1>1. /\ \A j \in Requests : pc'[j] = IF j = i THEN "committing" ELSE pc[j]
        /\ \/ /\ UNCHANGED txn
              /\ current[PartOf(i)] # at[i] \/ txn[PartOf(i)] = None
           \/ /\ current[PartOf(i)] = at[i] /\ txn[PartOf(i)] # None
              /\ \A q \in Partitions : IF q = PartOf(i) THEN txn'[q] # None
                   /\ txn'[q].req = txn[q].req /\ (txn'[q].claim <=> txn[q].claim)
                   /\ txn'[q].ending ELSE txn'[q] = txn[q]
        /\ pc[i] = "commit"
        /\ UNCHANGED <<log, data, current, owned, map, warm, restart_required,
             replay_targets, position, own, gained, todo, slots, at, key, answer, excuses>>
    <2>1.  \A j \in Requests : pc'[j] = IF j = i THEN "committing" ELSE pc[j]
      BY Placed DEF IInv, TypeOK, CallTypeOK, SendCommit, EndTxn, Goto
    <2>2.  \/ /\ UNCHANGED txn
              /\ current[PartOf(i)] # at[i] \/ txn[PartOf(i)] = None
           \/ /\ current[PartOf(i)] = at[i] /\ txn[PartOf(i)] # None
              /\ \A q \in Partitions : IF q = PartOf(i) THEN txn'[q] # None
                   /\ txn'[q].req = txn[q].req /\ (txn'[q].claim <=> txn[q].claim)
                   /\ txn'[q].ending ELSE txn'[q] = txn[q]
      <3> DEFINE t == [req |-> txn[PartOf(i)].req, claim |-> txn[PartOf(i)].claim,
        ending |-> TRUE]
      <3>1. txn' = IF current[PartOf(i)] # at[i] \/ txn[PartOf(i)] = None THEN txn
                   ELSE [txn EXCEPT ![PartOf(i)] = t]
        BY DEF SendCommit, EndTxn
      <3>2. txn \in [Partitions -> Txns \cup {None}] /\ PartOf(i) \in Partitions
        BY Placed DEF IInv, TypeOK, KafkaTypeOK
      <3>3. CASE current[PartOf(i)] # at[i] \/ txn[PartOf(i)] = None
        BY <3>1, <3>3
      <3>4. CASE ~(current[PartOf(i)] # at[i] \/ txn[PartOf(i)] = None)
        <4>1. txn[PartOf(i)].req \in Requests /\ txn[PartOf(i)].claim \in BOOLEAN
          BY <3>2, <3>4 DEF Txns
        <4>2. t # None
          BY <4>1, TxnMade
        <4>3. txn' = [txn EXCEPT ![PartOf(i)] = t]
          BY <3>1, <3>4
        <4> HIDE DEF t
        <4>4. txn'[PartOf(i)] = t /\ \A q \in Partitions : q # PartOf(i) => txn'[q] = txn[q]
          BY <3>2, <4>3
        <4>5. t.req = txn[PartOf(i)].req /\ t.claim = txn[PartOf(i)].claim
                /\ t.ending = TRUE
          BY DEF t
        <4> QED
          BY <3>4, <4>2, <4>4, <4>5
      <3> QED
        BY <3>3, <3>4
    <2>3.  pc[i] = "commit"
      BY DEF SendCommit, EndTxn, Goto
    <2>4.  UNCHANGED <<log, data, current, owned, map, warm, restart_required,
             replay_targets, position, own, gained, todo, slots, at, key, answer, excuses>>
      BY DEF SendCommit, EndTxn, Goto
    <2> QED
      BY <2>1, <2>2, <2>3, <2>4
  <1>2. OneHolder'
    BY <1>1, Placed DEF IInv, OneHolder, PartOf, Holding, InTxn
  <1>3. SlotFits'
    BY <1>1, Placed DEF IInv, SlotFits, PartOf, InTxn
  <1>4. TxnOwned'
    BY <1>1, Placed DEF IInv, TxnOwned, PartOf, TxnOpen, CommitAsked
  <1>5. TxnOpen'
    BY <1>1, Placed DEF IInv, TxnOpen, PartOf, CommitAsked
  <1>6. CommitAsked'
    BY <1>1, Placed DEF IInv, CommitAsked
  <1>7. AnswersAreDurable'
    BY <1>1, Placed DEF IInv, AnswersAreDurable
  <1>8. PreparedQuiet'
    BY <1>1, Placed DEF IInv, PreparedQuiet, SlotFree, PartOf, Holding, InTxn
  <1>9. LateKnown'
    BY <1>1, Placed DEF IInv, LateKnown, Trusted, Excused
  <1>10. NoAbandonedTxn'
    BY <1>1, Placed
       DEF IInv, NoAbandonedTxn, Trusted, InTxn, TxnOpen, PartOf, CommitAsked, TxnOwned
  <1>11. FreshKey'
    BY <1>1, Placed DEF IInv, FreshKey, PartOf, Excused
  <1>12. TxnFresh'
    BY <1>1, Placed DEF IInv, TxnFresh, Excused
  <1>13. LogSound' /\ LogComplete' /\ MapTruthful' /\ CallbackShape' /\ WarmReplayed'
           /\ ReplayedKnown' /\ AtMostOnceUnlessExcused'
    BY <1>1, Frame DEF IInv
  <1> QED
    BY <1>2, <1>3, <1>4, <1>5, <1>6, <1>7, <1>8, <1>9, <1>10, <1>11, <1>12, <1>13 DEF IInv

\* The confirmed claim enters the map.
LEMMA CommitSucceedsStep ==
  ASSUME IInv, TypeOK', NEW i \in Requests, CommitSucceeds(i)
  PROVE  IInv'
  <1> USE DEF kafkaVars, storeVars, taskVars, reqVars
  <1>1. /\ \A j \in Requests : pc'[j] = IF j = i THEN "ok" ELSE pc[j]
        /\ \A s \in Replicas, k \in Keys :
             map'[s][k] = IF s = at[i] /\ k = key[i] THEN i ELSE map[s][k]
        /\ \A j \in Requests : answer'[j] = IF j = i THEN i ELSE answer[j]
        /\ pc[i] = "committing" /\ i \in data /\ i # None
        /\ UNCHANGED <<log, data, txn, current, owned, warm, restart_required,
             replay_targets, position, own, gained, todo, slots, at, key, excuses>>
    <2>1.  \A j \in Requests : pc'[j] = IF j = i THEN "ok" ELSE pc[j]
      BY Placed DEF IInv, TypeOK, CallTypeOK, CommitSucceeds, apply, Goto
    <2>2.  \A s \in Replicas, k \in Keys :
             map'[s][k] = IF s = at[i] /\ k = key[i] THEN i ELSE map[s][k]
      BY Placed DEF IInv, TypeOK, StoreTypeOK, CommitSucceeds, apply, Goto
    <2>3.  \A j \in Requests : answer'[j] = IF j = i THEN i ELSE answer[j]
      BY Placed DEF IInv, TypeOK, CallTypeOK, CommitSucceeds, apply, Goto
    <2>4.  pc[i] = "committing" /\ i \in data /\ i # None
      BY NoneAssumption DEF CommitSucceeds
    <2>5.  UNCHANGED <<log, data, txn, current, owned, warm, restart_required,
             replay_targets, position, own, gained, todo, slots, at, key, excuses>>
      BY DEF CommitSucceeds, apply, Goto
    <2> QED
      BY <2>1, <2>2, <2>3, <2>4, <2>5
  <1>2. OneHolder'
    BY <1>1, Placed DEF IInv, OneHolder, PartOf, Holding, InTxn
  <1>3. SlotFits'
    BY <1>1, Placed DEF IInv, SlotFits, PartOf, InTxn
  <1>4. TxnOwned'
    BY <1>1, Placed DEF IInv, TxnOwned, PartOf
  <1>5. TxnOpen'
    BY <1>1, Placed DEF IInv, TxnOpen, PartOf
  <1>6. CommitAsked'
    BY <1>1, Placed DEF IInv, CommitAsked
  <1>7. MapTruthful'
    BY <1>1, Placed DEF IInv, MapTruthful
  <1>8. AnswersAreDurable'
    BY <1>1, Placed DEF IInv, AnswersAreDurable
  <1>9. PreparedQuiet'
    BY <1>1, Placed DEF IInv, PreparedQuiet, SlotFree, PartOf, Holding, InTxn
  <1>10. ReplayedKnown'
    BY <1>1, Placed DEF IInv, ReplayedKnown
  <1>11. LateKnown'
    <2> SUFFICES ASSUME NEW s \in Replicas, NEW q \in Partitions, Trusted(s, q)', ~Excused',
                        replay_targets'[s][q] # -1, NEW n \in 1..Len(log'[q]),
                          n > replay_targets'[s][q]
                 PROVE  \/ map'[s][key'[log'[q][n]]] # None
                        \/ pc'[log'[q][n]] = "committing" /\ at'[log'[q][n]] = s
      BY DEF LateKnown
    <2>1. Trusted(s, q) /\ ~Excused /\ replay_targets[s][q] # -1
      BY <1>1, Placed DEF IInv, LateKnown, Trusted, Excused
    <2>2. \/ map[s][key[log[q][n]]] # None
          \/ pc[log[q][n]] = "committing" /\ at[log[q][n]] = s
      BY <1>1, <2>1 DEF IInv, LateKnown
    <2> QED
      BY <1>1, Placed, <2>2 DEF IInv, LateKnown, Trusted, Excused
  <1>12. NoAbandonedTxn'
    BY <1>1, Placed DEF IInv, NoAbandonedTxn, Trusted, InTxn, TxnOwned, PartOf
  <1>13. FreshKey'
    BY <1>1, Placed DEF IInv, FreshKey, PartOf, Excused
  <1>14. LogSound' /\ LogComplete' /\ CallbackShape' /\ WarmReplayed' /\ TxnFresh'
           /\ AtMostOnceUnlessExcused'
    BY <1>1, Frame DEF IInv
  <1> QED
    BY <1>2, <1>3, <1>4, <1>5, <1>6, <1>7, <1>8, <1>9, <1>10, <1>11, <1>12, <1>13, <1>14
       DEF IInv

\* A rejected commit: the transaction goes back to the call that aborts it.
LEMMA CommitFailsStep ==
  ASSUME IInv, TypeOK', NEW i \in Requests, CommitFails(i)
  PROVE  IInv'
  <1> USE DEF kafkaVars, storeVars, taskVars, reqVars
  <1>1. /\ \A j \in Requests : pc'[j] = IF j = i THEN "abort" ELSE pc[j]
        /\ \/ /\ UNCHANGED txn
              /\ current[PartOf(i)] # at[i] \/ txn[PartOf(i)] = None
           \/ /\ current[PartOf(i)] = at[i] /\ txn[PartOf(i)] # None
              /\ \A q \in Partitions : IF q = PartOf(i) THEN txn'[q] # None
                   /\ txn'[q].req = txn[q].req /\ (txn'[q].claim <=> txn[q].claim)
                   /\ ~txn'[q].ending ELSE txn'[q] = txn[q]
        /\ pc[i] = "committing" /\ i \notin data
        /\ UNCHANGED <<log, data, current, owned, map, warm, restart_required,
             replay_targets, position, own, gained, todo, slots, at, key, answer, excuses>>
    <2>1.  \A j \in Requests : pc'[j] = IF j = i THEN "abort" ELSE pc[j]
      BY Placed DEF IInv, TypeOK, CallTypeOK, CommitFails, EndTxn, Goto
    <2>2.  \/ /\ UNCHANGED txn
              /\ current[PartOf(i)] # at[i] \/ txn[PartOf(i)] = None
           \/ /\ current[PartOf(i)] = at[i] /\ txn[PartOf(i)] # None
              /\ \A q \in Partitions : IF q = PartOf(i) THEN txn'[q] # None
                   /\ txn'[q].req = txn[q].req /\ (txn'[q].claim <=> txn[q].claim)
                   /\ ~txn'[q].ending ELSE txn'[q] = txn[q]
      <3> DEFINE t == [req |-> txn[PartOf(i)].req, claim |-> txn[PartOf(i)].claim,
        ending |-> FALSE]
      <3>1. txn' = IF current[PartOf(i)] # at[i] \/ txn[PartOf(i)] = None THEN txn
                   ELSE [txn EXCEPT ![PartOf(i)] = t]
        BY DEF CommitFails, EndTxn
      <3>2. txn \in [Partitions -> Txns \cup {None}] /\ PartOf(i) \in Partitions
        BY Placed DEF IInv, TypeOK, KafkaTypeOK
      <3>3. CASE current[PartOf(i)] # at[i] \/ txn[PartOf(i)] = None
        BY <3>1, <3>3
      <3>4. CASE ~(current[PartOf(i)] # at[i] \/ txn[PartOf(i)] = None)
        <4>1. txn[PartOf(i)].req \in Requests /\ txn[PartOf(i)].claim \in BOOLEAN
          BY <3>2, <3>4 DEF Txns
        <4>2. t # None
          BY <4>1, TxnMade
        <4>3. txn' = [txn EXCEPT ![PartOf(i)] = t]
          BY <3>1, <3>4
        <4> HIDE DEF t
        <4>4. txn'[PartOf(i)] = t /\ \A q \in Partitions : q # PartOf(i) => txn'[q] = txn[q]
          BY <3>2, <4>3
        <4>5. t.req = txn[PartOf(i)].req /\ t.claim = txn[PartOf(i)].claim
                /\ t.ending = FALSE
          BY DEF t
        <4> QED
          BY <3>4, <4>2, <4>4, <4>5
      <3> QED
        BY <3>3, <3>4
    <2>3.  pc[i] = "committing" /\ i \notin data
      BY DEF CommitFails, EndTxn, Goto
    <2>4.  UNCHANGED <<log, data, current, owned, map, warm, restart_required,
             replay_targets, position, own, gained, todo, slots, at, key, answer, excuses>>
      BY DEF CommitFails, EndTxn, Goto
    <2> QED
      BY <2>1, <2>2, <2>3, <2>4
  <1>2. OneHolder'
    BY <1>1, Placed DEF IInv, OneHolder, PartOf, Holding, InTxn
  <1>3. SlotFits'
    BY <1>1, Placed DEF IInv, SlotFits, PartOf, InTxn
  <1>4. TxnOwned'
    BY <1>1, Placed DEF IInv, TxnOwned, PartOf, TxnOpen
  <1>5. TxnOpen'
    BY <1>1, Placed DEF IInv, TxnOpen, PartOf
  <1>6. CommitAsked'
    BY <1>1, Placed DEF IInv, CommitAsked
  <1>7. AnswersAreDurable'
    BY <1>1, Placed DEF IInv, AnswersAreDurable
  <1>8. PreparedQuiet'
    BY <1>1, Placed DEF IInv, PreparedQuiet, SlotFree, PartOf, Holding, InTxn
  <1>9. LateKnown'
    BY <1>1, Placed DEF IInv, LateKnown, Trusted, Excused, LogSound, PartOf
  <1>10. NoAbandonedTxn'
    BY <1>1, Placed DEF IInv, NoAbandonedTxn, Trusted, InTxn, TxnOpen, PartOf, TxnOwned
  <1>11. FreshKey'
    BY <1>1, Placed DEF IInv, FreshKey, PartOf, Excused
  <1>12. TxnFresh'
    BY <1>1, Placed DEF IInv, TxnFresh, Excused
  <1>13. LogSound' /\ LogComplete' /\ MapTruthful' /\ CallbackShape' /\ WarmReplayed'
           /\ ReplayedKnown' /\ AtMostOnceUnlessExcused'
    BY <1>1, Frame DEF IInv
  <1> QED
    BY <1>2, <1>3, <1>4, <1>5, <1>6, <1>7, <1>8, <1>9, <1>10, <1>11, <1>12, <1>13 DEF IInv

\* A confirmed abort leaves neither a transaction nor a producer.
LEMMA AbortConfirmedStep ==
  ASSUME IInv, TypeOK', NEW i \in Requests, AbortConfirmed(i)
  PROVE  IInv'
  <1> USE DEF kafkaVars, storeVars, taskVars, reqVars
  <1>1. /\ \A j \in Requests : pc'[j] = IF j = i THEN "error" ELSE pc[j]
        /\ \A s \in Replicas, q \in Partitions :
             slots'[s][q] = IF s = at[i] /\ q = PartOf(i) THEN "none" ELSE slots[s][q]
        /\ \A q \in Partitions : txn'[q] = IF q = PartOf(i) THEN None ELSE txn[q]
        /\ pc[i] = "abort" /\ current[PartOf(i)] = at[i]
        /\ UNCHANGED <<log, data, current, owned, map, warm, restart_required,
             replay_targets, position, own, gained, todo, at, key, answer, excuses>>
    BY Placed DEF IInv, TypeOK, KafkaTypeOK, TaskTypeOK, CallTypeOK, AbortConfirmed,
       SetSlot, Goto
  <1>2. OneHolder'
    BY <1>1, Placed DEF IInv, OneHolder, PartOf, Holding, InTxn
  <1>3. SlotFits'
    BY <1>1, Placed DEF IInv, SlotFits, PartOf, InTxn, OneHolder, Holding
  <1>4. TxnOwned'
    BY <1>1, Placed DEF IInv, TxnOwned, PartOf
  <1>5. TxnOpen'
    BY <1>1, Placed DEF IInv, TxnOpen, PartOf, OneHolder, Holding, InTxn
  <1>6. CommitAsked'
    BY <1>1, Placed DEF IInv, CommitAsked
  <1>7. AnswersAreDurable'
    BY <1>1, Placed DEF IInv, AnswersAreDurable
  <1>8. PreparedQuiet'
    BY <1>1, Placed DEF IInv, PreparedQuiet, SlotFree, PartOf, Holding, InTxn
  <1>9. LateKnown'
    BY <1>1, Placed DEF IInv, LateKnown, Trusted, Excused, SlotFits, PartOf, InTxn
  <1>10. NoAbandonedTxn'
    BY <1>1, Placed DEF IInv, NoAbandonedTxn, Trusted, InTxn, TxnOwned, PartOf, SlotFits
  <1>11. FreshKey'
    BY <1>1, Placed DEF IInv, FreshKey, PartOf, Excused, OneHolder, Holding, InTxn, SlotFits
  <1>12. TxnFresh'
    BY <1>1, Placed DEF IInv, TxnFresh, Excused
  <1>13. LogSound' /\ LogComplete' /\ MapTruthful' /\ CallbackShape' /\ WarmReplayed'
           /\ ReplayedKnown' /\ AtMostOnceUnlessExcused'
    BY <1>1, Frame DEF IInv
  <1> QED
    BY <1>2, <1>3, <1>4, <1>5, <1>6, <1>7, <1>8, <1>9, <1>10, <1>11, <1>12, <1>13 DEF IInv

\* A dropped call: its open transaction poisons the slot, which is no longer trusted.
LEMMA CancelStep ==
  ASSUME IInv, TypeOK', NEW i \in Requests, Cancel(i)
  PROVE  IInv'
  <1> USE DEF kafkaVars, storeVars, taskVars, reqVars
  <1>1. /\ \A j \in Requests : pc'[j] = IF j = i THEN "cancelled" ELSE pc[j]
        /\ \A s \in Replicas, q \in Partitions : slots'[s][q] = IF s = at[i]
             /\ q = PartOf(i) THEN IF pc[i] \in InTxn THEN "recovery" ELSE slots[s][q]
             ELSE slots[s][q]
        /\ (UNCHANGED <<txn, current, excuses>>) \/ (pc[i] = "init" /\ (NewEpoch(at[i],
             PartOf(i)) /\ (~Excused' => ~Excused /\ \A q \in Partitions :
             current'[q] = current[q])))
        /\ pc[i] = "lock" \/ pc[i] \in Holding
        /\ UNCHANGED <<log, data, owned, map, warm, restart_required, replay_targets,
             position, own, gained, todo, at, key, answer>>
    <2>1.  \A j \in Requests : pc'[j] = IF j = i THEN "cancelled" ELSE pc[j]
      BY Placed DEF IInv, TypeOK, CallTypeOK, Cancel, init_producer, init_transactions,
         SetSlot, Goto, Holding, InTxn
    <2>2.  \A s \in Replicas, q \in Partitions : slots'[s][q] = IF s = at[i]
             /\ q = PartOf(i) THEN IF pc[i] \in InTxn THEN "recovery" ELSE slots[s][q]
             ELSE slots[s][q]
      BY Placed DEF IInv, TypeOK, TaskTypeOK, Cancel, init_producer, init_transactions,
         SetSlot, Goto, Holding, InTxn
    <2>3.  (UNCHANGED <<txn, current, excuses>>) \/ (pc[i] = "init" /\ (NewEpoch(at[i],
             PartOf(i)) /\ (~Excused' => ~Excused /\ \A q \in Partitions :
             current'[q] = current[q])))
      BY LazyEpoch DEF IInv, Cancel
    <2>4.  pc[i] = "lock" \/ pc[i] \in Holding
      BY DEF Cancel, init_producer, init_transactions, SetSlot, Goto, Holding, InTxn
    <2>5.  UNCHANGED <<log, data, owned, map, warm, restart_required, replay_targets,
             position, own, gained, todo, at, key, answer>>
      BY DEF Cancel, init_producer, init_transactions, SetSlot, Goto, Holding, InTxn
    <2> QED
      BY <2>1, <2>2, <2>3, <2>4, <2>5
  <1>2. OneHolder'
    BY <1>1, Placed DEF IInv, OneHolder, PartOf, Holding, InTxn
  <1>3. SlotFits'
    BY <1>1, Placed DEF IInv, SlotFits, PartOf, InTxn, OneHolder, Holding
  <1>4. TxnOwned'
    BY <1>1, Placed DEF IInv, TxnOwned, PartOf, Holding, InTxn, NewEpoch
  <1>5. TxnOpen'
    BY <1>1, Placed DEF IInv, TxnOpen, PartOf, OneHolder, Holding, InTxn, NewEpoch
  <1>6. CommitAsked'
    BY <1>1, Placed DEF IInv, CommitAsked, Holding, InTxn
  <1>7. AnswersAreDurable'
    BY <1>1, Placed DEF IInv, AnswersAreDurable, Holding, InTxn
  <1>8. PreparedQuiet'
    BY <1>1, Placed DEF IInv, PreparedQuiet, SlotFree, PartOf, Holding, InTxn, NewEpoch
  <1>9. LateKnown'
    BY <1>1, Placed
       DEF IInv, LateKnown, Trusted, Excused, LogSound, PartOf, Holding, InTxn, NewEpoch
  <1>10. NoAbandonedTxn'
    BY <1>1, Placed
       DEF IInv, NoAbandonedTxn, Trusted, InTxn, TxnOwned, PartOf, Holding, NewEpoch
  <1>11. FreshKey'
    BY <1>1, Placed DEF IInv, FreshKey, PartOf, Excused, OneHolder, Holding, InTxn, NewEpoch
  <1>12. TxnFresh'
    BY <1>1, Placed DEF IInv, TxnFresh, Excused, Holding, InTxn, NewEpoch
  <1>13. AtMostOnceUnlessExcused'
    BY <1>1, Placed DEF IInv, AtMostOnceUnlessExcused, Excused, Holding, InTxn
  <1>14. LogSound' /\ LogComplete' /\ MapTruthful' /\ CallbackShape' /\ WarmReplayed'
           /\ ReplayedKnown'
    BY <1>1, Frame DEF IInv
  <1> QED
    BY <1>2, <1>3, <1>4, <1>5, <1>6, <1>7, <1>8, <1>9, <1>10, <1>11, <1>12, <1>13, <1>14
       DEF IInv

\* Partitions are given up: their claims leave the map with them.
LEMMA on_partitions_revokedStep ==
  ASSUME IInv, TypeOK', NEW r \in Replicas, NEW S \in SUBSET Partitions,
         on_partitions_revoked(r, S)
  PROVE  IInv'
  <1> USE DEF kafkaVars, storeVars, taskVars, reqVars
  <1>1. /\ \A s \in Replicas : owned'[s] = IF s = r THEN owned[r] \ S ELSE owned[s]
        /\ \A s \in Replicas, q \in Partitions :
             replay_targets'[s][q] = IF s = r THEN -1 ELSE replay_targets[s][q]
        /\ \A s \in Replicas : warm'[s] => s # r /\ warm[s]
        /\ \A s \in Replicas : own'[s] = IF s = r THEN "releasing" ELSE own[s]
        /\ \A s \in Replicas : todo'[s] = IF s = r THEN S ELSE todo[s]
        /\ \A s \in Replicas, k \in Keys : map'[s][k] = IF s = r
             /\ partition_for[k] \in owned[r] \cap S THEN None ELSE map[s][k]
        /\ own[r] = "poll"
        /\ UNCHANGED <<log, data, txn, current, restart_required, position, gained, slots,
             at, key, pc, answer, excuses>>
    BY Placed DEF IInv, TypeOK, StoreTypeOK, TaskTypeOK, on_partitions_revoked,
       update_assignment
  <1>2. MapTruthful'
    BY <1>1, Placed DEF IInv, MapTruthful
  <1>3. CallbackShape'
    BY <1>1, Placed DEF IInv, CallbackShape
  <1>4. WarmReplayed'
    BY <1>1, Placed DEF IInv, WarmReplayed
  <1>5. PreparedQuiet'
    BY <1>1, Placed DEF IInv, PreparedQuiet, SlotFree, PartOf, Holding, InTxn
  <1>6. ReplayedKnown'
    BY <1>1, Placed DEF IInv, ReplayedKnown, LogSound, PartOf
  <1>7. LateKnown'
    BY <1>1, Placed DEF IInv, LateKnown, Trusted, Excused, LogSound, PartOf
  <1>8. NoAbandonedTxn'
    BY <1>1, Placed DEF IInv, NoAbandonedTxn, Trusted, InTxn
  <1>9. OneHolder' /\ SlotFits' /\ TxnOwned' /\ TxnOpen' /\ CommitAsked' /\ LogSound'
          /\ LogComplete' /\ AnswersAreDurable' /\ FreshKey' /\ TxnFresh'
          /\ AtMostOnceUnlessExcused'
    BY <1>1, Frame DEF IInv
  <1> QED
    BY <1>2, <1>3, <1>4, <1>5, <1>6, <1>7, <1>8, <1>9 DEF IInv

\* A slot is emptied once its call is done.
LEMMA release_partitionsStep ==
  ASSUME IInv, TypeOK', NEW r \in Replicas, NEW p \in Partitions, release_partitions(r, p)
  PROVE  IInv'
  <1> USE DEF kafkaVars, storeVars, taskVars, reqVars
  <1>1. /\ \A s \in Replicas, q \in Partitions :
             slots'[s][q] = IF s = r /\ q = p THEN "none" ELSE slots[s][q]
        /\ \A s \in Replicas : todo'[s] = IF s = r THEN todo[r] \ {p} ELSE todo[s]
        /\ own[r] = "releasing" /\ p \in todo[r] /\ SlotFree(r, p)
        /\ UNCHANGED <<log, data, txn, current, owned, map, warm, restart_required,
             replay_targets, position, own, gained, at, key, pc, answer, excuses>>
    BY Placed DEF IInv, TypeOK, TaskTypeOK, release_partitions, SetSlot
  <1>2. SlotFits'
    BY <1>1, Placed DEF IInv, SlotFits, PartOf, InTxn, SlotFree, Holding
  <1>3. CallbackShape'
    BY <1>1, Placed DEF IInv, CallbackShape
  <1>4. PreparedQuiet'
    BY <1>1, Placed DEF IInv, PreparedQuiet, SlotFree, PartOf, Holding, InTxn
  <1>5. LateKnown'
    BY <1>1, Placed DEF IInv, LateKnown, Trusted, Excused, CallbackShape
  <1>6. NoAbandonedTxn'
    BY <1>1, Placed DEF IInv, NoAbandonedTxn, Trusted, InTxn, CallbackShape
  <1>7. FreshKey'
    BY <1>1, Placed DEF IInv, FreshKey, PartOf, Excused, SlotFree, Holding, InTxn
  <1>8. OneHolder' /\ TxnOwned' /\ TxnOpen' /\ CommitAsked' /\ LogSound' /\ LogComplete'
          /\ MapTruthful' /\ AnswersAreDurable' /\ WarmReplayed' /\ ReplayedKnown'
          /\ TxnFresh' /\ AtMostOnceUnlessExcused'
    BY <1>1, Frame DEF IInv
  <1> QED
    BY <1>2, <1>3, <1>4, <1>5, <1>6, <1>7, <1>8 DEF IInv

\* The revocation callback returns.
LEMMA RevokeDoneStep ==
  ASSUME IInv, TypeOK', NEW r \in Replicas, RevokeDone(r)
  PROVE  IInv'
  <1> USE DEF kafkaVars, storeVars, taskVars, reqVars
  <1>1. /\ \A s \in Replicas : own'[s] = IF s = r THEN "poll" ELSE own[s]
        /\ own[r] = "releasing"
        /\ UNCHANGED <<log, data, txn, current, owned, map, warm, restart_required,
             replay_targets, position, gained, todo, slots, at, key, pc, answer, excuses>>
    BY Placed DEF IInv, TypeOK, TaskTypeOK, RevokeDone
  <1>2. CallbackShape'
    BY <1>1, Placed DEF IInv, CallbackShape
  <1>3. WarmReplayed'
    BY <1>1, Placed DEF IInv, WarmReplayed
  <1>4. PreparedQuiet'
    BY <1>1, Placed DEF IInv, PreparedQuiet, SlotFree, PartOf, Holding, InTxn
  <1>5. OneHolder' /\ SlotFits' /\ TxnOwned' /\ TxnOpen' /\ CommitAsked' /\ LogSound'
          /\ LogComplete' /\ MapTruthful' /\ AnswersAreDurable' /\ ReplayedKnown'
          /\ LateKnown' /\ NoAbandonedTxn' /\ FreshKey' /\ TxnFresh'
          /\ AtMostOnceUnlessExcused'
    BY <1>1, Frame DEF IInv
  <1> QED
    BY <1>2, <1>3, <1>4, <1>5 DEF IInv

\* Partitions are gained: none of them is owned yet.
LEMMA on_partitions_assignedStep ==
  ASSUME IInv, TypeOK', NEW r \in Replicas, NEW S \in SUBSET Partitions,
         on_partitions_assigned(r, S)
  PROVE  IInv'
  <1> USE DEF kafkaVars, storeVars, taskVars, reqVars
  <1>1. /\ \A s \in Replicas : warm'[s] => s # r /\ warm[s]
        /\ \A s \in Replicas : own'[s] = IF s = r THEN "preparing" ELSE own[s]
        /\ \A s \in Replicas : gained'[s] = IF s = r THEN S ELSE gained[s]
        /\ \A s \in Replicas : todo'[s] = IF s = r THEN S ELSE todo[s]
        /\ own[r] = "poll" /\ S \cap owned[r] = {}
        /\ UNCHANGED <<log, data, txn, current, owned, map, restart_required,
             replay_targets, position, slots, at, key, pc, answer, excuses>>
    <2>1.  \A s \in Replicas : warm'[s] => s # r /\ warm[s]
      BY Placed DEF IInv, TypeOK, StoreTypeOK, on_partitions_assigned, Lost
    <2>2.  \A s \in Replicas : own'[s] = IF s = r THEN "preparing" ELSE own[s]
      BY Placed DEF IInv, TypeOK, TaskTypeOK, on_partitions_assigned, Lost
    <2>3.  \A s \in Replicas : gained'[s] = IF s = r THEN S ELSE gained[s]
      BY Placed DEF IInv, TypeOK, TaskTypeOK, on_partitions_assigned, Lost
    <2>4.  \A s \in Replicas : todo'[s] = IF s = r THEN S ELSE todo[s]
      BY Placed DEF IInv, TypeOK, TaskTypeOK, on_partitions_assigned, Lost
    <2>5.  own[r] = "poll" /\ S \cap owned[r] = {}
      <3>1. \A p \in S : coord[p] = None
        BY DEF on_partitions_assigned
      <3>2. \A p \in owned[r] : coord[p] = r
        BY DEF on_partitions_assigned, Lost
      <3> QED
        BY <3>1, <3>2, NoneAssumption DEF on_partitions_assigned
    <2>6.  UNCHANGED <<log, data, txn, current, owned, map, restart_required,
             replay_targets, position, slots, at, key, pc, answer, excuses>>
      BY DEF on_partitions_assigned, Lost
    <2> QED
      BY <2>1, <2>2, <2>3, <2>4, <2>5, <2>6
  <1>2. CallbackShape'
    BY <1>1, Placed DEF IInv, CallbackShape
  <1>3. WarmReplayed'
    BY <1>1, Placed DEF IInv, WarmReplayed
  <1>4. PreparedQuiet'
    BY <1>1, Placed DEF IInv, PreparedQuiet, SlotFree, PartOf, Holding, InTxn
  <1>5. OneHolder' /\ SlotFits' /\ TxnOwned' /\ TxnOpen' /\ CommitAsked' /\ LogSound'
          /\ LogComplete' /\ MapTruthful' /\ AnswersAreDurable' /\ ReplayedKnown'
          /\ LateKnown' /\ NoAbandonedTxn' /\ FreshKey' /\ TxnFresh'
          /\ AtMostOnceUnlessExcused'
    BY <1>1, Frame DEF IInv
  <1> QED
    BY <1>2, <1>3, <1>4, <1>5 DEF IInv

\* A gained partition is fenced off: no transaction survives.
LEMMA prepare_partitionsStep ==
  ASSUME IInv, TypeOK', NEW r \in Replicas, NEW p \in Partitions, prepare_partitions(r, p)
  PROVE  IInv'
  <1> USE DEF kafkaVars, storeVars, taskVars, reqVars
  <1>1. /\ \A s \in Replicas, q \in Partitions :
             slots'[s][q] = IF s = r /\ q = p THEN "ready" ELSE slots[s][q]
        /\ \A q \in Partitions : txn'[q] = IF q = p THEN None ELSE txn[q]
        /\ \A q \in Partitions : current'[q] = IF q = p THEN r ELSE current[q]
        /\ \A s \in Replicas : todo'[s] = IF s = r THEN todo[r] \ {p} ELSE todo[s]
        /\ own[r] = "preparing" /\ p \in todo[r] /\ SlotFree(r, p)
        /\ UNCHANGED <<log, data, owned, map, warm, restart_required, replay_targets,
             position, own, gained, at, key, pc, answer, excuses>>
    BY Placed DEF IInv, TypeOK, KafkaTypeOK, TaskTypeOK, prepare_partitions,
       init_transactions, SetSlot
  <1>2. SlotFits'
    BY <1>1, Placed DEF IInv, SlotFits, PartOf, InTxn, SlotFree, Holding
  <1>3. TxnOwned'
    BY <1>1, Placed DEF IInv, TxnOwned, PartOf
  <1>4. TxnOpen'
    BY <1>1, Placed DEF IInv, TxnOpen, PartOf, SlotFree, Holding, InTxn
  <1>5. CallbackShape'
    BY <1>1, Placed DEF IInv, CallbackShape
  <1>6. PreparedQuiet'
    BY <1>1, Placed DEF IInv, PreparedQuiet, SlotFree, PartOf, Holding, InTxn
  <1>7. LateKnown'
    BY <1>1, Placed DEF IInv, LateKnown, Trusted, Excused, CallbackShape
  <1>8. NoAbandonedTxn'
    BY <1>1, Placed DEF IInv, NoAbandonedTxn, Trusted, InTxn
  <1>9. FreshKey'
    BY <1>1, Placed DEF IInv, FreshKey, PartOf, Excused, SlotFree, Holding, InTxn
  <1>10. TxnFresh'
    BY <1>1, Placed DEF IInv, TxnFresh, Excused
  <1>11. OneHolder' /\ CommitAsked' /\ LogSound' /\ LogComplete' /\ MapTruthful'
           /\ AnswersAreDurable' /\ WarmReplayed' /\ ReplayedKnown'
           /\ AtMostOnceUnlessExcused'
    BY <1>1, Frame DEF IInv
  <1> QED
    BY <1>2, <1>3, <1>4, <1>5, <1>6, <1>7, <1>8, <1>9, <1>10, <1>11 DEF IInv

\* The ends are captured and the partitions adopted: no claim lies beyond the end.
LEMMA CaptureEndsStep ==
  ASSUME IInv, TypeOK', NEW r \in Replicas, CaptureEnds(r)
  PROVE  IInv'
  <1> USE DEF kafkaVars, storeVars, taskVars, reqVars
  <1>1. /\ \A s \in Replicas :
             owned'[s] = IF s = r THEN owned[r] \cup gained[r] ELSE owned[s]
        /\ \A s \in Replicas : warm'[s] => s # r /\ warm[s]
        /\ \A s \in Replicas : own'[s] = IF s = r THEN "poll" ELSE own[s]
        /\ \A s \in Replicas : gained'[s] = IF s = r THEN {} ELSE gained[s]
        /\ \A s \in Replicas, q \in Partitions :
             position'[s][q] = IF s = r /\ q \in gained[r] THEN 0 ELSE position[s][q]
        /\ \A s \in Replicas, q \in Partitions : replay_targets'[s][q] = IF s = r
             THEN (IF q \in owned[r] \cup gained[r] THEN Len(log[q]) ELSE -1)
             ELSE replay_targets[s][q]
        /\ map' = map
        /\ own[r] = "preparing" /\ todo[r] = {}
        /\ UNCHANGED <<log, data, txn, current, restart_required, todo, slots, at, key, pc,
             answer, excuses>>
    BY Placed DEF IInv, TypeOK, StoreTypeOK, TaskTypeOK, CaptureEnds, update_assignment
  <1>2. CallbackShape'
    BY <1>1, Placed DEF IInv, CallbackShape
  <1>3. WarmReplayed'
    BY <1>1, Placed DEF IInv, WarmReplayed
  <1>4. PreparedQuiet'
    BY <1>1, Placed DEF IInv, PreparedQuiet, SlotFree, PartOf, Holding, InTxn
  <1>5. ReplayedKnown'
    BY <1>1, Placed DEF IInv, ReplayedKnown
  <1>6. LateKnown'
    BY <1>1, Placed DEF IInv, LateKnown, Trusted, Excused
  <1>7. NoAbandonedTxn'
    BY <1>1, Placed
       DEF IInv, NoAbandonedTxn, Trusted, InTxn, PreparedQuiet, SlotFree, PartOf, Holding
  <1>8. OneHolder' /\ SlotFits' /\ TxnOwned' /\ TxnOpen' /\ CommitAsked' /\ LogSound'
          /\ LogComplete' /\ MapTruthful' /\ AnswersAreDurable' /\ FreshKey' /\ TxnFresh'
          /\ AtMostOnceUnlessExcused'
    BY <1>1, Frame DEF IInv
  <1> QED
    BY <1>2, <1>3, <1>4, <1>5, <1>6, <1>7, <1>8 DEF IInv

\* The warm gate opens on a replay that has reached the captured ends.
LEMMA PollEmptyStep ==
  ASSUME IInv, TypeOK', NEW r \in Replicas, PollEmpty(r)
  PROVE  IInv'
  <1> USE DEF kafkaVars, storeVars, taskVars, reqVars
  <1>1. /\ \A s \in Replicas :
             warm'[s] = warm[s] \/ (s = r /\ warm'[s] /\ replay_complete(r))
        /\ own[r] = "poll"
        /\ UNCHANGED <<log, data, txn, current, owned, map, restart_required,
             replay_targets, position, own, gained, todo, slots, at, key, pc, answer,
             excuses>>
    BY Placed DEF IInv, TypeOK, StoreTypeOK, PollEmpty, WarmGate
  <1>2. WarmReplayed'
    BY <1>1, Placed DEF IInv, WarmReplayed, replay_complete
  <1>3. OneHolder' /\ SlotFits' /\ TxnOwned' /\ TxnOpen' /\ CommitAsked' /\ LogSound'
          /\ LogComplete' /\ MapTruthful' /\ AnswersAreDurable' /\ CallbackShape'
          /\ PreparedQuiet' /\ ReplayedKnown' /\ LateKnown' /\ NoAbandonedTxn' /\ FreshKey'
          /\ TxnFresh' /\ AtMostOnceUnlessExcused'
    BY <1>1, Frame DEF IInv
  <1> QED
    BY <1>2, <1>3 DEF IInv

\* Replay reads one more claim into the map.
LEMMA PollClaimStep ==
  ASSUME IInv, TypeOK', NEW r \in Replicas, NEW p \in Partitions, PollClaim(r, p)
  PROVE  IInv'
  <1> USE DEF kafkaVars, storeVars, taskVars, reqVars
  <1>1. /\ \A s \in Replicas, q \in Partitions : position'[s][q] = IF s = r /\ q = p
             THEN position[s][q] + 1 ELSE position[s][q]
        /\ \A s \in Replicas, k \in Keys : map'[s][k] = IF s = r
             /\ k = key[log[p][position[r][p] + 1]] THEN log[p][position[r][p] + 1]
             ELSE map[s][k]
        /\ own[r] = "poll" /\ p \in owned[r] /\ position[r][p] + 1 \in 1..Len(log[p])
        /\ log[p][position[r][p] + 1] \in Requests /\ log[p][position[r][p] + 1] # None
        /\ \A s \in Replicas, q \in Partitions :
             position[s][q] \in Nat /\ replay_targets[s][q] \in Int
        /\ UNCHANGED <<log, data, txn, current, owned, warm, restart_required,
             replay_targets, own, gained, todo, slots, at, key, pc, answer, excuses>>
    <2>1.  \A s \in Replicas, q \in Partitions : position'[s][q] = IF s = r /\ q = p
             THEN position[s][q] + 1 ELSE position[s][q]
      BY DEF IInv, TypeOK, StoreTypeOK, PollClaim
    <2>2.  \A s \in Replicas, k \in Keys : map'[s][k] = IF s = r
             /\ k = key[log[p][position[r][p] + 1]] THEN log[p][position[r][p] + 1]
             ELSE map[s][k]
      <3>1. key[log[p][position[r][p] + 1]] \in Keys
        BY Placed DEF IInv, TypeOK, StoreTypeOK, PollClaim
      <3> QED
        BY <3>1 DEF IInv, TypeOK, StoreTypeOK, PollClaim, apply
    <2>3.  own[r] = "poll" /\ p \in owned[r] /\ position[r][p] + 1 \in 1..Len(log[p])
      BY DEF IInv, TypeOK, StoreTypeOK, KafkaTypeOK, PollClaim
    <2>4.  log[p][position[r][p] + 1] \in Requests /\ log[p][position[r][p] + 1] # None
      BY <2>3, Placed, NoneAssumption DEF IInv
    <2>5.  \A s \in Replicas, q \in Partitions :
             position[s][q] \in Nat /\ replay_targets[s][q] \in Int
      BY DEF IInv, TypeOK, StoreTypeOK
    <2>6.  UNCHANGED <<log, data, txn, current, owned, warm, restart_required,
             replay_targets, own, gained, todo, slots, at, key, pc, answer, excuses>>
      BY DEF PollClaim, apply
    <2> QED
      BY <2>1, <2>2, <2>3, <2>4, <2>5, <2>6
  <1>2. MapTruthful'
    BY <1>1, Placed DEF IInv, MapTruthful, LogSound, PartOf
  <1>3. WarmReplayed'
    <2>1. \A s \in Replicas, q \in Partitions :
            position'[s][q] >= position[s][q] /\ position'[s][q] \in Nat
      BY <1>1
    <2> QED
      BY <1>1, <2>1 DEF IInv, WarmReplayed
  <1>4. ReplayedKnown'
    <2> SUFFICES ASSUME NEW s \in Replicas, NEW q \in Partitions
                 PROVE  /\ position'[s][q] <= Len(log[q])
                        /\ q \in owned[s] => \A n \in 1..Len(log[q]) :
                             n <= position'[s][q] => map'[s][key[log[q][n]]] # None
      BY <1>1 DEF ReplayedKnown
    <2>1. position'[s][q] <= Len(log[q])
      BY <1>1, Lengths DEF IInv, ReplayedKnown
    <2>2. ASSUME q \in owned[s], NEW n \in 1..Len(log[q]), n <= position'[s][q]
          PROVE  map'[s][key[log[q][n]]] # None
      <3>1. CASE n <= position[s][q]
        <4>1. map[s][key[log[q][n]]] # None
          BY <2>2, <3>1 DEF IInv, ReplayedKnown
        <4> QED
          BY <1>1, Placed, <4>1 DEF IInv
      <3>2. CASE s = r /\ q = p /\ n = position[r][p] + 1
        BY <1>1, Placed, <3>2 DEF IInv
      <3> QED
        BY <1>1, <2>2, <3>1, <3>2, Lengths DEF IInv
    <2> QED
      BY <2>1, <2>2
  <1>5. LateKnown'
    <2> SUFFICES ASSUME NEW s \in Replicas, NEW q \in Partitions, Trusted(s, q)', ~Excused',
                        replay_targets'[s][q] # -1, NEW n \in 1..Len(log'[q]),
                          n > replay_targets'[s][q]
                 PROVE  \/ map'[s][key'[log'[q][n]]] # None
                        \/ pc'[log'[q][n]] = "committing" /\ at'[log'[q][n]] = s
      BY DEF LateKnown
    <2>1. Trusted(s, q) /\ ~Excused /\ replay_targets[s][q] # -1
      BY <1>1, Placed DEF IInv, LateKnown, Trusted, Excused
    <2>2. \/ map[s][key[log[q][n]]] # None
          \/ pc[log[q][n]] = "committing" /\ at[log[q][n]] = s
      BY <1>1, <2>1 DEF IInv, LateKnown
    <2> QED
      BY <1>1, Placed, <2>2 DEF IInv, LateKnown, Trusted, Excused
  <1>6. OneHolder' /\ SlotFits' /\ TxnOwned' /\ TxnOpen' /\ CommitAsked' /\ LogSound'
          /\ LogComplete' /\ AnswersAreDurable' /\ CallbackShape' /\ PreparedQuiet'
          /\ NoAbandonedTxn' /\ FreshKey' /\ TxnFresh' /\ AtMostOnceUnlessExcused'
    BY <1>1, Frame DEF IInv
  <1> QED
    BY <1>2, <1>3, <1>4, <1>5, <1>6 DEF IInv

\* ProcessEnds and Crash: the calls of the process are gone; a transaction they
\* leave behind belongs to a replica that owns nothing.
LEMMA GoDownStep ==
  ASSUME IInv, TypeOK', NEW r \in Replicas, GoDown(r)
  PROVE  IInv'
  <1> USE DEF kafkaVars, storeVars, taskVars, reqVars
  <1>1. /\ \A s \in Replicas : owned'[s] = IF s = r THEN {} ELSE owned[s]
        /\ \A s \in Replicas, k \in Keys : map'[s][k] = IF s = r THEN None ELSE map[s][k]
        /\ \A s \in Replicas : warm'[s] => s # r /\ warm[s]
        /\ \A s \in Replicas : gained'[s] = IF s = r THEN {} ELSE gained[s]
        /\ \A s \in Replicas : todo'[s] = IF s = r THEN {} ELSE todo[s]
        /\ \A s \in Replicas : own'[s] = IF s = r THEN "down" ELSE own[s]
        /\ \A s \in Replicas : s # r => (restart_required'[s] <=> restart_required[s])
        /\ \A s \in Replicas, q \in Partitions :
             replay_targets'[s][q] = IF s = r THEN -1 ELSE replay_targets[s][q]
        /\ \A s \in Replicas, q \in Partitions :
             position'[s][q] = IF s = r THEN 0 ELSE position[s][q]
        /\ \A s \in Replicas, q \in Partitions :
             slots'[s][q] = IF s = r THEN "none" ELSE slots[s][q]
        /\ \A j \in Requests : pc'[j] = IF at[j] = r /\ pc[j] \in {"lock"} \cup Holding
             THEN "cancelled" ELSE pc[j]
        /\ UNCHANGED <<log, data, txn, current, at, key, answer, excuses>>
    BY Placed DEF IInv, TypeOK, StoreTypeOK, TaskTypeOK, CallTypeOK, GoDown, Fresh
  <1>2. OneHolder'
    BY <1>1, Placed DEF IInv, OneHolder, PartOf, Holding, InTxn
  <1>3. SlotFits'
    BY <1>1, Placed DEF IInv, SlotFits, PartOf, InTxn, Holding
  <1>4. TxnOwned'
    BY <1>1, Placed DEF IInv, TxnOwned, PartOf, Holding, InTxn
  <1>5. TxnOpen'
    BY <1>1, Placed DEF IInv, TxnOpen, PartOf, Holding, InTxn
  <1>6. CommitAsked'
    BY <1>1, Placed DEF IInv, CommitAsked, Holding, InTxn
  <1>7. MapTruthful'
    BY <1>1, Placed DEF IInv, MapTruthful, Holding, InTxn
  <1>8. AnswersAreDurable'
    BY <1>1, Placed DEF IInv, AnswersAreDurable, Holding, InTxn
  <1>9. CallbackShape'
    BY <1>1, Placed DEF IInv, CallbackShape, Holding, InTxn
  <1>10. WarmReplayed'
    BY <1>1, Placed DEF IInv, WarmReplayed, Holding, InTxn
  <1>11. PreparedQuiet'
    BY <1>1, Placed DEF IInv, PreparedQuiet, SlotFree, PartOf, Holding, InTxn
  <1>12. ReplayedKnown'
    BY <1>1, Placed DEF IInv, ReplayedKnown, Holding, InTxn
  <1>13. LateKnown'
    <2> SUFFICES ASSUME NEW s \in Replicas, NEW q \in Partitions, Trusted(s, q)', ~Excused',
                        replay_targets'[s][q] # -1, NEW n \in 1..Len(log'[q]),
                          n > replay_targets'[s][q]
                 PROVE  \/ map'[s][key'[log'[q][n]]] # None
                        \/ pc'[log'[q][n]] = "committing" /\ at'[log'[q][n]] = s
      BY DEF LateKnown
    <2>1. Trusted(s, q) /\ ~Excused /\ replay_targets[s][q] # -1
      BY <1>1, Placed DEF IInv, LateKnown, Trusted, Excused, Holding, InTxn
    <2>2. \/ map[s][key[log[q][n]]] # None
          \/ pc[log[q][n]] = "committing" /\ at[log[q][n]] = s
      BY <1>1, <2>1 DEF IInv, LateKnown
    <2> QED
      BY <1>1, Placed, <2>2 DEF IInv, LateKnown, Trusted, Excused, Holding, InTxn
  <1>14. NoAbandonedTxn'
    <2> SUFFICES ASSUME NEW s \in Replicas, NEW q \in Partitions, Trusted(s, q)',
      txn'[q] # None
                 PROVE  pc'[txn'[q].req] \in InTxn
      BY DEF NoAbandonedTxn
    <2>1. Trusted(s, q) /\ txn[q] # None
      BY <1>1, Placed DEF IInv, NoAbandonedTxn, Trusted, InTxn, TxnOwned, PartOf, Holding
    <2>2. pc[txn[q].req] \in InTxn
      BY <2>1 DEF IInv, NoAbandonedTxn
    <2> QED
      BY <1>1, Placed, <2>1, <2>2
         DEF IInv, NoAbandonedTxn, Trusted, InTxn, TxnOwned, PartOf, Holding
  <1>15. FreshKey'
    BY <1>1, Placed DEF IInv, FreshKey, PartOf, Excused, Holding, InTxn
  <1>16. LogSound' /\ LogComplete' /\ TxnFresh' /\ AtMostOnceUnlessExcused'
    BY <1>1, Frame DEF IInv
  <1> QED
    BY <1>2, <1>3, <1>4, <1>5, <1>6, <1>7, <1>8, <1>9, <1>10, <1>11, <1>12, <1>13, <1>14,
       <1>15, <1>16 DEF IInv

\* A new process owns nothing.
LEMMA StartProcessStep ==
  ASSUME IInv, TypeOK', NEW r \in Replicas, StartProcess(r)
  PROVE  IInv'
  <1> USE DEF kafkaVars, storeVars, taskVars, reqVars
  <1>1. /\ \A s \in Replicas : own'[s] = IF s = r THEN "poll" ELSE own[s]
        /\ own[r] = "down"
        /\ UNCHANGED <<log, data, txn, current, owned, map, warm, restart_required,
             replay_targets, position, gained, todo, slots, at, key, pc, answer, excuses>>
    BY Placed DEF IInv, TypeOK, TaskTypeOK, StartProcess
  <1>2. CallbackShape'
    BY <1>1, Placed DEF IInv, CallbackShape
  <1>3. WarmReplayed'
    BY <1>1, Placed DEF IInv, WarmReplayed, CallbackShape
  <1>4. PreparedQuiet'
    BY <1>1, Placed DEF IInv, PreparedQuiet, SlotFree, PartOf, Holding, InTxn
  <1>5. OneHolder' /\ SlotFits' /\ TxnOwned' /\ TxnOpen' /\ CommitAsked' /\ LogSound'
          /\ LogComplete' /\ MapTruthful' /\ AnswersAreDurable' /\ ReplayedKnown'
          /\ LateKnown' /\ NoAbandonedTxn' /\ FreshKey' /\ TxnFresh'
          /\ AtMostOnceUnlessExcused'
    BY <1>1, Frame DEF IInv
  <1> QED
    BY <1>2, <1>3, <1>4, <1>5 DEF IInv

\* An eviction concerns the group coordinator only.
LEMMA SessionTimeoutStep ==
  ASSUME IInv, TypeOK', NEW r \in Replicas, SessionTimeout(r)
  PROVE  IInv'
  <1> USE DEF kafkaVars, storeVars, taskVars, reqVars
  <1>1. /\ UNCHANGED <<log, data, txn, current, owned, map, warm, restart_required,
             replay_targets, position, own, gained, todo, slots, at, key, pc, answer,
             excuses>>
    BY Placed DEF SessionTimeout
  <1>2. OneHolder' /\ SlotFits' /\ TxnOwned' /\ TxnOpen' /\ CommitAsked' /\ LogSound'
          /\ LogComplete' /\ MapTruthful' /\ AnswersAreDurable' /\ CallbackShape'
          /\ WarmReplayed' /\ PreparedQuiet' /\ ReplayedKnown' /\ LateKnown'
          /\ NoAbandonedTxn' /\ FreshKey' /\ TxnFresh' /\ AtMostOnceUnlessExcused'
    BY <1>1, Frame DEF IInv
  <1> QED
    BY <1>2 DEF IInv

\* ExitForRestart, Shutdown, PollFails and AssignFails: nothing is owned any more,
\* and a preparation may have been cut short.
LEMMA ExitStep ==
  ASSUME IInv, TypeOK', NEW r \in Replicas, ExitLoop(r), (UNCHANGED <<kafkaVars, slots>>)
         \/ PrepareCutShort(r)
  PROVE  IInv'
  <1> USE DEF kafkaVars, storeVars, taskVars, reqVars
  <1>1. /\ \A s \in Replicas : owned'[s] = IF s = r THEN {} ELSE owned[s]
        /\ \A s \in Replicas, k \in Keys : map'[s][k] = IF s = r THEN None ELSE map[s][k]
        /\ \A s \in Replicas : warm'[s] => s # r /\ warm[s]
        /\ \A s \in Replicas : gained'[s] = IF s = r THEN {} ELSE gained[s]
        /\ \A s \in Replicas : todo'[s] = IF s = r THEN {} ELSE todo[s]
        /\ \A s \in Replicas : own'[s] = IF s = r THEN "exited" ELSE own[s]
        /\ \/ UNCHANGED <<txn, current, slots>>
           \/ \E p \in Partitions :
                /\ SlotFree(r, p)
                /\ \A s \in Replicas, q \in Partitions :
                     slots'[s][q] = IF s = r /\ q = p THEN "none" ELSE slots[s][q]
                /\ \/ UNCHANGED <<txn, current>>
                   \/ NewEpoch(r, p)
        /\ UNCHANGED <<log, data, restart_required, replay_targets, position, at, key, pc,
             answer, excuses>>
    <2>1.  \A s \in Replicas : owned'[s] = IF s = r THEN {} ELSE owned[s]
      BY Placed DEF IInv, TypeOK, StoreTypeOK, PrepareCutShort, init_transactions, SetSlot,
         ExitLoop, Fresh
    <2>2.  \A s \in Replicas, k \in Keys : map'[s][k] = IF s = r THEN None ELSE map[s][k]
      BY Placed DEF IInv, TypeOK, StoreTypeOK, PrepareCutShort, init_transactions, SetSlot,
         ExitLoop, Fresh
    <2>3.  \A s \in Replicas : warm'[s] => s # r /\ warm[s]
      BY Placed DEF IInv, TypeOK, StoreTypeOK, PrepareCutShort, init_transactions, SetSlot,
         ExitLoop, Fresh
    <2>4.  \A s \in Replicas : gained'[s] = IF s = r THEN {} ELSE gained[s]
      BY Placed DEF IInv, TypeOK, TaskTypeOK, PrepareCutShort, init_transactions, SetSlot,
         ExitLoop, Fresh
    <2>5.  \A s \in Replicas : todo'[s] = IF s = r THEN {} ELSE todo[s]
      BY Placed DEF IInv, TypeOK, TaskTypeOK, PrepareCutShort, init_transactions, SetSlot,
         ExitLoop, Fresh
    <2>6.  \A s \in Replicas : own'[s] = IF s = r THEN "exited" ELSE own[s]
      BY Placed DEF IInv, TypeOK, TaskTypeOK, PrepareCutShort, init_transactions, SetSlot,
         ExitLoop, Fresh
    <2>7.  \/ UNCHANGED <<txn, current, slots>>
           \/ \E p \in Partitions :
                /\ SlotFree(r, p)
                /\ \A s \in Replicas, q \in Partitions :
                     slots'[s][q] = IF s = r /\ q = p THEN "none" ELSE slots[s][q]
                /\ \/ UNCHANGED <<txn, current>>
                   \/ NewEpoch(r, p)
      <3>1. CASE UNCHANGED <<kafkaVars, slots>>
        BY <3>1
      <3>2. CASE PrepareCutShort(r)
        <4>1. PICK p \in todo[r] :
                /\ SlotFree(r, p) /\ SetSlot(r, p, "none")
                /\ (UNCHANGED kafkaVars) \/ init_transactions(r, p)
          BY <3>2 DEF PrepareCutShort
        <4>2. p \in Partitions /\ slots \in [Replicas -> [Partitions -> {"none", "ready",
                "recovery"}]]
          BY DEF IInv, TypeOK, TaskTypeOK
        <4>3. \A s \in Replicas, q \in Partitions :
                slots'[s][q] = IF s = r /\ q = p THEN "none" ELSE slots[s][q]
          BY <4>1, <4>2 DEF SetSlot
        <4>4. (UNCHANGED <<txn, current>>) \/ NewEpoch(r, p)
          BY <4>1, <4>2, Epoch DEF IInv
        <4> QED
          BY <4>1, <4>2, <4>3, <4>4
      <3> QED
        BY <3>1, <3>2
    <2>8.  UNCHANGED <<log, data, restart_required, replay_targets, position, at, key, pc,
             answer, excuses>>
      BY DEF PrepareCutShort, init_transactions, SetSlot, ExitLoop, Fresh
    <2> QED
      BY <2>1, <2>2, <2>3, <2>4, <2>5, <2>6, <2>7, <2>8
  <1>2. SlotFits'
    BY <1>1, Placed DEF IInv, SlotFits, PartOf, InTxn, SlotFree, Holding
  <1>3. TxnOwned'
    BY <1>1, Placed DEF IInv, TxnOwned, PartOf, NewEpoch
  <1>4. TxnOpen'
    BY <1>1, Placed DEF IInv, TxnOpen, PartOf, SlotFree, Holding, InTxn, NewEpoch
  <1>5. MapTruthful'
    BY <1>1, Placed DEF IInv, MapTruthful
  <1>6. CallbackShape'
    BY <1>1, Placed DEF IInv, CallbackShape
  <1>7. WarmReplayed'
    BY <1>1, Placed DEF IInv, WarmReplayed
  <1>8. PreparedQuiet'
    BY <1>1, Placed DEF IInv, PreparedQuiet, SlotFree, PartOf, Holding, InTxn, NewEpoch
  <1>9. ReplayedKnown'
    BY <1>1, Placed DEF IInv, ReplayedKnown
  <1>10. LateKnown'
    BY <1>1, Placed DEF IInv, LateKnown, Trusted, Excused, NewEpoch
  <1>11. NoAbandonedTxn'
    BY <1>1, Placed DEF IInv, NoAbandonedTxn, Trusted, InTxn, NewEpoch
  <1>12. FreshKey'
    BY <1>1, Placed DEF IInv, FreshKey, PartOf, Excused, SlotFree, Holding, InTxn, NewEpoch
  <1>13. TxnFresh'
    BY <1>1, Placed DEF IInv, TxnFresh, Excused, NewEpoch
  <1>14. OneHolder' /\ CommitAsked' /\ LogSound' /\ LogComplete' /\ AnswersAreDurable'
           /\ AtMostOnceUnlessExcused'
    BY <1>1, Frame DEF IInv
  <1> QED
    BY <1>2, <1>3, <1>4, <1>5, <1>6, <1>7, <1>8, <1>9, <1>10, <1>11, <1>12, <1>13, <1>14
       DEF IInv

\* The coordinator commits: a trusted producer's call is still waiting for it, and
\* the key is fresh.
LEMMA BrokerCommitStep ==
  ASSUME IInv, TypeOK', NEW p \in Partitions, BrokerCommit(p)
  PROVE  IInv'
  <1> USE DEF kafkaVars, storeVars, taskVars, reqVars
  <1>1. /\ txn[p] # None /\ txn[p].ending
        /\ data' = data \cup {txn[p].req}
        /\ \A q \in Partitions :
             Len(log'[q]) = IF q = p THEN Len(log[q]) + 1 ELSE Len(log[q])
        /\ \A q \in Partitions : \A n \in 1..Len(log[q]) : log'[q][n] = log[q][n]
        /\ log'[p][Len(log[p]) + 1] = txn[p].req
        /\ \A q \in Partitions : txn'[q] = IF q = p THEN None ELSE txn[q]
        /\ UNCHANGED <<current, owned, map, warm, restart_required, replay_targets,
             position, own, gained, todo, slots, at, key, pc, answer, excuses>>
    <2>1.  txn[p] # None /\ txn[p].ending
      BY DEF BrokerCommit
    <2>2.  data' = data \cup {txn[p].req}
      BY DEF BrokerCommit
    <2>3.  \A q \in Partitions :
             Len(log'[q]) = IF q = p THEN Len(log[q]) + 1 ELSE Len(log[q])
      <3>1. log \in [Partitions -> Seq(Requests)] /\ txn[p].req \in Requests
        BY <2>1, Placed DEF IInv, TypeOK, KafkaTypeOK
      <3>2. log' = [log EXCEPT ![p] = Append(@, txn[p].req)]
        BY <2>1 DEF BrokerCommit, IInv, TxnOwned
      <3> QED
        BY <3>1, <3>2
    <2>4.  \A q \in Partitions : \A n \in 1..Len(log[q]) : log'[q][n] = log[q][n]
      <3>1. log \in [Partitions -> Seq(Requests)] /\ txn[p].req \in Requests
        BY <2>1, Placed DEF IInv, TypeOK, KafkaTypeOK
      <3>2. log' = [log EXCEPT ![p] = Append(@, txn[p].req)]
        BY <2>1 DEF BrokerCommit, IInv, TxnOwned
      <3> QED
        BY <3>1, <3>2
    <2>5.  log'[p][Len(log[p]) + 1] = txn[p].req
      <3>1. log \in [Partitions -> Seq(Requests)] /\ txn[p].req \in Requests
        BY <2>1, Placed DEF IInv, TypeOK, KafkaTypeOK
      <3>2. log' = [log EXCEPT ![p] = Append(@, txn[p].req)]
        BY <2>1 DEF BrokerCommit, IInv, TxnOwned
      <3> QED
        BY <3>1, <3>2
    <2>6.  \A q \in Partitions : txn'[q] = IF q = p THEN None ELSE txn[q]
      BY Placed DEF IInv, TypeOK, KafkaTypeOK, BrokerCommit, TxnOwned
    <2>7.  UNCHANGED <<current, owned, map, warm, restart_required, replay_targets,
             position, own, gained, todo, slots, at, key, pc, answer, excuses>>
      BY DEF BrokerCommit, TxnOwned
    <2> QED
      BY <2>1, <2>2, <2>3, <2>4, <2>5, <2>6, <2>7
  <1>2. TxnOwned'
    BY <1>1, Placed DEF IInv, TxnOwned, PartOf
  <1>3. TxnOpen'
    BY <1>1, Placed DEF IInv, TxnOpen, PartOf
  <1>4. CommitAsked'
    BY <1>1, Placed DEF IInv, CommitAsked, TxnOwned, PartOf
  <1>5. LogSound'
    <2> SUFFICES ASSUME NEW q \in Partitions, NEW n \in 1..Len(log'[q])
                 PROVE  log'[q][n] \in data' /\ partition_for[key[log'[q][n]]] = q
      BY <1>1 DEF LogSound, PartOf
    <2>1. CASE n \in 1..Len(log[q])
      BY <1>1, <2>1 DEF IInv, LogSound, PartOf
    <2>2. CASE q = p /\ n = Len(log[p]) + 1
      BY <1>1, <2>2 DEF IInv, TxnOwned, PartOf
    <2> QED
      BY <1>1, <2>1, <2>2, Lengths DEF IInv
  <1>6. LogComplete'
    <2> SUFFICES ASSUME NEW j \in Requests, j \in data'
                 PROVE  \E n \in 1..Len(log'[PartOf(j)]) : log'[PartOf(j)][n] = j
      BY <1>1 DEF LogComplete, PartOf
    <2>1. CASE j \in data
      <3>1. PICK n \in 1..Len(log[PartOf(j)]) : log[PartOf(j)][n] = j
        BY <2>1 DEF IInv, LogComplete
      <3> QED
        BY <1>1, Placed, <3>1, Lengths DEF IInv
    <2>2. CASE j = txn[p].req
      <3>1. PartOf(j) = p
        BY <1>1, <2>2 DEF IInv, TxnOwned
      <3> QED
        BY <1>1, <2>2, <3>1, Lengths DEF IInv
    <2> QED
      BY <1>1, <2>1, <2>2
  <1>7. MapTruthful'
    BY <1>1, Placed DEF IInv, MapTruthful
  <1>8. AnswersAreDurable'
    BY <1>1, Placed DEF IInv, AnswersAreDurable
  <1>9. PreparedQuiet'
    BY <1>1, Placed DEF IInv, PreparedQuiet, SlotFree, PartOf, Holding, InTxn
  <1>10. ReplayedKnown'
    <2>1. \A s \in Replicas, q \in Partitions :
            position[s][q] <= Len(log[q]) /\ position[s][q] \in Nat
      BY DEF IInv, ReplayedKnown, TypeOK, StoreTypeOK
    <2> SUFFICES ASSUME NEW s \in Replicas, NEW q \in Partitions
                 PROVE  /\ position[s][q] <= Len(log'[q])
                        /\ q \in owned[s] => \A n \in 1..Len(log'[q]) :
                             n <= position[s][q] => map[s][key[log'[q][n]]] # None
      BY <1>1 DEF ReplayedKnown
    <2>2. position[s][q] <= Len(log'[q])
      BY <1>1, <2>1, Lengths DEF IInv
    <2>3. ASSUME q \in owned[s], NEW n \in 1..Len(log'[q]), n <= position[s][q]
          PROVE  map[s][key[log'[q][n]]] # None
      <3>1. n \in 1..Len(log[q])
        BY <2>1, <2>3, Lengths DEF IInv
      <3> QED
        BY <1>1, <2>3, <3>1 DEF IInv, ReplayedKnown
    <2> QED
      BY <2>2, <2>3
  <1>11. LateKnown'
    <2> SUFFICES ASSUME NEW s \in Replicas, NEW q \in Partitions, Trusted(s, q), ~Excused,
                        replay_targets[s][q] # -1, NEW n \in 1..Len(log'[q]),
                          n > replay_targets[s][q]
                 PROVE  \/ map[s][key[log'[q][n]]] # None
                        \/ pc[log'[q][n]] = "committing" /\ at[log'[q][n]] = s
      BY <1>1 DEF LateKnown, Trusted, Excused
    <2>1. CASE n \in 1..Len(log[q])
      BY <1>1, <2>1 DEF IInv, LateKnown
    <2>2. CASE q = p /\ n = Len(log[p]) + 1
      <3>1. pc[txn[p].req] \in InTxn
        BY <1>1, <2>2 DEF IInv, NoAbandonedTxn
      <3>2. pc[txn[p].req] \in {"committing", "error", "cancelled"}
              /\ at[txn[p].req] = current[p]
        BY <1>1 DEF IInv, TxnOwned
      <3> QED
        BY <1>1, <2>2, <3>1, <3>2 DEF InTxn, Trusted
    <2> QED
      BY <1>1, <2>1, <2>2, Lengths DEF IInv
  <1>12. NoAbandonedTxn'
    BY <1>1, Placed DEF IInv, NoAbandonedTxn, Trusted, InTxn
  <1>13. FreshKey'
    BY <1>1, Placed DEF IInv, FreshKey, PartOf, Excused, TxnOwned
  <1>14. TxnFresh'
    BY <1>1, Placed DEF IInv, TxnFresh, Excused, TxnOwned, PartOf
  <1>15. AtMostOnceUnlessExcused'
    BY <1>1, Placed DEF IInv, AtMostOnceUnlessExcused, Excused, TxnFresh
  <1>16. OneHolder' /\ SlotFits' /\ CallbackShape' /\ WarmReplayed'
    BY <1>1, Frame DEF IInv
  <1> QED
    BY <1>2, <1>3, <1>4, <1>5, <1>6, <1>7, <1>8, <1>9, <1>10, <1>11, <1>12, <1>13, <1>14,
       <1>15, <1>16 DEF IInv

-----------------------------------------------------------------------------

\* Nothing is committed, owned or held at the start.
LEMMA InvInit == Init => IInv
  <1> SUFFICES ASSUME Init PROVE IInv
    OBVIOUS
  <1>1. TypeOK
    BY TypeInit
  <1>2. OneHolder /\ SlotFits
    BY DEF Init, OneHolder, SlotFits, Holding, InTxn
  <1>3. TxnOwned /\ TxnOpen /\ CommitAsked
    BY DEF Init, TxnOwned, TxnOpen, CommitAsked
  <1>4. LogSound /\ LogComplete
    BY DEF Init, LogSound, LogComplete
  <1>5. MapTruthful /\ AnswersAreDurable
    BY DEF Init, MapTruthful, AnswersAreDurable
  <1>6. CallbackShape /\ WarmReplayed /\ PreparedQuiet
    BY DEF Init, CallbackShape, WarmReplayed, PreparedQuiet
  <1>7. ReplayedKnown /\ LateKnown
    BY DEF Init, ReplayedKnown, LateKnown, Trusted
  <1>8. NoAbandonedTxn /\ FreshKey /\ TxnFresh /\ AtMostOnceUnlessExcused
    BY DEF Init, NoAbandonedTxn, FreshKey, TxnFresh, AtMostOnceUnlessExcused
  <1> QED
    BY <1>1, <1>2, <1>3, <1>4, <1>5, <1>6, <1>7, <1>8 DEF IInv

\* Every step of the engine keeps all of them.
LEMMA InvStep == IInv /\ [Next]_vars => IInv'
  <1> SUFFICES ASSUME IInv, [Next]_vars PROVE IInv'
    OBVIOUS
  <1> USE DEF kafkaVars, storeVars, taskVars, reqVars
  <1>1. TypeOK'
    BY TypeStep DEF IInv
  <1>2. ASSUME NEW i \in Requests, RecoveryRequired(i) PROVE IInv'
    BY <1>1, <1>2, GiveUpStep DEF RecoveryRequired
  <1>3. ASSUME NEW i \in Requests, CommitUncertain(i) PROVE IInv'
    BY <1>1, <1>3, GiveUpStep DEF CommitUncertain
  <1>4. ASSUME NEW i \in Requests, AbortFails(i) PROVE IInv'
    BY <1>1, <1>4, GiveUpStep DEF AbortFails
  <1>5. ASSUME NEW i \in Requests, Call(i) \/ Cancel(i) PROVE IInv'
    BY <1>1, <1>2, <1>3, <1>4, <1>5, dedup_produceStep, LockSlotStep, RecheckStep,
       LazyInitStep, LazyInitFailsStep, BeginTransactionStep, SendDataStep, SendClaimStep,
       SendFailsStep, SendCommitStep, CommitSucceedsStep, CommitFailsStep,
       AbortConfirmedStep, CancelStep DEF Call
  <1>6. ASSUME NEW r \in Replicas, ExitForRestart(r) PROVE IInv'
    BY <1>1, <1>6, ExitStep DEF ExitForRestart
  <1>7. ASSUME NEW r \in Replicas, Shutdown(r) PROVE IInv'
    BY <1>1, <1>7, ExitStep DEF Shutdown
  <1>8. ASSUME NEW r \in Replicas, PollFails(r) PROVE IInv'
    BY <1>1, <1>8, ExitStep DEF PollFails
  <1>9. ASSUME NEW r \in Replicas, AssignFails(r) PROVE IInv'
    BY <1>1, <1>9, ExitStep DEF AssignFails
  <1>10. ASSUME NEW r \in Replicas, Ownership(r) PROVE IInv'
    BY <1>1, <1>6, <1>7, <1>8, <1>9, <1>10, on_partitions_revokedStep,
       release_partitionsStep, RevokeDoneStep, on_partitions_assignedStep,
       prepare_partitionsStep, CaptureEndsStep, PollEmptyStep, PollClaimStep DEF Ownership
  <1>11. ASSUME NEW r \in Replicas, ProcessEnds(r) \/ Crash(r) PROVE IInv'
    BY <1>1, <1>11, GoDownStep DEF ProcessEnds, Crash
  <1>12. ASSUME NEW r \in Replicas, Process(r) PROVE IInv'
    BY <1>1, <1>11, <1>12, StartProcessStep, SessionTimeoutStep DEF Process
  <1>13. ASSUME UNCHANGED vars PROVE IInv'
    BY <1>1, <1>13, Frame DEF IInv, vars
  <1> QED
    BY <1>1, <1>5, <1>10, <1>12, <1>13, BrokerCommitStep DEF Next

\* The discipline of the engine is kept by every step: of calls, rebalance
\* callbacks, the broker and the faults (dedup/mod.rs, dedup/store.rs).
THEOREM Discipline == Spec => []IInv
  BY InvInit, InvStep, PTL DEF Spec

\* A key is written at most once, unless a lazy init usurped a transactional id
\* or a call looked its key up in a map that was being taken down.
THEOREM AtMostOnce == Spec => []AtMostOnceUnlessExcused
  <1>1. IInv => AtMostOnceUnlessExcused
    BY DEF IInv
  <1> QED
    BY <1>1, Discipline, PTL

\* What a warm owner does not know is not committed, or the call that committed
\* it still holds the slot.
LEMMA WarmComplete == IInv => WarmMapComplete
  <1> SUFFICES ASSUME IInv, NEW r \in Replicas, NEW p \in Partitions,
                      is_warm(r), owns(r, p), ~Excused, current[p] = r,
                      slots[r][p] # "recovery", SlotFree(r, p),
                      NEW n \in 1..Len(log[p])
               PROVE  map[r][key[log[p][n]]] # None
    BY DEF WarmMapComplete
  <1>1. Trusted(r, p) /\ warm[r]
    BY DEF is_warm, owns, Trusted
  <1>2. CASE n <= position[r][p]
    BY <1>1, <1>2 DEF IInv, ReplayedKnown, Trusted
  <1>3. CASE ~(n <= position[r][p])
    <2>1. replay_targets[r][p] # -1 /\ position[r][p] >= replay_targets[r][p]
      BY <1>1 DEF IInv, WarmReplayed, Trusted
    <2>2. position[r][p] \in Nat /\ replay_targets[r][p] \in Nat \cup {-1}
      BY DEF IInv, TypeOK, StoreTypeOK
    <2>3. n > replay_targets[r][p]
      BY <1>3, <2>1, <2>2
    <2>4. \/ map[r][key[log[p][n]]] # None
          \/ pc[log[p][n]] = "committing" /\ at[log[p][n]] = r
      BY <1>1, <2>1, <2>3 DEF IInv, LateKnown
    <2>5. log[p][n] \in Requests /\ PartOf(log[p][n]) = p
      BY Placed DEF IInv, LogSound
    <2> QED
      BY <2>4, <2>5 DEF SlotFree, Holding, InTxn
  <1> QED
    BY <1>2, <1>3

\* The owner that answers requests knows every committed claim of the partitions
\* it serves: the order fence, capture the end, replay, serve is sufficient.
THEOREM WarmMapsComplete == Spec => []WarmMapComplete
  BY WarmComplete, Discipline, PTL

\* A call that succeeds returns a committed record of its own key.
THEOREM DurableAnswers == Spec => []AnswersAreDurable
  <1>1. IInv => AnswersAreDurable
    BY DEF IInv
  <1> QED
    BY <1>1, Discipline, PTL

-----------------------------------------------------------------------------
(* The refinement.                                                         *)

\* While keys are written once, recordOf names the record of a key.
LEMMA RecordIs ==
  ASSUME AtMostOnceUnlessExcused, ~Excused, NEW k, NEW i \in data, key[i] = k
  PROVE  recordOf(k) = i
  <1>1. \A j \in data : key[j] = k <=> j = i
    BY DEF AtMostOnceUnlessExcused
  <1> QED
    BY <1>1 DEF recordOf

\* ... after a step as well as before it.
LEMMA RecordIsNext ==
  ASSUME AtMostOnceUnlessExcused', ~Excused', NEW k, NEW i \in data', key'[i] = k
  PROVE  recordOf(k)' = i
  <1>1. \A j \in data' : key'[j] = k <=> j = i
    BY DEF AtMostOnceUnlessExcused
  <1> QED
    BY <1>1 DEF recordOf

\* A step that writes no record, and in which calls move on or are refused.
LEMMA Refusing ==
  ASSUME UNCHANGED <<data, key>>,
         \A j \in Requests : \/ pc'[j] = pc[j] /\ answer'[j] = answer[j]
                             \/ pc[j] \notin Finished /\ pc'[j] \notin {"ok", "dup"}
  PROVE  Abstract!Next
  <1> DEFINE S == {j \in Requests : outcomeOf(j) = "pending" /\ outcomeOf(j)' = "refused"}
  <1>1. \A j \in Requests : outcomeOf(j)' = IF j \in S THEN "refused" ELSE outcomeOf(j)
    BY DEF outcomeOf, Finished
  <1>2. [k \in Keys |-> recordOf(k)]' = [k \in Keys |-> recordOf(k)]
    BY DEF recordOf
  <1>3. Abstract!Refuse(S)
    BY <1>1, <1>2 DEF Abstract!Refuse
  <1> QED
    BY <1>3 DEF Abstract!Next

\* A call moves on, or is refused.
LEMMA GotoQuiet ==
  ASSUME TypeOK, NEW i \in Requests, NEW l, Goto(i, l), l \notin {"ok", "dup"},
         pc[i] \notin Finished, UNCHANGED <<data, key, answer>>
  PROVE  Abstract!Next
  <1>1. \A j \in Requests : \/ pc'[j] = pc[j] /\ answer'[j] = answer[j]
                            \/ pc[j] \notin Finished /\ pc'[j] \notin {"ok", "dup"}
    BY DEF Goto, TypeOK, CallTypeOK
  <1> QED
    BY <1>1, Refusing

\* A call returns the record of its key.
LEMMA Answering ==
  ASSUME TypeOK, AtMostOnceUnlessExcused', ~Excused', UNCHANGED <<data, key>>,
         NEW i \in Requests, pc[i] \notin Finished, pc'[i] \in {"ok", "dup"},
         answer'[i] \in data, key[answer'[i]] = key[i], None \notin data,
         \A j \in Requests : j # i => pc'[j] = pc[j] /\ answer'[j] = answer[j]
  PROVE  Abstract!Next
  <1>1. recordOf(key[i]) = answer'[i]
    <2>1. \A j \in data : key[j] = key[i] <=> j = answer'[i]
      BY DEF AtMostOnceUnlessExcused, Excused
    <2> QED
      BY <2>1 DEF recordOf
  <1>2. [k \in Keys |-> recordOf(k)]' = [k \in Keys |-> recordOf(k)]
    BY DEF recordOf
  <1>3. outcomeOf(i) = "pending" /\ outcomeOf(i)' = answer'[i]
    BY DEF outcomeOf, Finished
  <1>4. \A j \in Requests : j # i => outcomeOf(j)' = outcomeOf(j)
    BY DEF outcomeOf
  <1>5. key[i] \in Keys
    BY DEF TypeOK, CallTypeOK
  <1>6. Abstract!Answer(i)
    BY <1>1, <1>2, <1>3, <1>4, <1>5 DEF Abstract!Answer
  <1> QED
    BY <1>6 DEF Abstract!Next

\* The broker commits: the record of a key that has none.
LEMMA Writing ==
  ASSUME IInv, IInv', ~Excused', NEW p \in Partitions, BrokerCommit(p)
  PROVE  Abstract!Next
  <1> USE DEF kafkaVars, storeVars, taskVars, reqVars
  <1> DEFINE i == txn[p].req
  <1>1. /\ txn[p] # None /\ txn[p].ending /\ data' = data \cup {i}
        /\ UNCHANGED <<key, pc, answer, excuses>>
    BY DEF BrokerCommit
  <1>2. i \in Requests /\ key[i] \in Keys /\ data \subseteq Requests
    BY <1>1, Placed DEF IInv
  <1>3. ~Excused /\ \A j \in data : key[j] # key[i]
    BY <1>1 DEF IInv, TxnFresh, Excused
  <1>4. pc[i] \in {"committing", "error", "cancelled"}
    BY <1>1 DEF IInv, TxnOwned
  <1> HIDE DEF i
  <1>5. recordOf(key[i]) = None
    BY <1>3 DEF recordOf
  <1>6. ASSUME NEW k \in Keys, k = key[i] PROVE recordOf(k)' = i
    BY <1>1, <1>6, RecordIsNext DEF IInv
  <1>7. ASSUME NEW k \in Keys, k # key[i] PROVE recordOf(k)' = recordOf(k)
    <2>1. CASE \E j \in data : key[j] = k
      <3>1. PICK j \in data : key[j] = k
        BY <2>1
      <3>2. recordOf(k) = j
        BY <1>3, <3>1, RecordIs DEF IInv
      <3>3. recordOf(k)' = j
        BY <1>1, <3>1, RecordIsNext DEF IInv
      <3> QED
        BY <3>2, <3>3
    <2>2. CASE ~\E j \in data : key[j] = k
      BY <1>1, <1>7, <2>2 DEF recordOf
    <2> QED
      BY <2>1, <2>2
  <1>8. \A j \in Requests : outcomeOf(j)' = outcomeOf(j)
    BY <1>1 DEF outcomeOf
  <1>9. outcomeOf(i) \in {"pending", "refused"}
    BY <1>4 DEF outcomeOf, Finished
  <1>10. Abstract!Write(i)
    <2>1. [k \in Keys |-> recordOf(k)]'
            = [[k \in Keys |-> recordOf(k)] EXCEPT ![key[i]] = i]
      BY <1>2, <1>7, <1>6
    <2> QED
      BY <1>1, <1>2, <1>5, <1>8, <1>9, <2>1 DEF Abstract!Write
  <1> QED
    BY <1>2, <1>10 DEF Abstract!Next

\* A lookup that finds the key answers with its record.
LEMMA LookupAnswers ==
  ASSUME IInv, IInv', ~Excused', NEW i \in Requests, NEW l \in PCs \ Finished,
         LookupThen(i, l), pc[i] \notin Finished, UNCHANGED <<data, key>>
  PROVE  Abstract!Next
  <1>1. CASE map[at[i]][key[i]] = None
    BY <1>1, GotoQuiet DEF LookupThen, IInv, Finished
  <1>2. CASE map[at[i]][key[i]] # None
    <2>1. pc'[i] = "dup" /\ answer'[i] = map[at[i]][key[i]]
      BY <1>2 DEF LookupThen, Goto, IInv, TypeOK, CallTypeOK
    <2>2. \A j \in Requests : j # i => pc'[j] = pc[j] /\ answer'[j] = answer[j]
      BY <1>2 DEF LookupThen, Goto, IInv, TypeOK, CallTypeOK
    <2>3. answer'[i] \in data /\ key[answer'[i]] = key[i]
      BY <1>2, <2>1, Placed DEF IInv, MapTruthful
    <2>4. None \notin data
      BY Placed, NoneAssumption DEF IInv
    <2> QED
      BY <2>1, <2>2, <2>3, <2>4, Answering DEF IInv
  <1> QED
    BY <1>1, <1>2

\* Every step of a call is a step of ExactlyOnce.
LEMMA CallRefines ==
  ASSUME IInv, IInv', ~Excused', NEW i \in Requests, Call(i) \/ Cancel(i)
  PROVE  Abstract!Next
  <1> USE DEF kafkaVars, storeVars, taskVars, reqVars
  <1>0. TypeOK
    BY DEF IInv
  <1>1. CASE dedup_produce(i)
    <2>1. pc[i] \notin Finished /\ "lock" \in PCs \ Finished /\ "unavailable" \notin {"ok", "dup"}
      BY <1>1 DEF dedup_produce, Finished, PCs
    <2> QED
      BY <1>0, <1>1, <2>1, LookupAnswers, GotoQuiet DEF dedup_produce, requestOnly
  <1>2. CASE LockSlot(i)
    BY <1>0, <1>2, GotoQuiet DEF LockSlot, requestOnly, Finished
  <1>3. CASE Recheck(i)
    <2>1. pc[i] \notin Finished /\ {"init", "begin"} \subseteq PCs \ Finished
      BY <1>3 DEF Recheck, Finished, PCs, Holding
    <2>2. (IF slots[at[i]][PartOf(i)] = "none" THEN "init" ELSE "begin") \in PCs \ Finished
      BY <2>1
    <2> QED
      BY <1>3, <2>1, <2>2, LookupAnswers DEF Recheck, requestOnly
  <1>4. CASE LazyInit(i) \/ LazyInitFails(i) \/ Cancel(i)
    <2>1. pc[i] \notin Finished
      BY <1>4 DEF LazyInit, LazyInitFails, Cancel, Finished, Holding, InTxn
    <2>2. UNCHANGED <<data, key, answer>>
      BY <1>4 DEF LazyInit, LazyInitFails, Cancel, init_producer, init_transactions
    <2>3. Goto(i, "begin") \/ Goto(i, "error") \/ Goto(i, "cancelled")
      BY <1>4 DEF LazyInit, LazyInitFails, Cancel
    <2> QED
      BY <1>0, <2>1, <2>2, <2>3, GotoQuiet
  <1>5. CASE BeginTransaction(i) \/ RecoveryRequired(i)
    BY <1>0, <1>5, GotoQuiet DEF BeginTransaction, RecoveryRequired, requestOnly, Finished
  <1>6. CASE SendData(i) \/ SendClaim(i) \/ SendFails(i) \/ SendCommit(i)
    BY <1>0, <1>6, GotoQuiet DEF SendData, SendClaim, SendFails, SendCommit, AfterSendError,
       Finished
  <1>7. CASE CommitSucceeds(i)
    <2>1. /\ pc[i] \notin Finished /\ i \in data /\ UNCHANGED <<data, key>>
          /\ pc'[i] = "ok" /\ answer'[i] = i
          /\ \A j \in Requests : j # i => pc'[j] = pc[j] /\ answer'[j] = answer[j]
      BY <1>0, <1>7 DEF CommitSucceeds, Finished, Goto, TypeOK, CallTypeOK
    <2>2. None \notin data
      BY <1>0, Placed, NoneAssumption
    <2> QED
      BY <1>0, <2>1, <2>2, Answering DEF IInv
  <1>8. CASE CommitFails(i) \/ CommitUncertain(i) \/ AbortConfirmed(i) \/ AbortFails(i)
    BY <1>0, <1>8, GotoQuiet DEF CommitFails, CommitUncertain, AbortConfirmed, AbortFails,
       Finished
  <1> QED
    BY <1>1, <1>2, <1>3, <1>4, <1>5, <1>6, <1>7, <1>8 DEF Call

\* The ownership task, the process and the group write and answer nothing; the
\* calls of a process that ends are refused.
LEMMA OwnershipRefines ==
  ASSUME IInv, NEW r \in Replicas, Ownership(r) \/ Process(r)
  PROVE  Abstract!Next
  <1> USE DEF kafkaVars, storeVars, taskVars, reqVars
  <1>1. CASE ProcessEnds(r) \/ Crash(r)
    <2>1. \A j \in Requests : \/ pc'[j] = pc[j] /\ answer'[j] = answer[j]
                              \/ pc[j] \notin Finished /\ pc'[j] \notin {"ok", "dup"}
      BY <1>1 DEF ProcessEnds, Crash, GoDown, Finished, Holding, InTxn
    <2> QED
      BY <1>1, <2>1, Refusing DEF ProcessEnds, Crash, GoDown
  <1>2. CASE StartProcess(r) \/ SessionTimeout(r)
    BY <1>2, Refusing DEF StartProcess, SessionTimeout
  <1>3. CASE Ownership(r)
    <2>1. UNCHANGED <<data, key, pc, answer>>
      BY <1>3 DEF Ownership, on_partitions_revoked, release_partitions, RevokeDone,
         on_partitions_assigned, prepare_partitions, CaptureEnds, PollEmpty, PollClaim,
         ExitForRestart, Shutdown, PollFails, AssignFails, ExitLoop, PrepareCutShort,
         init_transactions
    <2> QED
      BY <2>1, Refusing
  <1> QED
    BY <1>1, <1>2, <1>3 DEF Process

\* The engine starts as the abstract specification does.
LEMMA RefinesInit == Init => Abstract!Init
  <1> SUFFICES ASSUME Init PROVE Abstract!Init
    OBVIOUS
  <1>1. \A k \in Keys : recordOf(k) = None
    BY DEF Init, recordOf
  <1>2. \A i \in Requests : outcomeOf(i) = "pending"
    BY DEF Init, outcomeOf, Finished
  <1> QED
    BY <1>1, <1>2 DEF Init, Abstract!Init

\* Every step of the engine is a step of the abstract specification or none.
LEMMA RefinesStep ==
  IInv /\ IInv' /\ [Next]_vars => [Abstract!Next \/ Excused']_(Abstract!vars)
  <1> SUFFICES ASSUME IInv, IInv', [Next]_vars, ~Excused'
               PROVE  [Abstract!Next]_(Abstract!vars)
    OBVIOUS
  <1>1. ASSUME UNCHANGED vars PROVE UNCHANGED Abstract!vars
    BY <1>1 DEF vars, reqVars, kafkaVars, Abstract!vars, recordOf, outcomeOf
  <1> QED
    BY <1>1, CallRefines, OwnershipRefines, Writing DEF Next

\* The replicas together implement ExactlyOnce: one store that writes each key
\* once and answers every caller consistently, until an excuse.
THEOREM Refinement == Spec => ImplementsExactlyOnce
  BY RefinesInit, RefinesStep, Discipline, PTL DEF Spec, ImplementsExactlyOnce
=============================================================================
