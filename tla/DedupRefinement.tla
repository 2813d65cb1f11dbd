-------------------------- MODULE DedupRefinement --------------------------
(* DedupEngine implements ExactlyOnce: the record of a key is the committed *)
(* data record, the outcome of a call is what dedup_produce returned.       *)
EXTENDS DedupEngine

recordOf(k) ==
  IF \E i \in data : key[i] = k THEN CHOOSE i \in data : key[i] = k ELSE None

outcomeOf(i) ==
  CASE pc[i] \in {"ok", "dup"} -> answer[i]
    [] pc[i] \in Finished \ {"ok", "dup"} -> "refused"
    [] OTHER -> "pending"

Abstract ==
  INSTANCE ExactlyOnce WITH
    record <- [k \in Keys |-> recordOf(k)],
    outcome <- [i \in Requests |-> outcomeOf(i)]

\* The replicas together behave like one store that writes each key once and
\* answers every caller consistently, whatever calls are dropped, brokers fail,
\* partitions move and processes crash: until an id is usurped or a gate stale.
ImplementsExactlyOnce ==
  Abstract!Init /\ [][Abstract!Next \/ Excused']_(Abstract!vars)
=============================================================================
