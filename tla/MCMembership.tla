---------------------------- MODULE MCMembership ----------------------------
(* Two replicas and two dedup partitions, any two faults.                  *)
EXTENDS Membership

MCMaxFaults == [f \in Faults |-> 1]

=============================================================================
