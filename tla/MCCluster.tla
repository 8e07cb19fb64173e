----------------------------- MODULE MCCluster -----------------------------
(* Instances of Cluster for TLC. *)
EXTENDS Cluster

CONSTANTS g1, g2

\* A test that starts the cluster, and another goroutine that does everything.
Roles == [g \in Goroutines |->
            IF g = g1 THEN {"Start"} ELSE Ops]

\* A rejected count, a temporary directory and a caller's, with and without
\* sweeps.
SmallConfigs ==
  {[tikvCount |-> 0, dataPath |-> FALSE, reapOrphans |-> TRUE]} \cup
  {[tikvCount |-> 1, dataPath |-> d, reapOrphans |-> ~d] : d \in BOOLEAN}
=============================================================================
