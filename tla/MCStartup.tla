----------------------------- MODULE MCStartup -----------------------------
(* Instances of Startup for TLC. *)
EXTENDS Startup, TLC

CONSTANTS c1, c2, here, there

OneProcess == [c \in Clusters |-> here]
TwoProcesses == [c \in Clusters |-> IF c = c1 THEN here ELSE there]

\* Port numbers are only compared, and nothing tells the clusters of one
\* process apart.
PortSymmetry == Permutations(Ports)
PortAndClusterSymmetry == Permutations(Ports) \cup Permutations(Clusters)
=============================================================================
