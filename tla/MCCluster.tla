------------------------------ MODULE MCCluster ------------------------------
(* Instances of Cluster for TLC. *)
EXTENDS Cluster, TLC

CONSTANTS a1, a2, t1, t2, h1, h2

MCFits == [a \in Agents |-> Tasks]

ClusterSymmetry ==
    Permutations(Agents) \union Permutations(Tasks) \union Permutations(Handlers)
=============================================================================
