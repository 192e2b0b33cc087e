------------------------------ MODULE MCCluster ------------------------------
(* Two lifecycles of one project, which await a node at 8909 that the      *)
(* compose file does not have; a fixture of one node; and a single node    *)
(* at 8909.                                                                *)
EXTENDS Cluster, TLC

MCNodesOf(u) == IF u \in ComposeLifecycles THEN 2 ELSE 1
MCRpcPort(u) == 8909
Symmetry == Permutations(ComposeLifecycles)
=============================================================================
