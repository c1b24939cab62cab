---------------------------- MODULE MCClusterStatus ----------------------------
(* Instance of ClusterStatus for TLC: three workers.                         *)
EXTENDS ClusterStatus

CONSTANTS n1, n2, n3

ThreeWorkers == <<n1, n2, n3>>
=============================================================================
