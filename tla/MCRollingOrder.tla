---------------------------- MODULE MCRollingOrder ----------------------------
(* Instance of RollingOrder for TLC: three workers.                          *)
EXTENDS RollingOrder

CONSTANTS n1, n2, n3

ThreeWorkers == <<n1, n2, n3>>
=============================================================================
