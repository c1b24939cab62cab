--------------------------- MODULE MCCassandraAdmin ---------------------------
\* Small instances of CassandraAdmin for TLC.
EXTENDS CassandraAdmin

CONSTANTS n1, n2, r1, r2

OneWorker == <<n1>>
TwoWorkers == <<n1, n2>>
=============================================================================
