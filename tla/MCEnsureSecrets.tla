--------------------------- MODULE MCEnsureSecrets ---------------------------
\* Small instances of EnsureSecrets for TLC.
EXTENDS EnsureSecrets

CONSTANTS n1, n2

OneWorker == <<n1>>
TwoWorkers == <<n1, n2>>
=============================================================================
