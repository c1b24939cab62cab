-------------------------- MODULE MCVaultBootstrap --------------------------
\* Small instances of VaultBootstrap for TLC.
EXTENDS VaultBootstrap

CONSTANTS n1, n2

TwoWorkers == <<n1, n2>>
=============================================================================
