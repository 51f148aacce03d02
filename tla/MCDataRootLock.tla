--------------------------- MODULE MCDataRootLock ---------------------------
EXTENDS DataRootLock

=============================================================================
