--------------------------- MODULE MCOffPeakTasks ---------------------------
EXTENDS OffPeakTasks

=============================================================================
