--------------------------- MODULE MCOsdRecovery ---------------------------
EXTENDS MCOsdAllocation, OsdRecovery
=============================================================================
