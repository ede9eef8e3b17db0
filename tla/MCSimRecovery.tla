--------------------------- MODULE MCSimRecovery ---------------------------
EXTENDS SimRecovery, TLC
=============================================================================
