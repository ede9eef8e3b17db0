--------------------------- MODULE MCVersionTrees ---------------------------
EXTENDS VersionTrees, TLC
=============================================================================
