----------------------------- MODULE MCSimQueue -----------------------------
EXTENDS SimQueue, TLC

\* Bound: simulate requests handled at once.
FewPosting == Cardinality(posting) <= 1
=============================================================================
