--------------------------- MODULE MCSlotRecovery ---------------------------
EXTENDS SlotRecovery

\* Bound of the run with a managed Logstash: bookings do not age, what Logstash lists
\* is up, and the cleanup thread, for which no request waits, sleeps.  One of the
\* requests asks for one content only, the others for that one or another.
SomeTask == CHOOSE t \in Tasks : TRUE
SomeHash == CHOOSE h \in Hashes : TRUE
Quiet ==
    /\ \A s \in Slots : age[s] = 0
    /\ \A s \in Slots : run[s] # None => up[s]
    /\ sweep = "sleep"
    /\ hash[SomeTask] \in {None, SomeHash}
=============================================================================
