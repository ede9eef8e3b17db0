-------------------------- MODULE MCSlotAllocation --------------------------
EXTENDS SlotAllocation, TLC

Symmetry == Permutations(Tasks) \cup Permutations(Hashes)

\* Bound of the pool run: only slot 1 ages, and what Logstash loads comes up.
OneSlotAges == \A s \in Slots : /\ s > 1 => age[s] = 0
                                /\ run[s] # None => up[s]
=============================================================================
