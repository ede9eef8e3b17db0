------------------------------ MODULE SlotPool ------------------------------
(***************************************************************************)
(* What the slot table promises its callers, without slot numbers, ages or *)
(* locks: a bounded pool of distinct contents, kept in the order they were *)
(* booked, that gives up the oldest one only when it is full.              *)
(***************************************************************************)
EXTENDS Naturals, FiniteSets

CONSTANTS Size, Contents

VARIABLES
    pooled,   \* contents booked
    before    \* pairs of them, the one that was booked first in front

Init == pooled = {} /\ before = {}

Oldest(c) == c \in pooled /\ \A d \in pooled \ {c} : <<c, d>> \in before

\* The order of what is left without the contents C.
OrderWithout(C) == {p \in before : p[1] \notin C /\ p[2] \notin C}

\* The contents C go, and c comes in behind all others.
Exchange(C, c) ==
    /\ pooled' = (pooled \ C) \cup {c}
    /\ before' = OrderWithout(C) \cup ((pooled \ C) \X {c})

\* allocate_slot for a content no slot is booked for.
Book(c) ==
    /\ c \notin pooled
    /\ \/ Cardinality(pooled) < Size /\ Exchange({}, c)
       \/ Cardinality(pooled) = Size /\ \E d \in pooled : Oldest(d) /\ Exchange({d}, c)

\* Any of the evictions, or a release.
Vacate(C) ==
    /\ pooled' = pooled \ C
    /\ before' = OrderWithout(C)

Next == (\E c \in Contents : Book(c)) \/ (\E C \in SUBSET pooled : Vacate(C))

Spec == Init /\ [][Next]_<<pooled, before>>
=============================================================================
