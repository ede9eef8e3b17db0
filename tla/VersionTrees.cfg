CONSTANTS
    Agents = {a1, a2}
    Versions = {v1}
    MaxEdits = 2
    MaxFaults = 1
    MaxPrunes = 1
    System = System
SPECIFICATION FairSpec
CHECK_DEADLOCK FALSE
INVARIANTS TypeOK PruneSparesUsed
PROPERTIES FlipsToWhole AgentsCatchUp
