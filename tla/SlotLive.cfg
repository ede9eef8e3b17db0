CONSTANTS
    NumSlots = 1
    Hashes = {h1}
    Tasks = {t1, t2}
    Attempts = 2
    Kinds = {FALSE}
    MaxRecoveries = 1
    None = None
SPECIFICATION RFairSpec
PROPERTY DeadSlotHeals
