CONSTANTS
    PolicyKeys = {a}
    SnmpKeys = {s}
    Passwords = {p, q}
    None = None
    Keep = Keep
    NoFile = NoFile
    MaxEdits = 2
    MaxFaults = 2
SPECIFICATION FairSpec
INVARIANTS  AckedKeysStored
 
CHECK_DEADLOCK FALSE
