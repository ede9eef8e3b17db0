CONSTANTS
    Dests = {d1}
    Confirmations = 3
    MaxPerHour = 2
SPECIFICATION SFairSpec
INVARIANTS STypeOK RecoveriesBounded
PROPERTIES StormIsKilled OutageIsNoticed
