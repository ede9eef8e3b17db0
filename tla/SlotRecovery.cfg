CONSTANTS
    NumSlots = 1
    Hashes = {h1, h2}
    Tasks = {t1, t2}
    Attempts = 2
    Kinds = {TRUE}
    MaxRecoveries = 1
    None = None
SPECIFICATION RTaskSpec
CONSTRAINT Quiet
INVARIANTS FollowersHaveLeader FlightsAreLed
PROPERTIES LeaderKeepsFlight EveryRequestAnswered
