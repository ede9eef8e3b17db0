CONSTANTS
    NumSlots = 1
    Hashes = {h1, h2}
    Tasks = {t1, t2}
    Attempts = 2
    None = None
SPECIFICATION Spec
SYMMETRY Symmetry
INVARIANTS SingleFlight FollowersCovered OwnFiles
PROPERTIES SweepSparesWorkers FailureSparesPeers
