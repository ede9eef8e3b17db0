CONSTANTS
    NumSlots = 2
    Hashes = {h1, h2, h3}
    Tasks = {t1}
    Attempts = 1
    None = None
SPECIFICATION Spec
SYMMETRY Symmetry

PROPERTY ImplementsPool
CONSTRAINT OneSlotAges
