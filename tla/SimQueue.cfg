CONSTANTS
    NumSlots = 2
    Contents = {a, b}
    MaxQueue = 2
    MaxRequests = 3
    None = None
SPECIFICATION QFairSpec
CONSTRAINT FewPosting
INVARIANTS QTypeOK QueueInOrder
PROPERTIES NoQuietLoss QueueDrains
