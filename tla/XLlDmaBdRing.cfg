SPECIFICATION Spec
CONSTANTS
    BdCount = 3
    None = None
INVARIANTS
    RingInv
    WholePackets
PROPERTY
    ImplementsQueues
