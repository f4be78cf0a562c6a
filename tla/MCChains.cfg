SPECIFICATION ChainsSpec
CONSTANTS
    MaxBlocks = 10
    Reach = 2
    MAX_BATCH_SIZE = 3
    MaxMainBlocks = 6
    MaxWork = 2
INVARIANTS
    SearchesExact
    TipOrderSound
    PeerCheckAgrees
CHECK_DEADLOCK FALSE
