CONSTANTS
    g = g
    a1 = a1
    a2 = a2
    a3 = a3
    b1 = b1
    b2 = b2
    Block = {g, a1, a2, b1, b2}
    Genesis = g
    Parent <- ParentOf
    Number <- NumberOf
    NoBlock = NoBlock
    NoMessage = NoMessage
    CheckpointEvery = 2
    Parallel = 2
    Capacity = 1
    MaxFailures = 1
SPECIFICATION FairSpec
INVARIANTS
    TypeOK
    CheckpointComplete
    StaleOnlyIfMissed
PROPERTIES
    KeepsUp
CHECK_DEADLOCK FALSE
