CONSTANTS
    g = g
    a1 = a1
    a2 = a2
    a3 = a3
    b1 = b1
    b2 = b2
    Block = {g, a1, b1}
    Genesis = g
    Parent <- ParentOf
    Number <- NumberOf
    NoBlock = NoBlock
    NoMessage = NoMessage
    CheckpointEvery = 2
    Parallel = 1
    Capacity = 2
    MaxFailures = 0
SPECIFICATION Spec
INVARIANTS
    ReorgOverwrites
CHECK_DEADLOCK FALSE
