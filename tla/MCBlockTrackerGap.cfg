CONSTANTS
    g = g
    a1 = a1
    a2 = a2
    b1 = b1
    b2 = b2
    Block = {g, a1, a2}
    Genesis = g
    Parent <- ParentOf
    Number <- NumberOf
    NoBlock = NoBlock
    NoMessage = NoMessage
    CacheHeaderDepth = 1
    MaxFailures = 1
SPECIFICATION Spec
INVARIANTS
    FeedExactAcrossReconnects
CHECK_DEADLOCK FALSE
