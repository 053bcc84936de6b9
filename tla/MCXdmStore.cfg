SPECIFICATION ApiSpec
CONSTANTS
    Chains <- MCChains
    Parties <- MCParties
    Events <- MCEvents
    Segmented = {"domain"}
    SegmentSize = 2
    CheckpointEvery = 2
    Parallel = 2
    MaxFailures = 1
    MaxRewinds = 1
    Time <- MCTime
    MaxRecent = 2
INVARIANTS TypeOK CheckpointCovers NothingInvented HealthCovers RecentAreNewest
PROPERTY NothingUnsaid
CHECK_DEADLOCK FALSE
