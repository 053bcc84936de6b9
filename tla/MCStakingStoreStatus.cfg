SPECIFICATION Spec
CONSTANTS
    o1 = o1
    o2 = o2
    owner = owner
    alice = alice
    Operators <- MCOperators
    Addresses <- MCAddresses
    Events <- MCEventsReturn
    CheckpointEvery = 2
    Parallel = 2
    MaxFailures = 0
    MaxRewinds = 0
INVARIANT NewestStatusWins
CHECK_DEADLOCK FALSE
