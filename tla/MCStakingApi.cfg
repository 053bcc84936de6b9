SPECIFICATION ApiSpec
CONSTANTS
    o1 = o1
    owner = owner
    alice = alice
    bob = bob
    Operators <- MCOperators
    Addresses <- MCAddresses
    Events <- MCEvents
    CheckpointEvery = 2
    Parallel = 2
    MaxFailures = 0
    MaxRewinds = 1
    Operator = o1
    Address = alice
    Limit <- MCLimit
    MaxLimit = 1
INVARIANTS ToldIsFound CountsAgree
PROPERTIES NoneMissed PricesComplete
CHECK_DEADLOCK FALSE
