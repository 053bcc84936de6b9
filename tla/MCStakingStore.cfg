SPECIFICATION Spec
CONSTANTS
    o1 = o1
    o2 = o2
    owner = owner
    alice = alice
    Operators <- MCOperators
    Addresses <- MCAddresses
    Events <- MCEvents
    CheckpointEvery = 2
    Parallel = 2
    MaxFailures = 2
    MaxRewinds = 1
INVARIANTS TypeOK NominatorsExact LedgerExact CountsExact OperatorsExact
CHECK_DEADLOCK FALSE
