SPECIFICATION FairSpec
CONSTANTS
    StallThreshold = 2
    ReorgThreshold = 2
    Depths <- MCDepths
    Capacity = 2
    MaxQuiet = 4
    MaxSent = 3
    MaxExits = 1
INVARIANTS TypeOK DeepReorgsReported
PROPERTIES NotOverstated RecoveryOfStall StallNoticed
CHECK_DEADLOCK FALSE
