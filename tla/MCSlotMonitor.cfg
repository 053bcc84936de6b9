SPECIFICATION FairSpec
CONSTANTS
    SlotTimeout = 2
    PerSlot = 2
    AvgSlot = 1
    Window = 2
    Capacity = 2
    MaxTime = 5
    MaxSlot = 3
    MaxSent = 4
    MaxExits = 1
INVARIANTS TypeOK TimeCountedOnce
PROPERTIES StallSinceLastSlot RecoveryIsSlow NextSlotTaken
CHECK_DEADLOCK FALSE
