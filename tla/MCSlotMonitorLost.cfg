SPECIFICATION FairSpec
CONSTANTS
    SlotTimeout = 2
    PerSlot = 1
    AvgSlot = 1
    Window = 2
    Capacity = 2
    MaxTime = 5
    MaxSlot = 3
    MaxSent = 4
    MaxExits = 0
PROPERTY SlotsMonitored
CHECK_DEADLOCK FALSE
