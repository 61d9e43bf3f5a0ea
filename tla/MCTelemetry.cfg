CONSTANTS
    Sectors = 3
    Slots = 2
    OldSlots = 3
    GenMod = 9
    MaxTime = 6
    MaxFaults = 2
    MaxCuts = 2
    MaxOld = 3
    MaxCapacity = 2
SPECIFICATION PartsSpec
INVARIANTS
    PositionFitsFlash
    NewestKept
    QueryNewest
PROPERTIES
    SampleLogImplemented
CHECK_DEADLOCK FALSE
