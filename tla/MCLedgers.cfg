SPECIFICATION LedgersSpec
CONSTANTS
    DayLen = 3
    Offsets = {0, 1}
    StepsBack = {1}
    MaxStep = 1
    QueueLen = 1
    PerDay = 1
    DaysKept = 1
    SweepDays = 1
    StoreFails = TRUE
    Requests = TRUE
    MaxTime = 7
    MaxShifts = 1
    MaxBoots = 2
    DayTicks = 5
    MaxInterval = 1
    SaveInterval = 2
    Period = 1
    MaxGap = 2
    Zones = {0, 1}
    Gain = 1
    Summer = {3}
    ChangeTick = 2
    ClockSteps = {1}
    LastTime = 15
    MaxZones = 2
    MaxStarts = 3
INVARIANTS
    RunsKeptOnce
    EnergyCountedOnce
    LossBounded
PROPERTIES
    LedgersGrow
CHECK_DEADLOCK FALSE
