SPECIFICATION BoundedSpec
CONSTANTS
    Ring = 2
    Slots = 3
    MaxId = 5
    MaxFailingId = 2
    MaxGen = 3
    MaxFaults = 2
INVARIANTS
    JournalDurable
PROPERTIES
    SoundImplementsDurableLog
    NeverForgets
CHECK_DEADLOCK FALSE
