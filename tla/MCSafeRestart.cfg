SPECIFICATION Spec
CONSTANTS
    Writers = {w1}
    Restarters = {r1, f1}
    EventTasks = {e1}
    RawWriters = {n1}
    FactoryTasks = {f1}
INVARIANTS
    SafeResetFlashIdle
    EraseExclusive
