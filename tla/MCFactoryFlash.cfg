SPECIFICATION Spec
CONSTANTS
    Writers = {}
    Restarters = {f1}
    EventTasks = {}
    RawWriters = {n1}
    FactoryTasks = {f1}
INVARIANTS
    FlashIdleAtEveryReset
