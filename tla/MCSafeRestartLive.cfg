SPECIFICATION SafeFairSpec
CONSTANTS
    Writers = {}
    Restarters = {r1, r2}
    EventTasks = {}
    RawWriters = {}
    FactoryTasks = {}
PROPERTIES
    RebootHappens
