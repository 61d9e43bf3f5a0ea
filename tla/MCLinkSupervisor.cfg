SPECIFICATION LinkFairSpec
CONSTANTS
    Check = 1
    PingMax = 1
    RoamMax = 1
    Fast = 1
    Grace = 1
    ReconnectEvery = 1
    RebootAfter = 3
    Notable = 0
    ReachGrace = 1
    BounceStep = 1
    MaxBounces = 1
INVARIANTS
    NetEventsMatched
PROPERTIES
    RebootOnlyAfterOutage
    LinkLossEscalates
    WedgeEscalates
CHECK_DEADLOCK FALSE
