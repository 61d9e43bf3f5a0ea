SPECIFICATION WebSpec
CONSTANTS
    Check = 1
    ProbeMax = 0
    RestartMax = 1
    BootGrace = 1
    DownReboot = 2
    HealthyReset = 2
    ProbeEvery = 2
    RepairEvery = 1
    FailsToAct = 2
    MaxReboots = 1
    MaxReq = 2
    MaxProbe = 1
INVARIANTS
    BackToBackBounded
    OutagesFollowed
    RestartServed
    OkIsFresh
    OnlyAllowedServers
PROPERTIES
    NetRecovers
    RequestsServed
CHECK_DEADLOCK FALSE
