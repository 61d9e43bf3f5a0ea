SPECIFICATION OtaFairSpec
CONSTANTS
    Uploaders = {u1, u2}
    MaxFaults = 2
INVARIANTS
    AlwaysBootable
    OneFlasher
PROPERTIES
    MuteImageNotKept
    CommitsOnceReachable
