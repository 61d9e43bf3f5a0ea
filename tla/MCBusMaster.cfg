SPECIFICATION BusFairSpec
CONSTANTS
    Writers = {w1, w2}
    Restarters = {r1, r2}
INVARIANTS
    OneTransaction
    SoleMaster
    AtMostOneLateWrite
    CleanHandoff
PROPERTIES
    WaitsEnd
