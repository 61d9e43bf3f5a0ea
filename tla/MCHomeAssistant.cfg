SPECIFICATION HaSpec
CONSTANTS
    Ids = {i1, i2}
    Ops = {"power", "mode"}
    Runtime = "master"
    CacheSize = 2
    Attempts = 2
    MaxTokens = 2
    MaxWindows = 2
    MaxCommands = 4
    MaxGen = 2
    MaxBoots = 3
    Fds = {f1, f2}
    Clients = 2
    MaxVersion = 1
    MaxPushGen = 1
    MaxSessions = 2
    MaxStops = 1
INVARIANTS
    TokenHonoured
    CodeGoodOnce
    CommandsOnce
    SocketsRegistered
PROPERTIES
    EverythingAnswered
    ClientsConverge
CHECK_DEADLOCK FALSE
