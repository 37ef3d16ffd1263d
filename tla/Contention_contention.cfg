\* The guard and its pools; tasks, proposals and stars.
SPECIFICATION FairSpec
CONSTANTS
    c1 = c1
    c2 = c2
    c3 = c3
    h1 = h1
    h2 = h2
    h3 = h3
    Clients <- MCClients
    Boards = {"b1", "b2"}
    Keys = {"k"}
    KeyOf <- MCKeyOf
    Fans = {"p1", "p2"}
    Free = Free
    Asks <- MCAsks
    MaxAsks = 3
    MaxAborts = 1
    MaxCurrent = 2
    Handlers <- MCHandlers
    Instances = {"i1", "i2"}
    Repos = {"r1", "r2"}
    Home <- MCHome
    AdvisoryKeys = {"k"}
    AdvisoryKey <- MCKey
    LockPoolMax = 2
    MainPoolMax = 1
    MaxLosses = 2
INVARIANTS
    NumberingIsSerial
    StarsCounted
    GuardExcludes
PROPERTIES
    EveryCallEnds
CHECK_DEADLOCK FALSE
