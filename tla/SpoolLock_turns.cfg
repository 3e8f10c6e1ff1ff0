SPECIFICATION FairSpec
CONSTANTS
    s1 = s1
    s2 = s2
    t1 = t1
    Servers <- MCServers
    Tools <- MCTools
    NoProc = NoProc
    MayNotOpen <- MCFailing
    MayDie = TRUE
INVARIANTS
    NothingLeftBehind
    WorkUnderLock
PROPERTIES
    AccessSpec
    WaiterServed
