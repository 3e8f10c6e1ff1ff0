SPECIFICATION Spec
CONSTANTS
    s1 = s1
    s2 = s2
    r = r
    l = l
    a = a
    b = b
    n1 = n1
    GenInfo = GenInfo
    NoServer = NoServer
    NoGroup = NoGroup
    Servers <- MCServers
    Groups <- MCGroups
    Local <- MCLocal
    Arts <- MCArts
    Notices <- MCNone
    Reactions = {"nothing"}
    AutoUnsubscribe = FALSE
    MaxNumb <- MCFew
    MaxNew = 1
SYMMETRY MCSymmetry
INVARIANTS
    UniqueNumbers
    GrpInfoCoversOverviews
    CacheAgrees
PROPERTIES
    OverviewsKept
