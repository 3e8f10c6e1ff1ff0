SPECIFICATION ReadingSpec
CONSTANTS
    s1 = s1
    rem = rem
    loc = loc
    a = a
    n1 = n1
    GenInfo = GenInfo
    NoServer = NoServer
    NoGroup = NoGroup
    Servers <- MCServers
    Groups <- MCGroups
    Local <- MCLocal
    Arts <- MCArts
    Notices <- MCNotices
    Reactions = {"subscribe", "info"}
    AutoUnsubscribe = TRUE
    MaxNumb <- MCNumbers
    MaxNew = 1
INVARIANTS
    NextReachesAll
    RangesAreTold
    ListTellsGroup
PROPERTIES
    SubscriptionConfirmed
