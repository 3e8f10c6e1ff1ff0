SPECIFICATION Spec
CONSTANTS
    s1 = s1
    s2 = s2
    r = r
    l = l
    a = a
    b = b
    n1 = n1
    GenInfo = GenInfo
    NoServer = NoServer
    NoGroup = NoGroup
    Servers <- MCServers
    Groups <- MCGroups
    Local <- MCLocal
    Arts <- MCArts
    Notices <- MCNotices
    Reactions = {"info"}
    AutoUnsubscribe = FALSE
    MaxNumb <- MCThree
    MaxNew = 2
SYMMETRY MCSymmetry
INVARIANTS
    UniqueNumbers
