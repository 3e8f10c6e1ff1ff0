SPECIFICATION FairSpec
CONSTANTS
    s1 = s1
    s2 = s2
    t1 = t1
    a1 = a1
    a2 = a2
    NoProc = NoProc
    NoArt = NoArt
    Servers <- TwoServers
    Fetchers <- OneFetcher
    Arts <- TwoArts
    Batch = 2
    Mortal <- OneServer
    MayBreak = TRUE
    MayLackBody = TRUE
    MaySameSecond = FALSE
INVARIANTS
    ForgottenOnlyWhenCut
    CopyIsFile
    FailureDisappears
PROPERTIES
    MarkedIsAnswered
