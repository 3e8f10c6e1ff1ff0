SPECIFICATION Spec
CONSTANTS
    s1 = s1
    l = l
    r = r
    NoName = NoName
    Unloaded = Unloaded
    NoReader = NoReader
    Readers <- MCReaders
    Names <- MCNames
    Known <- MCKnown
    Remotes <- MCRemotes
    LOCAL_SERVER <- MCLocal
    MaxTime = 3
    MaxItems = 3
    MaxText = 3
INVARIANTS
    CacheIsRecord
    NewGroupsTold
    DeletesItsArticles
    NamesAreJudged
PROPERTIES
    RecordsStand
