SPECIFICATION Spec
CONSTANTS
    g = g
    m1 = m1
    Groups <- MCGroups
    OldGroups <- MCOldGroups
    NoGroup = NoGroup
    Posts <- MCPosts
    NoPost = NoPost
    MaxFetch = 1
    MaxNumb <- MCMaxNumb
    MaxAge = 1
    MaxTime = 1
INVARIANTS
    PostedOnce
    InOrder
    NoGroupOverlooked
PROPERTIES
    NoneLost
    NoticesAreTrue
