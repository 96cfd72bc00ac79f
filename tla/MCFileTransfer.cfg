\* An administrator wants a file of each of two clients, through one binder.
CONSTANTS
    a = a
    x = x
    y = y
    Clients = {a, x, y}
    Pairs <- MCTwo
    Kinds = {screenshot}
    Proxies = 2
    Binders = 1
    FileSize = 2
    MaxChunk = 1
    Garbage = {3}
    MaxRequests = 2
    MaxLeaves = 1
    None = none
SPECIFICATION FairSpec
INVARIANTS
    TypeOK
    SourceKept
    BindersServe
    Whole
PROPERTY Released
CHECK_DEADLOCK FALSE
