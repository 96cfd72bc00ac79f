CONSTANTS
    Changing = a
    RealTime = b
    Other = c
    Objects <- MCObjects
    Kinds <- MCKinds
    NoObject = null
    MaxRequests = 3
    MaxUpdate = 1
SPECIFICATION FairSpec
INVARIANTS
    TypeOK
    RegisteredAgrees
    FoundWhereSought
PROPERTIES
    NeverAfterUnregister
    OncePerFrame
    EventuallyCalled
