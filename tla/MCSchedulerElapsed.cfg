CONSTANTS
    Changing = a
    RealTime = b
    Other = c
    Objects <- MCObjects
    Kinds <- MCKinds
    NoObject = null
    MaxRequests = 2
    MaxUpdate = 1
SPECIFICATION Spec
INVARIANT
    ElapsedIsTrue
