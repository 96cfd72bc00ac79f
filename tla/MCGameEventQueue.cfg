CONSTANTS
    Objects = {o1, o2, o3}
    NoObject = null
    Clients = {c1, c2}
    Types = {started, killed}
    AlwaysTypes = {started}
    NoEvent = none
    Initial = 1
    Keep = 1
SPECIFICATION FairSpec
INVARIANTS
    TypeOK
    OneOwner
PROPERTIES
    ImplementsEventQueue
    EventuallyServed
