CONSTANTS
    MinValue = 1
    MaxValue = 5
    BlockSize = 2
    InvalidValue = 9
    MaxTime = 2
SPECIFICATION ClockedSpec
INVARIANTS
    TypeOK
    AvailableIsExact
PROPERTIES
    ImplementsIdPool
    RestsLongest
