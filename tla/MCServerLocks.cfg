CONSTANTS
    Main = main
    Callbacks = {n1, n2}
    Clients = {c}
    None = none
    MaxDepth = 5
    MaxPackets = 2
SPECIFICATION Spec
CHECK_DEADLOCK FALSE
INVARIANTS
    TypeOK
    SendsUnderNeither
    OnlyDelayedDeadlock
PROPERTY
    PlayersKept
