CONSTANTS
    MaxId = 5
    Ids <- MCIds
    NoId = 0
    Server = sv
    Clients = {sv, remote}
    Loadouts <- MCLoadouts
    MaxCorpses = 1
    BagDropsFirst = TRUE
    Limited = TRUE
SPECIFICATION Spec
INVARIANTS
    TypeOK
    Linked
    BagFirst
    SlotExclusive
    AvatarsLive
    CorpsesOfServer
    NeverStops
