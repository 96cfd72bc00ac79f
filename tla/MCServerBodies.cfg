CONSTANTS
    MaxId = 5
    Ids <- MCIds
    NoId = 0
    Server = sv
    Clients = {sv, remote}
    Loadouts <- MCNothing
    MaxCorpses = 1
    BagDropsFirst = TRUE
    Limited = FALSE
SPECIFICATION Spec
INVARIANT
    BodiesAccounted
