CONSTANTS
    MaxId = 5
    Ids <- MCIds
    NoId = 0
    Server = sv
    Clients = {sv, remote}
    Loadouts <- MCWeapon
    MaxCorpses = 1
    BagDropsFirst = FALSE
    Limited = FALSE
SPECIFICATION Spec
INVARIANT
    Linked
