CONSTANTS
    Body = body
    Item1 = item1
    Item2 = item2
    Objects <- MCObjects
    Physical = {body}
    NoObject = null
    MaxUses <- MCUses
    AsCrows = {TRUE, FALSE}
SPECIFICATION Spec
SYMMETRY Items
INVARIANTS
    TypeOK
    CrowListed
    
    ParentsOutlive
