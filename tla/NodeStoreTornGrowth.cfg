SPECIFICATION Spec
CONSTANTS
    Ids <- MCIds
    Points <- MCPoints
    None = None
    MaxIds <- MCMaxIds
    kMaxSaneNodeId = 12
    GrowFloor = 1
    MaxRecords = 2
    MaxCrashes = 2
INVARIANTS
    NoLostUpdate
