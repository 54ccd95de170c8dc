SPECIFICATION BundleSpec
CONSTANTS
    Regions = {"north", "south"}
    Features = {"border", "inland"}
    InRegion <- MCInRegion
    Margin = 1
    LateHeader = FALSE
    MaxDiffs = 2
    MaxExports = 2
    MaxInstalls = 2
    MaxBreaks = 1
CONSTRAINTS
    SequenceTrusted
    OneMishap
ACTION_CONSTRAINT MasterFirst
INVARIANTS
    BundleTypeOK
    InstalledRegionIsExact
    RegisteredIsUsable
CHECK_DEADLOCK FALSE
