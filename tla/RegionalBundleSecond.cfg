SPECIFICATION BundleSpec
CONSTANTS
    Regions = {"north", "south"}
    Features = {"border", "inland"}
    InRegion <- MCInRegion
    Margin = 1
    LateHeader = FALSE
    MaxDiffs = 2
    MaxExports = 2
    MaxInstalls = 2
    MaxBreaks = 0
CONSTRAINT NoMishap
ACTION_CONSTRAINT MasterFirst
CHECK_DEADLOCK FALSE
INVARIANT SecondInstallIsSafe
