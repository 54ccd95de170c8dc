SPECIFICATION Spec
CONSTANTS
 Tolerance = 1
 Jitter = 1
 Gap = 3
 Period = 1
 HaveKey = TRUE
 MaxPubs = 1
 MaxTime = 2
 MaxRuns = 1
 MaxFaults = 2
 TileCount = 5
 Published = {1, 3, 4, 5}
 BatchSize = 2
 Pool = {"a", "b"}
 MaxTerrainFaults = 2
 Cells = {"N", "S"}
 Bands = {"w", "e"}
 WmmPeriod = 1
 MaxWmmTime = 2
 MaxWmmRuns = 1
 MaxWmmFaults = 1
INVARIANTS AeronauticalTypeOK IncompleteIsDue StaleIsDue NoDoubledRows TileLoadedOnce CleanRunIsComplete DeclinationResumable BandsFollowRaster
PROPERTIES NoSpuriousReload TablesEventuallyFresh
