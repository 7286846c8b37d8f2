SPECIFICATION Spec
CONSTANTS
    MaxRows = 3
    MaxCols = 3
    MaxValues = 3
    AllocMayFail = TRUE
INVARIANTS TypeOK FreesAreOfLiveBlocks ResultIsWhole LeaksAreKnown
