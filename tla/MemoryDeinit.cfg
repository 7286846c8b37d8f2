SPECIFICATION Spec
CONSTANTS
    MaxRows = 2
    MaxCols = 2
    MaxValues = 2
    AllocMayFail = FALSE
INVARIANT NothingLeftAfterDeinit
