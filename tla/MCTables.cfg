SPECIFICATION Spec
CONSTANTS
    Structs <- MCStructs
    Lower <- MCLower
    Reserved = {"user"}
    Callable = {"user"}
    MaxRows = 2
INVARIANTS TypeOK  CauseMeansLoss EmptyMeansNothingGiven RefusalHasACause
PROPERTY TablesOnlyGrow
