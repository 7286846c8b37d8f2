SPECIFICATION HSpec
CONSTANTS
    Clients = {c1, c2}
    Sessions = {s1, s2}
    Keys = {k1, k2}
    Table = T
    NoEntry = NoEntry
    NoSession = NoSession
    Ops = {"execQuery", "insert"}
    ExecKinds = {"begin", "commit"}
    InsertKinds = {"insert"}
    AllocMayFail = FALSE
SYMMETRY Symmetry
INVARIANTS HistoryTypeOK DuplicateIsReal
PROPERTIES PromisesKept
