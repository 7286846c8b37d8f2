SPECIFICATION HSpec
CONSTANTS
    Clients = {c1, c2}
    Sessions = {s1, s2}
    Keys = {k1}
    Table = T
    NoEntry = NoEntry
    NoSession = NoSession
    Ops = {"execQuery", "createTableFor"}
    ExecKinds = {"begin", "commit"}
    InsertKinds = {}
    AllocMayFail = FALSE
SYMMETRY Symmetry
INVARIANTS RefusedBlockIsEmpty CreateRefusedOnlyIfThere BeliefInv
PROPERTIES ImplementsKeyTable
