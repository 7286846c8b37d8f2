SPECIFICATION HSpec
CONSTANTS
    Clients = {c1}
    Sessions = {s1, s2}
    Keys = {k1}
    Table = T
    NoEntry = NoEntry
    NoSession = NoSession
    Ops = {"execQuery", "select", "selectJoin", "insert"}
    ExecKinds = {"begin", "commit", "copy", "empty", "rollback", "bad", "select"}
    InsertKinds = {"insert", "returning"}
    AllocMayFail = TRUE
SYMMETRY Symmetry
INVARIANTS DiesOnlyOfLossOrRows RefusedBlockIsEmpty BeliefInv
PROPERTIES ImplementsKeyTable
