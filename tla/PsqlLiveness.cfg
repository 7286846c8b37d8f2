SPECIFICATION FairSpec
CONSTANTS
    Clients = {c1, c2}
    Sessions = {s1, s2}
    Keys = {k1}
    Table = T
    NoEntry = NoEntry
    NoSession = NoSession
    Ops = {"execQuery", "insert", "createTableFor"}
    ExecKinds = {"begin"}
    InsertKinds = {"insert"}
    AllocMayFail = FALSE
PROPERTY HangNeedsHolder
