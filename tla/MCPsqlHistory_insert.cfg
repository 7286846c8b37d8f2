SPECIFICATION HSpec
CONSTANTS
    Clients = {c1}
    Sessions = {s1}
    Keys = {k1}
    Table = T
    NoEntry = NoEntry
    NoSession = NoSession
    Ops = {"insert"}
    ExecKinds = {}
    InsertKinds = {"insert"}
    AllocMayFail = FALSE
INVARIANT InsertAlwaysAnswers
