SPECIFICATION SessionSpec
CONSTANTS
    c1 = c1
    c2 = c2
    e1 = e1
    p1 = p1
    p2 = p2
    NoUser = NoUser
    NoCall = NoCall
    Call = {c1, c2}
    Email = {e1}
    Unreadable = {e1}
    Password = {p1, p2}
    MaxTokens = 3
    Limit = 2
    MaxFailures = 1
    MaxLosses = 1
INVARIANT WorksOnce
CHECK_DEADLOCK FALSE
