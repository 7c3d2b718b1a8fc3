SPECIFICATION ApiSpec
CONSTANTS
    o1 = o1
    o2 = o2
    c1 = c1
    c2 = c2
    c3 = c3
    u1 = u1
    u2 = u2
    k1 = k1
    k0 = k0
    EmptyKey = k0
    NoKey = NoKey
    NoAnswer = NoAnswer
    Order = {o1, o2}
    Call = {c1, c2, c3}
    User = {u1, u2}
    Key = {k1, k0}
    Item = {}
    Request <- MCRequest
    Delivery <- MCDelivery
SYMMETRY Symmetry
INVARIANT LoserIsAnswered
CHECK_DEADLOCK FALSE
