SPECIFICATION LockingFairSpec
CONSTANTS
    o1 = o1
    o2 = o2
    burger = burger
    pizza = pizza
    w1 = w1
    w2 = w2
    NoKey = NoKey
    NoJob = NoJob
    u1 = u1
    User = {u1}
    Order = {o1, o2}
    Item = {burger, pizza}
    Key = {}
    Request <- MCRequest
    Replica = {w1, w2}
    Lines <- MCLines
    Delivery <- MCDelivery
    InitialStock <- MCInitialStock
INVARIANTS
    LockingTypeOK
    HeldIsAnnounced
    DraftsAreCurrent
    ReadStaysTrue
    DeadlockNeedsOpposedLines
PROPERTIES
    StockMovesWithOneReservation
    HandlersReturn
CHECK_DEADLOCK FALSE
