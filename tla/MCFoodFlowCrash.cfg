SPECIFICATION Spec
CONSTANTS
    o1 = o1
    o2 = o2
    pizza = pizza
    NoKey = NoKey
    u1 = u1
    User = {u1}
    Order = {o1, o2}
    Item = {pizza}
    Key = {}
    Request <- FailingRequest
    InitialStock <- MCStock
    PaymentSimulateDefault = "success"
    MaxFaults = 1
    MaxDrops = 1
ACTION_CONSTRAINTS CommitsMatter PlacedEarly OneFailure
SYMMETRY Symmetry
INVARIANTS
    ConsistentAtRest
    OneStockVerdict
    ChargesNeedFaults
PROPERTIES
    StockReturnsOnlyOnFailure
CHECK_DEADLOCK FALSE
