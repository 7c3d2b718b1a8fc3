SPECIFICATION Spec
CONSTANTS
    o1 = o1
    o2 = o2
    pizza = pizza
    NoKey = NoKey
    u1 = u1
    User = {u1}
    Order = {o1, o2}
    Item = {pizza}
    Key = {}
    Request <- MCRequest
    InitialStock <- MCStock
    PaymentSimulateDefault = "success"
    MaxFaults = 0
    MaxDrops = 1
ACTION_CONSTRAINT CommitsMatter
INVARIANTS
    StatusIsTrue
    StockConserved
PROPERTIES
    KeepsPromise
CHECK_DEADLOCK FALSE
