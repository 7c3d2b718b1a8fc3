SPECIFICATION FairSpec
CONSTANTS
    o1 = o1
    o2 = o2
    pizza = pizza
    NoKey = NoKey
    u1 = u1
    User = {u1}
    Order = {o1}
    Item = {pizza}
    Key = {}
    Request <- AnyRequest
    InitialStock <- MCStock
    PaymentSimulateDefault = "success"
    MaxFaults = 2
    MaxDrops = 0
ACTION_CONSTRAINT CommitsMatter
INVARIANTS
    TypeOK
    DirectiveHonoured
PROPERTIES
    OrdersSettle
    FailuresAreCompensated
CHECK_DEADLOCK FALSE
