SPECIFICATION MCSpec
CONSTANTS
    o1 = o1
    o2 = o2
    burger = burger
    NoKey = NoKey
    u1 = u1
    User = {u1}
    Order = {o1, o2}
    Item = {burger}
    Key = {}
    MaxLosses = 2
    PaymentSimulateDefault = "success"
    Request <- MCRequest
    Delivery <- MCDelivery
INVARIANT AtMostOneCharge
CHECK_DEADLOCK FALSE
