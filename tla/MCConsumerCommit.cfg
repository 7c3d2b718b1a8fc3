SPECIFICATION Spec
CONSTANTS
    Order = {}
    Item = {}
    Key = {}
    User = {}
    NoKey = NoKey
    Request = {}
    Topic = {"order.placed", "stock.release"}
    Message <- MCMessage
    MaxMessages = 2
    MaxRestarts = 2
INVARIANT CommittedImpliesProcessed
CHECK_DEADLOCK FALSE
