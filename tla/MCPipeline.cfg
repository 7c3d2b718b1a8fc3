SPECIFICATION PipelineSpec
CONSTANTS
    o1 = o1
    o2 = o2
    r1 = r1
    r2 = r2
    NoRow = NoRow
    NoKey = NoKey
    Order = {o1, o2}
    Relay = {r1, r2}
    Item = {}
    Key = {}
    User = {}
    Request = {}
    Topic = {"payment.succeeded", "payment.failed"}
    Message <- MCMessage
    MaxMessages = 3
    MaxRestarts = 1
    MaxFailures = 1
INVARIANTS
    PipelineTypeOK
    DuplicatesNeedFailures
PROPERTIES
    EventsReachHandlers
    ImplementsOutbox
    ImplementsKafka
CHECK_DEADLOCK FALSE
