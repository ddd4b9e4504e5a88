CONSTANTS
    Tunnels = {t1}
    Requests = {r1, r2}
    Conns = {c1, c2}
    NoConn = NoConn
    Capacity = 1
    WireRoom = 1
    MaxCalls = 2
    MaxFaults = 1
SPECIFICATION Spec
INVARIANTS PublishSafe UpToDate
PROPERTIES OperationsFinish SubscriptionsEnd 
CHECK_DEADLOCK FALSE
