SPECIFICATION Spec
CONSTANTS
    Senders = {s1}
    NoOne = NoOne
    MaxConns = 2
    MaxEvents = 1
    MaxRx = 1
    ServerMay <- Troubles
    CloseWakesReceive = TRUE
INVARIANTS TypeOK SendHasSocket ReceiveHasSocket OneSocket WaiterIsOwed
PROPERTY IdentifyFirst
CHECK_DEADLOCK FALSE
