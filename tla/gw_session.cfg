SPECIFICATION Spec
CONSTANTS
    Senders = {}
    NoOne = NoOne
    MaxConns = 3
    MaxEvents = 2
    MaxRx = 1
    ServerMay <- Sessions
    CloseWakesReceive = TRUE
INVARIANT InOrder
CHECK_DEADLOCK FALSE
