SPECIFICATION FairSpec
CONSTANTS
    Senders = {}
    NoOne = NoOne
    MaxConns = 1
    MaxEvents = 1
    MaxRx = 1
    ServerMay <- Quiet
    CloseWakesReceive = TRUE
PROPERTY StopEnds
CHECK_DEADLOCK FALSE
