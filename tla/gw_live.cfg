SPECIFICATION FairSpec
CONSTANTS
    Senders = {}
    NoOne = NoOne
    MaxConns = 2
    MaxEvents = 1
    MaxRx = 1
    ServerMay <- Stopping
    CloseWakesReceive = FALSE
PROPERTIES StopEnds ZombieReplaced
CHECK_DEADLOCK FALSE
