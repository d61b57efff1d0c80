SPECIFICATION FairSpec
CONSTANTS
    NoOne = NoOne
    Requests = {r1, r2, r3}
    Limit = 1
    MaxAttempts = 2
    Statuses <- Retried
PROPERTY RequestsEnd
CHECK_DEADLOCK FALSE
