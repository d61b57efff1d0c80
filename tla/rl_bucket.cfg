SPECIFICATION FairSpec
CONSTANTS
    NoOne = NoOne
    Requests = {r1, r2, r3}
    Limit = 1
    MaxAttempts = 2
    Statuses <- All
INVARIANTS NoWakeUpLost SharedHasSemaphore
PROPERTY NobodyStuck
CHECK_DEADLOCK FALSE
