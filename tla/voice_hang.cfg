SPECIFICATION FairSpec
CONSTANTS
    None = None
    Callers = {"t1", "t2", "t3"}
    MaxRequests = 2
    Window = 2
    Delays = {1, 3}
    Loops = {"l1", "l2"}
    Triggers <- OneOfEach
    MaxLag = 1
    MaxRunning = 2
    Far = 5
    Invocations = {"i1", "i2", "i3"}
    Keys = {"k1", "k2"}
    Commands <- AnyCommand
    Frames = 3
    PipeSize = 1
    BufferMax = 2
    LockedStream = FALSE
    MaxCalls = 2
    Guilds = {"g0", "g1"}
    MaxReadies = 2
    MaxChanges = 1
    Shards = {0, 1}
    Home <- HomeOf
    Concurrencies = {1, 2}
    MaxShardReadies = 3
    MaxFaults = 2
    Users = {"u1", "u2"}
    MaxPackets = 3
    Parts = {"VoiceLink"}
PROPERTY FailureHandled
CHECK_DEADLOCK FALSE
