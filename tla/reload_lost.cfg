SPECIFICATION Spec
CONSTANTS
    None = None
    OwnUser = "bot"
    MaxEvents = 2
    MaxChanges = 4
    CachedGuilds = {g1, g2}
    CachedUsers = {user}
    CachedChannels = {channel}
    CachedThreads = {}
    CachedRoles = {role}
    ChannelTypes = {0, 5}
    GuildOf <- OneGuild
    MaxGuildChanges = 2
    MaxAnswers = 1
    Emojis = {"e"}
    MaxHandlers = 2
    VoiceUsers = {"u1", "u2"}
    VoiceChannels = {"c1", "c2"}
    MaxMoves = 4
    Entries = {"k1", "k2", "k3", "k4"}
    Ttl = 3
    Soft = 1
    Hard = 3
    Rate = 2
    Interval = 3
    MaxInterval = 7
    Multiplier = 2
    BurstRate = 4
    Waiters = {"w1", "w2", "w3"}
    Ids = {1, 2}
    Files = {"f1", "f2"}
    Sources <- SomeSources
    MaxMade = 4
    MaxUnloads = 3
    MaxEdits = 1
    Tree <- Group
    Words = {"g", "s", "1"}
    Numbers = {"1"}
    Signatures <- Functions
    MaxWords = 4
    Chunks <- TwoChunks
    MaxRequests = 2
    Parts = {"Extensions"}
INVARIANT ReloadKeeps
CHECK_DEADLOCK FALSE
