CONSTANTS
    Parts = {"identities", "antenna", "media"}
    Desks = {k1}
    MaxDrafts = 3
    MaxInbound = 1
    MaxSecond = 2
    MaxDraftRounds = 2
    Surprises = {"crash"}
    NoDraft = NoDraft
    DefaultLevels = {"auto", "ignored"}
    Requests = {"boss", "auto", "unattended", "ignored", "restore"}
    NoChat = NoChat
    WaIds = {m1, m2, m3}
    MaxUsage = 2
    MaxFail = 1
    Albums = {{1, 2}}
    Goroutines = {g1}
    MaxAttempts = 2
    MaxCaptures = 2
    MaxOutages = 1
    NoFile = NoFile
    MaxCodes = 2
    QrBuffer = 1
    MaxEvents = 2
    MaxTurns = 3
    Secondaries = {a1}
    AgentChats = {c1}
    Credentials = {x, y}
    Handlers = {"h", "k"}
    MaxMishaps = 1
    Nobody = Nobody
    Terminals = {t1, t2}
    Callers = {"push"}
    MaxConfigs = 1
    MaxRestarts = 1
    MaxSwitches = 1
    NoTerminal = NoTerminal
    Browsers = {"b"}
    Changers = {"h", "k"}
    MaxChanges = 2
    MaxSecrets = 2
    MaxRecoveryCodes = 1
    RecoveryTries = 2
    Clients = {"s"}
    RatePerMin = 4
    EmitRatePerMin = 2
    BlockThreshold = 2
    BlockCooldown = 2
    StaleAfter = 2
    MaxTicks = 5
    Contacts = {j1}
    Pictures = {p, q}
    AvatarQueue = 2
    MaxAsks = 2
    MaxResets = 1
    NoPicture = NoPicture
    MaxArrivals = 2
    Foreign = {}
    InboundBuffer = 1
    BusBuffer = 1
    Watchers = {w}
    Loads = {l1}
    ShellLoops = {"push"}
    MaxStoreErrors = 0
    MaxReaders = 1
    NoEvent = NoEvent
    Keep = 2
    MaxBackups = 4
    MaxCuts = 1
    MaxBlackouts = 1
    Models = {a, b}
    Ttls = {1, 2}
    IdleAfter = 2
    MaxClock = 5
    NoModel = NoModel
SPECIFICATION FairPartsSpec
INVARIANTS NothingLost ReferenceKept AntennaHolds
PROPERTIES HiddenChatMerges MediaSettles SessionHeals
CHECK_DEADLOCK FALSE
