\* What timeouts, loops and restarts bring to an end.  Of the calls one kind
\* is enough to fill the listener's permits; the reverse forward has one
\* connection whose client writes enough to fill the guest's queue and its loop's hand
\* while the guest's application does not read.
SPECIFICATION ServicesFairSpec
CONSTANTS
    Services = {"admission", "exec", "forward", "reverse", "supervision", "inventory", "terminal"}
    Callers = {a1, a2, a3, a4, a5}
    CallKinds = {"exec"}
    MaxHandshakes = 1
    MaxExecs = 1
    MaxFiles = 1
    MaxForwards = 1
    Nobody = Nobody
    NoFile = NoFile
    MaxOutput = 1
    PipeCap = 1
    EventCap = 1
    Uploads = {}
    InPlace = {}
    Files = {}
    Downloads = {}
    MaxParts = 1
    MaxRestarts = 0
    MaxChunks = 1
    ChannelCap = 1
    SocketCap = 1
    Conns = {n1}
    GuestWrites = 1
    ClientWrites = 3
    ChanCap = 1
    QueueCap = 1
    ForwardSlots = 2
    Controllers = {k1}
    Terms = {t1}
    MaxDeaths = 1
    RecipeCalls = {}
    MaxRevision = 2
    MaxKills = 1
    NoCall = NoCall
    Applications = {}
    RecipeCount = 2
    MaxBreaks = 1
    BoxCalls = {}
    BoxKinds = {"start"}
    MaxMisses = 1
    Boxes = {b1}
    Daemons = {h1, h2}
    MaxDeletes = 1
    MaxUpdates = 1
    MaxFaults = 1
    Keys = {"x", "detach"}
    MaxTyped = 2
    MaxPrinted = 1
    MaxResizes = 0
    InputCap = 1
    WireCap = 1
    Preparations = {}
    Nodes = {1, 2}
    Storages = {1, 2}
    Layouts <- MCLayouts
    Requests <- MCRequests
    MaxErrors = 1
    MaxChanges = 1
    Settings = {}
    SettingKinds = {"set", "unset", "keygen", "setup", "use"}
    MaxSignals = 1
    Visitors = {}
    VisitorKinds = {"pve", "key", "check"}
    Lifetime = 2
    IssueSlots = 1
    MaxTime = 3
    MaxSettings = 1
CHECK_DEADLOCK FALSE
INVARIANTS
    DataWhole
PROPERTIES
    CapacityReturns
    AgentReturns
    GoneForgotten
    LocalControl
