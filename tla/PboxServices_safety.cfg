\* All services, one per behaviour; no fairness is needed.
SPECIFICATION ServicesSpec
CONSTANTS
    Services = {"admission", "exec", "files", "forward", "reverse", "supervision",
                "cache", "apply", "commands", "inventory", "terminal", "templates", "config", "access"}
    Callers = {a1, a2, a3, a4, a5}
    CallKinds = {"exec", "put_file", "get_file", "forward"}
    MaxHandshakes = 1
    MaxExecs = 1
    MaxFiles = 1
    MaxForwards = 1
    Nobody = Nobody
    NoFile = NoFile
    MaxOutput = 2
    PipeCap = 1
    EventCap = 1
    Uploads = {u1, u2}
    InPlace = {u2}
    Files = {f1, f2}
    Downloads = {d1}
    MaxParts = 2
    MaxRestarts = 1
    MaxChunks = 2
    ChannelCap = 1
    SocketCap = 1
    Conns = {n1, n2}
    GuestWrites = 1
    ClientWrites = 0
    ChanCap = 1
    QueueCap = 1
    ForwardSlots = 2
    Controllers = {k1, k2}
    Terms = {t1, t2}
    MaxDeaths = 1
    RecipeCalls = {r1, r2, r3}
    MaxRevision = 2
    MaxKills = 1
    NoCall = NoCall
    Applications = {p1, p2}
    RecipeCount = 2
    MaxBreaks = 1
    BoxCalls = {c1, c2}
    BoxKinds = {"start", "stop", "restart", "delete", "checkpoint", "rollback"}
    MaxMisses = 1
    Boxes = {b1}
    Daemons = {h1, h2}
    MaxDeletes = 2
    MaxUpdates = 1
    MaxFaults = 2
    Keys = {"detach", "esc", "on", "chord"}
    MaxTyped = 2
    MaxPrinted = 1
    MaxResizes = 1
    InputCap = 1
    WireCap = 1
    Preparations = {i1, i2}
    Nodes = {1, 2}
    Storages = {1, 2}
    Layouts <- MCLayouts
    Requests <- MCRequests
    MaxErrors = 1
    MaxChanges = 1
    Settings = {q1, q2}
    SettingKinds = {"set", "unset", "keygen", "setup", "use"}
    MaxSignals = 1
    Visitors = {v1, v2}
    VisitorKinds = {"pve", "key", "check"}
    Lifetime = 2
    IssueSlots = 1
    MaxTime = 3
    MaxSettings = 1
VIEW ServiceView
CHECK_DEADLOCK FALSE
INVARIANTS
    ServicesTypeOK
    PermitsHeld
    DataWhole
    RecipesSound
    AnswersTrue
    TerminalFaithful
    TemplatesSound
    ConfigSound
    AccessSound
PROPERTIES
    TerminalsSurvive
