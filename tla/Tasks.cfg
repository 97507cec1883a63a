SPECIFICATION MCSpec
CONSTANTS
    t1 = t1
    t2 = t2
    w1 = w1
    w2 = w2
    Tasks = {t1, t2}
    Runs = {r1, r2}
    NoRun = NoRun
    NoTask = NoTask
    Workspaces = {w1, w2}
    Workspace <- SharedWorkspace
    Slots = 2
    Outcomes = {"completed", "cancelled"}
    Resumable = {t2}
    MaxCrashes = 2
    Stems = {"x"}
    MaxTasks = 3
    MaxMain = 2
    MaxTerminal = 1
    MaxBatch = 1
    MaxAsks = 1
    MaxRequests = 2
    MaxPlan = 2
    MaxQueued = 1
    MaxReports = 3
    MaxRevisions = 2
    QueueSize = 1
    MaxCalls = 3
    MaxBinds = 2
    CacheSize = 1
    MaxWrites = 2
    Limit = 2
    MaxChars = 2
    HitChars = 2
INVARIANTS
    OutcomeAgrees
    FinalAgrees
    ProcessedIsTold
    OneRunPerTask
    WorkspaceExclusive
    NobodyForgotten
    NeededKept
    PlansCarried
    ProgressTold
    CallsRunOnce
    NothingMissed
PROPERTIES
    WritesAccepted
    NamesStick
CHECK_DEADLOCK FALSE
