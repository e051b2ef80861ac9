SPECIFICATION FairClusterSpec
CONSTANTS
    a1 = a1
    a2 = a2
    t1 = t1
    t2 = t2
    h1 = h1
    h2 = h2
    Agents = {a1, a2}
    Tasks = {t1, t2}
    NoAgent = NoAgent
    NoTask = NoTask
    NoHandler = NoHandler
    Fits <- MCFits
    FreeSlots = {2}
    HeartbeatStatuses = {"Idle", "Busy"}
    ReportStates = {"Running", "Succeeded", "Failed"}
    Handlers = {h1, h2}
    Lossy = FALSE
    MaxCrashes = 2
    EarlyRestart = FALSE
    SilentWorkers = {}
    PromptHandlers = TRUE
    UserCancels = {}
INVARIANTS
    ClusterTypeOK
    LeaseIsKnown
    RunningIsAssigned
PROPERTIES
    TaskFinishes
    TerminalIsFinal
