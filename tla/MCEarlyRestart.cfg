SPECIFICATION FairClusterSpec
CONSTANTS
    a1 = a1
    a2 = a2
    t1 = t1
    t2 = t2
    h1 = h1
    h2 = h2
    Agents = {a1, a2}
    Tasks = {t1}
    NoAgent = NoAgent
    NoTask = NoTask
    NoHandler = NoHandler
    Fits <- MCFits
    FreeSlots = {1}
    HeartbeatStatuses = {"Idle", "Busy"}
    ReportStates = {"Running", "Succeeded", "Failed"}
    Handlers = {h1}
    Lossy = FALSE
    MaxCrashes = 1
    EarlyRestart = TRUE
    SilentWorkers = {}
    PromptHandlers = TRUE
    UserCancels = {}
PROPERTIES
    TaskFinishes
