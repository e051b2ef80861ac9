SPECIFICATION MongoSpec
CONSTANTS
    a1 = a1
    a2 = a2
    t1 = t1
    t2 = t2
    h1 = h1
    h2 = h2
    Agents = {a1, a2}
    Tasks = {t1}
    NoAgent = NoAgent
    NoTask = NoTask
    Fits <- MCFits
    FreeSlots = {1}
    ReportStates = {"Succeeded"}
    Handlers = {h1, h2}
SYMMETRY MongoSymmetry
INVARIANTS
    OfflineAgentRunsNothing
