SPECIFICATION Spec
CONSTANTS
    a1 = a1
    a2 = a2
    t1 = t1
    t2 = t2
    h1 = h1
    h2 = h2
    Agents = {a1, a2}
    Tasks = {t1, t2}
    NoAgent = NoAgent
    Fits <- MCFits
    FreeSlots = {0, 1, 2}
    HeartbeatStatuses = {"Idle", "Busy"}
    ReportStates = {"Queued", "Running", "Succeeded", "Failed", "Canceled"}
    Handlers = {h1, h2}
SYMMETRY Symmetry
INVARIANTS
    TypeOK
    OneLeasePerTask
    FinishedHoldsNoLease
    OfflineHoldsNoLease
PROPERTIES
    AgentLostOnlyBySweep
    ImplementsLease
