SPECIFICATION LocksFairSpec
CONSTANTS
    a1 = a1
    a2 = a2
    t1 = t1
    t2 = t2
    h1 = h1
    h2 = h2
    Agents = {a1, a2}
    Tasks = {t1}
    NoAgent = NoAgent
    NoTask = NoTask
    NoRow = NoRow
    Sweeper = Sweeper
    Fits <- MCFits
    FreeSlots = {0, 1}
    HeartbeatStatuses = {"Idle"}
    ReportStates = {"Running", "Succeeded"}
    Handlers = {h1, h2}
ACTION_CONSTRAINT
    Focus
INVARIANTS
    LocksTypeOK
    DeadlockTakesSweepAndWriter
PROPERTIES
    LocksImplementService
    LeaseEndsDespiteDeadlock
