---------------------------- MODULE ClusterProofs ----------------------------
(***************************************************************************)
(* Proofs about Cluster: workers and users only do to the master what      *)
(* ControlService allows, so its theorems hold in the cluster; and a live  *)
(* worker knows all its leases, when requests are not lost and a crashed   *)
(* worker stays away until the sweep has missed it.                        *)
(***************************************************************************)
EXTENDS Cluster, ControlServiceProofs

-----------------------------------------------------------------------------
(* The workers' own state *)

WorkerTypes ==
    /\ phase \in [Agents -> Phases]
    /\ batch \in [Agents -> SUBSET Tasks]
    /\ current \in [Agents -> Tasks \union {NoTask}]
    /\ wait \in [Agents -> Handlers \union {NoHandler}]

HandsOK == WorkerTypes /\ HandsInv

LEMMA HandsInit == ClusterInit => HandsOK
BY ClusterAssumption DEF ClusterInit, HandsOK, WorkerTypes, HandsInv, Phases

LEMMA HandsNext == HandsOK /\ [ClusterNext]_clusterVars => HandsOK'
<1> SUFFICES ASSUME HandsOK, [ClusterNext]_clusterVars
             PROVE  HandsOK'
    OBVIOUS
<1> USE ClusterAssumption DEF HandsOK, WorkerTypes, HandsInv, Phases
<1>0. ASSUME UNCHANGED <<phase, batch, current, wait>>
      PROVE  HandsOK'
      BY <1>0
<1>1. ASSUME NEW a \in Agents, StartWorker(a) \/ RegistrationLost(a)
      PROVE  HandsOK'
      BY <1>1 DEF StartWorker, RegistrationLost, MayStart, workerVars, Goto
<1>2. ASSUME NEW a \in Agents, TickHeartbeat(a)
      PROVE  HandsOK'
      BY <1>2 DEF TickHeartbeat, Goto
<1>3. ASSUME NEW a \in Agents, PollAnswered(a)
      PROVE  HandsOK'
      BY <1>3 DEF PollAnswered, Goto
<1>4. ASSUME NEW a \in Agents, PollFails(a)
      PROVE  HandsOK'
      BY <1>4 DEF PollFails, Goto
<1>5. ASSUME NEW a \in Agents, NEW t \in Tasks, ReportRunning(a, t)
      PROVE  HandsOK'
      BY <1>5 DEF ReportRunning, SendReport, Goto
<1>6. ASSUME NEW a \in Agents, BeginExecution(a)
      PROVE  HandsOK'
      BY <1>6 DEF BeginExecution, Goto
<1>7. ASSUME NEW a \in Agents, BusyHeartbeat(a)
      PROVE  HandsOK'
      BY <1>7, <1>0 DEF BusyHeartbeat, workerVars
<1>8. ASSUME NEW a \in Agents, StopCanceled(a)
      PROVE  HandsOK'
      BY <1>8 DEF StopCanceled, LeaveTask, Goto
<1>9. ASSUME NEW a \in Agents, NEW r \in {"Succeeded", "Failed"}, ReportResult(a, r)
      PROVE  HandsOK'
      BY <1>9 DEF ReportResult, SendReport, Goto
<1>10. ASSUME NEW a \in Agents, NextTask(a)
      PROVE  HandsOK'
      BY <1>10 DEF NextTask, LeaveTask, Goto
<1>11. ASSUME NEW a \in Agents, Crash(a)
      PROVE  HandsOK'
      BY <1>11 DEF Crash, Goto
<1>12. ASSUME NEW a \in Agents, NEW t \in Tasks, OrphanExits(a, t)
      PROVE  HandsOK'
      BY <1>12, <1>0 DEF OrphanExits
<1>13. ASSUME ReleaseWaiting, UNCHANGED <<phase, batch, current>>
      PROVE  HandsOK'
      BY <1>13 DEF ReleaseWaiting
<1>14. ASSUME NEW h \in Handlers, Write(h)
      PROVE  HandsOK'
      BY <1>14, <1>13 DEF Write
<1>15. CASE MasterFails
      BY <1>15, <1>13 DEF MasterFails
<1>16. CASE User
      BY <1>16, <1>0 DEF User, workerVars
<1>17. CASE Sweep
      BY <1>17, <1>0 DEF Sweep, workerVars
<1>18. ASSUME NEW a \in Agents, Silence(a)
      PROVE  HandsOK'
      BY <1>18, <1>0 DEF Silence, workerVars
<1>19. CASE UNCHANGED clusterVars
      BY <1>19, <1>0 DEF clusterVars, workerVars
<1> QED
    BY <1>1, <1>2, <1>3, <1>4, <1>5, <1>6, <1>7, <1>8, <1>9, <1>10, <1>11, <1>12,
       <1>14, <1>15, <1>16, <1>17, <1>18, <1>19 DEF ClusterNext, Worker

-----------------------------------------------------------------------------
(* The cluster does to the master what ControlService allows *)

LEMMA MasterStep == HandsOK /\ [ClusterNext]_clusterVars => [Next]_vars
<1> SUFFICES ASSUME HandsOK, [ClusterNext]_clusterVars
             PROVE  [Next]_vars
    OBVIOUS
<1>0. ASSUME UNCHANGED masterVars
      PROVE  [Next]_vars
      BY <1>0 DEF vars, masterVars
<1>r. ASSUME NEW a \in Agents, NEW t \in Tasks,
             NEW to \in {"Running", "Succeeded", "Failed"}, SendReport(a, t, to)
      PROVE  [Next]_vars
      BY <1>r, <1>0, ClusterAssumption DEF SendReport, Next
<1>1. ASSUME NEW a \in Agents, StartWorker(a) \/ RegistrationLost(a)
      PROVE  [Next]_vars
      BY <1>1 DEF StartWorker, RegistrationLost, Next
<1>2. ASSUME NEW a \in Agents, TickHeartbeat(a)
      PROVE  [Next]_vars
      BY <1>2, <1>0, ClusterAssumption DEF TickHeartbeat, Next
<1>3. ASSUME NEW a \in Agents, PollAnswered(a)
      PROVE  [Next]_vars
      BY <1>3 DEF PollAnswered, Next
<1>4. ASSUME NEW a \in Agents, PollFails(a)
      PROVE  [Next]_vars
      BY <1>4, <1>0 DEF PollFails, Next
<1>5. ASSUME NEW a \in Agents, NEW t \in Tasks, ReportRunning(a, t)
      PROVE  [Next]_vars
      BY <1>5, <1>r DEF ReportRunning
<1>6. ASSUME NEW a \in Agents, BeginExecution(a)
      PROVE  [Next]_vars
      BY <1>6, <1>0 DEF BeginExecution
<1>7. ASSUME NEW a \in Agents, BusyHeartbeat(a)
      PROVE  [Next]_vars
      BY <1>7, ClusterAssumption DEF BusyHeartbeat, Next
<1>8. ASSUME NEW a \in Agents, StopCanceled(a)
      PROVE  [Next]_vars
      BY <1>8, <1>0 DEF StopCanceled
<1>9. ASSUME NEW a \in Agents, NEW r \in {"Succeeded", "Failed"}, ReportResult(a, r)
      PROVE  [Next]_vars
  <2>1. current[a] \in Tasks
        BY <1>9 DEF ReportResult, HandsOK, HandsInv
  <2> QED BY <1>9, <1>r, <2>1 DEF ReportResult
<1>10. ASSUME NEW a \in Agents, NextTask(a)
      PROVE  [Next]_vars
      BY <1>10, <1>0 DEF NextTask
<1>11. ASSUME NEW a \in Agents, Crash(a)
      PROVE  [Next]_vars
      BY <1>11, <1>0 DEF Crash
<1>12. ASSUME NEW a \in Agents, NEW t \in Tasks, OrphanExits(a, t)
      PROVE  [Next]_vars
      BY <1>12, <1>0 DEF OrphanExits
<1>13. ASSUME NEW h \in Handlers, Write(h)
      PROVE  [Next]_vars
      BY <1>13 DEF Write, Next
<1>14. CASE MasterFails
      BY <1>14 DEF MasterFails, Next
<1>15. CASE User
      BY <1>15, ClusterAssumption DEF User, Next
<1>16. CASE Sweep
      BY <1>16 DEF Sweep, Next
<1>17. ASSUME NEW a \in Agents, Silence(a)
      PROVE  [Next]_vars
      BY <1>17 DEF Silence, Next
<1>18. CASE UNCHANGED clusterVars
      BY <1>18, <1>0 DEF clusterVars
<1> QED
    BY <1>1, <1>2, <1>3, <1>4, <1>5, <1>6, <1>7, <1>8, <1>9, <1>10, <1>11, <1>12,
       <1>13, <1>14, <1>15, <1>16, <1>17, <1>18 DEF ClusterNext, Worker

\* Seen from the database, the cluster is a behaviour of the control service.
THEOREM ClusterImplementsControlService == ClusterSpec => Spec
<1>1. ClusterInit => Init
      BY DEF ClusterInit
<1> QED BY <1>1, HandsInit, HandsNext, MasterStep, PTL DEF ClusterSpec, Spec

\* The processes and the crashes that remain.
ProcsTyped == procs \subseteq Agents \X Tasks /\ crashes \in 0 .. MaxCrashes

LEMMA ProcsTypedNext == HandsOK /\ ProcsTyped /\ [ClusterNext]_clusterVars => ProcsTyped'
<1> SUFFICES ASSUME HandsOK, ProcsTyped, [ClusterNext]_clusterVars
             PROVE  ProcsTyped'
    OBVIOUS
<1>1. ASSUME NEW a \in Agents, BeginExecution(a)
      PROVE  ProcsTyped'
  <2>1. current[a] \in Tasks
        BY <1>1 DEF BeginExecution, HandsOK, HandsInv
  <2> QED BY <1>1, <2>1 DEF BeginExecution, ProcsTyped
<1>2. ASSUME NEW a \in Agents, Crash(a)
      PROVE  ProcsTyped'
      BY <1>2, ClusterAssumption DEF Crash, ProcsTyped
<1>3. ASSUME procs' \subseteq procs, crashes' = crashes
      PROVE  ProcsTyped'
      BY <1>3 DEF ProcsTyped
<1>4. ASSUME NEW a \in Agents, Worker(a)
      PROVE  ProcsTyped'
      BY <1>1, <1>2, <1>3, <1>4
         DEF Worker, StartWorker, RegistrationLost, TickHeartbeat, PollAnswered, PollFails,
             ReportRunning, BusyHeartbeat, StopCanceled, ReportResult, NextTask, OrphanExits, workerVars
<1> QED
    BY <1>3, <1>4
       DEF ClusterNext, Silence, Write, MasterFails, User, Sweep, clusterVars, workerVars

\* The workers' state, the database and the calls keep their types, whatever the network,
\* the users and the crashes do.
THEOREM ClusterTypeCorrect == ClusterSpec => []ClusterTypeOK
<1>1. ClusterInit => HandsOK /\ ProcsTyped
      BY HandsInit, ClusterAssumption DEF ClusterInit, ProcsTyped
<1>2. HandsOK /\ ProcsTyped /\ [ClusterNext]_clusterVars => (HandsOK /\ ProcsTyped)'
      BY HandsNext, ProcsTypedNext
<1>3. TypeOK /\ HandsOK /\ ProcsTyped => ClusterTypeOK
      BY DEF HandsOK, WorkerTypes, ProcsTyped, ClusterTypeOK
<1> QED
    BY <1>1, <1>2, <1>3, ClusterImplementsControlService, TypeCorrect, PTL DEF ClusterSpec

\* No two workers ever hold a lease on one task, whatever is lost, whoever
\* crashes and however long a worker is silent.
THEOREM ClusterAtMostOneLease == ClusterSpec => []OneLeasePerTask
BY ClusterImplementsControlService, AtMostOneLease, PTL

\* Workers, crashes and lost messages included, tasks are dispatched as the lease table
\* promises: granted only when they wait, and free again only by an end or an expiry.
THEOREM ClusterImplementsLease == ClusterSpec => ImplementsLease
BY ClusterImplementsControlService, Refinement, PTL

\* As no worker reports "queued", a task in the queue can be polled and a lease is only on
\* a Running task, whatever users cancel and whichever reports come late.
THEOREM ClusterKeepsQueue ==
    ASSUME "Queued" \notin ReportStates
    PROVE  ClusterSpec => []QueuedIsPollable /\ []LeaseMeansRunning
BY ClusterImplementsControlService, QueueIsPollable, LeasedTasksRun, PTL

-----------------------------------------------------------------------------
(* A live worker knows its leases *)

\* Requests are answered, a crashed worker comes back only when the sweep has taken the
\* tasks that were leased to it, and the requests carry what the workers send.
Dependable ==
    /\ ~Lossy
    /\ ~EarlyRestart
    /\ "Offline" \notin HeartbeatStatuses
    /\ "Queued" \notin ReportStates

\* The part of ResultInv and LeaseIsKnown about one worker.
ResultOf(a) ==
    phase[a] = "finishing" =>
        IF wait[a] = NoHandler
        THEN ~HasLease(current[a], a)
        ELSE /\ call[wait[a]] \in Reports
             /\ call[wait[a]].task = current[a]
             /\ call[wait[a]].to \in TerminalStates

KnownTo(a) ==
    \A t \in Tasks :
        HasLease(t, a) /\ phase[a] # "down" => t \in batch[a] \union {current[a]}

KnownInv ==
    /\ LeaseInv
    /\ OfflineHoldsNoLease
    /\ QueuedIsPollable
    /\ HandsOK
    /\ ResultInv
    /\ LeaseIsKnown

LEMMA KnownParts ==
    /\ ResultInv <=> \A a \in Agents : ResultOf(a)
    /\ LeaseIsKnown <=> \A a \in Agents : KnownTo(a)
BY DEF ResultInv, LeaseIsKnown, ResultOf, KnownTo

\* A task that is not Running is leased to nobody.
LEMMA NotRunningNotLeased ==
    ASSUME KnownInv, NEW t \in Tasks, taskState[t] # "Running", NEW a \in Agents
    PROVE  ~HasLease(t, a)
<1>1. taskState[t] \in {"Queued", "Absent"} \union TerminalStates
      BY DEF KnownInv, LeaseInv, TypeOK, DbTypeOK, TaskStates, TerminalStates
<1>2. CASE taskState[t] = "Queued"
      BY <1>2, NoAgentAssumption DEF KnownInv, LeaseInv, OneLeasePerTask, QueuedIsPollable
<1>3. CASE taskState[t] # "Queued"
      BY <1>1, <1>3 DEF KnownInv, LeaseInv, FinishedHoldsNoLease
<1> QED BY <1>2, <1>3

\* No lease of a begins in this step.
NoNewLease(a) == \A t \in Tasks : HasLease(t, a)' => HasLease(t, a)

LEMMA PollOfOther ==
    ASSUME KnownInv, NEW a \in Agents, NEW n \in FreeSlots, HandlePollTasks(a, n),
           NEW b \in Agents, b # a
    PROVE  NoNewLease(b)
<1> USE DEF HasLease, NoNewLease
<1>1. CASE UNCHANGED <<agentStatus, taskVars>>
      BY <1>1 DEF taskVars
<1>2. ASSUME NEW S \in SUBSET Dispatchable(a), Dispatch(a, S)
      PROVE  NoNewLease(b)
      BY <1>2 DEF Dispatch, KnownInv, LeaseInv, TypeOK, DbTypeOK
<1> QED BY <1>1, <1>2, PollCases

LEMMA ClosingEndsLeases ==
    ASSUME KnownInv, NEW t \in Tasks, CloseRowsOf(t), NEW a \in Agents
    PROVE  NoNewLease(a) /\ ~HasLease(t, a)'
BY DEF CloseRowsOf, KnownInv, LeaseInv, TypeOK, DbTypeOK, HasLease, NoNewLease

\* A step that neither moves worker b nor serves it keeps its part.
LEMMA Bystander ==
    ASSUME KnownInv, NEW b \in Agents,
           phase'[b] = phase[b], batch'[b] = batch[b], current'[b] = current[b],
           wait'[b] = wait[b],
           wait[b] # NoHandler /\ call[wait[b]] \in Reports =>
               call'[wait[b]] = call[wait[b]],
           NoNewLease(b)
    PROVE  ResultOf(b)' /\ KnownTo(b)'
<1>1. ResultOf(b) /\ KnownTo(b)
      BY KnownParts DEF KnownInv
<1>2. phase[b] = "finishing" => current[b] \in Tasks
      BY DEF KnownInv, HandsOK, HandsInv
<1> QED BY <1>1, <1>2 DEF ResultOf, KnownTo, NoNewLease

\* The workers other than a, in a step of a that leaves the leases alone and
\* gives at most one idle handler something to do.
LEMMA BystandersOf ==
    ASSUME KnownInv, NEW a \in Agents, UNCHANGED openRows,
           \A b \in Agents \ {a} :
               /\ phase'[b] = phase[b] /\ batch'[b] = batch[b]
               /\ current'[b] = current[b] /\ wait'[b] = wait[b],
           \A h \in Handlers : call[h] # Idle => call'[h] = call[h]
    PROVE  \A b \in Agents \ {a} : ResultOf(b)' /\ KnownTo(b)'
<1> SUFFICES ASSUME NEW b \in Agents \ {a}
             PROVE  ResultOf(b)' /\ KnownTo(b)'
    OBVIOUS
<1>1. wait[b] \in Handlers \union {NoHandler}
      BY DEF KnownInv, HandsOK, WorkerTypes
<1>2. wait[b] # NoHandler /\ call[wait[b]] \in Reports => call'[wait[b]] = call[wait[b]]
      BY <1>1 DEF Reports, Idle
<1>3. NoNewLease(b)
      BY DEF NoNewLease, HasLease
<1> QED BY <1>2, <1>3, Bystander

\* A report that is sent.
LEMMA SendReportEffect ==
    ASSUME KnownInv, NEW a \in Agents, NEW t, NEW to, SendReport(a, t, to)
    PROVE  /\ UNCHANGED openRows
           /\ \A b \in Agents \ {a} : wait'[b] = wait[b]
           /\ \A h \in Handlers : call[h] # Idle => call'[h] = call[h]
BY DEF SendReport, CheckReport, masterVars, dbVars, KnownInv, LeaseInv, TypeOK,
       HandsOK, WorkerTypes

LEMMA KnownWorker ==
    ASSUME Dependable, KnownInv, NEW a \in Agents, Worker(a), LeaseInv', HandsOK',
           NEW b \in Agents
    PROVE  ResultOf(b)' /\ KnownTo(b)'
<1> DEFINE P == ResultOf(b)' /\ KnownTo(b)'
<1> USE DEF KnownInv, HandsOK, WorkerTypes
<1>a. ResultOf(a) /\ KnownTo(a)
      BY KnownParts
<1>m. ASSUME UNCHANGED masterVars
      PROVE  /\ UNCHANGED openRows
             /\ \A h \in Handlers : call[h] # Idle => call'[h] = call[h]
      BY <1>m DEF masterVars, dbVars
<1>1. CASE StartWorker(a)
  <2>1. UNCHANGED <<openRows, call>>
        BY <1>1 DEF StartWorker, HandleUpsertAgent, UpsertAgent, taskVars
  <2>2. \A t \in Tasks : ~HasLease(t, a)
        BY <1>1 DEF StartWorker, MayStart, Dependable
  <2>3. phase'[a] = "idle"
        BY <1>1 DEF StartWorker, Goto
  <2>4. ResultOf(a)' /\ KnownTo(a)'
        BY <2>1, <2>2, <2>3 DEF ResultOf, KnownTo, HasLease
  <2>5. \A c \in Agents \ {a} : ResultOf(c)' /\ KnownTo(c)'
        BY <1>1, <2>1, BystandersOf DEF StartWorker, Goto
  <2> QED BY <2>4, <2>5
<1>2. CASE TickHeartbeat(a)
  <2>1. UNCHANGED <<openRows, call>>
        BY <1>2 DEF TickHeartbeat, HandleAgentHeartbeat, UpdateHeartbeat, taskVars,
                    masterVars, dbVars
  <2>2. phase'[a] = "polling" /\ phase[a] = "idle"
        BY <1>2 DEF TickHeartbeat, Goto
  <2>3. ResultOf(a)' /\ KnownTo(a)'
        BY <1>2, <1>a, <2>1, <2>2 DEF TickHeartbeat, ResultOf, KnownTo, HasLease
  <2>4. \A c \in Agents \ {a} : ResultOf(c)' /\ KnownTo(c)'
        BY <1>2, <2>1, BystandersOf DEF TickHeartbeat, Goto
  <2> QED BY <2>3, <2>4
<1>3. CASE PollAnswered(a)
  <2>1. PICK n \in FreeSlots : HandlePollTasks(a, n)
        BY <1>3 DEF PollAnswered
  <2>2. UNCHANGED call
        BY <2>1 DEF HandlePollTasks
  <2>3. CASE b = a
    <3>1. \A t \in Tasks : ~HasLease(t, a)
      <4>1. batch[a] = {} /\ phase[a] = "polling" /\ current[a] \notin Tasks
            BY <1>3 DEF PollAnswered, HandsInv
      <4> QED BY <1>a, <4>1 DEF KnownTo
    <3>2. batch'[a] = {t \in Tasks : openRows'[t][a] > openRows[t][a]}
          BY <1>3 DEF PollAnswered
    <3>3. \A t \in Tasks : openRows[t][a] = 0 /\ openRows'[t][a] \in Nat
          BY <3>1 DEF HasLease, LeaseInv, TypeOK, DbTypeOK
    <3>4. \A t \in Tasks : HasLease(t, a)' => t \in batch'[a]
          BY <3>2, <3>3 DEF HasLease
    <3>5. phase'[a] # "finishing"
          BY <1>3 DEF PollAnswered, Goto
    <3> QED BY <2>3, <3>4, <3>5 DEF ResultOf, KnownTo
  <2>4. CASE b # a
        BY <1>3, <2>1, <2>2, <2>4, PollOfOther, Bystander DEF PollAnswered, Goto
  <2> QED BY <2>3, <2>4
<1>4. ~PollFails(a) /\ ~RegistrationLost(a)
      BY DEF PollFails, RegistrationLost, Dependable
<1>5. ASSUME NEW t \in Tasks, ReportRunning(a, t)
      PROVE  P
  <2>1. UNCHANGED openRows
        BY <1>5, SendReportEffect DEF ReportRunning
  <2>2. phase'[a] = "starting" /\ phase[a] = "received"
        BY <1>5 DEF ReportRunning, Goto
  <2>3. batch[a] \subseteq batch'[a] \union {current'[a]}
        BY <1>5 DEF ReportRunning
  <2>4. current[a] \notin Tasks
        BY <2>2 DEF HandsInv
  <2>5. ResultOf(a)' /\ KnownTo(a)'
        BY <1>a, <2>1, <2>2, <2>3, <2>4 DEF ResultOf, KnownTo, HasLease
  <2>6. \A c \in Agents \ {a} : ResultOf(c)' /\ KnownTo(c)'
        BY <1>5, SendReportEffect, BystandersOf DEF ReportRunning, Goto
  <2> QED BY <2>5, <2>6
<1>6. CASE BeginExecution(a)
  <2>1. phase'[a] = "executing" /\ phase[a] = "starting"
        BY <1>6 DEF BeginExecution, Goto
  <2>2. ResultOf(a)' /\ KnownTo(a)'
        BY <1>6, <1>a, <1>m, <2>1 DEF BeginExecution, ResultOf, KnownTo, HasLease
  <2>3. \A c \in Agents \ {a} : ResultOf(c)' /\ KnownTo(c)'
        BY <1>6, <1>m, BystandersOf DEF BeginExecution, Goto
  <2> QED BY <2>2, <2>3
<1>7. CASE BusyHeartbeat(a)
  <2>1. UNCHANGED <<openRows, call, workerVars>>
        BY <1>7 DEF BusyHeartbeat, HandleAgentHeartbeat, UpdateHeartbeat, taskVars
  <2> QED BY <2>1, Bystander DEF workerVars, NoNewLease, HasLease
<1>8. CASE StopCanceled(a)
  <2>1. ~HasLease(current[a], a)
    <3>1. current[a] \in Tasks
          BY <1>8 DEF StopCanceled, HandsInv
    <3> QED BY <1>8, <3>1, NotRunningNotLeased DEF StopCanceled, StopsFor
  <2>2. phase'[a] \in {"idle", "received"} /\ batch'[a] = batch[a] /\ phase[a] = "executing"
        BY <1>8 DEF StopCanceled, LeaveTask, Goto
  <2>3. ResultOf(a)' /\ KnownTo(a)'
        BY <1>8, <1>a, <1>m, <2>1, <2>2 DEF StopCanceled, ResultOf, KnownTo, HasLease
  <2>4. \A c \in Agents \ {a} : ResultOf(c)' /\ KnownTo(c)'
        BY <1>8, <1>m, BystandersOf DEF StopCanceled, LeaveTask, Goto
  <2> QED BY <2>3, <2>4
<1>9. ASSUME NEW r \in {"Succeeded", "Failed"}, ReportResult(a, r)
      PROVE  P
  <2>1. current[a] \in Tasks /\ wait[a] = NoHandler /\ phase[a] = "executing"
        BY <1>9 DEF ReportResult, HandsInv
  <2>2. phase'[a] = "finishing" /\ batch'[a] = batch[a] /\ current'[a] = current[a]
        BY <1>9 DEF ReportResult, Goto
  <2>3. SendReport(a, current[a], r)
        BY <1>9 DEF ReportResult
  <2>4. UNCHANGED openRows
        BY <2>3, SendReportEffect
  <2>5. KnownTo(a)'
        BY <1>a, <2>1, <2>2, <2>4 DEF KnownTo, HasLease
  <2>6. ResultOf(a)'
    <3>1. CASE \E h \in Handlers : /\ CheckReport(h, current[a], r)
                                   /\ wait' = [wait EXCEPT ![a] = h]
      <4>1. PICK h \in Handlers : /\ CheckReport(h, current[a], r)
                                  /\ wait' = [wait EXCEPT ![a] = h]
            BY <3>1
      <4>2. call'[h] = [op |-> "report", task |-> current[a], to |-> r]
            BY <4>1 DEF CheckReport, LeaseInv, TypeOK
      <4>3. wait'[a] = h /\ h # NoHandler
            BY <4>1, ClusterAssumption
      <4>4. r \in ReportStates /\ r \in TerminalStates
            BY ClusterAssumption DEF TerminalStates
      <4>5. call'[h] \in Reports
            BY <2>1, <4>2, <4>4 DEF Reports
      <4>6. call'[h].task = current'[a] /\ call'[h].to \in TerminalStates
            BY <2>2, <4>2, <4>4
      <4> QED BY <4>3, <4>5, <4>6 DEF ResultOf
    <3>2. CASE ~IsValidTaskStateTransition(taskState[current[a]], r) /\ UNCHANGED wait
      <4>1. taskState[current[a]] # "Running"
            BY <3>2 DEF IsValidTaskStateTransition, TerminalStates
      <4>2. ~HasLease(current[a], a)
            BY <2>1, <4>1, NotRunningNotLeased
      <4> QED BY <2>1, <2>2, <2>4, <3>2, <4>2 DEF ResultOf, HasLease
    <3> QED BY <2>3, <3>1, <3>2 DEF SendReport, Dependable
  <2>7. \A c \in Agents \ {a} : ResultOf(c)' /\ KnownTo(c)'
        BY <1>9, SendReportEffect, BystandersOf DEF ReportResult, Goto
  <2> QED BY <2>5, <2>6, <2>7
<1>10. CASE NextTask(a)
  <2>1. ~HasLease(current[a], a)
        BY <1>10, <1>a DEF NextTask, Answered, Dependable, ResultOf
  <2>2. phase'[a] \in {"idle", "received"} /\ phase[a] = "finishing"
        BY <1>10 DEF NextTask, LeaveTask, Goto
  <2>3. ResultOf(a)' /\ KnownTo(a)'
        BY <1>10, <1>a, <1>m, <2>1, <2>2 DEF NextTask, ResultOf, KnownTo, HasLease
  <2>4. \A c \in Agents \ {a} : ResultOf(c)' /\ KnownTo(c)'
        BY <1>10, <1>m, BystandersOf DEF NextTask, LeaveTask, Goto
  <2> QED BY <2>3, <2>4
<1>11. CASE Crash(a)
  <2>1. phase'[a] = "down"
        BY <1>11 DEF Crash, Goto
  <2>2. ResultOf(a)' /\ KnownTo(a)'
        BY <2>1 DEF ResultOf, KnownTo
  <2>3. \A c \in Agents \ {a} : ResultOf(c)' /\ KnownTo(c)'
        BY <1>11, <1>m, BystandersOf DEF Crash, Goto
  <2> QED BY <2>2, <2>3
<1>12. ASSUME NEW t \in Tasks, OrphanExits(a, t)
       PROVE  P
       BY <1>12, Bystander DEF OrphanExits, masterVars, dbVars, NoNewLease, HasLease
<1> QED
    BY <1>1, <1>2, <1>3, <1>4, <1>5, <1>6, <1>7, <1>8, <1>9, <1>10, <1>11, <1>12
    DEF Worker

\* A handler writes a report: the worker that waits for it, if any, is released
\* when the write is done, and then its task is leased no more.
LEMMA KnownWrite ==
    ASSUME KnownInv, NEW h \in Handlers, Write(h), NEW b \in Agents
    PROVE  ResultOf(b)' /\ KnownTo(b)'
<1> USE DEF KnownInv, HandsOK, WorkerTypes
<1>1. call[h] \in Reports
      BY DEF Write, WriteReport, LeaseInv, TypeOK, Idle, Cancels
<1>2. call[h].task \in Tasks
      BY <1>1 DEF Reports
<1>3. phase' = phase /\ batch' = batch /\ current' = current
      BY DEF Write
<1>4. NoNewLease(b)
  <2>1. CASE CloseRowsOf(call[h].task)
        BY <2>1, <1>2, ClosingEndsLeases
  <2>2. CASE UNCHANGED openRows
        BY <2>2 DEF NoNewLease, HasLease
  <2> QED BY <2>1, <2>2 DEF Write, WriteReport, UpdateTaskStatus
<1>5. KnownTo(b)'
      BY <1>3, <1>4, KnownParts DEF KnownTo, NoNewLease
<1>6. ResultOf(b)'
  <2> SUFFICES ASSUME phase[b] = "finishing"
               PROVE  IF wait'[b] = NoHandler
                      THEN ~HasLease(current[b], b)'
                      ELSE /\ call'[wait'[b]] \in Reports
                           /\ call'[wait'[b]].task = current[b]
                           /\ call'[wait'[b]].to \in TerminalStates
      BY <1>3 DEF ResultOf, HasLease
  <2>1. current[b] \in Tasks
        BY DEF HandsInv
  <2>2. ResultOf(b)
        BY KnownParts
  <2>3. wait'[b] = IF wait[b] # NoHandler /\ call'[wait[b]] = Idle
                   THEN NoHandler ELSE wait[b]
        BY DEF Write, ReleaseWaiting
  <2>4. CASE wait[b] = NoHandler
    <3>1. ~HasLease(current[b], b)
          BY <2>2, <2>4 DEF ResultOf
    <3>2. ~HasLease(current[b], b)'
          BY <1>3, <1>4, <2>1, <3>1 DEF NoNewLease, HasLease
    <3> QED BY <2>3, <2>4, <3>2
  <2>5. CASE wait[b] # NoHandler
    <3>1. /\ wait[b] \in Handlers
          /\ call[wait[b]] \in Reports
          /\ call[wait[b]].task = current[b]
          /\ call[wait[b]].to \in TerminalStates
          BY <2>2, <2>5 DEF ResultOf
    <3>2. call[wait[b]] # Idle
          BY <3>1 DEF Reports, Idle
    <3>3. CASE call'[wait[b]] = call[wait[b]]
          BY <2>3, <2>5, <3>1, <3>2, <3>3
    <3>4. CASE call'[wait[b]] # call[wait[b]]
      <4>1. wait[b] = h /\ call'[h] = Idle
            BY <3>1, <3>4 DEF Write, WriteReport, LeaseInv, TypeOK
      <4>2. CloseRowsOf(current[b])
            BY <3>1, <4>1 DEF Write, WriteReport, UpdateTaskStatus
      <4>3. ~HasLease(current[b], b)'
            BY <1>3, <2>1, <4>2, ClosingEndsLeases DEF HasLease
      <4>4. wait'[b] = NoHandler
            BY <2>3, <2>5, <4>1
      <4> QED BY <4>3, <4>4
    <3> QED BY <3>3, <3>4
  <2> QED BY <2>4, <2>5
<1> QED BY <1>5, <1>6

\* Users, the sweep and the passing of time end leases and begin none.
LEMMA KnownOthers ==
    ASSUME KnownInv, User \/ Sweep \/ \E a \in Agents : Silence(a), NEW b \in Agents
    PROVE  ResultOf(b)' /\ KnownTo(b)'
<1> USE DEF KnownInv, HandsOK, WorkerTypes
<1>1. UNCHANGED workerVars
      BY DEF User, Sweep, Silence
<1>2. ASSUME NoNewLease(b),
             wait[b] # NoHandler /\ call[wait[b]] \in Reports =>
                 call'[wait[b]] = call[wait[b]]
      PROVE  ResultOf(b)' /\ KnownTo(b)'
      BY <1>1, <1>2, Bystander DEF workerVars
<1>3. ASSUME NEW t \in Tasks, HandleCreateTask(t)
      PROVE  ResultOf(b)' /\ KnownTo(b)'
      BY <1>2, <1>3 DEF HandleCreateTask, CreateTask, NoNewLease, HasLease
<1>4. ASSUME NEW h \in Handlers, NEW t \in Tasks, ReadForCancel(h, t)
      PROVE  ResultOf(b)' /\ KnownTo(b)'
  <2>1. NoNewLease(b)
        BY <1>4 DEF ReadForCancel, dbVars, NoNewLease, HasLease
  <2>2. wait[b] # NoHandler /\ call[wait[b]] \in Reports =>
            call'[wait[b]] = call[wait[b]]
        BY <1>4 DEF ReadForCancel, LeaseInv, TypeOK, Reports, Idle
  <2> QED BY <1>2, <2>1, <2>2
<1>5. ASSUME NEW h \in Handlers, WriteCancel(h)
      PROVE  ResultOf(b)' /\ KnownTo(b)'
  <2>1. call[h] \in Cancels
        BY <1>5 DEF WriteCancel, LeaseInv, TypeOK, Idle, Reports
  <2>2. NoNewLease(b)
        BY <1>5, <2>1, ClosingEndsLeases DEF WriteCancel, CancelTask, Cancels
  <2>3. wait[b] # NoHandler /\ call[wait[b]] \in Reports =>
            call'[wait[b]] = call[wait[b]]
        BY <1>5, <2>1 DEF WriteCancel, LeaseInv, TypeOK, Reports, Cancels
  <2> QED BY <1>2, <2>2, <2>3
<1>6. CASE Sweep
  <2>1. \A t \in Tasks : openRows'[t][b] \in {0, openRows[t][b]}
        BY <1>6 DEF Sweep, MaintenanceSweep, MarkOfflineAgentsAndRequeue
  <2>2. NoNewLease(b)
        BY <2>1 DEF NoNewLease, HasLease
  <2> QED BY <1>2, <1>6, <2>2 DEF Sweep, MaintenanceSweep
<1>7. ASSUME NEW a \in Agents, Silence(a)
      PROVE  ResultOf(b)' /\ KnownTo(b)'
      BY <1>2, <1>7 DEF Silence, Age, HeartbeatExpires, taskVars, NoNewLease, HasLease
<1> QED BY <1>3, <1>4, <1>5, <1>6, <1>7, ClusterAssumption DEF User

LEMMA KnownInit == Dependable /\ ClusterInit => KnownInv
<1> SUFFICES ASSUME Dependable, ClusterInit
             PROVE  KnownInv
    OBVIOUS
<1>1. Init
      BY DEF ClusterInit
<1>2. LeaseInv /\ HandsOK
      BY <1>1, LeaseInit, HandsInit
<1>3. OfflineHoldsNoLease /\ QueuedIsPollable
      BY <1>1 DEF Init, DbInit, OfflineHoldsNoLease, QueuedIsPollable, HasLease
<1>4. ResultInv /\ LeaseIsKnown
      BY <1>1 DEF ClusterInit, ResultInv, LeaseIsKnown
<1> QED BY <1>2, <1>3, <1>4 DEF KnownInv

LEMMA KnownNext == Dependable /\ KnownInv /\ [ClusterNext]_clusterVars => KnownInv'
<1> SUFFICES ASSUME Dependable, KnownInv, [ClusterNext]_clusterVars
             PROVE  KnownInv'
    OBVIOUS
<1>1. LeaseInv /\ HandsOK /\ OfflineHoldsNoLease /\ QueuedIsPollable
      BY DEF KnownInv
<1>2. HandsOK' /\ [Next]_vars
      BY <1>1, HandsNext, MasterStep
<1>3. LeaseInv' /\ OfflineHoldsNoLease' /\ QueuedIsPollable'
      BY <1>1, <1>2, LeaseNext, LiveNext, QueueNext DEF Dependable
<1>4. \A b \in Agents : ResultOf(b)' /\ KnownTo(b)'
  <2> SUFFICES ASSUME NEW b \in Agents
               PROVE  ResultOf(b)' /\ KnownTo(b)'
      OBVIOUS
  <2>1. ASSUME NEW a \in Agents, Worker(a)
        PROVE  ResultOf(b)' /\ KnownTo(b)'
        BY <1>2, <1>3, <2>1, KnownWorker
  <2>2. ASSUME NEW h \in Handlers, Write(h)
        PROVE  ResultOf(b)' /\ KnownTo(b)'
        BY <2>2, KnownWrite
  <2>3. CASE User \/ Sweep \/ \E a \in Agents : Silence(a)
        BY <2>3, KnownOthers
  <2>4. ~MasterFails
        BY DEF MasterFails, Dependable
  <2>5. CASE UNCHANGED clusterVars
        BY <2>5, Bystander DEF clusterVars, masterVars, dbVars, workerVars,
                               NoNewLease, HasLease
  <2> QED BY <2>1, <2>2, <2>3, <2>4, <2>5 DEF ClusterNext
<1>5. (\A b \in Agents : ResultOf(b)' /\ KnownTo(b)') => ResultInv' /\ LeaseIsKnown'
      BY DEF ResultInv, LeaseIsKnown, ResultOf, KnownTo
<1> QED BY <1>2, <1>3, <1>4, <1>5 DEF KnownInv

\* In a dependable cluster a live worker knows every lease it holds, whatever
\* the order of reports, cancels, sweeps, crashes and silences.
THEOREM LiveWorkersKnowTheirLeases ==
    ASSUME Dependable
    PROVE  ClusterSpec => []LeaseIsKnown
<1>1. ClusterInit => KnownInv
      BY KnownInit
<1>2. KnownInv /\ [ClusterNext]_clusterVars => KnownInv'
      BY KnownNext
<1>3. KnownInv => LeaseIsKnown
      BY DEF KnownInv
<1> QED BY <1>1, <1>2, <1>3, PTL DEF ClusterSpec

-----------------------------------------------------------------------------
(* A task runs on one machine at a time, as long as every worker is heard *)

\* No worker is silent while it lives, and none crashes.
Heard == SilentWorkers = {} /\ MaxCrashes = 0

\* a has t in its batch, in hand, or in a child process.
Owns(a, t) == t \in batch[a] \/ t = current[a] \/ <<a, t>> \in procs

\* ExclusiveExecution alone says nothing of the tasks a worker is about to run,
\* nor why no sweep takes them away.
HeardInv ==
    /\ LeaseInv
    /\ HandsOK
    /\ crashes = 0
    /\ \A a \in Agents : phase[a] # "down" => a \notin overdue
    /\ \A a \in Agents, t \in Tasks : Owns(a, t) => phase[a] # "down" /\ assignedAgent[t] = a

LEMMA HeardInit == ClusterInit => HeardInv
<1> SUFFICES ASSUME ClusterInit
             PROVE  HeardInv
    OBVIOUS
<1>1. LeaseInv /\ HandsOK
      BY LeaseInit, HandsInit DEF ClusterInit
<1>2. overdue = {} /\ crashes = 0
      BY DEF ClusterInit, Init, DbInit
<1>3. \A a \in Agents, t \in Tasks : ~Owns(a, t)
      BY ClusterAssumption DEF ClusterInit, Owns
<1> QED BY <1>1, <1>2, <1>3 DEF HeardInv

\* A task keeps an agent that is not overdue.
LEMMA AgentIsKept ==
    ASSUME LeaseInv, [Next]_vars, NEW t \in Tasks, NEW a \in Agents,
           assignedAgent[t] = a, a \notin overdue
    PROVE  assignedAgent'[t] = a
BY AgentLostStep, NoAgentAssumption

\* Only an answered poll gives a worker a task that it does not own yet.
NothingNew == \A a \in Agents, t \in Tasks : Owns(a, t)' => Owns(a, t)

\* A worker that runs goes on, and is heard in time.
WellHeard ==
    /\ crashes' = 0
    /\ \A a \in Agents : phase'[a] # "down" => a \notin overdue'
    /\ \A a \in Agents : phase[a] # "down" => phase'[a] # "down"

LEMMA HeardWorker ==
    ASSUME Heard, HeardInv, NEW a \in Agents, Worker(a)
    PROVE  WellHeard /\ (NothingNew \/ PollAnswered(a))
<1> DEFINE P == WellHeard /\ (NothingNew \/ PollAnswered(a))
<1> USE DEF HeardInv, HandsOK, WorkerTypes, WellHeard, NothingNew, Owns
<1>m. ASSUME UNCHANGED masterVars
      PROVE  UNCHANGED overdue
      BY <1>m DEF masterVars, dbVars
<1>r. ASSUME NEW t, NEW to, SendReport(a, t, to)
      PROVE  UNCHANGED overdue
      BY <1>r DEF SendReport, CheckReport, masterVars, dbVars
<1>h. ASSUME NEW s, HandleAgentHeartbeat(a, s)
      PROVE  overdue' \subseteq overdue
      BY <1>h DEF HandleAgentHeartbeat, UpdateHeartbeat
<1>p. ASSUME NEW n \in FreeSlots, HandlePollTasks(a, n)
      PROVE  overdue' \subseteq overdue
      BY <1>p, PollCases
<1>1. CASE StartWorker(a)
      BY <1>1 DEF StartWorker, HandleUpsertAgent, UpsertAgent, Goto
<1>13. CASE RegistrationLost(a)
      BY <1>13 DEF RegistrationLost, HandleUpsertAgent, UpsertAgent, workerVars
<1>2. CASE TickHeartbeat(a)
  <2>1. overdue' \subseteq overdue
        BY <1>2, <1>h, <1>m DEF TickHeartbeat
  <2> QED BY <1>2, <2>1 DEF TickHeartbeat, Goto
<1>3. CASE PollAnswered(a)
  <2>1. overdue' \subseteq overdue
        BY <1>3, <1>p DEF PollAnswered
  <2>2. phase[a] = "polling" /\ phase'[a] # "down"
        BY <1>3 DEF PollAnswered, Goto
  <2>3. crashes' = 0 /\ \A b \in Agents \ {a} : phase'[b] = phase[b]
        BY <1>3 DEF PollAnswered, Goto
  <2> QED BY <1>3, <2>1, <2>2, <2>3
<1>4. CASE PollFails(a)
  <2>1. overdue' \subseteq overdue
        BY <1>4, <1>p, <1>m DEF PollFails
  <2> QED BY <1>4, <2>1 DEF PollFails, Goto
<1>5. ASSUME NEW t \in Tasks, ReportRunning(a, t)
      PROVE  P
  <2>1. UNCHANGED overdue
        BY <1>5, <1>r DEF ReportRunning
  <2> QED BY <1>5, <2>1 DEF ReportRunning, Goto
<1>6. CASE BeginExecution(a)
      BY <1>6, <1>m DEF BeginExecution, Goto
<1>7. CASE BusyHeartbeat(a)
      BY <1>7, <1>h DEF BusyHeartbeat, workerVars
<1>8. CASE StopCanceled(a)
      BY <1>8, <1>m, ClusterAssumption DEF StopCanceled, LeaveTask, Goto
<1>9. ASSUME NEW r \in {"Succeeded", "Failed"}, ReportResult(a, r)
      PROVE  P
  <2>1. UNCHANGED overdue
        BY <1>9, <1>r DEF ReportResult
  <2> QED BY <1>9, <2>1 DEF ReportResult, Goto
<1>10. CASE NextTask(a)
      BY <1>10, <1>m, ClusterAssumption DEF NextTask, LeaveTask, Goto
<1>11. ~Crash(a)
      BY DEF Crash, Heard
<1>12. ASSUME NEW t \in Tasks, OrphanExits(a, t)
      PROVE  P
      BY <1>12, <1>m DEF OrphanExits
<1> QED
    BY <1>1, <1>2, <1>3, <1>4, <1>5, <1>6, <1>7, <1>8, <1>9, <1>10, <1>11, <1>12, <1>13
    DEF Worker

LEMMA HeardMaster ==
    ASSUME Heard, HeardInv,
           \/ \E h \in Handlers : Write(h)
           \/ MasterFails \/ User \/ Sweep
           \/ \E a \in Agents : Silence(a)
           \/ UNCHANGED clusterVars
    PROVE  WellHeard /\ NothingNew
<1> USE DEF HeardInv, WellHeard, NothingNew, Owns
<1>1. UNCHANGED <<phase, batch, current, procs, crashes>>
      BY DEF Write, MasterFails, User, Sweep, Silence, workerVars, clusterVars
<1>2. ASSUME NEW a \in Agents, a \in overdue' PROVE a \in overdue \/ phase[a] = "down"
  <2>1. CASE \E h \in Handlers : Write(h)
        BY <1>2, <2>1 DEF Write, WriteReport, UpdateTaskStatus, agentVars
  <2>2. CASE MasterFails
        BY <1>2, <2>2 DEF MasterFails, Restart, CallFails, dbVars
  <2>3. CASE User
        BY <1>2, <2>3 DEF User, HandleCreateTask, CreateTask, ReadForCancel, WriteCancel,
                    CancelTask, agentVars, dbVars
  <2>4. CASE UNCHANGED clusterVars
        BY <1>2, <2>4 DEF clusterVars, masterVars, dbVars
  <2>5. CASE Sweep
        BY <1>2, <2>5 DEF Sweep, MaintenanceSweep, MarkOfflineAgentsAndRequeue
  <2>6. ASSUME NEW b \in Agents, Silence(b) PROVE a \in overdue \/ phase[a] = "down"
        BY <1>2, <2>6 DEF Silence, Age, HeartbeatExpires, Heard
  <2> QED BY <2>1, <2>2, <2>3, <2>4, <2>5, <2>6
<1> QED BY <1>1, <1>2

\* What an answered poll adds to the batch was nobody's and is assigned to the poller.
LEMMA PolledIsAssigned ==
    ASSUME LeaseInv, HandsOK, NEW a \in Agents, PollAnswered(a), NEW t \in batch'[a]
    PROVE  t \in Tasks /\ assignedAgent[t] = NoAgent /\ assignedAgent'[t] = a
<1> USE DEF HandsOK, WorkerTypes
<1>1. t \in Tasks /\ openRows'[t][a] > openRows[t][a]
      BY DEF PollAnswered
<1>2. PICK n \in FreeSlots : HandlePollTasks(a, n)
      BY DEF PollAnswered
<1>3. openRows[t][a] \in Nat
      BY <1>1 DEF LeaseInv, TypeOK, DbTypeOK
<1>4. CASE UNCHANGED <<agentStatus, taskVars>>
      BY <1>1, <1>3, <1>4 DEF taskVars
<1>5. ASSUME NEW S \in SUBSET Dispatchable(a), Dispatch(a, S)
      PROVE  assignedAgent[t] = NoAgent /\ assignedAgent'[t] = a
  <2>1. t \in S
        BY <1>1, <1>3, <1>5 DEF Dispatch
  <2> QED BY <1>1, <1>5, <2>1 DEF Dispatch, Dispatchable
<1> QED BY <1>1, <1>2, <1>4, <1>5, PollCases

LEMMA HeardNext == Heard /\ HeardInv /\ [ClusterNext]_clusterVars => HeardInv'
<1> SUFFICES ASSUME Heard, HeardInv, [ClusterNext]_clusterVars
             PROVE  HeardInv'
    OBVIOUS
<1>1. LeaseInv /\ HandsOK
      BY DEF HeardInv
<1>2. HandsOK' /\ LeaseInv' /\ [Next]_vars
      BY <1>1, HandsNext, MasterStep, LeaseNext
<1>3. WellHeard /\ (NothingNew \/ \E a \in Agents : PollAnswered(a))
      BY HeardWorker, HeardMaster DEF ClusterNext
<1>4. ASSUME NEW b \in Agents, NEW t \in Tasks, Owns(b, t)'
      PROVE  phase'[b] # "down" /\ assignedAgent'[t] = b
  <2>1. CASE Owns(b, t)
    <3>1. phase[b] # "down" /\ assignedAgent[t] = b /\ b \notin overdue
          BY <2>1 DEF HeardInv
    <3> QED BY <1>1, <1>2, <1>3, <3>1, AgentIsKept DEF WellHeard
  <2>2. ASSUME NEW a \in Agents, PollAnswered(a), ~Owns(b, t)
        PROVE  phase'[b] # "down" /\ assignedAgent'[t] = b
    <3>1. b = a /\ t \in batch'[a]
          BY <1>1, <1>4, <2>2 DEF PollAnswered, Owns, HandsOK, WorkerTypes
    <3>2. phase[b] # "down"
          BY <2>2, <3>1 DEF PollAnswered
    <3> QED BY <1>1, <1>3, <2>2, <3>1, <3>2, PolledIsAssigned DEF WellHeard
  <2> QED BY <1>3, <1>4, <2>1, <2>2 DEF NothingNew
<1> QED BY <1>2, <1>3, <1>4 DEF HeardInv, WellHeard

\* As long as every worker is heard in time, a task runs on one machine at a
\* time, whatever requests, answers and transactions are lost.
THEOREM HeardWorkersRunAlone ==
    ASSUME Heard
    PROVE  ClusterSpec => []ExclusiveExecution
<1>1. HeardInv => ExclusiveExecution
      BY DEF HeardInv, ExclusiveExecution, Owns
<1>2. HeardInv /\ [ClusterNext]_clusterVars => HeardInv'
      BY HeardNext
<1> QED BY <1>1, <1>2, HeardInit, PTL DEF ClusterSpec
-----------------------------------------------------------------------------
(* A Running task has an agent, as long as no live worker is silent *)

\* Only dead workers miss the cutoff, and no handler sleeps through it.
Watched == SilentWorkers = {} /\ PromptHandlers

\* Handler h has accepted a report on t and may write it.
PendingOn(h, t) == call[h] \in Reports /\ call[h].task = t

\* a has t in its batch or in hand.
InHand(a, t) == t \in batch[a] \/ t = current[a]

\* RunningIsAssigned alone does not say why a report that is written late still meets
\* a task with an agent: only who has the task reports it, and is not overdue.
WatchedInv ==
    /\ LeaseInv
    /\ HandsOK
    /\ \A a \in Agents : phase[a] # "down" => a \notin overdue
    /\ \A a \in Agents, t \in Tasks : InHand(a, t) => assignedAgent[t] = a
    /\ \A h \in Handlers, t \in Tasks : PendingOn(h, t) => assignedAgent[t] \in Agents \ overdue
    /\ RunningIsAssigned

LEMMA WatchedInit == ClusterInit => WatchedInv
<1> SUFFICES ASSUME ClusterInit
             PROVE  WatchedInv
    OBVIOUS
<1>1. LeaseInv /\ HandsOK
      BY LeaseInit, HandsInit DEF ClusterInit
<1>2. /\ overdue = {} /\ \A t \in Tasks : taskState[t] = "Absent"
      /\ \A h \in Handlers : call[h] = Idle
      BY DEF ClusterInit, Init, DbInit
<1>3. \A a \in Agents, t \in Tasks : ~InHand(a, t)
      BY ClusterAssumption DEF ClusterInit, InHand
<1>4. \A h \in Handlers, t \in Tasks : ~PendingOn(h, t)
      BY <1>2 DEF PendingOn, Reports, Idle
<1> QED BY <1>1, <1>2, <1>3, <1>4 DEF WatchedInv, RunningIsAssigned

\* How the state of a task changes, and what the step knows of its agent.
StateChanges(t) ==
    \/ \E h \in Handlers : /\ WriteReport(h) /\ PendingOn(h, t)
                           /\ taskState'[t] = call[h].to
                           /\ assignedAgent'[t] = assignedAgent[t]
    \/ /\ \E h \in Handlers : call[h] \in Cancels
       /\ taskState'[t] = "Canceled"
    \/ /\ taskState[t] = "Queued" /\ assignedAgent[t] = NoAgent
       /\ taskState'[t] = "Running" /\ assignedAgent'[t] \in Agents
    \/ taskState[t] = "Absent" /\ taskState'[t] = "Queued"
    \/ /\ taskState[t] \in {"Running", "Queued"} /\ assignedAgent[t] \in overdue
       /\ taskState'[t] = "Queued"

LEMMA StateChangesSo ==
    ASSUME LeaseInv, [Next]_vars, NEW t \in Tasks, taskState'[t] # taskState[t]
    PROVE  StateChanges(t)
<1> USE DEF LeaseInv, TypeOK, DbTypeOK
<1>1. ASSUME UNCHANGED taskState
      PROVE  StateChanges(t)
      BY <1>1
<1>2. ASSUME NEW a \in Agents, NEW n \in FreeSlots, HandlePollTasks(a, n)
      PROVE  StateChanges(t)
  <2>1. PICK S \in SUBSET Dispatchable(a) : Dispatch(a, S)
        BY <1>2, PollCases DEF taskVars
  <2>2. t \in S
        BY <2>1 DEF Dispatch
  <2> QED BY <2>1, <2>2 DEF Dispatchable, Dispatch, StateChanges
<1>3. ASSUME NEW u \in Tasks, HandleCreateTask(u)
      PROVE  StateChanges(t)
      BY <1>3 DEF HandleCreateTask, CreateTask, TaskExists, StateChanges
<1>4. ASSUME NEW h \in Handlers, WriteReport(h)
      PROVE  StateChanges(t)
  <2>1. call[h] \in Reports
        BY <1>4 DEF WriteReport, Idle, Cancels
  <2>2. taskState' = [taskState EXCEPT ![call[h].task] = call[h].to] /\ UNCHANGED assignedAgent
        BY <1>4 DEF WriteReport, UpdateTaskStatus
  <2>3. call[h].task = t /\ taskState'[t] = call[h].to
        BY <2>2
  <2> QED BY <1>4, <2>1, <2>2, <2>3 DEF PendingOn, StateChanges
<1>5. ASSUME NEW h \in Handlers, WriteCancel(h)
      PROVE  StateChanges(t)
  <2>1. call[h] \in Cancels
        BY <1>5 DEF WriteCancel, Idle, Reports
  <2>2. taskState'[t] = "Canceled"
        BY <1>5 DEF WriteCancel, CancelTask
  <2> QED BY <2>1, <2>2 DEF StateChanges
<1>6. CASE MaintenanceSweep
  <2>1. t \in Requeued /\ taskState'[t] = "Queued"
        BY <1>6 DEF MaintenanceSweep, MarkOfflineAgentsAndRequeue
  <2> QED BY <2>1 DEF Requeued, Unresponsive, StateChanges
<1>7. ASSUME NEW a \in Agents,
             \/ HandleUpsertAgent(a) \/ Age(a)
             \/ \E s \in HeartbeatStatuses : HandleAgentHeartbeat(a, s)
      PROVE  StateChanges(t)
      BY <1>1, <1>7 DEF HandleUpsertAgent, UpsertAgent, HandleAgentHeartbeat, UpdateHeartbeat, Age,
                        HeartbeatExpires, taskVars
<1>8. ASSUME \/ \E h \in Handlers, u \in Tasks, to \in ReportStates : CheckReport(h, u, to)
             \/ \E h \in Handlers, u \in Tasks : ReadForCancel(h, u)
             \/ \E h \in Handlers : CallFails(h)
             \/ Restart \/ UNCHANGED vars
      PROVE  StateChanges(t)
      BY <1>1, <1>8 DEF CheckReport, ReadForCancel, CallFails, Restart, vars, dbVars
<1> QED BY <1>2, <1>3, <1>4, <1>5, <1>6, <1>7, <1>8 DEF Next

\* An agent that is not overdue keeps its tasks.
LEMMA HeardAgentKeeps ==
    ASSUME LeaseInv, [Next]_vars, NEW t \in Tasks, assignedAgent[t] \in Agents \ overdue
    PROVE  assignedAgent'[t] = assignedAgent[t]
BY AgentLostStep, NoAgentAssumption

\* a sends a report on t that handler h accepts.
Sends(a, h, t) ==
    /\ phase[a] \in {"received", "executing"}
    /\ IF phase[a] = "received" THEN t \in batch[a] ELSE t = current[a]
    /\ \E to \in ReportStates : CheckReport(h, t, to)
    /\ batch' = [batch EXCEPT ![a] = @ \ (IF phase[a] = "received" THEN {t} ELSE {})]
    /\ current' = [current EXCEPT ![a] = t]
    /\ wait' = [wait EXCEPT ![a] = h]

LEMMA SendsReport ==
    ASSUME HandsOK, NEW a \in Agents,
           \/ \E t \in Tasks : ReportRunning(a, t)
           \/ \E r \in {"Succeeded", "Failed"} : ReportResult(a, r)
    PROVE  \/ \E h \in Handlers, t \in Tasks : Sends(a, h, t)
           \/ /\ UNCHANGED <<masterVars, wait>>
              /\ \A u \in Tasks, b \in Agents : u \in batch'[b] => u \in batch[b]
              /\ \A u \in Tasks, b \in Agents : u = current'[b] => InHand(b, u)
<1> USE DEF HandsOK, WorkerTypes, HandsInv
<1>1. ASSUME NEW t \in Tasks, ReportRunning(a, t)
      PROVE  \/ \E h \in Handlers : Sends(a, h, t)
             \/ /\ UNCHANGED <<masterVars, wait>>
                /\ \A u \in Tasks, b \in Agents : u \in batch'[b] => u \in batch[b]
                /\ \A u \in Tasks, b \in Agents : u = current'[b] => InHand(b, u)
  <2>1. /\ phase[a] = "received" /\ t \in batch[a]
        /\ batch' = [batch EXCEPT ![a] = @ \ {t}] /\ current' = [current EXCEPT ![a] = t]
        BY <1>1 DEF ReportRunning
  <2>2. CASE UNCHANGED <<masterVars, wait>>
        BY <2>1, <2>2 DEF InHand
  <2>3. ASSUME NEW h \in Handlers, CheckReport(h, t, "Running"), wait' = [wait EXCEPT ![a] = h]
        PROVE  Sends(a, h, t)
        BY <2>1, <2>3, ClusterAssumption DEF Sends
  <2> QED BY <1>1, <2>2, <2>3 DEF ReportRunning, SendReport
<1>2. ASSUME NEW r \in {"Succeeded", "Failed"}, ReportResult(a, r)
      PROVE  \/ \E h \in Handlers, t \in Tasks : Sends(a, h, t)
             \/ /\ UNCHANGED <<masterVars, wait>>
                /\ \A u \in Tasks, b \in Agents : u \in batch'[b] => u \in batch[b]
                /\ \A u \in Tasks, b \in Agents : u = current'[b] => InHand(b, u)
  <2>1. phase[a] = "executing" /\ current[a] \in Tasks /\ UNCHANGED <<batch, current>>
        BY <1>2 DEF ReportResult
  <2>2. CASE UNCHANGED <<masterVars, wait>>
        BY <2>1, <2>2 DEF InHand
  <2>3. ASSUME NEW h \in Handlers, CheckReport(h, current[a], r), wait' = [wait EXCEPT ![a] = h]
        PROVE  Sends(a, h, current[a])
        BY <2>1, <2>3, ClusterAssumption DEF Sends
  <2> QED BY <1>2, <2>1, <2>2, <2>3 DEF ReportResult, SendReport
<1> QED BY <1>1, <1>2

\* Nobody gets a report accepted in this step.
NoReport == \A h \in Handlers, t \in Tasks : PendingOn(h, t)' => PendingOn(h, t) /\ call'[h] = call[h]

\* What a step does to the hands of the workers, unless a report is accepted.
HandsEmpty ==
    /\ NoReport
    /\ \A b \in Agents, u \in Tasks : u \in batch'[b] => u \in batch[b] \/ PollAnswered(b)
    /\ \A b \in Agents, u \in Tasks : u = current'[b] => InHand(b, u)

LEMMA NoReportWhen ==
    /\ UNCHANGED call => NoReport
    /\ TypeOK /\ (\E h \in Handlers : call' \in {call, [call EXCEPT ![h] = Idle]}) => NoReport
    /\ call' = [h \in Handlers |-> Idle] => NoReport
BY DEF NoReport, PendingOn, Reports, Idle, TypeOK

LEMMA WorkersMove ==
    ASSUME LeaseInv, HandsOK, NEW a \in Agents, Worker(a)
    PROVE  HandsEmpty \/ \E h \in Handlers, t \in Tasks : Sends(a, h, t)
<1> USE NoReportWhen DEF HandsOK, WorkerTypes, HandsInv, HandsEmpty, InHand
<1>1. CASE StartWorker(a) \/ RegistrationLost(a)
      BY <1>1 DEF StartWorker, RegistrationLost, workerVars, HandleUpsertAgent
<1>2. CASE TickHeartbeat(a)
      BY <1>2 DEF TickHeartbeat, HandleAgentHeartbeat, masterVars
<1>3. CASE PollAnswered(a)
      BY <1>3 DEF PollAnswered, HandlePollTasks
<1>4. CASE PollFails(a)
      BY <1>4 DEF PollFails, HandlePollTasks, masterVars
<1>5. CASE \/ \E t \in Tasks : ReportRunning(a, t)
           \/ \E r \in {"Succeeded", "Failed"} : ReportResult(a, r)
      BY <1>5, SendsReport DEF masterVars
<1>6. CASE BeginExecution(a)
      BY <1>6 DEF BeginExecution, masterVars
<1>7. CASE BusyHeartbeat(a)
      BY <1>7 DEF BusyHeartbeat, HandleAgentHeartbeat, workerVars
<1>8. CASE StopCanceled(a)
      BY <1>8, ClusterAssumption DEF StopCanceled, LeaveTask, masterVars
<1>9. CASE NextTask(a)
      BY <1>9, ClusterAssumption DEF NextTask, LeaveTask, masterVars
<1>10. CASE Crash(a)
      BY <1>10, ClusterAssumption DEF Crash, masterVars
<1>11. CASE \E t \in Tasks : OrphanExits(a, t)
      BY <1>11 DEF OrphanExits, masterVars
<1> QED BY <1>1, <1>2, <1>3, <1>4, <1>5, <1>6, <1>7, <1>8, <1>9, <1>10, <1>11 DEF Worker

LEMMA HandsMove ==
    ASSUME LeaseInv, HandsOK, [ClusterNext]_clusterVars
    PROVE  HandsEmpty \/ \E a \in Agents, h \in Handlers, t \in Tasks : Sends(a, h, t)
<1> USE NoReportWhen DEF HandsEmpty, InHand
<1>1. TypeOK
      BY DEF LeaseInv
<1>2. ASSUME NEW h \in Handlers, Write(h)
      PROVE  HandsEmpty
      BY <1>1, <1>2 DEF Write, WriteReport
<1>3. CASE MasterFails
      BY <1>1, <1>3 DEF MasterFails, Restart, CallFails
<1>4. CASE User
  <2>1. ASSUME NEW h \in Handlers, NEW t \in Tasks, ReadForCancel(h, t)
        PROVE  NoReport
        BY <1>1, <2>1 DEF ReadForCancel, NoReport, PendingOn, Reports, TypeOK
  <2>2. NoReport
        BY <1>1, <1>4, <2>1, ClusterAssumption DEF User, HandleCreateTask, WriteCancel
  <2> QED BY <1>4, <2>2 DEF User, workerVars
<1>5. CASE Sweep \/ UNCHANGED clusterVars \/ \E a \in Agents : Silence(a)
      BY <1>5 DEF Sweep, MaintenanceSweep, clusterVars, masterVars, workerVars, Silence, Age
<1> QED BY <1>2, <1>3, <1>4, <1>5, WorkersMove DEF ClusterNext

\* Time passes for the dead only, and while no handler has anything to write.
LEMMA TimePasses ==
    ASSUME Watched, LeaseInv, HandsOK, [ClusterNext]_clusterVars
    PROVE  \/ overdue' \subseteq overdue
           \/ /\ \E a \in Agents : phase[a] = "down" /\ overdue' = overdue \union {a}
              /\ UNCHANGED <<phase, call>> /\ \A h \in Handlers : call[h] = Idle
<1>1. ASSUME NEW a \in Agents, Silence(a)
      PROVE  /\ phase[a] = "down" /\ overdue' = overdue \union {a}
             /\ UNCHANGED <<phase, call>> /\ \A h \in Handlers : call[h] = Idle
      BY <1>1 DEF Silence, Watched, Age, HeartbeatExpires, workerVars
<1>2. ASSUME NEW a \in Agents, Worker(a)
      PROVE  overdue' \subseteq overdue
  <2>1. ASSUME UNCHANGED masterVars
        PROVE  overdue' \subseteq overdue
        BY <2>1 DEF masterVars, dbVars
  <2>2. ASSUME NEW s \in HeartbeatStatuses, HandleAgentHeartbeat(a, s)
        PROVE  overdue' \subseteq overdue
        BY <2>2 DEF HandleAgentHeartbeat, UpdateHeartbeat
  <2>3. ASSUME NEW n \in FreeSlots, HandlePollTasks(a, n)
        PROVE  overdue' \subseteq overdue
        BY <2>3, PollCases
  <2>4. ASSUME NEW t, NEW to, SendReport(a, t, to)
        PROVE  overdue' \subseteq overdue
        BY <2>1, <2>4 DEF SendReport, CheckReport, dbVars
  <2>5. CASE StartWorker(a) \/ RegistrationLost(a) \/ TickHeartbeat(a) \/ BusyHeartbeat(a)
        BY <2>1, <2>2, <2>5, ClusterAssumption
        DEF StartWorker, RegistrationLost, HandleUpsertAgent, UpsertAgent, TickHeartbeat, BusyHeartbeat
  <2>6. CASE PollAnswered(a) \/ PollFails(a)
        BY <2>1, <2>3, <2>6 DEF PollAnswered, PollFails
  <2>7. CASE \/ \E t \in Tasks : ReportRunning(a, t)
             \/ \E r \in {"Succeeded", "Failed"} : ReportResult(a, r)
        BY <2>4, <2>7 DEF ReportRunning, ReportResult
  <2>8. CASE \/ BeginExecution(a) \/ StopCanceled(a) \/ NextTask(a) \/ Crash(a)
             \/ \E t \in Tasks : OrphanExits(a, t)
        BY <2>1, <2>8 DEF BeginExecution, StopCanceled, NextTask, Crash, OrphanExits
  <2> QED BY <1>2, <2>5, <2>6, <2>7, <2>8 DEF Worker
<1>3. CASE \/ \E h \in Handlers : Write(h)
           \/ MasterFails \/ User \/ Sweep \/ UNCHANGED clusterVars
      BY <1>3 DEF Write, WriteReport, UpdateTaskStatus, agentVars, MasterFails, Restart, CallFails,
                  dbVars, User, HandleCreateTask, CreateTask, ReadForCancel, WriteCancel, CancelTask,
                  Sweep, MaintenanceSweep, MarkOfflineAgentsAndRequeue, clusterVars, masterVars
<1> QED BY <1>1, <1>2, <1>3 DEF ClusterNext

\* A worker that is started is heard.
LEMMA StartIsHeard ==
    ASSUME HandsOK, [ClusterNext]_clusterVars, NEW b \in Agents,
           phase[b] = "down", phase'[b] # "down"
    PROVE  b \notin overdue'
<1> USE DEF HandsOK, WorkerTypes
<1>1. ASSUME NEW a \in Agents, Worker(a)
      PROVE  StartWorker(b)
      BY <1>1 DEF Worker, TickHeartbeat, PollAnswered, PollFails, ReportRunning, BeginExecution,
                  BusyHeartbeat, StopCanceled, NextTask, ReportResult, Crash, OrphanExits, LeaveTask,
                  Goto, workerVars, StartWorker, RegistrationLost
<1>2. \E a \in Agents : Worker(a)
      BY DEF ClusterNext, Silence, Write, MasterFails, User, Sweep, clusterVars, workerVars
<1>3. StartWorker(b)
      BY <1>1, <1>2
<1> QED BY <1>3 DEF StartWorker, HandleUpsertAgent, UpsertAgent

LEMMA WatchedNext == Watched /\ WatchedInv /\ [ClusterNext]_clusterVars => WatchedInv'
<1> SUFFICES ASSUME Watched, WatchedInv, [ClusterNext]_clusterVars
             PROVE  WatchedInv'
    OBVIOUS
<1>1. LeaseInv /\ HandsOK
      BY DEF WatchedInv
<1>2. HandsOK' /\ LeaseInv' /\ [Next]_vars
      BY <1>1, HandsNext, MasterStep, LeaseNext
<1>3. ASSUME NEW a \in Agents, NEW t \in Tasks, InHand(a, t)
      PROVE  /\ phase[a] # "down" /\ assignedAgent[t] = a /\ a \notin overdue
             /\ assignedAgent'[t] = a
  <2>1. phase[a] # "down"
        BY <1>1, <1>3 DEF InHand, HandsOK, HandsInv
  <2> QED BY <1>1, <1>2, <1>3, <2>1, HeardAgentKeeps DEF WatchedInv
<1>4. ASSUME NEW a \in Agents, phase'[a] # "down"
      PROVE  a \notin overdue'
  <2>1. CASE phase[a] = "down"
        BY <1>1, <1>4, <2>1, StartIsHeard
  <2>2. CASE phase[a] # "down"
        BY <1>1, <2>2, TimePasses DEF WatchedInv
  <2> QED BY <2>1, <2>2
<1>5. ASSUME NEW a \in Agents, NEW t \in Tasks, InHand(a, t)'
      PROVE  assignedAgent'[t] = a
  <2>1. CASE InHand(a, t)
        BY <1>3, <2>1
  <2>2. CASE PollAnswered(a) /\ t \in batch'[a]
        BY <1>1, <2>2, PolledIsAssigned
  <2>3. InHand(a, t) \/ (PollAnswered(a) /\ t \in batch'[a])
    <3>1. CASE HandsEmpty
          BY <1>5, <3>1 DEF HandsEmpty, InHand
    <3>2. ASSUME NEW b \in Agents, NEW h \in Handlers, NEW u \in Tasks, Sends(b, h, u)
          PROVE  InHand(a, t)
          BY <1>1, <1>5, <3>2 DEF Sends, InHand, HandsOK, WorkerTypes
    <3> QED BY <1>1, <3>1, <3>2, HandsMove
  <2> QED BY <2>1, <2>2, <2>3
<1>6. ASSUME NEW h \in Handlers, NEW t \in Tasks, PendingOn(h, t)'
      PROVE  assignedAgent'[t] \in Agents \ overdue'
  <2>1. overdue' \subseteq overdue
        BY <1>1, <1>6, TimePasses DEF PendingOn, Reports, Idle
  <2>2. CASE PendingOn(h, t)
        BY <1>1, <1>2, <2>1, <2>2, HeardAgentKeeps DEF WatchedInv
  <2>3. CASE ~PendingOn(h, t)
    <3>1. PICK a \in Agents, g \in Handlers, u \in Tasks : Sends(a, g, u)
          BY <1>1, <1>6, <2>3, HandsMove DEF HandsEmpty, NoReport
    <3>2. InHand(a, u)
          BY <3>1 DEF Sends, InHand
    <3>3. u = t
          BY <1>1, <1>6, <2>3, <3>1 DEF Sends, CheckReport, PendingOn, LeaseInv, TypeOK
    <3> QED BY <1>3, <2>1, <3>2, <3>3
  <2> QED BY <2>2, <2>3
<1>7. ASSUME NEW t \in Tasks, taskState'[t] = "Running"
      PROVE  assignedAgent'[t] # NoAgent
  <2>1. CASE taskState[t] = "Running"
    <3>1. assignedAgent[t] # NoAgent
          BY <2>1 DEF WatchedInv, RunningIsAssigned
    <3> QED BY <1>1, <1>2, <1>7, <2>1, <3>1, AgentLostStep
  <2>2. CASE taskState[t] # "Running"
    <3>1. StateChanges(t)
          BY <1>1, <1>2, <1>7, <2>2, StateChangesSo
    <3> QED BY <1>7, <3>1, NoAgentAssumption DEF StateChanges, WatchedInv
  <2> QED BY <2>1, <2>2
<1> QED BY <1>2, <1>4, <1>5, <1>6, <1>7 DEF WatchedInv, RunningIsAssigned

\* Whatever is lost and whoever crashes, a Running task has an agent, so that the sweep
\* finds it, as long as only dead workers miss the cutoff and no handler sleeps through it.
THEOREM WatchedTasksAreAssigned ==
    ASSUME Watched
    PROVE  ClusterSpec => []RunningIsAssigned
<1>1. WatchedInv => RunningIsAssigned
      BY DEF WatchedInv
<1>2. WatchedInv /\ [ClusterNext]_clusterVars => WatchedInv'
      BY WatchedNext
<1> QED BY <1>1, <1>2, WatchedInit, PTL DEF ClusterSpec

-----------------------------------------------------------------------------
(* Finished tasks stay finished, where nobody cancels and every answer arrives *)

Orderly == Watched /\ ~Lossy /\ UserCancels = {}

\* A check in one transaction is as good as one in the transaction that writes: between
\* them nobody else has a report on the task accepted, so the transition stays valid.
ChecksHold ==
    \A h \in Handlers, t \in Tasks : PendingOn(h, t) =>
        /\ IsValidTaskStateTransition(taskState[t], call[h].to)
        /\ \A g \in Handlers : PendingOn(g, t) => g = h
        /\ \A a \in Agents : t \notin batch[a] /\ (t = current[a] => wait[a] = h)

OrderlyInv ==
    /\ WatchedInv
    /\ \A h \in Handlers : call[h] \notin Cancels
    /\ \A a \in Agents : current[a] \notin batch[a]
    /\ ChecksHold

LEMMA OrderlyInit == ClusterInit => OrderlyInv
<1> SUFFICES ASSUME ClusterInit
             PROVE  OrderlyInv
    OBVIOUS
<1>1. \A h \in Handlers : call[h] = Idle
      BY DEF ClusterInit, Init
<1>2. \A h \in Handlers : call[h] \notin Cancels /\ \A t \in Tasks : ~PendingOn(h, t)
      BY <1>1 DEF PendingOn, Reports, Cancels, Idle
<1>3. \A a \in Agents : current[a] \notin batch[a]
      BY DEF ClusterInit
<1> QED BY <1>2, <1>3, WatchedInit DEF OrderlyInv, ChecksHold

\* A worker that goes on with its task waits for the same handler as before, unless that
\* one is through.
LEMMA WaitsOn ==
    ASSUME Orderly, LeaseInv, HandsOK, [ClusterNext]_clusterVars, NEW b \in Agents,
           \A a \in Agents, h \in Handlers, t \in Tasks : ~Sends(a, h, t),
           current'[b] \in Tasks, current'[b] = current[b]
    PROVE  \/ wait'[b] = wait[b]
           \/ wait[b] \in Handlers /\ call'[wait[b]] = Idle
<1> USE DEF HandsOK, WorkerTypes
<1>1. ASSUME NEW a \in Agents, Worker(a)
      PROVE  wait'[b] = wait[b]
  <2>1. CASE \/ \E t \in Tasks : ReportRunning(a, t)
             \/ \E r \in {"Succeeded", "Failed"} : ReportResult(a, r)
        BY <2>1, SendsReport
  <2>2. CASE BeginExecution(a) \/ NextTask(a)
        BY <2>2 DEF BeginExecution, NextTask, Answered, Orderly
  <2>3. CASE Crash(a)
        BY <2>3, ClusterAssumption DEF Crash
  <2>4. CASE \/ StartWorker(a) \/ RegistrationLost(a) \/ TickHeartbeat(a)
             \/ PollAnswered(a) \/ PollFails(a)
             \/ BusyHeartbeat(a) \/ StopCanceled(a) \/ \E t \in Tasks : OrphanExits(a, t)
        BY <2>4 DEF StartWorker, RegistrationLost, TickHeartbeat, PollAnswered, PollFails,
                    BusyHeartbeat, StopCanceled, OrphanExits, workerVars
  <2> QED BY <1>1, <2>1, <2>2, <2>3, <2>4 DEF Worker
<1>2. CASE \E h \in Handlers : Write(h)
      BY <1>2 DEF Write, ReleaseWaiting
<1>3. CASE User \/ Sweep \/ UNCHANGED clusterVars \/ \E a \in Agents : Silence(a)
      BY <1>3 DEF User, Sweep, clusterVars, workerVars, Silence
<1>4. ~MasterFails
      BY DEF MasterFails, Orderly
<1> QED BY <1>1, <1>2, <1>3, <1>4 DEF ClusterNext

\* Nobody begins a cancel.
LEMMA NoCancels ==
    ASSUME Orderly, LeaseInv, HandsOK, [ClusterNext]_clusterVars, NEW h \in Handlers, call[h] \notin Cancels
    PROVE  call'[h] \notin Cancels
<1>1. Idle \notin Cancels /\ \A t, to : [op |-> "report", task |-> t, to |-> to] \notin Cancels
      BY DEF Idle, Cancels
<1>2. CASE UNCHANGED call
      BY <1>2
<1>3. ASSUME NEW a \in Agents, NEW g \in Handlers, NEW t \in Tasks, Sends(a, g, t)
      PROVE  call'[h] \notin Cancels
      BY <1>1, <1>3 DEF Sends, CheckReport, LeaseInv, TypeOK
<1>4. ASSUME NEW a \in Agents, Worker(a), ~ \E g \in Handlers, t \in Tasks : Sends(a, g, t)
      PROVE  UNCHANGED call
  <2>1. CASE \/ \E t \in Tasks : ReportRunning(a, t)
             \/ \E r \in {"Succeeded", "Failed"} : ReportResult(a, r)
        BY <1>4, <2>1, SendsReport DEF masterVars
  <2>2. CASE \/ StartWorker(a) \/ RegistrationLost(a) \/ TickHeartbeat(a)
             \/ PollAnswered(a) \/ PollFails(a) \/ BusyHeartbeat(a)
        BY <2>2 DEF StartWorker, RegistrationLost, TickHeartbeat, PollAnswered, PollFails,
                    BusyHeartbeat, masterVars,
                    HandleUpsertAgent, HandleAgentHeartbeat, HandlePollTasks
  <2>3. CASE \/ BeginExecution(a) \/ StopCanceled(a) \/ NextTask(a) \/ Crash(a)
             \/ \E t \in Tasks : OrphanExits(a, t)
        BY <2>3 DEF BeginExecution, StopCanceled, NextTask, Crash, OrphanExits, masterVars
  <2> QED BY <1>4, <2>1, <2>2, <2>3 DEF Worker
<1>5. ASSUME NEW g \in Handlers, Write(g)
      PROVE  call'[h] \notin Cancels
      BY <1>1, <1>5 DEF Write, WriteReport, LeaseInv, TypeOK
<1>6. CASE User
      BY <1>1, <1>2, <1>6 DEF User, Orderly, HandleCreateTask, WriteCancel, LeaseInv, TypeOK
<1>7. CASE Sweep \/ UNCHANGED clusterVars \/ \E a \in Agents : Silence(a)
      BY <1>2, <1>7 DEF Sweep, MaintenanceSweep, clusterVars, masterVars, Silence, Age
<1>8. ~MasterFails
      BY DEF MasterFails, Orderly
<1> QED BY <1>2, <1>3, <1>4, <1>5, <1>6, <1>7, <1>8 DEF ClusterNext

\* While a report on t is pending, only the handler that has it changes the state of t.
LEMMA PendingStateHeld ==
    ASSUME OrderlyInv, [Next]_vars, NEW h \in Handlers, NEW t \in Tasks, PendingOn(h, t)
    PROVE  taskState'[t] = taskState[t] \/ (WriteReport(h) /\ taskState'[t] = call[h].to)
<1>1. LeaseInv /\ assignedAgent[t] \in Agents \ overdue
      BY DEF OrderlyInv, WatchedInv
<1>2. taskState[t] # "Absent"
      BY <1>1, NoAgentAssumption DEF LeaseInv
<1>3. CASE StateChanges(t)
      BY <1>1, <1>2, <1>3, NoAgentAssumption DEF StateChanges, OrderlyInv, ChecksHold
<1> QED BY <1>1, <1>3, StateChangesSo

\* No worker has a task both in its batch and in hand.
LEMMA HandsApart ==
    ASSUME HandsOK, [ClusterNext]_clusterVars,
           NEW a \in Agents, current[a] \notin batch[a]
    PROVE  current'[a] \notin batch'[a]
<1> USE DEF HandsOK, WorkerTypes, HandsInv
<1>1. ASSUME NEW b \in Agents, Worker(b)
      PROVE  current'[a] \notin batch'[a]
  <2>1. CASE PollAnswered(b)
        BY <1>1, <2>1, ClusterAssumption DEF PollAnswered, Goto
  <2>2. CASE \E t \in Tasks : ReportRunning(b, t)
        BY <2>2 DEF ReportRunning
  <2>3. CASE \E r \in {"Succeeded", "Failed"} : ReportResult(b, r)
        BY <2>3 DEF ReportResult
  <2>4. CASE \/ StartWorker(b) \/ RegistrationLost(b) \/ TickHeartbeat(b) \/ PollFails(b)
             \/ BeginExecution(b) \/ BusyHeartbeat(b) \/ \E t \in Tasks : OrphanExits(b, t)
        BY <2>4 DEF StartWorker, RegistrationLost, TickHeartbeat, PollFails,
                    BeginExecution, BusyHeartbeat,
                    OrphanExits, workerVars
  <2>5. CASE StopCanceled(b) \/ NextTask(b) \/ Crash(b)
        BY <2>5, ClusterAssumption DEF StopCanceled, NextTask, Crash, LeaveTask
  <2> QED BY <1>1, <2>1, <2>2, <2>3, <2>4, <2>5 DEF Worker
<1>2. CASE ~ \E b \in Agents : Worker(b)
      BY <1>2 DEF ClusterNext, Silence, Write, MasterFails, User, Sweep, clusterVars, workerVars
<1> QED BY <1>1, <1>2

LEMMA ChecksNext ==
    ASSUME Orderly, OrderlyInv, [ClusterNext]_clusterVars
    PROVE  ChecksHold' /\ \A a \in Agents : (current[a] \notin batch[a])'
<1>1. LeaseInv /\ HandsOK /\ HandsOK' /\ [Next]_vars
      BY HandsNext, MasterStep DEF OrderlyInv, WatchedInv
<1>2. ASSUME NEW a \in Agents, NEW g \in Handlers, NEW u \in Tasks, Sends(a, g, u)
      PROVE  ChecksHold' /\ \A b \in Agents : (current[b] \notin batch[b])'
  <2> USE <1>1 DEF HandsOK, WorkerTypes, HandsInv
  <2>1. /\ InHand(a, u) /\ assignedAgent[u] = a /\ wait[a] = NoHandler
        /\ phase[a] = "executing" \/ u \in batch[a]
        BY <1>2 DEF Sends, InHand, OrderlyInv, WatchedInv
  <2>2. PICK to \in ReportStates : CheckReport(g, u, to)
        BY <1>2 DEF Sends
  <2>3. /\ UNCHANGED dbVars /\ call'[g] = [op |-> "report", task |-> u, to |-> to]
        /\ IsValidTaskStateTransition(taskState[u], to)
        /\ \A h \in Handlers \ {g} : call'[h] = call[h]
        BY <2>2 DEF CheckReport, LeaseInv, TypeOK
  <2>4. \A h \in Handlers : ~PendingOn(h, u)
    <3>1. u \in batch[a] \/ u = current[a]
          BY <2>1 DEF InHand
    <3> QED BY <2>1, <3>1, ClusterAssumption DEF OrderlyInv, ChecksHold
  <2>5. \A b \in Agents \ {a} : ~InHand(b, u)
        BY <2>1 DEF OrderlyInv, WatchedInv
  <2>6. /\ \A b \in Agents \ {a} : batch'[b] = batch[b] /\ current'[b] = current[b] /\ wait'[b] = wait[b]
        /\ batch'[a] \subseteq batch[a] /\ u \notin batch'[a] /\ current'[a] = u /\ wait'[a] = g
        BY <1>2 DEF Sends, OrderlyInv
  <2>7. \A b \in Agents : current'[b] \notin batch'[b]
        BY <2>6 DEF OrderlyInv
  <2>8. ASSUME NEW h \in Handlers, NEW t \in Tasks, PendingOn(h, t)'
        PROVE  /\ IsValidTaskStateTransition(taskState[t], call[h].to)'
               /\ \A k \in Handlers : PendingOn(k, t)' => k = h
               /\ \A b \in Agents : t \notin batch'[b] /\ (t = current'[b] => wait'[b] = h)
    <3>1. taskState' = taskState
          BY <2>3 DEF dbVars
    <3>2. CASE t = u
      <4>1. \A k \in Handlers : PendingOn(k, u)' => k = g
            BY <2>3, <2>4 DEF PendingOn
      <4>2. h = g
            BY <2>8, <3>2, <4>1
      <4>3. \A b \in Agents : u \notin batch'[b] /\ (u = current'[b] => wait'[b] = g)
            BY <2>5, <2>6 DEF InHand
      <4>4. IsValidTaskStateTransition(taskState[u], call[g].to)'
            BY <2>3, <3>1 DEF IsValidTaskStateTransition
      <4> QED BY <3>2, <4>1, <4>2, <4>3, <4>4
    <3>3. CASE t # u
      <4>1. \A k \in Handlers : PendingOn(k, t)' => PendingOn(k, t) /\ call'[k] = call[k]
            BY <2>3, <3>3 DEF PendingOn
      <4>2. /\ IsValidTaskStateTransition(taskState[t], call[h].to)
            /\ \A k \in Handlers : PendingOn(k, t) => k = h
            /\ \A b \in Agents : t \notin batch[b] /\ (t = current[b] => wait[b] = h)
            BY <2>8, <4>1 DEF OrderlyInv, ChecksHold
      <4>3. \A b \in Agents : t \notin batch'[b] /\ (t = current'[b] => wait'[b] = h)
            BY <2>6, <3>3, <4>2
      <4>4. IsValidTaskStateTransition(taskState[t], call[h].to)'
            BY <2>8, <3>1, <4>1, <4>2 DEF IsValidTaskStateTransition
      <4> QED BY <4>1, <4>2, <4>3, <4>4
    <3> QED BY <3>2, <3>3
  <2> QED BY <2>7, <2>8 DEF ChecksHold
<1>3. ASSUME ~ \E a \in Agents, h \in Handlers, t \in Tasks : Sends(a, h, t)
      PROVE  ChecksHold' /\ \A a \in Agents : (current[a] \notin batch[a])'
  <2>1. HandsEmpty
        BY <1>1, <1>3, HandsMove
  <2>2. ASSUME NEW a \in Agents
        PROVE  current'[a] \notin batch'[a]
        BY <1>1, HandsApart DEF OrderlyInv
  <2>3. ASSUME NEW h \in Handlers, NEW t \in Tasks, PendingOn(h, t)'
        PROVE  /\ IsValidTaskStateTransition(taskState[t], call[h].to)'
               /\ \A k \in Handlers : PendingOn(k, t)' => k = h
               /\ \A b \in Agents : t \notin batch'[b] /\ (t = current'[b] => wait'[b] = h)
    <3>1. PendingOn(h, t) /\ call'[h] = call[h] /\ \A k \in Handlers : PendingOn(k, t)' => PendingOn(k, t)
          BY <2>1, <2>3 DEF HandsEmpty, NoReport
    <3>2. /\ IsValidTaskStateTransition(taskState[t], call[h].to)
          /\ \A k \in Handlers : PendingOn(k, t) => k = h
          /\ \A b \in Agents : t \notin batch[b] /\ (t = current[b] => wait[b] = h)
          /\ assignedAgent[t] \in Agents
          BY <3>1 DEF OrderlyInv, ChecksHold, WatchedInv
    <3>3. taskState'[t] = taskState[t] \/ taskState'[t] = call[h].to
          BY <1>1, <3>1, PendingStateHeld
    <3>4. IsValidTaskStateTransition(taskState[t], call[h].to)'
          BY <3>1, <3>2, <3>3 DEF IsValidTaskStateTransition
    <3>5. ASSUME NEW b \in Agents
          PROVE  t \notin batch'[b]
      <4>1. CASE PollAnswered(b) /\ t \in batch'[b]
            BY <1>1, <3>2, <4>1, PolledIsAssigned, NoAgentAssumption
      <4> QED BY <2>1, <3>2, <4>1 DEF HandsEmpty
    <3>6. ASSUME NEW b \in Agents, t = current'[b]
          PROVE  wait'[b] = h
      <4>1. t = current[b] /\ wait[b] = h
            BY <2>1, <3>2, <3>6 DEF HandsEmpty, InHand
      <4>2. call'[h] # Idle
            BY <2>3 DEF PendingOn, Reports, Idle
      <4> QED BY <1>1, <1>3, <3>6, <4>1, <4>2, WaitsOn
    <3> QED BY <3>1, <3>2, <3>4, <3>5, <3>6
  <2> QED BY <2>2, <2>3 DEF ChecksHold
<1> QED BY <1>2, <1>3

LEMMA OrderlyNext == Orderly /\ OrderlyInv /\ [ClusterNext]_clusterVars => OrderlyInv'
<1> SUFFICES ASSUME Orderly, OrderlyInv, [ClusterNext]_clusterVars
             PROVE  OrderlyInv'
    OBVIOUS
<1>1. WatchedInv'
      BY WatchedNext DEF Orderly, OrderlyInv
<1>2. \A h \in Handlers : call'[h] \notin Cancels
      BY NoCancels DEF OrderlyInv, WatchedInv
<1> QED BY <1>1, <1>2, ChecksNext DEF OrderlyInv

\* Where no user cancels, every answer arrives and only the dead miss the cutoff, no
\* report takes a task out of a terminal state, although it is checked in one transaction
\* and written in another, repeatedly where its commit is in doubt.
THEOREM OrderlyTasksStayFinished ==
    ASSUME Orderly
    PROVE  ClusterSpec => TerminalIsFinal
<1>1. ASSUME OrderlyInv, [ClusterNext]_clusterVars, NEW t \in Tasks, IsTerminal(t)
      PROVE  taskState'[t] = taskState[t]
  <2>1. LeaseInv /\ HandsOK /\ [Next]_vars
        BY <1>1, MasterStep DEF OrderlyInv, WatchedInv
  <2>2. ASSUME NEW h \in Handlers, PendingOn(h, t), taskState'[t] = call[h].to
        PROVE  taskState'[t] = taskState[t]
        BY <1>1, <2>2
        DEF OrderlyInv, ChecksHold, IsValidTaskStateTransition, IsTerminal, TerminalStates
  <2> QED BY <1>1, <2>1, <2>2, StateChangesSo
          DEF StateChanges, OrderlyInv, IsTerminal, TerminalStates
<1>2. OrderlyInv /\ [ClusterNext]_clusterVars =>
          [\A t \in Tasks : IsTerminal(t) => taskState'[t] = taskState[t]]_clusterVars
      BY <1>1
<1>3. OrderlyInv /\ [ClusterNext]_clusterVars => OrderlyInv'
      BY OrderlyNext
<1> QED BY <1>2, <1>3, OrderlyInit, PTL DEF ClusterSpec, TerminalIsFinal
=============================================================================
