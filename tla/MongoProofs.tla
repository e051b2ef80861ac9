----------------------------- MODULE MongoProofs -----------------------------
(***************************************************************************)
(* Proofs about MongoBroker for any sets of agents, tasks and handler      *)
(* threads, on a server with transactions and on one without.              *)
(***************************************************************************)
EXTENDS MongoBroker, TLAPS

Calls == {Free} \union Polls \union Writes \union Cancels

\* What a call carries, by its op.
LEMMA CallKinds ==
    ASSUME MongoTypeOK, NEW h \in Handlers
    PROVE  /\ call[h].op \in {"find", "assign"} => call[h] \in Polls
           /\ call[h].op \in {"report", "close"} => call[h] \in Writes
           /\ call[h].op \in {"cancel", "free_rows"} => call[h] \in Cancels
<1>1. call[h] \in Calls
      BY DEF MongoTypeOK, Calls
<1>2. CASE call[h] = Free
      BY <1>2 DEF Free
<1>3. CASE call[h] \in Polls
      BY <1>3 DEF Polls
<1>4. CASE call[h] \in Writes
      BY <1>4 DEF Writes
<1>5. CASE call[h] \in Cancels
      BY <1>5 DEF Cancels
<1> QED BY <1>1, <1>2, <1>3, <1>4, <1>5 DEF Calls

LEMMA BecomeType ==
    ASSUME MongoTypeOK, NEW h \in Handlers, NEW c \in Calls, Become(h, c)
    PROVE  /\ call' \in [Handlers -> Calls]
           /\ call'[h] = c
           /\ \A g \in Handlers \ {h} : call'[g] = call[g]
BY DEF MongoTypeOK, Calls, Become

LEMMA FreeIsCall == Free \in Calls
BY DEF Calls

\* The marks of late reports: none is added unless a report adds it.
LEMMA LateType ==
    ASSUME MongoTypeOK, UNCHANGED history \/ ForgetLate \/ UNCHANGED late
    PROVE  late' \subseteq Tasks
BY DEF MongoTypeOK, ForgetLate, history

-----------------------------------------------------------------------------
(* Type correctness *)

LEMMA MongoTypingInit == MongoInit => MongoTypeOK
BY DEF MongoInit, DbInit, MongoTypeOK, DbTypeOK, TaskStates, AgentStatuses, NoSweep, Sweeps

\* A poll that is one transaction keeps the types of the tables.
LEMMA TxPollType ==
    ASSUME MongoTypeOK, NEW a \in Agents, NEW n \in FreeSlots, PollTasksForAgent(a, n)
    PROVE  DbTypeOK'
<1> USE DEF MongoTypeOK, DbTypeOK
<1>1. CASE UNCHANGED <<agentStatus, taskVars>>
      BY <1>1 DEF PollTasksForAgent, taskVars
<1>2. ASSUME NEW S \in SUBSET Dispatchable(a), Dispatch(a, S)
      PROVE  DbTypeOK'
  <2>1. agentStatus' \in [Agents -> AgentStatuses \union {"Absent"}]
        BY <1>2 DEF Dispatch, AgentStatuses
  <2>2. taskState' \in [Tasks -> TaskStates \union {"Absent"}]
        BY <1>2 DEF Dispatch, TaskStates
  <2>3. assignedAgent' \in [Tasks -> Agents \union {NoAgent}]
        BY <1>2 DEF Dispatch
  <2>4. openRows' \in [Tasks -> [Agents -> Nat]]
        BY <1>2 DEF Dispatch
  <2> QED BY <2>1, <2>2, <2>3, <2>4 DEF PollTasksForAgent
<1> QED BY <1>1, <1>2 DEF PollTasksForAgent

LEMMA HandlerStepType ==
    ASSUME MongoTypeOK, NEW h \in Handlers, HandlerStep(h)
    PROVE  MongoTypeOK'
<1> USE DEF MongoTypeOK, DbTypeOK
<1>1. CASE FindCandidates(h)
  <2>1. PICK S \in SUBSET Dispatchable(call[h].agent) :
            Become(h, [call[h] EXCEPT !.op = "assign", !.left = S])
        BY <1>1 DEF FindCandidates
  <2>2. S \subseteq Tasks
        BY <1>1, CallKinds, FitsAssumption DEF FindCandidates, Polls, Dispatchable
  <2>3. [call[h] EXCEPT !.op = "assign", !.left = S] \in Calls
        BY <1>1, <2>2, CallKinds DEF FindCandidates, Calls, Polls
  <2> QED BY <1>1, <2>1, <2>3, BecomeType DEF FindCandidates, dbVars, history, Calls
<1>2. CASE TryAssign(h)
  <2>1. call[h] \in Polls
        BY <1>2, CallKinds DEF TryAssign
  <2>2. PICK t \in call[h].left :
          \/ /\ Become(h, [call[h] EXCEPT !.left = @ \ {t}, !.row = t, !.got = @ \union {t}])
             /\ taskState' = [taskState EXCEPT ![t] = "Running"]
             /\ assignedAgent' = [assignedAgent EXCEPT ![t] = call[h].agent]
          \/ /\ Become(h, [call[h] EXCEPT !.left = @ \ {t}])
             /\ UNCHANGED <<taskState, assignedAgent>>
        BY <1>2 DEF TryAssign
  <2>3. t \in Tasks /\ call[h].agent \in Agents
        BY <2>1, <2>2 DEF Polls
  <2>4. /\ [call[h] EXCEPT !.left = @ \ {t}, !.row = t, !.got = @ \union {t}] \in Calls
        /\ [call[h] EXCEPT !.left = @ \ {t}] \in Calls
        BY <2>1, <2>3 DEF Polls, Calls
  <2>5. call' \in [Handlers -> Calls]
        BY <2>2, <2>4, BecomeType
  <2>6. /\ taskState' \in [Tasks -> TaskStates \union {"Absent"}]
        /\ assignedAgent' \in [Tasks -> Agents \union {NoAgent}]
        BY <2>2, <2>3 DEF TaskStates
  <2>7. late' \subseteq Tasks
        BY <1>2, LateType DEF TryAssign
  <2> QED BY <1>2, <2>5, <2>6, <2>7 DEF TryAssign, agentVars, Calls
<1>3. CASE InsertRow(h)
  <2>1. call[h] \in Polls /\ call[h].row \in Tasks
        BY <1>3, CallKinds DEF InsertRow, Polls
  <2>2. [call[h] EXCEPT !.row = NoTask] \in Calls
        BY <2>1 DEF Calls, Polls
  <2>3. openRows' \in [Tasks -> [Agents -> Nat]]
        BY <1>3, <2>1 DEF InsertRow, Polls
  <2> QED BY <1>3, <2>2, <2>3, BecomeType DEF InsertRow, agentVars, history, Calls
<1>4. CASE FinishPoll(h)
  <2>1. call[h] \in Polls
        BY <1>4, CallKinds DEF FinishPoll
  <2>2. agentStatus' \in [Agents -> AgentStatuses \union {"Absent"}]
        BY <1>4, <2>1 DEF FinishPoll, AgentStatuses
  <2> QED BY <1>4, <2>2, BecomeType, FreeIsCall DEF FinishPoll, taskVars, history, Calls
<1>5. CASE WriteReport(h)
  <2>1. call[h] \in Writes
        BY <1>5, CallKinds DEF WriteReport
  <2>2. call[h].task \in Tasks /\ call[h].to \in TaskStates
        BY <2>1, MongoAssumption DEF Writes
  <2>3. taskState' \in [Tasks -> TaskStates \union {"Absent"}]
        BY <1>5, <2>2 DEF WriteReport, UpdateTaskStatus
  <2>4. openRows' \in [Tasks -> [Agents -> Nat]]
        BY <1>5, <2>2 DEF WriteReport, UpdateTaskStatus, CloseRowsOf
  <2>5. [call[h] EXCEPT !.op = "close"] \in Calls
        BY <2>1 DEF Calls, Writes
  <2>6. call' \in [Handlers -> Calls]
        BY <1>5, <2>5, BecomeType, FreeIsCall DEF WriteReport, Calls
  <2>7. late' \subseteq Tasks
        BY <1>5, <2>2 DEF WriteReport
  <2> QED BY <1>5, <2>3, <2>4, <2>6, <2>7 DEF WriteReport, UpdateTaskStatus, agentVars, Calls
<1>6. CASE WriteCancel(h)
  <2>1. call[h].task \in Tasks
        BY <1>6, CallKinds DEF WriteCancel, Cancels
  <2>2. taskState' \in [Tasks -> TaskStates \union {"Absent"}]
        BY <1>6, <2>1 DEF WriteCancel, TaskStates
  <2>3. [op |-> "free_rows", task |-> call[h].task] \in Calls
        BY <2>1 DEF Calls, Cancels
  <2> QED BY <1>6, <2>2, <2>3, BecomeType DEF WriteCancel, agentVars, history, Calls
<1>7. CASE CloseRows(h)
  <2>1. call[h].task \in Tasks
        BY <1>7, CallKinds DEF CloseRows, Cancels, Writes
  <2>2. openRows' \in [Tasks -> [Agents -> Nat]]
        BY <1>7, <2>1 DEF CloseRows, CloseRowsOf
  <2> QED BY <1>7, <2>2, BecomeType, FreeIsCall DEF CloseRows, agentVars, history, Calls
<1>8. CASE RetryReport(h)
  <2>1. call[h] \in Writes
        BY <1>8, CallKinds DEF RetryReport
  <2>2. [call[h] EXCEPT !.op = "report"] \in Calls
        BY <2>1 DEF Calls, Writes
  <2>3. openRows' \in [Tasks -> [Agents -> Nat]]
        BY <1>8, <2>1 DEF RetryReport, CloseRowsOf, Writes
  <2> QED BY <1>8, <2>2, <2>3, BecomeType DEF RetryReport, agentVars, history, Calls
<1> QED BY <1>1, <1>2, <1>3, <1>4, <1>5, <1>6, <1>7, <1>8 DEF HandlerStep

LEMMA SweepStepType ==
    ASSUME MongoTypeOK, SweepStep
    PROVE  MongoTypeOK'
<1> USE DEF MongoTypeOK, DbTypeOK
<1>1. CASE TxSweep
  <2>1. agentStatus' \in [Agents -> AgentStatuses \union {"Absent"}]
        BY <1>1 DEF TxSweep, MarkOfflineAgentsAndRequeue, AgentStatuses
  <2>2. taskState' \in [Tasks -> TaskStates \union {"Absent"}]
        BY <1>1 DEF TxSweep, MarkOfflineAgentsAndRequeue, TaskStates
  <2>3. assignedAgent' \in [Tasks -> Agents \union {NoAgent}]
        BY <1>1 DEF TxSweep, MarkOfflineAgentsAndRequeue
  <2>4. openRows' \in [Tasks -> [Agents -> Nat]]
        BY <1>1 DEF TxSweep, MarkOfflineAgentsAndRequeue
  <2>5. late' \subseteq Tasks
        BY <1>1, LateType DEF TxSweep
  <2> QED BY <1>1, <2>1, <2>2, <2>3, <2>4, <2>5 DEF TxSweep, MarkOfflineAgentsAndRequeue
<1>2. CASE ListOffline
      BY <1>2 DEF ListOffline, dbVars, history, Sweeps, NoSweep, Unresponsive
<1>3. CASE SetOffline
      BY <1>3 DEF SetOffline, taskVars, history, Sweeps, AgentStatuses
<1>4. CASE CloseAgentRows
      BY <1>4 DEF CloseAgentRows, agentVars, history, Sweeps
<1>5. CASE RequeueTasks
  <2>1. taskState' \in [Tasks -> TaskStates \union {"Absent"}]
        BY <1>5 DEF RequeueTasks, TaskStates
  <2>2. assignedAgent' \in [Tasks -> Agents \union {NoAgent}]
        BY <1>5 DEF RequeueTasks
  <2>3. sweep' \in Sweeps
        BY <1>5 DEF RequeueTasks, Sweeps
  <2>4. late' \subseteq Tasks
        BY <1>5, LateType DEF RequeueTasks
  <2> QED BY <1>5, <2>1, <2>2, <2>3, <2>4 DEF RequeueTasks, agentVars
<1> QED BY <1>1, <1>2, <1>3, <1>4, <1>5 DEF SweepStep

LEMMA MongoTypingNext == MongoTypeOK /\ [MongoNext]_mongoVars => MongoTypeOK'
<1> SUFFICES ASSUME MongoTypeOK, [MongoNext]_mongoVars
             PROVE  MongoTypeOK'
    OBVIOUS
<1> USE DEF MongoTypeOK, DbTypeOK
<1>1. ASSUME NEW a \in Agents, Register(a) \/ Age(a)
      PROVE  MongoTypeOK'
      BY <1>1 DEF Register, UpsertAgent, Age, HeartbeatExpires, taskVars, history, AgentStatuses
<1>2. ASSUME NEW a \in Agents, NEW s \in {"Idle", "Busy"}, Heartbeat(a, s)
      PROVE  MongoTypeOK'
      BY <1>2 DEF Heartbeat, UpdateHeartbeat, taskVars, history, AgentStatuses
<1>3. ASSUME NEW t \in Tasks, Create(t)
      PROVE  MongoTypeOK'
      BY <1>3 DEF Create, CreateTask, agentVars, history, TaskStates
<1>4. ASSUME NEW t \in Tasks, TxCancel(t)
      PROVE  MongoTypeOK'
  <2>1. taskState' \in [Tasks -> TaskStates \union {"Absent"}]
        BY <1>4 DEF TxCancel, CancelTask, TaskStates
  <2>2. openRows' \in [Tasks -> [Agents -> Nat]]
        BY <1>4 DEF TxCancel, CancelTask, CloseRowsOf
  <2> QED BY <1>4, <2>1, <2>2 DEF TxCancel, CancelTask, agentVars, history
<1>5. ASSUME NEW a \in Agents, NEW n \in FreeSlots, TxPoll(a, n)
      PROVE  MongoTypeOK'
      BY <1>5, TxPollType, LateType DEF TxPoll
<1>6. ASSUME NEW h \in Handlers, NEW a \in Agents, NEW n \in FreeSlots, StartPoll(h, a, n)
      PROVE  MongoTypeOK'
  <2>1. [op |-> "find", agent |-> a, slots |-> n,
         left |-> {}, row |-> NoTask, got |-> {}] \in Calls
        BY DEF Calls, Polls
  <2>2. call' \in [Handlers -> Calls]
        BY <1>6, <2>1, BecomeType DEF StartPoll, Calls
  <2> QED BY <1>6, <2>2 DEF StartPoll, taskVars, history, Calls
<1>7. ASSUME NEW h \in Handlers, NEW t \in Tasks, NEW to \in ReportStates,
             AcceptReport(h, t, to)
      PROVE  MongoTypeOK'
  <2>1. [op |-> "report", task |-> t, to |-> to] \in Calls
        BY DEF Calls, Writes
  <2> QED BY <1>7, <2>1, BecomeType DEF AcceptReport, dbVars, history, Calls
<1>8. ASSUME NEW h \in Handlers, NEW t \in Tasks, FindForCancel(h, t)
      PROVE  MongoTypeOK'
  <2>1. [op |-> "cancel", task |-> t] \in Calls
        BY DEF Calls, Cancels
  <2> QED BY <1>8, <2>1, BecomeType DEF FindForCancel, dbVars, history, Calls
<1>9. ASSUME NEW h \in Handlers, HandlerStep(h)
      PROVE  MongoTypeOK'
      BY <1>9, HandlerStepType
<1>10. ASSUME NEW h \in Handlers, CallFails(h)
      PROVE  MongoTypeOK'
  <2>1. PolledBy(call[h]) \subseteq Agents
        BY CallKinds DEF PolledBy, Polls
  <2> QED BY <1>10, <2>1, BecomeType, FreeIsCall DEF CallFails, dbVars, Calls
<1>11. CASE SweepStep
      BY <1>11, SweepStepType
<1>12. CASE SweepFails
      BY <1>12 DEF SweepFails, dbVars, Sweeps, NoSweep
<1>13. CASE Restart
  <2>1. \A h \in Handlers : PolledBy(call[h]) \subseteq Agents
        BY CallKinds DEF PolledBy, Polls
  <2>2. cut' \subseteq Agents
        BY <1>13, <2>1 DEF Restart, Sweeps
  <2> QED BY <1>13, <2>2, FreeIsCall DEF Restart, dbVars, Sweeps, NoSweep, Calls
<1>14. CASE UNCHANGED mongoVars
      BY <1>14 DEF mongoVars, dbVars, history
<1> QED
    BY <1>1, <1>2, <1>3, <1>4, <1>5, <1>6, <1>7, <1>8, <1>9, <1>10, <1>11, <1>12,
       <1>13, <1>14 DEF MongoNext

\* The collections, the calls in progress and the sweep keep their types.
THEOREM MongoTypeCorrect == MongoSpec => []MongoTypeOK
BY MongoTypingInit, MongoTypingNext, PTL DEF MongoSpec
-----------------------------------------------------------------------------
(* Steps that leave the documents of tasks and agents alone, or write little. *)

\* The sweep has an agent in hand exactly while it is between its statements.
SweepInv == sweep.next = "agent" <=> sweep.agent = NoAgent

LEMMA SweepInvInit == MongoInit => SweepInv
BY DEF MongoInit, SweepInv, NoSweep

LEMMA SweepInvNext == MongoTypeOK /\ SweepInv /\ [MongoNext]_mongoVars => SweepInv'
<1> SUFFICES ASSUME MongoTypeOK, SweepInv, [MongoNext]_mongoVars
             PROVE  SweepInv'
    OBVIOUS
<1> USE DEF SweepInv
<1>1. CASE UNCHANGED sweep
      BY <1>1
<1>2. CASE ListOffline
      BY <1>2 DEF ListOffline, NoSweep
<1>3. CASE SetOffline
      BY <1>3, NoAgentAssumption DEF SetOffline, MongoTypeOK, Sweeps
<1>4. CASE CloseAgentRows
      BY <1>4 DEF CloseAgentRows, MongoTypeOK, Sweeps
<1>5. CASE RequeueTasks
      BY <1>5 DEF RequeueTasks, MongoTypeOK, Sweeps
<1>6. CASE SweepFails
      BY <1>6 DEF SweepFails, NoSweep
<1>7. CASE Restart
      BY <1>7 DEF Restart, NoSweep
<1> QED
    BY <1>1, <1>2, <1>3, <1>4, <1>5, <1>6, <1>7
    DEF MongoNext, mongoVars, Register, Age, Heartbeat, Create, TxCancel, TxPoll, StartPoll,
        AcceptReport, FindForCancel, HandlerStep, FindCandidates, TryAssign, InsertRow,
        FinishPoll, WriteReport, RetryReport, WriteCancel, CloseRows, CallFails, SweepStep,
        TxSweep

\* What a report makes of the marks of late reports.
Marked(t, to) ==
    late' = IF IsValidTaskStateTransition(taskState[t], to) THEN late ELSE late \union {t}

\* A report writes a state, and marks the task when the check would refuse it now.
LEMMA ReportCases ==
    ASSUME MongoTypeOK, NEW h \in Handlers, WriteReport(h)
    PROVE  \E t \in Tasks, to \in ReportStates :
              /\ taskState' = [taskState EXCEPT ![t] = to]
              /\ Marked(t, to)
              /\ transactions => UpdateTaskStatus(t, to) /\ call'[h].op \in {"free", "report"}
              /\ \A g \in Handlers \ {h} : call'[g] = call[g]
              /\ UNCHANGED <<agentVars, assignedAgent, transactions, sweep, cut>>
<1>1. call[h] \in Writes
      BY CallKinds DEF WriteReport
<1>2. call[h].task \in Tasks /\ call[h].to \in ReportStates
      BY <1>1 DEF Writes
<1>3. transactions => call'[h].op \in {"free", "report"}
      BY BecomeType, FreeIsCall DEF WriteReport, Free
<1>4. \A g \in Handlers \ {h} : call'[g] = call[g]
      BY DEF WriteReport, Become, MongoTypeOK
<1>5. Marked(call[h].task, call[h].to)
      BY DEF WriteReport, Marked
<1>6. /\ taskState' = [taskState EXCEPT ![call[h].task] = call[h].to]
      /\ transactions => UpdateTaskStatus(call[h].task, call[h].to)
      /\ UNCHANGED <<agentVars, assignedAgent, transactions, sweep, cut>>
      BY DEF WriteReport, UpdateTaskStatus
<1> QED BY <1>2, <1>3, <1>4, <1>5, <1>6

\* A report finds the poll of no agent in progress, and leaves none.
LEMMA ReportsPollNothing ==
    ASSUME MongoTypeOK, NEW h \in Handlers, WriteReport(h) \/ RetryReport(h)
    PROVE  PolledBy(call[h]) = {} /\ \A g \in Handlers \ {h} : call'[g] = call[g]
BY DEF WriteReport, RetryReport, Become, MongoTypeOK, PolledBy

\* The mark of a late report stays while the task has the same agent.
LEMMA LateNext ==
    ASSUME MongoTypeOK, [MongoNext]_mongoVars, NEW t \in late, assignedAgent'[t] = assignedAgent[t]
    PROVE  t \in late'
<1>1. CASE ForgetLate \/ UNCHANGED late
      BY <1>1 DEF ForgetLate
<1>2. ASSUME NEW h \in Handlers, WriteReport(h)
      PROVE  t \in late'
      BY <1>2 DEF WriteReport
<1> QED
    BY <1>1, <1>2
    DEF MongoNext, mongoVars, history, Register, Age, Heartbeat, Create, TxCancel, TxPoll,
        StartPoll, AcceptReport, FindForCancel, HandlerStep, FindCandidates, TryAssign,
        InsertRow, FinishPoll, RetryReport, WriteCancel, CloseRows, CallFails,
        SweepStep, TxSweep, ListOffline, SetOffline, CloseAgentRows, RequeueTasks,
        SweepFails, Restart

\* Unless a late report has written it, a Queued task is not assigned.
QueuedUnassigned ==
    \A t \in Tasks : taskState[t] = "Queued" /\ t \notin late => assignedAgent[t] = NoAgent

LEMMA QueuedUnassignedNext ==
    MongoTypeOK /\ QueuedUnassigned /\ [MongoNext]_mongoVars => QueuedUnassigned'
<1> SUFFICES ASSUME MongoTypeOK, QueuedUnassigned, [MongoNext]_mongoVars,
                    NEW t \in Tasks, taskState'[t] = "Queued", t \notin late'
             PROVE  assignedAgent'[t] = NoAgent
    BY DEF QueuedUnassigned
<1>1. CASE taskState'[t] = taskState[t] /\ assignedAgent'[t] = assignedAgent[t]
      BY <1>1, LateNext DEF QueuedUnassigned
<1>2. ASSUME NEW u \in Tasks, Create(u)
      PROVE  assignedAgent'[t] = NoAgent
      BY <1>1, <1>2 DEF Create, CreateTask, MongoTypeOK, DbTypeOK
<1>3. ASSUME NEW u \in Tasks, TxCancel(u)
      PROVE  assignedAgent'[t] = NoAgent
      BY <1>1, <1>3 DEF TxCancel, CancelTask, MongoTypeOK, DbTypeOK
<1>4. ASSUME NEW a \in Agents, NEW n \in FreeSlots, TxPoll(a, n)
      PROVE  assignedAgent'[t] = NoAgent
  <2>1. CASE UNCHANGED <<agentStatus, taskVars>>
        BY <1>1, <2>1 DEF taskVars
  <2>2. ASSUME NEW S \in SUBSET Dispatchable(a), Dispatch(a, S)
        PROVE  assignedAgent'[t] = NoAgent
        BY <1>1, <2>2 DEF Dispatch
  <2> QED BY <1>4, <2>1, <2>2 DEF TxPoll, PollTasksForAgent
<1>5. ASSUME NEW h \in Handlers, TryAssign(h)
      PROVE  assignedAgent'[t] = NoAgent
      BY <1>1, <1>5 DEF TryAssign, MongoTypeOK, DbTypeOK
<1>6. ASSUME NEW h \in Handlers, WriteReport(h)
      PROVE  assignedAgent'[t] = NoAgent
  <2>1. PICK u \in Tasks, to \in ReportStates :
             /\ taskState' = [taskState EXCEPT ![u] = to]
             /\ Marked(u, to)
             /\ UNCHANGED assignedAgent
        BY <1>6, ReportCases
  <2>2. CASE u # t
        BY <1>1, <2>1, <2>2 DEF MongoTypeOK, DbTypeOK
  <2>3. CASE u = t
    <3>1. to = "Queued"
          BY <2>1, <2>3 DEF MongoTypeOK, DbTypeOK
    <3>2. taskState[t] = "Queued"
          BY <2>1, <2>3, <3>1 DEF Marked, IsValidTaskStateTransition, TerminalStates
    <3> QED BY <1>1, <2>1, <2>3, <3>1, <3>2 DEF MongoTypeOK, DbTypeOK
  <2> QED BY <2>2, <2>3
<1>7. ASSUME NEW h \in Handlers, WriteCancel(h)
      PROVE  assignedAgent'[t] = NoAgent
      BY <1>1, <1>7 DEF WriteCancel, MongoTypeOK, DbTypeOK
<1>8. CASE TxSweep
      BY <1>1, <1>8 DEF TxSweep, MarkOfflineAgentsAndRequeue
<1>9. CASE RequeueTasks
      BY <1>1, <1>9 DEF RequeueTasks
<1>10. CASE UNCHANGED <<taskState, assignedAgent>>
      BY <1>1, <1>10
<1> QED
    BY <1>2, <1>3, <1>4, <1>5, <1>6, <1>7, <1>8, <1>9, <1>10
    DEF MongoNext, mongoVars, dbVars, taskVars, Register, UpsertAgent, Age, HeartbeatExpires,
        Heartbeat, UpdateHeartbeat, StartPoll, AcceptReport, FindForCancel, HandlerStep,
        FindCandidates, InsertRow, FinishPoll, RetryReport, CloseRows, CallFails, SweepStep,
        ListOffline, SetOffline, CloseAgentRows, SweepFails, Restart

-----------------------------------------------------------------------------
(* Tasks stranded on an agent that is Offline *)

\* Every poll in progress of another handler is still in progress.
LEMMA PollingKept ==
    ASSUME MongoTypeOK, NEW h \in Handlers, NEW c \in Calls, Become(h, c),
           NEW a \in Agents, Polling(a)
    PROVE  Polling(a)' \/ (a \in PolledBy(call[h]) /\ a \notin PolledBy(c))
<1>1. PICK g \in Handlers : a \in PolledBy(call[g])
      BY DEF Polling
<1>2. CASE g # h
      BY <1>1, <1>2, BecomeType DEF Polling, PolledBy
<1>3. CASE g = h
      BY <1>1, <1>3, BecomeType DEF Polling, PolledBy
<1> QED BY <1>2, <1>3

Stranded(t, a) == taskState[t] = "Running" /\ assignedAgent[t] = a /\ agentStatus[a] = "Offline"
Excused(t, a) == Sweeping(a) \/ Polling(a) \/ a \in cut \/ t \in late

\* StrandedByCutOrLateReport, task by task and agent by agent.
LEMMA StrandedMeaning ==
    ASSUME MongoTypeOK
    PROVE  StrandedByCutOrLateReport <=> \A t \in Tasks, a \in Agents : Stranded(t, a) => Excused(t, a)
BY NoAgentAssumption
   DEF MongoTypeOK, DbTypeOK, StrandedByCutOrLateReport, Stranded, Excused

LEMMA StrandedInit == MongoInit => StrandedByCutOrLateReport
BY DEF MongoInit, DbInit, StrandedByCutOrLateReport

\* One step: a task stranded after it is one before, and its agent's excuse remains.
LEMMA ExcusedNext ==
    ASSUME MongoTypeOK, SweepInv, QueuedUnassigned, [MongoNext]_mongoVars,
           NEW t \in Tasks, NEW a \in Agents, Stranded(t, a)',
           Stranded(t, a) => Excused(t, a)
    PROVE  Excused(t, a)'
<1>0. MongoTypeOK'
      BY MongoTypingNext
<1>l. Stranded(t, a) /\ t \in late => t \in late'
      BY LateNext DEF Stranded
<1> USE <1>l DEF Stranded, Excused, history
<1>1. CASE UNCHANGED <<call, sweep, cut>> /\ Stranded(t, a)
      BY <1>1 DEF Sweeping, Polling
<1>2. ASSUME NEW b \in Agents, Register(b) \/ Age(b)
      PROVE  Excused(t, a)'
      BY <1>1, <1>2
      DEF Register, UpsertAgent, Age, HeartbeatExpires, taskVars, MongoTypeOK, DbTypeOK
<1>3. ASSUME NEW b \in Agents, NEW s \in {"Idle", "Busy"}, Heartbeat(b, s)
      PROVE  Excused(t, a)'
      BY <1>1, <1>3 DEF Heartbeat, UpdateHeartbeat, taskVars, MongoTypeOK, DbTypeOK
<1>4. ASSUME NEW u \in Tasks, Create(u) \/ TxCancel(u)
      PROVE  Excused(t, a)'
      BY <1>1, <1>4
      DEF Create, CreateTask, TxCancel, CancelTask, agentVars, MongoTypeOK, DbTypeOK
<1>5. ASSUME NEW b \in Agents, NEW n \in FreeSlots, TxPoll(b, n)
      PROVE  Excused(t, a)'
  <2>1. CASE UNCHANGED <<agentStatus, taskVars>>
        BY <1>1, <1>5, <2>1 DEF TxPoll, taskVars
  <2>2. ASSUME NEW S \in SUBSET Dispatchable(b), Dispatch(b, S)
        PROVE  Excused(t, a)'
    <3>1. a # b
          BY <2>2 DEF Dispatch, MongoTypeOK, DbTypeOK
    <3>2. t \notin S
          BY <2>2, <3>1 DEF Dispatch, Dispatchable
    <3> QED BY <1>1, <1>5, <2>2, <3>1, <3>2 DEF TxPoll, Dispatch, MongoTypeOK, DbTypeOK
  <2> QED BY <1>5, <2>1, <2>2 DEF TxPoll, PollTasksForAgent
<1>6. ASSUME NEW h \in Handlers, NEW c \in Calls, Become(h, c), UNCHANGED <<sweep, cut>>,
             PolledBy(call[h]) \subseteq PolledBy(c), Stranded(t, a)
      PROVE  Excused(t, a)'
      BY <1>6, PollingKept DEF Sweeping
<1>7. ASSUME NEW h \in Handlers, NEW b \in Agents, NEW n \in FreeSlots, StartPoll(h, b, n)
      PROVE  Excused(t, a)'
  <2>1. [op |-> "find", agent |-> b, slots |-> n,
         left |-> {}, row |-> NoTask, got |-> {}] \in Calls
        BY DEF Calls, Polls
  <2>2. PolledBy(call[h]) = {}
        BY <1>7 DEF StartPoll, PolledBy, Free
  <2> QED BY <1>1, <1>6, <1>7, <2>1, <2>2 DEF StartPoll, taskVars
<1>8. ASSUME NEW h \in Handlers, NEW u \in Tasks, NEW to \in ReportStates,
             AcceptReport(h, u, to)
      PROVE  Excused(t, a)'
  <2>1. [op |-> "report", task |-> u, to |-> to] \in Calls
        BY DEF Calls, Writes
  <2>2. PolledBy(call[h]) = {}
        BY <1>8 DEF AcceptReport, PolledBy, Free
  <2> QED BY <1>6, <1>8, <2>1, <2>2 DEF AcceptReport, dbVars
<1>9. ASSUME NEW h \in Handlers, NEW u \in Tasks, FindForCancel(h, u)
      PROVE  Excused(t, a)'
  <2>1. [op |-> "cancel", task |-> u] \in Calls
        BY DEF Calls, Cancels
  <2>2. PolledBy(call[h]) = {}
        BY <1>9 DEF FindForCancel, PolledBy, Free
  <2> QED BY <1>6, <1>9, <2>1, <2>2 DEF FindForCancel, dbVars
<1>10. ASSUME NEW h \in Handlers, FindCandidates(h)
       PROVE  Excused(t, a)'
  <2>1. PICK S : Become(h, [call[h] EXCEPT !.op = "assign", !.left = S])
        BY <1>10 DEF FindCandidates
  <2>2. call[h] \in Polls
        BY <1>10, CallKinds DEF FindCandidates
  <2>3. call'[h] = [call[h] EXCEPT !.op = "assign", !.left = S] /\ call'[h] \in Calls
        BY <1>0, <2>1 DEF Become, MongoTypeOK, Calls
  <2>4. Become(h, call'[h])
        BY <2>1, <2>3
  <2>5. call'[h].op = "assign" /\ call'[h].agent = call[h].agent
        BY <2>2, <2>3 DEF Polls
  <2>6. PolledBy(call[h]) \subseteq PolledBy(call'[h])
        BY <1>10, <2>5 DEF PolledBy, FindCandidates
  <2> QED BY <1>6, <1>10, <2>3, <2>4, <2>6 DEF FindCandidates, dbVars
<1>11. ASSUME NEW h \in Handlers, TryAssign(h)
       PROVE  Excused(t, a)'
  <2>1. call[h] \in Polls
        BY <1>11, CallKinds DEF TryAssign
  <2>2. PICK u \in call[h].left :
          \/ /\ Become(h, [call[h] EXCEPT !.left = @ \ {u}, !.row = u, !.got = @ \union {u}])
             /\ taskState' = [taskState EXCEPT ![u] = "Running"]
             /\ assignedAgent' = [assignedAgent EXCEPT ![u] = call[h].agent]
          \/ /\ Become(h, [call[h] EXCEPT !.left = @ \ {u}])
             /\ UNCHANGED <<taskState, assignedAgent>>
        BY <1>11 DEF TryAssign
  <2>3. PICK c \in {[call[h] EXCEPT !.left = @ \ {u}, !.row = u, !.got = @ \union {u}],
                   [call[h] EXCEPT !.left = @ \ {u}]} : Become(h, c)
        BY <2>2
  <2>4. c.op = "assign" /\ c.agent = call[h].agent
        BY <1>11, <2>1, <2>3 DEF TryAssign, Polls
  <2>5. call'[h] = c
        BY <2>3 DEF Become, MongoTypeOK
  <2>6. call'[h] \in Calls /\ Become(h, call'[h])
        BY <1>0, <2>3, <2>5 DEF MongoTypeOK, Calls
  <2>7. PolledBy(call[h]) = {call[h].agent} /\ PolledBy(call'[h]) = {call[h].agent}
        BY <1>11, <2>4, <2>5 DEF PolledBy, TryAssign
  <2>8. CASE a = call[h].agent
        BY <2>7, <2>8 DEF Polling
  <2>9. CASE a # call[h].agent
    <3>1. Stranded(t, a)
          BY <1>11, <2>2, <2>9 DEF TryAssign, agentVars, MongoTypeOK, DbTypeOK
    <3> QED BY <1>6, <1>11, <2>6, <2>7, <3>1 DEF TryAssign
  <2> QED BY <2>8, <2>9
<1>12. ASSUME NEW h \in Handlers, InsertRow(h)
       PROVE  Excused(t, a)'
  <2>1. call[h] \in Polls
        BY <1>12, CallKinds DEF InsertRow
  <2>2. [call[h] EXCEPT !.row = NoTask] \in Calls
        BY <2>1 DEF Calls, Polls
  <2>3. PolledBy(call[h]) = PolledBy([call[h] EXCEPT !.row = NoTask])
        BY <2>1 DEF PolledBy, Polls
  <2> QED BY <1>6, <1>12, <2>2, <2>3 DEF InsertRow, agentVars
<1>13. ASSUME NEW h \in Handlers, FinishPoll(h)
       PROVE  Excused(t, a)'
  <2>1. a # call[h].agent
        BY <1>13 DEF FinishPoll, MongoTypeOK, DbTypeOK
  <2>2. Stranded(t, a)
        BY <1>13, <2>1 DEF FinishPoll, taskVars, MongoTypeOK, DbTypeOK
  <2>3. PolledBy(call[h]) = {call[h].agent}
        BY <1>13 DEF FinishPoll, PolledBy
  <2> QED BY <1>13, <2>1, <2>2, <2>3, PollingKept, FreeIsCall DEF FinishPoll, Sweeping
<1>14. ASSUME NEW h \in Handlers, WriteReport(h)
       PROVE  Excused(t, a)'
  <2>1. PICK u \in Tasks, to \in ReportStates :
             /\ taskState' = [taskState EXCEPT ![u] = to]
             /\ Marked(u, to)
             /\ UNCHANGED <<agentVars, assignedAgent, sweep, cut>>
        BY <1>14, ReportCases
  <2>2. CASE Stranded(t, a)
    <3>1. Polling(a) => Polling(a)'
          BY <1>14, ReportsPollNothing DEF Polling
    <3> QED BY <2>1, <2>2, <3>1 DEF Sweeping
  <2>3. CASE ~Stranded(t, a)
    <3>1. assignedAgent[t] = a /\ agentStatus[a] = "Offline" /\ taskState[t] # "Running"
          BY <2>1, <2>3 DEF agentVars
    <3>2. u = t /\ to = "Running"
          BY <2>1, <3>1 DEF MongoTypeOK, DbTypeOK
    <3>3. taskState[t] = "Queued" => t \in late
          BY <3>1, NoAgentAssumption DEF QueuedUnassigned
    <3>4. t \in late'
          BY <2>1, <3>1, <3>2, <3>3
          DEF Marked, IsValidTaskStateTransition, TerminalStates
    <3> QED BY <3>4
  <2> QED BY <2>2, <2>3
<1>15. ASSUME NEW h \in Handlers, WriteCancel(h) \/ CloseRows(h) \/ RetryReport(h)
       PROVE  Excused(t, a)'
  <2>1. Stranded(t, a)
        BY <1>15, CallKinds
        DEF WriteCancel, CloseRows, RetryReport, Cancels, agentVars, MongoTypeOK, DbTypeOK
  <2>2. PolledBy(call[h]) = {}
        BY <1>15 DEF WriteCancel, CloseRows, RetryReport, PolledBy
  <2>3. call'[h] \in Calls /\ Become(h, call'[h])
        BY <1>0, <1>15 DEF WriteCancel, CloseRows, RetryReport, Become, MongoTypeOK, Calls
  <2> QED BY <1>6, <1>15, <2>1, <2>2, <2>3 DEF WriteCancel, CloseRows, RetryReport
<1>16. ASSUME NEW h \in Handlers, CallFails(h)
       PROVE  Excused(t, a)'
      BY <1>16, PollingKept, FreeIsCall DEF CallFails, dbVars, Sweeping
<1>17. CASE TxSweep
  <2>1. a \notin Unresponsive
        BY <1>17, NoAgentAssumption
        DEF TxSweep, MarkOfflineAgentsAndRequeue, Requeued, MongoTypeOK, DbTypeOK
  <2>2. Stranded(t, a)
        BY <1>17, <2>1, NoAgentAssumption
        DEF TxSweep, MarkOfflineAgentsAndRequeue, MongoTypeOK, DbTypeOK
  <2> QED BY <1>1, <1>17, <2>2 DEF TxSweep
<1>18. CASE ListOffline
      BY <1>18, NoAgentAssumption DEF ListOffline, dbVars, NoSweep, Sweeping, Polling
<1>19. CASE SetOffline
  <2>1. ~Sweeping(a)
        BY <1>19, NoAgentAssumption DEF SetOffline, SweepInv, Sweeping
  <2>2. PICK b \in sweep.todo :
          /\ agentStatus' = [agentStatus EXCEPT ![b] = "Offline"]
          /\ sweep' = [todo |-> sweep.todo \ {b}, agent |-> b, next |-> "rows"]
        BY <1>19 DEF SetOffline
  <2>3. CASE a = b
        BY <2>2, <2>3 DEF Sweeping
  <2>4. CASE a # b
        BY <1>19, <2>1, <2>2, <2>4
        DEF SetOffline, taskVars, Polling, MongoTypeOK, DbTypeOK
  <2> QED BY <2>3, <2>4
<1>20. CASE CloseAgentRows
      BY <1>20 DEF CloseAgentRows, agentVars, Sweeping, Polling, MongoTypeOK, Sweeps
<1>21. CASE RequeueTasks
  <2>1. sweep.agent # a
        BY <1>21 DEF RequeueTasks, TasksOf
  <2>2. Stranded(t, a)
        BY <1>21, NoAgentAssumption
        DEF RequeueTasks, TasksOf, agentVars, MongoTypeOK, DbTypeOK
  <2> QED BY <1>21, <2>1, <2>2 DEF RequeueTasks, Sweeping, Polling
<1>22. CASE SweepFails
      BY <1>22, NoAgentAssumption DEF SweepFails, dbVars, Sweeping, Polling
<1>23. CASE Restart
      BY <1>23, NoAgentAssumption DEF Restart, dbVars, Sweeping, Polling
<1>24. CASE UNCHANGED mongoVars
      BY <1>1, <1>24 DEF mongoVars, dbVars
<1> QED
    BY <1>2, <1>3, <1>4, <1>5, <1>7, <1>8, <1>9, <1>10, <1>11, <1>12, <1>13, <1>14, <1>15,
       <1>16, <1>17, <1>18, <1>19, <1>20, <1>21, <1>22, <1>23, <1>24
    DEF MongoNext, HandlerStep, SweepStep

LEMMA StrandedNext ==
    MongoTypeOK /\ SweepInv /\ QueuedUnassigned /\ StrandedByCutOrLateReport
        /\ [MongoNext]_mongoVars => StrandedByCutOrLateReport'
<1> SUFFICES ASSUME MongoTypeOK, SweepInv, QueuedUnassigned, StrandedByCutOrLateReport,
                    [MongoNext]_mongoVars
             PROVE  StrandedByCutOrLateReport'
    OBVIOUS
<1>1. \A t \in Tasks, a \in Agents : Stranded(t, a) => Excused(t, a)
      BY StrandedMeaning
<1>2. MongoTypeOK'
      BY MongoTypingNext
<1>3. \A t \in Tasks, a \in Agents : Stranded(t, a)' => Excused(t, a)'
      BY <1>1, ExcusedNext
<1> QED BY <1>2, <1>3, NoAgentAssumption
        DEF MongoTypeOK, DbTypeOK, StrandedByCutOrLateReport, Stranded, Excused

\* Whatever the reports say: a task runs on an Offline agent only while a sweep or a poll
\* of that agent is on its way, after one was cut short, or because a report has written
\* to the task what its check would have refused by then.
THEOREM StrandedTasks == MongoSpec => []StrandedByCutOrLateReport
<1>1. MongoInit => MongoTypeOK /\ SweepInv /\ QueuedUnassigned /\ StrandedByCutOrLateReport
  <2>1. MongoInit => QueuedUnassigned
        BY DEF MongoInit, DbInit, QueuedUnassigned
  <2> QED BY <2>1, MongoTypingInit, SweepInvInit, StrandedInit
<1>2. MongoTypeOK /\ SweepInv /\ QueuedUnassigned /\ StrandedByCutOrLateReport
          /\ [MongoNext]_mongoVars
        => (MongoTypeOK /\ SweepInv /\ QueuedUnassigned /\ StrandedByCutOrLateReport)'
      BY MongoTypingNext, SweepInvNext, QueuedUnassignedNext, StrandedNext
<1> QED BY <1>1, <1>2, PTL DEF MongoSpec

\* What architecture.md promises, on either kind of server and for every report, fails in
\* two ways only: a poll or a sweep stopped between two of its statements, or a report
\* written late brought the task back.  Every task left Running on an agent that is silent
\* and Offline is such a one.
THEOREM OnlyCutsOrLateReportsStrand ==
    MongoSpec => [](cut = {} /\ late = {} => OfflineAgentRunsNothing)
<1>1. ASSUME MongoTypeOK, StrandedByCutOrLateReport, cut = {}, late = {}, sweep = NoSweep,
             \A h \in Handlers : call[h] = Free,
             NEW t \in Tasks, taskState[t] = "Running",
             assignedAgent[t] \in overdue, agentStatus[assignedAgent[t]] = "Offline"
      PROVE  FALSE
  <2>1. assignedAgent[t] \in Agents /\ assignedAgent[t] # NoAgent
        BY <1>1, NoAgentAssumption DEF MongoTypeOK, DbTypeOK
  <2>2. ~Sweeping(assignedAgent[t])
        BY <1>1, <2>1 DEF Sweeping, NoSweep
  <2>3. ~Polling(assignedAgent[t])
    <3>1. Free.op = "free"
          BY DEF Free
    <3>2. \A h \in Handlers : PolledBy(call[h]) = {}
          BY <1>1, <3>1 DEF PolledBy
    <3> QED BY <3>2 DEF Polling
  <2> QED BY <1>1, <2>1, <2>2, <2>3 DEF StrandedByCutOrLateReport
<1>2. MongoTypeOK /\ StrandedByCutOrLateReport
          => (cut = {} /\ late = {} => OfflineAgentRunsNothing)
      BY <1>1 DEF OfflineAgentRunsNothing
<1> QED BY <1>2, MongoTypeCorrect, StrandedTasks, PTL

-----------------------------------------------------------------------------
(* Assignment rows on a server with transactions *)

\* With transactions no operation and no sweep is ever between two statements.
TxInv == transactions => sweep = NoSweep /\ \A h \in Handlers : call[h].op \in {"free", "report"}

\* No step changes what kind of server it is.
LEMMA SameServer == [MongoNext]_mongoVars => transactions' = transactions
BY DEF MongoNext, mongoVars, Register, Age, Heartbeat, Create, TxCancel, TxPoll,
       StartPoll, AcceptReport, FindForCancel, HandlerStep, FindCandidates, TryAssign,
       InsertRow, FinishPoll, WriteReport, RetryReport, WriteCancel, CloseRows, CallFails,
       SweepStep, TxSweep, ListOffline, SetOffline, CloseAgentRows, RequeueTasks,
       SweepFails, Restart

LEMMA TxInvNext == MongoTypeOK /\ TxInv /\ [MongoNext]_mongoVars => TxInv'
<1> SUFFICES ASSUME MongoTypeOK, TxInv, [MongoNext]_mongoVars, transactions
             PROVE  sweep' = NoSweep /\ \A h \in Handlers : call'[h].op \in {"free", "report"}
    BY SameServer DEF TxInv
<1> USE DEF TxInv
<1>1. CASE UNCHANGED sweep /\ UNCHANGED call
      BY <1>1
<1>2. ASSUME NEW h \in Handlers, NEW t \in Tasks, NEW to \in ReportStates, AcceptReport(h, t, to)
      PROVE  sweep' = NoSweep /\ \A g \in Handlers : call'[g].op \in {"free", "report"}
      BY <1>2 DEF AcceptReport, Become, MongoTypeOK
<1>3. ASSUME NEW h \in Handlers, HandlerStep(h)
      PROVE  sweep' = NoSweep /\ \A g \in Handlers : call'[g].op \in {"free", "report"}
  <2>1. call[h].op \in {"free", "report"}
        OBVIOUS
  <2>2. WriteReport(h)
        BY <1>3, <2>1
        DEF HandlerStep, FindCandidates, TryAssign, InsertRow, FinishPoll, RetryReport,
            WriteCancel, CloseRows
  <2> QED BY <2>2, ReportCases
<1>4. ASSUME NEW h \in Handlers, CallFails(h)
      PROVE  sweep' = NoSweep /\ \A g \in Handlers : call'[g].op \in {"free", "report"}
      BY <1>4 DEF CallFails, Become, MongoTypeOK, Free
<1>5. CASE SweepStep
  <2>1. sweep.todo = {} /\ sweep.next = "agent"
        BY DEF NoSweep
  <2> QED BY <1>1, <1>5, <2>1
      DEF SweepStep, TxSweep, ListOffline, SetOffline, CloseAgentRows, RequeueTasks
<1>6. CASE SweepFails
      BY <1>6 DEF SweepFails
<1>7. CASE Restart
      BY <1>7 DEF Restart, Free
<1> QED
    BY <1>1, <1>2, <1>3, <1>4, <1>5, <1>6, <1>7
    DEF MongoNext, mongoVars, Register, Age, Heartbeat, Create, TxCancel, TxPoll,
        StartPoll, FindForCancel

LEMMA TxNext ==
    ASSUME "Queued" \notin ReportStates, MongoTypeOK, TxInv, TransactionsKeepLeases,
           [MongoNext]_mongoVars, transactions
    PROVE  TransactionsKeepLeases'
<1> USE DEF TxInv, TransactionsKeepLeases
<1>1. ASSUME UNCHANGED <<dbVars, sweep>>,
             \A h \in Handlers : call'[h] = call[h] \/ call'[h].op \in {"free", "report"}
      PROVE  TransactionsKeepLeases'
      BY <1>1 DEF dbVars
<1>2. ASSUME NEW a \in Agents, Register(a) \/ Age(a)
      PROVE  TransactionsKeepLeases'
  <2>1. CASE Register(a)
        BY <2>1 DEF Register, UpsertAgent, taskVars, MongoTypeOK, DbTypeOK
  <2>2. CASE Age(a)
        BY <2>2 DEF Age, HeartbeatExpires, taskVars
  <2> QED BY <1>2, <2>1, <2>2
<1>3. ASSUME NEW a \in Agents, NEW s \in {"Idle", "Busy"}, Heartbeat(a, s)
      PROVE  TransactionsKeepLeases'
      BY <1>3 DEF Heartbeat, UpdateHeartbeat, taskVars, MongoTypeOK, DbTypeOK
<1>4. ASSUME NEW t \in Tasks, Create(t)
      PROVE  TransactionsKeepLeases'
      BY <1>4 DEF Create, CreateTask, TaskExists, agentVars, MongoTypeOK, DbTypeOK
<1>5. ASSUME NEW t \in Tasks, TxCancel(t)
      PROVE  TransactionsKeepLeases'
  <2>1. \A b \in Agents : openRows'[t][b] = 0
        BY <1>5 DEF TxCancel, CancelTask, CloseRowsOf, MongoTypeOK, DbTypeOK
  <2>2. \A u \in Tasks \ {t} : openRows'[u] = openRows[u] /\ taskState'[u] = taskState[u]
        BY <1>5 DEF TxCancel, CancelTask, CloseRowsOf, MongoTypeOK, DbTypeOK
  <2> QED BY <1>5, <2>1, <2>2 DEF TxCancel, CancelTask, agentVars
<1>6. ASSUME NEW a \in Agents, NEW n \in FreeSlots, TxPoll(a, n)
      PROVE  TransactionsKeepLeases'
  <2>1. CASE UNCHANGED <<agentStatus, taskVars>>
        BY <1>6, <2>1 DEF TxPoll, taskVars
  <2>2. ASSUME NEW S \in SUBSET Dispatchable(a), Dispatch(a, S)
        PROVE  TransactionsKeepLeases'
    <3> SUFFICES ASSUME NEW t \in Tasks, NEW b \in Agents
                 PROVE  /\ openRows'[t][b] \leq 1
                        /\ openRows'[t][b] > 0 =>
                              /\ assignedAgent'[t] = b /\ taskState'[t] = "Running"
                              /\ agentStatus'[b] # "Offline"
        BY <1>6 DEF TxPoll
    <3>1. CASE t \in S
      <4>1. taskState[t] = "Queued"
            BY <3>1 DEF Dispatchable
      <4>2. openRows[t][b] = 0
            BY <4>1 DEF MongoTypeOK, DbTypeOK
      <4>3. openRows'[t][b] = IF b = a THEN 1 ELSE 0
            BY <2>2, <3>1, <4>2 DEF Dispatch, MongoTypeOK, DbTypeOK
      <4>4. agentStatus'[a] # "Offline"
            BY <2>2 DEF Dispatch, MongoTypeOK, DbTypeOK
      <4> QED BY <2>2, <3>1, <4>3, <4>4 DEF Dispatch
    <3>2. CASE t \notin S
      <4>1. agentStatus[b] # "Offline" => agentStatus'[b] # "Offline"
            BY <2>2 DEF Dispatch, MongoTypeOK, DbTypeOK
      <4> QED BY <2>2, <3>2, <4>1 DEF Dispatch
    <3> QED BY <3>1, <3>2
  <2> QED BY <1>6, <2>1, <2>2 DEF TxPoll, PollTasksForAgent
<1>7. ASSUME NEW h \in Handlers, NEW t \in Tasks, NEW to \in ReportStates,
             AcceptReport(h, t, to)
      PROVE  TransactionsKeepLeases'
  <2>1. call'[h].op = "report" /\ \A g \in Handlers \ {h} : call'[g] = call[g]
        BY <1>7 DEF AcceptReport, Become, MongoTypeOK
  <2> QED BY <1>1, <1>7, <2>1 DEF AcceptReport
<1>8. ASSUME NEW h \in Handlers, WriteReport(h)
      PROVE  TransactionsKeepLeases'
  <2>1. PICK t \in Tasks, to \in ReportStates : UpdateTaskStatus(t, to)
        BY <1>8, ReportCases
  <2>2. to # "Queued" /\ to \in TaskStates
        BY MongoAssumption
  <2>3. TransactionsKeepLeases'
    <3>1. CASE to \in TerminalStates
          BY <2>1, <3>1
          DEF UpdateTaskStatus, CloseRowsOf, agentVars, MongoTypeOK, DbTypeOK
    <3>2. CASE to = "Running"
          BY <2>1, <3>2
          DEF UpdateTaskStatus, TerminalStates, agentVars, MongoTypeOK, DbTypeOK
    <3> QED BY <2>2, <3>1, <3>2 DEF TaskStates, TerminalStates
  <2>4. call'[h].op \in {"free", "report"} /\ \A g \in Handlers \ {h} : call'[g] = call[g]
        BY <1>8, ReportCases
  <2> QED BY <1>8, <2>3, <2>4 DEF WriteReport
<1>9. ASSUME NEW h \in Handlers, CallFails(h)
      PROVE  TransactionsKeepLeases'
  <2>1. call'[h] = Free /\ \A g \in Handlers \ {h} : call'[g] = call[g]
        BY <1>9, FreeIsCall, BecomeType DEF CallFails
  <2> QED BY <1>1, <1>9, <2>1 DEF CallFails, Free
<1>10. CASE TxSweep
  <2> SUFFICES ASSUME NEW t \in Tasks, NEW b \in Agents
               PROVE  /\ openRows'[t][b] \leq 1
                      /\ openRows'[t][b] > 0 =>
                            /\ assignedAgent'[t] = b /\ taskState'[t] = "Running"
                            /\ agentStatus'[b] # "Offline"
      BY <1>10 DEF TxSweep
  <2>1. CASE b \in Unresponsive
        BY <1>10, <2>1 DEF TxSweep, MarkOfflineAgentsAndRequeue
  <2>2. CASE b \notin Unresponsive
    <3>1. openRows'[t][b] = openRows[t][b] /\ agentStatus'[b] = agentStatus[b]
          BY <1>10, <2>2 DEF TxSweep, MarkOfflineAgentsAndRequeue
    <3>2. assignedAgent[t] = b => t \notin Requeued
          BY <2>2 DEF Requeued
    <3>3. assignedAgent[t] = b =>
             assignedAgent'[t] = assignedAgent[t] /\ taskState'[t] = taskState[t]
          BY <1>10, <3>2 DEF TxSweep, MarkOfflineAgentsAndRequeue
    <3> QED BY <3>1, <3>3
  <2> QED BY <2>1, <2>2
<1>11. CASE Restart
      BY <1>1, <1>11 DEF Restart, Free
<1>12. CASE SweepFails
      BY <1>12 DEF SweepFails
<1>13. CASE UNCHANGED mongoVars
      BY <1>13 DEF mongoVars, dbVars
<1>14. ASSUME NEW h \in Handlers, HandlerStep(h)
       PROVE  WriteReport(h)
  <2>1. call[h].op \in {"free", "report"}
        OBVIOUS
  <2> QED BY <1>14, <2>1
      DEF HandlerStep, FindCandidates, TryAssign, InsertRow, FinishPoll, RetryReport,
          WriteCancel, CloseRows
<1>15. CASE SweepStep
  <2>1. sweep.todo = {} /\ sweep.next = "agent"
        BY DEF NoSweep
  <2>2. ~ (ListOffline \/ SetOffline \/ CloseAgentRows \/ RequeueTasks)
        BY <2>1 DEF ListOffline, SetOffline, CloseAgentRows, RequeueTasks
  <2> QED BY <1>10, <1>15, <2>2 DEF SweepStep
<1> QED
    BY <1>2, <1>3, <1>4, <1>5, <1>6, <1>7, <1>8, <1>9, <1>11, <1>12, <1>13, <1>14, <1>15
    DEF MongoNext, StartPoll, FindForCancel

\* With transactions the assignment rows are as good as those of PostgreSQL: one row for
\* a task, on its assigned agent, while it runs, and that agent is watched.
THEOREM TransactionalLeases ==
    ASSUME "Queued" \notin ReportStates
    PROVE  MongoSpec => []TransactionsKeepLeases
<1>1. MongoInit => MongoTypeOK /\ TxInv /\ TransactionsKeepLeases
  <2>1. MongoInit => TxInv /\ TransactionsKeepLeases
        BY DEF MongoInit, DbInit, TxInv, TransactionsKeepLeases, Free
  <2> QED BY <2>1, MongoTypingInit
<1>2. [MongoNext]_mongoVars => transactions' = transactions
      BY SameServer
<1>3. MongoTypeOK /\ TxInv /\ TransactionsKeepLeases /\ [MongoNext]_mongoVars
        => (MongoTypeOK /\ TxInv /\ TransactionsKeepLeases)'
  <2> SUFFICES ASSUME MongoTypeOK, TxInv, TransactionsKeepLeases, [MongoNext]_mongoVars
               PROVE  TransactionsKeepLeases'
      BY MongoTypingNext, TxInvNext
  <2>1. CASE transactions
        BY <2>1, TxNext
  <2>2. CASE ~transactions
        BY <1>2, <2>2 DEF TransactionsKeepLeases
  <2> QED BY <2>1, <2>2
<1> QED BY <1>1, <1>3, PTL DEF MongoSpec

\* With transactions nothing can be cut short: a failed operation has written nothing.
NothingCut == transactions => cut = {}

LEMMA NothingCutNext ==
    TxInv /\ NothingCut /\ [MongoNext]_mongoVars => NothingCut'
<1> SUFFICES ASSUME TxInv, NothingCut, [MongoNext]_mongoVars, transactions'
             PROVE  cut' = {}
    BY DEF NothingCut
<1>1. transactions /\ cut = {} /\ sweep = NoSweep
      BY SameServer DEF TxInv, NothingCut
<1>2. \A h \in Handlers : PolledBy(call[h]) = {}
      BY <1>1 DEF TxInv, PolledBy
<1>3. CASE UNCHANGED cut
      BY <1>1, <1>3
<1>4. ASSUME NEW h \in Handlers, CallFails(h)
      PROVE  cut' = {}
      BY <1>1, <1>2, <1>4 DEF CallFails
<1>5. CASE SweepFails
      BY <1>1, <1>5 DEF SweepFails
<1>6. CASE Restart
  <2>1. UNION {PolledBy(call[h]) : h \in Handlers} = {}
        BY <1>2
  <2>2. {sweep.agent} \ {NoAgent} = {}
        BY <1>1 DEF NoSweep
  <2> QED BY <1>1, <1>6, <2>1, <2>2 DEF Restart
<1> QED
    BY <1>3, <1>4, <1>5, <1>6
    DEF MongoNext, mongoVars, history, Register, Age, Heartbeat, Create, TxCancel, TxPoll,
        StartPoll, AcceptReport, FindForCancel, HandlerStep, FindCandidates, TryAssign,
        InsertRow, FinishPoll, WriteReport, RetryReport, WriteCancel, CloseRows,
        SweepStep, TxSweep, ListOffline, SetOffline, CloseAgentRows, RequeueTasks

\* On a server with transactions the promise that MCMongoStranded refutes is kept,
\* whatever fails, until a report is written late: the tasks of an agent that is silent
\* and Offline are back in the queue.
THEOREM TransactionsStrandByLateReportsOnly ==
    MongoSpec => [](transactions /\ late = {} => OfflineAgentRunsNothing)
<1> DEFINE IInv == MongoTypeOK /\ TxInv /\ NothingCut
<1>1. MongoInit => IInv
  <2>1. MongoInit => TxInv /\ NothingCut
        BY DEF MongoInit, DbInit, TxInv, NothingCut, Free
  <2> QED BY <2>1, MongoTypingInit
<1>2. IInv /\ [MongoNext]_mongoVars => IInv'
      BY MongoTypingNext, TxInvNext, NothingCutNext
<1>3. IInv /\ (cut = {} /\ late = {} => OfflineAgentRunsNothing)
        => (transactions /\ late = {} => OfflineAgentRunsNothing)
      BY DEF NothingCut
<1> HIDE DEF IInv
<1> QED BY <1>1, <1>2, <1>3, OnlyCutsOrLateReportsStrand, PTL DEF MongoSpec

-----------------------------------------------------------------------------
(* Refinement of AssignmentLease *)

LEMMA MongoLeaseInit == MongoInit => Lease!Init
BY DEF MongoInit, DbInit, Lease!Init, taskHolder, queued

\* Steps that change no task are stutters.
LEMMA LeaseStutter ==
    ASSUME UNCHANGED <<taskState, assignedAgent>>, UNCHANGED late \/ ForgetLate
    PROVE  UNCHANGED Lease!vars
<1>1. late' = late
      BY DEF ForgetLate
<1> QED BY <1>1 DEF Lease!vars, taskHolder, queued

\* Dispatching tasks that are Queued and unassigned grants their leases.
LEMMA DispatchGrants ==
    ASSUME MongoTypeOK, NEW a \in Agents, NEW S \in SUBSET queued, ForgetLate,
           taskState' = [t \in Tasks |-> IF t \in S THEN "Running" ELSE taskState[t]],
           assignedAgent' = [t \in Tasks |-> IF t \in S THEN a ELSE assignedAgent[t]]
    PROVE  Lease!Next
<1>1. \A t \in Tasks : t \in late' <=> t \in late /\ t \notin S
      BY NoAgentAssumption DEF ForgetLate, queued
<1>2. taskHolder' = [t \in Tasks |-> IF t \in S THEN a ELSE taskHolder[t]]
  <2>1. \A t \in Tasks : taskHolder'[t] = IF t \in S THEN a ELSE taskHolder[t]
        BY <1>1 DEF taskHolder
  <2> QED BY <2>1 DEF taskHolder
<1>3. queued' = queued \ S
      BY DEF queued
<1>4. Lease!Grant(a, S)
      BY <1>2, <1>3 DEF Lease!Grant
<1>5. S \in SUBSET Tasks
      BY DEF queued
<1> QED BY <1>4, <1>5 DEF Lease!Next

\* Whatever ends the lease of t and takes it from the queue is a release.
LEMMA EndReleases ==
    ASSUME MongoTypeOK, NEW t \in Tasks, NEW to \in TaskStates,
           taskState' = [taskState EXCEPT ![t] = to], UNCHANGED assignedAgent,
           \A u \in Tasks \ {t} : u \in late' <=> u \in late,
           to = "Running" => t \in late' \/ assignedAgent[t] = NoAgent,
           to = "Queued" => assignedAgent[t] # NoAgent
    PROVE  Lease!Next
<1>1. \A u \in Tasks : taskHolder'[u] = IF u = t THEN NoAgent ELSE taskHolder[u]
      BY DEF taskHolder, MongoTypeOK, DbTypeOK
<1>2. taskHolder' = [taskHolder EXCEPT ![t] = NoAgent]
      BY <1>1 DEF taskHolder
<1>3. queued' = queued \ {t}
      BY DEF queued, MongoTypeOK, DbTypeOK
<1>4. Lease!Release(t)
      BY <1>2, <1>3 DEF Lease!Release
<1> QED BY <1>4 DEF Lease!Next

\* A cancel releases its task.
LEMMA CancelReleases ==
    ASSUME MongoTypeOK, NEW t \in Tasks, UNCHANGED <<assignedAgent, late>>,
           taskState' = [taskState EXCEPT ![t] = "Canceled"]
    PROVE  Lease!Next
<1> DEFINE to == "Canceled"
<1>1. to \in TaskStates /\ to # "Running" /\ to # "Queued"
      BY DEF TaskStates
<1> QED BY <1>1, EndReleases

\* A report ends the lease of its task, whose state it changes, or leaves it alone; only
\* a report of "Queued" can put into the queue a task that no agent has.
LEMMA ReportMovesLease ==
    ASSUME MongoTypeOK, QueuedUnassigned, NEW t \in Tasks, NEW to \in TaskStates,
           taskState' = [taskState EXCEPT ![t] = to], Marked(t, to), UNCHANGED assignedAgent
    PROVE  [Lease!Next]_(Lease!vars)
<1>1. \A u \in Tasks \ {t} : u \in late' <=> u \in late
      BY DEF Marked
<1>2. CASE to = taskState[t]
  <2>1. UNCHANGED <<taskState, late>>
        BY <1>2 DEF Marked, IsValidTaskStateTransition, MongoTypeOK, DbTypeOK
  <2> QED BY <2>1, LeaseStutter
<1>3. CASE to \in TerminalStates
      BY <1>1, <1>3, EndReleases DEF TerminalStates
<1>4. CASE to = "Running" /\ to # taskState[t]
  <2>1. t \in late' \/ assignedAgent[t] = NoAgent
        BY <1>4 DEF Marked, IsValidTaskStateTransition, TerminalStates, QueuedUnassigned
  <2> QED BY <1>1, <1>4, <2>1, EndReleases
<1>5. CASE to = "Queued" /\ to # taskState[t] /\ assignedAgent[t] # NoAgent
      BY <1>1, <1>5, EndReleases
<1>6. CASE to = "Queued" /\ to # taskState[t] /\ assignedAgent[t] = NoAgent
  <2>1. taskHolder[t] = NoAgent
        BY <1>6 DEF taskHolder
  <2>2. \A u \in Tasks : taskHolder'[u] = taskHolder[u]
        BY <1>1, <1>6 DEF taskHolder, MongoTypeOK, DbTypeOK
  <2>3. UNCHANGED taskHolder
        BY <2>2 DEF taskHolder
  <2>4. queued' = queued \union {t}
        BY <1>6 DEF queued, MongoTypeOK, DbTypeOK
  <2>5. Lease!Submit(t)
        BY <2>1, <2>3, <2>4 DEF Lease!Submit
  <2> QED BY <2>5 DEF Lease!Next
<1> QED BY <1>2, <1>3, <1>4, <1>5, <1>6 DEF TaskStates, TerminalStates

\* Requeueing the tasks of the agents A expires their leases; those that no lease covers
\* any more are put back as well.
LEMMA RequeueExpires ==
    ASSUME MongoTypeOK, NEW A \in SUBSET Agents, NEW R, ForgetLate,
           R = {t \in Tasks : assignedAgent[t] \in A /\ taskState[t] \in {"Running", "Queued"}},
           taskState' = [t \in Tasks |-> IF t \in R THEN "Queued" ELSE taskState[t]],
           assignedAgent' = [t \in Tasks |-> IF t \in R THEN NoAgent ELSE assignedAgent[t]]
    PROVE  Lease!Next
<1> DEFINE Q == {t \in R : taskHolder[t] = NoAgent}
<1>1. \A t \in Tasks \ R : t \in late' <=> t \in late
      BY DEF ForgetLate
<1>2. \A t \in Tasks : taskHolder[t] \in A <=> t \in R /\ t \notin Q
      BY NoAgentAssumption DEF taskHolder
<1>3. taskHolder' = [t \in Tasks |-> IF taskHolder[t] \in A THEN NoAgent ELSE taskHolder[t]]
  <2>1. \A t \in R : taskHolder'[t] = NoAgent
        BY DEF taskHolder
  <2>2. \A t \in Tasks \ R : taskHolder'[t] = taskHolder[t]
        BY <1>1 DEF taskHolder
  <2>3. \A t \in Tasks :
           taskHolder'[t] = IF taskHolder[t] \in A THEN NoAgent ELSE taskHolder[t]
        BY <1>2, <2>1, <2>2
  <2> QED BY <2>3 DEF taskHolder
<1>4. queued' = queued \union Q \union {t \in Tasks : taskHolder[t] \in A}
  <2>1. queued' = queued \union R
        BY DEF queued
  <2> QED BY <1>2, <2>1
<1>5. \A t \in Q : taskHolder[t] = NoAgent
      OBVIOUS
<1>6. Q \in SUBSET Tasks
      OBVIOUS
<1> HIDE DEF Q
<1>7. Lease!Expire(A, Q)
      BY <1>3, <1>4, <1>5 DEF Lease!Expire
<1> QED BY <1>6, <1>7 DEF Lease!Next

LEMMA MongoLeaseNext ==
    ASSUME MongoTypeOK, SweepInv, QueuedUnassigned, [MongoNext]_mongoVars
    PROVE  [Lease!Next]_(Lease!vars)
<1>1. CASE UNCHANGED <<taskState, assignedAgent>> /\ (UNCHANGED late \/ ForgetLate)
      BY <1>1, LeaseStutter
<1>2. ASSUME NEW t \in Tasks, Create(t)
      PROVE  Lease!Next
  <2>1. taskHolder[t] = NoAgent
        BY <1>2 DEF Create, CreateTask, TaskExists, taskHolder
  <2>2. UNCHANGED taskHolder
        BY <1>2 DEF Create, CreateTask, TaskExists, taskHolder, MongoTypeOK, DbTypeOK, history
  <2>3. queued' = queued \union {t}
        BY <1>2 DEF Create, CreateTask, TaskExists, queued, MongoTypeOK, DbTypeOK
  <2>4. Lease!Submit(t)
        BY <2>1, <2>2, <2>3 DEF Lease!Submit
  <2> QED BY <2>4 DEF Lease!Next
<1>3. ASSUME NEW t \in Tasks, TxCancel(t)
      PROVE  Lease!Next
      BY <1>3, CancelReleases DEF TxCancel, CancelTask, history
<1>4. ASSUME NEW a \in Agents, NEW n \in FreeSlots, TxPoll(a, n)
      PROVE  [Lease!Next]_(Lease!vars)
  <2>1. ASSUME NEW S \in SUBSET Dispatchable(a), Dispatch(a, S)
        PROVE  Lease!Next
    <3>1. S \in SUBSET queued
          BY FitsAssumption DEF Dispatchable, queued
    <3> QED BY <1>4, <2>1, <3>1, DispatchGrants DEF TxPoll, Dispatch
  <2>2. CASE UNCHANGED <<agentStatus, taskVars>>
        BY <1>1, <1>4, <2>2 DEF TxPoll, taskVars
  <2> QED BY <1>4, <2>1, <2>2 DEF TxPoll, PollTasksForAgent
<1>5. ASSUME NEW h \in Handlers, TryAssign(h)
      PROVE  [Lease!Next]_(Lease!vars)
  <2>1. call[h] \in Polls
        BY <1>5, CallKinds DEF TryAssign
  <2>2. PICK t \in call[h].left :
          \/ /\ taskState[t] = "Queued" /\ assignedAgent[t] = NoAgent
             /\ taskState' = [taskState EXCEPT ![t] = "Running"]
             /\ assignedAgent' = [assignedAgent EXCEPT ![t] = call[h].agent]
          \/ UNCHANGED <<taskState, assignedAgent>>
        BY <1>5 DEF TryAssign
  <2>3. t \in Tasks /\ call[h].agent \in Agents /\ ForgetLate
        BY <1>5, <2>1, <2>2 DEF Polls, TryAssign
  <2>4. CASE /\ taskState[t] = "Queued" /\ assignedAgent[t] = NoAgent
             /\ taskState' = [taskState EXCEPT ![t] = "Running"]
             /\ assignedAgent' = [assignedAgent EXCEPT ![t] = call[h].agent]
    <3>1. {t} \in SUBSET queued
          BY <2>3, <2>4 DEF queued
    <3>2. taskState' = [u \in Tasks |-> IF u \in {t} THEN "Running" ELSE taskState[u]]
          BY <2>4 DEF MongoTypeOK, DbTypeOK
    <3>3. assignedAgent' = [u \in Tasks |-> IF u \in {t} THEN call[h].agent ELSE assignedAgent[u]]
          BY <2>4 DEF MongoTypeOK, DbTypeOK
    <3> QED BY <2>3, <3>1, <3>2, <3>3, DispatchGrants
  <2> QED BY <1>1, <2>2, <2>3, <2>4
<1>6. ASSUME NEW h \in Handlers, WriteReport(h)
      PROVE  [Lease!Next]_(Lease!vars)
  <2>1. PICK t \in Tasks, to \in ReportStates :
             /\ taskState' = [taskState EXCEPT ![t] = to]
             /\ Marked(t, to)
             /\ UNCHANGED assignedAgent
        BY <1>6, ReportCases
  <2>2. to \in TaskStates
        BY MongoAssumption
  <2> QED BY <2>1, <2>2, ReportMovesLease
<1>7. ASSUME NEW h \in Handlers, WriteCancel(h)
      PROVE  Lease!Next
  <2>1. call[h].task \in Tasks
        BY <1>7, CallKinds DEF WriteCancel, Cancels
  <2> QED BY <1>7, <2>1, CancelReleases DEF WriteCancel, history
<1>8. CASE TxSweep
  <2>1. Unresponsive \in SUBSET Agents
        BY DEF Unresponsive, MongoTypeOK, DbTypeOK
  <2> QED BY <1>8, <2>1, RequeueExpires DEF TxSweep, MarkOfflineAgentsAndRequeue, Requeued
<1>9. CASE RequeueTasks
  <2>1. sweep.agent \in Agents
        BY <1>9 DEF RequeueTasks, SweepInv, MongoTypeOK, Sweeps
  <2>2. TasksOf(sweep.agent) =
          {t \in Tasks : /\ assignedAgent[t] \in {sweep.agent}
                         /\ taskState[t] \in {"Running", "Queued"}}
        BY DEF TasksOf
  <2> QED BY <1>9, <2>1, <2>2, RequeueExpires DEF RequeueTasks
<1> QED
    BY <1>1, <1>2, <1>3, <1>4, <1>5, <1>6, <1>7, <1>8, <1>9
    DEF MongoNext, mongoVars, dbVars, taskVars, history, Register, UpsertAgent, Age,
        HeartbeatExpires, Heartbeat, UpdateHeartbeat, StartPoll, AcceptReport, FindForCancel,
        HandlerStep, FindCandidates, InsertRow, FinishPoll, RetryReport, CloseRows, CallFails,
        SweepStep, ListOffline, SetOffline, CloseAgentRows, SweepFails, Restart

\* The task documents alone are a lease table, on a server with transactions and on one
\* without, whatever fails between two statements and whatever the reports say: two polls
\* never take one task, and what a late report brings back is no lease.
THEOREM MongoRefinement == MongoSpec => MongoImplementsLease
<1> DEFINE IInv == MongoTypeOK /\ SweepInv /\ QueuedUnassigned
<1>1. MongoInit => IInv
      BY MongoTypingInit, SweepInvInit DEF MongoInit, DbInit, QueuedUnassigned
<1>2. IInv /\ [MongoNext]_mongoVars => IInv'
      BY MongoTypingNext, SweepInvNext, QueuedUnassignedNext
<1>3. IInv /\ [MongoNext]_mongoVars => [Lease!Next]_(Lease!vars)
      BY MongoLeaseNext
<1> HIDE DEF IInv
<1> QED BY <1>1, <1>2, <1>3, MongoLeaseInit, PTL
        DEF MongoSpec, MongoImplementsLease, Lease!Spec

=============================================================================
