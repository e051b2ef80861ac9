------------------------ MODULE ControlServiceProofs ------------------------
(***************************************************************************)
(* Proofs about ControlService for any sets of agents, tasks and handler   *)
(* threads: its invariants, the rule under which a task changes agents,    *)
(* and that it implements AssignmentLease.                                 *)
(***************************************************************************)
EXTENDS ControlService, TLAPS

\* A poll dispatches one of the dispatchable sets or only stamps the heartbeat.
LEMMA PollCases ==
    ASSUME NEW a \in Agents, NEW n \in FreeSlots, HandlePollTasks(a, n)
    PROVE  /\ AgentExists(a)
           /\ UNCHANGED call
           /\ overdue' = overdue \ {a}
           /\ \/ UNCHANGED <<agentStatus, taskVars>>
              \/ \E S \in SUBSET Dispatchable(a) : Dispatch(a, S)
BY DEF HandlePollTasks, PollTasksForAgent

\* What a pending call writes is what it carries.
LEMMA ReportWrites ==
    ASSUME TypeOK, NEW h \in Handlers, WriteReport(h)
    PROVE  /\ \E t \in Tasks, to \in ReportStates : UpdateTaskStatus(t, to)
           /\ call' \in [Handlers -> {Idle} \union Reports \union Cancels]
<1>1. call \in [Handlers -> {Idle} \union Reports \union Cancels]
      BY DEF TypeOK
<1>2. call[h] \in Reports
      BY <1>1 DEF WriteReport, Idle, Cancels
<1>3. call[h].task \in Tasks /\ call[h].to \in ReportStates
      BY <1>2 DEF Reports
<1>4. call' \in [Handlers -> {Idle} \union Reports \union Cancels]
      BY <1>1 DEF WriteReport
<1> QED BY <1>3, <1>4 DEF WriteReport

LEMMA CancelWrites ==
    ASSUME TypeOK, NEW h \in Handlers, WriteCancel(h)
    PROVE  /\ \E t \in Tasks : CancelTask(t)
           /\ call' \in [Handlers -> {Idle} \union Reports \union Cancels]
<1>1. call \in [Handlers -> {Idle} \union Reports \union Cancels]
      BY DEF TypeOK
<1>2. call[h] \in Cancels
      BY <1>1 DEF WriteCancel, Idle, Reports
<1>3. call[h].task \in Tasks
      BY <1>2 DEF Cancels
<1>4. call' \in [Handlers -> {Idle} \union Reports \union Cancels]
      BY <1>1 DEF WriteCancel
<1> QED BY <1>3, <1>4 DEF WriteCancel

-----------------------------------------------------------------------------
(* Type correctness *)

LEMMA TypingInit == Init => TypeOK
BY DEF Init, DbInit, TypeOK, DbTypeOK, TaskStates, AgentStatuses

LEMMA TypingNext == TypeOK /\ [Next]_vars => TypeOK'
<1> SUFFICES ASSUME TypeOK, [Next]_vars
             PROVE  TypeOK'
    OBVIOUS
<1> USE DEF TypeOK, DbTypeOK
<1>1. ASSUME NEW a \in Agents, HandleUpsertAgent(a)
      PROVE  TypeOK'
      BY <1>1 DEF HandleUpsertAgent, UpsertAgent, taskVars, AgentStatuses
<1>2. ASSUME NEW a \in Agents, NEW s \in HeartbeatStatuses, HandleAgentHeartbeat(a, s)
      PROVE  TypeOK'
      BY <1>2, InputsAssumption DEF HandleAgentHeartbeat, UpdateHeartbeat, taskVars
<1>3. ASSUME NEW a \in Agents, NEW n \in FreeSlots, HandlePollTasks(a, n)
      PROVE  TypeOK'
  <2>1. CASE UNCHANGED <<agentStatus, taskVars>>
        BY <1>3, <2>1, PollCases DEF taskVars
  <2>2. ASSUME NEW S \in SUBSET Dispatchable(a), Dispatch(a, S)
        PROVE  TypeOK'
    <3>1. agentStatus' \in [Agents -> AgentStatuses \union {"Absent"}]
          BY <2>2 DEF Dispatch, AgentStatuses
    <3>2. taskState' \in [Tasks -> TaskStates \union {"Absent"}]
          BY <2>2 DEF Dispatch, TaskStates
    <3>3. assignedAgent' \in [Tasks -> Agents \union {NoAgent}]
          BY <2>2 DEF Dispatch
    <3>4. openRows' \in [Tasks -> [Agents -> Nat]]
          BY <2>2 DEF Dispatch
    <3> QED BY <1>3, <3>1, <3>2, <3>3, <3>4, PollCases
  <2> QED BY <1>3, <2>1, <2>2, PollCases
<1>4. ASSUME NEW t \in Tasks, HandleCreateTask(t)
      PROVE  TypeOK'
      BY <1>4 DEF HandleCreateTask, CreateTask, agentVars, TaskStates
<1>5. ASSUME NEW h \in Handlers, NEW t \in Tasks, NEW to \in ReportStates,
             CheckReport(h, t, to)
      PROVE  TypeOK'
      BY <1>5 DEF CheckReport, dbVars, Reports
<1>6. ASSUME NEW h \in Handlers, WriteReport(h)
      PROVE  TypeOK'
  <2>1. PICK t \in Tasks, to \in ReportStates : UpdateTaskStatus(t, to)
        BY <1>6, ReportWrites
  <2>2. taskState' \in [Tasks -> TaskStates \union {"Absent"}]
        BY <2>1, InputsAssumption DEF UpdateTaskStatus
  <2>3. openRows' \in [Tasks -> [Agents -> Nat]]
        BY <2>1 DEF UpdateTaskStatus, CloseRowsOf
  <2>4. UNCHANGED <<agentVars, assignedAgent>>
        BY <2>1 DEF UpdateTaskStatus
  <2> QED BY <1>6, <2>2, <2>3, <2>4, ReportWrites DEF agentVars
<1>7. ASSUME NEW h \in Handlers, NEW t \in Tasks, ReadForCancel(h, t)
      PROVE  TypeOK'
      BY <1>7 DEF ReadForCancel, dbVars, Cancels
<1>8. ASSUME NEW h \in Handlers, WriteCancel(h)
      PROVE  TypeOK'
  <2>1. PICK t \in Tasks : CancelTask(t)
        BY <1>8, CancelWrites
  <2>2. taskState' \in [Tasks -> TaskStates \union {"Absent"}]
        BY <2>1 DEF CancelTask, TaskStates
  <2>3. openRows' \in [Tasks -> [Agents -> Nat]]
        BY <2>1 DEF CancelTask, CloseRowsOf
  <2> QED BY <1>8, <2>1, <2>2, <2>3, CancelWrites DEF CancelTask, agentVars
<1>9. ASSUME NEW h \in Handlers, CallFails(h)
      PROVE  TypeOK'
      BY <1>9 DEF CallFails, dbVars
<1>10. CASE Restart
      BY <1>10 DEF Restart, dbVars
<1>11. CASE MaintenanceSweep
  <2>1. agentStatus' \in [Agents -> AgentStatuses \union {"Absent"}]
        BY <1>11 DEF MaintenanceSweep, MarkOfflineAgentsAndRequeue, AgentStatuses
  <2>2. taskState' \in [Tasks -> TaskStates \union {"Absent"}]
        BY <1>11 DEF MaintenanceSweep, MarkOfflineAgentsAndRequeue, TaskStates
  <2>3. openRows' \in [Tasks -> [Agents -> Nat]]
        BY <1>11 DEF MaintenanceSweep, MarkOfflineAgentsAndRequeue
  <2> QED BY <1>11, <2>1, <2>2, <2>3 DEF MaintenanceSweep, MarkOfflineAgentsAndRequeue
<1>12. ASSUME NEW a \in Agents, Age(a)
      PROVE  TypeOK'
      BY <1>12 DEF Age, HeartbeatExpires, taskVars
<1>13. CASE UNCHANGED vars
      BY <1>13 DEF vars, dbVars
<1> QED
    BY <1>1, <1>2, <1>3, <1>4, <1>5, <1>6, <1>7, <1>8, <1>9, <1>10, <1>11, <1>12,
       <1>13 DEF Next

\* The columns keep their types, and no step closes a row that is not open.
THEOREM TypeCorrect == Spec => []TypeOK
BY TypingInit, TypingNext, PTL DEF Spec

-----------------------------------------------------------------------------
(* One lease per task *)

\* The inductive invariant: OneLeasePerTask alone is not inductive.  That a poll
\* finds no open row on an unassigned Queued task is OneLeasePerTask itself,
\* that CreateTask finds none on a fresh id is FinishedHoldsNoLease, and that it
\* does not take a task from an agent is the last conjunct.
LeaseInv ==
    /\ TypeOK
    /\ OneLeasePerTask
    /\ FinishedHoldsNoLease
    /\ \A t \in Tasks : taskState[t] = "Absent" => assignedAgent[t] = NoAgent

LEMMA LeaseInit == Init => LeaseInv
BY TypingInit DEF Init, DbInit, LeaseInv, OneLeasePerTask, FinishedHoldsNoLease, HasLease

\* A poll leases only tasks without an open row.
LEMMA DispatchLeases ==
    ASSUME LeaseInv, NEW a \in Agents, NEW S \in SUBSET Dispatchable(a),
           Dispatch(a, S), TypeOK'
    PROVE  LeaseInv'
<1> USE DEF HasLease
<1>1. S \subseteq Tasks
      BY FitsAssumption DEF Dispatchable
<1>2. \A t \in S, b \in Agents : openRows[t][b] = 0
  <2> SUFFICES ASSUME NEW t \in S, NEW b \in Agents
               PROVE  openRows[t][b] = 0
      OBVIOUS
  <2>1. assignedAgent[t] # b
        BY NoAgentAssumption DEF Dispatchable
  <2>2. ~(openRows[t][b] > 0)
        BY <1>1, <2>1 DEF LeaseInv, OneLeasePerTask
  <2> QED BY <1>1, <2>2 DEF LeaseInv, TypeOK, DbTypeOK
<1>3. \A t \in S, b \in Agents :
         /\ openRows'[t][b] = IF b = a THEN 1 ELSE 0
         /\ assignedAgent'[t] = a
         /\ taskState'[t] = "Running"
      BY <1>1, <1>2 DEF Dispatch, LeaseInv, TypeOK, DbTypeOK
<1>4. \A t \in Tasks \ S :
         /\ openRows'[t] = openRows[t]
         /\ assignedAgent'[t] = assignedAgent[t]
         /\ taskState'[t] = taskState[t]
      BY DEF Dispatch
<1>5. OneLeasePerTask'
      BY <1>1, <1>3, <1>4 DEF LeaseInv, OneLeasePerTask
<1>6. FinishedHoldsNoLease'
  <2>1. \A t \in S : taskState'[t] \notin TerminalStates \union {"Absent"}
        BY <1>3 DEF TerminalStates
  <2> QED BY <1>4, <2>1 DEF LeaseInv, FinishedHoldsNoLease
<1>7. (\A t \in Tasks : taskState[t] = "Absent" => assignedAgent[t] = NoAgent)'
      BY <1>3, <1>4 DEF LeaseInv
<1> QED BY <1>5, <1>6, <1>7 DEF LeaseInv

\* Closing all rows of a task, whatever is written into its state.
LEMMA ClosingKeepsLeases ==
    ASSUME LeaseInv, NEW t \in Tasks, NEW s \in TaskStates,
           taskState' = [taskState EXCEPT ![t] = s], CloseRowsOf(t),
           UNCHANGED assignedAgent, TypeOK'
    PROVE  LeaseInv'
<1>1. \A b \in Agents : openRows'[t][b] = 0
      BY DEF CloseRowsOf, LeaseInv, TypeOK, DbTypeOK
<1>2. \A u \in Tasks \ {t} : openRows'[u] = openRows[u] /\ taskState'[u] = taskState[u]
      BY DEF CloseRowsOf, LeaseInv, TypeOK, DbTypeOK
<1>3. taskState'[t] # "Absent"
      BY DEF TaskStates, LeaseInv, TypeOK, DbTypeOK
<1> QED BY <1>1, <1>2, <1>3
        DEF LeaseInv, OneLeasePerTask, FinishedHoldsNoLease, HasLease

\* Overwriting the state alone with one that is not terminal.
LEMMA OverwritingKeepsLeases ==
    ASSUME LeaseInv, NEW t \in Tasks, NEW s \in TaskStates, s \notin TerminalStates,
           taskState' = [taskState EXCEPT ![t] = s],
           UNCHANGED <<assignedAgent, openRows>>, TypeOK'
    PROVE  LeaseInv'
<1>1. taskState'[t] \notin TerminalStates \union {"Absent"}
      BY DEF TaskStates, LeaseInv, TypeOK, DbTypeOK
<1>2. \A u \in Tasks \ {t} : taskState'[u] = taskState[u]
      BY DEF LeaseInv, TypeOK, DbTypeOK
<1> QED BY <1>1, <1>2 DEF LeaseInv, OneLeasePerTask, FinishedHoldsNoLease, HasLease

\* A sweep closes every row of the agents whose tasks it unassigns.
LEMMA SweepKeepsLeases ==
    ASSUME LeaseInv, MarkOfflineAgentsAndRequeue, TypeOK'
    PROVE  LeaseInv'
<1> USE DEF HasLease
<1>1. \A t \in Tasks, b \in Agents :
         openRows'[t][b] = IF b \in Unresponsive THEN 0 ELSE openRows[t][b]
      BY DEF MarkOfflineAgentsAndRequeue
<1>2. \A t \in Requeued : /\ assignedAgent[t] \in Unresponsive
                          /\ assignedAgent'[t] = NoAgent
                          /\ taskState'[t] = "Queued"
      BY DEF MarkOfflineAgentsAndRequeue, Requeued
<1>3. \A t \in Tasks \ Requeued : /\ assignedAgent'[t] = assignedAgent[t]
                                  /\ taskState'[t] = taskState[t]
      BY DEF MarkOfflineAgentsAndRequeue
<1>4. \A t \in Requeued, b \in Agents : ~(openRows'[t][b] > 0)
  <2> SUFFICES ASSUME NEW t \in Requeued, NEW b \in Agents, openRows'[t][b] > 0
               PROVE  FALSE
      OBVIOUS
  <2>1. t \in Tasks
        BY DEF Requeued
  <2>2. b \notin Unresponsive /\ openRows[t][b] > 0
        BY <1>1, <2>1
  <2> QED BY <1>2, <2>1, <2>2 DEF LeaseInv, OneLeasePerTask
<1>5. OneLeasePerTask'
      BY <1>1, <1>3, <1>4 DEF LeaseInv, OneLeasePerTask
<1>6. FinishedHoldsNoLease'
      BY <1>1, <1>3, <1>4 DEF LeaseInv, FinishedHoldsNoLease
<1>7. (\A t \in Tasks : taskState[t] = "Absent" => assignedAgent[t] = NoAgent)'
      BY <1>2, <1>3 DEF LeaseInv
<1> QED BY <1>5, <1>6, <1>7 DEF LeaseInv

LEMMA LeaseNext == LeaseInv /\ [Next]_vars => LeaseInv'
<1> SUFFICES ASSUME LeaseInv, [Next]_vars
             PROVE  LeaseInv'
    OBVIOUS
<1>0. TypeOK'
      BY TypingNext DEF LeaseInv
<1>s. ASSUME UNCHANGED taskVars
      PROVE  LeaseInv'
      BY <1>0, <1>s DEF taskVars, LeaseInv, OneLeasePerTask, FinishedHoldsNoLease, HasLease
<1>1. ASSUME NEW a \in Agents, HandleUpsertAgent(a)
      PROVE  LeaseInv'
      BY <1>1, <1>s DEF HandleUpsertAgent, UpsertAgent
<1>2. ASSUME NEW a \in Agents, NEW s \in HeartbeatStatuses, HandleAgentHeartbeat(a, s)
      PROVE  LeaseInv'
      BY <1>2, <1>s DEF HandleAgentHeartbeat, UpdateHeartbeat
<1>3. ASSUME NEW a \in Agents, NEW n \in FreeSlots, HandlePollTasks(a, n)
      PROVE  LeaseInv'
      BY <1>0, <1>3, <1>s, PollCases, DispatchLeases
<1>4. ASSUME NEW t \in Tasks, HandleCreateTask(t)
      PROVE  LeaseInv'
  <2>1. \A b \in Agents : ~HasLease(t, b)
        BY <1>4 DEF HandleCreateTask, CreateTask, TaskExists, LeaseInv, FinishedHoldsNoLease
  <2>2. \A u \in Tasks \ {t} : /\ taskState'[u] = taskState[u]
                               /\ assignedAgent'[u] = assignedAgent[u]
        BY <1>4 DEF HandleCreateTask, CreateTask, LeaseInv, TypeOK, DbTypeOK
  <2>3. taskState'[t] = "Queued"
        BY <1>4 DEF HandleCreateTask, CreateTask, LeaseInv, TypeOK, DbTypeOK
  <2>4. openRows' = openRows
        BY <1>4 DEF HandleCreateTask, CreateTask
  <2> QED BY <1>0, <2>1, <2>2, <2>3, <2>4
          DEF LeaseInv, OneLeasePerTask, FinishedHoldsNoLease, HasLease
<1>5. ASSUME NEW h \in Handlers, NEW t \in Tasks, NEW to \in ReportStates,
             CheckReport(h, t, to)
      PROVE  LeaseInv'
      BY <1>5, <1>s DEF CheckReport, dbVars, taskVars
<1>6. ASSUME NEW h \in Handlers, WriteReport(h)
      PROVE  LeaseInv'
  <2>1. PICK t \in Tasks, to \in ReportStates : UpdateTaskStatus(t, to)
        BY <1>6, ReportWrites DEF LeaseInv
  <2>2. to \in TaskStates
        BY InputsAssumption
  <2>3. CASE to \in TerminalStates
        BY <1>0, <2>1, <2>2, <2>3, ClosingKeepsLeases DEF UpdateTaskStatus
  <2>4. CASE to \notin TerminalStates
        BY <1>0, <2>1, <2>2, <2>4, OverwritingKeepsLeases DEF UpdateTaskStatus
  <2> QED BY <2>3, <2>4
<1>7. ASSUME NEW h \in Handlers, NEW t \in Tasks, ReadForCancel(h, t)
      PROVE  LeaseInv'
      BY <1>7, <1>s DEF ReadForCancel, dbVars, taskVars
<1>8. ASSUME NEW h \in Handlers, WriteCancel(h)
      PROVE  LeaseInv'
  <2>1. PICK t \in Tasks : CancelTask(t)
        BY <1>8, CancelWrites DEF LeaseInv
  <2> QED BY <1>0, <2>1, ClosingKeepsLeases DEF CancelTask, TaskStates
<1>9. ASSUME NEW h \in Handlers, CallFails(h)
      PROVE  LeaseInv'
      BY <1>9, <1>s DEF CallFails, dbVars, taskVars
<1>10. CASE Restart
      BY <1>10, <1>s DEF Restart, dbVars, taskVars
<1>11. CASE MaintenanceSweep
      BY <1>0, <1>11, SweepKeepsLeases DEF MaintenanceSweep
<1>12. ASSUME NEW a \in Agents, Age(a)
      PROVE  LeaseInv'
      BY <1>12, <1>s DEF Age, HeartbeatExpires
<1>13. CASE UNCHANGED vars
      BY <1>13, <1>s DEF vars, dbVars, taskVars
<1> QED
    BY <1>1, <1>2, <1>3, <1>4, <1>5, <1>6, <1>7, <1>8, <1>9, <1>10, <1>11, <1>12,
       <1>13 DEF Next

\* No task is ever assigned twice at a time, whatever the requests that race.
THEOREM AtMostOneLease == Spec => []OneLeasePerTask
<1>1. LeaseInv => OneLeasePerTask
      BY DEF LeaseInv
<1> QED BY <1>1, LeaseInit, LeaseNext, PTL DEF Spec

\* A finished task never comes with an open assignment.
THEOREM FinishedIsReleased == Spec => []FinishedHoldsNoLease
<1>1. LeaseInv => FinishedHoldsNoLease
      BY DEF LeaseInv
<1> QED BY <1>1, LeaseInit, LeaseNext, PTL DEF Spec

-----------------------------------------------------------------------------
(* Leases of live agents *)

\* The one way into Offline besides the sweep is a heartbeat that says so.
LEMMA LiveNext ==
    ASSUME "Offline" \notin HeartbeatStatuses, LeaseInv, OfflineHoldsNoLease,
           [Next]_vars
    PROVE  OfflineHoldsNoLease'
<1> USE DEF HasLease
<1>s. ASSUME UNCHANGED <<agentStatus, openRows>>
      PROVE  OfflineHoldsNoLease'
      BY <1>s DEF OfflineHoldsNoLease
<1>c. ASSUME NEW t \in Tasks, CloseRowsOf(t), UNCHANGED agentStatus
      PROVE  OfflineHoldsNoLease'
  <2>1. \A u \in Tasks, b \in Agents : openRows'[u][b] \in {0, openRows[u][b]}
        BY <1>c DEF CloseRowsOf, LeaseInv, TypeOK, DbTypeOK
  <2> QED BY <1>c, <2>1 DEF OfflineHoldsNoLease
<1>a. ASSUME NEW a \in Agents, NEW s \in {"Idle", "Busy"},
             agentStatus' = [agentStatus EXCEPT ![a] = s], UNCHANGED openRows
      PROVE  OfflineHoldsNoLease'
      BY <1>a DEF OfflineHoldsNoLease, LeaseInv, TypeOK, DbTypeOK
<1>1. ASSUME NEW a \in Agents, HandleUpsertAgent(a)
      PROVE  OfflineHoldsNoLease'
      BY <1>1, <1>a DEF HandleUpsertAgent, UpsertAgent, taskVars
<1>2. ASSUME NEW a \in Agents, NEW s \in HeartbeatStatuses, HandleAgentHeartbeat(a, s)
      PROVE  OfflineHoldsNoLease'
  <2>1. s \in {"Idle", "Busy"}
        BY InputsAssumption DEF AgentStatuses
  <2> QED BY <1>2, <1>a, <2>1 DEF HandleAgentHeartbeat, UpdateHeartbeat, taskVars
<1>3. ASSUME NEW a \in Agents, NEW n \in FreeSlots, HandlePollTasks(a, n)
      PROVE  OfflineHoldsNoLease'
  <2>1. CASE UNCHANGED <<agentStatus, taskVars>>
        BY <1>s, <2>1 DEF taskVars
  <2>2. ASSUME NEW S \in SUBSET Dispatchable(a), Dispatch(a, S)
        PROVE  OfflineHoldsNoLease'
    <3>1. agentStatus'[a] \in {"Idle", "Busy"}
          BY <2>2 DEF Dispatch, LeaseInv, TypeOK, DbTypeOK
    <3>2. \A b \in Agents \ {a} : /\ agentStatus'[b] = agentStatus[b]
                                  /\ \A t \in Tasks : openRows'[t][b] = openRows[t][b]
          BY <2>2 DEF Dispatch, LeaseInv, TypeOK, DbTypeOK
    <3> QED BY <3>1, <3>2 DEF OfflineHoldsNoLease
  <2> QED BY <1>3, <2>1, <2>2, PollCases
<1>4. ASSUME NEW t \in Tasks, HandleCreateTask(t)
      PROVE  OfflineHoldsNoLease'
      BY <1>4, <1>s DEF HandleCreateTask, CreateTask, agentVars
<1>5. ASSUME NEW h \in Handlers, NEW t \in Tasks, NEW to \in ReportStates,
             CheckReport(h, t, to)
      PROVE  OfflineHoldsNoLease'
      BY <1>5, <1>s DEF CheckReport, dbVars
<1>6. ASSUME NEW h \in Handlers, WriteReport(h)
      PROVE  OfflineHoldsNoLease'
  <2>1. PICK t \in Tasks, to \in ReportStates : UpdateTaskStatus(t, to)
        BY <1>6, ReportWrites DEF LeaseInv
  <2> QED BY <1>c, <1>s, <2>1 DEF UpdateTaskStatus, agentVars
<1>7. ASSUME NEW h \in Handlers, NEW t \in Tasks, ReadForCancel(h, t)
      PROVE  OfflineHoldsNoLease'
      BY <1>7, <1>s DEF ReadForCancel, dbVars
<1>8. ASSUME NEW h \in Handlers, WriteCancel(h)
      PROVE  OfflineHoldsNoLease'
  <2>1. PICK t \in Tasks : CancelTask(t)
        BY <1>8, CancelWrites DEF LeaseInv
  <2> QED BY <1>c, <2>1 DEF CancelTask, agentVars
<1>9. ASSUME NEW h \in Handlers, CallFails(h)
      PROVE  OfflineHoldsNoLease'
      BY <1>9, <1>s DEF CallFails, dbVars
<1>10. CASE Restart
      BY <1>10, <1>s DEF Restart, dbVars
<1>11. CASE MaintenanceSweep
  <2>1. \A t \in Tasks, b \in Agents :
           openRows'[t][b] = IF b \in Unresponsive THEN 0 ELSE openRows[t][b]
        BY <1>11 DEF MaintenanceSweep, MarkOfflineAgentsAndRequeue
  <2>2. \A b \in Agents \ Unresponsive : agentStatus'[b] = agentStatus[b]
        BY <1>11 DEF MaintenanceSweep, MarkOfflineAgentsAndRequeue
  <2> QED BY <2>1, <2>2 DEF OfflineHoldsNoLease
<1>12. ASSUME NEW a \in Agents, Age(a)
      PROVE  OfflineHoldsNoLease'
      BY <1>12, <1>s DEF Age, HeartbeatExpires, taskVars
<1>13. CASE UNCHANGED vars
      BY <1>13, <1>s DEF vars, dbVars
<1> QED
    BY <1>1, <1>2, <1>3, <1>4, <1>5, <1>6, <1>7, <1>8, <1>9, <1>10, <1>11, <1>12,
       <1>13 DEF Next

\* As long as no heartbeat declares its agent offline, every lease is held by an
\* agent that the sweep still watches.
THEOREM LeasesAreWatched ==
    ASSUME "Offline" \notin HeartbeatStatuses
    PROVE  Spec => []OfflineHoldsNoLease
<1>1. Init => OfflineHoldsNoLease
      BY DEF Init, DbInit, OfflineHoldsNoLease, HasLease
<1>2. LeaseInv /\ OfflineHoldsNoLease /\ [Next]_vars => OfflineHoldsNoLease'
      BY LiveNext
<1> QED BY <1>1, <1>2, LeaseInit, LeaseNext, PTL DEF Spec

-----------------------------------------------------------------------------
(* Who takes a task from its agent *)

\* One step from a state of the invariant.
LEMMA AgentLostStep ==
    ASSUME LeaseInv, [Next]_vars, NEW t \in Tasks,
           assignedAgent'[t] # assignedAgent[t]
    PROVE  \/ assignedAgent[t] = NoAgent /\ taskState[t] = "Queued"
           \/ /\ assignedAgent'[t] = NoAgent
              /\ assignedAgent[t] \in overdue
              /\ taskState'[t] = "Queued"
<1> DEFINE P == \/ assignedAgent[t] = NoAgent /\ taskState[t] = "Queued"
                \/ /\ assignedAgent'[t] = NoAgent
                   /\ assignedAgent[t] \in overdue
                   /\ taskState'[t] = "Queued"
<1>1. ASSUME NEW a \in Agents, HandleUpsertAgent(a)
      PROVE  P
      BY <1>1 DEF HandleUpsertAgent, UpsertAgent, taskVars
<1>2. ASSUME NEW a \in Agents, NEW s \in HeartbeatStatuses, HandleAgentHeartbeat(a, s)
      PROVE  P
      BY <1>2 DEF HandleAgentHeartbeat, UpdateHeartbeat, taskVars
<1>3. ASSUME NEW a \in Agents, NEW n \in FreeSlots, HandlePollTasks(a, n)
      PROVE  P
  <2>1. PICK S \in SUBSET Dispatchable(a) : Dispatch(a, S)
        BY <1>3, PollCases DEF taskVars
  <2>2. t \in S
        BY <2>1 DEF Dispatch
  <2> QED BY <2>2 DEF Dispatchable
<1>4. ASSUME NEW u \in Tasks, HandleCreateTask(u)
      PROVE  P
      BY <1>4 DEF HandleCreateTask, CreateTask, TaskExists, LeaseInv, TypeOK, DbTypeOK
<1>5. ASSUME NEW h \in Handlers, NEW u \in Tasks, NEW to \in ReportStates,
             CheckReport(h, u, to)
      PROVE  P
      BY <1>5 DEF CheckReport, dbVars
<1>6. ASSUME NEW h \in Handlers, WriteReport(h)
      PROVE  P
      BY <1>6 DEF WriteReport, UpdateTaskStatus
<1>7. ASSUME NEW h \in Handlers, NEW u \in Tasks, ReadForCancel(h, u)
      PROVE  P
      BY <1>7 DEF ReadForCancel, dbVars
<1>8. ASSUME NEW h \in Handlers, WriteCancel(h)
      PROVE  P
      BY <1>8 DEF WriteCancel, CancelTask
<1>9. ASSUME NEW h \in Handlers, CallFails(h)
      PROVE  P
      BY <1>9 DEF CallFails, dbVars
<1>10. CASE Restart
      BY <1>10 DEF Restart, dbVars
<1>11. CASE MaintenanceSweep
  <2>1. t \in Requeued
        BY <1>11 DEF MaintenanceSweep, MarkOfflineAgentsAndRequeue
  <2> QED BY <1>11, <2>1
          DEF MaintenanceSweep, MarkOfflineAgentsAndRequeue, Requeued, Unresponsive
<1>12. ASSUME NEW a \in Agents, Age(a)
      PROVE  P
      BY <1>12 DEF Age, HeartbeatExpires, taskVars
<1>13. CASE UNCHANGED vars
      BY <1>13 DEF vars, dbVars
<1> QED
    BY <1>1, <1>2, <1>3, <1>4, <1>5, <1>6, <1>7, <1>8, <1>9, <1>10, <1>11, <1>12,
       <1>13 DEF Next

\* Only the sweep takes a task from its agent, and only from a silent one.
THEOREM AgentsLoseTasksToSweepsOnly == Spec => AgentLostOnlyBySweep
<1>1. LeaseInv /\ [Next]_vars =>
        [\A t \in Tasks : assignedAgent'[t] # assignedAgent[t] =>
            \/ assignedAgent[t] = NoAgent /\ taskState[t] = "Queued"
            \/ /\ assignedAgent'[t] = NoAgent
               /\ assignedAgent[t] \in overdue
               /\ taskState'[t] = "Queued"]_vars
      BY AgentLostStep
<1> QED BY <1>1, LeaseInit, LeaseNext, PTL DEF Spec, AgentLostOnlyBySweep

-----------------------------------------------------------------------------
(* The queue, when no report writes "Queued" *)

\* The workers report Running, Succeeded and Failed only; then a task enters
\* Queued by CreateTask and by the sweep, which both write assigned_agent too.
LEMMA QueueNext ==
    ASSUME "Queued" \notin ReportStates, LeaseInv, QueuedIsPollable, [Next]_vars
    PROVE  QueuedIsPollable'
<1>s. ASSUME UNCHANGED <<taskState, assignedAgent>>
      PROVE  QueuedIsPollable'
      BY <1>s DEF QueuedIsPollable
<1>w. ASSUME NEW t \in Tasks, NEW s, s # "Queued",
             taskState' = [taskState EXCEPT ![t] = s], UNCHANGED assignedAgent
      PROVE  QueuedIsPollable'
      BY <1>w DEF QueuedIsPollable, LeaseInv, TypeOK, DbTypeOK
<1>1. ASSUME NEW a \in Agents, HandleUpsertAgent(a)
      PROVE  QueuedIsPollable'
      BY <1>1, <1>s DEF HandleUpsertAgent, UpsertAgent, taskVars
<1>2. ASSUME NEW a \in Agents, NEW s \in HeartbeatStatuses, HandleAgentHeartbeat(a, s)
      PROVE  QueuedIsPollable'
      BY <1>2, <1>s DEF HandleAgentHeartbeat, UpdateHeartbeat, taskVars
<1>3. ASSUME NEW a \in Agents, NEW n \in FreeSlots, HandlePollTasks(a, n)
      PROVE  QueuedIsPollable'
  <2>1. CASE UNCHANGED <<agentStatus, taskVars>>
        BY <1>s, <2>1 DEF taskVars
  <2>2. ASSUME NEW S \in SUBSET Dispatchable(a), Dispatch(a, S)
        PROVE  QueuedIsPollable'
        BY <2>2 DEF Dispatch, QueuedIsPollable
  <2> QED BY <1>3, <2>1, <2>2, PollCases
<1>4. ASSUME NEW t \in Tasks, HandleCreateTask(t)
      PROVE  QueuedIsPollable'
      BY <1>4 DEF HandleCreateTask, CreateTask, QueuedIsPollable, LeaseInv, TypeOK, DbTypeOK
<1>5. ASSUME NEW h \in Handlers, NEW t \in Tasks, NEW to \in ReportStates,
             CheckReport(h, t, to)
      PROVE  QueuedIsPollable'
      BY <1>5, <1>s DEF CheckReport, dbVars
<1>6. ASSUME NEW h \in Handlers, WriteReport(h)
      PROVE  QueuedIsPollable'
  <2>1. PICK t \in Tasks, to \in ReportStates : UpdateTaskStatus(t, to)
        BY <1>6, ReportWrites DEF LeaseInv
  <2> QED BY <1>w, <2>1 DEF UpdateTaskStatus
<1>7. ASSUME NEW h \in Handlers, NEW t \in Tasks, ReadForCancel(h, t)
      PROVE  QueuedIsPollable'
      BY <1>7, <1>s DEF ReadForCancel, dbVars
<1>8. ASSUME NEW h \in Handlers, WriteCancel(h)
      PROVE  QueuedIsPollable'
  <2>1. PICK t \in Tasks : CancelTask(t)
        BY <1>8, CancelWrites DEF LeaseInv
  <2> QED BY <1>w, <2>1 DEF CancelTask
<1>9. ASSUME NEW h \in Handlers, CallFails(h)
      PROVE  QueuedIsPollable'
      BY <1>9, <1>s DEF CallFails, dbVars
<1>10. CASE Restart
      BY <1>10, <1>s DEF Restart, dbVars
<1>11. CASE MaintenanceSweep
      BY <1>11 DEF MaintenanceSweep, MarkOfflineAgentsAndRequeue, QueuedIsPollable
<1>12. ASSUME NEW a \in Agents, Age(a)
      PROVE  QueuedIsPollable'
      BY <1>12, <1>s DEF Age, HeartbeatExpires, taskVars
<1>13. CASE UNCHANGED vars
      BY <1>13, <1>s DEF vars, dbVars
<1> QED
    BY <1>1, <1>2, <1>3, <1>4, <1>5, <1>6, <1>7, <1>8, <1>9, <1>10, <1>11, <1>12,
       <1>13 DEF Next

\* A Queued task is never withheld from the polls by a leftover assigned_agent.
THEOREM QueueIsPollable ==
    ASSUME "Queued" \notin ReportStates
    PROVE  Spec => []QueuedIsPollable
<1>1. Init => QueuedIsPollable
      BY DEF Init, DbInit, QueuedIsPollable
<1>2. LeaseInv /\ QueuedIsPollable /\ [Next]_vars => QueuedIsPollable'
      BY QueueNext
<1> QED BY <1>1, <1>2, LeaseInit, LeaseNext, PTL DEF Spec

\* A lease exists only on a task that is Running: a lease names the assigned
\* agent, a Queued task has none, and a finished task has no lease.
THEOREM LeasedTasksRun ==
    ASSUME "Queued" \notin ReportStates
    PROVE  Spec => []LeaseMeansRunning
<1>1. LeaseInv /\ QueuedIsPollable => LeaseMeansRunning
  <2> SUFFICES ASSUME LeaseInv, QueuedIsPollable,
                      NEW t \in Tasks, NEW a \in Agents, HasLease(t, a)
               PROVE  taskState[t] = "Running"
      BY DEF LeaseMeansRunning
  <2>1. assignedAgent[t] # NoAgent
        BY NoAgentAssumption DEF LeaseInv, OneLeasePerTask
  <2>2. taskState[t] # "Queued"
        BY <2>1 DEF QueuedIsPollable
  <2>3. taskState[t] \notin TerminalStates \union {"Absent"}
        BY DEF LeaseInv, FinishedHoldsNoLease
  <2> QED BY <2>2, <2>3 DEF LeaseInv, TypeOK, DbTypeOK, TaskStates, TerminalStates
<1> QED BY <1>1, QueueIsPollable, LeaseInit, LeaseNext, PTL DEF Spec

-----------------------------------------------------------------------------
(* Refinement of AssignmentLease *)

\* holder reads the open rows: under OneLeasePerTask the choice has one value.
HolderMeaning ==
    /\ holder \in [Tasks -> Agents \union {NoAgent}]
    /\ \A t \in Tasks, a \in Agents : holder[t] = a <=> HasLease(t, a)

LEMMA HolderReadsRows == LeaseInv => HolderMeaning
<1> SUFFICES ASSUME LeaseInv
             PROVE  HolderMeaning
    OBVIOUS
<1>1. \A t \in Tasks : /\ holder[t] \in Agents \union {NoAgent}
                       /\ \A a \in Agents : holder[t] = a <=> HasLease(t, a)
  <2> TAKE t \in Tasks
  <2>1. CASE \E a \in Agents : HasLease(t, a)
    <3>1. PICK a \in Agents : HasLease(t, a)
          BY <2>1
    <3>2. \A b \in Agents : HasLease(t, b) => b = a
          BY <3>1 DEF LeaseInv, OneLeasePerTask
    <3>3. holder[t] = CHOOSE b \in Agents : HasLease(t, b)
          BY <2>1 DEF holder
    <3> QED BY <3>1, <3>2, <3>3
  <2>2. CASE ~ \E a \in Agents : HasLease(t, a)
        BY <2>2, NoAgentAssumption DEF holder
  <2> QED BY <2>1, <2>2
<1> QED BY <1>1 DEF HolderMeaning, holder

LEMMA LeaseTableInit == Init => Lease!Init
<1> SUFFICES ASSUME Init
             PROVE  Lease!Init
    OBVIOUS
<1>1. holder = [t \in Tasks |-> NoAgent]
      BY DEF Init, DbInit, holder, HasLease
<1>2. waiting = {}
      BY DEF Init, DbInit, waiting
<1> QED BY <1>1, <1>2 DEF Lease!Init

\* Closing the rows of t while its state leaves Queued is the release of t.
LEMMA ClosingReleases ==
    ASSUME LeaseInv, HolderMeaning, HolderMeaning', NEW t \in Tasks,
           NEW s \in TerminalStates, taskState' = [taskState EXCEPT ![t] = s],
           CloseRowsOf(t), UNCHANGED assignedAgent
    PROVE  Lease!Next
<1>1. \A b \in Agents : ~HasLease(t, b)'
      BY DEF HasLease, CloseRowsOf, LeaseInv, TypeOK, DbTypeOK
<1>2. \A u \in Tasks \ {t} : openRows'[u] = openRows[u] /\ taskState'[u] = taskState[u]
      BY DEF CloseRowsOf, LeaseInv, TypeOK, DbTypeOK
<1>3. taskState'[t] # "Queued"
      BY DEF LeaseInv, TypeOK, DbTypeOK, TerminalStates
<1>4. holder'[t] = NoAgent
      BY <1>1 DEF HolderMeaning
<1>5. \A u \in Tasks \ {t} : holder'[u] = holder[u]
      BY <1>2 DEF HolderMeaning, HasLease
<1>6. holder' = [holder EXCEPT ![t] = NoAgent]
      BY <1>4, <1>5 DEF HolderMeaning
<1>7. waiting' = waiting \ {t}
      BY <1>2, <1>3 DEF waiting
<1> QED BY <1>6, <1>7 DEF Lease!Next, Lease!Release

\* Overwriting the state of t moves it in or out of the queue, and no lease.
LEMMA OverwritingQueues ==
    ASSUME LeaseInv, HolderMeaning, HolderMeaning', NEW t \in Tasks,
           NEW s \in TaskStates, taskState' = [taskState EXCEPT ![t] = s],
           UNCHANGED <<openRows, assignedAgent>>
    PROVE  Lease!Next \/ UNCHANGED Lease!vars
<1>1. \A u \in Tasks : holder'[u] = holder[u]
      BY DEF HolderMeaning, HasLease
<1>2. holder' = holder
      BY <1>1 DEF HolderMeaning
<1>3. \A u \in Tasks \ {t} : taskState'[u] = taskState[u]
      BY DEF LeaseInv, TypeOK, DbTypeOK
<1>4. CASE assignedAgent[t] # NoAgent
  <2>1. waiting' = waiting
        BY <1>3, <1>4 DEF waiting
  <2> QED BY <1>2, <2>1 DEF Lease!vars
<1>5. CASE assignedAgent[t] = NoAgent
  <2>1. \A b \in Agents : ~HasLease(t, b)
        BY <1>5, NoAgentAssumption DEF LeaseInv, OneLeasePerTask
  <2>2. holder[t] = NoAgent
        BY <2>1 DEF HolderMeaning
  <2>3. holder' = [holder EXCEPT ![t] = NoAgent]
        BY <1>2, <2>2 DEF HolderMeaning
  <2>4. waiting' = waiting \union {t} \/ waiting' = waiting \ {t}
        BY <1>3, <1>5 DEF waiting
  <2> QED BY <1>2, <2>2, <2>3, <2>4 DEF Lease!Next, Lease!Submit, Lease!Release
<1> QED BY <1>4, <1>5

LEMMA DispatchGrants ==
    ASSUME LeaseInv, HolderMeaning, HolderMeaning', NEW a \in Agents,
           NEW S \in SUBSET Dispatchable(a), Dispatch(a, S)
    PROVE  Lease!Next
<1>1. S \subseteq Tasks /\ S \subseteq waiting
      BY FitsAssumption DEF Dispatchable, waiting
<1>2. \A t \in Tasks \ S : /\ openRows'[t] = openRows[t]
                           /\ taskState'[t] = taskState[t]
                           /\ assignedAgent'[t] = assignedAgent[t]
      BY DEF Dispatch
<1>3. \A t \in S : HasLease(t, a)' /\ taskState'[t] # "Queued"
      BY <1>1 DEF Dispatch, HasLease, LeaseInv, TypeOK, DbTypeOK
<1>4. \A t \in S : holder'[t] = a
      BY <1>1, <1>3 DEF HolderMeaning
<1>5. \A t \in Tasks \ S : holder'[t] = holder[t]
      BY <1>2 DEF HolderMeaning, HasLease
<1>6. holder' = [t \in Tasks |-> IF t \in S THEN a ELSE holder[t]]
      BY <1>4, <1>5 DEF HolderMeaning
<1>7. waiting' = waiting \ S
      BY <1>2, <1>3 DEF waiting
<1> QED BY <1>1, <1>6, <1>7 DEF Lease!Next, Lease!Grant

\* The sweep expires the leases of the silent agents; what it requeues besides
\* are tasks left to these agents without a lease.
LEMMA SweepExpires ==
    ASSUME LeaseInv, HolderMeaning, HolderMeaning', MarkOfflineAgentsAndRequeue
    PROVE  Lease!Next
<1> DEFINE R == {t \in Requeued : holder[t] = NoAgent}
<1>1. Unresponsive \in SUBSET Agents /\ R \in SUBSET Tasks
      BY DEF Unresponsive, Requeued, LeaseInv, TypeOK, DbTypeOK
<1>2. \A t \in Tasks, b \in Agents :
         HasLease(t, b)' <=> b \notin Unresponsive /\ HasLease(t, b)
      BY DEF MarkOfflineAgentsAndRequeue, HasLease
<1>3. \A t \in Tasks :
         holder'[t] = IF holder[t] \in Unresponsive THEN NoAgent ELSE holder[t]
      BY <1>1, <1>2 DEF HolderMeaning
<1>4. holder' = [t \in Tasks |->
                   IF holder[t] \in Unresponsive THEN NoAgent ELSE holder[t]]
      BY <1>3 DEF HolderMeaning
<1>5. \A t \in Tasks : holder[t] \in Unresponsive => t \in Requeued
  <2> SUFFICES ASSUME NEW t \in Tasks, holder[t] \in Unresponsive
               PROVE  t \in Requeued
      OBVIOUS
  <2>1. HasLease(t, holder[t])
        BY <1>1 DEF HolderMeaning
  <2>2. assignedAgent[t] = holder[t]
        BY <1>1, <2>1 DEF LeaseInv, OneLeasePerTask
  <2>3. taskState[t] \notin TerminalStates \union {"Absent"}
        BY <1>1, <2>1 DEF LeaseInv, FinishedHoldsNoLease
  <2>4. taskState[t] \in {"Running", "Queued"}
        BY <2>3 DEF LeaseInv, TypeOK, DbTypeOK, TaskStates, TerminalStates
  <2> QED BY <2>2, <2>4 DEF Requeued
<1>6. \A t \in Requeued : holder[t] = NoAgent \/ holder[t] \in Unresponsive
  <2> SUFFICES ASSUME NEW t \in Requeued, holder[t] # NoAgent
               PROVE  holder[t] \in Unresponsive
      OBVIOUS
  <2>1. t \in Tasks /\ assignedAgent[t] \in Unresponsive
        BY DEF Requeued
  <2>2. holder[t] \in Agents /\ HasLease(t, holder[t])
        BY <2>1 DEF HolderMeaning
  <2> QED BY <2>1, <2>2 DEF LeaseInv, OneLeasePerTask
<1>7. waiting' = waiting \union Requeued
  <2>1. \A t \in Requeued : taskState'[t] = "Queued" /\ assignedAgent'[t] = NoAgent
        BY DEF MarkOfflineAgentsAndRequeue, Requeued
  <2>2. \A t \in Tasks \ Requeued : /\ taskState'[t] = taskState[t]
                                    /\ assignedAgent'[t] = assignedAgent[t]
        BY DEF MarkOfflineAgentsAndRequeue
  <2>3. \A t \in Requeued : t \in Tasks
        BY DEF Requeued
  <2> QED BY <2>1, <2>2, <2>3 DEF waiting
<1>8. Requeued = R \union {t \in Tasks : holder[t] \in Unresponsive}
  <2>1. Requeued \subseteq Tasks
        BY DEF Requeued
  <2> QED BY <1>5, <1>6, <2>1
<1>9. waiting' = waiting \union R \union {t \in Tasks : holder[t] \in Unresponsive}
      BY <1>7, <1>8
<1>10. Lease!Expire(Unresponsive, R)
      BY <1>4, <1>9 DEF Lease!Expire
<1> QED BY <1>1, <1>10 DEF Lease!Next

LEMMA LeaseTableNext ==
    ASSUME LeaseInv, HolderMeaning, HolderMeaning', [Next]_vars
    PROVE  [Lease!Next]_(Lease!vars)
<1>s. ASSUME UNCHANGED taskVars
      PROVE  UNCHANGED Lease!vars
      BY <1>s DEF taskVars, Lease!vars, holder, waiting, HasLease
<1>1. ASSUME NEW a \in Agents, HandleUpsertAgent(a)
      PROVE  UNCHANGED Lease!vars
      BY <1>1, <1>s DEF HandleUpsertAgent, UpsertAgent
<1>2. ASSUME NEW a \in Agents, NEW s \in HeartbeatStatuses, HandleAgentHeartbeat(a, s)
      PROVE  UNCHANGED Lease!vars
      BY <1>2, <1>s DEF HandleAgentHeartbeat, UpdateHeartbeat
<1>3. ASSUME NEW a \in Agents, NEW n \in FreeSlots, HandlePollTasks(a, n)
      PROVE  Lease!Next \/ UNCHANGED Lease!vars
      BY <1>3, <1>s, PollCases, DispatchGrants
<1>4. ASSUME NEW t \in Tasks, HandleCreateTask(t)
      PROVE  Lease!Next
  <2>1. \A b \in Agents : ~HasLease(t, b)
        BY <1>4 DEF HandleCreateTask, CreateTask, TaskExists, LeaseInv, FinishedHoldsNoLease
  <2>2. holder[t] = NoAgent
        BY <2>1 DEF HolderMeaning
  <2>3. holder' = holder
        BY <1>4 DEF HandleCreateTask, CreateTask, holder, HasLease
  <2>4. waiting' = waiting \union {t}
        BY <1>4 DEF HandleCreateTask, CreateTask, waiting, LeaseInv, TypeOK, DbTypeOK
  <2> QED BY <2>2, <2>3, <2>4 DEF Lease!Next, Lease!Submit
<1>5. ASSUME NEW h \in Handlers, NEW t \in Tasks, NEW to \in ReportStates,
             CheckReport(h, t, to)
      PROVE  UNCHANGED Lease!vars
      BY <1>5, <1>s DEF CheckReport, dbVars, taskVars
<1>6. ASSUME NEW h \in Handlers, WriteReport(h)
      PROVE  Lease!Next \/ UNCHANGED Lease!vars
  <2>1. PICK t \in Tasks, to \in ReportStates : UpdateTaskStatus(t, to)
        BY <1>6, ReportWrites DEF LeaseInv
  <2>2. CASE to \in TerminalStates
        BY <2>1, <2>2, ClosingReleases DEF UpdateTaskStatus
  <2>3. CASE to \notin TerminalStates
        BY <2>1, <2>3, InputsAssumption, OverwritingQueues DEF UpdateTaskStatus
  <2> QED BY <2>2, <2>3
<1>7. ASSUME NEW h \in Handlers, NEW t \in Tasks, ReadForCancel(h, t)
      PROVE  UNCHANGED Lease!vars
      BY <1>7, <1>s DEF ReadForCancel, dbVars, taskVars
<1>8. ASSUME NEW h \in Handlers, WriteCancel(h)
      PROVE  Lease!Next
  <2>1. PICK t \in Tasks : CancelTask(t)
        BY <1>8, CancelWrites DEF LeaseInv
  <2> QED BY <2>1, ClosingReleases DEF CancelTask, TerminalStates
<1>9. ASSUME NEW h \in Handlers, CallFails(h)
      PROVE  UNCHANGED Lease!vars
      BY <1>9, <1>s DEF CallFails, dbVars, taskVars
<1>10. CASE Restart
      BY <1>10, <1>s DEF Restart, dbVars, taskVars
<1>11. CASE MaintenanceSweep
      BY <1>11, SweepExpires DEF MaintenanceSweep
<1>12. ASSUME NEW a \in Agents, Age(a)
      PROVE  UNCHANGED Lease!vars
      BY <1>12, <1>s DEF Age, HeartbeatExpires
<1>13. CASE UNCHANGED vars
      BY <1>13, <1>s DEF vars, dbVars, taskVars
<1> QED
    BY <1>1, <1>2, <1>3, <1>4, <1>5, <1>6, <1>7, <1>8, <1>9, <1>10, <1>11, <1>12,
       <1>13 DEF Next

\* The control service, races included, implements the lease table.
THEOREM Refinement == Spec => ImplementsLease
<1>1. LeaseInv /\ HolderMeaning /\ HolderMeaning' /\ [Next]_vars
        => [Lease!Next]_(Lease!vars)
      BY LeaseTableNext
<1> QED BY <1>1, LeaseInit, LeaseNext, LeaseTableInit, HolderReadsRows, PTL
        DEF Spec, ImplementsLease, Lease!Spec
=============================================================================
