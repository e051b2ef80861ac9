--------------------------- MODULE ControlService ---------------------------
(***************************************************************************)
(* The master: REST handlers on httplib's thread pool and the maintenance  *)
(* thread, over the database of module PgBroker.                           *)
(*                                                                         *)
(* HandleUpdateTaskStatus reads the task, checks the transition and then   *)
(* writes in a second transaction; CancelTask selects the state without a  *)
(* lock and then updates.  Both are two steps here, with whatever the      *)
(* other threads commit in between.  A request that is refused (400, 404,  *)
(* 409) changes nothing and is no step.                                    *)
(***************************************************************************)
EXTENDS PgBroker

CONSTANTS
    Handlers,           \* threads of the HTTP server
    FreeSlots,          \* the free_slots a poll may carry
    HeartbeatStatuses,  \* the statuses a heartbeat may carry
    ReportStates        \* the states a status report may carry

ASSUME InputsAssumption ==
    /\ FreeSlots \subseteq Int
    /\ HeartbeatStatuses \subseteq AgentStatuses
    /\ ReportStates \subseteq TaskStates

VARIABLE call   \* call[h]: what handler h has checked and not yet written

vars == <<dbVars, call>>

Idle == [op |-> "idle"]
Reports == [op : {"report"}, task : Tasks, to : ReportStates]
Cancels == [op : {"cancel"}, task : Tasks]

TypeOK ==
    /\ DbTypeOK
    /\ call \in [Handlers -> {Idle} \union Reports \union Cancels]

Init ==
    /\ DbInit
    /\ call = [h \in Handlers |-> Idle]

-----------------------------------------------------------------------------
(* Handlers that are one transaction *)

HandleUpsertAgent(a) == UpsertAgent(a) /\ UNCHANGED call

HandleAgentHeartbeat(a, s) == UpdateHeartbeat(a, s) /\ UNCHANGED call

HandlePollTasks(a, freeSlots) == PollTasksForAgent(a, freeSlots) /\ UNCHANGED call

HandleCreateTask(t) == CreateTask(t) /\ UNCHANGED call

-----------------------------------------------------------------------------
(* POST /tasks/{id}/status *)

IsValidTaskStateTransition(from, to) ==
    \/ from = to
    \/ from = "Queued" /\ to \in {"Running", "Canceled"}
    \/ from = "Running" /\ to \in TerminalStates

\* GetTask in a transaction of its own, then the check.
CheckReport(h, t, to) ==
    /\ call[h] = Idle
    /\ TaskExists(t)
    /\ IsValidTaskStateTransition(taskState[t], to)
    /\ call' = [call EXCEPT ![h] = [op |-> "report", task |-> t, to |-> to]]
    /\ UNCHANGED dbVars

\* When the connection fails after the server has committed, ExecuteWithRetry
\* runs the transaction again later: the call stays where it is.
WriteReport(h) ==
    /\ call[h].op = "report"
    /\ UpdateTaskStatus(call[h].task, call[h].to)
    /\ call' \in {call, [call EXCEPT ![h] = Idle]}

-----------------------------------------------------------------------------
(* POST /tasks/{id}/cancel *)

\* The SELECT of CancelTask, which takes no lock.
ReadForCancel(h, t) ==
    /\ call[h] = Idle
    /\ TaskExists(t)
    /\ ~IsTerminal(t)
    /\ call' = [call EXCEPT ![h] = [op |-> "cancel", task |-> t]]
    /\ UNCHANGED dbVars

\* A retry starts with the SELECT again: it is another ReadForCancel.
WriteCancel(h) ==
    /\ call[h].op = "cancel"
    /\ CancelTask(call[h].task)
    /\ call' = [call EXCEPT ![h] = Idle]

-----------------------------------------------------------------------------
(* Failures and the maintenance thread *)

\* Every attempt threw before its commit: 500, nothing written.
CallFails(h) ==
    /\ call[h] # Idle
    /\ call' = [call EXCEPT ![h] = Idle]
    /\ UNCHANGED dbVars

\* The master keeps nothing but the database across a restart.
Restart ==
    /\ \E h \in Handlers : call[h] # Idle
    /\ call' = [h \in Handlers |-> Idle]
    /\ UNCHANGED dbVars

MaintenanceSweep == MarkOfflineAgentsAndRequeue /\ UNCHANGED call

Age(a) == HeartbeatExpires(a) /\ UNCHANGED call

Next ==
    \/ \E a \in Agents : HandleUpsertAgent(a)
    \/ \E a \in Agents, s \in HeartbeatStatuses : HandleAgentHeartbeat(a, s)
    \/ \E a \in Agents, n \in FreeSlots : HandlePollTasks(a, n)
    \/ \E t \in Tasks : HandleCreateTask(t)
    \/ \E h \in Handlers, t \in Tasks, to \in ReportStates : CheckReport(h, t, to)
    \/ \E h \in Handlers : WriteReport(h)
    \/ \E h \in Handlers, t \in Tasks : ReadForCancel(h, t)
    \/ \E h \in Handlers : WriteCancel(h)
    \/ \E h \in Handlers : CallFails(h)
    \/ Restart
    \/ MaintenanceSweep
    \/ \E a \in Agents : Age(a)

Spec == Init /\ [][Next]_vars

-----------------------------------------------------------------------------
(* Properties *)

HasLease(t, a) == openRows[t][a] > 0

\* A task has at most one open assignment, whatever polls, sweeps, reports and
\* cancels race, and that row names the task's assigned_agent: the ground on
\* which PollTasksForAgent claims that "workers never see duplicates".
OneLeasePerTask ==
    \A t \in Tasks, a \in Agents :
        /\ openRows[t][a] \leq 1
        /\ HasLease(t, a) => assignedAgent[t] = a

\* A finished task holds no lease: every write of a terminal state closes the
\* open rows, and nothing opens one behind its back, late writes included.
FinishedHoldsNoLease ==
    \A t \in Tasks : taskState[t] \in TerminalStates \union {"Absent"} =>
        \A a \in Agents : ~HasLease(t, a)

\* The sweep skips agents that are already Offline, so an Offline agent with a
\* lease would keep it for ever: no path to Offline may leave a lease open.
OfflineHoldsNoLease ==
    \A t \in Tasks, a \in Agents :
        HasLease(t, a) => agentStatus[a] \in {"Idle", "Busy"}

\* A Queued task can be polled: with assigned_agent still set, no poll would
\* select it and only the death of that agent would bring it back.
QueuedIsPollable ==
    \A t \in Tasks : taskState[t] = "Queued" => assignedAgent[t] = NoAgent

\* A lease exists only on a task that is Running.
LeaseMeansRunning ==
    \A t \in Tasks, a \in Agents : HasLease(t, a) => taskState[t] = "Running"

\* A task is never handed from one agent to another in one step, and loses its
\* agent only when a sweep finds that agent silent; reports and cancels leave
\* assigned_agent alone even when they end the lease.
AgentLostOnlyBySweep ==
    [][\A t \in Tasks : assignedAgent'[t] # assignedAgent[t] =>
          \/ assignedAgent[t] = NoAgent /\ taskState[t] = "Queued"
          \/ /\ assignedAgent'[t] = NoAgent
             /\ assignedAgent[t] \in overdue
             /\ taskState'[t] = "Queued"]_vars

\* The lease of an agent that has fallen silent ends, unless it is heard again.
SilentAgentLosesLease ==
    \A t \in Tasks, a \in Agents :
        (HasLease(t, a) /\ a \in overdue) ~> (~HasLease(t, a) \/ a \notin overdue)

-----------------------------------------------------------------------------
(* Refinement: the open rows and the pollable tasks are a lease table. *)

holder == [t \in Tasks |->
    IF \E a \in Agents : HasLease(t, a)
    THEN CHOOSE a \in Agents : HasLease(t, a)
    ELSE NoAgent]

waiting == {t \in Tasks : taskState[t] = "Queued" /\ assignedAgent[t] = NoAgent}

Lease == INSTANCE AssignmentLease WITH holder <- holder, waiting <- waiting

\* The control service implements the lease table.
ImplementsLease == Lease!Spec

=============================================================================
