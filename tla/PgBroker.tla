------------------------------ MODULE PgBroker ------------------------------
(***************************************************************************)
(* The tables agents, tasks and task_assignments, and one operator per     *)
(* transaction that PgBroker commits on them.                              *)
(*                                                                         *)
(* A transaction is one atomic step where PostgreSQL's row locks make it   *)
(* so: PollTasksForAgent holds its agent's row from its first UPDATE on,   *)
(* MarkOfflineAgentsAndRequeue holds the rows of the agents it sweeps, and *)
(* UpdateTaskStatus and CancelTask hold the task's row from their UPDATE   *)
(* on.  What a transaction reads without a lock before it writes (the      *)
(* SELECT of CancelTask, the GetTask that precedes UpdateTaskStatus) is a  *)
(* step of its own, in module ControlService.                              *)
(*                                                                         *)
(* Of last_heartbeat the model keeps whether it is older than the sweep's  *)
(* cutoff.  exit_code, the timestamps, error_message and the reason column *)
(* are written by the same statements and read by no guard: left out.      *)
(***************************************************************************)
EXTENDS Integers, FiniteSets

CONSTANTS
    Agents,     \* agent ids
    Tasks,      \* task ids the sequence can hand out
    NoAgent,    \* NULL in tasks.assigned_agent
    Fits        \* Fits[a]: the tasks whose constraints agent a's resources meet

ASSUME NoAgentAssumption == NoAgent \notin Agents
ASSUME FitsAssumption == Fits \in [Agents -> SUBSET Tasks]

VARIABLES
    agentStatus,    \* agents.status; "Absent": the table has no such row
    overdue,        \* the agents whose last_heartbeat is older than the cutoff
    taskState,      \* tasks.state; "Absent": the id is not handed out yet
    assignedAgent,  \* tasks.assigned_agent
    openRows        \* openRows[t][a]: rows of task_assignments with
                    \* unassigned_at IS NULL

dbVars == <<agentStatus, overdue, taskState, assignedAgent, openRows>>
agentVars == <<agentStatus, overdue>>
taskVars == <<taskState, assignedAgent, openRows>>

AgentStatuses == {"Idle", "Busy", "Offline"}
TaskStates == {"Queued", "Running", "Succeeded", "Failed", "Canceled"}
TerminalStates == {"Succeeded", "Failed", "Canceled"}

DbTypeOK ==
    /\ agentStatus \in [Agents -> AgentStatuses \union {"Absent"}]
    /\ overdue \subseteq Agents
    /\ taskState \in [Tasks -> TaskStates \union {"Absent"}]
    /\ assignedAgent \in [Tasks -> Agents \union {NoAgent}]
    /\ openRows \in [Tasks -> [Agents -> Nat]]

DbInit ==
    /\ agentStatus = [a \in Agents |-> "Absent"]
    /\ overdue = {}
    /\ taskState = [t \in Tasks |-> "Absent"]
    /\ assignedAgent = [t \in Tasks |-> NoAgent]
    /\ openRows = [t \in Tasks |-> [a \in Agents |-> 0]]

-----------------------------------------------------------------------------
(* Helpers *)

AgentExists(a) == agentStatus[a] # "Absent"
TaskExists(t) == taskState[t] # "Absent"
IsTerminal(t) == taskState[t] \in TerminalStates

\* Mutant of Dispatchable: the SELECT without "assigned_agent IS NULL".
DispatchableAssigned(a) == {t \in Fits[a] : taskState[t] = "Queued"}

\* The WHERE clause of the poll's SELECT ... FOR UPDATE.
Dispatchable(a) ==
    {t \in Fits[a] : taskState[t] = "Queued" /\ assignedAgent[t] = NoAgent}

\* unassigned_at = NOW() on every open row of the task.
CloseRowsOf(t) == openRows' = [openRows EXCEPT ![t] = [a \in Agents |-> 0]]

-----------------------------------------------------------------------------
(* Transactions *)

UpsertAgent(a) ==
    /\ agentStatus' = [agentStatus EXCEPT ![a] = "Idle"]
    /\ overdue' = overdue \ {a}
    /\ UNCHANGED taskVars

UpdateHeartbeat(a, s) ==
    /\ AgentExists(a)
    /\ agentStatus' = [agentStatus EXCEPT ![a] = s]
    /\ overdue' = overdue \ {a}
    /\ UNCHANGED taskVars

\* Mutant of CreateTask: assigned_agent starts as an empty name instead of NULL.
CreateWithEmptyName(t) ==
    /\ ~TaskExists(t)
    /\ taskState' = [taskState EXCEPT ![t] = "Queued"]
    /\ assignedAgent' = [assignedAgent EXCEPT ![t] = ""]
    /\ UNCHANGED <<agentVars, openRows>>

CreateTask(t) ==
    /\ ~TaskExists(t)
    /\ taskState' = [taskState EXCEPT ![t] = "Queued"]
    /\ assignedAgent' = [assignedAgent EXCEPT ![t] = NoAgent]
    /\ UNCHANGED <<agentVars, openRows>>

\* Mutant of Dispatch: the agent's status is not written.
DispatchSilently(a, S) ==
    /\ taskState' = [t \in Tasks |-> IF t \in S THEN "Running" ELSE taskState[t]]
    /\ assignedAgent' = [t \in Tasks |-> IF t \in S THEN a ELSE assignedAgent[t]]
    /\ openRows' = [t \in Tasks |->
           IF t \in S THEN [openRows[t] EXCEPT ![a] = @ + 1] ELSE openRows[t]]
    /\ UNCHANGED agentStatus

\* The rows locked by the poll become Running, assigned and leased.
Dispatch(a, S) ==
    /\ taskState' = [t \in Tasks |-> IF t \in S THEN "Running" ELSE taskState[t]]
    /\ assignedAgent' = [t \in Tasks |-> IF t \in S THEN a ELSE assignedAgent[t]]
    /\ openRows' = [t \in Tasks |->
           IF t \in S THEN [openRows[t] EXCEPT ![a] = @ + 1] ELSE openRows[t]]
    /\ agentStatus' =
           [agentStatus EXCEPT ![a] = IF S = {} THEN "Idle" ELSE "Busy"]

\* S is any set of at most freeSlots dispatchable tasks: SKIP LOCKED leaves out
\* the rows another transaction holds, and which tasks are the oldest is abstracted.
PollTasksForAgent(a, freeSlots) ==
    /\ AgentExists(a)
    /\ overdue' = overdue \ {a}
    /\ \/ freeSlots <= 0 /\ UNCHANGED <<agentStatus, taskVars>>
       \/ /\ freeSlots > 0
          /\ \E S \in SUBSET Dispatchable(a) :
                Cardinality(S) <= freeSlots /\ Dispatch(a, S)

\* Mutant of UpdateTaskStatus: only a result ends the assignment.
UpdateTaskStatusOnResult(t, to) ==
    /\ taskState' = [taskState EXCEPT ![t] = to]
    /\ IF to \in {"Succeeded", "Failed"} THEN CloseRowsOf(t) ELSE UNCHANGED openRows
    /\ UNCHANGED <<agentVars, assignedAgent>>

\* The UPDATE has no condition but the id: the state it overwrites is not read.
UpdateTaskStatus(t, to) ==
    /\ taskState' = [taskState EXCEPT ![t] = to]
    /\ IF to \in TerminalStates THEN CloseRowsOf(t) ELSE UNCHANGED openRows
    /\ UNCHANGED <<agentVars, assignedAgent>>

\* Mutant of CancelTask: the open row stays open.
CancelTaskOnly(t) ==
    /\ taskState' = [taskState EXCEPT ![t] = "Canceled"]
    /\ UNCHANGED <<agentVars, assignedAgent, openRows>>

\* What CancelTask writes once its SELECT has found an unfinished task.
CancelTask(t) ==
    /\ taskState' = [taskState EXCEPT ![t] = "Canceled"]
    /\ CloseRowsOf(t)
    /\ UNCHANGED <<agentVars, assignedAgent>>

\* Mutant of Unresponsive: only an idle agent is found silent.
UnresponsiveIdle == {a \in overdue : agentStatus[a] = "Idle"}

\* Mutant of Unresponsive: last_heartbeat is not compared with the cutoff.
UnresponsiveAlways == {a \in Agents : agentStatus[a] \notin {"Absent", "Offline"}}

\* The agents the sweep selects FOR UPDATE.
Unresponsive == {a \in overdue : agentStatus[a] \notin {"Absent", "Offline"}}

\* The tasks the sweep puts back in the queue.
Requeued == {t \in Tasks : /\ assignedAgent[t] \in Unresponsive
                           /\ taskState[t] \in {"Running", "Queued"}}

\* Mutant of MarkOfflineAgentsAndRequeue: assigned_agent is not set to NULL.
RequeueStillAssigned ==
    /\ Unresponsive # {}
    /\ agentStatus' = [a \in Agents |->
           IF a \in Unresponsive THEN "Offline" ELSE agentStatus[a]]
    /\ openRows' = [t \in Tasks |-> [a \in Agents |->
           IF a \in Unresponsive THEN 0 ELSE openRows[t][a]]]
    /\ taskState' = [t \in Tasks |->
           IF t \in Requeued THEN "Queued" ELSE taskState[t]]
    /\ UNCHANGED <<overdue, assignedAgent>>

MarkOfflineAgentsAndRequeue ==
    /\ Unresponsive # {}
    /\ agentStatus' = [a \in Agents |->
           IF a \in Unresponsive THEN "Offline" ELSE agentStatus[a]]
    /\ openRows' = [t \in Tasks |-> [a \in Agents |->
           IF a \in Unresponsive THEN 0 ELSE openRows[t][a]]]
    /\ taskState' = [t \in Tasks |->
           IF t \in Requeued THEN "Queued" ELSE taskState[t]]
    /\ assignedAgent' = [t \in Tasks |->
           IF t \in Requeued THEN NoAgent ELSE assignedAgent[t]]
    /\ UNCHANGED overdue

\* Time: more than offline_after_sec has passed since a's last heartbeat.
HeartbeatExpires(a) ==
    /\ AgentExists(a)
    /\ a \notin overdue
    /\ overdue' = overdue \union {a}
    /\ UNCHANGED <<agentStatus, taskVars>>
=============================================================================
