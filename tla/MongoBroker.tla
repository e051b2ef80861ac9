----------------------------- MODULE MongoBroker -----------------------------
(***************************************************************************)
(* The master over MongoDB.  The collections are the tables of module      *)
(* PgBroker; what differs is the atomicity of the operations.              *)
(*                                                                         *)
(* On a replica set each operation is one transaction: it writes every     *)
(* document its decision rests on, so of two that overlap one gets a write *)
(* conflict, is aborted and repeated, and the operation is a single step.  *)
(* On a standalone server (the one of docker-compose) starting the         *)
(* transaction throws, and the fallback runs the same statements one by    *)
(* one: each is a step, an exception or a restart may come between two of  *)
(* them, and what is written stays written.                                *)
(***************************************************************************)
EXTENDS PgBroker

CONSTANTS
    Handlers,       \* threads of the HTTP server
    NoTask,         \* absence of a task
    FreeSlots,      \* the free_slots a poll may carry
    ReportStates    \* the states a status report may carry

ASSUME MongoAssumption ==
    /\ NoTask \notin Tasks
    /\ FreeSlots \subseteq Int
    /\ ReportStates \subseteq TaskStates

VARIABLES
    transactions,   \* the server has transactions; never changes
    call,           \* call[h]: the operation that handler h is in
    sweep,          \* the sweep of the maintenance thread
    cut,            \* history: agents that lost an operation halfway
    late            \* history: tasks whose state a report has overwritten by a
                    \* transition that its check would have refused, until the
                    \* task is dispatched or requeued

history == <<cut, late>>
mongoVars == <<dbVars, transactions, call, sweep, history>>

Free == [op |-> "free"]

\* left: candidates not tried yet; row: the task assigned whose row is to be
\* inserted; got: the tasks of the answer.
Polls == [op : {"find", "assign"}, agent : Agents, slots : FreeSlots,
          left : SUBSET Tasks, row : Tasks \union {NoTask}, got : SUBSET Tasks]
\* The state is written at "report", the open rows are closed at "close".
Writes == [op : {"report", "close"}, task : Tasks, to : ReportStates]
Cancels == [op : {"cancel", "free_rows"}, task : Tasks]

\* todo: agents listed and not reached; agent: the one whose statements are
\* being run; next: the statement to run.
Sweeps == [todo : SUBSET Agents, agent : Agents \union {NoAgent},
           next : {"agent", "rows", "tasks"}]
NoSweep == [todo |-> {}, agent |-> NoAgent, next |-> "agent"]

MongoTypeOK ==
    /\ DbTypeOK
    /\ transactions \in BOOLEAN
    /\ call \in [Handlers -> {Free} \union Polls \union Writes \union Cancels]
    /\ sweep \in Sweeps
    /\ cut \subseteq Agents
    /\ late \subseteq Tasks

MongoInit ==
    /\ DbInit
    /\ transactions \in BOOLEAN
    /\ call = [h \in Handlers |-> Free]
    /\ sweep = NoSweep
    /\ cut = {}
    /\ late = {}

Become(h, c) == call' = [call EXCEPT ![h] = c]

\* A task that changes hands is no longer what a late report made of it.
ForgetLate == late' = {t \in late : assignedAgent'[t] = assignedAgent[t]}

-----------------------------------------------------------------------------
(* Operations that are one statement, or whose statements no one tells apart: *)
(* an id that NextTaskId counted and no insert used is a gap.                 *)

\* An exception is swallowed and answered like a success: the worker then runs
\* without a row, and its polls and heartbeats are refused.  No document changes,
\* so that it is no step.
Register(a) == UpsertAgent(a) /\ UNCHANGED <<transactions, call, sweep, history>>

Heartbeat(a, s) == UpdateHeartbeat(a, s) /\ UNCHANGED <<transactions, call, sweep, history>>

Create(t) == CreateTask(t) /\ UNCHANGED <<transactions, call, sweep, history>>

-----------------------------------------------------------------------------
(* Polls *)

TxPoll(a, n) ==
    /\ transactions
    /\ PollTasksForAgent(a, n)
    /\ ForgetLate
    /\ UNCHANGED <<transactions, call, sweep, cut>>

\* The agent is found, and its last_heartbeat written.
StartPoll(h, a, n) ==
    /\ ~transactions
    /\ call[h] = Free
    /\ AgentExists(a)
    /\ overdue' = overdue \ {a}
    /\ IF n <= 0 THEN UNCHANGED call
       ELSE Become(h, [op |-> "find", agent |-> a, slots |-> n,
                       left |-> {}, row |-> NoTask, got |-> {}])
    /\ UNCHANGED <<agentStatus, taskVars, transactions, sweep, history>>

\* find() with its limit: the oldest candidates, in the order of creation, which
\* the model does not keep.
FindCandidates(h) ==
    /\ call[h].op = "find"
    /\ LET D == Dispatchable(call[h].agent)
           n == IF call[h].slots < Cardinality(D) THEN call[h].slots ELSE Cardinality(D)
       IN  \E S \in SUBSET D :
              /\ Cardinality(S) = n
              /\ Become(h, [call[h] EXCEPT !.op = "assign", !.left = S])
    /\ UNCHANGED <<dbVars, transactions, sweep, history>>

\* Mutant of TryAssign: update_one finds the task by its id alone.
AssignById(h) ==
    /\ call[h].op = "assign" /\ call[h].row = NoTask
    /\ \E t \in call[h].left :
          /\ Become(h, [call[h] EXCEPT !.left = @ \ {t}, !.row = t, !.got = @ \union {t}])
          /\ taskState' = [taskState EXCEPT ![t] = "Running"]
          /\ assignedAgent' = [assignedAgent EXCEPT ![t] = call[h].agent]
    /\ ForgetLate
    /\ UNCHANGED <<agentVars, openRows, transactions, sweep, cut>>

\* update_one with the filter of find() again: a candidate that another poll, a
\* cancel or a report took in the meantime is skipped.
TryAssign(h) ==
    /\ call[h].op = "assign" /\ call[h].row = NoTask
    /\ \E t \in call[h].left :
          \/ /\ taskState[t] = "Queued" /\ assignedAgent[t] = NoAgent
             /\ Become(h, [call[h] EXCEPT !.left = @ \ {t}, !.row = t, !.got = @ \union {t}])
             /\ taskState' = [taskState EXCEPT ![t] = "Running"]
             /\ assignedAgent' = [assignedAgent EXCEPT ![t] = call[h].agent]
          \/ /\ ~(taskState[t] = "Queued" /\ assignedAgent[t] = NoAgent)
             /\ Become(h, [call[h] EXCEPT !.left = @ \ {t}])
             /\ UNCHANGED <<taskState, assignedAgent>>
    /\ ForgetLate
    /\ UNCHANGED <<agentVars, openRows, transactions, sweep, cut>>

\* Rows of one task and agent are not counted here: no statement reads them apart.
InsertRow(h) ==
    /\ call[h].op = "assign" /\ call[h].row # NoTask
    /\ openRows' = [openRows EXCEPT ![call[h].row][call[h].agent] = 1]
    /\ Become(h, [call[h] EXCEPT !.row = NoTask])
    /\ UNCHANGED <<agentVars, taskState, assignedAgent, transactions, sweep, history>>

FinishPoll(h) ==
    /\ call[h].op = "assign" /\ call[h].row = NoTask /\ call[h].left = {}
    /\ agentStatus' = [agentStatus EXCEPT ![call[h].agent] =
                          IF call[h].got = {} THEN "Idle" ELSE "Busy"]
    /\ Become(h, Free)
    /\ UNCHANGED <<overdue, taskVars, transactions, sweep, history>>

-----------------------------------------------------------------------------
(* Reports and cancels *)

IsValidTaskStateTransition(from, to) ==
    \/ from = to
    \/ from = "Queued" /\ to \in {"Running", "Canceled"}
    \/ from = "Running" /\ to \in TerminalStates

\* HandleUpdateTaskStatus reads the task and checks the transition first.
AcceptReport(h, t, to) ==
    /\ call[h] = Free
    /\ TaskExists(t)
    /\ IsValidTaskStateTransition(taskState[t], to)
    /\ Become(h, [op |-> "report", task |-> t, to |-> to])
    /\ UNCHANGED <<dbVars, transactions, sweep, history>>

\* The document is updated by its id, whatever its state is now; only then are the
\* open rows closed.  Of a write that is done and not answered, a commit in doubt
\* included, the handler learns an exception: ExecuteWithRetry runs the update once
\* more, without the check, and the call stays where it is.
WriteReport(h) ==
    /\ call[h].op = "report"
    /\ LET t == call[h].task
           to == call[h].to
       IN  /\ late' = IF IsValidTaskStateTransition(taskState[t], to) THEN late
                      ELSE late \union {t}
           /\ \/ /\ transactions
                 /\ UpdateTaskStatus(t, to)
                 /\ call' = call \/ Become(h, Free)
              \/ /\ ~transactions
                 /\ taskState' = [taskState EXCEPT ![t] = to]
                 /\ \/ call' = call
                    \/ to \in TerminalStates /\ Become(h, [call[h] EXCEPT !.op = "close"])
                    \/ to \notin TerminalStates /\ Become(h, Free)
                 /\ UNCHANGED <<agentVars, assignedAgent, openRows>>
    /\ UNCHANGED <<transactions, sweep, cut>>

\* The statement that closes the rows throws, done or not: the retry writes the
\* state again first, and the handler's check is not passed again.
RetryReport(h) ==
    /\ call[h].op = "close"
    /\ \/ UNCHANGED openRows
       \/ CloseRowsOf(call[h].task)
    /\ Become(h, [call[h] EXCEPT !.op = "report"])
    /\ UNCHANGED <<agentVars, taskState, assignedAgent, transactions, sweep, history>>

TxCancel(t) ==
    /\ transactions
    /\ TaskExists(t) /\ ~IsTerminal(t)
    /\ CancelTask(t)
    /\ UNCHANGED <<transactions, call, sweep, history>>

FindForCancel(h, t) ==
    /\ ~transactions
    /\ call[h] = Free
    /\ TaskExists(t) /\ ~IsTerminal(t)
    /\ Become(h, [op |-> "cancel", task |-> t])
    /\ UNCHANGED <<dbVars, transactions, sweep, history>>

WriteCancel(h) ==
    /\ call[h].op = "cancel"
    /\ taskState' = [taskState EXCEPT ![call[h].task] = "Canceled"]
    /\ Become(h, [op |-> "free_rows", task |-> call[h].task])
    /\ UNCHANGED <<agentVars, assignedAgent, openRows, transactions, sweep, history>>

CloseRows(h) ==
    /\ call[h].op \in {"close", "free_rows"}
    /\ CloseRowsOf(call[h].task)
    /\ Become(h, Free)
    /\ UNCHANGED <<agentVars, taskState, assignedAgent, transactions, sweep, history>>

-----------------------------------------------------------------------------
(* The sweep *)

TxSweep ==
    /\ transactions
    /\ MarkOfflineAgentsAndRequeue
    /\ ForgetLate
    /\ UNCHANGED <<transactions, call, sweep, cut>>

ListOffline ==
    /\ ~transactions
    /\ sweep = NoSweep
    /\ Unresponsive # {}
    /\ sweep' = [NoSweep EXCEPT !.todo = Unresponsive]
    /\ UNCHANGED <<dbVars, transactions, call, history>>

\* The agent is updated by its id: whether it was heard since is not looked at.
SetOffline ==
    /\ sweep.next = "agent"
    /\ \E a \in sweep.todo :
          /\ agentStatus' = [agentStatus EXCEPT ![a] = "Offline"]
          /\ sweep' = [todo |-> sweep.todo \ {a}, agent |-> a, next |-> "rows"]
    /\ UNCHANGED <<overdue, taskVars, transactions, call, history>>

CloseAgentRows ==
    /\ sweep.next = "rows"
    /\ openRows' = [t \in Tasks |-> [openRows[t] EXCEPT ![sweep.agent] = 0]]
    /\ sweep' = [sweep EXCEPT !.next = "tasks"]
    /\ UNCHANGED <<agentVars, taskState, assignedAgent, transactions, call, history>>

\* The tasks of a that the sweep puts back in the queue.
TasksOf(a) == {t \in Tasks : assignedAgent[t] = a /\ taskState[t] \in {"Running", "Queued"}}

\* Mutant of RequeueTasks: only the tasks that still have an open row.
RequeueByRows ==
    /\ sweep.next = "tasks"
    /\ LET R == {t \in TasksOf(sweep.agent) : openRows[t][sweep.agent] > 0}
       IN  /\ taskState' = [t \in Tasks |-> IF t \in R THEN "Queued" ELSE taskState[t]]
           /\ assignedAgent' = [t \in Tasks |-> IF t \in R THEN NoAgent ELSE assignedAgent[t]]
    /\ sweep' = [sweep EXCEPT !.agent = NoAgent, !.next = "agent"]
    /\ ForgetLate
    /\ UNCHANGED <<agentVars, openRows, transactions, call, cut>>

RequeueTasks ==
    /\ sweep.next = "tasks"
    /\ LET R == TasksOf(sweep.agent)
       IN  /\ taskState' = [t \in Tasks |-> IF t \in R THEN "Queued" ELSE taskState[t]]
           /\ assignedAgent' = [t \in Tasks |-> IF t \in R THEN NoAgent ELSE assignedAgent[t]]
    /\ sweep' = [sweep EXCEPT !.agent = NoAgent, !.next = "agent"]
    /\ ForgetLate
    /\ UNCHANGED <<agentVars, openRows, transactions, call, cut>>

-----------------------------------------------------------------------------
(* Failures *)

PolledBy(c) == IF c.op \in {"find", "assign"} THEN {c.agent} ELSE {}

\* A statement of h throws, and ExecuteWithRetry gives up or starts the operation
\* over.  A poll or a cancel that starts over reads again: it is the same operation
\* anew.  A report stays where it is, or goes back by RetryReport.
CallFails(h) ==
    /\ call[h] # Free
    /\ Become(h, Free)
    /\ cut' = cut \union PolledBy(call[h])
    /\ UNCHANGED <<dbVars, transactions, sweep, late>>

\* A statement of the sweep throws: the next sweep, or the next attempt of this
\* one, lists the agents again.
SweepFails ==
    /\ sweep # NoSweep
    /\ sweep' = NoSweep
    /\ cut' = cut \union ({sweep.agent} \ {NoAgent})
    /\ UNCHANGED <<dbVars, transactions, call, late>>

Restart ==
    /\ sweep # NoSweep \/ \E h \in Handlers : call[h] # Free
    /\ call' = [h \in Handlers |-> Free]
    /\ sweep' = NoSweep
    /\ cut' = cut \union ({sweep.agent} \ {NoAgent})
                  \union UNION {PolledBy(call[h]) : h \in Handlers}
    /\ UNCHANGED <<dbVars, transactions, late>>

Age(a) == HeartbeatExpires(a) /\ UNCHANGED <<transactions, call, sweep, history>>

SweepStep == TxSweep \/ ListOffline \/ SetOffline \/ CloseAgentRows \/ RequeueTasks

HandlerStep(h) ==
    \/ FindCandidates(h) \/ TryAssign(h) \/ InsertRow(h) \/ FinishPoll(h)
    \/ WriteReport(h) \/ RetryReport(h) \/ WriteCancel(h) \/ CloseRows(h)

MongoNext ==
    \/ \E a \in Agents : Register(a) \/ Age(a)
    \/ \E a \in Agents, s \in {"Idle", "Busy"} : Heartbeat(a, s)
    \/ \E t \in Tasks : Create(t) \/ TxCancel(t)
    \/ \E a \in Agents, n \in FreeSlots : TxPoll(a, n)
    \/ \E h \in Handlers, a \in Agents, n \in FreeSlots : StartPoll(h, a, n)
    \/ \E h \in Handlers, t \in Tasks, to \in ReportStates : AcceptReport(h, t, to)
    \/ \E h \in Handlers, t \in Tasks : FindForCancel(h, t)
    \/ \E h \in Handlers : HandlerStep(h) \/ CallFails(h)
    \/ SweepStep
    \/ SweepFails
    \/ Restart

MongoSpec == MongoInit /\ [][MongoNext]_mongoVars

-----------------------------------------------------------------------------
(* Properties *)

\* With transactions, what module ControlService promises of the assignment rows
\* holds again, races of reports and sweeps included.
TransactionsKeepLeases ==
    transactions =>
        \A t \in Tasks, a \in Agents :
            /\ openRows[t][a] \leq 1
            /\ openRows[t][a] > 0 =>
                  /\ assignedAgent[t] = a /\ taskState[t] = "Running"
                  /\ agentStatus[a] # "Offline"

Sweeping(a) == sweep.agent = a
Polling(a) == \E h \in Handlers : a \in PolledBy(call[h])

\* Where a task runs on an Offline agent no later sweep finds it.  That happens only
\* while a sweep or a poll of that agent is on its way, because one was cut short, or
\* because a report written late has made it Running: a worker's running report that
\* was checked before a cancel and written after the sweep, on either server.
StrandedByCutOrLateReport ==
    \A t \in Tasks :
        LET a == assignedAgent[t]
        IN  taskState[t] = "Running" /\ a # NoAgent /\ agentStatus[a] = "Offline" =>
                Sweeping(a) \/ Polling(a) \/ a \in cut \/ t \in late

\* Read from the documents of tasks alone, leases are granted, ended and expire as
\* the lease table promises, on either server, whatever fails and whatever reports
\* arrive: two polls never take one task, and no task passes from agent to agent.
\* A lease that a report has ended does not come back by a late report, which may
\* make its document Running again: it is no lease, and only a sweep puts it back.
taskHolder == [t \in Tasks |->
    IF taskState[t] = "Running" /\ t \notin late THEN assignedAgent[t] ELSE NoAgent]

queued == {t \in Tasks : taskState[t] = "Queued" /\ assignedAgent[t] = NoAgent}

Lease == INSTANCE AssignmentLease WITH holder <- taskHolder, waiting <- queued

MongoImplementsLease == Lease!Spec

\* "Tasks of an offline agent return to the queue" (architecture.md section 6): no
\* task is left Running on an agent that is silent and already Offline.
OfflineAgentRunsNothing ==
    (sweep = NoSweep /\ \A h \in Handlers : call[h] = Free) =>
        \A t \in Tasks :
            LET a == assignedAgent[t]
            IN  ~ (taskState[t] = "Running" /\ a \in overdue /\ agentStatus[a] = "Offline")
=============================================================================
