------------------------------- MODULE PgLocks -------------------------------
(***************************************************************************)
(* The transactions of PgBroker below the level of module ControlService:  *)
(* statements under READ COMMITTED and the row locks they take.            *)
(*                                                                         *)
(* A statement finds its rows in what is committed when it starts and      *)
(* locks them one by one in any order.  Where another transaction holds a  *)
(* row it queues for it, and then evaluates its condition on the row       *)
(* again; the poll's SKIP LOCKED does not wait.  Locks are held until the  *)
(* end, and what a transaction writes nobody sees before.  The locks of    *)
(* foreign keys fall on rows that the inserting poll has locked itself.    *)
(*                                                                         *)
(* Transactions may wait for each other in a circle.  PostgreSQL then      *)
(* rolls one back, and ExecuteWithRetry repeats it or gives up; so it does *)
(* when the connection is lost.                                            *)
(***************************************************************************)
EXTENDS PgBroker, Sequences

CONSTANTS
    Handlers,           \* threads of the HTTP server
    Sweeper,            \* the maintenance thread
    FreeSlots,          \* the free_slots a poll may carry
    HeartbeatStatuses,  \* the statuses a heartbeat may carry
    ReportStates,       \* the states a status report may carry
    NoTask, NoRow       \* absence of a task, of a row

ASSUME LocksAssumption ==
    /\ Sweeper \notin Handlers
    /\ NoTask \notin Tasks
    /\ FreeSlots \subseteq Int
    /\ HeartbeatStatuses \subseteq AgentStatuses
    /\ ReportStates \subseteq TaskStates

VARIABLES
    tx,     \* tx[x]: the transaction that thread x has open
    queue   \* the threads that wait for a row, in the order in which they came

lockVars == <<dbVars, tx, queue>>

Threads == Handlers \union {Sweeper}

AgentRow(a) == <<"agents", a>>
TaskRow(t) == <<"tasks", t>>
LeaseRow(t, a) == <<"task_assignments", t, a>>

Rows == {AgentRow(a) : a \in Agents} \union {TaskRow(t) : t \in Tasks}
            \union {LeaseRow(t, a) : t \in Tasks, a \in Agents}

ASSUME RowAssumption == NoRow \notin Rows

\* task, agent, to and slots are the arguments; todo: the agents that the sweep has
\* yet to reach; stmt: the statement in progress, left: the rows it has found and not
\* reached, waits: the row it waits for, held: the rows locked so far.
NoTx == [op |-> "none", task |-> NoTask, agent |-> NoAgent, to |-> "Queued", slots |-> 0,
         todo |-> {}, stmt |-> "none", left |-> {}, waits |-> NoRow, held |-> {}]

Statements == {"none", "agent", "task", "leases of task",
               "agents", "leases of agent", "tasks of agent"}

Transactions ==
    [op : {"none", "report", "cancel", "poll", "sweep"}, task : Tasks \union {NoTask},
     agent : Agents \union {NoAgent}, to : TaskStates, slots : FreeSlots \union {0},
     todo : SUBSET Agents, stmt : Statements, left : SUBSET Rows,
     waits : Rows \union {NoRow}, held : SUBSET Rows]

LocksTypeOK ==
    /\ DbTypeOK
    /\ tx \in [Threads -> Transactions]
    /\ queue \in Seq(Threads)
    /\ {queue[i] : i \in DOMAIN queue} = {x \in Threads : tx[x].waits # NoRow}
    /\ \A x, y \in Threads : x # y => tx[x].held \intersect tx[y].held = {}

LocksInit ==
    /\ DbInit
    /\ tx = [x \in Threads |-> NoTx]
    /\ queue = <<>>

Open(x) == tx[x].op # "none"

\* Queue q without x, who is in it once.
Without(q, x) ==
    LET i == CHOOSE i \in DOMAIN q : q[i] = x
    IN  [j \in 1 .. Len(q) - 1 |-> IF j < i THEN q[j] ELSE q[j + 1]]

\* x goes on with c, and stays in the queue as long as it waits.
Becomes(x, c) ==
    /\ tx' = [tx EXCEPT ![x] = c]
    /\ queue' = IF c.waits = tx[x].waits THEN queue
                ELSE IF c.waits # NoRow THEN Append(queue, x)
                ELSE Without(queue, x)
HeldFor(x, r) == \E y \in Threads \ {x} : r \in tx[y].held
\* Held by another, or another was there first.
TakenFor(x, r) == HeldFor(x, r) \/ \E y \in Threads \ {x} : tx[y].waits = r
\* x is the first that waits for its row.
IsFirst(x) ==
    \E i \in DOMAIN queue :
        queue[i] = x /\ \A j \in 1 .. i - 1 : tx[queue[j]].waits # tx[x].waits

-----------------------------------------------------------------------------
(* Statements *)

LeaseRowsOf(t) == {LeaseRow(t, a) : a \in {b \in Agents : openRows[t][b] > 0}}

\* Mutant of TaskRowOf: one statement updates the task and its assignments.
TaskAndLeaseRows(t) == {TaskRow(t)} \union LeaseRowsOf(t)

\* WHERE task_id = ...
TaskRowOf(t) == {TaskRow(t)}

\* The rows that the condition of statement s of transaction c selects.
Matching(c, s) ==
    CASE s = "none" -> {}
      [] s = "agent" -> {AgentRow(c.agent)}
      [] s = "task" -> TaskRowOf(c.task)
      [] s = "leases of task" -> LeaseRowsOf(c.task)
      [] s = "agents" -> {AgentRow(a) : a \in Unresponsive}
      [] s = "leases of agent" ->
            {LeaseRow(t, c.agent) : t \in {u \in Tasks : openRows[u][c.agent] > 0}}
      [] s = "tasks of agent" ->
            {TaskRow(t) : t \in {u \in Tasks : /\ assignedAgent[u] = c.agent
                                               /\ taskState[u] \in {"Running", "Queued"}}}

Statement(c, s) == [c EXCEPT !.stmt = s, !.left = Matching(c, s)]

\* Mutant of Take: the condition is not evaluated again after the wait.
TakeUnchecked(c, r) ==
    [c EXCEPT !.left = @ \ {r}, !.waits = NoRow, !.held = @ \union {r}]

\* The row is free now: it is locked if it still matches.
Take(c, r) ==
    [c EXCEPT !.left = @ \ {r}, !.waits = NoRow,
              !.held = IF r \in Matching(c, c.stmt) THEN @ \union {r} ELSE @]

LockRow(x) ==
    /\ \/ /\ tx[x].waits = NoRow
          /\ \E r \in tx[x].left : ~TakenFor(x, r) /\ Becomes(x, Take(tx[x], r))
       \/ /\ tx[x].waits # NoRow
          /\ ~HeldFor(x, tx[x].waits) /\ IsFirst(x)
          /\ Becomes(x, Take(tx[x], tx[x].waits))
    /\ UNCHANGED dbVars

WaitForRow(x) ==
    /\ tx[x].waits = NoRow
    /\ \E r \in tx[x].left : TakenFor(x, r) /\ Becomes(x, [tx[x] EXCEPT !.waits = r])
    /\ UNCHANGED dbVars

\* The statement is through.
Done(x, s) == tx[x].stmt = s /\ tx[x].left = {} /\ tx[x].waits = NoRow

-----------------------------------------------------------------------------
(* Transactions of one statement hold nothing while they wait. *)

RowIsFree(r) == \A x \in Threads : r \notin tx[x].held /\ tx[x].waits # r

Register(a) == RowIsFree(AgentRow(a)) /\ UpsertAgent(a) /\ UNCHANGED <<tx, queue>>

Heartbeat(a, s) == RowIsFree(AgentRow(a)) /\ UpdateHeartbeat(a, s) /\ UNCHANGED <<tx, queue>>

Create(t) == CreateTask(t) /\ UNCHANGED <<tx, queue>>

-----------------------------------------------------------------------------
(* Reports and cancels: the task's row by its id, then its open assignments *)

\* GetTask and the check of the handler, in a transaction of their own, come before.
BeginReport(h, t, to) ==
    /\ ~Open(h)
    /\ TaskExists(t)
    /\ \/ taskState[t] = to
       \/ taskState[t] = "Queued" /\ to \in {"Running", "Canceled"}
       \/ taskState[t] = "Running" /\ to \in TerminalStates
    /\ Becomes(h, Statement([NoTx EXCEPT !.op = "report", !.task = t, !.to = to], "task"))
    /\ UNCHANGED dbVars

\* The SELECT takes no lock.
BeginCancel(h, t) ==
    /\ ~Open(h)
    /\ TaskExists(t) /\ ~IsTerminal(t)
    /\ Becomes(h, Statement([NoTx EXCEPT !.op = "cancel", !.task = t, !.to = "Canceled"], "task"))
    /\ UNCHANGED dbVars

CloseLeases(h) ==
    /\ Done(h, "task") /\ tx[h].to \in TerminalStates
    /\ Becomes(h, Statement(tx[h], "leases of task"))
    /\ UNCHANGED dbVars

\* A commit that is not acknowledged is an exception: a report is written again, a
\* cancel looks at the state again, which is another cancel.
CommitWrite(h) ==
    /\ tx[h].op \in {"report", "cancel"}
    /\ Done(h, IF tx[h].to \in TerminalStates THEN "leases of task" ELSE "task")
    /\ taskState' = [t \in Tasks |-> IF TaskRow(t) \in tx[h].held THEN tx[h].to ELSE taskState[t]]
    /\ openRows' = [t \in Tasks |-> [a \in Agents |->
           IF LeaseRow(t, a) \in tx[h].held THEN 0 ELSE openRows[t][a]]]
    /\ \/ Becomes(h, NoTx)
       \/ /\ tx[h].op = "report"
          /\ Becomes(h, [NoTx EXCEPT !.op = "report", !.task = tx[h].task, !.to = tx[h].to,
                                     !.stmt = "task", !.left = {TaskRow(tx[h].task)}])
    /\ UNCHANGED <<agentVars, assignedAgent>>

-----------------------------------------------------------------------------
(* Polls *)

\* Without a free slot the heartbeat is all there is.
PollNothing(a) ==
    /\ RowIsFree(AgentRow(a))
    /\ \E n \in FreeSlots : n <= 0 /\ PollTasksForAgent(a, n)
    /\ UNCHANGED <<tx, queue>>

BeginPoll(h, a, n) ==
    /\ ~Open(h)
    /\ AgentExists(a) /\ n > 0
    /\ Becomes(h, Statement([NoTx EXCEPT !.op = "poll", !.agent = a, !.slots = n], "agent"))
    /\ UNCHANGED dbVars

\* Mutant of SelectTasks: the SELECT without FOR UPDATE.
SelectUnlocked(h) ==
    /\ tx[h].op = "poll" /\ Done(h, "agent")
    /\ \E S \in SUBSET Dispatchable(tx[h].agent) :
          /\ Cardinality(S) <= tx[h].slots
          /\ Becomes(h, [tx[h] EXCEPT !.stmt = "none", !.held = @ \union {TaskRow(t) : t \in S}])
    /\ UNCHANGED dbVars

\* SELECT ... FOR UPDATE SKIP LOCKED LIMIT free_slots.
SelectTasks(h) ==
    /\ tx[h].op = "poll" /\ Done(h, "agent")
    /\ LET F == {t \in Dispatchable(tx[h].agent) : ~TakenFor(h, TaskRow(t))}
           n == IF tx[h].slots < Cardinality(F) THEN tx[h].slots ELSE Cardinality(F)
       IN  \E S \in SUBSET F :
              /\ Cardinality(S) = n
              /\ Becomes(h, [tx[h] EXCEPT !.stmt = "none",
                                          !.held = @ \union {TaskRow(t) : t \in S}])
    /\ UNCHANGED dbVars

\* The tasks and the agent are locked: the updates and inserts that follow wait for
\* nothing.
CommitPoll(h) ==
    /\ tx[h].op = "poll" /\ Done(h, "none")
    /\ Dispatch(tx[h].agent, {t \in Tasks : TaskRow(t) \in tx[h].held})
    /\ overdue' = overdue \ {tx[h].agent}
    /\ Becomes(h, NoTx)

-----------------------------------------------------------------------------
(* The sweep *)

BeginSweep ==
    /\ ~Open(Sweeper)
    /\ Unresponsive # {}
    /\ Becomes(Sweeper, Statement([NoTx EXCEPT !.op = "sweep"], "agents"))
    /\ UNCHANGED dbVars

\* Every agent found was heard while the sweep waited for its row.
SweepNobody ==
    /\ Done(Sweeper, "agents")
    /\ tx[Sweeper].held = {}
    /\ Becomes(Sweeper, NoTx)
    /\ UNCHANGED dbVars

\* One agent after the other.
SweepAgent ==
    /\ Done(Sweeper, "agents") \/ Done(Sweeper, "tasks of agent")
    /\ LET A == IF tx[Sweeper].stmt = "agents"
                THEN {a \in Agents : AgentRow(a) \in tx[Sweeper].held} ELSE tx[Sweeper].todo
       IN  \E a \in A :
              Becomes(Sweeper, Statement([tx[Sweeper] EXCEPT !.todo = A \ {a}, !.agent = a],
                                         "leases of agent"))
    /\ UNCHANGED dbVars

SweepTasks ==
    /\ Done(Sweeper, "leases of agent")
    /\ Becomes(Sweeper, Statement(tx[Sweeper], "tasks of agent"))
    /\ UNCHANGED dbVars

CommitSweep ==
    /\ Done(Sweeper, "tasks of agent")
    /\ tx[Sweeper].todo = {}
    /\ LET held == tx[Sweeper].held
       IN  /\ agentStatus' = [a \in Agents |->
                  IF AgentRow(a) \in held THEN "Offline" ELSE agentStatus[a]]
           /\ openRows' = [t \in Tasks |-> [a \in Agents |->
                  IF LeaseRow(t, a) \in held THEN 0 ELSE openRows[t][a]]]
           /\ taskState' = [t \in Tasks |->
                  IF TaskRow(t) \in held THEN "Queued" ELSE taskState[t]]
           /\ assignedAgent' = [t \in Tasks |->
                  IF TaskRow(t) \in held THEN NoAgent ELSE assignedAgent[t]]
    /\ Becomes(Sweeper, NoTx)
    /\ UNCHANGED overdue

-----------------------------------------------------------------------------
(* Deadlocks, lost connections and time *)

Waiting == {x \in Threads : tx[x].waits # NoRow}

\* Each of the threads in S waits for another of them.
Circle(S) ==
    /\ S # {}
    /\ \A x \in S : \E y \in S \ {x} : tx[x].waits \in tx[y].held

Deadlocked(x) ==
    \E S \in SUBSET Waiting :
        /\ x \in S /\ Circle(S)
        /\ \A Z \in SUBSET S : Circle(Z) => Z = S

\* The transaction is rolled back.  The next attempt of a report starts with the
\* task's row; a cancel and the sweep start over, or come to an end.
Abort(x) ==
    /\ \/ Becomes(x, NoTx)
       \/ /\ tx[x].op = "report"
          /\ Becomes(x, Statement([NoTx EXCEPT !.op = "report", !.task = tx[x].task,
                                               !.to = tx[x].to], "task"))
    /\ UNCHANGED dbVars

RollBack(x) == Deadlocked(x) /\ Abort(x)

LoseConnection(x) == Open(x) /\ Abort(x) /\ ~Deadlocked(x)

\* The cutoff is computed once, when the sweep starts: nobody falls behind it later.
Age(a) == ~Open(Sweeper) /\ HeartbeatExpires(a) /\ UNCHANGED <<tx, queue>>

HandlerStep(h) ==
    \/ LockRow(h) \/ WaitForRow(h) \/ RollBack(h)
    \/ CloseLeases(h) \/ CommitWrite(h) \/ SelectTasks(h) \/ CommitPoll(h)

SweepStep ==
    \/ BeginSweep \/ SweepNobody \/ SweepAgent \/ SweepTasks \/ CommitSweep
    \/ LockRow(Sweeper) \/ WaitForRow(Sweeper) \/ RollBack(Sweeper)

LocksNext ==
    \/ \E a \in Agents : Register(a) \/ PollNothing(a) \/ Age(a)
    \/ \E a \in Agents, s \in HeartbeatStatuses : Heartbeat(a, s)
    \/ \E t \in Tasks : Create(t)
    \/ \E h \in Handlers, t \in Tasks, to \in ReportStates : BeginReport(h, t, to)
    \/ \E h \in Handlers, t \in Tasks : BeginCancel(h, t)
    \/ \E h \in Handlers, a \in Agents, n \in FreeSlots : BeginPoll(h, a, n)
    \/ \E h \in Handlers : HandlerStep(h)
    \/ SweepStep
    \/ \E x \in Threads : LoseConnection(x)

LocksSpec == LocksInit /\ [][LocksNext]_lockVars

\* Threads go on, and connections are not lost for ever.
LocksFairSpec ==
    /\ LocksSpec
    /\ WF_lockVars(SweepStep)
    /\ \A h \in Handlers : WF_lockVars(HandlerStep(h))
    /\ <>[][\A x \in Threads : ~LoseConnection(x)]_lockVars

-----------------------------------------------------------------------------
(* Properties *)

PendingOf(c) ==
    CASE c.op = "report" -> [op |-> "report", task |-> c.task, to |-> c.to]
      [] c.op = "cancel" -> [op |-> "cancel", task |-> c.task]
      [] OTHER -> [op |-> "idle"]

pending == [h \in Handlers |-> PendingOf(tx[h])]

Service == INSTANCE ControlService WITH call <- pending

\* A sweep that misses tasks of the agents it sweeps, none of them leased: a "running"
\* report may revive a finished task behind the snapshot of the sweep's last statement.
PartialSweep ==
    /\ Unresponsive # {}
    /\ agentStatus' = [a \in Agents |->
           IF a \in Unresponsive THEN "Offline" ELSE agentStatus[a]]
    /\ openRows' = [t \in Tasks |-> [a \in Agents |->
           IF a \in Unresponsive THEN 0 ELSE openRows[t][a]]]
    /\ \E Q \in SUBSET Requeued :
          /\ \A t \in Requeued : (\E a \in Agents : openRows[t][a] > 0) => t \in Q
          /\ taskState' = [t \in Tasks |-> IF t \in Q THEN "Queued" ELSE taskState[t]]
          /\ assignedAgent' = [t \in Tasks |-> IF t \in Q THEN NoAgent ELSE assignedAgent[t]]
    /\ UNCHANGED <<overdue, pending>>

\* Statement by statement, with locks, stale snapshots, deadlocks and lost connections,
\* the transactions do what ControlService takes for single steps, whatever the reports
\* carry; the sweep alone may do less, and it never misses a task that is leased.
LocksImplementService ==
    Service!Init /\ [][Service!Next \/ PartialSweep]_(Service!vars)

\* Requests alone never deadlock, polls and waiting requests not even with the sweep: in a
\* circle are the sweep and one report or cancel that has its task's row already.
DeadlockTakesSweepAndWriter ==
    \A x \in Threads : Deadlocked(x) =>
        \/ x = Sweeper
        \/ tx[x].stmt = "leases of task" /\ Deadlocked(Sweeper)

\* Whoever PostgreSQL rolls back, the lease of a silent agent ends, unless it is heard.
LeaseEndsDespiteDeadlock ==
    \A t \in Tasks, a \in Agents :
        (openRows[t][a] > 0 /\ a \in overdue) ~> (openRows[t][a] = 0 \/ a \notin overdue)
=============================================================================
