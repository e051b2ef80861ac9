--------------------------- MODULE LocksRefinement ---------------------------
(***************************************************************************)
(* The transactions of PgLocks, statement by statement, do what            *)
(* ControlService takes for single steps, but for sweeps that miss a task  *)
(* a report has revived: proof of the refinement.                          *)
(***************************************************************************)
EXTENDS LocksLeases

-----------------------------------------------------------------------------
(* What ControlService sees of a step *)

LEMMA PendingOfWrites ==
    ASSUME NEW c
    PROVE  /\ c.op = "report" => PendingOf(c) = [op |-> "report", task |-> c.task, to |-> c.to]
           /\ c.op = "cancel" => PendingOf(c) = [op |-> "cancel", task |-> c.task]
           /\ c.op \notin {"report", "cancel"} => PendingOf(c) = [op |-> "idle"]
BY DEF PendingOf

LEMMA PendingMoves ==
    ASSUME LockInv, NEW h \in Handlers, NEW CONSTANT c, Becomes(h, c)
    PROVE  pending' = [pending EXCEPT ![h] = PendingOf(c)]
<1>1. tx' = [tx EXCEPT ![h] = c] /\ tx \in [Threads -> Transactions] /\ Handlers \subseteq Threads
      BY DEF Becomes, LockInv, Threads
<1>2. \A g \in Handlers : tx'[g] = IF g = h THEN c ELSE tx[g]
      BY <1>1
<1>3. \A g \in Handlers : PendingOf(tx'[g]) = IF g = h THEN PendingOf(c) ELSE PendingOf(tx[g])
      BY <1>2
<1>4. pending' = [g \in Handlers |-> PendingOf(tx'[g])]
      BY DEF pending, PendingOf
<1> QED BY <1>3, <1>4 DEF pending

\* The operation of a handler, with its arguments, is still the same.
LEMMA PendingStays ==
    ASSUME LockInv, NEW x \in Threads, NEW CONSTANT c, Becomes(x, c),
           x \in Handlers => PendingOf(c) = PendingOf(tx[x])
    PROVE  UNCHANGED pending
<1>1. CASE x \in Handlers
  <2>1. pending[x] = PendingOf(tx[x])
        BY <1>1 DEF pending
  <2>2. pending' = [pending EXCEPT ![x] = pending[x]]
        BY <1>1, <2>1, PendingMoves
  <2> QED BY <2>2 DEF pending
<1>2. CASE x = Sweeper
  <2>1. \A g \in Handlers : tx'[g] = tx[g]
        BY <1>2, LocksAssumption DEF Becomes, LockInv, Threads
  <2>2. pending' = [g \in Handlers |-> PendingOf(tx'[g])]
        BY DEF pending, PendingOf
  <2> QED BY <2>1, <2>2 DEF pending
<1> QED BY <1>1, <1>2 DEF Threads

SameCall(c, d) == c.op = d.op /\ c.task = d.task /\ c.to = d.to

LEMMA SameCallSamePending == ASSUME NEW c, NEW d, SameCall(c, d) PROVE PendingOf(c) = PendingOf(d)
BY DEF SameCall, PendingOf

\* A step that writes nothing and goes on with the same call is not seen.
LEMMA Unseen ==
    ASSUME LockInv, NEW x \in Threads, NEW CONSTANT c, Becomes(x, c), UNCHANGED dbVars,
           x \in Handlers => SameCall(c, tx[x]) \/ {c.op, tx[x].op} \subseteq {"poll", "none"}
    PROVE  UNCHANGED Service!vars
<1>1. x \in Handlers => PendingOf(c) = PendingOf(tx[x])
      BY SameCallSamePending, PendingOfWrites
<1>2. UNCHANGED pending
      BY <1>1, PendingStays
<1> QED BY <1>2 DEF Service!vars, Service!dbVars, dbVars

LEMMA LockingUnseen ==
    ASSUME LockInv, NEW x \in Threads, LockRow(x) \/ WaitForRow(x)
    PROVE  UNCHANGED Service!vars
<1>1. tx[x] \in Transactions
      BY DEF LockInv
<1>2. CASE LockRow(x)
  <2>1. PICK r : Becomes(x, Take(tx[x], r)) /\ UNCHANGED dbVars
        BY <1>2 DEF LockRow
  <2>2. SameCall(Take(tx[x], r), tx[x])
        BY <1>1, TakeFields DEF SameCall
  <2> QED BY <2>1, <2>2, Unseen
<1>3. CASE WaitForRow(x)
  <2>1. PICK r : Becomes(x, [tx[x] EXCEPT !.waits = r]) /\ UNCHANGED dbVars
        BY <1>3 DEF WaitForRow
  <2>2. SameCall([tx[x] EXCEPT !.waits = r], tx[x])
        BY <1>1 DEF SameCall, Transactions
  <2> QED BY <2>1, <2>2, Unseen
<1> QED BY <1>2, <1>3

LEMMA StatementsUnseen ==
    ASSUME LockInv, DbTypeOK, NEW h \in Handlers,
           \/ CloseLeases(h) \/ SelectTasks(h)
           \/ \E a \in Agents, n \in FreeSlots : BeginPoll(h, a, n)
    PROVE  UNCHANGED Service!vars
<1>1. tx[h] \in Transactions /\ h \in Threads /\ h # Sweeper /\ Sound(h, tx[h])
      BY LocksAssumption DEF LockInv, Threads
<1>2. CASE CloseLeases(h)
  <2> DEFINE d == Statement(tx[h], "leases of task")
  <2>1. Becomes(h, d) /\ UNCHANGED dbVars /\ tx[h].stmt = "task"
        BY <1>2 DEF CloseLeases, Done
  <2>2. tx[h].task \in Tasks
        BY <1>1, <2>1 DEF Sound, InOrder, WriterInOrder, PollInOrder, FreeTx
  <2>3. SameCall(d, tx[h])
        BY <1>1, <2>2, StatementTyped DEF SameCall, Statements
  <2> QED BY <1>1, <2>1, <2>3, Unseen
<1>3. CASE SelectTasks(h)
  <2>1. PICK S : Becomes(h, [tx[h] EXCEPT !.stmt = "none", !.held = @ \union {TaskRow(t) : t \in S}])
        BY <1>3 DEF SelectTasks
  <2>2. SameCall([tx[h] EXCEPT !.stmt = "none", !.held = @ \union {TaskRow(t) : t \in S}], tx[h])
        BY <1>1 DEF SameCall, Transactions
  <2> QED BY <1>1, <1>3, <2>1, <2>2, Unseen DEF SelectTasks
<1>4. ASSUME NEW a \in Agents, NEW n \in FreeSlots, BeginPoll(h, a, n) PROVE UNCHANGED Service!vars
  <2> DEFINE b == [NoTx EXCEPT !.op = "poll", !.agent = a, !.slots = n]  c == Statement(b, "agent")
  <2>1. tx[h].op = "none" /\ Becomes(h, c) /\ UNCHANGED dbVars
        BY <1>4 DEF BeginPoll, Open
  <2>2. b \in Transactions /\ b.op = "poll" /\ b.agent = a
        BY DEF NoTx, Transactions, TaskStates, Statements
  <2> HIDE DEF b
  <2>3. c.op = "poll"
        BY <2>2, StatementTyped DEF Statements
  <2> HIDE DEF c
  <2> QED BY <1>1, <2>1, <2>3, Unseen
<1> QED BY <1>2, <1>3, <1>4

LEMMA SweepUnseen ==
    ASSUME LockInv,
           BeginSweep \/ SweepNobody \/ SweepAgent \/ SweepTasks \/ Abort(Sweeper)
    PROVE  UNCHANGED Service!vars
<1>1. Sweeper \in Threads /\ Sweeper \notin Handlers
      BY LocksAssumption DEF Threads
<1>2. PICK c : Becomes(Sweeper, c) /\ UNCHANGED dbVars
      BY DEF BeginSweep, SweepNobody, SweepAgent, SweepTasks, Abort
<1> QED BY <1>1, <1>2, Unseen

-----------------------------------------------------------------------------
(* The steps that ControlService sees *)

LEMMA AgentsSeen ==
    ASSUME NEW a \in Agents, Register(a) \/ PollNothing(a) \/ Age(a)
    PROVE  Service!Next
<1>1. CASE Register(a)
  <2>1. Service!HandleUpsertAgent(a)
        BY <1>1 DEF Register, UpsertAgent, taskVars, pending,
                    Service!HandleUpsertAgent, Service!UpsertAgent, Service!taskVars
  <2> QED BY <2>1 DEF Service!Next
<1>2. CASE PollNothing(a)
  <2>1. PICK n \in FreeSlots : n <= 0 /\ PollTasksForAgent(a, n)
        BY <1>2 DEF PollNothing
  <2>2. AgentExists(a) /\ overdue' = overdue \ {a} /\ UNCHANGED <<agentStatus, taskVars>>
        BY <2>1, LocksAssumption DEF PollTasksForAgent
  <2>3. UNCHANGED pending
        BY <1>2 DEF PollNothing, pending
  <2>4. Service!HandlePollTasks(a, n)
        BY <2>1, <2>2, <2>3 DEF AgentExists, taskVars, Service!HandlePollTasks,
               Service!PollTasksForAgent, Service!AgentExists, Service!taskVars
  <2> QED BY <2>4 DEF Service!Next
<1>3. CASE Age(a)
  <2>1. Service!Age(a)
        BY <1>3 DEF Age, HeartbeatExpires, AgentExists, taskVars, pending,
                    Service!Age, Service!HeartbeatExpires, Service!AgentExists, Service!taskVars
  <2> QED BY <2>1 DEF Service!Next
<1> QED BY <1>1, <1>2, <1>3

LEMMA HeartbeatSeen ==
    ASSUME NEW a \in Agents, NEW s \in HeartbeatStatuses, Heartbeat(a, s)
    PROVE  Service!Next
<1>1. Service!HandleAgentHeartbeat(a, s)
      BY DEF Heartbeat, UpdateHeartbeat, AgentExists, taskVars, pending,
             Service!HandleAgentHeartbeat, Service!UpdateHeartbeat, Service!AgentExists,
             Service!taskVars
<1> QED BY <1>1 DEF Service!Next

LEMMA CreateSeen == ASSUME NEW t \in Tasks, Create(t) PROVE Service!Next
<1>1. Service!HandleCreateTask(t)
      BY DEF Create, CreateTask, TaskExists, agentVars, pending,
             Service!HandleCreateTask, Service!CreateTask, Service!TaskExists, Service!agentVars
<1> QED BY <1>1 DEF Service!Next

\* What h has begun is nothing, for ControlService too.
LEMMA ClosedIsIdle == ASSUME NEW h \in Handlers, ~Open(h) PROVE pending[h] = Service!Idle
BY PendingOfWrites DEF Open, pending, Service!Idle

LEMMA BeginReportSeen ==
    ASSUME LockInv, DbTypeOK, NEW h \in Handlers, NEW t \in Tasks, NEW to \in ReportStates,
           BeginReport(h, t, to)
    PROVE  Service!Next
<1> DEFINE b == [NoTx EXCEPT !.op = "report", !.task = t, !.to = to]  c == Statement(b, "task")
<1>1. Becomes(h, c) /\ UNCHANGED dbVars
      BY DEF BeginReport
<1>2. b \in Transactions /\ b.op = "report" /\ b.task = t /\ b.to = to
      BY LocksAssumption DEF NoTx, Transactions, TaskStates, Statements
<1> HIDE DEF b
<1>3. c.op = "report" /\ c.task = t /\ c.to = to
      BY <1>2, StatementTyped DEF Statements
<1> HIDE DEF c
<1>4. pending' = [pending EXCEPT ![h] = [op |-> "report", task |-> t, to |-> to]]
      BY <1>1, <1>3, PendingMoves, PendingOfWrites
<1>5. pending[h] = Service!Idle
      BY ClosedIsIdle DEF BeginReport
<1>6. Service!TaskExists(t) /\ Service!IsValidTaskStateTransition(taskState[t], to)
      BY DEF BeginReport, TaskExists, TerminalStates, Service!TaskExists,
             Service!IsValidTaskStateTransition, Service!TerminalStates
<1>7. Service!CheckReport(h, t, to)
      BY <1>1, <1>4, <1>5, <1>6 DEF Service!CheckReport, Service!dbVars, dbVars
<1> QED BY <1>7 DEF Service!Next

LEMMA BeginCancelSeen ==
    ASSUME LockInv, DbTypeOK, NEW h \in Handlers, NEW t \in Tasks, BeginCancel(h, t)
    PROVE  Service!Next
<1> DEFINE b == [NoTx EXCEPT !.op = "cancel", !.task = t, !.to = "Canceled"]  c == Statement(b, "task")
<1>1. Becomes(h, c) /\ UNCHANGED dbVars
      BY DEF BeginCancel
<1>2. b \in Transactions /\ b.op = "cancel" /\ b.task = t
      BY DEF NoTx, Transactions, TaskStates, Statements
<1> HIDE DEF b
<1>3. c.op = "cancel" /\ c.task = t
      BY <1>2, StatementTyped DEF Statements
<1> HIDE DEF c
<1>4. pending' = [pending EXCEPT ![h] = [op |-> "cancel", task |-> t]]
      BY <1>1, <1>3, PendingMoves, PendingOfWrites
<1>5. pending[h] = Service!Idle
      BY ClosedIsIdle DEF BeginCancel
<1>6. Service!TaskExists(t) /\ ~Service!IsTerminal(t)
      BY DEF BeginCancel, TaskExists, IsTerminal, TerminalStates, Service!TaskExists,
             Service!IsTerminal, Service!TerminalStates
<1>7. Service!ReadForCancel(h, t)
      BY <1>1, <1>4, <1>5, <1>6 DEF Service!ReadForCancel, Service!dbVars, dbVars
<1> QED BY <1>7 DEF Service!Next

LEMMA NoTxIsIdle == PendingOf(NoTx) = Service!Idle
BY PendingOfWrites DEF NoTx, Service!Idle

LEMMA CommitWriteSeen ==
    ASSUME LockInv, DbTypeOK, WorkInv, TablesInv, NEW h \in Handlers, CommitWrite(h)
    PROVE  Service!Next
<1> DEFINE t == tx[h].task  to == tx[h].to
<1>1. /\ t \in Tasks
      /\ taskState' = [taskState EXCEPT ![t] = to]
      /\ openRows' = IF to \in TerminalStates
                     THEN [openRows EXCEPT ![t] = [a \in Agents |-> 0]] ELSE openRows
      /\ UNCHANGED <<agentVars, assignedAgent>>
      /\ tx[h].op = "cancel" => to = "Canceled"
      BY WriterCommits
<1>2. tx[h].op \in {"report", "cancel"} /\ pending[h] = PendingOf(tx[h]) /\ h \in Threads
      BY DEF CommitWrite, pending, Threads
<1>3. Becomes(h, NoTx) => pending' = [pending EXCEPT ![h] = Service!Idle]
      BY PendingMoves, NoTxIsIdle
<1>4. CASE tx[h].op = "report"
  <2>1. pending[h] = [op |-> "report", task |-> t, to |-> to]
        BY <1>2, <1>4, PendingOfWrites
  <2>2. pending' \in {pending, [pending EXCEPT ![h] = Service!Idle]}
    <3>1. CASE Becomes(h, NoTx)
          BY <1>3, <3>1
    <3>2. CASE Becomes(h, [NoTx EXCEPT !.op = "report", !.task = tx[h].task, !.to = tx[h].to,
                                       !.stmt = "task", !.left = {TaskRow(tx[h].task)}])
      <4> DEFINE c == [NoTx EXCEPT !.op = "report", !.task = tx[h].task, !.to = tx[h].to,
                                   !.stmt = "task", !.left = {TaskRow(tx[h].task)}]
      <4>1. SameCall(c, tx[h]) /\ Becomes(h, c)
            BY <1>4, <3>2 DEF SameCall, NoTx
      <4> HIDE DEF c
      <4> QED BY <1>2, <4>1, SameCallSamePending, PendingStays
    <3> QED BY <3>1, <3>2 DEF CommitWrite
  <2>3. Service!UpdateTaskStatus(t, to)
        BY <1>1 DEF agentVars, TerminalStates, Service!UpdateTaskStatus, Service!CloseRowsOf,
                    Service!TerminalStates, Service!agentVars
  <2>4. Service!WriteReport(h)
        BY <2>1, <2>2, <2>3 DEF Service!WriteReport
  <2> QED BY <2>4 DEF Service!Next
<1>5. CASE tx[h].op = "cancel"
  <2>1. pending[h] = [op |-> "cancel", task |-> t]
        BY <1>2, <1>5, PendingOfWrites
  <2>2. pending' = [pending EXCEPT ![h] = Service!Idle]
        BY <1>3, <1>5 DEF CommitWrite
  <2>3. Service!CancelTask(t)
        BY <1>1, <1>5 DEF agentVars, TerminalStates, Service!CancelTask, Service!CloseRowsOf, Service!agentVars
  <2>4. Service!WriteCancel(h)
        BY <2>1, <2>2, <2>3 DEF Service!WriteCancel
  <2> QED BY <2>4 DEF Service!Next
<1> QED BY <1>2, <1>4, <1>5

LEMMA CommitPollSeen ==
    ASSUME IsFiniteSet(Tasks), LockInv, DbTypeOK, WorkInv, TablesInv, NEW h \in Handlers, CommitPoll(h)
    PROVE  Service!Next
<1> DEFINE a == tx[h].agent  n == tx[h].slots  S == TasksIn(tx[h])
<1>1. /\ a \in Agents /\ AgentExists(a) /\ n \in FreeSlots /\ n > 0
      /\ S \subseteq Dispatchable(a) /\ Cardinality(S) <= n
      /\ Dispatch(a, S) /\ overdue' = overdue \ {a} /\ Becomes(h, NoTx)
      BY PollCommits
<1>2. UNCHANGED pending
  <2>1. h \in Threads /\ PendingOf(NoTx) = PendingOf(tx[h])
        BY PendingOfWrites DEF CommitPoll, Threads, NoTx
  <2> QED BY <1>1, <2>1, PendingStays
<1>3. Service!AgentExists(a) /\ S \in SUBSET Service!Dispatchable(a) /\ Service!Dispatch(a, S)
      BY <1>1 DEF AgentExists, Dispatchable, Dispatch,
                  Service!AgentExists, Service!Dispatchable, Service!Dispatch
<1>4. Service!Cardinality(S) = Cardinality(S)
      BY DEF Cardinality, Service!Cardinality
<1>5. Service!HandlePollTasks(a, n)
      BY <1>1, <1>2, <1>3, <1>4 DEF Service!HandlePollTasks, Service!PollTasksForAgent
<1> QED BY <1>1, <1>5 DEF Service!Next

LEMMA CommitSweepSeen ==
    ASSUME LockInv, DbTypeOK, WorkInv, TablesInv, CommitSweep PROVE PartialSweep
<1> DEFINE Q == TasksIn(tx[Sweeper])
<1>1. /\ Q \in SUBSET Requeued
      /\ \A t \in Tasks, a \in Unresponsive : openRows[t][a] > 0 => t \in Q
      /\ Unresponsive # {} /\ Becomes(Sweeper, NoTx) /\ UNCHANGED overdue
      /\ agentStatus' = [a \in Agents |-> IF a \in Unresponsive THEN "Offline" ELSE agentStatus[a]]
      /\ openRows' = [t \in Tasks |-> [a \in Agents |->
             IF a \in Unresponsive THEN 0 ELSE openRows[t][a]]]
      /\ taskState' = [t \in Tasks |-> IF t \in Q THEN "Queued" ELSE taskState[t]]
      /\ assignedAgent' = [t \in Tasks |-> IF t \in Q THEN NoAgent ELSE assignedAgent[t]]
      BY SweepCommits
<1> HIDE DEF Q
<1>2. UNCHANGED pending
      BY <1>1, LocksAssumption, PendingStays DEF Threads
<1>3. ASSUME NEW t \in Requeued, NEW a \in Agents, openRows[t][a] > 0 PROVE t \in Q
  <2>1. t \in Tasks /\ assignedAgent[t] \in Unresponsive
        BY DEF Requeued
  <2>2. assignedAgent[t] = a
        BY <1>3, <2>1 DEF TablesInv
  <2> QED BY <1>1, <1>3, <2>1, <2>2
<1> QED BY <1>1, <1>2, <1>3 DEF PartialSweep

\* A call that is rolled back for good fails; a poll has told ControlService nothing yet.
LEMMA AbortSeen ==
    ASSUME LockInv, DbTypeOK, NEW h \in Handlers, Abort(h)
    PROVE  [Service!Next]_(Service!vars)
<1>1. h \in Threads /\ h # Sweeper /\ tx[h] \in Transactions /\ Sound(h, tx[h]) /\ UNCHANGED dbVars
      BY LocksAssumption DEF Abort, LockInv, Threads
<1>2. CASE Becomes(h, NoTx) /\ tx[h].op \in {"report", "cancel"}
  <2>1. pending[h] # Service!Idle
        BY <1>2, PendingOfWrites DEF pending, Service!Idle
  <2>2. pending' = [pending EXCEPT ![h] = Service!Idle]
        BY <1>2, PendingMoves, NoTxIsIdle
  <2>3. Service!CallFails(h)
        BY <1>1, <2>1, <2>2 DEF Service!CallFails, Service!dbVars, dbVars
  <2> QED BY <2>3 DEF Service!Next
<1>3. CASE Becomes(h, NoTx) /\ tx[h].op \in {"poll", "none"}
      BY <1>1, <1>3, Unseen DEF NoTx
<1>4. CASE /\ tx[h].op = "report"
           /\ Becomes(h, Statement([NoTx EXCEPT !.op = "report", !.task = tx[h].task,
                                                 !.to = tx[h].to], "task"))
  <2> DEFINE b == [NoTx EXCEPT !.op = "report", !.task = tx[h].task, !.to = tx[h].to]
             c == Statement(b, "task")
  <2>1. tx[h].task \in Tasks /\ tx[h].to \in TaskStates /\ Becomes(h, c)
        BY <1>1, <1>4 DEF Sound, InOrder, WriterInOrder, PollInOrder, FreeTx, Transactions
  <2>2. b \in Transactions /\ b.op = "report" /\ b.task = tx[h].task /\ b.to = tx[h].to
        BY <2>1 DEF NoTx, Transactions, TaskStates, Statements
  <2> HIDE DEF b
  <2>3. SameCall(c, tx[h])
        BY <1>4, <2>1, <2>2, StatementTyped, ZenonT(40) DEF SameCall, Statements
  <2> HIDE DEF c
  <2> QED BY <1>1, <2>1, <2>3, Unseen
<1>5. tx[h].op \in {"report", "cancel", "poll", "none"}
      BY <1>1 DEF Sound, InOrder, WriterInOrder, PollInOrder, FreeTx
<1> QED BY <1>2, <1>3, <1>4, <1>5 DEF Abort

LEMMA StepsRefine ==
    ASSUME IsFiniteSet(Tasks), LockInv, DbTypeOK, WorkInv, TablesInv, [LocksNext]_lockVars
    PROVE  [Service!Next \/ PartialSweep]_(Service!vars)
<1>0. CASE UNCHANGED lockVars
      BY <1>0 DEF lockVars, dbVars, pending, Service!vars, Service!dbVars
<1>1. ASSUME NEW h \in Handlers, HandlerStep(h) PROVE [Service!Next]_(Service!vars)
  <2>1. h \in Threads
        BY DEF Threads
  <2> QED BY <1>1, <2>1, LockingUnseen, StatementsUnseen, CommitWriteSeen, CommitPollSeen,
             AbortSeen DEF HandlerStep, RollBack
<1>2. CASE SweepStep
  <2>1. Sweeper \in Threads
        BY DEF Threads
  <2> QED BY <1>2, <2>1, LockingUnseen, SweepUnseen, CommitSweepSeen DEF SweepStep, RollBack
<1>3. ASSUME NEW x \in Threads, LoseConnection(x) PROVE [Service!Next]_(Service!vars)
      BY <1>3, AbortSeen, SweepUnseen DEF LoseConnection, Threads
<1> QED BY <1>0, <1>1, <1>2, <1>3, AgentsSeen, HeartbeatSeen, CreateSeen, BeginReportSeen,
           BeginCancelSeen, StatementsUnseen DEF LocksNext

LEMMA InitRefines == LocksInit => Service!Init
<1> SUFFICES ASSUME LocksInit PROVE Service!Init
      OBVIOUS
<1>1. \A h \in Handlers : tx[h] = NoTx
      BY DEF LocksInit, Threads
<1>2. pending = [h \in Handlers |-> Service!Idle]
      BY <1>1, NoTxIsIdle DEF pending
<1> QED BY <1>2 DEF LocksInit, DbInit, Service!Init, Service!DbInit

\* However many agents, tasks and requests there are, and whatever the reports carry: with
\* the statements, row locks, stale snapshots, deadlocks and lost connections of PostgreSQL
\* in between, reports, cancels and polls do what ControlService takes for single steps,
\* and a sweep does it for every task that is leased.
THEOREM LocksRefineService ==
    ASSUME IsFiniteSet(Tasks)
    PROVE  LocksSpec => LocksImplementService
<1>1. LocksInit => Service!Init
      BY InitRefines
<1>2. (DbTypeOK /\ LockInv /\ WorkInv /\ TablesInv) /\ [LocksNext]_lockVars
          => [Service!Next \/ PartialSweep]_(Service!vars)
      BY StepsRefine
<1> QED BY <1>1, <1>2, WorkInvAlways, PTL DEF LocksSpec, LocksImplementService
=============================================================================
