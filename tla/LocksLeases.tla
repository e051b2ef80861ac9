----------------------------- MODULE LocksLeases -----------------------------
(***************************************************************************)
(* What the tables keep while the transactions of PgLocks run statement by *)
(* statement, for every report: the promises of ControlService about       *)
(* leases, and the lease table of AssignmentLease.                         *)
(*                                                                         *)
(* What a transaction has found and locked stays true until it commits:    *)
(* each kind of transaction has an invariant about the rows it holds and   *)
(* has yet to reach (WriterWork, PollWork, SweepWork).  The steps of       *)
(* others keep it, since they write only rows that they hold themselves.   *)
(***************************************************************************)
EXTENDS LocksProofs, FiniteSetTheorems

-----------------------------------------------------------------------------
(* What a transaction relies on *)

Unfinished == {"Running", "Queued"}

\* R has the open assignments of a.
HasLeasesOf(R, a) == \A t \in Tasks : openRows[t][a] > 0 => LeaseRow(t, a) \in R

\* R has the unfinished tasks that a holds: others may be revived behind the sweep's back,
\* by a "Running" report on a finished task.
HasTasksOf(R, a) ==
    \A t \in Tasks :
        assignedAgent[t] = a /\ taskState[t] \in Unfinished /\ openRows[t][a] > 0
            => TaskRow(t) \in R

WriterWork(c) ==
    c.op \in {"report", "cancel"} =>
        /\ c.op = "report" => c.to \in ReportStates
        /\ c.op = "cancel" => c.to = "Canceled"
        /\ c.stmt = "leases of task" =>
              \A a \in Agents : openRows[c.task][a] > 0 =>
                  LeaseRow(c.task, a) \in c.left \union c.held

\* The tasks that c has locked.
TasksIn(c) == {t \in Tasks : TaskRow(t) \in c.held}

PollWork(c) ==
    c.op = "poll" =>
        /\ AgentExists(c.agent)
        /\ c.slots \in FreeSlots /\ c.slots > 0
        /\ c.stmt = "none" =>
              /\ AgentRow(c.agent) \in c.held
              /\ TasksIn(c) \subseteq Dispatchable(c.agent)
              /\ IsFiniteSet(Tasks) => Cardinality(TasksIn(c)) <= c.slots

\* Rows are locked for a silent agent; all silent agents are found, and then locked; the
\* agents that are through have all their rows locked.
SweepHolds(c) ==
    /\ \A a \in Agents : AgentRow(a) \in c.held => a \in Unresponsive
    /\ \A t \in Tasks, a \in Agents : LeaseRow(t, a) \in c.held => AgentRow(a) \in c.held
    /\ \A t \in Tasks : TaskRow(t) \in c.held =>
          /\ assignedAgent[t] \in Agents /\ AgentRow(assignedAgent[t]) \in c.held
          /\ taskState[t] \in Unfinished

SweepFound(c) ==
    \/ /\ c.stmt = "agents"
       /\ \A a \in Unresponsive : AgentRow(a) \in c.left \union c.held
    \/ /\ c.stmt \in {"leases of agent", "tasks of agent"}
       /\ \A a \in Unresponsive : AgentRow(a) \in c.held
       /\ c.agent \in Unresponsive /\ c.todo \subseteq Unresponsive
       /\ \A a \in Unresponsive : a # c.agent /\ a \notin c.todo =>
             HasLeasesOf(c.held, a) /\ HasTasksOf(c.held, a)
       /\ c.stmt = "leases of agent" => HasLeasesOf(c.left \union c.held, c.agent)
       /\ c.stmt = "tasks of agent" =>
             HasLeasesOf(c.held, c.agent) /\ HasTasksOf(c.left \union c.held, c.agent)

SweepWork(c) == c.op = "sweep" => SweepHolds(c) /\ SweepFound(c)

WorkInv ==
    /\ \A h \in Handlers : WriterWork(tx[h]) /\ PollWork(tx[h])
    /\ SweepWork(tx[Sweeper])

\* What the tables keep, at whatever statement the transactions are: a task has at most one
\* open assignment, its assigned agent's, and none when it is finished.
TablesInv ==
    /\ \A t \in Tasks, a \in Agents :
          /\ openRows[t][a] <= 1
          /\ openRows[t][a] > 0 => assignedAgent[t] = a /\ taskState[t] \in Unfinished
    /\ \A t \in Tasks : taskState[t] = "Absent" => assignedAgent[t] = NoAgent

LEMMA WorkInvInit == LocksInit => WorkInv
<1> SUFFICES ASSUME LocksInit PROVE WorkInv
      OBVIOUS
<1>1. \A x \in Threads : tx[x].op = "none"
      BY DEF LocksInit, NoTx
<1> QED BY <1>1 DEF WorkInv, WriterWork, PollWork, SweepWork, Threads

-----------------------------------------------------------------------------
(* A step that writes nothing *)

\* Thread x goes on with c, on the same tables.
LEMMA WriterSame ==
    ASSUME NEW CONSTANT x, NEW CONSTANT c, UNCHANGED dbVars, tx'[x] = c, WriterWork(c)
    PROVE  WriterWork(tx[x])'
BY DEF WriterWork, dbVars

LEMMA PollSame ==
    ASSUME NEW CONSTANT x, NEW CONSTANT c, UNCHANGED dbVars, tx'[x] = c, PollWork(c)
    PROVE  PollWork(tx[x])'
BY DEF PollWork, dbVars, TasksIn, Dispatchable, AgentExists

LEMMA SweepSame ==
    ASSUME NEW CONSTANT x, NEW CONSTANT c, UNCHANGED dbVars, tx'[x] = c, SweepWork(c)
    PROVE  SweepWork(tx[x])'
BY DEF SweepWork, SweepHolds, SweepFound, HasLeasesOf, HasTasksOf, Unresponsive, dbVars

\* A handler goes on.
LEMMA HandlerMoves ==
    ASSUME LockInv, WorkInv, NEW h \in Handlers, NEW CONSTANT c, Becomes(h, c), UNCHANGED dbVars,
           WriterWork(c), PollWork(c)
    PROVE  WorkInv'
<1>1. tx \in [Threads -> Transactions] /\ h \in Threads /\ Sweeper \in Threads /\ h # Sweeper
      BY LocksAssumption DEF LockInv, Threads
<1>2. tx' = [tx EXCEPT ![h] = c]
      BY DEF Becomes
<1>3. ASSUME NEW g \in Handlers PROVE WriterWork(tx[g])' /\ PollWork(tx[g])'
  <2>1. CASE g = h
    <3>1. tx'[g] = c
          BY <1>1, <1>2, <2>1
    <3> QED BY <3>1, WriterSame, PollSame
  <2>2. CASE g # h
    <3>1. tx'[g] = tx[g]
          BY <1>1, <1>2, <2>2 DEF Threads
    <3>2. WriterWork(tx[g]) /\ PollWork(tx[g])
          BY DEF WorkInv
    <3> QED BY <3>1, <3>2, WriterSame, PollSame
  <2> QED BY <2>1, <2>2
<1>4. SweepWork(tx[Sweeper])'
  <2>1. tx'[Sweeper] = tx[Sweeper]
        BY <1>1, <1>2
  <2> QED BY <2>1, SweepSame DEF WorkInv
<1> QED BY <1>3, <1>4 DEF WorkInv

\* The sweep goes on.
LEMMA SweepMoves ==
    ASSUME LockInv, WorkInv, NEW CONSTANT c, Becomes(Sweeper, c), UNCHANGED dbVars, SweepWork(c)
    PROVE  WorkInv'
<1>1. tx \in [Threads -> Transactions] /\ Sweeper \in Threads
      BY DEF LockInv, Threads
<1>2. tx' = [tx EXCEPT ![Sweeper] = c]
      BY DEF Becomes
<1>3. ASSUME NEW g \in Handlers PROVE WriterWork(tx[g])' /\ PollWork(tx[g])'
  <2>1. tx'[g] = tx[g]
        BY <1>1, <1>2, LocksAssumption DEF Threads
  <2>2. WriterWork(tx[g]) /\ PollWork(tx[g])
        BY DEF WorkInv
  <2> QED BY <2>1, <2>2, WriterSame, PollSame
<1>4. SweepWork(tx[Sweeper])'
  <2>1. tx'[Sweeper] = c
        BY <1>1, <1>2
  <2> QED BY <2>1, SweepSame
<1> QED BY <1>3, <1>4 DEF WorkInv

-----------------------------------------------------------------------------
(* Locking *)

LEMMA TakeFields ==
    ASSUME NEW c \in Transactions, NEW r
    PROVE  LET d == Take(c, r)
           IN  /\ d.op = c.op /\ d.task = c.task /\ d.agent = c.agent /\ d.to = c.to
               /\ d.slots = c.slots /\ d.todo = c.todo /\ d.stmt = c.stmt
               /\ d.left = c.left \ {r}
               /\ d.held = IF r \in Matching(c, c.stmt) THEN c.held \union {r} ELSE c.held
BY DEF Take, Transactions

LEMMA TakeWriter ==
    ASSUME NEW c \in Transactions, NEW r, WriterWork(c)
    PROVE  WriterWork(Take(c, r))
<1> DEFINE d == Take(c, r)
<1>1. /\ d.op = c.op /\ d.task = c.task /\ d.to = c.to /\ d.stmt = c.stmt
      /\ d.left = c.left \ {r}
      /\ d.held = IF r \in Matching(c, c.stmt) THEN c.held \union {r} ELSE c.held
      BY TakeFields
<1> HIDE DEF d
<1>2. ASSUME c.stmt = "leases of task",
             \A a \in Agents : openRows[c.task][a] > 0 => LeaseRow(c.task, a) \in c.left \union c.held,
             NEW a \in Agents, openRows[c.task][a] > 0
      PROVE  LeaseRow(c.task, a) \in d.left \union d.held
  <2>1. LeaseRow(c.task, a) \in Matching(c, c.stmt)
        BY <1>2 DEF Matching, LeaseRowsOf
  <2> QED BY <1>1, <1>2, <2>1
<1>3. WriterWork(d)
      BY <1>1, <1>2 DEF WriterWork
<1> QED BY <1>3 DEF d

LEMMA TakePoll ==
    ASSUME NEW h \in Handlers, NEW c, Sound(h, c), NEW r \in c.left, PollWork(c)
    PROVE  PollWork(Take(c, r))
<1> DEFINE d == Take(c, r)
<1>1. c \in Transactions /\ h # Sweeper
      BY LocksAssumption DEF Sound
<1>2. d.op = c.op /\ d.agent = c.agent /\ d.slots = c.slots /\ d.stmt = c.stmt
      BY <1>1, TakeFields
<1>3. c.op = "poll" => c.stmt # "none"
      BY <1>1 DEF Sound, InOrder, WriterInOrder, PollInOrder, FreeTx, OneRow
<1> HIDE DEF d
<1>4. PollWork(d)
      BY <1>2, <1>3 DEF PollWork
<1> QED BY <1>4 DEF d

LEMMA TakeSweep ==
    ASSUME DbTypeOK, NEW c \in Transactions, NEW r, SweepWork(c)
    PROVE  SweepWork(Take(c, r))
<1> DEFINE d == Take(c, r)
<1>1. /\ d.op = c.op /\ d.agent = c.agent /\ d.todo = c.todo /\ d.stmt = c.stmt
      /\ d.left = c.left \ {r}
      /\ d.held = IF r \in Matching(c, c.stmt) THEN c.held \union {r} ELSE c.held
      BY TakeFields
<1> HIDE DEF d
<1> SUFFICES ASSUME c.op = "sweep", SweepHolds(c), SweepFound(c)
             PROVE  SweepHolds(d) /\ SweepFound(d)
      BY <1>1 DEF SweepWork, d
<1>2. Unresponsive \subseteq Agents
      BY DEF Unresponsive, DbTypeOK
<1>3. CASE c.stmt = "agents"
  <2>1. Matching(c, c.stmt) = {AgentRow(a) : a \in Unresponsive}
        BY <1>3 DEF Matching
  <2>2. SweepHolds(d)
        BY <1>1, <1>2, <2>1, RowsDiffer DEF SweepHolds
  <2>3. SweepFound(d)
        BY <1>1, <1>3, <2>1 DEF SweepFound
  <2> QED BY <2>2, <2>3
<1>4. CASE c.stmt = "leases of agent"
  <2>1. Matching(c, c.stmt) = {LeaseRow(t, c.agent) : t \in {u \in Tasks : openRows[u][c.agent] > 0}}
        BY <1>4 DEF Matching
  <2>2. /\ c.agent \in Unresponsive /\ AgentRow(c.agent) \in c.held
        /\ HasLeasesOf(c.left \union c.held, c.agent)
        BY <1>4 DEF SweepFound
  <2>3. SweepHolds(d)
        BY <1>1, <1>2, <2>1, <2>2, RowsDiffer DEF SweepHolds
  <2>4. HasLeasesOf(d.left \union d.held, c.agent)
        BY <1>1, <2>1, <2>2 DEF HasLeasesOf
  <2>5. SweepFound(d)
        BY <1>1, <1>4, <2>4 DEF SweepFound, HasLeasesOf, HasTasksOf
  <2> QED BY <2>3, <2>5
<1>5. CASE c.stmt = "tasks of agent"
  <2>1. Matching(c, c.stmt) = {TaskRow(t) : t \in {u \in Tasks : /\ assignedAgent[u] = c.agent
                                                                 /\ taskState[u] \in Unfinished}}
        BY <1>5 DEF Matching, Unfinished
  <2>2. /\ c.agent \in Unresponsive /\ AgentRow(c.agent) \in c.held
        /\ HasLeasesOf(c.held, c.agent)
        /\ HasTasksOf(c.left \union c.held, c.agent)
        BY <1>5 DEF SweepFound
  <2>3. SweepHolds(d)
        BY <1>1, <1>2, <2>1, <2>2, RowsDiffer DEF SweepHolds
  <2>4. HasTasksOf(d.left \union d.held, c.agent)
        BY <1>1, <2>1, <2>2 DEF HasTasksOf
  <2>5. SweepFound(d)
        BY <1>1, <1>5, <2>2, <2>4 DEF SweepFound, HasLeasesOf, HasTasksOf
  <2> QED BY <2>3, <2>5
<1> QED BY <1>3, <1>4, <1>5 DEF SweepFound

\* What a transaction relies on does not depend on the row it waits for.
LEMMA WaitingWork ==
    ASSUME NEW c \in Transactions, NEW r
    PROVE  LET d == [c EXCEPT !.waits = r]
           IN  /\ WriterWork(c) => WriterWork(d)
               /\ PollWork(c) => PollWork(d)
               /\ SweepWork(c) => SweepWork(d)
<1> DEFINE d == [c EXCEPT !.waits = r]
<1>1. /\ d.op = c.op /\ d.task = c.task /\ d.agent = c.agent /\ d.to = c.to
      /\ d.slots = c.slots /\ d.todo = c.todo /\ d.stmt = c.stmt
      /\ d.left = c.left /\ d.held = c.held
      BY DEF Transactions
<1> HIDE DEF d
<1>2. /\ WriterWork(c) => WriterWork(d)
      /\ PollWork(c) => PollWork(d)
      /\ SweepWork(c) => SweepWork(d)
      BY <1>1 DEF WriterWork, PollWork, TasksIn, SweepWork, SweepHolds, SweepFound
<1> QED BY <1>2 DEF d

LEMMA LockRowWork == ASSUME LockInv, DbTypeOK, WorkInv, NEW x \in Threads, LockRow(x) PROVE WorkInv'
<1>1. PICK r \in tx[x].left : Becomes(x, Take(tx[x], r)) /\ UNCHANGED dbVars
      BY DEF LockRow, LockInv, Sound
<1>2. tx[x] \in Transactions /\ Sound(x, tx[x])
      BY DEF LockInv
<1>3. CASE x \in Handlers
      BY <1>1, <1>2, <1>3, TakeWriter, TakePoll, HandlerMoves DEF WorkInv
<1>4. CASE x = Sweeper
      BY <1>1, <1>2, <1>4, TakeSweep, SweepMoves DEF WorkInv
<1> QED BY <1>3, <1>4 DEF Threads

LEMMA WaitForRowWork == ASSUME LockInv, WorkInv, NEW x \in Threads, WaitForRow(x) PROVE WorkInv'
<1>1. PICK r \in tx[x].left : Becomes(x, [tx[x] EXCEPT !.waits = r]) /\ UNCHANGED dbVars
      BY DEF WaitForRow
<1>2. tx[x] \in Transactions
      BY DEF LockInv
<1>3. CASE x \in Handlers
      BY <1>1, <1>2, <1>3, WaitingWork, HandlerMoves DEF WorkInv
<1>4. CASE x = Sweeper
      BY <1>1, <1>2, <1>4, WaitingWork, SweepMoves DEF WorkInv
<1> QED BY <1>3, <1>4 DEF Threads

-----------------------------------------------------------------------------
(* Statements *)

\* A transaction that ends, or has yet to reach its first row, relies on nothing.
LEMMA NoTxWork == WriterWork(NoTx) /\ PollWork(NoTx) /\ SweepWork(NoTx)
BY DEF WriterWork, PollWork, SweepWork, NoTx

LEMMA BeginWriteWork ==
    ASSUME NEW t \in Tasks, NEW to \in TaskStates, NEW op \in {"report", "cancel"},
           op = "cancel" => to = "Canceled", op = "report" => to \in ReportStates, DbTypeOK
    PROVE  LET c == Statement([NoTx EXCEPT !.op = op, !.task = t, !.to = to], "task")
           IN  WriterWork(c) /\ PollWork(c)
<1> DEFINE b == [NoTx EXCEPT !.op = op, !.task = t, !.to = to]
           c == Statement(b, "task")
<1>1. b \in Transactions /\ b.op = op /\ b.task = t /\ b.to = to
      BY DEF NoTx, Transactions, TaskStates, TerminalStates, Statements
<1> HIDE DEF b
<1>2. c.op = op /\ c.to = to /\ c.stmt = "task"
      BY <1>1, StatementTyped DEF Statements
<1> HIDE DEF c
<1>3. WriterWork(c) /\ PollWork(c)
      BY <1>2 DEF WriterWork, PollWork
<1> QED BY <1>3 DEF c, b

LEMMA BeginPollWork ==
    ASSUME NEW a \in Agents, NEW n \in FreeSlots, n > 0, AgentExists(a), DbTypeOK
    PROVE  LET c == Statement([NoTx EXCEPT !.op = "poll", !.agent = a, !.slots = n], "agent")
           IN  WriterWork(c) /\ PollWork(c)
<1> DEFINE b == [NoTx EXCEPT !.op = "poll", !.agent = a, !.slots = n]
           c == Statement(b, "agent")
<1>1. b \in Transactions /\ b.op = "poll" /\ b.agent = a /\ b.slots = n
      BY DEF NoTx, Transactions, TaskStates, Statements
<1> HIDE DEF b
<1>2. c.op = "poll" /\ c.agent = a /\ c.slots = n /\ c.stmt = "agent"
      BY <1>1, StatementTyped DEF Statements
<1> HIDE DEF c
<1>3. WriterWork(c) /\ PollWork(c)
      BY <1>2 DEF WriterWork, PollWork
<1> QED BY <1>3 DEF c, b

LEMMA CloseLeasesWork ==
    ASSUME LockInv, DbTypeOK, WorkInv, NEW h \in Handlers, CloseLeases(h) PROVE WorkInv'
<1> DEFINE c == tx[h]  d == Statement(c, "leases of task")
<1>1. c \in Transactions /\ h # Sweeper /\ h \in Threads /\ Sound(h, c)
      BY LocksAssumption DEF LockInv, Threads
<1>2. c.stmt = "task" /\ Becomes(h, d) /\ UNCHANGED dbVars
      BY DEF CloseLeases, Done
<1>3. WriterInOrder(c)
      BY <1>1, <1>2 DEF Sound, InOrder, PollInOrder, FreeTx
<1>4. Matching(c, "leases of task") = LeaseRowsOf(c.task)
      BY DEF Matching
<1>5. /\ d.stmt = "leases of task" /\ d.left = LeaseRowsOf(c.task)
      /\ d.op = c.op /\ d.task = c.task /\ d.to = c.to
      BY <1>1, <1>3, <1>4, StatementTyped DEF Statements, WriterInOrder
<1>6. WriterWork(c)
      BY DEF WorkInv
<1> HIDE DEF d
<1>7. WriterWork(d)
      BY <1>5, <1>6 DEF WriterWork, LeaseRowsOf
<1>8. PollWork(d)
      BY <1>3, <1>5 DEF PollWork, WriterInOrder
<1> QED BY <1>2, <1>7, <1>8, HandlerMoves

LEMMA SelectTasksWork ==
    ASSUME LockInv, DbTypeOK, WorkInv, NEW h \in Handlers, SelectTasks(h) PROVE WorkInv'
<1> DEFINE F == {t \in Dispatchable(tx[h].agent) : ~TakenFor(h, TaskRow(t))}
           n == IF tx[h].slots < Cardinality(F) THEN tx[h].slots ELSE Cardinality(F)
<1>1. tx[h] \in Transactions /\ h # Sweeper /\ h \in Threads /\ Sound(h, tx[h])
      BY LocksAssumption DEF LockInv, Threads
<1>2. /\ tx[h].op = "poll" /\ tx[h].stmt = "agent" /\ tx[h].left = {} /\ tx[h].waits = NoRow
      /\ UNCHANGED dbVars
      BY DEF SelectTasks, Done
<1>3. PICK S \in SUBSET F :
          /\ Cardinality(S) = n
          /\ Becomes(h, [tx[h] EXCEPT !.stmt = "none", !.held = @ \union {TaskRow(t) : t \in S}])
      BY DEF SelectTasks
<1> DEFINE c == [tx[h] EXCEPT !.stmt = "none", !.held = @ \union {TaskRow(t) : t \in S}]
<1>4. PollInOrder(tx[h])
      BY <1>1, <1>2 DEF Sound, InOrder, WriterInOrder, FreeTx
<1>5. tx[h].agent \in Agents /\ tx[h].held = {AgentRow(tx[h].agent)}
      BY <1>2, <1>4 DEF PollInOrder, OneRow
<1>6. F \subseteq Tasks /\ S \subseteq Dispatchable(tx[h].agent)
      BY <1>5, FitsAssumption DEF Dispatchable
<1>7. ASSUME IsFiniteSet(Tasks) PROVE Cardinality(S) <= tx[h].slots
  <2>1. Cardinality(F) \in Nat
        BY <1>6, <1>7, FS_Subset, FS_CardinalityType
  <2>2. tx[h].slots \in Int
        BY <1>2, LocksAssumption DEF WorkInv, PollWork
  <2> QED BY <1>3, <2>1, <2>2
<1>8. /\ c.op = "poll" /\ c.agent = tx[h].agent /\ c.slots = tx[h].slots /\ c.stmt = "none"
      /\ c.held = {AgentRow(c.agent)} \union {TaskRow(t) : t \in S}
      BY <1>1, <1>2, <1>5 DEF Transactions
<1>9. PollWork(tx[h]) /\ Becomes(h, c)
      BY <1>3 DEF WorkInv
<1> HIDE DEF c
<1>10. TasksIn(c) = S
       BY <1>5, <1>6, <1>8, RowsDiffer DEF TasksIn
<1>11. PollWork(c)
       BY <1>2, <1>6, <1>7, <1>8, <1>9, <1>10 DEF PollWork
<1>12. WriterWork(c)
       BY <1>8 DEF WriterWork
<1> QED BY <1>2, <1>9, <1>11, <1>12, HandlerMoves

LEMMA AbortWork ==
    ASSUME LockInv, DbTypeOK, WorkInv, NEW x \in Threads, Abort(x) PROVE WorkInv'
<1>1. UNCHANGED dbVars
      BY DEF Abort
<1>2. CASE Becomes(x, NoTx)
      BY <1>1, <1>2, NoTxWork, HandlerMoves, SweepMoves DEF Threads
<1>3. CASE /\ tx[x].op = "report"
           /\ Becomes(x, Statement([NoTx EXCEPT !.op = "report", !.task = tx[x].task,
                                                 !.to = tx[x].to], "task"))
  <2>1. tx[x] \in Transactions /\ Sound(x, tx[x])
        BY DEF LockInv
  <2>2. x \in Handlers
        BY <1>3, <2>1 DEF Sound, InOrder, FreeTx, Threads
  <2>3. tx[x].task \in Tasks
        BY <1>3, <2>1, <2>2, LocksAssumption
        DEF Sound, InOrder, WriterInOrder, PollInOrder, FreeTx
  <2>4. tx[x].to \in TaskStates /\ tx[x].to \in ReportStates
        BY <1>3, <2>1, <2>2 DEF WorkInv, WriterWork, Transactions
  <2> DEFINE c == Statement([NoTx EXCEPT !.op = "report", !.task = tx[x].task, !.to = tx[x].to], "task")
  <2>5. WriterWork(c) /\ PollWork(c)
        BY <2>3, <2>4, BeginWriteWork
  <2>6. Becomes(x, c)
        BY <1>3
  <2> HIDE DEF c
  <2> QED BY <1>1, <2>2, <2>5, <2>6, HandlerMoves
<1> QED BY <1>2, <1>3 DEF Abort

LEMMA BeginSweepWork == ASSUME LockInv, DbTypeOK, WorkInv, BeginSweep PROVE WorkInv'
<1> DEFINE b == [NoTx EXCEPT !.op = "sweep"]  c == Statement(b, "agents")
<1>1. b \in Transactions /\ b.op = "sweep" /\ b.held = {}
      BY DEF NoTx, Transactions, TaskStates, Statements
<1>2. Becomes(Sweeper, c) /\ UNCHANGED dbVars
      BY DEF BeginSweep
<1>3. Matching(b, "agents") = {AgentRow(a) : a \in Unresponsive}
      BY DEF Matching
<1> HIDE DEF b
<1>4. c.op = "sweep" /\ c.stmt = "agents" /\ c.held = {} /\ c.left = {AgentRow(a) : a \in Unresponsive}
      BY <1>1, <1>3, StatementTyped, ZenonT(40) DEF Statements
<1> HIDE DEF c
<1>5. SweepWork(c)
      BY <1>4 DEF SweepWork, SweepHolds, SweepFound
<1> QED BY <1>2, <1>5, SweepMoves

LEMMA SweepAgentWork == ASSUME LockInv, DbTypeOK, WorkInv, SweepAgent PROVE WorkInv'
<1> DEFINE c == tx[Sweeper]
<1>1. PICK A \in SUBSET Agents, a \in Agents, d \in Transactions :
          /\ Done(Sweeper, "agents") \/ Done(Sweeper, "tasks of agent")
          /\ A = (IF c.stmt = "agents" THEN {e \in Agents : AgentRow(e) \in c.held} ELSE c.todo)
          /\ a \in A
          /\ Becomes(Sweeper, d)
          /\ d.op = "sweep" /\ d.stmt = "leases of agent" /\ d.agent = a
          /\ d.todo = A \ {a} /\ d.held = c.held
          /\ d.left = {LeaseRow(t, a) : t \in {u \in Tasks : openRows[u][a] > 0}}
      BY SweepAgentStep
<1>2. c.op = "sweep" /\ c.left = {} /\ c.stmt \in {"agents", "tasks of agent"} /\ UNCHANGED dbVars
      BY <1>1, SweepIsOpen DEF Done, SweepAgent
<1>3. SweepHolds(c) /\ SweepFound(c)
      BY <1>2 DEF WorkInv, SweepWork
<1>4. SweepHolds(d)
      BY <1>1, <1>3 DEF SweepHolds
<1>5. HasLeasesOf(d.left \union d.held, a)
      BY <1>1 DEF HasLeasesOf
<1>6. /\ \A e \in Unresponsive : AgentRow(e) \in c.held
      /\ a \in Unresponsive /\ d.todo \subseteq Unresponsive
      /\ \A e \in Unresponsive : e # a /\ e \notin d.todo => HasLeasesOf(c.held, e) /\ HasTasksOf(c.held, e)
  <2>1. Unresponsive \subseteq Agents
        BY DEF Unresponsive, DbTypeOK
  <2>2. CASE c.stmt = "agents"
        BY <1>1, <1>2, <1>3, <2>1, <2>2 DEF SweepHolds, SweepFound
  <2>3. CASE c.stmt = "tasks of agent"
    <3>1. /\ \A e \in Unresponsive : AgentRow(e) \in c.held
          /\ \A e \in Unresponsive : e # c.agent /\ e \notin c.todo =>
                HasLeasesOf(c.held, e) /\ HasTasksOf(c.held, e)
          /\ HasLeasesOf(c.held, c.agent) /\ HasTasksOf(c.held, c.agent)
          BY <1>2, <1>3, <2>3 DEF SweepFound
    <3>2. a \in Unresponsive /\ d.todo \subseteq Unresponsive
          BY <1>1, <1>3, <2>3 DEF SweepFound
    <3> QED BY <1>1, <2>3, <3>1, <3>2
  <2> QED BY <1>2, <2>2, <2>3
<1>7. SweepFound(d)
      BY <1>1, <1>5, <1>6 DEF SweepFound
<1> QED BY <1>1, <1>2, <1>4, <1>7, SweepMoves DEF SweepWork

LEMMA SweepTasksWork == ASSUME LockInv, DbTypeOK, WorkInv, SweepTasks PROVE WorkInv'
<1> DEFINE c == tx[Sweeper]  d == Statement(c, "tasks of agent")
<1>1. /\ Done(Sweeper, "leases of agent") /\ Becomes(Sweeper, d)
      /\ d.op = "sweep" /\ d.stmt = "tasks of agent"
      /\ d.agent = c.agent /\ d.todo = c.todo /\ d.held = c.held
      /\ d.left = {TaskRow(t) : t \in {u \in Tasks : /\ assignedAgent[u] = c.agent
                                                      /\ taskState[u] \in Unfinished}}
      BY SweepTasksStep DEF Unfinished
<1>2. c.op = "sweep" /\ c.left = {} /\ c.stmt = "leases of agent" /\ UNCHANGED dbVars
      BY <1>1, SweepIsOpen DEF SweepTasks
<1>3. SweepHolds(c) /\ SweepFound(c)
      BY <1>2 DEF WorkInv, SweepWork
<1> HIDE DEF d
<1>4. SweepHolds(d)
      BY <1>1, <1>3 DEF SweepHolds
<1>5. HasTasksOf(d.left \union d.held, c.agent)
      BY <1>1 DEF HasTasksOf
<1>6. SweepFound(d)
      BY <1>1, <1>2, <1>3, <1>5 DEF SweepFound
<1> QED BY <1>1, <1>2, <1>4, <1>6, SweepMoves DEF SweepWork

-----------------------------------------------------------------------------
(* A step that writes: what the others have locked is left alone. *)

\* What a step leaves to handler h: the tasks it has locked, and all agents.
HandlerKept(h) ==
    /\ \A a \in Agents : AgentExists(a) => agentStatus'[a] # "Absent"
    /\ \A t \in TasksIn(tx[h]) :
          /\ taskState[t] = "Queued" /\ assignedAgent[t] = NoAgent =>
                taskState'[t] = "Queued" /\ assignedAgent'[t] = NoAgent
          /\ \A a \in Agents : openRows'[t][a] > 0 => openRows[t][a] > 0

LEMMA HandlerKeepsWork ==
    ASSUME DbTypeOK, NEW h \in Handlers, Sound(h, tx[h]), WriterWork(tx[h]), PollWork(tx[h]),
           tx'[h] = tx[h], HandlerKept(h)
    PROVE  WriterWork(tx[h])' /\ PollWork(tx[h])'
<1> DEFINE c == tx[h]
<1>1. h # Sweeper
      BY LocksAssumption
<1>2. ASSUME c.op \in {"report", "cancel"}, c.stmt = "leases of task"
      PROVE  c.task \in TasksIn(c)
      BY <1>1, <1>2 DEF Sound, InOrder, WriterInOrder, PollInOrder, FreeTx, TasksIn
<1>3. ASSUME c.op \in {"report", "cancel"}, c.stmt = "leases of task",
             NEW a \in Agents, openRows'[c.task][a] > 0
      PROVE  LeaseRow(c.task, a) \in c.left \union c.held
      BY <1>2, <1>3 DEF HandlerKept, WriterWork
<1>4. WriterWork(tx[h])'
      BY <1>3 DEF WriterWork
<1>5. ASSUME c.op = "poll" PROVE c.agent \in Agents
      BY <1>1, <1>5 DEF Sound, InOrder, WriterInOrder, PollInOrder, FreeTx
<1>6. ASSUME c.op = "poll" PROVE agentStatus'[c.agent] # "Absent"
      BY <1>5, <1>6 DEF HandlerKept, PollWork
<1>7. ASSUME c.op = "poll", c.stmt = "none", NEW t \in TasksIn(c)
      PROVE  t \in Fits[c.agent] /\ taskState'[t] = "Queued" /\ assignedAgent'[t] = NoAgent
      BY <1>7 DEF HandlerKept, PollWork, Dispatchable
<1>8. PollWork(tx[h])'
      BY <1>6, <1>7 DEF PollWork, AgentExists, Dispatchable, TasksIn
<1> QED BY <1>4, <1>8

\* What a step leaves to the sweep: the silent agents, and the rows of those it has locked.
SweepKept ==
    /\ Unresponsive' \subseteq Unresponsive
    /\ \A a \in Unresponsive : AgentRow(a) \in tx[Sweeper].held =>
          /\ a \in Unresponsive'
          /\ \A t \in Tasks : openRows'[t][a] > 0 => openRows[t][a] > 0
          /\ \A t \in Tasks : assignedAgent'[t] = a /\ taskState'[t] \in Unfinished
                               /\ openRows'[t][a] > 0 =>
                assignedAgent[t] = a /\ taskState[t] \in Unfinished
    /\ \A t \in TasksIn(tx[Sweeper]) : taskState[t] \in Unfinished =>
          taskState'[t] = taskState[t] /\ assignedAgent'[t] = assignedAgent[t]

LEMMA SweepKeepsWork ==
    ASSUME DbTypeOK, SweepWork(tx[Sweeper]), tx'[Sweeper] = tx[Sweeper],
           Open(Sweeper) => SweepKept
    PROVE  SweepWork(tx[Sweeper])'
<1> DEFINE c == tx[Sweeper]
<1> SUFFICES ASSUME c.op = "sweep" PROVE (SweepHolds(tx[Sweeper]) /\ SweepFound(tx[Sweeper]))'
      BY DEF SweepWork
<1>1. SweepKept /\ SweepHolds(c) /\ SweepFound(c)
      BY DEF Open, SweepWork
<1>2. Unresponsive \subseteq Agents
      BY DEF Unresponsive, DbTypeOK
<1>3. \A a \in Agents : AgentRow(a) \in c.held => a \in Unresponsive'
      BY <1>1 DEF SweepKept, SweepHolds
<1>4. \A t \in Tasks : TaskRow(t) \in c.held =>
         taskState'[t] = taskState[t] /\ assignedAgent'[t] = assignedAgent[t]
      BY <1>1 DEF SweepKept, SweepHolds, TasksIn
<1>5. SweepHolds(tx[Sweeper])'
      BY <1>1, <1>3, <1>4 DEF SweepHolds
<1>6. CASE c.stmt = "agents"
  <2>1. \A a \in Unresponsive' : AgentRow(a) \in c.left \union c.held
        BY <1>1, <1>6 DEF SweepKept, SweepFound
  <2>2. SweepFound(tx[Sweeper])'
        BY <1>6, <2>1 DEF SweepFound
  <2> QED BY <1>5, <2>2
<1>7. CASE c.stmt \in {"leases of agent", "tasks of agent"}
  <2>1. /\ \A a \in Unresponsive : AgentRow(a) \in c.held
        /\ c.agent \in Unresponsive /\ c.todo \subseteq Unresponsive
        BY <1>1, <1>7 DEF SweepFound
  <2>2. Unresponsive' = Unresponsive
        BY <1>1, <1>2, <1>3, <2>1 DEF SweepKept
  <2>3. ASSUME NEW a \in Unresponsive, NEW t \in Tasks, openRows'[t][a] > 0
        PROVE  openRows[t][a] > 0
        BY <1>1, <2>1, <2>3 DEF SweepKept
  <2>4. ASSUME NEW a \in Unresponsive, NEW t \in Tasks,
               assignedAgent'[t] = a, taskState'[t] \in Unfinished,
               openRows'[t][a] > 0
        PROVE  assignedAgent[t] = a /\ taskState[t] \in Unfinished
        BY <1>1, <2>1, <2>4 DEF SweepKept
  <2>5. ASSUME NEW a \in Unresponsive, a # c.agent, a \notin c.todo
        PROVE  /\ \A t \in Tasks : openRows'[t][a] > 0 => LeaseRow(t, a) \in c.held
               /\ \A t \in Tasks : assignedAgent'[t] = a /\ taskState'[t] \in Unfinished
                                    /\ openRows'[t][a] > 0
                     => TaskRow(t) \in c.held
    <3>1. HasLeasesOf(c.held, a) /\ HasTasksOf(c.held, a)
          BY <1>1, <1>7, <2>5 DEF SweepFound
    <3> QED BY <2>3, <2>4, <3>1 DEF HasLeasesOf, HasTasksOf
  <2>6. ASSUME c.stmt = "leases of agent"
        PROVE  \A t \in Tasks : openRows'[t][c.agent] > 0 => LeaseRow(t, c.agent) \in c.left \union c.held
    <3>1. HasLeasesOf(c.left \union c.held, c.agent)
          BY <1>1, <2>6 DEF SweepFound
    <3> QED BY <2>1, <2>3, <3>1 DEF HasLeasesOf
  <2>7. ASSUME c.stmt = "tasks of agent"
        PROVE  /\ \A t \in Tasks : openRows'[t][c.agent] > 0 => LeaseRow(t, c.agent) \in c.held
               /\ \A t \in Tasks : assignedAgent'[t] = c.agent /\ taskState'[t] \in Unfinished
                                    /\ openRows'[t][c.agent] > 0
                     => TaskRow(t) \in c.left \union c.held
    <3>1. HasLeasesOf(c.held, c.agent) /\ HasTasksOf(c.left \union c.held, c.agent)
          BY <1>1, <2>7 DEF SweepFound
    <3> QED BY <2>1, <2>3, <2>4, <3>1 DEF HasLeasesOf, HasTasksOf
  <2>8. SweepFound(tx[Sweeper])'
        BY <1>7, <2>1, <2>2, <2>5, <2>6, <2>7 DEF SweepFound, HasLeasesOf, HasTasksOf
  <2> QED BY <1>5, <2>8
<1> QED BY <1>1, <1>6, <1>7 DEF SweepFound

\* Only thread x goes on, with c, which relies on nothing yet.
LEMMA WriteMoves ==
    ASSUME LockInv, DbTypeOK, WorkInv, NEW x \in Threads, NEW CONSTANT c, Becomes(x, c),
           x \in Handlers => (WriterWork(tx[x]) /\ PollWork(tx[x]))',
           x = Sweeper => SweepWork(tx[x])',
           \A h \in Handlers \ {x} : HandlerKept(h),
           x # Sweeper /\ Open(Sweeper) => SweepKept
    PROVE  WorkInv'
<1>1. tx \in [Threads -> Transactions] /\ Sweeper \in Threads /\ Sweeper \notin Handlers
      BY LocksAssumption DEF LockInv, Threads
<1>2. tx' = [tx EXCEPT ![x] = c]
      BY DEF Becomes
<1>3. ASSUME NEW h \in Handlers PROVE WriterWork(tx[h])' /\ PollWork(tx[h])'
  <2>1. CASE h = x
        BY <2>1
  <2>2. CASE h # x
    <3>1. tx'[h] = tx[h] /\ h \in Threads
          BY <1>1, <1>2, <2>2 DEF Threads
    <3>2. Sound(h, tx[h]) /\ WriterWork(tx[h]) /\ PollWork(tx[h]) /\ HandlerKept(h)
          BY <2>2, <3>1 DEF LockInv, WorkInv
    <3> QED BY <3>1, <3>2, HandlerKeepsWork
  <2> QED BY <2>1, <2>2
<1>4. SweepWork(tx[Sweeper])'
  <2>1. CASE x = Sweeper
        BY <2>1
  <2>2. CASE x # Sweeper
    <3>1. tx'[Sweeper] = tx[Sweeper]
          BY <1>1, <1>2, <2>2
    <3> QED BY <2>2, <3>1, SweepKeepsWork DEF WorkInv
  <2> QED BY <2>1, <2>2
<1> QED BY <1>3, <1>4 DEF WorkInv

\* No thread goes on.
LEMMA OneStepKeepsWork ==
    ASSUME LockInv, DbTypeOK, WorkInv, UNCHANGED tx,
           \A h \in Handlers : HandlerKept(h), Open(Sweeper) => SweepKept
    PROVE  WorkInv'
<1>1. ASSUME NEW h \in Handlers PROVE WriterWork(tx[h])' /\ PollWork(tx[h])'
  <2>1. tx'[h] = tx[h] /\ Sound(h, tx[h]) /\ WriterWork(tx[h]) /\ PollWork(tx[h]) /\ HandlerKept(h)
        BY DEF LockInv, WorkInv, Threads
  <2> QED BY <2>1, HandlerKeepsWork
<1>2. SweepWork(tx[Sweeper])'
      BY SweepKeepsWork DEF WorkInv
<1> QED BY <1>1, <1>2 DEF WorkInv

-----------------------------------------------------------------------------
(* The steps that write *)

\* An agent is heard: it is not among those that the sweep has locked.
LEMMA HeardKeeps ==
    ASSUME LockInv, DbTypeOK, WorkInv, NEW a \in Agents, UNCHANGED <<taskVars, tx>>,
           RowIsFree(AgentRow(a)), NEW s \in AgentStatuses,
           agentStatus' = [agentStatus EXCEPT ![a] = s] \/ UNCHANGED agentStatus,
           overdue' = overdue \ {a}
    PROVE  WorkInv'
<1>1. /\ Unresponsive' \subseteq Unresponsive
      /\ \A b \in Unresponsive : b # a => b \in Unresponsive'
      BY DEF Unresponsive, DbTypeOK
<1>2. AgentRow(a) \notin tx[Sweeper].held
      BY DEF RowIsFree, Threads
<1>3. SweepKept
      BY <1>1, <1>2 DEF SweepKept, taskVars
<1>4. ASSUME NEW h \in Handlers PROVE HandlerKept(h)
      BY DEF HandlerKept, taskVars, AgentExists, DbTypeOK, AgentStatuses
<1> QED BY <1>3, <1>4, OneStepKeepsWork

LEMMA AgentsWork ==
    ASSUME LockInv, DbTypeOK, WorkInv, NEW a \in Agents,
           Register(a) \/ PollNothing(a) \/ (\E s \in HeartbeatStatuses : Heartbeat(a, s))
    PROVE  WorkInv'
<1>1. CASE Register(a)
      BY <1>1, HeardKeeps DEF Register, UpsertAgent, AgentStatuses, taskVars
<1>2. CASE PollNothing(a)
  <2>1. PICK n \in FreeSlots : n <= 0 /\ PollTasksForAgent(a, n)
        BY <1>2 DEF PollNothing
  <2>2. overdue' = overdue \ {a} /\ UNCHANGED <<agentStatus, taskVars>>
        BY <2>1, LocksAssumption DEF PollTasksForAgent
  <2>3. "Idle" \in AgentStatuses
        BY DEF AgentStatuses
  <2> QED BY <1>2, <2>2, <2>3, HeardKeeps DEF PollNothing, taskVars
<1>3. ASSUME NEW s \in HeartbeatStatuses, Heartbeat(a, s) PROVE WorkInv'
      BY <1>3, LocksAssumption, HeardKeeps DEF Heartbeat, UpdateHeartbeat, taskVars
<1> QED BY <1>1, <1>2, <1>3

LEMMA AgeWork == ASSUME LockInv, DbTypeOK, WorkInv, NEW a \in Agents, Age(a) PROVE WorkInv'
<1>1. ~Open(Sweeper) /\ UNCHANGED <<tx, agentStatus, taskVars>>
      BY DEF Age, HeartbeatExpires
<1>2. ASSUME NEW h \in Handlers PROVE HandlerKept(h)
      BY <1>1 DEF HandlerKept, taskVars, AgentExists
<1> QED BY <1>1, <1>2, OneStepKeepsWork

LEMMA CreateWork == ASSUME LockInv, DbTypeOK, WorkInv, NEW t \in Tasks, Create(t) PROVE WorkInv'
<1>1. /\ taskState[t] = "Absent" /\ UNCHANGED <<tx, agentVars, openRows>>
      /\ taskState' = [taskState EXCEPT ![t] = "Queued"]
      /\ assignedAgent' = [assignedAgent EXCEPT ![t] = NoAgent]
      BY DEF Create, CreateTask, TaskExists
<1>2. \A u \in Tasks : u # t => taskState'[u] = taskState[u] /\ assignedAgent'[u] = assignedAgent[u]
      BY <1>1 DEF DbTypeOK
<1>3. assignedAgent'[t] = NoAgent
      BY <1>1 DEF DbTypeOK
<1>4. ASSUME NEW h \in Handlers PROVE HandlerKept(h)
      BY <1>1, <1>2 DEF HandlerKept, TasksIn, AgentExists, agentVars
<1>5. Unresponsive' = Unresponsive /\ Unresponsive \subseteq Agents
      BY <1>1 DEF Unresponsive, agentVars, DbTypeOK
<1>6. SweepKept
      BY <1>1, <1>2, <1>3, <1>5, NoAgentAssumption DEF SweepKept, TasksIn, Unfinished
<1> QED BY <1>1, <1>4, <1>6, OneStepKeepsWork

\* A report or a cancel that commits has its task and all open assignments of it.
LEMMA WriterCommits ==
    ASSUME LockInv, DbTypeOK, WorkInv, NEW h \in Handlers, CommitWrite(h)
    PROVE  LET t == tx[h].task
               to == tx[h].to
           IN  /\ t \in Tasks /\ to \in TaskStates
               /\ TaskRow(t) \in tx[h].held
               /\ taskState' = [taskState EXCEPT ![t] = to]
               /\ openRows' = IF to \in TerminalStates
                              THEN [openRows EXCEPT ![t] = [a \in Agents |-> 0]]
                              ELSE openRows
               /\ UNCHANGED <<agentVars, assignedAgent>>
               /\ tx[h].op = "cancel" => to = "Canceled"
               /\ to \in ReportStates \union {"Canceled"}
<1> DEFINE c == tx[h]
<1>1. c \in Transactions /\ h # Sweeper /\ h \in Threads /\ Sound(h, c)
      BY LocksAssumption DEF LockInv, Threads
<1>2. /\ c.op \in {"report", "cancel"} /\ (c.op = "report" => c.to \in ReportStates)
      /\ c.op = "cancel" => c.to = "Canceled"
      BY DEF CommitWrite, WorkInv, WriterWork
<1>3. /\ c.stmt = (IF c.to \in TerminalStates THEN "leases of task" ELSE "task")
      /\ c.left = {}
      BY <1>2 DEF CommitWrite, Done
<1>4. WriterInOrder(c)
      BY <1>1, <1>2 DEF Sound, InOrder, PollInOrder, FreeTx
<1>5. /\ c.task \in Tasks /\ TaskRow(c.task) \in c.held
      /\ c.held \subseteq {TaskRow(c.task)} \union {LeaseRow(c.task, a) : a \in Agents}
      BY <1>3, <1>4 DEF WriterInOrder, OneRow
<1>6. \A u \in Tasks : TaskRow(u) \in c.held <=> u = c.task
      BY <1>5, RowsDiffer
<1>7. \A u \in Tasks, a \in Agents : LeaseRow(u, a) \in c.held => u = c.task
      BY <1>5, RowsDiffer
<1>8. taskState' = [taskState EXCEPT ![c.task] = c.to]
      BY <1>5, <1>6 DEF CommitWrite, DbTypeOK
<1>9. /\ openRows' = [u \in Tasks |-> [a \in Agents |->
                          IF LeaseRow(u, a) \in c.held THEN 0 ELSE openRows[u][a]]]
      /\ openRows \in [Tasks -> [Agents -> Nat]]
      BY DEF CommitWrite, DbTypeOK
<1>10. ASSUME NEW u \in Tasks, \A a \in Agents : LeaseRow(u, a) \notin c.held
       PROVE  openRows'[u] = openRows[u]
  <2>1. openRows[u] \in [Agents -> Nat]
        BY <1>9
  <2>2. openRows'[u] = [a \in Agents |-> openRows[u][a]]
        BY <1>9, <1>10
  <2> QED BY <2>1, <2>2
<1>11. ASSUME c.to \in TerminalStates
       PROVE  openRows' = [openRows EXCEPT ![c.task] = [a \in Agents |-> 0]]
  <2>1. \A a \in Agents : LeaseRow(c.task, a) \in c.held \/ openRows[c.task][a] = 0
    <3>1. \A a \in Agents : openRows[c.task][a] > 0 => LeaseRow(c.task, a) \in c.held
          BY <1>2, <1>3, <1>11 DEF WorkInv, WriterWork
    <3>2. \A a \in Agents : openRows[c.task][a] \in Nat
          BY <1>5 DEF DbTypeOK
    <3> QED BY <3>1, <3>2
  <2>2. openRows'[c.task] = [a \in Agents |-> 0]
        BY <1>5, <1>9, <2>1
  <2>3. \A u \in Tasks : u # c.task => openRows'[u] = openRows[u]
        BY <1>7, <1>10
  <2> QED BY <1>5, <1>9, <2>2, <2>3
<1>12. ASSUME c.to \notin TerminalStates PROVE openRows' = openRows
  <2>1. c.held = {TaskRow(c.task)}
        BY <1>3, <1>4, <1>12 DEF WriterInOrder, OneRow
  <2>2. \A u \in Tasks : openRows'[u] = openRows[u]
        BY <1>5, <1>10, <2>1, RowsDiffer
  <2> QED BY <1>9, <2>2
<1>13. c.to \in TaskStates
       BY <1>1 DEF Transactions
<1> QED BY <1>2, <1>5, <1>8, <1>11, <1>12, <1>13 DEF CommitWrite

LEMMA CommitWriteWork ==
    ASSUME LockInv, DbTypeOK, WorkInv, TablesInv, NEW h \in Handlers, CommitWrite(h) PROVE WorkInv'
<1> DEFINE t == tx[h].task  to == tx[h].to
<1>1. /\ t \in Tasks /\ TaskRow(t) \in tx[h].held
      /\ taskState' = [taskState EXCEPT ![t] = to]
      /\ openRows' = [openRows EXCEPT ![t] = [a \in Agents |-> 0]] \/ openRows' = openRows
      /\ UNCHANGED <<agentVars, assignedAgent>>
      /\ to \in ReportStates \union {"Canceled"}
      BY WriterCommits
<1>2. h \in Threads /\ h # Sweeper /\ Sweeper \in Threads
      BY LocksAssumption DEF Threads
<1>3. /\ \A u \in Tasks : u # t => taskState'[u] = taskState[u] /\ openRows'[u] = openRows[u]
      /\ taskState'[t] = to
      /\ openRows' = openRows \/ \A a \in Agents : openRows'[t][a] = 0
      BY <1>1 DEF DbTypeOK
<1>4. \A u \in Tasks, a \in Agents : openRows'[u][a] > 0 => openRows[u][a] > 0
      BY <1>3
<1>5. \A x \in Threads : x # h => t \notin TasksIn(tx[x])
      BY <1>1, <1>2 DEF LockInv, TasksIn
<1>6. ASSUME NEW g \in Handlers \ {h} PROVE HandlerKept(g)
  <2>1. g \in Threads /\ TasksIn(tx[g]) \subseteq Tasks
        BY DEF Threads, TasksIn
  <2> QED BY <1>1, <1>3, <1>4, <1>5, <1>6, <2>1 DEF HandlerKept, AgentExists, agentVars
<1>7. Unresponsive' = Unresponsive /\ Unresponsive \subseteq Agents
      BY <1>1 DEF Unresponsive, agentVars, DbTypeOK
<1>9. \A u \in Tasks, a \in Agents :
         taskState'[u] \in Unfinished /\ openRows'[u][a] > 0 => taskState[u] \in Unfinished
      BY <1>3, <1>4 DEF TablesInv
<1>10. SweepKept
  <2>1. TasksIn(tx[Sweeper]) \subseteq Tasks
        BY DEF TasksIn
  <2> QED BY <1>1, <1>2, <1>3, <1>4, <1>5, <1>7, <1>9, <2>1 DEF SweepKept
<1>11. CASE Becomes(h, NoTx)
  <2>1. tx'[h] = NoTx
        BY <1>2, <1>11 DEF Becomes, LockInv
  <2>2. (WriterWork(tx[h]) /\ PollWork(tx[h]))'
        BY <2>1 DEF WriterWork, PollWork, NoTx
  <2> QED BY <1>2, <1>6, <1>10, <1>11, <2>2, WriteMoves
<1>12. CASE /\ tx[h].op = "report"
            /\ Becomes(h, [NoTx EXCEPT !.op = "report", !.task = tx[h].task, !.to = tx[h].to,
                                        !.stmt = "task", !.left = {TaskRow(tx[h].task)}])
  <2> DEFINE c == [NoTx EXCEPT !.op = "report", !.task = tx[h].task, !.to = tx[h].to,
                               !.stmt = "task", !.left = {TaskRow(tx[h].task)}]
  <2>1. c.op = "report" /\ c.to = to /\ c.stmt = "task" /\ Becomes(h, c) /\ to \in ReportStates
        BY <1>12 DEF NoTx, WorkInv, WriterWork
  <2> HIDE DEF c
  <2>2. tx'[h] = c
        BY <1>2, <2>1 DEF Becomes, LockInv
  <2>3. (WriterWork(tx[h]) /\ PollWork(tx[h]))'
        BY <1>1, <2>1, <2>2 DEF WriterWork, PollWork
  <2> QED BY <1>2, <1>6, <1>10, <2>1, <2>3, WriteMoves
<1> QED BY <1>11, <1>12 DEF CommitWrite

\* A poll that commits has locked its agent, and tasks that are still dispatchable.
LEMMA PollCommits ==
    ASSUME LockInv, DbTypeOK, WorkInv, NEW h \in Handlers, CommitPoll(h)
    PROVE  /\ tx[h].agent \in Agents /\ AgentExists(tx[h].agent)
           /\ AgentRow(tx[h].agent) \in tx[h].held
           /\ tx[h].slots \in FreeSlots /\ tx[h].slots > 0
           /\ TasksIn(tx[h]) \subseteq Dispatchable(tx[h].agent)
           /\ IsFiniteSet(Tasks) => Cardinality(TasksIn(tx[h])) <= tx[h].slots
           /\ Dispatch(tx[h].agent, TasksIn(tx[h]))
           /\ overdue' = overdue \ {tx[h].agent} /\ Becomes(h, NoTx)
<1>1. tx[h].op = "poll" /\ tx[h].stmt = "none" /\ Sound(h, tx[h]) /\ h # Sweeper
      BY LocksAssumption DEF CommitPoll, Done, LockInv, Threads
<1>2. tx[h].agent \in Agents
      BY <1>1 DEF Sound, InOrder, WriterInOrder, PollInOrder, FreeTx
<1> QED BY <1>1, <1>2 DEF CommitPoll, WorkInv, PollWork, TasksIn

LEMMA CommitPollWork ==
    ASSUME LockInv, DbTypeOK, WorkInv, NEW h \in Handlers, CommitPoll(h) PROVE WorkInv'
<1> DEFINE b == tx[h].agent  S == TasksIn(tx[h])
<1>1. /\ b \in Agents /\ AgentRow(b) \in tx[h].held
      /\ Dispatch(b, S) /\ overdue' = overdue \ {b} /\ Becomes(h, NoTx)
      BY PollCommits
<1>2. h \in Threads /\ h # Sweeper /\ Sweeper \in Threads
      BY LocksAssumption DEF Threads
<1>3. \A u \in Tasks : u \notin S =>
         taskState'[u] = taskState[u] /\ assignedAgent'[u] = assignedAgent[u] /\ openRows'[u] = openRows[u]
      BY <1>1 DEF Dispatch
<1>4. \A u \in Tasks, a \in Agents : a # b => openRows'[u][a] = openRows[u][a]
      BY <1>1 DEF Dispatch, DbTypeOK
<1>5. \A u \in S : u \in Tasks => assignedAgent'[u] = b
      BY <1>1 DEF Dispatch
<1>6. \A x \in Threads : x # h => TasksIn(tx[x]) \intersect S = {}
      BY <1>2 DEF LockInv, TasksIn
<1>7. AgentRow(b) \notin tx[Sweeper].held
      BY <1>1, <1>2 DEF LockInv
<1>8. \A a \in Agents : AgentExists(a) => agentStatus'[a] # "Absent"
      BY <1>1 DEF Dispatch, AgentExists, DbTypeOK
<1>9. ASSUME NEW g \in Handlers \ {h} PROVE HandlerKept(g)
  <2>1. g \in Threads /\ TasksIn(tx[g]) \subseteq Tasks
        BY DEF Threads, TasksIn
  <2>2. TasksIn(tx[g]) \intersect S = {}
        BY <1>6, <2>1
  <2> QED BY <1>3, <1>8, <2>1, <2>2 DEF HandlerKept
<1>10. /\ Unresponsive' \subseteq Unresponsive /\ Unresponsive \subseteq Agents
       /\ \A a \in Unresponsive : a # b => a \in Unresponsive'
       BY <1>1 DEF Unresponsive, Dispatch, DbTypeOK
<1>11. SweepKept
  <2>1. ASSUME NEW a \in Unresponsive, AgentRow(a) \in tx[Sweeper].held
        PROVE  /\ a \in Unresponsive'
               /\ \A t \in Tasks : openRows'[t][a] > 0 => openRows[t][a] > 0
               /\ \A t \in Tasks : assignedAgent'[t] = a /\ taskState'[t] \in Unfinished =>
                     assignedAgent[t] = a /\ taskState[t] \in Unfinished
    <3>1. a # b /\ a \in Agents
          BY <1>7, <1>10, <2>1
    <3> QED BY <1>3, <1>4, <1>5, <1>10, <3>1
  <2>2. \A t \in TasksIn(tx[Sweeper]) : taskState'[t] = taskState[t] /\ assignedAgent'[t] = assignedAgent[t]
        BY <1>2, <1>3, <1>6 DEF TasksIn
  <2> QED BY <1>10, <2>1, <2>2 DEF SweepKept
<1>12. (WriterWork(tx[h]) /\ PollWork(tx[h]))'
  <2>1. tx'[h] = NoTx
        BY <1>1, <1>2 DEF Becomes, LockInv
  <2> QED BY <2>1 DEF WriterWork, PollWork, NoTx
<1> QED BY <1>1, <1>2, <1>9, <1>11, <1>12, WriteMoves

\* A sweep that commits has the silent agents and their open assignments, and unfinished
\* tasks of theirs: those that they hold, and all of them if reports carry results.
LEMMA SweepCommits ==
    ASSUME LockInv, DbTypeOK, WorkInv, TablesInv, CommitSweep
    PROVE  LET Q == TasksIn(tx[Sweeper])
           IN  /\ Q \subseteq Requeued
               /\ \A t \in Tasks, a \in Unresponsive : openRows[t][a] > 0 => t \in Q
               /\ Unresponsive # {} /\ Becomes(Sweeper, NoTx) /\ UNCHANGED overdue
               /\ agentStatus' = [a \in Agents |->
                      IF a \in Unresponsive THEN "Offline" ELSE agentStatus[a]]
               /\ openRows' = [t \in Tasks |-> [a \in Agents |->
                      IF a \in Unresponsive THEN 0 ELSE openRows[t][a]]]
               /\ taskState' = [t \in Tasks |-> IF t \in Q THEN "Queued" ELSE taskState[t]]
               /\ assignedAgent' = [t \in Tasks |-> IF t \in Q THEN NoAgent ELSE assignedAgent[t]]
<1> DEFINE c == tx[Sweeper]  Q == TasksIn(c)
<1>1. c.op = "sweep" /\ c.stmt = "tasks of agent" /\ c.left = {} /\ c.todo = {}
      BY SweepIsOpen DEF CommitSweep
<1>2. SweepHolds(c) /\ SweepFound(c)
      BY <1>1 DEF WorkInv, SweepWork
<1>3. Unresponsive \subseteq Agents
      BY DEF Unresponsive, DbTypeOK
<1>4. /\ c.agent \in Unresponsive
      /\ \A a \in Unresponsive :
            AgentRow(a) \in c.held /\ HasLeasesOf(c.held, a) /\ HasTasksOf(c.held, a)
      BY <1>1, <1>2 DEF SweepFound
<1>5. \A a \in Agents : AgentRow(a) \in c.held <=> a \in Unresponsive
      BY <1>2, <1>3, <1>4 DEF SweepHolds
<1>6. ASSUME NEW t \in Tasks, NEW a \in Agents
      PROVE  (IF LeaseRow(t, a) \in c.held THEN 0 ELSE openRows[t][a])
                = (IF a \in Unresponsive THEN 0 ELSE openRows[t][a])
  <2>1. openRows[t][a] \in Nat
        BY DEF DbTypeOK
  <2>2. LeaseRow(t, a) \in c.held => a \in Unresponsive
        BY <1>2, <1>5 DEF SweepHolds
  <2>3. a \in Unresponsive /\ openRows[t][a] > 0 => LeaseRow(t, a) \in c.held
        BY <1>4 DEF HasLeasesOf
  <2> QED BY <2>1, <2>2, <2>3
<1>7. Q \subseteq Requeued
      BY <1>2, <1>5 DEF SweepHolds, TasksIn, Requeued, Unfinished
<1>9. ASSUME NEW t \in Tasks, NEW a \in Unresponsive, openRows[t][a] > 0 PROVE t \in Q
  <2>1. a \in Agents /\ HasTasksOf(c.held, a)
        BY <1>3, <1>4
  <2>2. assignedAgent[t] = a /\ taskState[t] \in Unfinished
        BY <1>9, <2>1 DEF TablesInv
  <2> QED BY <1>9, <2>1, <2>2 DEF HasTasksOf, TasksIn
<1>10. /\ agentStatus' = [a \in Agents |-> IF a \in Unresponsive THEN "Offline" ELSE agentStatus[a]]
      /\ taskState' = [t \in Tasks |-> IF t \in Q THEN "Queued" ELSE taskState[t]]
      /\ assignedAgent' = [t \in Tasks |-> IF t \in Q THEN NoAgent ELSE assignedAgent[t]]
      /\ UNCHANGED overdue /\ Becomes(Sweeper, NoTx)
      BY <1>5 DEF CommitSweep, TasksIn
<1>11. openRows' = [t \in Tasks |-> [a \in Agents |->
                       IF a \in Unresponsive THEN 0 ELSE openRows[t][a]]]
       BY <1>6 DEF CommitSweep
<1> QED BY <1>4, <1>7, <1>9, <1>10, <1>11

LEMMA CommitSweepWork == ASSUME LockInv, DbTypeOK, WorkInv, TablesInv, CommitSweep PROVE WorkInv'
<1> DEFINE Q == TasksIn(tx[Sweeper])
<1>1. /\ Becomes(Sweeper, NoTx)
      /\ agentStatus' = [a \in Agents |-> IF a \in Unresponsive THEN "Offline" ELSE agentStatus[a]]
      /\ openRows' = [t \in Tasks |-> [a \in Agents |->
                         IF a \in Unresponsive THEN 0 ELSE openRows[t][a]]]
      /\ taskState' = [t \in Tasks |-> IF t \in Q THEN "Queued" ELSE taskState[t]]
      /\ assignedAgent' = [t \in Tasks |-> IF t \in Q THEN NoAgent ELSE assignedAgent[t]]
      BY SweepCommits
<1>2. Sweeper \in Threads /\ Sweeper \notin Handlers
      BY LocksAssumption DEF Threads
<1>3. \A a \in Agents : AgentExists(a) => agentStatus'[a] # "Absent"
      BY <1>1 DEF AgentExists
<1>4. \A t \in Tasks, a \in Agents : openRows'[t][a] > 0 => openRows[t][a] > 0
      BY <1>1
<1>5. \A t \in Tasks : t \notin Q => taskState'[t] = taskState[t] /\ assignedAgent'[t] = assignedAgent[t]
      BY <1>1
<1>6. ASSUME NEW h \in Handlers PROVE HandlerKept(h)
  <2>1. ASSUME NEW t \in TasksIn(tx[h]) PROVE t \in Tasks /\ t \notin Q
        BY <1>2 DEF LockInv, TasksIn, Threads
  <2> QED BY <1>3, <1>4, <1>5, <2>1 DEF HandlerKept
<1>7. SweepWork(tx[Sweeper])'
  <2>1. tx'[Sweeper] = NoTx
        BY <1>1, <1>2 DEF Becomes, LockInv
  <2> QED BY <2>1 DEF SweepWork, NoTx
<1> QED BY <1>1, <1>2, <1>6, <1>7, WriteMoves

-----------------------------------------------------------------------------
(* What transactions rely on holds throughout. *)

LEMMA BeginsWork ==
    ASSUME LockInv, DbTypeOK, WorkInv, NEW h \in Handlers,
           \/ \E t \in Tasks, to \in ReportStates : BeginReport(h, t, to)
           \/ \E t \in Tasks : BeginCancel(h, t)
           \/ \E a \in Agents, n \in FreeSlots : BeginPoll(h, a, n)
    PROVE  WorkInv'
<1>1. ASSUME NEW t \in Tasks, NEW to \in ReportStates, BeginReport(h, t, to) PROVE WorkInv'
  <2> DEFINE c == Statement([NoTx EXCEPT !.op = "report", !.task = t, !.to = to], "task")
  <2>1. to \in TaskStates /\ Becomes(h, c) /\ UNCHANGED dbVars
        BY <1>1, LocksAssumption DEF BeginReport
  <2>2. WriterWork(c) /\ PollWork(c)
        BY <2>1, BeginWriteWork
  <2> HIDE DEF c
  <2> QED BY <2>1, <2>2, HandlerMoves
<1>2. ASSUME NEW t \in Tasks, BeginCancel(h, t) PROVE WorkInv'
  <2> DEFINE c == Statement([NoTx EXCEPT !.op = "cancel", !.task = t, !.to = "Canceled"], "task")
  <2>1. "Canceled" \in TaskStates /\ Becomes(h, c) /\ UNCHANGED dbVars
        BY <1>2 DEF BeginCancel, TaskStates
  <2>2. WriterWork(c) /\ PollWork(c)
        BY <2>1, BeginWriteWork
  <2> HIDE DEF c
  <2> QED BY <2>1, <2>2, HandlerMoves
<1>3. ASSUME NEW a \in Agents, NEW n \in FreeSlots, BeginPoll(h, a, n) PROVE WorkInv'
  <2> DEFINE c == Statement([NoTx EXCEPT !.op = "poll", !.agent = a, !.slots = n], "agent")
  <2>1. AgentExists(a) /\ n > 0 /\ Becomes(h, c) /\ UNCHANGED dbVars
        BY <1>3 DEF BeginPoll
  <2>2. WriterWork(c) /\ PollWork(c)
        BY <2>1, BeginPollWork
  <2> HIDE DEF c
  <2> QED BY <2>1, <2>2, HandlerMoves
<1> QED BY <1>1, <1>2, <1>3

LEMMA WorkInvNext ==
    ASSUME LockInv, DbTypeOK, WorkInv, TablesInv, [LocksNext]_lockVars PROVE WorkInv'
<1>0. CASE UNCHANGED lockVars
  <2>1. UNCHANGED dbVars /\ UNCHANGED tx
        BY <1>0 DEF lockVars
  <2> QED BY <2>1, WriterSame, PollSame, SweepSame DEF WorkInv
<1>1. ASSUME NEW a \in Agents, Register(a) \/ PollNothing(a) \/ Age(a) PROVE WorkInv'
      BY <1>1, AgentsWork, AgeWork
<1>2. ASSUME NEW a \in Agents, NEW s \in HeartbeatStatuses, Heartbeat(a, s) PROVE WorkInv'
      BY <1>2, AgentsWork
<1>3. ASSUME NEW t \in Tasks, Create(t) PROVE WorkInv'
      BY <1>3, CreateWork
<1>4. ASSUME NEW h \in Handlers, HandlerStep(h) PROVE WorkInv'
  <2>1. h \in Threads
        BY DEF Threads
  <2> QED BY <1>4, <2>1, LockRowWork, WaitForRowWork, AbortWork, CloseLeasesWork,
             CommitWriteWork, SelectTasksWork, CommitPollWork DEF HandlerStep, RollBack
<1>5. CASE SweepStep
  <2>1. Sweeper \in Threads
        BY DEF Threads
  <2>2. CASE SweepNobody
        BY <2>2, NoTxWork, SweepMoves DEF SweepNobody
  <2> QED BY <1>5, <2>1, <2>2, LockRowWork, WaitForRowWork, AbortWork, BeginSweepWork,
             SweepAgentWork, SweepTasksWork, CommitSweepWork DEF SweepStep, RollBack
<1>6. ASSUME NEW x \in Threads, LoseConnection(x) PROVE WorkInv'
      BY <1>6, AbortWork DEF LoseConnection
<1> QED BY <1>0, <1>1, <1>2, <1>3, <1>4, <1>5, <1>6, BeginsWork DEF LocksNext

-----------------------------------------------------------------------------
(* What a step does to the tables *)

\* A poll that commits: S are tasks that anyone may take.
Polls(a, S) == S \subseteq Dispatchable(a) /\ Dispatch(a, S)

\* A sweep that commits: Q are the tasks that it puts back.
Sweeps(Q) ==
    /\ Q \subseteq Requeued
    /\ \A t \in Tasks, a \in Unresponsive : openRows[t][a] > 0 => t \in Q
    /\ agentStatus' = [a \in Agents |-> IF a \in Unresponsive THEN "Offline" ELSE agentStatus[a]]
    /\ openRows' = [t \in Tasks |-> [a \in Agents |->
           IF a \in Unresponsive THEN 0 ELSE openRows[t][a]]]
    /\ taskState' = [t \in Tasks |-> IF t \in Q THEN "Queued" ELSE taskState[t]]
    /\ assignedAgent' = [t \in Tasks |-> IF t \in Q THEN NoAgent ELSE assignedAgent[t]]

\* An agent is heard, or nothing happens to the tables but that time passes.
Hears ==
    /\ UNCHANGED taskVars
    /\ \/ UNCHANGED agentStatus
       \/ \E a \in Agents, s \in HeartbeatStatuses \union {"Idle"} :
             agentStatus' = [agentStatus EXCEPT ![a] = s]

LEMMA TablesChange ==
    ASSUME LockInv, DbTypeOK, WorkInv, TablesInv, [LocksNext]_lockVars
    PROVE  \/ Hears
           \/ \E t \in Tasks : CreateTask(t)
           \/ \E t \in Tasks, to \in ReportStates \union {"Canceled"} : UpdateTaskStatus(t, to)
           \/ \E a \in Agents, S \in SUBSET Tasks : Polls(a, S)
           \/ \E Q \in SUBSET Tasks : Sweeps(Q)
<1> DEFINE G == \/ Hears
                \/ \E t \in Tasks : CreateTask(t)
                \/ \E t \in Tasks, to \in ReportStates \union {"Canceled"} : UpdateTaskStatus(t, to)
                \/ \E a \in Agents, S \in SUBSET Tasks : Polls(a, S)
                \/ \E Q \in SUBSET Tasks : Sweeps(Q)
<1>1. UNCHANGED dbVars => Hears
      BY DEF dbVars, Hears, taskVars
<1>2. ASSUME NEW a \in Agents, Register(a) \/ PollNothing(a) \/ Age(a) PROVE Hears
  <2>1. CASE Register(a)
        BY <2>1 DEF Register, UpsertAgent, Hears
  <2>2. CASE PollNothing(a)
    <3>1. PICK n \in FreeSlots : n <= 0 /\ PollTasksForAgent(a, n)
          BY <2>2 DEF PollNothing
    <3> QED BY <3>1, LocksAssumption DEF PollTasksForAgent, Hears
  <2>3. CASE Age(a)
        BY <2>3 DEF Age, HeartbeatExpires, Hears
  <2> QED BY <1>2, <2>1, <2>2, <2>3
<1>3. ASSUME NEW a \in Agents, NEW s \in HeartbeatStatuses, Heartbeat(a, s) PROVE Hears
      BY <1>3 DEF Heartbeat, UpdateHeartbeat, Hears
<1>4. ASSUME NEW t \in Tasks, Create(t) PROVE CreateTask(t)
      BY <1>4 DEF Create
<1>5. ASSUME NEW h \in Handlers, CommitWrite(h)
      PROVE  \E t \in Tasks, to \in ReportStates \union {"Canceled"} : UpdateTaskStatus(t, to)
  <2>1. UpdateTaskStatus(tx[h].task, tx[h].to)
        BY <1>5, WriterCommits DEF UpdateTaskStatus, CloseRowsOf
  <2>2. tx[h].task \in Tasks /\ tx[h].to \in ReportStates \union {"Canceled"}
        BY <1>5, WriterCommits
  <2> QED BY <2>1, <2>2
<1>6. ASSUME NEW h \in Handlers, CommitPoll(h)
      PROVE  \E a \in Agents, S \in SUBSET Tasks : Polls(a, S)
  <2>1. TasksIn(tx[h]) \in SUBSET Tasks
        BY DEF TasksIn
  <2>2. tx[h].agent \in Agents /\ Polls(tx[h].agent, TasksIn(tx[h]))
        BY <1>6, PollCommits DEF Polls
  <2> QED BY <2>1, <2>2
<1>7. ASSUME CommitSweep PROVE \E Q \in SUBSET Tasks : Sweeps(Q)
  <2>1. TasksIn(tx[Sweeper]) \in SUBSET Tasks
        BY DEF TasksIn
  <2>2. Sweeps(TasksIn(tx[Sweeper]))
        BY <1>7, SweepCommits DEF Sweeps
  <2> QED BY <2>1, <2>2
<1>8. ASSUME NEW h \in Handlers, HandlerStep(h) PROVE G
  <2>1. CASE LockRow(h) \/ WaitForRow(h) \/ RollBack(h) \/ CloseLeases(h) \/ SelectTasks(h)
        BY <1>1, <2>1 DEF LockRow, WaitForRow, RollBack, Abort, CloseLeases, SelectTasks
  <2> QED BY <1>5, <1>6, <1>8, <2>1 DEF HandlerStep
<1>9. ASSUME SweepStep PROVE G
  <2>1. CASE \/ BeginSweep \/ SweepNobody \/ SweepAgent \/ SweepTasks
             \/ LockRow(Sweeper) \/ WaitForRow(Sweeper) \/ RollBack(Sweeper)
        BY <1>1, <2>1 DEF BeginSweep, SweepNobody, SweepAgent, SweepTasks, LockRow, WaitForRow,
                          RollBack, Abort
  <2> QED BY <1>7, <1>9, <2>1 DEF SweepStep
<1>10. ASSUME NEW h \in Handlers,
              \/ \E t \in Tasks, to \in ReportStates : BeginReport(h, t, to)
              \/ \E t \in Tasks : BeginCancel(h, t)
              \/ \E a \in Agents, n \in FreeSlots : BeginPoll(h, a, n)
       PROVE  Hears
      BY <1>1, <1>10 DEF BeginReport, BeginCancel, BeginPoll
<1>11. UNCHANGED lockVars => Hears
       BY <1>1 DEF lockVars
<1>12. ASSUME NEW x \in Threads, LoseConnection(x) PROVE Hears
       BY <1>1, <1>12 DEF LoseConnection, Abort
<1> QED BY <1>2, <1>3, <1>4, <1>8, <1>9, <1>10, <1>11, <1>12 DEF LocksNext

\* A report or a cancel touches one task.
LEMMA WrittenTask ==
    ASSUME DbTypeOK, NEW t \in Tasks, NEW to \in TaskStates, UpdateTaskStatus(t, to)
    PROVE  /\ taskState'[t] = to
           /\ to \in TerminalStates => \A a \in Agents : openRows'[t][a] = 0
           /\ to \notin TerminalStates => openRows'[t] = openRows[t]
           /\ \A u \in Tasks : u # t => taskState'[u] = taskState[u] /\ openRows'[u] = openRows[u]
           /\ UNCHANGED <<agentStatus, assignedAgent>>
<1>1. CASE to \in TerminalStates
      BY <1>1 DEF UpdateTaskStatus, CloseRowsOf, DbTypeOK, agentVars
<1>2. CASE to \notin TerminalStates
      BY <1>2 DEF UpdateTaskStatus, DbTypeOK, agentVars
<1> QED BY <1>1, <1>2

\* A poll takes tasks that nobody holds.
LEMMA PolledTasks ==
    ASSUME DbTypeOK, TablesInv, NEW a \in Agents, NEW S \in SUBSET Tasks, Polls(a, S)
    PROVE  /\ \A t \in S : /\ taskState[t] = "Queued" /\ assignedAgent[t] = NoAgent
                           /\ taskState'[t] = "Running" /\ assignedAgent'[t] = a
                           /\ \A b \in Agents : openRows'[t][b] = IF b = a THEN 1 ELSE 0
           /\ \A t \in Tasks \ S : /\ taskState'[t] = taskState[t]
                                   /\ assignedAgent'[t] = assignedAgent[t]
                                   /\ openRows'[t] = openRows[t]
           /\ agentStatus'[a] \in {"Idle", "Busy"}
           /\ \A b \in Agents \ {a} : agentStatus'[b] = agentStatus[b]
<1>1. \A t \in S : taskState[t] = "Queued" /\ assignedAgent[t] = NoAgent
      BY DEF Polls, Dispatchable
<1>2. \A t \in S, b \in Agents : openRows[t][b] = 0
      BY <1>1, NoAgentAssumption DEF TablesInv, DbTypeOK
<1>3. \A t \in S : /\ taskState'[t] = "Running" /\ assignedAgent'[t] = a
                   /\ openRows'[t] = [openRows[t] EXCEPT ![a] = @ + 1]
      BY DEF Polls, Dispatch
<1>4. ASSUME NEW t \in S, NEW b \in Agents PROVE openRows'[t][b] = IF b = a THEN 1 ELSE 0
  <2>1. openRows[t] \in [Agents -> Nat] /\ openRows[t][b] = 0
        BY <1>2 DEF DbTypeOK
  <2>2. openRows'[t] = [openRows[t] EXCEPT ![a] = @ + 1]
        BY <1>3
  <2>3. CASE b = a
        BY <2>1, <2>2, <2>3
  <2>4. CASE b # a
        BY <2>1, <2>2, <2>4
  <2> QED BY <2>3, <2>4
<1>5. \A t \in Tasks \ S : /\ taskState'[t] = taskState[t]
                           /\ assignedAgent'[t] = assignedAgent[t]
                           /\ openRows'[t] = openRows[t]
      BY DEF Polls, Dispatch
<1>6. /\ agentStatus'[a] \in {"Idle", "Busy"}
      /\ \A b \in Agents \ {a} : agentStatus'[b] = agentStatus[b]
      BY DEF Polls, Dispatch, DbTypeOK
<1> QED BY <1>1, <1>3, <1>4, <1>5, <1>6

\* A sweep ends the leases of the silent agents and puts their tasks back.
LEMMA SweptTasks ==
    ASSUME DbTypeOK, TablesInv, NEW Q \in SUBSET Tasks, Sweeps(Q)
    PROVE  /\ \A t \in Q : /\ assignedAgent[t] \in Unresponsive
                           /\ taskState[t] \in Unfinished
                           /\ taskState'[t] = "Queued" /\ assignedAgent'[t] = NoAgent
                           /\ \A a \in Agents : openRows'[t][a] = 0
           /\ \A t \in Tasks \ Q : /\ taskState'[t] = taskState[t]
                                   /\ assignedAgent'[t] = assignedAgent[t]
                                   /\ \A a \in Agents : openRows'[t][a] = openRows[t][a]
           /\ \A t \in Tasks, a \in Agents :
                 openRows'[t][a] = IF a \in Unresponsive THEN 0 ELSE openRows[t][a]
           /\ \A a \in Agents \ Unresponsive : agentStatus'[a] = agentStatus[a]
<1>1. \A t \in Tasks, a \in Agents :
         openRows'[t][a] = IF a \in Unresponsive THEN 0 ELSE openRows[t][a]
      BY DEF Sweeps
<1>2. \A t \in Q : /\ assignedAgent[t] \in Unresponsive /\ taskState[t] \in Unfinished
                   /\ taskState'[t] = "Queued" /\ assignedAgent'[t] = NoAgent
      BY DEF Sweeps, Requeued, Unfinished
<1>3. \A t \in Tasks \ Q : /\ taskState'[t] = taskState[t]
                           /\ assignedAgent'[t] = assignedAgent[t]
      BY DEF Sweeps
<1>4. \A t \in Tasks, a \in Agents : openRows[t][a] \in Nat
      BY DEF DbTypeOK
<1>5. ASSUME NEW t \in Q, NEW a \in Agents PROVE openRows'[t][a] = 0
  <2>1. openRows[t][a] > 0 => a \in Unresponsive
        BY <1>2 DEF TablesInv
  <2> QED BY <1>1, <1>4, <2>1
<1>6. ASSUME NEW t \in Tasks \ Q, NEW a \in Agents PROVE openRows'[t][a] = openRows[t][a]
  <2>1. a \in Unresponsive => ~(openRows[t][a] > 0)
        BY <1>6 DEF Sweeps
  <2> QED BY <1>1, <1>4, <2>1
<1>7. \A a \in Agents \ Unresponsive : agentStatus'[a] = agentStatus[a]
      BY DEF Sweeps
<1> QED BY <1>1, <1>2, <1>3, <1>5, <1>6, <1>7

-----------------------------------------------------------------------------
(* The tables keep their promises. *)

LEMMA TablesInvInit == LocksInit => TablesInv
BY DEF LocksInit, DbInit, TablesInv

LEMMA TablesInvNext ==
    ASSUME LockInv, DbTypeOK, WorkInv, TablesInv, [LocksNext]_lockVars PROVE TablesInv'
<1>1. CASE Hears
      BY <1>1 DEF Hears, taskVars, TablesInv
<1>2. ASSUME NEW t \in Tasks, CreateTask(t) PROVE TablesInv'
  <2>1. \A a \in Agents : ~(openRows[t][a] > 0)
        BY <1>2 DEF CreateTask, TaskExists, TablesInv, Unfinished
  <2>2. /\ taskState'[t] = "Queued" /\ UNCHANGED openRows
        /\ \A u \in Tasks : u # t => taskState'[u] = taskState[u] /\ assignedAgent'[u] = assignedAgent[u]
        BY <1>2 DEF CreateTask, DbTypeOK
  <2> QED BY <2>1, <2>2 DEF TablesInv
<1>3. ASSUME NEW t \in Tasks, NEW to \in ReportStates \union {"Canceled"}, UpdateTaskStatus(t, to)
      PROVE  TablesInv'
  <2>1. to \in TaskStates
        BY LocksAssumption DEF TaskStates
  <2>2. to \notin TerminalStates => to \in Unfinished
        BY <2>1 DEF TaskStates, TerminalStates, Unfinished
  <2>3. to # "Absent"
        BY <2>1 DEF TaskStates
  <2> QED BY <1>3, <2>1, <2>2, <2>3, WrittenTask DEF TablesInv
<1>4. ASSUME NEW a \in Agents, NEW S \in SUBSET Tasks, Polls(a, S) PROVE TablesInv'
  <2>1. ASSUME NEW t \in Tasks, t \in S
        PROVE  /\ taskState'[t] \in Unfinished /\ taskState'[t] # "Absent" /\ assignedAgent'[t] = a
               /\ \A b \in Agents : openRows'[t][b] <= 1 /\ (openRows'[t][b] > 0 => b = a)
        BY <1>4, <2>1, PolledTasks DEF Unfinished
  <2>2. ASSUME NEW t \in Tasks, t \notin S
        PROVE  /\ taskState'[t] = taskState[t] /\ assignedAgent'[t] = assignedAgent[t]
               /\ openRows'[t] = openRows[t]
        BY <1>4, <2>2, PolledTasks
  <2> QED BY <2>1, <2>2 DEF TablesInv
<1>5. ASSUME NEW Q \in SUBSET Tasks, Sweeps(Q) PROVE TablesInv'
      BY <1>5, SweptTasks DEF TablesInv
<1> QED BY <1>1, <1>2, <1>3, <1>4, <1>5, TablesChange

LEMMA WorkInvAlways == LocksSpec => [](DbTypeOK /\ LockInv /\ WorkInv /\ TablesInv)
<1>1. LocksInit => DbTypeOK /\ LockInv /\ WorkInv /\ TablesInv
      BY DbTypedInit, LockInvInit, WorkInvInit, TablesInvInit
<1>2. (DbTypeOK /\ LockInv /\ WorkInv /\ TablesInv) /\ [LocksNext]_lockVars
          => (DbTypeOK /\ LockInv /\ WorkInv /\ TablesInv)'
      BY DbTypedNext, LockInvNext, WorkInvNext, TablesInvNext
<1> QED BY <1>1, <1>2, PTL DEF LocksSpec

-----------------------------------------------------------------------------
(* The promises of ControlService *)

Kept == DbTypeOK /\ LockInv /\ WorkInv /\ TablesInv

LEMMA KeptAlways == LocksSpec => []Kept
<1>1. DbTypeOK /\ LockInv /\ WorkInv /\ TablesInv => Kept
      BY DEF Kept
<1> QED BY <1>1, WorkInvAlways, PTL

LEMMA ReportedStates ==
    ASSUME NEW to \in ReportStates \union {"Canceled"} PROVE to \in TaskStates
BY LocksAssumption DEF TaskStates

\* At every statement of every transaction a task has at most one open assignment, its
\* assigned agent's: what one request has read and another has changed gives no duplicate.
THEOREM StatementsKeepOneLease == LocksSpec => []Service!OneLeasePerTask
<1>1. Kept => Service!OneLeasePerTask
      BY DEF Kept, TablesInv, Service!OneLeasePerTask, Service!HasLease
<1> QED BY <1>1, KeptAlways, PTL

\* Whatever a report or a cancel overwrites, a finished task has no open assignment.
THEOREM StatementsCloseFinished == LocksSpec => []Service!FinishedHoldsNoLease
<1>1. Kept => Service!FinishedHoldsNoLease
      BY DEF Kept, TablesInv, Unfinished, DbTypeOK, Service!FinishedHoldsNoLease,
             Service!HasLease, Service!TerminalStates
<1> QED BY <1>1, KeptAlways, PTL

\* No agent goes Offline with an open assignment that a poll gave it while the sweep was
\* under way: the sweep finds it, since it has the agent's row.
THEOREM StatementsLeaveNoOfflineLease ==
    ASSUME "Offline" \notin HeartbeatStatuses
    PROVE  LocksSpec => []Service!OfflineHoldsNoLease
<1> DEFINE Off == \A t \in Tasks, a \in Agents :
                     openRows[t][a] > 0 => agentStatus[a] \in {"Idle", "Busy"}
<1>1. LocksInit => Off
      BY DEF LocksInit, DbInit
<1>2. ASSUME Kept, Off, [LocksNext]_lockVars PROVE Off'
  <2> SUFFICES ASSUME NEW u \in Tasks, NEW b \in Agents, openRows'[u][b] > 0
               PROVE  agentStatus'[b] \in {"Idle", "Busy"}
        OBVIOUS
  <2>0. DbTypeOK /\ TablesInv /\ (openRows[u][b] > 0 => agentStatus[b] \in {"Idle", "Busy"})
        BY <1>2 DEF Kept
  <2>1. CASE Hears
    <3>1. openRows[u][b] > 0
          BY <2>1 DEF Hears, taskVars
    <3>2. HeartbeatStatuses \union {"Idle"} \subseteq {"Idle", "Busy"}
          BY LocksAssumption DEF AgentStatuses
    <3> QED BY <2>0, <2>1, <3>1, <3>2 DEF Hears, DbTypeOK
  <2>2. ASSUME NEW t \in Tasks, CreateTask(t) PROVE agentStatus'[b] \in {"Idle", "Busy"}
        BY <2>0, <2>2 DEF CreateTask, agentVars
  <2>3. ASSUME NEW t \in Tasks, NEW to \in ReportStates \union {"Canceled"}, UpdateTaskStatus(t, to)
        PROVE  agentStatus'[b] \in {"Idle", "Busy"}
        BY <2>0, <2>3, ReportedStates, WrittenTask
  <2>4. ASSUME NEW a \in Agents, NEW S \in SUBSET Tasks, Polls(a, S)
        PROVE  agentStatus'[b] \in {"Idle", "Busy"}
    <3>1. CASE b = a
          BY <2>0, <2>4, <3>1, PolledTasks
    <3>2. CASE b # a
          BY <2>0, <2>4, <3>2, PolledTasks
    <3> QED BY <3>1, <3>2
  <2>5. ASSUME NEW Q \in SUBSET Tasks, Sweeps(Q) PROVE agentStatus'[b] \in {"Idle", "Busy"}
    <3>1. b \notin Unresponsive /\ openRows[u][b] > 0
          BY <2>0, <2>5, SweptTasks
    <3> QED BY <2>0, <2>5, <3>1, SweptTasks
  <2> QED BY <1>2, <2>1, <2>2, <2>3, <2>4, <2>5, TablesChange DEF Kept
<1>3. Off => Service!OfflineHoldsNoLease
      BY DEF Service!OfflineHoldsNoLease, Service!HasLease
<1>4. Kept /\ Off /\ [LocksNext]_lockVars => Off'
      BY <1>2
<1> HIDE DEF Off
<1> QED BY <1>1, <1>3, <1>4, KeptAlways, PTL DEF LocksSpec

\* A task that the tables show as Queued can be polled, at every statement.
THEOREM StatementsKeepQueuePollable ==
    ASSUME "Queued" \notin ReportStates
    PROVE  LocksSpec => []Service!QueuedIsPollable
<1> DEFINE Que == \A t \in Tasks : taskState[t] = "Queued" => assignedAgent[t] = NoAgent
<1>1. LocksInit => Que
      BY DEF LocksInit, DbInit
<1>2. ASSUME Kept, Que, [LocksNext]_lockVars PROVE Que'
  <2> SUFFICES ASSUME NEW u \in Tasks, taskState'[u] = "Queued" PROVE assignedAgent'[u] = NoAgent
        OBVIOUS
  <2>0. DbTypeOK /\ TablesInv /\ (taskState[u] = "Queued" => assignedAgent[u] = NoAgent)
        BY <1>2 DEF Kept
  <2>1. CASE Hears
        BY <2>0, <2>1 DEF Hears, taskVars
  <2>2. ASSUME NEW t \in Tasks, CreateTask(t) PROVE assignedAgent'[u] = NoAgent
        BY <2>0, <2>2 DEF CreateTask, DbTypeOK
  <2>3. ASSUME NEW t \in Tasks, NEW to \in ReportStates \union {"Canceled"}, UpdateTaskStatus(t, to)
        PROVE  assignedAgent'[u] = NoAgent
        BY <2>0, <2>3, ReportedStates, WrittenTask
  <2>4. ASSUME NEW a \in Agents, NEW S \in SUBSET Tasks, Polls(a, S)
        PROVE  assignedAgent'[u] = NoAgent
    <3>1. u \notin S
          BY <2>0, <2>4, PolledTasks
    <3> QED BY <2>0, <2>4, <3>1, PolledTasks
  <2>5. ASSUME NEW Q \in SUBSET Tasks, Sweeps(Q) PROVE assignedAgent'[u] = NoAgent
        BY <2>0, <2>5, SweptTasks
  <2> QED BY <1>2, <2>1, <2>2, <2>3, <2>4, <2>5, TablesChange DEF Kept
<1>3. Que => Service!QueuedIsPollable
      BY DEF Service!QueuedIsPollable
<1>4. Kept /\ Que /\ [LocksNext]_lockVars => Que'
      BY <1>2
<1> HIDE DEF Que
<1> QED BY <1>1, <1>3, <1>4, KeptAlways, PTL DEF LocksSpec

\* Where a task has an open assignment it is Running, at every statement.
THEOREM StatementsRunWhatTheyLease ==
    ASSUME "Queued" \notin ReportStates
    PROVE  LocksSpec => []Service!LeaseMeansRunning
<1>1. Kept /\ Service!QueuedIsPollable => Service!LeaseMeansRunning
      BY NoAgentAssumption
      DEF Kept, TablesInv, Unfinished, Service!QueuedIsPollable, Service!LeaseMeansRunning,
          Service!HasLease
<1> QED BY <1>1, StatementsKeepQueuePollable, KeptAlways, PTL

\* A task loses its agent only when a sweep commits that has found the agent silent, and
\* has it still: reports, cancels and polls that overtake the sweep never take it away.
THEOREM StatementsLeaveAgentsTheirTasks == LocksSpec => Service!AgentLostOnlyBySweep
<1> DEFINE P(t) == assignedAgent'[t] # assignedAgent[t] =>
                      \/ assignedAgent[t] = NoAgent /\ taskState[t] = "Queued"
                      \/ /\ assignedAgent'[t] = NoAgent
                         /\ assignedAgent[t] \in overdue
                         /\ taskState'[t] = "Queued"
<1>1. ASSUME Kept, [LocksNext]_lockVars, NEW u \in Tasks PROVE P(u)
  <2>0. DbTypeOK /\ TablesInv
        BY <1>1 DEF Kept
  <2>1. CASE Hears
        BY <2>1 DEF Hears, taskVars
  <2>2. ASSUME NEW t \in Tasks, CreateTask(t) PROVE P(u)
    <3>1. assignedAgent[t] = NoAgent
          BY <2>0, <2>2 DEF CreateTask, TaskExists, TablesInv
    <3> QED BY <2>0, <2>2, <3>1 DEF CreateTask, DbTypeOK
  <2>3. ASSUME NEW t \in Tasks, NEW to \in ReportStates \union {"Canceled"}, UpdateTaskStatus(t, to)
        PROVE  P(u)
        BY <2>3 DEF UpdateTaskStatus
  <2>4. ASSUME NEW a \in Agents, NEW S \in SUBSET Tasks, Polls(a, S) PROVE P(u)
        BY <2>0, <2>4, PolledTasks
  <2>5. ASSUME NEW Q \in SUBSET Tasks, Sweeps(Q) PROVE P(u)
        BY <2>0, <2>5, SweptTasks DEF Unresponsive
  <2> QED BY <1>1, <2>1, <2>2, <2>3, <2>4, <2>5, TablesChange DEF Kept
<1>2. Kept /\ [LocksNext]_lockVars => [\A t \in Tasks : P(t)]_(Service!vars)
      BY <1>1
<1>3. Service!AgentLostOnlyBySweep <=> [][\A t \in Tasks : P(t)]_(Service!vars)
      BY PTL DEF Service!AgentLostOnlyBySweep
<1> HIDE DEF P
<1> QED BY <1>2, <1>3, KeptAlways, PTL DEF LocksSpec

-----------------------------------------------------------------------------
(* The lease table *)

\* holder reads the open rows.
HolderReads ==
    /\ Service!holder \in [Tasks -> Agents \union {NoAgent}]
    /\ \A t \in Tasks, a \in Agents : Service!holder[t] = a <=> openRows[t][a] > 0

LEMMA HolderIsAssigned == TablesInv => HolderReads
<1> SUFFICES ASSUME TablesInv PROVE HolderReads
      OBVIOUS
<1>1. ASSUME NEW t \in Tasks
      PROVE  /\ Service!holder[t] \in Agents \union {NoAgent}
             /\ \A a \in Agents : Service!holder[t] = a <=> openRows[t][a] > 0
  <2>1. CASE \E a \in Agents : openRows[t][a] > 0
    <3>1. PICK a \in Agents : openRows[t][a] > 0
          BY <2>1
    <3>2. \A b \in Agents : openRows[t][b] > 0 => b = a
          BY <3>1 DEF TablesInv
    <3>3. Service!holder[t] = CHOOSE b \in Agents : openRows[t][b] > 0
          BY <2>1 DEF Service!holder, Service!HasLease
    <3> QED BY <3>1, <3>2, <3>3
  <2>2. CASE ~ \E a \in Agents : openRows[t][a] > 0
        BY <2>2, NoAgentAssumption DEF Service!holder, Service!HasLease
  <2> QED BY <2>1, <2>2
<1> QED BY <1>1 DEF HolderReads, Service!holder

LEMMA LeaseTableStarts == LocksInit => Service!Lease!Init
<1> SUFFICES ASSUME LocksInit PROVE Service!Lease!Init
      OBVIOUS
<1>1. Service!holder = [t \in Tasks |-> NoAgent]
      BY DEF LocksInit, DbInit, Service!holder, Service!HasLease
<1>2. Service!waiting = {}
      BY DEF LocksInit, DbInit, Service!waiting
<1> QED BY <1>1, <1>2 DEF Service!Lease!Init

\* A result or a cancel takes the task from its holder and from the queue; another report
\* moves it in or out of the queue, if nobody holds it.
LEMMA WriteMovesLease ==
    ASSUME DbTypeOK, TablesInv, HolderReads, HolderReads',
           NEW t \in Tasks, NEW to \in TaskStates, UpdateTaskStatus(t, to)
    PROVE  [Service!Lease!Next]_(Service!Lease!vars)
<1>1. /\ taskState'[t] = to
      /\ to \in TerminalStates => \A a \in Agents : openRows'[t][a] = 0
      /\ to \notin TerminalStates => openRows'[t] = openRows[t]
      /\ \A u \in Tasks : u # t => taskState'[u] = taskState[u] /\ openRows'[u] = openRows[u]
      /\ assignedAgent' = assignedAgent
      BY WrittenTask
<1>2. \A u \in Tasks \ {t} : Service!holder'[u] = Service!holder[u]
      BY <1>1 DEF HolderReads
<1>3. CASE to \in TerminalStates
  <2>1. Service!holder'[t] = NoAgent
        BY <1>1, <1>3 DEF HolderReads
  <2>2. Service!holder' = [Service!holder EXCEPT ![t] = NoAgent]
        BY <1>2, <2>1 DEF HolderReads
  <2>3. Service!waiting' = Service!waiting \ {t}
        BY <1>1, <1>3 DEF Service!waiting, TerminalStates
  <2> QED BY <2>2, <2>3 DEF Service!Lease!Next, Service!Lease!Release
<1>4. CASE to \notin TerminalStates /\ assignedAgent[t] # NoAgent
  <2>1. Service!holder'[t] = Service!holder[t]
        BY <1>1, <1>4 DEF HolderReads
  <2>2. Service!holder' = Service!holder
        BY <1>2, <2>1 DEF HolderReads
  <2>3. Service!waiting' = Service!waiting
        BY <1>1, <1>4 DEF Service!waiting
  <2> QED BY <2>2, <2>3 DEF Service!Lease!vars
<1>5. CASE to \notin TerminalStates /\ assignedAgent[t] = NoAgent
  <2>1. Service!holder'[t] = Service!holder[t]
        BY <1>1, <1>5 DEF HolderReads
  <2>2. Service!holder' = Service!holder
        BY <1>2, <2>1 DEF HolderReads
  <2>3. \A a \in Agents : ~(openRows[t][a] > 0)
        BY <1>5, NoAgentAssumption DEF TablesInv
  <2>4. Service!holder[t] = NoAgent
        BY <2>3 DEF HolderReads
  <2>5. Service!holder' = [Service!holder EXCEPT ![t] = NoAgent]
        BY <2>2, <2>4 DEF HolderReads
  <2>6. Service!waiting' = Service!waiting \union {t} \/ Service!waiting' = Service!waiting \ {t}
        BY <1>1, <1>5 DEF Service!waiting
  <2> QED BY <2>2, <2>4, <2>5, <2>6
          DEF Service!Lease!Next, Service!Lease!Submit, Service!Lease!Release
<1> QED BY <1>3, <1>4, <1>5

LEMMA PollGrantsLeases ==
    ASSUME DbTypeOK, TablesInv, HolderReads, HolderReads',
           NEW a \in Agents, NEW S \in SUBSET Tasks, Polls(a, S)
    PROVE  Service!Lease!Next
<1>1. \A t \in S : /\ taskState[t] = "Queued" /\ assignedAgent[t] = NoAgent
                   /\ taskState'[t] = "Running" /\ openRows'[t][a] = 1
      BY PolledTasks
<1>2. \A t \in Tasks \ S : /\ taskState'[t] = taskState[t]
                           /\ assignedAgent'[t] = assignedAgent[t]
                           /\ openRows'[t] = openRows[t]
      BY PolledTasks
<1>3. \A t \in S : Service!holder'[t] = a
      BY <1>1 DEF HolderReads
<1>4. \A t \in Tasks \ S : Service!holder'[t] = Service!holder[t]
      BY <1>2 DEF HolderReads
<1>5. Service!holder' = [t \in Tasks |-> IF t \in S THEN a ELSE Service!holder[t]]
      BY <1>3, <1>4 DEF HolderReads
<1>6. S \subseteq Service!waiting
      BY <1>1 DEF Service!waiting
<1>7. Service!waiting' = Service!waiting \ S
      BY <1>1, <1>2 DEF Service!waiting
<1> QED BY <1>5, <1>6, <1>7 DEF Service!Lease!Next, Service!Lease!Grant

\* The sweep ends the leases of the silent agents; what it puts back besides are tasks
\* left to these agents without a lease.
LEMMA SweepExpiresLeases ==
    ASSUME DbTypeOK, TablesInv, HolderReads, HolderReads', NEW Q \in SUBSET Tasks, Sweeps(Q)
    PROVE  Service!Lease!Next
<1> DEFINE R == {t \in Q : Service!holder[t] = NoAgent}
           E == {t \in Tasks : Service!holder[t] \in Unresponsive}
<1>1. Unresponsive \in SUBSET Agents /\ R \in SUBSET Tasks /\ \A t \in R : Service!holder[t] = NoAgent
      BY DEF Unresponsive, DbTypeOK
<1>2. \A t \in Tasks, b \in Agents : openRows'[t][b] > 0 <=> b \notin Unresponsive /\ openRows[t][b] > 0
      BY SweptTasks
<1>3. \A t \in Tasks :
         Service!holder'[t] = IF Service!holder[t] \in Unresponsive THEN NoAgent ELSE Service!holder[t]
      BY <1>1, <1>2 DEF HolderReads
<1>4. Service!holder' = [t \in Tasks |->
          IF Service!holder[t] \in Unresponsive THEN NoAgent ELSE Service!holder[t]]
      BY <1>3 DEF HolderReads
<1>5. E \subseteq Q
      BY <1>1 DEF Sweeps, HolderReads
<1>6. ASSUME NEW t \in Q, Service!holder[t] # NoAgent PROVE Service!holder[t] \in Unresponsive
  <2>1. assignedAgent[t] \in Unresponsive
        BY SweptTasks
  <2>2. Service!holder[t] \in Agents /\ openRows[t][Service!holder[t]] > 0
        BY <1>6 DEF HolderReads
  <2> QED BY <2>1, <2>2 DEF TablesInv
<1>7. Q = R \union E
      BY <1>5, <1>6
<1>8. Service!waiting' = Service!waiting \union Q
  <2>1. \A t \in Q : taskState'[t] = "Queued" /\ assignedAgent'[t] = NoAgent
        BY SweptTasks
  <2>2. \A t \in Tasks \ Q : taskState'[t] = taskState[t] /\ assignedAgent'[t] = assignedAgent[t]
        BY SweptTasks
  <2> QED BY <2>1, <2>2 DEF Service!waiting
<1>9. Service!waiting' = Service!waiting \union R \union E
      BY <1>7, <1>8
<1>10. Service!Lease!Expire(Unresponsive, R)
      BY <1>1, <1>4, <1>9 DEF Service!Lease!Expire
<1> QED BY <1>1, <1>10 DEF Service!Lease!Next

LEMMA LeaseTableMoves ==
    ASSUME Kept, HolderReads, HolderReads', [LocksNext]_lockVars
    PROVE  [Service!Lease!Next]_(Service!Lease!vars)
<1>0. DbTypeOK /\ TablesInv
      BY DEF Kept
<1>1. CASE Hears
  <2>1. UNCHANGED taskVars
        BY <1>1 DEF Hears
  <2> QED BY <2>1 DEF taskVars, Service!Lease!vars, Service!holder, Service!waiting, Service!HasLease
<1>2. ASSUME NEW t \in Tasks, CreateTask(t) PROVE Service!Lease!Next
  <2>1. \A a \in Agents : ~(openRows[t][a] > 0)
        BY <1>0, <1>2 DEF CreateTask, TaskExists, TablesInv, Unfinished
  <2>2. Service!holder[t] = NoAgent
        BY <2>1 DEF HolderReads
  <2>3. Service!holder' = Service!holder
        BY <1>2 DEF CreateTask, Service!holder, Service!HasLease
  <2>4. Service!waiting' = Service!waiting \union {t}
        BY <1>0, <1>2 DEF CreateTask, Service!waiting, DbTypeOK
  <2> QED BY <2>2, <2>3, <2>4 DEF Service!Lease!Next, Service!Lease!Submit
<1>3. ASSUME NEW t \in Tasks, NEW to \in ReportStates \union {"Canceled"}, UpdateTaskStatus(t, to)
      PROVE  [Service!Lease!Next]_(Service!Lease!vars)
      BY <1>0, <1>3, ReportedStates, WriteMovesLease
<1>4. ASSUME NEW a \in Agents, NEW S \in SUBSET Tasks, Polls(a, S) PROVE Service!Lease!Next
      BY <1>0, <1>4, PollGrantsLeases
<1>5. ASSUME NEW Q \in SUBSET Tasks, Sweeps(Q) PROVE Service!Lease!Next
      BY <1>0, <1>5, SweepExpiresLeases
<1> QED BY <1>1, <1>2, <1>3, <1>4, <1>5, TablesChange DEF Kept

\* Statement by statement, whatever the reports say, the transactions implement the lease
\* table: a lease is granted on a waiting task only, and never passes from agent to agent.
THEOREM StatementsImplementLease == LocksSpec => Service!ImplementsLease
<1>1. Kept => HolderReads
      BY HolderIsAssigned DEF Kept
<1>2. Kept /\ HolderReads /\ HolderReads' /\ [LocksNext]_lockVars
          => [Service!Lease!Next]_(Service!Lease!vars)
      BY LeaseTableMoves
<1> QED BY <1>1, <1>2, LeaseTableStarts, KeptAlways, PTL
        DEF LocksSpec, Service!ImplementsLease, Service!Lease!Spec
=============================================================================
