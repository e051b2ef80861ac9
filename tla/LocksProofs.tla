----------------------------- MODULE LocksProofs -----------------------------
(***************************************************************************)
(* Proofs about the locks and statements of module PgLocks.                *)
(***************************************************************************)
EXTENDS PgLocks, TLAPS

(* The rows of the three tables are told apart. *)

LEMMA RowsDiffer ==
    /\ \A a \in Agents, t \in Tasks : AgentRow(a) # TaskRow(t)
    /\ \A a \in Agents, t \in Tasks, b \in Agents : AgentRow(a) # LeaseRow(t, b)
    /\ \A t, u \in Tasks, b \in Agents : TaskRow(t) # LeaseRow(u, b)
    /\ \A a, b \in Agents : AgentRow(a) = AgentRow(b) => a = b
    /\ \A t, u \in Tasks : TaskRow(t) = TaskRow(u) => t = u
    /\ \A t, u \in Tasks, a, b \in Agents : LeaseRow(t, a) = LeaseRow(u, b) => t = u /\ a = b
BY DEF AgentRow, TaskRow, LeaseRow

LEMMA RowsTyped ==
    /\ \A a \in Agents : AgentRow(a) \in Rows
    /\ \A t \in Tasks : TaskRow(t) \in Rows
    /\ \A t \in Tasks, a \in Agents : LeaseRow(t, a) \in Rows
BY DEF Rows

-----------------------------------------------------------------------------
(* Who holds which locks at which statement *)

\* A statement on one row has it or has yet to get it.
OneRow(c, r) == (c.left = {r} /\ c.held = {}) \/ (c.left = {} /\ c.held = {r})

WriterInOrder(c) ==
    /\ c.op \in {"report", "cancel"} /\ c.task \in Tasks
    /\ \/ c.stmt = "task" /\ OneRow(c, TaskRow(c.task))
       \/ /\ c.stmt = "leases of task"
          /\ TaskRow(c.task) \in c.held
          /\ c.left \subseteq {LeaseRow(c.task, a) : a \in Agents}
          /\ c.held \subseteq {TaskRow(c.task)} \union {LeaseRow(c.task, a) : a \in Agents}

PollInOrder(c) ==
    /\ c.op = "poll" /\ c.agent \in Agents
    /\ \/ c.stmt = "agent" /\ OneRow(c, AgentRow(c.agent))
       \/ /\ c.stmt = "none" /\ c.left = {}
          /\ c.held \subseteq {AgentRow(c.agent)} \union {TaskRow(t) : t \in Tasks}

FreeTx(c) == c.op = "none" /\ c.stmt = "none" /\ c.left = {} /\ c.held = {}

InOrder(x, c) ==
    IF x = Sweeper THEN c.op = "sweep" \/ FreeTx(c)
    ELSE WriterInOrder(c) \/ PollInOrder(c) \/ FreeTx(c)

Sound(x, c) ==
    /\ c \in Transactions
    /\ c.waits # NoRow => c.waits \in c.left
    /\ InOrder(x, c)

LockInv ==
    /\ tx \in [Threads -> Transactions]
    /\ \A x \in Threads : Sound(x, tx[x])
    /\ \A x, y \in Threads : x # y => tx[x].held \intersect tx[y].held = {}

LEMMA NoTxSound == \A x \in Threads : Sound(x, NoTx)
BY DEF Sound, NoTx, Transactions, TaskStates, Statements, InOrder, FreeTx

LEMMA LockInvInit == LocksInit => LockInv
<1> SUFFICES ASSUME LocksInit PROVE LockInv
      OBVIOUS
<1>1. \A x \in Threads : tx[x] = NoTx
      BY DEF LocksInit
<1>2. NoTx.held = {}
      BY DEF NoTx
<1>3. tx \in [Threads -> Transactions]
      BY NoTxSound DEF LocksInit, Sound
<1> QED BY <1>1, <1>2, <1>3, NoTxSound DEF LockInv

\* One thread goes on with a sound transaction that holds no row of another.
LEMMA OneMoves ==
    ASSUME LockInv, NEW x \in Threads, NEW c, Becomes(x, c), Sound(x, c),
           \A y \in Threads \ {x} : c.held \intersect tx[y].held = {}
    PROVE  LockInv'
<1>1. tx' = [tx EXCEPT ![x] = c]
      BY DEF Becomes
<1>2. tx' \in [Threads -> Transactions]
      BY <1>1 DEF LockInv, Sound
<1>3. ASSUME NEW y \in Threads PROVE Sound(y, tx'[y])
  <2>1. CASE y = x
        BY <1>1, <2>1 DEF LockInv
  <2>2. CASE y # x
        BY <1>1, <2>2 DEF LockInv
  <2> QED BY <2>1, <2>2
<1>4. ASSUME NEW y \in Threads, NEW z \in Threads, y # z
      PROVE  tx'[y].held \intersect tx'[z].held = {}
      BY <1>1, <1>4 DEF LockInv
<1> QED BY <1>2, <1>3, <1>4 DEF LockInv, Sound, InOrder, WriterInOrder, PollInOrder, FreeTx, OneRow

\* The locks it holds already exclude the others.
LEMMA HeldAlone ==
    ASSUME LockInv, NEW x \in Threads, NEW c, c.held \subseteq tx[x].held
    PROVE  \A y \in Threads \ {x} : c.held \intersect tx[y].held = {}
BY DEF LockInv

-----------------------------------------------------------------------------
(* Locking *)

LEMMA TakeSound ==
    ASSUME LockInv, NEW x \in Threads, NEW r \in tx[x].left
    PROVE  /\ Sound(x, Take(tx[x], r))
           /\ Take(tx[x], r).held \subseteq tx[x].held \union {r}
<1> DEFINE c == tx[x]  d == Take(c, r)
<1>1. c \in Transactions /\ InOrder(x, c)
      BY DEF LockInv, Sound
<1>2. /\ d \in Transactions /\ d.waits = NoRow
      /\ d.left = c.left \ {r} /\ d.held \in {c.held, c.held \union {r}}
      /\ d.op = c.op /\ d.task = c.task /\ d.agent = c.agent /\ d.stmt = c.stmt
      BY <1>1 DEF Take, Transactions
<1>3. c.stmt = "task" => d.held = c.held \union {TaskRow(c.task)} \/ r # TaskRow(c.task)
      BY <1>1 DEF Take, Transactions, Matching, TaskRowOf
<1>4. c.stmt = "agent" => d.held = c.held \union {AgentRow(c.agent)} \/ r # AgentRow(c.agent)
      BY <1>1 DEF Take, Transactions, Matching
<1>5. InOrder(x, d)
  <2>1. CASE x = Sweeper
        BY <1>1, <1>2, <2>1 DEF InOrder, FreeTx
  <2>2. CASE x # Sweeper /\ WriterInOrder(c)
        BY <1>1, <1>2, <1>3, <2>2 DEF InOrder, WriterInOrder, OneRow
  <2>3. CASE x # Sweeper /\ PollInOrder(c)
        BY <1>1, <1>2, <1>4, <2>3 DEF InOrder, PollInOrder, OneRow
  <2> QED BY <1>1, <2>1, <2>2, <2>3 DEF InOrder, FreeTx
<1> QED BY <1>2, <1>5 DEF Sound

LEMMA LockRowKeeps == ASSUME LockInv, NEW x \in Threads, LockRow(x) PROVE LockInv'
<1>1. PICK r \in tx[x].left : ~HeldFor(x, r) /\ Becomes(x, Take(tx[x], r))
      BY DEF LockRow, LockInv, Sound, TakenFor
<1>2. \A y \in Threads \ {x} : Take(tx[x], r).held \intersect tx[y].held = {}
      BY <1>1, TakeSound DEF HeldFor, LockInv
<1> QED BY <1>1, <1>2, TakeSound, OneMoves

LEMMA WaitForRowKeeps == ASSUME LockInv, NEW x \in Threads, WaitForRow(x) PROVE LockInv'
<1>1. PICK r \in tx[x].left : Becomes(x, [tx[x] EXCEPT !.waits = r])
      BY DEF WaitForRow
<1> DEFINE c == [tx[x] EXCEPT !.waits = r]
<1>2. tx[x] \in Transactions /\ InOrder(x, tx[x])
      BY DEF LockInv, Sound
<1>3. /\ c \in Transactions /\ c.waits \in c.left /\ c.held = tx[x].held
      /\ c.op = tx[x].op /\ c.task = tx[x].task /\ c.agent = tx[x].agent
      /\ c.stmt = tx[x].stmt /\ c.left = tx[x].left
      BY <1>2 DEF Transactions
<1>4. Sound(x, c)
      BY <1>2, <1>3 DEF Sound, InOrder, WriterInOrder, PollInOrder, FreeTx, OneRow
<1> QED BY <1>1, <1>3, <1>4, HeldAlone, OneMoves

-----------------------------------------------------------------------------
(* Statements *)

\* What a statement finds are rows.
LEMMA MatchingRows ==
    ASSUME NEW c, NEW s \in Statements, s = "agent" \/ s = "leases of agent" => c.agent \in Agents,
           s = "task" \/ s = "leases of task" => c.task \in Tasks,
           DbTypeOK
    PROVE  Matching(c, s) \subseteq Rows
BY RowsTyped, ZenonT(40) DEF Matching, TaskRowOf, LeaseRowsOf, Unresponsive, DbTypeOK, Statements

LEMMA StatementTyped ==
    ASSUME NEW c \in Transactions, NEW s \in Statements, DbTypeOK,
           s = "agent" \/ s = "leases of agent" => c.agent \in Agents,
           s = "task" \/ s = "leases of task" => c.task \in Tasks
    PROVE  LET d == Statement(c, s)
           IN  /\ d \in Transactions
               /\ d.stmt = s /\ d.left = Matching(c, s)
               /\ d.op = c.op /\ d.task = c.task /\ d.agent = c.agent /\ d.to = c.to
               /\ d.slots = c.slots /\ d.todo = c.todo /\ d.waits = c.waits /\ d.held = c.held
<1>1. Matching(c, s) \subseteq Rows
      BY MatchingRows
<1> QED BY <1>1 DEF Statement, Transactions

\* The transactions of the requests begin with one row.
LEMMA BeginWriteSound ==
    ASSUME NEW h \in Handlers, NEW t \in Tasks, NEW to \in TaskStates,
           NEW op \in {"report", "cancel"}, DbTypeOK
    PROVE  LET c == Statement([NoTx EXCEPT !.op = op, !.task = t, !.to = to], "task")
           IN  Sound(h, c) /\ c.held = {}
<1> DEFINE b == [NoTx EXCEPT !.op = op, !.task = t, !.to = to]
<1>1. /\ b \in Transactions /\ b.op = op /\ b.task = t /\ b.waits = NoRow /\ b.held = {}
      BY DEF NoTx, Transactions, TaskStates, Statements
<1>2. Matching(b, "task") = {TaskRow(t)}
      BY <1>1 DEF Matching, TaskRowOf
<1> HIDE DEF b
<1>3. h # Sweeper
      BY LocksAssumption
<1> DEFINE c == Statement(b, "task")
<1>4. /\ c \in Transactions /\ c.stmt = "task" /\ c.left = {TaskRow(t)} /\ c.op = op
      /\ c.task = t /\ c.waits = NoRow /\ c.held = {}
      BY <1>1, <1>2, StatementTyped, ZenonT(40) DEF Statements
<1>5. Sound(h, c)
  <2> HIDE DEF c
  <2> QED BY <1>3, <1>4 DEF Sound, InOrder, WriterInOrder, OneRow
<1> QED BY <1>4, <1>5 DEF b

LEMMA BeginPollSound ==
    ASSUME NEW h \in Handlers, NEW a \in Agents, NEW n \in FreeSlots, DbTypeOK
    PROVE  LET c == Statement([NoTx EXCEPT !.op = "poll", !.agent = a, !.slots = n], "agent")
           IN  Sound(h, c) /\ c.held = {}
<1> DEFINE b == [NoTx EXCEPT !.op = "poll", !.agent = a, !.slots = n]
<1>1. /\ b \in Transactions /\ b.op = "poll" /\ b.agent = a /\ b.waits = NoRow /\ b.held = {}
      BY DEF NoTx, Transactions, TaskStates, Statements
<1>2. Matching(b, "agent") = {AgentRow(a)}
      BY <1>1 DEF Matching
<1> HIDE DEF b
<1>3. h # Sweeper
      BY LocksAssumption
<1> DEFINE c == Statement(b, "agent")
<1>4. /\ c \in Transactions /\ c.stmt = "agent" /\ c.left = {AgentRow(a)} /\ c.op = "poll"
      /\ c.agent = a /\ c.waits = NoRow /\ c.held = {}
      BY <1>1, <1>2, StatementTyped, ZenonT(40) DEF Statements
<1>5. Sound(h, c)
  <2> HIDE DEF c
  <2> QED BY <1>3, <1>4 DEF Sound, InOrder, PollInOrder, OneRow
<1> QED BY <1>4, <1>5 DEF b

\* A transaction that begins holds nothing.
LEMMA FreshMoves ==
    ASSUME LockInv, NEW x \in Threads, NEW c, Becomes(x, c), Sound(x, c), c.held = {}
    PROVE  LockInv'
BY OneMoves

LEMMA EndsKeep == ASSUME LockInv, NEW x \in Threads, Becomes(x, NoTx) PROVE LockInv'
BY FreshMoves, NoTxSound DEF NoTx

LEMMA CloseLeasesKeeps == ASSUME LockInv, DbTypeOK, NEW h \in Handlers, CloseLeases(h) PROVE LockInv'
<1> DEFINE c == tx[h]  d == Statement(c, "leases of task")
<1>1. c \in Transactions /\ h # Sweeper /\ h \in Threads /\ Sound(h, c)
      BY LocksAssumption DEF LockInv, Threads
<1>2. c.stmt = "task" /\ c.left = {} /\ c.waits = NoRow /\ Becomes(h, d)
      BY DEF CloseLeases, Done
<1>3. WriterInOrder(c)
      BY <1>1, <1>2 DEF Sound, InOrder, PollInOrder, FreeTx
<1>4. c.task \in Tasks /\ c.held = {TaskRow(c.task)}
      BY <1>2, <1>3 DEF WriterInOrder, OneRow
<1>5. Matching(c, "leases of task") \subseteq {LeaseRow(c.task, a) : a \in Agents}
      BY DEF Matching, LeaseRowsOf
<1>6. /\ d \in Transactions /\ d.stmt = "leases of task" /\ d.left = Matching(c, "leases of task")
      /\ d.op = c.op /\ d.task = c.task /\ d.waits = NoRow /\ d.held = c.held
      BY <1>1, <1>2, <1>4, StatementTyped DEF Statements
<1>7. Sound(h, d)
      BY <1>1, <1>3, <1>4, <1>5, <1>6 DEF Sound, InOrder, WriterInOrder
<1> QED BY <1>1, <1>2, <1>6, <1>7, HeldAlone, OneMoves

LEMMA CommitWriteKeeps == ASSUME LockInv, DbTypeOK, NEW h \in Handlers, CommitWrite(h) PROVE LockInv'
<1>1. tx[h] \in Transactions /\ h # Sweeper /\ h \in Threads /\ Sound(h, tx[h])
      BY LocksAssumption DEF LockInv, Threads
<1>2. CASE Becomes(h, NoTx)
      BY <1>1, <1>2, EndsKeep
<1>3. CASE /\ tx[h].op = "report"
           /\ Becomes(h, [NoTx EXCEPT !.op = "report", !.task = tx[h].task, !.to = tx[h].to,
                                       !.stmt = "task", !.left = {TaskRow(tx[h].task)}])
  <2> DEFINE c == [NoTx EXCEPT !.op = "report", !.task = tx[h].task, !.to = tx[h].to,
                               !.stmt = "task", !.left = {TaskRow(tx[h].task)}]
  <2>1. tx[h].task \in Tasks /\ tx[h].to \in TaskStates
        BY <1>1, <1>3 DEF Sound, InOrder, WriterInOrder, PollInOrder, FreeTx, Transactions
  <2>2. TaskRow(tx[h].task) \in Rows
        BY <2>1, RowsTyped
  <2>3. /\ c \in Transactions /\ c.op = "report" /\ c.task = tx[h].task /\ c.stmt = "task"
        /\ c.left = {TaskRow(tx[h].task)} /\ c.waits = NoRow /\ c.held = {}
        BY <2>1, <2>2 DEF NoTx, Transactions, Statements
  <2>4. Sound(h, c)
        BY <1>1, <2>1, <2>3 DEF Sound, InOrder, WriterInOrder, OneRow
  <2> QED BY <1>1, <1>3, <2>3, <2>4, FreshMoves
<1> QED BY <1>2, <1>3 DEF CommitWrite

LEMMA SelectTasksKeeps == ASSUME LockInv, DbTypeOK, NEW h \in Handlers, SelectTasks(h) PROVE LockInv'
<1>1. tx[h] \in Transactions /\ h # Sweeper /\ h \in Threads /\ Sound(h, tx[h])
      BY LocksAssumption DEF LockInv, Threads
<1>2. tx[h].op = "poll" /\ tx[h].stmt = "agent" /\ tx[h].left = {} /\ tx[h].waits = NoRow
      BY DEF SelectTasks, Done
<1>3. PICK S \in SUBSET {t \in Dispatchable(tx[h].agent) : ~TakenFor(h, TaskRow(t))} :
          Becomes(h, [tx[h] EXCEPT !.stmt = "none", !.held = @ \union {TaskRow(t) : t \in S}])
      BY DEF SelectTasks
<1> DEFINE c == [tx[h] EXCEPT !.stmt = "none", !.held = @ \union {TaskRow(t) : t \in S}]
<1>4. PollInOrder(tx[h])
      BY <1>1, <1>2 DEF Sound, InOrder, WriterInOrder, FreeTx
<1>5. S \subseteq Tasks
      BY <1>4, FitsAssumption DEF Dispatchable, PollInOrder
<1>6. {TaskRow(t) : t \in S} \subseteq Rows
      BY <1>5, RowsTyped
<1>7. /\ c \in Transactions /\ c.op = "poll" /\ c.agent = tx[h].agent /\ c.stmt = "none"
      /\ c.left = {} /\ c.waits = NoRow /\ c.held = tx[h].held \union {TaskRow(t) : t \in S}
      BY <1>1, <1>2, <1>6 DEF Transactions, Statements
<1>8. Sound(h, c)
      BY <1>1, <1>2, <1>4, <1>5, <1>7 DEF Sound, InOrder, PollInOrder, OneRow
<1>9. \A y \in Threads \ {h} : c.held \intersect tx[y].held = {}
      BY <1>1, <1>3, <1>7 DEF LockInv, TakenFor, HeldFor
<1> QED BY <1>1, <1>3, <1>8, <1>9, OneMoves

LEMMA AbortKeeps == ASSUME LockInv, DbTypeOK, NEW x \in Threads, Abort(x) PROVE LockInv'
<1>1. CASE Becomes(x, NoTx)
      BY <1>1, EndsKeep
<1>2. CASE /\ tx[x].op = "report"
           /\ Becomes(x, Statement([NoTx EXCEPT !.op = "report", !.task = tx[x].task,
                                                 !.to = tx[x].to], "task"))
  <2>1. tx[x] \in Transactions /\ Sound(x, tx[x])
        BY DEF LockInv
  <2>2. x \in Handlers
        BY <1>2, <2>1 DEF Sound, InOrder, FreeTx, Threads
  <2>3. tx[x].task \in Tasks /\ tx[x].to \in TaskStates
        BY <1>2, <2>1, <2>2, LocksAssumption
        DEF Sound, InOrder, WriterInOrder, PollInOrder, FreeTx, Transactions
  <2> QED BY <1>2, <2>2, <2>3, BeginWriteSound, FreshMoves, ZenonT(40)
<1> QED BY <1>1, <1>2 DEF Abort

\* The sweep's transaction may hold any rows.
LEMMA SweepSound ==
    ASSUME NEW c \in Transactions, c.op = "sweep", c.waits = NoRow
    PROVE  Sound(Sweeper, c)
BY DEF Sound, InOrder

LEMMA SweepIsOpen ==
    ASSUME LockInv, NEW s, Done(Sweeper, s), s # "none"
    PROVE  /\ Sweeper \in Threads /\ tx[Sweeper] \in Transactions
           /\ tx[Sweeper].op = "sweep" /\ tx[Sweeper].stmt = s
           /\ tx[Sweeper].left = {} /\ tx[Sweeper].waits = NoRow
BY DEF Done, LockInv, Sound, InOrder, FreeTx, Threads

LEMMA BeginSweepKeeps == ASSUME LockInv, DbTypeOK, BeginSweep PROVE LockInv'
<1> DEFINE b == [NoTx EXCEPT !.op = "sweep"]  c == Statement(b, "agents")
<1>1. b \in Transactions /\ b.op = "sweep" /\ b.waits = NoRow /\ b.held = {}
      BY DEF NoTx, Transactions, TaskStates, Statements
<1>2. Becomes(Sweeper, c)
      BY DEF BeginSweep
<1> HIDE DEF b
<1>3. c \in Transactions /\ c.op = "sweep" /\ c.waits = NoRow /\ c.held = {}
      BY <1>1, StatementTyped, ZenonT(40) DEF Statements
<1>4. Sweeper \in Threads
      BY DEF Threads
<1> QED BY <1>2, <1>3, <1>4, SweepSound, FreshMoves

\* The agent that the sweep turns to next, and those that are left.
LEMMA SweepAgentStep ==
    ASSUME LockInv, DbTypeOK, SweepAgent
    PROVE  \E A \in SUBSET Agents, a \in Agents :
              LET c == tx[Sweeper]
                  b == [c EXCEPT !.todo = A \ {a}, !.agent = a]
                  d == Statement(b, "leases of agent")
              IN  /\ Done(Sweeper, "agents") \/ Done(Sweeper, "tasks of agent")
                  /\ A = (IF c.stmt = "agents" THEN {e \in Agents : AgentRow(e) \in c.held} ELSE c.todo)
                  /\ a \in A
                  /\ Becomes(Sweeper, d)
                  /\ d \in Transactions
                  /\ d.op = "sweep" /\ d.stmt = "leases of agent" /\ d.agent = a
                  /\ d.todo = A \ {a} /\ d.held = c.held /\ d.waits = NoRow
                  /\ d.left = {LeaseRow(t, a) : t \in {u \in Tasks : openRows[u][a] > 0}}
<1> DEFINE c == tx[Sweeper]
           A == IF c.stmt = "agents" THEN {e \in Agents : AgentRow(e) \in c.held} ELSE c.todo
<1>1. /\ Sweeper \in Threads /\ c \in Transactions /\ c.op = "sweep" /\ c.waits = NoRow
      /\ Done(Sweeper, "agents") \/ Done(Sweeper, "tasks of agent")
      BY SweepIsOpen DEF SweepAgent
<1>2. A \in SUBSET Agents
      BY <1>1 DEF Transactions
<1>3. PICK a \in A :
          Becomes(Sweeper, Statement([c EXCEPT !.todo = A \ {a}, !.agent = a], "leases of agent"))
      BY DEF SweepAgent
<1> DEFINE b == [c EXCEPT !.todo = A \ {a}, !.agent = a]
           d == Statement(b, "leases of agent")
<1>4. /\ b \in Transactions /\ b.op = "sweep" /\ b.agent = a /\ b.todo = A \ {a}
      /\ b.held = c.held /\ b.waits = NoRow /\ a \in Agents
      BY <1>1, <1>2 DEF Transactions
<1>6. Matching(b, "leases of agent") = {LeaseRow(t, a) : t \in {u \in Tasks : openRows[u][a] > 0}}
      BY <1>4 DEF Matching
<1>5. Becomes(Sweeper, d)
      BY <1>3
<1> HIDE DEF b
<1>7. /\ d \in Transactions /\ d.op = "sweep" /\ d.stmt = "leases of agent" /\ d.agent = a
      /\ d.todo = A \ {a} /\ d.held = c.held /\ d.waits = NoRow
      /\ d.left = {LeaseRow(t, a) : t \in {u \in Tasks : openRows[u][a] > 0}}
      BY <1>4, <1>6, StatementTyped, ZenonT(40) DEF Statements
<1> QED BY <1>1, <1>2, <1>4, <1>5, <1>7 DEF b

LEMMA SweepAgentKeeps == ASSUME LockInv, DbTypeOK, SweepAgent PROVE LockInv'
<1>1. PICK d \in Transactions : /\ Becomes(Sweeper, d) /\ d.op = "sweep"
                                /\ d.held = tx[Sweeper].held /\ d.waits = NoRow
      BY SweepAgentStep
<1>2. Sweeper \in Threads
      BY DEF Threads
<1> QED BY <1>1, <1>2, SweepSound, HeldAlone, OneMoves

LEMMA SweepTasksStep ==
    ASSUME LockInv, DbTypeOK, SweepTasks
    PROVE  LET c == tx[Sweeper]
               d == Statement(c, "tasks of agent")
           IN  /\ Done(Sweeper, "leases of agent") /\ Becomes(Sweeper, d)
               /\ d \in Transactions /\ d.op = "sweep" /\ d.stmt = "tasks of agent"
               /\ d.agent = c.agent /\ d.todo = c.todo /\ d.held = c.held /\ d.waits = NoRow
               /\ d.left = {TaskRow(t) : t \in {u \in Tasks :
                               /\ assignedAgent[u] = c.agent
                               /\ taskState[u] \in {"Running", "Queued"}}}
<1> DEFINE c == tx[Sweeper]  d == Statement(c, "tasks of agent")
<1>1. /\ c \in Transactions /\ c.op = "sweep" /\ c.waits = NoRow
      BY SweepIsOpen DEF SweepTasks
<1>2. Matching(c, "tasks of agent") =
          {TaskRow(t) : t \in {u \in Tasks : /\ assignedAgent[u] = c.agent
                                             /\ taskState[u] \in {"Running", "Queued"}}}
      BY DEF Matching
<1> QED BY <1>1, <1>2, StatementTyped DEF SweepTasks, Statements

LEMMA SweepTasksKeeps == ASSUME LockInv, DbTypeOK, SweepTasks PROVE LockInv'
<1>1. Sweeper \in Threads
      BY DEF Threads
<1> QED BY <1>1, SweepTasksStep, SweepSound, HeldAlone, OneMoves

-----------------------------------------------------------------------------
(* The tables keep their types, the transactions their locks. *)

LEMMA DbTypedInit == LocksInit => DbTypeOK
BY DEF LocksInit, DbInit, DbTypeOK, AgentStatuses, TaskStates

LEMMA DispatchTyped ==
    ASSUME DbTypeOK, NEW a \in Agents, NEW S, Dispatch(a, S), overdue' = overdue \ {a}
    PROVE  DbTypeOK'
<1>1. /\ taskState' = [t \in Tasks |-> IF t \in S THEN "Running" ELSE taskState[t]]
      /\ assignedAgent' = [t \in Tasks |-> IF t \in S THEN a ELSE assignedAgent[t]]
      BY DEF Dispatch
<1>2. openRows' \in [Tasks -> [Agents -> Nat]]
      BY DEF Dispatch, DbTypeOK
<1>3. agentStatus' \in [Agents -> AgentStatuses \union {"Absent"}]
      BY DEF Dispatch, DbTypeOK, AgentStatuses
<1> QED BY <1>1, <1>2, <1>3 DEF DbTypeOK, TaskStates

LEMMA DbTypedNext == DbTypeOK /\ LockInv /\ [LocksNext]_lockVars => DbTypeOK'
<1> SUFFICES ASSUME DbTypeOK, LockInv, [LocksNext]_lockVars PROVE DbTypeOK'
      OBVIOUS
<1>0. CASE UNCHANGED dbVars
      BY <1>0 DEF DbTypeOK, dbVars
<1>1. ASSUME NEW a \in Agents, Register(a) \/ PollNothing(a) \/ Age(a) PROVE DbTypeOK'
  <2>1. CASE Register(a)
        BY <2>1 DEF Register, UpsertAgent, DbTypeOK, taskVars, AgentStatuses
  <2>2. CASE PollNothing(a)
    <3>1. PICK n \in FreeSlots : n <= 0 /\ PollTasksForAgent(a, n)
          BY <2>2 DEF PollNothing
    <3>2. overdue' = overdue \ {a} /\ UNCHANGED <<agentStatus, taskVars>>
          BY <3>1, LocksAssumption DEF PollTasksForAgent
    <3> QED BY <3>2 DEF DbTypeOK, taskVars
  <2>3. CASE Age(a)
        BY <2>3 DEF Age, HeartbeatExpires, DbTypeOK, taskVars
  <2> QED BY <1>1, <2>1, <2>2, <2>3
<1>2. ASSUME NEW a \in Agents, NEW s \in HeartbeatStatuses, Heartbeat(a, s) PROVE DbTypeOK'
      BY <1>2, LocksAssumption DEF Heartbeat, UpdateHeartbeat, DbTypeOK, taskVars
<1>3. ASSUME NEW t \in Tasks, Create(t) PROVE DbTypeOK'
      BY <1>3 DEF Create, CreateTask, DbTypeOK, agentVars, TaskStates
<1>4. ASSUME NEW h \in Handlers, CommitWrite(h) PROVE DbTypeOK'
  <2>1. tx[h].to \in TaskStates
        BY DEF LockInv, Threads, Transactions
  <2> QED BY <1>4, <2>1 DEF CommitWrite, DbTypeOK, agentVars
<1>5. ASSUME NEW h \in Handlers, CommitPoll(h) PROVE DbTypeOK'
  <2>1. tx[h].op = "poll" /\ Sound(h, tx[h])
        BY <1>5 DEF CommitPoll, LockInv, Threads
  <2>2. tx[h].agent \in Agents
        BY <2>1, LocksAssumption DEF Sound, InOrder, WriterInOrder, PollInOrder, FreeTx
  <2> QED BY <1>5, <2>2, DispatchTyped DEF CommitPoll
<1>6. CASE CommitSweep
      BY <1>6 DEF CommitSweep, DbTypeOK, AgentStatuses, TaskStates
<1> QED BY <1>0, <1>1, <1>2, <1>3, <1>4, <1>5, <1>6
        DEF LocksNext, HandlerStep, SweepStep, LockRow, WaitForRow, RollBack, LoseConnection, Abort, CloseLeases,
            SelectTasks,
            BeginReport, BeginCancel, BeginPoll, BeginSweep, SweepNobody, SweepAgent, SweepTasks,
            lockVars, dbVars

LEMMA UnchangedKeeps == ASSUME LockInv, UNCHANGED tx PROVE LockInv'
<1>1. tx' = tx
      OBVIOUS
<1>2. \A x \in Threads : Sound(x, tx'[x])
      BY <1>1 DEF LockInv
<1>3. /\ tx' \in [Threads -> Transactions]
      /\ \A x, y \in Threads : x # y => tx'[x].held \intersect tx'[y].held = {}
      BY <1>1 DEF LockInv
<1> QED BY <1>2, <1>3 DEF LockInv, Sound, InOrder, WriterInOrder, PollInOrder, FreeTx, OneRow

LEMMA LockInvNext == DbTypeOK /\ LockInv /\ [LocksNext]_lockVars => LockInv'
<1> SUFFICES ASSUME DbTypeOK, LockInv, [LocksNext]_lockVars PROVE LockInv'
      OBVIOUS
<1>0. CASE UNCHANGED tx
      BY <1>0, UnchangedKeeps
<1>1. ASSUME NEW h \in Handlers, NEW t \in Tasks, NEW to \in ReportStates, BeginReport(h, t, to)
      PROVE  LockInv'
  <2> DEFINE c == Statement([NoTx EXCEPT !.op = "report", !.task = t, !.to = to], "task")
  <2>1. to \in TaskStates /\ h \in Threads /\ Becomes(h, c)
        BY <1>1, LocksAssumption DEF BeginReport, Threads
  <2>2. Sound(h, c) /\ c.held = {}
        BY <2>1, BeginWriteSound
  <2> HIDE DEF c
  <2> QED BY <2>1, <2>2, FreshMoves
<1>2. ASSUME NEW h \in Handlers, NEW t \in Tasks, BeginCancel(h, t) PROVE LockInv'
  <2> DEFINE c == Statement([NoTx EXCEPT !.op = "cancel", !.task = t, !.to = "Canceled"], "task")
  <2>1. "Canceled" \in TaskStates /\ h \in Threads /\ Becomes(h, c)
        BY <1>2 DEF BeginCancel, Threads, TaskStates
  <2>2. Sound(h, c) /\ c.held = {}
        BY <2>1, BeginWriteSound
  <2> HIDE DEF c
  <2> QED BY <2>1, <2>2, FreshMoves
<1>3. ASSUME NEW h \in Handlers, NEW a \in Agents, NEW n \in FreeSlots, BeginPoll(h, a, n)
      PROVE  LockInv'
  <2> DEFINE c == Statement([NoTx EXCEPT !.op = "poll", !.agent = a, !.slots = n], "agent")
  <2>1. h \in Threads /\ Becomes(h, c)
        BY <1>3 DEF BeginPoll, Threads
  <2>2. Sound(h, c) /\ c.held = {}
        BY BeginPollSound
  <2> HIDE DEF c
  <2> QED BY <2>1, <2>2, FreshMoves
<1>4. ASSUME NEW h \in Handlers, HandlerStep(h) PROVE LockInv'
  <2>1. h \in Threads
        BY DEF Threads
  <2> QED BY <1>4, <2>1, LockRowKeeps, WaitForRowKeeps, AbortKeeps, CloseLeasesKeeps,
             CommitWriteKeeps, SelectTasksKeeps, EndsKeep DEF HandlerStep, CommitPoll, RollBack
<1>5. CASE SweepStep
  <2>1. Sweeper \in Threads
        BY DEF Threads
  <2> QED BY <1>5, <2>1, LockRowKeeps, WaitForRowKeeps, AbortKeeps, BeginSweepKeeps,
             SweepAgentKeeps, SweepTasksKeeps, EndsKeep DEF SweepStep, SweepNobody, CommitSweep, RollBack
<1>6. ASSUME NEW x \in Threads, LoseConnection(x) PROVE LockInv'
      BY <1>6, AbortKeeps DEF LoseConnection
<1> QED BY <1>0, <1>1, <1>2, <1>3, <1>4, <1>5, <1>6
        DEF LocksNext, Register, Heartbeat, Create, PollNothing, Age, lockVars

LEMMA LockInvAlways == LocksSpec => [](DbTypeOK /\ LockInv)
<1>1. LocksInit => DbTypeOK /\ LockInv
      BY DbTypedInit, LockInvInit
<1>2. (DbTypeOK /\ LockInv) /\ [LocksNext]_lockVars => (DbTypeOK /\ LockInv)'
      BY DbTypedNext, LockInvNext
<1> QED BY <1>1, <1>2, PTL DEF LocksSpec

-----------------------------------------------------------------------------
(* The queue *)

\* In the queue are those who wait, each once.
QueueInv ==
    /\ queue \in Seq(Threads)
    /\ \A i \in DOMAIN queue : tx[queue[i]].waits # NoRow
    /\ \A x \in Threads : tx[x].waits # NoRow => \E i \in DOMAIN queue : queue[i] = x
    /\ \A i, j \in DOMAIN queue : queue[i] = queue[j] => i = j

LEMMA WithoutOne ==
    ASSUME NEW S, NEW q \in Seq(S), \A i, j \in DOMAIN q : q[i] = q[j] => i = j,
           NEW x, NEW i \in DOMAIN q, q[i] = x
    PROVE  /\ Without(q, x) \in Seq(S)
           /\ DOMAIN Without(q, x) = 1 .. Len(q) - 1
           /\ \A j \in 1 .. Len(q) - 1 : Without(q, x)[j] = IF j < i THEN q[j] ELSE q[j + 1]
<1> DEFINE k == CHOOSE k \in DOMAIN q : q[k] = x
           w == [j \in 1 .. Len(q) - 1 |-> IF j < i THEN q[j] ELSE q[j + 1]]
<1>1. k \in DOMAIN q /\ q[k] = x
      OBVIOUS
<1>2. k = i
      BY <1>1
<1>3. Without(q, x) = w
      BY <1>2 DEF Without
<1>4. Len(q) \in Nat /\ DOMAIN q = 1 .. Len(q) /\ \A j \in 1 .. Len(q) : q[j] \in S
      OBVIOUS
<1>5. \A j \in 1 .. Len(q) - 1 : j \in 1 .. Len(q) /\ j + 1 \in 1 .. Len(q)
      BY <1>4
<1>6. Len(q) - 1 \in Nat
      BY <1>4
<1>7. w \in [1 .. Len(q) - 1 -> S]
      BY <1>4, <1>5
<1>8. w \in Seq(S)
      BY <1>6, <1>7
<1> QED BY <1>3, <1>8

\* A thread that begins to wait comes last, one that no longer waits leaves.
LEMMA QueueMoves ==
    ASSUME LockInv, QueueInv, NEW x \in Threads, NEW c, Becomes(x, c),
           tx[x].waits = NoRow \/ c.waits = NoRow
    PROVE  QueueInv'
<1>1. /\ \A y \in Threads \ {x} : tx'[y] = tx[y]
      /\ tx'[x] = c
      BY DEF Becomes, LockInv
<1>2. /\ queue \in Seq(Threads) /\ Len(queue) \in Nat /\ DOMAIN queue = 1 .. Len(queue)
      /\ \A i \in DOMAIN queue : queue[i] \in Threads
      BY DEF QueueInv
<1>3. CASE c.waits = tx[x].waits
  <2>1. queue' = queue
        BY <1>3 DEF Becomes
  <2>2. \A y \in Threads : (tx'[y].waits # NoRow) <=> (tx[y].waits # NoRow)
        BY <1>1, <1>3
  <2> QED BY <1>2, <2>1, <2>2 DEF QueueInv
<1>4. CASE c.waits # NoRow /\ tx[x].waits = NoRow
  <2> DEFINE n == Len(queue) + 1
  <2>1. queue' = Append(queue, x)
        BY <1>4 DEF Becomes
  <2>2. /\ queue' \in Seq(Threads) /\ DOMAIN queue' = 1 .. n /\ queue'[n] = x
        /\ \A i \in DOMAIN queue : i \in 1 .. n /\ queue'[i] = queue[i]
        /\ \A i \in 1 .. n : i = n \/ i \in DOMAIN queue
        BY <1>2, <2>1
  <2>3. \A i \in DOMAIN queue : queue[i] # x
        BY <1>4 DEF QueueInv
  <2> HIDE DEF n
  <2>4. \A i \in 1 .. n : tx'[queue'[i]].waits # NoRow
        BY <1>1, <1>2, <1>4, <2>2, <2>3 DEF QueueInv
  <2>5. \A y \in Threads : tx'[y].waits # NoRow => \E i \in 1 .. n : queue'[i] = y
    <3> TAKE y \in Threads
    <3>1. CASE y = x
          BY <3>1, <2>2, <1>2 DEF n
    <3>2. CASE y # x
          BY <3>2, <1>1, <2>2 DEF QueueInv
    <3> QED BY <3>1, <3>2
  <2>6. \A i, j \in 1 .. n : queue'[i] = queue'[j] => i = j
        BY <2>2, <2>3 DEF QueueInv
  <2> QED BY <2>2, <2>4, <2>5, <2>6 DEF QueueInv
<1>5. CASE c.waits = NoRow /\ tx[x].waits # NoRow
  <2>1. queue' = Without(queue, x)
        BY <1>5 DEF Becomes
  <2>2. PICK k \in DOMAIN queue : queue[k] = x
        BY <1>5 DEF QueueInv
  <2> DEFINE n == Len(queue) - 1  N == 1 .. n
  <2>3. /\ queue' \in Seq(Threads) /\ DOMAIN queue' = N
        /\ \A j \in N : queue'[j] = IF j < k THEN queue[j] ELSE queue[j + 1]
        BY <2>1, <2>2, WithoutOne DEF QueueInv
  <2>4. \A j \in N : \E i \in DOMAIN queue :
            i # k /\ queue'[j] = queue[i] /\ ((i = j /\ j < k) \/ (i = j + 1 /\ ~(j < k)))
    <3> TAKE j \in N
    <3>1. CASE j < k
          BY <3>1, <1>2, <2>2, <2>3
    <3>2. CASE ~(j < k)
          BY <3>2, <1>2, <2>2, <2>3
    <3> QED BY <3>1, <3>2
  <2>5. \A i \in DOMAIN queue \ {k} : \E j \in N : queue'[j] = queue[i]
    <3> TAKE i \in DOMAIN queue \ {k}
    <3>1. CASE i < k
      <4>1. i \in N
            BY <3>1, <1>2, <2>2
      <4> QED BY <3>1, <4>1, <2>3
    <3>2. CASE k < i
      <4>1. i - 1 \in N /\ ~(i - 1 < k) /\ (i - 1) + 1 = i
            BY <3>2, <1>2, <2>2
      <4> QED BY <4>1, <2>3
    <3> QED BY <3>1, <3>2, <1>2, <2>2
  <2> HIDE DEF N
  <2>6. \A j \in N : tx'[queue'[j]].waits # NoRow
    <3> TAKE j \in N
    <3>1. PICK i \in DOMAIN queue : i # k /\ queue'[j] = queue[i]
          BY <2>4
    <3>2. queue[i] # x /\ queue[i] \in Threads
          BY <1>2, <2>2, <3>1 DEF QueueInv
    <3> QED BY <1>1, <3>1, <3>2 DEF QueueInv
  <2>7. \A y \in Threads : tx'[y].waits # NoRow => \E j \in N : queue'[j] = y
    <3> SUFFICES ASSUME NEW y \in Threads, tx'[y].waits # NoRow
                 PROVE  \E j \in N : queue'[j] = y
          OBVIOUS
    <3>1. y # x /\ tx[y].waits # NoRow
          BY <1>1, <1>5
    <3>2. PICK i \in DOMAIN queue : queue[i] = y
          BY <3>1 DEF QueueInv
    <3>3. i # k
          BY <2>2, <3>1, <3>2
    <3> QED BY <2>5, <3>2, <3>3
  <2>8. ASSUME NEW i \in N, NEW j \in N, queue'[i] = queue'[j] PROVE i = j
    <3>1. PICK p \in DOMAIN queue :
              queue'[i] = queue[p] /\ ((p = i /\ i < k) \/ (p = i + 1 /\ ~(i < k)))
          BY <2>4
    <3>2. PICK r \in DOMAIN queue :
              queue'[j] = queue[r] /\ ((r = j /\ j < k) \/ (r = j + 1 /\ ~(j < k)))
          BY <2>4
    <3>3. p = r
          BY <2>8, <3>1, <3>2 DEF QueueInv
    <3> QED BY <3>1, <3>2, <3>3, <1>2, <2>2 DEF N
  <2> QED BY <2>3, <2>6, <2>7, <2>8 DEF QueueInv
<1> QED BY <1>3, <1>4, <1>5

\* Every step is one of a thread that does not go from one row it waits for to another.
OneThreadMoves ==
    \E x \in Threads : \E c : Becomes(x, c) /\ (tx[x].waits = NoRow \/ c.waits = NoRow)

LEMMA LocksNextMoves ==
    LockInv /\ DbTypeOK /\ LocksNext => UNCHANGED <<tx, queue>> \/ OneThreadMoves
<1> SUFFICES ASSUME LockInv, DbTypeOK, LocksNext PROVE UNCHANGED <<tx, queue>> \/ OneThreadMoves
      OBVIOUS
<1>1. \A x \in Threads : tx[x] \in Transactions
      BY DEF LockInv
<1>2. ASSUME NEW x \in Threads, NEW c, Becomes(x, c), tx[x].waits = NoRow \/ c.waits = NoRow
      PROVE  OneThreadMoves
      BY <1>2 DEF OneThreadMoves
<1>3. NoTx.waits = NoRow
      BY DEF NoTx
<1>4. ASSUME NEW x \in Threads, Becomes(x, NoTx) PROVE OneThreadMoves
      BY <1>2, <1>3, <1>4
<1>5. ASSUME NEW h \in Handlers, ~Open(h) PROVE tx[h].waits = NoRow
  <2>1. Sound(h, tx[h]) /\ h # Sweeper
        BY LocksAssumption DEF LockInv, Threads
  <2> QED BY <1>5, <2>1 DEF Sound, InOrder, WriterInOrder, PollInOrder, FreeTx, Open
<1>6. ASSUME NEW h \in Handlers, NEW c, ~Open(h), Becomes(h, c) PROVE OneThreadMoves
      BY <1>2, <1>5, <1>6 DEF Threads
<1>7. ASSUME NEW x \in Threads, LockRow(x) PROVE OneThreadMoves
  <2>1. PICK r : Becomes(x, Take(tx[x], r))
        BY <1>7 DEF LockRow
  <2>2. Take(tx[x], r).waits = NoRow
        BY <1>1 DEF Take, Transactions
  <2> QED BY <1>2, <2>1, <2>2
<1>8. ASSUME NEW x \in Threads, WaitForRow(x) PROVE OneThreadMoves
      BY <1>2, <1>8 DEF WaitForRow
<1>9. ASSUME NEW x \in Threads, Abort(x) PROVE OneThreadMoves
  <2> DEFINE b == [NoTx EXCEPT !.op = "report", !.task = tx[x].task, !.to = tx[x].to]
             c == Statement(b, "task")
  <2>1. CASE Becomes(x, NoTx)
        BY <1>4, <2>1
  <2>2. CASE Becomes(x, c)
    <3>1. b.waits = NoRow
          BY DEF NoTx
    <3>2. c.waits = b.waits
          BY DEF Statement, NoTx
    <3> QED BY <1>2, <2>2, <3>1, <3>2
  <2> QED BY <1>9, <2>1, <2>2 DEF Abort
<1>10. ASSUME NEW h \in Handlers, CloseLeases(h) \/ CommitWrite(h) \/ SelectTasks(h) \/ CommitPoll(h)
       PROVE  OneThreadMoves
      BY <1>10, <1>2 DEF CloseLeases, CommitWrite, SelectTasks, CommitPoll, Done, Threads
<1>11. CASE SweepStep
  <2>1. Sweeper \in Threads
        BY DEF Threads
  <2>2. CASE BeginSweep
    <3>1. Sound(Sweeper, tx[Sweeper])
          BY <2>1 DEF LockInv
    <3>2. tx[Sweeper].waits = NoRow
          BY <2>2, <3>1 DEF BeginSweep, Open, Sound, InOrder, FreeTx
    <3> QED BY <1>2, <2>1, <2>2, <3>2 DEF BeginSweep
  <2>3. CASE SweepNobody \/ SweepAgent \/ SweepTasks \/ CommitSweep
        BY <1>2, <2>1, <2>3 DEF SweepNobody, SweepAgent, SweepTasks, CommitSweep, Done
  <2> QED BY <1>7, <1>8, <1>9, <1>11, <2>1, <2>2, <2>3 DEF SweepStep, RollBack
<1>12. ASSUME NEW h \in Handlers, HandlerStep(h) PROVE OneThreadMoves
      BY <1>7, <1>8, <1>9, <1>10, <1>12 DEF HandlerStep, RollBack, Threads
<1>13. ASSUME NEW x \in Threads, LoseConnection(x) PROVE OneThreadMoves
      BY <1>9, <1>13 DEF LoseConnection
<1> QED BY <1>6, <1>11, <1>12, <1>13
        DEF LocksNext, Register, PollNothing, Age, Heartbeat, Create, BeginReport, BeginCancel, BeginPoll

LEMMA QueueInvInit == LocksInit => QueueInv
<1> SUFFICES ASSUME LocksInit PROVE QueueInv
      OBVIOUS
<1>1. queue = <<>> /\ \A x \in Threads : tx[x].waits = NoRow
      BY DEF LocksInit, NoTx
<1> QED BY <1>1 DEF QueueInv

LEMMA QueueInvNext == DbTypeOK /\ LockInv /\ QueueInv /\ [LocksNext]_lockVars => QueueInv'
<1> SUFFICES ASSUME DbTypeOK, LockInv, QueueInv, [LocksNext]_lockVars PROVE QueueInv'
      OBVIOUS
<1>1. CASE UNCHANGED <<tx, queue>>
      BY <1>1 DEF QueueInv
<1>2. CASE OneThreadMoves
      BY <1>2, QueueMoves DEF OneThreadMoves
<1> QED BY <1>1, <1>2, LocksNextMoves DEF lockVars

LEMMA QueueInvAlways == LocksSpec => [](DbTypeOK /\ LockInv /\ QueueInv)
<1>1. LocksInit => QueueInv
      BY QueueInvInit
<1>2. QueueInv /\ (DbTypeOK /\ LockInv) /\ [LocksNext]_lockVars => QueueInv'
      BY QueueInvNext
<1> QED BY <1>1, <1>2, LockInvAlways, PTL DEF LocksSpec

\* For any number of agents, tasks and threads: no row is locked by two transactions, and
\* in the queue are exactly the threads that wait.
THEOREM LocksTyped == LocksSpec => []LocksTypeOK
<1>1. DbTypeOK /\ LockInv /\ QueueInv => LocksTypeOK
  <2> SUFFICES ASSUME DbTypeOK, LockInv, QueueInv PROVE LocksTypeOK
        OBVIOUS
  <2>1. {queue[i] : i \in DOMAIN queue} = {x \in Threads : tx[x].waits # NoRow}
    <3>1. \A i \in DOMAIN queue : queue[i] \in Threads
          BY DEF QueueInv
    <3> QED BY <3>1 DEF QueueInv
  <2> QED BY <2>1 DEF LocksTypeOK, LockInv, QueueInv
<1> QED BY <1>1, QueueInvAlways, PTL

-----------------------------------------------------------------------------
(* Deadlocks *)

\* In a smallest circle everyone is waited for.
LEMMA EveryoneIsWaitedFor ==
    ASSUME NEW S \in SUBSET Threads, Circle(S), \A Z \in SUBSET S : Circle(Z) => Z = S,
           NEW y \in S
    PROVE  \E w \in S \ {y} : tx[w].waits \in tx[y].held
<1> SUFFICES ASSUME \A w \in S \ {y} : tx[w].waits \notin tx[y].held PROVE FALSE
      OBVIOUS
<1>1. S \ {y} # {}
      BY DEF Circle
<1>2. Circle(S \ {y})
      BY <1>1 DEF Circle
<1> QED BY <1>2

\* A handler in a circle waits for a lease of the task whose row it holds: who holds the
\* lease without the task's row is the sweep.
LEMMA HandlersWaitForTheSweep ==
    ASSUME LockInv, NEW S \in SUBSET Threads, Circle(S),
           \A Z \in SUBSET S : Circle(Z) => Z = S, NEW h \in S, h # Sweeper
    PROVE  tx[h].stmt = "leases of task" /\ Sweeper \in S
<1>1. PICK z \in S \ {h} : tx[h].waits \in tx[z].held
      BY DEF Circle
<1>2. PICK w \in S \ {h} : tx[w].waits \in tx[h].held
      BY EveryoneIsWaitedFor
<1>3. /\ Sound(h, tx[h]) /\ Sound(z, tx[z])
      /\ tx[h].held \intersect tx[z].held = {} /\ tx[z].held \subseteq Rows
      BY DEF LockInv, Transactions
<1>4. tx[h].waits \in tx[h].left /\ tx[h].held # {}
      BY <1>1, <1>2, <1>3, RowAssumption DEF Sound
<1>5. WriterInOrder(tx[h]) /\ tx[h].stmt = "leases of task"
      BY <1>3, <1>4 DEF Sound, InOrder, WriterInOrder, PollInOrder, FreeTx, OneRow
<1> DEFINE t == tx[h].task
<1>6. t \in Tasks /\ TaskRow(t) \in tx[h].held
      BY <1>5 DEF WriterInOrder
<1>7. PICK a \in Agents : tx[h].waits = LeaseRow(t, a)
      BY <1>4, <1>5 DEF WriterInOrder
<1>8. z = Sweeper
  <2> SUFFICES ASSUME z # Sweeper PROVE FALSE
        OBVIOUS
  <2>1. LeaseRow(t, a) \in tx[z].held
        BY <1>1, <1>7
  <2>2. CASE WriterInOrder(tx[z])
    <3>1. tx[z].task \in Tasks
          BY <2>2 DEF WriterInOrder
    <3>2. LeaseRow(t, a) # TaskRow(tx[z].task) /\ LeaseRow(t, a) # TaskRow(t)
          BY <3>1, <1>6, RowsDiffer
    <3>3. TaskRow(tx[z].task) \in tx[z].held
          BY <2>1, <2>2, <3>2 DEF WriterInOrder, OneRow
    <3>4. PICK b \in Agents : LeaseRow(t, a) = LeaseRow(tx[z].task, b)
          BY <2>1, <2>2, <3>2 DEF WriterInOrder, OneRow
    <3>5. tx[z].task = t
          BY <3>1, <3>4, <1>6, RowsDiffer
    <3> QED BY <1>3, <1>6, <3>3, <3>5
  <2>3. CASE PollInOrder(tx[z])
    <3>1. tx[z].agent \in Agents
          BY <2>3 DEF PollInOrder
    <3> QED BY <2>1, <2>3, <3>1, <1>6, RowsDiffer DEF PollInOrder, OneRow
  <2>4. CASE FreeTx(tx[z])
        BY <2>1, <2>4 DEF FreeTx
  <2> QED BY <1>3, <2>2, <2>3, <2>4 DEF Sound, InOrder
<1> QED BY <1>5, <1>8

\* However many agents, tasks and requests there are: only the sweep and requests that
\* hold their task's row and wait for its leases deadlock.
THEOREM DeadlocksAreTwo == LocksSpec => []DeadlockTakesSweepAndWriter
<1>1. LockInv => DeadlockTakesSweepAndWriter
  <2> SUFFICES ASSUME LockInv, NEW x \in Threads, Deadlocked(x), x # Sweeper
               PROVE  tx[x].stmt = "leases of task" /\ Deadlocked(Sweeper)
        BY DEF DeadlockTakesSweepAndWriter
  <2>1. PICK S \in SUBSET Waiting :
            x \in S /\ Circle(S) /\ \A Z \in SUBSET S : Circle(Z) => Z = S
        BY DEF Deadlocked
  <2>2. tx[x].stmt = "leases of task" /\ Sweeper \in S
        BY <2>1, HandlersWaitForTheSweep DEF Waiting
  <2> QED BY <2>1, <2>2 DEF Deadlocked
<1> QED BY <1>1, LockInvAlways, PTL
=============================================================================
