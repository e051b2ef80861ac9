# A verification model of DistributedComputing

DistributedComputing is a master that queues commands, workers that poll for
them and run them as child processes, a database that holds all of the shared
state, and a command line client.  This directory holds TLA+ modules translated
from the C++ sources, TLC configurations that check them on small instances, and
TLAPS proofs of the main safety properties for instances of every size.  Source
paths below are relative to the repository; `PROJECT.json` maps every definition
to its lines.

## 1. The system

| Component | State | Operations | Modelled in |
|---|---|---|---|
| `PgBroker` (`src/broker/pg_broker.cpp`) | tables `agents`, `tasks`, `task_assignments` | one transaction per operation: upsert, heartbeat, create, poll, status, cancel, sweep | `PgBroker`; with row locks `PgLocks` |
| `MongoBroker` (`src/broker/mongo_broker.cpp`) | the same three tables as collections, a counter | the same operations, with and without transactions | `MongoBroker` |
| `Broker::ExecuteWithRetry` (`src/broker/broker.hpp`) | attempt count | repeats a failed transaction | `ControlService`, `PgLocks`, `MongoBroker` |
| `ControlService` (`src/master/control_service.cpp`, `api_mappers.cpp`) | none besides the database; what each handler thread has read and not yet written | REST handlers, maintenance thread | `ControlService`, logs: `LogStore` |
| Worker (`src/worker/worker_app.cpp`, `agent_client.cpp`) | batch of the last poll, task in hand | register, heartbeat, poll, report, cancel check, log upload | `Cluster`, `TaskOutput` |
| `TaskExecutor` (`src/worker/task_executor.cpp`) | a child process, its deadline | start, wait loop, kill | `TaskExecutor`, as one step in `Cluster` |
| `LogStore` (`src/master/log_store.cpp`) | two files per task | write, tail by offset | `LogStore`, `TaskOutput` |
| UTF-8 sanitising (`src/common/string_utils.hpp`) | none (pure) | `IsValidUtf8`, `SanitizeUtf8Lossy` | `Utf8` |
| CLI (`src/cli/main.cpp`) | offset of a followed log | follow loop; commands, retry loop | follow loop in `LogStore` |
| SSH tunnel, startup, configuration, migrations, logging | - | - | not modelled (section 6) |

**How they interact.**  Workers and the CLI send HTTP requests; httplib serves
each on a thread of its pool, and each handler opens a database connection of its
own.  The handlers share nothing in memory: everything they share is in the
database or in the log files, and every race between them is a race between
transactions or between file operations.  A maintenance thread in the master
sweeps agents whose heartbeat is too old every ten seconds.  A worker is a single
thread: while a task runs, the executor's loop calls back for the cancel check and
for heartbeats, so the worker polls only between batches.  It uploads the two log
files of a task before it reports the result.

**What makes it correct**, and what is hard about it:

* A task is handed to one agent at a time, and finished tasks hold no assignment,
  although polls, sweeps, reports and cancels are concurrent transactions.
* A report is checked in one transaction and written in another; a cancel reads
  without a lock.  Whatever commits in between is overwritten.
* The sweep must find every task of an agent that is gone, and may not take tasks
  from one that is not.
* PostgreSQL's statements see what is committed when they begin, wait for rows, and
  may deadlock: the sweep locks assignments before tasks, reports and cancels the
  reverse.
* A standalone MongoDB has no transactions: every operation is a sequence of
  statements that interleave and may stop in the middle.
* Requests and answers get lost; a worker does not repeat a report, and the
  master does not repeat an answer.  A commit may succeed while the client sees a
  failure, and `ExecuteWithRetry` then runs the transaction again.
* Workers crash and come back, child processes outlive them, a worker may be
  silent for longer than `OFFLINE_SEC` and still run its task.
* Every submitted task should finish; a canceled task's process should stop.
* A child's end, the cancel check and the timeout race, on two platforms with two
  ways to measure time.
* A client reads a log by offset while it is being written, and the uploads of two
  runs of one task may write it at the same time: nothing locks it.

`PROJECT.json` lists the hazards one by one, each at its line.

## 2. Modules

| Module | What it is |
|---|---|
| `AssignmentLease` | abstract specification: what dispatching promises |
| `PgBroker` | the tables and one operator per transaction |
| `ControlService` | handlers and maintenance thread over `PgBroker`; `Spec` implements `AssignmentLease` |
| `PgLocks` | the transactions of `PgBroker` statement by statement, with row locks and deadlocks; `LocksSpec` implements `ControlService`, but for sweeps that do less |
| `Cluster` | workers, network and users over `ControlService`; `ClusterSpec` |
| `MongoBroker` | handlers and maintenance thread over MongoDB; `MongoSpec` implements `AssignmentLease` |
| `TaskExecutor` | one child process and the loop that waits for it |
| `LogStore` | the log files of a task and a client that follows one |
| `Utf8` | decoder and conversion as recursive functions, and a reference |
| `TaskOutput` | from the child's end to the client's terminal: `TaskExecutor`, `Utf8` and `LogStore` composed; `OutputSpec` |
| `ControlServiceProofs`, `ClusterProofs`, `LocksProofs`, `LocksLeases`, `LocksRefinement`, `MongoProofs`, `Utf8Proofs`, `OutputProofs` | theorems and proofs |
| `MCControlService`, `MCCluster`, `MCPgLocks`, `MCMongo`, `MCTaskOutput` | instances and symmetry for TLC |

The refinements are layers: `Cluster` implements `ControlService`, and so does
`PgLocks`, except that its sweep may miss tasks without a lease (`PartialSweep`);
`ControlService`, `PgLocks`, `Cluster` and `MongoBroker` implement
`AssignmentLease`.  None of them restricts what reports carry.

### PgBroker

`agentStatus`, `taskState` and `assignedAgent` are the columns, with `"Absent"` for
a row that does not exist and `NoAgent` for NULL.  `openRows[t][a]` counts the rows
of `task_assignments` with `unassigned_at IS NULL`; it is a count, not a set,
because the table has no unique key and a second insert would make a second row.
`overdue` abstracts `last_heartbeat`: the agents whose heartbeat is older than the
sweep's cutoff.  `HeartbeatExpires` is the passing of time.

A transaction is one step.  That row locks make it one is what `PgLocks` shows.
Statements that read without a lock are steps of their own.  A poll may take any
set of at most `free_slots` dispatchable tasks: `SKIP LOCKED` leaves out rows that
are locked at the moment, and the order in which tasks are preferred is not kept.
`Fits[a]` is the result of the OS, CPU and RAM filters.

Left out: exit codes, timestamps and error texts, which these statements write and
no guard reads.

### ControlService

`call[h]` is what handler thread `h` has checked and will write.
`POST /tasks/{id}/status` is `CheckReport`, then `WriteReport`; the write may be
repeated, since a commit whose acknowledgement was lost is retried.
`POST /tasks/{id}/cancel` is `ReadForCancel`, then `WriteCancel`.  The other
handlers are one transaction.  `CallFails` is the last failed attempt (500),
`Restart` a restart of the master, which forgets its pending calls and nothing
else.  Refused requests change nothing and are no steps, and so are the read-only
handlers.  A repeated `CreateTask` makes a second task, a repeated poll first
dispatches tasks whose answer is lost: both are sequences of existing steps.

### AssignmentLease

A task waits, or is leased to one agent, or neither.  Leases are granted on
waiting tasks only, in the step that takes them off the queue; they end for good,
or expire, and then the task waits again.  `ControlService` implements it with
`holder` read from the open rows and `waiting` the pollable tasks; `MongoBroker`
with `holder` read from the task documents, since there the rows lag behind: an
assigned task that is Running is leased, unless a late report has made it Running.

### PgLocks

`tx[x]` is the transaction that thread `x` has open: its operation and arguments,
the statement in progress (`stmt`), the rows this statement has found and not
reached (`left`), the row it waits for (`waits`) and the rows locked so far
(`held`).  A row is a triple or pair named after its table.  `Matching` is the WHERE
clause of a statement: what `Statement` finds in the committed state when it
begins, and what `Take` evaluates again once a row is free.  `LockRow` takes a row
that is free, `WaitForRow` queues for one that is not (`queue` keeps the order,
which PostgreSQL keeps too), `CommitWrite`, `CommitPoll` and `CommitSweep` write
everything at once, as other transactions see it.  `Register`, `Heartbeat` and
`PollNothing` hold nothing while they wait and are one step that needs the row free.

`Deadlocked(x)`: `x` is in a smallest circle of threads that wait for each other.
`RollBack` ends any one of them, `LoseConnection` any open transaction (a connection
that breaks, a restart of the master); both are `Abort`, after which
`ExecuteWithRetry` starts over (a report without a new check) or gives up.
The cutoff of the sweep is computed once, so nobody becomes overdue while its
transaction is open (`Age`).

`PartialSweep` is what separates the statements from the single step.  The sweep's last
statement judges tasks by the rows that were committed when it began.  A "running"
report that revives a finished task of a swept agent after that is not seen, and the
task stays with its agent.  A task with an open assignment is never missed.

### MongoBroker

`transactions` says which kind of server it is.  With transactions an operation is
one step, as in `ControlService`: every operation writes the documents its decision
rests on, so that of two overlapping ones one is aborted.  Without, `call[h]` and
`sweep` hold where an operation is between its statements: a poll finds candidates,
takes each with `update_one` under the same filter, inserts its assignment row and
updates the agent last; reports and cancels update the task and then close its rows;
the sweep lists the agents, and for each sets it Offline, closes its rows and puts
its tasks back.  `CallFails`, `SweepFails` and `Restart` stop an operation anywhere.
`WriteReport` may stay where it is, which is the update run once more by
`ExecuteWithRetry` after an exception, without the handler's check; `RetryReport` is
the same after the second statement has thrown.  A registration whose exception
`UpsertAgent` swallows changes no document and is no step: the worker is answered 200,
has no row, and everything it asks for later is refused.

Two history variables say what happened to a task or its agent.  `cut`: the agents for
whom a poll or a sweep was cut short.  `late`: the tasks whose state a report has
overwritten although its check would have refused the transition by then, such as a
"running" report checked before a cancel and written after it.  A task leaves `late`
when it changes hands.
Assignment rows of one task and agent are not counted (`InsertRow` writes 1):
nothing reads them apart, and the number would grow without bound.

### Cluster

`phase[a]` is where a worker is in `TickOnce`:

| phase | code | leaves by |
|---|---|---|
| `down` | no process | `StartWorker` (`Register`); `RegistrationLost`: it exits again |
| `idle` | before the heartbeat | `TickHeartbeat` |
| `polling` | before the poll | `PollAnswered`, `PollFails` |
| `received` | loop over the batch | `ReportRunning` |
| `starting` | waits for the answer | `BeginExecution` |
| `executing` | `TaskExecutor::Run` | `ReportResult`, `StopCanceled` |
| `finishing` | waits for the answer | `NextTask` |

`batch` holds the tasks not yet begun, `current` the one in hand, `procs` the child
processes, which outlive a crash of their worker (`OrphanExits`).  A report either
meets a handler and the worker waits for it (`wait`), or it is refused or lost,
and in each case the worker goes on: no answer but the registration's, the poll's and
the cancel check's changes what it does.  A report is checked in the step that sends
it: while the worker waits for the answer a delay before the check is a worker that is
slow to send, and only a report that is still under way when its worker has given up
on it would be a step of its own, which the model does not have.  The cancel check and
the kill are one step, since nobody but the worker sees what the kill changes.  The OS mismatch branch of
`TickOnce` cannot be taken: the poll filters on the OS this worker registered.

The environment is in constants: `Lossy` (requests, answers, transactions and the
master fail), `MaxCrashes`, `EarlyRestart` (a worker may register while tasks are
leased to it, because the sweep has not missed it yet), `SilentWorkers` (live workers
that may miss the cutoff: a paused machine, a partitioned network, a request that blocks), `PromptHandlers` (no
handler sleeps between its check and its write for as long as `OFFLINE_SEC`),
`UserCancels`.

### TaskExecutor, Utf8, LogStore and TaskOutput

`TaskExecutor` is `TaskExecutor::Run` for both platforms: `pc` goes through the
rounds of the loop (wait for the child, cancel check, deadline, heartbeat and
pause), `child` is what the operating system knows of the process, and the child
ends and time passes between any two steps.  POSIX compares a clock with the
deadline; Windows counts down the slices it has waited (`remaining`).

`Utf8` translates the decoder of `IsValidUtf8` and the loop of `SanitizeUtf8Lossy`
as recursive functions on sequences of bytes; `WellFormed` is the reference, the
table of well-formed byte sequences of the Unicode standard, and `RepairOf` what
the conversion should yield.

`LogStore` has the file on the master's disk (`file`), the requests that upload to it
(`upload[r][s]`: the text that run `r` of the task sends for stream `s`, and how much of
it the handler has written; the stream writes in as many pieces as it likes) and a
following client (`follower`: its offset, the size found by the tail in progress, and
how many bytes it has been shown without a gap).  `WriteAll` takes no lock: a handler
truncates the file when it opens it (`BeginWrite`) whatever others do to it, and each
writes at its own place (`Overwritten`), so that one text may keep the tail of the
other.  The auxiliary variable `mixed` remembers that a file was written by two at once.
A tail asks for the size and then reads to the end: `TailSize` and `TailRead` are two
steps; `TailUnread` is the tail that cannot open the file and answers with its size and
no data.

`TaskOutput` composes them: the verdict of `RunTask`, the worker's setting `UPLOAD_LOGS`
(without it the report follows at once), the two uploads with their limits (the
worker's on the file, the master's on the text), their failures, the report, and a
second run of the task, on another worker, that uploads both of its logs at any time
(`OtherUpload`: its outputs are `Reruns`).  A worker that gives up on a request goes on
while a handler may still write it.

## 3. What is checked

| Run | Instance | Shows |
|---|---|---|
| `MCControlServiceApi` | 2 agents, 2 tasks, 2 handlers, every state the API accepts in a report | `TypeOK`, `OneLeasePerTask`, `FinishedHoldsNoLease`, `OfflineHoldsNoLease`, `AgentLostOnlyBySweep`, `ImplementsLease` |
| `MCClusterLossy` | 2 agents, 2 tasks, 2 handlers; everything may be lost, nobody crashes or is silent | `ExclusiveExecution`, `LeaseMeansRunning` |
| `MCClusterLive` | 2 agents, 2 tasks to a batch, 2 handlers, 2 crashes, restarts after the sweep | `ClusterTypeOK`, `LeaseIsKnown`, `RunningIsAssigned`, `TaskFinishes`, `TerminalIsFinal` |
| `MCClusterCancel` | 2 agents, 1 task, 2 handlers, silent workers, cancels | `QueuedIsPollable`, `LeaseIsKnown`, `CanceledProcessStops`, `RequeuedProcessStops`, `SilentAgentLosesLease` |
| `MCPgLocks` | 2 agents, 1 task, 2 handlers and the sweep, running reports, results, cancels, lost connections | `LocksTypeOK`, `DeadlockTakesSweepAndWriter`, `LocksImplementService`, `LeaseEndsDespiteDeadlock` |
| `MCMongo` | 2 agents, 1 task, 2 handlers, both kinds of server, running reports and results, failures and restarts | `MongoTypeOK`, `TransactionsKeepLeases`, `StrandedByCutOrLateReport`, `MongoImplementsLease` |
| `MCTaskOutput` | outputs at the borders of the decoder's cases, timeouts of 0, 1 and 2 pauses, both platforms, uploads on or off, a second run that uploads | `OutputTypeOK`, `NoChildLeft`, `ResultHasLogs`, `StoredIsText`, `LogComesFromRuns`, `DecoderIsExact`, `FollowerMissesNothing`, `VerdictHasCause`, `TimeoutEnds`, `FollowerCatchesUp` |

**Bounds, and why they are enough.**  A second agent suffices for a task to be taken
by someone else, two tasks for a batch with one task in hand and one behind it, two
handlers for a check and a write that enclose another request, and with the sweep
they make three transactions that wait for one another.  `MCMongo` and `MCPgLocks`
have one task: their races are between statements about one task, and the tasks of
one agent are handled by the same statement.  (In `MCPgLocks` a circle of three
threads would need a second task: the theorem `DeadlocksAreTwo` covers it.)
`Fits` lets every agent run every task.  The state spaces are finite by
themselves: what counts up is crashes, bounded by `MaxCrashes`, the executor's
clock, bounded by `MaxElapsed` (beyond every timeout), and open rows, which the
invariants bound.  In `MCTaskOutput` the bytes are those at the borders of every
range of the decoder, in all pairs and in the three- and four-byte forms whose
second byte is restricted; limits of three and four bytes make both the master and
the worker refuse some of the texts; the other run writes one byte to stdout and nothing
to stderr, so that it may overlap, precede or follow a longer text, or leave it as it is.
Two action constraints keep independent things apart.  In `MCTaskOutput` (`Focus`) the
outputs at the borders are uploaded with no other run and no follower, which four outputs
chosen for the purpose have, and what follows `Run`, which does not read the platform,
is explored for one of the two.  In `MCPgLocks` (`Focus`) one handler serves the reports
and the polls of one agent, the other the cancels and the polls of either, which leaves
out two reports, two cancels, or two polls of one agent at the same time; the theorems
on `PgLocks` have no such restriction.  Agents, tasks and handlers are symmetric where
no liveness is checked, and `MCMongo` takes states for the same that differ only in
whether an agent is Idle or Busy (`MongoView`): no statement tells them apart.
`MCTaskOutput` does not check deadlock: a worker that has reported and a client that
nobody makes ask may rest.

Running reports are part of every instance, as every worker sends one for each task.
Written late they do three things that the properties speak of: a requeued task becomes
Running without an agent (`MCLateReport`); a finished one becomes Running again with its
old agent (`MCReportRace`), which over MongoDB is what `late` remembers; and one that is
revived during the last statement of the sweep is missed by it (`PartialSweep`).  No
lease comes of it in any of these cases.

Each property is broken by at least one plausible bug: the operators commented
"Mutant of ..." stand next to the definition they change.

### Where the code and what is said of it differ

| Run | What the repository says | What happens |
|---|---|---|
| `MCReportRace` | "Invalid task state transition" (`control_service.cpp:399`) | a report checked before a cancel and written after it takes the task out of Canceled |
| `MCLateReport` | reassignment of tasks when an agent dies (`doc/requirements.md:183`) | a swept worker's "running" report makes the requeued task Running without an agent; no poll and no sweep finds it |
| `MCDuplicateExecution` | prevent duplicate execution (`doc/requirements.md:109`) | a worker silent for `OFFLINE_SEC` finds its task running, on another machine, and goes on |
| `MCEarlyRestart` | reassignment of tasks when an agent dies (`doc/requirements.md:183`) | a worker that registers again before the sweep keeps leases it does not know of, and keeps them fresh |
| `MCMongoStranded` | tasks of an offline agent return to the queue (`doc/architecture.md:83`) | without transactions a sweep cut short after it has set the agent Offline leaves the task with it: the next sweep skips agents that are Offline |

Accordingly the passing runs say under which conditions the promises do hold: no
worker silent while it lives (`MCClusterLossy`), a restart only after the sweep and
answers that arrive (`MCClusterLive`), no heartbeat "offline"
(`MCControlServiceApi`), no statement that fails halfway and no report written late
(`MCMongo`).  Four of the
five refuted promises have a theorem that says under which condition they hold:

| Promise | Refuted by | Holds if |
|---|---|---|
| `RunningIsAssigned` | `MCLateReport` | `Watched`: no live worker is silent and no handler sleeps for `OFFLINE_SEC`; anything may be lost, crash, restart early or be canceled |
| `TerminalIsFinal` | `MCReportRace` | `Orderly`: `Watched`, nothing is lost, no user cancels; workers may crash and restart early |
| `ExclusiveExecution` | `MCDuplicateExecution` | `Heard`: no crash, no silence; anything may be lost |
| `OfflineAgentRunsNothing` | `MCMongoStranded` | no operation was cut short, as on a server with transactions, and no report was written late (`late` is empty) |

`TaskFinishes`, refuted by `MCEarlyRestart`, is a liveness property: `MCClusterLive`
checks it.

### Fairness

* `FairClusterSpec` (`MCClusterLive`): the worker's loop goes on (weak fairness of
  each of its steps), child processes end or hit their timeout, a pending write is
  acknowledged in the end, the maintenance thread sweeps, a dead worker's heartbeat
  expires and a supervisor restarts it.  One condition is strong: a worker that polls
  again and again receives a task sometimes, because `SKIP LOCKED` hides a waiting
  task only while another transaction holds its row.  Users need not act.
* `CancelFairSpec` (`MCClusterCancel`): the cancel check, and the sweep, whose thread
  loops for as long as the server listens and swallows what a sweep throws.  The
  commands may run for ever.
* `LocksFairSpec` (`MCPgLocks`): every thread goes on with its transaction.  Rows are
  given to who waits longest, so a thread is not overtaken for ever; and a deadlock
  ends in the rollback of somebody, whom the specification does not choose.
  Connections are not lost for ever: after the last loss the sweep comes through.
* `OutputFairSpec` (`MCTaskOutput`): the worker's loop goes on, a handler that has begun
  to write finishes (a request that is on its way need not arrive), and the client asks
  again and again.

## 4. What is proved

| Theorem | Assumes | Says |
|---|---|---|
| `TypeCorrect` | - | `TypeOK` |
| `AtMostOneLease` | - | `OneLeasePerTask` |
| `FinishedIsReleased` | - | `FinishedHoldsNoLease` |
| `AgentsLoseTasksToSweepsOnly` | - | `AgentLostOnlyBySweep` |
| `Refinement` | - | `Spec => ImplementsLease` |
| `LeasesAreWatched` | no heartbeat says Offline | `OfflineHoldsNoLease` |
| `QueueIsPollable`, `LeasedTasksRun` | no report says Queued | `QueuedIsPollable`, `LeaseMeansRunning` |
| `ClusterTypeCorrect` | - | `ClusterTypeOK` |
| `ClusterImplementsControlService` | - | `ClusterSpec => Spec` |
| `ClusterAtMostOneLease` | - | `OneLeasePerTask` in the cluster |
| `LiveWorkersKnowTheirLeases` | `Dependable` | `LeaseIsKnown` |
| `HeardWorkersRunAlone` | `Heard` | `ExclusiveExecution` |
| `ClusterImplementsLease` | - | `ClusterSpec => ImplementsLease` |
| `ClusterKeepsQueue` | no report says Queued | `QueuedIsPollable`, `LeaseMeansRunning` in the cluster |
| `WatchedTasksAreAssigned` | `Watched` | `RunningIsAssigned` |
| `OrderlyTasksStayFinished` | `Orderly` | `TerminalIsFinal` |
| `LocksTyped` | - | `LocksTypeOK` |
| `DeadlocksAreTwo` | - | `DeadlockTakesSweepAndWriter` |
| `StatementsKeepOneLease`, `StatementsCloseFinished` | - | `OneLeasePerTask`, `FinishedHoldsNoLease` of `LocksSpec` |
| `StatementsLeaveNoOfflineLease` | no heartbeat says Offline | `OfflineHoldsNoLease` of `LocksSpec` |
| `StatementsKeepQueuePollable`, `StatementsRunWhatTheyLease` | no report says Queued | `QueuedIsPollable`, `LeaseMeansRunning` of `LocksSpec` |
| `StatementsLeaveAgentsTheirTasks` | - | `AgentLostOnlyBySweep` of `LocksSpec` |
| `StatementsImplementLease` | - | `LocksSpec => ImplementsLease` |
| `LocksRefineService` | `Tasks` is finite | `LocksSpec => LocksImplementService` |
| `MongoTypeCorrect` | - | `MongoTypeOK` |
| `StrandedTasks` | - | `StrandedByCutOrLateReport` |
| `OnlyCutsOrLateReportsStrand` | - | `OfflineAgentRunsNothing` while `cut` and `late` are empty |
| `TransactionsStrandByLateReportsOnly` | - | `OfflineAgentRunsNothing` with transactions while `late` is empty |
| `TransactionalLeases` | no report says Queued | `TransactionsKeepLeases` |
| `MongoRefinement` | - | `MongoSpec => MongoImplementsLease` |
| `DecoderMatchesTable` | - | `IsValidUtf8` is `WellFormed`, on every sequence of bytes |
| `ConversionIsRepair` | - | `SanitizeUtf8Lossy` is `RepairOf`: well-formed, bounded, idempotent |
| `OutputTypeCorrect` | - | `OutputTypeOK` |
| `NoOrphan`, `VerdictsAreCaused` | - | `NoChildLeft`, `VerdictHasCause` |
| `FollowersMissNothing` | - | `FollowerMissesNothing` |
| `ResultsComeWithLogs`, `LogsAreText`, `LogsComeFromRuns` | - | `ResultHasLogs`, `StoredIsText`, `LogComesFromRuns` |
| `DecoderIsExactAlways` | - | `DecoderIsExact` |

They hold for any sets of agents, tasks and handlers and rest on the ASSUMEs of
the modules (NULL is no agent, requests carry legal values), which TLC evaluates
in every run, and on the conditions in the second column.

*The inductive invariant of `ControlService`* is `LeaseInv`: `OneLeasePerTask` is not
inductive, since a poll is safe only because a Queued task without an agent has no
open row, and creation is safe only because a fresh id has neither rows nor an
agent.  `FinishedHoldsNoLease` gives the second part for finished and fresh tasks,
and the last conjunct of `LeaseInv` the rest.  The refinement needs `LeaseInv` and
no more: it makes the choice in `holder` unique.

*In the cluster*, `HandsInv` ties phase, batch, task in hand and awaited handler
together.  `LeaseIsKnown` is inductive only with `ResultInv`: a worker leaves a task
when its final report is answered, and what makes this safe is that the handler it
waited for has written a terminal state, or that the report was refused, so that
the task was not Running and hence not leased.  `Dependable` is: nothing is lost,
restarts come after the sweep, no "offline" heartbeat, no "queued" report.

*`ExclusiveExecution`* follows from `HeardInv`: with `Heard` (no crash, no silence)
no worker that lives is ever overdue, so a task keeps its agent, and whatever a worker
has in its batch, in hand or in a process is assigned to it.  (A worker whose registration
was lost is not running and may become overdue, but it has nothing.)  `MCDuplicateExecution` shows
that the assumption is needed.

*`RunningIsAssigned`* is not inductive: what makes a report safe that is written late
is that the task still has an agent.  `WatchedInv` says why: whatever a worker has in
its batch or in hand is assigned to it, a live worker is not overdue, and every task
on which a handler has accepted a report is assigned to an agent that is not overdue,
for whom no sweep looks.  `PromptHandlers` is what keeps the last part while a dead
worker's report is pending, and without it the proof fails where time passes.

*`TerminalIsFinal`* needs that a check in one transaction is as good as one in the
transaction that writes.  `ChecksHold` (in `OrderlyInv`) says so: on a task with a
pending report the transition is valid in the state the task has now, no other handler
has a report on it, and its worker, if it still has it, waits for this very handler,
so that nobody can have a second one accepted.  Cancels by users break it in the step
that writes, as `MCReportRace` shows.

*Deadlocks.*  `LockInv` says which locks a transaction holds at which statement
(`Sound`) and that no row has two holders.  In a smallest circle everyone is waited
for, so a handler in it holds something while it waits; of all statements of the
requests only the one that closes a task's assignments waits while it holds a row,
and it holds the row of the task.  Whoever has one of the assignments without that
row is the sweep.  `LocksTyped` needs `QueueInv`: in the queue are exactly the threads
that wait, each of them once; only then does leaving the queue (`Without`) take a thread
out for good.

*What a transaction has read stays true until it commits* (`WorkInv`).  A report or a
cancel has, in what it has locked and what it has found and not reached, every open
assignment of its task; a poll's tasks are still dispatchable; the sweep has locked
exactly agents that are silent, and for those it is through with, every open assignment
and every unfinished task that has one.  Steps of others keep this because they write
only rows that they hold themselves (`HandlerKeepsWork`, `SweepKeepsWork`), and nobody
gets a new task behind the sweep's back, as a poll needs its agent's row.  An aborted
transaction writes nothing (`AbortKeeps`, `AbortWork`).  With it the
tables keep `TablesInv` in every commit: at most one open assignment for a task, the
assigned agent's, and none when it is finished.  The theorems of `LocksLeases` follow,
for every report.

*Statements are as good as single steps* (`LocksRefineService`).  A commit is the step of
`ControlService`, and all that comes before it a stutter.  The sweep's is one with
`Requeued` as long as it has locked every unfinished task of its agents.  `WorkInv` has
this for the leased ones only, since a "running" report may revive a finished task behind
the sweep's snapshot; with that the commit is a `PartialSweep`.  `Tasks` is finite because
the poll counts what it may take.

*Mongo.*  Without transactions each statement keeps what the refinement needs, as
`TryAssign` repeats the filter in its update.  A late report finds a task
without a lease, or ends it, and enters the task in `late`, so that it makes no lease.
`StrandedTasks` follows from an invariant that excuses every Running task of an Offline
agent by a sweep or a poll in progress, by `cut` or by `late`; it holds for every task
because the sweep puts back the tasks of its agent last.  `OnlyCutsOrLateReportsStrand`
reads it where nothing is in progress, and `TransactionsStrandByLateReportsOnly` adds
that with transactions nothing is ever cut short.

*Text.*  `IsValidUtf8` and the conversion are recursive functions of a position, and so
are the references.  What they yield for every length is proved by induction on the
position, downwards from the end of the text (`Downwards`) or upwards along the cuts:
the induction is over a set of positions, which the provers can instantiate where they
could not instantiate a predicate.  One round decodes exactly where a character of the
table begins, at most one length fits, and a character in front of well-formed text is
well-formed text; the conversion's text is a sequence of such characters, since the
replacement is one itself.

*Output.*  `OutInv` relates the executor's clock with the slices that are left, the
child with the step of the loop, and the follower's numbers with the file and with what
is still to be written.  `LogsInv` says where the bytes of a log come from: as long as
the file is not mixed, the run whose upload opened it last has put there what it has
written, and nothing else is there, so that at rest the file is that run's text; mixed or
not, every byte is one that a run has written in its place, or the zero of a gap.  And
once the worker is past an upload and no upload has failed, that upload is complete.  With
the theorems on text this gives `ResultHasLogs`, `StoredIsText` and `LogComesFromRuns` for
every output.

Checked by TLC only: the liveness properties (`TaskFinishes`, `CanceledProcessStops`,
`RequeuedProcessStops`, `SilentAgentLosesLease`, `LeaseEndsDespiteDeadlock`,
`TimeoutEnds`, `FollowerCatchesUp`), since the prover handles neither fairness nor
ENABLED, and the five disagreements, which are counterexamples.  Every other property of
a run is stated by a theorem.

## 5. How to run it

`tlc -config MCPgLocks.cfg MCPgLocks` and the like; every `.cfg` belongs to the
module that `PROJECT.json` names with it.  Each run ends within five minutes on two
workers.  `tlapm ClusterProofs.tla` and the like check the proofs.

## 6. Not modelled

* **CLI** (`src/cli/main.cpp`), but for its follow loop: parsing of arguments and
  printing of tables and JSON keep no state.  The retry loop repeats a request the
  master may have executed; on the master's side a repeated submit is another
  `CreateTask`, a repeated cancel another cancel, and nothing in the repository says
  that a submit makes one task only.
* **SSH tunnel** (`src/common/ssh_tunnel.cpp`): a child `ssh` between the master and
  the database.  Whether the port it picked is still free, and whether `ssh` lives,
  is decided by other programs; the brokers see a failed connection, which is
  `CallFails`.
* **Startup, configuration, migrations, scripts**: they run once, one after the
  other, before the system exists.
* **Logging, time formatting, environment**: output without state that a guard reads.
* **Read-only handlers and queries** (lists, summaries): they change nothing.  The
  filters of the poll are `Fits`; the order of creation and the page limits of the
  queries are not kept, and with them the fairness among waiting tasks.
* **Exit codes, timestamps, error texts** in the database: no guard reads them.
* **Storage errors of the log files**: the code looks at no result of a write, so
  there is no control to model.  A size that cannot be found (`log_store.cpp:31`) counts
  as zero and the client starts again at the front; it is left out too.
* **A report delayed on the network** until its worker has given up on it: see
  `Cluster` in section 2.
* **Overflow of `timeout_sec * 1000`** on Windows: the executor's time counts pauses.
