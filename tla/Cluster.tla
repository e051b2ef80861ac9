------------------------------- MODULE Cluster -------------------------------
(***************************************************************************)
(* The workers, run against the master of module ControlService.           *)
(*                                                                         *)
(* A worker is one thread: it registers once, then loops TickOnce: a       *)
(* heartbeat, a poll, and for each task received a "running" report, the   *)
(* execution, and the result.  It runs a batch one task after the other    *)
(* and acts on no answer but the poll's and the cancel check's: a report   *)
(* that fails or is refused is only logged.                                *)
(*                                                                         *)
(* Every step on the master's state is a step of ControlService.  Requests *)
(* may be lost before or after the master acts, a worker may crash (its    *)
(* child process lives on), and a live worker may be silent for longer     *)
(* than offline_after_sec; the constants say which of these may happen.    *)
(***************************************************************************)
EXTENDS ControlService

CONSTANTS
    NoTask, NoHandler,  \* absence of a task, of a handler
    Lossy,              \* requests, answers and transactions may fail
    MaxCrashes,         \* bound on the worker crashes of a behaviour
    EarlyRestart,       \* a worker may be back while tasks are leased to it
    SilentWorkers,      \* the workers that may be silent while they live
    PromptHandlers,     \* no handler sleeps through offline_after_sec
    UserCancels         \* the tasks a user may cancel

ASSUME ClusterAssumption ==
    /\ NoTask \notin Tasks /\ NoHandler \notin Handlers
    /\ MaxCrashes \in Nat
    /\ {Lossy, EarlyRestart, PromptHandlers} \subseteq BOOLEAN
    /\ SilentWorkers \subseteq Agents /\ UserCancels \subseteq Tasks
    /\ {"Idle", "Busy"} \subseteq HeartbeatStatuses
    /\ {"Running", "Succeeded", "Failed"} \subseteq ReportStates

VARIABLES
    phase,      \* where in TickOnce the worker is
    batch,      \* the tasks of the last poll that it has not begun
    current,    \* the task it has begun and not left
    wait,       \* the handler whose answer it waits for
    procs,      \* the child processes: pairs of a worker and a task
    crashes     \* number of crashes so far

workerVars == <<phase, batch, current, wait, procs, crashes>>
masterVars == <<dbVars, call>>
clusterVars == <<masterVars, workerVars>>

Phases == {"down", "idle", "polling", "received", "starting", "executing", "finishing"}

ClusterTypeOK ==
    /\ TypeOK
    /\ phase \in [Agents -> Phases]
    /\ batch \in [Agents -> SUBSET Tasks]
    /\ current \in [Agents -> Tasks \union {NoTask}]
    /\ wait \in [Agents -> Handlers \union {NoHandler}]
    /\ procs \subseteq Agents \X Tasks
    /\ crashes \in 0 .. MaxCrashes

ClusterInit ==
    /\ Init
    /\ phase = [a \in Agents |-> "down"]
    /\ batch = [a \in Agents |-> {}]
    /\ current = [a \in Agents |-> NoTask]
    /\ wait = [a \in Agents |-> NoHandler]
    /\ procs = {}
    /\ crashes = 0

-----------------------------------------------------------------------------
(* Requests *)

Goto(a, p) == phase' = [phase EXCEPT ![a] = p]

\* A report of a: a handler accepts it and will write it, or it is refused, or
\* it is lost.  wait[a] is the handler to wait for, if any.
SendReport(a, t, to) ==
    \/ \E h \in Handlers : /\ CheckReport(h, t, to)
                           /\ wait' = [wait EXCEPT ![a] = h]
    \/ /\ Lossy \/ ~IsValidTaskStateTransition(taskState[t], to)
       /\ UNCHANGED <<masterVars, wait>>

\* Mutant of Answered: the worker does not wait for the answer to a report.
AnsweredAtOnce(a) == a \in Agents

\* The answer has arrived, or the client gives up on it.
Answered(a) == wait[a] = NoHandler \/ Lossy

\* Handlers that answer in this step release the workers that wait for them.
ReleaseWaiting ==
    wait' = [a \in Agents |->
        IF wait[a] # NoHandler /\ call'[wait[a]] = Idle THEN NoHandler ELSE wait[a]]

-----------------------------------------------------------------------------
(* The worker *)

MayStart(a) == phase[a] = "down" /\ (EarlyRestart \/ \A t \in Tasks : ~HasLease(t, a))

\* Run: Register; when it fails the process exits and may be started again.
StartWorker(a) ==
    /\ MayStart(a)
    /\ HandleUpsertAgent(a)
    /\ Goto(a, "idle")
    /\ UNCHANGED <<batch, current, wait, procs, crashes>>

\* The master has taken the registration, but the answer is lost: the process exits.
RegistrationLost(a) ==
    /\ MayStart(a)
    /\ Lossy
    /\ HandleUpsertAgent(a)
    /\ UNCHANGED workerVars

\* The heartbeat of TickOnce: a failure is logged.
TickHeartbeat(a) ==
    /\ phase[a] = "idle"
    /\ \/ HandleAgentHeartbeat(a, "Idle")
       \/ Lossy /\ UNCHANGED masterVars
    /\ Goto(a, "polling")
    /\ UNCHANGED <<batch, current, wait, procs, crashes>>

PollAnswered(a) ==
    /\ phase[a] = "polling"
    /\ \E n \in FreeSlots : HandlePollTasks(a, n)
    /\ batch' = [batch EXCEPT ![a] = {t \in Tasks : openRows'[t][a] > openRows[t][a]}]
    /\ Goto(a, IF batch'[a] = {} THEN "idle" ELSE "received")
    /\ UNCHANGED <<current, wait, procs, crashes>>

\* TickOnce returns; what the master dispatched, if anything, nobody received.
PollFails(a) ==
    /\ phase[a] = "polling"
    /\ Lossy
    /\ \/ \E n \in FreeSlots : HandlePollTasks(a, n)
       \/ UNCHANGED masterVars
    /\ Goto(a, "idle")
    /\ UNCHANGED <<batch, current, wait, procs, crashes>>

ReportRunning(a, t) ==
    /\ phase[a] = "received"
    /\ t \in batch[a]
    /\ SendReport(a, t, "Running")
    /\ batch' = [batch EXCEPT ![a] = @ \ {t}]
    /\ current' = [current EXCEPT ![a] = t]
    /\ Goto(a, "starting")
    /\ UNCHANGED <<procs, crashes>>

\* TaskExecutor::Run forks, whatever came of the report.
BeginExecution(a) ==
    /\ phase[a] = "starting"
    /\ Answered(a)
    /\ procs' = procs \union {<<a, current[a]>>}
    /\ wait' = [wait EXCEPT ![a] = NoHandler]
    /\ Goto(a, "executing")
    /\ UNCHANGED <<masterVars, batch, current, crashes>>

BusyHeartbeat(a) ==
    /\ phase[a] = "executing"
    /\ HandleAgentHeartbeat(a, "Busy")
    /\ UNCHANGED workerVars

\* Mutant of LeaveTask: the worker polls again after each task.
LeaveBatch(a) ==
    /\ current' = [current EXCEPT ![a] = NoTask]
    /\ Goto(a, "idle")

\* The end of one task in the loop over the batch.
LeaveTask(a) ==
    /\ current' = [current EXCEPT ![a] = NoTask]
    /\ Goto(a, IF batch[a] = {} THEN "idle" ELSE "received")

\* Mutant of StopsFor: a task that was requeued is not given up.
StopsForCanceled(s) == s = "Canceled"
\* Mutant of StopsFor: a task that was canceled is not given up.
StopsForQueued(s) == s = "Queued"

\* The states on which is_canceled kills the child.
StopsFor(s) == s \in {"Canceled", "Queued"}

\* The cancel check of the executor's loop; no result is reported.
StopCanceled(a) ==
    /\ phase[a] = "executing"
    /\ StopsFor(taskState[current[a]])
    /\ procs' = procs \ {<<a, current[a]>>}
    /\ LeaveTask(a)
    /\ UNCHANGED <<masterVars, batch, wait, crashes>>

\* The child ends, or times out ("Failed"), and its result is reported.
ReportResult(a, r) ==
    /\ phase[a] = "executing"
    /\ procs' = procs \ {<<a, current[a]>>}
    /\ SendReport(a, current[a], r)
    /\ Goto(a, "finishing")
    /\ UNCHANGED <<batch, current, crashes>>

NextTask(a) ==
    /\ phase[a] = "finishing"
    /\ Answered(a)
    /\ wait' = [wait EXCEPT ![a] = NoHandler]
    /\ LeaveTask(a)
    /\ UNCHANGED <<masterVars, batch, procs, crashes>>

\* The worker process dies; nothing kills the child it has forked.
Crash(a) ==
    /\ phase[a] # "down"
    /\ crashes < MaxCrashes
    /\ crashes' = crashes + 1
    /\ batch' = [batch EXCEPT ![a] = {}]
    /\ current' = [current EXCEPT ![a] = NoTask]
    /\ wait' = [wait EXCEPT ![a] = NoHandler]
    /\ Goto(a, "down")
    /\ UNCHANGED <<masterVars, procs>>

OrphanExits(a, t) ==
    /\ <<a, t>> \in procs
    /\ current[a] # t
    /\ procs' = procs \ {<<a, t>>}
    /\ UNCHANGED <<masterVars, phase, batch, current, wait, crashes>>

Worker(a) ==
    \/ StartWorker(a) \/ RegistrationLost(a) \/ TickHeartbeat(a)
    \/ PollAnswered(a) \/ PollFails(a)
    \/ \E t \in Tasks : ReportRunning(a, t) \/ OrphanExits(a, t)
    \/ BeginExecution(a) \/ BusyHeartbeat(a) \/ StopCanceled(a) \/ NextTask(a)
    \/ \E r \in {"Succeeded", "Failed"} : ReportResult(a, r)
    \/ Crash(a)

-----------------------------------------------------------------------------
(* The master and its users *)

Write(h) ==
    /\ WriteReport(h)
    /\ ReleaseWaiting
    /\ UNCHANGED <<phase, batch, current, procs, crashes>>

MasterFails ==
    /\ Lossy
    /\ Restart \/ \E h \in Handlers : CallFails(h)
    /\ ReleaseWaiting
    /\ UNCHANGED <<phase, batch, current, procs, crashes>>

User ==
    /\ \/ \E t \in Tasks : HandleCreateTask(t)
       \/ \E h \in Handlers, t \in UserCancels : ReadForCancel(h, t)
       \/ \E h \in Handlers : WriteCancel(h)
    /\ UNCHANGED workerVars

Sweep == MaintenanceSweep /\ UNCHANGED workerVars

Silence(a) ==
    /\ phase[a] = "down" \/ a \in SilentWorkers
    /\ PromptHandlers => \A h \in Handlers : call[h] = Idle
    /\ Age(a)
    /\ UNCHANGED workerVars

ClusterNext ==
    \/ \E a \in Agents : Worker(a) \/ Silence(a)
    \/ \E h \in Handlers : Write(h)
    \/ MasterFails
    \/ User
    \/ Sweep

ClusterSpec == ClusterInit /\ [][ClusterNext]_clusterVars

\* The worker's loop goes on, child processes end or run into their timeout, a
\* transaction is repeated until it is acknowledged, the maintenance thread
\* sweeps, time passes for a dead worker, and a supervisor restarts it.  A poll
\* finds a waiting task locked by another transaction at most for a while: SF.
WorkerFairness(a) ==
    /\ WF_clusterVars(StartWorker(a))
    /\ WF_clusterVars(TickHeartbeat(a))
    /\ WF_clusterVars(PollAnswered(a))
    /\ SF_clusterVars(PollAnswered(a) /\ batch'[a] # {})
    /\ WF_clusterVars(\E t \in Tasks : ReportRunning(a, t))
    /\ WF_clusterVars(BeginExecution(a))
    /\ WF_clusterVars(StopCanceled(a))
    /\ WF_clusterVars(\E r \in {"Succeeded", "Failed"} : ReportResult(a, r))
    /\ WF_clusterVars(NextTask(a))
    /\ WF_clusterVars(phase[a] = "down" /\ Silence(a))

MasterFairness ==
    /\ \A h \in Handlers : WF_clusterVars(Write(h) /\ call'[h] = Idle)
    /\ WF_clusterVars(Sweep)

FairClusterSpec ==
    /\ ClusterSpec
    /\ \A a \in Agents : WorkerFairness(a)
    /\ MasterFairness

\* Commands that never end by themselves: only the cancel check can stop them.  The
\* master has no duty but the sweep, which StartMaintenanceThread makes every ten seconds
\* for as long as Run listens, swallowing what a sweep throws.
CancelFairSpec ==
    /\ ClusterSpec
    /\ \A a \in Agents : WF_clusterVars(StopCanceled(a))
    /\ WF_clusterVars(Sweep)

-----------------------------------------------------------------------------
(* Properties *)

\* A live worker knows every task that is leased to it: it is one it has begun or
\* has in its batch.  A lease the worker does not know of is never finished and,
\* as the worker keeps its heartbeat fresh, never swept.
LeaseIsKnown ==
    \A t \in Tasks, a \in Agents :
        HasLease(t, a) /\ phase[a] # "down" => t \in batch[a] \union {current[a]}

\* What a worker has in hand, by phase; LeaseIsKnown rests on this and the next.
HandsInv ==
    \A a \in Agents :
        /\ phase[a] \in {"down", "idle", "polling"} => batch[a] = {}
        /\ phase[a] \in {"starting", "executing", "finishing"} <=> current[a] \in Tasks
        /\ phase[a] \notin {"starting", "finishing"} => wait[a] = NoHandler

\* A task whose result was reported is leased only while a handler is about to
\* write that result.
ResultInv ==
    \A a \in Agents : phase[a] = "finishing" =>
        IF wait[a] = NoHandler
        THEN ~HasLease(current[a], a)
        ELSE /\ call[wait[a]] \in Reports
             /\ call[wait[a]].task = current[a]
             /\ call[wait[a]].to \in TerminalStates

\* A task runs on one machine at a time.
ExclusiveExecution ==
    \A t \in Tasks, a, b \in Agents :
        <<a, t>> \in procs /\ <<b, t>> \in procs => a = b

\* A submitted task is eventually finished, even when its worker crashes.
TaskFinishes == \A t \in Tasks : TaskExists(t) ~> IsTerminal(t)

\* A child process whose task is canceled is stopped.
CanceledProcessStops ==
    \A a \in Agents, t \in Tasks :
        (<<a, t>> \in procs /\ taskState[t] = "Canceled")
            ~> (<<a, t>> \notin procs \/ taskState[t] # "Canceled")

\* A child process whose task was taken away stops or sees the task run again.
RequeuedProcessStops ==
    \A a \in Agents, t \in Tasks :
        (<<a, t>> \in procs /\ taskState[t] = "Queued")
            ~> (<<a, t>> \notin procs \/ taskState[t] # "Queued")

-----------------------------------------------------------------------------
(* What the repository says and the code does not do *)

\* "Invalid task state transition" (control_service.cpp:399) and "Task already finished;
\* cannot cancel" (control_service.cpp:455): neither a report nor a cancel takes a task
\* out of a terminal state.
TerminalIsFinal ==
    [][\A t \in Tasks : IsTerminal(t) => taskState'[t] = taskState[t]]_clusterVars

\* "Reassignment of tasks when an agent dies" (requirements.md section 6.2): the
\* sweep finds a Running task by its assigned_agent, so it must have one.
RunningIsAssigned ==
    \A t \in Tasks : taskState[t] = "Running" => assignedAgent[t] # NoAgent
=============================================================================
