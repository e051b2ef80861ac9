---------------------------- MODULE TaskExecutor ----------------------------
(***************************************************************************)
(* TaskExecutor::Run: one child process and the loop that waits for it.    *)
(* Each round looks for the child's end, asks whether the task was         *)
(* canceled, looks at the deadline, sends a heartbeat and pauses.  The     *)
(* child goes on between any two of these steps, the master may answer     *)
(* anything about the task, and a request to it may take any time.         *)
(*                                                                         *)
(* Time counts pauses: 50 ms on POSIX, 500 ms on Windows.  POSIX compares  *)
(* the clock with the deadline; Windows counts down the slices it has      *)
(* waited, and asks for the exit code of a process it has just told to     *)
(* end.                                                                    *)
(***************************************************************************)
EXTENDS Integers

CONSTANTS
    Timeouts,   \* timeout_sec, in pauses; 0 when there is none
    MaxElapsed  \* bound on the clock

ASSUME ExecutorAssumption ==
    /\ 0 \in Timeouts /\ Timeouts \subseteq Nat
    /\ MaxElapsed \in Nat /\ \A n \in Timeouts : n < MaxElapsed

VARIABLES
    platform,   \* which of the two implementations was compiled
    timeout,    \* of the task
    child,      \* the process: "none", "running", "ended", "killed" or "reaped"
    exitCode,   \* what the system knows of its end, or 0
    elapsed,    \* time since the start
    remaining,  \* Windows: remaining_ms, in slices
    pc,         \* the step of the loop
    result      \* what Run returns: how it ended and with which exit code

execVars == <<platform, timeout, child, exitCode, elapsed, remaining, pc, result>>

LoopSteps == {"wait", "cancel", "deadline", "pause"}
Codes == {0, 1, 127}        \* success, failure, execvp failed
KilledCodes == {1, 137, 259}    \* TerminateProcess, SIGKILL, STILL_ACTIVE

NoResult == [how |-> "none", code |-> 0]

ExecTypeOK ==
    /\ platform \in {"posix", "windows"}
    /\ timeout \in Timeouts
    /\ child \in {"none", "running", "ended", "killed", "reaped"}
    /\ exitCode \in Codes \union KilledCodes
    /\ elapsed \in 0 .. MaxElapsed
    /\ remaining \in 0 .. timeout
    /\ pc \in LoopSteps \union {"start", "returned"}
    /\ result \in [how : {"none", "failed_to_start", "exited", "canceled", "timed_out"},
                   code : Codes \union KilledCodes \union {-1}]

ExecInit ==
    /\ platform \in {"posix", "windows"}
    /\ timeout \in Timeouts
    /\ child = "none"
    /\ exitCode = 0
    /\ elapsed = 0
    /\ remaining = timeout
    /\ pc = "start"
    /\ result = NoResult

Later == elapsed' = IF elapsed < MaxElapsed THEN elapsed + 1 ELSE elapsed

Return(how, code) ==
    /\ result' = [how |-> how, code |-> code]
    /\ pc' = "returned"

-----------------------------------------------------------------------------
(* The child, the master and the clock *)

ChildEnds ==
    /\ child = "running"
    /\ child' = "ended"
    /\ exitCode' \in Codes
    /\ UNCHANGED <<platform, timeout, elapsed, remaining, pc, result>>

TimePasses ==
    /\ pc \in LoopSteps
    /\ elapsed < MaxElapsed
    /\ Later
    /\ UNCHANGED <<platform, timeout, child, exitCode, remaining, pc, result>>

-----------------------------------------------------------------------------
(* The loop *)

\* fork or CreateProcess, or its failure.
Start ==
    /\ pc = "start"
    /\ \/ child' = "running" /\ pc' = "wait" /\ UNCHANGED result
       \/ Return("failed_to_start", -1) /\ UNCHANGED child
    /\ UNCHANGED <<platform, timeout, exitCode, elapsed, remaining>>

\* waitpid(WNOHANG), or WaitForSingleObject for a slice.  When SIGCHLD is ignored the
\* system itself buries the child and waitpid fails; Windows may refuse to wait.
Wait ==
    /\ pc = "wait"
    /\ \/ /\ child = "ended"
          /\ child' = "reaped"
          /\ Return("exited", exitCode) \/ (platform = "posix" /\ Return("failed_to_start", -1))
          /\ UNCHANGED elapsed
       \/ /\ platform = "windows"
          /\ Return("failed_to_start", IF child = "ended" THEN exitCode ELSE 259)
          /\ UNCHANGED <<child, elapsed>>
       \/ /\ child = "running"
          /\ pc' = "cancel"
          /\ IF platform = "windows" THEN Later ELSE UNCHANGED elapsed
          /\ UNCHANGED <<child, result>>
    /\ UNCHANGED <<platform, timeout, exitCode, remaining>>

\* Mutant of KillChild: the killed child is not waited for.
KillUnwaited(how) ==
    /\ child \in {"ended", "running"}
    /\ child' = IF child = "ended" THEN "reaped" ELSE "killed"
    /\ exitCode' = IF child = "ended" THEN exitCode ELSE 137
    /\ Return(how, exitCode')

\* kill and waitpid, which returns the child's own code if it was faster; or
\* TerminateProcess, GetExitCodeProcess and CloseHandle.
KillChild(how) ==
    \/ /\ child = "ended"
       /\ child' = "reaped"
       /\ Return(how, exitCode)
       /\ UNCHANGED exitCode
    \/ /\ child = "running" /\ platform = "posix"
       /\ child' = "reaped"
       /\ exitCode' = 137
       /\ Return(how, 137)
    \/ /\ child = "running" /\ platform = "windows"
       /\ child' = "killed"
       /\ exitCode' = 1
       /\ \E code \in {1, 259} : Return(how, code)

\* A process told to end ends.
KilledEnds ==
    /\ child = "killed"
    /\ child' = "reaped"
    /\ UNCHANGED <<platform, timeout, exitCode, elapsed, remaining, pc, result>>

\* is_canceled says yes; or the check is not due, its request fails, or the task is
\* neither canceled nor queued: go on.
CancelCheck ==
    /\ pc = "cancel"
    /\ \/ KillChild("canceled")
       \/ pc' = "deadline" /\ UNCHANGED <<child, exitCode, result>>
    /\ UNCHANGED <<platform, timeout, elapsed, remaining>>

\* Mutant of Expired: Windows compares the time left with nothing waited yet.
ExpiredEarly ==
    /\ timeout > 0
    /\ IF platform = "posix" THEN elapsed >= timeout ELSE remaining <= 2

Expired ==
    /\ timeout > 0
    /\ IF platform = "posix" THEN elapsed >= timeout ELSE remaining <= 1

\* Mutant of Deadline: Windows does not count the slice that it waited.
DeadlineUncounted ==
    /\ pc = "deadline"
    /\ \/ Expired /\ KillChild("timed_out")
       \/ ~Expired /\ pc' = "pause" /\ UNCHANGED <<child, exitCode, result>>
    /\ UNCHANGED <<platform, timeout, elapsed, remaining>>

\* Mutant of Deadline: Windows counts down for a task without a timeout, too.
DeadlineAlways ==
    /\ pc = "deadline"
    /\ \/ Expired /\ KillChild("timed_out") /\ UNCHANGED remaining
       \/ /\ ~Expired
          /\ pc' = "pause"
          /\ remaining' = IF platform = "windows" THEN remaining - 1 ELSE remaining
          /\ UNCHANGED <<child, exitCode, result>>
    /\ UNCHANGED <<platform, timeout, elapsed>>

Deadline ==
    /\ pc = "deadline"
    /\ \/ Expired /\ KillChild("timed_out") /\ UNCHANGED remaining
       \/ /\ ~Expired
          /\ pc' = "pause"
          /\ remaining' = IF platform = "windows" /\ timeout > 0 THEN remaining - 1 ELSE remaining
          /\ UNCHANGED <<child, exitCode, result>>
    /\ UNCHANGED <<platform, timeout, elapsed>>

\* doHeartbeat, whose failure is logged; POSIX sleeps.
Pause ==
    /\ pc = "pause"
    /\ pc' = "wait"
    /\ IF platform = "posix" THEN Later ELSE UNCHANGED elapsed
    /\ UNCHANGED <<platform, timeout, child, exitCode, remaining, result>>

Loop == Start \/ Wait \/ CancelCheck \/ Deadline \/ Pause

ExecNext == Loop \/ ChildEnds \/ KilledEnds \/ TimePasses
=============================================================================
