----------------------------- MODULE TaskOutput -----------------------------
(***************************************************************************)
(* What becomes of a command's result and output: the worker runs it       *)
(* (TaskExecutor), reads its two log files, converts them (Utf8), uploads  *)
(* them to the master (LogStore), and reports the result last.  Meanwhile  *)
(* a client may follow the log, and another worker, to which the task was  *)
(* given when this one fell silent, may upload the logs of its own run.    *)
(***************************************************************************)
EXTENDS TaskExecutor, LogStore, Utf8

CONSTANTS
    Outputs,        \* what the two files of a run may hold: functions from Streams to bytes
    Reruns,         \* what the two files of the other run may hold
    MaxUploadBytes  \* limit of the worker on one log file

ASSUME OutputAssumption ==
    /\ Streams = {"stdout", "stderr"} /\ Runs = {"own", "other"}
    /\ \A output \in Outputs \union Reruns : \A s \in Streams : output[s] \in Seq(Byte)
    /\ NoFile \notin Seq(Byte)
    /\ MaxUploadBytes \in Nat

VARIABLES
    uploadLogs, \* the worker's setting UPLOAD_LOGS
    verdict,    \* what the worker makes of the run, "none" before
    written,    \* written[s]: what the worker's file holds when it is read
    step,       \* where the worker is after Run has returned
    logError,   \* the error message of the report speaks of a log
    reported    \* the report has been sent

outputVars == <<uploadLogs, verdict, written, step, logError, reported>>
allVars == <<execVars, logVars, outputVars>>

Empty == [s \in Streams |-> <<>>]

OutputTypeOK ==
    /\ ExecTypeOK
    /\ verdict \in {"none", "succeeded", "failed", "canceled"}
    /\ written \in Outputs \/ written = Empty
    /\ file \in [Streams -> Seq(Byte) \union {NoFile}]
    /\ upload \in [Runs -> [Streams -> [stage : {"none", "sent", "open", "closed"},
                                        text : Seq(Byte), done : Nat]]]
    /\ mixed \in [Streams -> BOOLEAN]
    /\ follower \in [offset : Nat, size : Nat \union {-1}, shown : Nat, skipped : BOOLEAN]
    /\ step \in {"run", "stdout", "stderr", "report", "done"}
    /\ uploadLogs \in BOOLEAN /\ logError \in BOOLEAN /\ reported \in BOOLEAN

OutputInit ==
    /\ ExecInit
    /\ LogInit
    /\ uploadLogs \in BOOLEAN
    /\ verdict = "none"
    /\ written = Empty
    /\ step = "run"
    /\ logError = FALSE /\ reported = FALSE

-----------------------------------------------------------------------------

Execute == step = "run" /\ ExecNext /\ UNCHANGED <<logVars, outputVars>>

\* The chain of conditions after Run.
Verdict ==
    IF result.how = "canceled" THEN "canceled"
    ELSE IF result.how = "exited" /\ result.code = 0 THEN "succeeded" ELSE "failed"

\* Run has returned, and what it knew of the process is gone but for its result.  The
\* files hold what the command wrote; after a failed start, what an earlier run of the
\* same task left there.  Without UPLOAD_LOGS they stay where they are.
Collect ==
    /\ step = "run" /\ pc = "returned"
    /\ verdict' = Verdict
    /\ written' \in Outputs
    /\ step' = IF uploadLogs THEN "stdout" ELSE "report"
    /\ timeout' = 0 /\ elapsed' = 0 /\ remaining' = 0
    /\ child' = "none" /\ exitCode' = 0 /\ result' = NoResult
    /\ UNCHANGED <<platform, pc, logVars, uploadLogs, logError, reported>>

After(s) == IF s = "stdout" THEN "stderr" ELSE "report"

\* ReadFileWithLimit reads the file of the stream whose turn it is.
MayUpload(s) == step = s /\ Len(written[s]) <= MaxUploadBytes

\* Mutant of Upload: the text is sent as it was written.
UploadRaw(s) == MayUpload(s) /\ Send("own", s, written[s]) /\ UNCHANGED <<execVars, outputVars>>

\* The file is read and converted and the request sent.
Upload(s) ==
    /\ MayUpload(s)
    /\ Send("own", s, SanitizeUtf8Lossy(written[s]))
    /\ UNCHANGED <<execVars, outputVars>>

\* Mutant of Uploaded: the answer is sent before the file is written.
UploadedEarly(s) ==
    /\ step = s /\ Begun("own", s)
    /\ step' = After(s)
    /\ UNCHANGED <<execVars, logVars, uploadLogs, verdict, written, logError, reported>>

Uploaded(s) ==
    /\ step = s /\ upload["own"][s].stage = "closed"
    /\ step' = After(s)
    /\ UNCHANGED <<execVars, logVars, uploadLogs, verdict, written, logError, reported>>

\* The log cannot be read or is too large, the master refuses it (413) or cannot open
\* the file, or the request or its answer is late or lost: the worker gives up on the
\* logs.
UploadFails(s) ==
    /\ step = s
    /\ step' = "report"
    /\ logError' = TRUE
    /\ UNCHANGED <<execVars, logVars, uploadLogs, verdict, written, reported>>

\* Nothing is reported of a canceled task.
Report ==
    /\ step = "report"
    /\ reported' = (verdict # "canceled")
    /\ step' = "done"
    /\ UNCHANGED <<execVars, logVars, uploadLogs, verdict, written, logError>>

\* The task was requeued meanwhile, and the worker of its other run uploads that run's
\* logs in the same way, whatever this one does: stderr when stdout has been answered.
OtherUpload(s) ==
    /\ s = "stderr" => upload["other"]["stdout"].stage = "closed"
    /\ \E output \in Reruns :
          /\ Len(output[s]) <= MaxUploadBytes
          /\ Send("other", s, SanitizeUtf8Lossy(output[s]))
    /\ UNCHANGED <<execVars, outputVars>>

\* A handler takes up a request, whether or not someone still waits for its answer.
HandlerOpens(r, s) == BeginWrite(r, s) /\ UNCHANGED <<execVars, outputVars>>

HandlerWrites(r, s) == (WritePiece(r, s) \/ EndWrite(r, s)) /\ UNCHANGED <<execVars, outputVars>>

Follow == (TailSize \/ TailRead) /\ UNCHANGED <<execVars, outputVars>>

FollowUnread == TailUnread /\ UNCHANGED <<execVars, outputVars>>

WorkerStep ==
    \/ Collect \/ Report
    \/ \E s \in Streams : Upload(s) \/ Uploaded(s) \/ UploadFails(s)

OutputNext ==
    \/ Execute
    \/ WorkerStep
    \/ \E s \in Streams : OtherUpload(s)
    \/ \E r \in Runs, s \in Streams : HandlerOpens(r, s) \/ HandlerWrites(r, s)
    \/ Follow \/ FollowUnread

OutputSpec == OutputInit /\ [][OutputNext]_allVars

\* The worker's thread and the master's handlers go on; the client asks again and
\* again.
OutputFairSpec ==
    /\ OutputSpec
    /\ WF_allVars(step = "run" /\ Loop /\ UNCHANGED <<logVars, outputVars>>)
    /\ WF_allVars(WorkerStep)
    /\ \A r \in Runs, s \in Streams : WF_allVars(HandlerWrites(r, s))
    /\ WF_allVars(Follow)

-----------------------------------------------------------------------------
(* Properties *)

\* A task is judged failed for a reason: the system refused to start or to watch it, it
\* ended with an error by itself, or its time was up; and succeeded only when it ended
\* with 0.  The child's end, the cancel check and the deadline race in the loop.
VerdictHasCause ==
    [][verdict' # verdict =>
         /\ verdict' = "failed" =>
               \/ result.how = "failed_to_start"
               \/ result.how = "exited" /\ exitCode \in Codes \ {0}
               \/ timeout > 0 /\ elapsed >= timeout
         /\ verdict' = "succeeded" => exitCode = 0 /\ child = "reaped"]_allVars

\* When Run returns on POSIX the command's own process is gone and waited for, whatever
\* ended the loop: it writes nothing to the logs while the worker reads them.
NoChildLeft ==
    platform = "posix" /\ pc = "returned" => child \in {"none", "reaped"}

\* Logs come before the result: when a worker that uploads logs has reported a result
\* without a log error, the master has both logs, whole and converted, but for a stream
\* on which another run's upload has begun, then or before.
ResultHasLogs ==
    reported /\ uploadLogs /\ ~logError =>
        \A s \in Streams : file[s] = RepairOf(written[s]) \/ Begun("other", s)

\* Whatever bytes commands write, and whichever uploads replace others: what the master
\* has stored is text, unless two uploads have written the file at the same time.
StoredIsText ==
    \A s \in Streams :
        file[s] # NoFile /\ ~mixed[s] /\ (\A r \in Runs : ~Open(r, s)) => WellFormed(file[s])

\* However uploads overlap, every byte of a log stands where a run that has uploaded the
\* stream had it; only the zeros of a gap, which takes two uploads at the same time,
\* come from none.
LogComesFromRuns ==
    \A s \in Streams : file[s] # NoFile =>
        \A i \in 1 .. Len(file[s]) :
            \/ mixed[s] /\ file[s][i] = 0
            \/ \E r \in Runs : /\ Begun(r, s) /\ i <= upload[r][s].done
                             /\ file[s][i] = upload[r][s].text[i]

\* The decoder of IsValidUtf8 agrees with the Unicode standard's table, and the
\* conversion leaves valid text alone and at most triples the length of another.
DecoderIsExact ==
    \A s \in Streams :
        /\ IsValidUtf8(written[s]) <=> WellFormed(written[s])
        /\ IsValidUtf8(written[s]) => SanitizeUtf8Lossy(written[s]) = written[s]
        /\ Len(SanitizeUtf8Lossy(written[s])) \in Len(written[s]) .. 3 * Len(written[s])

\* While one run alone has uploaded the followed stream.
Sole == \A q, r \in Runs : Begun(q, Followed) /\ Begun(r, Followed) => q = r

\* A follower of the log of one run skips nothing, if the master could open the file for
\* it: all before its offset has been shown, although size and data are read at
\* different times while the file grows.
FollowerMissesNothing == Sole /\ ~follower.skipped => follower.offset <= follower.shown

\* A task with a timeout does not run for ever, on either platform.
TimeoutEnds == timeout > 0 ~> pc = "returned"

\* A follower that goes on asking is shown all of the log of one run, on the same
\* condition.
FollowerCatchesUp ==
    (file[Followed] # NoFile) ~>
        \/ ~Sole \/ follower.skipped
        \/ (\A r \in Runs : ~Open(r, Followed)) /\ follower.shown = Stored(Followed)
=============================================================================
