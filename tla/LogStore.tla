------------------------------ MODULE LogStore ------------------------------
(***************************************************************************)
(* The master's log files of one task, written by uploads and read by the  *)
(* tail requests of a command line client that follows one of them.        *)
(*                                                                         *)
(* WriteAll opens the file with truncation and the stream writes it in as  *)
(* many pieces as it likes, each where the one before it ended.            *)
(* ReadInternal asks for the size and then reads to the end of the file,   *)
(* which may have moved.  All run on handler threads and nothing locks the *)
(* file: the uploads of two runs of the task, or one that its worker has   *)
(* given up, may write it at the same time.  meta.json is read by no one.  *)
(***************************************************************************)
EXTENDS Integers, Sequences

CONSTANTS
    Runs,       \* runs of the task, each of which uploads a stream at most once
    Streams,    \* "stdout" and "stderr"
    Followed,   \* the stream that the client follows
    NoFile,     \* the file does not exist
    MaxLogUploadBytes   \* limit of the master on one upload

ASSUME LogAssumption == Followed \in Streams /\ MaxLogUploadBytes \in Nat

VARIABLES
    file,       \* file[s]: bytes on the master's disk, or NoFile
    upload,     \* upload[r][s]: the request of run r: its text, and how much of it
                \* the handler has written
    mixed,      \* auxiliary: since file[s] was last truncated with no other upload
                \* of s in progress, another has begun
    follower    \* the client: offset of its next request, size found for the
                \* request in progress (-1: none), bytes shown without a gap,
                \* whether an answer has come without its data

logVars == <<file, upload, mixed, follower>>

NotSent == [stage |-> "none", text |-> <<>>, done |-> 0]

Stored(s) == IF file[s] = NoFile THEN 0 ELSE Len(file[s])
Begun(r, s) == upload[r][s].stage \in {"open", "closed"}
Open(r, s) == upload[r][s].stage = "open"

LogInit ==
    /\ file = [s \in Streams |-> NoFile]
    /\ upload = [r \in Runs |-> [s \in Streams |-> NotSent]]
    /\ mixed = [s \in Streams |-> FALSE]
    /\ follower = [offset |-> 0, size |-> -1, shown |-> 0, skipped |-> FALSE]

-----------------------------------------------------------------------------
(* POST /tasks/{id}/logs:upload *)

\* The request is on its way: it may be lost, or reach a handler when its worker has
\* stopped waiting.
Send(r, s, text) ==
    /\ upload[r][s].stage = "none"
    /\ upload' = [upload EXCEPT ![r][s] = [stage |-> "sent", text |-> text, done |-> 0]]
    /\ UNCHANGED <<file, mixed, follower>>

\* HandleUploadLogs accepts the text, WriteAll opens and truncates the file.
BeginWrite(r, s) ==
    /\ upload[r][s].stage = "sent"
    /\ Len(upload[r][s].text) <= MaxLogUploadBytes
    /\ file' = [file EXCEPT ![s] = <<>>]
    /\ mixed' = [mixed EXCEPT ![s] = \E q \in Runs : Open(q, s)]
    /\ upload' = [upload EXCEPT ![r][s].stage = "open"]
    /\ UNCHANGED follower

\* The bytes of a file after those of text behind the first from, up to the first to,
\* were written at their own place: what lies beyond stays, and a gap before it, left
\* by a truncation, reads as zeros.
Overwritten(bytes, text, from, to) ==
    [i \in 1 .. (IF to > Len(bytes) THEN to ELSE Len(bytes)) |->
        IF i \in from + 1 .. to THEN text[i] ELSE IF i <= Len(bytes) THEN bytes[i] ELSE 0]

\* Mutant of WritePiece: the piece is appended wherever the file ends.
WritePieceAtEnd(r, s) ==
    /\ Open(r, s)
    /\ \E n \in upload[r][s].done + 1 .. Len(upload[r][s].text) :
          /\ file' = [file EXCEPT ![s] = @ \o SubSeq(upload[r][s].text, upload[r][s].done + 1, n)]
          /\ upload' = [upload EXCEPT ![r][s].done = n]
    /\ UNCHANGED <<mixed, follower>>

WritePiece(r, s) ==
    /\ Open(r, s)
    /\ \E n \in upload[r][s].done + 1 .. Len(upload[r][s].text) :
          /\ file' = [file EXCEPT ![s] =
                          Overwritten(@, upload[r][s].text, upload[r][s].done, n)]
          /\ upload' = [upload EXCEPT ![r][s].done = n]
    /\ UNCHANGED <<mixed, follower>>

\* The file is closed and the request answered.
EndWrite(r, s) ==
    /\ Open(r, s) /\ upload[r][s].done = Len(upload[r][s].text)
    /\ upload' = [upload EXCEPT ![r][s].stage = "closed"]
    /\ UNCHANGED <<file, mixed, follower>>

-----------------------------------------------------------------------------
(* GET /tasks/{id}/logs:tail from the client's loop.  Before the file exists the *)
(* answer is 404 and the client ends.                                            *)

TailSize ==
    /\ follower.size = -1
    /\ file[Followed] # NoFile
    /\ follower' = [follower EXCEPT !.size = Stored(Followed)]
    /\ UNCHANGED <<file, upload, mixed>>

\* What the client has shown without a gap when it is given all behind its offset.
ShownAfter ==
    IF follower.offset < follower.size /\ follower.offset <= follower.shown
    THEN Stored(Followed) ELSE follower.shown

\* Mutant of TailRead: X-Log-Size is the size after the data was read.
TailReadFreshSize ==
    /\ follower.size >= 0
    /\ follower' = [follower EXCEPT !.offset = Stored(Followed), !.size = -1,
                                    !.shown = ShownAfter]
    /\ UNCHANGED <<file, upload, mixed>>

\* Mutant of TailRead: the offset advances although nothing new was shown.
TailReadStuck ==
    /\ follower.size >= 0
    /\ follower' = [follower EXCEPT !.size = -1]
    /\ UNCHANGED <<file, upload, mixed>>

\* Nothing beyond the size found: an empty body.  Otherwise all that follows the
\* offset by now.  The client shows it and goes on from X-Log-Size, the size that
\* was found: what came in between it will be sent again.
TailRead ==
    /\ follower.size >= 0
    /\ follower' = [follower EXCEPT !.offset = follower.size, !.size = -1,
                                    !.shown = ShownAfter]
    /\ UNCHANGED <<file, upload, mixed>>

\* The file cannot be opened: the answer has its size, an empty body, and success.
TailUnread ==
    /\ follower.offset < follower.size
    /\ follower' = [follower EXCEPT !.offset = follower.size, !.size = -1, !.skipped = TRUE]
    /\ UNCHANGED <<file, upload, mixed>>
=============================================================================
