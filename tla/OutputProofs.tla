---------------------------- MODULE OutputProofs ----------------------------
(***************************************************************************)
(* Proofs about TaskOutput for any outputs, limits and timeouts, from what *)
(* Utf8Proofs shows of the conversion.                                     *)
(***************************************************************************)
EXTENDS TaskOutput, Utf8Proofs, TLAPS

-----------------------------------------------------------------------------
(* The executor's variables *)

ExecInv ==
    /\ ExecTypeOK
    \* The loop runs on a child that Start has made.
    /\ pc = "start" => child = "none"
    /\ child = "ended" => exitCode \in Codes
    /\ platform = "posix" /\ pc = "returned" => child \in {"none", "reaped"}
    \* Windows counts every slice that it has waited.
    /\ platform = "windows" /\ timeout > 0 =>
          /\ pc # "returned" => remaining > 0
          /\ pc \in {"start", "wait", "pause"} => elapsed >= timeout - remaining
          /\ pc \in {"cancel", "deadline"} => elapsed >= timeout - remaining + 1
    \* How Run ended.
    /\ pc = "returned" => result.how # "none"
    /\ result.how = "exited" => /\ child = "reaped" /\ exitCode = result.code
                                /\ exitCode \in Codes
    /\ result.how = "timed_out" => timeout > 0 /\ elapsed >= timeout
    /\ result.how # "none" => pc = "returned"

LEMMA ExecInvInit == ExecInit => ExecInv
BY ExecutorAssumption DEF ExecInit, ExecInv, ExecTypeOK, NoResult, Codes, KilledCodes, LoopSteps

LEMMA LaterTyped ==
    ASSUME ExecTypeOK, Later
    PROVE  /\ elapsed' \in 0 .. MaxElapsed /\ elapsed' >= elapsed
           /\ elapsed < MaxElapsed => elapsed' = elapsed + 1
           /\ elapsed = MaxElapsed => elapsed' = elapsed
BY ExecutorAssumption DEF ExecTypeOK, Later

\* What KillChild leaves, on both platforms.
LEMMA KillOutcome ==
    ASSUME ExecInv, NEW how \in {"canceled", "timed_out"}, KillChild(how)
    PROVE  /\ pc' = "returned" /\ result'.how = how
           /\ result' \in [how : {"canceled", "timed_out"}, code : Codes \union KilledCodes]
           /\ child' \in {"reaped", "killed"}
           /\ platform = "posix" => child' = "reaped"
           /\ exitCode' \in Codes \union KilledCodes
BY DEF ExecInv, ExecTypeOK, KillChild, Return, Codes, KilledCodes

LEMMA ExecInvNext == ExecInv /\ ExecNext => ExecInv'
<1> SUFFICES ASSUME ExecInv, ExecNext
             PROVE  ExecInv'
    OBVIOUS
<1>1. timeout \in Nat /\ timeout < MaxElapsed /\ MaxElapsed \in Nat
      BY ExecutorAssumption DEF ExecInv, ExecTypeOK
<1>2. remaining \in Nat /\ elapsed \in Nat
      BY <1>1 DEF ExecInv, ExecTypeOK
<1> USE DEF ExecInv, ExecTypeOK
<1>3. CASE Start
      BY <1>1, <1>2, <1>3 DEF Start, Return, LoopSteps
<1>4. CASE Wait
  <2>1. CASE child = "ended" /\ child' = "reaped" /\ Return("exited", exitCode) /\ UNCHANGED elapsed
        BY <1>1, <1>2, <1>4, <2>1 DEF Wait, Return, Codes
  <2>2. CASE /\ child = "ended" /\ child' = "reaped" /\ UNCHANGED elapsed
             /\ platform = "posix" /\ Return("failed_to_start", -1)
        BY <1>1, <1>2, <1>4, <2>2 DEF Wait, Return
  <2>3. CASE /\ platform = "windows" /\ UNCHANGED <<child, elapsed>>
             /\ Return("failed_to_start", IF child = "ended" THEN exitCode ELSE 259)
        BY <1>1, <1>2, <1>4, <2>3 DEF Wait, Return, KilledCodes
  <2>4. CASE /\ child = "running" /\ pc' = "cancel" /\ UNCHANGED <<child, result>>
             /\ platform = "windows" /\ Later
    <3>1. /\ elapsed' \in 0 .. MaxElapsed
          /\ elapsed' = elapsed + 1 \/ elapsed' = MaxElapsed
          BY <1>1, <1>2, <2>4, LaterTyped
    <3>2. timeout > 0 => elapsed' >= timeout - remaining + 1
          BY <1>1, <1>2, <1>4, <2>4, <3>1 DEF Wait
    <3> QED BY <1>1, <1>2, <1>4, <2>4, <3>1, <3>2 DEF Wait, LoopSteps
  <2>5. CASE /\ child = "running" /\ pc' = "cancel" /\ UNCHANGED <<child, result>>
             /\ platform # "windows" /\ UNCHANGED elapsed
        BY <1>1, <1>2, <1>4, <2>5 DEF Wait, LoopSteps
  <2> QED BY <1>4, <2>1, <2>2, <2>3, <2>4, <2>5 DEF Wait
<1>5. CASE CancelCheck
  <2>1. CASE KillChild("canceled")
        BY <1>1, <1>2, <1>5, <2>1, KillOutcome DEF CancelCheck, LoopSteps
  <2>2. CASE pc' = "deadline" /\ UNCHANGED <<child, exitCode, result>>
        BY <1>1, <1>2, <1>5, <2>2 DEF CancelCheck, LoopSteps
  <2> QED BY <1>5, <2>1, <2>2 DEF CancelCheck
<1>6. CASE Deadline
  <2>1. CASE Expired /\ KillChild("timed_out") /\ UNCHANGED remaining
    <3>1. timeout > 0 /\ elapsed >= timeout
          BY <1>1, <1>2, <1>6, <2>1 DEF Deadline, Expired
    <3> QED BY <1>1, <1>2, <1>6, <2>1, <3>1, KillOutcome DEF Deadline, LoopSteps
  <2>2. CASE /\ ~Expired /\ pc' = "pause" /\ UNCHANGED <<child, exitCode, result>>
             /\ remaining' = IF platform = "windows" /\ timeout > 0 THEN remaining - 1
                             ELSE remaining
    <3>1. CASE platform = "windows" /\ timeout > 0
          BY <1>1, <1>2, <1>6, <2>2, <3>1 DEF Deadline, Expired, LoopSteps
    <3>2. CASE ~(platform = "windows" /\ timeout > 0)
          BY <1>1, <1>2, <1>6, <2>2, <3>2 DEF Deadline, LoopSteps
    <3> QED BY <3>1, <3>2
  <2> QED BY <1>6, <2>1, <2>2 DEF Deadline
<1>7. CASE Pause
  <2>1. elapsed' \in 0 .. MaxElapsed /\ elapsed' >= elapsed
        BY <1>1, <1>2, <1>7, LaterTyped DEF Pause
  <2> QED BY <1>1, <1>2, <1>7, <2>1 DEF Pause, LoopSteps
<1>8. CASE ChildEnds
      BY <1>1, <1>2, <1>8 DEF ChildEnds, Codes, LoopSteps
<1>9. CASE KilledEnds
      BY <1>1, <1>2, <1>9 DEF KilledEnds, LoopSteps
<1>10. CASE TimePasses
  <2>1. elapsed' \in 0 .. MaxElapsed /\ elapsed' >= elapsed
        BY <1>10, LaterTyped DEF TimePasses
  <2> QED BY <1>1, <1>2, <1>10, <2>1 DEF TimePasses, LoopSteps
<1> QED BY <1>3, <1>4, <1>5, <1>6, <1>7, <1>8, <1>9, <1>10 DEF ExecNext, Loop
-----------------------------------------------------------------------------
(* The log, its writers and its follower *)

Uploads == [stage : {"none", "sent", "open", "closed"}, text : Seq(Byte), done : Nat]

LogTypeOK ==
    /\ file \in [Streams -> Seq(Byte) \union {NoFile}]
    /\ upload \in [Runs -> [Streams -> Uploads]]
    /\ mixed \in [Streams -> BOOLEAN]
    /\ follower \in [offset : Nat, size : Nat \union {-1}, shown : Nat, skipped : BOOLEAN]

\* While one run alone has opened the file it only grows, so the size a tail has found
\* is still there when it reads.
FollowInv ==
    /\ LogTypeOK
    /\ \A s \in Streams : file[s] = NoFile <=> \A r \in Runs : ~Begun(r, s)
    /\ file[Followed] = NoFile => follower.size = -1
    /\ Sole /\ ~follower.skipped =>
          follower.offset <= follower.shown /\ follower.size <= Stored(Followed)

LEMMA StoredIsNat == ASSUME LogTypeOK, NEW s \in Streams PROVE Stored(s) \in Nat
<1>1. file[s] \in Seq(Byte) \/ file[s] = NoFile
      BY DEF LogTypeOK
<1>2. CASE file[s] = NoFile
      BY <1>2 DEF Stored
<1>3. CASE file[s] # NoFile
      BY <1>1, <1>3 DEF Stored
<1> QED BY <1>2, <1>3

LEMMA EmptyIsFile == <<>> # NoFile
<1>1. <<>> \in Seq(Byte)
      OBVIOUS
<1> QED BY <1>1, OutputAssumption

\* The other uploads stay as they are.
Others(r, s) ==
    \A q \in Runs, t \in Streams : q # r \/ t # s => upload'[q][t] = upload[q][t]

LEMMA SendStep ==
    ASSUME LogTypeOK, NEW r \in Runs, NEW s \in Streams, NEW text \in Seq(Byte),
           Send(r, s, text)
    PROVE  /\ LogTypeOK' /\ Others(r, s)
           /\ upload[r][s].stage = "none"
           /\ upload'[r][s].stage = "sent" /\ upload'[r][s].text = text /\ upload'[r][s].done = 0
           /\ UNCHANGED <<file, mixed, follower>>
<1>1. [stage |-> "sent", text |-> text, done |-> 0] \in Uploads
      BY DEF Uploads
<1>2. upload'[r][s] = [stage |-> "sent", text |-> text, done |-> 0]
      BY DEF LogTypeOK, Send
<1>3. upload'[r][s].stage = "sent" /\ upload'[r][s].text = text /\ upload'[r][s].done = 0
      BY <1>2
<1> QED BY <1>1, <1>3 DEF LogTypeOK, Send, Others

LEMMA BeginStep ==
    ASSUME LogTypeOK, NEW r \in Runs, NEW s \in Streams, BeginWrite(r, s)
    PROVE  /\ LogTypeOK' /\ Others(r, s)
           /\ upload[r][s].stage = "sent" /\ upload'[r][s].stage = "open"
           /\ upload'[r][s].text = upload[r][s].text /\ upload'[r][s].done = upload[r][s].done
           /\ file' = [file EXCEPT ![s] = <<>>]
           /\ mixed'[s] <=> \E q \in Runs : Open(q, s)
           /\ \A t \in Streams : t # s => mixed'[t] = mixed[t]
           /\ follower' = follower
<1>1. upload[r][s] \in Uploads
      BY DEF LogTypeOK
<1>2. /\ upload'[r][s] = [upload[r][s] EXCEPT !.stage = "open"]
      /\ Others(r, s)
      BY DEF LogTypeOK, BeginWrite, Others
<1>3. /\ upload'[r][s] \in Uploads /\ upload'[r][s].stage = "open"
      /\ upload'[r][s].text = upload[r][s].text /\ upload'[r][s].done = upload[r][s].done
      BY <1>1, <1>2 DEF Uploads
<1>4. upload' \in [Runs -> [Streams -> Uploads]]
      BY <1>3 DEF LogTypeOK, BeginWrite
<1>5. file' \in [Streams -> Seq(Byte) \union {NoFile}]
  <2>1. <<>> \in Seq(Byte)
        OBVIOUS
  <2> QED BY <2>1 DEF LogTypeOK, BeginWrite
<1> DEFINE overlaps == \E q \in Runs : Open(q, s)
<1>6. mixed' = [mixed EXCEPT ![s] = overlaps] /\ overlaps \in BOOLEAN
      BY DEF BeginWrite
<1> HIDE DEF overlaps
<1>7. /\ mixed' \in [Streams -> BOOLEAN] /\ (mixed'[s] <=> overlaps)
      /\ \A t \in Streams : t # s => mixed'[t] = mixed[t]
      BY <1>6 DEF LogTypeOK
<1> QED BY <1>2, <1>3, <1>4, <1>5, <1>7 DEF LogTypeOK, BeginWrite, overlaps

LEMMA EndStep ==
    ASSUME LogTypeOK, NEW r \in Runs, NEW s \in Streams, EndWrite(r, s)
    PROVE  /\ LogTypeOK' /\ Others(r, s)
           /\ Open(r, s) /\ upload'[r][s].stage = "closed"
           /\ upload[r][s].done = Len(upload[r][s].text)
           /\ upload'[r][s].text = upload[r][s].text /\ upload'[r][s].done = upload[r][s].done
           /\ UNCHANGED <<file, mixed, follower>>
<1>1. upload[r][s] \in Uploads
      BY DEF LogTypeOK
<1>2. /\ upload'[r][s] = [upload[r][s] EXCEPT !.stage = "closed"]
      /\ Others(r, s)
      BY DEF LogTypeOK, EndWrite, Others
<1>3. /\ upload'[r][s] \in Uploads /\ upload'[r][s].stage = "closed"
      /\ upload'[r][s].text = upload[r][s].text /\ upload'[r][s].done = upload[r][s].done
      BY <1>1, <1>2 DEF Uploads
<1>4. upload' \in [Runs -> [Streams -> Uploads]]
      BY <1>3 DEF LogTypeOK, EndWrite
<1> QED BY <1>2, <1>3, <1>4 DEF LogTypeOK, EndWrite

\* A piece is put in its place, and nothing else moves but the end of the file.
LEMMA OverwrittenBytes ==
    ASSUME NEW bytes \in Seq(Byte), NEW text \in Seq(Byte), NEW from \in Nat, NEW to \in Nat,
           from < to, to <= Len(text)
    PROVE  /\ Overwritten(bytes, text, from, to) \in Seq(Byte)
           /\ Len(Overwritten(bytes, text, from, to)) = IF to > Len(bytes) THEN to ELSE Len(bytes)
           /\ \A i \in 1 .. Len(Overwritten(bytes, text, from, to)) :
                 Overwritten(bytes, text, from, to)[i] =
                     IF i \in from + 1 .. to THEN text[i]
                     ELSE IF i <= Len(bytes) THEN bytes[i] ELSE 0
<1> DEFINE length == IF to > Len(bytes) THEN to ELSE Len(bytes)
           at(i) == IF i \in from + 1 .. to THEN text[i] ELSE IF i <= Len(bytes) THEN bytes[i] ELSE 0
           merged == [i \in 1 .. length |-> at(i)]
<1>1. Overwritten(bytes, text, from, to) = merged
      BY DEF Overwritten
<1>2. length \in Nat
      OBVIOUS
<1>3. ASSUME NEW i \in 1 .. length
      PROVE  at(i) \in Byte
  <2>1. 0 \in Byte
        BY SMTT(30) DEF Byte
  <2>2. i \in from + 1 .. to => text[i] \in Byte
        OBVIOUS
  <2>3. i <= Len(bytes) => bytes[i] \in Byte
        BY <1>3
  <2> QED BY <2>1, <2>2, <2>3
<1> HIDE DEF length, at
<1>4. merged \in [1 .. length -> Byte]
      BY <1>3
<1>5. merged \in Seq(Byte)
      BY <1>2, <1>4
<1>6. Len(merged) = length
      BY <1>2, <1>4, <1>5
<1>7. \A i \in 1 .. Len(merged) : merged[i] = at(i)
      BY <1>6
<1> QED BY <1>1, <1>5, <1>6, <1>7 DEF length, at

LEMMA PieceStep ==
    ASSUME LogTypeOK, NEW r \in Runs, NEW s \in Streams, WritePiece(r, s), file[s] # NoFile
    PROVE  /\ LogTypeOK' /\ Others(r, s)
           /\ Open(r, s) /\ upload'[r][s].stage = "open"
           /\ upload'[r][s].text = upload[r][s].text
           /\ upload'[r][s].done \in upload[r][s].done + 1 .. Len(upload[r][s].text)
           /\ file' = [file EXCEPT ![s] = file'[s]]
           /\ file'[s] = Overwritten(file[s], upload[r][s].text, upload[r][s].done,
                                     upload'[r][s].done)
           /\ file'[s] \in Seq(Byte)
           /\ UNCHANGED <<mixed, follower>>
<1>1. upload[r][s] \in Uploads /\ file[s] \in Seq(Byte)
      BY DEF LogTypeOK
<1>2. PICK n \in upload[r][s].done + 1 .. Len(upload[r][s].text) :
          /\ file' = [file EXCEPT ![s] = Overwritten(@, upload[r][s].text, upload[r][s].done, n)]
          /\ upload' = [upload EXCEPT ![r][s].done = n]
      BY DEF WritePiece
<1>3. /\ upload'[r][s] = [upload[r][s] EXCEPT !.done = n]
      /\ Others(r, s)
      BY <1>2 DEF LogTypeOK, Others
<1>4. n \in Nat /\ upload[r][s].done < n /\ n <= Len(upload[r][s].text)
      BY <1>1 DEF Uploads
<1>5. /\ upload'[r][s] \in Uploads /\ upload'[r][s].stage = upload[r][s].stage
      /\ upload'[r][s].text = upload[r][s].text /\ upload'[r][s].done = n
      BY <1>1, <1>3, <1>4 DEF Uploads
<1>6. upload' \in [Runs -> [Streams -> Uploads]]
      BY <1>2, <1>5 DEF LogTypeOK
<1>7. file'[s] = Overwritten(file[s], upload[r][s].text, upload[r][s].done, n)
      BY <1>2 DEF LogTypeOK
<1>8. file'[s] \in Seq(Byte)
      BY <1>1, <1>4, <1>7, OverwrittenBytes DEF Uploads
<1>9. file' \in [Streams -> Seq(Byte) \union {NoFile}] /\ file' = [file EXCEPT ![s] = file'[s]]
      BY <1>2, <1>7, <1>8 DEF LogTypeOK
<1> QED BY <1>2, <1>3, <1>5, <1>6, <1>7, <1>8, <1>9 DEF LogTypeOK, WritePiece, Open

\* An upload that is sent, or ends, leaves the file and what has begun.
LEMMA FileKept ==
    ASSUME FollowInv, LogTypeOK', UNCHANGED <<file, follower>>,
           \A r \in Runs, s \in Streams : Begun(r, s)' <=> Begun(r, s)
    PROVE  FollowInv'
<1>1. Sole' <=> Sole
      BY LogAssumption DEF Sole
<1> QED BY <1>1 DEF FollowInv, Stored

LEMMA SendKeeps ==
    ASSUME FollowInv, NEW r \in Runs, NEW s \in Streams, NEW text \in Seq(Byte),
           Send(r, s, text)
    PROVE  FollowInv'
<1>1. LogTypeOK
      BY DEF FollowInv
<1>2. \A q \in Runs, t \in Streams : Begun(q, t)' <=> Begun(q, t)
      BY <1>1, SendStep DEF Begun, Others
<1> QED BY <1>1, <1>2, SendStep, FileKept

LEMMA EndKeeps ==
    ASSUME FollowInv, NEW r \in Runs, NEW s \in Streams, EndWrite(r, s)
    PROVE  FollowInv'
<1>1. LogTypeOK
      BY DEF FollowInv
<1>2. \A q \in Runs, t \in Streams : Begun(q, t)' <=> Begun(q, t)
      BY <1>1, EndStep DEF Begun, Open, Others
<1> QED BY <1>1, <1>2, EndStep, FileKept

\* The first upload of a stream starts on a file that no tail has seen.
LEMMA BeginKeeps ==
    ASSUME FollowInv, NEW r \in Runs, NEW s \in Streams, BeginWrite(r, s)
    PROVE  FollowInv'
<1>1. LogTypeOK
      BY DEF FollowInv
<1>2. /\ Begun(r, s)' /\ ~Begun(r, s)
      /\ \A q \in Runs, t \in Streams : q # r \/ t # s => (Begun(q, t)' <=> Begun(q, t))
      BY <1>1, BeginStep DEF Begun, Others
<1>3. /\ file'[s] = <<>> /\ file'[s] # NoFile
      /\ \A t \in Streams \ {s} : file'[t] = file[t]
      BY <1>1, BeginStep, EmptyIsFile DEF LogTypeOK
<1>4. ASSUME NEW t \in Streams
      PROVE  file'[t] = NoFile <=> \A q \in Runs : ~Begun(q, t)'
      BY <1>2, <1>3 DEF FollowInv
<1>5. follower' = follower
      BY <1>1, BeginStep
<1>6. file'[Followed] = NoFile => follower'.size = -1
      BY <1>3, <1>5, LogAssumption DEF FollowInv
<1>7. Sole' => Sole
      BY <1>2, LogAssumption DEF Sole
<1>8. ASSUME Sole', ~follower.skipped
      PROVE  follower.offset <= follower.shown /\ follower.size <= Stored(Followed)'
  <2>1. CASE s = Followed
    <3>1. \A q \in Runs : ~Begun(q, s)
          BY <1>2, <1>8, <2>1 DEF Sole
    <3>2. follower.size = -1
          BY <2>1, <3>1 DEF FollowInv
    <3>3. Stored(Followed)' = 0
          BY <1>3, <2>1 DEF Stored
    <3> QED BY <1>7, <1>8, <3>2, <3>3 DEF FollowInv
  <2>2. CASE s # Followed
    <3>1. file'[Followed] = file[Followed]
          BY <1>3, <2>2, LogAssumption
    <3> QED BY <1>7, <1>8, <3>1 DEF FollowInv, Stored
  <2> QED BY <2>1, <2>2
<1>9. LogTypeOK'
      BY <1>1, BeginStep
<1> QED BY <1>4, <1>5, <1>6, <1>8, <1>9 DEF FollowInv

LEMMA PieceKeeps ==
    ASSUME FollowInv, NEW r \in Runs, NEW s \in Streams, WritePiece(r, s)
    PROVE  FollowInv'
<1>1. LogTypeOK /\ file[s] # NoFile
  <2>1. Begun(r, s)
        BY DEF WritePiece, Open, Begun
  <2> QED BY <2>1 DEF FollowInv
<1>2. \A q \in Runs, t \in Streams : Begun(q, t)' <=> Begun(q, t)
      BY <1>1, PieceStep DEF Begun, Open, Others
<1>3. /\ file'[s] \in Seq(Byte) /\ file'[s] # NoFile
      /\ \A t \in Streams \ {s} : file'[t] = file[t]
      BY <1>1, PieceStep, OutputAssumption DEF LogTypeOK
<1>4. LogTypeOK' /\ follower' = follower
      BY <1>1, PieceStep
<1>5. Stored(Followed)' >= Stored(Followed)
  <2>1. CASE s = Followed
    <3>1. upload[r][s] \in Uploads /\ upload'[r][s] \in Uploads /\ file[s] \in Seq(Byte)
          BY <1>1, <1>4 DEF LogTypeOK
    <3>2. /\ upload[r][s].done < upload'[r][s].done
          /\ upload'[r][s].done <= Len(upload[r][s].text)
          BY <1>1, <3>1, PieceStep DEF Uploads
    <3>3. Len(file'[s]) >= Len(file[s])
          BY <1>1, <3>1, <3>2, PieceStep, OverwrittenBytes DEF Uploads
    <3> QED BY <1>1, <1>3, <2>1, <3>3 DEF Stored
  <2>2. CASE s # Followed
    <3>1. file'[Followed] = file[Followed]
          BY <1>3, <2>2, LogAssumption
    <3>2. Stored(Followed) \in Nat
          BY <1>1, LogAssumption, StoredIsNat
    <3> QED BY <3>1, <3>2 DEF Stored
  <2> QED BY <2>1, <2>2
<1>6. Stored(Followed) \in Nat /\ Stored(Followed)' \in Nat
  <2>1. Stored(Followed) \in Nat
        BY <1>1, LogAssumption, StoredIsNat
  <2>2. file'[Followed] \in Seq(Byte) \/ file'[Followed] = NoFile
        BY <1>4, LogAssumption DEF LogTypeOK
  <2> QED BY <2>1, <2>2 DEF Stored
<1>7. Sole' <=> Sole
      BY <1>2, LogAssumption DEF Sole
<1>8. follower.size \in Int
      BY <1>1 DEF LogTypeOK
<1>9. ASSUME Sole', ~follower.skipped
      PROVE  follower.offset <= follower.shown /\ follower.size <= Stored(Followed)'
      BY <1>5, <1>6, <1>7, <1>8, <1>9 DEF FollowInv
<1>10. \A t \in Streams : file'[t] = NoFile <=> file[t] = NoFile
       BY <1>1, <1>3
<1> QED BY <1>2, <1>4, <1>9, <1>10, LogAssumption DEF FollowInv

LEMMA TailKeeps ==
    ASSUME FollowInv, TailSize \/ TailRead \/ TailUnread
    PROVE  FollowInv'
<1>1. Stored(Followed) \in Nat /\ Stored(Followed)' = Stored(Followed)
      BY LogAssumption, StoredIsNat DEF FollowInv, TailSize, TailRead, TailUnread, Stored
<1>2. UNCHANGED <<file, upload, mixed>>
      BY DEF TailSize, TailRead, TailUnread
<1>3. /\ \A r \in Runs, s \in Streams : Begun(r, s)' <=> Begun(r, s)
      /\ Sole' <=> Sole
      BY <1>2 DEF Begun, Sole
<1>4. follower \in [offset : Nat, size : Nat \union {-1}, shown : Nat, skipped : BOOLEAN]
      BY DEF FollowInv, LogTypeOK
<1>5. CASE TailSize
  <2>1. /\ follower'.size = Stored(Followed) /\ file[Followed] # NoFile
        /\ follower'.offset = follower.offset /\ follower'.shown = follower.shown
        /\ follower'.skipped = follower.skipped
        /\ follower' \in [offset : Nat, size : Nat \union {-1}, shown : Nat, skipped : BOOLEAN]
        BY <1>1, <1>4, <1>5 DEF TailSize
  <2> QED BY <1>1, <1>2, <1>3, <2>1 DEF FollowInv, LogTypeOK
<1>6. CASE TailRead
  <2>1. /\ follower'.size = -1 /\ follower'.offset = follower.size /\ follower.size >= 0
        /\ follower'.shown = ShownAfter /\ follower'.skipped = follower.skipped
        BY <1>4, <1>6 DEF TailRead
  <2>2. ShownAfter \in Nat /\ follower.size \in Nat
        BY <1>1, <1>4, <2>1 DEF ShownAfter
  <2>3. follower' \in [offset : Nat, size : Nat \union {-1}, shown : Nat, skipped : BOOLEAN]
    <3> DEFINE after == ShownAfter
    <3>1. follower' = [follower EXCEPT !.offset = follower.size, !.size = -1, !.shown = after]
          BY <1>6 DEF TailRead
    <3>2. after \in Nat
          BY <2>2
    <3> HIDE DEF after
    <3> QED BY <1>4, <2>2, <3>1, <3>2
  <2>4. Sole /\ ~follower.skipped => follower.size <= ShownAfter
        BY <1>1, <1>4 DEF FollowInv, ShownAfter
  <2> QED BY <1>1, <1>2, <1>3, <2>1, <2>3, <2>4 DEF FollowInv, LogTypeOK
<1>7. CASE TailUnread
  <2>1. follower'.size = -1 /\ follower'.skipped
        BY <1>4, <1>7 DEF TailUnread
  <2>2. follower.size \in Nat
        BY <1>4, <1>7 DEF TailUnread
  <2>3. follower' \in [offset : Nat, size : Nat \union {-1}, shown : Nat, skipped : BOOLEAN]
        BY <1>4, <1>7, <2>2 DEF TailUnread
  <2> QED BY <1>2, <1>3, <2>1, <2>3 DEF FollowInv, LogTypeOK
<1> QED BY <1>5, <1>6, <1>7

-----------------------------------------------------------------------------
(* The two together *)

OutInv ==
    /\ OutputTypeOK
    /\ IF step = "run" THEN ExecInv
       ELSE child = "none" /\ pc = "returned" /\ written \in Outputs
    /\ FollowInv

LEMMA OutInvInit == OutputInit => OutInv
<1> SUFFICES ASSUME OutputInit
             PROVE  OutInv
    OBVIOUS
<1>1. ExecInv
      BY ExecInvInit DEF OutputInit
<1>2. NotSent \in Uploads
  <2>1. <<>> \in Seq(Byte)
        OBVIOUS
  <2> QED BY <2>1 DEF NotSent, Uploads
<1>3. LogTypeOK
      BY <1>2 DEF OutputInit, LogInit, LogTypeOK
<1>4. ASSUME NEW r \in Runs, NEW s \in Streams
      PROVE  ~Begun(r, s)
  <2>1. upload[r][s] = NotSent
        BY DEF OutputInit, LogInit
  <2> QED BY <2>1 DEF Begun, NotSent
<1>5. FollowInv
      BY <1>3, <1>4, LogAssumption DEF OutputInit, LogInit, FollowInv, Stored
<1> QED BY <1>1, <1>3, <1>5
        DEF OutInv, OutputTypeOK, OutputInit, ExecInv, LogTypeOK, Uploads

LEMMA FollowInvStutters == FollowInv /\ UNCHANGED logVars => FollowInv'
BY DEF logVars, FollowInv, LogTypeOK, Stored, Sole, Begun

\* The variables of the log and of the worker's reports do not move while Run runs.
LEMMA ExecuteKeeps == OutInv /\ Execute => OutInv'
<1> SUFFICES ASSUME OutInv, Execute
             PROVE  OutInv'
    OBVIOUS
<1>1. ExecInv'
      BY ExecInvNext DEF OutInv, Execute
<1>2. FollowInv' /\ step' = "run"
      BY FollowInvStutters DEF OutInv, Execute, outputVars
<1>3. OutputTypeOK'
      BY <1>1 DEF OutInv, OutputTypeOK, ExecInv, Execute, logVars, outputVars
<1> QED BY <1>1, <1>2, <1>3 DEF OutInv

LEMMA CollectKeeps == OutInv /\ Collect => OutInv'
<1> SUFFICES ASSUME OutInv, Collect
             PROVE  OutInv'
    OBVIOUS
<1>1. ExecTypeOK'
      BY ExecutorAssumption
      DEF OutInv, OutputTypeOK, Collect, ExecTypeOK, NoResult, Codes, KilledCodes
<1>2. FollowInv'
      BY FollowInvStutters DEF OutInv, Collect
<1>3. verdict' \in {"succeeded", "failed", "canceled"}
      BY DEF Collect, Verdict
<1>4. OutputTypeOK'
      BY <1>1, <1>2, <1>3 DEF OutInv, OutputTypeOK, Collect, FollowInv, LogTypeOK, Uploads, logVars
<1> QED BY <1>2, <1>4 DEF OutInv, Collect

LEMMA WrittenIsBytes == ASSUME OutInv, NEW s \in Streams PROVE written[s] \in Seq(Byte)
<1>1. CASE written \in Outputs
      BY <1>1, OutputAssumption
<1>2. CASE written = Empty
  <2>1. written[s] = <<>>
        BY <1>2 DEF Empty
  <2> QED BY <2>1, EmptySeq
<1> QED BY <1>1, <1>2 DEF OutInv, OutputTypeOK

\* What a run sends: its text is converted.
Sends(r, s, text) ==
    /\ Send(r, s, text) /\ text \in Seq(Byte) /\ WellFormed(text)
    /\ r = "own" => step = s /\ text = SanitizeUtf8Lossy(written[s])
    /\ UNCHANGED <<execVars, outputVars>>

LEMMA UploadSends ==
    ASSUME OutInv, NEW s \in Streams, Upload(s) \/ OtherUpload(s)
    PROVE  \E r \in Runs : \E text \in Seq(Byte) : Sends(r, s, text)
<1>1. CASE Upload(s)
  <2>1. /\ SanitizeUtf8Lossy(written[s]) \in Seq(Byte)
        /\ WellFormed(SanitizeUtf8Lossy(written[s]))
        BY WrittenIsBytes, ConversionIsRepair
  <2>2. Sends("own", s, SanitizeUtf8Lossy(written[s]))
        BY <1>1, <2>1 DEF Upload, MayUpload, Sends
  <2> QED BY <2>1, <2>2, OutputAssumption
<1>2. CASE OtherUpload(s)
  <2>1. PICK output \in Reruns : Send("other", s, SanitizeUtf8Lossy(output[s]))
        BY <1>2 DEF OtherUpload
  <2>2. output[s] \in Seq(Byte)
        BY OutputAssumption
  <2>3. /\ SanitizeUtf8Lossy(output[s]) \in Seq(Byte)
        /\ WellFormed(SanitizeUtf8Lossy(output[s]))
        BY <2>2, ConversionIsRepair
  <2>4. Sends("other", s, SanitizeUtf8Lossy(output[s]))
        BY <1>2, <2>1, <2>3 DEF OtherUpload, Sends
  <2> QED BY <2>3, <2>4, OutputAssumption
<1> QED BY <1>1, <1>2

\* The steps of the worker after Run.
WorkerGoesOn ==
    Report \/ \E s \in Streams : Uploaded(s) \/ UploadFails(s)

\* The steps on the master's disk and of its clients.
LogMoves ==
    /\ \/ \E s \in Streams : Upload(s) \/ OtherUpload(s)
       \/ \E r \in Runs, s \in Streams : HandlerOpens(r, s) \/ HandlerWrites(r, s)
       \/ Follow \/ FollowUnread
    /\ UNCHANGED <<execVars, outputVars>>

LEMMA StepsAfterRun ==
    OutputNext => Execute \/ Collect \/ WorkerGoesOn \/ LogMoves
BY DEF OutputNext, WorkerStep, WorkerGoesOn, LogMoves, Upload, OtherUpload, HandlerOpens,
       HandlerWrites, Follow, FollowUnread

LEMMA LogMovesKeep == OutInv /\ LogMoves => FollowInv'
<1> SUFFICES ASSUME OutInv, LogMoves
             PROVE  FollowInv'
    OBVIOUS
<1>0. FollowInv
      BY DEF OutInv
<1>1. ASSUME NEW s \in Streams, Upload(s) \/ OtherUpload(s)
      PROVE  FollowInv'
      BY <1>0, <1>1, UploadSends, SendKeeps DEF Sends
<1>2. ASSUME NEW r \in Runs, NEW s \in Streams, HandlerOpens(r, s) \/ HandlerWrites(r, s)
      PROVE  FollowInv'
      BY <1>0, <1>2, BeginKeeps, PieceKeeps, EndKeeps DEF HandlerOpens, HandlerWrites
<1>3. CASE Follow \/ FollowUnread
      BY <1>0, <1>3, TailKeeps DEF Follow, FollowUnread
<1> QED BY <1>1, <1>2, <1>3 DEF LogMoves

LEMMA GoesOnKeeps == OutInv /\ (WorkerGoesOn \/ LogMoves) => OutInv'
<1> SUFFICES ASSUME OutInv, WorkerGoesOn \/ LogMoves
             PROVE  OutInv'
    OBVIOUS
<1>1. FollowInv'
  <2>1. CASE WorkerGoesOn
        BY <2>1, FollowInvStutters DEF OutInv, WorkerGoesOn, Report, Uploaded, UploadFails
  <2> QED BY <2>1, LogMovesKeep
<1>2. /\ UNCHANGED <<execVars, uploadLogs, verdict, written>>
      /\ step' = step \/ (step # "run" /\ step' \in {"stderr", "report", "done"})
      /\ logError' \in BOOLEAN /\ reported' \in BOOLEAN
  <2>1. logError \in BOOLEAN /\ reported \in BOOLEAN
        BY DEF OutInv, OutputTypeOK
  <2>2. "run" \notin Streams
        BY OutputAssumption
  <2>3. CASE Report
        BY <2>1, <2>3 DEF Report
  <2>4. CASE LogMoves
        BY <2>1, <2>4 DEF LogMoves, outputVars
  <2>5. ASSUME NEW s \in Streams, Uploaded(s) \/ UploadFails(s)
        PROVE  <1>2!:
        BY <2>1, <2>2, <2>5 DEF Uploaded, UploadFails, After
  <2> QED BY <2>3, <2>4, <2>5 DEF WorkerGoesOn
<1>3. OutputTypeOK'
  <2>1. ExecTypeOK'
        BY <1>2 DEF OutInv, OutputTypeOK, ExecTypeOK, execVars
  <2>2. step' \in {"run", "stdout", "stderr", "report", "done"}
        BY <1>2 DEF OutInv, OutputTypeOK
  <2> QED BY <1>1, <1>2, <2>1, <2>2 DEF OutInv, OutputTypeOK, FollowInv, LogTypeOK, Uploads
<1>4. ExecInv => ExecInv'
      BY <1>2 DEF execVars, ExecInv, ExecTypeOK
<1>5. step' = "run" => step = "run"
      BY <1>2
<1> QED BY <1>1, <1>2, <1>3, <1>4, <1>5 DEF OutInv, execVars

LEMMA OutInvNext == OutInv /\ [OutputNext]_allVars => OutInv'
<1> SUFFICES ASSUME OutInv, [OutputNext]_allVars
             PROVE  OutInv'
    OBVIOUS
<1>1. CASE Execute
      BY <1>1, ExecuteKeeps
<1>2. CASE Collect
      BY <1>2, CollectKeeps
<1>3. CASE WorkerGoesOn \/ LogMoves
      BY <1>3, GoesOnKeeps
<1>4. CASE UNCHANGED allVars
  <2>1. FollowInv'
        BY <1>4, FollowInvStutters DEF allVars, OutInv
  <2>2. OutputTypeOK' /\ (ExecInv => ExecInv')
        BY <1>4 DEF allVars, execVars, logVars, outputVars, OutInv, OutputTypeOK, ExecInv, ExecTypeOK
  <2> QED BY <1>4, <2>1, <2>2 DEF allVars, execVars, outputVars, OutInv
<1> QED BY <1>1, <1>2, <1>3, <1>4, StepsAfterRun

LEMMA OutInvAlways == OutputSpec => []OutInv
<1>1. OutputInit => OutInv
      BY OutInvInit
<1>2. OutInv /\ [OutputNext]_allVars => OutInv'
      BY OutInvNext
<1> QED BY <1>1, <1>2, PTL DEF OutputSpec

-----------------------------------------------------------------------------
(* What the master has of a log *)

Converted(s) == SanitizeUtf8Lossy(written[s])

\* The worker is done with the log.
Passed(s) == step \in (IF s = "stdout" THEN {"stderr"} ELSE {}) \union {"report", "done"}

\* The file is what run r has written so far, and no other run writes it.
Holds(r, s) ==
    /\ Len(file[s]) = upload[r][s].done
    /\ \A i \in 1 .. upload[r][s].done : file[s][i] = upload[r][s].text[i]
    /\ \A q \in Runs : q # r => ~Open(q, s)

FromRun(s, i) ==
    \E r \in Runs : /\ Begun(r, s) /\ i <= upload[r][s].done
                    /\ file[s][i] = upload[r][s].text[i]

\* The uploads of a stream and the bytes of its file.
Sound(s) ==
    /\ \A r \in Runs :
          /\ upload[r][s].stage # "none" => WellFormed(upload[r][s].text)
          /\ upload[r][s].done <= Len(upload[r][s].text)
          /\ upload[r][s].stage \in {"none", "sent"} => upload[r][s].done = 0
          /\ upload[r][s].stage = "closed" => upload[r][s].done = Len(upload[r][s].text)
    /\ file[s] # NoFile =>
          /\ \A i \in 1 .. Len(file[s]) : (mixed[s] /\ file[s][i] = 0) \/ FromRun(s, i)
          /\ ~mixed[s] => \E r \in Runs : Begun(r, s) /\ Holds(r, s)
    /\ mixed[s] => \A r \in Runs : Begun(r, s)

Logged(s) ==
    /\ Sound(s)
    /\ upload["own"][s].stage # "none" => step # "run" /\ upload["own"][s].text = Converted(s)
    /\ Passed(s) /\ uploadLogs /\ ~logError => upload["own"][s].stage = "closed"

LogsInv ==
    /\ \A s \in Streams : Logged(s)
    /\ reported => step = "done"

LEMMA LogsInvInit == OutputInit => LogsInv
<1> SUFFICES ASSUME OutputInit
             PROVE  LogsInv
    OBVIOUS
<1>1. ASSUME NEW r \in Runs, NEW s \in Streams
      PROVE  upload[r][s].stage = "none" /\ upload[r][s].done = 0 /\ upload[r][s].text = <<>>
      BY DEF OutputInit, LogInit, NotSent
<1>2. ASSUME NEW s \in Streams
      PROVE  Logged(s)
      BY <1>1, OutputAssumption DEF OutputInit, LogInit, Logged, Sound, Passed
<1> QED BY <1>2 DEF LogsInv, OutputInit

\* A file that holds all that a closed upload has written is that upload's text.
LEMMA HeldWhole ==
    ASSUME OutInv, NEW s \in Streams, NEW r \in Runs, Logged(s), file[s] # NoFile,
           upload[r][s].stage = "closed", Holds(r, s)
    PROVE  file[s] = upload[r][s].text
<1> DEFINE text == upload[r][s].text
<1>1. file[s] \in Seq(Byte) /\ text \in Seq(Byte)
  <2>1. file[s] \in Seq(Byte) /\ upload[r][s] \in Uploads
        BY DEF OutInv, FollowInv, LogTypeOK
  <2> QED BY <2>1 DEF Uploads
<1>2. Len(file[s]) = Len(text) /\ \A i \in 1 .. Len(text) : file[s][i] = text[i]
      BY DEF Logged, Sound, Holds
<1> HIDE DEF text
<1>3. file[s] = text
      BY <1>1, <1>2, SeqEqual
<1> QED BY <1>3 DEF text

\* A stream that a step leaves alone.
LEMMA StreamKept ==
    ASSUME NEW s \in Streams, Sound(s), file'[s] = file[s], mixed'[s] = mixed[s],
           \A r \in Runs : upload'[r][s] = upload[r][s]
    PROVE  Sound(s)'
BY DEF Sound, FromRun, Holds, Begun, Open

LEMMA SendSound ==
    ASSUME OutInv, NEW r \in Runs, NEW s \in Streams, Sound(s), NEW text \in Seq(Byte),
           Send(r, s, text), WellFormed(text)
    PROVE  Sound(s)'
<1>1. /\ upload[r][s].stage = "none"
      /\ upload'[r][s].stage = "sent" /\ upload'[r][s].text = text /\ upload'[r][s].done = 0
      /\ \A q \in Runs \ {r} : upload'[q][s] = upload[q][s]
      /\ UNCHANGED <<file, mixed>>
      BY SendStep DEF OutInv, FollowInv, Others
<1>2. Len(text) \in Nat
      OBVIOUS
<1>4. \A i : FromRun(s, i) => FromRun(s, i)'
      BY <1>1 DEF FromRun, Begun
<1>5. \A q \in Runs : Begun(q, s) /\ Holds(q, s) => Holds(q, s)'
      BY <1>1 DEF Holds, Begun, Open
<1>6. mixed'[s] => \A q \in Runs : Begun(q, s)'
      BY <1>1 DEF Sound, Begun
<1>7. file'[s] # NoFile => \A i \in 1 .. Len(file'[s]) : (mixed'[s] /\ file'[s][i] = 0) \/ FromRun(s, i)'
      BY <1>1, <1>4 DEF Sound
<1>8. file'[s] # NoFile /\ ~mixed'[s] => \E q \in Runs : Begun(q, s)' /\ Holds(q, s)'
  <2>1. ASSUME NEW q \in Runs, Begun(q, s), Holds(q, s)
        PROVE  Begun(q, s)' /\ Holds(q, s)'
        BY <1>1, <1>5, <2>1 DEF Begun
  <2> QED BY <1>1, <2>1 DEF Sound
<1>9. \A q \in Runs :
         /\ upload'[q][s].stage # "none" => WellFormed(upload'[q][s].text)
         /\ upload'[q][s].done <= Len(upload'[q][s].text)
         /\ upload'[q][s].stage \in {"none", "sent"} => upload'[q][s].done = 0
         /\ upload'[q][s].stage = "closed" => upload'[q][s].done = Len(upload'[q][s].text)
      BY <1>1, <1>2 DEF Sound
<1> QED BY <1>6, <1>7, <1>8, <1>9 DEF Sound

LEMMA EndSound ==
    ASSUME OutInv, NEW r \in Runs, NEW s \in Streams, Sound(s), EndWrite(r, s)
    PROVE  Sound(s)'
<1>1. /\ upload[r][s].stage = "open" /\ upload'[r][s].stage = "closed"
      /\ upload[r][s].done = Len(upload[r][s].text)
      /\ upload'[r][s].text = upload[r][s].text /\ upload'[r][s].done = upload[r][s].done
      /\ \A q \in Runs \ {r} : upload'[q][s] = upload[q][s]
      /\ UNCHANGED <<file, mixed>>
      BY EndStep DEF OutInv, FollowInv, Others, Open
<1>3. \A i : FromRun(s, i) => FromRun(s, i)'
      BY <1>1 DEF FromRun, Begun
<1>4. \A q \in Runs : Holds(q, s) => Holds(q, s)'
      BY <1>1 DEF Holds, Open
<1>6. mixed'[s] => \A q \in Runs : Begun(q, s)'
      BY <1>1 DEF Sound, Begun
<1>7. file'[s] # NoFile => \A i \in 1 .. Len(file'[s]) : (mixed'[s] /\ file'[s][i] = 0) \/ FromRun(s, i)'
      BY <1>1, <1>3 DEF Sound
<1>8. file'[s] # NoFile /\ ~mixed'[s] => \E q \in Runs : Begun(q, s)' /\ Holds(q, s)'
  <2>1. ASSUME NEW q \in Runs, Begun(q, s), Holds(q, s)
        PROVE  Begun(q, s)' /\ Holds(q, s)'
        BY <1>1, <1>4, <2>1 DEF Begun
  <2> QED BY <1>1, <2>1 DEF Sound
<1>9. \A q \in Runs :
         /\ upload'[q][s].stage # "none" => WellFormed(upload'[q][s].text)
         /\ upload'[q][s].done <= Len(upload'[q][s].text)
         /\ upload'[q][s].stage \in {"none", "sent"} => upload'[q][s].done = 0
         /\ upload'[q][s].stage = "closed" => upload'[q][s].done = Len(upload'[q][s].text)
      BY <1>1 DEF Sound
<1> QED BY <1>6, <1>7, <1>8, <1>9 DEF Sound

LEMMA BeginSound ==
    ASSUME OutInv, NEW r \in Runs, NEW s \in Streams, Sound(s), BeginWrite(r, s)
    PROVE  Sound(s)'
<1>1. /\ upload[r][s].stage = "sent" /\ upload'[r][s].stage = "open"
      /\ upload'[r][s].text = upload[r][s].text /\ upload'[r][s].done = upload[r][s].done
      /\ \A q \in Runs \ {r} : upload'[q][s] = upload[q][s]
      /\ file'[s] = <<>>
      /\ mixed'[s] <=> \E q \in Runs : Open(q, s)
      BY BeginStep DEF OutInv, FollowInv, LogTypeOK, Others
<1>2. upload[r][s].done = 0 /\ upload'[r][s].done = 0
      BY <1>1 DEF Sound
<1>3. \A q \in Runs : Begun(q, s) => Begun(q, s)'
      BY <1>1 DEF Begun
<1>4. Begun(r, s)'
      BY <1>1 DEF Begun
<1>5. mixed'[s] => \A q \in Runs : Begun(q, s)'
  <2>1. ASSUME mixed'[s]
        PROVE  \A q \in Runs : Begun(q, s)'
    <3>1. PICK q \in Runs : Open(q, s)
          BY <1>1, <2>1
    <3>2. q # r /\ Begun(q, s)
          BY <1>1, <3>1 DEF Open, Begun
    <3> QED BY <1>3, <1>4, <3>2, OutputAssumption
  <2> QED BY <2>1
<1>6. ~mixed'[s] => Holds(r, s)'
  <2>1. ASSUME ~mixed'[s], NEW q \in Runs, q # r
        PROVE  ~Open(q, s)'
        BY <1>1, <2>1 DEF Open
  <2> QED BY <1>1, <1>2, <2>1 DEF Holds
<1>7. \A i \in 1 .. Len(file'[s]) : FALSE
      BY <1>1
<1>8. \A q \in Runs :
         /\ upload'[q][s].stage # "none" => WellFormed(upload'[q][s].text)
         /\ upload'[q][s].done <= Len(upload'[q][s].text)
         /\ upload'[q][s].stage \in {"none", "sent"} => upload'[q][s].done = 0
         /\ upload'[q][s].stage = "closed" => upload'[q][s].done = Len(upload'[q][s].text)
      BY <1>1 DEF Sound
<1> QED BY <1>4, <1>5, <1>6, <1>7, <1>8 DEF Sound

LEMMA PieceSound ==
    ASSUME OutInv, NEW r \in Runs, NEW s \in Streams, Sound(s), WritePiece(r, s)
    PROVE  Sound(s)'
<1> DEFINE text == upload[r][s].text
           from == upload[r][s].done
           to == upload'[r][s].done
           old == file[s]
           new == file'[s]
<1>1. Begun(r, s) /\ old # NoFile /\ LogTypeOK
  <2>1. Begun(r, s)
        BY DEF WritePiece, Open, Begun
  <2> QED BY <2>1 DEF OutInv, FollowInv
<1>2. /\ upload[r][s].stage = "open" /\ upload'[r][s].stage = "open"
      /\ upload'[r][s].text = text
      /\ to \in from + 1 .. Len(text)
      /\ new = Overwritten(old, text, from, to)
      /\ \A q \in Runs \ {r} : upload'[q][s] = upload[q][s]
      /\ mixed' = mixed /\ new \in Seq(Byte)
      BY <1>1, PieceStep DEF Others, Open
<1>3. text \in Seq(Byte) /\ old \in Seq(Byte) /\ from \in Nat
  <2>1. upload[r][s] \in Uploads /\ file[s] \in Seq(Byte)
        BY <1>1 DEF LogTypeOK
  <2> QED BY <2>1 DEF Uploads
<1>4. to \in Nat /\ from < to /\ to <= Len(text)
      BY <1>2, <1>3
<1>5. /\ Len(new) = IF to > Len(old) THEN to ELSE Len(old)
      /\ \A i \in 1 .. Len(new) :
            new[i] = IF i \in from + 1 .. to THEN text[i] ELSE IF i <= Len(old) THEN old[i] ELSE 0
  <2>1. new = Overwritten(old, text, from, to)
        BY <1>2
  <2> HIDE DEF text, from, to, old, new
  <2>2. /\ Len(Overwritten(old, text, from, to)) = IF to > Len(old) THEN to ELSE Len(old)
        /\ \A i \in 1 .. Len(Overwritten(old, text, from, to)) :
              Overwritten(old, text, from, to)[i] =
                  IF i \in from + 1 .. to THEN text[i] ELSE IF i <= Len(old) THEN old[i] ELSE 0
        BY <1>3, <1>4, OverwrittenBytes
  <2> QED BY <2>1, <2>2, Zenon
<1>7. \A q \in Runs :
         /\ upload'[q][s].stage # "none" => WellFormed(upload'[q][s].text)
         /\ upload'[q][s].done <= Len(upload'[q][s].text)
         /\ upload'[q][s].stage \in {"none", "sent"} => upload'[q][s].done = 0
         /\ upload'[q][s].stage = "closed" => upload'[q][s].done = Len(upload'[q][s].text)
      BY <1>2, <1>4 DEF Sound
<1>8. ASSUME NEW i \in 1 .. Len(new)
      PROVE  (mixed'[s] /\ new[i] = 0) \/ FromRun(s, i)'
  <2>1. CASE i \in from + 1 .. to
    <3>1. new[i] = text[i] /\ i <= to
          BY <1>3, <1>4, <1>5, <1>8, <2>1
    <3> QED BY <1>2, <3>1 DEF FromRun, Begun
  <2>2. CASE i \notin from + 1 .. to /\ i <= Len(old)
    <3>1. new[i] = old[i] /\ i \in 1 .. Len(old)
          BY <1>3, <1>4, <1>5, <1>8, <2>2
    <3>2. CASE mixed[s] /\ old[i] = 0
          BY <1>2, <3>1, <3>2
    <3>3. CASE FromRun(s, i)
      <4>1. PICK q \in Runs : Begun(q, s) /\ i <= upload[q][s].done /\ old[i] = upload[q][s].text[i]
            BY <3>3 DEF FromRun
      <4>2. i <= upload'[q][s].done /\ upload'[q][s].text = upload[q][s].text
        <5>1. CASE q = r
              BY <1>2, <1>3, <1>4, <1>8, <4>1, <5>1
        <5>2. CASE q # r
              BY <1>2, <4>1, <5>2
        <5> QED BY <5>1, <5>2
      <4>3. Begun(q, s)'
            BY <1>2, <4>1 DEF Begun
      <4> QED BY <3>1, <4>1, <4>2, <4>3 DEF FromRun
    <3> QED BY <1>1, <3>1, <3>2, <3>3 DEF Sound
  <2>3. CASE i \notin from + 1 .. to /\ ~(i <= Len(old))
    <3>1. new[i] = 0 /\ Len(old) < from
          BY <1>3, <1>4, <1>5, <1>8, <2>3
    <3>2. mixed[s]
      <4>1. ASSUME ~mixed[s]
            PROVE  FALSE
        <5>1. PICK q \in Runs : Begun(q, s) /\ Holds(q, s)
              BY <1>1, <4>1 DEF Sound
        <5>2. q = r
              BY <1>2, <5>1 DEF Holds, Open
        <5> QED BY <1>3, <3>1, <5>1, <5>2 DEF Holds
      <4> QED BY <4>1
    <3> QED BY <1>2, <3>1, <3>2
  <2> QED BY <2>1, <2>2, <2>3
<1>9. ASSUME ~mixed'[s]
      PROVE  Holds(r, s)'
  <2>1. PICK q \in Runs : Begun(q, s) /\ Holds(q, s)
        BY <1>1, <1>2, <1>9 DEF Sound
  <2>2. q = r
        BY <1>2, <2>1 DEF Holds, Open
  <2>3. /\ Len(old) = from
        /\ \A i \in 1 .. from : old[i] = text[i]
        /\ \A p \in Runs : p # r => ~Open(p, s)
        BY <2>1, <2>2 DEF Holds
  <2>4. Len(new) = to
        BY <1>3, <1>4, <1>5, <2>3
  <2>5. ASSUME NEW i \in 1 .. to
        PROVE  new[i] = text[i]
        BY <1>3, <1>4, <1>5, <2>3, <2>4, <2>5
  <2>6. \A p \in Runs : p # r => ~Open(p, s)'
        BY <1>2, <2>3 DEF Open
  <2> QED BY <1>2, <2>4, <2>5, <2>6 DEF Holds
<1>10. mixed'[s] => \A q \in Runs : Begun(q, s)'
       BY <1>2 DEF Sound, Begun
<1>11. Begun(r, s)'
       BY <1>2 DEF Begun
<1> QED BY <1>7, <1>8, <1>9, <1>10, <1>11 DEF Sound

\* No step of the uploads, the handlers or the client breaks what is said of a log.
LEMMA LogMovesLogged ==
    ASSUME OutInv, LogsInv, LogMoves, NEW s \in Streams
    PROVE  Logged(s)'
<1>0. /\ Logged(s) /\ Sound(s) /\ LogTypeOK
      /\ UNCHANGED <<uploadLogs, written, step, logError>>
      BY DEF LogsInv, Logged, OutInv, FollowInv, LogMoves, outputVars
<1>1. Converted(s)' = Converted(s) /\ (Passed(s)' <=> Passed(s))
      BY <1>0 DEF Converted, Passed
<1>2. ASSUME NEW t \in Streams, Upload(t) \/ OtherUpload(t)
      PROVE  Logged(s)'
  <2>1. PICK r \in Runs, text \in Seq(Byte) : Sends(r, t, text)
        BY <1>2, UploadSends
  <2>2. Send(r, t, text) /\ WellFormed(text)
        BY <2>1 DEF Sends
  <2>3. /\ UNCHANGED <<file, mixed>> /\ Others(r, t)
        /\ upload[r][t].stage = "none"
        /\ upload'[r][t].stage = "sent" /\ upload'[r][t].text = text
        BY <1>0, <2>2, SendStep
  <2>4. CASE t = s
    <3>1. Sound(s)'
          BY <1>0, <2>2, <2>4, SendSound
    <3>2. CASE r = "own"
      <4>1. step = s /\ text = Converted(s)
            BY <2>1, <2>4, <3>2 DEF Sends, Converted
      <4>2. step # "run" /\ ~Passed(s)
            BY <4>1, OutputAssumption DEF Passed
      <4> QED BY <1>0, <1>1, <2>3, <2>4, <3>1, <3>2, <4>1, <4>2 DEF Logged
    <3>3. CASE r # "own"
      <4>1. upload'["own"][s] = upload["own"][s]
            BY <2>3, <3>3, OutputAssumption DEF Others
      <4> QED BY <1>0, <1>1, <3>1, <4>1 DEF Logged
    <3> QED BY <3>2, <3>3
  <2>5. CASE t # s
    <3>1. \A q \in Runs : upload'[q][s] = upload[q][s]
          BY <2>3, <2>5 DEF Others
    <3>2. Sound(s)'
          BY <1>0, <2>3, <3>1, StreamKept
    <3> QED BY <1>0, <1>1, <3>1, <3>2, OutputAssumption DEF Logged
  <2> QED BY <2>4, <2>5
<1>3. ASSUME NEW r \in Runs, NEW t \in Streams, BeginWrite(r, t) \/ WritePiece(r, t) \/ EndWrite(r, t)
      PROVE  Logged(s)'
  <2>1. WritePiece(r, t) => file[t] # NoFile
        BY DEF WritePiece, Open, Begun, OutInv, FollowInv
  <2>2. /\ Others(r, t) /\ upload'[r][t].text = upload[r][t].text
        /\ upload[r][t].stage # "none"
        /\ upload[r][t].stage # "closed" /\ upload'[r][t].stage # "none"
        /\ t # s => file'[s] = file[s] /\ mixed'[s] = mixed[s]
        BY <1>0, <1>3, <2>1, BeginStep, PieceStep, EndStep DEF Open, LogTypeOK
  <2>3. CASE t = s
    <3>1. Sound(s)'
          BY <1>0, <1>3, <2>3, BeginSound, PieceSound, EndSound
    <3>2. /\ upload'["own"][s].text = upload["own"][s].text
          /\ upload'["own"][s].stage # "none" => upload["own"][s].stage # "none"
          /\ upload["own"][s].stage = "closed" => upload'["own"][s].stage = "closed"
          BY <2>2, <2>3, OutputAssumption DEF Others
    <3> QED BY <1>0, <1>1, <3>1, <3>2 DEF Logged
  <2>4. CASE t # s
    <3>1. \A q \in Runs : upload'[q][s] = upload[q][s]
          BY <2>2, <2>4 DEF Others
    <3>2. Sound(s)'
          BY <1>0, <2>2, <2>4, <3>1, StreamKept
    <3> QED BY <1>0, <1>1, <3>1, <3>2, OutputAssumption DEF Logged
  <2> QED BY <2>3, <2>4
<1>4. CASE Follow \/ FollowUnread
  <2>1. UNCHANGED <<file, upload, mixed>>
        BY <1>4 DEF Follow, FollowUnread, TailSize, TailRead, TailUnread
  <2>2. Sound(s)'
        BY <1>0, <2>1, StreamKept
  <2> QED BY <1>0, <1>1, <2>1, <2>2 DEF Logged
<1> QED BY <1>2, <1>3, <1>4 DEF LogMoves, HandlerOpens, HandlerWrites

LEMMA LogsInvNext == OutInv /\ LogsInv /\ [OutputNext]_allVars => LogsInv'
<1> SUFFICES ASSUME OutInv, LogsInv, [OutputNext]_allVars
             PROVE  LogsInv'
    OBVIOUS
<1>0. Streams = {"stdout", "stderr"}
      BY OutputAssumption
<1>1. CASE Execute \/ UNCHANGED allVars
  <2>1. UNCHANGED <<file, upload, mixed, uploadLogs, written, logError, step, reported>>
        BY <1>1 DEF Execute, allVars, logVars, outputVars
  <2>2. ASSUME NEW s \in Streams
        PROVE  Logged(s)'
    <3>1. Logged(s) /\ Sound(s) /\ (Passed(s)' <=> Passed(s)) /\ Converted(s)' = Converted(s)
          BY <2>1 DEF LogsInv, Logged, Passed, Converted
    <3>2. Sound(s)'
          BY <2>1, <3>1, StreamKept
    <3> QED BY <2>1, <3>1, <3>2 DEF Logged
  <2> QED BY <2>1, <2>2 DEF LogsInv
<1>2. CASE Collect
  <2>1. /\ UNCHANGED <<file, upload, mixed, uploadLogs, logError, reported>>
        /\ step = "run" /\ step' = IF uploadLogs THEN "stdout" ELSE "report"
        BY <1>2 DEF Collect, logVars
  <2>2. ASSUME NEW s \in Streams
        PROVE  Logged(s)'
    <3>1. Logged(s) /\ Sound(s)
          BY DEF LogsInv, Logged
    <3>2. Sound(s)'
          BY <2>1, <3>1, StreamKept
    <3>3. Passed(s)' => ~uploadLogs
          BY <2>1 DEF Passed
    <3>4. upload["own"][s].stage = "none"
          BY <2>1, <3>1 DEF Logged
    <3> QED BY <2>1, <3>2, <3>3, <3>4 DEF Logged
  <2>3. ~reported'
        BY <2>1 DEF LogsInv
  <2> QED BY <2>2, <2>3 DEF LogsInv
<1>3. CASE WorkerGoesOn
  <2>0. reported => step = "done"
        BY DEF LogsInv
  <2>1. CASE Report
    <3>1. /\ UNCHANGED <<file, upload, mixed, uploadLogs, written, logError>>
          /\ step = "report" /\ step' = "done"
          BY <2>1 DEF Report, logVars
    <3>2. ASSUME NEW s \in Streams
          PROVE  Logged(s)'
      <4>1. Logged(s) /\ Sound(s) /\ Passed(s) /\ Converted(s)' = Converted(s)
            BY <3>1 DEF LogsInv, Logged, Passed, Converted
      <4>2. Sound(s)'
            BY <3>1, <4>1, StreamKept
      <4> QED BY <3>1, <4>1, <4>2 DEF Logged
    <3> QED BY <3>1, <3>2 DEF LogsInv
  <2>2. ASSUME NEW t \in Streams, Uploaded(t) \/ UploadFails(t)
        PROVE  LogsInv'
    <3>1. /\ UNCHANGED <<file, upload, mixed, uploadLogs, written, reported>>
          /\ step = t /\ step' \in {"stderr", "report"}
          BY <1>0, <2>2 DEF Uploaded, UploadFails, After, logVars
    <3>2. ASSUME NEW s \in Streams
          PROVE  Logged(s)'
      <4>1. Logged(s) /\ Sound(s) /\ Converted(s)' = Converted(s)
            BY <3>1 DEF LogsInv, Logged, Converted
      <4>2. Sound(s)'
            BY <3>1, <4>1, StreamKept
      <4>3. CASE Uploaded(t)
        <5>1. upload["own"][t].stage = "closed" /\ step' = After(t) /\ logError' = logError
              BY <4>3 DEF Uploaded
        <5>2. Passed(s)' => s = t \/ Passed(s)
              BY <1>0, <3>1, <5>1 DEF After, Passed
        <5> QED BY <3>1, <4>1, <4>2, <5>1, <5>2 DEF Logged
      <4>4. CASE UploadFails(t)
        <5>1. logError'
              BY <4>4 DEF UploadFails
        <5> QED BY <3>1, <4>1, <4>2, <5>1 DEF Logged
      <4> QED BY <2>2, <4>3, <4>4
    <3>3. ~reported'
          BY <1>0, <2>0, <3>1
    <3> QED BY <3>2, <3>3 DEF LogsInv
  <2> QED BY <1>3, <2>1, <2>2 DEF WorkerGoesOn
<1>4. CASE LogMoves
  <2>1. \A s \in Streams : Logged(s)'
        BY <1>4, LogMovesLogged
  <2>2. UNCHANGED <<reported, step>>
        BY <1>4 DEF LogMoves, outputVars
  <2> QED BY <2>1, <2>2 DEF LogsInv
<1> QED BY <1>1, <1>2, <1>3, <1>4, StepsAfterRun

LEMMA LogsInvAlways == OutputSpec => [](OutInv /\ LogsInv)
<1>1. OutputInit => OutInv /\ LogsInv
      BY OutInvInit, LogsInvInit
<1>2. OutInv /\ LogsInv /\ [OutputNext]_allVars => (OutInv /\ LogsInv)'
      BY OutInvNext, LogsInvNext
<1> QED BY <1>1, <1>2, PTL DEF OutputSpec

-----------------------------------------------------------------------------
(* Theorems *)

\* The variables of the executor, the log and the worker keep their types.
THEOREM OutputTypeCorrect == OutputSpec => []OutputTypeOK
<1>1. OutInv => OutputTypeOK
      BY DEF OutInv
<1> QED BY <1>1, OutInvAlways, PTL

\* On POSIX Run never returns and leaves a child behind, whatever the order of the
\* child's end, the cancel check and the deadline.
THEOREM NoOrphan == OutputSpec => []NoChildLeft
<1>1. OutInv => NoChildLeft
      BY DEF OutInv, ExecInv, NoChildLeft
<1> QED BY <1>1, OutInvAlways, PTL

\* A verdict has a cause in what happened to the process: no failure without an error,
\* a refused start or a deadline that has passed, on POSIX and on Windows.
THEOREM VerdictsAreCaused == OutputSpec => VerdictHasCause
<1>1. ASSUME OutInv, [OutputNext]_allVars, verdict' # verdict
      PROVE  Collect
      BY <1>1 DEF OutputNext, Execute, WorkerStep, Report, Upload, Uploaded, UploadFails,
                  OtherUpload, HandlerOpens, HandlerWrites, Follow, FollowUnread,
                  allVars, outputVars
<1>2. ASSUME OutInv, Collect
      PROVE  /\ verdict' = "failed" =>
                   \/ result.how = "failed_to_start"
                   \/ result.how = "exited" /\ exitCode \in Codes \ {0}
                   \/ timeout > 0 /\ elapsed >= timeout
             /\ verdict' = "succeeded" => exitCode = 0 /\ child = "reaped"
  <2>1. ExecInv /\ pc = "returned" /\ verdict' = Verdict
        BY <1>2 DEF OutInv, Collect
  <2>2. result.how \in {"failed_to_start", "exited", "canceled", "timed_out"}
        BY <2>1 DEF ExecInv, ExecTypeOK
  <2> QED BY <2>1, <2>2 DEF ExecInv, Verdict, Codes
<1> DEFINE Caused ==
        verdict' # verdict =>
          /\ verdict' = "failed" =>
                \/ result.how = "failed_to_start"
                \/ result.how = "exited" /\ exitCode \in Codes \ {0}
                \/ timeout > 0 /\ elapsed >= timeout
          /\ verdict' = "succeeded" => exitCode = 0 /\ child = "reaped"
<1>3. OutInv /\ [OutputNext]_allVars => [Caused]_allVars
      BY <1>1, <1>2
<1> HIDE DEF Caused
<1>4. OutputSpec => [][Caused]_allVars
      BY <1>3, OutInvAlways, PTL DEF OutputSpec
<1> QED BY <1>4 DEF VerdictHasCause, Caused

\* Until a second run opens the log as well, and as long as the master can open it, a
\* follower has been shown everything before the offset from which it goes on.
THEOREM FollowersMissNothing == OutputSpec => []FollowerMissesNothing
<1>1. OutInv => FollowerMissesNothing
      BY DEF OutInv, FollowInv, FollowerMissesNothing
<1> QED BY <1>1, OutInvAlways, PTL

\* Logs come before the result: when a worker that uploads logs has reported a result
\* without a log error, the master has both logs, whole and converted, but for a stream
\* on which another run's upload has begun.
THEOREM ResultsComeWithLogs == OutputSpec => []ResultHasLogs
<1>1. ASSUME OutInv, LogsInv, reported, uploadLogs, ~logError,
             NEW s \in Streams, ~Begun("other", s)
      PROVE  file[s] = RepairOf(written[s])
  <2>1. step = "done" /\ Logged(s) /\ Passed(s)
        BY <1>1 DEF LogsInv, Passed
  <2>2. upload["own"][s].stage = "closed" /\ upload["own"][s].text = Converted(s)
        BY <1>1, <2>1 DEF Logged
  <2>3. ~mixed[s]
        BY <1>1, <2>1, OutputAssumption DEF Logged, Sound
  <2>4. file[s] # NoFile
        BY <1>1, <2>2, OutputAssumption DEF OutInv, FollowInv, Begun
  <2>5. file[s] = upload["own"][s].text
    <3>1. PICK r \in Runs : Begun(r, s) /\ Holds(r, s)
          BY <2>1, <2>3, <2>4 DEF Logged, Sound
    <3>2. r = "own"
          BY <1>1, <3>1, OutputAssumption
    <3> QED BY <1>1, <2>1, <2>2, <2>4, <3>1, <3>2, HeldWhole
  <2>6. Converted(s) = RepairOf(written[s])
        BY <1>1, WrittenIsBytes, ConversionIsRepair DEF Converted
  <2> QED BY <2>2, <2>5, <2>6
<1>2. OutInv /\ LogsInv => ResultHasLogs
      BY <1>1 DEF ResultHasLogs
<1> QED BY <1>2, LogsInvAlways, PTL

\* Whatever bytes commands write, and whichever uploads replace others: unless two have
\* written it at the same time, a log file that is not being written holds text.
THEOREM LogsAreText == OutputSpec => []StoredIsText
<1>1. ASSUME OutInv, LogsInv, NEW s \in Streams, file[s] # NoFile, ~mixed[s],
             \A r \in Runs : ~Open(r, s)
      PROVE  WellFormed(file[s])
  <2>1. Logged(s)
        BY <1>1 DEF LogsInv
  <2>2. PICK r \in Runs : Begun(r, s) /\ Holds(r, s)
        BY <1>1, <2>1 DEF Logged, Sound
  <2>3. upload[r][s].stage = "closed" /\ WellFormed(upload[r][s].text)
        BY <1>1, <2>1, <2>2 DEF Begun, Open, Logged, Sound
  <2>4. file[s] = upload[r][s].text
        BY <1>1, <2>1, <2>2, <2>3, HeldWhole
  <2> QED BY <2>3, <2>4
<1>2. OutInv /\ LogsInv => StoredIsText
      BY <1>1 DEF StoredIsText
<1> QED BY <1>2, LogsInvAlways, PTL

\* However uploads overlap: every byte of a log stands where a run that has uploaded the
\* stream had it, or is a zero of the gap that two uploads at the same time can leave.
THEOREM LogsComeFromRuns == OutputSpec => []LogComesFromRuns
<1>1. ASSUME LogsInv, NEW s \in Streams, file[s] # NoFile, NEW i \in 1 .. Len(file[s])
      PROVE  \/ mixed[s] /\ file[s][i] = 0
             \/ \E r \in Runs : /\ Begun(r, s) /\ i <= upload[r][s].done
                              /\ file[s][i] = upload[r][s].text[i]
      BY <1>1 DEF LogsInv, Logged, Sound, FromRun
<1>2. LogsInv => LogComesFromRuns
      BY <1>1 DEF LogComesFromRuns
<1> QED BY <1>2, LogsInvAlways, PTL

\* On every output the decoder decides well-formedness, and the conversion keeps
\* well-formed text and at most triples the length of another.
THEOREM DecoderIsExactAlways == OutputSpec => []DecoderIsExact
<1>1. ASSUME OutInv, NEW s \in Streams
      PROVE  /\ IsValidUtf8(written[s]) <=> WellFormed(written[s])
             /\ IsValidUtf8(written[s]) => SanitizeUtf8Lossy(written[s]) = written[s]
             /\ Len(SanitizeUtf8Lossy(written[s])) \in Len(written[s]) .. 3 * Len(written[s])
      BY <1>1, WrittenIsBytes, DecoderMatchesTable, ConversionIsRepair
<1>2. OutInv => DecoderIsExact
      BY <1>1 DEF DecoderIsExact
<1> QED BY <1>2, OutInvAlways, PTL
=============================================================================
