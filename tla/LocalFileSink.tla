---------------------------- MODULE LocalFileSink ----------------------------
(***************************************************************************)
(* LocalFileSink and its _WriterThread (sdk/dedup/local_file_sink.py),     *)
(* driven by run_sink_export and then by ExportTracker, whose leftover     *)
(* aborts once more to report.  One task drives the sink (call, at); its   *)
(* write tasks run up to Readers at a time.  Threads: the opener, the      *)
(* writer, one per put that found the queue full, one per _send_sentinel   *)
(* and the one that renames.  A thread whose caller is cancelled goes on,  *)
(* unless the executor had not started it yet: then it never runs.         *)
(***************************************************************************)
EXTENDS Integers, Sequences, FiniteSets

CONSTANTS
    NumJobs,       \* writes of the export
    QueueSize,     \* _WRITER_QUEUE_SIZE
    Readers,       \* writes awaited at once: max_concurrent_reads
    MaxCancels,    \* how often the driving task may be cancelled
    CancelRename   \* whether a cancel may arrive while commit renames

ASSUME LocalFileSinkAssumption ==
    /\ NumJobs \in Nat /\ MaxCancels \in Nat
    /\ QueueSize \in Nat \ {0} /\ Readers \in Nat \ {0}
    /\ CancelRename \in BOOLEAN

Jobs == 1..NumJobs
Sentinel == 0
Closers == {"commit", "abort", "leftover"}
Aborts == {"abort", "leftover"}

VARIABLES
    staged, keepPartial,   \* constructor arguments
    call,         \* what the driving task is in
    at,           \* where a close of the writer waits
    cancels,      \* cancellations delivered
    opener,       \* the thread of _create_and_start
    writer,       \* the writer thread
    held,         \* the job the writer took from the queue, 0 for none
    queue,        \* _WriterThread._queue
    issued,       \* writes 1..issued have been made
    put,          \* jobs whose caller awaits a thread blocked in put
    strays,       \* jobs whose caller is gone while its thread is still in put
    sender,       \* _send_sentinel thread of each close
    sentinelSent, closing, error,     \* _WriterThread fields
    created, everWritten, committed,  \* LocalFileSink fields
    applied,      \* jobs written to the file
    file,         \* what is at _path: "absent", "old" (not ours) or "ours"
    dst,          \* what is at _dst when staged: "old" or "new"
    renamer,      \* the thread of commit's replace
    outcome       \* what each abort returned

optVars    == <<staged, keepPartial>>
driverVars == <<call, at, cancels>>
queueVars  == <<queue, put, strays>>
fieldVars  == <<created, everWritten, committed>>
closeVars  == <<sender, sentinelSent, closing>>
writeVars  == <<writer, held, error, applied>>
diskVars   == <<file, dst, renamer>>
vars == <<optVars, driverVars, opener, writeVars, queueVars, issued, closeVars, fieldVars,
          diskVars, outcome>>

TypeOK ==
    /\ {staged, keepPartial, sentinelSent, closing, error, created, everWritten, committed}
           \subseteq BOOLEAN
    /\ call \in Closers \cup {"start", "open", "body", "raised", "ok", "ended"}
    /\ at \in {"idle", "opening", "sentinel", "join", "closed", "rename"}
    /\ cancels \in 0..MaxCancels
    /\ opener \in {"idle", "creating", "opened", "marked", "done", "failed"}
    /\ writer \in {"none", "running", "exited"}
    /\ held \in Jobs \cup {0}
    /\ queue \in Seq(Jobs \cup {Sentinel}) /\ Len(queue) <= QueueSize
    /\ issued \in 0..NumJobs
    /\ put \subseteq Jobs /\ strays \subseteq Jobs
    /\ sender \in [Closers -> {"none", "put", "mark", "done"}]
    /\ applied \subseteq Jobs
    /\ file \in {"absent", "old", "ours"} /\ dst \in {"old", "new"}
    /\ renamer \in {"none", "running", "done", "failed"}
    /\ outcome \in [Aborts -> {"none", "kept", "released"}]

Init ==
    /\ staged \in BOOLEAN /\ keepPartial \in BOOLEAN
    /\ call = "start" /\ at = "idle" /\ cancels = 0
    /\ opener = "idle" /\ writer = "none" /\ held = 0
    /\ queue = <<>> /\ issued = 0 /\ put = {} /\ strays = {}
    /\ sender = [k \in Closers |-> "none"]
    /\ sentinelSent = FALSE /\ closing = FALSE /\ error = FALSE
    /\ created = FALSE /\ everWritten = FALSE /\ committed = FALSE
    /\ applied = {} /\ file \in {"absent", "old"} /\ dst = "old" /\ renamer = "none"
    /\ outcome = [k \in Aborts |-> "none"]

-----------------------------------------------------------------------------
(* open(): the thread that creates the file and starts the writer *)

Open ==
    /\ call = "start"
    /\ call' = "open" /\ opener' = "creating"
    /\ UNCHANGED <<optVars, at, cancels, writeVars, queueVars, issued, closeVars, fieldVars,
                   diskVars, outcome>>

\* create_presized opens the path for writing.
OpenerCreates ==
    /\ opener = "creating"
    /\ opener' = "opened" /\ file' = "ours"
    /\ UNCHANGED <<optVars, driverVars, writeVars, queueVars, issued, closeVars, fieldVars, dst,
                   renamer, outcome>>

\* on_open: _mark_created
OpenerMarks ==
    /\ opener = "opened"
    /\ opener' = "marked" /\ created' = TRUE
    /\ UNCHANGED <<optVars, driverVars, writeVars, queueVars, issued, closeVars, everWritten,
                   committed, diskVars, outcome>>

\* The file is sized, reserved and opened; the writer thread owns its descriptor.
OpenerStartsWriter ==
    /\ opener = "marked"
    /\ opener' = "done" /\ writer' = "running"
    /\ UNCHANGED <<optVars, driverVars, held, error, applied, queueVars, issued, closeVars,
                   fieldVars, diskVars, outcome>>

\* The path cannot be created, or its size or space cannot be had.
OpenerFails ==
    /\ opener \in {"creating", "marked"}
    /\ opener' = "failed"
    /\ UNCHANGED <<optVars, driverVars, writeVars, queueVars, issued, closeVars, fieldVars,
                   diskVars, outcome>>

OpenReturns ==
    /\ call = "open" /\ opener = "done"
    /\ call' = "body"
    /\ UNCHANGED <<optVars, at, cancels, opener, writeVars, queueVars, issued, closeVars,
                   fieldVars, diskVars, outcome>>

OpenRaises ==
    /\ call = "open" /\ opener = "failed"
    /\ call' = "abort" /\ at' = "opening"
    /\ UNCHANGED <<optVars, cancels, opener, writeVars, queueVars, issued, closeVars, fieldVars,
                   diskVars, outcome>>

-----------------------------------------------------------------------------
(* write_at and write_zero: _WriterThread.submit *)

HasRoom == Len(queue) < QueueSize

\* put_nowait, or a thread that blocks in put when the queue is full.
Submit ==
    /\ call = "body" /\ issued < NumJobs /\ Cardinality(put) < Readers
    /\ ~closing /\ ~error
    /\ issued' = issued + 1 /\ everWritten' = TRUE
    /\ \/ HasRoom /\ queue' = Append(queue, issued + 1) /\ UNCHANGED put
       \/ ~HasRoom /\ put' = put \cup {issued + 1} /\ UNCHANGED queue
    /\ UNCHANGED <<optVars, driverVars, opener, writeVars, strays, closeVars, created, committed,
                   diskVars, outcome>>

\* A thread in Queue.put gets room; which of the waiting ones is up to the lock.
Put ==
    \E j \in put \cup strays :
        /\ HasRoom
        /\ queue' = Append(queue, j) /\ put' = put \ {j} /\ strays' = strays \ {j}
        /\ UNCHANGED <<optVars, driverVars, opener, writeVars, issued, closeVars, fieldVars,
                       diskVars, outcome>>

\* The other write tasks are cancelled: of the puts they waited for, any number has started.
AbandonPuts ==
    /\ strays' \in SUBSET put
    /\ put' = {}

\* A write raises the thread's error, or the export fails by itself.
BodyRaises ==
    /\ call = "body"
    /\ call' = "abort" /\ at' = "opening"
    /\ AbandonPuts
    /\ UNCHANGED <<optVars, cancels, opener, writeVars, queue, issued, closeVars, fieldVars,
                   diskVars, outcome>>

\* Workers may write to the path: abort keeps the file as written to.
NoteWorkerWrite ==
    /\ call = "body" /\ ~everWritten
    /\ everWritten' = TRUE
    /\ UNCHANGED <<optVars, driverVars, opener, writeVars, queueVars, issued, closeVars, created,
                   committed, diskVars, outcome>>

-----------------------------------------------------------------------------
(* The writer thread *)

\* Mutant: the thread ends at the first job after a failed write.
WriterTakesUntilError ==
    /\ writer = "running" /\ held = 0 /\ queue # <<>>
    /\ queue' = Tail(queue)
    /\ \/ (Head(queue) = Sentinel \/ error) /\ writer' = "exited" /\ UNCHANGED held
       \/ Head(queue) # Sentinel /\ ~error /\ held' = Head(queue) /\ UNCHANGED writer
    /\ UNCHANGED <<optVars, driverVars, opener, error, applied, put, strays, issued, closeVars,
                   fieldVars, diskVars, outcome>>

\* After a failed write, jobs are taken and dropped; the sentinel ends the thread.
WriterTakes ==
    /\ writer = "running" /\ held = 0 /\ queue # <<>>
    /\ queue' = Tail(queue)
    /\ \/ Head(queue) = Sentinel /\ writer' = "exited" /\ UNCHANGED held
       \/ Head(queue) # Sentinel /\ error /\ UNCHANGED <<writer, held>>
       \/ Head(queue) # Sentinel /\ ~error /\ held' = Head(queue) /\ UNCHANGED writer
    /\ UNCHANGED <<optVars, driverVars, opener, error, applied, put, strays, issued, closeVars,
                   fieldVars, diskVars, outcome>>

WriterWrites ==
    /\ held # 0
    /\ applied' = applied \cup {held} /\ held' = 0
    /\ UNCHANGED <<optVars, driverVars, opener, writer, error, queueVars, issued, closeVars,
                   fieldVars, diskVars, outcome>>

WriterFails ==
    /\ held # 0
    /\ error' = TRUE /\ held' = 0
    /\ UNCHANGED <<optVars, driverVars, opener, writer, applied, queueVars, issued, closeVars,
                   fieldVars, diskVars, outcome>>

-----------------------------------------------------------------------------
(* _close_writer: shared by commit and abort *)

\* The thread of _send_sentinel.
SenderPuts ==
    \E k \in Closers :
        /\ sender[k] = "put" /\ HasRoom
        /\ queue' = Append(queue, Sentinel) /\ sender' = [sender EXCEPT ![k] = "mark"]
        /\ UNCHANGED <<optVars, driverVars, opener, writeVars, put, strays, issued, sentinelSent,
                       closing, fieldVars, diskVars, outcome>>

SenderMarks ==
    \E k \in Closers :
        /\ sender[k] = "mark"
        /\ sentinelSent' = TRUE /\ sender' = [sender EXCEPT ![k] = "done"]
        /\ UNCHANGED <<optVars, driverVars, opener, writeVars, queueVars, issued, closing,
                       fieldVars, diskVars, outcome>>

\* Mutant: close takes a close begun earlier for one that has sent its sentinel.
CloseWriterOnce ==
    /\ call \in Closers /\ at = "opening" /\ opener \in {"done", "failed"}
    /\ \/ writer = "none" /\ at' = "closed" /\ UNCHANGED <<closing, sender>>
       \/ /\ writer # "none" /\ closing' = TRUE
          /\ \/ ~closing /\ sender' = [sender EXCEPT ![call] = "put"] /\ at' = "sentinel"
             \/ closing /\ at' = "join" /\ UNCHANGED sender
    /\ UNCHANGED <<optVars, call, cancels, opener, writeVars, queueVars, issued, sentinelSent,
                   fieldVars, diskVars, outcome>>

\* A pending open is over; close sends a sentinel unless one was sent.
CloseWriter ==
    /\ call \in Closers /\ at = "opening" /\ opener \in {"done", "failed"}
    /\ \/ writer = "none" /\ at' = "closed" /\ UNCHANGED <<closing, sender>>
       \/ /\ writer # "none" /\ closing' = TRUE
          /\ \/ ~sentinelSent /\ sender' = [sender EXCEPT ![call] = "put"] /\ at' = "sentinel"
             \/ sentinelSent /\ at' = "join" /\ UNCHANGED sender
    /\ UNCHANGED <<optVars, call, cancels, opener, writeVars, queueVars, issued, sentinelSent,
                   fieldVars, diskVars, outcome>>

CloseSent ==
    /\ call \in Closers /\ at = "sentinel" /\ sender[call] = "done"
    /\ at' = "join"
    /\ UNCHANGED <<optVars, call, cancels, opener, writeVars, queueVars, issued, closeVars,
                   fieldVars, diskVars, outcome>>

\* Mutant: close does not wait for the thread.
CloseLeaves ==
    /\ call \in Closers /\ at = "join" /\ at' = "closed"
    /\ UNCHANGED <<optVars, call, cancels, opener, writeVars, queueVars, issued, closeVars,
                   fieldVars, diskVars, outcome>>

CloseJoined ==
    /\ call \in Closers /\ at = "join" /\ writer = "exited"
    /\ at' = "closed"
    /\ UNCHANGED <<optVars, call, cancels, opener, writeVars, queueVars, issued, closeVars,
                   fieldVars, diskVars, outcome>>

-----------------------------------------------------------------------------
(* commit() *)

Commit ==
    /\ call = "body" /\ issued = NumJobs /\ put = {}
    /\ call' = "commit" /\ at' = "opening"
    /\ UNCHANGED <<optVars, cancels, opener, writeVars, queueVars, issued, closeVars, fieldVars,
                   diskVars, outcome>>

\* Mutant: a staged commit looks for failed writes only after the rename.
CommitRenamesFirst ==
    /\ call = "commit" /\ at = "closed"
    /\ \/ error /\ ~staged /\ call' = "abort" /\ at' = "opening" /\ UNCHANGED <<committed, renamer>>
       \/ staged /\ at' = "rename" /\ renamer' = "running" /\ UNCHANGED <<call, committed>>
       \/ ~error /\ ~staged /\ committed' = TRUE /\ call' = "ok" /\ at' = "idle" /\ UNCHANGED renamer
    /\ UNCHANGED <<optVars, cancels, opener, writeVars, queueVars, issued, closeVars, created,
                   everWritten, file, dst, outcome>>

CommitAfterClose ==
    /\ call = "commit" /\ at = "closed"
    /\ \/ error /\ call' = "abort" /\ at' = "opening" /\ UNCHANGED <<committed, renamer>>
       \/ ~error /\ staged /\ at' = "rename" /\ renamer' = "running" /\ UNCHANGED <<call, committed>>
       \/ ~error /\ ~staged /\ committed' = TRUE /\ call' = "ok" /\ at' = "idle" /\ UNCHANGED renamer
    /\ UNCHANGED <<optVars, cancels, opener, writeVars, queueVars, issued, closeVars, created,
                   everWritten, file, dst, outcome>>

\* The thread of replace: it fails when the path is gone or the system refuses.
Rename ==
    /\ renamer = "running"
    /\ \/ file = "ours" /\ file' = "absent" /\ dst' = "new" /\ renamer' = "done"
       \/ renamer' = "failed" /\ UNCHANGED <<file, dst>>
    /\ UNCHANGED <<optVars, driverVars, opener, writeVars, queueVars, issued, closeVars,
                   fieldVars, outcome>>

CommitAfterRename ==
    /\ call = "commit" /\ at = "rename"
    /\ \/ renamer = "done" /\ committed' = TRUE /\ call' = "ok" /\ at' = "idle"
       \/ renamer = "failed" /\ call' = "abort" /\ at' = "opening" /\ UNCHANGED committed
    /\ UNCHANGED <<optVars, cancels, opener, writeVars, queueVars, issued, closeVars, created,
                   everWritten, diskVars, outcome>>

-----------------------------------------------------------------------------
(* abort() *)

\* Where the driving task goes from an abort: run_sink_export re-raises, the report ends.
AfterAbort == call' = (IF call = "abort" THEN "raised" ELSE "ended") /\ at' = "idle"

Keep == committed \/ (everWritten /\ (keepPartial \/ ~staged))

\* Mutant: an empty file is left behind.
DiscardWritten == file' = IF created /\ everWritten /\ ~Keep THEN "absent" ELSE file

\* _discard_unless_kept
Discard == file' = IF created /\ ~Keep THEN "absent" ELSE file
Result == IF created /\ Keep THEN "kept" ELSE "released"

AbortReturns ==
    /\ call \in Aborts /\ at = "closed"
    /\ Discard /\ AfterAbort
    /\ outcome' = [outcome EXCEPT ![call] = Result]
    /\ UNCHANGED <<optVars, cancels, opener, writeVars, queueVars, issued, closeVars, fieldVars,
                   dst, renamer>>

\* ExportTracker.leftover or out_of_space: abort once more, to report.
Leftover ==
    /\ call = "raised"
    /\ \/ opener # "idle" /\ call' = "leftover" /\ at' = "opening" /\ UNCHANGED outcome
       \/ /\ opener = "idle" /\ call' = "ended" /\ UNCHANGED at
          /\ outcome' = [outcome EXCEPT !["leftover"] = "released"]
    /\ UNCHANGED <<optVars, cancels, opener, writeVars, queueVars, issued, closeVars, fieldVars,
                   diskVars>>

\* A failure other than a cancel or a full disk is reported without it.
Reported ==
    /\ call = "raised" /\ cancels = 0
    /\ call' = "ended"
    /\ UNCHANGED <<optVars, at, cancels, opener, writeVars, queueVars, issued, closeVars,
                   fieldVars, diskVars, outcome>>

-----------------------------------------------------------------------------
(* A cancellation of the driving task *)

MayCancel == cancels < MaxCancels /\ cancels' = cancels + 1

\* Before the sink's open, or while open is shielded, or in the body.
CancelEarly ==
    /\ MayCancel
    /\ \/ call = "start" /\ call' = "raised" /\ UNCHANGED <<at, put, strays>>
       \/ call = "open" /\ call' = "abort" /\ at' = "opening" /\ UNCHANGED <<put, strays>>
       \/ call = "body" /\ call' = "abort" /\ at' = "opening" /\ AbandonPuts
    /\ UNCHANGED <<optVars, opener, writeVars, queue, issued, closeVars, fieldVars, diskVars,
                   outcome>>

\* The thread of the cancelled _send_sentinel goes on or never starts.
AbandonSender ==
    \/ UNCHANGED sender
    \/ at = "sentinel" /\ sender[call] = "put" /\ sender' = [sender EXCEPT ![call] = "none"]

CancelCommit ==
    /\ MayCancel /\ call = "commit" /\ at \in {"opening", "sentinel", "join"}
    /\ call' = "abort" /\ at' = "opening"
    /\ AbandonSender
    /\ UNCHANGED <<optVars, opener, writeVars, queueVars, issued, sentinelSent, closing, fieldVars,
                   diskVars, outcome>>

CancelCommitRename ==
    /\ CancelRename /\ MayCancel /\ call = "commit" /\ at = "rename"
    /\ call' = "abort" /\ at' = "opening"
    /\ renamer' \in {renamer} \cup (IF renamer = "running" THEN {"none"} ELSE {})
    /\ UNCHANGED <<optVars, opener, writeVars, queueVars, issued, closeVars, fieldVars, file, dst,
                   outcome>>

\* The interrupted abort cleans up and then raises.
CancelAbort ==
    /\ MayCancel /\ call \in Aborts /\ at \in {"opening", "sentinel", "join"}
    /\ AbandonSender
    /\ Discard /\ AfterAbort
    /\ UNCHANGED <<optVars, opener, writeVars, queueVars, issued, sentinelSent, closing, fieldVars,
                   dst, renamer, outcome>>

-----------------------------------------------------------------------------
ThreadsDone ==
    /\ opener \in {"idle", "done", "failed"}
    /\ writer # "running" /\ renamer # "running"
    /\ put = {} /\ strays = {}
    /\ \A k \in Closers : sender[k] \in {"none", "done"}

\* Every abort was itself cancelled: nobody is left to stop the writer.
Abandoned == call = "ended" /\ \A k \in Aborts : outcome[k] = "none"

Finished == call \in {"ok", "ended"} /\ (ThreadsDone \/ Abandoned) /\ UNCHANGED vars

Driver ==
    \/ Open \/ OpenReturns \/ OpenRaises \/ Submit \/ BodyRaises \/ NoteWorkerWrite \/ Commit
    \/ CloseWriter \/ CloseSent \/ CloseJoined \/ CommitAfterClose \/ CommitAfterRename
    \/ AbortReturns \/ Leftover \/ Reported

Cancel == CancelEarly \/ CancelCommit \/ CancelCommitRename \/ CancelAbort

Opener == OpenerCreates \/ OpenerMarks \/ OpenerStartsWriter \/ OpenerFails
Writer == WriterTakes \/ WriterWrites \/ WriterFails
Sender == SenderPuts \/ SenderMarks

Next == Driver \/ Cancel \/ Opener \/ Writer \/ Sender \/ Put \/ Rename \/ Finished

Spec == Init /\ [][Next]_vars

\* The event loop runs what is ready and the system runs the threads that can go on.
FairSpec ==
    /\ Spec
    /\ WF_vars(Driver) /\ WF_vars(Opener) /\ WF_vars(Writer)
    /\ WF_vars(Sender) /\ WF_vars(Put) /\ WF_vars(Rename)

-----------------------------------------------------------------------------
(* Properties *)

\* A commit that returns has every write of the export in the file, none failed, and the
\* file is where the caller asked for it.
CommitIsComplete ==
    call = "ok" =>
        /\ applied = Jobs /\ ~error
        /\ IF staged THEN dst = "new" /\ file = "absent" ELSE file = "ours"

\* Whatever was cancelled or failed, a staged destination is replaced only by a file that
\* holds every write and that nobody writes to any more.
DestinationIsWhole == dst = "new" => applied = Jobs /\ ~error /\ writer = "exited"

\* Once an aborted export and its threads are over, the last abort's answer describes what
\* is at the path: our file if kept, none of ours if not.
OutcomeIsTrue ==
    call = "ended" /\ ThreadsDone =>
        \A k \in Aborts :
            /\ outcome[k] = "kept" => file = "ours"
            /\ outcome[k] = "released" => file # "ours"

\* An abort that returns an answer leaves no writer running: nothing writes to the file,
\* or holds its descriptor, after it was reported on.
WriterStopped == \A k \in Aborts : outcome[k] # "none" => writer # "running" /\ held = 0

\* A thread that blocks on the full queue never hangs (_WriterThread): with the writer gone,
\* nobody waits for room that will not come.
NobodyStranded ==
    ~ /\ writer = "exited" /\ ~HasRoom
      /\ put \cup strays # {} \/ \E k \in Closers : sender[k] = "put"

\* A file that counts as exported is complete, whether commit returned or a cancel overtook it.
FileIsWhole == TypeOK /\ CommitIsComplete /\ DestinationIsWhole

\* An abort tells what it leaves behind and leaves nothing running or waiting.  The one exception is a
\* cancel delivered while commit's thread renames: the abort then still reports the ".part" that
\* became the destination.
AbortsAreTrue == (dst # "new" => OutcomeIsTrue) /\ WriterStopped /\ NobodyStranded

\* The export ends, and every thread it started ends too unless each abort was cancelled.
ExportEnds == <>(call \in {"ok", "ended"}) /\ <>[](ThreadsDone \/ Abandoned)
=============================================================================
