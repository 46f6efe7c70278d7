------------------------ MODULE LocalFileSinkProofs ------------------------
(***************************************************************************)
(* Proofs about LocalFileSink for any number of writes, any queue size,    *)
(* any number of concurrent writes and any number of cancellations: a file *)
(* that counts as exported holds every write (FileIsWhole), and, when the  *)
(* queue has room for one more than the concurrent writes, aborts tell     *)
(* what they leave and strand no thread (AbortsAreTrue).                   *)
(***************************************************************************)
EXTENDS LocalFileSink, TLAPS, FiniteSetTheorems, SequenceTheorems

-----------------------------------------------------------------------------
(* Types *)

FlagTypes ==
    /\ staged \in BOOLEAN /\ keepPartial \in BOOLEAN /\ sentinelSent \in BOOLEAN /\ closing \in BOOLEAN
    /\ error \in BOOLEAN /\ created \in BOOLEAN /\ everWritten \in BOOLEAN /\ committed \in BOOLEAN
PlaceTypes ==
    /\ call \in Closers \cup {"start", "open", "body", "raised", "ok", "ended"}
    /\ at \in {"idle", "opening", "sentinel", "join", "closed", "rename"}
    /\ cancels \in 0..MaxCancels
    /\ opener \in {"idle", "creating", "opened", "marked", "done", "failed"}
    /\ writer \in {"none", "running", "exited"}
    /\ file \in {"absent", "old", "ours"} /\ dst \in {"old", "new"}
    /\ renamer \in {"none", "running", "done", "failed"}
QueueTypes ==
    /\ held \in Jobs \cup {0}
    /\ queue \in Seq(Jobs \cup {Sentinel}) /\ Len(queue) <= QueueSize
    /\ issued \in 0..NumJobs
    /\ put \subseteq Jobs /\ strays \subseteq Jobs
    /\ applied \subseteq Jobs
MapTypes ==
    /\ sender \in [Closers -> {"none", "put", "mark", "done"}]
    /\ outcome \in [Aborts -> {"none", "kept", "released"}]

LEMMA TypeParts == TypeOK <=> FlagTypes /\ PlaceTypes /\ QueueTypes /\ MapTypes
  BY DEF TypeOK, FlagTypes, PlaceTypes, QueueTypes, MapTypes

-----------------------------------------------------------------------------
(* Queues and sets of waiting threads *)

LEMMA SeqAppend ==
  ASSUME NEW S, NEW q \in Seq(S), NEW x \in S
  PROVE  /\ Append(q, x) \in Seq(S) /\ Len(Append(q, x)) = Len(q) + 1 /\ Len(q) \in Nat
         /\ \A i \in 1..Len(q) : Append(q, x)[i] = q[i]
         /\ Append(q, x)[Len(q) + 1] = x
  BY AppendProperties, LenProperties

LEMMA SeqTail ==
  ASSUME NEW S, NEW q \in Seq(S), q # <<>>
  PROVE  /\ Tail(q) \in Seq(S) /\ Len(Tail(q)) = Len(q) - 1 /\ Len(q) \in Nat \ {0}
         /\ \A i \in 1..Len(q) - 1 : Tail(q)[i] = q[i + 1]
         /\ Head(q) = q[1] /\ q[1] \in S
  BY HeadTailProperties, LenProperties, EmptySeq, ElementOfSeq

-----------------------------------------------------------------------------
(* The inductive invariant. *)

\* The opener thread: how far it is, what it has created and marked, and who is past it.
OpenerInv ==
    /\ call = "start" => opener = "idle"
    /\ opener = "idle" => call \in {"start", "raised", "ended"}
    /\ call \in {"body", "commit", "ok"} => opener = "done"
    /\ created => opener \in {"marked", "done", "failed"}
    /\ opener \in {"marked", "done"} => created
    /\ file = "ours" => opener \in {"opened", "marked", "done", "failed"}
    /\ file = "ours" /\ opener = "failed" => created
    /\ opener = "opened" => file = "ours"
    /\ writer # "none" <=> opener = "done"

\* The writer thread holds a job only while it runs, and runs while the body writes.
WriterInv ==
    /\ writer # "running" => held = 0
    /\ call \in {"start", "open", "body"} => writer # "exited"

\* Nothing is closed, renamed or reported before the body ends.
EarlyInv ==
    call \in {"start", "open", "body"} =>
        /\ \A k \in Closers : sender[k] = "none"
        /\ \A i \in 1..Len(queue) : queue[i] # Sentinel
        /\ strays = {} /\ renamer = "none"
        /\ call # "body" => issued = 0

\* Close k has not begun yet.
Ahead(k) ==
    \/ call = k /\ at = "opening"
    \/ k \in Aborts /\ call \in {"start", "open", "body", "commit"}
    \/ k = "leftover" /\ call \in {"abort", "raised"}

\* Where a close waits tells which call it is and what is over.
CloseInv ==
    /\ at # "idle" <=> call \in Closers
    /\ at \in {"sentinel", "join"} => opener = "done"
    /\ at = "closed" => opener \in {"done", "failed"} /\ writer # "running"
    /\ at = "rename" => call = "commit" /\ renamer # "none"
    /\ committed => call = "ok"
    /\ \A k \in Closers : sender[k] # "none" => opener = "done" /\ ~Ahead(k)
    /\ call \in {"start", "open", "body"} \/ (call = "commit" /\ at # "rename") => renamer = "none"

InQueue(j) == \E i \in 1..Len(queue) : queue[i] = j

\* Until commit is over no write is lost: it waits, is queued, held or in the file, unless one
\* failed; and the writer meets every queued write before a sentinel.
JobsInv ==
    /\ call \in {"body", "commit"} =>
          /\ strays = {}
          /\ error \/ \A j \in 1..issued : j \in put \cup applied \/ j = held \/ InQueue(j)
          /\ \A i, k \in 1..Len(queue) : queue[i] = Sentinel /\ queue[k] # Sentinel => k < i
    /\ call = "commit" =>
          /\ put = {} /\ issued = NumJobs
          /\ writer = "exited" => \A i \in 1..Len(queue) : queue[i] = Sentinel

\* What is renamed is complete, and what commit returns for is where it was asked for.
RenameInv ==
    /\ renamer \in {"running", "done"} => applied = Jobs /\ ~error /\ writer = "exited" /\ staged
    /\ renamer = "done" <=> dst = "new"
    /\ dst = "new" => file = "absent"
    /\ call = "ok" =>
          applied = Jobs /\ ~error /\ writer = "exited" /\ (staged => dst = "new")

\* The file is there unless an abort that does not keep it removed it.
DiskInv ==
    created /\ (Keep \/ call \in {"open", "body", "commit", "ok"}) => file = "ours" \/ dst = "new"

\* What an abort answered stays so: the opener and the writer are over.
OutcomeInv ==
    \A k \in Aborts :
        /\ outcome[k] = "kept" => created /\ Keep
        /\ outcome[k] = "released" => file # "ours"
        /\ outcome[k] # "none" =>
              /\ writer # "running" /\ opener \in {"idle", "done", "failed"}
              /\ opener = "idle" => call = "ended"
              /\ call \in {"raised", "leftover", "ended"}

\* The sentinels still to come.
Coming(k) == IF sender[k] = "put" \/ Ahead(k) THEN 1 ELSE 0
Sentinels == Coming("commit") + Coming("abort") + Coming("leftover")
Waiting == Cardinality(put \cup strays)

\* What may still be put in the queue behind a sentinel, or after the writer exited.
RoomInv ==
    /\ Waiting + Sentinels <= Readers + 2
    /\ \A i \in 1..Len(queue) :
          queue[i] = Sentinel => (Len(queue) - i) + Waiting + Sentinels <= Readers + 1
    /\ writer = "exited" => Len(queue) + Waiting + Sentinels <= Readers + 1

IInv ==
    /\ TypeOK /\ OpenerInv /\ WriterInv /\ EarlyInv /\ CloseInv
    /\ JobsInv /\ RenameInv /\ DiskInv /\ OutcomeInv /\ RoomInv

-----------------------------------------------------------------------------
(* Room in the queue *)

LEMMA CountTypes ==
  ASSUME IInv
  PROVE  IsFiniteSet(put \cup strays) /\ Waiting \in Nat /\ Sentinels \in 0..3
<1>1. IsFiniteSet(put \cup strays)
  <2>1. IsFiniteSet(Jobs) /\ put \cup strays \subseteq Jobs
    BY LocalFileSinkAssumption, FS_Interval DEF Jobs, IInv, TypeOK
  <2> QED  BY <2>1, FS_Subset
<1>2. Waiting \in Nat
  BY <1>1, FS_CardinalityType DEF Waiting
<1>3. Sentinels \in 0..3
  BY DEF Sentinels, Coming
<1> QED  BY <1>1, <1>2, <1>3

\* A step that leaves the queue alone and puts nothing more in prospect keeps the bound.
LEMMA RoomShrinks ==
  ASSUME IInv, UNCHANGED queue, writer' = "exited" => writer = "exited",
         put' \cup strays' \subseteq put \cup strays,
         NEW s \in Nat, Sentinels' = s, s <= Sentinels
  PROVE  RoomInv'
<1>1. PICK n \in Nat : Waiting' = n /\ n <= Waiting
  BY CountTypes, FS_Subset, FS_CardinalityType DEF Waiting
<1>2. Waiting \in Nat /\ Sentinels \in Nat /\ Len(queue) \in Nat /\ Readers \in Nat
  BY CountTypes, LocalFileSinkAssumption, LenProperties DEF IInv, TypeOK
<1>3. RoomInv
  BY DEF IInv
<1> QED  BY <1>1, <1>2, <1>3 DEF RoomInv

\* A thread in put that gets room takes the place it was counted for.
LEMMA RoomTaken ==
  ASSUME IInv, NEW x \in Jobs \cup {Sentinel}, queue' = Append(queue, x), UNCHANGED writer,
         NEW n \in Nat, Waiting' = n, NEW s \in Nat, Sentinels' = s,
         n + s = Waiting + Sentinels - 1
  PROVE  RoomInv'
<1>1. /\ Len(queue') = Len(queue) + 1 /\ Len(queue) \in Nat
      /\ \A i \in 1..Len(queue) : queue'[i] = queue[i]
  BY SeqAppend DEF IInv, TypeOK
<1>2. Waiting \in Nat /\ Sentinels \in Nat /\ Readers \in Nat
  BY CountTypes, LocalFileSinkAssumption
<1>3. RoomInv
  BY DEF IInv
<1>4. \A i \in 1..Len(queue') :
         queue'[i] = Sentinel => (Len(queue') - i) + n + s <= Readers + 1
  <2> SUFFICES ASSUME NEW i \in 1..Len(queue'), queue'[i] = Sentinel
               PROVE  (Len(queue') - i) + n + s <= Readers + 1
    OBVIOUS
  <2>1. CASE i \in 1..Len(queue)
    <3>1. (Len(queue) - i) + Waiting + Sentinels <= Readers + 1
      BY <1>1, <1>3, <2>1 DEF RoomInv
    <3> QED  BY <1>1, <1>2, <2>1, <3>1
  <2>2. CASE i = Len(queue) + 1
    <3>1. Waiting + Sentinels <= Readers + 2
      BY <1>3 DEF RoomInv
    <3> QED  BY <1>1, <1>2, <2>2, <3>1
  <2> QED  BY <1>1, <2>1, <2>2
<1>5. n + s <= Readers + 2
  BY <1>2, <1>3 DEF RoomInv
<1>6. writer' = "exited" => Len(queue') + n + s <= Readers + 1
  BY <1>1, <1>2, <1>3 DEF RoomInv
<1> QED  BY <1>4, <1>5, <1>6 DEF RoomInv

\* The writer takes the head of the queue; past a sentinel it is gone.
LEMMA RoomLeft ==
  ASSUME IInv, WriterTakes
  PROVE  RoomInv'
<1>1. /\ Len(queue') = Len(queue) - 1 /\ Len(queue) \in Nat \ {0} /\ Head(queue) = queue[1]
      /\ \A i \in 1..Len(queue) - 1 : queue'[i] = queue[i + 1]
  BY SeqTail DEF IInv, TypeOK, WriterTakes
<1>2. Waiting \in Nat /\ Sentinels \in Nat /\ Readers \in Nat
  BY CountTypes, LocalFileSinkAssumption
<1>3. Waiting' = Waiting /\ Sentinels' = Sentinels
  BY DEF WriterTakes, Waiting, Sentinels, Coming, Ahead, closeVars, driverVars
<1>4. RoomInv
  BY DEF IInv
<1>5. \A i \in 1..Len(queue') :
         queue'[i] = Sentinel => (Len(queue') - i) + Waiting + Sentinels <= Readers + 1
  <2> SUFFICES ASSUME NEW i \in 1..Len(queue'), queue'[i] = Sentinel
               PROVE  (Len(queue') - i) + Waiting + Sentinels <= Readers + 1
    OBVIOUS
  <2>1. i + 1 \in 1..Len(queue) /\ queue[i + 1] = Sentinel
    BY <1>1
  <2>2. (Len(queue) - (i + 1)) + Waiting + Sentinels <= Readers + 1
    BY <1>4, <2>1 DEF RoomInv
  <2> QED  BY <1>1, <1>2, <2>1, <2>2
<1>6. writer' = "exited" => Len(queue') + Waiting + Sentinels <= Readers + 1
  <2> SUFFICES ASSUME writer' = "exited" PROVE Len(queue') + Waiting + Sentinels <= Readers + 1
    OBVIOUS
  <2>1. queue[1] = Sentinel /\ 1 \in 1..Len(queue)
    BY <1>1 DEF WriterTakes
  <2>2. (Len(queue) - 1) + Waiting + Sentinels <= Readers + 1
    BY <1>4, <2>1 DEF RoomInv
  <2> QED  BY <1>1, <2>2
<1>7. Waiting + Sentinels <= Readers + 2
  BY <1>4 DEF RoomInv
<1> QED  BY <1>3, <1>5, <1>6, <1>7 DEF RoomInv

-----------------------------------------------------------------------------
(* Every step preserves the invariant. *)

\* open() and its thread.
LEMMA OpeningStep ==
  ASSUME IInv, Open \/ OpenReturns \/ OpenRaises \/ OpenerCreates \/ OpenerMarks \/ OpenerStartsWriter \/ OpenerFails
  PROVE  IInv'
<1> USE TypeParts, LocalFileSinkAssumption
        DEF IInv, Open, OpenReturns, OpenRaises, OpenerCreates, OpenerMarks, OpenerStartsWriter, OpenerFails,
            optVars, driverVars, queueVars, fieldVars, closeVars, writeVars, diskVars, Closers, Aborts
<1>1. FlagTypes'
  BY DEF FlagTypes
<1>2. PlaceTypes'
  BY DEF PlaceTypes
<1>3. QueueTypes'
  BY DEF QueueTypes
<1>4. MapTypes'
  BY DEF MapTypes, PlaceTypes
<1>5. OpenerInv'
  BY DEF FlagTypes, PlaceTypes, MapTypes, OpenerInv, WriterInv, EarlyInv, CloseInv
<1>6. WriterInv'
  BY DEF FlagTypes, PlaceTypes, MapTypes, OpenerInv, WriterInv, EarlyInv, CloseInv
<1>7. EarlyInv'
  BY DEF FlagTypes, PlaceTypes, MapTypes, OpenerInv, WriterInv, EarlyInv, CloseInv
<1>8. CloseInv'
  BY DEF FlagTypes, PlaceTypes, MapTypes, OpenerInv, WriterInv, EarlyInv, CloseInv, Ahead
<1>9. JobsInv'
  BY DEF FlagTypes, PlaceTypes, QueueTypes, MapTypes, OpenerInv, WriterInv, EarlyInv, CloseInv, JobsInv, InQueue
<1>10. RenameInv'
  BY DEF FlagTypes, PlaceTypes, MapTypes, OpenerInv, WriterInv, EarlyInv, CloseInv, RenameInv
<1>11. DiskInv'
  BY DEF FlagTypes, PlaceTypes, MapTypes, OpenerInv, WriterInv, EarlyInv, CloseInv, DiskInv, Keep
<1>12. OutcomeInv'
  BY DEF FlagTypes, PlaceTypes, MapTypes, OpenerInv, WriterInv, EarlyInv, CloseInv, OutcomeInv, Keep
<1>13. RoomInv'
  BY DEF FlagTypes, PlaceTypes, QueueTypes, MapTypes, OpenerInv, WriterInv, EarlyInv, CloseInv, RoomInv, Sentinels, Coming, Ahead, Waiting
<1>14. TypeOK'
  BY <1>1, <1>2, <1>3, <1>4 DEF TypeOK, FlagTypes, PlaceTypes, QueueTypes, MapTypes
<1> QED  BY <1>5, <1>6, <1>7, <1>8, <1>9, <1>10, <1>11, <1>12, <1>13, <1>14

\* The body of the export fails, notes a worker's write, or goes on to commit.
LEMMA BodyStep ==
  ASSUME IInv, BodyRaises \/ NoteWorkerWrite \/ Commit
  PROVE  IInv'
<1> USE TypeParts, LocalFileSinkAssumption
        DEF IInv, BodyRaises, NoteWorkerWrite, Commit, AbandonPuts, HasRoom,
            optVars, driverVars, queueVars, fieldVars, closeVars, writeVars, diskVars, Closers, Aborts
<1>1. FlagTypes'
  BY DEF FlagTypes
<1>2. PlaceTypes'
  BY DEF PlaceTypes
<1>3. QueueTypes'
  BY DEF QueueTypes
<1>4. MapTypes'
  BY DEF MapTypes, PlaceTypes
<1>5. OpenerInv'
  BY DEF FlagTypes, PlaceTypes, MapTypes, OpenerInv, WriterInv, EarlyInv, CloseInv
<1>6. WriterInv'
  BY DEF FlagTypes, PlaceTypes, MapTypes, OpenerInv, WriterInv, EarlyInv, CloseInv
<1>7. EarlyInv'
  BY DEF FlagTypes, PlaceTypes, MapTypes, OpenerInv, WriterInv, EarlyInv, CloseInv
<1>8. CloseInv'
  BY DEF FlagTypes, PlaceTypes, MapTypes, OpenerInv, WriterInv, EarlyInv, CloseInv, Ahead
<1>9. JobsInv'
  BY DEF FlagTypes, PlaceTypes, QueueTypes, MapTypes, OpenerInv, WriterInv, EarlyInv, CloseInv, JobsInv, InQueue
<1>10. RenameInv'
  BY DEF FlagTypes, PlaceTypes, MapTypes, OpenerInv, WriterInv, EarlyInv, CloseInv, RenameInv
<1>11. DiskInv'
  BY DEF FlagTypes, PlaceTypes, MapTypes, OpenerInv, WriterInv, EarlyInv, CloseInv, DiskInv, Keep
<1>12. OutcomeInv'
  BY DEF FlagTypes, PlaceTypes, MapTypes, OpenerInv, WriterInv, EarlyInv, CloseInv, OutcomeInv, Keep
<1>13. RoomInv'
  <2>1. CASE Commit
    <3>1. Waiting' = 0
      BY <2>1, FS_EmptySet DEF Waiting, EarlyInv
    <3>2. \E s \in 0..3 : Sentinels' = s
      BY DEF Sentinels, Coming
    <3>3. writer' # "exited" /\ \A i \in 1..Len(queue') : queue'[i] # Sentinel
      BY <2>1 DEF EarlyInv, WriterInv
    <3> QED  BY <3>1, <3>2, <3>3 DEF RoomInv
  <2>2. CASE BodyRaises \/ NoteWorkerWrite
    <3>1. UNCHANGED <<queue, writer>> /\ put' \cup strays' \subseteq put \cup strays
      BY <2>2
    <3>2. \E s \in Nat : Sentinels' = s /\ s <= Sentinels
      BY <2>2 DEF Sentinels, Coming, Ahead
    <3> QED  BY <3>1, <3>2, RoomShrinks
  <2> QED  BY <2>1, <2>2
<1>14. TypeOK'
  BY <1>1, <1>2, <1>3, <1>4 DEF TypeOK, FlagTypes, PlaceTypes, QueueTypes, MapTypes
<1> QED  BY <1>5, <1>6, <1>7, <1>8, <1>9, <1>10, <1>11, <1>12, <1>13, <1>14

\* The writer thread is done with the job it took.
LEMMA WritingStep ==
  ASSUME IInv, WriterWrites \/ WriterFails
  PROVE  IInv'
<1> USE TypeParts, LocalFileSinkAssumption
        DEF IInv, WriterWrites, WriterFails,
            optVars, driverVars, queueVars, fieldVars, closeVars, writeVars, diskVars, Closers, Aborts
<1>1. FlagTypes'
  BY DEF FlagTypes
<1>2. PlaceTypes'
  BY DEF PlaceTypes
<1>3. QueueTypes'
  BY DEF QueueTypes
<1>4. MapTypes'
  BY DEF MapTypes, PlaceTypes
<1>5. OpenerInv'
  BY DEF FlagTypes, PlaceTypes, MapTypes, OpenerInv, WriterInv, EarlyInv, CloseInv
<1>6. WriterInv'
  BY DEF FlagTypes, PlaceTypes, MapTypes, OpenerInv, WriterInv, EarlyInv, CloseInv
<1>7. EarlyInv'
  BY DEF FlagTypes, PlaceTypes, MapTypes, OpenerInv, WriterInv, EarlyInv, CloseInv
<1>8. CloseInv'
  BY DEF FlagTypes, PlaceTypes, MapTypes, OpenerInv, WriterInv, EarlyInv, CloseInv, Ahead
<1>9. JobsInv'
  BY DEF FlagTypes, PlaceTypes, QueueTypes, MapTypes, OpenerInv, WriterInv, EarlyInv, CloseInv, JobsInv, InQueue
<1>10. RenameInv'
  BY DEF FlagTypes, PlaceTypes, MapTypes, OpenerInv, WriterInv, EarlyInv, CloseInv, RenameInv
<1>11. DiskInv'
  BY DEF FlagTypes, PlaceTypes, MapTypes, OpenerInv, WriterInv, EarlyInv, CloseInv, DiskInv, Keep
<1>12. OutcomeInv'
  BY DEF FlagTypes, PlaceTypes, MapTypes, OpenerInv, WriterInv, EarlyInv, CloseInv, OutcomeInv, Keep
<1>13. RoomInv'
  <2>1. UNCHANGED queue /\ (writer' = "exited" => writer = "exited") /\ put' \cup strays' \subseteq put \cup strays
    OBVIOUS
  <2>2. \E s \in Nat : Sentinels' = s /\ s <= Sentinels
    BY DEF Sentinels, Coming, Ahead, PlaceTypes, MapTypes, CloseInv
  <2> QED  BY <2>1, <2>2, RoomShrinks
<1>14. TypeOK'
  BY <1>1, <1>2, <1>3, <1>4 DEF TypeOK, FlagTypes, PlaceTypes, QueueTypes, MapTypes
<1> QED  BY <1>5, <1>6, <1>7, <1>8, <1>9, <1>10, <1>11, <1>12, <1>13, <1>14

\* A close of the writer goes on.
LEMMA ClosingStep ==
  ASSUME IInv, SenderMarks \/ CloseWriter \/ CloseSent \/ CloseJoined
  PROVE  IInv'
<1> USE TypeParts, LocalFileSinkAssumption
        DEF IInv, SenderMarks, CloseWriter, CloseSent, CloseJoined, HasRoom,
            optVars, driverVars, queueVars, fieldVars, closeVars, writeVars, diskVars, Closers, Aborts
<1>1. FlagTypes'
  BY DEF FlagTypes
<1>2. PlaceTypes'
  BY DEF PlaceTypes
<1>3. QueueTypes'
  BY DEF QueueTypes
<1>4. MapTypes'
  BY DEF MapTypes, PlaceTypes
<1>5. OpenerInv'
  BY DEF FlagTypes, PlaceTypes, MapTypes, OpenerInv, WriterInv, EarlyInv, CloseInv
<1>6. WriterInv'
  BY DEF FlagTypes, PlaceTypes, MapTypes, OpenerInv, WriterInv, EarlyInv, CloseInv
<1>7. EarlyInv'
  BY DEF FlagTypes, PlaceTypes, MapTypes, OpenerInv, WriterInv, EarlyInv, CloseInv
<1>8. CloseInv'
  BY DEF FlagTypes, PlaceTypes, MapTypes, OpenerInv, WriterInv, EarlyInv, CloseInv, Ahead
<1>9. JobsInv'
  BY DEF FlagTypes, PlaceTypes, QueueTypes, MapTypes, OpenerInv, WriterInv, EarlyInv, CloseInv, JobsInv, InQueue
<1>10. RenameInv'
  BY DEF FlagTypes, PlaceTypes, MapTypes, OpenerInv, WriterInv, EarlyInv, CloseInv, RenameInv
<1>11. DiskInv'
  BY DEF FlagTypes, PlaceTypes, MapTypes, OpenerInv, WriterInv, EarlyInv, CloseInv, DiskInv, Keep
<1>12. OutcomeInv'
  BY DEF FlagTypes, PlaceTypes, MapTypes, OpenerInv, WriterInv, EarlyInv, CloseInv, OutcomeInv, Keep
<1>13. RoomInv'
  <2>1. UNCHANGED queue /\ (writer' = "exited" => writer = "exited") /\ put' \cup strays' \subseteq put \cup strays
    OBVIOUS
  <2>2. \E s \in Nat : Sentinels' = s /\ s <= Sentinels
    BY DEF Sentinels, Coming, Ahead, PlaceTypes, MapTypes, CloseInv
  <2> QED  BY <2>1, <2>2, RoomShrinks
<1>14. TypeOK'
  BY <1>1, <1>2, <1>3, <1>4 DEF TypeOK, FlagTypes, PlaceTypes, QueueTypes, MapTypes
<1> QED  BY <1>5, <1>6, <1>7, <1>8, <1>9, <1>10, <1>11, <1>12, <1>13, <1>14

\* commit() after its close.
LEMMA CommittingStep ==
  ASSUME IInv, CommitAfterClose \/ Rename \/ CommitAfterRename
  PROVE  IInv'
<1> USE TypeParts, LocalFileSinkAssumption
        DEF IInv, CommitAfterClose, Rename, CommitAfterRename, Keep,
            optVars, driverVars, queueVars, fieldVars, closeVars, writeVars, diskVars, Closers, Aborts
<1>1. FlagTypes'
  BY DEF FlagTypes
<1>2. PlaceTypes'
  BY DEF PlaceTypes
<1>3. QueueTypes'
  BY DEF QueueTypes
<1>4. MapTypes'
  BY DEF MapTypes, PlaceTypes
<1>5. OpenerInv'
  BY DEF FlagTypes, PlaceTypes, OpenerInv, RenameInv
<1>6. WriterInv'
  BY DEF FlagTypes, PlaceTypes, MapTypes, OpenerInv, WriterInv, EarlyInv, CloseInv
<1>7. EarlyInv'
  BY DEF FlagTypes, PlaceTypes, MapTypes, OpenerInv, WriterInv, EarlyInv, CloseInv
<1>8. CloseInv'
  BY DEF FlagTypes, PlaceTypes, MapTypes, OpenerInv, WriterInv, EarlyInv, CloseInv, Ahead
<1>9. JobsInv'
  BY DEF FlagTypes, PlaceTypes, QueueTypes, MapTypes, OpenerInv, WriterInv, EarlyInv, CloseInv, JobsInv, InQueue
<1>10. RenameInv'
  <2>1. ASSUME call = "commit", at = "closed", ~error PROVE applied = Jobs /\ writer = "exited"
    <3>1. writer = "exited" /\ held = 0
      BY <2>1 DEF CloseInv, OpenerInv, WriterInv, PlaceTypes
    <3>2. \A j \in Jobs : j \in applied \/ InQueue(j)
      BY <2>1, <3>1 DEF JobsInv, Jobs
    <3>3. \A j \in Jobs : ~InQueue(j)
      BY <2>1, <3>1 DEF JobsInv, InQueue, Sentinel, Jobs
    <3> QED  BY <3>1, <3>2, <3>3 DEF QueueTypes
  <2> QED  BY <2>1 DEF RenameInv, FlagTypes, PlaceTypes, CloseInv
<1>11. DiskInv'
  BY DEF FlagTypes, PlaceTypes, MapTypes, OpenerInv, WriterInv, EarlyInv, CloseInv, DiskInv, Keep
<1>12. OutcomeInv'
  BY DEF FlagTypes, PlaceTypes, MapTypes, OpenerInv, WriterInv, EarlyInv, CloseInv, OutcomeInv, Keep
<1>13. RoomInv'
  <2>1. UNCHANGED queue /\ (writer' = "exited" => writer = "exited") /\ put' \cup strays' \subseteq put \cup strays
    OBVIOUS
  <2>2. \E s \in Nat : Sentinels' = s /\ s <= Sentinels
    BY DEF Sentinels, Coming, Ahead, PlaceTypes, MapTypes, CloseInv
  <2> QED  BY <2>1, <2>2, RoomShrinks
<1>14. TypeOK'
  BY <1>1, <1>2, <1>3, <1>4 DEF TypeOK, FlagTypes, PlaceTypes, QueueTypes, MapTypes
<1> QED  BY <1>5, <1>6, <1>7, <1>8, <1>9, <1>10, <1>11, <1>12, <1>13, <1>14

\* An abort returns, and ExportTracker reports.
LEMMA AbortingStep ==
  ASSUME IInv, AbortReturns \/ Leftover \/ Reported
  PROVE  IInv'
<1> USE TypeParts, LocalFileSinkAssumption
        DEF IInv, AbortReturns, Leftover, Reported, Discard, AfterAbort, Result, Keep,
            optVars, driverVars, queueVars, fieldVars, closeVars, writeVars, diskVars, Closers, Aborts
<1>1. FlagTypes'
  BY DEF FlagTypes
<1>2. PlaceTypes'
  BY DEF PlaceTypes
<1>3. QueueTypes'
  BY DEF QueueTypes
<1>4. MapTypes'
  BY DEF MapTypes, PlaceTypes
<1>5. OpenerInv'
  BY DEF FlagTypes, PlaceTypes, MapTypes, OpenerInv, WriterInv, EarlyInv, CloseInv
<1>6. WriterInv'
  BY DEF FlagTypes, PlaceTypes, MapTypes, OpenerInv, WriterInv, EarlyInv, CloseInv
<1>7. EarlyInv'
  BY DEF FlagTypes, PlaceTypes, MapTypes, OpenerInv, WriterInv, EarlyInv, CloseInv
<1>8. CloseInv'
  BY DEF FlagTypes, PlaceTypes, MapTypes, OpenerInv, WriterInv, EarlyInv, CloseInv, Ahead
<1>9. JobsInv'
  BY DEF FlagTypes, PlaceTypes, QueueTypes, MapTypes, OpenerInv, WriterInv, EarlyInv, CloseInv, JobsInv, InQueue
<1>10. RenameInv'
  BY DEF FlagTypes, PlaceTypes, MapTypes, OpenerInv, WriterInv, EarlyInv, CloseInv, RenameInv
<1>11. DiskInv'
  BY DEF FlagTypes, PlaceTypes, MapTypes, OpenerInv, WriterInv, EarlyInv, CloseInv, DiskInv, Keep
<1>12. OutcomeInv'
  BY DEF FlagTypes, PlaceTypes, MapTypes, OpenerInv, WriterInv, EarlyInv, CloseInv, OutcomeInv, Keep
<1>13. RoomInv'
  <2>1. UNCHANGED queue /\ (writer' = "exited" => writer = "exited") /\ put' \cup strays' \subseteq put \cup strays
    OBVIOUS
  <2>2. \E s \in Nat : Sentinels' = s /\ s <= Sentinels
    BY DEF Sentinels, Coming, Ahead, PlaceTypes, MapTypes, CloseInv
  <2> QED  BY <2>1, <2>2, RoomShrinks
<1>14. TypeOK'
  BY <1>1, <1>2, <1>3, <1>4 DEF TypeOK, FlagTypes, PlaceTypes, QueueTypes, MapTypes
<1> QED  BY <1>5, <1>6, <1>7, <1>8, <1>9, <1>10, <1>11, <1>12, <1>13, <1>14

\* The driving task is cancelled.
LEMMA CancellingStep ==
  ASSUME IInv, CancelEarly \/ CancelCommit \/ CancelCommitRename \/ CancelAbort
  PROVE  IInv'
<1> USE TypeParts, LocalFileSinkAssumption
        DEF IInv, CancelEarly, CancelCommit, CancelCommitRename, CancelAbort, AbandonPuts, MayCancel, AbandonSender, Discard, AfterAbort, Keep,
            optVars, driverVars, queueVars, fieldVars, closeVars, writeVars, diskVars, Closers, Aborts
<1>1. FlagTypes'
  BY DEF FlagTypes
<1>2. PlaceTypes'
  BY DEF PlaceTypes
<1>3. QueueTypes'
  BY DEF QueueTypes
<1>4. MapTypes'
  BY DEF MapTypes, PlaceTypes
<1>5. OpenerInv'
  BY DEF FlagTypes, PlaceTypes, MapTypes, OpenerInv, WriterInv, EarlyInv, CloseInv
<1>6. WriterInv'
  BY DEF FlagTypes, PlaceTypes, MapTypes, OpenerInv, WriterInv, EarlyInv, CloseInv
<1>7. EarlyInv'
  BY DEF FlagTypes, PlaceTypes, MapTypes, OpenerInv, WriterInv, EarlyInv, CloseInv
<1>8. CloseInv'
  BY DEF FlagTypes, PlaceTypes, MapTypes, OpenerInv, WriterInv, EarlyInv, CloseInv, Ahead
<1>9. JobsInv'
  BY DEF FlagTypes, PlaceTypes, QueueTypes, MapTypes, OpenerInv, WriterInv, EarlyInv, CloseInv, JobsInv, InQueue
<1>10. RenameInv'
  BY DEF FlagTypes, PlaceTypes, MapTypes, OpenerInv, WriterInv, EarlyInv, CloseInv, RenameInv
<1>11. DiskInv'
  BY DEF FlagTypes, PlaceTypes, MapTypes, OpenerInv, WriterInv, EarlyInv, CloseInv, DiskInv, Keep
<1>12. OutcomeInv'
  BY DEF FlagTypes, PlaceTypes, MapTypes, OpenerInv, WriterInv, EarlyInv, CloseInv, OutcomeInv, Keep
<1>13. RoomInv'
  <2>1. UNCHANGED queue /\ (writer' = "exited" => writer = "exited") /\ put' \cup strays' \subseteq put \cup strays
    OBVIOUS
  <2>2. \E s \in Nat : Sentinels' = s /\ s <= Sentinels
    BY DEF Sentinels, Coming, Ahead, PlaceTypes, MapTypes, CloseInv
  <2> QED  BY <2>1, <2>2, RoomShrinks
<1>14. TypeOK'
  BY <1>1, <1>2, <1>3, <1>4 DEF TypeOK, FlagTypes, PlaceTypes, QueueTypes, MapTypes
<1> QED  BY <1>5, <1>6, <1>7, <1>8, <1>9, <1>10, <1>11, <1>12, <1>13, <1>14

\* A write is handed to the writer, or its thread waits in put.
LEMMA SubmitStep ==
  ASSUME IInv, Submit
  PROVE  IInv'
<1> USE TypeParts, LocalFileSinkAssumption
        DEF IInv, Submit, HasRoom,
            optVars, driverVars, queueVars, fieldVars, closeVars, writeVars, diskVars, Closers, Aborts
<1>1. FlagTypes'
  BY DEF FlagTypes
<1>2. PlaceTypes'
  BY DEF PlaceTypes
<1>3. QueueTypes'
  <2>1. issued + 1 \in Jobs /\ issued + 1 \in 0..NumJobs
    BY DEF QueueTypes, Jobs
  <2>2. Append(queue, issued + 1) \in Seq(Jobs \cup {Sentinel}) /\ Len(Append(queue, issued + 1)) = Len(queue) + 1 /\ Len(queue) \in Nat
    BY <2>1, SeqAppend DEF QueueTypes
  <2>3. put \cup {issued + 1} \subseteq Jobs
    BY <2>1 DEF QueueTypes
  <2> QED  BY <2>1, <2>2, <2>3 DEF QueueTypes
<1>4. MapTypes'
  BY DEF MapTypes, PlaceTypes
<1>5. OpenerInv'
  BY DEF FlagTypes, PlaceTypes, MapTypes, OpenerInv, WriterInv, EarlyInv, CloseInv
<1>6. WriterInv'
  BY DEF FlagTypes, PlaceTypes, MapTypes, OpenerInv, WriterInv, EarlyInv, CloseInv
<1>7. EarlyInv'
  <2>1. queue' = queue \/ (/\ Len(queue') = Len(queue) + 1 /\ queue'[Len(queue) + 1] = issued + 1 /\ Len(queue) \in Nat
                          /\ \A i \in 1..Len(queue) : queue'[i] = queue[i])
    <3>1. issued + 1 \in Jobs
      BY DEF QueueTypes, Jobs
    <3> QED  BY <3>1, SeqAppend DEF QueueTypes
  <2>2. issued + 1 # Sentinel
    BY DEF QueueTypes, Sentinel
  <2> QED  BY <2>1, <2>2 DEF EarlyInv
<1>8. CloseInv'
  BY DEF FlagTypes, PlaceTypes, MapTypes, OpenerInv, WriterInv, EarlyInv, CloseInv, Ahead
<1>9. JobsInv'
  <2>1. issued \in Nat /\ issued + 1 \in Jobs /\ queue \in Seq(Jobs \cup {Sentinel})
    BY DEF QueueTypes, Jobs
  <2>2. /\ strays = {} /\ writer = "running" /\ ~error
        /\ \A j \in 1..issued : j \in put \cup applied \/ j = held \/ InQueue(j)
        /\ \A i \in 1..Len(queue) : queue[i] # Sentinel
    BY DEF JobsInv, EarlyInv, OpenerInv, WriterInv, PlaceTypes
  <2>3. \A i \in 1..Len(queue') : queue'[i] # Sentinel
    BY <1>7 DEF EarlyInv
  <2>4. \A j \in 1..issued : InQueue(j) => InQueue(j)'
    <3>1. CASE queue' = Append(queue, issued + 1)
      <4>1. /\ \A i \in 1..Len(queue) : i \in 1..Len(queue') /\ queue'[i] = queue[i]
        BY <2>1, <3>1, SeqAppend
      <4> QED  BY <4>1 DEF InQueue
    <3>2. CASE queue' = queue
      BY <3>2 DEF InQueue
    <3> QED  BY <3>1, <3>2
  <2>5. issued + 1 \in put' \/ \E i \in 1..Len(queue') : queue'[i] = issued + 1
    <3>1. CASE queue' = Append(queue, issued + 1)
      <4>1. Len(queue') = Len(queue) + 1 /\ Len(queue) \in Nat /\ queue'[Len(queue) + 1] = issued + 1
        BY <2>1, <3>1, SeqAppend
      <4>2. Len(queue) + 1 \in 1..Len(queue')
        BY <4>1
      <4> QED  BY <4>1, <4>2
    <3> QED  BY <3>1
  <2>6. \A j \in 1..issued' : j \in put' \cup applied' \/ j = held' \/ InQueue(j)'
    <3> SUFFICES ASSUME NEW j \in 1..issued' PROVE j \in put' \cup applied' \/ j = held' \/ InQueue(j)'
      OBVIOUS
    <3>1. CASE j = issued + 1
      BY <2>5, <3>1 DEF InQueue
    <3>2. CASE j \in 1..issued
      BY <2>2, <2>4, <3>2
    <3> QED  BY <2>1, <3>1, <3>2
  <2> QED  BY <2>2, <2>3, <2>6 DEF JobsInv
<1>10. RenameInv'
  BY DEF FlagTypes, PlaceTypes, MapTypes, OpenerInv, WriterInv, EarlyInv, CloseInv, RenameInv
<1>11. DiskInv'
  BY DEF FlagTypes, PlaceTypes, MapTypes, OpenerInv, WriterInv, EarlyInv, CloseInv, DiskInv, Keep
<1>12. OutcomeInv'
  BY DEF FlagTypes, PlaceTypes, MapTypes, OpenerInv, WriterInv, EarlyInv, CloseInv, OutcomeInv, Keep
<1>13. RoomInv'
  <2>1. /\ strays = {} /\ writer # "exited" /\ \A i \in 1..Len(queue') : queue'[i] # Sentinel
    BY <1>7 DEF EarlyInv, WriterInv
  <2>2. Sentinels' = 2 /\ Sentinels = 2
    BY DEF Sentinels, Coming, Ahead, EarlyInv
  <2>3. \E n \in Nat : Waiting' = n /\ n <= Readers
    <3>1. IsFiniteSet(put) /\ Cardinality(put) \in Nat /\ put = put \cup strays
      BY <2>1, CountTypes, FS_CardinalityType
    <3>2. CASE put' = put \cup {issued + 1}
      <4>1. /\ Cardinality(put \cup {issued + 1}) \in Nat
            /\ Cardinality(put \cup {issued + 1}) <= Cardinality(put) + 1
        <5>1. /\ IsFiniteSet(put \cup {issued + 1})
              /\ \/ Cardinality(put \cup {issued + 1}) = Cardinality(put)
                 \/ Cardinality(put \cup {issued + 1}) = Cardinality(put) + 1
          BY <3>1, FS_AddElement
        <5> QED  BY <3>1, <5>1
      <4>2. Waiting' = Cardinality(put \cup {issued + 1})
        BY <2>1, <3>2 DEF Waiting
      <4> QED  BY <3>1, <4>1, <4>2
    <3>3. CASE put' = put
      BY <2>1, <3>1, <3>3 DEF Waiting
    <3> QED  BY <3>2, <3>3
  <2> QED  BY <2>1, <2>2, <2>3 DEF RoomInv
<1>14. TypeOK'
  BY <1>1, <1>2, <1>3, <1>4 DEF TypeOK, FlagTypes, PlaceTypes, QueueTypes, MapTypes
<1> QED  BY <1>5, <1>6, <1>7, <1>8, <1>9, <1>10, <1>11, <1>12, <1>13, <1>14

\* A thread in put gets room.
LEMMA PutStep ==
  ASSUME IInv, Put
  PROVE  IInv'
<1> USE TypeParts, LocalFileSinkAssumption
        DEF IInv, Put, HasRoom,
            optVars, driverVars, queueVars, fieldVars, closeVars, writeVars, diskVars, Closers, Aborts
<1>1. FlagTypes'
  BY DEF FlagTypes
<1>2. PlaceTypes'
  BY DEF PlaceTypes
<1>3. QueueTypes'
  <2>1. PICK j \in put \cup strays : Len(queue) < QueueSize /\ queue' = Append(queue, j) /\ put' = put \ {j} /\ strays' = strays \ {j}
    OBVIOUS
  <2>2. queue' \in Seq(Jobs \cup {Sentinel}) /\ Len(queue') = Len(queue) + 1 /\ Len(queue) \in Nat
    BY <2>1, SeqAppend DEF QueueTypes
  <2> QED  BY <2>1, <2>2 DEF QueueTypes
<1>4. MapTypes'
  BY DEF MapTypes, PlaceTypes
<1>5. OpenerInv'
  BY DEF FlagTypes, PlaceTypes, MapTypes, OpenerInv, WriterInv, EarlyInv, CloseInv
<1>6. WriterInv'
  BY DEF FlagTypes, PlaceTypes, MapTypes, OpenerInv, WriterInv, EarlyInv, CloseInv
<1>7. EarlyInv'
  <2>1. PICK j \in put \cup strays : queue' = Append(queue, j) /\ strays' = strays \ {j}
    OBVIOUS
  <2>2. /\ Len(queue') = Len(queue) + 1 /\ queue'[Len(queue) + 1] = j /\ Len(queue) \in Nat
        /\ \A i \in 1..Len(queue) : queue'[i] = queue[i]
    BY <2>1, SeqAppend DEF QueueTypes
  <2>3. j # Sentinel
    BY DEF QueueTypes, Jobs, Sentinel
  <2> QED  BY <2>1, <2>2, <2>3 DEF EarlyInv
<1>8. CloseInv'
  BY DEF FlagTypes, PlaceTypes, MapTypes, OpenerInv, WriterInv, EarlyInv, CloseInv, Ahead
<1>9. JobsInv'
  <2>1. PICK j \in put \cup strays : queue' = Append(queue, j) /\ put' = put \ {j} /\ strays' = strays \ {j}
    OBVIOUS
  <2>2. /\ Len(queue') = Len(queue) + 1 /\ queue'[Len(queue) + 1] = j /\ Len(queue) \in Nat
        /\ \A i \in 1..Len(queue) : queue'[i] = queue[i]
    BY <2>1, SeqAppend DEF QueueTypes
  <2>3. UNCHANGED <<call, error, issued, applied, held, writer>>
    OBVIOUS
  <2> HIDE DEF Put
  <2> SUFFICES ASSUME call \in {"body", "commit"} PROVE JobsInv'
    BY <2>3 DEF JobsInv
  <2>4. /\ strays = {} /\ call = "body"
        /\ error \/ \A k \in 1..issued : k \in put \cup applied \/ k = held \/ InQueue(k)
    BY DEF JobsInv
  <2>5. \A i \in 1..Len(queue') : queue'[i] # Sentinel
    BY <1>7, <2>3, <2>4 DEF EarlyInv
  <2>6. InQueue(j)' /\ \A k \in 1..issued : InQueue(k) => InQueue(k)'
    <3>1. Len(queue) + 1 \in 1..Len(queue') /\ \A i \in 1..Len(queue) : i \in 1..Len(queue')
      BY <2>2
    <3> QED  BY <2>2, <3>1 DEF InQueue
  <2>7. error \/ \A k \in 1..issued : k \in put' \cup applied \/ k = held \/ InQueue(k)'
    BY <2>1, <2>4, <2>6
  <2> QED  BY <2>1, <2>3, <2>4, <2>5, <2>7 DEF JobsInv
<1>10. RenameInv'
  BY DEF FlagTypes, PlaceTypes, MapTypes, OpenerInv, WriterInv, EarlyInv, CloseInv, RenameInv
<1>11. DiskInv'
  BY DEF FlagTypes, PlaceTypes, MapTypes, OpenerInv, WriterInv, EarlyInv, CloseInv, DiskInv, Keep
<1>12. OutcomeInv'
  BY DEF FlagTypes, PlaceTypes, MapTypes, OpenerInv, WriterInv, EarlyInv, CloseInv, OutcomeInv, Keep
<1>13. RoomInv'
  <2>1. PICK j \in put \cup strays : queue' = Append(queue, j) /\ put' = put \ {j} /\ strays' = strays \ {j}
    OBVIOUS
  <2>2. Sentinels' = Sentinels /\ Sentinels \in Nat
    BY CountTypes DEF Sentinels, Coming, Ahead
  <2>3. Waiting' = Waiting - 1 /\ Waiting' \in Nat /\ Waiting \in Nat
    <3>1. put' \cup strays' = (put \cup strays) \ {j}
      BY <2>1
    <3>2. /\ Cardinality((put \cup strays) \ {j}) = Cardinality(put \cup strays) - 1
          /\ Cardinality((put \cup strays) \ {j}) \in Nat /\ Waiting \in Nat
      BY CountTypes, FS_RemoveElement, FS_CardinalityType
    <3> QED  BY <3>1, <3>2 DEF Waiting
  <2>4. j \in Jobs \cup {Sentinel} /\ UNCHANGED writer
    BY DEF QueueTypes
  <2> QED  BY <2>1, <2>2, <2>3, <2>4, RoomTaken
<1>14. TypeOK'
  BY <1>1, <1>2, <1>3, <1>4 DEF TypeOK, FlagTypes, PlaceTypes, QueueTypes, MapTypes
<1> QED  BY <1>5, <1>6, <1>7, <1>8, <1>9, <1>10, <1>11, <1>12, <1>13, <1>14

\* The writer takes the next job, or the sentinel.
LEMMA TakesStep ==
  ASSUME IInv, WriterTakes
  PROVE  IInv'
<1> USE TypeParts, LocalFileSinkAssumption
        DEF IInv, WriterTakes,
            optVars, driverVars, queueVars, fieldVars, closeVars, writeVars, diskVars, Closers, Aborts
<1>1. FlagTypes'
  BY DEF FlagTypes
<1>2. PlaceTypes'
  BY DEF PlaceTypes
<1>3. QueueTypes'
  <2>1. Tail(queue) \in Seq(Jobs \cup {Sentinel}) /\ Len(Tail(queue)) = Len(queue) - 1 /\ Head(queue) \in Jobs \cup {Sentinel} /\ Len(queue) \in Nat
    BY SeqTail DEF QueueTypes
  <2> QED  BY <2>1 DEF QueueTypes, Sentinel
<1>4. MapTypes'
  BY DEF MapTypes, PlaceTypes
<1>5. OpenerInv'
  BY DEF FlagTypes, PlaceTypes, MapTypes, OpenerInv, WriterInv, EarlyInv, CloseInv
<1>6. WriterInv'
  <2>1. Head(queue) = queue[1] /\ 1 \in 1..Len(queue)
    BY SeqTail DEF QueueTypes
  <2> QED  BY <2>1 DEF WriterInv, EarlyInv, PlaceTypes
<1>7. EarlyInv'
  <2>1. /\ Len(queue') = Len(queue) - 1 /\ Len(queue) \in Nat
        /\ \A i \in 1..Len(queue) - 1 : queue'[i] = queue[i + 1]
    BY SeqTail DEF QueueTypes
  <2> QED  BY <2>1 DEF EarlyInv
<1>8. CloseInv'
  BY DEF FlagTypes, PlaceTypes, MapTypes, OpenerInv, WriterInv, EarlyInv, CloseInv, Ahead
<1>9. JobsInv'
  <2>1. /\ Len(queue') = Len(queue) - 1 /\ Len(queue) \in Nat \ {0} /\ Head(queue) = queue[1]
        /\ \A i \in 1..Len(queue) - 1 : queue'[i] = queue[i + 1]
    BY SeqTail DEF QueueTypes
  <2>2. UNCHANGED <<call, error, issued, applied, put, strays>> /\ held = 0 /\ writer = "running"
    OBVIOUS
  <2>3. \/ queue[1] = Sentinel /\ writer' = "exited" /\ held' = held
        \/ queue[1] # Sentinel /\ error /\ writer' = writer /\ held' = held
        \/ queue[1] # Sentinel /\ ~error /\ held' = queue[1] /\ writer' = writer
    BY <2>1
  <2> HIDE DEF WriterTakes
  <2> SUFFICES ASSUME call \in {"body", "commit"} PROVE JobsInv'
    BY <2>2 DEF JobsInv
  <2>4. \A j \in 1..issued : InQueue(j) => InQueue(j)' \/ j = queue[1]
    <3> SUFFICES ASSUME NEW j \in 1..issued, NEW i \in 1..Len(queue), queue[i] = j, i # 1
                 PROVE  InQueue(j)'
      BY DEF InQueue
    <3>1. i - 1 \in 1..Len(queue') /\ queue'[i - 1] = j
      BY <2>1
    <3> QED  BY <3>1 DEF InQueue
  <2>5. error \/ \A j \in 1..issued : j \in put \cup applied \/ j = held' \/ InQueue(j)'
    <3>1. \A j \in 1..issued : j # held /\ j # Sentinel
      BY <2>2 DEF QueueTypes, Sentinel
    <3> QED  BY <2>3, <2>4, <3>1 DEF JobsInv
  <2>6. \A i, k \in 1..Len(queue') : queue'[i] = Sentinel /\ queue'[k] # Sentinel => k < i
    <3>1. \A i \in 1..Len(queue') : i + 1 \in 1..Len(queue) /\ queue'[i] = queue[i + 1]
      BY <2>1
    <3>2. \A i, k \in 1..Len(queue) : queue[i] = Sentinel /\ queue[k] # Sentinel => k < i
      BY DEF JobsInv
    <3> QED  BY <2>1, <3>1, <3>2
  <2>7. writer' = "exited" => \A i \in 1..Len(queue') : queue'[i] = Sentinel
    <3>1. \A i \in 1..Len(queue') : i + 1 \in 1..Len(queue) /\ queue'[i] = queue[i + 1] /\ ~(i + 1 < 1)
      BY <2>1
    <3>2. writer' = "exited" => 1 \in 1..Len(queue) /\ queue[1] = Sentinel
      BY <2>1, <2>2, <2>3
    <3>3. \A k \in 1..Len(queue) : queue[1] = Sentinel /\ 1 \in 1..Len(queue) /\ queue[k] # Sentinel => k < 1
      BY DEF JobsInv
    <3> QED  BY <3>1, <3>2, <3>3
  <2> QED  BY <2>2, <2>5, <2>6, <2>7 DEF JobsInv
<1>10. RenameInv'
  BY DEF FlagTypes, PlaceTypes, MapTypes, OpenerInv, WriterInv, EarlyInv, CloseInv, RenameInv
<1>11. DiskInv'
  BY DEF FlagTypes, PlaceTypes, MapTypes, OpenerInv, WriterInv, EarlyInv, CloseInv, DiskInv, Keep
<1>12. OutcomeInv'
  BY DEF FlagTypes, PlaceTypes, MapTypes, OpenerInv, WriterInv, EarlyInv, CloseInv, OutcomeInv, Keep
<1>13. RoomInv'
  BY RoomLeft
<1>14. TypeOK'
  BY <1>1, <1>2, <1>3, <1>4 DEF TypeOK, FlagTypes, PlaceTypes, QueueTypes, MapTypes
<1> QED  BY <1>5, <1>6, <1>7, <1>8, <1>9, <1>10, <1>11, <1>12, <1>13, <1>14

\* A thread of _send_sentinel gets room.
LEMMA SenderPutsStep ==
  ASSUME IInv, SenderPuts
  PROVE  IInv'
<1> USE TypeParts, LocalFileSinkAssumption
        DEF IInv, SenderPuts, HasRoom,
            optVars, driverVars, queueVars, fieldVars, closeVars, writeVars, diskVars, Closers, Aborts
<1>1. FlagTypes'
  BY DEF FlagTypes
<1>2. PlaceTypes'
  BY DEF PlaceTypes
<1>3. QueueTypes'
  <2>1. queue' \in Seq(Jobs \cup {Sentinel}) /\ Len(queue') = Len(queue) + 1 /\ Len(queue) \in Nat
    BY SeqAppend DEF QueueTypes
  <2> QED  BY <2>1 DEF QueueTypes
<1>4. MapTypes'
  BY DEF MapTypes, PlaceTypes
<1>5. OpenerInv'
  BY DEF FlagTypes, PlaceTypes, MapTypes, OpenerInv, WriterInv, EarlyInv, CloseInv
<1>6. WriterInv'
  BY DEF FlagTypes, PlaceTypes, MapTypes, OpenerInv, WriterInv, EarlyInv, CloseInv
<1>7. EarlyInv'
  BY DEF FlagTypes, PlaceTypes, MapTypes, OpenerInv, WriterInv, EarlyInv, CloseInv
<1>8. CloseInv'
  BY DEF FlagTypes, PlaceTypes, MapTypes, OpenerInv, WriterInv, EarlyInv, CloseInv, Ahead
<1>9. JobsInv'
  <2>1. /\ Len(queue') = Len(queue) + 1 /\ queue'[Len(queue) + 1] = Sentinel /\ Len(queue) \in Nat
        /\ \A i \in 1..Len(queue) : queue'[i] = queue[i]
    BY SeqAppend DEF QueueTypes
  <2>2. UNCHANGED <<call, error, issued, applied, put, strays, held, writer>>
    OBVIOUS
  <2> HIDE DEF SenderPuts
  <2> SUFFICES ASSUME call \in {"body", "commit"} PROVE JobsInv'
    BY <2>2 DEF JobsInv
  <2>3. \A j \in 1..issued : InQueue(j) => InQueue(j)'
    <3>1. \A i \in 1..Len(queue) : i \in 1..Len(queue')
      BY <2>1
    <3> QED  BY <2>1, <3>1 DEF InQueue
  <2>4. \A i, k \in 1..Len(queue') : queue'[i] = Sentinel /\ queue'[k] # Sentinel => k < i
    <3>1. \A i, k \in 1..Len(queue) : queue[i] = Sentinel /\ queue[k] # Sentinel => k < i
      BY DEF JobsInv
    <3>2. \A i \in 1..Len(queue') : i = Len(queue) + 1 \/ (i \in 1..Len(queue) /\ i < Len(queue) + 1)
      BY <2>1
    <3> QED  BY <2>1, <3>1, <3>2
  <2>5. \A i \in 1..Len(queue') : i = Len(queue) + 1 \/ i \in 1..Len(queue)
    BY <2>1
  <2> QED  BY <2>1, <2>2, <2>3, <2>4, <2>5 DEF JobsInv
<1>10. RenameInv'
  BY DEF FlagTypes, PlaceTypes, MapTypes, OpenerInv, WriterInv, EarlyInv, CloseInv, RenameInv
<1>11. DiskInv'
  BY DEF FlagTypes, PlaceTypes, MapTypes, OpenerInv, WriterInv, EarlyInv, CloseInv, DiskInv, Keep
<1>12. OutcomeInv'
  BY DEF FlagTypes, PlaceTypes, MapTypes, OpenerInv, WriterInv, EarlyInv, CloseInv, OutcomeInv, Keep
<1>13. RoomInv'
  <2>1. PICK k \in Closers : sender[k] = "put" /\ queue' = Append(queue, Sentinel) /\ sender' = [sender EXCEPT ![k] = "mark"]
    OBVIOUS
  <2>2. UNCHANGED <<put, strays, writer, call, at>>
    OBVIOUS
  <2> HIDE DEF SenderPuts
  <2>3. Waiting' = Waiting /\ Waiting \in Nat /\ Sentinels \in Nat
    BY <2>2, CountTypes DEF Waiting
  <2>4. \A m \in Closers : Ahead(m)' = Ahead(m)
    BY <2>2 DEF Ahead
  <2>5. ~Ahead(k)
    BY <2>1 DEF CloseInv
  <2>6. Coming(k)' = 0 /\ Coming(k) = 1 /\ \A m \in Closers \ {k} : Coming(m)' = Coming(m) /\ Coming(m) \in 0..1
    BY <2>1, <2>4, <2>5 DEF Coming, MapTypes
  <2>7. Sentinels' = Sentinels - 1 /\ Sentinels' \in Nat
    BY <2>6 DEF Sentinels
  <2> QED  BY <2>1, <2>2, <2>3, <2>7, RoomTaken
<1>14. TypeOK'
  BY <1>1, <1>2, <1>3, <1>4 DEF TypeOK, FlagTypes, PlaceTypes, QueueTypes, MapTypes
<1> QED  BY <1>5, <1>6, <1>7, <1>8, <1>9, <1>10, <1>11, <1>12, <1>13, <1>14

LEMMA InitIInv == Init => IInv
<1> SUFFICES ASSUME Init PROVE IInv
  OBVIOUS
<1> USE LocalFileSinkAssumption DEF Init
<1>1. TypeOK
  <2>0. FlagTypes
    BY DEF FlagTypes
  <2>1. PlaceTypes
    BY DEF PlaceTypes
  <2>2. QueueTypes /\ MapTypes
    BY EmptySeq DEF QueueTypes, MapTypes
  <2> QED  BY <2>0, <2>1, <2>2, TypeParts
<1>1a. OpenerInv /\ WriterInv /\ CloseInv
  BY DEF OpenerInv, WriterInv, CloseInv, Closers, Ahead
<1>2. EarlyInv /\ JobsInv /\ RenameInv /\ DiskInv /\ OutcomeInv
  BY DEF EarlyInv, JobsInv, RenameInv, DiskInv, OutcomeInv
<1>3. RoomInv
  <2>1. Waiting = 0
    BY FS_EmptySet DEF Waiting
  <2>2. Sentinels = 2
    BY DEF Sentinels, Coming, Ahead, Closers, Aborts
  <2> QED  BY <2>1, <2>2 DEF RoomInv
<1> QED  BY <1>1, <1>1a, <1>2, <1>3 DEF IInv

LEMMA StutterStep ==
  ASSUME IInv, UNCHANGED vars
  PROVE  IInv'
<1> USE DEF vars, optVars, driverVars, queueVars, fieldVars, closeVars, writeVars, diskVars
<1>1. (TypeOK /\ OpenerInv /\ WriterInv /\ CloseInv)'
  BY DEF IInv, TypeOK, OpenerInv, WriterInv, CloseInv, Ahead
<1>2. (EarlyInv /\ JobsInv /\ RenameInv /\ DiskInv /\ OutcomeInv)'
  BY DEF IInv, EarlyInv, JobsInv, InQueue, RenameInv, DiskInv, OutcomeInv, Keep
<1>3. RoomInv'
  BY DEF IInv, RoomInv, Waiting, Sentinels, Coming, Ahead
<1> QED  BY <1>1, <1>2, <1>3 DEF IInv

LEMMA NextIInv == IInv /\ [Next]_vars => IInv'
<1> SUFFICES ASSUME IInv, [Next]_vars PROVE IInv'
  OBVIOUS
<1>1. CASE Opener \/ Open \/ OpenReturns \/ OpenRaises
  BY <1>1, OpeningStep DEF Opener
<1>2. CASE Submit \/ BodyRaises \/ NoteWorkerWrite \/ Commit \/ Put
  BY <1>2, SubmitStep, BodyStep, PutStep
<1>3. CASE Writer
  BY <1>3, TakesStep, WritingStep DEF Writer
<1>4. CASE Sender \/ CloseWriter \/ CloseSent \/ CloseJoined
  BY <1>4, SenderPutsStep, ClosingStep DEF Sender
<1>5. CASE CommitAfterClose \/ Rename \/ CommitAfterRename
  BY <1>5, CommittingStep
<1>6. CASE AbortReturns \/ Leftover \/ Reported
  BY <1>6, AbortingStep
<1>7. CASE Cancel
  BY <1>7, CancellingStep DEF Cancel
<1>8. CASE UNCHANGED vars \/ Finished
  BY <1>8, StutterStep DEF Finished
<1> QED  BY <1>1, <1>2, <1>3, <1>4, <1>5, <1>6, <1>7, <1>8 DEF Next, Driver

-----------------------------------------------------------------------------
(* The theorems *)

\* The invariant holds in every reachable state, whatever is cancelled or fails.
THEOREM SinkInductive == Spec => []IInv
  BY InitIInv, NextIInv, PTL DEF Spec

\* A commit that returns has every write in the file, where the caller asked for it, and a staged
\* destination is only ever replaced by such a file, also when a cancel overtook the commit.
THEOREM ExportedIsWhole == Spec => []FileIsWhole
<1>1. IInv => FileIsWhole
  <2> SUFFICES ASSUME IInv PROVE FileIsWhole
    OBVIOUS
  <2>1. CommitIsComplete
    <3> SUFFICES ASSUME call = "ok"
                 PROVE  applied = Jobs /\ ~error /\ IF staged THEN dst = "new" /\ file = "absent" ELSE file = "ours"
      BY DEF CommitIsComplete
    <3>1. applied = Jobs /\ ~error /\ (staged => dst = "new") /\ (dst = "new" => file = "absent" /\ staged)
      BY DEF IInv, RenameInv
    <3>2. created /\ (file = "ours" \/ dst = "new")
      BY DEF IInv, OpenerInv, DiskInv
    <3> QED  BY <3>1, <3>2
  <2>2. DestinationIsWhole
    BY DEF IInv, RenameInv, DestinationIsWhole
  <2> QED  BY <2>1, <2>2 DEF FileIsWhole, IInv
<1> QED  BY <1>1, SinkInductive, PTL

\* When the writer's queue has room for more than the writes awaited at once (8 and 4 in the code),
\* an abort's answer describes what is at the path, no writer runs once it was given, and no
\* thread waits for room in the queue of a writer that is gone.
THEOREM AbortsTell ==
  ASSUME Readers < QueueSize
  PROVE  Spec => []AbortsAreTrue
<1>1. IInv => AbortsAreTrue
  <2> SUFFICES ASSUME IInv PROVE AbortsAreTrue
    OBVIOUS
  <2>1. dst # "new" => OutcomeIsTrue
    BY DEF IInv, OutcomeInv, DiskInv, OutcomeIsTrue
  <2>2. WriterStopped
    BY DEF IInv, OutcomeInv, WriterInv, WriterStopped
  <2>3. NobodyStranded
    <3> SUFFICES ASSUME writer = "exited", put \cup strays # {} \/ \E k \in Closers : sender[k] = "put"
                 PROVE  HasRoom
      BY DEF NobodyStranded
    <3>1. Len(queue) + Waiting + Sentinels <= Readers + 1
      BY DEF IInv, RoomInv
    <3>2. Waiting \in Nat /\ Sentinels \in Nat /\ Len(queue) \in Nat /\ Readers \in Nat /\ QueueSize \in Nat
      BY CountTypes, LocalFileSinkAssumption, LenProperties DEF IInv, TypeOK
    <3>3. Waiting + Sentinels >= 1
      <4>1. CASE put \cup strays # {}
        <5>1. Waiting # 0
          BY <4>1, CountTypes, FS_EmptySet DEF Waiting
        <5> QED  BY <3>2, <5>1
      <4>2. CASE \E k \in Closers : sender[k] = "put"
        <5>1. Sentinels >= 1
          BY <4>2 DEF Sentinels, Coming, Closers, Aborts
        <5> QED  BY <3>2, <5>1
      <4> QED  BY <4>1, <4>2
    <3> QED  BY <3>1, <3>2, <3>3 DEF HasRoom
  <2> QED  BY <2>1, <2>2, <2>3 DEF AbortsAreTrue
<1> QED  BY <1>1, SinkInductive, PTL
=============================================================================
