----------------------- MODULE BufferedExportSinkProofs -----------------------
(***************************************************************************)
(* Proofs about BufferedExportSink for every number of segments and of     *)
(* slots: what the pool promises its segments, what an abort promises its  *)
(* callers, and that the sink implements LinearExport.                     *)
(***************************************************************************)
EXTENDS BufferedExportSink, TLAPS, SequenceTheorems

-----------------------------------------------------------------------------
(* The inductive invariant *)

\* A thread may still write to the slot of the segment handed out last.
Filling == xpc \in {"write", "writing"} \/ pend # 0

\* The flush loop holds a segment.
InFlush == fpc \in {"flush", "clear"}

\* The exporter fills segments.
InBody == xpc \in {"body", "slot", "write", "writing"}

\* The abort task is past its test for a finalize in progress.
AbortPast == apc \in {"flusher", "pool", "discard", "done"}

\* The segments whose slot nobody else may have: the ones whose bytes must survive, the one
\* being cleared, and one a thread was left writing to when the exporter was interrupted.
Live == {s \in Segs : \/ s = next - 1 /\ Filling
                      \/ \E i \in 1..Len(queue) : queue[i] = s
                      \/ s = fseg /\ InFlush}

\* Where the tasks are tells what the flags say, whoever aborts and whenever.
Control ==
    /\ aborting <=> AbortPast
    /\ aborting => state \in {"aborted", "committed"}
    /\ xpc = "start" => next = 1 /\ pool = "none" /\ pend = 0 /\ state \in {"new", "aborted"}
    /\ state = "new" => xpc \in {"start", "pool", "create", "abort", "raised"}
    /\ state = "open" => xpc \in {"body", "slot", "write", "writing", "flusher", "finalize",
                                  "abort", "raised"}
    /\ fpc = "none" => /\ queue = <<>> /\ next = 1 /\ pend = 0 /\ finalizing = "none"
                       /\ flushed = <<>> /\ dirty = {}
                       /\ state \in {"new", "aborted"}
                       /\ xpc \in {"start", "pool", "poolfail", "create", "abort", "raised"}
    /\ fpc # "none" => state # "new" /\ xpc \notin {"start", "pool", "poolfail", "create"}
    /\ fpc = "dead" => failure
    /\ fpc = "flush" => ~failure
    /\ InFlush => fseg \in Segs
    /\ xpc = "slot" => next <= NumSegs
    /\ xpc \in {"write", "writing"} => next >= 2
    /\ xpc = "writing" => pend # 0
    /\ pend # 0 => /\ xpc \in {"writing", "abort", "raised"} /\ next >= 2
                   /\ pend = slot[next - 1] /\ next - 1 \in touched
    /\ xpc = "finalize" => finalizing # "none"
    /\ xpc \in {"close", "ok"} => finalizing = "done"
    /\ finalizing # "none" => fpc = "done" /\ xpc \in {"finalize", "close", "ok", "abort", "raised"}
    /\ finalizing = "running" => state = "open"
    /\ finalizing = "done" <=> state = "committed"
    /\ apc = "finalizing" => finalizing # "none"
    /\ xpc \in {"abort", "raised"} => apc # "none"

\* When the pool's storage is there.
PoolPhases ==
    /\ pool = "creating" => xpc \in {"pool", "poolfail", "abort", "raised"}
    /\ apc \in {"discard", "done"} \/ xpc = "ok" => pool \in {"none", "closed", "cleaned"}
    /\ pool \in {"closed", "cleaned"} => /\ pend = 0
                                         /\ state \notin {"new", "open"}

\* What an abort knows of the export it stops.
AbortKnows ==
    /\ AbortPast => (was = "committed" <=> state = "committed")
    /\ apc \in {"pool", "discard", "done"} => fpc \in {"none", "done", "dead"}
    /\ apc = "discard" => was # "committed" /\ creating
    /\ outcome = "released" => apc = "done" /\ was # "committed"

\* What the destination is at each phase.
DestPhases ==
    /\ ~creating => dest = "absent" /\ xpc # "create" /\ fpc = "none"
    /\ fpc \in {"get", "flush", "clear"} => dest = "live"
    /\ state = "open" => dest = "live"
    /\ dest = "final" <=> state = "committed"

\* Segments are queued and flushed in order, and the queue ends with the stop marks.
Ordered ==
    /\ \A i, j \in 1..Len(queue) :
          i < j /\ queue[j] # Stop => queue[i] # Stop /\ queue[i] < queue[j]
    /\ \A i \in 1..Len(queue) :
          queue[i] # Stop => /\ queue[i] <= next - 1
                             /\ Filling => queue[i] < next - 1
                             /\ InFlush => fseg < queue[i]
    /\ InFlush => fseg <= next - 1 /\ (Filling => fseg < next - 1)

\* The segments the flush loop took from the queue, as long as all is well.
Got == Len(flushed) + (IF fpc = "flush" THEN 1 ELSE 0)

\* As long as nothing failed and nobody aborts, no segment is missing between the ones the
\* destination has, the one in a flush, the queue and the exporter.
NothingMissing ==
    /\ fpc = "flush" => fseg = Len(flushed) + 1
    /\ ~failure /\ ~aborting =>
        /\ \A i \in 1..Len(queue) : queue[i] # Stop => queue[i] = Got + i
        /\ InBody => /\ fpc \in {"get", "flush", "clear"}
                     /\ \A i \in 1..Len(queue) : queue[i] # Stop
                     /\ Got + Len(queue) = next - (IF Filling THEN 2 ELSE 1)
        /\ xpc = "flusher" => IF fpc = "done" THEN Len(flushed) = NumSegs
                              ELSE /\ Len(queue) > 0 /\ Got + Len(queue) = NumSegs + 1
                                   /\ \A i \in 1..Len(queue) : queue[i] = Stop <=> i = Len(queue)
    /\ finalizing # "none" => Len(flushed) = NumSegs

\* Every live segment has a slot of its own that is not free, and a slot is free once.
SlotsApart ==
    /\ \A s \in Live : slot[s] # 0
    /\ \A s, t \in Live : slot[s] = slot[t] => s = t
    /\ \A s \in Live, i \in 1..Len(free) : free[i] # slot[s]
    /\ \A i, j \in 1..Len(free) : free[i] = free[j] => i = j

\* What is not written reads as zero, free slots included while they may be handed out.
ZeroKept ==
    /\ \A s \in Live : s \notin touched => slot[s] \notin dirty
    /\ ~failure /\ ~aborting => \A i \in 1..Len(free) : free[i] \notin dirty
    /\ \A s \in touched : s < next

\* What the queue, the free list and the slots hold.
QueueInv == Ordered /\ NothingMissing /\ SlotsApart /\ ZeroKept

IInv == TypeOK /\ Control /\ PoolPhases /\ AbortKnows /\ DestPhases /\ QueueInv

-----------------------------------------------------------------------------
(* The steps, by the part of the code they belong to *)

OpenSteps == \/ OpenStarts \/ PoolThreadEnds \/ OpenCreates \/ OpenPoolFails \/ OpenPoolClosed
             \/ OpenEnds \/ OpenCreateFails

BodySteps == \/ BeginSegment \/ BeginWakes \/ WriteStarts \/ WriteEnds \/ Complete
             \/ ExporterInterrupted

CommitSteps == \/ CommitStarts \/ CommitFinalizes \/ FinalizeOk \/ FinalizeFails \/ CommitCloses
               \/ CommitReturns

FlushSteps == FlushGets \/ FlushOk \/ FlushFails \/ FlushDies \/ ClearEnds

AbortSteps == \/ OutsideAbort \/ AbortBegins \/ AbortAfterFinalize \/ AbortAfterFlusher
              \/ AbortClosesPool \/ AbortDiscards \/ ExporterEnds

LEMMA NextSteps ==
  [Next]_vars => OpenSteps \/ BodySteps \/ CommitSteps \/ FlushSteps \/ AbortSteps \/ UNCHANGED vars
  BY DEF Next, OpenSteps, BodySteps, CommitSteps, FlushSteps, AbortSteps, Finished

-----------------------------------------------------------------------------
(* Type correctness *)

\* The parts of TypeOK: flags, positions of the tasks, sequences, and what counts segments.
FlagTypes == /\ failure \in BOOLEAN /\ aborting \in BOOLEAN /\ creating \in BOOLEAN
             /\ ever \in BOOLEAN /\ notified \in BOOLEAN

PlaceTypes ==
    /\ state \in {"new", "open", "committed", "aborted"}
    /\ pool \in {"none", "creating", "ready", "failed", "closed", "cleaned"}
    /\ xpc \in {"start", "pool", "poolfail", "create", "body", "slot", "write", "writing",
                "flusher", "finalize", "close", "abort", "ok", "raised"}
    /\ fpc \in {"none", "get", "flush", "clear", "done", "dead"}
    /\ finalizing \in {"none", "running", "done", "failed"}
    /\ apc \in {"none", "scheduled", "finalizing", "flusher", "pool", "discard", "done"}
    /\ was \in {"none", "new", "open", "committed", "aborted"}
    /\ outcome \in {"none", "kept", "released"}
    /\ dest \in {"absent", "live", "final", "discarded", "partial"}

SeqTypes == queue \in Seq(Segs \cup {Stop}) /\ free \in Seq(Slots) /\ flushed \in Seq(Segs)

SlotTypes == /\ pend \in Slots \cup {0} /\ dirty \subseteq Slots
             /\ next \in 1..(NumSegs + 1) /\ slot \in [Segs -> Slots \cup {0}]
             /\ touched \subseteq Segs /\ fseg \in Segs \cup {0}

LEMMA TypeParts == TypeOK <=> FlagTypes /\ PlaceTypes /\ SeqTypes /\ SlotTypes
  BY DEF TypeOK, FlagTypes, PlaceTypes, SeqTypes, SlotTypes

LEMMA TypePartsNext == FlagTypes' /\ PlaceTypes' /\ SeqTypes' /\ SlotTypes' => TypeOK'
  BY DEF TypeOK, FlagTypes, PlaceTypes, SeqTypes, SlotTypes

LEMMA NumSlotsNat == NumSlots \in Nat \ {0} /\ NumSegs \in Nat
  BY SinkAssumption DEF NumSlots

\* What Append and Tail leave of a sequence.
LEMMA SeqAppend ==
  ASSUME NEW S, NEW q \in Seq(S), NEW e \in S
  PROVE  /\ Append(q, e) \in Seq(S) /\ Len(Append(q, e)) = Len(q) + 1 /\ Len(q) \in Nat
         /\ Append(q, e)[Len(q) + 1] = e
         /\ \A i \in 1..Len(q) : Append(q, e)[i] = q[i]
  BY AppendProperties

LEMMA SeqTail ==
  ASSUME NEW S, NEW q \in Seq(S), q # <<>>
  PROVE  /\ Tail(q) \in Seq(S) /\ Len(Tail(q)) = Len(q) - 1 /\ Len(q) \in Nat \ {0}
         /\ q[1] \in S
         /\ \A i \in 1..Len(Tail(q)) : Tail(q)[i] = q[i + 1]
  BY HeadTailProperties, EmptySeq, LenProperties

\* The segment that leaves the queue and the one the flush loop holds have a slot.
LEMMA FlushedHasSlot ==
  ASSUME IInv
  PROVE  /\ InFlush => fseg \in Segs /\ fseg \in Live /\ slot[fseg] \in Slots
         /\ queue # <<>> /\ queue[1] # Stop =>
               queue[1] \in Segs /\ queue[1] \in Live /\ slot[queue[1]] \in Slots
<1>1. InFlush => fseg \in Segs /\ fseg \in Live
  BY DEF IInv, Control, Live
<1>2. ASSUME queue # <<>>, queue[1] # Stop
      PROVE  queue[1] \in Segs /\ queue[1] \in Live
  <2>1. queue \in Seq(Segs \cup {Stop})
    BY DEF IInv, TypeOK
  <2>2. Len(queue) \in Nat \ {0} /\ queue[1] \in Segs \cup {Stop}
    BY <1>2, <2>1, SeqTail
  <2> QED  BY <1>2, <2>2 DEF Live
<1>3. \A s \in Live : slot[s] \in Slots
  BY DEF IInv, QueueInv, SlotsApart, TypeOK, Live
<1> QED  BY <1>1, <1>2, <1>3

\* A slot given back, or none: what _free does to the free list.
LEMMA FreeSegmentTypes ==
  ASSUME IInv, NEW s \in Segs, slot[s] \in Slots, NEW f, FreeSegment(s, f)
  PROVE  free' \in Seq(Slots)
<1>1. free \in Seq(Slots)
  BY DEF IInv, TypeOK
<1>2. Append(free, slot[s]) \in Seq(Slots)
  BY <1>1, SeqAppend
<1> QED  BY <1>1, <1>2 DEF FreeSegment, poolVars

-----------------------------------------------------------------------------
(* What keeps the sequences and the slots in order *)

\* Nothing is queued, handed out or taken by the flush loop.
LEMMA OrderedKept ==
  ASSUME IInv, UNCHANGED <<queue, next>>, Filling' => Filling,
         InFlush' => InFlush /\ fseg' = fseg
  PROVE  Ordered'
  BY DEF IInv, QueueInv, Ordered

\* A stop mark is queued.
LEMMA OrderedStop ==
  ASSUME IInv, queue' = Append(queue, Stop), next' = next, Filling' => Filling,
         InFlush' => InFlush /\ fseg' = fseg
  PROVE  Ordered'
<1>1. queue \in Seq(Segs \cup {Stop})
  BY DEF IInv, TypeOK
<1>2. /\ Len(queue') = Len(queue) + 1 /\ Len(queue) \in Nat /\ queue'[Len(queue) + 1] = Stop
      /\ \A i \in 1..Len(queue) : queue'[i] = queue[i]
  BY <1>1, SeqAppend
<1> QED  BY <1>2 DEF IInv, QueueInv, Ordered

\* No further segment becomes live and no slot moves.
LEMMA ApartKept ==
  ASSUME IInv, UNCHANGED <<free, slot>>, Live' \subseteq Live
  PROVE  SlotsApart'
  BY DEF IInv, QueueInv, SlotsApart

\* A segment that is live no longer gives its slot back.
LEMMA ApartGiven ==
  ASSUME IInv, NEW s \in Live, Live' \subseteq Live \ {s}, slot' = slot,
         free' = Append(free, slot[s])
  PROVE  SlotsApart'
<1>1. free \in Seq(Slots) /\ slot[s] \in Slots
  BY DEF IInv, QueueInv, TypeOK, SlotsApart, Live
<1>2. /\ Len(free') = Len(free) + 1 /\ Len(free) \in Nat /\ free'[Len(free) + 1] = slot[s]
      /\ \A i \in 1..Len(free) : free'[i] = free[i]
  BY <1>1, SeqAppend
<1>3. \A i \in 1..Len(free') : i = Len(free) + 1 \/ i \in 1..Len(free)
  BY <1>2
<1>4. \A t \in Live', i \in 1..Len(free') : free'[i] # slot'[t]
  BY <1>2, <1>3 DEF IInv, QueueInv, SlotsApart
<1>5. \A i, j \in 1..Len(free') : free'[i] = free'[j] => i = j
  BY <1>2, <1>3 DEF IInv, QueueInv, SlotsApart
<1> QED  BY <1>4, <1>5 DEF IInv, QueueInv, SlotsApart

\* The segment begin_segment was called for is not live, and takes the first free slot.
LEMMA ApartTaken ==
  ASSUME IInv, free # <<>>, free' = Tail(free), slot' = [slot EXCEPT ![next] = free[1]],
         next \in Segs, next \notin Live, Live' \subseteq Live \cup {next}
  PROVE  SlotsApart'
<1>1. free \in Seq(Slots) /\ slot \in [Segs -> Slots \cup {0}]
  BY DEF IInv, TypeOK
<1>2. /\ Len(free') = Len(free) - 1 /\ Len(free) \in Nat \ {0} /\ free[1] \in Slots
      /\ \A i \in 1..Len(free') : free'[i] = free[i + 1]
  BY <1>1, SeqTail
<1>3. slot'[next] = free[1] /\ \A s \in Live : s \in Segs /\ slot'[s] = slot[s]
  BY <1>1 DEF Live
<1>4. \A s \in Live : slot[s] # free[1]
  BY <1>2 DEF IInv, QueueInv, SlotsApart
<1>5. \A i \in 1..Len(free') : i + 1 \in 1..Len(free) /\ 1 \in 1..Len(free) /\ i + 1 # 1
  BY <1>2
<1>6. \A i \in 1..Len(free') : free'[i] # free[1]
  BY <1>2, <1>5 DEF IInv, QueueInv, SlotsApart
<1>7. \A s \in Live' : slot'[s] # 0
  BY <1>2, <1>3, NumSlotsNat DEF IInv, QueueInv, SlotsApart, Slots
<1>8. \A s, t \in Live' : slot'[s] = slot'[t] => s = t
  BY <1>3, <1>4 DEF IInv, QueueInv, SlotsApart
<1>9. \A s \in Live', i \in 1..Len(free') : free'[i] # slot'[s]
  BY <1>2, <1>3, <1>5, <1>6 DEF IInv, QueueInv, SlotsApart
<1>10. \A i, j \in 1..Len(free') : free'[i] = free'[j] => i = j
  <2> SUFFICES ASSUME NEW i \in 1..Len(free'), NEW j \in 1..Len(free'), free'[i] = free'[j]
               PROVE  i = j
    OBVIOUS
  <2>1. i + 1 = j + 1
    BY <1>2, <1>5 DEF IInv, QueueInv, SlotsApart
  <2> QED  BY <1>2, <2>1
<1> QED  BY <1>7, <1>8, <1>9, <1>10 DEF SlotsApart

LEMMA SeqTypesStep == ASSUME IInv, Next PROVE SeqTypes'
<1> USE DEF SeqTypes
<1>t. /\ queue \in Seq(Segs \cup {Stop}) /\ free \in Seq(Slots) /\ flushed \in Seq(Segs)
      /\ next \in 1..(NumSegs + 1)
  BY DEF IInv, TypeOK
<1>1. CASE OpenStarts
  <2>1. [i \in Slots |-> i] \in Seq(Slots)
    BY NumSlotsNat DEF Slots
  <2> QED  BY <1>1, <1>t, <2>1 DEF OpenStarts, poolVars, coreVars, destVars
<1>2. CASE BeginSegment \/ BeginWakes
  <2>1. queue' = queue /\ flushed' = flushed
    BY <1>2 DEF BeginSegment, BeginWakes, coreVars, destVars
  <2>2. free' = free \/ (free # <<>> /\ free' = Tail(free))
    BY <1>2 DEF BeginSegment, BeginWakes, BeginOrRaise, TakeSlot, MayBegin, poolVars, IInv, Control
  <2>3. free # <<>> => Tail(free) \in Seq(Slots)
    BY <1>t, SeqTail
  <2> QED  BY <1>t, <2>1, <2>2, <2>3
<1>3. CASE Complete
  <2>1. free' = free /\ flushed' = flushed /\ queue' \in {queue, Append(queue, next - 1)}
    BY <1>3 DEF Complete, poolVars, destVars
  <2>2. next - 1 \in Segs \cup {Stop}
    BY <1>t, NumSlotsNat DEF Segs, Stop
  <2>3. Append(queue, next - 1) \in Seq(Segs \cup {Stop})
    BY <1>t, <2>2, SeqAppend
  <2> QED  BY <1>t, <2>1, <2>3
<1>4. CASE CommitStarts \/ AbortBegins \/ AbortAfterFinalize
  <2>1. free' = free /\ flushed' = flushed /\ queue' \in {queue, Append(queue, Stop)}
    BY <1>4 DEF CommitStarts, AbortBegins, AbortAfterFinalize, AbortStops, poolVars, destVars,
                coreVars
  <2>2. Append(queue, Stop) \in Seq(Segs \cup {Stop})
    BY <1>t, SeqAppend
  <2> QED  BY <1>t, <2>1, <2>2
<1>5. CASE FlushGets
  <2>1. flushed' = flushed /\ queue # <<>> /\ queue' = Tail(queue)
    BY <1>5 DEF FlushGets, destVars
  <2>2. free' = free \/ (queue[1] # Stop /\ FreeSegment(queue[1], failure))
    BY <1>5 DEF FlushGets, poolVars
  <2>3. free' \in Seq(Slots)
    BY <1>t, <2>1, <2>2, FlushedHasSlot, FreeSegmentTypes
  <2> QED  BY <1>t, <2>1, <2>3, SeqTail
<1>6. CASE FlushOk
  <2>1. queue' = queue /\ flushed' = Append(flushed, fseg) /\ FreeSegment(fseg, failure) /\ InFlush
    BY <1>6 DEF FlushOk, InFlush
  <2> QED  BY <1>t, <2>1, FlushedHasSlot, FreeSegmentTypes, SeqAppend
<1>7. CASE FlushFails
  <2>1. queue' = queue /\ flushed' = flushed /\ FreeSegment(fseg, TRUE) /\ InFlush
    BY <1>7 DEF FlushFails, InFlush, destVars
  <2> QED  BY <1>t, <2>1, FlushedHasSlot, FreeSegmentTypes
<1>8. CASE FlushDies \/ ClearEnds
  <2>1. queue' = queue /\ flushed' = flushed /\ free' \in {free, Append(free, slot[fseg])} /\ InFlush
    BY <1>8 DEF FlushDies, ClearEnds, InFlush, destVars
  <2>2. Append(free, slot[fseg]) \in Seq(Slots)
    BY <1>t, <2>1, FlushedHasSlot, SeqAppend
  <2> QED  BY <1>t, <2>1, <2>2
<1>9. CASE \/ PoolThreadEnds \/ OpenCreates \/ OpenPoolFails \/ OpenPoolClosed \/ OpenEnds
           \/ OpenCreateFails \/ WriteStarts \/ WriteEnds \/ ExporterInterrupted
           \/ CommitFinalizes \/ FinalizeOk \/ FinalizeFails \/ CommitCloses \/ CommitReturns
           \/ OutsideAbort \/ AbortAfterFlusher \/ AbortClosesPool \/ AbortDiscards
           \/ ExporterEnds \/ Finished
  <2>1. UNCHANGED <<queue, free, flushed>>
    BY <1>9 DEF PoolThreadEnds, OpenCreates, OpenPoolFails, OpenPoolClosed, OpenEnds,
           OpenCreateFails, WriteStarts, WriteEnds, ExporterInterrupted, CommitFinalizes,
           FinalizeOk, FinalizeFails, CommitCloses, CommitReturns, OutsideAbort,
           AbortAfterFlusher, AbortClosesPool, AbortDiscards, ExporterEnds, Finished,
           vars, coreVars, poolVars, destVars
  <2> QED  BY <1>t, <2>1
<1> QED
  BY <1>1, <1>2, <1>3, <1>4, <1>5, <1>6, <1>7, <1>8, <1>9 DEF Next
-----------------------------------------------------------------------------
(* The queue and the slots, step by step *)

\* A step that neither moves a segment nor a slot.
LEMMA Quiet ==
  ASSUME IInv, UNCHANGED <<queue, next, free, slot, flushed, failure>>,
         Filling' => Filling, InFlush' => InFlush /\ fseg' = fseg, fpc' = "flush" <=> fpc = "flush",
         dirty' = dirty, touched \subseteq touched', \A s \in touched' : s < next,
         aborting => aborting',
         ~aborting' => fpc' = fpc /\ (xpc' = "flusher" => xpc = "flusher")
                       /\ (InBody' => InBody /\ (Filling' <=> Filling)),
         finalizing' # "none" => finalizing # "none" \/ Len(flushed) = NumSegs
  PROVE  QueueInv'
<1>1. Ordered'
  BY OrderedKept
<1>2. Live' \subseteq Live
  BY DEF Live
<1>3. SlotsApart'
  BY <1>2, ApartKept
<1>4. ZeroKept'
  BY <1>2 DEF IInv, QueueInv, ZeroKept
<1>5. NothingMissing'
  <2>1. Got' = Got
    BY DEF Got
  <2>2. fpc' = "flush" => fseg' = Len(flushed') + 1
    BY DEF IInv, QueueInv, NothingMissing, InFlush
  <2> QED  BY <2>1, <2>2 DEF IInv, QueueInv, NothingMissing
<1> QED  BY <1>1, <1>3, <1>4, <1>5 DEF QueueInv

\* begin_segment hands a slot to the next segment.
LEMMA SegmentTaken ==
  ASSUME IInv, state = "open", ~failure, xpc \in {"body", "slot"}, next <= NumSegs, free # <<>>,
         TakeSlot, UNCHANGED <<coreVars, flusherVars, destVars>>
  PROVE  QueueInv'
<1>0. /\ next \in Nat \ {0} /\ next \in Segs /\ queue \in Seq(Segs \cup {Stop}) /\ fseg \in Segs \cup {0}
      /\ slot \in [Segs -> Slots \cup {0}] /\ free \in Seq(Slots)
  BY NumSlotsNat DEF IInv, TypeOK, Segs
<1>1. /\ next' = next + 1 /\ slot' = [slot EXCEPT ![next] = free[1]] /\ free' = Tail(free)
      /\ xpc' = "write" /\ Filling' /\ pend' = 0 /\ ~aborting
      /\ UNCHANGED <<queue, fpc, fseg, flushed, finalizing, touched, dirty, failure, aborting>>
  BY DEF TakeSlot, coreVars, flusherVars, destVars, Filling, IInv, Control
<1>2. Ordered'
  <2>1. \A i \in 1..Len(queue) : queue[i] \in Int
    BY <1>0, NumSlotsNat, ElementOfSeq DEF Segs, Stop
  <2>2. fseg \in Int
    BY <1>0, NumSlotsNat DEF Segs
  <2> QED  BY <1>0, <1>1, <2>1, <2>2 DEF IInv, QueueInv, Ordered, InFlush
<1>3. next \notin Live
  <2>1. ~Filling
    BY DEF Filling, IInv, Control
  <2> QED  BY <1>0, <2>1 DEF Live, IInv, QueueInv, Ordered, Segs, Stop
<1>4. Live' \subseteq Live \cup {next}
  BY <1>0, <1>1 DEF Live, InFlush
<1>5. SlotsApart'
  BY <1>0, <1>1, <1>3, <1>4, ApartTaken
<1>6. ZeroKept'
  <2>1. /\ \A i \in 1..Len(free) : free[i] \notin dirty
        /\ \A s \in Live : s \notin touched => slot[s] \notin dirty
        /\ \A s \in touched : s < next
    BY <1>1 DEF IInv, QueueInv, ZeroKept
  <2>2. /\ Len(free') = Len(free) - 1 /\ Len(free) \in Nat \ {0}
        /\ \A i \in 1..Len(free') : free'[i] = free[i + 1]
    BY <1>0, <1>1, SeqTail
  <2>3. slot'[next] = free[1] /\ \A s \in Live : s # next /\ slot'[s] = slot[s]
    BY <1>0, <1>1, <1>3 DEF Live
  <2>4. \A i \in 1..Len(free') : free'[i] \notin dirty
    BY <2>1, <2>2
  <2>5. free[1] \notin dirty
    BY <2>1, <2>2
  <2>6. \A s \in touched : s \in Int
    BY NumSlotsNat DEF IInv, TypeOK, Segs
  <2> QED  BY <1>0, <1>1, <1>4, <2>1, <2>3, <2>4, <2>5, <2>6 DEF ZeroKept
<1>7. NothingMissing'
  <2>1. Got' = Got /\ ~Filling /\ Filling'
    BY <1>1 DEF Got, Filling, IInv, Control
  <2> QED  BY <1>0, <1>1, <2>1 DEF IInv, QueueInv, NothingMissing, InBody
<1> QED  BY <1>2, <1>5, <1>6, <1>7 DEF QueueInv

\* Segments are numbers.
LEMMA Numbers ==
  ASSUME IInv
  PROVE  /\ next \in Nat \ {0} /\ fseg \in Nat /\ Len(queue) \in Nat /\ Len(flushed) \in Nat
         /\ queue \in Seq(Segs \cup {Stop}) /\ free \in Seq(Slots) /\ flushed \in Seq(Segs)
         /\ \A i \in 1..Len(queue) : queue[i] \in Nat
<1>1. next \in Nat \ {0} /\ fseg \in Nat
  BY NumSlotsNat DEF IInv, TypeOK, Segs
<1>2. queue \in Seq(Segs \cup {Stop}) /\ free \in Seq(Slots) /\ flushed \in Seq(Segs)
  BY DEF IInv, TypeOK
<1>3. \A i \in 1..Len(queue) : queue[i] \in Nat
  BY <1>2, NumSlotsNat, ElementOfSeq DEF Segs, Stop
<1> QED  BY <1>1, <1>2, <1>3, LenProperties

\* complete() queues the segment that was filled.
LEMMA SegmentQueued ==
  ASSUME IInv, Complete, Writable
  PROVE  QueueInv'
<1>1. /\ queue' = Append(queue, next - 1) /\ xpc = "write" /\ xpc' = "body" /\ pend = 0 /\ pend' = 0
      /\ ~failure /\ ~aborting
      /\ UNCHANGED <<next, free, slot, fpc, fseg, flushed, finalizing, touched, dirty, failure,
                     aborting>>
  BY DEF Complete, Writable, poolVars, flusherVars, destVars, IInv, Control
<1>2. next - 1 \in Segs /\ Filling /\ ~Filling'
  BY <1>1, NumSlotsNat DEF Filling, IInv, Control, TypeOK, Segs
<1>3. /\ Len(queue') = Len(queue) + 1 /\ queue'[Len(queue) + 1] = next - 1
      /\ \A i \in 1..Len(queue) : queue'[i] = queue[i]
  BY <1>1, <1>2, Numbers, SeqAppend
<1>4. \A i \in 1..Len(queue') : i = Len(queue) + 1 \/ i \in 1..Len(queue)
  BY <1>3, Numbers
<1>5. /\ \A i \in 1..Len(queue) : queue[i] # Stop /\ queue[i] = Got + i
      /\ Got + Len(queue) = next - 2 /\ fpc \in {"get", "flush", "clear"} /\ Got \in Nat
  BY <1>1, <1>2, Numbers DEF IInv, QueueInv, NothingMissing, InBody, Got
<1>6. Ordered'
  BY <1>1, <1>2, <1>3, <1>4, <1>5, Numbers DEF IInv, QueueInv, Ordered, InFlush, Segs, Stop
<1>7. Live' \subseteq Live
  BY <1>1, <1>2, <1>3, <1>4 DEF Live, InFlush
<1>8. SlotsApart' /\ ZeroKept'
  BY <1>1, <1>7, ApartKept DEF IInv, QueueInv, ZeroKept
<1>9. NothingMissing'
  <2>1. Got' = Got
    BY <1>1 DEF Got
  <2>2. \A i \in 1..Len(queue') : queue'[i] # Stop /\ queue'[i] = Got + i
    <3>1. next - 1 = Got + (Len(queue) + 1) /\ next - 1 # Stop
      BY <1>2, <1>5, Numbers DEF Segs, Stop
    <3> QED  BY <1>3, <1>4, <1>5, <3>1
  <2>3. Got + Len(queue') = next - 1
    BY <1>3, <1>5, Numbers
  <2> QED  BY <1>1, <1>2, <1>5, <2>1, <2>2, <2>3 DEF IInv, QueueInv, NothingMissing, Got
<1> QED  BY <1>6, <1>8, <1>9 DEF QueueInv

\* commit() and abort() queue a stop mark.
LEMMA StopQueued ==
  ASSUME IInv, queue' = Append(queue, Stop), Filling' => Filling,
         UNCHANGED <<next, free, slot, fpc, fseg, flushed, failure, dirty, touched, finalizing>>,
         aborting => aborting',
         aborting' \/ (xpc = "body" /\ next > NumSegs /\ xpc' = "flusher" /\ state = "open")
  PROVE  QueueInv'
<1>1. Ordered'
  BY OrderedStop DEF InFlush
<1>2. /\ Len(queue') = Len(queue) + 1 /\ queue'[Len(queue) + 1] = Stop
      /\ \A i \in 1..Len(queue) : queue'[i] = queue[i]
  BY Numbers, SeqAppend
<1>3. \A i \in 1..Len(queue') : i = Len(queue) + 1 \/ i \in 1..Len(queue)
  BY <1>2, Numbers
<1>4. Live' \subseteq Live
  BY <1>2, <1>3 DEF Live, InFlush, Segs, Stop
<1>5. SlotsApart' /\ ZeroKept'
  BY <1>4, ApartKept DEF IInv, QueueInv, ZeroKept
<1>6. NothingMissing'
  <2>1. Got' = Got /\ Got \in Nat
    BY Numbers DEF Got
  <2>2. CASE aborting'
    BY <2>2 DEF IInv, QueueInv, NothingMissing
  <2>3. CASE ~aborting' /\ failure
    BY <2>3 DEF IInv, QueueInv, NothingMissing
  <2>4. CASE ~aborting' /\ ~failure
    <3>1. /\ \A i \in 1..Len(queue) : queue[i] # Stop /\ queue[i] = Got + i
          /\ Got + Len(queue) = next - 1 /\ fpc \in {"get", "flush", "clear"} /\ next = NumSegs + 1
      BY <2>4, NumSlotsNat DEF IInv, QueueInv, NothingMissing, InBody, Filling, Control, TypeOK
    <3>2. /\ Len(queue') > 0 /\ Got + Len(queue') = NumSegs + 1
          /\ \A i \in 1..Len(queue') : queue'[i] = Stop <=> i = Len(queue')
      <4>1. Len(queue) \in Nat /\ Got \in Nat /\ next \in Nat /\ NumSegs \in Nat
        BY <2>1, Numbers, NumSlotsNat
      <4>2. Len(queue') > 0 /\ Got + Len(queue') = NumSegs + 1
        BY <1>2, <3>1, <4>1
      <4> QED  BY <1>2, <1>3, <3>1, <4>1, <4>2
    <3>3. \A i \in 1..Len(queue') : queue'[i] # Stop => queue'[i] = Got + i
      BY <1>2, <1>3, <3>1
    <3> QED  BY <2>1, <2>4, <3>1, <3>2, <3>3 DEF IInv, QueueInv, NothingMissing, InBody
  <2> QED  BY <2>2, <2>3, <2>4
<1> QED  BY <1>1, <1>5, <1>6 DEF QueueInv

\* The thread that wrote to the segment being filled ends: its slot reads as written.
LEMMA WriteEndsQueue ==
  ASSUME IInv, WriteEnds
  PROVE  QueueInv'
<1>1. /\ UNCHANGED <<queue, next, free, slot, flushed, failure, touched, fpc, fseg, aborting,
                     finalizing>>
      /\ pend # 0 /\ pend' = 0 /\ dirty' = dirty \cup {pend}
      /\ xpc' = IF xpc = "writing" THEN "write" ELSE xpc
  BY DEF WriteEnds, coreVars, flusherVars, destVars
<1>2. /\ Filling /\ (InBody' => InBody /\ Filling') /\ (xpc' = "flusher" => xpc = "flusher")
      /\ next - 1 \in touched /\ next - 1 \in Live /\ pend = slot[next - 1]
  BY <1>1, NumSlotsNat DEF Filling, InBody, IInv, Control, TypeOK, Segs, Live
<1>3. Ordered'
  BY <1>1, <1>2, OrderedKept DEF InFlush
<1>4. Live' \subseteq Live
  BY <1>1, <1>2 DEF Live, InFlush
<1>5. SlotsApart'
  BY <1>1, <1>4, ApartKept
<1>6. ZeroKept'
  <2>1. \A s \in Live' : s \notin touched => slot[s] # pend
    BY <1>2, <1>4 DEF IInv, QueueInv, SlotsApart
  <2>2. \A k \in 1..Len(free) : free[k] # pend
    BY <1>2 DEF IInv, QueueInv, SlotsApart
  <2> QED  BY <1>1, <1>4, <2>1, <2>2 DEF IInv, QueueInv, ZeroKept
<1>7. NothingMissing'
  <2>1. Got' = Got
    BY <1>1 DEF Got
  <2> QED  BY <1>1, <1>2, <2>1 DEF IInv, QueueInv, NothingMissing
<1> QED  BY <1>3, <1>5, <1>6, <1>7 DEF QueueInv

\* A segment gives its slot back: zeroed, never written to, or with the export over.
LEMMA SlotGiven ==
  ASSUME IInv, NEW s \in Live, Live' \subseteq Live \ {s}, free' = Append(free, slot[s]),
         UNCHANGED <<slot, touched, next>>, dirty' \subseteq dirty,
         ~failure' /\ ~aborting' => ~failure /\ ~aborting /\ slot[s] \notin dirty'
  PROVE  SlotsApart' /\ ZeroKept'
<1>1. SlotsApart'
  BY ApartGiven
<1>2. slot[s] \in Slots
  BY DEF IInv, QueueInv, TypeOK, SlotsApart, Live
<1>3. /\ Len(free') = Len(free) + 1 /\ Len(free) \in Nat /\ free'[Len(free) + 1] = slot[s]
      /\ \A k \in 1..Len(free) : free'[k] = free[k]
  BY <1>2, Numbers, SeqAppend
<1>4. \A k \in 1..Len(free') : k = Len(free) + 1 \/ k \in 1..Len(free)
  BY <1>3
<1>5. ZeroKept'
  BY <1>3, <1>4 DEF IInv, QueueInv, ZeroKept
<1> QED  BY <1>1, <1>5

\* The flush loop is through with the segment it held, and gives its slot back.
LEMMA FlushGives ==
  ASSUME IInv, InFlush, free' = Append(free, slot[fseg]), fpc' \in {"get", "dead"},
         UNCHANGED <<queue, xpc, next, pend, slot, touched, aborting>>, dirty' \subseteq dirty,
         failure => failure', fpc' = "dead" => failure',
         ~failure' /\ ~aborting => slot[fseg] \notin dirty'
  PROVE  Ordered' /\ SlotsApart' /\ ZeroKept'
<1>1. Filling' = Filling /\ ~InFlush'
  BY DEF Filling, InFlush
<1>2. Ordered'
  BY <1>1, OrderedKept
<1>3. fseg \in Live
  BY FlushedHasSlot
<1>4. fseg \notin Live'
  BY <1>1, Numbers DEF Live, IInv, QueueInv, Ordered, Control, Segs, Stop
<1>5. Live' \subseteq Live
  BY <1>1 DEF Live
<1> QED  BY <1>2, <1>3, <1>4, <1>5, SlotGiven

LEMMA FlushEndsQueue ==
  ASSUME IInv, FlushOk \/ FlushFails \/ FlushDies \/ ClearEnds
  PROVE  QueueInv'
<1> USE DEF coreVars, poolVars, exporterVars, abortVars, destVars
<1>1. CASE FlushOk /\ fpc' = "clear"
  <2>1. /\ UNCHANGED <<queue, xpc, next, free, slot, dirty, touched, pend, failure, aborting,
                       finalizing>>
        /\ fpc = "flush" /\ fseg' = fseg /\ flushed' = Append(flushed, fseg)
    BY <1>1 DEF FlushOk, FreeSegment
  <2>2. Filling' = Filling /\ InBody' = InBody /\ InFlush' = InFlush /\ InFlush
    BY <1>1, <2>1 DEF Filling, InBody, InFlush
  <2>3. Ordered'
    BY <2>1, <2>2, OrderedKept
  <2>4. Live' \subseteq Live
    BY <2>1, <2>2 DEF Live
  <2>5. SlotsApart' /\ ZeroKept'
    BY <2>1, <2>4, ApartKept DEF IInv, QueueInv, ZeroKept
  <2>6. NothingMissing'
    <3>1. Len(flushed') = Len(flushed) + 1 /\ Got' = Got
      BY <1>1, <2>1, <2>2, Numbers, FlushedHasSlot, SeqAppend DEF Got
    <3>2. finalizing = "none" /\ fpc # "done"
      BY <2>1 DEF IInv, Control
    <3> QED  BY <1>1, <2>1, <2>2, <3>1, <3>2 DEF IInv, QueueInv, NothingMissing
  <2> QED  BY <2>3, <2>5, <2>6 DEF QueueInv
<1>2. CASE FlushOk /\ fpc' # "clear"
  <2>1. /\ UNCHANGED <<queue, xpc, next, slot, dirty, touched, pend, failure, aborting,
                       finalizing>>
        /\ fpc = "flush" /\ fpc' = "get" /\ flushed' = Append(flushed, fseg)
        /\ free' = Append(free, slot[fseg]) /\ (failure \/ aborting \/ fseg \notin touched)
    BY <1>2 DEF FlushOk, FreeSegment
  <2>2. Filling' = Filling /\ InBody' = InBody /\ InFlush
    BY <2>1 DEF Filling, InBody, InFlush
  <2>3. ~failure /\ ~aborting => slot[fseg] \notin dirty
    BY <2>1, <2>2, FlushedHasSlot DEF IInv, QueueInv, ZeroKept
  <2>4. Ordered' /\ SlotsApart' /\ ZeroKept'
    BY <2>1, <2>2, <2>3, FlushGives
  <2>5. NothingMissing'
    <3>1. Len(flushed') = Len(flushed) + 1 /\ Got' = Got
      BY <2>1, <2>2, Numbers, FlushedHasSlot, SeqAppend DEF Got
    <3>2. finalizing = "none" /\ fpc # "done"
      BY <2>1 DEF IInv, Control
    <3> QED  BY <2>1, <2>2, <3>1, <3>2 DEF IInv, QueueInv, NothingMissing
  <2> QED  BY <2>4, <2>5 DEF QueueInv
<1>3. CASE FlushFails \/ FlushDies
  <2>1. /\ UNCHANGED <<queue, xpc, next, slot, dirty, touched, pend, aborting, finalizing, flushed>>
        /\ fpc = "flush" /\ fpc' \in {"get", "dead"} /\ failure'
        /\ free' = Append(free, slot[fseg])
    BY <1>3 DEF FlushFails, FlushDies, FreeSegment
  <2>2. Ordered' /\ SlotsApart' /\ ZeroKept'
    BY <2>1, FlushGives DEF InFlush
  <2> QED  BY <2>1, <2>2 DEF IInv, QueueInv, NothingMissing
<1>4. CASE /\ ClearEnds /\ failure' = failure /\ dirty' = dirty \ {slot[fseg]}
           /\ free' = Append(free, slot[fseg])
  <2>1. /\ UNCHANGED <<queue, xpc, next, slot, touched, pend, aborting, finalizing, flushed>>
        /\ fpc = "clear" /\ fpc' = "get"
    BY <1>4 DEF ClearEnds
  <2>2. Ordered' /\ SlotsApart' /\ ZeroKept'
    BY <1>4, <2>1, FlushGives DEF InFlush
  <2>3. Got' = Got /\ Filling' = Filling /\ InBody' = InBody
    BY <2>1 DEF Got, Filling, InBody
  <2> QED  BY <1>4, <2>1, <2>2, <2>3 DEF IInv, QueueInv, NothingMissing
<1>5. CASE ClearEnds /\ failure' = TRUE /\ UNCHANGED <<dirty, free>>
  <2>1. /\ UNCHANGED <<queue, xpc, next, slot, touched, pend, aborting, finalizing, flushed>>
        /\ fpc = "clear" /\ fpc' = "get"
    BY <1>5 DEF ClearEnds
  <2>2. Filling' = Filling /\ ~InFlush'
    BY <2>1 DEF Filling, InFlush
  <2>3. Ordered'
    BY <2>1, <2>2, OrderedKept
  <2>4. Live' \subseteq Live
    BY <2>1, <2>2 DEF Live
  <2>5. SlotsApart' /\ ZeroKept'
    BY <1>5, <2>1, <2>4, ApartKept DEF IInv, QueueInv, ZeroKept
  <2> QED  BY <1>5, <2>1, <2>3, <2>5 DEF IInv, QueueInv, NothingMissing
<1> QED  BY <1>1, <1>2, <1>3, <1>4, <1>5 DEF ClearEnds

\* The flush loop takes the first of the queue: a stop mark, a segment to flush, or one that
\* is only given back because the export is over.
LEMMA FlushGetsQueue ==
  ASSUME IInv, FlushGets
  PROVE  QueueInv'
<1> USE DEF coreVars, poolVars, exporterVars, abortVars, destVars
<1>1. /\ UNCHANGED <<xpc, next, slot, dirty, touched, pend, failure, aborting, finalizing, flushed>>
      /\ fpc = "get" /\ queue # <<>> /\ queue' = Tail(queue)
  BY DEF FlushGets, FreeSegment
<1>2. /\ Len(queue') = Len(queue) - 1 /\ Len(queue) \in Nat \ {0} /\ 1 \in 1..Len(queue)
      /\ queue[1] \in Nat
      /\ \A i \in 1..Len(queue') : i + 1 \in 1..Len(queue) /\ queue'[i] = queue[i + 1] /\ 1 < i + 1
  <2>1. /\ Len(queue') = Len(queue) - 1 /\ Len(queue) \in Nat \ {0}
        /\ \A i \in 1..Len(queue') : queue'[i] = queue[i + 1]
    BY <1>1, Numbers, SeqTail
  <2> QED  BY <2>1, Numbers
<1>3. Filling' = Filling /\ InBody' = InBody /\ finalizing = "none" /\ ~InFlush
  BY <1>1 DEF Filling, InBody, InFlush, IInv, Control
<1>4. \A s \in Segs : (\E i \in 1..Len(queue') : queue'[i] = s)
                         => s # queue[1] /\ (\E i \in 1..Len(queue) : queue[i] = s)
  <2> SUFFICES ASSUME NEW s \in Segs, NEW i \in 1..Len(queue'), queue'[i] = s
               PROVE  s # queue[1] /\ (\E k \in 1..Len(queue) : queue[k] = s)
    OBVIOUS
  <2>1. i + 1 \in 1..Len(queue) /\ queue[i + 1] = s /\ 1 < i + 1 /\ s # Stop
    BY <1>2, NumSlotsNat DEF Segs, Stop
  <2>2. queue[1] < queue[i + 1]
    BY <1>2, <2>1 DEF IInv, QueueInv, Ordered
  <2> QED  BY <1>2, <2>1, <2>2
<1>5. /\ \A i, j \in 1..Len(queue') :
            i < j /\ queue'[j] # Stop => queue'[i] # Stop /\ queue'[i] < queue'[j]
      /\ \A i \in 1..Len(queue') :
            queue'[i] # Stop => /\ queue'[i] <= next - 1 /\ queue[1] < queue'[i]
                                /\ Filling => queue'[i] < next - 1
  BY <1>2 DEF IInv, QueueInv, Ordered
<1>6. CASE queue[1] = Stop
  <2>1. fpc' = "done" /\ UNCHANGED <<fseg, free>>
    BY <1>6 DEF FlushGets
  <2>2. Ordered'
    BY <1>1, <1>3, <1>5, <2>1 DEF Ordered, InFlush
  <2>3. Live' \subseteq Live
    BY <1>1, <1>3, <1>4, <2>1 DEF Live, InFlush
  <2>4. SlotsApart' /\ ZeroKept'
    BY <1>1, <2>1, <2>3, ApartKept DEF IInv, QueueInv, ZeroKept
  <2>5. NothingMissing'
    <3>1. Got' = Got /\ Got = Len(flushed)
      BY <1>1, <2>1, Numbers DEF Got
    <3>2. ~failure /\ ~aborting => ~InBody
      BY <1>2, <1>6 DEF IInv, QueueInv, NothingMissing
    <3>3. ~failure /\ ~aborting /\ xpc = "flusher" => Len(flushed) = NumSegs /\ Len(queue) = 1
      <4> HAVE ~failure /\ ~aborting /\ xpc = "flusher"
      <4>1. /\ Got + Len(queue) = NumSegs + 1
            /\ \A i \in 1..Len(queue) : queue[i] = Stop <=> i = Len(queue)
        BY <1>1 DEF IInv, QueueInv, NothingMissing
      <4>2. Len(queue) = 1
        BY <1>2, <1>6, <4>1
      <4> QED  BY <3>1, <4>1, <4>2, Numbers, NumSlotsNat
    <3>4. \A i \in 1..Len(queue') : queue'[i] # Stop => queue[1] # Stop
      BY <1>2, <1>5 DEF IInv, QueueInv, Ordered
    <3> QED  BY <1>1, <1>3, <1>6, <2>1, <3>1, <3>2, <3>3, <3>4 DEF IInv, QueueInv, NothingMissing
  <2> QED  BY <2>2, <2>4, <2>5 DEF QueueInv
<1>7. CASE queue[1] # Stop /\ ~failure /\ ~aborting
  <2>1. fpc' = "flush" /\ fseg' = queue[1] /\ UNCHANGED free
    BY <1>7 DEF FlushGets
  <2>2. queue[1] <= next - 1 /\ (Filling => queue[1] < next - 1)
    BY <1>2, <1>7 DEF IInv, QueueInv, Ordered
  <2>3. Ordered'
    BY <1>1, <1>3, <1>5, <2>1, <2>2 DEF Ordered, InFlush
  <2>4. Live' \subseteq Live
    BY <1>1, <1>2, <1>3, <1>4, <2>1 DEF Live
  <2>5. SlotsApart' /\ ZeroKept'
    BY <1>1, <2>1, <2>4, ApartKept DEF IInv, QueueInv, ZeroKept
  <2>6. NothingMissing'
    <3>1. Got' = Got + 1 /\ Got = Len(flushed) /\ Got \in Nat
      BY <1>1, <2>1, Numbers DEF Got
    <3>2. queue[1] = Len(flushed) + 1
      BY <1>2, <1>7, <3>1 DEF IInv, QueueInv, NothingMissing
    <3>3. \A i \in 1..Len(queue') : queue'[i] # Stop => queue'[i] = Got' + i
      BY <1>2, <1>7, <3>1 DEF IInv, QueueInv, NothingMissing
    <3>4. InBody' => /\ \A i \in 1..Len(queue') : queue'[i] # Stop
                     /\ Got' + Len(queue') = next' - (IF Filling' THEN 2 ELSE 1)
      <4> HAVE InBody'
      <4>1. /\ \A i \in 1..Len(queue) : queue[i] # Stop
            /\ Got + Len(queue) = next - (IF Filling THEN 2 ELSE 1)
        BY <1>3, <1>7 DEF IInv, QueueInv, NothingMissing
      <4>2. \A i \in 1..Len(queue') : queue'[i] # Stop
        BY <1>2, <4>1
      <4>3. Got' + Len(queue') = Got + Len(queue)
        BY <1>2, <3>1
      <4> QED  BY <1>1, <1>3, <4>1, <4>2, <4>3
    <3>5. xpc' = "flusher" =>
            /\ Len(queue') > 0 /\ Got' + Len(queue') = NumSegs + 1
            /\ \A i \in 1..Len(queue') : queue'[i] = Stop <=> i = Len(queue')
      <4> HAVE xpc' = "flusher"
      <4>1. /\ Got + Len(queue) = NumSegs + 1
            /\ \A i \in 1..Len(queue) : queue[i] = Stop <=> i = Len(queue)
        BY <1>1, <1>7 DEF IInv, QueueInv, NothingMissing
      <4>2. Len(queue) # 1
        BY <1>2, <1>7, <4>1
      <4> QED  BY <1>2, <3>1, <4>1, <4>2
    <3> QED  BY <1>1, <1>3, <2>1, <3>1, <3>2, <3>3, <3>4, <3>5 DEF NothingMissing
  <2> QED  BY <2>3, <2>5, <2>6 DEF QueueInv
<1>8. CASE queue[1] # Stop /\ (failure \/ aborting)
  <2>1. fpc' = "get" /\ free' = Append(free, slot[queue[1]])
    BY <1>8 DEF FlushGets, FreeSegment
  <2>2. queue[1] \in Live
    BY <1>1, <1>8, FlushedHasSlot
  <2>3. Ordered'
    BY <1>1, <1>3, <1>5, <2>1 DEF Ordered, InFlush
  <2>4. Live' \subseteq Live \ {queue[1]}
    BY <1>1, <1>2, <1>3, <1>4, <1>8, <2>1 DEF Live, InFlush, IInv, QueueInv, Ordered
  <2>5. SlotsApart' /\ ZeroKept'
    BY <1>1, <1>8, <2>1, <2>2, <2>4, SlotGiven
  <2>6. NothingMissing'
    BY <1>1, <1>3, <1>8, <2>1 DEF NothingMissing
  <2> QED  BY <2>3, <2>5, <2>6 DEF QueueInv
<1> QED  BY <1>6, <1>7, <1>8

-----------------------------------------------------------------------------
(* Every step keeps the invariant *)

LEMMA OpenStep == ASSUME IInv, OpenSteps PROVE IInv'
<1> USE DEF IInv, OpenSteps, vars, coreVars, poolVars, exporterVars, flusherVars, abortVars,
        destVars, ExporterRaises, CallAbort, ClosedPool, PoolIdle, OpenStarts, PoolThreadEnds,
        OpenCreates, OpenPoolFails, OpenPoolClosed, OpenEnds, OpenCreateFails
<1>1. FlagTypes'
  BY DEF FlagTypes, TypeOK
<1>2. PlaceTypes'
  BY DEF PlaceTypes, TypeOK
<1>3. SlotTypes'
  BY NumSlotsNat DEF SlotTypes, TypeOK, Control, Stop
<1>4. Control'
  BY DEF Control, TypeOK, AbortPast, InFlush
<1>5. PoolPhases'
  BY DEF PoolPhases, TypeOK, Control, AbortPast
<1>6. AbortKnows'
  BY DEF AbortKnows, TypeOK, Control, AbortPast
<1>7. DestPhases'
  BY DEF DestPhases, TypeOK, Control, AbortKnows, AbortPast
<1>8. SeqTypes'
  BY SeqTypesStep DEF Next
<1>9. QueueInv'
  <2>1. CASE OpenStarts /\ state = "new"
    <3>1. /\ queue = <<>> /\ next = 1 /\ pend = 0 /\ dirty = {} /\ fpc = "none"
          /\ UNCHANGED <<queue, next, pend, dirty, fpc, fseg, slot, touched, flushed, finalizing,
                         failure, aborting>>
          /\ free' = [i \in Slots |-> i] /\ xpc' = "pool"
      BY <2>1 DEF Control, TypeOK
    <3>2. Live' = {} /\ ~Filling' /\ ~InFlush' /\ ~InBody'
      BY <3>1 DEF Live, Filling, InFlush, InBody
    <3>3. Ordered' /\ NothingMissing' /\ ZeroKept'
      BY <3>1, <3>2 DEF Ordered, NothingMissing, ZeroKept, QueueInv
    <3>4. SlotsApart'
      BY <3>1, <3>2, NumSlotsNat DEF SlotsApart, Slots
    <3> QED  BY <3>3, <3>4 DEF QueueInv
  <2>2. CASE OpenEnds /\ state = "new"
    <3>1. /\ queue = <<>> /\ next = 1 /\ pend = 0 /\ flushed = <<>> /\ finalizing = "none"
          /\ UNCHANGED <<queue, next, pend, dirty, fseg, slot, touched, flushed, finalizing,
                         failure, aborting, free>>
          /\ xpc' = "body" /\ fpc' = "get"
      BY <2>2 DEF Control, TypeOK
    <3>2. Live' = {} /\ ~Filling' /\ ~InFlush' /\ Got' = 0
      BY <3>1 DEF Live, Filling, InFlush, Got
    <3>3. Ordered' /\ NothingMissing' /\ ZeroKept' /\ SlotsApart'
      BY <3>1, <3>2 DEF Ordered, NothingMissing, ZeroKept, SlotsApart, QueueInv
    <3> QED  BY <3>3 DEF QueueInv
  <2>3. CASE ~(OpenStarts /\ state = "new") /\ ~(OpenEnds /\ state = "new")
    <3>1. /\ UNCHANGED <<queue, next, pend, dirty, fpc, fseg, slot, touched, flushed, finalizing,
                         failure, aborting, free>>
          /\ xpc' \in {xpc, "create", "poolfail", "abort"}
      BY <2>3
    <3>2. /\ Filling' => Filling
          /\ InBody' => InBody /\ (Filling' <=> Filling)
          /\ InFlush' <=> InFlush
      BY <3>1 DEF Filling, InBody, InFlush
    <3> QED  BY <3>1, <3>2, Quiet DEF QueueInv, ZeroKept
  <2> QED  BY <2>1, <2>2, <2>3
<1> QED  BY <1>1, <1>2, <1>3, <1>4, <1>5, <1>6, <1>7, <1>8, <1>9, TypePartsNext

LEMMA BodyStep == ASSUME IInv, BodySteps PROVE IInv'
<1> USE DEF IInv, BodySteps, vars, coreVars, poolVars, exporterVars, flusherVars, abortVars,
        destVars, ExporterRaises, CallAbort, MayBegin, BeginOrRaise, TakeSlot, Writable,
        BeginSegment, BeginWakes, WriteStarts, WriteEnds, Complete, ExporterInterrupted
<1>1. FlagTypes'
  BY DEF FlagTypes, TypeOK
<1>2. PlaceTypes'
  BY DEF PlaceTypes, TypeOK
<1>3. SlotTypes'
  <2>1. CASE WriteStarts
    <3>1. next - 1 \in Segs /\ slot[next - 1] \in Slots \cup {0}
      BY <2>1, NumSlotsNat DEF TypeOK, Control, Segs
    <3> QED  BY <2>1, <3>1 DEF SlotTypes, TypeOK
  <2>2. CASE ~WriteStarts
    BY <2>2, NumSlotsNat DEF SlotTypes, TypeOK, Control, Stop
  <2> QED  BY <2>1, <2>2
<1>4. Control'
  <2>1. CASE WriteStarts
    <3>1. next - 1 \in Segs /\ next - 1 \in Live
      BY <2>1, NumSlotsNat DEF TypeOK, Control, Segs, Live, Filling
    <3>2. slot[next - 1] # 0
      BY <3>1 DEF QueueInv, SlotsApart
    <3> QED  BY <2>1, <3>2 DEF Control, TypeOK, AbortPast, InFlush
  <2>2. CASE ~WriteStarts
    BY <2>2 DEF Control, TypeOK, AbortPast, InFlush
  <2> QED  BY <2>1, <2>2
<1>5. PoolPhases'
  BY DEF PoolPhases, TypeOK, Control, AbortPast
<1>6. AbortKnows'
  BY DEF AbortKnows, TypeOK, Control, AbortPast
<1>7. DestPhases'
  BY DEF DestPhases, TypeOK, Control, AbortKnows, AbortPast
<1>8. SeqTypes'
  BY SeqTypesStep DEF Next
<1>9. QueueInv'
  <2>1. CASE (BeginSegment \/ BeginWakes) /\ next' # next
    <3>1. /\ state = "open" /\ ~failure /\ xpc \in {"body", "slot"} /\ next <= NumSegs
          /\ free # <<>> /\ TakeSlot /\ UNCHANGED <<coreVars, flusherVars, destVars>>
      BY <2>1 DEF Control, TypeOK
    <3> QED  BY <3>1, SegmentTaken
  <2>2. CASE Complete /\ Writable
    BY <2>2, SegmentQueued
  <2>3. CASE WriteEnds
    BY <2>3, WriteEndsQueue
  <2>4. CASE WriteStarts
    <3>1. /\ UNCHANGED <<queue, next, dirty, fpc, fseg, slot, flushed, finalizing, failure,
                         aborting, free>>
          /\ touched' \in {touched, touched \cup {next - 1}}
          /\ xpc = "write" /\ xpc' \in {"writing", "abort"} /\ (xpc' = "abort" => pend' = pend)
      BY <2>4
    <3>2. /\ Filling /\ (InBody' => InBody /\ (Filling' <=> Filling)) /\ (InFlush' <=> InFlush)
      BY <3>1 DEF Filling, InBody, InFlush
    <3>3. \A s \in touched' : s < next
      BY <3>1, Numbers DEF QueueInv, ZeroKept
    <3> QED  BY <3>1, <3>2, <3>3, Quiet
  <2>5. CASE \/ (BeginSegment \/ BeginWakes) /\ next' = next
             \/ Complete /\ ~Writable
             \/ ExporterInterrupted
    <3>1. /\ UNCHANGED <<queue, next, pend, dirty, fpc, fseg, slot, touched, flushed, finalizing,
                         failure, aborting, free>>
          /\ xpc' = "abort" \/ (xpc \in {"body", "slot"} /\ xpc' = "slot")
      BY <2>5 DEF Control, TypeOK
    <3>2. /\ Filling' => Filling
          /\ InBody' => InBody /\ (Filling' <=> Filling)
          /\ InFlush' <=> InFlush
      BY <3>1 DEF Filling, InBody, InFlush
    <3> QED  BY <3>1, <3>2, Quiet DEF QueueInv, ZeroKept
  <2> QED  BY <2>1, <2>2, <2>3, <2>4, <2>5
<1> QED  BY <1>1, <1>2, <1>3, <1>4, <1>5, <1>6, <1>7, <1>8, <1>9, TypePartsNext

LEMMA CommitStep == ASSUME IInv, CommitSteps PROVE IInv'
<1> USE DEF IInv, CommitSteps, vars, coreVars, poolVars, exporterVars, flusherVars, abortVars,
        destVars, ExporterRaises, CallAbort, ClosedPool, PoolIdle, Writable, CommitStarts,
        CommitFinalizes, FinalizeOk, FinalizeFails, CommitCloses, CommitReturns
<1>1. FlagTypes'
  BY DEF FlagTypes, TypeOK
<1>2. PlaceTypes'
  BY DEF PlaceTypes, TypeOK
<1>3. SlotTypes'
  BY NumSlotsNat DEF SlotTypes, TypeOK, Control, Stop
<1>4. Control'
  BY DEF Control, TypeOK, AbortPast, InFlush
<1>5. PoolPhases'
  BY DEF PoolPhases, TypeOK, Control, AbortPast
<1>6. AbortKnows'
  BY DEF AbortKnows, TypeOK, Control, AbortPast
<1>7. DestPhases'
  BY DEF DestPhases, TypeOK, Control, AbortKnows, AbortPast
<1>8. SeqTypes'
  BY SeqTypesStep DEF Next
<1>9. QueueInv'
  <2>1. CASE CommitStarts /\ Writable
    <3>1. /\ queue' = Append(queue, Stop) /\ xpc = "body" /\ next > NumSegs /\ xpc' = "flusher"
          /\ UNCHANGED <<next, free, slot, fpc, fseg, flushed, failure, dirty, touched, pend,
                         finalizing, aborting>> /\ state = "open"
      BY <2>1
    <3>2. Filling' => Filling
      BY <3>1 DEF Filling
    <3> QED  BY <3>1, <3>2, StopQueued
  <2>2. CASE ~(CommitStarts /\ Writable)
    <3>1. /\ UNCHANGED <<queue, next, pend, dirty, fpc, fseg, slot, touched, flushed, failure,
                         aborting, free>>
          /\ xpc' \in {xpc, "finalize", "close", "ok", "abort"}
      BY <2>2
    <3>2. /\ Filling' => Filling
          /\ InBody' => InBody /\ (Filling' <=> Filling)
          /\ InFlush' <=> InFlush
      BY <3>1 DEF Filling, InBody, InFlush
    <3>3. finalizing' # "none" => finalizing # "none" \/ Len(flushed) = NumSegs
      BY <2>2 DEF QueueInv, NothingMissing, Control
    <3> QED  BY <3>1, <3>2, <3>3, Quiet DEF QueueInv, ZeroKept
  <2> QED  BY <2>1, <2>2
<1> QED  BY <1>1, <1>2, <1>3, <1>4, <1>5, <1>6, <1>7, <1>8, <1>9, TypePartsNext

LEMMA FlushStep == ASSUME IInv, FlushSteps PROVE IInv'
<1> USE DEF IInv, FlushSteps, vars, coreVars, poolVars, exporterVars, flusherVars, abortVars,
        destVars, FreeSegment, Notify, FlushGets, FlushOk, FlushFails, FlushDies, ClearEnds
<1>1. FlagTypes'
  BY DEF FlagTypes, TypeOK
<1>2. PlaceTypes'
  BY DEF PlaceTypes, TypeOK
<1>3. SlotTypes'
  BY NumSlotsNat DEF SlotTypes, TypeOK, Control, Stop
<1>4. Control'
  BY DEF Control, TypeOK, AbortPast, InFlush
<1>5. PoolPhases'
  BY DEF PoolPhases, TypeOK, Control, AbortPast
<1>6. AbortKnows'
  BY DEF AbortKnows, TypeOK, Control, AbortPast
<1>7. DestPhases'
  BY DEF DestPhases, TypeOK, Control, AbortKnows, AbortPast
<1>8. SeqTypes'
  BY SeqTypesStep DEF Next
<1>9. QueueInv'
  BY FlushGetsQueue, FlushEndsQueue
<1> QED  BY <1>1, <1>2, <1>3, <1>4, <1>5, <1>6, <1>7, <1>8, <1>9, TypePartsNext

LEMMA AbortStep == ASSUME IInv, AbortSteps PROVE IInv'
<1> USE DEF IInv, AbortSteps, vars, coreVars, poolVars, exporterVars, flusherVars, abortVars,
        destVars, AbortStops, Notify, ClosedPool, PoolIdle, OutsideAbort, AbortBegins,
        AbortAfterFinalize, AbortAfterFlusher, AbortClosesPool, AbortDiscards, ExporterEnds
<1>1. FlagTypes'
  BY DEF FlagTypes, TypeOK
<1>2. PlaceTypes'
  BY DEF PlaceTypes, TypeOK
<1>3. SlotTypes'
  BY NumSlotsNat DEF SlotTypes, TypeOK, Control, Stop
<1>4. Control'
  BY DEF Control, TypeOK, AbortPast, InFlush
<1>5. PoolPhases'
  BY DEF PoolPhases, TypeOK, Control, AbortPast
<1>6. AbortKnows'
  BY DEF AbortKnows, TypeOK, Control, AbortPast
<1>7. DestPhases'
  BY DEF DestPhases, TypeOK, Control, AbortKnows, AbortPast
<1>8. SeqTypes'
  BY SeqTypesStep DEF Next
<1>9. QueueInv'
  <2>1. CASE queue' # queue
    <3>1. /\ queue' = Append(queue, Stop) /\ aborting' /\ xpc' = xpc
          /\ UNCHANGED <<next, free, slot, fpc, fseg, flushed, failure, dirty, touched, pend,
                         finalizing>>
      BY <2>1
    <3>2. Filling' => Filling
      BY <3>1 DEF Filling
    <3> QED  BY <3>1, <3>2, StopQueued
  <2>2. CASE queue' = queue
    <3>1. /\ UNCHANGED <<queue, next, pend, dirty, fpc, fseg, slot, touched, flushed, failure,
                         free, finalizing>>
          /\ xpc' \in {xpc, "raised"} /\ (aborting => aborting')
      BY <2>2
    <3>2. /\ Filling' => Filling
          /\ InBody' => InBody /\ (Filling' <=> Filling)
          /\ InFlush' <=> InFlush
      BY <3>1 DEF Filling, InBody, InFlush
    <3> QED  BY <3>1, <3>2, Quiet DEF QueueInv, ZeroKept
  <2> QED  BY <2>1, <2>2
<1> QED  BY <1>1, <1>2, <1>3, <1>4, <1>5, <1>6, <1>7, <1>8, <1>9, TypePartsNext

LEMMA InitIInv == Init => IInv
<1> SUFFICES ASSUME Init PROVE IInv
  OBVIOUS
<1> USE DEF Init
<1>1. FlagTypes /\ PlaceTypes /\ SeqTypes /\ SlotTypes
  <2>1. FlagTypes /\ PlaceTypes
    BY DEF FlagTypes, PlaceTypes
  <2>2. SeqTypes
    BY EmptySeq DEF SeqTypes
  <2>3. SlotTypes
    BY NumSlotsNat DEF SlotTypes
  <2> QED  BY <2>1, <2>2, <2>3
<1>2. Control /\ PoolPhases /\ AbortKnows /\ DestPhases
  BY DEF Control, PoolPhases, AbortKnows, DestPhases, AbortPast, InFlush
<1>3. Live = {}
  BY DEF Live, Filling, InFlush
<1>4. QueueInv
  BY <1>3 DEF QueueInv, Ordered, NothingMissing, SlotsApart, ZeroKept, InFlush, InBody
<1> QED  BY <1>1, <1>2, <1>4, TypeParts DEF IInv

LEMMA StutterIInv == IInv /\ UNCHANGED vars => IInv'
<1> SUFFICES ASSUME IInv, UNCHANGED vars PROVE IInv'
  OBVIOUS
<1> USE DEF vars, coreVars, poolVars, exporterVars, flusherVars, abortVars, destVars
<1>1. TypeOK' /\ Control' /\ PoolPhases' /\ AbortKnows' /\ DestPhases'
  BY DEF IInv, TypeOK, Control, PoolPhases, AbortKnows, DestPhases, AbortPast, InFlush
<1>2. /\ Filling' <=> Filling
      /\ InFlush' <=> InFlush
      /\ InBody' <=> InBody
  BY DEF Filling, InFlush, InBody
<1>3. QueueInv'
  BY <1>2, Quiet DEF IInv, QueueInv, ZeroKept
<1> QED  BY <1>1, <1>3 DEF IInv

\* Whatever the hooks, threads and callers do, and whenever an abort comes: the positions of
\* the tasks, the queue, the free list and the slots stay consistent.
THEOREM Inductive == Spec => []IInv
<1>1. IInv /\ [Next]_vars => IInv'
  BY NextSteps, OpenStep, BodyStep, CommitStep, FlushStep, AbortStep, StutterIInv
<1> QED  BY <1>1, InitIInv, PTL DEF Spec

-----------------------------------------------------------------------------
(* What the pool promises *)

\* For every number of segments and of slots: no segment's slot is handed out, reused or freed
\* before its flush is over, what was not written reads as zero, and however the export
\* ends its pool is released, with no thread left writing to it.
THEOREM PoolSound == Spec => []PoolIsSound
<1>1. IInv => PoolIsSound
  <2> SUFFICES ASSUME IInv PROVE PoolIsSound
    OBVIOUS
  <2>1. Held \subseteq Live
    BY DEF Held, Live, Filling, InFlush
  <2>2. SlotsExclusive
    BY <2>1 DEF SlotsExclusive, IInv, QueueInv, SlotsApart
  <2>3. UnwrittenReadsZero
    BY <2>1 DEF UnwrittenReadsZero, IInv, QueueInv, ZeroKept
  <2>4. PoolReleased
    BY DEF PoolReleased, Ended, IInv, PoolPhases, Control
  <2> QED  BY <2>2, <2>3, <2>4 DEF PoolIsSound, IInv
<1> QED  BY <1>1, Inductive, PTL

-----------------------------------------------------------------------------
(* What an abort promises, when nobody aborts before open returned *)

\* While the exporter is in open() nothing was made and no abort is under way; an abort that
\* reported nothing kept left nothing; until an abort is over nothing was given up.
Early ==
    /\ xpc \in {"start", "pool", "create"} => apc = "none" /\ state = "new" /\ dest = "absent"
    /\ outcome = "released" => dest \in {"absent", "discarded"}
    /\ apc # "done" => dest \in {"absent", "live", "final"}

LEMMA EarlyStep ==
  ASSUME AbortFrom # "any", IInv, Early, [Next]_vars
  PROVE  Early'
<1> USE DEF Early, vars, coreVars, poolVars, exporterVars, flusherVars, abortVars, destVars,
        ExporterRaises, CallAbort
<1>1. CASE OpenSteps
  BY <1>1 DEF OpenSteps, OpenStarts, PoolThreadEnds, OpenCreates, OpenPoolFails, OpenPoolClosed,
              OpenEnds, OpenCreateFails, IInv, TypeOK, AbortKnows
<1>2. CASE BodySteps
  BY <1>2 DEF BodySteps, BeginSegment, BeginWakes, WriteStarts, WriteEnds, Complete,
              ExporterInterrupted, BeginOrRaise, TakeSlot, IInv, TypeOK
<1>3. CASE CommitSteps
  BY <1>3 DEF CommitSteps, CommitStarts, CommitFinalizes, FinalizeOk, FinalizeFails, CommitCloses,
              CommitReturns, IInv, TypeOK, Control, AbortKnows, DestPhases, AbortPast
<1>4. CASE FlushSteps
  BY <1>4 DEF FlushSteps, FlushGets, FlushOk, FlushFails, FlushDies, ClearEnds
<1>5. CASE AbortSteps
  BY <1>5 DEF AbortSteps, OutsideAbort, AbortBegins, AbortAfterFinalize, AbortAfterFlusher,
              AbortClosesPool, AbortDiscards, ExporterEnds, AbortStops, IInv, TypeOK, Control,
              AbortKnows, DestPhases, AbortPast
<1>6. CASE UNCHANGED vars
  BY <1>6
<1> QED  BY <1>1, <1>2, <1>3, <1>4, <1>5, <1>6, NextSteps

LEMMA EarlyHolds == ASSUME AbortFrom # "any" PROVE Spec => []Early
<1>1. Init => Early
  BY DEF Init, Early
<1>2. IInv /\ Early /\ [Next]_vars => Early'
  BY EarlyStep
<1> QED  BY <1>1, <1>2, Inductive, PTL DEF Spec

\* An abort that the exporter's own failure causes, or that comes once open returned, discards
\* alone, and what it reports of the destination is so: a finalize it raced wins and is never
\* taken back, and "nothing kept" leaves nothing.
THEOREM AbortsTrue == ASSUME AbortFrom # "any" PROVE Spec => []AbortsAreTrue
<1>1. IInv /\ Early => AbortsAreTrue
  <2> SUFFICES ASSUME IInv, Early PROVE AbortsAreTrue
    OBVIOUS
  <2>1. DiscardRunsAlone
    BY DEF DiscardRunsAlone, Early, IInv, Control, AbortKnows, DestPhases, AbortPast
  <2>2. OutcomeIsTrue
    BY DEF OutcomeIsTrue, Early, IInv, Control, DestPhases
  <2> QED  BY <2>1, <2>2 DEF AbortsAreTrue
<1> QED  BY <1>1, Inductive, EarlyHolds, PTL

-----------------------------------------------------------------------------
(* The refinement *)

\* Every step of the sink maps to a step of LinearExport, or to none.
LEMMA RefinementStep ==
  ASSUME AbortFrom # "any", IInv, Early, [Next]_vars
  PROVE  [Destination!Next]_<<dest, flushed>>
<1> USE DEF vars, coreVars, poolVars, exporterVars, flusherVars, abortVars, destVars, Early, IInv
<1>1. CASE OpenSteps
  <2>1. flushed' = flushed /\ (dest' = dest \/ (dest = "absent" /\ dest' = "live"))
    BY <1>1 DEF OpenSteps, OpenStarts, PoolThreadEnds, OpenCreates, OpenPoolFails, OpenPoolClosed,
                OpenEnds, OpenCreateFails
  <2> QED  BY <2>1 DEF Destination!Next, Destination!Create
<1>2. CASE BodySteps \/ UNCHANGED vars
  <2>1. UNCHANGED <<dest, flushed>>
    BY <1>2 DEF BodySteps, BeginSegment, BeginWakes, WriteStarts, WriteEnds, Complete,
                ExporterInterrupted
  <2> QED  BY <2>1
<1>3. CASE CommitSteps
  <2>1. \/ UNCHANGED <<dest, flushed>>
        \/ finalizing = "running" /\ dest' = "final" /\ flushed' = flushed
    BY <1>3 DEF CommitSteps, CommitStarts, CommitFinalizes, FinalizeOk, FinalizeFails, CommitCloses,
                CommitReturns
  <2>2. finalizing = "running" => dest = "live" /\ Len(flushed) = NumSegs
    BY DEF Control, DestPhases, QueueInv, NothingMissing
  <2> QED  BY <2>1, <2>2 DEF Destination!Next, Destination!Finalize
<1>4. CASE FlushSteps
  <2>1. \/ UNCHANGED <<dest, flushed>>
        \/ fpc = "flush" /\ dest' = dest /\ flushed' = Append(flushed, fseg)
    BY <1>4 DEF FlushSteps, FlushGets, FlushOk, FlushFails, FlushDies, ClearEnds
  <2>2. fpc = "flush" => dest = "live" /\ fseg = Len(flushed) + 1 /\ Len(flushed) < NumSegs
    <3>1. fpc = "flush" => dest = "live" /\ fseg = Len(flushed) + 1 /\ fseg \in Segs
      BY DEF Control, DestPhases, QueueInv, NothingMissing, InFlush
    <3> QED  BY <3>1, Numbers, NumSlotsNat DEF Segs
  <2> QED  BY <2>1, <2>2 DEF Destination!Next, Destination!Take
<1>5. CASE AbortSteps
  <2>1. /\ flushed' = flushed
        /\ dest' = dest \/ (apc = "discard" /\ dest' \in {"discarded", "partial"})
    BY <1>5 DEF AbortSteps, OutsideAbort, AbortBegins, AbortAfterFinalize, AbortAfterFlusher,
                AbortClosesPool, AbortDiscards, ExporterEnds, AbortStops
  <2>2. apc = "discard" => dest \in {"absent", "live"}
    BY DEF AbortKnows, DestPhases, AbortPast
  <2> QED  BY <2>1, <2>2 DEF Destination!Next, Destination!GiveUp
<1> QED  BY <1>1, <1>2, <1>3, <1>4, <1>5, NextSteps

\* The sink implements LinearExport for every number of segments and of slots: its destination is
\* created once, takes every segment once and in order, is made final only when it has them
\* all, and what was made final is never discarded.
THEOREM SinkImplementsLinearExport == ASSUME AbortFrom # "any" PROVE Spec => ImplementsLinearExport
<1>1. Init => Destination!Init
  BY DEF Init, Destination!Init
<1>2. IInv /\ Early /\ [Next]_vars => [Destination!Next]_<<dest, flushed>>
  BY RefinementStep
<1> QED  BY <1>1, <1>2, Inductive, EarlyHolds, PTL DEF Spec, ImplementsLinearExport, Destination!Spec
=============================================================================
