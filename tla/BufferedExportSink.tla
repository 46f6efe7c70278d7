------------------------- MODULE BufferedExportSink --------------------------
(***************************************************************************)
(* BufferedExportSink (sdk/dedup/buffered_export_sink.py) over a SlotPool  *)
(* (sdk/dedup/segment_buffers.py), driven by run_sink_export and           *)
(* _export_segments.  Tasks of one event loop: the exporter, the flush     *)
(* loop, the task that finalizes, the one task that aborts, and a caller   *)
(* that aborts from outside; threads create the pool and write to it.      *)
(* The hooks (create, flush, finalize, discard) belong to a subclass: each *)
(* may succeed or fail.  An action is the code between two awaits.         *)
(***************************************************************************)
EXTENDS Integers, Sequences, FiniteSets

CONSTANTS
    NumSegs,      \* segments of the export
    MaxBuffered,  \* max_buffered_segments
    AbortFrom     \* when an outside caller may abort: "never", once "opened", "any" time

ASSUME SinkAssumption ==
    /\ NumSegs \in Nat
    /\ MaxBuffered \in Nat \ {0}
    /\ AbortFrom \in {"never", "opened", "any"}

Segs == 1..NumSegs

\* max(1, min(max_buffered, number of segments))
NumSlots == IF NumSegs = 0 THEN 1 ELSE IF NumSegs < MaxBuffered THEN NumSegs ELSE MaxBuffered
Slots == 1..NumSlots

\* The sentinel that ends the flush loop.
Stop == 0

VARIABLES
    state,      \* _core.state
    failure,    \* _core.failure is set
    aborting,   \* _aborting
    creating,   \* _creating
    ever,       \* _core.ever_written
    queue,      \* _core.queue: segments, or Stop
    free,       \* _pool.free
    pool,       \* the pool's storage
    pend,       \* slot a thread is still writing to, 0 for none
    dirty,      \* slots that do not read as zero
    next,       \* _next_index: the segment begin_segment expects
    slot,       \* segment -> its slot, 0 before it is handed out
    touched,    \* segments whose Slot is marked _touched
    xpc,        \* exporter: the await it is at
    notified,   \* the exporter, waiting on _slots, was notified
    fpc, fseg,  \* flush loop: the await it is at, the segment it holds
    finalizing, \* _finalizing: "none", "running", "done", "failed"
    apc, was,   \* abort task: the await it is at, its local was
    outcome,    \* _abort_outcome.kept: "none", "kept", "released"
    dest,       \* the subclass's destination
    flushed     \* segments the destination took, in order

exporterVars == <<xpc, next>>
flusherVars  == <<fpc, fseg>>
abortVars    == <<apc, was, outcome>>
poolVars     == <<free, pool, pend, dirty, slot, touched>>
coreVars     == <<state, failure, aborting, creating, ever, queue>>
destVars     == <<dest, flushed, finalizing>>
vars == <<coreVars, poolVars, exporterVars, notified, flusherVars, abortVars, destVars>>

TypeOK ==
    /\ state \in {"new", "open", "committed", "aborted"}
    /\ {failure, aborting, creating, ever, notified} \subseteq BOOLEAN
    /\ queue \in Seq(Segs \cup {Stop})
    /\ free \in Seq(Slots)
    /\ pool \in {"none", "creating", "ready", "failed", "closed", "cleaned"}
    /\ pend \in Slots \cup {0}
    /\ dirty \subseteq Slots
    /\ next \in 1..(NumSegs + 1)
    /\ slot \in [Segs -> Slots \cup {0}]
    /\ touched \subseteq Segs
    /\ xpc \in {"start", "pool", "poolfail", "create", "body", "slot", "write", "writing",
                "flusher", "finalize", "close", "abort", "ok", "raised"}
    /\ fpc \in {"none", "get", "flush", "clear", "done", "dead"}
    /\ fseg \in Segs \cup {0}
    /\ finalizing \in {"none", "running", "done", "failed"}
    /\ apc \in {"none", "scheduled", "finalizing", "flusher", "pool", "discard", "done"}
    /\ was \in {"none", "new", "open", "committed", "aborted"}
    /\ outcome \in {"none", "kept", "released"}
    /\ dest \in {"absent", "live", "final", "discarded", "partial"}
    /\ flushed \in Seq(Segs)

Init ==
    /\ state = "new" /\ failure = FALSE /\ aborting = FALSE /\ creating = FALSE /\ ever = FALSE
    /\ queue = <<>> /\ free = <<>> /\ pool = "none" /\ pend = 0 /\ dirty = {}
    /\ next = 1 /\ slot = [s \in Segs |-> 0] /\ touched = {}
    /\ xpc = "start" /\ notified = FALSE /\ fpc = "none" /\ fseg = 0
    /\ finalizing = "none" /\ apc = "none" /\ was = "none" /\ outcome = "none"
    /\ dest = "absent" /\ flushed = <<>>

-----------------------------------------------------------------------------
(* Shared pieces *)

\* abort(): at most one _abort task, however many callers.
CallAbort == apc' = IF apc = "none" THEN "scheduled" ELSE apc

\* run_sink_export's except branch: whatever the exporter awaited raised.
ExporterRaises ==
    /\ xpc' = "abort"
    /\ CallAbort
    /\ UNCHANGED <<next, was, outcome>>

\* Mutant: the waiting begin_segment is never told.
NoNotify == UNCHANGED notified

\* _slots.notify_all()
Notify == notified' = (xpc = "slot")

\* Mutant: closes under a thread that still writes.
PoolCreated == pool # "creating"

\* SlotPool.close: once the create thread and the write threads are done.
PoolIdle == pool # "creating" /\ pend = 0

\* What closing leaves: the storage of a failed create is cleaned up too.
ClosedPool == IF pool = "ready" THEN "closed" ELSE IF pool = "failed" THEN "cleaned" ELSE pool

\* wait_for's predicate in begin_segment.
MayBegin == failure \/ aborting \/ free # <<>>

-----------------------------------------------------------------------------
(* open() *)

OpenStarts ==
    /\ xpc = "start"
    /\ \/ /\ state = "new"
          /\ free' = [i \in Slots |-> i]
          /\ pool' = "creating"
          /\ xpc' = "pool"
          /\ UNCHANGED <<pend, dirty, slot, touched, next, abortVars>>
       \/ /\ state # "new"
          /\ ExporterRaises
          /\ UNCHANGED poolVars
    /\ UNCHANGED <<coreVars, notified, flusherVars, destVars>>

\* The thread of SlotPool.create ends.
PoolThreadEnds ==
    /\ pool = "creating"
    /\ pool' \in {"ready", "failed"}
    /\ UNCHANGED <<coreVars, free, pend, dirty, slot, touched, exporterVars, notified,
                   flusherVars, abortVars, destVars>>

OpenCreates ==
    /\ xpc = "pool" /\ pool \in {"ready", "closed"}
    /\ creating' = TRUE
    /\ xpc' = "create"
    /\ UNCHANGED <<state, failure, aborting, ever, queue, poolVars, next, notified,
                   flusherVars, abortVars, destVars>>

\* open's except branch: the create failed or open was cancelled in it.
OpenPoolFails ==
    /\ xpc = "pool"
    /\ state' = "aborted"
    /\ xpc' = "poolfail"
    /\ UNCHANGED <<failure, aborting, creating, ever, queue, poolVars, next, notified,
                   flusherVars, abortVars, destVars>>

OpenPoolClosed ==
    /\ xpc = "poolfail" /\ PoolIdle
    /\ pool' = ClosedPool
    /\ ExporterRaises
    /\ UNCHANGED <<coreVars, free, pend, dirty, slot, touched, notified, flusherVars, destVars>>

\* create_destination returned.
OpenEnds ==
    /\ xpc = "create"
    /\ dest' = "live"
    /\ \/ /\ state = "new"
          /\ state' = "open"
          /\ fpc' = "get"
          /\ xpc' = "body"
          /\ UNCHANGED <<next, abortVars>>
       \/ /\ state # "new"
          /\ ExporterRaises
          /\ UNCHANGED <<state, fpc>>
    /\ UNCHANGED <<failure, aborting, creating, ever, queue, poolVars, notified, fseg,
                   flushed, finalizing>>

\* create_destination failed or was cancelled, perhaps after it made something.
OpenCreateFails ==
    /\ xpc = "create"
    /\ dest' \in {dest, "live"}
    /\ ExporterRaises
    /\ UNCHANGED <<coreVars, poolVars, notified, flusherVars, flushed, finalizing>>

-----------------------------------------------------------------------------
(* begin_segment(), the segment's writer, complete() *)

\* Mutant: the slot is handed out but stays on the free list.
PeekSlot ==
    /\ slot' = [slot EXCEPT ![next] = free[1]]
    /\ next' = next + 1
    /\ xpc' = "write"
    /\ UNCHANGED <<free, pool, pend, dirty, touched, abortVars>>

\* SlotPool.take for the segment begin_segment was called for.
TakeSlot ==
    /\ slot' = [slot EXCEPT ![next] = free[1]]
    /\ free' = Tail(free)
    /\ next' = next + 1
    /\ xpc' = "write"
    /\ UNCHANGED <<pool, pend, dirty, touched, abortVars>>

\* What begin_segment does once its predicate holds.
BeginOrRaise ==
    \/ /\ state = "open" /\ ~failure
       /\ TakeSlot
    \/ /\ state # "open" \/ failure
       /\ ExporterRaises
       /\ UNCHANGED poolVars

BeginSegment ==
    /\ xpc = "body" /\ next <= NumSegs
    /\ \/ /\ state # "open"
          /\ ExporterRaises
          /\ UNCHANGED poolVars
       \/ /\ state = "open" /\ MayBegin
          /\ BeginOrRaise
       \/ /\ state = "open" /\ ~MayBegin
          /\ xpc' = "slot"
          /\ UNCHANGED <<next, poolVars, abortVars>>
    /\ notified' = FALSE
    /\ UNCHANGED <<coreVars, flusherVars, destVars>>

\* A notified begin_segment tests its predicate again.
BeginWakes ==
    /\ xpc = "slot" /\ notified
    /\ notified' = FALSE
    /\ \/ MayBegin /\ BeginOrRaise
       \/ ~MayBegin /\ UNCHANGED <<exporterVars, poolVars, abortVars>>
    /\ UNCHANGED <<coreVars, flusherVars, destVars>>

\* _checked: the segment being written.
Writable == state = "open" /\ ~failure

\* write_at / write_zero: handed to a thread (the spool's run); one per
\* segment.  note_worker_write marks the slot in the same way.
WriteStarts ==
    /\ xpc = "write" /\ (next - 1) \notin touched
    /\ \/ /\ Writable
          /\ ever' = TRUE
          /\ touched' = touched \cup {next - 1}
          /\ pend' = slot[next - 1]
          /\ xpc' = "writing"
          /\ UNCHANGED <<next, free, pool, dirty, slot, abortVars>>
       \/ /\ ~Writable
          /\ ExporterRaises
          /\ UNCHANGED <<ever, poolVars>>
    /\ UNCHANGED <<state, failure, aborting, creating, queue, notified, flusherVars, destVars>>

\* The thread ends; the exporter, if it still awaits the write, goes on.
WriteEnds ==
    /\ pend # 0
    /\ pend' = 0
    /\ dirty' = dirty \cup {pend}
    /\ xpc' = IF xpc = "writing" THEN "write" ELSE xpc
    /\ UNCHANGED <<coreVars, free, pool, slot, touched, next, notified, flusherVars,
                   abortVars, destVars>>

Complete ==
    /\ xpc = "write"
    /\ \/ /\ Writable
          /\ queue' = Append(queue, next - 1)
          /\ xpc' = "body"
          /\ UNCHANGED <<next, abortVars>>
       \/ /\ ~Writable
          /\ ExporterRaises
          /\ UNCHANGED queue
    /\ UNCHANGED <<state, failure, aborting, creating, ever, poolVars, notified, flusherVars,
                   destVars>>

\* The exporter is cancelled, or the content it reads fails, at an await of
\* its body or of commit.  A thread it awaited keeps running.
ExporterInterrupted ==
    /\ xpc \in {"body", "slot", "write", "writing", "flusher", "finalize", "close", "poolfail"}
    /\ ExporterRaises
    /\ notified' = FALSE
    /\ UNCHANGED <<coreVars, poolVars, flusherVars, destVars>>

-----------------------------------------------------------------------------
(* commit() *)

CommitStarts ==
    /\ xpc = "body" /\ next > NumSegs
    /\ \/ /\ Writable
          /\ queue' = Append(queue, Stop)
          /\ xpc' = "flusher"
          /\ UNCHANGED <<next, abortVars>>
       \/ /\ ~Writable
          /\ ExporterRaises
          /\ UNCHANGED queue
    /\ UNCHANGED <<state, failure, aborting, creating, ever, poolVars, notified, flusherVars,
                   destVars>>

\* Mutant: a flush that failed meanwhile is not noticed.
CommitFinalizesAnyway ==
    /\ xpc = "flusher" /\ fpc = "done" /\ state = "open"
    /\ finalizing' = "running"
    /\ xpc' = "finalize"
    /\ UNCHANGED <<next, abortVars, coreVars, poolVars, notified, flusherVars, dest, flushed>>

\* The flush loop ended: commit looks again, and finalizes.
CommitFinalizes ==
    /\ xpc = "flusher" /\ fpc \in {"done", "dead"}
    /\ \/ /\ fpc = "done" /\ Writable
          /\ finalizing' = "running"
          /\ xpc' = "finalize"
          /\ UNCHANGED <<next, abortVars>>
       \/ /\ fpc = "dead" \/ ~Writable
          /\ ExporterRaises
          /\ UNCHANGED finalizing
    /\ UNCHANGED <<coreVars, poolVars, notified, flusherVars, dest, flushed>>

\* _finalize, a task of its own.
FinalizeOk ==
    /\ finalizing = "running"
    /\ finalizing' = "done"
    /\ dest' = "final"
    /\ state' = "committed"
    /\ UNCHANGED <<failure, aborting, creating, ever, queue, poolVars, exporterVars, notified,
                   flusherVars, abortVars, flushed>>

FinalizeFails ==
    /\ finalizing = "running"
    /\ finalizing' = "failed"
    /\ UNCHANGED <<coreVars, poolVars, exporterVars, notified, flusherVars, abortVars, dest, flushed>>

CommitCloses ==
    /\ xpc = "finalize" /\ finalizing \in {"done", "failed"}
    /\ \/ /\ finalizing = "done"
          /\ xpc' = "close"
          /\ UNCHANGED <<next, abortVars>>
       \/ /\ finalizing = "failed"
          /\ ExporterRaises
    /\ UNCHANGED <<coreVars, poolVars, notified, flusherVars, destVars>>

CommitReturns ==
    /\ xpc = "close" /\ PoolIdle
    /\ pool' = ClosedPool
    /\ xpc' = "ok"
    /\ UNCHANGED <<coreVars, free, pend, dirty, slot, touched, next, notified, flusherVars,
                   abortVars, destVars>>

-----------------------------------------------------------------------------
(* _flush_loop() and _free() *)

\* Mutant: the slot goes back without being zeroed.
FreeSegmentDirty(s, failed) ==
    /\ free' = Append(free, slot[s])
    /\ fpc' = "get" /\ fseg' = 0
    /\ Notify
    /\ UNCHANGED <<pool, pend, dirty, slot, touched>>

\* _free: a slot goes back clean, or as it is once the export is over.
FreeSegment(s, failed) ==
    \/ /\ ~failed /\ ~aborting /\ s \in touched
       /\ fpc' = "clear" /\ fseg' = s
       /\ UNCHANGED <<poolVars, notified>>
    \/ /\ failed \/ aborting \/ s \notin touched
       /\ free' = Append(free, slot[s])
       /\ fpc' = "get" /\ fseg' = 0
       /\ Notify
       /\ UNCHANGED <<pool, pend, dirty, slot, touched>>

FlushGets ==
    /\ fpc = "get" /\ queue # <<>>
    /\ queue' = Tail(queue)
    /\ \/ /\ queue[1] = Stop
          /\ fpc' = "done"
          /\ UNCHANGED <<fseg, poolVars, notified>>
       \/ /\ queue[1] # Stop /\ ~failure /\ ~aborting
          /\ fpc' = "flush" /\ fseg' = queue[1]
          /\ UNCHANGED <<poolVars, notified>>
       \/ /\ queue[1] # Stop /\ (failure \/ aborting)
          /\ FreeSegment(queue[1], failure)
    /\ UNCHANGED <<state, failure, aborting, creating, ever, exporterVars, abortVars, destVars>>

FlushOk ==
    /\ fpc = "flush"
    /\ flushed' = Append(flushed, fseg)
    /\ FreeSegment(fseg, failure)
    /\ UNCHANGED <<state, failure, aborting, creating, ever, queue, exporterVars, abortVars, dest, finalizing>>

FlushFails ==
    /\ fpc = "flush"
    /\ failure' = TRUE
    /\ FreeSegment(fseg, TRUE)
    /\ UNCHANGED <<state, aborting, creating, ever, queue, exporterVars, abortVars, destVars>>

\* flush_segment raised something that is not an Exception: the task ends.
FlushDies ==
    /\ fpc = "flush"
    /\ failure' = TRUE
    /\ free' = Append(free, slot[fseg])
    /\ fpc' = "dead" /\ fseg' = 0
    /\ Notify
    /\ UNCHANGED <<state, aborting, creating, ever, queue, pool, pend, dirty, slot, touched,
                   exporterVars, abortVars, destVars>>

\* Mutant: returns the segment's index instead of its slot.
ClearReturnsSegment ==
    /\ fpc = "clear"
    /\ fpc' = "get" /\ fseg' = 0
    /\ dirty' = dirty \ {slot[fseg]}
    /\ free' = Append(free, fseg)
    /\ Notify
    /\ UNCHANGED <<state, failure, aborting, creating, ever, queue, pool, pend, slot, touched,
                   exporterVars, abortVars, destVars>>

\* Slot.release after its clear; a slot that was not zeroed is not returned.
ClearEnds ==
    /\ fpc = "clear"
    /\ fpc' = "get" /\ fseg' = 0
    /\ \/ /\ dirty' = dirty \ {slot[fseg]}
          /\ free' = Append(free, slot[fseg])
          /\ UNCHANGED failure
       \/ /\ failure' = TRUE
          /\ UNCHANGED <<dirty, free>>
    /\ Notify
    /\ UNCHANGED <<state, aborting, creating, ever, queue, pool, pend, slot, touched,
                   exporterVars, abortVars, destVars>>

-----------------------------------------------------------------------------
(* abort() *)

OutsideAbort ==
    /\ apc = "none"
    /\ AbortFrom = "any" \/ (AbortFrom = "opened" /\ state # "new")
    /\ apc' = "scheduled"
    /\ UNCHANGED <<coreVars, poolVars, exporterVars, notified, flusherVars, was, outcome, destVars>>

\* _abort up to its wait for the flusher.
AbortStops ==
    /\ was' = state
    /\ aborting' = TRUE
    /\ state' = IF state = "committed" THEN state ELSE "aborted"
    /\ Notify
    /\ \/ /\ fpc # "none"
          /\ queue' = Append(queue, Stop)
          /\ apc' = "flusher"
       \/ /\ fpc = "none"
          /\ apc' = "pool"
          /\ UNCHANGED queue
    /\ UNCHANGED <<failure, creating, ever, poolVars, exporterVars, flusherVars, outcome, destVars>>

AbortBegins ==
    /\ apc = "scheduled"
    /\ \/ /\ finalizing = "running"
          /\ apc' = "finalizing"
          /\ UNCHANGED <<coreVars, poolVars, exporterVars, notified, flusherVars, was, outcome,
                         destVars>>
       \/ /\ finalizing # "running"
          /\ AbortStops

AbortAfterFinalize ==
    /\ apc = "finalizing" /\ finalizing # "running"
    /\ AbortStops

\* Mutant: does not wait for the flush in progress.
AbortIgnoresFlusher ==
    /\ apc = "flusher"
    /\ apc' = "pool"
    /\ UNCHANGED <<coreVars, poolVars, exporterVars, notified, flusherVars, was, outcome, destVars>>

AbortAfterFlusher ==
    /\ apc = "flusher" /\ fpc \in {"done", "dead"}
    /\ apc' = "pool"
    /\ UNCHANGED <<coreVars, poolVars, exporterVars, notified, flusherVars, was, outcome, destVars>>

\* pool.close, then the outcome that needs no discard.
AbortClosesPool ==
    /\ apc = "pool" /\ PoolIdle
    /\ pool' = ClosedPool
    /\ \/ /\ was = "committed"
          /\ apc' = "done" /\ outcome' = "kept"
       \/ /\ was # "committed" /\ ~creating
          /\ apc' = "done" /\ outcome' = "released"
       \/ /\ was # "committed" /\ creating
          /\ apc' = "discard" /\ UNCHANGED outcome
    /\ UNCHANGED <<coreVars, free, pend, dirty, slot, touched, exporterVars, notified,
                   flusherVars, was, destVars>>

\* Mutant: a discard that raised is reported as done.
AbortDiscardsQuietly ==
    /\ apc = "discard"
    /\ apc' = "done"
    /\ outcome' = "released"
    /\ dest' \in {"discarded", "partial"}
    /\ UNCHANGED <<coreVars, poolVars, exporterVars, notified, flusherVars, was, flushed, finalizing>>

\* discard_destination returns whether something is left, or raises.
AbortDiscards ==
    /\ apc = "discard"
    /\ apc' = "done"
    /\ \/ /\ outcome' = "released"
          /\ dest' = IF dest = "absent" THEN dest ELSE "discarded"
       \/ /\ outcome' = "kept"
          /\ dest' = "partial"
    /\ UNCHANGED <<coreVars, poolVars, exporterVars, notified, flusherVars, was, flushed, finalizing>>

\* run_sink_export re-raises after abort, or when cancelled during it.
ExporterEnds ==
    /\ xpc = "abort"
    /\ xpc' = "raised"
    /\ UNCHANGED <<coreVars, poolVars, next, notified, flusherVars, abortVars, destVars>>

-----------------------------------------------------------------------------
Ended == xpc \in {"ok", "raised"} /\ apc \in {"none", "done"} /\ pend = 0

Finished == Ended /\ UNCHANGED vars

Next ==
    \/ OpenStarts \/ PoolThreadEnds \/ OpenCreates \/ OpenPoolFails \/ OpenPoolClosed
    \/ OpenEnds \/ OpenCreateFails
    \/ BeginSegment \/ BeginWakes \/ WriteStarts \/ WriteEnds \/ Complete
    \/ ExporterInterrupted
    \/ CommitStarts \/ CommitFinalizes \/ FinalizeOk \/ FinalizeFails \/ CommitCloses
    \/ CommitReturns
    \/ FlushGets \/ FlushOk \/ FlushFails \/ FlushDies \/ ClearEnds
    \/ OutsideAbort \/ AbortBegins \/ AbortAfterFinalize \/ AbortAfterFlusher
    \/ AbortClosesPool \/ AbortDiscards \/ ExporterEnds
    \/ Finished

Spec == Init /\ [][Next]_vars

\* The event loop runs what is ready, threads end, and a hook that was called
\* returns or raises.  Nobody has to cancel or to abort from outside.
Fairness ==
    /\ WF_vars(OpenStarts \/ OpenCreates \/ OpenPoolClosed \/ OpenEnds \/ BeginSegment
               \/ BeginWakes \/ Complete \/ CommitStarts \/ CommitFinalizes \/ CommitCloses
               \/ CommitReturns)
    /\ WF_vars(pool \in {"failed", "cleaned"} /\ OpenPoolFails)
    /\ WF_vars(PoolThreadEnds) /\ WF_vars(WriteEnds)
    /\ WF_vars(FinalizeOk \/ FinalizeFails)
    /\ WF_vars(FlushGets \/ FlushOk \/ FlushFails \/ FlushDies \/ ClearEnds)
    /\ WF_vars(AbortBegins \/ AbortAfterFinalize \/ AbortAfterFlusher \/ AbortClosesPool
               \/ AbortDiscards)
    /\ WF_vars(apc = "done" /\ ExporterEnds)

FairSpec == Spec /\ Fairness

-----------------------------------------------------------------------------
(* Properties *)

\* The segments whose bytes must survive: being filled, queued, or in a flush.
Held == {s \in Segs : \/ s = next - 1 /\ xpc \in {"write", "writing"}
                      \/ \E i \in 1..Len(queue) : queue[i] = s
                      \/ s = fseg /\ fpc = "flush"}

\* No two live segments share a slot, and a live segment's slot is not free:
\* a slot is taken back only when its flush is over.
SlotsExclusive ==
    /\ \A s, t \in Held : slot[s] = slot[t] => s = t
    /\ \A s \in Held, i \in 1..Len(free) : free[i] # slot[s]

\* A live segment nothing was written to reads as zero, whatever the slot
\* held before ("a slot ... is zero again when it is handed out").
UnwrittenReadsZero == \A s \in Held : s \notin touched => slot[s] \notin dirty

\* discard_destination runs alone: no flush, no finalize, no create, and
\* never on a destination that was made final.
DiscardRunsAlone ==
    apc = "discard" => /\ fpc \in {"none", "done", "dead"}
                       /\ finalizing # "running" /\ xpc # "create"
                       /\ dest # "final" /\ state # "committed"

\* However the export ended, the pool's memory or file is released, and no
\* thread writes to it.
PoolReleased ==
    /\ Ended => pool \in {"none", "closed", "cleaned"}
    /\ pool \in {"closed", "cleaned"} => pend = 0

\* What callers are told is so: success means a final destination, an abort
\* that reports nothing kept leaves nothing behind.
OutcomeIsTrue ==
    Ended => /\ xpc = "ok" => dest = "final"
             /\ outcome = "released" => dest \in {"absent", "discarded"}
             /\ dest = "final" => outcome # "released"

\* The pool serves each segment a slot of its own that reads as zero, and is released whatever happens.
PoolIsSound == TypeOK /\ SlotsExclusive /\ UnwrittenReadsZero /\ PoolReleased

\* An abort neither interferes with the work it stops nor misreports what it leaves.
AbortsAreTrue == DiscardRunsAlone /\ OutcomeIsTrue

\* begin_segment, commit and abort never wait forever: every export ends.
ExportEnds == <>Ended

\* The sink implements the promise of LinearExport to its destination.
Destination == INSTANCE LinearExport WITH Total <- NumSegs, phase <- dest, taken <- flushed

\* Every step of the sink is a step of the destination it promises, or none: flush_segment is
\* called once per segment and in order whatever the exporter, failures and aborts do
\* meanwhile, only a complete destination is finalized, and an abort, however late, never
\* takes that back.
ImplementsLinearExport == Destination!Spec
==============================================================================
