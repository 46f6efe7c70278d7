--------------------------- MODULE ExportScheduler ---------------------------
(***************************************************************************)
(* run_export over a disk of fragments (sdk/api/export.py,                 *)
(* units/content/pcps_disk.py, dedup/export_scheduler.py,                  *)
(* dedup/export_workers.py, dedup/pool_descriptor.py): segments of the     *)
(* sink, fragments of a segment, windows of a fragment, each window run in *)
(* this process or handed to worker processes, which are built at one of   *)
(* three levels and write through a target of their own.                   *)
(*                                                                         *)
(* Positions count units of 4096 bytes.  A fragment is [start, end, pool,  *)
(* cell]: cell gives each of its positions "d" (data), "z" or "h"; a pool  *)
(* is what a PoolDescriptor compares, or NoPool where the store cannot be  *)
(* rebuilt.                                                                *)
(***************************************************************************)
EXTENDS Integers, Sequences, FiniteSets, SequencesExt, FiniteSetsExt

CONSTANTS
    Contents,          \* disks: [size, frags]
    Sinks,             \* [seg (0: one segment), worker, sparse, reserved]
    Tunings,           \* [workers, executor]: executor is the caller's, or NoExec
    WindowEntries,     \* units planned per window
    MinWorkerGroups    \* _MIN_WORKER_GROUPS

NoPool == "none"
NoExec == [pool |-> NoPool, dst |-> NoPool]
ZeroUnit == <<"zero">>

VARIABLES
    content, sink, tuning, sparse,   \* what run_export was called with
    at,        \* where it is: [pc, seg, frag, pos]
    execs,     \* level -> the ExportExecutor built there
    open,      \* levels whose executor is open
    out,       \* position of the sink's storage -> what was written there
    count,     \* ExportResult in the making
    wrong      \* whether a window went to workers of another repository or destination
exportVars == <<content, sink, tuning, sparse, at, execs, open, out, count, wrong>>

Levels == {"segments", "fragments", "file"}

(* Fragments of a disk *)
Covers(f, x) == f.start <= x /\ x < f.end

\* Of the fragments that cover a position the one with the higher start wins, a later one a tie.
Winner(frags, x) == Max({i \in DOMAIN frags : Covers(frags[i], x)})

\* _winning_segments: intervals between neighbouring bounds, merged where the winner stays.
WinningSegments(frags) ==
    LET bounds == SetToSortSeq(UNION {{frags[i].start, frags[i].end} : i \in DOMAIN frags}, <)
        AddInterval(segs, k) ==
            LET a == bounds[k]
                owners == {i \in DOMAIN frags : Covers(frags[i], a)}
                w == Winner(frags, a)
            IN IF owners = {} THEN segs
               ELSE IF segs # <<>> /\ Last(segs).frag = w /\ Last(segs).end = a
                    THEN [segs EXCEPT ![Len(segs)].end = bounds[k + 1]]
                    ELSE Append(segs, [frag |-> w, start |-> a, end |-> bounds[k + 1]])
    IN FoldLeft(AddInterval, <<>>, [k \in 1..Len(bounds) - 1 |-> k])

\* The pieces of the winning segments inside a range.
Clipped(c, start, end) ==
    LET inside == SelectSeq(WinningSegments(c.frags), LAMBDA s : s.start < end /\ s.end > start)
    IN [i \in DOMAIN inside |-> [inside[i] EXCEPT !.start = Max({@, start}), !.end = Min({@, end})]]

\* VirtualDiskContentSource.read: what a read of the whole disk returns.
ReadDisk(c) ==
    [x \in 0..c.size - 1 |->
        IF \E s \in Range(Clipped(c, 0, c.size)) : s.start <= x /\ x < s.end
        THEN LET s == CHOOSE s \in Range(Clipped(c, 0, c.size)) : s.start <= x /\ x < s.end
             IN IF c.frags[s.frag].cell[x] = "d" THEN <<s.frag, x>> ELSE ZeroUnit
        ELSE ZeroUnit]

DiskPlannedBytes(c) ==
    Cardinality(UNION {{x \in s.start..s.end - 1 : c.frags[s.frag].cell[x] = "d"} : s \in Range(Clipped(c, 0, c.size))})

(* Descriptors *)
\* common_descriptor, and VirtualDiskContentSource.pool_descriptor, which compares the whole disk's.
CommonDescriptor(pools) == IF Cardinality(pools) = 1 THEN CHOOSE p \in pools : TRUE ELSE NoPool
DiskPoolDescriptor(c) == CommonDescriptor({f.pool : f \in Range(c.frags)})
\* ExportExecutor.accepts
Accepts(executor, pool, target) == pool = executor.pool /\ target # NoPool /\ target = executor.dst

\* needs_zero_fill
NeedsZeroFill == (~sparse \/ ~sink.sparse) /\ ~sink.reserved

(* The levels *)
Ranges == IF sink.seg = 0 THEN <<[start |-> 0, end |-> content.size]>>
          ELSE [i \in 1..(content.size + sink.seg - 1) \div sink.seg |->
                   [start |-> (i - 1) * sink.seg, end |-> Min({i * sink.seg, content.size})]]
Seg == Ranges[at.seg]
Pieces == Clipped(content, Seg.start, Seg.end)
Piece == Pieces[at.frag]
Frag == content.frags[Piece.frag]

\* Slot of a segment: two slots, used in turn; its base is what a worker's offset is relative to.
SlotBase == IF sink.seg = 0 THEN 0 ELSE ((at.seg - 1) % 2) * sink.seg
Target == IF sink.worker THEN "dst" ELSE NoPool
\* OffsetWriter over the segment's writer: the parent's writes and the workers' shift alike.
WriterBase == SlotBase + Piece.start - Seg.start
WorkerBaseUnshifted == SlotBase
WorkerBase == SlotBase + Piece.start - Seg.start

\* The executor in force: the caller's, else the one of the outermost level that built one.
Given(levels) ==
    IF tuning.executor # NoExec THEN tuning.executor
    ELSE IF \E l \in levels : execs[l] # NoExec THEN execs[CHOOSE l \in levels : execs[l] # NoExec] ELSE NoExec
BuildsWorkers(levels) == Given(levels) = NoExec /\ tuning.workers > 0
Build(level, pool) == execs' = [execs EXCEPT ![level] = [pool |-> pool, dst |-> Target]] /\ open' = open \union {level}
NoBuild == UNCHANGED <<execs, open>>
\* What a finally closes: the executors these levels own.
CloseSome(levels) == open' = open \ (levels \ {"file"}) /\ execs' = [l \in Levels |-> IF l \in levels THEN NoExec ELSE execs[l]]
CloseOwned(levels) == open' = open \ levels /\ execs' = [l \in Levels |-> IF l \in levels THEN NoExec ELSE execs[l]]

ExportInit ==
    /\ content \in Contents /\ sink \in Sinks /\ tuning \in Tunings /\ sparse \in BOOLEAN
    /\ at = [pc |-> "segment", seg |-> 1, frag |-> 1, pos |-> 0]
    /\ execs = [l \in Levels |-> NoExec] /\ open = {}
    /\ out = <<>> /\ count = [data |-> 0, holes |-> 0, zeros |-> 0, size |-> 0] /\ wrong = FALSE

Inputs == UNCHANGED <<content, sink, tuning, sparse>>

\* _export_segments: begin_segment; the first one builds the workers all of them share.
BeginSegment ==
    /\ at.pc = "segment" /\ at.seg <= Len(Ranges)
    /\ LET pool == DiskPoolDescriptor(content) IN
       IF at.seg = 1 /\ Len(Ranges) > 1 /\ BuildsWorkers({}) /\ pool # NoPool /\ Target # NoPool
       THEN Build("segments", pool) ELSE NoBuild
    /\ at' = [at EXCEPT !.pc = "pieces", !.frag = 1]
    \* The sink flushed what the slot held before; it reads as zero again.
    /\ out' = IF sink.seg = 0 THEN out ELSE [x \in {y \in DOMAIN out : y \notin SlotBase..SlotBase + sink.seg - 1} |-> out[x]]
    /\ Inputs /\ UNCHANGED <<count, wrong>>

\* export_fragments_to_writer: workers up front when every fragment can share them.
BeginPieces ==
    /\ at.pc = "pieces"
    /\ LET pool == CommonDescriptor({content.frags[p.frag].pool : p \in Range(Pieces)}) IN
       IF BuildsWorkers({"segments"}) /\ pool # NoPool /\ Target # NoPool THEN Build("fragments", pool) ELSE NoBuild
    /\ at' = [at EXCEPT !.pc = "piece"]
    /\ Inputs /\ UNCHANGED <<out, count, wrong>>

\* export_to_writer: _WorkerPoolChoice refuses an executor of another repository or destination.
BeginPiece ==
    /\ at.pc = "piece" /\ at.frag <= Len(Pieces)
    /\ LET given == Given({"segments", "fragments"}) IN
       given = NoExec \/ Accepts(given, Frag.pool, Target)
    /\ at' = [at EXCEPT !.pc = "window", !.pos = Piece.start]
    /\ Inputs /\ UNCHANGED <<execs, open, out, count, wrong>>

Window == at.pos..Min({at.pos + WindowEntries, Piece.end}) - 1
Data == {x \in Window : Frag.cell[x] = "d"}
Fill == IF NeedsZeroFill THEN Window \ Data ELSE {}
Written(base) == [k \in {base + x - Piece.start : x \in Data} |-> <<Piece.frag, k - base + Piece.start>>]
Filled == [k \in {WriterBase + x - Piece.start : x \in Fill} |-> ZeroUnit]

\* _WorkerPoolChoice.for_plan: the file builds workers of its own for a window of many groups.
ForPlan ==
    /\ BuildsWorkers(Levels) /\ Frag.pool # NoPool /\ Target # NoPool
    /\ Cardinality(Data) >= MinWorkerGroups

\* One window: for_plan chooses, the workers or exec_chunks write the data, the walk the gaps.
RunWindow ==
    /\ at.pc = "window" /\ at.pos < Piece.end
    /\ LET given == Given(Levels)
           remote == given # NoExec \/ ForPlan
       IN /\ IF ForPlan THEN Build("file", Frag.pool) ELSE NoBuild
          /\ out' = Written(IF remote THEN WorkerBase ELSE WriterBase) @@ Filled @@ out
          /\ wrong' = (wrong \/ (given # NoExec /\ (given.pool # Frag.pool \/ given.dst # Target)))
    /\ count' = [count EXCEPT !.data = @ + Cardinality(Data), !.size = @ + Cardinality(Window),
                              !.holes = @ + Cardinality({x \in Window : Frag.cell[x] = "h"}),
                              !.zeros = @ + Cardinality({x \in Window : Frag.cell[x] = "z"})]
    /\ at' = [at EXCEPT !.pos = @ + WindowEntries]
    /\ Inputs

\* _WorkerPoolChoice.close
EndPiece ==
    /\ at.pc = "window" /\ at.pos >= Piece.end
    /\ CloseOwned({"file"})
    /\ at' = [at EXCEPT !.pc = "piece", !.frag = @ + 1]
    /\ Inputs /\ UNCHANGED <<out, count, wrong>>

\* _gaps_within: what no piece covers is a hole.
GapsWithin == {x \in Seg.start..Seg.end - 1 : ~\E p \in Range(Pieces) : p.start <= x /\ x < p.end}
EndPieces ==
    /\ at.pc = "piece" /\ at.frag > Len(Pieces)
    /\ out' = IF NeedsZeroFill THEN [k \in {SlotBase + x - Seg.start : x \in GapsWithin} |-> ZeroUnit] @@ out ELSE out
    /\ count' = [count EXCEPT !.holes = @ + Cardinality(GapsWithin), !.size = @ + Cardinality(GapsWithin)]
    /\ CloseOwned({"fragments"})
    /\ at' = [at EXCEPT !.pc = "complete"]
    /\ Inputs /\ UNCHANGED wrong

\* writer.complete(); after the last segment the workers close and the sink commits.
EndSegment ==
    /\ at.pc = "complete"
    /\ IF at.seg < Len(Ranges) THEN at' = [at EXCEPT !.pc = "segment", !.seg = @ + 1] /\ NoBuild
                               ELSE at' = [at EXCEPT !.pc = "done"] /\ CloseOwned({"segments"})
    /\ Inputs /\ UNCHANGED <<out, count, wrong>>

\* A read, a worker, the sink or the task's cancellation ends it; every finally on the way out runs.
Fails ==
    /\ at.pc \in {"segment", "pieces", "piece", "window", "complete"}
    /\ CloseOwned(Levels)
    /\ at' = [at EXCEPT !.pc = "failed"]
    /\ Inputs /\ UNCHANGED <<out, count, wrong>>

ExportNext == BeginSegment \/ BeginPieces \/ BeginPiece \/ RunWindow \/ EndPiece \/ EndPieces \/ EndSegment \/ Fails

-----------------------------------------------------------------------------
\* The winner at each position: the covering fragment with the greatest start.
DiskContent(c, x) ==
    LET owners == {i \in DOMAIN c.frags : Covers(c.frags[i], x)}
        w == CHOOSE i \in owners : \A j \in owners : c.frags[j].start < c.frags[i].start \/ (c.frags[j].start = c.frags[i].start /\ j <= i)
    IN IF owners = {} THEN ZeroUnit ELSE IF c.frags[w].cell[x] = "d" THEN <<w, x>> ELSE ZeroUnit

\* What the sink is told is complete is the content of that segment, whether this process or workers
\* wrote it; what nobody wrote is zero there only if the sink promises it.
SegmentIsContent ==
    at.pc = "complete" =>
        \A x \in Seg.start..Seg.end - 1 :
            LET k == SlotBase + x - Seg.start
            IN IF k \in DOMAIN out THEN out[k] = DiskContent(content, x)
               ELSE DiskContent(content, x) = ZeroUnit /\ (sink.reserved \/ (sparse /\ sink.sparse))

\* The result adds up, and its data is what progress was told to expect (planned_bytes).
ResultAddsUp ==
    at.pc = "done" =>
        /\ count.size = content.size /\ count.data + count.holes + count.zeros = count.size
        /\ count.data = DiskPlannedBytes(content)
        /\ \A x \in 0..content.size - 1 : ReadDisk(content)[x] = DiskContent(content, x)

\* Worker processes are shut down by the level that built them on every way out, a caller's are left
\* alone, and a window only goes to workers of its own repository and destination.
WorkersAreBound ==
    /\ at.pc \in {"done", "failed"} => open = {}
    /\ at.pc = "segment" => open \subseteq {"segments"}
    /\ Cardinality(open) <= 1
    /\ ~wrong
-----------------------------------------------------------------------------
(* The destination file as a sequence of units: positional reads and writes *)
(* that continue after a short transfer (sdk/positional_io.py), creating,  *)
(* reserving and zeroing it (sdk/dedup/local_file_io.py).  step is what    *)
(* one system call transfers at most, 0 when it makes no progress.         *)
Block == 2           \* ZERO_FILL_BLOCK, in units
Unsupported == {"EOPNOTSUPP", "EINVAL"}
PunchUnsupported == {"EOPNOTSUPP"}
FileErr(e) == [ok |-> FALSE, err |-> e]
FileOk(f) == [ok |-> TRUE, file |-> f]
Zeros(n) == [i \in 1..n |-> 0]

\* One call: _read_once, os.pread.  Nothing at or past the end.
ReadOnce(file, length, offset, step) == SubSeq(file, offset + 1, Min({offset + length, offset + step, Len(file)}))
PRead(file, length, offset, step) ==
    LET Rest[got \in 0..length] ==
            LET more == ReadOnce(file, length - got, offset + got, step)
            IN IF got = length \/ more = <<>> THEN <<>> ELSE more \o Rest[got + Len(more)]
    IN Rest[0]

\* One call: _write_once, os.pwrite; the file grows, a gap reads as zero.
WriteOnce(file, data, offset, step) ==
    LET n == Min({Len(data), step})
    IN [i \in 1..Max({Len(file), IF n = 0 THEN 0 ELSE offset + n}) |->
            IF i > offset /\ i <= offset + n THEN data[i - offset] ELSE IF i <= Len(file) THEN file[i] ELSE 0]
\* Where the call starts that writes the n-th of units written step by step.
CallStart(n, step) == ((n - 1) \div step) * step
PWrite(file, data, offset, step) ==
    LET After[n \in 0..Len(data)] ==
            IF n = 0 THEN file
            ELSE LET pos == CallStart(n, step)
                 IN WriteOnce(After[pos], SubSeq(data, pos + 1, n), offset + pos, step)
    IN IF step = 0 /\ data # <<>> THEN FileErr("EIO") ELSE FileOk(After[Len(data)])

\* create_presized: a new file of exactly that size (ftruncate, or the Win32 calls).
CreatePresized(size) == Zeros(size)

\* preallocate: platform is "mac" (empties and extends the file), "posix" or "none"; err is what the
\* call reports, "" for success.  reserved says whether the space is there.
Preallocate(file, size, platform, err) ==
    CASE size <= 0 -> [ok |-> TRUE, reserved |-> TRUE, file |-> file]
      [] size > 0 /\ platform = "none" -> [ok |-> TRUE, reserved |-> FALSE, file |-> file]
      [] size > 0 /\ platform # "none" /\ err \notin Unsupported \union {""} -> FileErr(err)
      [] OTHER -> [ok |-> TRUE, reserved |-> err = "", file |-> IF platform = "mac" THEN Zeros(size) ELSE file]

WriteZerosAtOneBlock(file, offset, length) == WriteOnce(file, Zeros(length), offset, Block)

WriteZerosAt(file, offset, length) ==
    LET After[n \in 0..length] ==
            IF n = 0 THEN file
            ELSE LET pos == CallStart(n, Block)
                 IN WriteOnce(After[pos], Zeros(n - pos), offset + pos, Block)
    IN After[length]

\* _punch: deallocates within the file, which keeps its size.
Punch(file, offset, length) == [i \in 1..Len(file) |-> IF i > offset /\ i <= offset + length THEN 0 ELSE file[i]]

\* zero_range: err is what a punch reports; disabled is _punch_disabled, kept for the process.
ZeroRange(file, offset, length, disabled, err) ==
    IF length <= 0 THEN [file |-> file, disabled |-> disabled]
    ELSE IF ~disabled /\ err = "" THEN [file |-> Punch(file, offset, length), disabled |-> FALSE]
    ELSE [file |-> WriteZerosAt(file, offset, length), disabled |-> disabled \/ err \in PunchUnsupported]

\* A read returns what is there, a write lands whole, whatever single calls transfer.
TransfersAreWhole(file, data, offset, step) ==
    LET w == PWrite(file, data, offset, step)
    IN /\ step > 0 => w.ok /\ PRead(w.file, Len(data), offset, step) = data
                       /\ \A i \in DOMAIN file : i <= offset \/ i > offset + Len(data) => w.file[i] = file[i]
       /\ step > 0 => PRead(file, Len(data), offset, step) = SubSeq(file, offset + 1, Min({offset + Len(data), Len(file)}))

\* A slot that is cleared reads as zero and its neighbours are untouched, by whichever way; a
\* destination reported as reserved reads as zero at its full size.
ZeroingIsExact(file, offset, length, disabled, err) ==
    LET z == ZeroRange(file, offset, length, disabled, err).file
    IN /\ Len(z) = Len(file)
       /\ \A i \in DOMAIN file : z[i] = IF i > offset /\ i <= offset + length THEN 0 ELSE file[i]
ReservingKeepsZeros(size, platform, err) ==
    LET p == Preallocate(CreatePresized(size), size, platform, err)
    IN p.ok => p.file = Zeros(size)
=============================================================================
