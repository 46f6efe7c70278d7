------------------------------ MODULE ChunkWalk -------------------------------
(***************************************************************************)
(* The export of a range of a DedupFile: its extents                       *)
(* (sdk/dedup/dedup_file.py), the plan of one window after the other and   *)
(* its execution bucket by bucket (sdk/dedup/chunk_walk.py), and next to   *)
(* it DedupFile.read, which resolves the same extents.                     *)
(*                                                                         *)
(* A chunk-map record is a gap ("zero") or a template of num chunks at a   *)
(* Pool address, repeated 1 + repeat times.  A byte of content is the      *)
(* triple <<bucket, chunk index, byte of the chunk>>; every chunk decodes  *)
(* to ChunkLen bytes.  The stream id is the same for all and left out.     *)
(* Which chunks share one merged read depends on how the bucket is laid    *)
(* out: a new read begins at the chunk indices of the case's set of cuts.  *)
(***************************************************************************)
EXTENDS Integers, Sequences, FiniteSets, FiniteSetsExt, SequencesExt

CONSTANTS
    ChunkLen,      \* FIXED_CHUNK_LENGTH
    BucketChunks,  \* BUCKET_MAX_CHUNK_NUM
    BlockChunks,   \* DECODE_BLOCK_CHUNKS
    MaxMerged,     \* _MAX_MERGED_RUN, in bytes
    MaxEntries,    \* window_entries
    Files,         \* the chunk maps: sequences of records
    Starts,        \* where an exported range starts
    Tails,         \* where it ends, from the end of the last record
    CutSets        \* the chunk indices where a new merged read begins

ASSUME ChunkWalkAssumption ==
    /\ {ChunkLen, BucketChunks, BlockChunks, MaxEntries} \subseteq Nat \ {0}
    /\ MaxMerged % ChunkLen = 0 /\ MaxMerged > 0
    /\ \A s \in Starts : s \in Nat /\ s % ChunkLen = 0

VARIABLES
    case,      \* the export
    pc,        \* "plan", "exec" or "done"
    ext,       \* index of the extent the walk is at
    k,         \* the next chunk of that extent, once its bounds are known
    rest,      \* the part of the current run not planned yet, or None
    groups,    \* the window's plan: bucket -> set of ChunkRuns
    holes, zeros,          \* the window's byte counts
    entries,   \* chunks in the window
    yielded,   \* some window was yielded
    todo,      \* merged reads of the window still to decode: sequences of blocks
    out,       \* the destination: offset -> <<>> or what was written there
    total,     \* byte counts of the export: data, holes, zeros
    keys,      \* buckets planned so far
    decoded    \* chunks decoded in this window

planVars == <<ext, k, rest, groups, holes, zeros, entries, yielded, keys>>
execVars == <<todo, decoded>>
vars == <<case, pc, planVars, execVars, out, total>>

\* A finite set as a sequence, in the order of Before.
SortedBy(S, Before(_, _)) ==
    [i \in 1..Cardinality(S) |-> CHOOSE x \in S : Cardinality({y \in S : Before(y, x)}) = i - 1]

None == [len |-> 0]
Unwritten == <<>>
ZeroByte == <<0>>

-----------------------------------------------------------------------------
(* Chunk-map records and the extents of a range *)

RecordEnd(r) ==
    r.off + ChunkLen * (IF r.kind = "zero" THEN r.num ELSE r.num * (1 + r.repeat))

\* CompositionRecord.entries: from the first record that ends after start, up to end.
Entries(records, start, end) ==
    SelectSeq(records, LAMBDA r : RecordEnd(r) > start /\ r.off < end)

\* One step of _extents: acc holds the extents so far and the cursor.
AddEntry(acc, r) ==
    IF RecordEnd(r) = r.off THEN acc
    ELSE LET hole == [kind |-> "hole", off |-> acc.cursor, end |-> r.off]
             this == IF r.kind = "zero" THEN [kind |-> "zero", off |-> r.off, end |-> RecordEnd(r)]
                     ELSE [kind |-> "data", off |-> r.off, end |-> RecordEnd(r), addr |-> r.addr,
                           num |-> r.num]
         IN [extents |-> acc.extents \o (IF r.off > acc.cursor THEN <<hole, this>> ELSE <<this>>),
             cursor |-> Max({acc.cursor, RecordEnd(r)})]

\* DedupFile._extents, not truncated to the range.
Extents(records, start, end) ==
    LET acc == FoldLeft(AddEntry, [extents |-> <<>>, cursor |-> start],
                        Entries(records, start, end))
    IN IF end > acc.cursor
       THEN Append(acc.extents, [kind |-> "hole", off |-> acc.cursor, end |-> end])
       ELSE acc.extents

-----------------------------------------------------------------------------
(* Runs of chunks *)

\* Mutant: carries at the packed field's width instead of the bucket's capacity.
AdvanceWide(a, n) ==
    [bucket |-> a.bucket + (a.idx + n) \div (BucketChunks + 1),
     idx |-> (a.idx + n) % (BucketChunks + 1)]

\* ChunkAddress.advance
Advance(a, n) ==
    [bucket |-> a.bucket + (a.idx + n) \div BucketChunks, idx |-> (a.idx + n) % BucketChunks]

\* data_extent_k_bounds
KBounds(e, start, end) ==
    [first |-> (Max({e.off, start}) - e.off) \div ChunkLen,
     last |-> (Min({e.end, end}) - 1 - e.off) \div ChunkLen]

\* One step of iter_chunk_runs: the maximal run from chunk i of extent e.
RunAt(e, i, last) ==
    LET addr == Advance(e.addr, i % e.num)
    IN [addr |-> addr, k |-> i,
        len |-> Min({e.num - (i % e.num), BucketChunks - addr.idx, last - i + 1})]

\* iter_chunk_runs
Runs(e, first, last) ==
    LET from[i \in first..(last + 1)] ==
            IF i > last THEN {}
            ELSE LET run == RunAt(e, i, last) IN {run} \cup from[i + run.len]
    IN from[first]

\* Mutant: takes the template's buckets for a range of less than a whole cycle.
BucketKeysOfTemplate(records, start, end) ==
    UNION {{r.addr.bucket : r \in Runs(e, 0, e.num - 1)} :
               e \in {x \in ToSet(Extents(records, start, end)) : x.kind = "data"}}

\* iter_bucket_keys: a range of a whole cycle or more is resolved from the template.
BucketKeys(records, start, end) ==
    UNION {LET b == KBounds(e, start, end)
               whole == b.last - b.first + 1 >= e.num
           IN {r.addr.bucket : r \in IF whole THEN Runs(e, 0, e.num - 1) ELSE Runs(e, b.first, b.last)} :
               e \in {x \in ToSet(Extents(records, start, end)) : x.kind = "data"}}

\* count_planned_bytes
PlannedBytes(records, start, end) ==
    LET extents == Extents(records, start, end)
        chunks(i) == LET b == KBounds(extents[i], start, end)
                     IN IF extents[i].kind = "data" THEN b.last - b.first + 1 ELSE 0
    IN ChunkLen * MapThenSumSet(chunks, DOMAIN extents)

-----------------------------------------------------------------------------
(* Reading a bucket group: merged ranges, reads, blocks *)

\* Mutant: ranges that overlap stay apart.
MergeNextNever(acc, r) == Append(acc, r)

\* One step of merge_overlapping_ranges, over ranges <<start, end>>.
MergeNext(acc, r) ==
    IF acc # <<>> /\ r[1] <= Last(acc)[2]
    THEN [acc EXCEPT ![Len(acc)] = <<Last(acc)[1], Max({Last(acc)[2], r[2]})>>]
    ELSE Append(acc, r)

\* merge_overlapping_ranges
MergeRanges(runs) ==
    FoldLeft(MergeNext, <<>>,
             SortedBy({<<r.idx, r.idx + r.len>> : r \in runs},
                          LAMBDA a, b : a[1] < b[1] \/ (a[1] = b[1] /\ a[2] < b[2])))

\* The pieces of a range between the chunks where a new read begins.
CutRange(r, cuts) ==
    LET points == {r[1]} \cup {c \in cuts : r[1] < c /\ c < r[2]}
    IN {<<a, Min({p \in points \cup {r[2]} : p > a})>> : a \in points}

\* _split_into_blocks: a read's ranges by decode block, in order, cut at the boundaries.
SplitIntoBlocks(ranges) ==
    LET numbers == UNION {(r[1] \div BlockChunks)..((r[2] - 1) \div BlockChunks) : r \in ranges}
        inBlock(n) == {<<Max({r[1], n * BlockChunks}), Min({r[2], (n + 1) * BlockChunks})>> :
                           r \in {x \in ranges : x[1] < (n + 1) * BlockChunks /\ x[2] > n * BlockChunks}}
        order == SortedBy(numbers, <)
    IN [i \in DOMAIN order |-> inBlock(order[i])]

\* _plan_index_runs: the merged reads of a group, each as its sequence of blocks.
PlanReads(runs, cuts) ==
    LET pieces == UNION {CutRange(r, cuts) : r \in ToSet(MergeRanges(runs))}
        starts == {p[1] : p \in pieces} \cap (cuts \cup {Min({p[1] : p \in pieces})})
    IN {SplitIntoBlocks({p \in pieces : p[1] >= a /\ ~\E c \in starts : a < c /\ c <= p[1]}) :
            a \in starts}

\* _BlockPlacements.runs_for: every destination of the block's chunks.
RunsFor(runs, block) ==
    UNION {{[idx |-> Max({r[1], run.idx}),
             len |-> Min({r[2], run.idx + run.len}) - Max({r[1], run.idx}),
             dest |-> run.dest + (Max({r[1], run.idx}) - run.idx) * ChunkLen] :
                r \in {x \in block : x[1] < run.idx + run.len /\ x[2] > run.idx}} :
               run \in runs}

-----------------------------------------------------------------------------
(* Writing a block: merged writes *)

\* extend_or_start_run_at: the chunk continues the open write run and it has room.
ExtendsRun(acc, chunk) ==
    /\ acc.idxs # <<>>
    /\ chunk.dest = acc.dest + ChunkLen * Len(acc.idxs)
    /\ ChunkLen * Len(acc.idxs) < MaxMerged

MergeChunk(acc, chunk) ==
    IF ExtendsRun(acc, chunk) THEN [acc EXCEPT !.idxs = Append(@, chunk.idx)]
    ELSE [flushed |-> acc.flushed \cup {[dest |-> acc.dest, idxs |-> acc.idxs]},
          dest |-> chunk.dest, idxs |-> <<chunk.idx>>]

\* _merge_and_flush_writes, with _flush_run's truncation at the destination's size.
MergedWrites(placed, size) ==
    LET chunks == UNION {{[dest |-> r.dest + i * ChunkLen, idx |-> r.idx + i] : i \in 0..(r.len - 1)} :
                             r \in placed}
        acc == FoldLeft(MergeChunk, [flushed |-> {}, dest |-> 0, idxs |-> <<>>],
                        SortedBy(chunks, LAMBDA a, b : a.dest < b.dest))
        length(w) == Min({ChunkLen * Len(w.idxs), size - w.dest})
    IN {[dest |-> w.dest, idxs |-> w.idxs, len |-> length(w)] :
            w \in {x \in acc.flushed \cup {[dest |-> acc.dest, idxs |-> acc.idxs]} : length(x) > 0}}

-----------------------------------------------------------------------------
(* Pass 1: plan_chunks_windowed *)

Size == case.end - case.start
Walk == Extents(case.records, case.start, case.end)
AtExtent == pc = "plan" /\ rest = None /\ ext <= Len(Walk)

Init ==
    /\ \E f \in Files, s \in Starts, d \in Tails, c \in CutSets, z \in BOOLEAN :
          /\ s <= RecordEnd(Last(f)) + d
          /\ case = [records |-> f, start |-> s, end |-> RecordEnd(Last(f)) + d, cuts |-> c,
                     writeZeros |-> z]
    /\ pc = "plan" /\ ext = 1 /\ k = -1 /\ rest = None
    /\ groups = <<>> /\ holes = 0 /\ zeros = 0 /\ entries = 0 /\ yielded = FALSE
    /\ todo = {} /\ decoded = {} /\ keys = {}
    /\ out = [o \in 0..(Size - 1) |-> Unwritten]
    /\ total = [data |-> 0, holes |-> 0, zeros |-> 0]

\* Mutant: a gap that ends past the range is counted whole.
GapUnclipped(e) == [from |-> Max({e.off, case.start}), to |-> e.end]

\* _handle_gap_extent clips the extent to the range.
Gap(e) == [from |-> Max({e.off, case.start}), to |-> Min({e.end, case.end})]

PlanGap ==
    /\ AtExtent /\ Walk[ext].kind # "data"
    /\ LET gap == Gap(Walk[ext])
           n == gap.to - gap.from
       IN /\ IF Walk[ext].kind = "hole" THEN holes' = holes + n /\ UNCHANGED zeros
                                        ELSE zeros' = zeros + n /\ UNCHANGED holes
          /\ out' = IF case.writeZeros
                    THEN [o \in DOMAIN out |->
                             IF gap.from <= o + case.start /\ o + case.start < gap.to
                             THEN ZeroByte ELSE out[o]]
                    ELSE out
    /\ ext' = ext + 1
    /\ UNCHANGED <<case, pc, k, rest, groups, entries, yielded, keys, execVars, total>>

\* _walk_extents: the next maximal run of a DATA extent.
PlanRun ==
    /\ AtExtent /\ Walk[ext].kind = "data"
    /\ LET e == Walk[ext]
           b == KBounds(e, case.start, case.end)
           run == RunAt(e, IF k < 0 THEN b.first ELSE k, b.last)
       IN /\ rest' = [addr |-> run.addr, len |-> run.len,
                      dest |-> e.off - case.start + run.k * ChunkLen]
          /\ IF run.k + run.len > b.last THEN ext' = ext + 1 /\ k' = -1
             ELSE ext' = ext /\ k' = run.k + run.len
    /\ UNCHANGED <<case, pc, groups, holes, zeros, entries, yielded, keys, execVars, out, total>>

Group(b) == IF b \in DOMAIN groups THEN groups[b] ELSE {}

\* Mutant: the rest of a split run is planned for the same destination again.
RemainderInPlace(r, take) ==
    IF r.len = take THEN None
    ELSE [addr |-> Advance(r.addr, take), len |-> r.len - take, dest |-> r.dest]

\* What a window leaves of a run.
Remainder(r, take) ==
    IF r.len = take THEN None
    ELSE [addr |-> Advance(r.addr, take), len |-> r.len - take, dest |-> r.dest + take * ChunkLen]

\* Mutant: a run is planned whole even where the window has less room.
TakeWhole == rest.len

Take == Min({MaxEntries - entries, rest.len})

PlanTake ==
    /\ pc = "plan" /\ rest # None /\ entries < MaxEntries
    /\ LET b == rest.addr.bucket
           run == [idx |-> rest.addr.idx, len |-> Take, dest |-> rest.dest]
       IN /\ groups' = [g \in DOMAIN groups \cup {b} |->
                            IF g = b THEN Group(b) \cup {run} ELSE groups[g]]
          /\ keys' = keys \cup {b}
    /\ entries' = entries + Take
    /\ rest' = Remainder(rest, Take)
    /\ UNCHANGED <<case, pc, ext, k, holes, zeros, yielded, execVars, out, total>>

\* A plan is yielded: its counts are added up and exec_chunks begins on its groups.
Yield ==
    /\ yielded' = TRUE
    /\ pc' = "exec"
    /\ todo' = UNION {{[bucket |-> b, blocks |-> read] : read \in PlanReads(groups[b], case.cuts)} :
                          b \in DOMAIN groups}
    /\ decoded' = {}
    /\ total' = [total EXCEPT !.holes = @ + holes, !.zeros = @ + zeros]
    /\ UNCHANGED <<case, ext, k, rest, groups, holes, zeros, entries, keys, out>>

PlanFull == pc = "plan" /\ rest # None /\ entries >= MaxEntries /\ Yield

AnythingLeft == ~yielded \/ groups # <<>> \/ holes > 0 \/ zeros > 0

\* The last window.  A full window is yielded only for a chunk that has no room in it, so
\* there is always something left: a walk that ended without would be a deadlock.
PlanEnd == pc = "plan" /\ rest = None /\ ext > Len(Walk) /\ AnythingLeft /\ Yield

-----------------------------------------------------------------------------
(* Pass 2: exec_chunks, the blocks of different reads in any order *)

ChunksOf(bucket, block) == UNION {{<<bucket, i>> : i \in r[1]..(r[2] - 1)} : r \in block}

\* exec_one_bucket_group's _write_block
WriteBlock ==
    /\ pc = "exec"
    /\ \E t \in todo :
          LET block == Head(t.blocks)
              writes == MergedWrites(RunsFor(groups[t.bucket], block), Size)
              covers(w, o) == w.dest <= o /\ o < w.dest + w.len
          IN /\ out' = [o \in DOMAIN out |->
                           IF \E w \in writes : covers(w, o)
                           THEN LET w == CHOOSE w \in writes : covers(w, o)
                                IN <<t.bucket, w.idxs[(o - w.dest) \div ChunkLen + 1],
                                     (o - w.dest) % ChunkLen>>
                           ELSE out[o]]
             /\ total' = [total EXCEPT !.data = @ + MapThenSumSet(LAMBDA w : w.len, writes)]
             /\ decoded' = decoded \cup ChunksOf(t.bucket, block)
             /\ todo' = (todo \ {t}) \cup
                   (IF Len(t.blocks) = 1 THEN {} ELSE {[t EXCEPT !.blocks = Tail(@)]})
    /\ UNCHANGED <<case, pc, planVars>>

ExecEnds ==
    /\ pc = "exec" /\ todo = {}
    /\ pc' = IF rest = None /\ ext > Len(Walk) THEN "done" ELSE "plan"
    /\ groups' = <<>> /\ holes' = 0 /\ zeros' = 0 /\ entries' = 0
    /\ UNCHANGED <<case, ext, k, rest, yielded, keys, execVars, out, total>>

Done == pc = "done" /\ UNCHANGED vars

Next == PlanGap \/ PlanRun \/ PlanTake \/ PlanFull \/ PlanEnd \/ WriteBlock \/ ExecEnds \/ Done

Spec == Init /\ [][Next]_vars

-----------------------------------------------------------------------------
(* DedupFile.read *)

\* Mutant: a chunk the segment covers in part is left out.
ClipWhole(chunkStart, segStart, segEnd) ==
    IF segStart <= chunkStart /\ chunkStart + ChunkLen <= segEnd THEN 0..(ChunkLen - 1) ELSE {}

\* _copy_group: the bytes of a chunk inside the segment.
Clip(chunkStart, segStart, segEnd) ==
    Max({segStart - chunkStart, 0})..(Min({segEnd - chunkStart, ChunkLen}) - 1)

\* The copies that fill [start, end) from one DATA extent: <<file offset, content>>.
Copies(e, start, end) ==
    LET segStart == Max({e.off, start})
        segEnd == Min({e.end, end})
        b == KBounds(e, segStart, segEnd)
        copy(run, i) == LET chunkStart == e.off + (run.k + i) * ChunkLen
                        IN {<<chunkStart + j, <<run.addr.bucket, run.addr.idx + i, j>>>> :
                                j \in Clip(chunkStart, segStart, segEnd)}
    IN UNION {UNION {copy(run, i) : i \in 0..(run.len - 1)} : run \in Runs(e, b.first, b.last)}

ReadBytes(records, start, end) ==
    LET copies == UNION {Copies(e, start, end) :
                             e \in {x \in ToSet(Extents(records, start, end)) : x.kind = "data"}}
    IN [x \in start..(end - 1) |->
            IF \E c \in copies : c[1] = x THEN (CHOOSE c \in copies : c[1] = x)[2] ELSE ZeroByte]

-----------------------------------------------------------------------------
(* Properties *)

TypeOK ==
    /\ pc \in {"plan", "exec", "done"}
    /\ ext \in 1..(Len(Walk) + 1) /\ k \in Nat \cup {-1}
    /\ rest.len \in Nat
    /\ \A b \in DOMAIN groups : \A r \in groups[b] :
          r.idx \in 0..(BucketChunks - 1) /\ r.idx + r.len <= BucketChunks /\ r.dest \in 0..(Size - 1)
    /\ {holes, zeros, entries, total.data, total.holes, total.zeros} \subseteq Nat
    /\ yielded \in BOOLEAN

\* Reference: the content of byte x of the file, straight from the record that covers it.
Content(records, x) ==
    LET covering == {i \in DOMAIN records : records[i].off <= x /\ x < RecordEnd(records[i])
                                             /\ records[i].kind = "data"}
    IN IF covering = {} THEN ZeroByte
       ELSE LET r == records[CHOOSE i \in covering : TRUE]
                chunk == r.addr.bucket * BucketChunks + r.addr.idx + (((x - r.off) \div ChunkLen) % r.num)
            IN <<chunk \div BucketChunks, chunk % BucketChunks, x % ChunkLen>>

\* An export writes to every offset of the range the byte the chunk map says is there;
\* zeros are written where the destination asks for them and left unwritten elsewhere.
ExportIsContent ==
    pc = "done" =>
        \A o \in DOMAIN out :
            LET byte == Content(case.records, case.start + o)
            IN out[o] = IF byte = ZeroByte /\ ~case.writeZeros THEN Unwritten ELSE byte

\* Every byte of the range is counted once, as data written, hole or zeros.
CountsAddUp == pc = "done" => total.data + total.holes + total.zeros = Size

\* A window never holds more than window_entries chunks, which is what bounds its memory.
WindowIsBounded ==
    /\ entries <= MaxEntries
    /\ entries = MapThenSumSet(LAMBDA b : MapThenSumSet(LAMBDA r : r.len, groups[b]), DOMAIN groups)

\* Within a window no chunk is decoded twice, however often the content refers to it.
DecodedOnce ==
    \A t \in todo : \A i \in DOMAIN t.blocks :
        LET chunks == ChunksOf(t.bucket, t.blocks[i])
        IN /\ chunks \cap decoded = {}
           /\ \A r, q \in t.blocks[i] : r # q => r[2] <= q[1] \/ q[2] <= r[1]
           /\ \A u \in todo : \A j \in DOMAIN u.blocks :
                 <<t, i>> # <<u, j>> => chunks \cap ChunksOf(u.bucket, u.blocks[j]) = {}

\* iter_bucket_keys names exactly the buckets the plan of the range visits.
KeysAreThePlans ==
    pc = "done" => keys = BucketKeys(case.records, case.start, case.end)

\* read of any part of the file, aligned or not, returns what the chunk map says.
ReadIsContent ==
    pc = "done" =>
        \A s \in case.start..case.end : \A t \in s..case.end :
            ReadBytes(case.records, s, t) = [x \in s..(t - 1) |-> Content(case.records, x)]

\* The total that progress is measured against is what gets written, but for the tail of a range that
\* ends inside a chunk: planned_bytes counts that chunk whole, the write is cut at the end.
PlannedIsReached ==
    pc = "done" =>
        LET over == PlannedBytes(case.records, case.start, case.end) - total.data
        IN over \in 0..(ChunkLen - 1) /\ (case.end % ChunkLen = 0 => over = 0)

\* Exported or read, a byte is what the chunk map says it is.
ContentIsRight == ExportIsContent /\ ReadIsContent

\* What is planned is what is done: every byte counted once, every chunk decoded once, every bucket and
\* byte announced.
PlansAreExact == TypeOK /\ CountsAddUp /\ DecodedOnce /\ KeysAreThePlans /\ PlannedIsReached
-----------------------------------------------------------------------------
(* Instances: files of up to two chunk-map records, in small units: two     *)
(* bytes a chunk, three chunks a bucket, two a decode block, two a merged   *)
(* write.                                                                   *)

Addresses == [bucket : {0}, idx : 0..(BucketChunks - 1)]

\* Records at an offset: templates that end inside their bucket, at its end or past it,
\* alone or repeated, and an empty one.
RecordsAt(o) ==
    [kind : {"data"}, off : {o}, addr : Addresses, num : 1..4, repeat : 0..1]
    \cup [kind : {"data"}, off : {o}, addr : {[bucket |-> 0, idx |-> 1]}, num : {0, 2}, repeat : {2}]
    \cup [kind : {"zero"}, off : {o}, num : 1..2]

OneRecord == {<<r>> : r \in RecordsAt(0) \cup RecordsAt(ChunkLen)}

\* A second record that follows, or leaves a hole of a chunk, and shares a bucket.
TwoRecords ==
    UNION {{<<r, s>> : s \in [kind : {"data"}, off : {RecordEnd(r), RecordEnd(r) + ChunkLen},
                              addr : {[bucket |-> 0, idx |-> 2], [bucket |-> 1, idx |-> 0]},
                              num : {2}, repeat : {0, 1}]
                       \cup [kind : {"zero"}, off : {RecordEnd(r)}, num : {1}]} :
               r \in RecordsAt(0)}

\* From the first chunk or a later one, to the end, inside a chunk or past the last record.
AllFiles == OneRecord \cup TwoRecords
AllStarts == {0, ChunkLen, 3 * ChunkLen}
AllTails == {-3, -1, 0, 1}
AllCuts == {{}, {1}, {2}}
=============================================================================
