----------------------------- MODULE BucketFormat -----------------------------
(***************************************************************************)
(* A .buk file and its reader: format/bucket.py, redundancy.py, headers.py,*)
(* compression.py and crypto.py, BucketReader (dedup/pool/_bucket_reader.py*)
(* without its tasks, which ExecChunks has).                               *)
(*                                                                         *)
(* The file is scaled down: the SizeStore is a sequence of bits with       *)
(* TypeBits + LenBits to a record; what follows the header and it is a     *)
(* sequence of cells.  A chunk's stored byte is the cell <<i, k>>: byte k  *)
(* of chunk i as the writer compressed and encrypted it; Garbage is a cell *)
(* changed on disk.  A CRC32 is the checked sequence itself: collisions    *)
(* are left out.                                                           *)
(***************************************************************************)
EXTENDS Integers, Sequences, SequencesExt, FiniteSets, FiniteSetsExt, Functions

CONSTANTS
    TypeBits, LenBits,  \* 3 and 12 in SIZE_STORE_REC_BIT_NUM
    Coverage,           \* REDUNDANCY_COVERAGE_BUCKET
    GapTolerance,       \* _GAP_TOLERANCE
    DecodeBlock,        \* DECODE_BLOCK_CHUNKS
    MaxMajor            \* _MAJOR_VAULT

Good(v) == [ok |-> TRUE, v |-> v]
Fails(e) == [ok |-> FALSE, error |-> e]
FormatError == "FormatError"
DataCorrupt == "DataCorruptError"
Unsupported == "UnsupportedVersionError"
Compacted == "ChunkCompactedError"
KeyRequired == "KeyRequiredError"

Garbage == <<-1, 0>>
Crc(cells) == FlattenSeq(cells)

\* store.read: what the file still has of the range.
StoreRead(file, offset, length) == SubSeq(file, offset + 1, Min({offset + length, Len(file)}))

\* parse_index_header: the checks in their order.
ParseIndexHeader(h, maxMajor) ==
    IF h.short THEN Fails(FormatError)
    ELSE IF ~h.magic \/ ~h.crc THEN Fails(DataCorrupt)
    ELSE IF h.major > maxMajor THEN Fails(Unsupported)
    ELSE Good(h)

\* parse_bucket_header
ParseBucketHeader(h) == ParseIndexHeader(h, MaxMajor)

----------------------------------------------------------------------------
(* Redundancy: a checkpoint of the rolling CRC per window, and the XOR of the even and of the odd      *)
(* windows.                                                                                            *)

CeilDiv(a, b) == (a + b - 1) \div b
WindowsOf(n, cov) == CeilDiv(n, cov)
WindowSpan(idx, cov, n) == (idx * cov + 1)..Min({(idx + 1) * cov, n})
ParityLen(n, cov) == Min({n, 2 * cov})
RedundancySize(n, cov) == 1 + WindowsOf(n, cov) + ParityLen(n, cov)
Xor(bits) == FoldLeft(LAMBDA a, b : (a + b) % 2, 0, bits)

\* Bit k of a parity half over the windows of that half that reach it, skip left out.
HalfXor(data, cov, half, k, skip) ==
    Xor([p \in 1..Len(data) |->
            IF ((p - 1) \div cov) % 2 = half /\ ((p - 1) % cov) + 1 = k /\ (p - 1) \div cov # skip
            THEN data[p] ELSE 0])

\* What the writer appends: a header cell, the checkpoints, the parity.
RedundancyOf(data, cov) ==
    <<<<cov, Len(data)>>>>
      \o [w \in 1..WindowsOf(Len(data), cov) |-> SubSeq(data, 1, Min({w * cov, Len(data)}))]
      \o [p \in 1..ParityLen(Len(data), cov) |->
            <<HalfXor(data, cov, (p - 1) \div cov, ((p - 1) % cov) + 1, -1)>>]

ParseRedundancyBlob(raw, n, cov) ==
    IF Len(raw) < RedundancySize(n, cov) \/ raw[1] # <<cov, n>> THEN Fails(FormatError)
    ELSE Good([steps |-> SubSeq(raw, 2, 1 + WindowsOf(n, cov)),
               parity |-> SubSeq(raw, 2 + WindowsOf(n, cov), RedundancySize(n, cov))])

FirstBad(bad) == IF bad = {} THEN -1 ELSE Min(bad) - 1
LocateFirstBadWindow(blob, data, cov) ==
    FirstBad({w \in DOMAIN blob.steps : blob.steps[w] # SubSeq(data, 1, Min({w * cov, Len(data)}))})

\* A parity cell that is not a bit any more leaves a wrong bit.
ReconstructWindow(data, blob, idx, cov) ==
    [p \in WindowSpan(idx, cov, Len(data)) |->
        LET half == idx % 2
            k == ((p - 1) % cov) + 1
            par == blob.parity[half * cov + k]
        IN IF par \in {<<0>>, <<1>>} THEN (par[1] + HalfXor(data, cov, half, k, idx)) % 2
           ELSE 1 - data[p]]

\* Mutant: rebuilds the first bad window only.
ReconstructedFirst(bad, n) == {bad}

\* The first bad window, and the one after it when there is one.
Reconstructed(bad, n) == {bad, bad + 1} \cap 0..n - 1

Patched(data, blob, bad, cov) ==
    [p \in 1..Len(data) |->
        IF (p - 1) \div cov \in Reconstructed(bad, WindowsOf(Len(data), cov))
        THEN ReconstructWindow(data, blob, (p - 1) \div cov, cov)[p] ELSE data[p]]
OnlyIf(data, crc) == IF data = crc THEN Good(data) ELSE Fails("none")
RepairAt(data, blob, bad, cov, crc) == IF bad = -1 THEN Fails("none") ELSE OnlyIf(Patched(data, blob, bad, cov), crc)
RepairWith(data, blob, cov, crc) ==
    IF ~blob.ok \/ Len(data) = 0 THEN Fails("none")
    ELSE RepairAt(data, blob.v, LocateFirstBadWindow(blob.v, data, cov), cov, crc)
AttemptRepair(data, raw, cov, crc) == RepairWith(data, ParseRedundancyBlob(raw, Len(data), cov), cov, crc)

----------------------------------------------------------------------------
(* SizeStore and index.  Chunks count from 0, as in the code. *)

TNone == 0
TPacked == 1            \* LZ4 and ZSTD
TCompacted == 2
KnownTypes == {TNone, TPacked, TCompacted}
FullLen == 2^LenBits    \* FIXED_CHUNK_LENGTH
RecBits == TypeBits + LenBits
ToInt(bits) == FoldLeft(LAMBDA a, b : 2 * a + b, 0, bits)
TightLength(n) == n * RecBits
ReservedLeng == 2       \* header and SizeStore, where the cells begin
CrcSize == 1

EffectiveLen(t, stored) == CASE t = TNone -> FullLen [] t = TCompacted -> 0 [] OTHER -> stored

\* BucketIndex.of: chunks back to back from start.
LaidOut(types, lens, start) ==
    [types |-> types, lens |-> lens,
     offsets |-> [i \in DOMAIN types |-> start + FoldFunctionOnSet(+, 0, lens, 0..i - 1)]]
IndexOf(types, stored, start) ==
    LaidOut(types, [i \in DOMAIN types |-> EffectiveLen(types[i], stored[i])], start)
UncompressedIndex(n) == IndexOf([i \in 0..n - 1 |-> TNone], [i \in 0..n - 1 |-> 0], ReservedLeng)

FieldOf(tight, i, from, width) == ToInt(SubSeq(tight, i * RecBits + from + 1, i * RecBits + from + width))
IndexIfKnown(types, stored) ==
    IF Range(types) \subseteq KnownTypes THEN Good(IndexOf(types, stored, ReservedLeng)) ELSE Fails(DataCorrupt)
ParseSizeStore(bits, n, crc) ==
    IF Len(bits) < TightLength(n) THEN Fails(FormatError)
    ELSE IF SubSeq(bits, 1, TightLength(n)) # crc THEN Fails(DataCorrupt)
    ELSE IndexIfKnown([i \in 0..n - 1 |-> FieldOf(bits, i, 0, TypeBits)], [i \in 0..n - 1 |-> FieldOf(bits, i, TypeBits, LenBits)])

NonEmpty(index) == {i \in DOMAIN index.lens : index.lens[i] > 0}
NonEmptyCount(index) == Cardinality(NonEmpty(index))
TotalLen(index) == FoldFunction(+, 0, index.lens)
CrcStorePosition(index, i) == Cardinality({j \in NonEmpty(index) : j < i})
CrcStoreRegion(index) == <<ReservedLeng + TotalLen(index), CrcSize * NonEmptyCount(index)>>
ExpectedBucketSize(index, n) ==
    ReservedLeng + TotalLen(index) + CrcSize * NonEmptyCount(index) + RedundancySize(TightLength(n), Coverage)

ParseChunkCrcStore(raw, n, crc) ==
    IF Len(raw) < n THEN Fails(FormatError) ELSE IF raw # crc THEN Fails(DataCorrupt) ELSE Good(raw)

----------------------------------------------------------------------------
(* BucketReader.  b is the file: head, size (SizeStore bits), cells (all after it), encrypted,         *)
(* compressed, chunkNum and the header's two CRCs.  r is a reader on it.                               *)

FileOf(b) == <<<<0>>, <<0>>>> \o b.cells

RepairFromTrailer(b, file, trailer) ==
    IF b.sizeFails \/ Len(file) < trailer \/ b.trailerFails THEN Fails("none")
    ELSE AttemptRepair(SubSeq(b.size, 1, TightLength(b.chunkNum)), StoreRead(file, Len(file) - trailer, trailer), Coverage, b.sizeCrc)
AttemptSizeStoreRepair(b) == RepairFromTrailer(b, FileOf(b), RedundancySize(TightLength(b.chunkNum), Coverage))

\* BucketReader.open
ReaderOn(b, key, verify, index, repaired) ==
    IF index.ok THEN Good([b |-> b, index |-> index.v, repaired |-> repaired, key |-> key, verify |-> verify]) ELSE index
OpenRepaired(b, key, verify, failed, repair) ==
    IF failed.error # DataCorrupt \/ ~repair.ok THEN failed
    ELSE ReaderOn(b, key, verify, ParseSizeStore(repair.v, b.chunkNum, repair.v), TRUE)
OpenParsed(b, key, verify, parsed) ==
    IF parsed.ok THEN ReaderOn(b, key, verify, parsed, FALSE) ELSE OpenRepaired(b, key, verify, parsed, AttemptSizeStoreRepair(b))
Open(b, key, verify) ==
    IF ~ParseBucketHeader(b.head).ok THEN ParseBucketHeader(b.head)
    ELSE IF ~b.compressed THEN ReaderOn(b, key, verify, Good(UncompressedIndex(b.chunkNum)), FALSE)
    ELSE OpenParsed(b, key, verify, ParseSizeStore(b.size, b.chunkNum, b.sizeCrc))

ReadCrcStore(b, region) ==
    IF region[2] = 0 THEN Good(<<>>)
    ELSE ParseChunkCrcStore(StoreRead(FileOf(b), region[1], region[2]), region[2], b.crcCrc)
EnsureChunkCrcStore(r) == IF r.b.compressed THEN ReadCrcStore(r.b, CrcStoreRegion(r.index)) ELSE Fails("ValueError")

CheckCiphertextCrc(r, crcs, i, raw) == crcs[CrcStorePosition(r.index, i) + 1] = Crc(raw)

ResolveCompressType(r, i) ==
    IF i \notin DOMAIN r.index.types THEN Fails(DataCorrupt)
    ELSE IF r.index.types[i] = TCompacted THEN Fails(Compacted)
    ELSE Good(r.index.types[i])

\* decrypt_chunk: the IV is the chunk's own address; another one leaves garbage.
Decrypt(i, raw) == [k \in DOMAIN raw |-> IF raw[k][1] = i THEN raw[k] ELSE Garbage]

\* decompress: exactly FullLen bytes or corrupt.  A stream that is not what was written fails, or comes
\* out as something else when lucky.
Decompress(r, type, raw, lucky) ==
    LET whole == raw # <<>> /\ raw[1] # Garbage
                 /\ raw = [k \in 1..r.b.written[raw[1][1]] |-> <<raw[1][1], k>>]
    IN IF type = TNone /\ Len(raw) # FullLen THEN Fails(DataCorrupt)
       ELSE IF whole THEN Good(raw[1][1])
       ELSE IF type = TNone \/ (lucky /\ raw # <<>>) THEN Good(-1)
       ELSE Fails(DataCorrupt)

\* _decrypt: no key for an encrypted bucket is refused.
DecryptStored(r, i, raw) ==
    IF ~r.b.encrypted THEN Good(raw) ELSE IF ~r.key THEN Fails(KeyRequired) ELSE Good(Decrypt(i, raw))

\* decompress_many: the entries that are not ZSTD first, then ZSTD in even batches; a batch fails as one.
\* An entry is <<codec, decodes>>.
EvenBatches(n, max) ==
    LET count == CeilDiv(n, max)
        size == IF count = 0 THEN 1 ELSE CeilDiv(n, count)
    IN [k \in 1..CeilDiv(n, size) |-> <<(k - 1) * size + 1, Min({k * size, n})>>]
DecompressMany(items, max) ==
    LET plain == SelectSeq([k \in DOMAIN items |-> k], LAMBDA k : items[k][1] # "zstd")
        zstd == SelectSeq([k \in DOMAIN items |-> k], LAMBDA k : items[k][1] = "zstd")
        batches == EvenBatches(Len(zstd), max)
        decoded(b) == {zstd[j] : j \in b[1]..b[2]}
    IN IF \E k \in Range(plain) : items[k][1] = "compacted" /\ \A j \in Range(plain) : j < k => items[j][2] THEN Fails(Compacted)
       ELSE IF \E k \in Range(plain) : ~items[k][2] THEN Fails(DataCorrupt)
       ELSE IF \E b \in Range(batches) : \E k \in decoded(b) : ~items[k][2] THEN Fails(DataCorrupt)
       ELSE Good([k \in Range(plain) |-> k] @@ [k \in UNION {decoded(b) : b \in Range(batches)} |-> k])

\* decode_raw_chunk, and what _decode_chunks does for one chunk: CRC, key, plaintext.
DecompressIf(r, i, plain, lucky) == IF plain.ok THEN Decompress(r, r.index.types[i], plain.v, lucky) ELSE plain
DecodeRawChunk(r, crcs, i, raw, lucky) ==
    IF r.verify /\ ~CheckCiphertextCrc(r, crcs, i, raw) THEN Fails(DataCorrupt)
    ELSE DecompressIf(r, i, DecryptStored(r, i, raw), lucky)

ReadRawChunk(r, i) ==
    IF ~ResolveCompressType(r, i).ok THEN ResolveCompressType(r, i)
    ELSE Good(StoreRead(FileOf(r.b), r.index.offsets[i], r.index.lens[i]))

DecodeWith(r, crcs, i, raw, lucky) ==
    IF ~raw.ok THEN raw
    ELSE IF r.verify /\ ~crcs.ok THEN crcs
    ELSE DecodeRawChunk(r, IF r.verify THEN crcs.v ELSE <<>>, i, raw.v, lucky)
ReadChunk(r, i, lucky) == DecodeWith(r, EnsureChunkCrcStore(r), i, ReadRawChunk(r, i), lucky)

\* verify_chunk_ciphertext_crc: no key is needed.
CompareCrc(r, crcs, i, raw) ==
    IF ~raw.ok THEN raw ELSE IF ~crcs.ok THEN crcs
    ELSE IF CheckCiphertextCrc(r, crcs.v, i, raw.v) THEN Good(i) ELSE Fails(DataCorrupt)
VerifyChunkCiphertextCrc(r, i) == CompareCrc(r, EnsureChunkCrcStore(r), i, ReadRawChunk(r, i))

\* non_compacted_chunk_ranges: <<start, length>> of every maximal run with data.
RunsFrom(starts, live) == [k \in DOMAIN starts |-> <<starts[k], Min({n \in 1..Cardinality(live) : starts[k] + n \notin live})>>]
RunsOf(live) == RunsFrom(SetToSortSeq({i \in live : i - 1 \notin live}, <), live)
NonCompactedRanges(r) == RunsOf({i \in DOMAIN r.index.types : r.index.types[i] # TCompacted})

\* _plan_index_runs: a chunk whose bytes start within GapTolerance of the run's end joins it.
ChunksOf(ranges) == FlattenSeq([k \in DOMAIN ranges |-> [j \in 1..ranges[k][2] |-> ranges[k][1] + j - 1]])
PlanIndexRuns(r, ranges) ==
    LET end(i) == r.index.offsets[i] + r.index.lens[i]
        add(runs, i) ==
            IF runs # <<>> /\ r.index.offsets[i] - Last(runs).end \in 0..GapTolerance
            THEN [runs EXCEPT ![Len(runs)] = [@ EXCEPT !.end = end(i), !.chunks = Append(@, i)]]
            ELSE Append(runs, [start |-> r.index.offsets[i], end |-> end(i), chunks |-> <<i>>])
    IN FoldLeft(add, <<>>, ChunksOf(ranges))

\* _split_into_blocks: the run's chunks by aligned block.
SplitIntoBlocks(chunks) ==
    FoldLeft(LAMBDA blocks, i :
                IF blocks # <<>> /\ Last(Last(blocks)) \div DecodeBlock = i \div DecodeBlock
                THEN [blocks EXCEPT ![Len(blocks)] = Append(@, i)] ELSE Append(blocks, <<i>>),
             <<>>, chunks)

\* _read_run and _decode_chunks: one read, each chunk's slice of it decoded.
ReadRun(r, crcs, run, lucky) ==
    LET merged == StoreRead(FileOf(r.b), run.start, run.end - run.start)
        slice(i) == StoreRead(merged, r.index.offsets[i] - run.start, r.index.lens[i])
    IN [i \in Range(run.chunks) |-> DecodeRawChunk(r, crcs, i, slice(i), lucky)]

\* read_chunks: the ranges checked before any run is read; the first failure is everyone's.
Asked(ranges) == UNION {rg[1]..(rg[1] + rg[2] - 1) : rg \in Range(ranges)}
FirstError(results) ==
    LET k == Min({k \in DOMAIN results : \E i \in DOMAIN results[k] : ~results[k][i].ok})
    IN results[k][Min({i \in DOMAIN results[k] : ~results[k][i].ok})]
Merged(asked, results) ==
    IF \E k \in DOMAIN results : \E i \in DOMAIN results[k] : ~results[k][i].ok THEN FirstError(results)
    ELSE Good([i \in asked |-> (CHOOSE res \in Range(results) : i \in DOMAIN res)[i].v])
ReadRuns(r, crcs, runs, lucky) == [k \in DOMAIN runs |-> ReadRun(r, IF r.verify THEN crcs.v ELSE <<>>, runs[k], lucky)]
ReadAsked(r, crcs, asked, ranges, lucky) ==
    IF ranges = <<>> THEN Good([i \in {} |-> 0])
    ELSE IF r.verify /\ ~crcs.ok THEN crcs
    ELSE IF \E i \in asked : ~ResolveCompressType(r, i).ok THEN ResolveCompressType(r, Min({i \in asked : ~ResolveCompressType(r, i).ok}))
    ELSE Merged(asked, ReadRuns(r, crcs, PlanIndexRuns(r, ranges), lucky))
ReadChunks(r, ranges, lucky) == ReadAsked(r, EnsureChunkCrcStore(r), Asked(ranges), ranges, lucky)

----------------------------------------------------------------------------
(* What the reader owes.  w is the sequence of chunks written: <<type, stored length>>. *)

BitsOf(w) == FlattenSeq([i \in DOMAIN w |->
    [k \in 1..TypeBits |-> (w[i][1] \div 2^(TypeBits - k)) % 2] \o [k \in 1..LenBits |-> (w[i][2] \div 2^(LenBits - k)) % 2]])
StoredOf(w, i) == [k \in 1..EffectiveLen(w[i + 1][1], w[i + 1][2]) |-> <<i, k>>]
CrcsOf(w) == [p \in 1..Len(SelectSeq(w, LAMBDA c : c[1] # TCompacted)) |->
    Crc(StoredOf(w, SetToSortSeq({i \in 0..Len(w) - 1 : w[i + 1][1] # TCompacted}, <)[p]))]
Written(w, encrypted) ==
    LET stored == FlattenSeq([i \in 1..Len(w) |-> StoredOf(w, i - 1)])
    IN [head |-> [short |-> FALSE, magic |-> TRUE, crc |-> TRUE, major |-> MaxMajor],
        size |-> BitsOf(w), sizeCrc |-> BitsOf(w), chunkNum |-> Len(w), compressed |-> TRUE, encrypted |-> encrypted,
        written |-> [i \in 0..Len(w) - 1 |-> Len(StoredOf(w, i))],
        cells |-> stored \o CrcsOf(w) \o RedundancyOf(BitsOf(w), Coverage), crcCrc |-> CrcsOf(w),
        sizeFails |-> FALSE, trailerFails |-> FALSE, absent |-> FALSE]

\* A file as written has the size the header and the SizeStore say.
SizeIsExpected(b, r) == Len(FileOf(b)) = ExpectedBucketSize(r.index, b.chunkNum)

\* A repaired SizeStore is the one written, and damage to at most two neighbouring windows is repaired
\* while the trailer is whole.
RepairIsRight(bits, flipped, raw) ==
    \A res \in {AttemptRepair([p \in DOMAIN bits |-> IF p \in flipped THEN 1 - bits[p] ELSE bits[p]], raw, Coverage, bits)},
       hit \in {{(p - 1) \div Coverage : p \in flipped}} :
       /\ res.ok => res.v = bits
       /\ (raw = RedundancyOf(bits, Coverage) /\ flipped # {} /\ Max(hit) - Min(hit) <= 1) => res.ok

\* Every chunk of an opened bucket reads as written or raises: with the ciphertext CRC always, without
\* it unless its own bytes were changed.  It raises only for a reason.
ReadIsWritten(r, i, res) ==
    LET whole == r.index.types[i] # TCompacted /\ ReadRawChunk(r, i).v = [k \in 1..r.b.written[i] |-> <<i, k>>]
    IN /\ res.ok => res.v = i \/ (~r.verify /\ ~whole /\ res.v = -1)
       /\ whole /\ (r.key \/ ~r.b.encrypted) /\ (r.verify => EnsureChunkCrcStore(r).ok) => res.ok

\* A batch gives what its chunks read one by one give: the same bytes, and an error one of them raises.
BatchIsSingles(r, ranges, batch, single) ==
    (r.verify => EnsureChunkCrcStore(r).ok) =>
       IF batch.ok THEN \A i \in Asked(ranges) : single[i] = Good(batch.v[i])
       ELSE \E i \in Asked(ranges) : single[i] = batch

\* Merged reads cover each asked chunk once, in order, and two of them are further apart than the
\* tolerance; their blocks regroup the same chunks.
RunsAreMerged(runs, ranges) ==
    /\ FlattenSeq([k \in DOMAIN runs |-> runs[k].chunks]) = ChunksOf(ranges)
    /\ \A k \in DOMAIN runs : k > 1 => runs[k].start > runs[k - 1].end + GapTolerance
    /\ \A k \in DOMAIN runs : \A blocks \in {SplitIntoBlocks(runs[k].chunks)} :
          /\ FlattenSeq(blocks) = runs[k].chunks
          /\ \A x, y \in DOMAIN blocks : x < y => blocks[x][1] \div DecodeBlock < blocks[y][1] \div DecodeBlock

\* A batch decodes every entry in its place or fails when one entry would, in batches of even size above
\* half the limit; a frame never gives more than it declares or, if it declares nothing, than the cap.
BatchesAreWhole(items, max) ==
    LET n == Len(SelectSeq(items, LAMBDA i : i[1] = "zstd"))
        batches == EvenBatches(n, max)
    IN /\ DecompressMany(items, max).ok <=> \A k \in DOMAIN items : items[k][2] /\ items[k][1] # "compacted"
       /\ DecompressMany(items, max).ok => DecompressMany(items, max).v = [k \in DOMAIN items |-> k]
       /\ \A b \in Range(batches) : b[2] - b[1] + 1 \in 1..max
       /\ Len(batches) = CeilDiv(n, max)
=============================================================================
