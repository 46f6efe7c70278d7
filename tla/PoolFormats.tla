----------------------------- MODULE PoolFormats ------------------------------
(***************************************************************************)
(* The other on-disk formats of a dedup repository and what reads them:    *)
(* chunk addresses and layered paths (format/addressing.py), composition   *)
(* sub-files and records (format/composition.py, chunkmap.py,              *)
(* dedup/composition_reader.py, diagnostics.py), fingerprint sidecars      *)
(* (dedup/fingerprint.py), key records (dedup/keys.py, format/crypto.py),  *)
(* byte windows of a file (dedup/dedup_file.py), the registry of caches    *)
(* (cachemanager.py).                                                      *)
(***************************************************************************)
EXTENDS BucketFormat

CONSTANTS
    IdxBits, BucketBits,        \* 16 and 40 in a chunk address
    LayerBase,                  \* 2^BUCKET_ID_LAYER_SHIFT
    SubFile,                    \* SUB_FILE_SIZE
    FgpRecord, FgpUnit, FgpSegment, \* bytes of a digest, of an allocation unit, of a .fgp file
    RecNumBits,                 \* 15 low bits of an allocation entry
    RepeatBits                  \* 16 low bits of a mapping's count

NotFound == "NotFoundError"
KeyMaterialError == "KeyMaterialError"
KeyMismatch == "KeyMismatchError"
ValueError == "ValueError"

----------------------------------------------------------------------------
(* Addresses and paths. *)

FromInt(x) == [stream |-> x \div 2^(IdxBits + BucketBits), bucket |-> (x \div 2^IdxBits) % 2^BucketBits,
               idx |-> x % 2^IdxBits]
PackAddress(a) == (a.stream * 2^BucketBits + a.bucket) * 2^IdxBits + a.idx

\* _id_layer_ancestors: outermost first, the id itself left out.
IdLayerAncestors(id) ==
    LET depth == Cardinality({k \in 1..id : id \div LayerBase^k > 0})
    IN [k \in 1..depth |-> id \div LayerBase^(depth + 1 - k)]

PoolLayerPath(stream, bucket) == <<<<"dir", stream>>>> \o [k \in DOMAIN IdLayerAncestors(bucket) |->
    <<"dir", IdLayerAncestors(bucket)[k]>>] \o <<<<"file", bucket>>>>
CompositionSessionDir(stream, session) == <<<<"dir", stream>>>> \o [k \in DOMAIN IdLayerAncestors(session) |->
    <<"dir", IdLayerAncestors(session)[k]>>] \o <<<<"com", session>>>>
CompositionPath(stream, session, sub) == CompositionSessionDir(stream, session) \o [k \in DOMAIN IdLayerAncestors(sub) |->
    <<"dir", IdLayerAncestors(sub)[k]>>] \o <<<<"file", sub>>>>
SplitLayerLeaf(path) == <<Front(path), Last(path)>>
GroupStart(bucket) == (bucket \div LayerBase) * LayerBase

\* An address survives packing; two ids never share a path, nor is one's path a directory of another's;
\* a bucket lies next to its group's sidecars.
PathsAreDistinct(stream, a, b) ==
    LET below(p, q) == Len(p) < Len(q) /\ SubSeq(q, 1, Len(p)) = p
    IN /\ FromInt(PackAddress([stream |-> stream, bucket |-> a, idx |-> b])) = [stream |-> stream, bucket |-> a, idx |-> b]
       /\ a # b => /\ PoolLayerPath(stream, a) # PoolLayerPath(stream, b)
                   /\ CompositionPath(stream, 1, a) # CompositionPath(stream, 1, b)
       /\ ~below(PoolLayerPath(stream, a), PoolLayerPath(stream, b))
       /\ ~below(CompositionPath(stream, a, 1), CompositionPath(stream, b, 2))
       /\ SplitLayerLeaf(PoolLayerPath(stream, a))[1] = SplitLayerLeaf(PoolLayerPath(stream, GroupStart(a)))[1]

----------------------------------------------------------------------------
(* Composition: files is sub id -> bytes present; a byte is its global offset. *)

SplitCompositionOffset(off) == <<off \div SubFile, off % SubFile>>

\* CompositionReader.read_at
ReadAt(files, offset, n) ==
    LET step[left \in 0..n] ==
            LET at == SplitCompositionOffset(offset + n - left)
                take == Min({left, SubFile - at[2]})
            IN IF left = 0 THEN Good(<<>>)
               ELSE IF at[1] \notin DOMAIN files THEN Fails(NotFound)
               ELSE IF files[at[1]] - at[2] < take THEN Fails(FormatError)
               ELSE LET rest == step[left - take]
                    IN IF rest.ok THEN Good([k \in 1..take |-> offset + n - left + k - 1] \o rest.v) ELSE rest
    IN step[n]

\* A read gives exactly the bytes asked for when every one is there, and raises otherwise.
ReadAtIsExact(files, offset, n) ==
    LET there(o) == o \div SubFile \in DOMAIN files /\ o % SubFile < files[o \div SubFile]
        res == ReadAt(files, offset, n)
    IN IF \A o \in offset..(offset + n - 1) : there(o) THEN res = Good([k \in 1..n |-> offset + k - 1]) ELSE ~res.ok

\* parse_composition_header and verify_header
ParseCompositionHeader(h) ==
    LET index == ParseIndexHeader(h, h.major)
    IN IF ~index.ok THEN index
       ELSE IF h.major # 1 THEN Fails(Unsupported)
       ELSE IF ~h.subFileSize THEN Fails(DataCorrupt) ELSE Good(h)

ParseRecordHead(d) ==
    IF d.short THEN Fails(FormatError)
    ELSE IF ~d.magic \/ ~d.crc \/ ~d.status THEN Fails(DataCorrupt)
    ELSE IF ~d.redundancy THEN Fails(Unsupported) ELSE Good(d)

HeadLen == 1
RecordTotalLength(mapNum, attr) == HeadLen + mapNum + attr + RedundancySize(mapNum, Coverage)

\* A chunk-map record: type word, chunk index, count word; _kind_of masks the INHERIT bit off.
KindOf(rec) == CASE rec.type % 4 = 0 -> "mapping" [] rec.type % 4 = 1 -> "zero" [] OTHER -> "unknown"
ParseChunkMapRecord(rec) ==
    IF KindOf(rec) = "unknown" THEN Fails(DataCorrupt)
    ELSE IF KindOf(rec) = "zero" THEN Good([kind |-> "zero", off |-> rec.idx, num |-> rec.num, repeat |-> 0])
    ELSE Good([kind |-> "mapping", off |-> rec.idx, num |-> rec.num \div 2^RepeatBits, repeat |-> rec.num % 2^RepeatBits])
EndOffset(e) == e.off + (IF e.kind = "zero" THEN e.num ELSE e.num * (1 + e.repeat))

\* chunk_map_end_offset: from the words, without the entry.
ChunkMapEndOffset(page, i) ==
    IF i >= Len(page) THEN Fails(FormatError)
    ELSE LET rec == page[i + 1] IN
         CASE KindOf(rec) = "unknown" -> Fails(DataCorrupt)
           [] KindOf(rec) = "zero" -> Good(rec.idx + rec.num)
           [] OTHER -> Good(rec.idx + (rec.num \div 2^RepeatBits) * (1 + (rec.num % 2^RepeatBits)))

\* iter_chunk_map_page: what it yields before it ends or raises.
IterChunkMapPage(page, count) ==
    LET bad == {k \in 1..count : ~ParseChunkMapRecord(page[k]).ok}
        upTo == IF bad = {} THEN count ELSE Min(bad) - 1
    IN IF Len(page) < count THEN [yields |-> <<>>, ends |-> FormatError]
       ELSE [yields |-> [k \in 1..upTo |-> ParseChunkMapRecord(page[k]).v], ends |-> IF bad = {} THEN "ok" ELSE DataCorrupt]

\* The binary search over a page sees the ends of the entries the page yields, and fails where it does.
EndsAgree(page, count) ==
    LET page2 == IterChunkMapPage(page, count)
    IN page2.ends # FormatError => \A k \in 1..count :
         IF k <= Len(page2.yields) THEN ChunkMapEndOffset(page, k - 1) = Good(EndOffset(page2.yields[k]))
         ELSE k = Len(page2.yields) + 1 => ~ChunkMapEndOffset(page, k - 1).ok

----------------------------------------------------------------------------
(* diagnostics: a composition file is its header and records back to back, the last maybe cut. *)

RecordsAt(file) ==
    LET heads[k \in 0..Len(file.records)] ==
            IF k = 0 THEN file.start ELSE heads[k - 1] + RecordTotalLength(file.records[k].mapNum, file.records[k].attr)
    IN heads

\* _walk_composition_records
WalkCompositionRecords(file, first, limit) ==
    LET heads == RecordsAt(file)
        walk[k \in first..Len(file.records) + 1] ==
            IF k > Len(file.records) \/ heads[k - 1] >= file.size \/ k - first >= limit
            THEN [records |-> <<>>, next |-> IF k > Len(file.records) THEN heads[Len(file.records)] ELSE heads[k - 1], error |-> "none"]
            ELSE LET parsed == ParseRecordHead(file.records[k])
                 IN IF ~parsed.ok THEN [records |-> <<>>, next |-> heads[k - 1], error |-> parsed.error]
                    ELSE LET rest == walk[k + 1]
                         IN [rest EXCEPT !.records = <<[headOff |-> heads[k - 1],
                                mapCrcOk |-> file.records[k].mapCrc]>> \o @]
    IN walk[first]

\* walk_composition
WalkComposition(file, limit) ==
    LET header == IF file.header.magic THEN ParseCompositionHeader(file.header) ELSE Good(0)
        walk == WalkCompositionRecords(file, 1, limit)
    IN IF ~header.ok THEN header
       ELSE IF walk.error # "none" /\ walk.records = <<>> /\ ~file.header.magic THEN Fails(walk.error)
       ELSE Good(walk)

\* Walking on from where a walk stopped gives what one long walk gives, and a stop is reported.
WalksJoin(file, limit) ==
    \A all \in {WalkCompositionRecords(file, 1, Len(file.records) + 1)}, part \in {WalkCompositionRecords(file, 1, limit)},
       composition \in {WalkComposition(file, limit)} :
    LET next == {k \in 1..Len(file.records) : RecordsAt(file)[k - 1] = part.next}
    IN /\ part.records = SubSeq(all.records, 1, Min({limit, Len(all.records)}))
       /\ part.error = "none" /\ next # {} /\ limit > 0 =>
             part.records \o WalkCompositionRecords(file, Min(next), Len(file.records) + 1).records = all.records
       /\ (\A k \in 1..Len(file.records) : ParseRecordHead(file.records[k]).ok /\ RecordsAt(file)[k - 1] < file.size) =>
             Len(all.records) = Len(file.records) /\ all.error = "none"
       /\ composition.ok /\ part.error # "none" => composition.v.error # "none"

\* inspect_chunk_map: the first limit entries, or the first one's error.
InspectChunkMap(head, map, limit) ==
    IF ~ParseRecordHead(head).ok THEN ParseRecordHead(head)
    ELSE LET page == IterChunkMapPage(map, Min({Len(map), limit}))
         IN IF page.ends # "ok" THEN Fails(page.ends) ELSE Good([entries |-> page.yields, mapNum |-> Len(map)])

\* inspect_bucket's size check says what verify's structure check says.
InspectOpened(b, r, chunk) ==
    IF ~r.ok THEN r
    ELSE IF chunk # -1 /\ chunk \notin DOMAIN r.v.index.types THEN Fails(NotFound)
    ELSE Good([sizeOk |-> IF b.compressed THEN Len(FileOf(b)) = ExpectedBucketSize(r.v.index, b.chunkNum) ELSE TRUE,
               chunk |-> IF chunk = -1 THEN <<>> ELSE <<r.v.index.offsets[chunk], r.v.index.lens[chunk]>>])
InspectBucket(b, chunk) == InspectOpened(b, Open(b, FALSE, FALSE), chunk)

----------------------------------------------------------------------------
(* Fingerprints.  fgp is segment -> bytes present; the digest of chunk i is where it lies. *)

\* Mutant: a run goes on over the end of its segment.
GroupContiguousRunsUncut(idxs, byteOff) ==
    LET add(runs, i) ==
            IF runs # <<>> /\ i = Last(runs)[1] + Last(runs)[2]
            THEN [runs EXCEPT ![Len(runs)] = <<@[1], @[2] + 1>>] ELSE Append(runs, <<i, 1>>)
    IN FoldLeft(add, <<>>, SetToSortSeq(idxs, <))

GroupContiguousRuns(idxs, byteOff) ==
    LET segment(i) == (byteOff + i * FgpRecord) \div FgpSegment
        segmentEnd(i) == CeilDiv((segment(i) + 1) * FgpSegment - byteOff, FgpRecord)
        add(runs, i) ==
            IF runs # <<>> /\ i = Last(runs)[1] + Last(runs)[2] /\ i < segmentEnd(Last(runs)[1])
            THEN [runs EXCEPT ![Len(runs)] = <<@[1], @[2] + 1>>] ELSE Append(runs, <<i, 1>>)
    IN FoldLeft(add, <<>>, SetToSortSeq(idxs, <))

\* _allocation: the bucket's entry of the group's table.
Allocation(inf, slot) ==
    IF inf.absent THEN Fails(NotFound)
    ELSE IF ~ParseIndexHeader(inf.head, inf.head.major).ok THEN ParseIndexHeader(inf.head, inf.head.major)
    ELSE IF slot >= Len(inf.table) THEN Fails(FormatError)
    ELSE Good([byteOff |-> (inf.table[slot + 1] \div 2^RecNumBits) * FgpUnit, recNum |-> inf.table[slot + 1] % 2^RecNumBits])

\* _read_run
ReadDigests(alloc, fgp, run) ==
    LET start == alloc.byteOff + run[1] * FgpRecord
        seg == start \div FgpSegment
        sub == start % FgpSegment
    IN IF run[1] + run[2] - 1 >= alloc.recNum THEN Fails(DataCorrupt)
       ELSE IF seg \notin DOMAIN fgp THEN Fails(NotFound)
       ELSE IF fgp[seg] - sub < run[2] * FgpRecord THEN Fails(FormatError)
       ELSE Good([i \in run[1]..(run[1] + run[2] - 1) |-> <<seg, sub + (i - run[1]) * FgpRecord>>])

\* FingerprintIndex.digests, run after run.
JoinDigests(acc, got) == IF got.ok THEN Good(got.v @@ acc.v) ELSE got
DigestsOf(alloc, fgp, idxs) ==
    IF ~alloc.ok THEN alloc
    ELSE FoldLeft(LAMBDA acc, run : IF acc.ok THEN JoinDigests(acc, ReadDigests(alloc.v, fgp, run)) ELSE acc,
                  Good([i \in {} |-> <<>>]), GroupContiguousRuns(idxs, alloc.v.byteOff))
Digests(inf, fgp, slot, idxs) ==
    DigestsOf(Allocation(inf, slot), fgp, idxs)

CompareDigests(expected, plain) ==
    IF ~expected.ok THEN expected
    ELSE IF \E i \in DOMAIN plain : plain[i] # expected.v[i] THEN Fails(DataCorrupt) ELSE Good(0)
\* Pool.verify_fingerprints: plain gives for each decoded chunk where its digest would match.
VerifyFingerprints(on, inf, fgp, slot, plain) ==
    IF on THEN CompareDigests(Digests(inf, fgp, slot, DOMAIN plain), plain) ELSE Good(0)

\* Each chunk is checked against its own digest, wherever the segments are cut; one that has none is refused.
DigestsAreOwn(inf, fgp, slot, idxs) ==
    \A alloc \in {Allocation(inf, slot)} :
    LET at(i) == alloc.v.byteOff + i * FgpRecord
        has(i) == i < alloc.v.recNum /\ at(i) \div FgpSegment \in DOMAIN fgp
                  /\ (at(i) % FgpSegment) + FgpRecord <= fgp[at(i) \div FgpSegment]
        own == [i \in idxs |-> <<at(i) \div FgpSegment, at(i) % FgpSegment>>]
    IN alloc.ok =>
         /\ IF \A i \in idxs : has(i) THEN Digests(inf, fgp, slot, idxs) = Good(own) ELSE ~Digests(inf, fgp, slot, idxs).ok
         /\ (\A i \in idxs : has(i)) =>
               \A i \in idxs : ~VerifyFingerprints(TRUE, inf, fgp, slot, [own EXCEPT ![i] = <<9, 9>>]).ok

----------------------------------------------------------------------------
(* Keys.  A key is an id and a secret; a wrapped key names the pair that opens it. *)

NoEncryption == "NoEncryption"

\* parse_key_string
ParseKeyString(s) ==
    IF ~s.at \/ ~s.idLength \/ ~s.ascii \/ s.separator \/ ~s.base64 \/ ~s.keyLength THEN Fails(KeyMaterialError)
    ELSE Good([id |-> s.id, secret |-> s.secret])

UnwrapVaultKey(key, wrapped) ==
    IF wrapped = <<"short">> THEN Fails(KeyMaterialError)
    ELSE IF wrapped = <<key.id, key.secret>> THEN Good(<<"dek">>) ELSE Fails(KeyMismatch)

\* _wrapped_vault_key: from the database of a vault or from the file of a bucket.
WrappedVaultKey(key, store) ==
    LET rows == SelectSeq(store.rows, LAMBDA row : row.id = key.id)
    IN IF store.absent \/ (~store.vault /\ rows = <<>>) THEN Good(<<>>)
       ELSE IF store.unreadable THEN Fails(DataCorrupt)
       ELSE IF rows = <<>> THEN Good(<<>>) ELSE Good(rows[1].wrapped)

\* resolve_vault_key; an empty column counts as no key.
ResolveVaultKey(key, store) ==
    LET wrapped == WrappedVaultKey(key, store)
    IN IF ~wrapped.ok \/ wrapped.v = <<>> THEN wrapped ELSE UnwrapVaultKey(key, wrapped.v)

\* KeyMaterial.verify: <<gcm_ok, vault_key>>.
VerifyKey(key, store) ==
    LET got == ResolveVaultKey(key, store)
    IN IF key.id = NoEncryption THEN Good(<<TRUE, <<>>>>)
       ELSE IF got.ok THEN Good(<<got.v # <<>>, got.v>>)
       ELSE IF got.error = KeyMismatch THEN Good(<<FALSE, <<>>>>) ELSE got

\* probe_encrypted: the last row, or the object names without their init@.
ProbeEncrypted(store) ==
    IF store.absent THEN Good("unknown")
    ELSE IF store.vault /\ store.unreadable THEN Fails(DataCorrupt)
    ELSE IF store.rows = <<>> THEN Good("unknown")
    ELSE IF store.vault THEN Good(IF Last(store.rows).id # NoEncryption THEN "yes" ELSE "no")
    ELSE Good(IF {row.id : row \in Range(store.rows)} # {NoEncryption} THEN "yes" ELSE "no")

\* A key is found right exactly when its pair opens the stored key under its own id, and then the
\* repository is known to be encrypted; every other key is refused, never accepted with another's key.
KeysAreRight(key, store) ==
    \A v \in {VerifyKey(key, store)} :
    LET opens == \E row \in Range(store.rows) : row.id = key.id /\ row.wrapped = <<key.id, key.secret>>
        single == Cardinality({k \in DOMAIN store.rows : store.rows[k].id = key.id}) <= 1
    IN key.id # NoEncryption /\ single /\ v.ok =>
         /\ v.v[1] <=> (opens /\ ~store.absent /\ ~store.unreadable)
         /\ v.v[1] => v.v[2] = <<"dek">>
         /\ v.v[1] /\ (store.vault => Last(store.rows).id # NoEncryption) => ProbeEncrypted(store) = Good("yes")

----------------------------------------------------------------------------
(* Byte windows.  A file of size n is the sequence 0..n-1. *)

ToEnd == -1
ClampReadLength(offset, length, size) == Max({0, Min({IF length = ToEnd THEN size - offset ELSE length, size - offset})})
ContentRead(size, offset, length) == [k \in 1..ClampReadLength(offset, length, size) |-> offset + k - 1]

\* ByteRangeView.read
ViewRead(base, view, offset, length) ==
    ContentRead(base, view.offset + offset, ClampReadLength(offset, length, view.size))

\* read_blocks: <<offset, bytes>> of each block.
ReadBlocks(base, view, start, end, block) ==
    [k \in 1..CeilDiv(Max({0, end - start}), block) |->
        <<(k - 1) * block, ViewRead(base, view, start + (k - 1) * block, Min({block, end - start - (k - 1) * block}))>>]

\* export_range: refused, or the window of the base file it exports.
ExportRange(view, start, end, align) ==
    IF ~(0 <= start /\ start <= end /\ end <= view.size) \/ (view.offset + start) % align # 0 THEN Fails(ValueError)
    ELSE Good(<<view.offset + start, end - start>>)

\* A view reads as its slice of the base, whole or in blocks, and an export covers the bytes a read gives.
ViewsAreSlices(base, view, offset, length, block, align) ==
    LET slice == [k \in 1..view.size |-> view.offset + k - 1]
        last == IF length = ToEnd THEN view.size ELSE Min({offset + length, view.size})
        blocks == ReadBlocks(base, view, 0, view.size, block)
        export == ExportRange(view, offset, last, align)
    IN /\ ViewRead(base, view, offset, length) = SubSeq(slice, offset + 1, last)
       /\ FlattenSeq([k \in DOMAIN blocks |-> blocks[k][2]]) = slice
       /\ \A k \in DOMAIN blocks : blocks[k][2] # <<>> /\ blocks[k][2][1] = view.offset + blocks[k][1]
       /\ export.ok => ContentRead(base, export.v[1], export.v[2]) = ViewRead(base, view, offset, length)

----------------------------------------------------------------------------
(* CacheManager: entries in the order they were registered, fails those whose hook raises. *)

Register(entries, name, bounded) ==
    IF ~bounded \/ name \in Range(entries) THEN Fails(ValueError) ELSE Good(Append(entries, name))

Invalidate(entries, names, fails) ==
    IF ~(names \subseteq Range(entries)) THEN Fails("KeyError")
    ELSE Good([attempted |-> SelectSeq(Reverse(entries), LAMBDA n : n \in names), errors |-> fails \cap names])

\* Every owner named is invalidated once, a dependent before what it was built on, and every failure is told.
InvalidatesAll(entries, names, fails) ==
    LET registered == FoldLeft(LAMBDA acc, n : IF Register(acc, n, TRUE).ok THEN Register(acc, n, TRUE).v ELSE acc, <<>>, entries)
        res == Invalidate(registered, names, fails)
        at(s, n) == CHOOSE k \in DOMAIN s : s[k] = n
    IN IF res.ok
       THEN /\ Range(res.v.attempted) = names /\ Len(res.v.attempted) = Cardinality(names)
            /\ \A n, o \in names : at(registered, n) < at(registered, o) => at(res.v.attempted, o) < at(res.v.attempted, n)
            /\ res.v.errors = fails \cap names
       ELSE ~(names \subseteq Range(entries))
=============================================================================
