------------------------------ MODULE MCReading ------------------------------
(* One run over the reading layer.  Its parts share no state here, so part  *)
(* picks the one that moves; probe holds the input of pure operators.       *)
EXTENDS PoolFormats, VerifyWalk, PoolCaches, Readahead, Gather

VARIABLES part, probe

MCBad == {NoPage, 1}

\* Worlds of a verify: two versions that share records, records and buckets with and without damage, and
\* files that are gone, denied or not answered for.
Rec(head, disk, map, attr, parity) == [head |-> head, disk |-> disk, map |-> map, attr |-> attr, parity |-> parity, session |-> "s"]
MCExtent(r, a, b, u) == [record |-> r, start |-> a, end |-> b, unit |-> u]
Map1 == <<"x", "y", "x">>
MCRec(head, disk, attr, parity) == Rec(head, disk, Map1, attr, parity)
Sound == MCRec("ok", Map1, "ok", "good")
Torn == {MCRec("ok", d, "ok", p) : d \in {<<"x", Broken, "x">>, <<"z", "y", "x">>}, p \in {"good", "bad", "denied"}}
Unread == {MCRec("ok", <<"x", "gone", "gone">>, "ok", "good"), MCRec("ok", <<"gone", "x", "down">>, "ok", "bad"),
           MCRec("ok", <<"x", "denied", "x">>, "ok", "good"), MCRec("ok", Map1, "gone", "good"), MCRec("ok", Map1, "down", "good"),
           MCRec("denied", Map1, "ok", "good"), MCRec("down", Map1, "ok", "good")}
MCWorld(info, listing, header, r, u, versions, x, z) ==
    [info |-> info, listing |-> listing, unlisted |-> IF info = "ok" THEN {} ELSE {"workload"}, headers |-> "s" :> header,
     records |-> ("q" :> Rec("ok", <<"z", "y">>, <<"z", "y">>, "ok", "bad")) @@ ("r" :> r),
     versions |-> IF versions = <<>> THEN <<>> ELSE <<[resolves |-> "ok", extents |-> <<MCExtent("r", 1, 2, u)>>]>> \o versions,
     buckets |-> ("x" :> x) @@ ("y" :> {"KeyMissing"}) @@ ("z" :> z), size |-> ("x" :> 0) @@ ("y" :> 1) @@ ("z" :> 2)]
Second == {<<[resolves |-> res, extents |-> ex]>> : res \in {"ok", "DataMissing", "down"},
           ex \in {<<MCExtent("r", 1, 2, "ok"), MCExtent("q", 1, 2, "ok")>>, <<MCExtent("r", 2, 3, "ok"), MCExtent("q", 2, 2, "bad")>>}}
MCWorlds ==
    {MCWorld(i, "ok", h, r, u, v, x, z) : i \in {"ok", "FileMissing"}, h \in {"ok", "DataMissing"},
        r \in {Sound, MCRec("Corruption", Map1, "ok", "good"), MCRec("ok", Map1, "bad", "good")} \union Torn \union Unread,
        u \in {"ok", "bad"}, v \in Second \union {<<>>}, x \in {{}, {"KeyMissing"}}, z \in {{"Corruption"}, {"KeyMissing", "Mismatch"}, {"down"}}}
    \union {MCWorld(i, l, h, Sound, "ok", v, {}, {"Corruption"}) : i \in {"ok", "denied", "down"}, l \in {"ok", "down"},
        h \in {"ok", "denied", "down"}, v \in Second}

\* Buckets as written and damaged.
Entry == {<<TNone, 0>>, <<TPacked, 1>>, <<TPacked, 3>>, <<TCompacted, 0>>}
MCWritten == UNION {[1..n -> Entry] : n \in 0..2} \union
    {<<<<TPacked, 1>>, <<TCompacted, 0>>, <<TPacked, 3>>>>, <<<<TPacked, 3>>, <<TPacked, 1>>, <<TNone, 0>>>>,
     <<<<TCompacted, 0>>, <<TNone, 0>>, <<TPacked, 1>>>>}
Damages(w) ==
    [kind : {"none", "absent"}]
    \union [kind : {"cell", "cut"}, at : 1..Len(Written(w, FALSE).cells)]
    \union [kind : {"bits"}, at : {{1}, {2, 5}, {1, 9}, {3, 4}}, blob : {0, 2, 4}]
    \union [kind : {"head"}, field : {"short", "magic", "crc"}]
Damaged(b, d) ==
    CASE d.kind = "none" -> b
      [] d.kind = "absent" -> [b EXCEPT !.absent = TRUE]
      [] d.kind = "cell" -> [b EXCEPT !.cells[d.at] = Garbage]
      [] d.kind = "cut" -> [b EXCEPT !.cells = SubSeq(@, 1, d.at - 1)]
      [] d.kind = "head" -> [b EXCEPT !.head[d.field] = ~@]
      [] d.kind = "bits" -> [b EXCEPT !.size = [p \in DOMAIN @ |-> IF p \in d.at THEN 1 - @[p] ELSE @[p]],
                                      !.cells = IF d.blob # 0 /\ d.blob < Len(@) THEN [@ EXCEPT ![Len(@) - d.blob] = Garbage] ELSE @]
RangesOf(n) == {<<<<0, n>>>>} \union (IF n >= 2 THEN {<<<<0, 1>>, <<n - 1, 1>>>>, <<<<n - 1, 2>>>>} ELSE {})

NoProbe == [kind |-> "none"]
MCBuckets == UNION {[kind : {"bucket"}, w : {w}, enc : BOOLEAN, key : BOOLEAN, d : Damages(w)] : w \in MCWritten}
MCRepairs == [kind : {"repair"}, bits : {<<1, 0, 1, 1, 0, 1>>, <<0, 0, 1, 0, 1>>}, flipped : SUBSET (1..5), blob : {0, 1, 3, 5}]
MCPaths == [kind : {"path"}, stream : 0..1, a : 0..15, b : 0..7]
MCReadAts == [kind : {"readat"}, files : [0..2 -> 0..SubFile] \union {(0 :> SubFile) @@ (2 :> SubFile)}, offset : 0..SubFile + 1, n : {0, 1, SubFile, SubFile + 2}]
MCRecords == [type : {0, 1, 2, 4, 5}, idx : {0, 3}, num : {0, 5, 7}]
MCPages == [kind : {"page"}, page : UNION {[1..n -> MCRecords] : n \in 0..2}, count : 0..2]
HeadOk == [short |-> FALSE, magic |-> TRUE, crc |-> TRUE, status |-> TRUE, redundancy |-> TRUE, mapNum |-> 1, attr |-> 1, mapCrc |-> TRUE]
MCHeads == {HeadOk, [HeadOk EXCEPT !.mapNum = 0, !.mapCrc = FALSE], [HeadOk EXCEPT !.magic = FALSE],
            [HeadOk EXCEPT !.status = FALSE], [HeadOk EXCEPT !.redundancy = FALSE], [HeadOk EXCEPT !.short = TRUE]}
MCFile(c) == [header |-> [short |-> FALSE, magic |-> c.head # "none", crc |-> TRUE, subFileSize |-> c.head # "size", major |-> IF c.head = "old" THEN 0 ELSE 1],
              start |-> IF c.head # "none" THEN 1 ELSE 0, records |-> c.records, size |-> c.size]
MCWalks == [kind : {"walk"}, head : {"ok", "none", "old", "size"}, records : UNION {[1..n -> MCHeads] : n \in 0..3}, size : {4, 9, 40}, limit : 0..2]
InfOk == [absent |-> FALSE, head |-> [short |-> FALSE, magic |-> TRUE, crc |-> TRUE, major |-> 1], table |-> <<4, 19, 13>>]
MCFgps == [kind : {"fgp"}, inf : {InfOk, [InfOk EXCEPT !.absent = TRUE], [InfOk EXCEPT !.head.crc = FALSE]}, slot : 0..3,
           fgp : {(0 :> 8) @@ (1 :> 8) @@ (2 :> 8), (0 :> 8) @@ (1 :> 6) @@ (2 :> 3), (1 :> 8)}, idxs : SUBSET (0..6)]
KeyOf(i, s) == [id |-> i, secret |-> s]
MCRows == UNION {[1..n -> {[id |-> i, wrapped |-> w] : i \in {"k", "l", NoEncryption}, w \in {<<>>, <<"short">>, <<"k", 1>>, <<"l", 1>>}}] : n \in 0..2}
MCKeys == [kind : {"key"}, id : {"k", "l", NoEncryption}, secret : 1..2, rows : MCRows, vault : BOOLEAN, damage : {"none", "absent", "unreadable"}]
MCKeyString(p) == [at |-> TRUE, idLength |-> TRUE, ascii |-> TRUE, separator |-> FALSE, base64 |-> TRUE, keyLength |-> p.secret # 3, id |-> p.id, secret |-> p.secret]
MCViews == [kind : {"view"}, offset : 0..2, size : 0..3, at : 0..4, length : {ToEnd, 0, 1, 3, 5}, block : 1..2, align : 1..2]
MCZstd == [kind : {"zstd"}, items : UNION {[1..n -> {"none", "zstd", "compacted"} \X BOOLEAN] : n \in 0..4}, max : 1..3]
MCMaps == [kind : {"map"}, page : UNION {[1..n -> MCRecords] : n \in 0..1}, head : MCHeads, limit : 0..1]
MCCaches == [kind : {"caches"}, entries : UNION {[1..n -> {"p", "q", "r"}] : n \in 0..3}, names : SUBSET {"p", "q", "r"}, fails : SUBSET {"p", "q", "r"}]

ReadingInit ==
    /\ part \in {"verify", "pool", "pages", "ahead", "gather", "probe"}
    /\ VerifyInit(IF part = "verify" THEN Worlds ELSE {CHOOSE w \in Worlds : TRUE}) /\ (part # "verify" => full)
    /\ PoolInit /\ PagesInit /\ (part # "pages" => badPage = NoPage) /\ AheadInit /\ probe = NoProbe
    /\ GatherInit /\ (part # "gather" => mode = "group" /\ bad = {})

MCProbe(probes) == probe = NoProbe /\ probe' \in probes

ReadingNext ==
    /\ UNCHANGED part
    /\ \/ part = "verify" /\ VerifyNext /\ UNCHANGED <<poolVars, pageVars, aheadVars, gatherVars, probe>>
       \/ part = "pool" /\ PoolNext /\ UNCHANGED <<verifyVars, pageVars, aheadVars, gatherVars, probe>>
       \/ part = "pages" /\ PagesNext /\ UNCHANGED <<verifyVars, poolVars, aheadVars, gatherVars, probe>>
       \/ part = "ahead" /\ AheadNext /\ UNCHANGED <<verifyVars, poolVars, pageVars, gatherVars, probe>>
       \/ part = "gather" /\ GatherNext /\ UNCHANGED <<verifyVars, poolVars, pageVars, aheadVars, probe>>
       \/ part = "probe" /\ UNCHANGED <<verifyVars, poolVars, pageVars, aheadVars, gatherVars>>
             /\ \/ MCProbe(MCBuckets \union MCRepairs)
                \/ MCProbe(MCPaths \union MCReadAts \union MCPages \union MCWalks)
                \/ MCProbe(MCZstd \union MCMaps \union MCFgps \union MCKeys \union MCViews \union MCCaches)

readingVars == <<part, probe, verifyVars, poolVars, pageVars, aheadVars, gatherVars>>
ReadingSpec == ReadingInit /\ [][ReadingNext]_readingVars

\* What a reader on bucket b, written as written, gives.
ReaderIsSound(b, written, r, lucky) ==
    \A single \in {[i \in 0..b.chunkNum |-> ReadChunk(r, i, lucky)]} :
       /\ b = written => SizeIsExpected(b, r)
       /\ ~b.absent => (InspectBucket(b, -1).v.sizeOk <=> "Mismatch" \notin CheckBucketStructure(r, Len(FileOf(b))))
       /\ \A i \in 0..b.chunkNum - 1 : ReadIsWritten(r, i, single[i])
       /\ \A ranges \in RangesOf(b.chunkNum) :
             /\ \A many \in {ReadChunks(r, ranges, lucky)} : BatchIsSingles(r, ranges, many, single)
             /\ (\A rg \in Range(ranges) : rg[1] + rg[2] <= b.chunkNum) => \A runs \in {PlanIndexRuns(r, ranges)} : RunsAreMerged(runs, ranges)

\* A bucket file damaged in any one place: every read gives the bytes written or raises, batch and single
\* reads agree, a repair is right, and verify reports the damage (BucketReader, check_one_bucket).
DamageIsCaught ==
    /\ probe.kind = "bucket" =>
         \A written \in {Written(probe.w, probe.enc)} : \A b \in {Damaged(written, probe.d)} : \A lucky \in BOOLEAN :
            /\ DamageIsFound(b, written, probe.key, lucky)
            /\ \A opened \in {Open(b, probe.key, verify) : verify \in BOOLEAN} :
                  /\ b = written => opened.ok
                  /\ opened.ok => ReaderIsSound(b, written, opened.v, lucky)
    /\ probe.kind = "repair" =>
         LET blob == RedundancyOf(probe.bits, Coverage)
         IN RepairIsRight(probe.bits, probe.flipped \cap DOMAIN probe.bits, IF probe.blob = 0 THEN blob ELSE [blob EXCEPT ![probe.blob] = Garbage])

\* Sub-files, chunk-map pages, records, fingerprints, keys and views are read as they were written, and what
\* cannot be read is refused (format/, dedup/).
FormatsReadBack ==
    /\ probe.kind = "path" => PathsAreDistinct(probe.stream, probe.a, probe.b)
    /\ probe.kind = "readat" => ReadAtIsExact(probe.files, probe.offset, probe.n)
    /\ probe.kind = "page" => EndsAgree(probe.page, probe.count)
    /\ probe.kind = "walk" => WalksJoin(MCFile(probe), probe.limit)
    /\ probe.kind = "fgp" => DigestsAreOwn(probe.inf, probe.fgp, probe.slot, probe.idxs)
    /\ probe.kind = "key" => LET key == ParseKeyString(MCKeyString(probe)) IN
          key.ok => KeysAreRight(key.v, [vault |-> probe.vault, absent |-> probe.damage = "absent", unreadable |-> probe.damage = "unreadable", rows |-> probe.rows])
    /\ probe.kind = "view" => ViewsAreSlices(5, [offset |-> probe.offset, size |-> probe.size], probe.at, probe.length, probe.block, probe.align)
    /\ probe.kind = "zstd" => BatchesAreWhole(probe.items, probe.max)
    /\ probe.kind = "map" => LET res == InspectChunkMap(probe.head, probe.page, probe.limit) IN
          res.ok => \A k \in DOMAIN res.v.entries : ChunkMapEndOffset(probe.page, k - 1) = Good(EndOffset(res.v.entries[k]))
    /\ probe.kind = "caches" => InvalidatesAll(probe.entries, probe.names, probe.fails)

\* A verify that ends has looked at everything once and says so, with no blind spot; it ends early exactly over
\* an error it does not catch.
VerifyIsComplete == ReportIsComplete /\ NoBlindSpot /\ EndsEarlyOnlyRaising /\ ProgressAddsUp

\* What the pool and the record pages cache is never older than the last release or repair.
CachesAreFresh == PoolIsFresh /\ BatchesAreApart /\ RepairSticks

\* Read-ahead gives the bytes asked for and stays in its memory; concurrent items fail as a serial loop
\* over them would (bounded_gather_first_error, _fill_groups).
SharedReadsAreSound == AheadIsExact /\ AheadIsBounded /\ GatherIsSerial
=============================================================================
