------------------------------ MODULE VerifyWalk ------------------------------
(***************************************************************************)
(* verify: what check_one_bucket finds in one .buk file (verify_checks.py, *)
(* verify_bucket_check.py), and the sweep over a repository's versions     *)
(* (verify_walk.py, units/verify_reachable.py): records checked once,      *)
(* buckets claimed by the first version that reaches them, then each       *)
(* claimed bucket checked once, several at a time.                         *)
(*                                                                         *)
(* The sweep runs over a world: versions with their extents (windows of a  *)
(* record's chunk map), records with the map as written and as it reads    *)
(* from disk, and for each bucket what check_one_bucket comes to.  What    *)
(* the store does not give is part of the world: a file that is gone, one  *)
(* whose read is denied, one for which the store does not answer.          *)
(***************************************************************************)
EXTENDS BucketFormat, Bags

CONSTANTS
    MaxReads, MaxDecodes,   \* VerifyTuning
    BatchSize,              \* _BUCKET_BATCH_SIZE
    Worlds                  \* the repositories to verify

NoRef == 0
Broken == "broken"          \* a chunk-map entry that does not parse
Raised == {"down", "denied"}   \* StorageBackendError, PermissionDeniedError: neither NotFoundError nor FormatError
Stops == {Broken, "gone"} \union Raised   \* the entries iter_bucket_keys does not get past
Symptoms == {"Corruption", "FileMissing", "Mismatch", "DataMissing", "RepairedViaParity"}   \* without KEY_MISSING
With(f, key, value) == [k \in DOMAIN f \union {key} |-> IF k = key THEN value ELSE f[k]]
Finding(stage, symptom, about) == [stage |-> stage, symptom |-> symptom, about |-> about, ref |-> NoRef]

----------------------------------------------------------------------------
(* One bucket: b is a file of BucketFormat, absent when it is gone. *)

CheckBucketStructure(r, actual) ==
    IF ~r.b.compressed THEN {}
    ELSE {f \in {"RepairedViaParity", "Mismatch", "Corruption"} :
            CASE f = "RepairedViaParity" -> r.repaired
              [] f = "Mismatch" -> actual # ExpectedBucketSize(r.index, r.b.chunkNum)
              [] f = "Corruption" -> ~EnsureChunkCrcStore(r).ok}

\* One merged read, or chunk by chunk after a failed one: the same verdicts.
CheckChunkCiphertextCrcs(r, chunks) == {"Mismatch" : i \in {i \in chunks : ~VerifyChunkCiphertextCrc(r, i).ok}}

\* _check_chunks_full: read_verified_blocks also compares each plaintext with its fingerprint.
CheckChunksFull(r, ranges, lucky) == {"Mismatch" : res \in {res \in {ReadChunks(r, ranges, lucky)} : ~(res.ok /\ \A i \in DOMAIN res.v : res.v[i] = i)}}

OrFinding(opened) == IF opened.ok THEN opened ELSE Fails("Corruption")
OpenBucketOrFinding(b, key) == IF b.absent THEN Fails("DataMissing") ELSE OrFinding(Open(b, key, TRUE))

CheckChunks(r, ranges, lucky) ==
    IF ranges = <<>> THEN {}
    ELSE IF r.b.encrypted /\ ~r.key THEN CheckChunkCiphertextCrcs(r, Asked(ranges))
    ELSE CheckChunksFull(r, ranges, lucky)
CheckReader(r, full, lucky) ==
    CheckBucketStructure(r, Len(FileOf(r.b)))
    \union (IF r.b.compressed /\ r.b.encrypted /\ ~r.key THEN {"KeyMissing"} ELSE {})
    \union (IF r.b.compressed /\ full THEN CheckChunks(r, NonCompactedRanges(r), lucky) ELSE {})
CheckOneBucket(opened, full, lucky) == IF opened.ok THEN CheckReader(opened.v, full, lucky) ELSE {opened.error}

\* summarize_findings: what decides the exit status.
ProblemCount(found) == Cardinality(UNION {{f} \X (1..found[f]) : f \in {f \in DOMAIN found : f.symptom # "RepairedViaParity"}})

\* group_findings: by stage, symptom and what the details share; the command's exit status.
GroupKey(f) == <<f.stage, f.symptom, f.about[1]>>
GroupFindings(found) == {{f \in DOMAIN found : GroupKey(f) = key} : key \in {GroupKey(f) : f \in DOMAIN found}}
VerifyExit(found) == IF ProblemCount(found) # 0 THEN 3 ELSE 0

----------------------------------------------------------------------------
(* The sweep. *)

\* A repository as the sweep meets it: extents lie in the chunk maps of their records, and a map names buckets
\* or does not parse.  On disk the entries of a page that cannot be read are gone, denied or down (the last
\* ones of a file cut short are gone); the attribute blob and the parity after the map likewise.
WorldIsRight(w) ==
    LET Outcomes == {"ok"} \union (Symptoms \ {"RepairedViaParity"})
        Reads == Outcomes \union Raised
        Extents == [record : DOMAIN w.records, start : Nat \ {0}, end : Nat, unit : {"ok", "bad", "skipped"}]
    IN /\ w.info \in Reads /\ w.listing \in {"ok", "down"} /\ IsFiniteSet(w.unlisted)
       /\ \A s \in DOMAIN w.headers : w.headers[s] \in Reads
       /\ \A r \in DOMAIN w.records :
             /\ w.records[r].head \in Reads /\ w.records[r].session \in DOMAIN w.headers
             /\ w.records[r].map \in Seq(DOMAIN w.buckets \union {Broken})
             /\ w.records[r].disk \in Seq(DOMAIN w.buckets \union Stops) /\ Len(w.records[r].disk) = Len(w.records[r].map)
             /\ w.records[r].attr \in {"ok", "bad", "gone"} \union Raised /\ w.records[r].parity \in {"good", "bad"} \union Raised
       /\ w.versions \in Seq([resolves : Outcomes \union {"down"}, extents : Seq(Extents)])
       /\ \A v \in DOMAIN w.versions : \A k \in DOMAIN w.versions[v].extents :
             w.versions[v].extents[k].end <= Len(w.records[w.versions[v].extents[k].record].map)
       /\ \A b \in DOMAIN w.buckets : w.buckets[b] \subseteq {"Mismatch", "Corruption", "RepairedViaParity", "DataMissing", "KeyMissing", "down"}
       /\ w.size \in [DOMAIN w.buckets -> Nat]

ASSUME VerifyAssumption ==
    /\ {MaxReads, MaxDecodes, BatchSize} \subseteq Nat \ {0}
    /\ Worlds # {} /\ \A w \in Worlds : WorldIsRight(w)

VARIABLES
    world, full, pc, version, extents,
    sessions, records, walked,      \* _checked_sessions, _record_checks, _walked_extent_windows
    walking,                        \* the keys iter_bucket_keys has still to give
    claim, pending, toCheck,        \* _bucket_claim, _pending_buckets, _buckets_to_check
    sizing, running, checked,       \* being sized; being checked; how often each was checked
    done, total,                    \* the progress last reported
    found, keyReported

verifyVars == <<world, full, pc, version, extents, sessions, records, walked, walking, claim, pending, toCheck,
                sizing, running, checked, done, total, found, keyReported>>

Claimed == DOMAIN claim
Report(fs, ref) == found' = found (+) SetToBag({[f EXCEPT !.ref = ref] : f \in fs})

VerifyInit(worlds) ==
    /\ world \in worlds /\ full \in BOOLEAN
    /\ pc = "info" /\ version = 1 /\ extents = {}
    /\ sessions = {} /\ records = [r \in {} |-> ""] /\ walked = {} /\ walking = <<>>
    /\ claim = [b \in {} |-> 0] /\ pending = <<>> /\ toCheck = <<>>
    /\ sizing = {} /\ running = {} /\ checked = EmptyBag
    /\ done = 0 /\ total = 0 /\ found = EmptyBag /\ keyReported = FALSE

Abort == pc' = "raised" /\ UNCHANGED <<world, full, version, extents, sessions, records, walked, walking, claim, pending, toCheck, sizing, running, checked, done, total, found, keyReported>>

\* verify_reachable begins: check_repo_info, then the listings; a failed one is a finding and no items, unless
\* the store is down.
CheckRepoInfo ==
    /\ pc = "info"
    /\ IF world.info \in Raised \/ world.listing = "down" THEN Abort
       ELSE /\ pc' = IF world.versions = <<>> THEN "check" ELSE "discover"
            /\ Report((IF world.info = "ok" THEN {} ELSE {Finding("RepoInfo", world.info, <<"repo_info">>)})
                      \union {Finding("Version", "Corruption", <<"list", l>>) : l \in world.unlisted}, NoRef)
            /\ UNCHANGED <<world, full, version, extents, sessions, records, walked, walking, claim, pending, toCheck, sizing, running, checked, done, total, keyReported>>

\* composition_extents_for_version: a disk that does not resolve is a finding, one in an unsupported
\* format is skipped; a failed version is one finding.
ResolvedExtents(v) == {k \in DOMAIN v.extents : v.extents[k].unit = "ok"}
ExtentFindings(v) == {Finding("Version", "Corruption", <<"unit", k>>) : k \in {k \in DOMAIN v.extents : v.extents[k].unit = "bad"}}

\* The extents a version is claimed through, by their place in its list.
Visited(v) == IF world.versions[v].resolves = "ok" THEN ResolvedExtents(world.versions[v]) ELSE {}

DiscoverVersion ==
    /\ pc = "discover"
    /\ LET v == world.versions[version] IN
       IF v.resolves = "down" THEN Abort
       ELSE /\ extents' = Visited(version)
            /\ Report(IF v.resolves = "ok" THEN ExtentFindings(v) ELSE {Finding("Version", v.resolves, <<"version", version>>)}, version)
            /\ pc' = IF extents' = {} THEN "batch" ELSE "claim"
            /\ UNCHANGED <<world, full, version, sessions, records, walked, walking, claim, pending, toCheck, sizing, running, checked, done, total, keyReported>>

\* The one read check_map_and_attr_crc makes of the map and the attribute blob: the first part that fails
\* decides how.
MergedRead(r) ==
    LET parts == Append(world.records[r].disk, world.records[r].attr)
        failed == {k \in DOMAIN parts : parts[k] \in Stops \ {Broken}}
    IN IF failed = {} THEN "ok" ELSE parts[Min(failed)]
MapDiffers(r) == MergedRead(r) = "ok" /\ world.records[r].disk # world.records[r].map

\* check_record_head, then check_map_and_attr_crc: the outcome kept in _record_checks, the findings, and
\* whether an error escapes (repair_via_trailer too lets it through).
RecordState(r) ==
    IF world.records[r].head # "ok" THEN "broken"
    ELSE IF MapDiffers(r) /\ world.records[r].parity = "good" THEN "repaired" ELSE "read"
RecordFindings(r) ==
    IF world.records[r].head # "ok" THEN {Finding("FileMap", world.records[r].head, <<"head", r>>)}
    ELSE IF world.records[r].map = <<>> THEN {}
    ELSE IF MergedRead(r) # "ok" THEN {Finding("Composition", "DataMissing", <<"map", r>>)}
    ELSE (IF MapDiffers(r)
          THEN {Finding("Composition", IF world.records[r].parity = "good" THEN "RepairedViaParity" ELSE "Mismatch", <<"map", r>>)} ELSE {})
         \union (IF world.records[r].attr = "ok" THEN {} ELSE {Finding("Composition", "Mismatch", <<"attr", r>>)})
RecordRaises(r) ==
    \/ world.records[r].head \in Raised
    \/ /\ world.records[r].head = "ok" /\ world.records[r].map # <<>>
       /\ MergedRead(r) \in Raised \/ (MapDiffers(r) /\ world.records[r].parity \in Raised)

\* Mutant: forgets the outcome.
EnsureRecordCheckedAgain(r) == [findings |-> RecordFindings(r), records |-> With(records, r, RecordState(r))]

\* The second visit of a record finds its state and reports nothing.
EnsureRecordChecked(r) ==
    IF r \in DOMAIN records THEN [findings |-> {}, records |-> records]
    ELSE [findings |-> RecordFindings(r), records |-> With(records, r, RecordState(r))]

\* iter_bucket_keys over the window, page after page: the keys before the first entry it does not get past,
\* and whether it then raises what claim_extent does not catch.
WindowOf(e, state) ==
    SubSeq(IF state = "repaired" THEN world.records[e.record].map ELSE world.records[e.record].disk, e.start, e.end)
StopsOf(e, state) == {k \in DOMAIN WindowOf(e, state) : WindowOf(e, state)[k] \in Stops}
WindowKeys(e, state) ==
    SubSeq(WindowOf(e, state), 1, IF StopsOf(e, state) = {} THEN Len(WindowOf(e, state)) ELSE Min(StopsOf(e, state)) - 1)
WalkRaises(e, state) ==
    state # "broken" /\ StopsOf(e, state) # {} /\ WindowOf(e, state)[Min(StopsOf(e, state))] \in Raised

Extent == world.versions[version].extents[Min(extents)]
Window(e) == <<e.record, e.start, e.end>>
Walks(e, state) == state # "broken" /\ Window(e) \notin walked

\* claim_extent: the header and the record, each checked once, then the walk over the window's keys.
HeaderRaises(session) == session \notin sessions /\ world.headers[session] \in Raised
ClaimExtent ==
    /\ pc = "claim"
    /\ LET r == Extent.record
           session == world.records[r].session
           header == session \notin sessions /\ world.headers[session] # "ok"
           rec == EnsureRecordChecked(r)
       IN IF HeaderRaises(session) \/ (r \notin DOMAIN records /\ RecordRaises(r)) THEN Abort
          ELSE /\ pc' = "walk"
               /\ sessions' = sessions \union {session}
               /\ records' = rec.records
               /\ walking' = IF Walks(Extent, rec.records[r]) THEN WindowKeys(Extent, rec.records[r]) ELSE <<>>
               /\ Report(rec.findings
                         \union (IF header THEN {Finding("Composition", world.headers[session], <<"header", session>>)} ELSE {}), version)
               /\ UNCHANGED <<world, full, version, extents, walked, claim, pending, toCheck, sizing, running, checked, done, total, keyReported>>

\* A key of the walk: the first version to reach the bucket claims it.
ClaimKey ==
    /\ pc = "walk" /\ walking # <<>> /\ walking' = Tail(walking)
    /\ LET b == Head(walking) IN
       IF b \in Claimed THEN UNCHANGED <<claim, pending>>
       ELSE claim' = With(claim, b, version) /\ pending' = Append(pending, b)
    /\ UNCHANGED <<world, full, pc, version, extents, sessions, records, walked, toCheck, sizing, running, checked, done, total, found, keyReported>>

\* The walk is over: a whole one is not walked again, a broken one is a finding or raises.
WalkEnds ==
    /\ pc = "walk" /\ walking = <<>>
    /\ LET state == records[Extent.record]
           whole == Len(WindowKeys(Extent, state)) = Extent.end - Extent.start + 1
       IN IF Walks(Extent, state) /\ WalkRaises(Extent, state) THEN Abort
          ELSE /\ walked' = IF Walks(Extent, state) /\ whole THEN walked \union {Window(Extent)} ELSE walked
               /\ Report(IF Walks(Extent, state) /\ ~whole THEN {Finding("Composition", "Corruption", <<"walk", Min(extents)>>)} ELSE {}, version)
               /\ extents' = extents \ {Min(extents)}
               /\ pc' = IF extents' = {} THEN "batch" ELSE "claim"
               /\ UNCHANGED <<world, full, version, sessions, records, walking, claim, pending, toCheck, sizing, running, checked, done, total, keyReported>>

\* After a version: finalize_pending_buckets when the batch is full or the versions are through.
FinalizePending ==
    /\ pc = "batch"
    /\ LET last == version = Len(world.versions)
           flush == last \/ Len(pending) >= BatchSize
       IN /\ pending' = IF flush THEN <<>> ELSE pending
          /\ toCheck' = IF flush /\ ~full THEN toCheck \o pending ELSE toCheck
          /\ sizing' = IF flush /\ full THEN Range(pending) ELSE {}
          /\ total' = IF full THEN total ELSE Len(toCheck')
          /\ pc' = IF sizing' # {} THEN "size" ELSE IF last THEN "check" ELSE "discover"
    /\ version' = version + 1
    /\ UNCHANGED <<world, full, extents, sessions, records, walked, walking, claim, running, checked, done, found, keyReported>>

\* _size_one_bucket, in the order the sizes come: 0 when it cannot be had, unless the store is down.
SizeOneBucket(b) ==
    /\ pc = "size" /\ b \in sizing
    /\ IF "down" \in world.buckets[b] THEN Abort
       ELSE /\ sizing' = sizing \ {b} /\ toCheck' = Append(toCheck, b) /\ total' = total + world.size[b]
            /\ pc' = IF sizing' # {} THEN "size" ELSE IF version > Len(world.versions) THEN "check" ELSE "discover"
            /\ UNCHANGED <<world, full, version, extents, sessions, records, walked, walking, claim, pending, running, checked, done, found, keyReported>>

\* check_all_buckets: bounded_gather in the queue's order, or dispatch_to_pool in the order of the buckets' groups.
CheckBegins(k) ==
    /\ pc = "check" /\ k \in DOMAIN toCheck /\ (full \/ k = 1)
    /\ Cardinality(running) < (IF full THEN Min({MaxReads, MaxDecodes}) ELSE MaxReads)
    /\ running' = running \union {toCheck[k]} /\ toCheck' = RemoveAt(toCheck, k)
    /\ UNCHANGED <<world, full, pc, version, extents, sessions, records, walked, walking, claim, pending, sizing, checked, done, total, found, keyReported>>

\* _dedup_key_missing, then _tag_with_claim.
DedupKeyMissing(symptoms) == IF keyReported THEN symptoms \ {"KeyMissing"} ELSE symptoms
TagWithClaim(b, symptoms) == Report({Finding(IF s = "KeyMissing" THEN "EncryptKey" ELSE "Bucket", s, <<"bucket", b>>) : s \in symptoms}, claim[b])

\* A check ends: its findings, then _tick.
CheckEnds(b) ==
    /\ pc = "check" /\ b \in running
    /\ IF "down" \in world.buckets[b] THEN Abort
       ELSE /\ running' = running \ {b}
            /\ checked' = checked (+) SetToBag({b})
            /\ TagWithClaim(b, DedupKeyMissing(world.buckets[b]))
            /\ keyReported' = (keyReported \/ "KeyMissing" \in world.buckets[b])
            /\ done' = done + (IF full THEN world.size[b] ELSE 1)
            /\ UNCHANGED <<world, full, pc, version, extents, sessions, records, walked, walking, claim, pending, toCheck, sizing, total>>

VerifyReturns ==
    /\ pc = "check" /\ toCheck = <<>> /\ running = {} /\ pc' = "done"
    /\ UNCHANGED <<world, full, version, extents, sessions, records, walked, walking, claim, pending, toCheck, sizing, running, checked, done, total, found, keyReported>>

VerifyNext ==
    \/ CheckRepoInfo \/ DiscoverVersion \/ ClaimExtent \/ ClaimKey \/ WalkEnds \/ FinalizePending
    \/ \E b \in DOMAIN world.buckets : SizeOneBucket(b) \/ CheckEnds(b)
    \/ (\E k \in DOMAIN toCheck : CheckBegins(k)) \/ VerifyReturns

----------------------------------------------------------------------------
(* What a verify owes. *)

\* The buckets version v reaches, from the world alone: a map its parity repairs as written, a broken one
\* up to the break.
Reaches(e) == IF RecordState(e.record) = "broken" THEN {} ELSE Range(WindowKeys(e, RecordState(e.record)))
Reached(v) == UNION {Reaches(world.versions[v].extents[k]) : k \in Visited(v)}
FirstOf(S) == Min(S)
Visits(r) == {v \in DOMAIN world.versions : \E k \in Visited(v) : world.versions[v].extents[k].record = r}

\* A verify that ends has checked every bucket some version reaches, once, and reports each finding once,
\* under the first version that reaches it; the missing key once for the run; no finding where nothing is wrong.
ReportIsComplete ==
    pc = "done" =>
      LET all == UNION {Reached(v) : v \in DOMAIN world.versions}
          first(b) == FirstOf({v \in DOMAIN world.versions : b \in Reached(v)})
          bucketFindings == UNION {{[Finding("Bucket", s, <<"bucket", b>>) EXCEPT !.ref = first(b)] : s \in {"Mismatch", "Corruption", "RepairedViaParity", "DataMissing"}} : b \in all}
          keyFindings == {f \in DOMAIN found : f.symptom = "KeyMissing"}
      IN /\ checked = SetToBag(all)
         /\ {f \in DOMAIN found : f.stage = "Bucket"} = {f \in bucketFindings : f.symptom \in world.buckets[f.about[2]]}
         /\ Cardinality(keyFindings) = (IF \E b \in all : "KeyMissing" \in world.buckets[b] THEN 1 ELSE 0)
         /\ \A f \in keyFindings : f.ref = first(f.about[2])
         /\ \A r \in DOMAIN world.records : Visits(r) # {} =>
               {f \in DOMAIN found : f.about \in {<<"head", r>>, <<"map", r>>, <<"attr", r>>}}
                 = {[f EXCEPT !.ref = FirstOf(Visits(r))] : f \in RecordFindings(r)}
         /\ \A f \in DOMAIN found : found[f] = 1
         /\ VerifyExit(found) = 0 <=> \A f \in DOMAIN found : f.symptom = "RepairedViaParity"
         /\ UNION GroupFindings(found) = DOMAIN found /\ \A g, h \in GroupFindings(found) : g = h \/ g \cap h = {}

\* A bucket the map as written names goes unchecked only with a finding on its record that is not a repair.
NoBlindSpot ==
    pc = "done" => \A v \in DOMAIN world.versions : \A k \in Visited(v) :
      LET e == world.versions[v].extents[k] IN
      \/ Range(WindowKeys(e, "repaired")) \subseteq Reaches(e)
      \/ \E f \in DOMAIN found : f.about \in {<<"head", e.record>>, <<"map", e.record>>} /\ f.symptom # "RepairedViaParity"

\* What a verify cannot get past: a store that is down wherever it is asked, and a read that is denied, but not
\* one of a listing, of a version's resolution or of a bucket.
ExtentRaises(e) ==
    \/ world.headers[world.records[e.record].session] \in Raised
    \/ RecordRaises(e.record)
    \/ WalkRaises(e, RecordState(e.record))
VerifyRaises ==
    \/ world.info \in Raised \/ world.listing = "down"
    \/ \E v \in DOMAIN world.versions :
          \/ world.versions[v].resolves = "down"
          \/ \E k \in Visited(v) : ExtentRaises(world.versions[v].extents[k])
          \/ \E b \in Reached(v) : "down" \in world.buckets[b]

\* A verify ends early exactly over what it cannot get past: a report is never one with a part left out for
\* that, and nothing else keeps it from reporting.
EndsEarlyOnlyRaising == (pc = "done" => ~VerifyRaises) /\ (pc = "raised" => VerifyRaises)

\* Progress never passes its total, and ends on it.
ProgressAddsUp ==
    /\ pc \in {"check", "done"} => done <= total
    /\ pc = "done" => done = total
    /\ Cardinality(running) <= MaxReads

\* FULL finds every change to a header, SizeStore, chunk or ChunkCrcStore, with and without the key;
\* QUICK every one but a chunk's; neither finds anything in a bucket as written.
DamageIsFound(b, written, key, lucky) ==
    \A opened \in {OpenBucketOrFinding(b, key)} :
    \A quick \in {CheckOneBucket(opened, FALSE, lucky)}, deep \in {CheckOneBucket(opened, TRUE, lucky)},
       content \in {SubSeq(written.cells, 1, Len(written.cells) - RedundancySize(TightLength(written.chunkNum), Coverage))} :
    LET data == FoldFunction(+, 0, written.written)
        keyed == IF b.encrypted /\ ~key THEN {"KeyMissing"} ELSE {}
        changed == b.absent \/ b.head # written.head \/ b.size # written.size \/ Len(b.cells) # Len(written.cells)
    IN /\ quick \ keyed = {} \/ b # written
       /\ deep \ keyed = {} \/ b # written
       /\ changed \/ SubSeq(b.cells, 1, Len(content)) # content => deep \ keyed # {}
       /\ changed \/ SubSeq(b.cells, data + 1, Len(content)) # SubSeq(content, data + 1, Len(content)) => quick \ keyed # {}
       /\ quick \subseteq deep
=============================================================================
