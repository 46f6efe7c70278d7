----------------------------- MODULE PoolCaches -----------------------------
(***************************************************************************)
(* Pool's plaintext cache for one bucket (dedup/pool/__init__.py) and the  *)
(* batch reads that go round its fetch callback (_resolve_bucket_group,    *)
(* dedup_file.py).  A cached chunk is the epoch its bytes were read in;    *)
(* release_caches begins the next one.                                     *)
(***************************************************************************)
EXTENDS Integers, FiniteSets, FiniteSetsExt

CONSTANTS PoolTasks, PoolChunks, MaxReleases

ASSUME PoolAssumption == IsFiniteSet(PoolTasks) /\ MaxReleases \in Nat

VARIABLES
    chunkCache,     \* _chunks
    fetches,        \* read_chunk's fetches in flight, as _chunks knows them: chunk -> epoch
    epoch,          \* _release_epoch
    entry,          \* _batch_locks' lock for the bucket, by number, or NoLock
    users, owner,   \* per lock
    batch           \* each task's batch

poolVars == <<chunkCache, fetches, epoch, entry, users, owner, batch>>

NoLock == 0
NoEpoch == -1
LockIds == 1..Cardinality(PoolTasks)
NoBatch == [pc |-> "idle", lock |-> NoLock, want |-> {}, missing |-> {}, captured |-> NoEpoch]

PoolInit ==
    /\ chunkCache = [c \in PoolChunks |-> NoEpoch] /\ fetches = [c \in PoolChunks |-> NoEpoch]
    /\ epoch = 0 /\ entry = NoLock
    /\ users = [l \in LockIds |-> 0] /\ owner = [l \in LockIds |-> {}]
    /\ batch = [t \in PoolTasks |-> NoBatch]

FreshLock == CHOOSE l \in LockIds : \A t \in PoolTasks : batch[t].lock # l

\* batch_fetch is entered: setdefault of the bucket's lock, one more user.
BatchBegins(t, want) ==
    /\ batch[t].pc = "idle"
    /\ LET lock == IF entry = NoLock THEN FreshLock ELSE entry IN
       /\ entry' = lock
       /\ users' = [users EXCEPT ![lock] = @ + 1]
       /\ batch' = [batch EXCEPT ![t] = [NoBatch EXCEPT !.pc = "lock", !.lock = lock, !.want = want]]
    /\ UNCHANGED <<chunkCache, fetches, epoch, owner>>

\* The finally of batch_fetch.
Leave(t) ==
    LET lock == batch[t].lock IN
    /\ users' = [users EXCEPT ![lock] = @ - 1]
    /\ entry' = IF users[lock] = 1 THEN NoLock ELSE entry
    /\ owner' = [owner EXCEPT ![lock] = @ \ {t}]
    /\ batch' = [batch EXCEPT ![t] = NoBatch]

CachedChunks(want) == {c \in want : chunkCache[c] # NoEpoch}

\* The lock is the task's: cached_chunks, and nothing to fetch or release_epoch captured.
BatchLooksUp(t) ==
    /\ batch[t].pc = "lock" /\ owner[batch[t].lock] = {}
    /\ LET missing == batch[t].want \ CachedChunks(batch[t].want) IN
       IF missing = {} THEN Leave(t)
       ELSE /\ owner' = [owner EXCEPT ![batch[t].lock] = {t}]
            /\ batch' = [batch EXCEPT ![t].pc = "fetch", ![t].missing = missing, ![t].captured = epoch]
            /\ UNCHANGED <<users, entry>>
    /\ UNCHANGED <<chunkCache, fetches, epoch>>

\* The missing chunks are decoded; backfill_chunks unless the caches were released meanwhile.
\* Mutant: without the epoch check.
BackfillAlways(t) == [c \in PoolChunks |-> IF c \in batch[t].missing THEN batch[t].captured ELSE chunkCache[c]]

Backfill(t) ==
    IF epoch = batch[t].captured
    THEN [c \in PoolChunks |-> IF c \in batch[t].missing THEN batch[t].captured ELSE chunkCache[c]]
    ELSE chunkCache
BatchDecodes(t) ==
    /\ batch[t].pc = "fetch"
    /\ chunkCache' = Backfill(t)
    /\ Leave(t)
    /\ UNCHANGED <<fetches, epoch>>

\* The read fails or the task is cancelled, waiting or fetching.
BatchFails(t) ==
    /\ batch[t].pc # "idle" /\ Leave(t)
    /\ UNCHANGED <<chunkCache, fetches, epoch>>

\* read_chunk: AsyncKeyedCache.resolve, with one fetch per chunk for everyone.
ReadChunkMisses(c) ==
    /\ chunkCache[c] = NoEpoch /\ fetches[c] = NoEpoch
    /\ fetches' = [fetches EXCEPT ![c] = epoch]
    /\ UNCHANGED <<chunkCache, epoch, entry, users, owner, batch>>
ReadChunkFetched(c) ==
    /\ fetches[c] # NoEpoch
    /\ chunkCache' = [chunkCache EXCEPT ![c] = fetches[c]]
    /\ fetches' = [fetches EXCEPT ![c] = NoEpoch]
    /\ UNCHANGED <<epoch, entry, users, owner, batch>>
EvictChunk(c) ==
    /\ chunkCache[c] # NoEpoch /\ chunkCache' = [chunkCache EXCEPT ![c] = NoEpoch]
    /\ UNCHANGED <<fetches, epoch, entry, users, owner, batch>>

ReleaseCaches ==
    /\ epoch < MaxReleases
    /\ chunkCache' = [c \in PoolChunks |-> NoEpoch] /\ fetches' = [c \in PoolChunks |-> NoEpoch]
    /\ epoch' = epoch + 1
    /\ UNCHANGED <<entry, users, owner, batch>>

PoolNext ==
    \/ \E t \in PoolTasks : (\E want \in SUBSET PoolChunks \ {{}} : BatchBegins(t, want))
                            \/ BatchLooksUp(t) \/ BatchDecodes(t) \/ BatchFails(t)
    \/ \E c \in PoolChunks : ReadChunkMisses(c) \/ ReadChunkFetched(c) \/ EvictChunk(c)
    \/ ReleaseCaches

\* Nothing read before the last release is served after it.
PoolIsFresh == \A c \in PoolChunks : chunkCache[c] \in {NoEpoch, epoch}

\* Batches of the bucket run one at a time, and its lock lives as long as someone holds or awaits it.
BatchesAreApart ==
    /\ Cardinality({t \in PoolTasks : batch[t].pc = "fetch"}) <= 1
    /\ \A l \in LockIds : users[l] = Cardinality({t \in PoolTasks : batch[t].lock = l})
    /\ entry = NoLock <=> \A t \in PoolTasks : batch[t].pc = "idle"

-----------------------------------------------------------------------------
(***************************************************************************)
(* A CompositionRecord shared by readers (dedup/composition_reader.py): its*)
(* page cache, the end offsets _locate searches, and what a verify does to *)
(* it: prime_pages with an array it read, or seed_pages_from_array when    *)
(* parity repaired the array.                                              *)
(*                                                                         *)
(* A page is Disk (as read from the store) or Repaired.  The right end     *)
(* offset of page p is PageEnd(p); on disk, page BadPage has WrongEnd.     *)
(* BadPage = NoPage is an undamaged record.                                *)
(***************************************************************************)

CONSTANTS Pages, Readers, PageRoom, BadPages

ASSUME PagesAssumption == Pages \in Nat \ {0} /\ PageRoom \in Nat \ {0} /\ BadPages \subseteq -1..Pages - 1

VARIABLES badPage, pages, ends, scanned, repaired, locks, walker, reader

pageVars == <<badPage, pages, ends, scanned, repaired, locks, walker, reader>>

NoPage == -1
Absent == "absent"
Disk == "disk"
Repaired == "repaired"
Unknown == -1
PageEnd(p) == 2 * p + 2
WrongEnd(p) == 2 * p + 1    \* a corrupted last record that ends too early
EndOf(p, from) == IF from = Disk /\ p = badPage THEN WrongEnd(p) ELSE PageEnd(p)
PageSet == 0..Pages - 1
Free == "free"
IdleReader == [pc |-> "idle", page |-> 0, start |-> 0, late |-> FALSE]

PagesInit ==
    /\ badPage \in BadPages
    /\ pages = [p \in PageSet |-> Absent] /\ ends = [p \in PageSet |-> Unknown] /\ scanned = 0
    /\ repaired = FALSE /\ locks = [p \in PageSet |-> Free]
    /\ walker = [pc |-> "idle", page |-> 0, start |-> 0]
    /\ reader = [r \in Readers |-> IdleReader]

\* _note_page_end, with the pages already known past this one.
Scanned(p, e) ==
    IF p # scanned THEN scanned
    ELSE Min({q \in scanned + 1..Pages : q = Pages \/ e[q] = Unknown})
NotePageEnd(p, from) == ends' = [ends EXCEPT ![p] = EndOf(p, from)] /\ scanned' = Scanned(p, ends')

\* _fetch_page: a page not cached comes from the repaired array once there is one.
FetchSource == IF repaired THEN Repaired ELSE Disk
Cached == {p \in PageSet : pages[p] # Absent}

\* _pages.resolve stores the page, evicting another past the bound.
Store(p, from) ==
    \E out \in IF pages[p] = Absent /\ Cardinality(Cached) >= PageRoom THEN Cached ELSE {NoPage} :
        pages' = [q \in PageSet |-> IF q = p THEN from ELSE IF q = out THEN Absent ELSE pages[q]]

\* _locate begins: bisect over the contiguous prefix, to the first page that ends after start.
LocateBegins(r, start) ==
    /\ reader[r].pc = "idle"
    /\ \E n \in 0..scanned :
          /\ \A q \in 0..n - 1 : ends[q] <= start
          /\ n < scanned => ends[n] > start
          /\ reader' = [reader EXCEPT ![r] =
                [pc |-> IF n = Pages THEN "found" ELSE "walk", start |-> start, late |-> walker.pc = "seeded", page |-> n]]
    /\ UNCHANGED <<badPage, pages, ends, scanned, repaired, locks, walker>>

\* _get_page takes the page's lock; a miss picks where to fetch from and awaits.
GetPage(r) ==
    /\ reader[r].pc = "walk" /\ reader[r].page < Pages
    /\ locks[reader[r].page] = Free
    /\ LET p == reader[r].page IN
       IF pages[p] # Absent
       THEN /\ NotePageEnd(p, pages[p]) /\ reader' = [reader EXCEPT ![r].pc = "got"]
            /\ UNCHANGED <<pages, locks>>
       ELSE /\ locks' = [locks EXCEPT ![p] = FetchSource] /\ reader' = [reader EXCEPT ![r].pc = "fetch"]
            /\ UNCHANGED <<pages, ends, scanned>>
    /\ UNCHANGED <<badPage, repaired, walker>>
PageFetched(r) ==
    /\ reader[r].pc = "fetch"
    /\ LET p == reader[r].page IN
       /\ Store(p, locks[p]) /\ NotePageEnd(p, locks[p])
       /\ locks' = [locks EXCEPT ![p] = Free]
    /\ reader' = [reader EXCEPT ![r].pc = "got"]
    /\ UNCHANGED <<badPage, repaired, walker>>
FetchCancelled(r) ==
    /\ reader[r].pc = "fetch"
    /\ locks' = [locks EXCEPT ![reader[r].page] = Free] /\ reader' = [reader EXCEPT ![r] = IdleReader]
    /\ UNCHANGED <<badPage, pages, ends, scanned, repaired, walker>>

\* The page covers start, or the next one is tried.
LocateStep(r) ==
    LET at == reader[r] IN
    /\ at.pc = "got"
    /\ reader' = [reader EXCEPT ![r] =
          IF ends[at.page] > at.start THEN [at EXCEPT !.pc = "found"]
          ELSE [at EXCEPT !.page = at.page + 1, !.pc = IF at.page + 1 < Pages THEN "walk" ELSE "found"]]
    /\ UNCHANGED <<badPage, pages, ends, scanned, repaired, locks, walker>>
LocateReturns(r) ==
    /\ reader[r].pc = "found" /\ reader' = [reader EXCEPT ![r] = IdleReader]
    /\ UNCHANGED <<badPage, pages, ends, scanned, repaired, locks, walker>>

\* seed_pages_from_array, after a repair: the array first, then page by page under its lock.
SeedBegins ==
    /\ walker.pc \in {"idle", "primed"} /\ badPage # NoPage
    /\ repaired' = TRUE /\ walker' = [walker EXCEPT !.pc = "seed", !.page = 0]
    /\ UNCHANGED <<badPage, pages, ends, scanned, locks, reader>>
SeedPage ==
    /\ walker.pc = "seed" /\ locks[walker.page] = Free
    /\ Store(walker.page, Repaired) /\ NotePageEnd(walker.page, Repaired)
    /\ walker' = [walker EXCEPT !.page = @ + 1, !.pc = IF walker.page + 1 = Pages THEN "seeded" ELSE "seed"]
    /\ UNCHANGED <<badPage, repaired, locks, reader>>

\* prime_pages with an array whose CRC was right: end offsets up to the window, pages while there is room.
PrimeBegins(start) ==
    /\ walker.pc = "idle" /\ badPage = NoPage
    /\ walker' = [pc |-> "prime", page |-> 0, start |-> start]
    /\ UNCHANGED <<badPage, pages, ends, scanned, repaired, locks, reader>>
PrimePage ==
    /\ walker.pc = "prime"
    /\ LET p == walker.page IN
       /\ IF ends[p] = Unknown THEN NotePageEnd(p, Repaired) ELSE UNCHANGED <<ends, scanned>>
       /\ IF ends'[p] <= walker.start THEN UNCHANGED pages
          ELSE /\ locks[p] = Free
               /\ pages' = IF ~repaired /\ pages[p] = Absent /\ Cardinality(Cached) < PageRoom
                           THEN [pages EXCEPT ![p] = Repaired] ELSE pages
       /\ walker' = [walker EXCEPT !.page = p + 1, !.pc = IF p + 1 = Pages THEN "primed" ELSE "prime"]
    /\ UNCHANGED <<badPage, repaired, locks, reader>>

PagesNext ==
    \/ \E r \in Readers : (\E start \in 1..2 * Pages : LocateBegins(r, start))
          \/ GetPage(r) \/ PageFetched(r) \/ FetchCancelled(r) \/ LocateStep(r) \/ LocateReturns(r)
    \/ SeedBegins \/ SeedPage \/ PrimePage
    \/ \E start \in {0, 3} : PrimeBegins(start)

\* After the reseed no reader finds the damaged page again, evicted or not, and _locate's search stops
\* at the first page that ends after start; before it, only the damaged page can mislead.
RepairSticks ==
    /\ walker.pc = "seeded" =>
          \A p \in PageSet : (pages[p] = Disk => p # badPage) /\ ends[p] = PageEnd(p) /\ locks[p] # Disk
    /\ \A r \in Readers : reader[r].pc = "found" /\ (reader[r].late \/ badPage = NoPage) =>
          reader[r].page = Min({p \in 0..Pages : p = Pages \/ PageEnd(p) > reader[r].start})
    /\ \A p \in 0..scanned - 1 : ends[p] # Unknown
    /\ scanned < Pages => ends[scanned] = Unknown
    /\ Cardinality(Cached) <= PageRoom
=============================================================================
