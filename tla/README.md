# A verification of apm-repo-sdk-python

TLA+ models of the core of the Synology ActiveProtect repository reader, the TLC
runs that check them on small instances, and proofs checked by TLAPS. The modules are
translated from the code under `src/`; `PROJECT.json` gives, for every definition, the
lines it stands for. Paths below are relative to
`src/packages/synology-apm-repo-sdk/src/synology_apm_repo/sdk/` unless they begin with
`cli/` or `browser/`.

    tlc -workers 2 -config cache_ops.cfg AsyncKeyedCache       # a run: configuration, module
    tlapm AsyncKeyedCacheProofs.tla                            # a proof

## 1. The system

The project reads, offline and read-only, a copied-out deduplicating backup repository
and restores single files, mailbox items or disk images from it. Three distributions
share a namespace package: the SDK, a command line and a terminal browser, both over the
SDK alone. Nothing is ever written to a repository; what the program writes are exports,
temporary copies and its profiles.

A file is a sequence of chunk-map records, each a hole or a template of chunks at a Pool
address, perhaps repeated. A chunk lies compressed and encrypted in a bucket. An export
walks the records, plans windows of chunks grouped by bucket, reads the buckets
concurrently, decodes and writes to a sink; the sink is a local file, or a destination that
only takes linear writes and is fed from buffered segments. Everything runs on one asyncio
event loop, with threads and worker processes for blocking work. Any await may fail or be
cancelled, and most of what is hard in this code is what the rest of it does then.

### Inventory

| component | state | operations | interacts with |
|---|---|---|---|
| `asynccache.py`, `_util/once.py` | entries in recency order, futures in flight, stale marks | resolve, lookup, put, put_many, invalidate, settle_all, quiesce | every layer caches through it |
| `cachemanager.py` | named caches and their hooks | keyed, invalidate, invalidate_all | `DedupRepo`, `Repository` |
| `dedup/buffered_export_sink.py`, `segment_buffers.py` | life cycle, slots, queue of complete segments, first failure | open, begin_segment, write, complete, commit, abort | the exporter drives it, a subclass supplies the destination |
| `dedup/local_file_sink.py`, `local_file_io.py` | queue and thread of the writer, file, life cycle | open, write, commit, abort | the same, plus threads |
| `dedup/chunk_walk.py`, `dedup_file.py`, `extent.py` | window under construction, counters | extents, plan a window, execute it, read | Pool, sinks |
| `exec_chunks`, `pool/_bucket_reader.py` | semaphore, tasks, runs still to read | dispatch, read, help, prefetch | asyncio |
| `dedup/export_scheduler.py`, `export_workers.py` | segments, worker pool, progress | schedule, report | sinks, walk |
| `dedup/pool/` | readers, size stores, decoded chunks, batch locks | read_chunk, batch_fetch, backfill, invalidate | caches, storage |
| `dedup/repository.py`, `api/repository.py`, `api/session.py` | open catalogs, db sources, providers, key, closed | set_key, invalidate_caches, close | caches, storage |
| `dedup/verify_*` | buckets seen, findings | walk, check | Pool |
| `storage/` | sessions, slots, temporary copies, disk reservations | list, read, open, close | remote services |
| `format/` | none | codecs | everyone |
| `catalog/`, `units/` | sources of a stream, handles, read-ahead windows | enumerate, resolve, read | `DedupRepo` |
| `api/export_tree.py` | names taken, results | walk a subtree and export it | sinks, units |
| `profiles/` | configuration file, keyring | save, load, delete | CLI, browser |
| `browser/core`, `browser/runtime` | models, message queue, load gate, workers | update, dispatch, perform, invalidate | SDK |
| `cli/` | none that outlives a command | commands | SDK |

What makes each correct: a cache never stores what an invalidation outdated, fetches a key
once at a time and loses no resource on close; a sink's destination is complete or
discarded, and its owner is told which; a walk writes each byte where the map says, once;
an execution stays within its permits and leaves no task behind; a repository never reads
under a key it gave up and closes everything it opened, once; damage anywhere ends as an
error or a finding; a ref or a name that a listing shows leads back to its node; a folder
export never touches a file it did not write; a browser slot that is loading ends loaded or
failed. The hard behaviours are listed with their lines and the properties that cover them
under `hazards` in `PROJECT.json`.

## 2. Modules

| module | models | run |
|---|---|---|
| `AsyncKeyedCache` | the cache, `AsyncOnce`, the quiescing invalidation of `CacheManager.keyed` | `cache_ops`, `cache_settle` |
| `BufferedExportSink` | the buffered sink, its slot pool, the exporter that drives it | `sink_buffered`, `sink_abort_open` |
| `LinearExport` | abstract: what the buffered sink promises its destination | refined by it |
| `LocalFileSink` | the file sink, its threads, the export and the report that drive it | `file` |
| `ChunkWalk` | extents, window planning and execution of an export, and `DedupFile.read` | `chunk_walk` |
| `ExecChunks` | the tasks of one window on one semaphore | `exec` |
| `RepositoryLifecycle` | catalogs, keys and providers of a `Repository` | `handles` |
| `SessionStores` | `Session`: discoveries over shared stores | `handles` |
| `DbSources` | the sqlite sources of a `DedupRepo`, `locate_file` and the sweep | `handles` |
| `SaasStreams` | the bounded cache of SaaS streams | `handles` |
| `SmbStore` | slots, sessions, threads and handles of the SMB pool | `handles` |
| `ObjectStores` | the four backends' answers, S3's client; repositories in a store, generations of a file | `handles` |
| `TempCopies` | temporary database copies and their disk reservations | `handles` |
| `Profiles` | profiles across `profiles.json` and the keyring | `handles` |
| `BucketFormat` | a bucket file and its reader: repair, merged reads, decoding | `reading` |
| `PoolFormats` | the other on-disk formats, keys, byte windows, the registry of caches | `reading` |
| `VerifyWalk` | verification: reach, claim, check, report | `reading` |
| `PoolCaches` | the chunk cache under batches and releases; a record's pages under repair | `reading` |
| `Readahead` | windows ahead of sequential readers | `reading` |
| `Gather` | `bounded_gather`, `bounded_gather_first_error`, `dispatch_to_pool` | `reading` |
| `TreeExport` | the plan, preflight and run of a folder export | `export`, `tree_part` |
| `ExportScheduler` | segments, fragments, windows, worker processes; positional I/O, reserving and zeroing the destination | `export` |
| `UnitTrees`, `SaasTrees` | trees of every kind of version, refs, names, navigation | `export` |
| `CatalogRows` | connections, workloads and versions from their rows | `export` |
| `SaasProviders` | opening a SaaS version's providers over one shared index | `handles` |
| `DiskContents`, `ItemContents` | files inside a disk image; other content sources, chat bodies, calendar events | `export` |
| `BrowserJobs`, `BrowserBrowse`, `BrowserUnit`, `BrowserDialogs`, `BrowserWidgets` | the browser's stores with their workers, its dialogs, timed widgets and tree reconciliation | `browser` |

`MC*` modules give the instances, where the constants of a configuration are not enough;
`*Proofs` modules hold the theorems. An operator under a
`Mutant:` comment, or named like the definition it follows with a suffix that says what is
wrong with it, is a plausible wrong version of that definition; no specification uses it.
Each property is paired in `PROJECT.json` with at least one that breaks it.

On an event loop the code between two awaits cannot be interrupted, so an action is
such a piece of code; where threads are involved, an action is one step of a thread on the
shared object. A cancellation is an action that may happen at every await, bounded in number.
In the browser a dispatch runs `update` and starts its commands before it returns: one
action; a worker's result is a message of its own that arrives whenever it does.

Components that own an `AsyncKeyedCache` (`RepositoryLifecycle`, `DbSources`, `PoolCaches`)
do not repeat its actions. They use it by what its module shows: one
fetch per key, an overtaken fetch is not stored, `settle_all` returns when none is in flight.

`MCHandles`, `MCReading`, `MCExport` and `MCBrowser` put several components that share no
state into one run: a variable `part`, chosen initially and never changed, says which of them
moves. The states of such a run are the union of its parts', not their product, and each
part is checked as if alone. Pure operators are checked in the same way, by one step that
picks their input from a bounded set. A property of such a run is a conjunction of named
parts, each stated in the component's module.

### AsyncKeyedCache

`store`, `lru`, `inflight`, `stale` are the object's fields, `futState` the futures, known by
a number. A caller is `idle`, `fetching` (it owns the fetch) or `joined`; a waiter is in
`settle_all` or `quiesce`. `Resolve` is a call up to its await, `FetchOk`, `FetchFails` and
`FetchCancelled` the ends of a fetch with what `_fetch_and_store` does after it, `JoinerWakes`
the loop of a joiner. `SettleBegin`/`SettleWakes` and `QuiesceBegin`/`QuiesceWakes` are the
waiters together with the `invalidate` their callers make without a further await. History
variables (`outdated`, `produced`, `returned`) record what a value's properties need. The
hit and miss statistics are left out.

### The sinks

`BufferedExportSink`: tasks are the exporter (`xpc`, through `open`, `begin_segment`, writes,
`complete`, `commit`), the flush loop (`fpc`), `_finalize` and the one `_abort` task (`apc`); a
caller may abort from outside. `pool` and `pend` are the storage of the slots and the thread
that still writes to it. The bytes of a slot are abstracted to whether it reads as zero
(`dirty`). The subclass's hooks succeed or fail freely. `LinearExport` is the view of the
destination: created once, segments in order, final only when complete, else given up.

`LocalFileSink`: the driving task is in `call`, its close of the writer at `at`. Threads are
the opener, the writer, one per `put` that found the queue full, one per sentinel sent, the
renamer. `strays` are put threads whose caller was cancelled: they go on. A close repeats what
an interrupted one left undone. Both the plain and the staged (`.part`, then renamed) form are
initial states. If every abort is itself cancelled (`Abandoned`) the code leaves the writer
running, and the model says so. Failure of the final unlink is not modelled.

### Walk and execution

`ChunkWalk`: operators translate the chunk map (`RecordEnd`, runs, repetition, bucket crossing)
and `extents`; the actions plan one window, execute its merged reads block by block in any
order, and count. A byte of content is the triple of bucket, chunk and position. The size of a
bucket, of a merged read and of a window are constants; how a bucket splits into merged reads
is an input. The reference is the content read directly off the records.

`ExecChunks`: `main` is where `exec_chunks` is, `st` the state of every task: `<<b, 0>>` for
bucket group `b`, `<<b, i>>` for its helpers. asyncio's Semaphore, TaskGroup and cancellation
are external, modelled from how the code uses them: a permit handed to the waiting loop before
it runs (`granted`), a task cancelled before its first step whose body never runs, done
callbacks that run later, a group that cancels its tasks and its parent on the first failure.
`max_concurrent_reads` is chosen at the start; with one, and with a single group, `exec_chunks` reads
serially, without a task.

`ExportScheduler` sits above both: it runs whole windows, and keeps where the bytes of a window
go (segment, slot, worker's target) and which of three levels built the worker processes.

### Owners of handles and the storage layer

`RepositoryLifecycle`: `cat` holds what each catalog's cache entry is (its object and the key it
was opened under), setters go through `SetKeyBegins`, `SetKeyVerified`, `Adopt`, `Reopen`,
`CloseOld`; `DropBegins` … `DropEnds` are `invalidate_caches`, `CloseBegins` … `CloseEnds` are
`_close`. `Overlaps` says which of these calls may overlap; the code expects its caller to
serialise them, so the run has none, and the observations below say what happens otherwise.
`SessionStores` and `SaasStreams` have a constant of the same kind.

In `SessionStores` a scan may fail while the generator waits or is suspended (`ScanFails`), and so may the open
of a repository. What `_drain_and_close` still awaits and cannot suppress leaves `discover`'s finally early
(`DrainFails`): that discovery is over, but stays counted (`"failed"`), and its store is left to `Session.close`.

`SmbStore`: a caller takes a permit, a slot, a session; its call runs on a thread that captured the
session. Timeouts and cancellations leave the thread running. `TempCopies`: each file of a copy is
written by a thread that reads the free space, reserves under the lock and accounts for each piece;
removal waits for all of them. `SaasStreams` writes the eviction loop of `_stream_for` as what it comes
to: the least recently used streams without a reader go, as many as are too many, or all of them.
`SaasProviders` opens the candidates of a version one after the other and counts the holds on the index
they share. `Profiles`: a save is a sequence of steps over file and keyring; the process may die between
any two and the keyring may refuse.

`ObjectStores` holds operators on small stores: what `read`, `size`, `exists` and
`listdir` of each backend answer, which directories are repositories, which generation is read.

### Reading and verifying

`BucketFormat` scales a bucket file down to a few bits of size store and a few cells, writes one,
damages it in one place (a cell, a truncation, the header, up to two size bits, with or without
the parity that repairs them) and reads it through `open`, the merged and the single reads and
`check_one_bucket`. `Readahead` numbers every window ever planned; a stream's windows lie side by side, so
those that meet a range are a piece of its list. Checksums are equality with what was written; decompression of garbage may
fail or, if `lucky`, yield garbage. LZ4, ZSTD, AES and SHA-256 are external. `PoolFormats` does the
same for addresses, sub-files, chunk maps, fingerprint files, keys and byte windows.

`VerifyWalk` runs over a world of versions, records and buckets, each sound or damaged. A version
resolves its extents, each record is checked once, a bucket belongs to the first version that
reaches it, and claimed buckets are checked several at a time. `claim_extent` is three actions: the checks
before the walk, each key of the walk, and its end. `Worlds` are the repositories to verify;
`WorldIsRight` says what a world is: a finite list of versions, extents that lie in the chunk maps of
their records, maps that name buckets or do not parse (`Broken`), and for each bucket its size and what
`check_one_bucket` comes to. What the store does not give is part of a world: `repo_info`, a header, a record's
head, a page of its map, its attribute blob or its parity may be gone, denied or down. `Raised` is what neither
`claim_extent` nor `check_repo_info` catches; a version's resolution and a bucket's check turn a denied read
into a finding, and only a store that is down ends the verify there.

### Trees, catalogs and exports

`UnitTrees` and `SaasTrees` translate listing, paging, resolving and opening for each provider over
small sets of rows; `FindNode`, `FindPathWithChildren`, `LocateHuman` and `ResolveHuman` are the ways
back. Names are short sequences of characters where encoding matters, tokens elsewhere.
`TreeExport` keeps the disk as a function from paths to owners, with names that are equal up to
case, and lets another program add a file at any step of the run, also between `path_taken` and the rename. An
item goes through `CheckItem`, `OpenUnit`, `WriteItem`, `CommitItem` and `FinishItem`, and may fail or be
cancelled between any two of them. A stranger's file that appeared at the current item's destination after
`path_taken` answered is marked `late`: `OthersFilesSurvive` lets the item's rename replace it, and no other.

In `CatalogRows` a version's list of meta files is a JSON array or corrupt; the corrupt one of a shown version
fails the whole listing, as `_version_metas_for` does.

### The browser

`BrowserJobs` is the app store (one export slot, a queue, verifications, `LoadGate`), `BrowserBrowse`
and `BrowserUnit` the stores of the two screens with their workers, `BrowserDialogs` the connect and
key dialogs, `BrowserWidgets` the debounced widgets and `reconcile_children`. A worker that was asked
to cancel ends later; a result of a repository that was discarded, or of a superseded fetch, still
arrives. Labels, cursor, layout and key bindings are left out.

## 3. Runs

| run | instance | shows |
|---|---|---|
| `cache_ops` | 2 keys, 2 callers, 1 quiescing invalidation, maxsize 1 | freshness, single flight, recency order, isolation of cancellation |
| `cache_settle` | 2 keys, 2 callers, 1 closer, nobody else invalidates | a close is handed every value fetched; calls return |
| `sink_buffered` | 5 segments, 3 slots, abort once open | refinement of `LinearExport` (order, completeness, a commit stands), slot hygiene and release (`PoolIsSound`), safe and truthful aborts, termination |
| `sink_abort_open` | the same, abort at any time | *violation*, see below |
| `file` | 6 writes, queue of 3, 2 writers, 2 cancels anywhere | the destination is whole, an abort is true and leaves nobody running or stranded, the export and its threads end |
| `chunk_walk` | files of up to two records, every aligned start, ends inside a chunk, at its end and past it | the export is the content and `read` agrees (`ContentIsRight`), bounded windows, each chunk decoded once, keys and counts as planned (`PlansAreExact`) |
| `exec` | 4 groups of 1, 3, 2, 1 reads, 1 or 2 permits, 2 failures, 2 cancels | bounds, each run read once, no lost permit, failures surface (`WindowIsSound`), nothing runs on, termination |
| `handles` | 2 catalogs, 2 setters, 1 provider; 2 discoveries of 2 repositories whose scans may fail; 2 lookups against sweep and close; 4 readers of 3 streams, cache of 1; 2 SMB slots, 2 callers; 3 S3 tasks; 4 candidates over one index; 2 copies on 4 free pieces; 3 profile operations; stores of two features | catalogs use the adopted key, nothing is closed while used, everything is released, a shared index lives as long as its holds, late SMB calls stay apart, backends agree, uncommitted uploads are invisible, a listed profile has its secrets |
| `reading` | buckets of up to 3 chunks, every single damage; verifies of 2 versions, 2 records, 3 buckets, with parts gone, denied or down; 3 pool tasks, 2 releases; 2 page readers and a repair; 2 read-ahead readers; 4 gathered items | damage is caught, formats read back, verify is complete, caches are fresh, shared reads are exact, bounded and fail as a serial loop would |
| `export` | trees of every kind with up to 4 rows a level, pages of 2; folders of 3 items, 1 stranger, a cancel anywhere; disks of 2 fragments, 5 blocks; 2 readers of one handle | exports are true to their content and touch nothing else, nodes are found again |
| `tree_part` | the same, with a folder that holds `a.part` and `a` | *violation*, see below |
| `browser` | 3 jobs, 2 verifications, 2 invalidators; 2 repositories over 3 scans; pages of 2, 2 roots; 3 scans of a dialog; reconciliations of up to 3 keys | loading ends, screens show what belongs to them and keep it, exports are alone, jobs end |

**Bounds.** Two callers suffice for an owner and a joiner, and a third party is the waiter; two
keys for eviction at maxsize 1 and for a round of `settle_all` that ends while another begins.
Every caller may be cancelled once and then fetch again. Five segments over three slots let a
slot be reused while another flushes and a third fills. Six writes over a queue of three with
two writers fill the queue with the writer busy, and two cancels interrupt a body and then its
abort. In ChunkWalk a bucket has three chunks, a window three, a merged read two: runs end
before, at and after each of these limits, and repeated templates cross them at every phase.
Four groups on two permits leave groups waiting while helpers compete for permits. Two setters
let a key be adopted while another is verified; two catalogs let one be reopened while the
other is first opened. Four readers of three streams on a cache of one make every stream in
use, evictable and re-born. Two slots and two callers leave one slot with a late thread while the
other serves; two attempts reach the retry. Two copies on four pieces with a reserve of one make the
second fit only if the first is small or gone. Two releases let a batch straddle one and be
overtaken by the next. Three jobs give one running, one queued and one to be promoted after a
cancel; three scans outdate a result twice. Symmetry is used for keys and callers in `cache_ops`,
where only invariants are checked. Deadlock is not checked where tasks may rest (a cache nobody
calls, a screen nobody touches, an ended export) or where a liveness property says more.

**Fairness.** Weak fairness of each task and thread: the event loop runs what is ready, the
operating system schedules threads, and a fetch, hook, read or write that was called returns
or raises. Nobody has to cancel, to abort or to call. For the cache, a fetch ends in one of
its three ways; callers need not call again. For the browser (`JobsEnd`), workers, checks and
invalidations that run go on and a released gate wakes its waiters; a user need not act, and
the number of invalidations is bounded, since endless ones starve the exports (below).
`LoadingEnds` is an invariant: a slot that is loading always has the worker or message that
will settle it.

**Divergences.** Two runs show the code doing something else than a line of the repository
says; `findings` quotes the lines.

* `sink_abort_open`: an abort while `open` waits for its pool reports that nothing was kept;
  `open` then still creates the destination, and the cached outcome of the abort keeps
  everyone from discarding it.
* `tree_part`: an item is staged at its path plus `.part`, which the check of taken paths does
  not look at; an item or a stranger's file of that name is overwritten and renamed away.

### Observations

Met while modelling, reproduced by the models under other constants or read off the code, and
not kept as runs. Line numbers are the code's.

*Caches and sinks.* `settle_all` gives landed values priority over stored ones
(`asynccache.py:245`), so a key invalidated and fetched again during the wait is dropped
unreturned; `NothingLeaks` is checked where nobody else invalidates. `task.cancelling()` (line
253) stays positive in the cleanup of a cancelled task, which makes it re-raise another task's
cancellation; `CancelledOnlyIfOwn` speaks of tasks that were never cancelled. A commit of the
file sink cancelled while its thread renames (`local_file_sink.py:251`) is reported as cancelled
with the complete file in place, although `cli/README.md:42` says a cancelled export never leaves
something that looks like one; `AbortsAreTrue` names this exception. More cancelled writers
blocked on the queue than it has places (`Readers > QueueSize`) can be stranded by a sentinel that
overtakes them (line 126). `count_planned_bytes` counts whole chunks while the last write is
truncated (`chunk_walk.py:283`), so progress stops short of its total for a size that is no
multiple of a chunk; `PlannedIsReached` bounds the difference.

*Repository and session.* With `Overlaps = {"close"}` a set_key that overlaps `_close` leaves a
catalog open; with `{"drop"}` an `invalidate_caches` that overlaps a set_key puts a catalog of the
old key back. A set_key cancelled between adopting and closing leaks the old `DedupRepo`s. With
`CloseOverlaps`, `close_repo` beside `Session.close` raises ValueError from `_stores.remove`
(`session.py:245`, `258`). A discovery whose scan or pending open raises in `_drain_and_close` (`session.py:164`,
`285-301`) leaves its backing store counted in `_discovering` for ever, so a later `close_repo` of the last repository
over it leaves the store open until `Session.close`, although its docstring (`208-210`) keeps it open only while a
discovery is still running; `HandlesAreReleased` names this exception. `SaasStreamCache.invalidate` beside a reader clears `_in_use`, so a late
`finally` takes a newer caller's mark (`stream.py:446`, `436`), and a lookup cancelled while it closes
evicted streams leaks their sources (lines 415-418).

*Storage.* `SmbStore`: a cancelled call releases its slot while its thread still uses the session
(`smb.py:349`); a close cancelled while it collects permits keeps them (356), two concurrent
closes wait for each other, and `register_session` has no timeout, so stuck threads that fill the
pool block every connect. `reserve_disk_space` reads the free space before it takes the lock
(`disk_space.py:139`): a copy that ends in between gives back its hold while its bytes are missing from
that reading, and the reserve can be spent. Two processes saving and deleting one profile can leave
it listed without secrets; a blank secret on `add --force` keeps the old one. A table with only a
bare file becomes NotFound after a first uncommitted upload (`generations.py`). `LocalFsStore.read` of
a directory with length 0 returns nothing instead of an error. `iter_repository_layouts` started at
a bucket's data directory yields its catalogs one by one, although its docstring says one layout.

*Reading and verifying.* `read_chunks` is documented to raise for COMPACTED before any read, but with
verify the CRC trailer is read first (`_bucket_reader.py:444`, `512`). A garbage row of the vault
database raises `binascii.Error` past the documented errors (`keys.py:141`); a `NoEncryption@…` key
string verifies for every repository (165). A full check does not notice damage confined to the
redundancy blob and does not check the content of buckets without compression. A chunk-map walk
that failed is repeated and reported by every later version with the same window
(`verify_walk.py:239-251`). A denied read (`PermissionDeniedError`) of `repo_info` or of a composition sub-file ends the
whole verify (`verify_checks.py:48-89`, `verify_walk.py:248`), like a store that is down, although the "Raises" of
`verify_reachable` names only `StorageBackendError`; elsewhere it is one finding. `VerifyIsComplete` says exactly what
ends a verify early. The guard `min(failures) < index` in `bounded_gather_first_error` is
equivalent to "any failure".

*Folder exports.* A file that appears at an item's destination between `path_taken` (`export_tree.py:351`) and the
sink's rename (`local_file_sink.py:251`) is replaced without another look; lines 315-317 say an item whose destination
appeared during the run is skipped. A cancel at `export_tree.py:362`, after the commit, finds the committed sink still
current: `ExportTracker.leftover` then reports a kept `.part` that does not exist, or that nothing was ever written,
of a file that is whole, although its docstring says a committed item has nothing to report. `ExportsAreTrue` names
both.

*Trees and refs.* `Repository.locate` documents that a canonical ref always names a node, but the ref
of a SaaS drive's root is not found (`units/saas/provider.py:505`). In the raw file map a directory
and a file of one path share a ref. The note on fragments that never resolve is listed only if the
first page has room (`device_pcps.py:112`). Suffixes are four hex digits of a hash, so two of them, or
a name that looks like a suffixed one, may collide, and the first wins. A `#` in a repository path and
a lone empty segment do not round-trip (documented, `node_ref.py:28-31`). A group named like the root
hides its row (`synthetic_grouped.py:64`, `74`). A mail whose folder is missing is not listed, a mail
id equal to a sibling folder's shares its ref; an orphan of a drive is found by id but not listed,
cycles of folders are not detected. A JSON index over 8 MiB is sniffed from its head only
(`services.py:214-219`). `Catalog.versions` filters by workload, `version_by_uid` also by connection.

*Contents.* `zero_range` past the end of a file extends it when it writes but not when it punches. Short
reads inside `_BlockingReadContentSource.export_range` leave progress short (`units/base.py:117`).
`LazyArtifact` builds twice under two concurrent first reads. The UNTIL of a timed series is the end
of its last day in UTC, which cuts the last evening west of it (`saas_calendar.py:128`).

*Browser.* An export worker cancelled before its first step never reports, and its slot stays taken
(`CancelUnstarted`); endless reloads starve the loads at the gate. The screen stays live while a
refresh drains: a fetch started then reads the provider the reset closes. A root that loads between
the store's close and `on_unmount`'s cancel leaves its provider without owner. Toggling verbose during
a refresh cancels the drain and reloads without invalidation. A goto typed after a failed root load
waits for the next load. A selection queued before a rescan can point at a discarded handle
(`core/browse/update.py:262`). Esc in the key dialog after set_key adopted leaves stale catalog
objects. `reconcile_children` assumes that survivors keep their relative order.

## 4. Proofs

TLAPS proves the following for every value of the constants, from the named assumptions of
the modules (positive sizes, finite sets of tasks) and the hypotheses a theorem names. Each
invariant below was first checked by TLC. A proof has one lemma per action, and under it one
step per part of the invariant the action can disturb; the parts are named after what they say.

| module | theorem | property | hypothesis |
|---|---|---|---|
| `AsyncKeyedCacheProofs` | `TypeCorrect`, `StoredIsFresh`, `FetchesAreSingle`, `WaitersAreAnswered`, `CancellationIsOwn`, `LruIsConsistent` | `TypeOK`, `StoreFresh`, `SingleFlight`, `NobodyOrphaned`, `CancelledOnlyIfOwn`, `LruConsistent` | |
| | `NothingIsLost` | `NothingLeaks` | only the closers invalidate |
| `BufferedExportSinkProofs` | `PoolSound` | `PoolIsSound` | |
| | `AbortsTrue`, `SinkImplementsLinearExport` | `AbortsAreTrue`, `ImplementsLinearExport` | no abort before `open` returns |
| `LocalFileSinkProofs` | `ExportedIsWhole` | `FileIsWhole` | |
| | `AbortsTell` | `AbortsAreTrue` | `Readers < QueueSize` |
| `ExecChunksProofs` | `TypeCorrect`, `ReadsAreBounded`, `NothingRunsAfterwards`, `WindowsAreSound` | `TypeOK`, `ReadsBounded`, `NothingRunsOn`, `WindowIsSound` | |
| `HandlesProofs` | `AdoptedKeyIsUsed` | `CatalogsUseAdoptedKey` | no `invalidate_caches` overlaps a set_key |
| | `UsedStaysLive`, `HandlesComeBack` | `LiveWhileUsed`, `HandlesAreReleased` | callers serialise what the code asks them to |
| | `IndexStaysShared` | `IndexIsShared` | |
| `StorageProofs` | `SlotsStaySound` | `SlotsAreSound` | |
| | `ListedKeepSecrets` | `ListedHasSecrets` | one process edits profiles |
| `ReadingProofs` | `CachesStayFresh` | `CachesAreFresh` | |
| | `SharedReadsStaySound` | `SharedReadsAreSound` | |
| | `GathersFailInOrder` | `GatherIsSerial`, a part of it | |
| | `VerifiesAreComplete` | `VerifyIsComplete` | every world is right (`WorldIsRight`) |
| `BrowserProofs` | `SpinnersComeToAnEnd`, `ScreensKeepRows` | `LoadingEnds`, `ScreenKeepsRows` | |
| | `ScreensShowTheirOwn` | `DiscardedStaysGone`, `RowsAreChildren`, `FilterIsTyped`: `ScreenIsTrue` without the trees | |
| | `ExportsStayAlone` | `ExportsAreAlone` | no worker is cancelled before its first step |

The hypotheses are the conditions under which the property is the code's promise; the runs that
check the property meet them. Without them it is false: `sink_abort_open` shows it for the
sink, and the observations tell what happens when calls overlap, when more writers wait than the
queue has room for, when two processes edit one profile, and when a worker never starts.

**The cache.** `IInv` is inductive. `TypeOK` and `StoreFresh` are not alone: that a value about to
be stored is fresh unless its key is marked stale needs that the mark covers every fetch begun
before the last invalidation (`InflightFresh`), that each key in flight has exactly one owner
(`InflightOwned`, `PendingOwned`, `CallersBusy`) and that a fresh id was never used (`IdsUsed`);
`WaitersBusy` ties the waiters to futures in use. `CancellationIsOwn` has an invariant of its own,
that a CancelledError on its way to a fetch belongs to a cancelled task (`ThrowOwn`). `LruConsistent`
is preserved by each operation on the order. `NothingIsLost` needs `LInv`: a closer still waiting
knows every fetch in flight it has to collect (`CloserKnows`), and a key in flight is not stored.

**The buffered sink.** `IInv` says where the destination and the pool are for each place of the
exporter, the flush loop, the finalize and the abort (`Control`, `PoolPhases`, `AbortKnows`,
`DestPhases`), that the segments between the flushed ones, the one in a flush, the queue and the
exporter have no gap (`Ordered`, `NothingMissing`), that every segment whose bytes still matter has a
slot of its own that is not free (`SlotsApart`), and that what was not written reads as zero
(`ZeroKept`). `SinkImplementsLinearExport` maps each step to a step of `LinearExport` or a stutter,
under that invariant; `NothingMissing` is what makes a final destination complete.

**The file sink.** `IInv` is `TypeOK` with: what the opener thread may still do (`OpenerInv`), what the
writer holds (`WriterInv`), that nothing is closed before the body ends (`EarlyInv`), how far each of the
three possible closers is (`CloseInv`), where every issued write is (`JobsInv`: put, queued, held or
applied, unless an error is recorded), what a rename has behind it (`RenameInv`), what is on disk
(`DiskInv`) and what an abort answered (`OutcomeInv`). That nobody waits for a queue whose writer is
gone rests on counting (`RoomInv`): behind a sentinel there are at most as many puts as could be
waiting when it was sent.

**Execution of a window.** `TypeCorrect` and `ReadsAreBounded` rest on `PermitBound`: free permits,
permits held by tasks and a permit granted to the waiting loop never exceed `max_concurrent_reads`
together. It is an inequality because a task cancelled before its first step never gives its permit
back. `NothingRunsAfterwards` rests on `Nested`: helpers exist only while their group is reading or
joining, groups not dispatched have no task, and the loop leaves its TaskGroup only when all are over.
`WindowsAreSound` adds `SoundInv`, in four parts. `ReadInv`: the runs taken from a group's deque are those
before its head, each handed over or with one task that reads it (`RunsTaken`, `ReadOnce`), and a group
whose bucket is not open has none (`Untouched`). `FailInv`: a failure is on its way to the caller
(`FailureKnown`: a task that raised, a group that knows and still joins, the TaskGroup's errors or the outcome), a group's
task does not read on after its helper failed (`FailedIsCancelled`), and a cancellation is the caller's or
the TaskGroup's own (`OutcomeKnown`). `CoverInv`: while nothing failed and nobody cancelled, what was
taken is handed over or being read, a group's task is done only when its deque is empty (`Covered`), the loop
joins only when every group is dispatched (`Dispatched`), and serially the groups before the current one are
complete (`SerialProgress`). `Conserved` counts the permits exactly: what the loop or a group takes
is what its new tasks hold (`PermitsExact`), what ends gives one back (`PermitBack`).

**Owners of handles.** `KeyInv`: an entry opened under an old key is in nobody's cache once a key is
adopted, also when a drop is under way (`KeyOfCache`, `KeyOfDrop`). `LifeInv`: every open catalog has
one owner (`HasOwner`, `OneEach`), and what a set_key replaces, a drop sweeps or a close collects is
with that task and nowhere else (`OldLife`, `DropHolds`, `CloseSweeps`). `SessInv` counts for a session's
stores: a store is kept while a repository or a discovery uses it, and the last user closes it
(`StoreIsKept`, `LastIsClosed`, `ClosingIsUnused`), unless a discovery over it failed and stays counted (`Uncounted`);
then the store is noted in `_close_when_idle` and remains listed (`IdleIsNoted`, `StoreIsKept`), which is why
`Session.close` reaches it. `DbInv` does the same for the sources of a `DedupRepo`
(`FetchLife`, `StoredLife`, `TableLife`, `SweepLife`, `OpenHasOwner`), `TempInv` for the files of a
temporary copy (`FileLife`, `CopyLife`), `S3Inv` for the client of `S3Store`. `StreamsInv`, in
`StorageProofs`, does it for the SaaS streams: a cached stream is open and has one entry (`CachedLife`),
what a lookup evicted is not cached again (`EvictedLife`), an open stream is cached or still to be closed by the
lookup that evicted it (`StreamLife`), every stream a call reads is cached under the call's key or was
swept by the close (`ReaderLife`), and the marks of a key are the number of calls that read it
(`MarksCount`). The last is why an eviction, which looks only at the marks, spares readers, and it
is what an overlapping `invalidate` breaks: callers must not read while it runs (`~Overlap`). `SaasInv`: the index is
open exactly while somebody holds it, and the counter is the number of holders (`IndexHeld`), it was loaded
at most once (`LoadedOnce`), and a candidate tried and not kept has neither a hold nor a table
(`CandidatesClean`). `HoldsInv` adds to `TempInv` that `_in_flight_bytes` is the sum of the holds, counted as a
set of pieces: a step that changes one file's hold changes the count by the difference (`HoldMoves`).

**Storage and profiles.** `SmbInv`: permits, idle slots and callers add up (`PoolCounts`,
`SlotsSomewhere`), a caller awaits one call (`OneAwaited`), a call that timed out holds a session
that no slot has (`SessionsApart`), and handles are closed past the bound (`FewHandles`). `ProfInv`: what the
keyring holds at each step of a save or a delete covers what the file lists (`EditShape`, `SaveKeeps`,
`Listed`).

**Reading.** `PoolInv` adds to `PoolIsFresh` that a fetch the cache knows was begun in this epoch
(`FetchesAreFresh`), that the bucket's tasks share one lock (`OneLock`) and that its users are counted
(`LockCounts`). `PagesInv`: a page under fetch has a reader holding its lock (`FetchersHold`), the prefix
that `_locate` bisects is known (`PrefixIsKnown`), the pages the repair reseeded stay (`ReseededStay`), end
offsets belong to the pages they were read from (`EndsAreRight`), and a reader has passed only pages
that end before its start (`PassedEndBefore`). `GatherInv`: recorded failures are of items that failed,
none before the one raised is outstanding (`FailuresAreTrue`, `RaisedLast`), and running items are
counted (`FewRun`). The least element that `Min` chooses exists by well-ordering of the naturals
(`LeastNat`, from `WellFoundedInduction`). `AheadInv` is what a read through the readahead rests on: the
windows of a stream lie side by side (`Chained`, in `StreamsAre`), the parts a read has still to
collect start where its bytes end and reach the end of its range, also after their stream has forgotten them
(`PartsFit`, in `ReadsAre`), a window in flight is fetched by exactly one read (`Fetching`), and the bytes held,
again counted as a set, stay within `MaxBytes`, since a new window is cut to what is left (`HeldFits`). That
a read awaits only windows somebody fetches follows; what a cancelled fetch drops takes nothing from a
read that planned on it, which then reads the source directly. `SweepInv` is a verify's: the records checked are those of the
extents looked at (`RecordsAre`), a bucket is claimed by the first version that reaches it, and every extent walked,
and every window in `_walked_extent_windows`, has its buckets claimed (`ClaimsAre`); a claimed bucket is in exactly one of
five places: pending, being sized, queued, being checked, checked (`QueuesAre`); what is queued or being
checked is what the total has over the progress, the sizes counted as a set (`ProgressIs`); and a finding is
about something dealt with already, so none can come twice (`Dealt`, in `FindingsAre`). A walk that breaks is why
a window counts as walked only when it was whole. That a verify goes on only past what does not raise is `NoneRaised` and
`NoneDown` (nothing dealt with so far was one of `Raised`, or down), and a step that meets one aborts under
`VerifyRaises`, which is what makes an early end exact (`OverIsNoRaise`); that a bucket the map names is skipped only
with a finding on its record is `NoneIsBlind`; two windows with one key reach the same buckets (`SameWindow`).

**The browser.** `JobInv`: a job that holds the slot has the one worker that will report it
(`WorkersOwnSlots`), at most one holds it (`OneSlot`), and a full check has the slot the store says it has
(`CheckHasSlot`); `PromotedIsQueued` tells what `_promote_next_queued` does. `BrowseInv` adds to the
properties that handles are numbered upwards, so that no late answer can name a later repository
(`HandlesAreFresh`), and that the connect dialog is not over a running export (`ExportShutsDialog`).
`UnitInv`: requests are numbered and each slot has at most one worker the store still hears (`Numbered`, `Heard`),
what shows as loading has one or is about to be reset (`Spin`), a root that will be accepted brings the
provider nobody else owns (`RootArrives`), and a page that will be accepted starts where the shown rows end
(`PagesInOrder`). `DialogInv` says that the fields are off exactly while a scan is known, `WidgetInv` what the
indicator knows of what it shows. The least job that `_promote_next_queued` takes exists by `LeastNat`.

**Only model-checked.** Liveness and anything that needs ENABLED, since the prover has no rules for
fairness (`CallsReturn`, `ExportEnds`, `WindowEnds`, `JobsEnd`). What recursive or
folded definitions compute needs induction over data: the walk's plans and the bytes of a window (`chunk_walk`),
formats and single damages (`DamageIsCaught`, `FormatsReadBack`), trees and exports (run `export`, whose modules `SaasTrees`
and `UnitTrees` declare RECURSIVE operators), the backends' answers, layouts and generations
(`ReadersAreServed`), and `ReconciledRight` of the browser's trees. What `check_one_bucket` finds
in one bucket file is such a definition too (`DamageIsCaught`); `VerifiesAreComplete` takes it as part of the world.

## 5. Not modelled

Cryptography, compression and hashing (computation over bytes; the reader's control around them
is in `BucketFormat`), the client libraries of the stores, SQL, the Dissect parsers, asyncio and
Textual, which are used by their contracts. Rendering of contacts, mail, site items and chat
transcripts to text beyond the sanitizer and the calendar, reports and progress lines, content
previews, argument parsing, layout and key bindings: formatting. The store trace only records.
Examples and scripts are no part of the system; the bodies of hypervisor restores talk to
services that are not here. `components` in `PROJECT.json` lists each part with its reason.

Within modelled parts, these are left out: statistics of the caches; the failure of a final
unlink in `LocalFileSink`; a close of a store or repository cancelled half-way in `Session`; a scan of a store that
denies a directory; a close of `SmbStore` cancelled while it collects permits; two processes
at one profile store; several levels of a tree in `reconcile_children`; a composition of the
components of a part-wise run with each other (they interact through the cache's and the
sink's contracts, which are checked in their own modules).
