----------------------------- MODULE DbSources -----------------------------
(***************************************************************************)
(* The sqlite sources one DedupRepo opens (sdk/dedup/repository.py): db(), *)
(* locate_file over db/file_map and the optional file_meta Table, and the  *)
(* sweep of db_sources that invalidation and close() share.                *)
(*                                                                         *)
(* _db_sources and _file_meta_table_cache are AsyncKeyedCaches, used by    *)
(* what that module shows: one fetch per key, a fetch overtaken by         *)
(* invalidate() is not stored, settle_all returns with none in flight.  A  *)
(* SqliteSource is a number, and a Table is the source it is bound to.     *)
(***************************************************************************)
EXTENDS Integers, FiniteSets

CONSTANTS
    DbReaders,   \* locate_file calls
    MaxSources,  \* bound: sources opened over the life of the repository
    Rows         \* file_map.status of the path's row; NoRow when it has none

DbNames  == {"file_map", "file_meta"}
Sources  == 1..MaxSources
Sweepers == {"invalidate", "close"}
NoTable  == -1   \* the cached answer "checked, found nothing"

VARIABLES
    dbClosed,   \* DedupRepo._closed
    dbStore,    \* _db_sources._store, 0 where absent
    dbFetch,    \* _db_sources' fetch in flight, 0 where none
    src,        \* state of each source
    table,      \* _file_meta_table_cache: 0 absent, NoTable, or the source bound to
    build,      \* its fetch: place, source, whether it was overtaken by a clear
    rdPc,       \* where each locate_file is
    rdSrc,      \* the source it runs its query on
    swPc,       \* where each sweep is
    swHeld      \* settle_all's held_at_entry and landed, then what is to close

dbVars == <<dbClosed, dbStore, dbFetch, src, table, build, rdPc, rdSrc, swPc, swHeld>>

DbInit ==
    /\ dbClosed = FALSE
    /\ dbStore = [n \in DbNames |-> 0]
    /\ dbFetch = [n \in DbNames |-> 0]
    /\ src = [s \in Sources |-> "unborn"]
    /\ table = 0
    /\ build = [pc |-> "idle", src |-> 0, stale |-> FALSE]
    /\ rdPc = [r \in DbReaders |-> "idle"]
    /\ rdSrc = [r \in DbReaders |-> 0]
    /\ swPc = [w \in Sweepers |-> "idle"]
    /\ swHeld = [w \in Sweepers |-> {}]

-----------------------------------------------------------------------------
(* db(name): one source per physical file                                  *)

Unborn == {s \in Sources : src[s] = "unborn"}

\* A miss of _db_sources: _build_db_source refuses once closed.
StartFetch(n) ==
    /\ dbStore[n] = 0
    /\ dbFetch[n] = 0
    /\ ~dbClosed
    /\ \E s \in Unborn :
          /\ \A o \in Unborn : s <= o
          /\ src' = [src EXCEPT ![s] = "opening"]
          /\ dbFetch' = [dbFetch EXCEPT ![n] = s]

Wanted(n) ==
    \/ n = "file_map" /\ \E r \in DbReaders : rdPc[r] = "db"
    \/ n = "file_meta" /\ build.pc = "db"

FetchBegins(n) ==
    /\ Wanted(n)
    /\ StartFetch(n)
    /\ UNCHANGED <<dbClosed, dbStore, table, build, rdPc, rdSrc, swPc, swHeld>>

\* The source is open: it is stored, and landed in every settle_all under way.
FetchLands(n) ==
    /\ dbFetch[n] # 0
    /\ src' = [src EXCEPT ![dbFetch[n]] = "open"]
    /\ dbStore' = [dbStore EXCEPT ![n] = dbFetch[n]]
    /\ swHeld' = [w \in Sweepers |-> IF swPc[w] = "settle" THEN swHeld[w] \cup {dbFetch[n]} ELSE swHeld[w]]
    /\ dbFetch' = [dbFetch EXCEPT ![n] = 0]
    /\ UNCHANGED <<dbClosed, table, build, rdPc, rdSrc, swPc>>

\* No such db file, or damage: nothing was opened.  Whoever waits raises,
\* except that a missing file_meta is a cached "no table".
FetchFails(n) ==
    /\ dbFetch[n] # 0
    /\ src' = [src EXCEPT ![dbFetch[n]] = "closed"]
    /\ dbFetch' = [dbFetch EXCEPT ![n] = 0]
    /\ IF n = "file_map"
       THEN /\ rdPc' = [r \in DbReaders |-> IF rdPc[r] = "db" THEN "error" ELSE rdPc[r]]
            /\ UNCHANGED <<table, build>>
       ELSE /\ \/ /\ table' = IF build.stale THEN table ELSE NoTable
                  /\ rdPc' = [r \in DbReaders |-> IF rdPc[r] = "table" THEN "located" ELSE rdPc[r]]
               \/ /\ rdPc' = [r \in DbReaders |-> IF rdPc[r] = "table" THEN "error" ELSE rdPc[r]]
                  /\ UNCHANGED table
            /\ build' = [pc |-> "idle", src |-> 0, stale |-> FALSE]
    /\ UNCHANGED <<dbClosed, dbStore, rdSrc, swPc, swHeld>>

-----------------------------------------------------------------------------
(* locate_file                                                             *)

LocateBegins(r) ==
    /\ rdPc[r] = "idle"
    /\ rdPc' = [rdPc EXCEPT ![r] = IF dbStore["file_map"] # 0 THEN "query"
                                   ELSE IF dbClosed /\ dbFetch["file_map"] = 0 THEN "error" ELSE "db"]
    /\ rdSrc' = [rdSrc EXCEPT ![r] = dbStore["file_map"]]
    /\ UNCHANGED <<dbClosed, dbStore, dbFetch, src, table, build, swPc, swHeld>>

\* db("file_map") returns the stored connection to a caller that waited.
ConnectionReady(r) ==
    /\ rdPc[r] = "db"
    /\ dbStore["file_map"] # 0
    /\ rdPc' = [rdPc EXCEPT ![r] = "query"]
    /\ rdSrc' = [rdSrc EXCEPT ![r] = dbStore["file_map"]]
    /\ UNCHANGED <<dbClosed, dbStore, dbFetch, src, table, build, swPc, swHeld>>

\* A cleared cache and a closed repository leave the waiter with an error.
ConnectionRefused(r) ==
    /\ rdPc[r] = "db"
    /\ dbStore["file_map"] = 0 /\ dbFetch["file_map"] = 0 /\ dbClosed
    /\ rdPc' = [rdPc EXCEPT ![r] = "error"]
    /\ UNCHANGED <<dbClosed, dbStore, dbFetch, src, table, build, rdSrc, swPc, swHeld>>

\* The outcome of the file_map row: only Complete (2) is located;
\* Corrupted and Tainted (4, 5) are damage, the others are not found.
RowOutcome(status) ==
    IF status = 2 THEN "meta" ELSE IF status \in {4, 5} THEN "corrupt" ELSE "notfound"

\* The query runs on the connection: a closed one raises.
FileMapQuery(r) ==
    /\ rdPc[r] = "query"
    /\ \E status \in Rows :
          rdPc' = [rdPc EXCEPT ![r] = IF src[rdSrc[r]] # "open" THEN "error" ELSE RowOutcome(status)]
    /\ UNCHANGED <<dbClosed, dbStore, dbFetch, src, table, build, rdSrc, swPc, swHeld>>

\* _get_file_meta_table: a cached answer, or a build shared by the callers.
\* Bound: the build that follows an overtaken one begins after its end.
GetMetaTable(r) ==
    /\ rdPc[r] = "meta"
    /\ \/ /\ table # 0
          /\ rdPc' = [rdPc EXCEPT ![r] = IF table = NoTable THEN "located" ELSE "size"]
          /\ rdSrc' = [rdSrc EXCEPT ![r] = table]
          /\ UNCHANGED build
       \/ /\ table = 0 /\ ~build.stale
          /\ rdPc' = [rdPc EXCEPT ![r] = "table"]
          /\ build' = IF build.pc = "idle" THEN [build EXCEPT !.pc = "db"] ELSE build
          /\ UNCHANGED rdSrc
    /\ UNCHANGED <<dbClosed, dbStore, dbFetch, src, table, swPc, swHeld>>

\* _build_file_meta_table has its connection, or is refused one.
BuildConnected ==
    /\ build.pc = "db"
    /\ dbStore["file_meta"] # 0
    /\ build' = [build EXCEPT !.pc = "create", !.src = dbStore["file_meta"]]
    /\ UNCHANGED <<dbClosed, dbStore, dbFetch, src, table, rdPc, rdSrc, swPc, swHeld>>

BuildRefused ==
    /\ build.pc = "db"
    /\ dbStore["file_meta"] = 0 /\ dbFetch["file_meta"] = 0 /\ dbClosed
    /\ build' = [pc |-> "idle", src |-> 0, stale |-> FALSE]
    /\ rdPc' = [r \in DbReaders |-> IF rdPc[r] = "table" THEN "error" ELSE rdPc[r]]
    /\ UNCHANGED <<dbClosed, dbStore, dbFetch, src, table, rdSrc, swPc, swHeld>>

\* Table.exists_in and Table.create on that connection; the result is stored
\* unless invalidate() overtook the build, and handed to those who wait.
TableBuilt ==
    /\ build.pc = "create"
    /\ \E t \in {build.src, NoTable} :
          IF src[build.src] # "open"
          THEN /\ rdPc' = [r \in DbReaders |-> IF rdPc[r] = "table" THEN "error" ELSE rdPc[r]]
               /\ UNCHANGED <<table, rdSrc>>
          ELSE /\ table' = IF build.stale THEN table ELSE t
               /\ rdPc' = [r \in DbReaders |-> IF rdPc[r] # "table" THEN rdPc[r]
                                               ELSE IF t = NoTable THEN "located" ELSE "size"]
               /\ rdSrc' = [r \in DbReaders |-> IF rdPc[r] = "table" THEN t ELSE rdSrc[r]]
    /\ build' = [pc |-> "idle", src |-> 0, stale |-> FALSE]
    /\ UNCHANGED <<dbClosed, dbStore, dbFetch, src, swPc, swHeld>>

\* _file_size_from_meta's query.
FileSizeQuery(r) ==
    /\ rdPc[r] = "size"
    /\ rdPc' = [rdPc EXCEPT ![r] = IF src[rdSrc[r]] = "open" THEN "located" ELSE "error"]
    /\ UNCHANGED <<dbClosed, dbStore, dbFetch, src, table, build, rdSrc, swPc, swHeld>>

-----------------------------------------------------------------------------
(* The sweep                                                               *)

Stored == {dbStore[n] : n \in DbNames} \ {0}

\* caches.invalidate("db_sources"), or close(), up to settle_all's first await.
SweepBegins(w) ==
    /\ swPc[w] = "idle"
    /\ w = "invalidate" => ~dbClosed
    /\ dbClosed' = (dbClosed \/ w = "close")
    /\ swPc' = [swPc EXCEPT ![w] = "settle"]
    /\ swHeld' = [swHeld EXCEPT ![w] = Stored]
    /\ UNCHANGED <<dbStore, dbFetch, src, table, build, rdPc, rdSrc>>

\* Mutant: the Table cache survives the sweep.
ClearCachesKeepsTable ==
    /\ UNCHANGED table
    /\ build' = [build EXCEPT !.stale = build.pc # "idle"]
    /\ dbStore' = [n \in DbNames |-> 0]

\* What the sweep clears without an await: the Table cache, its build's
\* claim on it, and the sources.
ClearCaches ==
    /\ table' = 0
    /\ build' = [build EXCEPT !.stale = build.pc # "idle"]
    /\ dbStore' = [n \in DbNames |-> 0]

\* Mutant: only what is stored at the end.
SettledHeld(w) == swHeld[w] \cap {0}

\* What settle_all hands the sweep: {**held_at_entry, **_store, **landed}.
SettledSources(w) == swHeld[w] \cup Stored

SweepSettled(w) ==
    /\ swPc[w] = "settle"
    /\ \A n \in DbNames : dbFetch[n] = 0
    /\ swHeld' = [swHeld EXCEPT ![w] = SettledSources(w)]
    /\ swPc' = [swPc EXCEPT ![w] = "closing"]
    /\ ClearCaches
    /\ UNCHANGED <<dbClosed, dbFetch, src, rdPc, rdSrc>>

\* close_each under run_to_completion: a failed close frees it all the same.
SweepCloses(w) ==
    /\ swPc[w] = "closing"
    /\ \E s \in swHeld[w] :
          /\ src' = [src EXCEPT ![s] = "closed"]
          /\ swHeld' = [swHeld EXCEPT ![w] = @ \ {s}]
    /\ UNCHANGED <<dbClosed, dbStore, dbFetch, table, build, rdPc, rdSrc, swPc>>

SweepEnds(w) ==
    /\ swPc[w] = "closing"
    /\ swHeld[w] = {}
    /\ swPc' = [swPc EXCEPT ![w] = IF w = "close" THEN "done" ELSE "idle"]
    /\ UNCHANGED <<dbClosed, dbStore, dbFetch, src, table, build, rdPc, rdSrc, swHeld>>

DbNext ==
    \/ \E n \in DbNames : FetchBegins(n) \/ FetchLands(n) \/ FetchFails(n)
    \/ \E r \in DbReaders : \/ LocateBegins(r) \/ ConnectionReady(r) \/ ConnectionRefused(r)
                            \/ FileMapQuery(r) \/ GetMetaTable(r) \/ FileSizeQuery(r)
    \/ BuildConnected \/ BuildRefused \/ TableBuilt
    \/ \E w \in Sweepers : SweepBegins(w) \/ SweepSettled(w) \/ SweepCloses(w) \/ SweepEnds(w)

-----------------------------------------------------------------------------
(* Properties                                                              *)

\* A Table handed out from the cache runs on a connection that is stored, or
\* is still open: _close_db_sources drops the Table with the connection it
\* is bound to, also one whose build was under way.
CachedTableIsLive == table \in Sources => table \in Stored

\* Nothing is opened that nobody will close: every open source is stored or
\* in a sweep's hands, and once close() has returned no source is being
\* opened or stored, also not one whose open it overtook.
SourcesAreReleased ==
    /\ \A s \in Sources : src[s] = "open" => s \in Stored \/ \E w \in Sweepers : s \in swHeld[w]
    /\ swPc["close"] = "done" => Stored = {} /\ \A s \in Sources : src[s] # "opening"

=============================================================================
