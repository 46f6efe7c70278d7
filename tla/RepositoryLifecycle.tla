------------------------ MODULE RepositoryLifecycle ------------------------
(***************************************************************************)
(* One opened Repository (sdk/api/repository.py): its catalogs, opened     *)
(* lazily under the adopted key (key_manager.py), the providers handed out *)
(* (provider_registry.py), and the calls that replace or release them:     *)
(* set_key, invalidate_caches, release_provider and _close.                *)
(*                                                                         *)
(* _open_catalogs is an AsyncKeyedCache, used here by what its theorems    *)
(* promise: one fetch per catalog at a time, settle_all returns when none  *)
(* is in flight.  An opened catalog (_OpenCatalog: DedupRepo, its streams, *)
(* its connections) is a number; the catalogs of one repository never      *)
(* share one.  An action is the code between two awaits.                   *)
(***************************************************************************)
EXTENDS Integers, FiniteSets

CONSTANTS
    Catalogs,      \* indexes of _catalog_layouts
    FirstCatalog,  \* index 0, the one file_map_tree reads
    GoodKeys,      \* key strings that verify
    BadKeys,       \* key strings that are rejected
    Setters,       \* tasks that call set_key
    Tries,         \* the key strings each of them may try
    Providers,     \* providers a caller may ask for
    MaxOpens,      \* bound: catalogs opened over the life of the repository
    Overlaps       \* races the callers do not exclude; see CallersExclude

\* The tasks are told apart.
ASSUME RepositoryAssumption == "close" \notin Setters /\ "drop" \notin Setters

NoKey == "none"
Ids   == 1..MaxOpens

VARIABLES
    adopted,     \* KeyManager._keys
    keyStatus,   \* KeyManager._status
    cat,         \* _open_catalogs._store: catalog -> opened catalog, 0 when absent
    opening,     \* _open_catalogs._inflight
    opened,      \* the opened catalogs: state and the key they were opened with
    repoClosed,  \* Repository._closed
    provider,    \* state of each provider
    setPc, setKey, setOld,  \* set_key: place, key string, already_opened
    closePc, closeSet,      \* _close: place, catalogs still to close
    dropPc, dropSet, dropping, \* invalidate_caches: place, loop, current catalog
    held, landed \* settle_all's locals of the task that is in it

repoVars == <<adopted, keyStatus, cat, opening, opened, repoClosed, provider, setPc,
              setKey, setOld, closePc, closeSet, dropPc, dropSet, dropping, held, landed>>

Settlers == Setters \cup {"close", "drop"}
NoIds    == [c \in Catalogs |-> 0]

\* _resolve_key_status for the key just tried.
\* An encrypted repository: NOT_ENCRYPTED needs no key and is left out.
ResolveKeyStatus(key) ==
    IF key = NoKey THEN "no_key_provided" ELSE IF key \in GoodKeys THEN "verified" ELSE "invalid"

\* A repository is handed out with no key, a verified one or a rejected one.
RepoInit ==
    /\ adopted \in {NoKey} \cup GoodKeys \cup BadKeys
    /\ keyStatus = ResolveKeyStatus(adopted)
    /\ cat = NoIds
    /\ opening = NoIds
    /\ opened = [i \in Ids |-> [st |-> "unborn", key |-> NoKey]]
    /\ repoClosed = FALSE
    /\ provider = [p \in Providers |-> "none"]
    /\ setPc = [s \in Setters |-> "idle"]
    /\ setKey = [s \in Setters |-> NoKey]
    /\ setOld = [s \in Setters |-> {}]
    /\ closePc = "idle"
    /\ closeSet = {}
    /\ dropPc = "idle"
    /\ dropSet = {}
    /\ dropping = <<>>
    /\ held = [t \in Settlers |-> NoIds]
    /\ landed = [t \in Settlers |-> NoIds]

setVars   == <<setPc, setKey, setOld>>
closeVars == <<closePc, closeSet>>
dropVars  == <<dropPc, dropSet, dropping>>
keyVars   == <<adopted, keyStatus>>
cacheVars == <<cat, opening, opened>>

\* What the callers are asked to exclude: "No catalog or provider call may be
\* in flight" during invalidate_caches, and a close that overtakes a call
\* that is still building its provider.
CallersExclude(race) == race \notin Overlaps

-----------------------------------------------------------------------------
(* AsyncKeyedCache as this class uses it                                   *)

InSettle(t) ==
    \/ t \in Setters /\ setPc[t] = "settle"
    \/ t = "close" /\ closePc = "settle"
    \/ t = "drop" /\ dropPc = "settle"

\* settle_all up to its first await.
SettleBegins(t) ==
    /\ held' = [held EXCEPT ![t] = cat]
    /\ landed' = [landed EXCEPT ![t] = NoIds]

Settled == opening = NoIds

\* settle_all returns; its locals are gone.
SettleEnds(t) ==
    /\ held' = [held EXCEPT ![t] = NoIds]
    /\ landed' = [landed EXCEPT ![t] = NoIds]

\* What settle_all returns: {**held_at_entry, **self._store, **landed}.
SettleResult(t) ==
    [c \in Catalogs |-> IF landed[t][c] # 0 THEN landed[t][c]
                        ELSE IF cat[c] # 0 THEN cat[c] ELSE held[t][c]]

Born == {i \in Ids : opened[i].st # "unborn"}

\* resolve(c) on a miss begins a fetch, which _open_catalog_resources refuses
\* once closed; DedupRepo.open gets the key adopted now.
OpenCatalog(c) ==
    /\ cat[c] = 0
    /\ opening[c] = 0
    /\ ~repoClosed
    /\ \E i \in Ids \ Born :
          /\ \A j \in Ids \ Born : i <= j
          /\ opening' = [opening EXCEPT ![c] = i]
          /\ opened' = [opened EXCEPT ![i] = [st |-> "opening", key |-> adopted]]
    /\ UNCHANGED cat

\* A caller of catalogs, catalog_by_id, locate, verify: all of them resolve
\* an index.  invalidate_caches may not overlap them.
Ask(c) ==
    /\ CallersExclude("drop") => dropPc = "idle"
    /\ OpenCatalog(c)
    /\ UNCHANGED <<keyVars, repoClosed, provider, setVars, closeVars, dropVars, held, landed>>

\* _open_catalog_resources returns: the fetch is stored and every settle_all
\* that waits for it gets the value.
Opened(c) ==
    /\ opening[c] # 0
    /\ opened[opening[c]].key \notin BadKeys   \* DedupRepo.open: KeyMismatchError
    /\ cat' = [cat EXCEPT ![c] = opening[c]]
    /\ opened' = [opened EXCEPT ![opening[c]].st = "open"]
    /\ opening' = [opening EXCEPT ![c] = 0]
    /\ landed' = [t \in Settlers |->
                     IF InSettle(t) THEN [landed[t] EXCEPT ![c] = opening[c]] ELSE landed[t]]
    /\ UNCHANGED <<keyVars, repoClosed, provider, setVars, closeVars, dropVars, held>>

\* DedupRepo.open or connections() fails; what was opened is closed again.
OpenFails(c) ==
    /\ opening[c] # 0
    /\ opened' = [opened EXCEPT ![opening[c]].st = "closed"]
    /\ opening' = [opening EXCEPT ![c] = 0]
    /\ UNCHANGED <<keyVars, cat, repoClosed, provider, setVars, closeVars, dropVars, held, landed>>

-----------------------------------------------------------------------------
(* set_key                                                                 *)

SetKeyBegins(s, key) ==
    /\ setPc[s] = "idle"
    /\ setPc' = [setPc EXCEPT ![s] = "verify"]
    /\ setKey' = [setKey EXCEPT ![s] = key]
    /\ UNCHANGED <<keyVars, cacheVars, repoClosed, provider, setOld, closeVars, dropVars, held, landed>>

\* KeyManager.record and the end of the call.
RecordKey(s) ==
    /\ keyStatus' = ResolveKeyStatus(setKey[s])
    /\ setPc' = [setPc EXCEPT ![s] = "done"]

\* The key does not verify: open catalogs are left as they were.
SetKeyRejected(s) ==
    /\ setPc[s] = "verify"
    /\ setKey[s] \in BadKeys
    /\ RecordKey(s)
    /\ UNCHANGED <<adopted, cacheVars, repoClosed, provider, setKey, setOld, closeVars, dropVars, held, landed>>

\* The key record is unreadable: verify raises and nothing is recorded.
SetKeyRaises(s) ==
    /\ setPc[s] = "verify"
    /\ setPc' = [setPc EXCEPT ![s] = "done"]
    /\ UNCHANGED <<keyVars, cacheVars, repoClosed, provider, setKey, setOld, closeVars, dropVars, held, landed>>

SetKeyVerified(s) ==
    /\ setPc[s] = "verify"
    /\ setKey[s] \in GoodKeys
    /\ setPc' = [setPc EXCEPT ![s] = "settle"]
    /\ SettleBegins(s)
    /\ UNCHANGED <<keyVars, cacheVars, repoClosed, provider, setKey, setOld, closeVars, dropVars>>

\* Mutant: fetches still in flight are not waited for.
AdoptUnsettled(s) ==
    /\ setPc[s] = "settle"
    /\ CallersExclude("drop") => dropPc = "idle"
    /\ setOld' = [setOld EXCEPT ![s] = {<<c, cat[c]>> : c \in {k \in Catalogs : cat[k] # 0}}]
    /\ adopted' = setKey[s]
    /\ cat' = NoIds
    /\ setPc' = [setPc EXCEPT ![s] = "reopen"]
    /\ SettleEnds(s)
    /\ UNCHANGED <<keyStatus, opening, opened, repoClosed, provider, setKey, closeVars, dropVars>>

\* Settled: snapshot, adopt the key, drop the catalogs opened under the old one.
Adopt(s) ==
    /\ setPc[s] = "settle"
    /\ Settled
    /\ CallersExclude("drop") => dropPc = "idle"
    /\ setOld' = [setOld EXCEPT ![s] = {<<c, cat[c]>> : c \in {k \in Catalogs : cat[k] # 0}}]
    /\ adopted' = setKey[s]
    /\ cat' = NoIds
    /\ setPc' = [setPc EXCEPT ![s] = "reopen"]
    /\ SettleEnds(s)
    /\ UNCHANGED <<keyStatus, opening, opened, repoClosed, provider, setKey, closeVars, dropVars>>

\* bounded_gather: each catalog of the snapshot is resolved again, in any
\* order; a reader may have begun the fetch already.
Reopen(s, c) ==
    /\ setPc[s] = "reopen"
    /\ \E i \in Ids : <<c, i>> \in setOld[s]
    /\ OpenCatalog(c)
    /\ UNCHANGED <<keyVars, repoClosed, provider, setVars, closeVars, dropVars, held, landed>>

\* Every reopen has its answer: a value, an error, or the refusal of a closed
\* repository, which leave nothing in flight.
Reopened(s) ==
    /\ setPc[s] = "reopen"
    /\ \A ci \in setOld[s] : opening[ci[1]] = 0
    /\ setPc' = [setPc EXCEPT ![s] = "close"]
    /\ UNCHANGED <<keyVars, cacheVars, repoClosed, provider, setKey, setOld, closeVars, dropVars, held, landed>>

\* _close_opened_catalogs closes one catalog after the other, each attempt
\* bounded by a timeout and counted as done.
CloseOld(s) ==
    /\ setPc[s] = "close"
    /\ setOld[s] # {}
    /\ \E ci \in setOld[s] :
          /\ opened' = [opened EXCEPT ![ci[2]].st = "closed"]
          /\ setOld' = [setOld EXCEPT ![s] = @ \ {ci}]
    /\ UNCHANGED <<keyVars, cat, opening, repoClosed, provider, setPc, setKey, closeVars, dropVars, held, landed>>

SetKeyEnds(s) ==
    /\ setPc[s] = "close"
    /\ setOld[s] = {}
    /\ RecordKey(s)
    /\ UNCHANGED <<adopted, cacheVars, repoClosed, provider, setKey, setOld, closeVars, dropVars, held, landed>>

-----------------------------------------------------------------------------
(* Providers                                                               *)

\* file_map_tree, Catalog.provider: a provider is built over an open catalog.
BuildProvider(p) ==
    /\ provider[p] = "none"
    /\ cat[FirstCatalog] # 0
    /\ CallersExclude("drop") => dropPc = "idle"
    /\ CallersExclude("close") => ~repoClosed
    /\ provider' = [provider EXCEPT ![p] = "building"]
    /\ UNCHANGED <<keyVars, cacheVars, repoClosed, setVars, closeVars, dropVars, held, landed>>

\* ProviderRegistry.track
Track(p) ==
    /\ provider[p] = "building"
    /\ provider' = [provider EXCEPT ![p] = "tracked"]
    /\ UNCHANGED <<keyVars, cacheVars, repoClosed, setVars, closeVars, dropVars, held, landed>>

\* The build fails, or the search in it does: release_after closes what was
\* tracked, and the caller sees no provider.
BuildFails(p) ==
    /\ provider[p] = "building"
    /\ provider' = [provider EXCEPT ![p] = "releasing"]
    /\ UNCHANGED <<keyVars, cacheVars, repoClosed, setVars, closeVars, dropVars, held, landed>>

\* release: untracked at once, closed by a task no cancellation reaches.
Release(p) ==
    /\ provider[p] = "tracked"
    /\ provider' = [provider EXCEPT ![p] = "releasing"]
    /\ UNCHANGED <<keyVars, cacheVars, repoClosed, setVars, closeVars, dropVars, held, landed>>

ReleaseEnds(p) ==
    /\ provider[p] = "releasing"
    /\ provider' = [provider EXCEPT ![p] = "closed"]
    /\ UNCHANGED <<keyVars, cacheVars, repoClosed, setVars, closeVars, dropVars, held, landed>>

-----------------------------------------------------------------------------
(* invalidate_caches                                                       *)

\* The names are known, some catalog is open and no other call in flight.
DropBegins ==
    /\ dropPc = "idle"
    /\ ~repoClosed
    /\ \E c \in Catalogs : cat[c] # 0
    /\ CallersExclude("drop") => /\ \A s \in Setters : setPc[s] \in {"idle", "verify", "done"}
                                 /\ \A p \in Providers : provider[p] # "building"
                                 /\ Settled
    /\ dropPc' = "settle"
    /\ SettleBegins("drop")
    /\ UNCHANGED <<keyVars, cacheVars, repoClosed, provider, setVars, closeVars, dropSet, dropping>>

DropSettled ==
    /\ dropPc = "settle"
    /\ Settled
    /\ dropPc' = "drop"
    /\ dropSet' = {<<c, SettleResult("drop")[c]>> : c \in {k \in Catalogs : SettleResult("drop")[k] # 0}}
    /\ SettleEnds("drop")
    /\ UNCHANGED <<keyVars, cacheVars, repoClosed, provider, setVars, closeVars, dropping>>

\* caches.invalidate_all() of one catalog has run.  Afterwards connections()
\* is read; a named drop without db_sources, or a failure, stops before it.
DropOne ==
    /\ dropPc = "drop"
    /\ \E ci \in dropSet :
          /\ dropSet' = dropSet \ {ci}
          /\ \/ dropPc' = "reread" /\ dropping' = ci
             \/ UNCHANGED <<dropPc, dropping>>
    /\ UNCHANGED <<keyVars, cacheVars, repoClosed, provider, setVars, closeVars, held, landed>>

\* The re-read listing is put back with the same DedupRepo; a closed one raises.
Reread ==
    /\ dropPc = "reread"
    /\ cat' = IF opened[dropping[2]].st = "open"
              THEN [cat EXCEPT ![dropping[1]] = dropping[2]] ELSE cat
    /\ dropPc' = "drop"
    /\ dropping' = <<>>
    /\ UNCHANGED <<keyVars, opening, opened, repoClosed, provider, setVars, closeVars, dropSet, held, landed>>

DropEnds ==
    /\ dropPc = "drop"
    /\ dropSet = {}
    /\ dropPc' = "idle"
    /\ UNCHANGED <<keyVars, cacheVars, repoClosed, provider, setVars, closeVars, dropSet, dropping, held, landed>>

-----------------------------------------------------------------------------
(* _close                                                                  *)

CloseBegins ==
    /\ closePc = "idle"
    /\ CallersExclude("close") => /\ \A p \in Providers : provider[p] # "building"
                                  /\ dropPc = "idle"
    /\ repoClosed' = TRUE
    /\ closePc' = "providers"
    /\ UNCHANGED <<keyVars, cacheVars, provider, setVars, closeSet, dropVars, held, landed>>

\* The registry has closed what was tracked and waited for pending releases.
ProvidersClosed ==
    /\ closePc = "providers"
    /\ \A p \in Providers : provider[p] # "releasing"
    /\ provider' = [p \in Providers |-> IF provider[p] = "tracked" THEN "closed" ELSE provider[p]]
    /\ closePc' = "settle"
    /\ SettleBegins("close")
    /\ UNCHANGED <<keyVars, cacheVars, repoClosed, setVars, closeSet, dropVars>>

CloseSettled ==
    /\ closePc = "settle"
    /\ Settled
    /\ closeSet' = {SettleResult("close")[c] : c \in Catalogs} \ {0}
    /\ closePc' = "catalogs"
    /\ SettleEnds("close")
    /\ UNCHANGED <<keyVars, cacheVars, repoClosed, provider, setVars, dropVars>>

CloseCatalog ==
    /\ closePc = "catalogs"
    /\ \E i \in closeSet :
          /\ opened' = [opened EXCEPT ![i].st = "closed"]
          /\ closeSet' = closeSet \ {i}
    /\ UNCHANGED <<keyVars, cat, opening, repoClosed, provider, setVars, closePc, dropVars, held, landed>>

CloseEnds ==
    /\ closePc = "catalogs"
    /\ closeSet = {}
    /\ cat' = NoIds
    /\ closePc' = "done"
    /\ UNCHANGED <<keyVars, opening, opened, repoClosed, provider, setVars, closeSet, dropVars, held, landed>>

-----------------------------------------------------------------------------

SetterStep(s) ==
    \/ SetKeyRejected(s) \/ SetKeyRaises(s) \/ SetKeyVerified(s) \/ Adopt(s)
    \/ \E c \in Catalogs : Reopen(s, c)
    \/ Reopened(s) \/ CloseOld(s) \/ SetKeyEnds(s)

CloseStep == ProvidersClosed \/ CloseSettled \/ CloseCatalog \/ CloseEnds

DropStep == DropSettled \/ DropOne \/ Reread \/ DropEnds

RepoNext ==
    \/ \E c \in Catalogs : Ask(c) \/ Opened(c) \/ OpenFails(c)
    \/ \E s \in Setters : SetterStep(s) \/ \E k \in Tries[s] : SetKeyBegins(s, k)
    \/ \E p \in Providers : BuildProvider(p) \/ Track(p) \/ BuildFails(p) \/ Release(p) \/ ReleaseEnds(p)
    \/ DropBegins \/ DropStep
    \/ CloseBegins \/ CloseStep

-----------------------------------------------------------------------------
(* Properties                                                              *)

\* A catalog that is open in the cache, or being opened for it, has the key
\* that is adopted now: set_key leaves no catalog behind that still decrypts
\* with the old one, whenever readers open catalogs meanwhile.
CatalogsUseAdoptedKey ==
    \A c \in Catalogs :
        /\ cat[c] # 0 => opened[cat[c]].key = adopted
        /\ opening[c] # 0 => opened[opening[c]].key = adopted

\* Nobody is given a catalog that was closed: what the cache holds is open,
\* except while _close, which refuses new opens, sweeps it.
CachedCatalogsAreOpen ==
    \A c \in Catalogs :
        cat[c] # 0 => opened[cat[c]].st = "open" \/ closePc = "catalogs"

\* Once _close has returned and no set_key is still switching catalogs,
\* every catalog and every provider the repository handed out is closed.
NothingStaysOpen ==
    (closePc = "done" /\ \A s \in Setters : setPc[s] \in {"idle", "verify", "done"}) =>
        /\ \A i \in Ids : opened[i].st \in {"unborn", "closed"}
        /\ \A p \in Providers : provider[p] \in {"none", "closed"}

=============================================================================
