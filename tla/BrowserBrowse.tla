--------------------------- MODULE BrowserBrowse ---------------------------
(***************************************************************************)
(* BrowseScreen's store (browser/core/browse) with its effects             *)
(* (runtime/browse_effects) and the screen actions that dispatch to it:    *)
(* repositories found by a scan, their catalogs, the workloads of a        *)
(* catalog and the versions of a workload, each fetched lazily by a worker *)
(* whose result may arrive after a rescan discarded its repository.        *)
(*                                                                         *)
(* A dispatch runs update and its commands before it returns: one action.  *)
(* A repository is its handle, never reused.  Every catalog has one        *)
(* workload, so a catalog names its workloads slot and its versions slot.  *)
(***************************************************************************)
EXTENDS Integers, FiniteSets

CONSTANTS
    MaxHandles, \* bound: repositories found by all scans
    Catalogs,   \* the catalog ids of every repository
    MaxEpoch,   \* bound: rescans
    MaxRefresh  \* bound: refreshes asked for

ASSUME BrowseAssumption == MaxHandles \in Nat

NoRepo == 0
Handles == 1..MaxHandles
Slots == {"workloads", "versions"} \X Handles \X Catalogs
Nothing == <<NoRepo, "none">>

VARIABLES
    epoch, nextRequest, inflight,   \* model.epoch, .next_request, .inflight[catalogs_slot]
    repos, nextHandle,              \* model.repos; handles given out
    cats,                           \* RepoState.catalogs of each handle
    catFetch,                       \* LoadCatalogsFor workers: <<handle, epoch, request>>
    data, fetching,                 \* catalog_workloads/workload_versions; workers per slot
    selCat, selWorkload,            \* selected_catalog as <<handle, catalog>>; selected_workload
    prompts, reloading,             \* KeyDialogs on the screen stack; reload workers
    opened, closing,                \* ResourceTable's repositories; handles CloseRepos has to release
    dialog, exporting, refreshes    \* ConnectDialog open; handle a job reads; refreshes so far

browseVars == <<epoch, nextRequest, inflight, repos, nextHandle, cats, catFetch, data, fetching,
                selCat, selWorkload, prompts, reloading, opened, closing, dialog, exporting, refreshes>>

BrowseInit ==
    /\ epoch = 0 /\ nextRequest = 1 /\ inflight = [h \in Handles |-> 0]
    /\ repos = {} /\ nextHandle = 1
    /\ cats = [h \in Handles |-> "NotAsked"] /\ catFetch = {}
    /\ data = [s \in Slots |-> "NotAsked"] /\ fetching = [s \in Slots |-> 0]
    /\ selCat = Nothing /\ selWorkload = FALSE
    /\ prompts = {} /\ reloading = {}
    /\ opened = {} /\ closing = {}
    /\ dialog = TRUE /\ exporting = NoRepo /\ refreshes = 0

\* A modal screen covers the browse screen: it gets no key and no click.
Covered == dialog \/ prompts # {}

\* remote_data.is_pending_or_done; a refreshed slot is Reloading: Loading with a previous value.
IsPendingOrDone(d) == d \in {"Loading", "Reloading", "Success"}
LoadingPreserving(d) == IF d = "Success" THEN "Reloading" ELSE "Loading"

----------------------------------------------------------------------------
(***************************************************************************)
(* Scans.  _on_rescan_started forgets every repository and closes it in an *)
(* app worker; ResourceTable.release_repo pops before it awaits the close. *)
(***************************************************************************)
RescanStarted ==
    /\ epoch < MaxEpoch
    /\ epoch' = epoch + 1
    /\ data' = [s \in Slots |-> "NotAsked"]
    /\ selCat' = Nothing /\ selWorkload' = FALSE
    /\ closing' = closing \union repos

ReconnectableAnyway == TRUE

\* action_connect_remote / _go_back: refused while a job runs or is queued.
Reconnectable == exporting = NoRepo

GoBack ==
    /\ ~Covered /\ Reconnectable
    /\ RescanStarted
    /\ repos' = {} /\ dialog' = TRUE
    /\ UNCHANGED <<nextRequest, inflight, nextHandle, cats, catFetch, fetching, prompts, reloading,
                   opened, exporting, refreshes>>

ConnectRemote ==
    /\ ~Covered /\ Reconnectable
    /\ dialog' = TRUE
    /\ UNCHANGED <<epoch, nextRequest, inflight, repos, nextHandle, cats, catFetch, data, fetching, selCat,
                   selWorkload, prompts, reloading, opened, closing, exporting, refreshes>>

DialogEscaped ==
    /\ dialog
    /\ dialog' = FALSE
    /\ UNCHANGED <<epoch, nextRequest, inflight, repos, nextHandle, cats, catFetch, data, fetching, selCat,
                   selWorkload, prompts, reloading, opened, closing, exporting, refreshes>>

\* _apply_discovered: RescanStarted, then RepoAdded for each repository found, without an await.
ApplyDiscovered(n) ==
    /\ dialog
    /\ LET found == nextHandle..(nextHandle + n - 1) IN
       /\ found \subseteq Handles
       /\ RescanStarted
       /\ repos' = found
       /\ opened' = opened \union found
    /\ nextHandle' = nextHandle + n
    /\ dialog' = FALSE
    /\ UNCHANGED <<nextRequest, inflight, cats, catFetch, fetching, prompts, reloading, exporting, refreshes>>

ReposReleased ==
    /\ closing # {}
    /\ opened' = opened \ closing
    /\ closing' = {}
    /\ UNCHANGED <<epoch, nextRequest, inflight, repos, nextHandle, cats, catFetch, data, fetching, selCat,
                   selWorkload, prompts, reloading, dialog, exporting, refreshes>>

----------------------------------------------------------------------------
(***************************************************************************)
(* Column 1: the catalogs of a repository.  A queued NodeExpanded may name *)
(* a handle a rescan has discarded.                                        *)
(***************************************************************************)
CatalogsRequested(h) ==
    /\ ~Covered
    /\ h < nextHandle
    /\ h \in repos /\ ~IsPendingOrDone(cats[h])
    /\ cats[h] # "Failure"              \* an error leaf is a child: on_tree_node_expanded returns
    /\ nextRequest' = nextRequest + 1
    /\ inflight' = [inflight EXCEPT ![h] = nextRequest]
    /\ cats' = [cats EXCEPT ![h] = "Loading"]
    /\ catFetch' = catFetch \union {<<h, epoch, nextRequest>>}
    /\ UNCHANGED <<epoch, repos, nextHandle, data, fetching, selCat, selWorkload, prompts, reloading, opened,
                   closing, dialog, exporting, refreshes>>

IsStale(f) == epoch # f[2] \/ inflight[f[1]] # f[3]

\* _load_catalogs_for, whose handle may be gone from the ResourceTable (it then returns without
\* a report), and CatalogsLoaded / CatalogsLoadFailed.
CatalogsArrive(f, ok) ==
    /\ f \in catFetch
    /\ catFetch' = catFetch \ {f}
    /\ cats' = IF IsStale(f) \/ f[1] \notin repos THEN cats
               ELSE [cats EXCEPT ![f[1]] = IF ok THEN "Success" ELSE "Failure"]
    /\ UNCHANGED <<epoch, nextRequest, inflight, repos, nextHandle, data, fetching, selCat, selWorkload,
                   prompts, reloading, opened, closing, dialog, exporting, refreshes>>

----------------------------------------------------------------------------
(***************************************************************************)
(* Columns 2 and 3: workloads and versions.                                *)
(***************************************************************************)
Fetch(s, d) ==
    /\ data' = [data EXCEPT ![s] = d]
    /\ fetching' = [fetching EXCEPT ![s] = @ + 1]

\* Skip the fetch on a cache hit, or while one is running.
FetchUnlessKnown(s) ==
    IF IsPendingOrDone(data[s]) THEN UNCHANGED <<data, fetching>> ELSE Fetch(s, "Loading")

SelectCatalog(h, c) ==
    /\ selCat' = <<h, c>> /\ selWorkload' = FALSE
    /\ FetchUnlessKnown(<<"workloads", h, c>>)

CatalogSelected(h, c) ==
    /\ ~Covered
    /\ h \in repos /\ cats[h] = "Success"   \* a Catalog payload is a rendered, loaded catalog
    /\ SelectCatalog(h, c)
    /\ UNCHANGED <<epoch, nextRequest, inflight, repos, nextHandle, cats, catFetch, prompts, reloading, opened,
                   closing, dialog, exporting, refreshes>>

WorkloadSelected ==
    /\ ~Covered
    /\ selCat # Nothing
    /\ data[<<"workloads", selCat[1], selCat[2]>>] \in {"Success", "Reloading"}
    /\ selWorkload' = TRUE
    /\ FetchUnlessKnown(<<"versions", selCat[1], selCat[2]>>)
    /\ UNCHANGED <<epoch, nextRequest, inflight, repos, nextHandle, cats, catFetch, selCat, prompts, reloading,
                   opened, closing, dialog, exporting, refreshes>>

\* RefreshRequested re-queries the deepest selection, unless that fetch is already running.
DeepestSlot == <<IF selWorkload THEN "versions" ELSE "workloads", selCat[1], selCat[2]>>
MayRefresh(d) == d \notin {"Loading", "Reloading"}

RefreshRequested ==
    /\ ~Covered
    /\ selCat # Nothing
    /\ exporting = NoRepo               \* jobs_occupy_slot: action_refresh warns and returns
    /\ refreshes < MaxRefresh
    /\ refreshes' = refreshes + 1
    /\ MayRefresh(data[DeepestSlot])
    /\ Fetch(DeepestSlot, LoadingPreserving(data[DeepestSlot]))
    /\ UNCHANGED <<epoch, nextRequest, inflight, repos, nextHandle, cats, catFetch, selCat, selWorkload,
                   prompts, reloading, opened, closing, dialog, exporting>>

\* A result is kept only for a repository still in model.repos.
Accepts(s) == s[2] \in repos

\* _load_workloads / _load_versions end in exactly one message, whatever is raised.
SlotArrives(s, d) ==
    /\ fetching[s] > 0
    /\ fetching' = [fetching EXCEPT ![s] = @ - 1]
    /\ data' = IF Accepts(s) THEN [data EXCEPT ![s] = d] ELSE data
    /\ UNCHANGED <<epoch, nextRequest, inflight, repos, nextHandle, cats, catFetch, selCat, selWorkload,
                   reloading, opened, closing, dialog, exporting, refreshes>>

SlotLoads(s) == SlotArrives(s, "Success") /\ UNCHANGED prompts
SlotFails(s) == SlotArrives(s, "Failure") /\ UNCHANGED prompts

\* KeyRequiredError: the slot returns to NotAsked and a KeyDialog is pushed.
WorkloadsNeedKey(s) ==
    /\ s[1] = "workloads"
    /\ SlotArrives(s, "NotAsked")
    /\ prompts' = IF Accepts(s) /\ s[2] \in opened THEN prompts \union {<<s[2], s[3]>>} ELSE prompts

----------------------------------------------------------------------------
(***************************************************************************)
(* KeyDialog's on_dismiss, and the reload that a verified key starts.      *)
(***************************************************************************)
KeyDismissed(p, verified) ==
    /\ p \in prompts
    /\ prompts' = prompts \ {p}
    /\ reloading' = IF verified THEN reloading \union {p} ELSE reloading
    /\ UNCHANGED <<epoch, nextRequest, inflight, repos, nextHandle, cats, catFetch, data, fetching, selCat,
                   selWorkload, opened, closing, dialog, exporting, refreshes>>

\* CatalogsRefreshed then CatalogSelected, or CatalogsRefreshFailed.
CatalogsReloaded(p, ok) ==
    /\ p \in reloading
    /\ reloading' = reloading \ {p}
    /\ IF p[1] \notin repos
       THEN UNCHANGED <<cats, data, fetching, selCat, selWorkload>>
       ELSE IF ok THEN cats' = [cats EXCEPT ![p[1]] = "Success"] /\ SelectCatalog(p[1], p[2])
       ELSE selCat' = Nothing /\ selWorkload' = FALSE /\ UNCHANGED <<cats, data, fetching>>
    /\ UNCHANGED <<epoch, nextRequest, inflight, repos, nextHandle, catFetch, prompts, opened, closing, dialog,
                   exporting, refreshes>>

----------------------------------------------------------------------------
(***************************************************************************)
(* An export is started from the version opened over this screen and reads *)
(* the repository of the selected catalog until its job is gone.           *)
(***************************************************************************)
ExportStarted ==
    /\ ~Covered
    /\ exporting = NoRepo /\ selCat # Nothing /\ selWorkload
    /\ data[DeepestSlot] = "Success"
    /\ exporting' = selCat[1]
    /\ UNCHANGED <<epoch, nextRequest, inflight, repos, nextHandle, cats, catFetch, data, fetching, selCat,
                   selWorkload, prompts, reloading, opened, closing, dialog, refreshes>>

ExportGone ==
    /\ exporting # NoRepo
    /\ exporting' = NoRepo
    /\ UNCHANGED <<epoch, nextRequest, inflight, repos, nextHandle, cats, catFetch, data, fetching, selCat,
                   selWorkload, prompts, reloading, opened, closing, dialog, refreshes>>

BrowseNext ==
    \/ GoBack \/ ConnectRemote \/ DialogEscaped \/ (\E n \in 1..2 : ApplyDiscovered(n)) \/ ReposReleased
    \/ \E h \in Handles : CatalogsRequested(h)
    \/ \E f \in catFetch, ok \in BOOLEAN : CatalogsArrive(f, ok)
    \/ \E h \in Handles, c \in Catalogs : CatalogSelected(h, c)
    \/ WorkloadSelected \/ RefreshRequested
    \/ \E s \in Slots : SlotLoads(s) \/ SlotFails(s) \/ WorkloadsNeedKey(s)
    \/ \E p \in prompts, verified \in BOOLEAN : KeyDismissed(p, verified)
    \/ \E p \in reloading, ok \in BOOLEAN : CatalogsReloaded(p, ok)
    \/ ExportStarted \/ ExportGone

----------------------------------------------------------------------------
\* A column never spins for ever: a slot that shows Loading has exactly one worker whose report
\* update will accept, and no slot is fetched twice at a time (_on_catalog_selected,
\* _on_workload_selected, _on_refresh_requested, is_stale).
SpinnersEnd ==
    /\ \A s \in Slots : s[2] \in repos =>
         fetching[s] = IF data[s] \in {"Loading", "Reloading"} THEN 1 ELSE 0
    /\ \A h \in repos : cats[h] = "Loading" => <<h, epoch, inflight[h]>> \in catFetch

\* What a rescan discarded stays discarded: no data and no selection names a repository that is
\* not in model.repos, whatever arrives late, and each such repository is or will be released.
DiscardedStaysGone ==
    /\ \A s \in Slots : data[s] # "NotAsked" => s[2] \in repos
    /\ selCat # Nothing => selCat[1] \in repos
    /\ opened = repos \union closing

\* A repository is not closed under the export that reads it (_refuse_reconnect_during_export).
ExportKeepsRepository == exporting # NoRepo => exporting \in repos /\ exporting \notin closing

\* A refresh never takes the rows off the screen: a slot with a value keeps it while it reloads.
RefreshKeepsRows ==
    [][\A s \in Slots : data[s] \in {"Success", "Reloading"} => data'[s] # "Loading"]_browseVars

=============================================================================
