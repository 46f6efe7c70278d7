---------------------------- MODULE BrowserUnit ----------------------------
(***************************************************************************)
(* UnitScreen's store (browser/core/unit) with its effects                 *)
(* (runtime/unit_effects) and the screen that drives them: the provider of *)
(* one version, the children of a folder fetched page by page, a goto, the *)
(* detail pane and the opening of a unit.  Each fetch is a worker of the   *)
(* screen; a refresh cancels and drains them before it replaces the        *)
(* provider, a fetch of the detail, goto or unit-open group cancels the    *)
(* one before it, and closing the screen closes the store first.           *)
(*                                                                         *)
(* One folder stands for every node; its children come in Pages pages, and *)
(* a loaded level is the sequence of the page numbers it is made of.       *)
(***************************************************************************)
EXTENDS Integers, Sequences, FiniteSets

CONSTANTS
    Pages,       \* pages of the folder's children
    MaxRequests, \* bound: requests, over all slots
    MaxRoots     \* bound: root loads

ASSUME UnitAssumption == Pages \in Nat \ {0}

Slot == {"provider", "children", "goto", "detail", "open"}
NoLevel == <<>>
AllPages == [i \in 1..Pages |-> i]

VARIABLES
    unitEpoch, nextReq, slotReq,    \* model.epoch, .next_request, .inflight (0: no entry)
    pendingKids,                    \* whether children_slot(folder) is in model.pending
    provider, rootError,            \* model.provider, .root_error
    level, goto, detail,            \* .loaded[folder], .goto, .detail's body
    work,                           \* running workers: [k, ep, rq, pv, page]
    dying,                          \* cancelled ones not yet gone: they never report
    drainer,                        \* the _refresh worker waiting for the ones it cancelled
    held, closingProv,              \* ResourceTable's providers; CloseProvider workers
    screen                          \* open, storeClosed (pruned, workers not drained yet), gone

unitVars == <<unitEpoch, nextReq, slotReq, pendingKids, provider, rootError, level, goto, detail, work, dying,
              drainer, held, closingProv, screen>>

Worker(k, pv, page) == [k |-> k, ep |-> unitEpoch, rq |-> nextReq, pv |-> pv, page |-> page]

UnitInit ==
    /\ unitEpoch = 1 /\ nextReq = 2 /\ slotReq = [s \in Slot |-> IF s = "provider" THEN 1 ELSE 0]
    /\ pendingKids = FALSE /\ provider = 0 /\ rootError = FALSE /\ level = NoLevel /\ detail = "none"
    /\ goto \in {"none", "waiting"}     \* a target_ref seeds the store's goto
    /\ work = {[k |-> "provider", ep |-> 1, rq |-> 1, pv |-> 0, page |-> 0]}   \* on_mount's RootRequested
    /\ dying = {} /\ drainer = FALSE /\ held = {} /\ closingProv = {}
    /\ screen = "open"

\* next_request, and the slot's entry in inflight.
Requests(s) == nextReq <= MaxRequests /\ nextReq' = nextReq + 1 /\ slotReq' = [slotReq EXCEPT ![s] = nextReq]

\* keys.is_stale: an older epoch, or a newer fetch into the same slot.
Stale(w) == w.ep # unitEpoch \/ w.rq # slotReq[w.k]

\* run_worker(exclusive=True): the group's running worker is cancelled.
Group(k) == {w \in work : w.k = k}
StartExclusive(w) == work' = (work \ Group(w.k)) \union {w} /\ dying' = dying \union Group(w.k)

----------------------------------------------------------------------------
\* _refresh: cancels the screen's other workers, an earlier _refresh too, then drains them.
RefreshBegins ==
    /\ screen = "open" /\ unitEpoch < MaxRoots
    /\ work \union dying # {}
    /\ dying' = dying \union work /\ work' = {}
    /\ drainer' = TRUE
    /\ UNCHANGED <<unitEpoch, nextReq, slotReq, pendingKids, provider, rootError, level, goto, detail,
                   held, closingProv, screen>>

WorkerDies(w) ==
    /\ w \in dying
    /\ dying' = dying \ {w}
    /\ UNCHANGED <<unitEpoch, nextReq, slotReq, pendingKids, provider, level, goto, detail, work,
                   drainer, held, closingProv, screen, rootError>>

GotoAfterResetKept == goto

\* A goto waiting for the root still waits; one being resolved read the provider that goes.
GotoAfterReset == IF goto = "waiting" THEN goto ELSE "none"

ClosingOld == IF provider = 0 THEN closingProv ELSE closingProv \union {provider}

\* Drained, or nothing to drain: RootRequested closes the provider, forgets everything and loads
\* the root again.
RootRequested ==
    /\ screen = "open" /\ dying = {}
    /\ drainer \/ (work = {} /\ unitEpoch < MaxRoots)
    /\ nextReq <= MaxRequests
    /\ drainer' = FALSE
    /\ unitEpoch' = unitEpoch + 1 /\ nextReq' = nextReq + 1
    /\ slotReq' = [s \in Slot |-> IF s = "provider" THEN nextReq ELSE 0]
    /\ pendingKids' = FALSE /\ provider' = 0 /\ rootError' = FALSE /\ level' = NoLevel /\ detail' = "none"
    /\ goto' = GotoAfterReset
    /\ closingProv' = ClosingOld
    /\ work' = work \union {[k |-> "provider", ep |-> unitEpoch + 1, rq |-> nextReq, pv |-> 0, page |-> 0]}
    /\ UNCHANGED <<dying, held, screen>>

\* _load_root put the provider and dispatches RootLoaded: a superseded one is closed here.  A
\* provider is named by its worker's request.
SupersededProvider(w) == closingProv \union {w.rq}

RootLoaded(w) ==
    /\ w \in Group("provider") /\ screen = "open"
    /\ held' = held \union {w.rq}
    /\ IF Stale(w)
       THEN /\ closingProv' = SupersededProvider(w)
            /\ work' = work \ {w}
            /\ UNCHANGED <<provider, rootError, goto, nextReq, slotReq>>
       ELSE /\ provider' = w.rq /\ rootError' = FALSE
            /\ UNCHANGED closingProv
            /\ IF goto = "none"
               THEN work' = work \ {w} /\ UNCHANGED <<goto, nextReq, slotReq>>
               ELSE /\ Requests("goto")
                    /\ goto' = "resolvingSkipped"
                    /\ work' = (work \ {w}) \union {Worker("goto", w.rq, 0)}
    /\ UNCHANGED <<unitEpoch, pendingKids, level, detail, dying, drainer, screen>>

RootLoadFailed(w) ==
    /\ w \in Group("provider") /\ screen = "open"
    /\ work' = work \ {w}
    /\ goto' = IF Stale(w) THEN goto ELSE "none"
    /\ rootError' = (rootError \/ ~Stale(w))
    /\ UNCHANGED <<unitEpoch, nextReq, slotReq, pendingKids, provider, level, detail, dying,
                   drainer, held, closingProv, screen>>

----------------------------------------------------------------------------
(***************************************************************************)
(* Children, page by page.                                                 *)
(***************************************************************************)
LoadPage(p) ==
    /\ provider # 0 /\ screen = "open"
    /\ ~pendingKids
    /\ Requests("children")
    /\ pendingKids' = TRUE
    /\ work' = work \union {Worker("children", provider, p)}
    /\ UNCHANGED <<unitEpoch, provider, level, goto, detail, dying, drainer, held, closingProv,
                   screen, rootError>>

ChildrenRequested == level = NoLevel /\ LoadPage(1)
LoadMoreRequested == level # NoLevel /\ Len(level) < Pages /\ LoadPage(Len(level) + 1)

ChildrenArrive(w, ok) ==
    /\ w \in Group("children") /\ screen = "open"
    /\ work' = work \ {w}
    /\ pendingKids' = IF Stale(w) THEN pendingKids ELSE FALSE
    /\ level' = IF Stale(w) \/ ~ok THEN level
                ELSE IF w.page = 1 THEN <<1>> ELSE Append(level, w.page)
    /\ UNCHANGED <<unitEpoch, nextReq, slotReq, provider, goto, detail, dying, drainer, held,
                   closingProv, screen, rootError>>

----------------------------------------------------------------------------
(***************************************************************************)
(* A goto, the detail pane, and opening a unit.                            *)
(***************************************************************************)
GotoRequested ==
    /\ screen = "open"
    /\ IF provider = 0
       THEN goto' = "waiting" /\ UNCHANGED <<nextReq, slotReq, work, dying>>
       ELSE /\ Requests("goto")
            /\ goto' = IF goto = "resolvingSkipped" THEN goto ELSE "resolving"
            /\ StartExclusive(Worker("goto", provider, 0))
    /\ UNCHANGED <<unitEpoch, pendingKids, provider, level, detail, drainer, held, closingProv,
                   screen, rootError>>

\* Mutant: only the preview slot is reset.
DropChildrenSlotKept == slotReq' = [slotReq EXCEPT !["detail"] = nextReq] /\ pendingKids' = FALSE

\* The complete child list of each step replaces what it had loaded, and the step's children slot
\* is dropped from inflight and pending: the result of an older fetch is then stale.
DropChildrenSlot == slotReq' = [slotReq EXCEPT !["children"] = 0, !["detail"] = nextReq] /\ pendingKids' = FALSE

GotoResolved(w) ==
    /\ w \in Group("goto") /\ screen = "open"
    /\ IF Stale(w)
       THEN work' = work \ {w} /\ UNCHANGED <<nextReq, slotReq, pendingKids, level, goto, detail, dying>>
       ELSE /\ nextReq <= MaxRequests /\ nextReq' = nextReq + 1
            /\ level' = AllPages
            /\ DropChildrenSlot
            /\ goto' = "none"
            /\ detail' = "loading"          \* the target is a leaf: its preview is fetched
            /\ work' = (work \ ({w} \union Group("detail"))) \union {Worker("detail", provider, 0)}
            /\ dying' = dying \union Group("detail")
    /\ UNCHANGED <<unitEpoch, provider, drainer, held, closingProv, screen, rootError>>

\* GotoNotFound, GotoFailed.
GotoUnlanded(w) ==
    /\ w \in Group("goto") /\ screen = "open"
    /\ work' = work \ {w}
    /\ goto' = IF Stale(w) THEN goto ELSE "none"
    /\ UNCHANGED <<unitEpoch, nextReq, slotReq, pendingKids, provider, level, detail, dying,
                   drainer, held, closingProv, screen, rootError>>

\* _on_detail_requested for a node whose content is fetched.
DetailRequested ==
    /\ provider # 0 /\ screen = "open"
    /\ Requests("detail")
    /\ detail' = "loading"
    /\ StartExclusive(Worker("detail", provider, 0))
    /\ UNCHANGED <<unitEpoch, pendingKids, provider, level, goto, drainer, held, closingProv,
                   screen, rootError>>

\* ... and for one that is not: the fetch in flight, if any, is cancelled.
DetailIdled ==
    /\ screen = "open"
    /\ Requests("detail")
    /\ detail' = "idle"
    /\ IF detail = "loading" THEN work' = work \ Group("detail") /\ dying' = dying \union Group("detail")
       ELSE UNCHANGED <<work, dying>>
    /\ UNCHANGED <<unitEpoch, pendingKids, provider, level, goto, drainer, held, closingProv,
                   screen, rootError>>

DetailResolved(w) ==
    /\ w \in Group("detail") /\ screen = "open"
    /\ work' = work \ {w}
    /\ detail' = IF Stale(w) \/ detail = "none" THEN detail ELSE "shown"
    /\ UNCHANGED <<unitEpoch, nextReq, slotReq, pendingKids, provider, level, goto, dying, drainer,
                   held, closingProv, screen, rootError>>

UnitOpenRequested ==
    /\ provider # 0 /\ screen = "open"
    /\ Requests("open")
    /\ StartExclusive(Worker("open", provider, 0))
    /\ UNCHANGED <<unitEpoch, pendingKids, provider, level, goto, detail, drainer, held,
                   closingProv, screen, rootError>>

UnitOpened(w) ==
    /\ w \in Group("open") /\ screen = "open"
    /\ work' = work \ {w}
    /\ UNCHANGED <<unitEpoch, nextReq, slotReq, pendingKids, provider, level, goto, detail, dying,
                   drainer, held, closingProv, screen, rootError>>

----------------------------------------------------------------------------
(***************************************************************************)
(* Closing.  The store closes when the screen is pruned; a worker that     *)
(* ends before on_unmount cancels it finds dispatch a no-op.               *)
(***************************************************************************)
ScreenPruned ==
    /\ screen = "open"
    /\ screen' = "storeClosed"
    /\ UNCHANGED <<unitEpoch, nextReq, slotReq, pendingKids, provider, level, goto, detail, work,
                   dying, drainer, held, closingProv, rootError>>

\* A provider that is put now has no owner: its repository closes it.
WorkerUnheard(w, put) ==
    /\ screen = "storeClosed" /\ w \in work
    /\ put => w.k = "provider"
    /\ work' = work \ {w}
    /\ held' = IF put THEN held \union {w.rq} ELSE held
    /\ UNCHANGED <<unitEpoch, nextReq, slotReq, pendingKids, provider, rootError, level, goto, detail,
                   dying, drainer, closingProv, screen>>

\* on_unmount: cancel, drain, then _after_store_closed closes the provider.
ScreenUnmounted ==
    /\ screen = "storeClosed"
    /\ dying' = dying \union work /\ work' = {} /\ drainer' = FALSE
    /\ screen' = "draining"
    /\ UNCHANGED <<unitEpoch, nextReq, slotReq, pendingKids, provider, level, goto, detail, held,
                   closingProv, rootError>>

AfterStoreClosed ==
    /\ screen = "draining" /\ dying = {}
    /\ screen' = "gone"
    /\ closingProv' = ClosingOld
    /\ UNCHANGED <<unitEpoch, nextReq, slotReq, pendingKids, provider, level, goto, detail, work,
                   dying, drainer, held, rootError>>

ProviderReleased(p) ==
    /\ p \in closingProv
    /\ closingProv' = closingProv \ {p} /\ held' = held \ {p}
    /\ UNCHANGED <<unitEpoch, nextReq, slotReq, pendingKids, provider, level, goto, detail, work,
                   dying, drainer, screen, rootError>>

UnitNext ==
    \/ RefreshBegins \/ (\E w \in dying : WorkerDies(w)) \/ RootRequested
    \/ \E w \in work :
         \/ RootLoaded(w) \/ RootLoadFailed(w) \/ (\E ok \in BOOLEAN : ChildrenArrive(w, ok))
         \/ GotoResolved(w) \/ GotoUnlanded(w) \/ DetailResolved(w) \/ UnitOpened(w)
    \/ ChildrenRequested \/ LoadMoreRequested \/ GotoRequested \/ DetailRequested \/ DetailIdled
    \/ UnitOpenRequested
    \/ \E w \in work, put \in BOOLEAN : WorkerUnheard(w, put)
    \/ ScreenPruned \/ ScreenUnmounted \/ AfterStoreClosed
    \/ \E p \in closingProv : ProviderReleased(p)

----------------------------------------------------------------------------
\* The rows of a folder are its children once each and in order, however fetches, load-mores and
\* a goto's complete list overlap (_on_more_children_loaded, _on_goto_resolved).
RowsAreChildren == Len(level) <= Len(AllPages) /\ level = SubSeq(AllPages, 1, Len(level))

\* Whatever shows as loading has a worker that will end it, or a refresh that will reset it: the
\* children spinner, the detail pane, a goto waiting or being resolved, the root itself.
UnitSpinnersEnd ==
    screen = "open" /\ ~drainer =>
        /\ pendingKids => \E w \in Group("children") : ~Stale(w)
        /\ detail = "loading" => \E w \in Group("detail") : ~Stale(w)
        /\ goto \in {"resolving", "resolvingSkipped"} => \E w \in Group("goto") : ~Stale(w)
        /\ goto = "waiting" => rootError \/ \E w \in Group("provider") : ~Stale(w)

\* Every provider opened for the screen is the one it shows or is being closed, and the last one
\* is closed with the screen.
ProvidersOwned ==
    /\ screen = "open" => held = (IF provider = 0 THEN {} ELSE {provider}) \union closingProv
    /\ screen = "gone" => provider \notin held \ closingProv

=============================================================================
