----------------------------- MODULE MCBrowser -----------------------------
(* One run over the browser's stores and dialogs.  They share no state here, *)
(* so part picks the one that moves in a behaviour.                          *)
EXTENDS BrowserJobs, BrowserBrowse, BrowserUnit, BrowserDialogs, BrowserWidgets

VARIABLES part, tree    \* tree: the input of one reconciliation

MCKeySeqs(n) == {s \in UNION {[1..k -> 1..n] : k \in 0..3} : \A i, j \in DOMAIN s : s[i] = s[j] => i = j}
MCTrees == [shown : MCKeySeqs(3) \union {Append(s, Foreign) : s \in MCKeySeqs(3)}, wanted : MCKeySeqs(4),
            key : 1..3]
NoTree == [shown |-> <<1>>, wanted |-> <<1>>, key |-> 1]

Init ==
    /\ part \in {"jobs", "browse", "unit", "dialogs", "widgets", "tree"}
    /\ JobInit /\ BrowseInit /\ UnitInit /\ DialogInit /\ WidgetInit
    /\ part # "unit" => goto = "none"
    /\ tree = NoTree

\* A tree level is shown and reconciled with what is wanted.
TreeNext == tree = NoTree /\ tree' \in {t \in MCTrees : Contains(t.shown, t.key)}

Next ==
    /\ UNCHANGED part
    /\ \/ /\ part = "jobs" /\ JobNext
          /\ UNCHANGED <<browseVars, unitVars, dialogVars, widgetVars, tree>>
       \/ /\ part = "browse" /\ BrowseNext
          /\ UNCHANGED <<jobVars, unitVars, dialogVars, widgetVars, tree>>
       \/ /\ part = "unit" /\ UnitNext
          /\ UNCHANGED <<jobVars, browseVars, dialogVars, widgetVars, tree>>
       \/ /\ part = "dialogs" /\ DialogNext
          /\ UNCHANGED <<jobVars, browseVars, unitVars, widgetVars, tree>>
       \/ /\ part = "widgets" /\ WidgetNext
          /\ UNCHANGED <<jobVars, browseVars, unitVars, dialogVars, tree>>
       \/ /\ part = "tree" /\ TreeNext
          /\ UNCHANGED <<jobVars, browseVars, unitVars, dialogVars, widgetVars>>

vars == <<part, tree, jobVars, browseVars, unitVars, dialogVars, widgetVars>>

Spec == Init /\ [][Next]_vars /\ JobFairness

\* Whatever shows as loading on a screen has a worker that ends it and is heard, each slot is
\* fetched once at a time, and an indicator leaves nothing behind (core/browse, core/unit,
\* connect_dialog, progress_hint).
LoadingEnds == SpinnersEnd /\ UnitSpinnersEnd /\ SpinnerLeavesNothing /\ OneConnection

\* A screen shows what belongs to it: nothing of a discarded repository, a folder's children once
\* each, the filter typed into the open box, exactly the wanted nodes.
ScreenIsTrue ==
    /\ DiscardedStaysGone /\ RowsAreChildren /\ FilterIsTyped
    /\ ReconciledRight(tree.shown, tree.wanted, tree.key)

\* What is on the screen stays until something replaces it: the rows of a level that reloads, an outcome
\* the spinner would erase (BrowseScreen's refresh, DebouncedProgress).
ScreenKeepsRows == RefreshKeepsRows /\ ResultStays

\* An export has what it reads to itself: one process pool at a time, no cache invalidation beside
\* it, no repository closed under it; every provider and every scan has an owner.
ExportsAreAlone ==
    /\ OnePoolAtATime /\ InvalidationRunsAlone /\ ReportedOnce
    /\ ExportKeepsRepository /\ ProvidersOwned /\ NoOrphanScan
=============================================================================
