---------------------------- MODULE BrowserProofs ----------------------------
(***************************************************************************)
(* Proofs about the browser's stores, dialogs and timed widgets, each for  *)
(* any number of jobs, repositories, requests and keystrokes: what shows   *)
(* as loading ends, what is on a screen belongs to it, and an export has   *)
(* its slot, its gate and its repository to itself.                        *)
(***************************************************************************)
EXTENDS MCBrowser, WellFoundedInduction, TLAPS

-----------------------------------------------------------------------------
(* The job registry, the load gate and the full check                      *)

Taken(j) == job[j] \in {"running", "cancelling"}
Working(j) == worker[j] \in {"start", "gate", "export", "wrapup"}

JobTypes ==
    /\ job \in [Jobs -> {"none", "queued", "running", "cancelling", "finished"}]
    /\ worker \in [Jobs -> {"none", "start", "gate", "export", "wrapup", "over"}]
    /\ reports \in [Jobs -> Nat] /\ nextJob \in Nat \ {0}
    /\ inv \in [Invalidators -> {"idle", "wait", "hold"}]

\* A job that holds the slot has the one worker that will report it, others have none.
WorkersOwnSlots ==
    \A j \in Jobs :
        /\ Working(j) => Taken(j)
        /\ Taken(j) /\ ~appClosed => Working(j)
        /\ job[j] \in {"none", "queued"} => worker[j] = "none"
        /\ j >= nextJob => job[j] = "none"
        /\ reports[j] = IF worker[j] = "over" THEN 1 ELSE 0

OneSlot == \A j, k \in Jobs : Taken(j) /\ Taken(k) => j = k

\* A full check has the slot the store says it has.
CheckHasSlot == (verifyPc = "full" => verifyApp) /\ (verifyApp => ~Occupied(job))

JobInv == JobTypes /\ WorkersOwnSlots /\ OneSlot /\ CheckHasSlot /\ InvalidationRunsAlone

LEMMA JobStart ==
  ASSUME JobInit
  PROVE  JobInv
BY JobsAssumption DEF JobInit, JobInv, JobTypes, WorkersOwnSlots, OneSlot, CheckHasSlot, InvalidationRunsAlone, Taken,
   Working, Occupied, GateHolders, Jobs

\* A set of numbers that is not empty has a least one.
LEMMA LeastNat ==
  ASSUME NEW S \in SUBSET Nat, S # {}
  PROVE  \E x \in S : \A y \in S : x <= y
<1> DEFINE R == {ss \in Nat \X Nat : ss[1] < ss[2]}
<1>1. IsWellFoundedOn(R, Nat)
  BY NatLessThanWellFounded DEF OpToRel
<1>2. \A y \in Nat, x \in Nat : y < x => <<y, x>> \in R
  OBVIOUS
<1> HIDE DEF R
<1>3. PICK x \in S : \A y \in S : ~ (<<y, x>> \in R)
  BY <1>1, WFMin, Zenon
<1>4. ASSUME NEW y \in S
      PROVE  x <= y
  <2>1. x \in Nat /\ y \in Nat
    OBVIOUS
  <2>2. ~ (y < x)
    BY <1>2, <1>3, <2>1, Zenon
  <2> QED  BY <2>1, <2>2
<1> QED  BY <1>4

\* The job promoted is a queued one.
LEMMA PromotedIsQueued ==
  ASSUME NEW jobs, NEW workers, PromoteNext(jobs, workers)
  PROVE  \/ job' = jobs /\ worker' = workers
         \/ \E k \in Jobs : /\ jobs[k] = "queued"
                            /\ job' = [jobs EXCEPT ![k] = "running"]
                            /\ worker' = [workers EXCEPT ![k] = "start"]
<1>1. CASE Queued(jobs) = {}
  BY <1>1 DEF PromoteNext
<1>2. CASE Queued(jobs) # {}
  <2>1. Queued(jobs) \in SUBSET Nat
    BY JobsAssumption DEF Queued, Jobs
  <2>2. \E j \in Queued(jobs) : \A k \in Queued(jobs) : j <= k
    BY <1>2, <2>1, LeastNat
  <2>3. PICK j : /\ j \in Queued(jobs)
                 /\ job' = [jobs EXCEPT ![j] = "running"] /\ worker' = [workers EXCEPT ![j] = "start"]
    BY <1>2, <2>2 DEF PromoteNext
  <2>4. j \in Jobs /\ jobs[j] = "queued"
    BY <2>3 DEF Queued
  <2> QED  BY <2>3, <2>4
<1> QED  BY <1>1, <1>2

\* A step of the registry that promotes at most one job, when the slot is free.
LEMMA PromoteKeeps ==
  ASSUME NEW jobs \in [Jobs -> {"none", "queued", "running", "cancelling", "finished"}],
         NEW workers \in [Jobs -> {"none", "start", "gate", "export", "wrapup", "over"}],
         PromoteNext(jobs, workers),
         ~Occupied(jobs), ~verifyApp', ~appClosed', verifyPc' # "full",
         nextJob' = nextJob, nextJob \in Nat \ {0}, inv' = inv, inv \in [Invalidators -> {"idle", "wait", "hold"}],
         reports' \in [Jobs -> Nat],
         \A j \in Jobs : workers[j] = "export" => worker[j] = "export",
         \A j \in Jobs : /\ workers[j] \notin {"start", "gate", "export", "wrapup"}
                         /\ jobs[j] \in {"none", "queued"} => workers[j] = "none"
                         /\ j >= nextJob => jobs[j] = "none"
                         /\ reports'[j] = IF workers[j] = "over" THEN 1 ELSE 0,
         InvalidationRunsAlone
  PROVE  JobInv'
<1>1. PICK k : \/ job' = jobs /\ worker' = workers
               \/ /\ k \in Jobs /\ jobs[k] = "queued"
                  /\ job' = [jobs EXCEPT ![k] = "running"]
                  /\ worker' = [workers EXCEPT ![k] = "start"]
  BY PromotedIsQueued
<1>2. k \in Jobs /\ jobs[k] = "queued" => workers[k] = "none"
  OBVIOUS
<1>3. \A j \in Jobs : jobs[j] \notin {"running", "cancelling"}
  BY DEF Occupied
<1>4. JobTypes'
  BY <1>1 DEF JobTypes
<1>5. WorkersOwnSlots'
  BY <1>1, <1>2, <1>3 DEF WorkersOwnSlots, Taken, Working
<1>6. OneSlot'
  BY <1>1, <1>3 DEF OneSlot, Taken
<1>7. CheckHasSlot'
  BY DEF CheckHasSlot
<1>8. InvalidationRunsAlone'
  BY <1>1 DEF InvalidationRunsAlone, GateHolders
<1> QED  BY <1>4, <1>5, <1>6, <1>7, <1>8 DEF JobInv

\* The steps that neither free nor fill the slot.
LEMMA JobsMove ==
  ASSUME JobInv, UNCHANGED <<nextJob, verifyApp, appClosed>>, JobTypes', InvalidationRunsAlone',
         \A j \in Jobs : /\ Taken(j)' <=> Taken(j)
                         /\ Working(j)' <=> Working(j)
                         /\ worker'[j] # worker[j] => Working(j)
                         /\ reports'[j] = reports[j]
                         /\ job'[j] # job[j] => job[j] \notin {"none", "finished"} /\ job'[j] \notin {"none", "queued"},
         verifyPc' = "full" => verifyPc = "full"
  PROVE  JobInv'
<1> USE DEF JobInv
<1>1. WorkersOwnSlots'
  BY DEF WorkersOwnSlots, Working, Taken
<1>2. OneSlot'
  BY DEF OneSlot
<1>3. Occupied(job)' <=> Occupied(job)
  BY DEF Occupied, Taken
<1>4. CheckHasSlot'
  BY <1>3 DEF CheckHasSlot
<1> QED  BY <1>1, <1>2, <1>4

LEMMA JobStep ==
  ASSUME JobInv, JobNext \/ UNCHANGED jobVars, ~CancelUnstarted
  PROVE  JobInv'
<1> USE DEF JobInv
<1>s. MaxJobs \in Nat /\ Jobs \subseteq Nat
  BY JobsAssumption DEF Jobs
<1>1. CASE StartExport
  <2>0. CASE Blocked
    <3> USE <1>1, <2>0 DEF StartExport
    <3>1. JobTypes'
      BY <1>s DEF JobTypes
    <3>2. WorkersOwnSlots'
      BY <1>s DEF WorkersOwnSlots, Working, Taken, JobTypes
    <3>3. OneSlot'
      BY DEF OneSlot, Taken, JobTypes
    <3>4. Occupied(job)' => Occupied(job)
      BY DEF Occupied, JobTypes
    <3>5. CheckHasSlot'
      BY <3>4 DEF CheckHasSlot
    <3>6. InvalidationRunsAlone'
      BY DEF InvalidationRunsAlone, GateHolders
    <3> QED  BY <3>1, <3>2, <3>3, <3>5, <3>6
  <2>1. CASE ~Blocked
    <3> USE <1>1, <2>1 DEF StartExport
    <3>0. \A j \in Jobs : ~Taken(j)
      BY DEF Blocked, Occupied, Taken
    <3>1. JobTypes'
      BY <1>s DEF JobTypes
    <3>2. WorkersOwnSlots'
      BY <1>s DEF WorkersOwnSlots, Working, Taken, JobTypes
    <3>3. OneSlot'
      BY <3>0 DEF OneSlot, Taken, JobTypes
    <3>5. CheckHasSlot'
      BY DEF CheckHasSlot, Blocked
    <3>6. InvalidationRunsAlone'
      BY DEF InvalidationRunsAlone, GateHolders, JobTypes
    <3> QED  BY <3>1, <3>2, <3>3, <3>5, <3>6
  <2> QED  BY <2>0, <2>1
<1>2. CASE Quit
  <2> USE <1>2 DEF Quit, Interrupted, Cancellable
  <2>1. \A j \in Jobs : /\ worker[j] \in {"gate", "export", "wrapup"} => worker'[j] = "wrapup"
                        /\ worker[j] \notin {"gate", "export", "wrapup"} => worker'[j] = worker[j]
    OBVIOUS
  <2>2. JobTypes'
    BY <2>1 DEF JobTypes
  <2>3. WorkersOwnSlots'
    BY <2>1 DEF WorkersOwnSlots, Working, Taken
  <2>4. OneSlot' /\ CheckHasSlot'
    BY DEF OneSlot, CheckHasSlot, Taken, Occupied
  <2>5. InvalidationRunsAlone'
    BY <2>1 DEF InvalidationRunsAlone, GateHolders
  <2> QED  BY <2>2, <2>3, <2>4, <2>5
<1>3. CASE QuickBegins \/ QuickEnds
  <2> USE <1>3 DEF QuickBegins, QuickEnds
  <2>1. JobTypes' /\ InvalidationRunsAlone'
    BY DEF JobTypes, InvalidationRunsAlone, GateHolders
  <2> QED  BY <2>1, JobsMove DEF Taken, Working
<1>4. CASE FullBegins
  <2> USE <1>4 DEF FullBegins, MayRunFull
  <2>1. JobTypes' /\ InvalidationRunsAlone'
    BY DEF JobTypes, InvalidationRunsAlone, GateHolders
  <2>2. WorkersOwnSlots' /\ OneSlot'
    BY DEF WorkersOwnSlots, OneSlot, Taken, Working
  <2>3. CheckHasSlot'
    BY DEF CheckHasSlot, Occupied
  <2> QED  BY <2>1, <2>2, <2>3
<1>5. CASE FullEnds
  <2>1. CASE appClosed
    <3> USE <1>5, <2>1 DEF FullEnds
    <3>1. JobTypes' /\ InvalidationRunsAlone'
      BY DEF JobTypes, InvalidationRunsAlone, GateHolders
    <3> QED  BY <3>1, JobsMove DEF Taken, Working
  <2>2. CASE ~appClosed
    <3>1. PromoteNext(job, worker) /\ ~verifyApp' /\ ~appClosed' /\ verifyPc' # "full" /\ UNCHANGED <<nextJob, inv, reports>>
      BY <1>5, <2>2 DEF FullEnds
    <3>2. ~Occupied(job)
      BY <1>5 DEF FullEnds, CheckHasSlot
    <3>3. \A j \in Jobs : ~Taken(j) /\ ~Working(j)
      BY <3>2 DEF Occupied, Taken, WorkersOwnSlots
    <3>4. \A j \in Jobs : /\ worker[j] \notin {"start", "gate", "export", "wrapup"}
                          /\ job[j] \in {"none", "queued"} => worker[j] = "none"
                          /\ j >= nextJob => job[j] = "none"
                          /\ reports'[j] = IF worker[j] = "over" THEN 1 ELSE 0
      BY <3>1, <3>3 DEF WorkersOwnSlots, Working
    <3> QED  BY <3>1, <3>2, <3>4, PromoteKeeps DEF JobTypes
  <2> QED  BY <2>1, <2>2
<1>6. ASSUME NEW j \in Jobs, CancelJob(j)
      PROVE  JobInv'
  <2>1. CASE job[j] = "queued"
    <3> USE <1>6, <2>1 DEF CancelJob
    <3>1. JobTypes' /\ InvalidationRunsAlone'
      BY DEF JobTypes, InvalidationRunsAlone, GateHolders
    <3> QED  BY <3>1, JobsMove DEF Taken, Working, JobTypes
  <2>2. CASE job[j] # "queued"
    <3> USE <1>6, <2>2 DEF CancelJob, Interrupted, Cancellable
    <3>1. worker' = [worker EXCEPT ![j] = "wrapup"] /\ worker[j] \in {"gate", "export", "wrapup"}
      OBVIOUS
    <3>2. JobTypes'
      BY <3>1 DEF JobTypes
    <3>3. InvalidationRunsAlone'
      BY <3>1 DEF InvalidationRunsAlone, GateHolders, JobTypes
    <3> QED  BY <3>1, <3>2, <3>3, JobsMove DEF Taken, Working, JobTypes
  <2> QED  BY <2>1, <2>2
<1>7. ASSUME NEW j \in Jobs, WorkerStarts(j) \/ WorkerEntersGate(j) \/ WorkerFails(j)
      PROVE  JobInv'
  <2> USE <1>7 DEF WorkerStarts, WorkerEntersGate, WorkerFails
  <2>1. JobTypes'
    BY DEF JobTypes
  <2>2. InvalidationRunsAlone'
    BY DEF InvalidationRunsAlone, GateHolders, JobTypes, MayShare, Pending
  <2> QED  BY <2>1, <2>2, JobsMove DEF Taken, Working, JobTypes
<1>8. ASSUME NEW j \in Jobs, WorkerReports(j)
      PROVE  JobInv'
  <2>1. worker[j] \in {"export", "wrapup"} /\ Taken(j) /\ reports[j] = 0
    BY <1>8 DEF WorkerReports, WorkersOwnSlots, Working
  <2>2. \A k \in Jobs \ {j} : ~Taken(k) /\ ~Working(k)
    BY <2>1 DEF OneSlot, WorkersOwnSlots
  <2>3. reports' = [reports EXCEPT ![j] = 1]
    BY <1>8, <2>1 DEF WorkerReports
  <2>4. CASE appClosed
    <3> USE <1>8, <2>4 DEF WorkerReports
    <3>1. JobTypes'
      BY <2>3 DEF JobTypes
    <3>2. InvalidationRunsAlone'
      BY DEF InvalidationRunsAlone, GateHolders, JobTypes
    <3>3. WorkersOwnSlots'
      BY <2>1, <2>3 DEF WorkersOwnSlots, Working, Taken, JobTypes
    <3>4. OneSlot' /\ CheckHasSlot'
      BY DEF OneSlot, CheckHasSlot, Taken
    <3> QED  BY <3>1, <3>2, <3>3, <3>4
  <2>5. CASE ~appClosed
    <3> DEFINE jobs == [job EXCEPT ![j] = "finished"]
               workers == [worker EXCEPT ![j] = "over"]
    <3>1. PromoteNext(jobs, workers) /\ UNCHANGED <<nextJob, verifyApp, verifyPc, inv, appClosed>>
      BY <1>8, <2>5 DEF WorkerReports
    <3>2. ~verifyApp /\ verifyPc # "full"
      BY <2>1 DEF CheckHasSlot, Occupied, Taken
    <3>3. /\ jobs \in [Jobs -> {"none", "queued", "running", "cancelling", "finished"}]
          /\ workers \in [Jobs -> {"none", "start", "gate", "export", "wrapup", "over"}]
      BY DEF JobTypes
    <3>4. \A k \in Jobs : jobs[k] \notin {"running", "cancelling"}
      BY <2>2 DEF Taken, JobTypes
    <3>5. \A k \in Jobs : /\ workers[k] = "export" => worker[k] = "export"
                          /\ workers[k] \notin {"start", "gate", "export", "wrapup"}
                          /\ jobs[k] \in {"none", "queued"} => workers[k] = "none"
                          /\ k >= nextJob => jobs[k] = "none"
                          /\ reports'[k] = IF workers[k] = "over" THEN 1 ELSE 0
      BY <2>1, <2>2, <2>3 DEF JobTypes, WorkersOwnSlots, Working, Taken
    <3>6. reports' \in [Jobs -> Nat] /\ nextJob \in Nat \ {0} /\ inv \in [Invalidators -> {"idle", "wait", "hold"}]
      BY <2>3 DEF JobTypes
    <3> HIDE DEF jobs, workers
    <3>7. ~Occupied(jobs)
      BY <3>4 DEF Occupied
    <3> QED  BY <2>5, <3>1, <3>2, <3>3, <3>5, <3>6, <3>7, PromoteKeeps
  <2> QED  BY <2>4, <2>5
<1>9. ASSUME NEW i \in Invalidators, InvalidateBegins(i) \/ InvalidateRuns(i) \/ InvalidateEnds(i)
      PROVE  JobInv'
  <2> USE <1>9 DEF InvalidateBegins, InvalidateRuns, InvalidateEnds
  <2>1. JobTypes'
    BY DEF JobTypes
  <2>2. InvalidationRunsAlone'
    BY DEF InvalidationRunsAlone, GateHolders, JobTypes, MayExclude
  <2> QED  BY <2>1, <2>2, JobsMove DEF Taken, Working
<1>10. CASE UNCHANGED jobVars
  <2> USE <1>10 DEF jobVars
  <2>1. JobTypes' /\ InvalidationRunsAlone'
    BY DEF JobTypes, InvalidationRunsAlone, GateHolders
  <2> QED  BY <2>1, JobsMove DEF Taken, Working
<1> QED
  BY <1>1, <1>2, <1>3, <1>4, <1>5, <1>6, <1>7, <1>8, <1>9, <1>10 DEF JobNext

LEMMA JobProperties ==
  ASSUME JobInv
  PROVE  OnePoolAtATime /\ InvalidationRunsAlone /\ ReportedOnce
BY DEF JobInv, OneSlot, CheckHasSlot, WorkersOwnSlots, Working, Taken, OnePoolAtATime, ReportedOnce

-----------------------------------------------------------------------------
(* The browse screen                                                       *)

SlotStates == {"NotAsked", "Loading", "Reloading", "Success", "Failure"}

BrowseTypes ==
    /\ repos \subseteq Handles /\ closing \subseteq Handles
    /\ nextHandle \in Nat \ {0} /\ epoch \in Nat /\ nextRequest \in Nat /\ inflight \in [Handles -> Nat]
    /\ cats \in [Handles -> SlotStates] /\ data \in [Slots -> SlotStates] /\ fetching \in [Slots -> Nat]
    /\ catFetch \subseteq Handles \X Nat \X Nat
    /\ selCat \in (Handles \X Catalogs) \union {Nothing}
    /\ prompts \subseteq Handles \X Catalogs /\ reloading \subseteq Handles \X Catalogs

\* Handles are given out in order, and one not given out has nothing.
HandlesAreFresh ==
    /\ \A h \in repos \union closing : h < nextHandle
    /\ repos \intersect closing = {}
    /\ \A s \in Slots : s[2] >= nextHandle => fetching[s] = 0
    /\ \A h \in Handles : h >= nextHandle => cats[h] = "NotAsked"

\* No dialog that could rescan is open over an export.
ExportShutsDialog == (dialog => exporting = NoRepo) /\ ExportKeepsRepository

BrowseInv == BrowseTypes /\ HandlesAreFresh /\ ExportShutsDialog /\ SpinnersEnd /\ DiscardedStaysGone

LEMMA HandleFacts ==
  /\ Handles \subseteq Nat /\ NoRepo \notin Handles
  /\ \A h \in Handles, c \in Catalogs :
        /\ <<h, c>> # Nothing /\ <<h, c>>[1] = h /\ <<h, c>>[2] = c
        /\ \A k \in {"workloads", "versions"} : <<k, h, c>> \in Slots /\ <<k, h, c>>[2] = h
  /\ \A s \in Slots : s[2] \in Handles /\ s[3] \in Catalogs /\ s = <<s[1], s[2], s[3]>>
BY BrowseAssumption DEF Handles, NoRepo, Nothing, Slots

LEMMA BrowseStart ==
  ASSUME BrowseInit
  PROVE  BrowseInv
<1> USE HandleFacts DEF BrowseInit
<1>1. BrowseTypes
  BY DEF BrowseTypes, SlotStates
<1>2. HandlesAreFresh /\ ExportShutsDialog /\ SpinnersEnd /\ DiscardedStaysGone
  BY DEF HandlesAreFresh, ExportShutsDialog, ExportKeepsRepository, SpinnersEnd, DiscardedStaysGone
<1> QED  BY <1>1, <1>2 DEF BrowseInv

\* A rescan that finds the handles found, which were never given out.
LEMMA RescanKeeps ==
  ASSUME BrowseInv, RescanStarted, exporting = NoRepo, UNCHANGED <<exporting, nextRequest, inflight, cats, catFetch, fetching, prompts, reloading>>,
         NEW found \in SUBSET Handles, repos' = found, opened' = opened \union found,
         nextHandle' \in Nat, nextHandle' >= nextHandle, \A h \in found : nextHandle <= h /\ h < nextHandle'
  PROVE  BrowseInv'
<1> USE HandleFacts DEF BrowseInv, RescanStarted
<1>n. nextHandle \in Nat /\ nextHandle > 0
  BY DEF BrowseTypes
<1>1. BrowseTypes'
  BY <1>n DEF BrowseTypes, SlotStates
<1>2. \A h \in closing' : h < nextHandle
  BY DEF HandlesAreFresh
<1>3. \A h \in found \union closing' : h < nextHandle'
  BY <1>2, <1>n DEF BrowseTypes
<1>4. found \intersect closing' = {}
  BY <1>2, <1>n DEF BrowseTypes
<1>5. \A h \in Handles : h >= nextHandle' => h >= nextHandle
  BY <1>n
<1>6. HandlesAreFresh'
  BY <1>3, <1>4, <1>5 DEF HandlesAreFresh
<1>7. \A s \in Slots : s[2] \in found => fetching[s] = 0
  BY DEF HandlesAreFresh
<1>8. \A h \in found : cats[h] = "NotAsked"
  BY DEF HandlesAreFresh
<1>9. SpinnersEnd'
  BY <1>7, <1>8 DEF SpinnersEnd
<1>10. DiscardedStaysGone'
  BY DEF DiscardedStaysGone
<1>11. ExportShutsDialog'
  BY DEF ExportShutsDialog, ExportKeepsRepository
<1> QED  BY <1>1, <1>6, <1>9, <1>10, <1>11

\* The fetches of columns 2 and 3: a slot of a repository in the store is fetched when no fetch runs.
LEMMA FetchKeeps ==
  ASSUME BrowseInv, NEW s \in Slots, s[2] \in repos, data[s] \notin {"Loading", "Reloading"},
         NEW d \in {"Loading", "Reloading"}, Fetch(s, d)
  PROVE  /\ data' \in [Slots -> SlotStates] /\ fetching' \in [Slots -> Nat]
         /\ \A x \in Slots : x[2] \in repos =>
                fetching'[x] = IF data'[x] \in {"Loading", "Reloading"} THEN 1 ELSE 0
         /\ \A x \in Slots : x[2] \notin repos => data'[x] = data[x] /\ fetching'[x] = fetching[x]
<1>1. data \in [Slots -> SlotStates] /\ fetching \in [Slots -> Nat] /\ fetching[s] = 0
  BY DEF BrowseInv, BrowseTypes, SpinnersEnd
<1>2. data' = [data EXCEPT ![s] = d] /\ fetching' = [fetching EXCEPT ![s] = 1]
  BY <1>1 DEF Fetch
<1>3. \A x \in Slots : x[2] \in repos => fetching[x] = IF data[x] \in {"Loading", "Reloading"} THEN 1 ELSE 0
  BY DEF BrowseInv, SpinnersEnd
<1> QED  BY <1>1, <1>2, <1>3 DEF SlotStates

LEMMA FetchUnlessKnownKeeps ==
  ASSUME BrowseInv, NEW s \in Slots, s[2] \in repos, FetchUnlessKnown(s)
  PROVE  /\ data' \in [Slots -> SlotStates] /\ fetching' \in [Slots -> Nat]
         /\ \A x \in Slots : x[2] \in repos =>
                fetching'[x] = IF data'[x] \in {"Loading", "Reloading"} THEN 1 ELSE 0
         /\ \A x \in Slots : x[2] \notin repos => data'[x] = data[x] /\ fetching'[x] = fetching[x]
<1>1. CASE IsPendingOrDone(data[s])
  BY <1>1 DEF FetchUnlessKnown, BrowseInv, BrowseTypes, SpinnersEnd
<1>2. CASE ~IsPendingOrDone(data[s])
  BY <1>2, FetchKeeps DEF FetchUnlessKnown, IsPendingOrDone
<1> QED  BY <1>1, <1>2

\* Steps within columns 2 and 3 that leave the repositories as they are.
LEMMA SlotsMove ==
  ASSUME BrowseInv, UNCHANGED <<epoch, nextRequest, inflight, repos, nextHandle, catFetch, opened, closing>>,
         data' \in [Slots -> SlotStates], fetching' \in [Slots -> Nat],
         \A x \in Slots : x[2] \in repos =>
                fetching'[x] = IF data'[x] \in {"Loading", "Reloading"} THEN 1 ELSE 0,
         \A x \in Slots : x[2] \notin repos => data'[x] = data[x] /\ fetching'[x] <= fetching[x],
         cats' \in [Handles -> SlotStates], \A h \in Handles : cats'[h] # cats[h] => h \in repos /\ cats'[h] # "Loading",
         selCat' \in (Handles \X Catalogs) \union {Nothing}, selCat' # Nothing => selCat'[1] \in repos,
         prompts' \subseteq Handles \X Catalogs, reloading' \subseteq Handles \X Catalogs, ExportShutsDialog'
  PROVE  BrowseInv'
<1> USE HandleFacts DEF BrowseInv
<1>n. nextHandle \in Nat /\ repos \subseteq Handles /\ fetching \in [Slots -> Nat]
  BY DEF BrowseTypes
<1>1. BrowseTypes'
  BY DEF BrowseTypes
<1>2. \A h \in repos : ~ (h >= nextHandle)
  BY <1>n DEF HandlesAreFresh
<1>3. \A x \in Slots : x[2] >= nextHandle => fetching'[x] <= 0 /\ fetching'[x] \in Nat
  BY <1>2 DEF HandlesAreFresh
<1>4. \A x \in Slots : x[2] >= nextHandle => fetching'[x] = 0
  BY <1>3
<1>5. HandlesAreFresh'
  BY <1>2, <1>4 DEF HandlesAreFresh
<1>6. SpinnersEnd'
  BY <1>n DEF SpinnersEnd
<1>7. DiscardedStaysGone'
  BY DEF DiscardedStaysGone
<1> QED  BY <1>1, <1>5, <1>6, <1>7

LEMMA BrowseStep ==
  ASSUME BrowseInv, BrowseNext \/ UNCHANGED browseVars
  PROVE  BrowseInv'
<1> USE HandleFacts
<1>t. /\ repos \subseteq Handles /\ selCat \in (Handles \X Catalogs) \union {Nothing}
      /\ data \in [Slots -> SlotStates] /\ fetching \in [Slots -> Nat] /\ cats \in [Handles -> SlotStates]
      /\ prompts \subseteq Handles \X Catalogs /\ reloading \subseteq Handles \X Catalogs
      /\ nextHandle \in Nat /\ nextHandle > 0
  BY DEF BrowseInv, BrowseTypes
<1>d. /\ \A s \in Slots : s[2] \in repos => fetching[s] = IF data[s] \in {"Loading", "Reloading"} THEN 1 ELSE 0
      /\ selCat # Nothing => selCat[1] \in repos
      /\ ExportShutsDialog
  BY DEF BrowseInv, SpinnersEnd, DiscardedStaysGone
<1>1. CASE GoBack
  <2>1. RescanStarted /\ exporting = NoRepo /\ repos' = {} /\ opened' = opened /\ nextHandle' = nextHandle
        /\ UNCHANGED <<exporting, nextRequest, inflight, cats, catFetch, fetching, prompts, reloading>>
    BY <1>1 DEF GoBack, Reconnectable
  <2>2. {} \in SUBSET Handles /\ opened' = opened \union {}
    BY <2>1
  <2>3. nextHandle' \in Nat /\ nextHandle' >= nextHandle
    BY <1>t, <2>1
  <2> QED  BY <2>1, <2>2, <2>3, RescanKeeps
<1>2. CASE ConnectRemote \/ DialogEscaped
  <2> USE <1>2 DEF ConnectRemote, DialogEscaped, Reconnectable
  <2>1. ExportShutsDialog'
    BY <1>d DEF ExportShutsDialog, ExportKeepsRepository
  <2> QED  BY <1>t, <1>d, <2>1, SlotsMove
<1>3. ASSUME NEW n \in 1..2, ApplyDiscovered(n)
      PROVE  BrowseInv'
  <2> DEFINE found == nextHandle..(nextHandle + n - 1)
  <2>1. /\ RescanStarted /\ dialog /\ found \in SUBSET Handles /\ repos' = found /\ opened' = opened \union found
        /\ nextHandle' = nextHandle + n
        /\ UNCHANGED <<exporting, nextRequest, inflight, cats, catFetch, fetching, prompts, reloading>>
    BY <1>3 DEF ApplyDiscovered
  <2>2. exporting = NoRepo
    BY <1>d, <2>1 DEF ExportShutsDialog
  <2>3. nextHandle' \in Nat /\ nextHandle' >= nextHandle /\ \A h \in found : nextHandle <= h /\ h < nextHandle'
    BY <1>t, <2>1
  <2> HIDE DEF found
  <2> QED  BY <2>1, <2>2, <2>3, RescanKeeps
<1>4. CASE ReposReleased
  <2> USE <1>4 DEF ReposReleased
  <2>1. BrowseTypes' /\ HandlesAreFresh' /\ ExportShutsDialog' /\ SpinnersEnd'
    BY DEF BrowseInv, BrowseTypes, HandlesAreFresh, ExportShutsDialog, ExportKeepsRepository, SpinnersEnd
  <2>2. DiscardedStaysGone'
    BY DEF BrowseInv, HandlesAreFresh, DiscardedStaysGone
  <2> QED  BY <2>1, <2>2 DEF BrowseInv
<1>5. ASSUME NEW h \in Handles, CatalogsRequested(h)
      PROVE  BrowseInv'
  <2> USE <1>5 DEF CatalogsRequested
  <2>1. BrowseTypes'
    BY DEF BrowseInv, BrowseTypes, SlotStates
  <2>2. HandlesAreFresh'
    BY <1>t DEF BrowseInv, HandlesAreFresh
  <2>3. \A x \in repos : cats'[x] = "Loading" => <<x, epoch, inflight'[x]>> \in catFetch'
    <3>1. inflight \in [Handles -> Nat]
      BY DEF BrowseInv, BrowseTypes
    <3> QED  BY <1>t, <3>1 DEF BrowseInv, SpinnersEnd
  <2>4. SpinnersEnd'
    BY <1>d, <2>3 DEF SpinnersEnd
  <2>5. DiscardedStaysGone' /\ ExportShutsDialog'
    BY <1>d DEF BrowseInv, DiscardedStaysGone, ExportShutsDialog, ExportKeepsRepository
  <2> QED  BY <2>1, <2>2, <2>4, <2>5 DEF BrowseInv
<1>6. ASSUME NEW f \in catFetch, NEW ok \in BOOLEAN, CatalogsArrive(f, ok)
      PROVE  BrowseInv'
  <2> USE <1>6 DEF CatalogsArrive
  <2>0. f \in Handles \X Nat \X Nat /\ f = <<f[1], f[2], f[3]>>
    BY DEF BrowseInv, BrowseTypes
  <2>1. BrowseTypes'
    BY <1>t, <2>0 DEF BrowseInv, BrowseTypes, SlotStates
  <2>2. HandlesAreFresh'
    BY <1>t, <2>0 DEF BrowseInv, HandlesAreFresh
  <2>3. \A x \in repos : cats'[x] = "Loading" => <<x, epoch, inflight[x]>> \in catFetch'
    <3> SUFFICES ASSUME NEW x \in repos, cats'[x] = "Loading" PROVE <<x, epoch, inflight[x]>> \in catFetch'
      OBVIOUS
    <3>1. cats[x] = "Loading" /\ (IsStale(f) \/ f[1] # x)
      BY <1>t, <2>0
    <3>2. <<x, epoch, inflight[x]>> \in catFetch
      BY <3>1 DEF BrowseInv, SpinnersEnd
    <3>3. f # <<x, epoch, inflight[x]>>
      BY <3>1 DEF IsStale
    <3> QED  BY <3>2, <3>3
  <2>4. SpinnersEnd'
    BY <1>d, <2>3 DEF SpinnersEnd
  <2>5. DiscardedStaysGone' /\ ExportShutsDialog'
    BY <1>d DEF BrowseInv, DiscardedStaysGone, ExportShutsDialog, ExportKeepsRepository
  <2> QED  BY <2>1, <2>2, <2>4, <2>5 DEF BrowseInv
<1>7. ASSUME NEW h \in Handles, NEW c \in Catalogs, CatalogSelected(h, c)
      PROVE  BrowseInv'
  <2> USE <1>7 DEF CatalogSelected
  <2>1. h \in repos /\ selCat' = <<h, c>> /\ FetchUnlessKnown(<<"workloads", h, c>>)
    BY DEF SelectCatalog
  <2>2. <<"workloads", h, c>> \in Slots /\ <<"workloads", h, c>>[2] \in repos
    BY <2>1
  <2>3. ExportShutsDialog'
    BY <1>d DEF ExportShutsDialog, ExportKeepsRepository
  <2>4. /\ data' \in [Slots -> SlotStates] /\ fetching' \in [Slots -> Nat]
        /\ \A x \in Slots : x[2] \in repos =>
               fetching'[x] = IF data'[x] \in {"Loading", "Reloading"} THEN 1 ELSE 0
        /\ \A x \in Slots : x[2] \notin repos => data'[x] = data[x] /\ fetching'[x] = fetching[x]
    BY <2>1, <2>2, FetchUnlessKnownKeeps
  <2>5. \A x \in Slots : x[2] \notin repos => data'[x] = data[x] /\ fetching'[x] <= fetching[x]
    BY <1>t, <2>4
  <2>6. UNCHANGED <<epoch, nextRequest, inflight, repos, nextHandle, catFetch, opened, closing, cats, prompts, reloading>>
    OBVIOUS
  <2>7. selCat' \in (Handles \X Catalogs) \union {Nothing} /\ (selCat' # Nothing => selCat'[1] \in repos)
    BY <2>1
  <2>8. cats' \in [Handles -> SlotStates] /\ prompts' \subseteq Handles \X Catalogs /\ reloading' \subseteq Handles \X Catalogs
    BY <1>t, <2>6
  <2> QED  BY <2>3, <2>4, <2>5, <2>6, <2>7, <2>8, SlotsMove
<1>8. CASE WorkloadSelected \/ RefreshRequested
  <2> USE <1>8 DEF WorkloadSelected, RefreshRequested
  <2>1. selCat \in Handles \X Catalogs /\ selCat[1] \in repos
    BY <1>t, <1>d
  <2>2. DeepestSlot \in Slots /\ DeepestSlot[2] \in repos /\ <<"versions", selCat[1], selCat[2]>> \in Slots
        /\ <<"versions", selCat[1], selCat[2]>>[2] \in repos
    BY <2>1 DEF DeepestSlot
  <2>3. ExportShutsDialog'
    BY <1>d DEF ExportShutsDialog, ExportKeepsRepository
  <2>4. /\ data' \in [Slots -> SlotStates] /\ fetching' \in [Slots -> Nat]
        /\ \A x \in Slots : x[2] \in repos =>
               fetching'[x] = IF data'[x] \in {"Loading", "Reloading"} THEN 1 ELSE 0
        /\ \A x \in Slots : x[2] \notin repos => data'[x] = data[x] /\ fetching'[x] = fetching[x]
    <3>1. CASE WorkloadSelected
      BY <2>2, <3>1, FetchUnlessKnownKeeps
    <3>2. CASE RefreshRequested
      <4>1. LoadingPreserving(data[DeepestSlot]) \in {"Loading", "Reloading"} /\ data[DeepestSlot] \notin {"Loading", "Reloading"}
        BY <3>2 DEF LoadingPreserving, MayRefresh
      <4> QED  BY <2>2, <3>2, <4>1, FetchKeeps
    <3> QED  BY <3>1, <3>2
  <2>5. \A x \in Slots : x[2] \notin repos => data'[x] = data[x] /\ fetching'[x] <= fetching[x]
    BY <1>t, <2>4
  <2>6. UNCHANGED <<epoch, nextRequest, inflight, repos, nextHandle, catFetch, opened, closing, cats, prompts, reloading, selCat>>
    OBVIOUS
  <2> QED  BY <1>t, <1>d, <2>3, <2>4, <2>5, <2>6, SlotsMove
<1>9. ASSUME NEW s \in Slots, SlotLoads(s) \/ SlotFails(s) \/ WorkloadsNeedKey(s)
      PROVE  BrowseInv'
  <2>1. PICK d \in {"Success", "Failure", "NotAsked"} : SlotArrives(s, d)
    BY <1>9 DEF SlotLoads, SlotFails, WorkloadsNeedKey
  <2> USE <2>1 DEF SlotArrives, Accepts
  <2>2. /\ data' \in [Slots -> SlotStates] /\ fetching' \in [Slots -> Nat]
        /\ \A x \in Slots : x[2] \in repos =>
               fetching'[x] = IF data'[x] \in {"Loading", "Reloading"} THEN 1 ELSE 0
    BY <1>t, <1>d DEF SlotStates
  <2>3. \A x \in Slots : x[2] \notin repos => data'[x] = data[x] /\ fetching'[x] <= fetching[x]
    BY <1>t
  <2>4. ExportShutsDialog'
    BY <1>d DEF ExportShutsDialog, ExportKeepsRepository
  <2>5. prompts' \subseteq Handles \X Catalogs
    BY <1>9, <1>t DEF SlotLoads, SlotFails, WorkloadsNeedKey
  <2>6. UNCHANGED <<epoch, nextRequest, inflight, repos, nextHandle, catFetch, opened, closing, cats, reloading, selCat>>
    OBVIOUS
  <2> QED  BY <1>t, <1>d, <2>2, <2>3, <2>4, <2>5, <2>6, SlotsMove
<1>10. ASSUME NEW p \in prompts, NEW verified \in BOOLEAN, KeyDismissed(p, verified)
       PROVE  BrowseInv'
  <2> USE <1>10 DEF KeyDismissed
  <2>1. ExportShutsDialog' /\ prompts' \subseteq Handles \X Catalogs /\ reloading' \subseteq Handles \X Catalogs
    BY <1>t, <1>d DEF ExportShutsDialog, ExportKeepsRepository
  <2> QED  BY <1>t, <1>d, <2>1, SlotsMove
<1>11. ASSUME NEW p \in reloading, NEW ok \in BOOLEAN, CatalogsReloaded(p, ok)
       PROVE  BrowseInv'
  <2> USE <1>11 DEF CatalogsReloaded
  <2>0. p[1] \in Handles /\ p[2] \in Catalogs
    BY <1>t
  <2>1. UNCHANGED <<epoch, nextRequest, inflight, repos, nextHandle, catFetch, opened, closing, prompts>>
        /\ ExportShutsDialog' /\ reloading' \subseteq Handles \X Catalogs
    BY <1>t, <1>d DEF ExportShutsDialog, ExportKeepsRepository
  <2>2. CASE p[1] \in repos /\ ok
    <3>1. cats' = [cats EXCEPT ![p[1]] = "Success"] /\ selCat' = <<p[1], p[2]>> /\ FetchUnlessKnown(<<"workloads", p[1], p[2]>>)
      BY <2>2 DEF SelectCatalog
    <3>2. <<"workloads", p[1], p[2]>> \in Slots /\ <<"workloads", p[1], p[2]>>[2] \in repos
      BY <2>0, <2>2
    <3>3. /\ data' \in [Slots -> SlotStates] /\ fetching' \in [Slots -> Nat]
          /\ \A x \in Slots : x[2] \in repos =>
                 fetching'[x] = IF data'[x] \in {"Loading", "Reloading"} THEN 1 ELSE 0
          /\ \A x \in Slots : x[2] \notin repos => data'[x] = data[x] /\ fetching'[x] = fetching[x]
      BY <3>1, <3>2, FetchUnlessKnownKeeps
    <3>4. \A x \in Slots : x[2] \notin repos => data'[x] = data[x] /\ fetching'[x] <= fetching[x]
      BY <1>t, <3>3
    <3>5. cats' \in [Handles -> SlotStates] /\ \A h \in Handles : cats'[h] # cats[h] => h \in repos /\ cats'[h] # "Loading"
      BY <1>t, <2>0, <2>2, <3>1 DEF SlotStates
    <3>6. selCat' \in (Handles \X Catalogs) \union {Nothing} /\ (selCat' # Nothing => selCat'[1] \in repos)
      BY <2>0, <2>2, <3>1
    <3>7. prompts' \subseteq Handles \X Catalogs
      BY <1>t, <2>1
    <3> QED  BY <2>1, <3>3, <3>4, <3>5, <3>6, <3>7, SlotsMove
  <2>3. CASE ~ (p[1] \in repos /\ ok)
    <3>1. UNCHANGED <<cats, data, fetching>> /\ (selCat' = selCat \/ selCat' = Nothing)
      BY <2>3
    <3> QED  BY <1>t, <1>d, <2>1, <3>1, SlotsMove
  <2> QED  BY <2>2, <2>3
<1>12. CASE ExportStarted \/ ExportGone
  <2> USE <1>12 DEF ExportStarted, ExportGone, Covered
  <2>1. ExportShutsDialog'
    BY <1>d DEF ExportShutsDialog, ExportKeepsRepository, BrowseInv, HandlesAreFresh
  <2> QED  BY <1>t, <1>d, <2>1, SlotsMove
<1>13. CASE UNCHANGED browseVars
  <2> USE <1>13 DEF browseVars
  <2>1. ExportShutsDialog'
    BY <1>d DEF ExportShutsDialog, ExportKeepsRepository
  <2> QED  BY <1>t, <1>d, <2>1, SlotsMove
<1> QED
  BY <1>1, <1>2, <1>3, <1>4, <1>5, <1>6, <1>7, <1>8, <1>9, <1>10, <1>11, <1>12, <1>13 DEF BrowseNext

\* No fetch puts the plain spinner over rows that are there.
LEMMA RowsStay ==
  ASSUME BrowseInv, BrowseNext \/ UNCHANGED browseVars, NEW s \in Slots, data[s] \in {"Success", "Reloading"}
  PROVE  data'[s] # "Loading"
<1>t. data \in [Slots -> SlotStates]
  BY DEF BrowseInv, BrowseTypes
<1>1. \A x, d : Fetch(x, d) /\ (x = s => d # "Loading") => data'[s] # "Loading"
  BY <1>t DEF Fetch
<1>2. \A x : FetchUnlessKnown(x) => data'[s] # "Loading"
  BY <1>1 DEF FetchUnlessKnown, IsPendingOrDone
<1>3. RescanStarted => data'[s] # "Loading"
  BY DEF RescanStarted
<1>4. RefreshRequested => data'[s] # "Loading"
  BY <1>1 DEF RefreshRequested, LoadingPreserving, MayRefresh
<1>5. \A x, d : SlotArrives(x, d) /\ d # "Loading" => data'[s] # "Loading"
  BY <1>t DEF SlotArrives
<1>6. \A x : SlotLoads(x) \/ SlotFails(x) \/ WorkloadsNeedKey(x) => data'[s] # "Loading"
  BY <1>5 DEF SlotLoads, SlotFails, WorkloadsNeedKey
<1>7. \A p, ok : CatalogsReloaded(p, ok) => data'[s] # "Loading"
  BY <1>2 DEF CatalogsReloaded, SelectCatalog
<1>8. \A h, c : CatalogSelected(h, c) => data'[s] # "Loading"
  BY <1>2 DEF CatalogSelected, SelectCatalog
<1>9. WorkloadSelected => data'[s] # "Loading"
  BY <1>2 DEF WorkloadSelected
<1>10. \A n : GoBack \/ ApplyDiscovered(n) => data'[s] # "Loading"
  BY <1>3 DEF GoBack, ApplyDiscovered
<1>11. data' = data => data'[s] # "Loading"
  OBVIOUS
<1> QED
  BY <1>4, <1>6, <1>7, <1>8, <1>9, <1>10, <1>11
  DEF BrowseNext, browseVars, ConnectRemote, DialogEscaped, ReposReleased, CatalogsRequested, CatalogsArrive, KeyDismissed,
      ExportStarted, ExportGone

-----------------------------------------------------------------------------
(* The unit screen                                                         *)

\* Requests are numbered; a worker, a slot and a provider bear the number of theirs, and no two workers
\* the same.
Numbered ==
    /\ nextReq \in Nat /\ nextReq > 0 /\ unitEpoch \in Nat
    /\ slotReq \in [Slot -> Nat] /\ \A s \in Slot : slotReq[s] < nextReq
    /\ \A w \in work : w.k \in Slot /\ w.rq \in Nat /\ w.rq > 0 /\ w.rq < nextReq
    /\ \A w, x \in work : w.rq = x.rq => w = x
    /\ \A h \in held : h \in Nat /\ h > 0 /\ h < nextReq

\* A worker whose result the store will accept.
Heard(k) == \E w \in work : w.k = k /\ w.ep = unitEpoch /\ w.rq = slotReq[k]

\* Until the provider is there, the root is being loaded, failed or about to be asked for again; a
\* provider that arrives is a new one.
RootArrives ==
    /\ \A w \in work : w.k = "provider" => w.rq \notin held
    /\ Heard("provider") => provider = 0
    /\ provider \in Nat /\ (screen = "open" => provider \notin closingProv)
    /\ screen = "open" /\ ~drainer /\ provider = 0 => rootError \/ Heard("provider")

\* The rows are the first pages, and the page to come is the next one.
PagesInOrder ==
    /\ \E n \in Nat : n <= Pages /\ level = [i \in 1..n |-> i]
    /\ \A w \in work : w.k = "children" /\ w.ep = unitEpoch /\ w.rq = slotReq["children"] =>
          w.page = Len(level) + 1 /\ w.page <= Pages

\* The spinners, slot by slot.
Spin ==
    screen = "open" /\ ~drainer =>
        /\ pendingKids => Heard("children")
        /\ detail = "loading" => Heard("detail")
        /\ goto \in {"resolving", "resolvingSkipped"} => Heard("goto")
        /\ goto = "waiting" => rootError \/ Heard("provider")

UnitInv == Numbered /\ RootArrives /\ PagesInOrder /\ Spin /\ ProvidersOwned

LEMMA Rows ==
  ASSUME NEW n \in Nat, level = [i \in 1..n |-> i]
  PROVE  /\ Len(level) = n
         /\ Append(level, n + 1) = [i \in 1..(n + 1) |-> i]
<1>1. level \in Seq(Nat) /\ Len(level) = n
  OBVIOUS
<1>2. DOMAIN Append(level, n + 1) = 1..(n + 1)
  BY <1>1
<1>3. \A i \in 1..(n + 1) : Append(level, n + 1)[i] = i
  BY <1>1
<1> QED  BY <1>1, <1>2, <1>3

LEMMA RowsInOrder ==
  ASSUME PagesInOrder
  PROVE  RowsAreChildren
<1>1. PICK n \in Nat : n <= Pages /\ level = [i \in 1..n |-> i]
  BY DEF PagesInOrder
<1>2. Len(level) = n
  BY <1>1, Rows
<1>3. Pages \in Nat /\ Len(AllPages) = Pages
  BY UnitAssumption DEF AllPages
<1>4. SubSeq(AllPages, 1, n) = [i \in 1..n |-> i]
  BY <1>1, <1>3 DEF AllPages
<1> QED  BY <1>1, <1>2, <1>3, <1>4 DEF RowsAreChildren

LEMMA UnitProperties ==
  ASSUME UnitInv
  PROVE  UnitSpinnersEnd /\ RowsAreChildren /\ ProvidersOwned
<1>1. \A k \in Slot : Heard(k) => \E w \in Group(k) : ~Stale(w)
  BY DEF Heard, Group, Stale
<1>2. UnitSpinnersEnd
  BY <1>1 DEF UnitInv, Spin, UnitSpinnersEnd, Slot
<1> QED  BY <1>2, RowsInOrder DEF UnitInv

LEMMA UnitStart ==
  ASSUME UnitInit
  PROVE  UnitInv
<1> USE DEF UnitInit
<1>1. Numbered
  BY DEF Numbered, Slot
<1>2. Heard("provider")
  BY DEF Heard, Slot
<1>3. RootArrives /\ ProvidersOwned
  BY <1>2 DEF RootArrives, ProvidersOwned
<1>4. PagesInOrder
  <2>1. level = [i \in 1..0 |-> i]
    BY DEF NoLevel
  <2> QED  BY <2>1, UnitAssumption DEF PagesInOrder
<1>5. Spin
  BY <1>2 DEF Spin
<1> QED  BY <1>1, <1>3, <1>4, <1>5 DEF UnitInv

\* Steps that leave the root, the screen and the rows alone: workers end that were not heard or whose
\* slot no longer spins, and at most one starts.
LEMMA UnitStepKeeps ==
  ASSUME UnitInv, Numbered', UNCHANGED <<unitEpoch, provider, rootError, level, held, closingProv, screen, drainer>>,
         \A w \in work' : w.k = "provider" => w \in work,
         slotReq'["provider"] = slotReq["provider"], Heard("provider") => Heard("provider")',
         \A w \in work' : w.k = "children" /\ w.ep = unitEpoch' /\ w.rq = slotReq'["children"] =>
            w.page = Len(level) + 1 /\ w.page <= Pages,
         Spin'
  PROVE  UnitInv'
<1> USE DEF UnitInv
<1>1. RootArrives'
  <2>1. Heard("provider")' => Heard("provider")
    BY DEF Heard
  <2> QED  BY <2>1 DEF RootArrives
<1>2. PagesInOrder'
  BY DEF PagesInOrder
<1>3. ProvidersOwned'
  BY DEF ProvidersOwned
<1> QED  BY <1>1, <1>2, <1>3

\* A request starts a worker that is heard.
LEMMA RequestIsHeard ==
  ASSUME Numbered, NEW s \in Slot, Requests(s), unitEpoch' = unitEpoch, NEW w, w.k = s, w.ep = unitEpoch, w.rq = nextReq, w \in work'
  PROVE  Heard(s)'
BY DEF Numbered, Requests, Heard

LEMMA UnitStep ==
  ASSUME UnitInv, UnitNext \/ UNCHANGED unitVars
  PROVE  UnitInv'
<1> USE DEF UnitInv
<1>s. {"provider", "children", "goto", "detail", "open"} = Slot
  BY DEF Slot
<1>1. ASSUME NEW x \in dying, WorkerDies(x)
     PROVE  UnitInv'
  <2> USE <1>1, <1>s DEF WorkerDies
  <2>1. Numbered'
    BY DEF Numbered
  <2>2. \A k \in {"provider", "children", "goto", "detail", "open"} : Heard(k) => Heard(k)'
    BY DEF Numbered, Heard
  <2>4. Spin'
    BY <2>2 DEF Spin
  <2>5. \A w \in work' : w.k = "children" /\ w.ep = unitEpoch' /\ w.rq = slotReq'["children"] =>
          w.page = Len(level) + 1 /\ w.page <= Pages
    BY DEF Numbered, PagesInOrder
  <2>6. slotReq'["provider"] = slotReq["provider"] /\ \A w \in work' : w.k = "provider" => w \in work
    BY DEF Numbered
  <2> QED  BY <2>1, <2>2, <2>4, <2>5, <2>6, UnitStepKeeps
<1>2. ASSUME NEW x \in work, GotoUnlanded(x)
     PROVE  UnitInv'
  <2> USE <1>2, <1>s DEF GotoUnlanded, StartExclusive, Group, Worker, Requests, Stale
  <2>1. Numbered'
    BY DEF Numbered
  <2>2. \A k \in {"provider", "children", "detail", "open"} : Heard(k) => Heard(k)'
    BY DEF Numbered, Heard
  <2>3. (Heard("goto") => Heard("goto")') \/ goto' = "none" 
    BY DEF Numbered, Heard
  <2>4. Spin'
    BY <2>2, <2>3 DEF Spin
  <2>5. \A w \in work' : w.k = "children" /\ w.ep = unitEpoch' /\ w.rq = slotReq'["children"] =>
          w.page = Len(level) + 1 /\ w.page <= Pages
    BY DEF Numbered, PagesInOrder
  <2>6. slotReq'["provider"] = slotReq["provider"] /\ \A w \in work' : w.k = "provider" => w \in work
    BY DEF Numbered
  <2> QED  BY <2>1, <2>2, <2>4, <2>5, <2>6, UnitStepKeeps
<1>3. ASSUME NEW x \in work, DetailResolved(x)
     PROVE  UnitInv'
  <2> USE <1>3, <1>s DEF DetailResolved, StartExclusive, Group, Worker, Requests, Stale
  <2>1. Numbered'
    BY DEF Numbered
  <2>2. \A k \in {"provider", "children", "goto", "open"} : Heard(k) => Heard(k)'
    BY DEF Numbered, Heard
  <2>3. (Heard("detail") => Heard("detail")') \/ detail' # "loading" 
    BY DEF Numbered, Heard
  <2>4. Spin'
    BY <2>2, <2>3 DEF Spin
  <2>5. \A w \in work' : w.k = "children" /\ w.ep = unitEpoch' /\ w.rq = slotReq'["children"] =>
          w.page = Len(level) + 1 /\ w.page <= Pages
    BY DEF Numbered, PagesInOrder
  <2>6. slotReq'["provider"] = slotReq["provider"] /\ \A w \in work' : w.k = "provider" => w \in work
    BY DEF Numbered
  <2> QED  BY <2>1, <2>2, <2>4, <2>5, <2>6, UnitStepKeeps
<1>4. ASSUME NEW x \in work, UnitOpened(x)
     PROVE  UnitInv'
  <2> USE <1>4, <1>s DEF UnitOpened, StartExclusive, Group, Worker, Requests, Stale
  <2>1. Numbered'
    BY DEF Numbered
  <2>2. \A k \in {"provider", "children", "goto", "detail"} : Heard(k) => Heard(k)'
    BY DEF Numbered, Heard
  <2>4. Spin'
    BY <2>2 DEF Spin
  <2>5. \A w \in work' : w.k = "children" /\ w.ep = unitEpoch' /\ w.rq = slotReq'["children"] =>
          w.page = Len(level) + 1 /\ w.page <= Pages
    BY DEF Numbered, PagesInOrder
  <2>6. slotReq'["provider"] = slotReq["provider"] /\ \A w \in work' : w.k = "provider" => w \in work
    BY DEF Numbered
  <2> QED  BY <2>1, <2>2, <2>4, <2>5, <2>6, UnitStepKeeps
<1>5. CASE GotoRequested
  <2> USE <1>5, <1>s DEF GotoRequested, StartExclusive, Group, Worker, Requests, Stale
  <2>1. Numbered'
    BY DEF Numbered
  <2>2. \A k \in {"provider", "children", "detail", "open"} : Heard(k) => Heard(k)'
    BY DEF Numbered, Heard
  <2>3. provider # 0 => Heard("goto")'
    <3>1. provider # 0 => Worker("goto", provider, 0) \in work' /\ Requests("goto")
      BY DEF Worker
    <3>2. LET w == Worker("goto", provider, 0) IN w.k = "goto" /\ w.ep = unitEpoch /\ w.rq = nextReq
      BY DEF Worker
    <3>3. UNCHANGED unitEpoch
      OBVIOUS
    <3> HIDE DEF Requests, Worker
    <3> QED  BY <1>s, <3>1, <3>2, <3>3, RequestIsHeard
  <2>4. Spin'
    BY <2>2, <2>3 DEF Spin, RootArrives
  <2>5. \A w \in work' : w.k = "children" /\ w.ep = unitEpoch' /\ w.rq = slotReq'["children"] =>
          w.page = Len(level) + 1 /\ w.page <= Pages
    BY DEF Numbered, PagesInOrder
  <2>6. slotReq'["provider"] = slotReq["provider"] /\ \A w \in work' : w.k = "provider" => w \in work
    BY DEF Numbered
  <2> QED  BY <2>1, <2>2, <2>4, <2>5, <2>6, UnitStepKeeps
<1>6. CASE DetailRequested
  <2> USE <1>6, <1>s DEF DetailRequested, StartExclusive, Group, Worker, Requests, Stale
  <2>1. Numbered'
    BY DEF Numbered
  <2>2. \A k \in {"provider", "children", "goto", "open"} : Heard(k) => Heard(k)'
    BY DEF Numbered, Heard
  <2>3. TRUE => Heard("detail")'
    <3>1. TRUE => Worker("detail", provider, 0) \in work' /\ Requests("detail")
      BY DEF Worker
    <3>2. LET w == Worker("detail", provider, 0) IN w.k = "detail" /\ w.ep = unitEpoch /\ w.rq = nextReq
      BY DEF Worker
    <3>3. UNCHANGED unitEpoch
      OBVIOUS
    <3> HIDE DEF Requests, Worker
    <3> QED  BY <1>s, <3>1, <3>2, <3>3, RequestIsHeard
  <2>4. Spin'
    BY <2>2, <2>3 DEF Spin
  <2>5. \A w \in work' : w.k = "children" /\ w.ep = unitEpoch' /\ w.rq = slotReq'["children"] =>
          w.page = Len(level) + 1 /\ w.page <= Pages
    BY DEF Numbered, PagesInOrder
  <2>6. slotReq'["provider"] = slotReq["provider"] /\ \A w \in work' : w.k = "provider" => w \in work
    BY DEF Numbered
  <2> QED  BY <2>1, <2>2, <2>4, <2>5, <2>6, UnitStepKeeps
<1>7. CASE DetailIdled
  <2> USE <1>7, <1>s DEF DetailIdled, StartExclusive, Group, Worker, Requests, Stale
  <2>1. Numbered'
    BY DEF Numbered
  <2>2. \A k \in {"provider", "children", "goto", "open"} : Heard(k) => Heard(k)'
    BY DEF Numbered, Heard
  <2>4. Spin'
    BY <2>2 DEF Spin
  <2>5. \A w \in work' : w.k = "children" /\ w.ep = unitEpoch' /\ w.rq = slotReq'["children"] =>
          w.page = Len(level) + 1 /\ w.page <= Pages
    BY DEF Numbered, PagesInOrder
  <2>6. slotReq'["provider"] = slotReq["provider"] /\ \A w \in work' : w.k = "provider" => w \in work
    BY DEF Numbered
  <2> QED  BY <2>1, <2>2, <2>4, <2>5, <2>6, UnitStepKeeps
<1>8. CASE UnitOpenRequested
  <2> USE <1>8, <1>s DEF UnitOpenRequested, StartExclusive, Group, Worker, Requests, Stale
  <2>1. Numbered'
    BY DEF Numbered
  <2>2. \A k \in {"provider", "children", "goto", "detail"} : Heard(k) => Heard(k)'
    BY DEF Numbered, Heard
  <2>4. Spin'
    BY <2>2 DEF Spin
  <2>5. \A w \in work' : w.k = "children" /\ w.ep = unitEpoch' /\ w.rq = slotReq'["children"] =>
          w.page = Len(level) + 1 /\ w.page <= Pages
    BY DEF Numbered, PagesInOrder
  <2>6. slotReq'["provider"] = slotReq["provider"] /\ \A w \in work' : w.k = "provider" => w \in work
    BY DEF Numbered
  <2> QED  BY <2>1, <2>2, <2>4, <2>5, <2>6, UnitStepKeeps
<1>9. CASE ChildrenRequested \/ LoadMoreRequested
  <2> USE <1>9, <1>s DEF ChildrenRequested, LoadMoreRequested, StartExclusive, Group, Worker, Requests, Stale, LoadPage, NoLevel
  <2>1. Numbered'
    BY DEF Numbered
  <2>2. \A k \in {"provider", "goto", "detail", "open"} : Heard(k) => Heard(k)'
    BY DEF Numbered, Heard
  <2>3. Heard("children")'
    <3>1. PICK p \in {1, Len(level) + 1} : Worker("children", provider, p) \in work' /\ Requests("children")
      BY DEF Worker
    <3> HIDE DEF Requests
    <3> QED  BY <3>1, RequestIsHeard DEF Worker
  <2>4. Spin'
    BY <2>2, <2>3 DEF Spin, RootArrives
  <2>5. \A w \in work' : w.k = "children" /\ w.ep = unitEpoch' /\ w.rq = slotReq'["children"] =>
          w.page = Len(level) + 1 /\ w.page <= Pages
    <3>0. PICK n \in Nat : n <= Pages /\ level = [i \in 1..n |-> i]
      BY DEF PagesInOrder
    <3>1. Len(level) = n
      BY <3>0, Rows
    <3>2. PICK p : p = Len(level) + 1 /\ p <= Pages /\ work' = work \union {Worker("children", provider, p)}
      BY <3>0, <3>1, UnitAssumption DEF Worker
    <3>3. \A w \in work : w.rq # slotReq'["children"]
      BY DEF Numbered
    <3> QED  BY <3>2, <3>3 DEF Worker
  <2>6. slotReq'["provider"] = slotReq["provider"] /\ \A w \in work' : w.k = "provider" => w \in work
    BY DEF Numbered
  <2> QED  BY <2>1, <2>2, <2>4, <2>5, <2>6, UnitStepKeeps
<1>10. CASE RefreshBegins
  <2> USE <1>10 DEF RefreshBegins
  <2>1. Numbered' /\ RootArrives'
    BY DEF Numbered, RootArrives, Heard
  <2>2. PagesInOrder' /\ Spin' /\ ProvidersOwned'
    BY DEF PagesInOrder, Spin, ProvidersOwned
  <2> QED  BY <2>1, <2>2
<1>11. CASE ScreenPruned \/ ScreenUnmounted \/ AfterStoreClosed
  <2> USE <1>11 DEF ScreenPruned, ScreenUnmounted, AfterStoreClosed, ClosingOld
  <2>1. Numbered'
    BY DEF Numbered
  <2>2. RootArrives'
    BY DEF RootArrives, Heard
  <2>3. PagesInOrder' /\ Spin'
    BY DEF PagesInOrder, Spin
  <2>4. ProvidersOwned'
    BY DEF ProvidersOwned, Numbered
  <2> QED  BY <2>1, <2>2, <2>3, <2>4
<1>12. ASSUME NEW x \in work, NEW put \in BOOLEAN, WorkerUnheard(x, put)
     PROVE  UnitInv'
  <2> USE <1>12 DEF WorkerUnheard
  <2>1. Numbered'
    BY DEF Numbered
  <2>2. RootArrives'
    BY DEF RootArrives, Heard, Numbered
  <2>3. PagesInOrder' /\ Spin' /\ ProvidersOwned'
    BY DEF PagesInOrder, Spin, ProvidersOwned
  <2> QED  BY <2>1, <2>2, <2>3
<1>13. ASSUME NEW p \in closingProv, ProviderReleased(p)
     PROVE  UnitInv'
  <2> USE <1>13 DEF ProviderReleased
  <2>1. Numbered' /\ RootArrives'
    BY DEF Numbered, RootArrives, Heard
  <2>2. PagesInOrder' /\ Spin'
    BY DEF PagesInOrder, Spin, Heard
  <2>3. ProvidersOwned'
    BY DEF ProvidersOwned, RootArrives
  <2> QED  BY <2>1, <2>2, <2>3
<1>14. CASE RootRequested
  <2> USE <1>14, <1>s DEF RootRequested
  <2>1. Numbered'
    BY DEF Numbered
  <2>w. PICK new : new \in work' /\ new.k = "provider" /\ new.ep = unitEpoch' /\ new.rq = nextReq /\ work' = work \union {new}
    OBVIOUS
  <2>2. Heard("provider")'
    BY <2>w DEF Heard, Numbered
  <2>3. RootArrives'
    <3>1. provider' = 0 /\ 0 \notin closingProv' /\ UNCHANGED held
      BY DEF Numbered, ClosingOld, ProvidersOwned
    <3>2. \A x \in work' : x.k = "provider" => x.rq \notin held
      BY <2>w DEF RootArrives, Numbered
    <3> QED  BY <2>2, <3>1, <3>2 DEF RootArrives
  <2>4. PagesInOrder'
    <3>1. \E m \in Nat : m <= Pages /\ level' = [i \in 1..m |-> i]
      <4>1. level' = [i \in 1..0 |-> i] /\ 0 \in Nat /\ 0 <= Pages
        BY UnitAssumption DEF NoLevel
      <4> QED  BY <4>1
    <3>2. \A w \in work' : w.k = "children" => w.rq # slotReq'["children"]
      BY DEF Numbered
    <3> QED  BY <3>1, <3>2 DEF PagesInOrder
  <2>5. Spin'
    BY <2>2 DEF Spin, GotoAfterReset
  <2>6. ProvidersOwned'
    BY DEF ProvidersOwned, ClosingOld, RootArrives
  <2> QED  BY <2>1, <2>3, <2>4, <2>5, <2>6
<1>15. ASSUME NEW x \in work, RootLoaded(x)
     PROVE  UnitInv'
  <2> USE <1>15, <1>s DEF RootLoaded, Group
  <2>0. x.k = "provider" /\ x.rq \in Nat \ {0} /\ x.rq < nextReq /\ (\A w \in work : w.rq = x.rq => w = x) /\ x.rq \notin held
    BY DEF Numbered, RootArrives
  <2>1. CASE Stale(x)
    <3> USE <2>1 DEF SupersededProvider, Stale
    <3>1. Numbered'
      BY <2>0 DEF Numbered
    <3>2. \A k \in Slot : Heard(k) <=> Heard(k)'
      BY <2>0 DEF Heard
    <3>3. RootArrives'
      BY <2>0, <3>2 DEF RootArrives, ProvidersOwned
    <3>4. PagesInOrder' /\ Spin' /\ ProvidersOwned'
      BY <2>0, <3>2 DEF PagesInOrder, Spin, ProvidersOwned
    <3> QED  BY <3>1, <3>3, <3>4
  <2>2. CASE ~Stale(x)
    <3>0. Heard("provider") /\ provider = 0 /\ provider' = x.rq /\ held' = held \union {x.rq} /\ closingProv' = closingProv
      BY <2>0, <2>2 DEF Stale, Heard, RootArrives
    <3>1. CASE goto = "none"
      <4> USE <2>2, <3>1
      <4>1. Numbered'
        BY <2>0 DEF Numbered
      <4>2. \A k \in {"children", "goto", "detail", "open"} : Heard(k) => Heard(k)'
        BY <2>0 DEF Heard
      <4>3. ~Heard("provider")'
        BY <2>0, <2>2 DEF Heard, Stale
      <4>4. RootArrives'
        BY <2>0, <3>0, <4>3 DEF RootArrives, ProvidersOwned, Numbered
      <4>5. PagesInOrder' /\ Spin' /\ ProvidersOwned'
        BY <2>0, <3>0, <4>2 DEF PagesInOrder, Spin, ProvidersOwned
      <4> QED  BY <4>1, <4>4, <4>5
    <3>2. CASE goto # "none"
      <4> USE <2>2, <3>2
      <4>0. Requests("goto") /\ goto' = "resolvingSkipped" /\ work' = (work \ {x}) \union {Worker("goto", x.rq, 0)}
        OBVIOUS
      <4>a. Worker("goto", x.rq, 0).k = "goto" /\ Worker("goto", x.rq, 0).rq = nextReq /\ Worker("goto", x.rq, 0).ep = unitEpoch
        BY DEF Worker
      <4>b. nextReq' = nextReq + 1 /\ slotReq' = [slotReq EXCEPT !["goto"] = nextReq]
        BY <4>0 DEF Requests
      <4>1. Numbered'
        BY <2>0, <4>0, <4>a, <4>b DEF Numbered
      <4>2. \A k \in {"children", "detail", "open"} : Heard(k) => Heard(k)'
        BY <2>0, <4>0, <4>b DEF Heard, Numbered
      <4>3. ~Heard("provider")'
        BY <2>0, <2>2, <4>0, <4>a, <4>b DEF Heard, Stale, Numbered
      <4>c. Heard("goto")'
        BY <4>0, <4>a, RequestIsHeard
      <4>4. RootArrives'
        BY <2>0, <3>0, <4>0, <4>a, <4>3 DEF RootArrives, ProvidersOwned, Numbered
      <4>5. PagesInOrder'
        BY <4>0, <4>a, <4>b DEF PagesInOrder, Numbered
      <4>6. Spin' /\ ProvidersOwned'
        BY <2>0, <3>0, <4>0, <4>2, <4>c DEF Spin, ProvidersOwned
      <4> QED  BY <4>1, <4>4, <4>5, <4>6
    <3> QED  BY <3>1, <3>2
  <2> QED  BY <2>1, <2>2
<1>16. ASSUME NEW x \in work, RootLoadFailed(x)
     PROVE  UnitInv'
  <2> USE <1>16, <1>s DEF RootLoadFailed, Group
  <2>1. Numbered'
    BY DEF Numbered
  <2>2. \A k \in {"children", "goto", "detail", "open"} : Heard(k) => Heard(k)'
    BY DEF Heard
  <2>3. Heard("provider")' => Heard("provider")
    BY DEF Heard
  <2>4. Stale(x) => (Heard("provider") => Heard("provider")')
    BY DEF Heard, Stale
  <2>5. RootArrives'
    BY <2>3, <2>4 DEF RootArrives
  <2>6. PagesInOrder' /\ ProvidersOwned'
    BY DEF PagesInOrder, ProvidersOwned
  <2>7. Spin'
    BY <2>2, <2>4 DEF Spin
  <2> QED  BY <2>1, <2>5, <2>6, <2>7
<1>17. ASSUME NEW x \in work, NEW ok \in BOOLEAN, ChildrenArrive(x, ok)
     PROVE  UnitInv'
  <2> USE <1>17, <1>s DEF ChildrenArrive, Group
  <2>0. x.k = "children" /\ x.rq \in Nat \ {0} /\ (\A w \in work : w.rq = x.rq => w = x)
    BY DEF Numbered
  <2>1. Numbered'
    BY DEF Numbered
  <2>2. \A k \in {"provider", "goto", "detail", "open"} : Heard(k) <=> Heard(k)'
    BY <2>0 DEF Heard
  <2>3. RootArrives' /\ ProvidersOwned'
    BY <2>2 DEF RootArrives, ProvidersOwned
  <2>4. Stale(x) => (Heard("children") => Heard("children")')
    BY DEF Heard, Stale
  <2>5. Spin'
    BY <2>2, <2>4 DEF Spin
  <2>6. PagesInOrder'
    <3>1. CASE Stale(x) \/ ~ok
      BY <3>1 DEF PagesInOrder
    <3>2. CASE ~Stale(x) /\ ok
      <4>1. PICK n \in Nat : n <= Pages /\ level = [i \in 1..n |-> i]
        BY DEF PagesInOrder
      <4>2. Len(level) = n /\ Append(level, n + 1) = [i \in 1..(n + 1) |-> i]
        BY <4>1, Rows
      <4>3. x.page = n + 1 /\ n + 1 <= Pages
        BY <2>0, <3>2, <4>2 DEF PagesInOrder, Stale
      <4>4. level' = [i \in 1..(n + 1) |-> i]
        <5>1. CASE x.page = 1
          <6>1. n = 0 /\ level' = <<1>>
            BY <3>2, <4>3, <5>1
          <6> QED  BY <6>1
        <5>2. CASE x.page # 1
          BY <3>2, <4>2, <4>3, <5>2
        <5> QED  BY <5>1, <5>2
      <4>5. \A w \in work' : ~ (w.k = "children" /\ w.ep = unitEpoch' /\ w.rq = slotReq'["children"])
        BY <2>0, <3>2 DEF Stale
      <4>6. \E m \in Nat : m <= Pages /\ level' = [i \in 1..m |-> i]
        BY <4>1, <4>3, <4>4
      <4> QED  BY <4>5, <4>6 DEF PagesInOrder
    <3> QED  BY <3>1, <3>2
  <2> QED  BY <2>1, <2>3, <2>5, <2>6
<1>18. ASSUME NEW x \in work, GotoResolved(x)
     PROVE  UnitInv'
  <2> USE <1>18, <1>s DEF GotoResolved
  <2>1. CASE Stale(x)
    <3> USE <2>1
    <3>0. UNCHANGED <<nextReq, slotReq, pendingKids, level, goto, detail, dying, unitEpoch, provider, drainer, held, closingProv, screen, rootError>>
          /\ work' = work \ {x} /\ x.k = "goto"
      BY DEF Group
    <3>1. Numbered'
      BY <3>0 DEF Numbered
    <3>2. \A k \in Slot : Heard(k) <=> Heard(k)'
      BY <3>0 DEF Heard, Stale
    <3>3. RootArrives' /\ Spin'
      BY <3>0, <3>2 DEF RootArrives, Spin
    <3>4. PagesInOrder' /\ ProvidersOwned'
      BY <3>0 DEF PagesInOrder, ProvidersOwned
    <3> QED  BY <3>1, <3>3, <3>4
  <2>2. CASE ~Stale(x)
    <3> USE <2>2 DEF DropChildrenSlot
    <3>0. /\ UNCHANGED <<unitEpoch, provider, drainer, held, closingProv, screen, rootError>>
          /\ nextReq' = nextReq + 1 /\ level' = AllPages /\ ~pendingKids' /\ goto' = "none"
          /\ slotReq' = [slotReq EXCEPT !["children"] = 0, !["detail"] = nextReq]
          /\ x.k = "goto"
      BY DEF Group
    <3>w. work' = (work \ ({x} \union {w \in work : w.k = "detail"})) \union {Worker("detail", provider, 0)}
      BY DEF Group
    <3>a. Worker("detail", provider, 0).k = "detail" /\ Worker("detail", provider, 0).rq = nextReq /\ Worker("detail", provider, 0).ep = unitEpoch
      BY DEF Worker
    <3>1. Numbered'
      BY <3>0, <3>w, <3>a DEF Numbered
    <3>2. Heard("provider") <=> Heard("provider")'
      BY <3>0, <3>w, <3>a DEF Heard, Numbered
    <3>3. Heard("detail")'
      BY <3>0, <3>w, <3>a DEF Heard, Numbered
    <3>4. RootArrives'
      BY <3>0, <3>w, <3>a, <3>2 DEF RootArrives
    <3>5. ProvidersOwned'
      BY <3>0 DEF ProvidersOwned
    <3>6. Spin'
      BY <3>0, <3>3 DEF Spin
    <3>7. \A w \in work' : w.k = "children" => w.rq # slotReq'["children"]
      BY <3>0, <3>w, <3>a DEF Numbered
    <3>9. \E m \in Nat : m <= Pages /\ level' = [i \in 1..m |-> i]
      <4>1. Pages \in Nat /\ Pages <= Pages /\ level' = [i \in 1..Pages |-> i]
        BY <3>0, UnitAssumption DEF AllPages
      <4> QED  BY <4>1
    <3>8. PagesInOrder'
      BY <3>7, <3>9 DEF PagesInOrder
    <3> QED  BY <3>1, <3>4, <3>5, <3>6, <3>8
  <2> QED  BY <2>1, <2>2
<1>19. CASE UNCHANGED unitVars
  BY <1>19 DEF unitVars, Numbered, RootArrives, PagesInOrder, Spin, ProvidersOwned, Heard
<1> QED
  BY <1>1, <1>2, <1>3, <1>4, <1>5, <1>6, <1>7, <1>8, <1>9, <1>10, <1>11, <1>12, <1>13, <1>14, <1>15, <1>16, <1>17, <1>18, <1>19 DEF UnitNext

-----------------------------------------------------------------------------
(* The dialogs and the timed widgets                                       *)

DialogInv ==
    /\ scans = [run |-> scans.run, cancel |-> scans.cancel] /\ scans.run \in Nat /\ scans.cancel \in Nat
    /\ lists \in [Backends -> Nat] /\ browsing \in [Backends -> BOOLEAN]
    /\ \A b \in Backends : lists[b] = IF browsing[b] THEN 1 ELSE 0
    /\ fieldsOff \in BOOLEAN /\ scanRef \in BOOLEAN
    /\ connect = "open" => (scanRef <=> fieldsOff)
    /\ scans.run + scans.cancel > 0 => scanRef
    /\ OneConnection /\ NoOrphanScan

LEMMA DialogStart ==
  ASSUME DialogInit
  PROVE  DialogInv
<1>1. scans.run = 0 /\ scans.cancel = 0 /\ scans = [run |-> scans.run, cancel |-> scans.cancel]
  BY DEF DialogInit
<1>2. \A b \in Backends : lists[b] = 0 /\ ~browsing[b]
  BY DEF DialogInit
<1>3. lists \in [Backends -> Nat] /\ browsing \in [Backends -> BOOLEAN]
  BY DEF DialogInit
<1>4. OneConnection /\ NoOrphanScan
  BY <1>1, <1>2 DEF DialogInit, OneConnection, NoOrphanScan
<1>5. \A b \in Backends : lists[b] = IF browsing[b] THEN 1 ELSE 0
  BY <1>2
<1>6. scanRef \in BOOLEAN /\ fieldsOff \in BOOLEAN /\ ~scanRef /\ ~fieldsOff
  BY DEF DialogInit
<1>7. scans.run \in Nat /\ scans.cancel \in Nat /\ ~(scans.run + scans.cancel > 0)
  BY <1>1
<1> QED  BY <1>1, <1>3, <1>4, <1>5, <1>6, <1>7 DEF DialogInv

LEMMA DialogStep ==
  ASSUME DialogInv, DialogNext \/ UNCHANGED dialogVars
  PROVE  DialogInv'
<1> USE DEF DialogInv
<1>1. CASE UNCHANGED connectVars
  BY <1>1 DEF connectVars, OneConnection, NoOrphanScan
<1>2. CASE Submit
  <2> USE <1>2 DEF Submit, MaySubmit
  <2>1. scans.run = 0 /\ scans.cancel = 0
    OBVIOUS
  <2>2. scans' = [run |-> 1, cancel |-> 0]
    BY <2>1
  <2> QED  BY <2>1, <2>2 DEF OneConnection, NoOrphanScan
<1>3. CASE CancelScan
  <2>1. scans' = [run |-> 0, cancel |-> scans.cancel + scans.run]
    BY <1>3 DEF CancelScan, CancelledScans
  <2> QED  BY <1>3, <2>1 DEF CancelScan, OneConnection, NoOrphanScan
<1>4. CASE ScanCancelled \/ ScanFails
  <2>1. scans' = [run |-> 0, cancel |-> 0]
    BY <1>4 DEF ScanCancelled, ScanFails, OneConnection
  <2>2. scanRef' = FALSE /\ fieldsOff' = FALSE /\ UNCHANGED <<connect, browsing, lists>>
    BY <1>4 DEF ScanCancelled, ScanFails, EndScan
  <2>3. scans'.run = 0 /\ scans'.cancel = 0
    BY <2>1
  <2>4. OneConnection' /\ NoOrphanScan'
    BY <2>2, <2>3 DEF OneConnection, NoOrphanScan
  <2>5. scans' = [run |-> scans'.run, cancel |-> scans'.cancel]
    BY <2>1
  <2>6. lists' \in [Backends -> Nat] /\ browsing' \in [Backends -> BOOLEAN]
        /\ \A b \in Backends : lists'[b] = IF browsing'[b] THEN 1 ELSE 0
    BY <2>2
  <2>7. scanRef' \in BOOLEAN /\ fieldsOff' \in BOOLEAN /\ ~scanRef' /\ ~fieldsOff'
    BY <2>2
  <2>8. scans'.run \in Nat /\ scans'.cancel \in Nat /\ ~(scans'.run + scans'.cancel > 0)
    BY <2>3
  <2> QED  BY <2>4, <2>5, <2>6, <2>7, <2>8
<1>5. CASE ScanFinds
  <2>1. scans' = [run |-> 0, cancel |-> 0]
    BY <1>5 DEF ScanFinds, OneConnection
  <2> QED  BY <1>5, <2>1 DEF ScanFinds, OneConnection, NoOrphanScan
<1>6. CASE Escape
  <2>1. CASE naming
    BY <1>6, <2>1 DEF Escape, OneConnection, NoOrphanScan
  <2>2. CASE ~naming
    <3>1. scans' = [run |-> 0, cancel |-> scans.cancel + scans.run]
      BY <1>6, <2>2 DEF Escape, CancelledScans
    <3> QED  BY <1>6, <2>2, <3>1 DEF Escape, OneConnection, NoOrphanScan
  <2> QED  BY <2>1, <2>2
<1>7. ASSUME NEW show \in BOOLEAN, NameRow(show)
      PROVE  DialogInv'
  BY <1>7 DEF NameRow, OneConnection, NoOrphanScan
<1>8. ASSUME NEW b \in Backends, Browse(b)
      PROVE  DialogInv'
  <2>0. ~browsing[b] /\ ~scanRef /\ lists[b] = 0
    BY <1>8 DEF Browse, MayBrowse
  <2>1. scans.run + scans.cancel = 0 /\ lists' = [lists EXCEPT ![b] = 1] /\ browsing' = [browsing EXCEPT ![b] = TRUE]
    BY <1>8, <2>0 DEF Browse
  <2> QED  BY <1>8, <2>1 DEF Browse, OneConnection, NoOrphanScan
<1>9. ASSUME NEW b \in Backends, BrowseEnds(b)
      PROVE  DialogInv'
  <2>0. lists[b] = 1
    BY <1>9 DEF BrowseEnds
  <2>1. lists' = [lists EXCEPT ![b] = 0] /\ browsing' = [browsing EXCEPT ![b] = FALSE]
    BY <1>9, <2>0 DEF BrowseEnds
  <2> QED  BY <1>9, <2>1 DEF BrowseEnds, OneConnection, NoOrphanScan
<1>10. Verify \/ Verified \/ NotVerified \/ (\E a \in BOOLEAN : KeyEscape(a)) \/ UNCHANGED dialogVars => UNCHANGED connectVars
  BY DEF Verify, Verified, NotVerified, KeyEscape, connectVars, dialogVars
<1> QED
  BY <1>1, <1>2, <1>3, <1>4, <1>5, <1>6, <1>7, <1>8, <1>9, <1>10 DEF DialogNext

\* What the indicator knows of what it shows, and the box of what it last sent.
WidgetInv ==
    /\ op \in {"waiting", "animating", "done"}
    /\ op = "waiting" => ~label /\ ~row /\ ~rowKey /\ status # "loading"
    /\ op # "done" => (lastShown <=> status = "loading")
    /\ row => rowKey
    /\ row \in BOOLEAN /\ rowKey \in BOOLEAN /\ label \in BOOLEAN /\ current \in BOOLEAN /\ lastShown \in BOOLEAN
    /\ SpinnerLeavesNothing
    /\ sessions \in Nat /\ session \in Nat
    /\ session # 0 => typed.at = session
    /\ session = 0 => armed = 0
    /\ FilterIsTyped

LEMMA WidgetStart ==
  ASSUME WidgetInit
  PROVE  WidgetInv
BY DEF WidgetInit, WidgetInv, SpinnerLeavesNothing, FilterIsTyped, NoText

LEMMA WidgetStep ==
  ASSUME WidgetInv, WidgetNext \/ UNCHANGED widgetVars
  PROVE  WidgetInv'
<1> USE DEF WidgetInv
<1>1. CASE UNCHANGED widgetVars
  BY <1>1 DEF widgetVars, SpinnerLeavesNothing, FilterIsTyped
<1>2. CASE FilterOpens
  <2>1. UNCHANGED progressVars /\ sessions' = sessions + 1 /\ session' = sessions + 1 /\ armed' = armed
    BY <1>2 DEF FilterOpens
  <2>2. typed'.at = sessions + 1 /\ filterText'.at = sessions + 1 /\ filterText'.text = typed'.text
    BY <1>2 DEF FilterOpens
  <2> QED  BY <2>1, <2>2 DEF progressVars, SpinnerLeavesNothing, FilterIsTyped
<1>6. CASE FilterFires
  <2>1. session # 0 /\ filterText' = typed /\ armed' = 0 /\ UNCHANGED <<session, typed, sessions, progressVars>>
    BY <1>6 DEF FilterFires
  <2> QED  BY <2>1 DEF progressVars, SpinnerLeavesNothing, FilterIsTyped
<1>7. CASE FilterCloses
  <2>1. session' = 0 /\ armed' = 0 /\ filterText'.at = 0 /\ UNCHANGED <<typed, sessions, progressVars>>
    BY <1>7 DEF FilterCloses, NoText
  <2> QED  BY <2>1 DEF progressVars, SpinnerLeavesNothing, FilterIsTyped
<1>3. ASSUME NEW t \in Texts, FilterTyped(t)
      PROVE  WidgetInv'
  BY <1>3 DEF FilterTyped, progressVars, SpinnerLeavesNothing, FilterIsTyped
<1>4. CASE Tick
  BY <1>4 DEF Tick, filterVars, SpinnerLeavesNothing, FilterIsTyped
<1>8. CASE TableRendered \/ SelectionMoves
  <2>1. row' = FALSE /\ UNCHANGED <<op, ticks, label, status, lastShown, rowKey, filterVars>>
    BY <1>8 DEF TableRendered, SelectionMoves
  <2>2. current' \in BOOLEAN
    BY <1>8 DEF TableRendered, SelectionMoves
  <2> QED  BY <2>1, <2>2 DEF filterVars, SpinnerLeavesNothing, FilterIsTyped
<1>9. CASE Relabelled
  BY <1>9 DEF Relabelled, filterVars, SpinnerLeavesNothing, FilterIsTyped
<1>10. CASE ResultWritten
  BY <1>10 DEF ResultWritten, filterVars, SpinnerLeavesNothing, FilterIsTyped
<1>5. CASE OperationEnds
  BY <1>5 DEF OperationEnds, HiddenStatus, filterVars, SpinnerLeavesNothing, FilterIsTyped
<1> QED  BY <1>1, <1>2, <1>3, <1>4, <1>5, <1>6, <1>7, <1>8, <1>9, <1>10 DEF WidgetNext

LEMMA OutcomeStays ==
  ASSUME WidgetInv, WidgetNext \/ UNCHANGED widgetVars, status = "result", op' = "done", op # "done"
  PROVE  status' = "result"
BY DEF WidgetInv, WidgetNext, widgetVars, FilterOpens, FilterTyped, FilterFires, FilterCloses, progressVars, Tick,
   TableRendered, SelectionMoves, Relabelled, ResultWritten, OperationEnds, HiddenStatus

-----------------------------------------------------------------------------
(* The parts together                                                      *)

BrowserInv == BrowseInv /\ UnitInv /\ DialogInv /\ WidgetInv

LEMMA BrowserParts ==
  ASSUME [Next]_vars
  PROVE  /\ JobNext \/ UNCHANGED jobVars
         /\ BrowseNext \/ UNCHANGED browseVars
         /\ UnitNext \/ UNCHANGED unitVars
         /\ DialogNext \/ UNCHANGED dialogVars
         /\ WidgetNext \/ UNCHANGED widgetVars
BY DEF Next, vars

LEMMA BrowserInductive ==
  /\ Init => BrowserInv
  /\ BrowserInv /\ [Next]_vars => BrowserInv'
<1>1. Init => BrowserInv
  BY BrowseStart, UnitStart, DialogStart, WidgetStart DEF Init, BrowserInv
<1>2. BrowserInv /\ [Next]_vars => BrowserInv'
  BY BrowserParts, BrowseStep, UnitStep, DialogStep, WidgetStep DEF BrowserInv
<1> QED  BY <1>1, <1>2

\* A column, a folder, a detail pane or a goto that shows as loading has a worker whose result the store
\* accepts, or a refresh about to reset it; the form of the connect dialog is off exactly while its one
\* scan runs; an indicator leaves nothing behind.
THEOREM SpinnersComeToAnEnd == Spec => []LoadingEnds
<1>1. BrowserInv => LoadingEnds
  BY UnitProperties DEF BrowserInv, BrowseInv, DialogInv, WidgetInv, LoadingEnds
<1> QED  BY <1>1, BrowserInductive, PTL DEF Spec

\* Whatever arrives late: no data or selection of a repository a rescan discarded, a folder's rows are its
\* first pages once each and in order, and the filter in force is what was typed into the open box.
THEOREM ScreensShowTheirOwn == Spec => [](DiscardedStaysGone /\ RowsAreChildren /\ FilterIsTyped)
<1>1. BrowserInv => DiscardedStaysGone /\ RowsAreChildren /\ FilterIsTyped
  BY UnitProperties DEF BrowserInv, BrowseInv, WidgetInv
<1> QED  BY <1>1, BrowserInductive, PTL DEF Spec

\* No step puts a plain spinner over rows that are shown (LoadingPreserving), and none that ends an
\* operation erases its outcome (_ConditionalResetSink.hide).
THEOREM ScreensKeepRows == Spec => ScreenKeepsRows
<1>1. BrowserInv /\ [Next]_vars => [\A s \in Slots : data[s] \in {"Success", "Reloading"} => data'[s] # "Loading"]_browseVars
  BY BrowserParts, RowsStay DEF BrowserInv
<1>2. BrowserInv /\ [Next]_vars => [status = "result" /\ op' = "done" /\ op # "done" => status' = "result"]_widgetVars
  BY BrowserParts, OutcomeStays DEF BrowserInv
<1> QED  BY <1>1, <1>2, BrowserInductive, PTL DEF Spec, ScreenKeepsRows, RefreshKeepsRows, ResultStays

\* One export or full check has the process pool, no cache invalidation runs beside an export, a worker
\* reports its job once, the repository an export reads stays open, every provider of a version and every
\* scan has an owner; as long as no worker is cancelled before its first step.
THEOREM ExportsStayAlone ==
  ASSUME ~CancelUnstarted
  PROVE  Spec => []ExportsAreAlone
<1>1. Init => JobInv
  BY JobStart DEF Init
<1>2. JobInv /\ [Next]_vars => JobInv'
  BY BrowserParts, JobStep
<1>3. BrowserInv /\ JobInv => ExportsAreAlone
  BY JobProperties, UnitProperties DEF BrowserInv, BrowseInv, ExportShutsDialog, DialogInv, ExportsAreAlone
<1> QED  BY <1>1, <1>2, <1>3, BrowserInductive, PTL DEF Spec
=============================================================================
