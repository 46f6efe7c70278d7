---------------------------- MODULE BrowserJobs ----------------------------
(***************************************************************************)
(* The browser's app-level store (browser/core/app, runtime/app_effects):  *)
(* the export job registry with its one slot, the export workers, the full *)
(* verification of DiagnosticsScreen that excludes them, and the LoadGate  *)
(* an export holds shared while a cache invalidation needs it alone.       *)
(*                                                                         *)
(* A job is its number; model.jobs keeps insertion order, which is the     *)
(* order of the numbers.  A dispatch runs update and performs its commands *)
(* before it returns, so each action is one dispatch.                      *)
(***************************************************************************)
EXTENDS Integers, FiniteSets

CONSTANTS
    MaxJobs,        \* bound: exports started
    MaxVerifies,    \* bound: full verifications started
    Invalidators,   \* tasks that invalidate caches through the gate, and how
    MaxReloads,     \* often in all: without end they would keep every load out
    CancelUnstarted \* whether a worker may be cancelled before its first step

ASSUME JobsAssumption == MaxJobs \in Nat

Jobs == 1..MaxJobs

VARIABLES
    job,        \* status of each job: none, QUEUED, RUNNING, CANCELLING, or recorded in recent
    nextJob,    \* model.next_job_id
    verifyApp,  \* model.verify_full_running
    verifies,   \* full verifications started so far
    worker,     \* the export worker of each job
    reports,    \* ExportFinished dispatched per job
    verifyPc,   \* DiagnosticsScreen: idle, quick or full check running
    inv,        \* each invalidation: idle, waiting for or holding the gate
    reloads,    \* invalidations begun
    appClosed   \* the store was closed: dispatch is a no-op

jobVars == <<job, nextJob, verifyApp, verifies, worker, reports, verifyPc, inv, reloads, appClosed>>

JobInit ==
    /\ job = [j \in Jobs |-> "none"]
    /\ nextJob = 1
    /\ verifyApp = FALSE
    /\ verifies = 0
    /\ worker = [j \in Jobs |-> "none"]
    /\ reports = [j \in Jobs |-> 0]
    /\ verifyPc = "idle"
    /\ inv = [i \in Invalidators |-> "idle"]
    /\ reloads = 0
    /\ appClosed = FALSE

-----------------------------------------------------------------------------
(* The model                                                               *)

\* jobs_occupy_slot
Occupied(jobs) == \E j \in Jobs : jobs[j] \in {"running", "cancelling"}

Queued(jobs) == {j \in Jobs : jobs[j] = "queued"}

\* Mutant: nothing is promoted.
PromoteNone(jobs, workers) == job' = jobs /\ worker' = workers

\* _promote_next_queued: the earliest QUEUED job is RUNNING and its worker
\* starts; nothing changes when none is queued.
PromoteNext(jobs, workers) ==
    IF Queued(jobs) = {} THEN job' = jobs /\ worker' = workers
    ELSE LET j == CHOOSE j \in Queued(jobs) : \A k \in Queued(jobs) : j <= k
         IN job' = [jobs EXCEPT ![j] = "running"] /\ worker' = [workers EXCEPT ![j] = "start"]

\* What makes a new export wait.
Blocked == Occupied(job) \/ verifyApp

\* StartExport with a destination: QUEUED, or RUNNING at once.  The refusal of
\* an empty destination changes nothing.
StartExport ==
    /\ ~appClosed
    /\ nextJob \in Jobs
    /\ job' = [job EXCEPT ![nextJob] = IF Blocked THEN "queued" ELSE "running"]
    /\ worker' = IF Blocked THEN worker ELSE [worker EXCEPT ![nextJob] = "start"]
    /\ nextJob' = nextJob + 1
    /\ UNCHANGED <<verifyApp, verifies, reports, verifyPc, inv, reloads, appClosed>>

\* Workers that a cancel of their group interrupts.
Cancellable == {"gate", "export", "wrapup"} \cup (IF CancelUnstarted THEN {"start"} ELSE {})

\* A cancelled worker wraps up, unless it never took its first step.
Interrupted(w) == IF w = "start" THEN "lost" ELSE IF w \in Cancellable THEN "wrapup" ELSE w

\* CancelJobRequested (ExportScreen, WorklistScreen): a queued job is removed
\* here, since no worker will report it; another one's group is cancelled.
CancelJob(j) ==
    /\ ~appClosed
    /\ job[j] \in {"queued", "running", "cancelling"}
    /\ IF job[j] = "queued"
       THEN /\ job' = [job EXCEPT ![j] = "finished"]
            /\ UNCHANGED worker
       ELSE /\ worker[j] \in Cancellable
            /\ job' = [job EXCEPT ![j] = "cancelling"]
            /\ worker' = [worker EXCEPT ![j] = Interrupted(@)]
    /\ UNCHANGED <<nextJob, verifyApp, verifies, reports, verifyPc, inv, reloads, appClosed>>

-----------------------------------------------------------------------------
(* LoadGate                                                                *)

GateHolders == {j \in Jobs : worker[j] = "export"}
Pending     == {i \in Invalidators : inv[i] # "idle"}

\* shared() is entered when no invalidation waits or holds.
MayShare == Pending = {}

\* exclusive() is entered when no load holds and no other invalidation runs.
MayExclude(i) == GateHolders = {} /\ \A k \in Invalidators : inv[k] # "hold"

InvalidateBegins(i) ==
    /\ inv[i] = "idle" /\ ~appClosed
    /\ reloads < MaxReloads
    /\ reloads' = reloads + 1
    /\ inv' = [inv EXCEPT ![i] = "wait"]
    /\ UNCHANGED <<job, nextJob, verifyApp, verifies, worker, reports, verifyPc, appClosed>>

InvalidateRuns(i) ==
    /\ inv[i] = "wait"
    /\ MayExclude(i)
    /\ inv' = [inv EXCEPT ![i] = "hold"]
    /\ UNCHANGED <<job, nextJob, verifyApp, verifies, worker, reports, verifyPc, reloads, appClosed>>

\* The invalidation is done, or was cancelled while it waited.
InvalidateEnds(i) ==
    /\ inv[i] \in {"wait", "hold"}
    /\ inv' = [inv EXCEPT ![i] = "idle"]
    /\ UNCHANGED <<job, nextJob, verifyApp, verifies, worker, reports, verifyPc, reloads, appClosed>>

-----------------------------------------------------------------------------
(* The export worker                                                       *)

WorkerStarts(j) ==
    /\ worker[j] = "start"
    /\ worker' = [worker EXCEPT ![j] = "gate"]
    /\ UNCHANGED <<job, nextJob, verifyApp, verifies, reports, verifyPc, inv, reloads, appClosed>>

WorkerEntersGate(j) ==
    /\ worker[j] = "gate"
    /\ MayShare
    /\ worker' = [worker EXCEPT ![j] = "export"]
    /\ UNCHANGED <<job, nextJob, verifyApp, verifies, reports, verifyPc, inv, reloads, appClosed>>

\* The export raised: out-of-space cleanup may take a while.
WorkerFails(j) ==
    /\ worker[j] = "export"
    /\ worker' = [worker EXCEPT ![j] = "wrapup"]
    /\ UNCHANGED <<job, nextJob, verifyApp, verifies, reports, verifyPc, inv, reloads, appClosed>>

\* ExportFinished: the job leaves the registry for recent and the next queued
\* one starts.  A closed store drops the message.
WorkerReports(j) ==
    /\ worker[j] \in {"export", "wrapup"}
    /\ reports' = [reports EXCEPT ![j] = @ + 1]
    /\ IF appClosed THEN job' = job /\ worker' = [worker EXCEPT ![j] = "over"]
       ELSE PromoteNext([job EXCEPT ![j] = "finished"], [worker EXCEPT ![j] = "over"])
    /\ UNCHANGED <<nextJob, verifyApp, verifies, verifyPc, inv, reloads, appClosed>>

-----------------------------------------------------------------------------
(* DiagnosticsScreen                                                       *)

\* on_mount: the quick check.
QuickBegins ==
    /\ verifyPc = "idle" /\ ~appClosed
    /\ verifyPc' = "quick"
    /\ UNCHANGED <<job, nextJob, verifyApp, verifies, worker, reports, inv, reloads, appClosed>>

QuickEnds ==
    /\ verifyPc = "quick"
    /\ verifyPc' = "idle"
    /\ UNCHANGED <<job, nextJob, verifyApp, verifies, worker, reports, inv, reloads, appClosed>>

\* action_run_full: refused while a check runs on this screen, another full
\* check runs, or an export holds the slot.
MayRunFull == verifyPc = "idle" /\ ~verifyApp /\ ~Occupied(job)

FullBegins ==
    /\ MayRunFull
    /\ ~appClosed
    /\ verifies < MaxVerifies
    /\ verifies' = verifies + 1
    /\ verifyApp' = TRUE
    /\ verifyPc' = "full"
    /\ UNCHANGED <<job, nextJob, worker, reports, inv, reloads, appClosed>>

\* The check is over, failed or cancelled with its screen: VerifyFullFinished
\* frees the slot for the first queued export.
FullEnds ==
    /\ verifyPc = "full"
    /\ verifyPc' = "idle"
    /\ IF appClosed THEN UNCHANGED <<job, worker, verifyApp>>
       ELSE verifyApp' = FALSE /\ PromoteNext(job, worker)
    /\ UNCHANGED <<nextJob, verifies, reports, inv, reloads, appClosed>>

-----------------------------------------------------------------------------
(* Quitting                                                                *)

\* App.on_unmount: the store is closed first, then every job's group cancelled.
Quit ==
    /\ ~appClosed
    /\ appClosed' = TRUE
    /\ worker' = [j \in Jobs |-> IF worker[j] \in Cancellable THEN Interrupted(worker[j]) ELSE worker[j]]
    /\ UNCHANGED <<job, nextJob, verifyApp, verifies, reports, verifyPc, inv, reloads>>

JobNext ==
    \/ StartExport \/ Quit \/ QuickBegins \/ QuickEnds \/ FullBegins \/ FullEnds
    \/ \E j \in Jobs : CancelJob(j) \/ WorkerStarts(j) \/ WorkerEntersGate(j) \/ WorkerFails(j) \/ WorkerReports(j)
    \/ \E i \in Invalidators : InvalidateBegins(i) \/ InvalidateRuns(i) \/ InvalidateEnds(i)

\* Workers, checks and invalidations that run go on; releasing the gate
\* wakes its waiters.
JobFairness ==
    /\ \A j \in Jobs : /\ WF_jobVars(WorkerStarts(j)) /\ WF_jobVars(WorkerReports(j))
                       /\ WF_jobVars(WorkerEntersGate(j))
    /\ \A i \in Invalidators : WF_jobVars(InvalidateEnds(i))
    /\ WF_jobVars(FullEnds)

-----------------------------------------------------------------------------
(* Properties                                                              *)

\* One process pool at a time: at most one export holds the slot, and none
\* does while a full verification runs.
OnePoolAtATime ==
    /\ \A j, k \in Jobs : job[j] \in {"running", "cancelling"} /\ job[k] \in {"running", "cancelling"} => j = k
    /\ ~(verifyPc = "full" /\ Occupied(job))

\* An invalidation runs alone: no export reads through the connections it
\* replaces.
InvalidationRunsAlone ==
    \A i \in Invalidators : inv[i] = "hold" => GateHolders = {} /\ \A k \in Invalidators \ {i} : inv[k] # "hold"

\* A worker reports its job exactly once, and a job that holds the slot has
\* one that will.
ReportedOnce ==
    \A j \in Jobs :
        /\ reports[j] <= 1
        /\ job[j] \in {"running", "cancelling"} /\ ~appClosed => worker[j] \in {"start", "gate", "export", "wrapup"}

\* Every export asked for ends: run, failed or cancelled, queued or not.
JobsEnd == \A j \in Jobs : job[j] \in {"queued", "running", "cancelling"} ~> (job[j] = "finished" \/ appClosed)

=============================================================================
