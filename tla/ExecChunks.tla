------------------------------ MODULE ExecChunks -------------------------------
(***************************************************************************)
(* The tasks of exec_chunks (sdk/dedup/chunk_walk.py) over one window: the *)
(* dispatch loop, a task per bucket group, the helpers a group adds for    *)
(* its merged reads (BucketReader._each_run, sdk/dedup/pool/               *)
(* _bucket_reader.py), all on the permits of one semaphore, and the        *)
(* prefetch of bucket opens.                                               *)
(*                                                                         *)
(* Task <<b, 0>> is the one of bucket group b, <<b, i>> its i-th helper.   *)
(* A step is what a task does between two suspensions.  asyncio is         *)
(* external: acquire and locked() of its Semaphore, a TaskGroup that on    *)
(* the first failure cancels its tasks and its parent, a done callback     *)
(* that runs after the task ended, and a task cancelled before its first   *)
(* step, whose body, its finally included, never runs.                     *)
(***************************************************************************)
EXTENDS Integers, FiniteSets, FiniteSetsExt

CONSTANTS
    NumGroups,   \* bucket groups of the plan, which has one at least: an empty one reads nothing
    NumRuns,     \* merged reads of each group
    ReadLimits,  \* what callers pass as max_concurrent_reads
    Prefetch,    \* max_concurrent_opens > 1
    MaxFails,    \* opens and reads that may fail
    MaxCancels   \* cancellations of the caller

Groups == 1..NumGroups

ASSUME ExecChunksAssumption ==
    /\ NumGroups \in Nat \ {0} /\ ReadLimits \subseteq Nat \ {0}
    /\ NumRuns \in [Groups -> Nat \ {0}]
    /\ Prefetch \in BOOLEAN /\ MaxFails \in Nat /\ MaxCancels \in Nat

Tasks == UNION {{b} \X (0..(NumRuns[b] - 1)) : b \in Groups}
GroupTask(b) == <<b, 0>>
IsHelper(t) == t[2] # 0
HelpersOf(b) == {t \in Tasks : t[1] = b /\ IsHelper(t)}

VARIABLES
    maxReads,    \* max_concurrent_reads of the call
    main,        \* where exec_chunks is
    next,        \* the next group to dispatch or, serially, the one being read
    value,       \* Semaphore._value
    st,          \* state of each task; "raised": ended, its done callback not yet run
    cancelled,   \* tasks with a cancellation requested and not yet delivered
    run,         \* the merged read each task is at
    queue,       \* first run still in the deque of each group
    got,         \* merged reads handed over, per group
    groupFailed, \* the group's own TaskGroup has an error
    errors,      \* exec_chunks' TaskGroup has an error
    aborting,    \* it has cancelled its tasks
    interrupted, \* a cancellation of exec_chunks was requested and not yet delivered
    asked,       \* its caller has cancelled it
    prefetch,    \* the prefetch task
    outcome,     \* how exec_chunks ended
    fails, cancels

semVars   == <<main, value>>
groupVars == <<run, queue, got>>
flagVars  == <<groupFailed, errors, aborting, interrupted, asked>>
endVars   == <<prefetch, outcome>>
countVars == <<fails, cancels>>
vars == <<maxReads, semVars, next, st, cancelled, groupVars, flagVars, endVars, countVars>>

Live == {"created", "open", "read", "join"}
Over == {"none", "done"}

TypeOK ==
    /\ main \in {"start", "waiting", "granted", "join", "serial-open", "serial-read", "closing", "ended"}
    /\ next \in 1..(NumGroups + 1)
    /\ maxReads \in ReadLimits /\ value \in 0..maxReads
    /\ st \in [Tasks -> Live \cup Over \cup {"raised"}]
    /\ cancelled \subseteq Tasks
    /\ run \in [Tasks -> Nat]
    /\ queue \in [Groups -> Nat \ {0}]
    /\ got \in [Groups -> SUBSET Nat]
    /\ groupFailed \in [Groups -> BOOLEAN]
    /\ errors \in BOOLEAN /\ aborting \in BOOLEAN /\ interrupted \in BOOLEAN /\ asked \in BOOLEAN
    /\ prefetch \in {"off", "running", "cancelled", "done"}
    /\ outcome \in {"none", "ok", "failed", "cancelled"}
    /\ fails \in 0..MaxFails /\ cancels \in 0..MaxCancels

Init ==
    /\ maxReads \in ReadLimits
    /\ main = "start" /\ next = 1 /\ value = maxReads
    /\ st = [t \in Tasks |-> "none"] /\ cancelled = {}
    /\ run = [t \in Tasks |-> 0] /\ queue = [b \in Groups |-> 1] /\ got = [b \in Groups |-> {}]
    /\ groupFailed = [b \in Groups |-> FALSE]
    /\ errors = FALSE /\ aborting = FALSE /\ interrupted = FALSE /\ asked = FALSE
    /\ prefetch = "off" /\ outcome = "none" /\ fails = 0 /\ cancels = 0

-----------------------------------------------------------------------------
(* The semaphore *)

\* A waiter whose future is not cancelled.
Waiting == main = "granted" \/ (main = "waiting" /\ ~interrupted)

Locked == value = 0 \/ Waiting

Release ==
    \/ main = "waiting" /\ ~interrupted /\ main' = "granted" /\ UNCHANGED value
    \/ ~(main = "waiting" /\ ~interrupted) /\ value' = value + 1 /\ UNCHANGED main

\* A failure is one more of those the run allows.
Fail == fails < MaxFails /\ fails' = fails + 1

-----------------------------------------------------------------------------
(* exec_chunks up to its first suspension *)

Serial == maxReads <= 1 \/ NumGroups <= 1

\* The finally clause: a prefetch still running is cancelled and waited for.
Finally(how) ==
    /\ outcome' = how
    /\ \/ prefetch = "running" /\ prefetch' = "cancelled" /\ main' = "closing"
       \/ prefetch # "running" /\ main' = "ended" /\ UNCHANGED prefetch

\* Mutant: creates every task and lets each find a permit.
DispatchAll(v) ==
    /\ st' = [t \in Tasks |-> IF ~IsHelper(t) /\ t[1] >= next THEN "created" ELSE st[t]]
    /\ next' = NumGroups + 1 /\ value' = Max({v - (NumGroups - next + 1), 0}) /\ main' = "join"

\* How many groups v permits are enough for.
NumTasks(v) == Min({v, NumGroups - next + 1})

\* Mutant: the loop ends one group early.
DispatchShort(v) ==
    /\ st' = [t \in Tasks |->
                 IF ~IsHelper(t) /\ t[1] >= next /\ t[1] < next + NumTasks(v) THEN "created" ELSE st[t]]
    /\ next' = next + NumTasks(v) /\ value' = v - NumTasks(v)
    /\ main' = IF next + NumTasks(v) >= NumGroups THEN "join" ELSE "waiting"

\* The dispatch loop: a task for each of the v permits, until it waits or has no group left.
Dispatch(v) ==
    /\ st' = [t \in Tasks |->
                 IF ~IsHelper(t) /\ t[1] >= next /\ t[1] < next + NumTasks(v) THEN "created" ELSE st[t]]
    /\ next' = next + NumTasks(v) /\ value' = v - NumTasks(v)
    /\ main' = IF next + NumTasks(v) > NumGroups THEN "join" ELSE "waiting"

Start ==
    /\ main = "start"
    /\ prefetch' = IF Prefetch /\ NumGroups > 1 THEN "running" ELSE "off"
    /\ \/ ~Serial /\ Dispatch(value)
       \/ Serial /\ main' = "serial-open" /\ UNCHANGED <<st, next, value>>
    /\ UNCHANGED <<cancelled, groupVars, flagVars, outcome, countVars>>

Wake ==
    /\ main = "granted" /\ ~interrupted
    /\ Dispatch(value + 1)
    /\ UNCHANGED <<cancelled, groupVars, flagVars, endVars, countVars>>

-----------------------------------------------------------------------------
(* A bucket group's task and its helpers *)

TaskStarts(b) ==
    /\ st[GroupTask(b)] = "created" /\ GroupTask(b) \notin cancelled
    /\ st' = [st EXCEPT ![GroupTask(b)] = "open"]
    /\ UNCHANGED <<semVars, next, cancelled, groupVars, flagVars, endVars, countVars>>

\* Mutant: a helper for every further read, on permits nobody counted.
HelpersForAll(b) == NumRuns[b] - 1

\* Helpers on the permits free now, and only if nobody waits for one.
NumHelpers(b) == IF Locked THEN 0 ELSE Min({value, NumRuns[b] - 1})

\* The bucket is open: the helpers are created, and the task takes the first read.
OpenDone(b) ==
    /\ st[GroupTask(b)] = "open" /\ GroupTask(b) \notin cancelled
    /\ st' = [t \in Tasks |-> IF t = GroupTask(b) THEN "read"
                              ELSE IF t[1] = b /\ t[2] <= NumHelpers(b) THEN "created" ELSE st[t]]
    /\ value' = value - NumHelpers(b)
    /\ run' = [run EXCEPT ![GroupTask(b)] = 1] /\ queue' = [queue EXCEPT ![b] = 2]
    /\ UNCHANGED <<main, next, cancelled, got, flagVars, endVars, countVars>>

OpenFails(b) ==
    /\ st[GroupTask(b)] = "open" /\ GroupTask(b) \notin cancelled /\ Fail
    /\ st' = [st EXCEPT ![GroupTask(b)] = "raised"] /\ Release
    /\ UNCHANGED <<next, cancelled, groupVars, flagVars, endVars, cancels>>

\* Mutant: the read stays in the deque.
TakeRunAgain(t) ==
    /\ queue[t[1]] <= NumRuns[t[1]]
    /\ st' = [st EXCEPT ![t] = "read"] /\ run' = [run EXCEPT ![t] = queue[t[1]]]
    /\ UNCHANGED <<queue, semVars>>

\* _drain takes the next read of the group.
TakeRun(t) ==
    /\ queue[t[1]] <= NumRuns[t[1]]
    /\ st' = [st EXCEPT ![t] = "read"] /\ run' = [run EXCEPT ![t] = queue[t[1]]]
    /\ queue' = [queue EXCEPT ![t[1]] = @ + 1]
    /\ UNCHANGED semVars

\* The group's TaskGroup has no task left.
HelpersOver(b) == \A t \in HelpersOf(b) : st[t] \in Over

\* Mutant: a helper that finds nothing to read keeps its permit.
DrainedHolding(t) ==
    /\ queue[t[1]] > NumRuns[t[1]]
    /\ \/ IsHelper(t) /\ st' = [st EXCEPT ![t] = "done"] /\ UNCHANGED semVars
       \/ ~IsHelper(t) /\ HelpersOver(t[1]) /\ st' = [st EXCEPT ![t] = "done"] /\ Release
       \/ ~IsHelper(t) /\ ~HelpersOver(t[1]) /\ st' = [st EXCEPT ![t] = "join"] /\ UNCHANGED semVars
    /\ UNCHANGED <<run, queue>>

\* _drain finds no read: a helper ends, a group's task ends or waits for its helpers.
Drained(t) ==
    /\ queue[t[1]] > NumRuns[t[1]]
    /\ \/ (IsHelper(t) \/ HelpersOver(t[1])) /\ st' = [st EXCEPT ![t] = "done"] /\ Release
       \/ ~IsHelper(t) /\ ~HelpersOver(t[1]) /\ st' = [st EXCEPT ![t] = "join"] /\ UNCHANGED semVars
    /\ UNCHANGED <<run, queue>>

HelperStarts(t) ==
    /\ IsHelper(t) /\ st[t] = "created" /\ t \notin cancelled
    /\ TakeRun(t) \/ Drained(t)
    /\ UNCHANGED <<next, cancelled, got, flagVars, endVars, countVars>>

\* A read's blocks were all handed over.
ReadDone(t) ==
    /\ st[t] = "read" /\ t \notin cancelled
    /\ got' = [got EXCEPT ![t[1]] = @ \cup {run[t]}]
    /\ TakeRun(t) \/ Drained(t)
    /\ UNCHANGED <<next, cancelled, flagVars, endVars, countVars>>

\* A read, a decode or a write fails.  A group's task first ends its helpers.
ReadFails(t) ==
    /\ st[t] = "read" /\ t \notin cancelled /\ Fail
    /\ \/ /\ IsHelper(t) \/ HelpersOver(t[1])
          /\ st' = [st EXCEPT ![t] = "raised"] /\ Release /\ UNCHANGED <<cancelled, groupFailed>>
       \/ /\ ~IsHelper(t) /\ ~HelpersOver(t[1])
          /\ st' = [st EXCEPT ![t] = "join"] /\ UNCHANGED semVars
          /\ cancelled' = cancelled \cup {h \in HelpersOf(t[1]) : st[h] \in Live}
          /\ groupFailed' = [groupFailed EXCEPT ![t[1]] = TRUE]
    /\ UNCHANGED <<next, groupVars, errors, aborting, interrupted, asked, endVars, cancels>>

\* The done callback of a failed helper: its TaskGroup cancels the others and the parent.
HelperReaped(t) ==
    /\ IsHelper(t) /\ st[t] = "raised"
    /\ st' = [st EXCEPT ![t] = "done"]
    /\ groupFailed' = [groupFailed EXCEPT ![t[1]] = TRUE]
    /\ cancelled' = cancelled \cup {x \in HelpersOf(t[1]) \cup {GroupTask(t[1])} : st[x] \in Live}
    /\ UNCHANGED <<semVars, next, groupVars, errors, aborting, interrupted, asked, endVars, countVars>>

\* The group's TaskGroup is over; its errors, if any, are the task's.
Joined(b) ==
    /\ st[GroupTask(b)] = "join" /\ GroupTask(b) \notin cancelled /\ HelpersOver(b)
    /\ st' = [st EXCEPT ![GroupTask(b)] = IF groupFailed[b] THEN "raised" ELSE "done"]
    /\ Release
    /\ UNCHANGED <<next, cancelled, groupVars, flagVars, endVars, countVars>>

\* Mutant: a failed group leaves the dispatch loop waiting for a permit.
TaskReapedQuietly(b) ==
    /\ st[GroupTask(b)] = "raised"
    /\ st' = [st EXCEPT ![GroupTask(b)] = "done"]
    /\ errors' = TRUE /\ aborting' = TRUE
    /\ cancelled' = cancelled \cup {t \in Tasks : ~IsHelper(t) /\ st[t] \in Live}
    /\ UNCHANGED <<semVars, next, groupVars, groupFailed, interrupted, asked, endVars, countVars>>

\* The done callback of a failed group: exec_chunks' TaskGroup cancels the rest and its parent.
TaskReaped(b) ==
    /\ st[GroupTask(b)] = "raised"
    /\ st' = [st EXCEPT ![GroupTask(b)] = "done"]
    /\ errors' = TRUE /\ aborting' = TRUE
    /\ \/ aborting /\ UNCHANGED <<cancelled, interrupted>>
       \/ /\ ~aborting /\ interrupted' = TRUE
          /\ cancelled' = cancelled \cup {t \in Tasks : ~IsHelper(t) /\ st[t] \in Live}
    /\ UNCHANGED <<semVars, next, groupVars, groupFailed, asked, endVars, countVars>>

-----------------------------------------------------------------------------
(* Cancellations delivered to tasks *)

\* Before its first step: nothing of the task runs and its permit is not released.
CancelCreated(t) ==
    /\ t \in cancelled /\ st[t] = "created"
    /\ st' = [st EXCEPT ![t] = "done"] /\ cancelled' = cancelled \ {t}
    /\ UNCHANGED <<semVars, next, groupVars, flagVars, endVars, countVars>>

\* At an open or a read, with no helper to wait for.
CancelAtOnce(t) ==
    /\ t \in cancelled /\ st[t] \in {"open", "read"}
    /\ IsHelper(t) \/ HelpersOver(t[1])
    /\ st' = [st EXCEPT ![t] = IF ~IsHelper(t) /\ groupFailed[t[1]] THEN "raised" ELSE "done"]
    /\ cancelled' = cancelled \ {t} /\ Release
    /\ UNCHANGED <<next, groupVars, flagVars, endVars, countVars>>

\* A group's task passes it on to its helpers and waits for them.
CancelGroup(t) ==
    /\ t \in cancelled /\ ~IsHelper(t)
    /\ st[t] = "join" \/ (st[t] = "read" /\ ~HelpersOver(t[1]))
    /\ st' = [st EXCEPT ![t] = "join"]
    /\ cancelled' = (cancelled \ {t}) \cup {h \in HelpersOf(t[1]) : st[h] \in Live}
    /\ UNCHANGED <<semVars, next, groupVars, flagVars, endVars, countVars>>

-----------------------------------------------------------------------------
(* The end of exec_chunks *)

\* Its caller cancels it.
Cancel ==
    /\ main \notin {"start", "ended"} /\ cancels < MaxCancels
    /\ cancels' = cancels + 1 /\ interrupted' = TRUE /\ asked' = TRUE
    /\ UNCHANGED <<semVars, next, st, cancelled, groupVars, groupFailed, errors, aborting, endVars,
                   fails, maxReads>>

\* The cancellation reaches the TaskGroup, in acquire or in its exit; a granted permit goes back.
Interrupted ==
    /\ interrupted /\ main \in {"waiting", "granted", "join"}
    /\ interrupted' = FALSE /\ aborting' = TRUE /\ main' = "join"
    /\ value' = IF main = "granted" THEN value + 1 ELSE value
    /\ cancelled' = IF aborting THEN cancelled
                    ELSE cancelled \cup {t \in Tasks : ~IsHelper(t) /\ st[t] \in Live}
    /\ UNCHANGED <<next, st, groupVars, groupFailed, errors, asked, endVars, countVars>>

\* Mutant: a failure does not wait for the other tasks.
AllOverOrFailed == errors \/ \A b \in Groups : st[GroupTask(b)] \in Over

AllOver == \A b \in Groups : st[GroupTask(b)] \in Over

\* Mutant: whatever ended the group is reported as a cancellation.
ResultAborted == IF aborting THEN "cancelled" ELSE "ok"

\* A failure comes before a cancellation; first_failure picks it from the exception group.
Result == IF errors THEN "failed" ELSE IF asked THEN "cancelled" ELSE "ok"

\* With both, newer asyncio cancels the next await as well.
JoinedAll ==
    /\ main = "join" /\ ~interrupted /\ AllOver
    /\ Finally(Result)
    /\ interrupted' \in (IF errors /\ asked THEN BOOLEAN ELSE {FALSE})
    /\ UNCHANGED <<value, next, st, cancelled, groupVars, groupFailed, errors, aborting, asked,
                   countVars>>

PrefetchEnds ==
    /\ prefetch \in {"running", "cancelled"} /\ prefetch' = "done"
    /\ UNCHANGED <<maxReads, semVars, next, st, cancelled, groupVars, flagVars, outcome, countVars>>

\* asyncio.wait returns, or is cancelled itself.
Closes ==
    /\ main = "closing" /\ main' = "ended"
    /\ \/ prefetch = "done" /\ ~interrupted /\ UNCHANGED <<outcome, interrupted>>
       \/ interrupted /\ outcome' = "cancelled" /\ interrupted' = FALSE
    /\ UNCHANGED <<value, next, st, cancelled, groupVars, groupFailed, errors, aborting, asked,
                   prefetch, countVars>>

-----------------------------------------------------------------------------
(* The serial path: no semaphore, no tasks *)

SerialOpen ==
    /\ main = "serial-open" /\ ~interrupted /\ main' = "serial-read"
    /\ UNCHANGED <<value, next, st, cancelled, groupVars, flagVars, endVars, countVars>>

\* Mutant: the last read of a group is left out.
SerialReadShort ==
    /\ main = "serial-read" /\ ~interrupted
    /\ got' = [got EXCEPT ![next] = @ \cup {queue[next]}]
    /\ queue' = [queue EXCEPT ![next] = @ + 1]
    /\ \/ queue[next] < NumRuns[next] - 1 /\ UNCHANGED <<main, next, endVars>>
       \/ /\ queue[next] >= NumRuns[next] - 1 /\ next' = next + 1
          /\ \/ next < NumGroups /\ main' = "serial-open" /\ UNCHANGED endVars
             \/ next = NumGroups /\ Finally("ok")
    /\ UNCHANGED <<value, st, cancelled, run, flagVars, countVars>>

SerialRead ==
    /\ main = "serial-read" /\ ~interrupted
    /\ got' = [got EXCEPT ![next] = @ \cup {queue[next]}]
    /\ queue' = [queue EXCEPT ![next] = @ + 1]
    /\ \/ queue[next] < NumRuns[next] /\ UNCHANGED <<main, next, endVars>>
       \/ /\ queue[next] >= NumRuns[next] /\ next' = next + 1
          /\ \/ next < NumGroups /\ main' = "serial-open" /\ UNCHANGED endVars
             \/ next = NumGroups /\ Finally("ok")
    /\ UNCHANGED <<value, st, cancelled, run, flagVars, countVars>>

SerialFails ==
    /\ main \in {"serial-open", "serial-read"} /\ ~interrupted /\ Fail /\ Finally("failed")
    /\ UNCHANGED <<value, next, st, cancelled, groupVars, flagVars, cancels>>

SerialInterrupted ==
    /\ main \in {"serial-open", "serial-read"} /\ interrupted
    /\ interrupted' = FALSE /\ Finally("cancelled")
    /\ UNCHANGED <<value, next, st, cancelled, groupVars, groupFailed, errors, aborting, asked,
                   countVars>>

-----------------------------------------------------------------------------
Ended == main = "ended" /\ prefetch \in {"off", "done"} /\ UNCHANGED vars

GroupStep(b) ==
    /\ TaskStarts(b) \/ OpenDone(b) \/ OpenFails(b) \/ Joined(b) \/ TaskReaped(b)
    /\ UNCHANGED maxReads

TaskStep(t) ==
    /\ \/ HelperStarts(t) \/ ReadDone(t) \/ ReadFails(t) \/ HelperReaped(t)
       \/ CancelCreated(t) \/ CancelAtOnce(t) \/ CancelGroup(t)
    /\ UNCHANGED maxReads

MainStep ==
    /\ \/ Start \/ Wake \/ Interrupted \/ JoinedAll \/ Closes
       \/ SerialOpen \/ SerialRead \/ SerialFails \/ SerialInterrupted
    /\ UNCHANGED maxReads

Next ==
    \/ MainStep \/ PrefetchEnds \/ Cancel \/ Ended
    \/ \E b \in Groups : GroupStep(b)
    \/ \E t \in Tasks : TaskStep(t)

Spec == Init /\ [][Next]_vars

\* The event loop runs every ready task, and opens, reads and writes return or raise.
FairSpec ==
    /\ Spec /\ WF_vars(MainStep) /\ WF_vars(PrefetchEnds)
    /\ \A b \in Groups : WF_vars(GroupStep(b))
    /\ \A t \in Tasks : WF_vars(TaskStep(t))

-----------------------------------------------------------------------------
(* Properties *)

\* Tasks that run on a permit.
Holding == {t \in Tasks : st[t] \in Live}
Granted == IF main = "granted" THEN 1 ELSE 0

\* "in-flight reads never exceed max_concurrent_reads" (chunk_walk.py:625): groups and their
\* helpers together never run on more than max_concurrent_reads permits.
ReadsBounded == Cardinality(Holding) + Granted <= maxReads

\* While nothing failed and nothing was cancelled, every permit is free, on its way to the
\* dispatch loop or held by one task: none is lost, which would slow the export down for good.
PermitsConserved ==
    cancelled = {} /\ fails = 0 /\ ~asked =>
        value + Cardinality(Holding) + Granted = maxReads

\* A window that ends without an exception has read every merged run of every group.
OkIsComplete == outcome = "ok" => \A b \in Groups : got[b] = 1..NumRuns[b]

\* No two tasks ever read the same run, and no run is read again: a chunk is written once.
ReadOnce ==
    \A t \in Tasks : st[t] = "read" =>
        /\ run[t] \notin got[t[1]]
        /\ \A u \in Tasks : u # t /\ u[1] = t[1] /\ st[u] = "read" => run[u] # run[t]

\* When exec_chunks is over, so are its tasks: nothing writes to a sink that is committed or
\* aborted next.  (The prefetch, which writes nothing, may still be unwinding.)
NothingRunsOn ==
    main = "ended" => Holding = {} /\ (\A t \in Tasks : st[t] # "raised") /\ prefetch # "running"

\* A failure is reported as one, never as a cancellation nobody asked for, nor as success.
FailureSurfaces ==
    main = "ended" =>
        /\ outcome = "ok" => fails = 0
        /\ outcome = "cancelled" => asked
        /\ outcome = "failed" => fails > 0

\* A window tells the truth about itself: it is read completely, each run once and on permits that come
\* back, or its failure is reported.
WindowIsSound == TypeOK /\ PermitsConserved /\ ReadOnce /\ OkIsComplete /\ FailureSurfaces

\* A window ends, whatever fails or is cancelled: nobody waits for a permit for good.
WindowEnds == <>(main = "ended")
=============================================================================
