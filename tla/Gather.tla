------------------------------- MODULE Gather --------------------------------
(***************************************************************************)
(* bounded_gather, bounded_gather_first_error and dispatch_to_pool         *)
(* (concurrency.py): items run at most MaxConcurrent at once.  The items   *)
(* in GatherFails raise.  "group" lets the first failure cancel the rest,  *)
(* "first_error" runs on as a serial loop would fail.                      *)
(***************************************************************************)
EXTENDS Integers, FiniteSets, FiniteSetsExt

CONSTANTS GatherItems, MaxConcurrent

ASSUME GatherAssumption == GatherItems \in Nat /\ MaxConcurrent \in Nat \ {0}

VARIABLES mode, bad, item, failures, raised

gatherVars == <<mode, bad, item, failures, raised>>

Items == 1..GatherItems
NoFailure == 0
Running == {i \in Items : item[i] = "run"}

GatherInit ==
    /\ mode \in {"group", "first_error"} /\ bad \in SUBSET Items
    /\ item = [i \in Items |-> "wait"] /\ failures = {} /\ raised = NoFailure

\* run: an item after a failed one is not started.
Skipped(i) == mode = "first_error" /\ failures # {} /\ Min(failures) < i

\* The semaphore is granted in the order the tasks were made.
ItemStarts(i) ==
    /\ raised = NoFailure /\ item[i] = "wait" /\ \A j \in 1..i - 1 : item[j] # "wait"
    /\ Cardinality(Running) < MaxConcurrent
    /\ item' = [item EXCEPT ![i] = IF Skipped(i) THEN "skipped" ELSE "run"]
    /\ UNCHANGED <<mode, bad, failures, raised>>

ItemReturns(i) ==
    /\ raised = NoFailure /\ item[i] = "run" /\ i \notin bad
    /\ item' = [item EXCEPT ![i] = "ok"] /\ UNCHANGED <<mode, bad, failures, raised>>

\* A failure cancels the others, or is kept until all have ended.
ItemFails(i) ==
    /\ raised = NoFailure /\ item[i] = "run" /\ i \in bad
    /\ failures' = failures \union {i}
    /\ IF mode = "group"
       THEN /\ item' = [j \in Items |-> IF j = i THEN "failed" ELSE IF item[j] \in {"run", "wait"} THEN "cancelled" ELSE item[j]]
            /\ raised' = i
       ELSE item' = [item EXCEPT ![i] = "failed"] /\ UNCHANGED raised
    /\ UNCHANGED <<mode, bad>>

\* first_failure: all have ended, the earliest failure is raised.
GatherRaises ==
    /\ raised = NoFailure /\ mode = "first_error" /\ failures # {}
    /\ \A i \in Items : item[i] \notin {"run", "wait"}
    /\ raised' = Min(failures) /\ UNCHANGED <<mode, bad, item, failures>>

GatherNext == GatherRaises \/ \E i \in Items : ItemStarts(i) \/ ItemReturns(i) \/ ItemFails(i)

\* A first_error gather fails as a serial loop would: with the earliest failing item, after everything
\* before it ran, and nothing still running; no more than MaxConcurrent run at once.
GatherIsSerial ==
    /\ Cardinality(Running) <= MaxConcurrent
    /\ mode = "first_error" /\ raised # NoFailure =>
          raised = Min(bad) /\ Running = {} /\ \A j \in 1..raised - 1 : item[j] = "ok"
    /\ (\A i \in Items : item[i] \notin {"run", "wait"}) /\ failures = {} => bad = {} /\ \A i \in Items : item[i] = "ok"
=============================================================================
