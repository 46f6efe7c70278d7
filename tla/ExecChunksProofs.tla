--------------------------- MODULE ExecChunksProofs ---------------------------
(***************************************************************************)
(* Proofs about ExecChunks for every number of bucket groups, of merged    *)
(* reads, of permits, failures and cancellations: type correctness, the    *)
(* bound on what runs at once, that nothing runs on when exec_chunks is    *)
(* over, and that a window is read completely or its failure is reported.  *)
(***************************************************************************)
EXTENDS ExecChunks, TLAPS, FiniteSetTheorems

-----------------------------------------------------------------------------
(* Facts about the operators *)

\* The minimum of two integers is one of them and at most each.
LEMMA MinOfTwo ==
  ASSUME NEW a \in Int, NEW b \in Int
  PROVE  Min({a, b}) \in {a, b} /\ Min({a, b}) <= a /\ Min({a, b}) <= b
<1>1. \E x \in {a, b} : \A y \in {a, b} : x =< y
  OBVIOUS
<1> QED  BY <1>1 DEF Min

\* Arithmetic of a count c + v + g that stays within m when n move from v + g to c.
LEMMA CountsTaken ==
  \A v, c, g, w, d, h, n, m \in Nat :
      d <= c + n /\ w + h + n <= v + g /\ v + c + g <= m => w + d + h <= m /\ w <= m
  OBVIOUS

\* The group tasks of n groups in a row are n.
LEMMA GroupTasksCount ==
  ASSUME NEW a \in Nat, NEW n \in Nat
  PROVE  /\ IsFiniteSet({GroupTask(i) : i \in a..(a + n - 1)})
         /\ Cardinality({GroupTask(i) : i \in a..(a + n - 1)}) = n
<1> DEFINE S == a..(a + n - 1)
           T == {GroupTask(i) : i \in S}
           f == [i \in S |-> GroupTask(i)]
<1>1. IsFiniteSet(S) /\ Cardinality(S) = n
  BY FS_Interval
<1>2. f \in Surjection(S, T)
  BY DEF Surjection
<1>3. f \in Injection(S, T)
  BY DEF Injection, IsInjective, GroupTask
<1> HIDE DEF S, T, f
<1>4. IsFiniteSet(T) /\ Cardinality(T) = Cardinality(S)
  BY <1>1, <1>2, <1>3, FS_Surjection
<1> QED  BY <1>1, <1>4 DEF S, T

\* The first n helpers of a group are n.
LEMMA HelpersCount ==
  ASSUME NEW b, NEW n \in Nat
  PROVE  /\ IsFiniteSet({<<b, i>> : i \in 1..n})
         /\ Cardinality({<<b, i>> : i \in 1..n}) = n
<1> DEFINE S == 1..n
           T == {<<b, i>> : i \in S}
           f == [i \in S |-> <<b, i>>]
<1>1. IsFiniteSet(S) /\ Cardinality(S) = n
  BY FS_Interval
<1>2. f \in Surjection(S, T)
  BY DEF Surjection
<1>3. f \in Injection(S, T)
  BY DEF Injection, IsInjective
<1> HIDE DEF S, T, f
<1>4. IsFiniteSet(T) /\ Cardinality(T) = Cardinality(S)
  BY <1>1, <1>2, <1>3, FS_Surjection
<1> QED  BY <1>1, <1>4 DEF S, T

\* Tasks are pairs of a group and a natural number; every group has its task.
LEMMA TasksAre ==
  /\ \A t \in Tasks : t[1] \in Groups /\ t[2] \in Nat /\ t = <<t[1], t[2]>>
  /\ \A b \in Groups : GroupTask(b) \in Tasks /\ ~IsHelper(GroupTask(b)) /\ GroupTask(b)[1] = b
<1>1. \A b \in Groups : NumRuns[b] \in Nat \ {0}
  BY ExecChunksAssumption
<1> QED  BY <1>1 DEF Tasks, GroupTask, IsHelper, Groups

-----------------------------------------------------------------------------
(* The inductive invariant *)

\* Free permits, the one on its way to the dispatch loop and the ones tasks run on are at
\* most max_concurrent_reads: ReadsBounded with the free permits counted.
PermitBound ==
    /\ IsFiniteSet(Holding)
    /\ value + Cardinality(Holding) + Granted <= maxReads

\* At the start, and as long as the serial path goes on, there is a group left to read.
SerialGroup == main \in {"start", "serial-open", "serial-read"} => next \in Groups

IInv == TypeOK /\ PermitBound /\ SerialGroup

LEMMA InitIInv == Init => IInv
<1> SUFFICES ASSUME Init PROVE IInv
  OBVIOUS
<1>1. TypeOK
  <2>1. value \in 0..maxReads /\ next \in 1..(NumGroups + 1) /\ fails \in 0..MaxFails
        /\ cancels \in 0..MaxCancels
    BY ExecChunksAssumption DEF Init
  <2>2. /\ st \in [Tasks -> Live \cup Over \cup {"raised"}] /\ run \in [Tasks -> Nat]
        /\ queue \in [Groups -> Nat \ {0}] /\ got \in [Groups -> SUBSET Nat]
        /\ groupFailed \in [Groups -> BOOLEAN]
    BY DEF Init, Over
  <2> QED  BY <2>1, <2>2 DEF Init, TypeOK
<1>2. Holding = {}
  BY DEF Init, Holding, Live
<1>3. PermitBound
  BY <1>2, FS_EmptySet, ExecChunksAssumption DEF PermitBound, Init, Granted
<1>4. SerialGroup
  BY ExecChunksAssumption DEF SerialGroup, Init, Groups
<1> QED  BY <1>1, <1>3, <1>4 DEF IInv

-----------------------------------------------------------------------------
(* What a step does to the permits *)

\* At most n more tasks run, on n permits that are no longer free or granted.
LEMMA PermitsTaken ==
  ASSUME IInv, maxReads' = maxReads, NEW X, NEW n \in Nat, IsFiniteSet(X), Cardinality(X) <= n,
         Holding' \subseteq Holding \cup X, value' \in Nat,
         value' + Granted' + n <= value + Granted
  PROVE  PermitBound' /\ value' <= maxReads
<1>1. IsFiniteSet(Holding \cup X) /\ Cardinality(Holding \cup X) <= Cardinality(Holding) + n
  <2>1. IsFiniteSet(Holding)
    BY DEF IInv, PermitBound
  <2>2. IsFiniteSet(Holding \cap X)
    BY <2>1, FS_Subset
  <2>3. /\ IsFiniteSet(Holding \cup X)
        /\ Cardinality(Holding \cup X)
             = Cardinality(Holding) + Cardinality(X) - Cardinality(Holding \cap X)
    BY <2>1, FS_Union
  <2>4. /\ Cardinality(Holding) \in Nat /\ Cardinality(X) \in Nat
        /\ Cardinality(Holding \cap X) \in Nat
    BY <2>1, <2>2, FS_CardinalityType
  <2> QED  BY <2>3, <2>4
<1>2. IsFiniteSet(Holding') /\ Cardinality(Holding') <= Cardinality(Holding) + n
  <2>1. Holding' \in SUBSET (Holding \cup X)
    OBVIOUS
  <2>2. IsFiniteSet(Holding') /\ Cardinality(Holding') <= Cardinality(Holding \cup X)
    BY <1>1, <2>1, FS_Subset
  <2>3. Cardinality(Holding') \in Nat /\ Cardinality(Holding) \in Nat
        /\ Cardinality(Holding \cup X) \in Nat
    BY <1>1, <2>2, FS_CardinalityType DEF IInv, PermitBound
  <2> QED  BY <1>1, <2>2, <2>3
<1>3. Cardinality(Holding') \in Nat /\ Cardinality(Holding) \in Nat
  BY <1>2, FS_CardinalityType DEF IInv, PermitBound
<1>4. value \in Nat /\ Granted \in Nat /\ Granted' \in Nat /\ maxReads \in Nat
  BY ExecChunksAssumption DEF IInv, TypeOK, Granted
<1>5. value + Cardinality(Holding) + Granted <= maxReads
  BY DEF IInv, PermitBound
<1>6. value' + Cardinality(Holding') + Granted' <= maxReads /\ value' <= maxReads
  BY <1>2, <1>3, <1>4, <1>5, CountsTaken
<1> QED  BY <1>2, <1>6 DEF PermitBound

\* No further task runs and the semaphore is left alone.
LEMMA PermitsKept ==
  ASSUME IInv, maxReads' = maxReads, Holding' \subseteq Holding, value' = value, Granted' <= Granted, Granted' \in Nat
  PROVE  PermitBound' /\ value' <= maxReads
<1>1. value' \in Nat /\ Granted \in Nat
  BY DEF IInv, TypeOK, Granted
<1>2. value' + Granted' + 0 <= value + Granted
  BY <1>1 DEF Granted
<1>3. Holding' \subseteq Holding \cup {}
  OBVIOUS
<1>4. IsFiniteSet({}) /\ Cardinality({}) <= 0
  BY FS_EmptySet
<1> QED  BY <1>1, <1>2, <1>3, <1>4, PermitsTaken

\* A task ends and releases its permit.
LEMMA PermitReturned ==
  ASSUME IInv, NEW t \in Tasks, st[t] \in Live, NEW e \in Over \cup {"raised"},
         st' = [st EXCEPT ![t] = e], Release
  PROVE  /\ IsFiniteSet(Holding') /\ Cardinality(Holding') = Cardinality(Holding) - 1
         /\ Cardinality(Holding) \in Nat /\ Cardinality(Holding') \in Nat
         /\ value' + Granted' = value + Granted + 1 /\ value' \in Nat
<1>1. Holding' = Holding \ {t} /\ t \in Holding
  BY DEF Holding, IInv, TypeOK, Live, Over
<1>2. /\ IsFiniteSet(Holding') /\ Cardinality(Holding') = Cardinality(Holding) - 1
      /\ Cardinality(Holding) \in Nat /\ Cardinality(Holding') \in Nat
  BY <1>1, FS_RemoveElement, FS_CardinalityType DEF IInv, PermitBound
<1>3. value' + Granted' = value + Granted + 1 /\ value' \in Nat
  BY DEF Release, Granted, IInv, TypeOK
<1> QED  BY <1>2, <1>3

LEMMA PermitReleased ==
  ASSUME IInv, maxReads' = maxReads, NEW t \in Tasks, st[t] \in Live, NEW e \in Over \cup {"raised"},
         st' = [st EXCEPT ![t] = e], Release
  PROVE  PermitBound' /\ value' \in 0..maxReads /\ main' \in {main, "granted"}
         /\ (main' # main => main = "waiting")
<1>2. /\ IsFiniteSet(Holding') /\ Cardinality(Holding') = Cardinality(Holding) - 1
      /\ Cardinality(Holding) \in Nat /\ Cardinality(Holding') \in Nat
  BY PermitReturned
<1>3. value' + Granted' = value + Granted + 1 /\ value' \in Nat
  BY PermitReturned
<1>4. value \in Nat /\ Granted \in Nat /\ Granted' \in Nat /\ maxReads \in Nat
  BY ExecChunksAssumption DEF IInv, TypeOK, Granted
<1>5. main' \in {main, "granted"} /\ (main' # main => main = "waiting")
  BY DEF Release
<1>6. value + Cardinality(Holding) + Granted <= maxReads
  BY DEF IInv, PermitBound
<1>7. value' + Cardinality(Holding') + Granted' <= maxReads /\ value' <= maxReads
  <2> DEFINE v == value  w == value'  g == Granted  h == Granted'
             c == Cardinality(Holding)  d == Cardinality(Holding')
  <2>1. /\ v \in Nat /\ w \in Nat /\ g \in Nat /\ h \in Nat /\ c \in Nat /\ d \in Nat
        /\ maxReads \in Nat
        /\ d = c - 1 /\ w + h = v + g + 1 /\ v + c + g <= maxReads
    BY <1>2, <1>3, <1>4, <1>6
  <2> HIDE DEF v, w, g, h, c, d
  <2>2. w + d + h <= maxReads /\ w <= maxReads
    BY <2>1
  <2> QED  BY <2>2 DEF v, w, g, h, c, d
<1>8. PermitBound'
  BY <1>2, <1>7 DEF PermitBound
<1> QED  BY <1>3, <1>4, <1>5, <1>7, <1>8
-----------------------------------------------------------------------------
(* The steps of the dispatch loop *)

\* The dispatch loop on v permits, all free or one of them granted, from where it was.
LEMMA DispatchIInv ==
  ASSUME IInv, maxReads' = maxReads, NEW v \in Nat, v = value + Granted, main \in {"start", "granted"}, Dispatch(v),
         UNCHANGED <<cancelled, groupVars, flagVars, outcome, countVars>>,
         prefetch' \in {"off", "running", "cancelled", "done"}
  PROVE  IInv'
<1> DEFINE n == NumTasks(v)
           X == {GroupTask(i) : i \in next..(next + n - 1)}
<1>1. n \in Nat /\ n <= v /\ next + n \in 1..(NumGroups + 1) /\ next \in Nat
  <2>1. next \in 1..(NumGroups + 1) /\ NumGroups \in Nat
    BY ExecChunksAssumption DEF IInv, TypeOK
  <2>2. n \in {v, NumGroups - next + 1} /\ n <= v /\ n <= NumGroups - next + 1
    <3>1. v \in Int /\ NumGroups - next + 1 \in Int
      BY <2>1
    <3> QED  BY <3>1, MinOfTwo DEF NumTasks
  <2> HIDE DEF n
  <2> QED  BY <2>1, <2>2
<1>2. /\ st' = [t \in Tasks |-> IF ~IsHelper(t) /\ t[1] >= next /\ t[1] < next + n
                                THEN "created" ELSE st[t]]
      /\ next' = next + n /\ value' = v - n /\ main' \in {"join", "waiting"}
  BY DEF Dispatch
<1> HIDE DEF n
<1>3. Holding' \subseteq Holding \cup X
  <2> SUFFICES ASSUME NEW t \in Tasks, st'[t] \in Live, st[t] \notin Live
               PROVE  t \in X
    BY DEF Holding
  <2>1. ~IsHelper(t) /\ t[1] >= next /\ t[1] < next + n
    BY <1>2
  <2>2. t = GroupTask(t[1]) /\ t[1] \in Nat
    BY <2>1, TasksAre, ExecChunksAssumption DEF IsHelper, GroupTask, Groups
  <2>3. t[1] \in next..(next + n - 1)
    BY <1>1, <2>1, <2>2
  <2> QED  BY <2>2, <2>3
<1>4. IsFiniteSet(X) /\ Cardinality(X) = n
  BY <1>1, GroupTasksCount
<1>5. value' \in Nat /\ value' + Granted' + n <= value + Granted
  <2>1. Granted' = 0
    BY <1>2 DEF Granted
  <2>2. value \in Nat /\ Granted \in Nat
    BY DEF IInv, TypeOK, Granted
  <2> QED  BY <1>1, <1>2, <2>1, <2>2
<1> HIDE DEF X
<1>6. PermitBound' /\ value' <= maxReads
  <2>1. Cardinality(X) <= n
    BY <1>1, <1>4
  <2> QED  BY <1>1, <1>3, <1>4, <1>5, <2>1, PermitsTaken
<1>7. st' \in [Tasks -> Live \cup Over \cup {"raised"}]
  BY <1>2 DEF IInv, TypeOK, Live
<1>8. TypeOK'
  BY <1>1, <1>2, <1>5, <1>6, <1>7, ExecChunksAssumption
     DEF IInv, TypeOK, groupVars, flagVars, countVars
<1> QED  BY <1>2, <1>6, <1>8 DEF IInv, SerialGroup

LEMMA StartIInv == ASSUME IInv, maxReads' = maxReads, Start PROVE IInv'
<1>1. CASE ~Serial /\ Dispatch(value)
  <2>1. value = value + Granted /\ value \in Nat
    BY DEF Start, Granted, IInv, TypeOK
  <2> QED  BY <1>1, <2>1, DispatchIInv DEF Start
<1>2. CASE main' = "serial-open" /\ UNCHANGED <<st, next, value>>
  <2>1. Holding' \subseteq Holding /\ Granted' <= Granted /\ Granted' \in Nat
    BY <1>2 DEF Holding, Granted
  <2>2. PermitBound'
    BY <1>2, <2>1, PermitsKept
  <2>3. TypeOK'
    <3>1. prefetch' \in {"off", "running", "cancelled", "done"}
      BY DEF Start
    <3>2. UNCHANGED <<cancelled, groupVars, flagVars, outcome, countVars>>
      BY DEF Start
    <3> QED  BY <1>2, <3>1, <3>2 DEF IInv, TypeOK, groupVars, flagVars, countVars
  <2>4. SerialGroup'
    BY <1>2, ExecChunksAssumption DEF Start, IInv, SerialGroup, TypeOK, Groups
  <2> QED  BY <2>2, <2>3, <2>4 DEF IInv
<1> QED  BY <1>1, <1>2 DEF Start

LEMMA WakeIInv == ASSUME IInv, maxReads' = maxReads, Wake PROVE IInv'
<1>1. value + 1 = value + Granted /\ value + 1 \in Nat
  BY DEF Wake, Granted, IInv, TypeOK
<1> QED  BY <1>1, DispatchIInv DEF Wake, endVars, IInv, TypeOK

-----------------------------------------------------------------------------
(* The steps of the tasks *)

\* A step that ends one task and releases its permit, whatever it does to the other variables.
LEMMA ReleaseIInv ==
  ASSUME IInv, maxReads' = maxReads, NEW t \in Tasks, st[t] \in Live, NEW e \in Over \cup {"raised"},
         st' = [st EXCEPT ![t] = e], Release,
         next' = next, cancelled' \subseteq Tasks, UNCHANGED <<run, queue, endVars, cancels>>,
         got' \in [Groups -> SUBSET Nat], fails' \in 0..MaxFails, UNCHANGED flagVars
  PROVE  IInv'
<1>1. PermitBound' /\ value' \in 0..maxReads /\ main' \in {main, "granted"}
      /\ (main' # main => main = "waiting")
  BY PermitReleased
<1>2. st' \in [Tasks -> Live \cup Over \cup {"raised"}]
  BY DEF IInv, TypeOK
<1>3. TypeOK'
  BY <1>1, <1>2 DEF IInv, TypeOK, endVars, flagVars
<1>4. SerialGroup'
  BY <1>1 DEF IInv, SerialGroup
<1> QED  BY <1>1, <1>3, <1>4 DEF IInv

\* A step that leaves the semaphore alone and starts no task that did not run on a permit.
LEMMA KeepIInv ==
  ASSUME IInv, maxReads' = maxReads, UNCHANGED <<main, value, next>>, Holding' \subseteq Holding,
         st' \in [Tasks -> Live \cup Over \cup {"raised"}], cancelled' \subseteq Tasks,
         run' \in [Tasks -> Nat], queue' \in [Groups -> Nat \ {0}],
         got' \in [Groups -> SUBSET Nat], groupFailed' \in [Groups -> BOOLEAN],
         errors' \in BOOLEAN, aborting' \in BOOLEAN, interrupted' \in BOOLEAN,
         asked' \in BOOLEAN, prefetch' \in {"off", "running", "cancelled", "done"},
         outcome' \in {"none", "ok", "failed", "cancelled"},
         fails' \in 0..MaxFails, cancels' \in 0..MaxCancels
  PROVE  IInv'
<1>1. Granted' <= Granted /\ Granted' \in Nat
  BY DEF Granted
<1>2. PermitBound'
  BY <1>1, PermitsKept
<1>3. TypeOK'
  BY DEF IInv, TypeOK
<1>4. SerialGroup'
  BY DEF IInv, SerialGroup
<1> QED  BY <1>2, <1>3, <1>4 DEF IInv

\* A step that changes the state of one task that runs on a permit, and it still does.
LEMMA SameTask ==
  ASSUME IInv, NEW t \in Tasks, NEW e \in Live \cup Over \cup {"raised"},
         e \in Live => st[t] \in Live, st' = [st EXCEPT ![t] = e]
  PROVE  Holding' \subseteq Holding /\ st' \in [Tasks -> Live \cup Over \cup {"raised"}]
  BY DEF Holding, IInv, TypeOK

LEMMA OpenDoneIInv == ASSUME IInv, maxReads' = maxReads, NEW b \in Groups, OpenDone(b) PROVE IInv'
<1> DEFINE n == NumHelpers(b)
           X == {<<b, i>> : i \in 1..n}
<1>1. GroupTask(b) \in Tasks /\ GroupTask(b) = <<b, 0>> /\ NumRuns[b] \in Nat \ {0} /\ value \in Nat
  BY TasksAre, ExecChunksAssumption DEF GroupTask, IInv, TypeOK
<1>2. n \in Nat /\ n <= value
  <2>1. CASE Locked
    BY <1>1, <2>1 DEF NumHelpers
  <2>2. CASE ~Locked
    <3>1. value \in Int /\ NumRuns[b] - 1 \in Int /\ NumRuns[b] - 1 >= 0
      BY <1>1
    <3>2. Min({value, NumRuns[b] - 1}) \in {value, NumRuns[b] - 1}
          /\ Min({value, NumRuns[b] - 1}) <= value
      BY <3>1, MinOfTwo
    <3>3. n = Min({value, NumRuns[b] - 1})
      BY <2>2 DEF NumHelpers
    <3> QED  BY <1>1, <3>1, <3>2, <3>3
  <2> QED  BY <2>1, <2>2
<1>3. /\ st[GroupTask(b)] = "open"
      /\ st' = [t \in Tasks |-> IF t = GroupTask(b) THEN "read"
                                ELSE IF t[1] = b /\ t[2] <= n THEN "created" ELSE st[t]]
      /\ value' = value - n /\ main' = main /\ next' = next
      /\ run' = [run EXCEPT ![GroupTask(b)] = 1] /\ queue' = [queue EXCEPT ![b] = 2]
      /\ UNCHANGED <<cancelled, got, flagVars, endVars, countVars>>
  BY DEF OpenDone
<1> HIDE DEF n
<1>4. Holding' \subseteq Holding \cup X
  <2> SUFFICES ASSUME NEW t \in Tasks, st'[t] \in Live, st[t] \notin Live
               PROVE  t \in X
    BY DEF Holding
  <2>1. t # GroupTask(b) /\ t[1] = b /\ t[2] <= n
    BY <1>1, <1>3 DEF Live
  <2>2. t = <<t[1], t[2]>> /\ t[2] \in Nat
    BY TasksAre
  <2>3. t[2] # 0
    BY <1>1, <2>1, <2>2
  <2> QED  BY <1>2, <2>1, <2>2, <2>3
<1>5. IsFiniteSet(X) /\ Cardinality(X) = n
  BY <1>2, HelpersCount
<1>6. value' \in Nat /\ value' + Granted' + n <= value + Granted
  <2>1. Granted' = Granted /\ Granted \in Nat
    BY <1>3 DEF Granted
  <2> QED  BY <1>1, <1>2, <1>3, <2>1
<1> HIDE DEF X
<1>7. PermitBound' /\ value' <= maxReads
  <2>1. Cardinality(X) <= n
    BY <1>2, <1>5
  <2> QED  BY <1>2, <1>4, <1>5, <1>6, <2>1, PermitsTaken
<1>8. TypeOK'
  <2>1. st' \in [Tasks -> Live \cup Over \cup {"raised"}]
    BY <1>3 DEF IInv, TypeOK, Live
  <2>2. run' \in [Tasks -> Nat]
    BY <1>3 DEF IInv, TypeOK
  <2>3. queue' \in [Groups -> Nat \ {0}]
    BY <1>3 DEF IInv, TypeOK
  <2> QED  BY <1>3, <1>6, <1>7, <2>1, <2>2, <2>3, ExecChunksAssumption
           DEF IInv, TypeOK, flagVars, endVars, countVars
<1>9. SerialGroup'
  BY <1>3 DEF IInv, SerialGroup
<1> QED  BY <1>7, <1>8, <1>9 DEF IInv

\* _drain takes a run, or ends the task, or waits for its helpers.
LEMMA DrainIInv ==
  ASSUME IInv, maxReads' = maxReads, NEW t \in Tasks, st[t] \in Live, TakeRun(t) \/ Drained(t),
         got' \in [Groups -> SUBSET Nat],
         UNCHANGED <<next, cancelled, flagVars, endVars, countVars>>
  PROVE  IInv'
<1>1. t[1] \in Groups
  BY TasksAre
<1>2. CASE TakeRun(t)
  <2>1. st' = [st EXCEPT ![t] = "read"] /\ main' = main /\ value' = value
    BY <1>2 DEF TakeRun, semVars
  <2>2. queue[t[1]] \in Nat \ {0}
    BY <1>1 DEF IInv, TypeOK
  <2>3. run' \in [Tasks -> Nat] /\ queue' \in [Groups -> Nat \ {0}]
    <3>1. run' = [run EXCEPT ![t] = queue[t[1]]] /\ queue' = [queue EXCEPT ![t[1]] = queue[t[1]] + 1]
      BY <1>2 DEF TakeRun
    <3>2. queue[t[1]] + 1 \in Nat \ {0}
      BY <2>2
    <3> QED  BY <1>1, <2>2, <3>1, <3>2 DEF IInv, TypeOK
  <2>4. Holding' \subseteq Holding /\ st' \in [Tasks -> Live \cup Over \cup {"raised"}]
    BY <2>1, SameTask DEF Live
  <2> QED  BY <2>1, <2>3, <2>4, KeepIInv DEF IInv, TypeOK, flagVars, endVars, countVars
<1>3. CASE Drained(t) /\ Release /\ st' = [st EXCEPT ![t] = "done"]
  BY <1>3, ReleaseIInv DEF Drained, Over, countVars, IInv, TypeOK
<1>4. CASE Drained(t) /\ st' = [st EXCEPT ![t] = "join"] /\ UNCHANGED semVars
  <2>1. Holding' \subseteq Holding /\ st' \in [Tasks -> Live \cup Over \cup {"raised"}]
    BY <1>4, SameTask DEF Live
  <2>2. UNCHANGED <<main, value, next, run, queue>>
    BY <1>4 DEF Drained, semVars
  <2> QED  BY <2>1, <2>2, KeepIInv DEF IInv, TypeOK, flagVars, endVars, countVars
<1> QED  BY <1>2, <1>3, <1>4 DEF Drained

LEMMA GroupStepIInv == ASSUME IInv, NEW b \in Groups, GroupStep(b) PROVE IInv'
<1>same. maxReads' = maxReads
  BY DEF GroupStep
<1>0. GroupTask(b) \in Tasks
  BY TasksAre
<1>1. CASE TaskStarts(b)
  <2>1. Holding' \subseteq Holding /\ st' \in [Tasks -> Live \cup Over \cup {"raised"}]
    BY <1>0, <1>1, SameTask DEF TaskStarts, Live
  <2> QED  BY <1>1, <2>1, <1>same, KeepIInv
           DEF TaskStarts, IInv, TypeOK, semVars, groupVars, flagVars, endVars, countVars
<1>2. CASE OpenDone(b)
  BY <1>2, <1>same, OpenDoneIInv
<1>3. CASE OpenFails(b)
  <2>1. fails' \in 0..MaxFails
    BY <1>3, ExecChunksAssumption DEF OpenFails, Fail, IInv, TypeOK
  <2>2. st[GroupTask(b)] \in Live /\ st' = [st EXCEPT ![GroupTask(b)] = "raised"] /\ Release
    BY <1>3 DEF OpenFails, Live
  <2> QED  BY <1>0, <1>3, <2>1, <2>2, <1>same, ReleaseIInv DEF OpenFails, groupVars, IInv, TypeOK
<1>4. CASE Joined(b)
  <2>1. PICK e \in Over \cup {"raised"} : st' = [st EXCEPT ![GroupTask(b)] = e]
    BY <1>4 DEF Joined, Over
  <2>2. st[GroupTask(b)] \in Live /\ Release
    BY <1>4 DEF Joined, Live
  <2> QED  BY <1>0, <1>4, <2>1, <2>2, <1>same, ReleaseIInv DEF Joined, groupVars, countVars, IInv, TypeOK
<1>5. CASE TaskReaped(b)
  <2>1. Holding' \subseteq Holding /\ st' \in [Tasks -> Live \cup Over \cup {"raised"}]
    BY <1>0, <1>5, SameTask DEF TaskReaped, Live, Over
  <2>2. cancelled' \subseteq Tasks /\ interrupted' \in BOOLEAN
    BY <1>5 DEF TaskReaped, IInv, TypeOK
  <2> QED  BY <1>5, <2>1, <2>2, <1>same, KeepIInv
           DEF TaskReaped, IInv, TypeOK, semVars, groupVars, endVars, countVars
<1> QED  BY <1>1, <1>2, <1>3, <1>4, <1>5 DEF GroupStep

LEMMA TaskStepIInv == ASSUME IInv, NEW t \in Tasks, TaskStep(t) PROVE IInv'
<1>same. maxReads' = maxReads
  BY DEF TaskStep
<1>0. t[1] \in Groups
  BY TasksAre
<1>1. CASE HelperStarts(t)
  BY <1>1, <1>same, DrainIInv DEF HelperStarts, Live, IInv, TypeOK
<1>2. CASE ReadDone(t)
  <2>1. got' \in [Groups -> SUBSET Nat]
    BY <1>0, <1>2 DEF ReadDone, IInv, TypeOK
  <2> QED  BY <1>2, <2>1, <1>same, DrainIInv DEF ReadDone, Live
<1>3. CASE ReadFails(t)
  <2>1. fails' \in 0..MaxFails
    BY <1>3, ExecChunksAssumption DEF ReadFails, Fail, IInv, TypeOK
  <2>2. CASE st' = [st EXCEPT ![t] = "raised"] /\ Release /\ UNCHANGED <<cancelled, groupFailed>>
    BY <1>3, <2>1, <2>2, <1>same, ReleaseIInv DEF ReadFails, Live, groupVars, flagVars, IInv, TypeOK
  <2>3. CASE /\ st' = [st EXCEPT ![t] = "join"] /\ UNCHANGED semVars
             /\ cancelled' = cancelled \cup {h \in HelpersOf(t[1]) : st[h] \in Live}
             /\ groupFailed' = [groupFailed EXCEPT ![t[1]] = TRUE]
    <3>1. Holding' \subseteq Holding /\ st' \in [Tasks -> Live \cup Over \cup {"raised"}]
      BY <1>3, <2>3, SameTask DEF ReadFails, Live
    <3>2. cancelled' \subseteq Tasks /\ groupFailed' \in [Groups -> BOOLEAN]
      BY <1>0, <2>3 DEF HelpersOf, IInv, TypeOK
    <3> QED  BY <1>3, <2>1, <2>3, <3>1, <3>2, <1>same, KeepIInv
             DEF ReadFails, semVars, groupVars, endVars, IInv, TypeOK
  <2> QED  BY <1>3, <2>2, <2>3 DEF ReadFails
<1>4. CASE HelperReaped(t)
  <2>1. Holding' \subseteq Holding /\ st' \in [Tasks -> Live \cup Over \cup {"raised"}]
    BY <1>4, SameTask DEF HelperReaped, Live, Over
  <2>2. cancelled' \subseteq Tasks /\ groupFailed' \in [Groups -> BOOLEAN]
    BY <1>0, <1>4, TasksAre DEF HelperReaped, HelpersOf, IInv, TypeOK
  <2> QED  BY <1>4, <2>1, <2>2, <1>same, KeepIInv
           DEF HelperReaped, semVars, groupVars, endVars, countVars, IInv, TypeOK
<1>5. CASE CancelCreated(t)
  <2>1. Holding' \subseteq Holding /\ st' \in [Tasks -> Live \cup Over \cup {"raised"}]
    BY <1>5, SameTask DEF CancelCreated, Live, Over
  <2> QED  BY <1>5, <2>1, <1>same, KeepIInv
           DEF CancelCreated, semVars, groupVars, flagVars, endVars, countVars, IInv, TypeOK
<1>6. CASE CancelAtOnce(t)
  <2>1. PICK e \in Over \cup {"raised"} : st' = [st EXCEPT ![t] = e]
    BY <1>6 DEF CancelAtOnce, Over
  <2>2. st[t] \in Live /\ Release
    BY <1>6 DEF CancelAtOnce, Live
  <2> QED  BY <1>6, <2>1, <2>2, <1>same, ReleaseIInv DEF CancelAtOnce, groupVars, countVars, IInv, TypeOK
<1>7. CASE CancelGroup(t)
  <2>1. Holding' \subseteq Holding /\ st' \in [Tasks -> Live \cup Over \cup {"raised"}]
    BY <1>7, SameTask DEF CancelGroup, Live
  <2>2. cancelled' \subseteq Tasks
    BY <1>7 DEF CancelGroup, HelpersOf, IInv, TypeOK
  <2> QED  BY <1>7, <2>1, <2>2, <1>same, KeepIInv
           DEF CancelGroup, semVars, groupVars, flagVars, endVars, countVars, IInv, TypeOK
<1> QED  BY <1>1, <1>2, <1>3, <1>4, <1>5, <1>6, <1>7 DEF TaskStep

-----------------------------------------------------------------------------
(* The end of exec_chunks and its serial path *)

\* A step of exec_chunks itself that starts no task.  A granted permit it gives up may go back.
LEMMA MainIInv ==
  ASSUME IInv, maxReads' = maxReads, UNCHANGED <<st, run, fails, cancels>>,
         \/ value' = value
         \/ main = "granted" /\ value' = value + 1,
         main' \in {"join", "serial-open", "serial-read", "closing", "ended"},
         next' \in 1..(NumGroups + 1), cancelled' \subseteq Tasks,
         queue' \in [Groups -> Nat \ {0}], got' \in [Groups -> SUBSET Nat],
         UNCHANGED <<groupFailed, errors, asked>>, aborting' \in BOOLEAN, interrupted' \in BOOLEAN,
         prefetch' \in {"off", "running", "cancelled", "done"},
         outcome' \in {"none", "ok", "failed", "cancelled"},
         SerialGroup'
  PROVE  IInv'
<1>1. Holding' \subseteq Holding \cup {}
  BY DEF Holding
<1>2. value' \in Nat /\ value' + Granted' + 0 <= value + Granted
  <2>1. Granted' = 0 /\ value \in Nat
    BY DEF Granted, IInv, TypeOK
  <2>2. CASE value' = value
    BY <2>1, <2>2 DEF Granted
  <2>3. CASE main = "granted" /\ value' = value + 1
    BY <2>1, <2>3 DEF Granted
  <2> QED  BY <2>2, <2>3
<1>3. PermitBound' /\ value' <= maxReads
  <2>1. IsFiniteSet({}) /\ Cardinality({}) <= 0
    BY FS_EmptySet
  <2> QED  BY <1>1, <1>2, <2>1, PermitsTaken
<1>4. value' \in 0..maxReads
  BY <1>2, <1>3, ExecChunksAssumption
<1>5. TypeOK'
  BY <1>4 DEF IInv, TypeOK
<1> QED  BY <1>3, <1>5 DEF IInv

LEMMA MainStepIInv == ASSUME IInv, MainStep PROVE IInv'
<1>same. maxReads' = maxReads
  BY DEF MainStep
<1>1. CASE Start
  BY <1>1, <1>same, StartIInv
<1>2. CASE Wake
  BY <1>2, <1>same, WakeIInv
<1>3. CASE Interrupted
  <2>1. cancelled' \subseteq Tasks
    BY <1>3 DEF Interrupted, IInv, TypeOK
  <2>2. SerialGroup'
    BY <1>3 DEF Interrupted, SerialGroup
  <2>3. value' = value \/ (main = "granted" /\ value' = value + 1)
    BY <1>3 DEF Interrupted
  <2> QED  BY <1>3, <2>1, <2>2, <2>3, <1>same, MainIInv
           DEF Interrupted, groupVars, endVars, countVars, IInv, TypeOK
<1>4. CASE JoinedAll
  <2>1. /\ main' \in {"closing", "ended"} /\ outcome' \in {"ok", "failed", "cancelled"}
        /\ prefetch' \in {"off", "running", "cancelled", "done"}
    BY <1>4 DEF JoinedAll, Finally, Result, IInv, TypeOK
  <2>2. SerialGroup'
    BY <2>1 DEF SerialGroup
  <2>3. interrupted' \in BOOLEAN
    BY <1>4 DEF JoinedAll
  <2> QED  BY <1>4, <2>1, <2>2, <2>3, <1>same, MainIInv
           DEF JoinedAll, groupVars, countVars, IInv, TypeOK
<1>5. CASE Closes
  <2>1. SerialGroup'
    BY <1>5 DEF Closes, SerialGroup
  <2>2. interrupted' \in BOOLEAN /\ outcome' \in {"none", "ok", "failed", "cancelled"}
    BY <1>5 DEF Closes, IInv, TypeOK
  <2> QED  BY <1>5, <2>1, <2>2, <1>same, MainIInv DEF Closes, groupVars, countVars, IInv, TypeOK
<1>6. CASE SerialOpen
  <2>1. SerialGroup'
    BY <1>6 DEF SerialOpen, SerialGroup, IInv
  <2> QED  BY <1>6, <2>1, <1>same, MainIInv
           DEF SerialOpen, groupVars, flagVars, endVars, countVars, IInv, TypeOK
<1>7. CASE SerialRead
  <2>1. next \in Groups /\ queue[next] \in Nat \ {0} /\ next \in 1..NumGroups /\ NumGroups \in Nat
    BY <1>7, ExecChunksAssumption DEF SerialRead, SerialGroup, IInv, TypeOK, Groups
  <2>2. got' \in [Groups -> SUBSET Nat]
    BY <1>7, <2>1 DEF SerialRead, IInv, TypeOK
  <2>3. queue' \in [Groups -> Nat \ {0}]
    <3>1. queue' = [queue EXCEPT ![next] = queue[next] + 1] /\ queue[next] + 1 \in Nat \ {0}
      BY <1>7, <2>1 DEF SerialRead
    <3> QED  BY <3>1 DEF IInv, TypeOK
  <2>4. /\ main' \in {"serial-open", "serial-read", "closing", "ended"}
        /\ next' \in 1..(NumGroups + 1)
        /\ prefetch' \in {"off", "running", "cancelled", "done"}
        /\ outcome' \in {"none", "ok", "failed", "cancelled"}
        /\ SerialGroup'
    <3>1. CASE UNCHANGED <<main, next, endVars>>
      BY <1>7, <2>1, <3>1 DEF SerialRead, SerialGroup, endVars, IInv, TypeOK
    <3>2. CASE next' = next + 1 /\ next < NumGroups /\ main' = "serial-open" /\ UNCHANGED endVars
      BY <2>1, <3>2 DEF SerialGroup, endVars, IInv, TypeOK, Groups
    <3>3. CASE next' = next + 1 /\ next = NumGroups /\ Finally("ok")
      BY <2>1, <3>3 DEF Finally, SerialGroup, IInv, TypeOK
    <3> QED  BY <1>7, <3>1, <3>2, <3>3 DEF SerialRead
  <2> QED  BY <1>7, <2>2, <2>3, <2>4, <1>same, MainIInv DEF SerialRead, flagVars, countVars, IInv, TypeOK
<1>8. CASE SerialFails
  <2>1. /\ main' \in {"closing", "ended"} /\ outcome' \in {"ok", "failed", "cancelled"}
        /\ prefetch' \in {"off", "running", "cancelled", "done"}
    BY <1>8 DEF SerialFails, Finally, IInv, TypeOK
  <2>2. fails' \in 0..MaxFails
    BY <1>8, ExecChunksAssumption DEF SerialFails, Fail, IInv, TypeOK
  <2>3. Holding' \subseteq Holding /\ value' = value /\ Granted' <= Granted /\ Granted' \in Nat
    BY <1>8, <2>1 DEF SerialFails, Holding, Granted
  <2>4. PermitBound'
    BY <2>3, <1>same, PermitsKept
  <2>5. TypeOK'
    BY <1>same, <1>8, <2>1, <2>2 DEF SerialFails, groupVars, flagVars, IInv, TypeOK
  <2>6. SerialGroup'
    BY <2>1 DEF SerialGroup
  <2> QED  BY <2>4, <2>5, <2>6 DEF IInv
<1>9. CASE SerialInterrupted
  <2>1. /\ main' \in {"closing", "ended"} /\ outcome' \in {"ok", "failed", "cancelled"}
        /\ prefetch' \in {"off", "running", "cancelled", "done"}
    BY <1>9 DEF SerialInterrupted, Finally, IInv, TypeOK
  <2>2. SerialGroup'
    BY <2>1 DEF SerialGroup
  <2> QED  BY <1>9, <2>1, <2>2, <1>same, MainIInv DEF SerialInterrupted, groupVars, countVars, IInv, TypeOK
<1> QED  BY <1>1, <1>2, <1>3, <1>4, <1>5, <1>6, <1>7, <1>8, <1>9 DEF MainStep

LEMMA NextIInv == IInv /\ [Next]_vars => IInv'
<1> SUFFICES ASSUME IInv, [Next]_vars PROVE IInv'
  OBVIOUS
<1>1. CASE MainStep
  BY <1>1, MainStepIInv
<1>2. ASSUME NEW b \in Groups, GroupStep(b) PROVE IInv'
  BY <1>2, GroupStepIInv
<1>3. ASSUME NEW t \in Tasks, TaskStep(t) PROVE IInv'
  BY <1>3, TaskStepIInv
<1>4. CASE PrefetchEnds
  <2>1. Holding' \subseteq Holding /\ maxReads' = maxReads
    BY <1>4 DEF PrefetchEnds, Holding
  <2> QED  BY <1>4, <2>1, KeepIInv
           DEF PrefetchEnds, semVars, groupVars, flagVars, countVars, IInv, TypeOK
<1>5. CASE Cancel
  <2>1. Holding' \subseteq Holding /\ maxReads' = maxReads
    BY <1>5 DEF Cancel, Holding
  <2>2. cancels' \in 0..MaxCancels
    BY <1>5, ExecChunksAssumption DEF Cancel, IInv, TypeOK
  <2> QED  BY <1>5, <2>1, <2>2, KeepIInv
           DEF Cancel, semVars, groupVars, endVars, IInv, TypeOK
<1>6. CASE UNCHANGED vars
  <2>1. Holding' \subseteq Holding /\ maxReads' = maxReads
    BY <1>6 DEF vars, Holding
  <2> QED  BY <1>6, <2>1, KeepIInv
           DEF vars, semVars, groupVars, flagVars, endVars, countVars, IInv, TypeOK
<1> QED  BY <1>1, <1>2, <1>3, <1>4, <1>5, <1>6 DEF Next, Ended

-----------------------------------------------------------------------------
(* Theorems *)

\* IInv holds of every reachable state.
THEOREM Inductive == Spec => []IInv
  BY InitIInv, NextIInv, PTL DEF Spec

\* Every reachable state is well typed: the semaphore's value stays between 0 and
\* max_concurrent_reads, and no group past the last is dispatched.
THEOREM TypeCorrect == Spec => []TypeOK
<1>1. IInv => TypeOK
  BY DEF IInv
<1> QED  BY <1>1, Inductive, PTL

\* Groups and their helpers never run on more than max_concurrent_reads permits, whatever
\* fails or is cancelled: the bound exec_chunks and read_chunk_blocks promise.
THEOREM ReadsAreBounded == Spec => []ReadsBounded
<1>1. IInv => ReadsBounded
  <2> SUFFICES ASSUME IInv PROVE ReadsBounded
    OBVIOUS
  <2>1. /\ value \in Nat /\ Cardinality(Holding) \in Nat /\ Granted \in Nat /\ maxReads \in Nat
        /\ value + Cardinality(Holding) + Granted <= maxReads
    BY FS_CardinalityType, ExecChunksAssumption DEF IInv, TypeOK, PermitBound, Granted
  <2> QED  BY <2>1 DEF ReadsBounded
<1> QED  BY <1>1, Inductive, PTL

-----------------------------------------------------------------------------
(* Nothing runs on *)

\* exec_chunks is in its TaskGroup.
InGroup == {"waiting", "granted", "join"}

\* Helpers run only inside their group's read or its wait for them, groups not yet dispatched
\* have no task, no task runs outside exec_chunks' TaskGroup, and no prefetch after it.
Nested ==
    /\ \A b \in Groups : st[GroupTask(b)] \notin {"read", "join"} => HelpersOver(b)
    /\ \A b \in Groups : b >= next => st[GroupTask(b)] = "none"
    /\ main \notin InGroup => AllOver
    /\ main \in {"closing", "ended"} => prefetch # "running"

\* A task that is not over runs inside its group's task, and that inside exec_chunks' group.
LEMMA TaskInside ==
  ASSUME IInv, Nested, NEW t \in Tasks, st[t] \notin Over
  PROVE  /\ main \in InGroup
         /\ IsHelper(t) => st[GroupTask(t[1])] \in {"read", "join"}
         /\ t[1] < next
<1>1. t[1] \in Groups /\ t = <<t[1], t[2]>> /\ t[1] \in Int /\ next \in Int
  BY TasksAre, ExecChunksAssumption DEF Groups, IInv, TypeOK
<1>2. IsHelper(t) => st[GroupTask(t[1])] \in {"read", "join"}
  BY <1>1 DEF Nested, HelpersOver, HelpersOf
<1>3. st[GroupTask(t[1])] \notin Over
  BY <1>1, <1>2 DEF IsHelper, GroupTask, Over
<1> QED  BY <1>1, <1>2, <1>3 DEF Nested, AllOver, Over

\* A step of one task.
LEMMA OneTaskNested ==
  ASSUME IInv, Nested, NEW t \in Tasks, st[t] \notin Over, NEW e, st' = [st EXCEPT ![t] = e],
         next' = next, main' \in InGroup,
         ~IsHelper(t) /\ e \notin {"read", "join"} => HelpersOver(t[1])
  PROVE  Nested'
<1>1. /\ t[1] \in Groups /\ t = <<t[1], t[2]>> /\ t[1] < next
      /\ IsHelper(t) => st[GroupTask(t[1])] \in {"read", "join"}
  BY TasksAre, TaskInside
<1>2. ASSUME NEW b \in Groups, st'[GroupTask(b)] \notin {"read", "join"}
      PROVE  HelpersOver(b)'
  <2>1. GroupTask(b) \in Tasks /\ GroupTask(b) = <<b, 0>>
    BY TasksAre DEF GroupTask
  <2>2. CASE t = GroupTask(b)
    <3>1. ~IsHelper(t) /\ t[1] = b /\ e \notin {"read", "join"}
      BY <1>2, <2>1, <2>2 DEF IsHelper, IInv, TypeOK
    <3>2. \A h \in HelpersOf(b) : h # t /\ h \in Tasks
      BY <3>1 DEF HelpersOf
    <3> QED  BY <3>1, <3>2 DEF HelpersOver, IInv, TypeOK
  <2>3. CASE t # GroupTask(b)
    <3>1. st[GroupTask(b)] \notin {"read", "join"}
      BY <1>2, <2>1, <2>3 DEF IInv, TypeOK
    <3>2. HelpersOver(b) /\ t \notin HelpersOf(b)
      BY <1>1, <3>1 DEF Nested, HelpersOf
    <3>3. \A h \in HelpersOf(b) : h # t /\ h \in Tasks
      BY <3>2 DEF HelpersOf
    <3> QED  BY <3>2, <3>3 DEF HelpersOver, IInv, TypeOK
  <2> QED  BY <2>2, <2>3
<1>3. ASSUME NEW b \in Groups, b >= next' PROVE st'[GroupTask(b)] = "none"
  <2>1. GroupTask(b) \in Tasks /\ GroupTask(b)[1] = b /\ b \in Int /\ next \in Int
    BY TasksAre, ExecChunksAssumption DEF Groups, IInv, TypeOK
  <2>2. t # GroupTask(b)
    BY <1>1, <1>3, <2>1
  <2> QED  BY <1>3, <2>1, <2>2 DEF Nested, IInv, TypeOK
<1> QED  BY <1>2, <1>3 DEF Nested, InGroup

\* A step that changes no task.
LEMMA NoTaskNested ==
  ASSUME IInv, Nested, st' = st, next' \in Int, next' >= next, main' \notin InGroup => AllOver,
         main' \in {"closing", "ended"} => prefetch' # "running"
  PROVE  Nested'
<1>1. \A b \in Groups : b \in Int
  BY DEF Groups
<1>2. next \in Int
  BY ExecChunksAssumption DEF IInv, TypeOK
<1>3. \A b \in Groups : b >= next' => st'[GroupTask(b)] = "none"
  BY <1>1, <1>2 DEF Nested
<1> QED  BY <1>3 DEF Nested, HelpersOver, AllOver

\* The dispatch loop creates tasks of groups that had none.
LEMMA DispatchNested ==
  ASSUME IInv, Nested, NEW v \in Nat, Dispatch(v) PROVE Nested'
<1> DEFINE n == NumTasks(v)
<1>1. n \in Nat /\ next \in Int
  <2>1. next \in 1..(NumGroups + 1) /\ NumGroups \in Nat
    BY ExecChunksAssumption DEF IInv, TypeOK
  <2>2. n \in {v, NumGroups - next + 1}
    <3>1. v \in Int /\ NumGroups - next + 1 \in Int
      BY <2>1
    <3> QED  BY <3>1, MinOfTwo DEF NumTasks
  <2> HIDE DEF n
  <2> QED  BY <2>1, <2>2
<1>2. /\ st' = [t \in Tasks |-> IF ~IsHelper(t) /\ t[1] >= next /\ t[1] < next + n
                                THEN "created" ELSE st[t]]
      /\ next' = next + n /\ main' \in InGroup
  BY DEF Dispatch, InGroup
<1> HIDE DEF n
<1>3. ASSUME NEW b \in Groups
      PROVE  /\ st'[GroupTask(b)] \notin {"read", "join"} => HelpersOver(b)'
             /\ b >= next' => st'[GroupTask(b)] = "none"
  <2>1. GroupTask(b) \in Tasks /\ ~IsHelper(GroupTask(b)) /\ GroupTask(b)[1] = b /\ b \in Int
    BY TasksAre DEF Groups
  <2>2. HelpersOver(b) => HelpersOver(b)'
    BY <1>2 DEF HelpersOver, HelpersOf
  <2>3. CASE b >= next
    BY <1>1, <1>2, <2>1, <2>2, <2>3 DEF Nested
  <2>4. CASE ~(b >= next)
    <3>1. st'[GroupTask(b)] = st[GroupTask(b)] /\ ~(b >= next')
      BY <1>1, <1>2, <2>1, <2>4
    <3> QED  BY <2>2, <3>1 DEF Nested
  <2> QED  BY <2>3, <2>4
<1> QED  BY <1>2, <1>3 DEF Nested, InGroup

LEMMA OpenDoneNested == ASSUME IInv, Nested, NEW b \in Groups, OpenDone(b) PROVE Nested'
<1>1. GroupTask(b) \in Tasks /\ GroupTask(b)[1] = b /\ st[GroupTask(b)] = "open"
  BY TasksAre DEF OpenDone
<1>2. main \in InGroup /\ b < next
  BY <1>1, TaskInside DEF Over
<1>3. /\ st' = [t \in Tasks |-> IF t = GroupTask(b) THEN "read"
                                ELSE IF t[1] = b /\ t[2] <= NumHelpers(b) THEN "created" ELSE st[t]]
      /\ main' = main /\ next' = next
  BY DEF OpenDone
<1>4. ASSUME NEW c \in Groups, c # b
      PROVE  st'[GroupTask(c)] = st[GroupTask(c)] /\ (HelpersOver(c) => HelpersOver(c)')
  <2>1. GroupTask(c) \in Tasks /\ GroupTask(c)[1] = c
    BY TasksAre
  <2> QED  BY <1>1, <1>3, <1>4, <2>1 DEF HelpersOver, HelpersOf
<1>5. st'[GroupTask(b)] = "read" /\ b \in Int /\ next \in Int
  BY <1>1, <1>3, ExecChunksAssumption DEF Groups, IInv, TypeOK
<1>6. ASSUME NEW c \in Groups
      PROVE  /\ st'[GroupTask(c)] \notin {"read", "join"} => HelpersOver(c)'
             /\ c >= next' => st'[GroupTask(c)] = "none"
  <2>1. CASE c = b
    <3>1. ~(c >= next')
      BY <1>2, <1>3, <1>5, <2>1
    <3> QED  BY <1>5, <2>1, <3>1
  <2>2. CASE c # b
    <3>1. st'[GroupTask(c)] = st[GroupTask(c)] /\ (HelpersOver(c) => HelpersOver(c)') /\ next' = next
      BY <1>3, <1>4, <2>2
    <3>2. /\ st[GroupTask(c)] \notin {"read", "join"} => HelpersOver(c)
          /\ c >= next => st[GroupTask(c)] = "none"
      BY DEF Nested
    <3> QED  BY <3>1, <3>2
  <2> QED  BY <2>1, <2>2
<1> QED  BY <1>2, <1>3, <1>6 DEF Nested, InGroup

LEMMA GroupStepNested == ASSUME IInv, Nested, NEW b \in Groups, GroupStep(b) PROVE Nested'
<1>0. GroupTask(b) \in Tasks /\ ~IsHelper(GroupTask(b)) /\ GroupTask(b)[1] = b
  BY TasksAre
<1>1. CASE OpenDone(b)
  BY <1>1, OpenDoneNested
<1>2. CASE TaskStarts(b) \/ OpenFails(b) \/ Joined(b) \/ TaskReaped(b)
  <2>1. st[GroupTask(b)] \in {"created", "open", "join", "raised"} /\ next' = next
    BY <1>2 DEF TaskStarts, OpenFails, Joined, TaskReaped
  <2>2. st[GroupTask(b)] \notin Over
    BY <2>1 DEF Over
  <2>3. HelpersOver(b)
    BY <1>2, <2>1 DEF Nested, TaskStarts, OpenFails, Joined, TaskReaped
  <2>4. main \in InGroup
    BY <1>0, <2>2, TaskInside
  <2>5. main' \in InGroup
    BY <1>2, <2>4 DEF TaskStarts, OpenFails, Joined, TaskReaped, Release, semVars, InGroup
  <2>6. \E e : st' = [st EXCEPT ![GroupTask(b)] = e]
    BY <1>2 DEF TaskStarts, OpenFails, Joined, TaskReaped
  <2>7. PICK e : st' = [st EXCEPT ![GroupTask(b)] = e]
    BY <2>6
  <2> QED  BY <1>0, <2>1, <2>2, <2>3, <2>5, <2>7, OneTaskNested
<1> QED  BY <1>1, <1>2 DEF GroupStep

LEMMA TaskStepNested == ASSUME IInv, Nested, NEW t \in Tasks, TaskStep(t) PROVE Nested'
<1>1. st[t] \in {"created", "read", "raised", "open", "join"}
  BY DEF TaskStep, HelperStarts, ReadDone, ReadFails, HelperReaped, CancelCreated, CancelAtOnce,
         CancelGroup
<1>2. st[t] \notin Over
  BY <1>1 DEF Over
<1>3. main \in InGroup /\ next' = next
  BY <1>2, TaskInside DEF TaskStep, HelperStarts, ReadDone, ReadFails, HelperReaped, CancelCreated,
     CancelAtOnce, CancelGroup
<1>4. main' \in InGroup
  BY <1>3 DEF TaskStep, HelperStarts, ReadDone, ReadFails, HelperReaped, CancelCreated, CancelAtOnce,
     CancelGroup, TakeRun, Drained, Release, semVars, InGroup
<1>5. \E e : /\ st' = [st EXCEPT ![t] = e]
             /\ ~IsHelper(t) /\ e \notin {"read", "join"} => HelpersOver(t[1])
  <2>1. CASE HelperStarts(t) \/ ReadDone(t)
    BY <2>1 DEF HelperStarts, ReadDone, TakeRun, Drained
  <2>2. CASE ReadFails(t)
    BY <2>2 DEF ReadFails
  <2>3. CASE HelperReaped(t)
    BY <2>3 DEF HelperReaped
  <2>4. CASE CancelCreated(t)
    <3>1. ~IsHelper(t) => t = GroupTask(t[1]) /\ t[1] \in Groups
      BY TasksAre DEF IsHelper, GroupTask
    <3>2. ~IsHelper(t) => HelpersOver(t[1])
      BY <2>4, <3>1 DEF CancelCreated, Nested
    <3> QED  BY <2>4, <3>2 DEF CancelCreated
  <2>5. CASE CancelAtOnce(t)
    BY <2>5 DEF CancelAtOnce
  <2>6. CASE CancelGroup(t)
    BY <2>6 DEF CancelGroup
  <2> QED  BY <2>1, <2>2, <2>3, <2>4, <2>5, <2>6 DEF TaskStep
<1>6. PICK e : /\ st' = [st EXCEPT ![t] = e]
               /\ ~IsHelper(t) /\ e \notin {"read", "join"} => HelpersOver(t[1])
  BY <1>5
<1> QED  BY <1>2, <1>3, <1>4, <1>6, OneTaskNested

LEMMA MainStepNested == ASSUME IInv, Nested, MainStep PROVE Nested'
<1>0. next \in Int /\ next \in Nat /\ value \in Nat
  BY ExecChunksAssumption DEF IInv, TypeOK
<1>1. CASE Start
  <2>1. CASE Dispatch(value)
    BY <1>0, <2>1, DispatchNested
  <2>2. CASE main' = "serial-open" /\ UNCHANGED <<st, next, value>>
    BY <1>0, <1>1, <2>2, NoTaskNested DEF Start, Nested, InGroup
  <2> QED  BY <1>1, <2>1, <2>2 DEF Start
<1>2. CASE Wake
  <2>1. value + 1 \in Nat
    BY <1>0
  <2> QED  BY <1>2, <2>1, DispatchNested DEF Wake
<1>3. CASE Interrupted
  BY <1>0, <1>3, NoTaskNested DEF Interrupted, InGroup
<1>4. CASE JoinedAll
  BY <1>0, <1>4, NoTaskNested DEF JoinedAll, Finally
<1>5. CASE Closes
  BY <1>0, <1>5, NoTaskNested DEF Closes, Nested, InGroup
<1>6. CASE SerialOpen
  BY <1>0, <1>6, NoTaskNested DEF SerialOpen, Nested, InGroup
<1>7. CASE SerialRead
  <2>1. next' \in Int /\ next' >= next /\ st' = st
    BY <1>0, <1>7 DEF SerialRead
  <2>2. AllOver
    BY <1>7 DEF SerialRead, Nested, InGroup
  <2>3. main' \in {"closing", "ended"} => prefetch' # "running"
    BY <1>7 DEF SerialRead, Finally
  <2> QED  BY <2>1, <2>2, <2>3, NoTaskNested
<1>8. CASE SerialFails \/ SerialInterrupted
  <2>1. AllOver
    BY <1>8 DEF SerialFails, SerialInterrupted, Nested, InGroup
  <2> QED  BY <1>0, <1>8, <2>1, NoTaskNested DEF SerialFails, SerialInterrupted, Finally
<1> QED  BY <1>1, <1>2, <1>3, <1>4, <1>5, <1>6, <1>7, <1>8 DEF MainStep

LEMMA NextNested == IInv /\ Nested /\ [Next]_vars => Nested'
<1> SUFFICES ASSUME IInv, Nested, [Next]_vars PROVE Nested'
  OBVIOUS
<1>0. next \in Int
  BY ExecChunksAssumption DEF IInv, TypeOK
<1>1. CASE MainStep
  BY <1>1, MainStepNested
<1>2. ASSUME NEW b \in Groups, GroupStep(b) PROVE Nested'
  BY <1>2, GroupStepNested
<1>3. ASSUME NEW t \in Tasks, TaskStep(t) PROVE Nested'
  BY <1>3, TaskStepNested
<1>4. CASE PrefetchEnds
  BY <1>0, <1>4, NoTaskNested DEF PrefetchEnds, semVars, Nested
<1>5. CASE Cancel
  BY <1>0, <1>5, NoTaskNested DEF Cancel, semVars, endVars, Nested
<1>6. CASE UNCHANGED vars
  BY <1>0, <1>6, NoTaskNested DEF vars, semVars, endVars, Nested
<1> QED  BY <1>1, <1>2, <1>3, <1>4, <1>5, <1>6 DEF Next, Ended

LEMMA InitNested == Init => Nested
  BY TasksAre, ExecChunksAssumption
     DEF Init, Nested, HelpersOver, HelpersOf, AllOver, Over, InGroup

\* When exec_chunks has returned or raised, no group task, no helper and no done callback of
\* one is left, so nothing can write to a sink its caller now commits or aborts.
THEOREM NothingRunsAfterwards == Spec => []NothingRunsOn
<1>1. IInv /\ Nested => NothingRunsOn
  <2> SUFFICES ASSUME IInv, Nested, main = "ended"
               PROVE  Holding = {} /\ (\A t \in Tasks : st[t] # "raised") /\ prefetch # "running"
    BY DEF NothingRunsOn
  <2>1. \A t \in Tasks : st[t] \in Over
    BY TaskInside DEF InGroup
  <2> QED  BY <2>1 DEF Holding, Live, Over, Nested
<1> QED  BY InitNested, <1>1, NextNested, Inductive, PTL DEF Spec
-----------------------------------------------------------------------------
(* A window tells the truth about itself *)

\* The reads of a group taken so far are those before its deque; each was handed over or has one
\* task that is at it.  A group has none before its bucket is open.
RunsTaken ==
    /\ \A b \in Groups : got[b] \subseteq 1..(queue[b] - 1)
    /\ \A t \in Tasks : st[t] = "read" => run[t] \in 1..(queue[t[1]] - 1)
Untouched ==
    \A b \in Groups :
        \/ st[GroupTask(b)] \in {"created", "open"}
        \/ st[GroupTask(b)] = "none" /\ main \in InGroup \cup {"start"}
        => got[b] = {}
ReadInv == RunsTaken /\ ReadOnce /\ Untouched

\* A failure is on its way to the caller until there is an outcome, and there is no other.
FailureKnown ==
    fails > 0 => \/ errors \/ outcome \in {"failed", "cancelled"}
                 \/ \E t \in Tasks : st[t] = "raised"
                 \/ \E b \in Groups : groupFailed[b] /\ st[GroupTask(b)] \in {"read", "join"}
FailuresAre ==
    /\ errors \/ outcome = "failed" => fails > 0
    /\ \A t \in Tasks : st[t] = "raised" => fails > 0
    /\ \A b \in Groups : groupFailed[b] => fails > 0
\* The group's task does not go on reading once a helper has failed.
FailedIsCancelled ==
    \A b \in Groups : groupFailed[b] =>
        /\ st[GroupTask(b)] \notin {"none", "created", "open"}
        /\ st[GroupTask(b)] = "read" => GroupTask(b) \in cancelled
\* A cancellation is the caller's, or the TaskGroup's own inside it.
OutcomeKnown ==
    /\ main \notin {"closing", "ended"} => outcome = "none"
    /\ outcome = "cancelled" => asked
    /\ main \notin InGroup /\ interrupted => asked
    /\ main \in {"start", "serial-open", "serial-read"} => ~errors
    /\ outcome = "ok" => fails = 0
Undisturbed == fails = 0 /\ ~asked
UndisturbedRuns == Undisturbed => cancelled = {} /\ ~interrupted /\ ~aborting
FailInv == FailureKnown /\ FailuresAre /\ FailedIsCancelled /\ OutcomeKnown /\ UndisturbedRuns

\* What an undisturbed window has read: per group, all that was taken from its deque, which is empty
\* when the group's task is done; groups before the next are dispatched or, serially, complete.
Reading(b) == {run[t] : t \in {u \in Tasks : u[1] = b /\ st[u] = "read"}}
Covered ==
    Undisturbed => \A b \in Groups :
        /\ st[GroupTask(b)] \in {"read", "join", "done"} =>
              1..(queue[b] - 1) \subseteq got[b] \cup Reading(b) /\ queue[b] <= NumRuns[b] + 1
        /\ st[GroupTask(b)] \in {"join", "done"} => queue[b] = NumRuns[b] + 1
Dispatched ==
    Undisturbed =>
        /\ main \in InGroup => \A b \in Groups : b < next => st[GroupTask(b)] # "none"
        /\ main = "join" => next = NumGroups + 1
SerialProgress ==
    /\ main \in {"serial-open", "serial-read"} =>
        \A b \in Groups : IF b < next THEN got[b] = 1..NumRuns[b]
                          ELSE got[b] = 1..(queue[b] - 1) /\ queue[b] <= NumRuns[b]
    /\ main = "start" => next = 1 /\ \A b \in Groups : got[b] = {} /\ queue[b] = 1
CoverInv == Covered /\ Dispatched /\ SerialProgress /\ OkIsComplete

Conserved == Undisturbed => value + Cardinality(Holding) + Granted = maxReads

SoundInv == ReadInv /\ FailInv /\ CoverInv /\ Conserved

-----------------------------------------------------------------------------
(* Each run is read once *)

\* A step that hands nothing over and takes no run, and in which tasks only stop reading.
LEMMA StopsReading ==
  ASSUME IInv, ReadInv, UNCHANGED <<run, queue, got>>,
         \A t \in Tasks : st'[t] = "read" => st[t] = "read",
         \A b \in Groups : st'[GroupTask(b)] \in {"created", "open"} => st[GroupTask(b)] \in {"created", "open"},
         main' \in InGroup \cup {"start"} =>
             /\ main \in InGroup \cup {"start"}
             /\ \A b \in Groups : st'[GroupTask(b)] = "none" => st[GroupTask(b)] = "none"
  PROVE  ReadInv'
<1>1. RunsTaken'
  BY DEF ReadInv, RunsTaken
<1>2. ReadOnce'
  BY DEF ReadInv, ReadOnce
<1>3. Untouched'
  BY DEF ReadInv, Untouched
<1> QED  BY <1>1, <1>2, <1>3 DEF ReadInv

\* A step of one task that takes no run.
LEMMA TaskStopsReading ==
  ASSUME IInv, Nested, ReadInv, NEW t \in Tasks, st[t] \notin Over, NEW e, st' = [st EXCEPT ![t] = e],
         e \notin {"none", "created"}, e = "read" => st[t] = "read", e = "open" => st[t] = "created",
         main' \in InGroup, UNCHANGED <<run, queue, got>>
  PROVE  ReadInv'
<1>1. main \in InGroup
  BY TaskInside
<1>2. \A u \in Tasks : st'[u] = IF u = t THEN e ELSE st[u]
  BY DEF IInv, TypeOK
<1>3. \A b \in Groups : GroupTask(b) \in Tasks
  BY TasksAre
<1> QED  BY <1>1, <1>2, <1>3, StopsReading

\* The next run of a group is none of those taken.
LEMMA TakesNewRun ==
  ASSUME IInv, Nested, ReadInv, NEW t \in Tasks, TakeRun(t), st[t] \in {"created", "read"},
         st[t] = "created" => IsHelper(t),
         \/ got' = got
         \/ st[t] = "read" /\ got' = [got EXCEPT ![t[1]] = @ \cup {run[t]}]
  PROVE  ReadInv'
<1> DEFINE b == t[1]
<1>0. b \in Groups /\ main \in InGroup /\ \A u \in Tasks : u[1] \in Groups
  BY TasksAre, TaskInside DEF Over
<1>1. /\ \A u \in Tasks : st'[u] = IF u = t THEN "read" ELSE st[u]
      /\ \A u \in Tasks : run'[u] = IF u = t THEN queue[b] ELSE run[u]
      /\ \A c \in Groups : queue'[c] = IF c = b THEN queue[b] + 1 ELSE queue[c]
      /\ main' = main
  BY <1>0 DEF TakeRun, semVars, IInv, TypeOK
<1>2. \A c \in Groups : queue[c] \in Nat \ {0} /\ got[c] \in SUBSET Nat
  BY DEF IInv, TypeOK
<1>3. /\ \A c \in Groups : got[c] \subseteq 1..(queue[c] - 1)
      /\ \A u \in Tasks : st[u] = "read" => run[u] \in 1..(queue[u[1]] - 1) /\ run[u] \notin got[u[1]]
      /\ \A u, x \in Tasks : st[u] = "read" /\ st[x] = "read" /\ x # u /\ x[1] = u[1] => run[x] # run[u]
  BY DEF ReadInv, RunsTaken, ReadOnce
<1>4. \A c \in Groups : \A r \in got'[c] : r \in got[c] \/ (c = b /\ st[t] = "read" /\ r = run[t])
  BY <1>0 DEF IInv, TypeOK
<1> HIDE DEF b
<1>5. RunsTaken'
  <2>1. ASSUME NEW c \in Groups PROVE got'[c] \subseteq 1..(queue'[c] - 1)
    <3>1. \A r \in got'[c] : r \in 1..(queue[c] - 1)
      BY <1>3, <1>4 DEF b
    <3>2. 1..(queue[c] - 1) \subseteq 1..(queue'[c] - 1)
      BY <1>0, <1>1, <1>2
    <3> QED  BY <3>1, <3>2
  <2>2. ASSUME NEW u \in Tasks, st'[u] = "read" PROVE run'[u] \in 1..(queue'[u[1]] - 1)
    <3>1. CASE u = t
      BY <1>0, <1>1, <1>2, <3>1 DEF b
    <3>2. CASE u # t
      BY <1>0, <1>1, <1>2, <1>3, <2>2, <3>2
    <3> QED  BY <3>1, <3>2
  <2> QED  BY <2>1, <2>2 DEF RunsTaken
<1>6. ASSUME NEW u \in Tasks, st'[u] = "read" PROVE run'[u] \notin got'[u[1]]
  <2>1. CASE u = t
    <3>1. run'[u] = queue[b] /\ u[1] = b /\ queue[b] \in Nat
      BY <1>0, <1>1, <1>2, <2>1 DEF b
    <3>2. \A r \in got'[b] : r \in 1..(queue[b] - 1)
      BY <1>0, <1>3, <1>4 DEF b
    <3> QED  BY <3>1, <3>2
  <2>2. CASE u # t
    BY <1>0, <1>1, <1>3, <1>4, <1>6, <2>2 DEF b
  <2> QED  BY <2>1, <2>2
<1>7. ASSUME NEW u \in Tasks, NEW x \in Tasks, st'[u] = "read", st'[x] = "read", x # u, x[1] = u[1]
      PROVE  run'[x] # run'[u]
  <2>1. \A y \in Tasks : y # t /\ st'[y] = "read" /\ y[1] = b => run'[y] \in 1..(queue[b] - 1)
    BY <1>1, <1>3
  <2>2. queue[b] \notin 1..(queue[b] - 1) /\ run'[t] = queue[b]
    BY <1>0, <1>1, <1>2
  <2> QED  BY <1>1, <1>3, <1>7, <2>1, <2>2 DEF b
<1>8. Untouched'
  <2> SUFFICES ASSUME NEW c \in Groups,
                      \/ st'[GroupTask(c)] \in {"created", "open"}
                      \/ st'[GroupTask(c)] = "none" /\ main' \in InGroup \cup {"start"}
               PROVE  got'[c] = {}
    BY DEF Untouched
  <2>1. GroupTask(c) \in Tasks /\ GroupTask(c)[1] = c /\ st'[GroupTask(c)] = st[GroupTask(c)] /\ t # GroupTask(c)
    BY <1>1, TasksAre
  <2>2. got[c] = {}
    BY <1>1, <2>1 DEF ReadInv, Untouched
  <2>3. ~ (c = b /\ st[t] = "read")
    <3> SUFFICES ASSUME c = b, st[t] = "read" PROVE FALSE
      OBVIOUS
    <3>1. IsHelper(t)
      BY <2>1, TasksAre DEF b, IsHelper, GroupTask
    <3>2. st[GroupTask(c)] \in {"read", "join"}
      BY <3>1, TaskInside DEF b, Over
    <3> QED  BY <2>1, <3>2
  <2> QED  BY <1>4, <2>2, <2>3
<1> QED  BY <1>5, <1>6, <1>7, <1>8 DEF ReadInv, ReadOnce

\* A task finds its deque empty.
LEMMA DrainedReadsNone ==
  ASSUME IInv, Nested, ReadInv, NEW t \in Tasks, Drained(t), st[t] \in {"created", "read"},
         \/ got' = got
         \/ st[t] = "read" /\ got' = [got EXCEPT ![t[1]] = @ \cup {run[t]}]
  PROVE  ReadInv'
<1>0. t[1] \in Groups /\ main \in InGroup /\ \A u \in Tasks : u[1] \in Groups
  BY TasksAre, TaskInside DEF Over
<1>1. main' \in InGroup /\ UNCHANGED <<run, queue>>
  BY <1>0 DEF Drained, Release, semVars, InGroup
<1>2. \E e \in {"done", "join"} : st' = [st EXCEPT ![t] = e]
  BY DEF Drained
<1>3. PICK e \in {"done", "join"} : st' = [st EXCEPT ![t] = e]
  BY <1>2
<1>4. CASE got' = got
  BY <1>1, <1>3, <1>4, TaskStopsReading DEF Over
<1>5. CASE st[t] = "read" /\ got' = [got EXCEPT ![t[1]] = @ \cup {run[t]}]
  <2>1. \A u \in Tasks : st'[u] = IF u = t THEN e ELSE st[u]
    BY <1>3 DEF IInv, TypeOK
  <2>2. /\ \A c \in Groups : got[c] \subseteq 1..(queue[c] - 1)
        /\ \A u \in Tasks : st[u] = "read" => run[u] \in 1..(queue[u[1]] - 1) /\ run[u] \notin got[u[1]]
        /\ \A u, x \in Tasks : st[u] = "read" /\ st[x] = "read" /\ x # u /\ x[1] = u[1] => run[x] # run[u]
    BY DEF ReadInv, RunsTaken, ReadOnce
  <2>3. \A c \in Groups : got'[c] = IF c = t[1] THEN got[c] \cup {run[t]} ELSE got[c]
    BY <1>0, <1>5 DEF IInv, TypeOK
  <2>4. RunsTaken'
    BY <1>0, <1>1, <1>5, <2>1, <2>2, <2>3 DEF RunsTaken
  <2>5. ReadOnce'
    BY <1>0, <1>1, <1>5, <2>1, <2>2, <2>3 DEF ReadOnce
  <2>6. Untouched'
    <3> SUFFICES ASSUME NEW c \in Groups,
                        \/ st'[GroupTask(c)] \in {"created", "open"}
                        \/ st'[GroupTask(c)] = "none" /\ main' \in InGroup \cup {"start"}
                 PROVE  got'[c] = {}
      BY DEF Untouched
    <3>1. GroupTask(c) \in Tasks /\ GroupTask(c)[1] = c /\ t # GroupTask(c) /\ st'[GroupTask(c)] = st[GroupTask(c)]
      BY <2>1, TasksAre
    <3>2. c # t[1]
      <4> SUFFICES ASSUME c = t[1] PROVE FALSE
        OBVIOUS
      <4>1. IsHelper(t)
        BY <3>1, TasksAre DEF IsHelper, GroupTask
      <4>2. st[GroupTask(c)] \in {"read", "join"}
        BY <1>5, <4>1, TaskInside DEF Over
      <4> QED  BY <3>1, <4>2
    <3> QED  BY <1>0, <2>3, <3>1, <3>2 DEF ReadInv, Untouched
  <2> QED  BY <2>4, <2>5, <2>6 DEF ReadInv
<1> QED  BY <1>4, <1>5

\* The task of a group whose bucket opened takes its first run.
LEMMA OpenTakesRun ==
  ASSUME IInv, Nested, ReadInv, NEW b \in Groups, OpenDone(b)
  PROVE  ReadInv'
<1>1. GroupTask(b) \in Tasks /\ st[GroupTask(b)] = "open" /\ GroupTask(b)[1] = b /\ main \in InGroup
  BY TasksAre, TaskInside DEF OpenDone, Over
<1>2. got[b] = {} /\ \A u \in Tasks : u[1] = b => st[u] # "read"
  <2>1. HelpersOver(b)
    BY <1>1 DEF Nested
  <2>2. \A u \in Tasks : u[1] = b => u = GroupTask(b) \/ st[u] \in Over
    BY <2>1, TasksAre DEF HelpersOver, HelpersOf, IsHelper, GroupTask
  <2> QED  BY <1>1, <2>2 DEF ReadInv, Untouched, Over
<1>3. /\ \A u \in Tasks : st'[u] = "read" <=> u = GroupTask(b) \/ (st[u] = "read" /\ u[1] # b)
      /\ \A u \in Tasks : u[1] # b => st'[u] = st[u]
      /\ main' = main /\ got' = got
  BY <1>1, <1>2 DEF OpenDone
<1>4. /\ \A u \in Tasks : run'[u] = IF u = GroupTask(b) THEN 1 ELSE run[u]
      /\ \A c \in Groups : queue'[c] = IF c = b THEN 2 ELSE queue[c]
  BY <1>1 DEF OpenDone, IInv, TypeOK
<1>5. RunsTaken'
  <2>1. \A c \in Groups : got'[c] \subseteq 1..(queue'[c] - 1)
    BY <1>2, <1>3, <1>4 DEF ReadInv, RunsTaken
  <2>2. ASSUME NEW u \in Tasks, st'[u] = "read" PROVE run'[u] \in 1..(queue'[u[1]] - 1)
    <3>1. CASE u = GroupTask(b)
      BY <1>1, <1>4, <3>1
    <3>2. CASE u # GroupTask(b)
      BY <1>3, <1>4, <2>2, <3>2, TasksAre DEF ReadInv, RunsTaken
    <3> QED  BY <3>1, <3>2
  <2> QED  BY <2>1, <2>2 DEF RunsTaken
<1>6. ReadOnce'
  BY <1>1, <1>2, <1>3, <1>4, TasksAre DEF ReadInv, ReadOnce
<1>7. Untouched'
  <2> SUFFICES ASSUME NEW c \in Groups,
                      \/ st'[GroupTask(c)] \in {"created", "open"}
                      \/ st'[GroupTask(c)] = "none" /\ main' \in InGroup \cup {"start"}
               PROVE  got'[c] = {}
    BY DEF Untouched
  <2>1. GroupTask(c) \in Tasks /\ GroupTask(c)[1] = c
    BY TasksAre
  <2>2. CASE c = b
    BY <1>2, <1>3, <2>2
  <2>3. CASE c # b
    BY <1>3, <2>1, <2>3 DEF ReadInv, Untouched
  <2> QED  BY <2>2, <2>3
<1> QED  BY <1>5, <1>6, <1>7 DEF ReadInv

\* Tasks are created for groups of which nothing was read.
LEMMA DispatchReads ==
  ASSUME IInv, Nested, ReadInv, NEW v \in Nat, Dispatch(v), main \in {"start", "granted"}, UNCHANGED groupVars
  PROVE  ReadInv'
<1>1. \A b \in Groups : b >= next => st[GroupTask(b)] = "none"
  BY DEF Nested
<1>2. /\ \A t \in Tasks : st'[t] = st[t] \/ (st'[t] = "created" /\ ~IsHelper(t) /\ t[1] >= next)
      /\ main' \in InGroup
  BY DEF Dispatch, InGroup
<1>3. UNCHANGED <<run, queue, got>>
  BY DEF groupVars
<1>4. RunsTaken'
  BY <1>2, <1>3 DEF ReadInv, RunsTaken
<1>5. ReadOnce'
  BY <1>2, <1>3 DEF ReadInv, ReadOnce
<1>6. Untouched'
  <2> SUFFICES ASSUME NEW c \in Groups,
                      \/ st'[GroupTask(c)] \in {"created", "open"}
                      \/ st'[GroupTask(c)] = "none" /\ main' \in InGroup \cup {"start"}
               PROVE  got'[c] = {}
    BY DEF Untouched
  <2>1. GroupTask(c) \in Tasks /\ GroupTask(c)[1] = c
    BY TasksAre
  <2>2. st[GroupTask(c)] = "none" \/ st'[GroupTask(c)] = st[GroupTask(c)]
    BY <1>1, <1>2, <2>1
  <2> QED  BY <1>3, <2>2 DEF ReadInv, Untouched, InGroup
<1> QED  BY <1>4, <1>5, <1>6 DEF ReadInv

LEMMA GroupStepReads == ASSUME IInv, Nested, ReadInv, NEW b \in Groups, GroupStep(b) PROVE ReadInv'
<1>0. GroupTask(b) \in Tasks
  BY TasksAre
<1>1. CASE OpenDone(b)
  BY <1>1, OpenTakesRun
<1>2. CASE TaskStarts(b) \/ OpenFails(b) \/ Joined(b) \/ TaskReaped(b)
  <2>1. st[GroupTask(b)] \in {"created", "open", "join", "raised"} /\ UNCHANGED <<run, queue, got>>
    BY <1>2 DEF TaskStarts, OpenFails, Joined, TaskReaped, groupVars
  <2>2. main' \in InGroup
    <3>1. main \in InGroup
      BY <1>0, <2>1, TaskInside DEF Over
    <3> QED  BY <1>2, <3>1 DEF TaskStarts, OpenFails, Joined, TaskReaped, Release, semVars, InGroup
  <2>3. \E e \in {"open", "raised", "done"} : /\ st' = [st EXCEPT ![GroupTask(b)] = e]
                                              /\ e = "open" => st[GroupTask(b)] = "created"
    BY <1>2 DEF TaskStarts, OpenFails, Joined, TaskReaped
  <2>4. PICK e \in {"open", "raised", "done"} : /\ st' = [st EXCEPT ![GroupTask(b)] = e]
                                                /\ e = "open" => st[GroupTask(b)] = "created"
    BY <2>3
  <2> QED  BY <1>0, <2>1, <2>2, <2>4, TaskStopsReading DEF Over
<1> QED  BY <1>1, <1>2 DEF GroupStep

LEMMA TaskStepReads == ASSUME IInv, Nested, ReadInv, NEW t \in Tasks, TaskStep(t) PROVE ReadInv'
<1>1. CASE HelperStarts(t)
  BY <1>1, TakesNewRun, DrainedReadsNone DEF HelperStarts
<1>2. CASE ReadDone(t)
  BY <1>2, TakesNewRun, DrainedReadsNone DEF ReadDone
<1>3. CASE ReadFails(t) \/ HelperReaped(t) \/ CancelCreated(t) \/ CancelAtOnce(t) \/ CancelGroup(t)
  <2>1. st[t] \in {"created", "read", "raised", "open", "join"} /\ UNCHANGED <<run, queue, got>>
    BY <1>3 DEF ReadFails, HelperReaped, CancelCreated, CancelAtOnce, CancelGroup, groupVars
  <2>2. main' \in InGroup
    <3>1. main \in InGroup
      BY <2>1, TaskInside DEF Over
    <3> QED  BY <1>3, <3>1 DEF ReadFails, HelperReaped, CancelCreated, CancelAtOnce, CancelGroup, Release, semVars,
                               InGroup
  <2>3. \E e \in {"raised", "done", "join"} : st' = [st EXCEPT ![t] = e]
    BY <1>3 DEF ReadFails, HelperReaped, CancelCreated, CancelAtOnce, CancelGroup
  <2>4. PICK e \in {"raised", "done", "join"} : st' = [st EXCEPT ![t] = e]
    BY <2>3
  <2> QED  BY <2>1, <2>2, <2>4, TaskStopsReading DEF Over
<1> QED  BY <1>1, <1>2, <1>3 DEF TaskStep

\* The serial path has no task; it reads the next run of its group.
LEMMA SerialReads == ASSUME IInv, Nested, ReadInv, SerialRead PROVE ReadInv'
<1>1. \A t \in Tasks : st[t] \in Over
  BY TaskInside DEF SerialRead, InGroup
<1>2. next \in Groups /\ queue[next] \in Nat \ {0}
  BY DEF SerialRead, IInv, SerialGroup, TypeOK
<1>3. /\ st' = st /\ main' \notin InGroup \cup {"start"} /\ run' = run
      /\ \A c \in Groups : got'[c] = IF c = next THEN got[c] \cup {queue[c]} ELSE got[c]
      /\ \A c \in Groups : queue'[c] = IF c = next THEN queue[c] + 1 ELSE queue[c]
  BY <1>2 DEF SerialRead, Finally, InGroup, IInv, TypeOK
<1>4. RunsTaken'
  <2>1. ASSUME NEW c \in Groups PROVE got'[c] \subseteq 1..(queue'[c] - 1)
    <3>1. got[c] \subseteq 1..(queue[c] - 1) /\ queue[c] \in Nat \ {0}
      BY DEF ReadInv, RunsTaken, IInv, TypeOK
    <3>2. CASE c = next
      <4>1. got'[c] = got[c] \cup {queue[c]} /\ queue'[c] = queue[c] + 1
        BY <1>3, <3>2
      <4>2. queue'[c] - 1 = queue[c]
        BY <3>1, <4>1
      <4>3. \A r \in got[c] \cup {queue[c]} : r \in 1..queue[c]
        BY <3>1
      <4> QED  BY <4>1, <4>2, <4>3
    <3>3. CASE c # next
      BY <1>3, <3>1, <3>3
    <3> QED  BY <3>2, <3>3
  <2>2. \A t \in Tasks : st'[t] # "read"
    BY <1>1, <1>3 DEF Over
  <2> QED  BY <2>1, <2>2 DEF RunsTaken
<1>5. ReadOnce' /\ Untouched'
  BY <1>1, <1>3, TasksAre DEF ReadOnce, Untouched, Over
<1> QED  BY <1>4, <1>5 DEF ReadInv

LEMMA NextReads == IInv /\ Nested /\ ReadInv /\ [Next]_vars => ReadInv'
<1> SUFFICES ASSUME IInv, Nested, ReadInv, [Next]_vars PROVE ReadInv'
  OBVIOUS
<1>0. value \in Nat /\ value + 1 \in Nat
  BY DEF IInv, TypeOK
<1>1. CASE Start
  <2>1. CASE Dispatch(value)
    BY <1>0, <1>1, <2>1, DispatchReads DEF Start
  <2>2. CASE main' = "serial-open" /\ UNCHANGED <<st, next, value>>
    BY <1>1, <2>2, StopsReading DEF Start, groupVars, InGroup
  <2> QED  BY <1>1, <2>1, <2>2 DEF Start
<1>2. CASE Wake
  BY <1>0, <1>2, DispatchReads DEF Wake
<1>3. CASE SerialRead
  BY <1>3, SerialReads
<1>4. CASE Interrupted \/ JoinedAll \/ Closes \/ SerialOpen \/ SerialFails \/ SerialInterrupted
  <2>1. UNCHANGED <<st, run, queue, got>>
    BY <1>4 DEF Interrupted, JoinedAll, Closes, SerialOpen, SerialFails, SerialInterrupted, groupVars
  <2>2. main' \in InGroup \cup {"start"} => main \in InGroup
    BY <1>4 DEF Interrupted, JoinedAll, Closes, SerialOpen, SerialFails, SerialInterrupted, Finally, InGroup
  <2> QED  BY <2>1, <2>2, StopsReading
<1>5. ASSUME NEW b \in Groups, GroupStep(b) PROVE ReadInv'
  BY <1>5, GroupStepReads
<1>6. ASSUME NEW t \in Tasks, TaskStep(t) PROVE ReadInv'
  BY <1>6, TaskStepReads
<1>7. CASE PrefetchEnds \/ Cancel \/ UNCHANGED vars
  <2>1. UNCHANGED <<st, run, queue, got, main>>
    BY <1>7 DEF PrefetchEnds, Cancel, vars, semVars, groupVars
  <2> QED  BY <2>1, StopsReading
<1> QED  BY <1>1, <1>2, <1>3, <1>4, <1>5, <1>6, <1>7 DEF Next, MainStep, Ended

-----------------------------------------------------------------------------
(* A failure reaches the caller *)

\* A step of tasks that neither fails nor ends a failed one: a group's task that stops reading or
\* waiting while its group failed raises.
LEMMA TasksGoOn ==
  ASSUME IInv, FailInv, UNCHANGED <<flagVars, outcome, fails>>, main \in InGroup, main' \in InGroup,
         cancelled = {} => cancelled' = {},
         \A t \in Tasks : st[t] = "raised" => st'[t] = "raised",
         \A t \in Tasks : st'[t] = "raised" => st[t] = "raised" \/ groupFailed[t[1]],
         \A b \in Groups : groupFailed[b] =>
             /\ st'[GroupTask(b)] \notin {"none", "created", "open"}
             /\ st'[GroupTask(b)] = "read" => GroupTask(b) \in cancelled'
             /\ st[GroupTask(b)] \in {"read", "join"} => st'[GroupTask(b)] \in {"read", "join", "raised"}
  PROVE  FailInv'
<1>0. \A b \in Groups : GroupTask(b) \in Tasks
  BY TasksAre
<1>1. FailureKnown'
  BY <1>0 DEF FailInv, FailureKnown, flagVars
<1>2. FailuresAre'
  BY TasksAre DEF FailInv, FailuresAre, flagVars
<1>3. FailedIsCancelled'
  BY DEF FailedIsCancelled, flagVars
<1>4. OutcomeKnown'
  BY DEF FailInv, OutcomeKnown, flagVars, InGroup
<1>5. UndisturbedRuns'
  BY DEF FailInv, UndisturbedRuns, Undisturbed, flagVars
<1> QED  BY <1>1, <1>2, <1>3, <1>4, <1>5 DEF FailInv

\* A step after which a failure is known and the tasks are cancelled or raise.
LEMMA TaskFails ==
  ASSUME IInv, FailInv, UNCHANGED <<outcome, asked>>, main \in InGroup, main' \in InGroup, fails' \in Nat, fails' > 0,
         \/ errors'
         \/ \E t \in Tasks : st'[t] = "raised"
         \/ \E b \in Groups : groupFailed'[b] /\ st'[GroupTask(b)] \in {"read", "join"},
         \A b \in Groups : groupFailed'[b] =>
             /\ st'[GroupTask(b)] \notin {"none", "created", "open"}
             /\ st'[GroupTask(b)] = "read" => GroupTask(b) \in cancelled'
  PROVE  FailInv'
<1>1. FailureKnown' /\ FailuresAre' /\ FailedIsCancelled' /\ UndisturbedRuns'
  BY DEF FailureKnown, FailuresAre, FailedIsCancelled, UndisturbedRuns, Undisturbed
<1>2. OutcomeKnown'
  BY DEF FailInv, OutcomeKnown, InGroup
<1> QED  BY <1>1, <1>2 DEF FailInv

\* A step that changes no task and no failure.
LEMMA OnlyMainFails ==
  ASSUME IInv, FailInv, UNCHANGED <<st, cancelled, groupFailed, errors, fails>>,
         outcome \in {"failed", "cancelled"} => outcome' \in {"failed", "cancelled"},
         outcome' = "failed" => outcome = "failed",
         asked => asked', Undisturbed' => UNCHANGED <<interrupted, aborting>>,
         OutcomeKnown'
  PROVE  FailInv'
<1>1. FailureKnown' /\ FailuresAre' /\ FailedIsCancelled'
  BY DEF FailInv, FailureKnown, FailuresAre, FailedIsCancelled
<1>2. UndisturbedRuns'
  BY DEF FailInv, UndisturbedRuns, Undisturbed
<1> QED  BY <1>1, <1>2 DEF FailInv

LEMMA GroupStepFails == ASSUME IInv, Nested, FailInv, NEW b \in Groups, GroupStep(b) PROVE FailInv'
<1>0. GroupTask(b) \in Tasks /\ GroupTask(b)[1] = b /\ ~IsHelper(GroupTask(b))
  BY TasksAre
<1>g. ASSUME NEW c \in Groups, NEW d \in Groups, GroupTask(c) = GroupTask(d) PROVE c = d
  BY <1>g, TasksAre
<1>c. \A c \in Groups : GroupTask(c) \in Tasks
  BY TasksAre
<1>m. main \in InGroup /\ main' \in InGroup
  <2>1. st[GroupTask(b)] \in {"created", "open", "join", "raised"}
    BY DEF GroupStep, TaskStarts, OpenDone, OpenFails, Joined, TaskReaped
  <2>2. main \in InGroup
    BY <1>0, <2>1, TaskInside DEF Over
  <2> QED  BY <2>2 DEF GroupStep, TaskStarts, OpenDone, OpenFails, Joined, TaskReaped, Release, semVars, InGroup
<1>f. \A c \in Groups : groupFailed[c] =>
          /\ st[GroupTask(c)] \notin {"none", "created", "open"}
          /\ st[GroupTask(c)] = "read" => GroupTask(c) \in cancelled
  BY DEF FailInv, FailedIsCancelled
<1>1. CASE TaskStarts(b)
  <2>1. /\ \A t \in Tasks : st'[t] = IF t = GroupTask(b) THEN "open" ELSE st[t]
        /\ ~groupFailed[b] /\ UNCHANGED <<flagVars, outcome, fails, cancelled>> /\ st[GroupTask(b)] = "created"
    BY <1>0, <1>1, <1>f DEF TaskStarts, IInv, TypeOK, endVars, countVars
  <2> QED  BY <1>c, <1>m, <1>f, <1>g, <2>1, TasksGoOn
<1>2. CASE OpenDone(b)
  <2>1. /\ st[GroupTask(b)] = "open" /\ ~groupFailed[b] /\ UNCHANGED <<flagVars, outcome, fails, cancelled>>
        /\ \A c \in Groups : c # b => st'[GroupTask(c)] = st[GroupTask(c)]
    BY <1>0, <1>2, <1>f, TasksAre DEF OpenDone, endVars, countVars
  <2>2. HelpersOver(b)
    BY <2>1 DEF Nested
  <2>3. \A t \in Tasks : st'[t] # st[t] => st[t] \in {"open", "none", "done"} /\ st'[t] \in {"read", "created"}
    <3>1. \A t \in Tasks : t[1] = b /\ t # GroupTask(b) => st[t] \in Over
      BY <2>2, TasksAre DEF HelpersOver, HelpersOf, IsHelper, GroupTask
    <3> QED  BY <1>2, <2>1, <3>1 DEF OpenDone, Over
  <2> QED  BY <1>m, <1>f, <2>1, <2>3, TasksGoOn
<1>3. CASE OpenFails(b)
  <2>1. /\ \A t \in Tasks : st'[t] = IF t = GroupTask(b) THEN "raised" ELSE st[t]
        /\ fails' = fails + 1 /\ UNCHANGED <<outcome, asked, groupFailed, cancelled>>
    BY <1>0, <1>3 DEF OpenFails, Fail, IInv, TypeOK, endVars, flagVars
  <2>2. fails' \in Nat /\ fails' > 0
    BY <2>1, ExecChunksAssumption DEF IInv, TypeOK
  <2> QED  BY <1>0, <1>c, <1>m, <1>f, <2>1, <2>2, TaskFails
<1>4. CASE Joined(b)
  <2>1. /\ \A t \in Tasks : st'[t] = IF t = GroupTask(b) THEN IF groupFailed[b] THEN "raised" ELSE "done" ELSE st[t]
        /\ UNCHANGED <<flagVars, outcome, fails, cancelled>> /\ st[GroupTask(b)] = "join"
    BY <1>0, <1>4 DEF Joined, IInv, TypeOK, endVars, countVars
  <2> QED  BY <1>0, <1>c, <1>m, <1>f, <1>g, <2>1, TasksGoOn
<1>5. CASE TaskReaped(b)
  <2>1. /\ \A t \in Tasks : st'[t] = IF t = GroupTask(b) THEN "done" ELSE st[t]
        /\ UNCHANGED <<fails, outcome, asked, groupFailed>> /\ errors' /\ cancelled \subseteq cancelled'
        /\ st[GroupTask(b)] = "raised"
    BY <1>0, <1>5 DEF TaskReaped, IInv, TypeOK, endVars, countVars
  <2>2. fails' \in Nat /\ fails' > 0
    BY <1>0, <2>1, ExecChunksAssumption DEF IInv, TypeOK, FailInv, FailuresAre
  <2> QED  BY <1>0, <1>c, <1>m, <1>f, <2>1, <2>2, TaskFails
<1> QED  BY <1>1, <1>2, <1>3, <1>4, <1>5 DEF GroupStep

LEMMA TaskStepFails == ASSUME IInv, Nested, FailInv, NEW t \in Tasks, TaskStep(t) PROVE FailInv'
<1> DEFINE b == t[1]
<1>0. b \in Groups /\ GroupTask(b) \in Tasks /\ (~IsHelper(t) => t = GroupTask(b))
  BY TasksAre DEF IsHelper, GroupTask
<1>c. \A c \in Groups : GroupTask(c) \in Tasks /\ GroupTask(c)[1] = c
  BY TasksAre
<1>h. \A c \in Groups : ~IsHelper(GroupTask(c))
  BY TasksAre
<1> HIDE DEF b
<1>m. main \in InGroup /\ main' \in InGroup /\ (IsHelper(t) => st[GroupTask(b)] \in {"read", "join"})
  <2>1. st[t] \in {"created", "read", "raised", "open", "join"}
    BY DEF TaskStep, HelperStarts, ReadDone, ReadFails, HelperReaped, CancelCreated, CancelAtOnce, CancelGroup
  <2>2. main \in InGroup /\ (IsHelper(t) => st[GroupTask(b)] \in {"read", "join"})
    BY <2>1, TaskInside DEF Over, b
  <2> QED  BY <2>2 DEF TaskStep, HelperStarts, ReadDone, ReadFails, HelperReaped, CancelCreated, CancelAtOnce, CancelGroup,
              TakeRun, Drained, Release, semVars, InGroup
<1>f. \A c \in Groups : groupFailed[c] =>
          /\ st[GroupTask(c)] \notin {"none", "created", "open"}
          /\ st[GroupTask(c)] = "read" => GroupTask(c) \in cancelled
  BY DEF FailInv, FailedIsCancelled
<1>1. CASE HelperStarts(t) \/ ReadDone(t)
  <2>1. /\ t \notin cancelled /\ st[t] \in {"created", "read"} /\ (st[t] = "created" => IsHelper(t))
        /\ UNCHANGED <<flagVars, outcome, fails, cancelled>>
    BY <1>1 DEF HelperStarts, ReadDone, endVars, countVars
  <2>2. \E e \in {"read", "join", "done"} : \A u \in Tasks : st'[u] = IF u = t THEN e ELSE st[u]
    BY <1>1 DEF HelperStarts, ReadDone, TakeRun, Drained, IInv, TypeOK
  <2>3. PICK e \in {"read", "join", "done"} : \A u \in Tasks : st'[u] = IF u = t THEN e ELSE st[u]
    BY <2>2
  <2>4. \A c \in Groups : groupFailed[c] => GroupTask(c) # t
    BY <1>f, <1>h, <2>1
  <2> QED  BY <1>c, <1>m, <1>f, <2>1, <2>3, <2>4, TasksGoOn
<1>2. CASE ReadFails(t)
  <2>1. fails' = fails + 1 /\ UNCHANGED <<outcome, asked>> /\ t \notin cancelled /\ st[t] = "read"
    BY <1>2 DEF ReadFails, Fail, endVars
  <2>2. fails' \in Nat /\ fails' > 0
    BY <2>1, ExecChunksAssumption DEF IInv, TypeOK
  <2>3. CASE /\ st' = [st EXCEPT ![t] = "raised"] /\ UNCHANGED <<cancelled, groupFailed>>
    <3>1. \A u \in Tasks : st'[u] = IF u = t THEN "raised" ELSE st[u]
      BY <2>3 DEF IInv, TypeOK
    <3> QED  BY <1>c, <1>m, <1>f, <2>1, <2>2, <2>3, <3>1, TaskFails
  <2>4. CASE /\ ~IsHelper(t) /\ st' = [st EXCEPT ![t] = "join"]
             /\ cancelled' = cancelled \cup {h \in HelpersOf(t[1]) : st[h] \in Live}
             /\ groupFailed' = [groupFailed EXCEPT ![t[1]] = TRUE]
    <3>1. \A u \in Tasks : st'[u] = IF u = t THEN "join" ELSE st[u]
      BY <2>4 DEF IInv, TypeOK
    <3>2. groupFailed'[b] /\ \A c \in Groups : c # b => groupFailed'[c] = groupFailed[c]
      BY <1>0, <2>4 DEF b, IInv, TypeOK
    <3>3. t = GroupTask(b) /\ cancelled \subseteq cancelled'
      BY <1>0, <2>4
    <3> QED  BY <1>0, <1>c, <1>m, <1>f, <2>1, <2>2, <3>1, <3>2, <3>3, TaskFails
  <2> QED  BY <1>2, <2>3, <2>4 DEF ReadFails
<1>3. CASE HelperReaped(t)
  <2>1. /\ \A u \in Tasks : st'[u] = IF u = t THEN "done" ELSE st[u]
        /\ groupFailed'[b] /\ \A c \in Groups : c # b => groupFailed'[c] = groupFailed[c]
        /\ UNCHANGED <<outcome, asked, fails>> /\ IsHelper(t)
    BY <1>0, <1>3 DEF HelperReaped, b, endVars, countVars, IInv, TypeOK
  <2>2. fails' \in Nat /\ fails' > 0
    BY <1>3, <2>1, ExecChunksAssumption DEF HelperReaped, IInv, TypeOK, FailInv, FailuresAre
  <2>3. GroupTask(b) \in cancelled' /\ cancelled \subseteq cancelled'
    BY <1>0, <1>3, <1>m, <2>1 DEF HelperReaped, b, Live
  <2>4. \A c \in Groups : GroupTask(c) # t
    BY <1>h, <2>1
  <2> QED  BY <1>0, <1>c, <1>m, <1>f, <2>1, <2>2, <2>3, <2>4, TaskFails
<1>4. CASE CancelCreated(t)
  <2>1. /\ \A u \in Tasks : st'[u] = IF u = t THEN "done" ELSE st[u]
        /\ st[t] = "created" /\ cancelled' = cancelled \ {t} /\ UNCHANGED <<flagVars, outcome, fails>>
    BY <1>4 DEF CancelCreated, endVars, countVars, IInv, TypeOK
  <2>2. \A c \in Groups : groupFailed[c] => GroupTask(c) # t
    BY <1>f, <2>1
  <2> QED  BY <1>c, <1>m, <1>f, <2>1, <2>2, TasksGoOn
<1>5. CASE CancelAtOnce(t)
  <2>1. /\ \A u \in Tasks : st'[u] = IF u = t THEN IF ~IsHelper(t) /\ groupFailed[b] THEN "raised" ELSE "done"
                                     ELSE st[u]
        /\ cancelled' = cancelled \ {t} /\ UNCHANGED <<flagVars, outcome, fails>> /\ st[t] \in {"open", "read"}
    BY <1>5 DEF CancelAtOnce, b, endVars, countVars, IInv, TypeOK
  <2>2. \A c \in Groups : GroupTask(c) = t => c = b /\ ~IsHelper(t)
    BY <1>c, <1>h DEF b
  <2> QED  BY <1>c, <1>m, <1>f, <2>1, <2>2, TasksGoOn DEF b
<1>6. CASE CancelGroup(t)
  <2>1. /\ \A u \in Tasks : st'[u] = IF u = t THEN "join" ELSE st[u]
        /\ UNCHANGED <<flagVars, outcome, fails>> /\ t \in cancelled /\ cancelled \ {t} \subseteq cancelled'
        /\ st[t] \in {"join", "read"}
    BY <1>6 DEF CancelGroup, endVars, countVars, IInv, TypeOK
  <2> QED  BY <1>c, <1>m, <1>f, <2>1, TasksGoOn
<1> QED  BY <1>1, <1>2, <1>3, <1>4, <1>5, <1>6 DEF TaskStep

\* The tasks the dispatch loop creates belong to groups that had none.
LEMMA DispatchFails ==
  ASSUME IInv, Nested, FailInv, NEW v \in Nat, Dispatch(v), UNCHANGED <<cancelled, flagVars, outcome, fails>>,
         main \in {"start", "granted"}
  PROVE  FailInv'
<1>1. \A b \in Groups : b >= next => st[GroupTask(b)] = "none"
  BY DEF Nested
<1>2. /\ \A t \in Tasks : st'[t] = st[t] \/ (st'[t] = "created" /\ ~IsHelper(t) /\ t[1] >= next)
      /\ main' \in InGroup
  BY DEF Dispatch, InGroup
<1>3. \A c \in Groups : GroupTask(c) \in Tasks /\ GroupTask(c)[1] = c
  BY TasksAre
<1>4. \A t \in Tasks : ~IsHelper(t) => t = GroupTask(t[1]) /\ t[1] \in Groups
  BY TasksAre DEF IsHelper, GroupTask
<1>5. \A t \in Tasks : st'[t] = st[t] \/ (st[t] = "none" /\ st'[t] = "created")
  BY <1>1, <1>2, <1>4
<1>6. FailureKnown' /\ FailuresAre'
  BY <1>3, <1>5 DEF FailInv, FailureKnown, FailuresAre, flagVars
<1>7. FailedIsCancelled'
  BY <1>3, <1>5 DEF FailInv, FailedIsCancelled, flagVars
<1>8. OutcomeKnown'
  BY <1>2 DEF FailInv, OutcomeKnown, flagVars, InGroup
<1>9. UndisturbedRuns'
  BY DEF FailInv, UndisturbedRuns, Undisturbed, flagVars
<1> QED  BY <1>6, <1>7, <1>8, <1>9 DEF FailInv

LEMMA MainStepFails == ASSUME IInv, Nested, FailInv, MainStep PROVE FailInv'
<1>0. value \in Nat /\ value + 1 \in Nat
  BY DEF IInv, TypeOK
<1>1. CASE Start
  <2>1. CASE Dispatch(value)
    BY <1>0, <1>1, <2>1, DispatchFails DEF Start, countVars
  <2>2. CASE main' = "serial-open" /\ UNCHANGED <<st, next, value>>
    <3>1. OutcomeKnown'
      BY <1>1, <2>2 DEF Start, FailInv, OutcomeKnown, flagVars, countVars, InGroup
    <3> QED  BY <1>1, <2>2, <3>1, OnlyMainFails DEF Start, flagVars, countVars
  <2> QED  BY <1>1, <2>1, <2>2 DEF Start
<1>2. CASE Wake
  BY <1>0, <1>2, DispatchFails DEF Wake, endVars, countVars
<1>3. CASE Interrupted
  <2>1. fails = 0 => asked
    BY <1>3 DEF Interrupted, FailInv, UndisturbedRuns, Undisturbed
  <2>2. FailureKnown' /\ FailuresAre'
    BY <1>3 DEF Interrupted, FailInv, FailureKnown, FailuresAre, endVars, countVars
  <2>3. FailedIsCancelled'
    <3>1. cancelled \subseteq cancelled' /\ UNCHANGED <<st, groupFailed>>
      BY <1>3 DEF Interrupted
    <3> QED  BY <3>1 DEF FailInv, FailedIsCancelled
  <2>4. OutcomeKnown'
    BY <1>3 DEF Interrupted, FailInv, OutcomeKnown, endVars, countVars, InGroup
  <2>5. UndisturbedRuns'
    BY <1>3, <2>1 DEF Interrupted, UndisturbedRuns, Undisturbed, countVars
  <2> QED  BY <2>2, <2>3, <2>4, <2>5 DEF FailInv
<1>4. CASE JoinedAll
  <2>1. \A t \in Tasks : st[t] \in Over
    <3>1. \A b \in Groups : HelpersOver(b) /\ st[GroupTask(b)] \in Over
      BY <1>4 DEF JoinedAll, AllOver, Nested, Over
    <3> QED  BY <3>1, TasksAre DEF HelpersOver, HelpersOf, IsHelper, GroupTask
  <2>2. fails > 0 => errors
    <3>1. outcome = "none"
      BY <1>4 DEF JoinedAll, FailInv, OutcomeKnown
    <3>2. \A b \in Groups : GroupTask(b) \in Tasks
      BY TasksAre
    <3> QED  BY <2>1, <3>1, <3>2 DEF FailInv, FailureKnown, Over
  <2>3. /\ outcome' = Result /\ main' \in {"closing", "ended"} /\ interrupted' \in BOOLEAN
        /\ interrupted' => errors /\ asked
        /\ UNCHANGED <<st, cancelled, groupFailed, errors, aborting, asked, fails>>
    BY <1>4 DEF JoinedAll, Finally, countVars
  <2>4. fails \in Nat
    BY DEF IInv, TypeOK
  <2>5. FailureKnown' /\ FailuresAre' /\ FailedIsCancelled'
    BY <2>2, <2>3 DEF FailInv, FailureKnown, FailuresAre, FailedIsCancelled, Result
  <2>6. OutcomeKnown'
    BY <2>2, <2>3, <2>4 DEF FailInv, OutcomeKnown, Result, InGroup
  <2>7. UndisturbedRuns'
    BY <2>3 DEF FailInv, UndisturbedRuns, Undisturbed
  <2> QED  BY <2>5, <2>6, <2>7 DEF FailInv
<1>5. CASE Closes
  <2>1. /\ main' = "ended" /\ UNCHANGED <<st, cancelled, groupFailed, errors, aborting, asked, fails>>
        /\ \/ UNCHANGED <<outcome, interrupted>> /\ ~interrupted
           \/ interrupted /\ outcome' = "cancelled" /\ ~interrupted'
    BY <1>5 DEF Closes, countVars
  <2>2. interrupted => asked
    BY <1>5 DEF Closes, FailInv, OutcomeKnown, InGroup
  <2>3. OutcomeKnown'
    BY <2>1, <2>2 DEF FailInv, OutcomeKnown, InGroup
  <2>4. Undisturbed' => UNCHANGED <<interrupted, aborting>>
    BY <2>1, <2>2 DEF Undisturbed
  <2> QED  BY <2>1, <2>3, <2>4, OnlyMainFails
<1>6. CASE SerialOpen
  <2>1. OutcomeKnown'
    BY <1>6 DEF SerialOpen, FailInv, OutcomeKnown, flagVars, endVars, countVars, InGroup
  <2> QED  BY <1>6, <2>1, OnlyMainFails DEF SerialOpen, flagVars, endVars, countVars
<1>7. ASSUME main \in {"serial-open", "serial-read"}
      PROVE  fails = 0
  <2>1. \A t \in Tasks : st[t] \in Over
    BY <1>7, TaskInside DEF InGroup
  <2>2. outcome = "none" /\ ~errors
    BY <1>7 DEF FailInv, OutcomeKnown
  <2>3. \A b \in Groups : GroupTask(b) \in Tasks
    BY TasksAre
  <2>4. fails \in Nat
    BY DEF IInv, TypeOK
  <2> QED  BY <2>1, <2>2, <2>3, <2>4 DEF FailInv, FailureKnown, Over
<1>8. CASE SerialRead
  <2>1. /\ UNCHANGED <<st, cancelled, flagVars, fails>>
        /\ \/ main' \in {"serial-open", "serial-read"} /\ outcome' = outcome
           \/ main' \in {"closing", "ended"} /\ outcome' = "ok"
    BY <1>8 DEF SerialRead, Finally, endVars, countVars
  <2>2. fails = 0 /\ outcome = "none" /\ ~errors
    BY <1>7, <1>8 DEF SerialRead, FailInv, OutcomeKnown
  <2>3. OutcomeKnown'
    BY <1>8, <2>1, <2>2 DEF SerialRead, FailInv, OutcomeKnown, flagVars, InGroup
  <2> QED  BY <2>1, <2>2, <2>3, OnlyMainFails DEF flagVars
<1>9. CASE SerialFails
  <2>1. /\ UNCHANGED <<st, cancelled, flagVars>> /\ fails' = fails + 1
        /\ main' \in {"closing", "ended"} /\ outcome' = "failed" /\ ~interrupted
    BY <1>9 DEF SerialFails, Finally, Fail
  <2>2. fails' > 0 /\ fails' \in Nat
    BY <2>1 DEF IInv, TypeOK
  <2>3. FailureKnown' /\ FailuresAre' /\ UndisturbedRuns'
    BY <2>1, <2>2 DEF FailureKnown, FailuresAre, UndisturbedRuns, Undisturbed
  <2>4. FailedIsCancelled' /\ OutcomeKnown'
    BY <2>1 DEF FailInv, FailedIsCancelled, OutcomeKnown, flagVars, InGroup
  <2> QED  BY <2>3, <2>4 DEF FailInv
<1>10. CASE SerialInterrupted
  <2>1. /\ UNCHANGED <<st, cancelled, groupFailed, errors, aborting, asked, fails>> /\ interrupted /\ ~interrupted'
        /\ main' \in {"closing", "ended"} /\ outcome' = "cancelled" /\ main \in {"serial-open", "serial-read"}
    BY <1>10 DEF SerialInterrupted, Finally, countVars
  <2>2. asked
    BY <2>1 DEF FailInv, OutcomeKnown, InGroup
  <2>3. OutcomeKnown'
    BY <2>1, <2>2 DEF FailInv, OutcomeKnown, InGroup
  <2> QED  BY <2>1, <2>2, <2>3, OnlyMainFails DEF Undisturbed
<1> QED  BY <1>1, <1>2, <1>3, <1>4, <1>5, <1>6, <1>8, <1>9, <1>10 DEF MainStep

LEMMA NextFails == IInv /\ Nested /\ FailInv /\ [Next]_vars => FailInv'
<1> SUFFICES ASSUME IInv, Nested, FailInv, [Next]_vars PROVE FailInv'
  OBVIOUS
<1>1. CASE MainStep
  BY <1>1, MainStepFails
<1>2. ASSUME NEW b \in Groups, GroupStep(b) PROVE FailInv'
  BY <1>2, GroupStepFails
<1>3. ASSUME NEW t \in Tasks, TaskStep(t) PROVE FailInv'
  BY <1>3, TaskStepFails
<1>4. CASE PrefetchEnds \/ UNCHANGED vars
  <2>1. UNCHANGED <<main, st, cancelled, flagVars, outcome, fails>>
    BY <1>4 DEF PrefetchEnds, vars, semVars, endVars, countVars
  <2>2. OutcomeKnown'
    BY <2>1 DEF FailInv, OutcomeKnown, flagVars
  <2> QED  BY <2>1, <2>2, OnlyMainFails DEF flagVars
<1>5. CASE Cancel
  <2>1. UNCHANGED <<main, st, cancelled, groupFailed, errors, outcome, fails>> /\ asked'
    BY <1>5 DEF Cancel, semVars, endVars
  <2>2. OutcomeKnown'
    BY <2>1 DEF FailInv, OutcomeKnown
  <2> QED  BY <2>1, <2>2, OnlyMainFails DEF Undisturbed
<1> QED  BY <1>1, <1>2, <1>3, <1>4, <1>5 DEF Next, Ended

-----------------------------------------------------------------------------
(* An undisturbed window is read completely *)

\* While nothing failed and the caller cancelled nothing, nothing is cancelled and no task has failed.
LEMMA QuietFacts ==
  ASSUME IInv, FailInv, Undisturbed
  PROVE  /\ cancelled = {} /\ ~interrupted /\ ~aborting /\ ~errors
         /\ \A t \in Tasks : st[t] # "raised"
         /\ \A b \in Groups : ~groupFailed[b]
  BY DEF FailInv, FailuresAre, UndisturbedRuns, Undisturbed

\* What disturbed a window is not forgotten.
LEMMA QuietBefore ==
  ASSUME IInv, [Next]_vars, Undisturbed'
  PROVE  Undisturbed
<1>0. fails \in Nat
  BY DEF IInv, TypeOK
<1>1. fails' = fails \/ fails' = fails + 1
  <2>1. CASE MainStep \/ PrefetchEnds \/ Cancel \/ UNCHANGED vars
    BY <2>1 DEF MainStep, Start, Wake, Interrupted, JoinedAll, Closes, SerialOpen, SerialRead, SerialFails,
                SerialInterrupted, PrefetchEnds, Cancel, Fail, countVars, vars
  <2>2. ASSUME NEW b \in Groups, GroupStep(b)
        PROVE  fails' = fails \/ fails' = fails + 1
    BY <2>2 DEF GroupStep, TaskStarts, OpenDone, OpenFails, Joined, TaskReaped, Fail, countVars
  <2>3. ASSUME NEW t \in Tasks, TaskStep(t)
        PROVE  fails' = fails \/ fails' = fails + 1
    BY <2>3 DEF TaskStep, HelperStarts, ReadDone, ReadFails, HelperReaped, CancelCreated, CancelAtOnce, CancelGroup,
                Fail, countVars
  <2> QED  BY <2>1, <2>2, <2>3 DEF Next, Ended
<1>2. asked => asked'
  BY DEF Next, MainStep, GroupStep, TaskStep, Start, Wake, Interrupted, JoinedAll, Closes, SerialOpen, SerialRead,
         SerialFails, SerialInterrupted, PrefetchEnds, Cancel, Ended, TaskStarts, OpenDone, OpenFails, Joined,
         TaskReaped, HelperStarts, ReadDone, ReadFails, HelperReaped, CancelCreated, CancelAtOnce, CancelGroup,
         flagVars, vars
<1> QED  BY <1>0, <1>1, <1>2 DEF Undisturbed

\* A step of the tasks, group by group.
LEMMA TasksCover ==
  ASSUME IInv, FailInv, CoverInv, Undisturbed' => Undisturbed,
         main \in InGroup, main' \in InGroup, main' = "join" => main = "join", next' = next, outcome' = outcome,
         \A b \in Groups : st'[GroupTask(b)] = "none" => st[GroupTask(b)] = "none",
         Undisturbed' => \A b \in Groups : st'[GroupTask(b)] \in {"read", "join", "done"} =>
             /\ \/ /\ st[GroupTask(b)] \in {"read", "join", "done"}
                   /\ got[b] \cup Reading(b) \subseteq got'[b] \cup Reading(b)'
                   /\ \/ queue'[b] = queue[b]
                      \/ queue[b] <= NumRuns[b] /\ queue'[b] = queue[b] + 1 /\ queue[b] \in Reading(b)'
                \/ st'[GroupTask(b)] = "read" /\ queue'[b] = 2 /\ 1 \in Reading(b)'
             /\ st'[GroupTask(b)] \in {"join", "done"} =>
                   queue'[b] = queue[b] /\ (st[GroupTask(b)] \in {"join", "done"} \/ queue[b] > NumRuns[b])
  PROVE  CoverInv'
<1>1. Covered'
  <2> SUFFICES ASSUME Undisturbed', NEW b \in Groups, st'[GroupTask(b)] \in {"read", "join", "done"}
               PROVE  /\ 1..(queue'[b] - 1) \subseteq got'[b] \cup Reading(b)' /\ queue'[b] <= NumRuns[b] + 1
                      /\ st'[GroupTask(b)] \in {"join", "done"} => queue'[b] = NumRuns[b] + 1
    BY DEF Covered
  <2>1. queue[b] \in Nat \ {0} /\ NumRuns[b] \in Nat \ {0}
    BY ExecChunksAssumption DEF IInv, TypeOK
  <2>2. st[GroupTask(b)] \in {"read", "join", "done"} =>
            1..(queue[b] - 1) \subseteq got[b] \cup Reading(b) /\ queue[b] <= NumRuns[b] + 1
    BY DEF CoverInv, Covered
  <2>3. st[GroupTask(b)] \in {"join", "done"} => queue[b] = NumRuns[b] + 1
    BY DEF CoverInv, Covered
  <2>4. CASE st'[GroupTask(b)] = "read" /\ queue'[b] = 2 /\ 1 \in Reading(b)'
    BY <2>1, <2>4
  <2>5. CASE /\ st[GroupTask(b)] \in {"read", "join", "done"}
             /\ got[b] \cup Reading(b) \subseteq got'[b] \cup Reading(b)' /\ queue'[b] = queue[b]
    BY <2>1, <2>2, <2>3, <2>5
  <2>6. CASE /\ st[GroupTask(b)] \in {"read", "join", "done"}
             /\ got[b] \cup Reading(b) \subseteq got'[b] \cup Reading(b)'
             /\ queue[b] <= NumRuns[b] /\ queue'[b] = queue[b] + 1 /\ queue[b] \in Reading(b)'
    <3>1. \A r \in 1..(queue'[b] - 1) : r \in 1..(queue[b] - 1) \/ r = queue[b]
      BY <2>1, <2>6
    <3>2. 1..(queue'[b] - 1) \subseteq got'[b] \cup Reading(b)'
      BY <2>2, <2>6, <3>1
    <3>3. st'[GroupTask(b)] \notin {"join", "done"}
      BY <2>1, <2>6
    <3> QED  BY <2>1, <2>6, <3>2, <3>3
  <2> QED  BY <2>4, <2>5, <2>6
<1>2. Dispatched'
  BY DEF CoverInv, Dispatched, InGroup
<1>3. SerialProgress'
  BY DEF SerialProgress, InGroup
<1>4. outcome = "none"
  BY DEF FailInv, OutcomeKnown, InGroup
<1> QED  BY <1>1, <1>2, <1>3, <1>4 DEF CoverInv, OkIsComplete

LEMMA GroupStepCovers ==
  ASSUME IInv, Nested, FailInv, CoverInv, Undisturbed' => Undisturbed, NEW b \in Groups, GroupStep(b)
  PROVE  CoverInv'
<1>0. GroupTask(b) \in Tasks /\ GroupTask(b)[1] = b
  BY TasksAre
<1>c. \A c \in Groups : GroupTask(c) \in Tasks /\ GroupTask(c)[1] = c
  BY TasksAre
<1>m. /\ main \in InGroup /\ main' \in InGroup /\ (main' = "join" => main = "join") /\ next' = next
      /\ outcome' = outcome
  <2>1. st[GroupTask(b)] \in {"created", "open", "join", "raised"}
    BY DEF GroupStep, TaskStarts, OpenDone, OpenFails, Joined, TaskReaped
  <2>2. main \in InGroup
    BY <1>0, <2>1, TaskInside DEF Over
  <2> QED  BY <2>2 DEF GroupStep, TaskStarts, OpenDone, OpenFails, Joined, TaskReaped, Release, semVars, endVars, InGroup
<1>1. CASE OpenDone(b)
  <2>1. st[GroupTask(b)] = "open" /\ got' = got
    BY <1>1 DEF OpenDone
  <2>2. \A t \in Tasks : t[1] # b => st'[t] = st[t] /\ run'[t] = run[t]
    BY <1>0, <1>1 DEF OpenDone, IInv, TypeOK
  <2>3. st'[GroupTask(b)] = "read" /\ run'[GroupTask(b)] = 1 /\ queue'[b] = 2
    BY <1>0, <1>1 DEF OpenDone, IInv, TypeOK
  <2>4. \A c \in Groups : c # b => Reading(c)' = Reading(c) /\ queue'[c] = queue[c] /\ st'[GroupTask(c)] = st[GroupTask(c)]
    BY <1>c, <1>1, <2>2 DEF Reading, OpenDone, IInv, TypeOK
  <2>5. 1 \in Reading(b)'
    BY <1>0, <2>3 DEF Reading
  <2>6. \A c \in Groups : st'[GroupTask(c)] = "none" => st[GroupTask(c)] = "none"
    BY <2>3, <2>4
  <2>7. ASSUME NEW c \in Groups, st'[GroupTask(c)] \in {"read", "join", "done"}
        PROVE  /\ \/ /\ st[GroupTask(c)] \in {"read", "join", "done"}
                     /\ got[c] \cup Reading(c) \subseteq got'[c] \cup Reading(c)'
                     /\ queue'[c] = queue[c]
                  \/ st'[GroupTask(c)] = "read" /\ queue'[c] = 2 /\ 1 \in Reading(c)'
               /\ st'[GroupTask(c)] \in {"join", "done"} =>
                     queue'[c] = queue[c] /\ st[GroupTask(c)] \in {"join", "done"}
    BY <2>1, <2>3, <2>4, <2>5, <2>7
  <2> QED  BY <1>m, <2>6, <2>7, TasksCover
<1>2. CASE TaskStarts(b) \/ OpenFails(b) \/ Joined(b) \/ TaskReaped(b)
  <2>1. /\ UNCHANGED <<run, queue, got>>
        /\ \E e \in {"open", "raised", "done"} : st' = [st EXCEPT ![GroupTask(b)] = e]
    BY <1>2 DEF TaskStarts, OpenFails, Joined, TaskReaped, groupVars
  <2>2. PICK e \in {"open", "raised", "done"} : st' = [st EXCEPT ![GroupTask(b)] = e]
    BY <2>1
  <2>3. /\ \A t \in Tasks : st'[t] = IF t = GroupTask(b) THEN e ELSE st[t]
        /\ st[GroupTask(b)] # "read"
        /\ Undisturbed /\ e = "done" => st[GroupTask(b)] = "join"
    <3>1. Undisturbed => st[GroupTask(b)] # "raised"
      BY <1>0, QuietFacts
    <3> QED  BY <1>0, <1>2, <2>2, <3>1 DEF TaskStarts, OpenFails, Joined, TaskReaped, IInv, TypeOK
  <2>4. \A c \in Groups : Reading(c) \subseteq Reading(c)'
    BY <2>1, <2>3 DEF Reading
  <2>5. \A c \in Groups : st'[GroupTask(c)] = "none" => st[GroupTask(c)] = "none"
    BY <1>c, <2>3
  <2>6. Undisturbed => \A c \in Groups : st'[GroupTask(c)] \in {"read", "join", "done"} =>
             /\ st[GroupTask(c)] \in {"read", "join", "done"}
             /\ st'[GroupTask(c)] \in {"join", "done"} => st[GroupTask(c)] \in {"join", "done"}
    BY <1>c, <2>3
  <2> QED  BY <1>m, <2>1, <2>4, <2>5, <2>6, TasksCover
<1> QED  BY <1>1, <1>2 DEF GroupStep

LEMMA TaskStepCovers ==
  ASSUME IInv, Nested, FailInv, CoverInv, Undisturbed' => Undisturbed, NEW t \in Tasks, TaskStep(t)
  PROVE  CoverInv'
<1> DEFINE b == t[1]
<1>0. b \in Groups /\ GroupTask(b) \in Tasks /\ (~IsHelper(t) => t = GroupTask(b)) /\ \A u \in Tasks : u[1] \in Groups
  BY TasksAre DEF IsHelper, GroupTask
<1>c. \A c \in Groups : GroupTask(c) \in Tasks /\ GroupTask(c)[1] = c /\ ~IsHelper(GroupTask(c))
  BY TasksAre
<1>m. /\ main \in InGroup /\ main' \in InGroup /\ (main' = "join" => main = "join") /\ next' = next
      /\ outcome' = outcome /\ (IsHelper(t) => st[GroupTask(b)] \in {"read", "join"})
  <2>1. st[t] \in {"created", "read", "raised", "open", "join"}
    BY DEF TaskStep, HelperStarts, ReadDone, ReadFails, HelperReaped, CancelCreated, CancelAtOnce, CancelGroup
  <2>2. main \in InGroup /\ (IsHelper(t) => st[GroupTask(b)] \in {"read", "join"})
    BY <2>1, TaskInside DEF Over
  <2> QED  BY <2>2 DEF TaskStep, HelperStarts, ReadDone, ReadFails, HelperReaped, CancelCreated, CancelAtOnce, CancelGroup,
              TakeRun, Drained, Release, semVars, endVars, InGroup
<1>n. \E e \in {"read", "join", "done", "raised"} : st' = [st EXCEPT ![t] = e]
  BY DEF TaskStep, HelperStarts, ReadDone, ReadFails, HelperReaped, CancelCreated, CancelAtOnce, CancelGroup, TakeRun,
         Drained
<1>e. PICK e \in {"read", "join", "done", "raised"} : st' = [st EXCEPT ![t] = e]
  BY <1>n
<1>s. \A u \in Tasks : st'[u] = IF u = t THEN e ELSE st[u]
  BY <1>e DEF IInv, TypeOK
<1>u. \A c \in Groups : st'[GroupTask(c)] = "none" => st[GroupTask(c)] = "none"
  BY <1>c, <1>s
<1>1. CASE ReadFails(t) \/ HelperReaped(t) \/ CancelCreated(t) \/ CancelAtOnce(t) \/ CancelGroup(t)
  <2>1. ~ Undisturbed'
    <3> SUFFICES ASSUME Undisturbed' PROVE FALSE
      OBVIOUS
    <3>1. cancelled = {} /\ st[t] # "raised" /\ fails = 0 /\ fails' = 0
      BY QuietFacts DEF Undisturbed
    <3> QED  BY <1>1, <3>1 DEF ReadFails, Fail, HelperReaped, CancelCreated, CancelAtOnce, CancelGroup
  <2> QED  BY <1>m, <1>u, <2>1, TasksCover
<1>2. CASE HelperStarts(t) \/ ReadDone(t)
  <2>1. /\ \/ got' = got /\ st[t] = "created" /\ IsHelper(t)
           \/ st[t] = "read" /\ got' = [got EXCEPT ![b] = @ \cup {run[t]}]
        /\ TakeRun(t) \/ Drained(t)
    BY <1>2 DEF HelperStarts, ReadDone
  <2>2. \A c \in Groups : got[c] \subseteq got'[c] /\ (st[t] = "read" => run[t] \in got'[b])
    BY <1>0, <2>1 DEF IInv, TypeOK
  <2>3. /\ st[GroupTask(b)] \in {"read", "join"}
        /\ \A c \in Groups : st'[GroupTask(c)] \in {"read", "join", "done"} => st[GroupTask(c)] \in {"read", "join", "done"}
    BY <1>0, <1>c, <1>m, <1>s, <2>1
  <2>4. CASE TakeRun(t)
    <3>1. /\ e = "read" /\ queue[b] <= NumRuns[b] /\ queue'[b] = queue[b] + 1
          /\ \A c \in Groups : c # b => queue'[c] = queue[c]
          /\ \A u \in Tasks : run'[u] = IF u = t THEN queue[b] ELSE run[u]
      <4>1. st'[t] = "read"
        BY <2>4 DEF TakeRun, IInv, TypeOK
      <4> QED  BY <1>0, <1>s, <2>4, <4>1 DEF TakeRun, IInv, TypeOK
    <3>2. Undisturbed => st[GroupTask(b)] = "read"
      <4>1. queue[b] \in Nat /\ NumRuns[b] \in Nat
        BY <1>0, ExecChunksAssumption DEF IInv, TypeOK
      <4>2. Undisturbed /\ st[GroupTask(b)] = "join" => queue[b] = NumRuns[b] + 1
        BY <1>0 DEF CoverInv, Covered
      <4> QED  BY <2>3, <3>1, <4>1, <4>2
    <3>3. queue[b] \in Reading(b)'
      BY <1>s, <3>1 DEF Reading
    <3>4. ASSUME NEW c \in Groups PROVE got[c] \cup Reading(c) \subseteq got'[c] \cup Reading(c)'
      <4> SUFFICES ASSUME NEW u \in Tasks, u[1] = c, st[u] = "read" PROVE run[u] \in got'[c] \cup Reading(c)'
        BY <2>2 DEF Reading
      <4>1. CASE u = t
        BY <2>2, <4>1
      <4>2. CASE u # t
        BY <1>s, <3>1, <4>2 DEF Reading
      <4> QED  BY <4>1, <4>2
    <3>5. ASSUME Undisturbed, NEW c \in Groups, st'[GroupTask(c)] \in {"join", "done"}
          PROVE  queue'[c] = queue[c] /\ st[GroupTask(c)] \in {"join", "done"}
      <4>1. GroupTask(c) # t
        BY <1>c, <1>s, <3>1, <3>5
      <4>2. c # b
        BY <1>c, <1>s, <3>2, <3>5, <4>1
      <4> QED  BY <1>c, <1>s, <3>1, <3>5, <4>1, <4>2
    <3>6. \A c \in Groups :
              \/ queue'[c] = queue[c]
              \/ queue[c] <= NumRuns[c] /\ queue'[c] = queue[c] + 1 /\ queue[c] \in Reading(c)'
      BY <3>1, <3>3
    <3> QED  BY <1>m, <1>u, <2>3, <3>4, <3>5, <3>6, TasksCover
  <2>5. CASE Drained(t)
    <3>1. e \in {"done", "join"} /\ queue[b] > NumRuns[b] /\ run' = run /\ queue' = queue
      <4>1. st'[t] \in {"done", "join"}
        BY <2>5 DEF Drained, IInv, TypeOK
      <4> QED  BY <1>s, <2>5, <4>1 DEF Drained
    <3>2. ASSUME NEW c \in Groups PROVE got[c] \cup Reading(c) \subseteq got'[c] \cup Reading(c)'
      <4> SUFFICES ASSUME NEW u \in Tasks, u[1] = c, st[u] = "read" PROVE run[u] \in got'[c] \cup Reading(c)'
        BY <2>2 DEF Reading
      <4>1. CASE u = t
        BY <2>2, <4>1
      <4>2. CASE u # t
        BY <1>s, <3>1, <4>2 DEF Reading
      <4> QED  BY <4>1, <4>2
    <3>3. \A c \in Groups : st'[GroupTask(c)] \in {"join", "done"} =>
              st[GroupTask(c)] \in {"join", "done"} \/ queue[c] > NumRuns[c]
      BY <1>c, <1>s, <3>1
    <3> QED  BY <1>m, <1>u, <2>3, <3>1, <3>2, <3>3, TasksCover
  <2> QED  BY <2>1, <2>4, <2>5
<1> QED  BY <1>1, <1>2 DEF TaskStep

\* A step in which no task moves and nothing is read.
LEMMA NoTaskCovers ==
  ASSUME CoverInv, Undisturbed' => Undisturbed, UNCHANGED <<st, run, queue, got>>,
         Dispatched', SerialProgress', OkIsComplete'
  PROVE  CoverInv'
<1>1. Covered'
  BY DEF CoverInv, Covered, Reading
<1> QED  BY <1>1 DEF CoverInv

\* The dispatch loop creates the tasks of the next groups.
LEMMA DispatchCovers ==
  ASSUME IInv, Nested, FailInv, CoverInv, Undisturbed' => Undisturbed, NEW v \in Nat, Dispatch(v),
         main \in {"start", "granted"}, UNCHANGED <<groupVars, outcome>>
  PROVE  CoverInv'
<1> DEFINE n == NumTasks(v)
<1>1. n \in Nat /\ n <= NumGroups - next + 1 /\ next \in 1..(NumGroups + 1) /\ NumGroups \in Nat
  <2>1. next \in 1..(NumGroups + 1) /\ NumGroups \in Nat
    BY ExecChunksAssumption DEF IInv, TypeOK
  <2>2. n \in {v, NumGroups - next + 1} /\ n <= NumGroups - next + 1
    <3>1. v \in Int /\ NumGroups - next + 1 \in Int
      BY <2>1
    <3> QED  BY <3>1, MinOfTwo DEF NumTasks
  <2> HIDE DEF n
  <2> QED  BY <2>1, <2>2
<1>2. /\ \A t \in Tasks : st'[t] = IF ~IsHelper(t) /\ t[1] >= next /\ t[1] < next + n THEN "created" ELSE st[t]
      /\ next' = next + n /\ main' = IF next + n > NumGroups THEN "join" ELSE "waiting"
  BY DEF Dispatch
<1> HIDE DEF n
<1>3. /\ \A b \in Groups : GroupTask(b) \in Tasks /\ GroupTask(b)[1] = b /\ ~IsHelper(GroupTask(b)) /\ b \in 1..NumGroups
      /\ \A b \in Groups : b >= next => st[GroupTask(b)] = "none"
  BY TasksAre DEF Nested, Groups
<1>4. UNCHANGED <<run, queue, got>> /\ main' \in {"join", "waiting"}
  BY <1>2 DEF groupVars
<1>5. Covered'
  <2>1. ASSUME NEW b \in Groups, st'[GroupTask(b)] \in {"read", "join", "done"}
        PROVE  st[GroupTask(b)] = st'[GroupTask(b)]
    BY <1>2, <1>3, <2>1
  <2>2. \A t \in Tasks : st[t] = "read" => st'[t] = "read"
    <3>1. \A t \in Tasks : ~IsHelper(t) => t = GroupTask(t[1]) /\ t[1] \in Groups
      BY TasksAre DEF IsHelper, GroupTask
    <3> QED  BY <1>2, <1>3, <3>1
  <2>3. \A b \in Groups : Reading(b) \subseteq Reading(b)'
    BY <1>4, <2>2 DEF Reading
  <2> QED  BY <1>4, <2>1, <2>3 DEF CoverInv, Covered
<1>6. Dispatched'
  <2>1. Undisturbed => \A b \in Groups : b < next => st[GroupTask(b)] # "none"
    <3>1. main = "start" => next = 1
      BY DEF CoverInv, SerialProgress
    <3>2. main = "start" => \A b \in Groups : ~(b < next)
      BY <1>3, <3>1
    <3> QED  BY <3>2 DEF CoverInv, Dispatched, InGroup
  <2>2. Undisturbed => \A b \in Groups : b < next' => st'[GroupTask(b)] # "none"
    BY <1>1, <1>2, <1>3, <2>1
  <2>3. main' = "join" => next' = NumGroups + 1
    BY <1>1, <1>2
  <2> QED  BY <2>2, <2>3 DEF Dispatched
<1>7. SerialProgress'
  BY <1>4 DEF SerialProgress
<1>8. outcome' # "ok"
  BY DEF FailInv, OutcomeKnown
<1> QED  BY <1>5, <1>6, <1>7, <1>8 DEF CoverInv, OkIsComplete

LEMMA StartCovers ==
  ASSUME IInv, Nested, FailInv, CoverInv, Undisturbed' => Undisturbed, Start
  PROVE  CoverInv'
<1>1. CASE Dispatch(value)
  <2>1. value \in Nat
    BY DEF IInv, TypeOK
  <2> QED  BY <1>1, <2>1, DispatchCovers DEF Start
<1>2. CASE main' = "serial-open" /\ UNCHANGED <<st, next, value>>
  <2>1. main = "start" /\ UNCHANGED <<st, run, queue, got, outcome>>
    BY <1>2 DEF Start, groupVars
  <2>2. next' = 1 /\ \A b \in Groups : got'[b] = {} /\ queue'[b] = 1
    BY <1>2, <2>1 DEF CoverInv, SerialProgress
  <2>3. \A b \in Groups : NumRuns[b] \in Nat \ {0} /\ b \in Nat \ {0}
    BY ExecChunksAssumption DEF Groups
  <2>4. SerialProgress'
    <3>1. ASSUME NEW b \in Groups
          PROVE  ~(b < next') /\ got'[b] = 1..(queue'[b] - 1) /\ queue'[b] <= NumRuns[b]
      <4>1. 1..(1 - 1) = {}
        OBVIOUS
      <4>2. got'[b] = {} /\ queue'[b] = 1 /\ next' = 1
        BY <2>2
      <4>3. ~(b < 1) /\ 1 <= NumRuns[b]
        BY <2>3
      <4> QED  BY <4>1, <4>2, <4>3
    <3> QED  BY <1>2, <3>1 DEF SerialProgress
  <2>5. Dispatched'
    BY <1>2 DEF Dispatched, InGroup
  <2>6. outcome' # "ok"
    BY <2>1 DEF FailInv, OutcomeKnown
  <2> QED  BY <2>1, <2>4, <2>5, <2>6, NoTaskCovers DEF OkIsComplete
<1> QED  BY <1>1, <1>2 DEF Start

\* The TaskGroup is over: without a failure or a cancellation every group is done.
LEMMA JoinedAllCovers ==
  ASSUME IInv, Nested, ReadInv, FailInv, FailInv', CoverInv, Undisturbed' => Undisturbed, JoinedAll
  PROVE  CoverInv'
<1>1. /\ main = "join" /\ AllOver /\ main' \in {"closing", "ended"} /\ UNCHANGED <<st, run, queue, got, fails, asked>>
      /\ outcome' = Result
  BY DEF JoinedAll, Finally, groupVars, countVars
<1>2. ASSUME outcome' = "ok", NEW b \in Groups
      PROVE  got[b] = 1..NumRuns[b]
  <2>1. Undisturbed
    BY <1>1, <1>2 DEF Undisturbed, FailInv, OutcomeKnown, Result
  <2>2. b \in Int /\ NumGroups \in Int /\ b <= NumGroups
    BY ExecChunksAssumption DEF Groups
  <2>3. next = NumGroups + 1
    BY <1>1, <2>1 DEF CoverInv, Dispatched
  <2>4. st[GroupTask(b)] # "none"
    BY <1>1, <2>1, <2>2, <2>3 DEF CoverInv, Dispatched, InGroup
  <2>5. st[GroupTask(b)] = "done"
    BY <1>1, <2>4 DEF AllOver, Over
  <2>6. 1..(queue[b] - 1) \subseteq got[b] \cup Reading(b) /\ queue[b] = NumRuns[b] + 1
    BY <2>1, <2>5 DEF CoverInv, Covered
  <2>7. Reading(b) = {}
    <3>1. HelpersOver(b)
      BY <2>5 DEF Nested
    <3>2. \A u \in Tasks : u[1] = b => st[u] # "read"
      BY <2>5, <3>1, TasksAre DEF HelpersOver, HelpersOf, IsHelper, GroupTask, Over
    <3> QED  BY <3>2 DEF Reading
  <2>8. got[b] \subseteq 1..(queue[b] - 1)
    BY DEF ReadInv, RunsTaken
  <2>9. queue[b] - 1 = NumRuns[b]
    BY <2>6, ExecChunksAssumption DEF Groups
  <2> QED  BY <2>6, <2>7, <2>8, <2>9
<1>3. OkIsComplete'
  BY <1>1, <1>2 DEF OkIsComplete
<1>4. Dispatched' /\ SerialProgress'
  BY <1>1 DEF Dispatched, SerialProgress, InGroup
<1> QED  BY <1>1, <1>3, <1>4, NoTaskCovers

\* A serial read is of a group without a task.
LEMMA SerialCovered ==
  ASSUME IInv, Nested, CoverInv, SerialRead, Undisturbed' => Undisturbed, SerialProgress', OkIsComplete'
  PROVE  CoverInv'
<1>1. next \in Groups /\ next \in Int /\ st[GroupTask(next)] = "none"
  BY DEF SerialRead, IInv, SerialGroup, Nested, Groups
<1>2. /\ st' = st /\ run' = run /\ main' \notin InGroup
      /\ \A c \in Groups : c # next => got'[c] = got[c] /\ queue'[c] = queue[c]
  BY <1>1 DEF SerialRead, Finally, InGroup, IInv, TypeOK
<1>3. \A c \in Groups : Reading(c)' = Reading(c)
  BY <1>2 DEF Reading
<1>4. Covered'
  <2> SUFFICES ASSUME Undisturbed', NEW c \in Groups, st'[GroupTask(c)] \in {"read", "join", "done"}
               PROVE  /\ 1..(queue'[c] - 1) \subseteq got'[c] \cup Reading(c)' /\ queue'[c] <= NumRuns[c] + 1
                      /\ st'[GroupTask(c)] \in {"join", "done"} => queue'[c] = NumRuns[c] + 1
    BY DEF Covered
  <2>1. c # next
    BY <1>1, <1>2
  <2> QED  BY <1>2, <1>3, <2>1 DEF CoverInv, Covered
<1>5. Dispatched'
  BY <1>2 DEF Dispatched, InGroup
<1> QED  BY <1>4, <1>5 DEF CoverInv

\* The serial path reads the runs of a group in turn, and the groups in turn.
LEMMA SerialReadCovers ==
  ASSUME IInv, Nested, FailInv, CoverInv, Undisturbed' => Undisturbed, SerialRead
  PROVE  CoverInv'
<1> DEFINE q == queue[next]
<1>1. /\ next \in Groups /\ next \in 1..NumGroups /\ NumGroups \in Nat /\ q \in Nat \ {0} /\ NumRuns[next] \in Nat \ {0}
      /\ main = "serial-read"
  BY ExecChunksAssumption DEF SerialRead, IInv, SerialGroup, TypeOK, Groups
<1>2. /\ st' = st /\ main' \notin InGroup \cup {"start"}
      /\ \A c \in Groups : got'[c] = IF c = next THEN got[c] \cup {q} ELSE got[c]
      /\ \A c \in Groups : queue'[c] = IF c = next THEN q + 1 ELSE queue[c]
  BY <1>1 DEF SerialRead, Finally, InGroup, IInv, TypeOK
<1>3. \A b \in Groups : /\ b < next => got[b] = 1..NumRuns[b]
                        /\ ~(b < next) => got[b] = 1..(queue[b] - 1) /\ queue[b] <= NumRuns[b]
  BY <1>1 DEF CoverInv, SerialProgress
<1> HIDE DEF q
<1>4. got'[next] = 1..q /\ q <= NumRuns[next]
  <2>1. got[next] = 1..(q - 1) /\ q <= NumRuns[next]
    BY <1>1, <1>3 DEF q
  <2>2. 1..(q - 1) \cup {q} = 1..q
    BY <1>1
  <2> QED  BY <1>1, <1>2, <2>1, <2>2
<1>5. \A t \in Tasks : st[t] \in Over
  BY <1>1, TaskInside DEF InGroup
<1>g. \A b \in Groups : b \in Int
  BY DEF Groups
<1>6. CASE q < NumRuns[next] /\ UNCHANGED <<main, next, endVars>>
  <2>1. SerialProgress'
    <3>1. ASSUME NEW b \in Groups
          PROVE  /\ b < next' => got'[b] = 1..NumRuns[b]
                 /\ ~(b < next') => got'[b] = 1..(queue'[b] - 1) /\ queue'[b] <= NumRuns[b]
      <4>1. CASE b = next
        <5>1. queue'[b] = q + 1 /\ got'[b] = 1..q
          BY <1>1, <1>2, <1>4, <4>1
        <5>2. q + 1 - 1 = q /\ q + 1 <= NumRuns[next]
          BY <1>1, <1>6
        <5>3. next' = next /\ ~(next < next)
          BY <1>1, <1>6
        <5>4. queue'[b] - 1 = q
          BY <1>1, <5>1
        <5>5. got'[b] = 1..(queue'[b] - 1)
          BY <5>1, <5>4
        <5>6. queue'[b] <= NumRuns[b]
          BY <4>1, <5>1, <5>2
        <5>7. ~(b < next')
          BY <4>1, <5>3
        <5> QED  BY <5>5, <5>6, <5>7
      <4>2. CASE b # next
        BY <1>2, <1>3, <1>6, <4>2
      <4> QED  BY <4>1, <4>2
    <3> QED  BY <1>2, <3>1 DEF SerialProgress
  <2>2. outcome' # "ok"
    BY <1>1, <1>6 DEF FailInv, OutcomeKnown, endVars
  <2> QED  BY <1>2, <2>1, <2>2, SerialCovered DEF OkIsComplete
<1>7. CASE q >= NumRuns[next] /\ next' = next + 1
  <2>1. got'[next] = 1..NumRuns[next]
    <3>1. q = NumRuns[next]
      BY <1>1, <1>4, <1>7
    <3> QED  BY <1>4, <3>1
  <2>2. \A b \in Groups : /\ b < next' => got'[b] = 1..NumRuns[b]
                          /\ ~(b < next') => got'[b] = 1..(queue'[b] - 1) /\ queue'[b] <= NumRuns[b]
    <3> SUFFICES ASSUME NEW b \in Groups
                 PROVE  /\ b < next' => got'[b] = 1..NumRuns[b]
                        /\ ~(b < next') => got'[b] = 1..(queue'[b] - 1) /\ queue'[b] <= NumRuns[b]
      OBVIOUS
    <3>1. CASE b = next
      BY <1>1, <1>7, <2>1, <3>1
    <3>2. CASE b # next
      <4>1. (b < next') <=> (b < next)
        BY <1>1, <1>7, <1>g, <3>2
      <4> QED  BY <1>2, <1>3, <3>2, <4>1
    <3> QED  BY <3>1, <3>2
  <2>3. SerialProgress'
    BY <1>2, <2>2 DEF SerialProgress
  <2>4. OkIsComplete'
    <3>1. CASE UNCHANGED endVars
      BY <1>1, <3>1 DEF FailInv, OutcomeKnown, OkIsComplete, endVars
    <3>2. CASE next = NumGroups
      <4>1. \A b \in Groups : b < next'
        BY <1>1, <1>7, <3>2 DEF Groups
      <4> QED  BY <2>2, <4>1 DEF OkIsComplete
    <3> QED  BY <1>1, <1>7, <3>1, <3>2 DEF SerialRead, q
  <2> QED  BY <1>2, <2>3, <2>4, SerialCovered
<1> QED  BY <1>6, <1>7 DEF SerialRead, q

LEMMA MainStepCovers ==
  ASSUME IInv, Nested, ReadInv, FailInv, FailInv', CoverInv, Undisturbed' => Undisturbed, MainStep
  PROVE  CoverInv'
<1>1. CASE Start
  BY <1>1, StartCovers
<1>2. CASE Wake
  <2>1. value + 1 \in Nat /\ main \in {"start", "granted"} /\ UNCHANGED <<groupVars, outcome>>
    BY <1>2 DEF Wake, endVars, IInv, TypeOK
  <2> QED  BY <1>2, <2>1, DispatchCovers DEF Wake
<1>3. CASE Interrupted
  <2>1. ~ Undisturbed'
    BY <1>3 DEF FailInv, UndisturbedRuns, Interrupted
  <2>2. UNCHANGED <<st, run, queue, got>> /\ main' = "join" /\ outcome' = "none"
    BY <1>3 DEF Interrupted, groupVars, endVars, FailInv, OutcomeKnown
  <2> QED  BY <2>1, <2>2, NoTaskCovers DEF Dispatched, SerialProgress, OkIsComplete
<1>4. CASE JoinedAll
  BY <1>4, JoinedAllCovers
<1>5. CASE Closes
  <2>1. UNCHANGED <<st, run, queue, got>> /\ main' = "ended" /\ outcome' \in {outcome, "cancelled"}
    BY <1>5 DEF Closes, groupVars
  <2> QED  BY <2>1, NoTaskCovers DEF CoverInv, Dispatched, SerialProgress, OkIsComplete, InGroup
<1>6. CASE SerialOpen
  <2>1. UNCHANGED <<st, run, queue, got, next, outcome>> /\ main = "serial-open" /\ main' = "serial-read"
    BY <1>6 DEF SerialOpen, groupVars, endVars
  <2> QED  BY <2>1, NoTaskCovers DEF CoverInv, Dispatched, SerialProgress, OkIsComplete, InGroup
<1>7. CASE SerialRead
  BY <1>7, SerialReadCovers
<1>8. CASE SerialFails \/ SerialInterrupted
  <2>1. UNCHANGED <<st, run, queue, got>> /\ main' \in {"closing", "ended"} /\ outcome' \in {"failed", "cancelled"}
    BY <1>8 DEF SerialFails, SerialInterrupted, Finally, groupVars
  <2> QED  BY <2>1, NoTaskCovers DEF Dispatched, SerialProgress, OkIsComplete, InGroup
<1> QED  BY <1>1, <1>2, <1>3, <1>4, <1>5, <1>6, <1>7, <1>8 DEF MainStep

LEMMA NextCovers == IInv /\ Nested /\ ReadInv /\ FailInv /\ CoverInv /\ [Next]_vars => CoverInv'
<1> SUFFICES ASSUME IInv, Nested, ReadInv, FailInv, CoverInv, [Next]_vars PROVE CoverInv'
  OBVIOUS
<1>0. (Undisturbed' => Undisturbed) /\ FailInv'
  BY QuietBefore, NextFails
<1>1. CASE MainStep
  BY <1>0, <1>1, MainStepCovers
<1>2. ASSUME NEW b \in Groups, GroupStep(b) PROVE CoverInv'
  BY <1>0, <1>2, GroupStepCovers
<1>3. ASSUME NEW t \in Tasks, TaskStep(t) PROVE CoverInv'
  BY <1>0, <1>3, TaskStepCovers
<1>4. CASE PrefetchEnds \/ Cancel \/ UNCHANGED vars
  <2>1. UNCHANGED <<main, next, st, run, queue, got, outcome>>
    BY <1>4 DEF PrefetchEnds, Cancel, vars, semVars, groupVars, endVars
  <2> QED  BY <1>0, <2>1, NoTaskCovers DEF CoverInv, Dispatched, SerialProgress, OkIsComplete
<1> QED  BY <1>1, <1>2, <1>3, <1>4 DEF Next, Ended

-----------------------------------------------------------------------------
(* No permit is lost *)

\* n more tasks run, on n permits that are no longer free or granted.
LEMMA PermitsExact ==
  ASSUME IInv, maxReads' = maxReads, Conserved, Undisturbed, NEW X, NEW n \in Nat, IsFiniteSet(X),
         Cardinality(X) = n, Holding' = Holding \cup X, Holding \cap X = {}, value' \in Nat,
         value' + Granted' + n = value + Granted
  PROVE  Conserved'
<1>1. IsFiniteSet(Holding)
  BY DEF IInv, PermitBound
<1>2. Cardinality(Holding') = Cardinality(Holding) + n
  <2>1. Cardinality(Holding \cup X) = Cardinality(Holding) + Cardinality(X) - Cardinality(Holding \cap X)
    BY <1>1, FS_Union
  <2>2. Cardinality(Holding \cap X) = 0 /\ Cardinality(Holding) \in Nat
    BY <1>1, FS_EmptySet, FS_CardinalityType
  <2> QED  BY <2>1, <2>2
<1>3. value + Cardinality(Holding) + Granted = maxReads
  BY DEF Conserved
<1>4. /\ value \in Nat /\ Granted \in Nat /\ Granted' \in Nat /\ maxReads \in Nat /\ Cardinality(Holding) \in Nat
  BY <1>1, FS_CardinalityType, ExecChunksAssumption DEF IInv, TypeOK, Granted
<1> DEFINE v == value  w == value'  g == Granted  h == Granted'  c == Cardinality(Holding)  d == Cardinality(Holding')
<1>5. /\ v \in Nat /\ w \in Nat /\ g \in Nat /\ h \in Nat /\ c \in Nat /\ d = c + n /\ w + h + n = v + g
      /\ v + c + g = maxReads
  BY <1>2, <1>3, <1>4
<1> HIDE DEF v, w, g, h, c, d
<1>6. w + d + h = maxReads
  BY <1>5
<1> QED  BY <1>6 DEF Conserved, v, w, g, h, c, d

\* The semaphore and what runs on it are left alone.
LEMMA PermitsSame ==
  ASSUME IInv, maxReads' = maxReads, Conserved, Undisturbed, Holding' = Holding, value' = value, Granted' = Granted
  PROVE  Conserved'
<1>1. value' \in Nat /\ Granted \in Nat
  BY DEF IInv, TypeOK, Granted
<1>2. value' + Granted' + 0 = value + Granted
  BY <1>1
<1>3. IsFiniteSet({}) /\ Cardinality({}) = 0
  BY FS_EmptySet
<1>4. Holding' = Holding \cup {} /\ Holding \cap {} = {} /\ 0 \in Nat
  OBVIOUS
<1> QED  BY <1>1, <1>2, <1>3, <1>4, PermitsExact

\* A task that ends gives its permit back.
LEMMA PermitBack ==
  ASSUME IInv, maxReads' = maxReads, Conserved, Undisturbed, NEW t \in Tasks, st[t] \in Live,
         NEW e \in Over \cup {"raised"}, st' = [st EXCEPT ![t] = e], Release
  PROVE  Conserved'
<1>1. /\ Cardinality(Holding') = Cardinality(Holding) - 1
      /\ Cardinality(Holding) \in Nat /\ Cardinality(Holding') \in Nat
      /\ value' + Granted' = value + Granted + 1 /\ value' \in Nat
  BY PermitReturned
<1>2. value \in Nat /\ Granted \in Nat /\ Granted' \in Nat /\ maxReads \in Nat
  BY ExecChunksAssumption DEF IInv, TypeOK, Granted
<1>3. value + Cardinality(Holding) + Granted = maxReads
  BY DEF Conserved
<1> DEFINE v == value  w == value'  g == Granted  h == Granted'  c == Cardinality(Holding)  d == Cardinality(Holding')
<1>4. /\ v \in Nat /\ w \in Nat /\ g \in Nat /\ h \in Nat /\ c \in Nat /\ d \in Nat /\ d = c - 1 /\ w + h = v + g + 1
      /\ v + c + g = maxReads
  BY <1>1, <1>2, <1>3
<1> HIDE DEF v, w, g, h, c, d
<1>5. w + d + h = maxReads
  BY <1>4
<1> QED  BY <1>5 DEF Conserved, v, w, g, h, c, d

\* Each task the dispatch loop creates has a permit.
LEMMA DispatchConserves ==
  ASSUME IInv, Nested, maxReads' = maxReads, Conserved, Undisturbed, NEW v \in Nat, v = value + Granted, Dispatch(v)
  PROVE  Conserved'
<1> DEFINE n == NumTasks(v)
           X == {GroupTask(i) : i \in next..(next + n - 1)}
<1>1. /\ n \in Nat /\ n <= v /\ n <= NumGroups - next + 1 /\ next \in Nat /\ next \in 1..(NumGroups + 1)
      /\ NumGroups \in Nat
  <2>1. next \in 1..(NumGroups + 1) /\ NumGroups \in Nat
    BY ExecChunksAssumption DEF IInv, TypeOK
  <2>2. n \in {v, NumGroups - next + 1} /\ n <= v /\ n <= NumGroups - next + 1
    <3>1. v \in Int /\ NumGroups - next + 1 \in Int
      BY <2>1
    <3> QED  BY <3>1, MinOfTwo DEF NumTasks
  <2> HIDE DEF n
  <2> QED  BY <2>1, <2>2
<1>2. /\ \A t \in Tasks : st'[t] = IF ~IsHelper(t) /\ t[1] >= next /\ t[1] < next + n THEN "created" ELSE st[t]
      /\ value' = v - n /\ main' \in {"join", "waiting"}
  BY DEF Dispatch
<1> HIDE DEF n
<1>3. \A t \in Tasks : t \in X <=> ~IsHelper(t) /\ t[1] >= next /\ t[1] < next + n
  <2> SUFFICES ASSUME NEW t \in Tasks PROVE t \in X <=> ~IsHelper(t) /\ t[1] >= next /\ t[1] < next + n
    OBVIOUS
  <2>1. t[1] \in Nat /\ (~IsHelper(t) <=> t = GroupTask(t[1]))
    BY TasksAre DEF IsHelper, GroupTask, Groups
  <2>2. t \in X => ~IsHelper(t) /\ t[1] \in next..(next + n - 1)
    BY DEF GroupTask, IsHelper
  <2>3. t[1] >= next /\ t[1] < next + n <=> t[1] \in next..(next + n - 1)
    BY <1>1, <2>1
  <2> QED  BY <2>1, <2>2, <2>3
<1>4. X \subseteq Tasks
  <2>1. \A i \in next..(next + n - 1) : i \in Groups
    BY <1>1 DEF Groups
  <2> QED  BY <2>1, TasksAre
<1>5. \A t \in X : st[t] = "none"
  <2> SUFFICES ASSUME NEW t \in X PROVE st[t] = "none"
    OBVIOUS
  <2>1. t \in Tasks /\ t = GroupTask(t[1]) /\ t[1] \in Groups /\ t[1] >= next
    BY <1>3, <1>4, TasksAre DEF IsHelper, GroupTask
  <2> QED  BY <2>1 DEF Nested
<1>6. Holding' = Holding \cup X /\ Holding \cap X = {}
  BY <1>2, <1>3, <1>4, <1>5 DEF Holding, Live
<1>7. IsFiniteSet(X) /\ Cardinality(X) = n
  BY <1>1, GroupTasksCount
<1>8. value' \in Nat /\ value' + Granted' + n = value + Granted
  <2>1. Granted' = 0
    BY <1>2 DEF Granted
  <2>2. value \in Nat /\ Granted \in Nat
    BY DEF IInv, TypeOK, Granted
  <2> QED  BY <1>1, <1>2, <2>1, <2>2
<1> HIDE DEF X
<1> QED  BY <1>1, <1>6, <1>7, <1>8, PermitsExact

\* Each helper a group adds has a permit.
LEMMA OpenDoneConserves ==
  ASSUME IInv, Nested, maxReads' = maxReads, Conserved, Undisturbed, NEW b \in Groups, OpenDone(b)
  PROVE  Conserved'
<1> DEFINE n == NumHelpers(b)
           X == {<<b, i>> : i \in 1..n}
<1>0. NumRuns[b] \in Nat \ {0} /\ value \in Nat
  BY ExecChunksAssumption DEF IInv, TypeOK
<1>1. n \in Nat /\ n <= value /\ n <= NumRuns[b] - 1
  <2>1. CASE Locked
    BY <1>0, <2>1 DEF NumHelpers
  <2>2. CASE ~Locked
    <3>1. n = Min({value, NumRuns[b] - 1})
      BY <2>2 DEF NumHelpers
    <3>2. value \in Int /\ NumRuns[b] - 1 \in Int
      BY <1>0
    <3>3. n \in {value, NumRuns[b] - 1} /\ n <= value /\ n <= NumRuns[b] - 1
      BY <3>1, <3>2, MinOfTwo
    <3> HIDE DEF n
    <3> QED  BY <1>0, <3>3
  <2> QED  BY <2>1, <2>2
<1>2. /\ \A t \in Tasks : st'[t] = IF t = GroupTask(b) THEN "read"
                                   ELSE IF t[1] = b /\ t[2] <= n THEN "created" ELSE st[t]
      /\ st[GroupTask(b)] = "open" /\ value' = value - n /\ main' = main
  BY DEF OpenDone
<1> HIDE DEF n
<1>3. X \subseteq Tasks
  <2> SUFFICES ASSUME NEW i \in 1..n PROVE <<b, i>> \in Tasks
    OBVIOUS
  <2>1. i \in 0..(NumRuns[b] - 1)
    BY <1>0, <1>1
  <2> QED  BY <2>1 DEF Tasks
<1>4. \A t \in Tasks : t \in X <=> t # GroupTask(b) /\ t[1] = b /\ t[2] <= n
  <2> SUFFICES ASSUME NEW t \in Tasks PROVE t \in X <=> t # GroupTask(b) /\ t[1] = b /\ t[2] <= n
    OBVIOUS
  <2>1. t[2] \in Nat /\ t = <<t[1], t[2]>> /\ (t = GroupTask(b) <=> t[1] = b /\ t[2] = 0)
    BY TasksAre DEF GroupTask
  <2>2. t \in X <=> t[1] = b /\ t[2] \in 1..n
    BY <2>1
  <2> QED  BY <1>1, <2>1, <2>2
<1>5. \A t \in X : st[t] \in Over
  <2>1. HelpersOver(b)
    BY <1>2 DEF Nested
  <2>2. \A t \in X : t \in HelpersOf(b)
    BY <1>3 DEF HelpersOf, IsHelper
  <2> QED  BY <2>1, <2>2 DEF HelpersOver
<1>6. Holding' = Holding \cup X /\ Holding \cap X = {}
  <2>1. GroupTask(b) \in Tasks
    BY TasksAre
  <2>2. ASSUME NEW t \in Tasks PROVE st'[t] \in Live <=> st[t] \in Live \/ t \in X
    BY <1>2, <1>4, <2>1 DEF Live
  <2>3. \A t \in X : st[t] \notin Live
    BY <1>5 DEF Over, Live
  <2> QED  BY <1>3, <2>2, <2>3 DEF Holding
<1>7. IsFiniteSet(X) /\ Cardinality(X) = n
  BY <1>1, HelpersCount
<1>8. value' \in Nat /\ value' + Granted' + n = value + Granted
  <2>1. Granted' = Granted /\ Granted \in Nat
    BY <1>2 DEF Granted
  <2> QED  BY <1>0, <1>1, <1>2, <2>1
<1> HIDE DEF X
<1> QED  BY <1>1, <1>6, <1>7, <1>8, PermitsExact

LEMMA GroupStepConserves ==
  ASSUME IInv, Nested, FailInv, Conserved, Undisturbed, NEW b \in Groups, GroupStep(b)
  PROVE  Conserved'
<1>0. GroupTask(b) \in Tasks /\ maxReads' = maxReads
  BY TasksAre DEF GroupStep
<1>1. CASE OpenDone(b)
  BY <1>0, <1>1, OpenDoneConserves
<1>2. CASE TaskStarts(b)
  <2>1. Holding' = Holding /\ value' = value /\ main' = main
    BY <1>0, <1>2 DEF TaskStarts, Holding, Live, semVars, IInv, TypeOK
  <2> QED  BY <1>0, <2>1, PermitsSame DEF Granted
<1>3. CASE OpenFails(b) \/ Joined(b)
  <2>1. st[GroupTask(b)] \in Live /\ Release
    BY <1>3 DEF OpenFails, Joined, Live
  <2>2. \E e \in Over \cup {"raised"} : st' = [st EXCEPT ![GroupTask(b)] = e]
    BY <1>3 DEF OpenFails, Joined, Over
  <2> QED  BY <1>0, <2>1, <2>2, PermitBack
<1>4. CASE TaskReaped(b)
  BY <1>0, <1>4, QuietFacts DEF TaskReaped
<1> QED  BY <1>1, <1>2, <1>3, <1>4 DEF GroupStep

LEMMA TaskStepConserves ==
  ASSUME IInv, Nested, FailInv, Conserved, Undisturbed, NEW t \in Tasks, TaskStep(t)
  PROVE  Conserved'
<1>0. maxReads' = maxReads
  BY DEF TaskStep
<1>1. CASE /\ st[t] \in Live /\ UNCHANGED semVars
           /\ \E e \in Live : st' = [st EXCEPT ![t] = e]
  <2>1. Holding' = Holding /\ value' = value /\ main' = main
    BY <1>1 DEF Holding, semVars, IInv, TypeOK
  <2> QED  BY <1>0, <2>1, PermitsSame DEF Granted
<1>2. CASE /\ st[t] \in Live /\ Release
           /\ \E e \in Over \cup {"raised"} : st' = [st EXCEPT ![t] = e]
  BY <1>0, <1>2, PermitBack
<1>3. CASE HelperStarts(t) \/ ReadDone(t)
  <2>1. st[t] \in Live /\ (TakeRun(t) \/ Drained(t))
    BY <1>3 DEF HelperStarts, ReadDone, Live
  <2> QED  BY <1>1, <1>2, <2>1 DEF TakeRun, Drained, Live, Over
<1>4. CASE ReadFails(t)
  BY <1>1, <1>2, <1>4 DEF ReadFails, Live, Over
<1>5. CASE HelperReaped(t) \/ CancelCreated(t) \/ CancelAtOnce(t) \/ CancelGroup(t)
  BY <1>5, QuietFacts DEF HelperReaped, CancelCreated, CancelAtOnce, CancelGroup
<1> QED  BY <1>3, <1>4, <1>5 DEF TaskStep

LEMMA MainStepConserves ==
  ASSUME IInv, Nested, FailInv, Conserved, Undisturbed, MainStep
  PROVE  Conserved'
<1>0. maxReads' = maxReads /\ value \in Nat
  BY DEF MainStep, IInv, TypeOK
<1>1. CASE Start
  <2>1. CASE Dispatch(value)
    <3>1. value = value + Granted
      BY <1>0, <1>1 DEF Start, Granted
    <3> QED  BY <1>0, <2>1, <3>1, DispatchConserves
  <2>2. CASE main' = "serial-open" /\ UNCHANGED <<st, next, value>>
    BY <1>0, <1>1, <2>2, PermitsSame DEF Start, Granted, Holding
  <2> QED  BY <1>1, <2>1, <2>2 DEF Start
<1>2. CASE Wake
  <2>1. value + 1 = value + Granted /\ value + 1 \in Nat
    BY <1>0, <1>2 DEF Wake, Granted
  <2> QED  BY <1>0, <1>2, <2>1, DispatchConserves DEF Wake
<1>3. CASE Interrupted
  BY <1>3, QuietFacts DEF Interrupted
<1>4. CASE JoinedAll \/ Closes \/ SerialOpen \/ SerialRead \/ SerialFails \/ SerialInterrupted
  <2>1. main # "granted" /\ main' # "granted" /\ st' = st /\ value' = value
    BY <1>4 DEF JoinedAll, Closes, SerialOpen, SerialRead, SerialFails, SerialInterrupted, Finally
  <2> QED  BY <1>0, <2>1, PermitsSame DEF Granted, Holding
<1> QED  BY <1>1, <1>2, <1>3, <1>4 DEF MainStep

LEMMA NextConserves == IInv /\ Nested /\ FailInv /\ Conserved /\ [Next]_vars => Conserved'
<1> SUFFICES ASSUME IInv, Nested, FailInv, Conserved, [Next]_vars, Undisturbed' PROVE Conserved'
  BY DEF Conserved
<1>0. Undisturbed
  BY QuietBefore
<1>1. CASE MainStep
  BY <1>0, <1>1, MainStepConserves
<1>2. ASSUME NEW b \in Groups, GroupStep(b) PROVE Conserved'
  BY <1>0, <1>2, GroupStepConserves
<1>3. ASSUME NEW t \in Tasks, TaskStep(t) PROVE Conserved'
  BY <1>0, <1>3, TaskStepConserves
<1>4. CASE PrefetchEnds \/ Cancel \/ UNCHANGED vars
  <2>1. UNCHANGED <<maxReads, main, value, st>>
    BY <1>4 DEF PrefetchEnds, Cancel, vars, semVars
  <2> QED  BY <1>0, <2>1, PermitsSame DEF Granted, Holding
<1> QED  BY <1>1, <1>2, <1>3, <1>4 DEF Next, Ended

-----------------------------------------------------------------------------
(* The theorem *)

LEMMA InitSound == Init => SoundInv
<1> SUFFICES ASSUME Init PROVE SoundInv
  OBVIOUS
<1>0. \A b \in Groups : GroupTask(b) \in Tasks
  BY TasksAre
<1>1. \A t \in Tasks : st[t] = "none"
  BY DEF Init
<1>2. ReadInv
  BY <1>1 DEF Init, ReadInv, RunsTaken, ReadOnce, Untouched
<1>3. FailInv
  BY <1>1, ExecChunksAssumption
     DEF Init, FailInv, FailureKnown, FailuresAre, FailedIsCancelled, OutcomeKnown, UndisturbedRuns, InGroup
<1>4. CoverInv
  BY <1>0, <1>1 DEF Init, CoverInv, Covered, Dispatched, SerialProgress, OkIsComplete, InGroup
<1>5. Conserved
  <2>1. Holding = {} /\ Granted = 0
    BY <1>1 DEF Init, Holding, Live, Granted
  <2>2. value = maxReads /\ maxReads \in Nat
    BY ExecChunksAssumption DEF Init
  <2> QED  BY <2>1, <2>2, FS_EmptySet DEF Conserved
<1> QED  BY <1>2, <1>3, <1>4, <1>5 DEF SoundInv

\* A window tells the truth about itself, for every plan, every max_concurrent_reads and however
\* many failures and cancellations.  If exec_chunks returns, every merged read of every group was
\* handed over, each once.  If it raises, it raises the failure that happened, or the cancellation
\* its caller asked for.  And while nothing fails, no permit of the semaphore is lost.
THEOREM WindowsAreSound == Spec => []WindowIsSound
<1>1. IInv /\ Nested /\ SoundInv /\ [Next]_vars => SoundInv'
  BY NextReads, NextFails, NextCovers, NextConserves DEF SoundInv
<1>2. IInv /\ SoundInv => WindowIsSound
  <2> SUFFICES ASSUME IInv, SoundInv PROVE WindowIsSound
    OBVIOUS
  <2>1. TypeOK /\ ReadOnce /\ OkIsComplete
    BY DEF IInv, SoundInv, ReadInv, CoverInv
  <2>2. PermitsConserved
    BY DEF SoundInv, Conserved, Undisturbed, PermitsConserved
  <2>3. FailureSurfaces
    BY DEF SoundInv, FailInv, FailuresAre, OutcomeKnown, FailureSurfaces
  <2> QED  BY <2>1, <2>2, <2>3 DEF WindowIsSound
<1> QED  BY InitSound, InitNested, <1>1, <1>2, NextNested, Inductive, PTL DEF Spec
=============================================================================
