------------------------ MODULE AsyncKeyedCacheProofs ------------------------
(***************************************************************************)
(* Proofs about AsyncKeyedCache for every set of keys and tasks, every     *)
(* maxsize and every bound on the fetches: type correctness, single        *)
(* flight, freshness of the stored entries, that no task ever waits for a  *)
(* future nobody will settle, that a cancellation stays with its task,     *)
(* that the order lists exactly the stored keys, and that a cache closed   *)
(* by settle_all loses no value.                                           *)
(***************************************************************************)
EXTENDS AsyncKeyedCache, TLAPS, FiniteSetTheorems, SequenceTheorems

-----------------------------------------------------------------------------
(* The operators on the store and its order. *)

\* FetchCap is a natural number, so value ids range over an interval.
LEMMA CapNat == FetchCap \in Nat
  BY ConstantsAssumption, FS_CardinalityType DEF FetchCap

\* Removing a key from an order of keys leaves an order of keys.
LEMMA WithoutType ==
  ASSUME NEW s \in Seq(Keys), NEW k \in Keys
  PROVE  Without(s, k) \in Seq(Keys)
<1>1. CASE k \in Entries(s)
  <2> DEFINE i == CHOOSE j \in 1..Len(s) : s[j] = k
  <2>1. i \in 1..Len(s)
    BY <1>1 DEF Entries
  <2> HIDE DEF i
  <2>2. SubSeq(s, 1, i - 1) \in Seq(Keys)
    BY <2>1, SubSeqProperties
  <2>3. SubSeq(s, i + 1, Len(s)) \in Seq(Keys)
    BY <2>1, SubSeqProperties
  <2>4. Without(s, k) = SubSeq(s, 1, i - 1) \o SubSeq(s, i + 1, Len(s))
    BY <1>1 DEF Without, i
  <2> QED  BY <2>2, <2>3, <2>4, ConcatProperties
<1>2. CASE k \notin Entries(s)
  BY <1>2 DEF Without
<1> QED  BY <1>1, <1>2

LEMMA MoveToEndType ==
  ASSUME NEW s \in Seq(Keys), NEW k \in Keys
  PROVE  MoveToEnd(s, k) \in Seq(Keys)
  BY WithoutType, AppendProperties DEF MoveToEnd

LEMMA EvictType ==
  ASSUME NEW s \in Seq(Keys)
  PROVE  Evict(s) \in Seq(Keys)
  BY ConstantsAssumption, SubSeqProperties DEF Evict

\* Storing a value for one or two keys keeps the store and its order typed,
\* and gives a key its old value, the new one or none.
LEMMA StoreEffect ==
  ASSUME TypeOK, NEW ks \in Seq(Keys), Len(ks) \in {1, 2}, NEW v \in Vals,
         StoreAndEvict(ks, v)
  PROVE  /\ store' \in [Keys -> Vals]
         /\ lru' \in Seq(Keys)
         /\ \A k \in Keys : \/ store'[k] \in {0, store[k]}
                            \/ k \in Entries(ks) /\ store'[k] = v
<1>1. 0 \in Vals
  BY CapNat DEF Vals
<1>2. ks[1] \in Keys /\ (Len(ks) = 2 => ks[2] \in Keys)
  OBVIOUS
<1>3. MoveToEnd(lru, ks[1]) \in Seq(Keys)
  BY <1>2, MoveToEndType DEF TypeOK
<1>4. Len(ks) = 2 => MoveToEnd(MoveToEnd(lru, ks[1]), ks[2]) \in Seq(Keys)
  BY <1>2, <1>3, MoveToEndType
<1>5. lru' \in Seq(Keys)
  BY <1>3, <1>4, EvictType DEF StoreAndEvict
<1>6. /\ store' \in [Keys -> Vals]
      /\ \A k \in Keys : \/ store'[k] \in {0, store[k]}
                         \/ k \in Entries(ks) /\ store'[k] = v
  BY <1>1 DEF StoreAndEvict, TypeOK
<1> QED  BY <1>5, <1>6

-----------------------------------------------------------------------------
(* The inductive invariant. *)

\* Ids beyond nfetch were never used: not as a future, not in the history.
IdsUsed ==
    /\ \A f \in Fetches : futState[f] # "unborn" => f <= nfetch
    /\ \A p \in outdated : p[2] <= nfetch

\* A caller that is fetching or joined knows its key and a future in use.
CallersBusy ==
    \A c \in Callers : pc[c] # "idle" =>
        want[c] \in Keys /\ fut[c] \in Fetches /\ futState[fut[c]] # "unborn"

\* A pending future belongs to one fetching caller.
PendingOwned ==
    /\ \A f \in Fetches : futState[f] = "pending" =>
          \E c \in Callers : pc[c] = "fetching" /\ fut[c] = f
    /\ \A c, d \in Callers :
          pc[c] = "fetching" /\ pc[d] = "fetching" /\ fut[c] = fut[d] => c = d
    /\ \A c \in Callers : pc[c] = "fetching" => futState[fut[c]] = "pending"

\* The futures a waiter awaits were in flight once.
WaitersBusy ==
    \A w \in Waiters :
        /\ wpc[w] = "waiting" => cur[w] \in Fetches /\ futState[cur[w]] # "unborn"
        /\ \A f \in todo[w] : futState[f] # "unborn"

\* A fetch in flight that no invalidate hit is fresh.
InflightFresh ==
    \A k \in Keys : inflight[k] # 0 /\ k \notin stale => <<k, inflight[k]>> \notin outdated

\* _inflight, _stale and the fetching callers agree (the parts of
\* SingleFlight that do not follow from the rest).
InflightOwned ==
    /\ \A k \in Keys : inflight[k] # 0 =>
          \E c \in Callers : pc[c] = "fetching" /\ want[c] = k /\ fut[c] = inflight[k]
    /\ \A c \in Callers : pc[c] = "fetching" => inflight[want[c]] = fut[c]
    /\ stale \subseteq {k \in Keys : inflight[k] # 0}

IInv ==
    /\ TypeOK /\ IdsUsed /\ CallersBusy /\ PendingOwned /\ WaitersBusy
    /\ InflightOwned /\ InflightFresh /\ StoreFresh

LEMMA InitIInv == Init => IInv
<1> SUFFICES ASSUME Init PROVE IInv
  OBVIOUS
<1>1. 0 \in Vals /\ Nothing \in [Keys -> Vals]
  BY CapNat DEF Vals, Nothing
<1>2. TypeOK
  BY <1>1 DEF Init, TypeOK, Waiters
<1>3. IdsUsed /\ CallersBusy /\ PendingOwned /\ WaitersBusy
  BY DEF Init, IdsUsed, CallersBusy, PendingOwned, WaitersBusy
<1>4. InflightOwned /\ InflightFresh /\ StoreFresh
  BY DEF Init, InflightOwned, InflightFresh, StoreFresh, Nothing
<1> QED  BY <1>2, <1>3, <1>4 DEF IInv

-----------------------------------------------------------------------------
(* resolve(): one lemma per action. *)

\* One turn of resolve's loop, for a caller that is not running a fetch.
LEMMA ResolveTurnIInv ==
  ASSUME IInv, NEW c \in Callers, NEW k \in Keys, pc[c] # "fetching",
         ResolveTurn(c, k)
  PROVE  IInv'
<1> USE DEF IInv
<1>0. UNCHANGED <<store, stale, throw, cancelling, waiterVars, history>>
  BY DEF ResolveTurn
<1>1. CASE /\ store[k] # 0
           /\ Hit(k)
           /\ pc' = [pc EXCEPT ![c] = "idle"]
           /\ want' = [want EXCEPT ![c] = "none"]
           /\ fut' = [fut EXCEPT ![c] = 0]
           /\ out' = [out EXCEPT ![c] = "value"]
           /\ UNCHANGED <<inflight, futState, nfetch>>
  <2>1. lru' \in Seq(Keys)
    BY <1>1, MoveToEndType DEF Hit, TypeOK
  <2>2. TypeOK'
    <3>1. 0 \in Vals
      BY CapNat DEF Vals
    <3>2. /\ pc' \in [Callers -> {"idle", "fetching", "joined"}]
          /\ want' \in [Callers -> Keys \cup {"none"}]
          /\ fut' \in [Callers -> Vals]
          /\ out' \in [Callers -> {"none", "value", "exception", "cancelled"}]
      BY <1>1, <3>1 DEF TypeOK
    <3> QED  BY <1>0, <1>1, <2>1, <3>2 DEF TypeOK, waiterVars, history
  <2>3. IdsUsed' /\ CallersBusy' /\ WaitersBusy'
    BY <1>0, <1>1 DEF TypeOK, IdsUsed, CallersBusy, WaitersBusy, waiterVars, history
  <2>4. PendingOwned'
    BY <1>0, <1>1 DEF TypeOK, PendingOwned
  <2>5. InflightOwned'
    BY <1>0, <1>1 DEF TypeOK, InflightOwned
  <2>6. InflightFresh' /\ StoreFresh'
    BY <1>0, <1>1 DEF InflightFresh, StoreFresh, history
  <2> QED  BY <2>2, <2>3, <2>4, <2>5, <2>6
<1>2. CASE /\ store[k] = 0 /\ inflight[k] # 0
           /\ pc' = [pc EXCEPT ![c] = "joined"]
           /\ want' = [want EXCEPT ![c] = k]
           /\ fut' = [fut EXCEPT ![c] = inflight[k]]
           /\ out' = [out EXCEPT ![c] = "none"]
           /\ UNCHANGED <<lru, inflight, futState, nfetch>>
  <2>1. PICK d \in Callers : pc[d] = "fetching" /\ want[d] = k /\ fut[d] = inflight[k]
    BY <1>2 DEF InflightOwned
  <2>2. inflight[k] \in Fetches /\ futState[inflight[k]] = "pending"
    BY <2>1 DEF CallersBusy, PendingOwned
  <2>3. TypeOK'
    BY <1>0, <1>2, <2>2 DEF TypeOK, waiterVars, history, Vals, Fetches
  <2>4. IdsUsed' /\ WaitersBusy'
    BY <1>0, <1>2 DEF TypeOK, IdsUsed, WaitersBusy, waiterVars, history
  <2>5. CallersBusy'
    BY <1>0, <1>2, <2>2 DEF TypeOK, CallersBusy
  <2>6. PendingOwned'
    BY <1>0, <1>2 DEF TypeOK, PendingOwned
  <2>7. InflightOwned'
    BY <1>0, <1>2 DEF TypeOK, InflightOwned
  <2>8. InflightFresh' /\ StoreFresh'
    BY <1>0, <1>2 DEF InflightFresh, StoreFresh, history
  <2> QED  BY <2>3, <2>4, <2>5, <2>6, <2>7, <2>8
<1>3. CASE /\ store[k] = 0 /\ inflight[k] = 0 /\ nfetch < FetchCap
           /\ nfetch' = nfetch + 1
           /\ futState' = [futState EXCEPT ![nfetch + 1] = "pending"]
           /\ inflight' = [inflight EXCEPT ![k] = nfetch + 1]
           /\ pc' = [pc EXCEPT ![c] = "fetching"]
           /\ want' = [want EXCEPT ![c] = k]
           /\ fut' = [fut EXCEPT ![c] = nfetch + 1]
           /\ out' = [out EXCEPT ![c] = "none"]
           /\ UNCHANGED lru
  <2>1. nfetch \in Nat /\ nfetch + 1 \in Fetches /\ nfetch + 1 \in Vals
    BY <1>3, CapNat DEF TypeOK, Fetches, Vals
  <2>2. futState[nfetch + 1] = "unborn"
    BY <2>1 DEF IdsUsed
  <2>3. TypeOK'
    BY <1>0, <1>3, <2>1 DEF TypeOK, waiterVars, history
  <2>4. IdsUsed'
    BY <1>0, <1>3, <2>1 DEF TypeOK, IdsUsed, history, Fetches, Pairs
  <2>5. WaitersBusy' /\ CallersBusy'
    BY <1>0, <1>3, <2>1 DEF TypeOK, WaitersBusy, CallersBusy, waiterVars
  <2>6. \A d \in Callers : pc[d] = "fetching" => d # c /\ fut[d] # nfetch + 1
    BY <2>1, <2>2 DEF PendingOwned
  <2>7. PendingOwned'
    BY <1>0, <1>3, <2>1, <2>6 DEF TypeOK, PendingOwned
  <2>8. \A d \in Callers : pc[d] = "fetching" => want[d] # k
    BY <1>3, <2>1 DEF InflightOwned, CallersBusy, Fetches
  <2>9. InflightOwned'
    BY <1>0, <1>3, <2>1, <2>6, <2>8 DEF TypeOK, InflightOwned
  <2>10. <<k, nfetch + 1>> \notin outdated
    BY <2>1 DEF IdsUsed
  <2>11. InflightFresh' /\ StoreFresh'
    BY <1>0, <1>3, <2>10 DEF TypeOK, InflightFresh, StoreFresh, history
  <2> QED  BY <2>3, <2>4, <2>5, <2>7, <2>9, <2>11
<1> QED  BY <1>1, <1>2, <1>3 DEF ResolveTurn

\* A caller that is not running a fetch returns and touches nothing else.
LEMMA ReturnIInv ==
  ASSUME IInv, NEW c \in Callers, pc[c] # "fetching",
         NEW o \in {"value", "exception", "cancelled"}, Return(c, o),
         cancelling' \in SUBSET (Callers \cup Waiters),
         UNCHANGED <<cacheVars, waiterVars, history>>
  PROVE  IInv'
<1> USE DEF IInv
<1>1. TypeOK'
  BY CapNat DEF TypeOK, Return, cacheVars, waiterVars, history, Vals
<1>2. IdsUsed' /\ CallersBusy' /\ WaitersBusy'
  BY DEF TypeOK, IdsUsed, CallersBusy, WaitersBusy, Return, cacheVars, waiterVars, history
<1>3. PendingOwned'
  BY DEF TypeOK, PendingOwned, Return, cacheVars
<1>4. InflightOwned'
  BY DEF TypeOK, InflightOwned, Return, cacheVars
<1>5. InflightFresh' /\ StoreFresh'
  BY DEF InflightFresh, StoreFresh, cacheVars, history
<1> QED  BY <1>1, <1>2, <1>3, <1>4, <1>5

\* The end of a fetch, however it ends: its key leaves _inflight and _stale,
\* its future is done.  What is stored is another lemma's matter.
LEMMA FetchEndIInv ==
  ASSUME IInv, NEW c \in Callers, pc[c] = "fetching",
         NEW o \in {"value", "exception", "cancelled"}, Return(c, o),
         NEW r \in Done, futState' = [futState EXCEPT ![fut[c]] = r],
         inflight' = [inflight EXCEPT ![want[c]] = 0],
         stale' = stale \ {want[c]},
         store' \in [Keys -> Vals], lru' \in Seq(Keys),
         \A k \in Keys : \/ store'[k] \in {0, store[k]}
                         \/ k \notin stale /\ k = want[c] /\ store'[k] = fut[c],
         produced' \subseteq Pairs,
         UNCHANGED <<nfetch, cancelling, waiterVars, outdated, returned>>
  PROVE  IInv'
<1> USE DEF IInv
<1>1. /\ want[c] \in Keys /\ fut[c] \in Fetches /\ inflight[want[c]] = fut[c]
      /\ fut[c] # 0 /\ futState[fut[c]] = "pending"
  BY DEF CallersBusy, InflightOwned, PendingOwned, Fetches
<1>0. 0 \in Vals
  BY CapNat DEF Vals
<1>2. TypeOK'
  <2>1. /\ futState' \in [Fetches -> {"unborn", "pending"} \cup Done]
        /\ inflight' \in [Keys -> Vals]
    BY <1>0, <1>1 DEF TypeOK
  <2>2. /\ pc' \in [Callers -> {"idle", "fetching", "joined"}]
        /\ want' \in [Callers -> Keys \cup {"none"}]
        /\ fut' \in [Callers -> Vals]
        /\ out' \in [Callers -> {"none", "value", "exception", "cancelled"}]
        /\ throw' \subseteq Callers
    BY <1>0 DEF TypeOK, Return
  <2> QED  BY <2>1, <2>2 DEF TypeOK, waiterVars
<1>3. r # "unborn" /\ r # "pending"
  BY DEF Done
<1>4. IdsUsed'
  BY <1>1 DEF TypeOK, IdsUsed
<1>5. CallersBusy'
  BY <1>1, <1>3 DEF TypeOK, CallersBusy, Return
<1>6. WaitersBusy'
  BY <1>1, <1>3 DEF TypeOK, WaitersBusy, waiterVars
<1>7. \A d \in Callers : pc'[d] = "fetching" <=> pc[d] = "fetching" /\ d # c
  BY DEF TypeOK, Return
<1>8. \A d \in Callers : pc[d] = "fetching" /\ d # c =>
         fut[d] # fut[c] /\ want[d] # want[c] /\ fut'[d] = fut[d] /\ want'[d] = want[d]
  BY DEF PendingOwned, InflightOwned, TypeOK, Return
<1>9. PendingOwned'
  <2>1. \A f \in Fetches : futState'[f] = "pending" => futState[f] = "pending" /\ f # fut[c]
    BY <1>1, <1>3 DEF TypeOK
  <2>2. ASSUME NEW f \in Fetches, futState'[f] = "pending"
        PROVE  \E d \in Callers : pc'[d] = "fetching" /\ fut'[d] = f
    BY <2>1, <2>2, <1>7, <1>8 DEF PendingOwned
  <2>3. ASSUME NEW d \in Callers, pc'[d] = "fetching"
        PROVE  futState'[fut'[d]] = "pending"
    BY <2>3, <1>7, <1>8 DEF PendingOwned, TypeOK, CallersBusy
  <2>4. ASSUME NEW d \in Callers, NEW e \in Callers, pc'[d] = "fetching",
               pc'[e] = "fetching", fut'[d] = fut'[e]
        PROVE  d = e
    BY <2>4, <1>7, <1>8 DEF PendingOwned
  <2> QED  BY <2>2, <2>3, <2>4 DEF PendingOwned
<1>10. InflightOwned'
  <2>1. \A k \in Keys : inflight'[k] # 0 => k # want[c] /\ inflight'[k] = inflight[k]
    BY <1>1 DEF TypeOK
  <2>2. ASSUME NEW k \in Keys, inflight'[k] # 0
        PROVE  \E d \in Callers : pc'[d] = "fetching" /\ want'[d] = k /\ fut'[d] = inflight'[k]
    BY <2>1, <2>2, <1>7, <1>8 DEF InflightOwned
  <2>3. ASSUME NEW d \in Callers, pc'[d] = "fetching"
        PROVE  inflight'[want'[d]] = fut'[d]
    BY <2>3, <1>7, <1>8, <1>1 DEF InflightOwned, TypeOK, CallersBusy
  <2>4. stale' \subseteq {k \in Keys : inflight'[k] # 0}
    BY <1>1 DEF InflightOwned, TypeOK
  <2> QED  BY <2>2, <2>3, <2>4 DEF InflightOwned
<1>11. InflightFresh'
  BY <1>1 DEF InflightFresh, TypeOK
<1>12. StoreFresh'
  BY <1>1 DEF StoreFresh, InflightFresh
<1> QED  BY <1>2, <1>4, <1>5, <1>6, <1>9, <1>10, <1>11, <1>12

LEMMA FetchOkIInv ==
  ASSUME IInv, NEW c \in Callers, FetchOk(c)
  PROVE  IInv'
<1>1. /\ pc[c] = "fetching" /\ want[c] \in Keys /\ fut[c] \in Fetches /\ fut[c] \in Vals
  BY DEF FetchOk, IInv, CallersBusy, Fetches, Vals
<1>2. CASE KeepsResult(want[c]) /\ StoreAndEvict(<<want[c]>>, fut[c])
  <2>1. <<want[c]>> \in Seq(Keys) /\ Len(<<want[c]>>) = 1 /\ Entries(<<want[c]>>) = {want[c]}
    BY <1>1 DEF Entries
  <2>2. /\ store' \in [Keys -> Vals] /\ lru' \in Seq(Keys)
        /\ \A k \in Keys : \/ store'[k] \in {0, store[k]}
                           \/ k \notin stale /\ k = want[c] /\ store'[k] = fut[c]
    BY <1>1, <1>2, <2>1, StoreEffect DEF IInv, KeepsResult
  <2>3. produced' \subseteq Pairs
    BY <1>1 DEF FetchOk, IInv, TypeOK, Pairs
  <2> QED  BY <1>1, <2>2, <2>3, FetchEndIInv DEF FetchOk, Done
<1>3. CASE ~KeepsResult(want[c]) /\ UNCHANGED <<store, lru>>
  <2>1. /\ store' \in [Keys -> Vals] /\ lru' \in Seq(Keys)
        /\ \A k \in Keys : store'[k] \in {0, store[k]}
    BY <1>3 DEF IInv, TypeOK
  <2>2. produced' \subseteq Pairs
    BY <1>1 DEF FetchOk, IInv, TypeOK, Pairs
  <2> QED  BY <1>1, <2>1, <2>2, FetchEndIInv DEF FetchOk, Done
<1> QED  BY <1>2, <1>3 DEF FetchOk

LEMMA FetchRaisesIInv ==
  ASSUME IInv, NEW c \in Callers, NEW o \in {"exception", "cancelled"}, FetchRaises(c, o)
  PROVE  IInv'
<1>1. /\ store' \in [Keys -> Vals] /\ lru' \in Seq(Keys) /\ produced' \subseteq Pairs
      /\ \A k \in Keys : store'[k] \in {0, store[k]}
  BY DEF FetchRaises, IInv, TypeOK, history
<1> QED  BY <1>1, FetchEndIInv DEF FetchRaises, Done, history

LEMMA JoinerWakesIInv ==
  ASSUME IInv, NEW c \in Callers, JoinerWakes(c)
  PROVE  IInv'
<1>1. CASE ResolveTurn(c, want[c])
  BY <1>1, ResolveTurnIInv DEF JoinerWakes, IInv, CallersBusy
<1>2. CASE (\E o \in {"value", "exception", "cancelled"} : Return(c, o))
           /\ UNCHANGED <<cacheVars, cancelling, waiterVars, history>>
  BY <1>2, ReturnIInv DEF JoinerWakes, IInv, TypeOK
<1> QED  BY <1>1, <1>2 DEF JoinerWakes

LEMMA CancelIInv ==
  ASSUME IInv, NEW c \in Callers, CancelFetcher(c) \/ CancelJoiner(c)
  PROVE  IInv'
<1>1. CASE CancelJoiner(c)
  BY <1>1, ReturnIInv DEF CancelJoiner, IInv, TypeOK
<1>2. CASE CancelFetcher(c)
  BY <1>2 DEF CancelFetcher, IInv, TypeOK, IdsUsed, CallersBusy, PendingOwned, WaitersBusy,
              InflightOwned, InflightFresh, StoreFresh, cacheVars, waiterVars, history
<1> QED  BY <1>1, <1>2

-----------------------------------------------------------------------------
(* The synchronous calls. *)

LEMMA LookupIInv ==
  ASSUME IInv, NEW k \in Keys, Lookup(k)
  PROVE  IInv'
<1>1. lru' \in Seq(Keys)
  BY MoveToEndType DEF Lookup, Hit, IInv, TypeOK
<1> QED
  BY <1>1 DEF Lookup, IInv, TypeOK, IdsUsed, CallersBusy, PendingOwned, WaitersBusy,
              InflightOwned, InflightFresh, StoreFresh, callerVars, waiterVars, history

LEMMA PutManyIInv ==
  ASSUME IInv, NEW ks \in Seq(Keys), Len(ks) \in {1, 2}, PutMany(ks)
  PROVE  IInv'
<1> USE DEF IInv
<1>1. nfetch \in Nat /\ nfetch + 1 \in Fetches /\ nfetch + 1 \in Vals
  BY CapNat, ConstantsAssumption, FS_CardinalityType DEF PutMany, TypeOK, Fetches, Vals, FetchCap
<1>2. /\ store' \in [Keys -> Vals] /\ lru' \in Seq(Keys)
      /\ \A k \in Keys : store'[k] \in {0, store[k], nfetch + 1}
  BY <1>1, StoreEffect DEF PutMany
<1>3. Entries(ks) \subseteq Keys
  BY DEF Entries
<1>4. futState[nfetch + 1] = "unborn"
  BY <1>1 DEF IdsUsed
<1>5. TypeOK'
  BY <1>1, <1>2, <1>3 DEF PutMany, TypeOK, callerVars, waiterVars, Pairs, Done
<1>6. IdsUsed'
  BY <1>1 DEF PutMany, TypeOK, IdsUsed, Fetches, Pairs
<1>7. CallersBusy' /\ WaitersBusy'
  BY <1>1 DEF PutMany, TypeOK, CallersBusy, WaitersBusy, callerVars, waiterVars
<1>8. PendingOwned'
  BY <1>1, <1>4 DEF PutMany, TypeOK, PendingOwned, callerVars
<1>9. InflightOwned' /\ InflightFresh'
  BY DEF PutMany, InflightOwned, InflightFresh, callerVars
<1>10. \A k \in Keys : <<k, nfetch + 1>> \notin outdated
  BY <1>1 DEF IdsUsed
<1>11. StoreFresh'
  BY <1>2, <1>10 DEF PutMany, StoreFresh
<1> QED  BY <1>5, <1>6, <1>7, <1>8, <1>9, <1>11

\* Dropping a set of keys: what is dropped is outdated, and so is every fetch
\* in flight for it, which is why each is marked stale.
LEMMA DropIInv ==
  ASSUME IInv, NEW ks \in SUBSET Keys, DropKeys(ks), lru' \in Seq(Keys),
         UNCHANGED <<inflight, futState, nfetch, produced, callerVars>>,
         returned' \subseteq Pairs, cancelling' \subseteq (Callers \cup Waiters),
         wpc' \in [Waiters -> {"idle", "waiting"}],
         cur' \in [Waiters -> Vals],
         todo' \in [Waiters -> SUBSET Fetches],
         awaited' \in [Waiters -> SUBSET Fetches],
         held' \in [Waiters -> [Keys -> Vals]],
         landed' \in [Waiters -> [Keys -> Vals]],
         wout' \in [Waiters -> {"none", "settled", "cancelled"}],
         WaitersBusy'
  PROVE  IInv'
<1> USE DEF IInv
<1>1. 1..nfetch \subseteq Fetches /\ \A n \in 1..nfetch : n <= nfetch
  BY CapNat DEF TypeOK, Fetches, Vals
<1>2. outdated' \subseteq Pairs
  BY <1>1 DEF DropKeys, TypeOK, Pairs
<1>3. store' \in [Keys -> Vals] /\ stale' \subseteq Keys
  BY CapNat DEF DropKeys, TypeOK, Vals
<1>4. TypeOK'
  BY <1>2, <1>3 DEF TypeOK, callerVars
<1>5. IdsUsed'
  BY <1>1 DEF IdsUsed, DropKeys
<1>6. CallersBusy' /\ PendingOwned'
  BY DEF CallersBusy, PendingOwned, callerVars
<1>7. InflightOwned'
  BY DEF InflightOwned, DropKeys, callerVars
<1>8. InflightFresh' /\ StoreFresh'
  BY DEF InflightFresh, StoreFresh, DropKeys, TypeOK
<1> QED  BY <1>4, <1>5, <1>6, <1>7, <1>8

LEMMA InvalidateIInv ==
  ASSUME IInv, InvalidateAll \/ \E k \in Keys : Invalidate(k)
  PROVE  IInv'
<1>1. CASE InvalidateAll
  <2>1. lru' \in Seq(Keys)
    BY <1>1 DEF InvalidateAll
  <2> QED
    BY <1>1, <2>1, DropIInv
    DEF InvalidateAll, IInv, TypeOK, WaitersBusy, waiterVars
<1>2. ASSUME NEW k \in Keys, Invalidate(k) PROVE IInv'
  <2>1. lru' \in Seq(Keys)
    BY <1>2, WithoutType DEF Invalidate, IInv, TypeOK
  <2> QED
    BY <1>2, <2>1, DropIInv
    DEF Invalidate, IInv, TypeOK, WaitersBusy, waiterVars
<1> QED  BY <1>1, <1>2

-----------------------------------------------------------------------------
(* settle_all() and quiesce(). *)

\* Steps that only move waiters keep the invariant when what the waiters
\* await is in use.
LEMMA WaiterStepIInv ==
  ASSUME IInv, UNCHANGED <<cacheVars, callerVars, history>>,
         cancelling' \subseteq (Callers \cup Waiters),
         wpc' \in [Waiters -> {"idle", "waiting"}],
         cur' \in [Waiters -> Vals],
         todo' \in [Waiters -> SUBSET Fetches],
         awaited' \in [Waiters -> SUBSET Fetches],
         held' \in [Waiters -> [Keys -> Vals]],
         landed' \in [Waiters -> [Keys -> Vals]],
         wout' \in [Waiters -> {"none", "settled", "cancelled"}],
         WaitersBusy'
  PROVE  IInv'
<1>1. TypeOK'
  BY DEF IInv, TypeOK, cacheVars, callerVars, history
<1> QED
  BY <1>1 DEF IInv, IdsUsed, CallersBusy, PendingOwned,
              InflightOwned, InflightFresh, StoreFresh, cacheVars, callerVars, history

\* The futures in _inflight are pending.
LEMMA PendingInUse ==
  ASSUME IInv
  PROVE  Pending \subseteq Fetches /\ \A f \in Pending : futState[f] = "pending"
  BY DEF IInv, Pending, InflightOwned, PendingOwned, CallersBusy

\* Awaiting one of a set of futures in use.
LEMMA AwaitTypes ==
  ASSUME IInv, NEW w \in Waiters, NEW S \in SUBSET Fetches,
         \A f \in S : futState[f] # "unborn", AwaitOneOf(w, S), UNCHANGED futState
  PROVE  /\ wpc' \in [Waiters -> {"idle", "waiting"}]
         /\ cur' \in [Waiters -> Vals]
         /\ todo' \in [Waiters -> SUBSET Fetches]
         /\ wout' \in [Waiters -> {"none", "settled", "cancelled"}]
         /\ WaitersBusy'
<1>1. PICK f \in S : /\ wpc' = [wpc EXCEPT ![w] = "waiting"]
                     /\ wout' = [wout EXCEPT ![w] = "none"]
                     /\ cur' = [cur EXCEPT ![w] = f]
                     /\ todo' = [todo EXCEPT ![w] = S \ {f}]
  BY DEF AwaitOneOf
<1>2. Fetches \subseteq Vals
  BY DEF Fetches, Vals
<1> QED  BY <1>1, <1>2 DEF IInv, TypeOK, WaitersBusy

\* A waiter goes idle: its locals are reset.
LEMMA IdleTypes ==
  ASSUME IInv, NEW w \in Waiters, NEW o \in {"settled", "cancelled"},
         wpc' = [wpc EXCEPT ![w] = "idle"],
         wout' = [wout EXCEPT ![w] = o],
         cur' = [cur EXCEPT ![w] = 0],
         todo' = [todo EXCEPT ![w] = {}],
         awaited' = [awaited EXCEPT ![w] = {}],
         held' = [held EXCEPT ![w] = Nothing],
         landed' = [landed EXCEPT ![w] = Nothing],
         UNCHANGED futState
  PROVE  /\ wpc' \in [Waiters -> {"idle", "waiting"}]
         /\ cur' \in [Waiters -> Vals]
         /\ todo' \in [Waiters -> SUBSET Fetches]
         /\ awaited' \in [Waiters -> SUBSET Fetches]
         /\ held' \in [Waiters -> [Keys -> Vals]]
         /\ landed' \in [Waiters -> [Keys -> Vals]]
         /\ wout' \in [Waiters -> {"none", "settled", "cancelled"}]
         /\ WaitersBusy'
<1>1. 0 \in Vals /\ Nothing \in [Keys -> Vals]
  BY CapNat DEF Vals, Nothing
<1> QED  BY <1>1 DEF IInv, TypeOK, WaitersBusy

LEMMA WaiterInvalidatesIInv ==
  ASSUME IInv, NEW w \in Waiters, WaiterInvalidates(w), UNCHANGED <<callerVars, cancelling>>,
         returned' \subseteq Pairs
  PROVE  IInv'
<1>1. lru' \in Seq(Keys) /\ UNCHANGED futState
  BY DEF WaiterInvalidates
<1>2. /\ wpc' \in [Waiters -> {"idle", "waiting"}]
      /\ cur' \in [Waiters -> Vals]
      /\ todo' \in [Waiters -> SUBSET Fetches]
      /\ awaited' \in [Waiters -> SUBSET Fetches]
      /\ held' \in [Waiters -> [Keys -> Vals]]
      /\ landed' \in [Waiters -> [Keys -> Vals]]
      /\ wout' \in [Waiters -> {"none", "settled", "cancelled"}]
      /\ WaitersBusy'
  BY <1>1, IdleTypes DEF WaiterInvalidates
<1> QED
  BY <1>1, <1>2, DropIInv DEF WaiterInvalidates, IInv, TypeOK

LEMMA WaiterGivesUpIInv ==
  ASSUME IInv, NEW w \in Waiters, WaiterGivesUp(w),
         cancelling' \subseteq (Callers \cup Waiters)
  PROVE  IInv'
<1>1. UNCHANGED futState
  BY DEF WaiterGivesUp, cacheVars
<1>2. /\ wpc' \in [Waiters -> {"idle", "waiting"}]
      /\ cur' \in [Waiters -> Vals]
      /\ todo' \in [Waiters -> SUBSET Fetches]
      /\ awaited' \in [Waiters -> SUBSET Fetches]
      /\ held' \in [Waiters -> [Keys -> Vals]]
      /\ landed' \in [Waiters -> [Keys -> Vals]]
      /\ wout' \in [Waiters -> {"none", "settled", "cancelled"}]
      /\ WaitersBusy'
  BY <1>1, IdleTypes DEF WaiterGivesUp
<1> QED  BY <1>2, WaiterStepIInv DEF WaiterGivesUp

LEMMA SettleLoopIInv ==
  ASSUME IInv, NEW w \in Waiters, NEW h \in [Keys -> Vals], NEW l \in [Keys -> Vals],
         NEW a \in SUBSET Fetches, SettleLoop(w, h, l, a),
         UNCHANGED <<callerVars, cancelling>>
  PROVE  IInv'
<1> DEFINE pending == Pending \ a
<1>1. CASE /\ AwaitOneOf(w, pending)
           /\ awaited' = [awaited EXCEPT ![w] = a \cup pending]
           /\ held' = [held EXCEPT ![w] = h]
           /\ landed' = [landed EXCEPT ![w] = l]
           /\ UNCHANGED <<cacheVars, history>>
  <2>1. pending \in SUBSET Fetches /\ \A f \in pending : futState[f] # "unborn"
    BY PendingInUse
  <2> HIDE DEF pending
  <2>2. /\ wpc' \in [Waiters -> {"idle", "waiting"}]
        /\ cur' \in [Waiters -> Vals]
        /\ todo' \in [Waiters -> SUBSET Fetches]
        /\ wout' \in [Waiters -> {"none", "settled", "cancelled"}]
        /\ WaitersBusy'
    BY <1>1, <2>1, AwaitTypes DEF cacheVars
  <2>3. /\ awaited' \in [Waiters -> SUBSET Fetches]
        /\ held' \in [Waiters -> [Keys -> Vals]]
        /\ landed' \in [Waiters -> [Keys -> Vals]]
    BY <1>1, <2>1 DEF IInv, TypeOK
  <2>4. cancelling' \subseteq (Callers \cup Waiters)
    BY DEF IInv, TypeOK
  <2> QED  BY <1>1, <2>2, <2>3, <2>4, WaiterStepIInv
<1>2. CASE /\ returned' = returned \cup {p \in Pairs : Settled(h, l)[p[1]] = p[2]}
           /\ WaiterInvalidates(w)
  <2>1. returned' \subseteq Pairs
    BY <1>2 DEF IInv, TypeOK
  <2> QED  BY <1>2, <2>1, WaiterInvalidatesIInv
<1> QED  BY <1>1, <1>2 DEF SettleLoop

LEMMA SettleBeginIInv ==
  ASSUME IInv, NEW w \in Waiters, SettleBegin(w)
  PROVE  IInv'
<1>1. store \in [Keys -> Vals] /\ Nothing \in [Keys -> Vals] /\ {} \in SUBSET Fetches
  BY CapNat DEF IInv, TypeOK, Nothing, Vals
<1> QED  BY <1>1, SettleLoopIInv DEF SettleBegin

\* The next future of the round a waiter awaits.
LEMMA NextFutureIInv ==
  ASSUME IInv, NEW w \in Waiters, NEW S \in SUBSET todo[w], NextFuture(w, S),
         landed' \in [Waiters -> [Keys -> Vals]],
         UNCHANGED <<callerVars, cancelling>>
  PROVE  IInv'
<1>1. S \in SUBSET Fetches /\ \A f \in S : futState[f] # "unborn"
  BY DEF IInv, TypeOK, WaitersBusy
<1>2. /\ wpc' \in [Waiters -> {"idle", "waiting"}]
      /\ cur' \in [Waiters -> Vals]
      /\ todo' \in [Waiters -> SUBSET Fetches]
      /\ wout' \in [Waiters -> {"none", "settled", "cancelled"}]
      /\ WaitersBusy'
  BY <1>1, AwaitTypes DEF NextFuture, cacheVars
<1>3. /\ awaited' \in [Waiters -> SUBSET Fetches]
      /\ held' \in [Waiters -> [Keys -> Vals]]
      /\ cancelling' \subseteq (Callers \cup Waiters)
  BY DEF NextFuture, IInv, TypeOK
<1> QED  BY <1>2, <1>3, WaiterStepIInv DEF NextFuture

LEMMA LandedType ==
  ASSUME NEW base \in [Keys -> Vals], NEW S \in SUBSET Fetches
  PROVE  Landed(base, S) \in [Keys -> Vals]
<1>1. Fetches \subseteq Vals
  BY DEF Fetches, Vals
<1>2. ASSUME NEW k \in Keys, \E f \in S : futState[f] = "result" /\ <<k, f>> \in produced
      PROVE  (CHOOSE f \in S : futState[f] = "result" /\ <<k, f>> \in produced) \in Vals
  BY <1>1, <1>2
<1> QED  BY <1>2 DEF Landed

LEMMA SettleWakesIInv ==
  ASSUME IInv, NEW w \in Waiters, SettleWakes(w)
  PROVE  IInv'
<1> DEFINE settled   == {f \in todo[w] : futState[f] \in Done}
           unsettled == todo[w] \ settled
           l         == Landed(landed[w], settled \cup {cur[w]})
<1>1. cur[w] \in Fetches /\ settled \in SUBSET Fetches /\ unsettled \in SUBSET todo[w]
  BY DEF IInv, TypeOK, WaitersBusy, SettleWakes
<1>2. l \in [Keys -> Vals] /\ held[w] \in [Keys -> Vals] /\ awaited[w] \in SUBSET Fetches
  BY <1>1, LandedType DEF IInv, TypeOK
<1>3. cancelling \subseteq (Callers \cup Waiters)
  BY DEF IInv, TypeOK
<1> HIDE DEF l, settled, unsettled
<1>4. CASE WaiterGivesUp(w) /\ UNCHANGED cancelling
  BY <1>3, <1>4, WaiterGivesUpIInv
<1>5. CASE /\ NextFuture(w, unsettled)
           /\ landed' = [landed EXCEPT ![w] = l]
           /\ UNCHANGED <<callerVars, cancelling>>
  <2>1. landed' \in [Waiters -> [Keys -> Vals]]
    BY <1>2, <1>5 DEF IInv, TypeOK
  <2> QED  BY <1>1, <1>5, <2>1, NextFutureIInv
<1>6. CASE SettleLoop(w, held[w], l, awaited[w]) /\ UNCHANGED <<callerVars, cancelling>>
  BY <1>2, <1>3, <1>6, SettleLoopIInv
<1> QED  BY <1>4, <1>5, <1>6 DEF SettleWakes, l, settled, unsettled

LEMMA QuiesceIInv ==
  ASSUME IInv, NEW w \in Waiters, QuiesceBegin(w) \/ QuiesceWakes(w)
  PROVE  IInv'
<1>0. /\ cancelling \subseteq (Callers \cup Waiters)
      /\ returned \subseteq Pairs /\ landed \in [Waiters -> [Keys -> Vals]]
  BY DEF IInv, TypeOK
<1>1. CASE QuiesceBegin(w)
  <2>2. CASE /\ AwaitOneOf(w, Pending)
             /\ UNCHANGED <<cacheVars, awaited, held, landed, history>>
    <3>1. Pending \in SUBSET Fetches /\ \A f \in Pending : futState[f] # "unborn"
      BY PendingInUse
    <3>2. /\ wpc' \in [Waiters -> {"idle", "waiting"}]
          /\ cur' \in [Waiters -> Vals]
          /\ todo' \in [Waiters -> SUBSET Fetches]
          /\ wout' \in [Waiters -> {"none", "settled", "cancelled"}]
          /\ WaitersBusy'
      BY <2>2, <3>1, AwaitTypes DEF cacheVars
    <3>3. /\ awaited' \in [Waiters -> SUBSET Fetches]
          /\ held' \in [Waiters -> [Keys -> Vals]]
          /\ landed' \in [Waiters -> [Keys -> Vals]]
          /\ cancelling' \subseteq (Callers \cup Waiters)
      BY <1>1, <2>2 DEF IInv, TypeOK, QuiesceBegin
    <3> QED  BY <1>1, <2>2, <3>2, <3>3, WaiterStepIInv DEF QuiesceBegin
  <2>3. CASE WaiterInvalidates(w) /\ UNCHANGED returned
    BY <1>0, <1>1, <2>3, WaiterInvalidatesIInv DEF QuiesceBegin
  <2> QED  BY <1>1, <2>2, <2>3 DEF QuiesceBegin
<1>2. CASE QuiesceWakes(w)
  <2> DEFINE settled   == {f \in todo[w] : futState[f] \in Done}
             unsettled == todo[w] \ settled
  <2>1. CASE WaiterGivesUp(w) /\ UNCHANGED cancelling
    BY <1>0, <2>1, WaiterGivesUpIInv
  <2>2. CASE NextFuture(w, unsettled) /\ UNCHANGED landed
             /\ UNCHANGED <<callerVars, cancelling>>
    BY <1>0, <2>2, NextFutureIInv
  <2>3. CASE WaiterInvalidates(w) /\ UNCHANGED returned
             /\ UNCHANGED <<callerVars, cancelling>>
    BY <1>0, <2>3, WaiterInvalidatesIInv
  <2> QED  BY <1>2, <2>1, <2>2, <2>3 DEF QuiesceWakes
<1> QED  BY <1>1, <1>2

LEMMA CancelWaiterIInv ==
  ASSUME IInv, NEW w \in Waiters, CancelWaiter(w)
  PROVE  IInv'
<1>1. cancelling' \subseteq (Callers \cup Waiters)
  BY DEF CancelWaiter, IInv, TypeOK
<1>2. CASE WaiterGivesUp(w)
  BY <1>1, <1>2, WaiterGivesUpIInv
<1>3. CASE UNCHANGED <<cacheVars, callerVars, waiterVars, history>>
  BY <1>1, <1>3, WaiterStepIInv DEF IInv, TypeOK, WaitersBusy, waiterVars, cacheVars
<1> QED  BY <1>2, <1>3 DEF CancelWaiter

-----------------------------------------------------------------------------
(* Every step preserves the invariant, and the theorems. *)

LEMMA NextIInv == IInv /\ [Next]_vars => IInv'
<1> SUFFICES ASSUME IInv, [Next]_vars PROVE IInv'
  OBVIOUS
<1>1. ASSUME NEW c \in Callers, NEW k \in Keys, Resolve(c, k) PROVE IInv'
  BY <1>1, ResolveTurnIInv DEF Resolve
<1>2. ASSUME NEW c \in Callers, FetchOk(c) PROVE IInv'
  BY <1>2, FetchOkIInv
<1>3. ASSUME NEW c \in Callers, FetchFails(c) \/ FetchCancelled(c) PROVE IInv'
  BY <1>3, FetchRaisesIInv DEF FetchFails, FetchCancelled
<1>4. ASSUME NEW c \in Callers, JoinerWakes(c) PROVE IInv'
  BY <1>4, JoinerWakesIInv
<1>5. ASSUME NEW c \in Callers, CancelFetcher(c) \/ CancelJoiner(c) PROVE IInv'
  BY <1>5, CancelIInv
<1>6. ASSUME NEW k \in Keys, Lookup(k) PROVE IInv'
  BY <1>6, LookupIInv
<1>7. ASSUME NEW k \in Keys, PutMany(<<k>>) PROVE IInv'
  BY <1>7, PutManyIInv, <<k>> \in Seq(Keys), Len(<<k>>) = 1
<1>8. ASSUME NEW k \in Keys, NEW n \in Keys, PutMany(<<k, n>>) PROVE IInv'
  BY <1>8, PutManyIInv, <<k, n>> \in Seq(Keys), Len(<<k, n>>) = 2
<1>9. ASSUME InvalidateAll \/ \E k \in Keys : Invalidate(k) PROVE IInv'
  BY <1>9, InvalidateIInv
<1>10. ASSUME NEW w \in Waiters, SettleBegin(w) \/ SettleWakes(w) PROVE IInv'
  BY <1>10, SettleBeginIInv, SettleWakesIInv
<1>11. ASSUME NEW w \in Waiters, QuiesceBegin(w) \/ QuiesceWakes(w) PROVE IInv'
  BY <1>11, QuiesceIInv
<1>12. ASSUME NEW w \in Waiters, CancelWaiter(w) PROVE IInv'
  BY <1>12, CancelWaiterIInv
<1>13. CASE UNCHANGED vars
  <2>1. UNCHANGED <<cacheVars, callerVars, history, cancelling, waiterVars>>
    BY <1>13 DEF vars
  <2> QED  BY <2>1, WaiterStepIInv DEF IInv, TypeOK, WaitersBusy, waiterVars, cacheVars
<1> QED
  BY <1>1, <1>2, <1>3, <1>4, <1>5, <1>6, <1>7, <1>8, <1>9, <1>10, <1>11, <1>12, <1>13 DEF Next

\* The invariant holds in every reachable state.
LEMMA IInvAlways == Spec => []IInv
  BY InitIInv, NextIInv, PTL DEF Spec

\* The single-flight discipline and the guarantee to waiters follow from it.
LEMMA IInvImplies == IInv => SingleFlight /\ NobodyOrphaned
<1> SUFFICES ASSUME IInv PROVE SingleFlight /\ NobodyOrphaned
  OBVIOUS
<1>1. SingleFlight
  <2>1. \A k \in Keys : inflight[k] # 0 =>
          /\ futState[inflight[k]] = "pending"
          /\ \E c \in Callers : pc[c] = "fetching" /\ want[c] = k /\ fut[c] = inflight[k]
    BY DEF IInv, InflightOwned, PendingOwned
  <2>2. \A c \in Callers : pc[c] = "fetching" => inflight[want[c]] = fut[c]
    BY DEF IInv, InflightOwned
  <2>3. \A c, d \in Callers :
          pc[c] = "fetching" /\ pc[d] = "fetching" /\ want[c] = want[d] => c = d
    BY <2>2 DEF IInv, PendingOwned
  <2>4. stale \subseteq {k \in Keys : inflight[k] # 0}
    BY DEF IInv, InflightOwned
  <2> QED  BY <2>1, <2>2, <2>3, <2>4 DEF SingleFlight
<1>2. NobodyOrphaned
  <2>1. \A f \in Fetches : futState[f] # "unborn" =>
           \/ futState[f] \in Done
           \/ \E c \in Callers : pc[c] = "fetching" /\ fut[c] = f
    BY DEF IInv, TypeOK, PendingOwned
  <2> QED  BY <2>1 DEF IInv, NobodyOrphaned, CallersBusy, WaitersBusy
<1> QED  BY <1>1, <1>2

\* Every variable keeps its type in every reachable state.
THEOREM TypeCorrect == Spec => []TypeOK
<1>1. IInv => TypeOK
  BY DEF IInv
<1> QED  BY <1>1, IInvAlways, PTL

\* A value read before an invalidate() of its key is never in the store
\* after it, however fetches, puts and invalidations interleave.
THEOREM StoredIsFresh == Spec => []StoreFresh
<1>1. IInv => StoreFresh
  BY DEF IInv
<1> QED  BY <1>1, IInvAlways, PTL

\* At most one caller fetches a key at a time, _inflight names exactly the
\* keys being fetched, and _stale only such keys.
THEOREM FetchesAreSingle == Spec => []SingleFlight
  BY IInvImplies, IInvAlways, PTL

\* Whoever awaits a future (a joiner, settle_all, quiesce) awaits one that is
\* done or whose fetch is still running.
THEOREM WaitersAreAnswered == Spec => []NobodyOrphaned
  BY IInvImplies, IInvAlways, PTL

-----------------------------------------------------------------------------
(* Cancellation. *)

\* A CancelledError on its way to a fetch belongs to the task running it.
ThrowOwn == throw \subseteq cancelling

LEMMA ResolveTurnOwn ==
  ASSUME TypeOK, CancelledOnlyIfOwn, ThrowOwn, NEW c \in Callers, NEW k, ResolveTurn(c, k)
  PROVE  CancelledOnlyIfOwn' /\ ThrowOwn'
<1>1. \E o \in {"value", "none"} : out' = [out EXCEPT ![c] = o]
  BY DEF ResolveTurn
<1>2. UNCHANGED <<throw, cancelling, wout>>
  BY DEF ResolveTurn, waiterVars
<1> QED  BY <1>1, <1>2 DEF CancelledOnlyIfOwn, ThrowOwn, TypeOK

\* A call that ends with o, cancelled only if its task is.
LEMMA ReturnOwn ==
  ASSUME TypeOK, CancelledOnlyIfOwn, ThrowOwn, NEW c \in Callers, NEW o, Return(c, o),
         o = "cancelled" => c \in cancelling', cancelling \subseteq cancelling',
         UNCHANGED waiterVars
  PROVE  CancelledOnlyIfOwn' /\ ThrowOwn'
  BY DEF Return, CancelledOnlyIfOwn, ThrowOwn, TypeOK, waiterVars

LEMMA CallerStepOwn ==
  ASSUME TypeOK, CancelledOnlyIfOwn, ThrowOwn, NEW c \in Callers,
         \/ \E k \in Keys : Resolve(c, k)
         \/ FetchOk(c) \/ FetchFails(c) \/ FetchCancelled(c)
         \/ JoinerWakes(c) \/ CancelFetcher(c) \/ CancelJoiner(c)
  PROVE  CancelledOnlyIfOwn' /\ ThrowOwn'
<1>1. CASE \E k \in Keys : Resolve(c, k)
  BY <1>1, ResolveTurnOwn DEF Resolve
<1>2. CASE FetchOk(c)
  BY <1>2, ReturnOwn DEF FetchOk
<1>3. CASE FetchFails(c)
  BY <1>3, ReturnOwn DEF FetchFails, FetchRaises
<1>4. CASE FetchCancelled(c)
  <2>1. c \in cancelling
    BY <1>4 DEF FetchCancelled, ThrowOwn
  <2> QED  BY <1>4, <2>1, ReturnOwn DEF FetchCancelled, FetchRaises
<1>5. CASE JoinerWakes(c)
  BY <1>5, ReturnOwn, ResolveTurnOwn DEF JoinerWakes, Reraises
<1>6. CASE CancelFetcher(c)
  BY <1>6 DEF CancelFetcher, CancelledOnlyIfOwn, ThrowOwn, waiterVars
<1>7. CASE CancelJoiner(c)
  BY <1>7, ReturnOwn DEF CancelJoiner
<1> QED  BY <1>1, <1>2, <1>3, <1>4, <1>5, <1>6, <1>7

\* A waiter's step that leaves the callers alone and records an outcome for it.
LEMMA WaiterOutcomeOwn ==
  ASSUME TypeOK, CancelledOnlyIfOwn, ThrowOwn, NEW w \in Waiters,
         NEW o, wout' = [wout EXCEPT ![w] = o], o = "cancelled" => w \in cancelling',
         cancelling \subseteq cancelling', UNCHANGED callerVars
  PROVE  CancelledOnlyIfOwn' /\ ThrowOwn'
  BY DEF CancelledOnlyIfOwn, ThrowOwn, TypeOK, callerVars

LEMMA WaiterStepOwn ==
  ASSUME TypeOK, CancelledOnlyIfOwn, ThrowOwn, NEW w \in Waiters,
         SettleBegin(w) \/ SettleWakes(w) \/ QuiesceBegin(w) \/ QuiesceWakes(w) \/ CancelWaiter(w)
  PROVE  CancelledOnlyIfOwn' /\ ThrowOwn'
<1>1. ASSUME NEW S, AwaitOneOf(w, S), UNCHANGED <<callerVars, cancelling>>
      PROVE  CancelledOnlyIfOwn' /\ ThrowOwn'
  BY <1>1, WaiterOutcomeOwn DEF AwaitOneOf
<1>2. ASSUME WaiterInvalidates(w), UNCHANGED <<callerVars, cancelling>>
      PROVE  CancelledOnlyIfOwn' /\ ThrowOwn'
  BY <1>2, WaiterOutcomeOwn DEF WaiterInvalidates
<1>3. ASSUME WaiterGivesUp(w), w \in cancelling', cancelling \subseteq cancelling'
      PROVE  CancelledOnlyIfOwn' /\ ThrowOwn'
  BY <1>3, WaiterOutcomeOwn DEF WaiterGivesUp
<1>4. ASSUME NEW S, NextFuture(w, S), UNCHANGED <<callerVars, cancelling>>
      PROVE  CancelledOnlyIfOwn' /\ ThrowOwn'
  BY <1>1, <1>4 DEF NextFuture
<1>5. ASSUME NEW h, NEW l, NEW a, SettleLoop(w, h, l, a), UNCHANGED <<callerVars, cancelling>>
      PROVE  CancelledOnlyIfOwn' /\ ThrowOwn'
  BY <1>1, <1>2, <1>5 DEF SettleLoop
<1>6. CASE SettleBegin(w)
  BY <1>5, <1>6 DEF SettleBegin
<1>7. CASE SettleWakes(w)
  BY <1>3, <1>4, <1>5, <1>7 DEF SettleWakes, Reraises
<1>8. CASE QuiesceBegin(w)
  BY <1>1, <1>2, <1>8 DEF QuiesceBegin
<1>9. CASE QuiesceWakes(w)
  BY <1>2, <1>3, <1>4, <1>9 DEF QuiesceWakes, Reraises
<1>10. CASE CancelWaiter(w)
  <2>1. w \in cancelling' /\ cancelling \subseteq cancelling'
    BY <1>10 DEF CancelWaiter
  <2>2. CASE WaiterGivesUp(w)
    BY <1>3, <2>1, <2>2
  <2>3. CASE UNCHANGED <<cacheVars, callerVars, waiterVars, history>>
    BY <2>1, <2>3 DEF CancelledOnlyIfOwn, ThrowOwn, callerVars, waiterVars
  <2> QED  BY <1>10, <2>2, <2>3 DEF CancelWaiter
<1> QED  BY <1>6, <1>7, <1>8, <1>9, <1>10

\* A task that nobody cancelled never gets the CancelledError of another
\* task's fetch, neither from resolve() nor from settle_all() or quiesce().
THEOREM CancellationIsOwn == Spec => []CancelledOnlyIfOwn
<1>1. Init => CancelledOnlyIfOwn /\ ThrowOwn
  BY DEF Init, CancelledOnlyIfOwn, ThrowOwn
<1>2. TypeOK /\ CancelledOnlyIfOwn /\ ThrowOwn /\ [Next]_vars => CancelledOnlyIfOwn' /\ ThrowOwn'
  <2> SUFFICES ASSUME TypeOK, CancelledOnlyIfOwn, ThrowOwn, [Next]_vars
               PROVE  CancelledOnlyIfOwn' /\ ThrowOwn'
    OBVIOUS
  <2>1. ASSUME UNCHANGED <<callerVars, cancelling, waiterVars>>
        PROVE  CancelledOnlyIfOwn' /\ ThrowOwn'
    BY <2>1 DEF CancelledOnlyIfOwn, ThrowOwn, callerVars, waiterVars
  <2>2. ASSUME NEW k \in Keys, NEW ks, Lookup(k) \/ PutMany(ks) \/ Invalidate(k) \/ InvalidateAll
        PROVE  CancelledOnlyIfOwn' /\ ThrowOwn'
    BY <2>1, <2>2 DEF Lookup, PutMany, Invalidate, InvalidateAll
  <2>3. CASE InvalidateAll
    BY <2>1, <2>3 DEF InvalidateAll
  <2>4. CASE UNCHANGED vars
    BY <2>1, <2>4 DEF vars
  <2> QED  BY <2>2, <2>3, <2>4, CallerStepOwn, WaiterStepOwn DEF Next
<1> QED  BY <1>1, <1>2, TypeCorrect, PTL DEF Spec

-----------------------------------------------------------------------------
(* The order of the store. *)

\* No key is listed twice.
Once(s) == \A i, j \in 1..Len(s) : s[i] = s[j] => i = j

\* Without takes out the one place of k and closes the gap.
LEMMA WithoutEffect ==
  ASSUME NEW s \in Seq(Keys), NEW k \in Keys, Once(s)
  PROVE  /\ Once(Without(s, k)) /\ Entries(Without(s, k)) = Entries(s) \ {k}
         /\ Len(Without(s, k)) = IF k \in Entries(s) THEN Len(s) - 1 ELSE Len(s)
<1>1. CASE k \in Entries(s)
  <2> DEFINE i == CHOOSE j \in 1..Len(s) : s[j] = k
             t == Without(s, k)
  <2>1. i \in 1..Len(s) /\ s[i] = k
    BY <1>1 DEF Entries
  <2> HIDE DEF i
  <2>2. t = SubSeq(s, 1, i - 1) \o SubSeq(s, i + 1, Len(s))
    BY <1>1 DEF Without, i
  <2>3. /\ SubSeq(s, 1, i - 1) \in Seq(Keys) /\ Len(SubSeq(s, 1, i - 1)) = i - 1
        /\ \A n \in 1..(i - 1) : SubSeq(s, 1, i - 1)[n] = s[n]
    BY <2>1, SubSeqProperties
  <2>4. /\ SubSeq(s, i + 1, Len(s)) \in Seq(Keys) /\ Len(SubSeq(s, i + 1, Len(s))) = Len(s) - i
        /\ \A n \in 1..(Len(s) - i) : SubSeq(s, i + 1, Len(s))[n] = s[i + n]
    BY <2>1, SubSeqProperties
  <2>5. /\ Len(t) = Len(s) - 1 /\ Len(s) \in Nat
        /\ \A n \in 1..Len(t) : t[n] = IF n < i THEN s[n] ELSE s[n + 1]
    <3> DEFINE a == SubSeq(s, 1, i - 1)
               b == SubSeq(s, i + 1, Len(s))
    <3>1. /\ Len(a \o b) = Len(a) + Len(b)
          /\ \A n \in 1..(Len(a) + Len(b)) : (a \o b)[n] = IF n <= Len(a) THEN a[n] ELSE b[n - Len(a)]
      BY <2>3, <2>4, ConcatProperties
    <3>2. Len(s) \in Nat /\ i \in Nat
      BY <2>1
    <3> HIDE DEF a, b
    <3>3. Len(a) = i - 1 /\ Len(b) = Len(s) - i
      BY <2>3, <2>4 DEF a, b
    <3>4. ASSUME NEW n \in 1..(Len(s) - 1) PROVE (a \o b)[n] = IF n < i THEN s[n] ELSE s[n + 1]
      <4>1. CASE n < i
        BY <2>3, <3>1, <3>2, <3>3, <4>1 DEF a
      <4>2. CASE ~(n < i)
        <5>1. (a \o b)[n] = b[n - (i - 1)] /\ n - (i - 1) \in 1..(Len(s) - i)
          BY <2>1, <3>1, <3>2, <3>3, <4>2
        <5>2. b[n - (i - 1)] = s[i + (n - (i - 1))] /\ i + (n - (i - 1)) = n + 1
          BY <2>4, <3>2, <5>1 DEF b
        <5> QED  BY <4>2, <5>1, <5>2
      <4> QED  BY <4>1, <4>2
    <3>5. t = a \o b
      BY <2>2 DEF a, b
    <3> HIDE DEF t
    <3>6. Len(t) = Len(s) - 1
      <4>1. Len(t) = Len(a) + Len(b)
        BY <3>1, <3>5
      <4>2. Len(a) + Len(b) = Len(s) - 1
        BY <3>2, <3>3
      <4> QED  BY <4>1, <4>2
    <3> QED  BY <3>2, <3>4, <3>5, <3>6
  <2> HIDE DEF t
  <2>6. Once(t)
    BY <2>1, <2>5 DEF Once
  <2>7. Entries(t) \subseteq Entries(s) \ {k}
    BY <2>1, <2>5 DEF Once, Entries
  <2>8. ASSUME NEW x \in Entries(s), x # k
        PROVE  x \in Entries(t)
    <3>1. PICK j \in 1..Len(s) : s[j] = x
      BY <2>8 DEF Entries
    <3>2. CASE j < i
      BY <2>1, <2>5, <3>1, <3>2 DEF Entries
    <3>3. CASE j > i
      <4>1. j - 1 \in 1..Len(t) /\ t[j - 1] = x
        BY <2>1, <2>5, <3>1, <3>3
      <4> QED  BY <4>1 DEF Entries
    <3> QED  BY <2>1, <2>8, <3>1, <3>2, <3>3
  <2> QED  BY <1>1, <2>5, <2>6, <2>7, <2>8 DEF t
<1>2. CASE k \notin Entries(s)
  BY <1>2 DEF Without
<1> QED  BY <1>1, <1>2

\* MoveToEnd lists k once, last.
LEMMA MoveToEndEffect ==
  ASSUME NEW s \in Seq(Keys), NEW k \in Keys, Once(s)
  PROVE  /\ Once(MoveToEnd(s, k)) /\ Entries(MoveToEnd(s, k)) = Entries(s) \cup {k}
         /\ Len(MoveToEnd(s, k)) = IF k \in Entries(s) THEN Len(s) ELSE Len(s) + 1
<1> DEFINE t == Without(s, k)
           u == MoveToEnd(s, k)
<1>1. /\ t \in Seq(Keys) /\ Once(t) /\ Entries(t) = Entries(s) \ {k}
      /\ Len(t) = IF k \in Entries(s) THEN Len(s) - 1 ELSE Len(s)
  BY WithoutType, WithoutEffect
<1>2. u = Append(t, k)
  BY DEF MoveToEnd
<1> HIDE DEF t, u
<1>3. /\ Len(u) = Len(t) + 1 /\ Len(t) \in Nat /\ u[Len(t) + 1] = k /\ Len(s) \in Nat
      /\ \A i \in 1..Len(t) : u[i] = t[i]
  BY <1>1, <1>2, AppendProperties
<1>4. \A i \in 1..Len(u) : i = Len(t) + 1 \/ i \in 1..Len(t)
  BY <1>3
<1>5. Entries(u) = Entries(t) \cup {k}
  BY <1>3, <1>4 DEF Entries
<1>6. \A i \in 1..Len(t) : t[i] # k
  BY <1>1 DEF Entries
<1>7. Once(u)
  BY <1>1, <1>3, <1>4, <1>6 DEF Once
<1> QED  BY <1>1, <1>3, <1>5, <1>7 DEF u

\* Evict keeps the last MaxSize keys.
LEMMA EvictEffect ==
  ASSUME NEW s \in Seq(Keys), Once(s)
  PROVE  /\ Once(Evict(s)) /\ Entries(Evict(s)) \subseteq Entries(s) /\ Len(Evict(s)) <= MaxSize
         /\ Len(s) <= MaxSize => Evict(s) = s
<1>1. CASE Len(s) > MaxSize
  <2> DEFINE m == Len(s) - MaxSize
             t == Evict(s)
  <2>1. m \in Nat \ {0} /\ m < Len(s) /\ Len(s) \in Nat /\ MaxSize \in Nat
    BY <1>1, ConstantsAssumption
  <2>2. t = SubSeq(s, m + 1, Len(s))
    BY <1>1 DEF Evict
  <2>3. Len(t) = MaxSize /\ \A n \in 1..Len(t) : m + n \in 1..Len(s) /\ t[n] = s[m + n]
    <3>1. m + 1 \in Int /\ Len(s) \in Int /\ \A i \in (m + 1)..Len(s) : s[i] \in Keys
      BY <2>1
    <3>2. /\ Len(t) = IF m + 1 <= Len(s) THEN Len(s) - (m + 1) + 1 ELSE 0
          /\ \A i \in 1..(Len(s) - (m + 1) + 1) : t[i] = s[(m + 1) + i - 1]
      BY <2>2, <3>1, SubSeqProperties
    <3>3. Len(s) - m = MaxSize
      BY <2>1
    <3> HIDE DEF m, t
    <3> QED  BY <2>1, <3>2, <3>3
  <2> HIDE DEF m, t
  <2>4. Once(t)
    <3> SUFFICES ASSUME NEW i \in 1..Len(t), NEW j \in 1..Len(t), t[i] = t[j]
                 PROVE  i = j
      BY DEF Once
    <3>1. m + i = m + j
      BY <2>3 DEF Once
    <3> QED  BY <2>1, <2>3, <3>1
  <2>5. Entries(t) \subseteq Entries(s)
    BY <2>1, <2>3 DEF Entries
  <2> QED  BY <1>1, <2>1, <2>3, <2>4, <2>5 DEF t, m
<1>2. CASE ~(Len(s) > MaxSize)
  BY <1>2, ConstantsAssumption DEF Evict
<1> QED  BY <1>1, <1>2

\* The order after a store and its eviction.
LEMMA StoreAndEvictLru ==
  ASSUME TypeOK, LruConsistent, NEW ks \in Seq(Keys), Len(ks) \in {1, 2}, NEW v \in Vals, v # 0,
         StoreAndEvict(ks, v)
  PROVE  LruConsistent'
<1> DEFINE touched == IF Len(ks) = 1 THEN MoveToEnd(lru, ks[1])
                      ELSE MoveToEnd(MoveToEnd(lru, ks[1]), ks[2])
<1>1. ks[1] \in Keys /\ (Len(ks) = 2 => ks[2] \in Keys) /\ Once(lru) /\ lru \in Seq(Keys)
  BY DEF LruConsistent, Once, TypeOK
<1>2. MoveToEnd(lru, ks[1]) \in Seq(Keys) /\ Once(MoveToEnd(lru, ks[1]))
      /\ Entries(MoveToEnd(lru, ks[1])) = Entries(lru) \cup {ks[1]}
  BY <1>1, MoveToEndType, MoveToEndEffect
<1>3. touched \in Seq(Keys) /\ Once(touched) /\ Entries(touched) = Entries(lru) \cup Entries(ks)
  <2>1. CASE Len(ks) = 1
    <3>1. Entries(ks) = {ks[1]} /\ touched = MoveToEnd(lru, ks[1])
      BY <2>1 DEF Entries
    <3> QED  BY <1>2, <3>1
  <2>2. CASE Len(ks) = 2
    <3> DEFINE u == MoveToEnd(lru, ks[1])
    <3>1. Entries(ks) = {ks[1], ks[2]} /\ touched = MoveToEnd(u, ks[2]) /\ ks[2] \in Keys
      BY <1>1, <2>2 DEF Entries
    <3> HIDE DEF u
    <3>2. u \in Seq(Keys) /\ Once(u) /\ Entries(u) = Entries(lru) \cup {ks[1]}
      BY <1>2 DEF u
    <3>3. /\ MoveToEnd(u, ks[2]) \in Seq(Keys) /\ Once(MoveToEnd(u, ks[2]))
          /\ Entries(MoveToEnd(u, ks[2])) = Entries(u) \cup {ks[2]}
      BY <3>1, <3>2, MoveToEndType, MoveToEndEffect
    <3> HIDE DEF touched
    <3> QED  BY <3>1, <3>2, <3>3
  <2> QED  BY <2>1, <2>2
<1>4. /\ lru' = Evict(touched)
      /\ store' = [k \in Keys |-> IF k \notin Entries(lru') THEN 0
                                  ELSE IF k \in Entries(ks) THEN v ELSE store[k]]
  BY DEF StoreAndEvict
<1> HIDE DEF touched
<1>5. Once(lru') /\ Entries(lru') \subseteq Entries(lru) \cup Entries(ks) /\ Len(lru') <= MaxSize
  BY <1>3, <1>4, EvictEffect
<1>6. \A k \in Keys : store'[k] # 0 <=> k \in Entries(lru')
  BY <1>4, <1>5 DEF LruConsistent
<1> QED  BY <1>5, <1>6 DEF LruConsistent, Once

\* A hit moves a key that is in the order.
LEMMA HitLru ==
  ASSUME TypeOK, LruConsistent, NEW k \in Keys, store[k] # 0, Hit(k), store' = store
  PROVE  LruConsistent'
<1>1. lru \in Seq(Keys) /\ Once(lru) /\ k \in Entries(lru)
  BY DEF TypeOK, LruConsistent, Once
<1>2. Once(lru') /\ Entries(lru') = Entries(lru) /\ Len(lru') = Len(lru)
  <2>1. lru' = MoveToEnd(lru, k)
    BY DEF Hit
  <2>2. Once(lru') /\ Entries(lru') = Entries(lru) \cup {k} /\ Len(lru') = Len(lru)
    BY <1>1, <2>1, MoveToEndEffect
  <2> QED  BY <1>1, <2>2
<1> QED  BY <1>2 DEF LruConsistent, Once

\* Dropping every key empties the order.
LEMMA DropAllLru ==
  ASSUME DropKeys(Keys), lru' = <<>>
  PROVE  LruConsistent'
<1>1. Len(lru') = 0 /\ Entries(lru') = {}
  BY DEF Entries
<1>2. \A k \in Keys : store'[k] = 0
  BY DEF DropKeys
<1> QED  BY <1>1, <1>2, ConstantsAssumption DEF LruConsistent

\* The order of _store lists exactly its keys, each once and never more than maxsize, whatever
\* mix of hits, fetches, puts and invalidations.
THEOREM LruIsConsistent == Spec => []LruConsistent
<1>1. Init => LruConsistent
  BY ConstantsAssumption DEF Init, LruConsistent, Entries, Nothing
<1>2. IInv /\ LruConsistent /\ [Next]_vars => LruConsistent'
  <2> SUFFICES ASSUME IInv, LruConsistent, [Next]_vars PROVE LruConsistent'
    OBVIOUS
  <2>t. TypeOK
    BY DEF IInv
  <2>1. ASSUME UNCHANGED <<store, lru>> PROVE LruConsistent'
    BY <2>1 DEF LruConsistent
  <2>2. ASSUME NEW c \in Callers, NEW k \in Keys, ResolveTurn(c, k) PROVE LruConsistent'
    <3>1. store' = store /\ (lru' = lru \/ (store[k] # 0 /\ Hit(k)))
      BY <2>2 DEF ResolveTurn, Hit
    <3> QED  BY <2>t, <2>1, <3>1, HitLru
  <2>3. ASSUME NEW c \in Callers, FetchOk(c) PROVE LruConsistent'
    <3>1. want[c] \in Keys /\ fut[c] \in Vals /\ fut[c] # 0
      BY <2>3, CapNat DEF FetchOk, IInv, CallersBusy, Fetches, Vals
    <3>2. UNCHANGED <<store, lru>> \/ StoreAndEvict(<<want[c]>>, fut[c])
      BY <2>3 DEF FetchOk
    <3>3. <<want[c]>> \in Seq(Keys) /\ Len(<<want[c]>>) = 1
      BY <3>1
    <3> QED  BY <2>t, <2>1, <3>1, <3>2, <3>3, StoreAndEvictLru
  <2>4. ASSUME NEW c \in Callers, FetchFails(c) \/ FetchCancelled(c) \/ CancelFetcher(c) \/ CancelJoiner(c)
        PROVE  LruConsistent'
    BY <2>1, <2>4 DEF FetchFails, FetchCancelled, FetchRaises, CancelFetcher, CancelJoiner, cacheVars
  <2>5. ASSUME NEW c \in Callers, JoinerWakes(c) PROVE LruConsistent'
    <3>1. want[c] \in Keys
      BY <2>5 DEF JoinerWakes, IInv, CallersBusy
    <3>2. UNCHANGED <<store, lru>> \/ ResolveTurn(c, want[c])
      BY <2>5 DEF JoinerWakes, cacheVars
    <3> QED  BY <2>1, <2>2, <3>1, <3>2
  <2>6. ASSUME NEW k \in Keys, Lookup(k) PROVE LruConsistent'
    BY <2>t, <2>6, HitLru DEF Lookup
  <2>7. ASSUME NEW ks \in Seq(Keys), Len(ks) \in {1, 2}, PutMany(ks) PROVE LruConsistent'
    <3>1. nfetch + 1 \in Vals /\ nfetch + 1 # 0
      BY <2>7, ConstantsAssumption, FS_CardinalityType DEF PutMany, IInv, TypeOK, Vals, FetchCap
    <3> QED  BY <2>t, <2>7, <3>1, StoreAndEvictLru DEF PutMany
  <2>8. ASSUME NEW k \in Keys, Invalidate(k) PROVE LruConsistent'
    <3>1. lru \in Seq(Keys) /\ Once(lru)
      BY <2>t DEF TypeOK, LruConsistent, Once
    <3>2. /\ lru' = Without(lru, k)
          /\ store' = [m \in Keys |-> IF m \in {k} THEN 0 ELSE store[m]]
      BY <2>8 DEF Invalidate, DropKeys
    <3>3. Once(lru') /\ Entries(lru') = Entries(lru) \ {k} /\ Len(lru') <= Len(lru) /\ Len(lru') \in Nat
      BY <3>1, <3>2, WithoutEffect, WithoutType
    <3>4. Len(lru') <= MaxSize
      BY <3>1, <3>3, ConstantsAssumption DEF LruConsistent
    <3> QED  BY <3>2, <3>3, <3>4 DEF LruConsistent, Once
  <2>9. CASE InvalidateAll
    BY <2>9, DropAllLru DEF InvalidateAll
  <2>10. ASSUME NEW w \in Waiters, WaiterInvalidates(w) PROVE LruConsistent'
    BY <2>10, DropAllLru DEF WaiterInvalidates
  <2>11. ASSUME NEW w \in Waiters,
                SettleBegin(w) \/ SettleWakes(w) \/ QuiesceBegin(w) \/ QuiesceWakes(w) \/ CancelWaiter(w)
         PROVE  LruConsistent'
    <3>1. UNCHANGED <<store, lru>> \/ WaiterInvalidates(w)
      BY <2>11 DEF SettleBegin, SettleWakes, QuiesceBegin, QuiesceWakes, CancelWaiter, SettleLoop,
                   WaiterGivesUp, NextFuture, cacheVars
    <3> QED  BY <2>1, <2>10, <3>1
  <2>12. CASE UNCHANGED vars
    BY <2>1, <2>12 DEF vars, cacheVars
  <2>13. ASSUME NEW k \in Keys, NEW n \in Keys, PutMany(<<k>>) \/ PutMany(<<k, n>>) PROVE LruConsistent'
    <3>1. <<k>> \in Seq(Keys) /\ Len(<<k>>) = 1 /\ <<k, n>> \in Seq(Keys) /\ Len(<<k, n>>) = 2
      OBVIOUS
    <3> QED  BY <2>7, <2>13, <3>1
  <2> QED
    BY <2>2, <2>3, <2>4, <2>5, <2>6, <2>8, <2>9, <2>11, <2>12, <2>13 DEF Next, Resolve
<1> QED  BY <1>1, <1>2, IInvAlways, PTL DEF Spec

-----------------------------------------------------------------------------
(* A cache that only settle_all and invalidate empty (AsyncOnce.close, Repository's catalogs). *)

\* No lookup, put or plain invalidate, one closer, and room for every key.
ClosedBySettleAll ==
    /\ Ops = {} /\ Quiescers = {} /\ \A v, w \in Closers : v = w
    /\ IsFiniteSet(Keys) /\ Cardinality(Keys) <= MaxSize

\* What settle_all's locals tell of the store: the futures it awaits, once they have a value,
\* and the values it collected are the entries of the store; what it awaited is done or
\* still on its list.
CloserKnows(w) ==
    /\ \A k \in Keys, f \in todo[w] \cup {cur[w]} : <<k, f>> \in produced => store[k] = f
    /\ \A k \in Keys : landed[w][k] # 0 => store[k] = landed[w][k]
    /\ \A f \in awaited[w] : futState[f] \in Done \/ f = cur[w] \/ f \in todo[w]

LInv ==
    /\ stale = {}
    /\ \A k \in Keys : inflight[k] # 0 => store[k] = 0
    /\ \A k \in Keys, f \in Fetches : <<k, f>> \in produced => futState[f] = "result"
    /\ \A w \in Closers : wpc[w] = "waiting" => CloserKnows(w)
    /\ NothingLeaks

\* An order that lists keys once is no longer than there are keys.
LEMMA OnceIsShort ==
  ASSUME NEW s \in Seq(Keys), Once(s), IsFiniteSet(Keys)
  PROVE  Len(s) <= Cardinality(Keys)
<1>1. Len(s) \in Nat /\ s \in [1..Len(s) -> Keys]
  BY LenProperties
<1>2. IsFiniteSet(1..Len(s)) /\ Cardinality(1..Len(s)) = Len(s)
  BY <1>1, FS_Interval
<1>3. s \in Injection(1..Len(s), Keys)
  BY <1>1 DEF Once, Injection, IsInjective
<1> QED  BY <1>2, <1>3, FS_Injection

\* With room for every key a finished fetch only adds its entry.
LEMMA StoreOne ==
  ASSUME ClosedBySettleAll, TypeOK, LruConsistent, NEW k \in Keys, NEW v \in Vals,
         StoreAndEvict(<<k>>, v)
  PROVE  store' = [store EXCEPT ![k] = v]
<1> DEFINE t == MoveToEnd(lru, k)
<1>1. lru \in Seq(Keys) /\ Once(lru)
  BY DEF TypeOK, LruConsistent, Once
<1>2. t \in Seq(Keys) /\ Once(t) /\ Entries(t) = Entries(lru) \cup {k}
  BY <1>1, MoveToEndType, MoveToEndEffect
<1>3. Len(<<k>>) = 1 /\ <<k>>[1] = k /\ Entries(<<k>>) = {k}
  BY DEF Entries
<1> HIDE DEF t
<1>4. Evict(t) = t
  <2>1. Len(t) <= MaxSize
    BY <1>2, OnceIsShort, FS_CardinalityType, ConstantsAssumption, LenProperties
       DEF ClosedBySettleAll
  <2> QED  BY <1>2, <2>1, EvictEffect
<1>5. store' = [m \in Keys |-> IF m \notin Entries(Evict(t)) THEN 0
                               ELSE IF m \in Entries(<<k>>) THEN v ELSE store[m]]
  BY <1>3 DEF StoreAndEvict, t
<1>6. store \in [Keys -> Vals] /\ \A m \in Keys : m \notin Entries(lru) => store[m] = 0
  BY DEF TypeOK, LruConsistent
<1>7. \A m \in Keys : store'[m] = IF m = k THEN v ELSE store[m]
  BY <1>2, <1>3, <1>4, <1>5, <1>6
<1> QED  BY <1>5, <1>6, <1>7

\* A step that changes neither the store nor what was produced, returned or awaited, and
\* settles, if any, one future that was pending without a value.
LEMMA LeakKept ==
  ASSUME IInv, LInv, UNCHANGED <<store, stale, produced, returned, waiterVars>>,
         \A k \in Keys : inflight'[k] # 0 => store[k] = 0,
         \A f \in Fetches : futState[f] \in Done => futState'[f] = futState[f]
  PROVE  LInv'
<1>1. \A w \in Closers : w \in Waiters /\ awaited[w] \subseteq Fetches
  BY DEF IInv, TypeOK, Waiters
<1>2. \A w \in Closers : CloserKnows(w) => CloserKnows(w)'
  BY <1>1 DEF CloserKnows, waiterVars
<1>3. \A k \in Keys, f \in Fetches : <<k, f>> \in produced => futState'[f] = "result"
  BY DEF LInv, Done
<1> QED  BY <1>2, <1>3 DEF LInv, NothingLeaks, waiterVars

LEMMA ResolveTurnLeak ==
  ASSUME IInv, LInv, NEW c \in Callers, NEW k \in Keys, ResolveTurn(c, k)
  PROVE  LInv'
<1>1. UNCHANGED <<store, stale, produced, returned, waiterVars>>
  BY DEF ResolveTurn, history
<1>2. CASE UNCHANGED <<inflight, futState>>
  BY <1>1, <1>2, LeakKept DEF LInv
<1>3. CASE /\ store[k] = 0 /\ nfetch < FetchCap /\ inflight' = [inflight EXCEPT ![k] = nfetch + 1]
           /\ futState' = [futState EXCEPT ![nfetch + 1] = "pending"]
  <2>1. nfetch + 1 \in Fetches /\ futState[nfetch + 1] = "unborn"
    BY <1>3, CapNat DEF IInv, TypeOK, IdsUsed, Fetches, Vals
  <2>2. \A f \in Fetches : futState[f] \in Done => futState'[f] = futState[f]
    BY <1>3, <2>1 DEF Done, IInv, TypeOK
  <2>3. \A m \in Keys : inflight'[m] # 0 => store[m] = 0
    BY <1>3 DEF LInv, IInv, TypeOK
  <2> QED  BY <1>1, <2>2, <2>3, LeakKept
<1> QED  BY <1>2, <1>3 DEF ResolveTurn

LEMMA FetchRaisesLeak ==
  ASSUME IInv, LInv, NEW c \in Callers, NEW o, FetchRaises(c, o)
  PROVE  LInv'
<1>1. /\ UNCHANGED <<store, produced, returned, waiterVars>> /\ stale' = {}
      /\ inflight' = [inflight EXCEPT ![want[c]] = 0]
      /\ futState' = [futState EXCEPT ![fut[c]] = o] /\ pc[c] = "fetching"
  BY DEF FetchRaises, history, LInv
<1>2. stale = {} /\ want[c] \in Keys /\ fut[c] \in Fetches /\ futState[fut[c]] = "pending"
  BY <1>1 DEF LInv, IInv, CallersBusy, PendingOwned
<1>3. \A f \in Fetches : futState[f] \in Done => futState'[f] = futState[f]
  BY <1>1, <1>2 DEF Done, IInv, TypeOK
<1>4. \A m \in Keys : inflight'[m] # 0 => store[m] = 0
  BY <1>1, <1>2 DEF LInv, IInv, TypeOK
<1> QED  BY <1>1, <1>2, <1>3, <1>4, LeakKept

\* A fetch that ends well is stored where nothing was.
LEMMA FetchOkLeak ==
  ASSUME ClosedBySettleAll, IInv, LInv, LruConsistent, NEW c \in Callers, FetchOk(c)
  PROVE  LInv'
<1> DEFINE k == want[c]
           f == fut[c]
<1>1. /\ pc[c] = "fetching" /\ k \in Keys /\ f \in Fetches /\ futState[f] = "pending"
      /\ inflight[k] = f /\ f # 0 /\ f \in Vals
  BY CapNat DEF FetchOk, IInv, CallersBusy, PendingOwned, InflightOwned, Fetches, Vals
<1>2. store[k] = 0 /\ stale = {}
  BY <1>1 DEF LInv
<1>3. /\ StoreAndEvict(<<k>>, f) /\ stale' = {} /\ inflight' = [inflight EXCEPT ![k] = 0]
      /\ produced' = produced \cup {<<k, f>>} /\ futState' = [futState EXCEPT ![f] = "result"]
      /\ UNCHANGED <<waiterVars, returned>>
  BY <1>2 DEF FetchOk, KeepsResult
<1> HIDE DEF k, f
<1>4. store' = [store EXCEPT ![k] = f] /\ store \in [Keys -> Vals]
  BY <1>1, <1>3, StoreOne DEF IInv, TypeOK
<1>5. \A m \in Keys, g \in Fetches : <<m, g>> \in produced => futState[g] = "result" /\ g # f
  BY <1>1 DEF LInv
<1>6. \A m \in Keys : store[m] # 0 => m # k /\ store'[m] = store[m]
  BY <1>2, <1>4
<1>7. \A g \in Fetches : g # 0 /\ g \in Nat
  BY CapNat DEF Fetches
<1>8. \A m \in Keys, g \in Fetches : <<m, g>> \in produced' => futState'[g] = "result"
  BY <1>1, <1>3, <1>5 DEF IInv, TypeOK
<1>9. ASSUME NEW w \in Closers, wpc[w] = "waiting"
      PROVE  CloserKnows(w)'
  <2>1. CloserKnows(w) /\ UNCHANGED <<todo, cur, landed, awaited>>
    BY <1>3, <1>9 DEF LInv, waiterVars
  <2>2. /\ todo[w] \cup {cur[w]} \subseteq Fetches /\ awaited[w] \subseteq Fetches
        /\ landed[w] \in [Keys -> Vals]
    BY <1>9 DEF IInv, TypeOK, WaitersBusy, Waiters
  <2>3. \A m \in Keys, g \in todo[w] \cup {cur[w]} : <<m, g>> \in produced' => store'[m] = g
    BY <1>1, <1>3, <1>4, <1>6, <1>7, <2>1, <2>2 DEF CloserKnows
  <2>4. \A m \in Keys : landed[w][m] # 0 => store'[m] = landed[w][m]
    BY <1>6, <2>1, <2>2 DEF CloserKnows
  <2>5. \A g \in awaited[w] : futState'[g] \in Done \/ g = cur[w] \/ g \in todo[w]
    BY <1>1, <1>3, <2>1, <2>2 DEF CloserKnows, Done, IInv, TypeOK
  <2> QED  BY <2>1, <2>3, <2>4, <2>5 DEF CloserKnows
<1>10. NothingLeaks'
  <2> SUFFICES ASSUME NEW p \in produced' PROVE store'[p[1]] = p[2] \/ p \in returned
    BY <1>3 DEF NothingLeaks
  <2>1. CASE p = <<k, f>>
    BY <1>1, <1>4, <2>1
  <2>2. CASE p \in produced
    <3>1. p[1] \in Keys /\ p[2] \in Fetches
      BY <2>2 DEF IInv, TypeOK, Pairs
    <3> QED  BY <1>6, <1>7, <2>2, <3>1 DEF LInv, NothingLeaks
  <2> QED  BY <1>3, <2>1, <2>2
<1>11. \A m \in Keys : inflight'[m] # 0 => store'[m] = 0
  BY <1>1, <1>3, <1>4 DEF LInv, IInv, TypeOK
<1> QED  BY <1>3, <1>8, <1>9, <1>10, <1>11 DEF LInv, waiterVars

\* settle_all's while test, when what it collected is in the store and what it awaited is done.
LEMMA SettleLoopLeak ==
  ASSUME ClosedBySettleAll, IInv, LInv, NEW w \in Closers, NEW h \in [Keys -> Vals],
         NEW l \in [Keys -> Vals], NEW a \in SUBSET Fetches, SettleLoop(w, h, l, a),
         \A k \in Keys : l[k] # 0 => store[k] = l[k],
         \A f \in a : futState[f] \in Done
  PROVE  LInv'
<1> DEFINE pending == Pending \ a
<1>0. w \in Waiters /\ \A v \in Closers : v = w
  BY DEF ClosedBySettleAll, Waiters
<1>1. Pending \subseteq Fetches /\ \A f \in Pending : futState[f] = "pending"
  BY PendingInUse
<1>2. CASE /\ AwaitOneOf(w, pending)
           /\ awaited' = [awaited EXCEPT ![w] = a \cup pending]
           /\ landed' = [landed EXCEPT ![w] = l]
           /\ UNCHANGED <<cacheVars, history>>
  <2>1. PICK f \in pending : cur' = [cur EXCEPT ![w] = f] /\ todo' = [todo EXCEPT ![w] = pending \ {f}]
    BY <1>2 DEF AwaitOneOf
  <2>2. /\ cur'[w] = f /\ todo'[w] = pending \ {f} /\ awaited'[w] = a \cup pending
        /\ landed'[w] = l
    BY <1>0, <1>2, <2>1 DEF IInv, TypeOK
  <2>3. UNCHANGED <<store, inflight, stale, futState, produced, returned>>
    BY <1>2 DEF cacheVars, history
  <2>4. \A k \in Keys, g \in pending : <<k, g>> \notin produced
    BY <1>1 DEF LInv
  <2>5. CloserKnows(w)'
    BY <2>2, <2>3, <2>4 DEF CloserKnows
  <2> QED  BY <1>0, <2>3, <2>5 DEF LInv, NothingLeaks
<1>3. CASE /\ pending = {}
           /\ returned' = returned \cup {p \in Pairs : Settled(h, l)[p[1]] = p[2]}
           /\ WaiterInvalidates(w)
  <2>1. Pending = {}
    BY <1>1, <1>3 DEF Done
  <2>2. \A k \in Keys : inflight[k] = 0
    BY <2>1 DEF Pending
  <2>3. /\ wpc'[w] # "waiting" /\ store' = [k \in Keys |-> 0] /\ stale' = {}
        /\ UNCHANGED <<inflight, futState, produced>>
    BY <1>0, <1>3, <2>2 DEF WaiterInvalidates, DropKeys, LInv, IInv, TypeOK
  <2>4. NothingLeaks'
    <3> SUFFICES ASSUME NEW p \in produced PROVE p \in returned'
      BY <2>3 DEF NothingLeaks
    <3>1. p \in Pairs /\ p[1] \in Keys /\ p[2] # 0
      BY CapNat DEF IInv, TypeOK, Pairs, Fetches
    <3>2. CASE store[p[1]] = p[2]
      <4>1. Settled(h, l)[p[1]] = p[2]
        BY <3>1, <3>2 DEF Settled
      <4> QED  BY <1>3, <3>1, <4>1
    <3> QED  BY <1>3, <3>2 DEF LInv, NothingLeaks
  <2> QED  BY <1>0, <2>2, <2>3, <2>4 DEF LInv
<1> QED  BY <1>2, <1>3 DEF SettleLoop

\* A closer that ends its call, or was cancelled before it, leaves everything else alone.
LEMMA GivesUpLeak ==
  ASSUME ClosedBySettleAll, IInv, LInv, NEW w \in Closers, WaiterGivesUp(w)
  PROVE  LInv'
<1>1. \A v \in Closers : v = w /\ wpc'[v] # "waiting"
  BY DEF ClosedBySettleAll, WaiterGivesUp, IInv, TypeOK, Waiters
<1> QED  BY <1>1 DEF WaiterGivesUp, LInv, NothingLeaks, cacheVars, history

LEMMA SettleWakesLeak ==
  ASSUME ClosedBySettleAll, IInv, LInv, NEW w \in Closers, SettleWakes(w)
  PROVE  LInv'
<1> DEFINE settled   == {f \in todo[w] : futState[f] \in Done}
           unsettled == todo[w] \ settled
           l         == Landed(landed[w], settled \cup {cur[w]})
<1>0. /\ w \in Waiters /\ wpc[w] = "waiting" /\ futState[cur[w]] \in Done /\ CloserKnows(w)
      /\ \A v \in Closers : v = w
  BY DEF ClosedBySettleAll, Waiters, SettleWakes, LInv
<1>1. /\ cur[w] \in Fetches /\ settled \in SUBSET Fetches /\ unsettled \in SUBSET todo[w]
      /\ held[w] \in [Keys -> Vals] /\ landed[w] \in [Keys -> Vals] /\ awaited[w] \in SUBSET Fetches
  BY <1>0 DEF IInv, TypeOK, WaitersBusy
<1>2. l \in [Keys -> Vals]
  BY <1>1, LandedType
<1>3. \A k \in Keys : l[k] # 0 => store[k] = l[k]
  <2> SUFFICES ASSUME NEW k \in Keys, l[k] # 0 PROVE store[k] = l[k]
    OBVIOUS
  <2>1. CASE \E f \in settled \cup {cur[w]} : futState[f] = "result" /\ <<k, f>> \in produced
    <3> DEFINE f == CHOOSE f \in settled \cup {cur[w]} : futState[f] = "result" /\ <<k, f>> \in produced
    <3>1. f \in settled \cup {cur[w]} /\ <<k, f>> \in produced
      BY <2>1
    <3>2. l[k] = f
      BY <2>1 DEF Landed
    <3> HIDE DEF f, l
    <3> QED  BY <1>0, <3>1, <3>2 DEF CloserKnows
  <2>2. CASE ~\E f \in settled \cup {cur[w]} : futState[f] = "result" /\ <<k, f>> \in produced
    <3>1. l[k] = landed[w][k]
      BY <2>2 DEF Landed
    <3> HIDE DEF l
    <3> QED  BY <1>0, <3>1 DEF CloserKnows
  <2> QED  BY <2>1, <2>2
<1> HIDE DEF l
<1>4. CASE WaiterGivesUp(w)
  BY <1>4, GivesUpLeak
<1>5. CASE NextFuture(w, unsettled) /\ landed' = [landed EXCEPT ![w] = l]
  <2>1. PICK f \in unsettled : cur' = [cur EXCEPT ![w] = f] /\ todo' = [todo EXCEPT ![w] = unsettled \ {f}]
    BY <1>5 DEF NextFuture, AwaitOneOf
  <2>2. cur'[w] = f /\ todo'[w] = unsettled \ {f} /\ landed'[w] = l
    BY <1>0, <1>5, <2>1 DEF IInv, TypeOK
  <2>3. UNCHANGED <<store, inflight, stale, futState, produced, returned, awaited>>
    BY <1>5 DEF NextFuture, cacheVars, history
  <2>4. CloserKnows(w)'
    BY <1>0, <1>3, <2>2, <2>3 DEF CloserKnows
  <2> QED  BY <1>0, <2>3, <2>4 DEF LInv, NothingLeaks
<1>6. CASE unsettled = {} /\ SettleLoop(w, held[w], l, awaited[w])
  <2>1. \A f \in awaited[w] : futState[f] \in Done
    BY <1>0, <1>6 DEF CloserKnows
  <2> QED  BY <1>1, <1>2, <1>3, <1>6, <2>1, SettleLoopLeak
<1> QED  BY <1>4, <1>5, <1>6 DEF SettleWakes, l

LEMMA NextLeak ==
  ASSUME ClosedBySettleAll, IInv, LInv, LruConsistent, [Next]_vars
  PROVE  LInv'
<1>1. ASSUME UNCHANGED <<cacheVars, waiterVars, history>> PROVE LInv'
  <2>1. /\ UNCHANGED <<store, stale, inflight, futState, produced, returned, waiterVars>>
    BY <1>1 DEF cacheVars, history
  <2> QED  BY <2>1, LeakKept DEF LInv
<1>2. ASSUME NEW c \in Callers, NEW k \in Keys, Resolve(c, k) PROVE LInv'
  BY <1>2, ResolveTurnLeak DEF Resolve
<1>3. ASSUME NEW c \in Callers, FetchOk(c) PROVE LInv'
  BY <1>3, FetchOkLeak
<1>4. ASSUME NEW c \in Callers, FetchFails(c) \/ FetchCancelled(c) PROVE LInv'
  BY <1>4, FetchRaisesLeak DEF FetchFails, FetchCancelled
<1>5. ASSUME NEW c \in Callers, JoinerWakes(c) PROVE LInv'
  <2>1. want[c] \in Keys
    BY <1>5 DEF JoinerWakes, IInv, CallersBusy
  <2> QED  BY <1>1, <1>5, <2>1, ResolveTurnLeak DEF JoinerWakes
<1>6. ASSUME NEW c \in Callers, CancelFetcher(c) \/ CancelJoiner(c) PROVE LInv'
  BY <1>1, <1>6 DEF CancelFetcher, CancelJoiner
<1>7. \A k, n \in Keys : ~Lookup(k) /\ ~PutMany(<<k>>) /\ ~PutMany(<<k, n>>) /\ ~Invalidate(k)
  BY DEF ClosedBySettleAll, Lookup, PutMany, Invalidate
<1>8. ~InvalidateAll
  BY DEF ClosedBySettleAll, InvalidateAll
<1>9. \A w \in Waiters : w \in Closers /\ ~QuiesceBegin(w) /\ ~QuiesceWakes(w)
  BY DEF ClosedBySettleAll, QuiesceBegin, QuiesceWakes, Waiters
<1>10. ASSUME NEW w \in Closers, SettleBegin(w) PROVE LInv'
  <2>1. /\ store \in [Keys -> Vals] /\ Nothing \in [Keys -> Vals] /\ {} \in SUBSET Fetches
        /\ \A k \in Keys : Nothing[k] = 0
    BY CapNat DEF IInv, TypeOK, Nothing, Vals
  <2> QED  BY <1>10, <2>1, SettleLoopLeak DEF SettleBegin
<1>11. ASSUME NEW w \in Closers, CancelWaiter(w) PROVE LInv'
  BY <1>1, <1>11, GivesUpLeak DEF CancelWaiter
<1>12. CASE UNCHANGED vars
  BY <1>1, <1>12 DEF vars
<1> QED
  BY <1>2, <1>3, <1>4, <1>5, <1>6, <1>7, <1>8, <1>9, <1>10, <1>11, <1>12, SettleWakesLeak DEF Next

\* Every value a fetch produced is still in the cache or was handed to the closer, through
\* fetches that end, fail or are cancelled while settle_all waits, and a settle_all that is
\* cancelled and called again.
THEOREM NothingIsLost ==
  ASSUME ClosedBySettleAll
  PROVE  Spec => []NothingLeaks
<1>1. Init => LInv
  BY DEF Init, LInv, NothingLeaks, Nothing, Waiters
<1>2. IInv /\ LruConsistent /\ LInv /\ [Next]_vars => LInv'
  BY NextLeak
<1>3. LInv => NothingLeaks
  BY DEF LInv
<1> QED  BY <1>1, <1>2, <1>3, IInvAlways, LruIsConsistent, PTL DEF Spec

=============================================================================
