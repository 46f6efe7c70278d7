--------------------------- MODULE AsyncKeyedCache ---------------------------
(***************************************************************************)
(* AsyncKeyedCache (sdk/asynccache.py): the one key -> value cache of the  *)
(* SDK.  resolve() fetches on a miss and joins concurrent callers of a key *)
(* on one future; invalidate() drops entries and marks the fetches in      *)
(* flight stale; settle_all() waits for every fetch and hands the values   *)
(* to whoever closes them; quiesce() only waits (CacheManager.keyed).      *)
(*                                                                         *)
(* Everything runs on one event loop, so an action is the code between two *)
(* awaits.  A value is known by the id of the fetch (or put) that made it, *)
(* paired with its key; 0 is "no entry".                                   *)
(***************************************************************************)
EXTENDS Integers, Sequences, FiniteSets, TLC

CONSTANTS
    Keys,        \* the keys callers ask for
    Callers,     \* tasks that call resolve()
    Closers,     \* tasks that call settle_all() and then invalidate()
    Quiescers,   \* tasks that call quiesce() and then invalidate()
    MaxSize,     \* maxsize; None is any value >= Cardinality(Keys)
    MaxFetches,  \* bound: ids given to fresh fetches and puts
    Ops          \* the synchronous calls this instance's owner makes

ASSUME ConstantsAssumption ==
    /\ MaxSize \in Nat \ {0}
    /\ MaxFetches \in Nat
    /\ IsFiniteSet(Callers)
    /\ Closers \cap Quiescers = {}
    /\ Ops \subseteq {"lookup", "put", "invalidate"}

\* A joiner whose owner was cancelled fetches anew: one more id per caller.
FetchCap == MaxFetches + Cardinality(Callers)

Fetches == 1..FetchCap
Vals    == 0..FetchCap
Waiters == Closers \cup Quiescers
Pairs   == Keys \X Fetches

VARIABLES
    store,      \* _store: key -> value id, 0 when absent
    lru,        \* _store's order, least recently used first
    inflight,   \* _inflight: key -> id of the fetch's future, 0 when none
    stale,      \* _stale
    futState,   \* state of the future of each fetch id
    nfetch,     \* ids handed out
    pc, want, fut, out,   \* per caller: where it is, key, future, outcome
    cancelling,           \* tasks t with t.cancelling() > 0
    throw,                \* callers whose CancelledError is not delivered yet
    wpc, cur, todo,       \* per waiter: place, future awaited, rest of the round
    awaited, held, landed, \* settle_all's locals
    wout,                 \* outcome of the waiter's last call
    outdated,   \* history: <<key, id>> begun before key's last invalidate
    produced,   \* history: <<key, id>> that were fetched successfully or put
    returned    \* history: <<key, id>> handed to a closer

callerVars == <<pc, want, fut, out, throw>>
waiterVars == <<wpc, cur, todo, awaited, held, landed, wout>>
cacheVars  == <<store, lru, inflight, stale, futState, nfetch>>
history    == <<outdated, produced, returned>>
vars == <<cacheVars, callerVars, cancelling, waiterVars, history>>

Done == {"result", "exception", "cancelled"}

TypeOK ==
    /\ store \in [Keys -> Vals]
    /\ lru \in Seq(Keys)
    /\ inflight \in [Keys -> Vals]
    /\ stale \subseteq Keys
    /\ futState \in [Fetches -> {"unborn", "pending"} \cup Done]
    /\ nfetch \in Vals
    /\ pc \in [Callers -> {"idle", "fetching", "joined"}]
    /\ want \in [Callers -> Keys \cup {"none"}]
    /\ fut \in [Callers -> Vals]
    /\ out \in [Callers -> {"none", "value", "exception", "cancelled"}]
    /\ cancelling \subseteq (Callers \cup Waiters)
    /\ throw \subseteq Callers
    /\ wpc \in [Waiters -> {"idle", "waiting"}]
    /\ cur \in [Waiters -> Vals]
    /\ todo \in [Waiters -> SUBSET Fetches]
    /\ awaited \in [Waiters -> SUBSET Fetches]
    /\ held \in [Waiters -> [Keys -> Vals]]
    /\ landed \in [Waiters -> [Keys -> Vals]]
    /\ wout \in [Waiters -> {"none", "settled", "cancelled"}]
    /\ outdated \subseteq Pairs
    /\ produced \subseteq Pairs
    /\ returned \subseteq Pairs

Nothing == [k \in Keys |-> 0]

Init ==
    /\ store = Nothing /\ lru = <<>> /\ inflight = Nothing /\ stale = {}
    /\ futState = [f \in Fetches |-> "unborn"] /\ nfetch = 0
    /\ pc = [c \in Callers |-> "idle"] /\ want = [c \in Callers |-> "none"]
    /\ fut = [c \in Callers |-> 0] /\ out = [c \in Callers |-> "none"]
    /\ cancelling = {} /\ throw = {}
    /\ wpc = [w \in Waiters |-> "idle"] /\ cur = [w \in Waiters |-> 0]
    /\ todo = [w \in Waiters |-> {}] /\ awaited = [w \in Waiters |-> {}]
    /\ held = [w \in Waiters |-> Nothing] /\ landed = [w \in Waiters |-> Nothing]
    /\ wout = [w \in Waiters |-> "none"]
    /\ outdated = {} /\ produced = {} /\ returned = {}

-----------------------------------------------------------------------------
(* The OrderedDict. *)

Entries(s) == {s[i] : i \in 1..Len(s)}

\* Order s without k.
Without(s, k) ==
    IF k \in Entries(s)
    THEN LET i == CHOOSE j \in 1..Len(s) : s[j] = k
         IN  SubSeq(s, 1, i - 1) \o SubSeq(s, i + 1, Len(s))
    ELSE s

\* move_to_end(k), inserting k when it is new.
MoveToEnd(s, k) == Append(Without(s, k), k)

\* Mutant: evicts one store late (> for >=).
EvictLate(s) == IF Len(s) > MaxSize + 1 THEN SubSeq(s, Len(s) - MaxSize, Len(s)) ELSE s

\* _evict: popitem(last=False) while there are more than MaxSize entries.
Evict(s) == IF Len(s) > MaxSize THEN SubSeq(s, Len(s) - MaxSize + 1, Len(s)) ELSE s

\* Store value v for the keys ks (in order), then evict once.
StoreAndEvict(ks, v) ==
    LET touched == IF Len(ks) = 1 THEN MoveToEnd(lru, ks[1])
                   ELSE MoveToEnd(MoveToEnd(lru, ks[1]), ks[2])
        kept    == Evict(touched)
    IN  /\ lru' = kept
        /\ store' = [k \in Keys |-> IF k \notin Entries(kept) THEN 0
                                    ELSE IF k \in Entries(ks) THEN v ELSE store[k]]

\* invalidate(key) for the keys of ks; every key is invalidate(None).
DropKeys(ks) ==
    /\ store' = [k \in Keys |-> IF k \in ks THEN 0 ELSE store[k]]
    /\ stale' = stale \cup {k \in ks : inflight[k] # 0}
    /\ outdated' = outdated \cup (ks \X (1..nfetch))

\* Seeing key k in _store: move_to_end and return the value.
Hit(k) == lru' = MoveToEnd(lru, k)

-----------------------------------------------------------------------------
(* resolve() *)

\* One turn of resolve's while loop for caller c and key k, up to its await.
ResolveTurn(c, k) ==
    /\ \/ /\ store[k] # 0
          /\ Hit(k)
          /\ pc' = [pc EXCEPT ![c] = "idle"]
          /\ want' = [want EXCEPT ![c] = "none"]
          /\ fut' = [fut EXCEPT ![c] = 0]
          /\ out' = [out EXCEPT ![c] = "value"]
          /\ UNCHANGED <<inflight, futState, nfetch>>
       \/ /\ store[k] = 0 /\ inflight[k] # 0
          /\ pc' = [pc EXCEPT ![c] = "joined"]
          /\ want' = [want EXCEPT ![c] = k]
          /\ fut' = [fut EXCEPT ![c] = inflight[k]]
          /\ out' = [out EXCEPT ![c] = "none"]
          /\ UNCHANGED <<lru, inflight, futState, nfetch>>
       \/ /\ store[k] = 0 /\ inflight[k] = 0 /\ nfetch < FetchCap
          /\ nfetch' = nfetch + 1
          /\ futState' = [futState EXCEPT ![nfetch + 1] = "pending"]
          /\ inflight' = [inflight EXCEPT ![k] = nfetch + 1]
          /\ pc' = [pc EXCEPT ![c] = "fetching"]
          /\ want' = [want EXCEPT ![c] = k]
          /\ fut' = [fut EXCEPT ![c] = nfetch + 1]
          /\ out' = [out EXCEPT ![c] = "none"]
          /\ UNCHANGED lru
    /\ UNCHANGED <<store, stale, throw, cancelling, waiterVars, history>>

Resolve(c, k) ==
    /\ pc[c] = "idle"
    /\ (store[k] = 0 /\ inflight[k] = 0) => nfetch < MaxFetches
    /\ ResolveTurn(c, k)

\* Caller c's resolve returns (or raises) with outcome o.
Return(c, o) ==
    /\ pc' = [pc EXCEPT ![c] = "idle"]
    /\ out' = [out EXCEPT ![c] = o]
    /\ throw' = throw \ {c}
    /\ want' = [want EXCEPT ![c] = "none"]
    /\ fut' = [fut EXCEPT ![c] = 0]

\* Mutant: the result is stored whatever happened during the fetch.
KeepsAnyResult(k) == TRUE

\* Whether a finished fetch of k may be stored: no invalidate() hit it.
KeepsResult(k) == k \notin stale

\* _fetch_and_store after a successful fetch.
FetchOk(c) ==
    /\ pc[c] = "fetching"
    /\ LET k == want[c] IN
       /\ \/ KeepsResult(k) /\ StoreAndEvict(<<k>>, fut[c])
          \/ ~KeepsResult(k) /\ UNCHANGED <<store, lru>>
       /\ stale' = stale \ {k}
       /\ inflight' = [inflight EXCEPT ![k] = 0]
       /\ produced' = produced \cup {<<k, fut[c]>>}
    /\ futState' = [futState EXCEPT ![fut[c]] = "result"]
    /\ Return(c, "value")
    /\ UNCHANGED <<nfetch, cancelling, waiterVars, outdated, returned>>

\* Mutant: a failed fetch leaves its key in _stale.
FetchRaisesKeepingStale(c, o) ==
    /\ pc[c] = "fetching"
    /\ inflight' = [inflight EXCEPT ![want[c]] = 0]
    /\ futState' = [futState EXCEPT ![fut[c]] = o]
    /\ Return(c, o)
    /\ UNCHANGED <<store, lru, stale, nfetch, cancelling, waiterVars, history>>

\* Mutant: a failed fetch never settles the future its joiners await.
FetchRaisesSilently(c, o) ==
    /\ pc[c] = "fetching"
    /\ inflight' = [inflight EXCEPT ![want[c]] = 0]
    /\ stale' = stale \ {want[c]}
    /\ Return(c, o)
    /\ UNCHANGED <<store, lru, futState, nfetch, cancelling, waiterVars, history>>

\* The except BaseException branch of _fetch_and_store, with outcome o.
FetchRaises(c, o) ==
    /\ pc[c] = "fetching"
    /\ inflight' = [inflight EXCEPT ![want[c]] = 0]
    /\ stale' = stale \ {want[c]}
    /\ futState' = [futState EXCEPT ![fut[c]] = o]
    /\ Return(c, o)
    /\ UNCHANGED <<store, lru, nfetch, cancelling, waiterVars, history>>

FetchFails(c) == FetchRaises(c, "exception")
FetchCancelled(c) == c \in throw /\ FetchRaises(c, "cancelled")

\* Mutant: a joiner lets the cancellation of somebody else's fetch through.
ReraisesAlways(t) == TRUE

\* Whether a CancelledError seen while awaiting another caller's fetch is
\* re-raised by task t (_reraise_if_this_task_is_cancelled).
Reraises(t) == t \in cancelling

\* A joiner wakes up: the future it joined is done.
JoinerWakes(c) ==
    /\ pc[c] = "joined"
    /\ \/ /\ futState[fut[c]] = "result"
          /\ Return(c, "value")
          /\ UNCHANGED <<cacheVars, cancelling, waiterVars, history>>
       \/ /\ futState[fut[c]] = "exception"
          /\ Return(c, "exception")
          /\ UNCHANGED <<cacheVars, cancelling, waiterVars, history>>
       \/ /\ futState[fut[c]] = "cancelled" /\ Reraises(c)
          /\ Return(c, "cancelled")
          /\ UNCHANGED <<cacheVars, cancelling, waiterVars, history>>
       \/ /\ futState[fut[c]] = "cancelled" /\ ~Reraises(c)
          /\ ResolveTurn(c, want[c])

\* task.cancel() on a caller; at most once per task.  A joiner awaits a
\* shield, so only its own await is interrupted; the task that runs the
\* fetch gets the CancelledError inside the fetch.
CancelFetcher(c) ==
    /\ pc[c] = "fetching" /\ c \notin cancelling
    /\ cancelling' = cancelling \cup {c}
    /\ throw' = throw \cup {c}
    /\ UNCHANGED <<cacheVars, pc, want, fut, out, waiterVars, history>>

CancelJoiner(c) ==
    /\ pc[c] = "joined" /\ c \notin cancelling
    /\ cancelling' = cancelling \cup {c}
    /\ Return(c, "cancelled")
    /\ UNCHANGED <<cacheVars, waiterVars, history>>

-----------------------------------------------------------------------------
(* The synchronous calls *)

Lookup(k) ==
    /\ "lookup" \in Ops /\ store[k] # 0
    /\ Hit(k)
    /\ UNCHANGED <<store, inflight, stale, futState, nfetch, callerVars,
                   cancelling, waiterVars, history>>

\* put_many(items); put is the case of one item.
PutMany(ks) ==
    /\ "put" \in Ops /\ nfetch < MaxFetches
    /\ nfetch' = nfetch + 1
    /\ futState' = [futState EXCEPT ![nfetch + 1] = "result"]
    /\ StoreAndEvict(ks, nfetch + 1)
    /\ produced' = produced \cup {<<k, nfetch + 1>> : k \in Entries(ks)}
    /\ UNCHANGED <<inflight, stale, callerVars, cancelling, waiterVars, outdated, returned>>

Invalidate(k) ==
    /\ "invalidate" \in Ops
    /\ DropKeys({k})
    /\ lru' = Without(lru, k)
    /\ UNCHANGED <<inflight, futState, nfetch, callerVars, cancelling, waiterVars,
                   produced, returned>>

InvalidateAll ==
    /\ "invalidate" \in Ops
    /\ DropKeys(Keys)
    /\ lru' = <<>>
    /\ UNCHANGED <<inflight, futState, nfetch, callerVars, cancelling, waiterVars,
                   produced, returned>>

-----------------------------------------------------------------------------
(* settle_all() followed by invalidate(), and quiesce() likewise *)

\* The futures in _inflight.
Pending == {inflight[k] : k \in Keys} \ {0}

\* The values of the futures of S that settled with a result, over base.
Landed(base, S) ==
    [k \in Keys |->
        IF \E f \in S : futState[f] = "result" /\ <<k, f>> \in produced
        THEN CHOOSE f \in S : futState[f] = "result" /\ <<k, f>> \in produced
        ELSE base[k]]

\* Mutant: forgets what was stored while settle_all waited.
SettledAtEntry(h, l) == [k \in Keys |-> IF l[k] # 0 THEN l[k] ELSE h[k]]

\* {**held_at_entry, **self._store, **landed}
Settled(h, l) ==
    [k \in Keys |-> IF l[k] # 0 THEN l[k] ELSE IF store[k] # 0 THEN store[k] ELSE h[k]]

\* The waiter's call ends and it calls invalidate() before its next await.
WaiterInvalidates(w) ==
    /\ wpc' = [wpc EXCEPT ![w] = "idle"]
    /\ wout' = [wout EXCEPT ![w] = "settled"]
    /\ cur' = [cur EXCEPT ![w] = 0]
    /\ todo' = [todo EXCEPT ![w] = {}]
    /\ awaited' = [awaited EXCEPT ![w] = {}]
    /\ held' = [held EXCEPT ![w] = Nothing]
    /\ landed' = [landed EXCEPT ![w] = Nothing]
    /\ lru' = <<>>
    /\ DropKeys(Keys)
    /\ UNCHANGED <<inflight, futState, nfetch, produced>>

\* Waiter w starts awaiting one of the futures of S.
AwaitOneOf(w, S) ==
    \E f \in S :
        /\ wpc' = [wpc EXCEPT ![w] = "waiting"]
        /\ wout' = [wout EXCEPT ![w] = "none"]
        /\ cur' = [cur EXCEPT ![w] = f]
        /\ todo' = [todo EXCEPT ![w] = S \ {f}]

\* settle_all's while test, with its locals h, l and a: start a new round of
\* fetches not awaited yet, or return and invalidate.
SettleLoop(w, h, l, a) ==
    LET pending == Pending \ a IN
    \/ /\ pending # {}
       /\ AwaitOneOf(w, pending)
       /\ awaited' = [awaited EXCEPT ![w] = a \cup pending]
       /\ held' = [held EXCEPT ![w] = h]
       /\ landed' = [landed EXCEPT ![w] = l]
       /\ UNCHANGED <<cacheVars, history>>
    \/ /\ pending = {}
       /\ returned' = returned \cup {p \in Pairs : Settled(h, l)[p[1]] = p[2]}
       /\ WaiterInvalidates(w)

SettleBegin(w) ==
    /\ w \in Closers /\ wpc[w] = "idle"
    /\ SettleLoop(w, store, Nothing, {})
    /\ UNCHANGED <<callerVars, cancelling>>

\* The waiter's CancelledError ends its call: nothing was invalidated.
WaiterGivesUp(w) ==
    /\ wpc' = [wpc EXCEPT ![w] = "idle"]
    /\ wout' = [wout EXCEPT ![w] = "cancelled"]
    /\ cur' = [cur EXCEPT ![w] = 0]
    /\ todo' = [todo EXCEPT ![w] = {}]
    /\ awaited' = [awaited EXCEPT ![w] = {}]
    /\ held' = [held EXCEPT ![w] = Nothing]
    /\ landed' = [landed EXCEPT ![w] = Nothing]
    /\ UNCHANGED <<cacheVars, callerVars, history>>

\* Waiter w moves from the future it awaited to the next unsettled one.
NextFuture(w, unsettled) ==
    /\ AwaitOneOf(w, unsettled)
    /\ UNCHANGED <<cacheVars, awaited, held, history>>

\* The future settle_all awaits is done.  The futures of the round that are
\* done too are collected without another suspension.
SettleWakes(w) ==
    /\ w \in Closers /\ wpc[w] = "waiting" /\ futState[cur[w]] \in Done
    /\ LET settled   == {f \in todo[w] : futState[f] \in Done}
           unsettled == todo[w] \ settled
           l         == Landed(landed[w], settled \cup {cur[w]})
       IN  \/ /\ futState[cur[w]] = "cancelled" /\ Reraises(w)
              /\ WaiterGivesUp(w)
              /\ UNCHANGED cancelling
           \/ /\ ~(futState[cur[w]] = "cancelled" /\ Reraises(w))
              /\ \/ /\ unsettled # {}
                    /\ NextFuture(w, unsettled)
                    /\ landed' = [landed EXCEPT ![w] = l]
                 \/ /\ unsettled = {}
                    /\ SettleLoop(w, held[w], l, awaited[w])
              /\ UNCHANGED <<callerVars, cancelling>>

\* CacheManager.keyed's _invalidate: quiesce() over the fetches in flight now.
QuiesceBegin(w) ==
    /\ w \in Quiescers /\ wpc[w] = "idle"
    /\ \/ /\ Pending # {}
          /\ AwaitOneOf(w, Pending)
          /\ UNCHANGED <<cacheVars, awaited, held, landed, history>>
       \/ /\ Pending = {}
          /\ WaiterInvalidates(w)
          /\ UNCHANGED returned
    /\ UNCHANGED <<callerVars, cancelling>>

\* quiesce awaits every future of its list, done or not: a cancelled one
\* re-raises in a task that is itself cancelled.
QuiesceWakes(w) ==
    /\ w \in Quiescers /\ wpc[w] = "waiting" /\ futState[cur[w]] \in Done
    /\ LET settled   == {f \in todo[w] : futState[f] \in Done}
           unsettled == todo[w] \ settled
           foreign   == \E f \in settled \cup {cur[w]} : futState[f] = "cancelled"
       IN  \/ /\ foreign /\ Reraises(w)
              /\ WaiterGivesUp(w)
              /\ UNCHANGED cancelling
           \/ /\ ~(foreign /\ Reraises(w))
              /\ \/ /\ unsettled # {}
                    /\ NextFuture(w, unsettled)
                    /\ UNCHANGED landed
                 \/ /\ unsettled = {}
                    /\ WaiterInvalidates(w)
                    /\ UNCHANGED returned
              /\ UNCHANGED <<callerVars, cancelling>>

\* task.cancel() on a waiter, during its call or before it (a close run by
\* the cleanup of a cancelled task); at most once per task.
CancelWaiter(w) ==
    /\ w \notin cancelling
    /\ cancelling' = cancelling \cup {w}
    /\ \/ /\ wpc[w] = "waiting"
          /\ WaiterGivesUp(w)
       \/ /\ wpc[w] = "idle"
          /\ UNCHANGED <<cacheVars, callerVars, waiterVars, history>>

-----------------------------------------------------------------------------
Next ==
    \/ \E c \in Callers :
          \/ \E k \in Keys : Resolve(c, k)
          \/ FetchOk(c) \/ FetchFails(c) \/ FetchCancelled(c)
          \/ JoinerWakes(c) \/ CancelFetcher(c) \/ CancelJoiner(c)
    \/ \E k \in Keys : Lookup(k) \/ PutMany(<<k>>) \/ Invalidate(k)
    \/ \E k, m \in Keys : k # m /\ PutMany(<<k, m>>)
    \/ InvalidateAll
    \/ \E w \in Waiters :
          SettleBegin(w) \/ SettleWakes(w) \/ QuiesceBegin(w) \/ QuiesceWakes(w)
          \/ CancelWaiter(w)

Spec == Init /\ [][Next]_vars

\* A fetch ends one way or another, and the event loop runs what is ready.
Fairness ==
    /\ \A c \in Callers : /\ WF_vars(FetchOk(c) \/ FetchFails(c) \/ FetchCancelled(c))
                          /\ WF_vars(JoinerWakes(c))
    /\ \A w \in Waiters : WF_vars(SettleWakes(w) \/ QuiesceWakes(w))

FairSpec == Spec /\ Fairness

\* Keys and callers are interchangeable in every safety property.
Symmetry == Permutations(Keys) \cup Permutations(Callers)

-----------------------------------------------------------------------------
(* Properties *)

\* An entry of _store comes from a fetch begun after the key's last
\* invalidate (keyed's _invalidate: "a result from before the invalidation is
\* never stored"): invalidate() races with fetches at every await.
StoreFresh ==
    \A k \in Keys : store[k] # 0 => <<k, store[k]>> \notin outdated

\* Single flight: _inflight holds a key exactly while one caller is fetching
\* it, its future is pending, and _stale only names such keys.
SingleFlight ==
    /\ \A k \in Keys : inflight[k] # 0 =>
          /\ futState[inflight[k]] = "pending"
          /\ \E c \in Callers : pc[c] = "fetching" /\ want[c] = k /\ fut[c] = inflight[k]
    /\ \A c \in Callers : pc[c] = "fetching" => inflight[want[c]] = fut[c]
    /\ \A c, d \in Callers :
          pc[c] = "fetching" /\ pc[d] = "fetching" /\ want[c] = want[d] => c = d
    /\ stale \subseteq {k \in Keys : inflight[k] # 0}

\* A task waiting for a future (a joiner, settle_all, quiesce) waits for one
\* that is done or that some caller is still fetching: no waiter is orphaned
\* by a failed, cancelled or invalidated fetch.
NobodyOrphaned ==
    LET answered(f) == \/ futState[f] \in Done
                       \/ \E c \in Callers : pc[c] = "fetching" /\ fut[c] = f
    IN  /\ \A c \in Callers : pc[c] = "joined" => answered(fut[c])
        /\ \A w \in Waiters : wpc[w] = "waiting" => answered(cur[w])

\* _store's order lists exactly its keys, each once, and never more than
\* maxsize of them, whatever mix of hits, puts, joins and invalidations.
LruConsistent ==
    /\ Len(lru) <= MaxSize
    /\ \A i, j \in 1..Len(lru) : lru[i] = lru[j] => i = j
    /\ \A k \in Keys : store[k] # 0 <=> k \in Entries(lru)

\* A resolve(), settle_all() or quiesce() whose task nobody cancelled never
\* raises CancelledError: when the caller running the fetch is cancelled, a
\* joiner fetches anew and a closer goes on waiting for the others.
CancelledOnlyIfOwn ==
    /\ \A c \in Callers : out[c] = "cancelled" => c \in cancelling
    /\ \A w \in Waiters : wout[w] = "cancelled" => w \in cancelling

\* Every value a fetch produced is still in the cache or was handed to a
\* closer: with settle_all and invalidate as the only way to drop entries, no
\* opened resource is lost (AsyncOnce.close, Repository's catalogs).
NothingLeaks ==
    \A p \in produced : store[p[1]] = p[2] \/ p \in returned

\* Every resolve(), settle_all() and quiesce() returns or raises, for owners,
\* joiners and closers alike, through failed, cancelled and invalidated fetches.
CallsReturn ==
    /\ \A c \in Callers : pc[c] # "idle" ~> pc[c] = "idle"
    /\ \A w \in Waiters : wpc[w] = "waiting" ~> wpc[w] = "idle"
==============================================================================
