---------------------------- MODULE ReadingProofs ----------------------------
(***************************************************************************)
(* Proofs about the reading layer (MCReading): the pool's chunk cache and  *)
(* the pages of a record never serve what a release or a repair replaced,  *)
(* a concurrent gather fails as a serial loop would, a read through the    *)
(* readahead returns its own bytes within the budget, and a verify that    *)
(* ends has checked everything once and says so.                           *)
(***************************************************************************)
EXTENDS MCReading, FiniteSetTheorems, SequenceTheorems, WellFoundedInduction, TLAPS

(***************************************************************************)
(* Sets of natural numbers.                                                *)
(***************************************************************************)

\* Some element is the least.
LEMMA LeastNat ==
  ASSUME NEW S \in SUBSET Nat, S # {}
  PROVE  \E x \in S : \A y \in S : x <= y
<1> DEFINE R == {ss \in Nat \X Nat : ss[1] < ss[2]}
<1>1. IsWellFoundedOn(R, Nat)
  BY NatLessThanWellFounded DEF OpToRel
<1>2. \A y \in Nat, x \in Nat : y < x => <<y, x>> \in R
  OBVIOUS
<1> HIDE DEF R
<1>3. PICK x \in S : \A y \in S : ~ (<<y, x>> \in R)
  BY <1>1, WFMin, Zenon
<1>4. ASSUME NEW y \in S
      PROVE  x <= y
  <2>1. x \in Nat /\ y \in Nat
    OBVIOUS
  <2>2. ~ (y < x)
    BY <1>2, <1>3, <2>1, Zenon
  <2> QED  BY <2>1, <2>2
<1> QED  BY <1>4

\* It is what Min chooses.
LEMMA MinIsLeast ==
  ASSUME NEW S \in SUBSET Nat, S # {}
  PROVE  Min(S) \in S /\ \A y \in S : Min(S) <= y
<1>1. \E x \in S : \A y \in S : x <= y
  BY LeastNat
<1> QED  BY <1>1 DEF Min

LEMMA MinIs ==
  ASSUME NEW S \in SUBSET Nat, NEW m \in S, \A y \in S : m <= y
  PROVE  Min(S) = m
<1>1. Min(S) \in S /\ Min(S) <= m
  BY MinIsLeast
<1>2. m <= Min(S)
  BY <1>1
<1>3. m \in Nat /\ Min(S) \in Nat
  BY <1>1
<1> QED  BY <1>1, <1>2, <1>3

(***************************************************************************)
(* The chunk cache and its batches.                                        *)
(***************************************************************************)
BatchShape(b) ==
    /\ DOMAIN b = {"pc", "lock", "want", "missing", "captured"}
    /\ b = [x \in DOMAIN b |-> b[x]]
    /\ b.pc \in {"idle", "lock", "fetch"}

PoolTypes ==
    /\ epoch \in Nat
    /\ DOMAIN chunkCache = PoolChunks
    /\ fetches = [c \in PoolChunks |-> fetches[c]]
    /\ users \in [LockIds -> Int]
    /\ owner \in [LockIds -> SUBSET PoolTasks]
    /\ batch = [t \in PoolTasks |-> batch[t]]
    /\ \A t \in PoolTasks : BatchShape(batch[t])

\* No fetch that read_chunk still waits for began before the last release.
FetchesAreFresh == \A c \in PoolChunks : fetches[c] \in {NoEpoch, epoch}

\* Every batch of the bucket uses the one lock that _batch_locks has for it.
OneLock ==
    /\ \A t \in PoolTasks :
          /\ batch[t].pc = "idle" => batch[t].lock = NoLock
          /\ batch[t].pc # "idle" => batch[t].lock = entry /\ entry \in LockIds
    /\ entry = NoLock <=> \A t \in PoolTasks : batch[t].pc = "idle"

UsersOf(l) == {t \in PoolTasks : batch[t].lock = l}
FetchersOn(l) == {t \in PoolTasks : batch[t].pc = "fetch" /\ batch[t].lock = l}
LockCounts ==
    /\ \A l \in LockIds : users[l] = Cardinality(UsersOf(l))
    /\ \A l \in LockIds : owner[l] = FetchersOn(l)
    /\ \A t \in PoolTasks : batch[t].pc = "fetch" => owner[batch[t].lock] = {t}

PoolInv == PoolTypes /\ PoolIsFresh /\ FetchesAreFresh /\ OneLock /\ LockCounts

LEMMA LocksAreNumbers ==
  /\ NoLock \notin LockIds
  /\ \A t \in PoolTasks : 1 \in LockIds
<1>1. IsFiniteSet(PoolTasks)
  BY PoolAssumption
<1>2. Cardinality(PoolTasks) \in Nat
  BY <1>1, FS_CardinalityType
<1>3. ASSUME NEW t \in PoolTasks
      PROVE  Cardinality(PoolTasks) # 0
  BY <1>1, FS_EmptySet
<1> QED  BY <1>2, <1>3 DEF LockIds, NoLock

LEMMA PoolStart ==
  ASSUME PoolInit
  PROVE  PoolInv
<1>1. PoolTypes
  <2>1. BatchShape(NoBatch)
    BY DEF BatchShape, NoBatch
  <2>2. \A t \in PoolTasks : batch[t] = NoBatch
    BY DEF PoolInit
  <2>3. users \in [LockIds -> Int] /\ owner \in [LockIds -> SUBSET PoolTasks] /\ epoch \in Nat
    BY DEF PoolInit
  <2>4. DOMAIN chunkCache = PoolChunks /\ fetches = [c \in PoolChunks |-> fetches[c]] /\ batch = [t \in PoolTasks |-> batch[t]]
    BY DEF PoolInit
  <2> QED  BY <2>1, <2>2, <2>3, <2>4 DEF PoolTypes
<1>2. PoolIsFresh /\ FetchesAreFresh /\ OneLock
  BY DEF PoolInit, PoolIsFresh, FetchesAreFresh, OneLock, NoBatch
<1>3. ASSUME NEW l \in LockIds
      PROVE  users[l] = Cardinality(UsersOf(l)) /\ owner[l] = FetchersOn(l)
  <2>1. UsersOf(l) = {} /\ FetchersOn(l) = {}
    BY LocksAreNumbers DEF PoolInit, UsersOf, FetchersOn, NoBatch
  <2> QED  BY <2>1, FS_EmptySet DEF PoolInit
<1>4. LockCounts
  BY <1>3 DEF PoolInit, LockCounts, NoBatch
<1> QED  BY <1>1, <1>2, <1>4 DEF PoolInv

\* One batch changes: the counts of users move with its lock.
LEMMA UsersMove ==
  ASSUME PoolTypes, NEW t \in PoolTasks, NEW l \in LockIds,
         DOMAIN batch' = PoolTasks,
         \A u \in PoolTasks : u # t => batch'[u].lock = batch[u].lock
  PROVE  /\ batch[t].lock = l /\ batch'[t].lock # l => Cardinality(UsersOf(l)') = Cardinality(UsersOf(l)) - 1
         /\ batch[t].lock # l /\ batch'[t].lock = l => Cardinality(UsersOf(l)') = Cardinality(UsersOf(l)) + 1
         /\ (batch[t].lock = l <=> batch'[t].lock = l) => UsersOf(l)' = UsersOf(l)
<1>1. IsFiniteSet(UsersOf(l))
  BY PoolAssumption, FS_Subset, UsersOf(l) \in SUBSET PoolTasks DEF UsersOf
<1>2. ASSUME batch[t].lock = l, batch'[t].lock # l
      PROVE  Cardinality(UsersOf(l)') = Cardinality(UsersOf(l)) - 1
  <2>1. UsersOf(l)' = UsersOf(l) \ {t}
    BY <1>2 DEF UsersOf
  <2>2. t \in UsersOf(l)
    BY <1>2 DEF UsersOf
  <2> QED  BY <1>1, <2>1, <2>2, FS_RemoveElement
<1>3. ASSUME batch[t].lock # l, batch'[t].lock = l
      PROVE  Cardinality(UsersOf(l)') = Cardinality(UsersOf(l)) + 1
  <2>1. UsersOf(l)' = UsersOf(l) \cup {t}
    BY <1>3 DEF UsersOf
  <2>2. t \notin UsersOf(l)
    BY <1>3 DEF UsersOf
  <2> QED  BY <1>1, <2>1, <2>2, FS_AddElement
<1>4. (batch[t].lock = l <=> batch'[t].lock = l) => UsersOf(l)' = UsersOf(l)
  BY DEF UsersOf
<1> QED  BY <1>2, <1>3, <1>4

LEMMA BatchTypes ==
  ASSUME PoolTypes
  PROVE  /\ \A t \in PoolTasks : BatchShape(batch[t])
         /\ DOMAIN batch = PoolTasks
         /\ BatchShape(NoBatch) /\ NoBatch.pc = "idle" /\ NoBatch.lock = NoLock
  BY DEF PoolTypes, BatchShape, NoBatch

LEMMA PoolBegins ==
  ASSUME PoolInv, NEW t \in PoolTasks, NEW want, BatchBegins(t, want)
  PROVE  PoolInv'
<1> USE DEF PoolInv
<1> DEFINE lock == IF entry = NoLock THEN FreshLock ELSE entry
<1> DEFINE new == [NoBatch EXCEPT !.pc = "lock", !.lock = lock, !.want = want]
<1>1. lock \in LockIds
  <2>1. CASE entry = NoLock
    <3>1. \A u \in PoolTasks : batch[u].lock # 1
      BY <2>1 DEF OneLock, NoLock
    <3>2. FreshLock \in LockIds
      BY <3>1, LocksAreNumbers DEF FreshLock
    <3> QED  BY <2>1, <3>2
  <2>2. CASE entry # NoLock
    BY <2>2 DEF OneLock
  <2> QED  BY <2>1, <2>2
<1>2. BatchShape(new) /\ new.pc = "lock" /\ new.lock = lock
  BY DEF BatchShape, NoBatch
<1>3. /\ batch[t].pc = "idle" /\ entry' = lock /\ users' = [users EXCEPT ![lock] = @ + 1]
      /\ batch' = [batch EXCEPT ![t] = new] /\ UNCHANGED <<chunkCache, fetches, epoch, owner>>
  BY DEF BatchBegins
<1> HIDE DEF lock, new
<1>4. batch'[t] = new /\ \A u \in PoolTasks : u # t => batch'[u] = batch[u]
  BY <1>3 DEF PoolTypes
<1>5. PoolTypes'
  BY <1>1, <1>2, <1>3, <1>4 DEF PoolTypes
<1>6. PoolIsFresh' /\ FetchesAreFresh'
  BY <1>3 DEF PoolIsFresh, FetchesAreFresh
<1>7. OneLock'
  <2>1. \A u \in PoolTasks : batch[u].pc # "idle" => entry = lock
    BY DEF OneLock, lock
  <2> QED  BY <1>1, <1>2, <1>3, <1>4, <2>1, LocksAreNumbers DEF OneLock
<1>8. LockCounts'
  <2>1. ASSUME NEW l \in LockIds
        PROVE  users'[l] = Cardinality(UsersOf(l)')
    <3>1. DOMAIN batch' = PoolTasks /\ \A u \in PoolTasks : u # t => batch'[u].lock = batch[u].lock
      BY <1>4, <1>5, BatchTypes DEF PoolTypes
    <3>2. batch[t].lock # l
      BY <1>3, LocksAreNumbers DEF OneLock
    <3>3. users[l] = Cardinality(UsersOf(l)) /\ users[l] \in Int
      BY DEF LockCounts, PoolTypes
    <3>4. CASE l = lock
      <4>1. Cardinality(UsersOf(l)') = Cardinality(UsersOf(l)) + 1
        BY <1>2, <1>4, <3>1, <3>2, <3>4, UsersMove
      <4> QED  BY <1>3, <3>3, <3>4, <4>1 DEF PoolTypes
    <3>5. CASE l # lock
      <4>1. UsersOf(l)' = UsersOf(l)
        BY <1>2, <1>4, <3>1, <3>2, <3>5, UsersMove
      <4> QED  BY <1>3, <3>3, <3>5, <4>1 DEF PoolTypes
    <3> QED  BY <3>4, <3>5
  <2>2. \A l \in LockIds : FetchersOn(l)' = FetchersOn(l)
    BY <1>2, <1>3, <1>4 DEF FetchersOn
  <2> QED  BY <1>2, <1>3, <1>4, <2>1, <2>2 DEF LockCounts
<1> QED  BY <1>5, <1>6, <1>7, <1>8

\* The finally of batch_fetch, whatever ends the batch.
LEMMA PoolLeaves ==
  ASSUME PoolInv, NEW t \in PoolTasks, batch[t].pc # "idle", Leave(t),
         DOMAIN chunkCache' = PoolChunks, UNCHANGED <<fetches, epoch>>
  PROVE  PoolTypes' /\ FetchesAreFresh' /\ OneLock' /\ LockCounts'
<1> USE DEF PoolInv
<1>1. batch[t].lock = entry /\ entry \in LockIds
  BY DEF OneLock
<1>2. /\ users' = [users EXCEPT ![entry] = @ - 1]
      /\ entry' = IF users[entry] = 1 THEN NoLock ELSE entry
      /\ owner' = [owner EXCEPT ![entry] = @ \ {t}]
      /\ batch' = [batch EXCEPT ![t] = NoBatch]
  BY <1>1 DEF Leave
<1>3. batch'[t] = NoBatch /\ \A u \in PoolTasks : u # t => batch'[u] = batch[u]
  BY <1>2 DEF PoolTypes
<1>4. PoolTypes'
  BY <1>1, <1>2, <1>3, BatchTypes DEF PoolTypes
<1>5. FetchesAreFresh'
  BY DEF FetchesAreFresh
<1>6. UsersOf(entry) = {u \in PoolTasks : batch[u].pc # "idle"}
  BY <1>1, LocksAreNumbers DEF UsersOf, OneLock
<1>7. users[entry] = Cardinality(UsersOf(entry)) /\ IsFiniteSet(UsersOf(entry)) /\ t \in UsersOf(entry)
  <2>1. IsFiniteSet(UsersOf(entry))
    BY PoolAssumption, FS_Subset, UsersOf(entry) \in SUBSET PoolTasks DEF UsersOf
  <2> QED  BY <1>1, <2>1 DEF UsersOf, LockCounts
<1>8. users[entry] = 1 <=> \A u \in PoolTasks : u # t => batch[u].pc = "idle"
  <2>1. users[entry] = 1 <=> \E x : UsersOf(entry) = {x}
    BY <1>7, FS_Singleton, Zenon
  <2> QED  BY <1>6, <1>7, <2>1
<1>9. OneLock'
  <2>1. CASE users[entry] = 1
    BY <1>2, <1>3, <1>8, <2>1, BatchTypes DEF OneLock
  <2>2. CASE users[entry] # 1
    BY <1>1, <1>2, <1>3, <1>8, <2>2, BatchTypes, LocksAreNumbers DEF OneLock
  <2> QED  BY <2>1, <2>2
<1>10. LockCounts'
  <2>1. ASSUME NEW l \in LockIds
        PROVE  users'[l] = Cardinality(UsersOf(l)')
    <3>1. DOMAIN batch' = PoolTasks /\ \A u \in PoolTasks : u # t => batch'[u].lock = batch[u].lock
      BY <1>3, <1>4, BatchTypes DEF PoolTypes
    <3>2. batch'[t].lock # l
      BY <1>3, LocksAreNumbers, BatchTypes
    <3>3. users[l] = Cardinality(UsersOf(l)) /\ users[l] \in Int
      BY DEF LockCounts, PoolTypes
    <3>4. CASE l = entry
      <4>1. Cardinality(UsersOf(l)') = Cardinality(UsersOf(l)) - 1
        BY <1>1, <3>1, <3>2, <3>4, UsersMove
      <4> QED  BY <1>2, <3>3, <3>4, <4>1 DEF PoolTypes
    <3>5. CASE l # entry
      <4>1. UsersOf(l)' = UsersOf(l)
        BY <1>1, <3>1, <3>2, <3>5, UsersMove
      <4> QED  BY <1>2, <3>3, <3>5, <4>1 DEF PoolTypes
    <3> QED  BY <3>4, <3>5
  <2>2. ASSUME NEW l \in LockIds
        PROVE  FetchersOn(l)' = owner'[l]
    <3>1. owner[l] = FetchersOn(l)
      BY DEF LockCounts
    <3>2. FetchersOn(l)' = FetchersOn(l) \ {t}
      BY <1>3, BatchTypes DEF FetchersOn
    <3>3. l # entry => t \notin FetchersOn(l)
      BY <1>1 DEF FetchersOn
    <3> QED  BY <1>2, <3>1, <3>2, <3>3 DEF PoolTypes
  <2>3. ASSUME NEW u \in PoolTasks, batch'[u].pc = "fetch"
        PROVE  owner'[batch'[u].lock] = {u}
    <3>1. u # t /\ batch'[u] = batch[u]
      BY <1>3, <2>3, BatchTypes
    <3>2. batch[u].lock \in LockIds /\ owner[batch[u].lock] = {u}
      BY <2>3, <3>1 DEF OneLock, LockCounts
    <3> QED  BY <1>2, <3>1, <3>2 DEF PoolTypes
  <2> QED  BY <2>1, <2>2, <2>3 DEF LockCounts
<1> QED  BY <1>4, <1>5, <1>9, <1>10

LEMMA PoolLooksUp ==
  ASSUME PoolInv, NEW t \in PoolTasks, BatchLooksUp(t)
  PROVE  PoolInv'
<1> USE DEF PoolInv
<1> DEFINE missing == batch[t].want \ CachedChunks(batch[t].want)
<1>1. batch[t].pc = "lock" /\ owner[batch[t].lock] = {} /\ UNCHANGED <<chunkCache, fetches, epoch>>
  BY DEF BatchLooksUp
<1>2. batch[t].lock = entry /\ entry \in LockIds
  BY <1>1 DEF OneLock
<1>3. CASE Leave(t)
  <2>1. DOMAIN chunkCache' = PoolChunks
    BY <1>1 DEF PoolTypes
  <2>2. PoolTypes' /\ FetchesAreFresh' /\ OneLock' /\ LockCounts'
    BY <1>1, <1>3, <2>1, PoolLeaves
  <2> QED  BY <1>1, <2>2 DEF PoolIsFresh
<1>4. CASE /\ owner' = [owner EXCEPT ![batch[t].lock] = {t}]
           /\ batch' = [batch EXCEPT ![t].pc = "fetch", ![t].missing = missing, ![t].captured = epoch]
           /\ UNCHANGED <<users, entry>>
  <2> HIDE DEF missing
  <2>1. /\ BatchShape(batch'[t]) /\ batch'[t].pc = "fetch" /\ batch'[t].lock = entry
        /\ \A u \in PoolTasks : u # t => batch'[u] = batch[u]
        /\ batch' = [u \in PoolTasks |-> batch'[u]]
    BY <1>2, <1>4 DEF PoolTypes, BatchShape
  <2>2. PoolTypes'
    BY <1>1, <1>2, <1>4, <2>1 DEF PoolTypes
  <2>3. PoolIsFresh' /\ FetchesAreFresh'
    BY <1>1 DEF PoolIsFresh, FetchesAreFresh
  <2>4. OneLock'
    BY <1>1, <1>2, <1>4, <2>1 DEF OneLock
  <2>5. \A l \in LockIds : UsersOf(l)' = UsersOf(l)
    BY <1>2, <2>1 DEF UsersOf
  <2>6. FetchersOn(entry) = {}
    BY <1>1, <1>2 DEF LockCounts
  <2>7. ASSUME NEW l \in LockIds
        PROVE  FetchersOn(l)' = owner'[l]
    <3>1. CASE l = entry
      BY <1>2, <1>4, <2>1, <2>6, <3>1 DEF FetchersOn, PoolTypes
    <3>2. CASE l # entry
      <4>1. FetchersOn(l)' = FetchersOn(l)
        BY <1>2, <2>1, <3>2 DEF FetchersOn
      <4> QED  BY <1>2, <1>4, <3>2, <4>1 DEF LockCounts, PoolTypes
    <3> QED  BY <3>1, <3>2
  <2>8. ASSUME NEW u \in PoolTasks, batch'[u].pc = "fetch"
        PROVE  owner'[batch'[u].lock] = {u}
    <3>1. CASE u = t
      BY <1>2, <1>4, <2>1, <3>1 DEF PoolTypes
    <3>2. CASE u # t
      BY <1>2, <2>1, <2>6, <2>8, <3>2 DEF OneLock, FetchersOn
    <3> QED  BY <3>1, <3>2
  <2>9. LockCounts'
    BY <1>4, <2>5, <2>7, <2>8 DEF LockCounts
  <2> QED  BY <2>2, <2>3, <2>4, <2>9
<1> QED  BY <1>3, <1>4 DEF BatchLooksUp

LEMMA PoolStep ==
  ASSUME PoolInv, PoolNext
  PROVE  PoolInv'
<1>1. ASSUME NEW t \in PoolTasks, NEW want, BatchBegins(t, want)
      PROVE  PoolInv'
  BY <1>1, PoolBegins
<1>2. ASSUME NEW t \in PoolTasks, BatchLooksUp(t)
      PROVE  PoolInv'
  BY <1>2, PoolLooksUp
<1>3. ASSUME NEW t \in PoolTasks, BatchDecodes(t)
      PROVE  PoolInv'
  <2>1. /\ batch[t].pc # "idle" /\ Leave(t) /\ UNCHANGED <<fetches, epoch>>
        /\ DOMAIN chunkCache' = PoolChunks
    BY <1>3 DEF BatchDecodes, Backfill, PoolInv, PoolTypes
  <2>2. PoolTypes' /\ FetchesAreFresh' /\ OneLock' /\ LockCounts'
    BY <2>1, PoolLeaves
  <2>3. PoolIsFresh'
    BY <1>3, <2>1 DEF BatchDecodes, Backfill, PoolInv, PoolIsFresh
  <2> QED  BY <2>2, <2>3 DEF PoolInv
<1>4. ASSUME NEW t \in PoolTasks, BatchFails(t)
      PROVE  PoolInv'
  <2>1. /\ batch[t].pc # "idle" /\ Leave(t) /\ UNCHANGED <<chunkCache, fetches, epoch>>
        /\ DOMAIN chunkCache' = PoolChunks
    BY <1>4 DEF BatchFails, PoolInv, PoolTypes
  <2>2. PoolTypes' /\ FetchesAreFresh' /\ OneLock' /\ LockCounts'
    BY <2>1, PoolLeaves
  <2> QED  BY <2>1, <2>2 DEF PoolInv, PoolIsFresh
<1>5. ASSUME UNCHANGED <<entry, users, owner, batch>>, PoolTypes', PoolIsFresh', FetchesAreFresh'
      PROVE  PoolInv'
  BY <1>5 DEF PoolInv, OneLock, LockCounts, UsersOf, FetchersOn
<1>6. ASSUME NEW c \in PoolChunks, ReadChunkMisses(c) \/ ReadChunkFetched(c) \/ EvictChunk(c)
      PROVE  PoolInv'
  BY <1>5, <1>6 DEF ReadChunkMisses, ReadChunkFetched, EvictChunk, PoolInv, PoolTypes, PoolIsFresh, FetchesAreFresh
<1>7. ASSUME ReleaseCaches
      PROVE  PoolInv'
  BY <1>5, <1>7 DEF ReleaseCaches, PoolInv, PoolTypes, PoolIsFresh, FetchesAreFresh
<1> QED  BY <1>1, <1>2, <1>3, <1>4, <1>6, <1>7 DEF PoolNext

LEMMA PoolKeeps ==
  ASSUME PoolInv, UNCHANGED poolVars
  PROVE  PoolInv'
  BY ZenonT(60) DEF poolVars, PoolInv, PoolTypes, PoolIsFresh, FetchesAreFresh, OneLock, LockCounts, UsersOf, FetchersOn

LEMMA PoolProperties ==
  ASSUME PoolInv
  PROVE  PoolIsFresh /\ BatchesAreApart
<1>1. IsFiniteSet({t \in PoolTasks : batch[t].pc = "fetch"})
  BY PoolAssumption, FS_Subset
<1>2. \A t, u \in PoolTasks : batch[t].pc = "fetch" /\ batch[u].pc = "fetch" => t = u
  BY DEF PoolInv, OneLock, LockCounts
<1>3. Cardinality({t \in PoolTasks : batch[t].pc = "fetch"}) <= 1
  <2>1. CASE {t \in PoolTasks : batch[t].pc = "fetch"} = {}
    BY <2>1, FS_EmptySet
  <2>2. CASE {t \in PoolTasks : batch[t].pc = "fetch"} # {}
    <3>1. PICK t \in PoolTasks : batch[t].pc = "fetch"
      BY <2>2
    <3>2. {u \in PoolTasks : batch[u].pc = "fetch"} = {t}
      BY <1>2, <3>1
    <3>3. Cardinality({u \in PoolTasks : batch[u].pc = "fetch"}) = 1
      BY <3>2, FS_Singleton, Zenon
    <3> QED  BY <3>3
  <2> QED  BY <2>1, <2>2
<1>4. \A l \in LockIds : users[l] = Cardinality({t \in PoolTasks : batch[t].lock = l})
  BY Zenon DEF PoolInv, LockCounts, UsersOf
<1> QED  BY <1>3, <1>4 DEF PoolInv, BatchesAreApart, OneLock

(***************************************************************************)
(* The pages of a record and their end offsets.                            *)
(***************************************************************************)
ReaderShape(r) ==
    /\ DOMAIN r = {"pc", "page", "start", "late"} /\ r = [x \in DOMAIN r |-> r[x]]
    /\ r.pc \in {"idle", "walk", "fetch", "got", "found"} /\ r.page \in Nat /\ r.start \in Nat /\ r.late \in BOOLEAN
    /\ r.pc \in {"fetch", "got"} => r.page < Pages
    /\ r.page <= Pages

PageTypes ==
    /\ badPage \in PageSet \union {NoPage}
    /\ pages \in [PageSet -> {Absent, Disk, Repaired}]
    /\ ends \in [PageSet -> {Unknown} \union Nat]
    /\ scanned \in 0..Pages
    /\ repaired \in BOOLEAN
    /\ locks \in [PageSet -> {Free, Disk, Repaired}]
    /\ reader = [r \in Readers |-> reader[r]] /\ \A r \in Readers : ReaderShape(reader[r])

\* The walker's place: a seed runs over the pages of a damaged record, a prime over an undamaged one's.
WalkerTypes ==
    /\ DOMAIN walker = {"pc", "page", "start"} /\ walker = [x \in DOMAIN walker |-> walker[x]]
    /\ walker.pc \in {"idle", "prime", "primed", "seed", "seeded"} /\ walker.page \in Nat /\ walker.start \in Nat
    /\ walker.pc \in {"seed", "prime"} => walker.page < Pages
    /\ walker.pc \in {"seed", "seeded"} => repaired
    /\ walker.pc \in {"prime", "primed"} => badPage = NoPage
    /\ badPage = NoPage => walker.pc \notin {"seed", "seeded"}

\* A page's lock is held by the one reader that fetches it.
FetchersHold ==
    /\ \A r \in Readers : reader[r].pc = "fetch" => locks[reader[r].page] # Free
    /\ \A r, s \in Readers : reader[r].pc = "fetch" /\ reader[s].pc = "fetch" /\ reader[r].page = reader[s].page => r = s

\* The contiguous prefix of known end offsets.
PrefixIsKnown ==
    /\ \A p \in 0..scanned - 1 : ends[p] # Unknown
    /\ scanned < Pages => ends[scanned] = Unknown

\* The pages a reseed has been over stay repaired.
Reseeded(p) == walker.pc = "seeded" \/ (walker.pc = "seed" /\ p < walker.page)
ReseededStay ==
    \A p \in PageSet : Reseeded(p) => pages[p] # Disk /\ locks[p] # Disk /\ ends[p] = PageEnd(p)

\* Every known end offset is right, or the damaged page's while it may still mislead.
Settled == badPage = NoPage \/ walker.pc = "seeded"
EndsAreRight ==
    \A p \in PageSet : ends[p] # Unknown => ends[p] = PageEnd(p) \/ (p = badPage /\ ~ Settled)

\* A reader that may not be misled has passed only pages that end before start.
Trusted(r) == r.late \/ badPage = NoPage
PassedEndBefore ==
    \A r \in Readers : Trusted(reader[r]) /\ reader[r].pc # "idle" =>
       /\ reader[r].late => walker.pc = "seeded"
       /\ \A q \in 0..reader[r].page - 1 : PageEnd(q) <= reader[r].start
       /\ reader[r].pc = "got" => ends[reader[r].page] # Unknown
       /\ reader[r].pc = "found" => reader[r].page = Pages \/ PageEnd(reader[r].page) > reader[r].start

RoomIsKept == Cardinality(Cached) <= PageRoom

PagesInv ==
    PageTypes /\ WalkerTypes /\ FetchersHold /\ PrefixIsKnown /\ ReseededStay /\ EndsAreRight /\ PassedEndBefore /\ RoomIsKept

LEMMA PageFacts ==
  /\ Pages \in Nat /\ Pages > 0 /\ PageRoom \in Nat /\ PageRoom > 0 /\ IsFiniteSet(PageSet)
  /\ NoPage \notin PageSet
  /\ \A p \in Nat : PageEnd(p) \in Nat
  /\ \A p \in PageSet : p \in Nat /\ p < Pages
  /\ \A p \in Nat : p < Pages => p \in PageSet
  /\ Unknown \notin Nat
<1>1. Pages \in Nat /\ Pages > 0 /\ PageRoom \in Nat /\ PageRoom > 0
  BY PagesAssumption
<1>2. IsFiniteSet(PageSet)
  BY <1>1, FS_Interval DEF PageSet
<1> QED  BY <1>1, <1>2 DEF PageSet, NoPage, PageEnd, Unknown

LEMMA CachedIsFinite == IsFiniteSet(Cached)
  BY PageFacts, FS_Subset DEF Cached

LEMMA PagesStart ==
  ASSUME PagesInit
  PROVE  PagesInv
<1>1. badPage \in PageSet \union {NoPage}
  BY PagesAssumption DEF PagesInit, PageSet, NoPage
<1>2. ReaderShape(IdleReader) /\ IdleReader.pc = "idle"
  BY PageFacts DEF ReaderShape, IdleReader
<1>3. PageTypes
  <2>1. pages \in [PageSet -> {Absent, Disk, Repaired}] /\ ends \in [PageSet -> {Unknown} \union Nat]
        /\ locks \in [PageSet -> {Free, Disk, Repaired}]
    BY DEF PagesInit
  <2>2. reader = [r \in Readers |-> reader[r]] /\ \A r \in Readers : reader[r] = IdleReader
    BY DEF PagesInit
  <2>3. scanned \in 0..Pages /\ repaired \in BOOLEAN
    <3>1. 0 \in 0..Pages
      BY PageFacts
    <3> QED  BY <3>1 DEF PagesInit
  <2> QED  BY <1>1, <1>2, <2>1, <2>2, <2>3 DEF PageTypes
<1>4. WalkerTypes /\ FetchersHold /\ PassedEndBefore
  BY <1>2 DEF PagesInit, WalkerTypes, FetchersHold, PassedEndBefore
<1>5. PrefixIsKnown /\ ReseededStay /\ EndsAreRight
  BY PageFacts DEF PagesInit, PrefixIsKnown, ReseededStay, Reseeded, EndsAreRight
<1>6. Cached = {}
  BY DEF PagesInit, Cached
<1>7. RoomIsKept
  BY <1>6, PageFacts, FS_EmptySet DEF RoomIsKept
<1> QED  BY <1>3, <1>4, <1>5, <1>7 DEF PagesInv

\* _note_page_end: the prefix grows over every end offset known.
LEMMA EndsGrow ==
  ASSUME PageTypes, PrefixIsKnown, NEW p \in PageSet, NEW from, NotePageEnd(p, from)
  PROVE  /\ ends' \in [PageSet -> {Unknown} \union Nat] /\ scanned' \in 0..Pages
         /\ PrefixIsKnown'
         /\ ends'[p] = EndOf(p, from) /\ ends'[p] \in Nat
         /\ \A q \in PageSet : q # p => ends'[q] = ends[q]
<1>1. EndOf(p, from) \in Nat
  BY PageFacts DEF EndOf, WrongEnd
<1>2. ends' = [ends EXCEPT ![p] = EndOf(p, from)] /\ scanned' = Scanned(p, ends')
  BY DEF NotePageEnd
<1>3. /\ ends' \in [PageSet -> {Unknown} \union Nat] /\ ends'[p] = EndOf(p, from)
      /\ \A q \in PageSet : q # p => ends'[q] = ends[q]
  BY <1>1, <1>2 DEF PageTypes
<1>4. /\ Pages \in Nat /\ scanned \in Nat /\ scanned <= Pages /\ p \in Nat /\ p < Pages
  BY PageFacts DEF PageTypes
<1>5. CASE p # scanned
  <2>1. scanned' = scanned
    BY <1>2, <1>5 DEF Scanned
  <2>2. \A q \in 0..scanned - 1 : ends'[q] # Unknown
    BY <1>1, <1>3, <1>4, PageFacts DEF PrefixIsKnown
  <2>3. scanned < Pages => ends'[scanned] = Unknown
    BY <1>3, <1>4, <1>5, PageFacts DEF PrefixIsKnown
  <2> QED  BY <1>1, <1>3, <1>4, <2>1, <2>2, <2>3 DEF PrefixIsKnown
<1>6. CASE p = scanned
  <2> DEFINE Next1 == {q \in scanned + 1..Pages : q = Pages \/ ends'[q] = Unknown}
  <2>1. scanned' = Min(Next1)
    BY <1>2, <1>6 DEF Scanned
  <2>2. Next1 \in SUBSET Nat /\ Pages \in Next1
    BY <1>4, <1>6
  <2>3. scanned' \in Next1 /\ \A q \in Next1 : scanned' <= q
    BY <2>1, <2>2, MinIsLeast
  <2>4. scanned' \in 0..Pages /\ scanned' > scanned /\ scanned' < Pages => ends'[scanned'] = Unknown
    BY <1>4, <2>3
  <2>5. ASSUME NEW q \in 0..scanned' - 1
        PROVE  ends'[q] # Unknown
    <3>0. scanned' \in Nat /\ scanned' <= Pages /\ q \in Nat /\ q < scanned'
      <4>1. scanned' \in scanned + 1..Pages
        BY <2>3
      <4>2. scanned' \in Nat /\ scanned' <= Pages
        BY <1>4, <4>1
      <4>3. \A n \in Nat : q \in 0..n - 1 => q \in Nat /\ q < n
        OBVIOUS
      <4> QED  BY <4>2, <4>3
    <3>1. q \in PageSet
      BY <1>4, <3>0, PageFacts
    <3>2. CASE q < scanned
      BY <1>1, <1>3, <1>4, <3>1, <3>2, PageFacts DEF PrefixIsKnown
    <3>3. CASE q = scanned
      BY <1>1, <1>3, <1>6, <3>3, PageFacts
    <3>4. CASE q > scanned
      <4>1. q \notin Next1
        BY <2>3, <3>0
      <4>2. q \in scanned + 1..Pages
        BY <1>4, <3>0, <3>4
      <4> QED  BY <4>1, <4>2
    <3> QED  BY <1>4, <3>0, <3>2, <3>3, <3>4
  <2>6. scanned' \in 0..Pages
    BY <1>4, <2>3
  <2>7. scanned' < Pages => ends'[scanned'] = Unknown
    BY <1>4, <2>3
  <2>8. PrefixIsKnown'
    BY <2>5, <2>7 DEF PrefixIsKnown
  <2> QED  BY <1>1, <1>3, <2>6, <2>8
<1> QED  BY <1>5, <1>6

\* What EndsGrow means for the end offsets: right, unless the damaged page was read from the disk.
LEMMA EndsStayRight ==
  ASSUME PagesInv, NEW p \in PageSet, NEW from, NotePageEnd(p, from), badPage' = badPage,
         walker'.pc = "seeded" => walker.pc = "seeded" \/ \A q \in PageSet : q # p => Reseeded(q),
         Settled' => from # Disk \/ badPage = NoPage
  PROVE  EndsAreRight'
<1>1. /\ ends'[p] = EndOf(p, from) /\ \A q \in PageSet : q # p => ends'[q] = ends[q]
  BY EndsGrow DEF PagesInv
<1>2. ASSUME NEW q \in PageSet, ends'[q] # Unknown
      PROVE  ends'[q] = PageEnd(q) \/ (q = badPage /\ ~ Settled')
  <2>1. CASE q = p
    BY <1>1, <2>1, PageFacts DEF EndOf
  <2>2. CASE q # p /\ (Settled' => Settled)
    BY <1>1, <1>2, <2>2 DEF PagesInv, EndsAreRight
  <2>3. CASE q # p /\ Settled' /\ ~ Settled
    BY <1>1, <2>3 DEF Settled, PagesInv, ReseededStay
  <2> QED  BY <2>1, <2>2, <2>3
<1> QED  BY <1>2 DEF EndsAreRight

\* _pages.resolve stores a page: there is room, or another goes.
LEMMA StoreKeepsRoom ==
  ASSUME PageTypes, RoomIsKept, NEW p \in PageSet, NEW from \in {Disk, Repaired}, Store(p, from)
  PROVE  /\ pages' \in [PageSet -> {Absent, Disk, Repaired}] /\ pages'[p] = from
         /\ \A q \in PageSet : q # p => pages'[q] = pages[q] \/ pages'[q] = Absent
         /\ RoomIsKept'
<1>1. PICK out \in IF pages[p] = Absent /\ Cardinality(Cached) >= PageRoom THEN Cached ELSE {NoPage} :
         pages' = [q \in PageSet |-> IF q = p THEN from ELSE IF q = out THEN Absent ELSE pages[q]]
  BY DEF Store
<1>2. /\ pages' \in [PageSet -> {Absent, Disk, Repaired}] /\ pages'[p] = from
      /\ \A q \in PageSet : q # p => pages'[q] = pages[q] \/ pages'[q] = Absent
  BY <1>1 DEF PageTypes
<1>3. IsFiniteSet(Cached) /\ Cardinality(Cached) \in Nat /\ Cardinality(Cached) <= PageRoom /\ PageRoom \in Nat
  BY CachedIsFinite, FS_CardinalityType, PageFacts DEF RoomIsKept
<1>4. from # Absent
  BY DEF Disk, Repaired, Absent
<1>5. Cached' = {q \in PageSet : pages'[q] # Absent}
  BY DEF Cached
<1>6. CASE pages[p] # Absent
  <2>1. out = NoPage
    BY <1>1, <1>6
  <2>2. Cached' = Cached
    BY <1>1, <1>4, <1>5, <1>6, <2>1, PageFacts DEF Cached
  <2> QED  BY <1>2, <1>3, <2>2 DEF RoomIsKept
<1>7. CASE pages[p] = Absent /\ Cardinality(Cached) >= PageRoom
  <2>1. out \in Cached /\ p \notin Cached
    BY <1>1, <1>7 DEF Cached
  <2>2. Cached' = (Cached \ {out}) \cup {p}
    BY <1>1, <1>4, <1>5, <2>1 DEF Cached
  <2>3. IsFiniteSet(Cached \ {out}) /\ Cardinality(Cached \ {out}) = Cardinality(Cached) - 1
    BY <1>3, <2>1, FS_RemoveElement
  <2>4. Cardinality(Cached') = Cardinality(Cached \ {out}) + 1
    BY <2>1, <2>2, <2>3, FS_AddElement
  <2> QED  BY <1>2, <1>3, <2>3, <2>4 DEF RoomIsKept
<1>8. CASE pages[p] = Absent /\ ~ (Cardinality(Cached) >= PageRoom)
  <2>1. out = NoPage /\ p \notin Cached
    BY <1>1, <1>8 DEF Cached
  <2>2. Cached' = Cached \cup {p}
    BY <1>1, <1>4, <1>5, <2>1, PageFacts DEF Cached
  <2>3. Cardinality(Cached') = Cardinality(Cached) + 1
    BY <1>3, <2>1, <2>2, FS_AddElement
  <2> QED  BY <1>2, <1>3, <1>8, <2>3 DEF RoomIsKept
<1> QED  BY <1>6, <1>7, <1>8

\* One reader changes, the record and its walker do not.
LEMMA ReaderMoves ==
  ASSUME PagesInv, NEW r \in Readers, UNCHANGED <<badPage, pages, ends, scanned, repaired, walker>>,
         locks' \in [PageSet -> {Free, Disk, Repaired}],
         reader' = [s \in Readers |-> reader'[s]], ReaderShape(reader'[r]),
         \A s \in Readers : s # r => reader'[s] = reader[s],
         \A s \in Readers : s # r /\ reader[s].pc = "fetch" =>
            locks'[reader[s].page] # Free /\ (reader'[r].pc = "fetch" => reader'[r].page # reader[s].page),
         reader'[r].pc = "fetch" => locks'[reader'[r].page] # Free,
         \A p \in PageSet : Reseeded(p) => locks'[p] # Disk,
         Trusted(reader'[r]) /\ reader'[r].pc # "idle" =>
            /\ reader'[r].late => walker.pc = "seeded"
            /\ \A q \in 0..reader'[r].page - 1 : PageEnd(q) <= reader'[r].start
            /\ reader'[r].pc = "got" => ends[reader'[r].page] # Unknown
            /\ reader'[r].pc = "found" => reader'[r].page = Pages \/ PageEnd(reader'[r].page) > reader'[r].start
  PROVE  PagesInv'
<1> USE DEF PagesInv
<1>1. PageTypes' /\ WalkerTypes'
  BY DEF PageTypes, WalkerTypes
<1>2. FetchersHold'
  BY DEF FetchersHold
<1>3. PrefixIsKnown' /\ EndsAreRight' /\ RoomIsKept'
  BY DEF PrefixIsKnown, EndsAreRight, Settled, RoomIsKept, Cached
<1>4. ReseededStay'
  BY DEF ReseededStay, Reseeded
<1>5. PassedEndBefore'
  BY DEF PassedEndBefore, Trusted
<1> QED  BY <1>1, <1>2, <1>3, <1>4, <1>5

\* ... and no lock.
LEMMA ReaderSteps ==
  ASSUME PagesInv, NEW r \in Readers, NEW new,
         UNCHANGED <<badPage, pages, ends, scanned, repaired, locks, walker>>,
         reader' = [reader EXCEPT ![r] = new], ReaderShape(new), new.pc \in {"walk", "got", "found"},
         Trusted(new) =>
            /\ new.late => walker.pc = "seeded"
            /\ \A q \in 0..new.page - 1 : PageEnd(q) <= new.start
            /\ new.pc = "got" => ends[new.page] # Unknown
            /\ new.pc = "found" => new.page = Pages \/ PageEnd(new.page) > new.start
  PROVE  PagesInv'
<1>1. /\ reader = [s \in Readers |-> reader[s]] /\ locks \in [PageSet -> {Free, Disk, Repaired}]
  BY DEF PagesInv, PageTypes
<1>2. /\ reader'[r] = new /\ \A s \in Readers : s # r => reader'[s] = reader[s]
      /\ reader' = [s \in Readers |-> reader'[s]]
  BY <1>1
<1>3. \A s \in Readers : s # r /\ reader[s].pc = "fetch" => locks'[reader[s].page] # Free
  BY DEF PagesInv, FetchersHold
<1>4. \A p \in PageSet : Reseeded(p) => locks'[p] # Disk
  BY DEF PagesInv, ReseededStay
<1> QED  BY <1>1, <1>2, <1>3, <1>4, ReaderMoves

LEMMA LocateBeginsKeeps ==
  ASSUME PagesInv, NEW r \in Readers, NEW start \in Nat, LocateBegins(r, start)
  PROVE  PagesInv'
<1> DEFINE New(n) == [pc |-> IF n = Pages THEN "found" ELSE "walk", start |-> start, late |-> walker.pc = "seeded", page |-> n]
<1>1. PICK n \in 0..scanned :
         /\ \A q \in 0..n - 1 : ends[q] <= start
         /\ reader' = [reader EXCEPT ![r] = New(n)]
  BY DEF LocateBegins
<1>2. UNCHANGED <<badPage, pages, ends, scanned, repaired, locks, walker>>
  BY DEF LocateBegins
<1>3. scanned \in Nat /\ scanned <= Pages /\ n \in Nat /\ n <= scanned /\ n <= Pages
  BY PageFacts DEF PagesInv, PageTypes
<1>4. /\ DOMAIN New(n) = {"pc", "page", "start", "late"} /\ New(n) = [x \in DOMAIN New(n) |-> New(n)[x]]
      /\ New(n).pc \in {"walk", "found"} /\ (New(n).pc = "found" => n = Pages)
      /\ New(n).start = start /\ New(n).page = n
  OBVIOUS
<1>5. New(n).late <=> walker.pc = "seeded"
  OBVIOUS
<1>6. New(n).late \in BOOLEAN
  OBVIOUS
<1> HIDE DEF New
<1>7. ReaderShape(New(n))
  BY <1>3, <1>4, <1>6 DEF ReaderShape
<1>8. ASSUME Trusted(New(n)), NEW q \in 0..n - 1
      PROVE  PageEnd(q) <= start
  <2>1. q \in PageSet /\ q \in 0..scanned - 1 /\ ends[q] # Unknown
    BY <1>3, PageFacts DEF PagesInv, PrefixIsKnown
  <2>2. Settled
    BY <1>5, <1>8 DEF Trusted, Settled
  <2>3. ends[q] = PageEnd(q)
    BY <2>1, <2>2 DEF PagesInv, EndsAreRight
  <2> QED  BY <1>1, <2>3
<1>9. Trusted(New(n)) =>
            /\ New(n).late => walker.pc = "seeded"
            /\ \A q \in 0..New(n).page - 1 : PageEnd(q) <= New(n).start
            /\ New(n).pc = "got" => ends[New(n).page] # Unknown
            /\ New(n).pc = "found" => New(n).page = Pages \/ PageEnd(New(n).page) > New(n).start
  BY <1>4, <1>5, <1>8
<1> QED  BY <1>1, <1>2, <1>4, <1>7, <1>9, ReaderSteps

LEMMA ReaderLeaves ==
  ASSUME PagesInv, NEW r \in Readers, FetchCancelled(r) \/ LocateReturns(r)
  PROVE  PagesInv'
<1>1. /\ UNCHANGED <<badPage, pages, ends, scanned, repaired, walker>> /\ reader' = [reader EXCEPT ![r] = IdleReader]
  BY DEF FetchCancelled, LocateReturns
<1>2. /\ reader = [s \in Readers |-> reader[s]] /\ locks \in [PageSet -> {Free, Disk, Repaired}]
      /\ \A s \in Readers : ReaderShape(reader[s])
  BY DEF PagesInv, PageTypes
<1>3. /\ reader'[r] = IdleReader /\ reader' = [s \in Readers |-> reader'[s]]
      /\ \A s \in Readers : s # r => reader'[s] = reader[s]
  BY <1>1, <1>2
<1>4. ReaderShape(IdleReader) /\ IdleReader.pc = "idle"
  BY PageFacts DEF ReaderShape, IdleReader
<1>5. \/ locks' = locks
      \/ reader[r].pc = "fetch" /\ locks' = [locks EXCEPT ![reader[r].page] = Free]
  BY DEF FetchCancelled, LocateReturns
<1>6. locks' \in [PageSet -> {Free, Disk, Repaired}]
  BY <1>2, <1>5
<1>7. ASSUME NEW s \in Readers, s # r, reader[s].pc = "fetch"
      PROVE  locks'[reader[s].page] # Free
  <2>1. locks[reader[s].page] # Free /\ reader[s].page \in PageSet
    BY <1>2, <1>7, PageFacts DEF ReaderShape, PagesInv, FetchersHold
  <2>2. reader[r].pc = "fetch" => reader[r].page # reader[s].page
    BY <1>7 DEF PagesInv, FetchersHold
  <2> QED  BY <1>2, <1>5, <2>1, <2>2
<1>8. \A p \in PageSet : Reseeded(p) => locks'[p] # Disk
  <2>1. Free # Disk
    BY DEF Free, Disk
  <2> QED  BY <1>2, <1>5, <2>1 DEF PagesInv, ReseededStay
<1> QED  BY <1>1, <1>3, <1>4, <1>6, <1>7, <1>8, ReaderMoves

LEMMA LocateStepKeeps ==
  ASSUME PagesInv, NEW r \in Readers, LocateStep(r)
  PROVE  PagesInv'
<1> DEFINE old == reader[r]
<1>1. old.pc = "got" /\ UNCHANGED <<badPage, pages, ends, scanned, repaired, locks, walker>>
  BY DEF LocateStep
<1>2. ReaderShape(old) /\ reader = [s \in Readers |-> reader[s]]
  BY DEF PagesInv, PageTypes
<1>3. old.page \in Nat /\ old.page < Pages /\ old.page \in PageSet /\ old.start \in Nat /\ Pages \in Nat
  BY <1>1, <1>2, PageFacts DEF ReaderShape
<1>4. Trusted(old) =>
         /\ old.late => walker.pc = "seeded"
         /\ \A q \in 0..old.page - 1 : PageEnd(q) <= old.start
         /\ ends[old.page] = PageEnd(old.page)
  BY <1>1, <1>3, PageFacts DEF PagesInv, PassedEndBefore, EndsAreRight, Settled, Trusted
<1>5. CASE ends[old.page] > old.start
  <2> DEFINE new == [old EXCEPT !.pc = "found"]
  <2>1. reader' = [reader EXCEPT ![r] = new]
    BY <1>2, <1>5 DEF LocateStep
  <2>2. ReaderShape(new) /\ new.pc = "found" /\ new.page = old.page /\ new.start = old.start /\ new.late = old.late
    BY <1>2, <1>3 DEF ReaderShape
  <2> HIDE DEF new
  <2>3. Trusted(new) =>
            /\ new.late => walker.pc = "seeded"
            /\ \A q \in 0..new.page - 1 : PageEnd(q) <= new.start
            /\ PageEnd(new.page) > new.start
    BY <1>4, <1>5, <2>2 DEF Trusted
  <2> QED  BY <1>1, <2>1, <2>2, <2>3, ReaderSteps
<1>6. CASE ~ (ends[old.page] > old.start)
  <2> DEFINE after == IF old.page + 1 < Pages THEN "walk" ELSE "found"
  <2> DEFINE new == [old EXCEPT !.page = old.page + 1, !.pc = after]
  <2>1. reader' = [reader EXCEPT ![r] = new]
    BY <1>6 DEF LocateStep
  <2>2. /\ DOMAIN new = {"pc", "page", "start", "late"} /\ new = [x \in DOMAIN new |-> new[x]]
        /\ new.pc = after /\ new.page = old.page + 1 /\ new.start = old.start /\ new.late = old.late
    BY <1>2 DEF ReaderShape
  <2> HIDE DEF new
  <2>3. ReaderShape(new) /\ new.pc \in {"walk", "found"} /\ (new.pc = "found" => new.page = Pages)
    BY <1>2, <1>3, <2>2 DEF ReaderShape
  <2>4. ASSUME Trusted(new), NEW q \in 0..new.page - 1
        PROVE  PageEnd(q) <= new.start
    <3>1. Trusted(old)
      BY <2>2, <2>4 DEF Trusted
    <3>2. q \in 0..old.page - 1 \/ q = old.page
      BY <1>3, <2>2
    <3>3. PageEnd(old.page) <= old.start
      BY <1>3, <1>4, <1>6, <3>1, PageFacts
    <3> QED  BY <1>4, <2>2, <3>1, <3>2, <3>3
  <2>5. Trusted(new) => (new.late => walker.pc = "seeded")
    BY <1>4, <2>2 DEF Trusted
  <2> QED  BY <1>1, <2>1, <2>3, <2>4, <2>5, ReaderSteps
<1> QED  BY <1>5, <1>6

\* A page is stored or its end noted: the readers, but one, stay, and the walker may move on.
LEMMA PagesMove ==
  ASSUME PagesInv, PageTypes', WalkerTypes', FetchersHold', PrefixIsKnown', ReseededStay', EndsAreRight', RoomIsKept',
         badPage' = badPage, NEW r,
         \A s \in Readers : s # r => reader'[s] = reader[s],
         walker.pc = "seeded" => walker'.pc = "seeded",
         \A p \in PageSet : ends[p] # Unknown => ends'[p] # Unknown,
         r \in Readers => /\ reader'[r].pc \in {"fetch", "got"} /\ reader[r].pc \in {"walk", "fetch"}
                          /\ reader'[r].page = reader[r].page
                          /\ reader'[r].start = reader[r].start /\ reader'[r].late = reader[r].late
                          /\ reader'[r].pc = "got" => ends'[reader[r].page] # Unknown
  PROVE  PagesInv'
<1>1. ASSUME NEW s \in Readers, Trusted(reader[s])', reader'[s].pc # "idle"
      PROVE  /\ reader'[s].late => walker'.pc = "seeded"
             /\ \A q \in 0..reader'[s].page - 1 : PageEnd(q) <= reader'[s].start
             /\ reader'[s].pc = "got" => ends'[reader'[s].page] # Unknown
             /\ reader'[s].pc = "found" => reader'[s].page = Pages \/ PageEnd(reader'[s].page) > reader'[s].start
  <2>1. CASE s = r
    <3>1. Trusted(reader[s]) /\ reader[s].pc # "idle"
      BY <1>1, <2>1 DEF Trusted
    <3>2. /\ reader[s].late => walker.pc = "seeded"
          /\ \A q \in 0..reader[s].page - 1 : PageEnd(q) <= reader[s].start
      BY <3>1 DEF PagesInv, PassedEndBefore
    <3> QED  BY <2>1, <3>2
  <2>2. CASE s # r
    <3>1. Trusted(reader[s]) /\ reader[s].pc # "idle" /\ reader'[s] = reader[s]
      BY <1>1, <2>2 DEF Trusted
    <3>2. ReaderShape(reader[s])
      BY DEF PagesInv, PageTypes
    <3>3. reader[s].pc = "got" => reader[s].page \in PageSet
      BY <3>2, PageFacts DEF ReaderShape
    <3> QED  BY <3>1, <3>3 DEF PagesInv, PassedEndBefore
  <2> QED  BY <2>1, <2>2
<1>2. PassedEndBefore'
  BY <1>1 DEF PassedEndBefore
<1> QED  BY <1>2 DEF PagesInv

LEMMA GetPageKeeps ==
  ASSUME PagesInv, NEW r \in Readers, GetPage(r)
  PROVE  PagesInv'
<1> DEFINE old == reader[r]
<1>1. /\ old.pc = "walk" /\ old.page < Pages /\ locks[old.page] = Free
      /\ UNCHANGED <<badPage, repaired, walker>>
  BY DEF GetPage
<1>2. /\ ReaderShape(old) /\ reader = [s \in Readers |-> reader[s]] /\ locks \in [PageSet -> {Free, Disk, Repaired}]
      /\ pages \in [PageSet -> {Absent, Disk, Repaired}] /\ ends \in [PageSet -> {Unknown} \union Nat]
  BY DEF PagesInv, PageTypes
<1>3. old.page \in PageSet /\ old.page \in Nat
  BY <1>1, <1>2, PageFacts DEF ReaderShape
<1>4. CASE pages[old.page] # Absent
  <2> DEFINE new == [old EXCEPT !.pc = "got"]
  <2>1. NotePageEnd(old.page, pages[old.page]) /\ reader' = [reader EXCEPT ![r] = new] /\ UNCHANGED <<pages, locks>>
    BY <1>2, <1>4 DEF GetPage
  <2>2. ReaderShape(new) /\ new.pc = "got" /\ new.page = old.page /\ new.start = old.start /\ new.late = old.late
    BY <1>1, <1>2, <1>3 DEF ReaderShape
  <2> HIDE DEF new
  <2>3. /\ reader'[r] = new /\ reader' = [s \in Readers |-> reader'[s]]
        /\ \A s \in Readers : s # r => reader'[s] = reader[s]
    BY <1>2, <2>1
  <2>4. /\ ends' \in [PageSet -> {Unknown} \union Nat] /\ scanned' \in 0..Pages /\ PrefixIsKnown'
        /\ ends'[old.page] = EndOf(old.page, pages[old.page]) /\ ends'[old.page] \in Nat
        /\ \A q \in PageSet : q # old.page => ends'[q] = ends[q]
    BY <1>3, <2>1, EndsGrow DEF PagesInv
  <2>5. PageTypes' /\ WalkerTypes'
    BY <1>1, <2>1, <2>2, <2>3, <2>4 DEF PagesInv, PageTypes, WalkerTypes
  <2>6. FetchersHold'
    BY <1>1, <2>1, <2>2, <2>3 DEF PagesInv, FetchersHold
  <2>7. Reseeded(old.page) => pages[old.page] # Disk
    BY <1>3 DEF PagesInv, ReseededStay
  <2>8. EndsAreRight'
    <3>1. Settled' => pages[old.page] # Disk \/ badPage = NoPage
      BY <1>1, <2>7 DEF Settled, Reseeded
    <3> QED  BY <1>1, <1>3, <2>1, <3>1, EndsStayRight
  <2>9. ReseededStay'
    BY <1>1, <1>3, <2>1, <2>4, <2>7 DEF PagesInv, ReseededStay, Reseeded, EndOf
  <2>10. RoomIsKept'
    BY <2>1 DEF PagesInv, RoomIsKept, Cached
  <2>11. \A p \in PageSet : ends[p] # Unknown => ends'[p] # Unknown
    BY <2>4, PageFacts
  <2>12. ends'[old.page] # Unknown
    BY <2>4, PageFacts
  <2> QED  BY <1>1, <2>2, <2>3, <2>4, <2>5, <2>6, <2>8, <2>9, <2>10, <2>11, <2>12, PagesMove
<1>5. CASE pages[old.page] = Absent
  <2> DEFINE new == [old EXCEPT !.pc = "fetch"]
  <2>1. /\ locks' = [locks EXCEPT ![old.page] = FetchSource] /\ reader' = [reader EXCEPT ![r] = new]
        /\ UNCHANGED <<pages, ends, scanned>>
    BY <1>2, <1>5 DEF GetPage
  <2>2. ReaderShape(new) /\ new.pc = "fetch" /\ new.page = old.page /\ new.start = old.start /\ new.late = old.late
    BY <1>1, <1>2, <1>3 DEF ReaderShape
  <2> HIDE DEF new
  <2>3. /\ reader'[r] = new /\ reader' = [s \in Readers |-> reader'[s]]
        /\ \A s \in Readers : s # r => reader'[s] = reader[s]
    BY <1>2, <2>1
  <2>4. FetchSource \in {Disk, Repaired} /\ FetchSource # Free /\ (repaired => FetchSource # Disk)
    BY DEF FetchSource, Disk, Repaired, Free
  <2>5. /\ locks' \in [PageSet -> {Free, Disk, Repaired}] /\ locks'[old.page] = FetchSource
        /\ \A p \in PageSet : p # old.page => locks'[p] = locks[p]
    BY <1>2, <1>3, <2>1, <2>4
  <2>6. ASSUME NEW s \in Readers, s # r, reader[s].pc = "fetch"
        PROVE  locks'[reader[s].page] # Free /\ (reader'[r].pc = "fetch" => reader'[r].page # reader[s].page)
    <3>1. locks[reader[s].page] # Free /\ reader[s].page \in PageSet
      BY <2>6, PageFacts DEF PagesInv, FetchersHold, PageTypes, ReaderShape
    <3> QED  BY <1>1, <2>2, <2>3, <2>5, <3>1
  <2>7. \A p \in PageSet : Reseeded(p) => locks'[p] # Disk
    <3>1. \A p \in PageSet : Reseeded(p) => repaired
      BY DEF Reseeded, PagesInv, WalkerTypes
    <3> QED  BY <2>4, <2>5, <3>1 DEF PagesInv, ReseededStay
  <2>8. ASSUME Trusted(new)
        PROVE  (new.late => walker.pc = "seeded") /\ \A q \in 0..new.page - 1 : PageEnd(q) <= new.start
    <3>1. Trusted(old)
      BY <2>2, <2>8 DEF Trusted
    <3> QED  BY <1>1, <2>2, <3>1 DEF PagesInv, PassedEndBefore
  <2>9. Trusted(reader'[r]) =>
            /\ reader'[r].late => walker.pc = "seeded"
            /\ \A q \in 0..reader'[r].page - 1 : PageEnd(q) <= reader'[r].start
            /\ reader'[r].pc = "got" => ends[reader'[r].page] # Unknown
            /\ reader'[r].pc = "found" => reader'[r].page = Pages \/ PageEnd(reader'[r].page) > reader'[r].start
    BY <2>2, <2>3, <2>8
  <2>10. reader'[r].pc = "fetch" => locks'[reader'[r].page] # Free
    BY <2>2, <2>3, <2>4, <2>5
  <2>11. UNCHANGED <<badPage, pages, ends, scanned, repaired, walker>> /\ ReaderShape(reader'[r])
    BY <1>1, <2>1, <2>2, <2>3
  <2> QED  BY <2>3, <2>5, <2>6, <2>7, <2>9, <2>10, <2>11, ReaderMoves
<1> QED  BY <1>4, <1>5

LEMMA PageFetchedKeeps ==
  ASSUME PagesInv, NEW r \in Readers, PageFetched(r)
  PROVE  PagesInv'
<1> DEFINE old == reader[r]
<1> DEFINE p == old.page
<1> DEFINE from == locks[p]
<1> DEFINE new == [old EXCEPT !.pc = "got"]
<1>1. /\ old.pc = "fetch" /\ Store(p, from) /\ NotePageEnd(p, from) /\ locks' = [locks EXCEPT ![p] = Free]
      /\ reader' = [reader EXCEPT ![r] = new] /\ UNCHANGED <<badPage, repaired, walker>>
  BY DEF PageFetched
<1>2. /\ ReaderShape(old) /\ reader = [s \in Readers |-> reader[s]] /\ locks \in [PageSet -> {Free, Disk, Repaired}]
      /\ pages \in [PageSet -> {Absent, Disk, Repaired}] /\ ends \in [PageSet -> {Unknown} \union Nat]
  BY DEF PagesInv, PageTypes
<1>3. p \in PageSet /\ p \in Nat /\ p < Pages
  BY <1>1, <1>2, PageFacts DEF ReaderShape
<1>4. from \in {Disk, Repaired}
  BY <1>1, <1>2, <1>3 DEF PagesInv, FetchersHold
<1>5. ReaderShape(new) /\ new.pc = "got" /\ new.page = old.page /\ new.start = old.start /\ new.late = old.late
  BY <1>1, <1>2, <1>3 DEF ReaderShape
<1>6. Reseeded(p) => from # Disk
  BY <1>3 DEF PagesInv, ReseededStay
<1> HIDE DEF new, from
<1>7. /\ reader'[r] = new /\ reader' = [s \in Readers |-> reader'[s]]
      /\ \A s \in Readers : s # r => reader'[s] = reader[s]
  BY <1>1, <1>2
<1>8. /\ ends' \in [PageSet -> {Unknown} \union Nat] /\ scanned' \in 0..Pages /\ PrefixIsKnown'
      /\ ends'[p] = EndOf(p, from) /\ ends'[p] \in Nat
      /\ \A q \in PageSet : q # p => ends'[q] = ends[q]
  BY <1>1, <1>3, EndsGrow DEF PagesInv
<1>9. /\ pages' \in [PageSet -> {Absent, Disk, Repaired}] /\ pages'[p] = from
      /\ \A q \in PageSet : q # p => pages'[q] = pages[q] \/ pages'[q] = Absent
      /\ RoomIsKept'
  BY <1>1, <1>3, <1>4, StoreKeepsRoom DEF PagesInv
<1>10. /\ locks' \in [PageSet -> {Free, Disk, Repaired}] /\ locks'[p] = Free
       /\ \A q \in PageSet : q # p => locks'[q] = locks[q]
  BY <1>1, <1>2, <1>3
<1>11. PageTypes' /\ WalkerTypes'
  <2>1. \A s \in Readers : ReaderShape(reader'[s])
    BY <1>5, <1>7 DEF PagesInv, PageTypes
  <2> QED  BY <1>1, <1>7, <1>8, <1>9, <1>10, <2>1 DEF PagesInv, PageTypes, WalkerTypes
<1>12. FetchersHold'
  <2>1. ASSUME NEW s \in Readers, reader'[s].pc = "fetch"
        PROVE  s # r /\ reader'[s] = reader[s] /\ locks'[reader[s].page] # Free
    <3>1. s # r /\ reader'[s] = reader[s]
      BY <1>5, <1>7, <2>1
    <3>2. reader[s].page # p /\ reader[s].page \in PageSet /\ locks[reader[s].page] # Free
      BY <1>1, <2>1, <3>1, PageFacts DEF PagesInv, FetchersHold, PageTypes, ReaderShape
    <3> QED  BY <1>10, <3>1, <3>2
  <2> QED  BY <2>1 DEF PagesInv, FetchersHold
<1>13. EndsAreRight'
  <2>1. Settled' => from # Disk \/ badPage = NoPage
    BY <1>1, <1>6 DEF Settled, Reseeded
  <2> QED  BY <1>1, <1>3, <2>1, EndsStayRight
<1>14. ReseededStay'
  <2>1. ASSUME NEW q \in PageSet, Reseeded(q)'
        PROVE  pages'[q] # Disk /\ locks'[q] # Disk /\ ends'[q] = PageEnd(q)
    <3>1. Reseeded(q) /\ pages[q] # Disk /\ locks[q] # Disk /\ ends[q] = PageEnd(q)
      BY <1>1, <2>1 DEF Reseeded, PagesInv, ReseededStay
    <3>2. CASE q = p
      BY <1>6, <1>8, <1>9, <1>10, <3>1, <3>2 DEF EndOf, Free, Disk
    <3>3. CASE q # p
      BY <1>8, <1>9, <1>10, <3>1, <3>3 DEF Absent, Disk
    <3> QED  BY <3>2, <3>3
  <2> QED  BY <2>1 DEF ReseededStay
<1>15. (\A q \in PageSet : ends[q] # Unknown => ends'[q] # Unknown) /\ ends'[p] # Unknown
  BY <1>8, PageFacts
<1> QED  BY <1>1, <1>5, <1>7, <1>8, <1>9, <1>11, <1>12, <1>13, <1>14, <1>15, PagesMove

LEMMA SeedPageKeeps ==
  ASSUME PagesInv, SeedPage
  PROVE  PagesInv'
<1> DEFINE p == walker.page
<1>1. /\ walker.pc = "seed" /\ locks[p] = Free /\ Store(p, Repaired) /\ NotePageEnd(p, Repaired)
      /\ walker' = [walker EXCEPT !.page = @ + 1, !.pc = IF p + 1 = Pages THEN "seeded" ELSE "seed"]
      /\ UNCHANGED <<badPage, repaired, locks, reader>>
  BY DEF SeedPage
<1>2. WalkerTypes
  BY DEF PagesInv
<1>3. p \in PageSet /\ p \in Nat /\ p < Pages /\ Pages \in Nat
  BY <1>1, <1>2, PageFacts DEF WalkerTypes
<1>4. /\ DOMAIN walker' = {"pc", "page", "start"} /\ walker' = [x \in DOMAIN walker' |-> walker'[x]]
      /\ walker'.page = p + 1 /\ walker'.pc = (IF p + 1 = Pages THEN "seeded" ELSE "seed") /\ walker'.start = walker.start
  BY <1>1, <1>2 DEF WalkerTypes
<1>5. WalkerTypes'
  BY <1>1, <1>2, <1>3, <1>4 DEF WalkerTypes
<1>6. /\ ends' \in [PageSet -> {Unknown} \union Nat] /\ scanned' \in 0..Pages /\ PrefixIsKnown'
      /\ ends'[p] = EndOf(p, Repaired) /\ ends'[p] \in Nat
      /\ \A q \in PageSet : q # p => ends'[q] = ends[q]
  BY <1>1, <1>3, EndsGrow DEF PagesInv
<1>7. /\ pages' \in [PageSet -> {Absent, Disk, Repaired}] /\ pages'[p] = Repaired
      /\ \A q \in PageSet : q # p => pages'[q] = pages[q] \/ pages'[q] = Absent
      /\ RoomIsKept'
  BY <1>1, <1>3, StoreKeepsRoom DEF PagesInv
<1>8. PageTypes' /\ FetchersHold'
  BY <1>1, <1>6, <1>7 DEF PagesInv, PageTypes, FetchersHold
<1>9. \A q \in PageSet : Reseeded(q)' => q = p \/ Reseeded(q)
  <2>1. ASSUME NEW q \in PageSet, walker'.pc = "seeded" \/ q < p + 1
        PROVE  q = p \/ q < p
    BY <1>3, <1>4, <2>1, PageFacts
  <2> QED  BY <1>1, <1>4, <2>1 DEF Reseeded
<1>10. EndsAreRight'
  <2>1. walker'.pc = "seeded" => \A q \in PageSet : q # p => Reseeded(q)
    BY <1>9 DEF Reseeded
  <2>2. Repaired # Disk
    BY DEF Repaired, Disk
  <2> QED  BY <1>1, <1>3, <2>1, <2>2, EndsStayRight
<1>11. ReseededStay'
  <2>1. ASSUME NEW q \in PageSet, Reseeded(q)'
        PROVE  pages'[q] # Disk /\ locks'[q] # Disk /\ ends'[q] = PageEnd(q)
    <3>1. CASE q = p
      BY <1>1, <1>6, <1>7, <3>1 DEF EndOf, Repaired, Free, Disk
    <3>2. CASE q # p
      BY <1>1, <1>6, <1>7, <1>9, <2>1, <3>2 DEF PagesInv, ReseededStay, Absent, Disk
    <3> QED  BY <3>1, <3>2
  <2> QED  BY <2>1 DEF ReseededStay
<1>12. \A q \in PageSet : ends[q] # Unknown => ends'[q] # Unknown
  BY <1>6, PageFacts
<1>13. walker.pc # "seeded"
  BY <1>1
<1>14. PICK r : r \notin Readers
  BY NoSetContainsEverything
<1> QED  BY <1>1, <1>5, <1>6, <1>7, <1>8, <1>10, <1>11, <1>12, <1>13, <1>14, PagesMove

LEMMA PrimePageKeeps ==
  ASSUME PagesInv, PrimePage
  PROVE  PagesInv'
<1> DEFINE p == walker.page
<1>1. /\ walker.pc = "prime" /\ UNCHANGED <<badPage, repaired, locks, reader>>
      /\ walker' = [walker EXCEPT !.page = p + 1, !.pc = IF p + 1 = Pages THEN "primed" ELSE "prime"]
  BY DEF PrimePage
<1>2. WalkerTypes
  BY DEF PagesInv
<1>3. p \in PageSet /\ p \in Nat /\ p < Pages /\ Pages \in Nat /\ badPage = NoPage
  BY <1>1, <1>2, PageFacts DEF WalkerTypes
<1>4. /\ DOMAIN walker' = {"pc", "page", "start"} /\ walker' = [x \in DOMAIN walker' |-> walker'[x]]
      /\ walker'.page = p + 1 /\ walker'.pc = (IF p + 1 = Pages THEN "primed" ELSE "prime") /\ walker'.start = walker.start
  BY <1>1, <1>2 DEF WalkerTypes
<1>5. WalkerTypes'
  BY <1>1, <1>2, <1>3, <1>4 DEF WalkerTypes
<1>6. /\ ends' \in [PageSet -> {Unknown} \union Nat] /\ scanned' \in 0..Pages /\ PrefixIsKnown' /\ EndsAreRight'
      /\ \A q \in PageSet : ends[q] # Unknown => ends'[q] # Unknown
  <2>1. CASE ends[p] = Unknown
    <3>1. NotePageEnd(p, Repaired)
      BY <2>1 DEF PrimePage
    <3>2. EndsAreRight'
      BY <1>1, <1>3, <1>4, <3>1, EndsStayRight
    <3> QED  BY <1>3, <3>1, <3>2, EndsGrow, PageFacts DEF PagesInv
  <2>2. CASE ends[p] # Unknown
    <3>1. UNCHANGED <<ends, scanned>>
      BY <2>2 DEF PrimePage
    <3> QED  BY <1>1, <1>3, <3>1 DEF PagesInv, PageTypes, PrefixIsKnown, EndsAreRight, Settled
  <2> QED  BY <2>1, <2>2
<1>7. pages' \in [PageSet -> {Absent, Disk, Repaired}] /\ RoomIsKept'
  <2>1. CASE pages' = pages
    BY <2>1 DEF PagesInv, PageTypes, RoomIsKept, Cached
  <2>2. CASE pages[p] = Absent /\ Cardinality(Cached) < PageRoom /\ pages' = [pages EXCEPT ![p] = Repaired]
    <3>1. pages' \in [PageSet -> {Absent, Disk, Repaired}]
      BY <2>2 DEF PagesInv, PageTypes
    <3>2. p \notin Cached /\ Cached' = Cached \cup {p}
      BY <1>3, <2>2 DEF PagesInv, PageTypes, Cached, Absent, Repaired
    <3>3. Cardinality(Cached') = Cardinality(Cached) + 1
      BY <3>2, CachedIsFinite, FS_AddElement
    <3>4. Cardinality(Cached) \in Nat
      BY CachedIsFinite, FS_CardinalityType
    <3> QED  BY <2>2, <3>1, <3>3, <3>4, PageFacts DEF RoomIsKept
  <2> QED  BY <2>1, <2>2 DEF PrimePage
<1>8. PageTypes' /\ FetchersHold'
  BY <1>1, <1>6, <1>7 DEF PagesInv, PageTypes, FetchersHold
<1>9. ReseededStay'
  BY <1>4 DEF ReseededStay, Reseeded
<1>10. walker.pc # "seeded"
  BY <1>1
<1>11. PICK r : r \notin Readers
  BY NoSetContainsEverything
<1> QED  BY <1>1, <1>5, <1>6, <1>7, <1>8, <1>9, <1>10, <1>11, PagesMove

LEMMA WalkerBegins ==
  ASSUME PagesInv, SeedBegins \/ \E start \in Nat : PrimeBegins(start)
  PROVE  PagesInv'
<1>1. UNCHANGED <<badPage, pages, ends, scanned, locks, reader>> /\ walker.pc \in {"idle", "primed"}
  BY DEF SeedBegins, PrimeBegins
<1>2. repaired' \in BOOLEAN /\ WalkerTypes' /\ walker'.pc # "seeded" /\ \A p \in PageSet : ~ Reseeded(p)'
  <2>1. CASE SeedBegins
    <3>1. /\ badPage # NoPage /\ repaired' = TRUE /\ walker' = [walker EXCEPT !.pc = "seed", !.page = 0]
      BY <2>1 DEF SeedBegins
    <3>2. /\ DOMAIN walker' = {"pc", "page", "start"} /\ walker' = [x \in DOMAIN walker' |-> walker'[x]]
          /\ walker'.page = 0 /\ walker'.pc = "seed" /\ walker'.start = walker.start
      BY <3>1 DEF PagesInv, WalkerTypes
    <3> QED  BY <1>1, <3>1, <3>2, PageFacts DEF PagesInv, WalkerTypes, Reseeded
  <2>2. ASSUME NEW start \in Nat, PrimeBegins(start)
        PROVE  repaired' \in BOOLEAN /\ WalkerTypes' /\ walker'.pc # "seeded" /\ \A p \in PageSet : ~ Reseeded(p)'
    <3>1. /\ badPage = NoPage /\ repaired' = repaired /\ walker' = [pc |-> "prime", page |-> 0, start |-> start]
      BY <2>2 DEF PrimeBegins
    <3> QED  BY <1>1, <3>1, PageFacts DEF PagesInv, PageTypes, WalkerTypes, Reseeded
  <2> QED  BY <2>1, <2>2
<1>3. PageTypes' /\ FetchersHold' /\ PrefixIsKnown' /\ RoomIsKept'
  BY <1>1, <1>2 DEF PagesInv, PageTypes, FetchersHold, PrefixIsKnown, RoomIsKept, Cached
<1>4. ReseededStay'
  BY <1>2 DEF ReseededStay
<1>5. EndsAreRight'
  BY <1>1, <1>2 DEF PagesInv, EndsAreRight, Settled
<1>6. walker.pc # "seeded"
  BY <1>1
<1>7. PICK r : r \notin Readers
  BY NoSetContainsEverything
<1> QED  BY <1>1, <1>2, <1>3, <1>4, <1>5, <1>6, <1>7, PagesMove

LEMMA PagesStep ==
  ASSUME PagesInv, PagesNext
  PROVE  PagesInv'
<1>1. ASSUME NEW r \in Readers, NEW start \in 1..2 * Pages, LocateBegins(r, start)
      PROVE  PagesInv'
  <2>1. start \in Nat
    BY PageFacts
  <2> QED  BY <1>1, <2>1, LocateBeginsKeeps
<1>2. ASSUME NEW r \in Readers,
             GetPage(r) \/ PageFetched(r) \/ FetchCancelled(r) \/ LocateStep(r) \/ LocateReturns(r)
      PROVE  PagesInv'
  BY <1>2, GetPageKeeps, PageFetchedKeeps, ReaderLeaves, LocateStepKeeps
<1>3. ASSUME SeedBegins \/ \E start \in {0, 3} : PrimeBegins(start)
      PROVE  PagesInv'
  BY <1>3, WalkerBegins
<1> QED  BY <1>1, <1>2, <1>3, SeedPageKeeps, PrimePageKeeps DEF PagesNext

LEMMA PagesKeep ==
  ASSUME PagesInv, UNCHANGED pageVars
  PROVE  PagesInv'
<1>1. PageTypes' /\ WalkerTypes' /\ FetchersHold' /\ PrefixIsKnown'
  BY DEF pageVars, PagesInv, PageTypes, WalkerTypes, FetchersHold, PrefixIsKnown
<1>2. ReseededStay' /\ EndsAreRight' /\ PassedEndBefore' /\ RoomIsKept'
  BY DEF pageVars, PagesInv, ReseededStay, Reseeded, EndsAreRight, Settled, PassedEndBefore, Trusted, RoomIsKept, Cached
<1> QED  BY <1>1, <1>2 DEF PagesInv

LEMMA PagesProperties ==
  ASSUME PagesInv
  PROVE  RepairSticks
<1>1. walker.pc = "seeded" =>
         \A p \in PageSet : (pages[p] = Disk => p # badPage) /\ ends[p] = PageEnd(p) /\ locks[p] # Disk
  BY DEF PagesInv, ReseededStay, Reseeded
<1>2. ASSUME NEW r \in Readers, reader[r].pc = "found", reader[r].late \/ badPage = NoPage
      PROVE  reader[r].page = Min({p \in 0..Pages : p = Pages \/ PageEnd(p) > reader[r].start})
  <2> DEFINE S == {p \in 0..Pages : p = Pages \/ PageEnd(p) > reader[r].start}
  <2>1. /\ \A q \in 0..reader[r].page - 1 : PageEnd(q) <= reader[r].start
        /\ reader[r].page = Pages \/ PageEnd(reader[r].page) > reader[r].start
    BY <1>2 DEF PagesInv, PassedEndBefore, Trusted
  <2>2. reader[r].page \in Nat /\ reader[r].page <= Pages /\ reader[r].start \in Nat /\ Pages \in Nat
    BY PageFacts DEF PagesInv, PageTypes, ReaderShape
  <2>3. S \in SUBSET Nat /\ reader[r].page \in S
    BY <2>1, <2>2
  <2>4. ASSUME NEW y \in S
        PROVE  reader[r].page <= y
    <3>1. y \in Nat /\ y <= Pages /\ (y = Pages \/ PageEnd(y) > reader[r].start) /\ PageEnd(y) \in Nat
      BY <2>2, PageFacts
    <3>2. y < reader[r].page => PageEnd(y) <= reader[r].start
      BY <2>1, <2>2, <3>1
    <3> QED  BY <2>2, <3>1, <3>2
  <2> HIDE DEF S
  <2>5. reader[r].page = Min(S)
    BY <2>3, <2>4, MinIs
  <2> QED  BY <2>5 DEF S
<1> QED  BY <1>1, <1>2 DEF PagesInv, PrefixIsKnown, RoomIsKept, RepairSticks

(***************************************************************************)
(* Concurrent items, and the failure they end with.                        *)
(***************************************************************************)
States == {"wait", "run", "ok", "failed", "skipped", "cancelled"}
Ended == \A i \in Items : item[i] \notin {"run", "wait"}

GatherTypes ==
    /\ mode \in {"group", "first_error"} /\ bad \in SUBSET Items /\ failures \in SUBSET Items
    /\ item \in [Items -> States] /\ raised \in Items \union {NoFailure}

\* Who failed is what failures says; an item is left out only after an earlier one failed.
FailuresAreTrue ==
    /\ \A i \in Items : item[i] = "failed" <=> i \in failures
    /\ failures \subseteq bad
    /\ \A i \in Items : item[i] = "ok" => i \notin bad
    /\ \A i \in Items : item[i] = "skipped" => mode = "first_error" /\ \E j \in failures : j < i
    /\ \A i \in Items : item[i] = "cancelled" => mode = "group" /\ failures # {}

\* What a first_error gather raises once everything has ended.
RaisedLast == mode = "first_error" /\ raised # NoFailure => Ended /\ failures # {} /\ raised = Min(failures)

FewRun == Cardinality(Running) <= MaxConcurrent

GatherInv == GatherTypes /\ FailuresAreTrue /\ RaisedLast /\ FewRun

LEMMA ItemFacts ==
  /\ Items \in SUBSET Nat /\ NoFailure \notin Items /\ IsFiniteSet(Items)
  /\ MaxConcurrent \in Nat /\ MaxConcurrent > 0
<1>1. IsFiniteSet(Items)
  BY GatherAssumption, FS_Interval DEF Items
<1> QED  BY <1>1, GatherAssumption DEF Items, NoFailure

LEMMA RunningIsFinite == IsFiniteSet(Running)
  BY ItemFacts, FS_Subset DEF Running

LEMMA GatherStart ==
  ASSUME GatherInit
  PROVE  GatherInv
<1>1. GatherTypes /\ FailuresAreTrue /\ RaisedLast
  BY DEF GatherInit, GatherTypes, States, FailuresAreTrue, RaisedLast
<1>2. Running = {}
  BY DEF GatherInit, Running
<1>3. FewRun
  BY <1>2, ItemFacts, FS_EmptySet DEF FewRun
<1> QED  BY <1>1, <1>3 DEF GatherInv

\* No item starts: no more run than before.
LEMMA FewerRun ==
  ASSUME GatherInv, \A i \in Items : item'[i] = "run" => item[i] = "run"
  PROVE  FewRun'
<1>1. Running' \in SUBSET Running
  BY DEF Running
<1>2. Cardinality(Running') <= Cardinality(Running) /\ IsFiniteSet(Running')
  BY <1>1, RunningIsFinite, FS_Subset
<1>3. Cardinality(Running) \in Nat /\ Cardinality(Running') \in Nat
  BY <1>2, RunningIsFinite, FS_CardinalityType
<1> QED  BY <1>2, <1>3, ItemFacts DEF GatherInv, FewRun

LEMMA ItemStartsKeeps ==
  ASSUME GatherInv, NEW i \in Items, ItemStarts(i)
  PROVE  GatherInv'
<1>1. /\ raised = NoFailure /\ item[i] = "wait" /\ Cardinality(Running) < MaxConcurrent
      /\ item' = [item EXCEPT ![i] = IF Skipped(i) THEN "skipped" ELSE "run"]
      /\ UNCHANGED <<mode, bad, failures, raised>>
  BY DEF ItemStarts
<1>2. /\ item' \in [Items -> States] /\ item'[i] = (IF Skipped(i) THEN "skipped" ELSE "run")
      /\ \A j \in Items : j # i => item'[j] = item[j]
  BY <1>1 DEF GatherInv, GatherTypes, States
<1>3. GatherTypes' /\ RaisedLast'
  BY <1>1, <1>2 DEF GatherInv, GatherTypes, RaisedLast
<1>4. Skipped(i) => mode = "first_error" /\ \E j \in failures : j < i
  <2>1. failures \in SUBSET Nat
    BY ItemFacts DEF GatherInv, GatherTypes
  <2> QED  BY <2>1, MinIsLeast DEF Skipped
<1>5. FailuresAreTrue'
  BY <1>1, <1>2, <1>4 DEF GatherInv, FailuresAreTrue
<1>6. FewRun'
  <2>1. Running' \in SUBSET (Running \cup {i}) /\ i \notin Running
    BY <1>1, <1>2 DEF Running
  <2>2. IsFiniteSet(Running \cup {i}) /\ Cardinality(Running \cup {i}) = Cardinality(Running) + 1
    BY <2>1, RunningIsFinite, FS_AddElement
  <2>3. IsFiniteSet(Running') /\ Cardinality(Running') <= Cardinality(Running) + 1
    BY <2>1, <2>2, FS_Subset
  <2>4. Cardinality(Running') \in Nat /\ Cardinality(Running) \in Nat
    BY <2>3, RunningIsFinite, FS_CardinalityType
  <2> QED  BY <1>1, <2>3, <2>4, ItemFacts DEF FewRun
<1> QED  BY <1>3, <1>5, <1>6 DEF GatherInv

LEMMA ItemEndsKeeps ==
  ASSUME GatherInv, NEW i \in Items, ItemReturns(i) \/ ItemFails(i)
  PROVE  GatherInv'
<1>1. raised = NoFailure /\ item[i] = "run" /\ UNCHANGED <<mode, bad>>
  BY DEF ItemReturns, ItemFails
<1>2. CASE ItemReturns(i)
  <2>1. /\ i \notin bad /\ UNCHANGED <<failures, raised>> /\ item' \in [Items -> States] /\ item'[i] = "ok"
        /\ \A j \in Items : j # i => item'[j] = item[j]
    BY <1>2 DEF ItemReturns, GatherInv, GatherTypes, States
  <2>2. GatherTypes' /\ RaisedLast' /\ FailuresAreTrue'
    BY <1>1, <2>1 DEF GatherInv, GatherTypes, RaisedLast, FailuresAreTrue
  <2>3. FewRun'
    BY <2>1, FewerRun
  <2> QED  BY <2>2, <2>3 DEF GatherInv
<1>3. CASE ItemFails(i) /\ mode = "group"
  <2>1. /\ i \in bad /\ failures' = failures \union {i} /\ raised' = i
        /\ item' = [j \in Items |-> IF j = i THEN "failed" ELSE IF item[j] \in {"run", "wait"} THEN "cancelled" ELSE item[j]]
    BY <1>3 DEF ItemFails
  <2>2. item' \in [Items -> States] /\ item'[i] = "failed"
        /\ \A j \in Items : j # i => item'[j] = IF item[j] \in {"run", "wait"} THEN "cancelled" ELSE item[j]
    BY <2>1 DEF GatherInv, GatherTypes, States
  <2>3. GatherTypes' /\ RaisedLast'
    BY <1>1, <1>3, <2>1, <2>2 DEF GatherInv, GatherTypes, RaisedLast
  <2>4. FailuresAreTrue'
    BY <1>1, <1>3, <2>1, <2>2 DEF GatherInv, FailuresAreTrue
  <2>5. FewRun'
    BY <2>2, FewerRun
  <2> QED  BY <2>3, <2>4, <2>5 DEF GatherInv
<1>4. CASE ItemFails(i) /\ mode # "group"
  <2>1. /\ i \in bad /\ failures' = failures \union {i} /\ raised' = raised /\ item' = [item EXCEPT ![i] = "failed"]
    BY <1>4 DEF ItemFails
  <2>2. /\ item' \in [Items -> States] /\ item'[i] = "failed"
        /\ \A j \in Items : j # i => item'[j] = item[j]
    BY <2>1 DEF GatherInv, GatherTypes, States
  <2>3. GatherTypes' /\ RaisedLast' /\ FailuresAreTrue'
    BY <1>1, <1>4, <2>1, <2>2 DEF GatherInv, GatherTypes, RaisedLast, FailuresAreTrue
  <2>4. FewRun'
    BY <2>2, FewerRun
  <2> QED  BY <2>3, <2>4 DEF GatherInv
<1> QED  BY <1>2, <1>3, <1>4

LEMMA GatherRaisesKeeps ==
  ASSUME GatherInv, GatherRaises
  PROVE  GatherInv'
<1>1. /\ failures # {} /\ Ended /\ raised' = Min(failures) /\ UNCHANGED <<mode, bad, item, failures>>
  BY DEF GatherRaises, Ended
<1>2. raised' \in failures
  BY <1>1, ItemFacts, MinIsLeast DEF GatherInv, GatherTypes
<1>3. GatherTypes' /\ FailuresAreTrue' /\ RaisedLast'
  BY <1>1, <1>2 DEF GatherInv, GatherTypes, FailuresAreTrue, RaisedLast, Ended
<1>4. FewRun'
  BY <1>1, FewerRun
<1> QED  BY <1>3, <1>4 DEF GatherInv

LEMMA GatherStep ==
  ASSUME GatherInv, GatherNext
  PROVE  GatherInv'
  BY ItemStartsKeeps, ItemEndsKeeps, GatherRaisesKeeps DEF GatherNext

LEMMA GatherKeeps ==
  ASSUME GatherInv, UNCHANGED gatherVars
  PROVE  GatherInv'
  BY DEF gatherVars, GatherInv, GatherTypes, FailuresAreTrue, RaisedLast, Ended, FewRun, Running

LEMMA GatherProperties ==
  ASSUME GatherInv
  PROVE  GatherIsSerial
<1>1. ASSUME Ended, failures = {}
      PROVE  bad = {} /\ \A i \in Items : item[i] = "ok"
  <2>1. \A i \in Items : item[i] = "ok"
    BY <1>1 DEF Ended, GatherInv, GatherTypes, States, FailuresAreTrue
  <2> QED  BY <2>1 DEF GatherInv, GatherTypes, FailuresAreTrue
<1>2. ASSUME mode = "first_error", raised # NoFailure
      PROVE  raised = Min(bad) /\ Running = {} /\ \A j \in 1..raised - 1 : item[j] = "ok"
  <2>1. Ended /\ failures # {} /\ raised = Min(failures)
    BY <1>2 DEF GatherInv, RaisedLast
  <2>2. failures \in SUBSET Nat /\ bad \in SUBSET Nat /\ failures \subseteq bad
    BY ItemFacts DEF GatherInv, GatherTypes, FailuresAreTrue
  <2>3. raised \in failures /\ \A j \in failures : raised <= j
    BY <2>1, <2>2, MinIsLeast
  <2>4. ASSUME NEW j \in 1..raised - 1
        PROVE  item[j] = "ok" /\ j \notin bad
    <3>1. raised \in Items /\ raised \in Nat /\ j \in Items /\ j \in Nat /\ j < raised
      BY <2>2, <2>3, GatherAssumption DEF GatherInv, GatherTypes, Items
    <3>2. j \notin failures /\ \A k \in failures : ~ (k < j)
      BY <2>2, <2>3, <3>1
    <3>3. item[j] \notin {"run", "wait", "failed", "skipped", "cancelled"}
      BY <1>2, <2>1, <3>1, <3>2 DEF Ended, GatherInv, FailuresAreTrue
    <3>4. item[j] = "ok"
      BY <3>1, <3>3 DEF GatherInv, GatherTypes, States
    <3> QED  BY <3>1, <3>4 DEF GatherInv, FailuresAreTrue
  <2>5. ASSUME NEW b \in bad
        PROVE  raised <= b
    <3>1. b \in Nat /\ b >= 1 /\ raised \in Nat
      BY <2>2, <2>3, GatherAssumption DEF GatherInv, GatherTypes, Items
    <3>2. b \notin 1..raised - 1
      BY <2>4
    <3> QED  BY <3>1, <3>2
  <2>6. raised = Min(bad)
    BY <2>2, <2>3, <2>5, MinIs
  <2>7. Running = {}
    BY <2>1 DEF Ended, Running
  <2> QED  BY <2>4, <2>6, <2>7
<1> QED  BY <1>1, <1>2 DEF GatherInv, FewRun, Ended, GatherIsSerial

(***************************************************************************)
(* Sequential readahead: the windows and the reads over them.              *)
(***************************************************************************)
WindowType == [start : Nat, end : Nat, data : {Loading, Bytes, Lost}]
StreamType == [next : Nat, hits : Int, window : Int, windows : Seq(Nat), used : Nat]
ReadPcs == {"idle", "fetch", "parts", "direct", "done"}
ReadType == [pc : ReadPcs, offset : Nat, end : Nat,
             parts : Seq(Nat), fetch : Nat, got : Seq(Nat)]

\* The n offsets from o.
Piece(o, n) == [k \in 1..n |-> o + k - 1]

\* Windows side by side, and so in the order of their bytes.
Chained(ws, q) ==
    /\ q \in Seq(Nat) /\ \A k \in DOMAIN q : q[k] \in DOMAIN ws
    /\ \A j, k \in DOMAIN q : /\ k = j + 1 => ws[q[k]].start = ws[q[j]].end
                              /\ j < k => ws[q[j]].end <= ws[q[k]].start

WindowsAre ==
    /\ win \in Seq(WindowType) /\ (\A w \in DOMAIN win : win[w].start < win[w].end)
    /\ tick \in Nat /\ loading \subseteq DOMAIN win
StreamsAre == streams \in Seq(StreamType) /\ \A i \in DOMAIN streams : Chained(win, streams[i].windows)

\* The parts left cover what is left of the read, from where it has got.
PartsFit(a, ws) ==
    /\ Chained(ws, a.parts) /\ a.got = Piece(a.offset, Len(a.got))
    /\ a.parts # <<>> =>
          /\ ws[a.parts[Len(a.parts)]].end >= a.end
          /\ \A k \in DOMAIN a.parts : ws[a.parts[k]].end > a.offset /\ ws[a.parts[k]].start < a.end
          /\ (a.got = <<>> /\ ws[a.parts[1]].start <= a.offset) \/ ws[a.parts[1]].start = a.offset + Len(a.got)
ReadFits(a, ws) ==
    /\ a.offset <= a.end
    /\ a.pc = "fetch" => a.fetch \in DOMAIN ws
    /\ a.pc = "parts" => a.parts # <<>>
    /\ a.pc \in {"fetch", "parts"} => PartsFit(a, ws)
    /\ a.pc = "done" => a.got = Piece(a.offset, a.end - a.offset)
ReadsAre == ahead \in [AheadReaders -> ReadType] /\ \A r \in AheadReaders : ReadFits(ahead[r], win)

\* A window is fetched by one read, as long as that read is at it.
Fetching ==
    /\ \A w \in DOMAIN win : win[w].data = Loading => \E r \in AheadReaders : ahead[r].pc = "fetch" /\ ahead[r].fetch = w
    /\ \A r \in AheadReaders : ahead[r].pc = "fetch" => win[ahead[r].fetch].data = Loading
    /\ \A r, q \in AheadReaders : (ahead[r].pc = "fetch" /\ ahead[q].pc = "fetch" /\ ahead[r].fetch = ahead[q].fetch) => r = q
HeldFits == IsFiniteSet(HeldBytes(streams, win, loading)) /\ Held(streams, win, loading) <= MaxBytes
AheadInv == WindowsAre /\ StreamsAre /\ ReadsAre /\ Fetching /\ HeldFits

\* Of two or three numbers.
LEMMA LeastOfTwo ==
  ASSUME NEW a \in Int, NEW b \in Int
  PROVE  Min({a, b}) \in {a, b} /\ Min({a, b}) <= a /\ Min({a, b}) <= b
<1>1. CASE a <= b
  <2>1. a \in {a, b} /\ \A y \in {a, b} : a <= y
    BY <1>1
  <2>2. Min({a, b}) \in {a, b} /\ \A y \in {a, b} : Min({a, b}) <= y
    BY <2>1 DEF Min
  <2> QED  BY <2>2
<1>2. CASE b <= a
  <2>1. b \in {a, b} /\ \A y \in {a, b} : b <= y
    BY <1>2
  <2>2. Min({a, b}) \in {a, b} /\ \A y \in {a, b} : Min({a, b}) <= y
    BY <2>1 DEF Min
  <2> QED  BY <2>2
<1> QED  BY <1>1, <1>2

LEMMA MostOfTwo ==
  ASSUME NEW a \in Int, NEW b \in Int
  PROVE  Max({a, b}) \in {a, b} /\ Max({a, b}) >= a /\ Max({a, b}) >= b
<1>1. CASE a >= b
  <2>1. a \in {a, b} /\ \A y \in {a, b} : a >= y
    BY <1>1
  <2>2. Max({a, b}) \in {a, b} /\ \A y \in {a, b} : Max({a, b}) >= y
    BY <2>1 DEF Max
  <2> QED  BY <2>2
<1>2. CASE b >= a
  <2>1. b \in {a, b} /\ \A y \in {a, b} : b >= y
    BY <1>2
  <2>2. Max({a, b}) \in {a, b} /\ \A y \in {a, b} : Max({a, b}) >= y
    BY <2>1 DEF Max
  <2> QED  BY <2>2
<1> QED  BY <1>1, <1>2

LEMMA LeastOfThree ==
  ASSUME NEW a \in Int, NEW b \in Int, NEW c \in Int
  PROVE  Min({a, b, c}) \in Int /\ Min({a, b, c}) <= a /\ Min({a, b, c}) <= b /\ Min({a, b, c}) <= c
<1>1. \E x \in {a, b, c} : \A y \in {a, b, c} : x <= y
  <2>1. CASE a <= b /\ a <= c
    BY <2>1
  <2>2. CASE b <= a /\ b <= c
    BY <2>2
  <2>3. CASE c <= a /\ c <= b
    BY <2>3
  <2> QED  BY <2>1, <2>2, <2>3
<1>2. Min({a, b, c}) \in {a, b, c} /\ \A y \in {a, b, c} : Min({a, b, c}) <= y
  BY <1>1 DEF Min
<1> QED  BY <1>2

\* The greatest of some numbers up to n.
LEMMA MaxIsMost ==
  ASSUME NEW n \in Nat, NEW S \in SUBSET (1..n), S # {}
  PROVE  Max(S) \in S /\ \A y \in S : y <= Max(S)
<1> DEFINE R == {n - x : x \in S}
<1>0. \A x \in S : x \in Int /\ n - x \in Nat
  OBVIOUS
<1>1. R \in SUBSET Nat /\ R # {}
  BY <1>0
<1>2. PICK m \in R : \A y \in R : m <= y
  BY <1>1, LeastNat, Zenon
<1>3. PICK x \in S : m = n - x
  BY <1>2
<1>4. \A y \in S : x >= y
  <2> TAKE y \in S
  <2>1. n - y \in R
    OBVIOUS
  <2> QED  BY <1>0, <1>2, <1>3, <2>1
<1>5. Max(S) \in S /\ \A y \in S : Max(S) >= y
  BY <1>4 DEF Max
<1> QED  BY <1>5

LEMMA RemovedAt ==
  ASSUME NEW S, NEW s \in Seq(S), NEW h \in DOMAIN s
  PROVE  /\ RemoveAt(s, h) \in Seq(S)
         /\ \A n \in DOMAIN RemoveAt(s, h) : \E p \in DOMAIN s : RemoveAt(s, h)[n] = s[p]
<1> DEFINE L == Len(s)
           a == SubSeq(s, 1, h - 1)
           b == SubSeq(s, h + 1, L)
<1>1. L \in Nat /\ h \in Nat /\ 1 <= h /\ h <= L /\ DOMAIN s = 1..L /\ \A n \in 1..L : s[n] \in S
  OBVIOUS
<1>2. /\ a \in Seq(S) /\ Len(a) = h - 1 /\ (\A n \in 1..h - 1 : a[n] = s[n])
      /\ b \in Seq(S) /\ Len(b) = L - h /\ (\A n \in 1..L - h : b[n] = s[h + n])
  BY <1>1, SMTT(30)
<1>3. RemoveAt(s, h) = a \o b
  BY DEF RemoveAt
<1> HIDE DEF a, b, L
<1>4. a \o b \in Seq(S) /\ Len(a \o b) = Len(a) + Len(b)
      /\ \A n \in 1..Len(a) + Len(b) : (a \o b)[n] = IF n <= Len(a) THEN a[n] ELSE b[n - Len(a)]
  BY <1>2, ConcatProperties
<1>5. ASSUME NEW n \in DOMAIN (a \o b)
      PROVE  \E p \in DOMAIN s : (a \o b)[n] = s[p]
  <2>1. DOMAIN (a \o b) = 1..Len(a \o b)
    BY <1>4
  <2>2. n \in 1..Len(a) + Len(b) /\ n \in Nat /\ 1 <= n /\ n <= L - 1
    BY <1>1, <1>2, <1>4, <2>1
  <2>3. CASE n <= Len(a)
    <3>1. n \in 1..h - 1 /\ n \in 1..L /\ (a \o b)[n] = a[n]
      BY <1>1, <1>2, <1>4, <2>2, <2>3
    <3> QED  BY <1>1, <1>2, <3>1
  <2>4. CASE ~ (n <= Len(a))
    <3>1. (a \o b)[n] = b[n - Len(a)]
      BY <1>4, <2>2, <2>4
    <3>2. n - Len(a) \in 1..L - h /\ h + (n - Len(a)) \in 1..L
      <4>1. Len(a) = h - 1 /\ n > h - 1
        BY <1>1, <1>2, <2>2, <2>4
      <4> QED  BY <1>1, <2>2, <4>1
    <3>3. b[n - Len(a)] = s[h + (n - Len(a))]
      BY <1>2, <3>2
    <3> QED  BY <1>1, <3>1, <3>2, <3>3
  <2> QED  BY <2>3, <2>4
<1> QED  BY <1>3, <1>4, <1>5

\* Windows that are kept: more may follow, and their data may change.
Extends(ws, more) ==
    /\ DOMAIN ws \subseteq DOMAIN more
    /\ \A w \in DOMAIN ws : more[w].start = ws[w].start /\ more[w].end = ws[w].end

LEMMA ChainKept ==
  ASSUME NEW ws, NEW more, NEW q, Extends(ws, more), Chained(ws, q)
  PROVE  Chained(more, q)
  BY DEF Extends, Chained

\* A slice of a chain.
LEMMA SubChain ==
  ASSUME NEW ws, NEW q, Chained(ws, q), NEW m \in Nat, NEW n \in Int, 1 <= m, n <= Len(q)
  PROVE  /\ Chained(ws, SubSeq(q, m, n)) /\ Range(SubSeq(q, m, n)) \subseteq Range(q)
         /\ Len(SubSeq(q, m, n)) = IF m <= n THEN n - m + 1 ELSE 0
         /\ DOMAIN SubSeq(q, m, n) = 1..n - m + 1
         /\ \A k \in 1..n - m + 1 : SubSeq(q, m, n)[k] = q[m + k - 1] /\ m + k - 1 \in DOMAIN q
<1> DEFINE t == SubSeq(q, m, n)
<1>1. q \in Seq(Nat) /\ DOMAIN q = 1..Len(q) /\ Len(q) \in Nat
  BY DEF Chained
<1>2. \A i \in m..n : q[i] \in Nat
  BY <1>1
<1>3. t \in Seq(Nat) /\ Len(t) = (IF m <= n THEN n - m + 1 ELSE 0) /\ \A i \in 1..n - m + 1 : t[i] = q[m + i - 1]
  BY <1>2, SubSeqProperties
<1>4. DOMAIN t = 1..n - m + 1
  <2>1. DOMAIN t = 1..Len(t)
    BY <1>3
  <2> QED  BY <1>3, <2>1
<1> HIDE DEF t
<1>5. \A k \in 1..n - m + 1 : m + k - 1 \in DOMAIN q
  BY <1>1
<1>6. ASSUME NEW j \in DOMAIN t, NEW k \in DOMAIN t
      PROVE  /\ k = j + 1 => ws[t[k]].start = ws[t[j]].end
             /\ j < k => ws[t[j]].end <= ws[t[k]].start
  <2>1. m + j - 1 \in DOMAIN q /\ m + k - 1 \in DOMAIN q /\ t[j] = q[m + j - 1] /\ t[k] = q[m + k - 1]
    BY <1>3, <1>4, <1>5
  <2>2. j \in Int /\ k \in Int
    BY <1>4
  <2>3. (k = j + 1 => m + k - 1 = (m + j - 1) + 1) /\ (j < k => m + j - 1 < m + k - 1)
    BY <2>2
  <2> QED  BY <2>1, <2>3 DEF Chained
<1>7. \A k \in DOMAIN t : t[k] \in DOMAIN ws /\ t[k] \in Range(q)
  BY <1>3, <1>4, <1>5 DEF Chained, Range
<1>8. Chained(ws, t)
  BY <1>3, <1>6, <1>7 DEF Chained
<1>9. Range(t) \subseteq Range(q)
  BY <1>7 DEF Range
<1> QED  BY <1>3, <1>4, <1>5, <1>8, <1>9 DEF t

\* A window that begins where the last one ends.
LEMMA ChainGrows ==
  ASSUME NEW ws, NEW q, Chained(ws, q), NEW w \in DOMAIN ws \cap Nat,
         \A k \in DOMAIN q : ws[q[k]].start \in Int /\ ws[q[k]].end \in Int /\ ws[q[k]].start < ws[q[k]].end,
         q # <<>> => ws[w].start = ws[q[Len(q)]].end
  PROVE  Chained(ws, Append(q, w)) /\ Range(Append(q, w)) = Range(q) \union {w}
<1> DEFINE t == Append(q, w)
           L == Len(q)
<1>1. q \in Seq(Nat) /\ w \in Nat /\ DOMAIN q = 1..L /\ L \in Nat
  BY DEF Chained
<1>2. t \in Seq(Nat) /\ DOMAIN t = 1..L + 1 /\ (\A k \in 1..L : t[k] = q[k]) /\ t[L + 1] = w
  BY <1>1, AppendProperties
<1> HIDE DEF t, L
<1>3. ASSUME NEW k \in 1..L
      PROVE  ws[q[k]].end <= ws[w].start /\ (k = L => ws[q[k]].end = ws[w].start)
  <2>1. L \in 1..L /\ k \in DOMAIN q /\ L \in DOMAIN q /\ q # <<>>
    BY <1>1
  <2>2. ws[w].start = ws[q[L]].end
    BY <2>1 DEF L
  <2>3. CASE k = L
    BY <2>1, <2>2, <2>3
  <2>4. CASE k # L
    <3>1. k < L
      BY <1>1, <2>4
    <3>2. ws[q[k]].end <= ws[q[L]].start
      BY <2>1, <3>1 DEF Chained
    <3> QED  BY <2>1, <2>2, <2>4, <3>2
  <2> QED  BY <2>3, <2>4
<1>4. ASSUME NEW j \in DOMAIN t, NEW k \in DOMAIN t
      PROVE  /\ k = j + 1 => ws[t[k]].start = ws[t[j]].end
             /\ j < k => ws[t[j]].end <= ws[t[k]].start
  <2>1. j \in Int /\ k \in Int /\ (j \in 1..L \/ j = L + 1) /\ (k \in 1..L \/ k = L + 1)
    BY <1>1, <1>2
  <2>2. CASE k \in 1..L
    <3>1. CASE j \in 1..L
      <4>1. t[j] = q[j] /\ t[k] = q[k] /\ j \in DOMAIN q /\ k \in DOMAIN q
        BY <1>1, <1>2, <2>2, <3>1
      <4> QED  BY <4>1 DEF Chained
    <3>2. CASE j = L + 1
      BY <1>1, <2>2, <3>2
    <3> QED  BY <2>1, <3>1, <3>2
  <2>3. CASE k = L + 1
    <3>1. CASE j \in 1..L
      <4>1. t[j] = q[j] /\ t[k] = w /\ (k = j + 1 => j = L)
        BY <1>1, <1>2, <2>3, <3>1
      <4> QED  BY <1>3, <3>1, <4>1
    <3>2. CASE j = L + 1
      BY <1>1, <2>3, <3>2
    <3> QED  BY <2>1, <3>1, <3>2
  <2> QED  BY <2>1, <2>2, <2>3
<1>5. \A k \in DOMAIN t : t[k] \in DOMAIN ws
  BY <1>1, <1>2 DEF Chained
<1>6. Range(t) = Range(q) \union {w}
  BY <1>1, <1>2 DEF Range
<1> QED  BY <1>2, <1>4, <1>5, <1>6 DEF Chained, t

\* Streams whose windows are among those there were.
From(strs) ==
    /\ strs \in Seq(StreamType)
    /\ \A i \in DOMAIN strs : Chained(win, strs[i].windows) /\ Range(strs[i].windows) \subseteq Windows(streams, loading)

LEMMA TheirOwn ==
  ASSUME StreamsAre
  PROVE  From(streams)
  BY DEF StreamsAre, From, Windows

LEMMA OldestIsOne ==
  ASSUME StreamsAre, Len(streams) >= MaxStreams, \A i \in DOMAIN streams : streams[i].used \in Nat
  PROVE  \E i \in DOMAIN streams : \A j \in DOMAIN streams : streams[i].used <= streams[j].used
<1> DEFINE U == {streams[i].used : i \in DOMAIN streams}
<1>1. Len(streams) \in Nat /\ DOMAIN streams = 1..Len(streams) /\ MaxStreams \in Nat \ {0}
  BY AheadAssumption DEF StreamsAre
<1>2. 1 \in DOMAIN streams
  BY <1>1
<1>3. U \in SUBSET Nat /\ U # {}
  BY <1>2
<1>4. PICK u \in U : \A y \in U : u <= y
  BY <1>3, LeastNat, Zenon
<1>5. PICK i \in DOMAIN streams : u = streams[i].used
  BY <1>4
<1> QED  BY <1>4, <1>5

\* The stream a read belongs to is one there is, or a new one.
LEMMA NewStreams ==
  ASSUME StreamsAre, NEW offset \in Nat
  PROVE  From(WithStream(offset).all) /\ WithStream(offset).at \in DOMAIN WithStream(offset).all
<1> DEFINE fresh == [next |-> offset, hits |-> 0, window |-> FirstWindow, windows |-> <<>>, used |-> 0]
           oldest == CHOOSE i \in DOMAIN streams : \A j \in DOMAIN streams : streams[i].used <= streams[j].used
           rest == IF Len(streams) >= MaxStreams THEN RemoveAt(streams, oldest) ELSE streams
<1>1. streams \in Seq(StreamType) /\ DOMAIN streams = 1..Len(streams) /\ Len(streams) \in Nat
      /\ \A i \in DOMAIN streams : streams[i] \in StreamType
  BY DEF StreamsAre
<1>2. Follows(offset) \in SUBSET Nat /\ FallsIn(offset) \in SUBSET Nat
      /\ Follows(offset) \subseteq DOMAIN streams /\ FallsIn(offset) \subseteq DOMAIN streams
  BY <1>1 DEF Follows, FallsIn
<1>3. CASE Follows(offset) # {}
  <2>1. WithStream(offset) = [all |-> streams, at |-> Min(Follows(offset))]
    BY <1>3 DEF WithStream
  <2>2. Min(Follows(offset)) \in Follows(offset)
    BY <1>2, <1>3, MinIsLeast
  <2> QED  BY <1>2, <2>1, <2>2, TheirOwn
<1>4. CASE Follows(offset) = {} /\ FallsIn(offset) # {}
  <2>1. WithStream(offset) = [all |-> streams, at |-> Min(FallsIn(offset))]
    BY <1>4 DEF WithStream
  <2>2. Min(FallsIn(offset)) \in FallsIn(offset)
    BY <1>2, <1>4, MinIsLeast
  <2> QED  BY <1>2, <2>1, <2>2, TheirOwn
<1>5. CASE Follows(offset) = {} /\ FallsIn(offset) = {}
  <2>1. WithStream(offset) = [all |-> Append(rest, fresh), at |-> Len(rest) + 1]
    BY <1>5 DEF WithStream
  <2>2. fresh \in StreamType
    BY AheadAssumption DEF StreamType
  <2>3. rest \in Seq(StreamType) /\ \A n \in DOMAIN rest : \E p \in DOMAIN streams : rest[n] = streams[p]
    <3>1. CASE Len(streams) >= MaxStreams
      <4>0. \A i \in DOMAIN streams : streams[i].used \in Nat
        BY <1>1 DEF StreamType
      <4>1. oldest \in DOMAIN streams
        <5>1. \E i \in DOMAIN streams : \A j \in DOMAIN streams : streams[i].used <= streams[j].used
          BY <3>1, <4>0, OldestIsOne
        <5> QED  BY <5>1, Zenon
      <4> HIDE DEF oldest
      <4>2. RemoveAt(streams, oldest) \in Seq(StreamType)
            /\ \A n \in DOMAIN RemoveAt(streams, oldest) : \E p \in DOMAIN streams : RemoveAt(streams, oldest)[n] = streams[p]
        BY <1>1, <4>1, RemovedAt, ZenonT(60)
      <4> QED  BY <3>1, <4>2
    <3>2. CASE ~ (Len(streams) >= MaxStreams)
      BY <1>1, <3>2
    <3> QED  BY <3>1, <3>2
  <2> HIDE DEF rest, fresh
  <2>4. /\ Append(rest, fresh) \in Seq(StreamType) /\ Len(Append(rest, fresh)) = Len(rest) + 1
        /\ (\A i \in 1..Len(rest) : Append(rest, fresh)[i] = rest[i]) /\ Append(rest, fresh)[Len(rest) + 1] = fresh
        /\ Len(rest) \in Nat /\ DOMAIN rest = 1..Len(rest) /\ DOMAIN Append(rest, fresh) = 1..Len(rest) + 1
    BY <2>2, <2>3, AppendProperties
  <2>5. Chained(win, fresh.windows) /\ Range(fresh.windows) = {}
    BY DEF fresh, Chained, Range
  <2>6. ASSUME NEW i \in DOMAIN Append(rest, fresh)
        PROVE  /\ Chained(win, Append(rest, fresh)[i].windows)
               /\ Range(Append(rest, fresh)[i].windows) \subseteq Windows(streams, loading)
    <3>1. CASE i \in 1..Len(rest)
      <4>1. PICK p \in DOMAIN streams : Append(rest, fresh)[i] = streams[p]
        BY <2>3, <2>4, <3>1
      <4> QED  BY <4>1, TheirOwn DEF From
    <3>2. CASE i = Len(rest) + 1
      BY <2>4, <2>5, <3>2
    <3> QED  BY <2>4, <3>1, <3>2
  <2>7. Len(rest) + 1 \in DOMAIN Append(rest, fresh)
    BY <2>4
  <2> QED  BY <2>1, <2>4, <2>6, <2>7 DEF From
<1> QED  BY <1>3, <1>4, <1>5

\* A stream drops the windows read past, at its start.
LEMMA AdvancedIs ==
  ASSUME WindowsAre, NEW s \in StreamType, Chained(win, s.windows), NEW offset \in Nat, NEW end \in Nat
  PROVE  /\ Advanced(s, offset, end) \in StreamType
         /\ Chained(win, Advanced(s, offset, end).windows)
         /\ Range(Advanced(s, offset, end).windows) \subseteq Range(s.windows)
<1> DEFINE q == s.windows
           gone == {k \in DOMAIN q : win[q[k]].end <= offset}
           past == Cardinality(gone)
           most == Min({4 * (end - offset), MaxWindow})
           grown == Max({s.window, most})
           window == IF past = 0 THEN grown ELSE Min({grown * 2^past, MaxWindow})
           next == Max({s.next, end})
           hits == IF s.next = offset THEN s.hits + 1 ELSE s.hits
<1>1. q \in Seq(Nat) /\ DOMAIN q = 1..Len(q) /\ Len(q) \in Nat /\ s.window \in Int /\ s.next \in Nat /\ s.hits \in Int /\ MaxWindow \in Int
  BY AheadAssumption DEF StreamType
<1>2. past \in Nat /\ past <= Len(q)
  <2>1. IsFiniteSet(1..Len(q)) /\ Cardinality(1..Len(q)) = Len(q)
    <3>1. 1 \in Int /\ Len(q) \in Int
      BY <1>1
    <3>2. IsFiniteSet(1..Len(q)) /\ Cardinality(1..Len(q)) = IF 1 > Len(q) THEN 0 ELSE Len(q) - 1 + 1
      BY <3>1, FS_Interval
    <3>3. (IF 1 > Len(q) THEN 0 ELSE Len(q) - 1 + 1) = Len(q)
      BY <1>1
    <3> QED  BY <3>2, <3>3
  <2>2. gone \in SUBSET (1..Len(q))
    BY <1>1
  <2> HIDE DEF gone
  <2> QED  BY <2>1, <2>2, FS_Subset, FS_CardinalityType
<1>3. most \in Int
  <2>1. 4 * (end - offset) \in Int
    OBVIOUS
  <2>2. most \in {4 * (end - offset), MaxWindow}
    BY <1>1, <2>1, LeastOfTwo
  <2> QED  BY <1>1, <2>1, <2>2
<1>4. grown \in Int
  <2> HIDE DEF most
  <2> QED  BY <1>1, <1>3, MostOfTwo
<1>5. window \in Int
  <2> HIDE DEF grown, past
  <2>1. 2^past \in Int
    BY <1>2
  <2>2. grown * 2^past \in Int
    BY <1>4, <2>1
  <2>3. Min({grown * 2^past, MaxWindow}) \in {grown * 2^past, MaxWindow}
    BY <1>1, <2>2, LeastOfTwo
  <2> QED  BY <1>1, <1>4, <2>2, <2>3 DEF window
<1>6. next \in Nat
  <2>1. end \in Int /\ s.next \in Int
    BY <1>1
  <2>2. next \in {s.next, end}
    BY <1>1, <2>1, MostOfTwo
  <2> QED  BY <1>1, <2>1, <2>2
<1>7. hits \in Int
  BY <1>1
<1>8. Advanced(s, offset, end) = [s EXCEPT !.used = tick + 1, !.hits = hits, !.next = next,
                                     !.windows = SubSeq(q, past + 1, Len(q)), !.window = window]
  BY DEF Advanced
<1> HIDE DEF past, window, next, hits
<1>9. /\ Chained(win, SubSeq(q, past + 1, Len(q))) /\ Range(SubSeq(q, past + 1, Len(q))) \subseteq Range(q)
  BY <1>1, <1>2, SubChain
<1>10. SubSeq(q, past + 1, Len(q)) \in Seq(Nat)
  BY <1>9 DEF Chained
<1>11. tick + 1 \in Nat
  BY DEF WindowsAre
<1>12. Advanced(s, offset, end) \in StreamType /\ Advanced(s, offset, end).windows = SubSeq(q, past + 1, Len(q))
  BY <1>5, <1>6, <1>7, <1>8, <1>10, <1>11 DEF StreamType
<1> QED  BY <1>9, <1>12

\* The windows that meet a range and cover it together.
LEMMA CoveringFits ==
  ASSUME NEW s, NEW ws, Chained(ws, s.windows), NEW offset \in Nat, NEW end \in Nat, offset <= end,
         \A w \in DOMAIN ws : ws[w].start \in Nat /\ ws[w].end \in Nat /\ ws[w].start < ws[w].end,
         NEW a, a.parts = Covering(s, ws, offset, end), a.got = <<>>, a.offset = offset, a.end = end
  PROVE  PartsFit(a, ws)
<1> DEFINE q == s.windows
           meets == Meeting(q, ws, offset, end)
<1>1. q \in Seq(Nat) /\ DOMAIN q = 1..Len(q) /\ Len(q) \in Nat /\ \A k \in DOMAIN q : q[k] \in DOMAIN ws
  BY DEF Chained
<1>2. a.got = Piece(a.offset, Len(a.got))
  BY DEF Piece
<1>3. CASE a.parts = <<>>
  BY <1>2, <1>3 DEF PartsFit, Chained
<1>4. CASE a.parts # <<>>
  <2>1. meets # {} /\ ~ (ws[q[Min(meets)]].start > offset) /\ ~ (ws[q[Max(meets)]].end < end)
        /\ a.parts = SubSeq(q, Min(meets), Max(meets))
    BY <1>4 DEF Covering
  <2>2. meets \in SUBSET (1..Len(q)) /\ meets \in SUBSET Nat
    BY <1>1 DEF Meeting
  <2> DEFINE lo == Min(meets)
             hi == Max(meets)
  <2>3. lo \in meets /\ hi \in meets
    <3> HIDE DEF meets
    <3> QED  BY <1>1, <2>1, <2>2, MinIsLeast, MaxIsMost
  <2>4. lo <= hi
    <3> HIDE DEF meets
    <3> QED  BY <2>1, <2>2, <2>3, MinIsLeast
  <2>5. /\ lo \in DOMAIN q /\ hi \in DOMAIN q /\ lo \in 1..Len(q) /\ hi \in 1..Len(q)
        /\ ws[q[lo]].end > offset /\ ws[q[hi]].start < end
    BY <1>1, <2>3 DEF Meeting
  <2>6. a.parts = SubSeq(q, lo, hi) /\ ~ (ws[q[lo]].start > offset) /\ ~ (ws[q[hi]].end < end)
    BY <2>1
  <2> HIDE DEF lo, hi, meets, q
  <2>7. ws[q[lo]].start <= offset /\ ws[q[hi]].end >= end
    <3>1. ws[q[lo]].start \in Nat /\ ws[q[hi]].end \in Nat
      BY <1>1, <2>5
    <3> QED  BY <2>6, <3>1
  <2>8. lo \in Nat /\ hi \in Nat /\ 1 <= lo /\ hi <= Len(q)
    BY <1>1, <2>5
  <2>9. /\ Chained(ws, a.parts) /\ Len(a.parts) = hi - lo + 1 /\ DOMAIN a.parts = 1..hi - lo + 1
        /\ \A k \in 1..hi - lo + 1 : a.parts[k] = q[lo + k - 1] /\ lo + k - 1 \in DOMAIN q
    <3>1. Chained(ws, q)
      BY DEF q
    <3> QED  BY <2>4, <2>6, <2>8, <3>1, SubChain
  <2>10. a.parts[1] = q[lo] /\ a.parts[Len(a.parts)] = q[hi]
    <3>1. 1 \in 1..hi - lo + 1 /\ hi - lo + 1 \in 1..hi - lo + 1 /\ lo + 1 - 1 = lo /\ lo + (hi - lo + 1) - 1 = hi
      BY <2>4, <2>8
    <3> QED  BY <2>9, <3>1
  <2>11. ASSUME NEW k \in DOMAIN a.parts
         PROVE  ws[a.parts[k]].end > offset /\ ws[a.parts[k]].start < end
    <3> DEFINE n == lo + k - 1
    <3>1. n \in DOMAIN q /\ a.parts[k] = q[n] /\ lo <= n /\ n <= hi /\ n \in Int
      BY <2>8, <2>9
    <3> HIDE DEF n
    <3>2. /\ ws[q[n]].start \in Nat /\ ws[q[n]].end \in Nat /\ ws[q[n]].start < ws[q[n]].end
          /\ ws[q[lo]].end \in Nat /\ ws[q[hi]].start \in Nat
      BY <1>1, <2>5, <3>1
    <3>3. ws[q[n]].end > offset
      <4>1. CASE n = lo
        BY <2>5, <4>1
      <4>2. CASE n # lo
        <5>1. ws[q[lo]].end <= ws[q[n]].start
          <6>1. lo < n
            BY <2>8, <3>1, <4>2
          <6> QED  BY <2>5, <3>1, <6>1 DEF Chained, q
        <5> QED  BY <2>5, <3>2, <5>1, SMTT(30)
      <4> QED  BY <4>1, <4>2
    <3>4. ws[q[n]].start < end
      <4>1. CASE n = hi
        BY <2>5, <4>1
      <4>2. CASE n # hi
        <5>1. ws[q[n]].end <= ws[q[hi]].start
          <6>1. n < hi
            BY <2>8, <3>1, <4>2
          <6> QED  BY <2>5, <3>1, <6>1 DEF Chained, q
        <5> QED  BY <2>5, <3>2, <5>1
      <4> QED  BY <4>1, <4>2
    <3> QED  BY <3>1, <3>3, <3>4
  <2> QED  BY <1>2, <2>7, <2>9, <2>10, <2>11 DEF PartsFit
<1> QED  BY <1>3, <1>4

LEMMA InWindows ==
  ASSUME NEW strs, NEW load, NEW v
  PROVE  v \in Windows(strs, load) <=> v \in load \/ \E i \in DOMAIN strs : v \in Range(strs[i].windows)
<1> DEFINE S == {Range(strs[i].windows) : i \in DOMAIN strs}
<1>1. Windows(strs, load) = load \union UNION S
  BY DEF Windows
<1>2. v \in UNION S <=> \E i \in DOMAIN strs : v \in Range(strs[i].windows)
  <2>1. v \in UNION S <=> \E R \in S : v \in R
    OBVIOUS
  <2>2. \A R : R \in S <=> \E i \in DOMAIN strs : R = Range(strs[i].windows)
    BY Zenon
  <2> HIDE DEF S
  <2> QED  BY <2>1, <2>2, Zenon
<1> HIDE DEF S
<1> QED  BY <1>1, <1>2

\* Fewer windows, or windows that are lost, hold less.
LEMMA HoldsLess ==
  ASSUME HeldFits, NEW strs, NEW ws, NEW load,
         Windows(strs, load) \subseteq Windows(streams, loading),
         \A w \in Windows(strs, load) : /\ ws[w].start = win[w].start /\ ws[w].end = win[w].end
                                        /\ win[w].data = Lost => ws[w].data = Lost
  PROVE  IsFiniteSet(HeldBytes(strs, ws, load)) /\ Held(strs, ws, load) <= MaxBytes /\ Held(strs, ws, load) \in Nat
<1>1. HeldBytes(strs, ws, load) \in SUBSET HeldBytes(streams, win, loading)
  <2>1. ASSUME NEW w \in Windows(strs, load), ws[w].data # Lost
        PROVE  w \in Windows(streams, loading) /\ win[w].data # Lost /\ ws[w].start..ws[w].end - 1 = win[w].start..win[w].end - 1
    BY <2>1
  <2> QED  BY <2>1 DEF HeldBytes
<1>2. IsFiniteSet(HeldBytes(strs, ws, load)) /\ Held(strs, ws, load) <= Held(streams, win, loading)
  BY <1>1, FS_Subset DEF HeldFits, Held
<1>3. Held(strs, ws, load) \in Nat /\ Held(streams, win, loading) \in Nat
  BY <1>2, FS_CardinalityType DEF HeldFits, Held
<1> QED  BY <1>2, <1>3, AheadAssumption DEF HeldFits

LEMMA FromHoldsLess ==
  ASSUME HeldFits, NEW strs, From(strs)
  PROVE  IsFiniteSet(HeldBytes(strs, win, loading)) /\ Held(strs, win, loading) <= MaxBytes /\ Held(strs, win, loading) \in Nat
<1>1. Windows(strs, loading) \subseteq Windows(streams, loading)
  BY DEF From, Windows
<1> QED  BY <1>1, HoldsLess

\* A window more holds what it is long.
LEMMA HoldsMore ==
  ASSUME WindowsAre, HeldFits, NEW strs, From(strs), StreamsAre, NEW new \in WindowType, new.start < new.end,
         new.end - new.start <= MaxBytes - Held(strs, win, loading),
         NEW more, NEW load, Windows(more, load) \subseteq Windows(strs, loading) \union {Len(win) + 1}
  PROVE  IsFiniteSet(HeldBytes(more, Append(win, new), load)) /\ Held(more, Append(win, new), load) <= MaxBytes
<1> DEFINE w == Len(win) + 1
           ws == Append(win, new)
           A == HeldBytes(strs, win, loading)
           I == new.start..new.end - 1
           B == {w} \X I
<1>1. IsFiniteSet(A) /\ Cardinality(A) \in Nat /\ new.end - new.start <= MaxBytes - Cardinality(A)
  BY FromHoldsLess DEF Held
<1>2. /\ Len(win) \in Nat /\ DOMAIN win = 1..Len(win) /\ new.start \in Int /\ new.end \in Int
      /\ (\A k \in 1..Len(win) : ws[k] = win[k]) /\ ws[w] = new
  BY AppendProperties DEF WindowsAre, WindowType
<1> HIDE DEF w, ws, A
<1>3. IsFiniteSet(I) /\ Cardinality(I) = new.end - new.start
  <2>1. new.end - 1 \in Int /\ new.start <= new.end - 1 /\ (new.end - 1) - new.start + 1 = new.end - new.start
    BY <1>2
  <2>2. IsFiniteSet(new.start..new.end - 1)
        /\ Cardinality(new.start..new.end - 1) = IF new.start > new.end - 1 THEN 0 ELSE (new.end - 1) - new.start + 1
    BY <1>2, <2>1, FS_Interval
  <2>3. ~ (new.start > new.end - 1)
    BY <1>2, <2>1
  <2> QED  BY <2>1, <2>2, <2>3 DEF I
<1> HIDE DEF I
<1>4. IsFiniteSet(B) /\ Cardinality(B) = Cardinality(I)
  <2>1. IsFiniteSet({w}) /\ Cardinality({w}) = 1
    BY FS_Singleton
  <2>2. IsFiniteSet(B) /\ Cardinality(B) = Cardinality({w}) * Cardinality(I)
    BY <1>3, <2>1, FS_Product
  <2>3. Cardinality(I) \in Int
    BY <1>2, <1>3
  <2>4. 1 * Cardinality(I) = Cardinality(I)
    BY <2>3
  <2> QED  BY <2>1, <2>2, <2>4
<1>5. HeldBytes(more, ws, load) \subseteq A \union B
  <2>1. ASSUME NEW v \in Windows(more, load), ws[v].data # Lost
        PROVE  {v} \X (ws[v].start..ws[v].end - 1) \subseteq A \union B
    <3>1. CASE v = w
      BY <1>2, <3>1 DEF B, I
    <3>2. CASE v \in Windows(strs, loading)
      <4>1. v \in DOMAIN win
        <5>1. \A i \in DOMAIN strs : Range(strs[i].windows) \subseteq DOMAIN win
          BY DEF From, Chained, Range
        <5>2. loading \subseteq DOMAIN win
          BY DEF WindowsAre
        <5>3. v \in loading \/ \E i \in DOMAIN strs : v \in Range(strs[i].windows)
          BY <3>2, InWindows
        <5> QED  BY <5>1, <5>2, <5>3
      <4>2. ws[v] = win[v]
        BY <1>2, <4>1
      <4> QED  BY <2>1, <3>2, <4>2 DEF A, HeldBytes
    <3> QED  BY <2>1, <3>1, <3>2 DEF w
  <2> QED  BY <2>1 DEF HeldBytes
<1> HIDE DEF B
<1>6. IsFiniteSet(A \union B) /\ Cardinality(A \union B) = Cardinality(A) + Cardinality(B) - Cardinality(A \cap B)
  BY <1>1, <1>4, FS_Union
<1>7. Cardinality(A \cap B) \in Nat
  <2>1. IsFiniteSet(A \cap B)
    BY <1>1, FS_Subset, A \cap B \in SUBSET A
  <2> QED  BY <2>1, FS_CardinalityType
<1>8. IsFiniteSet(HeldBytes(more, ws, load)) /\ Cardinality(HeldBytes(more, ws, load)) <= Cardinality(A \union B)
  BY <1>5, <1>6, FS_Subset
<1>9. Cardinality(HeldBytes(more, ws, load)) \in Nat
  BY <1>8, FS_CardinalityType
<1>10. Cardinality(HeldBytes(more, ws, load)) <= MaxBytes
  <2>1. MaxBytes \in Nat /\ Cardinality(I) \in Int /\ Cardinality(I) <= MaxBytes - Cardinality(A) /\ Cardinality(B) = Cardinality(I)
    BY <1>1, <1>2, <1>3, <1>4, AheadAssumption
  <2> QED  BY <1>1, <1>6, <1>7, <1>8, <1>9, <2>1
<1> QED  BY <1>8, <1>10 DEF Held, ws

\* A read's parts fit as long as its windows are there.
LEMMA FitsKept ==
  ASSUME NEW a, NEW ws, NEW more, Extends(ws, more), PartsFit(a, ws)
  PROVE  PartsFit(a, more)
<1>1. Chained(ws, a.parts) /\ a.got = Piece(a.offset, Len(a.got))
  BY DEF PartsFit
<1>2. Chained(more, a.parts)
  BY <1>1, ChainKept
<1>3. \A k \in DOMAIN a.parts : more[a.parts[k]].start = ws[a.parts[k]].start /\ more[a.parts[k]].end = ws[a.parts[k]].end
  BY <1>1 DEF Extends, Chained
<1>4. a.parts # <<>> => 1 \in DOMAIN a.parts /\ Len(a.parts) \in DOMAIN a.parts
  BY <1>1 DEF Chained
<1> QED  BY <1>1, <1>2, <1>3, <1>4 DEF PartsFit

LEMMA ReadKept ==
  ASSUME NEW a, NEW ws, NEW more, Extends(ws, more), ReadFits(a, ws)
  PROVE  ReadFits(a, more)
  BY FitsKept DEF ReadFits, Extends

\* One read moves.
LEMMA ReadMoves ==
  ASSUME ReadsAre, NEW r \in AheadReaders, NEW e \in ReadType, ahead' = [ahead EXCEPT ![r] = e],
         Extends(win, win'), ReadFits(e, win')
  PROVE  ReadsAre' /\ \A u \in AheadReaders : ahead'[u] = IF u = r THEN e ELSE ahead[u]
<1>1. ahead' \in [AheadReaders -> ReadType] /\ \A u \in AheadReaders : ahead'[u] = IF u = r THEN e ELSE ahead[u]
  BY DEF ReadsAre
<1>2. \A u \in AheadReaders : ReadFits(ahead[u], win')
  BY ReadKept DEF ReadsAre
<1> QED  BY <1>1, <1>2 DEF ReadsAre

LEMMA NoReadFits ==
  ASSUME NEW ws
  PROVE  NoRead \in ReadType /\ ReadFits(NoRead, ws) /\ NoRead.pc = "idle"
  BY DEF NoRead, ReadType, ReadPcs, ReadFits, PartsFit, Chained, Piece

LEMMA AheadStart ==
  ASSUME AheadInit
  PROVE  AheadInv
<1>1. WindowsAre /\ StreamsAre
  BY DEF AheadInit, WindowsAre, StreamsAre
<1>2. ReadsAre /\ Fetching
  BY NoReadFits DEF AheadInit, ReadsAre, Fetching
<1>3. HeldBytes(streams, win, loading) = {}
  BY DEF AheadInit, HeldBytes, Windows
<1>4. HeldFits
  BY <1>3, FS_EmptySet, AheadAssumption DEF HeldFits, Held
<1> QED  BY <1>1, <1>2, <1>4 DEF AheadInv

LEMMA AheadKeeps ==
  ASSUME AheadInv, UNCHANGED aheadVars
  PROVE  AheadInv'
<1>1. UNCHANGED <<streams, win, loading, tick, idle, ahead>>
  BY DEF aheadVars
<1> QED  BY <1>1 DEF AheadInv, WindowsAre, StreamsAre, ReadsAre, Fetching, HeldFits, HeldBytes, Held, Windows

\* No window is made or fetched: the streams and one read's place change.
LEMMA ReadGoesOn ==
  ASSUME AheadInv, NEW r \in AheadReaders, NEW e \in ReadType, ahead' = [ahead EXCEPT ![r] = e], ReadFits(e, win),
         ahead[r].pc # "fetch", e.pc # "fetch", From(streams'), UNCHANGED <<win, loading>>, tick' \in Nat
  PROVE  AheadInv'
<1>1. Extends(win, win')
  BY DEF Extends
<1>2. ReadsAre' /\ \A u \in AheadReaders : ahead'[u] = IF u = r THEN e ELSE ahead[u]
  BY <1>1, ReadMoves DEF AheadInv
<1>3. WindowsAre' /\ StreamsAre'
  BY DEF AheadInv, WindowsAre, StreamsAre, From
<1>4. Fetching'
  BY <1>2 DEF AheadInv, Fetching
<1>5. HeldFits'
  BY FromHoldsLess DEF AheadInv, HeldFits, HeldBytes, Held, Windows
<1> QED  BY <1>2, <1>3, <1>4, <1>5 DEF AheadInv

\* A read that is none of the window's takes nothing from the streams but where it ended.
LEMMA DirectBegins ==
  ASSUME AheadInv, NEW r \in AheadReaders, NEW offset \in Nat, NEW length \in Nat, ReadBegins(r, offset, length),
         length >= MaxWindow \/ offset + length > AheadSize
  PROVE  AheadInv'
<1> DEFINE e == [NoRead EXCEPT !.pc = "direct", !.offset = offset, !.end = offset + length]
<1>1. /\ ahead' = [ahead EXCEPT ![r] = e] /\ UNCHANGED <<win, loading>> /\ ahead[r].pc = "idle"
      /\ tick' = tick + 1
      /\ streams' = IF offset + length > AheadSize THEN streams
                          ELSE [i \in DOMAIN streams |-> IF streams[i].next = offset
                                  THEN [streams[i] EXCEPT !.next = offset + length] ELSE streams[i]]
  BY DEF ReadBegins
<1>2. e \in ReadType /\ ReadFits(e, win) /\ e.pc = "direct"
  <2>1. offset + length \in Nat /\ offset <= offset + length
    OBVIOUS
  <2>2. e \in ReadType /\ e.pc = "direct" /\ e.offset = offset /\ e.end = offset + length
    BY <2>1, NoReadFits DEF ReadType, ReadPcs
  <2> HIDE DEF e
  <2> QED  BY <2>1, <2>2 DEF ReadFits
<1>3. From(streams')
  <2>1. From(streams)
    BY TheirOwn DEF AheadInv
  <2>2. ASSUME streams' = [i \in DOMAIN streams |-> IF streams[i].next = offset
                             THEN [streams[i] EXCEPT !.next = offset + length] ELSE streams[i]]
        PROVE  From(streams')
    <3>1. streams \in Seq(StreamType) /\ DOMAIN streams = 1..Len(streams) /\ Len(streams) \in Nat
      BY <2>1 DEF From
    <3>2. \A i \in DOMAIN streams : [streams[i] EXCEPT !.next = offset + length] \in StreamType
                                     /\ [streams[i] EXCEPT !.next = offset + length].windows = streams[i].windows
      <4>1. offset + length \in Nat
        OBVIOUS
      <4>2. \A s \in StreamType : [s EXCEPT !.next = offset + length] \in StreamType
                                     /\ [s EXCEPT !.next = offset + length].windows = s.windows
        BY <4>1 DEF StreamType
      <4> QED  BY <3>1, <4>2
    <3>3. \A i \in DOMAIN streams : streams'[i] \in StreamType /\ streams'[i].windows = streams[i].windows
      BY <2>2, <3>1, <3>2
    <3>4. streams' \in Seq(StreamType) /\ DOMAIN streams' = DOMAIN streams
      BY <2>2, <3>1, <3>3
    <3> QED  BY <2>1, <3>3, <3>4 DEF From
  <2> QED  BY <1>1, <2>1, <2>2
<1>4. tick' \in Nat
  BY <1>1 DEF AheadInv, WindowsAre
<1> HIDE DEF e
<1> QED  BY <1>1, <1>2, <1>3, <1>4, ReadGoesOn

\* _plan's stream, and the streams with it moved on.
LEMMA PlanStreams ==
  ASSUME AheadInv, NEW offset \in Nat, NEW end \in Nat,
         NEW all, NEW at, all = WithStream(offset).all, at = WithStream(offset).at,
         NEW strs, strs = [all EXCEPT ![at] = Advanced(@, offset, end)]
  PROVE  From(strs) /\ at \in DOMAIN strs /\ strs[at] \in StreamType /\ Chained(win, strs[at].windows)
<1>1. From(all) /\ at \in DOMAIN all
  BY NewStreams DEF AheadInv
<1>2. all \in Seq(StreamType) /\ DOMAIN all = 1..Len(all) /\ Len(all) \in Nat /\ all[at] \in StreamType /\ Chained(win, all[at].windows)
      /\ Range(all[at].windows) \subseteq Windows(streams, loading)
  BY <1>1 DEF From
<1>3. /\ Advanced(all[at], offset, end) \in StreamType
      /\ Chained(win, Advanced(all[at], offset, end).windows)
      /\ Range(Advanced(all[at], offset, end).windows) \subseteq Range(all[at].windows)
  BY <1>2, AdvancedIs DEF AheadInv
<1> DEFINE s == Advanced(all[at], offset, end)
<1>4. strs = [all EXCEPT ![at] = s]
  OBVIOUS
<1> HIDE DEF s
<1>5. strs \in Seq(StreamType) /\ DOMAIN strs = DOMAIN all /\ (\A i \in DOMAIN all : i # at => strs[i] = all[i]) /\ strs[at] = s
  BY <1>1, <1>2, <1>3, <1>4 DEF s
<1> QED  BY <1>1, <1>2, <1>3, <1>5 DEF From, s

WithNew(strs, at, w) == [strs EXCEPT ![at] = [strs[at] EXCEPT !.windows = Append(@, w)]]

\* A window more, at the end of the stream it is fetched for.
Grown(strs, at, new, w, ws, more) ==
    /\ more \in Seq(StreamType) /\ (\A i \in DOMAIN more : Chained(ws, more[i].windows))
    /\ Chained(ws, Append(strs[at].windows, w))
    /\ Windows(more, loading \union {w}) \subseteq Windows(strs, loading) \union {w}
    /\ ws \in Seq(WindowType) /\ w \in DOMAIN ws /\ w \in Nat /\ ws[w] = new /\ Extends(win, ws)
    /\ DOMAIN ws = DOMAIN win \union {w} /\ w \notin DOMAIN win /\ \A k \in DOMAIN win : ws[k] = win[k]

LEMMA StreamGrows ==
  ASSUME AheadInv, NEW strs, From(strs), NEW at \in DOMAIN strs, NEW new \in WindowType, new.start < new.end,
         strs[at].windows # <<>> => new.start = win[Last(strs[at].windows)].end
  PROVE  Grown(strs, at, new, Len(win) + 1, Append(win, new), WithNew(strs, at, Len(win) + 1))
<1> DEFINE w == Len(win) + 1
           ws == Append(win, new)
           more == WithNew(strs, at, w)
           q == strs[at].windows
           s == [strs[at] EXCEPT !.windows = Append(@, w)]
<1>1. /\ win \in Seq(WindowType) /\ Len(win) \in Nat /\ DOMAIN win = 1..Len(win) /\ \A k \in DOMAIN win : win[k].start < win[k].end
      /\ \A k \in DOMAIN win : win[k].start \in Nat /\ win[k].end \in Nat
  <2>1. win \in Seq(WindowType) /\ \A k \in DOMAIN win : win[k].start < win[k].end
    BY DEF AheadInv, WindowsAre
  <2>2. Len(win) \in Nat /\ DOMAIN win = 1..Len(win) /\ \A k \in DOMAIN win : win[k] \in WindowType
    BY <2>1
  <2> QED  BY <2>1, <2>2 DEF WindowType
<1>2. /\ ws \in Seq(WindowType) /\ DOMAIN ws = 1..Len(win) + 1 /\ (\A k \in 1..Len(win) : ws[k] = win[k]) /\ ws[w] = new
      /\ w \in Nat
  BY <1>1, AppendProperties
<1>3. w \in DOMAIN ws /\ DOMAIN ws = DOMAIN win \union {w} /\ w \notin DOMAIN win /\ \A k \in DOMAIN win : ws[k] = win[k]
  BY <1>1, <1>2
<1>4. strs \in Seq(StreamType) /\ DOMAIN strs = 1..Len(strs) /\ Len(strs) \in Nat /\ strs[at] \in StreamType /\ Chained(win, q)
  BY DEF From
<1> HIDE DEF w, ws
<1>5. Extends(win, ws)
  BY <1>3 DEF Extends
<1>6. q \in Seq(Nat) /\ Append(q, w) \in Seq(Nat)
  BY <1>2, <1>4 DEF Chained
<1>7. Chained(ws, Append(q, w)) /\ Range(Append(q, w)) = Range(q) \union {w}
  <2>1. Chained(ws, q)
    BY <1>4, <1>5, ChainKept
  <2>2. \A k \in DOMAIN q : q[k] \in DOMAIN win
    BY <1>4 DEF Chained
  <2>3. \A k \in DOMAIN q : ws[q[k]].start \in Int /\ ws[q[k]].end \in Int /\ ws[q[k]].start < ws[q[k]].end
    BY <1>1, <1>3, <2>2
  <2>4. q # <<>> => ws[w].start = ws[q[Len(q)]].end
    <3>1. ASSUME q # <<>>
          PROVE  ws[w].start = ws[q[Len(q)]].end
      <4>1. Len(q) \in DOMAIN q
        BY <1>6, <3>1
      <4>2. new.start = win[q[Len(q)]].end
        BY <3>1 DEF Last
      <4> QED  BY <1>2, <1>3, <2>2, <4>1, <4>2
    <3> QED  BY <3>1
  <2> HIDE DEF q
  <2> QED  BY <1>2, <1>3, <2>1, <2>3, <2>4, ChainGrows
<1>8. s \in StreamType /\ s.windows = Append(q, w)
  BY <1>4, <1>6 DEF StreamType
<1>9. more \in Seq(StreamType) /\ DOMAIN more = DOMAIN strs /\ (\A i \in DOMAIN strs : i # at => more[i] = strs[i]) /\ more[at] = s
  <2>1. more = [strs EXCEPT ![at] = s]
    BY DEF WithNew
  <2> HIDE DEF s, more
  <2> QED  BY <1>4, <1>8, <2>1
<1> HIDE DEF s, more
<1>10. \A i \in DOMAIN more : Chained(ws, more[i].windows)
  <2>1. \A i \in DOMAIN strs : Chained(ws, strs[i].windows)
    BY <1>5, ChainKept DEF From
  <2> QED  BY <1>7, <1>8, <1>9, <2>1
<1>11. Windows(more, loading \union {w}) \subseteq Windows(strs, loading) \union {w}
  <2>1. \A i \in DOMAIN more : Range(more[i].windows) \subseteq Range(strs[i].windows) \union {w}
    BY <1>7, <1>8, <1>9
  <2>2. ASSUME NEW v \in Windows(more, loading \union {w}), v # w
        PROVE  v \in Windows(strs, loading)
    BY <1>9, <2>1, <2>2, InWindows
  <2> QED  BY <2>2
<1> QED  BY <1>2, <1>3, <1>5, <1>7, <1>9, <1>10, <1>11 DEF Grown, w, ws, more

\* What _plan fetches starts where its stream ends, and fits what is left of the budget.
LEMMA NewWindowIs ==
  ASSUME WindowsAre, NEW s \in StreamType, Chained(win, s.windows), NEW offset \in Nat, NEW end \in Nat,
         NEW strs, Held(strs, win, loading) \in Nat, NEW parts,
         NEW new, new = NewWindow(strs, s, Frontier(s, offset), end), Fetches(s, parts, new, end)
  PROVE  /\ new \in WindowType /\ new.data = Loading /\ new.start < new.end
         /\ new.end - new.start <= MaxBytes - Held(strs, win, loading)
         /\ s.windows # <<>> => new.start = win[Last(s.windows)].end
<1> DEFINE f == Frontier(s, offset)
           most == Max({s.window, end - f})
           len == Min({most, MaxBytes - Held(strs, win, loading), AheadSize - f})
<1>1. f \in Nat
  <2>1. CASE s.windows = <<>>
    BY <2>1 DEF Frontier
  <2>2. CASE s.windows # <<>>
    <3>1. Len(s.windows) \in DOMAIN s.windows
      BY <2>2 DEF Chained
    <3>2. s.windows[Len(s.windows)] \in DOMAIN win
      BY <3>1 DEF Chained
    <3>3. win[s.windows[Len(s.windows)]] \in WindowType
      BY <3>2 DEF WindowsAre
    <3>4. win[s.windows[Len(s.windows)]].end \in Nat
      BY <3>3 DEF WindowType
    <3> QED  BY <2>2, <3>4 DEF Frontier, Last
  <2> QED  BY <2>1, <2>2
<1>2. s.windows # <<>> => f = win[Last(s.windows)].end
  BY DEF Frontier
<1> HIDE DEF f
<1>3. most \in Int
  <2>1. s.window \in Int /\ end - f \in Int
    BY <1>1 DEF StreamType
  <2>2. most \in {s.window, end - f}
    BY <2>1, MostOfTwo
  <2> QED  BY <2>1, <2>2
<1> HIDE DEF most
<1>4. MaxBytes - Held(strs, win, loading) \in Int /\ AheadSize - f \in Int
  BY <1>1, AheadAssumption
<1>5. len \in Int /\ len <= MaxBytes - Held(strs, win, loading)
  BY <1>3, <1>4, LeastOfThree
<1>6. new = [start |-> f, data |-> Loading, end |-> f + len]
  BY DEF NewWindow, f, most
<1> HIDE DEF len
<1>7. new.start = f /\ new.end = f + len /\ new.data = Loading
  BY <1>6
<1>8. new.end - new.start = len
  BY <1>1, <1>5, <1>7
<1>9. len >= 1
  BY <1>5, <1>8, AheadAssumption DEF Fetches
<1>10. new.end \in Nat /\ new.start \in Nat /\ new.start < new.end
  BY <1>1, <1>5, <1>7, <1>9
<1>11. new \in WindowType
  BY <1>6, <1>7, <1>10 DEF WindowType
<1> QED  BY <1>2, <1>5, <1>7, <1>8, <1>10, <1>11

ReadOf(stage, offset, end, parts, fetch) ==
    [NoRead EXCEPT !.pc = stage, !.offset = offset, !.end = end, !.parts = parts, !.fetch = fetch]

LEMMA ReadOfIs ==
  ASSUME NEW stage \in ReadPcs, NEW offset \in Nat, NEW end \in Nat, NEW parts \in Seq(Nat), NEW fetch \in Nat
  PROVE  /\ ReadOf(stage, offset, end, parts, fetch) \in ReadType
         /\ ReadOf(stage, offset, end, parts, fetch).pc = stage /\ ReadOf(stage, offset, end, parts, fetch).offset = offset
         /\ ReadOf(stage, offset, end, parts, fetch).end = end /\ ReadOf(stage, offset, end, parts, fetch).parts = parts
         /\ ReadOf(stage, offset, end, parts, fetch).fetch = fetch /\ ReadOf(stage, offset, end, parts, fetch).got = <<>>
  BY NoReadFits DEF ReadOf, ReadType, NoRead

LEMMA FetchBegins ==
  ASSUME AheadInv, NEW r \in AheadReaders, ahead[r].pc = "idle", NEW offset \in Nat, NEW end \in Nat, offset <= end,
         NEW strs, From(strs), NEW at \in DOMAIN strs, strs[at] \in StreamType, NEW new,
         NEW parts, new = NewWindow(strs, strs[at], Frontier(strs[at], offset), end), Fetches(strs[at], parts, new, end),
         NEW w, w = Len(win) + 1, NEW more, more = [strs[at] EXCEPT !.windows = Append(@, w)],
         streams' = [strs EXCEPT ![at] = more], win' = Append(win, new), loading' = loading \union {w}, tick' \in Nat,
         ahead' = [ahead EXCEPT ![r] = ReadOf("fetch", offset, end, Covering(more, Append(win, new), offset, end), w)]
  PROVE  AheadInv'
<1> DEFINE ws == Append(win, new)
           e == ReadOf("fetch", offset, end, Covering(more, ws, offset, end), w)
<1>0. WindowsAre /\ StreamsAre /\ ReadsAre /\ Fetching /\ HeldFits
  BY DEF AheadInv
<1>1. /\ new \in WindowType /\ new.data = Loading /\ new.start < new.end
      /\ new.end - new.start <= MaxBytes - Held(strs, win, loading)
      /\ strs[at].windows # <<>> => new.start = win[Last(strs[at].windows)].end
  <2>1. Held(strs, win, loading) \in Nat
    BY <1>0, FromHoldsLess
  <2>2. Chained(win, strs[at].windows)
    BY DEF From
  <2> QED  BY <1>0, <2>1, <2>2, NewWindowIs
<1>2. streams' = WithNew(strs, at, w)
  BY DEF WithNew
<1>3. /\ streams' \in Seq(StreamType) /\ (\A i \in DOMAIN streams' : Chained(ws, streams'[i].windows))
      /\ Chained(ws, Append(strs[at].windows, w))
      /\ Windows(streams', loading') \subseteq Windows(strs, loading) \union {w}
      /\ ws \in Seq(WindowType) /\ w \in DOMAIN ws /\ w \in Nat /\ ws[w] = new /\ Extends(win, ws)
      /\ DOMAIN ws = DOMAIN win \union {w} /\ w \notin DOMAIN win /\ \A k \in DOMAIN win : ws[k] = win[k]
  <2>1. Grown(strs, at, new, Len(win) + 1, Append(win, new), WithNew(strs, at, Len(win) + 1))
    BY <1>1, StreamGrows
  <2>2. Grown(strs, at, new, w, ws, streams') /\ loading' = loading \union {w}
    BY <1>2, <2>1
  <2> QED  BY <2>2 DEF Grown
<1>4. more.windows = Append(strs[at].windows, w)
  BY DEF StreamType
<1> HIDE DEF ws
<1>5. WindowsAre' /\ StreamsAre'
  <2>1. win' = ws
    BY DEF ws
  <2> QED  BY <1>0, <1>1, <1>3, <2>1 DEF WindowsAre, StreamsAre
<1>6. \A k \in DOMAIN ws : ws[k].start \in Nat /\ ws[k].end \in Nat /\ ws[k].start < ws[k].end
  <2>0. ws \in Seq(WindowType)
    BY <1>3
  <2>1. \A k \in DOMAIN ws : ws[k] \in WindowType
    BY <2>0
  <2>2. \A k \in DOMAIN ws : ws[k].start < ws[k].end
    BY <1>5 DEF WindowsAre, ws
  <2> QED  BY <2>1, <2>2 DEF WindowType
<1> DEFINE cover == Covering(more, ws, offset, end)
           a == [parts |-> cover, got |-> <<>>, offset |-> offset, end |-> end]
<1>7. PartsFit(a, ws)
  <2>1. a.parts = Covering(more, ws, offset, end) /\ a.got = <<>> /\ a.offset = offset /\ a.end = end
    OBVIOUS
  <2>2. Chained(ws, more.windows)
    BY <1>3, <1>4
  <2> HIDE DEF a, cover
  <2> QED  BY <1>6, <2>1, <2>2, CoveringFits
<1>8. cover \in Seq(Nat)
  BY <1>7 DEF PartsFit, Chained
<1>9. /\ e \in ReadType /\ e.pc = "fetch" /\ e.offset = offset /\ e.end = end /\ e.parts = cover /\ e.fetch = w /\ e.got = <<>>
  <2> HIDE DEF cover
  <2>1. e = ReadOf("fetch", offset, end, cover, w)
    BY DEF cover
  <2>2. "fetch" \in ReadPcs
    BY DEF ReadPcs
  <2> QED  BY <1>3, <1>8, <2>1, <2>2, ReadOfIs
<1>10. ahead' = [ahead EXCEPT ![r] = e]
  BY DEF ws
<1> HIDE DEF e, cover
<1>11. ReadFits(e, ws)
  BY <1>3, <1>7, <1>9 DEF ReadFits, PartsFit
<1>12. ReadsAre' /\ \A u \in AheadReaders : ahead'[u] = IF u = r THEN e ELSE ahead[u]
  BY <1>0, <1>3, <1>9, <1>10, <1>11, ReadMoves, ZenonT(60) DEF ws
<1>13. Fetching'
  <2>1. \A u \in AheadReaders : u # r /\ ahead'[u].pc = "fetch" => ahead[u].pc = "fetch" /\ ahead'[u].fetch = ahead[u].fetch /\ ahead[u].fetch \in DOMAIN win
    BY <1>0, <1>12 DEF ReadsAre, ReadFits
  <2>2. ahead'[r].pc = "fetch" /\ ahead'[r].fetch = w
    BY <1>9, <1>12
  <2>3. win' = ws
    BY DEF ws
  <2>4. \A k \in DOMAIN win' : win'[k].data = Loading => \E u \in AheadReaders : ahead'[u].pc = "fetch" /\ ahead'[u].fetch = k
    <3>1. ASSUME NEW k \in DOMAIN win, win[k].data = Loading
          PROVE  \E u \in AheadReaders : ahead'[u].pc = "fetch" /\ ahead'[u].fetch = k
      <4>1. PICK u \in AheadReaders : ahead[u].pc = "fetch" /\ ahead[u].fetch = k
        BY <1>0, <3>1 DEF Fetching
      <4>2. u # r
        BY <4>1
      <4> QED  BY <1>12, <4>1, <4>2
    <3>2. ASSUME NEW k \in DOMAIN ws, ws[k].data = Loading
          PROVE  \E u \in AheadReaders : ahead'[u].pc = "fetch" /\ ahead'[u].fetch = k
      <4>1. CASE k = w
        BY <2>2, <4>1
      <4>2. CASE k \in DOMAIN win
        BY <1>3, <3>1, <3>2, <4>2
      <4> QED  BY <1>3, <4>1, <4>2
    <3> QED  BY <2>3, <3>2
  <2>5. \A u \in AheadReaders : ahead'[u].pc = "fetch" => win'[ahead'[u].fetch].data = Loading
    BY <1>0, <1>1, <1>3, <2>1, <2>2, <2>3 DEF Fetching
  <2>6. \A u, v \in AheadReaders : (ahead'[u].pc = "fetch" /\ ahead'[v].pc = "fetch" /\ ahead'[u].fetch = ahead'[v].fetch) => u = v
    BY <1>0, <1>3, <2>1, <2>2 DEF Fetching
  <2> QED  BY <2>4, <2>5, <2>6 DEF Fetching
<1>14. HeldFits'
  <2>1. IsFiniteSet(HeldBytes(streams', Append(win, new), loading')) /\ Held(streams', Append(win, new), loading') <= MaxBytes
    BY <1>0, <1>1, <1>3, HoldsMore
  <2> QED  BY <2>1, ZenonT(60) DEF HeldFits, Held, HeldBytes, Windows
<1> QED  BY <1>5, <1>12, <1>13, <1>14 DEF AheadInv

\* What _plan does with its stream.
Planned(r, offset, end, strs, at, s, parts, new) ==
    IF Fetches(s, parts, new, end)
    THEN /\ streams' = [strs EXCEPT ![at] = [s EXCEPT !.windows = Append(@, Len(win) + 1)]]
         /\ win' = Append(win, new) /\ loading' = loading \union {Len(win) + 1}
         /\ Begin(r, "fetch", offset, end, Covering([s EXCEPT !.windows = Append(@, Len(win) + 1)], Append(win, new), offset, end),
                  Len(win) + 1)
    ELSE /\ streams' = strs /\ UNCHANGED <<win, loading>>
         /\ Begin(r, IF parts = <<>> THEN "direct" ELSE "parts", offset, end, parts, 0)

LEMMA PlanKeeps ==
  ASSUME AheadInv, NEW r \in AheadReaders, NEW offset \in Nat, NEW length \in Nat, ReadBegins(r, offset, length),
         ~ (length >= MaxWindow \/ offset + length > AheadSize)
  PROVE  AheadInv'
<1> DEFINE end == offset + length
<1>1. Plan(r, offset, end) /\ ahead[r].pc = "idle" /\ tick' = tick + 1
  BY DEF ReadBegins
<1>2. end \in Nat /\ offset <= end /\ tick' \in Nat
  BY <1>1 DEF AheadInv, WindowsAre
<1> HIDE DEF end
<1> DEFINE at == WithStream(offset).at
           strs == [WithStream(offset).all EXCEPT ![at] = Advanced(@, offset, end)]
           parts == Covering(strs[at], win, offset, end)
           new == NewWindow(strs, strs[at], Frontier(strs[at], offset), end)
           w == Len(win) + 1
           more == [strs[at] EXCEPT !.windows = Append(@, w)]
<1>3. IF Fetches(strs[at], parts, new, end)
      THEN /\ streams' = [strs EXCEPT ![at] = more]
           /\ win' = Append(win, new) /\ loading' = loading \union {w}
           /\ Begin(r, "fetch", offset, end, Covering(more, Append(win, new), offset, end), w)
      ELSE /\ streams' = strs /\ UNCHANGED <<win, loading>>
           /\ Begin(r, IF parts = <<>> THEN "direct" ELSE "parts", offset, end, parts, 0)
  <2>1. \E belongs \in {WithStream(offset)} : \E ss \in {[belongs.all EXCEPT ![belongs.at] = Advanced(@, offset, end)]} :
        \E s \in {ss[belongs.at]} : \E pp \in {Covering(s, win, offset, end)}, nn \in {NewWindow(ss, s, Frontier(s, offset), end)} :
           Planned(r, offset, end, ss, belongs.at, s, pp, nn)
    BY <1>1, Zenon DEF Plan, Planned
  <2>2. Planned(r, offset, end, strs, at, strs[at], parts, new)
    BY <2>1, Zenon
  <2> HIDE DEF strs, at, parts, new
  <2> QED  BY <2>2 DEF Planned
<1>4. From(strs) /\ at \in DOMAIN strs /\ strs[at] \in StreamType /\ Chained(win, strs[at].windows)
  <2> DEFINE all == WithStream(offset).all
  <2>1. all = WithStream(offset).all /\ at = WithStream(offset).at /\ strs = [all EXCEPT ![at] = Advanced(@, offset, end)]
    OBVIOUS
  <2> HIDE DEF all, strs, at
  <2> QED  BY <1>2, <2>1, PlanStreams
<1> HIDE DEF at, strs
<1>5. CASE Fetches(strs[at], parts, new, end)
  <2>1. /\ streams' = [strs EXCEPT ![at] = more] /\ win' = Append(win, new) /\ loading' = loading \union {w}
        /\ ahead' = [ahead EXCEPT ![r] = ReadOf("fetch", offset, end, Covering(more, Append(win, new), offset, end), w)]
    BY <1>3, <1>5 DEF Begin, ReadOf
  <2>2. w = Len(win) + 1 /\ more = [strs[at] EXCEPT !.windows = Append(@, w)] /\ new = NewWindow(strs, strs[at], Frontier(strs[at], offset), end)
    OBVIOUS
  <2> HIDE DEF parts, new, w, more
  <2> QED  BY <1>1, <1>2, <1>4, <1>5, <2>1, <2>2, FetchBegins
<1>6. CASE ~ Fetches(strs[at], parts, new, end)
  <2> DEFINE stage == IF parts = <<>> THEN "direct" ELSE "parts"
             e == ReadOf(stage, offset, end, parts, 0)
             a == [parts |-> parts, got |-> <<>>, offset |-> offset, end |-> end]
  <2>1. /\ streams' = strs /\ UNCHANGED <<win, loading>> /\ ahead' = [ahead EXCEPT ![r] = e]
    BY <1>3, <1>6 DEF Begin, ReadOf
  <2>2. PartsFit(a, win)
    <3>1. a.parts = Covering(strs[at], win, offset, end) /\ a.got = <<>> /\ a.offset = offset /\ a.end = end
      OBVIOUS
    <3>2. \A k \in DOMAIN win : win[k].start \in Nat /\ win[k].end \in Nat /\ win[k].start < win[k].end
      <4>1. \A k \in DOMAIN win : win[k] \in WindowType /\ win[k].start < win[k].end
        BY DEF AheadInv, WindowsAre
      <4> QED  BY <4>1 DEF WindowType
    <3> HIDE DEF a, parts
    <3> QED  BY <1>2, <1>4, <3>1, <3>2, CoveringFits
  <2>3. parts \in Seq(Nat)
    <3> HIDE DEF parts
    <3> QED  BY <2>2 DEF PartsFit, Chained
  <2> HIDE DEF parts
  <2>4. /\ e \in ReadType /\ e.pc = stage /\ e.offset = offset /\ e.end = end /\ e.parts = parts /\ e.got = <<>>
    <3>1. stage \in ReadPcs
      BY DEF ReadPcs
    <3> HIDE DEF stage, a
    <3> QED  BY <1>2, <2>3, <3>1, NoReadFits DEF ReadOf, ReadType, NoRead
  <2> HIDE DEF e
  <2>5. ReadFits(e, win)
    BY <1>2, <2>2, <2>4 DEF ReadFits, PartsFit
  <2>6. e.pc # "fetch" /\ ahead[r].pc # "fetch"
    BY <1>1, <2>4
  <2> HIDE DEF stage, a
  <2> QED  BY <1>2, <1>4, <2>1, <2>4, <2>5, <2>6, ReadGoesOn
<1> QED  BY <1>5, <1>6

\* A fetch ends: its window has its bytes or is lost, and no stream has a window it had not.
LEMMA FetchOver ==
  ASSUME AheadInv, NEW r \in AheadReaders, ahead[r].pc = "fetch", NEW f, f = ahead[r].fetch, NEW data \in {Bytes, Lost},
         win' = [win EXCEPT ![f].data = data], loading' = loading \ {f}, UNCHANGED tick,
         From(streams'), NEW e \in ReadType, e.pc # "fetch", ahead' = [ahead EXCEPT ![r] = e],
         Extends(win, win') => ReadFits(e, win')
  PROVE  AheadInv'
<1>0. WindowsAre /\ StreamsAre /\ ReadsAre /\ Fetching /\ HeldFits
  BY DEF AheadInv
<1>1. f \in DOMAIN win /\ win[f].data = Loading
  BY <1>0 DEF ReadsAre, ReadFits, Fetching
<1>2. win \in Seq(WindowType) /\ DOMAIN win = 1..Len(win) /\ Len(win) \in Nat /\ win[f] \in WindowType
  BY <1>0, <1>1 DEF WindowsAre
<1> DEFINE d == [win[f] EXCEPT !.data = data]
<1>3. d \in WindowType /\ d.start = win[f].start /\ d.end = win[f].end /\ d.data = data
  BY <1>2 DEF WindowType
<1>4. win' = [win EXCEPT ![f] = d]
  OBVIOUS
<1> HIDE DEF d
<1>5. win' \in Seq(WindowType) /\ DOMAIN win' = DOMAIN win /\ win'[f] = d /\ \A w \in DOMAIN win : w # f => win'[w] = win[w]
  BY <1>1, <1>2, <1>3, <1>4
<1>6. \A w \in DOMAIN win : win'[w].start = win[w].start /\ win'[w].end = win[w].end
  BY <1>3, <1>5
<1>7. Extends(win, win')
  BY <1>5, <1>6 DEF Extends
<1>8. WindowsAre'
  BY <1>0, <1>5, <1>6 DEF WindowsAre
<1>9. StreamsAre'
  BY <1>7, ChainKept DEF StreamsAre, From
<1>10. ReadsAre' /\ \A u \in AheadReaders : ahead'[u] = IF u = r THEN e ELSE ahead[u]
  BY <1>0, <1>7, ReadMoves
<1>11. Fetching'
  <2>1. \A u \in AheadReaders : ahead'[u].pc = "fetch" => u # r /\ ahead[u].pc = "fetch" /\ ahead'[u].fetch = ahead[u].fetch
                                                           /\ ahead[u].fetch \in DOMAIN win /\ ahead[u].fetch # f
    BY <1>0, <1>10 DEF ReadsAre, ReadFits, Fetching
  <2>2. ASSUME NEW w \in DOMAIN win', win'[w].data = Loading
        PROVE  \E u \in AheadReaders : ahead'[u].pc = "fetch" /\ ahead'[u].fetch = w
    <3>1. w # f
      BY <1>3, <1>5, <2>2 DEF Loading, Bytes, Lost
    <3>2. w \in DOMAIN win /\ win[w].data = Loading
      BY <1>5, <2>2, <3>1
    <3>3. PICK u \in AheadReaders : ahead[u].pc = "fetch" /\ ahead[u].fetch = w
      BY <1>0, <3>2 DEF Fetching
    <3>4. u # r
      BY <3>1, <3>3
    <3> QED  BY <1>10, <3>3, <3>4
  <2>3. \A u \in AheadReaders : ahead'[u].pc = "fetch" => win'[ahead'[u].fetch].data = Loading
    BY <1>0, <1>5, <2>1 DEF Fetching
  <2>4. \A u, v \in AheadReaders : (ahead'[u].pc = "fetch" /\ ahead'[v].pc = "fetch" /\ ahead'[u].fetch = ahead'[v].fetch) => u = v
    BY <1>0, <2>1 DEF Fetching
  <2> QED  BY <2>2, <2>3, <2>4 DEF Fetching
<1>12. HeldFits'
  <2>1. Windows(streams', loading') \subseteq Windows(streams, loading)
    <3>1. ASSUME NEW v \in Windows(streams', loading')
          PROVE  v \in Windows(streams, loading)
      <4>1. v \in loading' \/ \E i \in DOMAIN streams' : v \in Range(streams'[i].windows)
        BY <3>1, InWindows
      <4>2. v \in loading => v \in Windows(streams, loading)
        BY InWindows
      <4> QED  BY <4>1, <4>2 DEF From
    <3> QED  BY <3>1
  <2>2. Windows(streams, loading) \subseteq DOMAIN win
    <3>1. ASSUME NEW v \in Windows(streams, loading)
          PROVE  v \in DOMAIN win
      <4>1. v \in loading \/ \E i \in DOMAIN streams : v \in Range(streams[i].windows)
        BY <3>1, InWindows
      <4> QED  BY <1>0, <4>1 DEF WindowsAre, StreamsAre, Chained, Range
    <3> QED  BY <3>1
  <2>3. \A w \in Windows(streams', loading') : /\ win'[w].start = win[w].start /\ win'[w].end = win[w].end
                                               /\ win[w].data = Lost => win'[w].data = Lost
    BY <1>1, <1>5, <1>6, <2>1, <2>2 DEF Loading, Lost
  <2>4. IsFiniteSet(HeldBytes(streams', win', loading')) /\ Held(streams', win', loading') <= MaxBytes
    BY <1>0, <2>1, <2>3, HoldsLess
  <2> QED  BY <2>4 DEF HeldFits, Held, HeldBytes, Windows
<1> QED  BY <1>8, <1>9, <1>10, <1>11, <1>12 DEF AheadInv

LEMMA FetchEndsKeeps ==
  ASSUME AheadInv, NEW r \in AheadReaders, NEW data \in {Bytes, Lost}, FetchEnds(r, data)
  PROVE  AheadInv'
<1> DEFINE f == ahead[r].fetch
           e == [ahead[r] EXCEPT !.pc = IF ahead[r].parts = <<>> THEN "direct" ELSE "parts", !.fetch = 0]
<1>1. /\ ahead[r].pc = "fetch" /\ win' = [win EXCEPT ![f].data = data] /\ loading' = loading \ {f}
      /\ UNCHANGED <<streams, tick, idle>>
      /\ ahead' = [ahead EXCEPT ![r].pc = IF ahead[r].parts = <<>> THEN "direct" ELSE "parts", ![r].fetch = 0]
  BY DEF FetchEnds
<1>2. ahead \in [AheadReaders -> ReadType] /\ ahead[r] \in ReadType /\ ReadFits(ahead[r], win)
  BY DEF AheadInv, ReadsAre
<1>3. /\ e \in ReadType /\ e.pc = (IF ahead[r].parts = <<>> THEN "direct" ELSE "parts") /\ e.parts = ahead[r].parts
      /\ e.got = ahead[r].got /\ e.offset = ahead[r].offset /\ e.end = ahead[r].end
  BY <1>2 DEF ReadType, ReadPcs
<1>4. ahead' = [ahead EXCEPT ![r] = e]
  BY <1>1, <1>2
<1> HIDE DEF e
<1>5. e.pc # "fetch" /\ (e.pc = "parts" => e.parts # <<>>) /\ e.pc \in {"parts", "direct"}
  BY <1>3
<1>6. Extends(win, win') => ReadFits(e, win')
  <2>1. ASSUME Extends(win, win')
        PROVE  ReadFits(e, win')
    <3>1. PartsFit(ahead[r], win')
      BY <1>1, <1>2, <2>1, FitsKept DEF ReadFits
    <3>2. PartsFit(e, win')
      BY <1>3, <3>1 DEF PartsFit
    <3> QED  BY <1>2, <1>3, <1>5, <3>2 DEF ReadFits
  <2> QED  BY <2>1
<1>7. From(streams')
  <2>1. From(streams)
    BY TheirOwn DEF AheadInv
  <2> QED  BY <1>1, <2>1
<1> QED  BY <1>1, <1>3, <1>4, <1>5, <1>6, <1>7, FetchOver

LEMMA DroppedFits ==
  ASSUME AheadInv, NEW w, streams' = [i \in DOMAIN streams |-> DropFrom(streams[i], w)]
  PROVE  From(streams')
<1>1. streams \in Seq(StreamType) /\ DOMAIN streams = 1..Len(streams) /\ Len(streams) \in Nat
      /\ \A i \in DOMAIN streams : /\ streams[i] \in StreamType /\ Chained(win, streams[i].windows)
                                   /\ Range(streams[i].windows) \subseteq Windows(streams, loading)
  BY TheirOwn DEF AheadInv, From
<1>2. ASSUME NEW s \in StreamType, Chained(win, s.windows)
      PROVE  /\ DropFrom(s, w) \in StreamType /\ Chained(win, DropFrom(s, w).windows)
             /\ Range(DropFrom(s, w).windows) \subseteq Range(s.windows)
  <2>1. CASE w \notin Range(s.windows)
    BY <1>2, <2>1 DEF DropFrom
  <2>2. CASE w \in Range(s.windows)
    <3> DEFINE q == s.windows
               at == {k \in DOMAIN q : q[k] = w}
               n == Min(at) - 1
    <3>1. q \in Seq(Nat) /\ DOMAIN q = 1..Len(q) /\ Len(q) \in Nat
      BY <1>2 DEF Chained
    <3>2. at \in SUBSET Nat /\ at # {} /\ at \subseteq 1..Len(q)
      BY <2>2, <3>1 DEF Range
    <3>3. Min(at) \in at
      <4> HIDE DEF at
      <4> QED  BY <3>2, MinIsLeast
    <3>4. n \in Int /\ n <= Len(q)
      <4>1. Min(at) \in 1..Len(q)
        BY <3>2, <3>3
      <4> HIDE DEF at
      <4> QED  BY <3>1, <4>1
    <3>5. DropFrom(s, w) = [s EXCEPT !.windows = SubSeq(q, 1, n)]
      BY <2>2 DEF DropFrom
    <3> HIDE DEF n, at
    <3>6. Chained(win, SubSeq(q, 1, n)) /\ Range(SubSeq(q, 1, n)) \subseteq Range(q)
      BY <1>2, <3>4, SubChain
    <3>7. SubSeq(q, 1, n) \in Seq(Nat)
      BY <3>6 DEF Chained
    <3>8. DropFrom(s, w) \in StreamType /\ DropFrom(s, w).windows = SubSeq(q, 1, n)
      BY <3>5, <3>7 DEF StreamType
    <3> QED  BY <3>6, <3>8
  <2> QED  BY <2>1, <2>2
<1>3. \A i \in DOMAIN streams : streams'[i] = DropFrom(streams[i], w)
  OBVIOUS
<1>4. streams' \in Seq(StreamType) /\ DOMAIN streams' = DOMAIN streams
  <2>1. \A i \in 1..Len(streams) : DropFrom(streams[i], w) \in StreamType
    BY <1>1, <1>2
  <2> QED  BY <1>1, <2>1
<1>5. \A i \in DOMAIN streams : /\ Chained(win, streams'[i].windows) /\ Range(streams'[i].windows) \subseteq Windows(streams, loading)
  BY <1>1, <1>2, <1>3
<1> QED  BY <1>4, <1>5 DEF From

LEMMA FetchIsCancelledKeeps ==
  ASSUME AheadInv, NEW r \in AheadReaders, FetchIsCancelled(r)
  PROVE  AheadInv'
<1>1. /\ ahead[r].pc = "fetch" /\ win' = [win EXCEPT ![ahead[r].fetch].data = Lost] /\ loading' = loading \ {ahead[r].fetch}
      /\ streams' = [i \in DOMAIN streams |-> DropFrom(streams[i], ahead[r].fetch)]
      /\ ahead' = [ahead EXCEPT ![r] = NoRead] /\ UNCHANGED tick
  BY DEF FetchIsCancelled, Finish
<1>2. From(streams')
  BY <1>1, DroppedFits
<1>3. NoRead \in ReadType /\ NoRead.pc # "fetch" /\ ReadFits(NoRead, win')
  BY NoReadFits
<1>4. Lost \in {Bytes, Lost}
  OBVIOUS
<1> QED  BY <1>1, <1>2, <1>3, <1>4, FetchOver

\* Bytes after bytes.
LEMMA PiecesJoin ==
  ASSUME NEW o \in Nat, NEW m \in Nat, NEW n \in Nat
  PROVE  Piece(o, m) \o Piece(o + m, n) = Piece(o, m + n) /\ Piece(o, m) \in Seq(Nat) /\ Len(Piece(o, m)) = m
<1>1. ASSUME NEW p \in Nat, NEW k \in Nat
      PROVE  Piece(p, k) \in Seq(Nat) /\ Len(Piece(p, k)) = k /\ \A i \in 1..k : Piece(p, k)[i] = p + i - 1
  <2>1. \A i \in 1..k : p + i - 1 \in Nat
    OBVIOUS
  <2> QED  BY <2>1 DEF Piece
<1> DEFINE a == Piece(o, m)
           b == Piece(o + m, n)
           c == Piece(o, m + n)
<1>2. /\ a \in Seq(Nat) /\ Len(a) = m /\ (\A i \in 1..m : a[i] = o + i - 1)
      /\ b \in Seq(Nat) /\ Len(b) = n /\ (\A i \in 1..n : b[i] = o + m + i - 1)
      /\ c \in Seq(Nat) /\ Len(c) = m + n /\ (\A i \in 1..m + n : c[i] = o + i - 1)
  BY <1>1, o + m \in Nat, m + n \in Nat
<1> HIDE DEF a, b, c
<1>3. a \o b \in Seq(Nat) /\ Len(a \o b) = m + n
      /\ \A i \in 1..m + n : (a \o b)[i] = IF i <= m THEN a[i] ELSE b[i - m]
  BY <1>2, ConcatProperties
<1>4. ASSUME NEW i \in 1..m + n
      PROVE  (a \o b)[i] = c[i]
  <2>1. CASE i <= m
    BY <1>2, <1>3, <2>1
  <2>2. CASE ~ (i <= m)
    <3>1. i - m \in 1..n /\ o + m + (i - m) - 1 = o + i - 1
      BY <2>2
    <3> QED  BY <1>2, <1>3, <2>2, <3>1
  <2> QED  BY <2>1, <2>2
<1>5. a \o b = c
  BY <1>2, <1>3, <1>4, SeqEqual
<1> QED  BY <1>2, <1>5 DEF a, b, c

\* What a part gives: from where the read has got to its own end or the read's.
SliceOf(a, w) ==
    [k \in 1..Min({a.end, w.end}) - Max({a.offset, w.start}) |-> Max({a.offset, w.start}) + k - 1]

LEMMA SliceIs ==
  ASSUME WindowsAre, NEW a \in ReadType, PartsFit(a, win), a.parts # <<>>, a.offset <= a.end,
         NEW w, w = win[a.parts[1]]
  PROVE  \E n \in Nat : /\ a.got \o SliceOf(a, w) = Piece(a.offset, Len(a.got) + n)
                        /\ a.got \o SliceOf(a, w) \in Seq(Nat) /\ Len(a.got \o SliceOf(a, w)) = Len(a.got) + n
                        /\ Len(a.parts) = 1 => Len(a.got) + n = a.end - a.offset
                        /\ Len(a.parts) > 1 => win[a.parts[2]].start = a.offset + Len(a.got) + n
<1> DEFINE m == Max({a.offset, w.start})
           h == Min({a.end, w.end})
           g == Len(a.got)
<1>1. /\ a.offset \in Nat /\ a.end \in Nat /\ a.got \in Seq(Nat) /\ g \in Nat /\ a.got = Piece(a.offset, g)
      /\ a.parts \in Seq(Nat) /\ Len(a.parts) \in Nat /\ DOMAIN a.parts = 1..Len(a.parts) /\ Len(a.parts) >= 1
  BY DEF ReadType, PartsFit
<1>2. 1 \in DOMAIN a.parts /\ a.parts[1] \in DOMAIN win
  <2>1. Chained(win, a.parts) /\ 1 \in DOMAIN a.parts
    BY <1>1 DEF PartsFit
  <2> QED  BY <2>1 DEF Chained
<1>3. w \in WindowType /\ w.start < w.end
  BY <1>2 DEF WindowsAre
<1>4. w.start \in Nat /\ w.end \in Nat
  BY <1>3 DEF WindowType
<1>5. /\ w.end > a.offset /\ w.start < a.end
      /\ (a.got = <<>> /\ w.start <= a.offset) \/ w.start = a.offset + g
  BY <1>2 DEF PartsFit
<1>6. m \in {a.offset, w.start} /\ m >= a.offset /\ m >= w.start
  <2>1. a.offset \in Int /\ w.start \in Int
    BY <1>1, <1>4
  <2> QED  BY <2>1, MostOfTwo
<1>7. h \in {a.end, w.end} /\ h <= a.end /\ h <= w.end
  <2>1. a.end \in Int /\ w.end \in Int
    BY <1>1, <1>4
  <2> QED  BY <2>1, LeastOfTwo
<1>8. SliceOf(a, w) = Piece(m, h - m)
  BY DEF SliceOf, Piece
<1>9. a.got = <<>> => g = 0
  OBVIOUS
<1> HIDE DEF m, h, g
<1>10. m = a.offset + g
  <2>1. m \in Nat /\ (m = a.offset \/ m = w.start) /\ m >= a.offset /\ m >= w.start
    BY <1>1, <1>4, <1>6
  <2>2. CASE g = 0 /\ w.start <= a.offset
    BY <1>1, <1>4, <2>1, <2>2
  <2>3. CASE w.start = a.offset + g
    BY <1>1, <1>4, <2>1, <2>3
  <2> QED  BY <1>5, <1>9, <2>2, <2>3
<1>11. h - m \in Nat /\ h \in Nat /\ m \in Nat
  <2>1. m \in Nat /\ h \in Nat
    BY <1>1, <1>4, <1>6, <1>7
  <2>2. m <= a.end /\ m <= w.end
    <3>1. CASE m = a.offset
      BY <1>1, <1>4, <1>5, <3>1
    <3>2. CASE m = w.start
      <4>1. w.start < a.end /\ w.start < w.end
        BY <1>3, <1>5
      <4> QED  BY <1>1, <1>4, <3>2, <4>1
    <3> QED  BY <1>6, <3>1, <3>2
  <2>3. m <= h
    BY <1>7, <2>2
  <2> QED  BY <2>1, <2>3
<1> DEFINE n == h - m
<1>12. n \in Nat /\ h = m + n
  BY <1>11
<1>13. SliceOf(a, w) = Piece(a.offset + g, n)
  BY <1>8, <1>10
<1> HIDE DEF n
<1>14. /\ Piece(a.offset, g) \o Piece(a.offset + g, n) = Piece(a.offset, g + n)
       /\ Piece(a.offset, g + n) \in Seq(Nat) /\ Len(Piece(a.offset, g + n)) = g + n
  <2>1. g + n \in Nat /\ g \in Nat /\ n \in Nat /\ a.offset \in Nat
    BY <1>1, <1>12
  <2>2. Piece(a.offset, g) \o Piece(a.offset + g, n) = Piece(a.offset, g + n)
    BY <2>1, PiecesJoin
  <2>3. Piece(a.offset, g + n) \in Seq(Nat) /\ Len(Piece(a.offset, g + n)) = g + n
    BY <2>1, PiecesJoin
  <2> QED  BY <2>2, <2>3
<1>15. a.got \o SliceOf(a, w) = Piece(a.offset, g + n)
  BY <1>1, <1>13, <1>14
<1>16. ASSUME Len(a.parts) = 1
       PROVE  g + n = a.end - a.offset
  <2>1. w.end >= a.end
    BY <1>2, <1>16 DEF PartsFit
  <2>2. h = a.end
    BY <1>1, <1>4, <1>7, <2>1
  <2> QED  BY <1>1, <1>10, <1>12, <2>2
<1>17. ASSUME Len(a.parts) > 1
       PROVE  win[a.parts[2]].start = a.offset + g + n
  <2>1. 1 \in DOMAIN a.parts /\ 2 \in DOMAIN a.parts
    BY <1>1, <1>17
  <2>2. win[a.parts[2]].start = w.end
    <3>1. Chained(win, a.parts) /\ 2 = 1 + 1
      BY DEF PartsFit
    <3> QED  BY <2>1, <3>1 DEF Chained
  <2>3. win[a.parts[2]].start < a.end
    BY <2>1 DEF PartsFit
  <2>4. h = w.end
    BY <1>1, <1>4, <1>7, <2>2, <2>3
  <2> QED  BY <1>1, <1>10, <1>12, <2>2, <2>4
<1> QED  BY <1>12, <1>14, <1>15, <1>16, <1>17 DEF g

LEMMA PartArrivesKeeps ==
  ASSUME AheadInv, NEW r \in AheadReaders, PartArrives(r)
  PROVE  AheadInv'
<1> DEFINE a == ahead[r]
           w == win[Head(a.parts)]
<1>1. /\ a.pc = "parts" /\ UNCHANGED <<streams, win, loading, tick, idle>>
      /\ ahead' = [ahead EXCEPT ![r] =
             IF w.data = Lost THEN [a EXCEPT !.pc = "direct", !.parts = <<>>, !.got = <<>>]
             ELSE [a EXCEPT !.parts = Tail(a.parts), !.got = a.got \o SliceOf(a, w),
                            !.pc = IF Len(a.parts) = 1 THEN "done" ELSE "parts"]]
  BY DEF PartArrives, SliceOf
<1>2. ahead \in [AheadReaders -> ReadType] /\ a \in ReadType /\ ReadFits(a, win)
  BY DEF AheadInv, ReadsAre
<1>3. a.parts # <<>> /\ PartsFit(a, win) /\ a.offset <= a.end /\ a.parts \in Seq(Nat)
      /\ a.offset \in Nat /\ a.end \in Nat /\ a.got \in Seq(Nat)
  BY <1>1, <1>2 DEF ReadFits, ReadType
<1>0. ahead[r].pc # "fetch" /\ ahead[r] = a
  BY <1>1
<1> HIDE DEF a
<1>4. From(streams') /\ tick' \in Nat
  <2>1. From(streams)
    BY TheirOwn DEF AheadInv
  <2>2. tick \in Nat
    BY DEF AheadInv, WindowsAre
  <2> QED  BY <1>1, <2>1, <2>2
<1>5. CASE w.data = Lost
  <2> DEFINE e == [a EXCEPT !.pc = "direct", !.parts = <<>>, !.got = <<>>]
  <2>1. ahead' = [ahead EXCEPT ![r] = e]
    BY <1>1, <1>5
  <2>2. e \in ReadType /\ e.pc = "direct" /\ e.offset = a.offset /\ e.end = a.end
    <3>1. <<>> \in Seq(Nat) /\ "direct" \in ReadPcs
      BY DEF ReadPcs
    <3> QED  BY <1>2, <3>1 DEF ReadType
  <2> HIDE DEF e
  <2>3. ReadFits(e, win)
    BY <1>3, <2>2 DEF ReadFits
  <2> QED  BY <1>0, <1>1, <1>4, <2>1, <2>2, <2>3, ReadGoesOn
<1>6. CASE w.data # Lost
  <2> DEFINE got == a.got \o SliceOf(a, w)
             stage == IF Len(a.parts) = 1 THEN "done" ELSE "parts"
             e == [a EXCEPT !.parts = Tail(a.parts), !.got = got, !.pc = stage]
  <2>1. ahead' = [ahead EXCEPT ![r] = e]
    BY <1>1, <1>6
  <2>2. a.parts[1] = Head(a.parts)
    BY <1>3
  <2>3. PICK n \in Nat : /\ got = Piece(a.offset, Len(a.got) + n) /\ got \in Seq(Nat) /\ Len(got) = Len(a.got) + n
                         /\ Len(a.parts) = 1 => Len(a.got) + n = a.end - a.offset
                         /\ Len(a.parts) > 1 => win[a.parts[2]].start = a.offset + Len(a.got) + n
    BY <1>2, <1>3, <2>2, SliceIs DEF AheadInv
  <2>4. Tail(a.parts) \in Seq(Nat) /\ stage \in ReadPcs
    BY <1>3 DEF ReadPcs
  <2> HIDE DEF got, w
  <2>5. e \in ReadType /\ e.parts = Tail(a.parts) /\ e.got = got /\ e.pc = stage /\ e.offset = a.offset /\ e.end = a.end
    BY <1>2, <2>3, <2>4 DEF ReadType
  <2> HIDE DEF e
  <2>6. Len(a.got) \in Nat /\ Len(a.parts) \in Nat /\ Len(a.parts) >= 1 /\ DOMAIN a.parts = 1..Len(a.parts)
    BY <1>3
  <2>7. ASSUME Len(a.parts) = 1
        PROVE  ReadFits(e, win)
    <3>1. e.pc = "done" /\ e.got = Piece(e.offset, e.end - e.offset)
      BY <2>3, <2>5, <2>7
    <3> QED  BY <1>3, <2>5, <3>1 DEF ReadFits
  <2>8. ASSUME Len(a.parts) > 1
        PROVE  ReadFits(e, win)
    <3> DEFINE q == a.parts
    <3>1. Chained(win, q)
      BY <1>3 DEF PartsFit
    <3>2. /\ Tail(q) \in Seq(Nat) /\ Len(Tail(q)) = Len(q) - 1 /\ (\A k \in 1..Len(q) - 1 : Tail(q)[k] = q[k + 1])
          /\ DOMAIN Tail(q) = 1..Len(q) - 1 /\ Tail(q) # <<>>
      <4>1. /\ Tail(q) \in Seq(Nat) /\ Len(Tail(q)) = Len(q) - 1 /\ \A k \in 1..Len(Tail(q)) : Tail(q)[k] = q[k + 1]
        BY <1>3, HeadTailProperties
      <4>2. DOMAIN Tail(q) = 1..Len(Tail(q))
        BY <4>1
      <4>3. Tail(q) # <<>>
        <5>1. Len(Tail(q)) > 0
          BY <2>6, <2>8, <4>1
        <5>2. ASSUME NEW t, Len(t) > 0
              PROVE  t # <<>>
          BY <5>2
        <5> QED  BY <5>1, <5>2, Zenon
      <4> QED  BY <4>1, <4>2, <4>3
    <3>3. SubSeq(q, 2, Len(q)) = Tail(q)
      BY <1>3, TailIsSubSeq
    <3>4. Chained(win, SubSeq(q, 2, Len(q)))
      BY <2>6, <3>1, SubChain
    <3> HIDE DEF q
    <3>5. Chained(win, e.parts) /\ e.parts # <<>>
      BY <2>5, <3>2, <3>3, <3>4 DEF q
    <3>6. /\ e.parts[1] = q[2] /\ e.parts[Len(e.parts)] = q[Len(q)]
          /\ \A k \in DOMAIN e.parts : k + 1 \in DOMAIN q /\ e.parts[k] = q[k + 1]
      <4>1. e.parts = Tail(q)
        BY <2>5 DEF q
      <4>2. Len(q) \in Nat /\ Len(q) > 1 /\ DOMAIN q = 1..Len(q)
        BY <2>6, <2>8 DEF q
      <4>3. 1 \in 1..Len(q) - 1 /\ Len(q) - 1 \in 1..Len(q) - 1 /\ (Len(q) - 1) + 1 = Len(q) /\ 1 + 1 = 2
        BY <4>2
      <4> QED  BY <3>2, <4>1, <4>2, <4>3
    <3>7. /\ win[q[Len(q)]].end >= a.end
          /\ \A k \in DOMAIN q : win[q[k]].end > a.offset /\ win[q[k]].start < a.end
      BY <1>3 DEF PartsFit, q
    <3>8. win[q[2]].start = a.offset + Len(got) /\ got = Piece(a.offset, Len(got))
      <4>1. Len(a.got) + n = Len(got) /\ a.offset + Len(a.got) + n = a.offset + Len(got)
        <5>1. n \in Nat /\ Len(got) = Len(a.got) + n
          BY <2>3
        <5> QED  BY <1>3, <2>6, <5>1
      <4> QED  BY <2>3, <2>8, <4>1 DEF q
    <3>9. PartsFit(e, win)
      BY <2>5, <3>5, <3>6, <3>7, <3>8 DEF PartsFit
    <3>10. e.pc = "parts"
      BY <2>5, <2>6, <2>8
    <3> QED  BY <1>3, <2>5, <3>5, <3>9, <3>10 DEF ReadFits
  <2>9. ReadFits(e, win)
    <3>1. Len(a.parts) = 1 \/ Len(a.parts) > 1
      BY <2>6
    <3> QED  BY <2>7, <2>8, <3>1
  <2>10. e.pc # "fetch"
    BY <2>5
  <2> QED  BY <1>0, <1>1, <1>4, <2>1, <2>5, <2>9, <2>10, ReadGoesOn
<1> QED  BY <1>5, <1>6

LEMMA DirectReadsKeeps ==
  ASSUME AheadInv, NEW r \in AheadReaders, DirectReads(r)
  PROVE  AheadInv'
<1> DEFINE a == ahead[r]
           n == a.end - a.offset
           e == [a EXCEPT !.pc = "done", !.got = Piece(a.offset, n)]
<1>1. /\ a.pc = "direct" /\ UNCHANGED <<streams, win, loading, tick, idle>>
      /\ ahead' = [ahead EXCEPT ![r].pc = "done", ![r].got = Piece(a.offset, n)]
  BY DEF DirectReads, Piece
<1>2. ahead \in [AheadReaders -> ReadType] /\ a \in ReadType /\ ReadFits(a, win) /\ tick \in Nat /\ From(streams)
  BY TheirOwn DEF AheadInv, ReadsAre, WindowsAre
<1>3. a.offset \in Nat /\ a.end \in Nat /\ a.offset <= a.end
  BY <1>2 DEF ReadFits, ReadType
<1>4. n \in Nat /\ 0 \in Nat
  BY <1>3
<1>5. Piece(a.offset, n) \in Seq(Nat)
  <2> HIDE DEF n
  <2> QED  BY <1>3, <1>4, PiecesJoin
<1>6. ahead' = [ahead EXCEPT ![r] = e]
  BY <1>1, <1>2
<1>7. e \in ReadType /\ e.pc = "done" /\ e.got = Piece(a.offset, n) /\ e.offset = a.offset /\ e.end = a.end
  BY <1>2, <1>5 DEF ReadType, ReadPcs
<1>8. n = e.end - e.offset
  BY <1>7
<1> HIDE DEF e, n
<1>9. ReadFits(e, win)
  BY <1>3, <1>7, <1>8 DEF ReadFits
<1> QED  BY <1>1, <1>2, <1>6, <1>7, <1>9, ReadGoesOn

LEMMA ReadEndsKeeps ==
  ASSUME AheadInv, NEW r \in AheadReaders, ReadEnds(r)
  PROVE  AheadInv'
<1>1. /\ ahead' = [ahead EXCEPT ![r] = NoRead] /\ UNCHANGED <<streams, win, loading, tick>> /\ ahead[r].pc # "fetch"
  BY DEF ReadEnds, Finish
<1>2. From(streams) /\ tick \in Nat
  BY TheirOwn DEF AheadInv, WindowsAre
<1>3. NoRead \in ReadType /\ NoRead.pc # "fetch" /\ ReadFits(NoRead, win)
  BY NoReadFits
<1> QED  BY <1>1, <1>2, <1>3, ReadGoesOn

LEMMA IdleFiresKeeps ==
  ASSUME AheadInv, IdleFires
  PROVE  AheadInv'
<1>1. streams' = <<>> /\ UNCHANGED <<win, loading, tick, ahead>>
  BY DEF IdleFires
<1>2. From(streams')
  BY <1>1 DEF From
<1>3. HeldFits'
  BY <1>1, <1>2, FromHoldsLess DEF AheadInv, HeldFits, HeldBytes, Held, Windows
<1>4. StreamsAre'
  BY <1>1 DEF StreamsAre
<1> QED  BY <1>1, <1>3, <1>4 DEF AheadInv, WindowsAre, ReadsAre, Fetching

LEMMA AheadStep ==
  ASSUME AheadInv, AheadNext
  PROVE  AheadInv'
<1>1. ASSUME NEW r \in AheadReaders, NEW length \in ReadLengths,
             NEW offset \in AheadStarts \union {streams[i].next : i \in DOMAIN streams}, ReadBegins(r, offset, length)
      PROVE  AheadInv'
  <2>1. length \in Nat
    BY AheadAssumption
  <2>2. offset \in Nat
    <3>1. \A i \in DOMAIN streams : streams[i] \in StreamType
      BY DEF AheadInv, StreamsAre
    <3> QED  BY <3>1, AheadAssumption DEF StreamType
  <2> QED  BY <1>1, <2>1, <2>2, DirectBegins, PlanKeeps
<1>2. ASSUME NEW r \in AheadReaders, FetchEnds(r, Bytes) \/ FetchEnds(r, Lost)
      PROVE  AheadInv'
  <2>1. Bytes \in {Bytes, Lost} /\ Lost \in {Bytes, Lost}
    OBVIOUS
  <2> QED  BY <1>2, <2>1, FetchEndsKeeps
<1> QED  BY <1>1, <1>2, FetchIsCancelledKeeps, PartArrivesKeeps, DirectReadsKeeps, ReadEndsKeeps, IdleFiresKeeps DEF AheadNext

LEMMA AheadProperties ==
  ASSUME AheadInv
  PROVE  AheadIsExact /\ AheadIsBounded
<1>1. AheadIsExact
  BY DEF AheadIsExact, AheadInv, ReadsAre, ReadFits, Piece
<1>2. ASSUME NEW i \in DOMAIN streams, NEW k \in DOMAIN streams[i].windows, k > 1
      PROVE  win[streams[i].windows[k]].start = win[streams[i].windows[k - 1]].end
  <2>1. Chained(win, streams[i].windows)
    BY DEF AheadInv, StreamsAre
  <2>2. k - 1 \in DOMAIN streams[i].windows /\ k = (k - 1) + 1
    BY <1>2, <2>1 DEF Chained
  <2> QED  BY <2>1, <2>2 DEF Chained
<1>3. AheadIsBounded
  BY <1>2 DEF AheadIsBounded, AheadInv, HeldFits, Fetching
<1> QED  BY <1>1, <1>3

(***************************************************************************)
(* Sequences whose elements are all different; sizes added up over a set.  *)
(***************************************************************************)
Once(s) == \A i, j \in DOMAIN s : s[i] = s[j] => i = j

LEMMA RangeIs ==
  ASSUME NEW S, NEW s \in Seq(S)
  PROVE  Range(s) \subseteq S /\ (s = <<>> <=> Range(s) = {})
<1>1. Range(s) \subseteq S
  BY DEF Range
<1>2. s # <<>> => s[1] \in Range(s)
  BY EmptySeq, LenProperties DEF Range
<1>3. s = <<>> => Range(s) = {}
  BY DEF Range
<1> QED  BY <1>1, <1>2, <1>3

LEMMA Appended ==
  ASSUME NEW S, NEW s \in Seq(S), NEW x \in S
  PROVE  /\ Append(s, x) \in Seq(S)
         /\ Range(Append(s, x)) = Range(s) \cup {x}
         /\ Once(s) /\ x \notin Range(s) => Once(Append(s, x))
<1> DEFINE t == Append(s, x)
<1>1. t \in Seq(S) /\ Len(t) = Len(s) + 1 /\ (\A i \in 1..Len(s) : t[i] = s[i]) /\ t[Len(s) + 1] = x
  BY AppendProperties
<1>2. Len(s) \in Nat /\ DOMAIN s = 1..Len(s) /\ DOMAIN t = 1..Len(s) + 1
  BY <1>1, LenProperties
<1> HIDE DEF t
<1>3. DOMAIN t = DOMAIN s \cup {Len(s) + 1} /\ Len(s) + 1 \notin DOMAIN s
  BY <1>2
<1>4. Range(t) = Range(s) \cup {x}
  BY <1>1, <1>2, <1>3 DEF Range
<1>5. ASSUME Once(s), x \notin Range(s), NEW i \in DOMAIN t, NEW j \in DOMAIN t, t[i] = t[j]
      PROVE  i = j
  <2>1. \A k \in DOMAIN s : s[k] # x
    BY <1>5 DEF Range
  <2> QED  BY <1>1, <1>2, <1>3, <1>5, <2>1 DEF Once
<1>6. Once(s) /\ x \notin Range(s) => Once(t)
  BY <1>5 DEF Once
<1> QED  BY <1>1, <1>4, <1>6 DEF t

LEMMA Tailed ==
  ASSUME NEW S, NEW s \in Seq(S), s # <<>>
  PROVE  /\ Tail(s) \in Seq(S) /\ Head(s) \in Range(s)
         /\ Range(s) = Range(Tail(s)) \cup {Head(s)}
<1> DEFINE t == Tail(s)
           n == Len(s)
<1>1. t \in Seq(S) /\ Len(t) = n - 1 /\ \A i \in 1..Len(t) : t[i] = s[i + 1]
  BY HeadTailProperties
<1>2. n \in Nat /\ n > 0 /\ DOMAIN s = 1..n /\ DOMAIN t = 1..n - 1 /\ Head(s) = s[1]
  BY <1>1, LenProperties, EmptySeq
<1> HIDE DEF t, n
<1>3. Head(s) \in Range(s)
  BY <1>2 DEF Range
<1>4. \A i \in DOMAIN t : i + 1 \in DOMAIN s /\ t[i] = s[i + 1]
  BY <1>1, <1>2
<1>5. \A i \in DOMAIN s : i = 1 \/ (i - 1 \in DOMAIN t /\ t[i - 1] = s[i])
  <2> TAKE i \in DOMAIN s
  <2>1. CASE i # 1
    <3>1. i - 1 \in DOMAIN t /\ (i - 1) + 1 = i
      BY <1>2, <2>1
    <3> QED  BY <1>4, <3>1
  <2> QED  BY <2>1
<1>6. Range(t) \subseteq Range(s)
  BY <1>4 DEF Range
<1>7. Range(s) \subseteq Range(t) \cup {Head(s)}
  BY <1>2, <1>5 DEF Range
<1> QED  BY <1>1, <1>3, <1>6, <1>7 DEF t

LEMMA Joined ==
  ASSUME NEW S, NEW s \in Seq(S), NEW t \in Seq(S)
  PROVE  /\ s \o t \in Seq(S) /\ Len(s \o t) = Len(s) + Len(t)
         /\ Range(s \o t) = Range(s) \cup Range(t)
         /\ Once(s) /\ Once(t) /\ Range(s) \cap Range(t) = {} => Once(s \o t)
<1> DEFINE u == s \o t
           n == Len(s)
           m == Len(t)
<1>1. u \in Seq(S) /\ Len(u) = n + m /\ \A i \in 1..n + m : u[i] = IF i <= n THEN s[i] ELSE t[i - n]
  BY ConcatProperties
<1>2. n \in Nat /\ m \in Nat /\ DOMAIN s = 1..n /\ DOMAIN t = 1..m /\ DOMAIN u = 1..n + m
  BY <1>1, LenProperties
<1> HIDE DEF u, n, m
<1>3. \A i \in DOMAIN s : i \in DOMAIN u /\ u[i] = s[i]
  BY <1>1, <1>2
<1>4. \A i \in DOMAIN t : i + n \in DOMAIN u /\ u[i + n] = t[i]
  BY <1>1, <1>2
<1>5. \A i \in DOMAIN u : \/ i \in DOMAIN s /\ u[i] = s[i]
                          \/ i \notin DOMAIN s /\ i - n \in DOMAIN t /\ u[i] = t[i - n]
  BY <1>1, <1>2
<1>6. Range(u) = Range(s) \cup Range(t)
  <2>1. Range(u) \subseteq Range(s) \cup Range(t)
    BY <1>5 DEF Range
  <2>2. Range(s) \subseteq Range(u) /\ Range(t) \subseteq Range(u)
    BY <1>3, <1>4 DEF Range
  <2> QED  BY <2>1, <2>2
<1>7. ASSUME Once(s), Once(t), Range(s) \cap Range(t) = {}, NEW i \in DOMAIN u, NEW j \in DOMAIN u, u[i] = u[j]
      PROVE  i = j
  <2>1. \A a \in DOMAIN s, b \in DOMAIN t : s[a] # t[b]
    BY <1>7 DEF Range
  <2>2. i \in Int /\ j \in Int
    BY <1>2
  <2>3. CASE i \in DOMAIN s /\ j \in DOMAIN s
    BY <1>3, <1>7, <2>3 DEF Once
  <2>4. CASE i \notin DOMAIN s /\ j \notin DOMAIN s
    <3>1. i - n \in DOMAIN t /\ j - n \in DOMAIN t /\ t[i - n] = t[j - n]
      BY <1>5, <1>7, <2>4
    <3>2. i - n = j - n
      BY <1>7, <3>1 DEF Once
    <3> QED  BY <1>2, <2>2, <3>2
  <2>5. CASE i \in DOMAIN s /\ j \notin DOMAIN s
    BY <1>5, <1>7, <2>1, <2>5
  <2>6. CASE i \notin DOMAIN s /\ j \in DOMAIN s
    BY <1>5, <1>7, <2>1, <2>6
  <2> QED  BY <2>3, <2>4, <2>5, <2>6
<1>8. Once(s) /\ Once(t) /\ Range(s) \cap Range(t) = {} => Once(u)
  BY <1>7 DEF Once
<1> QED  BY <1>1, <1>6, <1>8 DEF u, n, m

LEMMA Removed ==
  ASSUME NEW S, NEW s \in Seq(S), Once(s), NEW k \in DOMAIN s
  PROVE  LET t == RemoveAt(s, k) IN
         /\ t \in Seq(S) /\ Len(t) = Len(s) - 1 /\ Once(t)
         /\ Range(t) = Range(s) \ {s[k]}
<1> DEFINE L == Len(s)
           a == SubSeq(s, 1, k - 1)
           b == SubSeq(s, k + 1, L)
           t == RemoveAt(s, k)
<1>1. L \in Nat /\ k \in Nat /\ 1 <= k /\ k <= L /\ DOMAIN s = 1..L /\ \A n \in 1..L : s[n] \in S
  BY LenProperties, ElementOfSeq
<1>2. /\ a \in Seq(S) /\ Len(a) = k - 1 /\ (\A n \in 1..k - 1 : a[n] = s[n])
      /\ b \in Seq(S) /\ Len(b) = L - k /\ (\A n \in 1..L - k : b[n] = s[k + n])
  BY <1>1, SMTT(30)
<1>3. t = a \o b
  BY DEF RemoveAt
<1> HIDE DEF a, b, L, t
<1>4. t \in Seq(S) /\ Len(t) = L - 1 /\ \A n \in 1..L - 1 : t[n] = IF n <= k - 1 THEN a[n] ELSE b[n - (k - 1)]
  <2>1. /\ t \in Seq(S) /\ Len(t) = Len(a) + Len(b)
        /\ \A n \in 1..Len(a) + Len(b) : t[n] = IF n <= Len(a) THEN a[n] ELSE b[n - Len(a)]
    BY <1>2, <1>3, ConcatProperties
  <2>2. Len(a) = k - 1 /\ Len(a) + Len(b) = L - 1
    BY <1>1, <1>2
  <2> QED  BY <2>1, <2>2
<1>5. DOMAIN t = 1..L - 1
  BY <1>4, LenProperties
<1>6. \A n \in 1..L - 1 : t[n] = IF n < k THEN s[n] ELSE s[n + 1]
  <2> TAKE n \in 1..L - 1
  <2>1. CASE n < k
    <3>1. n <= k - 1 /\ n \in 1..k - 1
      BY <1>1, <2>1
    <3> QED  BY <1>2, <1>4, <2>1, <3>1
  <2>2. CASE ~ (n < k)
    <3>1. ~ (n <= k - 1) /\ n - (k - 1) \in 1..L - k /\ k + (n - (k - 1)) = n + 1
      BY <1>1, <2>2
    <3> QED  BY <1>2, <1>4, <2>2, <3>1
  <2> QED  BY <2>1, <2>2
<1>7. ASSUME NEW i \in DOMAIN t, NEW j \in DOMAIN t, t[i] = t[j]
      PROVE  i = j
  <2> DEFINE p == IF i < k THEN i ELSE i + 1
             q == IF j < k THEN j ELSE j + 1
  <2>1. p \in DOMAIN s /\ q \in DOMAIN s
    BY <1>1, <1>5
  <2>2. s[p] = t[i] /\ s[q] = t[j]
    BY <1>5, <1>6
  <2>3. p = q => i = j
    BY <1>1, <1>5
  <2> HIDE DEF p, q
  <2>4. p = q
    BY <1>7, <2>1, <2>2 DEF Once
  <2> QED  BY <2>3, <2>4
<1>8. Range(t) \subseteq Range(s) \ {s[k]}
  <2>1. ASSUME NEW n \in DOMAIN t
        PROVE  \E p \in DOMAIN s : p # k /\ t[n] = s[p]
    <3>1. (IF n < k THEN n ELSE n + 1) \in DOMAIN s /\ (IF n < k THEN n ELSE n + 1) # k
      BY <1>1, <1>5
    <3> QED  BY <1>5, <1>6, <3>1
  <2> QED  BY <2>1 DEF Range, Once
<1>9. ASSUME NEW p \in DOMAIN s, p # k
      PROVE  s[p] \in Range(t)
  <2>1. CASE p < k
    <3>1. p \in 1..L - 1 /\ t[p] = s[p]
      BY <1>1, <1>6, <2>1
    <3> QED  BY <1>5, <3>1 DEF Range
  <2>2. CASE p > k
    <3>1. p - 1 \in 1..L - 1 /\ ~ (p - 1 < k) /\ (p - 1) + 1 = p
      BY <1>1, <2>2
    <3>2. t[p - 1] = s[p]
      BY <1>6, <3>1
    <3> QED  BY <1>5, <3>1, <3>2 DEF Range
  <2> QED  BY <1>1, <1>9, <2>1, <2>2
<1>10. Range(s) \ {s[k]} \subseteq Range(t)
  BY <1>9 DEF Range
<1> QED  BY <1>4, <1>7, <1>8, <1>10 DEF L, t, Once

\* An image of a finite set is finite.
LEMMA ImageIsFinite ==
  ASSUME NEW f, IsFiniteSet(DOMAIN f)
  PROVE  IsFiniteSet({f[x] : x \in DOMAIN f})
<1> DEFINE T == {f[x] : x \in DOMAIN f}
           g == [x \in DOMAIN f |-> f[x]]
<1>1. g \in Surjection(DOMAIN f, T)
  BY DEF Surjection
<1> HIDE DEF g, T
<1> QED  BY <1>1, FS_Surjection DEF T

\* The sizes of the buckets of S, added up.
Weight(size, S) == Cardinality(UNION {{b} \X (1..size[b]) : b \in S})

LEMMA WeightAdds ==
  ASSUME NEW D, NEW size \in [D -> Nat], NEW S \in SUBSET D, IsFiniteSet(S)
  PROVE  /\ Weight(size, S) \in Nat
         /\ \A b \in D \ S : Weight(size, S \cup {b}) = Weight(size, S) + size[b]
<1> DEFINE P(b) == {b} \X (1..size[b])
           U == UNION {P(b) : b \in S}
<1>1. \A b \in D : IsFiniteSet(P(b)) /\ Cardinality(P(b)) = size[b]
  <2> TAKE b \in D
  <2>1. size[b] \in Nat
    OBVIOUS
  <2>2. IsFiniteSet({b}) /\ Cardinality({b}) = 1
    BY FS_Singleton
  <2>3. IsFiniteSet(1..size[b]) /\ Cardinality(1..size[b]) = size[b]
    BY <2>1, FS_Interval
  <2>4. IsFiniteSet({b} \X (1..size[b])) /\ Cardinality({b} \X (1..size[b])) = Cardinality({b}) * Cardinality(1..size[b])
    BY <2>2, <2>3, FS_Product
  <2> QED  BY <2>1, <2>2, <2>3, <2>4
<1>2. IsFiniteSet(U)
  <2> DEFINE f == [b \in S |-> P(b)]
  <2>1. IsFiniteSet({f[x] : x \in DOMAIN f})
    <3>1. DOMAIN f = S
      OBVIOUS
    <3> QED  BY <3>1, ImageIsFinite
  <2>2. {f[x] : x \in DOMAIN f} = {P(b) : b \in S}
    OBVIOUS
  <2>3. \A T \in {P(b) : b \in S} : IsFiniteSet(T)
    BY <1>1
  <2> HIDE DEF f
  <2> QED  BY <2>1, <2>2, <2>3, FS_UNION
<1>3. Cardinality(U) \in Nat
  BY <1>2, FS_CardinalityType
<1>4. ASSUME NEW b \in D \ S
      PROVE  Weight(size, S \cup {b}) = Weight(size, S) + size[b]
  <2>1. UNION {P(c) : c \in S \cup {b}} = U \cup P(b)
    OBVIOUS
  <2>2. U \cap P(b) = {}
    OBVIOUS
  <2> HIDE DEF U, P
  <2>3. Cardinality(U \cup P(b)) = Cardinality(U) + Cardinality(P(b)) - Cardinality(U \cap P(b))
    BY <1>1, <1>2, FS_Union
  <2>4. Cardinality(U \cup P(b)) = Cardinality(U) + size[b]
    <3>1. Cardinality(U \cap P(b)) = 0
      BY <2>2, FS_EmptySet
    <3>2. Cardinality(P(b)) = size[b] /\ size[b] \in Nat
      BY <1>1
    <3> QED  BY <1>3, <2>3, <3>1, <3>2
  <2>5. Weight(size, S \cup {b}) = Cardinality(U \cup P(b)) /\ Weight(size, S) = Cardinality(U)
    BY <2>1 DEF Weight, U, P
  <2> QED  BY <2>4, <2>5
<1>5. Weight(size, S) = Cardinality(U)
  BY DEF Weight
<1> HIDE DEF U
<1> QED  BY <1>3, <1>4, <1>5

(***************************************************************************)
(* Bags of findings, each reported once.                                   *)
(***************************************************************************)
Tagged(fs, ref) == {[f EXCEPT !.ref = ref] : f \in fs}

LEMMA BagOfBoth ==
  ASSUME NEW B, NEW S, S \cap DOMAIN B = {}, \A f \in DOMAIN B : B[f] = 1
  PROVE  /\ DOMAIN (B (+) SetToBag(S)) = DOMAIN B \cup S
         /\ \A f \in DOMAIN B \cup S : (B (+) SetToBag(S))[f] = 1
<1>1. DOMAIN SetToBag(S) = S /\ \A f \in S : SetToBag(S)[f] = 1
  BY DEF SetToBag
<1> QED  BY <1>1 DEF (+)

LEMMA BagOfSets ==
  ASSUME NEW S, NEW T, S \cap T = {}
  PROVE  SetToBag(S) (+) SetToBag(T) = SetToBag(S \cup T)
<1>1. DOMAIN SetToBag(S) = S /\ (\A f \in S : SetToBag(S)[f] = 1) /\ DOMAIN SetToBag(T) = T /\ \A f \in T : SetToBag(T)[f] = 1
  BY DEF SetToBag
<1>2. SetToBag(S \cup T) = [f \in S \cup T |-> 1]
  BY DEF SetToBag
<1>3. SetToBag(S) (+) SetToBag(T) = [f \in S \cup T |-> (IF f \in S THEN SetToBag(S)[f] ELSE 0) + (IF f \in T THEN SetToBag(T)[f] ELSE 0)]
  BY <1>1, Zenon DEF (+)
<1>4. \A f \in S \cup T : (IF f \in S THEN SetToBag(S)[f] ELSE 0) + (IF f \in T THEN SetToBag(T)[f] ELSE 0) = 1
  BY <1>1
<1> QED  BY <1>2, <1>3, <1>4

LEMMA TaggedIs ==
  ASSUME NEW stage, NEW symptom, NEW about, NEW ref
  PROVE  [Finding(stage, symptom, about) EXCEPT !.ref = ref] = [stage |-> stage, symptom |-> symptom, about |-> about, ref |-> ref]
  BY DEF Finding

LEMMA TaggedIsFinite ==
  ASSUME NEW fs, IsFiniteSet(fs), NEW ref
  PROVE  IsFiniteSet(Tagged(fs, ref))
<1> DEFINE g == [f \in fs |-> [f EXCEPT !.ref = ref]]
<1>1. IsFiniteSet({g[x] : x \in DOMAIN g})
  <2>1. DOMAIN g = fs
    OBVIOUS
  <2> HIDE DEF g
  <2> QED  BY <2>1, ImageIsFinite
<1>2. {g[x] : x \in DOMAIN g} = Tagged(fs, ref)
  BY DEF Tagged
<1> QED  BY <1>1, <1>2

\* What is reported once more is there once, if it was not there before.
LEMMA ReportAdds ==
  ASSUME NEW fs, NEW ref, Report(fs, ref), IsFiniteSet(fs), IsFiniteSet(DOMAIN found),
         \A f \in DOMAIN found : found[f] = 1,
         Tagged(fs, ref) \cap DOMAIN found = {}
  PROVE  /\ DOMAIN found' = DOMAIN found \cup Tagged(fs, ref)
         /\ \A f \in DOMAIN found' : found'[f] = 1
         /\ IsFiniteSet(DOMAIN found')
<1>1. found' = found (+) SetToBag(Tagged(fs, ref))
  BY DEF Report, Tagged
<1>2. DOMAIN found' = DOMAIN found \cup Tagged(fs, ref) /\ \A f \in DOMAIN found' : found'[f] = 1
  BY <1>1, BagOfBoth
<1>3. IsFiniteSet(DOMAIN found')
  BY <1>2, TaggedIsFinite, FS_Union
<1> QED  BY <1>2, <1>3

(***************************************************************************)
(* The sweep of a verify.                                                  *)
(***************************************************************************)
\* What a chunk map holds; the extents of a version already walked (Seen), and the one being walked (Looked).
Names == DOMAIN world.buckets \union Stops
ExtentAt(v, k) == world.versions[v].extents[k]
WalkFails(e) == WalkRaises(e, RecordState(e.record))
Begun(v) == v < version \/ (v = version /\ pc \in {"claim", "walk", "batch"})
Seen(v) == IF Begun(v) THEN Visited(v) \ (IF v = version THEN extents ELSE {}) ELSE {}
Looked(v) == IF v = version /\ pc = "walk" THEN Seen(v) \union {Min(extents)} ELSE Seen(v)

\* Where the sweep is, and what its queues hold there.
SweepTypes ==
    /\ world \in Worlds /\ full \in BOOLEAN
    /\ version \in Nat \ {0}
    /\ pc \in {"info", "discover", "claim", "walk", "batch", "size", "check", "done"}
    /\ pc = "info" => version = 1
    /\ pc \in {"discover", "claim", "walk", "batch"} => version \in DOMAIN world.versions
    /\ version <= Len(world.versions) + 1
    /\ pc \in {"check", "done"} => version = Len(world.versions) + 1
    /\ pc \in {"claim", "walk"} => extents # {} /\ extents \subseteq Visited(version)
    /\ pc \notin {"claim", "walk"} => extents = {}
    /\ walking \in Seq(Names) /\ (pc # "walk" => walking = <<>>)
    /\ {pending, toCheck} \subseteq Seq(Names) /\ Once(pending) /\ Once(toCheck)
    /\ DOMAIN claim \subseteq Names
    /\ DOMAIN records \subseteq DOMAIN world.records

\* _record_checks: the records of the extents looked at, each with the state it has.
RecordsAre ==
    /\ \A r \in DOMAIN records : records[r] = RecordState(r)
    /\ DOMAIN records = UNION {{ExtentAt(v, k).record : k \in Looked(v)} : v \in DOMAIN world.versions}

\* _bucket_claim: a bucket is claimed by the first version that reaches it; what was walked is claimed, a
\* walk still to finish is claimed up to the keys it has still to give.
ClaimsAre ==
    /\ \A b \in Claimed : claim[b] \in DOMAIN world.versions /\ b \in Reached(claim[b])
                          /\ \A v \in DOMAIN world.versions : v < claim[b] => b \notin Reached(v)
    /\ \A v \in DOMAIN world.versions : \A k \in Seen(v) : Reaches(ExtentAt(v, k)) \subseteq Claimed
    /\ pc = "walk" => /\ Range(walking) \subseteq Reaches(Extent)
                      /\ Reaches(Extent) \subseteq Claimed \union Range(walking)
    /\ \A v \in DOMAIN world.versions : \A k \in Visited(v) : Window(ExtentAt(v, k)) \in walked => Reaches(ExtentAt(v, k)) \subseteq Claimed

\* A claimed bucket is in one place: pending, being sized, queued, being checked, or checked.
Stages == <<Range(pending), sizing, Range(toCheck), running, DOMAIN checked>>
QueuesAre ==
    /\ Claimed = UNION {Stages[i] : i \in 1..5}
    /\ \A i, j \in 1..5 : i # j => Stages[i] \cap Stages[j] = {}
    /\ IsFiniteSet(running) /\ Cardinality(running) <= MaxReads
    /\ checked = SetToBag(DOMAIN checked)
    /\ DOMAIN checked \subseteq DOMAIN world.buckets
    /\ pc \in {"info", "size", "check", "done"} => pending = <<>>
    /\ (sizing # {} <=> pc = "size") /\ (sizing # {} => full)
    /\ pc \notin {"check", "done"} => running = {} /\ DOMAIN checked = {}
    /\ pc = "done" => toCheck = <<>> /\ running = {}
    /\ full => Range(toCheck) \union running \subseteq DOMAIN world.buckets

\* What is left to check is what the total has over the progress.
ProgressIs ==
    /\ done \in Nat /\ total \in Nat /\ (pc \notin {"check", "done"} => done = 0)
    /\ full => total = done + Weight(world.size, Range(toCheck) \union running)
    /\ ~full => total = done + Len(toCheck) + Cardinality(running)

\* A sweep that goes on has met nothing it cannot get past.
NoneRaised ==
    /\ pc # "info" => world.info \notin Raised /\ world.listing # "down"
    /\ \A s \in sessions : world.headers[s] \notin Raised
    /\ \A r \in DOMAIN records : ~RecordRaises(r) /\ world.records[r].session \in sessions
    /\ \A v \in DOMAIN world.versions : \A k \in Seen(v) : ~WalkFails(ExtentAt(v, k))
    /\ \A v \in DOMAIN world.versions : \A k \in Visited(v) : Window(ExtentAt(v, k)) \in walked => ~WalkFails(ExtentAt(v, k))
NoneDown ==
    /\ \A v \in DOMAIN world.versions : Begun(v) => world.versions[v].resolves # "down"
    /\ \A b \in DOMAIN checked : "down" \notin world.buckets[b]

\* What finding f is about has been dealt with: it cannot be reported again.
Dealt(f) ==
    \/ f.about[1] \in {"repo_info", "list"} /\ pc # "info"
    \/ f.about[1] \in {"version", "unit"} /\ f.ref \in DOMAIN world.versions /\ Begun(f.ref)
    \/ f.about[1] = "header" /\ f.about[2] \in sessions
    \/ f.about[1] \in {"head", "map", "attr"} /\ f.about[2] \in DOMAIN records
    \/ f.about[1] = "walk" /\ f.ref \in DOMAIN world.versions /\ f.about[2] \in Seen(f.ref)
    \/ f.about[1] = "bucket" /\ f.about[2] \in DOMAIN checked
Plain(f) == f.about[1] # "bucket" => f.stage # "Bucket" /\ f.symptom # "KeyMissing"
OfRecord(r) == {f \in DOMAIN found : f.about \in {<<"head", r>>, <<"map", r>>, <<"attr", r>>}}
BucketFinding(b, s) == [Finding(IF s = "KeyMissing" THEN "EncryptKey" ELSE "Bucket", s, <<"bucket", b>>) EXCEPT !.ref = claim[b]]
Keyless == {b \in DOMAIN checked : "KeyMissing" \in world.buckets[b]}
\* Each finding is there once, those of a record and of a bucket under their version, the missing key once.
FindingsAre ==
    /\ IsFiniteSet(DOMAIN found)
    /\ \A f \in DOMAIN found : found[f] = 1 /\ Dealt(f) /\ Plain(f)
    /\ \A r \in DOMAIN world.records : OfRecord(r) = IF r \in DOMAIN records THEN Tagged(RecordFindings(r), FirstOf(Visits(r))) ELSE {}
    /\ {f \in DOMAIN found : f.stage = "Bucket"} = UNION {{BucketFinding(b, s) : s \in world.buckets[b] \ {"KeyMissing"}} : b \in DOMAIN checked}
    /\ keyReported <=> Keyless # {}
    /\ \E K \in SUBSET Keyless : /\ {f \in DOMAIN found : f.symptom = "KeyMissing"} = {BucketFinding(b, "KeyMissing") : b \in K}
                                 /\ IF keyReported THEN \E b \in K : K = {b} ELSE K = {}

\* A sweep that raised owes only what it cannot get past.
SweepRight == SweepTypes /\ RecordsAre /\ ClaimsAre /\ QueuesAre /\ ProgressIs /\ NoneRaised /\ NoneDown /\ FindingsAre
SweepInv == IF pc = "raised" THEN VerifyRaises /\ IsFiniteSet(running) /\ Cardinality(running) <= MaxReads ELSE SweepRight

(***************************************************************************)
(* The world of a verify, which no step changes.                           *)
(***************************************************************************)
LEMMA WorldFacts ==
  ASSUME world \in Worlds
  PROVE  WorldIsRight(world)
  BY VerifyAssumption

LEMMA VersionFacts ==
  ASSUME world \in Worlds
  PROVE  /\ Len(world.versions) \in Nat /\ DOMAIN world.versions = 1..Len(world.versions)
         /\ (world.versions = <<>> <=> Len(world.versions) = 0)
         /\ \A v \in DOMAIN world.versions :
               /\ world.versions[v].resolves \in {"ok", "down"} \cup Symptoms
               /\ \E n \in Nat : DOMAIN world.versions[v].extents = 1..n
               /\ \A k \in DOMAIN world.versions[v].extents :
                     /\ ExtentAt(v, k).record \in DOMAIN world.records
                     /\ ExtentAt(v, k).start \in Nat \ {0} /\ ExtentAt(v, k).end \in Nat
                     /\ ExtentAt(v, k).end <= Len(world.records[ExtentAt(v, k).record].map)
                     /\ ExtentAt(v, k).end <= Len(world.records[ExtentAt(v, k).record].disk)
<1> DEFINE E == [record : DOMAIN world.records, start : Nat \ {0}, end : Nat, unit : {"ok", "bad", "skipped"}]
           V == [resolves : ({"ok"} \union (Symptoms \ {"RepairedViaParity"})) \union {"down"}, extents : Seq(E)]
<1>1. world.versions \in Seq(V)
  BY WorldFacts, Zenon DEF WorldIsRight
<1>2. Len(world.versions) \in Nat /\ DOMAIN world.versions = 1..Len(world.versions)
      /\ (world.versions = <<>> <=> Len(world.versions) = 0) /\ \A v \in DOMAIN world.versions : world.versions[v] \in V
  <2> HIDE DEF V
  <2> QED  BY <1>1, LenProperties, EmptySeq, ElementOfSeq
<1>3. ASSUME NEW v \in DOMAIN world.versions
      PROVE  /\ world.versions[v].resolves \in {"ok", "down"} \cup Symptoms
             /\ world.versions[v].extents \in Seq(E)
  <2> HIDE DEF E
  <2> QED  BY <1>2, <1>3
<1>4. ASSUME NEW v \in DOMAIN world.versions
      PROVE  /\ \E n \in Nat : DOMAIN world.versions[v].extents = 1..n
             /\ \A k \in DOMAIN world.versions[v].extents : world.versions[v].extents[k] \in E
  <2> HIDE DEF E
  <2> QED  BY <1>3, <1>4, LenProperties, ElementOfSeq
<1>5. ASSUME NEW v \in DOMAIN world.versions, NEW k \in DOMAIN world.versions[v].extents
      PROVE  /\ ExtentAt(v, k).record \in DOMAIN world.records
             /\ ExtentAt(v, k).start \in Nat \ {0} /\ ExtentAt(v, k).end \in Nat
             /\ ExtentAt(v, k).end <= Len(world.records[ExtentAt(v, k).record].map)
             /\ ExtentAt(v, k).end <= Len(world.records[ExtentAt(v, k).record].disk)
  <2>1. ExtentAt(v, k) \in E
    BY <1>4, <1>5 DEF ExtentAt
  <2>2. ExtentAt(v, k).end <= Len(world.records[ExtentAt(v, k).record].map)
    BY <1>5, WorldFacts, Zenon DEF WorldIsRight, ExtentAt
  <2>3. ExtentAt(v, k).record \in DOMAIN world.records
    BY <2>1
  <2>4. \A r \in DOMAIN world.records : Len(world.records[r].disk) = Len(world.records[r].map)
    BY WorldFacts, Zenon DEF WorldIsRight
  <2> QED  BY <2>1, <2>2, <2>3, <2>4
<1> HIDE DEF E, V
<1> QED  BY <1>2, <1>3, <1>4, <1>5

LEMMA VisitedIs ==
  ASSUME world \in Worlds, NEW v \in DOMAIN world.versions
  PROVE  /\ Visited(v) \subseteq DOMAIN world.versions[v].extents
         /\ Visited(v) \in SUBSET Nat
<1>1. Visited(v) \subseteq DOMAIN world.versions[v].extents
  BY DEF Visited, ResolvedExtents
<1> QED  BY <1>1, VersionFacts

\* What a map holds, as written and on disk; disk and map are as long as each other.
LEMMA MapsAre ==
  ASSUME world \in Worlds, NEW r \in DOMAIN world.records
  PROVE  /\ world.records[r].map \in Seq(Names) /\ world.records[r].disk \in Seq(Names)
         /\ Len(world.records[r].disk) = Len(world.records[r].map)
<1>1. /\ world.records[r].map \in Seq(DOMAIN world.buckets \union {Broken}) /\ world.records[r].disk \in Seq(Names)
      /\ Len(world.records[r].disk) = Len(world.records[r].map)
  BY WorldFacts, Zenon DEF WorldIsRight, Names
<1>2. DOMAIN world.buckets \union {Broken} \subseteq Names
  BY DEF Names, Stops
<1>3. world.records[r].map \in Seq(Names)
  <2> DEFINE S == DOMAIN world.buckets \union {Broken}
  <2>1. world.records[r].map \in Seq(S) /\ S \subseteq Names
    BY <1>1, <1>2
  <2> HIDE DEF S
  <2> QED  BY <2>1
<1> QED  BY <1>1, <1>3

\* The keys of a window are names of buckets.
LEMMA KeysAre ==
  ASSUME world \in Worlds, NEW v \in DOMAIN world.versions, NEW k \in DOMAIN world.versions[v].extents, NEW state
  PROVE  WindowKeys(ExtentAt(v, k), state) \in Seq(Names)
<1> DEFINE e == ExtentAt(v, k)
           map == IF state = "repaired" THEN world.records[e.record].map ELSE world.records[e.record].disk
           window == WindowOf(e, state)
           torn == StopsOf(e, state)
           n == IF torn = {} THEN Len(window) ELSE Min(torn) - 1
<1>1. e.record \in DOMAIN world.records /\ e.start \in Nat \ {0} /\ e.end \in Nat /\ e.end <= Len(map)
  BY VersionFacts
<1>2. map \in Seq(Names)
  BY <1>1, MapsAre
<1>w. window = SubSeq(map, e.start, e.end)
  BY DEF WindowOf
<1>t. torn = {i \in DOMAIN window : window[i] \in Stops}
  BY DEF StopsOf
<1> HIDE DEF e, map, window, torn
<1>3. window \in Seq(Names)
  <2>1. \A i \in e.start..e.end : map[i] \in Names
    <3> TAKE i \in e.start..e.end
    <3>1. i \in 1..Len(map)
      BY <1>1, <1>2, LenProperties
    <3> QED  BY <1>2, <3>1, ElementOfSeq
  <2> QED  BY <1>1, <1>w, <2>1, SubSeqProperties
<1>4. n \in Int /\ n <= Len(window)
  <2>1. Len(window) \in Nat /\ DOMAIN window = 1..Len(window)
    BY <1>3, LenProperties
  <2>2. torn \subseteq 1..Len(window) /\ torn \in SUBSET Nat
    BY <1>t, <2>1
  <2>3. torn # {} => Min(torn) \in torn
    BY <2>2, MinIsLeast
  <2> DEFINE m == Min(torn)
  <2>4. torn # {} => m \in 1..Len(window)
    BY <2>2, <2>3
  <2>5. torn # {} => n = m - 1
    OBVIOUS
  <2>6. torn = {} => n = Len(window)
    OBVIOUS
  <2> HIDE DEF m, n
  <2> QED  BY <2>1, <2>4, <2>5, <2>6
<1> HIDE DEF n
<1>5. SubSeq(window, 1, n) \in Seq(Names)
  <2>1. \A i \in 1..n : window[i] \in Names
    <3> TAKE i \in 1..n
    <3>1. i \in 1..Len(window)
      BY <1>3, <1>4, LenProperties
    <3> QED  BY <1>3, <3>1, ElementOfSeq
  <2> QED  BY <1>4, <2>1, SubSeqProperties
<1> QED  BY <1>5 DEF WindowKeys, e, window, torn, n

LEMMA ReachesAre ==
  ASSUME world \in Worlds, NEW v \in DOMAIN world.versions, NEW k \in Visited(v)
  PROVE  Reaches(ExtentAt(v, k)) \subseteq Names /\ Reaches(ExtentAt(v, k)) \subseteq Reached(v)
<1>1. k \in DOMAIN world.versions[v].extents
  BY VisitedIs
<1>2. Reaches(ExtentAt(v, k)) \subseteq Names
  BY <1>1, KeysAre, RangeIs DEF Reaches
<1> QED  BY <1>2 DEF Reached, ExtentAt

LEMMA SameWorld ==
  ASSUME world' = world
  PROVE  /\ Names' = Names
         /\ \A v : Visited(v)' = Visited(v) /\ Reached(v)' = Reached(v)
         /\ \A v, k : ExtentAt(v, k)' = ExtentAt(v, k)
         /\ \A r : RecordState(r)' = RecordState(r) /\ RecordFindings(r)' = RecordFindings(r) /\ Visits(r)' = Visits(r)
         /\ \A e : Reaches(e)' = Reaches(e)
         /\ \A e, state : WindowKeys(e, state)' = WindowKeys(e, state)
         /\ \A r : RecordRaises(r)' = RecordRaises(r)
         /\ \A e : WalkFails(e)' = WalkFails(e)
         /\ VerifyRaises' = VerifyRaises
<1>1. Names' = Names
  BY DEF Names
<1>2. \A v : Visited(v)' = Visited(v)
  BY DEF Visited
<1>3. \A v, k : ExtentAt(v, k)' = ExtentAt(v, k)
  BY DEF ExtentAt
<1>4. \A r : RecordState(r)' = RecordState(r) /\ RecordFindings(r)' = RecordFindings(r) /\ RecordRaises(r)' = RecordRaises(r)
  <2>1. \A r : MergedRead(r)' = MergedRead(r)
    BY DEF MergedRead
  <2>2. \A r : MapDiffers(r)' = MapDiffers(r)
    BY <2>1 DEF MapDiffers
  <2> QED  BY <2>1, <2>2 DEF RecordState, RecordFindings, RecordRaises
<1>5. \A r : Visits(r)' = Visits(r)
  BY <1>2 DEF Visits
<1>6. \A e, state : WindowKeys(e, state)' = WindowKeys(e, state) /\ WalkRaises(e, state)' = WalkRaises(e, state)
  <2>1. \A e, state : WindowOf(e, state)' = WindowOf(e, state)
    BY DEF WindowOf
  <2>2. \A e, state : StopsOf(e, state)' = StopsOf(e, state)
    BY <2>1 DEF StopsOf
  <2> QED  BY <2>1, <2>2 DEF WindowKeys, WalkRaises
<1>7. \A e : Reaches(e)' = Reaches(e)
  BY <1>4, <1>6 DEF Reaches
<1>8. \A v : Reached(v)' = Reached(v)
  BY <1>2, <1>7 DEF Reached
<1>9. \A e : WalkFails(e)' = WalkFails(e)
  BY <1>4, <1>6 DEF WalkFails
<1>10. VerifyRaises' = VerifyRaises
  <2>1. \A e : ExtentRaises(e)' = ExtentRaises(e)
    BY <1>4, <1>6 DEF ExtentRaises
  <2> QED  BY <1>2, <1>8, <2>1 DEF VerifyRaises
<1> QED  BY <1>1, <1>2, <1>3, <1>4, <1>5, <1>6, <1>7, <1>8, <1>9, <1>10, Zenon

(***************************************************************************)
(* What a step that keeps the places and the claims leaves as it was.      *)
(***************************************************************************)
LEMMA RecordsStay ==
  ASSUME RecordsAre, world' = world, records' = records,
         \A v \in DOMAIN world.versions : Looked(v)' = Looked(v)
  PROVE  RecordsAre'
<1>1. \A r \in DOMAIN records' : records'[r] = RecordState(r)'
  BY SameWorld DEF RecordsAre
<1>2. UNION {{ExtentAt(v, k)'.record : k \in Looked(v)'} : v \in DOMAIN world.versions} = UNION {{ExtentAt(v, k).record : k \in Looked(v)} : v \in DOMAIN world.versions}
  BY DEF ExtentAt
<1> QED  BY <1>1, <1>2 DEF RecordsAre

LEMMA ClaimsStay ==
  ASSUME ClaimsAre, world' = world, UNCHANGED <<claim, walked>>, pc' # "walk",
         \A v \in DOMAIN world.versions : Seen(v)' = Seen(v)
  PROVE  ClaimsAre'
<1>1. \A b \in Claimed' : claim'[b] \in DOMAIN world'.versions /\ b \in Reached(claim[b])'
                          /\ \A v \in DOMAIN world'.versions : v < claim'[b] => b \notin Reached(v)'
  BY SameWorld DEF ClaimsAre, Claimed
<1>2. \A v \in DOMAIN world'.versions : \A k \in Seen(v)' : Reaches(ExtentAt(v, k))' \subseteq Claimed'
  BY SameWorld DEF ClaimsAre, Claimed
<1>3. \A v \in DOMAIN world'.versions : \A k \in Visited(v)' : (Window(ExtentAt(v, k)) \in walked)' => Reaches(ExtentAt(v, k))' \subseteq Claimed'
  BY SameWorld DEF ClaimsAre, Claimed, Window
<1> QED  BY <1>1, <1>2, <1>3 DEF ClaimsAre

LEMMA RaisedStay ==
  ASSUME NoneRaised, world' = world, UNCHANGED <<sessions, records, walked>>, pc # "info" \/ pc' = "info",
         \A v \in DOMAIN world.versions : Seen(v)' = Seen(v)
  PROVE  NoneRaised'
<1>1. \A e : Window(e)' = Window(e)
  BY DEF Window
<1>2. \A v, k : Window(ExtentAt(v, k))' = Window(ExtentAt(v, k)) /\ WalkFails(ExtentAt(v, k))' = WalkFails(ExtentAt(v, k))
  BY SameWorld DEF Window, ExtentAt, WalkFails
<1>3. /\ pc' # "info" => world'.info \notin Raised /\ world'.listing # "down"
      /\ \A s \in sessions' : world'.headers[s] \notin Raised
      /\ \A r \in DOMAIN records' : ~RecordRaises(r)' /\ world'.records[r].session \in sessions'
  BY SameWorld DEF NoneRaised
<1>4. \A v \in DOMAIN world'.versions : \A k \in Seen(v)' : ~WalkFails(ExtentAt(v, k))'
  BY <1>2 DEF NoneRaised
<1>5. \A v \in DOMAIN world'.versions : \A k \in Visited(v)' : (Window(ExtentAt(v, k)) \in walked)' => ~WalkFails(ExtentAt(v, k))'
  BY <1>2, SameWorld DEF NoneRaised
<1> QED  BY <1>3, <1>4, <1>5 DEF NoneRaised

\* What is dealt with stays dealt with.
LEMMA DealtStays ==
  ASSUME world' = world, pc # "info" => pc' # "info", sessions \subseteq sessions',
         DOMAIN records \subseteq DOMAIN records', DOMAIN checked \subseteq DOMAIN checked',
         \A v \in DOMAIN world.versions : Seen(v) \subseteq Seen(v)' /\ (Begun(v) => Begun(v)')
  PROVE  \A f : Dealt(f) => Dealt(f)'
  BY DEF Dealt

LEMMA FindingsStay ==
  ASSUME FindingsAre, world' = world, UNCHANGED <<found, keyReported>>, DOMAIN records' = DOMAIN records,
         DOMAIN checked' = DOMAIN checked, \A b \in DOMAIN checked : claim'[b] = claim[b],
         \A f : Dealt(f) => Dealt(f)'
  PROVE  FindingsAre'
<1>1. IsFiniteSet(DOMAIN found') /\ \A f \in DOMAIN found' : found'[f] = 1 /\ Dealt(f)' /\ Plain(f)
  BY DEF FindingsAre
<1>2. \A r \in DOMAIN world'.records : OfRecord(r)' = IF r \in DOMAIN records' THEN Tagged(RecordFindings(r)', FirstOf(Visits(r)')) ELSE {}
  BY SameWorld DEF FindingsAre, OfRecord
<1>3. \A b \in DOMAIN checked : \A s : BucketFinding(b, s)' = BucketFinding(b, s)
  BY DEF BucketFinding
<1>4. Keyless' = Keyless
  BY DEF Keyless
<1>5. {f \in DOMAIN found' : f.stage = "Bucket"} = UNION {{BucketFinding(b, s)' : s \in world'.buckets[b] \ {"KeyMissing"}} : b \in DOMAIN checked'}
  BY <1>3 DEF FindingsAre
<1>6. \E K \in SUBSET Keyless' : /\ {f \in DOMAIN found' : f.symptom = "KeyMissing"} = {BucketFinding(b, "KeyMissing")' : b \in K}
                                 /\ IF keyReported' THEN \E b \in K : K = {b} ELSE K = {}
  <2>1. PICK K \in SUBSET Keyless : /\ {f \in DOMAIN found : f.symptom = "KeyMissing"} = {BucketFinding(b, "KeyMissing") : b \in K}
                                    /\ IF keyReported THEN \E b \in K : K = {b} ELSE K = {}
    BY DEF FindingsAre
  <2>2. K \subseteq DOMAIN checked
    BY DEF Keyless
  <2>3. {BucketFinding(b, "KeyMissing")' : b \in K} = {BucketFinding(b, "KeyMissing") : b \in K}
    BY <1>3, <2>2
  <2> QED  BY <1>4, <2>1, <2>3
<1> QED  BY <1>1, <1>2, <1>4, <1>5, <1>6 DEF FindingsAre, Plain

\* Findings of the walk are new, and are neither a bucket's nor about the key.
LEMMA FindingsGrow ==
  ASSUME FindingsAre, world' = world, NEW fs, NEW ref, Report(fs, ref), IsFiniteSet(fs),
         UNCHANGED keyReported, checked' = checked, \A b \in DOMAIN checked : claim'[b] = claim[b],
         \A f : Dealt(f) => Dealt(f)',
         \A f \in Tagged(fs, ref) : ~Dealt(f) /\ Dealt(f)' /\ f.about[1] # "bucket" /\ Plain(f),
         \A r \in DOMAIN world.records : OfRecord(r) \cup {f \in Tagged(fs, ref) : f.about \in {<<"head", r>>, <<"map", r>>, <<"attr", r>>}}
               = IF r \in DOMAIN records' THEN Tagged(RecordFindings(r), FirstOf(Visits(r))) ELSE {}
  PROVE  FindingsAre'
<1>1. DOMAIN found' = DOMAIN found \cup Tagged(fs, ref) /\ IsFiniteSet(DOMAIN found') /\ \A f \in DOMAIN found' : found'[f] = 1
  <2>1. Tagged(fs, ref) \cap DOMAIN found = {}
    BY DEF FindingsAre
  <2>2. IsFiniteSet(DOMAIN found) /\ \A f \in DOMAIN found : found[f] = 1
    BY DEF FindingsAre
  <2> QED  BY <2>1, <2>2, ReportAdds
<1>2. \A f \in DOMAIN found' : Dealt(f)' /\ Plain(f)
  BY <1>1 DEF FindingsAre
<1>3. ASSUME NEW r \in DOMAIN world'.records
      PROVE  OfRecord(r)' = IF r \in DOMAIN records' THEN Tagged(RecordFindings(r)', FirstOf(Visits(r)')) ELSE {}
  <2>1. OfRecord(r)' = OfRecord(r) \cup {f \in Tagged(fs, ref) : f.about \in {<<"head", r>>, <<"map", r>>, <<"attr", r>>}}
    BY <1>1 DEF OfRecord
  <2> QED  BY <1>3, <2>1, SameWorld
<1>4. \A b \in DOMAIN checked : \A s : BucketFinding(b, s)' = BucketFinding(b, s)
  BY DEF BucketFinding
<1>5. Keyless' = Keyless
  BY DEF Keyless
<1>6. {f \in DOMAIN found' : f.stage = "Bucket"} = {f \in DOMAIN found : f.stage = "Bucket"}
      /\ {f \in DOMAIN found' : f.symptom = "KeyMissing"} = {f \in DOMAIN found : f.symptom = "KeyMissing"}
  BY <1>1 DEF Plain
<1>7. {f \in DOMAIN found' : f.stage = "Bucket"} = UNION {{BucketFinding(b, s)' : s \in world'.buckets[b] \ {"KeyMissing"}} : b \in DOMAIN checked'}
  BY <1>4, <1>6 DEF FindingsAre
<1>8. \E K \in SUBSET Keyless' : /\ {f \in DOMAIN found' : f.symptom = "KeyMissing"} = {BucketFinding(b, "KeyMissing")' : b \in K}
                                 /\ IF keyReported' THEN \E b \in K : K = {b} ELSE K = {}
  <2>1. PICK K \in SUBSET Keyless : /\ {f \in DOMAIN found : f.symptom = "KeyMissing"} = {BucketFinding(b, "KeyMissing") : b \in K}
                                    /\ IF keyReported THEN \E b \in K : K = {b} ELSE K = {}
    BY DEF FindingsAre
  <2>2. K \subseteq DOMAIN checked
    BY DEF Keyless
  <2>3. {BucketFinding(b, "KeyMissing")' : b \in K} = {BucketFinding(b, "KeyMissing") : b \in K}
    BY <1>4, <2>2
  <2> QED  BY <1>5, <1>6, <2>1, <2>3
<1>9. keyReported' <=> Keyless' # {}
  BY <1>5 DEF FindingsAre
<1> QED  BY <1>1, <1>2, <1>3, <1>7, <1>8, <1>9 DEF FindingsAre, Plain

\* The places of the walk move only when a walk begins or ends.
LEMMA PlacesStay ==
  ASSUME SweepTypes, world' = world,
         \/ version' = version /\ extents' = extents /\ (pc' = pc \/ (pc \in {"info", "size", "check"} /\ pc' \in {"discover", "size", "check", "done"}))
         \/ version' = version /\ extents' = extents /\ pc = "claim" /\ pc' = "walk"
         \/ DiscoverVersion /\ pc' # "raised"
         \/ FinalizePending
  PROVE  \A v \in DOMAIN world.versions :
            /\ Seen(v)' = Seen(v) /\ (Begun(v) => Begun(v)')
            /\ pc' # "walk" \/ pc = "walk" => Looked(v)' = Looked(v)
<1> TAKE v \in DOMAIN world.versions
<1>0. v \in Nat /\ version \in Nat /\ Visited(v)' = Visited(v)
  BY VersionFacts, SameWorld DEF SweepTypes
<1>1. CASE version' = version /\ extents' = extents /\ (pc' = pc \/ (pc \in {"info", "size", "check"} /\ pc' \in {"discover", "size", "check", "done"}))
  BY <1>0, <1>1 DEF Seen, Looked, Begun
<1>2. CASE version' = version /\ extents' = extents /\ pc = "claim" /\ pc' = "walk"
  BY <1>0, <1>2 DEF Seen, Looked, Begun
<1>3. CASE DiscoverVersion /\ pc' # "raised"
  <2>1. pc = "discover" /\ version' = version /\ extents' = Visited(version) /\ pc' \in {"batch", "claim"}
    BY <1>3 DEF DiscoverVersion, Abort
  <2> QED  BY <1>0, <2>1 DEF Seen, Looked, Begun
<1>4. CASE FinalizePending
  <2>1. pc = "batch" /\ version' = version + 1 /\ extents' = extents /\ extents = {} /\ pc' \in {"size", "check", "discover"}
    BY <1>4 DEF FinalizePending, SweepTypes
  <2> QED  BY <1>0, <2>1 DEF Seen, Looked, Begun
<1> QED  BY <1>1, <1>2, <1>3, <1>4

LEMMA QueuesStay ==
  ASSUME QueuesAre, UNCHANGED <<world, full, claim, pending, toCheck, sizing, running, checked>>,
         pc \notin {"size", "check", "done"}, pc' \notin {"info", "size", "done"}, pc' = "check" => pending = <<>>
  PROVE  QueuesAre'
<1>1. Claimed' = Claimed /\ Stages' = Stages
  BY DEF Claimed, Stages
<1>2. Claimed = UNION {Stages[i] : i \in 1..5} /\ \A i, j \in 1..5 : i # j => Stages[i] \cap Stages[j] = {}
  BY DEF QueuesAre
<1>3. Claimed' = UNION {Stages'[i] : i \in 1..5} /\ \A i, j \in 1..5 : i # j => Stages'[i] \cap Stages'[j] = {}
  BY <1>1, <1>2
<1>4. /\ IsFiniteSet(running') /\ Cardinality(running') <= MaxReads
      /\ checked' = SetToBag(DOMAIN checked') /\ DOMAIN checked' \subseteq DOMAIN world'.buckets
      /\ pc' \in {"info", "size", "check", "done"} => pending' = <<>>
      /\ (sizing' # {} <=> pc' = "size") /\ (sizing' # {} => full')
      /\ pc' \notin {"check", "done"} => running' = {} /\ DOMAIN checked' = {}
      /\ pc' = "done" => toCheck' = <<>> /\ running' = {}
      /\ full' => Range(toCheck') \union running' \subseteq DOMAIN world'.buckets
  BY DEF QueuesAre
<1> QED  BY <1>3, <1>4 DEF QueuesAre

LEMMA ProgressStays ==
  ASSUME ProgressIs, UNCHANGED <<world, full, done, total, toCheck, running>>, pc' \notin {"check", "done"} => pc \notin {"check", "done"}
  PROVE  ProgressIs'
  BY DEF ProgressIs

(***************************************************************************)
(* The steps of the sweep.                                                 *)
(***************************************************************************)
LEMMA SweepStart ==
  ASSUME NEW worlds, worlds \subseteq Worlds, VerifyInit(worlds)
  PROVE  SweepRight /\ pc # "raised"
<1>1. SweepTypes
  <2>1. /\ world \in Worlds /\ full \in BOOLEAN /\ pc = "info" /\ version = 1 /\ extents = {} /\ walking = <<>>
        /\ pending = <<>> /\ toCheck = <<>> /\ DOMAIN claim = {} /\ DOMAIN records = {}
    BY DEF VerifyInit
  <2>2. <<>> \in Seq(Names) /\ Once(<<>>)
    BY EmptySeq DEF Once
  <2>3. 1 <= Len(world.versions) + 1
    BY <2>1, VersionFacts
  <2> QED  BY <2>1, <2>2, <2>3 DEF SweepTypes
<1>2. \A v \in DOMAIN world.versions : Seen(v) = {} /\ Looked(v) = {} /\ ~Begun(v)
  <2>1. \A v \in DOMAIN world.versions : v \in Nat /\ v >= 1
    BY <1>1, VersionFacts DEF SweepTypes
  <2> QED  BY <2>1 DEF VerifyInit, Seen, Looked, Begun
<1>3. RecordsAre
  BY <1>2 DEF RecordsAre, VerifyInit
<1>4. ClaimsAre
  BY <1>2 DEF ClaimsAre, VerifyInit, Claimed
<1>5. QueuesAre
  <2>1. Stages = <<{}, {}, {}, {}, {}>>
    BY DEF Stages, VerifyInit, Range, EmptyBag, SetToBag
  <2>2. Claimed = {}
    BY DEF Claimed, VerifyInit
  <2>3. Claimed = UNION {Stages[i] : i \in 1..5}
    BY <2>1, <2>2
  <2>4. \A i, j \in 1..5 : i # j => Stages[i] \cap Stages[j] = {}
    BY <2>1
  <2>5. running = {} /\ Cardinality(running) <= MaxReads /\ IsFiniteSet(running)
    BY FS_EmptySet, VerifyAssumption DEF VerifyInit
  <2>6. checked = SetToBag(DOMAIN checked) /\ DOMAIN checked = {}
    BY DEF VerifyInit, EmptyBag, SetToBag
  <2>7. Range(toCheck) = {} /\ pending = <<>> /\ sizing = {} /\ pc = "info"
    BY DEF VerifyInit, Range
  <2> QED  BY <2>3, <2>4, <2>5, <2>6, <2>7 DEF QueuesAre
<1>6. ProgressIs
  <2>1. Weight(world.size, Range(toCheck) \union running) = 0
    <3>1. Range(toCheck) \union running = {}
      BY DEF VerifyInit, Range
    <3>2. UNION {{b} \X (1..world.size[b]) : b \in {}} = {}
      OBVIOUS
    <3> QED  BY <3>1, <3>2, FS_EmptySet DEF Weight
  <2> QED  BY <2>1, FS_EmptySet DEF ProgressIs, VerifyInit
<1>7. NoneDown
  BY <1>2 DEF NoneDown, VerifyInit, EmptyBag, SetToBag
<1>r. NoneRaised
  BY <1>2 DEF NoneRaised, VerifyInit
<1>8. FindingsAre
  <2>1. DOMAIN found = {} /\ DOMAIN checked = {} /\ ~keyReported /\ DOMAIN records = {}
    BY DEF VerifyInit, EmptyBag, SetToBag
  <2>2. Keyless = {} /\ \A r : OfRecord(r) = {}
    BY <2>1 DEF Keyless, OfRecord
  <2>3. \E K \in SUBSET Keyless : /\ {f \in DOMAIN found : f.symptom = "KeyMissing"} = {BucketFinding(b, "KeyMissing") : b \in K}
                                  /\ IF keyReported THEN \E b \in K : K = {b} ELSE K = {}
    <3> WITNESS {} \in SUBSET Keyless
    <3> QED  BY <2>1
  <2> QED  BY <2>1, <2>2, <2>3, FS_EmptySet DEF FindingsAre
<1> QED  BY <1>1, <1>3, <1>4, <1>5, <1>6, <1>7, <1>r, <1>8 DEF SweepRight, VerifyInit

LEMMA AbortKeeps ==
  ASSUME QueuesAre, Abort, VerifyRaises
  PROVE  SweepInv'
<1>1. world' = world /\ running' = running /\ pc' = "raised"
  BY DEF Abort
<1>2. VerifyRaises'
  BY <1>1, SameWorld
<1> QED  BY <1>1, <1>2 DEF SweepInv, QueuesAre

LEMMA InfoKeeps ==
  ASSUME SweepRight, CheckRepoInfo
  PROVE  SweepInv'
<1> USE DEF SweepRight
<1>a. CASE world.info \in Raised \/ world.listing = "down"
  <2>1. Abort /\ VerifyRaises
    BY <1>a DEF CheckRepoInfo, VerifyRaises
  <2> QED  BY <2>1, AbortKeeps
<1>b. CASE ~ (world.info \in Raised \/ world.listing = "down")
  <2>1. /\ pc = "info" /\ pc' \in {"check", "discover"} /\ (pc' = "check" <=> world.versions = <<>>)
        /\ UNCHANGED <<world, full, version, extents, sessions, records, walked, walking, claim, pending, toCheck, sizing, running, checked, done, total, keyReported>>
    BY <1>b DEF CheckRepoInfo
  <2>2. SweepTypes'
    <3>1. version = 1 /\ (pc' = "discover" => 1 \in DOMAIN world.versions) /\ (pc' = "check" => 1 = Len(world.versions) + 1)
      BY <2>1, VersionFacts DEF SweepTypes
    <3> QED  BY <2>1, <3>1, SameWorld DEF SweepTypes
  <2>3. \A v \in DOMAIN world.versions : Seen(v)' = Seen(v) /\ (Begun(v) => Begun(v)') /\ Looked(v)' = Looked(v)
    BY <2>1, PlacesStay
  <2>4. RecordsAre' /\ ClaimsAre' /\ QueuesAre' /\ ProgressIs'
    <3>1. pending = <<>>
      BY <2>1 DEF QueuesAre
    <3> QED  BY <2>1, <2>3, <3>1, RecordsStay, ClaimsStay, QueuesStay, ProgressStays
  <2>5. NoneDown'
    <3>1. \A v \in DOMAIN world.versions : ~Begun(v)'
      <4>1. \A v \in DOMAIN world.versions : v \in Nat /\ v >= 1
        BY VersionFacts DEF SweepTypes
      <4> QED  BY <2>1, <4>1 DEF Begun, SweepTypes
    <3> QED  BY <2>1, <3>1 DEF NoneDown
  <2>r. NoneRaised'
    <3>1. \A v, k : Window(ExtentAt(v, k))' = Window(ExtentAt(v, k)) /\ WalkFails(ExtentAt(v, k))' = WalkFails(ExtentAt(v, k))
      BY <2>1, SameWorld DEF Window, ExtentAt, WalkFails
    <3>2. /\ pc' # "info" => world'.info \notin Raised /\ world'.listing # "down"
          /\ \A s \in sessions' : world'.headers[s] \notin Raised
          /\ \A r \in DOMAIN records' : ~RecordRaises(r)' /\ world'.records[r].session \in sessions'
      BY <1>b, <2>1, SameWorld DEF NoneRaised
    <3>3. \A v \in DOMAIN world'.versions : \A k \in Seen(v)' : ~WalkFails(ExtentAt(v, k))'
      BY <2>1, <2>3, <3>1 DEF NoneRaised
    <3>4. \A v \in DOMAIN world'.versions : \A k \in Visited(v)' : (Window(ExtentAt(v, k)) \in walked)' => ~WalkFails(ExtentAt(v, k))'
      BY <2>1, <3>1, SameWorld DEF NoneRaised
    <3> QED  BY <3>2, <3>3, <3>4 DEF NoneRaised
  <2>6. FindingsAre'
    <3> DEFINE A == IF world.info = "ok" THEN {} ELSE {Finding("RepoInfo", world.info, <<"repo_info">>)}
               B == {Finding("Version", "Corruption", <<"list", l>>) : l \in world.unlisted}
               fs == A \union B
    <3>1. Report(fs, NoRef)
      BY <1>b DEF CheckRepoInfo
    <3>2. IsFiniteSet(fs)
      <4>1. IsFiniteSet(A)
        BY FS_EmptySet, FS_Singleton
      <4>2. IsFiniteSet(B)
        <5> DEFINE g == [l \in world.unlisted |-> Finding("Version", "Corruption", <<"list", l>>)]
        <5>1. B = {g[l] : l \in DOMAIN g} /\ DOMAIN g = world.unlisted
          OBVIOUS
        <5>2. IsFiniteSet(world.unlisted)
          BY WorldFacts DEF WorldIsRight, SweepTypes
        <5> HIDE DEF g
        <5> QED  BY <5>1, <5>2, ImageIsFinite
      <4> HIDE DEF A, B
      <4> QED  BY <4>1, <4>2, FS_Union
    <3>3. \A f : Dealt(f) => Dealt(f)'
      BY <2>1, <2>3, DealtStays
    <3>4. ASSUME NEW f \in Tagged(fs, NoRef)
          PROVE  /\ f.about[1] \in {"repo_info", "list"} /\ f.stage # "Bucket" /\ f.symptom # "KeyMissing"
      <4>1. world.info \in {"ok"} \cup Symptoms
        BY <1>b, WorldFacts DEF WorldIsRight, SweepTypes
      <4>2. PICK g \in fs : f = [g EXCEPT !.ref = NoRef]
        BY DEF Tagged
      <4>3. CASE g \in A
        <5>1. world.info # "ok" /\ g = Finding("RepoInfo", world.info, <<"repo_info">>)
          BY <4>3
        <5>2. f = [stage |-> "RepoInfo", symptom |-> world.info, about |-> <<"repo_info">>, ref |-> NoRef]
          BY <4>2, <5>1, TaggedIs
        <5> QED  BY <4>1, <5>1, <5>2 DEF Symptoms
      <4>4. CASE g \in B
        <5>1. PICK l \in world.unlisted : g = Finding("Version", "Corruption", <<"list", l>>)
          BY <4>4
        <5>2. f = [stage |-> "Version", symptom |-> "Corruption", about |-> <<"list", l>>, ref |-> NoRef]
          BY <4>2, <5>1, TaggedIs
        <5> QED  BY <5>2
      <4> QED  BY <4>2, <4>3, <4>4
    <3> HIDE DEF fs
    <3>5. \A f \in Tagged(fs, NoRef) : ~Dealt(f) /\ Dealt(f)' /\ f.about[1] # "bucket" /\ Plain(f)
      BY <2>1, <3>4 DEF Dealt, Plain
    <3>6. \A r \in DOMAIN world.records : OfRecord(r) \cup {f \in Tagged(fs, NoRef) : f.about \in {<<"head", r>>, <<"map", r>>, <<"attr", r>>}}
                 = IF r \in DOMAIN records' THEN Tagged(RecordFindings(r), FirstOf(Visits(r))) ELSE {}
      <4>1. \A r : \A f \in Tagged(fs, NoRef) : f.about \notin {<<"head", r>>, <<"map", r>>, <<"attr", r>>}
        BY <3>4
      <4> QED  BY <2>1, <4>1 DEF FindingsAre
    <3> QED  BY <2>1, <3>1, <3>2, <3>3, <3>5, <3>6, FindingsGrow
  <2> QED  BY <2>1, <2>2, <2>4, <2>5, <2>r, <2>6 DEF SweepInv
<1> QED  BY <1>a, <1>b

\* A version that does not resolve has no extents, one whose store is down ends the sweep.
LEMMA DiscoverKeeps ==
  ASSUME SweepRight, DiscoverVersion
  PROVE  SweepInv'
<1> USE DEF SweepRight
<1> DEFINE v == world.versions[version]
<1>0. /\ pc = "discover" /\ version \in DOMAIN world.versions /\ extents = {} /\ walking = <<>> /\ version \in Nat
      /\ world \in Worlds
  BY DEF DiscoverVersion, SweepTypes
<1>1. CASE v.resolves = "down"
  <2>1. Abort
    BY <1>1 DEF DiscoverVersion
  <2>2. VerifyRaises
    BY <1>0, <1>1 DEF VerifyRaises
  <2> QED  BY <2>1, <2>2, AbortKeeps
<1>2. CASE v.resolves # "down"
  <2> DEFINE fs == IF v.resolves = "ok" THEN ExtentFindings(v) ELSE {Finding("Version", v.resolves, <<"version", version>>)}
  <2>1. /\ extents' = Visited(version) /\ pc' = (IF extents' = {} THEN "batch" ELSE "claim")
        /\ Report(fs, version)
        /\ UNCHANGED <<world, full, version, sessions, records, walked, walking, claim, pending, toCheck, sizing, running, checked, done, total, keyReported>>
    BY <1>2 DEF DiscoverVersion
  <2>2. pc' \in {"batch", "claim"} /\ (pc' = "claim" => extents' # {}) /\ (pc' = "batch" => extents' = {})
    BY <2>1
  <2>3. SweepTypes'
    <3>1. Visited(version)' = Visited(version) /\ Names' = Names
      BY <2>1, SameWorld
    <3> QED  BY <1>0, <2>1, <2>2, <3>1 DEF SweepTypes
  <2>4. \A u \in DOMAIN world.versions : Seen(u)' = Seen(u) /\ (Begun(u) => Begun(u)') /\ Looked(u)' = Looked(u)
    BY <2>1, <2>2, PlacesStay
  <2>5. RecordsAre' /\ ClaimsAre' /\ QueuesAre' /\ ProgressIs'
    BY <1>0, <2>1, <2>2, <2>4, RecordsStay, ClaimsStay, QueuesStay, ProgressStays
  <2>6. Begun(version)' /\ ~Begun(version)
    BY <1>0, <2>1, <2>2 DEF Begun
  <2>7. NoneDown'
    <3>1. ASSUME NEW u \in DOMAIN world.versions, Begun(u)'
          PROVE  world.versions[u].resolves # "down"
      <4>1. u \in Nat
        BY <1>0, VersionFacts
      <4>2. u = version \/ Begun(u)
        BY <1>0, <2>1, <3>1, <4>1 DEF Begun
      <4> QED  BY <1>2, <3>1, <4>2 DEF NoneDown
    <3> QED  BY <2>1, <3>1 DEF NoneDown
  <2>r. NoneRaised'
    BY <1>0, <2>1, <2>4, RaisedStay
  <2>8. FindingsAre'
    <3>1. IsFiniteSet(fs)
      <4>1. IsFiniteSet(ExtentFindings(v))
        <5> DEFINE S == {k \in DOMAIN v.extents : v.extents[k].unit = "bad"}
                   g == [k \in S |-> Finding("Version", "Corruption", <<"unit", k>>)]
        <5>1. PICK n \in Nat : DOMAIN v.extents = 1..n
          BY <1>0, VersionFacts
        <5>2. IsFiniteSet(1..n) /\ S \in SUBSET (1..n)
          BY <5>1, FS_Interval
        <5>3. IsFiniteSet(S)
          BY <5>2, FS_Subset
        <5>4. ExtentFindings(v) = {g[k] : k \in DOMAIN g} /\ DOMAIN g = S
          BY DEF ExtentFindings
        <5> HIDE DEF g, S
        <5> QED  BY <5>3, <5>4, ImageIsFinite
      <4> QED  BY <4>1, FS_Singleton
    <3>2. \A f : Dealt(f) => Dealt(f)'
      BY <1>0, <2>1, <2>2, <2>4, DealtStays
    <3>3. ASSUME NEW f \in Tagged(fs, version)
          PROVE  f.about[1] \in {"version", "unit"} /\ f.ref = version /\ f.stage # "Bucket" /\ f.symptom # "KeyMissing"
      <4>1. PICK g \in fs : f = [g EXCEPT !.ref = version]
        BY DEF Tagged
      <4>2. PICK symptom, about : symptom \in Symptoms /\ g = Finding("Version", symptom, about) /\ about[1] \in {"version", "unit"}
        <5>1. CASE v.resolves = "ok"
          <6>1. PICK k : g = Finding("Version", "Corruption", <<"unit", k>>)
            BY <5>1 DEF ExtentFindings
          <6>2. "Corruption" \in Symptoms /\ <<"unit", k>>[1] \in {"version", "unit"}
            BY DEF Symptoms
          <6> QED  BY <6>1, <6>2
        <5>2. CASE v.resolves # "ok"
          <6>1. g = Finding("Version", v.resolves, <<"version", version>>)
            BY <5>2
          <6>2. v.resolves \in Symptoms /\ <<"version", version>>[1] \in {"version", "unit"}
            BY <1>0, <1>2, <5>2, VersionFacts
          <6> QED  BY <6>1, <6>2
        <5> QED  BY <5>1, <5>2
      <4>3. f = [stage |-> "Version", symptom |-> symptom, about |-> about, ref |-> version]
        BY <4>1, <4>2, TaggedIs
      <4> QED  BY <4>2, <4>3 DEF Symptoms
    <3> HIDE DEF fs
    <3>4. \A f \in Tagged(fs, version) : ~Dealt(f) /\ Dealt(f)' /\ f.about[1] # "bucket" /\ Plain(f)
      BY <1>0, <2>1, <2>6, <3>3 DEF Dealt, Plain
    <3>5. \A r \in DOMAIN world.records : OfRecord(r) \cup {f \in Tagged(fs, version) : f.about \in {<<"head", r>>, <<"map", r>>, <<"attr", r>>}}
                 = IF r \in DOMAIN records' THEN Tagged(RecordFindings(r), FirstOf(Visits(r))) ELSE {}
      <4>1. \A r : \A f \in Tagged(fs, version) : f.about \notin {<<"head", r>>, <<"map", r>>, <<"attr", r>>}
        BY <3>3
      <4> QED  BY <2>1, <4>1 DEF FindingsAre
    <3> QED  BY <2>1, <3>1, <3>2, <3>4, <3>5, FindingsGrow
  <2> QED  BY <2>2, <2>3, <2>5, <2>7, <2>r, <2>8 DEF SweepInv
<1> QED  BY <1>1, <1>2

LEMMA RecordFindingsAre ==
  ASSUME world \in Worlds, NEW r \in DOMAIN world.records, ~RecordRaises(r), NEW ref
  PROVE  /\ IsFiniteSet(RecordFindings(r))
         /\ \A f \in Tagged(RecordFindings(r), ref) :
               f.about \in {<<"head", r>>, <<"map", r>>, <<"attr", r>>} /\ f.ref = ref /\ f.stage # "Bucket" /\ f.symptom # "KeyMissing"
<1> DEFINE parity == IF world.records[r].parity = "good" THEN "RepairedViaParity" ELSE "Mismatch"
           H == Finding("FileMap", world.records[r].head, <<"head", r>>)
           M == Finding("Composition", parity, <<"map", r>>)
           D == Finding("Composition", "DataMissing", <<"map", r>>)
           A == Finding("Composition", "Mismatch", <<"attr", r>>)
<1>1. RecordFindings(r) \subseteq {M, A} \/ RecordFindings(r) = {D} \/ (RecordFindings(r) = {H} /\ world.records[r].head # "ok")
  BY DEF RecordFindings
<1>2. IsFiniteSet(RecordFindings(r))
  <2>1. IsFiniteSet({M, A}) /\ IsFiniteSet({H}) /\ IsFiniteSet({D})
    <3> HIDE DEF M, A, H, D
    <3>1. IsFiniteSet({M}) /\ IsFiniteSet({A}) /\ IsFiniteSet({H}) /\ IsFiniteSet({D})
      BY FS_Singleton
    <3>2. {M, A} = {M} \cup {A}
      OBVIOUS
    <3>3. IsFiniteSet({M} \cup {A})
      BY <3>1, FS_Union
    <3> QED  BY <3>1, <3>2, <3>3
  <2> QED  BY <1>1, <2>1, FS_Subset
<1>3. world.records[r].head \in {"ok"} \cup Symptoms
  <2>1. world.records[r].head \in ({"ok"} \cup Symptoms) \cup Raised
    BY WorldFacts DEF WorldIsRight
  <2> QED  BY <2>1 DEF RecordRaises
<1>4. ASSUME NEW f \in Tagged(RecordFindings(r), ref)
      PROVE  f.about \in {<<"head", r>>, <<"map", r>>, <<"attr", r>>} /\ f.ref = ref /\ f.stage # "Bucket" /\ f.symptom # "KeyMissing"
  <2>1. PICK g \in RecordFindings(r) : f = [g EXCEPT !.ref = ref]
    BY DEF Tagged
  <2>2. CASE g = H /\ world.records[r].head # "ok"
    <3>1. f = [stage |-> "FileMap", symptom |-> world.records[r].head, about |-> <<"head", r>>, ref |-> ref]
      BY <2>1, <2>2, TaggedIs
    <3> QED  BY <1>3, <2>2, <3>1 DEF Symptoms
  <2>3. CASE g = M
    <3>1. f = [stage |-> "Composition", symptom |-> parity, about |-> <<"map", r>>, ref |-> ref]
      BY <2>1, <2>3, TaggedIs
    <3> QED  BY <3>1
  <2>4. CASE g = A
    <3>1. f = [stage |-> "Composition", symptom |-> "Mismatch", about |-> <<"attr", r>>, ref |-> ref]
      BY <2>1, <2>4, TaggedIs
    <3> QED  BY <3>1
  <2>5. CASE g = D
    <3>1. f = [stage |-> "Composition", symptom |-> "DataMissing", about |-> <<"map", r>>, ref |-> ref]
      BY <2>1, <2>5, TaggedIs
    <3> QED  BY <3>1
  <2> HIDE DEF H, M, A, D
  <2> QED  BY <1>1, <2>1, <2>2, <2>3, <2>4, <2>5
<1> QED  BY <1>2, <1>4

LEMMA WalkFacts ==
  ASSUME SweepTypes, pc \in {"claim", "walk"}
  PROVE  /\ version \in DOMAIN world.versions /\ version \in Nat
         /\ Min(extents) \in extents /\ Min(extents) \in Visited(version) /\ Min(extents) \in DOMAIN world.versions[version].extents
         /\ Extent = ExtentAt(version, Min(extents))
         /\ Extent.record \in DOMAIN world.records
         /\ world.headers[world.records[Extent.record].session] \in ({"ok"} \cup Symptoms) \cup Raised
         /\ Reaches(Extent) \subseteq Reached(version)
<1>1. world \in Worlds /\ version \in DOMAIN world.versions /\ version \in Nat /\ extents # {} /\ extents \subseteq Visited(version)
  BY DEF SweepTypes
<1>2. Min(extents) \in extents
  BY <1>1, VisitedIs, MinIsLeast
<1>3. Extent = ExtentAt(version, Min(extents))
  BY DEF Extent, ExtentAt
<1>4. Min(extents) \in Visited(version) /\ Min(extents) \in DOMAIN world.versions[version].extents
  BY <1>1, <1>2, VisitedIs
<1>5. Extent.record \in DOMAIN world.records
  BY <1>1, <1>3, <1>4, VersionFacts
<1>6. world.headers[world.records[Extent.record].session] \in ({"ok"} \cup Symptoms) \cup Raised
  BY <1>1, <1>5, WorldFacts DEF WorldIsRight
<1>7. Reaches(Extent) \subseteq Reached(version)
  BY <1>1, <1>3, <1>4, ReachesAre
<1> QED  BY <1>1, <1>2, <1>3, <1>4, <1>5, <1>6, <1>7

ExtentStops == HeaderRaises(world.records[Extent.record].session) \/ (Extent.record \notin DOMAIN records /\ RecordRaises(Extent.record))

\* A record met for the first time reports under the first version that visits it.
LEMMA ClaimExtentGoesOn ==
  ASSUME SweepRight, ClaimExtent, ~ExtentStops
  PROVE  SweepRight' /\ pc' # "raised"
<1> USE DEF SweepRight
<1> DEFINE r0 == Extent.record
           s0 == world.records[r0].session
           header == s0 \notin sessions /\ world.headers[s0] # "ok"
           rec == EnsureRecordChecked(r0)
           hs == IF header THEN {Finding("Composition", world.headers[s0], <<"header", s0>>)} ELSE {}
           fs == rec.findings \union hs
<1>1. /\ pc = "claim" /\ pc' = "walk"
      /\ sessions' = sessions \union {s0} /\ records' = rec.records
      /\ walking' = (IF Walks(Extent, rec.records[r0]) THEN WindowKeys(Extent, rec.records[r0]) ELSE <<>>)
      /\ Report(fs, version)
      /\ UNCHANGED <<world, full, version, extents, walked, claim, pending, toCheck, sizing, running, checked, done, total, keyReported>>
  BY DEF ClaimExtent, ExtentStops
<1>2. /\ version \in DOMAIN world.versions /\ version \in Nat
      /\ Min(extents) \in extents /\ Min(extents) \in Visited(version) /\ Min(extents) \in DOMAIN world.versions[version].extents
      /\ Extent = ExtentAt(version, Min(extents)) /\ r0 \in DOMAIN world.records
      /\ world.headers[s0] \in ({"ok"} \cup Symptoms) \cup Raised /\ world \in Worlds
  BY <1>1, WalkFacts DEF SweepTypes
<1>h. world.headers[s0] \notin Raised /\ ~RecordRaises(r0)
  BY DEF ExtentStops, HeaderRaises, NoneRaised
<1>3. /\ r0 \in DOMAIN records => rec.findings = {} /\ rec.records = records
      /\ r0 \notin DOMAIN records => rec.findings = RecordFindings(r0) /\ rec.records = With(records, r0, RecordState(r0))
  BY DEF EnsureRecordChecked
<1> HIDE DEF rec
<1>4. DOMAIN records' = DOMAIN records \cup {r0} /\ records'[r0] = RecordState(r0)
      /\ \A r \in DOMAIN records' : records'[r] = RecordState(r)
  <2>1. \A r \in DOMAIN records : records[r] = RecordState(r)
    BY DEF RecordsAre
  <2>2. CASE r0 \in DOMAIN records
    BY <1>1, <1>3, <2>1, <2>2
  <2>3. CASE r0 \notin DOMAIN records
    <3>1. records' = With(records, r0, RecordState(r0))
      BY <1>1, <1>3, <2>3
    <3> QED  BY <2>1, <2>3, <3>1 DEF With
  <2> QED  BY <2>2, <2>3
<1>5. walking' = (IF Walks(Extent, RecordState(r0)) THEN WindowKeys(Extent, RecordState(r0)) ELSE <<>>)
  BY <1>1, <1>4
<1>6. \A v \in DOMAIN world.versions : Seen(v)' = Seen(v) /\ (Begun(v) => Begun(v)')
  BY <1>1, PlacesStay
<1>7. SweepTypes'
  <2>1. walking' \in Seq(Names)
    BY <1>2, <1>5, KeysAre, EmptySeq
  <2>2. Visited(version)' = Visited(version) /\ Names' = Names
    BY <1>1, SameWorld
  <2>3. DOMAIN records' \subseteq DOMAIN world.records
    BY <1>2, <1>4 DEF SweepTypes
  <2> QED  BY <1>1, <2>1, <2>2, <2>3 DEF SweepTypes
<1>8. RecordsAre'
  <2>1. \A v \in DOMAIN world.versions : Looked(v)' = IF v = version THEN Seen(v) \cup {Min(extents)} ELSE Seen(v)
    BY <1>1, <1>6 DEF Looked
  <2>2. \A v \in DOMAIN world.versions : Looked(v) = Seen(v)
    BY <1>1 DEF Looked
  <2>3. DOMAIN records' = UNION {{ExtentAt(v, k).record : k \in Looked(v)'} : v \in DOMAIN world.versions}
    <3>1. DOMAIN records = UNION {{ExtentAt(v, k).record : k \in Seen(v)} : v \in DOMAIN world.versions}
      BY <2>2 DEF RecordsAre
    <3> QED  BY <1>2, <1>4, <2>1, <3>1
  <2>5. \A r \in DOMAIN records' : records'[r] = RecordState(r)'
    BY <1>1, <1>4, SameWorld
  <2>6. UNION {{ExtentAt(v, k)'.record : k \in Looked(v)'} : v \in DOMAIN world'.versions} = UNION {{ExtentAt(v, k).record : k \in Looked(v)'} : v \in DOMAIN world.versions}
    BY <1>1, SMTT(20) DEF ExtentAt
  <2> QED  BY <2>3, <2>5, <2>6 DEF RecordsAre
<1>9. ClaimsAre'
  <2>1. Range(walking') \subseteq Reaches(Extent) /\ Reaches(Extent) \subseteq Claimed \cup Range(walking')
    <3>1. CASE Walks(Extent, RecordState(r0))
      BY <1>5, <3>1 DEF Walks, Reaches
    <3>2. CASE ~Walks(Extent, RecordState(r0))
      <4>1. Range(walking') = {}
        BY <1>5, <3>2 DEF Range
      <4>2. RecordState(r0) = "broken" \/ Window(Extent) \in walked
        BY <3>2 DEF Walks
      <4>3. Reaches(Extent) \subseteq Claimed
        BY <1>2, <4>2 DEF Reaches, ClaimsAre
      <4> QED  BY <4>1, <4>3
    <3> QED  BY <3>1, <3>2
  <2>2. Extent' = Extent
    BY <1>1 DEF Extent
  <2>3. /\ \A b \in Claimed' : claim'[b] \in DOMAIN world'.versions /\ b \in Reached(claim[b])'
                              /\ \A v \in DOMAIN world'.versions : v < claim'[b] => b \notin Reached(v)'
        /\ \A v \in DOMAIN world'.versions : \A k \in Seen(v)' : Reaches(ExtentAt(v, k))' \subseteq Claimed'
        /\ \A v \in DOMAIN world'.versions : \A k \in Visited(v)' : (Window(ExtentAt(v, k)) \in walked)' => Reaches(ExtentAt(v, k))' \subseteq Claimed'
    BY <1>1, <1>6, SameWorld, SMTT(20) DEF ClaimsAre, Claimed, Window
  <2>4. Range(walking)' \subseteq Reaches(Extent)' /\ Reaches(Extent)' \subseteq Claimed' \cup Range(walking)'
    BY <1>1, <2>1, <2>2, SameWorld DEF Claimed, Range
  <2> QED  BY <2>3, <2>4 DEF ClaimsAre
<1>10. QueuesAre' /\ ProgressIs'
  BY <1>1, QueuesStay, ProgressStays
<1>11. NoneDown'
  <2>1. \A v \in DOMAIN world.versions : Begun(v)' => Begun(v)
    BY <1>1 DEF Begun
  <2> QED  BY <1>1, <2>1 DEF NoneDown
<1>r. NoneRaised'
  <2>1. \A v, k : Window(ExtentAt(v, k))' = Window(ExtentAt(v, k)) /\ WalkFails(ExtentAt(v, k))' = WalkFails(ExtentAt(v, k))
    BY <1>1, SameWorld DEF Window, ExtentAt, WalkFails
  <2>2. /\ pc' # "info" => world'.info \notin Raised /\ world'.listing # "down"
        /\ \A s \in sessions' : world'.headers[s] \notin Raised
    BY <1>1, <1>h DEF NoneRaised
  <2>3. \A r \in DOMAIN records' : ~RecordRaises(r)' /\ world'.records[r].session \in sessions'
    <3> TAKE r \in DOMAIN records'
    <3>1. RecordRaises(r)' = RecordRaises(r)
      BY <1>1, SameWorld
    <3>2. CASE r = r0
      BY <1>1, <1>h, <3>1, <3>2
    <3>3. CASE r \in DOMAIN records
      BY <1>1, <3>1, <3>3 DEF NoneRaised
    <3> QED  BY <1>4, <3>2, <3>3
  <2>4. \A v \in DOMAIN world'.versions : \A k \in Seen(v)' : ~WalkFails(ExtentAt(v, k))'
    BY <1>1, <1>6, <2>1 DEF NoneRaised
  <2>5. \A v \in DOMAIN world'.versions : \A k \in Visited(v)' : (Window(ExtentAt(v, k)) \in walked)' => ~WalkFails(ExtentAt(v, k))'
    BY <1>1, <2>1, SameWorld, SMTT(20) DEF NoneRaised
  <2> QED  BY <2>2, <2>3, <2>4, <2>5 DEF NoneRaised
<1>12. FindingsAre'
  <2>1. IsFiniteSet(fs)
    <3>1. IsFiniteSet(hs)
      BY FS_EmptySet, FS_Singleton
    <3>2. IsFiniteSet(rec.findings)
      BY <1>2, <1>3, <1>h, RecordFindingsAre, FS_EmptySet
    <3> HIDE DEF hs
    <3> QED  BY <3>1, <3>2, FS_Union
  <2>2. \A f : Dealt(f) => Dealt(f)'
    BY <1>1, <1>4, <1>6, DealtStays
  <2>3. ASSUME NEW f \in Tagged(hs, version)
        PROVE  f.about = <<"header", s0>> /\ s0 \notin sessions /\ f.stage # "Bucket" /\ f.symptom # "KeyMissing"
    <3>1. header /\ f = [Finding("Composition", world.headers[s0], <<"header", s0>>) EXCEPT !.ref = version]
      BY DEF Tagged
    <3>2. s0 \notin sessions /\ world.headers[s0] \in Symptoms
      BY <1>2, <1>h, <3>1
    <3> HIDE DEF s0, header
    <3>3. f = [stage |-> "Composition", symptom |-> world.headers[s0], about |-> <<"header", s0>>, ref |-> version]
      BY <3>1, TaggedIs
    <3> QED  BY <3>2, <3>3 DEF Symptoms
  <2>4. ASSUME NEW f \in Tagged(rec.findings, version)
        PROVE  r0 \notin DOMAIN records /\ f.about \in {<<"head", r0>>, <<"map", r0>>, <<"attr", r0>>} /\ f.stage # "Bucket" /\ f.symptom # "KeyMissing"
    <3>1. r0 \notin DOMAIN records
      BY <1>3 DEF Tagged
    <3> QED  BY <1>2, <1>3, <1>h, <3>1, RecordFindingsAre
  <2>5. Tagged(fs, version) = Tagged(hs, version) \cup Tagged(rec.findings, version)
    BY DEF Tagged
  <2> HIDE DEF fs, hs
  <2>6. \A f \in Tagged(fs, version) : ~Dealt(f) /\ Dealt(f)' /\ f.about[1] # "bucket" /\ Plain(f)
    <3> TAKE f \in Tagged(fs, version)
    <3>1. CASE f \in Tagged(hs, version)
      <4>1. f.about[1] = "header" /\ f.about[2] = s0 /\ s0 \notin sessions /\ f.stage # "Bucket" /\ f.symptom # "KeyMissing"
        BY <2>3, <3>1
      <4> QED  BY <1>1, <4>1 DEF Dealt, Plain
    <3>2. CASE f \in Tagged(rec.findings, version)
      <4>1. f.about[1] \in {"head", "map", "attr"} /\ f.about[2] = r0 /\ r0 \notin DOMAIN records /\ f.stage # "Bucket" /\ f.symptom # "KeyMissing"
        BY <2>4, <3>2
      <4> QED  BY <1>4, <4>1 DEF Dealt, Plain
    <3> QED  BY <2>5, <3>1, <3>2
  <2>7. ASSUME NEW r \in DOMAIN world.records
        PROVE  OfRecord(r) \cup {f \in Tagged(fs, version) : f.about \in {<<"head", r>>, <<"map", r>>, <<"attr", r>>}}
                 = IF r \in DOMAIN records' THEN Tagged(RecordFindings(r), FirstOf(Visits(r))) ELSE {}
    <3>0. OfRecord(r) = IF r \in DOMAIN records THEN Tagged(RecordFindings(r), FirstOf(Visits(r))) ELSE {}
      BY DEF FindingsAre
    <3>1. CASE r # r0 \/ r0 \in DOMAIN records
      <4>1. \A f \in Tagged(fs, version) : f.about \notin {<<"head", r>>, <<"map", r>>, <<"attr", r>>}
        <5> TAKE f \in Tagged(fs, version)
        <5>1. CASE f \in Tagged(hs, version)
          BY <2>3, <5>1
        <5>2. CASE f \in Tagged(rec.findings, version)
          BY <2>4, <3>1, <5>2
        <5> QED  BY <2>5, <5>1, <5>2
      <4>2. r \in DOMAIN records' <=> r \in DOMAIN records
        BY <1>4, <3>1
      <4> QED  BY <3>0, <4>1, <4>2
    <3>2. CASE r = r0 /\ r0 \notin DOMAIN records
      <4>1. {f \in Tagged(fs, version) : f.about \in {<<"head", r>>, <<"map", r>>, <<"attr", r>>}} = Tagged(rec.findings, version)
        <5>1. \A f \in Tagged(hs, version) : f.about \notin {<<"head", r>>, <<"map", r>>, <<"attr", r>>}
          BY <2>3
        <5>2. \A f \in Tagged(rec.findings, version) : f.about \in {<<"head", r>>, <<"map", r>>, <<"attr", r>>}
          BY <2>4, <3>2
        <5> QED  BY <2>5, <5>1, <5>2
      <4>2. FirstOf(Visits(r)) = version
        <5>1. version \in Visits(r)
          BY <1>2, <3>2 DEF Visits, ExtentAt
        <5>2. ASSUME NEW v \in Visits(r)
              PROVE  version <= v
          <6>1. v \in DOMAIN world.versions /\ v \in Nat
            BY <1>2, VersionFacts DEF Visits
          <6>2. PICK k \in Visited(v) : ExtentAt(v, k).record = r
            BY DEF Visits, ExtentAt
          <6>3. CASE v < version
            <7>1. Seen(v) = Visited(v)
              BY <1>2, <6>1, <6>3 DEF Seen, Begun
            <7>2. k \in Looked(v)
              BY <6>2, <7>1 DEF Looked
            <7>3. r \in DOMAIN records
              BY <6>1, <6>2, <7>2 DEF RecordsAre
            <7> QED  BY <3>2, <7>3
          <6> QED  BY <1>2, <6>1, <6>3
        <5>3. Visits(r) \in SUBSET Nat
          BY <1>2, VersionFacts DEF Visits
        <5> QED  BY <5>1, <5>2, <5>3, MinIs DEF FirstOf
      <4> QED  BY <1>3, <1>4, <3>0, <3>2, <4>1, <4>2
    <3> QED  BY <3>1, <3>2
  <2> QED  BY <1>1, <2>1, <2>2, <2>6, <2>7, FindingsGrow
<1> QED  BY <1>1, <1>7, <1>8, <1>9, <1>10, <1>11, <1>r, <1>12

LEMMA ClaimExtentKeeps ==
  ASSUME SweepRight, ClaimExtent
  PROVE  SweepInv'
<1>1. CASE ExtentStops
  <2>1. Abort /\ pc = "claim"
    BY <1>1 DEF ClaimExtent, ExtentStops
  <2>2. version \in DOMAIN world.versions /\ Min(extents) \in Visited(version) /\ Extent = world.versions[version].extents[Min(extents)]
    BY <2>1, WalkFacts DEF SweepRight, ExtentAt
  <2>3. ExtentRaises(Extent)
    BY <1>1 DEF ExtentStops, ExtentRaises, HeaderRaises
  <2>4. VerifyRaises
    BY <2>2, <2>3 DEF VerifyRaises
  <2> QED  BY <2>1, <2>4, AbortKeeps DEF SweepRight
<1>2. CASE ~ExtentStops
  BY <1>2, ClaimExtentGoesOn DEF SweepInv
<1> QED  BY <1>1, <1>2

LEMMA FiveStages ==
  ASSUME NEW a, NEW b, NEW c, NEW d, NEW e
  PROVE  LET s == <<a, b, c, d, e>> IN
         /\ UNION {s[i] : i \in 1..5} = a \cup b \cup c \cup d \cup e
         /\ (\A i, j \in 1..5 : i # j => s[i] \cap s[j] = {})
            <=> /\ a \cap (b \cup c \cup d \cup e) = {} /\ b \cap (c \cup d \cup e) = {}
                /\ c \cap (d \cup e) = {} /\ d \cap e = {}
<1> DEFINE s == <<a, b, c, d, e>>
<1>1. s[1] = a /\ s[2] = b /\ s[3] = c /\ s[4] = d /\ s[5] = e
  OBVIOUS
<1>2. \A i : i \in 1..5 <=> i = 1 \/ i = 2 \/ i = 3 \/ i = 4 \/ i = 5
  OBVIOUS
<1> HIDE DEF s
<1>3. UNION {s[i] : i \in 1..5} = a \cup b \cup c \cup d \cup e
  BY <1>1, <1>2
<1>4. ASSUME \A i, j \in 1..5 : i # j => s[i] \cap s[j] = {}
      PROVE  /\ a \cap (b \cup c \cup d \cup e) = {} /\ b \cap (c \cup d \cup e) = {}
             /\ c \cap (d \cup e) = {} /\ d \cap e = {}
  <2>1. /\ a \cap b = {} /\ a \cap c = {} /\ a \cap d = {} /\ a \cap e = {} /\ b \cap c = {}
        /\ b \cap d = {} /\ b \cap e = {} /\ c \cap d = {} /\ c \cap e = {} /\ d \cap e = {}
    BY <1>1, <1>2, <1>4
  <2> QED  BY <2>1
<1>5. ASSUME a \cap (b \cup c \cup d \cup e) = {}, b \cap (c \cup d \cup e) = {},
             c \cap (d \cup e) = {}, d \cap e = {}, NEW i \in 1..5, NEW j \in 1..5, i # j
      PROVE  s[i] \cap s[j] = {}
  BY <1>1, <1>2, <1>5
<1> QED  BY <1>3, <1>4, <1>5 DEF s

\* The stages a claimed bucket passes through, one by one.
QueuesOf(claimed, a, b, c, d, e) ==
    /\ claimed = a \cup b \cup c \cup d \cup e
    /\ a \cap (b \cup c \cup d \cup e) = {} /\ b \cap (c \cup d \cup e) = {}
    /\ c \cap (d \cup e) = {} /\ d \cap e = {}

\* A bucket that goes on to the next stage leaves the others where they are.
LEMMA BucketMoves ==
  ASSUME NEW claimed, NEW a, NEW b, NEW c, NEW d, NEW e, QueuesOf(claimed, a, b, c, d, e), NEW x
  PROVE  /\ x \in b => QueuesOf(claimed, a, b \ {x}, c \cup {x}, d, e)
         /\ x \in c => QueuesOf(claimed, a, b, c \ {x}, d \cup {x}, e)
         /\ x \in d => QueuesOf(claimed, a, b, c, d \ {x}, e \cup {x})
<1>1. x \in b => QueuesOf(claimed, a, b \ {x}, c \cup {x}, d, e)
  BY DEF QueuesOf
<1>2. x \in c => QueuesOf(claimed, a, b, c \ {x}, d \cup {x}, e)
  BY DEF QueuesOf
<1>3. x \in d => QueuesOf(claimed, a, b, c, d \ {x}, e \cup {x})
  BY DEF QueuesOf
<1> QED  BY <1>1, <1>2, <1>3

LEMMA StagesAre ==
  (Claimed = UNION {Stages[i] : i \in 1..5} /\ \A i, j \in 1..5 : i # j => Stages[i] \cap Stages[j] = {})
  <=> QueuesOf(Claimed, Range(pending), sizing, Range(toCheck), running, DOMAIN checked)
<1>1. Stages = <<Range(pending), sizing, Range(toCheck), running, DOMAIN checked>>
  BY DEF Stages
<1> QED  BY <1>1, FiveStages DEF QueuesOf

LEMMA StagesAreNext ==
  (Claimed = UNION {Stages[i] : i \in 1..5} /\ \A i, j \in 1..5 : i # j => Stages[i] \cap Stages[j] = {})'
  <=> QueuesOf(Claimed', Range(pending'), sizing', Range(toCheck'), running', DOMAIN checked')
<1>1. Stages' = <<Range(pending'), sizing', Range(toCheck'), running', DOMAIN checked'>>
  BY DEF Stages, Range
<1>2. (Claimed' = UNION {Stages'[i] : i \in 1..5} /\ \A i, j \in 1..5 : i # j => Stages'[i] \cap Stages'[j] = {})
      <=> QueuesOf(Claimed', Range(pending'), sizing', Range(toCheck'), running', DOMAIN checked')
  BY <1>1, FiveStages DEF QueuesOf
<1> QED  BY <1>2

\* No version before this one reaches a bucket that is not claimed yet.
LEMMA ClaimKeyKeeps ==
  ASSUME SweepRight, ClaimKey
  PROVE  SweepRight' /\ pc' # "raised"
<1> USE DEF SweepRight
<1> DEFINE b == Head(walking)
<1>1. /\ pc = "walk" /\ walking # <<>> /\ walking' = Tail(walking)
      /\ UNCHANGED <<world, full, pc, version, extents, sessions, records, walked, toCheck, sizing, running, checked, done, total, found, keyReported>>
      /\ b \in Claimed => UNCHANGED <<claim, pending>>
      /\ b \notin Claimed => claim' = With(claim, b, version) /\ pending' = Append(pending, b)
  BY DEF ClaimKey
<1>2. /\ version \in DOMAIN world.versions /\ version \in Nat /\ Reaches(Extent) \subseteq Reached(version) /\ world \in Worlds
  BY <1>1, WalkFacts DEF SweepTypes
<1>3. /\ walking \in Seq(Names) /\ pending \in Seq(Names) /\ toCheck \in Seq(Names)
      /\ Tail(walking) \in Seq(Names) /\ Range(walking) = Range(Tail(walking)) \cup {b} /\ b \in Range(walking) /\ b \in Names
  <2>1. walking \in Seq(Names) /\ pending \in Seq(Names) /\ toCheck \in Seq(Names)
    BY DEF SweepTypes
  <2>2. Tail(walking) \in Seq(Names) /\ Range(walking) = Range(Tail(walking)) \cup {b} /\ b \in Range(walking)
    BY <1>1, <2>1, Tailed
  <2> QED  BY <2>1, <2>2, RangeIs
<1>4. b \in Reaches(Extent) /\ b \in Reached(version)
  BY <1>1, <1>2, <1>3 DEF ClaimsAre
<1> HIDE DEF b
<1>5. QueuesOf(Claimed, Range(pending), sizing, Range(toCheck), running, DOMAIN checked)
  BY StagesAre DEF QueuesAre
<1>6. /\ Claimed' = Claimed \cup {b}
      /\ \A c \in Claimed : claim'[c] = claim[c]
      /\ b \notin Claimed => claim'[b] = version
      /\ pending' \in Seq(Names) /\ Once(pending')
      /\ b \in Claimed => Range(pending') = Range(pending)
      /\ b \notin Claimed => Range(pending') = Range(pending) \cup {b}
  <2>1. CASE b \in Claimed
    BY <1>1, <1>3, <2>1 DEF Claimed, SweepTypes
  <2>2. CASE b \notin Claimed
    <3>1. b \notin Range(pending)
      BY <1>5, <2>2 DEF QueuesOf
    <3>2. pending' \in Seq(Names) /\ Once(pending') /\ Range(pending') = Range(pending) \cup {b}
      <4>1. pending' = Append(pending, b) /\ Once(pending)
        BY <1>1, <2>2 DEF SweepTypes
      <4> QED  BY <1>3, <3>1, <4>1, Appended
    <3>3. Claimed' = Claimed \cup {b} /\ claim'[b] = version /\ \A c \in Claimed : claim'[c] = claim[c]
      BY <1>1, <2>2 DEF Claimed, With
    <3> QED  BY <2>2, <3>2, <3>3
  <2> QED  BY <2>1, <2>2
<1>7. SweepTypes'
  <2>1. Names' = Names /\ Visited(version)' = Visited(version)
    BY <1>1, SameWorld
  <2>2. DOMAIN claim' \subseteq Names
    BY <1>3, <1>6 DEF Claimed, SweepTypes
  <2> QED  BY <1>1, <1>3, <1>6, <2>1, <2>2 DEF SweepTypes
<1>8. \A v \in DOMAIN world.versions : Seen(v)' = Seen(v) /\ (Begun(v) => Begun(v)') /\ Looked(v)' = Looked(v)
  BY <1>1, PlacesStay
<1>9. RecordsAre'
  BY <1>1, <1>8, RecordsStay
<1>10. ClaimsAre'
  <2>1. ASSUME NEW c \in Claimed'
        PROVE  claim'[c] \in DOMAIN world.versions /\ c \in Reached(claim'[c]) /\ \A v \in DOMAIN world.versions : v < claim'[c] => c \notin Reached(v)
    <3>1. CASE c \in Claimed
      BY <1>6, <3>1 DEF ClaimsAre
    <3>2. CASE c \notin Claimed
      <4>1. c = b /\ claim'[c] = version
        BY <1>6, <2>1, <3>2
      <4>2. ASSUME NEW v \in DOMAIN world.versions, v < version
            PROVE  Reached(v) \subseteq Claimed
        <5>1. v \in Nat
          BY <1>2, VersionFacts
        <5>2. Seen(v) = Visited(v)
          BY <1>2, <4>2, <5>1 DEF Seen, Begun
        <5> QED  BY <4>2, <5>2 DEF ClaimsAre, Reached, ExtentAt
      <4> QED  BY <1>2, <1>4, <3>2, <4>1, <4>2
    <3> QED  BY <3>1, <3>2
  <2>2. Extent' = Extent
    BY <1>1 DEF Extent
  <2>3. Range(walking') \subseteq Reaches(Extent) /\ Reaches(Extent) \subseteq Claimed' \cup Range(walking')
    BY <1>1, <1>3, <1>6 DEF ClaimsAre
  <2>4. /\ \A v \in DOMAIN world.versions : \A k \in Seen(v) : Reaches(ExtentAt(v, k)) \subseteq Claimed'
        /\ \A v \in DOMAIN world.versions : \A k \in Visited(v) : Window(ExtentAt(v, k)) \in walked => Reaches(ExtentAt(v, k)) \subseteq Claimed'
    BY <1>6 DEF ClaimsAre
  <2>5. \A c \in Claimed' : Reached(claim[c])' = Reached(claim'[c])
    BY <1>1, SameWorld
  <2>6. Range(walking)' = Range(walking')
    BY DEF Range
  <2>7. \A v, k : Window(ExtentAt(v, k))' = Window(ExtentAt(v, k))
    BY <1>1, SameWorld DEF Window
  <2>8. \A c \in Claimed' : claim'[c] \in DOMAIN world'.versions /\ c \in Reached(claim[c])'
                          /\ \A v \in DOMAIN world'.versions : v < claim'[c] => c \notin Reached(v)'
    BY <1>1, <2>1, <2>5, SameWorld
  <2>9. \A v \in DOMAIN world'.versions : \A k \in Seen(v)' : Reaches(ExtentAt(v, k))' \subseteq Claimed'
    BY <1>1, <1>8, <2>4, SameWorld
  <2>10. \A v \in DOMAIN world'.versions : \A k \in Visited(v)' : Window(ExtentAt(v, k))' \in walked' => Reaches(ExtentAt(v, k))' \subseteq Claimed'
    BY <1>1, <2>4, <2>7, SameWorld
  <2>11. Range(walking)' \subseteq Reaches(Extent)' /\ Reaches(Extent)' \subseteq Claimed' \cup Range(walking)'
    BY <1>1, <2>2, <2>3, <2>6, SameWorld
  <2> QED  BY <2>8, <2>9, <2>10, <2>11 DEF ClaimsAre
<1>11. QueuesAre'
  <2>1. QueuesOf(Claimed', Range(pending'), sizing', Range(toCheck'), running', DOMAIN checked')
    BY <1>1, <1>5, <1>6 DEF QueuesOf
  <2>2. (Claimed = UNION {Stages[i] : i \in 1..5} /\ \A i, j \in 1..5 : i # j => Stages[i] \cap Stages[j] = {})'
    BY <2>1, StagesAreNext
  <2> QED  BY <1>1, <2>2 DEF QueuesAre
<1>12. ProgressIs'
  BY <1>1, ProgressStays
<1>13. NoneDown'
  BY <1>1 DEF NoneDown, Begun
<1>r. NoneRaised'
  BY <1>1, <1>8, RaisedStay
<1>14. FindingsAre'
  <2>1. \A f : Dealt(f) => Dealt(f)'
    BY <1>1, <1>8, DealtStays
  <2>2. DOMAIN checked = {}
    BY <1>1 DEF QueuesAre
  <2> QED  BY <1>1, <2>1, <2>2, FindingsStay
<1> QED  BY <1>1, <1>7, <1>9, <1>10, <1>11, <1>12, <1>13, <1>r, <1>14

LEMMA SameWindow ==
  ASSUME NEW e, NEW g, Window(e) = Window(g)
  PROVE  Reaches(e) = Reaches(g) /\ WalkFails(e) = WalkFails(g)
<1>1. e.record = g.record /\ e.start = g.start /\ e.end = g.end
  BY DEF Window
<1>2. \A state : WindowOf(e, state) = WindowOf(g, state)
  BY <1>1 DEF WindowOf
<1>3. \A state : StopsOf(e, state) = StopsOf(g, state)
  BY <1>2 DEF StopsOf
<1>4. ASSUME NEW state
      PROVE  WindowKeys(e, state) = WindowKeys(g, state) /\ WalkRaises(e, state) = WalkRaises(g, state)
  <2>1. WindowOf(e, state) = WindowOf(g, state) /\ StopsOf(e, state) = StopsOf(g, state)
    BY <1>2, <1>3
  <2>2. WindowKeys(e, state) = WindowKeys(g, state)
    BY <2>1, Zenon DEF WindowKeys
  <2>3. WalkRaises(e, state) <=> WalkRaises(g, state)
    BY <2>1, Zenon DEF WalkRaises
  <2> QED  BY <2>2, <2>3 DEF WalkRaises
<1> QED  BY <1>1, <1>4 DEF Reaches, WalkFails

WalkStops == Walks(Extent, records[Extent.record]) /\ WalkRaises(Extent, records[Extent.record])

\* A window walked before reaches nothing that is not claimed.
LEMMA WalkEndsWell ==
  ASSUME SweepRight, WalkEnds, ~WalkStops
  PROVE  SweepRight' /\ pc' # "raised"
<1> USE DEF SweepRight
<1> DEFINE m == Min(extents)
           broken == Walks(Extent, records[Extent.record]) /\ Len(WindowKeys(Extent, records[Extent.record])) # Extent.end - Extent.start + 1
           fs == IF broken THEN {Finding("Composition", "Corruption", <<"walk", m>>)} ELSE {}
<1>1. /\ pc = "walk" /\ walking = <<>> /\ pc' \in {"batch", "claim"} /\ (pc' = "batch" <=> extents' = {})
      /\ extents' = extents \ {m} /\ walked' \subseteq walked \cup {Window(Extent)} /\ walked \subseteq walked'
      /\ UNCHANGED <<world, full, version, sessions, records, walking, claim, pending, toCheck, sizing, running, checked, done, total, keyReported>>
  BY DEF WalkEnds, WalkStops
<1>2. Report(fs, version)
  BY DEF WalkEnds, WalkStops
<1>3. /\ version \in DOMAIN world.versions /\ version \in Nat /\ Reaches(Extent) \subseteq Reached(version) /\ world \in Worlds
      /\ m \in extents /\ m \in Visited(version) /\ Extent = ExtentAt(version, m) /\ extents \subseteq Visited(version)
  BY <1>1, WalkFacts DEF SweepTypes
<1> HIDE DEF fs, broken, m
<1>4. Reaches(Extent) \subseteq Claimed
  <2>1. Range(walking) = {}
    BY <1>1 DEF Range
  <2> QED  BY <1>1, <2>1 DEF ClaimsAre
<1>5. SweepTypes'
  <2>1. Names' = Names /\ Visited(version)' = Visited(version)
    BY <1>1, SameWorld
  <2> QED  BY <1>1, <1>3, <2>1 DEF SweepTypes
<1>6. ASSUME NEW v \in DOMAIN world.versions
      PROVE  /\ Seen(v)' = IF v = version THEN Seen(v) \cup {m} ELSE Seen(v)
             /\ Looked(v)' = Looked(v) /\ (Begun(v)' <=> Begun(v))
  <2>1. v \in Nat /\ Visited(v)' = Visited(v)
    BY <1>1, <1>3, VersionFacts, SameWorld
  <2>2. Begun(v)' <=> Begun(v)
    BY <1>1 DEF Begun
  <2>3. Begun(version)
    BY <1>1 DEF Begun
  <2>4. Seen(v)' = IF v = version THEN Seen(v) \cup {m} ELSE Seen(v)
    BY <1>1, <1>3, <2>1, <2>2, <2>3 DEF Seen
  <2>5. Looked(v)' = Looked(v)
    BY <1>1, <2>4 DEF Looked, m
  <2> QED  BY <2>2, <2>4, <2>5
<1>7. RecordsAre'
  BY <1>1, <1>6, RecordsStay
<1>8. ClaimsAre'
  <2>1. \A b \in Claimed' : claim'[b] \in DOMAIN world'.versions /\ b \in Reached(claim[b])'
                          /\ \A v \in DOMAIN world'.versions : v < claim'[b] => b \notin Reached(v)'
    BY <1>1, SameWorld DEF ClaimsAre, Claimed
  <2>2. \A v \in DOMAIN world'.versions : \A k \in Seen(v)' : Reaches(ExtentAt(v, k))' \subseteq Claimed'
    <3>1. \A v \in DOMAIN world.versions : \A k \in Seen(v)' : k \in Seen(v) \/ (v = version /\ k = m)
      BY <1>6
    <3>2. \A v \in DOMAIN world.versions : \A k \in Seen(v)' : Reaches(ExtentAt(v, k)) \subseteq Claimed
      BY <1>3, <1>4, <3>1 DEF ClaimsAre
    <3> QED  BY <1>1, <3>2, SameWorld DEF Claimed
  <2>3. \A v \in DOMAIN world'.versions : \A k \in Visited(v)' : Window(ExtentAt(v, k))' \in walked' => Reaches(ExtentAt(v, k))' \subseteq Claimed'
    <3>1. ASSUME NEW v \in DOMAIN world.versions, NEW k \in Visited(v), Window(ExtentAt(v, k)) \in walked'
          PROVE  Reaches(ExtentAt(v, k)) \subseteq Claimed
      <4>1. CASE Window(ExtentAt(v, k)) \in walked
        BY <4>1 DEF ClaimsAre
      <4>2. CASE Window(ExtentAt(v, k)) = Window(Extent)
        BY <1>4, <4>2, SameWindow
      <4> QED  BY <1>1, <3>1, <4>1, <4>2
    <3>2. \A v, k : Window(ExtentAt(v, k))' = Window(ExtentAt(v, k))
      BY <1>1, SameWorld DEF Window
    <3> QED  BY <1>1, <3>1, <3>2, SameWorld DEF Claimed
  <2> QED  BY <1>1, <2>1, <2>2, <2>3 DEF ClaimsAre
<1>9. QueuesAre' /\ ProgressIs'
  BY <1>1, QueuesStay, ProgressStays
<1>10. NoneDown'
  BY <1>1, <1>6 DEF NoneDown
<1>r. NoneRaised'
  <2>1. \A v, k : Window(ExtentAt(v, k))' = Window(ExtentAt(v, k)) /\ WalkFails(ExtentAt(v, k))' = WalkFails(ExtentAt(v, k))
    BY <1>1, SameWorld DEF Window, ExtentAt, WalkFails
  <2>2. ~WalkFails(Extent)
    <3>1. records[Extent.record] = RecordState(Extent.record)
      <4>1. m \in Looked(version)
        BY <1>1 DEF Looked, m
      <4>2. Extent.record \in DOMAIN records
        BY <1>3, <4>1 DEF RecordsAre
      <4> QED  BY <4>2 DEF RecordsAre
    <3>2. CASE Walks(Extent, records[Extent.record])
      BY <3>1, <3>2 DEF WalkStops, WalkFails
    <3>3. CASE RecordState(Extent.record) = "broken"
      BY <3>3 DEF WalkFails, WalkRaises
    <3>4. CASE Window(Extent) \in walked
      BY <1>3, <3>4 DEF NoneRaised
    <3> QED  BY <3>1, <3>2, <3>3, <3>4 DEF Walks
  <2>3. /\ pc' # "info" => world'.info \notin Raised /\ world'.listing # "down"
        /\ \A s \in sessions' : world'.headers[s] \notin Raised
        /\ \A r \in DOMAIN records' : ~RecordRaises(r)' /\ world'.records[r].session \in sessions'
    BY <1>1, SameWorld DEF NoneRaised
  <2>4. \A v \in DOMAIN world.versions : \A k \in Seen(v)' : ~WalkFails(ExtentAt(v, k))
    <3> TAKE v \in DOMAIN world.versions
    <3> TAKE k \in Seen(v)'
    <3>1. k \in Seen(v) \/ (v = version /\ k = m)
      BY <1>6
    <3> QED  BY <1>3, <2>2, <3>1 DEF NoneRaised
  <2>5. \A v \in DOMAIN world.versions : \A k \in Visited(v) : Window(ExtentAt(v, k)) \in walked' => ~WalkFails(ExtentAt(v, k))
    <3> TAKE v \in DOMAIN world.versions
    <3> TAKE k \in Visited(v)
    <3>1. CASE Window(ExtentAt(v, k)) \in walked
      BY <3>1 DEF NoneRaised
    <3>2. CASE Window(ExtentAt(v, k)) = Window(Extent)
      BY <2>2, <3>2, SameWindow
    <3> QED  BY <1>1, <3>1, <3>2
  <2>6. \A v \in DOMAIN world'.versions : \A k \in Seen(v)' : ~WalkFails(ExtentAt(v, k))'
    BY <1>1, <2>1, <2>4
  <2>7. \A v \in DOMAIN world'.versions : \A k \in Visited(v)' : (Window(ExtentAt(v, k)) \in walked)' => ~WalkFails(ExtentAt(v, k))'
    BY <1>1, <2>1, <2>5, SameWorld
  <2> QED  BY <2>3, <2>6, <2>7 DEF NoneRaised
<1>11. FindingsAre'
  <2>1. IsFiniteSet(fs)
    BY FS_EmptySet, FS_Singleton DEF fs
  <2>2. \A f : Dealt(f) => Dealt(f)'
    BY <1>1, <1>6, DealtStays
  <2>3. ASSUME NEW f \in Tagged(fs, version)
        PROVE  f = [stage |-> "Composition", symptom |-> "Corruption", about |-> <<"walk", m>>, ref |-> version]
    <3>1. f = [Finding("Composition", "Corruption", <<"walk", m>>) EXCEPT !.ref = version]
      BY DEF Tagged, fs
    <3> QED  BY <3>1, TaggedIs
  <2>4. ASSUME NEW v \in DOMAIN world.versions, v = version
        PROVE  m \notin Seen(v) /\ m \in Seen(v)'
    <3>1. m \in Seen(v)'
      BY <1>6, <2>4
    <3>2. m \notin Seen(v)
      BY <1>3, <2>4 DEF Seen
    <3> QED  BY <3>1, <3>2
  <2>5. \A f \in Tagged(fs, version) : ~Dealt(f) /\ Dealt(f)' /\ f.about[1] # "bucket" /\ Plain(f)
    <3> TAKE f \in Tagged(fs, version)
    <3>1. f.about[1] = "walk" /\ f.about[2] = m /\ f.ref = version /\ f.stage # "Bucket" /\ f.symptom # "KeyMissing"
      BY <2>3
    <3>2. f.ref \in DOMAIN world.versions /\ f.about[2] \notin Seen(f.ref) /\ f.about[2] \in Seen(f.ref)'
      BY <1>3, <2>4, <3>1
    <3>3. ~Dealt(f) /\ Dealt(f)'
      BY <1>1, <3>1, <3>2 DEF Dealt
    <3> QED  BY <3>1, <3>3 DEF Plain
  <2>6. \A r \in DOMAIN world.records : OfRecord(r) \cup {f \in Tagged(fs, version) : f.about \in {<<"head", r>>, <<"map", r>>, <<"attr", r>>}}
               = IF r \in DOMAIN records' THEN Tagged(RecordFindings(r), FirstOf(Visits(r))) ELSE {}
    <3>1. \A r : \A f \in Tagged(fs, version) : f.about \notin {<<"head", r>>, <<"map", r>>, <<"attr", r>>}
      BY <2>3
    <3> QED  BY <1>1, <3>1 DEF FindingsAre
  <2> QED  BY <1>1, <1>2, <2>1, <2>2, <2>5, <2>6, FindingsGrow
<1> QED  BY <1>1, <1>5, <1>7, <1>8, <1>9, <1>10, <1>r, <1>11

LEMMA WalkEndsKeeps ==
  ASSUME SweepRight, WalkEnds
  PROVE  SweepInv'
<1>1. CASE WalkStops
  <2>1. Abort /\ pc = "walk"
    BY <1>1 DEF WalkEnds, WalkStops
  <2>2. version \in DOMAIN world.versions /\ Min(extents) \in Visited(version) /\ Extent = world.versions[version].extents[Min(extents)]
        /\ Extent = ExtentAt(version, Min(extents))
    BY <2>1, WalkFacts DEF SweepRight, ExtentAt
  <2>3. records[Extent.record] = RecordState(Extent.record)
    <3>1. Min(extents) \in Looked(version)
      BY <2>1 DEF Looked
    <3>2. Extent.record \in DOMAIN records
      BY <2>2, <3>1 DEF SweepRight, RecordsAre
    <3> QED  BY <3>2 DEF SweepRight, RecordsAre
  <2>4. ExtentRaises(Extent)
    BY <1>1, <2>3 DEF WalkStops, ExtentRaises
  <2>5. VerifyRaises
    BY <2>2, <2>4 DEF VerifyRaises
  <2> QED  BY <2>1, <2>5, AbortKeeps DEF SweepRight
<1>2. CASE ~WalkStops
  BY <1>2, WalkEndsWell DEF SweepInv
<1> QED  BY <1>1, <1>2

LEMMA FinalizeKeeps ==
  ASSUME SweepRight, FinalizePending
  PROVE  SweepRight' /\ pc' # "raised"
<1> USE DEF SweepRight
<1> DEFINE last == version = Len(world.versions)
           flush == last \/ Len(pending) >= BatchSize
<1>1. /\ pc = "batch" /\ version' = version + 1
      /\ pending' = (IF flush THEN <<>> ELSE pending)
      /\ toCheck' = (IF flush /\ ~full THEN toCheck \o pending ELSE toCheck)
      /\ sizing' = (IF flush /\ full THEN Range(pending) ELSE {})
      /\ total' = (IF full THEN total ELSE Len(toCheck'))
      /\ pc' = (IF sizing' # {} THEN "size" ELSE IF last THEN "check" ELSE "discover")
      /\ UNCHANGED <<world, full, extents, sessions, records, walked, walking, claim, running, checked, done, found, keyReported>>
  BY DEF FinalizePending
<1>2. /\ world \in Worlds /\ version \in DOMAIN world.versions /\ version \in Nat \ {0} /\ extents = {}
      /\ pending \in Seq(Names) /\ toCheck \in Seq(Names) /\ Once(pending) /\ Once(toCheck) /\ walking = <<>>
  BY <1>1 DEF SweepTypes
<1>3. Len(world.versions) \in Nat /\ DOMAIN world.versions = 1..Len(world.versions)
  BY <1>2, VersionFacts
<1>4. QueuesOf(Claimed, Range(pending), sizing, Range(toCheck), running, DOMAIN checked)
      /\ sizing = {} /\ running = {} /\ DOMAIN checked = {} /\ Claimed' = Claimed
  BY <1>1, StagesAre DEF QueuesAre, Claimed
<1>5. /\ toCheck \o pending \in Seq(Names) /\ Len(toCheck \o pending) = Len(toCheck) + Len(pending)
      /\ Range(toCheck \o pending) = Range(toCheck) \cup Range(pending) /\ Once(toCheck \o pending)
  BY <1>2, <1>4, Joined DEF QueuesOf
<1>6. <<>> \in Seq(Names) /\ Once(<<>>) /\ Range(<<>>) = {}
  BY EmptySeq DEF Once, Range
<1>7. /\ pending' \in Seq(Names) /\ toCheck' \in Seq(Names) /\ Once(pending') /\ Once(toCheck')
      /\ QueuesOf(Claimed', Range(pending'), sizing', Range(toCheck'), running', DOMAIN checked')
  <2>1. CASE ~flush
    BY <1>1, <1>2, <1>4, <2>1
  <2>2. CASE flush /\ full
    <3>1. pending' = <<>> /\ toCheck' = toCheck /\ sizing' = Range(pending)
      BY <1>1, <2>2
    <3> QED  BY <1>1, <1>2, <1>4, <1>6, <3>1 DEF QueuesOf
  <2>3. CASE flush /\ ~full
    <3>1. pending' = <<>> /\ toCheck' = toCheck \o pending /\ sizing' = {}
      BY <1>1, <2>3
    <3> QED  BY <1>1, <1>4, <1>5, <1>6, <3>1 DEF QueuesOf
  <2> QED  BY <2>1, <2>2, <2>3
<1>8. /\ pc' \in {"size", "check", "discover"} /\ (pc' = "size" <=> sizing' # {}) /\ (sizing' # {} => full)
      /\ (pc' = "check" => last) /\ (pc' = "discover" => ~last) /\ (pc' # "discover" => pending' = <<>>)
  BY <1>1
<1> HIDE DEF flush
<1>9. SweepTypes'
  <2>1. Names' = Names
    BY <1>1, SameWorld
  <2>2. /\ version + 1 \in Nat \ {0} /\ version + 1 <= Len(world.versions) + 1
        /\ pc' = "discover" => version + 1 \in DOMAIN world.versions
        /\ pc' = "check" => version + 1 = Len(world.versions) + 1
    BY <1>2, <1>3, <1>8
  <2> QED  BY <1>1, <1>2, <1>7, <1>8, <2>1, <2>2 DEF SweepTypes
<1>10. \A v \in DOMAIN world.versions : Seen(v)' = Seen(v) /\ (Begun(v) => Begun(v)') /\ Looked(v)' = Looked(v)
  BY <1>1, <1>8, PlacesStay
<1>11. RecordsAre' /\ ClaimsAre'
  BY <1>1, <1>8, <1>10, RecordsStay, ClaimsStay
<1>12. QueuesAre'
  <2>1. (Claimed = UNION {Stages[i] : i \in 1..5} /\ \A i, j \in 1..5 : i # j => Stages[i] \cap Stages[j] = {})'
    BY <1>7, StagesAreNext
  <2>2. full => toCheck' = toCheck
    BY <1>1
  <2>3. Range(toCheck)' = Range(toCheck')
    BY DEF Range
  <2> QED  BY <1>1, <1>4, <1>8, <2>1, <2>2, <2>3 DEF QueuesAre
<1>13. ProgressIs'
  <2>1. done = 0 /\ done' = 0 /\ Cardinality(running) = 0 /\ total \in Nat
    BY <1>1, <1>4, FS_EmptySet DEF ProgressIs
  <2>2. Len(toCheck') \in Nat
    BY <1>7, LenProperties
  <2>3. CASE full
    <3>1. toCheck' = toCheck /\ total' = total
      BY <1>1, <2>3
    <3> QED  BY <1>1, <2>1, <2>3, <3>1 DEF ProgressIs
  <2>4. CASE ~full
    <3>1. total' = Len(toCheck')
      BY <1>1, <2>4
    <3> QED  BY <1>1, <2>1, <2>2, <2>4, <3>1 DEF ProgressIs
  <2> QED  BY <2>3, <2>4
<1>14. NoneDown'
  <2>1. \A v \in DOMAIN world.versions : Begun(v)' => Begun(v)
    <3> TAKE v \in DOMAIN world.versions
    <3>1. v \in Nat
      BY <1>3
    <3> QED  BY <1>1, <1>2, <1>8, <3>1 DEF Begun
  <2> QED  BY <1>1, <2>1 DEF NoneDown
<1>r. NoneRaised'
  BY <1>1, <1>10, RaisedStay
<1>15. FindingsAre'
  <2>1. \A f : Dealt(f) => Dealt(f)'
    BY <1>1, <1>8, <1>10, DealtStays
  <2> QED  BY <1>1, <2>1, FindingsStay
<1> QED  BY <1>8, <1>9, <1>11, <1>12, <1>13, <1>14, <1>r, <1>15

LEMMA RangeIsFinite ==
  ASSUME NEW S, NEW s \in Seq(S)
  PROVE  IsFiniteSet(Range(s))
<1>1. Len(s) \in Nat /\ DOMAIN s = 1..Len(s)
  BY LenProperties
<1>2. IsFiniteSet(DOMAIN s)
  BY <1>1, FS_Interval
<1>3. Range(s) = {s[i] : i \in DOMAIN s}
  BY DEF Range
<1> QED  BY <1>2, <1>3, ImageIsFinite

\* A bucket a check of which would find the store down is reached by a version.
LEMMA DownIsReached ==
  ASSUME ClaimsAre, NEW b \in Claimed, "down" \in world.buckets[b]
  PROVE  VerifyRaises
  BY DEF ClaimsAre, VerifyRaises

LEMMA SizeOneBucketKeeps ==
  ASSUME SweepRight, NEW b \in DOMAIN world.buckets, SizeOneBucket(b)
  PROVE  SweepInv'
<1> USE DEF SweepRight
<1>1. pc = "size" /\ b \in sizing /\ b \in Claimed /\ QueuesOf(Claimed, Range(pending), sizing, Range(toCheck), running, DOMAIN checked)
  <2>1. pc = "size" /\ b \in sizing
    BY DEF SizeOneBucket
  <2>2. QueuesOf(Claimed, Range(pending), sizing, Range(toCheck), running, DOMAIN checked)
    BY StagesAre DEF QueuesAre
  <2> QED  BY <2>1, <2>2 DEF QueuesOf
<1>2. CASE "down" \in world.buckets[b]
  <2>1. Abort
    BY <1>2 DEF SizeOneBucket
  <2> QED  BY <1>1, <1>2, <2>1, DownIsReached, AbortKeeps
<1>3. CASE "down" \notin world.buckets[b]
  <2>1. /\ sizing' = sizing \ {b} /\ toCheck' = Append(toCheck, b) /\ total' = total + world.size[b]
        /\ pc' = (IF sizing' # {} THEN "size" ELSE IF version > Len(world.versions) THEN "check" ELSE "discover")
        /\ UNCHANGED <<world, full, version, extents, sessions, records, walked, walking, claim, pending, running, checked, done, found, keyReported>>
    BY <1>3 DEF SizeOneBucket
  <2>2. /\ world \in Worlds /\ version \in Nat \ {0} /\ version <= Len(world.versions) + 1
        /\ toCheck \in Seq(Names) /\ Once(toCheck) /\ full /\ pending = <<>> /\ running = {} /\ DOMAIN checked = {}
        /\ b \in Names /\ b \notin Range(toCheck)
    <3>1. /\ world \in Worlds /\ version \in Nat \ {0} /\ version <= Len(world.versions) + 1 /\ toCheck \in Seq(Names) /\ Once(toCheck)
      BY DEF SweepTypes
    <3>2. full /\ pending = <<>> /\ running = {} /\ DOMAIN checked = {}
      BY <1>1 DEF QueuesAre
    <3> QED  BY <1>1, <3>1, <3>2 DEF QueuesOf, Names
  <2>3. toCheck' \in Seq(Names) /\ Once(toCheck') /\ Range(toCheck') = Range(toCheck) \cup {b}
    BY <2>1, <2>2, Appended
  <2>4. /\ pc' \in {"size", "check", "discover"} /\ (pc' = "size" <=> sizing' # {})
        /\ pc' = "discover" => version \in DOMAIN world.versions
        /\ pc' = "check" => version = Len(world.versions) + 1
    <3>1. Len(world.versions) \in Nat /\ DOMAIN world.versions = 1..Len(world.versions)
      BY <2>2, VersionFacts
    <3> QED  BY <2>1, <2>2, <3>1
  <2>5. SweepTypes'
    <3>1. Names' = Names
      BY <2>1, SameWorld
    <3> QED  BY <1>1, <2>1, <2>2, <2>3, <2>4, <3>1 DEF SweepTypes
  <2>6. \A v \in DOMAIN world.versions : Seen(v)' = Seen(v) /\ (Begun(v) => Begun(v)') /\ Looked(v)' = Looked(v)
    BY <1>1, <2>1, <2>4, PlacesStay
  <2>7. RecordsAre' /\ ClaimsAre'
    BY <2>1, <2>4, <2>6, RecordsStay, ClaimsStay
  <2>8. QueuesAre'
    <3>1. QueuesOf(Claimed', Range(pending'), sizing', Range(toCheck'), running', DOMAIN checked')
      <4>1. Claimed' = Claimed
        BY <2>1 DEF Claimed
      <4>2. QueuesOf(Claimed, Range(pending), sizing \ {b}, Range(toCheck) \cup {b}, running, DOMAIN checked)
        BY <1>1, BucketMoves
      <4> QED  BY <2>1, <2>3, <4>1, <4>2
    <3>2. (Claimed = UNION {Stages[i] : i \in 1..5} /\ \A i, j \in 1..5 : i # j => Stages[i] \cap Stages[j] = {})'
      BY <3>1, StagesAreNext
    <3>3. Range(toCheck)' = Range(toCheck')
      BY DEF Range
    <3>4. Range(toCheck)' \union running' \subseteq DOMAIN world.buckets
      BY <2>1, <2>2, <2>3, <3>3 DEF QueuesAre
    <3> QED  BY <2>1, <2>2, <2>4, <3>2, <3>4 DEF QueuesAre
  <2>9. ProgressIs'
    <3>1. done = 0 /\ total = done + Weight(world.size, Range(toCheck) \union running) /\ total \in Nat
      BY <1>1, <2>2 DEF ProgressIs
    <3>2. world.size \in [DOMAIN world.buckets -> Nat]
      BY <2>2, WorldFacts DEF WorldIsRight
    <3>3. IsFiniteSet(Range(toCheck)) /\ Range(toCheck) \subseteq DOMAIN world.buckets
      BY <2>2, RangeIsFinite DEF QueuesAre
    <3>4. Weight(world.size, Range(toCheck) \cup {b}) = Weight(world.size, Range(toCheck)) + world.size[b]
      BY <2>2, <3>2, <3>3, WeightAdds
    <3>5. total' = done' + Weight(world.size, Range(toCheck') \cup running')
      <4>1. Range(toCheck') \cup running' = Range(toCheck) \cup {b} /\ Range(toCheck) \union running = Range(toCheck)
        BY <2>1, <2>2, <2>3
      <4>2. Weight(world.size, Range(toCheck)) \in Nat /\ world.size[b] \in Nat
        BY <3>2, <3>3, WeightAdds
      <4>3. total = Weight(world.size, Range(toCheck)) /\ done' = 0
        <5>1. total = done + Weight(world.size, Range(toCheck))
          BY <3>1, <4>1, Zenon
        <5>2. done = 0 /\ done' = done
          BY <2>1, <3>1
        <5> QED  BY <4>2, <5>1, <5>2
      <4>4. total' = Weight(world.size, Range(toCheck) \cup {b}) /\ total' \in Nat
        BY <2>1, <3>4, <4>2, <4>3
      <4>5. total' = Weight(world.size, Range(toCheck') \cup running')
        BY <4>1, <4>4, Zenon
      <4> QED  BY <4>3, <4>4, <4>5
    <3>6. total' \in Nat
      <4>1. world.size[b] \in Nat
        BY <3>2
      <4> QED  BY <2>1, <3>1, <4>1
    <3>7. Weight(world.size, Range(toCheck) \cup running)' = Weight(world.size, Range(toCheck') \cup running')
      BY <2>1 DEF Weight, Range
    <3> QED  BY <2>1, <2>2, <3>1, <3>5, <3>6, <3>7 DEF ProgressIs
  <2>10. NoneDown'
    <3>1. \A v \in DOMAIN world.versions : Begun(v)' => Begun(v)
      BY <1>1, <2>1, <2>4 DEF Begun
    <3> QED  BY <2>1, <3>1 DEF NoneDown
  <2>r. NoneRaised'
    BY <1>1, <2>1, <2>6, RaisedStay
  <2>11. FindingsAre'
    <3>1. \A f : Dealt(f) => Dealt(f)'
      BY <1>1, <2>1, <2>4, <2>6, DealtStays
    <3> QED  BY <2>1, <3>1, FindingsStay
  <2>12. pc' # "raised"
    BY <2>4
  <2> QED  BY <2>5, <2>7, <2>8, <2>9, <2>10, <2>r, <2>11, <2>12 DEF SweepInv
<1> QED  BY <1>2, <1>3

LEMMA CheckBeginsKeeps ==
  ASSUME SweepRight, NEW k, CheckBegins(k)
  PROVE  SweepRight' /\ pc' # "raised"
<1> USE DEF SweepRight
<1> DEFINE b == toCheck[k]
<1>1. /\ pc = "check" /\ k \in DOMAIN toCheck
      /\ Cardinality(running) < (IF full THEN Min({MaxReads, MaxDecodes}) ELSE MaxReads)
      /\ running' = running \union {b} /\ toCheck' = RemoveAt(toCheck, k)
      /\ UNCHANGED <<world, full, pc, version, extents, sessions, records, walked, walking, claim, pending, sizing, checked, done, total, found, keyReported>>
  BY DEF CheckBegins
<1>2. /\ world \in Worlds /\ toCheck \in Seq(Names) /\ Once(toCheck)
      /\ QueuesOf(Claimed, Range(pending), sizing, Range(toCheck), running, DOMAIN checked)
      /\ IsFiniteSet(running) /\ b \in Range(toCheck)
  BY <1>1, StagesAre DEF QueuesAre, SweepTypes, Range
<1> HIDE DEF b
<1>3. toCheck' \in Seq(Names) /\ Len(toCheck') = Len(toCheck) - 1 /\ Once(toCheck') /\ Range(toCheck') = Range(toCheck) \ {b}
  BY <1>1, <1>2, Removed DEF b
<1>4. b \notin running /\ IsFiniteSet(running') /\ Cardinality(running') = Cardinality(running) + 1 /\ Cardinality(running) \in Nat
  <2>1. b \notin running
    BY <1>2 DEF QueuesOf
  <2> QED  BY <1>1, <1>2, <2>1, FS_AddElement, FS_CardinalityType
<1>5. Cardinality(running') <= MaxReads
  <2>1. MaxReads \in Nat /\ MaxDecodes \in Nat
    BY VerifyAssumption
  <2>2. Min({MaxReads, MaxDecodes}) \in {MaxReads, MaxDecodes} /\ Min({MaxReads, MaxDecodes}) <= MaxReads
    BY <2>1, MinIsLeast
  <2> DEFINE least == Min({MaxReads, MaxDecodes})
  <2>3. least \in Nat /\ least <= MaxReads
    BY <2>1, <2>2
  <2>4. Cardinality(running) < (IF full THEN least ELSE MaxReads)
    BY <1>1
  <2> HIDE DEF least
  <2> QED  BY <1>4, <2>1, <2>3, <2>4
<1>6. SweepTypes'
  <2>1. Names' = Names /\ Visited(version)' = Visited(version)
    BY <1>1, SameWorld
  <2> QED  BY <1>1, <1>3, <2>1 DEF SweepTypes
<1>7. \A v \in DOMAIN world.versions : Seen(v)' = Seen(v) /\ (Begun(v) => Begun(v)') /\ Looked(v)' = Looked(v)
  BY <1>1, PlacesStay
<1>8. RecordsAre' /\ ClaimsAre'
  BY <1>1, <1>7, RecordsStay, ClaimsStay
<1>9. Range(toCheck') \cup running' = Range(toCheck) \cup running
  BY <1>1, <1>2, <1>3
<1>10. QueuesAre'
  <2>1. QueuesOf(Claimed', Range(pending'), sizing', Range(toCheck'), running', DOMAIN checked')
    <3>1. Claimed' = Claimed
      BY <1>1 DEF Claimed
    <3>2. QueuesOf(Claimed, Range(pending), sizing, Range(toCheck) \ {b}, running \cup {b}, DOMAIN checked)
      BY <1>2, BucketMoves
    <3> QED  BY <1>1, <1>3, <3>1, <3>2
  <2>2. (Claimed = UNION {Stages[i] : i \in 1..5} /\ \A i, j \in 1..5 : i # j => Stages[i] \cap Stages[j] = {})'
    BY <2>1, StagesAreNext
  <2>3. Range(toCheck)' = Range(toCheck')
    BY DEF Range
  <2> QED  BY <1>1, <1>4, <1>5, <1>9, <2>2, <2>3 DEF QueuesAre
<1>11. ProgressIs'
  <2>1. Weight(world.size, Range(toCheck) \cup running)' = Weight(world.size, Range(toCheck') \cup running')
    BY <1>1 DEF Weight, Range
  <2>2. Len(toCheck) \in Nat
    BY <1>2, LenProperties
  <2>3. Len(toCheck') + Cardinality(running') = Len(toCheck) + Cardinality(running)
    BY <1>3, <1>4, <2>2
  <2>4. ~full => total' = done' + Len(toCheck') + Cardinality(running')
    <3>1. Len(toCheck') \in Int /\ Cardinality(running') \in Int
      BY <1>3, <1>4, <2>2
    <3>2. done \in Nat /\ (~full => total = done + Len(toCheck) + Cardinality(running))
      BY DEF ProgressIs
    <3> DEFINE m == Len(toCheck')
               c == Cardinality(running')
    <3>3. total' = total /\ done' = done /\ m \in Int /\ c \in Int /\ m + c = Len(toCheck) + Cardinality(running)
      BY <1>1, <2>3, <3>1
    <3> HIDE DEF m, c
    <3>4. ~full => total' = done' + m + c
      BY <1>4, <2>2, <3>2, <3>3
    <3> QED  BY <3>4 DEF m, c
  <2>5. full => total' = done' + Weight(world.size, Range(toCheck') \cup running')
    BY <1>1, <1>9 DEF ProgressIs
  <2> QED  BY <1>1, <2>1, <2>4, <2>5 DEF ProgressIs
<1>12. NoneDown'
  BY <1>1 DEF NoneDown, Begun
<1>r. NoneRaised'
  BY <1>1, <1>7, RaisedStay
<1>13. FindingsAre'
  <2>1. \A f : Dealt(f) => Dealt(f)'
    BY <1>1, <1>7, DealtStays
  <2> QED  BY <1>1, <2>1, FindingsStay
<1> QED  BY <1>1, <1>6, <1>8, <1>10, <1>11, <1>12, <1>r, <1>13

LEMMA BucketFindingIs ==
  ASSUME NEW b, NEW s
  PROVE  BucketFinding(b, s) = [stage |-> IF s = "KeyMissing" THEN "EncryptKey" ELSE "Bucket", symptom |-> s, about |-> <<"bucket", b>>, ref |-> claim[b]]
  BY TaggedIs DEF BucketFinding

\* What the checks of the buckets found, with one bucket more.
LEMMA BucketReported ==
  ASSUME SweepRight, NEW b \in DOMAIN world.buckets, pc = "check", b \in running, b \notin DOMAIN checked,
         "down" \notin world.buckets[b], TagWithClaim(b, DedupKeyMissing(world.buckets[b])),
         keyReported' = (keyReported \/ "KeyMissing" \in world.buckets[b]),
         DOMAIN checked' = DOMAIN checked \cup {b}, UNCHANGED <<world, pc, version, extents, sessions, records, claim>>
  PROVE  FindingsAre'
<1> USE DEF SweepRight
<1> DEFINE syms == DedupKeyMissing(world.buckets[b])
           key == "KeyMissing"
           fs == {Finding(IF s = key THEN "EncryptKey" ELSE "Bucket", s, <<"bucket", b>>) : s \in syms}
           new == {BucketFinding(b, s) : s \in syms}
<1>1. Report(fs, claim[b])
  BY DEF TagWithClaim
<1>2. Tagged(fs, claim[b]) = new
  BY DEF Tagged, BucketFinding
<1>3. syms = IF keyReported THEN world.buckets[b] \ {key} ELSE world.buckets[b]
  BY DEF DedupKeyMissing
<1>4. IsFiniteSet(fs)
  <2>1. world.buckets[b] \subseteq {"Mismatch", "Corruption", "RepairedViaParity", "DataMissing", "KeyMissing", "down"}
    BY WorldFacts DEF WorldIsRight, SweepTypes
  <2>2. IsFiniteSet({"Mismatch", "Corruption", "RepairedViaParity", "DataMissing", "KeyMissing", "down"})
    <3>1. IsFiniteSet({"Mismatch"})
      BY FS_Singleton
    <3>2. IsFiniteSet({"Mismatch"} \cup {"Corruption"})
      BY <3>1, FS_AddElement
    <3>3. IsFiniteSet({"Mismatch", "Corruption"} \cup {"RepairedViaParity"})
      BY <3>2, FS_AddElement
    <3>4. IsFiniteSet({"Mismatch", "Corruption", "RepairedViaParity"} \cup {"DataMissing"})
      BY <3>3, FS_AddElement
    <3>5. IsFiniteSet({"Mismatch", "Corruption", "RepairedViaParity", "DataMissing"} \cup {"KeyMissing"})
      BY <3>4, FS_AddElement
    <3>6. IsFiniteSet({"Mismatch", "Corruption", "RepairedViaParity", "DataMissing", "KeyMissing"} \cup {"down"})
      BY <3>5, FS_AddElement
    <3> QED  BY <3>6
  <2>3. IsFiniteSet(syms)
    BY <1>3, <2>1, <2>2, FS_Subset
  <2> DEFINE g == [s \in syms |-> Finding(IF s = key THEN "EncryptKey" ELSE "Bucket", s, <<"bucket", b>>)]
  <2>4. DOMAIN g = syms /\ fs = {g[s] : s \in DOMAIN g}
    OBVIOUS
  <2> HIDE DEF g, fs, syms
  <2> QED  BY <2>3, <2>4, ImageIsFinite
<1> HIDE DEF fs, syms
<1>5. \A f \in new : f.about = <<"bucket", b>> /\ f.about[1] = "bucket" /\ f.about[2] = b
  BY BucketFindingIs
<1>6. new \cap DOMAIN found = {}
  <2>1. \A f \in DOMAIN found : Dealt(f)
    BY DEF FindingsAre
  <2> QED  BY <1>5, <2>1 DEF Dealt
<1>7. DOMAIN found' = DOMAIN found \cup new /\ IsFiniteSet(DOMAIN found') /\ \A f \in DOMAIN found' : found'[f] = 1
  <2>1. IsFiniteSet(DOMAIN found) /\ \A f \in DOMAIN found : found[f] = 1
    BY DEF FindingsAre
  <2> HIDE DEF new
  <2> QED  BY <1>1, <1>2, <1>4, <1>6, <2>1, ReportAdds
<1>8. \A f \in DOMAIN found' : Dealt(f)' /\ Plain(f)
  <2>1. \A v \in DOMAIN world.versions : Seen(v)' = Seen(v) /\ (Begun(v) => Begun(v)')
    BY PlacesStay
  <2>2. \A f : Dealt(f) => Dealt(f)'
    BY <2>1, DealtStays
  <2>3. \A f \in new : Dealt(f)' /\ Plain(f)
    BY <1>5 DEF Dealt, Plain
  <2>4. \A f \in DOMAIN found : Dealt(f) /\ Plain(f)
    BY DEF FindingsAre
  <2> QED  BY <1>7, <2>2, <2>3, <2>4
<1>9. ASSUME NEW r \in DOMAIN world.records
      PROVE  OfRecord(r)' = IF r \in DOMAIN records' THEN Tagged(RecordFindings(r)', FirstOf(Visits(r)')) ELSE {}
  <2>1. \A f \in new : f.about \notin {<<"head", r>>, <<"map", r>>, <<"attr", r>>}
    BY <1>5
  <2>2. OfRecord(r)' = OfRecord(r)
    BY <1>7, <2>1 DEF OfRecord
  <2> QED  BY <2>2, SameWorld DEF FindingsAre
<1>10. \A c, s : BucketFinding(c, s)' = BucketFinding(c, s)
  BY DEF BucketFinding
<1>11. {f \in DOMAIN found' : f.stage = "Bucket"} = UNION {{BucketFinding(c, s)' : s \in world'.buckets[c] \ {key}} : c \in DOMAIN checked'}
  <2>1. {f \in new : f.stage = "Bucket"} = {BucketFinding(b, s) : s \in world.buckets[b] \ {key}}
    <3>1. \A s \in syms : BucketFinding(b, s).stage = "Bucket" <=> s # key
      BY BucketFindingIs
    <3>2. {s \in syms : s # key} = world.buckets[b] \ {key}
      BY <1>3
    <3> HIDE DEF key
    <3> QED  BY <3>1, <3>2
  <2> DEFINE old == UNION {{BucketFinding(c, s) : s \in world.buckets[c] \ {key}} : c \in DOMAIN checked}
  <2>2. {f \in DOMAIN found : f.stage = "Bucket"} = old
    BY DEF FindingsAre
  <2>3. {f \in DOMAIN found' : f.stage = "Bucket"} = old \cup {BucketFinding(b, s) : s \in world.buckets[b] \ {key}}
    <3> HIDE DEF new, old
    <3> QED  BY <1>7, <2>1, <2>2
  <2>4. UNION {{BucketFinding(c, s) : s \in world.buckets[c] \ {key}} : c \in DOMAIN checked \cup {b}} = old \cup {BucketFinding(b, s) : s \in world.buckets[b] \ {key}}
    OBVIOUS
  <2>5. UNION {{BucketFinding(c, s)' : s \in world'.buckets[c] \ {key}} : c \in DOMAIN checked'} = UNION {{BucketFinding(c, s) : s \in world.buckets[c] \ {key}} : c \in DOMAIN checked \cup {b}}
    BY <1>10
  <2> QED  BY <2>3, <2>4, <2>5
<1>12. Keyless' = Keyless \cup (IF key \in world.buckets[b] THEN {b} ELSE {})
  BY DEF Keyless
<1>13. keyReported' <=> Keyless' # {}
  BY <1>12 DEF FindingsAre
<1>14. \E K \in SUBSET Keyless' : /\ {f \in DOMAIN found' : f.symptom = key} = {BucketFinding(c, key)' : c \in K}
                                  /\ IF keyReported' THEN \E c \in K : K = {c} ELSE K = {}
  <2>1. PICK K \in SUBSET Keyless : /\ {f \in DOMAIN found : f.symptom = key} = {BucketFinding(c, key) : c \in K}
                                    /\ IF keyReported THEN \E c \in K : K = {c} ELSE K = {}
    BY DEF FindingsAre
  <2>2. \A s \in syms : BucketFinding(b, s).symptom = s
    BY BucketFindingIs
  <2>3. {f \in new : f.symptom = key} = IF key \in syms THEN {BucketFinding(b, key)} ELSE {}
    BY <2>2
  <2>4. CASE key \in syms
    <3>1. ~keyReported /\ K = {} /\ key \in world.buckets[b]
      BY <1>3, <2>1, <2>4
    <3>2. {f \in DOMAIN found' : f.symptom = key} = {BucketFinding(b, key)}
      <4> HIDE DEF new
      <4> QED  BY <1>7, <2>1, <2>3, <2>4, <3>1
    <3>3. {f \in DOMAIN found' : f.symptom = key} = {BucketFinding(c, key)' : c \in {b}}
      BY <1>10, <3>2
    <3>4. {b} \in SUBSET Keyless' /\ keyReported'
      BY <1>12, <3>1
    <3> QED  BY <3>3, <3>4
  <2>5. CASE key \notin syms
    <3>1. {f \in DOMAIN found' : f.symptom = key} = {f \in DOMAIN found : f.symptom = key}
      <4> HIDE DEF new
      <4> QED  BY <1>7, <2>3, <2>5
    <3>2. {BucketFinding(c, key)' : c \in K} = {BucketFinding(c, key) : c \in K}
      BY <1>10
    <3>3. keyReported' <=> keyReported
      BY <1>3, <2>5 DEF FindingsAre
    <3>4. K \in SUBSET Keyless'
      BY <1>12, <2>1
    <3> QED  BY <2>1, <3>1, <3>2, <3>3, <3>4
  <2> QED  BY <2>4, <2>5
<1> HIDE DEF new
<1> QED  BY <1>7, <1>8, <1>9, <1>11, <1>13, <1>14 DEF FindingsAre, Plain

\* A bucket is checked once, and leaves the total as it was.
LEMMA CheckEndsKeeps ==
  ASSUME SweepRight, NEW b \in DOMAIN world.buckets, CheckEnds(b)
  PROVE  SweepInv'
<1> USE DEF SweepRight
<1>1. pc = "check" /\ b \in running /\ b \in Claimed /\ b \notin DOMAIN checked
      /\ QueuesOf(Claimed, Range(pending), sizing, Range(toCheck), running, DOMAIN checked)
  <2>1. pc = "check" /\ b \in running
    BY DEF CheckEnds
  <2>2. QueuesOf(Claimed, Range(pending), sizing, Range(toCheck), running, DOMAIN checked)
    BY StagesAre DEF QueuesAre
  <2> QED  BY <2>1, <2>2 DEF QueuesOf
<1>2. CASE "down" \in world.buckets[b]
  <2>1. Abort
    BY <1>2 DEF CheckEnds
  <2> QED  BY <1>1, <1>2, <2>1, DownIsReached, AbortKeeps
<1>3. CASE "down" \notin world.buckets[b]
  <2>1. /\ running' = running \ {b} /\ checked' = checked (+) SetToBag({b})
        /\ TagWithClaim(b, DedupKeyMissing(world.buckets[b]))
        /\ keyReported' = (keyReported \/ "KeyMissing" \in world.buckets[b])
        /\ done' = done + (IF full THEN world.size[b] ELSE 1)
        /\ UNCHANGED <<world, full, pc, version, extents, sessions, records, walked, walking, claim, pending, toCheck, sizing, total>>
    BY <1>3 DEF CheckEnds
  <2>2. world \in Worlds /\ toCheck \in Seq(Names) /\ IsFiniteSet(running) /\ Cardinality(running) <= MaxReads
    BY DEF SweepTypes, QueuesAre
  <2>3. DOMAIN checked' = DOMAIN checked \cup {b} /\ checked' = SetToBag(DOMAIN checked')
    <3>1. checked = SetToBag(DOMAIN checked)
      BY DEF QueuesAre
    <3>2. SetToBag(DOMAIN checked) (+) SetToBag({b}) = SetToBag(DOMAIN checked \cup {b})
      <4>1. DOMAIN checked \cap {b} = {}
        BY <1>1
      <4> QED  BY <4>1, BagOfSets
    <3>3. checked' = SetToBag(DOMAIN checked \cup {b})
      BY <2>1, <3>1, <3>2, Zenon
    <3>4. \A S : DOMAIN SetToBag(S) = S
      BY DEF SetToBag
    <3>5. DOMAIN checked' = DOMAIN checked \cup {b}
      BY <3>3, <3>4, Zenon
    <3> QED  BY <3>3, <3>5
  <2>4. IsFiniteSet(running') /\ Cardinality(running') = Cardinality(running) - 1 /\ Cardinality(running) \in Nat /\ Cardinality(running') \in Nat
    BY <1>1, <2>1, <2>2, FS_RemoveElement, FS_CardinalityType
  <2>5. SweepTypes'
    <3>1. Names' = Names /\ Visited(version)' = Visited(version)
      BY <2>1, SameWorld
    <3> QED  BY <2>1, <3>1 DEF SweepTypes
  <2>6. \A v \in DOMAIN world.versions : Seen(v)' = Seen(v) /\ (Begun(v) => Begun(v)') /\ Looked(v)' = Looked(v)
    BY <2>1, PlacesStay
  <2>7. RecordsAre' /\ ClaimsAre'
    BY <1>1, <2>1, <2>6, RecordsStay, ClaimsStay
  <2>8. QueuesAre'
    <3>1. QueuesOf(Claimed', Range(pending'), sizing', Range(toCheck'), running', DOMAIN checked')
      <4>1. Claimed' = Claimed
        BY <2>1 DEF Claimed
      <4>2. QueuesOf(Claimed, Range(pending), sizing, Range(toCheck), running \ {b}, DOMAIN checked \cup {b})
        BY <1>1, BucketMoves
      <4> QED  BY <2>1, <2>3, <4>1, <4>2
    <3>2. (Claimed = UNION {Stages[i] : i \in 1..5} /\ \A i, j \in 1..5 : i # j => Stages[i] \cap Stages[j] = {})'
      BY <3>1, StagesAreNext
    <3>3. Cardinality(running') <= MaxReads
      BY <2>2, <2>4, VerifyAssumption
    <3>4. /\ DOMAIN checked' \subseteq DOMAIN world'.buckets
          /\ full' => Range(toCheck)' \union running' \subseteq DOMAIN world'.buckets
      BY <2>1, <2>3 DEF QueuesAre, Range
    <3>5. /\ pc' \in {"info", "size", "check", "done"} => pending' = <<>>
          /\ (sizing' # {} <=> pc' = "size") /\ (sizing' # {} => full')
          /\ pc' \notin {"check", "done"} => running' = {} /\ DOMAIN checked' = {}
          /\ pc' = "done" => toCheck' = <<>> /\ running' = {}
      BY <1>1, <2>1 DEF QueuesAre
    <3> QED  BY <2>3, <2>4, <3>2, <3>3, <3>4, <3>5 DEF QueuesAre
  <2>9. ProgressIs'
    <3>1. world.size \in [DOMAIN world.buckets -> Nat] /\ world.size[b] \in Nat
      BY <2>2, WorldFacts DEF WorldIsRight
    <3>2. done \in Nat /\ total \in Nat /\ done' \in Nat
      BY <2>1, <3>1 DEF ProgressIs
    <3>3. ASSUME full
          PROVE  total' = done' + Weight(world.size, Range(toCheck') \cup running')
      <4> DEFINE S == Range(toCheck') \cup running'
      <4>1. S = (Range(toCheck) \cup running) \ {b} /\ S \cup {b} = Range(toCheck) \cup running
        BY <1>1, <2>1 DEF QueuesOf
      <4>2. IsFiniteSet(S)
        <5>1. IsFiniteSet(Range(toCheck'))
          BY <2>1, <2>2, RangeIsFinite
        <5> QED  BY <2>4, <5>1, FS_Union
      <4>3. S \in SUBSET DOMAIN world.buckets /\ b \in DOMAIN world.buckets \ S
        BY <3>3, <4>1 DEF QueuesAre
      <4> HIDE DEF S
      <4>4. Weight(world.size, S) \in Nat /\ Weight(world.size, S \cup {b}) = Weight(world.size, S) + world.size[b]
        BY <3>1, <4>2, <4>3, WeightAdds
      <4>5. total = done + Weight(world.size, S \cup {b})
        BY <3>3, <4>1 DEF ProgressIs
      <4>6. done' = done + world.size[b]
        BY <2>1, <3>3
      <4>7. total' = done' + Weight(world.size, S)
        BY <2>1, <3>1, <3>2, <4>4, <4>5, <4>6
      <4> QED  BY <4>7 DEF S
    <3>4. ~full => total' = done' + Len(toCheck') + Cardinality(running')
      <4>1. Len(toCheck) \in Nat
        BY <2>2, LenProperties
      <4> QED  BY <2>1, <2>4, <3>2, <4>1 DEF ProgressIs
    <3>5. Weight(world.size, Range(toCheck) \cup running)' = Weight(world.size, Range(toCheck') \cup running')
      BY <2>1 DEF Weight, Range
    <3> QED  BY <1>1, <2>1, <3>2, <3>3, <3>4, <3>5 DEF ProgressIs
  <2>10. NoneDown'
    <3>1. \A v \in DOMAIN world.versions : Begun(v)' => Begun(v)
      BY <2>1 DEF Begun
    <3> QED  BY <1>3, <2>1, <2>3, <3>1 DEF NoneDown
  <2>r. NoneRaised'
    BY <1>1, <2>1, <2>6, RaisedStay
  <2>11. FindingsAre'
    BY <1>1, <1>3, <2>1, <2>3, BucketReported
  <2> QED  BY <1>1, <2>1, <2>5, <2>7, <2>8, <2>9, <2>10, <2>r, <2>11 DEF SweepInv
<1> QED  BY <1>2, <1>3

LEMMA ReturnsKeeps ==
  ASSUME SweepRight, VerifyReturns
  PROVE  SweepRight' /\ pc' # "raised"
<1> USE DEF SweepRight
<1>1. /\ pc = "check" /\ toCheck = <<>> /\ running = {} /\ pc' = "done"
      /\ UNCHANGED <<world, full, version, extents, sessions, records, walked, walking, claim, pending, toCheck, sizing, running, checked, done, total, found, keyReported>>
  BY DEF VerifyReturns
<1>2. SweepTypes'
  <2>1. Names' = Names
    BY <1>1, SameWorld
  <2> QED  BY <1>1, <2>1 DEF SweepTypes
<1>3. \A v \in DOMAIN world.versions : Seen(v)' = Seen(v) /\ (Begun(v) => Begun(v)') /\ Looked(v)' = Looked(v)
  BY <1>1, PlacesStay
<1>4. RecordsAre' /\ ClaimsAre'
  BY <1>1, <1>3, RecordsStay, ClaimsStay
<1>5. QueuesAre'
  <2>1. (Claimed = UNION {Stages[i] : i \in 1..5} /\ \A i, j \in 1..5 : i # j => Stages[i] \cap Stages[j] = {})'
    <3>1. QueuesOf(Claimed, Range(pending), sizing, Range(toCheck), running, DOMAIN checked)
      BY StagesAre DEF QueuesAre
    <3>2. QueuesOf(Claimed', Range(pending'), sizing', Range(toCheck'), running', DOMAIN checked')
      BY <1>1, <3>1 DEF Claimed
    <3> QED  BY <3>2, StagesAreNext
  <2> QED  BY <1>1, <2>1 DEF QueuesAre, Range
<1>6. ProgressIs'
  BY <1>1, ProgressStays
<1>7. NoneDown'
  <2>1. \A v \in DOMAIN world.versions : Begun(v)' => Begun(v)
    BY <1>1 DEF Begun
  <2> QED  BY <1>1, <2>1 DEF NoneDown
<1>r. NoneRaised'
  BY <1>1, <1>3, RaisedStay
<1>8. FindingsAre'
  <2>1. \A f : Dealt(f) => Dealt(f)'
    BY <1>1, <1>3, DealtStays
  <2> QED  BY <1>1, <2>1, FindingsStay
<1> QED  BY <1>1, <1>2, <1>4, <1>5, <1>6, <1>7, <1>r, <1>8

LEMMA SweepBegins ==
  ASSUME NEW worlds, worlds \subseteq Worlds, VerifyInit(worlds)
  PROVE  SweepInv
  BY SweepStart DEF SweepInv

LEMMA SweepStep ==
  ASSUME SweepInv, VerifyNext
  PROVE  SweepInv'
<1>1. pc # "raised"
  BY DEF VerifyNext, CheckRepoInfo, DiscoverVersion, ClaimExtent, ClaimKey, WalkEnds, FinalizePending, SizeOneBucket, CheckEnds, CheckBegins, VerifyReturns
<1>2. SweepRight
  BY <1>1 DEF SweepInv
<1>3. CASE CheckRepoInfo
  BY <1>2, <1>3, InfoKeeps
<1>4. CASE DiscoverVersion
  BY <1>2, <1>4, DiscoverKeeps
<1>5. CASE ClaimExtent
  BY <1>2, <1>5, ClaimExtentKeeps
<1>6. CASE ClaimKey
  BY <1>2, <1>6, ClaimKeyKeeps DEF SweepInv
<1>7. CASE WalkEnds
  BY <1>2, <1>7, WalkEndsKeeps
<1>8. CASE FinalizePending
  BY <1>2, <1>8, FinalizeKeeps DEF SweepInv
<1>9. CASE \E b \in DOMAIN world.buckets : SizeOneBucket(b) \/ CheckEnds(b)
  BY <1>2, <1>9, SizeOneBucketKeeps, CheckEndsKeeps
<1>10. CASE \E k \in DOMAIN toCheck : CheckBegins(k)
  BY <1>2, <1>10, CheckBeginsKeeps DEF SweepInv
<1>11. CASE VerifyReturns
  BY <1>2, <1>11, ReturnsKeeps DEF SweepInv
<1> QED  BY <1>3, <1>4, <1>5, <1>6, <1>7, <1>8, <1>9, <1>10, <1>11 DEF VerifyNext

LEMMA SweepKeeps ==
  ASSUME SweepInv, UNCHANGED verifyVars
  PROVE  SweepInv'
<1>1. UNCHANGED <<world, full, pc, version, extents, sessions, records, walked, walking, claim, pending, toCheck, sizing, running, checked, done, total, found, keyReported>>
  BY DEF verifyVars
<1>2. CASE pc = "raised"
  <2>1. VerifyRaises'
    BY <1>1, <1>2, SameWorld DEF SweepInv
  <2> QED  BY <1>1, <1>2, <2>1 DEF SweepInv
<1>3. CASE pc # "raised"
  <2>1. SweepRight
    BY <1>3 DEF SweepInv
  <2> USE <2>1 DEF SweepRight
  <2>2. SweepTypes'
    <3>1. Names' = Names /\ Visited(version)' = Visited(version)
      BY <1>1, SameWorld
    <3> QED  BY <1>1, <3>1 DEF SweepTypes
  <2>3. \A v \in DOMAIN world.versions : Seen(v)' = Seen(v) /\ (Begun(v) => Begun(v)') /\ Looked(v)' = Looked(v)
    BY <1>1, PlacesStay
  <2>4. RecordsAre'
    BY <1>1, <2>3, RecordsStay
  <2>5. ClaimsAre'
    <3>1. CASE pc # "walk"
      BY <1>1, <2>3, <3>1, ClaimsStay
    <3>2. CASE pc = "walk"
      <4>1. \A b \in Claimed' : claim'[b] \in DOMAIN world'.versions /\ b \in Reached(claim[b])'
                                /\ \A v \in DOMAIN world'.versions : v < claim'[b] => b \notin Reached(v)'
        BY <1>1, SameWorld DEF ClaimsAre, Claimed
      <4>2. \A v \in DOMAIN world'.versions : \A k \in Seen(v)' : Reaches(ExtentAt(v, k))' \subseteq Claimed'
        BY <1>1, <2>3, SameWorld DEF ClaimsAre, Claimed
      <4>3. \A v \in DOMAIN world'.versions : \A k \in Visited(v)' : (Window(ExtentAt(v, k)) \in walked)' => Reaches(ExtentAt(v, k))' \subseteq Claimed'
        BY <1>1, SameWorld DEF ClaimsAre, Claimed, Window
      <4>4. Extent' = Extent /\ Range(walking)' = Range(walking)
        BY <1>1 DEF Extent, Range
      <4>5. Range(walking)' \subseteq Reaches(Extent)' /\ Reaches(Extent)' \subseteq Claimed' \cup Range(walking)'
        BY <1>1, <3>2, <4>4, SameWorld DEF ClaimsAre, Claimed
      <4> QED  BY <4>1, <4>2, <4>3, <4>5 DEF ClaimsAre
    <3> QED  BY <3>1, <3>2
  <2>6. QueuesAre'
    <3>1. (Claimed = UNION {Stages[i] : i \in 1..5} /\ \A i, j \in 1..5 : i # j => Stages[i] \cap Stages[j] = {})'
      <4>1. QueuesOf(Claimed, Range(pending), sizing, Range(toCheck), running, DOMAIN checked)
        BY StagesAre DEF QueuesAre
      <4>2. QueuesOf(Claimed', Range(pending'), sizing', Range(toCheck'), running', DOMAIN checked')
        BY <1>1, <4>1 DEF Claimed
      <4> QED  BY <4>2, StagesAreNext
    <3>2. Range(toCheck)' = Range(toCheck)
      BY <1>1 DEF Range
    <3> QED  BY <1>1, <3>1, <3>2 DEF QueuesAre
  <2>7. ProgressIs' /\ NoneDown'
    <3>1. \A v : Begun(v)' => Begun(v)
      BY <1>1 DEF Begun
    <3> QED  BY <1>1, <3>1, ProgressStays DEF NoneDown
  <2>r. NoneRaised'
    BY <1>1, <2>3, RaisedStay
  <2>8. FindingsAre'
    <3>1. \A f : Dealt(f) => Dealt(f)'
      BY <1>1, <2>3, DealtStays
    <3> QED  BY <1>1, <3>1, FindingsStay
  <2> QED  BY <1>1, <1>3, <2>2, <2>4, <2>5, <2>6, <2>7, <2>r, <2>8 DEF SweepInv
<1> QED  BY <1>2, <1>3

\* What a sweep that is over has been through.
LEMMA SweepIsOver ==
  ASSUME SweepRight, pc = "done"
  PROVE  /\ \A v \in DOMAIN world.versions : Begun(v) /\ Seen(v) = Visited(v) /\ Looked(v) = Visited(v)
         /\ DOMAIN checked = UNION {Reached(v) : v \in DOMAIN world.versions}
         /\ \A b \in DOMAIN checked : FirstOf({v \in DOMAIN world.versions : b \in Reached(v)}) = claim[b]
<1> USE DEF SweepRight
<1>1. world \in Worlds /\ version = Len(world.versions) + 1
  BY DEF SweepTypes
<1>2. Len(world.versions) \in Nat /\ DOMAIN world.versions = 1..Len(world.versions)
  BY <1>1, VersionFacts
<1>3. ASSUME NEW v \in DOMAIN world.versions
      PROVE  Begun(v) /\ Seen(v) = Visited(v) /\ Looked(v) = Visited(v)
  <2>1. v \in Nat /\ v < version /\ v # version
    BY <1>1, <1>2
  <2> QED  BY <2>1 DEF Begun, Seen, Looked
<1>4. Claimed = DOMAIN checked
  <2>1. QueuesOf(Claimed, Range(pending), sizing, Range(toCheck), running, DOMAIN checked)
    BY StagesAre DEF QueuesAre
  <2>2. pending = <<>> /\ sizing = {} /\ toCheck = <<>> /\ running = {}
    BY DEF QueuesAre
  <2>3. Range(<<>>) = {}
    BY DEF Range
  <2> QED  BY <2>1, <2>2, <2>3 DEF QueuesOf
<1>5. \A v \in DOMAIN world.versions : Reached(v) \subseteq Claimed
  BY <1>3 DEF ClaimsAre, Reached, ExtentAt
<1>6. \A b \in Claimed : claim[b] \in DOMAIN world.versions /\ b \in Reached(claim[b]) /\ \A v \in DOMAIN world.versions : v < claim[b] => b \notin Reached(v)
  BY DEF ClaimsAre
<1>7. DOMAIN checked = UNION {Reached(v) : v \in DOMAIN world.versions}
  BY <1>4, <1>5, <1>6
<1>8. ASSUME NEW b \in DOMAIN checked
      PROVE  FirstOf({v \in DOMAIN world.versions : b \in Reached(v)}) = claim[b]
  <2> DEFINE S == {v \in DOMAIN world.versions : b \in Reached(v)}
  <2>1. S \in SUBSET Nat /\ claim[b] \in S
    BY <1>2, <1>4, <1>6
  <2>2. \A v \in S : claim[b] <= v
    <3> TAKE v \in S
    <3>1. ~ (v < claim[b])
      BY <1>4, <1>6
    <3>2. v \in Nat /\ claim[b] \in Nat
      BY <2>1
    <3> QED  BY <3>1, <3>2
  <2> HIDE DEF S
  <2>3. Min(S) = claim[b]
    BY <2>1, <2>2, MinIs
  <2> QED  BY <2>3 DEF S, FirstOf
<1> QED  BY <1>3, <1>7, <1>8

LEMMA ExitIs ==
  ASSUME IsFiniteSet(DOMAIN found), \A f \in DOMAIN found : found[f] = 1
  PROVE  VerifyExit(found) = 0 <=> \A f \in DOMAIN found : f.symptom = "RepairedViaParity"
<1> DEFINE P == {f \in DOMAIN found : f.symptom # "RepairedViaParity"}
           U == UNION {{f} \X (1..found[f]) : f \in P}
<1>1. 1..1 = {1}
  OBVIOUS
<1>2. \A f \in P : {f} \X (1..found[f]) = {<<f, 1>>}
  BY <1>1
<1>3. U = {<<f, 1>> : f \in P}
  <2>1. U = UNION {{<<f, 1>>} : f \in P}
    BY <1>2
  <2> QED  BY <2>1
<1>4. IsFiniteSet(U)
  <2>1. IsFiniteSet(P)
    BY FS_Subset
  <2> DEFINE g == [f \in P |-> <<f, 1>>]
  <2>2. DOMAIN g = P /\ {g[f] : f \in DOMAIN g} = U
    BY <1>3
  <2> HIDE DEF g, U, P
  <2> QED  BY <2>1, <2>2, ImageIsFinite
<1>5. Cardinality(U) = 0 <=> P = {}
  <2>1. \A f \in P : <<f, 1>> \in U
    BY <1>3
  <2>2. P = {} => U = {}
    BY <1>3
  <2> HIDE DEF U, P
  <2> QED  BY <1>4, <2>1, <2>2, FS_EmptySet
<1>6. ProblemCount(found) = Cardinality(U)
  BY DEF ProblemCount
<1> HIDE DEF U
<1>7. VerifyExit(found) = 0 <=> Cardinality(U) = 0
  BY <1>6 DEF VerifyExit
<1> QED  BY <1>5, <1>7 DEF P

\* What the report of a sweep that is over owes follows from what it went through.
LEMMA ReportIsFull ==
  ASSUME SweepRight, pc = "done"
  PROVE  ReportIsComplete
<1> USE DEF SweepRight
<1> DEFINE all == UNION {Reached(v) : v \in DOMAIN world.versions}
           first(b) == FirstOf({v \in DOMAIN world.versions : b \in Reached(v)})
           four == {"Mismatch", "Corruption", "RepairedViaParity", "DataMissing"}
           tag(b, s) == [Finding("Bucket", s, <<"bucket", b>>) EXCEPT !.ref = first(b)]
           bucketFindings == UNION {{tag(b, s) : s \in four} : b \in all}
           keyFindings == {f \in DOMAIN found : f.symptom = "KeyMissing"}
<1>1. /\ \A v \in DOMAIN world.versions : Begun(v) /\ Seen(v) = Visited(v) /\ Looked(v) = Visited(v)
      /\ DOMAIN checked = all /\ \A b \in all : first(b) = claim[b]
  BY SweepIsOver
<1>2. /\ checked = SetToBag(DOMAIN checked) /\ DOMAIN checked \subseteq DOMAIN world.buckets
      /\ \A b \in DOMAIN checked : "down" \notin world.buckets[b]
  BY DEF QueuesAre, NoneDown
<1>3. \A b \in DOMAIN checked : world.buckets[b] \subseteq four \cup {"KeyMissing"}
  <2>1. \A b \in DOMAIN world.buckets : world.buckets[b] \subseteq {"Mismatch", "Corruption", "RepairedViaParity", "DataMissing", "KeyMissing", "down"}
    BY WorldFacts DEF WorldIsRight, SweepTypes
  <2> QED  BY <1>2, <2>1
<1> HIDE DEF all, first
<1>4. checked = SetToBag(all)
  BY <1>1, <1>2, Zenon
<1>5. {f \in DOMAIN found : f.stage = "Bucket"} = {f \in bucketFindings : f.symptom \in world.buckets[f.about[2]]}
  <2> DEFINE at(b, s) == [stage |-> "Bucket", symptom |-> s, about |-> <<"bucket", b>>, ref |-> claim[b]]
  <2>0. \A b \in all : \A s \in four : tag(b, s) = at(b, s)
    BY <1>1, TaggedIs
  <2>1. ASSUME NEW b \in all, NEW s \in four
        PROVE  at(b, s) \in bucketFindings
    <3> HIDE DEF at, tag, four
    <3>1. at(b, s) = tag(b, s)
      BY <2>0
    <3>2. tag(b, s) \in bucketFindings
      OBVIOUS
    <3> QED  BY <3>1, <3>2
  <2>8. ASSUME NEW f \in bucketFindings
        PROVE  \E b \in all : \E s \in four : f = at(b, s)
    <3> HIDE DEF at, tag, four
    <3>1. \E b \in all : \E s \in four : f = tag(b, s)
      OBVIOUS
    <3> QED  BY <2>0, <3>1
  <2>2. \A b, s : s # "KeyMissing" => BucketFinding(b, s) = at(b, s)
    BY BucketFindingIs
  <2>3. \A b, s : at(b, s).symptom = s /\ at(b, s).about[2] = b
    OBVIOUS
  <2>4. {f \in DOMAIN found : f.stage = "Bucket"} = UNION {{BucketFinding(b, s) : s \in world.buckets[b] \ {"KeyMissing"}} : b \in all}
    BY <1>1 DEF FindingsAre
  <2>5. \A b \in all : \A s : s \in world.buckets[b] \ {"KeyMissing"} <=> s \in four /\ s \in world.buckets[b]
    BY <1>1, <1>3
  <2> HIDE DEF at, four, bucketFindings
  <2>6. UNION {{BucketFinding(b, s) : s \in world.buckets[b] \ {"KeyMissing"}} : b \in all} \subseteq {f \in bucketFindings : f.symptom \in world.buckets[f.about[2]]}
    <3>1. ASSUME NEW b \in all, NEW s \in world.buckets[b] \ {"KeyMissing"}
          PROVE  BucketFinding(b, s) \in bucketFindings /\ BucketFinding(b, s).symptom \in world.buckets[BucketFinding(b, s).about[2]]
      <4>1. BucketFinding(b, s) = at(b, s) /\ s \in four /\ s \in world.buckets[b]
        BY <2>2, <2>5, <3>1
      <4> QED  BY <2>1, <2>3, <4>1
    <3> QED  BY <3>1
  <2>7. {f \in bucketFindings : f.symptom \in world.buckets[f.about[2]]} \subseteq UNION {{BucketFinding(b, s) : s \in world.buckets[b] \ {"KeyMissing"}} : b \in all}
    <3>1. ASSUME NEW f \in bucketFindings, f.symptom \in world.buckets[f.about[2]]
          PROVE  \E b \in all : \E s \in world.buckets[b] \ {"KeyMissing"} : f = BucketFinding(b, s)
      <4>1. PICK b \in all : \E s \in four : f = at(b, s)
        BY <2>8
      <4>2. PICK s \in four : f = at(b, s)
        BY <4>1
      <4>3. s \in world.buckets[b] \ {"KeyMissing"}
        BY <2>3, <2>5, <3>1, <4>2
      <4>4. f = BucketFinding(b, s)
        BY <2>2, <4>2, <4>3
      <4> QED  BY <4>3, <4>4
    <3> QED  BY <3>1
  <2> QED  BY <2>4, <2>6, <2>7
<1>6. PICK K \in SUBSET Keyless : /\ keyFindings = {BucketFinding(b, "KeyMissing") : b \in K}
                                  /\ IF keyReported THEN \E b \in K : K = {b} ELSE K = {}
  BY DEF FindingsAre
<1>7. Keyless # {} <=> \E b \in all : "KeyMissing" \in world.buckets[b]
  BY <1>1 DEF Keyless
<1>8. Cardinality(keyFindings) = (IF \E b \in all : "KeyMissing" \in world.buckets[b] THEN 1 ELSE 0)
  <2>1. keyReported <=> Keyless # {}
    BY DEF FindingsAre
  <2>2. CASE keyReported
    <3>1. PICK b \in K : K = {b}
      BY <1>6, <2>2
    <3>2. keyFindings = {BucketFinding(b, "KeyMissing")}
      BY <1>6, <3>1
    <3> HIDE DEF keyFindings
    <3>3. Cardinality(keyFindings) = 1
      BY <3>2, FS_Singleton
    <3> QED  BY <1>7, <2>1, <2>2, <3>3
  <2>3. CASE ~keyReported
    <3>1. keyFindings = {}
      BY <1>6, <2>3
    <3> HIDE DEF keyFindings
    <3>2. Cardinality(keyFindings) = 0
      BY <3>1, FS_EmptySet
    <3> QED  BY <1>7, <2>1, <2>3, <3>2
  <2> QED  BY <2>2, <2>3
<1>9. \A f \in keyFindings : f.ref = first(f.about[2])
  <2> TAKE f \in keyFindings
  <2>1. PICK b \in K : f = BucketFinding(b, "KeyMissing")
    BY <1>6
  <2>2. f.ref = claim[b] /\ f.about[2] = b
    BY <2>1, BucketFindingIs
  <2>3. b \in all
    BY <1>1 DEF Keyless
  <2> QED  BY <1>1, <2>2, <2>3
<1>10. ASSUME NEW r \in DOMAIN world.records, Visits(r) # {}
       PROVE  {f \in DOMAIN found : f.about \in {<<"head", r>>, <<"map", r>>, <<"attr", r>>}}
                 = {[f EXCEPT !.ref = FirstOf(Visits(r))] : f \in RecordFindings(r)}
  <2>1. PICK v \in DOMAIN world.versions : \E k \in Visited(v) : ExtentAt(v, k).record = r
    BY <1>10 DEF Visits, ExtentAt
  <2>2. r \in DOMAIN records
    BY <1>1, <2>1 DEF RecordsAre
  <2> QED  BY <2>2 DEF FindingsAre, OfRecord, Tagged
<1>11. \A f \in DOMAIN found : found[f] = 1
  BY DEF FindingsAre
<1>12. VerifyExit(found) = 0 <=> \A f \in DOMAIN found : f.symptom = "RepairedViaParity"
  BY <1>11, ExitIs DEF FindingsAre
<1>13. UNION GroupFindings(found) = DOMAIN found
  BY DEF GroupFindings
<1>14. \A g, h \in GroupFindings(found) : g = h \/ g \cap h = {}
  BY DEF GroupFindings
<1> HIDE DEF bucketFindings, keyFindings, tag
<1>15. /\ checked = SetToBag(all)
       /\ {f \in DOMAIN found : f.stage = "Bucket"} = {f \in bucketFindings : f.symptom \in world.buckets[f.about[2]]}
       /\ Cardinality(keyFindings) = (IF \E b \in all : "KeyMissing" \in world.buckets[b] THEN 1 ELSE 0)
       /\ \A f \in keyFindings : f.ref = first(f.about[2])
       /\ \A r \in DOMAIN world.records : Visits(r) # {} =>
             {f \in DOMAIN found : f.about \in {<<"head", r>>, <<"map", r>>, <<"attr", r>>}}
               = {[f EXCEPT !.ref = FirstOf(Visits(r))] : f \in RecordFindings(r)}
       /\ \A f \in DOMAIN found : found[f] = 1
       /\ VerifyExit(found) = 0 <=> \A f \in DOMAIN found : f.symptom = "RepairedViaParity"
       /\ UNION GroupFindings(found) = DOMAIN found /\ \A g, h \in GroupFindings(found) : g = h \/ g \cap h = {}
  BY <1>4, <1>5, <1>8, <1>9, <1>10, <1>11, <1>12, <1>13, <1>14
<1> QED  BY <1>15, Zenon DEF ReportIsComplete, all, first, bucketFindings, tag, keyFindings, four

LEMMA ProgressIsExact ==
  ASSUME SweepRight
  PROVE  ProgressAddsUp
<1> USE DEF SweepRight
<1>1. done \in Nat /\ total \in Nat /\ Cardinality(running) <= MaxReads /\ Cardinality(running) \in Nat
  BY FS_CardinalityType DEF ProgressIs, QueuesAre
<1>2. world \in Worlds /\ toCheck \in Seq(Names)
  BY DEF SweepTypes
<1>3. CASE full
  <2>1. world.size \in [DOMAIN world.buckets -> Nat]
    BY <1>2, WorldFacts DEF WorldIsRight
  <2> DEFINE S == Range(toCheck) \cup running
  <2>2. IsFiniteSet(S) /\ S \in SUBSET DOMAIN world.buckets
    <3>1. IsFiniteSet(Range(toCheck)) /\ IsFiniteSet(running)
      BY <1>2, RangeIsFinite DEF QueuesAre
    <3> QED  BY <1>3, <3>1, FS_Union DEF QueuesAre
  <2>3. total = done + Weight(world.size, S)
    BY <1>3 DEF ProgressIs
  <2>4. pc = "done" => S = {}
    BY DEF QueuesAre, Range
  <2> HIDE DEF S
  <2>5. Weight(world.size, S) \in Nat
    BY <2>1, <2>2, WeightAdds
  <2>6. pc = "done" => Weight(world.size, S) = 0
    <3>1. UNION {{b} \X (1..world.size[b]) : b \in {}} = {}
      OBVIOUS
    <3> QED  BY <2>4, <3>1, FS_EmptySet DEF Weight
  <2> QED  BY <1>1, <2>3, <2>5, <2>6 DEF ProgressAddsUp
<1>4. CASE ~full
  <2>1. Len(toCheck) \in Nat /\ total = done + Len(toCheck) + Cardinality(running)
    BY <1>2, <1>4, LenProperties DEF ProgressIs
  <2>2. pc = "done" => Len(toCheck) = 0 /\ Cardinality(running) = 0
    BY FS_EmptySet DEF QueuesAre
  <2> QED  BY <1>1, <2>1, <2>2 DEF ProgressAddsUp
<1> QED  BY <1>3, <1>4

\* A record whose map is not as written, and not put right, has its finding.
LEMMA NoneIsBlind ==
  ASSUME SweepRight, pc = "done"
  PROVE  NoBlindSpot
<1> USE DEF SweepRight
<1> SUFFICES ASSUME NEW v \in DOMAIN world.versions, NEW k \in Visited(v)
             PROVE  LET e == world.versions[v].extents[k] IN
                    \/ Range(WindowKeys(e, "repaired")) \subseteq Reaches(e)
                    \/ \E f \in DOMAIN found : f.about \in {<<"head", e.record>>, <<"map", e.record>>} /\ f.symptom # "RepairedViaParity"
  BY DEF NoBlindSpot
<1> DEFINE e == ExtentAt(v, k)
           r == e.record
           here == Range(WindowKeys(e, "repaired")) \subseteq Reaches(e)
           told == \E f \in DOMAIN found : f.about \in {<<"head", r>>, <<"map", r>>} /\ f.symptom # "RepairedViaParity"
<1>1. world \in Worlds /\ k \in DOMAIN world.versions[v].extents
  BY VisitedIs DEF SweepTypes
<1>2. e.record \in DOMAIN world.records /\ e.start \in Nat \ {0} /\ e.end \in Nat /\ e.end <= Len(world.records[r].map)
  BY <1>1, VersionFacts
<1>3. r \in DOMAIN records /\ ~RecordRaises(r)
  <2>1. k \in Looked(v)
    BY SweepIsOver
  <2>2. r \in DOMAIN records
    BY <2>1 DEF RecordsAre
  <2> QED  BY <2>2 DEF NoneRaised
<1>4. \A f \in RecordFindings(r) : [f EXCEPT !.ref = FirstOf(Visits(r))] \in DOMAIN found
  <2>1. OfRecord(r) = Tagged(RecordFindings(r), FirstOf(Visits(r)))
    BY <1>2, <1>3 DEF FindingsAre
  <2> QED  BY <2>1 DEF OfRecord, Tagged
<1>5. ASSUME NEW stage, NEW symptom, NEW about, Finding(stage, symptom, about) \in RecordFindings(r),
             about \in {<<"head", r>>, <<"map", r>>}, symptom # "RepairedViaParity"
      PROVE  told
  <2> DEFINE f == [Finding(stage, symptom, about) EXCEPT !.ref = FirstOf(Visits(r))]
  <2>1. f \in DOMAIN found
    BY <1>4, <1>5
  <2>2. f.about = about /\ f.symptom = symptom
    <3>1. f = [stage |-> stage, symptom |-> symptom, about |-> about, ref |-> FirstOf(Visits(r))]
      BY TaggedIs
    <3> HIDE DEF f
    <3> QED  BY <3>1
  <2> HIDE DEF f
  <2> QED  BY <1>5, <2>1, <2>2
<1>6. CASE world.records[r].head # "ok"
  <2>1. Finding("FileMap", world.records[r].head, <<"head", r>>) \in RecordFindings(r)
    BY <1>6 DEF RecordFindings
  <2>2. world.records[r].head # "RepairedViaParity"
    <3>1. world.records[r].head \in ({"ok"} \union (Symptoms \ {"RepairedViaParity"})) \union Raised
      BY <1>1, <1>2, WorldFacts, Zenon DEF WorldIsRight
    <3> QED  BY <3>1 DEF Raised
  <2>3. told
    BY <1>5, <2>1, <2>2
  <2> QED  BY <2>3 DEF ExtentAt
<1>7. CASE world.records[r].head = "ok" /\ world.records[r].map = <<>>
  <2>1. Len(world.records[r].map) = 0
    BY <1>7
  <2>2. e.end < e.start
    BY <1>2, <2>1
  <2>3. WindowKeys(e, "repaired") = <<>>
    <3>1. WindowOf(e, "repaired") = <<>>
      <4>1. WindowOf(e, "repaired") = SubSeq(<<>>, e.start, e.end)
        BY <1>7 DEF WindowOf
      <4>2. \A a, b : a \in Int /\ b \in Int /\ b < a => SubSeq(<<>>, a, b) = <<>>
        BY SubSeqProperties, EmptySeq
      <4> HIDE DEF e
      <4> QED  BY <1>2, <2>2, <4>1, <4>2
    <3>2. StopsOf(e, "repaired") = {} /\ Len(WindowOf(e, "repaired")) = 0
      BY <3>1 DEF StopsOf
    <3>3. WindowKeys(e, "repaired") = SubSeq(<<>>, 1, 0)
      BY <3>1, <3>2 DEF WindowKeys
    <3> QED  BY <3>3, SubSeqProperties, EmptySeq
  <2>4. here
    BY <2>3 DEF Range
  <2> QED  BY <2>4 DEF ExtentAt
<1>8. CASE world.records[r].head = "ok" /\ world.records[r].map # <<>> /\ MergedRead(r) # "ok"
  <2>1. Finding("Composition", "DataMissing", <<"map", r>>) \in RecordFindings(r)
    BY <1>8 DEF RecordFindings
  <2>2. told
    BY <1>5, <2>1
  <2> QED  BY <2>2 DEF ExtentAt
<1>9. CASE world.records[r].head = "ok" /\ world.records[r].map # <<>> /\ MergedRead(r) = "ok" /\ MapDiffers(r)
  <2>1. CASE world.records[r].parity = "good"
    <3>1. RecordState(r) = "repaired"
      BY <1>9, <2>1 DEF RecordState
    <3>2. here
      BY <3>1 DEF Reaches
    <3> QED  BY <3>2 DEF ExtentAt
  <2>2. CASE world.records[r].parity # "good"
    <3>1. Finding("Composition", "Mismatch", <<"map", r>>) \in RecordFindings(r)
      BY <1>9, <2>2 DEF RecordFindings
    <3>2. told
      BY <1>5, <3>1
    <3> QED  BY <3>2 DEF ExtentAt
  <2> QED  BY <2>1, <2>2
<1>10. CASE world.records[r].head = "ok" /\ MergedRead(r) = "ok" /\ ~MapDiffers(r)
  <2>1. RecordState(r) = "read" /\ world.records[r].disk = world.records[r].map
    BY <1>10 DEF RecordState, MapDiffers
  <2>2. WindowOf(e, "read") = WindowOf(e, "repaired")
    BY <2>1 DEF WindowOf
  <2>3. WindowKeys(e, "read") = WindowKeys(e, "repaired")
    BY <2>2 DEF WindowKeys, StopsOf
  <2>4. here
    BY <2>1, <2>3 DEF Reaches
  <2> QED  BY <2>4 DEF ExtentAt
<1> QED  BY <1>6, <1>7, <1>8, <1>9, <1>10

\* A sweep that is over has met everything a version reaches, and none of it raises.
LEMMA OverIsNoRaise ==
  ASSUME SweepRight, pc = "done"
  PROVE  ~VerifyRaises
<1> USE DEF SweepRight
<1>1. /\ \A v \in DOMAIN world.versions : Begun(v) /\ Seen(v) = Visited(v) /\ Looked(v) = Visited(v)
      /\ DOMAIN checked = UNION {Reached(v) : v \in DOMAIN world.versions}
  BY SweepIsOver
<1>2. world.info \notin Raised /\ world.listing # "down"
  BY DEF NoneRaised
<1>3. ASSUME NEW v \in DOMAIN world.versions
      PROVE  world.versions[v].resolves # "down" /\ \A b \in Reached(v) : "down" \notin world.buckets[b]
  BY <1>1 DEF NoneDown
<1>4. ASSUME NEW v \in DOMAIN world.versions, NEW k \in Visited(v)
      PROVE  ~ExtentRaises(ExtentAt(v, k))
  <2> DEFINE r == ExtentAt(v, k).record
  <2>1. r \in DOMAIN records
    BY <1>1 DEF RecordsAre
  <2>2. ~RecordRaises(r) /\ world.headers[world.records[r].session] \notin Raised
    BY <2>1 DEF NoneRaised
  <2>3. ~WalkFails(ExtentAt(v, k))
    BY <1>1 DEF NoneRaised
  <2> QED  BY <2>2, <2>3 DEF ExtentRaises, WalkFails
<1> QED  BY <1>2, <1>3, <1>4 DEF VerifyRaises, ExtentAt

LEMMA SweepProperties ==
  ASSUME SweepInv
  PROVE  VerifyIsComplete
<1>1. CASE pc = "raised"
  BY <1>1 DEF VerifyIsComplete, ReportIsComplete, NoBlindSpot, EndsEarlyOnlyRaising, ProgressAddsUp, SweepInv
<1>2. CASE pc # "raised"
  <2>1. SweepRight
    BY <1>2 DEF SweepInv
  <2>2. ReportIsComplete /\ ProgressAddsUp
    <3>1. pc # "done" => ReportIsComplete
      BY DEF ReportIsComplete
    <3> QED  BY <2>1, <3>1, ReportIsFull, ProgressIsExact
  <2>3. NoBlindSpot
    <3>1. pc # "done" => NoBlindSpot
      BY DEF NoBlindSpot
    <3> QED  BY <2>1, <3>1, NoneIsBlind
  <2>4. EndsEarlyOnlyRaising
    BY <1>2, <2>1, OverIsNoRaise DEF EndsEarlyOnlyRaising
  <2> QED  BY <2>2, <2>3, <2>4 DEF VerifyIsComplete
<1> QED  BY <1>1, <1>2

(***************************************************************************)
(* The reading layer: its parts share no state.                            *)
(***************************************************************************)
LEMMA ReadingParts ==
  ASSUME [ReadingNext]_readingVars
  PROVE  /\ PoolNext \/ UNCHANGED poolVars
         /\ PagesNext \/ UNCHANGED pageVars
         /\ GatherNext \/ UNCHANGED gatherVars
         /\ AheadNext \/ UNCHANGED aheadVars
         /\ VerifyNext \/ UNCHANGED verifyVars
  BY DEF ReadingNext, readingVars, MCProbe

\* Pool and CompositionRecord: no batch, single read, eviction or cancellation, however many there are,
\* puts back a chunk from before release_caches or a page from before seed_pages_from_array; batches of a
\* bucket run one at a time, under a lock that is dropped with its last user.
THEOREM CachesStayFresh == ReadingSpec => []CachesAreFresh
<1>1. ReadingInit => PoolInv /\ PagesInv
  BY PoolStart, PagesStart DEF ReadingInit
<1>2. PoolInv /\ PagesInv /\ [ReadingNext]_readingVars => (PoolInv /\ PagesInv)'
  BY ReadingParts, PoolStep, PoolKeeps, PagesStep, PagesKeep
<1>3. PoolInv /\ PagesInv => CachesAreFresh
  BY PoolProperties, PagesProperties DEF CachesAreFresh
<1> QED  BY <1>1, <1>2, <1>3, PTL DEF ReadingSpec

\* bounded_gather_first_error fails as the loop it replaces would, with the first item that fails in
\* order and after all before it, for any number of items, failures and places in the pool; and no gather
\* runs more than max_concurrent at once.
THEOREM GathersFailInOrder == ReadingSpec => []GatherIsSerial
<1>1. ReadingInit => GatherInv
  BY GatherStart DEF ReadingInit
<1>2. GatherInv /\ [ReadingNext]_readingVars => GatherInv'
  BY ReadingParts, GatherStep, GatherKeeps
<1>3. GatherInv => GatherIsSerial
  BY GatherProperties
<1> QED  BY <1>1, <1>2, <1>3, PTL DEF ReadingSpec

\* SequentialReadahead: whatever reads interleave, and whatever windows are evicted, dropped with a
\* cancelled fetch or lost, a read returns exactly its bytes; the streams and fetches never hold more than
\* MaxBytes, a stream's windows stay side by side, and a window someone awaits is still being fetched.
\* A gather beside it fails as a serial loop would.
THEOREM SharedReadsStaySound == ReadingSpec => []SharedReadsAreSound
<1>1. ReadingInit => AheadInv /\ GatherInv
  BY AheadStart, GatherStart DEF ReadingInit
<1>2. AheadInv /\ GatherInv /\ [ReadingNext]_readingVars => (AheadInv /\ GatherInv)'
  BY ReadingParts, AheadStep, AheadKeeps, GatherStep, GatherKeeps
<1>3. AheadInv /\ GatherInv => SharedReadsAreSound
  BY AheadProperties, GatherProperties DEF SharedReadsAreSound
<1> QED  BY <1>1, <1>2, <1>3, PTL DEF ReadingSpec

\* VerifyWalk over any repository, QUICK or FULL, at any tuning: a verify that ends has checked every bucket
\* a version reaches, once, and reported every finding once, under the first version that meets it; a bucket
\* the maps as written name goes unchecked only with a finding on its record; it ends early exactly over what it
\* cannot get past, a store that is down or a read that is denied; its progress ends on its total.
THEOREM VerifiesAreComplete == ReadingSpec => []VerifyIsComplete
<1>1. ReadingInit => SweepInv
  <2> SUFFICES ASSUME ReadingInit PROVE SweepInv
    OBVIOUS
  <2> DEFINE worlds == IF part = "verify" THEN Worlds ELSE {CHOOSE w \in Worlds : TRUE}
  <2>1. worlds \subseteq Worlds
    BY VerifyAssumption
  <2>2. VerifyInit(worlds)
    BY DEF ReadingInit
  <2> HIDE DEF worlds
  <2> QED  BY <2>1, <2>2, SweepBegins
<1>2. SweepInv /\ [ReadingNext]_readingVars => SweepInv'
  BY ReadingParts, SweepStep, SweepKeeps
<1>3. SweepInv => VerifyIsComplete
  BY SweepProperties
<1> QED  BY <1>1, <1>2, <1>3, PTL DEF ReadingSpec
=============================================================================
