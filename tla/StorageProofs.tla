---------------------------- MODULE StorageProofs ----------------------------
(***************************************************************************)
(* The invariants of the storage layer and of the SaaS caches, for any     *)
(* number of tasks, slots, copies, paths, names, streams and candidates:   *)
(* the pool of SMB sessions, S3's client, temporary copies, profiles,      *)
(* streams and providers.  Each section gives an inductive invariant of    *)
(* one component, with a lemma for its start, one for its step and one for *)
(* what it implies; the theorems put them under the specification of       *)
(* MCHandles, in which one component moves at a time.                      *)
(***************************************************************************)
EXTENDS MCHandles, SequenceTheorems, FiniteSetTheorems, WellFoundedInduction, TLAPS

-----------------------------------------------------------------------------
(* SmbStore.  Permits, free slots and the callers that have one add up, and every slot is
   somewhere; a session belongs to one slot, an awaited thread runs on its slot's session or on
   one no slot has, and after a timeout always on such a one. *)

\* What the proof needs of a caller's record and of a thread's.
CallShape(r) ==
    /\ DOMAIN r = {"pc", "slot", "attempt", "path"} /\ r = [x \in DOMAIN r |-> r[x]]
    /\ r.pc \in {"idle", "waiting", "connect", "call", "ok", "failed", "cancelled"}
    /\ r.slot \in Slots \union {0}
    /\ r.pc \in {"connect", "call"} <=> r.slot # 0
    /\ r.pc \in {"waiting", "connect", "call"} => r.path \in SmbPaths
ThreadShape(t) ==
    /\ DOMAIN t = {"c", "path", "ses", "had", "on"} /\ t = [x \in DOMAIN t |-> t[x]]
    /\ t.c \in SmbCallers /\ t.path \in SmbPaths /\ t.ses \in Nat
    /\ t.ses = 0 => t.on = "awaited"
\* Callers with a slot.
SlotUsers == {c \in SmbCallers : caller[c].slot # 0}

PoolTypes ==
    /\ freeSlots \in Seq(Slots) /\ permits \in Nat
    /\ closer \in [pc : {"idle", "acquiring", "closed"}, held : Nat]
    /\ closer.pc = "idle" => closer.held = 0
CallTypes ==
    /\ caller = [c \in SmbCallers |-> caller[c]] /\ \A c \in SmbCallers : CallShape(caller[c])
    /\ \A t \in threads : ThreadShape(t)
SessionTypes == session \in [Slots -> Nat] /\ lastSession \in Nat
\* Permits, slots and their users add up, and every slot is somewhere.
PoolCounts ==
    /\ IsFiniteSet(SlotUsers)
    /\ permits + Cardinality(SlotUsers) + closer.held = SmbSlots
    /\ Len(freeSlots) + Cardinality(SlotUsers) = SmbSlots
SlotsSomewhere == \A s \in Slots : s \in Range(freeSlots) \/ \E c \in SmbCallers : caller[c].slot = s
\* One awaited thread per caller, while its call runs.
OneAwaited ==
    /\ \A t \in threads : t.on = "awaited" => caller[t.c].pc = "call"
    /\ \A t, u \in threads : t.on = "awaited" /\ u.on = "awaited" /\ t.c = u.c => t = u
\* A session is one slot's; an awaited call runs on its slot's session, or on one no slot has; a call
\* that timed out always on such a one.
SessionsApart ==
    /\ \A r, s \in Slots : session[r] = session[s] /\ session[r] # 0 => r = s
    /\ \A s \in Slots : session[s] <= lastSession
    /\ \A t \in threads : t.ses <= lastSession
    /\ \A t \in threads : t.on = "awaited" /\ t.ses # 0 =>
          \A s \in Slots : session[s] = t.ses => s = caller[t.c].slot
    /\ \A t \in threads : t.on = "timed out" => \A s \in Slots : session[s] # t.ses
FewHandles ==
    /\ handles \in [1..MaxSessions -> Seq(SmbPaths)]
    /\ \A n \in 1..MaxSessions : Len(handles[n]) <= KeptHandles /\ IsInjective(handles[n])
SmbInv == PoolTypes /\ CallTypes /\ SessionTypes /\ PoolCounts /\ SlotsSomewhere /\ OneAwaited /\ SessionsApart /\ FewHandles

LEMMA SmbStart ==
  ASSUME SmbInit
  PROVE  SmbInv
<1>n. SmbSlots \in Nat /\ KeptHandles \in Nat
  BY SmbAssumption
<1>1. freeSlots \in Seq(Slots) /\ Len(freeSlots) = SmbSlots /\ \A i \in Slots : freeSlots[i] = i
  <2>1. freeSlots = [i \in 1..SmbSlots |-> i]
    BY DEF SmbInit, Slots
  <2> QED  BY <1>n, <2>1, IsASeq, LenProperties DEF Slots
<1>2. PoolTypes
  BY <1>n, <1>1 DEF SmbInit, PoolTypes
<1>3. CallTypes
  BY DEF SmbInit, CallTypes, CallShape, NoCall
<1>4. SlotUsers = {}
  BY DEF SmbInit, SlotUsers, NoCall
<1>5. PoolCounts
  BY <1>n, <1>1, <1>4, FS_EmptySet DEF SmbInit, PoolCounts
<1>6. SlotsSomewhere
  BY <1>1, <1>n, LenProperties DEF SlotsSomewhere, Range, Slots
<1>7. SessionTypes /\ OneAwaited /\ SessionsApart
  BY DEF SmbInit, SessionTypes, OneAwaited, SessionsApart
<1>8. FewHandles
  BY <1>n, EmptySeq DEF SmbInit, FewHandles, IsInjective
<1> QED  BY <1>2, <1>3, <1>5, <1>6, <1>7, <1>8 DEF SmbInv

LEMMA ExpireIsSound ==
  ASSUME NEW q \in Seq(SmbPaths), IsInjective(q), NEW k \in 0..Len(q)
  PROVE  /\ Expire(q, k) \in Seq(SmbPaths) /\ Len(Expire(q, k)) <= Len(q)
         /\ IsInjective(Expire(q, k))
<1>1. DOMAIN q = 1..Len(q) /\ Len(q) \in Nat /\ \A i \in 1..Len(q) : q[i] \in SmbPaths
  BY LenProperties, ElementOfSeq
<1>2. PICK n \in Nat : n = Len(q) /\ k \in 0..n
  BY <1>1
<1>3. k + 1 \in Int /\ \A i \in k + 1..n : q[i] \in SmbPaths
  BY <1>1, <1>2
<1>4. /\ Expire(q, k) \in Seq(SmbPaths)
      /\ Len(Expire(q, k)) = IF k + 1 <= n THEN n - (k + 1) + 1 ELSE 0
      /\ \A i \in 1..n - (k + 1) + 1 : Expire(q, k)[i] = q[(k + 1) + i - 1]
  BY <1>2, <1>3, SubSeqProperties DEF Expire
<1>5. n - (k + 1) + 1 = n - k /\ (IF k + 1 <= n THEN n - (k + 1) + 1 ELSE 0) = n - k /\ n - k \in Nat /\ n - k <= n
  BY <1>2
<1>6. DOMAIN Expire(q, k) = 1..n - k /\ Len(Expire(q, k)) = n - k
  BY <1>4, <1>5, LenProperties
<1> DEFINE at == [j \in 1..n - k |-> k + j]
<1>7. \A j \in 1..n - k : at[j] \in 1..n /\ at[j] = (k + 1) + j - 1
  BY <1>2
<1>8. \A i, j \in 1..n - k : at[i] = at[j] => i = j
  BY <1>2
<1> HIDE DEF at
<1>9. \A j \in DOMAIN Expire(q, k) : at[j] \in DOMAIN q /\ Expire(q, k)[j] = q[at[j]]
  BY <1>1, <1>2, <1>4, <1>5, <1>6, <1>7
<1>10. IsInjective(Expire(q, k))
  <2> SUFFICES ASSUME NEW i \in DOMAIN Expire(q, k), NEW j \in DOMAIN Expire(q, k), Expire(q, k)[i] = Expire(q, k)[j]
               PROVE  i = j
    BY DEF IsInjective
  <2>1. q[at[i]] = q[at[j]] /\ at[i] \in DOMAIN q /\ at[j] \in DOMAIN q
    BY <1>9
  <2>2. at[i] = at[j]
    BY <2>1 DEF IsInjective
  <2> QED  BY <1>6, <1>8, <2>2
<1> QED  BY <1>2, <1>4, <1>5, <1>6, <1>10

LEMMA TakeIsSound ==
  ASSUME NEW q \in Seq(SmbPaths), IsInjective(q), NEW p
  PROVE  /\ Take(q, p) \in Seq(SmbPaths) /\ Len(Take(q, p)) <= Len(q)
         /\ IsInjective(Take(q, p))
<1>1. DOMAIN q = 1..Len(q) /\ Len(q) \in Nat /\ \A i \in 1..Len(q) : q[i] \in SmbPaths
  BY LenProperties, ElementOfSeq
<1>2. CASE ~Contains(q, p)
  BY <1>1, <1>2 DEF Take
<1>3. CASE Contains(q, p)
  <2>0. \E x \in DOMAIN q : q[x] = p
    BY <1>1, <1>3 DEF Contains
  <2>1. PICK i \in 1..Len(q) : Take(q, p) = SubSeq(q, 1, i - 1) \o SubSeq(q, i + 1, Len(q))
    BY <1>1, <1>3, <2>0 DEF Take, RemoveAt
  <2>n. PICK n \in Nat : n = Len(q)
    BY <1>1
  <2> DEFINE a == SubSeq(q, 1, i - 1)
             b == SubSeq(q, i + 1, n)
  <2>2. i \in Nat /\ 1 <= i /\ i <= n /\ Take(q, p) = a \o b
    BY <2>1, <2>n
  <2>a. PICK m \in Nat : m = i - 1
    BY <2>2
  <2>b. PICK l \in Nat : l = n - i
    BY <2>2
  <2>3. a \in Seq(SmbPaths) /\ Len(a) = m /\ \A j \in 1..m : a[j] = q[j]
    <3>1. 1 \in Int /\ i - 1 \in Int /\ \A j \in 1..i - 1 : q[j] \in SmbPaths
      BY <1>1, <2>2, <2>n
    <3>2. /\ a \in Seq(SmbPaths) /\ Len(a) = IF 1 <= i - 1 THEN i - 1 - 1 + 1 ELSE 0
          /\ \A j \in 1..i - 1 - 1 + 1 : a[j] = q[1 + j - 1]
      BY <3>1, SubSeqProperties
    <3>3. i - 1 - 1 + 1 = m /\ (IF 1 <= i - 1 THEN i - 1 - 1 + 1 ELSE 0) = m /\ \A j \in 1..m : 1 + j - 1 = j
      BY <2>2, <2>a
    <3> QED  BY <3>2, <3>3
  <2>4. b \in Seq(SmbPaths) /\ Len(b) = l /\ \A j \in 1..l : b[j] = q[i + j]
    <3>1. i + 1 \in Int /\ n \in Int /\ \A j \in i + 1..n : q[j] \in SmbPaths
      BY <1>1, <2>2, <2>n
    <3>2. /\ b \in Seq(SmbPaths) /\ Len(b) = IF i + 1 <= n THEN n - (i + 1) + 1 ELSE 0
          /\ \A j \in 1..n - (i + 1) + 1 : b[j] = q[(i + 1) + j - 1]
      BY <3>1, SubSeqProperties
    <3>3. n - (i + 1) + 1 = l /\ (IF i + 1 <= n THEN n - (i + 1) + 1 ELSE 0) = l /\ \A j \in 1..l : (i + 1) + j - 1 = i + j
      BY <2>2, <2>b
    <3> QED  BY <3>2, <3>3
  <2> HIDE DEF a, b
  <2>5. /\ a \o b \in Seq(SmbPaths) /\ Len(a \o b) = m + l
        /\ \A j \in 1..m + l : (a \o b)[j] = IF j <= m THEN a[j] ELSE b[j - m]
    BY <2>3, <2>4, ConcatProperties
  <2>6. DOMAIN (a \o b) = 1..m + l /\ m + l <= n
    BY <2>2, <2>a, <2>b, <2>5, LenProperties
  <2> DEFINE at == [j \in 1..m + l |-> IF j <= m THEN j ELSE j + 1]
  <2>7. \A j \in 1..m + l : at[j] \in 1..n
    BY <2>2, <2>a, <2>b
  <2>8. \A j, g \in 1..m + l : at[j] = at[g] => j = g
    BY <2>a, <2>b
  <2>9. ASSUME NEW j \in 1..m + l
        PROVE  (a \o b)[j] = q[at[j]]
    <3>1. CASE j <= m
      BY <2>3, <2>5, <3>1
    <3>2. CASE ~(j <= m)
      <4>1. PICK g \in 1..l : g = j - m
        BY <2>a, <2>b, <3>2
      <4>2. i + g = j + 1
        BY <2>2, <2>a, <2>b, <4>1
      <4> QED  BY <2>4, <2>5, <3>2, <4>1, <4>2
    <3> QED  BY <3>1, <3>2
  <2> HIDE DEF at
  <2>10. IsInjective(a \o b)
    <3> SUFFICES ASSUME NEW g \in DOMAIN (a \o b), NEW h \in DOMAIN (a \o b), (a \o b)[g] = (a \o b)[h]
                 PROVE  g = h
      BY DEF IsInjective
    <3>1. q[at[g]] = q[at[h]] /\ at[g] \in DOMAIN q /\ at[h] \in DOMAIN q
      BY <1>1, <2>n, <2>6, <2>7, <2>9
    <3>2. at[g] = at[h]
      BY <3>1 DEF IsInjective
    <3> QED  BY <2>6, <2>8, <3>2
  <2> QED  BY <2>n, <2>2, <2>5, <2>6, <2>10
<1> QED  BY <1>2, <1>3

LEMMA KeepIsSound ==
  ASSUME NEW q \in Seq(SmbPaths), IsInjective(q), NEW p \in SmbPaths, Len(q) <= KeptHandles
  PROVE  /\ Keep(q, p) \in Seq(SmbPaths) /\ Len(Keep(q, p)) <= KeptHandles
         /\ IsInjective(Keep(q, p))
<1>1. DOMAIN q = 1..Len(q) /\ Len(q) \in Nat /\ KeptHandles \in Nat
  BY LenProperties, SmbAssumption
<1>2. CASE Contains(q, p)
  BY <1>1, <1>2 DEF Keep
<1>3. CASE ~Contains(q, p)
  <2> DEFINE k == Append(q, p)
  <2>1. /\ k \in Seq(SmbPaths) /\ k # << >> /\ Len(k) = Len(q) + 1
        /\ (\A i \in 1..Len(q) : k[i] = q[i]) /\ k[Len(q) + 1] = p
    BY AppendProperties
  <2>2. DOMAIN k = 1..Len(q) + 1
    BY <2>1, LenProperties
  <2>3. Keep(q, p) = IF Len(k) > KeptHandles THEN Tail(k) ELSE k
    BY <1>3 DEF Keep
  <2> HIDE DEF k
  <2>4. \A i, j \in 1..Len(q) + 1 : k[i] = k[j] => i = j
    BY <1>1, <1>3, <2>1 DEF IsInjective, Contains
  <2>5. Tail(k) \in Seq(SmbPaths) /\ Len(Tail(k)) = Len(q) /\ \A i \in 1..Len(q) : Tail(k)[i] = k[i + 1]
    BY <1>1, <2>1, HeadTailProperties
  <2>6. DOMAIN Tail(k) = 1..Len(q)
    BY <2>5, LenProperties
  <2>7. IsInjective(Tail(k)) /\ IsInjective(k)
    BY <1>1, <2>2, <2>4, <2>5, <2>6 DEF IsInjective
  <2> QED  BY <1>1, <2>1, <2>3, <2>5, <2>7
<1> QED  BY <1>2, <1>3
\* The caller's record after a step, everything else of the pool as it was.
LEMMA CallerMoves ==
  ASSUME SmbInv, NEW c \in SmbCallers, NEW r, CallShape(r), caller' = [caller EXCEPT ![c] = r]
  PROVE  /\ caller'[c] = r /\ \A d \in SmbCallers : d # c => caller'[d] = caller[d]
         /\ caller' = [d \in SmbCallers |-> caller'[d]] /\ \A d \in SmbCallers : CallShape(caller'[d])
BY DEF SmbInv, CallTypes

\* The finally of a call: its slot goes back and it is no user any more.
LEMMA SlotReleased ==
  ASSUME SmbInv, NEW c \in SmbCallers, NEW outcome \in {"ok", "failed", "cancelled"},
         caller[c].pc \in {"connect", "call"}, ReleaseSlot(c, outcome), UNCHANGED closer
  PROVE  /\ PoolTypes' /\ PoolCounts' /\ SlotsSomewhere'
         /\ caller' = [d \in SmbCallers |-> caller'[d]] /\ \A d \in SmbCallers : CallShape(caller'[d])
         /\ \A d \in SmbCallers : d # c => caller'[d] = caller[d]
<1>t. PoolTypes /\ CallTypes /\ PoolCounts /\ SlotsSomewhere
  BY DEF SmbInv
<1>n. SmbSlots \in Nat /\ 0 \notin Slots
  BY SmbAssumption DEF Slots
<1> DEFINE r == [NoCall EXCEPT !.pc = outcome]
<1>1. CallShape(r) /\ r.slot = 0
  BY DEF CallShape, NoCall
<1>2. caller' = [caller EXCEPT ![c] = r] /\ freeSlots' = Append(freeSlots, caller[c].slot) /\ permits' = permits + 1
  BY DEF ReleaseSlot
<1> HIDE DEF r
<1>3. /\ caller'[c] = r /\ \A d \in SmbCallers : d # c => caller'[d] = caller[d]
      /\ caller' = [d \in SmbCallers |-> caller'[d]] /\ \A d \in SmbCallers : CallShape(caller'[d])
  BY <1>1, <1>2, CallerMoves
<1>4. caller[c].slot \in Slots /\ c \in SlotUsers
  BY <1>t DEF CallTypes, CallShape, SlotUsers
<1>5. SlotUsers' = SlotUsers \ {c}
  BY <1>1, <1>3 DEF SlotUsers
<1>6. /\ freeSlots' \in Seq(Slots) /\ Len(freeSlots') = Len(freeSlots) + 1 /\ freeSlots'[Len(freeSlots) + 1] = caller[c].slot
      /\ \A i \in 1..Len(freeSlots) : freeSlots'[i] = freeSlots[i]
  BY <1>t, <1>2, <1>4, AppendProperties DEF PoolTypes
<1>7. DOMAIN freeSlots = 1..Len(freeSlots) /\ DOMAIN freeSlots' = 1..Len(freeSlots) + 1 /\ Len(freeSlots) \in Nat
  BY <1>t, <1>6, LenProperties DEF PoolTypes
<1>8. PoolTypes'
  BY <1>t, <1>2, <1>6 DEF PoolTypes
<1>9. SlotsSomewhere'
  <2> SUFFICES ASSUME NEW s \in Slots
               PROVE  s \in Range(freeSlots') \/ \E d \in SmbCallers : caller'[d].slot = s
    BY DEF SlotsSomewhere
  <2>1. CASE s \in Range(freeSlots)
    BY <1>6, <1>7, <2>1 DEF Range
  <2>2. CASE caller[c].slot = s
    BY <1>6, <1>7, <2>2 DEF Range
  <2>3. ASSUME NEW d \in SmbCallers, d # c, caller[d].slot = s
        PROVE  caller'[d].slot = s
    BY <1>3, <2>3
  <2> QED  BY <1>t, <2>1, <2>2, <2>3 DEF SlotsSomewhere
<1>10. PoolCounts'
  <2>1. IsFiniteSet(SlotUsers') /\ Cardinality(SlotUsers') = Cardinality(SlotUsers) - 1 /\ Cardinality(SlotUsers) \in Nat
    BY <1>t, <1>4, <1>5, FS_RemoveElement, FS_CardinalityType DEF PoolCounts
  <2>2. closer' = closer /\ closer.held \in Nat /\ permits \in Nat
    BY <1>t DEF PoolTypes
  <2> QED  BY <1>t, <1>n, <1>2, <1>6, <1>7, <2>1, <2>2 DEF PoolCounts
<1> QED  BY <1>3, <1>8, <1>9, <1>10

LEMMA AttemptEnds ==
  ASSUME SmbInv, NEW c \in SmbCallers, caller[c].pc = "call", NextAttempt(c), UNCHANGED closer
  PROVE  /\ PoolTypes' /\ PoolCounts' /\ SlotsSomewhere'
         /\ caller' = [d \in SmbCallers |-> caller'[d]] /\ \A d \in SmbCallers : CallShape(caller'[d])
         /\ \A d \in SmbCallers : d # c => caller'[d] = caller[d]
<1>t. PoolTypes /\ CallTypes /\ PoolCounts /\ SlotsSomewhere
  BY DEF SmbInv
<1>1. CASE caller[c].attempt < MaxAttempts
  <2> DEFINE r == [caller[c] EXCEPT !.pc = "connect", !.attempt = caller[c].attempt + 1]
  <2>1. CallShape(caller[c]) /\ caller = [d \in SmbCallers |-> caller[d]]
    BY <1>t DEF CallTypes
  <2>2. CallShape(r) /\ r.slot = caller[c].slot
    BY <2>1 DEF CallShape
  <2>3. caller' = [caller EXCEPT ![c] = r] /\ UNCHANGED <<freeSlots, permits>>
    BY <1>1, <2>1 DEF NextAttempt
  <2> HIDE DEF r
  <2>4. /\ caller'[c] = r /\ \A d \in SmbCallers : d # c => caller'[d] = caller[d]
        /\ caller' = [d \in SmbCallers |-> caller'[d]] /\ \A d \in SmbCallers : CallShape(caller'[d])
    BY <2>2, <2>3, CallerMoves
  <2>5. \A d \in SmbCallers : caller'[d].slot = caller[d].slot
    BY <2>2, <2>4
  <2>6. SlotUsers' = SlotUsers /\ SlotsSomewhere'
    BY <1>t, <2>3, <2>5 DEF SlotUsers, SlotsSomewhere
  <2>7. PoolTypes' /\ PoolCounts'
    BY <1>t, <2>3, <2>6 DEF PoolTypes, PoolCounts
  <2> QED  BY <2>4, <2>6, <2>7
<1>2. CASE ~(caller[c].attempt < MaxAttempts)
  <2>1. ReleaseSlot(c, "failed")
    BY <1>2 DEF NextAttempt
  <2> QED  BY <2>1, SlotReleased
<1> QED  BY <1>1, <1>2

LEMMA ZeroIsLeast == \A n \in Nat : 0 <= n
  OBVIOUS

\* The call of c ends for its caller: its awaited threads are gone or run on apart, the others stay.
LEMMA CallLeft ==
  ASSUME SmbInv, NEW c \in SmbCallers,
         PoolTypes', PoolCounts', SlotsSomewhere', SessionTypes', FewHandles', lastSession' = lastSession,
         caller' = [d \in SmbCallers |-> caller'[d]], \A d \in SmbCallers : CallShape(caller'[d]),
         \A d \in SmbCallers : d # c => caller'[d] = caller[d],
         \A s \in Slots : session'[s] = session[s] \/ session'[s] = 0,
         \A t \in threads' :
            \/ t \in threads /\ ~(t.c = c /\ t.on = "awaited")
            \/ /\ ThreadShape(t) /\ t.ses # 0 /\ t.ses <= lastSession /\ t.on # "awaited"
               /\ t.on = "timed out" => \A s \in Slots : session'[s] # t.ses
  PROVE  SmbInv'
<1>t. CallTypes /\ OneAwaited /\ SessionsApart /\ SessionTypes
  BY DEF SmbInv
<1>1. CallTypes'
  BY <1>t DEF CallTypes
<1>2. \A t \in threads' : t.on = "awaited" => t \in threads /\ t.c # c /\ t.c \in SmbCallers /\ caller'[t.c] = caller[t.c]
  BY <1>t DEF CallTypes, ThreadShape
<1>3. OneAwaited'
  BY <1>t, <1>2 DEF OneAwaited
<1>4. \A t \in threads' : t.on = "timed out" => \A s \in Slots : session'[s] # t.ses
  <2> SUFFICES ASSUME NEW t \in threads', t.on = "timed out", t \in threads, NEW s \in Slots
               PROVE  session'[s] # t.ses
    OBVIOUS
  <2>1. t.ses # 0 /\ session[s] # t.ses
    BY <1>t DEF CallTypes, ThreadShape, SessionsApart
  <2> QED  BY <2>1
<1>5. \A t \in threads' : t.on = "awaited" /\ t.ses # 0 =>
          \A s \in Slots : session'[s] = t.ses => s = caller'[t.c].slot
  <2> SUFFICES ASSUME NEW t \in threads', t.on = "awaited", t.ses # 0, NEW s \in Slots, session'[s] = t.ses
               PROVE  s = caller'[t.c].slot
    OBVIOUS
  <2>1. session[s] = t.ses /\ t \in threads /\ caller'[t.c] = caller[t.c]
    BY <1>2
  <2> QED  BY <1>t, <2>1, ZenonT(60) DEF SessionsApart
<1>6. \A r, s \in Slots : session'[r] = session'[s] /\ session'[r] # 0 => r = s
  BY <1>t DEF SessionsApart
<1>7. \A s \in Slots : session'[s] <= lastSession'
  <2> SUFFICES ASSUME NEW s \in Slots
               PROVE  session'[s] <= lastSession
    OBVIOUS
  <2>1. session[s] <= lastSession
    BY <1>t DEF SessionsApart
  <2>2. lastSession \in Nat
    BY <1>t DEF SessionTypes
  <2> QED  BY <2>1, <2>2, ZeroIsLeast
<1>8. \A t \in threads' : t.ses <= lastSession'
  BY <1>t DEF SessionsApart
<1>9. SessionsApart'
  BY <1>4, <1>5, <1>6, <1>7, <1>8 DEF SessionsApart
<1> QED  BY <1>1, <1>3, <1>9 DEF SmbInv

LEMMA HandlesKept ==
  ASSUME SmbInv, NEW n, NEW p \in SmbPaths, handles' = [handles EXCEPT ![n] = Keep(@, p)]
  PROVE  FewHandles'
<1>t. FewHandles
  BY DEF SmbInv
<1>1. CASE n \in 1..MaxSessions
  <2>1. /\ Keep(handles[n], p) \in Seq(SmbPaths) /\ Len(Keep(handles[n], p)) <= KeptHandles
        /\ IsInjective(Keep(handles[n], p))
    BY <1>t, <1>1, KeepIsSound DEF FewHandles
  <2>2. handles'[n] = Keep(handles[n], p) /\ \A m \in 1..MaxSessions : m # n => handles'[m] = handles[m]
    BY <1>t, <1>1 DEF FewHandles
  <2>3. handles' \in [1..MaxSessions -> Seq(SmbPaths)]
    BY <1>t, <1>1, <2>1 DEF FewHandles
  <2> QED  BY <1>t, <2>1, <2>2, <2>3 DEF FewHandles
<1>2. CASE n \notin 1..MaxSessions
  <2>1. handles' = handles
    BY <1>t, <1>2 DEF FewHandles
  <2> QED  BY <1>t, <2>1 DEF FewHandles
<1> QED  BY <1>1, <1>2

\* A thread ends: its caller, if it still waits, goes on or is done.
LEMMA ThreadEnds ==
  ASSUME SmbInv, NEW t \in threads, ReadReturns(t) \/ ReadFails(t) \/ CreditExhausted(t)
  PROVE  SmbInv'
<1>t. /\ PoolTypes /\ CallTypes /\ SessionTypes /\ PoolCounts /\ SlotsSomewhere /\ OneAwaited
      /\ SessionsApart /\ FewHandles /\ ThreadShape(t) /\ t.c \in SmbCallers
  BY DEF SmbInv, CallTypes, ThreadShape
<1>1. t.ses # 0 /\ threads' = threads \ {t} /\ UNCHANGED <<session, lastSession, closer>>
  BY DEF ReadReturns, ReadFails, CreditExhausted
<1>2. FewHandles'
  <2>1. handles' = handles \/ handles' = [handles EXCEPT ![t.ses] = Keep(@, t.path)]
    BY DEF ReadReturns, ReadFails, CreditExhausted
  <2>2. t.path \in SmbPaths
    BY <1>t DEF ThreadShape
  <2> QED  BY <1>t, <2>1, <2>2, HandlesKept DEF FewHandles
<1>3. SessionTypes'
  BY <1>t, <1>1 DEF SessionTypes
<1>4. CASE t.on = "awaited"
  <2>1. caller[t.c].pc = "call"
    BY <1>t, <1>4 DEF OneAwaited
  <2>2. \/ \E o \in {"ok", "failed"} : ReleaseSlot(t.c, o)
        \/ NextAttempt(t.c)
    BY <1>4 DEF ReadReturns, ReadFails, CreditExhausted
  <2>3. /\ PoolTypes' /\ PoolCounts' /\ SlotsSomewhere'
        /\ caller' = [d \in SmbCallers |-> caller'[d]] /\ \A d \in SmbCallers : CallShape(caller'[d])
        /\ \A d \in SmbCallers : d # t.c => caller'[d] = caller[d]
    BY <1>t, <1>1, <2>1, <2>2, SlotReleased, AttemptEnds
  <2>4. \A u \in threads' : u \in threads /\ ~(u.c = t.c /\ u.on = "awaited")
    BY <1>t, <1>1, <1>4 DEF OneAwaited
  <2>5. \A s \in Slots : session'[s] = session[s] \/ session'[s] = 0
    BY <1>1
  <2>6. \A u \in threads' :
            \/ u \in threads /\ ~(u.c = t.c /\ u.on = "awaited")
            \/ /\ ThreadShape(u) /\ u.ses # 0 /\ u.ses <= lastSession /\ u.on # "awaited"
               /\ u.on = "timed out" => \A s \in Slots : session'[s] # u.ses
    BY <2>4
  <2> QED  BY <1>t, <1>1, <1>2, <1>3, <2>3, <2>5, <2>6, CallLeft
<1>5. CASE t.on # "awaited"
  <2>1. UNCHANGED <<freeSlots, permits, caller>>
    BY <1>5 DEF ReadReturns, ReadFails, CreditExhausted
  <2>2. PoolTypes' /\ PoolCounts' /\ SlotsSomewhere' /\ SlotUsers' = SlotUsers
    BY <1>t, <1>1, <2>1 DEF PoolTypes, PoolCounts, SlotsSomewhere, SlotUsers
  <2>3. CallTypes' /\ OneAwaited'
    BY <1>t, <1>1, <2>1 DEF CallTypes, OneAwaited
  <2>4. SessionsApart'
    BY <1>t, <1>1, <2>1 DEF SessionsApart
  <2> QED  BY <1>2, <1>3, <2>2, <2>3, <2>4 DEF SmbInv
<1> QED  BY <1>4, <1>5

LEMMA AbandonedRunOn ==
  ASSUME SmbInv, NEW c \in SmbCallers, NEW why, why # "awaited", threads' = Abandon(Mine(c), why)
  PROVE  \A t \in threads' :
            \/ t \in threads /\ ~(t.c = c /\ t.on = "awaited")
            \/ /\ ThreadShape(t) /\ t.ses # 0 /\ t.ses <= lastSession /\ t.on = why
               /\ \E u \in threads : u.c = c /\ u.on = "awaited" /\ u.ses = t.ses
<1>t. CallTypes /\ SessionsApart
  BY DEF SmbInv
<1> SUFFICES ASSUME NEW t \in threads', ~(t \in threads /\ ~(t.c = c /\ t.on = "awaited"))
             PROVE  /\ ThreadShape(t) /\ t.ses # 0 /\ t.ses <= lastSession /\ t.on = why
                    /\ \E u \in threads : u.c = c /\ u.on = "awaited" /\ u.ses = t.ses
  OBVIOUS
<1>1. PICK u \in Mine(c) : u.ses # 0 /\ t = [u EXCEPT !.on = why]
  BY DEF Abandon, Mine
<1>2. u \in threads /\ u.c = c /\ u.on = "awaited" /\ ThreadShape(u) /\ u.ses <= lastSession
  BY <1>t, <1>1 DEF Mine, CallTypes, SessionsApart
<1>3. ThreadShape(t) /\ t.ses = u.ses /\ t.on = why
  BY <1>1, <1>2 DEF ThreadShape
<1> QED  BY <1>1, <1>2, <1>3

LEMMA SmbCallTimesOut ==
  ASSUME SmbInv, NEW c \in SmbCallers, CallTimesOut(c)
  PROVE  SmbInv'
<1>t. CallTypes /\ SessionTypes /\ SessionsApart /\ FewHandles
  BY DEF SmbInv
<1>1. /\ caller[c].pc = "call" /\ threads' = Abandon(Mine(c), "timed out") /\ NextAttempt(c)
      /\ session' = [session EXCEPT ![caller[c].slot] = 0] /\ UNCHANGED <<lastSession, handles, closer>>
  BY DEF CallTimesOut, DropSlotSession
<1>2. /\ PoolTypes' /\ PoolCounts' /\ SlotsSomewhere'
      /\ caller' = [d \in SmbCallers |-> caller'[d]] /\ \A d \in SmbCallers : CallShape(caller'[d])
      /\ \A d \in SmbCallers : d # c => caller'[d] = caller[d]
  BY <1>1, AttemptEnds
<1>3. caller[c].slot \in Slots
  BY <1>t, <1>1 DEF CallTypes, CallShape
<1>4. SessionTypes' /\ FewHandles' /\ session'[caller[c].slot] = 0 /\ \A s \in Slots : s # caller[c].slot => session'[s] = session[s]
  BY <1>t, <1>1, <1>3 DEF SessionTypes, FewHandles
<1>5. \A s \in Slots : session'[s] = session[s] \/ session'[s] = 0
  BY <1>4
<1>6. ASSUME NEW t \in threads', ~(t \in threads /\ ~(t.c = c /\ t.on = "awaited"))
      PROVE  /\ ThreadShape(t) /\ t.ses # 0 /\ t.ses <= lastSession /\ t.on # "awaited"
             /\ t.on = "timed out" => \A s \in Slots : session'[s] # t.ses
  <2>1. /\ ThreadShape(t) /\ t.ses # 0 /\ t.ses <= lastSession /\ t.on = "timed out"
        /\ \E u \in threads : u.c = c /\ u.on = "awaited" /\ u.ses = t.ses
    BY <1>1, <1>6, AbandonedRunOn
  <2>2. \A s \in Slots : session[s] = t.ses => s = caller[c].slot
    BY <1>t, <2>1 DEF SessionsApart
  <2>3. \A s \in Slots : session'[s] # t.ses
    BY <1>4, <2>1, <2>2
  <2> QED  BY <2>1, <2>3
<1>7. \A t \in threads' :
        \/ t \in threads /\ ~(t.c = c /\ t.on = "awaited")
        \/ /\ ThreadShape(t) /\ t.ses # 0 /\ t.ses <= lastSession /\ t.on # "awaited"
           /\ t.on = "timed out" => \A s \in Slots : session'[s] # t.ses
  BY <1>6, Zenon
<1>8. lastSession' = lastSession
  BY <1>1
<1> QED  BY <1>2, <1>4, <1>5, <1>7, <1>8, CallLeft, Zenon

LEMMA SmbCallCancelled ==
  ASSUME SmbInv, NEW c \in SmbCallers, CallCancelled(c)
  PROVE  SmbInv'
<1>t. CallTypes /\ SessionTypes /\ SessionsApart /\ FewHandles
  BY DEF SmbInv
<1>1. /\ caller[c].pc \in {"connect", "call"} /\ threads' = Abandon(Mine(c), "cancelled") /\ ReleaseSlot(c, "cancelled")
      /\ UNCHANGED <<session, lastSession, handles, closer>>
  BY DEF CallCancelled
<1>2. /\ PoolTypes' /\ PoolCounts' /\ SlotsSomewhere'
      /\ caller' = [d \in SmbCallers |-> caller'[d]] /\ \A d \in SmbCallers : CallShape(caller'[d])
      /\ \A d \in SmbCallers : d # c => caller'[d] = caller[d]
  BY <1>1, SlotReleased
<1>3. SessionTypes' /\ FewHandles' /\ \A s \in Slots : session'[s] = session[s] \/ session'[s] = 0
  BY <1>t, <1>1 DEF SessionTypes, FewHandles
<1>4. ASSUME NEW t \in threads', ~(t \in threads /\ ~(t.c = c /\ t.on = "awaited"))
      PROVE  /\ ThreadShape(t) /\ t.ses # 0 /\ t.ses <= lastSession /\ t.on # "awaited"
             /\ t.on = "timed out" => \A s \in Slots : session'[s] # t.ses
  <2>1. ThreadShape(t) /\ t.ses # 0 /\ t.ses <= lastSession /\ t.on = "cancelled"
    BY <1>1, <1>4, AbandonedRunOn
  <2> QED  BY <2>1
<1> QED  BY <1>1, <1>2, <1>3, <1>4, CallLeft, ZenonT(60)

LEMMA SmbConnectFails ==
  ASSUME SmbInv, NEW c \in SmbCallers, ConnectFails(c)
  PROVE  SmbInv'
<1>t. CallTypes /\ OneAwaited /\ SessionTypes /\ SessionsApart /\ FewHandles
  BY DEF SmbInv
<1>1. caller[c].pc = "connect" /\ ReleaseSlot(c, "failed") /\ UNCHANGED <<session, lastSession, handles, threads, closer>>
  BY DEF ConnectFails
<1>2. /\ PoolTypes' /\ PoolCounts' /\ SlotsSomewhere'
      /\ caller' = [d \in SmbCallers |-> caller'[d]] /\ \A d \in SmbCallers : CallShape(caller'[d])
      /\ \A d \in SmbCallers : d # c => caller'[d] = caller[d]
  BY <1>1, SlotReleased
<1>3. SessionTypes' /\ FewHandles' /\ \A s \in Slots : session'[s] = session[s] \/ session'[s] = 0
  BY <1>t, <1>1 DEF SessionTypes, FewHandles
<1>4. \A t \in threads' : t \in threads /\ ~(t.c = c /\ t.on = "awaited")
  BY <1>t, <1>1 DEF OneAwaited
<1>5. \A t \in threads' :
            \/ t \in threads /\ ~(t.c = c /\ t.on = "awaited")
            \/ /\ ThreadShape(t) /\ t.ses # 0 /\ t.ses <= lastSession /\ t.on # "awaited"
               /\ t.on = "timed out" => \A s \in Slots : session'[s] # t.ses
  BY <1>4
<1> QED  BY <1>1, <1>2, <1>3, <1>5, CallLeft

\* The caller's record moves and its slot does not change.
LEMMA SmbCallBegins ==
  ASSUME SmbInv, NEW c \in SmbCallers, NEW p \in SmbPaths, SmbCall(c, p)
  PROVE  SmbInv'
<1>t. PoolTypes /\ CallTypes /\ SessionTypes /\ PoolCounts /\ SlotsSomewhere /\ OneAwaited /\ SessionsApart /\ FewHandles
  BY DEF SmbInv
<1>u. caller[c].pc = "idle" /\ UNCHANGED <<freeSlots, permits, session, lastSession, handles, threads, closer>>
  BY DEF SmbCall
<1> DEFINE r == [caller[c] EXCEPT !.pc = "waiting", !.path = p, !.attempt = 1]
<1>1. CallShape(caller[c]) /\ caller = [d \in SmbCallers |-> caller[d]]
  BY <1>t DEF CallTypes
<1>2. CallShape(r) /\ r.slot = caller[c].slot
  BY <1>u, <1>1 DEF CallShape
<1>3. caller' = [caller EXCEPT ![c] = r]
  BY <1>1 DEF SmbCall
<1> HIDE DEF r
<1>4. /\ caller'[c] = r /\ \A d \in SmbCallers : d # c => caller'[d] = caller[d]
      /\ caller' = [d \in SmbCallers |-> caller'[d]] /\ \A d \in SmbCallers : CallShape(caller'[d])
  BY <1>2, <1>3, CallerMoves
<1>5. \A d \in SmbCallers : caller'[d].slot = caller[d].slot
  BY <1>2, <1>4
<1>6. PoolTypes' /\ SessionTypes' /\ FewHandles' /\ SlotUsers' = SlotUsers
  BY <1>t, <1>u, <1>5 DEF PoolTypes, SessionTypes, FewHandles, SlotUsers
<1>7. PoolCounts' /\ SlotsSomewhere'
  BY <1>t, <1>u, <1>5, <1>6 DEF PoolCounts, SlotsSomewhere
<1>8. CallTypes'
  BY <1>t, <1>u, <1>4 DEF CallTypes
<1>9. \A t \in threads : t.c \in SmbCallers /\ (t.on = "awaited" => t.c # c)
  BY <1>t, <1>u DEF CallTypes, ThreadShape, OneAwaited
<1>10. OneAwaited'
  BY <1>t, <1>u, <1>4, <1>9 DEF OneAwaited
<1>11. SessionsApart'
  BY <1>t, <1>u, <1>5, <1>9 DEF SessionsApart
<1> QED  BY <1>6, <1>7, <1>8, <1>10, <1>11 DEF SmbInv

LEMMA SmbAcquireSlot ==
  ASSUME SmbInv, NEW c \in SmbCallers, AcquireSlot(c)
  PROVE  SmbInv'
<1>t. PoolTypes /\ CallTypes /\ SessionTypes /\ PoolCounts /\ SlotsSomewhere /\ OneAwaited /\ SessionsApart /\ FewHandles
  BY DEF SmbInv
<1>n. SmbSlots \in Nat /\ 0 \notin Slots
  BY SmbAssumption DEF Slots
<1>u. /\ caller[c].pc = "waiting" /\ permits > 0 /\ permits' = permits - 1
      /\ freeSlots' = SubSeq(freeSlots, 1, Len(freeSlots) - 1)
      /\ UNCHANGED <<session, lastSession, handles, threads, closer>>
  BY DEF AcquireSlot, Front
<1>c. IsFiniteSet(SlotUsers) /\ Cardinality(SlotUsers) \in Nat
  BY <1>t, FS_CardinalityType DEF PoolCounts
<1>1. Len(freeSlots) \in Nat /\ Len(freeSlots) > 0 /\ DOMAIN freeSlots = 1..Len(freeSlots)
  <2>1. Len(freeSlots) \in Nat /\ DOMAIN freeSlots = 1..Len(freeSlots) /\ permits \in Nat /\ closer.held \in Nat
    BY <1>t, LenProperties DEF PoolTypes
  <2> QED  BY <1>t, <1>n, <1>u, <1>c, <2>1 DEF PoolCounts
<1>2. PICK n \in Nat : n + 1 = Len(freeSlots)
  <2>1. Len(freeSlots) - 1 \in Nat /\ (Len(freeSlots) - 1) + 1 = Len(freeSlots)
    BY <1>1
  <2> QED  BY <2>1
<1>3. /\ freeSlots' \in Seq(Slots) /\ Len(freeSlots') = n /\ DOMAIN freeSlots' = 1..n
      /\ \A i \in 1..n : freeSlots'[i] = freeSlots[i]
  <2>0. Len(freeSlots) - 1 = n
    BY <1>2
  <2>1. freeSlots' = SubSeq(freeSlots, 1, n)
    BY <1>u, <2>0
  <2>2. \A i \in 1..n + 1 : freeSlots[i] \in Slots
    BY <1>t, <1>2, ElementOfSeq DEF PoolTypes
  <2>3. 1 \in Int /\ n \in Int /\ \A i \in 1..n : freeSlots[i] \in Slots
    BY <1>2, <2>2
  <2>4. /\ freeSlots' \in Seq(Slots) /\ Len(freeSlots') = IF 1 <= n THEN n - 1 + 1 ELSE 0
        /\ \A i \in 1..n - 1 + 1 : freeSlots'[i] = freeSlots[1 + i - 1]
    BY <2>1, <2>3, SubSeqProperties
  <2>5. n - 1 + 1 = n /\ (IF 1 <= n THEN n - 1 + 1 ELSE 0) = n /\ \A i \in 1..n : 1 + i - 1 = i
    BY <1>2
  <2> QED  BY <2>4, <2>5, LenProperties
<1> DEFINE s0 == freeSlots[n + 1]
           r == [caller[c] EXCEPT !.pc = "connect", !.slot = s0]
<1>4. s0 \in Slots /\ Last(freeSlots) = s0
  BY <1>t, <1>1, <1>2, ElementOfSeq DEF PoolTypes, Last
<1> HIDE DEF s0
<1>5. CallShape(caller[c]) /\ caller = [d \in SmbCallers |-> caller[d]] /\ caller[c].slot = 0
  BY <1>t, <1>u DEF CallTypes, CallShape
<1>6. CallShape(r) /\ r.slot = s0
  BY <1>n, <1>u, <1>4, <1>5 DEF CallShape
<1>7. caller' = [caller EXCEPT ![c] = r]
  BY <1>4, <1>5 DEF AcquireSlot
<1> HIDE DEF r
<1>8. /\ caller'[c] = r /\ \A d \in SmbCallers : d # c => caller'[d] = caller[d]
      /\ caller' = [d \in SmbCallers |-> caller'[d]] /\ \A d \in SmbCallers : CallShape(caller'[d])
  BY <1>6, <1>7, CallerMoves
<1>9. SlotUsers' = SlotUsers \union {c} /\ c \notin SlotUsers
  BY <1>n, <1>4, <1>5, <1>6, <1>8 DEF SlotUsers
<1>10. IsFiniteSet(SlotUsers') /\ Cardinality(SlotUsers') = Cardinality(SlotUsers) + 1
  BY <1>c, <1>9, FS_AddElement
<1>11. PoolTypes'
  BY <1>t, <1>u, <1>3 DEF PoolTypes
<1>12. PoolCounts'
  <2>1. closer' = closer /\ closer.held \in Nat /\ permits \in Nat
    BY <1>t, <1>u DEF PoolTypes
  <2>2. PICK k \in Nat, h \in Nat, q \in Nat : k = Cardinality(SlotUsers) /\ h = closer.held /\ q = permits
    BY <1>c, <2>1
  <2>3. q + k + h = SmbSlots /\ n + 1 + k = SmbSlots /\ q > 0
    BY <1>t, <1>u, <1>2, <2>2 DEF PoolCounts
  <2>4. (q - 1) + (k + 1) + h = SmbSlots /\ n + (k + 1) = SmbSlots
    BY <1>n, <1>2, <2>2, <2>3
  <2> QED  BY <1>u, <1>3, <1>10, <2>1, <2>2, <2>4 DEF PoolCounts
<1>13. SlotsSomewhere'
  <2> SUFFICES ASSUME NEW s \in Slots
               PROVE  s \in Range(freeSlots') \/ \E d \in SmbCallers : caller'[d].slot = s
    BY DEF SlotsSomewhere
  <2>1. ASSUME NEW i \in 1..n + 1, s = freeSlots[i]
        PROVE  s \in Range(freeSlots') \/ \E d \in SmbCallers : caller'[d].slot = s
    <3>1. CASE i = n + 1
      BY <1>6, <1>8, <2>1, <3>1 DEF s0
    <3>2. CASE i \in 1..n
      BY <1>3, <2>1, <3>2 DEF Range
    <3> QED  BY <1>2, <3>1, <3>2
  <2>2. ASSUME NEW d \in SmbCallers, caller[d].slot = s
        PROVE  \E e \in SmbCallers : caller'[e].slot = s
    BY <1>n, <1>5, <1>8, <2>2
  <2> QED  BY <1>t, <1>1, <1>2, <2>1, <2>2 DEF SlotsSomewhere, Range
<1>14. \A t \in threads : t.c \in SmbCallers /\ (t.on = "awaited" => t.c # c)
  BY <1>t, <1>u DEF CallTypes, ThreadShape, OneAwaited
<1>15. CallTypes' /\ SessionTypes' /\ FewHandles'
  BY <1>t, <1>u, <1>8 DEF CallTypes, SessionTypes, FewHandles
<1>16. OneAwaited'
  BY <1>t, <1>u, <1>8, <1>14 DEF OneAwaited
<1>17. SessionsApart'
  <2>1. \A t \in threads : t.on = "awaited" => caller'[t.c] = caller[t.c]
    BY <1>8, <1>14
  <2> QED  BY <1>t, <1>u, <2>1 DEF SessionsApart
<1> QED  BY <1>11, <1>12, <1>13, <1>15, <1>16, <1>17 DEF SmbInv

LEMMA SmbEnsureSession ==
  ASSUME SmbInv, NEW c \in SmbCallers, EnsureSlotSession(c)
  PROVE  SmbInv'
<1>t. PoolTypes /\ CallTypes /\ SessionTypes /\ PoolCounts /\ SlotsSomewhere /\ OneAwaited /\ SessionsApart /\ FewHandles
  BY DEF SmbInv
<1> DEFINE s0 == caller[c].slot
           t0 == [c |-> c, path |-> caller[c].path, ses |-> 0, had |-> FALSE, on |-> "awaited"]
           r == [caller[c] EXCEPT !.pc = "call"]
<1>u. /\ caller[c].pc = "connect" /\ threads' = threads \union {t0}
      /\ UNCHANGED <<freeSlots, permits, handles, closer>>
  BY DEF EnsureSlotSession
<1>1. CallShape(caller[c]) /\ caller = [d \in SmbCallers |-> caller[d]]
  BY <1>t DEF CallTypes
<1>2. CallShape(r) /\ r.slot = s0 /\ r.pc = "call"
  BY <1>u, <1>1 DEF CallShape
<1>3. caller' = [caller EXCEPT ![c] = r]
  BY <1>1 DEF EnsureSlotSession
<1>4. s0 \in Slots /\ caller[c].path \in SmbPaths
  BY <1>u, <1>1 DEF CallShape
<1>5. ThreadShape(t0) /\ t0.c = c /\ t0.on = "awaited" /\ t0.ses = 0
  BY <1>4 DEF ThreadShape
<1> HIDE DEF r, t0
<1>6. /\ caller'[c] = r /\ \A d \in SmbCallers : d # c => caller'[d] = caller[d]
      /\ caller' = [d \in SmbCallers |-> caller'[d]] /\ \A d \in SmbCallers : CallShape(caller'[d])
  BY <1>2, <1>3, CallerMoves
<1>7. \A d \in SmbCallers : caller'[d].slot = caller[d].slot
  BY <1>2, <1>6
<1>8. PoolTypes' /\ FewHandles' /\ SlotUsers' = SlotUsers
  BY <1>t, <1>u, <1>7 DEF PoolTypes, FewHandles, SlotUsers
<1>9. PoolCounts' /\ SlotsSomewhere'
  BY <1>t, <1>u, <1>7, <1>8 DEF PoolCounts, SlotsSomewhere
<1>10. CallTypes'
  BY <1>t, <1>u, <1>5, <1>6 DEF CallTypes
<1>11. \A t \in threads : t.c \in SmbCallers /\ t.ses \in Nat /\ (t.on = "awaited" => t.c # c)
  BY <1>t, <1>u DEF CallTypes, ThreadShape, OneAwaited
<1>12. OneAwaited'
  BY <1>t, <1>u, <1>2, <1>5, <1>6, <1>11 DEF OneAwaited
<1>13. CASE UNCHANGED <<session, lastSession>>
  <2>1. SessionTypes'
    BY <1>t, <1>13 DEF SessionTypes
  <2>2. \A t \in threads' : t.ses <= lastSession'
    <3>1. 0 <= lastSession
      BY <1>t DEF SessionTypes
    <3> QED  BY <1>t, <1>u, <1>5, <1>13, <3>1 DEF SessionsApart
  <2>3. SessionsApart'
    BY <1>t, <1>u, <1>5, <1>7, <1>11, <1>13, <2>2, ZenonT(60) DEF SessionsApart
  <2> QED  BY <1>8, <1>9, <1>10, <1>12, <2>1, <2>3 DEF SmbInv
<1>14. CASE session[s0] = 0 /\ lastSession' = lastSession + 1 /\ session' = [session EXCEPT ![s0] = lastSession + 1]
  <2>1. PICK n \in Nat : n = lastSession
    BY <1>t DEF SessionTypes
  <2>2. /\ session'[s0] = n + 1 /\ lastSession' = n + 1
        /\ \A s \in Slots : s # s0 => session'[s] = session[s]
        /\ \A s \in Slots : session[s] \in Nat /\ session[s] <= n
    BY <1>t, <1>4, <1>14, <2>1 DEF SessionTypes, SessionsApart
  <2>3. SessionTypes'
    BY <1>t, <1>4, <1>14 DEF SessionTypes
  <2>4. \A t \in threads : t.ses \in Nat /\ t.ses <= n
    BY <1>t, <1>11, <2>1 DEF SessionsApart
  <2>5. \A s \in Slots : session'[s] <= lastSession'
    BY <2>1, <2>2
  <2>6. \A t \in threads' : t.ses <= lastSession'
    BY <1>u, <1>5, <2>1, <2>2, <2>4
  <2>7. \A q, s \in Slots : session'[q] = session'[s] /\ session'[q] # 0 => q = s
    <3> SUFFICES ASSUME NEW q \in Slots, NEW s \in Slots, session'[q] = session'[s], session'[q] # 0
                 PROVE  q = s
      OBVIOUS
    <3>1. CASE q = s0 \/ s = s0
      <4>1. \A x \in Slots : x # s0 => session'[x] # n + 1
        BY <2>1, <2>2
      <4> QED  BY <2>2, <3>1, <4>1
    <3>2. CASE q # s0 /\ s # s0
      BY <1>t, <2>2, <3>2 DEF SessionsApart
    <3> QED  BY <3>1, <3>2
  <2>8. \A t \in threads : t.ses # n + 1
    BY <2>1, <2>4
  <2>9. \A t \in threads' : t.on = "awaited" /\ t.ses # 0 => \A s \in Slots : session'[s] = t.ses => s = caller'[t.c].slot
    <3> SUFFICES ASSUME NEW t \in threads, t.on = "awaited", t.ses # 0, NEW s \in Slots, session'[s] = t.ses
                 PROVE  s = caller'[t.c].slot
      BY <1>u, <1>5
    <3>1. s # s0 /\ session[s] = t.ses
      BY <2>2, <2>8
    <3> QED  BY <1>t, <1>7, <1>11, <3>1 DEF SessionsApart
  <2>10. \A t \in threads' : t.on = "timed out" => \A s \in Slots : session'[s] # t.ses
    <3> SUFFICES ASSUME NEW t \in threads, t.on = "timed out", NEW s \in Slots
                 PROVE  session'[s] # t.ses
      BY <1>u, <1>5
    <3>1. CASE s = s0
      BY <2>2, <2>8, <3>1
    <3>2. CASE s # s0
      BY <1>t, <2>2, <3>2 DEF SessionsApart
    <3> QED  BY <3>1, <3>2
  <2>11. SessionsApart'
    BY <2>5, <2>6, <2>7, <2>9, <2>10 DEF SessionsApart
  <2> QED  BY <1>8, <1>9, <1>10, <1>12, <2>3, <2>11 DEF SmbInv
<1> QED  BY <1>13, <1>14 DEF EnsureSlotSession

LEMMA SmbReadStarts ==
  ASSUME SmbInv, NEW t \in threads, SmbReadBegins(t)
  PROVE  SmbInv'
<1>t. PoolTypes /\ CallTypes /\ SessionTypes /\ PoolCounts /\ SlotsSomewhere /\ OneAwaited /\ SessionsApart /\ FewHandles
  BY DEF SmbInv
<1> DEFINE ses == session[caller[t.c].slot]
<1>u. t.ses = 0 /\ UNCHANGED <<freeSlots, permits, session, lastSession, caller, closer>>
  BY DEF SmbReadBegins
<1>1. PICK k \in 0..Len(handles[ses]) :
          /\ threads' = (threads \ {t}) \union {[t EXCEPT !.ses = ses, !.had = Contains(Expire(handles[ses], k), t.path)]}
          /\ handles' = [handles EXCEPT ![ses] = Take(Expire(handles[ses], k), t.path)]
  BY DEF SmbReadBegins
<1>2. ThreadShape(t) /\ t.on = "awaited" /\ t.c \in SmbCallers /\ caller[t.c].pc = "call"
  BY <1>t, <1>u DEF CallTypes, ThreadShape, OneAwaited
<1>3. caller[t.c].slot \in Slots
  BY <1>t, <1>2 DEF CallTypes, CallShape
<1>4. ses \in Nat /\ ses <= lastSession
  BY <1>t, <1>3 DEF SessionTypes, SessionsApart
<1> DEFINE q == Expire(handles[ses], k)
           t1 == [t EXCEPT !.ses = ses, !.had = Contains(q, t.path)]
<1>5. ThreadShape(t1) /\ t1.ses = ses /\ t1.c = t.c /\ t1.on = "awaited"
  BY <1>2, <1>4 DEF ThreadShape
<1>6. threads' = (threads \ {t}) \union {t1}
  BY <1>1
<1> HIDE DEF t1
<1>7. PoolTypes' /\ SessionTypes' /\ SlotUsers' = SlotUsers /\ SlotsSomewhere' /\ CallTypes'
  BY <1>t, <1>u, <1>5, <1>6 DEF PoolTypes, SessionTypes, SlotUsers, SlotsSomewhere, CallTypes
<1>8. PoolCounts'
  BY <1>t, <1>u, <1>7 DEF PoolCounts
<1>9. OneAwaited'
  BY <1>t, <1>u, <1>2, <1>5, <1>6 DEF OneAwaited
<1>10. \A s \in Slots : session[s] = ses /\ ses # 0 => s = caller[t.c].slot
  BY <1>t, <1>3 DEF SessionsApart
<1>11. SessionsApart'
  BY <1>t, <1>u, <1>4, <1>5, <1>6, <1>10 DEF SessionsApart
<1>12. FewHandles'
  <2>1. CASE ses \in 1..MaxSessions
    <3>1. handles[ses] \in Seq(SmbPaths) /\ Len(handles[ses]) <= KeptHandles /\ IsInjective(handles[ses])
      BY <1>t, <2>1 DEF FewHandles
    <3>2. q \in Seq(SmbPaths) /\ Len(q) <= Len(handles[ses]) /\ IsInjective(q)
      BY <3>1, ExpireIsSound
    <3>3. Take(q, t.path) \in Seq(SmbPaths) /\ Len(Take(q, t.path)) <= Len(q) /\ IsInjective(Take(q, t.path))
      BY <3>2, TakeIsSound
    <3>4. /\ Len(handles[ses]) \in Nat /\ Len(q) \in Nat /\ Len(Take(q, t.path)) \in Nat /\ KeptHandles \in Nat
      BY <3>1, <3>2, <3>3, LenProperties, SmbAssumption
    <3>5. Len(Take(q, t.path)) <= KeptHandles
      <4> DEFINE n == Len(Take(q, t.path))
      <4> HIDE DEF n
      <4>1. n \in Nat /\ n <= Len(q) /\ Len(q) <= Len(handles[ses])
        BY <3>2, <3>3, <3>4 DEF n
      <4>2. Len(handles[ses]) <= KeptHandles
        BY <3>1
      <4>3. \A a, b, d, e \in Nat : a <= b /\ b <= d /\ d <= e => a <= e
        OBVIOUS
      <4>4. n <= KeptHandles
        BY <3>4, <4>1, <4>2, <4>3, Zenon
      <4> QED  BY <4>4 DEF n
    <3>6. handles' = [handles EXCEPT ![ses] = Take(q, t.path)]
      BY <1>1
    <3> HIDE DEF q, ses
    <3>7. handles'[ses] = Take(q, t.path) /\ \A m \in 1..MaxSessions : m # ses => handles'[m] = handles[m]
      BY <1>t, <2>1, <3>6 DEF FewHandles
    <3>8. handles' \in [1..MaxSessions -> Seq(SmbPaths)]
      BY <1>t, <2>1, <3>3, <3>6 DEF FewHandles
    <3> QED  BY <1>t, <3>3, <3>5, <3>7, <3>8 DEF FewHandles
  <2>2. CASE ses \notin 1..MaxSessions
    <3>1. handles' = handles
      BY <1>t, <1>1, <2>2 DEF FewHandles
    <3> QED  BY <1>t, <3>1 DEF FewHandles
  <2> QED  BY <2>1, <2>2
<1> QED  BY <1>7, <1>8, <1>9, <1>11, <1>12 DEF SmbInv

LEMMA SmbCloseSteps ==
  ASSUME SmbInv, SmbCloseBegins \/ CloseAcquires \/ CloseSlots
  PROVE  SmbInv'
<1>t. PoolTypes /\ CallTypes /\ SessionTypes /\ PoolCounts /\ SlotsSomewhere /\ OneAwaited /\ SessionsApart /\ FewHandles
  BY DEF SmbInv
<1>n. SmbSlots \in Nat
  BY SmbAssumption
<1>u. UNCHANGED <<freeSlots, lastSession, caller, threads>>
  BY DEF SmbCloseBegins, CloseAcquires, CloseSlots
<1>1. CallTypes' /\ OneAwaited' /\ SlotUsers' = SlotUsers /\ SlotsSomewhere'
  BY <1>t, <1>u DEF CallTypes, OneAwaited, SlotUsers, SlotsSomewhere
<1>c. PICK k \in Nat, h \in Nat, q \in Nat : k = Cardinality(SlotUsers) /\ h = closer.held /\ q = permits
  BY <1>t, FS_CardinalityType DEF PoolCounts, PoolTypes
<1>2. q + k + h = SmbSlots
  BY <1>t, <1>c DEF PoolCounts
<1>3. CASE SmbCloseBegins
  <2>0. closer.pc = "idle" /\ closer' = [pc |-> "acquiring", held |-> 0] /\ UNCHANGED <<permits, session, handles>>
    BY <1>3 DEF SmbCloseBegins
  <2>1. PoolTypes' /\ SessionTypes' /\ SessionsApart' /\ FewHandles'
    BY <1>t, <1>u, <2>0 DEF PoolTypes, SessionTypes, SessionsApart, FewHandles
  <2>2. PoolCounts'
    <3>1. closer.held = 0 /\ closer'.held = 0
      BY <1>t, <2>0 DEF PoolTypes
    <3> QED  BY <1>t, <1>u, <1>1, <2>0, <3>1 DEF PoolCounts
  <2> QED  BY <1>1, <2>1, <2>2 DEF SmbInv
<1>4. CASE CloseAcquires
  <2>0. permits > 0 /\ permits' = permits - 1 /\ closer' = [closer EXCEPT !.held = @ + 1] /\ UNCHANGED <<session, handles>>
    BY <1>4 DEF CloseAcquires
  <2>1. closer' \in [pc : {"idle", "acquiring", "closed"}, held : Nat] /\ closer'.held = h + 1 /\ closer'.pc # "idle"
    BY <1>t, <1>c, <1>4, <2>0 DEF PoolTypes, CloseAcquires
  <2>2. permits' = q - 1 /\ q - 1 \in Nat /\ (q - 1) + k + (h + 1) = SmbSlots
    BY <1>n, <1>c, <1>2, <2>0
  <2>3. PoolTypes' /\ SessionTypes' /\ SessionsApart' /\ FewHandles'
    BY <1>t, <1>u, <2>0, <2>1, <2>2 DEF PoolTypes, SessionTypes, SessionsApart, FewHandles
  <2>4. PoolCounts'
    BY <1>t, <1>u, <1>c, <1>1, <2>1, <2>2 DEF PoolCounts
  <2> QED  BY <1>1, <2>3, <2>4 DEF SmbInv
<1>5. CASE CloseSlots
  <2>0. /\ closer.held = SmbSlots /\ session' = [s \in Slots |-> 0] /\ permits' = permits + SmbSlots
        /\ closer' = [pc |-> "closed", held |-> 0]
        /\ handles' = [n \in DOMAIN handles |-> IF n \in Range(session) THEN <<>> ELSE handles[n]]
    BY <1>5 DEF CloseSlots
  <2>1. permits' = q + SmbSlots /\ q + SmbSlots \in Nat /\ (q + SmbSlots) + k + 0 = SmbSlots /\ closer'.held = 0
    BY <1>n, <1>c, <1>2, <2>0
  <2>2. PoolTypes' /\ PoolCounts'
    BY <1>t, <1>u, <1>c, <1>1, <2>0, <2>1 DEF PoolTypes, PoolCounts
  <2>3. SessionTypes' /\ SessionsApart'
    <3>1. \A s \in Slots : session'[s] = 0
      BY <2>0
    <3>2. lastSession \in Nat /\ 0 <= lastSession
      BY <1>t DEF SessionTypes
    <3>3. \A t \in threads : t.on = "timed out" => t.ses # 0
      BY <1>t DEF CallTypes, ThreadShape
    <3>4. session' \in [Slots -> Nat]
      BY <2>0
    <3> QED  BY <1>t, <1>u, <3>1, <3>2, <3>3, <3>4 DEF SessionTypes, SessionsApart
  <2>4. FewHandles'
    <3>1. <<>> \in Seq(SmbPaths) /\ Len(<<>>) = 0 /\ IsInjective(<<>>) /\ 0 <= KeptHandles
      BY EmptySeq, SmbAssumption DEF IsInjective
    <3> QED  BY <1>t, <2>0, <3>1 DEF FewHandles
  <2> QED  BY <1>1, <2>2, <2>3, <2>4 DEF SmbInv
<1> QED  BY <1>3, <1>4, <1>5

LEMMA SmbStep ==
  ASSUME SmbInv, SmbNext \/ UNCHANGED smbVars
  PROVE  SmbInv'
<1>1. CASE UNCHANGED smbVars
  <2>1. SlotUsers' = SlotUsers
    BY <1>1 DEF smbVars, SlotUsers
  <2> QED  BY <1>1, <2>1, ZenonT(60) DEF smbVars, SmbInv, PoolTypes, CallTypes, SessionTypes, PoolCounts, SlotsSomewhere, OneAwaited, SessionsApart, FewHandles
<1>2. CASE SmbCloseBegins \/ CloseAcquires \/ CloseSlots
  BY <1>2, SmbCloseSteps
<1>3. ASSUME NEW c \in SmbCallers,
             AcquireSlot(c) \/ EnsureSlotSession(c) \/ ConnectFails(c) \/ CallTimesOut(c) \/ CallCancelled(c)
      PROVE  SmbInv'
  BY <1>3, SmbAcquireSlot, SmbEnsureSession, SmbConnectFails, SmbCallTimesOut, SmbCallCancelled
<1>4. ASSUME NEW c \in SmbCallers, NEW p \in SmbPaths, SmbCall(c, p)
      PROVE  SmbInv'
  BY <1>4, SmbCallBegins
<1>5. ASSUME NEW t \in threads, SmbReadBegins(t) \/ ReadFails(t) \/ CreditExhausted(t) \/ ReadReturns(t)
      PROVE  SmbInv'
  BY <1>5, SmbReadStarts, ThreadEnds
<1> QED  BY <1>1, <1>2, <1>3, <1>4, <1>5 DEF SmbNext

LEMMA SmbProperties ==
  ASSUME SmbInv
  PROVE  SlotsConserved /\ LateCallsAreApart /\ HandlesAreKept
<1>t. PoolTypes /\ CallTypes /\ SessionTypes /\ PoolCounts /\ SlotsSomewhere /\ OneAwaited /\ SessionsApart /\ FewHandles
  BY DEF SmbInv
<1>n. SmbSlots \in Nat /\ 0 \notin Slots
  BY SmbAssumption DEF Slots
<1>1. LateCallsAreApart
  BY <1>t DEF LateCallsAreApart, SessionsApart, SessionTypes, Range
<1>2. Range(freeSlots) \union {caller[c].slot : c \in SlotUsers} = Slots
  <2>1. Range(freeSlots) \subseteq Slots
    BY <1>t, LenProperties, ElementOfSeq DEF PoolTypes, Range
  <2>2. \A c \in SlotUsers : caller[c].slot \in Slots
    BY <1>t DEF CallTypes, CallShape, SlotUsers
  <2>3. \A s \in Slots : s \in Range(freeSlots) \/ \E c \in SlotUsers : caller[c].slot = s
    BY <1>t, <1>n DEF SlotsSomewhere, SlotUsers
  <2> QED  BY <2>1, <2>2, <2>3
<1>3. Cardinality(Slots) = SmbSlots
  BY <1>n, FS_Interval DEF Slots
<1>4. SlotsConserved
  BY <1>t, <1>2, <1>3 DEF SlotsConserved, SlotUsers, PoolCounts
<1>5. ASSUME closer.held = SmbSlots
      PROVE  Range(caller) \intersect {c \in Range(caller) : c.slot # 0} = {}
  <2>1. Cardinality(SlotUsers) = 0
    BY <1>t, <1>n, <1>5, FS_CardinalityType DEF PoolCounts, PoolTypes
  <2>2. SlotUsers = {}
    BY <1>t, <2>1, FS_EmptySet DEF PoolCounts
  <2> QED  BY <1>t, <2>2 DEF SlotUsers, CallTypes, Range
<1>6. HandlesAreKept
  BY <1>t, <1>5 DEF HandlesAreKept, FewHandles
<1> QED  BY <1>1, <1>4, <1>6

-----------------------------------------------------------------------------
(* ObjectStores: S3's client. *)

\* Whoever enters a client holds the lock, and there is none in use.
EnterAlone == \A t \in S3Tasks : s3Pc[t] = "entering" => s3Lock = t /\ s3Client = 0
S3Inv == s3Pc \in [S3Tasks -> {"idle", "locking", "entering", "using", "done"}] /\ EnterAlone /\ NoClientLeaks /\ 0 \notin s3Open /\ s3Made \in Nat

LEMMA S3Start ==
  ASSUME S3Init
  PROVE  S3Inv
BY DEF S3Init, S3Inv, EnterAlone, NoClientLeaks

LEMMA S3Step ==
  ASSUME S3Inv, S3Next \/ UNCHANGED s3Vars
  PROVE  S3Inv'
<1> USE S3Assumption DEF S3Inv, EnterAlone, NoClientLeaks
<1>1. CASE UNCHANGED s3Vars
  BY <1>1 DEF s3Vars
<1>2. CASE S3Close \/ S3Closed
  BY <1>2 DEF S3Close, S3Closed
<1>3. ASSUME NEW t \in S3Tasks, S3Asks(t) \/ S3Locks(t)
      PROVE  S3Inv'
  BY <1>3 DEF S3Asks, S3Locks, NeedsClient
<1>4. ASSUME NEW t \in S3Tasks, S3Enters(t)
      PROVE  S3Inv'
  <2>1. s3Client = 0 /\ \A u \in S3Tasks : s3Pc[u] = "entering" => u = t
    BY <1>4 DEF S3Enters
  <2>2. s3Pc' = [s3Pc EXCEPT ![t] = "using"] /\ s3Client' = s3Made' /\ s3Open' = s3Open \union {s3Made'} /\ s3Closing' = s3Closing
    BY <1>4 DEF S3Enters
  <2>3. (s3Pc \in [S3Tasks -> {"idle", "locking", "entering", "using", "done"}])'
    BY <2>2
  <2>4. NoClientLeaks'
    <3>1. \A x \in s3Open : x = 0 \/ x \in s3Closing
      BY <2>1
    <3>2. 0 \notin s3Open
      BY <2>1
    <3> QED  BY <2>2, <3>1, <3>2
  <2>5. EnterAlone'
    BY <2>1, <2>2
  <2>6. s3Made' \in Nat /\ s3Made' # 0
    BY <1>4 DEF S3Enters
  <2>7. 0 \notin s3Open'
    BY <2>2, <2>6
  <2> QED  BY <2>3, <2>4, <2>5, <2>6, <2>7
<1>5. ASSUME NEW t \in S3Tasks, S3EnterFails(t) \/ S3Reads(t)
      PROVE  S3Inv'
  BY <1>5 DEF S3EnterFails, S3Reads
<1> QED  BY <1>1, <1>2, <1>3, <1>4, <1>5 DEF S3Next

-----------------------------------------------------------------------------
(* TempCopies.  A file that was begun is on disk until its copy goes, which it does only after
   the last of its writers; what a connection has open was written to its end.  HoldsInv: the space
   reserved is the pieces the writers hold. *)

\* What the proof needs of a writer's record.
FileShape(r) ==
    /\ DOMAIN r = {"st", "size", "known", "snap", "held", "written"} /\ r = [x \in DOMAIN r |-> r[x]]
    /\ r.st \in {"none", "made", "checked", "writing", "done", "failed"}
    /\ r.written \in Nat
TempTypes ==
    /\ file = [f \in Files |-> file[f]] /\ \A f \in Files : FileShape(file[f])
    /\ copyPc \in [Copies -> {"idle", "writing", "connecting", "open", "closing", "gone"}]
    /\ onDisk \in [Files -> Nat \union {Absent}]
    /\ conn \subseteq Copies /\ remover \subseteq Copies
\* Where the writers are while their copy is at pc p, its removal left to a thread or not (r).
WriterFits(s, p, r) ==
    /\ p = "idle" => s = "none"
    /\ p \in {"connecting", "open", "closing"} \/ r => s \in {"none", "done"}
    /\ p = "gone" => s \in {"none", "done", "failed"}
\* A file that was begun is on disk until its copy goes.
DiskFits(s, n, p, r) ==
    /\ s # "none" /\ (p # "gone" \/ r) => n # Absent
    /\ p = "gone" /\ ~r => n = Absent
FileLife ==
    \A f \in Files : /\ WriterFits(file[f].st, copyPc[f[1]], f[1] \in remover)
                     /\ DiskFits(file[f].st, onDisk[f], copyPc[f[1]], f[1] \in remover)
CopyLife ==
    \A c \in Copies : /\ c \in conn => copyPc[c] \in {"open", "closing"} \/ c \in remover
                      /\ c \in remover => copyPc[c] = "gone"
TempInv == TempTypes /\ FileLife /\ CopyLife


LEMMA FilesAreOfCopies ==
  /\ \A f \in Files : f[1] \in Copies
  /\ \A c \in Copies : \A f : f \in FilesOf(c) <=> f \in Files /\ f[1] = c
BY DEF Files, FilesOf

LEMMA TempStart ==
  ASSUME TempInit
  PROVE  TempInv
<1>1. TempTypes
  BY DEF TempInit, TempTypes, FileShape, NoFile
<1>2. FileLife
  BY FilesAreOfCopies DEF TempInit, FileLife, WriterFits, DiskFits, NoFile
<1> QED  BY <1>1, <1>2 DEF TempInit, TempInv, CopyLife

\* The steps of one writer f: its file keeps its shape and is on disk, its copy is still writing.
LEMMA WriterStep ==
  ASSUME TempInv, NEW f \in Files, NEW r, FileShape(r),
         file' = [file EXCEPT ![f] = r], r.st # "none", file[f].st \in {"made", "checked", "writing"},
         onDisk' = onDisk \/ \E n \in Nat : onDisk' = [onDisk EXCEPT ![f] = n],
         UNCHANGED <<copyPc, conn, remover>>
  PROVE  TempInv'
<1>t. TempTypes /\ FileLife /\ CopyLife
  BY DEF TempInv
<1>1. file'[f] = r /\ \A g \in Files : g # f => file'[g] = file[g]
  BY <1>t DEF TempTypes
<1>2. file' = [g \in Files |-> file'[g]]
  BY <1>t DEF TempTypes
<1>3. /\ \A g \in Files : g # f => onDisk'[g] = onDisk[g]
      /\ onDisk[f] # Absent => onDisk'[f] # Absent
      /\ onDisk' \in [Files -> Nat \union {Absent}]
  BY <1>t DEF TempTypes, Absent
<1>4. TempTypes'
  BY <1>t, <1>1, <1>2, <1>3 DEF TempTypes
<1>5. CopyLife'
  BY <1>t DEF CopyLife
<1>6. copyPc[f[1]] \notin {"idle", "connecting", "open", "closing", "gone"} /\ f[1] \notin remover
  BY <1>t DEF FileLife, WriterFits
<1>7. onDisk[f] # Absent
  BY <1>t, <1>6 DEF FileLife, DiskFits
<1>8. FileLife'
  <2> SUFFICES ASSUME NEW g \in Files
               PROVE  /\ WriterFits(file'[g].st, copyPc[g[1]], g[1] \in remover)
                      /\ DiskFits(file'[g].st, onDisk'[g], copyPc[g[1]], g[1] \in remover)
    BY DEF FileLife
  <2>1. CASE g # f
    BY <2>1, <1>t, <1>1, <1>3 DEF FileLife
  <2>2. CASE g = f
    BY <2>2, <1>1, <1>3, <1>6, <1>7 DEF WriterFits, DiskFits
  <2> QED  BY <2>1, <2>2
<1> QED  BY <1>4, <1>5, <1>8 DEF TempInv

LEMMA TempReadFree ==
  ASSUME TempInv, NEW f \in Files, ReadFree(f)
  PROVE  TempInv'
<1> DEFINE r == [file[f] EXCEPT !.st = "checked", !.snap = Free]
<1>1. FileShape(file[f]) /\ file = [g \in Files |-> file[g]]
  BY DEF TempInv, TempTypes
<1>3. FileShape(r) /\ r.st = "checked"
  BY <1>1 DEF FileShape
<1>4. file' = [file EXCEPT ![f] = r]
  BY <1>1 DEF ReadFree
<1> HIDE DEF r
<1> QED  BY <1>3, <1>4, WriterStep DEF ReadFree

LEMMA TempReserve ==
  ASSUME TempInv, NEW f \in Files, Reserve(f)
  PROVE  TempInv'
<1> DEFINE r(s, h) == [file[f] EXCEPT !.st = s, !.held = h]
<1>1. FileShape(file[f]) /\ file = [g \in Files |-> file[g]]
  BY DEF TempInv, TempTypes
<1>3. ASSUME NEW s \in {"writing", "failed"}, NEW h
      PROVE  FileShape(r(s, h)) /\ r(s, h).st = s
  BY <1>1 DEF FileShape
<1>4. r("failed", file[f].held) = [file[f] EXCEPT !.st = "failed"]
  BY <1>1 DEF FileShape
<1>5. \E s \in {"writing", "failed"} : \E h : file' = [file EXCEPT ![f] = r(s, h)]
  <2>1. CASE Fits(f)
    BY <2>1, <1>1 DEF Reserve
  <2>2. CASE ~Fits(f)
    BY <2>2, <1>1, <1>4 DEF Reserve
  <2> QED  BY <2>1, <2>2
<1>6. file[f].st = "checked" /\ UNCHANGED <<copyPc, onDisk, conn, remover>>
  BY DEF Reserve
<1> HIDE DEF r
<1> QED  BY <1>3, <1>5, <1>6, WriterStep

LEMMA TempReleased ==
  ASSUME TempInv, NEW f \in Files, NEW s \in {"done", "failed"}, file[f].st = "writing",
         ReleaseCopy(f, s), UNCHANGED <<copyPc, onDisk, conn, remover>>
  PROVE  TempInv'
<1> DEFINE r == [file[f] EXCEPT !.st = s, !.held = 0]
<1>1. FileShape(file[f]) /\ file = [g \in Files |-> file[g]]
  BY DEF TempInv, TempTypes
<1>3. FileShape(r) /\ r.st = s
  BY <1>1 DEF FileShape
<1>4. file' = [file EXCEPT ![f] = r]
  BY <1>1 DEF ReleaseCopy
<1> HIDE DEF r
<1> QED  BY <1>3, <1>4, WriterStep

LEMMA TempAccount ==
  ASSUME TempInv, NEW f \in Files, Account(f)
  PROVE  TempInv'
<1>1. FileShape(file[f]) /\ file = [g \in Files |-> file[g]]
  BY DEF TempInv, TempTypes
<1>2. file[f].st = "writing" /\ UNCHANGED <<copyPc, conn, remover>>
  BY DEF Account
<1> DEFINE w == file[f].written + 1
           full == ~file[f].known /\ file[f].snap - (inFlight - file[f].held) - FsReserve < w
           h == IF file[f].known THEN file[f].held ELSE w
           r == [file[f] EXCEPT !.written = w, !.held = h]
<1>3. CASE full
  BY <1>2, <1>3, TempReleased DEF Account
<1>4. CASE ~full
  <2>1. w \in Nat
    BY <1>1 DEF FileShape
  <2>2. onDisk' = [onDisk EXCEPT ![f] = w] /\ file' = [file EXCEPT ![f].written = w, ![f].held = IF file[f].known THEN @ ELSE w]
    BY <1>4 DEF Account
  <2> HIDE DEF w
  <2>4. FileShape(r) /\ r.st = "writing"
    BY <1>1, <1>2, <2>1 DEF FileShape
  <2>5. file' = [file EXCEPT ![f] = r]
    BY <1>1, <2>2
  <2> HIDE DEF r
  <2> QED  BY <1>2, <2>1, <2>2, <2>4, <2>5, WriterStep
<1> QED  BY <1>3, <1>4

\* The steps of a copy c: what the other copies have stays, and its own files fit its new state.
LEMMA CopyStep ==
  ASSUME TempInv, TempTypes', NEW c \in Copies,
         \A b \in Copies : b # c => /\ copyPc'[b] = copyPc[b]
                                    /\ b \in conn' <=> b \in conn
                                    /\ b \in remover' <=> b \in remover,
         \A g \in Files : g[1] # c => file'[g] = file[g] /\ onDisk'[g] = onDisk[g],
         \A g \in Files : g[1] = c => /\ WriterFits(file'[g].st, copyPc'[c], c \in remover')
                                      /\ DiskFits(file'[g].st, onDisk'[g], copyPc'[c], c \in remover'),
         c \in conn' => copyPc'[c] \in {"open", "closing"} \/ c \in remover',
         c \in remover' => copyPc'[c] = "gone"
  PROVE  TempInv'
<1>1. CopyLife'
  BY DEF TempInv, CopyLife
<1>2. ASSUME NEW g \in Files
      PROVE  /\ WriterFits(file'[g].st, copyPc'[g[1]], g[1] \in remover')
             /\ DiskFits(file'[g].st, onDisk'[g], copyPc'[g[1]], g[1] \in remover')
  <2>1. CASE g[1] = c
    BY <2>1
  <2>2. CASE g[1] # c
    <3>1. g[1] \in Copies
      BY FilesAreOfCopies
    <3>2. copyPc'[g[1]] = copyPc[g[1]] /\ (g[1] \in remover' <=> g[1] \in remover) /\ file'[g] = file[g] /\ onDisk'[g] = onDisk[g]
      BY <2>2, <3>1
    <3>3. WriterFits(file[g].st, copyPc[g[1]], g[1] \in remover) /\ DiskFits(file[g].st, onDisk[g], copyPc[g[1]], g[1] \in remover)
      BY DEF TempInv, FileLife
    <3> QED  BY <3>2, <3>3 DEF WriterFits, DiskFits
  <2> QED  BY <2>1, <2>2
<1>3. FileLife'
  BY <1>2 DEF FileLife
<1> QED  BY <1>1, <1>3 DEF TempInv

LEMMA UnlinkFacts ==
  ASSUME TempTypes, NEW c \in Copies, Unlink(c)
  PROVE  /\ onDisk' \in [Files -> Nat \union {Absent}]
         /\ \A g \in Files : g[1] # c => onDisk'[g] = onDisk[g]
         /\ \A g \in Files : g[1] = c => onDisk'[g] = Absent
BY DEF TempTypes, Unlink

LEMMA TempCopyBegins ==
  ASSUME TempInv, NEW c \in Copies, NEW sizes \in Shapes, CopyBegins(c, sizes)
  PROVE  TempInv'
<1>t. TempTypes /\ FileLife /\ CopyLife
  BY DEF TempInv
<1>u. UNCHANGED <<conn, remover>> /\ copyPc[c] = "idle" /\ copyPc' = [copyPc EXCEPT ![c] = "writing"]
  BY DEF CopyBegins
<1>1. copyPc' \in [Copies -> {"idle", "writing", "connecting", "open", "closing", "gone"}] /\ copyPc'[c] = "writing" /\ \A b \in Copies : b # c => copyPc'[b] = copyPc[b]
  BY <1>t, <1>u DEF TempTypes
<1>2. c \notin remover /\ c \notin conn
  BY <1>t, <1>u DEF CopyLife
<1>3. ASSUME NEW g \in Files
      PROVE  /\ g[1] # c => file'[g] = file[g] /\ onDisk'[g] = onDisk[g]
             /\ FileShape(file'[g]) /\ onDisk'[g] \in Nat \union {Absent}
             /\ g[1] = c => file'[g].st = "none" \/ onDisk'[g] = 0
  <2>1. CASE g[1] = c /\ g[2] \in DOMAIN sizes
    <3>1. file'[g] = [NoFile EXCEPT !.st = "made", !.size = sizes[g[2]].n, !.known = sizes[g[2]].known] /\ onDisk'[g] = 0
      BY <2>1 DEF CopyBegins
    <3>2. file'[g] = [st |-> "made", size |-> sizes[g[2]].n, known |-> sizes[g[2]].known, snap |-> 0, held |-> 0, written |-> 0]
      BY <3>1 DEF NoFile
    <3>3. FileShape(file'[g])
      BY <3>2 DEF FileShape
    <3> QED  BY <2>1, <3>1, <3>3
  <2>2. CASE ~(g[1] = c /\ g[2] \in DOMAIN sizes)
    <3>1. file'[g] = file[g] /\ onDisk'[g] = onDisk[g]
      BY <2>2 DEF CopyBegins
    <3>2. g[1] = c => file[g].st = "none"
      BY <1>t, <1>u DEF FileLife, WriterFits
    <3> QED  BY <1>t, <3>1, <3>2 DEF TempTypes
  <2> QED  BY <2>1, <2>2
<1>4. file' = [g \in Files |-> file'[g]] /\ onDisk' = [g \in Files |-> onDisk'[g]]
  BY DEF CopyBegins
<1>5. TempTypes'
  BY <1>t, <1>u, <1>1, <1>3, <1>4 DEF TempTypes
<1>6. \A g \in Files : g[1] = c => /\ WriterFits(file'[g].st, copyPc'[c], c \in remover')
                                   /\ DiskFits(file'[g].st, onDisk'[g], copyPc'[c], c \in remover')
  BY <1>u, <1>1, <1>2, <1>3 DEF WriterFits, DiskFits, Absent
<1> QED  BY <1>u, <1>1, <1>2, <1>3, <1>5, <1>6, CopyStep

LEMMA TempCopyCancelled ==
  ASSUME TempInv, NEW c \in Copies, CopyCancelled(c)
  PROVE  TempInv'
BY DEF CopyCancelled, TempInv, TempTypes, FileLife, CopyLife

LEMMA TempWritesEnd ==
  ASSUME TempInv, NEW c \in Copies, WritesEnd(c)
  PROVE  TempInv'
<1>t. TempTypes /\ FileLife /\ CopyLife
  BY DEF TempInv
<1>u. UNCHANGED <<file, conn, remover>> /\ copyPc[c] = "writing"
  BY DEF WritesEnd, AllWritten
<1>2. c \notin remover /\ c \notin conn
  BY <1>t, <1>u DEF CopyLife
<1>3. \A g \in Files : g[1] = c => /\ file[g].st \in {"none", "done", "failed"}
                                   /\ file[g].st # "none" => onDisk[g] # Absent
  BY <1>t, <1>u, <1>2, FilesAreOfCopies DEF WritesEnd, AllWritten, Over, FileLife, DiskFits
<1>4. CASE c \in copyCut \/ \E f \in FilesOf(c) : file[f].st = "failed"
  <2>1. copyPc' = [copyPc EXCEPT ![c] = "gone"] /\ Unlink(c)
    BY <1>4 DEF WritesEnd
  <2>2. copyPc'[c] = "gone" /\ \A b \in Copies : b # c => copyPc'[b] = copyPc[b]
    BY <1>t, <2>1 DEF TempTypes
  <2>3. TempTypes'
    BY <1>t, <1>u, <2>1, UnlinkFacts DEF TempTypes
  <2>4. \A g \in Files : g[1] = c => /\ WriterFits(file'[g].st, copyPc'[c], c \in remover')
                                     /\ DiskFits(file'[g].st, onDisk'[g], copyPc'[c], c \in remover')
    BY <1>t, <1>u, <1>2, <1>3, <2>1, <2>2, UnlinkFacts DEF WriterFits, DiskFits
  <2> QED  BY <1>t, <1>u, <1>2, <2>1, <2>2, <2>3, <2>4, UnlinkFacts, CopyStep
<1>5. CASE ~(c \in copyCut \/ \E f \in FilesOf(c) : file[f].st = "failed")
  <2>1. copyPc' = [copyPc EXCEPT ![c] = "connecting"] /\ UNCHANGED onDisk
    BY <1>5 DEF WritesEnd
  <2>2. copyPc'[c] = "connecting" /\ \A b \in Copies : b # c => copyPc'[b] = copyPc[b]
    BY <1>t, <2>1 DEF TempTypes
  <2>3. TempTypes'
    BY <1>t, <1>u, <2>1 DEF TempTypes
  <2>4. \A g \in Files : g[1] = c => file[g].st # "failed"
    BY <1>5, FilesAreOfCopies
  <2>5. \A g \in Files : g[1] = c => /\ WriterFits(file'[g].st, copyPc'[c], c \in remover')
                                     /\ DiskFits(file'[g].st, onDisk'[g], copyPc'[c], c \in remover')
    BY <1>u, <1>2, <1>3, <2>1, <2>2, <2>4 DEF WriterFits, DiskFits
  <2> QED  BY <1>u, <1>2, <2>1, <2>2, <2>3, <2>5, CopyStep
<1> QED  BY <1>4, <1>5

\* A connected copy goes on, is closed, or goes with its files.
LEMMA ConnectedStep ==
  ASSUME TempInv, NEW c \in Copies, copyPc[c] \in {"connecting", "open", "closing"} \/ c \in remover,
         NEW p \in {"open", "closing", "gone"}, copyPc' = [copyPc EXCEPT ![c] = p], file' = file,
         conn' \subseteq Copies, remover' \subseteq Copies,
         \A b \in Copies : b # c => (b \in conn' <=> b \in conn) /\ (b \in remover' <=> b \in remover),
         \/ p # "gone" /\ onDisk' = onDisk /\ c \notin remover'
         \/ p = "gone" /\ onDisk' = onDisk /\ c \in remover'
         \/ p = "gone" /\ Unlink(c) /\ c \notin remover' /\ c \notin conn'
  PROVE  TempInv'
<1>t. TempTypes /\ FileLife /\ CopyLife
  BY DEF TempInv
<1>1. copyPc'[c] = p /\ \A b \in Copies : b # c => copyPc'[b] = copyPc[b]
  BY <1>t DEF TempTypes
<1>2. TempTypes'
  BY <1>t, UnlinkFacts DEF TempTypes
<1>3. \A g \in Files : g[1] = c => /\ file[g].st \in {"none", "done"}
                                   /\ file[g].st # "none" => onDisk[g] # Absent
  BY <1>t DEF FileLife, WriterFits, DiskFits
<1>4. \A g \in Files : g[1] = c => /\ WriterFits(file'[g].st, copyPc'[c], c \in remover')
                                   /\ DiskFits(file'[g].st, onDisk'[g], copyPc'[c], c \in remover')
  BY <1>t, <1>1, <1>3, UnlinkFacts DEF WriterFits, DiskFits
<1>5. \A g \in Files : g[1] # c => file'[g] = file[g] /\ onDisk'[g] = onDisk[g]
  BY <1>t, UnlinkFacts
<1> QED  BY <1>1, <1>2, <1>4, <1>5, CopyStep

LEMMA TempConnectedSteps ==
  ASSUME TempInv, NEW c \in Copies,
         (\E ok \in BOOLEAN : ConnectEnds(c, ok)) \/ CloseSource(c) \/ SourceClosed(c) \/ RemoverRuns(c)
  PROVE  TempInv'
<1>t. TempTypes /\ CopyLife
  BY DEF TempInv
<1>1. ASSUME NEW ok \in BOOLEAN, ConnectEnds(c, ok)
      PROVE  TempInv'
  <2>1. c \notin conn /\ c \notin remover
    BY <1>t, <1>1 DEF ConnectEnds, CopyLife
  <2> QED  BY <1>t, <1>1, <2>1, ConnectedStep DEF ConnectEnds, TempTypes
<1>2. CASE CloseSource(c)
  <2>1. c \notin remover
    BY <1>t, <1>2 DEF CloseSource, CopyLife
  <2> QED  BY <1>t, <1>2, <2>1, ConnectedStep DEF CloseSource, TempTypes
<1>3. CASE SourceClosed(c)
  <2>1. c \notin remover
    BY <1>t, <1>3 DEF SourceClosed, CopyLife
  <2> QED  BY <1>t, <1>3, <2>1, ConnectedStep DEF SourceClosed, TempTypes
<1>4. CASE RemoverRuns(c)
  <2>1. copyPc' = [copyPc EXCEPT ![c] = "gone"]
    BY <1>t, <1>4 DEF RemoverRuns, CopyLife, TempTypes
  <2> QED  BY <1>t, <1>4, <2>1, ConnectedStep DEF RemoverRuns, TempTypes
<1> QED  BY <1>1, <1>2, <1>3, <1>4

LEMMA TempStep ==
  ASSUME TempInv, TempNext \/ UNCHANGED tempVars
  PROVE  TempInv'
<1>1. CASE UNCHANGED tempVars
  BY <1>1 DEF tempVars, TempInv, TempTypes, FileLife, CopyLife
<1>2. ASSUME NEW c \in Copies, CopyCancelled(c) \/ WritesEnd(c) \/ CloseSource(c) \/ SourceClosed(c) \/ RemoverRuns(c)
      PROVE  TempInv'
  BY <1>2, TempCopyCancelled, TempWritesEnd, TempConnectedSteps
<1>3. ASSUME NEW c \in Copies, NEW ok \in BOOLEAN, ConnectEnds(c, ok)
      PROVE  TempInv'
  BY <1>3, TempConnectedSteps
<1>4. ASSUME NEW c \in Copies, NEW sizes \in Shapes, CopyBegins(c, sizes)
      PROVE  TempInv'
  BY <1>4, TempCopyBegins
<1>5. ASSUME NEW f \in Files, ReadFree(f) \/ Reserve(f) \/ Account(f)
      PROVE  TempInv'
  BY <1>5, TempReadFree, TempReserve, TempAccount
<1>6. ASSUME NEW f \in Files, NEW s \in {"done", "failed"}, WriteEnds(f, s)
      PROVE  TempInv'
  BY <1>6, TempReleased DEF WriteEnds
<1> QED  BY <1>1, <1>2, <1>3, <1>4, <1>5, <1>6 DEF TempNext

LEMMA TempProperty ==
  ASSUME TempInv
  PROVE  NoTempLeaks
<1>3. \A c \in Copies : copyPc[c] = "gone" /\ c \notin remover =>
          c \notin conn /\ \A f \in FilesOf(c) : onDisk[f] = Absent /\ Over(f)
  BY FilesAreOfCopies DEF TempInv, CopyLife, FileLife, WriterFits, DiskFits, Over
<1>4. \A f \in Files : (~Over(f) \/ (f[1] \in conn /\ file[f].st = "done")) => onDisk[f] # Absent
  BY FilesAreOfCopies DEF TempInv, CopyLife, FileLife, WriterFits, DiskFits, Over
<1>5. \A c \in conn : \A f \in FilesOf(c) : file[f].st \in {"none", "done"}
  BY FilesAreOfCopies DEF TempInv, TempTypes, CopyLife, FileLife, WriterFits
<1> QED  BY <1>3, <1>4, <1>5 DEF NoTempLeaks

\* The pieces held: what a file asks for is counted once, and only while it is written.
HeldShape(r) == r.size \in Nat /\ r.known \in BOOLEAN /\ r.held \in Nat /\ (r.held # 0 => r.st = "writing")
HoldsInv ==
    /\ TempInv /\ IsFiniteSet(HeldPieces) /\ inFlight = Cardinality(HeldPieces)
    /\ \A f \in Files : HeldShape(file[f])

\* A step that changes the hold of one file changes the count by the difference.
LEMMA HoldMoves ==
  ASSUME IsFiniteSet(HeldPieces), NEW f \in Files, NEW h \in Nat, file[f].held \in Nat, file'[f].held = h,
         \A g \in Files : g # f => file'[g].held = file[g].held
  PROVE  /\ IsFiniteSet(HeldPieces')
         /\ Cardinality(HeldPieces) \in Nat /\ Cardinality(HeldPieces') = Cardinality(HeldPieces) - file[f].held + h
<1> DEFINE A == {f} \X (1..file[f].held)
           B == {f} \X (1..h)
           D == HeldPieces
           rest == D \ A
<1>1. ASSUME NEW n \in Nat
      PROVE  IsFiniteSet({f} \X (1..n)) /\ Cardinality({f} \X (1..n)) = n
  <2>1. IsFiniteSet({f}) /\ Cardinality({f}) = 1
    BY FS_Singleton
  <2>2. IsFiniteSet(1..n) /\ Cardinality(1..n) = n
    <3>1. 1 \in Int /\ n \in Int
      OBVIOUS
    <3>2. IsFiniteSet(1..n) /\ Cardinality(1..n) = IF 1 > n THEN 0 ELSE n - 1 + 1
      BY <3>1, FS_Interval
    <3>3. (IF 1 > n THEN 0 ELSE n - 1 + 1) = n
      OBVIOUS
    <3> QED  BY <3>2, <3>3
  <2> DEFINE S == {f}
             T == 1..n
  <2>3. IsFiniteSet(S) /\ Cardinality(S) = 1 /\ IsFiniteSet(T) /\ Cardinality(T) = n
    BY <2>1, <2>2
  <2> HIDE DEF S, T
  <2>4. IsFiniteSet(S \X T) /\ Cardinality(S \X T) = Cardinality(S) * Cardinality(T)
    BY <2>3, FS_Product
  <2>5. IsFiniteSet(S \X T) /\ Cardinality(S \X T) = n
    BY <2>3, <2>4
  <2> QED  BY <2>5 DEF S, T
<1>2. IsFiniteSet(A) /\ Cardinality(A) = file[f].held /\ IsFiniteSet(B) /\ Cardinality(B) = h
  BY <1>1
<1>3. A \subseteq D /\ D \cap A = A
  BY DEF HeldPieces
<1>4. \A p \in D : p \notin A => \E g \in Files : g # f /\ p \in {g} \X (1..file[g].held)
  BY DEF HeldPieces
<1>5. HeldPieces' = rest \cup B
  <2>1. ASSUME NEW p \in HeldPieces'
        PROVE  p \in rest \cup B
    <3>1. PICK g \in Files : p \in {g} \X (1..file'[g].held)
      BY <2>1 DEF HeldPieces
    <3>2. CASE g = f
      BY <3>1, <3>2
    <3>3. CASE g # f
      <4>1. p \in {g} \X (1..file[g].held)
        BY <3>1, <3>3
      <4>2. p \in D /\ p \notin A
        BY <3>3, <4>1 DEF HeldPieces
      <4> QED  BY <4>2
    <3> QED  BY <3>2, <3>3
  <2>2. B \subseteq HeldPieces'
    BY DEF HeldPieces
  <2>3. ASSUME NEW p \in rest
        PROVE  p \in HeldPieces'
    <3>1. PICK g \in Files : g # f /\ p \in {g} \X (1..file[g].held)
      BY <1>4, <2>3
    <3>2. p \in {g} \X (1..file'[g].held)
      BY <3>1
    <3> QED  BY <3>2 DEF HeldPieces
  <2> QED  BY <2>1, <2>2, <2>3
<1>6. rest \cap B = {}
  <2>1. ASSUME NEW p \in rest, p \in B
        PROVE  FALSE
    <3>1. PICK g \in Files : g # f /\ p \in {g} \X (1..file[g].held)
      BY <1>4, <2>1
    <3> QED  BY <2>1, <3>1
  <2> QED  BY <2>1
<1> HIDE DEF A, B
<1>7. IsFiniteSet(rest) /\ Cardinality(rest) = Cardinality(D) - file[f].held /\ Cardinality(D) \in Nat /\ Cardinality(rest) \in Nat
  <2>1. IsFiniteSet(rest) /\ Cardinality(rest) = Cardinality(D) - Cardinality(D \cap A)
    BY FS_Difference
  <2> QED  BY <1>2, <1>3, <2>1, FS_CardinalityType
<1> HIDE DEF D, rest
<1>8. IsFiniteSet(rest \cup B) /\ Cardinality(rest \cup B) = Cardinality(rest) + Cardinality(B) - Cardinality(rest \cap B)
  BY <1>2, <1>7, FS_Union
<1>9. Cardinality(rest \cap B) = 0
  BY <1>6, FS_EmptySet
<1>10. Cardinality(rest \cup B) = Cardinality(D) - file[f].held + h
  BY <1>2, <1>7, <1>8, <1>9
<1> QED  BY <1>5, <1>7, <1>8, <1>10 DEF D

LEMMA HoldsStart ==
  ASSUME TempInit
  PROVE  HoldsInv
<1>1. \A f \in Files : HeldShape(file[f]) /\ file[f].held = 0
  BY DEF TempInit, HeldShape, NoFile
<1>2. HeldPieces = {}
  BY <1>1 DEF HeldPieces
<1> QED  BY <1>1, <1>2, TempStart, FS_EmptySet DEF HoldsInv, TempInit

\* A step of one writer.
LEMMA WriterHolds ==
  ASSUME HoldsInv, TempInv', NEW f \in Files, NEW r, file' = [file EXCEPT ![f] = r], HeldShape(r), r.held \in Nat,
         inFlight' = inFlight - file[f].held + r.held
  PROVE  HoldsInv'
<1>1. file = [g \in Files |-> file[g]]
  BY DEF HoldsInv, TempInv, TempTypes
<1>2. file'[f] = r /\ \A g \in Files : g # f => file'[g] = file[g]
  BY <1>1
<1>3. file[f].held \in Nat /\ IsFiniteSet(HeldPieces)
  BY DEF HoldsInv, HeldShape
<1>4. /\ IsFiniteSet(HeldPieces')
      /\ Cardinality(HeldPieces) \in Nat /\ Cardinality(HeldPieces') = Cardinality(HeldPieces) - file[f].held + r.held
  BY <1>2, <1>3, HoldMoves
<1>5. \A g \in Files : HeldShape(file'[g])
  BY <1>2 DEF HoldsInv
<1>6. inFlight' = Cardinality(HeldPieces')
  BY <1>4 DEF HoldsInv
<1> QED  BY <1>4, <1>5, <1>6 DEF HoldsInv

\* A step that changes no hold.
LEMMA HoldsStay ==
  ASSUME HoldsInv, TempInv', UNCHANGED inFlight, \A g \in Files : HeldShape(file'[g]) /\ file'[g].held = file[g].held
  PROVE  HoldsInv'
<1>1. HeldPieces' = HeldPieces
  <2>1. \A g \in Files : {g} \X (1..file'[g].held) = {g} \X (1..file[g].held)
    OBVIOUS
  <2> QED  BY <2>1 DEF HeldPieces
<1> QED  BY <1>1 DEF HoldsInv

LEMMA CopyBeginsHolds ==
  ASSUME HoldsInv, TempInv', NEW c \in Copies, NEW sizes \in Shapes, CopyBegins(c, sizes)
  PROVE  HoldsInv'
<1>1. copyPc[c] = "idle" /\ UNCHANGED inFlight
  BY DEF CopyBegins
<1>2. ASSUME NEW g \in Files
      PROVE  HeldShape(file'[g]) /\ file'[g].held = file[g].held
  <2>1. CASE g[1] = c /\ g[2] \in DOMAIN sizes
    <3>1. file'[g] = [NoFile EXCEPT !.st = "made", !.size = sizes[g[2]].n, !.known = sizes[g[2]].known]
      BY <2>1 DEF CopyBegins
    <3>2. file'[g] = [st |-> "made", size |-> sizes[g[2]].n, known |-> sizes[g[2]].known, snap |-> 0, held |-> 0, written |-> 0]
      BY <3>1 DEF NoFile
    <3>3. sizes[g[2]].n \in Nat /\ sizes[g[2]].known \in BOOLEAN
      BY <2>1, TempAssumption
    <3>4. HeldShape(file'[g]) /\ file'[g].held = 0
      BY <3>2, <3>3 DEF HeldShape
    <3>5. file[g].st = "none"
      BY <1>1, <2>1 DEF HoldsInv, TempInv, FileLife, WriterFits
    <3>6. file[g].held = 0
      BY <3>5 DEF HoldsInv, HeldShape
    <3> QED  BY <3>4, <3>6
  <2>2. CASE ~ (g[1] = c /\ g[2] \in DOMAIN sizes)
    <3>1. file'[g] = file[g]
      BY <2>2 DEF CopyBegins
    <3> QED  BY <3>1 DEF HoldsInv
  <2> QED  BY <2>1, <2>2
<1> QED  BY <1>1, <1>2, HoldsStay

LEMMA FileIs ==
  ASSUME HoldsInv, NEW f \in Files
  PROVE  /\ FileShape(file[f]) /\ HeldShape(file[f]) /\ file = [g \in Files |-> file[g]]
         /\ file[f].held \in Nat /\ file[f].size \in Nat /\ file[f].known \in BOOLEAN /\ inFlight \in Nat
  BY FS_CardinalityType DEF HoldsInv, TempInv, TempTypes, HeldShape

LEMMA ReadFreeHolds ==
  ASSUME HoldsInv, TempInv', NEW f \in Files, ReadFree(f)
  PROVE  HoldsInv'
<1> DEFINE r == [file[f] EXCEPT !.st = "checked", !.snap = Free]
<1>1. file' = [file EXCEPT ![f] = r] /\ file[f].st = "made" /\ inFlight' = inFlight
  BY FileIs DEF ReadFree
<1>2. file[f].held = 0
  BY <1>1, FileIs DEF HeldShape
<1>3. HeldShape(r) /\ r.held = 0
  BY <1>2, FileIs DEF HeldShape, FileShape
<1> HIDE DEF r
<1>4. inFlight' = inFlight - file[f].held + r.held /\ r.held \in Nat
  BY <1>1, <1>2, <1>3, FileIs
<1> QED  BY <1>1, <1>3, <1>4, WriterHolds

LEMMA ReserveHolds ==
  ASSUME HoldsInv, TempInv', NEW f \in Files, Reserve(f)
  PROVE  HoldsInv'
<1> DEFINE asked == IF file[f].known THEN file[f].size ELSE 0
           took == [file[f] EXCEPT !.st = "writing", !.held = asked]
           failed == [file[f] EXCEPT !.st = "failed"]
<1>1. file[f].held = 0
  BY FileIs DEF Reserve, HeldShape
<1>2. CASE Fits(f)
  <2>1. file' = [file EXCEPT ![f] = took] /\ inFlight' = inFlight + asked
    BY <1>2, FileIs DEF Reserve
  <2>2. asked \in Nat
    BY FileIs
  <2> HIDE DEF asked
  <2>3. HeldShape(took) /\ took.held = asked
    BY <2>2, FileIs DEF HeldShape, FileShape
  <2> HIDE DEF took
  <2>4. inFlight' = inFlight - file[f].held + took.held /\ took.held \in Nat
    BY <1>1, <2>1, <2>2, <2>3, FileIs
  <2> QED  BY <2>1, <2>3, <2>4, WriterHolds
<1>3. CASE ~ Fits(f)
  <2>1. file' = [file EXCEPT ![f] = failed] /\ inFlight' = inFlight
    BY <1>3, FileIs DEF Reserve
  <2>2. HeldShape(failed) /\ failed.held = 0
    BY <1>1, FileIs DEF HeldShape, FileShape
  <2> HIDE DEF failed
  <2>3. inFlight' = inFlight - file[f].held + failed.held /\ failed.held \in Nat
    BY <1>1, <2>1, <2>2, FileIs
  <2> QED  BY <2>1, <2>2, <2>3, WriterHolds
<1> QED  BY <1>2, <1>3

LEMMA ReleaseHolds ==
  ASSUME HoldsInv, TempInv', NEW f \in Files, NEW s \in {"done", "failed"}, ReleaseCopy(f, s)
  PROVE  HoldsInv'
<1> DEFINE r == [file[f] EXCEPT !.st = s, !.held = 0]
<1>1. file' = [file EXCEPT ![f] = r] /\ inFlight' = inFlight - file[f].held
  BY FileIs DEF ReleaseCopy
<1>2. HeldShape(r) /\ r.held = 0
  BY FileIs DEF HeldShape, FileShape
<1> HIDE DEF r
<1>3. inFlight' = inFlight - file[f].held + r.held /\ r.held \in Nat
  BY <1>1, <1>2, FileIs
<1> QED  BY <1>1, <1>2, <1>3, WriterHolds

LEMMA AccountHolds ==
  ASSUME HoldsInv, TempInv', NEW f \in Files, Account(f)
  PROVE  HoldsInv'
<1> DEFINE w == file[f].written + 1
           full == ~ file[f].known /\ file[f].snap - (inFlight - file[f].held) - FsReserve < w
           h == IF file[f].known THEN file[f].held ELSE w
           r == [file[f] EXCEPT !.written = w, !.held = h]
<1>1. CASE full
  BY <1>1, ReleaseHolds DEF Account
<1>2. CASE ~ full
  <2>1. w \in Nat /\ file[f].st = "writing"
    <3>1. file[f].written \in Nat
      BY FileIs DEF FileShape
    <3> QED  BY <3>1 DEF Account
  <2>2. /\ file' = [file EXCEPT ![f].written = w, ![f].held = IF file[f].known THEN @ ELSE w]
        /\ inFlight' = IF file[f].known THEN inFlight ELSE inFlight - file[f].held + w
    BY <1>2 DEF Account
  <2> HIDE DEF w
  <2>3. file' = [file EXCEPT ![f] = r]
    BY <2>2, FileIs
  <2>4. h \in Nat /\ inFlight' = inFlight - file[f].held + h
    BY <2>1, <2>2, FileIs
  <2> HIDE DEF h
  <2>5. HeldShape(r) /\ r.held = h
    BY <2>1, <2>4, FileIs DEF HeldShape, FileShape
  <2> HIDE DEF r
  <2> QED  BY <2>3, <2>4, <2>5, WriterHolds
<1> QED  BY <1>1, <1>2

LEMMA HoldsStep ==
  ASSUME HoldsInv, TempNext \/ UNCHANGED tempVars
  PROVE  HoldsInv'
<1>1. TempInv'
  BY TempStep DEF HoldsInv
<1>2. ASSUME UNCHANGED <<file, inFlight>>
      PROVE  HoldsInv'
  <2>1. \A g \in Files : HeldShape(file'[g]) /\ file'[g].held = file[g].held
    BY <1>2 DEF HoldsInv
  <2> QED  BY <1>1, <1>2, <2>1, HoldsStay
<1>3. CASE UNCHANGED tempVars
  BY <1>2, <1>3 DEF tempVars
<1>4. ASSUME NEW c \in Copies, CopyCancelled(c) \/ WritesEnd(c) \/ CloseSource(c) \/ SourceClosed(c) \/ RemoverRuns(c)
      PROVE  HoldsInv'
  BY <1>2, <1>4 DEF CopyCancelled, WritesEnd, CloseSource, SourceClosed, RemoverRuns
<1>5. ASSUME NEW c \in Copies, NEW ok \in BOOLEAN, ConnectEnds(c, ok)
      PROVE  HoldsInv'
  BY <1>2, <1>5 DEF ConnectEnds
<1>6. ASSUME NEW c \in Copies, NEW sizes \in Shapes, CopyBegins(c, sizes)
      PROVE  HoldsInv'
  BY <1>1, <1>6, CopyBeginsHolds
<1>7. ASSUME NEW f \in Files, ReadFree(f) \/ Reserve(f) \/ Account(f)
      PROVE  HoldsInv'
  BY <1>1, <1>7, ReadFreeHolds, ReserveHolds, AccountHolds
<1>8. ASSUME NEW f \in Files, NEW s \in {"done", "failed"}, WriteEnds(f, s)
      PROVE  HoldsInv'
  BY <1>1, <1>8, ReleaseHolds DEF WriteEnds
<1> QED  BY <1>3, <1>4, <1>5, <1>6, <1>7, <1>8 DEF TempNext

LEMMA HoldsProperty ==
  ASSUME HoldsInv
  PROVE  HoldsBalance /\ NoTempLeaks
BY TempProperty DEF HoldsInv, HoldsBalance

-----------------------------------------------------------------------------
(* Profiles.  Whatever a listing that may still be written says was given is in the keyring.
   Two processes can break that (a save and a delete of one name), so there is one user. *)

Configs == [kind : Kinds, req : {"", "bucket"}, port : {"", "nan", "445"}, given : BOOLEAN]
Listings == UNION {[D -> Configs] : D \in SUBSET Names}
Calls == [pc : {"begin", "save", "first", "second", "forget", "unset"}, op : {"add", "delete"},
          name : Names, fields : Fields \cup {<<>>}, read : Listings]
\* Every secret a listing says was given is in the keyring.
Kept(f) == \A n \in DOMAIN f : f[n].given => keyring[n][f[n].kind] # ""

ProfTypes ==
    /\ json \in Listings \cup {Corrupt}
    /\ keyring \in [Names -> [Kinds -> {""} \cup Secrets]]
    /\ user \in [Users -> Calls \cup {IdleUser}]
EditShape ==
    \A u \in Users : /\ user[u].pc \in {"save", "first", "second"} => user[u].op = "add"
                     /\ user[u].pc # "idle" => (user[u].op = "add" => user[u].fields \in Fields)
SaveKeeps ==
    \A u \in Users :
        /\ user[u].pc \in {"first", "second", "forget"} => Kept(user[u].read)
        /\ user[u].pc = "second" /\ user[u].fields.secret # "" => keyring[user[u].name][user[u].fields.kind] # ""
        /\ user[u].pc = "unset" /\ Readable => user[u].name \notin DOMAIN json
Listed == Readable => Kept(json)
ProfInv == ProfTypes /\ EditShape /\ SaveKeeps /\ Listed

OneUser == \A u, v \in Users : u = v
Places == {"begin", "save", "first", "second", "forget", "unset"}

(* How a user's record moves. *)

LEMMA UserIs ==
  ASSUME ProfTypes, NEW u \in Users, user[u].pc # "idle"
  PROVE  user[u] \in Calls
<1>1. user[u] \in Calls \cup {IdleUser}
  BY DEF ProfTypes
<1>2. IdleUser.pc = "idle"
  BY DEF IdleUser
<1> QED  BY <1>1, <1>2

LEMMA UserGoes ==
  ASSUME ProfTypes, NEW u \in Users, user[u].pc # "idle", NEW pc \in Places, Goes(u, pc)
  PROVE  /\ user' \in [Users -> Calls \cup {IdleUser}]
         /\ user'[u].pc = pc /\ user'[u].op = user[u].op /\ user'[u].name = user[u].name
         /\ user'[u].fields = user[u].fields /\ user'[u].read = user[u].read
<1>1. user[u] \in Calls
  BY UserIs
<1>2. user'[u] = [user[u] EXCEPT !.pc = pc] /\ user'[u] \in Calls
  BY <1>1 DEF ProfTypes, Goes, Calls, Places
<1>3. user' \in [Users -> Calls \cup {IdleUser}]
  BY <1>2 DEF ProfTypes, Goes
<1> QED  BY <1>1, <1>2, <1>3 DEF Calls

LEMMA UserReads ==
  ASSUME ProfTypes, NEW u \in Users, user[u].pc # "idle", NEW pc \in Places, json \in Listings,
         user' = [user EXCEPT ![u].pc = pc, ![u].read = json]
  PROVE  /\ user' \in [Users -> Calls \cup {IdleUser}]
         /\ user'[u].pc = pc /\ user'[u].op = user[u].op /\ user'[u].name = user[u].name
         /\ user'[u].fields = user[u].fields /\ user'[u].read = json
<1>1. user[u] \in Calls
  BY UserIs
<1>2. user'[u] = [user[u] EXCEPT !.pc = pc, !.read = json] /\ user'[u] \in Calls
  BY <1>1 DEF ProfTypes, Calls, Places
<1>3. user' \in [Users -> Calls \cup {IdleUser}]
  BY <1>2 DEF ProfTypes
<1> QED  BY <1>1, <1>2, <1>3 DEF Calls

\* A user that has ended, or died, leaves nothing to keep.
LEMMA UserEnds ==
  ASSUME OneUser, ProfTypes, NEW u \in Users, Ends(u),
         UNCHANGED json \/ json' \in Listings \cup {Corrupt}, keyring' \in [Names -> [Kinds -> {""} \cup Secrets]]
  PROVE  ProfTypes' /\ EditShape' /\ SaveKeeps'
<1>1. user' \in [Users -> Calls \cup {IdleUser}] /\ \A v \in Users : user'[v].pc = "idle"
  BY DEF OneUser, ProfTypes, Ends, IdleUser
<1>2. ProfTypes'
  BY <1>1 DEF ProfTypes
<1> QED  BY <1>1, <1>2 DEF EditShape, SaveKeeps

(* Listings. *)

LEMMA ListingFacts ==
  ASSUME NEW f \in Listings
  PROVE  /\ f = [n \in DOMAIN f |-> f[n]] /\ DOMAIN f \subseteq Names
         /\ \A n \in DOMAIN f : f[n] \in Configs
BY DEF Listings

LEMMA ListingWith ==
  ASSUME NEW f \in Listings, NEW n \in Names, NEW e \in Configs
  PROVE  With(f, n, e) \in Listings
<1>1. DOMAIN f \cup {n} \in SUBSET Names /\ \A m \in DOMAIN f : f[m] \in Configs
  BY ListingFacts
<1>2. With(f, n, e) \in [DOMAIN f \cup {n} -> Configs]
  BY <1>1 DEF With
<1> QED  BY <1>1, <1>2 DEF Listings

LEMMA ListingWithout ==
  ASSUME NEW f \in Listings, NEW n \in Names
  PROVE  Without(f, n) \in Listings
<1>1. DOMAIN f \ {n} \in SUBSET Names /\ \A m \in DOMAIN f : f[m] \in Configs
  BY ListingFacts
<1>2. Without(f, n) \in [DOMAIN f \ {n} -> Configs]
  BY <1>1 DEF Without
<1> QED  BY <1>1, <1>2 DEF Listings

LEMMA ListingRead ==
  ASSUME ProfTypes, Readable
  PROVE  json \in Listings
BY DEF ProfTypes, Readable

(* The actions. *)

LEMMA ProfStarts ==
  ASSUME OneUser, ProfInv, NEW u \in Users, NEW op \in {"add", "delete"}, NEW n \in Names,
         NEW f \in Fields \cup {<<>>}, op = "add" => f \in Fields, Starts(u, op, n, f)
  PROVE  ProfInv'
<1> DEFINE new == [pc |-> "begin", op |-> op, name |-> n, fields |-> f, read |-> Empty]
<1>1. Empty \in Listings
  <2>1. Empty \in [{} -> Configs]
    BY DEF Empty
  <2> QED  BY <2>1 DEF Listings
<1>2. new \in Calls
  BY <1>1 DEF Calls
<1>3. user' = [user EXCEPT ![u] = new] /\ UNCHANGED <<json, keyring>> /\ ProfTypes
  BY DEF Starts, ProfInv
<1>4. new.pc = "begin" /\ new.op = op /\ new.fields = f
  OBVIOUS
<1> HIDE DEF new
<1>5. ProfTypes'
  BY <1>2, <1>3 DEF ProfTypes
<1>6. \A v \in Users : user'[v] = new
  BY <1>3 DEF OneUser, ProfTypes
<1>7. EditShape' /\ SaveKeeps'
  BY <1>4, <1>6 DEF EditShape, SaveKeeps
<1>8. Listed'
  BY <1>3 DEF ProfInv, Listed, Kept, Readable
<1> QED  BY <1>5, <1>7, <1>8 DEF ProfInv

LEMMA ProfAddChecks ==
  ASSUME OneUser, ProfInv, NEW u \in Users, NEW force \in BOOLEAN, NEW there \in BOOLEAN, AddChecks(u, force, there)
  PROVE  ProfInv'
<1>1. user[u].pc = "begin" /\ user[u].op = "add" /\ UNCHANGED <<json, keyring>> /\ (Goes(u, "save") \/ Ends(u))
  BY DEF AddChecks
<1>2. ProfTypes /\ EditShape
  BY DEF ProfInv
<1>3. Listed'
  BY <1>1 DEF ProfInv, Listed, Kept, Readable
<1>4. CASE Ends(u)
  BY <1>1, <1>2, <1>3, <1>4, UserEnds DEF ProfInv, ProfTypes
<1>5. CASE Goes(u, "save")
  <2>1. /\ user' \in [Users -> Calls \cup {IdleUser}]
        /\ user'[u].pc = "save" /\ user'[u].op = "add" /\ user'[u].fields = user[u].fields
    BY <1>1, <1>2, <1>5, UserGoes DEF Places
  <2>2. user[u].fields \in Fields
    BY <1>1, <1>2 DEF EditShape
  <2>3. ProfTypes'
    BY <1>1, <1>2, <2>1 DEF ProfTypes
  <2>4. EditShape' /\ SaveKeeps'
    BY <2>1, <2>2 DEF OneUser, EditShape, SaveKeeps
  <2> QED  BY <2>3, <2>4, <1>3 DEF ProfInv
<1> QED  BY <1>1, <1>4, <1>5

LEMMA ProfSaveReads ==
  ASSUME OneUser, ProfInv, NEW u \in Users, SaveReads(u)
  PROVE  ProfInv'
<1>1. user[u].pc = "save" /\ UNCHANGED <<json, keyring>>
  BY DEF SaveReads
<1>2. ProfTypes /\ EditShape /\ Listed
  BY DEF ProfInv
<1>3. Listed'
  BY <1>1, <1>2 DEF Listed, Kept, Readable
<1>4. CASE ~Readable
  BY <1>1, <1>2, <1>3, <1>4, UserEnds DEF ProfInv, ProfTypes, SaveReads
<1>5. CASE Readable
  <2>0. json \in Listings /\ user' = [user EXCEPT ![u].pc = "first", ![u].read = json]
    BY <1>2, <1>5, ListingRead DEF SaveReads
  <2>1. /\ user' \in [Users -> Calls \cup {IdleUser}]
        /\ user'[u].pc = "first" /\ user'[u].op = user[u].op /\ user'[u].fields = user[u].fields /\ user'[u].read = json
    BY <1>1, <1>2, <2>0, UserReads DEF Places
  <2>2. user[u].fields \in Fields /\ user[u].op = "add"
    BY <1>1, <1>2 DEF EditShape
  <2>3. ProfTypes'
    BY <1>1, <1>2, <2>1 DEF ProfTypes
  <2>4. EditShape'
    BY <2>1, <2>2 DEF OneUser, EditShape
  <2>5. Kept(json)'
    BY <1>1, <1>2, <1>5 DEF Listed, Kept
  <2>6. SaveKeeps'
    BY <2>1, <2>5, <1>1 DEF OneUser, SaveKeeps, Kept
  <2> QED  BY <2>3, <2>4, <2>6, <1>3 DEF ProfInv
<1> QED  BY <1>4, <1>5

\* A secret that is set takes none away.
LEMMA KeyringGrows ==
  ASSUME ProfTypes, NEW n \in Names, NEW k \in Kinds, NEW x \in Secrets, x # "",
         keyring' = [keyring EXCEPT ![n][k] = x]
  PROVE  /\ keyring' \in [Names -> [Kinds -> {""} \cup Secrets]]
         /\ keyring'[n][k] # ""
         /\ \A m \in Names, j \in Kinds : keyring[m][j] # "" => keyring'[m][j] # ""
BY DEF ProfTypes

LEMMA KeptStays ==
  ASSUME NEW f \in Listings, Kept(f),
         \A m \in Names, j \in Kinds : keyring[m][j] # "" => keyring'[m][j] # ""
  PROVE  \A n \in DOMAIN f : f[n].given => keyring'[n][f[n].kind] # ""
<1>1. \A n \in DOMAIN f : n \in Names /\ f[n].kind \in Kinds
  BY ListingFacts DEF Configs
<1> QED  BY <1>1 DEF Kept

LEMMA ProfSetSecrets ==
  ASSUME OneUser, ProfInv, NEW u \in Users, NEW usable \in BOOLEAN, SetSecrets(u, usable)
  PROVE  ProfInv'
<1> DEFINE f == user[u].fields
<1>1. user[u].pc = "first" /\ UNCHANGED json
  BY DEF SetSecrets, SaveStep, SaveOrder
<1>2. ProfTypes /\ EditShape /\ Listed /\ SaveKeeps
  BY DEF ProfInv
<1>3. user[u] \in Calls /\ f \in Fields /\ user[u].op = "add" /\ Kept(user[u].read)
  BY <1>1, <1>2, UserIs DEF EditShape, SaveKeeps
<1>4. user[u].name \in Names /\ user[u].read \in Listings
  BY <1>3 DEF Calls
<1>5. f.kind \in Kinds /\ f.secret \in {""} \cup Secrets
  BY <1>3 DEF Fields
<1>6. CASE ~usable
  <2>1. Ends(u) /\ UNCHANGED keyring
    BY <1>6 DEF SetSecrets
  <2>2. ProfTypes' /\ EditShape' /\ SaveKeeps'
    BY <2>1, <1>1, <1>2, UserEnds DEF ProfTypes
  <2>3. Listed'
    BY <2>1, <1>1, <1>2 DEF Listed, Kept, Readable
  <2> QED  BY <2>2, <2>3 DEF ProfInv
<1>7. CASE usable
  <2>1. /\ keyring' = IF f.secret = "" THEN keyring ELSE [keyring EXCEPT ![user[u].name][f.kind] = f.secret]
        /\ Goes(u, "second")
    BY <1>7, <1>1 DEF SetSecrets, SaveGoesOn, SecretField
  <2>2. /\ keyring' \in [Names -> [Kinds -> {""} \cup Secrets]]
        /\ f.secret # "" => keyring'[user[u].name][f.kind] # ""
        /\ \A m \in Names, j \in Kinds : keyring[m][j] # "" => keyring'[m][j] # ""
    <3>1. CASE f.secret = ""
      BY <3>1, <2>1, <1>2 DEF ProfTypes
    <3>2. CASE f.secret # ""
      BY <3>2, <2>1, <1>2, <1>4, <1>5, KeyringGrows
    <3> QED  BY <3>1, <3>2
  <2>3. /\ user' \in [Users -> Calls \cup {IdleUser}]
        /\ user'[u].pc = "second" /\ user'[u].op = "add" /\ user'[u].fields = f
        /\ user'[u].read = user[u].read /\ user'[u].name = user[u].name
    BY <1>1, <1>2, <1>3, <2>1, UserGoes DEF Places
  <2>4. ProfTypes'
    BY <1>1, <1>2, <2>2, <2>3 DEF ProfTypes
  <2>5. EditShape'
    BY <2>3, <1>3 DEF OneUser, EditShape
  <2>6. \A n \in DOMAIN user[u].read : user[u].read[n].given => keyring'[n][user[u].read[n].kind] # ""
    BY <1>3, <1>4, <2>2, KeptStays
  <2>7. SaveKeeps'
    BY <2>2, <2>3, <2>6, ZenonT(60) DEF OneUser, SaveKeeps, Kept
  <2>8. Listed'
    BY <1>1, <1>2, <2>2, KeptStays, ListingRead DEF Listed, Kept, Readable
  <2> QED  BY <2>4, <2>5, <2>7, <2>8 DEF ProfInv
<1> QED  BY <1>6, <1>7

LEMMA ProfWriteProfiles ==
  ASSUME OneUser, ProfInv, NEW u \in Users, NEW ok \in BOOLEAN, WriteProfiles(u, ok)
  PROVE  ProfInv'
<1> DEFINE f == user[u].fields
<1>1. user[u].pc = "second" /\ UNCHANGED keyring /\ Ends(u)
  BY DEF WriteProfiles, SaveStep, SaveOrder, SaveGoesOn
<1>2. ProfTypes /\ EditShape /\ Listed /\ SaveKeeps
  BY DEF ProfInv
<1>3. user[u] \in Calls /\ f \in Fields /\ Kept(user[u].read)
      /\ (f.secret # "" => keyring[user[u].name][f.kind] # "")
  BY <1>1, <1>2, UserIs DEF EditShape, SaveKeeps
<1>4. user[u].name \in Names /\ user[u].read \in Listings
  BY <1>3 DEF Calls
<1>5. /\ ConfigFromFields(f) \in Configs
      /\ ConfigFromFields(f).given = (f.secret # "") /\ ConfigFromFields(f).kind = f.kind
  BY <1>3 DEF ConfigFromFields, Fields, Configs
<1>6. CASE ~ok
  <2>1. ProfTypes' /\ EditShape' /\ SaveKeeps'
    BY <1>1, <1>2, <1>6, UserEnds DEF WriteProfiles, ProfTypes
  <2>2. Listed'
    BY <1>1, <1>2, <1>6 DEF WriteProfiles, Listed, Kept, Readable
  <2> QED  BY <2>1, <2>2 DEF ProfInv
<1>7. CASE ok
  <2>1. json' = With(user[u].read, user[u].name, ConfigFromFields(f))
    BY <1>7 DEF WriteProfiles
  <2>2. json' \in Listings
    BY <2>1, <1>4, <1>5, ListingWith
  <2>3. ProfTypes' /\ EditShape' /\ SaveKeeps'
    BY <1>1, <1>2, <2>2, UserEnds DEF ProfTypes
  <2>4. \A n \in DOMAIN json' : json'[n].given => keyring[n][json'[n].kind] # ""
    BY <2>1, <1>3, <1>5 DEF With, Kept
  <2> QED  BY <2>3, <2>4, <1>1 DEF ProfInv, Listed, Kept
<1> QED  BY <1>6, <1>7

LEMMA ProfDeleteReads ==
  ASSUME OneUser, ProfInv, NEW u \in Users, DeleteReads(u)
  PROVE  ProfInv'
<1>1. user[u].pc = "begin" /\ user[u].op = "delete" /\ UNCHANGED <<json, keyring>>
  BY DEF DeleteReads
<1>2. ProfTypes /\ Listed
  BY DEF ProfInv
<1>3. Listed'
  BY <1>1, <1>2 DEF Listed, Kept, Readable
<1>4. CASE Ends(u)
  BY <1>1, <1>2, <1>3, <1>4, UserEnds DEF ProfInv, ProfTypes
<1>5. CASE Readable /\ user' = [user EXCEPT ![u].pc = "forget", ![u].read = json]
  <2>0. json \in Listings
    BY <1>2, <1>5, ListingRead
  <2>1. /\ user' \in [Users -> Calls \cup {IdleUser}]
        /\ user'[u].pc = "forget" /\ user'[u].op = "delete" /\ user'[u].read = json
    BY <1>1, <1>2, <1>5, <2>0, UserReads DEF Places
  <2>2. ProfTypes'
    BY <1>1, <1>2, <2>1 DEF ProfTypes
  <2>3. EditShape'
    BY <2>1 DEF OneUser, EditShape
  <2>4. Kept(json)'
    BY <1>1, <1>2, <1>5 DEF Listed, Kept
  <2>5. SaveKeeps'
    BY <2>1, <2>4, <1>1 DEF OneUser, SaveKeeps, Kept
  <2> QED  BY <2>2, <2>3, <2>5, <1>3 DEF ProfInv
<1> QED  BY <1>4, <1>5 DEF DeleteReads

LEMMA ProfDeleteWrites ==
  ASSUME OneUser, ProfInv, NEW u \in Users, DeleteWrites(u)
  PROVE  ProfInv'
<1>1. /\ user[u].pc = "forget" /\ UNCHANGED keyring /\ Goes(u, "unset")
      /\ json' = Without(user[u].read, user[u].name)
  BY DEF DeleteWrites
<1>2. ProfTypes /\ EditShape /\ Kept(user[u].read)
  BY <1>1 DEF ProfInv, SaveKeeps
<1>3. user[u].name \in Names /\ user[u].read \in Listings
  BY <1>1, <1>2, UserIs DEF Calls
<1>4. /\ user' \in [Users -> Calls \cup {IdleUser}]
      /\ user'[u].pc = "unset" /\ user'[u].op = user[u].op /\ user'[u].name = user[u].name
      /\ user'[u].fields = user[u].fields
  BY <1>1, <1>2, UserGoes DEF Places
<1>5. ProfTypes'
  BY <1>1, <1>2, <1>3, <1>4, ListingWithout DEF ProfTypes
<1>6. EditShape'
  BY <1>1, <1>2, <1>4 DEF OneUser, EditShape
<1>7. SaveKeeps'
  BY <1>1, <1>4 DEF OneUser, SaveKeeps, Without
<1>8. Listed'
  BY <1>1, <1>2 DEF Listed, Kept, Without
<1> QED  BY <1>5, <1>6, <1>7, <1>8 DEF ProfInv

LEMMA ProfDeleteSecrets ==
  ASSUME OneUser, ProfInv, NEW u \in Users, NEW usable \in BOOLEAN, DeleteSecrets(u, usable)
  PROVE  ProfInv'
<1>1. user[u].pc = "unset" /\ UNCHANGED json /\ Ends(u)
  BY DEF DeleteSecrets
<1>2. ProfTypes /\ Listed /\ (Readable => user[u].name \notin DOMAIN json)
  BY <1>1 DEF ProfInv, SaveKeeps
<1>3. /\ keyring' \in [Names -> [Kinds -> {""} \cup Secrets]]
      /\ \A n \in Names : n # user[u].name => keyring'[n] = keyring[n]
  BY <1>2 DEF DeleteSecrets, ProfTypes, NoSecrets
<1>4. ProfTypes' /\ EditShape' /\ SaveKeeps'
  BY <1>1, <1>2, <1>3, UserEnds
<1>5. ASSUME Readable
      PROVE  \A n \in DOMAIN json : json[n].given => keyring'[n][json[n].kind] # ""
  <2>1. DOMAIN json \subseteq Names
    BY <1>2, <1>5, ListingRead, ListingFacts
  <2> QED  BY <2>1, <1>2, <1>3, <1>5 DEF Listed, Kept
<1>6. Listed'
  BY <1>1, <1>5 DEF Listed, Kept, Readable
<1> QED  BY <1>4, <1>6 DEF ProfInv

LEMMA ProfHandEdit ==
  ASSUME OneUser, ProfInv, HandEdit
  PROVE  ProfInv'
<1>1. json' \in {Corrupt, Empty} /\ UNCHANGED <<keyring, user>>
  BY DEF HandEdit
<1>2. Empty \in Listings
  <2>1. Empty \in [{} -> Configs]
    BY DEF Empty
  <2> QED  BY <2>1 DEF Listings
<1>3. Readable' => DOMAIN json' = {}
  BY <1>1 DEF Readable, Empty
<1>4. ProfTypes'
  BY <1>1, <1>2 DEF ProfInv, ProfTypes
<1>5. EditShape'
  BY <1>1 DEF ProfInv, EditShape
<1>6. SaveKeeps'
  BY <1>1, <1>3 DEF ProfInv, SaveKeeps, Kept
<1>7. Listed'
  BY <1>3 DEF Listed, Kept
<1> QED  BY <1>4, <1>5, <1>6, <1>7 DEF ProfInv

LEMMA ProfStart ==
  ASSUME ProfInit
  PROVE  ProfInv
<1>1. Empty \in Listings
  <2>1. Empty \in [{} -> Configs]
    BY DEF Empty
  <2> QED  BY <2>1 DEF Listings
<1>2. ProfTypes
  BY <1>1 DEF ProfInit, ProfTypes, NoSecrets
<1>3. EditShape /\ SaveKeeps
  BY DEF ProfInit, EditShape, SaveKeeps, IdleUser
<1>4. Listed
  BY DEF ProfInit, Listed, Kept, Empty
<1> QED  BY <1>2, <1>3, <1>4 DEF ProfInv

LEMMA ProfStep ==
  ASSUME OneUser, ProfInv, ProfNext \/ UNCHANGED profVars
  PROVE  ProfInv'
<1>1. CASE UNCHANGED profVars
  BY <1>1 DEF profVars, ProfInv, ProfTypes, EditShape, SaveKeeps, Listed, Kept, Readable
<1>2. CASE HandEdit
  BY <1>2, ProfHandEdit
<1>3. ASSUME NEW u \in Users, NEW n \in Names, NEW f \in Fields, Starts(u, "add", n, f)
      PROVE  ProfInv'
  BY <1>3, ProfStarts
<1>4. ASSUME NEW u \in Users, NEW n \in Names, Starts(u, "delete", n, <<>>)
      PROVE  ProfInv'
  BY <1>4, ProfStarts
<1>5. ASSUME NEW u \in Users, \E force, there \in BOOLEAN : AddChecks(u, force, there)
      PROVE  ProfInv'
  BY <1>5, ProfAddChecks
<1>6. ASSUME NEW u \in Users, SaveReads(u) \/ DeleteReads(u) \/ DeleteWrites(u)
      PROVE  ProfInv'
  BY <1>6, ProfSaveReads, ProfDeleteReads, ProfDeleteWrites
<1>7. ASSUME NEW u \in Users, UserCrashes(u)
      PROVE  ProfInv'
  <2>1. Ends(u) /\ UNCHANGED <<json, keyring>> /\ ProfTypes /\ Listed
    BY <1>7 DEF UserCrashes, ProfInv
  <2>2. ProfTypes' /\ EditShape' /\ SaveKeeps'
    BY <2>1, UserEnds DEF ProfTypes
  <2>3. Listed'
    BY <2>1 DEF Listed, Kept, Readable
  <2> QED  BY <2>2, <2>3 DEF ProfInv
<1>8. ASSUME NEW u \in Users, NEW ok \in BOOLEAN, SetSecrets(u, ok) \/ WriteProfiles(u, ok) \/ DeleteSecrets(u, ok)
      PROVE  ProfInv'
  BY <1>8, ProfSetSecrets, ProfWriteProfiles, ProfDeleteSecrets
<1> QED  BY <1>1, <1>2, <1>3, <1>4, <1>5, <1>6, <1>7, <1>8 DEF ProfNext

LEMMA ProfProperty ==
  ASSUME ProfInv
  PROVE  ListedHasSecrets
BY DEF ProfInv, Listed, Kept, ListedHasSecrets, SecretOf, SecretField

-----------------------------------------------------------------------------
(* SaasStreams.  StreamsInv: while lookups are served, every stream a call reads is cached under its
   key, and the marks of a key count its calls, so a victim of the eviction has no reader. *)

(* Positions taken in their order. *)

\* Some element is the least.
LEMMA LeastNat ==
  ASSUME NEW S \in SUBSET Nat, S # {}
  PROVE  \E x \in S : \A y \in S : x <= y
<1> DEFINE R == {ss \in Nat \X Nat : ss[1] < ss[2]}
<1>1. IsWellFoundedOn(R, Nat)
  BY NatLessThanWellFounded DEF OpToRel
<1>2. \A y \in Nat, x \in Nat : y < x => <<y, x>> \in R
  OBVIOUS
<1> HIDE DEF R
<1>3. PICK x \in S : \A y \in S : ~ (<<y, x>> \in R)
  BY <1>1, WFMin, Zenon
<1>4. ASSUME NEW y \in S
      PROVE  x <= y
  <2>1. x \in Nat /\ y \in Nat
    OBVIOUS
  <2>2. ~ (y < x)
    BY <1>2, <1>3, <2>1, Zenon
  <2> QED  BY <2>1, <2>2
<1> QED  BY <1>4

\* A finite set of numbers has a greatest.
LEMMA GreatestOf ==
  ASSUME NEW L \in Nat, NEW S \in SUBSET (1..L), S # {}
  PROVE  \E m \in S : \A x \in S : x <= m
<1> DEFINE U == {u \in Nat : \A x \in S : x <= u}
<1>1. U \in SUBSET Nat /\ L \in U
  OBVIOUS
<1>2. PICK u \in U : \A y \in U : u <= y
  BY <1>1, LeastNat
<1>3. u \in Nat /\ \A x \in S : x <= u
  BY <1>1, <1>2
<1>4. ASSUME u \notin S
      PROVE  FALSE
  <2>1. \A x \in S : x \in Nat /\ x < u /\ 1 <= x
    BY <1>3, <1>4
  <2>2. u # 0
    <3>1. PICK x \in S : TRUE
      OBVIOUS
    <3>2. x \in Nat /\ x < u
      BY <2>1, <3>1
    <3> QED  BY <1>3, <3>2
  <2>3. u - 1 \in Nat /\ \A x \in S : x <= u - 1
    BY <1>3, <2>1, <2>2
  <2>4. u - 1 \in U
    BY <2>3
  <2> QED  BY <1>2, <1>3, <2>4
<1> QED  BY <1>3, <1>4

Enumerates(f, S) ==
    /\ \A p \in S : \E n \in DOMAIN f : f[n] = p
    /\ \A m, n \in DOMAIN f : m < n => f[m] < f[n]

\* The positions of a set can be taken in their order: AtPositions chooses a function that exists.
LEMMA AscendingExists ==
  ASSUME NEW L \in Nat, NEW S \in SUBSET (1..L)
  PROVE  IsFiniteSet(S) /\ Cardinality(S) \in Nat /\ \E f \in [1..Cardinality(S) -> S] : Enumerates(f, S)
<1>1. ASSUME NEW X \in SUBSET (1..L)
      PROVE  IsFiniteSet(X) /\ Cardinality(X) \in Nat
  <2>1. IsFiniteSet(1..L)
    BY FS_Interval
  <2>2. IsFiniteSet(X)
    BY <2>1, FS_Subset
  <2> QED  BY <2>2, FS_CardinalityType
<1> DEFINE Bad == {X \in SUBSET (1..L) : ~ \E f \in [1..Cardinality(X) -> X] : Enumerates(f, X)}
           Sizes == {Cardinality(X) : X \in Bad}
<1>2. Sizes \in SUBSET Nat
  BY <1>1
<1>3. ASSUME Bad # {}
      PROVE  FALSE
  <2>1. Sizes # {}
    BY <1>3
  <2>2. PICK c \in Sizes : \A d \in Sizes : c <= d
    BY <1>2, <2>1, LeastNat
  <2>3. PICK X \in Bad : Cardinality(X) = c
    BY <2>2
  <2>4. X \in SUBSET (1..L) /\ IsFiniteSet(X) /\ Cardinality(X) \in Nat
    BY <1>1
  <2>5. X # {}
    <3>1. ASSUME X = {}
          PROVE  FALSE
      <4>1. Cardinality(X) = 0
        BY <3>1, FS_EmptySet
      <4>2. [n \in 1..0 |-> n] \in [1..Cardinality(X) -> X] /\ Enumerates([n \in 1..0 |-> n], X)
        BY <3>1, <4>1 DEF Enumerates
      <4> QED  BY <4>2
    <3> QED  BY <3>1
  <2>6. PICK m \in X : \A x \in X : x <= m
    BY <2>4, <2>5, GreatestOf
  <2> DEFINE Y == X \ {m}
  <2>7. Y \in SUBSET (1..L) /\ Cardinality(Y) = Cardinality(X) - 1 /\ Cardinality(Y) \in Nat /\ Cardinality(X) # 0
    BY <2>4, <2>5, <2>6, <1>1, FS_RemoveElement, FS_EmptySet
  <2>8. Y \notin Bad
    <3>1. ASSUME Y \in Bad
          PROVE  FALSE
      <4>1. Cardinality(Y) \in Sizes
        BY <3>1
      <4>2. c <= Cardinality(Y)
        BY <2>2, <4>1
      <4> QED  BY <4>2, <2>3, <2>4, <2>7
    <3> QED  BY <3>1
  <2>9. PICK f \in [1..Cardinality(Y) -> Y] : Enumerates(f, Y)
    BY <2>7, <2>8
  <2> DEFINE k == Cardinality(Y)
             g == [n \in 1..k + 1 |-> IF n = k + 1 THEN m ELSE f[n]]
  <2> HIDE DEF k, Y
  <2>10. k \in Nat /\ k + 1 = Cardinality(X) /\ f \in [1..k -> Y]
    BY <2>4, <2>7, <2>9 DEF k
  <2>11. \A n \in 1..k + 1 : n = k + 1 \/ n \in 1..k
    BY <2>10
  <2>12. \A n \in 1..k : f[n] \in X /\ f[n] # m /\ f[n] < m
    <3>1. \A n \in 1..k : f[n] \in Y
      BY <2>10
    <3>2. \A y \in Y : y \in X /\ y # m /\ y <= m /\ y \in Nat /\ m \in Nat
      BY <2>4, <2>6 DEF Y
    <3> QED  BY <3>1, <3>2
  <2>13. g \in [1..Cardinality(X) -> X]
    BY <2>10, <2>11, <2>12
  <2>14. \A p \in X : \E n \in 1..k + 1 : g[n] = p
    <3>1. ASSUME NEW p \in X
          PROVE  \E n \in 1..k + 1 : g[n] = p
      <4>1. CASE p = m
        <5>1. k + 1 \in 1..k + 1 /\ g[k + 1] = m
          BY <2>10
        <5> QED  BY <4>1, <5>1
      <4>2. CASE p # m
        <5>1. p \in Y
          BY <4>2 DEF Y
        <5>2. PICK n \in 1..k : f[n] = p
          BY <2>9, <2>10, <5>1 DEF Enumerates, k
        <5>3. n \in 1..k + 1 /\ n # k + 1
          BY <2>10
        <5>4. g[n] = p
          BY <5>2, <5>3
        <5> QED  BY <5>3, <5>4
      <4> QED  BY <4>1, <4>2
    <3> QED  BY <3>1
  <2>15. \A a, b \in 1..k + 1 : a < b => g[a] < g[b]
    <3>1. ASSUME NEW a \in 1..k + 1, NEW b \in 1..k + 1, a < b
          PROVE  g[a] < g[b]
      <4>1. a \in 1..k /\ a # k + 1 /\ g[a] = f[a]
        BY <2>10, <3>1
      <4>2. CASE b = k + 1
        BY <4>1, <4>2, <2>12
      <4>3. CASE b # k + 1
        <5>1. b \in 1..k /\ g[b] = f[b]
          BY <4>3, <2>11
        <5>2. \A x, y \in 1..k : x < y => f[x] < f[y]
          BY <2>9, <2>10 DEF Enumerates, k
        <5> QED  BY <3>1, <4>1, <5>1, <5>2
      <4> QED  BY <4>2, <4>3
    <3> QED  BY <3>1
  <2>16. DOMAIN g = 1..k + 1
    OBVIOUS
  <2>17. Enumerates(g, X)
    <3> HIDE DEF g
    <3> QED  BY <2>14, <2>15, <2>16 DEF Enumerates
  <2> HIDE DEF g
  <2> QED  BY <2>3, <2>13, <2>17
<1> QED  BY <1>1, <1>3

\* What AtPositions takes: the entries at those positions, each once.
LEMMA AtPositionsTakes ==
  ASSUME NEW X, NEW s \in Seq(X), NEW S \in SUBSET DOMAIN s
  PROVE  /\ AtPositions(s, S) \in Seq(X)
         /\ \E f \in [DOMAIN AtPositions(s, S) -> S] :
               /\ \A n \in DOMAIN AtPositions(s, S) : AtPositions(s, S)[n] = s[f[n]]
               /\ \A p \in S : \E n \in DOMAIN AtPositions(s, S) : f[n] = p
               /\ \A m, n \in DOMAIN AtPositions(s, S) : f[m] = f[n] => m = n
<1> DEFINE c == Cardinality(S)
           f == CHOOSE f \in [1..c -> S] : Enumerates(f, S)
<1>1. DOMAIN s = 1..Len(s) /\ Len(s) \in Nat
  OBVIOUS
<1>2. c \in Nat /\ \E g \in [1..c -> S] : Enumerates(g, S)
  BY <1>1, AscendingExists
<1>3. f \in [1..c -> S] /\ Enumerates(f, S)
  BY <1>2
<1>4. AtPositions(s, S) = [n \in 1..c |-> s[f[n]]]
  BY DEF AtPositions, Enumerates
<1> HIDE DEF f, c
<1>5. \A n \in 1..c : f[n] \in S /\ s[f[n]] \in X
  BY <1>1, <1>3
<1>6. [n \in 1..c |-> s[f[n]]] \in [1..c -> X]
  BY <1>5
<1>7. AtPositions(s, S) \in Seq(X) /\ DOMAIN AtPositions(s, S) = 1..c
  BY <1>2, <1>4, <1>6
<1>8. \A m, n \in 1..c : f[m] = f[n] => m = n
  <2>1. ASSUME NEW m \in 1..c, NEW n \in 1..c, f[m] = f[n], m # n
        PROVE  FALSE
    <3>1. m < n \/ n < m
      BY <1>2, <2>1
    <3>2. f[m] < f[n] \/ f[n] < f[m]
      BY <1>3, <3>1 DEF Enumerates
    <3>3. f[m] \in Nat
      BY <1>1, <1>5
    <3> QED  BY <2>1, <3>2, <3>3
  <2> QED  BY <2>1
<1>9. \A p \in S : \E n \in 1..c : f[n] = p
  BY <1>3 DEF Enumerates
<1>10. \A n \in 1..c : AtPositions(s, S)[n] = s[f[n]]
  BY <1>4
<1>11. f \in [DOMAIN AtPositions(s, S) -> S]
  BY <1>3, <1>7
<1>12. /\ \A n \in DOMAIN AtPositions(s, S) : AtPositions(s, S)[n] = s[f[n]]
       /\ \A p \in S : \E n \in DOMAIN AtPositions(s, S) : f[n] = p
       /\ \A m, n \in DOMAIN AtPositions(s, S) : f[m] = f[n] => m = n
  BY <1>7, <1>8, <1>9, <1>10
<1> QED  BY <1>7, <1>11, <1>12

Entries == StreamKeys \X StreamIds
OneStreamEach(s) == \A p, q \in DOMAIN s : s[p][2] = s[q][2] => p = q

\* What an eviction keeps and what it puts out are the entries, apart; only entries not in use go out.
Evicted(s, used, kept, out) ==
    /\ kept \in Seq(Entries) /\ out \in Seq(StreamIds)
    /\ OneStreamEach(kept)
    /\ \A n \in DOMAIN kept : \E p \in DOMAIN s : kept[n] = s[p]
    /\ \A n \in DOMAIN out : \E p \in DOMAIN s : out[n] = s[p][2] /\ used[s[p][1]] = 0
    /\ \A p \in DOMAIN s : \/ \E n \in DOMAIN kept : kept[n] = s[p]
                           \/ used[s[p][1]] = 0 /\ \E n \in DOMAIN out : out[n] = s[p][2]
    /\ \A m \in DOMAIN kept, n \in DOMAIN out : kept[m][2] # out[n]

LEMMA EvictTakes ==
  ASSUME NEW s \in Seq(Entries), NEW used, OneStreamEach(s)
  PROVE  Evicted(s, used, Evict(s, used).kept, Evict(s, used).out)
<1> DEFINE victims == {i \in DOMAIN s : used[s[i][1]] = 0}
           gone == {i \in victims : Cardinality({j \in victims : j < i}) < Len(s) - MaxStreams}
           stay == DOMAIN s \ gone
           closed == AtPositions(s, gone)
           kept == AtPositions(s, stay)
           out == [n \in DOMAIN closed |-> closed[n][2]]
<1>1. Evict(s, used).kept = kept /\ Evict(s, used).out = out
  BY DEF Evict
<1>2. gone \in SUBSET DOMAIN s /\ stay \in SUBSET DOMAIN s /\ (\A p \in gone : used[s[p][1]] = 0)
      /\ (\A p \in DOMAIN s : p \in gone \/ p \in stay) /\ gone \cap stay = {}
  OBVIOUS
<1> HIDE DEF gone, stay
<1>3. /\ closed \in Seq(Entries)
      /\ \E f \in [DOMAIN closed -> gone] :
            /\ \A n \in DOMAIN closed : closed[n] = s[f[n]]
            /\ \A p \in gone : \E n \in DOMAIN closed : f[n] = p
  BY <1>2, AtPositionsTakes
<1>4. PICK f \in [DOMAIN closed -> gone] :
            /\ \A n \in DOMAIN closed : closed[n] = s[f[n]]
            /\ \A p \in gone : \E n \in DOMAIN closed : f[n] = p
  BY <1>3
<1>5. /\ kept \in Seq(Entries)
      /\ \E g \in [DOMAIN kept -> stay] :
            /\ \A n \in DOMAIN kept : kept[n] = s[g[n]]
            /\ \A p \in stay : \E n \in DOMAIN kept : g[n] = p
            /\ \A m, n \in DOMAIN kept : g[m] = g[n] => m = n
  BY <1>2, AtPositionsTakes
<1>6. PICK g \in [DOMAIN kept -> stay] :
            /\ \A n \in DOMAIN kept : kept[n] = s[g[n]]
            /\ \A p \in stay : \E n \in DOMAIN kept : g[n] = p
            /\ \A m, n \in DOMAIN kept : g[m] = g[n] => m = n
  BY <1>5
<1> HIDE DEF closed, kept
<1>7. \A n \in DOMAIN closed : closed[n] \in Entries
  BY <1>3
<1>8. out \in Seq(StreamIds) /\ DOMAIN out = DOMAIN closed /\ \A n \in DOMAIN closed : out[n] = closed[n][2]
  <2>1. DOMAIN closed = 1..Len(closed) /\ Len(closed) \in Nat
    BY <1>3
  <2>2. \A n \in DOMAIN closed : closed[n][2] \in StreamIds
    BY <1>7 DEF Entries
  <2>3. out \in [1..Len(closed) -> StreamIds]
    BY <2>1, <2>2
  <2> QED  BY <2>1, <2>3
<1> HIDE DEF out
<1>9. \A n \in DOMAIN kept : g[n] \in DOMAIN s /\ g[n] \in stay /\ kept[n] = s[g[n]]
  BY <1>2, <1>6
<1>10. \A n \in DOMAIN out : f[n] \in DOMAIN s /\ f[n] \in gone /\ out[n] = s[f[n]][2] /\ used[s[f[n]][1]] = 0
  BY <1>2, <1>4, <1>8
<1>11. OneStreamEach(kept)
  <2>1. ASSUME NEW m \in DOMAIN kept, NEW n \in DOMAIN kept, kept[m][2] = kept[n][2]
        PROVE  m = n
    <3>1. s[g[m]][2] = s[g[n]][2] /\ g[m] \in DOMAIN s /\ g[n] \in DOMAIN s
      BY <2>1, <1>9
    <3>2. g[m] = g[n]
      BY <3>1 DEF OneStreamEach
    <3> QED  BY <1>6, <3>2
  <2> QED  BY <2>1 DEF OneStreamEach
<1>12. \A m \in DOMAIN kept, n \in DOMAIN out : kept[m][2] # out[n]
  <2>1. ASSUME NEW m \in DOMAIN kept, NEW n \in DOMAIN out, kept[m][2] = out[n]
        PROVE  FALSE
    <3>1. s[g[m]][2] = s[f[n]][2] /\ g[m] \in DOMAIN s /\ f[n] \in DOMAIN s
      BY <2>1, <1>9, <1>10
    <3>2. g[m] = f[n]
      BY <3>1 DEF OneStreamEach
    <3>3. g[m] \in stay /\ f[n] \in gone
      BY <1>9, <1>10
    <3> QED  BY <1>2, <3>2, <3>3
  <2> QED  BY <2>1
<1>13. \A p \in DOMAIN s : \/ \E n \in DOMAIN kept : kept[n] = s[p]
                           \/ used[s[p][1]] = 0 /\ \E n \in DOMAIN out : out[n] = s[p][2]
  <2>1. ASSUME NEW p \in stay
        PROVE  \E n \in DOMAIN kept : kept[n] = s[p]
    BY <1>6
  <2>2. ASSUME NEW p \in gone
        PROVE  used[s[p][1]] = 0 /\ \E n \in DOMAIN out : out[n] = s[p][2]
    BY <1>2, <1>4, <1>8
  <2> QED  BY <1>2, <2>1, <2>2
<1>14. \A n \in DOMAIN kept : \E p \in DOMAIN s : kept[n] = s[p]
  BY <1>9
<1>15. \A n \in DOMAIN out : \E p \in DOMAIN s : out[n] = s[p][2] /\ used[s[p][1]] = 0
  BY <1>10
<1>16. Evicted(s, used, kept, out)
  BY <1>5, <1>8, <1>11, <1>12, <1>13, <1>14, <1>15 DEF Evicted
<1> QED  BY <1>1, <1>16

\* move_to_end keeps the entries.
LEMMA MovedToEnd ==
  ASSUME NEW s \in Seq(Entries), NEW h \in DOMAIN s, OneStreamEach(s)
  PROVE  /\ Append(RemoveAt(s, h), s[h]) \in Seq(Entries)
         /\ OneStreamEach(Append(RemoveAt(s, h), s[h]))
         /\ \A p \in DOMAIN s : \E n \in DOMAIN Append(RemoveAt(s, h), s[h]) : Append(RemoveAt(s, h), s[h])[n] = s[p]
         /\ \A n \in DOMAIN Append(RemoveAt(s, h), s[h]) : \E p \in DOMAIN s : Append(RemoveAt(s, h), s[h])[n] = s[p]
<1> DEFINE L == Len(s)
           t == Append(RemoveAt(s, h), s[h])
           from(n) == IF n < h THEN n ELSE IF n < L THEN n + 1 ELSE h
           to(p) == IF p < h THEN p ELSE IF p = h THEN L ELSE p - 1
<1>1. L \in Nat /\ h \in Nat /\ 1 <= h /\ h <= L /\ DOMAIN s = 1..L /\ \A n \in 1..L : s[n] \in Entries
  OBVIOUS
<1>2. SubSeq(s, 1, h - 1) \in Seq(Entries) /\ Len(SubSeq(s, 1, h - 1)) = h - 1
      /\ \A n \in 1..h - 1 : SubSeq(s, 1, h - 1)[n] = s[n]
  BY <1>1
<1>3. SubSeq(s, h + 1, L) \in Seq(Entries) /\ Len(SubSeq(s, h + 1, L)) = L - h
      /\ \A n \in 1..L - h : SubSeq(s, h + 1, L)[n] = s[h + n]
  BY <1>1
<1>4. RemoveAt(s, h) = SubSeq(s, 1, h - 1) \o SubSeq(s, h + 1, L)
  BY DEF RemoveAt
<1> DEFINE a == SubSeq(s, 1, h - 1)
           b == SubSeq(s, h + 1, L)
<1>5. RemoveAt(s, h) \in Seq(Entries) /\ Len(RemoveAt(s, h)) = L - 1
      /\ \A n \in 1..L - 1 : RemoveAt(s, h)[n] = IF n < h THEN s[n] ELSE s[n + 1]
  <2>1. /\ a \in Seq(Entries) /\ Len(a) = h - 1 /\ (\A n \in 1..h - 1 : a[n] = s[n])
        /\ b \in Seq(Entries) /\ Len(b) = L - h /\ (\A n \in 1..L - h : b[n] = s[h + n])
        /\ RemoveAt(s, h) = a \o b
    BY <1>2, <1>3, <1>4
  <2> HIDE DEF a, b, L
  <2>2. a \o b \in Seq(Entries) /\ Len(a \o b) = Len(a) + Len(b)
        /\ \A n \in 1..Len(a) + Len(b) : (a \o b)[n] = IF n <= Len(a) THEN a[n] ELSE b[n - Len(a)]
    BY <2>1, ConcatProperties
  <2>3. Len(a) + Len(b) = L - 1
    BY <1>1, <2>1
  <2>4. ASSUME NEW n \in 1..L - 1
        PROVE  (a \o b)[n] = IF n < h THEN s[n] ELSE s[n + 1]
    <3>1. n \in 1..Len(a) + Len(b) /\ n \in Nat
      BY <1>1, <2>3
    <3>2. CASE n < h
      <4>1. n <= Len(a) /\ n \in 1..h - 1
        BY <1>1, <2>1, <3>1, <3>2
      <4> QED  BY <2>1, <2>2, <3>1, <3>2, <4>1
    <3>3. CASE ~ (n < h)
      <4>0. Len(a) = h - 1 /\ h \in Nat /\ 1 <= h /\ L \in Nat /\ n \in Nat /\ n <= L - 1 /\ h <= n
        BY <1>1, <2>1, <3>1, <3>3
      <4>1. ~ (n <= Len(a)) /\ n - Len(a) \in 1..L - h /\ h + (n - Len(a)) = n + 1
        BY <4>0
      <4>2. b[n - Len(a)] = s[n + 1]
        BY <2>1, <4>1
      <4> QED  BY <2>2, <3>1, <3>3, <4>1, <4>2
    <3> QED  BY <3>2, <3>3
  <2> QED  BY <2>1, <2>2, <2>3, <2>4
<1> HIDE DEF L
<1>6. t \in Seq(Entries) /\ Len(t) = L /\ DOMAIN t = 1..L
      /\ \A n \in 1..L : t[n] = IF n < L THEN RemoveAt(s, h)[n] ELSE s[h]
  <2>1. s[h] \in Entries
    BY <1>1
  <2> HIDE DEF a, b
  <2>2. t \in Seq(Entries) /\ Len(t) = L - 1 + 1 /\ (\A n \in 1..L - 1 : t[n] = RemoveAt(s, h)[n]) /\ t[L - 1 + 1] = s[h]
    BY <1>1, <1>5, <2>1, AppendProperties
  <2>3. L - 1 + 1 = L /\ \A n \in 1..L : IF n < L THEN n \in 1..L - 1 ELSE n = L
    BY <1>1
  <2>4. DOMAIN t = 1..Len(t)
    BY <2>2
  <2> HIDE DEF t
  <2> QED  BY <2>2, <2>3, <2>4
<1>7. \A n \in 1..L : from(n) \in 1..L /\ t[n] = s[from(n)]
  <2>1. ASSUME NEW n \in 1..L
        PROVE  from(n) \in 1..L /\ t[n] = s[from(n)]
    <3>1. n \in Nat /\ 1 <= n /\ n <= L /\ (n < L => n \in 1..L - 1)
      BY <1>1
    <3> HIDE DEF t
    <3>2. CASE n < h
      <4>1. n < L
        BY <1>1, <3>1, <3>2
      <4> QED  BY <1>5, <1>6, <3>1, <3>2, <4>1
    <3>3. CASE ~ (n < h) /\ n < L
      <4>1. n + 1 \in 1..L
        BY <1>1, <3>1, <3>3
      <4> QED  BY <1>5, <1>6, <3>1, <3>3, <4>1
    <3>4. CASE ~ (n < h) /\ ~ (n < L)
      BY <1>1, <1>6, <3>4
    <3> QED  BY <3>2, <3>3, <3>4
  <2> QED  BY <2>1
<1> HIDE DEF t
<1>8. \A p \in 1..L : to(p) \in 1..L /\ from(to(p)) = p
  BY <1>1
<1>9. \A m, n \in 1..L : from(m) = from(n) => m = n
  <2>1. ASSUME NEW m \in 1..L, NEW n \in 1..L, from(m) = from(n)
        PROVE  m = n
    <3>1. m \in Nat /\ n \in Nat /\ m <= L /\ n <= L
      BY <1>1
    <3>2. CASE m < h
      BY <1>1, <2>1, <3>1, <3>2
    <3>3. CASE ~ (m < h) /\ m < L
      <4>1. from(m) = m + 1 /\ m + 1 > h /\ m + 1 \in Nat
        BY <1>1, <3>1, <3>3
      <4>2. CASE n < h
        BY <1>1, <2>1, <3>1, <4>1, <4>2
      <4>3. CASE ~ (n < h) /\ n < L
        <5>1. from(n) = n + 1
          BY <4>3
        <5>2. m + 1 = n + 1
          BY <1>1, <2>1, <3>1, <3>3, <4>3
        <5> QED  BY <3>1, <5>2
      <4>4. CASE ~ (n < h) /\ ~ (n < L)
        <5>1. from(n) = h
          BY <4>4
        <5>2. m + 1 = h
          BY <1>1, <2>1, <3>1, <3>3, <4>4
        <5> QED  BY <1>1, <3>1, <4>1, <5>2
      <4> QED  BY <4>2, <4>3, <4>4
    <3>4. CASE ~ (m < h) /\ ~ (m < L)
      BY <1>1, <2>1, <3>1, <3>4
    <3> QED  BY <3>2, <3>3, <3>4
  <2> QED  BY <2>1
<1> HIDE DEF t, from, to
<1>10. OneStreamEach(t)
  <2>1. ASSUME NEW m \in 1..L, NEW n \in 1..L, t[m][2] = t[n][2]
        PROVE  m = n
    <3>1. s[from(m)][2] = s[from(n)][2]
      BY <2>1, <1>7
    <3>2. from(m) = from(n)
      BY <3>1, <1>1, <1>7 DEF OneStreamEach
    <3> QED  BY <3>2, <1>9
  <2> QED  BY <2>1, <1>6 DEF OneStreamEach
<1>11. \A p \in DOMAIN s : \E n \in DOMAIN t : t[n] = s[p]
  <2>1. ASSUME NEW p \in 1..L
        PROVE  to(p) \in 1..L /\ t[to(p)] = s[p]
    <3>1. to(p) \in 1..L /\ from(to(p)) = p
      BY <1>8
    <3> QED  BY <3>1, <1>7
  <2> QED  BY <2>1, <1>1, <1>6
<1>12. \A n \in DOMAIN t : \E p \in DOMAIN s : t[n] = s[p]
  BY <1>1, <1>6, <1>7
<1> QED  BY <1>6, <1>10, <1>11, <1>12 DEF t

StreamTypes ==
    /\ lru \in Seq(Entries) /\ inUse \in [StreamKeys -> Nat] /\ ssClosed \in BOOLEAN
    /\ st \in [StreamIds -> {"unborn", "open", "closing", "closed"}]
    /\ source \in [StreamIds -> {"none", "opening", "open", "closed"}]
    /\ call \in [StreamReaders -> [pc : {"idle", "evict", "read", "using", "done", "error"},
                                   stream : 0..MaxBorn, evicted : Seq(StreamIds)]]
    /\ swept \subseteq StreamIds /\ sweep \in {"idle", "closing", "done"}
\* A cached stream is open, and one entry's only; a closed cache is empty.
CachedLife ==
    /\ \A p \in DOMAIN lru : st[lru[p][2]] = "open"
    /\ OneStreamEach(lru)
    /\ ssClosed => lru = <<>>
    /\ sweep = "done" => ssClosed
\* A call evicts one stream after the other; what was evicted is not cached again.
EvictedLife ==
    \A r \in StreamReaders :
        /\ call[r].evicted # <<>> <=> call[r].pc = "evict"
        /\ \A n \in DOMAIN call[r].evicted : call[r].evicted[n] \notin Cached /\ st[call[r].evicted[n]] # "unborn"
InUseBy(k) == {r \in StreamReaders : Reading(r) /\ KeyOf[r] = k}
ReaderLife ==
    \A r \in StreamReaders : Reading(r) =>
        /\ call[r].stream \in StreamIds
        /\ IF ssClosed THEN call[r].stream \in swept
           ELSE \E p \in DOMAIN lru : lru[p] = <<KeyOf[r], call[r].stream>>
MarksCount == ~ssClosed => \A k \in StreamKeys : IsFiniteSet(InUseBy(k)) /\ inUse[k] = Cardinality(InUseBy(k))
StreamLife ==
    \A i \in StreamIds :
        /\ st[i] = "closed" => source[i] \in {"none", "closed"}
        /\ st[i] = "open" => i \in Cached \/ \E r \in StreamReaders : \E n \in DOMAIN call[r].evicted : call[r].evicted[n] = i
StreamsInv == StreamTypes /\ CachedLife /\ EvictedLife /\ ReaderLife /\ MarksCount /\ StreamLife

LEMMA StreamsStart == SsInit => StreamsInv
<1> SUFFICES ASSUME SsInit PROVE StreamsInv
  OBVIOUS
<1>1. StreamTypes
  <2>1. <<>> \in Seq(Entries) /\ <<>> \in Seq(StreamIds) /\ 0 \in 0..MaxBorn
    BY StreamsAssumption
  <2>2. lru \in Seq(Entries) /\ call \in [StreamReaders -> [pc : {"idle", "evict", "read", "using", "done", "error"},
                                                       stream : 0..MaxBorn, evicted : Seq(StreamIds)]]
    BY <2>1 DEF SsInit
  <2> QED  BY <2>2 DEF SsInit, StreamTypes
<1>2. CachedLife /\ EvictedLife /\ ReaderLife /\ StreamLife
  BY DEF SsInit, CachedLife, EvictedLife, ReaderLife, StreamLife, Reading, OneStreamEach
<1>3. \A k \in StreamKeys : InUseBy(k) = {}
  BY DEF SsInit, InUseBy, Reading
<1>4. MarksCount
  BY <1>3, FS_EmptySet DEF MarksCount, SsInit
<1> QED  BY <1>1, <1>2, <1>4 DEF StreamsInv

\* The calls a step leaves alone keep their place.
LEMMA CallIs ==
  ASSUME StreamTypes, NEW r \in StreamReaders
  PROVE  /\ call[r].pc \in {"idle", "evict", "read", "using", "done", "error"}
         /\ call[r].stream \in 0..MaxBorn /\ call[r].evicted \in Seq(StreamIds)
         /\ call[r] \in [pc : {"idle", "evict", "read", "using", "done", "error"}, stream : 0..MaxBorn, evicted : Seq(StreamIds)]
         /\ KeyOf[r] \in StreamKeys
  BY StreamsAssumption DEF StreamTypes


\* A step that leaves the cache and the marks alone.
LEMMA CallStep ==
  ASSUME StreamsInv, UNCHANGED <<lru, inUse, ssClosed, st, swept, sweep>>,
         source' \in [StreamIds -> {"none", "opening", "open", "closed"}],
         \A i \in StreamIds : source'[i] = source[i] \/ st[i] = "open",
         NEW r \in StreamReaders, NEW pc, call' = [call EXCEPT ![r].pc = pc],
         pc \in {"idle", "evict", "read", "using", "done", "error"},
         Reading(r) => pc \in {"evict", "read", "using"},
         ~ Reading(r) => pc \notin {"evict", "read", "using"},
         call[r].pc # "evict", pc # "evict"
  PROVE  StreamsInv'
<1> USE DEF StreamsInv
<1>1. \A s \in StreamReaders : call'[s] = IF s = r THEN [call[r] EXCEPT !.pc = pc] ELSE call[s]
  BY DEF StreamTypes
<1>2. \A s \in StreamReaders : call'[s].stream = call[s].stream /\ call'[s].evicted = call[s].evicted
                                 /\ (Reading(s)' <=> Reading(s)) /\ (s # r => call'[s].pc = call[s].pc)
  BY <1>1, CallIs DEF Reading
<1>3. StreamTypes'
  <2>1. call' \in [StreamReaders -> [pc : {"idle", "evict", "read", "using", "done", "error"},
                                                   stream : 0..MaxBorn, evicted : Seq(StreamIds)]]
    BY DEF StreamTypes
  <2> QED  BY <2>1 DEF StreamTypes
<1>4. Cached' = Cached /\ CachedLife'
  BY DEF CachedLife, Cached
<1>5. EvictedLife'
  BY <1>2, <1>4 DEF EvictedLife
<1>6. ReaderLife'
  BY <1>2 DEF ReaderLife
<1>7. \A k \in StreamKeys : InUseBy(k)' = InUseBy(k)
  BY <1>2 DEF InUseBy
<1>8. MarksCount'
  BY <1>7 DEF MarksCount
<1>9. StreamLife'
  <2>1. \A i \in StreamIds : st[i] = "closed" => source'[i] = source[i]
    OBVIOUS
  <2> QED  BY <2>1, <1>2, <1>4 DEF StreamLife
<1> QED  BY <1>3, <1>4, <1>5, <1>6, <1>8, <1>9

LEMMA LookupRefusedKeeps ==
  ASSUME StreamsInv, NEW r \in StreamReaders, LookupRefused(r)
  PROVE  StreamsInv'
<1>1. call' = [call EXCEPT ![r].pc = "error"] /\ UNCHANGED <<lru, inUse, ssClosed, st, swept, sweep>> /\ source' = source
      /\ ~ Reading(r) /\ call[r].pc # "evict"
  BY DEF LookupRefused, Reading
<1>2. source' \in [StreamIds -> {"none", "opening", "open", "closed"}]
  BY <1>1 DEF StreamsInv, StreamTypes
<1> QED  BY <1>1, <1>2, CallStep

LEMMA ReadWorksKeeps ==
  ASSUME StreamsInv, NEW r \in StreamReaders, ReadWorks(r)
  PROVE  StreamsInv'
<1>1. call' = [call EXCEPT ![r].pc = "using"] /\ UNCHANGED <<lru, inUse, ssClosed, st, swept, sweep>> /\ source' = source
      /\ Reading(r) /\ call[r].pc # "evict"
  BY DEF ReadWorks, Reading
<1>2. source' \in [StreamIds -> {"none", "opening", "open", "closed"}]
  BY <1>1 DEF StreamsInv, StreamTypes
<1> QED  BY <1>1, <1>2, CallStep

\* A step that only opens a source of an open stream, or ends its opening.
LEMMA SourceKeeps ==
  ASSUME StreamsInv, UNCHANGED <<lru, inUse, ssClosed, st, call, swept, sweep>>, NEW i \in StreamIds, st[i] # "closed",
         NEW to \in {"none", "opening", "open", "closed"}, source' = [source EXCEPT ![i] = to]
  PROVE  StreamsInv'
<1> USE DEF StreamsInv
<1>1. \A j \in StreamIds : source'[j] = IF j = i THEN to ELSE source[j]
  BY DEF StreamTypes
<1>2. StreamTypes'
  BY DEF StreamTypes
<1>3. Cached' = Cached /\ CachedLife'
  BY DEF CachedLife, Cached
<1>4. EvictedLife' /\ ReaderLife'
  BY <1>3 DEF EvictedLife, ReaderLife, Reading
<1>5. \A k \in StreamKeys : InUseBy(k)' = InUseBy(k)
  BY DEF InUseBy, Reading
<1>6. MarksCount'
  BY <1>5 DEF MarksCount
<1>7. StreamLife'
  <2>1. \A j \in StreamIds : st[j] = "closed" => source'[j] = source[j]
    BY <1>1
  <2> QED  BY <2>1, <1>3 DEF StreamLife
<1> QED  BY <1>2, <1>3, <1>4, <1>6, <1>7

LEMMA ReadBeginsKeeps ==
  ASSUME StreamsInv, NEW r \in StreamReaders, ReadBegins(r)
  PROVE  StreamsInv'
<1>1. Reading(r)
  BY DEF ReadBegins, Reading
<1>2. call[r].stream \in StreamIds
  BY <1>1 DEF StreamsInv, ReaderLife
<1>3. UNCHANGED <<lru, inUse, ssClosed, st, call, swept, sweep>> /\ st[call[r].stream] # "closed"
      /\ source' = [source EXCEPT ![call[r].stream] = "opening"]
  BY DEF ReadBegins, OpenSource
<1> QED  BY <1>2, <1>3, SourceKeeps

LEMMA SourceOpenedKeeps ==
  ASSUME StreamsInv, NEW i \in StreamIds, SourceOpened(i)
  PROVE  StreamsInv'
<1>1. st[i] # "closed"
  BY DEF StreamsInv, StreamLife, SourceOpened
<1>2. UNCHANGED <<lru, inUse, ssClosed, st, call, swept, sweep>> /\ source' = [source EXCEPT ![i] = "open"]
  BY DEF SourceOpened
<1> QED  BY <1>1, <1>2, SourceKeeps

LEMMA StreamClosesKeeps ==
  ASSUME StreamsInv, NEW i \in StreamIds, StreamCloses(i)
  PROVE  StreamsInv'
<1> USE DEF StreamsInv
<1>1. UNCHANGED <<lru, inUse, ssClosed, call, swept, sweep>> /\ st[i] = "closing" /\ source[i] # "opening"
  BY DEF StreamCloses
<1>2. \A j \in StreamIds : /\ st'[j] = IF j = i THEN "closed" ELSE st[j]
                           /\ source'[j] = IF j = i /\ source[i] = "open" THEN "closed" ELSE source[j]
  BY DEF StreamCloses, StreamTypes
<1>3. StreamTypes'
  <2>1. st' \in [StreamIds -> {"unborn", "open", "closing", "closed"}]
    BY DEF StreamCloses, StreamTypes
  <2>2. source' \in [StreamIds -> {"none", "opening", "open", "closed"}]
    BY DEF StreamCloses, StreamTypes
  <2> QED  BY <1>1, <2>1, <2>2 DEF StreamTypes
<1>4. Cached' = Cached
  BY <1>1 DEF Cached
<1>5. \A p \in DOMAIN lru : lru[p][2] \in StreamIds
  BY DEF StreamTypes, Entries
<1>6. CachedLife'
  BY <1>1, <1>2, <1>5 DEF CachedLife, OneStreamEach
<1>7. \A r \in StreamReaders : \A n \in DOMAIN call[r].evicted : call[r].evicted[n] \in StreamIds
  BY CallIs
<1>8. EvictedLife'
  BY <1>1, <1>2, <1>4, <1>7 DEF EvictedLife
<1>9. ReaderLife'
  BY <1>1 DEF ReaderLife, Reading
<1>10. \A k \in StreamKeys : InUseBy(k)' = InUseBy(k)
  BY <1>1 DEF InUseBy, Reading
<1>11. MarksCount'
  BY <1>1, <1>10 DEF MarksCount
<1>12. StreamLife'
  <2>1. ASSUME NEW j \in StreamIds
        PROVE  /\ st'[j] = "closed" => source'[j] \in {"none", "closed"}
               /\ st'[j] = "open" => st[j] = "open"
    BY <1>1, <1>2 DEF StreamTypes, StreamLife
  <2> QED  BY <2>1, <1>1, <1>4 DEF StreamLife
<1> QED  BY <1>3, <1>6, <1>8, <1>9, <1>11, <1>12

LEMMA SweepDoneKeeps ==
  ASSUME StreamsInv, SweepDone
  PROVE  StreamsInv'
<1> USE DEF StreamsInv
<1>1. UNCHANGED <<lru, inUse, ssClosed, st, source, call, swept>> /\ sweep' = IF ssClosed THEN "done" ELSE "idle"
  BY DEF SweepDone
<1>2. StreamTypes'
  BY <1>1 DEF StreamTypes
<1>3. Cached' = Cached /\ CachedLife'
  BY <1>1 DEF CachedLife, Cached
<1>4. EvictedLife' /\ ReaderLife'
  BY <1>1, <1>3 DEF EvictedLife, ReaderLife, Reading
<1>5. \A k \in StreamKeys : InUseBy(k)' = InUseBy(k)
  BY <1>1 DEF InUseBy, Reading
<1>6. MarksCount'
  BY <1>1, <1>5 DEF MarksCount
<1>7. StreamLife'
  BY <1>1, <1>3 DEF StreamLife
<1> QED  BY <1>2, <1>3, <1>4, <1>6, <1>7

\* The sweep takes every cached stream; a call it overtakes reads a swept one.
LEMMA SweepStreamsKeeps ==
  ASSUME StreamsInv, ~Overlap, NEW shut \in BOOLEAN, SweepStreams(shut)
  PROVE  StreamsInv'
<1> USE DEF StreamsInv
<1>1. /\ lru' = <<>> /\ swept' = swept \cup Cached /\ sweep' = "closing" /\ source' = source /\ call' = call
      /\ ssClosed' = (ssClosed \/ shut) /\ inUse' = [k \in StreamKeys |-> 0]
      /\ (\A r \in StreamReaders : ~ Reading(r)) \/ shut
  BY DEF SweepStreams
<1>2. \A i \in StreamIds : st'[i] = IF i \in Cached THEN "closing" ELSE st[i]
  BY DEF SweepStreams
<1>3. Cached \subseteq StreamIds
  BY DEF Cached, StreamTypes, Entries
<1>4. StreamTypes'
  <2>1. st' \in [StreamIds -> {"unborn", "open", "closing", "closed"}]
    BY DEF SweepStreams, StreamTypes
  <2>2. lru' \in Seq(Entries)
    BY <1>1
  <2>3. ssClosed' \in BOOLEAN
    BY <1>1 DEF StreamTypes
  <2>4. swept' \subseteq StreamIds
    BY <1>1, <1>3 DEF StreamTypes
  <2> QED  BY <1>1, <2>1, <2>2, <2>3, <2>4 DEF StreamTypes
<1>5. Cached' = {}
  BY <1>1 DEF Cached
<1>6. CachedLife'
  BY <1>1 DEF CachedLife, OneStreamEach
<1>7. EvictedLife'
  <2>1. \A r \in StreamReaders : \A n \in DOMAIN call[r].evicted : call[r].evicted[n] \in StreamIds
    BY CallIs
  <2> QED  BY <1>1, <1>2, <1>5, <2>1 DEF EvictedLife
<1>8. ReaderLife'
  <2>1. ASSUME NEW r \in StreamReaders, Reading(r)
        PROVE  /\ call[r].stream \in StreamIds /\ shut
               /\ call[r].stream \in swept'
    <3>1. call[r].stream \in StreamIds /\ shut
      BY <1>1, <2>1 DEF ReaderLife
    <3>2. CASE ssClosed
      BY <1>1, <2>1, <3>2 DEF ReaderLife
    <3>3. CASE ~ ssClosed
      <4>1. PICK p \in DOMAIN lru : lru[p] = <<KeyOf[r], call[r].stream>>
        BY <2>1, <3>3 DEF ReaderLife
      <4>2. lru[p][2] = call[r].stream
        BY <4>1
      <4> QED  BY <1>1, <3>1, <4>2 DEF Cached
    <3> QED  BY <3>1, <3>2, <3>3
  <2> QED  BY <1>1, <2>1 DEF ReaderLife, Reading
<1>9. MarksCount'
  <2>1. ASSUME ~ ssClosed', NEW k \in StreamKeys
        PROVE  IsFiniteSet(InUseBy(k)') /\ inUse'[k] = Cardinality(InUseBy(k)')
    <3>1. InUseBy(k)' = {}
      BY <1>1, <2>1 DEF InUseBy, Reading
    <3> QED  BY <1>1, <3>1, FS_EmptySet
  <2> QED  BY <2>1 DEF MarksCount
<1>10. StreamLife'
  <2>1. ASSUME NEW i \in StreamIds
        PROVE  /\ st'[i] = "closed" => st[i] = "closed"
               /\ st'[i] = "open" => st[i] = "open" /\ i \notin Cached
    BY <1>2
  <2> QED  BY <1>1, <2>1 DEF StreamLife
<1> QED  BY <1>4, <1>6, <1>7, <1>8, <1>9, <1>10

\* The next evicted stream of a call is closed, or its read begins.
LEMMA EvictedClosedKeeps ==
  ASSUME StreamsInv, NEW r \in StreamReaders, EvictedClosed(r)
  PROVE  StreamsInv'
<1> USE DEF StreamsInv
<1> DEFINE ev == call[r].evicted
           rest == Tail(ev)
           to == IF rest = <<>> THEN "read" ELSE "evict"
<1>1. UNCHANGED <<lru, inUse, ssClosed, source, swept, sweep>> /\ call[r].pc = "evict" /\ st[Head(ev)] = "closed"
      /\ call' = [call EXCEPT ![r].pc = to, ![r].evicted = rest]
      /\ st' = IF rest = <<>> THEN st ELSE [st EXCEPT ![Head(rest)] = "closing"]
  BY DEF EvictedClosed
<1>2. ev \in Seq(StreamIds) /\ ev # <<>>
  BY <1>1, CallIs DEF EvictedLife
<1>3. /\ rest \in Seq(StreamIds) /\ Head(ev) = ev[1] /\ Len(rest) = Len(ev) - 1 /\ Len(ev) \in Nat
      /\ DOMAIN ev = 1..Len(ev) /\ DOMAIN rest = 1..Len(rest) /\ Len(ev) # 0
      /\ \A n \in 1..Len(rest) : rest[n] = ev[n + 1]
  BY <1>2, HeadTailProperties
<1>4. rest # <<>> => Head(rest) = rest[1] /\ 1 \in 1..Len(rest)
  <2>0. rest \in Seq(StreamIds)
    BY <1>3
  <2> HIDE DEF rest
  <2>1. rest # <<>> => Len(rest) # 0 /\ Len(rest) \in Nat
    BY <2>0
  <2> QED  BY <1>3, <2>1, HeadTailProperties
<1> HIDE DEF rest
<1>5. \A n \in DOMAIN rest : n + 1 \in DOMAIN ev /\ rest[n] = ev[n + 1] /\ rest[n] \in StreamIds
  BY <1>3
<1> HIDE DEF ev, to
<1>6. \A n \in DOMAIN ev : ev[n] \notin Cached /\ st[ev[n]] # "unborn" /\ ev[n] \in StreamIds
  BY <1>2 DEF EvictedLife, ev
<1>7. \A n \in DOMAIN rest : rest[n] \notin Cached /\ st[rest[n]] # "unborn"
  BY <1>5, <1>6
<1>8. \A i \in StreamIds : st'[i] = st[i] \/ (rest # <<>> /\ i = rest[1] /\ st'[i] = "closing")
  BY <1>1, <1>4 DEF StreamTypes
<1>9. \A i \in StreamIds : (i \in Cached => st'[i] = st[i]) /\ (st[i] # "unborn" => st'[i] # "unborn")
      /\ (st'[i] = "open" => st[i] = "open") /\ (st'[i] = "closed" => st[i] = "closed")
  <2>1. rest # <<>> => rest[1] \notin Cached
    BY <1>3, <1>4, <1>7
  <2> QED  BY <1>8, <2>1
<1>10. \A s \in StreamReaders : call'[s] = IF s = r THEN [call[r] EXCEPT !.pc = to, !.evicted = rest] ELSE call[s]
  BY <1>1 DEF StreamTypes
<1>11. call'[r].pc = to /\ call'[r].evicted = rest /\ call'[r].stream = call[r].stream /\ \A s \in StreamReaders : s # r => call'[s] = call[s]
  BY <1>10, CallIs
<1>12. to \in {"read", "evict"} /\ (to = "evict" <=> rest # <<>>)
  BY DEF to
<1>13. StreamTypes'
  <2>1. [call[r] EXCEPT !.pc = to, !.evicted = rest] \in
           [pc : {"idle", "evict", "read", "using", "done", "error"}, stream : 0..MaxBorn, evicted : Seq(StreamIds)]
    BY <1>3, <1>12, CallIs
  <2>2. call' \in [StreamReaders -> [pc : {"idle", "evict", "read", "using", "done", "error"},
                                     stream : 0..MaxBorn, evicted : Seq(StreamIds)]]
    BY <1>1, <1>10, <2>1 DEF StreamTypes
  <2>3. st' \in [StreamIds -> {"unborn", "open", "closing", "closed"}]
    BY <1>1 DEF StreamTypes
  <2> QED  BY <1>1, <2>2, <2>3 DEF StreamTypes
<1>14. Cached' = Cached
  BY <1>1 DEF Cached
<1>15. CachedLife'
  <2>1. \A p \in DOMAIN lru : lru[p][2] \in StreamIds /\ lru[p][2] \in Cached
    BY DEF StreamTypes, Entries, Cached
  <2> QED  BY <1>1, <1>9, <2>1 DEF CachedLife
<1>16. EvictedLife'
  <2>1. ASSUME NEW s \in StreamReaders
        PROVE  /\ call'[s].evicted # <<>> <=> call'[s].pc = "evict"
               /\ \A n \in DOMAIN call'[s].evicted : call'[s].evicted[n] \notin Cached' /\ st'[call'[s].evicted[n]] # "unborn"
    <3>1. CASE s = r
      BY <1>5, <1>7, <1>9, <1>11, <1>12, <1>14, <3>1
    <3>2. CASE s # r
      <4>1. \A n \in DOMAIN call[s].evicted : call[s].evicted[n] \in StreamIds
        BY CallIs
      <4> QED  BY <1>9, <1>11, <1>14, <3>2, <4>1 DEF EvictedLife
    <3> QED  BY <3>1, <3>2
  <2> QED  BY <2>1 DEF EvictedLife
<1>17. \A s \in StreamReaders : (Reading(s)' <=> Reading(s)) /\ call'[s].stream = call[s].stream
  BY <1>1, <1>11, <1>12 DEF Reading
<1>18. ReaderLife'
  <2>1. lru' = lru /\ ssClosed' = ssClosed /\ swept' = swept
    BY <1>1
  <2> QED  BY <1>17, <2>1 DEF ReaderLife
<1>19. \A k \in StreamKeys : InUseBy(k)' = InUseBy(k)
  BY <1>17 DEF InUseBy
<1>20. MarksCount'
  BY <1>1, <1>19 DEF MarksCount
<1>21. StreamLife'
  <2>1. ASSUME NEW i \in StreamIds, st'[i] = "open", i \notin Cached
        PROVE  \E s \in StreamReaders : \E n \in DOMAIN call'[s].evicted : call'[s].evicted[n] = i
    <3>1. st[i] = "open"
      BY <1>9, <2>1
    <3>2. PICK s \in StreamReaders : \E n \in DOMAIN call[s].evicted : call[s].evicted[n] = i
      BY <2>1, <3>1 DEF StreamLife
    <3>3. CASE s = r
      <4>1. PICK n \in DOMAIN ev : ev[n] = i
        BY <3>2, <3>3 DEF ev
      <4>2. n # 1
        BY <1>1, <1>3, <3>1, <4>1
      <4>3. n - 1 \in DOMAIN rest /\ n - 1 + 1 = n
        BY <1>3, <4>1, <4>2
      <4>4. rest[n - 1] = i
        BY <1>5, <4>1, <4>3
      <4> QED  BY <1>11, <4>3, <4>4
    <3>4. CASE s # r
      BY <1>11, <3>2, <3>4
    <3> QED  BY <3>3, <3>4
  <2>2. \A i \in StreamIds : st'[i] = "closed" => source'[i] \in {"none", "closed"}
    BY <1>1, <1>9 DEF StreamLife
  <2> QED  BY <1>14, <2>1, <2>2 DEF StreamLife
<1> QED  BY <1>13, <1>15, <1>16, <1>18, <1>20, <1>21

\* The end of a read takes back its mark.
LEMMA ReadEndsKeeps ==
  ASSUME StreamsInv, NEW r \in StreamReaders, ReadEnds(r)
  PROVE  StreamsInv'
<1> USE DEF StreamsInv
<1> DEFINE pc == IF source[call[r].stream] = "open" THEN "done" ELSE "error"
           K == KeyOf[r]
<1>1. UNCHANGED <<lru, ssClosed, st, source, swept, sweep>> /\ call' = [call EXCEPT ![r].pc = pc]
      /\ inUse' = [inUse EXCEPT ![K] = IF @ > 0 THEN @ - 1 ELSE 0] /\ Reading(r) /\ call[r].pc # "evict"
  BY DEF ReadEnds, Unmark, Reading
<1>2. pc \in {"done", "error"} /\ K \in StreamKeys
  BY CallIs
<1> HIDE DEF pc, K
<1>3. \A s \in StreamReaders : call'[s] = IF s = r THEN [call[r] EXCEPT !.pc = pc] ELSE call[s]
  BY <1>1 DEF StreamTypes
<1>4. \A s \in StreamReaders : call'[s].stream = call[s].stream /\ call'[s].evicted = call[s].evicted
                                 /\ (Reading(s)' <=> Reading(s) /\ s # r) /\ (s # r => call'[s].pc = call[s].pc)
  BY <1>1, <1>2, <1>3, CallIs DEF Reading
<1>5. \A k \in StreamKeys : inUse'[k] = IF k = K THEN (IF inUse[K] > 0 THEN inUse[K] - 1 ELSE 0) ELSE inUse[k]
  BY <1>1 DEF StreamTypes
<1>6. StreamTypes'
  <2>1. [call[r] EXCEPT !.pc = pc] \in
           [pc : {"idle", "evict", "read", "using", "done", "error"}, stream : 0..MaxBorn, evicted : Seq(StreamIds)]
    BY <1>2, CallIs
  <2>2. call' \in [StreamReaders -> [pc : {"idle", "evict", "read", "using", "done", "error"},
                                     stream : 0..MaxBorn, evicted : Seq(StreamIds)]]
    BY <1>1, <1>3, <2>1 DEF StreamTypes
  <2>3. inUse' \in [StreamKeys -> Nat]
    <3>1. inUse[K] \in Nat
      BY <1>2 DEF StreamTypes
    <3>2. (IF inUse[K] > 0 THEN inUse[K] - 1 ELSE 0) \in Nat
      BY <3>1
    <3> QED  BY <1>1, <3>2 DEF StreamTypes
  <2> QED  BY <1>1, <2>2, <2>3 DEF StreamTypes
<1>7. Cached' = Cached /\ CachedLife'
  BY <1>1 DEF CachedLife, Cached
<1>8. EvictedLife'
  <2>1. call[r].evicted = <<>> /\ call'[r].pc # "evict"
    BY <1>1, <1>2, <1>3, CallIs DEF EvictedLife
  <2> QED  BY <1>1, <1>4, <1>7, <2>1 DEF EvictedLife
<1>9. ReaderLife'
  BY <1>1, <1>4 DEF ReaderLife
<1>10. MarksCount'
  <2>1. ASSUME ~ ssClosed', NEW k \in StreamKeys
        PROVE  IsFiniteSet(InUseBy(k)') /\ inUse'[k] = Cardinality(InUseBy(k)')
    <3>1. IsFiniteSet(InUseBy(k)) /\ inUse[k] = Cardinality(InUseBy(k))
      BY <1>1, <2>1 DEF MarksCount
    <3>2. CASE k = K
      <4>1. r \in InUseBy(k)
        BY <1>1, <3>2 DEF InUseBy, K
      <4>2. InUseBy(k)' = InUseBy(k) \ {r}
        BY <1>4 DEF InUseBy
      <4>3. IsFiniteSet(InUseBy(k)') /\ Cardinality(InUseBy(k)') = Cardinality(InUseBy(k)) - 1
        BY <3>1, <4>1, <4>2, FS_RemoveElement
      <4>4. Cardinality(InUseBy(k)) \in Nat /\ Cardinality(InUseBy(k)') \in Nat
        BY <3>1, <4>3, FS_CardinalityType
      <4>5. inUse[K] > 0 /\ inUse'[k] = inUse[k] - 1
        BY <1>2, <1>5, <3>1, <3>2, <4>3, <4>4
      <4> QED  BY <3>1, <4>3, <4>5
    <3>3. CASE k # K
      <4>1. InUseBy(k)' = InUseBy(k)
        BY <1>4, <3>3 DEF InUseBy, K
      <4> QED  BY <1>5, <3>1, <3>3, <4>1
    <3> QED  BY <3>2, <3>3
  <2> QED  BY <2>1 DEF MarksCount
<1>11. StreamLife'
  BY <1>1, <1>4, <1>7 DEF StreamLife
<1> QED  BY <1>6, <1>7, <1>8, <1>9, <1>10, <1>11

\* A lookup adds its mark.
LEMMA LookupMarks ==
  ASSUME StreamTypes, MarksCount, ~ ssClosed, ssClosed' = ssClosed, NEW r \in StreamReaders, ~ Reading(r), Reading(r)',
         inUse' = [inUse EXCEPT ![KeyOf[r]] = @ + 1],
         \A s \in StreamReaders : s # r => call'[s] = call[s]
  PROVE  MarksCount'
<1>1. \A s \in StreamReaders : Reading(s)' <=> Reading(s) \/ s = r
  BY DEF Reading
<1>2. KeyOf[r] \in StreamKeys /\ \A k \in StreamKeys : inUse[k] \in Nat /\ inUse'[k] = IF k = KeyOf[r] THEN inUse[k] + 1 ELSE inUse[k]
  BY CallIs DEF StreamTypes
<1>3. ASSUME NEW k \in StreamKeys
      PROVE  IsFiniteSet(InUseBy(k)') /\ inUse'[k] = Cardinality(InUseBy(k)')
  <2>1. IsFiniteSet(InUseBy(k)) /\ inUse[k] = Cardinality(InUseBy(k))
    BY DEF MarksCount
  <2>2. CASE k = KeyOf[r]
    <3>1. r \notin InUseBy(k) /\ InUseBy(k)' = InUseBy(k) \cup {r}
      BY <1>1, <2>2 DEF InUseBy
    <3> QED  BY <1>2, <2>1, <2>2, <3>1, FS_AddElement
  <2>3. CASE k # KeyOf[r]
    <3>1. InUseBy(k)' = InUseBy(k)
      BY <1>1, <2>3 DEF InUseBy
    <3> QED  BY <1>2, <2>1, <2>3, <3>1
  <2> QED  BY <2>2, <2>3
<1> QED  BY <1>3 DEF MarksCount

\* A hit moves the stream of its key to the end.
LEMMA LookupHits ==
  ASSUME StreamsInv, NEW r \in StreamReaders, NEW h \in DOMAIN lru, lru[h][1] = KeyOf[r],
         call[r].pc = "idle", ~ ssClosed, UNCHANGED <<ssClosed, st, source, swept, sweep>>,
         inUse' = [inUse EXCEPT ![KeyOf[r]] = @ + 1],
         lru' = Append(RemoveAt(lru, h), lru[h]),
         call' = [call EXCEPT ![r] = [pc |-> "read", stream |-> lru[h][2], evicted |-> <<>>]]
  PROVE  StreamsInv'
<1> USE DEF StreamsInv
<1>1. \A s \in StreamReaders : call'[s] = IF s = r THEN [pc |-> "read", stream |-> lru[h][2], evicted |-> <<>>] ELSE call[s]
  BY DEF StreamTypes
<1>2. \A p \in DOMAIN lru : lru[p] \in Entries /\ lru[p][1] \in StreamKeys /\ lru[p][2] \in StreamIds /\ lru[p] = <<lru[p][1], lru[p][2]>>
  BY DEF StreamTypes, Entries
<1>3. /\ lru' \in Seq(Entries) /\ OneStreamEach(lru)'
      /\ \A p \in DOMAIN lru : \E n \in DOMAIN lru' : lru'[n] = lru[p]
      /\ \A n \in DOMAIN lru' : \E p \in DOMAIN lru : lru'[n] = lru[p]
  <2>1. lru \in Seq(Entries) /\ OneStreamEach(lru)
    BY DEF StreamTypes, CachedLife
  <2>2. OneStreamEach(lru)' <=> OneStreamEach(Append(RemoveAt(lru, h), lru[h]))
    BY DEF OneStreamEach
  <2> QED  BY <2>1, <2>2, MovedToEnd
<1>4. Cached' = Cached
  <2>1. ASSUME NEW n \in DOMAIN lru'
        PROVE  lru'[n][2] \in Cached
    <3>1. PICK p \in DOMAIN lru : lru'[n] = lru[p]
      BY <1>3
    <3> QED  BY <3>1 DEF Cached
  <2>2. ASSUME NEW p \in DOMAIN lru
        PROVE  lru[p][2] \in Cached'
    <3>1. PICK n \in DOMAIN lru' : lru'[n] = lru[p]
      BY <1>3
    <3> QED  BY <3>1 DEF Cached
  <2> QED  BY <2>1, <2>2 DEF Cached
<1>5. StreamTypes'
  <2>1. [pc |-> "read", stream |-> lru[h][2], evicted |-> <<>>] \in
           [pc : {"idle", "evict", "read", "using", "done", "error"}, stream : 0..MaxBorn, evicted : Seq(StreamIds)]
    <3>1. lru[h][2] \in 0..MaxBorn
      BY <1>2, StreamsAssumption DEF StreamIds
    <3>2. <<>> \in Seq(StreamIds)
      OBVIOUS
    <3> QED  BY <3>1, <3>2
  <2>2. call' \in [StreamReaders -> [pc : {"idle", "evict", "read", "using", "done", "error"},
                                     stream : 0..MaxBorn, evicted : Seq(StreamIds)]]
    BY <2>1 DEF StreamTypes
  <2>3. inUse' \in [StreamKeys -> Nat]
    <3>1. inUse[KeyOf[r]] + 1 \in Nat
      BY CallIs DEF StreamTypes
    <3> QED  BY <3>1 DEF StreamTypes
  <2> QED  BY <1>3, <2>2, <2>3 DEF StreamTypes
<1>6. CachedLife'
  <2>1. \A n \in DOMAIN lru' : st'[lru'[n][2]] = "open"
    <3>1. ASSUME NEW n \in DOMAIN lru'
          PROVE  st'[lru'[n][2]] = "open"
      <4>1. PICK p \in DOMAIN lru : lru'[n] = lru[p]
        BY <1>3
      <4> QED  BY <4>1 DEF CachedLife
    <3> QED  BY <3>1
  <2> QED  BY <1>3, <2>1 DEF CachedLife
<1>7. EvictedLife'
  BY <1>1, <1>4 DEF EvictedLife
<1>8. ReaderLife'
  <2>1. ASSUME NEW s \in StreamReaders, Reading(s)'
        PROVE  call'[s].stream \in StreamIds /\ \E n \in DOMAIN lru' : lru'[n] = <<KeyOf[s], call'[s].stream>>
    <3>1. CASE s = r
      <4>1. call'[s].stream = lru[h][2] /\ lru[h] = <<KeyOf[s], lru[h][2]>> /\ lru[h][2] \in StreamIds
        BY <1>1, <1>2, <3>1
      <4> QED  BY <1>3, <4>1, ZenonT(60)
    <3>2. CASE s # r
      <4>1. Reading(s) /\ call'[s] = call[s]
        BY <1>1, <2>1, <3>2 DEF Reading
      <4>2. call[s].stream \in StreamIds /\ \E p \in DOMAIN lru : lru[p] = <<KeyOf[s], call[s].stream>>
        BY <4>1 DEF ReaderLife
      <4>3. PICK p \in DOMAIN lru : lru[p] = <<KeyOf[s], call[s].stream>>
        BY <4>2
      <4>4. PICK n \in DOMAIN lru' : lru'[n] = lru[p]
        BY <1>3
      <4> QED  BY <4>1, <4>2, <4>3, <4>4
    <3> QED  BY <3>1, <3>2
  <2> QED  BY <2>1 DEF ReaderLife
<1>9. MarksCount'
  <2>1. ~ Reading(r) /\ Reading(r)'
    BY <1>1 DEF Reading
  <2> QED  BY <1>1, <2>1, LookupMarks
<1>10. StreamLife'
  <2>1. call[r].evicted = <<>>
    BY DEF EvictedLife
  <2>2. ASSUME NEW i \in StreamIds, st[i] = "open", i \notin Cached
        PROVE  \E s \in StreamReaders : \E n \in DOMAIN call'[s].evicted : call'[s].evicted[n] = i
    <3>1. PICK s \in StreamReaders : \E n \in DOMAIN call[s].evicted : call[s].evicted[n] = i
      BY <2>2 DEF StreamLife
    <3>2. s # r
      BY <2>1, <3>1
    <3> QED  BY <1>1, <3>1, <3>2
  <2> QED  BY <1>4, <2>2 DEF StreamLife
<1> QED  BY <1>5, <1>6, <1>7, <1>8, <1>9, <1>10

\* A miss builds the next stream; the streams it puts out have no call that reads them.
MissBy(r, i, out) ==
    /\ call[r].pc = "idle" /\ ~ ssClosed /\ UNCHANGED <<ssClosed, source, swept, sweep>>
    /\ inUse' = [inUse EXCEPT ![KeyOf[r]] = @ + 1]
    /\ lru' = Evict(Append(lru, <<KeyOf[r], i>>), inUse').kept
    /\ out = Evict(Append(lru, <<KeyOf[r], i>>), inUse').out
    /\ st' = [j \in StreamIds |-> IF j = i THEN "open" ELSE IF out # <<>> /\ j = out[1] THEN "closing" ELSE st[j]]
    /\ call' = [call EXCEPT ![r] = [pc |-> IF out = <<>> THEN "read" ELSE "evict", stream |-> i, evicted |-> out]]

LEMMA LookupMisses ==
  ASSUME StreamsInv, NEW r \in StreamReaders, NEW i \in StreamIds, st[i] = "unborn", NEW out, MissBy(r, i, out)
  PROVE  StreamsInv'
<1> USE DEF StreamsInv, MissBy
<1> DEFINE e == <<KeyOf[r], i>>
           s == Append(lru, e)
           L == Len(lru)
           entry == [pc |-> IF out = <<>> THEN "read" ELSE "evict", stream |-> i, evicted |-> out]
<1>1. e \in Entries /\ e[1] = KeyOf[r] /\ e[2] = i /\ lru \in Seq(Entries) /\ L \in Nat /\ DOMAIN lru = 1..L
      /\ \A p \in DOMAIN lru : lru[p] \in Entries /\ lru[p][1] \in StreamKeys /\ lru[p][2] \in StreamIds
  BY CallIs DEF StreamTypes, Entries
<1> HIDE DEF e
<1>2. s \in Seq(Entries) /\ DOMAIN s = 1..L + 1 /\ s[L + 1] = e /\ \A p \in 1..L : s[p] = lru[p]
  <2>1. s \in Seq(Entries) /\ Len(s) = L + 1 /\ s[L + 1] = e /\ \A p \in 1..L : s[p] = lru[p]
    BY <1>1, AppendProperties
  <2> HIDE DEF s, L
  <2> QED  BY <2>1
<1> HIDE DEF s, L
<1>3. L + 1 \in 1..L + 1 /\ \A p \in 1..L + 1 : p = L + 1 \/ p \in 1..L
  BY <1>1
<1>4. \A p \in 1..L : p \in 1..L + 1 /\ s[p] = lru[p] /\ lru[p][2] # i /\ st[lru[p][2]] = "open" /\ lru[p][2] \in Cached
  <2>1. ASSUME NEW p \in 1..L
        PROVE  p \in 1..L + 1 /\ st[lru[p][2]] = "open" /\ lru[p][2] \in Cached
    <3>1. p \in 1..L + 1 /\ p \in DOMAIN lru
      BY <1>1
    <3> QED  BY <3>1 DEF CachedLife, Cached
  <2>2. \A p \in 1..L : lru[p][2] # i
    BY <2>1
  <2> QED  BY <1>2, <2>1, <2>2
<1>5. OneStreamEach(s)
  <2>1. \A p, q \in 1..L : lru[p][2] = lru[q][2] => p = q
    BY <1>1 DEF CachedLife, OneStreamEach
  <2>2. ASSUME NEW p \in 1..L + 1, NEW q \in 1..L + 1, s[p][2] = s[q][2]
        PROVE  p = q
    BY <1>1, <1>2, <1>3, <1>4, <2>1, <2>2
  <2> QED  BY <1>2, <2>2 DEF OneStreamEach
<1>6. inUse' \in [StreamKeys -> Nat] /\ KeyOf[r] \in StreamKeys
      /\ \A k \in StreamKeys : inUse[k] \in Nat /\ inUse'[k] = IF k = KeyOf[r] THEN inUse[k] + 1 ELSE inUse[k]
  <2>1. inUse[KeyOf[r]] + 1 \in Nat
    BY CallIs DEF StreamTypes
  <2> QED  BY <2>1, CallIs DEF StreamTypes
<1>7. inUse'[KeyOf[r]] # 0
  BY <1>6
<1>8. lru' = Evict(s, inUse').kept /\ out = Evict(s, inUse').out
  BY DEF s, e
<1>9. /\ lru' \in Seq(Entries) /\ out \in Seq(StreamIds)
      /\ OneStreamEach(lru')
      /\ \A n \in DOMAIN lru' : \E p \in DOMAIN s : lru'[n] = s[p]
      /\ \A n \in DOMAIN out : \E p \in DOMAIN s : out[n] = s[p][2] /\ inUse'[s[p][1]] = 0
      /\ \A p \in DOMAIN s : \/ \E n \in DOMAIN lru' : lru'[n] = s[p]
                             \/ inUse'[s[p][1]] = 0 /\ \E n \in DOMAIN out : out[n] = s[p][2]
      /\ \A m \in DOMAIN lru', n \in DOMAIN out : lru'[m][2] # out[n]
  <2>1. Evicted(s, inUse', Evict(s, inUse').kept, Evict(s, inUse').out)
    BY <1>2, <1>5, EvictTakes
  <2>2. Evicted(s, inUse', lru', out)
    BY <1>8, <2>1
  <2> QED  BY <2>2 DEF Evicted
<1>10. OneStreamEach(lru)'
  BY <1>9 DEF OneStreamEach
<1>11. \E n \in DOMAIN lru' : lru'[n] = e
  <2>1. L + 1 \in DOMAIN s /\ inUse'[s[L + 1][1]] # 0
    BY <1>1, <1>2, <1>3, <1>7
  <2>2. \E n \in DOMAIN lru' : lru'[n] = s[L + 1]
    BY <1>9, <2>1
  <2> QED  BY <1>2, <2>2
<1>12. \A n \in DOMAIN lru' : lru'[n] = e \/ \E p \in 1..L : lru'[n] = lru[p]
  <2>1. ASSUME NEW n \in DOMAIN lru'
        PROVE  lru'[n] = e \/ \E p \in 1..L : lru'[n] = lru[p]
    <3>1. PICK p \in DOMAIN s : lru'[n] = s[p]
      BY <1>9
    <3> QED  BY <1>2, <1>3, <3>1
  <2> QED  BY <2>1
<1>13. \A n \in DOMAIN out : \E p \in 1..L : out[n] = lru[p][2]
  <2>1. ASSUME NEW n \in DOMAIN out
        PROVE  \E p \in 1..L : out[n] = lru[p][2]
    <3>1. PICK p \in DOMAIN s : out[n] = s[p][2] /\ inUse'[s[p][1]] = 0
      BY <1>9
    <3>2. p # L + 1
      BY <1>1, <1>2, <1>7, <3>1
    <3> QED  BY <1>2, <1>3, <1>4, <3>1, <3>2
  <2> QED  BY <2>1
<1>14. \A n \in DOMAIN out : out[n] \in StreamIds /\ out[n] # i /\ st[out[n]] = "open" /\ out[n] \notin Cached'
  <2>1. ASSUME NEW n \in DOMAIN out
        PROVE  out[n] \in StreamIds /\ out[n] # i /\ st[out[n]] = "open"
    <3>1. PICK p \in 1..L : out[n] = lru[p][2]
      BY <1>13
    <3> QED  BY <1>1, <1>4, <3>1
  <2>2. ASSUME NEW n \in DOMAIN out, out[n] \in Cached'
        PROVE  FALSE
    <3>1. PICK m \in DOMAIN lru' : lru'[m][2] = out[n]
      BY <2>2 DEF Cached
    <3> QED  BY <1>9, <3>1
  <2> QED  BY <2>1, <2>2
<1>15. out # <<>> => 1 \in DOMAIN out
  <2>1. Len(out) \in Nat /\ DOMAIN out = 1..Len(out) /\ (out # <<>> => Len(out) # 0)
    BY <1>9
  <2> QED  BY <2>1
<1>16. \A j \in StreamIds : /\ j = i => st'[j] = "open"
                            /\ st'[j] = "closing" => st[j] = "closing" \/ (out # <<>> /\ j = out[1])
                            /\ j # i => st'[j] = st[j] \/ (out # <<>> /\ j = out[1] /\ st'[j] = "closing")
  OBVIOUS
<1>17. \A t \in StreamReaders : call'[t] = IF t = r THEN entry ELSE call[t]
  BY DEF StreamTypes
<1>18. entry.pc \in {"read", "evict"} /\ (entry.pc = "evict" <=> out # <<>>) /\ entry.stream = i /\ entry.evicted = out
  OBVIOUS
<1>19. StreamTypes'
  <2>1. entry \in [pc : {"idle", "evict", "read", "using", "done", "error"}, stream : 0..MaxBorn, evicted : Seq(StreamIds)]
    <3>1. i \in 0..MaxBorn
      BY StreamsAssumption DEF StreamIds
    <3> QED  BY <1>9, <3>1
  <2> HIDE DEF entry
  <2>2. call' \in [StreamReaders -> [pc : {"idle", "evict", "read", "using", "done", "error"},
                                     stream : 0..MaxBorn, evicted : Seq(StreamIds)]]
    BY <2>1 DEF StreamTypes, entry
  <2>3. st' \in [StreamIds -> {"unborn", "open", "closing", "closed"}]
    BY DEF StreamTypes
  <2> QED  BY <1>6, <1>9, <2>2, <2>3 DEF StreamTypes
<1> HIDE DEF entry
<1>20. \A j \in Cached' : j = i \/ j \in Cached
  <2>1. ASSUME NEW n \in DOMAIN lru'
        PROVE  lru'[n][2] = i \/ lru'[n][2] \in Cached
    <3>1. CASE lru'[n] = e
      BY <1>1, <3>1
    <3>2. CASE \E p \in 1..L : lru'[n] = lru[p]
      BY <1>4, <3>2
    <3> QED  BY <1>12, <3>1, <3>2
  <2> QED  BY <2>1 DEF Cached
<1>21. CachedLife'
  <2>1. ASSUME NEW n \in DOMAIN lru'
        PROVE  st'[lru'[n][2]] = "open"
    <3>1. CASE lru'[n] = e
      BY <1>1, <1>16, <3>1
    <3>2. CASE \E p \in 1..L : lru'[n] = lru[p]
      <4>1. PICK p \in 1..L : lru'[n] = lru[p]
        BY <3>2
      <4>2. out # <<>> => lru[p][2] # out[1]
        <5>1. \A k \in DOMAIN out : lru'[n][2] # out[k]
          BY <1>9
        <5> QED  BY <1>15, <4>1, <5>1
      <4>3. lru[p][2] \in StreamIds /\ lru[p][2] # i /\ st[lru[p][2]] = "open"
        BY <1>1, <1>4
      <4> QED  BY <1>16, <4>1, <4>2, <4>3
    <3> QED  BY <1>12, <3>1, <3>2
  <2> QED  BY <1>10, <2>1 DEF CachedLife
<1>22. EvictedLife'
  <2>1. ASSUME NEW t \in StreamReaders
        PROVE  /\ call'[t].evicted # <<>> <=> call'[t].pc = "evict"
               /\ \A n \in DOMAIN call'[t].evicted : call'[t].evicted[n] \notin Cached' /\ st'[call'[t].evicted[n]] # "unborn"
    <3>1. CASE t = r
      <4>1. call'[t].evicted = out /\ (call'[t].pc = "evict" <=> out # <<>>)
        BY <1>17, <1>18, <3>1
      <4>2. \A n \in DOMAIN out : st'[out[n]] # "unborn"
        BY <1>14, <1>16
      <4> QED  BY <1>14, <4>1, <4>2
    <3>2. CASE t # r
      <4>1. \A n \in DOMAIN call[t].evicted : call[t].evicted[n] \in StreamIds
        BY CallIs
      <4> QED  BY <1>16, <1>17, <1>20, <3>2, <4>1 DEF EvictedLife
    <3> QED  BY <3>1, <3>2
  <2> QED  BY <2>1 DEF EvictedLife
<1>23. ReaderLife'
  <2>1. ASSUME NEW t \in StreamReaders, Reading(t)'
        PROVE  call'[t].stream \in StreamIds /\ \E n \in DOMAIN lru' : lru'[n] = <<KeyOf[t], call'[t].stream>>
    <3>1. CASE t = r
      BY <1>11, <1>17, <1>18, <3>1 DEF e
    <3>2. CASE t # r
      <4>1. Reading(t) /\ call'[t] = call[t]
        BY <1>17, <2>1, <3>2 DEF Reading
      <4>2. call[t].stream \in StreamIds /\ \E p \in DOMAIN lru : lru[p] = <<KeyOf[t], call[t].stream>>
        BY <4>1 DEF ReaderLife
      <4>3. PICK p \in 1..L : lru[p] = <<KeyOf[t], call[t].stream>>
        BY <1>1, <4>2
      <4>4. inUse'[KeyOf[t]] # 0
        <5>1. KeyOf[t] \in StreamKeys /\ t \in InUseBy(KeyOf[t])
          BY <4>1, CallIs DEF InUseBy
        <5>2. IsFiniteSet(InUseBy(KeyOf[t])) /\ inUse[KeyOf[t]] = Cardinality(InUseBy(KeyOf[t]))
          BY <5>1 DEF MarksCount
        <5>3. inUse[KeyOf[t]] # 0
          BY <5>1, <5>2, FS_EmptySet
        <5> QED  BY <1>6, <1>7, <5>1, <5>3
      <4>5. s[p] = <<KeyOf[t], call[t].stream>> /\ s[p][1] = KeyOf[t] /\ p \in DOMAIN s
        BY <1>2, <1>4, <4>3
      <4>6. \E n \in DOMAIN lru' : lru'[n] = s[p]
        <5>1. inUse'[s[p][1]] # 0
          BY <4>4, <4>5
        <5> QED  BY <1>9, <4>5, <5>1
      <4> QED  BY <4>1, <4>2, <4>5, <4>6
    <3> QED  BY <3>1, <3>2
  <2> QED  BY <2>1 DEF ReaderLife
<1>24. MarksCount'
  <2>1. ~ Reading(r) /\ Reading(r)'
    BY <1>17, <1>18 DEF Reading
  <2>2. \A t \in StreamReaders : t # r => call'[t] = call[t]
    BY <1>17
  <2> QED  BY <2>1, <2>2, LookupMarks
<1>25. StreamLife'
  <2>1. call[r].evicted = <<>>
    BY DEF EvictedLife
  <2>2. ASSUME NEW j \in StreamIds, st'[j] = "open", j \notin Cached'
        PROVE  \E t \in StreamReaders : \E n \in DOMAIN call'[t].evicted : call'[t].evicted[n] = j
    <3>1. i \in Cached'
      BY <1>1, <1>11 DEF Cached
    <3>2. j # i /\ st[j] = "open"
      BY <1>16, <2>2, <3>1
    <3>3. CASE j \in Cached
      <4>1. PICK p \in 1..L : lru[p][2] = j
        BY <1>1, <3>3 DEF Cached
      <4>2. s[p][2] = j /\ p \in DOMAIN s
        BY <1>2, <1>4, <4>1
      <4>3. ~ \E n \in DOMAIN lru' : lru'[n] = s[p]
        BY <2>2, <4>2 DEF Cached
      <4>4. \E n \in DOMAIN out : out[n] = j
        BY <1>9, <4>2, <4>3
      <4> QED  BY <1>17, <1>18, <4>4
    <3>4. CASE j \notin Cached
      <4>1. PICK t \in StreamReaders : \E n \in DOMAIN call[t].evicted : call[t].evicted[n] = j
        BY <3>2, <3>4 DEF StreamLife
      <4>2. t # r
        BY <2>1, <4>1
      <4> QED  BY <1>17, <4>1, <4>2
    <3> QED  BY <3>3, <3>4
  <2>3. ASSUME NEW j \in StreamIds, st'[j] = "closed"
        PROVE  source'[j] \in {"none", "closed"}
    <3>1. st[j] = "closed"
      BY <1>16, <2>3
    <3> QED  BY <3>1 DEF StreamLife
  <2> QED  BY <2>2, <2>3 DEF StreamLife
<1> QED  BY <1>19, <1>21, <1>22, <1>23, <1>24, <1>25

LEMMA LookupKeeps ==
  ASSUME StreamsInv, NEW r \in StreamReaders, Lookup(r)
  PROVE  StreamsInv'
<1> DEFINE k == KeyOf[r]
           used == [inUse EXCEPT ![k] = @ + 1]
           hits == {h \in DOMAIN lru : lru[h][1] = k}
           unborn == {j \in StreamIds : st[j] = "unborn"}
           i == CHOOSE j \in unborn : \A x \in unborn : j <= x
           e == Evict(Append(lru, <<k, i>>), used)
<1>1. /\ call[r].pc = "idle" /\ ~ ssClosed /\ inUse' = used /\ UNCHANGED <<ssClosed, source, swept, sweep>>
      /\ \/ \E h \in hits :
               /\ lru' = Append(RemoveAt(lru, h), lru[h])
               /\ call' = [call EXCEPT ![r] = [pc |-> "read", stream |-> lru[h][2], evicted |-> <<>>]]
               /\ UNCHANGED st
         \/ /\ unborn # {}
            /\ lru' = e.kept
            /\ st' = [j \in StreamIds |-> IF j = i THEN "open" ELSE IF e.out # <<>> /\ j = e.out[1] THEN "closing" ELSE st[j]]
            /\ call' = [call EXCEPT ![r] = [pc |-> IF e.out = <<>> THEN "read" ELSE "evict", stream |-> i, evicted |-> e.out]]
  BY DEF Lookup
<1>2. CASE \E h \in hits :
               /\ lru' = Append(RemoveAt(lru, h), lru[h])
               /\ call' = [call EXCEPT ![r] = [pc |-> "read", stream |-> lru[h][2], evicted |-> <<>>]]
               /\ UNCHANGED st
  <2>1. PICK h \in hits :
               /\ lru' = Append(RemoveAt(lru, h), lru[h])
               /\ call' = [call EXCEPT ![r] = [pc |-> "read", stream |-> lru[h][2], evicted |-> <<>>]]
               /\ UNCHANGED st
    BY <1>2
  <2>2. h \in DOMAIN lru /\ lru[h][1] = KeyOf[r]
    OBVIOUS
  <2> QED  BY <1>1, <2>1, <2>2, LookupHits
<1>3. CASE /\ unborn # {}
           /\ lru' = e.kept
           /\ st' = [j \in StreamIds |-> IF j = i THEN "open" ELSE IF e.out # <<>> /\ j = e.out[1] THEN "closing" ELSE st[j]]
           /\ call' = [call EXCEPT ![r] = [pc |-> IF e.out = <<>> THEN "read" ELSE "evict", stream |-> i, evicted |-> e.out]]
  <2>1. unborn \in SUBSET Nat
    BY StreamsAssumption DEF StreamIds
  <2>2. \E j \in unborn : \A x \in unborn : j <= x
    BY <1>3, <2>1, LeastNat
  <2>3. i \in unborn
    BY <2>2
  <2> HIDE DEF i
  <2>4. i \in StreamIds /\ st[i] = "unborn"
    BY <2>3
  <2>5. /\ e.out = Evict(Append(lru, <<KeyOf[r], i>>), inUse').out
        /\ lru' = Evict(Append(lru, <<KeyOf[r], i>>), inUse').kept
    BY <1>1, <1>3
  <2> HIDE DEF e
  <2>6. \E o : o = e.out
    OBVIOUS
  <2>7. PICK out : out = e.out
    BY <2>6
  <2>8. MissBy(r, i, out)
    BY <1>1, <1>3, <2>5, <2>7 DEF MissBy
  <2> QED  BY <2>4, <2>8, LookupMisses
<1> QED  BY <1>1, <1>2, <1>3

LEMMA StreamsStep ==
  ASSUME ~ Overlap, StreamsInv, SsNext \/ UNCHANGED ssVars
  PROVE  StreamsInv'
<1>1. CASE UNCHANGED ssVars
  <2>1. UNCHANGED <<lru, inUse, ssClosed, st, source, call, swept, sweep>>
    BY <1>1 DEF ssVars
  <2>2. StreamTypes'
    BY <2>1 DEF StreamsInv, StreamTypes
  <2>3. Cached' = Cached /\ \A k \in StreamKeys : InUseBy(k)' = InUseBy(k)
    BY <2>1 DEF Cached, InUseBy, Reading
  <2>4. CachedLife' /\ EvictedLife'
    BY <2>1, <2>3 DEF StreamsInv, CachedLife, EvictedLife
  <2>5. ReaderLife' /\ StreamLife'
    BY <2>1, <2>3 DEF StreamsInv, ReaderLife, StreamLife, Reading
  <2>6. MarksCount'
    BY <2>1, <2>3 DEF StreamsInv, MarksCount
  <2> QED  BY <2>2, <2>4, <2>5, <2>6 DEF StreamsInv
<1>2. ASSUME NEW r \in StreamReaders,
             Lookup(r) \/ LookupRefused(r) \/ EvictedClosed(r) \/ ReadBegins(r) \/ ReadWorks(r) \/ ReadEnds(r)
      PROVE  StreamsInv'
  BY <1>2, LookupKeeps, LookupRefusedKeeps, EvictedClosedKeeps, ReadBeginsKeeps, ReadWorksKeeps, ReadEndsKeeps
<1>3. ASSUME NEW i \in StreamIds, SourceOpened(i) \/ StreamCloses(i)
      PROVE  StreamsInv'
  BY <1>3, SourceOpenedKeeps, StreamClosesKeeps
<1>4. ASSUME NEW shut \in BOOLEAN, SweepStreams(shut)
      PROVE  StreamsInv'
  BY <1>4, SweepStreamsKeeps
<1>5. CASE SweepDone
  BY <1>5, SweepDoneKeeps
<1> QED  BY <1>1, <1>2, <1>3, <1>4, <1>5 DEF SsNext

LEMMA StreamsProperties == StreamsInv => EvictionSparesReaders /\ StreamsAreReleased
<1> SUFFICES ASSUME StreamsInv PROVE EvictionSparesReaders /\ StreamsAreReleased
  OBVIOUS
<1> USE DEF StreamsInv
<1>1. ASSUME NEW r \in StreamReaders, call[r].pc \in {"read", "using"}
      PROVE  st[call[r].stream] = "open" \/ call[r].stream \in swept
  <2>1. Reading(r)
    BY <1>1 DEF Reading
  <2>2. CASE ssClosed
    BY <2>1, <2>2 DEF ReaderLife
  <2>3. CASE ~ ssClosed
    <3>1. PICK p \in DOMAIN lru : lru[p] = <<KeyOf[r], call[r].stream>>
      BY <2>1, <2>3 DEF ReaderLife
    <3>2. lru[p][2] = call[r].stream
      BY <3>1
    <3> QED  BY <3>2 DEF CachedLife
  <2> QED  BY <2>2, <2>3
<1>2. sweep = "done" => Cached = {}
  BY DEF CachedLife, Cached
<1> QED  BY <1>1, <1>2 DEF EvictionSparesReaders, StreamsAreReleased, StreamLife

-----------------------------------------------------------------------------
(* SaasProviders.  SaasInv: the dispatch's own hold keeps the index open while candidates are tried,
   and what is open belongs to a candidate that answered or to the one at work. *)

AtCandidate == place \in {"tables", "tree", "failed"}
IndexHeld ==
    /\ holders = Cardinality(holds) /\ (indexDb = "open" <=> holds # {})
    /\ indexKind # "ok" => holds = {}
    /\ indexKind = "ok" /\ (AtCandidate \/ place \in {"next", "raw", "leaving"}) => Dispatch \in holds
    /\ RawProvider \in holds => place \in {"leaving", "open"}
    /\ Dispatch \in holds => place \notin {"open", "raised", "closed"}
LoadedOnce == loads <= 1 /\ (place = "begin" => loads = 0 /\ holds = {})
CandidatesClean ==
    /\ \A c \in Tried : sources[c] # 0 \/ c \in holds => c \in answering \/ (c = trying /\ AtCandidate)
    /\ \A c \in answering : c \in holds /\ sources[c] = Tables /\ c <= trying
    /\ AtCandidate => trying \in Tried /\ trying \notin answering
    /\ place = "tree" => trying \in holds /\ sources[trying] = Tables
    /\ place \in {"begin", "raw", "raising", "raised", "closed"} => answering = {}
    /\ place \in {"leaving", "open"} /\ answering = {} => trying = RawProvider
    /\ place \in {"begin", "next"} => trying <= Candidates
SaasInv == SaasTypeOK /\ IndexHeld /\ LoadedOnce /\ CandidatesClean

LEMMA SaasCounts ==
  ASSUME SaasTypeOK, NEW set
  PROVE  /\ IsFiniteSet(holds) /\ IsFiniteSet(holds \ set)
         /\ Cardinality(holds) \in Nat /\ Cardinality(holds \cap set) \in Nat
         /\ Cardinality(holds \ set) = Cardinality(holds) - Cardinality(holds \cap set)
         /\ Cardinality(holds) = Cardinality(holds \cap set) <=> holds \ set = {}
<1>1. IsFiniteSet(Owners)
  BY CandidatesAssumption, FS_Interval DEF Owners
<1>2. IsFiniteSet(holds)
  BY <1>1, FS_Subset DEF SaasTypeOK
<1>3. IsFiniteSet(holds \ set) /\ IsFiniteSet(holds \cap set) /\ Cardinality(holds \ set) = Cardinality(holds) - Cardinality(holds \cap set)
  BY <1>2, FS_Difference, FS_Intersection
<1>4. Cardinality(holds) \in Nat /\ Cardinality(holds \cap set) \in Nat
  BY <1>2, <1>3, FS_CardinalityType
<1>5. Cardinality(holds \ set) = 0 <=> holds \ set = {}
  BY <1>3, FS_EmptySet
<1> QED  BY <1>2, <1>3, <1>4, <1>5

LEMMA AcquireKeeps ==
  ASSUME SaasTypeOK, IndexHeld, NEW o \in Owners, o \notin holds, Acquire(o)
  PROVE  /\ indexDb' = "open" /\ holds' = holds \cup {o} /\ holders' = Cardinality(holds') /\ holders' \in Int
         /\ holds' \subseteq Owners /\ loads' \in Nat
         /\ holds # {} => loads' = loads
         /\ loads' <= loads + 1
<1>1. IsFiniteSet(holds) /\ Cardinality(holds) \in Nat
  BY SaasCounts
<1>2. holds' = holds \cup {o}
  BY DEF Acquire
<1>3. Cardinality(holds') = Cardinality(holds) + 1
  BY <1>1, <1>2, FS_AddElement
<1> QED  BY <1>1, <1>2, <1>3 DEF Acquire, SaasTypeOK, IndexHeld

LEMMA ReleaseKeeps ==
  ASSUME SaasTypeOK, IndexHeld, NEW set, ReleaseEach(set)
  PROVE  /\ holds' = holds \ set /\ holders' = Cardinality(holds') /\ holders' \in Int
         /\ indexDb' \in {"closed", "open"} /\ (indexDb' = "open" <=> holds' # {}) /\ loads' = loads
<1>1. holds' = holds \ set /\ loads' = loads
  BY DEF ReleaseEach
<1>2. holders' = Cardinality(holds')
  BY SaasCounts, <1>1 DEF ReleaseEach, IndexHeld
<1>3. holds \cap set # {} /\ holders = Cardinality(holds \cap set) <=> holds \cap set # {} /\ holds' = {}
  BY SaasCounts, <1>1 DEF IndexHeld
<1>4. indexDb' = IF holds \cap set # {} /\ holders = Cardinality(holds \cap set) THEN "closed" ELSE indexDb
  BY DEF ReleaseEach
<1>5. holds \cap set = {} => holds' = holds
  BY <1>1
<1>6. indexDb' = "open" <=> holds' # {}
  <2>1. indexDb \in {"closed", "open"} /\ (indexDb = "open" <=> holds # {})
    BY DEF IndexHeld, SaasTypeOK
  <2>2. CASE holds \cap set = {}
    BY <2>1, <2>2, <1>4, <1>5
  <2>3. CASE holds \cap set # {}
    <3>1. indexDb = "open"
      BY <2>1, <2>3
    <3>2. indexDb' = IF holds' = {} THEN "closed" ELSE indexDb
      BY <2>3, <1>3, <1>4
    <3> QED  BY <3>1, <3>2
  <2>4. holds \cap set = {} \/ holds \cap set # {}
    OBVIOUS
  <2> QED  BY <2>2, <2>3, <2>4
<1>7. Cardinality(holds \ set) \in Nat
  BY SaasCounts, FS_CardinalityType
<1>8. indexDb' \in {"closed", "open"}
  BY <1>4 DEF SaasTypeOK
<1> QED  BY <1>1, <1>2, <1>6, <1>7, <1>8

LEMMA CloseKeeps ==
  ASSUME SaasTypeOK, IndexHeld, NEW set, CloseEach(set)
  PROVE  /\ ReleaseEach(set)
         /\ sources' \in [Tried -> 0..Tables]
         /\ \A c \in Tried : sources'[c] = IF c \in set THEN 0 ELSE sources[c]
  BY CandidatesAssumption DEF CloseEach, SaasTypeOK

LEMMA SaasStart == SaasInit => SaasInv
<1>1. Cardinality({}) = 0
  BY FS_EmptySet
<1> QED  BY <1>1, CandidatesAssumption DEF SaasInit, SaasInv, SaasTypeOK, IndexHeld, LoadedOnce, CandidatesClean, AtCandidate, Tried, Owners

LEMMA SaasStep == SaasInv /\ (SaasNext \/ UNCHANGED saasVars) => SaasInv'
<1> SUFFICES ASSUME SaasInv, SaasNext \/ UNCHANGED saasVars PROVE SaasInv'
  OBVIOUS
<1> USE CandidatesAssumption
<1>1. CASE UNCHANGED saasVars
  BY <1>1 DEF SaasInv, SaasTypeOK, IndexHeld, LoadedOnce, CandidatesClean, AtCandidate, saasVars
<1>2. CASE HoldForDispatch
  <2>1. CASE Acquire(Dispatch)
    <3>1. Dispatch \in Owners /\ holds = {}
      BY <1>2 DEF HoldForDispatch, SaasInv, LoadedOnce, Dispatch, Owners
    <3>2. indexDb' = "open" /\ holds' = {Dispatch} /\ holders' = Cardinality(holds') /\ holders' \in Int
          /\ loads' = 1
      BY <2>1, <3>1, <1>2, AcquireKeeps DEF SaasInv, IndexHeld, LoadedOnce, Acquire, HoldForDispatch, SaasTypeOK
    <3>3. UNCHANGED <<indexKind, sources, trying, answering>> /\ place' = "next" /\ place = "begin" /\ indexKind = "ok"
      BY <1>2, <2>1 DEF HoldForDispatch, Acquire
    <3> QED  BY <3>1, <3>2, <3>3 DEF SaasInv, SaasTypeOK, IndexHeld, LoadedOnce, CandidatesClean, AtCandidate, Dispatch, RawProvider, Tried, Owners
  <2>2. CASE indexKind # "ok" /\ UNCHANGED <<indexDb, loads, holders, holds>>
    BY <1>2, <2>2 DEF HoldForDispatch, SaasInv, SaasTypeOK, IndexHeld, LoadedOnce, CandidatesClean, AtCandidate
  <2> QED  BY <1>2, <2>1, <2>2 DEF HoldForDispatch
<1>3. CASE NextCandidate
  BY <1>3 DEF NextCandidate, SaasInv, SaasTypeOK, IndexHeld, LoadedOnce, CandidatesClean, AtCandidate, Tried
<1>4. CASE NoneLeft
  BY <1>4 DEF NoneLeft, SaasInv, SaasTypeOK, IndexHeld, LoadedOnce, CandidatesClean, AtCandidate, Tried
<1>5. CASE TakeHold
  <2>1. trying \in Owners /\ trying \in Tried /\ trying # Dispatch /\ trying # RawProvider /\ Dispatch \in holds
    BY <1>5 DEF TakeHold, Acquire, SaasInv, SaasTypeOK, IndexHeld, CandidatesClean, AtCandidate, Tried, Owners, Dispatch, RawProvider
  <2>2. indexDb' = "open" /\ holds' = holds \cup {trying} /\ holders' = Cardinality(holds') /\ holders' \in Int
        /\ holds' \subseteq Owners /\ loads' = loads
    BY <1>5, <2>1, AcquireKeeps DEF TakeHold, SaasInv
  <2>3. UNCHANGED <<indexKind, sources, trying, place, answering>> /\ place = "tables" /\ indexKind = "ok"
    BY <1>5 DEF TakeHold, Acquire
  <2> QED  BY <2>1, <2>2, <2>3 DEF SaasInv, SaasTypeOK, IndexHeld, LoadedOnce, CandidatesClean, AtCandidate
<1>6. CASE OpenTable
  <2>1. /\ trying \in Tried /\ trying \in holds /\ sources[trying] < Tables /\ place = "tables"
        /\ sources' \in [Tried -> 0..Tables]
        /\ \A c \in Tried : sources'[c] = IF c = trying THEN sources[c] + 1 ELSE sources[c]
    BY <1>6 DEF OpenTable, SaasInv, SaasTypeOK, CandidatesClean, AtCandidate
  <2>2. /\ place' \in {"tables", "tree"} /\ (place' = "tree" => sources'[trying] = Tables)
        /\ UNCHANGED <<indexKind, indexDb, loads, holders, holds, trying, answering>>
    BY <1>6 DEF OpenTable
  <2> QED  BY <2>1, <2>2 DEF SaasInv, SaasTypeOK, IndexHeld, LoadedOnce, CandidatesClean, AtCandidate, Tried
<1>7. CASE PassOver
  BY <1>7 DEF PassOver, SaasInv, SaasTypeOK, IndexHeld, LoadedOnce, CandidatesClean, AtCandidate
<1>8. CASE BuildTree
  BY <1>8 DEF BuildTree, SaasInv, SaasTypeOK, IndexHeld, LoadedOnce, CandidatesClean, AtCandidate, Tried
<1>9. CASE GiveUpCandidate
  <2>1. place = "failed" /\ place' = "next" /\ UNCHANGED <<indexKind, trying, answering>> /\ CloseEach({trying})
    BY <1>9 DEF GiveUpCandidate
  <2>2. trying \in Tried /\ trying # Dispatch /\ trying # RawProvider /\ trying <= Candidates
    BY <2>1 DEF SaasInv, CandidatesClean, AtCandidate, Tried, Dispatch, RawProvider
  <2>3. ReleaseEach({trying}) /\ sources' \in [Tried -> 0..Tables] /\ \A c \in Tried : sources'[c] = IF c = trying THEN 0 ELSE sources[c]
    BY <2>1, CloseKeeps DEF SaasInv
  <2>4. /\ holds' = holds \ {trying} /\ holders' = Cardinality(holds') /\ holders' \in Int
        /\ indexDb' \in {"closed", "open"} /\ (indexDb' = "open" <=> holds' # {}) /\ loads' = loads
    BY <2>3, ReleaseKeeps DEF SaasInv
  <2> QED  BY <2>1, <2>2, <2>3, <2>4 DEF SaasInv, SaasTypeOK, IndexHeld, LoadedOnce, CandidatesClean, AtCandidate
<1>10. CASE Raise
  <2> DEFINE set == answering \cup ({trying} \cap Tried) \cup (IF place = "raw" THEN {RawProvider} ELSE {})
  <2>1. place \in {"begin", "tables", "tree", "raw"} /\ place' = "raising" /\ answering' = {} /\ UNCHANGED <<indexKind, trying>> /\ CloseEach(set)
    BY <1>10 DEF Raise
  <2>2. Dispatch \notin set \/ holds = {}
    BY DEF Dispatch, Tried, SaasInv, SaasTypeOK, RawProvider
  <2>3. \A c \in Tried : c \in holds \/ sources[c] # 0 => c \in set
    BY <2>1 DEF SaasInv, CandidatesClean, AtCandidate
  <2>4. RawProvider \in holds => RawProvider \in set
    BY <2>1 DEF SaasInv, IndexHeld
  <2> HIDE DEF set
  <2>5. ReleaseEach(set) /\ sources' \in [Tried -> 0..Tables] /\ \A c \in Tried : sources'[c] = IF c \in set THEN 0 ELSE sources[c]
    BY <2>1, CloseKeeps DEF SaasInv
  <2>6. /\ holds' = holds \ set /\ holders' = Cardinality(holds') /\ holders' \in Int
        /\ indexDb' \in {"closed", "open"} /\ (indexDb' = "open" <=> holds' # {}) /\ loads' = loads
    BY <2>5, ReleaseKeeps DEF SaasInv
  <2> QED  BY <2>1, <2>2, <2>3, <2>4, <2>5, <2>6 DEF SaasInv, SaasTypeOK, IndexHeld, LoadedOnce, CandidatesClean, AtCandidate
<1>11. CASE OpenRaw
  <2>1. place = "raw" /\ place' = "leaving" /\ trying' = RawProvider /\ UNCHANGED <<indexKind, sources, answering>>
    BY <1>11 DEF OpenRaw
  <2>2. answering = {} /\ RawProvider \in Owners /\ RawProvider \notin Tried /\ RawProvider # Dispatch /\ RawProvider \notin holds
        /\ RawProvider \in 0..Candidates + 1
    BY <2>1 DEF SaasInv, IndexHeld, CandidatesClean, RawProvider, Tried, Owners, Dispatch
  <2>3. CASE Acquire(RawProvider)
    <3>1. indexKind = "ok" /\ Dispatch \in holds
      BY <2>1, <2>3 DEF Acquire, SaasInv, IndexHeld
    <3>2. indexDb' = "open" /\ holds' = holds \cup {RawProvider} /\ holders' = Cardinality(holds') /\ holders' \in Int
          /\ holds' \subseteq Owners /\ loads' = loads
      BY <2>2, <2>3, <3>1, AcquireKeeps DEF SaasInv
    <3> QED  BY <2>1, <2>2, <3>1, <3>2 DEF SaasInv, SaasTypeOK, IndexHeld, LoadedOnce, CandidatesClean, AtCandidate
  <2>4. CASE indexKind # "ok" /\ UNCHANGED <<indexDb, loads, holders, holds>>
    BY <2>1, <2>2, <2>4 DEF SaasInv, SaasTypeOK, IndexHeld, LoadedOnce, CandidatesClean, AtCandidate
  <2> QED  BY <1>11, <2>3, <2>4 DEF OpenRaw
<1>12. CASE ReleaseDispatch
  <2>1. /\ place \in {"leaving", "raising"} /\ place' = (IF place = "leaving" THEN "open" ELSE "raised")
        /\ UNCHANGED <<indexKind, sources, trying, answering>> /\ ReleaseEach({Dispatch})
    BY <1>12 DEF ReleaseDispatch
  <2>2. /\ holds' = holds \ {Dispatch} /\ holders' = Cardinality(holds') /\ holders' \in Int
        /\ indexDb' \in {"closed", "open"} /\ (indexDb' = "open" <=> holds' # {}) /\ loads' = loads
    BY <2>1, ReleaseKeeps DEF SaasInv
  <2>3. Dispatch \notin Tried /\ RawProvider # Dispatch
    BY DEF Dispatch, Tried, RawProvider
  <2>4. \A c \in answering : c # Dispatch
    BY <2>3 DEF SaasInv, SaasTypeOK
  <2> QED  BY <2>1, <2>2, <2>3, <2>4 DEF SaasInv, SaasTypeOK, IndexHeld, LoadedOnce, CandidatesClean, AtCandidate
<1>13. CASE CloseProvider
  <2> DEFINE set == answering \cup {RawProvider}
  <2>1. place = "open" /\ place' = "closed" /\ answering' = {} /\ UNCHANGED <<indexKind, trying>> /\ CloseEach(set)
    BY <1>13 DEF CloseProvider
  <2>2. RawProvider \in set /\ (\A c \in Tried : c \in holds \/ sources[c] # 0 => c \in set) /\ Dispatch \notin holds
    BY <2>1 DEF SaasInv, CandidatesClean, IndexHeld, AtCandidate
  <2> HIDE DEF set
  <2>3. ReleaseEach(set) /\ sources' \in [Tried -> 0..Tables] /\ \A c \in Tried : sources'[c] = IF c \in set THEN 0 ELSE sources[c]
    BY <2>1, CloseKeeps DEF SaasInv
  <2>4. /\ holds' = holds \ set /\ holders' = Cardinality(holds') /\ holders' \in Int
        /\ indexDb' \in {"closed", "open"} /\ (indexDb' = "open" <=> holds' # {}) /\ loads' = loads
    BY <2>3, ReleaseKeeps DEF SaasInv
  <2> QED  BY <2>1, <2>2, <2>3, <2>4 DEF SaasInv, SaasTypeOK, IndexHeld, LoadedOnce, CandidatesClean, AtCandidate
<1> QED  BY <1>1, <1>2, <1>3, <1>4, <1>5, <1>6, <1>7, <1>8, <1>9, <1>10, <1>11, <1>12, <1>13 DEF SaasNext

LEMMA SaasProperties == SaasInv => IndexFollowsHolds /\ IndexLoadsOnce /\ DispatchIsClean
<1> SUFFICES ASSUME SaasInv PROVE IndexFollowsHolds /\ IndexLoadsOnce /\ DispatchIsClean
  OBVIOUS
<1>1. IndexFollowsHolds /\ IndexLoadsOnce
  BY DEF SaasInv, IndexHeld, LoadedOnce, CandidatesClean, IndexFollowsHolds, IndexLoadsOnce
<1>2. \A c \in Tried : sources[c] # 0 \/ c \in holds => c \in answering \/ (c = trying /\ place \in {"tables", "tree", "failed"})
  BY DEF SaasInv, CandidatesClean, AtCandidate
<1>3. ASSUME place \in {"raised", "closed"}
      PROVE  holds = {} /\ indexDb = "closed" /\ sources = [c \in Tried |-> 0]
  <2>1. \A c \in Tried : sources[c] = 0 /\ c \notin holds
    BY <1>3 DEF SaasInv, CandidatesClean, AtCandidate
  <2>2. \A o \in Owners : o \in Tried \/ o = Dispatch \/ o = RawProvider
    BY CandidatesAssumption DEF Owners, Tried, Dispatch, RawProvider
  <2>3. holds = {}
    BY <1>3, <2>1, <2>2 DEF SaasInv, SaasTypeOK, IndexHeld
  <2>4. sources = [c \in Tried |-> 0]
    BY <2>1 DEF SaasInv, SaasTypeOK
  <2> QED  BY <2>3, <2>4 DEF SaasInv, SaasTypeOK, IndexHeld
<1>4. place = "open" => IF answering = {} THEN trying = RawProvider ELSE \A c \in answering : sources[c] = Tables
  BY DEF SaasInv, CandidatesClean
<1> QED  BY <1>1, <1>2, <1>3, <1>4 DEF DispatchIsClean

-----------------------------------------------------------------------------
(* The theorems. *)

\* One component moves and the others stand still.
LEMMA StorageParts ==
  /\ Init => SmbInit /\ S3Init /\ TempInit /\ ProfInit
  /\ [Next]_<<part, input, Owned, Backend>> =>
        /\ SmbNext \/ UNCHANGED smbVars
        /\ S3Next \/ UNCHANGED s3Vars
        /\ TempNext \/ UNCHANGED tempVars
        /\ ProfNext \/ UNCHANGED profVars
<1>1. Init => SmbInit /\ S3Init /\ TempInit /\ ProfInit
  BY DEF Init
<1>2. ASSUME [Next]_<<part, input, Owned, Backend>>
      PROVE  /\ SmbNext \/ UNCHANGED smbVars
             /\ S3Next \/ UNCHANGED s3Vars
             /\ TempNext \/ UNCHANGED tempVars
             /\ ProfNext \/ UNCHANGED profVars
  BY <1>2 DEF Next, Backend
<1> QED  BY <1>1, <1>2

\* The SMB pool (_acquire_slot, _release_slot, _drop_slot_session, _OpenHandles): no permit or slot is
\* lost or doubled, a call that timed out stays apart from every session in use, and a session keeps few
\* handles, whatever the number of callers, slots and attempts.
THEOREM SlotsStaySound == Spec => []SlotsAreSound
<1>1. Init => SmbInv
  BY StorageParts, SmbStart
<1>2. SmbInv /\ [Next]_<<part, input, Owned, Backend>> => SmbInv'
  BY StorageParts, SmbStep
<1>3. SmbInv => SlotsAreSound
  BY SmbProperties DEF SlotsAreSound
<1> QED  BY <1>1, <1>2, <1>3, PTL DEF Spec

\* A profile that is listed has the secrets its fields say it was given (save_profile, delete_profile),
\* after any crash or refusal of the keyring, as long as one process edits the profiles.
THEOREM ListedKeepSecrets ==
  ASSUME OneUser
  PROVE  Spec => []ListedHasSecrets
<1>1. Init => ProfInv
  BY StorageParts, ProfStart
<1>2. ProfInv /\ [Next]_<<part, input, Owned, Backend>> => ProfInv'
  BY StorageParts, ProfStep
<1>3. ProfInv => ListedHasSecrets
  BY ProfProperty
<1> QED  BY <1>1, <1>2, <1>3, PTL DEF Spec

==============================================================================
