---------------------------- MODULE HandlesProofs ----------------------------
(***************************************************************************)
(* The owners of handles: Repository, Session and DedupRepo never give out *)
(* what is closed and leave nothing open.  As in StorageProofs, each       *)
(* section gives the inductive invariant of one component; the theorems    *)
(* put them together.                                                      *)
(***************************************************************************)
EXTENDS StorageProofs

-----------------------------------------------------------------------------
(* RepositoryLifecycle.  KeyInv: every catalog in the cache or on its way there uses the adopted
   key.  LifeInv: every opened catalog has exactly one owner that will close it. *)

KeyStrings == {NoKey} \cup GoodKeys \cup BadKeys \cup UNION {Tries[s] : s \in Setters}
Numbers == Ids \cup {0}

CacheTypes ==
    /\ cat \in [Catalogs -> Numbers] /\ opening \in [Catalogs -> Numbers]
    /\ opened \in [Ids -> [st : {"unborn", "opening", "open", "closed"}, key : KeyStrings]]
    /\ adopted \in KeyStrings
SettleTypes ==
    held \in [Settlers -> [Catalogs -> Numbers]] /\ landed \in [Settlers -> [Catalogs -> Numbers]]
SetTypes ==
    /\ setPc \in [Setters -> {"idle", "verify", "settle", "reopen", "close", "done"}]
    /\ setKey \in [Setters -> KeyStrings]
    /\ setOld \in [Setters -> SUBSET (Catalogs \X Ids)]
CloseTypes ==
    closePc \in {"idle", "providers", "settle", "catalogs", "done"} /\ closeSet \subseteq Ids
DropTypes ==
    /\ dropPc \in {"idle", "settle", "drop", "reread"}
    /\ dropSet \subseteq Catalogs \X Ids
    /\ dropPc = "reread" => dropping \in Catalogs \X Ids
ProviderTypes == provider \in [Providers -> {"none", "building", "tracked", "releasing", "closed"}]

\* An opened catalog that has the key adopted now.
UsesAdopted(i) == opened[i].st # "unborn" /\ opened[i].key = adopted

KeyOfCache == \A c \in Catalogs : (cat[c] # 0 => UsesAdopted(cat[c])) /\ (opening[c] # 0 => UsesAdopted(opening[c]))
\* What invalidate_caches holds, and puts back, has it too.
KeyOfDrop ==
    /\ dropPc \in {"idle", "settle"} => dropSet = {}
    /\ \A ci \in dropSet : UsesAdopted(ci[2])
    /\ dropPc = "reread" => UsesAdopted(dropping[2])
    /\ dropPc = "settle" => \A c \in Catalogs : /\ held["drop"][c] # 0 => UsesAdopted(held["drop"][c])
                                                /\ landed["drop"][c] # 0 => UsesAdopted(landed["drop"][c])

\* An opened catalog whose open has ended.
Lived(i) == opened[i].st \in {"open", "closed"}
CacheLife ==
    \A c \in Catalogs :
        /\ opening[c] # 0 => opened[opening[c]].st = "opening" /\ cat[c] = 0
        /\ cat[c] # 0 => Lived(cat[c]) /\ (opened[cat[c]].st = "open" \/ closePc = "catalogs")
OneEach ==
    \A c, d \in Catalogs : c # d => /\ opening[c] # 0 => opening[c] # opening[d]
                                    /\ cat[c] # 0 => cat[c] # cat[d]
\* What set_key is about to close is nowhere in the cache.
OldLife ==
    \A s \in Setters : /\ setOld[s] # {} => setPc[s] \in {"reopen", "close"}
                       /\ \A ci \in setOld[s] : Lived(ci[2]) /\ \A c \in Catalogs : cat[c] # ci[2]
SettleLife ==
    \A t \in Settlers : \A c \in Catalogs : /\ held[t][c] # 0 => Lived(held[t][c])
                                            /\ landed[t][c] # 0 => Lived(landed[t][c])
CloseWaits ==
    /\ repoClosed <=> closePc # "idle"
    /\ closePc = "settle" => \A c \in Catalogs :
          landed["close"][c] # 0 => opening[c] = 0 /\ cat[c] \in {0, landed["close"][c]}
    /\ closePc \in {"catalogs", "done"} => \A c \in Catalogs : opening[c] = 0
CloseSweeps ==
    /\ \A i \in closeSet : Lived(i)
    /\ closePc = "catalogs" => \A c \in Catalogs : cat[c] # 0 => cat[c] \in closeSet \/ opened[cat[c]].st = "closed"
    /\ closePc = "done" => \A c \in Catalogs : cat[c] = 0
\* invalidate_caches has the repository to itself.
DropAlone ==
    dropPc # "idle" =>
        /\ closePc = "idle" /\ \A c \in Catalogs : opening[c] = 0
        /\ \A s \in Setters : setPc[s] \in {"idle", "verify", "settle", "done"}
DropHolds ==
    /\ dropPc = "settle" => \A c \in Catalogs : held["drop"][c] = cat[c] /\ landed["drop"][c] = 0
    /\ dropPc # "idle" => \A ci \in dropSet : cat[ci[1]] = ci[2]
    /\ dropPc = "reread" => cat[dropping[1]] = dropping[2]
\* What is open has somebody who will close it.
HasOwner ==
    \A i \in Ids :
        /\ opened[i].st = "opening" => \E c \in Catalogs : opening[c] = i
        /\ opened[i].st = "open" => \/ \E c \in Catalogs : cat[c] = i
                                    \/ \E s \in Setters : \E c \in Catalogs : <<c, i>> \in setOld[s]
ProviderLife ==
    /\ closePc # "idle" => \A p \in Providers : provider[p] # "building"
    /\ closePc \in {"settle", "catalogs", "done"} => \A p \in Providers : provider[p] \in {"none", "closed"}

RepoTypes == CacheTypes /\ SettleTypes /\ SetTypes /\ CloseTypes /\ DropTypes /\ ProviderTypes
KeyInv == RepoTypes /\ KeyOfCache /\ KeyOfDrop
LifeInv == /\ CacheLife /\ OneEach /\ OldLife /\ SettleLife /\ CloseWaits /\ CloseSweeps
           /\ DropAlone /\ DropHolds /\ HasOwner /\ ProviderLife

LEMMA KeyAsk ==
  ASSUME KeyInv, "drop" \notin Overlaps, NEW c \in Catalogs, Ask(c)
  PROVE  KeyInv'
<1>u. UNCHANGED <<adopted, keyStatus, cat, repoClosed, provider, setPc, setKey, setOld, closePc, closeSet, dropPc, dropSet, dropping, held, landed>>
  BY DEF Ask, OpenCatalog, Born, setVars, closeVars, dropVars, keyVars, cacheVars
<1>t. RepoTypes /\ KeyOfCache /\ KeyOfDrop
  BY DEF KeyInv
<1>1. SettleTypes' /\ SetTypes' /\ CloseTypes' /\ DropTypes' /\ ProviderTypes'
  BY <1>u, <1>t DEF RepoTypes, CloseTypes, DropTypes, ProviderTypes, SetTypes, SettleTypes
<1>2. CacheTypes'
  BY <1>u, <1>t, RepositoryAssumption DEF CacheTypes, Numbers, Settlers, RepoTypes, SettleTypes, SetTypes, CloseTypes, DropTypes, ProviderTypes, Ids, CallersExclude, Ask, OpenCatalog, Born
<1>3. KeyOfCache'
  BY <1>u, <1>t, RepositoryAssumption DEF KeyOfCache, UsesAdopted, Numbers, Settlers, RepoTypes, CacheTypes, SettleTypes, SetTypes, CloseTypes, DropTypes, ProviderTypes, Ids, CallersExclude, Ask, OpenCatalog, Born
<1>4. KeyOfDrop'
  BY <1>u, <1>t, RepositoryAssumption DEF KeyOfDrop, UsesAdopted, Numbers, Settlers, RepoTypes, CacheTypes, SettleTypes, SetTypes, CloseTypes, DropTypes, ProviderTypes, Ids, CallersExclude, Ask, OpenCatalog, Born
<1> QED  BY <1>1, <1>2, <1>3, <1>4 DEF KeyInv, RepoTypes

LEMMA KeyOpened ==
  ASSUME KeyInv, "drop" \notin Overlaps, NEW c \in Catalogs, Opened(c)
  PROVE  KeyInv'
<1>u. UNCHANGED <<adopted, keyStatus, repoClosed, provider, setPc, setKey, setOld, closePc, closeSet, dropPc, dropSet, dropping, held>>
  BY DEF Opened, InSettle, setVars, closeVars, dropVars, keyVars, cacheVars
<1>t. RepoTypes /\ KeyOfCache /\ KeyOfDrop
  BY DEF KeyInv
<1>1. SetTypes' /\ CloseTypes' /\ DropTypes' /\ ProviderTypes'
  BY <1>u, <1>t DEF RepoTypes, CloseTypes, DropTypes, ProviderTypes, SetTypes
<1>2. CacheTypes'
  <2>1. opening[c] \in Ids
    BY <1>t DEF Opened, RepoTypes, CacheTypes, Numbers
  <2>2. opened' \in [Ids -> [st : {"unborn", "opening", "open", "closed"}, key : KeyStrings]]
    BY <2>1, <1>t DEF Opened, RepoTypes, CacheTypes
  <2> QED  BY <2>1, <2>2, <1>u, <1>t DEF Opened, RepoTypes, CacheTypes, Numbers
<1>3. SettleTypes'
  BY <1>u, <1>t, RepositoryAssumption DEF SettleTypes, Numbers, Settlers, RepoTypes, CacheTypes, SetTypes, CloseTypes, DropTypes, ProviderTypes, Ids, CallersExclude, Opened, InSettle
<1>4. KeyOfCache'
  BY <1>u, <1>t, RepositoryAssumption DEF KeyOfCache, UsesAdopted, Numbers, Settlers, RepoTypes, CacheTypes, SettleTypes, SetTypes, CloseTypes, DropTypes, ProviderTypes, Ids, CallersExclude, Opened, InSettle
<1>5. KeyOfDrop'
  BY <1>u, <1>t, RepositoryAssumption DEF KeyOfDrop, UsesAdopted, KeyOfCache, Numbers, Settlers, RepoTypes, CacheTypes, SettleTypes, SetTypes, CloseTypes, DropTypes, ProviderTypes, Ids, CallersExclude, Opened, InSettle
<1> QED  BY <1>1, <1>2, <1>3, <1>4, <1>5 DEF KeyInv, RepoTypes

LEMMA KeyOpenFails ==
  ASSUME KeyInv, "drop" \notin Overlaps, NEW c \in Catalogs, OpenFails(c)
  PROVE  KeyInv'
<1>u. UNCHANGED <<adopted, keyStatus, cat, repoClosed, provider, setPc, setKey, setOld, closePc, closeSet, dropPc, dropSet, dropping, held, landed>>
  BY DEF OpenFails, setVars, closeVars, dropVars, keyVars, cacheVars
<1>t. RepoTypes /\ KeyOfCache /\ KeyOfDrop
  BY DEF KeyInv
<1>1. SettleTypes' /\ SetTypes' /\ CloseTypes' /\ DropTypes' /\ ProviderTypes'
  BY <1>u, <1>t DEF RepoTypes, CloseTypes, DropTypes, ProviderTypes, SetTypes, SettleTypes
<1>2. CacheTypes'
  <2>1. opening[c] \in Ids
    BY <1>t DEF RepoTypes, CacheTypes, Numbers, OpenFails
  <2>2. opened' = [opened EXCEPT ![opening[c]].st = "closed"] /\ opening' = [opening EXCEPT ![c] = 0]
    BY DEF OpenFails
  <2>3. opened' \in [Ids -> [st : {"unborn", "opening", "open", "closed"}, key : KeyStrings]]
    BY <1>t, <2>1, <2>2 DEF RepoTypes, CacheTypes
  <2>4. opening' \in [Catalogs -> Numbers]
    BY <1>t, <2>2 DEF RepoTypes, CacheTypes, Numbers
  <2> QED  BY <1>u, <1>t, <2>3, <2>4 DEF RepoTypes, CacheTypes
<1>3. KeyOfCache'
  BY <1>u, <1>t, RepositoryAssumption DEF KeyOfCache, UsesAdopted, Numbers, Settlers, RepoTypes, CacheTypes, SettleTypes, SetTypes, CloseTypes, DropTypes, ProviderTypes, Ids, CallersExclude, OpenFails
<1>4. KeyOfDrop'
  BY <1>u, <1>t, RepositoryAssumption DEF KeyOfDrop, UsesAdopted, Numbers, Settlers, RepoTypes, CacheTypes, SettleTypes, SetTypes, CloseTypes, DropTypes, ProviderTypes, Ids, CallersExclude, OpenFails
<1> QED  BY <1>1, <1>2, <1>3, <1>4 DEF KeyInv, RepoTypes

LEMMA KeySetKeyBegins ==
  ASSUME KeyInv, "drop" \notin Overlaps, NEW s \in Setters, NEW k \in Tries[s], SetKeyBegins(s, k)
  PROVE  KeyInv'
<1>u. UNCHANGED <<adopted, keyStatus, cat, opening, opened, repoClosed, provider, setOld, closePc, closeSet, dropPc, dropSet, dropping, held, landed>>
  BY DEF SetKeyBegins, setVars, closeVars, dropVars, keyVars, cacheVars
<1>t. RepoTypes /\ KeyOfCache /\ KeyOfDrop
  BY DEF KeyInv
<1>1. CacheTypes' /\ SettleTypes' /\ CloseTypes' /\ DropTypes' /\ ProviderTypes' /\ KeyOfCache' /\ KeyOfDrop'
  BY <1>u, <1>t DEF RepoTypes, CacheTypes, CloseTypes, DropTypes, KeyOfCache, KeyOfDrop, ProviderTypes, SettleTypes, UsesAdopted
<1>2. SetTypes'
  <2>1. k \in KeyStrings
    BY DEF KeyStrings
  <2> QED  BY <2>1, <1>u, <1>t DEF SetKeyBegins, RepoTypes, SetTypes
<1> QED  BY <1>1, <1>2 DEF KeyInv, RepoTypes

LEMMA KeySetKeyRejected ==
  ASSUME KeyInv, "drop" \notin Overlaps, NEW s \in Setters, SetKeyRejected(s)
  PROVE  KeyInv'
<1>u. UNCHANGED <<adopted, cat, opening, opened, repoClosed, provider, setKey, setOld, closePc, closeSet, dropPc, dropSet, dropping, held, landed>>
  BY DEF SetKeyRejected, RecordKey, setVars, closeVars, dropVars, keyVars, cacheVars
<1>t. RepoTypes /\ KeyOfCache /\ KeyOfDrop
  BY DEF KeyInv
<1>1. CacheTypes' /\ SettleTypes' /\ CloseTypes' /\ DropTypes' /\ ProviderTypes' /\ KeyOfCache' /\ KeyOfDrop'
  BY <1>u, <1>t DEF RepoTypes, CacheTypes, CloseTypes, DropTypes, KeyOfCache, KeyOfDrop, ProviderTypes, SettleTypes, UsesAdopted
<1>2. SetTypes'
  BY <1>u, <1>t, RepositoryAssumption DEF SetTypes, Numbers, Settlers, RepoTypes, CacheTypes, SettleTypes, CloseTypes, DropTypes, ProviderTypes, Ids, CallersExclude, SetKeyRejected, RecordKey
<1> QED  BY <1>1, <1>2 DEF KeyInv, RepoTypes

LEMMA KeySetKeyRaises ==
  ASSUME KeyInv, "drop" \notin Overlaps, NEW s \in Setters, SetKeyRaises(s)
  PROVE  KeyInv'
<1>u. UNCHANGED <<adopted, keyStatus, cat, opening, opened, repoClosed, provider, setKey, setOld, closePc, closeSet, dropPc, dropSet, dropping, held, landed>>
  BY DEF SetKeyRaises, setVars, closeVars, dropVars, keyVars, cacheVars
<1>t. RepoTypes /\ KeyOfCache /\ KeyOfDrop
  BY DEF KeyInv
<1>1. CacheTypes' /\ SettleTypes' /\ CloseTypes' /\ DropTypes' /\ ProviderTypes' /\ KeyOfCache' /\ KeyOfDrop'
  BY <1>u, <1>t DEF RepoTypes, CacheTypes, CloseTypes, DropTypes, KeyOfCache, KeyOfDrop, ProviderTypes, SettleTypes, UsesAdopted
<1>2. SetTypes'
  BY <1>u, <1>t, RepositoryAssumption DEF SetTypes, Numbers, Settlers, RepoTypes, CacheTypes, SettleTypes, CloseTypes, DropTypes, ProviderTypes, Ids, CallersExclude, SetKeyRaises
<1> QED  BY <1>1, <1>2 DEF KeyInv, RepoTypes

LEMMA KeySetKeyVerified ==
  ASSUME KeyInv, "drop" \notin Overlaps, NEW s \in Setters, SetKeyVerified(s)
  PROVE  KeyInv'
<1>u. UNCHANGED <<adopted, keyStatus, cat, opening, opened, repoClosed, provider, setKey, setOld, closePc, closeSet, dropPc, dropSet, dropping>>
  BY DEF SetKeyVerified, SettleBegins, setVars, closeVars, dropVars, keyVars, cacheVars
<1>t. RepoTypes /\ KeyOfCache /\ KeyOfDrop
  BY DEF KeyInv
<1>1. CacheTypes' /\ CloseTypes' /\ DropTypes' /\ ProviderTypes' /\ KeyOfCache'
  BY <1>u, <1>t DEF RepoTypes, CacheTypes, CloseTypes, DropTypes, KeyOfCache, ProviderTypes, UsesAdopted
<1>2. SettleTypes'
  <2>1. s \in Settlers /\ cat \in [Catalogs -> Numbers] /\ NoIds \in [Catalogs -> Numbers]
    BY <1>t DEF Settlers, RepoTypes, CacheTypes, NoIds, Numbers
  <2> QED  BY <2>1, <1>t DEF SetKeyVerified, SettleBegins, RepoTypes, SettleTypes
<1>3. SetTypes'
  BY <1>u, <1>t, RepositoryAssumption DEF SetTypes, Numbers, Settlers, RepoTypes, CacheTypes, SettleTypes, CloseTypes, DropTypes, ProviderTypes, Ids, CallersExclude, SetKeyVerified, SettleBegins
<1>4. KeyOfDrop'
  BY <1>u, <1>t, RepositoryAssumption DEF KeyOfDrop, UsesAdopted, Numbers, Settlers, RepoTypes, CacheTypes, SettleTypes, SetTypes, CloseTypes, DropTypes, ProviderTypes, Ids, CallersExclude, SetKeyVerified, SettleBegins
<1> QED  BY <1>1, <1>2, <1>3, <1>4 DEF KeyInv, RepoTypes

LEMMA KeyAdopt ==
  ASSUME KeyInv, "drop" \notin Overlaps, NEW s \in Setters, Adopt(s)
  PROVE  KeyInv'
<1>u. UNCHANGED <<keyStatus, opening, opened, repoClosed, provider, setKey, closePc, closeSet, dropPc, dropSet, dropping>>
  BY DEF Adopt, SettleEnds, Settled, NoIds, setVars, closeVars, dropVars, keyVars, cacheVars
<1>t. RepoTypes /\ KeyOfCache /\ KeyOfDrop
  BY DEF KeyInv
<1>1. CloseTypes' /\ DropTypes' /\ ProviderTypes'
  BY <1>u, <1>t DEF RepoTypes, CloseTypes, DropTypes, ProviderTypes
<1>2. CacheTypes'
  BY <1>u, <1>t, RepositoryAssumption DEF CacheTypes, Numbers, Settlers, RepoTypes, SettleTypes, SetTypes, CloseTypes, DropTypes, ProviderTypes, Ids, CallersExclude, Adopt, SettleEnds, Settled, NoIds
<1>3. SettleTypes'
  BY <1>u, <1>t, RepositoryAssumption DEF SettleTypes, Numbers, Settlers, RepoTypes, CacheTypes, SetTypes, CloseTypes, DropTypes, ProviderTypes, Ids, CallersExclude, Adopt, SettleEnds, Settled, NoIds
<1>4. SetTypes'
  BY <1>u, <1>t, RepositoryAssumption DEF SetTypes, Numbers, Settlers, RepoTypes, CacheTypes, SettleTypes, CloseTypes, DropTypes, ProviderTypes, Ids, CallersExclude, Adopt, SettleEnds, Settled, NoIds
<1>5. KeyOfCache'
  BY <1>u, <1>t, RepositoryAssumption DEF KeyOfCache, UsesAdopted, Numbers, Settlers, RepoTypes, CacheTypes, SettleTypes, SetTypes, CloseTypes, DropTypes, ProviderTypes, Ids, CallersExclude, Adopt, SettleEnds, Settled, NoIds
<1>6. KeyOfDrop'
  BY <1>u, <1>t, RepositoryAssumption DEF KeyOfDrop, UsesAdopted, Numbers, Settlers, RepoTypes, CacheTypes, SettleTypes, SetTypes, CloseTypes, DropTypes, ProviderTypes, Ids, CallersExclude, Adopt, SettleEnds, Settled, NoIds
<1> QED  BY <1>1, <1>2, <1>3, <1>4, <1>5, <1>6 DEF KeyInv, RepoTypes

LEMMA KeyReopen ==
  ASSUME KeyInv, "drop" \notin Overlaps, NEW s \in Setters, NEW c \in Catalogs, Reopen(s, c)
  PROVE  KeyInv'
<1>u. UNCHANGED <<adopted, keyStatus, cat, repoClosed, provider, setPc, setKey, setOld, closePc, closeSet, dropPc, dropSet, dropping, held, landed>>
  BY DEF Reopen, OpenCatalog, Born, setVars, closeVars, dropVars, keyVars, cacheVars
<1>t. RepoTypes /\ KeyOfCache /\ KeyOfDrop
  BY DEF KeyInv
<1>1. SettleTypes' /\ SetTypes' /\ CloseTypes' /\ DropTypes' /\ ProviderTypes'
  BY <1>u, <1>t DEF RepoTypes, CloseTypes, DropTypes, ProviderTypes, SetTypes, SettleTypes
<1>2. CacheTypes'
  BY <1>u, <1>t, RepositoryAssumption DEF CacheTypes, Numbers, Settlers, RepoTypes, SettleTypes, SetTypes, CloseTypes, DropTypes, ProviderTypes, Ids, CallersExclude, Reopen, OpenCatalog, Born
<1>3. KeyOfCache'
  BY <1>u, <1>t, RepositoryAssumption DEF KeyOfCache, UsesAdopted, Numbers, Settlers, RepoTypes, CacheTypes, SettleTypes, SetTypes, CloseTypes, DropTypes, ProviderTypes, Ids, CallersExclude, Reopen, OpenCatalog, Born
<1>4. KeyOfDrop'
  BY <1>u, <1>t, RepositoryAssumption DEF KeyOfDrop, UsesAdopted, Numbers, Settlers, RepoTypes, CacheTypes, SettleTypes, SetTypes, CloseTypes, DropTypes, ProviderTypes, Ids, CallersExclude, Reopen, OpenCatalog, Born
<1> QED  BY <1>1, <1>2, <1>3, <1>4 DEF KeyInv, RepoTypes

LEMMA KeyReopened ==
  ASSUME KeyInv, "drop" \notin Overlaps, NEW s \in Setters, Reopened(s)
  PROVE  KeyInv'
<1>u. UNCHANGED <<adopted, keyStatus, cat, opening, opened, repoClosed, provider, setKey, setOld, closePc, closeSet, dropPc, dropSet, dropping, held, landed>>
  BY DEF Reopened, setVars, closeVars, dropVars, keyVars, cacheVars
<1>t. RepoTypes /\ KeyOfCache /\ KeyOfDrop
  BY DEF KeyInv
<1>1. CacheTypes' /\ SettleTypes' /\ CloseTypes' /\ DropTypes' /\ ProviderTypes' /\ KeyOfCache' /\ KeyOfDrop'
  BY <1>u, <1>t DEF RepoTypes, CacheTypes, CloseTypes, DropTypes, KeyOfCache, KeyOfDrop, ProviderTypes, SettleTypes, UsesAdopted
<1>2. SetTypes'
  BY <1>u, <1>t, RepositoryAssumption DEF SetTypes, Numbers, Settlers, RepoTypes, CacheTypes, SettleTypes, CloseTypes, DropTypes, ProviderTypes, Ids, CallersExclude, Reopened
<1> QED  BY <1>1, <1>2 DEF KeyInv, RepoTypes

LEMMA KeyCloseOld ==
  ASSUME KeyInv, "drop" \notin Overlaps, NEW s \in Setters, CloseOld(s)
  PROVE  KeyInv'
<1>u. UNCHANGED <<adopted, keyStatus, cat, opening, repoClosed, provider, setPc, setKey, closePc, closeSet, dropPc, dropSet, dropping, held, landed>>
  BY DEF CloseOld, setVars, closeVars, dropVars, keyVars, cacheVars
<1>t. RepoTypes /\ KeyOfCache /\ KeyOfDrop
  BY DEF KeyInv
<1>1. SettleTypes' /\ CloseTypes' /\ DropTypes' /\ ProviderTypes'
  BY <1>u, <1>t DEF RepoTypes, CloseTypes, DropTypes, ProviderTypes, SettleTypes
<1>2. CacheTypes'
  <2>1. PICK ci \in setOld[s] : opened' = [opened EXCEPT ![ci[2]].st = "closed"]
    BY DEF CloseOld
  <2>2. ci[2] \in Ids
    BY <2>1, <1>t DEF RepoTypes, SetTypes
  <2> QED  BY <2>1, <2>2, <1>u, <1>t DEF RepoTypes, CacheTypes
<1>3. SetTypes'
  BY <1>u, <1>t, RepositoryAssumption DEF SetTypes, Numbers, Settlers, RepoTypes, CacheTypes, SettleTypes, CloseTypes, DropTypes, ProviderTypes, Ids, CallersExclude, CloseOld
<1>4. KeyOfCache'
  BY <1>u, <1>t, RepositoryAssumption DEF KeyOfCache, UsesAdopted, Numbers, Settlers, RepoTypes, CacheTypes, SettleTypes, SetTypes, CloseTypes, DropTypes, ProviderTypes, Ids, CallersExclude, CloseOld
<1>5. KeyOfDrop'
  BY <1>u, <1>t, RepositoryAssumption DEF KeyOfDrop, UsesAdopted, Numbers, Settlers, RepoTypes, CacheTypes, SettleTypes, SetTypes, CloseTypes, DropTypes, ProviderTypes, Ids, CallersExclude, CloseOld
<1> QED  BY <1>1, <1>2, <1>3, <1>4, <1>5 DEF KeyInv, RepoTypes

LEMMA KeySetKeyEnds ==
  ASSUME KeyInv, "drop" \notin Overlaps, NEW s \in Setters, SetKeyEnds(s)
  PROVE  KeyInv'
<1>u. UNCHANGED <<adopted, cat, opening, opened, repoClosed, provider, setKey, setOld, closePc, closeSet, dropPc, dropSet, dropping, held, landed>>
  BY DEF SetKeyEnds, RecordKey, setVars, closeVars, dropVars, keyVars, cacheVars
<1>t. RepoTypes /\ KeyOfCache /\ KeyOfDrop
  BY DEF KeyInv
<1>1. CacheTypes' /\ SettleTypes' /\ CloseTypes' /\ DropTypes' /\ ProviderTypes' /\ KeyOfCache' /\ KeyOfDrop'
  BY <1>u, <1>t DEF RepoTypes, CacheTypes, CloseTypes, DropTypes, KeyOfCache, KeyOfDrop, ProviderTypes, SettleTypes, UsesAdopted
<1>2. SetTypes'
  BY <1>u, <1>t, RepositoryAssumption DEF SetTypes, Numbers, Settlers, RepoTypes, CacheTypes, SettleTypes, CloseTypes, DropTypes, ProviderTypes, Ids, CallersExclude, SetKeyEnds, RecordKey
<1> QED  BY <1>1, <1>2 DEF KeyInv, RepoTypes

LEMMA KeyBuildProvider ==
  ASSUME KeyInv, "drop" \notin Overlaps, NEW p \in Providers, BuildProvider(p)
  PROVE  KeyInv'
<1>u. UNCHANGED <<adopted, keyStatus, cat, opening, opened, repoClosed, setPc, setKey, setOld, closePc, closeSet, dropPc, dropSet, dropping, held, landed>>
  BY DEF BuildProvider, setVars, closeVars, dropVars, keyVars, cacheVars
<1>t. RepoTypes /\ KeyOfCache /\ KeyOfDrop
  BY DEF KeyInv
<1>1. CacheTypes' /\ SettleTypes' /\ SetTypes' /\ CloseTypes' /\ DropTypes' /\ KeyOfCache' /\ KeyOfDrop'
  BY <1>u, <1>t DEF RepoTypes, CacheTypes, CloseTypes, DropTypes, KeyOfCache, KeyOfDrop, SetTypes, SettleTypes, UsesAdopted
<1>2. ProviderTypes'
  BY <1>u, <1>t, RepositoryAssumption DEF ProviderTypes, Numbers, Settlers, RepoTypes, CacheTypes, SettleTypes, SetTypes, CloseTypes, DropTypes, Ids, CallersExclude, BuildProvider
<1> QED  BY <1>1, <1>2 DEF KeyInv, RepoTypes

LEMMA KeyTrack ==
  ASSUME KeyInv, "drop" \notin Overlaps, NEW p \in Providers, Track(p)
  PROVE  KeyInv'
<1>u. UNCHANGED <<adopted, keyStatus, cat, opening, opened, repoClosed, setPc, setKey, setOld, closePc, closeSet, dropPc, dropSet, dropping, held, landed>>
  BY DEF Track, setVars, closeVars, dropVars, keyVars, cacheVars
<1>t. RepoTypes /\ KeyOfCache /\ KeyOfDrop
  BY DEF KeyInv
<1>1. CacheTypes' /\ SettleTypes' /\ SetTypes' /\ CloseTypes' /\ DropTypes' /\ KeyOfCache' /\ KeyOfDrop'
  BY <1>u, <1>t DEF RepoTypes, CacheTypes, CloseTypes, DropTypes, KeyOfCache, KeyOfDrop, SetTypes, SettleTypes, UsesAdopted
<1>2. ProviderTypes'
  BY <1>u, <1>t, RepositoryAssumption DEF ProviderTypes, Numbers, Settlers, RepoTypes, CacheTypes, SettleTypes, SetTypes, CloseTypes, DropTypes, Ids, CallersExclude, Track
<1> QED  BY <1>1, <1>2 DEF KeyInv, RepoTypes

LEMMA KeyBuildFails ==
  ASSUME KeyInv, "drop" \notin Overlaps, NEW p \in Providers, BuildFails(p)
  PROVE  KeyInv'
<1>u. UNCHANGED <<adopted, keyStatus, cat, opening, opened, repoClosed, setPc, setKey, setOld, closePc, closeSet, dropPc, dropSet, dropping, held, landed>>
  BY DEF BuildFails, setVars, closeVars, dropVars, keyVars, cacheVars
<1>t. RepoTypes /\ KeyOfCache /\ KeyOfDrop
  BY DEF KeyInv
<1>1. CacheTypes' /\ SettleTypes' /\ SetTypes' /\ CloseTypes' /\ DropTypes' /\ KeyOfCache' /\ KeyOfDrop'
  BY <1>u, <1>t DEF RepoTypes, CacheTypes, CloseTypes, DropTypes, KeyOfCache, KeyOfDrop, SetTypes, SettleTypes, UsesAdopted
<1>2. ProviderTypes'
  BY <1>u, <1>t, RepositoryAssumption DEF ProviderTypes, Numbers, Settlers, RepoTypes, CacheTypes, SettleTypes, SetTypes, CloseTypes, DropTypes, Ids, CallersExclude, BuildFails
<1> QED  BY <1>1, <1>2 DEF KeyInv, RepoTypes

LEMMA KeyRelease ==
  ASSUME KeyInv, "drop" \notin Overlaps, NEW p \in Providers, Release(p)
  PROVE  KeyInv'
<1>u. UNCHANGED <<adopted, keyStatus, cat, opening, opened, repoClosed, setPc, setKey, setOld, closePc, closeSet, dropPc, dropSet, dropping, held, landed>>
  BY DEF Release, setVars, closeVars, dropVars, keyVars, cacheVars
<1>t. RepoTypes /\ KeyOfCache /\ KeyOfDrop
  BY DEF KeyInv
<1>1. CacheTypes' /\ SettleTypes' /\ SetTypes' /\ CloseTypes' /\ DropTypes' /\ KeyOfCache' /\ KeyOfDrop'
  BY <1>u, <1>t DEF RepoTypes, CacheTypes, CloseTypes, DropTypes, KeyOfCache, KeyOfDrop, SetTypes, SettleTypes, UsesAdopted
<1>2. ProviderTypes'
  BY <1>u, <1>t, RepositoryAssumption DEF ProviderTypes, Numbers, Settlers, RepoTypes, CacheTypes, SettleTypes, SetTypes, CloseTypes, DropTypes, Ids, CallersExclude, Release
<1> QED  BY <1>1, <1>2 DEF KeyInv, RepoTypes

LEMMA KeyReleaseEnds ==
  ASSUME KeyInv, "drop" \notin Overlaps, NEW p \in Providers, ReleaseEnds(p)
  PROVE  KeyInv'
<1>u. UNCHANGED <<adopted, keyStatus, cat, opening, opened, repoClosed, setPc, setKey, setOld, closePc, closeSet, dropPc, dropSet, dropping, held, landed>>
  BY DEF ReleaseEnds, setVars, closeVars, dropVars, keyVars, cacheVars
<1>t. RepoTypes /\ KeyOfCache /\ KeyOfDrop
  BY DEF KeyInv
<1>1. CacheTypes' /\ SettleTypes' /\ SetTypes' /\ CloseTypes' /\ DropTypes' /\ KeyOfCache' /\ KeyOfDrop'
  BY <1>u, <1>t DEF RepoTypes, CacheTypes, CloseTypes, DropTypes, KeyOfCache, KeyOfDrop, SetTypes, SettleTypes, UsesAdopted
<1>2. ProviderTypes'
  BY <1>u, <1>t, RepositoryAssumption DEF ProviderTypes, Numbers, Settlers, RepoTypes, CacheTypes, SettleTypes, SetTypes, CloseTypes, DropTypes, Ids, CallersExclude, ReleaseEnds
<1> QED  BY <1>1, <1>2 DEF KeyInv, RepoTypes

LEMMA KeyDropBegins ==
  ASSUME KeyInv, "drop" \notin Overlaps, DropBegins
  PROVE  KeyInv'
<1>u. UNCHANGED <<adopted, keyStatus, cat, opening, opened, repoClosed, provider, setPc, setKey, setOld, closePc, closeSet, dropSet, dropping>>
  BY DEF DropBegins, SettleBegins, Settled, NoIds, setVars, closeVars, dropVars, keyVars, cacheVars
<1>t. RepoTypes /\ KeyOfCache /\ KeyOfDrop
  BY DEF KeyInv
<1>1. CacheTypes' /\ SetTypes' /\ CloseTypes' /\ ProviderTypes' /\ KeyOfCache'
  BY <1>u, <1>t DEF RepoTypes, CacheTypes, CloseTypes, KeyOfCache, ProviderTypes, SetTypes, UsesAdopted
<1>2. SettleTypes'
  BY <1>u, <1>t, RepositoryAssumption DEF SettleTypes, Numbers, Settlers, RepoTypes, CacheTypes, SetTypes, CloseTypes, DropTypes, ProviderTypes, Ids, CallersExclude, DropBegins, SettleBegins, Settled, NoIds
<1>3. DropTypes'
  BY <1>u, <1>t, RepositoryAssumption DEF DropTypes, Numbers, Settlers, RepoTypes, CacheTypes, SettleTypes, SetTypes, CloseTypes, ProviderTypes, Ids, CallersExclude, DropBegins, SettleBegins, Settled, NoIds
<1>4. KeyOfDrop'
  BY <1>u, <1>t, RepositoryAssumption DEF KeyOfDrop, UsesAdopted, KeyOfCache, Numbers, Settlers, RepoTypes, CacheTypes, SettleTypes, SetTypes, CloseTypes, DropTypes, ProviderTypes, Ids, CallersExclude, DropBegins, SettleBegins, Settled, NoIds
<1> QED  BY <1>1, <1>2, <1>3, <1>4 DEF KeyInv, RepoTypes

LEMMA KeyDropSettled ==
  ASSUME KeyInv, "drop" \notin Overlaps, DropSettled
  PROVE  KeyInv'
<1>u. UNCHANGED <<adopted, keyStatus, cat, opening, opened, repoClosed, provider, setPc, setKey, setOld, closePc, closeSet, dropping>>
  BY DEF DropSettled, SettleEnds, Settled, SettleResult, NoIds, setVars, closeVars, dropVars, keyVars, cacheVars
<1>t. RepoTypes /\ KeyOfCache /\ KeyOfDrop
  BY DEF KeyInv
<1>1. CacheTypes' /\ SetTypes' /\ CloseTypes' /\ ProviderTypes' /\ KeyOfCache'
  BY <1>u, <1>t DEF RepoTypes, CacheTypes, CloseTypes, KeyOfCache, ProviderTypes, SetTypes, UsesAdopted
<1>2. SettleTypes'
  BY <1>u, <1>t, RepositoryAssumption DEF SettleTypes, Numbers, Settlers, RepoTypes, CacheTypes, SetTypes, CloseTypes, DropTypes, ProviderTypes, Ids, CallersExclude, DropSettled, SettleEnds, Settled, SettleResult, NoIds
<1>3. DropTypes'
  <2>1. \A k \in Catalogs : SettleResult("drop")[k] \in Numbers
    BY <1>t DEF SettleResult, Settlers, RepoTypes, CacheTypes, SettleTypes
  <2>2. dropSet' \subseteq Catalogs \X Ids
    BY <2>1 DEF DropSettled, Numbers
  <2> QED  BY <2>2 DEF DropSettled, DropTypes
<1>4. KeyOfDrop'
  <2>1. \A k \in Catalogs : SettleResult("drop")[k] # 0 => UsesAdopted(SettleResult("drop")[k])
    BY <1>t DEF SettleResult, DropSettled, KeyOfCache, KeyOfDrop
  <2>2. \A i : UsesAdopted(i) => UsesAdopted(i)'
    BY <1>u DEF UsesAdopted
  <2>3. \A ci \in dropSet' : UsesAdopted(ci[2])'
    BY <2>1, <2>2 DEF DropSettled
  <2> QED  BY <2>3 DEF DropSettled, KeyOfDrop
<1> QED  BY <1>1, <1>2, <1>3, <1>4 DEF KeyInv, RepoTypes

LEMMA KeyDropOne ==
  ASSUME KeyInv, "drop" \notin Overlaps, DropOne
  PROVE  KeyInv'
<1>u. UNCHANGED <<adopted, keyStatus, cat, opening, opened, repoClosed, provider, setPc, setKey, setOld, closePc, closeSet, held, landed>>
  BY DEF DropOne, setVars, closeVars, dropVars, keyVars, cacheVars
<1>t. RepoTypes /\ KeyOfCache /\ KeyOfDrop
  BY DEF KeyInv
<1>1. CacheTypes' /\ SettleTypes' /\ SetTypes' /\ CloseTypes' /\ ProviderTypes' /\ KeyOfCache'
  BY <1>u, <1>t DEF RepoTypes, CacheTypes, CloseTypes, KeyOfCache, ProviderTypes, SetTypes, SettleTypes, UsesAdopted
<1>2. DropTypes'
  BY <1>u, <1>t, RepositoryAssumption DEF DropTypes, Numbers, Settlers, RepoTypes, CacheTypes, SettleTypes, SetTypes, CloseTypes, ProviderTypes, Ids, CallersExclude, DropOne
<1>3. KeyOfDrop'
  BY <1>u, <1>t, RepositoryAssumption DEF KeyOfDrop, UsesAdopted, Numbers, Settlers, RepoTypes, CacheTypes, SettleTypes, SetTypes, CloseTypes, DropTypes, ProviderTypes, Ids, CallersExclude, DropOne
<1> QED  BY <1>1, <1>2, <1>3 DEF KeyInv, RepoTypes

LEMMA KeyReread ==
  ASSUME KeyInv, "drop" \notin Overlaps, Reread
  PROVE  KeyInv'
<1>u. UNCHANGED <<adopted, keyStatus, opening, opened, repoClosed, provider, setPc, setKey, setOld, closePc, closeSet, dropSet, held, landed>>
  BY DEF Reread, setVars, closeVars, dropVars, keyVars, cacheVars
<1>t. RepoTypes /\ KeyOfCache /\ KeyOfDrop
  BY DEF KeyInv
<1>1. SettleTypes' /\ SetTypes' /\ CloseTypes' /\ ProviderTypes'
  BY <1>u, <1>t DEF RepoTypes, CloseTypes, ProviderTypes, SetTypes, SettleTypes
<1>2. CacheTypes'
  BY <1>u, <1>t, RepositoryAssumption DEF CacheTypes, Numbers, Settlers, RepoTypes, SettleTypes, SetTypes, CloseTypes, DropTypes, ProviderTypes, Ids, CallersExclude, Reread
<1>3. DropTypes'
  BY <1>u, <1>t, RepositoryAssumption DEF DropTypes, Numbers, Settlers, RepoTypes, CacheTypes, SettleTypes, SetTypes, CloseTypes, ProviderTypes, Ids, CallersExclude, Reread
<1>4. KeyOfCache'
  BY <1>u, <1>t, RepositoryAssumption DEF KeyOfCache, UsesAdopted, KeyOfDrop, Numbers, Settlers, RepoTypes, CacheTypes, SettleTypes, SetTypes, CloseTypes, DropTypes, ProviderTypes, Ids, CallersExclude, Reread
<1>5. KeyOfDrop'
  BY <1>u, <1>t, RepositoryAssumption DEF KeyOfDrop, UsesAdopted, Numbers, Settlers, RepoTypes, CacheTypes, SettleTypes, SetTypes, CloseTypes, DropTypes, ProviderTypes, Ids, CallersExclude, Reread
<1> QED  BY <1>1, <1>2, <1>3, <1>4, <1>5 DEF KeyInv, RepoTypes

LEMMA KeyDropEnds ==
  ASSUME KeyInv, "drop" \notin Overlaps, DropEnds
  PROVE  KeyInv'
<1>u. UNCHANGED <<adopted, keyStatus, cat, opening, opened, repoClosed, provider, setPc, setKey, setOld, closePc, closeSet, dropSet, dropping, held, landed>>
  BY DEF DropEnds, setVars, closeVars, dropVars, keyVars, cacheVars
<1>t. RepoTypes /\ KeyOfCache /\ KeyOfDrop
  BY DEF KeyInv
<1>1. CacheTypes' /\ SettleTypes' /\ SetTypes' /\ CloseTypes' /\ ProviderTypes' /\ KeyOfCache'
  BY <1>u, <1>t DEF RepoTypes, CacheTypes, CloseTypes, KeyOfCache, ProviderTypes, SetTypes, SettleTypes, UsesAdopted
<1>2. DropTypes'
  BY <1>u, <1>t, RepositoryAssumption DEF DropTypes, Numbers, Settlers, RepoTypes, CacheTypes, SettleTypes, SetTypes, CloseTypes, ProviderTypes, Ids, CallersExclude, DropEnds
<1>3. KeyOfDrop'
  BY <1>u, <1>t, RepositoryAssumption DEF KeyOfDrop, UsesAdopted, Numbers, Settlers, RepoTypes, CacheTypes, SettleTypes, SetTypes, CloseTypes, DropTypes, ProviderTypes, Ids, CallersExclude, DropEnds
<1> QED  BY <1>1, <1>2, <1>3 DEF KeyInv, RepoTypes

LEMMA KeyCloseBegins ==
  ASSUME KeyInv, "drop" \notin Overlaps, CloseBegins
  PROVE  KeyInv'
<1>u. UNCHANGED <<adopted, keyStatus, cat, opening, opened, provider, setPc, setKey, setOld, closeSet, dropPc, dropSet, dropping, held, landed>>
  BY DEF CloseBegins, setVars, closeVars, dropVars, keyVars, cacheVars
<1>t. RepoTypes /\ KeyOfCache /\ KeyOfDrop
  BY DEF KeyInv
<1>1. CacheTypes' /\ SettleTypes' /\ SetTypes' /\ DropTypes' /\ ProviderTypes' /\ KeyOfCache' /\ KeyOfDrop'
  BY <1>u, <1>t DEF RepoTypes, CacheTypes, DropTypes, KeyOfCache, KeyOfDrop, ProviderTypes, SetTypes, SettleTypes, UsesAdopted
<1>2. CloseTypes'
  BY <1>u, <1>t, RepositoryAssumption DEF CloseTypes, Numbers, Settlers, RepoTypes, CacheTypes, SettleTypes, SetTypes, DropTypes, ProviderTypes, Ids, CallersExclude, CloseBegins
<1> QED  BY <1>1, <1>2 DEF KeyInv, RepoTypes

LEMMA KeyProvidersClosed ==
  ASSUME KeyInv, "drop" \notin Overlaps, ProvidersClosed
  PROVE  KeyInv'
<1>u. UNCHANGED <<adopted, keyStatus, cat, opening, opened, repoClosed, setPc, setKey, setOld, closeSet, dropPc, dropSet, dropping>>
  BY DEF ProvidersClosed, SettleBegins, setVars, closeVars, dropVars, keyVars, cacheVars
<1>t. RepoTypes /\ KeyOfCache /\ KeyOfDrop
  BY DEF KeyInv
<1>1. CacheTypes' /\ SetTypes' /\ DropTypes' /\ KeyOfCache'
  BY <1>u, <1>t DEF RepoTypes, CacheTypes, DropTypes, KeyOfCache, SetTypes, UsesAdopted
<1>2. SettleTypes'
  <2>1. "close" \in Settlers /\ cat \in [Catalogs -> Numbers] /\ NoIds \in [Catalogs -> Numbers]
    BY <1>t DEF Settlers, RepoTypes, CacheTypes, NoIds, Numbers
  <2> QED  BY <2>1, <1>t DEF ProvidersClosed, SettleBegins, RepoTypes, SettleTypes
<1>3. CloseTypes'
  BY <1>u, <1>t, RepositoryAssumption DEF CloseTypes, Numbers, Settlers, RepoTypes, CacheTypes, SettleTypes, SetTypes, DropTypes, ProviderTypes, Ids, CallersExclude, ProvidersClosed, SettleBegins
<1>4. ProviderTypes'
  BY <1>u, <1>t, RepositoryAssumption DEF ProviderTypes, Numbers, Settlers, RepoTypes, CacheTypes, SettleTypes, SetTypes, CloseTypes, DropTypes, Ids, CallersExclude, ProvidersClosed, SettleBegins
<1>5. KeyOfDrop'
  BY <1>u, <1>t, RepositoryAssumption DEF KeyOfDrop, UsesAdopted, Numbers, Settlers, RepoTypes, CacheTypes, SettleTypes, SetTypes, CloseTypes, DropTypes, ProviderTypes, Ids, CallersExclude, ProvidersClosed, SettleBegins
<1> QED  BY <1>1, <1>2, <1>3, <1>4, <1>5 DEF KeyInv, RepoTypes

LEMMA KeyCloseSettled ==
  ASSUME KeyInv, "drop" \notin Overlaps, CloseSettled
  PROVE  KeyInv'
<1>u. UNCHANGED <<adopted, keyStatus, cat, opening, opened, repoClosed, provider, setPc, setKey, setOld, dropPc, dropSet, dropping>>
  BY DEF CloseSettled, SettleEnds, Settled, SettleResult, NoIds, setVars, closeVars, dropVars, keyVars, cacheVars
<1>t. RepoTypes /\ KeyOfCache /\ KeyOfDrop
  BY DEF KeyInv
<1>1. CacheTypes' /\ SetTypes' /\ DropTypes' /\ ProviderTypes' /\ KeyOfCache'
  BY <1>u, <1>t DEF RepoTypes, CacheTypes, DropTypes, KeyOfCache, ProviderTypes, SetTypes, UsesAdopted
<1>2. SettleTypes'
  BY <1>u, <1>t, RepositoryAssumption DEF SettleTypes, Numbers, Settlers, RepoTypes, CacheTypes, SetTypes, CloseTypes, DropTypes, ProviderTypes, Ids, CallersExclude, CloseSettled, SettleEnds, Settled, SettleResult, NoIds
<1>3. CloseTypes'
  BY <1>u, <1>t, RepositoryAssumption DEF CloseTypes, Numbers, Settlers, RepoTypes, CacheTypes, SettleTypes, SetTypes, DropTypes, ProviderTypes, Ids, CallersExclude, CloseSettled, SettleEnds, Settled, SettleResult, NoIds
<1>4. KeyOfDrop'
  BY <1>u, <1>t, RepositoryAssumption DEF KeyOfDrop, UsesAdopted, Numbers, Settlers, RepoTypes, CacheTypes, SettleTypes, SetTypes, CloseTypes, DropTypes, ProviderTypes, Ids, CallersExclude, CloseSettled, SettleEnds, Settled, SettleResult, NoIds
<1> QED  BY <1>1, <1>2, <1>3, <1>4 DEF KeyInv, RepoTypes

LEMMA KeyCloseCatalog ==
  ASSUME KeyInv, "drop" \notin Overlaps, CloseCatalog
  PROVE  KeyInv'
<1>u. UNCHANGED <<adopted, keyStatus, cat, opening, repoClosed, provider, setPc, setKey, setOld, closePc, dropPc, dropSet, dropping, held, landed>>
  BY DEF CloseCatalog, setVars, closeVars, dropVars, keyVars, cacheVars
<1>t. RepoTypes /\ KeyOfCache /\ KeyOfDrop
  BY DEF KeyInv
<1>1. SettleTypes' /\ SetTypes' /\ DropTypes' /\ ProviderTypes'
  BY <1>u, <1>t DEF RepoTypes, DropTypes, ProviderTypes, SetTypes, SettleTypes
<1>2. CacheTypes'
  <2>1. PICK i \in closeSet : opened' = [opened EXCEPT ![i].st = "closed"]
    BY DEF CloseCatalog
  <2>2. i \in Ids
    BY <2>1, <1>t DEF RepoTypes, CloseTypes
  <2> QED  BY <2>1, <2>2, <1>u, <1>t DEF RepoTypes, CacheTypes
<1>3. CloseTypes'
  BY <1>u, <1>t, RepositoryAssumption DEF CloseTypes, Numbers, Settlers, RepoTypes, CacheTypes, SettleTypes, SetTypes, DropTypes, ProviderTypes, Ids, CallersExclude, CloseCatalog
<1>4. KeyOfCache'
  BY <1>u, <1>t, RepositoryAssumption DEF KeyOfCache, UsesAdopted, Numbers, Settlers, RepoTypes, CacheTypes, SettleTypes, SetTypes, CloseTypes, DropTypes, ProviderTypes, Ids, CallersExclude, CloseCatalog
<1>5. KeyOfDrop'
  BY <1>u, <1>t, RepositoryAssumption DEF KeyOfDrop, UsesAdopted, Numbers, Settlers, RepoTypes, CacheTypes, SettleTypes, SetTypes, CloseTypes, DropTypes, ProviderTypes, Ids, CallersExclude, CloseCatalog
<1> QED  BY <1>1, <1>2, <1>3, <1>4, <1>5 DEF KeyInv, RepoTypes

LEMMA KeyCloseEnds ==
  ASSUME KeyInv, "drop" \notin Overlaps, CloseEnds
  PROVE  KeyInv'
<1>u. UNCHANGED <<adopted, keyStatus, opening, opened, repoClosed, provider, setPc, setKey, setOld, closeSet, dropPc, dropSet, dropping, held, landed>>
  BY DEF CloseEnds, NoIds, setVars, closeVars, dropVars, keyVars, cacheVars
<1>t. RepoTypes /\ KeyOfCache /\ KeyOfDrop
  BY DEF KeyInv
<1>1. SettleTypes' /\ SetTypes' /\ DropTypes' /\ ProviderTypes' /\ KeyOfDrop'
  BY <1>u, <1>t DEF RepoTypes, DropTypes, KeyOfDrop, ProviderTypes, SetTypes, SettleTypes, UsesAdopted
<1>2. CacheTypes'
  BY <1>u, <1>t, RepositoryAssumption DEF CacheTypes, Numbers, Settlers, RepoTypes, SettleTypes, SetTypes, CloseTypes, DropTypes, ProviderTypes, Ids, CallersExclude, CloseEnds, NoIds
<1>3. CloseTypes'
  BY <1>u, <1>t, RepositoryAssumption DEF CloseTypes, Numbers, Settlers, RepoTypes, CacheTypes, SettleTypes, SetTypes, DropTypes, ProviderTypes, Ids, CallersExclude, CloseEnds, NoIds
<1>4. KeyOfCache'
  BY <1>u, <1>t, RepositoryAssumption DEF KeyOfCache, UsesAdopted, Numbers, Settlers, RepoTypes, CacheTypes, SettleTypes, SetTypes, CloseTypes, DropTypes, ProviderTypes, Ids, CallersExclude, CloseEnds, NoIds
<1> QED  BY <1>1, <1>2, <1>3, <1>4 DEF KeyInv, RepoTypes

LEMMA KeyStart ==
  ASSUME RepoInit
  PROVE  KeyInv
<1>1. CacheTypes
  BY DEF CacheTypes, RepoInit, NoIds, Numbers, Ids, KeyStrings, Settlers
<1>2. SettleTypes /\ SetTypes /\ CloseTypes /\ DropTypes /\ ProviderTypes
  BY DEF SettleTypes, SetTypes, CloseTypes, DropTypes, ProviderTypes, RepoInit, NoIds, Numbers, Ids, KeyStrings, Settlers
<1>3. KeyOfCache /\ KeyOfDrop
  BY DEF KeyOfCache, KeyOfDrop, RepoInit, NoIds, Numbers, Ids, KeyStrings, Settlers
<1> QED  BY <1>1, <1>2, <1>3 DEF KeyInv, RepoTypes

LEMMA KeyStep ==
  ASSUME "drop" \notin Overlaps, KeyInv, RepoNext \/ UNCHANGED repoVars
  PROVE  KeyInv'
<1>1. CASE UNCHANGED repoVars
  BY <1>1 DEF KeyInv, repoVars, RepoTypes, CacheTypes, SettleTypes, SetTypes, CloseTypes, DropTypes, ProviderTypes, KeyOfCache, KeyOfDrop, UsesAdopted
<1>2. ASSUME NEW c \in Catalogs, Ask(c) \/ Opened(c) \/ OpenFails(c)
      PROVE  KeyInv'
  BY <1>2, KeyAsk, KeyOpened, KeyOpenFails
<1>3. ASSUME NEW s \in Setters, SetterStep(s)
      PROVE  KeyInv'
  BY <1>3, KeySetKeyRejected, KeySetKeyRaises, KeySetKeyVerified, KeyAdopt, KeyReopen, KeyReopened, KeyCloseOld, KeySetKeyEnds DEF SetterStep
<1>4. ASSUME NEW s \in Setters, NEW k \in Tries[s], SetKeyBegins(s, k)
      PROVE  KeyInv'
  BY <1>4, KeySetKeyBegins
<1>5. ASSUME NEW p \in Providers, BuildProvider(p) \/ Track(p) \/ BuildFails(p) \/ Release(p) \/ ReleaseEnds(p)
      PROVE  KeyInv'
  BY <1>5, KeyBuildProvider, KeyTrack, KeyBuildFails, KeyRelease, KeyReleaseEnds
<1>6. CASE DropBegins \/ DropStep
  BY <1>6, KeyDropBegins, KeyDropSettled, KeyDropOne, KeyReread, KeyDropEnds DEF DropStep
<1>7. CASE CloseBegins \/ CloseStep
  BY <1>7, KeyCloseBegins, KeyProvidersClosed, KeyCloseSettled, KeyCloseCatalog, KeyCloseEnds DEF CloseStep
<1> QED  BY <1>1, <1>2, <1>3, <1>4, <1>5, <1>6, <1>7 DEF RepoNext

LEMMA LifeAsk ==
  ASSUME KeyInv, LifeInv, "drop" \notin Overlaps, "close" \notin Overlaps, NEW c \in Catalogs, Ask(c)
  PROVE  LifeInv'
<1>u. UNCHANGED <<adopted, keyStatus, cat, repoClosed, provider, setPc, setKey, setOld, closePc, closeSet, dropPc, dropSet, dropping, held, landed>>
  BY DEF Ask, OpenCatalog, Born, setVars, closeVars, dropVars, keyVars, cacheVars
<1>t. KeyInv /\ RepoTypes /\ CacheLife /\ OneEach /\ OldLife /\ SettleLife /\ CloseWaits /\ CloseSweeps /\ DropAlone /\ DropHolds /\ HasOwner /\ ProviderLife
  BY DEF KeyInv, LifeInv
<1>1. DropHolds' /\ ProviderLife'
  BY <1>u, <1>t DEF RepoTypes, DropHolds, ProviderLife
<1>2. CacheLife'
  BY <1>u, <1>t, RepositoryAssumption DEF CacheLife, Lived, Numbers, Settlers, RepoTypes, CacheTypes, SettleTypes, SetTypes, CloseTypes, DropTypes, ProviderTypes, Ids, CallersExclude, Ask, OpenCatalog, Born
<1>3. OneEach'
  BY <1>u, <1>t, RepositoryAssumption DEF OneEach, CacheLife, Lived, Numbers, Settlers, RepoTypes, CacheTypes, SettleTypes, SetTypes, CloseTypes, DropTypes, ProviderTypes, Ids, CallersExclude, Ask, OpenCatalog, Born
<1>4. OldLife'
  BY <1>u, <1>t, RepositoryAssumption DEF OldLife, Lived, CacheLife, CloseWaits, Numbers, Settlers, RepoTypes, CacheTypes, SettleTypes, SetTypes, CloseTypes, DropTypes, ProviderTypes, Ids, CallersExclude, Ask, OpenCatalog, Born
<1>5. SettleLife'
  BY <1>u, <1>t, RepositoryAssumption DEF SettleLife, Lived, CacheLife, CloseWaits, Numbers, Settlers, RepoTypes, CacheTypes, SettleTypes, SetTypes, CloseTypes, DropTypes, ProviderTypes, Ids, CallersExclude, Ask, OpenCatalog, Born
<1>6. CloseWaits'
  BY <1>u, <1>t, RepositoryAssumption DEF CloseWaits, DropAlone, Numbers, Settlers, RepoTypes, CacheTypes, SettleTypes, SetTypes, CloseTypes, DropTypes, ProviderTypes, Ids, CallersExclude, Ask, OpenCatalog, Born
<1>7. CloseSweeps'
  BY <1>u, <1>t, RepositoryAssumption DEF CloseSweeps, Lived, CacheLife, CloseWaits, Numbers, Settlers, RepoTypes, CacheTypes, SettleTypes, SetTypes, CloseTypes, DropTypes, ProviderTypes, Ids, CallersExclude, Ask, OpenCatalog, Born
<1>8. DropAlone'
  BY <1>u, <1>t, RepositoryAssumption DEF DropAlone, CacheLife, CloseWaits, Numbers, Settlers, RepoTypes, CacheTypes, SettleTypes, SetTypes, CloseTypes, DropTypes, ProviderTypes, Ids, CallersExclude, Ask, OpenCatalog, Born
<1>9. HasOwner'
  <2>1. PICK i \in Ids \ Born : /\ opening' = [opening EXCEPT ![c] = i]
                              /\ opened' = [opened EXCEPT ![i] = [st |-> "opening", key |-> adopted]]
    BY DEF Ask, OpenCatalog
  <2>2. opening[c] = 0
    BY DEF Ask, OpenCatalog
  <2>3. SUFFICES ASSUME NEW j \in Ids
               PROVE  /\ opened'[j].st = "opening" => \E d \in Catalogs : opening'[d] = j
                      /\ opened'[j].st = "open" => \/ \E d \in Catalogs : cat'[d] = j
                                                   \/ \E v \in Setters : \E d \in Catalogs : <<d, j>> \in setOld'[v]
    BY DEF HasOwner
  <2>4. CASE j = i
    BY <2>1, <2>4, <1>t DEF RepoTypes, CacheTypes
  <2>5. CASE j # i
    <3>1. opened'[j] = opened[j] /\ \A d \in Catalogs : opening[d] = j => opening'[d] = j
      BY <2>1, <2>2, <2>5, <1>t DEF RepoTypes, CacheTypes, Ids
    <3> QED  BY <3>1, <1>u, <1>t DEF HasOwner
  <2> QED  BY <2>4, <2>5
<1> QED  BY <1>1, <1>2, <1>3, <1>4, <1>5, <1>6, <1>7, <1>8, <1>9 DEF LifeInv, RepoTypes

LEMMA LifeOpened ==
  ASSUME KeyInv, LifeInv, "drop" \notin Overlaps, "close" \notin Overlaps, NEW c \in Catalogs, Opened(c)
  PROVE  LifeInv'
<1>u. UNCHANGED <<adopted, keyStatus, repoClosed, provider, setPc, setKey, setOld, closePc, closeSet, dropPc, dropSet, dropping, held>>
  BY DEF Opened, InSettle, setVars, closeVars, dropVars, keyVars, cacheVars
<1>t. KeyInv /\ RepoTypes /\ CacheLife /\ OneEach /\ OldLife /\ SettleLife /\ CloseWaits /\ CloseSweeps /\ DropAlone /\ DropHolds /\ HasOwner /\ ProviderLife
  BY DEF KeyInv, LifeInv
<1>1. ProviderLife'
  BY <1>u, <1>t DEF RepoTypes, ProviderLife
<1>2. CacheLife'
  BY <1>u, <1>t, RepositoryAssumption DEF CacheLife, Lived, OneEach, Numbers, Settlers, RepoTypes, CacheTypes, SettleTypes, SetTypes, CloseTypes, DropTypes, ProviderTypes, Ids, CallersExclude, Opened, InSettle
<1>3. OneEach'
  BY <1>u, <1>t, RepositoryAssumption DEF OneEach, CacheLife, CloseWaits, DropAlone, Lived, Numbers, Settlers, RepoTypes, CacheTypes, SettleTypes, SetTypes, CloseTypes, DropTypes, ProviderTypes, Ids, CallersExclude, Opened, InSettle
<1>4. OldLife'
  BY <1>u, <1>t, RepositoryAssumption DEF OldLife, Lived, CacheLife, CloseWaits, DropAlone, Numbers, Settlers, RepoTypes, CacheTypes, SettleTypes, SetTypes, CloseTypes, DropTypes, ProviderTypes, Ids, CallersExclude, Opened, InSettle
<1>5. SettleLife'
  BY <1>u, <1>t, RepositoryAssumption DEF SettleLife, Lived, CacheLife, CloseWaits, DropAlone, Numbers, Settlers, RepoTypes, CacheTypes, SettleTypes, SetTypes, CloseTypes, DropTypes, ProviderTypes, Ids, CallersExclude, Opened, InSettle
<1>6. CloseWaits'
  BY <1>u, <1>t, RepositoryAssumption DEF CloseWaits, CacheLife, Lived, Numbers, Settlers, RepoTypes, CacheTypes, SettleTypes, SetTypes, CloseTypes, DropTypes, ProviderTypes, Ids, CallersExclude, Opened, InSettle
<1>7. CloseSweeps'
  BY <1>u, <1>t, RepositoryAssumption DEF CloseSweeps, Lived, CacheLife, CloseWaits, DropAlone, Numbers, Settlers, RepoTypes, CacheTypes, SettleTypes, SetTypes, CloseTypes, DropTypes, ProviderTypes, Ids, CallersExclude, Opened, InSettle
<1>8. DropAlone'
  BY <1>u, <1>t, RepositoryAssumption DEF DropAlone, Numbers, Settlers, RepoTypes, CacheTypes, SettleTypes, SetTypes, CloseTypes, DropTypes, ProviderTypes, Ids, CallersExclude, Opened, InSettle
<1>9. DropHolds'
  BY <1>u, <1>t, RepositoryAssumption DEF DropHolds, CacheLife, CloseWaits, DropAlone, Lived, Numbers, Settlers, RepoTypes, CacheTypes, SettleTypes, SetTypes, CloseTypes, DropTypes, ProviderTypes, Ids, CallersExclude, Opened, InSettle
<1>10. HasOwner'
  <2>0. SUFFICES ASSUME NEW j \in Ids
               PROVE  /\ opened'[j].st = "opening" => \E d \in Catalogs : opening'[d] = j
                      /\ opened'[j].st = "open" => \/ \E d \in Catalogs : cat'[d] = j
                                                   \/ \E v \in Setters : \E d \in Catalogs : <<d, j>> \in setOld'[v]
    BY DEF HasOwner
  <2>1. opening[c] \in Ids /\ cat[c] = 0
    BY <1>t DEF Opened, RepoTypes, CacheTypes, Numbers, CacheLife
  <2>2. CASE j = opening[c]
    BY <2>1, <2>2, <1>t DEF Opened, RepoTypes, CacheTypes
  <2>3. CASE j # opening[c]
    <3>1. /\ opened'[j] = opened[j]
          /\ \A d \in Catalogs : (opening[d] = j => opening'[d] = j) /\ (cat[d] = j => cat'[d] = j)
      BY <2>1, <2>3, <1>t DEF Opened, RepoTypes, CacheTypes, Ids
    <3> QED  BY <3>1, <1>u, <1>t DEF HasOwner
  <2> QED  BY <2>2, <2>3
<1> QED  BY <1>1, <1>2, <1>3, <1>4, <1>5, <1>6, <1>7, <1>8, <1>9, <1>10 DEF LifeInv, RepoTypes

LEMMA LifeOpenFails ==
  ASSUME KeyInv, LifeInv, "drop" \notin Overlaps, "close" \notin Overlaps, NEW c \in Catalogs, OpenFails(c)
  PROVE  LifeInv'
<1>u. UNCHANGED <<adopted, keyStatus, cat, repoClosed, provider, setPc, setKey, setOld, closePc, closeSet, dropPc, dropSet, dropping, held, landed>>
  BY DEF OpenFails, setVars, closeVars, dropVars, keyVars, cacheVars
<1>t. KeyInv /\ RepoTypes /\ CacheLife /\ OneEach /\ OldLife /\ SettleLife /\ CloseWaits /\ CloseSweeps /\ DropAlone /\ DropHolds /\ HasOwner /\ ProviderLife
  BY DEF KeyInv, LifeInv
<1>1. DropHolds' /\ ProviderLife'
  BY <1>u, <1>t DEF RepoTypes, DropHolds, ProviderLife
<1>2. CacheLife'
  BY <1>u, <1>t, RepositoryAssumption DEF CacheLife, Lived, OneEach, Numbers, Settlers, RepoTypes, CacheTypes, SettleTypes, SetTypes, CloseTypes, DropTypes, ProviderTypes, Ids, CallersExclude, OpenFails
<1>3. OneEach'
  BY <1>u, <1>t, RepositoryAssumption DEF OneEach, Numbers, Settlers, RepoTypes, CacheTypes, SettleTypes, SetTypes, CloseTypes, DropTypes, ProviderTypes, Ids, CallersExclude, OpenFails
<1>4. OldLife'
  BY <1>u, <1>t, RepositoryAssumption DEF OldLife, Lived, CacheLife, OneEach, Numbers, Settlers, RepoTypes, CacheTypes, SettleTypes, SetTypes, CloseTypes, DropTypes, ProviderTypes, Ids, CallersExclude, OpenFails
<1>5. SettleLife'
  BY <1>u, <1>t, RepositoryAssumption DEF SettleLife, Lived, CacheLife, OneEach, Numbers, Settlers, RepoTypes, CacheTypes, SettleTypes, SetTypes, CloseTypes, DropTypes, ProviderTypes, Ids, CallersExclude, OpenFails
<1>6. CloseWaits'
  BY <1>u, <1>t, RepositoryAssumption DEF CloseWaits, Numbers, Settlers, RepoTypes, CacheTypes, SettleTypes, SetTypes, CloseTypes, DropTypes, ProviderTypes, Ids, CallersExclude, OpenFails
<1>7. CloseSweeps'
  BY <1>u, <1>t, RepositoryAssumption DEF CloseSweeps, Lived, CacheLife, OneEach, Numbers, Settlers, RepoTypes, CacheTypes, SettleTypes, SetTypes, CloseTypes, DropTypes, ProviderTypes, Ids, CallersExclude, OpenFails
<1>8. DropAlone'
  BY <1>u, <1>t, RepositoryAssumption DEF DropAlone, CacheLife, OneEach, Lived, Numbers, Settlers, RepoTypes, CacheTypes, SettleTypes, SetTypes, CloseTypes, DropTypes, ProviderTypes, Ids, CallersExclude, OpenFails
<1>9. HasOwner'
  <2>0. SUFFICES ASSUME NEW j \in Ids
               PROVE  /\ opened'[j].st = "opening" => \E d \in Catalogs : opening'[d] = j
                      /\ opened'[j].st = "open" => \/ \E d \in Catalogs : cat'[d] = j
                                                   \/ \E v \in Setters : \E d \in Catalogs : <<d, j>> \in setOld'[v]
    BY DEF HasOwner
  <2>1. opening[c] \in Ids
    BY <1>t DEF OpenFails, RepoTypes, CacheTypes, Numbers
  <2>2. CASE j = opening[c]
    BY <2>1, <2>2, <1>t DEF OpenFails, RepoTypes, CacheTypes
  <2>3. CASE j # opening[c]
    <3>1. opened'[j] = opened[j] /\ \A d \in Catalogs : opening[d] = j => opening'[d] = j
      BY <2>1, <2>3, <1>t DEF OpenFails, RepoTypes, CacheTypes, Ids
    <3> QED  BY <3>1, <1>u, <1>t DEF HasOwner
  <2> QED  BY <2>2, <2>3
<1> QED  BY <1>1, <1>2, <1>3, <1>4, <1>5, <1>6, <1>7, <1>8, <1>9 DEF LifeInv, RepoTypes

LEMMA LifeSetKeyBegins ==
  ASSUME KeyInv, LifeInv, "drop" \notin Overlaps, "close" \notin Overlaps, NEW s \in Setters, NEW k \in Tries[s], SetKeyBegins(s, k)
  PROVE  LifeInv'
<1>u. UNCHANGED <<adopted, keyStatus, cat, opening, opened, repoClosed, provider, setOld, closePc, closeSet, dropPc, dropSet, dropping, held, landed>>
  BY DEF SetKeyBegins, setVars, closeVars, dropVars, keyVars, cacheVars
<1>t. KeyInv /\ RepoTypes /\ CacheLife /\ OneEach /\ OldLife /\ SettleLife /\ CloseWaits /\ CloseSweeps /\ DropAlone /\ DropHolds /\ HasOwner /\ ProviderLife
  BY DEF KeyInv, LifeInv
<1>1. CacheLife' /\ OneEach' /\ SettleLife' /\ CloseWaits' /\ CloseSweeps' /\ DropHolds' /\ HasOwner' /\ ProviderLife'
  BY <1>u, <1>t DEF RepoTypes, CacheLife, CloseSweeps, CloseWaits, DropHolds, HasOwner, Lived, OneEach, ProviderLife, SettleLife
<1>2. OldLife'
  BY <1>u, <1>t, RepositoryAssumption DEF OldLife, Lived, Numbers, Settlers, RepoTypes, CacheTypes, SettleTypes, SetTypes, CloseTypes, DropTypes, ProviderTypes, Ids, CallersExclude, SetKeyBegins
<1>3. DropAlone'
  BY <1>u, <1>t, RepositoryAssumption DEF DropAlone, Numbers, Settlers, RepoTypes, CacheTypes, SettleTypes, SetTypes, CloseTypes, DropTypes, ProviderTypes, Ids, CallersExclude, SetKeyBegins
<1> QED  BY <1>1, <1>2, <1>3 DEF LifeInv, RepoTypes

LEMMA LifeSetKeyRejected ==
  ASSUME KeyInv, LifeInv, "drop" \notin Overlaps, "close" \notin Overlaps, NEW s \in Setters, SetKeyRejected(s)
  PROVE  LifeInv'
<1>u. UNCHANGED <<adopted, cat, opening, opened, repoClosed, provider, setKey, setOld, closePc, closeSet, dropPc, dropSet, dropping, held, landed>>
  BY DEF SetKeyRejected, RecordKey, setVars, closeVars, dropVars, keyVars, cacheVars
<1>t. KeyInv /\ RepoTypes /\ CacheLife /\ OneEach /\ OldLife /\ SettleLife /\ CloseWaits /\ CloseSweeps /\ DropAlone /\ DropHolds /\ HasOwner /\ ProviderLife
  BY DEF KeyInv, LifeInv
<1>1. CacheLife' /\ OneEach' /\ SettleLife' /\ CloseWaits' /\ CloseSweeps' /\ DropHolds' /\ HasOwner' /\ ProviderLife'
  BY <1>u, <1>t DEF RepoTypes, CacheLife, CloseSweeps, CloseWaits, DropHolds, HasOwner, Lived, OneEach, ProviderLife, SettleLife
<1>2. OldLife'
  BY <1>u, <1>t, RepositoryAssumption DEF OldLife, Lived, Numbers, Settlers, RepoTypes, CacheTypes, SettleTypes, SetTypes, CloseTypes, DropTypes, ProviderTypes, Ids, CallersExclude, SetKeyRejected, RecordKey
<1>3. DropAlone'
  BY <1>u, <1>t, RepositoryAssumption DEF DropAlone, Numbers, Settlers, RepoTypes, CacheTypes, SettleTypes, SetTypes, CloseTypes, DropTypes, ProviderTypes, Ids, CallersExclude, SetKeyRejected, RecordKey
<1> QED  BY <1>1, <1>2, <1>3 DEF LifeInv, RepoTypes

LEMMA LifeSetKeyRaises ==
  ASSUME KeyInv, LifeInv, "drop" \notin Overlaps, "close" \notin Overlaps, NEW s \in Setters, SetKeyRaises(s)
  PROVE  LifeInv'
<1>u. UNCHANGED <<adopted, keyStatus, cat, opening, opened, repoClosed, provider, setKey, setOld, closePc, closeSet, dropPc, dropSet, dropping, held, landed>>
  BY DEF SetKeyRaises, setVars, closeVars, dropVars, keyVars, cacheVars
<1>t. KeyInv /\ RepoTypes /\ CacheLife /\ OneEach /\ OldLife /\ SettleLife /\ CloseWaits /\ CloseSweeps /\ DropAlone /\ DropHolds /\ HasOwner /\ ProviderLife
  BY DEF KeyInv, LifeInv
<1>1. CacheLife' /\ OneEach' /\ SettleLife' /\ CloseWaits' /\ CloseSweeps' /\ DropHolds' /\ HasOwner' /\ ProviderLife'
  BY <1>u, <1>t DEF RepoTypes, CacheLife, CloseSweeps, CloseWaits, DropHolds, HasOwner, Lived, OneEach, ProviderLife, SettleLife
<1>2. OldLife'
  BY <1>u, <1>t, RepositoryAssumption DEF OldLife, Lived, Numbers, Settlers, RepoTypes, CacheTypes, SettleTypes, SetTypes, CloseTypes, DropTypes, ProviderTypes, Ids, CallersExclude, SetKeyRaises
<1>3. DropAlone'
  BY <1>u, <1>t, RepositoryAssumption DEF DropAlone, Numbers, Settlers, RepoTypes, CacheTypes, SettleTypes, SetTypes, CloseTypes, DropTypes, ProviderTypes, Ids, CallersExclude, SetKeyRaises
<1> QED  BY <1>1, <1>2, <1>3 DEF LifeInv, RepoTypes

LEMMA LifeSetKeyVerified ==
  ASSUME KeyInv, LifeInv, "drop" \notin Overlaps, "close" \notin Overlaps, NEW s \in Setters, SetKeyVerified(s)
  PROVE  LifeInv'
<1>u. UNCHANGED <<adopted, keyStatus, cat, opening, opened, repoClosed, provider, setKey, setOld, closePc, closeSet, dropPc, dropSet, dropping>>
  BY DEF SetKeyVerified, SettleBegins, setVars, closeVars, dropVars, keyVars, cacheVars
<1>t. KeyInv /\ RepoTypes /\ CacheLife /\ OneEach /\ OldLife /\ SettleLife /\ CloseWaits /\ CloseSweeps /\ DropAlone /\ DropHolds /\ HasOwner /\ ProviderLife
  BY DEF KeyInv, LifeInv
<1>1. CacheLife' /\ OneEach' /\ CloseSweeps' /\ HasOwner' /\ ProviderLife'
  BY <1>u, <1>t DEF RepoTypes, CacheLife, CloseSweeps, HasOwner, Lived, OneEach, ProviderLife
<1>2. OldLife'
  BY <1>u, <1>t, RepositoryAssumption DEF OldLife, Lived, Numbers, Settlers, RepoTypes, CacheTypes, SettleTypes, SetTypes, CloseTypes, DropTypes, ProviderTypes, Ids, CallersExclude, SetKeyVerified, SettleBegins
<1>3. SettleLife'
  <2>1. s \in Settlers
    BY DEF Settlers
  <2>2. /\ held' = [held EXCEPT ![s] = cat]
        /\ landed' = [landed EXCEPT ![s] = NoIds]
    BY DEF SetKeyVerified, SettleBegins
  <2>3. \A c \in Catalogs : cat[c] # 0 => Lived(cat[c])
    BY <1>t DEF CacheLife
  <2>4. \A i \in Ids : Lived(i) => Lived(i)'
    BY <1>u DEF Lived
  <2>5. SUFFICES ASSUME NEW v \in Settlers, NEW c \in Catalogs
               PROVE  /\ (held[v][c] # 0 => Lived(held[v][c]))'
                      /\ (landed[v][c] # 0 => Lived(landed[v][c]))'
    BY DEF SettleLife
  <2>6. CASE v = s
    BY <2>1, <2>2, <2>3, <2>4, <2>6, <1>t DEF NoIds, RepoTypes, CacheTypes, SettleTypes, Numbers
  <2>7. CASE v # s
    BY <2>1, <2>2, <2>4, <2>7, <1>t DEF SettleLife, RepoTypes, SettleTypes, Numbers
  <2> QED  BY <2>6, <2>7
<1>4. CloseWaits'
  BY <1>u, <1>t, RepositoryAssumption DEF CloseWaits, Numbers, Settlers, RepoTypes, CacheTypes, SettleTypes, SetTypes, CloseTypes, DropTypes, ProviderTypes, Ids, CallersExclude, SetKeyVerified, SettleBegins
<1>5. DropAlone'
  BY <1>u, <1>t, RepositoryAssumption DEF DropAlone, Numbers, Settlers, RepoTypes, CacheTypes, SettleTypes, SetTypes, CloseTypes, DropTypes, ProviderTypes, Ids, CallersExclude, SetKeyVerified, SettleBegins
<1>6. DropHolds'
  BY <1>u, <1>t, RepositoryAssumption DEF DropHolds, Numbers, Settlers, RepoTypes, CacheTypes, SettleTypes, SetTypes, CloseTypes, DropTypes, ProviderTypes, Ids, CallersExclude, SetKeyVerified, SettleBegins
<1> QED  BY <1>1, <1>2, <1>3, <1>4, <1>5, <1>6 DEF LifeInv, RepoTypes

LEMMA LifeAdopt ==
  ASSUME KeyInv, LifeInv, "drop" \notin Overlaps, "close" \notin Overlaps, NEW s \in Setters, Adopt(s)
  PROVE  LifeInv'
<1>u. UNCHANGED <<keyStatus, opening, opened, repoClosed, provider, setKey, closePc, closeSet, dropPc, dropSet, dropping>>
  BY DEF Adopt, SettleEnds, Settled, NoIds, setVars, closeVars, dropVars, keyVars, cacheVars
<1>t. KeyInv /\ RepoTypes /\ CacheLife /\ OneEach /\ OldLife /\ SettleLife /\ CloseWaits /\ CloseSweeps /\ DropAlone /\ DropHolds /\ HasOwner /\ ProviderLife
  BY DEF KeyInv, LifeInv
<1>1. ProviderLife'
  BY <1>u, <1>t DEF RepoTypes, ProviderLife
<1>2. CacheLife'
  BY <1>u, <1>t, RepositoryAssumption DEF CacheLife, Lived, Numbers, Settlers, RepoTypes, CacheTypes, SettleTypes, SetTypes, CloseTypes, DropTypes, ProviderTypes, Ids, CallersExclude, Adopt, SettleEnds, Settled, NoIds
<1>3. OneEach'
  BY <1>u, <1>t, RepositoryAssumption DEF OneEach, Numbers, Settlers, RepoTypes, CacheTypes, SettleTypes, SetTypes, CloseTypes, DropTypes, ProviderTypes, Ids, CallersExclude, Adopt, SettleEnds, Settled, NoIds
<1>4. OldLife'
  BY <1>u, <1>t, RepositoryAssumption DEF OldLife, Lived, CacheLife, Numbers, Settlers, RepoTypes, CacheTypes, SettleTypes, SetTypes, CloseTypes, DropTypes, ProviderTypes, Ids, CallersExclude, Adopt, SettleEnds, Settled, NoIds
<1>5. SettleLife'
  BY <1>u, <1>t, RepositoryAssumption DEF SettleLife, Lived, Numbers, Settlers, RepoTypes, CacheTypes, SettleTypes, SetTypes, CloseTypes, DropTypes, ProviderTypes, Ids, CallersExclude, Adopt, SettleEnds, Settled, NoIds
<1>6. CloseWaits'
  BY <1>u, <1>t, RepositoryAssumption DEF CloseWaits, Numbers, Settlers, RepoTypes, CacheTypes, SettleTypes, SetTypes, CloseTypes, DropTypes, ProviderTypes, Ids, CallersExclude, Adopt, SettleEnds, Settled, NoIds
<1>7. CloseSweeps'
  BY <1>u, <1>t, RepositoryAssumption DEF CloseSweeps, Lived, Numbers, Settlers, RepoTypes, CacheTypes, SettleTypes, SetTypes, CloseTypes, DropTypes, ProviderTypes, Ids, CallersExclude, Adopt, SettleEnds, Settled, NoIds
<1>8. DropAlone'
  BY <1>u, <1>t, RepositoryAssumption DEF DropAlone, Numbers, Settlers, RepoTypes, CacheTypes, SettleTypes, SetTypes, CloseTypes, DropTypes, ProviderTypes, Ids, CallersExclude, Adopt, SettleEnds, Settled, NoIds
<1>9. DropHolds'
  BY <1>u, <1>t, RepositoryAssumption DEF DropHolds, DropAlone, Numbers, Settlers, RepoTypes, CacheTypes, SettleTypes, SetTypes, CloseTypes, DropTypes, ProviderTypes, Ids, CallersExclude, Adopt, SettleEnds, Settled, NoIds
<1>10. HasOwner'
  <2>0. SUFFICES ASSUME NEW j \in Ids
               PROVE  /\ opened'[j].st = "opening" => \E d \in Catalogs : opening'[d] = j
                      /\ opened'[j].st = "open" => \/ \E d \in Catalogs : cat'[d] = j
                                                   \/ \E v \in Setters : \E d \in Catalogs : <<d, j>> \in setOld'[v]
    BY DEF HasOwner
  <2>1. setOld[s] = {} /\ setOld'[s] = {<<d, cat[d]>> : d \in {k \in Catalogs : cat[k] # 0}}
    BY <1>t DEF Adopt, RepoTypes, SetTypes, OldLife
  <2>2. \A v \in Setters : v # s => setOld'[v] = setOld[v]
    BY <1>t DEF Adopt, RepoTypes, SetTypes
  <2>3. \A d \in Catalogs : cat[d] = j => <<d, j>> \in setOld'[s]
    BY <2>1 DEF Ids
  <2>4. \A v \in Setters : \A d \in Catalogs : <<d, j>> \in setOld[v] => <<d, j>> \in setOld'[v]
    BY <2>1, <2>2
  <2> QED  BY <2>3, <2>4, <1>u, <1>t DEF HasOwner
<1> QED  BY <1>1, <1>2, <1>3, <1>4, <1>5, <1>6, <1>7, <1>8, <1>9, <1>10 DEF LifeInv, RepoTypes

LEMMA LifeReopen ==
  ASSUME KeyInv, LifeInv, "drop" \notin Overlaps, "close" \notin Overlaps, NEW s \in Setters, NEW c \in Catalogs, Reopen(s, c)
  PROVE  LifeInv'
<1>u. UNCHANGED <<adopted, keyStatus, cat, repoClosed, provider, setPc, setKey, setOld, closePc, closeSet, dropPc, dropSet, dropping, held, landed>>
  BY DEF Reopen, OpenCatalog, Born, setVars, closeVars, dropVars, keyVars, cacheVars
<1>t. KeyInv /\ RepoTypes /\ CacheLife /\ OneEach /\ OldLife /\ SettleLife /\ CloseWaits /\ CloseSweeps /\ DropAlone /\ DropHolds /\ HasOwner /\ ProviderLife
  BY DEF KeyInv, LifeInv
<1>1. DropHolds' /\ ProviderLife'
  BY <1>u, <1>t DEF RepoTypes, DropHolds, ProviderLife
<1>2. CacheLife'
  BY <1>u, <1>t, RepositoryAssumption DEF CacheLife, Lived, Numbers, Settlers, RepoTypes, CacheTypes, SettleTypes, SetTypes, CloseTypes, DropTypes, ProviderTypes, Ids, CallersExclude, Reopen, OpenCatalog, Born
<1>3. OneEach'
  BY <1>u, <1>t, RepositoryAssumption DEF OneEach, CacheLife, Numbers, Settlers, RepoTypes, CacheTypes, SettleTypes, SetTypes, CloseTypes, DropTypes, ProviderTypes, Ids, CallersExclude, Reopen, OpenCatalog, Born
<1>4. OldLife'
  BY <1>u, <1>t, RepositoryAssumption DEF OldLife, Lived, CacheLife, CloseWaits, Numbers, Settlers, RepoTypes, CacheTypes, SettleTypes, SetTypes, CloseTypes, DropTypes, ProviderTypes, Ids, CallersExclude, Reopen, OpenCatalog, Born
<1>5. SettleLife'
  BY <1>u, <1>t, RepositoryAssumption DEF SettleLife, Lived, CacheLife, CloseWaits, Numbers, Settlers, RepoTypes, CacheTypes, SettleTypes, SetTypes, CloseTypes, DropTypes, ProviderTypes, Ids, CallersExclude, Reopen, OpenCatalog, Born
<1>6. CloseWaits'
  BY <1>u, <1>t, RepositoryAssumption DEF CloseWaits, Numbers, Settlers, RepoTypes, CacheTypes, SettleTypes, SetTypes, CloseTypes, DropTypes, ProviderTypes, Ids, CallersExclude, Reopen, OpenCatalog, Born
<1>7. CloseSweeps'
  BY <1>u, <1>t, RepositoryAssumption DEF CloseSweeps, Lived, CacheLife, CloseWaits, Numbers, Settlers, RepoTypes, CacheTypes, SettleTypes, SetTypes, CloseTypes, DropTypes, ProviderTypes, Ids, CallersExclude, Reopen, OpenCatalog, Born
<1>8. DropAlone'
  BY <1>u, <1>t, RepositoryAssumption DEF DropAlone, Numbers, Settlers, RepoTypes, CacheTypes, SettleTypes, SetTypes, CloseTypes, DropTypes, ProviderTypes, Ids, CallersExclude, Reopen, OpenCatalog, Born
<1>9. HasOwner'
  <2>1. PICK i \in Ids \ Born : /\ opening' = [opening EXCEPT ![c] = i]
                              /\ opened' = [opened EXCEPT ![i] = [st |-> "opening", key |-> adopted]]
    BY DEF Reopen, OpenCatalog
  <2>2. opening[c] = 0
    BY DEF Reopen, OpenCatalog
  <2>3. SUFFICES ASSUME NEW j \in Ids
               PROVE  /\ opened'[j].st = "opening" => \E d \in Catalogs : opening'[d] = j
                      /\ opened'[j].st = "open" => \/ \E d \in Catalogs : cat'[d] = j
                                                   \/ \E v \in Setters : \E d \in Catalogs : <<d, j>> \in setOld'[v]
    BY DEF HasOwner
  <2>4. CASE j = i
    BY <2>1, <2>4, <1>t DEF RepoTypes, CacheTypes
  <2>5. CASE j # i
    <3>1. opened'[j] = opened[j] /\ \A d \in Catalogs : opening[d] = j => opening'[d] = j
      BY <2>1, <2>2, <2>5, <1>t DEF RepoTypes, CacheTypes, Ids
    <3> QED  BY <3>1, <1>u, <1>t DEF HasOwner
  <2> QED  BY <2>4, <2>5
<1> QED  BY <1>1, <1>2, <1>3, <1>4, <1>5, <1>6, <1>7, <1>8, <1>9 DEF LifeInv, RepoTypes

LEMMA LifeReopened ==
  ASSUME KeyInv, LifeInv, "drop" \notin Overlaps, "close" \notin Overlaps, NEW s \in Setters, Reopened(s)
  PROVE  LifeInv'
<1>u. UNCHANGED <<adopted, keyStatus, cat, opening, opened, repoClosed, provider, setKey, setOld, closePc, closeSet, dropPc, dropSet, dropping, held, landed>>
  BY DEF Reopened, setVars, closeVars, dropVars, keyVars, cacheVars
<1>t. KeyInv /\ RepoTypes /\ CacheLife /\ OneEach /\ OldLife /\ SettleLife /\ CloseWaits /\ CloseSweeps /\ DropAlone /\ DropHolds /\ HasOwner /\ ProviderLife
  BY DEF KeyInv, LifeInv
<1>1. CacheLife' /\ OneEach' /\ SettleLife' /\ CloseWaits' /\ CloseSweeps' /\ DropHolds' /\ HasOwner' /\ ProviderLife'
  BY <1>u, <1>t DEF RepoTypes, CacheLife, CloseSweeps, CloseWaits, DropHolds, HasOwner, Lived, OneEach, ProviderLife, SettleLife
<1>2. OldLife'
  BY <1>u, <1>t, RepositoryAssumption DEF OldLife, Lived, Numbers, Settlers, RepoTypes, CacheTypes, SettleTypes, SetTypes, CloseTypes, DropTypes, ProviderTypes, Ids, CallersExclude, Reopened
<1>3. DropAlone'
  BY <1>u, <1>t, RepositoryAssumption DEF DropAlone, Numbers, Settlers, RepoTypes, CacheTypes, SettleTypes, SetTypes, CloseTypes, DropTypes, ProviderTypes, Ids, CallersExclude, Reopened
<1> QED  BY <1>1, <1>2, <1>3 DEF LifeInv, RepoTypes

LEMMA LifeCloseOld ==
  ASSUME KeyInv, LifeInv, "drop" \notin Overlaps, "close" \notin Overlaps, NEW s \in Setters, CloseOld(s)
  PROVE  LifeInv'
<1>u. UNCHANGED <<adopted, keyStatus, cat, opening, repoClosed, provider, setPc, setKey, closePc, closeSet, dropPc, dropSet, dropping, held, landed>>
  BY DEF CloseOld, setVars, closeVars, dropVars, keyVars, cacheVars
<1>t. KeyInv /\ RepoTypes /\ CacheLife /\ OneEach /\ OldLife /\ SettleLife /\ CloseWaits /\ CloseSweeps /\ DropAlone /\ DropHolds /\ HasOwner /\ ProviderLife
  BY DEF KeyInv, LifeInv
<1>1. OneEach' /\ CloseWaits' /\ DropAlone' /\ DropHolds' /\ ProviderLife'
  BY <1>u, <1>t DEF RepoTypes, CloseWaits, DropAlone, DropHolds, OneEach, ProviderLife
<1>2. CacheLife'
  <2>1. PICK ci \in setOld[s] : opened' = [opened EXCEPT ![ci[2]].st = "closed"]
    BY DEF CloseOld
  <2>2. ci[2] \in Ids /\ Lived(ci[2]) /\ \A c \in Catalogs : cat[c] # ci[2]
    BY <2>1, <1>t DEF RepoTypes, SetTypes, OldLife
  <2>3. \A i \in Ids : i # ci[2] => opened'[i] = opened[i]
    BY <2>1, <2>2, <1>t DEF RepoTypes, CacheTypes
  <2>4. \A c \in Catalogs : opening[c] # 0 => opening[c] # ci[2]
    BY <2>2, <1>t DEF CacheLife, Lived
  <2> QED  BY <2>2, <2>3, <2>4, <1>u, <1>t DEF CacheLife, Lived, RepoTypes, CacheTypes, Numbers
<1>3. OldLife'
  BY <1>u, <1>t, RepositoryAssumption DEF OldLife, Lived, Numbers, Settlers, RepoTypes, CacheTypes, SettleTypes, SetTypes, CloseTypes, DropTypes, ProviderTypes, Ids, CallersExclude, CloseOld
<1>4. SettleLife'
  BY <1>u, <1>t, RepositoryAssumption DEF SettleLife, Lived, Numbers, Settlers, RepoTypes, CacheTypes, SettleTypes, SetTypes, CloseTypes, DropTypes, ProviderTypes, Ids, CallersExclude, CloseOld
<1>5. CloseSweeps'
  BY <1>u, <1>t, RepositoryAssumption DEF CloseSweeps, Lived, OldLife, Numbers, Settlers, RepoTypes, CacheTypes, SettleTypes, SetTypes, CloseTypes, DropTypes, ProviderTypes, Ids, CallersExclude, CloseOld
<1>6. HasOwner'
  <2>0. SUFFICES ASSUME NEW j \in Ids
               PROVE  /\ opened'[j].st = "opening" => \E d \in Catalogs : opening'[d] = j
                      /\ opened'[j].st = "open" => \/ \E d \in Catalogs : cat'[d] = j
                                                   \/ \E v \in Setters : \E d \in Catalogs : <<d, j>> \in setOld'[v]
    BY DEF HasOwner
  <2>1. PICK ci \in setOld[s] : /\ opened' = [opened EXCEPT ![ci[2]].st = "closed"]
                              /\ setOld' = [setOld EXCEPT ![s] = @ \ {ci}]
    BY DEF CloseOld
  <2>2. ci[2] \in Ids /\ setOld[s] \subseteq Catalogs \X Ids
    BY <2>1, <1>t DEF RepoTypes, SetTypes
  <2>3. CASE j = ci[2]
    BY <2>1, <2>2, <2>3, <1>t DEF RepoTypes, CacheTypes
  <2>4. CASE j # ci[2]
    <3>1. opened'[j] = opened[j]
      BY <2>1, <2>2, <2>4, <1>t DEF RepoTypes, CacheTypes
    <3>2. \A v \in Setters : \A d \in Catalogs : <<d, j>> \in setOld[v] => <<d, j>> \in setOld'[v]
      BY <2>1, <2>2, <2>4, <1>t DEF RepoTypes, SetTypes
    <3> QED  BY <3>1, <3>2, <1>u, <1>t DEF HasOwner
  <2> QED  BY <2>3, <2>4
<1> QED  BY <1>1, <1>2, <1>3, <1>4, <1>5, <1>6 DEF LifeInv, RepoTypes

LEMMA LifeSetKeyEnds ==
  ASSUME KeyInv, LifeInv, "drop" \notin Overlaps, "close" \notin Overlaps, NEW s \in Setters, SetKeyEnds(s)
  PROVE  LifeInv'
<1>u. UNCHANGED <<adopted, cat, opening, opened, repoClosed, provider, setKey, setOld, closePc, closeSet, dropPc, dropSet, dropping, held, landed>>
  BY DEF SetKeyEnds, RecordKey, setVars, closeVars, dropVars, keyVars, cacheVars
<1>t. KeyInv /\ RepoTypes /\ CacheLife /\ OneEach /\ OldLife /\ SettleLife /\ CloseWaits /\ CloseSweeps /\ DropAlone /\ DropHolds /\ HasOwner /\ ProviderLife
  BY DEF KeyInv, LifeInv
<1>1. CacheLife' /\ OneEach' /\ SettleLife' /\ CloseWaits' /\ CloseSweeps' /\ DropHolds' /\ HasOwner' /\ ProviderLife'
  BY <1>u, <1>t DEF RepoTypes, CacheLife, CloseSweeps, CloseWaits, DropHolds, HasOwner, Lived, OneEach, ProviderLife, SettleLife
<1>2. OldLife'
  BY <1>u, <1>t, RepositoryAssumption DEF OldLife, Lived, Numbers, Settlers, RepoTypes, CacheTypes, SettleTypes, SetTypes, CloseTypes, DropTypes, ProviderTypes, Ids, CallersExclude, SetKeyEnds, RecordKey
<1>3. DropAlone'
  BY <1>u, <1>t, RepositoryAssumption DEF DropAlone, Numbers, Settlers, RepoTypes, CacheTypes, SettleTypes, SetTypes, CloseTypes, DropTypes, ProviderTypes, Ids, CallersExclude, SetKeyEnds, RecordKey
<1> QED  BY <1>1, <1>2, <1>3 DEF LifeInv, RepoTypes

LEMMA LifeBuildProvider ==
  ASSUME KeyInv, LifeInv, "drop" \notin Overlaps, "close" \notin Overlaps, NEW p \in Providers, BuildProvider(p)
  PROVE  LifeInv'
<1>u. UNCHANGED <<adopted, keyStatus, cat, opening, opened, repoClosed, setPc, setKey, setOld, closePc, closeSet, dropPc, dropSet, dropping, held, landed>>
  BY DEF BuildProvider, setVars, closeVars, dropVars, keyVars, cacheVars
<1>t. KeyInv /\ RepoTypes /\ CacheLife /\ OneEach /\ OldLife /\ SettleLife /\ CloseWaits /\ CloseSweeps /\ DropAlone /\ DropHolds /\ HasOwner /\ ProviderLife
  BY DEF KeyInv, LifeInv
<1>1. CacheLife' /\ OneEach' /\ OldLife' /\ SettleLife' /\ CloseWaits' /\ CloseSweeps' /\ DropAlone' /\ DropHolds' /\ HasOwner'
  BY <1>u, <1>t DEF RepoTypes, CacheLife, CloseSweeps, CloseWaits, DropAlone, DropHolds, HasOwner, Lived, OldLife, OneEach, SettleLife
<1>2. ProviderLife'
  BY <1>u, <1>t, RepositoryAssumption DEF ProviderLife, CloseWaits, Numbers, Settlers, RepoTypes, CacheTypes, SettleTypes, SetTypes, CloseTypes, DropTypes, ProviderTypes, Ids, CallersExclude, BuildProvider
<1> QED  BY <1>1, <1>2 DEF LifeInv, RepoTypes

LEMMA LifeTrack ==
  ASSUME KeyInv, LifeInv, "drop" \notin Overlaps, "close" \notin Overlaps, NEW p \in Providers, Track(p)
  PROVE  LifeInv'
<1>u. UNCHANGED <<adopted, keyStatus, cat, opening, opened, repoClosed, setPc, setKey, setOld, closePc, closeSet, dropPc, dropSet, dropping, held, landed>>
  BY DEF Track, setVars, closeVars, dropVars, keyVars, cacheVars
<1>t. KeyInv /\ RepoTypes /\ CacheLife /\ OneEach /\ OldLife /\ SettleLife /\ CloseWaits /\ CloseSweeps /\ DropAlone /\ DropHolds /\ HasOwner /\ ProviderLife
  BY DEF KeyInv, LifeInv
<1>1. CacheLife' /\ OneEach' /\ OldLife' /\ SettleLife' /\ CloseWaits' /\ CloseSweeps' /\ DropAlone' /\ DropHolds' /\ HasOwner'
  BY <1>u, <1>t DEF RepoTypes, CacheLife, CloseSweeps, CloseWaits, DropAlone, DropHolds, HasOwner, Lived, OldLife, OneEach, SettleLife
<1>2. ProviderLife'
  BY <1>u, <1>t, RepositoryAssumption DEF ProviderLife, Numbers, Settlers, RepoTypes, CacheTypes, SettleTypes, SetTypes, CloseTypes, DropTypes, ProviderTypes, Ids, CallersExclude, Track
<1> QED  BY <1>1, <1>2 DEF LifeInv, RepoTypes

LEMMA LifeBuildFails ==
  ASSUME KeyInv, LifeInv, "drop" \notin Overlaps, "close" \notin Overlaps, NEW p \in Providers, BuildFails(p)
  PROVE  LifeInv'
<1>u. UNCHANGED <<adopted, keyStatus, cat, opening, opened, repoClosed, setPc, setKey, setOld, closePc, closeSet, dropPc, dropSet, dropping, held, landed>>
  BY DEF BuildFails, setVars, closeVars, dropVars, keyVars, cacheVars
<1>t. KeyInv /\ RepoTypes /\ CacheLife /\ OneEach /\ OldLife /\ SettleLife /\ CloseWaits /\ CloseSweeps /\ DropAlone /\ DropHolds /\ HasOwner /\ ProviderLife
  BY DEF KeyInv, LifeInv
<1>1. CacheLife' /\ OneEach' /\ OldLife' /\ SettleLife' /\ CloseWaits' /\ CloseSweeps' /\ DropAlone' /\ DropHolds' /\ HasOwner'
  BY <1>u, <1>t DEF RepoTypes, CacheLife, CloseSweeps, CloseWaits, DropAlone, DropHolds, HasOwner, Lived, OldLife, OneEach, SettleLife
<1>2. ProviderLife'
  BY <1>u, <1>t, RepositoryAssumption DEF ProviderLife, Numbers, Settlers, RepoTypes, CacheTypes, SettleTypes, SetTypes, CloseTypes, DropTypes, ProviderTypes, Ids, CallersExclude, BuildFails
<1> QED  BY <1>1, <1>2 DEF LifeInv, RepoTypes

LEMMA LifeRelease ==
  ASSUME KeyInv, LifeInv, "drop" \notin Overlaps, "close" \notin Overlaps, NEW p \in Providers, Release(p)
  PROVE  LifeInv'
<1>u. UNCHANGED <<adopted, keyStatus, cat, opening, opened, repoClosed, setPc, setKey, setOld, closePc, closeSet, dropPc, dropSet, dropping, held, landed>>
  BY DEF Release, setVars, closeVars, dropVars, keyVars, cacheVars
<1>t. KeyInv /\ RepoTypes /\ CacheLife /\ OneEach /\ OldLife /\ SettleLife /\ CloseWaits /\ CloseSweeps /\ DropAlone /\ DropHolds /\ HasOwner /\ ProviderLife
  BY DEF KeyInv, LifeInv
<1>1. CacheLife' /\ OneEach' /\ OldLife' /\ SettleLife' /\ CloseWaits' /\ CloseSweeps' /\ DropAlone' /\ DropHolds' /\ HasOwner'
  BY <1>u, <1>t DEF RepoTypes, CacheLife, CloseSweeps, CloseWaits, DropAlone, DropHolds, HasOwner, Lived, OldLife, OneEach, SettleLife
<1>2. ProviderLife'
  BY <1>u, <1>t, RepositoryAssumption DEF ProviderLife, Numbers, Settlers, RepoTypes, CacheTypes, SettleTypes, SetTypes, CloseTypes, DropTypes, ProviderTypes, Ids, CallersExclude, Release
<1> QED  BY <1>1, <1>2 DEF LifeInv, RepoTypes

LEMMA LifeReleaseEnds ==
  ASSUME KeyInv, LifeInv, "drop" \notin Overlaps, "close" \notin Overlaps, NEW p \in Providers, ReleaseEnds(p)
  PROVE  LifeInv'
<1>u. UNCHANGED <<adopted, keyStatus, cat, opening, opened, repoClosed, setPc, setKey, setOld, closePc, closeSet, dropPc, dropSet, dropping, held, landed>>
  BY DEF ReleaseEnds, setVars, closeVars, dropVars, keyVars, cacheVars
<1>t. KeyInv /\ RepoTypes /\ CacheLife /\ OneEach /\ OldLife /\ SettleLife /\ CloseWaits /\ CloseSweeps /\ DropAlone /\ DropHolds /\ HasOwner /\ ProviderLife
  BY DEF KeyInv, LifeInv
<1>1. CacheLife' /\ OneEach' /\ OldLife' /\ SettleLife' /\ CloseWaits' /\ CloseSweeps' /\ DropAlone' /\ DropHolds' /\ HasOwner'
  BY <1>u, <1>t DEF RepoTypes, CacheLife, CloseSweeps, CloseWaits, DropAlone, DropHolds, HasOwner, Lived, OldLife, OneEach, SettleLife
<1>2. ProviderLife'
  BY <1>u, <1>t, RepositoryAssumption DEF ProviderLife, Numbers, Settlers, RepoTypes, CacheTypes, SettleTypes, SetTypes, CloseTypes, DropTypes, ProviderTypes, Ids, CallersExclude, ReleaseEnds
<1> QED  BY <1>1, <1>2 DEF LifeInv, RepoTypes

LEMMA LifeDropBegins ==
  ASSUME KeyInv, LifeInv, "drop" \notin Overlaps, "close" \notin Overlaps, DropBegins
  PROVE  LifeInv'
<1>u. UNCHANGED <<adopted, keyStatus, cat, opening, opened, repoClosed, provider, setPc, setKey, setOld, closePc, closeSet, dropSet, dropping>>
  BY DEF DropBegins, SettleBegins, Settled, NoIds, setVars, closeVars, dropVars, keyVars, cacheVars
<1>t. KeyInv /\ RepoTypes /\ CacheLife /\ OneEach /\ OldLife /\ SettleLife /\ CloseWaits /\ CloseSweeps /\ DropAlone /\ DropHolds /\ HasOwner /\ ProviderLife
  BY DEF KeyInv, LifeInv
<1>1. CacheLife' /\ OneEach' /\ OldLife' /\ CloseSweeps' /\ HasOwner' /\ ProviderLife'
  BY <1>u, <1>t DEF RepoTypes, CacheLife, CloseSweeps, HasOwner, Lived, OldLife, OneEach, ProviderLife
<1>2. SettleLife'
  BY <1>u, <1>t, RepositoryAssumption DEF SettleLife, Lived, CacheLife, Numbers, Settlers, RepoTypes, CacheTypes, SettleTypes, SetTypes, CloseTypes, DropTypes, ProviderTypes, Ids, CallersExclude, DropBegins, SettleBegins, Settled, NoIds
<1>3. CloseWaits'
  BY <1>u, <1>t, RepositoryAssumption DEF CloseWaits, Numbers, Settlers, RepoTypes, CacheTypes, SettleTypes, SetTypes, CloseTypes, DropTypes, ProviderTypes, Ids, CallersExclude, DropBegins, SettleBegins, Settled, NoIds
<1>4. DropAlone'
  BY <1>u, <1>t, RepositoryAssumption DEF DropAlone, CloseWaits, Numbers, Settlers, RepoTypes, CacheTypes, SettleTypes, SetTypes, CloseTypes, DropTypes, ProviderTypes, Ids, CallersExclude, DropBegins, SettleBegins, Settled, NoIds
<1>5. DropHolds'
  BY <1>u, <1>t, RepositoryAssumption DEF DropHolds, KeyOfDrop, KeyInv, Numbers, Settlers, RepoTypes, CacheTypes, SettleTypes, SetTypes, CloseTypes, DropTypes, ProviderTypes, Ids, CallersExclude, DropBegins, SettleBegins, Settled, NoIds
<1> QED  BY <1>1, <1>2, <1>3, <1>4, <1>5 DEF LifeInv, RepoTypes

LEMMA LifeDropSettled ==
  ASSUME KeyInv, LifeInv, "drop" \notin Overlaps, "close" \notin Overlaps, DropSettled
  PROVE  LifeInv'
<1>u. UNCHANGED <<adopted, keyStatus, cat, opening, opened, repoClosed, provider, setPc, setKey, setOld, closePc, closeSet, dropping>>
  BY DEF DropSettled, SettleEnds, Settled, SettleResult, NoIds, setVars, closeVars, dropVars, keyVars, cacheVars
<1>t. KeyInv /\ RepoTypes /\ CacheLife /\ OneEach /\ OldLife /\ SettleLife /\ CloseWaits /\ CloseSweeps /\ DropAlone /\ DropHolds /\ HasOwner /\ ProviderLife
  BY DEF KeyInv, LifeInv
<1>1. CacheLife' /\ OneEach' /\ OldLife' /\ CloseSweeps' /\ HasOwner' /\ ProviderLife'
  BY <1>u, <1>t DEF RepoTypes, CacheLife, CloseSweeps, HasOwner, Lived, OldLife, OneEach, ProviderLife
<1>2. SettleLife'
  BY <1>u, <1>t, RepositoryAssumption DEF SettleLife, Lived, Numbers, Settlers, RepoTypes, CacheTypes, SettleTypes, SetTypes, CloseTypes, DropTypes, ProviderTypes, Ids, CallersExclude, DropSettled, SettleEnds, Settled, SettleResult, NoIds
<1>3. CloseWaits'
  BY <1>u, <1>t, RepositoryAssumption DEF CloseWaits, Numbers, Settlers, RepoTypes, CacheTypes, SettleTypes, SetTypes, CloseTypes, DropTypes, ProviderTypes, Ids, CallersExclude, DropSettled, SettleEnds, Settled, SettleResult, NoIds
<1>4. DropAlone'
  BY <1>u, <1>t, RepositoryAssumption DEF DropAlone, Numbers, Settlers, RepoTypes, CacheTypes, SettleTypes, SetTypes, CloseTypes, DropTypes, ProviderTypes, Ids, CallersExclude, DropSettled, SettleEnds, Settled, SettleResult, NoIds
<1>5. DropHolds'
  BY <1>u, <1>t, RepositoryAssumption DEF DropHolds, KeyOfDrop, KeyInv, Numbers, Settlers, RepoTypes, CacheTypes, SettleTypes, SetTypes, CloseTypes, DropTypes, ProviderTypes, Ids, CallersExclude, DropSettled, SettleEnds, Settled, SettleResult, NoIds
<1> QED  BY <1>1, <1>2, <1>3, <1>4, <1>5 DEF LifeInv, RepoTypes

LEMMA LifeDropOne ==
  ASSUME KeyInv, LifeInv, "drop" \notin Overlaps, "close" \notin Overlaps, DropOne
  PROVE  LifeInv'
<1>u. UNCHANGED <<adopted, keyStatus, cat, opening, opened, repoClosed, provider, setPc, setKey, setOld, closePc, closeSet, held, landed>>
  BY DEF DropOne, setVars, closeVars, dropVars, keyVars, cacheVars
<1>t. KeyInv /\ RepoTypes /\ CacheLife /\ OneEach /\ OldLife /\ SettleLife /\ CloseWaits /\ CloseSweeps /\ DropAlone /\ DropHolds /\ HasOwner /\ ProviderLife
  BY DEF KeyInv, LifeInv
<1>1. CacheLife' /\ OneEach' /\ OldLife' /\ SettleLife' /\ CloseWaits' /\ CloseSweeps' /\ HasOwner' /\ ProviderLife'
  BY <1>u, <1>t DEF RepoTypes, CacheLife, CloseSweeps, CloseWaits, HasOwner, Lived, OldLife, OneEach, ProviderLife, SettleLife
<1>2. DropAlone'
  BY <1>u, <1>t, RepositoryAssumption DEF DropAlone, Numbers, Settlers, RepoTypes, CacheTypes, SettleTypes, SetTypes, CloseTypes, DropTypes, ProviderTypes, Ids, CallersExclude, DropOne
<1>3. DropHolds'
  BY <1>u, <1>t, RepositoryAssumption DEF DropHolds, KeyOfDrop, KeyInv, Numbers, Settlers, RepoTypes, CacheTypes, SettleTypes, SetTypes, CloseTypes, DropTypes, ProviderTypes, Ids, CallersExclude, DropOne
<1> QED  BY <1>1, <1>2, <1>3 DEF LifeInv, RepoTypes

LEMMA LifeReread ==
  ASSUME KeyInv, LifeInv, "drop" \notin Overlaps, "close" \notin Overlaps, Reread
  PROVE  LifeInv'
<1>u. UNCHANGED <<adopted, keyStatus, opening, opened, repoClosed, provider, setPc, setKey, setOld, closePc, closeSet, dropSet, held, landed>>
  BY DEF Reread, setVars, closeVars, dropVars, keyVars, cacheVars
<1>t. KeyInv /\ RepoTypes /\ CacheLife /\ OneEach /\ OldLife /\ SettleLife /\ CloseWaits /\ CloseSweeps /\ DropAlone /\ DropHolds /\ HasOwner /\ ProviderLife
  BY DEF KeyInv, LifeInv
<1>1. SettleLife' /\ ProviderLife'
  BY <1>u, <1>t DEF RepoTypes, Lived, ProviderLife, SettleLife
<1>2. CacheLife'
  BY <1>u, <1>t, RepositoryAssumption DEF CacheLife, Lived, DropHolds, DropAlone, Numbers, Settlers, RepoTypes, CacheTypes, SettleTypes, SetTypes, CloseTypes, DropTypes, ProviderTypes, Ids, CallersExclude, Reread
<1>3. OneEach'
  BY <1>u, <1>t, RepositoryAssumption DEF OneEach, DropHolds, DropAlone, Numbers, Settlers, RepoTypes, CacheTypes, SettleTypes, SetTypes, CloseTypes, DropTypes, ProviderTypes, Ids, CallersExclude, Reread
<1>4. OldLife'
  BY <1>u, <1>t, RepositoryAssumption DEF OldLife, Lived, DropHolds, DropAlone, Numbers, Settlers, RepoTypes, CacheTypes, SettleTypes, SetTypes, CloseTypes, DropTypes, ProviderTypes, Ids, CallersExclude, Reread
<1>5. CloseWaits'
  BY <1>u, <1>t, RepositoryAssumption DEF CloseWaits, DropHolds, DropAlone, Numbers, Settlers, RepoTypes, CacheTypes, SettleTypes, SetTypes, CloseTypes, DropTypes, ProviderTypes, Ids, CallersExclude, Reread
<1>6. CloseSweeps'
  BY <1>u, <1>t, RepositoryAssumption DEF CloseSweeps, Lived, DropHolds, DropAlone, Numbers, Settlers, RepoTypes, CacheTypes, SettleTypes, SetTypes, CloseTypes, DropTypes, ProviderTypes, Ids, CallersExclude, Reread
<1>7. DropAlone'
  BY <1>u, <1>t, RepositoryAssumption DEF DropAlone, Numbers, Settlers, RepoTypes, CacheTypes, SettleTypes, SetTypes, CloseTypes, DropTypes, ProviderTypes, Ids, CallersExclude, Reread
<1>8. DropHolds'
  BY <1>u, <1>t, RepositoryAssumption DEF DropHolds, DropAlone, Numbers, Settlers, RepoTypes, CacheTypes, SettleTypes, SetTypes, CloseTypes, DropTypes, ProviderTypes, Ids, CallersExclude, Reread
<1>9. HasOwner'
  <2>1. dropping \in Catalogs \X Ids /\ cat[dropping[1]] = dropping[2]
    BY <1>t DEF Reread, RepoTypes, DropTypes, DropHolds
  <2>2. cat' = cat
    BY <2>1, <1>t DEF Reread, RepoTypes, CacheTypes
  <2> QED  BY <2>2, <1>u, <1>t DEF HasOwner
<1> QED  BY <1>1, <1>2, <1>3, <1>4, <1>5, <1>6, <1>7, <1>8, <1>9 DEF LifeInv, RepoTypes

LEMMA LifeDropEnds ==
  ASSUME KeyInv, LifeInv, "drop" \notin Overlaps, "close" \notin Overlaps, DropEnds
  PROVE  LifeInv'
<1>u. UNCHANGED <<adopted, keyStatus, cat, opening, opened, repoClosed, provider, setPc, setKey, setOld, closePc, closeSet, dropSet, dropping, held, landed>>
  BY DEF DropEnds, setVars, closeVars, dropVars, keyVars, cacheVars
<1>t. KeyInv /\ RepoTypes /\ CacheLife /\ OneEach /\ OldLife /\ SettleLife /\ CloseWaits /\ CloseSweeps /\ DropAlone /\ DropHolds /\ HasOwner /\ ProviderLife
  BY DEF KeyInv, LifeInv
<1>1. CacheLife' /\ OneEach' /\ OldLife' /\ SettleLife' /\ CloseWaits' /\ CloseSweeps' /\ HasOwner' /\ ProviderLife'
  BY <1>u, <1>t DEF RepoTypes, CacheLife, CloseSweeps, CloseWaits, HasOwner, Lived, OldLife, OneEach, ProviderLife, SettleLife
<1>2. DropAlone'
  BY <1>u, <1>t, RepositoryAssumption DEF DropAlone, Numbers, Settlers, RepoTypes, CacheTypes, SettleTypes, SetTypes, CloseTypes, DropTypes, ProviderTypes, Ids, CallersExclude, DropEnds
<1>3. DropHolds'
  BY <1>u, <1>t, RepositoryAssumption DEF DropHolds, Numbers, Settlers, RepoTypes, CacheTypes, SettleTypes, SetTypes, CloseTypes, DropTypes, ProviderTypes, Ids, CallersExclude, DropEnds
<1> QED  BY <1>1, <1>2, <1>3 DEF LifeInv, RepoTypes

LEMMA LifeCloseBegins ==
  ASSUME KeyInv, LifeInv, "drop" \notin Overlaps, "close" \notin Overlaps, CloseBegins
  PROVE  LifeInv'
<1>u. UNCHANGED <<adopted, keyStatus, cat, opening, opened, provider, setPc, setKey, setOld, closeSet, dropPc, dropSet, dropping, held, landed>>
  BY DEF CloseBegins, setVars, closeVars, dropVars, keyVars, cacheVars
<1>t. KeyInv /\ RepoTypes /\ CacheLife /\ OneEach /\ OldLife /\ SettleLife /\ CloseWaits /\ CloseSweeps /\ DropAlone /\ DropHolds /\ HasOwner /\ ProviderLife
  BY DEF KeyInv, LifeInv
<1>1. OneEach' /\ OldLife' /\ SettleLife' /\ DropHolds' /\ HasOwner'
  BY <1>u, <1>t DEF RepoTypes, DropHolds, HasOwner, Lived, OldLife, OneEach, SettleLife
<1>2. CacheLife'
  BY <1>u, <1>t, RepositoryAssumption DEF CacheLife, Lived, DropAlone, Numbers, Settlers, RepoTypes, CacheTypes, SettleTypes, SetTypes, CloseTypes, DropTypes, ProviderTypes, Ids, CallersExclude, CloseBegins
<1>3. CloseWaits'
  BY <1>u, <1>t, RepositoryAssumption DEF CloseWaits, DropAlone, Numbers, Settlers, RepoTypes, CacheTypes, SettleTypes, SetTypes, CloseTypes, DropTypes, ProviderTypes, Ids, CallersExclude, CloseBegins
<1>4. CloseSweeps'
  BY <1>u, <1>t, RepositoryAssumption DEF CloseSweeps, Lived, DropAlone, Numbers, Settlers, RepoTypes, CacheTypes, SettleTypes, SetTypes, CloseTypes, DropTypes, ProviderTypes, Ids, CallersExclude, CloseBegins
<1>5. DropAlone'
  BY <1>u, <1>t, RepositoryAssumption DEF DropAlone, Numbers, Settlers, RepoTypes, CacheTypes, SettleTypes, SetTypes, CloseTypes, DropTypes, ProviderTypes, Ids, CallersExclude, CloseBegins
<1>6. ProviderLife'
  BY <1>u, <1>t, RepositoryAssumption DEF ProviderLife, DropAlone, Numbers, Settlers, RepoTypes, CacheTypes, SettleTypes, SetTypes, CloseTypes, DropTypes, ProviderTypes, Ids, CallersExclude, CloseBegins
<1> QED  BY <1>1, <1>2, <1>3, <1>4, <1>5, <1>6 DEF LifeInv, RepoTypes

LEMMA LifeProvidersClosed ==
  ASSUME KeyInv, LifeInv, "drop" \notin Overlaps, "close" \notin Overlaps, ProvidersClosed
  PROVE  LifeInv'
<1>u. UNCHANGED <<adopted, keyStatus, cat, opening, opened, repoClosed, setPc, setKey, setOld, closeSet, dropPc, dropSet, dropping>>
  BY DEF ProvidersClosed, SettleBegins, setVars, closeVars, dropVars, keyVars, cacheVars
<1>t. KeyInv /\ RepoTypes /\ CacheLife /\ OneEach /\ OldLife /\ SettleLife /\ CloseWaits /\ CloseSweeps /\ DropAlone /\ DropHolds /\ HasOwner /\ ProviderLife
  BY DEF KeyInv, LifeInv
<1>1. OneEach' /\ OldLife' /\ HasOwner'
  BY <1>u, <1>t DEF RepoTypes, HasOwner, Lived, OldLife, OneEach
<1>2. CacheLife'
  BY <1>u, <1>t, RepositoryAssumption DEF CacheLife, Lived, Numbers, Settlers, RepoTypes, CacheTypes, SettleTypes, SetTypes, CloseTypes, DropTypes, ProviderTypes, Ids, CallersExclude, ProvidersClosed, SettleBegins
<1>3. SettleLife'
  <2>1. "close" \in Settlers
    BY DEF Settlers
  <2>2. /\ held' = [held EXCEPT !["close"] = cat]
        /\ landed' = [landed EXCEPT !["close"] = NoIds]
    BY DEF ProvidersClosed, SettleBegins
  <2>3. \A c \in Catalogs : cat[c] # 0 => Lived(cat[c])
    BY <1>t DEF CacheLife
  <2>4. \A i \in Ids : Lived(i) => Lived(i)'
    BY <1>u DEF Lived
  <2>5. SUFFICES ASSUME NEW v \in Settlers, NEW c \in Catalogs
               PROVE  /\ (held[v][c] # 0 => Lived(held[v][c]))'
                      /\ (landed[v][c] # 0 => Lived(landed[v][c]))'
    BY DEF SettleLife
  <2>6. CASE v = "close"
    BY <2>1, <2>2, <2>3, <2>4, <2>6, <1>t DEF NoIds, RepoTypes, CacheTypes, SettleTypes, Numbers
  <2>7. CASE v # "close"
    BY <2>1, <2>2, <2>4, <2>7, <1>t DEF SettleLife, RepoTypes, SettleTypes, Numbers
  <2> QED  BY <2>6, <2>7
<1>4. CloseWaits'
  <2>1. landed'["close"] = NoIds
    BY <1>t DEF ProvidersClosed, SettleBegins, RepoTypes, SettleTypes, Settlers
  <2> QED  BY <2>1, <1>u, <1>t DEF ProvidersClosed, CloseWaits, NoIds
<1>5. CloseSweeps'
  BY <1>u, <1>t, RepositoryAssumption DEF CloseSweeps, Lived, Numbers, Settlers, RepoTypes, CacheTypes, SettleTypes, SetTypes, CloseTypes, DropTypes, ProviderTypes, Ids, CallersExclude, ProvidersClosed, SettleBegins
<1>6. DropAlone'
  BY <1>u, <1>t, RepositoryAssumption DEF DropAlone, CloseWaits, Numbers, Settlers, RepoTypes, CacheTypes, SettleTypes, SetTypes, CloseTypes, DropTypes, ProviderTypes, Ids, CallersExclude, ProvidersClosed, SettleBegins
<1>7. DropHolds'
  BY <1>u, <1>t, RepositoryAssumption DEF DropHolds, DropAlone, CloseWaits, Numbers, Settlers, RepoTypes, CacheTypes, SettleTypes, SetTypes, CloseTypes, DropTypes, ProviderTypes, Ids, CallersExclude, ProvidersClosed, SettleBegins
<1>8. ProviderLife'
  BY <1>u, <1>t, RepositoryAssumption DEF ProviderLife, Numbers, Settlers, RepoTypes, CacheTypes, SettleTypes, SetTypes, CloseTypes, DropTypes, ProviderTypes, Ids, CallersExclude, ProvidersClosed, SettleBegins
<1> QED  BY <1>1, <1>2, <1>3, <1>4, <1>5, <1>6, <1>7, <1>8 DEF LifeInv, RepoTypes

LEMMA LifeCloseSettled ==
  ASSUME KeyInv, LifeInv, "drop" \notin Overlaps, "close" \notin Overlaps, CloseSettled
  PROVE  LifeInv'
<1>u. UNCHANGED <<adopted, keyStatus, cat, opening, opened, repoClosed, provider, setPc, setKey, setOld, dropPc, dropSet, dropping>>
  BY DEF CloseSettled, SettleEnds, Settled, SettleResult, NoIds, setVars, closeVars, dropVars, keyVars, cacheVars
<1>t. KeyInv /\ RepoTypes /\ CacheLife /\ OneEach /\ OldLife /\ SettleLife /\ CloseWaits /\ CloseSweeps /\ DropAlone /\ DropHolds /\ HasOwner /\ ProviderLife
  BY DEF KeyInv, LifeInv
<1>1. OneEach' /\ OldLife' /\ HasOwner'
  BY <1>u, <1>t DEF RepoTypes, HasOwner, Lived, OldLife, OneEach
<1>2. CacheLife'
  BY <1>u, <1>t, RepositoryAssumption DEF CacheLife, Lived, Numbers, Settlers, RepoTypes, CacheTypes, SettleTypes, SetTypes, CloseTypes, DropTypes, ProviderTypes, Ids, CallersExclude, CloseSettled, SettleEnds, Settled, SettleResult, NoIds
<1>3. SettleLife'
  BY <1>u, <1>t, RepositoryAssumption DEF SettleLife, Lived, Numbers, Settlers, RepoTypes, CacheTypes, SettleTypes, SetTypes, CloseTypes, DropTypes, ProviderTypes, Ids, CallersExclude, CloseSettled, SettleEnds, Settled, SettleResult, NoIds
<1>4. CloseWaits'
  BY <1>u, <1>t, RepositoryAssumption DEF CloseWaits, Numbers, Settlers, RepoTypes, CacheTypes, SettleTypes, SetTypes, CloseTypes, DropTypes, ProviderTypes, Ids, CallersExclude, CloseSettled, SettleEnds, Settled, SettleResult, NoIds
<1>5. CloseSweeps'
  BY <1>u, <1>t, RepositoryAssumption DEF CloseSweeps, Lived, CloseWaits, SettleLife, CacheLife, Numbers, Settlers, RepoTypes, CacheTypes, SettleTypes, SetTypes, CloseTypes, DropTypes, ProviderTypes, Ids, CallersExclude, CloseSettled, SettleEnds, Settled, SettleResult, NoIds
<1>6. DropAlone'
  BY <1>u, <1>t, RepositoryAssumption DEF DropAlone, CloseWaits, Numbers, Settlers, RepoTypes, CacheTypes, SettleTypes, SetTypes, CloseTypes, DropTypes, ProviderTypes, Ids, CallersExclude, CloseSettled, SettleEnds, Settled, SettleResult, NoIds
<1>7. DropHolds'
  BY <1>u, <1>t, RepositoryAssumption DEF DropHolds, DropAlone, CloseWaits, Numbers, Settlers, RepoTypes, CacheTypes, SettleTypes, SetTypes, CloseTypes, DropTypes, ProviderTypes, Ids, CallersExclude, CloseSettled, SettleEnds, Settled, SettleResult, NoIds
<1>8. ProviderLife'
  BY <1>u, <1>t, RepositoryAssumption DEF ProviderLife, Numbers, Settlers, RepoTypes, CacheTypes, SettleTypes, SetTypes, CloseTypes, DropTypes, ProviderTypes, Ids, CallersExclude, CloseSettled, SettleEnds, Settled, SettleResult, NoIds
<1> QED  BY <1>1, <1>2, <1>3, <1>4, <1>5, <1>6, <1>7, <1>8 DEF LifeInv, RepoTypes

LEMMA LifeCloseCatalog ==
  ASSUME KeyInv, LifeInv, "drop" \notin Overlaps, "close" \notin Overlaps, CloseCatalog
  PROVE  LifeInv'
<1>u. UNCHANGED <<adopted, keyStatus, cat, opening, repoClosed, provider, setPc, setKey, setOld, closePc, dropPc, dropSet, dropping, held, landed>>
  BY DEF CloseCatalog, setVars, closeVars, dropVars, keyVars, cacheVars
<1>t. KeyInv /\ RepoTypes /\ CacheLife /\ OneEach /\ OldLife /\ SettleLife /\ CloseWaits /\ CloseSweeps /\ DropAlone /\ DropHolds /\ HasOwner /\ ProviderLife
  BY DEF KeyInv, LifeInv
<1>1. OneEach' /\ CloseWaits' /\ DropAlone' /\ DropHolds' /\ ProviderLife'
  BY <1>u, <1>t DEF RepoTypes, CloseWaits, DropAlone, DropHolds, OneEach, ProviderLife
<1>2. CacheLife'
  <2>1. PICK i \in closeSet : opened' = [opened EXCEPT ![i].st = "closed"]
    BY DEF CloseCatalog
  <2>2. i \in Ids /\ Lived(i) /\ closePc = "catalogs"
    BY <2>1, <1>t DEF CloseCatalog, RepoTypes, CloseTypes, CloseSweeps
  <2>3. \A j \in Ids : (j # i => opened'[j] = opened[j]) /\ (j = i => opened'[j].st = "closed")
    BY <2>1, <2>2, <1>t DEF RepoTypes, CacheTypes
  <2>4. \A c \in Catalogs : opening[c] # 0 => opening[c] # i
    BY <2>2, <1>t DEF CacheLife, Lived
  <2> QED  BY <2>2, <2>3, <2>4, <1>u, <1>t DEF CacheLife, Lived, RepoTypes, CacheTypes, Numbers
<1>3. OldLife'
  BY <1>u, <1>t, RepositoryAssumption DEF OldLife, Lived, Numbers, Settlers, RepoTypes, CacheTypes, SettleTypes, SetTypes, CloseTypes, DropTypes, ProviderTypes, Ids, CallersExclude, CloseCatalog
<1>4. SettleLife'
  BY <1>u, <1>t, RepositoryAssumption DEF SettleLife, Lived, Numbers, Settlers, RepoTypes, CacheTypes, SettleTypes, SetTypes, CloseTypes, DropTypes, ProviderTypes, Ids, CallersExclude, CloseCatalog
<1>5. CloseSweeps'
  BY <1>u, <1>t, RepositoryAssumption DEF CloseSweeps, Lived, Numbers, Settlers, RepoTypes, CacheTypes, SettleTypes, SetTypes, CloseTypes, DropTypes, ProviderTypes, Ids, CallersExclude, CloseCatalog
<1>6. HasOwner'
  <2>0. SUFFICES ASSUME NEW j \in Ids
               PROVE  /\ opened'[j].st = "opening" => \E d \in Catalogs : opening'[d] = j
                      /\ opened'[j].st = "open" => \/ \E d \in Catalogs : cat'[d] = j
                                                   \/ \E v \in Setters : \E d \in Catalogs : <<d, j>> \in setOld'[v]
    BY DEF HasOwner
  <2>1. PICK i \in closeSet : opened' = [opened EXCEPT ![i].st = "closed"]
    BY DEF CloseCatalog
  <2>2. i \in Ids
    BY <2>1, <1>t DEF RepoTypes, CloseTypes
  <2>3. CASE j = i
    BY <2>1, <2>2, <2>3, <1>t DEF RepoTypes, CacheTypes
  <2>4. CASE j # i
    <3>1. opened'[j] = opened[j]
      BY <2>1, <2>2, <2>4, <1>t DEF RepoTypes, CacheTypes
    <3> QED  BY <3>1, <1>u, <1>t DEF HasOwner
  <2> QED  BY <2>3, <2>4
<1> QED  BY <1>1, <1>2, <1>3, <1>4, <1>5, <1>6 DEF LifeInv, RepoTypes

LEMMA LifeCloseEnds ==
  ASSUME KeyInv, LifeInv, "drop" \notin Overlaps, "close" \notin Overlaps, CloseEnds
  PROVE  LifeInv'
<1>u. UNCHANGED <<adopted, keyStatus, opening, opened, repoClosed, provider, setPc, setKey, setOld, closeSet, dropPc, dropSet, dropping, held, landed>>
  BY DEF CloseEnds, NoIds, setVars, closeVars, dropVars, keyVars, cacheVars
<1>t. KeyInv /\ RepoTypes /\ CacheLife /\ OneEach /\ OldLife /\ SettleLife /\ CloseWaits /\ CloseSweeps /\ DropAlone /\ DropHolds /\ HasOwner /\ ProviderLife
  BY DEF KeyInv, LifeInv
<1>1. SettleLife'
  BY <1>u, <1>t DEF RepoTypes, Lived, SettleLife
<1>2. CacheLife'
  BY <1>u, <1>t, RepositoryAssumption DEF CacheLife, Lived, Numbers, Settlers, RepoTypes, CacheTypes, SettleTypes, SetTypes, CloseTypes, DropTypes, ProviderTypes, Ids, CallersExclude, CloseEnds, NoIds
<1>3. OneEach'
  BY <1>u, <1>t, RepositoryAssumption DEF OneEach, Numbers, Settlers, RepoTypes, CacheTypes, SettleTypes, SetTypes, CloseTypes, DropTypes, ProviderTypes, Ids, CallersExclude, CloseEnds, NoIds
<1>4. OldLife'
  BY <1>u, <1>t, RepositoryAssumption DEF OldLife, Lived, Numbers, Settlers, RepoTypes, CacheTypes, SettleTypes, SetTypes, CloseTypes, DropTypes, ProviderTypes, Ids, CallersExclude, CloseEnds, NoIds
<1>5. CloseWaits'
  BY <1>u, <1>t, RepositoryAssumption DEF CloseWaits, Numbers, Settlers, RepoTypes, CacheTypes, SettleTypes, SetTypes, CloseTypes, DropTypes, ProviderTypes, Ids, CallersExclude, CloseEnds, NoIds
<1>6. CloseSweeps'
  BY <1>u, <1>t, RepositoryAssumption DEF CloseSweeps, Lived, CloseWaits, Numbers, Settlers, RepoTypes, CacheTypes, SettleTypes, SetTypes, CloseTypes, DropTypes, ProviderTypes, Ids, CallersExclude, CloseEnds, NoIds
<1>7. DropAlone'
  BY <1>u, <1>t, RepositoryAssumption DEF DropAlone, CloseWaits, Numbers, Settlers, RepoTypes, CacheTypes, SettleTypes, SetTypes, CloseTypes, DropTypes, ProviderTypes, Ids, CallersExclude, CloseEnds, NoIds
<1>8. DropHolds'
  BY <1>u, <1>t, RepositoryAssumption DEF DropHolds, DropAlone, CloseWaits, Numbers, Settlers, RepoTypes, CacheTypes, SettleTypes, SetTypes, CloseTypes, DropTypes, ProviderTypes, Ids, CallersExclude, CloseEnds, NoIds
<1>9. HasOwner'
  <2>0. SUFFICES ASSUME NEW j \in Ids
               PROVE  /\ opened'[j].st = "opening" => \E d \in Catalogs : opening'[d] = j
                      /\ opened'[j].st = "open" => \/ \E d \in Catalogs : cat'[d] = j
                                                   \/ \E v \in Setters : \E d \in Catalogs : <<d, j>> \in setOld'[v]
    BY DEF HasOwner
  <2>1. \A d \in Catalogs : cat[d] # 0 => opened[cat[d]].st = "closed"
    BY <1>t DEF CloseEnds, CloseSweeps
  <2>2. opened[j].st = "open" => \A d \in Catalogs : cat[d] # j
    BY <2>1 DEF Ids
  <2> QED  BY <2>2, <1>u, <1>t DEF HasOwner
<1>10. ProviderLife'
  BY <1>u, <1>t, RepositoryAssumption DEF ProviderLife, Numbers, Settlers, RepoTypes, CacheTypes, SettleTypes, SetTypes, CloseTypes, DropTypes, ProviderTypes, Ids, CallersExclude, CloseEnds, NoIds
<1> QED  BY <1>1, <1>2, <1>3, <1>4, <1>5, <1>6, <1>7, <1>8, <1>9, <1>10 DEF LifeInv, RepoTypes

LEMMA LifeStart ==
  ASSUME RepoInit
  PROVE  LifeInv
<1>1. CacheLife /\ OneEach /\ OldLife /\ CloseWaits /\ CloseSweeps /\ DropAlone /\ DropHolds /\ HasOwner /\ ProviderLife
  BY DEF CacheLife, OneEach, OldLife, CloseWaits, CloseSweeps, DropAlone, DropHolds, HasOwner, ProviderLife, RepoInit, NoIds, Numbers, Ids, KeyStrings, Settlers
<1>2. SettleLife
  BY DEF SettleLife, RepoInit, NoIds
<1> QED  BY <1>1, <1>2 DEF LifeInv

LEMMA LifeStep ==
  ASSUME "drop" \notin Overlaps, "close" \notin Overlaps, KeyInv, LifeInv, RepoNext \/ UNCHANGED repoVars
  PROVE  LifeInv'
<1>1. CASE UNCHANGED repoVars
  BY <1>1, SMTT(30) DEF LifeInv, repoVars, RepoTypes, CacheLife, OneEach, OldLife, SettleLife, CloseWaits, CloseSweeps, DropAlone, DropHolds, HasOwner, ProviderLife, Lived
<1>2. ASSUME NEW c \in Catalogs, Ask(c) \/ Opened(c) \/ OpenFails(c)
      PROVE  LifeInv'
  BY <1>2, LifeAsk, LifeOpened, LifeOpenFails
<1>3. ASSUME NEW s \in Setters, SetterStep(s)
      PROVE  LifeInv'
  BY <1>3, LifeSetKeyRejected, LifeSetKeyRaises, LifeSetKeyVerified, LifeAdopt, LifeReopen, LifeReopened, LifeCloseOld, LifeSetKeyEnds DEF SetterStep
<1>4. ASSUME NEW s \in Setters, NEW k \in Tries[s], SetKeyBegins(s, k)
      PROVE  LifeInv'
  BY <1>4, LifeSetKeyBegins
<1>5. ASSUME NEW p \in Providers, BuildProvider(p) \/ Track(p) \/ BuildFails(p) \/ Release(p) \/ ReleaseEnds(p)
      PROVE  LifeInv'
  BY <1>5, LifeBuildProvider, LifeTrack, LifeBuildFails, LifeRelease, LifeReleaseEnds
<1>6. CASE DropBegins \/ DropStep
  BY <1>6, LifeDropBegins, LifeDropSettled, LifeDropOne, LifeReread, LifeDropEnds DEF DropStep
<1>7. CASE CloseBegins \/ CloseStep
  BY <1>7, LifeCloseBegins, LifeProvidersClosed, LifeCloseSettled, LifeCloseCatalog, LifeCloseEnds DEF CloseStep
<1> QED  BY <1>1, <1>2, <1>3, <1>4, <1>5, <1>6, <1>7 DEF RepoNext

\* What the properties read off the invariants.
LEMMA RepoProperties ==
  /\ KeyInv => CatalogsUseAdoptedKey
  /\ KeyInv /\ LifeInv => CachedCatalogsAreOpen /\ NothingStaysOpen
<1>1. KeyInv => CatalogsUseAdoptedKey
  BY DEF KeyInv, KeyOfCache, UsesAdopted, CatalogsUseAdoptedKey
<1>2. LifeInv => CachedCatalogsAreOpen
  BY DEF LifeInv, CacheLife, CachedCatalogsAreOpen
<1>3. ASSUME KeyInv, LifeInv, closePc = "done", \A s \in Setters : setPc[s] \in {"idle", "verify", "done"}
      PROVE  /\ \A i \in Ids : opened[i].st \in {"unborn", "closed"}
             /\ \A p \in Providers : provider[p] \in {"none", "closed"}
  <2>1. \A s \in Setters : setOld[s] = {}
    BY <1>3 DEF LifeInv, OldLife
  <2>2. \A c \in Catalogs : opening[c] = 0 /\ cat[c] = 0
    BY <1>3 DEF LifeInv, CloseWaits, CloseSweeps
  <2>3. \A i \in Ids : opened[i].st \notin {"opening", "open"}
    <3>1. SUFFICES ASSUME NEW i \in Ids
                 PROVE  opened[i].st # "opening" /\ opened[i].st # "open"
      OBVIOUS
    <3>2. i # 0
      BY DEF Ids
    <3>3. /\ opened[i].st = "opening" => \E c \in Catalogs : opening[c] = i
          /\ opened[i].st = "open" => \/ \E c \in Catalogs : cat[c] = i
                                      \/ \E s \in Setters : \E c \in Catalogs : <<c, i>> \in setOld[s]
      BY <1>3 DEF LifeInv, HasOwner
    <3>4. opened[i].st # "opening"
      BY <3>2, <3>3, <2>2
    <3>5. opened[i].st # "open"
      <4>1. \A s \in Setters : \A c \in Catalogs : <<c, i>> \notin setOld[s]
        BY <2>1
      <4>2. \A c \in Catalogs : cat[c] # i
        BY <3>2, <2>2
      <4> QED  BY <3>3, <4>1, <4>2
    <3> QED  BY <3>4, <3>5
  <2>4. \A i \in Ids : opened[i].st \in {"unborn", "opening", "open", "closed"}
    BY <1>3 DEF KeyInv, RepoTypes, CacheTypes
  <2> QED  BY <1>3, <2>3, <2>4 DEF LifeInv, ProviderLife
<1> QED  BY <1>1, <1>2, <1>3 DEF NothingStaysOpen

-----------------------------------------------------------------------------
(* SessionStores.  A store is open while a repository handed out, a discovery or a pending close
   uses it. *)

SessDiscTypes ==
    /\ disc \in [Discoveries -> {"idle", "running", "yielded", "drain", "closing", "failed", "done"}]
    /\ found \in [Discoveries -> 0..MaxFound] /\ pending \in [Discoveries -> Seq(1..MaxFound)]
SessRepoTypes ==
    /\ repos \subseteq Repos
    /\ repoPc \in [Repos -> {"idle", "repo", "store", "done", "valueerror"}]
SessStoreTypes ==
    /\ stores \subseteq Discoveries /\ idleClose \subseteq Backings
    /\ toClose \in [Tasks -> SUBSET Discoveries]
    /\ storeOpen \in [Backings -> BOOLEAN]
SessPcTypes == sessPc \in {"idle", "repos", "stores", "done"}

\* Nobody reads through backing store b, and no discovery will find more in it.
Unused(b) == (\A r \in repos : Backing(r) # b) /\ (\A d \in Discoveries : BackingOf[d] = b => disc[d] \notin {"running", "yielded", "drain"})

\* Likewise nobody reads through backing store b, and _discovering does not count it.
Uncounted(b) == (\A r \in repos : Backing(r) # b) /\ (\A d \in Discoveries : BackingOf[d] = b => disc[d] \notin Counted)

RepoLife ==
    \A r \in Repos : /\ r \in repos \/ repoPc[r] # "idle" => disc[r[1]] # "idle"
                     /\ repoPc[r] = "repo" => r \in repos
                     /\ repoPc[r] # "store" => toClose[r] = {}
DiscLife == \A d \in Discoveries : disc[d] # "closing" => toClose[<<d, 0>>] = {}
SessLife ==
    /\ sessPc # "idle" => /\ repos = {} /\ stores = {} /\ \A d \in Discoveries : disc[d] \in {"idle", "failed", "done"}
                          /\ \A t \in Tasks : t # Session => toClose[t] = {}
    /\ sessPc \in {"idle", "done"} => toClose[Session] = {}
ClosingIsUnused ==
    \A t \in Tasks : \A w \in toClose[t] : /\ Unused(BackingOf[w])
                                           /\ t # Session => Uncounted(BackingOf[w]) /\ BackingOf[w] = BackingOf[t[1]]
ClosedIsUnused == \A b \in Backings : ~storeOpen[b] => Unused(b)
StoreIsKept ==
    \A d \in Discoveries :
        disc[d] # "idle" /\ d \notin stores => ~storeOpen[BackingOf[d]] \/ \E t \in Tasks : d \in toClose[t]
\* A store whose last repository went while _discovering still counted it is noted, until Session.close
\* takes it.
IdleIsNoted ==
    sessPc = "idle" => \A b \in Backings :
        /\ \E r \in Repos : Backing(r) = b /\ repoPc[r] = "done"
        /\ \A r \in repos : Backing(r) # b
        /\ \E d \in Discoveries : BackingOf[d] = b /\ disc[d] \in Counted
        => b \in idleClose
LastIsClosed ==
    \A b \in Backings :
        /\ \E r \in Repos : Backing(r) = b /\ repoPc[r] = "done"
        /\ Uncounted(b)
        /\ \A t \in Tasks : \A w \in toClose[t] : BackingOf[w] # b
        => ~storeOpen[b]
SessInv == /\ SessDiscTypes /\ SessRepoTypes /\ SessStoreTypes /\ SessPcTypes
           /\ RepoLife /\ DiscLife /\ SessLife /\ ClosingIsUnused /\ ClosedIsUnused /\ StoreIsKept /\ IdleIsNoted /\ LastIsClosed

\* The tasks that close stores are told apart.
LEMMA TaskFacts ==
  /\ Session \in Tasks
  /\ \A d \in Discoveries : <<d, 0>> \in Tasks /\ <<d, 0>> # Session /\ <<d, 0>> \notin Repos
  /\ \A r \in Repos : /\ r \in Tasks /\ r # Session /\ r[1] \in Discoveries /\ r[2] # 0
                      /\ \A d \in Discoveries : r # <<d, 0>>
  /\ \A t \in Tasks : t # Session => t[1] \in Discoveries
  /\ \A d \in Discoveries : BackingOf[d] \in Backings
  /\ \A r \in Repos : Backing(r) = BackingOf[r[1]] /\ Backing(r) \in Backings
BY SessionAssumption DEF Session, Tasks, Repos, Backings, Backing

LEMMA SessDiscoverBegins ==
  ASSUME ~CloseOverlaps, SessInv, NEW d \in Discoveries, DiscoverBegins(d)
  PROVE  SessInv'
<1>u. UNCHANGED <<found, pending, probe, repos, idleClose, repoPc, toClose, storeOpen, sessPc>>
  BY DEF DiscoverBegins
<1>t. SessDiscTypes /\ SessRepoTypes /\ SessStoreTypes /\ SessPcTypes /\ RepoLife /\ DiscLife /\ SessLife /\ ClosingIsUnused /\ ClosedIsUnused /\ StoreIsKept /\ IdleIsNoted /\ LastIsClosed
  BY DEF SessInv
<1>1. SessRepoTypes'
  BY <1>u, <1>t DEF SessRepoTypes
<1>2. SessDiscTypes'
  BY <1>u, <1>t, SessionAssumption DEF SessDiscTypes, SessRepoTypes, SessStoreTypes, SessPcTypes, Repos, Tasks, Backings, Backing, Session, DiscoverBegins
<1>3. SessStoreTypes'
  BY <1>u, <1>t, SessionAssumption DEF SessStoreTypes, SessDiscTypes, SessRepoTypes, SessPcTypes, Repos, Tasks, Backings, Backing, Session, DiscoverBegins
<1>4. SessPcTypes'
  BY <1>u, <1>t, SessionAssumption DEF SessPcTypes, SessDiscTypes, SessRepoTypes, SessStoreTypes, Repos, Tasks, Backings, Backing, Session, DiscoverBegins
<1>5. RepoLife'
  BY <1>u, <1>t, SessionAssumption DEF RepoLife, SessDiscTypes, SessRepoTypes, SessStoreTypes, SessPcTypes, Repos, Tasks, Backings, Backing, Session, DiscoverBegins
<1>6. DiscLife'
  BY <1>u, <1>t, SessionAssumption DEF DiscLife, SessDiscTypes, SessRepoTypes, SessStoreTypes, SessPcTypes, Repos, Tasks, Backings, Backing, Session, DiscoverBegins
<1>7. SessLife'
  BY <1>u, <1>t, SessionAssumption DEF SessLife, SessDiscTypes, SessRepoTypes, SessStoreTypes, SessPcTypes, Repos, Tasks, Backings, Backing, Session, DiscoverBegins
<1>8. ClosingIsUnused'
  BY <1>u, <1>t, SessionAssumption DEF ClosingIsUnused, Uncounted, Counted, Unused, SessDiscTypes, SessRepoTypes, SessStoreTypes, SessPcTypes, Repos, Tasks, Backings, Backing, Session, DiscoverBegins
<1>9. ClosedIsUnused'
  <2>1. storeOpen[BackingOf[d]] /\ \A e \in Discoveries : e # d => disc'[e] = disc[e]
    BY <1>t DEF DiscoverBegins, SessDiscTypes
  <2> QED  BY <2>1, <1>u, <1>t DEF ClosedIsUnused, Unused, Backing
<1>10. StoreIsKept'
  <2>1. stores' = stores \cup {d} /\ \A e \in Discoveries : e # d => disc'[e] = disc[e]
    BY <1>t DEF DiscoverBegins, SessDiscTypes
  <2> QED  BY <2>1, <1>u, <1>t DEF StoreIsKept
<1>11. IdleIsNoted'
  <2>1. SUFFICES ASSUME sessPc = "idle", NEW b \in Backings,
                      \E r \in Repos : Backing(r) = b /\ repoPc[r] = "done",
                      \A r \in repos : Backing(r) # b,
                      \E e \in Discoveries : BackingOf[e] = b /\ disc'[e] \in Counted
               PROVE  b \in idleClose
    BY <1>u DEF IdleIsNoted, Counted
  <2>2. CASE \E e \in Discoveries : BackingOf[e] = b /\ disc[e] \in Counted
    BY <2>1, <2>2, <1>t DEF IdleIsNoted, Counted
  <2>3. CASE \A e \in Discoveries : BackingOf[e] = b => disc[e] \notin Counted
    <3>1. BackingOf[d] = b
      BY <2>1, <2>3, <1>t DEF DiscoverBegins, SessDiscTypes, Counted
    <3>2. storeOpen[b] /\ \A t \in Tasks : \A w \in toClose[t] : BackingOf[w] # b
      BY <3>1 DEF DiscoverBegins
    <3> QED  BY <2>1, <2>3, <3>2, <1>t DEF LastIsClosed, Uncounted, Counted, Unused
  <2> QED  BY <2>2, <2>3
<1>12. LastIsClosed'
  <2>1. SUFFICES ASSUME NEW b \in Backings,
                      \E r \in Repos : Backing(r) = b /\ repoPc[r] = "done", Uncounted(b)',
                      \A t \in Tasks : \A w \in toClose[t] : BackingOf[w] # b
               PROVE  ~storeOpen[b]
    BY <1>u DEF LastIsClosed, Uncounted, Counted
  <2>2. disc[d] = "idle" /\ \A e \in Discoveries : e # d => disc'[e] = disc[e]
    BY <1>t DEF DiscoverBegins, SessDiscTypes
  <2>3. \A e \in Discoveries : BackingOf[e] = b => disc'[e] \notin Counted
    BY <2>1 DEF Uncounted
  <2>4. \A e \in Discoveries : BackingOf[e] = b => disc[e] \notin Counted
    BY <2>2, <2>3 DEF Counted
  <2>5. \A r \in repos : Backing(r) # b
    BY <2>1, <1>u DEF Uncounted, Backing
  <2> QED  BY <2>1, <2>4, <2>5, <1>t DEF LastIsClosed, Uncounted, Counted, Unused
<1> QED  BY <1>1, <1>2, <1>3, <1>4, <1>5, <1>6, <1>7, <1>8, <1>9, <1>10, <1>11, <1>12 DEF SessInv

LEMMA SessLayoutFound ==
  ASSUME ~CloseOverlaps, SessInv, NEW d \in Discoveries, LayoutFound(d)
  PROVE  SessInv'
<1>u. UNCHANGED <<disc, repos, stores, idleClose, repoPc, toClose, storeOpen, sessPc>>
  BY DEF LayoutFound
<1>t. SessDiscTypes /\ SessRepoTypes /\ SessStoreTypes /\ SessPcTypes /\ RepoLife /\ DiscLife /\ SessLife /\ ClosingIsUnused /\ ClosedIsUnused /\ StoreIsKept /\ IdleIsNoted /\ LastIsClosed
  BY DEF SessInv
<1>1. SessRepoTypes' /\ SessStoreTypes' /\ SessPcTypes' /\ RepoLife' /\ DiscLife' /\ SessLife' /\ ClosingIsUnused' /\ ClosedIsUnused' /\ StoreIsKept' /\ IdleIsNoted' /\ LastIsClosed'
  BY <1>u, <1>t DEF SessRepoTypes, SessStoreTypes, SessPcTypes, RepoLife, DiscLife, SessLife, ClosingIsUnused, ClosedIsUnused, StoreIsKept, IdleIsNoted, LastIsClosed, Uncounted, Counted, Unused
<1>2. SessDiscTypes'
  BY <1>u, <1>t, SessionAssumption DEF SessDiscTypes, SessRepoTypes, SessStoreTypes, SessPcTypes, Repos, Tasks, Backings, Backing, Session, LayoutFound
<1> QED  BY <1>1, <1>2 DEF SessInv

LEMMA SessScanFails ==
  ASSUME ~CloseOverlaps, SessInv, NEW d \in Discoveries, ScanFails(d)
  PROVE  SessInv'
<1>u. UNCHANGED <<disc, found, pending, probe, repos, stores, idleClose, repoPc, toClose, storeOpen, sessPc>>
  BY DEF ScanFails
<1>t. SessDiscTypes /\ SessRepoTypes /\ SessStoreTypes /\ SessPcTypes /\ RepoLife /\ DiscLife /\ SessLife /\ ClosingIsUnused /\ ClosedIsUnused /\ StoreIsKept /\ IdleIsNoted /\ LastIsClosed
  BY DEF SessInv
<1>1. SessDiscTypes' /\ SessRepoTypes' /\ SessStoreTypes' /\ SessPcTypes' /\ RepoLife' /\ DiscLife' /\ SessLife' /\ ClosingIsUnused' /\ ClosedIsUnused' /\ StoreIsKept' /\ IdleIsNoted' /\ LastIsClosed'
  BY <1>u, <1>t DEF SessDiscTypes, SessRepoTypes, SessStoreTypes, SessPcTypes, RepoLife, DiscLife, SessLife, ClosingIsUnused, ClosedIsUnused, StoreIsKept, IdleIsNoted, LastIsClosed, Uncounted, Counted, Unused
<1> QED  BY <1>1 DEF SessInv

LEMMA SessOpenRepository ==
  ASSUME ~CloseOverlaps, SessInv, NEW r \in Repos, OpenRepository(r)
  PROVE  SessInv'
<1>u. UNCHANGED <<disc, found, pending, repos, stores, idleClose, repoPc, toClose, storeOpen, sessPc>>
  BY DEF OpenRepository
<1>t. SessDiscTypes /\ SessRepoTypes /\ SessStoreTypes /\ SessPcTypes /\ RepoLife /\ DiscLife /\ SessLife /\ ClosingIsUnused /\ ClosedIsUnused /\ StoreIsKept /\ IdleIsNoted /\ LastIsClosed
  BY DEF SessInv
<1>1. SessDiscTypes' /\ SessRepoTypes' /\ SessStoreTypes' /\ SessPcTypes' /\ RepoLife' /\ DiscLife' /\ SessLife' /\ ClosingIsUnused' /\ ClosedIsUnused' /\ StoreIsKept' /\ IdleIsNoted' /\ LastIsClosed'
  BY <1>u, <1>t DEF SessDiscTypes, SessRepoTypes, SessStoreTypes, SessPcTypes, RepoLife, DiscLife, SessLife, ClosingIsUnused, ClosedIsUnused, StoreIsKept, IdleIsNoted, LastIsClosed, Uncounted, Counted, Unused
<1> QED  BY <1>1 DEF SessInv

LEMMA SessYieldHead ==
  ASSUME ~CloseOverlaps, SessInv, NEW d \in Discoveries, YieldHead(d)
  PROVE  SessInv'
<1>u. UNCHANGED <<found, probe, stores, idleClose, repoPc, toClose, storeOpen, sessPc>>
  BY DEF YieldHead
<1>t. SessDiscTypes /\ SessRepoTypes /\ SessStoreTypes /\ SessPcTypes /\ RepoLife /\ DiscLife /\ SessLife /\ ClosingIsUnused /\ ClosedIsUnused /\ StoreIsKept /\ IdleIsNoted /\ LastIsClosed
  BY DEF SessInv
<1>1. SessStoreTypes'
  BY <1>u, <1>t DEF SessStoreTypes
<1>2. SessDiscTypes'
  BY <1>u, <1>t, SessionAssumption DEF SessDiscTypes, SessRepoTypes, SessStoreTypes, SessPcTypes, Repos, Tasks, Backings, Backing, Session, YieldHead
<1>3. SessRepoTypes'
  BY <1>u, <1>t, SessionAssumption DEF SessRepoTypes, SessDiscTypes, SessStoreTypes, SessPcTypes, Repos, Tasks, Backings, Backing, Session, YieldHead
<1>4. SessPcTypes'
  BY <1>u, <1>t, SessionAssumption DEF SessPcTypes, SessDiscTypes, SessRepoTypes, SessStoreTypes, Repos, Tasks, Backings, Backing, Session, YieldHead
<1>5. RepoLife'
  BY <1>u, <1>t, SessionAssumption DEF RepoLife, SessDiscTypes, SessRepoTypes, SessStoreTypes, SessPcTypes, Repos, Tasks, Backings, Backing, Session, YieldHead
<1>6. DiscLife'
  <2>1. disc[d] # "closing" /\ \A e \in Discoveries : e # d => disc'[e] = disc[e]
    BY <1>t DEF YieldHead, SessDiscTypes
  <2> QED  BY <2>1, <1>u, <1>t DEF DiscLife
<1>7. SessLife'
  BY <1>u, <1>t, SessionAssumption DEF SessLife, RepoLife, SessDiscTypes, SessRepoTypes, SessStoreTypes, SessPcTypes, Repos, Tasks, Backings, Backing, Session, YieldHead
<1>8. ClosingIsUnused'
  <2>1. disc[d] = "running" /\ \A e \in Discoveries : e # d => disc'[e] = disc[e]
    BY <1>t DEF YieldHead, SessDiscTypes
  <2>2. \A r \in repos' : r \in repos \/ Backing(r) = BackingOf[d]
    BY DEF YieldHead, Backing
  <2>3. SUFFICES ASSUME NEW t \in Tasks, NEW w \in toClose[t]
               PROVE  /\ Unused(BackingOf[w])'
                      /\ t # Session => Uncounted(BackingOf[w])' /\ BackingOf[w] = BackingOf[t[1]]
    BY <1>u DEF ClosingIsUnused
  <2>4. /\ Unused(BackingOf[w])
        /\ t # Session => Uncounted(BackingOf[w]) /\ BackingOf[w] = BackingOf[t[1]]
    BY <1>t DEF ClosingIsUnused
  <2>5. BackingOf[w] # BackingOf[d]
    BY <2>1, <2>4 DEF Unused
  <2>6. Unused(BackingOf[w])'
    BY <2>1, <2>2, <2>4, <2>5 DEF Unused, Backing
  <2>7. t # Session => Uncounted(BackingOf[w])'
    BY <2>1, <2>2, <2>4, <2>5 DEF Uncounted, Backing
  <2> QED  BY <2>4, <2>6, <2>7
<1>9. ClosedIsUnused'
  <2>1. SUFFICES ASSUME NEW b \in Backings, ~storeOpen[b]
               PROVE  Unused(b)'
    BY <1>u DEF ClosedIsUnused
  <2>2. Unused(b)
    BY <2>1, <1>t DEF ClosedIsUnused
  <2>3. disc[d] = "running" /\ BackingOf[d] # b
    BY <2>2 DEF YieldHead, Unused
  <2>4. repos' \subseteq repos \cup {<<d, Head(pending[d])>>} /\ \A e \in Discoveries : e # d => disc'[e] = disc[e]
    BY <1>t DEF YieldHead, SessDiscTypes
  <2>5. \A r \in repos' : Backing(r) # b
    BY <2>2, <2>3, <2>4 DEF Unused, Backing
  <2>6. \A e \in Discoveries : BackingOf[e] = b => disc'[e] \notin {"running", "yielded", "drain"}
    BY <2>2, <2>3, <2>4 DEF Unused
  <2> QED  BY <2>5, <2>6 DEF Unused, Backing
<1>10. StoreIsKept'
  BY <1>u, <1>t, SessionAssumption DEF StoreIsKept, SessDiscTypes, SessRepoTypes, SessStoreTypes, SessPcTypes, Repos, Tasks, Backings, Backing, Session, YieldHead
<1>11. IdleIsNoted'
  BY <1>u, <1>t, SessionAssumption DEF IdleIsNoted, Counted, SessDiscTypes, SessRepoTypes, SessStoreTypes, SessPcTypes, Repos, Tasks, Backings, Backing, Session, YieldHead
<1>12. LastIsClosed'
  BY <1>u, <1>t, SessionAssumption, ZenonT(60) DEF LastIsClosed, Uncounted, Counted, Unused, SessDiscTypes, SessRepoTypes, SessStoreTypes, SessPcTypes, Repos, Tasks, Backings, Backing, Session, YieldHead
<1> QED  BY <1>1, <1>2, <1>3, <1>4, <1>5, <1>6, <1>7, <1>8, <1>9, <1>10, <1>11, <1>12 DEF SessInv

LEMMA SessResume ==
  ASSUME ~CloseOverlaps, SessInv, NEW d \in Discoveries, Resume(d)
  PROVE  SessInv'
<1>u. UNCHANGED <<found, pending, probe, repos, stores, idleClose, repoPc, toClose, storeOpen, sessPc>>
  BY DEF Resume
<1>t. SessDiscTypes /\ SessRepoTypes /\ SessStoreTypes /\ SessPcTypes /\ RepoLife /\ DiscLife /\ SessLife /\ ClosingIsUnused /\ ClosedIsUnused /\ StoreIsKept /\ IdleIsNoted /\ LastIsClosed
  BY DEF SessInv
<1>1. SessRepoTypes' /\ SessStoreTypes' /\ SessPcTypes'
  BY <1>u, <1>t DEF SessRepoTypes, SessStoreTypes, SessPcTypes
<1>2. SessDiscTypes'
  BY <1>u, <1>t, SessionAssumption DEF SessDiscTypes, SessRepoTypes, SessStoreTypes, SessPcTypes, Repos, Tasks, Backings, Backing, Session, Resume
<1>3. RepoLife'
  BY <1>u, <1>t, SessionAssumption DEF RepoLife, SessDiscTypes, SessRepoTypes, SessStoreTypes, SessPcTypes, Repos, Tasks, Backings, Backing, Session, Resume
<1>4. DiscLife'
  BY <1>u, <1>t, SessionAssumption DEF DiscLife, SessDiscTypes, SessRepoTypes, SessStoreTypes, SessPcTypes, Repos, Tasks, Backings, Backing, Session, Resume
<1>5. SessLife'
  BY <1>u, <1>t, SessionAssumption DEF SessLife, SessDiscTypes, SessRepoTypes, SessStoreTypes, SessPcTypes, Repos, Tasks, Backings, Backing, Session, Resume
<1>6. ClosingIsUnused'
  BY <1>u, <1>t, SessionAssumption DEF ClosingIsUnused, Uncounted, Counted, Unused, SessDiscTypes, SessRepoTypes, SessStoreTypes, SessPcTypes, Repos, Tasks, Backings, Backing, Session, Resume
<1>7. ClosedIsUnused'
  BY <1>u, <1>t, SessionAssumption DEF ClosedIsUnused, Unused, SessDiscTypes, SessRepoTypes, SessStoreTypes, SessPcTypes, Repos, Tasks, Backings, Backing, Session, Resume
<1>8. StoreIsKept'
  BY <1>u, <1>t, SessionAssumption DEF StoreIsKept, SessDiscTypes, SessRepoTypes, SessStoreTypes, SessPcTypes, Repos, Tasks, Backings, Backing, Session, Resume
<1>9. IdleIsNoted'
  BY <1>u, <1>t, SessionAssumption DEF IdleIsNoted, Counted, SessDiscTypes, SessRepoTypes, SessStoreTypes, SessPcTypes, Repos, Tasks, Backings, Backing, Session, Resume
<1>10. LastIsClosed'
  BY <1>u, <1>t, SessionAssumption, ZenonT(60) DEF LastIsClosed, Uncounted, Counted, Unused, SessDiscTypes, SessRepoTypes, SessStoreTypes, SessPcTypes, Repos, Tasks, Backings, Backing, Session, Resume
<1> QED  BY <1>1, <1>2, <1>3, <1>4, <1>5, <1>6, <1>7, <1>8, <1>9, <1>10 DEF SessInv

LEMMA SessLeaveLoop ==
  ASSUME ~CloseOverlaps, SessInv, NEW d \in Discoveries, LeaveLoop(d)
  PROVE  SessInv'
<1>u. UNCHANGED <<found, probe, repos, stores, idleClose, repoPc, toClose, storeOpen, sessPc>>
  BY DEF LeaveLoop
<1>t. SessDiscTypes /\ SessRepoTypes /\ SessStoreTypes /\ SessPcTypes /\ RepoLife /\ DiscLife /\ SessLife /\ ClosingIsUnused /\ ClosedIsUnused /\ StoreIsKept /\ IdleIsNoted /\ LastIsClosed
  BY DEF SessInv
<1>1. SessRepoTypes' /\ SessStoreTypes' /\ SessPcTypes'
  BY <1>u, <1>t DEF SessRepoTypes, SessStoreTypes, SessPcTypes
<1>2. SessDiscTypes'
  BY <1>u, <1>t, SessionAssumption DEF SessDiscTypes, SessRepoTypes, SessStoreTypes, SessPcTypes, Repos, Tasks, Backings, Backing, Session, LeaveLoop
<1>3. RepoLife'
  BY <1>u, <1>t, SessionAssumption DEF RepoLife, SessDiscTypes, SessRepoTypes, SessStoreTypes, SessPcTypes, Repos, Tasks, Backings, Backing, Session, LeaveLoop
<1>4. DiscLife'
  BY <1>u, <1>t, SessionAssumption DEF DiscLife, SessDiscTypes, SessRepoTypes, SessStoreTypes, SessPcTypes, Repos, Tasks, Backings, Backing, Session, LeaveLoop
<1>5. SessLife'
  BY <1>u, <1>t, SessionAssumption DEF SessLife, SessDiscTypes, SessRepoTypes, SessStoreTypes, SessPcTypes, Repos, Tasks, Backings, Backing, Session, LeaveLoop
<1>6. ClosingIsUnused'
  BY <1>u, <1>t, SessionAssumption DEF ClosingIsUnused, Uncounted, Counted, Unused, SessDiscTypes, SessRepoTypes, SessStoreTypes, SessPcTypes, Repos, Tasks, Backings, Backing, Session, LeaveLoop
<1>7. ClosedIsUnused'
  BY <1>u, <1>t, SessionAssumption DEF ClosedIsUnused, Unused, SessDiscTypes, SessRepoTypes, SessStoreTypes, SessPcTypes, Repos, Tasks, Backings, Backing, Session, LeaveLoop
<1>8. StoreIsKept'
  BY <1>u, <1>t, SessionAssumption DEF StoreIsKept, SessDiscTypes, SessRepoTypes, SessStoreTypes, SessPcTypes, Repos, Tasks, Backings, Backing, Session, LeaveLoop
<1>9. IdleIsNoted'
  BY <1>u, <1>t, SessionAssumption DEF IdleIsNoted, Counted, SessDiscTypes, SessRepoTypes, SessStoreTypes, SessPcTypes, Repos, Tasks, Backings, Backing, Session, LeaveLoop
<1>10. LastIsClosed'
  BY <1>u, <1>t, SessionAssumption, ZenonT(60) DEF LastIsClosed, Uncounted, Counted, Unused, SessDiscTypes, SessRepoTypes, SessStoreTypes, SessPcTypes, Repos, Tasks, Backings, Backing, Session, LeaveLoop
<1> QED  BY <1>1, <1>2, <1>3, <1>4, <1>5, <1>6, <1>7, <1>8, <1>9, <1>10 DEF SessInv

LEMMA SessDrainFails ==
  ASSUME ~CloseOverlaps, SessInv, NEW d \in Discoveries, DrainFails(d)
  PROVE  SessInv'
<1>u. UNCHANGED <<found, pending, probe, repos, stores, idleClose, repoPc, toClose, storeOpen, sessPc>>
  BY DEF DrainFails
<1>t. SessDiscTypes /\ SessRepoTypes /\ SessStoreTypes /\ SessPcTypes /\ RepoLife /\ DiscLife /\ SessLife /\ ClosingIsUnused /\ ClosedIsUnused /\ StoreIsKept /\ IdleIsNoted /\ LastIsClosed
  BY DEF SessInv
<1>1. SessRepoTypes' /\ SessStoreTypes' /\ SessPcTypes'
  BY <1>u, <1>t DEF SessRepoTypes, SessStoreTypes, SessPcTypes
<1>2. SessDiscTypes'
  BY <1>u, <1>t, SessionAssumption DEF SessDiscTypes, SessRepoTypes, SessStoreTypes, SessPcTypes, Repos, Tasks, Backings, Backing, Session, DrainFails
<1>3. RepoLife'
  BY <1>u, <1>t, SessionAssumption DEF RepoLife, SessDiscTypes, SessRepoTypes, SessStoreTypes, SessPcTypes, Repos, Tasks, Backings, Backing, Session, DrainFails
<1>4. DiscLife'
  BY <1>u, <1>t, SessionAssumption DEF DiscLife, SessDiscTypes, SessRepoTypes, SessStoreTypes, SessPcTypes, Repos, Tasks, Backings, Backing, Session, DrainFails
<1>5. SessLife'
  BY <1>u, <1>t, SessionAssumption DEF SessLife, SessDiscTypes, SessRepoTypes, SessStoreTypes, SessPcTypes, Repos, Tasks, Backings, Backing, Session, DrainFails
<1>6. ClosingIsUnused'
  BY <1>u, <1>t, SessionAssumption DEF ClosingIsUnused, Uncounted, Counted, Unused, SessDiscTypes, SessRepoTypes, SessStoreTypes, SessPcTypes, Repos, Tasks, Backings, Backing, Session, DrainFails
<1>7. ClosedIsUnused'
  BY <1>u, <1>t, SessionAssumption DEF ClosedIsUnused, Unused, SessDiscTypes, SessRepoTypes, SessStoreTypes, SessPcTypes, Repos, Tasks, Backings, Backing, Session, DrainFails
<1>8. StoreIsKept'
  BY <1>u, <1>t, SessionAssumption DEF StoreIsKept, SessDiscTypes, SessRepoTypes, SessStoreTypes, SessPcTypes, Repos, Tasks, Backings, Backing, Session, DrainFails
<1>9. IdleIsNoted'
  BY <1>u, <1>t, SessionAssumption DEF IdleIsNoted, Counted, SessDiscTypes, SessRepoTypes, SessStoreTypes, SessPcTypes, Repos, Tasks, Backings, Backing, Session, DrainFails
<1>10. LastIsClosed'
  BY <1>u, <1>t, SessionAssumption, ZenonT(60) DEF LastIsClosed, Uncounted, Counted, Unused, SessDiscTypes, SessRepoTypes, SessStoreTypes, SessPcTypes, Repos, Tasks, Backings, Backing, Session, DrainFails
<1> QED  BY <1>1, <1>2, <1>3, <1>4, <1>5, <1>6, <1>7, <1>8, <1>9, <1>10 DEF SessInv

LEMMA SessDiscoverEnds ==
  ASSUME ~CloseOverlaps, SessInv, NEW d \in Discoveries, DiscoverEnds(d)
  PROVE  SessInv'
<1>u. UNCHANGED <<found, pending, probe, repos, stores, repoPc, storeOpen, sessPc>>
  BY DEF DiscoverEnds, UnsharedWraps
<1>t. SessDiscTypes /\ SessRepoTypes /\ SessStoreTypes /\ SessPcTypes /\ RepoLife /\ DiscLife /\ SessLife /\ ClosingIsUnused /\ ClosedIsUnused /\ StoreIsKept /\ IdleIsNoted /\ LastIsClosed
  BY DEF SessInv
<1>1. SessRepoTypes' /\ SessPcTypes'
  BY <1>u, <1>t DEF SessRepoTypes, SessPcTypes
<1>2. SessDiscTypes'
  BY <1>u, <1>t, SessionAssumption DEF SessDiscTypes, SessRepoTypes, SessStoreTypes, SessPcTypes, Repos, Tasks, Backings, Backing, Session, DiscoverEnds, UnsharedWraps
<1>3. SessStoreTypes'
  BY <1>u, <1>t, SessionAssumption DEF SessStoreTypes, SessDiscTypes, SessRepoTypes, SessPcTypes, Repos, Tasks, Backings, Backing, Session, DiscoverEnds, UnsharedWraps
<1>4. RepoLife'
  BY <1>u, <1>t, SessionAssumption DEF RepoLife, SessDiscTypes, SessRepoTypes, SessStoreTypes, SessPcTypes, Repos, Tasks, Backings, Backing, Session, DiscoverEnds, UnsharedWraps
<1>5. DiscLife'
  <2>1. \A t \in Tasks : t # <<d, 0>> => toClose'[t] = toClose[t]
    BY <1>t DEF DiscoverEnds, SessStoreTypes
  <2>2. \A e \in Discoveries : e # d => disc'[e] = disc[e] /\ <<e, 0>> # <<d, 0>>
    BY <1>t DEF DiscoverEnds, SessDiscTypes
  <2>3. disc'[d] # "closing" => toClose'[<<d, 0>>] = {}
    BY <1>t, TaskFacts DEF DiscoverEnds, SessDiscTypes, SessStoreTypes
  <2> QED  BY <2>1, <2>2, <2>3, <1>t, TaskFacts DEF DiscLife
<1>6. SessLife'
  BY <1>u, <1>t, SessionAssumption DEF SessLife, DiscLife, SessDiscTypes, SessRepoTypes, SessStoreTypes, SessPcTypes, Repos, Tasks, Backings, Backing, Session, DiscoverEnds, UnsharedWraps
<1>7. ClosingIsUnused'
  BY <1>u, <1>t, SessionAssumption DEF ClosingIsUnused, Uncounted, Counted, Unused, SessDiscTypes, SessRepoTypes, SessStoreTypes, SessPcTypes, Repos, Tasks, Backings, Backing, Session, DiscoverEnds, UnsharedWraps
<1>8. ClosedIsUnused'
  BY <1>u, <1>t, SessionAssumption DEF ClosedIsUnused, Unused, SessDiscTypes, SessRepoTypes, SessStoreTypes, SessPcTypes, Repos, Tasks, Backings, Backing, Session, DiscoverEnds, UnsharedWraps
<1>9. StoreIsKept'
  BY <1>u, <1>t, SessionAssumption, ZenonT(60) DEF StoreIsKept, DiscLife, SessLife, SessDiscTypes, SessRepoTypes, SessStoreTypes, SessPcTypes, Repos, Tasks, Backings, Backing, Session, DiscoverEnds, UnsharedWraps
<1>10. IdleIsNoted'
  BY <1>u, <1>t, SessionAssumption DEF IdleIsNoted, Counted, SessDiscTypes, SessRepoTypes, SessStoreTypes, SessPcTypes, Repos, Tasks, Backings, Backing, Session, DiscoverEnds, UnsharedWraps
<1>11. LastIsClosed'
  <2>1. disc[d] = "drain" /\ \A e \in Discoveries : e # d => disc'[e] = disc[e]
    BY <1>t DEF DiscoverEnds, SessDiscTypes
  <2>2. toClose[<<d, 0>>] = {} /\ \A t \in Tasks : t # <<d, 0>> => toClose'[t] = toClose[t]
    BY <2>1, <1>t DEF DiscoverEnds, SessStoreTypes, DiscLife
  <2>3. SUFFICES ASSUME NEW b \in Backings,
                      \E s \in Repos : Backing(s) = b /\ repoPc[s] = "done", Uncounted(b)',
                      \A t \in Tasks : \A w \in toClose'[t] : BackingOf[w] # b
               PROVE  ~storeOpen[b]
    BY <1>u DEF LastIsClosed, Uncounted, Counted, Backing
  <2>4. (\A s \in repos : Backing(s) # b) /\ \A t \in Tasks : \A w \in toClose[t] : BackingOf[w] # b
    BY <2>2, <2>3, <1>u DEF Uncounted, Backing
  <2>5. \A e \in Discoveries : BackingOf[e] = b => disc'[e] \notin Counted
    BY <2>3 DEF Uncounted
  <2>6. CASE b # BackingOf[d]
    <3>1. Uncounted(b)
      BY <2>1, <2>4, <2>5, <2>6 DEF Uncounted
    <3> QED  BY <2>3, <2>4, <3>1, <1>t DEF LastIsClosed, Uncounted, Counted
  <2>7. CASE b = BackingOf[d]
    <3>1. b \in idleClose
      BY <2>1, <2>3, <2>4, <2>7, <1>t DEF SessLife, IdleIsNoted, Counted
    <3>2. d \in stores
      BY <2>1, <2>4, <2>7, <1>t DEF StoreIsKept, ClosedIsUnused, Unused
    <3>3. \A e \in Discoveries \ {d} : BackingOf[e] = b => disc[e] \notin Counted
      BY <2>1, <2>5
    <3>4. toClose'[<<d, 0>>] = {e \in stores : BackingOf[e] = b}
      BY <2>4, <2>7, <3>1, <3>3, <1>t, TaskFacts DEF DiscoverEnds, UnsharedWraps, SessStoreTypes
    <3> QED  BY <2>3, <2>7, <3>2, <3>4, TaskFacts
  <2> QED  BY <2>6, <2>7
<1> QED  BY <1>1, <1>2, <1>3, <1>4, <1>5, <1>6, <1>7, <1>8, <1>9, <1>10, <1>11 DEF SessInv

LEMMA SessCloseWrap ==
  ASSUME ~CloseOverlaps, SessInv, NEW t \in Tasks, CloseWrap(t)
  PROVE  SessInv'
<1>u. UNCHANGED <<found, pending, probe, repos, idleClose, sessPc>>
  BY DEF CloseWrap
<1>t. SessDiscTypes /\ SessRepoTypes /\ SessStoreTypes /\ SessPcTypes /\ RepoLife /\ DiscLife /\ SessLife /\ ClosingIsUnused /\ ClosedIsUnused /\ StoreIsKept /\ IdleIsNoted /\ LastIsClosed
  BY DEF SessInv
<1>1. SessDiscTypes'
  BY <1>u, <1>t, SessionAssumption DEF SessDiscTypes, SessRepoTypes, SessStoreTypes, SessPcTypes, Repos, Tasks, Backings, Backing, Session, CloseWrap
<1>2. SessRepoTypes'
  BY <1>u, <1>t, SessionAssumption DEF SessRepoTypes, SessDiscTypes, SessStoreTypes, SessPcTypes, Repos, Tasks, Backings, Backing, Session, CloseWrap
<1>3. SessStoreTypes'
  BY <1>u, <1>t, SessionAssumption DEF SessStoreTypes, SessDiscTypes, SessRepoTypes, SessPcTypes, Repos, Tasks, Backings, Backing, Session, CloseWrap
<1>4. SessPcTypes'
  BY <1>u, <1>t, SessionAssumption DEF SessPcTypes, SessDiscTypes, SessRepoTypes, SessStoreTypes, Repos, Tasks, Backings, Backing, Session, CloseWrap
<1>5. RepoLife'
  BY <1>u, <1>t, SessionAssumption DEF RepoLife, SessDiscTypes, SessRepoTypes, SessStoreTypes, SessPcTypes, Repos, Tasks, Backings, Backing, Session, CloseWrap
<1>6. DiscLife'
  <2>1. PICK w \in toClose[t] : /\ toClose' = [toClose EXCEPT ![t] = IF w \notin stores THEN {} ELSE @ \ {w}]
                                /\ disc' = IF t[2] = 0 /\ (w \notin stores \/ toClose[t] = {w})
                                           THEN [disc EXCEPT ![t[1]] = "done"] ELSE disc
    BY DEF CloseWrap
  <2>2. \A s \in Tasks : s # t => toClose'[s] = toClose[s]
    BY <2>1, <1>t DEF SessStoreTypes
  <2>3. SUFFICES ASSUME NEW d \in Discoveries, disc'[d] # "closing"
               PROVE  toClose'[<<d, 0>>] = {}
    BY DEF DiscLife
  <2>4. CASE t = <<d, 0>>
    <3>1. t[2] = 0 /\ t[1] = d /\ disc[d] = "closing"
      BY <2>1, <2>4, <1>t DEF DiscLife
    <3>2. w \notin stores \/ toClose[t] = {w}
      BY <2>1, <2>3, <3>1, <1>t DEF SessDiscTypes
    <3>3. toClose'[t] = {}
      BY <2>1, <3>2, <1>t DEF SessStoreTypes
    <3> QED  BY <2>4, <3>3
  <2>5. CASE t # <<d, 0>>
    <3>1. disc'[d] = disc[d]
      <4>1. CASE t[2] = 0 /\ (w \notin stores \/ toClose[t] = {w})
        <5>1. t # Session
          BY DEF CloseWrap
        <5>2. t = <<t[1], 0>>
          BY <4>1, <5>1 DEF Tasks, Session
        <5>3. t[1] # d
          BY <5>2, <2>5
        <5> QED  BY <2>1, <5>3, <1>t DEF SessDiscTypes
      <4>2. CASE ~(t[2] = 0 /\ (w \notin stores \/ toClose[t] = {w}))
        BY <2>1, <4>2
      <4> QED  BY <4>1, <4>2
    <3> QED  BY <2>2, <2>3, <2>5, <3>1, <1>t, TaskFacts DEF DiscLife
  <2> QED  BY <2>4, <2>5
<1>7. SessLife'
  BY <1>u, <1>t, SessionAssumption DEF SessLife, SessDiscTypes, SessRepoTypes, SessStoreTypes, SessPcTypes, Repos, Tasks, Backings, Backing, Session, CloseWrap
<1>8. ClosingIsUnused'
  BY <1>u, <1>t, SessionAssumption DEF ClosingIsUnused, Uncounted, Counted, Unused, SessDiscTypes, SessRepoTypes, SessStoreTypes, SessPcTypes, Repos, Tasks, Backings, Backing, Session, CloseWrap
<1>9. ClosedIsUnused'
  <2>1. PICK w \in toClose[t] : storeOpen' = [storeOpen EXCEPT ![BackingOf[w]] = FALSE]
    BY DEF CloseWrap
  <2>2. Unused(BackingOf[w])
    BY <2>1, <1>t DEF ClosingIsUnused, Uncounted, Counted
  <2>3. \A b \in Backings : b # BackingOf[w] => storeOpen'[b] = storeOpen[b]
    BY <2>1, <1>t DEF SessStoreTypes
  <2>4. \A e \in Discoveries : disc'[e] \in {disc[e], "done"}
    BY <1>t DEF CloseWrap, SessDiscTypes
  <2> QED  BY <2>2, <2>3, <2>4, <1>u, <1>t DEF ClosedIsUnused, Unused
<1>10. StoreIsKept'
  <2>1. PICK w \in toClose[t] : /\ storeOpen' = [storeOpen EXCEPT ![BackingOf[w]] = FALSE]
                                /\ stores' = stores \ {w}
                                /\ toClose' = [toClose EXCEPT ![t] = IF w \notin stores THEN {} ELSE @ \ {w}]
    BY DEF CloseWrap
  <2>2. /\ ~storeOpen'[BackingOf[w]] /\ \A b \in Backings : ~storeOpen[b] => ~storeOpen'[b]
        /\ \A s \in Tasks : s # t => toClose'[s] = toClose[s]
    BY <2>1, <1>t, TaskFacts DEF SessStoreTypes
  <2>3. \A v \in toClose[t] : BackingOf[v] = BackingOf[w]
    BY <2>1, <1>t DEF CloseWrap, ClosingIsUnused, Uncounted, Counted
  <2>4. \A e \in Discoveries : disc'[e] # "idle" => disc[e] # "idle"
    <3>1. \A e \in Discoveries : disc'[e] # disc[e] => <<e, 0>> = t
      BY <1>t DEF CloseWrap, SessDiscTypes, Tasks, Session
    <3> QED  BY <3>1, <2>1, <1>t DEF DiscLife
  <2>5. SUFFICES ASSUME NEW d \in Discoveries, disc[d] # "idle", d \notin stores'
               PROVE  ~storeOpen'[BackingOf[d]] \/ \E s \in Tasks : d \in toClose'[s]
    BY <2>4 DEF StoreIsKept
  <2>6. CASE d = w
    BY <2>2, <2>6
  <2>7. CASE d # w
    <3>1. ~storeOpen[BackingOf[d]] \/ \E s \in Tasks : d \in toClose[s]
      BY <2>1, <2>5, <2>7, <1>t DEF StoreIsKept
    <3> QED  BY <3>1, <2>2, <2>3, TaskFacts
  <2> QED  BY <2>6, <2>7
<1>11. IdleIsNoted'
  <2>1. PICK w \in toClose[t] : TRUE
    BY DEF CloseWrap
  <2>2. Uncounted(BackingOf[w]) /\ BackingOf[w] = BackingOf[t[1]]
    BY <2>1, <1>t DEF CloseWrap, ClosingIsUnused, Uncounted, Counted
  <2>3. \A r \in Repos : repoPc'[r] # repoPc[r] => r = t
    BY <1>t DEF CloseWrap, SessRepoTypes
  <2>4. \A e \in Discoveries : disc'[e] \in Counted => disc'[e] = disc[e]
    BY <1>t DEF CloseWrap, SessDiscTypes, Counted
  <2>5. SUFFICES ASSUME sessPc = "idle", NEW b \in Backings,
                      \E r \in Repos : Backing(r) = b /\ repoPc'[r] = "done",
                      \A r \in repos : Backing(r) # b,
                      \E e \in Discoveries : BackingOf[e] = b /\ disc'[e] \in Counted
               PROVE  b \in idleClose
    BY <1>u DEF IdleIsNoted, Counted, Backing
  <2>6. \E e \in Discoveries : BackingOf[e] = b /\ disc[e] \in Counted
    BY <2>4, <2>5
  <2>7. b # BackingOf[w]
    BY <2>2, <2>6 DEF Uncounted
  <2>8. \E r \in Repos : Backing(r) = b /\ repoPc[r] = "done"
    BY <2>2, <2>3, <2>5, <2>7, TaskFacts
  <2> QED  BY <2>5, <2>6, <2>8, <1>t DEF IdleIsNoted, Counted
<1>12. LastIsClosed'
  <2>1. PICK w \in toClose[t] : /\ storeOpen' = [storeOpen EXCEPT ![BackingOf[w]] = FALSE]
                                /\ toClose' = [toClose EXCEPT ![t] = IF w \notin stores THEN {} ELSE @ \ {w}]
    BY DEF CloseWrap
  <2>2. /\ ~storeOpen'[BackingOf[w]] /\ \A b \in Backings : b # BackingOf[w] => storeOpen'[b] = storeOpen[b]
        /\ \A s \in Tasks : s # t => toClose'[s] = toClose[s]
    BY <2>1, <1>t, TaskFacts DEF SessStoreTypes
  <2>3. \A v \in toClose[t] : BackingOf[v] = BackingOf[w] /\ BackingOf[w] = BackingOf[t[1]]
    BY <2>1, <1>t DEF CloseWrap, ClosingIsUnused, Uncounted, Counted
  <2>4. \A r \in Repos : repoPc'[r] # repoPc[r] => r = t
    BY <1>t DEF CloseWrap, SessRepoTypes
  <2>5. \A e \in Discoveries : disc'[e] # disc[e] => BackingOf[e] = BackingOf[w]
    <3>1. \A e \in Discoveries : disc'[e] # disc[e] => e = t[1]
      BY <1>t DEF CloseWrap, SessDiscTypes
    <3> QED  BY <3>1, <2>1, <2>3
  <2>6. SUFFICES ASSUME NEW b \in Backings, b # BackingOf[w],
                      \E r \in Repos : Backing(r) = b /\ repoPc'[r] = "done", Uncounted(b)',
                      \A s \in Tasks : \A v \in toClose'[s] : BackingOf[v] # b
               PROVE  ~storeOpen[b]
    BY <2>2 DEF LastIsClosed, Uncounted, Counted, Backing
  <2>7. \E r \in Repos : Backing(r) = b /\ repoPc[r] = "done"
    BY <2>3, <2>4, <2>6, TaskFacts
  <2>8. Uncounted(b)
    BY <2>5, <2>6, <1>u DEF Uncounted, Backing
  <2>9. \A s \in Tasks : \A v \in toClose[s] : BackingOf[v] # b
    BY <2>2, <2>3, <2>6
  <2> QED  BY <2>7, <2>8, <2>9, <1>t DEF LastIsClosed, Uncounted, Counted
<1> QED  BY <1>1, <1>2, <1>3, <1>4, <1>5, <1>6, <1>7, <1>8, <1>9, <1>10, <1>11, <1>12 DEF SessInv

LEMMA SessCloseRepoBegins ==
  ASSUME ~CloseOverlaps, SessInv, NEW r \in Repos, CloseRepoBegins(r)
  PROVE  SessInv'
<1>u. UNCHANGED <<disc, found, pending, probe, repos, stores, idleClose, toClose, storeOpen, sessPc>>
  BY DEF CloseRepoBegins
<1>t. SessDiscTypes /\ SessRepoTypes /\ SessStoreTypes /\ SessPcTypes /\ RepoLife /\ DiscLife /\ SessLife /\ ClosingIsUnused /\ ClosedIsUnused /\ StoreIsKept /\ IdleIsNoted /\ LastIsClosed
  BY DEF SessInv
<1>1. SessDiscTypes' /\ SessStoreTypes' /\ SessPcTypes' /\ DiscLife' /\ SessLife' /\ ClosingIsUnused' /\ ClosedIsUnused' /\ StoreIsKept'
  BY <1>u, <1>t DEF SessDiscTypes, SessStoreTypes, SessPcTypes, DiscLife, SessLife, ClosingIsUnused, Uncounted, Counted, ClosedIsUnused, StoreIsKept, Unused
<1>2. SessRepoTypes'
  BY <1>u, <1>t, SessionAssumption DEF SessRepoTypes, SessDiscTypes, SessStoreTypes, SessPcTypes, Repos, Tasks, Backings, Backing, Session, CloseRepoBegins
<1>3. RepoLife'
  BY <1>u, <1>t, SessionAssumption DEF RepoLife, SessDiscTypes, SessRepoTypes, SessStoreTypes, SessPcTypes, Repos, Tasks, Backings, Backing, Session, CloseRepoBegins
<1>4. IdleIsNoted'
  BY <1>u, <1>t, SessionAssumption DEF IdleIsNoted, Counted, SessDiscTypes, SessRepoTypes, SessStoreTypes, SessPcTypes, Repos, Tasks, Backings, Backing, Session, CloseRepoBegins
<1>5. LastIsClosed'
  <2>1. \A s \in Repos : repoPc'[s] = "done" => repoPc[s] = "done"
    BY <1>t DEF CloseRepoBegins, SessRepoTypes
  <2> QED  BY <2>1, <1>u, <1>t DEF LastIsClosed, Uncounted, Counted, Unused, Backing
<1> QED  BY <1>1, <1>2, <1>3, <1>4, <1>5 DEF SessInv

LEMMA SessRepoClosed ==
  ASSUME ~CloseOverlaps, SessInv, NEW r \in Repos, RepoClosed(r)
  PROVE  SessInv'
<1>u. UNCHANGED <<disc, found, pending, probe, stores, storeOpen, sessPc>>
  BY DEF RepoClosed, UnsharedWraps, Discovering
<1>t. SessDiscTypes /\ SessRepoTypes /\ SessStoreTypes /\ SessPcTypes /\ RepoLife /\ DiscLife /\ SessLife /\ ClosingIsUnused /\ ClosedIsUnused /\ StoreIsKept /\ IdleIsNoted /\ LastIsClosed
  BY DEF SessInv
<1>1. SessDiscTypes'
  BY <1>u, <1>t DEF SessDiscTypes
<1>2. SessRepoTypes'
  BY <1>u, <1>t, SessionAssumption DEF SessRepoTypes, SessDiscTypes, SessStoreTypes, SessPcTypes, Repos, Tasks, Backings, Backing, Session, RepoClosed, UnsharedWraps, Discovering
<1>3. SessStoreTypes'
  BY <1>u, <1>t, SessionAssumption DEF SessStoreTypes, SessDiscTypes, SessRepoTypes, SessPcTypes, Repos, Tasks, Backings, Backing, Session, RepoClosed, UnsharedWraps, Discovering
<1>4. SessPcTypes'
  BY <1>u, <1>t, SessionAssumption DEF SessPcTypes, SessDiscTypes, SessRepoTypes, SessStoreTypes, Repos, Tasks, Backings, Backing, Session, RepoClosed, UnsharedWraps, Discovering
<1>5. RepoLife'
  BY <1>u, <1>t, SessionAssumption DEF RepoLife, SessDiscTypes, SessRepoTypes, SessStoreTypes, SessPcTypes, Repos, Tasks, Backings, Backing, Session, RepoClosed, UnsharedWraps, Discovering
<1>6. DiscLife'
  <2>1. \A t \in Tasks : t # r => toClose'[t] = toClose[t]
    BY <1>t DEF RepoClosed, SessStoreTypes
  <2> QED  BY <2>1, <1>u, <1>t, TaskFacts DEF DiscLife
<1>7. SessLife'
  BY <1>u, <1>t, SessionAssumption DEF SessLife, RepoLife, SessDiscTypes, SessRepoTypes, SessStoreTypes, SessPcTypes, Repos, Tasks, Backings, Backing, Session, RepoClosed, UnsharedWraps, Discovering
<1>8. ClosingIsUnused'
  BY <1>u, <1>t, SessionAssumption DEF ClosingIsUnused, Uncounted, Counted, Unused, SessDiscTypes, SessRepoTypes, SessStoreTypes, SessPcTypes, Repos, Tasks, Backings, Backing, Session, RepoClosed, UnsharedWraps, Discovering
<1>9. ClosedIsUnused'
  BY <1>u, <1>t, SessionAssumption DEF ClosedIsUnused, Unused, SessDiscTypes, SessRepoTypes, SessStoreTypes, SessPcTypes, Repos, Tasks, Backings, Backing, Session, RepoClosed, UnsharedWraps, Discovering
<1>10. StoreIsKept'
  BY <1>u, <1>t, SessionAssumption DEF StoreIsKept, RepoLife, SessDiscTypes, SessRepoTypes, SessStoreTypes, SessPcTypes, Repos, Tasks, Backings, Backing, Session, RepoClosed, UnsharedWraps, Discovering
<1>11. IdleIsNoted'
  <2>1. r \in repos
    BY <1>t DEF RepoClosed, RepoLife
  <2>2. SUFFICES ASSUME sessPc = "idle", NEW b \in Backings,
                      \E s \in Repos : Backing(s) = b /\ repoPc'[s] = "done",
                      \A s \in repos' : Backing(s) # b,
                      \E e \in Discoveries : BackingOf[e] = b /\ disc[e] \in Counted
               PROVE  b \in idleClose'
    BY <1>u DEF IdleIsNoted, Counted, Backing
  <2>3. CASE b = Backing(r)
    BY <2>1, <2>2, <2>3 DEF RepoClosed, Discovering
  <2>4. CASE b # Backing(r)
    <3>1. \A s \in Repos : s # r => repoPc'[s] = repoPc[s]
      BY <1>t DEF RepoClosed, SessRepoTypes
    <3>2. repos' = repos \ {r} /\ idleClose \subseteq idleClose'
      BY DEF RepoClosed
    <3> QED  BY <2>2, <2>4, <3>1, <3>2, <1>t DEF IdleIsNoted, Counted
  <2> QED  BY <2>3, <2>4
<1>12. LastIsClosed'
  <2>1. r \in repos /\ r[1] \in Discoveries /\ BackingOf[r[1]] = Backing(r) /\ disc[r[1]] # "idle"
    BY <1>t, TaskFacts DEF RepoClosed, RepoLife
  <2>2. SUFFICES ASSUME NEW b \in Backings,
                      \E s \in Repos : Backing(s) = b /\ repoPc'[s] = "done", Uncounted(b)',
                      \A t \in Tasks : \A w \in toClose'[t] : BackingOf[w] # b
               PROVE  ~storeOpen[b]
    BY <1>u DEF LastIsClosed, Uncounted, Counted, Backing
  <2>3. repos' = repos \ {r} /\ toClose[r] = {}
    BY <1>t DEF RepoClosed, RepoLife
  <2>4. \A t \in Tasks : t # r => toClose'[t] = toClose[t]
    BY <1>t DEF RepoClosed, SessStoreTypes
  <2>5. \A s \in repos' : Backing(s) # b
    BY <2>2 DEF Uncounted, Backing
  <2>6. \A e \in Discoveries : BackingOf[e] = b => disc[e] \notin Counted
    BY <2>2, <1>u DEF Uncounted
  <2>7. CASE b = Backing(r)
    <3>1. storeOpen[b] /\ \A t \in Tasks : r[1] \notin toClose[t]
      BY <2>1, <2>2, <2>7, <1>t DEF ClosedIsUnused, ClosingIsUnused, Uncounted, Counted, Unused
    <3>2. r[1] \in stores
      BY <2>1, <2>7, <3>1, <1>t DEF StoreIsKept
    <3>3. toClose'[r] = {d \in stores : BackingOf[d] = b}
      BY <2>1, <2>3, <2>5, <2>6, <2>7, <1>t, TaskFacts DEF RepoClosed, UnsharedWraps, Discovering, SessStoreTypes
    <3> QED  BY <2>1, <2>2, <2>7, <3>2, <3>3, TaskFacts
  <2>8. CASE b # Backing(r)
    <3>1. \A s \in Repos : s # r => repoPc'[s] = repoPc[s]
      BY <1>t DEF RepoClosed, SessRepoTypes
    <3>2. Uncounted(b)
      BY <2>3, <2>5, <2>6, <2>8 DEF Uncounted
    <3>3. \A t \in Tasks : \A w \in toClose[t] : BackingOf[w] # b
      BY <2>2, <2>3, <2>4
    <3> QED  BY <2>2, <2>8, <3>1, <3>2, <3>3, <1>t DEF LastIsClosed, Uncounted, Counted
  <2> QED  BY <2>7, <2>8
<1> QED  BY <1>1, <1>2, <1>3, <1>4, <1>5, <1>6, <1>7, <1>8, <1>9, <1>10, <1>11, <1>12 DEF SessInv

LEMMA SessSessionCloseBegins ==
  ASSUME ~CloseOverlaps, SessInv, SessionCloseBegins
  PROVE  SessInv'
<1>u. UNCHANGED <<disc, found, pending, probe, idleClose, repoPc, storeOpen>>
  BY DEF SessionCloseBegins
<1>t. SessDiscTypes /\ SessRepoTypes /\ SessStoreTypes /\ SessPcTypes /\ RepoLife /\ DiscLife /\ SessLife /\ ClosingIsUnused /\ ClosedIsUnused /\ StoreIsKept /\ IdleIsNoted /\ LastIsClosed
  BY DEF SessInv
<1>1. SessDiscTypes'
  BY <1>u, <1>t DEF SessDiscTypes
<1>2. SessRepoTypes'
  BY <1>u, <1>t, SessionAssumption DEF SessRepoTypes, SessDiscTypes, SessStoreTypes, SessPcTypes, Repos, Tasks, Backings, Backing, Session, SessionCloseBegins
<1>3. SessStoreTypes'
  BY <1>u, <1>t, SessionAssumption DEF SessStoreTypes, SessDiscTypes, SessRepoTypes, SessPcTypes, Repos, Tasks, Backings, Backing, Session, SessionCloseBegins
<1>4. SessPcTypes'
  BY <1>u, <1>t, SessionAssumption DEF SessPcTypes, SessDiscTypes, SessRepoTypes, SessStoreTypes, Repos, Tasks, Backings, Backing, Session, SessionCloseBegins
<1>5. RepoLife'
  BY <1>u, <1>t, SessionAssumption DEF RepoLife, SessDiscTypes, SessRepoTypes, SessStoreTypes, SessPcTypes, Repos, Tasks, Backings, Backing, Session, SessionCloseBegins
<1>6. DiscLife'
  <2>1. \A t \in Tasks : t # Session => toClose'[t] = toClose[t]
    BY <1>t DEF SessionCloseBegins, SessStoreTypes
  <2> QED  BY <2>1, <1>u, <1>t, TaskFacts DEF DiscLife
<1>v. /\ \A d \in Discoveries : disc[d] \in {"idle", "failed", "done"}
      /\ \A t \in Tasks : t # Session => toClose'[t] = {}
  <2>1. \A d \in Discoveries : disc[d] \in {"idle", "failed", "done"} /\ toClose[<<d, 0>>] = {}
    BY <1>t DEF SessionCloseBegins, DiscLife
  <2>2. \A r \in Repos : toClose[r] = {}
    BY <1>t DEF SessionCloseBegins, RepoLife
  <2>3. \A t \in Tasks : t # Session => t \in Repos \/ \E d \in Discoveries : t = <<d, 0>>
    BY SessionAssumption DEF Tasks, Repos, Session
  <2>4. \A t \in Tasks : t # Session => toClose'[t] = toClose[t]
    BY <1>t DEF SessionCloseBegins, SessStoreTypes
  <2> QED  BY <2>1, <2>2, <2>3, <2>4
<1>7. SessLife'
  BY <1>u, <1>v DEF SessLife, SessionCloseBegins
<1>8. ClosingIsUnused'
  BY <1>u, <1>v DEF ClosingIsUnused, Unused, SessionCloseBegins
<1>9. ClosedIsUnused'
  BY <1>u, <1>t, SessionAssumption DEF ClosedIsUnused, Unused, SessDiscTypes, SessRepoTypes, SessStoreTypes, SessPcTypes, Repos, Tasks, Backings, Backing, Session, SessionCloseBegins
<1>10. StoreIsKept'
  <2>1. toClose'[Session] = stores /\ \A t \in Tasks : t # Session => toClose'[t] = toClose[t]
    BY <1>t, TaskFacts DEF SessionCloseBegins, SessStoreTypes
  <2>2. toClose[Session] = {}
    BY <1>t DEF SessionCloseBegins, SessLife
  <2>3. SUFFICES ASSUME NEW d \in Discoveries, disc[d] # "idle"
               PROVE  ~storeOpen[BackingOf[d]] \/ \E t \in Tasks : d \in toClose'[t]
    BY <1>u DEF StoreIsKept
  <2>4. CASE d \in stores
    BY <2>1, <2>4, TaskFacts
  <2>5. CASE d \notin stores
    BY <2>1, <2>2, <2>3, <2>5, <1>t DEF StoreIsKept
  <2> QED  BY <2>4, <2>5
<1>11. IdleIsNoted'
  BY <1>u, <1>t, SessionAssumption DEF IdleIsNoted, Counted, SessDiscTypes, SessRepoTypes, SessStoreTypes, SessPcTypes, Repos, Tasks, Backings, Backing, Session, SessionCloseBegins
<1>12. LastIsClosed'
  <2>1. toClose'[Session] = stores /\ \A t \in Tasks : t # Session => toClose'[t] = toClose[t]
    BY <1>t, TaskFacts DEF SessionCloseBegins, SessStoreTypes
  <2>2. SUFFICES ASSUME NEW b \in Backings, NEW r \in Repos, Backing(r) = b, repoPc[r] = "done",
                      \A t \in Tasks : \A w \in toClose'[t] : BackingOf[w] # b
               PROVE  ~storeOpen[b]
    BY <1>u DEF LastIsClosed, Uncounted, Counted, Backing
  <2>3. r[1] \in Discoveries /\ BackingOf[r[1]] = b /\ disc[r[1]] # "idle"
    BY <2>2, <1>t, TaskFacts DEF RepoLife
  <2>4. StoreIsKept'
    BY <1>1, <1>2, <1>3, <1>4, <1>5, <1>6, <1>7, <1>8, <1>9, <1>10
  <2> QED  BY <2>2, <2>3, <2>4, <1>u DEF StoreIsKept, SessionCloseBegins
<1> QED  BY <1>1, <1>2, <1>3, <1>4, <1>5, <1>6, <1>7, <1>8, <1>9, <1>10, <1>11, <1>12 DEF SessInv

LEMMA SessSessionReposClosed ==
  ASSUME ~CloseOverlaps, SessInv, SessionReposClosed
  PROVE  SessInv'
<1>u. UNCHANGED <<disc, found, pending, probe, repos, stores, idleClose, repoPc, toClose, storeOpen>>
  BY DEF SessionReposClosed
<1>t. SessDiscTypes /\ SessRepoTypes /\ SessStoreTypes /\ SessPcTypes /\ RepoLife /\ DiscLife /\ SessLife /\ ClosingIsUnused /\ ClosedIsUnused /\ StoreIsKept /\ IdleIsNoted /\ LastIsClosed
  BY DEF SessInv
<1>1. SessDiscTypes' /\ SessRepoTypes' /\ SessStoreTypes' /\ RepoLife' /\ DiscLife' /\ ClosingIsUnused' /\ ClosedIsUnused' /\ StoreIsKept' /\ LastIsClosed'
  BY <1>u, <1>t DEF SessDiscTypes, SessRepoTypes, SessStoreTypes, RepoLife, DiscLife, ClosingIsUnused, ClosedIsUnused, StoreIsKept, LastIsClosed, Uncounted, Counted, Unused
<1>2. SessPcTypes'
  BY <1>u, <1>t, SessionAssumption DEF SessPcTypes, SessDiscTypes, SessRepoTypes, SessStoreTypes, Repos, Tasks, Backings, Backing, Session, SessionReposClosed
<1>3. SessLife'
  BY <1>u, <1>t, SessionAssumption DEF SessLife, SessDiscTypes, SessRepoTypes, SessStoreTypes, SessPcTypes, Repos, Tasks, Backings, Backing, Session, SessionReposClosed
<1>4. IdleIsNoted'
  BY DEF IdleIsNoted, SessionReposClosed
<1> QED  BY <1>1, <1>2, <1>3, <1>4 DEF SessInv

LEMMA SessSessionClosesStore ==
  ASSUME ~CloseOverlaps, SessInv, SessionClosesStore
  PROVE  SessInv'
<1>u. UNCHANGED <<disc, found, pending, probe, repos, stores, idleClose, repoPc, sessPc>>
  BY DEF SessionClosesStore
<1>t. SessDiscTypes /\ SessRepoTypes /\ SessStoreTypes /\ SessPcTypes /\ RepoLife /\ DiscLife /\ SessLife /\ ClosingIsUnused /\ ClosedIsUnused /\ StoreIsKept /\ IdleIsNoted /\ LastIsClosed
  BY DEF SessInv
<1>1. SessDiscTypes' /\ SessRepoTypes' /\ SessPcTypes' /\ IdleIsNoted'
  BY <1>u, <1>t DEF SessDiscTypes, SessRepoTypes, SessPcTypes, IdleIsNoted, Counted
<1>2. SessStoreTypes'
  BY <1>u, <1>t, SessionAssumption DEF SessStoreTypes, SessDiscTypes, SessRepoTypes, SessPcTypes, Repos, Tasks, Backings, Backing, Session, SessionClosesStore
<1>3. RepoLife'
  BY <1>u, <1>t, SessionAssumption DEF RepoLife, SessDiscTypes, SessRepoTypes, SessStoreTypes, SessPcTypes, Repos, Tasks, Backings, Backing, Session, SessionClosesStore
<1>4. DiscLife'
  <2>1. \A t \in Tasks : t # Session => toClose'[t] = toClose[t]
    BY <1>t DEF SessionClosesStore, SessStoreTypes
  <2> QED  BY <2>1, <1>u, <1>t, TaskFacts DEF DiscLife
<1>5. SessLife'
  BY <1>u, <1>t, SessionAssumption DEF SessLife, SessDiscTypes, SessRepoTypes, SessStoreTypes, SessPcTypes, Repos, Tasks, Backings, Backing, Session, SessionClosesStore
<1>6. ClosingIsUnused'
  BY <1>u, <1>t, SessionAssumption DEF ClosingIsUnused, Uncounted, Counted, Unused, SessDiscTypes, SessRepoTypes, SessStoreTypes, SessPcTypes, Repos, Tasks, Backings, Backing, Session, SessionClosesStore
<1>7. ClosedIsUnused'
  <2>1. PICK w \in toClose[Session] : storeOpen' = [storeOpen EXCEPT ![BackingOf[w]] = FALSE]
    BY DEF SessionClosesStore
  <2>2. Unused(BackingOf[w])
    BY <2>1, <1>t, TaskFacts DEF ClosingIsUnused, Uncounted, Counted
  <2>3. \A b \in Backings : b # BackingOf[w] => storeOpen'[b] = storeOpen[b]
    BY <2>1, <1>t DEF SessStoreTypes
  <2> QED  BY <2>2, <2>3, <1>u, <1>t DEF ClosedIsUnused, Unused
<1>8. StoreIsKept'
  <2>1. PICK w \in toClose[Session] : /\ storeOpen' = [storeOpen EXCEPT ![BackingOf[w]] = FALSE]
                                     /\ toClose' = [toClose EXCEPT ![Session] = @ \ {w}]
    BY DEF SessionClosesStore
  <2>2. /\ ~storeOpen'[BackingOf[w]] /\ \A b \in Backings : ~storeOpen[b] => ~storeOpen'[b]
        /\ \A t \in Tasks : \A v \in toClose[t] : v # w => v \in toClose'[t]
    BY <2>1, <1>t, TaskFacts DEF SessStoreTypes
  <2>3. SUFFICES ASSUME NEW d \in Discoveries, disc[d] # "idle", d \notin stores
               PROVE  ~storeOpen'[BackingOf[d]] \/ \E t \in Tasks : d \in toClose'[t]
    BY <1>u DEF StoreIsKept
  <2>4. ~storeOpen[BackingOf[d]] \/ \E t \in Tasks : d \in toClose[t]
    BY <2>3, <1>t DEF StoreIsKept
  <2> QED  BY <2>2, <2>4, TaskFacts
<1>9. LastIsClosed'
  <2>1. PICK w \in toClose[Session] : /\ storeOpen' = [storeOpen EXCEPT ![BackingOf[w]] = FALSE]
                                     /\ toClose' = [toClose EXCEPT ![Session] = @ \ {w}]
    BY DEF SessionClosesStore
  <2>2. /\ ~storeOpen'[BackingOf[w]] /\ \A b \in Backings : b # BackingOf[w] => storeOpen'[b] = storeOpen[b]
        /\ \A t \in Tasks : \A v \in toClose[t] : v # w => v \in toClose'[t]
    BY <2>1, <1>t, TaskFacts DEF SessStoreTypes
  <2>3. SUFFICES ASSUME NEW b \in Backings, b # BackingOf[w],
                      \E r \in Repos : Backing(r) = b /\ repoPc[r] = "done", Uncounted(b),
                      \A t \in Tasks : \A v \in toClose'[t] : BackingOf[v] # b
               PROVE  ~storeOpen[b]
    BY <2>2, <1>u DEF LastIsClosed, Uncounted, Counted, Unused, Backing
  <2>4. \A t \in Tasks : \A v \in toClose[t] : BackingOf[v] # b
    BY <2>2, <2>3
  <2> QED  BY <2>3, <2>4, <1>t DEF LastIsClosed, Uncounted, Counted
<1> QED  BY <1>1, <1>2, <1>3, <1>4, <1>5, <1>6, <1>7, <1>8, <1>9 DEF SessInv

LEMMA SessSessionCloseEnds ==
  ASSUME ~CloseOverlaps, SessInv, SessionCloseEnds
  PROVE  SessInv'
<1>u. UNCHANGED <<disc, found, pending, probe, repos, stores, idleClose, repoPc, toClose, storeOpen>>
  BY DEF SessionCloseEnds
<1>t. SessDiscTypes /\ SessRepoTypes /\ SessStoreTypes /\ SessPcTypes /\ RepoLife /\ DiscLife /\ SessLife /\ ClosingIsUnused /\ ClosedIsUnused /\ StoreIsKept /\ IdleIsNoted /\ LastIsClosed
  BY DEF SessInv
<1>1. SessDiscTypes' /\ SessRepoTypes' /\ SessStoreTypes' /\ RepoLife' /\ DiscLife' /\ ClosingIsUnused' /\ ClosedIsUnused' /\ StoreIsKept' /\ LastIsClosed'
  BY <1>u, <1>t DEF SessDiscTypes, SessRepoTypes, SessStoreTypes, RepoLife, DiscLife, ClosingIsUnused, ClosedIsUnused, StoreIsKept, LastIsClosed, Uncounted, Counted, Unused
<1>2. SessPcTypes'
  BY <1>u, <1>t, SessionAssumption DEF SessPcTypes, SessDiscTypes, SessRepoTypes, SessStoreTypes, Repos, Tasks, Backings, Backing, Session, SessionCloseEnds
<1>3. SessLife'
  BY <1>u, <1>t, SessionAssumption DEF SessLife, SessDiscTypes, SessRepoTypes, SessStoreTypes, SessPcTypes, Repos, Tasks, Backings, Backing, Session, SessionCloseEnds
<1>4. IdleIsNoted'
  BY DEF IdleIsNoted, SessionCloseEnds
<1> QED  BY <1>1, <1>2, <1>3, <1>4 DEF SessInv

LEMMA SessStart ==
  ASSUME SessInit
  PROVE  SessInv
<1>1. SessDiscTypes
  BY SessionAssumption, EmptySeq DEF SessInit, SessDiscTypes
<1>2. SessRepoTypes /\ SessStoreTypes /\ SessPcTypes
  BY DEF SessInit, SessRepoTypes, SessStoreTypes, SessPcTypes
<1>3. RepoLife /\ DiscLife /\ SessLife /\ ClosingIsUnused /\ ClosedIsUnused
  BY TaskFacts DEF SessInit, RepoLife, DiscLife, SessLife, ClosingIsUnused, Uncounted, Counted, ClosedIsUnused
<1>4. StoreIsKept /\ IdleIsNoted /\ LastIsClosed
  BY DEF SessInit, StoreIsKept, IdleIsNoted, LastIsClosed, Uncounted, Counted
<1> QED  BY <1>1, <1>2, <1>3, <1>4 DEF SessInv

LEMMA SessStep ==
  ASSUME ~CloseOverlaps, SessInv, SessNext \/ UNCHANGED sessVars
  PROVE  SessInv'
<1>1. CASE UNCHANGED sessVars
  <2>1. SessDiscTypes' /\ SessRepoTypes' /\ SessStoreTypes' /\ SessPcTypes'
    BY <1>1 DEF sessVars, SessInv, SessDiscTypes, SessRepoTypes, SessStoreTypes, SessPcTypes
  <2>2. RepoLife' /\ DiscLife' /\ SessLife' /\ ClosingIsUnused' /\ ClosedIsUnused'
    BY <1>1 DEF sessVars, SessInv, RepoLife, DiscLife, SessLife, ClosingIsUnused, Uncounted, Counted, ClosedIsUnused, Unused, Backing
  <2>3. StoreIsKept' /\ IdleIsNoted' /\ LastIsClosed'
    BY <1>1 DEF sessVars, SessInv, StoreIsKept, IdleIsNoted, LastIsClosed, Uncounted, Counted, Unused, Backing
  <2> QED  BY <2>1, <2>2, <2>3 DEF SessInv
<1>2. ASSUME NEW d \in Discoveries, \/ DiscoverBegins(d) \/ LayoutFound(d) \/ ScanFails(d) \/ YieldHead(d)
                                    \/ Resume(d) \/ LeaveLoop(d) \/ DrainFails(d) \/ DiscoverEnds(d)
      PROVE  SessInv'
  BY <1>2, SessDiscoverBegins, SessLayoutFound, SessScanFails, SessYieldHead, SessResume, SessLeaveLoop, SessDrainFails, SessDiscoverEnds
<1>3. ASSUME NEW r \in Repos, OpenRepository(r) \/ CloseRepoBegins(r) \/ RepoClosed(r)
      PROVE  SessInv'
  BY <1>3, SessOpenRepository, SessCloseRepoBegins, SessRepoClosed
<1>4. ASSUME NEW t \in Tasks, CloseWrap(t)
      PROVE  SessInv'
  BY <1>4, SessCloseWrap
<1>5. CASE SessionCloseBegins \/ SessionReposClosed \/ SessionClosesStore \/ SessionCloseEnds
  BY <1>5, SessSessionCloseBegins, SessSessionReposClosed, SessSessionClosesStore, SessSessionCloseEnds
<1> QED  BY <1>1, <1>2, <1>3, <1>4, <1>5 DEF SessNext

LEMMA SessProperties ==
  ASSUME SessInv
  PROVE  StoreOpenWhileUsed /\ StoresAreReleased
<1>1. StoreOpenWhileUsed
  BY TaskFacts DEF SessInv, SessRepoTypes, ClosedIsUnused, Unused, StoreOpenWhileUsed
<1>2. ASSUME NEW d \in Discoveries, disc[d] # "idle", d \notin stores
      PROVE  ~storeOpen[BackingOf[d]] \/ \E t \in Tasks : d \in toClose[t]
  BY <1>2 DEF SessInv, StoreIsKept
<1>3. ASSUME NEW b \in Backings, Relinquished(b)
      PROVE  ~storeOpen[b] \/ \E d \in Discoveries : BackingOf[d] = b /\ disc[d] = "failed"
  BY <1>3 DEF SessInv, SessRepoTypes, LastIsClosed, Uncounted, Counted, Relinquished
<1>4. ASSUME sessPc = "done", NEW d \in Discoveries, disc[d] # "idle"
      PROVE  ~storeOpen[BackingOf[d]]
  <2>1. d \notin stores /\ \A t \in Tasks : toClose[t] = {}
    BY <1>4 DEF SessInv, SessLife
  <2> QED  BY <1>2, <1>4, <2>1
<1>5. StoresAreReleased
  BY <1>2, <1>3, <1>4 DEF StoresAreReleased
<1> QED  BY <1>1, <1>5

-----------------------------------------------------------------------------
(* DbSources.  A source that is open is stored, on its way there or a sweep's to close. *)

SourceNumbers == Sources \cup {0}
NoBuild == [pc |-> "idle", src |-> 0, stale |-> FALSE]

DbFlagTypes == dbClosed \in BOOLEAN
DbCacheTypes ==
    /\ dbStore \in [DbNames -> SourceNumbers] /\ dbFetch \in [DbNames -> SourceNumbers]
    /\ src \in [Sources -> {"unborn", "opening", "open", "closed"}]
DbTableTypes ==
    /\ table \in SourceNumbers \cup {NoTable}
    /\ build \in [pc : {"idle", "db", "create"}, src : SourceNumbers, stale : BOOLEAN]
DbSweepTypes ==
    /\ swPc \in [Sweepers -> {"idle", "settle", "closing", "done"}]
    /\ swHeld \in [Sweepers -> SUBSET Sources]

\* A fetch in flight is for an absent entry, and the source it opens is its own.
FetchLife ==
    /\ \A n \in DbNames : dbFetch[n] # 0 => src[dbFetch[n]] = "opening" /\ dbStore[n] = 0
    /\ \A n, m \in DbNames : n # m /\ dbFetch[n] # 0 => dbFetch[n] # dbFetch[m]
    /\ \A s \in Sources : src[s] = "opening" => \E n \in DbNames : dbFetch[n] = s
StoredLife == \A n \in DbNames : dbStore[n] # 0 => src[dbStore[n]] \in {"open", "closed"}
\* A Table, or one about to be stored, is bound to the connection that is stored.
TableLife ==
    /\ table \in Sources => table = dbStore["file_meta"]
    /\ build.pc = "create" /\ ~build.stale => build.src # 0 /\ build.src = dbStore["file_meta"]
    /\ build.pc = "idle" => ~build.stale
SweepLife ==
    /\ dbClosed <=> swPc["close"] # "idle"
    /\ \A w \in Sweepers : /\ \A s \in swHeld[w] : src[s] \in {"open", "closed"}
                           /\ swPc[w] \in {"idle", "done"} => swHeld[w] = {}
    /\ swPc["close"] \in {"closing", "done"} => \A n \in DbNames : dbStore[n] = 0 /\ dbFetch[n] = 0
OpenHasOwner ==
    \A s \in Sources : src[s] = "open" => \/ \E n \in DbNames : dbStore[n] = s
                                          \/ \E w \in Sweepers : s \in swHeld[w]
DbInv == /\ DbFlagTypes /\ DbCacheTypes /\ DbTableTypes /\ DbSweepTypes
         /\ FetchLife /\ StoredLife /\ TableLife /\ SweepLife /\ OpenHasOwner

LEMMA DbFetchBegins ==
  ASSUME DbInv, NEW n \in DbNames, FetchBegins(n)
  PROVE  DbInv'
<1>u. UNCHANGED <<dbClosed, dbStore, table, build, rdPc, rdSrc, swPc, swHeld>>
  BY DEF FetchBegins, StartFetch, Unborn
<1>t. DbFlagTypes /\ DbCacheTypes /\ DbTableTypes /\ DbSweepTypes /\ FetchLife /\ StoredLife /\ TableLife /\ SweepLife /\ OpenHasOwner
  BY DEF DbInv
<1>1. DbFlagTypes' /\ DbSweepTypes'
  BY <1>u, <1>t DEF DbFlagTypes, DbSweepTypes
<1>2. DbCacheTypes'
  BY <1>u, <1>t DEF DbCacheTypes, DbFlagTypes, DbTableTypes, DbSweepTypes, SourceNumbers, Sources, NoTable, DbNames, Sweepers, FetchBegins, StartFetch, Unborn
<1>3. DbTableTypes'
  BY <1>u, <1>t DEF DbTableTypes, DbFlagTypes, DbCacheTypes, DbSweepTypes, SourceNumbers, Sources, NoTable, DbNames, Sweepers, FetchBegins, StartFetch, Unborn
<1>4. FetchLife'
  BY <1>u, <1>t DEF FetchLife, DbFlagTypes, DbCacheTypes, DbTableTypes, DbSweepTypes, SourceNumbers, Sources, NoTable, DbNames, Sweepers, FetchBegins, StartFetch, Unborn
<1>5. StoredLife'
  BY <1>u, <1>t DEF StoredLife, FetchLife, SweepLife, DbFlagTypes, DbCacheTypes, DbTableTypes, DbSweepTypes, SourceNumbers, Sources, NoTable, DbNames, Sweepers, FetchBegins, StartFetch, Unborn
<1>6. TableLife'
  BY <1>u, <1>t DEF TableLife, DbFlagTypes, DbCacheTypes, DbTableTypes, DbSweepTypes, SourceNumbers, Sources, NoTable, DbNames, Sweepers, FetchBegins, StartFetch, Unborn
<1>7. SweepLife'
  BY <1>u, <1>t DEF SweepLife, FetchLife, DbFlagTypes, DbCacheTypes, DbTableTypes, DbSweepTypes, SourceNumbers, Sources, NoTable, DbNames, Sweepers, FetchBegins, StartFetch, Unborn
<1>8. OpenHasOwner'
  BY <1>u, <1>t DEF OpenHasOwner, FetchLife, SweepLife, DbFlagTypes, DbCacheTypes, DbTableTypes, DbSweepTypes, SourceNumbers, Sources, NoTable, DbNames, Sweepers, FetchBegins, StartFetch, Unborn
<1> QED  BY <1>1, <1>2, <1>3, <1>4, <1>5, <1>6, <1>7, <1>8 DEF DbInv

LEMMA DbFetchLands ==
  ASSUME DbInv, NEW n \in DbNames, FetchLands(n)
  PROVE  DbInv'
<1>u. UNCHANGED <<dbClosed, table, build, rdPc, rdSrc, swPc>>
  BY DEF FetchLands
<1>t. DbFlagTypes /\ DbCacheTypes /\ DbTableTypes /\ DbSweepTypes /\ FetchLife /\ StoredLife /\ TableLife /\ SweepLife /\ OpenHasOwner
  BY DEF DbInv
<1>1. DbFlagTypes'
  BY <1>u, <1>t DEF DbFlagTypes
<1>2. DbCacheTypes'
  BY <1>u, <1>t DEF DbCacheTypes, DbFlagTypes, DbTableTypes, DbSweepTypes, SourceNumbers, Sources, NoTable, DbNames, Sweepers, FetchLands
<1>3. DbTableTypes'
  BY <1>u, <1>t DEF DbTableTypes, DbFlagTypes, DbCacheTypes, DbSweepTypes, SourceNumbers, Sources, NoTable, DbNames, Sweepers, FetchLands
<1>4. DbSweepTypes'
  BY <1>u, <1>t DEF DbSweepTypes, DbFlagTypes, DbCacheTypes, DbTableTypes, SourceNumbers, Sources, NoTable, DbNames, Sweepers, FetchLands
<1>5. FetchLife'
  BY <1>u, <1>t DEF FetchLife, TableLife, SweepLife, DbFlagTypes, DbCacheTypes, DbTableTypes, DbSweepTypes, SourceNumbers, Sources, NoTable, DbNames, Sweepers, FetchLands
<1>6. StoredLife'
  BY <1>u, <1>t DEF StoredLife, FetchLife, TableLife, SweepLife, DbFlagTypes, DbCacheTypes, DbTableTypes, DbSweepTypes, SourceNumbers, Sources, NoTable, DbNames, Sweepers, FetchLands
<1>7. TableLife'
  BY <1>u, <1>t DEF TableLife, FetchLife, SweepLife, DbFlagTypes, DbCacheTypes, DbTableTypes, DbSweepTypes, SourceNumbers, Sources, NoTable, DbNames, Sweepers, FetchLands
<1>8. SweepLife'
  BY <1>u, <1>t DEF SweepLife, FetchLife, TableLife, DbFlagTypes, DbCacheTypes, DbTableTypes, DbSweepTypes, SourceNumbers, Sources, NoTable, DbNames, Sweepers, FetchLands
<1>9. OpenHasOwner'
  BY <1>u, <1>t DEF OpenHasOwner, FetchLife, TableLife, SweepLife, DbFlagTypes, DbCacheTypes, DbTableTypes, DbSweepTypes, SourceNumbers, Sources, NoTable, DbNames, Sweepers, FetchLands
<1> QED  BY <1>1, <1>2, <1>3, <1>4, <1>5, <1>6, <1>7, <1>8, <1>9 DEF DbInv

LEMMA DbFetchFails ==
  ASSUME DbInv, NEW n \in DbNames, FetchFails(n)
  PROVE  DbInv'
<1>u. UNCHANGED <<dbClosed, dbStore, rdSrc, swPc, swHeld>>
  BY DEF FetchFails
<1>t. DbFlagTypes /\ DbCacheTypes /\ DbTableTypes /\ DbSweepTypes /\ FetchLife /\ StoredLife /\ TableLife /\ SweepLife /\ OpenHasOwner
  BY DEF DbInv
<1>1. DbFlagTypes' /\ DbSweepTypes'
  BY <1>u, <1>t DEF DbFlagTypes, DbSweepTypes
<1>2. DbCacheTypes'
  BY <1>u, <1>t DEF DbCacheTypes, DbFlagTypes, DbTableTypes, DbSweepTypes, SourceNumbers, Sources, NoTable, DbNames, Sweepers, FetchFails
<1>3. DbTableTypes'
  <2>1. build' \in {build, [pc |-> "idle", src |-> 0, stale |-> FALSE]} /\ table' \in {table, NoTable}
    BY DEF FetchFails
  <2>2. [pc |-> "idle", src |-> 0, stale |-> FALSE] \in [pc : {"idle", "db", "create"}, src : SourceNumbers, stale : BOOLEAN]
    BY DEF SourceNumbers
  <2>3. build' \in [pc : {"idle", "db", "create"}, src : SourceNumbers, stale : BOOLEAN]
    BY <2>1, <2>2, <1>t DEF DbTableTypes
  <2>4. table' \in SourceNumbers \cup {NoTable}
    BY <2>1, <1>t DEF DbTableTypes
  <2> QED  BY <2>3, <2>4 DEF DbTableTypes
<1>4. FetchLife'
  BY <1>u, <1>t DEF FetchLife, DbFlagTypes, DbCacheTypes, DbTableTypes, DbSweepTypes, SourceNumbers, Sources, NoTable, DbNames, Sweepers, FetchFails
<1>5. StoredLife'
  BY <1>u, <1>t DEF StoredLife, FetchLife, DbFlagTypes, DbCacheTypes, DbTableTypes, DbSweepTypes, SourceNumbers, Sources, NoTable, DbNames, Sweepers, FetchFails
<1>6. TableLife'
  BY <1>u, <1>t DEF TableLife, DbFlagTypes, DbCacheTypes, DbTableTypes, DbSweepTypes, SourceNumbers, Sources, NoTable, DbNames, Sweepers, FetchFails
<1>7. SweepLife'
  BY <1>u, <1>t DEF SweepLife, FetchLife, DbFlagTypes, DbCacheTypes, DbTableTypes, DbSweepTypes, SourceNumbers, Sources, NoTable, DbNames, Sweepers, FetchFails
<1>8. OpenHasOwner'
  BY <1>u, <1>t DEF OpenHasOwner, FetchLife, DbFlagTypes, DbCacheTypes, DbTableTypes, DbSweepTypes, SourceNumbers, Sources, NoTable, DbNames, Sweepers, FetchFails
<1> QED  BY <1>1, <1>2, <1>3, <1>4, <1>5, <1>6, <1>7, <1>8 DEF DbInv

LEMMA DbLocateBegins ==
  ASSUME DbInv, NEW r \in DbReaders, LocateBegins(r)
  PROVE  DbInv'
<1>u. UNCHANGED <<dbClosed, dbStore, dbFetch, src, table, build, swPc, swHeld>>
  BY DEF LocateBegins
<1>t. DbFlagTypes /\ DbCacheTypes /\ DbTableTypes /\ DbSweepTypes /\ FetchLife /\ StoredLife /\ TableLife /\ SweepLife /\ OpenHasOwner
  BY DEF DbInv
<1>1. DbFlagTypes' /\ DbCacheTypes' /\ DbTableTypes' /\ DbSweepTypes' /\ FetchLife' /\ StoredLife' /\ TableLife' /\ SweepLife' /\ OpenHasOwner'
  BY <1>u, <1>t DEF DbFlagTypes, DbCacheTypes, DbTableTypes, DbSweepTypes, FetchLife, StoredLife, TableLife, SweepLife, OpenHasOwner
<1> QED  BY <1>1 DEF DbInv

LEMMA DbConnectionReady ==
  ASSUME DbInv, NEW r \in DbReaders, ConnectionReady(r)
  PROVE  DbInv'
<1>u. UNCHANGED <<dbClosed, dbStore, dbFetch, src, table, build, swPc, swHeld>>
  BY DEF ConnectionReady
<1>t. DbFlagTypes /\ DbCacheTypes /\ DbTableTypes /\ DbSweepTypes /\ FetchLife /\ StoredLife /\ TableLife /\ SweepLife /\ OpenHasOwner
  BY DEF DbInv
<1>1. DbFlagTypes' /\ DbCacheTypes' /\ DbTableTypes' /\ DbSweepTypes' /\ FetchLife' /\ StoredLife' /\ TableLife' /\ SweepLife' /\ OpenHasOwner'
  BY <1>u, <1>t DEF DbFlagTypes, DbCacheTypes, DbTableTypes, DbSweepTypes, FetchLife, StoredLife, TableLife, SweepLife, OpenHasOwner
<1> QED  BY <1>1 DEF DbInv

LEMMA DbConnectionRefused ==
  ASSUME DbInv, NEW r \in DbReaders, ConnectionRefused(r)
  PROVE  DbInv'
<1>u. UNCHANGED <<dbClosed, dbStore, dbFetch, src, table, build, rdSrc, swPc, swHeld>>
  BY DEF ConnectionRefused
<1>t. DbFlagTypes /\ DbCacheTypes /\ DbTableTypes /\ DbSweepTypes /\ FetchLife /\ StoredLife /\ TableLife /\ SweepLife /\ OpenHasOwner
  BY DEF DbInv
<1>1. DbFlagTypes' /\ DbCacheTypes' /\ DbTableTypes' /\ DbSweepTypes' /\ FetchLife' /\ StoredLife' /\ TableLife' /\ SweepLife' /\ OpenHasOwner'
  BY <1>u, <1>t DEF DbFlagTypes, DbCacheTypes, DbTableTypes, DbSweepTypes, FetchLife, StoredLife, TableLife, SweepLife, OpenHasOwner
<1> QED  BY <1>1 DEF DbInv

LEMMA DbFileMapQuery ==
  ASSUME DbInv, NEW r \in DbReaders, FileMapQuery(r)
  PROVE  DbInv'
<1>u. UNCHANGED <<dbClosed, dbStore, dbFetch, src, table, build, rdSrc, swPc, swHeld>>
  BY DEF FileMapQuery
<1>t. DbFlagTypes /\ DbCacheTypes /\ DbTableTypes /\ DbSweepTypes /\ FetchLife /\ StoredLife /\ TableLife /\ SweepLife /\ OpenHasOwner
  BY DEF DbInv
<1>1. DbFlagTypes' /\ DbCacheTypes' /\ DbTableTypes' /\ DbSweepTypes' /\ FetchLife' /\ StoredLife' /\ TableLife' /\ SweepLife' /\ OpenHasOwner'
  BY <1>u, <1>t DEF DbFlagTypes, DbCacheTypes, DbTableTypes, DbSweepTypes, FetchLife, StoredLife, TableLife, SweepLife, OpenHasOwner
<1> QED  BY <1>1 DEF DbInv

LEMMA DbGetMetaTable ==
  ASSUME DbInv, NEW r \in DbReaders, GetMetaTable(r)
  PROVE  DbInv'
<1>u. UNCHANGED <<dbClosed, dbStore, dbFetch, src, table, swPc, swHeld>>
  BY DEF GetMetaTable
<1>t. DbFlagTypes /\ DbCacheTypes /\ DbTableTypes /\ DbSweepTypes /\ FetchLife /\ StoredLife /\ TableLife /\ SweepLife /\ OpenHasOwner
  BY DEF DbInv
<1>1. DbFlagTypes' /\ DbCacheTypes' /\ DbSweepTypes' /\ FetchLife' /\ StoredLife' /\ SweepLife' /\ OpenHasOwner'
  BY <1>u, <1>t DEF DbFlagTypes, DbCacheTypes, DbSweepTypes, FetchLife, StoredLife, SweepLife, OpenHasOwner
<1>2. DbTableTypes'
  BY <1>u, <1>t DEF DbTableTypes, DbFlagTypes, DbCacheTypes, DbSweepTypes, SourceNumbers, Sources, NoTable, DbNames, Sweepers, GetMetaTable
<1>3. TableLife'
  BY <1>u, <1>t DEF TableLife, DbFlagTypes, DbCacheTypes, DbTableTypes, DbSweepTypes, SourceNumbers, Sources, NoTable, DbNames, Sweepers, GetMetaTable
<1> QED  BY <1>1, <1>2, <1>3 DEF DbInv

LEMMA DbFileSizeQuery ==
  ASSUME DbInv, NEW r \in DbReaders, FileSizeQuery(r)
  PROVE  DbInv'
<1>u. UNCHANGED <<dbClosed, dbStore, dbFetch, src, table, build, rdSrc, swPc, swHeld>>
  BY DEF FileSizeQuery
<1>t. DbFlagTypes /\ DbCacheTypes /\ DbTableTypes /\ DbSweepTypes /\ FetchLife /\ StoredLife /\ TableLife /\ SweepLife /\ OpenHasOwner
  BY DEF DbInv
<1>1. DbFlagTypes' /\ DbCacheTypes' /\ DbTableTypes' /\ DbSweepTypes' /\ FetchLife' /\ StoredLife' /\ TableLife' /\ SweepLife' /\ OpenHasOwner'
  BY <1>u, <1>t DEF DbFlagTypes, DbCacheTypes, DbTableTypes, DbSweepTypes, FetchLife, StoredLife, TableLife, SweepLife, OpenHasOwner
<1> QED  BY <1>1 DEF DbInv

LEMMA DbBuildConnected ==
  ASSUME DbInv, BuildConnected
  PROVE  DbInv'
<1>u. UNCHANGED <<dbClosed, dbStore, dbFetch, src, table, rdPc, rdSrc, swPc, swHeld>>
  BY DEF BuildConnected
<1>t. DbFlagTypes /\ DbCacheTypes /\ DbTableTypes /\ DbSweepTypes /\ FetchLife /\ StoredLife /\ TableLife /\ SweepLife /\ OpenHasOwner
  BY DEF DbInv
<1>1. DbFlagTypes' /\ DbCacheTypes' /\ DbSweepTypes' /\ FetchLife' /\ StoredLife' /\ SweepLife' /\ OpenHasOwner'
  BY <1>u, <1>t DEF DbFlagTypes, DbCacheTypes, DbSweepTypes, FetchLife, StoredLife, SweepLife, OpenHasOwner
<1>2. DbTableTypes'
  BY <1>u, <1>t DEF DbTableTypes, DbFlagTypes, DbCacheTypes, DbSweepTypes, SourceNumbers, Sources, NoTable, DbNames, Sweepers, BuildConnected
<1>3. TableLife'
  BY <1>u, <1>t DEF TableLife, DbFlagTypes, DbCacheTypes, DbTableTypes, DbSweepTypes, SourceNumbers, Sources, NoTable, DbNames, Sweepers, BuildConnected
<1> QED  BY <1>1, <1>2, <1>3 DEF DbInv

LEMMA DbBuildRefused ==
  ASSUME DbInv, BuildRefused
  PROVE  DbInv'
<1>u. UNCHANGED <<dbClosed, dbStore, dbFetch, src, table, rdSrc, swPc, swHeld>>
  BY DEF BuildRefused
<1>t. DbFlagTypes /\ DbCacheTypes /\ DbTableTypes /\ DbSweepTypes /\ FetchLife /\ StoredLife /\ TableLife /\ SweepLife /\ OpenHasOwner
  BY DEF DbInv
<1>1. DbFlagTypes' /\ DbCacheTypes' /\ DbSweepTypes' /\ FetchLife' /\ StoredLife' /\ SweepLife' /\ OpenHasOwner'
  BY <1>u, <1>t DEF DbFlagTypes, DbCacheTypes, DbSweepTypes, FetchLife, StoredLife, SweepLife, OpenHasOwner
<1>2. DbTableTypes'
  BY <1>u, <1>t DEF DbTableTypes, DbFlagTypes, DbCacheTypes, DbSweepTypes, SourceNumbers, Sources, NoTable, DbNames, Sweepers, BuildRefused
<1>3. TableLife'
  BY <1>u, <1>t DEF TableLife, DbFlagTypes, DbCacheTypes, DbTableTypes, DbSweepTypes, SourceNumbers, Sources, NoTable, DbNames, Sweepers, BuildRefused
<1> QED  BY <1>1, <1>2, <1>3 DEF DbInv

LEMMA DbTableBuilt ==
  ASSUME DbInv, TableBuilt
  PROVE  DbInv'
<1>u. UNCHANGED <<dbClosed, dbStore, dbFetch, src, swPc, swHeld>>
  BY DEF TableBuilt
<1>t. DbFlagTypes /\ DbCacheTypes /\ DbTableTypes /\ DbSweepTypes /\ FetchLife /\ StoredLife /\ TableLife /\ SweepLife /\ OpenHasOwner
  BY DEF DbInv
<1>1. DbFlagTypes' /\ DbCacheTypes' /\ DbSweepTypes' /\ FetchLife' /\ StoredLife' /\ SweepLife' /\ OpenHasOwner'
  BY <1>u, <1>t DEF DbFlagTypes, DbCacheTypes, DbSweepTypes, FetchLife, StoredLife, SweepLife, OpenHasOwner
<1>2. DbTableTypes'
  BY <1>u, <1>t DEF DbTableTypes, DbFlagTypes, DbCacheTypes, DbSweepTypes, SourceNumbers, Sources, NoTable, DbNames, Sweepers, TableBuilt
<1>3. TableLife'
  BY <1>u, <1>t DEF TableLife, DbFlagTypes, DbCacheTypes, DbTableTypes, DbSweepTypes, SourceNumbers, Sources, NoTable, DbNames, Sweepers, TableBuilt
<1> QED  BY <1>1, <1>2, <1>3 DEF DbInv

LEMMA DbSweepBegins ==
  ASSUME DbInv, NEW w \in Sweepers, SweepBegins(w)
  PROVE  DbInv'
<1>u. UNCHANGED <<dbStore, dbFetch, src, table, build, rdPc, rdSrc>>
  BY DEF SweepBegins, Stored
<1>t. DbFlagTypes /\ DbCacheTypes /\ DbTableTypes /\ DbSweepTypes /\ FetchLife /\ StoredLife /\ TableLife /\ SweepLife /\ OpenHasOwner
  BY DEF DbInv
<1>1. DbCacheTypes' /\ DbTableTypes' /\ FetchLife' /\ StoredLife' /\ TableLife'
  BY <1>u, <1>t DEF DbCacheTypes, DbTableTypes, FetchLife, StoredLife, TableLife
<1>2. DbFlagTypes'
  BY <1>u, <1>t DEF DbFlagTypes, DbCacheTypes, DbTableTypes, DbSweepTypes, SourceNumbers, Sources, NoTable, DbNames, Sweepers, SweepBegins, Stored
<1>3. DbSweepTypes'
  BY <1>u, <1>t DEF DbSweepTypes, DbFlagTypes, DbCacheTypes, DbTableTypes, SourceNumbers, Sources, NoTable, DbNames, Sweepers, SweepBegins, Stored
<1>4. SweepLife'
  <2>1. swHeld'[w] = {dbStore[n] : n \in DbNames} \ {0} /\ swPc'[w] = "settle" /\ swPc[w] = "idle"
    BY <1>t DEF SweepBegins, Stored, DbSweepTypes
  <2>2. \A v \in Sweepers : v # w => swHeld'[v] = swHeld[v] /\ swPc'[v] = swPc[v]
    BY <1>t DEF SweepBegins, DbSweepTypes
  <2>3. \A s \in swHeld'[w] : src[s] \in {"open", "closed"}
    BY <2>1, <1>t DEF StoredLife
  <2>4. dbClosed' <=> swPc'["close"] # "idle"
    BY <2>1, <2>2, <1>t DEF SweepBegins, SweepLife, Sweepers, DbFlagTypes
  <2>5. swPc'["close"] \in {"closing", "done"} => swPc["close"] \in {"closing", "done"}
    BY <2>1, <2>2 DEF Sweepers
  <2>6. \A v \in Sweepers : /\ \A s \in swHeld'[v] : src[s] \in {"open", "closed"}
                            /\ swPc'[v] \in {"idle", "done"} => swHeld'[v] = {}
    BY <2>1, <2>2, <2>3, <1>t DEF SweepLife
  <2> QED  BY <2>4, <2>5, <2>6, <1>u, <1>t DEF SweepLife
<1>5. OpenHasOwner'
  BY <1>u, <1>t DEF OpenHasOwner, SweepLife, DbFlagTypes, DbCacheTypes, DbTableTypes, DbSweepTypes, SourceNumbers, Sources, NoTable, DbNames, Sweepers, SweepBegins, Stored
<1> QED  BY <1>1, <1>2, <1>3, <1>4, <1>5 DEF DbInv

LEMMA DbSweepSettled ==
  ASSUME DbInv, NEW w \in Sweepers, SweepSettled(w)
  PROVE  DbInv'
<1>u. UNCHANGED <<dbClosed, dbFetch, src, rdPc, rdSrc>>
  BY DEF SweepSettled, SettledSources, Stored, ClearCaches
<1>t. DbFlagTypes /\ DbCacheTypes /\ DbTableTypes /\ DbSweepTypes /\ FetchLife /\ StoredLife /\ TableLife /\ SweepLife /\ OpenHasOwner
  BY DEF DbInv
<1>1. DbFlagTypes'
  BY <1>u, <1>t DEF DbFlagTypes
<1>2. DbCacheTypes'
  BY <1>u, <1>t DEF DbCacheTypes, DbFlagTypes, DbTableTypes, DbSweepTypes, SourceNumbers, Sources, NoTable, DbNames, Sweepers, SweepSettled, SettledSources, Stored, ClearCaches
<1>3. DbTableTypes'
  BY <1>u, <1>t DEF DbTableTypes, DbFlagTypes, DbCacheTypes, DbSweepTypes, SourceNumbers, Sources, NoTable, DbNames, Sweepers, SweepSettled, SettledSources, Stored, ClearCaches
<1>4. DbSweepTypes'
  BY <1>u, <1>t DEF DbSweepTypes, DbFlagTypes, DbCacheTypes, DbTableTypes, SourceNumbers, Sources, NoTable, DbNames, Sweepers, SweepSettled, SettledSources, Stored, ClearCaches
<1>5. FetchLife'
  BY <1>u, <1>t DEF FetchLife, SweepLife, DbFlagTypes, DbCacheTypes, DbTableTypes, DbSweepTypes, SourceNumbers, Sources, NoTable, DbNames, Sweepers, SweepSettled, SettledSources, Stored, ClearCaches
<1>6. StoredLife'
  BY <1>u, <1>t DEF StoredLife, SweepLife, DbFlagTypes, DbCacheTypes, DbTableTypes, DbSweepTypes, SourceNumbers, Sources, NoTable, DbNames, Sweepers, SweepSettled, SettledSources, Stored, ClearCaches
<1>7. TableLife'
  BY <1>u, <1>t DEF TableLife, SweepLife, DbFlagTypes, DbCacheTypes, DbTableTypes, DbSweepTypes, SourceNumbers, Sources, NoTable, DbNames, Sweepers, SweepSettled, SettledSources, Stored, ClearCaches
<1>8. SweepLife'
  BY <1>u, <1>t DEF SweepLife, StoredLife, DbFlagTypes, DbCacheTypes, DbTableTypes, DbSweepTypes, SourceNumbers, Sources, NoTable, DbNames, Sweepers, SweepSettled, SettledSources, Stored, ClearCaches
<1>9. OpenHasOwner'
  BY <1>u, <1>t DEF OpenHasOwner, SweepLife, DbFlagTypes, DbCacheTypes, DbTableTypes, DbSweepTypes, SourceNumbers, Sources, NoTable, DbNames, Sweepers, SweepSettled, SettledSources, Stored, ClearCaches
<1> QED  BY <1>1, <1>2, <1>3, <1>4, <1>5, <1>6, <1>7, <1>8, <1>9 DEF DbInv

LEMMA DbSweepCloses ==
  ASSUME DbInv, NEW w \in Sweepers, SweepCloses(w)
  PROVE  DbInv'
<1>u. UNCHANGED <<dbClosed, dbStore, dbFetch, table, build, rdPc, rdSrc, swPc>>
  BY DEF SweepCloses
<1>t. DbFlagTypes /\ DbCacheTypes /\ DbTableTypes /\ DbSweepTypes /\ FetchLife /\ StoredLife /\ TableLife /\ SweepLife /\ OpenHasOwner
  BY DEF DbInv
<1>1. DbFlagTypes'
  BY <1>u, <1>t DEF DbFlagTypes
<1>2. DbCacheTypes'
  BY <1>u, <1>t DEF DbCacheTypes, DbFlagTypes, DbTableTypes, DbSweepTypes, SourceNumbers, Sources, NoTable, DbNames, Sweepers, SweepCloses
<1>3. DbTableTypes'
  BY <1>u, <1>t DEF DbTableTypes, DbFlagTypes, DbCacheTypes, DbSweepTypes, SourceNumbers, Sources, NoTable, DbNames, Sweepers, SweepCloses
<1>4. DbSweepTypes'
  BY <1>u, <1>t DEF DbSweepTypes, DbFlagTypes, DbCacheTypes, DbTableTypes, SourceNumbers, Sources, NoTable, DbNames, Sweepers, SweepCloses
<1>5. FetchLife'
  BY <1>u, <1>t DEF FetchLife, SweepLife, DbFlagTypes, DbCacheTypes, DbTableTypes, DbSweepTypes, SourceNumbers, Sources, NoTable, DbNames, Sweepers, SweepCloses
<1>6. StoredLife'
  BY <1>u, <1>t DEF StoredLife, SweepLife, DbFlagTypes, DbCacheTypes, DbTableTypes, DbSweepTypes, SourceNumbers, Sources, NoTable, DbNames, Sweepers, SweepCloses
<1>7. TableLife'
  BY <1>u, <1>t DEF TableLife, DbFlagTypes, DbCacheTypes, DbTableTypes, DbSweepTypes, SourceNumbers, Sources, NoTable, DbNames, Sweepers, SweepCloses
<1>8. SweepLife'
  BY <1>u, <1>t DEF SweepLife, DbFlagTypes, DbCacheTypes, DbTableTypes, DbSweepTypes, SourceNumbers, Sources, NoTable, DbNames, Sweepers, SweepCloses
<1>9. OpenHasOwner'
  BY <1>u, <1>t DEF OpenHasOwner, SweepLife, DbFlagTypes, DbCacheTypes, DbTableTypes, DbSweepTypes, SourceNumbers, Sources, NoTable, DbNames, Sweepers, SweepCloses
<1> QED  BY <1>1, <1>2, <1>3, <1>4, <1>5, <1>6, <1>7, <1>8, <1>9 DEF DbInv

LEMMA DbSweepEnds ==
  ASSUME DbInv, NEW w \in Sweepers, SweepEnds(w)
  PROVE  DbInv'
<1>u. UNCHANGED <<dbClosed, dbStore, dbFetch, src, table, build, rdPc, rdSrc, swHeld>>
  BY DEF SweepEnds
<1>t. DbFlagTypes /\ DbCacheTypes /\ DbTableTypes /\ DbSweepTypes /\ FetchLife /\ StoredLife /\ TableLife /\ SweepLife /\ OpenHasOwner
  BY DEF DbInv
<1>1. DbFlagTypes' /\ DbCacheTypes' /\ DbTableTypes' /\ FetchLife' /\ StoredLife' /\ TableLife' /\ OpenHasOwner'
  BY <1>u, <1>t DEF DbFlagTypes, DbCacheTypes, DbTableTypes, FetchLife, StoredLife, TableLife, OpenHasOwner
<1>2. DbSweepTypes'
  BY <1>u, <1>t DEF DbSweepTypes, DbFlagTypes, DbCacheTypes, DbTableTypes, SourceNumbers, Sources, NoTable, DbNames, Sweepers, SweepEnds
<1>3. SweepLife'
  BY <1>u, <1>t DEF SweepLife, DbFlagTypes, DbCacheTypes, DbTableTypes, DbSweepTypes, SourceNumbers, Sources, NoTable, DbNames, Sweepers, SweepEnds
<1> QED  BY <1>1, <1>2, <1>3 DEF DbInv

LEMMA DbStart ==
  ASSUME DbInit
  PROVE  DbInv
BY DEF DbInit, DbInv, DbFlagTypes, DbCacheTypes, DbTableTypes, DbSweepTypes, FetchLife, StoredLife, TableLife,
       SweepLife, OpenHasOwner, SourceNumbers, Sources, NoTable, DbNames, Sweepers

LEMMA DbStep ==
  ASSUME DbInv, DbNext \/ UNCHANGED dbVars
  PROVE  DbInv'
<1>1. CASE UNCHANGED dbVars
  BY <1>1 DEF dbVars, DbInv, DbFlagTypes, DbCacheTypes, DbTableTypes, DbSweepTypes, FetchLife, StoredLife,
              TableLife, SweepLife, OpenHasOwner
<1>2. ASSUME NEW n \in DbNames, FetchBegins(n) \/ FetchLands(n) \/ FetchFails(n)
      PROVE  DbInv'
  BY <1>2, DbFetchBegins, DbFetchLands, DbFetchFails
<1>3. ASSUME NEW r \in DbReaders, \/ LocateBegins(r) \/ ConnectionReady(r) \/ ConnectionRefused(r)
                                  \/ FileMapQuery(r) \/ GetMetaTable(r) \/ FileSizeQuery(r)
      PROVE  DbInv'
  BY <1>3, DbLocateBegins, DbConnectionReady, DbConnectionRefused, DbFileMapQuery, DbGetMetaTable, DbFileSizeQuery
<1>4. CASE BuildConnected \/ BuildRefused \/ TableBuilt
  BY <1>4, DbBuildConnected, DbBuildRefused, DbTableBuilt
<1>5. ASSUME NEW w \in Sweepers, SweepBegins(w) \/ SweepSettled(w) \/ SweepCloses(w) \/ SweepEnds(w)
      PROVE  DbInv'
  BY <1>5, DbSweepBegins, DbSweepSettled, DbSweepCloses, DbSweepEnds
<1> QED  BY <1>1, <1>2, <1>3, <1>4, <1>5 DEF DbNext

LEMMA DbProperties ==
  ASSUME DbInv
  PROVE  CachedTableIsLive /\ SourcesAreReleased
<1>1. CachedTableIsLive
  BY DEF DbInv, TableLife, CachedTableIsLive, Stored, Sources, DbNames
<1>2. \A s \in Sources : src[s] = "open" => s \in Stored \/ \E w \in Sweepers : s \in swHeld[w]
  BY DEF DbInv, OpenHasOwner, Stored, Sources
<1>3. ASSUME swPc["close"] = "done"
      PROVE  Stored = {} /\ \A s \in Sources : src[s] # "opening"
  BY <1>3 DEF DbInv, SweepLife, FetchLife, Stored, Sources
<1> QED  BY <1>1, <1>2, <1>3 DEF SourcesAreReleased

-----------------------------------------------------------------------------
(* The theorems. *)

LEMMA OwnerParts ==
  /\ Init => RepoInit /\ SessInit /\ DbInit /\ SsInit /\ SaasInit
  /\ [Next]_<<part, input, Owned, Backend>> =>
        /\ RepoNext \/ UNCHANGED repoVars
        /\ SessNext \/ UNCHANGED sessVars
        /\ DbNext \/ UNCHANGED dbVars
        /\ SsNext \/ UNCHANGED ssVars
        /\ SaasNext \/ UNCHANGED saasVars
<1>1. Init => RepoInit /\ SessInit /\ DbInit /\ SsInit /\ SaasInit
  BY DEF Init
<1>2. ASSUME [Next]_<<part, input, Owned, Backend>>
      PROVE  /\ RepoNext \/ UNCHANGED repoVars
             /\ SessNext \/ UNCHANGED sessVars
             /\ DbNext \/ UNCHANGED dbVars
             /\ SsNext \/ UNCHANGED ssVars
             /\ SaasNext \/ UNCHANGED saasVars
  BY <1>2 DEF Next, Owned
<1> QED  BY <1>1, <1>2

\* After set_key no catalog opened under an old key is served or kept (_reopen_catalogs_under_new_key),
\* if no invalidate_caches overlaps it, which its callers exclude.
THEOREM AdoptedKeyIsUsed ==
  ASSUME "drop" \notin Overlaps
  PROVE  Spec => []CatalogsUseAdoptedKey
<1>1. Init => KeyInv
  BY OwnerParts, KeyStart
<1>2. KeyInv /\ [Next]_<<part, input, Owned, Backend>> => KeyInv'
  BY OwnerParts, KeyStep
<1>3. KeyInv => CatalogsUseAdoptedKey
  BY RepoProperties
<1> QED  BY <1>1, <1>2, <1>3, PTL DEF Spec

OwnersInv == KeyInv /\ LifeInv /\ SessInv /\ DbInv /\ StreamsInv

LEMMA OwnersInductive ==
  ASSUME "drop" \notin Overlaps, "close" \notin Overlaps, ~CloseOverlaps, ~Overlap
  PROVE  /\ Init => OwnersInv
         /\ OwnersInv /\ [Next]_<<part, input, Owned, Backend>> => OwnersInv'
<1>1. Init => OwnersInv
  BY OwnerParts, KeyStart, LifeStart, SessStart, DbStart, StreamsStart DEF OwnersInv
<1>2. OwnersInv /\ [Next]_<<part, input, Owned, Backend>> => OwnersInv'
  BY OwnerParts, KeyStep, LifeStep, SessStep, DbStep, StreamsStep DEF OwnersInv
<1> QED  BY <1>1, <1>2

\* A catalog the cache would serve, a Table locate_file would reuse, the store of a repository handed out
\* and a stream a call reads are open: no close, set_key, sweep, sibling's close_repo or eviction closed
\* them (Repository, DedupRepo, Session, SaasStreamCache), if the calls the code leaves to its caller to
\* serialise do not overlap.
THEOREM UsedStaysLive ==
  ASSUME "drop" \notin Overlaps, "close" \notin Overlaps, ~CloseOverlaps, ~Overlap
  PROVE  Spec => []LiveWhileUsed
<1>1. Init => OwnersInv
  BY OwnersInductive
<1>2. OwnersInv /\ [Next]_<<part, input, Owned, Backend>> => OwnersInv'
  BY OwnersInductive
<1>3. OwnersInv => LiveWhileUsed
  BY RepoProperties, SessProperties, DbProperties, StreamsProperties DEF OwnersInv, LiveWhileUsed
<1> QED  BY <1>1, <1>2, <1>3, PTL DEF Spec

\* Nothing is leaked: a repository that is closed has no open catalog or provider, a closed DedupRepo no
\* source, a session no store without a user, unless a discovery over it failed (Session.close closes that
\* one), a SaaS stream that was evicted or swept no source, a copy that is gone no file or connection and no
\* reserved space, and S3Store no client besides the one in use and those being closed.
THEOREM HandlesComeBack ==
  ASSUME "drop" \notin Overlaps, "close" \notin Overlaps, ~CloseOverlaps, ~Overlap
  PROVE  Spec => []HandlesAreReleased
<1>1. Init => OwnersInv /\ HoldsInv /\ S3Inv
  BY OwnersInductive, StorageParts, HoldsStart, S3Start
<1>2. OwnersInv /\ HoldsInv /\ S3Inv /\ [Next]_<<part, input, Owned, Backend>> => (OwnersInv /\ HoldsInv /\ S3Inv)'
  BY OwnersInductive, StorageParts, HoldsStep, S3Step
<1>3. OwnersInv /\ HoldsInv /\ S3Inv => HandlesAreReleased
  BY RepoProperties, SessProperties, DbProperties, StreamsProperties, HoldsProperty DEF OwnersInv, S3Inv, HandlesAreReleased
<1> QED  BY <1>1, <1>2, <1>3, PTL DEF Spec

\* The index shared by a SaaS version's providers is loaded once, is open exactly while it is held, and a
\* candidate that fails leaves nothing open, whatever fails, is closed or is cancelled (saas_provider_for).
THEOREM IndexStaysShared == Spec => []IndexIsShared
<1>1. Init => SaasInv
  BY OwnerParts, SaasStart
<1>2. SaasInv /\ [Next]_<<part, input, Owned, Backend>> => SaasInv'
  BY OwnerParts, SaasStep
<1>3. SaasInv => IndexIsShared
  BY SaasProperties DEF IndexIsShared
<1> QED  BY <1>1, <1>2, <1>3, PTL DEF Spec

==============================================================================
