---------------------------- MODULE SaasProviders ----------------------------
(***************************************************************************)
(* Opening and closing the provider of a SaaS version: saas_provider_for   *)
(* tries every candidate of the sub type (units/dispatch.py), each a       *)
(* SaasWorkloadProvider that opens its tables through the version's        *)
(* object-name index (units/saas/provider.py), and all share one           *)
(* reference-counted index ObjectDB (units/saas/context.py).               *)
(***************************************************************************)
EXTENDS Integers, FiniteSets

CONSTANTS
    Candidates,   \* how many the sub type has
    Tables,       \* tables a candidate opens
    IndexKinds    \* "ok", "degradable" (does not load), "none" (no index recorded)

ASSUME CandidatesAssumption == Candidates \in Nat /\ Tables \in Nat \ {0}

Dispatch == 0                  \* _held_for_dispatch
RawProvider == Candidates + 1  \* RawObjectProvider
Tried == 1..Candidates
Owners == 0..Candidates + 1

VARIABLES
    indexKind,
    indexDb,     \* SharedIndexObjectDb's ObjectDb: closed or open
    loads,       \* how often it was loaded in this call
    holders,     \* SharedIndexObjectDb._holders
    holds,       \* owners that have a hold
    sources,     \* per candidate, the tables it has open
    trying,      \* candidate being tried
    place,       \* where saas_provider_for is
    answering    \* candidates that answered

saasVars == <<indexKind, indexDb, loads, holders, holds, sources, trying, place, answering>>

SaasTypeOK ==
    /\ indexKind \in IndexKinds /\ indexDb \in {"closed", "open"}
    /\ loads \in Nat /\ holders \in Int /\ holds \subseteq Owners
    /\ sources \in [Tried -> 0..Tables] /\ trying \in 0..Candidates + 1
    /\ place \in {"begin", "next", "tables", "tree", "failed", "raising", "raw", "leaving", "open", "raised", "closed"}
    /\ answering \subseteq Tried

SaasInit ==
    /\ indexKind \in IndexKinds /\ indexDb = "closed" /\ loads = 0 /\ holders = 0 /\ holds = {}
    /\ sources = [c \in Tried |-> 0] /\ trying = 0 /\ place = "begin" /\ answering = {}

\* SharedIndexObjectDb.acquire: loads on the first one.
Acquire(o) ==
    /\ indexKind = "ok"
    /\ indexDb' = "open" /\ loads' = IF indexDb = "open" THEN loads ELSE loads + 1
    /\ holders' = holders + 1 /\ holds' = holds \union {o}
\* SharedIndexObjectDb.release by all of set, one after the other; the last one closes it.
ReleaseEach(set) ==
    LET released == holds \cap set IN
    /\ holders' = holders - Cardinality(released) /\ holds' = holds \ set
    /\ indexDb' = IF released # {} /\ holders = Cardinality(released) THEN "closed" ELSE indexDb
    /\ UNCHANGED loads
\* The sources alone.
CloseSources(set) == sources' = [c \in Tried |-> IF c \in set THEN 0 ELSE sources[c]] /\ UNCHANGED <<indexDb, holders, holds, loads>>
\* SaasWorkloadProvider.close of all of set: sources, and the hold.
CloseEach(set) == sources' = [c \in Tried |-> IF c \in set THEN 0 ELSE sources[c]] /\ ReleaseEach(set)

\* Nothing is held while candidates are tried.
HoldNothing ==
    /\ place = "begin" /\ place' = "next" /\ UNCHANGED <<indexKind, indexDb, loads, holders, holds, sources, trying, answering>>
\* _held_for_dispatch enters: a load that fails is left for each candidate.
HoldForDispatch ==
    /\ place = "begin"
    /\ \/ Acquire(Dispatch)
       \/ indexKind # "ok" /\ UNCHANGED <<indexDb, loads, holders, holds>>
    /\ place' = "next" /\ UNCHANGED <<indexKind, sources, trying, answering>>

\* The next candidate's factory, or what was found.
NextCandidate ==
    /\ place = "next" /\ trying < Candidates
    /\ trying' = trying + 1 /\ place' = "tables"
    /\ UNCHANGED <<indexKind, indexDb, loads, holders, holds, sources, answering>>
NoneLeft ==
    /\ place = "next" /\ trying = Candidates
    /\ place' = IF answering = {} THEN "raw" ELSE "leaving"
    /\ UNCHANGED <<indexKind, indexDb, loads, holders, holds, sources, trying, answering>>

\* _open_table_via_index: the provider's hold comes with its first table.
TakeHold ==
    /\ place = "tables" /\ trying \notin holds
    /\ Acquire(trying)
    /\ UNCHANGED <<indexKind, sources, trying, place, answering>>
OpenTable ==
    /\ place = "tables" /\ trying \in holds /\ sources[trying] < Tables
    /\ sources' = [sources EXCEPT ![trying] = @ + 1]
    /\ place' = IF sources'[trying] = Tables THEN "tree" ELSE "tables"
    /\ UNCHANGED <<indexKind, indexDb, loads, holders, holds, trying, answering>>
\* No index, an index that does not load, no alias that validates, schema drift in the tree factory.
PassOver ==
    /\ place \in {"tables", "tree"} /\ (trying \in holds <=> indexKind = "ok")
    /\ place' = "failed"
    /\ UNCHANGED <<indexKind, indexDb, loads, holders, holds, sources, trying, answering>>
\* tree_factory is done: the candidate is a provider.
BuildTree ==
    /\ place = "tree"
    /\ answering' = answering \union {trying} /\ place' = "next"
    /\ UNCHANGED <<indexKind, indexDb, loads, holders, holds, sources, trying>>
\* create closes what it opened, whatever ended it; an unsupported candidate is passed over.
GiveUpCandidate ==
    /\ place = "failed"
    /\ CloseEach({trying}) /\ place' = "next"
    /\ UNCHANGED <<indexKind, trying, answering>>
\* Anything else, a store failure or a cancel, ends the call: the candidate's own close, then those found.
Raise ==
    /\ place \in {"begin", "tables", "tree", "raw"}
    /\ CloseEach(answering \union ({trying} \cap Tried) \union (IF place = "raw" THEN {RawProvider} ELSE {}))
    /\ place' = "raising" /\ answering' = {} /\ UNCHANGED <<indexKind, trying>>

\* RawObjectProvider.create: an index that does not load is shown as a placeholder.
OpenRaw ==
    /\ place = "raw"
    /\ \/ Acquire(RawProvider)
       \/ indexKind # "ok" /\ UNCHANGED <<indexDb, loads, holders, holds>>
    /\ place' = "leaving" /\ trying' = RawProvider /\ UNCHANGED <<indexKind, sources, answering>>

\* _held_for_dispatch leaves, on the way out of a success or of an error.
ReleaseDispatch ==
    /\ place \in {"leaving", "raising"}
    /\ ReleaseEach({Dispatch})
    /\ place' = IF place = "leaving" THEN "open" ELSE "raised"
    /\ UNCHANGED <<indexKind, sources, trying, answering>>

\* The provider, or the composite of several, is closed by its owner.
CloseProvider ==
    /\ place = "open"
    /\ CloseEach(answering \union {RawProvider}) /\ place' = "closed" /\ answering' = {}
    /\ UNCHANGED <<indexKind, trying>>

SaasNext ==
    \/ HoldForDispatch \/ NextCandidate \/ NoneLeft \/ TakeHold \/ OpenTable \/ PassOver \/ BuildTree
    \/ GiveUpCandidate \/ Raise \/ OpenRaw \/ ReleaseDispatch \/ CloseProvider

SaasSpec == SaasInit /\ [][SaasNext]_saasVars

-----------------------------------------------------------------------------
\* The index is open exactly while someone holds it, so no provider reads a closed one.
IndexFollowsHolds ==
    /\ holders = Cardinality(holds)
    /\ indexDb = "open" <=> holds # {}
    /\ \A c \in answering : c \in holds

\* Candidates that give up in turn never close it under the next: it is loaded once in a call.
IndexLoadsOnce == loads <= 1

\* Only a provider that was handed out, or the one at work, has anything open; an error, and the
\* owner's close, leave nothing.
DispatchIsClean ==
    /\ \A c \in Tried : sources[c] # 0 \/ c \in holds => c \in answering \/ (c = trying /\ place \in {"tables", "tree", "failed"})
    /\ place \in {"raised", "closed"} => holds = {} /\ indexDb = "closed" /\ sources = [c \in Tried |-> 0]
    /\ place = "open" => IF answering = {} THEN trying = RawProvider ELSE \A c \in answering : sources[c] = Tables
=============================================================================
