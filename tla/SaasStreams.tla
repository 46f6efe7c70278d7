---------------------------- MODULE SaasStreams ----------------------------
(***************************************************************************)
(* SaasStreamCache and the SaasStreams it shares (sdk/units/saas/          *)
(* stream.py): a bounded LRU that never evicts a stream in use, streams    *)
(* that open their sqlite sources lazily and close them once, and the      *)
(* sweep of invalidate() and close().                                      *)
(*                                                                         *)
(* A SaasStream is a number, born in that order; its sources are taken     *)
(* together, as one that is none, opening, open or closed.                 *)
(***************************************************************************)
EXTENDS Integers, Sequences, FiniteSets, SequencesExt

CONSTANTS
    StreamKeys,    \* (connection_config_id, stream_uuid) pairs
    StreamReaders, \* resolve_saas_obj calls, and the key each asks for
    KeyOf,
    MaxStreams,    \* SaasStreamCache's maxsize
    MaxBorn,       \* bound: streams built over the life of the cache
    Overlap        \* whether invalidate may overlap a call: callers exclude it

ASSUME StreamsAssumption ==
    /\ MaxStreams \in Nat \ {0} /\ MaxBorn \in Nat
    /\ KeyOf \in [StreamReaders -> StreamKeys]

StreamIds == 1..MaxBorn

VARIABLES
    lru,       \* _streams: <<key, stream>>, least recently used first
    inUse,     \* _in_use
    ssClosed,  \* SaasStreamCache._closed
    st,        \* state of each stream: unborn, open, closing, closed
    source,    \* its sources
    call,      \* per call: place, stream and streams it evicted
    swept,     \* streams taken by invalidate or close
    sweep      \* where invalidate/close is

ssVars == <<lru, inUse, ssClosed, st, source, call, swept, sweep>>

SsInit ==
    /\ lru = <<>>
    /\ inUse = [k \in StreamKeys |-> 0]
    /\ ssClosed = FALSE
    /\ st = [i \in StreamIds |-> "unborn"]
    /\ source = [i \in StreamIds |-> "none"]
    /\ call = [r \in StreamReaders |-> [pc |-> "idle", stream |-> 0, evicted |-> <<>>]]
    /\ swept = {}
    /\ sweep = "idle"

Cached == {lru[i][2] : i \in DOMAIN lru}
Reading(r) == call[r].pc \in {"evict", "read", "using"}

-----------------------------------------------------------------------------
(* resolve_saas_obj                                                        *)

\* Mutant: the oldest goes, in use or not.
EvictOldest(streams, used) ==
    IF Len(streams) <= MaxStreams THEN [kept |-> streams, out |-> <<>>]
    ELSE [kept |-> Tail(streams), out |-> <<streams[1][2]>>]

\* The entries of s at the positions of a set, in their order.
AtPositions(s, set) ==
    LET order == CHOOSE f \in [1..Cardinality(set) -> set] :
                    /\ \A p \in set : \E n \in DOMAIN f : f[n] = p
                    /\ \A m, n \in DOMAIN f : m < n => f[m] < f[n]
    IN [n \in 1..Cardinality(set) |-> s[order[n]]]

\* The eviction loop of _stream_for: the least recently used streams that are
\* not in use go, as many as are too many, or all of them.
Evict(streams, used) ==
    LET victims == {i \in DOMAIN streams : used[streams[i][1]] = 0}
        gone == {i \in victims : Cardinality({j \in victims : j < i}) < Len(streams) - MaxStreams}
        closed == AtPositions(streams, gone)
    IN [kept |-> AtPositions(streams, DOMAIN streams \ gone), out |-> [n \in DOMAIN closed |-> closed[n][2]]]

\* Marked in use, then _stream_for up to its first await: a hit moves the
\* stream to the end, a miss builds one and evicts.
Lookup(r) ==
    LET k == KeyOf[r]
        used == [inUse EXCEPT ![k] = @ + 1]
        hits == {i \in DOMAIN lru : lru[i][1] = k}
        unborn == {i \in StreamIds : st[i] = "unborn"}
    IN /\ call[r].pc = "idle"
       /\ ~ssClosed
       /\ inUse' = used
       /\ \/ \E h \in hits :
                /\ lru' = Append(RemoveAt(lru, h), lru[h])
                /\ call' = [call EXCEPT ![r] = [pc |-> "read", stream |-> lru[h][2], evicted |-> <<>>]]
                /\ UNCHANGED st
          \/ /\ hits = {} /\ unborn # {}
             /\ LET i == CHOOSE i \in unborn : \A j \in unborn : i <= j
                    e == Evict(Append(lru, <<k, i>>), used)
                IN /\ lru' = e.kept
                   /\ st' = [j \in StreamIds |-> IF j = i THEN "open"
                                                 ELSE IF e.out # <<>> /\ j = e.out[1] THEN "closing" ELSE st[j]]
                   /\ call' = [call EXCEPT ![r] = [pc |-> IF e.out = <<>> THEN "read" ELSE "evict",
                                                   stream |-> i, evicted |-> e.out]]
       /\ UNCHANGED <<ssClosed, source, swept, sweep>>

\* A closed cache refuses the lookup; the mark is taken back in the finally.
LookupRefused(r) ==
    /\ call[r].pc = "idle"
    /\ ssClosed
    /\ call' = [call EXCEPT ![r].pc = "error"]
    /\ UNCHANGED <<lru, inUse, ssClosed, st, source, swept, sweep>>

\* old_stream.close() returned or raised: the next evicted one, then the read.
EvictedClosed(r) ==
    /\ call[r].pc = "evict"
    /\ st[Head(call[r].evicted)] = "closed"
    /\ LET rest == Tail(call[r].evicted) IN
          /\ call' = [call EXCEPT ![r].pc = IF rest = <<>> THEN "read" ELSE "evict", ![r].evicted = rest]
          /\ st' = IF rest = <<>> THEN st ELSE [st EXCEPT ![Head(rest)] = "closing"]
    /\ UNCHANGED <<lru, inUse, ssClosed, source, swept, sweep>>

\* The finally of resolve_saas_obj.
Unmark(k) == inUse' = [inUse EXCEPT ![k] = IF @ > 0 THEN @ - 1 ELSE 0]

\* stream.resolve_saas_obj opens a source through _sources.resolve; a closed
\* stream refuses, and the call fails.
OpenSource(i) ==
    /\ source[i] = "none"
    /\ st[i] = "open"
    /\ source' = [source EXCEPT ![i] = "opening"]

ReadBegins(r) ==
    /\ call[r].pc = "read"
    /\ OpenSource(call[r].stream)
    /\ UNCHANGED <<lru, inUse, ssClosed, st, call, swept, sweep>>

SourceOpened(i) ==
    /\ source[i] = "opening"
    /\ source' = [source EXCEPT ![i] = "open"]
    /\ UNCHANGED <<lru, inUse, ssClosed, st, call, swept, sweep>>

ReadWorks(r) ==
    /\ call[r].pc = "read"
    /\ source[call[r].stream] = "open"
    /\ call' = [call EXCEPT ![r].pc = "using"]
    /\ UNCHANGED <<lru, inUse, ssClosed, st, source, swept, sweep>>

ReadEnds(r) ==
    /\ \/ call[r].pc = "using"
       \/ call[r].pc = "read" /\ st[call[r].stream] # "open" /\ source[call[r].stream] # "opening"
    /\ call' = [call EXCEPT ![r].pc = IF source[call[r].stream] = "open" THEN "done" ELSE "error"]
    /\ Unmark(KeyOf[r])
    /\ UNCHANGED <<lru, ssClosed, st, source, swept, sweep>>

-----------------------------------------------------------------------------
(* SaasStream.close, invalidate and close                                  *)

\* settle_all waits for the source being opened, then it is closed.
StreamCloses(i) ==
    /\ st[i] = "closing"
    /\ source[i] # "opening"
    /\ st' = [st EXCEPT ![i] = "closed"]
    /\ source' = [source EXCEPT ![i] = IF @ = "open" THEN "closed" ELSE @]
    /\ UNCHANGED <<lru, inUse, ssClosed, call, swept, sweep>>

\* invalidate(), or close() which first refuses lookups: every stream is
\* dropped and closed, and no mark survives.
SweepStreams(shut) ==
    /\ sweep = "idle"
    /\ ~Overlap => (\A r \in StreamReaders : ~Reading(r)) \/ shut
    /\ ssClosed' = (ssClosed \/ shut)
    /\ swept' = swept \cup Cached
    /\ st' = [i \in StreamIds |-> IF i \in Cached THEN "closing" ELSE st[i]]
    /\ lru' = <<>>
    /\ inUse' = [k \in StreamKeys |-> 0]
    /\ sweep' = "closing"
    /\ UNCHANGED <<source, call>>

SweepDone ==
    /\ sweep = "closing"
    /\ \A i \in swept : st[i] = "closed"
    /\ sweep' = IF ssClosed THEN "done" ELSE "idle"
    /\ UNCHANGED <<lru, inUse, ssClosed, st, source, call, swept>>

SsNext ==
    \/ \E r \in StreamReaders : Lookup(r) \/ LookupRefused(r) \/ EvictedClosed(r) \/ ReadBegins(r) \/ ReadWorks(r) \/ ReadEnds(r)
    \/ \E i \in StreamIds : SourceOpened(i) \/ StreamCloses(i)
    \/ \E shut \in BOOLEAN : SweepStreams(shut)
    \/ SweepDone

-----------------------------------------------------------------------------
(* Properties                                                              *)

\* Eviction never closes a stream under a call that is reading it: only
\* invalidate and close do.
EvictionSparesReaders ==
    \A r \in StreamReaders :
        call[r].pc \in {"read", "using"} => st[call[r].stream] = "open" \/ call[r].stream \in swept

\* A closed stream holds no source, also not one whose open it overtook, and
\* no stream is forgotten open: it is cached, or the call that
\* evicted it is about to close it; none is cached once close() is over.
StreamsAreReleased ==
    /\ \A i \in StreamIds : st[i] = "closed" => source[i] \in {"none", "closed"}
    /\ \A i \in StreamIds :
          st[i] = "open" => i \in Cached \/ \E r \in StreamReaders : \E n \in DOMAIN call[r].evicted : call[r].evicted[n] = i
    /\ sweep = "done" => Cached = {}

=============================================================================
