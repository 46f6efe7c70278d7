------------------------------ MODULE Readahead ------------------------------
(***************************************************************************)
(* SequentialReadahead (units/content/readahead.py): windows fetched ahead *)
(* of sequential readers of one source.  win holds every window made, by   *)
(* number; bytes are stood for by their offsets.                           *)
(***************************************************************************)
EXTENDS Integers, Sequences, SequencesExt, FiniteSets, FiniteSetsExt

CONSTANTS AheadReaders, AheadSize, MaxAheadReads, ReadLengths,
    AheadStarts,    \* where a read that continues no stream begins
    Trigger, FirstWindow, MaxWindow, MaxBytes, MinWindow, MaxStreams

\* A read of no bytes goes to the source as it is.
ASSUME AheadAssumption ==
    /\ AheadSize \in Nat /\ ReadLengths \subseteq Nat \ {0} /\ AheadStarts \subseteq Nat
    /\ FirstWindow \in Nat /\ MaxWindow \in Nat /\ MaxBytes \in Nat
    /\ MinWindow \in Nat \ {0} /\ MaxStreams \in Nat \ {0}

VARIABLES streams, win, loading, tick, idle, ahead

aheadVars == <<streams, win, loading, tick, idle, ahead>>

Loading == "loading"
Bytes == "bytes"
Lost == "none"
NoRead == [pc |-> "idle", offset |-> 0, end |-> 0, parts |-> <<>>, fetch |-> 0, got |-> <<>>]

AheadInit ==
    /\ streams = <<>> /\ win = <<>> /\ loading = {} /\ tick = 0 /\ idle = FALSE
    /\ ahead = [r \in AheadReaders |-> NoRead]

\* held_bytes: the bytes of the windows the streams have or a read fetches; a lost window holds none.
Windows(strs, load) == load \union UNION {Range(strs[i].windows) : i \in DOMAIN strs}
HeldBytes(strs, ws, load) ==
    UNION {{w} \X (ws[w].start..ws[w].end - 1) : w \in {k \in Windows(strs, load) : ws[k].data # Lost}}
Held(strs, ws, load) == Cardinality(HeldBytes(strs, ws, load))

\* Where a stream's windows meet a range: side by side, as its windows are.
Meeting(q, ws, offset, end) == {k \in DOMAIN q : ws[q[k]].end > offset /\ ws[q[k]].start < end}

\* Mutant: takes windows that end before the range does.
CoveringStart(s, ws, offset, end) ==
    LET q == s.windows
        meets == Meeting(q, ws, offset, end)
    IN IF meets = {} \/ ws[q[Min(meets)]].start > offset THEN <<>> ELSE SubSeq(q, Min(meets), Max(meets))

\* _Stream.covering: all windows that meet the range, if together they cover it.
Covering(s, ws, offset, end) ==
    LET q == s.windows
        meets == Meeting(q, ws, offset, end)
    IN IF meets = {} \/ ws[q[Min(meets)]].start > offset \/ ws[q[Max(meets)]].end < end THEN <<>>
       ELSE SubSeq(q, Min(meets), Max(meets))

\* The stream a read belongs to: the first it continues, else the first it falls into, else a new one in
\* the least recently used one's place.
Follows(offset) == {i \in DOMAIN streams : streams[i].next = offset}
FallsIn(offset) == {i \in DOMAIN streams : \E w \in Range(streams[i].windows) : win[w].start <= offset /\ offset < win[w].end}
WithStream(offset) ==
    LET fresh == [next |-> offset, hits |-> 0, window |-> FirstWindow, windows |-> <<>>, used |-> 0]
        oldest == CHOOSE i \in DOMAIN streams : \A j \in DOMAIN streams : streams[i].used <= streams[j].used
    IN IF Follows(offset) # {} THEN [all |-> streams, at |-> Min(Follows(offset))]
       ELSE IF FallsIn(offset) # {} THEN [all |-> streams, at |-> Min(FallsIn(offset))]
       ELSE LET kept == IF Len(streams) >= MaxStreams THEN RemoveAt(streams, oldest) ELSE streams
            IN [all |-> Append(kept, fresh), at |-> Len(kept) + 1]

\* The stream after a read of [offset, end): windows read past are dropped and double the next one.
Advanced(s, offset, end) ==
    LET past == Cardinality({k \in DOMAIN s.windows : win[s.windows[k]].end <= offset})
        grown == Max({s.window, Min({4 * (end - offset), MaxWindow})})
    IN [s EXCEPT !.used = tick + 1,
                 !.hits = IF s.next = offset THEN @ + 1 ELSE @,
                 !.next = Max({@, end}),
                 !.windows = SubSeq(@, past + 1, Len(@)),
                 !.window = IF past = 0 THEN grown ELSE Min({grown * 2^past, MaxWindow})]

\* _plan, whole: streams, windows and the read's parts and fetch.
Begin(r, pc, offset, end, parts, fetch) ==
    ahead' = [ahead EXCEPT ![r] = [NoRead EXCEPT !.pc = pc, !.offset = offset, !.end = end, !.parts = parts, !.fetch = fetch]]
Frontier(s, offset) == IF s.windows = <<>> THEN offset ELSE win[Last(s.windows)].end
NewWindow(strs, s, frontier, end) ==
    [start |-> frontier, data |-> Loading,
     end |-> frontier + Min({Max({s.window, end - frontier}), MaxBytes - Held(strs, win, loading), AheadSize - frontier})]
Fetches(s, parts, new, end) == parts = <<>> /\ s.hits >= Trigger /\ new.end - new.start >= MinWindow /\ new.end >= end
Plan(r, offset, end) ==
    \E found \in {WithStream(offset)} : \E strs \in {[found.all EXCEPT ![found.at] = Advanced(@, offset, end)]} :
    \E s \in {strs[found.at]} :
    \E parts \in {Covering(s, win, offset, end)}, new \in {NewWindow(strs, s, Frontier(s, offset), end)} :
       IF Fetches(s, parts, new, end)
       THEN LET w == Len(win) + 1
                more == [s EXCEPT !.windows = Append(@, w)]
            IN /\ streams' = [strs EXCEPT ![found.at] = more]
               /\ win' = Append(win, new) /\ loading' = loading \union {w}
               /\ Begin(r, "fetch", offset, end, Covering(more, Append(win, new), offset, end), w)
       ELSE /\ streams' = strs /\ UNCHANGED <<win, loading>>
            /\ Begin(r, IF parts = <<>> THEN "direct" ELSE "parts", offset, end, parts, 0)

\* _read_through
ReadBegins(r, offset, length) ==
    /\ ahead[r].pc = "idle" /\ tick < MaxAheadReads
    /\ tick' = tick + 1 /\ idle' = FALSE
    /\ IF length >= MaxWindow \/ offset + length > AheadSize
       THEN /\ streams' = IF offset + length > AheadSize THEN streams
                          ELSE [i \in DOMAIN streams |-> IF streams[i].next = offset
                                  THEN [streams[i] EXCEPT !.next = offset + length] ELSE streams[i]]
            /\ ahead' = [ahead EXCEPT ![r] = [NoRead EXCEPT !.pc = "direct", !.offset = offset, !.end = offset + length]]
            /\ UNCHANGED <<win, loading>>
       ELSE Plan(r, offset, offset + length)

\* A read is over: the idle timer starts with the last one.
Finish(r) ==
    /\ ahead' = [ahead EXCEPT ![r] = NoRead]
    /\ idle' = \A q \in AheadReaders \ {r} : ahead[q].pc = "idle"
IdleFires ==
    /\ idle /\ idle' = FALSE /\ streams' = <<>>
    /\ UNCHANGED <<win, loading, tick, ahead>>

\* _fetch: the bytes, or a failed or short read.
FetchEnds(r, data) ==
    /\ ahead[r].pc = "fetch"
    /\ win' = [win EXCEPT ![ahead[r].fetch].data = data]
    /\ loading' = loading \ {ahead[r].fetch}
    /\ ahead' = [ahead EXCEPT ![r].pc = IF ahead[r].parts = <<>> THEN "direct" ELSE "parts", ![r].fetch = 0]
    /\ UNCHANGED <<streams, tick, idle>>

\* Cancelled while fetching: the window is lost, and dropped with those appended after it.
DropFrom(s, w) ==
    IF w \notin Range(s.windows) THEN s
    ELSE [s EXCEPT !.windows = SubSeq(@, 1, Min({k \in DOMAIN @ : @[k] = w}) - 1)]
FetchIsCancelled(r) ==
    /\ ahead[r].pc = "fetch"
    /\ win' = [win EXCEPT ![ahead[r].fetch].data = Lost]
    /\ loading' = loading \ {ahead[r].fetch}
    /\ streams' = [i \in DOMAIN streams |-> DropFrom(streams[i], ahead[r].fetch)]
    /\ Finish(r) /\ UNCHANGED tick

\* The next part's data, shielded: its slice, or a direct read when it was lost.
PartArrives(r) ==
    /\ ahead[r].pc = "parts"
    /\ LET a == ahead[r]
           w == win[Head(a.parts)]
           from == Max({a.offset, w.start})
           slice == [k \in 1..Min({a.end, w.end}) - from |-> from + k - 1]
       IN /\ w.data # Loading
          /\ ahead' = [ahead EXCEPT ![r] =
                IF w.data = Lost THEN [a EXCEPT !.pc = "direct", !.parts = <<>>, !.got = <<>>]
                ELSE [a EXCEPT !.parts = Tail(a.parts), !.got = a.got \o slice,
                               !.pc = IF Len(a.parts) = 1 THEN "done" ELSE "parts"]]
    /\ UNCHANGED <<streams, win, loading, tick, idle>>
DirectReads(r) ==
    /\ ahead[r].pc = "direct"
    /\ ahead' = [ahead EXCEPT ![r].pc = "done",
                              ![r].got = [k \in 1..ahead[r].end - ahead[r].offset |-> ahead[r].offset + k - 1]]
    /\ UNCHANGED <<streams, win, loading, tick, idle>>
ReadEnds(r) ==
    /\ ahead[r].pc \in {"done", "parts", "direct"}  \* or is cancelled
    /\ Finish(r) /\ UNCHANGED <<streams, win, loading, tick>>

AheadNext ==
    \/ \E r \in AheadReaders :
          \/ \E length \in ReadLengths, offset \in AheadStarts \union {streams[i].next : i \in DOMAIN streams} : ReadBegins(r, offset, length)
          \/ FetchEnds(r, Bytes) \/ FetchEnds(r, Lost) \/ FetchIsCancelled(r)
          \/ PartArrives(r) \/ DirectReads(r) \/ ReadEnds(r)
    \/ IdleFires

\* A read returns exactly the bytes it asked for, whatever windows were dropped, evicted or lost.
AheadIsExact == \A r \in AheadReaders : ahead[r].pc = "done" =>
    ahead[r].got = [k \in 1..ahead[r].end - ahead[r].offset |-> ahead[r].offset + k - 1]

\* The windows hold at most MaxBytes, each stream's are contiguous, and a window someone awaits is still
\* being fetched by someone.
AheadIsBounded ==
    /\ Held(streams, win, loading) <= MaxBytes
    /\ \A i \in DOMAIN streams : \A k \in DOMAIN streams[i].windows :
          k > 1 => win[streams[i].windows[k]].start = win[streams[i].windows[k - 1]].end
    /\ \A w \in DOMAIN win : win[w].data = Loading => \E r \in AheadReaders : ahead[r].pc = "fetch" /\ ahead[r].fetch = w
=============================================================================
