------------------------------ MODULE UnitTrees ------------------------------
(***************************************************************************)
(* Browsing a version (sdk/units/): the trees of file shares, file maps,   *)
(* VM devices, PC/PS disks and the file systems on them, refs and display  *)
(* names, and how a ref finds its node again (units/resolve.py,            *)
(* units/node_ref.py, api/catalog.py, Repository.locate).                  *)
(*                                                                         *)
(* A node is [ext, name, leaf, handle]; ext are the segments its ref adds  *)
(* to the version's.  A provider p is a record: its kind and the rows the  *)
(* databases give.  A segment and a name are sequences of tokens; those    *)
(* that are sorted by name are one token, ordered as in NameOrder.         *)
(***************************************************************************)
EXTENDS SaasTrees

NoFs == <<>>

(* Refs.  A text is a sequence of tokens; Hex holds what % introduces. *)
Reserved == {"#", "/", "%", "^"}
Hex == [c \in Reserved \union {"@"} |-> CASE c = "#" -> "23" [] c = "/" -> "2F" [] c = "%" -> "25" [] c = "^" -> "01" [] c = "@" -> "40"]
EncodeSegmentNoPercent(seg) == FlattenSeq([i \in DOMAIN seg |-> IF seg[i] \in Reserved \ {"%"} THEN <<"%", Hex[seg[i]]>> ELSE <<seg[i]>>])

EncodeSegment(seg) == FlattenSeq([i \in DOMAIN seg |-> IF seg[i] \in Reserved THEN <<"%", Hex[seg[i]]>> ELSE <<seg[i]>>])
RECURSIVE DecodeSegment(_)
DecodeSegment(t) ==
    IF t = <<>> THEN <<>>
    ELSE IF t[1] = "%" /\ Len(t) > 1 /\ \E c \in DOMAIN Hex : Hex[c] = t[2]
         THEN <<CHOOSE c \in DOMAIN Hex : Hex[c] = t[2]>> \o DecodeSegment(SubSeq(t, 3, Len(t)))
         ELSE <<t[1]>> \o DecodeSegment(Tail(t))

RECURSIVE JoinBy(_, _), SplitBy(_, _)
JoinBy(segs, c) == IF segs = <<>> THEN <<>> ELSE IF Len(segs) = 1 THEN segs[1] ELSE segs[1] \o <<c>> \o JoinBy(Tail(segs), c)
SplitBy(t, c) ==
    LET at == {i \in DOMAIN t : t[i] = c}
    IN IF at = {} THEN <<t>> ELSE <<SubSeq(t, 1, Min(at) - 1)>> \o SplitBy(SubSeq(t, Min(at) + 1, Len(t)), c)

\* NodeRef.__str__ and parse; a ref is [repo, segments, kind].
RefText(ref) ==
    LET encoded == JoinBy([i \in DOMAIN ref.segments |-> EncodeSegment(ref.segments[i])], "/")
    IN ref.repo \o <<"#">> \o
       (IF ref.kind # "human" THEN <<"@">> \o encoded
        ELSE IF encoded # <<>> /\ encoded[1] = "@" THEN <<"%", Hex["@"]>> \o Tail(encoded) ELSE encoded)
ParseRef(t) ==
    LET hash == {i \in DOMAIN t : t[i] = "#"}
        after == SubSeq(t, Min(hash) + 1, Len(t))
        machine == after # <<>> /\ after[1] = "@"
        fragment == IF machine THEN Tail(after) ELSE after
        head == SplitBy(fragment, "/")[1]
        kind == IF ~machine THEN "human" ELSE IF head = <<"raw">> THEN "raw" ELSE IF head # <<>> /\ head[1] = "cat:" THEN "canonical" ELSE "bad"
    IN IF hash = {} \/ kind = "bad" THEN [ok |-> FALSE]
       ELSE [ok |-> TRUE, ref |-> [repo |-> SubSeq(t, 1, Min(hash) - 1), kind |-> kind,
                segments |-> IF fragment = <<>> THEN <<>> ELSE [i \in DOMAIN SplitBy(fragment, "/") |-> DecodeSegment(SplitBy(fragment, "/")[i])]]]
ExtraSegments(ref) == SubSeq(ref.segments, CASE ref.kind = "canonical" -> 4 [] ref.kind = "raw" -> 2 [] OTHER -> 1, Len(ref.segments))
\* canonical_ids: a workload id must be a number.
CanonicalIds(ref) ==
    IF ref.kind # "canonical" \/ Len(ref.segments) < 3 \/ Last(ref.segments[2]) \notin {"1", "2"} THEN <<>>
    ELSE <<Last(ref.segments[1]), Last(ref.segments[2]), Last(ref.segments[3])>>
CanonicalRef(repo, ids, extra) ==
    [repo |-> repo, kind |-> "canonical", segments |-> <<<<"cat:", ids[1]>>, <<"wl:", ids[2]>>, <<"ver:", ids[3]>>>> \o extra]

(* Display names: [name, hint, suffix], the suffix a hash of the id. *)
Displayed(name, hint, suffix) == [name |-> name, hint |-> hint, suffix |-> suffix]
WithSuffixes(objs, candidates) ==
    [i \in DOMAIN objs |->
        IF \E j \in DOMAIN objs \ {i} : candidates[j] = candidates[i]
        THEN [candidates[i] EXCEPT !.suffix = objs[i].id] ELSE candidates[i]]
Disambiguate(objs) ==
    WithSuffixes(objs, [i \in DOMAIN objs |->
        Displayed(objs[i].name, IF \E j \in DOMAIN objs \ {i} : objs[j].name = objs[i].name THEN objs[i].hint ELSE "", <<>>)])
FirstHit(hits) == IF hits = {} THEN 0 ELSE Min(hits)
MatchDisplayName(target, objs) == FirstHit({i \in DOMAIN objs : Disambiguate(objs)[i] = target})
AmbiguousMatches(target, objs) == {i \in DOMAIN objs : Displayed(objs[i].name, "", <<>>) = target}
\* match_or_raise: the index, or an error's name.
Matched(hit, ambiguous) == IF hit # 0 THEN <<"ok", hit>> ELSE IF ambiguous # {} THEN <<"InvalidArgument">> ELSE <<"NotFound">>
MatchOrRaise(target, objs) ==
    Matched(MatchDisplayName(target, objs), AmbiguousMatches(target, objs))

(* Listings *)
DirFirst(x, y) == IF x.leaf # y.leaf THEN y.leaf ELSE Rank(x.name) < Rank(y.name)
ContainersBeforeLeaves(nodes) == SelectSeq(nodes, LAMBDA n : ~n.leaf) \o SelectSeq(nodes, LAMBDA n : n.leaf)

\* FsProvider: rows of entry_table [dir, base, isDir, content].
FsChildren(p, dir) ==
    SetToSortSeq({UNode(Append(dir, r.base), r.base, ~r.isDir,
                        IF r.isDir THEN <<"dir", Append(dir, r.base)>> ELSE IF r.content THEN <<"file", Append(dir, r.base)>> ELSE <<"none">>) :
                    r \in {row \in p.rows : row.dir = dir}}, DirFirst)

\* FileMapTreeProvider: every ancestor prefix of every path.
FileMapIndex(p, prefix) ==
    LET below == {q \in p.paths : Len(q) > Len(prefix) /\ SubSeq(q, 1, Len(prefix)) = prefix}
    IN [dirs |-> {q[Len(prefix) + 1] : q \in {r \in below : Len(r) > Len(prefix) + 1}},
        leaves |-> {q[Len(prefix) + 1] : q \in {r \in below : Len(r) = Len(prefix) + 1}}]
NodesUnder(prefix, names, leaf, tag) == [i \in DOMAIN names |-> UNode(Append(prefix, names[i]), names[i], leaf, <<tag, Append(prefix, names[i])>>)]
FileMapChildren(p, prefix) ==
    LET byName(x, y) == Rank(x) < Rank(y)
    IN NodesUnder(prefix, SetToSortSeq(FileMapIndex(p, prefix).dirs, byName), FALSE, "prefix")
       \o NodesUnder(prefix, SetToSortSeq(FileMapIndex(p, prefix).leaves, byName), TRUE, "path")

\* DiskFsTree: the "(filesystem)" sibling of an image, its partitions, their directories.
FsRootNode(image, key) == UNode(Append(image.ext, <<"fs">>), Append(image.name, "fs"), FALSE, <<"fsroot", Append(image.ext, <<"fs">>), key>>)
DiskFsChildren(p, h) ==
    LET fs == p.fs[h[3]]
    IN IF fs = NoFs THEN <<UNode(Append(h[2], <<"diagnostic">>), <<"diagnostic">>, TRUE, <<"fsdiag">>)>>
       ELSE IF h[1] = "fsroot"
       THEN [i \in DOMAIN fs |-> UNode(Append(h[2], fs[i].addr), fs[i].addr, FALSE, <<"fsdir", Append(h[2], fs[i].addr), h[3], i, <<>>>>)]
       ELSE SetToSortSeq({UNode(Append(h[2], e.name), e.name, ~e.isDir,
                                <<IF e.isDir THEN "fsdir" ELSE "fsfile", Append(h[2], e.name), h[3], h[4], Append(h[5], e.name)>>) :
                            e \in {x \in fs[h[4]].entries : x.dir = h[5]}}, DirFirst)

\* DeviceProvider, VM: devices by host name; a dedup object the reader supports also has its file system.
NodesOfDevices(sorted) == [i \in DOMAIN sorted |-> UNode(<<sorted[i].id>>, sorted[i].host, FALSE, <<"device", sorted[i].id>>)]
DeviceNodes(p) == NodesOfDevices(SetToSortSeq(p.devices, LAMBDA x, y : Rank(x.host) < Rank(y.host) \/ (x.host = y.host /\ Rank(x.id) < Rank(y.id))))
NodesOfObjects(rows, device) ==
    LET nodes(o) == LET image == UNode(<<device, o.id>>, o.id, TRUE, <<"object", o.id>>)
                    IN IF o.dedup /\ o.format = "dedup" THEN <<image, FsRootNode(image, o.id)>> ELSE <<image>>
    IN ContainersBeforeLeaves(FlattenSeq([i \in DOMAIN rows |-> nodes(rows[i])]))
VmObjectNodes(p, device) ==
    NodesOfObjects(SetToSortSeq({o \in p.objects : o.device = device /\ ~o.temp}, LAMBDA x, y : Rank(x.id) < Rank(y.id)), device)

\* PcpsDiskTree: fragments grouped by disk; a name that does not parse is a disk of its own.
Single == "_single"
DiskKey(p, fid) == IF p.meta[fid].disk = "" THEN <<Single, fid>> ELSE <<p.meta[fid].disk, p.meta[fid].index>>
\* A negative index stands for one that is no number.
DiskSortKey(key) == IF key[1] = Single THEN <<1, key[2], 0>> ELSE IF key[2] < 0 THEN <<1, -1, Rank(key)>> ELSE <<0, key[2], Rank(key)>>
Before(x, y) == x[1] < y[1] \/ (x[1] = y[1] /\ (x[2] < y[2] \/ (x[2] = y[2] /\ x[3] < y[3])))
KeyBefore(a, b) == Before(DiskSortKey(a), DiskSortKey(b))
Resolved(p) == {f \in Range(p.fids) : f \in DOMAIN p.meta}
NeverResolved(p) == SelectSeq(p.fids, LAMBDA f : f \notin DOMAIN p.meta)
FragmentsOf(p, key) == {f \in Resolved(p) : DiskKey(p, f) = key}
DiskNodes(key) ==
    LET disk == UNode(<<key>>, <<IF key[1] = Single THEN "file" ELSE "Disk", key[2]>>, TRUE, <<"disk", key>>)
    IN <<disk, FsRootNode(disk, key)>>
NodesOfDisks(keys) == ContainersBeforeLeaves(FlattenSeq([i \in DOMAIN keys |-> DiskNodes(keys[i])]))
BuildNodes(p) == NodesOfDisks(SetToSortSeq({DiskKey(p, f) : f \in Resolved(p)}, KeyBefore))
WithMissing(p, nodes, offset, limit) ==
    IF NeverResolved(p) # <<>> /\ offset = 0 /\ (limit = AllOf \/ Len(nodes) < limit)
    THEN Append(nodes, UNode(<<<<"missing">>>>, <<"missing">>, TRUE, <<"pcpsdiag">>)) ELSE nodes
PcpsObjectNodes(p, offset, limit) == WithMissing(p, Paginate(BuildNodes(p), offset, limit), offset, limit)

\* open_disk: what resolves in file_map is assembled; the rest reads as zeros and makes it degraded.
OpenDisk(p, key) ==
    LET opened == {f \in FragmentsOf(p, key) : f \in p.map}
    IN [ok |-> opened # {}, err |-> "NotFound", fragments |-> opened, degraded |-> opened # FragmentsOf(p, key)]

\* UnitProvider.root, children and unit.
Root(p) ==
    IF p.kind \in SaasKinds \union {"raw", "composite"} THEN SaasRoot
    ELSE UNode(<<>>, <<"root">>, FALSE, CASE p.kind = "fs" -> <<"dir", <<>>>> [] p.kind = "map" -> <<"prefix", <<>>>>
                                 [] p.kind = "vm" -> <<"vmroot">> [] p.kind = "pcps" -> <<"pcpsroot">>)
Children(p, n, offset, limit) ==
    LET h == n.handle
    IN CASE p.kind \in SaasKinds -> TreeBackedChildren(p, n, offset, limit)
         [] p.kind = "raw" -> IF n.leaf THEN <<>> ELSE RawChildren(p, offset, limit)
         [] p.kind = "composite" -> CompositeChildren(p, n, offset, limit)
         [] h[1] = "dir" -> Paginate(FsChildren(p, h[2]), offset, limit)
         [] h[1] = "prefix" -> Paginate(FileMapChildren(p, h[2]), offset, limit)
         [] h[1] = "vmroot" -> Paginate(DeviceNodes(p), offset, limit)
         [] h[1] = "device" -> Paginate(VmObjectNodes(p, h[2]), offset, limit)
         [] h[1] = "pcpsroot" -> PcpsObjectNodes(p, offset, limit)
         [] h[1] \in {"fsroot", "fsdir"} -> Paginate(DiskFsChildren(p, h), offset, limit)
         [] OTHER -> <<>>
\* What opening a node gives: the fragments, objects or paths it reads, or the error.
UnitOf(p, n) ==
    LET h == n.handle
        good == [ok |-> TRUE, degraded |-> FALSE]
        bad(e) == [ok |-> FALSE, err |-> e]
    IN CASE p.kind \in SaasKinds -> SaasUnitOf(p, n)
         [] h[1] = "tagged" -> SaasUnitOf(p.subs[CHOOSE i \in DOMAIN p.subs : p.subs[i].tag = h[2]], h[3])
         [] h[1] \in {"file", "path", "range"} -> good
         [] h[1] = "object" -> LET o == CHOOSE x \in p.objects : x.id = h[2] IN
               IF o.dedup /\ o.format # "dedup" THEN bad("Unsupported") ELSE IF o.dedup /\ ~o.mapped THEN bad("NotFound") ELSE good
         [] h[1] = "disk" -> OpenDisk(p, h[2])
         [] h[1] = "fsfile" \/ h[1] = "fsdir" -> IF p.fs[h[3]] = NoFs THEN bad("NotFound") ELSE good
         [] h[1] \in {"pcpsdiag", "fsdiag", "unreadable"} -> bad("NotFound")
         [] OTHER -> bad("NotRestorable")

(* units/resolve.py *)
RECURSIVE IterPages(_, _, _), IterPagesShort(_, _, _), PageThenRest(_, _, _, _)
\* As if a page with one item less than asked for were the last one.
IterPagesShort(p, n, offset) ==
    LET page == Children(p, n, offset, PageSize)
    IN IF Len(page) <= PageSize THEN page ELSE page \o IterPagesShort(p, n, offset + PageSize)

PageThenRest(p, n, offset, page) == IF Len(page) < PageSize THEN page ELSE page \o IterPages(p, n, offset + PageSize)
IterPages(p, n, offset) == PageThenRest(p, n, offset, Children(p, n, offset, PageSize))
AllChildren(p, n) == IterPages(p, n, 0)

MatchingIn(children, target) ==
    LET exact == {i \in DOMAIN children : children[i].ext = target}
    IN IF exact # {} THEN <<children[Min(exact)]>>
       ELSE SelectSeq(children, LAMBDA c : ~c.leaf /\ Len(c.ext) < Len(target) /\ IsPrefix(c.ext, target))
ChildrenMatching(p, n, target) == MatchingIn(AllChildren(p, n), target)

\* The chain from n to the node of ref target, <<>> when there is none; candidates are tried in turn.
FirstChain(n, chains) ==
    LET found == {i \in DOMAIN chains : chains[i] # <<>>} IN IF found = {} THEN <<>> ELSE <<n>> \o chains[Min(found)]
RECURSIVE Descend(_, _, _), DescendInto(_, _, _)
DescendInto(p, candidates, target) == [i \in DOMAIN candidates |-> Descend(p, candidates[i], target)]
Descend(p, n, target) ==
    IF n.ext = target THEN <<n>>
    ELSE IF n.leaf THEN <<>>
    ELSE FirstChain(n, DescendInto(p, ChildrenMatching(p, n, target), target))
\* A drive finds its nodes by their id, and their ancestors upwards.
RECURSIVE DirectAncestorChain(_, _)
DirectAncestorChain(p, found) ==
    IF found = <<>> THEN <<>> ELSE DirectAncestorChain(p, ParentOf(p, found[1])) \o found
LastOf(chain) == IF chain = <<>> THEN <<>> ELSE <<Last(chain)>>
FindNode(p, target) == IF p.kind = "drive" THEN ResolveExtra(p, target) ELSE LastOf(Descend(p, Root(p), target))
FindPath(p, target) == IF p.kind = "drive" THEN DirectAncestorChain(p, ResolveExtra(p, target)) ELSE Descend(p, Root(p), target)
WithChildren(p, chain) == [chain |-> chain, steps |-> [i \in 1..Len(chain) - 1 |-> AllChildren(p, chain[i])]]
FindPathWithChildren(p, target) == WithChildren(p, FindPath(p, target))

(* Repository.locate: a store is its catalogs, their workloads, their versions, each with its provider.  *)
(* opened counts the providers a call built, released those it gave up.                                  *)
Located(frame, opened, released) == [frame |-> frame, opened |-> opened, released |-> released]
Named(children) == [i \in DOMAIN children |-> [name |-> children[i].name, id |-> children[i].ext, hint |-> ""]]
RECURSIVE WalkNames(_, _, _), WalkInto(_, _, _, _)
WalkInto(p, children, hit, names) == IF hit[1] = "ok" THEN WalkNames(p, children[hit[2]], names) ELSE hit
WalkDown(p, children, names) == WalkInto(p, children, MatchOrRaise(names[1], Named(children)), Tail(names))
WalkNames(p, n, names) ==
    IF names = <<>> THEN <<"ok", n>>
    ELSE IF n.leaf THEN <<"NotFound">>
    ELSE WalkDown(p, Children(p, n, 0, AllOf), names)
\* Catalog.locate; the walk's failure releases the provider nobody else knows.
NodeLocated(ids, walk) == IF walk[1] = "ok" THEN Located(<<"node", ids, walk[2]>>, 1, 0) ELSE Located(walk, 1, 1)
VersionLocated(c, w, hit, names) ==
    IF hit[1] # "ok" THEN Located(hit, 0, 0)
    ELSE LET v == w.versions[hit[2]] IN NodeLocated(<<c.id, w.id, v.id>>, WalkNames(v.provider, Root(v.provider), SubSeq(names, 3, Len(names))))
WorkloadLocated(c, hit, names) ==
    IF hit[1] # "ok" THEN Located(hit, 0, 0)
    ELSE IF Len(names) = 1 THEN Located(<<"workload", c.workloads[hit[2]].id>>, 0, 0)
    ELSE VersionLocated(c, c.workloads[hit[2]], MatchOrRaise(names[2], c.workloads[hit[2]].versions), names)
CatalogLocate(c, names) == WorkloadLocated(c, MatchOrRaise(names[1], c.workloads), names)
CatalogLocated(store, hit, names) ==
    IF hit[1] # "ok" THEN Located(hit, 0, 0)
    ELSE IF Len(names) = 1 THEN Located(<<"catalog", store[hit[2]].id>>, 0, 0)
    ELSE CatalogLocate(store[hit[2]], Tail(names))
LocateHuman(store, names) == IF names = <<>> THEN Located(<<"root">>, 0, 0) ELSE CatalogLocated(store, MatchOrRaise(names[1], store), names)
\* resolve: a human ref has to name a version.
ResolveHuman(store, names) == IF Len(names) < 3 THEN Located(<<"InvalidArgument">>, 0, 0) ELSE LocateHuman(store, names)
\* _locate_canonical_ref and version_by_uid: by ids, and only where all three belong together.
FoundNode(ids, found) == IF found = <<>> THEN Located(<<"NotFound">>, 1, 1) ELSE Located(<<"node", ids, found[1]>>, 1, 0)
LocateIn(versions, ids, extra) ==
    IF versions = {} THEN Located(<<"NotFound">>, 0, 0) ELSE FoundNode(ids, FindNode((CHOOSE v \in versions : TRUE).provider, extra))
LocateCanonical(store, ids, extra) ==
    LocateIn({v \in UNION {UNION {Range(w.versions) : w \in {x \in Range(c.workloads) : x.id = ids[2]}} : c \in {x \in Range(store) : x.id = ids[1]}} : v.id = ids[3]},
             ids, extra)

-----------------------------------------------------------------------------
RECURSIVE Below(_, _)
Below(p, n) == {n} \union UNION {Below(p, c) : c \in Range(Children(p, n, 0, AllOf))}
\* All nodes but the note on missing fragments when a full first page leaves no room for it.
Listed(p) == {n \in Below(p, Root(p)) : n.handle # <<"pcpsdiag">> \/ Len(BuildNodes(p)) < PageSize}

\* Every node a version lists is found again by its ref, along a path whose levels are complete, in pages
\* of any size; no other ref finds anything.  Two nodes may share a ref only in the raw file map; the
\* ref of a drive's root finds nothing.
RefsFindTheirNodes(p, refs) ==
    \A nodes \in {Listed(p)} :
       /\ \A n \in {m \in nodes : p.kind # "drive" \/ m # SaasRoot} :
            /\ \A found \in {FindNode(p, n.ext)} :
                  /\ found # <<>> /\ found[1].ext = n.ext
                  /\ (\A m \in nodes : m.ext = n.ext => m = n) => found = <<n>>
            /\ \A path \in {FindPathWithChildren(p, n.ext)} : \A i \in DOMAIN path.steps :
                  /\ path.chain[i + 1] \in Range(path.steps[i])
                  /\ path.chain[i].handle # <<"pcpsroot">> => path.steps[i] = Children(p, path.chain[i], 0, AllOf)
       /\ p.kind # "map" => Cardinality({n.ext : n \in nodes}) = Cardinality(nodes)
       /\ \A r \in refs : (\A n \in nodes : n.ext # r) => FindNode(p, r) = <<>>

\* A registered fragment is in exactly one disk or in the note on what is missing; a disk opens while one
\* of its fragments is there, and says when one is not.
FragmentsAreAccounted(p) ==
    LET keys == {n.handle[2] : n \in {m \in Range(BuildNodes(p)) : m.handle[1] = "disk"}}
    IN /\ \A f \in Range(p.fids) :
            Cardinality({k \in keys : f \in FragmentsOf(p, k)}) = (IF f \in Range(NeverResolved(p)) THEN 0 ELSE 1)
       /\ \A k \in keys : LET u == OpenDisk(p, k) IN
            /\ u.ok <=> FragmentsOf(p, k) \cap p.map # {}
            /\ u.ok => u.fragments = FragmentsOf(p, k) \cap p.map /\ (u.degraded <=> FragmentsOf(p, k) \ p.map # {})

\* str() and parse() are inverse: a ref copied from a listing is that ref.
RefsRoundTrip(ref) ==
    /\ ParseRef(RefText(ref)) = [ok |-> TRUE, ref |-> ref]
    /\ ref.kind = "canonical" => CanonicalRef(ref.repo, CanonicalIds(ref), ExtraSegments(ref)) = ref

\* The names a listing shows lead to the node they were shown for, a name that several share is refused,
\* the canonical ref leads to the same node, and a provider that is not handed out is released.
ShownName(level, child) == (CHOOSE x \in {<<level[j], Disambiguate(Named(level))[j]>> : j \in DOMAIN level} : x[1] = child)[2]
ShownAlong(p, chain) == [i \in 1..Len(chain) - 1 |-> ShownName(Children(p, chain[i], 0, AllOf), chain[i + 1])]
RefsLeadBack(store, ids, names, p) ==
    \A n \in Listed(p) :
       \A byRef \in {LocateCanonical(store, ids, n.ext)}, byName \in {ResolveHuman(store, names \o ShownAlong(p, Descend(p, Root(p), n.ext)))} :
          /\ byRef.frame = <<"node", ids, n>> /\ byName.frame = byRef.frame
          /\ byName.opened = 1 /\ byName.released = 0
NamesLeadBack(store, c, w, v) ==
    \A names \in {<<Disambiguate(store)[c], Disambiguate(store[c].workloads)[w], Disambiguate(store[c].workloads[w].versions)[v]>>} :
    LET version == store[c].workloads[w].versions[v]
        plain == Displayed(store[c].name, "", <<>>)
    IN /\ RefsLeadBack(store, <<store[c].id, store[c].workloads[w].id, version.id>>, names, version.provider)
       /\ \A k \in 0..3 : LocateHuman(store, SubSeq(names, 1, k)).frame[1] = <<"root", "catalog", "workload", "node">>[k + 1]
       /\ \A lost \in {ResolveHuman(store, Append(names, Displayed(<<"nowhere">>, "", <<>>)))} :
             lost.frame[1] = "NotFound" /\ lost.opened = lost.released
       /\ (\E c2 \in DOMAIN store \ {c} : store[c2].name = store[c].name) =>
             LocateHuman(store, <<plain>>).frame \in {<<"InvalidArgument">>}
                 \union {<<"catalog", store[c2].id>> : c2 \in {x \in DOMAIN store : Disambiguate(store)[x] = plain}}
=============================================================================
