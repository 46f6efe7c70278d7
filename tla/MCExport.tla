------------------------------ MODULE MCExport ------------------------------
(* One run over what a user sees and exports: version trees and refs, the   *)
(* catalog's rows, folder and disk exports, file primitives, the files      *)
(* inside a disk image and assembled items.  The parts share no state here, *)
(* so part picks the one that moves; probe holds the input of pure          *)
(* operators.                                                               *)
EXTENDS TreeExport, ExportScheduler, UnitTrees, CatalogRows, DiskContents, ItemContents, TLC

VARIABLES part, probe

(* Folders to export, and disks they are exported to *)
Nm(s, c, k) == [stem |-> s, spelling |-> c, num |-> 1, part |-> k]
Nd(d, n, leaf, synth) == [depth |-> d, name |-> n, leaf |-> leaf, synth |-> synth, kind |-> "plain", safe |-> TRUE, empty |-> FALSE]
MCLeaves == {Nd(d, Nm("a", c, 0), TRUE, y) : d \in 0..1, c \in 0..1, y \in BOOLEAN}
            \union {Nd(0, Nm("b", 0, 0), TRUE, FALSE), Nd(1, Nm("b", 0, 0), TRUE, TRUE)}
            \union {[Nd(0, Nm("c", 0, 0), TRUE, FALSE) EXCEPT !.kind = k] : k \in {"fs", "missing"}}
            \union {[Nd(1, Nm("c", 0, 0), TRUE, FALSE) EXCEPT !.empty = TRUE], [Nd(0, Nm("c", 0, 0), TRUE, FALSE) EXCEPT !.safe = FALSE]}
MCDirs == {[Nd(0, Nm("a", c, 0), FALSE, FALSE) EXCEPT !.safe = (c = 0)] : c \in 0..1}
MCTrees == {<<x, y, z>> : x \in {l \in MCLeaves : l.depth = 0}, y \in MCDirs, z \in MCLeaves}
           \union {<<Nd(0, Nm("a", 1, 0), FALSE, FALSE), xz[1], xz[2]>> : xz \in {p \in MCLeaves \X MCLeaves : p[1].depth >= p[2].depth}}
MCPartTrees == {<<Nd(0, Nm("a", 0, 1), TRUE, FALSE), Nd(0, Nm("a", 0, 0), TRUE, FALSE)>>}
A0 == <<Nm("a", 0, 0)>>
MCDisks == {<<>>, (<<Nm("a", 1, 0)>> :> <<"user">>), (A0 :> <<"dir">>) @@ (<<Nm("a", 0, 0), Nm("b", 0, 0)>> :> <<"user">>)}
MCNames == UNION {[1..n -> {"/", ":", ".", " ", "c", "x"}] : n \in 0..3}

(* Disks of two fragments and sinks *)
Fr(a, b, p, cs) == [start |-> a, end |-> b, pool |-> p, cell |-> [x \in a..b - 1 |-> cs[x + 1]]]
Cells == {<<"d", "d", "d", "d", "d">>, <<"h", "d", "z", "d", "d">>}
MCContents == {[size |-> 5, frags |-> <<Fr(a, b, p, ca), Fr(c, 5, q, <<"d", "d", "d", "z", "d">>)>>] :
                a \in {0, 1}, b \in {3, 5}, c \in {1, 2, 4}, p \in {"p", "none"}, q \in {"p", "q"}, ca \in Cells}
MCSinks == {[seg |-> s, worker |-> w, sparse |-> y, reserved |-> r] : s \in {0, 3}, w \in BOOLEAN, y \in BOOLEAN, r \in BOOLEAN}
MCTunings == {[workers |-> w, executor |-> e] : w \in {0, 2}, e \in {NoExec, [pool |-> "p", dst |-> "dst"]}}

(* Version trees, refs and catalogs *)
MCNameOrder == <<"a", "b", "c", "u", "v", "x", "y", "z">>
T(s) == <<s>>
Fs1 == <<[addr |-> T("a"), entries |-> {[dir |-> <<>>, name |-> T("b"), isDir |-> TRUE], [dir |-> <<>>, name |-> T("a"), isDir |-> FALSE], [dir |-> <<T("b")>>, name |-> T("a"), isDir |-> FALSE]}]>>
Fs2 == Fs1 \o <<[addr |-> T("b"), entries |-> {}]>>
MCFsRows == {[dir |-> d, base |-> T(b), isDir |-> i, content |-> c] : d \in {<<>>, <<T("b")>>}, b \in {"a", "b", "c"}, i \in {TRUE}, c \in {TRUE}}
MCFsTrees == {[kind |-> "fs", rows |-> {[dir |-> <<>>, base |-> T("b"), isDir |-> TRUE, content |-> FALSE]} \union {[dir |-> r.dir, base |-> r.base, isDir |-> FALSE, content |-> c] : r \in s}] :
     s \in SUBSET {x \in MCFsRows : x.dir # <<>> \/ x.base # T("b")}, c \in BOOLEAN}
MCMapTrees == {[kind |-> "map", paths |-> s] : s \in {x \in SUBSET {<<T("a")>>, <<T("a"), T("b")>>, <<T("a"), T("c")>>, <<T("b")>>, <<T("c"), T("a"), T("b")>>} : Cardinality(x) <= 4}}
Obj(d, i, f, x, m, t) == [device |-> d, id |-> i, format |-> f, dedup |-> x, mapped |-> m, temp |-> t]
MCVmTrees == {[kind |-> "vm", devices |-> {[id |-> T("a"), host |-> T("b")], [id |-> T("b"), host |-> h]},
   objects |-> {Obj(T("a"), T("a"), f, x, m, FALSE), Obj(T("a"), T("b"), "dedup", TRUE, TRUE, t), Obj(T("b"), T("c"), "dedup", TRUE, TRUE, FALSE)},
   fs |-> (T("a") :> NoFs) @@ (T("b") :> Fs1) @@ (T("c") :> fs)] :
   h \in {T("a"), T("b")}, f \in {"dedup", "cbt"}, x \in BOOLEAN, m \in BOOLEAN, t \in BOOLEAN, fs \in {NoFs, Fs1, Fs2}}
Meta(d, i) == [disk |-> d, index |-> i]
MCPcpsTrees == {[kind |-> "pcps", fids |-> <<1, 2, 3>>, meta |-> m, map |-> map,
     fs |-> [k \in {<<"u", 0>>, <<"v", 0>>, <<"u", -1>>, <<"v", 1>>} \union {<<"_single", f>> : f \in 1..3} |-> IF k[1] = "v" THEN Fs1 ELSE NoFs]] :
     m \in UNION {[s -> {Meta("u", 0), Meta("v", 0), Meta("", 0), Meta("u", -1)}] : s \in SUBSET (1..3)}, map \in SUBSET (1..3)}
MCRefs == {<<T("a"), T("x")>>, <<T("fs")>>, <<T("a"), T("a"), T("fs"), T("a"), T("b"), T("x")>>, <<T("c"), T("a"), T("b"), T("a")>>}
Chars == {"a", "#", "/", "%", "25", "@"}
Segs == UNION {[1..n -> Chars] : n \in 0..2}
MCTexts == {[repo |-> <<"r">>, kind |-> "human", segments |-> s] : s \in {<<>>} \union {<<x>> : x \in Segs \ {<<>>}} \union {<<x, y>> : x \in Segs, y \in {<<"a">>, <<"%", "25">>, <<>>}}}
   \union {CanonicalRef(<<"r">>, <<"1", "2", "3">>, e) : e \in {<<>>} \union {<<x>> : x \in Segs}}
   \union {[repo |-> <<"r">>, kind |-> "raw", segments |-> <<<<"raw">>>> \o e] : e \in {<<x>> : x \in Segs}}
O(n, i, h, rest) == [name |-> <<n>>, id |-> <<i>>, hint |-> h] @@ rest
SmallTrees == {[kind |-> "map", paths |-> {<<T("a")>>, <<T("b"), T("a")>>}],
  [kind |-> "pcps", fids |-> <<1, 2, 3>>, meta |-> (1 :> Meta("u", 0)) @@ (2 :> Meta("v", 0)), map |-> {1}, fs |-> (<<"u", 0>> :> NoFs) @@ (<<"v", 0>> :> Fs1)]}
MCStores == {<<O(c1, "1", "", [workloads |-> <<O(w1, "1", h1, [versions |-> <<O(v1, "1", "", [provider |-> p]), O("a", "2", "", [provider |-> p])>>]),
                                            O("a", "2", h2, [versions |-> <<O(v1, "3", "", [provider |-> p])>>])>>]),
               O("a", "2", "", [workloads |-> <<O(w1, "3", h1, [versions |-> <<O(v1, "4", "", [provider |-> p])>>])>>])>> :
               c1 \in {"a", "b"}, w1 \in {"a", "b"}, v1 \in {"a", "b"}, h1 \in {"", "mail"}, h2 \in {"", "mail", "drive"}, p \in SmallTrees}
Thing(i, n, rest) == [id |-> T(i), name |-> T(n)] @@ rest
MCDrives == {[kind |-> "drive", root |-> T("u"), objects |-> {T("a")},
      rows |-> {Thing("a", na, [parent |-> T("u"), folder |-> TRUE, object |-> Null]), Thing("b", nb, [parent |-> pb, folder |-> TRUE, object |-> Null]),
                Thing("c", "a", [parent |-> pc, folder |-> FALSE, object |-> o])}] :
      na \in {"a", "b"}, nb \in {"a", "b"}, pb \in {T("u"), T("a"), T("v")}, pc \in {T("u"), T("a"), T("b"), T("v")}, o \in {Null, T("a"), T("b")}}
FolderTables == {[columns |-> {}], [columns |-> {"folder_id", "folder_name"}], [columns |-> {"folder_id", "folder_name", "parent_folder_id", "is_root"}]}
MCMails == {[kind |-> k, m365 |-> m, folderTable |-> ft, root |-> r,
             folders |-> {Thing("a", nb, [parent |-> T("u")]), Thing("b", nb, [parent |-> pb])},
             rows |-> {Thing("x", "a", [group |-> ga]), Thing("y", "b", [group |-> gb]), Thing("z", "a", [group |-> T("a")])}] :
      k \in {"mail", "contact"}, m \in BOOLEAN, ft \in FolderTables, r \in {Null, T("u")}, nb \in {"a", "c"}, pb \in {T("u"), T("a")},
      ga \in {Null, T("a"), T("u")}, gb \in {Null, T("a"), T("b"), T("v")}}
MCCalendars == {[kind |-> "calendar", groups |-> {Thing("a", "b", [override |-> o, other |-> x]), Thing("b", nb, [override |-> Null, other |-> y])},
                 rows |-> {Thing("a", "a", [group |-> ga]), Thing("b", "a", [group |-> gb]), Thing("c", "b", [group |-> T("a")])}] :
      o \in {Null, T("c")}, x \in BOOLEAN, y \in BOOLEAN, nb \in {"a", "b"}, ga \in {T("a"), T("b"), T("v")}, gb \in {T("a"), T("b")}}
MCSites == {[kind |-> "site", objects |-> {T("a")},
             groups |-> {Thing("a", "b", [override |-> Null, other |-> FALSE, rootFolder |-> T("u")]), Thing("b", "a", [override |-> Null, other |-> x, rootFolder |-> Null])},
             rows |-> {Thing("a", "a", [group |-> ga, parent |-> pa, folder |-> TRUE, meta |-> Null, object |-> Null]),
                       Thing("b", nb, [group |-> gb, parent |-> pb, folder |-> FALSE, meta |-> m, object |-> T("b")]),
                       Thing("c", "b", [group |-> T("a"), parent |-> T("u"), folder |-> FALSE, meta |-> T("a"), object |-> T("a")])}] :
      x \in BOOLEAN, ga \in {T("a"), T("b")}, pa \in {T("u"), Null}, nb \in {"a", "b"}, gb \in {T("a"), T("b")}, pb \in {T("u"), T("a"), Null}, m \in {Null, T("a")}}
MCTeams == {[kind |-> "teams", channels |-> c, types |-> t, rows |-> {Thing("a", na, <<>>), Thing("b", "b", <<>>), Thing("c", "a", <<>>)}] :
      c \in BOOLEAN, na \in {"a", "b"}, t \in UNION {[s -> {<<"private">>, <<"odd">>}] : s \in SUBSET {T("a"), T("b")}}}
MCRaws == {[kind |-> "raw", manual |-> m, index |-> i, objects |-> o, names |-> <<[name |-> T("b"), object |-> T("a")], [name |-> T("a"), object |-> T("b")], [name |-> T("c"), object |-> T("a")]>>] :
      m \in BOOLEAN, i \in {"ok", "unreadable", "none"}, o \in SUBSET {T("a"), T("b"), T("c")}}
MCComposites == {[kind |-> "composite", subs |-> <<m @@ [tag |-> <<"mail">>], c @@ [tag |-> <<"calendar">>]>>] :
      m \in {x \in MCMails : x.m365 /\ x.kind = "mail" /\ x.rows = {Thing("x", "a", [group |-> T("a")]), Thing("y", "b", [group |-> T("b")]), Thing("z", "a", [group |-> T("a")])}},
      c \in {x \in MCCalendars : \A g \in x.groups : g.override = Null}}
MCSaas == MCDrives \union MCMails \union MCCalendars \union MCSites \union MCTeams

(* Rows of the catalog databases *)
Spec_(e, j, s) == [enc |-> e, json |-> j, status |-> s]
Status(s, a, b) == [status |-> s, start |-> a, end |-> b]
MCSpecs == {Spec_(Plain, TRUE, NoStatus), Spec_(Plain, FALSE, NoStatus), Spec_("k", TRUE, Status(<<"str", "COMPLETED">>, <<"digits", 7>>, <<"int", 9>>)),
            Spec_(Plain, TRUE, Status(<<"str", "RUNNING">>, <<"int", 5>>, <<"null">>)), Spec_(Plain, TRUE, Status(<<"int", 1>>, <<"int", 5>>, <<"null">>))}
           \union {Spec_(Plain, TRUE, Status(<<"str", s>>, a, b)) :
                s \in {"PARTIAL", "CANCELED"}, a \in {<<"int", 5>>, <<"digits", 0>>, <<"text">>}, b \in {<<"int", 5>>, <<"digits", 7>>, <<"bool">>}}
Row(i, w, c, d, s) == [id |-> i, uid |-> <<"u", i>>, workload |-> w, conn |-> c, deleted |-> d, spec |-> s]
MCMetas == {[uid |-> <<"u", 1>>, pathOk |-> p, statusOk |-> TRUE, path |-> path, files |-> f] :
             p \in BOOLEAN, path \in {<<"m", "x">>, <<"m", "x", "">>, <<"", "">>, <<"m", "..">>}, f \in {<<"array", {"target.db"}>>, <<"array", {}>>, <<"corrupt", {}>>}}
MCRowSets == {{Row(1, "w", "1", d, s), Row(2, "w", "1", FALSE, t), Row(3, "v", "2", FALSE, t)} : d \in BOOLEAN, s \in MCSpecs, t \in MCSpecs}
MCVersions == [kind : {"versions"}, rows : MCRowSets, metas : {{m} : m \in {x \in MCMetas : x.pathOk}}, key : {Plain}, deleted : BOOLEAN]
              \union [kind : {"versions"}, rows : MCRowSets, metas : {{}, {CHOOSE m \in MCMetas : ~m.pathOk}}, key : {Plain, "k"}, deleted : {FALSE}]
Config(i, t, s, n, u, info) == [id |-> i, type |-> t, sub |-> s, namespace |-> n, name |-> n, user |-> u, info |-> info]
MCConfigs == {{Config("w", t, s, n, u, i), Config("v", "PC", "", "", <<>>, <<>>)} :
               t \in {"VM", "GWS", "ODD"}, s \in {"", "DRIVE"}, n \in {"", "n"}, u \in {<<>>, <<"a", "b">>, <<"", "b">>, <<"", "">>}, i \in {<<>>, <<"", "m">>}}
MCLinks == {<<>>, <<<<"1", "l">>>>, <<<<"1", "l", "a">>>>, <<<<"2", "l", "b">>, <<"2", "l">>>>}
MCConnections == [kind : {"connections"}, conns : {{"1", "2"}, {"1", "2", "3"}}, links : MCLinks, configs : MCConfigs,
                  rows : {{Row(1, "w", "1", FALSE, Spec_(Plain, FALSE, NoStatus)), Row(2, w, c, TRUE, Spec_(Plain, FALSE, NoStatus))} : w \in {"w", "v", "x"}, c \in {"1", "2"}}]

(* Files *)
MCFiles == {<<>>, <<1>>, <<1, 2, 3>>}
MCTransfers == [kind : {"transfer"}, file : MCFiles, data : {<<>>, <<7>>, <<7, 8, 9>>}, offset : 0..4, step : 0..3]
MCZeroings == {z \in [kind : {"zeroing"}, offset : 0..5, length : 0..5, disabled : BOOLEAN, err : {"", "EOPNOTSUPP", "EIO"}] : z.offset + z.length <= 5}
MCReserves == [kind : {"reserve"}, size : 0..3, platform : {"mac", "posix", "none"}, err : {"", "EOPNOTSUPP", "ENOSPC"}]

(* Disk images and the files in them *)
Vol(i, n, root) == [id |-> i, name |-> n, lastMount |-> "m", root |-> root]
Part(f, n, t, vols) == [format |-> f, name |-> n, typeName |-> t, type |-> "7", volumes |-> vols]
MCParts == {Part(f, n, "Unknown", <<Vol(1, v, TRUE)>>) : f \in {"ntfs", "extfs", "swap"}, n \in {"", "p"}, v \in {"", "v"}}
           \union {Part("apfs", "", "APFS", <<Vol(1, n, r), Vol(2, "", TRUE)>>) : n \in {"", "v"}, r \in BOOLEAN} \union {Part("apfs", "", "APFS", <<>>)}
Second(p) == [p EXCEPT !.volumes = [i \in DOMAIN @ |-> [@[i] EXCEPT !.id = @ + 2]]]
MCImages == [kind : {"image"}, table : {"ok", "bad"}, parts : {<<>>} \union {<<x, Second(y)>> : x \in MCParts, y \in MCParts}, whole : {Part("xfs", "", "", <<Vol(9, "v", TRUE)>>)},
             packages : {{}, {"ntfs", "xfs"}, {"volume", "ntfs", "extfs"}, {"volume", "apfs", "extfs", "xfs"}}]
Run(sparse_, count_) == [sparse |-> sparse_, count |-> count_]
MCRecords == [kind : {"record"}, cloud : BOOLEAN, readable : BOOLEAN, flags : {{}, {"recall"}, {"encrypted"}}, resident : BOOLEAN, compressed : BOOLEAN, efs : BOOLEAN, unnamed : {TRUE},
              size : 0..5, cluster : {2}, runs : {<<>>} \union {<<Run(a, n)>> : a \in BOOLEAN, n \in 1..3} \union {<<Run(a, n), Run(b, 1)>> : a \in BOOLEAN, b \in BOOLEAN, n \in 1..2}]
MCInodes == [flags : {"none", "dataless"}, header : {NoValue, Some([evicted |-> TRUE, size |-> 3]), Some([evicted |-> FALSE, size |-> 2])}, compressed : {"yes", "no", "raises"},
             dstream : {NoValue, Some(4)}, size : {0, 3}]
Child(n, d, rec) == [name |-> n, path |-> <<"dir", n>>, isDir |-> d, hasInode |-> rec.kind = "whole", complete |-> rec.kind # "bare", rec |-> rec.v]
WithKind(k, x) == [kind |-> k, v |-> x]
MCDirectories == {[kind |-> "directory", fmt |-> f, children |-> {Child(".", TRUE, WithKind("whole", x)), Child("b", TRUE, WithKind("whole", x)), Child("a", d, WithKind(k, x)), Child("c", FALSE, WithKind("whole", x))}] :
                   f \in {"apfs"}, d \in BOOLEAN, k \in {"whole", "bare", "partial"}, x \in MCInodes}
                 \union {[kind |-> "directory", fmt |-> f, children |-> {Child("..", TRUE, WithKind("whole", x)), Child("c", TRUE, WithKind("whole", x)), Child("a", d, WithKind(k, x)), Child("b", FALSE, WithKind("whole", x))}] :
                   f \in {"ntfs", "extfs", "btrfs", "fat"}, d \in BOOLEAN, k \in {"whole", "bare"}, x \in {[cloud |-> c, flags |-> {}, size |-> 1] : c \in BOOLEAN} \union {[cloud |-> FALSE, flags |-> {"encrypted"}, size |-> 1]}}
Ext(l, p, n) == [logical |-> l, physical |-> p, length |-> n]
MCExtents == [kind : {"extents"}, extents : {{Ext(0, p, 2), Ext(2, q, n), Ext(4, 50, 1)} : p \in {0, 10}, q \in {0, 20}, n \in 1..2} \union {{Ext(1, 10, 2)}}, offset : 0..5, length : 0..4]

(* Sources, message bodies and calendar events *)
MCSources == [kind : {"source"}, data : {<<>>, <<1, 2>>, <<1, 2, 3>>, <<1, 2, 3, 4>>}, size : {0, 2, 4}, block : 1..3, a : 0..4, b : 0..4]
Ev(k, t, s, al) == [kind |-> k, tag |-> t, src |-> s, alt |-> al]
MCEvents == {Ev("start", t, "", "") : t \in {"div", "at", "br", "emoji", "script"}} \union {Ev("start", "a", h, "") : h \in {"http", "js"}}
            \union {Ev("start", "img", "s", ""), Ev("startend", "img", "s", "x"), Ev("startend", "br", "", ""), Ev("startend", "emoji", "", "x"), Ev("startend", "div", "", "")}
            \union {Ev("end", t, "", "") : t \in {"div", "at", "a", "span"}} \union {Ev("data", t, "", "") : t \in {"blank", "hello"}}
MCBodies == [kind : {"body"}, events : UNION {[1..n -> MCEvents] : n \in 0..3}, stickers : {<<>>}]
            \union [kind : {"body"}, events : {<<Ev("start", "img", "s", ""), e>> : e \in MCEvents}, stickers : {[s |-> "base64"], [s |-> "other"]}]
MCWhens == {Absent, [kind |-> "date", day |-> 3], [kind |-> "other"]} \union [kind : {"dateTime"}, day : {3}, offset : {"", "+1"}, zone : {"", "UTC", "Zone", "unknown"}]
Pattern(t, days, ix) == [type |-> t, interval |-> 2, days |-> days, index |-> ix, dayOfMonth |-> 4, month |-> 5]
MCRecurrences == {[kind |-> "none"], [kind |-> "google", rules |-> {"r"}]}
   \union {[kind |-> "graph", pattern |-> Pattern(t, ds, ix), range |-> [type |-> rt, day |-> d]] :
             t \in DOMAIN RecurrenceFreq \union {"odd"}, ds \in {<<>>, <<"monday", "noday">>}, ix \in {"last", "odd"}, rt \in {"endDate", "numbered", "noEnd"}, d \in {0, 9}}
MCEventMetas == [kind : {"event"}, rawXml : BOOLEAN, originalStart : {"", "t"}, iCalUId : {""}, iCalUID : {"", "g"}, id : {"", "i"}, start : MCWhens, end : {Absent, [kind |-> "date", day |-> 4]}, recurrence : {r \in MCRecurrences : r.kind # "graph" \/ r.pattern.type = "weekly"}]
                \union [kind : {"event"}, rawXml : {FALSE}, originalStart : {""}, iCalUId : {"u"}, iCalUID : {""}, id : {"i"}, start : {Absent, [kind |-> "date", day |-> 3], [kind |-> "dateTime", day |-> 3, offset |-> "", zone |-> "Zone"]}, end : {Absent}, recurrence : MCRecurrences]
MCContentProbes == MCImages \union {WithKind("record", x) : x \in MCRecords} \union {WithKind("inode", x) : x \in MCInodes} \union MCDirectories \union MCExtents
                   \union MCSources \union MCBodies \union MCEventMetas

-----------------------------------------------------------------------------
NoProbe == [kind |-> "none"]
Trees_ == MCFsTrees \union MCMapTrees \union MCVmTrees \union MCPcpsTrees \union MCRaws \union MCComposites
Of(kind, set) == {[kind |-> kind, v |-> x] : x \in set}
MCProbe == /\ probe = NoProbe
           /\ \/ part = "trees" /\ probe' \in Of("tree", Trees_) \union Of("saas", MCSaas)
              \/ part = "refs" /\ probe' \in Of("text", MCTexts) \union Of("store", MCStores)
              \/ part = "rows" /\ probe' \in MCVersions \union MCConnections
              \/ part = "contents" /\ probe' \in MCContentProbes
              \/ part = "files" /\ probe' \in MCTransfers \union MCZeroings \union MCReserves \union [kind : {"name"}, v : MCNames, windows : BOOLEAN]
           /\ UNCHANGED <<part, treeVars, exportVars, diskVars>>

Init ==
    /\ part \in {"trees", "refs", "rows", "files", "contents", "folder", "disk", "handle"} /\ probe = NoProbe
    /\ IF part = "folder" THEN TreeInit
       ELSE tree = <<>> /\ force = FALSE /\ foldsCase = FALSE /\ keepPartial = FALSE /\ disk = <<>> /\ before = <<>>
            /\ run = NoProbe /\ tracker = NoProbe /\ strangers = {}
    /\ IF part = "disk" THEN ExportInit
       ELSE content = NoProbe /\ sink = NoProbe /\ tuning = NoProbe /\ sparse = FALSE /\ at = NoProbe
            /\ execs = <<>> /\ open = {} /\ out = <<>> /\ count = NoProbe /\ wrong = FALSE
    /\ DiskInit
MCFolder == part = "folder" /\ TreeNext /\ UNCHANGED <<part, probe, exportVars, diskVars>>
MCDisk == part = "disk" /\ ExportNext /\ UNCHANGED <<part, probe, treeVars, diskVars>>
MCHandle == part = "handle" /\ DiskNext /\ UNCHANGED <<part, probe, treeVars, exportVars>>
Next == MCProbe \/ MCFolder \/ MCDisk \/ MCHandle
Spec == Init /\ [][Next]_<<part, probe, treeVars, exportVars, diskVars>>

-----------------------------------------------------------------------------
\* What an export leaves on the disk is what was asked for: a folder export touches no file but its own
\* and accounts for every item (run_tree_export), a disk export's segments hold the disk's content
\* whether workers or this process wrote them (run_export), the file primitives transfer, reserve and
\* clear exactly what they are told, a file inside a disk image and an assembled item export the range
\* asked for or fail, and no placeholder is exported as if its data were there (disk_fs, local_file,
\* saas_artifact, saas_teams_html_sanitizer, saas_calendar).
ExportsAreTrue ==
    /\ part = "folder" => OthersFilesSurvive /\ EverythingIsAccounted /\ PathsAreDistinct
    /\ part = "disk" => SegmentIsContent /\ ResultAddsUp /\ WorkersAreBound
    /\ probe.kind = "transfer" => TransfersAreWhole(probe.file, probe.data, probe.offset, probe.step)
    /\ probe.kind = "zeroing" => ZeroingIsExact(<<1, 2, 3, 4, 5>>, probe.offset, probe.length, probe.disabled, probe.err)
    /\ probe.kind = "reserve" => ReservingKeepsZeros(probe.size, probe.platform, probe.err)
    /\ probe.kind = "name" => SanitizedIsSafe(probe.v, probe.windows)
    /\ HandleIsAtOffset
    /\ probe.kind = "record" => PlaceholdersAreRefused(probe.v)
    /\ probe.kind = "inode" => SizesAreReal(probe.v)
    /\ probe.kind = "extents" => ExtentsAreRead(probe.extents, probe.offset, probe.length)
    /\ probe.kind = "source" => SourcesExportTheirRange(probe, probe.a, probe.b) /\ ReadsAreClamped(probe, probe.a, probe.b)
    /\ probe.kind = "body" => BodiesAreContained(probe.events, probe.stickers)
    /\ probe.kind = "event" => EventsAreSound(probe, "e")

\* What is shown leads back to what it names: every node of a version's tree is found by its own ref and
\* by no other, text of a ref parses back, the names shown on the way down lead down again, an item of a
\* SaaS table is listed once, a disk's fragments are shown or accounted for, and so are the volumes of a
\* disk image and the entries of a directory in it (resolve.py, node_ref.py, catalog.py, the providers
\* and disk_fs).
NodesAreFound ==
    /\ probe.kind \in {"tree", "saas"} => RefsFindTheirNodes(probe.v, MCRefs)
    /\ probe.kind = "saas" =>
          LET below == Below(probe.v, Root(probe.v))
          IN ItemsAreListedOnce(probe.v, below) /\ \A n \in below : UnitOf(probe.v, n).ok => n.leaf
    /\ probe.kind = "tree" /\ probe.v.kind = "pcps" => FragmentsAreAccounted(probe.v)
    /\ probe.kind = "image" => VolumesAreShown(probe, probe.packages)
    /\ probe.kind = "directory" => ListingIsComplete(probe.fmt, probe.children, <<"a", "b", "c">>)
    /\ probe.kind = "text" => RefsRoundTrip(probe.v)
    /\ probe.kind = "store" =>
          \A c \in DOMAIN probe.v : \A w \in DOMAIN probe.v[c].workloads : \A v \in DOMAIN probe.v[c].workloads[w].versions :
              NamesLeadBack(probe.v, c, w, v)
    /\ probe.kind = "versions" => VersionsAreRight(probe.rows, probe.metas, probe.key, "w", probe.deleted)
    /\ probe.kind = "connections" => ConnectionsAreRight(probe.conns, probe.rows, probe.configs, probe.links)

\* run_tree_export: "an item whose destination appeared during this run (or is a file this run already
\* wrote) is skipped rather than overwritten", also for an item named like another's ".part".
FoldersAreSafe == part = "folder" => OthersFilesSurvive

=============================================================================
