----------------------------- MODULE CatalogRows -----------------------------
(***************************************************************************)
(* What a catalog makes of its database rows (sdk/catalog/) and which      *)
(* provider a version gets (units/dispatch.py).  A JSON value is a tagged  *)
(* tuple; a version_spec is what its column holds: the key it is encrypted *)
(* with (Plain for none), whether it is JSON, and its status object.       *)
(***************************************************************************)
EXTENDS Integers, Sequences, FiniteSets, SequencesExt, FiniteSetsExt

Plain == "plain"
NoStatus == [status |-> <<"null">>, start |-> <<"null">>, end |-> <<"null">>]   \* no JSON object
Unreadable == [ok |-> FALSE]
NoEpoch == 0
BrowsableStatuses == {"COMPLETED", "PARTIAL", "CANCELED"}
DeviceTypes == {"VM", "PC", "PS", "FS"}
SaasTypes == {"GWS", "M365"}

(* Versions *)
\* A protobuf int64: a number or a string of one; 0 is "not set".
AsEpochSeconds(v) == IF v[1] \in {"int", "digits"} THEN v[2] ELSE NoEpoch
\* parse_version_spec decrypts whenever there is a key: the column does not say whether it is encrypted.
ParseVersionSpec(spec, key) ==
    IF spec.enc = key /\ spec.json THEN [ok |-> TRUE, v |-> spec.status] ELSE Unreadable
ParseVersionStatus(spec, key) ==
    LET parsed == ParseVersionSpec(spec, key) IN IF parsed.ok /\ parsed.v # NoStatus THEN parsed ELSE Unreadable
VersionEpoch(status) ==
    LET start == AsEpochSeconds(status.start) IN IF start # NoEpoch THEN start ELSE AsEpochSeconds(status.end)
BrowsableAny(row, key) == ParseVersionStatus(row.spec, key).ok
Browsable(row, key) ==
    LET s == ParseVersionStatus(row.spec, key)
    IN s.ok /\ s.v.status[1] = "str" /\ s.v.status[2] \in BrowsableStatuses
\* A meta row that is still being written has no files (<<"array", {}>>), one of the wrong shape counts as
\* absent, and one whose meta_filenames is no JSON array fails the whole listing.
VersionMetasFor(metas, uids) == {m \in metas : m.uid \in uids /\ m.pathOk /\ m.statusOk}
DataCorrupt(found) == \E m \in found : m.files[1] # "array"
BrowsableVersions(rows, metas, key) ==
    LET chosen == {r \in rows : Browsable(r, key)}
        found == VersionMetasFor(metas, {r.uid : r \in chosen})
    IN IF DataCorrupt(found) THEN Unreadable ELSE [ok |-> TRUE, list |->
       {[epoch |-> VersionEpoch(ParseVersionStatus(r.spec, key).v), id |-> r.id, uid |-> r.uid, deleted |-> r.deleted,
         meta |-> {m \in found : m.uid = r.uid}] : r \in chosen}]
\* Newest first; one without a time sorts last, ties by the id.
Newer(x, y) ==
    IF (x.epoch # NoEpoch) # (y.epoch # NoEpoch) THEN x.epoch # NoEpoch
    ELSE IF x.epoch # y.epoch THEN x.epoch > y.epoch ELSE x.id > y.id
Versions(rows, metas, key, workload, includeDeleted) ==
    LET listed == BrowsableVersions({r \in rows : r.workload = workload /\ (includeDeleted \/ ~r.deleted)}, metas, key)
    IN IF listed.ok THEN [ok |-> TRUE, list |-> SetToSortSeq(listed.list, Newer)] ELSE listed
VersionByUid(rows, metas, key, uid) == BrowsableVersions({r \in rows : r.uid = uid}, metas, key)
\* Catalog.version_by_uid: and only of that workload and that connection.
CatalogVersionByUid(rows, metas, key, workload, conn, uid) ==
    LET named == VersionByUid(rows, metas, key, uid)
    IN IF named.ok
       THEN [ok |-> TRUE, list |-> {v \in named.list : \E r \in rows : r.uid = uid /\ r.workload = workload /\ r.conn = conn}]
       ELSE named

\* resolve_copy_meta_dir, resolve_meta_filename, open_target_db: the directory named by the path's last component.
ResolveCopyMetaDir(meta) ==
    IF meta = {} THEN <<"NotFound">>
    ELSE LET path == (CHOOSE m \in meta : TRUE).path
             kept == {i \in DOMAIN path : path[i] # ""}
         IN IF kept = {} \/ path[Max(kept)] \in {"..", "\\"} THEN <<"NotFound">> ELSE <<"ok", path[Max(kept)]>>
OpenTargetDb(meta) ==
    LET dir == ResolveCopyMetaDir(meta)
    IN IF dir[1] # "ok" THEN dir ELSE IF "target.db" \in (CHOOSE m \in meta : TRUE).files[2] THEN dir ELSE <<"NotFound">>

(* Workloads and connections *)
WorkloadIdsByConnection(rows, conn) == {r.workload : r \in {x \in rows : x.conn = conn}}
VersionCount(rows, conn) == Cardinality({r \in rows : r.conn = conn})
NamespaceByWorkload(configs, ids) == {<<c.id, c.namespace>> : c \in {x \in configs : x.id \in ids /\ x.namespace # ""}}
\* The first link name that starts with the id names it, if it has its three parts.
ConnectionDisplayName(links, id) ==
    LET hits == {i \in DOMAIN links : links[i][1] = id}
    IN IF hits = {} \/ Len(links[Min(hits)]) < 3 THEN id ELSE links[Min(hits)][3]
Connections(conns, rows, configs, links) ==
    {[id |-> c, name |-> ConnectionDisplayName(links, c), workloads |-> WorkloadIdsByConnection(rows, c), versions |-> VersionCount(rows, c),
      namespaces |-> {n[2] : n \in NamespaceByWorkload(configs, WorkloadIdsByConnection(rows, c))}] : c \in conns}

\* _workload_from_row: names in the order they are tried.
FirstOf(names, otherwise) == LET hits == {i \in DOMAIN names : names[i] # ""} IN IF hits = {} THEN otherwise ELSE names[Min(hits)]
DeviceDisplayName(c) == FirstOf(<<c.name>>, "unnamed")
SaasDisplayName(c) ==
    IF c.user # <<>> THEN (IF c.user[1] # "" /\ c.user[2] # "" THEN "name <email>" ELSE FirstOf(c.user, "unnamed user"))
    ELSE IF c.info # <<>> THEN FirstOf(c.info, "unnamed entity") ELSE "workload"
WorkloadFromRow(c) ==
    [id |-> c.id, type |-> c.type,
     sub |-> IF c.type \in SaasTypes THEN c.sub ELSE "",
     name |-> CASE c.type \in DeviceTypes -> DeviceDisplayName(c) [] c.type \in SaasTypes -> SaasDisplayName(c) [] OTHER -> "uid"]
TypeHint(w) == IF w.sub # "" THEN w.sub ELSE w.type
Workloads(configs, rows, conn) == {WorkloadFromRow(c) : c \in {x \in configs : x.id \in WorkloadIdsByConnection(rows, conn)}}
WorkloadById(configs, id) == {WorkloadFromRow(c) : c \in {x \in configs : x.id = id}}

(* Dispatch *)
SupportedSubTypes == {"MAIL", "CONTACT", "CALENDAR", "DRIVE", "USER_DRIVE", "TEAM_DRIVE", "SITE", "USER_EXCHANGE", "GROUP_EXCHANGE",
                      "TEAMS", "USER_CHAT"}
IsSupported(w) == w.type \in DeviceTypes \/ w.sub \in SupportedSubTypes
\* provider_for: by the version's own target type.
DeviceProviderFor(type) == CASE type = "FS" -> "fs" [] type \in DeviceTypes \ {"FS"} -> "device" [] OTHER -> "Unsupported"
\* Catalog.provider: the raw view when it is asked for, or nobody knows the workload.
ProviderFor(configs, type, workload, raw) ==
    IF type \in DeviceTypes THEN DeviceProviderFor(type)
    ELSE IF raw \/ WorkloadById(configs, workload) = {} THEN "raw"
    ELSE IF \E w \in WorkloadById(configs, workload) : w.sub \in SupportedSubTypes THEN "candidates" ELSE "raw"

-----------------------------------------------------------------------------
\* A listing shows exactly the versions with landed data that its key can read, newest first with the
\* unreadable times last, and each is the one its uid leads to; a wrong key or none shows nothing.  It
\* fails exactly over a shown version with a corrupt file list, and so does the way by that uid, no other.
VersionsAreRight(rows, metas, key, workload, includeDeleted) ==
    LET answer == Versions(rows, metas, key, workload, includeDeleted)
        list == answer.list
        shown == {x \in rows : x.workload = workload /\ (includeDeleted \/ ~x.deleted) /\ x.spec.enc = key /\ x.spec.json
                     /\ x.spec.status # NoStatus /\ x.spec.status.status \in {<<"str", s>> : s \in BrowsableStatuses}}
        corrupt == {m \in metas : m.pathOk /\ m.statusOk /\ m.files = <<"corrupt", {}>>}
    IN /\ answer.ok <=> \A x \in shown, m \in corrupt : m.uid # x.uid
       /\ \A x \in shown : VersionByUid(rows, metas, key, x.uid).ok <=> \A m \in corrupt : m.uid # x.uid
       /\ answer.ok =>
            /\ {v.id : v \in Range(list)} = {x.id : x \in shown}
            /\ \A i, j \in DOMAIN list : i < j =>
                 /\ list[i].epoch = NoEpoch => list[j].epoch = NoEpoch
                 /\ list[j].epoch # NoEpoch => list[i].epoch >= list[j].epoch
                 /\ list[i].epoch = list[j].epoch => list[i].id > list[j].id
            /\ \A v \in Range(list) :
                 /\ v \in VersionByUid(rows, metas, key, v.uid).list
                 /\ \A r \in rows : CatalogVersionByUid(rows, metas, key, workload, r.conn, v.uid).list =
                        (IF \E x \in rows : x.id = v.id /\ x.conn = r.conn THEN {v} ELSE {})
                 /\ OpenTargetDb(v.meta)[1] = "ok" => \A m \in v.meta : OpenTargetDb(v.meta)[2] \in Range(m.path) \ {"", ".."}

\* Sources partition the versions and hold every workload of theirs; a link without a name part names nobody.
ConnectionsAreRight(conns, rows, configs, links) ==
    LET all == Connections(conns, rows, configs, links)
    IN /\ \A c \in all : /\ c.name # "" /\ ((\A i \in DOMAIN links : links[i][1] # c.id) => c.name = c.id)
                         /\ {w.id : w \in Workloads(configs, rows, c.id)} = c.workloads \cap {x.id : x \in configs}
                         /\ \A w \in Workloads(configs, rows, c.id) : w \in WorkloadById(configs, w.id) /\ TypeHint(w) # "" /\ w.name # ""
                               /\ (ProviderFor(configs, w.type, w.id, FALSE) = "raw" <=> ~IsSupported(w))
       /\ (\A r \in rows : r.conn \in conns) => FoldSet(LAMBDA c, n : c.versions + n, 0, all) = Cardinality(rows)
=============================================================================
