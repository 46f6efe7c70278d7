---------------------------- MODULE ObjectStores ----------------------------
(***************************************************************************)
(* storage/: the ObjectStore contract (base.py) and how LocalFsStore,      *)
(* SmbStore, S3Store and AzureStore answer it.  A path is a sequence of    *)
(* names.  A store's content is a record: files, a function from paths to  *)
(* sizes, and denied, the paths the credentials do not reach.  The last    *)
(* part is S3Store's client, built on first use and dropped by close().    *)
(***************************************************************************)
EXTENDS Integers, Sequences, SequencesExt, FiniteSets, FiniteSetsExt

CONSTANTS
    S3Tasks, MaxClients,
    MaxDepth       \* _DEFAULT_MAX_DEPTH

ASSUME S3Assumption == "nobody" \notin S3Tasks

Backends4 == {"local", "smb", "s3", "azure"}
HasDirectories(b) == b \in {"local", "smb"}
ToEnd == -1                     \* length=None

Paths(st) == DOMAIN st.files
Directories(st) == UNION {{SubSeq(p, 1, n) : n \in 0..Len(p) - 1} : p \in Paths(st)}
IsFile(st, p) == p \in Paths(st)
IsDir(st, p) == p \in Directories(st)

Bytes(from, n) == [ok |-> TRUE, data |-> [i \in 1..n |-> from + i]]
Raises(e) == [ok |-> FALSE, error |-> e]
NotFound == "NotFoundError"
Denied == "PermissionDeniedError"

\* size(): a directory, or a prefix, is no file.
Size(b, st, p) ==
    IF p \in st.denied THEN Raises(Denied)
    ELSE IF ~IsFile(st, p) THEN Raises(NotFound)
    ELSE [ok |-> TRUE, data |-> st.files[p]]

\* LocalFsStore.read_sync: open, then at most what the file still has.  A zero length returns before
\* anything is read, so there even a directory answers.
LocalRead(st, p, offset, length) ==
    IF p \in st.denied THEN Raises(Denied)
    ELSE IF ~IsFile(st, p) /\ ~IsDir(st, p) THEN Raises(NotFound)
    ELSE IF length = 0 THEN Bytes(0, 0)
    ELSE IF IsDir(st, p) THEN Raises(NotFound)
    ELSE LET left == Max({0, st.files[p] - offset})
         IN Bytes(offset, IF length = ToEnd THEN left ELSE Min({length, left}))

\* SmbStore._read_sync: the open tells a directory; seek, and read to the end or length bytes.
SmbRead(st, p, offset, length) ==
    IF p \in st.denied THEN Raises(Denied)
    ELSE IF ~IsFile(st, p) THEN Raises(NotFound)
    ELSE LET left == Max({0, st.files[p] - offset})
         IN Bytes(offset, IF length = ToEnd THEN left ELSE Min({length, left}))

\* S3Store.read, AzureStore.read: no range of zero bytes exists, so a zero length asks for the size;
\* a range past the end is refused and answered empty.
RangeRead(st, p, offset, length) ==
    IF length = 0
    THEN IF Size("s3", st, p).ok THEN Bytes(0, 0) ELSE Size("s3", st, p)
    ELSE IF p \in st.denied THEN Raises(Denied)
    ELSE IF ~IsFile(st, p) THEN Raises(NotFound)
    ELSE IF offset >= st.files[p] THEN Bytes(0, 0)
    ELSE LET last == IF length = ToEnd THEN st.files[p] - 1 ELSE offset + length - 1
         IN Bytes(offset, Min({last, st.files[p] - 1}) - offset + 1)

Read(b, st, p, offset, length) ==
    CASE b = "local" -> LocalRead(st, p, offset, length)
      [] b = "smb" -> SmbRead(st, p, offset, length)
      [] OTHER -> RangeRead(st, p, offset, length)

\* exists(): denied reads as absent where there are directories; exists_via_prefix_probe asks for the
\* object, then for anything below it, and lets a refusal through.
Exists(b, st, p) ==
    IF HasDirectories(b) THEN [ok |-> TRUE, data |-> p \notin st.denied /\ (IsFile(st, p) \/ IsDir(st, p))]
    ELSE IF p \in st.denied THEN Raises(Denied)
    ELSE [ok |-> TRUE, data |-> IsFile(st, p) \/ \E q \in Paths(st) : IsStrictPrefix(p, q)]

\* listdir(): the names one level down; an absent prefix is empty where there are no directories.
Below(st, p) == {q[Len(p) + 1] : q \in {q \in Paths(st) : IsStrictPrefix(p, q)}}
ListDir(b, st, p) ==
    IF p \in st.denied THEN Raises(Denied)
    ELSE IF HasDirectories(b) /\ ~IsDir(st, p) /\ p # <<>> THEN Raises(NotFound)
    ELSE [ok |-> TRUE, data |-> Below(st, p)]

\* The contract of read and of the probes, for a path the credentials reach: the bytes the file has in
\* the range, and the four backends answer alike except a listing of nothing.
StoresAgree(st, p, offset, length) ==
    p \notin st.denied =>
        \A b \in Backends4 :
            /\ IsFile(st, p) =>
                  LET r == Read(b, st, p, offset, length) IN
                  /\ r.ok
                  /\ r.data = SelectSeq([i \in 1..st.files[p] |-> i],
                                        LAMBDA i : i > offset /\ (length = ToEnd \/ i <= offset + length))
            /\ ~IsFile(st, p) /\ ~IsDir(st, p) => Read(b, st, p, offset, length) = Raises(NotFound)
            /\ Size(b, st, p) = Size("local", st, p)
            /\ Exists(b, st, p) = Exists("local", st, p)
            /\ IsDir(st, p) => ListDir(b, st, p) = ListDir("local", st, p)

----------------------------------------------------------------------------
(* S3Store's client: _get_client builds it under a lock, close() swaps the stack out first. *)

VARIABLES
    s3Client,       \* the client in use, 0: none
    s3Made,         \* clients entered so far
    s3Open,         \* clients entered and not closed
    s3Lock,         \* who holds _client_lock, or "nobody"
    s3Pc,           \* task -> "idle", "locking", "entering", "using", "done"
    s3Closing       \* clients whose stack a close is closing

s3Vars == <<s3Client, s3Made, s3Open, s3Lock, s3Pc, s3Closing>>

S3Init == /\ s3Client = 0 /\ s3Made = 0 /\ s3Open = {} /\ s3Lock = "nobody"
          /\ s3Pc = [t \in S3Tasks |-> "idle"] /\ s3Closing = {}

\* The first look, outside the lock.
S3Asks(t) == /\ s3Pc[t] = "idle"
             /\ s3Pc' = [s3Pc EXCEPT ![t] = IF s3Client # 0 THEN "using" ELSE "locking"]
             /\ UNCHANGED <<s3Client, s3Made, s3Open, s3Lock, s3Closing>>

\* The second look, under it.
NeedsClient == s3Client = 0

S3Locks(t) == /\ s3Pc[t] = "locking" /\ s3Lock = "nobody"
              /\ IF NeedsClient THEN s3Pc' = [s3Pc EXCEPT ![t] = "entering"] /\ s3Lock' = t
                 ELSE s3Pc' = [s3Pc EXCEPT ![t] = "using"] /\ UNCHANGED s3Lock
              /\ UNCHANGED <<s3Client, s3Made, s3Open, s3Closing>>

S3Enters(t) == /\ s3Pc[t] = "entering" /\ s3Made < MaxClients
               /\ s3Made' = s3Made + 1 /\ s3Client' = s3Made' /\ s3Open' = s3Open \union {s3Made'}
               /\ s3Lock' = "nobody" /\ s3Pc' = [s3Pc EXCEPT ![t] = "using"]
               /\ UNCHANGED s3Closing

\* The enter fails or is cancelled: nothing is stored.
S3EnterFails(t) == /\ s3Pc[t] = "entering"
                   /\ s3Lock' = "nobody" /\ s3Pc' = [s3Pc EXCEPT ![t] = "done"]
                   /\ UNCHANGED <<s3Client, s3Made, s3Open, s3Closing>>

S3Reads(t) == /\ s3Pc[t] = "using" /\ s3Pc' = [s3Pc EXCEPT ![t] = "idle"]
              /\ UNCHANGED <<s3Client, s3Made, s3Open, s3Lock, s3Closing>>

S3Close == /\ s3Client # 0
           /\ s3Closing' = s3Closing \union {s3Client} /\ s3Client' = 0
           /\ UNCHANGED <<s3Made, s3Open, s3Lock, s3Pc>>

S3Closed == /\ s3Closing # {}
            /\ s3Open' = s3Open \ s3Closing /\ s3Closing' = {}
            /\ UNCHANGED <<s3Client, s3Made, s3Lock, s3Pc>>

S3Next == \/ S3Close \/ S3Closed
          \/ \E t \in S3Tasks : S3Asks(t) \/ S3Locks(t) \/ S3Enters(t) \/ S3EnterFails(t) \/ S3Reads(t)

\* "Two racing tasks would otherwise each build one and leak a connector" (_get_client): every open
\* client is the one in use or is being closed.
NoClientLeaks == s3Open \subseteq {s3Client} \union s3Closing

-----------------------------------------------------------------------------
(* storage/layout.py: which directories of a store are repositories;       *)
(* storage/generations.py, seqid.py, dircache.py: which generation of a    *)
(* file is the one to read.  Names are strings: "D" is @ActiveProtectData, *)
(* "K" @ActiveProtectKey, "info", "link", "created" the vault's markers.   *)

VaultMarkers == {"info", "link", "created"}
There(b, st, p) == Exists(b, st, p).data
\* _safe_listdir takes an absent directory for an empty one.  Any other error ends the scan: what follows
\* is defined for a store that denies it nothing.
SafeListDir(b, st, p) == LET r == ListDir(b, st, p) IN IF r = Raises(NotFound) THEN {} ELSE r.data

LooksLikeVaultRoot(b, st, root) == \A m \in VaultMarkers : There(b, st, Append(root, m))
LooksLikeObjectStoreRepo(b, st, root) == There(b, st, Append(root, "db")) /\ There(b, st, Append(root, "data"))

NoLayout == [kind |-> "none"]
KeyRoot(b, st, root) == IF There(b, st, Append(root, "K")) THEN Append(root, "K") ELSE <<"none">>

\* _bucket_at: the ids below @ActiveProtectData that hold db and @data.
CatalogIds(b, st, root) ==
    {n \in SafeListDir(b, st, Append(root, "D")) : LooksLikeObjectStoreRepo(b, st, root \o <<"D", n>>)}

\* What root itself is, before a scan narrowed to one catalog is widened.
LayoutHere(b, st, root) ==
    IF LooksLikeVaultRoot(b, st, root)
    THEN [kind |-> "vault", root |-> root, key |-> <<"none">>, ids |-> {}]
    ELSE IF There(b, st, Append(root, "D"))
    THEN [kind |-> "bucket", root |-> root, key |-> KeyRoot(b, st, root), ids |-> CatalogIds(b, st, root)]
    ELSE IF LooksLikeObjectStoreRepo(b, st, root)
    THEN [kind |-> "catalog", root |-> root, key |-> KeyRoot(b, st, root), ids |-> {}]
    ELSE NoLayout

\* _data_dir_ancestor: two levels up from @ActiveProtectData/<id>.
DataDirAncestor(root) == IF Len(root) >= 2 /\ root[Len(root) - 1] = "D" THEN SubSeq(root, 1, Len(root) - 2) ELSE <<"none">>

\* _repository_layout_at
RepositoryLayoutAt(b, st, root) ==
    LET here == LayoutHere(b, st, root)
        up == DataDirAncestor(root)
    IN IF here.kind = "catalog" /\ up # <<"none">> THEN LayoutHere(b, st, up) ELSE here

\* iter_repository_layouts: root if it is one, which ends its branch; else each child in turn,
\* MaxDepth levels down.
IterRepositoryLayouts(b, st, root) ==
    LET walk[d \in Nat, p \in Seq(STRING)] ==
            LET here == RepositoryLayoutAt(b, st, p)
                names == SetToSeq(SafeListDir(b, st, p))
            IN IF here.kind # "none" THEN <<here>>
               ELSE IF d = 0 THEN <<>>
               ELSE FlattenSeq([i \in DOMAIN names |-> walk[d - 1, Append(p, names[i])]])
    IN walk[MaxDepth, root]

\* catalog_repo_layouts: the directories DedupRepo.open gets.
CatalogRoots(l) ==
    IF l.kind # "bucket" THEN {l.root} ELSE {l.root \o <<"D", n>> : n \in l.ids}

\* A scan from root finds every repository at most MaxDepth levels down that is in no other one, and
\* every catalog it would open has the markers of one.
IsRepository(b, st, d) ==
    LooksLikeVaultRoot(b, st, d) \/ (LooksLikeObjectStoreRepo(b, st, d) /\ ~There(b, st, Append(d, "D")))
ScanFindsAll(b, st, root) ==
    LET opened == UNION {CatalogRoots(l) : l \in Range(IterRepositoryLayouts(b, st, root))}
        encloses(u, d) == /\ IsStrictPrefix(u, d)
                          /\ IsRepository(b, st, u) \/ (There(b, st, Append(u, "D")) /\ Front(d) # Append(u, "D"))
    IN /\ \A d \in opened : IsRepository(b, st, d) \/ LooksLikeObjectStoreRepo(b, st, d)
       /\ \A d \in Directories(st) :
             IsRepository(b, st, d) /\ IsPrefix(root, d) /\ Len(d) <= Len(root) + MaxDepth
                /\ ~(\E u \in Directories(st) : encloses(u, d))
             => d \in opened

----------------------------------------------------------------------------
(* Generations.  A listing is a set of <<name, n>>; n = Bare for a name without suffix. *)

Bare == -1
NumericSuffixes(entries, name) == {e[2] : e \in {e \in entries : e[1] = name /\ e[2] # Bare}}

\* latest_transaction_id: the id inside the file with the largest number.  txns: number -> id.
LatestTransactionId(txns) == IF DOMAIN txns = {} THEN Bare ELSE txns[Max(DOMAIN txns)]

\* Mutant: a generation of the latest transaction itself is taken for committed.
CommittedUpTo(suffixes, latest) == {s \in suffixes : s <= latest}

\* Strictly before the latest committed transaction.
Committed(suffixes, latest) == {s \in suffixes : s < latest}

\* resolve_generation: Bare, a suffix, or NotFound.
ResolveGeneration(entries, name, supplemental, markers, txns) ==
    LET suffixes == NumericSuffixes(entries, name)
        valid == IF supplemental THEN suffixes \intersect markers
                 ELSE Committed(suffixes, LatestTransactionId(txns))
    IN IF suffixes = {} THEN [ok |-> TRUE, n |-> Bare]
       ELSE IF valid = {} THEN [ok |-> FALSE, n |-> Bare]
       ELSE [ok |-> TRUE, n |-> Max(valid)]

\* resolve_seq_file: the largest suffix, a bare name below every one of them.
ResolveSeqFile(entries, name) ==
    LET n == {e[2] : e \in {e \in entries : e[1] = name}}
    IN IF n = {} THEN [ok |-> FALSE, n |-> Bare] ELSE [ok |-> TRUE, n |-> Max(n)]

\* _nearest_live_generation: the first live number at or after the requested one, up to cap.
NearestLiveGeneration(live, requested, cap) ==
    LET later == {g \in live : g >= requested}
    IN IF later = {} \/ Min(later) > cap THEN Bare ELSE Min(later)

\* A generation uploaded before its transaction commits, or before its marker, is never read and does
\* not hide the one that was.
UploadsAreInvisible(entries, name, supplemental, markers, txns, n) ==
    LET before == ResolveGeneration(entries, name, supplemental, markers, txns)
        after == ResolveGeneration(entries \union {<<name, n>>}, name, supplemental, markers, txns)
    IN before.n # Bare /\ (IF supplemental THEN n \notin markers ELSE n >= LatestTransactionId(txns))
       => after = before
=============================================================================
