------------------------------- MODULE MCHandles -------------------------------
(* One run over the objects that own handles (repository, session, DedupRepo   *)
(* sources, SaaS streams and providers) and over the storage layer below them  *)
(* (SMB pool, S3 client, temporary copies, profiles).  They share no state     *)
(* here, so part picks the one that moves; input holds the argument of a pure  *)
(* operator.                                                                   *)
EXTENDS RepositoryLifecycle, SessionStores, DbSources, SaasStreams, SaasProviders,
        SmbStore, ObjectStores, TempCopies, Profiles

VARIABLES part, input

MCTries == [s \in Setters |-> IF s = "s1" THEN {"k1"} ELSE {"k2", "bad"}]
MCBackingOf == [d \in Discoveries |-> "b1"]
MCKeyOf == [r \in StreamReaders |-> IF r \in {"r1", "r2"} THEN "ka" ELSE IF r = "r3" THEN "kb" ELSE "kc"]

MCShapes == {[db |-> [n |-> 2, known |-> TRUE]], [db |-> [n |-> 2, known |-> FALSE]],
             [db |-> [n |-> 1, known |-> TRUE], wal |-> [n |-> 1, known |-> FALSE]]}

\* Stores: what is put where.
MCDirs == {<<>>, <<"x">>, <<"x", "y">>, <<"x", "y", "z">>}
MCFeature(d, f) ==
    CASE f = "vault" -> {Append(d, m) : m \in VaultMarkers}
      [] f = "partial" -> {Append(d, "info"), Append(d, "link")}
      [] f = "loose" -> {d \o <<"db", "f">>, d \o <<"data", "f">>}
      [] f = "key" -> {d \o <<"K", "f">>}
      [] f = "half" -> {d \o <<"D", "r2", "db", "f">>}
      [] f = "repo" -> {d \o <<"D", "r1", "db", "f">>, d \o <<"D", "r1", "data", "f">>}
      [] f = "two" -> {d \o <<"D", r, k, "f">> : r \in {"r1", "r2"}, k \in {"db", "data"}}
MCContents ==
    LET placed == {MCFeature(d, f) : d \in MCDirs, f \in {"vault", "partial", "loose", "key", "half", "repo", "two"}}
    IN {p \union q : p, q \in placed}
MCStore(c) == [files |-> [p \in c |-> 1], denied |-> {}]

NoInput == [kind |-> "none"]
MCScans == [kind : {"scan"}, b : {"local", "s3"}, c : MCContents, root : {<<>>, <<"x">>, <<"x", "D", "r1">>}]
MCReads == [kind : {"read"}, size : 0..2, denied : BOOLEAN, p : {<<"a">>, <<"a", "f">>, <<"b">>, <<>>},
            offset : 0..3, length : {ToEnd, 0, 1, 2, 3}]
MCGens == [kind : {"gen"}, seen : SUBSET ({Bare} \union 1..3), suppl : BOOLEAN, markers : SUBSET (1..3),
           txn : 0..4, upload : 1..4]

Init ==
    /\ part \in {"repository", "session", "sources", "streams", "providers", "smb", "s3", "temp", "profiles", "operators"}
    /\ RepoInit /\ SessInit /\ DbInit /\ SsInit /\ SaasInit
    /\ SmbInit /\ S3Init /\ TempInit /\ ProfInit /\ input = NoInput
    /\ part # "repository" => adopted = NoKey
    /\ part # "providers" => indexKind = "none"

Owned == <<repoVars, sessVars, dbVars, ssVars, saasVars>>
Backend == <<smbVars, s3Vars, tempVars, profVars>>

Next ==
    /\ UNCHANGED part
    /\ \/ part = "repository" /\ RepoNext /\ UNCHANGED <<sessVars, dbVars, ssVars, saasVars, Backend, input>>
       \/ part = "session" /\ SessNext /\ UNCHANGED <<repoVars, dbVars, ssVars, saasVars, Backend, input>>
       \/ part = "sources" /\ DbNext /\ UNCHANGED <<repoVars, sessVars, ssVars, saasVars, Backend, input>>
       \/ part = "streams" /\ SsNext /\ UNCHANGED <<repoVars, sessVars, dbVars, saasVars, Backend, input>>
       \/ part = "providers" /\ SaasNext /\ UNCHANGED <<repoVars, sessVars, dbVars, ssVars, Backend, input>>
       \/ part = "smb" /\ SmbNext /\ UNCHANGED <<Owned, s3Vars, tempVars, profVars, input>>
       \/ part = "s3" /\ S3Next /\ UNCHANGED <<Owned, smbVars, tempVars, profVars, input>>
       \/ part = "temp" /\ TempNext /\ UNCHANGED <<Owned, smbVars, s3Vars, profVars, input>>
       \/ part = "profiles" /\ ProfNext /\ UNCHANGED <<Owned, smbVars, s3Vars, tempVars, input>>
       \/ part = "operators" /\ input = NoInput /\ input' \in MCScans \union MCReads \union MCGens
             /\ UNCHANGED <<Owned, Backend>>

Spec == Init /\ [][Next]_<<part, input, Owned, Backend>>

\* What a cache will give out, or a caller was given, is not closed under it: a
\* cached catalog, a cached Table, the store of a repository handed out, the
\* stream a call is reading.
LiveWhileUsed == CachedCatalogsAreOpen /\ CachedTableIsLive /\ StoreOpenWhileUsed /\ EvictionSparesReaders

\* Every catalog, source, store, SaaS stream, temporary copy, reserved piece and
\* client is released by whoever drops the last reference to it, however the opens,
\* the sweeps, the evictions, the failures and the closes interleave.
HandlesAreReleased ==
    /\ NothingStaysOpen /\ SourcesAreReleased /\ StoresAreReleased /\ StreamsAreReleased
    /\ NoTempLeaks /\ HoldsBalance /\ NoClientLeaks

\* Trying the candidates of a SaaS version: the shared index is open exactly while it is held and is
\* loaded once, and whatever fails, only what the caller got stays open (saas_provider_for).
IndexIsShared == IndexFollowsHolds /\ IndexLoadsOnce /\ DispatchIsClean

\* A slot of the SMB pool is one caller's at a time and never lost, a call that timed out is kept apart
\* from the session of its retry, and a session keeps few handles (SmbStore).
SlotsAreSound == SlotsConserved /\ LateCallsAreApart /\ HandlesAreKept

\* The four backends answer alike; a scan finds every repository in reach; an upload that is not
\* committed is not read (ObjectStore, iter_repository_layouts, resolve_generation).
ReadersAreServed ==
    /\ input.kind = "read" =>
          StoresAgree([files |-> (<<"a", "f">> :> input.size) @@ (<<"b">> :> 1),
                       denied |-> IF input.denied THEN {<<"b">>} ELSE {}], input.p, input.offset, input.length)
    /\ input.kind = "scan" => ScanFindsAll(input.b, MCStore(input.c), input.root)
    /\ input.kind = "gen" =>
          LET entries == {<<"t", n>> : n \in input.seen}
              txns == IF input.txn = 0 THEN [n \in {} |-> 0] ELSE (1 :> 4) @@ (2 :> input.txn)
          IN /\ UploadsAreInvisible(entries, "t", input.suppl, input.markers, txns, input.upload)
             /\ LET g == NearestLiveGeneration(input.seen \ {Bare}, input.upload, input.txn)
                IN g # Bare => g \in input.upload..input.txn
             /\ LET r == ResolveSeqFile(entries, "t") IN r.ok => \A n \in input.seen : n <= r.n

================================================================================
