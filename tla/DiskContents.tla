---------------------------- MODULE DiskContents ----------------------------
(***************************************************************************)
(* Files inside a disk image (sdk/units/content/disk_fs): finding the      *)
(* volumes of an image, listing and opening their files, refusing a file   *)
(* whose data is not on the disk, and reading a file through one handle    *)
(* that several threads share.  What the Dissect packages return is input. *)
(***************************************************************************)
EXTENDS Integers, Sequences, FiniteSets, SequencesExt

CONSTANTS Readers, MaxReads
NoValue == <<>>           \* Python's None; a value is a one-element sequence
Some(x) == <<x>>

-----------------------------------------------------------------------------
(* Volumes of an image *)
FlatFormats == <<"ntfs", "extfs", "xfs", "btrfs", "fat">>
WholeImage == <<"(whole image)">>

DiskFsAvailable(packages) == packages # {}

PartitionTableLabel(part) ==
    CASE part.name # "" -> <<part.name>>
      [] part.name = "" /\ part.typeName \notin {"", "Unknown"} -> <<part.typeName>>
      [] OTHER -> <<part.type>>
\* An ext volume is labelled with its last mount point when it has no name.
VolumeLabel(fmt, v) == IF fmt = "extfs" /\ v.name = "" THEN v.lastMount ELSE v.name
FlatFormatLabel(table, fmt, v) ==
    LET name == VolumeLabel(fmt, v)
    IN CASE name = "" -> table \o <<fmt>>
         [] name # "" /\ table = WholeImage -> <<name, fmt>>
         [] OTHER -> table \o <<name, fmt>>

\* A part of an image holds at most one format: v.format is what its bytes are.
Opens(fmt, packages, part) == fmt \in packages /\ part.format = fmt
ApfsName(v, i) == IF v.name = "" THEN <<"APFS volume", i>> ELSE <<v.name>>
TryOpenApfs(packages, part, label) ==
    [claimed |-> Opens("apfs", packages, part),
     minted |-> LET vols == [i \in DOMAIN part.volumes |-> [vol |-> part.volumes[i].id, root |-> part.volumes[i].root, fmt |-> "apfs",
                                   label |-> (IF label = WholeImage THEN <<>> ELSE label) \o ApfsName(part.volumes[i], i) \o <<"APFS">>]]
                IN IF Opens("apfs", packages, part) THEN SelectSeq(vols, LAMBDA v : v.root) ELSE <<>>]
TryOpenFlat(packages, part, label) ==
    LET opening == SelectSeq(FlatFormats, LAMBDA f : Opens(f, packages, part))
    IN IF opening = <<>> THEN <<>>
       ELSE <<[vol |-> part.volumes[1].id, root |-> TRUE, fmt |-> opening[1], label |-> FlatFormatLabel(label, opening[1], part.volumes[1])]>>

\* open: the partitions, or the whole image without a readable partition table.
PartsOf(image, packages) ==
    IF "volume" \in packages /\ image.table = "ok" /\ image.parts # <<>>
    THEN [i \in DOMAIN image.parts |-> [part |-> image.parts[i], label |-> PartitionTableLabel(image.parts[i])]]
    ELSE <<[part |-> image.whole, label |-> WholeImage]>>
VolumesOf(packages, c) ==
    LET apfs == TryOpenApfs(packages, c.part, c.label)
    IN IF apfs.claimed THEN apfs.minted ELSE TryOpenFlat(packages, c.part, c.label)
OpenImage(image, packages) ==
    LET vols == FlattenSeq([i \in DOMAIN PartsOf(image, packages) |-> VolumesOf(packages, PartsOf(image, packages)[i])])
    IN CASE ~DiskFsAvailable(packages) -> [ok |-> FALSE, filesystems |-> <<>>]
         [] OTHER -> [ok |-> TRUE, filesystems |-> vols]     \* empty: open returns None
\* partitions: an address is the volume's position.
Partitions(fs) == {<<i - 1, fs[i].label>> : i \in DOMAIN fs}

\* Every volume that can be browsed is shown once, under an address of its own, and no other is; a
\* container that APFS claims is never also opened as something else.
VolumesAreShown(image, packages) ==
    LET shown == OpenImage(image, packages).filesystems
        parts == {PartsOf(image, packages)[i].part : i \in DOMAIN PartsOf(image, packages)}
        browsable == UNION {{v.id : v \in {x \in ToSet(p.volumes) : x.root \/ p.format # "apfs"}} :
                             p \in {q \in parts : q.format \in packages \ {"volume"}}}
    IN /\ ToSet([i \in DOMAIN shown |-> shown[i].vol]) = browsable /\ Len(shown) = Cardinality(browsable)
       /\ \A x, y \in Partitions(shown) : x[1] = y[1] => x = y

-----------------------------------------------------------------------------
(* NTFS: a record's flags and the runs its data has on the disk *)
RunStart(runs, k) == FoldLeft(LAMBDA n, r : n + r.count, 0, SubSeq(runs, 1, k - 1))
NtfsDataFullyAllocated(r) ==
    LET want == (r.size + r.cluster - 1) \div r.cluster
    IN \/ r.resident \/ r.compressed
       \/ /\ \A k \in DOMAIN r.runs : RunStart(r.runs, k) < want => ~r.runs[k].sparse
          /\ RunStart(r.runs, Len(r.runs) + 1) >= want
NtfsIsCloudOnly(r) ==
    r.cloud /\ (~r.readable \/ r.flags \intersect {"recall", "offline"} # {} \/ ~NtfsDataFullyAllocated(r))
NtfsIsEncrypted(r) == (r.readable /\ "encrypted" \in r.flags) \/ r.efs
NtfsContentUnavailable(r) == CASE NtfsIsCloudOnly(r) -> "cloud" [] ~NtfsIsCloudOnly(r) /\ NtfsIsEncrypted(r) -> "encrypted" [] OTHER -> "no"
NtfsSize(r) == IF r.unnamed THEN Some(r.size) ELSE NoValue
DirEntry(c, size, state) == [name |-> c.name, isDir |-> c.isDir, size |-> size, state |-> state]
IsDots(c) == c.name \in {".", ".."}
\* The listing reads the copy in the directory's index; opening reads the record itself.
NtfsIterdir(children) ==
    {DirEntry(c, IF c.isDir THEN NoValue ELSE Some(c.rec.size),
              CASE c.isDir -> "normal" [] ~c.isDir /\ c.rec.cloud -> "cloud"
                [] ~c.isDir /\ ~c.rec.cloud /\ "encrypted" \in c.rec.flags -> "encrypted" [] OTHER -> "normal") :
        c \in {x \in children : ~IsDots(x)}}

(* APFS: dissect's inode, whose compression header outlives a download *)
ApfsDecmpfsHeader(n) == n.header            \* NoValue, or [evicted, size]
ApfsDataStream(n) == n.dstream              \* NoValue, or its size
ApfsIsDataless(n) ==
    \/ n.flags = "dataless"
    \/ /\ ApfsDecmpfsHeader(n) # NoValue /\ ApfsDecmpfsHeader(n)[1].evicted
       /\ n.compressed \in {"yes", "raises"} \/ ApfsDataStream(n) = NoValue
ApfsSize(n) ==
    CASE n.compressed = "raises" -> NoValue
      [] n.compressed = "no" /\ ApfsDataStream(n) # NoValue -> ApfsDataStream(n)
      [] n.compressed = "yes" /\ n.size = 0 /\ ApfsDecmpfsHeader(n) # NoValue /\ ApfsDecmpfsHeader(n)[1].size # 0 -> Some(ApfsDecmpfsHeader(n)[1].size)
      [] OTHER -> Some(n.size)
ApfsContentUnavailable(n) == IF ApfsIsDataless(n) THEN "cloud" ELSE "no"
ApfsIterdir(children) ==
    {DirEntry(c, IF c.isDir \/ ~c.hasInode THEN NoValue ELSE ApfsSize(c.rec),
              IF ~c.isDir /\ c.hasInode /\ ApfsIsDataless(c.rec) THEN "cloud" ELSE "normal") :
        c \in {x \in children : ~IsDots(x) /\ x.complete}}
\* _lookup finds the last extent at or before an offset; a block of a sparse one reads as zero.
Extent(extents, offset) == CHOOSE e \in extents : e.logical <= offset /\ \A f \in extents : f.logical <= offset => f.logical <= e.logical
ApfsRead(extents, offset, length, encrypted) ==
    LET Covered(o) == \E e \in extents : e.logical <= o /\ o - Extent(extents, o).logical < Extent(extents, o).length
        Rest[n \in 0..length] ==
            LET o == offset + length - n
                e == Extent(extents, o)
                m == IF e.length - (o - e.logical) < n THEN e.length - (o - e.logical) ELSE n
            IN IF n = 0 THEN <<>>
               ELSE [i \in 1..m |-> IF e.physical = 0 THEN 0 ELSE e.physical + (o - e.logical) + i - 1] \o Rest[n - m]
    IN IF encrypted \/ \E o \in offset..offset + length - 1 : ~Covered(o) THEN [ok |-> FALSE, data |-> <<>>] ELSE [ok |-> TRUE, data |-> Rest[length]]

(* ext, XFS, Btrfs and FAT know neither placeholders nor encryption *)
PosixFiletypeIterdir(children) == {DirEntry(c, IF c.isDir THEN NoValue ELSE Some(c.rec.size), "normal") : c \in {x \in children : ~IsDots(x)}}
\* A listed child may be a Subvolume, which is no inode.
BtrfsIterdir(children) == {DirEntry(c, IF c.isDir THEN NoValue ELSE Some(c.rec.size), "normal") : c \in {x \in children : ~IsDots(x) /\ x.complete}}
\* FAT knows a child by its path, whose last part is the name.
FatName(c) == [c EXCEPT !.name = Last(c.path)]
FatIterdir(children) ==
    {DirEntry(FatName(c), IF c.isDir THEN NoValue ELSE Some(c.rec.size), "normal") : c \in {x \in children : ~IsDots(FatName(x))}}
Iterdir(fmt, children) ==
    CASE fmt = "ntfs" -> NtfsIterdir(children) [] fmt = "apfs" -> ApfsIterdir(children) [] fmt = "btrfs" -> BtrfsIterdir(children)
      [] fmt = "fat" -> FatIterdir(children) [] OTHER -> PosixFiletypeIterdir(children)

NameRank(order, name) == CHOOSE i \in DOMAIN order : order[i] = name
ListDirectory(fmt, children, order) ==
    SetToSortSeq(Iterdir(fmt, children), LAMBDA a, b : \/ a.isDir /\ ~b.isDir
                                                       \/ a.isDir = b.isDir /\ NameRank(order, a.name) < NameRank(order, b.name))
OpenFile(fmt, rec) ==
    LET reason == CASE fmt = "ntfs" -> NtfsContentUnavailable(rec) [] fmt = "apfs" -> ApfsContentUnavailable(rec) [] OTHER -> "no"
        size == CASE fmt = "ntfs" -> NtfsSize(rec) [] fmt = "apfs" -> ApfsSize(rec) [] OTHER -> Some(rec.size)
    IN IF reason # "no" THEN [ok |-> FALSE, reason |-> reason, size |-> 0]
       ELSE [ok |-> TRUE, reason |-> "no", size |-> IF size = NoValue THEN 0 ELSE size[1]]

\* A listing shows every child but "." and "..", directories first, and none twice.
ListingIsComplete(fmt, children, order) ==
    LET out == ListDirectory(fmt, children, order)
        real == {c \in children : ~IsDots(c) /\ (fmt \in {"apfs", "btrfs"} => c.complete)}
    IN /\ {[name |-> out[i].name, isDir |-> out[i].isDir] : i \in DOMAIN out} = {[name |-> c.name, isDir |-> c.isDir] : c \in real}
       /\ Len(out) = Cardinality(real)
       /\ \A i, j \in DOMAIN out : i < j => out[i].isDir \/ ~out[j].isDir
       \* what an APFS listing calls cloud-only is what opening refuses
       /\ fmt = "apfs" => \A c \in real : ~c.isDir /\ c.hasInode =>
                            \E i \in DOMAIN out : out[i].name = c.name /\ (out[i].state = "cloud" <=> ~OpenFile("apfs", c.rec).ok)
\* A placeholder never opens: a cloud file with a cluster that is not on the disk would read as zeros.  One
\* that was downloaded does, unless it is encrypted.
ClusterOnDisk(r, c) == \E k \in DOMAIN r.runs : ~r.runs[k].sparse /\ RunStart(r.runs, k) <= c /\ c < RunStart(r.runs, k + 1)
PlaceholdersAreRefused(r) ==
    LET clusters == {c \in 0..r.size : c * r.cluster < r.size}
        whole == r.resident \/ r.compressed \/ \A c \in clusters : ClusterOnDisk(r, c)
    IN /\ r.cloud /\ ~whole => ~OpenFile("ntfs", r).ok
       /\ r.cloud /\ whole /\ r.readable /\ r.flags = {} /\ ~r.efs => OpenFile("ntfs", r).ok
\* A file's size is that of its data: the header of a file that is not compressed, and may be stale, never counts.
SizesAreReal(n) == n.compressed = "no" /\ n.dstream # NoValue => ApfsSize(n) = n.dstream
\* An extent stream reads the blocks the extents name, also from inside an extent, and zeros only where it is sparse.
ExtentsAreRead(extents, offset, length) ==
    LET r == ApfsRead(extents, offset, length, FALSE)
        At(o) == {IF e.physical = 0 THEN 0 ELSE e.physical + (o - e.logical) : e \in {x \in extents : x.logical <= o /\ o < x.logical + x.length}}
    IN /\ r.ok <=> \A o \in offset..offset + length - 1 : At(o) # {}
       /\ r.ok => Len(r.data) = length /\ \A i \in 1..length : At(offset + i - 1) = {r.data[i]}
       /\ length > 0 => ~ApfsRead(extents, offset, length, TRUE).ok

-----------------------------------------------------------------------------
(* One file read by several threads through one handle.  Offsets 0 and 1; *)
(* a read returns the offset the handle stood at.                         *)
VARIABLES fh, fhLock, reading, reads
diskVars == <<fh, fhLock, reading, reads>>
Idle == [pc |-> "idle", offset |-> 0, got |-> NoValue]
DiskInit == /\ fh = NoValue /\ fhLock = {} /\ reads = 0
            /\ reading = [r \in Readers |-> Idle]
ReadStarts(r, offset) ==
    /\ reading[r].pc = "idle" /\ reads < MaxReads
    /\ reading' = [reading EXCEPT ![r] = [pc |-> "waiting", offset |-> offset, got |-> NoValue]]
    /\ reads' = reads + 1 /\ UNCHANGED <<fh, fhLock>>
TakesHandleUnlocked(r) ==
    /\ reading[r].pc = "waiting" /\ reading' = [reading EXCEPT ![r].pc = "seek"]
    /\ UNCHANGED <<fh, fhLock, reads>>

TakesHandle(r) ==
    /\ reading[r].pc = "waiting" /\ fhLock = {}
    /\ fhLock' = {r} /\ reading' = [reading EXCEPT ![r].pc = "seek"]
    /\ UNCHANGED <<fh, reads>>
\* open_stream when there is no handle, then seek.
Seeks(r) ==
    /\ reading[r].pc = "seek"
    /\ fh' = Some(reading[r].offset) /\ reading' = [reading EXCEPT ![r].pc = "read"]
    /\ UNCHANGED <<fhLock, reads>>
ReadsOn(r) ==
    /\ reading[r].pc = "read"
    /\ reading' = [reading EXCEPT ![r].pc = "done", ![r].got = fh]
    /\ fh' = [i \in DOMAIN fh |-> fh[i] + 1] /\ fhLock' = fhLock \ {r} /\ UNCHANGED reads
\* Opening, seeking or reading failed: the handle's state is unknown, the next read opens another.
ReadFails(r) ==
    /\ reading[r].pc \in {"seek", "read"}
    /\ fh' = NoValue /\ fhLock' = fhLock \ {r} /\ reading' = [reading EXCEPT ![r].pc = "failed"] /\ UNCHANGED reads
ReadReturns(r) ==
    /\ reading[r].pc \in {"done", "failed"}
    /\ reading' = [reading EXCEPT ![r] = Idle] /\ UNCHANGED <<fh, fhLock, reads>>
DiskNext == \E r \in Readers :
    \/ TakesHandle(r) \/ Seeks(r) \/ ReadsOn(r) \/ ReadFails(r) \/ ReadReturns(r)
    \/ \E offset \in 0..1 : ReadStarts(r, offset)

\* A read returns what is at its own offset, whoever else reads the file meanwhile and whatever failed.
HandleIsAtOffset == \A r \in Readers : reading[r].pc = "done" => reading[r].got = Some(reading[r].offset)
=============================================================================
