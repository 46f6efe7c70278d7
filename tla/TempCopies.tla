----------------------------- MODULE TempCopies -----------------------------
(***************************************************************************)
(* storage/sqlite_source.py, sqlite.py, disk_space.py: a database that is  *)
(* not a plain local file is copied to private temporary files and opened  *)
(* there.  Each file (the database and its sidecars) is written by a       *)
(* thread that reserves the space first; a thread runs to its end even if  *)
(* its task is cancelled, and the copy is removed on every exit.  Sizes    *)
(* are in pieces; Unknown is a zstd frame that declares none.              *)
(***************************************************************************)
EXTENDS Integers, Sequences, FiniteSets, FiniteSetsExt

CONSTANTS
    Copies,         \* copies made: tasks that open a database
    FsFree,         \* free pieces on the temporary file system at the start
    FsReserve,      \* _free_space_reserve: what a write leaves
    Shapes          \* the databases: part -> [n, known], the pieces of each file, declared or not

ASSUME TempAssumption ==
    /\ FsFree \in Nat /\ FsReserve \in Nat
    /\ \A sizes \in Shapes : \A p \in DOMAIN sizes : sizes[p].n \in Nat /\ sizes[p].known \in BOOLEAN

VARIABLES
    copyPc,         \* copy -> "idle", "writing", "connecting", "open", "closing", "gone"
    copyCut,        \* copies whose task was cancelled or failed: to be undone
    file,           \* <<copy, part>> -> [st, size, known, snap, held, written]
    onDisk,         \* <<copy, part>> -> pieces on disk, Absent: no such file
    conn,           \* copies with an open connection
    inFlight,       \* _in_flight of the file system
    remover         \* copies whose removal a thread retries once the connection's thread exits

tempVars == <<copyPc, copyCut, file, onDisk, conn, inFlight, remover>>

Absent == -1
Parts == {"db", "wal"}
Files == Copies \X Parts
FilesOf(c) == {c} \X Parts
NoFile == [st |-> "none", size |-> 0, known |-> TRUE, snap |-> 0, held |-> 0, written |-> 0]
Free == FsFree - MapThenSumSet(LAMBDA f : Max({onDisk[f], 0}), Files)
Over(f) == file[f].st \in {"none", "done", "failed"}

TempInit ==
    /\ copyPc = [c \in Copies |-> "idle"] /\ copyCut = {}
    /\ file = [f \in Files |-> NoFile] /\ onDisk = [f \in Files |-> Absent]
    /\ conn = {} /\ inFlight = 0 /\ remover = {}

\* from_bytes, from_enveloped_bytes: one file.  open_sqlite: the database and the sidecars it finds,
\* each read and written by a task of one gather.
CopyBegins(c, sizes) ==
    /\ copyPc[c] = "idle"
    /\ copyPc' = [copyPc EXCEPT ![c] = "writing"]
    /\ file' = [f \in Files |-> IF f[1] = c /\ f[2] \in DOMAIN sizes
                                THEN [NoFile EXCEPT !.st = "made", !.size = sizes[f[2]].n, !.known = sizes[f[2]].known]
                                ELSE file[f]]
    /\ onDisk' = [f \in Files |-> IF f[1] = c /\ f[2] \in DOMAIN sizes THEN 0 ELSE onDisk[f]]
    /\ UNCHANGED <<copyCut, conn, inFlight, remover>>

\* reserve_disk_space reads the free space before it takes the lock.
ReadFree(f) ==
    /\ file[f].st = "made"
    /\ file' = [file EXCEPT ![f].st = "checked", ![f].snap = Free]
    /\ UNCHANGED <<copyPc, copyCut, onDisk, conn, inFlight, remover>>

\* Under the lock: what is asked for, or one byte for an unknown size.
Fits(f) == file[f].snap - inFlight - FsReserve >= (IF file[f].known THEN file[f].size ELSE 1)

Reserve(f) ==
    /\ file[f].st = "checked"
    /\ IF Fits(f)
       THEN LET held == IF file[f].known THEN file[f].size ELSE 0
            IN /\ file' = [file EXCEPT ![f].st = "writing", ![f].held = held]
               /\ inFlight' = inFlight + held
       ELSE file' = [file EXCEPT ![f].st = "failed"] /\ UNCHANGED inFlight
    /\ UNCHANGED <<copyPc, copyCut, onDisk, conn, remover>>

\* The finally of reserve_disk_space, and the file closed by its thread.
ReleaseCopy(f, st) ==
    /\ inFlight' = inFlight - file[f].held
    /\ file' = [file EXCEPT ![f].st = st, ![f].held = 0]

\* account(), then the piece is written: an unknown-size write grows its hold, against the free space
\* read at its start.
Account(f) ==
    /\ file[f].st = "writing" /\ file[f].written < file[f].size
    /\ LET w == file[f].written + 1
           room == file[f].snap - (inFlight - file[f].held) - FsReserve
       IN IF ~file[f].known /\ room < w
          THEN ReleaseCopy(f, "failed") /\ UNCHANGED onDisk
          ELSE /\ file' = [file EXCEPT ![f].written = w, ![f].held = IF file[f].known THEN @ ELSE w]
               /\ inFlight' = IF file[f].known THEN inFlight ELSE inFlight - file[f].held + w
               /\ onDisk' = [onDisk EXCEPT ![f] = w]
    /\ UNCHANGED <<copyPc, copyCut, conn, remover>>

\* The data is whole, or does not decode: no key, a bad frame, a size other than declared.
WriteEnds(f, st) ==
    /\ file[f].st = "writing" /\ (st = "done" => file[f].written = file[f].size)
    /\ ReleaseCopy(f, st)
    /\ UNCHANGED <<copyPc, copyCut, onDisk, conn, remover>>

\* The task is cancelled.  run_to_completion and shield_or_undo wait for what runs.
CopyCancelled(c) ==
    /\ copyPc[c] \in {"writing", "connecting"} /\ copyCut' = copyCut \union {c}
    /\ UNCHANGED <<copyPc, file, onDisk, conn, inFlight, remover>>

Unlink(c) == onDisk' = [f \in Files |-> IF f[1] = c THEN Absent ELSE onDisk[f]]

\* Mutant: the copy is removed as soon as one file failed.
AllWrittenFirst(c) == copyPc[c] = "writing" /\ \E f \in FilesOf(c) : file[f].st \in {"done", "failed"}

\* gather(return_exceptions=True): every writer has ended.
AllWritten(c) == copyPc[c] = "writing" /\ \A f \in FilesOf(c) : Over(f)

\* Then the copy is removed if one of them failed or the task was cancelled; else it is connected.
WritesEnd(c) ==
    /\ AllWritten(c)
    /\ IF c \in copyCut \/ \E f \in FilesOf(c) : file[f].st = "failed"
       THEN copyPc' = [copyPc EXCEPT ![c] = "gone"] /\ Unlink(c)
       ELSE copyPc' = [copyPc EXCEPT ![c] = "connecting"] /\ UNCHANGED onDisk
    /\ UNCHANGED <<copyCut, file, conn, inFlight, remover>>

\* connect(): a connection that opens after the caller is gone is closed again; then the copy goes.
ConnectEnds(c, ok) ==
    /\ copyPc[c] = "connecting"
    /\ IF ok /\ c \notin copyCut
       THEN /\ conn' = conn \union {c} /\ copyPc' = [copyPc EXCEPT ![c] = "open"] /\ UNCHANGED onDisk
       ELSE /\ copyPc' = [copyPc EXCEPT ![c] = "gone"] /\ Unlink(c) /\ UNCHANGED conn
    /\ UNCHANGED <<copyCut, file, inFlight, remover>>

\* SqliteSource.close, once.
CloseSource(c) ==
    /\ copyPc[c] = "open" /\ copyPc' = [copyPc EXCEPT ![c] = "closing"]
    /\ UNCHANGED <<copyCut, file, onDisk, conn, inFlight, remover>>

\* The connection closes, then the files go.  If the close fails or is cancelled while the connection's
\* thread still holds the file, a removal that is refused is left to a thread that joins it.
SourceClosed(c) ==
    /\ copyPc[c] = "closing" /\ copyPc' = [copyPc EXCEPT ![c] = "gone"]
    /\ \/ conn' = conn \ {c} /\ Unlink(c) /\ UNCHANGED remover
       \/ remover' = remover \union {c} /\ UNCHANGED <<conn, onDisk>>
    /\ UNCHANGED <<copyCut, file, inFlight>>

RemoverRuns(c) ==
    /\ c \in remover /\ remover' = remover \ {c}
    /\ conn' = conn \ {c} /\ Unlink(c)
    /\ UNCHANGED <<copyPc, copyCut, file, inFlight>>

TempNext ==
    \/ \E c \in Copies : \/ CopyCancelled(c) \/ WritesEnd(c) \/ CloseSource(c) \/ SourceClosed(c) \/ RemoverRuns(c)
                         \/ \E ok \in BOOLEAN : ConnectEnds(c, ok)
                         \/ \E sizes \in Shapes : CopyBegins(c, sizes)
    \/ \E f \in Files : \/ ReadFree(f) \/ Reserve(f) \/ Account(f)
                        \/ \E st \in {"done", "failed"} : WriteEnds(f, st)

----------------------------------------------------------------------------
HeldPieces == UNION {{f} \X (1..file[f].held) : f \in Files}

\* The holds of unfinished writes, and nothing else, are what later writes see as taken.
HoldsBalance == inFlight = Cardinality(HeldPieces)

\* A copy that failed, was cancelled or closed leaves no file and no connection, and no file is removed
\* while its writer or a connection has it open (Windows refuses that).
NoTempLeaks ==
    /\ \A c \in Copies : copyPc[c] = "gone" /\ c \notin remover =>
          c \notin conn /\ \A f \in FilesOf(c) : onDisk[f] = Absent /\ Over(f)
    /\ \A f \in Files : (~Over(f) \/ (f[1] \in conn /\ file[f].st = "done")) => onDisk[f] # Absent
    /\ \A c \in conn : \A f \in FilesOf(c) : file[f].st \in {"none", "done"}
=============================================================================
