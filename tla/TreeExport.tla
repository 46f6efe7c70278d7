----------------------------- MODULE TreeExport -----------------------------
(***************************************************************************)
(* Exporting a folder (sdk/api/export_tree.py, export_paths.py,            *)
(* presentation/export_target.py and export_report.py): the plan maps each *)
(* item below the folder to a path, the preflight compares the paths with  *)
(* the disk, and the run writes the items one by one through staged local  *)
(* sinks while other programs may add files at any step of it.             *)
(*                                                                         *)
(* A name is a stem, a spelling (names that differ only in it are one name *)
(* to a case-insensitive file system), the number in " (n)" (1: none) and  *)
(* the count of ".part" suffixes; a path is a sequence of names.  The tree *)
(* is given in the order of the walk, each node with its depth.            *)
(***************************************************************************)
EXTENDS Integers, Sequences, FiniteSets, SequencesExt

CONSTANTS
    Trees,         \* folders to export
    Disks,         \* what is on the disk before: functions from paths to owners
    MaxStrangers   \* files other programs create during the export

VARIABLES
    tree, force, foldsCase, keepPartial,   \* what is exported, how, and onto which file system
    disk,        \* key of a path -> what is there
    before,      \* the disk before the export
    run,         \* TreeExport in the making
    tracker,     \* ExportTracker: item of the current sink (0: none), files done, what a failure reports
    strangers    \* files created by others so far: late, once the item they stand in the way of was checked
treeVars == <<tree, force, foldsCase, keepPartial, disk, before, run, tracker, strangers>>

(* Names: a character is its class.  "c" stands for a reserved device name. *)
Separators == {"/"}
Forbidden == {":"}
Trailing == {".", " "}
Dots == {<<>>, <<".">>, <<".", ".">>}

\* windows_reserved_basename: what precedes the first dot.
WindowsReservedBasename(s) == s # <<>> /\ s[1] = "c" /\ (Len(s) = 1 \/ s[2] = ".")
UnsafeOnWindows(s) ==
    \/ Range(s) \cap Forbidden # {}
    \/ s # <<>> /\ Last(s) \in Trailing
    \/ WindowsReservedBasename(s)
SafeSegment(s, windows) ==
    /\ s \notin Dots /\ Range(s) \cap Separators = {}
    /\ windows => ~UnsafeOnWindows(s)

StripTrailing(s) ==
    LET kept == {i \in DOMAIN s : s[i] \notin Trailing}
    IN SubSeq(s, 1, IF kept = {} THEN 0 ELSE CHOOSE i \in kept : \A j \in kept : j <= i)
SafeFileNameUnstripped(s, windows) ==
    LET clean == [i \in DOMAIN s |-> IF s[i] \in Separators \union (IF windows THEN Forbidden ELSE {}) THEN "_" ELSE s[i]]
    IN IF clean \in Dots THEN <<"_">> ELSE clean
SafeFileName(s, windows) ==
    LET clean == [i \in DOMAIN s |-> IF s[i] \in Separators \union (IF windows THEN Forbidden ELSE {}) THEN "_" ELSE s[i]]
        short == IF windows THEN StripTrailing(clean) ELSE clean
        named == IF windows /\ WindowsReservedBasename(short) THEN <<"_">> \o short ELSE short
    IN IF named \in Dots THEN <<"_">> ELSE named

(* The plan *)
Fold(path) == [i \in DOMAIN path |-> [path[i] EXCEPT !.spelling = 0]]
Numbered(name, n) == [name EXCEPT !.num = n]
Parents(path) == {SubSeq(path, 1, i) : i \in 1..Len(path) - 1}

\* The first of name, name (2), name (3), ... whose folded path is free.
FirstFree(segments, name, folded) ==
    LET free == {n \in 1..Cardinality(folded) + 1 :
                    Fold(Append(segments, Numbered(name, n))) \notin folded}
    IN Append(segments, Numbered(name, CHOOSE n \in free : \A m \in free : n <= m))

Skip(p, n, reason) == [p EXCEPT !.skipped = Append(@, [node |-> n, reason |-> reason])]

\* One node of the walk.  p.at is the path of segments above it; a container that is left out takes
\* what is below it along: nodes deeper than p.cut.
PlanNode(p, n) ==
    LET segments == SubSeq(p.at, 1, n.depth)
        synthesized == n.leaf /\ n.synth
        below == IF synthesized /\ n.kind = "plain" THEN FirstFree(segments, n.name, p.folded)
                                                     ELSE Append(segments, n.name)
        taken == \/ below \in p.files
                 \/ n.leaf /\ below \in p.dirs
                 \/ Parents(below) \cap p.files # {}
        left == [p EXCEPT !.cut = n.depth]
    IN CASE p.cut >= 0 /\ n.depth > p.cut -> p
         [] n.kind = "fs" -> left
         [] n.kind = "missing" -> Skip(left, n, "missing_data")
         [] n.kind = "plain" /\ ~n.safe /\ ~synthesized -> Skip(left, n, "unsafe_name")
         [] n.kind = "plain" /\ (n.safe \/ synthesized) /\ taken -> Skip(left, n, "path_taken")
         [] OTHER -> [p EXCEPT !.cut = -1, !.folded = @ \union {Fold(below)},
                               !.files = IF n.leaf THEN @ \union {below} ELSE @,
                               !.dirs = IF n.leaf THEN @ ELSE @ \union {below},
                               !.items = IF n.leaf THEN Append(@, [node |-> n, path |-> below]) ELSE @,
                               !.at = IF n.leaf THEN @ ELSE below]
NoPlan == [items |-> <<>>, skipped |-> <<>>, files |-> {}, dirs |-> {}, folded |-> {}, at |-> <<>>, cut |-> -1]
PlanTreeExport(t) == FoldLeft(PlanNode, NoPlan, t)
Plan == PlanTreeExport(tree)

(* The disk *)
Key(path) == IF foldsCase THEN Fold(path) ELSE path
DestinationState(d, path) ==
    IF Key(path) \notin DOMAIN d THEN "missing" ELSE IF d[Key(path)] = <<"dir">> THEN "directory" ELSE "file"

\* _ParentCheck.blocker: a file stands where a folder of the path has to be.
Blocked(d, path) == \E q \in Parents(path) : DestinationState(d, q) = "file"

PreflightTree(d) ==
    LET state(i) == DestinationState(d, Plan.items[i].path)
        wrong == {i \in DOMAIN Plan.items : state(i) = "directory" \/ Blocked(d, Plan.items[i].path)}
        existing == {i \in DOMAIN Plan.items : state(i) = "file"}
    IN [problem |-> CASE wrong # {} -> "in the way" [] wrong = {} /\ existing # {} /\ ~force -> "exists" [] OTHER -> "none",
        preexisting |-> {Plan.items[i].path : i \in existing}]

\* part_path_for
PartPathFor(path) == [path EXCEPT ![Len(path)].part = @ + 1]

Put(d, path, owner) ==
    [k \in DOMAIN d \union {Key(q) : q \in Parents(path)} \union {Key(path)} |->
        IF k = Key(path) THEN owner ELSE IF k \in DOMAIN d THEN d[k] ELSE <<"dir">>]
Unlink(d, path) == [k \in DOMAIN d \ {Key(path)} |-> d[k]]

TreeInit ==
    /\ tree \in Trees /\ force \in BOOLEAN /\ foldsCase \in BOOLEAN /\ keepPartial \in BOOLEAN
    /\ before \in {[k \in {Key(q) : q \in DOMAIN d} |-> d[CHOOSE q \in DOMAIN d : Key(q) = k]] : d \in Disks}
    /\ disk = before
    /\ run = [pc |-> "planned", i |-> 1, wrote |-> FALSE, preexisting |-> {}, renamed |-> {}, exported |-> {}, skipped |-> {}, written |-> {}]
    /\ tracker = [item |-> 0, done |-> 0, note |-> "none"] /\ strangers = {}

\* The caller preflights and starts only without a problem.
Preflight ==
    /\ run.pc = "planned"
    /\ LET pre == PreflightTree(disk) IN
       run' = [run EXCEPT !.pc = IF pre.problem = "none" THEN "check" ELSE "refused", !.preexisting = pre.preexisting]
    /\ UNCHANGED <<tree, force, foldsCase, keepPartial, disk, before, tracker, strangers>>

Item == Plan.items[run.i]
PathTakenIfFound == DestinationState(disk, Item.path) = "directory"
PathTaken ==
    \/ DestinationState(disk, Item.path) = "directory"
    \/ DestinationState(disk, Item.path) = "file" /\
          (Item.path \notin run.preexisting \/ disk[Key(Item.path)] \in run.written)
    \/ Blocked(disk, Item.path)

\* path_taken in its thread, and on_item_start (ExportTracker.item_started)
CheckItem ==
    /\ run.pc = "check" /\ run.i <= Len(Plan.items)
    /\ \/ PathTaken /\ run' = [run EXCEPT !.i = @ + 1, !.skipped = @ \union {run.i}] /\ UNCHANGED tracker
       \/ ~PathTaken /\ run' = [run EXCEPT !.pc = "unit"] /\ tracker' = [tracker EXCEPT !.item = run.i]
    /\ UNCHANGED <<tree, force, foldsCase, keepPartial, disk, before, strangers>>

\* provider.unit: NotRestorableError skips the item; else its sink makes the folders and opens the .part,
\* which it cannot below a file.
OpenUnit ==
    /\ run.pc = "unit"
    /\ \/ Item.node.empty /\ run' = [run EXCEPT !.pc = "check", !.i = @ + 1, !.skipped = @ \union {run.i}] /\ UNCHANGED disk
       \/ /\ ~Item.node.empty /\ ~Blocked(disk, Item.path)
          /\ run' = [run EXCEPT !.pc = "write"] /\ disk' = Put(disk, PartPathFor(Item.path), <<"part", run.i>>)
    /\ UNCHANGED <<tree, force, foldsCase, keepPartial, before, tracker, strangers>>

\* The first byte reaches the sink (_ever_written): an empty item has none.
WriteItem ==
    /\ run.pc = "write" /\ ~run.wrote /\ run' = [run EXCEPT !.wrote = TRUE]
    /\ UNCHANGED <<tree, force, foldsCase, keepPartial, disk, before, tracker, strangers>>

\* The sink commits: the .part is renamed, over whatever file is there by now.
CommitItem ==
    /\ run.pc = "write"
    /\ disk' = Put(Unlink(disk, PartPathFor(Item.path)), Item.path, <<"item", run.i>>)
    /\ run' = [run EXCEPT !.pc = "renamed", !.renamed = @ \union {run.i}]
    /\ UNCHANGED <<tree, force, foldsCase, keepPartial, before, tracker, strangers>>

\* _file_identity has answered from its thread; then ExportTracker.item_finished.
FinishItem ==
    /\ run.pc = "renamed"
    /\ run' = [run EXCEPT !.pc = "check", !.i = @ + 1, !.wrote = FALSE, !.exported = @ \union {run.i},
                          !.written = @ \union {disk[Key(Item.path)]}]
    /\ tracker' = [tracker EXCEPT !.item = 0, !.done = @ + 1]
    /\ UNCHANGED <<tree, force, foldsCase, keepPartial, disk, before, strangers>>

\* ExportTracker.leftover: the abort of the current sink says what it left.  The sink of a skipped item
\* stays the current one until the next item starts, and a committed one until item_finished.
Kept == run.wrote /\ (keepPartial \/ run.pc = "renamed")
Leftover == CASE tracker.item = 0 -> "none" [] tracker.item # 0 /\ ~run.wrote -> "never written"
              [] OTHER -> IF Kept THEN "kept" ELSE "removed"

\* An item fails or is cancelled, its sink aborts and the run ends.
FailItem ==
    /\ run.pc \in {"check", "unit", "write", "renamed"} /\ run.i <= Len(Plan.items)
    /\ disk' = IF run.pc = "write" /\ ~Kept THEN Unlink(disk, PartPathFor(Item.path)) ELSE disk
    /\ run' = [run EXCEPT !.pc = "failed"]
    /\ tracker' = [tracker EXCEPT !.note = Leftover]
    /\ UNCHANGED <<tree, force, foldsCase, keepPartial, before, strangers>>

EndTree ==
    /\ run.pc = "check" /\ run.i > Len(Plan.items)
    /\ run' = [run EXCEPT !.pc = "done"]
    /\ UNCHANGED <<tree, force, foldsCase, keepPartial, disk, before, tracker, strangers>>

\* Another program creates a file, at any step of the run.
Stranger ==
    /\ Cardinality(strangers) < MaxStrangers /\ run.pc \in {"check", "unit", "write", "renamed"}
    /\ \E i \in DOMAIN Plan.items :
          LET path == Plan.items[i].path IN
          /\ DestinationState(disk, path) = "missing" /\ ~Blocked(disk, path)
          /\ disk' = Put(disk, path, <<"other">>)
          /\ strangers' = strangers \union
                {[key |-> Key(path), late |-> run.pc \in {"unit", "write"} /\ Key(path) = Key(Item.path)]}
    /\ UNCHANGED <<tree, force, foldsCase, keepPartial, before, run, tracker>>

TreeNext == Preflight \/ CheckItem \/ OpenUnit \/ WriteItem \/ CommitItem \/ FinishItem \/ FailItem \/ EndTree \/ Stranger

-----------------------------------------------------------------------------
\* run_tree_export: "an item whose destination appeared during this run (or is a file this run already
\* wrote) is skipped rather than overwritten", and force replaces only what the preflight saw.  Every
\* item reported as exported is complete at its path, and every other file is the one it was, but for
\* the file that appeared at an item's destination once path_taken had answered for it: the item's rename
\* takes its place, and nothing else does.
OthersFilesSurvive ==
    LET replaced(k) == \E i \in run.renamed : k = Key(Plan.items[i].path) /\ disk[k] = <<"item", i>>
    IN /\ \A i \in run.renamed : Key(Plan.items[i].path) \in DOMAIN disk /\ disk[Key(Plan.items[i].path)] = <<"item", i>>
       /\ \A s \in strangers : s.key \in DOMAIN disk /\ (disk[s.key] = <<"other">> \/ (s.late /\ replaced(s.key)))
       /\ \A k \in DOMAIN before : k \in DOMAIN disk /\ (disk[k] = before[k] \/ (force /\ replaced(k)))

\* A run that ends has written, skipped or reported each leaf below the folder that is no view of a disk
\* image, each once, and a .part stays exactly if the run failed and says so.  A cancel between an item's
\* rename and item_finished finds the item whole at its path: it is not counted as exported, and what is
\* said of it is what is said of a .part.
EverythingIsAccounted ==
    LET parts == {k \in DOMAIN disk : disk[k][1] = "part"}
        between == run.renamed \ run.exported
    IN /\ run.exported \subseteq run.renamed /\ between \subseteq {run.i}
       /\ run.pc = "failed" =>
            /\ parts # {} <=> tracker.note = "kept" /\ between = {}
            /\ between # {} => tracker.item = run.i /\ tracker.note = (IF run.wrote THEN "kept" ELSE "never written")
            /\ tracker.done = Cardinality(run.exported)
       /\ run.pc = "done" =>
            /\ run.exported \union run.skipped = DOMAIN Plan.items /\ run.exported \cap run.skipped = {}
            /\ tracker.done = Cardinality(run.exported) /\ between = {} /\ parts = {}
            /\ \A i \in DOMAIN tree :
                  LET above == {j \in 1..i : \A k \in j + 1..i : tree[k].depth > tree[j].depth}
                  IN tree[i].leaf =>
                        \/ \E item \in Range(Plan.items) : item.node = tree[i]
                        \/ \E j \in above : tree[j].kind = "fs" \/ \E s \in Range(Plan.skipped) : s.node = tree[j]

\* No two planned items have one path, and a synthesized name never shares one up to case.
PathsAreDistinct ==
    \A i, j \in DOMAIN Plan.items : i < j =>
        /\ Plan.items[i].path # Plan.items[j].path
        /\ Plan.items[j].node.synth => Fold(Plan.items[i].path) # Fold(Plan.items[j].path)

\* A sanitized name passes the check a backed-up name must pass.
SanitizedIsSafe(s, windows) == SafeSegment(SafeFileName(s, windows), windows)
=============================================================================
