------------------------------ MODULE SaasTrees ------------------------------
(***************************************************************************)
(* The trees of SaaS versions (sdk/units/saas/): the tree strategies over  *)
(* service-DB tables, which one each workload builds, the raw object list  *)
(* and the composite of several.  A table is a set of rows; ids, names and *)
(* key segments are one token, in the order of NameOrder; rowid follows    *)
(* the id.  An entry is [key, name, leaf, row], row <<>> for none.         *)
(***************************************************************************)
EXTENDS Integers, Sequences, FiniteSets, SequencesExt, FiniteSetsExt

CONSTANTS
    PageSize,     \* _PAGE_SIZE
    NameOrder     \* tokens in their byte order

AllOf == -1       \* limit=None
Null == <<>>      \* NULL in a column
Rank(s) == IF s = Null THEN 0 ELSE CHOOSE i \in DOMAIN NameOrder : NameOrder[i] = s[1]
UNode(ext, name, leaf, handle) == [ext |-> ext, name |-> name, leaf |-> leaf, handle |-> handle]
Paginate(items, offset, limit) == SubSeq(items, offset + 1, IF limit = AllOf THEN Len(items) ELSE Min({offset + limit, Len(items)}))

(* storage/table.py.  columns are those the real table has. *)
TableCreate(table, required) == table.columns # {} /\ required \subseteq table.columns
ByName(x, y) == Rank(x.name) < Rank(y.name) \/ (x.name = y.name /\ Rank(x.id) < Rank(y.id))
InOrder(order, x, y) ==
    CASE order = "name" -> ByName(x, y) [] order = "newest" -> ByName(y, x)
      [] order = "folder" -> IF x.folder # y.folder THEN x.folder ELSE ByName(x, y)
Sorted(rows, order) == SetToSortSeq(rows, LAMBDA x, y : InOrder(order, x, y))
Select(rows, order, offset, limit) == Paginate(Sorted(rows, order), offset, limit)
SelectOne(rows) == IF rows = {} THEN <<>> ELSE <<CHOOSE r \in rows : \A q \in rows : Rank(r.id) <= Rank(q.id)>>

(* tree_strategy/ *)
TreeEntry(key, name, leaf, row) == [key |-> key, name |-> name, leaf |-> leaf, row |-> row]
LeafEntries(page, prefix) == [i \in DOMAIN page |-> TreeEntry(Append(prefix, page[i].id), page[i].name, TRUE, <<page[i]>>)]
FlatLeafEntries(rows, order, offset, limit, prefix) == LeafEntries(Select(rows, order, offset, limit), prefix)

\* RecursiveTree: every key is one id; the root has no row.
RecursiveEntry(r) == TreeEntry(<<r.id>>, r.name, ~r.folder, <<r>>)
RecursiveEntries(page) == [i \in DOMAIN page |-> RecursiveEntry(page[i])]
RecursiveChildren(t, key, offset, limit) ==
    RecursiveEntries(Select({r \in t.rows : r.parent = IF key = <<>> THEN t.root ELSE key[1]}, "folder", offset, limit))
ResolveId(t, id) == RecursiveEntries(SelectOne({r \in t.rows : r.id = id}))
ParentIdOf(t, row) == IF row.parent = t.root THEN Null ELSE row.parent

\* RecursiveGroupFlatTree: subfolders in full, then the leaves for what is left of the page.
FolderEntries(rows, key) ==
    [i \in DOMAIN rows |-> TreeEntry(Append(key, rows[i].id), IF rows[i].name = Null THEN rows[i].id ELSE rows[i].name, FALSE, <<>>)]
ListSubfolders(t, key, folder) == FolderEntries(Select({r \in t.groups : r.parent = folder}, "name", 0, AllOf), key)
GroupFlatChildrenUnshifted(t, key, offset, limit) ==
    LET folder == IF key = <<>> THEN t.root ELSE Last(key)
        page == Paginate(ListSubfolders(t, key, folder), offset, limit)
        remaining == IF limit = AllOf THEN AllOf ELSE Max({limit - Len(page), 0})
    IN IF remaining = 0 THEN page
       ELSE page \o FlatLeafEntries({r \in t.leaves : r.group = folder}, "newest", offset, remaining, key)
FoldersThenLeaves(t, key, folder, subfolders, page, offset, remaining) ==
    IF remaining = 0 THEN page
    ELSE page \o FlatLeafEntries({r \in t.leaves : r.group = folder}, "newest", Max({offset - Len(subfolders), 0}), remaining, key)
Remaining(page, limit) == IF limit = AllOf THEN AllOf ELSE Max({limit - Len(page), 0})
FolderPage(t, key, folder, subfolders, page, offset, limit) ==
    FoldersThenLeaves(t, key, folder, subfolders, page, offset, Remaining(page, limit))
ChildrenIn(t, key, folder, subfolders, offset, limit) == FolderPage(t, key, folder, subfolders, Paginate(subfolders, offset, limit), offset, limit)
GroupFlatChildren(t, key, offset, limit) ==
    LET folder == IF key = <<>> THEN t.root ELSE Last(key)
    IN ChildrenIn(t, key, folder, ListSubfolders(t, key, folder), offset, limit)

\* SyntheticGroupedTree: a group per value of the column, NULL the root's name; column is FALSE for none.
GroupEntries(t, values) ==
    LET token(v) == IF v = Null THEN t.rootName ELSE v
        shown(v) == IF v \in DOMAIN t.names THEN t.names[v] ELSE v
    IN [i \in DOMAIN values |-> TreeEntry(<<token(values[i])>>, IF values[i] = Null THEN t.rootName ELSE shown(values[i]), FALSE, <<>>)]
ListGroups(t, offset, limit) ==
    Paginate(GroupEntries(t, IF t.column THEN SetToSortSeq({r.group : r \in t.rows}, LAMBDA x, y : Rank(x) < Rank(y)) ELSE <<Null>>), offset, limit)
ListMembers(t, group, offset, limit) ==
    FlatLeafEntries({r \in t.rows : ~t.column \/ r.group = IF group = t.rootName THEN Null ELSE group},
                    IF t.descending THEN "newest" ELSE "name", offset, limit, <<group>>)
SyntheticChildren(t, key, offset, limit) ==
    CASE key = <<>> -> ListGroups(t, offset, limit)
      [] Len(key) = 1 -> ListMembers(t, key[1], offset, limit)
      [] OTHER -> <<>>

\* _NamedGroupTable, NamedGroupFlatTree, NamedGroupRecursiveTree.
TopLevelEntries(rows) ==
    [i \in DOMAIN rows |-> TreeEntry(<<rows[i].id>>, IF rows[i].override # Null THEN rows[i].override ELSE rows[i].name, FALSE, <<>>)]
ListTopLevel(t, offset, limit) == Paginate(TopLevelEntries(Select(t.groups, "name", 0, AllOf)), offset, limit)
NamedFlatChildren(t, key, offset, limit) ==
    CASE key = <<>> -> ListTopLevel(t, offset, limit)
      [] Len(key) = 1 -> FlatLeafEntries({r \in t.leaves : r.group = key[1]}, "name", offset, limit, key)
      [] OTHER -> <<>>
FolderOf(t, key) ==
    IF Len(key) > 1 THEN Last(key)
    ELSE LET group == SelectOne({g \in t.groups : g.id = key[1]}) IN IF group = <<>> THEN Null ELSE group[1].rootFolder
NamedEntries(page, key) == [i \in DOMAIN page |-> TreeEntry(Append(key, page[i].id), page[i].name, ~page[i].folder, <<page[i]>>)]
NamedRecursiveChildren(t, key, offset, limit) ==
    IF key = <<>> THEN ListTopLevel(t, offset, limit)
    ELSE NamedEntries(Select({r \in t.leaves : r.group = key[1] /\ r.parent = FolderOf(t, key)}, "folder", offset, limit), key)
\* _TeamsEntityFlatTree
EntityFlatChildren(t, key, offset, limit) ==
    IF key # <<>> THEN <<>> ELSE FlatLeafEntries(t.leaves, "name", offset, limit, <<>>)

InnerChildren(t, key, offset, limit) ==
    CASE t.tree = "recursive" -> RecursiveChildren(t, key, offset, limit)
      [] t.tree = "groupflat" -> GroupFlatChildren(t, key, offset, limit)
      [] t.tree = "synthetic" -> SyntheticChildren(t, key, offset, limit)
      [] t.tree = "namedflat" -> NamedFlatChildren(t, key, offset, limit)
      [] t.tree = "namedrecursive" -> NamedRecursiveChildren(t, key, offset, limit)
      [] t.tree = "entities" -> EntityFlatChildren(t, key, offset, limit)

\* CategorizedGroupTree: a level of categories, in the order of labels, those without a member left out.
CategoriesPresent(t) == SelectSeq(t.labels, LAMBDA c : \E m \in DOMAIN t.categories : t.categories[m] = c)
InCategory(category, entries) == [i \in DOMAIN entries |-> [entries[i] EXCEPT !.key = <<category>> \o @]]
CategoryEntries(present) == [i \in DOMAIN present |-> TreeEntry(<<present[i]>>, present[i], FALSE, <<>>)]
MembersOf(t, category, all) ==
    InCategory(category, SelectSeq(all, LAMBDA e : e.key[1] \in DOMAIN t.categories /\ t.categories[e.key[1]] = category))
CategorizedChildren(t, key, offset, limit) ==
    CASE key = <<>> -> Paginate(CategoryEntries(CategoriesPresent(t)), offset, limit)
      [] Len(key) = 1 -> Paginate(MembersOf(t, key[1], InnerChildren(t.inner, <<>>, 0, AllOf)), offset, limit)
      [] OTHER -> InCategory(key[1], InnerChildren(t.inner, Tail(key), offset, limit))
ChildrenOf(t, key, offset, limit) ==
    IF t.tree = "categorized" THEN CategorizedChildren(t, key, offset, limit) ELSE InnerChildren(t, key, offset, limit)

(* The tree factories *)
DriveTree(p) == [tree |-> "recursive", rows |-> p.rows, root |-> p.root]
\* _open_m365_folder_tree: nothing without the table, a column of it or the root's row.
HasFolderTree(p) == TableCreate(p.folderTable, {"folder_id", "parent_folder_id", "is_root"}) /\ p.root # Null
BuildMailTree(p) ==
    IF p.m365 /\ HasFolderTree(p)
    THEN [tree |-> "groupflat", groups |-> p.folders, leaves |-> p.rows, root |-> p.root]
    ELSE [tree |-> "synthetic", rows |-> p.rows, column |-> p.m365, descending |-> TRUE, rootName |-> <<"Mail">>,
          names |-> IF p.m365 /\ p.folderTable.columns # {} THEN [i \in {f.id : f \in p.folders} |-> (CHOOSE f \in p.folders : f.id = i).name] ELSE <<>>]
BuildContactTree(p) ==
    [tree |-> "synthetic", rows |-> p.rows, column |-> p.m365, descending |-> FALSE, rootName |-> <<"Contacts">>, names |-> <<>>]
Categorize(groups, other, mine) == [i \in {g.id : g \in groups} |-> IF (CHOOSE g \in groups : g.id = i).other THEN other ELSE mine]
BuildCalendarTree(p) ==
    [tree |-> "categorized", labels |-> <<<<"my">>, <<"other">>>>, categories |-> Categorize(p.groups, <<"other">>, <<"my">>),
     inner |-> [tree |-> "namedflat", groups |-> p.groups, leaves |-> p.rows]]
BuildSiteTree(p) ==
    [tree |-> "categorized", labels |-> <<<<"library">>, <<"list">>>>, categories |-> Categorize(p.groups, <<"list">>, <<"library">>),
     inner |-> [tree |-> "namedrecursive", groups |-> p.groups, leaves |-> p.rows]]
\* TeamsChatProvider.create: a channel without a row of its own is Standard; chats are one list.
BuildTeamsTree(p) ==
    LET entities == [tree |-> "entities", leaves |-> p.rows]
    IN IF ~p.channels THEN entities
       ELSE [tree |-> "categorized", labels |-> <<<<"standard">>, <<"private">>>>, inner |-> entities,
             categories |-> [i \in {r.id : r \in p.rows} |-> IF i \in DOMAIN p.types /\ p.types[i] = <<"private">> THEN <<"private">> ELSE <<"standard">>]]
SaasTree(p) ==
    CASE p.kind = "drive" -> DriveTree(p) [] p.kind = "mail" -> BuildMailTree(p) [] p.kind = "contact" -> BuildContactTree(p)
      [] p.kind = "calendar" -> BuildCalendarTree(p) [] p.kind = "site" -> BuildSiteTree(p) [] p.kind = "teams" -> BuildTeamsTree(p)

(* Providers *)
\* SaasWorkloadProvider._node_for, TeamsChatProvider._node_for.
NodeFor(e) == UNode(e.key, e.name, e.leaf, <<IF e.leaf THEN "item" ELSE "group", e.key, e.row>>)
SaasRoot == UNode(<<>>, <<"root">>, FALSE, <<"group", <<>>, <<>>>>)
NodesFor(page) == [i \in DOMAIN page |-> NodeFor(page[i])]
TreeBackedChildren(p, n, offset, limit) == IF n.leaf THEN <<>> ELSE NodesFor(ChildrenOf(SaasTree(p), n.handle[2], offset, limit))
\* RecursiveTreeSaasProvider, which finds a node by its id.
ResolveExtra(p, ext) ==
    IF Len(ext) # 1 THEN <<>> ELSE NodesFor(ResolveId(DriveTree(p), ext[1]))
ParentOf(p, n) ==
    IF n.handle[2] = <<>> \/ n.handle[3] = <<>> THEN <<>>
    ELSE LET parent == ParentIdOf(DriveTree(p), n.handle[3][1])
         IN IF parent = Null THEN <<SaasRoot>> ELSE ResolveExtra(p, <<parent>>)
\* RawObjectProvider: the names of the index it can locate, all objects of a given ObjectDB, or one note.
RawChildren(p, offset, limit) ==
    LET nodes(names) == [i \in DOMAIN names |-> UNode(<<names[i]>>, names[i], TRUE, <<"range", names[i]>>)]
        named(entries) == nodes([i \in DOMAIN entries |-> entries[i].name])
    IN CASE p.manual -> Paginate(nodes(SetToSortSeq(p.objects, LAMBDA x, y : Rank(x) < Rank(y))), offset, limit)
         [] ~p.manual /\ p.index = "ok" -> Paginate(named(SelectSeq(p.names, LAMBDA e : e.object \in p.objects)), offset, limit)
         [] ~p.manual /\ p.index = "unreadable" /\ offset = 0 /\ limit # 0 -> <<UNode(<<<<"diagnostic">>>>, <<"diagnostic">>, TRUE, <<"unreadable">>)>>
         [] OTHER -> <<>>
\* CompositeSaasProvider: a sub-provider's nodes under its tag.
TagNode(n, tag) == UNode(<<tag>> \o n.ext, n.name, n.leaf, <<"tagged", tag, n>>)
TagNodes(page, tag) == [i \in DOMAIN page |-> TagNode(page[i], tag)]
CompositeChildren(p, n, offset, limit) ==
    IF n.handle[1] # "tagged" THEN Paginate([i \in DOMAIN p.subs |-> TagNode(SaasRoot, p.subs[i].tag)], offset, limit)
    ELSE TagNodes(TreeBackedChildren(p.subs[CHOOSE i \in DOMAIN p.subs : p.subs[i].tag = n.handle[2]], n.handle[3], offset, limit), n.handle[2])

\* The config's content: what opening a listed item gives.
SaasContent(p, n) ==
    LET row == n.handle[3][1]
        good == [ok |-> TRUE, degraded |-> FALSE]
        bad(e) == [ok |-> FALSE, err |-> e]
    IN CASE p.kind \in {"mail", "contact", "calendar", "teams"} -> good       \* a LazyArtifact; reading it may fail
         [] p.kind = "drive" -> IF row.object = Null \/ row.object \notin p.objects THEN bad("NotRestorable") ELSE good
         [] p.kind = "site" -> IF row.meta = Null THEN bad("NotRestorable")
                               ELSE IF row.object # Null /\ row.object \notin p.objects THEN bad("NotRestorable") ELSE good
SaasUnitOf(p, n) == IF n.handle[1] = "item" THEN SaasContent(p, n) ELSE [ok |-> FALSE, err |-> "NotRestorable"]

-----------------------------------------------------------------------------
SaasKinds == {"drive", "mail", "contact", "calendar", "site", "teams"}
\* The rows a tree shows: those whose ancestors reach its root.
RECURSIVE Anchored(_, _, _, _)
Anchored(rows, id, root, depth) ==
    id = root \/ (depth > 0 /\ \E r \in rows : r.id = id /\ Anchored(rows, r.parent, root, depth - 1))
Shown(p) ==
    LET depth == 3
    IN {r \in p.rows :
         CASE p.kind = "drive" -> Anchored({q \in p.rows : q.folder}, r.parent, p.root, depth)
           [] p.kind = "mail" /\ p.m365 /\ HasFolderTree(p) -> Anchored(p.folders, r.group, p.root, depth)
           [] p.kind = "calendar" -> \E g \in p.groups : g.id = r.group
           [] p.kind = "site" -> \E g \in p.groups : g.id = r.group /\ Anchored({q \in p.rows : q.folder /\ q.group = r.group}, r.parent, g.rootFolder, depth)
           [] OTHER -> TRUE}

\* Every item whose place in its table is sound is listed exactly once, no other is.
ItemsAreListedOnce(p, listed) ==
    LET items == {n \in listed : n.handle[1] \in {"item", "group"} /\ n.handle[3] # <<>>}
    IN /\ {n.handle[3][1] : n \in items} = Shown(p)
       /\ Cardinality(items) = Cardinality(Shown(p))
=============================================================================
