------------------------------ MODULE TreePanel ------------------------------
(***************************************************************************)
(* The panel of collections: the tree component over the workspace's       *)
(* collections and their items, its menus and dialogs, and the calls they  *)
(* make (ui/src/features/workspace/CollectionPanel.tsx, panel-tree.tsx,    *)
(* panel-wiring.ts over ui/src/components/tree/Tree.tsx).                  *)
(*                                                                         *)
(* A row's id is the path of the items it is below, and changes when one   *)
(* of them is moved; calls name an item by the names on that path.  The    *)
(* model knows who an item is and so can tell when either goes astray.     *)
(***************************************************************************)
EXTENDS Naturals, Sequences, FiniteSets, SequencesExt, FiniteSetsExt

CONSTANTS
  Dirs,      \* the directories a collection may be in, in the order of the listing
  Items,     \* requests and folders, each created once at most
  Folders,   \* those that are folders
  Names,     \* display names
  Starts,    \* what there may be at the start: the collections, the tree, the view,
             \* and bounds: what the user does, how much of it changes something, the
             \* views that are visited, the directories that collections are put in
  Status,    \* the placeholder row of a collection that has nothing to show
  Mac,       \* the platform's chords
  Strokes,   \* the keys that are tried
  Careful,   \* the user changes nothing while something else is going on, and
             \* adds to folders of the active collection alone
  Page,      \* rows per page
  MAX_RESOLVE_PASSES, \* how often the rows are made anew in one step (TreeRows)
  None

ASSUME ItemsAssumption ==
  /\ Folders \subseteq Items /\ Items \cap ({None} \cup ToSet(Dirs)) = {}
  /\ Page \in Nat /\ MAX_RESOLVE_PASSES \in Nat
ASSUME DirsAssumption == Dirs \in Seq(ToSet(Dirs)) /\ IsFiniteSet(Items)
\* What there may be at the start: collections in their directories, with items.
ASSUME PanelAssumption ==
  \A start \in Starts :
    /\ start.cols \in Seq(ToSet(Dirs)) \ {<< >>} /\ start.dirs \subseteq ToSet(Dirs)
    /\ start.tree \in [kids : [ToSet(start.cols) \cup Folders -> Seq(Items)], name : [Items -> Names]]

VARIABLES
  served,   \* the server's collections, by directory
  tree,     \* the server's items: who is in what, in which order, and names
  cols,     \* the listing of the collections as the browser has it
  landed,   \* collections whose items the browser has been sent
  missing,  \* ... and those the server answered it does not have
  calls,    \* what was sent and is not answered, oldest first
  chosen,   \* the collection that was made the active one (activeCollection)
  view,     \* the view that is shown (activeView)
  rows,     \* the rows on screen (flat)
  ui,       \* focus, anchor, selection and expansion
  seen,     \* ids that were expanded by default since the tree was mounted
  filter,   \* the filter box: None or a name
  renaming, \* the row whose name is being typed
  drag,     \* the rows being dragged, and the drop the indicator shows
  modal,    \* the menu or dialog that is open
  batch,    \* the moves of one drop: those still to make, all, and where to
  shut,     \* history: ids opened by default that the user has collapsed since the tree was mounted
  count     \* what the user may still do (bounds)

vars == <<served, tree, cols, landed, missing, calls, chosen, view, rows, ui, seen, filter,
          renaming, drag, modal, batch, shut, count>>

-----------------------------------------------------------------------------
(***************************************************************************)
(* The tree's items.                                                       *)
(***************************************************************************)
Present(t) == UNION {ToSet(t.kids[x]) : x \in DOMAIN t.kids}
Parent(t, i) == CHOOSE x \in DOMAIN t.kids : Contains(t.kids[x], i)

\* The path to an item, its collection first (itemKey, ItemWithPath.path).
Key(t, i) ==
  LET key[j \in Items \cup ToSet(Dirs)] ==
        IF j \in DOMAIN t.kids \ Folders THEN <<j>> ELSE Append(key[Parent(t, j)], j)
  IN key[i]
Named(t, key) == [k \in 1..Len(key) - 1 |-> t.name[key[k + 1]]]
Path(t, i) == Named(t, Key(t, i))

\* What a menu, a dialog or a batch holds on to of an item.
Snap(t, key) == [i |-> Last(key), key |-> key, path |-> Named(t, key)]
Below(t, i) == {j \in Present(t) : Contains(Key(t, j), i)}

\* Who is at a path of names: the collection itself, or what is below it
\* (resolveFolder); and whom the last name is of (resolveChild).
AtPath(t, c, path) ==
  FoldLeft(LAMBDA found, name : {i \in UNION {ToSet(t.kids[x]) : x \in found \cap DOMAIN t.kids} : t.name[i] = name},
           {c}, path)
Child(t, c, path) ==
  {i \in UNION {ToSet(t.kids[x]) : x \in AtPath(t, c, Front(path)) \cap DOMAIN t.kids} : t.name[i] = Last(path)}

-----------------------------------------------------------------------------
(***************************************************************************)
(* The collections: which are listed, which one is active, what is shown.  *)
(***************************************************************************)
Listing(dirs) ==
  LET places == {i \in DOMAIN Dirs : Dirs[i] \in dirs}
  IN [k \in 1..Cardinality(places) |->
        Dirs[CHOOSE i \in places : Cardinality({j \in places : j < i}) = k - 1]]

\* resolveActiveCollection: what was chosen while it is listed, else the first.
Resolve(choice, list) == IF Contains(list, choice) THEN choice ELSE list[1]
active == Resolve(chosen, cols)

Tiered(list) == Len(list) # 1

\* CurrentView: the panel, unless there is no collection where one is looked for.
Astray == missing # {} /\ active \in missing
PanelShown == view = "workspace" /\ ~ Astray

-----------------------------------------------------------------------------
(***************************************************************************)
(* What the tree shows: the listing, the items of the collections that are *)
(* active or expanded and have been sent, through the filter.              *)
(***************************************************************************)
Kept(t, q, i) ==
  LET kept[j \in Items] == q = None \/ t.name[j] = q \/ (j \in Folders /\ \E k \in ToSet(t.kids[j]) : kept[k])
  IN kept[i]

FilterTree(t, q, x) == FlattenSeq([k \in DOMAIN t.kids[x] |-> IF Kept(t, q, t.kids[x][k]) THEN <<t.kids[x][k]>> ELSE << >>])

\* collectionsToQuery
Queried(list, a, expanded) == {c \in ToSet(list) : c = a \/ <<c>> \in expanded}

\* What the tree's adapter is made from.
Host(list, t, l, q, a, expanded) ==
  [cols |-> list, tree |-> t, loaded |-> l \cap Queried(list, a, expanded), filter |-> q, active |-> a]

\* panelTreeAdapter
PanelChildren(host, id) ==
  LET items(x, above) == LET all == FilterTree(host.tree, host.filter, x)
                         IN [k \in DOMAIN all |-> Append(above, all[k])]
      sole == host.cols[1]
  IN CASE id = None /\ Tiered(host.cols) -> [k \in DOMAIN host.cols |-> <<host.cols[k]>>]
       [] id = None /\ ~ Tiered(host.cols) -> IF sole \in host.loaded THEN items(sole, <<sole>>) ELSE << >>
       [] id # None /\ Len(id) = 1 ->
            IF id[1] \notin host.loaded \/ items(id[1], id) = << >> THEN << <<id[1], Status>> >> ELSE items(id[1], id)
       [] OTHER -> items(Last(id), id)

PanelState(host, id) ==
  CASE Len(id) = 1 -> IF id[1] = host.active THEN "expanded" ELSE "collapsed"
    [] Len(id) > 1 -> IF Last(id) \in Folders THEN "expanded" ELSE "none"

\* No item is below more than all the others, and its collection.
INSTANCE TreeRows WITH Levels <- Cardinality(Items), GetChildren <- PanelChildren, CollapsibleState <- PanelState

\* Untiered, an empty collection has a text in place of the tree.
Mounted ==
  /\ PanelShown
  /\ Tiered(cols) \/ (cols[1] \in landed \cap served /\ tree.kids[cols[1]] # << >>)

\* The render that follows every step, and its effect: the defaults that were
\* folded in are written down and never fold in again.
Rendered(u, s) ==
  LET host == Host(cols', tree', landed', filter', active', u.expanded)
  IN IF Mounted'
       THEN \E shown \in {Resolved(host, u.expanded, s)} :
              /\ ui' = [u EXCEPT !.expanded = shown.open, !.hit = FALSE]
              /\ seen' = s \cup (shown.open \ u.expanded)
              /\ rows' = shown.rows
       ELSE /\ ui' = [u EXCEPT !.hit = FALSE, !.anchor = None]
            /\ seen' = {}
            /\ rows' = << >>

\* What the tree is and how much of it is here stays as it is.
Still == UNCHANGED <<served, tree, cols, landed, missing, view, filter>>

\* onFocusedChange: the collection of the row that got the focus is the active one.
Owner(u) == IF u.hit THEN u.focused[1] ELSE chosen

Acts == /\ count.acts > 0
        /\ Careful => cols = Listing(served)
        /\ count' = [count EXCEPT !.acts = @ - 1]

\* What was open by default and the user has collapsed, and not opened again.  The
\* tree that is taken off the screen forgets it (useTreeState.ts:70), and what is
\* moved while it is open is so where something was closed before (Taken).
Shut(u) == shut' = IF Mounted' THEN (shut \cup (seen \cap (ui.expanded \ u.expanded))) \ u.expanded ELSE {}
StillShut == shut' = IF Mounted' THEN shut ELSE {}

Apply(u) ==
  /\ chosen' = Owner(u)
  /\ Shut(u)
  /\ Rendered(u, seen)

-----------------------------------------------------------------------------
(***************************************************************************)
(* Keys and clicks.  While a name is typed, or a dialog or a drag is on,   *)
(* the tree gets none.                                                     *)
(***************************************************************************)
Typing == renaming # None /\ renaming \in Ids(rows)
Free == drag.ids = {} /\ modal.kind = "none" /\ Mounted /\ ~ Typing

\* The items among ids, as they are now (panelItems).
Snaps(ids) == {Snap(tree, id) : id \in {x \in ids \cap Ids(rows) : Last(x) \in Items}}

\* pruneNestedSelections compares paths of names: what is below another one goes,
\* and of those with one path all but the first.
Prune(snaps) ==
  LET top == {s \in snaps : ~ \E u \in snaps : IsStrictPrefix(u.path, s.path)}
  IN {kept \in SUBSET top : \A s \in top : Cardinality({u \in kept : u.path = s.path}) = 1}

Closed == [kind |-> "none", items |-> {}, asked |-> {}]
Open(kind, snaps, asked) ==
  /\ Careful => calls = << >>
  /\ modal' = [kind |-> kind, items |-> snaps, asked |-> asked]
Confirm(snaps) ==
  \E kept \in Prune(snaps) :
    IF kept = {} THEN modal' = Closed ELSE Open("delete", kept, snaps)

Intent(stroke) == KeyToIntent(stroke, Mac)

\* A key that opens an item opens its tab, which activates its collection.
KeyMoves(stroke) ==
  LET u == ApplyIntent(ui, rows, Intent(stroke), Page)
      opened == Intent(stroke) = "open" /\ Snaps({ui.focused}) # {} /\ ui.focused[Len(ui.focused)] \notin Folders
  IN /\ Free /\ Acts
     /\ Intent(stroke) \notin {"rename", "delete", None}
     /\ Still /\ UNCHANGED <<calls, renaming, drag, modal, batch>>
     /\ chosen' = IF opened THEN ui.focused[1] ELSE Owner(u)
     /\ Shut(u)
     /\ Rendered(u, seen)

KeyRenames(stroke) ==
  /\ Still /\ UNCHANGED <<calls, chosen, rows, ui, seen, drag, modal, batch, shut>>
  /\ Free /\ Acts
  /\ Intent(stroke) = "rename" /\ Index(rows, ui.focused) # 0
  /\ renaming' = ui.focused

KeyDeletes(stroke) ==
  /\ Still /\ UNCHANGED <<calls, chosen, rows, ui, seen, renaming, drag, batch, shut>>
  /\ Free /\ Acts
  /\ Intent(stroke) = "delete" /\ DeleteIds(ui, rows) # {}
  /\ Confirm(Snaps(DeleteIds(ui, rows)))

\* A plain click on a leaf opens its tab; the focus has activated its collection.
Click(i, mods) ==
  /\ Still /\ UNCHANGED <<calls, renaming, drag, modal, batch>>
  /\ Free /\ Acts /\ i \in DOMAIN rows
  /\ Apply(ApplyRowClick(ui, rows, rows[i], mods))

Twistie(i) ==
  /\ Still /\ UNCHANGED <<calls, renaming, drag, modal, batch>>
  /\ Free /\ Acts /\ i \in DOMAIN rows /\ rows[i].expandable
  /\ Apply(ApplyTwistieClick(ui, rows, rows[i]))

\* A second click opens an item's tab; on a folder it does nothing else.
DoubleClick(i) ==
  /\ Still /\ UNCHANGED <<calls, renaming, drag, modal, batch>>
  /\ Free /\ i \in DOMAIN rows /\ Last(rows[i].id) \in Items
  /\ Acts
  /\ chosen' = rows[i].id[1]
  /\ StillShut /\ Rendered(ui, seen)

\* handleContextMenu: a row that is not selected is selected instead.
MenuFocus(id) ==
  Focus(IF id \in ui.selection THEN ui ELSE [ui EXCEPT !.selection = {id}, !.anchor = id], id)

ContextMenu(i) ==
  /\ Still /\ UNCHANGED <<calls, renaming, drag, batch>>
  /\ Free /\ Acts /\ i \in DOMAIN rows
  /\ LET u == MenuFocus(rows[i].id)
     IN Apply(u) /\ Open("menu", Snaps(u.selection), {})

-----------------------------------------------------------------------------
(***************************************************************************)
(* Menus, buttons and dialogs.                                             *)
(***************************************************************************)
\* The parent of what is to be created is expanded (expandFolder).
AskFor(kind, parents) ==
  LET u == [ui EXCEPT !.expanded = @ \cup {s.key : s \in parents}]
  IN /\ Careful => \A s \in parents : s.key[1] = active
     /\ Open(kind, parents, {}) /\ Shut(u) /\ Rendered(u, seen)

\* startRename: nothing for an item that has no row.
StartRename(key) == renaming' = IF key \in Ids(rows) THEN key ELSE renaming

\* The panel's own buttons, and the menu on its empty space.
Header ==
  /\ Still /\ UNCHANGED <<calls, chosen, renaming, drag, batch>>
  /\ Free /\ Acts
  /\ \E kind \in {"folder", "request"} : AskFor(kind, {})

\* The buttons of an item's row, which leave the focus alone.
RowButton(i) ==
  /\ Still /\ UNCHANGED <<calls, drag, batch>>
  /\ Free /\ Acts /\ i \in DOMAIN rows
  /\ \E s \in Snaps({rows[i].id}) :
       \/ /\ Confirm({s}) /\ UNCHANGED <<chosen, rows, ui, seen, renaming, shut>>
       \/ /\ StartRename(s.key) /\ UNCHANGED <<chosen, rows, ui, seen, modal, shut>>
       \/ /\ s.i \in Folders /\ UNCHANGED <<chosen, renaming>> /\ AskFor("request", {s})
       \/ /\ s.i \in Folders /\ chosen' = s.key[1]
          /\ StillShut /\ Rendered(ui, seen) /\ UNCHANGED <<renaming, modal>>

\* collectionMenuItems: what there is for nothing, several, a request, a folder.
MenuChoice ==
  /\ Still /\ UNCHANGED <<calls, drag, batch, count>>
  /\ modal.kind = "menu"
  /\ LET one == Cardinality(modal.items) = 1
         folder == one /\ \A s \in modal.items : s.i \in Folders
     IN \/ /\ modal.items # {} /\ Confirm(modal.items)
           /\ UNCHANGED <<chosen, rows, ui, seen, renaming, shut>>
        \/ /\ one /\ modal' = Closed /\ \A s \in modal.items : StartRename(s.key)
           /\ UNCHANGED <<chosen, rows, ui, seen, shut>>
        \/ /\ modal.items = {} \/ folder
           /\ UNCHANGED <<chosen, renaming>>
           /\ \E kind \in {"folder", "request"} : AskFor(kind, modal.items)
        \/ /\ folder /\ modal' = Closed
           /\ \A s \in modal.items : chosen' = s.key[1]
           /\ StillShut /\ Rendered(ui, seen) /\ UNCHANGED renaming

Dismiss ==
  /\ modal.kind # "none"
  /\ modal' = Closed
  /\ Still /\ UNCHANGED <<calls, chosen, rows, ui, seen, renaming, drag, batch, shut, count>>

Sent(more) ==
  /\ count.changes > 0
  /\ Careful => calls = << >> /\ cols = Listing(served)
  /\ calls' = calls \o more

Send(more) == Sent(more) /\ count' = [count EXCEPT !.changes = @ - 1]

\* submitFolder, onPick: in the active collection, at the path of the parent.
Submit(i, name) ==
  /\ Still /\ UNCHANGED <<chosen, rows, ui, seen, renaming, drag, shut>>
  /\ modal.kind \in {"folder", "request"}
  /\ (i \in Folders) = (modal.kind = "folder")
  /\ i \notin Present(tree) \cup {calls[k].of : k \in DOMAIN calls}
  /\ \E parent \in modal.items \cup {[i |-> active, path |-> << >>]} :
       /\ modal.items # {} => parent \in modal.items
       /\ Send(<<[op |-> "create", coll |-> active, path |-> parent.path, in |-> parent.i, of |-> i, to |-> name]>>)
  /\ modal' = Closed
  /\ batch' = None

\* doDelete: one call each, at once.
ConfirmDelete ==
  /\ Still /\ UNCHANGED <<chosen, rows, ui, seen, renaming, drag, shut>>
  /\ modal.kind = "delete"
  /\ \E n \in 0..Cardinality(Items) : \E order \in Bijection(1..n, modal.items) :
       Send([k \in DOMAIN order |->
              [op |-> "delete", coll |-> order[k].key[1], path |-> order[k].path, of |-> order[k].i]])
  /\ modal' = Closed
  /\ batch' = None

\* renameVerdict: nothing new, the label of a sibling in sight, or a new name.
Siblings(id) ==
  {tree.name[Last(r.id)] : r \in {x \in ToSet(rows) : x.id # id /\ Last(x.id) \in Items
                                     /\ x.parent = rows[Index(rows, id)].parent}}

\* Mutant: addressed at the active collection.
RenameCallActive(key, name) ==
  [op |-> "rename", coll |-> active, path |-> Named(tree, key), of |-> Last(key), to |-> name]

\* doRename: addressed at the item's own collection.
RenameCall(key, name) ==
  [op |-> "rename", coll |-> key[1], path |-> Named(tree, key), of |-> Last(key), to |-> name]

TypeName(name) ==
  /\ Still /\ UNCHANGED <<chosen, rows, ui, seen, drag, modal, shut>>
  /\ Typing /\ modal.kind = "none"
  /\ renaming' = None
  /\ LET i == Last(renaming)
     IN IF i \notin Items \/ name = tree.name[i] \/ name \in Siblings(renaming)
          THEN UNCHANGED <<calls, batch, count>>
          ELSE Send(<<RenameCall(renaming, name)>>) /\ batch' = None

-----------------------------------------------------------------------------
(***************************************************************************)
(* Dragging.  What is dragged is kept as ids and looked up again at every  *)
(* step; the destination is the one the indicator was put up with.         *)
(***************************************************************************)
NoDrag == [ids |-> {}, drop |-> None]

DragStart(i) ==
  /\ Still /\ UNCHANGED <<calls, renaming, modal, batch>>
  /\ Free /\ Acts /\ i \in DOMAIN rows
  /\ LET id == rows[i].id
         selected == id \in ui.selection
     IN /\ drag' = [ids |-> IF selected THEN ui.selection \cap Ids(rows) ELSE {id}, drop |-> None]
        /\ Apply(IF selected THEN ui ELSE [ui EXCEPT !.selection = {id}, !.anchor = id])

\* draggedNodes: in the order of the rows.
DraggedNodes == SelectSeq([k \in DOMAIN rows |-> rows[k].id], LAMBDA id : id \in drag.ids)

\* destinationFor: None when the parent is gone; the end when the sibling is.
DestinationFor(res) ==
  IF res.parent \notin Ids(rows) \cup {None} THEN None
  ELSE [parent |-> res.parent, before |-> IF res.before \in Ids(rows) THEN res.before ELSE None]

\* panelDropCollection and the folder or collection that is the parent.
Into(to) == IF to.parent = None THEN cols[1] ELSE Last(to.parent)
IntoColl(to) == IF to.parent = None THEN cols[1] ELSE to.parent[1]
IntoPath(to) == IF Into(to) \in Folders THEN Path(tree, Into(to)) ELSE << >>

\* panelDropAllowed: items, all of the collection they are dropped in.
DropAllowed(ids, to) ==
  /\ ids # {} /\ \A id \in ids : Last(id) \in Items
  /\ to.parent = None => ~ Tiered(cols)
  /\ Into(to) # Status
  /\ \A id \in ids : id[1] = IntoColl(to)
  /\ to.before # None => to.before[1] = IntoColl(to)

\* panelCanDrop: no name twice, whether the filter shows it or not.
Fits(kept, to) ==
  LET moving == {s \in kept : Front(s.path) # IntoPath(to)}
  IN /\ \A s \in moving : AtPath(tree, IntoColl(to), Append(IntoPath(to), Last(s.path))) = {}
     /\ \A s, u \in moving : Last(s.path) = Last(u.path) => s = u

CanDrop(to) ==
  /\ DropAllowed(ToSet(DraggedNodes), to)
  /\ \A kept \in Prune(Snaps(drag.ids)) : Fits(kept, to)

Indicated(i, zone) ==
  LET res == DropTargetAt(rows, i, zone, drag.ids)
  IN IF res = None THEN None
     ELSE IF DestinationFor(res) = None THEN None
     ELSE IF ~ CanDrop(DestinationFor(res)) THEN None
     ELSE [row |-> rows[i].id, zone |-> zone, res |-> res]

\* handleDragOver: while row and zone stay, so does the destination.
DragOver(i, zone) ==
  /\ drag.ids # {} /\ i \in DOMAIN rows /\ zone \in Zones(rows[i])
  /\ \E next \in {Indicated(i, zone)} :
       LET same == next # None /\ drag.drop # None /\ next.row = drag.drop.row /\ next.zone = drag.drop.zone
       IN drag' = [drag EXCEPT !.drop = IF same THEN @ ELSE next]
  /\ Still /\ UNCHANGED <<calls, chosen, rows, ui, seen, renaming, modal, batch, shut, count>>

\* The pointer leaves, or the drag is given up.
DragAway ==
  /\ drag.ids # {}
  /\ drag' \in {NoDrag, [drag EXCEPT !.drop = None]}
  /\ Still /\ UNCHANGED <<calls, chosen, rows, ui, seen, renaming, modal, batch, shut, count>>

MoveCall(b) ==
  [op |-> "move", coll |-> b.coll, path |-> Head(b.left).path, of |-> Head(b.left).i,
   to |-> b.path, in |-> b.in, before |-> b.before, n |-> b.n]

\* What is left of them when what goes along with another one is taken out.
Dropped(kept) == SelectSeq(DraggedNodes, LAMBDA id : id \in {s.key : s \in kept})

\* Mutant: in the order they were selected in, which may be any.
InAnyOrder(kept) == SetToSeqs(kept)

\* One move at a time, in the order of the rows.
InRowOrder(kept) == {[k \in DOMAIN Dropped(kept) |-> Snap(tree, Dropped(kept)[k])]}

\* handleDrop, onTreeMove
Drop ==
  /\ Still /\ UNCHANGED <<renaming, modal>>
  /\ drag.drop # None
  /\ drag' = NoDrag
  /\ LET to == DestinationFor(drag.drop.res)
     IN IF to = None \/ Snaps(drag.ids) = {}
          THEN UNCHANGED <<calls, chosen, rows, ui, seen, batch, shut, count>>
          ELSE \E kept \in Prune(Snaps(drag.ids)) : \E order \in InRowOrder(kept) :
                 LET b == [left |-> order, all |-> Dropped(kept), coll |-> IntoColl(to), in |-> Into(to),
                           path |-> IntoPath(to), n |-> count.changes,
                           before |-> IF to.before # None /\ Last(to.before) \in Items
                                        THEN tree.name[Last(to.before)] ELSE None,
                           next |-> IF to.before # None /\ Last(to.before) \in Items THEN Last(to.before) ELSE None]
                     u == [ui EXCEPT !.expanded = @ \cup (IF Into(to) \in Folders THEN {to.parent} ELSE {})]
                 IN /\ batch' = b
                    /\ Send(<<MoveCall(b)>>)
                    /\ chosen' = chosen /\ Shut(u) /\ Rendered(u, seen)

-----------------------------------------------------------------------------
(***************************************************************************)
(* The server, and what its answers do.                                    *)
(***************************************************************************)
\* Whom a call names: an item, or where one is to be.
Who(c) == IF c.op \in {"delete", "rename", "move"} THEN Child(tree, c.coll, c.path) ELSE AtPath(tree, c.coll, c.path)
Namesake(t, x, name) == \E j \in ToSet(t.kids[x]) : t.name[j] = name
Target(c) == AtPath(tree, c.coll, c.to)

Accepts(c) ==
  CASE c.op = "newcoll" -> c.to \notin served
    [] c.op = "recol" -> c.coll \in served /\ c.to \notin served
    [] c.op = "delete" -> Who(c) # {}
    [] c.op = "rename" -> \E i \in Who(c) : ~ Namesake(tree, Parent(tree, i), c.to)
    [] c.op = "create" -> \E x \in Who(c) \cap DOMAIN tree.kids : ~ Namesake(tree, x, c.to)
    [] c.op = "move" -> \E i \in Who(c), x \in Target(c) \cap DOMAIN tree.kids :
                          /\ x \notin Below(tree, i)
                          /\ x = Parent(tree, i) \/ ~ Namesake(tree, x, tree.name[i])

\* insertSlug: before the sibling of that name, if it is another one and there.
Inserted(t, x, i, name) ==
  LET at == SelectInSeq(t.kids[x], LAMBDA j : t.name[j] = name)
  IN IF at = 0 THEN Append(t.kids[x], i) ELSE InsertAt(t.kids[x], at, i)

Without(t, i) == [t EXCEPT !.kids[Parent(t, i)] = RemoveFirst(@, i)]

Effect(c) ==
  LET i == CHOOSE x \in Who(c) : TRUE
  IN CASE c.op = "newcoll" -> [tree EXCEPT !.kids = [x \in {c.to} \cup DOMAIN @ |-> IF x = c.to THEN << >> ELSE @[x]]]
       [] c.op = "recol" ->
            [tree EXCEPT !.kids = [x \in {c.to} \cup (DOMAIN @ \ {c.coll}) |-> @[IF x = c.to THEN c.coll ELSE x]]]
       [] c.op = "delete" ->
            [Without(tree, i) EXCEPT !.kids = [x \in DOMAIN @ |-> IF x \in Below(tree, i) THEN << >> ELSE @[x]]]
       [] c.op = "rename" -> [tree EXCEPT !.name[i] = c.to]
       [] c.op = "create" -> [tree EXCEPT !.kids[i] = Append(@, c.of), !.name[c.of] = c.to]
       [] c.op = "move" ->
            LET x == CHOOSE y \in Target(c) : TRUE
            IN [Without(tree, i) EXCEPT !.kids[x] = Inserted(Without(tree, i), x, i, c.before)]

\* Mutant: what is below the moved item is left where it was.
MovedOnly(id, old, new) == IF id = old THEN new ELSE id

\* moveSubtree: the id of the item and of everything below it.
Moved(id, old, new) ==
  IF id # None /\ IsPrefix(old, id) THEN new \o SubSeq(id, Len(old) + 1, Len(id)) ELSE id

\* What the panel, or the tree in it, keeps to itself goes with it.
PanelKept == filter' = IF PanelShown' THEN filter ELSE None
DialogKept == modal' = IF PanelShown' THEN modal ELSE Closed
TreeKept ==
  /\ renaming' = IF Mounted' THEN renaming ELSE None
  /\ drag' = IF Mounted' THEN drag ELSE NoDrag

Rekeyed(old, new) ==
  LET Re(id) == Moved(id, old, new)
  IN [ui EXCEPT !.expanded = {Re(id) : id \in @}, !.selection = {Re(id) : id \in @}, !.focused = Re(@)]

\* The answer to a move, for whoever still listens: the moved item's new id is
\* read off it, and the next move is asked for.
Continues(c) == c.op = "move" /\ batch # None /\ batch.n = c.n

MovedTo(c) == Key(tree', CHOOSE i \in Child(tree', c.coll, Append(c.to, Last(c.path))) : TRUE)

\* What an answer makes of the ids: renameCollection for the whole collection.
After(c) ==
  IF c.op = "recol" THEN Rekeyed(<<c.coll>>, <<c.to>>)
  ELSE IF Continues(c) THEN Rekeyed(Head(batch.left).key, MovedTo(c)) ELSE ui

\* Mutant: what was active is not looked after.
ActivatedNot(c) == chosen

\* A collection that was created or renamed becomes the active one.
Activated(c) == IF c.op \in {"newcoll", "recol"} THEN c.to ELSE chosen

\* A call that creates or renames a collection is answered with it; the listing
\* is asked for again.
Held(c) == IF c.op \in {"newcoll", "recol"} THEN c.to ELSE c.coll

Taken(c) ==
  LET rest == [batch EXCEPT !.left = Tail(@)]
  IN /\ served' = CASE c.op = "newcoll" -> served \cup {c.to}
                   [] c.op = "recol" -> (served \ {c.coll}) \cup {c.to}
                   [] OTHER -> served
     /\ tree' = Effect(c)
     /\ landed' = (IF c.op = "recol" THEN landed \ {c.coll} ELSE landed) \cup {Held(c)}
     /\ missing' = missing \ {Held(c)}
     /\ chosen' = Activated(c)
     /\ UNCHANGED <<cols, view>>
     /\ PanelKept /\ DialogKept /\ TreeKept
     /\ Rendered(After(c), seen)
     /\ shut' = IF Mounted' THEN shut \ (After(c).expanded \ ui.expanded) ELSE {}
     /\ calls' = Tail(calls) \o (IF Continues(c) /\ rest.left # << >> THEN <<MoveCall(rest)>> ELSE << >>)
     /\ batch' = CASE ~ PanelShown' -> None
                  [] PanelShown' /\ Continues(c) -> rest
                  [] OTHER -> batch

Refused(c) ==
  /\ calls' = Tail(calls)
  /\ batch' = IF Continues(c) THEN None ELSE batch
  /\ Still /\ UNCHANGED <<chosen, rows, ui, seen, renaming, drag, modal, shut>>

Answer ==
  /\ calls # << >>
  /\ IF Accepts(Head(calls)) THEN Taken(Head(calls)) ELSE Refused(Head(calls))
  /\ UNCHANGED count

\* What the browser is sent changes what is shown.
Arrives ==
  /\ UNCHANGED <<served, tree, chosen, view>>
  /\ PanelKept /\ DialogKept /\ TreeKept
  /\ Rendered(ui, seen)
  /\ StillShut
  /\ batch' = (IF PanelShown' THEN batch ELSE None)
  /\ UNCHANGED <<calls, count>>

\* The answer to the Get of a collection the tree, or the top bar, needs.
Wanted == {active} \cup (IF PanelShown THEN Queried(cols, active, ui.expanded) ELSE {})

Landed(c) ==
  /\ c \in Wanted \ (landed \cup missing)
  /\ landed' = IF c \in served THEN landed \cup {c} ELSE landed
  /\ missing' = IF c \in served THEN missing ELSE missing \cup {c}
  /\ UNCHANGED cols
  /\ Arrives

\* The answer to the listing that was asked for again.
Listed ==
  /\ cols # Listing(served)
  /\ cols' = Listing(served)
  /\ UNCHANGED <<landed, missing>>
  /\ Arrives

-----------------------------------------------------------------------------
(***************************************************************************)
(* Around the tree: the filter box; the switcher in the top bar and its    *)
(* dialogs; what is shown when there is no collection; and the rail, which *)
(* takes the panel off the screen and back.                                *)
(***************************************************************************)
Idle == ~ Typing /\ drag.ids = {} /\ modal.kind = "none"

TypeFilter(q) ==
  /\ Idle /\ PanelShown /\ q # filter
  /\ Acts
  /\ filter' = q
  /\ UNCHANGED <<served, cols, tree, landed, missing, chosen, view>>
  /\ Rendered(ui, seen)
  /\ UNCHANGED <<calls, renaming, drag, modal, batch>>
  /\ StillShut

SwitchCollection(c) ==
  /\ UNCHANGED <<served, cols, tree, landed, missing, view>>
  /\ Idle /\ c \in ToSet(cols) \ {active}
  /\ Acts
  /\ chosen' = c
  /\ PanelKept /\ DialogKept /\ TreeKept
  /\ Rendered(ui, seen)
  /\ StillShut
  /\ batch' = (IF PanelShown' THEN batch ELSE None)
  /\ UNCHANGED calls

Pending(op) == \E k \in DOMAIN calls : calls[k].op = op
CollectionCall(op, from, to) == [op |-> op, coll |-> from, path |-> << >>, of |-> from, to |-> to]

CallsAnew(c) ==
  /\ Sent(<<c>>) /\ count.acts > 0
  /\ count' = [count EXCEPT !.acts = @ - 1, !.changes = @ - 1]

\* The dialog lets one through at a time; the form that is shown when there is no
\* collection does not look.
CreateCollection(to) ==
  /\ Still /\ UNCHANGED <<chosen, rows, ui, seen, renaming, drag, modal, batch, shut>>
  /\ Idle
  /\ active \in missing \/ ~ Pending("newcoll")
  /\ CallsAnew(CollectionCall("newcoll", to, to))

RenameCollection(to) ==
  /\ Still /\ UNCHANGED <<chosen, rows, ui, seen, renaming, drag, modal, batch, shut>>
  /\ Idle /\ to # active
  /\ ~ Pending("recol")
  /\ CallsAnew(CollectionCall("recol", active, to))

ShowView(v) ==
  /\ v \in count.views \ {view}
  /\ Idle
  /\ Careful => calls = << >>
  /\ Acts
  /\ view' = v
  /\ UNCHANGED <<served, cols, tree, landed, missing, calls, chosen>>
  /\ PanelKept /\ DialogKept /\ TreeKept
  /\ batch' = (IF PanelShown' THEN batch ELSE None)
  /\ Rendered(ui, seen)
  /\ StillShut

-----------------------------------------------------------------------------
InitWith(start) ==
  /\ served = ToSet(start.cols) /\ cols = start.cols /\ tree = start.tree
  /\ landed = {} /\ missing = {} /\ chosen = start.cols[1] /\ view = start.view
  /\ count = [acts |-> start.acts, changes |-> start.changes, views |-> start.views, dirs |-> start.dirs]
  /\ ui = [expanded |-> IF Mounted THEN {<<active>>} ELSE {}, selection |-> {},
           focused |-> None, anchor |-> None, hit |-> FALSE]
  /\ seen = ui.expanded
  /\ rows = IF Mounted THEN Flatten(Host(cols, tree, {}, None, active, ui.expanded), ui.expanded) ELSE << >>
  /\ calls = << >> /\ filter = None /\ renaming = None /\ drag = NoDrag /\ modal = Closed
  /\ batch = None /\ shut = {}

Init == \E start \in Starts : InitWith(start)

User ==
  \/ \E stroke \in Strokes : KeyMoves(stroke) \/ KeyRenames(stroke) \/ KeyDeletes(stroke)
  \/ \E i \in DOMAIN rows : \/ \E mods \in {"plain", "shift", "mod"} : Click(i, mods)
                          \/ Twistie(i) \/ DoubleClick(i) \/ ContextMenu(i) \/ RowButton(i) \/ DragStart(i)
                          \/ \E zone \in {"before", "into", "after"} : DragOver(i, zone)
  \/ Header \/ MenuChoice \/ Dismiss \/ ConfirmDelete \/ DragAway \/ Drop
  \/ \E i \in Items, name \in Names : Submit(i, name)
  \/ \E name \in Names : TypeName(name)
  \/ \E q \in Names \cup {None} : TypeFilter(q)
  \/ \E c \in ToSet(cols) : SwitchCollection(c)
  \/ \E to \in count.dirs : CreateCollection(to) \/ RenameCollection(to)
  \/ \E v \in count.views : ShowView(v)

Next == User \/ Answer \/ Listed \/ \E c \in ToSet(cols) : Landed(c)

Spec == Init /\ [][Next]_vars

-----------------------------------------------------------------------------
(***************************************************************************)
(* Properties.                                                             *)
(***************************************************************************)
TypeOK ==
  /\ (served \cup landed \cup missing) \subseteq ToSet(Dirs) /\ active \in ToSet(cols)
  /\ \A x \in DOMAIN tree.kids : IsInjective(tree.kids[x]) /\ ToSet(tree.kids[x]) \subseteq Items
  /\ \A i \in DOMAIN rows : /\ rows[i].depth = Len(rows[i].id) - (IF Tiered(cols) THEN 1 ELSE 2)
                            /\ rows[i].expanded => rows[i].id \in ui.expanded
  /\ drag.drop # None => drag.ids # {}
  /\ modal.kind \in {"none", "menu", "delete", "folder", "request"}

\* A call reaches the item that was clicked, dropped on or had the focus when it
\* was asked for, though it only says names: "addressed at ITS collection, not the
\* active one" (CollectionPanel.tsx:147).
HitsWhatWasMeant ==
  calls # << >> =>
    LET c == Head(calls)
    IN /\ Who(c) = {IF c.op = "create" THEN c.in ELSE c.of}
       /\ c.op = "move" => Target(c) = {c.in}

\* Rows that were dropped together end up side by side, in the order they were in
\* on the screen, where the indicator was: "firing order is the resulting sibling
\* order" (Tree.tsx:343).  The sibling they go before is not one of them.
MovedTogether ==
  batch # None /\ batch.left = << >> =>
    LET moved == [k \in DOMAIN batch.all |-> Last(batch.all[k])]
        kids == tree.kids[batch.in]
        end == IF batch.next = None THEN Len(kids) ELSE SelectInSeq(kids, LAMBDA j : j = batch.next) - 1
    IN ~ Contains(moved, batch.next) => IsSuffix(moved, SubSeq(kids, 1, end))

\* Ids that the tree keeps of an item that is there are its path: they were
\* rewritten when it, or a folder above it, was moved.  The rows are those of a tree
\* (TypeOK).
KeysCurrent ==
  TypeOK /\ \A id \in ui.selection \cup ui.expanded \cup ({ui.focused} \ {None}) :
    Last(id) \in Present(tree) => id = Key(tree, Last(id))

\* A row that was open by default and that the user has collapsed stays so, whatever
\* is answered, arrives, is filtered, chosen, created, renamed, deleted or moved around
\* it: "a later manual collapse is never sprung back open" (panel-tree.tsx:178).  This
\* is said of a row by its id, and while the tree is on the screen: a folder that is
\* moved while it is collapsed has another id, and opens, as do the collapsed rows of a
\* tree that is come back to.
CollapseSticks == shut \cap ui.expanded = {}

\* As long as the tree is the same, nothing the user does hides the row that has
\* the focus: the keys would have nothing to start from.
FocusInSight ==
  [][UNCHANGED <<tree, cols, landed, missing, view, filter>> /\ ui.focused \in Ids(rows)
       => ui'.focused \in Ids(rows')]_vars

\* The server refuses none of the moves and deletes the panel asks for: their names
\* fit where they go, and none is of something that went with another one.
NeverRefused ==
  calls # << >> /\ Head(calls).op \in {"move", "delete"} => Accepts(Head(calls))

\* The dialog that confirms a delete names everything it was asked for, or a folder
\* it is in: pruning "drops items already covered by an ancestor" (format.ts:112), no
\* others.
NothingForgotten ==
  modal.kind = "delete" /\ Cardinality({a.key[1] : a \in modal.asked}) = 1 =>
    \A a \in modal.asked : \E s \in modal.items : IsPrefix(s.key, a.key)

\* What the user asks for is done: to the item that was meant, whole, and without
\* a call that cannot succeed.
DoneAsAsked == HitsWhatWasMeant /\ NeverRefused /\ NothingForgotten

\* When nothing is under way the collection that was chosen is one there is, also
\* when it is called something else by now, and the view is not taken for one that
\* has no collection: "live observers, one still pointed at the old id would
\* refetch it" (workspace-query.ts:254).
ChoiceListed ==
  calls = << >> /\ cols = Listing(served) => chosen \in served /\ active \notin missing
=============================================================================
