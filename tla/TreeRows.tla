------------------------------- MODULE TreeRows -------------------------------
(***************************************************************************)
(* The tree component, less its state: which rows are on screen, what a    *)
(* key, a click or the pointer of a drag does to focus, selection and      *)
(* expansion (ui/src/components/tree).  A row is known by its id alone;    *)
(* the host's adapter says which rows are below which.                     *)
(***************************************************************************)
EXTENDS Naturals, Sequences, FiniteSets, SequencesExt, FiniteSetsExt

CONSTANTS
  None,
  GetChildren(_, _),      \* the ids below an id, None standing for the root, in
                          \* what the host has at the time
  CollapsibleState(_, _), \* "none", or what an id is by default: "collapsed", "expanded"
  Levels,                 \* a number of levels that no row is below
  MAX_RESOLVE_PASSES      \* how often the rows are made anew for what is open by default

(***************************************************************************)
(* The rows.                                                               *)
(***************************************************************************)
Flatten(host, expanded) ==
  LET Visit[left \in 0..Levels] ==
        LET Add(parent, id) ==
              LET expandable == CollapsibleState(host, id) # "none"
                  open == expandable /\ id \in expanded
              IN <<[id |-> id, parent |-> parent, depth |-> Levels - left,
                    expandable |-> expandable, expanded |-> open]>>
                   \o (IF open /\ left > 0 THEN Visit[left - 1][id] ELSE << >>)
            Children(parent) == GetChildren(host, parent)
        IN [parent \in expanded \cup {None} |->
              FlattenSeq([k \in DOMAIN Children(parent) |-> Add(parent, Children(parent)[k])])]
  IN Visit[Levels][None]

Ids(rows) == {rows[i].id : i \in DOMAIN rows}
Index(rows, id) == SelectInSeq(rows, LAMBDA row : row.id = id)

Defaults(host, rows) == {id \in Ids(rows) : CollapsibleState(host, id) = "expanded"}

\* Mutant: what is expanded by default is expanded whenever it is not.
PassOverAll(host, open, seen) ==
  LET rows == Flatten(host, open)
  IN [open |-> open, rows |-> rows, more |-> Defaults(host, rows) \ open]

\* One pass: the rows, and what among them is to be opened.
PassOver(host, open, seen) ==
  LET rows == Flatten(host, open)
  IN [open |-> open, rows |-> rows, more |-> Defaults(host, rows) \ (open \cup seen)]

\* resolveExpansion: what is expanded by default, and was not before, is opened
\* until nothing more appears; the rows are those that are there then.
Resolved(host, expanded, seen) ==
  LET After[passes \in 0..MAX_RESOLVE_PASSES] ==
        IF passes = 0 THEN PassOver(host, expanded, seen)
        ELSE LET last == After[passes - 1]
             IN IF last.more = {} THEN last ELSE PassOver(host, last.open \cup last.more, seen)
  IN After[MAX_RESOLVE_PASSES]

(***************************************************************************)
(* Moving about: indexes of rows, 0 for none.                              *)
(***************************************************************************)
TargetIndex(rows, from, to, page) ==
  LET n == Len(rows)
      at == Index(rows, from)
      above == IF at = 0 THEN n + 1 ELSE at
      Within(i) == Max({1, Min({i, n})})
  IN CASE n = 0 -> 0
       [] n > 0 /\ to = "first" -> 1
       [] n > 0 /\ to = "last" -> n
       [] n > 0 /\ to = "down" -> Within(at + 1)
       [] n > 0 /\ to = "up" -> Within(above - 1)
       [] n > 0 /\ to = "pageDown" -> Within(at + page)
       [] n > 0 /\ to = "pageUp" -> IF page < above THEN Within(above - page) ELSE 1

ParentIndex(rows, id) == Index(rows, rows[Index(rows, id)].parent)

\* The rows below id are the run of deeper ones after it.
DescendantIds(rows, id) ==
  LET at == Index(rows, id)
  IN {rows[j].id : j \in {k \in DOMAIN rows : at # 0 /\ k > at /\
                            \A m \in at+1..k : rows[m].depth > rows[at].depth}}

FirstChildIndex(rows, id) ==
  LET next == Index(rows, id) + 1
  IN IF next <= Len(rows) /\ rows[next].parent = id THEN next ELSE 0

RangeSelection(rows, anchor, to) ==
  LET a == Index(rows, anchor)
      b == Index(rows, to)
  IN IF a = 0 THEN {to} ELSE {rows[i].id : i \in Min({a, b})..Max({a, b})}

(***************************************************************************)
(* Dispatch: what a key or a click makes of what is focused, anchored,     *)
(* selected and expanded.  "hit" says that a row was given the focus, be   *)
(* it the one that had it.                                                 *)
(***************************************************************************)
Focus(ui, id) == [ui EXCEPT !.focused = id, !.hit = TRUE]
Expand(ui, row) == [ui EXCEPT !.expanded = IF row.expanded THEN @ \ {row.id} ELSE @ \cup {row.id}]
Pivot(ui) == IF ui.anchor = None THEN ui.focused ELSE ui.anchor
FocusedRow(ui, rows) == rows[Index(rows, ui.focused)]

Extended(ui, rows, id) ==
  [Focus(ui, id) EXCEPT !.anchor = Pivot(ui), !.selection = RangeSelection(rows, Pivot(ui), id)]

\* keyToIntent: the first chord that fits, macOS' own ones before the rest.
KeyToIntent(stroke, mac) ==
  LET Held(mods) == stroke.mods = mods
      key == stroke.key
      bare == [ ArrowUp |-> "up", ArrowDown |-> "down", Home |-> "first", End |-> "last",
                PageUp |-> "pageUp", PageDown |-> "pageDown", ArrowLeft |-> "collapseOrParent",
                ArrowRight |-> "expandOrFirstChild", Space |-> "toggle", F2 |-> "rename",
                Escape |-> "clearSelection" ]
  IN CASE mac /\ Held({"meta"}) /\ key = "ArrowDown" -> "open"
       [] mac /\ Held({"meta"}) /\ key = "Backspace" -> "delete"
       [] key = "a" /\ Held(IF mac THEN {"meta"} ELSE {"ctrl"}) -> "selectAll"
       [] Held({"shift"}) /\ key = "ArrowUp" -> "extendUp"
       [] Held({"shift"}) /\ key = "ArrowDown" -> "extendDown"
       [] Held({}) /\ key \in DOMAIN bare -> bare[key]
       [] Held({}) /\ key = "Enter" -> IF mac THEN "rename" ELSE "open"
       [] Held({}) /\ key = "Delete" /\ ~ mac -> "delete"
       [] OTHER -> None

Moves == {"up", "down", "first", "last", "pageUp", "pageDown"}

\* applyIntent, for the intents that stay within the tree.
ApplyIntent(ui, rows, intent, page) ==
  LET row == FocusedRow(ui, rows)
      there == Index(rows, ui.focused) # 0
      target == rows[TargetIndex(rows, ui.focused, intent, page)].id
  IN CASE intent \in Moves /\ rows # << >> -> [Focus(ui, target) EXCEPT !.anchor = target]
       [] intent = "extendUp" /\ rows # << >> ->
            Extended(ui, rows, rows[TargetIndex(rows, ui.focused, "up", page)].id)
       [] intent = "extendDown" /\ rows # << >> ->
            Extended(ui, rows, rows[TargetIndex(rows, ui.focused, "down", page)].id)
       [] intent = "collapseOrParent" /\ there /\ row.expanded -> Expand(ui, row)
       [] intent = "collapseOrParent" /\ there /\ ~ row.expanded /\ row.parent # None ->
            Focus(ui, rows[ParentIndex(rows, row.id)].id)
       [] intent = "expandOrFirstChild" /\ there /\ row.expandable /\ ~ row.expanded -> Expand(ui, row)
       [] intent = "expandOrFirstChild" /\ there /\ row.expanded /\ FirstChildIndex(rows, row.id) # 0 ->
            Focus(ui, rows[FirstChildIndex(rows, row.id)].id)
       [] intent = "toggle" /\ there /\ row.expandable -> Expand(ui, row)
       [] intent = "open" /\ there ->
            [(IF row.expandable THEN Expand(ui, row) ELSE ui) EXCEPT !.selection = {row.id}]
       [] intent = "selectAll" -> [ui EXCEPT !.selection = Ids(rows), !.anchor = None]
       [] intent = "clearSelection" /\ ui.selection # {} -> [ui EXCEPT !.selection = {}, !.anchor = None]
       [] OTHER -> ui

\* applyRowClick
ApplyRowClick(ui, rows, row, mods) ==
  CASE mods = "right" -> ui
    [] mods = "shift" -> Extended(ui, rows, row.id)
    [] mods = "mod" ->
         [Focus(ui, row.id) EXCEPT !.anchor = row.id, !.selection = SymDiff(@, {row.id})]
    [] mods = "plain" ->
         [Focus(IF row.expandable THEN Expand(ui, row) ELSE ui, row.id)
            EXCEPT !.anchor = row.id, !.selection = {row.id}]

\* Mutant: rows go out of sight and keep the focus.
ApplyTwistieOnly(ui, rows, row) == Expand(ui, row)

\* applyTwistieClick: what a collapse hides hands its focus and its selection to
\* the row that hides it.
ApplyTwistieClick(ui, rows, row) ==
  LET hidden == IF row.expanded THEN DescendantIds(rows, row.id) ELSE {}
      rebased == [Expand(ui, row) EXCEPT !.selection =
                    IF @ \cap hidden = {} THEN @ ELSE (@ \ hidden) \cup {row.id}]
  IN IF ui.focused \in hidden THEN Focus(rebased, row.id) ELSE rebased

\* resolveDeleteIds: the selection when the focus is in it or out of sight.
DeleteIds(ui, rows) ==
  IF Index(rows, ui.focused) = 0 \/ ui.focused \in ui.selection THEN ui.selection ELSE {ui.focused}

(***************************************************************************)
(* Drag and drop: a destination is a parent and the sibling to go before,  *)
(* None for the end.                                                       *)
(***************************************************************************)
Zones(row) == IF row.expandable THEN {"before", "into", "after"} ELSE {"before", "after"}

\* Not the next row: that is a child of an expanded folder.
NextVisibleSiblingId(rows, i) ==
  LET later == {j \in DOMAIN rows : j > i /\ rows[j].depth <= rows[i].depth}
  IN IF later = {} \/ rows[Min(later)].parent # rows[i].parent THEN None ELSE rows[Min(later)].id

ResolveDrop(rows, i, zone) ==
  LET row == rows[i]
  IN CASE zone = "into" -> [parent |-> row.id, before |-> None]
       [] zone = "after" /\ row.expanded ->
            [parent |-> row.id,
             before |-> IF FirstChildIndex(rows, row.id) = 0 THEN None ELSE rows[i + 1].id]
       [] zone = "before" -> [parent |-> row.parent, before |-> row.id]
       [] OTHER -> [parent |-> row.parent, before |-> NextVisibleSiblingId(rows, i)]

DraggedSubtreeIds(rows, dragged) == dragged \cup UNION {DescendantIds(rows, id) : id \in dragged}

\* Only one row can be dropped where it is.
IsNoOpDrop(rows, dragged, res) ==
  \E i \in DOMAIN rows :
    /\ dragged = {rows[i].id}
    /\ rows[i].parent = res.parent
    /\ res.before \in {rows[i].id, NextVisibleSiblingId(rows, i)}

\* dropTargetAt, None where nothing can be dropped.
DropTargetAt(rows, i, zone, dragged) ==
  LET res == ResolveDrop(rows, i, zone)
  IN IF dragged = {} \/ rows[i].id \in DraggedSubtreeIds(rows, dragged) \/ IsNoOpDrop(rows, dragged, res)
       THEN None ELSE res
=============================================================================
