------------------------------- MODULE ItemTree ------------------------------
(***************************************************************************)
(* The folders and requests of one collection as directories on disk       *)
(* (service/store/fs.go, layout.go).  A directory is an item when it holds *)
(* folder.json or request.json, which name it; the order of a folder's     *)
(* items is a list of directory names in the folder's own file, and a      *)
(* reader reconciles the two.                                              *)
(*                                                                         *)
(* Every handler runs under Collection.mu from its checks to its last      *)
(* write, so that one handler's plan of file operations is all there is at *)
(* a time; a crash or an error may cut it off after any of them.           *)
(***************************************************************************)
EXTENDS Naturals, Sequences, FiniteSets, SequencesExt, FiniteSetsExt

CONSTANTS
  Nodes,   \* directories
  Root,    \* the collection's tree directory
  Names,   \* display names, ordered as their lower case is
  BaseOf,  \* slugify: what a name becomes in the file system
  Env,     \* "cut": a crash or a failing file operation
  Trees,   \* what may be there at the start: place, mark and name
  Drifts,  \* what hand edits and merges may have made of the root's list
  MaxOps,  \* bound: calls
  None

ASSUME NodesAssumption == IsFiniteSet(Nodes) /\ MaxOps \in Nat
ASSUME NamesAssumption == Names \subseteq Nat /\ BaseOf \in [Names -> Nat]
ASSUME RootAssumption == Root \notin Nodes \cup {None} /\ None \notin Nodes

\* slugify(name), then with -2, -3 and so on.
Slugs == {BaseOf[t] : t \in Names} \X (1..Cardinality(Nodes) + 1)
Places == [parent : Nodes \cup {Root}, slug : Slugs]
Marks == {"none", "folder", "request"}

ASSUME NoneAssumption == None \notin Names \cup Places

Dirs == Nodes \cup {Root}

\* A directory and all above it, where directories are placed as "at" says.
Chain(at, d) ==
  LET up[k \in 0..Cardinality(Nodes)] ==
        IF k = 0 THEN {d}
        ELSE up[k - 1] \cup {at[m].parent : m \in {x \in up[k - 1] \ {Root} : at[x] # None}}
  IN up[Cardinality(Nodes)]

\* What the handlers leave and a file system can hold: directories below the root,
\* each in its own place, and siblings of different names.
IsTree(tree) ==
  /\ tree.place \in [Nodes -> Places \cup {None}]
  /\ tree.mark \in [Nodes -> Marks]
  /\ tree.name \in [Nodes -> Names \cup {None}]
  /\ \A n \in Nodes : /\ tree.mark[n] # "none" <=> tree.name[n] # None
                      /\ tree.place[n] = None => tree.mark[n] = "none"
                      /\ tree.place[n] # None => Root \in Chain(tree.place, n)
  /\ \A m, n \in {x \in Nodes : tree.place[x] # None} : m # n =>
       /\ tree.place[m] # tree.place[n]
       /\ tree.place[m].parent = tree.place[n].parent /\ tree.mark[m] # "none" =>
            tree.name[m] # tree.name[n]

ASSUME TreesAssumption == \A tree \in Trees : IsTree(tree)
ASSUME DriftsAssumption == Drifts \subseteq Seq(Slugs)

VARIABLES
  place,  \* where each directory is
  mark,   \* which of the two files it holds
  name,   \* the name in that file
  order,  \* the list in a folder's file
  plan,   \* the file operations that are left of the running handler
  ops,    \* calls made
  torn    \* history: a deletion was cut off in the middle, here or before the start

vars == <<place, mark, name, order, plan, ops, torn>>

TypeOK ==
  /\ place \in [Nodes -> Places \cup {None}]
  /\ mark \in [Nodes -> Marks]
  /\ name \in [Nodes -> Names \cup {None}]
  /\ order \in [Dirs -> Seq(Slugs)]
  /\ \A i \in DOMAIN plan : plan[i].do \in {"mkdir", "mark", "order", "rename", "remove"}
  /\ ops \in 0..MaxOps
  /\ torn \in BOOLEAN
  /\ \A n \in Nodes : mark[n] # "none" <=> name[n] # None

Init ==
  /\ \E tree \in Trees : place = tree.place /\ mark = tree.mark /\ name = tree.name
  /\ \E drift \in Drifts : order = [d \in Dirs |-> IF d = Root THEN drift ELSE <<>>]
  /\ plan = <<>>
  /\ ops = 0
  /\ torn = \E n, m \in Nodes : place[n] # None /\ place[n].parent = m /\ mark[m] = "none"

(***************************************************************************)
(* Reading.                                                                *)
(***************************************************************************)
\* readChildren: directories without a mark are passed over.
Children(d) == {n \in Nodes : place[n] # None /\ mark[n] # "none" /\ place[n].parent = d}

\* The elements of S by rank.
InOrder(S, Less(_, _)) ==
  [k \in 1..Cardinality(S) |-> CHOOSE x \in S : Cardinality({y \in S : Less(y, x)}) = k - 1]

SlugLess(a, b) == a[1] < b[1] \/ (a[1] = b[1] /\ a[2] < b[2])

ByName(m, n) ==
  name[m] < name[n] \/ (name[m] = name[n] /\ SlugLess(place[m].slug, place[n].slug))

\* reconcileOrder: a listed slug counts once and where there is a directory, and
\* the children in no list follow by name.
Ordered(d) ==
  LET at(slug) == {n \in Children(d) : place[n].slug = slug}
      first == {i \in DOMAIN order[d] : /\ at(order[d][i]) # {}
                                        /\ \A j \in 1..i-1 : order[d][j] # order[d][i]}
      listed == InOrder(first, <)
      rest == {n \in Children(d) : ~ Contains(order[d], place[n].slug)}
  IN [i \in DOMAIN listed |-> CHOOSE n \in at(order[d][listed[i]]) : TRUE]
       \o InOrder(rest, ByName)

\* reconciledSlugsFrom
Reconciled(d) == LET kids == Ordered(d) IN [i \in DOMAIN kids |-> place[kids[i]].slug]

Above(d) == Chain(place, d)

\* The items a path of names leads to: all above them are folders.
Shown(n) ==
  /\ place[n] # None /\ mark[n] # "none"
  /\ \A m \in Above(n) \ {n, Root} : mark[m] = "folder"
  /\ Root \in Above(n)

Folders == {Root} \cup {n \in Nodes : Shown(n) /\ mark[n] = "folder"}

\* Mutant: siblings are not looked at.
NeverTaken(d, t) == FALSE

\* findByName
Taken(d, t) == \E m \in Children(d) : name[m] = t

\* Mutant: the directory is named without a look at the others.
PlainSlug(d, t) == <<BaseOf[t], 1>>

\* uniqueSlug
UniqueSlug(d, t) ==
  LET used == {place[m].slug : m \in Children(d)}
  IN <<BaseOf[t], Min({i \in 1..Cardinality(Nodes) + 1 : <<BaseOf[t], i>> \notin used})>>

\* Mutant: a folder may be moved into itself.
IntoAnything(n, d) == FALSE

IntoItself(n, d) == n \in Above(d)

-----------------------------------------------------------------------------
(***************************************************************************)
(* The handlers: checks, then a plan.  A path that leads nowhere, a name   *)
(* that is taken and a move into a descendant are errors that write        *)
(* nothing, and no action here.                                            *)
(***************************************************************************)
Call == plan = <<>> /\ ops < MaxOps /\ ops' = ops + 1

\* createItem: a directory that lost its mark is taken over with what is in it.
Create(d, t, kind) ==
  /\ Call
  /\ d \in Folders /\ ~ Taken(d, t)
  /\ LET slug == UniqueSlug(d, t)
         spot == [parent |-> d, slug |-> slug]
         there == {n \in Nodes : place[n] = spot}
     IN \E n \in IF there # {} THEN there ELSE {m \in Nodes : place[m] = None} :
          plan' = << [do |-> "mkdir", node |-> n, spot |-> spot],
                     [do |-> "mark", node |-> n, kind |-> kind, name |-> t],
                     [do |-> "order", dir |-> d, slugs |-> Append(Reconciled(d), slug)] >>
  /\ UNCHANGED <<place, mark, name, order, torn>>

\* UpdateRequest and UpdateFolder with a name: the directory keeps its slug.
Rename(n, t) ==
  /\ Call
  /\ Shown(n) /\ t # name[n] /\ ~ Taken(place[n].parent, t)
  /\ plan' = << [do |-> "mark", node |-> n, kind |-> mark[n], name |-> t] >>
  /\ UNCHANGED <<place, mark, name, order, torn>>

\* slices.DeleteFunc
Without(slugs, slug) ==
  LET left == {i \in DOMAIN slugs : slugs[i] # slug}
  IN [k \in 1..Cardinality(left) |-> slugs[InOrder(left, <)[k]]]

Delete(n) ==
  /\ Call
  /\ Shown(n)
  /\ LET d == place[n].parent
     IN plan' = << [do |-> "remove", node |-> n],
                   [do |-> "order", dir |-> d, slugs |-> Without(Reconciled(d), place[n].slug)] >>
  /\ UNCHANGED <<place, mark, name, order, torn>>

\* Mutant: the slug the item had before it moved is put into the list.
InsertOldSlug(slugs, d, n, slug, before) ==
  IF before # None /\ Contains(slugs, place[before].slug)
    THEN InsertAt(slugs, SelectInSeq(slugs, LAMBDA x : x = place[before].slug), place[n].slug)
    ELSE Append(slugs, place[n].slug)

\* insertSlug: before a sibling, or last.
InsertSlug(slugs, d, n, slug, before) ==
  IF before # None /\ Contains(slugs, place[before].slug)
    THEN InsertAt(slugs, SelectInSeq(slugs, LAMBDA x : x = place[before].slug), slug)
    ELSE Append(slugs, slug)

\* The directory moves first, then it leaves the one list, then it enters the
\* other; both lists are made from what was there before.
Move(n, d, before) ==
  /\ Call
  /\ Shown(n) /\ d \in Folders /\ ~ IntoItself(n, d)
  /\ before \in Children(d) \cup {None}
  /\ LET from == place[n].parent
         old == place[n].slug
         slug == UniqueSlug(d, name[n])
     IN IF d = from
          THEN plan' = << [do |-> "order", dir |-> d,
                           slugs |-> InsertSlug(Without(Reconciled(d), old), d, n, old, before)] >>
          ELSE /\ ~ Taken(d, name[n])
               /\ plan' = << [do |-> "rename", node |-> n, spot |-> [parent |-> d, slug |-> slug]],
                             [do |-> "order", dir |-> from, slugs |-> Without(Reconciled(from), old)],
                             [do |-> "order", dir |-> d,
                              slugs |-> InsertSlug(Reconciled(d), d, n, slug, before)] >>
  /\ UNCHANGED <<place, mark, name, order, torn>>

-----------------------------------------------------------------------------
(***************************************************************************)
(* The file operations.                                                    *)
(***************************************************************************)
Todo(what) == plan # <<>> /\ Head(plan).do = what

Mkdir ==
  /\ Todo("mkdir")
  /\ place' = [place EXCEPT ![Head(plan).node] = Head(plan).spot]
  /\ plan' = Tail(plan)
  /\ UNCHANGED <<mark, name, order, ops, torn>>

\* A new folder's file has an empty list; a renamed one's keeps its list.
Mark ==
  /\ Todo("mark")
  /\ LET n == Head(plan).node
     IN /\ order' = IF mark[n] = "none" THEN [order EXCEPT ![n] = <<>>] ELSE order
        /\ mark' = [mark EXCEPT ![n] = Head(plan).kind]
        /\ name' = [name EXCEPT ![n] = Head(plan).name]
  /\ plan' = Tail(plan)
  /\ UNCHANGED <<place, ops, torn>>

WriteOrder ==
  /\ Todo("order")
  /\ order' = [order EXCEPT ![Head(plan).dir] = Head(plan).slugs]
  /\ plan' = Tail(plan)
  /\ UNCHANGED <<place, mark, name, ops, torn>>

\* os.Rename gives way to a directory that is there, an empty one that was left by a
\* create that was cut off as well.
RenameDir ==
  /\ Todo("rename")
  /\ IF \E m \in Nodes : place[m] = Head(plan).spot
       THEN plan' = <<>> /\ UNCHANGED place
       ELSE /\ place' = [place EXCEPT ![Head(plan).node] = Head(plan).spot]
            /\ plan' = Tail(plan)
  /\ UNCHANGED <<mark, name, order, ops, torn>>

\* os.RemoveAll: files and directories below go one by one, in whatever order
\* the file system lists them, a directory when it is empty.
RemoveMark ==
  /\ Todo("remove")
  /\ \E m \in Nodes :
       /\ place[m] # None /\ Head(plan).node \in Above(m) /\ mark[m] # "none"
       /\ mark' = [mark EXCEPT ![m] = "none"]
       /\ name' = [name EXCEPT ![m] = None]
       /\ order' = [order EXCEPT ![m] = <<>>]
  /\ UNCHANGED <<place, plan, ops, torn>>

RemoveDir ==
  /\ Todo("remove")
  /\ \E m \in Nodes :
       /\ place[m] # None /\ Head(plan).node \in Above(m) /\ mark[m] = "none"
       /\ \A k \in Nodes : place[k] # None => place[k].parent # m
       /\ place' = [place EXCEPT ![m] = None]
       /\ plan' = IF m = Head(plan).node THEN Tail(plan) ELSE plan
  /\ UNCHANGED <<mark, name, order, ops, torn>>

\* The server dies or a file operation fails: what is left is not done.
Cut ==
  /\ "cut" \in Env
  /\ plan # <<>>
  /\ plan' = <<>>
  /\ torn' = (torn \/ Todo("remove"))
  /\ UNCHANGED <<place, mark, name, order, ops>>

-----------------------------------------------------------------------------
Handler ==
  \/ \E d \in Dirs, t \in Names, kind \in Marks \ {"none"} : Create(d, t, kind)
  \/ \E n \in Nodes, t \in Names : Rename(n, t)
  \/ \E n \in Nodes : Delete(n)
  \/ \E n \in Nodes, d \in Dirs, before \in Nodes \cup {None} : Move(n, d, before)

FileOp == Mkdir \/ Mark \/ WriteOrder \/ RenameDir \/ RemoveMark \/ RemoveDir

Next == Handler \/ FileOp \/ Cut

Spec == Init /\ [][Next]_vars

-----------------------------------------------------------------------------
(***************************************************************************)
(* Properties.                                                             *)
(***************************************************************************)
\* A path of names leads to one item at most, whatever was cut off before.
NoNamesakes ==
  \A d \in Dirs : \A m, n \in Children(d) : name[m] = name[n] => m = n

\* Where a new or a moved item is about to go there is no other item, not even one
\* that a cut has left in no list: nothing is written over.
NothingOverwritten ==
  \A i \in DOMAIN plan : plan[i].do \in {"mkdir", "rename"} =>
    \A n \in Nodes : place[n] = plan[i].spot => mark[n] = "none"

\* What there is is a forest, and shown as one: no folder is ever below itself, so
\* that every walk ends, and however the lists and the directories have drifted apart a
\* reader shows each item there is, and once: "keeps the tree self-healing"
\* (storage.md:142).  The variables keep their types.
ShownOnce ==
  \A d \in Folders : /\ ToSet(Ordered(d)) = Children(d)
                     /\ Len(Ordered(d)) = Cardinality(Children(d))

Rooted ==
  /\ TypeOK
  /\ \A n \in Nodes : place[n] # None => Root \in Above(n)
  /\ ShownOnce

\* What a reader is shown is a forest that changes by one item at a time.
Kids == [d \in Dirs |-> IF d \in Folders THEN Ordered(d) ELSE <<>>]
Titles == [n \in {m \in Nodes : Shown(m)} |-> name[n]]

Shows == INSTANCE OrderedItems WITH Items <- Nodes, kids <- Kids, title <- Titles

\* The list a handler made up before it touched a directory is, when it is
\* written, what a reader shows from then on.
AsWritten == \A d \in Dirs : order'[d] # order[d] /\ Todo("order") => Reconciled(d)' = order'[d]

\* Every file operation, and a cut after any of them, changes what is shown by
\* at most one item, and never the order of the others: "moved, order not is
\* the half-applied state reconcileOrder self-heals" (fs.go:549).  A list that is
\* written is shown.
KeepsOrder == Shows!Spec /\ [][AsWritten]_vars

=============================================================================
