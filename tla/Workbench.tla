------------------------------ MODULE Workbench ------------------------------
(***************************************************************************)
(* The browser's workbench on one collection: the snapshot of the tree it  *)
(* was last sent, the tabs, and what it keeps of each request: the draft   *)
(* being typed, the state of its last run, the saves that wait for the     *)
(* typing to pause (ui/src/lib/ui-store.ts, workspace-query.ts,            *)
(* features/workspace/RequestWorkspace.tsx, CollectionPanel.tsx).          *)
(*                                                                         *)
(* All of it is kept by key, the path of directory names, while calls to   *)
(* the server name a request by its display name.  Neither says who a      *)
(* request is; the model does, so that it can tell what belongs to whom.   *)
(***************************************************************************)
EXTENDS Naturals, Sequences, FiniteSets, SequencesExt, FiniteSetsExt

CONSTANTS
  Reqs,      \* requests, each created once at most
  Unary,     \* those with a unary method; the others stream
  Top,       \* the tree's root
  Folder,    \* a folder: a directory, and the key of its own tab
  Names,     \* display names; each is a slug of its own
  Trees,     \* the tree at the start
  Care,      \* the user waits: changes nothing while something else is going on
  MaxEdits,  \* bound: edits
  MaxTree,   \* bound: creations, renames, moves and deletions
  MaxRuns,   \* bound: invocations
  MaxTabs,   \* bound: tabs open at a time
  None

Dirs == {Top, Folder}
Slugs == Names \X (1..Cardinality(Reqs))
Keys == [dir : Dirs, slug : Slugs]
Addrs == [dir : Dirs, name : Names]
Items == [dir : Dirs, slug : Slugs, name : Names, body : 0..MaxEdits]
Drafts == [body : 0..MaxEdits, of : Reqs]
Views == [busy : BOOLEAN, of : Reqs]

Key(i) == [dir |-> i.dir, slug |-> i.slug]
Addr(i) == [dir |-> i.dir, name |-> i.name]

\* No two requests are in one directory, and no two of a folder have one name: what
\* NoNamesakes of ItemTree says of the server's tree.
Unambiguous(t) ==
  \A r, s \in Reqs :
    t[r] # None /\ t[s] # None /\ (Key(t[r]) = Key(t[s]) \/ Addr(t[r]) = Addr(t[s])) => r = s

ASSUME ReqsAssumption == IsFiniteSet(Reqs) /\ Unary \subseteq Reqs
ASSUME CareAssumption == Care \in BOOLEAN
ASSUME BoundsAssumption == {MaxEdits, MaxTree, MaxRuns} \subseteq Nat
ASSUME NoneAssumption == None \notin Items \cup Keys \cup Drafts \cup Views
ASSUME TreesAssumption ==
  \A t \in Trees : /\ t \in [Reqs -> Items \cup {None}]
                   /\ Unambiguous(t)
                   /\ \A r \in Reqs : t[r] # None => t[r].body = 0

VARIABLES
  tree,    \* the server's requests
  calls,   \* what was sent and is not answered
  answers, \* what was answered and has not arrived
  cache,   \* the snapshot of the last answer that arrived
  tabs,    \* keys of the open tabs
  active,  \* the key of the active one
  drafts,  \* by key: what is typed, and in which request
  shown,   \* by key: what is shown of the last run, and whose it was
  timers,  \* saves that wait
  runs,    \* invocations that go on
  rivals,  \* history: by request, what was on its way as its newest save was sent
  count    \* edits, tree operations and runs so far, the last move, who was created

server == <<tree, calls, answers, rivals>>
strip == <<tabs, active>>
vars == <<tree, calls, answers, cache, tabs, active, drafts, shown, timers, runs, rivals, count>>

\* Who is at a key, and at an address, of a tree or a snapshot of it.
At(t, key) == {r \in Reqs : t[r] # None /\ Key(t[r]) = key}
Named(t, addr) == {r \in Reqs : t[r] # None /\ Addr(t[r]) = addr}

TypeOK ==
  /\ tree \in [Reqs -> Items \cup {None}]
  /\ cache \in [Reqs -> Items \cup {None}]
  /\ \A i \in DOMAIN tabs : tabs[i] \in Keys \cup {Folder}
  /\ active = None \/ Contains(tabs, active)
  /\ drafts \in [Keys -> Drafts \cup {None}]
  /\ shown \in [Keys -> Views \cup {None}]
  /\ timers \subseteq [key : Keys, addr : Addrs, body : 1..MaxEdits, held : BOOLEAN]
  /\ runs \subseteq [n : 1..MaxRuns, key : Keys, of : Reqs, held : BOOLEAN, stopped : BOOLEAN]
  /\ rivals \in [Reqs -> SUBSET (1..MaxEdits)]

Init ==
  /\ tree \in Trees
  /\ cache = tree
  /\ calls = {}
  /\ answers = {}
  /\ tabs = <<>>
  /\ active = None
  /\ drafts = [k \in Keys |-> None]
  /\ shown = [k \in Keys |-> None]
  /\ timers = {}
  /\ runs = {}
  /\ rivals = [r \in Reqs |-> {}]
  /\ count = [edits |-> 0, tree |-> 0, runs |-> 0, moved |-> 0, born |-> {r \in Reqs : tree[r] # None}]

-----------------------------------------------------------------------------
(***************************************************************************)
(* The server: every handler is one step on its tree and answers with the  *)
(* whole of it, or with an error.  What the steps are made of is in        *)
(* ItemTree.  Each call is a request of its own: whichever is first is     *)
(* handled first, and answers overtake each other as well.                 *)
(***************************************************************************)
FreeSlug(t, d, name) ==
  <<name, Min({i \in 1..Cardinality(Reqs) : At(t, [dir |-> d, slug |-> <<name, i>>]) = {}})>>

\* A call fails when its address or its new name does not fit the tree.
Accepts(call) ==
  /\ call.op \in {"save", "rename", "move"} => Named(tree, call.addr) # {}
  /\ call.op \in {"rename", "move", "create"} => Named(tree, call.to) = {}

Effect(call) ==
  LET r == CHOOSE x \in Named(tree, call.addr) : TRUE
  IN CASE call.op = "save" -> [tree EXCEPT ![r].body = call.body]
       [] call.op = "rename" -> [tree EXCEPT ![r].name = call.to.name]
       [] call.op = "move" -> [tree EXCEPT ![r].dir = call.to.dir,
                                           ![r].slug = FreeSlug(tree, call.to.dir, call.to.name)]
       [] call.op = "create" -> [tree EXCEPT ![call.of] =
                                   [dir |-> call.to.dir, slug |-> FreeSlug(tree, call.to.dir, call.to.name),
                                    name |-> call.to.name, body |-> 0]]
       [] call.op = "delete" -> [x \in Reqs |-> IF x \in Named(tree, call.addr) THEN None ELSE tree[x]]
       [] OTHER -> tree

Serve(call) ==
  /\ calls' = calls \ {call}
  /\ tree' = IF Accepts(call) THEN Effect(call) ELSE tree
  /\ answers' = answers \cup {[call |-> call, ok |-> Accepts(call), tree |-> tree']}
  /\ UNCHANGED <<cache, strip, drafts, shown, timers, runs, rivals, count>>

-----------------------------------------------------------------------------
(***************************************************************************)
(* Reading and remapping what is kept by key.                              *)
(***************************************************************************)
\* The effect that follows a change of the snapshot or of the active tab:
\* seedDraft leaves a draft that is there alone.
Seeded(c, key, d) ==
  IF key \in Keys /\ At(c, key) # {} /\ d[key] = None
    THEN LET r == CHOOSE x \in At(c, key) : TRUE
         IN [d EXCEPT ![key] = [body |-> c[r].body, of |-> r]]
    ELSE d

\* A folder's tab takes the place of the request's view: what the view held on
\* to (its timers, its aborters, its listeners) is let go of.
LetGo(key, held) == IF key = Folder THEN {[x EXCEPT !.held = FALSE] : x \in held} ELSE held

MovedStrip(old, new) ==
  /\ tabs' = [i \in DOMAIN tabs |-> IF tabs[i] = old THEN new ELSE tabs[i]]
  /\ active' = IF active = old THEN new ELSE active

\* Where both keys have something, what was put there later wins.
Moved(m, old, new) ==
  IF old = new \/ m[old] = None THEN {m}
  ELSE {[m EXCEPT ![old] = None, ![new] = v] : v \in {m[old], m[new]} \ {None}}

\* Mutant: the new key is made up, with the slug the request had.
NewKeyGuessed(a) == {[dir |-> a.call.to.dir, slug |-> a.call.key.slug]}

\* slugKeyIn: the new key is looked up in the answer, by name.
NewKey(a) == {Key(a.tree[r]) : r \in Named(a.tree, a.call.to)}

\* The callback of a move is lost when another move was asked for since.
Remaps(a) == a.call.op = "move" /\ a.call.n = count.moved

\* useSeedGetCache: the snapshot is that of the answer, be there a newer one or not.
Receive(a) ==
  /\ answers' = answers \ {a}
  /\ IF ~ a.ok
       THEN UNCHANGED <<cache, strip, drafts, shown>>
       ELSE /\ cache' = a.tree
            /\ IF Remaps(a) /\ NewKey(a) # {}
                 THEN \E new \in NewKey(a) :
                        /\ MovedStrip(a.call.key, new)
                        /\ \E d \in Moved(drafts, a.call.key, new) : drafts' = Seeded(a.tree, active', d)
                        /\ shown' \in Moved(shown, a.call.key, new)
                 ELSE /\ UNCHANGED <<strip, shown>>
                      /\ drafts' = Seeded(a.tree, active, drafts)
  /\ UNCHANGED <<tree, calls, timers, runs, rivals, count>>

-----------------------------------------------------------------------------
(***************************************************************************)
(* Tabs.                                                                   *)
(***************************************************************************)
\* The tree is being changed.
Changing ==
  LET ops == {"create", "rename", "move", "delete"}
  IN \E call \in calls \cup {a.call : a \in answers} : call.op \in ops

Activate(key) ==
  /\ active' = key
  /\ drafts' = Seeded(cache, key, drafts)
  /\ timers' = LetGo(key, timers)
  /\ runs' = LetGo(key, runs)
  /\ UNCHANGED <<server, cache, shown, count>>

\* openTab, from a row of the tree.
OpenTab(key) ==
  /\ key = Folder \/ At(cache, key) # {}
  /\ Care => ~ Changing /\ (key = Folder => runs = {})
  /\ tabs' = IF Contains(tabs, key) THEN tabs ELSE Append(tabs, key)
  /\ Len(tabs') <= MaxTabs
  /\ Activate(key)

\* setActiveKey, from the strip.
ClickTab(key) ==
  /\ Contains(tabs, key) /\ key # active
  /\ key = Folder /\ Care => runs = {}
  /\ tabs' = tabs
  /\ Activate(key)

\* closeMatching: the nearest tab that is left takes over, the next ones first.
Survivor(gone) ==
  LET here == SelectInSeq(tabs, LAMBDA k : k = active)
      after == {i \in DOMAIN tabs : i > here /\ tabs[i] \notin gone}
      before == {i \in DOMAIN tabs : i < here /\ tabs[i] \notin gone}
  IN IF active \notin gone THEN active
     ELSE IF after # {} THEN tabs[Min(after)]
     ELSE IF before # {} THEN tabs[Max(before)]
     ELSE None

\* The tabs that are not gone, in the order they were in.
Remaining(gone) ==
  LET left == {i \in DOMAIN tabs : tabs[i] \notin gone}
      nth == CHOOSE f \in [1..Cardinality(left) -> left] : \A i, j \in DOMAIN f : i < j => f[i] < f[j]
  IN [i \in DOMAIN nth |-> tabs[nth[i]]]

\* closeTab, closeOtherTabs, closeTabsToLeft, closeTabsToRight, closeAllTabs.
CloseTabs(i) ==
  /\ i \in DOMAIN tabs
  /\ \E gone \in { {tabs[i]}, ToSet(tabs) \ {tabs[i]}, ToSet(tabs),
                   {tabs[j] : j \in 1..i-1}, {tabs[j] : j \in i+1..Len(tabs)} } \ {{}} :
       /\ Survivor(gone) = Folder /\ Care => runs = {}
       /\ tabs' = Remaining(gone)
       /\ Activate(Survivor(gone))

-----------------------------------------------------------------------------
(***************************************************************************)
(* Typing and saving.                                                      *)
(***************************************************************************)
\* The request in view.
InView(r) == active \in Keys /\ r \in At(cache, active)

\* Mutant: there is one timer for all requests.
ScheduledOne(save) == {save}

\* scheduleSave: the timer of the same key starts over.
Scheduled(save) == {t \in timers : t.key # save.key \/ ~ t.held} \cup {save}

Edit(r) ==
  /\ InView(r)
  /\ count.edits < MaxEdits
  /\ Care => ~ Changing
  /\ LET body == count.edits + 1
     IN /\ count' = [count EXCEPT !.edits = body]
        /\ drafts' = [drafts EXCEPT ![active].body = body]
        /\ timers' = Scheduled([key |-> active, addr |-> Addr(cache[r]), body |-> body, held |-> TRUE])
  /\ UNCHANGED <<server, cache, strip, shown, runs>>

\* Calls are all different: saves by their bodies, the others are numbered.
Send(call) == calls' = calls \cup {call} /\ UNCHANGED <<tree, answers>>

\* The bodies on their way to an address.
UnderWay(addr) == {call.body : call \in {c \in calls : c.op = "save" /\ c.addr = addr}}

\* The timers run out in the order they were set, and save what was typed to the
\* address the request had then.
Save(t) ==
  /\ \A u \in timers : t.body <= u.body
  /\ timers' = timers \ {t}
  /\ Send([op |-> "save", addr |-> t.addr, body |-> t.body])
  /\ rivals' = [r \in Reqs |-> IF r \in Named(tree, t.addr) THEN UnderWay(t.addr) ELSE rivals[r]]
  /\ UNCHANGED <<cache, strip, drafts, shown, runs, count>>

-----------------------------------------------------------------------------
(***************************************************************************)
(* Changing the tree, from the panel or the header of a request.           *)
(***************************************************************************)
Change(call) ==
  /\ count.tree < MaxTree
  /\ Care => calls = {} /\ answers = {} /\ timers = {} /\ runs = {}
  /\ count' = [count EXCEPT !.tree = @ + 1,
                            !.moved = IF call.op = "move" THEN call.n ELSE @,
                            !.born = @ \cup (IF call.op = "create" THEN {call.of} ELSE {})]
  /\ Send(call)
  /\ UNCHANGED <<cache, strip, drafts, shown, timers, runs, rivals>>

Nth == count.tree + 1

Create(r, d, name) ==
  /\ r \notin count.born
  /\ Change([op |-> "create", n |-> Nth, of |-> r, to |-> [dir |-> d, name |-> name]])

Rename(r, name) ==
  /\ cache[r] # None /\ name # cache[r].name
  /\ Change([op |-> "rename", n |-> Nth, addr |-> Addr(cache[r]), to |-> [dir |-> cache[r].dir, name |-> name]])

\* panelCanDrop refuses a name that is taken.
Move(r, d) ==
  /\ cache[r] # None /\ d # cache[r].dir
  /\ LET to == [dir |-> d, name |-> cache[r].name]
     IN /\ Named(cache, to) = {}
        /\ Change([op |-> "move", n |-> Nth, addr |-> Addr(cache[r]), to |-> to, key |-> Key(cache[r])])

\* Nothing that is kept by key goes with the request.
Delete(r) ==
  /\ cache[r] # None
  /\ LET key == Key(cache[r])
     IN Care => drafts[key] = None /\ shown[key] = None /\ ~ Contains(tabs, key)
  /\ Change([op |-> "delete", n |-> Nth, addr |-> Addr(cache[r])])

-----------------------------------------------------------------------------
(***************************************************************************)
(* Running.                                                                *)
(***************************************************************************)
\* The library drops the callbacks of a unary call when the next one is made, and
\* a new stream aborts the one the view knows for the same key.
Superseded(r, key) ==
  {IF r \in Unary /\ u.of \in Unary THEN [u EXCEPT !.held = FALSE]
   ELSE IF r \notin Unary /\ u.of \notin Unary /\ u.held /\ u.key = key
     THEN [u EXCEPT !.stopped = TRUE, !.held = FALSE]
   ELSE u : u \in runs}

\* The button is off while the request is shown to run; a run again from its
\* history is not.
Run(r) ==
  /\ InView(r)
  /\ count.runs < MaxRuns
  /\ Care => /\ ~ Changing
             /\ \A u \in runs : u.key # active /\ (r \in Unary => u.of \notin Unary)
  /\ count' = [count EXCEPT !.runs = @ + 1]
  /\ runs' = Superseded(r, active) \cup
             {[n |-> count.runs + 1, key |-> active, of |-> r, held |-> TRUE, stopped |-> FALSE]}
  /\ shown' = [shown EXCEPT ![active] = [busy |-> TRUE, of |-> r]]
  /\ UNCHANGED <<server, cache, strip, drafts, timers>>

\* pushStreamMessage
Message(u) ==
  /\ u.of \notin Unary /\ ~ u.stopped
  /\ shown' = [shown EXCEPT ![u.key] = [busy |-> TRUE, of |-> u.of]]
  /\ UNCHANGED <<server, cache, strip, drafts, timers, runs, count>>

\* A unary answer that nobody listens for any more changes nothing.
Listens(u) == u.of \in Unary => u.held

\* Mutant: what a run brings is put where the user is now.
RunEndedInView(u) ==
  /\ Listens(u) /\ active \in Keys
  /\ shown' = [shown EXCEPT ![active] = [busy |-> FALSE, of |-> u.of]]
  /\ Send([op |-> "get", n |-> u.n])

\* The answer, an error or a stop, then a fresh snapshot for the history.
RunEnded(u) ==
  /\ Listens(u)
  /\ shown' = [shown EXCEPT ![u.key] = [busy |-> FALSE, of |-> u.of]]
  /\ Send([op |-> "get", n |-> u.n])

RunEnds(u) ==
  /\ runs' = runs \ {u}
  /\ RunEnded(u) \/ (~ Listens(u) /\ UNCHANGED <<tree, calls, answers, shown>>)
  /\ UNCHANGED <<cache, strip, drafts, timers, rivals, count>>

Stop(u) ==
  /\ active = u.key /\ u.held /\ u.of \notin Unary
  /\ runs' = (runs \ {u}) \cup {[u EXCEPT !.stopped = TRUE, !.held = FALSE]}
  /\ UNCHANGED <<server, cache, strip, drafts, shown, timers, count>>

-----------------------------------------------------------------------------
User ==
  \/ \E key \in Keys \cup {Folder} : OpenTab(key) \/ ClickTab(key)
  \/ \E i \in DOMAIN tabs : CloseTabs(i)
  \/ \E r \in Reqs : Edit(r) \/ Delete(r) \/ Run(r)
  \/ \E r \in Reqs, d \in Dirs, name \in Names : Create(r, d, name)
  \/ \E r \in Reqs, name \in Names : Rename(r, name)
  \/ \E r \in Reqs, d \in Dirs : Move(r, d)
  \/ \E u \in runs : Stop(u)

Next ==
  \/ User
  \/ \E call \in calls : Serve(call)
  \/ \E a \in answers : Receive(a)
  \/ \E t \in timers : Save(t)
  \/ \E u \in runs : Message(u) \/ RunEnds(u)

Spec == Init /\ [][Next]_vars

-----------------------------------------------------------------------------
(***************************************************************************)
(* Properties.                                                             *)
(***************************************************************************)
\* What is kept under the key of a request is that request's: "the identity of
\* an item: its collection id followed by its slug path" (format.ts:51).  The
\* active tab is one that is open, and the variables keep their types (TypeOK).
KeptIsOwn ==
  /\ TypeOK
  /\ \A key \in Keys : \A r \in At(cache, key) :
       /\ drafts[key] # None => drafts[key].of = r
       /\ shown[key] # None => shown[key].of = r

\* When the typing has paused and all is answered, the server has what was typed
\* last, whatever tabs were opened, closed and switched to in between.  Saves are not
\* held back for one another (RequestWorkspace.tsx:149), so it may have an older text
\* instead, but only one that was on its way when the last was sent.
EditsSaved ==
  timers = {} /\ calls = {} /\ answers = {} =>
    \A key \in Keys : \A r \in At(cache, key) :
      drafts[key] # None => tree[r] # None /\ tree[r].body \in {drafts[key].body} \cup rivals[r]

\* A request that is shown to be running has a run that will end that: "a
\* mid-stream tab switch keeps writing into the request the stream was started
\* for" (RequestWorkspace.tsx:231).
BusyEnds ==
  \A key \in Keys : shown[key] # None /\ shown[key].busy =>
    \E u \in runs : u.key = key /\ Listens(u)
=============================================================================
