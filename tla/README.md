# A TLA+ model of grpcview

grpcview is a gRPC request client. One Go program is its server, its command
line and its MCP server; a TypeScript program in the browser (or in a VS Code
webview) is its tree and editor. A *workspace* is a directory; a *collection*
is a directory in it that holds a tree of saved requests, the descriptor
sources they are typed by, and scripts that run in an embedded JavaScript
engine. One server per workspace serves every client of that workspace, and
clients start it, restart it and find it by themselves.

Paths below are relative to the repository's root.

## 1. Inventory

| component | source | state it keeps | operations | what is hard about it |
|---|---|---|---|---|
| daemon rendezvous | `service/daemon`, `service/cli/daemon.go` | registration file, spawn lock (an flock), processes, ports | Connect, Stop, spawn, Read, Write, Remove | processes race; a registration, a pid and a port are stale when used; every poll needs a deadline while the lock is held |
| server lifecycle | `service/service.go`, `service/idle.go` | listener, idle timer, requests in flight | Run, Shutdown, StopServer, the idle watcher, the drain | closes its listener long before it unlinks its registration; a request arrives while it closes |
| sessions | `service/wire`, `ui/src/lib/keepalive.ts`, `service/cli/mcp.go` | current URL, calls that can be made again, the heartbeat | round trips with a redial, Keepalive | what was applied before the connection broke; replay of a stream; a server replaced by one with another timeout |
| collection handles | `service/store/store.go` | handle per id, its mutex | Open, Rename, Create, List | a handler keeps a handle through a rename |
| descriptor store | `service/store/fs.go`, `blobs.go` | source lists, sidecars, indexes, blobs | PutDescriptorState, DescriptorResolves, the blob collector | five files written in order, a collector over all collections, crashes, readers without the blobs' lock |
| source handlers | `service/workspace/workspace.go`, `sources.go` | none of their own | Add, Refresh, Reorder, SetCommit, Remove, CreateCollection, UpdateCollection | load, resolve and write are three critical sections |
| definitions memo | `service/workspace/definitions.go` | entries, order of use, epochs | lookup, store, invalidate, the derivation | a derivation reads two files with no lock; hand edits announce nothing |
| source merge | `service/workspace/sources.go` | none (pure) | mergeSources | three different rules decide who claims a file, a service and a server |
| item tree | `service/store/fs.go`, `layout.go` | directories, marker files, order lists | Create, Update, Delete, Move, load | every handler is several file operations; lists and directories drift apart |
| invocation | `service/workspace/invoke*.go`, `middleware.go`, `gvinvoke.go`, `runscript.go` | a stack of running invocations, history files | Invoke, InvokeStreaming, InvokeSaved, dry run, RunScript, invoke() from a script | scripts invoke requests that run scripts; reads of the store are spread over the call; one deadline for all of it |
| script engine | `service/scripting` | pool of QuickJS instances | get, put, run, Close | an interrupted instance must not be reused; nested runs must not wait for each other |
| code generation pool | `service/scripting/codegen` | workers, a queue | Generate, Close | workers that cannot be replaced; not called by anything yet |
| scripts of a collection | `service/store/scripts.go` | script files | create, update, rename, delete | an update that both renames and rewrites can half happen |
| discovery, describe | `service/store/discover.go`, `service/workspace/describe.go` | none | read-only walks and views | nothing beyond the data |
| workspace root, trust | `service/wsroot` | trust file | Trust, Revoke, IsTrusted | read, changed and written with no lock |
| descriptor builds | `service/bazelbuild` | none | runs Bazel | an external program |
| command line | `service/cli` | none of its own | write, sources, invoke, collection, uninstall, ... | sequences of calls; uninstall stops servers |
| MCP server | `service/mcp` | a session | tools as calls, streaming answers | the same session as above; trimming of answers |
| workbench (UI) | `ui/src/lib/ui-store.ts`, `workspace-query.ts`, `ui/src/features/workspace` | snapshot, tabs, drafts, responses, save timers, aborters | open, close, edit, save, run, stop, rename, move, delete | all of it keyed by path, while the tree changes; saves that fire later; streams that outlive a view |
| tree component (UI) | `ui/src/components/tree` | focus, anchor, selection, expansion, a name being typed, a drag | clicks, keys, inline rename, drag and drop | ids of rows that come and go with every answer |
| panel of collections (UI) | `CollectionPanel.tsx`, `panel-*.ts*`, `collection-menu.ts`, the dialogs, `ui/src/components/shell` | the listing, what has been fetched, the active collection, filter, menu and dialog, the moves of one drop | add, rename, delete, move, switch, create and rename a collection | what was opened for an item outlives its key; ids that change at four places at different moments |
| request pane (UI) | `RequestWorkspace.tsx`, `Editor.tsx`, `MetadataEditor.tsx`, `MiddlewareTab.tsx`, `MessagesTab.tsx` | drafts, save timers, the editor's text | type, complete, paste, tabs, target, method, middleware, history | three copies of a text; one timer per field; calls that are not debounced |
| script regions, imports (UI) | `script-region.ts`, `region-edits.ts`, `import-block.ts`, `resolve-imports.ts` | a text of which a part is the author's | wrap, unwrap, prune, resolve | the worker's answers are about an earlier text |
| scripts view (UI) | `ui/src/features/scripts` | drafts and selection by path, the detail pane | type, save, rename, delete, run, create | paths change and are used again; callbacks of a pane that is gone |
| sources view (UI) | `ui/src/features/sources` | a modal, locks of the rows | add, refresh, reorder, commit, remove, trust | handlers read the list long before they write it |
| daemons view (UI) | `ui/src/features/daemons` | a polled listing, a dialog | stop | the list is old; one mutation object for all rows |
| response view, widgets (UI) | `ResponsePane.tsx`, `ui/src/components` | layout, input | rendering | nothing beyond the data |

How they interact: a client (browser, command line, MCP) finds the server
through the rendezvous and talks to it over HTTP through a session that
redials. Each RPC is a goroutine in a handler of `service/workspace`, which
opens a collection's handle and calls the store; the store's methods are
critical sections under the handle's mutex, and the blobs have one lock for the
whole workspace. Invocations and loads go through the definitions memo; all
handlers that write sources invalidate it. Scripts run inside an invocation and
call back into the handlers through invoke(). The browser keeps one snapshot of
the collection, which every answer replaces, and everything else by key.

What makes each component correct is the list of properties in section 4.
The hazards the properties are aimed at, and those nothing covers yet, are in
`PROJECT.json` with their lines.

## 2. Modules

| module | models | state and actions in terms of the code |
|---|---|---|
| `Daemon` | rendezvous and the server's life | one client is one call of Connect, Stop or StopServer: `pc` says between which two file operations or RPCs it is. One process is one `service.Run`, from exec to exit. `reg` is the registration file, `lock` the flock. `Env` names what the surroundings may do; a deadline that may pass is an action |
| `Session` | reconnecting calls, heartbeat, idle timer, drain | `server` has one record per URL with its timer (`quiet` since the last request, `alarm` of the watcher); `call` one record per call of the client; `keep` is Keepalive's local state. `Redial` stands for all of `Daemon` |
| `Descriptors` | source handlers, handles, descriptor store, blob collector | one handler is one RPC; every file operation of `PutDescriptorState`, `DescriptorResolves`, `Rename` and the collector is an action. `mu` is one mutex per generation of a handle, `blobMu` the blobs' lock |
| `SourceMerge` | mergeSources | operators, used by `Definitions` |
| `Definitions` | the memo and the calls through it | `entries`, `recent` and `epochs` are `definitionsCache`'s fields; a derivation is ReadEpoch, ReadSources, ReadResolves, StoreDerived. A write of list and resolves is one step here, as `Descriptors` has its parts |
| `ItemTree` | the tree on disk | directories are nodes with a place, a marker and a name; a handler computes a `plan` of file operations under the mutex, and the operations happen one by one or are cut off |
| `OrderedItems` | the abstract tree | a forest in the user's order that changes by one item at a time; `ItemTree` implements it |
| `Workbench` | the browser's workbench | `cache` is the query's snapshot, `tabs`, `drafts`, `shown` are the store's maps, `timers` the debounced saves, `runs` the invocations with the listeners they still have; `tree` is the server, `calls` and `answers` what is on its way to it and back, each taken in any order; `rivals` is history |
| `ScriptPool` | the pool of instances | `idle` is Pool.idle, `busy` what runs hold, `dead` Instance.dead |
| `OutgoingMetadata` | metadata of folders, request and middleware | operators, with a second definition of what they are to compute |
| `Invoke` | invocations | extends the two above. A caller is a stack of frames, one per nested invocation; a frame's `pc` is the stage (resolve, bodies, folders, own script, attached middleware, send, record), `run` the instance its script runs in |
| `TreeRows` | the tree component's pure part | operators: the rows of a tree, where a key leads, what a click, a key and a drop ask for |
| `TreePanel` | the panel over the server's items | `tree` is the server's, `cols`, `landed` and `missing` what the browser knows of it, `calls` what is not answered; `ui`, `renaming`, `drag`, `modal`, `batch` are the component's and the panel's state; `rows` is what the last render showed. One action per thing the user does, one per kind of answer |
| `Scripts` | the scripts view over the script handlers | `files` is the server's, `drafts` and `selected` the store's, `detail` the pane that has the path for its key; a call is `heard` as long as the pane that made it is mounted |
| `Sources` | the sources view over the list handlers | a handler is two steps: it reads the list and, later, writes it (`Reads`, `Answers`); `Locked` is what disables a row |
| `DaemonsView` | the daemons view | `listed` is the last poll, `stopping` the calls with whether someone listens |
| `Region` | a script's text | operators: the mode a text asks for, wrap and unwrap, hosting and migration, prune, resolve or bail |
| `RequestPane` | the pane of a request | `text` is the editor's model, `drafts` the store's, `saved` the snapshot, `stored` what the server has, `timers` the saves that wait, `calls` and `answers` the updates and the snapshots on their way, each taken in any order; `asked` and `rivals` are history; `armed`, `idle` and `passes` are the editor's refs, its timer and the promises that wait for the worker |
| `App` | the application | the six views side by side: whatever the rail, the top bar or the server changes, every view follows (mounts, unmounts, forgets) |

`MC*` modules give constants their values. `*Proofs` modules hold the theorems:
`ServerProofs` those of `Daemon` and of `Session` (which therefore share no
name: `SessionInit`, `SessionNext`, `SessionSpec`), `DescriptorProofs` those of
`Descriptors`, and so on; `App`'s are in two, `PanelProofs` for what the panel of
collections does by itself and `AppProofs` for the application.

Composition: `Invoke` = `ScriptPool` + `OutgoingMetadata`; `Definitions` uses
`SourceMerge`; `ItemTree` refines `OrderedItems`. `App` = `TreePanel` (which uses
`TreeRows`) with instances of `Scripts`, `Sources`, `DaemonsView` and
`RequestPane` (which uses `Region`), which share the view that is shown, the
active collection and what has been fetched. `Session` abstracts `Daemon` into
one step, `Definitions` abstracts the writes of `Descriptors` into one, and `App`
abstracts the store into atomic handlers. `Workbench` and `App` are two views of
the same page: `Workbench` has the keys under which drafts, tabs and runs are
kept while requests move, `App` everything the user touches to make them move.

## 3. Abstractions that matter

* **Daemon.** Timeouts are nondeterministic. A pid is used once, except under
  "reuse", where a dead server's pid is given to a stranger. Each process may
  have any build; Verify compares roots, builds and liveness as the code does.
* **Session.** A tick is longer than a beat and shorter than every timeout;
  Redial is one step, which finds a server or starts one with any of the idle
  timeouts. A response that was sent may be lost at any point.
* **Descriptors.** What upstream serves is a *version*; a blob is named by the
  version it holds. A resolve yields any version. Corrupt blobs are left out, as
  blobs are written aside and renamed. Loading the list, resolving and writing
  are separate critical sections, as in the code. A created collection begins
  with no sources; one whose workspace has a manifest begins with the manifest's,
  unresolved (`fs.go:111`), which an add brings about here.
* **Definitions.** Put is one step under the mutex with the resolves it read
  there. Edits by hand change the list; a change of the sidecar alone by git is
  left out. A collection that arrives under an id by a rename counts as a change
  no call has announced.
* **ItemTree.** Contents of requests are not told apart; an update that changes
  no name changes nothing here. Slugs are a base and a number.
* **Workbench.** The server's handlers are atomic. Every call is an HTTP request
  of its own, which nothing holds back for another one (`RequestWorkspace.tsx:149`):
  calls are handled, and answers arrive, in any order. `rivals` is history: what
  was on its way to a request as its newest save was sent. `Care` is a user who waits for pending saves before changing the tree and for
  one unary run before the next, and who deletes only a request of which nothing
  is kept; the run sets it, and the hazards say what happens otherwise. Without
  the last, the freed slug is given out again, and what the browser keeps of the
  old request is shown for the new one.
* **Invoke.** A script is told apart by the keys it sets and whether it spreads
  what it inherits; it may invoke anything of the collection, fail, trap or run
  for ever. Compilation is left out. A call may end wherever the code returns an
  error. `steady` and `due` are history: a frame that has seen an edit of the
  collection is no longer steady. A client that sets a deadline of its own,
  which turns the profiles' deadlines off, is one that hangs up. Middleware runs
  once per message over the *same* metadata, so a middleware that is not
  idempotent changes it once per message; the model's middleware sets keys and
  is. The path of an ad-hoc call and its item name are tied, as the browser ties
  them.
* **App.** The server's handlers are atomic, except a source's, which reads before
  it writes. The updates of a request overtake each other, and so do their
  snapshots; the panel's calls are answered in the order they were made, and a
  careful user makes them one at a time. An item knows who it is, so that the
  model can tell when a key or a name leads elsewhere. `shut`, `batch.all`,
  `history`, `asked`, `rivals` and `pasted` are history. `shut` is what was open by
  default and was closed by the user, in the tree that is on the screen; what a
  move carries there open is taken out of it, and nothing else that is answered
  is. The rows are computed layer by
  layer: `Levels` is the number of items, below which no row is. The rows are made
  anew until nothing more is open by default, `MAX_RESOLVE_PASSES` times at most:
  1000 in the code, 4 in the run, whose trees are less deep. A call names an item
  by its path: the folder at all names but the last (`AtPath`, `resolveFolder`)
  and the last among its children (`Child`, `resolveChild`). `Careful` is a user who

  - changes nothing in the tree, and no collection, while a call is under way or
    the listing is out of date, and adds only to folders of the active collection;
  - does not leave a script, nor rename or delete it or create another one, while
    a call about it is under way, lets the dialog for a new one stand until it is
    answered, and keeps no two scripts of two collections at one path;
  - changes no list of sources while one is added or refreshed;
  - does not type between a paste and its pass, pastes objects into regions, does
    not bring back the very names a pass is waiting with, and chooses an older
    run where no editor is open;
  - changes the middleware again only when the last change is answered and the
    list that is shown is the one the server has.

  Each of these is a way to break a property in the code as it is; section 7
  lists them. The run is of the careful user, so that what else could break shows.
* **Region.** Of a text: whether it has markers and shim, what it begins with,
  the names it uses and the managed imports. Offsets, undo, markers that are
  pasted as text and imports by hand are left out. How many modules export a name
  (`Homes`) is fixed.

## 4. Runs

All runs are exhaustive. `CHECK_DEADLOCK FALSE` is set everywhere because every
run ends when its calls are used up.

| run | instance | what it shows |
|---|---|---|
| `core` | 3 clients, 2 builds, 3 processes, crashes, other workspaces | `OneServer`: never two servers that accept requests. `NeverAdoptsForeign`: a stale port never leads to another workspace's server. `TypeOK` |
| `faults_live` | 2 clients, 2 spawned processes and one by hand, all other happenings | `LockCoversSpawn`: the lock is held over exactly check, restart, spawn and wait, on every error path. `EveryCallReturns` |
| `close_race` (violation) | 3 clients, idle exits | `OneServer` fails when servers exit by themselves: the listener closes before the registration is unlinked, and the unlink removes the successor's |
| `blobs_two_collections` | 2 handlers, 2 collections, 2 sources, 2 versions, 3 calls | `ReadersFindTheirBlobs`; `BlobsExact`: the collector misses nothing, and each source is where its flag says |
| `blobs_faults` | 1 handler, all eight operations, crashes, failing operations, 5 calls | `LiveBlobsKept`; `Recoverable`: what resolved once is in one of its two places at any crash |
| `uncommitted_by_add` (violation) | 2 handlers, 1 source | `CommitIsSticky` fails: an add that loaded its list earlier writes the flag off |
| `item_tree` | two starts, a whole tree and one in which a folder's deletion was cut off; 3 directories, 3 names of 2 slugs, 3 calls, cuts, 3 drifts | `NoNamesakes`, `NothingOverwritten`, `Rooted`; `KeepsOrder`: what a reader sees is the list as it was written, and the refinement of `OrderedItems` |
| `workbench` | 3 requests, 2 directories, 2 edits, 1 change of the tree, 1 run, 2 tabs | `KeptIsOwn`: what is kept under a key is that request's. `EditsSaved`: the server ends with what was typed last, or with what was on its way as that was sent. `BusyEnds`: what is shown to run has a run that ends it |
| `session` | 2 URLs, 1 call and the heartbeat, timeouts 3 and 6, 2 faults | `AppliedOnce`: nor is a stream replayed under one who has a frame. `IdleOnTime`: never late, nor while it is held. `QuietServerStops` |
| `definitions` | 2 handlers, 2 ids, 2 sources, a memo of 1, 3 calls, 1 write, 1 edit by hand | `MemoFresh`; `ServedFresh`: no call but a rename answers with less than what was announced when it began, and an edit by hand shows in a load; `PriorityHolds`: a later source takes nothing from an earlier one |
| `invoke` | 2 callers, depth 2, two folders, two middleware, 1 edit, a pool of 1, a history of 1 | `NothingDropped`: what is sent went through all middleware and has all metadata, at any depth. `PoolSound`: instances are held by one run, idle ones are whole. `HistoryExact`: no record is lost or doubled but by the cap. `ScriptsEnd`: one deadline ends the whole stack |
| `app` | seven starts, see below | see below |

`app` asks of the page, from each start, all of these:

| property | says |
|---|---|
| `DoneAsAsked` | a call reaches the item that was meant and where it was meant to go; the server refuses no move and no delete; a delete names all it was asked for |
| `MovedTogether` | rows dropped together end side by side in the order of the screen |
| `KeysCurrent` | focus, selection and expansion hold the paths items have now |
| `CollapseSticks` | what was open by default and was closed stays closed, whatever is answered, as long as the tree is on the screen |
| `FocusInSight` | nothing the user does hides the row with the focus |
| `ChoiceListed` | the chosen collection exists, under whichever name |
| `ShownIsOwn`, `SavesLand` | text and output are those of the script that is there; the last text saved is what its file holds |
| `NothingUndone` | no accepted change of a list of sources is undone by another |
| `DialogUndisturbed` | a row's answer does not close the dialog of the page's own server |
| `BufferIsDraft` | what the editor shows is what an invocation would send |
| `ImportsKept`, `OnlyPasteUnwraps` | a pass that comes late takes no import in use, and opens no region nobody pasted into |
| `FieldsSaved` | when all is quiet the server has of every field the last value, or one that was on its way as that was sent |

The starts (`MCStarts` in `MCApp`): one collection, with a collection that can be
created or renamed (`MCPlain`); two collections as tiers (`MCTiered`); two with a
script each and two more paths (`MCScripts`); two sources, one of them built and
committed (`MCSources`); two daemons (`MCDaemons`); two requests, one with a
region and one whose stored object uses a name with two homes (`MCPane`); a
request of several messages whose first was emptied and left before the pause
(`MCMessages`). The author writes an object that uses the name with two homes or a
statement that uses the other one (`MCWritable`). All views are composed in each, and
the start says which of them are visited.

### The bounds, and why they are enough

* Two actors and one resource between them is where the races of `Daemon`,
  `Descriptors` and `Definitions` are; `core` has a third client because a client
  that waits for the lock meets a server started and one replaced meanwhile. The
  theorems of section 6 lift these bounds for the properties they cover.
* Two collections let a collector of one delete what the other names; two
  sources and two versions let two sources share a blob or change theirs; three
  calls let a call overtake one that overtakes another. With faults, one handler
  makes five calls, so that a crash, a recovery and a rename with its return fit.
* Three directories are a folder, what is moved into it and what collides; two
  of the three names collide as slugs; the third call works on what two cut
  ones have left.
* A memo of one entry makes every second id evict; a pool of one instance makes
  every nested run leave one more than it may keep; a history of one entry makes
  every second call push one out.
* `MaxWork` of `Invoke` bounds the things done: two calls, or one call that
  invokes twice more, one of which is refused at the depth limit. `MaxDepth` is 2,
  so that an invocation is below another one's script.
* Idle timeouts 3 and 6 with beats of 1 and 2 ticks are the smallest in which a
  missed beat is made up for, and in which a server's successor has another beat.
* In `app`, `acts` bounds what the user does to the page and `changes` what is
  changed by it, by start: three acts and one change in a single collection are
  to select or open, to open a menu and to confirm; two and one among tiers;
  four and three for scripts are to type, save, type on, rename and come back;
  three and four for sources, two and three for daemons let two calls be under way
  and a third thing happen; two and two in the pane are to open, to paste or type,
  to type again or go to the other request, while any of three passes, the saves
  and the answers come at any moment. `MaxOnWay` is 2, the updates and snapshots
  on their way at a time: two saves that overtake each other, or a snapshot that
  is older than the one after it. Two folders of one name and two requests of
  one name in different folders make paths collide.

## 5. Fairness

* `Daemon`: a client process is scheduled until its call returns (weak fairness
  of its steps and of Stop's deadline); strong for the startup deadline, which
  the poll loop checks between two probes on every turn. Nothing is assumed of
  the server processes, which may crash or hang.
* `Session`: time passes, timers go off, a drain ends at its timeout, and the
  client's and the server's own steps of a call are taken. The handler's work is
  not assumed to end: the user's gRPC server may hang.
* `Invoke`: handlers go on between scripts, deadlines pass, and what is past its
  deadline, or whose client is gone, is interrupted (the engine runs with
  close-on-context-done, and gRPC calls take the context). Scripts and servers
  may go on for ever otherwise.
* `Workbench`, `Descriptors`, `Definitions`, `ItemTree` and `App` state safety only.

## 6. Proofs

Every theorem holds for all values of the constants that satisfy the modules'
named assumptions; TLC evaluates these on every run.

| theorem | says | argument |
|---|---|---|
| `ServerProofs!TypeCorrect` | `Spec => []TypeOK` | `TypeInv` adds that a client past the spawn has a child and one that has seen something has it in shape |
| `ServerProofs!LockDiscipline` | `[]LockCoversSpawn` | `LockInv`: the lock's holder is at a label under the lock and no other client is |
| `ServerProofs!NoForeignAdoption` | `[]NeverAdoptsForeign` | results come from registrations that passed Verify, whose root differs for a foreign server |
| `ServerProofs!SingleServer` | `[]OneServer` when `Env` has only crashes and foreign servers | `SoloInv`: a process that is up is the registered one or the child of the lock's holder; the holder knows there is no other. Two listening servers are then both registered, or the same child. The assumption is needed: `close_race` is the counterexample without it |
| `ServerProofs!AppliesOnce` | `[]AppliedOnce`, for any number of calls, servers and faults | `SessionInv`: by where a call is, what it has done: nothing before it is handled and nothing when it failed unsent, so what is replayed was not applied; whoever serves a call is up and has sent all its frames |
| `ServerProofs!ServersIdleInTime` | `[]IdleInTime`: no server is silent beyond its idle timeout | `InTime`: the alarm is set for the deadline or before it, however long the last request took |
| `ServerProofs!IdlesOnTime` | `[]IdleOnTime` under `Paced`: a timeout has room for three beats and is longer than two of the shortest | `TimerInv`: while the server of the session answers or misses one beat it is silent for two intervals at most, less what is left of the one that runs (`Held`), and two intervals are shorter than any timeout (`TwoIntervals`). `beatsPerIdle` is 3 and the shortest interval half a minute (keepalive.go:14-19), so `Paced` leaves out timeouts of a minute and less, which two beats may outlast |
| `DescriptorProofs!DescriptorTypes` | `[]TypeOK` | itself inductive |
| `DescriptorProofs!BlobSafety` | `[]LiveBlobsKept` under `RenamesAlone`: nothing is renamed, or there is one handler | `BlobInv`: an entry is written for a blob that is there, and a collector's `refs` cover the directories it is through with. `LiveBlobsKept` alone is not inductive: it does not say what a collector in the middle has seen. What the locks are for is `Exclusive`, which follows from who holds them (`LocksHeld`) or from being alone |
| `DescriptorProofs!ReaderSafety` | `[]ReadersFindTheirBlobs` under `RenamesAlone` | the reader's index is the one on disk, as both are under its collection's mutex |
| `DescriptorProofs!NothingLost` | `[]Recoverable` under `RenamesAlone`, with crashes and failing writes | `KnownInv`: what a write has been through is in its new place before the old one is cleared (`Carried`), and while a collection is moved its index is found under the old id (`Moved`, `Kept`). That it is found under *either* id is not inductive: a stale index at the destination is removed |
| `DescriptorProofs!StoreExact` | `[]BlobsExact` under `Undisturbed`: no renames, crashes and failing writes | `ExactInv`: a writer's list is the one on disk, it writes entries of plain sources only, a collector refers to nothing the indexes do not name, and a collection nobody writes has its sources in their places or is not there. A write that is cut off leaves what the next one removes |
| `DefinitionsProofs!FreshCorrect` | `[]MemoFresh` | `FreshInv`: an epoch that was read is not ahead, and while it is current what was read after it is at least as new as the last announced write. Every invalidation raises the epoch, so a stale derivation is never current |
| `DefinitionsProofs!ServedCorrect` | `[]ServedFresh` with the types, for any number of handlers, ids, sources, calls, writes and edits | `CallsInv`: a call that derives has loaded a list of its `seen`, what it read last is at least as new as what was announced when it began, and the lists are sequences that name nothing twice. With `FreshInv` an entry that is hit is new enough as well |
| `DefinitionsProofs!MemoCorrect` | `[]MemoExact`: the memo has an entry exactly for the ids it remembers to have used, and no more than `Size` | part of `CallsInv`; lemmas say what Touch, Without and the cut at the front do to a sequence without repetitions |
| `DefinitionsProofs!PriorityCorrect` | `[]PriorityHolds`, for any sources and snapshots | it holds of every list: a file's claimant among the first sources is its claimant among all, because the least index that has the file is the same (`LeastNumber`: a nonempty set of naturals has a least element, from the library's well-foundedness theorem) |
| `WorkbenchProofs!WorkKeptIsOwn` | `[]KeptIsOwn` under `Care`, for any number of requests, names, edits, runs, changes and tabs | `WorkInv`: while a change of the tree is under way nothing else is, so the snapshot and the tree agree about who is where up to that one change (`Calm`, `Asked`, `Answered`, `Follows`), and what is kept is of the request the snapshot has under the key (`Kept`). The key a move is carried to is found in its answer and has nothing yet (`MovedCarried`) |
| `WorkbenchProofs!WorkEditsSaved` | `[]EditsSaved` under `Care` | `Order`, `Typed`, `Owned`: bodies are numbered by the edits; a save that waits is newer than all that are on their way and is of a draft's request, and none is newer than the draft. Once the draft's own is sent, only it and those it was sent among are still to come, and one of them is the tree's body or it is itself on its way (`SentLast`): that is all the code promises, as saves overtake each other. What has not been opened has the same body in the tree, the snapshot and every answer (`Untouched`), so seeding a draft from an old snapshot is right |
| `WorkbenchProofs!WorkBusyEnds` | `[]BusyEnds` under `Care` | inductive with `Kept` |
| `InvokeProofs!PoolSafe` | `PoolSpec => []PoolInv` | inductive with the types; one lemma for each of get, trap, put and Close |
| `InvokeProofs!PoolUsed` | `Spec => PoolSpec` of `Invoke`: an invocation's step is a pool step or leaves the pool alone | `StackInv`: the stacks are sequences of frames within the depth limit, and a frame holds an instance only where it runs a script; so what a run gives back is an instance or its own |
| `InvokeProofs!InstancesHeldOnce` | `[]PoolSound`, at any depth and for any number of callers | `HeldInv`: what is busy is in a frame, what is in a frame is busy and in no other. With `PoolSafe` through `PoolUsed` it is `PoolSound`. Lemmas say what replacing, popping and pushing the last frame does to it |
| `InvokeProofs!HistoryCorrect` | `[]HistoryExact`, at any depth, for any number of callers and calls, any limit, and whatever is renamed meanwhile | `HistInv`: active calls have different numbers, only the outermost invocation records, who has the mutex has read the file it is about to write, what a file holds is of no active call, and what is due is under way, passed or there. `HistoryExact` alone is not inductive: it does not say what the one at the mutex has read |
| `ItemTreeProofs!PathsUnambiguous` | `[]NoNamesakes`, for any set of directories, any trees to begin with (`IsTree`), any drift of the lists, any number of calls and cuts | `TreeInv`: besides the tree (`TreeOK`) it says of each plan what it has left to do and what it will find (`Planned`): the name is still free among the siblings, and the place has no item. Without it no file operation preserves anything |
| `ItemTreeProofs!NothingLostToAnother` | `[]NothingOverwritten` | the plan of a create or a move keeps its place free of items until it is taken. `UniqueSlug` finds a number because there are more numbers than directories (pigeonhole) |
| `ItemTreeProofs!ForestShown` | `[]Rooted`: the directories are a forest below the root, and a reader shows each item once | `Chain` is the least set that is closed upwards (`ChainIs`), so a move outside the item's own chain keeps every chain at the root; what a list leaves out is sorted behind it without repetition (`Ranks`: a strict order of a finite set gives each element a rank of its own) |
| `ItemTreeProofs!OrderKept` | `KeepsOrder`: a list, when it is written, is what is shown from then on, and every step of `ItemTree` is a step of `OrderedItems` or changes nothing a reader sees | `OrderInv`: all steps of a plan are about one item; a list still to be written has all others in the order they are shown in; and what lost its directory's mark but not its contents is below the item being deleted, unless a deletion was cut off once (`torn`) |
| `ItemTreeProofs!ListsAsWritten` | `[][AsWritten]_vars`, the first half of it | the plan's list names the children there will be by then, each once, and of such a list `Reconciled` is the identity |
| `InvokeProofs!SentWhole` | `[]NothingDropped`, at any depth, for any scripts, folders and middleware | `SeenInv` says of each place an invocation can be at how far the messages and the metadata have come (`Saw`); the fold one script at a time is what `Inherited` says of the whole chain (`OneScript`), and one middleware at a time what the last to set a key says (`OneStamp`). An edit leaves no invocation steady, so what a steady one has read is what is there |
| `AppProofs!DialogsOwnStop` | `[]DialogUndisturbed`, for any daemons, listings and stops | `DaemonsInv`: while the dialog is open, a stop that someone still listens to is its own |
| `AppProofs!ListsLoseNothing` | `[]NothingUndone` under `Careful`, for any collections, sources and answers | `SourcesInv`: of the calls that change a list there is one at a time, what it read is the list as it is, and while one is under way no collection is renamed (`NothingAsked`) |
| `AppProofs!ScriptsShowTheirOwn` | `[]ShownIsOwn` under `Careful`, for any collections, paths and scripts | `ScriptsInv`: a call is about a script that is at its path, and is heard by the pane that shows it; so the answer that moves or forgets a draft finds it there. The first attempt failed: see section 7 |
| `AppProofs!ScriptSavesLand` | `[]SavesLand` under `Careful` | with the same invariant: a save on its way holds what was saved last, and no rename is on its way with it |
| `AppProofs!EditorShowsDraft` | `[]BufferIsDraft` under `Careful`, for any requests, texts, homes of names and passes | `RequestInv`, of which `EditorInv` says it and `PassesInv` and `ArmedInv` bound what a pass may still do |
| `AppProofs!FieldsAreSaved` | `[]FieldsSaved` under `Careful` | `TimersInv`, `UpdatesInv`, `ServerInv`: a field has one timer, which holds what was asked for last; where none waits, that value has been sent, and all that is on its way, and what the server has once it is handled, is that value or one of its `rivals` (`Final`), in whichever order they are handled. Without `rivals` it is false, see section 7 |
| `AppProofs!ImportsAreKept` | `ImportsKept` under `Careful` | `PassesInv`: what a prune is about to remove is unused in the text it was asked about, and the pass is dropped unless the text has that one's names |
| `AppProofs!OnlyPastesUnwrap` | `OnlyPasteUnwraps` under `Careful` | `ArmedInv`: what is armed waits for its pause, over a region whose names are those of the last paste; a resolve is only asked for then |
| `AppProofs!ModesSettle` | a text that was switched, or that a pass bailed out with, asks for no further switch | `UnwrapSettles`: an object keeps its shim when its region is opened up, and what keeps its shim is not bare |

| `AppProofs!PassesKeepUsed` | a prune keeps exactly what is used; a resolve leaves no name unresolved or gives the region up with its imports | set algebra over what each edit does |
| `AppProofs!ClosedStaysClosed` | `[]CollapseSticks` while the tree is on the screen, for any tree, whatever arrives | `ExpandInv`: what was closed has been opened by default before, and is not open now. Each pass of a render opens only what never was (`PassOpens`), so no number of passes opens what is closed (`PassesOpen`), be it after an answer, a filter or a switch; a key or a click moves ids between the sets as `Shut` says, and an answer opens nothing that was closed but what a move carries there open (`AnswerOpens`) |
| `AppProofs!ChosenIsThere` | `[]ChoiceListed` under `Careful`, for any collections, items and trees of them | `ChoiceInv`: what is chosen is there, and so is what every call under way is about. The choice follows the focus, so the rows are in it: their ids begin with a collection that is listed and their parents are rows (`RowsOf`, kept by `RowsBelow`, layer by layer), and a key or a click leaves the focus on one of them. A call that changes which collections there are is alone, so no other answer finds its collection gone |

Two devices come back in several proofs. The provers have no induction over data, so
what a recursion over the tree, a number of passes or a rank in an order does is shown by a least
counterexample (`LeastNumber`, from the library's well-foundedness theorem). And they
cannot expand `SortSeq` and `SelectSeq`, so what the code does with `slices.SortFunc`,
`slices.DeleteFunc` and a loop that passes folders over is said by rank (`InOrder`,
`Without`, `ScriptChain`).

The views of `App` have one invariant each (`DaemonsInv`, `SourcesInv`,
`ScriptsInv`, `RequestInv`), and one for what all of them rest on: which
collections there are, what was fetched of them and which is chosen (`PanelInv`).
Each is kept by the steps of its own view and by what the rail, the top bar and the
panel make it follow, so that the theorems hold of the whole page and not of a view
by itself. What the panel opens and chooses (`ExpandInv`, `ChoiceInv`) is shown in
`PanelProofs` for the panel's own steps, which is where the rows, the tiers and the
passes of a render are; `AppProofs` adds that a step of the tree is one of the panel
(`StepOfPanel`) and that no other view touches either. `DirsAssumption` and
`PanelAssumption`, `StartsAssumption` and `ConstantsAssumption` say what the starts
and the constants are: collections in different directories, scripts that differ and have
paths of their own, requests whose stored scripts are ones the editor has written.

Only model-checked: all liveness (`EveryCallReturns`, `QuietServerStops`,
`ScriptsEnd`), which the prover cannot do under fairness; and of `TreePanel`
`DoneAsAsked`, `MovedTogether`, `KeysCurrent` and `FocusInSight`. They speak of the
very paths of items or of the order of the rows, and need what these recursions over
the tree compute for every tree and every change of it.

## 7. What the models say against the repository

* `close_race`: docs and a comment promise one server and that a server another
  client just started is reused. A server that exits by itself is outside the
  spawn lock, closes its listener first and unlinks whatever registration is
  there last, so a client that connects in between can end with two.
* `uncommitted_by_add`: a comment says a re-add never turns committing off. An
  add whose list was loaded before a commit does.

Known from modelling, with no run spent on them (hazards in `PROJECT.json`):

* Stop signals a pid verified up to ten seconds earlier (`"reuse"` in `Env`
  reaches it).
* A rename that moves an index while the collector scans loses blobs
  (`Ops = {"add", "rename"}`, `MaxOps = 3`, `MaxGen = 3` with two handlers shows
  `LiveBlobsKept` violated). Hence the assumption of `BlobSafety`.
* A rename drops the memo's entry "or nothing will ever invalidate it again"
  (`workspace.go:175`), and moves the directory after that. A load in between
  stores the entry again under the old id; later writes invalidate the new id
  only, and when the collection, or another with the same list, is renamed back,
  it is answered from the old entry (four calls: `ServedFresh` fails for renames
  with `MaxCalls = 4`, which is why it leaves their answers out).
* Two derivations of descriptors may delete a blob that cannot be parsed without
  the blobs' lock (`blobs.go:79`); two processes that trust two workspaces at a
  time lose one (`trust.go:114`); an update of a script that both renames and
  rewrites writes before it finds the new path taken (`scripts.go:100`).
* The browser shows a deleted request's draft for a new one under its slug, and
  a save that fires after a rename fails silently. Stop finds no aborter for a
  stream whose view was unmounted (`WorkspaceView.tsx:20`), and an answer that is
  overtaken puts an older snapshot over a newer (`workspace-query.ts:348`).
* Two saves of one request, or two changes of its method, that are under way at a
  time may be handled in the other order, and the older one stays while the page
  shows the newer (`RequestWorkspace.tsx:149`, `171`, `182`). `EditsSaved` and
  `FieldsSaved` say what remains: nothing older than what was on its way as the
  last one was sent.

In the panel (excluded by `Careful`, or by what the properties say):

* "Add request" on a selection that spans collections goes to the active one
  (`request-tree.tsx:114`, `CollectionPanel.tsx:136`).
* A drop before a row that is itself dragged turns the order around
  (`Tree.tsx:343`), and what covers what is decided without the collection
  (`format.ts:112`). The rest of a batch is lost when the view is left or another
  drop replaces the callback (`CollectionPanel.tsx:213`).
* A folder that was closed opens again when it is moved, as its id is another one
  then, and when the panel is come back to, as `seenDefaults` goes with the tree
  (`useTreeState.ts:70`, `77`): "a later manual collapse is never sprung back
  open" (`panel-tree.tsx:178`) holds of an id and of one mounting of the tree,
  and that is what `CollapseSticks` says.
* Between a collection's rename and the next listing the old id can be chosen,
  and is not found; a rename under way takes the choice back from a user who has
  switched meanwhile (`workspace-query.ts:254`).

In the other views:

* Script drafts are kept by path for all collections (`ui-store.ts:198`); a
  callback of a pane that was left does not move or forget the draft; refused
  renames and saves are shown nowhere.
* A script that is created while another is being renamed takes the pane away
  (`ScriptsView.tsx:30`), and the rename's callback, which is the pane's, is never
  called (`ScriptDetail.tsx:105`): what was typed stays under the old path, and a
  script that gets that path is shown with it. The proof of `ScriptsShowTheirOwn`
  found this; on the run's instance it takes four paths and nine steps, and the
  paths were three.
* A refresh or an add in flight undoes a reorder, commit or remove of another
  row; a second refresh takes the lock of the first (`source-row.tsx:207`); Enter
  in the modal adds again while an add is pending.
* An older run chosen in the timeline is put in the draft, and neither saved nor
  shown by an open editor, against `ResponsePane.tsx:434`.
* A second change of the middleware before the first is answered undoes it
  (`MiddlewareTab.tsx:53`).
* A paste followed by typing within the pause judges half-typed names as pasted,
  against `Editor.tsx:117`; a paste into a plain script leaves the arm set for the
  next region; a pass is not told from one that asked about the same text in
  another request, or before the text changed and changed back (`Editor.tsx:139`).

## 8. What is not modelled

| part | why |
|---|---|
| contents: bodies, protobuf encoding, formatting, rendering | data the properties do not tell apart |
| bundling of scripts, source maps, value conversion | pure, and large; what a run may do is modelled, not what it computes |
| offsets, undo, completion lists and hand-written imports of the editor | the edits are modelled by what they do to a text's parts |
| drafts and tabs together with the panel | `Workbench` and `App` are separate: together their state is out of TLC's reach in the time a run has |
| widgets, virtual scrolling, type-ahead | layout and input |
| command line sequences, trust file | one call after another of handlers that are modelled; nothing relies on the trust file but one check |
| the code generation pool | nothing in the program calls it yet |
| ListServers, describe, discovery, get | read-only |
| Bazel, the kernel, the user's gRPC servers, the npm packages | external: any answer, or none |

## 9. Plan

1. *Done*: the rendezvous, the session, the descriptor store with its handlers,
   the definitions memo, the item tree, the workbench, invocations, and the
   browser's application with its panel, views and editor.
2. *Next modules*, should they be wanted: `CodegenPool` once something calls it;
   the command line's sequences over `ItemTree` and `Descriptors`; drafts and tabs
   of `Workbench` inside `App`, over a smaller panel.
3. *Next theorems*: those of `TreePanel` in section 6 that are only model-checked.
4. *Room*: the longest runs are `app`, `workbench` and `invoke`; a new module
   should join a run of a module it composes with.
