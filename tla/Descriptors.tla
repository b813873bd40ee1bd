----------------------------- MODULE Descriptors -----------------------------
(***************************************************************************)
(* Where a collection keeps what its descriptor sources resolved to, and    *)
(* the handlers that change it: AddDescriptorSource, Refresh..., Reorder..., *)
(* SetDescriptorSourceCommit, RemoveDescriptorSource, CreateCollection and   *)
(* the rename in UpdateCollection (service/workspace), down to the files     *)
(* that PutDescriptorState, DescriptorResolves, Rename and the collector of  *)
(* unreferenced blobs read and write (service/store).                        *)
(*                                                                           *)
(* A source is listed in its collection's grpcview.json, with or without a   *)
(* flag that commits its descriptors.  Committed ones are in a sidecar file  *)
(* beside the list; the others are content-addressed blobs of the whole      *)
(* workspace, named by an index in the collection's state directory.  The    *)
(* descriptors themselves are versions: what upstream serves at a time.      *)
(***************************************************************************)
EXTENDS Naturals, FiniteSets

CONSTANTS
  Handlers,    \* goroutines, each serving one RPC after another
  Dirs,        \* collection ids: directories of the workspace
  Present,     \* those that hold a collection at the start
  Sources,     \* ids of descriptor sources
  Versions,    \* what a source can resolve to
  Ops,         \* which of the handlers below are called
  Env,         \* which of Happenings may happen
  MaxOps,      \* bound: RPCs served
  MaxGen,      \* bound: generations of a collection's handle
  None         \* no version, no collection, no holder, no job

Happenings ==
  { "crash",     \* the server dies and is started again
    "fail",      \* a file operation of PutDescriptorState fails
    "offline" }  \* a source cannot be resolved

AllOps == { "add", "refresh", "reorder", "commit", "uncommit", "remove", "create", "rename" }

ASSUME SetsAssumption == /\ Env \subseteq Happenings
                         /\ Ops \subseteq AllOps
                         /\ Present \subseteq Dirs
                         /\ MaxOps \in Nat /\ MaxGen \in Nat

Flags == {"absent", "plain", "commit"}
SourceList == [Sources -> Flags]

ASSUME NoneAssumption == None \notin Versions \cup Handlers \cup SourceList

Resolves == [Sources -> Versions \cup {None}]
Nothing == [s \in Sources |-> None]

\* A call: what it does, to which source of which collection, through which
\* handle, and for a rename where to.
Jobs == [op : AllOps, src : Sources, dir : Dirs, gen : 0..MaxGen, to : Dirs]

VARIABLES
  list,       \* grpcview.json: the sources of each collection
  sidecar,    \* the descriptors committed beside it
  index,      \* which blob holds what a source resolved to
  stateDirs,  \* the collections that have a state directory
  ghosts,     \* directories remade where a collection was moved away
  blobs,      \* the versions stored as blobs
  gen,        \* which handle Store.Open returns for an id
  mu,         \* Collection.mu of each handle
  blobMu,     \* Store.blobMu
  ops,        \* how many RPCs were served
  pc, job,    \* where each handler is, in which call
  want,       \* the source list it is going to write
  got,        \* what it found the sources resolve to
  old,        \* the index as it read it
  entry,      \* the index it is going to write
  left,       \* the sources it still has to write
  unread,     \* the state directories it still has to scan
  refs,       \* the versions it found referenced
  known       \* history: sources that have resolved while listed

files == <<list, sidecar, index, stateDirs, ghosts, blobs>>
locks == <<mu, blobMu>>
work == <<want, got, old, entry, left, unread, refs>>
vars == <<list, sidecar, index, stateDirs, ghosts, blobs, gen, mu, blobMu, ops, pc, job,
          want, got, old, entry, left, unread, refs, known>>

Labels ==
  { "idle", "load", "resolve", "checkIndex", "checkBlobs", "readIndex", "readBlobs",
    "lock", "manifest", "wantBlobMu", "sources", "index", "prune", "gc", "gcRead",
    "gcDelete", "create", "rename", "clearState", "moveState", "drop" }

TypeOK ==
  /\ list \in [Dirs -> SourceList \cup {None}]
  /\ sidecar \in [Dirs -> Resolves]
  /\ index \in [Dirs -> Resolves]
  /\ stateDirs \subseteq Dirs
  /\ ghosts \subseteq Dirs
  /\ blobs \subseteq Versions
  /\ gen \in [Dirs -> 0..MaxGen]
  /\ mu \in [Dirs \X (0..MaxGen) -> Handlers \cup {None}]
  /\ blobMu \in Handlers \cup {None}
  /\ ops \in Nat
  /\ pc \in [Handlers -> Labels]
  /\ job \in [Handlers -> Jobs \cup {None}]
  /\ \A h \in Handlers : pc[h] # "idle" => job[h] \in Jobs
  /\ want \in [Handlers -> SourceList]
  /\ got \in [Handlers -> Resolves]
  /\ old \in [Handlers -> Resolves]
  /\ entry \in [Handlers -> Resolves]
  /\ left \in [Handlers -> SUBSET Sources]
  /\ unread \in [Handlers -> SUBSET Dirs]
  /\ refs \in [Handlers -> SUBSET Versions]
  /\ known \subseteq Dirs \X Sources

Unlisted == [s \in Sources |-> "absent"]

Init ==
  /\ list = [d \in Dirs |-> IF d \in Present THEN Unlisted ELSE None]
  /\ sidecar = [d \in Dirs |-> Nothing]
  /\ index = [d \in Dirs |-> Nothing]
  /\ stateDirs = {}
  /\ ghosts = {}
  /\ blobs = {}
  /\ gen = [d \in Dirs |-> 0]
  /\ mu = [k \in Dirs \X (0..MaxGen) |-> None]
  /\ blobMu = None
  /\ ops = 0
  /\ pc = [h \in Handlers |-> "idle"]
  /\ job = [h \in Handlers |-> None]
  /\ want = [h \in Handlers |-> Unlisted]
  /\ got = [h \in Handlers |-> Nothing]
  /\ old = [h \in Handlers |-> Nothing]
  /\ entry = [h \in Handlers |-> Nothing]
  /\ left = [h \in Handlers |-> {}]
  /\ unread = [h \in Handlers |-> {}]
  /\ refs = [h \in Handlers |-> {}]
  /\ known = {}

(***************************************************************************)
(* Shorthands.  Dir(h) is the directory a handler's handle addresses, which *)
(* need not hold the collection any more; Mutex(h) is that handle's lock.   *)
(***************************************************************************)
Dir(h) == job[h].dir
Mutex(h) == <<job[h].dir, job[h].gen>>
Goto(h, label) == pc' = [pc EXCEPT ![h] = label]
Listed(l) == {s \in Sources : l[s] # "absent"}
Digests(i) == {i[s] : s \in Sources} \ {None}

\* The call is over: its working data is forgotten, its locks are released.
Return(h) ==
  /\ pc' = [pc EXCEPT ![h] = "idle"]
  /\ job' = [job EXCEPT ![h] = None]
  /\ want' = [want EXCEPT ![h] = Unlisted]
  /\ got' = [got EXCEPT ![h] = Nothing]
  /\ old' = [old EXCEPT ![h] = Nothing]
  /\ entry' = [entry EXCEPT ![h] = Nothing]
  /\ left' = [left EXCEPT ![h] = {}]
  /\ unread' = [unread EXCEPT ![h] = {}]
  /\ refs' = [refs EXCEPT ![h] = {}]
  /\ mu' = [k \in DOMAIN mu |-> IF mu[k] = h THEN None ELSE mu[k]]
  /\ blobMu' = IF blobMu = h THEN None ELSE blobMu

-----------------------------------------------------------------------------
(***************************************************************************)
(* The handlers up to the write: open, load, resolve, read what is stored. *)
(***************************************************************************)
First(op) == IF op \in {"create", "rename"} THEN op ELSE "load"

Start(h) ==
  /\ pc[h] = "idle"
  /\ ops < MaxOps
  /\ ops' = ops + 1
  /\ \E op \in Ops, s \in Sources, d, to \in Dirs :
       /\ op \in {"create", "rename", "reorder"} => s = CHOOSE x \in Sources : TRUE
       /\ op # "rename" => to = d
       /\ op = "rename" => to # d
       /\ job' = [job EXCEPT ![h] = [op |-> op, src |-> s, dir |-> d, gen |-> gen[d], to |-> to]]
       /\ Goto(h, First(op))
  /\ UNCHANGED <<files, gen, locks, work, known>>

\* What a handler makes of the list it loaded; committing is sticky across a
\* re-add, which may turn it on but not off.
Edited(l, op, s, flag) ==
  [l EXCEPT ![s] = IF op = "add" /\ @ # "commit" THEN flag
                   ELSE IF op = "commit" THEN "commit"
                   ELSE IF op = "uncommit" THEN "plain"
                   ELSE IF op = "remove" THEN "absent"
                   ELSE @]

AfterLoad(op) ==
  IF op \in {"add", "refresh"} THEN "resolve"
  ELSE IF op = "commit" THEN "checkIndex" ELSE "readIndex"

\* openWithSources: the list is read under the lock, which is then released.
Load(h) ==
  /\ pc[h] = "load"
  /\ mu[Mutex(h)] = None
  /\ LET l == list[Dir(h)]
         op == job[h].op
     IN IF l = None \/ (op \notin {"add", "reorder"} /\ l[job[h].src] = "absent")
          THEN Return(h) /\ UNCHANGED <<files, gen, ops, known>>
          ELSE /\ \E flag \in {"plain", "commit"} :
                    /\ op # "add" => flag = "plain"
                    /\ want' = [want EXCEPT ![h] = Edited(l, op, job[h].src, flag)]
               /\ Goto(h, AfterLoad(op))
               /\ UNCHANGED <<files, gen, locks, ops, job, got, old, entry, left, unread, refs, known>>

\* The source is dialed, built or read, without a lock.
Resolve(h) ==
  /\ pc[h] = "resolve"
  /\ \/ /\ \E v \in Versions : got' = [got EXCEPT ![h][job[h].src] = v]
        /\ Goto(h, "readIndex")
        /\ UNCHANGED <<locks, job, want, old, entry, left, unread, refs>>
     \/ /\ "offline" \in Env
        /\ Return(h)
  /\ UNCHANGED <<files, gen, ops, known>>

\* DescriptorResolves: the index first, then the blobs and the sidecars, under
\* the collection's lock and without the lock of the blobs.
ReadIndex(h) ==
  /\ pc[h] \in {"checkIndex", "readIndex"}
  /\ mu[Mutex(h)] = None
  /\ mu' = [mu EXCEPT ![Mutex(h)] = h]
  /\ old' = [old EXCEPT ![h] = index[Dir(h)]]
  /\ Goto(h, IF pc[h] = "checkIndex" THEN "checkBlobs" ELSE "readBlobs")
  /\ UNCHANGED <<files, gen, blobMu, ops, job, want, got, entry, left, unread, refs, known>>

Stored(h, s) ==
  LET l == list[Dir(h)]
  IN IF l # None /\ l[s] = "commit" /\ sidecar[Dir(h)][s] # None
       THEN sidecar[Dir(h)][s]
       ELSE IF old[h][s] \in blobs THEN old[h][s] ELSE None

\* Only what has resolved can be committed.
CheckBlobs(h) ==
  /\ pc[h] = "checkBlobs"
  /\ IF Stored(h, job[h].src) = None
       THEN Return(h)
       ELSE /\ Goto(h, "readIndex")
            /\ mu' = [mu EXCEPT ![Mutex(h)] = None]
            /\ UNCHANGED <<blobMu, job, work>>
  /\ UNCHANGED <<files, gen, ops, known>>

\* resolveConfigured: a source is what the handler just resolved it to, or what
\* is stored, or is resolved now, which may fail.  The views are then merged,
\* which may fail as well.
ReadBlobs(h) ==
  /\ pc[h] = "readBlobs"
  /\ \/ /\ \E found \in Resolves :
             /\ \A s \in Sources :
                  LET stored == IF got[h][s] # None THEN got[h][s] ELSE Stored(h, s)
                  IN IF want[h][s] = "absent" THEN found[s] = None
                     ELSE \/ found[s] = stored /\ (stored = None => "offline" \in Env)
                          \/ stored = None /\ found[s] \in Versions
             /\ got' = [got EXCEPT ![h] = found]
        /\ Goto(h, "lock")
        /\ mu' = [mu EXCEPT ![Mutex(h)] = None]
        /\ UNCHANGED <<blobMu, job, want, old, entry, left, unread, refs>>
     \/ /\ "offline" \in Env
        /\ Return(h)
  /\ UNCHANGED <<files, gen, ops, known>>

-----------------------------------------------------------------------------
(***************************************************************************)
(* PutDescriptorState: the list, then every source, then the index, then   *)
(* what nothing refers to any more.                                         *)
(***************************************************************************)
Lock(h) ==
  /\ pc[h] = "lock"
  /\ mu[Mutex(h)] = None
  /\ mu' = [mu EXCEPT ![Mutex(h)] = h]
  /\ Goto(h, "manifest")
  /\ UNCHANGED <<files, gen, blobMu, ops, job, work, known>>

WriteList(h) ==
  /\ pc[h] = "manifest"
  /\ IF list[Dir(h)] = None
       THEN Return(h) /\ UNCHANGED <<list, known>>
       ELSE /\ list' = [list EXCEPT ![Dir(h)] = want[h]]
            /\ known' = {k \in known : k[1] = Dir(h) => want[h][k[2]] # "absent"}
            /\ Goto(h, "wantBlobMu")
            /\ UNCHANGED <<locks, job, work>>
  /\ UNCHANGED <<sidecar, index, stateDirs, ghosts, blobs, gen, ops>>

TakeBlobMu(h) ==
  /\ pc[h] = "wantBlobMu"
  /\ blobMu = None
  /\ blobMu' = h
  /\ old' = [old EXCEPT ![h] = index[Dir(h)]]
  /\ left' = [left EXCEPT ![h] = Listed(want[h])]
  /\ Goto(h, "sources")
  /\ UNCHANGED <<files, gen, mu, ops, job, want, got, entry, unread, refs, known>>

\* storedResolve: where the previous write left a source.
LastStored(h, s) ==
  IF sidecar[Dir(h)][s] # None THEN sidecar[Dir(h)][s]
  ELSE IF old[h][s] \in blobs THEN old[h][s] ELSE None

\* The sidecar's directory is made if it is not there, even where the
\* collection is not any more.
WriteCommitted(h, s) ==
  LET v == IF got[h][s] # None THEN got[h][s] ELSE LastStored(h, s)
  IN /\ IF v = None
          THEN UNCHANGED <<sidecar, ghosts>>
          ELSE /\ sidecar' = [sidecar EXCEPT ![Dir(h)][s] = v]
               /\ ghosts' = IF list[Dir(h)] = None THEN ghosts \cup {Dir(h)} ELSE ghosts
     /\ UNCHANGED <<blobs, entry>>

\* Mutant: a source without an entry is not looked for in its sidecar.
WritePlainIndexOnly(h, s) ==
  LET v == IF got[h][s] # None THEN got[h][s] ELSE old[h][s]
  IN /\ blobs' = IF got[h][s] # None THEN blobs \cup {v} ELSE blobs
     /\ entry' = [entry EXCEPT ![h][s] = v]
     /\ UNCHANGED <<sidecar, ghosts>>

\* A source that was not resolved again keeps its entry as it is; one without
\* an entry is moved out of its sidecar.
WritePlain(h, s) ==
  LET kept == got[h][s] = None /\ old[h][s] # None
      v == IF kept THEN old[h][s]
           ELSE IF got[h][s] # None THEN got[h][s] ELSE sidecar[Dir(h)][s]
  IN /\ blobs' = IF kept \/ v = None THEN blobs ELSE blobs \cup {v}
     /\ entry' = [entry EXCEPT ![h][s] = v]
     /\ UNCHANGED <<sidecar, ghosts>>

WriteSource(h) ==
  /\ pc[h] = "sources"
  /\ \E s \in left[h] :
       /\ IF want[h][s] = "commit" THEN WriteCommitted(h, s) ELSE WritePlain(h, s)
       /\ left' = [left EXCEPT ![h] = @ \ {s}]
  /\ UNCHANGED <<list, index, stateDirs, gen, locks, ops, pc, job, want, got, old, unread, refs, known>>

SourcesWritten(h) ==
  /\ pc[h] = "sources"
  /\ left[h] = {}
  /\ Goto(h, "index")
  /\ UNCHANGED <<files, gen, locks, ops, job, work, known>>

\* The state directory is made if it is not there.
WriteIndex(h) ==
  /\ pc[h] = "index"
  /\ index' = [index EXCEPT ![Dir(h)] = entry[h]]
  /\ stateDirs' = stateDirs \cup {Dir(h)}
  /\ known' = known \cup {<<Dir(h), s>> : s \in {x \in Listed(want[h]) : got[h][x] # None}}
  /\ Goto(h, "prune")
  /\ UNCHANGED <<list, sidecar, ghosts, blobs, gen, locks, ops, job, work>>

\* Mutant: nothing is collected.
PruneWithoutGc(h) ==
  /\ pc[h] = "prune"
  /\ sidecar' = [sidecar EXCEPT ![Dir(h)] =
                   [s \in Sources |-> IF want[h][s] = "commit" THEN @[s] ELSE None]]
  /\ Return(h)
  /\ UNCHANGED <<list, index, stateDirs, ghosts, blobs, gen, ops, known>>

Prune(h) ==
  /\ pc[h] = "prune"
  /\ sidecar' = [sidecar EXCEPT ![Dir(h)] =
                   [s \in Sources |-> IF want[h][s] = "commit" THEN @[s] ELSE None]]
  /\ Goto(h, "gc")
  /\ UNCHANGED <<list, index, stateDirs, ghosts, blobs, gen, locks, ops, job, work, known>>

(***************************************************************************)
(* gcBlobs: the state directories are listed once, then the index of each  *)
(* is read, then every blob that none of them names is deleted.            *)
(***************************************************************************)
\* Mutant: only the writing collection's index is looked at.
GcOwnIndexOnly(h) ==
  /\ pc[h] = "gc"
  /\ unread' = [unread EXCEPT ![h] = stateDirs \cap {Dir(h)}]
  /\ Goto(h, "gcRead")
  /\ UNCHANGED <<files, gen, locks, ops, job, want, got, old, entry, left, refs, known>>

GcList(h) ==
  /\ pc[h] = "gc"
  /\ unread' = [unread EXCEPT ![h] = stateDirs]
  /\ Goto(h, "gcRead")
  /\ UNCHANGED <<files, gen, locks, ops, job, want, got, old, entry, left, refs, known>>

GcRead(h) ==
  /\ pc[h] = "gcRead"
  /\ \E d \in unread[h] :
       /\ refs' = [refs EXCEPT ![h] = @ \cup (IF d \in stateDirs THEN Digests(index[d]) ELSE {})]
       /\ unread' = [unread EXCEPT ![h] = @ \ {d}]
  /\ UNCHANGED <<files, gen, locks, ops, pc, job, want, got, old, entry, left, known>>

GcScanned(h) ==
  /\ pc[h] = "gcRead"
  /\ unread[h] = {}
  /\ Goto(h, "gcDelete")
  /\ UNCHANGED <<files, gen, locks, ops, job, work, known>>

GcDelete(h) ==
  /\ pc[h] = "gcDelete"
  /\ \E v \in blobs \ refs[h] : blobs' = blobs \ {v}
  /\ UNCHANGED <<list, sidecar, index, stateDirs, ghosts, gen, locks, ops, pc, job, work, known>>

Release(h) ==
  /\ pc[h] = "gcDelete"
  /\ blobs \subseteq refs[h]
  /\ Return(h)
  /\ UNCHANGED <<files, gen, ops, known>>

PutLabels == {"manifest", "wantBlobMu", "sources", "index", "prune", "gc", "gcRead", "gcDelete"}

\* A file operation fails: the deferred unlocks run, what was written stays.
Fail(h) ==
  /\ "fail" \in Env
  /\ pc[h] \in PutLabels
  /\ Return(h)
  /\ UNCHANGED <<files, gen, ops, known>>

-----------------------------------------------------------------------------
(***************************************************************************)
(* CreateCollection, and the rename of UpdateCollection, which takes       *)
(* neither the collection's lock nor that of the blobs.                    *)
(***************************************************************************)
Create(h) ==
  /\ pc[h] = "create"
  /\ mu[Mutex(h)] = None
  /\ list' = IF list[Dir(h)] = None THEN [list EXCEPT ![Dir(h)] = Unlisted] ELSE list
  /\ ghosts' = ghosts \ {Dir(h)}
  /\ Return(h)
  /\ UNCHANGED <<sidecar, index, stateDirs, blobs, gen, ops, known>>

MoveDir(h) ==
  /\ pc[h] = "rename"
  /\ LET from == Dir(h)
         to == job[h].to
     IN IF list[from] = None \/ list[to] # None \/ to \in ghosts
          THEN Return(h) /\ UNCHANGED <<files, known>>
          ELSE /\ list' = [list EXCEPT ![from] = None, ![to] = list[from]]
               /\ sidecar' = [sidecar EXCEPT ![from] = Nothing, ![to] = sidecar[from]]
               /\ known' = {k \in known : k[1] \notin {from, to}}
                           \cup {<<to, k[2]>> : k \in {x \in known : x[1] = from}}
               /\ Goto(h, IF from \in stateDirs THEN "clearState" ELSE "drop")
               /\ UNCHANGED <<index, stateDirs, ghosts, blobs, locks, job, work>>
  /\ UNCHANGED <<gen, ops>>

\* Whatever state sits at the destination is removed.
ClearState(h) ==
  /\ pc[h] = "clearState"
  /\ stateDirs' = stateDirs \ {job[h].to}
  /\ index' = [index EXCEPT ![job[h].to] = Nothing]
  /\ Goto(h, "moveState")
  /\ UNCHANGED <<list, sidecar, ghosts, blobs, gen, locks, ops, job, work, known>>

\* Mutant: the index stays under the old id.
MoveStateForgotten(h) ==
  /\ pc[h] = "moveState"
  /\ Goto(h, "drop")
  /\ UNCHANGED <<files, gen, locks, ops, job, work, known>>

\* A state directory that came to be at the destination makes this fail, which
\* is logged and otherwise ignored.
MoveState(h) ==
  /\ pc[h] = "moveState"
  /\ LET from == Dir(h)
         to == job[h].to
     IN IF from \in stateDirs /\ to \notin stateDirs
          THEN /\ index' = [index EXCEPT ![from] = Nothing, ![to] = index[from]]
               /\ stateDirs' = (stateDirs \ {from}) \cup {to}
          ELSE UNCHANGED <<index, stateDirs>>
  /\ Goto(h, "drop")
  /\ UNCHANGED <<list, sidecar, ghosts, blobs, gen, locks, ops, job, work, known>>

\* The handles on either id are dropped: the next Open makes new ones.
DropHandles(h) ==
  /\ pc[h] = "drop"
  /\ gen[Dir(h)] < MaxGen /\ gen[job[h].to] < MaxGen
  /\ gen' = [gen EXCEPT ![Dir(h)] = @ + 1, ![job[h].to] = @ + 1]
  /\ Return(h)
  /\ UNCHANGED <<files, ops, known>>

-----------------------------------------------------------------------------
\* The server process dies with everything it was doing; files stay.  In the
\* middle of a rename the index stays behind under the old id.
Crash ==
  /\ "crash" \in Env
  /\ known' = {k \in known : \A h \in Handlers :
                 pc[h] \in {"clearState", "moveState"} => k[1] # job[h].to}
  /\ pc' = [h \in Handlers |-> "idle"]
  /\ job' = [h \in Handlers |-> None]
  /\ want' = [h \in Handlers |-> Unlisted]
  /\ got' = [h \in Handlers |-> Nothing]
  /\ old' = [h \in Handlers |-> Nothing]
  /\ entry' = [h \in Handlers |-> Nothing]
  /\ left' = [h \in Handlers |-> {}]
  /\ unread' = [h \in Handlers |-> {}]
  /\ refs' = [h \in Handlers |-> {}]
  /\ mu' = [k \in DOMAIN mu |-> None]
  /\ blobMu' = None
  /\ UNCHANGED <<files, gen, ops>>

Put(h) ==
  \/ Lock(h) \/ WriteList(h) \/ TakeBlobMu(h) \/ WriteSource(h) \/ SourcesWritten(h)
  \/ WriteIndex(h) \/ Prune(h) \/ GcList(h) \/ GcRead(h) \/ GcScanned(h)
  \/ GcDelete(h) \/ Release(h) \/ Fail(h)

Rename(h) == MoveDir(h) \/ ClearState(h) \/ MoveState(h) \/ DropHandles(h)

Handler(h) ==
  \/ Start(h) \/ Load(h) \/ Resolve(h) \/ ReadIndex(h) \/ CheckBlobs(h) \/ ReadBlobs(h)
  \/ Put(h) \/ Create(h) \/ Rename(h)

Next == Crash \/ \E h \in Handlers : Handler(h)

Spec == Init /\ [][Next]_vars

-----------------------------------------------------------------------------
(***************************************************************************)
(* Properties.                                                             *)
(***************************************************************************)
Referenced == UNION {Digests(index[d]) : d \in Dirs}

\* Whatever several writers of several collections, a collector and a crash
\* make of each other, no index names a blob that is gone: "no live blob is ever
\* unreferenced while this runs" (blobs.go:92).
LiveBlobsKept == Referenced \subseteq blobs

\* A reader does not take the lock of the blobs, and still finds every blob of
\* the index it read a moment ago.
ReadersFindTheirBlobs ==
  \A h \in Handlers : pc[h] \in {"checkBlobs", "readBlobs"} => Digests(old[h]) \subseteq blobs

\* Who gets a collection's lock finds each of its sources in one place, the one
\* its flag says: "a reader never sees a source list and a descriptor store that
\* disagree" and "exactly ONE place" (fs.go:570).
OnePlace ==
  \A d \in Dirs :
    list[d] # None /\ mu[<<d, gen[d]>>] = None =>
      \A s \in Sources :
        /\ list[d][s] # "commit" => sidecar[d][s] = None
        /\ list[d][s] # "plain" => index[d][s] = None

\* Nothing is kept that is of no use: between two writes the blob store holds what
\* the indexes name, so that the collector misses nothing, and who gets a
\* collection's lock finds no source in two places (OnePlace).
BlobsExact == (blobMu = None => blobs = Referenced) /\ OnePlace

\* What a listed source has once resolved to is not lost by moving it between
\* its two places, by an error in the middle or by a crash, for the new place is
\* written before the old one is cleared; nor by a rename that gets to its end.
Recoverable ==
  (\A h \in Handlers : pc[h] \notin {"clearState", "moveState"}) =>
  \A k \in known :
    LET d == k[1] s == k[2]
    IN list[d] # None => sidecar[d][s] # None \/ index[d][s] \in blobs

\* "A re-add can turn committing ON but never off; SetDescriptorSourceCommit is
\* the one way off" (workspace.go:263).
CommitIsSticky ==
  [][ \A h \in Handlers, s \in Sources :
        pc[h] = "manifest" /\ pc'[h] = "wantBlobMu" /\ job[h].op # "uncommit"
          /\ list[Dir(h)][s] = "commit" => list'[Dir(h)][s] # "plain" ]_vars

=============================================================================
