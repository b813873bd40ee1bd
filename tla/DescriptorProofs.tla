-------------------------- MODULE DescriptorProofs --------------------------
(***************************************************************************)
(* The descriptor store, for any number of collections, sources, versions,  *)
(* handles and handlers, with crashes and failing writes: it keeps its      *)
(* types with every operation and every fault.  While nobody renames a      *)
(* collection beside another handler, no index names a blob that was        *)
(* collected, no reader misses one it just read the name of, and what has   *)
(* resolved is not lost.  While nothing is renamed or cut off, nothing is   *)
(* kept that is of no use.                                                  *)
(***************************************************************************)
EXTENDS Descriptors, TLAPS

------------------------------------------------------------------------------
(* Types. *)

LEMMA EditedType ==
  ASSUME NEW l \in SourceList, NEW op, NEW s \in Sources, NEW flag \in Flags
  PROVE  Edited(l, op, s, flag) \in SourceList
BY DEF Edited, SourceList, Flags

LEMMA ReturnType ==
  ASSUME TypeOK, NEW h \in Handlers, Return(h)
  PROVE  /\ pc' \in [Handlers -> Labels]
         /\ job' \in [Handlers -> Jobs \cup {None}]
         /\ \A g \in Handlers : pc'[g] # "idle" => job'[g] \in Jobs
         /\ want' \in [Handlers -> SourceList]
         /\ got' \in [Handlers -> Resolves] /\ old' \in [Handlers -> Resolves]
         /\ entry' \in [Handlers -> Resolves]
         /\ left' \in [Handlers -> SUBSET Sources]
         /\ unread' \in [Handlers -> SUBSET Dirs]
         /\ refs' \in [Handlers -> SUBSET Versions]
         /\ mu' \in [Dirs \X (0..MaxGen) -> Handlers \cup {None}]
         /\ blobMu' \in Handlers \cup {None}
BY DEF TypeOK, Return, Labels, SourceList, Unlisted, Flags, Resolves, Nothing

LEMMA JobType ==
  ASSUME TypeOK, NEW h \in Handlers, pc[h] # "idle"
  PROVE  /\ job[h].src \in Sources /\ job[h].to \in Dirs
         /\ Dir(h) \in Dirs /\ Mutex(h) \in Dirs \X (0..MaxGen)
BY DEF TypeOK, Jobs, Dir, Mutex

LEMMA TypeReads ==
  ASSUME TypeOK, NEW h \in Handlers,
         Load(h) \/ Resolve(h) \/ ReadIndex(h) \/ CheckBlobs(h) \/ ReadBlobs(h)
  PROVE  TypeOK'
<1>0. pc[h] # "idle" => /\ job[h].src \in Sources /\ Dir(h) \in Dirs
                        /\ Mutex(h) \in Dirs \X (0..MaxGen)
  BY JobType
<1>1. CASE Return(h) /\ UNCHANGED <<files, gen, ops, known>>
  BY <1>1, ReturnType DEF TypeOK, files
<1>2. CASE Load(h) /\ pc'[h] # "idle"
  <2>1. /\ list[Dir(h)] # None
        /\ \E flag \in {"plain", "commit"} :
             want' = [want EXCEPT ![h] = Edited(list[Dir(h)], job[h].op, job[h].src, flag)]
        /\ Goto(h, AfterLoad(job[h].op))
        /\ UNCHANGED <<files, gen, locks, ops, job, got, old, entry, left, unread, refs, known>>
    BY <1>2 DEF Load, Return, TypeOK
  <2>2. list[Dir(h)] \in SourceList
    BY <1>0, <1>2, <2>1 DEF Load, TypeOK
  <2>3. want' \in [Handlers -> SourceList]
    BY <1>0, <1>2, <2>1, <2>2, EditedType DEF Load, TypeOK, Flags
  <2> QED
    BY <1>2, <2>1, <2>3 DEF Load, TypeOK, files, locks, Goto, AfterLoad, Labels
<1>3. CASE Resolve(h) /\ pc'[h] # "idle"
  <2>1. /\ \E v \in Versions : got' = [got EXCEPT ![h][job[h].src] = v]
        /\ Goto(h, "readIndex")
        /\ UNCHANGED <<files, gen, locks, ops, job, want, old, entry, left, unread, refs, known>>
    BY <1>3 DEF Resolve, Return, TypeOK
  <2>2. got' \in [Handlers -> Resolves]
    BY <1>0, <1>3, <2>1 DEF Resolve, TypeOK, Resolves
  <2> QED
    BY <1>3, <2>1, <2>2 DEF Resolve, TypeOK, files, locks, Goto, Labels
<1>4. CASE ReadIndex(h)
  BY <1>0, <1>4 DEF ReadIndex, TypeOK, files, Goto, Labels
<1>5. CASE CheckBlobs(h) /\ pc'[h] # "idle"
  <2>1. /\ Goto(h, "readIndex")
        /\ mu' = [mu EXCEPT ![Mutex(h)] = None]
        /\ UNCHANGED <<files, gen, blobMu, ops, job, work, known>>
    BY <1>5 DEF CheckBlobs, Return, TypeOK
  <2> QED BY <1>0, <1>5, <2>1 DEF CheckBlobs, TypeOK, files, work, Goto, Labels
<1>6. CASE ReadBlobs(h) /\ pc'[h] # "idle"
  <2>1. /\ \E found \in Resolves : got' = [got EXCEPT ![h] = found]
        /\ Goto(h, "lock")
        /\ mu' = [mu EXCEPT ![Mutex(h)] = None]
        /\ UNCHANGED <<files, gen, blobMu, ops, job, want, old, entry, left, unread, refs, known>>
    BY <1>6 DEF ReadBlobs, Return, TypeOK
  <2> QED BY <1>0, <1>6, <2>1 DEF ReadBlobs, TypeOK, files, Goto, Labels
<1>7. ASSUME pc'[h] = "idle"
      PROVE  Return(h) /\ UNCHANGED <<files, gen, ops, known>>
  BY <1>7 DEF Load, Resolve, ReadIndex, CheckBlobs, ReadBlobs, Goto, AfterLoad, TypeOK
<1> QED BY <1>1, <1>2, <1>3, <1>4, <1>5, <1>6, <1>7

LEMMA WriteType ==
  ASSUME TypeOK, NEW h \in Handlers, pc[h] = "sources", NEW s \in Sources,
         UNCHANGED <<list, old, got>>,
         WriteCommitted(h, s) \/ WritePlain(h, s)
  PROVE  /\ sidecar' \in [Dirs -> Resolves] /\ entry' \in [Handlers -> Resolves]
         /\ blobs' \subseteq Versions /\ ghosts' \subseteq Dirs
<1>1. Dir(h) \in Dirs
  BY JobType
<1>2. /\ got[h] \in Resolves /\ old[h] \in Resolves /\ entry[h] \in Resolves
      /\ sidecar[Dir(h)] \in Resolves
  BY <1>1 DEF TypeOK
<1>3. /\ got[h][s] \in Versions \cup {None} /\ old[h][s] \in Versions \cup {None}
      /\ sidecar[Dir(h)][s] \in Versions \cup {None}
  BY <1>2 DEF Resolves
<1>4. LastStored(h, s) \in Versions \cup {None}
  BY <1>3 DEF LastStored
<1>5. ASSUME NEW v \in Versions \cup {None}
      PROVE  /\ [sidecar[Dir(h)] EXCEPT ![s] = v] \in Resolves
             /\ [entry[h] EXCEPT ![s] = v] \in Resolves
  BY <1>2 DEF Resolves
<1>6. CASE WriteCommitted(h, s)
  <2> DEFINE v == IF got[h][s] # None THEN got[h][s] ELSE LastStored(h, s)
  <2>1. v \in Versions \cup {None}
    BY <1>3, <1>4
  <2>2. /\ sidecar' = sidecar \/ sidecar' = [sidecar EXCEPT ![Dir(h)] = [@ EXCEPT ![s] = v]]
        /\ ghosts' \subseteq ghosts \cup {Dir(h)}
        /\ UNCHANGED <<blobs, entry>>
    BY <1>6 DEF WriteCommitted
  <2> QED BY <1>1, <1>5, <2>1, <2>2 DEF TypeOK
<1>7. CASE WritePlain(h, s)
  <2> DEFINE kept == got[h][s] = None /\ old[h][s] # None
             v == IF kept THEN old[h][s]
                  ELSE IF got[h][s] # None THEN got[h][s] ELSE sidecar[Dir(h)][s]
  <2>1. v \in Versions \cup {None}
    BY <1>3
  <2>2. /\ blobs' \subseteq blobs \cup ({v} \ {None})
        /\ entry' = [entry EXCEPT ![h] = [@ EXCEPT ![s] = v]]
        /\ UNCHANGED <<sidecar, ghosts>>
    BY <1>7 DEF WritePlain
  <2> HIDE DEF v
  <2> QED BY <1>5, <2>1, <2>2 DEF TypeOK
<1> QED BY <1>6, <1>7

LEMMA TypePut ==
  ASSUME TypeOK, NEW h \in Handlers, Put(h)
  PROVE  TypeOK'
<1>0. pc[h] # "idle" => Dir(h) \in Dirs /\ Mutex(h) \in Dirs \X (0..MaxGen)
  BY JobType
<1>1. CASE Return(h) /\ UNCHANGED <<sidecar, index, stateDirs, ghosts, blobs, list, gen, ops, known>>
  BY <1>1, ReturnType DEF TypeOK
<1> USE <1>0 DEF TypeOK, files, locks, work, Goto, Labels
<1>2. CASE Lock(h)
  BY <1>2 DEF Lock
<1>3. CASE WriteList(h) /\ list[Dir(h)] # None
  BY <1>3 DEF WriteList
<1>4. CASE TakeBlobMu(h)
  BY <1>4 DEF TakeBlobMu, Listed
<1>5. CASE WriteSource(h)
  <2>1. PICK s \in left[h] :
          /\ WriteCommitted(h, s) \/ WritePlain(h, s)
          /\ left' = [left EXCEPT ![h] = @ \ {s}]
    BY <1>5 DEF WriteSource
  <2> HIDE DEF TypeOK
  <2>2. /\ sidecar' \in [Dirs -> Resolves] /\ entry' \in [Handlers -> Resolves]
        /\ blobs' \subseteq Versions /\ ghosts' \subseteq Dirs
    <3>1. s \in Sources
      BY <2>1 DEF TypeOK
    <3> QED BY <1>5, <2>1, <3>1, WriteType DEF WriteSource
  <2> QED BY <1>5, <2>1, <2>2 DEF WriteSource, TypeOK
<1>6. CASE SourcesWritten(h)
  BY <1>6 DEF SourcesWritten
<1>7. CASE WriteIndex(h)
  BY <1>7 DEF WriteIndex, Listed
<1>8. CASE Prune(h)
  <2>1. sidecar' \in [Dirs -> Resolves]
    BY <1>8 DEF Prune, Resolves
  <2> QED BY <1>8, <2>1 DEF Prune
<1>9. CASE GcList(h) \/ GcScanned(h)
  BY <1>9 DEF GcList, GcScanned
<1>10. CASE GcRead(h)
  <2>1. \A d \in Dirs : Digests(index[d]) \subseteq Versions
    BY DEF Digests, Resolves
  <2> QED BY <1>10, <2>1 DEF GcRead
<1>11. CASE GcDelete(h)
  BY <1>11 DEF GcDelete
<1> HIDE DEF TypeOK, Goto, Labels
<1>12. CASE (WriteList(h) /\ list[Dir(h)] = None) \/ Release(h) \/ Fail(h)
  BY <1>1, <1>12 DEF WriteList, Release, Fail
<1> QED
  BY <1>2, <1>3, <1>4, <1>5, <1>6, <1>7, <1>8, <1>9, <1>10, <1>11, <1>12 DEF Put

LEMMA TypeRename ==
  ASSUME TypeOK, NEW h \in Handlers, Create(h) \/ Rename(h)
  PROVE  TypeOK'
<1>0. pc[h] # "idle" => Dir(h) \in Dirs /\ job[h].to \in Dirs
  BY JobType
<1>1. Nothing \in Resolves /\ Unlisted \in SourceList
  BY DEF Nothing, Resolves, Unlisted, SourceList, Flags
<1>2. CASE Create(h)
  <2>1. list' \in [Dirs -> SourceList \cup {None}]
    BY <1>0, <1>1, <1>2 DEF Create, TypeOK
  <2> QED BY <1>2, <2>1, ReturnType DEF Create, TypeOK
<1>3. CASE MoveDir(h) /\ pc'[h] # "idle"
  <2>1. /\ list[Dir(h)] # None
        /\ list' = [list EXCEPT ![Dir(h)] = None, ![job[h].to] = list[Dir(h)]]
        /\ sidecar' = [sidecar EXCEPT ![Dir(h)] = Nothing, ![job[h].to] = sidecar[Dir(h)]]
        /\ known' = {k \in known : k[1] \notin {Dir(h), job[h].to}}
                    \cup {<<job[h].to, k[2]>> : k \in {x \in known : x[1] = Dir(h)}}
        /\ Goto(h, IF Dir(h) \in stateDirs THEN "clearState" ELSE "drop")
        /\ UNCHANGED <<index, stateDirs, ghosts, blobs, locks, job, work, gen, ops>>
    BY <1>3 DEF MoveDir, Return, TypeOK
  <2>2. known' \subseteq Dirs \X Sources
    BY <1>0, <1>3, <2>1 DEF MoveDir, TypeOK
  <2>3. /\ list' \in [Dirs -> SourceList \cup {None}]
        /\ sidecar' \in [Dirs -> Resolves]
    BY <1>0, <1>1, <1>3, <2>1 DEF MoveDir, TypeOK
  <2> QED BY <1>3, <2>1, <2>2, <2>3 DEF MoveDir, TypeOK, locks, work, Goto, Labels
<1>4. CASE MoveDir(h) /\ pc'[h] = "idle"
  <2>1. Return(h) /\ UNCHANGED <<files, known, gen, ops>>
    BY <1>4 DEF MoveDir, Goto, TypeOK
  <2> QED BY <2>1, ReturnType DEF TypeOK, files
<1>5. CASE ClearState(h)
  BY <1>0, <1>1, <1>5 DEF ClearState, TypeOK, files, locks, work, Goto, Labels
<1>6. CASE MoveState(h)
  BY <1>0, <1>1, <1>6 DEF MoveState, TypeOK, files, locks, work, Goto, Labels
<1>7. CASE DropHandles(h)
  <2>1. gen' \in [Dirs -> 0..MaxGen]
    BY <1>0, <1>7, SetsAssumption DEF DropHandles, TypeOK
  <2> QED BY <1>7, <2>1, ReturnType DEF DropHandles, TypeOK, files
<1> QED BY <1>2, <1>3, <1>4, <1>5, <1>6, <1>7 DEF Rename

LEMMA TypeNext == TypeOK /\ [Next]_vars => TypeOK'
<1> SUFFICES ASSUME TypeOK, [Next]_vars PROVE TypeOK'
  OBVIOUS
<1>1. ASSUME NEW h \in Handlers, Start(h) PROVE TypeOK'
  <2>1. \E op \in AllOps, s \in Sources, d, to \in Dirs :
          /\ job' = [job EXCEPT ![h] =
                       [op |-> op, src |-> s, dir |-> d, gen |-> gen[d], to |-> to]]
          /\ Goto(h, First(op))
    BY <1>1, SetsAssumption DEF Start
  <2>2. /\ job' \in [Handlers -> Jobs \cup {None}]
        /\ \A g \in Handlers : pc'[g] # "idle" => job'[g] \in Jobs
    BY <1>1, <2>1 DEF Jobs, TypeOK, Goto
  <2>3. pc' \in [Handlers -> Labels]
    BY <2>1 DEF Goto, First, Labels, TypeOK
  <2> QED BY <1>1, <2>2, <2>3 DEF Start, TypeOK, files, locks, work
<1>2. CASE Crash
  BY <1>2 DEF Crash, TypeOK, files, Labels, SourceList, Unlisted, Flags, Resolves, Nothing
<1>3. CASE UNCHANGED vars
  BY <1>3 DEF vars, TypeOK
<1> QED BY <1>1, <1>2, <1>3, TypeReads, TypePut, TypeRename DEF Next, Handler

LEMMA TypeInit == Init => TypeOK
BY SetsAssumption
   DEF Init, TypeOK, Labels, SourceList, Unlisted, Flags, Resolves, Nothing

\* Every variable keeps its type under every action, crashes and renames included.
THEOREM DescriptorTypes == Spec => []TypeOK
<1> QED BY TypeInit, TypeNext, PTL DEF Spec
------------------------------------------------------------------------------
(***************************************************************************)
(* What is true of the store between any two steps, as long as nothing is   *)
(* renamed while another handler is at work.                                *)
(***************************************************************************)
BlobLabels == {"sources", "index", "prune", "gc", "gcRead", "gcDelete"}
ReadLabels == {"checkBlobs", "readBlobs"}
MoveLabels == {"clearState", "moveState"}
RenameLabels == MoveLabels \cup {"rename", "drop"}

\* Who reads or writes a collection's files holds its lock, who writes or
\* collects blobs that of the blobs; without renames there is one handle each.
LocksHeld ==
  /\ \A h \in Handlers : pc[h] \in ReadLabels \cup PutLabels => mu[Mutex(h)] = h
  /\ \A h \in Handlers : pc[h] \in BlobLabels => blobMu = h
  /\ \A d \in Dirs : gen[d] = 0
  /\ \A h \in Handlers : pc[h] # "idle" => job[h].gen = 0
  /\ \A h \in Handlers : pc[h] \notin RenameLabels

\* What the locks are for; a handler that is alone needs none.
Apart(g, h) ==
  /\ pc[g] \in ReadLabels \cup PutLabels /\ pc[h] \in ReadLabels \cup PutLabels => Dir(g) # Dir(h)
  /\ pc[g] \in BlobLabels => pc[h] \notin BlobLabels
  /\ pc[g] \notin RenameLabels

Exclusive == \A g, h \in Handlers : g # h => Apart(g, h)

\* An index entry is written for a blob that is there.
EntriesStored ==
  \A h \in Handlers :
    /\ pc[h] \in {"sources", "index"} => Digests(entry[h]) \cup Digests(old[h]) \subseteq blobs
    /\ pc[h] \notin BlobLabels => Digests(entry[h]) = {}

\* The index of who reads or writes a collection is the one on disk.
ReadersCurrent ==
  \A h \in Handlers : pc[h] \in ReadLabels \cup {"sources"} => old[h] = index[Dir(h)]

\* The collector has seen what the directories it is through with refer to.
ScanComplete ==
  /\ \A d \in Dirs \ stateDirs : Digests(index[d]) = {}
  /\ \A h \in Handlers :
       /\ pc[h] = "gcRead" => \A d \in stateDirs \ unread[h] : Digests(index[d]) \subseteq refs[h]
       /\ pc[h] = "gcDelete" => \A d \in Dirs : Digests(index[d]) \subseteq refs[h]

BlobInv ==
  /\ LiveBlobsKept
  /\ EntriesStored
  /\ ReadersCurrent
  /\ ScanComplete


LEMMA DigestsIn ==
  ASSUME NEW i, NEW S
  PROVE  Digests(i) \subseteq S <=> \A s \in Sources : i[s] = None \/ i[s] \in S
BY DEF Digests

LEMMA LiveBlobsByIndex ==
  LiveBlobsKept <=> \A d \in Dirs : Digests(index[d]) \subseteq blobs
<1>1. \A v : v \in Referenced <=> \E d \in Dirs : v \in Digests(index[d])
  BY DEF Referenced
<1> QED BY <1>1 DEF LiveBlobsKept

LEMMA InvReadersFind == TypeOK /\ BlobInv => ReadersFindTheirBlobs
<1> SUFFICES ASSUME TypeOK, BlobInv, NEW h \in Handlers, pc[h] \in {"checkBlobs", "readBlobs"}
             PROVE  Digests(old[h]) \subseteq blobs
  BY DEF ReadersFindTheirBlobs
<1>1. Dir(h) \in Dirs
  BY JobType
<1>2. old[h] = index[Dir(h)]
  BY DEF BlobInv, ReadersCurrent, ReadLabels
<1> QED BY <1>1, <1>2, LiveBlobsByIndex DEF BlobInv

LEMMA LocksExclude == TypeOK /\ LocksHeld => Exclusive
<1> SUFFICES ASSUME TypeOK, LocksHeld, NEW g \in Handlers, NEW h \in Handlers, g # h
             PROVE  Apart(g, h)
  BY DEF Exclusive
<1>1. pc[g] \in ReadLabels \cup PutLabels /\ pc[h] \in ReadLabels \cup PutLabels => Dir(g) # Dir(h)
  BY DEF LocksHeld, Mutex, Dir, ReadLabels, PutLabels
<1>2. pc[g] \in BlobLabels => pc[h] \notin BlobLabels
  BY DEF LocksHeld
<1> QED
  BY <1>1, <1>2 DEF LocksHeld, Apart

\* A handler that is alone is in nobody's way, and does not move what others use.
LEMMA AloneExcludes ==
  ASSUME NEW h, Handlers = {h}
  PROVE  Exclusive
BY DEF Exclusive

LEMMA BlobInit == Init => BlobInv /\ LocksHeld
<1> SUFFICES ASSUME Init PROVE BlobInv /\ LocksHeld
  OBVIOUS
<1>1. Digests(Nothing) = {}
  BY DEF Digests, Nothing
<1> QED
  BY <1>1, LiveBlobsByIndex
     DEF Init, BlobInv, LocksHeld, EntriesStored, ReadersCurrent, ScanComplete,
         ReadLabels, PutLabels, BlobLabels, RenameLabels, MoveLabels

(***************************************************************************)
(* The locks.                                                              *)
(***************************************************************************)
LEMMA ReturnLocks ==
  ASSUME TypeOK, LocksHeld, NEW h \in Handlers, Return(h), UNCHANGED gen
  PROVE  LocksHeld'
<1>1. \A g \in Handlers : g # h => pc'[g] = pc[g] /\ job'[g] = job[g]
  BY DEF Return, TypeOK
<1>2. pc'[h] = "idle"
  BY DEF Return, TypeOK
<1>3. \A g \in Handlers : pc[g] \in ReadLabels \cup PutLabels => Mutex(g) \in Dirs \X (0..MaxGen)
  BY JobType DEF ReadLabels, PutLabels
<1>4. ASSUME NEW g \in Handlers, pc'[g] \in ReadLabels \cup PutLabels
      PROVE  mu'[Mutex(g)'] = g
  <2>1. g # h /\ pc[g] \in ReadLabels \cup PutLabels
    BY <1>1, <1>2, <1>4 DEF ReadLabels, PutLabels
  <2>2. Mutex(g)' = Mutex(g) /\ mu[Mutex(g)] = g
    BY <1>1, <2>1 DEF Mutex, LocksHeld
  <2> QED BY <1>3, <2>1, <2>2 DEF Return, TypeOK
<1>5. ASSUME NEW g \in Handlers, pc'[g] \in BlobLabels
      PROVE  blobMu' = g
  BY <1>1, <1>2, <1>5 DEF Return, LocksHeld, BlobLabels
<1> QED BY <1>1, <1>2, <1>4, <1>5 DEF LocksHeld, RenameLabels, MoveLabels

\* A handler that goes on without a lock that the invariant asks for, or with
\* the locks it has.
LEMMA GotoLocks ==
  ASSUME TypeOK, LocksHeld, NEW h \in Handlers, NEW label \in Labels, Goto(h, label),
         UNCHANGED <<gen, job>>,
         label \notin RenameLabels, pc[h] # "idle",
         \A k \in Dirs \X (0..MaxGen) : mu[k] = None \/ mu[k] = h \/ mu'[k] = mu[k],
         blobMu = None \/ blobMu = h \/ blobMu' = blobMu,
         label \in ReadLabels \cup PutLabels => mu'[Mutex(h)] = h,
         label \in BlobLabels => blobMu' = h
  PROVE  LocksHeld'
<1>1. \A g \in Handlers : pc'[g] = IF g = h THEN label ELSE pc[g]
  BY DEF Goto, TypeOK
<1>2. \A g \in Handlers : pc[g] \in ReadLabels \cup PutLabels =>
        Mutex(g) \in Dirs \X (0..MaxGen)
  BY JobType DEF ReadLabels, PutLabels
<1>3. \A g \in Handlers : Mutex(g)' = Mutex(g)
  BY DEF Mutex
<1>4. ASSUME NEW g \in Handlers, pc'[g] \in ReadLabels \cup PutLabels
      PROVE  mu'[Mutex(g)] = g
  BY <1>1, <1>2, <1>4, NoneAssumption DEF LocksHeld
<1>5. ASSUME NEW g \in Handlers, pc'[g] \in BlobLabels
      PROVE  blobMu' = g
  BY <1>1, <1>5, NoneAssumption DEF LocksHeld
<1> QED BY <1>1, <1>3, <1>4, <1>5 DEF LocksHeld

\* A step that ends a call is Return, with nothing but files written besides.
LEMMA ReturnSteps ==
  ASSUME TypeOK, NEW h \in Handlers, pc'[h] = "idle", Handler(h), ~ Rename(h)
  PROVE  Return(h) /\ UNCHANGED <<gen, index, stateDirs, blobs>>
<1> USE DEF Goto, TypeOK, files
<1>1. CASE Start(h)
  BY <1>1 DEF Start, First
<1>2. CASE Load(h) \/ Resolve(h) \/ ReadIndex(h) \/ CheckBlobs(h) \/ ReadBlobs(h)
  BY <1>2 DEF Load, AfterLoad, Resolve, ReadIndex, CheckBlobs, ReadBlobs
<1>3. CASE Lock(h) \/ WriteList(h) \/ TakeBlobMu(h) \/ WriteSource(h) \/ SourcesWritten(h)
  BY <1>3 DEF Lock, WriteList, TakeBlobMu, WriteSource, SourcesWritten
<1>4. CASE WriteIndex(h) \/ Prune(h) \/ GcList(h) \/ GcRead(h) \/ GcScanned(h) \/ GcDelete(h)
  BY <1>4 DEF WriteIndex, Prune, GcList, GcRead, GcScanned, GcDelete
<1>5. CASE Release(h) \/ Fail(h) \/ Create(h)
  BY <1>5 DEF Release, Fail, Create
<1> QED BY <1>1, <1>2, <1>3, <1>4, <1>5 DEF Handler, Put

LEMMA NextLocks ==
  ASSUME "rename" \notin Ops, TypeOK, LocksHeld, [Next]_vars
  PROVE  LocksHeld'
<1>1. ASSUME NEW h \in Handlers, Start(h) PROVE LocksHeld'
  <2>1. PICK op \in Ops : /\ Goto(h, First(op))
                          /\ \E s \in Sources, d, to \in Dirs :
                               job' = [job EXCEPT ![h] = [op |-> op, src |-> s, dir |-> d,
                                                          gen |-> gen[d], to |-> to]]
    BY <1>1 DEF Start
  <2>2. First(op) \in {"create", "load"}
    BY <2>1 DEF First
  <2>3. \A g \in Handlers \ {h} : pc'[g] = pc[g] /\ job'[g] = job[g]
    BY <2>1 DEF Goto, TypeOK
  <2>4. pc'[h] \in {"create", "load"} /\ job'[h].gen = 0
    BY <2>1, <2>2 DEF Goto, TypeOK, LocksHeld
  <2>5. /\ UNCHANGED <<mu, blobMu, gen>>
        /\ \A g \in Handlers \ {h} : Mutex(g)' = Mutex(g)
    BY <1>1, <2>3 DEF Start, locks, Mutex
  <2> QED
    BY <2>3, <2>4, <2>5
       DEF LocksHeld, ReadLabels, PutLabels, BlobLabels, RenameLabels, MoveLabels
<1>2. ASSUME NEW h \in Handlers, Return(h), UNCHANGED gen PROVE LocksHeld'
  BY <1>2, ReturnLocks
<1>3. ASSUME NEW h \in Handlers, pc'[h] # "idle",
             Load(h) \/ Resolve(h) \/ ReadIndex(h) \/ CheckBlobs(h) \/ ReadBlobs(h)
      PROVE  LocksHeld'
  <2>1. CASE Load(h)
    <3>1. Goto(h, AfterLoad(job[h].op)) /\ UNCHANGED <<gen, job, mu, blobMu>>
      BY <1>3, <2>1 DEF Load, Return, TypeOK, locks
    <3>2. AfterLoad(job[h].op) \in {"resolve", "checkIndex", "readIndex"}
      BY DEF AfterLoad
    <3>3. /\ AfterLoad(job[h].op) \in Labels
          /\ AfterLoad(job[h].op) \notin ReadLabels \cup PutLabels \cup BlobLabels
          /\ AfterLoad(job[h].op) \notin RenameLabels
      BY <3>2 DEF Labels, ReadLabels, PutLabels, BlobLabels, RenameLabels, MoveLabels
    <3>4. pc[h] # "idle"
      BY <2>1 DEF Load
    <3> QED BY <3>1, <3>3, <3>4, GotoLocks
  <2>2. CASE Resolve(h)
    <3>1. Goto(h, "readIndex") /\ UNCHANGED <<gen, job, mu, blobMu>> /\ pc[h] # "idle"
      BY <1>3, <2>2 DEF Resolve, Return, TypeOK, locks
    <3> QED
      BY <3>1, GotoLocks DEF Labels, ReadLabels, PutLabels, BlobLabels, RenameLabels, MoveLabels
  <2>3. CASE ReadIndex(h)
    <3> DEFINE label == IF pc[h] = "checkIndex" THEN "checkBlobs" ELSE "readBlobs"
    <3>1. /\ Goto(h, label) /\ UNCHANGED <<gen, job, blobMu>> /\ pc[h] # "idle"
          /\ mu[Mutex(h)] = None /\ mu' = [mu EXCEPT ![Mutex(h)] = h]
      BY <2>3 DEF ReadIndex
    <3>2. /\ label \in Labels /\ label \notin BlobLabels
          /\ label \notin RenameLabels
      BY DEF Labels, BlobLabels, RenameLabels, MoveLabels
    <3>3. mu'[Mutex(h)] = h /\ \A k \in Dirs \X (0..MaxGen) : mu[k] = None \/ mu'[k] = mu[k]
      BY <3>1, JobType DEF TypeOK
    <3> HIDE DEF label
    <3> QED BY <3>1, <3>2, <3>3, GotoLocks
  <2>4. CASE CheckBlobs(h) \/ ReadBlobs(h)
    <3>1. /\ Goto(h, "readIndex") \/ Goto(h, "lock")
          /\ UNCHANGED <<gen, job, blobMu>> /\ pc[h] \in ReadLabels
          /\ mu' = [mu EXCEPT ![Mutex(h)] = None]
      BY <1>3, <2>4 DEF CheckBlobs, ReadBlobs, Return, TypeOK, work, ReadLabels
    <3>2. mu[Mutex(h)] = h /\ \A k \in Dirs \X (0..MaxGen) : mu[k] = h \/ mu'[k] = mu[k]
      BY <3>1, JobType DEF TypeOK, LocksHeld, ReadLabels
    <3> QED
      BY <3>1, <3>2, GotoLocks
         DEF Labels, ReadLabels, PutLabels, BlobLabels, RenameLabels, MoveLabels
  <2> QED BY <1>3, <2>1, <2>2, <2>3, <2>4
<1>4. ASSUME NEW h \in Handlers, pc'[h] # "idle", Put(h) PROVE LocksHeld'
  <2>0. pc[h] # "idle" => Mutex(h) \in Dirs \X (0..MaxGen)
    BY JobType
  <2>1. CASE Lock(h)
    <3>1. /\ Goto(h, "manifest") /\ UNCHANGED <<gen, job, blobMu>> /\ pc[h] # "idle"
          /\ mu[Mutex(h)] = None /\ mu' = [mu EXCEPT ![Mutex(h)] = h]
      BY <2>1 DEF Lock
    <3>2. mu'[Mutex(h)] = h /\ \A k \in Dirs \X (0..MaxGen) : mu[k] = None \/ mu'[k] = mu[k]
      BY <2>0, <3>1 DEF TypeOK
    <3> QED BY <3>1, <3>2, GotoLocks DEF Labels, BlobLabels, RenameLabels, MoveLabels
  <2>2. CASE TakeBlobMu(h)
    <3>1. /\ Goto(h, "sources") /\ UNCHANGED <<gen, job, mu>> /\ pc[h] = "wantBlobMu"
          /\ blobMu = None /\ blobMu' = h
      BY <2>2 DEF TakeBlobMu
    <3>2. mu[Mutex(h)] = h
      BY <3>1 DEF LocksHeld, PutLabels
    <3> QED BY <3>1, <3>2, GotoLocks DEF Labels, BlobLabels, RenameLabels, MoveLabels
  <2>3. CASE WriteList(h)
    <3>1. /\ Goto(h, "wantBlobMu") /\ UNCHANGED <<gen, job, mu, blobMu>> /\ pc[h] = "manifest"
      BY <1>4, <2>3 DEF WriteList, Return, TypeOK, locks
    <3>2. mu[Mutex(h)] = h
      BY <3>1 DEF LocksHeld, PutLabels
    <3> QED BY <3>1, <3>2, GotoLocks DEF Labels, BlobLabels, RenameLabels, MoveLabels
  <2>4. CASE \/ SourcesWritten(h) \/ WriteIndex(h) \/ Prune(h) \/ GcList(h) \/ GcScanned(h)
    <3>1. \E label \in BlobLabels : Goto(h, label)
      BY <2>4 DEF SourcesWritten, WriteIndex, Prune, GcList, GcScanned, BlobLabels
    <3>2. UNCHANGED <<gen, job, mu, blobMu>> /\ pc[h] \in BlobLabels
      BY <2>4 DEF SourcesWritten, WriteIndex, Prune, GcList, GcScanned, BlobLabels, locks
    <3>3. mu[Mutex(h)] = h /\ blobMu = h /\ pc[h] # "idle"
      BY <3>2 DEF LocksHeld, PutLabels, BlobLabels
    <3>4. \A label \in BlobLabels : /\ label \in Labels
                                    /\ label \notin RenameLabels
      BY DEF BlobLabels, Labels, RenameLabels, MoveLabels
    <3> QED BY <3>1, <3>2, <3>3, <3>4, GotoLocks
  <2>5. CASE WriteSource(h) \/ GcRead(h) \/ GcDelete(h)
    <3>1. UNCHANGED <<pc, gen, job, mu, blobMu>>
      BY <2>5 DEF WriteSource, GcRead, GcDelete, locks
    <3> QED BY <3>1 DEF LocksHeld, Mutex
  <2>6. CASE Release(h) \/ Fail(h)
    BY <1>4, <2>6 DEF Release, Fail, Return, TypeOK
  <2> QED BY <1>4, <2>1, <2>2, <2>3, <2>4, <2>5, <2>6 DEF Put
<1>5. ASSUME NEW h \in Handlers, Rename(h) PROVE FALSE
  BY <1>5
     DEF Rename, MoveDir, ClearState, MoveState, DropHandles, LocksHeld, RenameLabels, MoveLabels
<1>6. CASE Crash
  BY <1>6 DEF Crash, LocksHeld, ReadLabels, PutLabels, BlobLabels, RenameLabels, MoveLabels
<1>7. CASE UNCHANGED vars
  BY <1>7 DEF vars, LocksHeld, Mutex
<1>8. ASSUME NEW h \in Handlers, pc'[h] = "idle", Handler(h) PROVE Return(h) /\ UNCHANGED gen
  BY <1>5, <1>8, ReturnSteps
<1> QED
  BY <1>1, <1>2, <1>3, <1>4, <1>5, <1>6, <1>7, <1>8 DEF Next, Handler, Create

(***************************************************************************)
(* The files.                                                              *)
(***************************************************************************)
LEMMA ReturnData ==
  ASSUME TypeOK, BlobInv, NEW h \in Handlers, Return(h), UNCHANGED <<index, stateDirs, blobs>>
  PROVE  LiveBlobsKept' /\ EntriesStored' /\ ReadersCurrent' /\ ScanComplete'
<1>1. \A g \in Handlers : g # h =>
        /\ pc'[g] = pc[g] /\ job'[g] = job[g] /\ old'[g] = old[g] /\ entry'[g] = entry[g]
        /\ unread'[g] = unread[g] /\ refs'[g] = refs[g]
  BY DEF Return, TypeOK
<1>2. pc'[h] = "idle" /\ Digests(entry'[h]) = {}
  BY DEF Return, TypeOK, Digests, Nothing
<1>3. LiveBlobsKept'
  BY DEF BlobInv, LiveBlobsKept, Referenced
<1>4. EntriesStored'
  BY <1>1, <1>2 DEF BlobInv, EntriesStored, BlobLabels
<1>5. ReadersCurrent'
  BY <1>1, <1>2 DEF BlobInv, ReadersCurrent, ReadLabels, Dir
<1>6. ScanComplete'
  BY <1>1, <1>2 DEF BlobInv, ScanComplete
<1> QED BY <1>3, <1>4, <1>5, <1>6

\* A step of h that changes neither the indexes nor the blobs.
LEMMA FilesUntouched ==
  ASSUME TypeOK, BlobInv, NEW h \in Handlers, UNCHANGED <<index, stateDirs, blobs>>,
         \A g \in Handlers : g # h =>
           /\ pc'[g] = pc[g] /\ job'[g] = job[g] /\ old'[g] = old[g] /\ entry'[g] = entry[g]
           /\ unread'[g] = unread[g] /\ refs'[g] = refs[g],
         pc'[h] \in {"sources", "index"} => Digests(entry'[h]) \cup Digests(old'[h]) \subseteq blobs,
         pc'[h] \notin BlobLabels => Digests(entry'[h]) = {},
         pc'[h] \in ReadLabels \cup {"sources"} => old'[h] = index[Dir(h)'],
         pc'[h] = "gcRead" =>
           \A d \in stateDirs \ unread'[h] : Digests(index[d]) \subseteq refs'[h],
         pc'[h] = "gcDelete" => \A d \in Dirs : Digests(index[d]) \subseteq refs'[h]
  PROVE  LiveBlobsKept' /\ EntriesStored' /\ ReadersCurrent' /\ ScanComplete'
<1>1. LiveBlobsKept'
  BY DEF BlobInv, LiveBlobsKept, Referenced
<1>2. EntriesStored'
  BY DEF BlobInv, EntriesStored
<1>3. ReadersCurrent'
  BY DEF BlobInv, ReadersCurrent, Dir
<1>4. ScanComplete'
  BY DEF BlobInv, ScanComplete
<1> QED BY <1>1, <1>2, <1>3, <1>4

LEMMA ReadsData ==
  ASSUME TypeOK, BlobInv, NEW h \in Handlers, pc'[h] # "idle",
         \/ Start(h) \/ Load(h) \/ Resolve(h) \/ ReadIndex(h) \/ CheckBlobs(h) \/ ReadBlobs(h)
         \/ Lock(h) \/ WriteList(h) \/ TakeBlobMu(h) \/ SourcesWritten(h)
  PROVE  LiveBlobsKept' /\ EntriesStored' /\ ReadersCurrent' /\ ScanComplete'
<1>0. pc[h] \notin BlobLabels => Digests(entry[h]) = {}
  BY DEF BlobInv, EntriesStored
<1>1. CASE Start(h)
  <2>1. pc'[h] \in {"create", "load"} \cup {"rename"} /\ pc[h] = "idle"
    BY <1>1 DEF Start, Goto, First, TypeOK
  <2>2. \A g \in Handlers : g # h => pc'[g] = pc[g] /\ job'[g] = job[g]
    BY <1>1 DEF Start, Goto, TypeOK
  <2>3. UNCHANGED <<index, stateDirs, blobs, old, entry, unread, refs>>
    BY <1>1 DEF Start, files, work
  <2> QED BY <1>0, <2>1, <2>2, <2>3, FilesUntouched DEF BlobLabels, ReadLabels
<1>2. CASE Load(h) \/ Resolve(h)
  <2>1. /\ pc'[h] \in {"resolve", "checkIndex", "readIndex"}
        /\ UNCHANGED <<index, stateDirs, blobs, job, old, entry, unread, refs>>
        /\ pc[h] \in {"load", "resolve"}
        /\ \A g \in Handlers : g # h => pc'[g] = pc[g]
    BY <1>2 DEF Load, Resolve, Return, Goto, AfterLoad, TypeOK, files
  <2> QED BY <1>0, <2>1, FilesUntouched DEF BlobLabels, ReadLabels
<1>3. CASE ReadIndex(h)
  <2>1. /\ pc'[h] \in ReadLabels /\ pc[h] \notin BlobLabels
        /\ UNCHANGED <<index, stateDirs, blobs, job, entry, unread, refs>>
        /\ \A g \in Handlers : g # h => pc'[g] = pc[g] /\ old'[g] = old[g]
        /\ old'[h] = index[Dir(h)]
    BY <1>3 DEF ReadIndex, Goto, TypeOK, files, ReadLabels, BlobLabels
  <2>2. Dir(h)' = Dir(h)
    BY <2>1 DEF Dir
  <2> QED BY <1>0, <2>1, <2>2, FilesUntouched DEF BlobLabels, ReadLabels
<1>4. CASE CheckBlobs(h) \/ ReadBlobs(h) \/ Lock(h) \/ WriteList(h)
  <2>1. /\ pc'[h] \in {"readIndex", "lock", "manifest", "wantBlobMu"}
        /\ pc[h] \in {"checkBlobs", "readBlobs", "lock", "manifest"}
        /\ UNCHANGED <<index, stateDirs, blobs, job, old, entry, unread, refs>>
        /\ \A g \in Handlers : g # h => pc'[g] = pc[g]
    BY <1>4 DEF CheckBlobs, ReadBlobs, Lock, WriteList, Return, Goto, TypeOK, files, work
  <2> QED BY <1>0, <2>1, FilesUntouched DEF BlobLabels, ReadLabels
<1>5. CASE TakeBlobMu(h)
  <2>1. /\ pc'[h] = "sources" /\ pc[h] = "wantBlobMu"
        /\ UNCHANGED <<index, stateDirs, blobs, job, entry, unread, refs>>
        /\ \A g \in Handlers : g # h => pc'[g] = pc[g] /\ old'[g] = old[g]
        /\ old'[h] = index[Dir(h)] /\ Dir(h)' = Dir(h)
    BY <1>5 DEF TakeBlobMu, Goto, TypeOK, files, Dir
  <2>2. Digests(old'[h]) \subseteq blobs
    BY <2>1, JobType, LiveBlobsByIndex DEF BlobInv
  <2> QED BY <1>0, <2>1, <2>2, FilesUntouched DEF BlobLabels, ReadLabels
<1>6. CASE SourcesWritten(h)
  <2>1. /\ pc'[h] = "index" /\ pc[h] = "sources"
        /\ UNCHANGED <<index, stateDirs, blobs, job, old, entry, unread, refs>>
        /\ \A g \in Handlers : g # h => pc'[g] = pc[g]
    BY <1>6 DEF SourcesWritten, Goto, TypeOK, files, work
  <2>2. Digests(entry[h]) \cup Digests(old[h]) \subseteq blobs
    BY <2>1 DEF BlobInv, EntriesStored
  <2> QED BY <2>1, <2>2, FilesUntouched DEF BlobLabels, ReadLabels
<1> QED BY <1>1, <1>2, <1>3, <1>4, <1>5, <1>6

LEMMA SourceData ==
  ASSUME TypeOK, Exclusive, BlobInv, NEW h \in Handlers, WriteSource(h)
  PROVE  LiveBlobsKept' /\ EntriesStored' /\ ReadersCurrent' /\ ScanComplete'
<1>1. pc[h] = "sources"
  BY DEF WriteSource
<1>2. Digests(entry[h]) \subseteq blobs /\ Digests(old[h]) \subseteq blobs
  BY <1>1 DEF BlobInv, EntriesStored
<1>3. UNCHANGED <<index, stateDirs, pc, job, old, unread, refs>>
  BY DEF WriteSource
<1>4. PICK s \in Sources : WriteCommitted(h, s) \/ WritePlain(h, s)
  BY DEF WriteSource, TypeOK
<1>5. /\ blobs \subseteq blobs'
      /\ \A g \in Handlers : g # h => entry'[g] = entry[g]
      /\ Digests(entry'[h]) \subseteq blobs'
  <2>1. CASE WriteCommitted(h, s)
    BY <1>2, <2>1 DEF WriteCommitted
  <2>2. CASE WritePlain(h, s)
    <3> DEFINE kept == got[h][s] = None /\ old[h][s] # None
               v == IF kept THEN old[h][s]
                    ELSE IF got[h][s] # None THEN got[h][s] ELSE sidecar[Dir(h)][s]
    <3>1. v = None \/ v \in blobs'
      BY <1>2, <1>4, <2>2, DigestsIn DEF WritePlain
    <3>2. /\ blobs \subseteq blobs'
          /\ entry' = [entry EXCEPT ![h] = [@ EXCEPT ![s] = v]]
      BY <2>2 DEF WritePlain
    <3>3. entry[h] \in Resolves /\ entry \in [Handlers -> Resolves]
      BY DEF TypeOK
    <3> HIDE DEF v
    <3>4. entry'[h] = [entry[h] EXCEPT ![s] = v]
      BY <3>2, <3>3
    <3>5. \A x \in Sources : entry'[h][x] = None \/ entry'[h][x] \in blobs'
      BY <1>2, <3>1, <3>2, <3>3, <3>4, DigestsIn DEF Resolves
    <3> QED BY <3>2, <3>3, <3>5, DigestsIn
  <2> QED BY <1>4, <2>1, <2>2
<1>6. LiveBlobsKept'
  BY <1>3, <1>5 DEF BlobInv, LiveBlobsKept, Referenced
<1>7. EntriesStored'
  BY <1>1, <1>2, <1>3, <1>5 DEF BlobInv, EntriesStored, BlobLabels
<1>8. ReadersCurrent'
  BY <1>3 DEF BlobInv, ReadersCurrent, Dir
<1>9. ScanComplete'
  BY <1>3 DEF BlobInv, ScanComplete
<1> QED BY <1>6, <1>7, <1>8, <1>9

LEMMA IndexData ==
  ASSUME TypeOK, Exclusive, BlobInv, NEW h \in Handlers, WriteIndex(h)
  PROVE  LiveBlobsKept' /\ EntriesStored' /\ ReadersCurrent' /\ ScanComplete'
<1>1. pc[h] = "index" /\ Dir(h) \in Dirs
  BY JobType DEF WriteIndex
<1>2. Digests(entry[h]) \subseteq blobs
  BY <1>1 DEF BlobInv, EntriesStored
<1>3. /\ index' = [index EXCEPT ![Dir(h)] = entry[h]]
      /\ stateDirs' = stateDirs \cup {Dir(h)}
      /\ UNCHANGED <<blobs, job, old, entry, unread, refs>>
      /\ \A g \in Handlers : pc'[g] = IF g = h THEN "prune" ELSE pc[g]
  BY DEF WriteIndex, Goto, TypeOK, work
<1>4. \A d \in Dirs : index'[d] = IF d = Dir(h) THEN entry[h] ELSE index[d]
  BY <1>3 DEF TypeOK
<1>5. LiveBlobsKept'
  <2>1. \A d \in Dirs : Digests(index'[d]) \subseteq blobs'
    BY <1>2, <1>3, <1>4, LiveBlobsByIndex DEF BlobInv
  <2>2. \A v : v \in Referenced' <=> \E d \in Dirs : v \in Digests(index'[d])
    BY DEF Referenced, Digests
  <2> QED BY <2>1, <2>2 DEF LiveBlobsKept
<1>6. EntriesStored'
  BY <1>3 DEF BlobInv, EntriesStored, BlobLabels
<1>7. ReadersCurrent'
  <2> SUFFICES ASSUME NEW g \in Handlers, pc'[g] \in ReadLabels \cup {"sources"}
               PROVE  old'[g] = index'[Dir(g)']
    BY DEF ReadersCurrent
  <2>1. g # h /\ pc[g] \in ReadLabels \cup {"sources"}
    BY <1>3 DEF ReadLabels
  <2>2. Dir(g) # Dir(h)
    BY <1>1, <2>1 DEF Exclusive, Apart, PutLabels
  <2>3. Dir(g) \in Dirs /\ Dir(g)' = Dir(g)
    BY <1>3, <2>1, JobType DEF Dir, ReadLabels
  <2> QED BY <1>3, <1>4, <2>1, <2>2, <2>3 DEF BlobInv, ReadersCurrent
<1>8. ScanComplete'
  <2>1. \A g \in Handlers : pc'[g] \notin {"gcRead", "gcDelete"}
    BY <1>1, <1>3 DEF Exclusive, Apart, BlobLabels
  <2>2. \A d \in Dirs \ stateDirs' : Digests(index'[d]) = {}
    BY <1>3, <1>4 DEF BlobInv, ScanComplete
  <2> QED BY <2>1, <2>2 DEF ScanComplete, Digests
<1> QED BY <1>5, <1>6, <1>7, <1>8

LEMMA GcData ==
  ASSUME TypeOK, BlobInv, NEW h \in Handlers,
         Prune(h) \/ GcList(h) \/ GcRead(h) \/ GcScanned(h)
  PROVE  LiveBlobsKept' /\ EntriesStored' /\ ReadersCurrent' /\ ScanComplete'
<1>1. CASE Prune(h) \/ GcList(h)
  <2>1. /\ pc'[h] \in {"gc", "gcRead"}
        /\ UNCHANGED <<index, stateDirs, blobs, job, old, entry, refs>>
        /\ \A g \in Handlers : g # h => pc'[g] = pc[g] /\ unread'[g] = unread[g]
        /\ pc'[h] = "gcRead" => unread'[h] = stateDirs
    BY <1>1 DEF Prune, GcList, Goto, TypeOK, files, work
  <2> QED BY <2>1, FilesUntouched DEF BlobLabels, ReadLabels
<1>2. CASE GcRead(h)
  <2>1. PICK d \in unread[h] :
          /\ refs' = [refs EXCEPT ![h] = @ \cup (IF d \in stateDirs THEN Digests(index[d]) ELSE {})]
          /\ unread' = [unread EXCEPT ![h] = @ \ {d}]
    BY <1>2 DEF GcRead
  <2>2. /\ pc[h] = "gcRead" /\ UNCHANGED <<pc, index, stateDirs, blobs, job, old, entry>>
        /\ \A g \in Handlers : g # h => refs'[g] = refs[g] /\ unread'[g] = unread[g]
    BY <1>2, <2>1 DEF GcRead, files
  <2>3. /\ refs'[h] = refs[h] \cup (IF d \in stateDirs THEN Digests(index[d]) ELSE {})
        /\ unread'[h] = unread[h] \ {d}
    BY <2>1 DEF TypeOK
  <2>4. \A e \in stateDirs \ unread[h] : Digests(index[e]) \subseteq refs[h]
    BY <2>2 DEF BlobInv, ScanComplete
  <2>5. \A e \in stateDirs \ unread'[h] : Digests(index[e]) \subseteq refs'[h]
    BY <2>3, <2>4
  <2> QED BY <2>2, <2>5, FilesUntouched DEF BlobLabels, ReadLabels
<1>3. CASE GcScanned(h)
  <2>1. /\ pc[h] = "gcRead" /\ pc'[h] = "gcDelete" /\ unread[h] = {}
        /\ UNCHANGED <<index, stateDirs, blobs, job, old, entry, refs, unread>>
        /\ \A g \in Handlers : g # h => pc'[g] = pc[g]
    BY <1>3 DEF GcScanned, Goto, TypeOK, files, work
  <2>2. \A d \in Dirs : Digests(index[d]) \subseteq refs[h]
    <3>1. \A d \in stateDirs : Digests(index[d]) \subseteq refs[h]
      BY <2>1 DEF BlobInv, ScanComplete
    <3>2. \A d \in Dirs \ stateDirs : Digests(index[d]) = {}
      BY DEF BlobInv, ScanComplete
    <3> QED BY <3>1, <3>2
  <2> QED BY <2>1, <2>2, FilesUntouched DEF BlobLabels, ReadLabels
<1> QED BY <1>1, <1>2, <1>3

LEMMA DeleteData ==
  ASSUME TypeOK, Exclusive, BlobInv, NEW h \in Handlers, GcDelete(h)
  PROVE  LiveBlobsKept' /\ EntriesStored' /\ ReadersCurrent' /\ ScanComplete'
<1>1. pc[h] = "gcDelete"
  BY DEF GcDelete
<1>2. /\ \E v \in blobs \ refs[h] : blobs' = blobs \ {v}
      /\ UNCHANGED <<index, stateDirs, pc, job, old, entry, unread, refs>>
  BY DEF GcDelete, work
<1>3. \A d \in Dirs : Digests(index[d]) \subseteq blobs'
  <2>1. \A d \in Dirs : Digests(index[d]) \subseteq refs[h] /\ Digests(index[d]) \subseteq blobs
    BY <1>1, LiveBlobsByIndex DEF BlobInv, ScanComplete
  <2> QED BY <1>2, <2>1
<1>4. LiveBlobsKept'
  <2>1. \A v : v \in Referenced <=> \E d \in Dirs : v \in Digests(index[d])
    BY DEF Referenced
  <2>2. Referenced' = Referenced
    BY <1>2 DEF Referenced
  <2> QED BY <1>3, <2>1, <2>2 DEF LiveBlobsKept
<1>5. EntriesStored'
  <2>1. \A g \in Handlers : pc[g] \notin {"sources", "index"}
    BY <1>1 DEF Exclusive, Apart, BlobLabels
  <2> QED BY <1>2, <2>1 DEF BlobInv, EntriesStored
<1>6. ReadersCurrent'
  BY <1>2 DEF BlobInv, ReadersCurrent, Dir
<1>7. ScanComplete'
  BY <1>2 DEF BlobInv, ScanComplete
<1> QED BY <1>4, <1>5, <1>6, <1>7

LEMMA CrashData ==
  ASSUME TypeOK, BlobInv, Crash
  PROVE  LiveBlobsKept' /\ EntriesStored' /\ ReadersCurrent' /\ ScanComplete'
<1>1. /\ UNCHANGED <<index, stateDirs, blobs>>
      /\ \A h \in Handlers : pc'[h] = "idle" /\ entry'[h] = Nothing
  BY DEF Crash, files
<1>2. Digests(Nothing) = {}
  BY DEF Digests, Nothing
<1>3. LiveBlobsKept'
  BY <1>1 DEF BlobInv, LiveBlobsKept, Referenced
<1> QED
  BY <1>1, <1>2, <1>3
     DEF BlobInv, EntriesStored, ReadersCurrent, ScanComplete, ReadLabels, BlobLabels

\* A rename takes no lock: it is safe where nobody else is at work.
LEMMA RenameData ==
  ASSUME TypeOK, Exclusive, BlobInv, NEW h \in Handlers,
         MoveDir(h) \/ ClearState(h) \/ MoveState(h), pc'[h] # "idle", job[h].to # Dir(h)
  PROVE  LiveBlobsKept' /\ EntriesStored' /\ ReadersCurrent' /\ ScanComplete'
<1>1. /\ pc[h] \in RenameLabels /\ pc'[h] \in RenameLabels
      /\ UNCHANGED <<blobs, job, old, entry, unread, refs>>
      /\ \A g \in Handlers : pc'[g] = IF g = h THEN pc'[h] ELSE pc[g]
  BY DEF MoveDir, ClearState, MoveState, Return, Goto, TypeOK, files, work, RenameLabels, MoveLabels
<1>2. \A g \in Handlers : g = h
  BY <1>1 DEF Exclusive, Apart
<1>3. Dir(h) \in Dirs /\ job[h].to \in Dirs
  BY <1>1, JobType DEF RenameLabels, MoveLabels
<1>4. \A d \in Dirs : \/ index'[d] = Nothing
                      \/ \E e \in Dirs : index'[d] = index[e] /\ (d \notin stateDirs' => e \notin stateDirs)
  <2>1. CASE MoveDir(h)
    <3>1. UNCHANGED <<index, stateDirs>>
      BY <2>1 DEF MoveDir, files
    <3> QED
      BY <3>1
  <2>2. CASE ClearState(h)
    <3>1. /\ \A d \in Dirs : index'[d] = IF d = job[h].to THEN Nothing ELSE index[d]
          /\ stateDirs' = stateDirs \ {job[h].to}
      BY <2>2 DEF ClearState, TypeOK
    <3> QED
      BY <3>1
  <2>3. CASE MoveState(h)
    <3>1. CASE UNCHANGED <<index, stateDirs>>
      BY <3>1
    <3>2. CASE ~ UNCHANGED <<index, stateDirs>>
      <4>1. /\ index' = [index EXCEPT ![Dir(h)] = Nothing, ![job[h].to] = index[Dir(h)]]
            /\ stateDirs' = (stateDirs \ {Dir(h)}) \cup {job[h].to}
        BY <2>3, <3>2 DEF MoveState
      <4>2. \A d \in Dirs : index'[d] = IF d = job[h].to THEN index[Dir(h)]
                                        ELSE IF d = Dir(h) THEN Nothing ELSE index[d]
        BY <1>3, <4>1 DEF TypeOK
      <4> QED
        BY <1>3, <4>1, <4>2
    <3> QED
      BY <3>1, <3>2
  <2> QED
    BY <2>1, <2>2, <2>3
<1>5. Digests(Nothing) = {}
  BY DEF Digests, Nothing
<1>6. LiveBlobsKept'
  <2>1. \A d \in Dirs : Digests(index'[d]) \subseteq blobs'
    BY <1>1, <1>4, <1>5, LiveBlobsByIndex DEF BlobInv
  <2>2. \A v : v \in Referenced' <=> \E d \in Dirs : v \in Digests(index'[d])
    BY DEF Referenced, Digests
  <2> QED
    BY <2>1, <2>2 DEF LiveBlobsKept
<1>7. EntriesStored'
  BY <1>1, <1>2 DEF BlobInv, EntriesStored, RenameLabels, MoveLabels, BlobLabels
<1>8. ReadersCurrent'
  BY <1>1, <1>2 DEF ReadersCurrent, RenameLabels, MoveLabels, ReadLabels
<1>9. ScanComplete'
  <2>1. \A d \in Dirs \ stateDirs' : Digests(index'[d]) = {}
    BY <1>4, <1>5 DEF BlobInv, ScanComplete
  <2>2. \A g \in Handlers : pc'[g] \notin {"gcRead", "gcDelete"}
    BY <1>1, <1>2 DEF RenameLabels, MoveLabels
  <2>3. (\A d \in Dirs \ stateDirs : Digests(index[d]) = {})'
    BY <2>1 DEF Digests
  <2> QED
    BY <2>2, <2>3 DEF ScanComplete
<1> QED
  BY <1>6, <1>7, <1>8, <1>9

\* Where renames go is somewhere else.
RenamesMove == \A h \in Handlers : pc[h] \in RenameLabels => job[h].to # Dir(h)

LEMMA NextMoves == TypeOK /\ RenamesMove /\ [Next]_vars => RenamesMove'
<1> SUFFICES ASSUME TypeOK, RenamesMove, [Next]_vars PROVE RenamesMove'
  OBVIOUS
<1> USE DEF RenamesMove, RenameLabels, MoveLabels
<1>1. CASE UNCHANGED vars
  BY <1>1 DEF vars, Dir
<1>2. CASE Crash
  BY <1>2 DEF Crash
<1>3. ASSUME NEW h \in Handlers, Handler(h) PROVE RenamesMove'
  <2>1. CASE Start(h)
    <3>1. PICK op \in Ops, s \in Sources, d \in Dirs, to \in Dirs :
            /\ op = "rename" => to # d
            /\ job' = [job EXCEPT ![h] = [op |-> op, src |-> s, dir |-> d, gen |-> gen[d], to |-> to]]
            /\ Goto(h, First(op))
      BY <2>1 DEF Start
    <3>2. /\ \A g \in Handlers \ {h} : pc'[g] = pc[g] /\ job'[g] = job[g]
          /\ pc'[h] = First(op) /\ job'[h].to = to /\ job'[h].dir = d
      BY <3>1 DEF Goto, TypeOK
    <3> QED
      BY <3>1, <3>2 DEF First, Dir
  <2>2. CASE Return(h)
    BY <2>2 DEF Return, TypeOK, Dir
  <2>3. CASE ~ Start(h) /\ ~ Return(h)
    <3>1. /\ job' = job /\ \A g \in Handlers \ {h} : pc'[g] = pc[g]
          /\ pc'[h] \in RenameLabels => pc[h] \in RenameLabels
      <4>1. CASE Load(h) \/ Resolve(h) \/ ReadIndex(h) \/ CheckBlobs(h) \/ ReadBlobs(h)
        BY <2>3, <4>1 DEF Load, AfterLoad, Resolve, ReadIndex, CheckBlobs, ReadBlobs, Goto, TypeOK, work
      <4>2. CASE Lock(h) \/ WriteList(h) \/ TakeBlobMu(h) \/ WriteSource(h) \/ SourcesWritten(h) \/ WriteIndex(h)
        BY <2>3, <4>2 DEF Lock, WriteList, TakeBlobMu, WriteSource, SourcesWritten, WriteIndex, Goto, TypeOK
      <4>3. CASE Prune(h) \/ GcList(h) \/ GcRead(h) \/ GcScanned(h) \/ GcDelete(h)
        BY <4>3 DEF Prune, GcList, GcRead, GcScanned, GcDelete, Goto, TypeOK
      <4>4. CASE MoveDir(h) \/ ClearState(h) \/ MoveState(h)
        BY <2>3, <4>4 DEF MoveDir, ClearState, MoveState, Goto, TypeOK
      <4> QED
        BY <1>3, <2>3, <4>1, <4>2, <4>3, <4>4 DEF Handler, Put, Rename, Release, Fail, Create, DropHandles
    <3> QED
      BY <3>1 DEF Dir
  <2> QED
    BY <2>1, <2>2, <2>3
<1> QED
  BY <1>1, <1>2, <1>3 DEF Next

LEMMA BlobNext ==
  ASSUME TypeOK, Exclusive, RenamesMove, BlobInv, [Next]_vars
  PROVE  BlobInv'
<1>1. CASE UNCHANGED vars
  BY <1>1
     DEF vars, BlobInv, LiveBlobsKept, Referenced, EntriesStored, ReadersCurrent,
         ScanComplete, Dir
<1>2. CASE Crash
  BY <1>2, CrashData DEF BlobInv
<1>3. ASSUME NEW h \in Handlers, Handler(h)
      PROVE  LiveBlobsKept' /\ EntriesStored' /\ ReadersCurrent' /\ ScanComplete'
  <2>1. CASE pc'[h] = "idle"
    <3>1. Return(h) /\ UNCHANGED <<index, stateDirs, blobs>>
      <4>1. CASE Rename(h)
        BY <2>1, <4>1 DEF Rename, MoveDir, ClearState, MoveState, DropHandles, Goto, TypeOK, files
      <4> QED
        BY <1>3, <2>1, <4>1, ReturnSteps
    <3> QED
      BY <3>1, ReturnData
  <2>2. CASE pc'[h] # "idle"
    <3>1. ~ (Create(h) \/ Release(h) \/ Fail(h) \/ DropHandles(h))
      BY <2>2 DEF Create, Release, Fail, DropHandles, Return, TypeOK
    <3>2. CASE Rename(h)
      <4>1. pc[h] \in RenameLabels
        BY <3>2 DEF Rename, MoveDir, ClearState, MoveState, DropHandles, RenameLabels, MoveLabels
      <4> QED
        BY <2>2, <3>1, <3>2, <4>1, RenameData DEF Rename, RenamesMove
    <3> QED
      BY <1>3, <2>2, <3>1, <3>2, ReadsData, SourceData, IndexData, GcData, DeleteData
         DEF Handler, Put
  <2> QED
    BY <2>1, <2>2
<1> QED
  BY <1>1, <1>2, <1>3 DEF Next, BlobInv

\* Nothing is renamed, or one handler is all there is: what the lock of the blobs and
\* the collections' locks leave out, renames, is then not concurrent with anything.
RenamesAlone == "rename" \notin Ops \/ \E h : Handlers = {h}

StoreInv == TypeOK /\ Exclusive /\ RenamesMove /\ BlobInv /\ ("rename" \notin Ops => LocksHeld)

LEMMA StoreStarts == Init => StoreInv
<1> SUFFICES ASSUME Init PROVE StoreInv
  OBVIOUS
<1>1. TypeOK /\ BlobInv /\ LocksHeld
  BY TypeInit, BlobInit
<1>2. RenamesMove
  BY DEF Init, RenamesMove, RenameLabels, MoveLabels
<1> QED
  BY <1>1, <1>2, LocksExclude DEF StoreInv

LEMMA StoreNext ==
  ASSUME RenamesAlone, StoreInv, [Next]_vars
  PROVE  StoreInv'
<1>1. TypeOK' /\ RenamesMove' /\ BlobInv'
  BY TypeNext, NextMoves, BlobNext DEF StoreInv
<1>2. ("rename" \notin Ops => LocksHeld)'
  BY NextLocks DEF StoreInv
<1>3. Exclusive'
  <2>1. CASE "rename" \notin Ops
    <3>1. LocksHeld'
      BY <1>2, <2>1
    <3>2. (TypeOK /\ LocksHeld => Exclusive)'
      BY LocksExclude, PTL
    <3> QED
      BY <1>1, <3>1, <3>2
  <2>2. CASE \E h : Handlers = {h}
    BY <2>2 DEF Exclusive
  <2> QED
    BY <2>1, <2>2 DEF RenamesAlone
<1> QED
  BY <1>1, <1>2, <1>3 DEF StoreInv

LEMMA StoreHolds ==
  ASSUME RenamesAlone
  PROVE  Spec => []StoreInv
<1>1. Init => StoreInv
  BY StoreStarts
<1>2. StoreInv /\ [Next]_vars => StoreInv'
  BY StoreNext
<1> QED
  BY <1>1, <1>2, PTL DEF Spec

\* As long as nothing is renamed while another handler is at work, no index names a
\* blob that is gone, whatever writers, collectors, failures and crashes come
\* together (gcBlobs, putBlob, Rename).
THEOREM BlobSafety ==
  ASSUME RenamesAlone
  PROVE  Spec => []LiveBlobsKept
<1>1. StoreInv => LiveBlobsKept
  BY DEF StoreInv, BlobInv
<1> QED
  BY <1>1, StoreHolds, PTL

\* A reader that holds the collection's lock and not the blobs' still finds
\* every blob of the index it read (DescriptorResolves).
THEOREM ReaderSafety ==
  ASSUME RenamesAlone
  PROVE  Spec => []ReadersFindTheirBlobs
<1>1. StoreInv => ReadersFindTheirBlobs
  BY InvReadersFind DEF StoreInv
<1> QED
  BY <1>1, StoreHolds, PTL

------------------------------------------------------------------------------
(* What has resolved. *)

Writing == {"wantBlobMu", "sources", "index", "prune"}

\* What is known of a collection is listed by who writes it, and is in its new place
\* when it is cleared from the old one.
Carried(h, s) ==
  /\ pc[h] \in Writing /\ <<Dir(h), s>> \in known => want[h][s] # "absent"
  /\ pc[h] \in {"sources", "index"} /\ s \notin left[h]
       /\ (<<Dir(h), s>> \in known \/ got[h][s] # None) =>
       /\ want[h][s] = "commit" => sidecar[Dir(h)][s] # None
       /\ want[h][s] = "plain" => entry[h][s] # None
  /\ pc[h] = "index" => left[h] = {}
  /\ pc[h] = "prune" /\ want[h][s] # "commit" /\ <<Dir(h), s>> \in known =>
       index[Dir(h)][s] # None

\* The index of a collection that is being moved is still under its old id.
Moved(h) ==
  /\ pc[h] \in MoveLabels => Dir(h) \in stateDirs /\ \A k \in known : k[1] # Dir(h)
  /\ pc[h] = "moveState" => job[h].to \notin stateDirs

Found(d, e, s) == sidecar[d][s] # None \/ index[e][s] # None

\* It is found in the sidecar or the index of its id, or in the index under the old one.
Movers(d) == {h \in Handlers : pc[h] \in MoveLabels /\ job[h].to = d}

Kept(d, s) ==
  /\ \A h \in Movers(d) : Found(d, Dir(h), s)
  /\ Movers(d) = {} => Found(d, d, s)

KnownInv ==
  /\ \A h \in Handlers, s \in Sources : Carried(h, s)
  /\ \A h \in Handlers : Moved(h)
  /\ \A d \in Dirs, s \in Sources : <<d, s>> \in known => Kept(d, s)

LEMMA KnownInit == Init => KnownInv
BY DEF Init, KnownInv, Carried, Moved, MoveLabels, Writing

LEMMA KnownRecoverable ==
  ASSUME StoreInv, KnownInv
  PROVE  Recoverable
<1> SUFFICES ASSUME \A h \in Handlers : pc[h] \notin MoveLabels, NEW k \in known
             PROVE  sidecar[k[1]][k[2]] # None \/ index[k[1]][k[2]] \in blobs
  BY DEF Recoverable, MoveLabels
<1>1. PICK d \in Dirs, s \in Sources : k = <<d, s>>
  BY DEF StoreInv, TypeOK
<1>2. sidecar[d][s] # None \/ index[d][s] # None
  BY <1>1 DEF KnownInv, Kept, Found, Movers
<1>3. index[d][s] = None \/ index[d][s] \in blobs
  BY LiveBlobsByIndex, DigestsIn DEF StoreInv, BlobInv
<1> QED
  BY <1>1, <1>2, <1>3

\* What another handler has carried stays where it is.
LEMMA OthersCarry ==
  ASSUME TypeOK, KnownInv, NEW g \in Handlers, NEW s \in Sources,
         pc'[g] = pc[g], job'[g] = job[g], want'[g] = want[g], got'[g] = got[g],
         entry'[g] = entry[g], left'[g] = left[g],
         pc[g] \in Writing =>
           /\ sidecar'[Dir(g)] = sidecar[Dir(g)] /\ index'[Dir(g)] = index[Dir(g)]
           /\ <<Dir(g), s>> \in known' => <<Dir(g), s>> \in known
  PROVE  Carried(g, s)'
<1>1. Dir(g)' = Dir(g)
  BY DEF Dir
<1> QED
  BY <1>1 DEF KnownInv, Carried, Writing

\* While nobody moves a collection, what is known is found under its own id.
LEMMA KnownFound ==
  ASSUME StoreInv, KnownInv, NEW h \in Handlers, pc[h] \notin MoveLabels,
         NEW d \in Dirs, NEW s \in Sources, <<d, s>> \in known
  PROVE  Found(d, d, s)
<1>1. Movers(d) = {}
  BY DEF StoreInv, Exclusive, Apart, RenameLabels, Movers
<1> QED
  BY <1>1 DEF KnownInv, Kept

\* A step of a handler that moves nothing.
LEMMA KnownStep ==
  ASSUME StoreInv, KnownInv, NEW h \in Handlers,
         \A g \in Handlers \ {h} :
           /\ pc'[g] = pc[g] /\ job'[g] = job[g] /\ want'[g] = want[g] /\ got'[g] = got[g]
           /\ entry'[g] = entry[g] /\ left'[g] = left[g],
         pc[h] \notin MoveLabels, pc'[h] \notin MoveLabels,
         pc[h] \in PutLabels \/ UNCHANGED <<sidecar, index, known>>,
         \A d \in Dirs : d # Dir(h) =>
           /\ sidecar'[d] = sidecar[d] /\ index'[d] = index[d]
           /\ \A s \in Sources : <<d, s>> \in known' => <<d, s>> \in known,
         \A s \in Sources : Carried(h, s)',
         \A s \in Sources : <<Dir(h), s>> \in known' =>
           sidecar'[Dir(h)][s] # None \/ index'[Dir(h)][s] # None
  PROVE  KnownInv'
<1>1. \A g \in Handlers : pc[g] \notin MoveLabels /\ pc'[g] \notin MoveLabels
  BY DEF StoreInv, Exclusive, Apart, RenameLabels
<1>2. ASSUME NEW g \in Handlers, NEW s \in Sources PROVE Carried(g, s)'
  <2>1. CASE g = h
    BY <2>1
  <2>2. CASE g # h
    <3>1. ASSUME pc[g] \in Writing
          PROVE  /\ sidecar'[Dir(g)] = sidecar[Dir(g)] /\ index'[Dir(g)] = index[Dir(g)]
                 /\ <<Dir(g), s>> \in known' => <<Dir(g), s>> \in known
      <4>1. Dir(g) \in Dirs
        BY <3>1, JobType DEF StoreInv, Writing
      <4>2. pc[h] \in PutLabels => Dir(g) # Dir(h)
        BY <2>2, <3>1 DEF StoreInv, Exclusive, Apart, Writing, PutLabels
      <4> QED
        BY <4>1, <4>2
    <3> QED
      BY <2>2, <3>1, OthersCarry DEF StoreInv
  <2> QED
    BY <2>1, <2>2
<1>3. (\A g \in Handlers : Moved(g))'
  BY <1>1 DEF Moved, MoveLabels
<1>4. ASSUME NEW d \in Dirs, NEW s \in Sources, <<d, s>> \in known'
      PROVE  Kept(d, s)'
  <2>1. sidecar'[d][s] # None \/ index'[d][s] # None
    <3>1. CASE d = Dir(h)
      BY <1>4, <3>1
    <3>2. CASE d # Dir(h)
      BY <1>4, <3>2, KnownFound DEF Found
    <3> QED
      BY <3>1, <3>2
  <2>2. Movers(d)' = {}
    BY <1>1 DEF Movers
  <2>3. Found(d, d, s)'
    BY <2>1 DEF Found
  <2> QED
    BY <2>2, <2>3 DEF Kept
<1> QED
  BY <1>2, <1>3, <1>4 DEF KnownInv

\* A step that leaves the descriptors of collections alone, and writes none.
LEMMA KnownApart ==
  ASSUME StoreInv, KnownInv, NEW h \in Handlers,
         \A g \in Handlers \ {h} :
           /\ pc'[g] = pc[g] /\ job'[g] = job[g] /\ want'[g] = want[g] /\ got'[g] = got[g]
           /\ entry'[g] = entry[g] /\ left'[g] = left[g],
         pc[h] \notin MoveLabels, pc'[h] \notin MoveLabels, pc'[h] \notin Writing,
         UNCHANGED <<sidecar, index, known>>
  PROVE  KnownInv'
<1>1. \A s \in Sources : Carried(h, s)'
  BY DEF Carried, Writing
<1>2. ASSUME NEW s \in Sources, <<Dir(h), s>> \in known'
      PROVE  sidecar'[Dir(h)][s] # None \/ index'[Dir(h)][s] # None
  <2>1. Dir(h) \in Dirs
    BY <1>2 DEF StoreInv, TypeOK
  <2> QED
    BY <1>2, <2>1, KnownFound DEF Found
<1> QED
  BY <1>1, <1>2, KnownStep

LEMMA KnownReturn ==
  ASSUME StoreInv, KnownInv, NEW h \in Handlers, Return(h), pc[h] \notin MoveLabels,
         UNCHANGED <<sidecar, index, known>>
  PROVE  KnownInv'
<1>1. /\ \A g \in Handlers \ {h} :
           /\ pc'[g] = pc[g] /\ job'[g] = job[g] /\ want'[g] = want[g] /\ got'[g] = got[g]
           /\ entry'[g] = entry[g] /\ left'[g] = left[g]
      /\ pc'[h] = "idle"
  BY DEF Return, StoreInv, TypeOK
<1> QED
  BY <1>1, KnownApart DEF MoveLabels, Writing

LEMMA KnownReads ==
  ASSUME StoreInv, KnownInv, NEW h \in Handlers,
         \/ Start(h) \/ Load(h) \/ Resolve(h) \/ ReadIndex(h) \/ CheckBlobs(h) \/ ReadBlobs(h)
         \/ Lock(h) \/ Create(h)
  PROVE  KnownInv'
<1>0. TypeOK
  BY DEF StoreInv
<1>1. UNCHANGED <<sidecar, index, known>> /\ pc[h] \notin MoveLabels
  BY DEF Start, Load, Resolve, ReadIndex, CheckBlobs, ReadBlobs, Lock, Create, files, MoveLabels
<1>2. CASE Return(h)
  BY <1>1, <1>2, KnownReturn
<1>3. CASE ~ Return(h)
  <2>1. UNCHANGED <<entry, left>> /\ pc'[h] \notin MoveLabels \cup Writing
    <3>1. CASE Start(h)
      BY <1>0, <3>1 DEF Start, work, Goto, First, TypeOK, MoveLabels, Writing
    <3>2. CASE Load(h) \/ Resolve(h) \/ ReadIndex(h)
      BY <1>0, <1>3, <3>2 DEF Load, AfterLoad, Resolve, ReadIndex, Goto, TypeOK, MoveLabels, Writing
    <3>3. CASE CheckBlobs(h) \/ ReadBlobs(h) \/ Lock(h)
      BY <1>0, <1>3, <3>3 DEF CheckBlobs, ReadBlobs, Lock, work, Goto, TypeOK, MoveLabels, Writing
    <3> QED
      BY <1>3, <3>1, <3>2, <3>3 DEF Create
  <2>2. \A g \in Handlers \ {h} :
          pc'[g] = pc[g] /\ job'[g] = job[g] /\ want'[g] = want[g] /\ got'[g] = got[g]
    <3>1. CASE Start(h)
      BY <1>0, <3>1 DEF Start, work, Goto, TypeOK
    <3>2. CASE Load(h) \/ Resolve(h) \/ ReadIndex(h)
      BY <1>0, <1>3, <3>2 DEF Load, Resolve, ReadIndex, Goto, TypeOK
    <3>3. CASE CheckBlobs(h) \/ ReadBlobs(h) \/ Lock(h)
      BY <1>0, <1>3, <3>3 DEF CheckBlobs, ReadBlobs, Lock, work, Goto, TypeOK
    <3> QED
      BY <1>3, <3>1, <3>2, <3>3 DEF Create
  <2> QED
    BY <1>1, <2>1, <2>2, KnownApart
<1> QED
  BY <1>2, <1>3

\* The list is written: what it leaves out is not known any more.
LEMMA KnownList ==
  ASSUME StoreInv, KnownInv, NEW h \in Handlers, WriteList(h), pc'[h] # "idle"
  PROVE  KnownInv'
<1>0. TypeOK /\ Dir(h) \in Dirs
  BY JobType DEF StoreInv, WriteList
<1>1. /\ pc[h] = "manifest" /\ pc'[h] = "wantBlobMu"
      /\ \A g \in Handlers \ {h} : pc'[g] = pc[g]
      /\ known' = {k \in known : k[1] = Dir(h) => want[h][k[2]] # "absent"}
      /\ UNCHANGED <<sidecar, index, job, want, got, entry, left>>
  BY <1>0 DEF WriteList, Return, Goto, work, TypeOK
<1>2. Dir(h)' = Dir(h)
  BY <1>1 DEF Dir
<1>3. \A s \in Sources : Carried(h, s)'
  BY <1>1, <1>2 DEF Carried
<1>4. ASSUME NEW s \in Sources, <<Dir(h), s>> \in known'
      PROVE  sidecar'[Dir(h)][s] # None \/ index'[Dir(h)][s] # None
  BY <1>0, <1>1, <1>4, KnownFound DEF Found, MoveLabels
<1> QED
  BY <1>1, <1>3, <1>4, KnownStep DEF MoveLabels, PutLabels

LEMMA KnownTake ==
  ASSUME StoreInv, KnownInv, NEW h \in Handlers, TakeBlobMu(h)
  PROVE  KnownInv'
<1>0. TypeOK /\ Dir(h) \in Dirs
  BY JobType DEF StoreInv, TakeBlobMu
<1>1. /\ pc[h] = "wantBlobMu" /\ pc'[h] = "sources" /\ left'[h] = Listed(want[h])
      /\ \A g \in Handlers \ {h} : pc'[g] = pc[g] /\ left'[g] = left[g]
      /\ UNCHANGED <<sidecar, index, known, job, want, got, entry>>
  BY <1>0 DEF TakeBlobMu, Goto, files, TypeOK
<1>2. Dir(h)' = Dir(h)
  BY <1>1 DEF Dir
<1>3. \A s \in Sources : Carried(h, s)'
  BY <1>1, <1>2 DEF Carried, KnownInv, Writing, Listed
<1>4. ASSUME NEW s \in Sources, <<Dir(h), s>> \in known'
      PROVE  sidecar'[Dir(h)][s] # None \/ index'[Dir(h)][s] # None
  BY <1>0, <1>1, <1>4, KnownFound DEF Found, MoveLabels
<1> QED
  BY <1>1, <1>3, <1>4, KnownStep DEF MoveLabels, PutLabels

\* A source is written where its flag says: what was stored for it is carried along.
LEMMA KnownSource ==
  ASSUME StoreInv, KnownInv, NEW h \in Handlers, WriteSource(h)
  PROVE  KnownInv'
<1>0. TypeOK /\ Dir(h) \in Dirs /\ pc[h] = "sources"
  BY JobType DEF StoreInv, WriteSource
<1>1. /\ pc' = pc
      /\ UNCHANGED <<index, known, job, want, got, old>>
  BY DEF WriteSource
<1>2. PICK s \in Sources : /\ left' = [left EXCEPT ![h] = @ \ {s}]
                           /\ s \in left[h]
                           /\ IF want[h][s] = "commit" THEN WriteCommitted(h, s) ELSE WritePlain(h, s)
  BY <1>0 DEF WriteSource, TypeOK
<1>3. Dir(h)' = Dir(h)
  BY <1>1 DEF Dir
<1>4. old[h] = index[Dir(h)] /\ Digests(old[h]) \subseteq blobs
  BY <1>0 DEF StoreInv, BlobInv, ReadersCurrent, EntriesStored
<1>5. old[h][s] = None \/ old[h][s] \in blobs
  BY <1>4, DigestsIn
<1>6. <<Dir(h), s>> \in known => sidecar[Dir(h)][s] # None \/ old[h][s] # None
  BY <1>0, <1>4, KnownFound DEF Found, MoveLabels
<1>7. NoneAssumption
  BY NoneAssumption
<1>8. sidecar \in [Dirs -> Resolves] /\ entry \in [Handlers -> Resolves]
  BY <1>0 DEF TypeOK
<1>9. /\ \A d \in Dirs : d # Dir(h) => sidecar'[d] = sidecar[d]
      /\ \A x \in Sources : sidecar[Dir(h)][x] # None => sidecar'[Dir(h)][x] # None
      /\ \A g \in Handlers \ {h} : entry'[g] = entry[g]
      /\ \A x \in Sources \ {s} : entry'[h][x] = entry[h][x]
      /\ <<Dir(h), s>> \in known \/ got[h][s] # None =>
           /\ want[h][s] = "commit" => sidecar'[Dir(h)][s] # None
           /\ want[h][s] = "plain" => entry'[h][s] # None
  <2>1. CASE want[h][s] = "commit"
    <3> DEFINE v == IF got[h][s] # None THEN got[h][s] ELSE LastStored(h, s)
    <3>1. <<Dir(h), s>> \in known \/ got[h][s] # None => v # None
      BY <1>5, <1>6 DEF LastStored
    <3>2. entry' = entry /\ sidecar' = IF v = None THEN sidecar ELSE [sidecar EXCEPT ![Dir(h)] = [@ EXCEPT ![s] = v]]
      BY <1>2, <2>1 DEF WriteCommitted
    <3> HIDE DEF v
    <3>3. \A d \in Dirs : d # Dir(h) => sidecar'[d] = sidecar[d]
      BY <1>0, <1>8, <3>2
    <3>4. \A x \in Sources : sidecar'[Dir(h)][x] = IF x = s /\ v # None THEN v ELSE sidecar[Dir(h)][x]
      BY <1>0, <1>8, <3>2 DEF Resolves
    <3> QED
      BY <2>1, <3>1, <3>2, <3>3, <3>4
  <2>2. CASE want[h][s] # "commit"
    <3> DEFINE kept == got[h][s] = None /\ old[h][s] # None
               v == IF kept THEN old[h][s]
                    ELSE IF got[h][s] # None THEN got[h][s] ELSE sidecar[Dir(h)][s]
    <3>1. <<Dir(h), s>> \in known \/ got[h][s] # None => v # None
      BY <1>6
    <3>2. sidecar' = sidecar /\ entry' = [entry EXCEPT ![h] = [@ EXCEPT ![s] = v]]
      BY <1>2, <2>2 DEF WritePlain
    <3> HIDE DEF v, kept
    <3>3. \A x \in Sources : entry'[h][x] = IF x = s THEN v ELSE entry[h][x]
      BY <1>8, <3>2 DEF Resolves
    <3>4. \A g \in Handlers \ {h} : entry'[g] = entry[g]
      BY <1>8, <3>2
    <3> QED
      BY <2>2, <3>1, <3>2, <3>3, <3>4
  <2> QED
    BY <2>1, <2>2
<1>10. left'[h] = left[h] \ {s} /\ \A g \in Handlers \ {h} : left'[g] = left[g]
  BY <1>0, <1>2 DEF TypeOK
<1>11. ASSUME NEW x \in Sources PROVE Carried(h, x)'
  <2>1. Carried(h, x)
    BY DEF KnownInv
  <2> QED
    BY <1>0, <1>1, <1>3, <1>9, <1>10, <2>1 DEF Carried
<1>12. ASSUME NEW x \in Sources, <<Dir(h), x>> \in known'
       PROVE  sidecar'[Dir(h)][x] # None \/ index'[Dir(h)][x] # None
  BY <1>0, <1>1, <1>9, <1>12, KnownFound DEF Found, MoveLabels
<1> QED
  BY <1>0, <1>1, <1>9, <1>10, <1>11, <1>12, KnownStep DEF MoveLabels, PutLabels

LEMMA KnownIndex ==
  ASSUME StoreInv, KnownInv, NEW h \in Handlers, WriteIndex(h)
  PROVE  KnownInv'
<1>0. TypeOK /\ Dir(h) \in Dirs /\ pc[h] = "index"
  BY JobType DEF StoreInv, WriteIndex
<1>1. /\ pc'[h] = "prune" /\ \A g \in Handlers \ {h} : pc'[g] = pc[g]
      /\ index'[Dir(h)] = entry[h]
      /\ \A d \in Dirs : d # Dir(h) => index'[d] = index[d]
      /\ known' = known \cup {<<Dir(h), s>> : s \in {x \in Listed(want[h]) : got[h][x] # None}}
      /\ UNCHANGED <<sidecar, job, want, got, entry, left>>
  BY <1>0 DEF WriteIndex, Goto, work, TypeOK
<1>2. Dir(h)' = Dir(h)
  BY <1>1 DEF Dir
<1>3. ASSUME NEW s \in Sources, <<Dir(h), s>> \in known'
      PROVE  /\ want[h][s] \in {"plain", "commit"}
             /\ want[h][s] = "commit" => sidecar[Dir(h)][s] # None
             /\ want[h][s] = "plain" => entry[h][s] # None
  <2>1. Carried(h, s) /\ left[h] = {}
    BY <1>0 DEF KnownInv, Carried
  <2>2. <<Dir(h), s>> \in known \/ (got[h][s] # None /\ want[h][s] # "absent")
    BY <1>1, <1>3 DEF Listed
  <2>3. want[h][s] \in Flags
    BY <1>0 DEF TypeOK, SourceList
  <2> QED
    BY <1>0, <2>1, <2>2, <2>3 DEF Carried, Flags, Writing
<1>4. ASSUME NEW s \in Sources PROVE Carried(h, s)'
  BY <1>1, <1>2, <1>3 DEF Carried
<1>5. ASSUME NEW d \in Dirs, d # Dir(h), NEW s \in Sources, <<d, s>> \in known'
      PROVE  <<d, s>> \in known
  BY <1>1, <1>5
<1> QED
  BY <1>0, <1>1, <1>3, <1>4, <1>5, KnownStep DEF MoveLabels, PutLabels

LEMMA KnownPrune ==
  ASSUME StoreInv, KnownInv, NEW h \in Handlers, Prune(h)
  PROVE  KnownInv'
<1>0. TypeOK /\ Dir(h) \in Dirs /\ pc[h] = "prune"
  BY JobType DEF StoreInv, Prune
<1>1. /\ pc'[h] = "gc" /\ \A g \in Handlers \ {h} : pc'[g] = pc[g]
      /\ \A d \in Dirs : d # Dir(h) => sidecar'[d] = sidecar[d]
      /\ \A s \in Sources : sidecar'[Dir(h)][s] = IF want[h][s] = "commit" THEN sidecar[Dir(h)][s] ELSE None
      /\ UNCHANGED <<index, known, job, want, got, entry, left>>
  BY <1>0 DEF Prune, Goto, work, TypeOK
<1>2. \A s \in Sources : Carried(h, s)'
  BY <1>1 DEF Carried, Writing
<1>3. ASSUME NEW s \in Sources, <<Dir(h), s>> \in known'
      PROVE  sidecar'[Dir(h)][s] # None \/ index'[Dir(h)][s] # None
  <2>1. Found(Dir(h), Dir(h), s)
    BY <1>0, <1>1, <1>3, KnownFound DEF MoveLabels
  <2>2. Carried(h, s)
    BY DEF KnownInv
  <2> QED
    BY <1>0, <1>1, <1>3, <2>1, <2>2 DEF Found, Carried
<1> QED
  BY <1>0, <1>1, <1>2, <1>3, KnownStep DEF MoveLabels, PutLabels

LEMMA KnownWritten ==
  ASSUME StoreInv, KnownInv, NEW h \in Handlers,
         SourcesWritten(h) \/ GcList(h) \/ GcRead(h) \/ GcScanned(h) \/ GcDelete(h)
  PROVE  KnownInv'
<1>0. TypeOK /\ Dir(h) \in Dirs /\ pc[h] \in {"sources", "gc", "gcRead", "gcDelete"}
  BY JobType DEF StoreInv, SourcesWritten, GcList, GcRead, GcScanned, GcDelete
<1>1. UNCHANGED <<sidecar, index, known, job, want, got, entry, left>>
  BY DEF SourcesWritten, GcList, GcRead, GcScanned, GcDelete, files, work
<1>2. /\ \A g \in Handlers \ {h} : pc'[g] = pc[g]
      /\ \/ pc'[h] = "index" /\ pc[h] = "sources" /\ left[h] = {}
         \/ pc'[h] \in {"gcRead", "gcDelete"}
  BY <1>0 DEF SourcesWritten, GcList, GcRead, GcScanned, GcDelete, Goto, TypeOK
<1>3. Dir(h)' = Dir(h)
  BY <1>1 DEF Dir
<1>4. ASSUME NEW s \in Sources PROVE Carried(h, s)'
  <2>1. Carried(h, s)
    BY DEF KnownInv
  <2> QED
    BY <1>1, <1>2, <1>3, <2>1 DEF Carried, Writing
<1>5. ASSUME NEW s \in Sources, <<Dir(h), s>> \in known'
      PROVE  sidecar'[Dir(h)][s] # None \/ index'[Dir(h)][s] # None
  BY <1>0, <1>1, <1>5, KnownFound DEF Found, MoveLabels
<1> QED
  BY <1>0, <1>1, <1>2, <1>4, <1>5, KnownStep DEF MoveLabels, PutLabels

\* Where one handler moves a collection nobody else is at work.
LEMMA KnownAlone ==
  ASSUME NEW h \in Handlers, \A g \in Handlers : g = h, \A s \in Sources : Carried(h, s)', Moved(h)',
         \A d \in Dirs, s \in Sources : <<d, s>> \in known' => Kept(d, s)'
  PROVE  KnownInv'
<1>1. \A g \in Handlers, s \in Sources : Carried(g, s)'
  OBVIOUS
<1>2. (\A g \in Handlers : Moved(g))'
  OBVIOUS
<1> QED
  BY <1>1, <1>2 DEF KnownInv

LEMMA KnownMoveDir ==
  ASSUME StoreInv, KnownInv, NEW h \in Handlers, MoveDir(h), pc'[h] # "idle"
  PROVE  KnownInv'
<1>0. /\ TypeOK /\ pc[h] = "rename" /\ Dir(h) \in Dirs /\ job[h].to \in Dirs
      /\ job[h].to # Dir(h)
  BY JobType DEF StoreInv, MoveDir, RenamesMove, RenameLabels
<1>a. PICK from \in Dirs, to \in Dirs : from = Dir(h) /\ to = job[h].to
  BY <1>0
<1>1. /\ sidecar' = [sidecar EXCEPT ![from] = Nothing, ![to] = sidecar[from]]
      /\ known' = {k \in known : k[1] \notin {from, to}}
                  \cup {<<to, k[2]>> : k \in {x \in known : x[1] = from}}
      /\ pc'[h] = IF from \in stateDirs THEN "clearState" ELSE "drop"
      /\ UNCHANGED <<index, stateDirs, job>>
  BY <1>0, <1>a DEF MoveDir, Return, Goto, TypeOK
<1>2. \A g \in Handlers : g = h
  BY <1>0 DEF StoreInv, Exclusive, Apart, RenameLabels
<1>3. Dir(h)' = from /\ job'[h].to = to /\ from # to
  BY <1>0, <1>a, <1>1 DEF Dir
<1>4. /\ sidecar'[to] = sidecar[from]
      /\ \A d \in Dirs \ {from, to} : sidecar'[d] = sidecar[d]
  BY <1>0, <1>1, <1>3 DEF TypeOK
<1>5. ASSUME NEW d \in Dirs, NEW s \in Sources, <<d, s>> \in known'
      PROVE  \/ d = to /\ <<from, s>> \in known
             \/ d \notin {from, to} /\ <<d, s>> \in known
  <2>1. CASE <<d, s>> \in known /\ d \notin {from, to}
    BY <2>1
  <2>2. CASE \E k \in known : k[1] = from /\ <<d, s>> = <<to, k[2]>>
    <3>1. PICK k \in known : k[1] = from /\ <<d, s>> = <<to, k[2]>>
      BY <2>2
    <3>2. k = <<k[1], k[2]>>
      BY <1>0 DEF TypeOK
    <3> QED
      BY <3>1, <3>2
  <2> QED
    BY <1>1, <1>5, <2>1, <2>2
<1>6. ASSUME NEW k \in known' PROVE k[1] # from
  BY <1>1, <1>3
<1>7. Moved(h)'
  BY <1>1, <1>3, <1>6 DEF Moved, MoveLabels
<1>8. \A s \in Sources : Carried(h, s)'
  BY <1>1 DEF Carried, Writing
<1>9. ASSUME NEW d \in Dirs, NEW s \in Sources, <<d, s>> \in known'
      PROVE  Kept(d, s)'
  <2>1. CASE d = to /\ <<from, s>> \in known
    <3>1. sidecar[from][s] # None \/ index[from][s] # None
      BY <1>0, <1>3, <2>1, KnownFound DEF Found, MoveLabels
    <3>2. CASE from \in stateDirs
      <4>1. pc'[h] \in MoveLabels /\ to = job'[h].to
        BY <1>1, <1>3, <3>2 DEF MoveLabels
      <4>2. Found(to, from, s)'
        BY <1>1, <1>4, <3>1 DEF Found
      <4>3. Movers(to)' = {h}
        BY <1>2, <4>1 DEF Movers
      <4> QED
        BY <1>3, <2>1, <4>2, <4>3 DEF Kept
    <3>3. CASE from \notin stateDirs
      <4>1. Digests(index[from]) \subseteq {}
        BY <1>3, <3>3 DEF StoreInv, BlobInv, ScanComplete
      <4>2. index[from][s] = None
        BY <4>1, DigestsIn
      <4>3. Movers(to)' = {}
        BY <1>1, <1>2, <3>3 DEF Movers, MoveLabels
      <4>4. Found(to, to, s)'
        BY <1>1, <1>4, <3>1, <4>2 DEF Found
      <4> QED
        BY <2>1, <4>3, <4>4 DEF Kept
    <3> QED
      BY <3>2, <3>3
  <2>2. CASE d \notin {from, to} /\ <<d, s>> \in known
    <3>1. sidecar[d][s] # None \/ index[d][s] # None
      BY <1>0, <2>2, KnownFound DEF Found, MoveLabels
    <3>2. Found(d, d, s)'
      BY <1>1, <1>4, <2>2, <3>1 DEF Found
    <3>3. Movers(d)' = {}
      BY <1>2, <1>3, <2>2 DEF Movers
    <3> QED
      BY <3>2, <3>3 DEF Kept
  <2> QED
    BY <1>5, <1>9, <2>1, <2>2
<1> QED
  BY <1>2, <1>7, <1>8, <1>9, KnownAlone

\* While a collection is on the way its index is found under the old id.
LEMMA KeptMoving ==
  ASSUME StoreInv, KnownInv, NEW h \in Handlers, pc[h] \in MoveLabels,
         NEW d \in Dirs, NEW s \in Sources, <<d, s>> \in known
  PROVE  /\ d # Dir(h)
         /\ d = job[h].to => Found(d, Dir(h), s)
         /\ d # job[h].to => Found(d, d, s)
<1>1. d # Dir(h)
  BY DEF KnownInv, Moved
<1>2. \A g \in Handlers : g = h
  BY DEF StoreInv, Exclusive, Apart, RenameLabels
<1>3. Kept(d, s) /\ (d # job[h].to => Movers(d) = {}) /\ (d = job[h].to => h \in Movers(d))
  BY <1>2 DEF KnownInv, Movers
<1> QED
  BY <1>1, <1>3 DEF Kept

LEMMA KnownClear ==
  ASSUME StoreInv, KnownInv, NEW h \in Handlers, ClearState(h)
  PROVE  KnownInv'
<1>0. /\ TypeOK /\ pc[h] = "clearState" /\ Dir(h) \in Dirs /\ job[h].to \in Dirs
      /\ job[h].to # Dir(h)
  BY JobType DEF StoreInv, ClearState, RenamesMove, RenameLabels, MoveLabels
<1>a. PICK from \in Dirs, to \in Dirs : from = Dir(h) /\ to = job[h].to
  BY <1>0
<1>1. /\ stateDirs' = stateDirs \ {to}
      /\ \A d \in Dirs \ {to} : index'[d] = index[d]
      /\ pc'[h] = "moveState" /\ UNCHANGED <<sidecar, known, job>>
  BY <1>0, <1>a DEF ClearState, Goto, TypeOK
<1>2. \A g \in Handlers : g = h
  BY <1>0 DEF StoreInv, Exclusive, Apart, RenameLabels, MoveLabels
<1>3. Dir(h)' = from /\ job'[h].to = to /\ from # to
  BY <1>0, <1>a, <1>1 DEF Dir
<1>4. Moved(h)
  BY DEF KnownInv
<1>5. Moved(h)'
  BY <1>0, <1>a, <1>1, <1>3, <1>4 DEF Moved, MoveLabels
<1>6. \A s \in Sources : Carried(h, s)'
  BY <1>1 DEF Carried, Writing
<1>7. ASSUME NEW d \in Dirs, NEW s \in Sources, <<d, s>> \in known'
      PROVE  Kept(d, s)'
  <2>1. CASE d # to
    <3>1. Found(d, d, s)
      BY <1>0, <1>a, <1>1, <1>7, <2>1, KeptMoving DEF MoveLabels
    <3>2. Movers(d)' = {}
      BY <1>2, <1>3, <2>1 DEF Movers
    <3>3. Found(d, d, s)'
      BY <1>1, <2>1, <3>1 DEF Found
    <3> QED
      BY <3>2, <3>3 DEF Kept
  <2>2. CASE d = to
    <3>1. <<to, s>> \in known /\ to \in Dirs
      BY <1>0, <1>1, <1>7, <2>2
    <3>2. sidecar[to][s] # None \/ index[from][s] # None
      BY <1>0, <1>a, <3>1, KeptMoving DEF Found, MoveLabels
    <3>3. Found(to, from, s)'
      BY <1>0, <1>a, <1>1, <1>3, <3>2 DEF Found
    <3>4. Movers(to)' = {h}
      BY <1>1, <1>2, <1>3 DEF Movers, MoveLabels
    <3> QED
      BY <1>3, <2>2, <3>3, <3>4 DEF Kept
  <2> QED
    BY <2>1, <2>2
<1> QED
  BY <1>2, <1>5, <1>6, <1>7, KnownAlone

LEMMA KnownMoveState ==
  ASSUME StoreInv, KnownInv, NEW h \in Handlers, MoveState(h)
  PROVE  KnownInv'
<1>0. /\ TypeOK /\ pc[h] = "moveState" /\ Dir(h) \in Dirs /\ job[h].to \in Dirs
      /\ job[h].to # Dir(h)
  BY JobType DEF StoreInv, MoveState, RenamesMove, RenameLabels, MoveLabels
<1>a. PICK from \in Dirs, to \in Dirs : from = Dir(h) /\ to = job[h].to
  BY <1>0
<1>1. from \in stateDirs /\ to \notin stateDirs
  BY <1>0, <1>a DEF KnownInv, Moved, MoveLabels
<1>2. /\ index' = [index EXCEPT ![from] = Nothing, ![to] = index[from]]
      /\ pc'[h] = "drop" /\ UNCHANGED <<sidecar, known>>
  BY <1>0, <1>a, <1>1 DEF MoveState, Goto, TypeOK
<1>3. index'[to] = index[from] /\ \A d \in Dirs \ {from, to} : index'[d] = index[d]
  BY <1>0, <1>a, <1>2 DEF TypeOK
<1>4. \A g \in Handlers : g = h
  BY <1>0 DEF StoreInv, Exclusive, Apart, RenameLabels, MoveLabels
<1>5. Moved(h)' /\ \A s \in Sources : Carried(h, s)'
  BY <1>2 DEF Moved, Carried, Writing, MoveLabels
<1>6. ASSUME NEW d \in Dirs, NEW s \in Sources, <<d, s>> \in known'
      PROVE  Kept(d, s)'
  <2>1. /\ d # from
        /\ d = to => Found(d, from, s)
        /\ d # to => Found(d, d, s)
    BY <1>0, <1>a, <1>2, <1>6, KeptMoving DEF MoveLabels
  <2>2. Found(d, d, s)'
    BY <1>2, <1>3, <2>1 DEF Found
  <2>3. Movers(d)' = {}
    BY <1>2, <1>4 DEF Movers, MoveLabels
  <2> QED
    BY <2>2, <2>3 DEF Kept
<1> QED
  BY <1>4, <1>5, <1>6, KnownAlone

LEMMA KnownCrash ==
  ASSUME StoreInv, KnownInv, Crash
  PROVE  KnownInv'
<1>1. /\ known' = {k \in known : \A h \in Handlers : pc[h] \in MoveLabels => k[1] # job[h].to}
      /\ \A h \in Handlers : pc'[h] = "idle"
      /\ UNCHANGED <<sidecar, index>>
  BY DEF Crash, files, MoveLabels
<1>2. \A h \in Handlers, s \in Sources : Carried(h, s)' /\ Moved(h)'
  BY <1>1 DEF Carried, Moved, Writing, MoveLabels
<1>3. \A h \in Handlers : Moved(h)'
  BY <1>1 DEF Moved, MoveLabels
<1>4. ASSUME NEW d \in Dirs, NEW s \in Sources, <<d, s>> \in known'
      PROVE  Kept(d, s)'
  <2>1. /\ <<d, s>> \in known
        /\ \A h \in Handlers : pc[h] \in MoveLabels => d # job[h].to
    BY <1>1, <1>4
  <2>2. Found(d, d, s)
    BY <2>1 DEF KnownInv, Kept, Movers
  <2>3. Movers(d)' = {}
    BY <1>1 DEF Movers, MoveLabels
  <2>4. Found(d, d, s)'
    BY <1>1, <2>2 DEF Found
  <2> QED
    BY <2>3, <2>4 DEF Kept
<1>5. (\A h \in Handlers : Moved(h))'
  BY <1>3
<1> QED
  BY <1>2, <1>4, <1>5 DEF KnownInv

LEMMA KnownNext ==
  ASSUME StoreInv, KnownInv, [Next]_vars
  PROVE  KnownInv'
<1>1. CASE UNCHANGED vars
  <2>1. \A h \in Handlers, s \in Sources : Carried(h, s)'
    BY <1>1 DEF vars, KnownInv, Carried, Dir
  <2>2. (\A h \in Handlers : Moved(h))'
    BY <1>1 DEF vars, KnownInv, Moved, Dir
  <2>3. \A d \in Dirs, s \in Sources : <<d, s>> \in known' => Kept(d, s)'
    BY <1>1 DEF vars, KnownInv, Kept, Found, Dir, Movers
  <2> QED
    BY <2>1, <2>2, <2>3 DEF KnownInv
<1>2. CASE Crash
  BY <1>2, KnownCrash
<1>3. ASSUME NEW h \in Handlers, Handler(h) PROVE KnownInv'
  <2>0. TypeOK
    BY DEF StoreInv
  <2>1. CASE pc'[h] = "idle"
    <3>1. Return(h) /\ UNCHANGED <<sidecar, index, known>> /\ pc[h] \notin MoveLabels
      <4>1. CASE Rename(h)
        BY <2>0, <2>1, <4>1 DEF Rename, MoveDir, ClearState, MoveState, DropHandles, Goto, TypeOK, files, MoveLabels
      <4>2. CASE Start(h) \/ Load(h) \/ Resolve(h) \/ ReadIndex(h) \/ CheckBlobs(h) \/ ReadBlobs(h)
        BY <2>0, <2>1, <4>2
           DEF Start, First, Load, AfterLoad, Resolve, ReadIndex, CheckBlobs, ReadBlobs, Goto, TypeOK, files, MoveLabels
      <4>3. CASE Lock(h) \/ WriteList(h) \/ TakeBlobMu(h) \/ WriteSource(h) \/ SourcesWritten(h) \/ WriteIndex(h)
        BY <2>0, <2>1, <4>3
           DEF Lock, WriteList, TakeBlobMu, WriteSource, SourcesWritten, WriteIndex, Goto, TypeOK, files, MoveLabels
      <4>4. CASE Prune(h) \/ GcList(h) \/ GcRead(h) \/ GcScanned(h) \/ GcDelete(h)
        BY <2>0, <2>1, <4>4 DEF Prune, GcList, GcRead, GcScanned, GcDelete, Goto, TypeOK
      <4>5. CASE Release(h) \/ Fail(h) \/ Create(h)
        BY <4>5 DEF Release, Fail, Create, PutLabels, files, MoveLabels
      <4> QED
        BY <1>3, <4>1, <4>2, <4>3, <4>4, <4>5 DEF Handler, Put
    <3> QED
      BY <3>1, KnownReturn
  <2>2. CASE pc'[h] # "idle"
    <3>1. ~ (Create(h) \/ Release(h) \/ Fail(h) \/ DropHandles(h))
      BY <2>0, <2>2 DEF Create, Release, Fail, DropHandles, Return, TypeOK
    <3> QED
      BY <1>3, <2>2, <3>1, KnownReads, KnownList, KnownTake, KnownSource, KnownIndex, KnownPrune,
         KnownWritten, KnownMoveDir, KnownClear, KnownMoveState
         DEF Handler, Put, Rename
  <2> QED
    BY <2>1, <2>2
<1> QED
  BY <1>1, <1>2, <1>3 DEF Next

\* What a listed source has resolved to is there for the next call, in one of its two
\* places, wherever a write is cut off by an error or a crash, whatever the others
\* write meanwhile, and when its collection was moved by a handler that is alone.
THEOREM NothingLost ==
  ASSUME RenamesAlone
  PROVE  Spec => []Recoverable
<1>1. Init => StoreInv /\ KnownInv
  BY StoreStarts, KnownInit
<1>2. StoreInv /\ KnownInv /\ [Next]_vars => StoreInv' /\ KnownInv'
  BY StoreNext, KnownNext
<1>3. StoreInv /\ KnownInv => Recoverable
  BY KnownRecoverable
<1> QED
  BY <1>1, <1>2, <1>3, PTL DEF Spec

------------------------------------------------------------------------------
(* Nothing is kept that is of no use. *)

One(d) ==
  \A s \in Sources :
    /\ list[d][s] # "commit" => sidecar[d][s] = None
    /\ list[d][s] # "plain" => index[d][s] = None

\* What a write has made of its collection, and what its collector has seen.
Placed(h) ==
  /\ pc[h] \in BlobLabels \cup {"wantBlobMu"} => list[Dir(h)] = want[h]
  /\ pc[h] \notin {"gcRead", "gcDelete"} => refs[h] = {}
  /\ pc[h] \notin BlobLabels => left[h] = {}
  /\ refs[h] \subseteq Referenced
  /\ \A s \in Sources :
       /\ s \in left[h] => want[h][s] # "absent"
       /\ entry[h][s] # None => want[h][s] = "plain"
       /\ pc[h] = "prune" /\ index[Dir(h)][s] # None => want[h][s] = "plain"

\* A collection nobody writes has its sources in their places, or is not there.
Settled(d) ==
  (\A h \in Handlers : pc[h] \in Writing => Dir(h) # d) =>
    \/ list[d] = None /\ sidecar[d] = Nothing /\ index[d] = Nothing
    \/ list[d] # None /\ One(d)

ExactInv ==
  /\ blobMu = None => blobs \subseteq Referenced
  /\ \A h \in Handlers : blobMu = h => pc[h] \in BlobLabels
  /\ \A h \in Handlers : Placed(h)
  /\ \A d \in Dirs : Settled(d)

LEMMA ExactInit == Init => ExactInv
<1> SUFFICES ASSUME Init PROVE ExactInv
  OBVIOUS
<1>1. \A d \in Dirs : Settled(d)
  <2>1. Unlisted # None
    BY NoneAssumption DEF Unlisted, SourceList, Flags
  <2> QED
    BY <2>1 DEF Init, Settled, One, Nothing, Unlisted
<1>2. \A h \in Handlers : Placed(h)
  BY DEF Init, Placed, BlobLabels, Nothing
<1> QED
  BY <1>1, <1>2, NoneAssumption DEF Init, ExactInv

LEMMA ExactOnePlace ==
  ASSUME StoreInv, ExactInv, "rename" \notin Ops
  PROVE  BlobsExact
<1>1. LocksHeld /\ TypeOK
  BY DEF StoreInv
<1>2. blobMu = None => blobs = Referenced
  BY DEF ExactInv, StoreInv, BlobInv, LiveBlobsKept
<1>3. ASSUME NEW d \in Dirs, list[d] # None, mu[<<d, gen[d]>>] = None
      PROVE  One(d)
  <2>1. ASSUME NEW h \in Handlers, pc[h] \in Writing PROVE Dir(h) # d
    <3>1. mu[Mutex(h)] = h /\ job[h].gen = 0 /\ gen[d] = 0 /\ h # None
      BY <1>1, <2>1, NoneAssumption DEF LocksHeld, Writing, PutLabels
    <3> QED
      BY <1>3, <3>1 DEF Mutex, Dir
  <2> QED
    BY <1>3, <2>1 DEF ExactInv, Settled
<1> QED
  BY <1>2, <1>3 DEF BlobsExact, OnePlace, One

LEMMA ReferencedBy == \A v : v \in Referenced <=> \E d \in Dirs : v \in Digests(index[d])
BY DEF Referenced

\* A step of one handler.
LEMMA ExactStep ==
  ASSUME StoreInv, ExactInv, NEW h \in Handlers,
         \A g \in Handlers \ {h} :
           /\ pc'[g] = pc[g] /\ job'[g] = job[g] /\ want'[g] = want[g] /\ entry'[g] = entry[g]
           /\ left'[g] = left[g] /\ refs'[g] = refs[g],
         pc[h] \notin PutLabels =>
           UNCHANGED <<sidecar, index>> /\ \A d \in Dirs : list[d] # None => list'[d] = list[d],
         pc[h] \in BlobLabels \/ UNCHANGED index,
         \A d \in Dirs : d # Dir(h) => list'[d] = list[d] /\ sidecar'[d] = sidecar[d] /\ index'[d] = index[d],
         pc'[h] \in Writing => Dir(h)' = Dir(h),
         Placed(h)', \A d \in Dirs : d = Dir(h) => Settled(d)',
         blobMu' = None => blobs' \subseteq Referenced',
         \A g \in Handlers : blobMu' = g => pc'[g] \in BlobLabels
  PROVE  ExactInv'
<1>1. ASSUME NEW g \in Handlers PROVE Placed(g)'
  <2>1. CASE g = h
    BY <2>1
  <2>2. CASE g # h
    <3>1. Dir(g)' = Dir(g)
      BY <2>2 DEF Dir
    <3>2. Placed(g)
      BY DEF ExactInv
    <3>3. ASSUME pc[g] \in BlobLabels \cup {"wantBlobMu"}
          PROVE  list'[Dir(g)] = list[Dir(g)] /\ index'[Dir(g)] = index[Dir(g)]
      <4>1. Dir(g) \in Dirs /\ list[Dir(g)] = want[g] /\ want[g] \in SourceList
        BY <3>2, <3>3, JobType DEF StoreInv, TypeOK, Placed, BlobLabels
      <4>2. list[Dir(g)] # None
        BY <4>1, NoneAssumption
      <4>3. pc[h] \in PutLabels => Dir(g) # Dir(h)
        BY <2>2, <3>3 DEF StoreInv, Exclusive, Apart, PutLabels, BlobLabels
      <4> QED
        BY <4>1, <4>2, <4>3
    <3>4. refs[g] \subseteq Referenced'
      <4>1. CASE pc[h] \in BlobLabels
        BY <2>2, <3>2, <4>1 DEF StoreInv, Exclusive, Apart, Placed, BlobLabels
      <4>2. CASE UNCHANGED index
        BY <3>2, <4>2 DEF Placed, Referenced
      <4> QED
        BY <4>1, <4>2
    <3> QED
      BY <2>2, <3>1, <3>2, <3>3, <3>4 DEF Placed, BlobLabels
  <2> QED
    BY <2>1, <2>2
<1>2. ASSUME NEW d \in Dirs PROVE Settled(d)'
  <2>1. CASE d = Dir(h)
    BY <2>1
  <2>2. CASE d # Dir(h)
    <3>1. Settled(d)
      BY DEF ExactInv
    <3>2. ASSUME \A g \in Handlers : pc'[g] \in Writing => Dir(g)' # d
          PROVE  \A g \in Handlers : pc[g] \in Writing => Dir(g) # d
      BY <2>2, <3>2 DEF Dir
    <3>3. One(d) => One(d)'
      BY <2>2 DEF One
    <3> QED
      BY <2>2, <3>1, <3>2, <3>3 DEF Settled
  <2> QED
    BY <2>1, <2>2
<1> QED
  BY <1>1, <1>2 DEF ExactInv

\* A step that writes no collection's files, before or after a write.
LEMMA ExactApart ==
  ASSUME StoreInv, ExactInv, NEW h \in Handlers,
         \A g \in Handlers \ {h} :
           /\ pc'[g] = pc[g] /\ job'[g] = job[g] /\ want'[g] = want[g] /\ entry'[g] = entry[g]
           /\ left'[g] = left[g] /\ refs'[g] = refs[g],
         UNCHANGED <<list, sidecar, index>>,
         pc[h] \notin Writing, pc'[h] \notin Writing,
         Placed(h)',
         blobMu' = None => blobs' \subseteq Referenced,
         \A g \in Handlers : blobMu' = g => pc'[g] \in BlobLabels
  PROVE  ExactInv'
<1>1. ASSUME NEW d \in Dirs PROVE Settled(d)'
  <2>1. Settled(d)
    BY DEF ExactInv
  <2>2. ASSUME \A g \in Handlers : pc'[g] \in Writing => Dir(g)' # d
        PROVE  \A g \in Handlers : pc[g] \in Writing => Dir(g) # d
    BY <2>2 DEF Dir
  <2>3. One(d) => One(d)'
    BY DEF One
  <2> QED
    BY <2>1, <2>2, <2>3 DEF Settled
<1>2. Referenced' = Referenced
  BY DEF Referenced
<1> QED
  BY <1>1, <1>2, ExactStep

\* Before the list is written nothing of what the collector and the writer use is set.
LEMMA ExactQuiet ==
  ASSUME StoreInv, ExactInv, NEW h \in Handlers,
         \A g \in Handlers \ {h} : pc'[g] = pc[g] /\ job'[g] = job[g] /\ want'[g] = want[g],
         UNCHANGED <<list, sidecar, index, blobs, blobMu, entry, left, refs>>,
         pc[h] \notin BlobLabels, pc'[h] \notin BlobLabels,
         pc[h] # "wantBlobMu", pc'[h] # "wantBlobMu"
  PROVE  ExactInv'
<1>1. refs[h] = {} /\ left[h] = {} /\ \A s \in Sources : entry[h][s] = None
  <2>1. Digests(entry[h]) \subseteq {}
    BY DEF StoreInv, BlobInv, EntriesStored
  <2>2. \A s \in Sources : entry[h][s] = None
    BY <2>1, DigestsIn
  <2> QED
    BY <2>2 DEF ExactInv, Placed, BlobLabels
<1>2. Placed(h)'
  BY <1>1 DEF Placed, BlobLabels
<1>3. \A g \in Handlers : blobMu' = g => pc'[g] \in BlobLabels
  BY DEF ExactInv
<1>4. blobMu' = None => blobs' \subseteq Referenced
  BY DEF ExactInv
<1> QED
  BY <1>2, <1>3, <1>4, ExactApart DEF Writing, BlobLabels

LEMMA ExactReads ==
  ASSUME StoreInv, ExactInv, NEW h \in Handlers, pc'[h] # "idle",
         \/ Start(h) \/ Load(h) \/ Resolve(h) \/ ReadIndex(h) \/ CheckBlobs(h) \/ ReadBlobs(h)
         \/ Lock(h)
  PROVE  ExactInv'
<1>0. TypeOK
  BY DEF StoreInv
<1>1. ~ Return(h)
  BY <1>0 DEF Return, TypeOK
<1>2. CASE Start(h)
  <2>1. /\ UNCHANGED <<list, sidecar, index, blobs, blobMu, entry, left, refs, want>>
        /\ pc[h] = "idle" /\ pc'[h] \in {"create", "rename", "load"}
        /\ \A g \in Handlers \ {h} : pc'[g] = pc[g] /\ job'[g] = job[g]
    BY <1>0, <1>2 DEF Start, files, locks, work, Goto, First, TypeOK
  <2> QED
    BY <2>1, ExactQuiet DEF BlobLabels
<1>3. CASE Load(h) \/ Resolve(h) \/ ReadIndex(h)
  <2>1. /\ UNCHANGED <<list, sidecar, index, blobs, blobMu, entry, left, refs, job>>
        /\ pc[h] \in {"load", "resolve", "checkIndex", "readIndex"}
        /\ pc'[h] \in {"resolve", "checkIndex", "readIndex", "checkBlobs", "readBlobs"}
        /\ \A g \in Handlers \ {h} : pc'[g] = pc[g] /\ want'[g] = want[g]
    BY <1>0, <1>1, <1>3 DEF Load, AfterLoad, Resolve, ReadIndex, files, locks, Goto, TypeOK
  <2> QED
    BY <2>1, ExactQuiet DEF BlobLabels
<1>4. CASE CheckBlobs(h) \/ ReadBlobs(h) \/ Lock(h)
  <2>1. /\ UNCHANGED <<list, sidecar, index, blobs, blobMu, entry, left, refs, job, want>>
        /\ pc[h] \in {"checkBlobs", "readBlobs", "lock"}
        /\ pc'[h] \in {"readIndex", "lock", "manifest"}
        /\ \A g \in Handlers \ {h} : pc'[g] = pc[g]
    BY <1>0, <1>1, <1>4 DEF CheckBlobs, ReadBlobs, Lock, files, work, Goto, TypeOK
  <2> QED
    BY <2>1, ExactQuiet DEF BlobLabels
<1> QED
  BY <1>2, <1>3, <1>4

LEMMA ReturnPlaced ==
  ASSUME StoreInv, ExactInv, NEW h \in Handlers, Return(h)
  PROVE  /\ Placed(h)' /\ pc'[h] = "idle"
         /\ \A g \in Handlers \ {h} :
              /\ pc'[g] = pc[g] /\ job'[g] = job[g] /\ want'[g] = want[g] /\ entry'[g] = entry[g]
              /\ left'[g] = left[g] /\ refs'[g] = refs[g]
         /\ \A g \in Handlers : blobMu' = g => pc'[g] \in BlobLabels
         /\ blobMu' = None => blobMu = None \/ pc[h] \in BlobLabels
<1>0. TypeOK
  BY DEF StoreInv
<1>1. /\ pc'[h] = "idle" /\ want'[h] = Unlisted /\ entry'[h] = Nothing /\ left'[h] = {} /\ refs'[h] = {}
      /\ \A g \in Handlers \ {h} :
              /\ pc'[g] = pc[g] /\ job'[g] = job[g] /\ want'[g] = want[g] /\ entry'[g] = entry[g]
              /\ left'[g] = left[g] /\ refs'[g] = refs[g]
  BY <1>0 DEF Return, TypeOK
<1>2. Placed(h)'
  BY <1>1 DEF Placed, BlobLabels, Nothing
<1>3. blobMu' = IF blobMu = h THEN None ELSE blobMu
  BY DEF Return
<1>4. \A g \in Handlers : blobMu' = g => pc'[g] \in BlobLabels
  BY <1>1, <1>3, NoneAssumption DEF ExactInv
<1> QED
  BY <1>1, <1>2, <1>3, <1>4 DEF ExactInv

LEMMA ExactReturn ==
  ASSUME StoreInv, ExactInv, NEW h \in Handlers, Return(h), UNCHANGED <<list, sidecar, index, blobs>>,
         pc[h] \notin Writing,
         pc[h] \in BlobLabels => blobs \subseteq Referenced
  PROVE  ExactInv'
<1>1. blobMu' = None => blobs' \subseteq Referenced
  BY ReturnPlaced DEF ExactInv
<1> QED
  BY <1>1, ReturnPlaced, ExactApart DEF Writing

LEMMA ExactCreate ==
  ASSUME StoreInv, ExactInv, NEW h \in Handlers, Create(h)
  PROVE  ExactInv'
<1>0. TypeOK /\ pc[h] = "create" /\ Dir(h) \in Dirs
  BY JobType DEF StoreInv, Create
<1>1. /\ list' = IF list[Dir(h)] = None THEN [list EXCEPT ![Dir(h)] = Unlisted] ELSE list
      /\ UNCHANGED <<sidecar, index, blobs>> /\ Return(h)
  BY DEF Create
<1>2. \A d \in Dirs : d # Dir(h) \/ list[d] # None => list'[d] = list[d]
  BY <1>0, <1>1 DEF TypeOK
<1>3. ASSUME NEW d \in Dirs, d = Dir(h) PROVE Settled(d)'
  <2>0. Settled(d)
    BY DEF ExactInv
  <2>1. CASE list[d] # None
    <3>1. list'[d] = list[d]
      BY <1>2, <2>1
    <3>2. ASSUME \A g \in Handlers : pc'[g] \in Writing => Dir(g)' # d
          PROVE  \A g \in Handlers : pc[g] \in Writing => Dir(g) # d
      BY <1>0, <1>1, <3>2, ReturnPlaced DEF Dir, Writing
    <3>3. One(d) => One(d)'
      BY <1>1, <3>1 DEF One
    <3> QED
      BY <2>0, <2>1, <3>1, <3>2, <3>3 DEF Settled
  <2>2. CASE list[d] = None
    <3>1. ASSUME NEW g \in Handlers, pc[g] \in Writing PROVE Dir(g) # d
      <4>1. list[Dir(g)] = want[g] /\ want[g] \in SourceList
        BY <1>0, <3>1 DEF ExactInv, Placed, Writing, BlobLabels, TypeOK
      <4> QED
        BY <2>2, <4>1, NoneAssumption
    <3>2. sidecar[d] = Nothing /\ index[d] = Nothing
      BY <2>0, <2>2, <3>1 DEF Settled
    <3>3. list'[d] = Unlisted /\ Unlisted # None
      BY <1>0, <1>1, <1>3, <2>2, NoneAssumption DEF TypeOK, Unlisted, SourceList, Flags
    <3>4. One(d)'
      BY <1>1, <3>2, <3>3 DEF One, Unlisted, Nothing
    <3> QED
      BY <3>3, <3>4 DEF Settled
  <2> QED
    BY <2>1, <2>2
<1>4. blobMu' = None => blobs' \subseteq Referenced'
  BY <1>0, <1>1, ReturnPlaced DEF ExactInv, Referenced, BlobLabels
<1> QED
  BY <1>0, <1>1, <1>2, <1>3, <1>4, ReturnPlaced, ExactStep DEF Writing

LEMMA ExactList ==
  ASSUME StoreInv, ExactInv, NEW h \in Handlers, WriteList(h), pc'[h] # "idle"
  PROVE  ExactInv'
<1>0. TypeOK /\ pc[h] = "manifest" /\ Dir(h) \in Dirs
  BY JobType DEF StoreInv, WriteList
<1>1. /\ pc'[h] = "wantBlobMu" /\ \A g \in Handlers \ {h} : pc'[g] = pc[g]
      /\ list'[Dir(h)] = want[h] /\ \A d \in Dirs : d # Dir(h) => list'[d] = list[d]
      /\ UNCHANGED <<sidecar, index, blobs, blobMu, job, want, entry, left, refs>>
  BY <1>0 DEF WriteList, Return, Goto, work, locks, TypeOK
<1>2. Dir(h)' = Dir(h)
  BY <1>1 DEF Dir
<1>3. refs[h] = {} /\ left[h] = {} /\ \A s \in Sources : entry[h][s] = None
  <2>1. Digests(entry[h]) \subseteq {}
    BY <1>0 DEF StoreInv, BlobInv, EntriesStored, BlobLabels
  <2>2. \A s \in Sources : entry[h][s] = None
    BY <2>1, DigestsIn
  <2> QED
    BY <1>0, <2>2 DEF ExactInv, Placed, BlobLabels
<1>4. Placed(h)'
  BY <1>1, <1>2, <1>3 DEF Placed, BlobLabels
<1>5. ASSUME NEW d \in Dirs, d = Dir(h) PROVE Settled(d)'
  BY <1>1, <1>2, <1>5 DEF Settled, Writing
<1>6. blobMu' = None => blobs' \subseteq Referenced'
  BY <1>1 DEF ExactInv, Referenced
<1>7. \A g \in Handlers : blobMu' = g => pc'[g] \in BlobLabels
  BY <1>0, <1>1 DEF ExactInv, BlobLabels
<1> QED
  BY <1>0, <1>1, <1>2, <1>4, <1>5, <1>6, <1>7, ExactStep DEF PutLabels

LEMMA ExactTake ==
  ASSUME StoreInv, ExactInv, NEW h \in Handlers, TakeBlobMu(h)
  PROVE  ExactInv'
<1>0. TypeOK /\ pc[h] = "wantBlobMu" /\ Dir(h) \in Dirs
  BY JobType DEF StoreInv, TakeBlobMu
<1>1. /\ pc'[h] = "sources" /\ \A g \in Handlers \ {h} : pc'[g] = pc[g] /\ left'[g] = left[g]
      /\ left'[h] = Listed(want[h]) /\ blobMu' = h
      /\ UNCHANGED <<list, sidecar, index, blobs, job, want, entry, refs>>
  BY <1>0 DEF TakeBlobMu, Goto, files, TypeOK
<1>2. Dir(h)' = Dir(h)
  BY <1>1 DEF Dir
<1>3. Placed(h)
  BY DEF ExactInv
<1>4. Placed(h)'
  BY <1>0, <1>1, <1>2, <1>3 DEF Placed, BlobLabels, Listed, Referenced
<1>5. ASSUME NEW d \in Dirs, d = Dir(h) PROVE Settled(d)'
  BY <1>1, <1>2, <1>5 DEF Settled, Writing
<1>6. blobMu' # None /\ \A g \in Handlers : blobMu' = g => pc'[g] \in BlobLabels
  BY <1>1, NoneAssumption DEF BlobLabels
<1> QED
  BY <1>0, <1>1, <1>2, <1>4, <1>5, <1>6, ExactStep DEF PutLabels

\* Who has the lock of the blobs keeps it, and nobody else collects meanwhile.
LEMMA BlobHolder ==
  ASSUME StoreInv, ExactInv, "rename" \notin Ops, NEW h \in Handlers, pc[h] \in BlobLabels
  PROVE  blobMu = h /\ blobMu # None /\ \A g \in Handlers \ {h} : blobMu # g
BY NoneAssumption DEF StoreInv, LocksHeld

LEMMA ExactSource ==
  ASSUME StoreInv, ExactInv, "rename" \notin Ops, NEW h \in Handlers, WriteSource(h)
  PROVE  ExactInv'
<1>0. TypeOK /\ pc[h] = "sources" /\ Dir(h) \in Dirs /\ pc[h] \in BlobLabels
  BY JobType DEF StoreInv, WriteSource, BlobLabels
<1>1. UNCHANGED <<list, index, blobMu, pc, job, want, refs>>
  BY DEF WriteSource, locks
<1>2. PICK s \in Sources : /\ s \in left[h]
                           /\ left' = [left EXCEPT ![h] = @ \ {s}]
                           /\ IF want[h][s] = "commit" THEN WriteCommitted(h, s) ELSE WritePlain(h, s)
  BY <1>0 DEF WriteSource, TypeOK
<1>3. Placed(h)
  BY DEF ExactInv
<1>4. Dir(h)' = Dir(h)
  BY <1>1 DEF Dir
<1>5. want[h][s] \in {"plain", "commit"}
  <2>1. want[h][s] \in Flags
    BY <1>0 DEF TypeOK, SourceList
  <2> QED
    BY <1>2, <1>3, <2>1 DEF Placed, Flags
<1>6. /\ \A d \in Dirs : d # Dir(h) => sidecar'[d] = sidecar[d]
      /\ \A g \in Handlers \ {h} : entry'[g] = entry[g]
      /\ \A x \in Sources : entry'[h][x] # None => want[h][x] = "plain"
  <2>1. CASE want[h][s] = "commit"
    BY <1>0, <1>2, <1>3, <2>1 DEF WriteCommitted, TypeOK, Placed
  <2>2. CASE want[h][s] # "commit"
    <3>1. \E v : sidecar' = sidecar /\ entry' = [entry EXCEPT ![h] = [@ EXCEPT ![s] = v]]
      BY <1>2, <2>2 DEF WritePlain
    <3>2. entry \in [Handlers -> Resolves]
      BY <1>0 DEF TypeOK
    <3>3. \A x \in Sources \ {s} : entry'[h][x] = entry[h][x]
      BY <3>1, <3>2 DEF Resolves
    <3>4. \A g \in Handlers \ {h} : entry'[g] = entry[g]
      BY <3>1, <3>2
    <3> QED
      BY <1>3, <1>5, <2>2, <3>1, <3>3, <3>4 DEF Placed
  <2> QED
    BY <2>1, <2>2
<1>7. left'[h] \subseteq left[h] /\ \A g \in Handlers \ {h} : left'[g] = left[g]
  BY <1>0, <1>2 DEF TypeOK
<1>8. Placed(h)'
  BY <1>0, <1>1, <1>3, <1>4, <1>6, <1>7 DEF Placed, Referenced
<1>9. ASSUME NEW d \in Dirs, d = Dir(h) PROVE Settled(d)'
  BY <1>0, <1>1, <1>4, <1>9 DEF Settled, Writing
<1>10. blobMu' # None /\ \A g \in Handlers : blobMu' = g => pc'[g] \in BlobLabels
  BY <1>0, <1>1, BlobHolder DEF ExactInv
<1> QED
  BY <1>0, <1>1, <1>4, <1>6, <1>7, <1>8, <1>9, <1>10, ExactStep DEF PutLabels

LEMMA ExactIndex ==
  ASSUME StoreInv, ExactInv, "rename" \notin Ops, NEW h \in Handlers, WriteIndex(h)
  PROVE  ExactInv'
<1>0. TypeOK /\ pc[h] = "index" /\ Dir(h) \in Dirs /\ pc[h] \in BlobLabels
  BY JobType DEF StoreInv, WriteIndex, BlobLabels
<1>1. /\ UNCHANGED <<list, sidecar, blobs, blobMu, job, want, entry, left, refs>>
      /\ pc'[h] = "prune" /\ \A g \in Handlers \ {h} : pc'[g] = pc[g]
      /\ index'[Dir(h)] = entry[h] /\ \A d \in Dirs : d # Dir(h) => index'[d] = index[d]
  BY <1>0 DEF WriteIndex, Goto, locks, work, TypeOK
<1>2. Dir(h)' = Dir(h)
  BY <1>1 DEF Dir
<1>3. Placed(h) /\ refs[h] = {}
  BY <1>0 DEF ExactInv, Placed
<1>4. Placed(h)'
  BY <1>0, <1>1, <1>2, <1>3 DEF Placed, BlobLabels
<1>5. ASSUME NEW d \in Dirs, d = Dir(h) PROVE Settled(d)'
  BY <1>1, <1>2, <1>5 DEF Settled, Writing
<1>6. blobMu' # None /\ \A g \in Handlers : blobMu' = g => pc'[g] \in BlobLabels
  BY <1>0, <1>1, BlobHolder DEF BlobLabels
<1> QED
  BY <1>0, <1>1, <1>2, <1>4, <1>5, <1>6, ExactStep DEF PutLabels

LEMMA ExactPrune ==
  ASSUME StoreInv, ExactInv, "rename" \notin Ops, NEW h \in Handlers, Prune(h)
  PROVE  ExactInv'
<1>0. TypeOK /\ pc[h] = "prune" /\ Dir(h) \in Dirs /\ pc[h] \in BlobLabels
  BY JobType DEF StoreInv, Prune, BlobLabels
<1>1. /\ UNCHANGED <<list, index, blobs, blobMu, job, want, entry, left, refs>>
      /\ pc'[h] = "gc" /\ \A g \in Handlers \ {h} : pc'[g] = pc[g]
      /\ \A d \in Dirs : d # Dir(h) => sidecar'[d] = sidecar[d]
      /\ \A s \in Sources : sidecar'[Dir(h)][s] = IF want[h][s] = "commit" THEN sidecar[Dir(h)][s] ELSE None
  BY <1>0 DEF Prune, Goto, locks, work, TypeOK
<1>2. Dir(h)' = Dir(h)
  BY <1>1 DEF Dir
<1>3. Placed(h)
  BY DEF ExactInv
<1>4. Placed(h)'
  BY <1>0, <1>1, <1>2, <1>3 DEF Placed, BlobLabels, Referenced
<1>5. ASSUME NEW d \in Dirs, d = Dir(h) PROVE Settled(d)'
  <2>1. list'[d] = want[h] /\ want[h] # None
    BY <1>0, <1>1, <1>3, <1>5, NoneAssumption DEF Placed, TypeOK
  <2>2. One(d)'
    BY <1>0, <1>1, <1>3, <1>5, <2>1 DEF One, Placed
  <2> QED
    BY <2>1, <2>2 DEF Settled
<1>6. blobMu' # None /\ \A g \in Handlers : blobMu' = g => pc'[g] \in BlobLabels
  BY <1>0, <1>1, BlobHolder DEF BlobLabels
<1> QED
  BY <1>0, <1>1, <1>2, <1>4, <1>5, <1>6, ExactStep DEF PutLabels

LEMMA ExactWritten ==
  ASSUME StoreInv, ExactInv, "rename" \notin Ops, NEW h \in Handlers, SourcesWritten(h)
  PROVE  ExactInv'
<1>0. TypeOK /\ pc[h] = "sources" /\ Dir(h) \in Dirs /\ pc[h] \in BlobLabels
  BY JobType DEF StoreInv, SourcesWritten, BlobLabels
<1>1. /\ UNCHANGED <<list, sidecar, index, blobs, blobMu, job, want, entry, left, refs>>
      /\ pc'[h] = "index" /\ \A g \in Handlers \ {h} : pc'[g] = pc[g]
  BY <1>0 DEF SourcesWritten, Goto, files, locks, work, TypeOK
<1>2. Dir(h)' = Dir(h)
  BY <1>1 DEF Dir
<1>3. Placed(h)
  BY DEF ExactInv
<1>4. Placed(h)'
  BY <1>0, <1>1, <1>2, <1>3 DEF Placed, BlobLabels, Referenced
<1>5. ASSUME NEW d \in Dirs, d = Dir(h) PROVE Settled(d)'
  BY <1>1, <1>2, <1>5 DEF Settled, Writing
<1>6. blobMu' # None /\ \A g \in Handlers : blobMu' = g => pc'[g] \in BlobLabels
  BY <1>0, <1>1, BlobHolder DEF BlobLabels
<1> QED
  BY <1>0, <1>1, <1>2, <1>4, <1>5, <1>6, ExactStep DEF PutLabels

\* A collector refers to nothing but what the indexes name.
LEMMA ExactCollect ==
  ASSUME StoreInv, ExactInv, "rename" \notin Ops, NEW h \in Handlers,
         GcList(h) \/ GcRead(h) \/ GcScanned(h) \/ GcDelete(h)
  PROVE  ExactInv'
<1>0. TypeOK /\ pc[h] \in {"gc", "gcRead", "gcDelete"} /\ pc[h] \in BlobLabels
  BY DEF StoreInv, GcList, GcRead, GcScanned, GcDelete, BlobLabels
<1>1. /\ UNCHANGED <<list, sidecar, index, blobMu, job, want, entry, left>>
      /\ pc'[h] \in {"gcRead", "gcDelete"} /\ \A g \in Handlers \ {h} : pc'[g] = pc[g]
  BY <1>0 DEF GcList, GcRead, GcScanned, GcDelete, Goto, files, locks, work, TypeOK
<1>2. Dir(h)' = Dir(h) /\ Referenced' = Referenced
  BY <1>1 DEF Dir, Referenced
<1>3. Placed(h)
  BY DEF ExactInv
<1>4. refs'[h] \subseteq Referenced /\ \A g \in Handlers \ {h} : refs'[g] = refs[g]
  <2>1. CASE GcRead(h)
    <3>1. PICK d \in unread[h] :
            refs' = [refs EXCEPT ![h] = @ \cup (IF d \in stateDirs THEN Digests(index[d]) ELSE {})]
      BY <2>1 DEF GcRead
    <3>2. d \in Dirs /\ Digests(index[d]) \subseteq Referenced
      BY <1>0, <3>1, ReferencedBy DEF TypeOK
    <3>3. refs'[h] \subseteq refs[h] \cup Digests(index[d]) /\ \A g \in Handlers \ {h} : refs'[g] = refs[g]
      BY <1>0, <3>1 DEF TypeOK
    <3> QED
      BY <1>3, <3>2, <3>3 DEF Placed
  <2>2. CASE GcList(h) \/ GcScanned(h) \/ GcDelete(h)
    BY <1>3, <2>2 DEF GcList, GcScanned, GcDelete, work, Placed
  <2> QED
    BY <2>1, <2>2
<1>5. Placed(h)'
  BY <1>0, <1>1, <1>2, <1>3, <1>4 DEF Placed, BlobLabels
<1>6. blobMu' # None /\ \A g \in Handlers : blobMu' = g => pc'[g] \in BlobLabels
  BY <1>0, <1>1, BlobHolder DEF BlobLabels
<1> QED
  BY <1>0, <1>1, <1>4, <1>5, <1>6, ExactApart DEF Writing

LEMMA ExactRelease ==
  ASSUME StoreInv, ExactInv, "rename" \notin Ops, NEW h \in Handlers, Release(h)
  PROVE  ExactInv'
<1>1. /\ Return(h) /\ UNCHANGED <<list, sidecar, index, blobs>>
      /\ pc[h] \notin Writing /\ blobs \subseteq refs[h]
  BY DEF Release, files, Writing
<1>2. refs[h] \subseteq Referenced
  BY DEF ExactInv, Placed
<1> QED
  BY <1>1, <1>2, ExactReturn

\* Nothing cuts a write off, and nothing is renamed.
Undisturbed == "rename" \notin Ops /\ "crash" \notin Env /\ "fail" \notin Env

LEMMA ExactNext ==
  ASSUME Undisturbed, StoreInv, ExactInv, [Next]_vars
  PROVE  ExactInv'
<1>1. CASE UNCHANGED vars
  <2>2. \A h \in Handlers : Placed(h)'
    BY <1>1 DEF vars, ExactInv, Placed, Dir, Referenced
  <2>3. ASSUME NEW d \in Dirs PROVE Settled(d)'
    <3>1. Settled(d)
      BY DEF ExactInv
    <3> QED
      BY <1>1, <3>1 DEF vars, Settled, One, Dir
  <2> QED
    BY <1>1, <2>2, <2>3 DEF vars, ExactInv, Referenced
<1>2. ~ Crash
  BY DEF Crash, Undisturbed
<1>3. ASSUME NEW h \in Handlers, Handler(h) PROVE ExactInv'
  <2>0. TypeOK /\ LocksHeld /\ ~ Fail(h) /\ "rename" \notin Ops
    BY DEF StoreInv, Undisturbed, Fail
  <2>1. ~ Rename(h)
    BY <2>0 DEF Rename, MoveDir, ClearState, MoveState, DropHandles, LocksHeld, RenameLabels, MoveLabels
  <2>2. CASE pc'[h] = "idle"
    <3>1. \/ Create(h) \/ Release(h)
          \/ /\ Return(h) /\ UNCHANGED <<list, sidecar, index, blobs>>
             /\ pc[h] \notin Writing \cup BlobLabels
      <4>1. CASE Start(h) \/ Load(h) \/ Resolve(h) \/ ReadIndex(h) \/ CheckBlobs(h) \/ ReadBlobs(h)
        BY <2>0, <2>2, <4>1
           DEF Start, First, Load, AfterLoad, Resolve, ReadIndex, CheckBlobs, ReadBlobs, Goto, TypeOK, files, Writing, BlobLabels
      <4>2. CASE Lock(h) \/ WriteList(h) \/ TakeBlobMu(h) \/ WriteSource(h) \/ SourcesWritten(h) \/ WriteIndex(h)
        BY <2>0, <2>2, <4>2
           DEF Lock, WriteList, TakeBlobMu, WriteSource, SourcesWritten, WriteIndex, Goto, TypeOK, files, Writing, BlobLabels
      <4>3. CASE Prune(h) \/ GcList(h) \/ GcRead(h) \/ GcScanned(h) \/ GcDelete(h)
        BY <2>0, <2>2, <4>3 DEF Prune, GcList, GcRead, GcScanned, GcDelete, Goto, TypeOK
      <4> QED
        BY <1>3, <2>0, <2>1, <4>1, <4>2, <4>3 DEF Handler, Put
    <3> QED
      BY <2>0, <3>1, ExactReturn, ExactCreate, ExactRelease
  <2>3. CASE pc'[h] # "idle"
    BY <1>3, <2>0, <2>1, <2>3, ExactReads, ExactCreate, ExactList, ExactTake, ExactSource, ExactIndex,
       ExactPrune, ExactWritten, ExactCollect, ExactRelease
       DEF Handler, Put
  <2> QED
    BY <2>2, <2>3
<1> QED
  BY <1>1, <1>2, <1>3 DEF Next

\* As long as no write is cut off and nothing is renamed, the blob store holds what the
\* indexes name and no more whenever nobody has its lock, and who gets a
\* collection's lock finds each source in the one place its flag says (gcBlobs,
\* PutDescriptorState).  A write that is cut off leaves the rest for the next one.
THEOREM StoreExact ==
  ASSUME Undisturbed
  PROVE  Spec => []BlobsExact
<1>1. Init => StoreInv /\ ExactInv
  BY StoreStarts, ExactInit
<1>2. StoreInv /\ ExactInv /\ [Next]_vars => StoreInv' /\ ExactInv'
  BY StoreNext, ExactNext DEF Undisturbed, RenamesAlone
<1>3. StoreInv /\ ExactInv => BlobsExact
  BY ExactOnePlace DEF Undisturbed
<1> QED
  BY <1>1, <1>2, <1>3, PTL DEF Spec


=============================================================================
