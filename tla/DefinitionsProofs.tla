-------------------------- MODULE DefinitionsProofs --------------------------
(***************************************************************************)
(* What the memo of the definitions promises, for any number of handlers,  *)
(* collections and sources and any size of the memo: its entries are never *)
(* older than the last write that has ended, no call is served less than   *)
(* what was announced when it began, and the sources of what is served     *)
(* keep their priority.                                                    *)
(*                                                                         *)
(* The argument is about the derivations under way.  One whose epoch is    *)
(* still current has read a list at least as new as the last finished      *)
(* write, because every write that ends moves the epoch (InFlight); only   *)
(* such a one is stored.  A call has seen every list that was on the disk  *)
(* since it began, so what it reads or matches is one of them (CallInv).   *)
(***************************************************************************)
EXTENDS Definitions, FiniteSetTheorems, WellFoundedInduction, TLAPS

\* The shape of the state, as far as the argument needs it.
IsView(v) == v = [list |-> v.list, res |-> v.res, at |-> v.at] /\ v.at \in Nat

ShapeInv ==
  /\ disk = [k \in Ids |-> disk[k]]
  /\ \A k \in Ids : disk[k] # None => IsView(disk[k])
  /\ entries = [k \in Ids |-> entries[k]]
  /\ \A k \in Ids : entries[k] # None => IsView(entries[k])
  /\ epochs \in [Ids -> Nat]
  /\ pc \in [Handlers -> Labels]
  /\ job \in [Handlers -> [op : Ops, id : Ids, to : Ids]]
  /\ epoch \in [Handlers -> Nat]
  /\ derived = [h \in Handlers |-> derived[h]]
  /\ \A h \in Handlers : IsView(derived[h])
  /\ clock \in Nat
  /\ done \in [Ids -> Nat]

\* The disk is at least as new as what was last announced.
DiskInv ==
  \A k \in Ids : /\ done[k] <= clock
                 /\ disk[k] # None => done[k] <= disk[k].at /\ disk[k].at <= clock

\* An epoch that was read is not ahead, and as long as it is current what was
\* read after it is new enough.
InFlight ==
  \A h \in Handlers :
    /\ pc[h] \in {"sources", "resolves", "store"} => epoch[h] <= epochs[At(h)]
    /\ pc[h] \in {"resolves", "store"} /\ Current(h, At(h)) => derived[h].at >= done[At(h)]

FreshInv == ShapeInv /\ DiskInv /\ InFlight /\ MemoFresh

LEMMA FreshInit == Init => FreshInv
<1> SUFFICES ASSUME Init PROVE FreshInv
  OBVIOUS
<1>1. Home \in Ids
  BY StartAssumption DEF Home
<1>2. \A k \in Ids : disk[k] # None => IsView(disk[k])
  BY StartAssumption DEF Init, IsView, View
<1>3. IsView(Empty)
  BY DEF IsView, Empty
<1>4. ShapeInv
  BY <1>1, <1>2, <1>3, StartAssumption DEF Init, ShapeInv, Labels, Ops
<1>5. DiskInv
  BY StartAssumption DEF Init, DiskInv, View
<1> QED
  BY <1>4, <1>5 DEF Init, FreshInv, InFlight, MemoFresh

\* What is the same for all handlers but one.
Apart(h) == /\ \E l \in Labels : pc' = [pc EXCEPT ![h] = l]
            /\ epoch' \in [Handlers -> Nat]
            /\ \A x \in Handlers : x # h => epoch'[x] = epoch[x]
            /\ derived' = [x \in Handlers |-> derived'[x]]
            /\ IsView(derived'[h])
            /\ \A x \in Handlers : x # h => derived'[x] = derived[x]
            /\ job' \in [Handlers -> [op : Ops, id : Ids, to : Ids]]
            /\ \A x \in Handlers : x # h => job'[x].to = job[x].to

LEMMA ViewShape == IsView(Empty)
  BY DEF IsView, Empty

\* A call that ends has nothing left over.
LEMMA EndApart ==
  ASSUME ShapeInv, NEW h \in Handlers, NEW v, End(h, v), UNCHANGED job
  PROVE  Apart(h) /\ pc'[h] = "idle"
<1>1. pc' = [pc EXCEPT ![h] = "idle"] /\ "idle" \in Labels
  BY DEF End, Answer, Goto, Labels
<1>2. epoch' = [epoch EXCEPT ![h] = 0] /\ derived' = [derived EXCEPT ![h] = Empty]
  BY DEF End, Clear
<1>3. derived'[h] = Empty /\ derived' = [x \in Handlers |-> derived'[x]]
  BY <1>2 DEF ShapeInv
<1>4. \A x \in Handlers : x # h => derived'[x] = derived[x]
  BY <1>2 DEF ShapeInv
<1> QED
  BY <1>1, <1>2, <1>3, <1>4, ViewShape DEF Apart, ShapeInv

LEMMA GotoApart ==
  ASSUME ShapeInv, NEW h \in Handlers, NEW l \in Labels, Goto(h, l), UNCHANGED <<epoch, derived>>,
         job' \in [Handlers -> [op : Ops, id : Ids, to : Ids]],
         \A x \in Handlers : x # h => job'[x].to = job[x].to
  PROVE  Apart(h) /\ pc'[h] = l
  BY DEF Apart, Goto, ShapeInv

\* A handler that goes on to no derivation disturbs none.
LEMMA Undisturbed ==
  ASSUME FreshInv, UNCHANGED <<epochs, done>>, NEW h \in Handlers, Apart(h),
         pc'[h] \notin {"sources", "resolves", "store"}
  PROVE  InFlight'
<1> SUFFICES ASSUME NEW x \in Handlers, pc'[x] \in {"sources", "resolves", "store"}
             PROVE  /\ epoch'[x] <= epochs[job'[x].to]
                    /\ pc'[x] \in {"resolves", "store"} /\ epochs[job'[x].to] = epoch'[x]
                         => derived'[x].at >= done[job'[x].to]
  BY DEF InFlight, At, Current
<1>1. x # h
  OBVIOUS
<1>2. pc'[x] = pc[x] /\ epoch'[x] = epoch[x] /\ derived'[x] = derived[x] /\ job'[x].to = job[x].to
  BY <1>1 DEF Apart, FreshInv, ShapeInv
<1> QED
  BY <1>2 DEF FreshInv, InFlight, At, Current

\* A handler that neither changes the memo nor the disk, and does not go on to a
\* derivation, disturbs nobody.
LEMMA Quiet ==
  ASSUME FreshInv, NEW h \in Handlers, Apart(h),
         pc'[h] \notin {"sources", "resolves", "store"},
         UNCHANGED <<disk, entries, epochs, clock, done>>
  PROVE  FreshInv'
<1>1. ShapeInv'
  <2>1. \A x \in Handlers : IsView(derived'[x])
    BY DEF Apart, FreshInv, ShapeInv
  <2> QED
    BY <2>1 DEF Apart, FreshInv, ShapeInv
<1>2. DiskInv' /\ MemoFresh'
  BY DEF FreshInv, DiskInv, MemoFresh
<1>3. InFlight'
  BY Undisturbed
<1> QED
  BY <1>1, <1>2, <1>3 DEF FreshInv

\* An invalidation: what is in flight for this id has a stale epoch from now on,
\* so the disk as it is may be counted as announced.
LEMMA Invalidates ==
  ASSUME FreshInv, NEW h \in Handlers, NEW k \in Ids, Apart(h), Invalidate(k),
         pc'[h] \notin {"sources", "resolves", "store"},
         UNCHANGED <<disk, clock>>,
         done' \in [Ids -> Nat], done'[k] <= clock, disk[k] # None => done'[k] <= disk[k].at,
         \A x \in Ids : x # k => done'[x] = done[x]
  PROVE  FreshInv'
<1>1. entries' = [entries EXCEPT ![k] = None] /\ epochs' = [epochs EXCEPT ![k] = @ + 1]
  BY DEF Invalidate
<1>2. ShapeInv'
  <2>1. \A x \in Handlers : IsView(derived'[x])
    BY DEF Apart, FreshInv, ShapeInv
  <2>2. /\ entries' = [x \in Ids |-> entries'[x]]
        /\ \A x \in Ids : entries'[x] # None => IsView(entries'[x])
    BY <1>1 DEF FreshInv, ShapeInv
  <2>3. epochs' \in [Ids -> Nat]
    BY <1>1 DEF FreshInv, ShapeInv
  <2>4. /\ pc' \in [Handlers -> Labels] /\ epoch' \in [Handlers -> Nat]
        /\ derived' = [x \in Handlers |-> derived'[x]]
        /\ job' \in [Handlers -> [op : Ops, id : Ids, to : Ids]]
    BY DEF Apart, FreshInv, ShapeInv
  <2> QED
    BY <2>1, <2>2, <2>3, <2>4 DEF FreshInv, ShapeInv
<1>3. DiskInv'
  <2> SUFFICES ASSUME NEW x \in Ids
               PROVE  done'[x] <= clock /\ (disk[x] # None => done'[x] <= disk[x].at /\ disk[x].at <= clock)
    BY DEF DiskInv
  <2>1. disk[x] # None => disk[x].at <= clock
    BY DEF FreshInv, DiskInv
  <2>2. CASE x = k
    BY <2>1, <2>2
  <2>3. CASE x # k
    BY <2>3 DEF FreshInv, DiskInv
  <2> QED
    BY <2>2, <2>3
<1>4. MemoFresh'
  BY <1>1 DEF FreshInv, ShapeInv, MemoFresh
<1>5. InFlight'
  <2> SUFFICES ASSUME NEW x \in Handlers, pc'[x] \in {"sources", "resolves", "store"}
               PROVE  /\ epoch'[x] <= epochs'[job'[x].to]
                      /\ pc'[x] \in {"resolves", "store"} /\ epochs'[job'[x].to] = epoch'[x]
                           => derived'[x].at >= done'[job'[x].to]
    BY DEF InFlight, At, Current
  <2>1. x # h
    OBVIOUS
  <2>2. pc'[x] = pc[x] /\ epoch'[x] = epoch[x] /\ derived'[x] = derived[x] /\ job'[x].to = job[x].to
    BY <2>1 DEF Apart, FreshInv, ShapeInv
  <2>3. epoch[x] \in Nat /\ job[x].to \in Ids /\ epochs[job[x].to] \in Nat
    BY DEF FreshInv, ShapeInv
  <2>4. epoch[x] <= epochs[job[x].to]
    BY <2>2 DEF FreshInv, InFlight, At
  <2>5. CASE job[x].to = k
    \* The epoch has moved past what x read.
    <3>1. epochs'[k] = epochs[k] + 1
      BY <1>1 DEF FreshInv, ShapeInv
    <3> QED
      BY <2>2, <2>3, <2>4, <2>5, <3>1
  <2>6. CASE job[x].to # k
    <3>1. epochs'[job[x].to] = epochs[job[x].to] /\ done'[job[x].to] = done[job[x].to]
      BY <1>1, <2>3, <2>6 DEF FreshInv, ShapeInv
    <3> QED
      BY <2>2, <2>4, <3>1 DEF FreshInv, InFlight, At, Current
  <2> QED
    BY <2>5, <2>6
<1> QED
  BY <1>2, <1>3, <1>4, <1>5 DEF FreshInv

\* A change of the disk announces nothing and is newer than all that was.
KeptOrNew(k) == \/ disk'[k] = disk[k]
                \/ disk'[k] = None
                \/ IsView(disk'[k]) /\ disk'[k].at = clock'

LEMMA DiskChange ==
  ASSUME FreshInv,
         UNCHANGED <<entries, epochs, done>>, clock' = clock + 1,
         disk' = [k \in Ids |-> disk'[k]],
         \A k \in Ids : KeptOrNew(k)
  PROVE  /\ DiskInv' /\ MemoFresh'
         /\ \A k \in Ids : disk'[k] # None => IsView(disk'[k])
<1>1. \A k \in Ids : disk'[k] # None => IsView(disk'[k])
  BY DEF FreshInv, ShapeInv, KeptOrNew
<1>2. DiskInv'
  <2> SUFFICES ASSUME NEW k \in Ids
               PROVE  done[k] <= clock' /\ (disk'[k] # None => done[k] <= disk'[k].at /\ disk'[k].at <= clock')
    BY DEF DiskInv
  <2>1. done[k] \in Nat /\ clock \in Nat /\ done[k] <= clock
    BY DEF FreshInv, ShapeInv, DiskInv
  <2>2. CASE disk'[k] = disk[k]
    <3>1. disk[k] # None => disk[k].at \in Nat /\ done[k] <= disk[k].at /\ disk[k].at <= clock
      BY DEF FreshInv, ShapeInv, DiskInv, IsView
    <3> QED
      BY <2>1, <2>2, <3>1
  <2> QED
    BY <2>1, <2>2 DEF KeptOrNew
<1>3. MemoFresh'
  BY DEF FreshInv, MemoFresh
<1> QED
  BY <1>1, <1>2, <1>3

LEMMA InitialJobs ==
  ASSUME ShapeInv, NEW h \in Handlers, NEW j \in [op : Ops, id : Ids, to : Ids],
         job' = [job EXCEPT ![h] = j]
  PROVE  /\ job' \in [Handlers -> [op : Ops, id : Ids, to : Ids]]
         /\ \A x \in Handlers : x # h => job'[x].to = job[x].to
  BY DEF ShapeInv

\* The steps of a call that change neither the memo nor the disk.
LEMMA QuietSteps ==
  ASSUME FreshInv, NEW h \in Handlers, Begin(h) \/ Load(h) \/ Digest(h) \/ Lookup(h)
  PROVE  FreshInv'
<1>0. ShapeInv
  BY DEF FreshInv
<1>1. CASE Begin(h)
  <2>1. PICK j \in [op : Ops, id : Ids, to : Ids] : job' = [job EXCEPT ![h] = j] /\ Goto(h, First[j.op])
    BY <1>1 DEF Begin
  <2>2. First[j.op] \in Labels \ {"sources", "resolves", "store"}
    BY DEF First, Ops, Labels
  <2>3. UNCHANGED <<epoch, derived>>
    BY <1>1 DEF Begin, local
  <2>4. Apart(h) /\ pc'[h] = First[j.op]
    BY <1>0, <2>1, <2>2, <2>3, InitialJobs, GotoApart
  <2> QED
    BY <1>1, <2>2, <2>4, Quiet DEF Begin, memo, history
<1>2. CASE Load(h)
  <2>1. UNCHANGED <<disk, entries, epochs, clock, done, job>>
    BY <1>2 DEF Load, memo, history
  <2>2. CASE Fail(h)
    BY <1>0, <2>1, <2>2, EndApart, Quiet DEF Fail
  <2>3. CASE ~Fail(h)
    <3>1. \E l \in {"put", "digest"} : Goto(h, l) /\ UNCHANGED <<epoch, derived>>
      BY <1>2, <2>3 DEF Load
    <3>2. PICK l \in {"put", "digest"} : Goto(h, l) /\ UNCHANGED <<epoch, derived>>
      BY <3>1
    <3>3. Apart(h) /\ pc'[h] = l
      BY <1>0, <2>1, <3>2, GotoApart DEF Labels, ShapeInv
    <3> QED
      BY <2>1, <3>3, Quiet
  <2> QED
    BY <2>2, <2>3
<1>3. CASE Digest(h)
  <2>1. UNCHANGED <<disk, entries, epochs, clock, done, job>>
    BY <1>3 DEF Digest, history
  <2>2. End(h, entries[At(h)]) \/ \E l \in {"drop", "epoch"} : Goto(h, l) /\ UNCHANGED <<epoch, derived>>
    BY <1>3 DEF Digest, local
  <2>3. Apart(h) /\ pc'[h] \in {"idle", "drop", "epoch"}
    BY <1>0, <2>1, <2>2, EndApart, GotoApart DEF Labels, ShapeInv
  <2> QED
    BY <2>1, <2>3, Quiet
<1>4. CASE Lookup(h)
  <2>1. UNCHANGED <<disk, entries, epochs, clock, done, job>>
    BY <1>4 DEF Lookup, history
  <2>2. End(h, entries[At(h)]) \/ (Goto(h, "epoch") /\ UNCHANGED <<epoch, derived>>)
    <3>1. Hit(At(h)) => End(h, entries[At(h)])
      BY <1>4 DEF Lookup
    <3>2. ~Hit(At(h)) => Goto(h, "epoch") /\ UNCHANGED <<epoch, derived>>
      BY <1>4 DEF Lookup, local
    <3> QED
      BY <3>1, <3>2
  <2>3. Apart(h) /\ pc'[h] \in {"idle", "epoch"}
    BY <1>0, <2>1, <2>2, EndApart, GotoApart DEF Labels, ShapeInv
  <2> QED
    BY <2>1, <2>3, Quiet
<1> QED
  BY <1>1, <1>2, <1>3, <1>4

\* The steps that invalidate.
LEMMA InvalidatingSteps ==
  ASSUME FreshInv, NEW h \in Handlers, Drop(h) \/ WriteDone(h) \/ Forget(h)
  PROVE  FreshInv'
<1>0. ShapeInv /\ job[h].to \in Ids /\ job[h].id \in Ids
  BY DEF FreshInv, ShapeInv
<1>1. \A k \in Ids : done[k] \in Nat /\ done[k] <= clock /\ (disk[k] # None => done[k] <= disk[k].at)
  BY DEF FreshInv, ShapeInv, DiskInv
<1>2. CASE Drop(h)
  <2>1. Apart(h) /\ pc'[h] = "epoch"
    BY <1>0, <1>2, GotoApart DEF Drop, local, Labels, ShapeInv
  <2>2. UNCHANGED <<disk, clock, done>> /\ Invalidate(job[h].to)
    BY <1>2 DEF Drop, history, At
  <2> QED
    BY <1>0, <1>1, <2>1, <2>2, Invalidates DEF ShapeInv
<1>3. CASE WriteDone(h)
  <2> DEFINE k == job[h].to
             d == IF disk[k] = None THEN done[k] ELSE disk[k].at
  <2>1. job' = [job EXCEPT ![h] = [@ EXCEPT !.op = "load"]] /\ "load" \in Ops
    BY <1>3 DEF WriteDone, Ops
  <2>2. job' \in [Handlers -> [op : Ops, id : Ids, to : Ids]] /\ \A x \in Handlers : x # h => job'[x].to = job[x].to
    BY <2>1 DEF FreshInv, ShapeInv
  <2>3. Apart(h) /\ pc'[h] = "load"
    BY <1>0, <1>3, <2>2, GotoApart DEF WriteDone, local, Labels
  <2>4. UNCHANGED <<disk, clock>> /\ Invalidate(k) /\ done' = [done EXCEPT ![k] = d]
    BY <1>3 DEF WriteDone, At
  <2>5. d \in Nat /\ d <= clock /\ (disk[k] # None => d <= disk[k].at)
    BY <1>0, <1>1 DEF FreshInv, ShapeInv, DiskInv, IsView
  <2> HIDE DEF d
  <2>6. done' \in [Ids -> Nat] /\ done'[k] = d /\ \A x \in Ids : x # k => done'[x] = done[x]
    BY <1>0, <2>4, <2>5 DEF ShapeInv
  <2> QED
    BY <1>0, <2>3, <2>4, <2>5, <2>6, Invalidates
<1>4. CASE Forget(h)
  <2>1. Apart(h) /\ pc'[h] = "move"
    BY <1>0, <1>4, GotoApart DEF Forget, local, Labels, ShapeInv
  <2>2. UNCHANGED <<disk, clock, done>> /\ Invalidate(job[h].id)
    BY <1>4 DEF Forget, history
  <2> QED
    BY <1>0, <1>1, <2>1, <2>2, Invalidates DEF ShapeInv
<1> QED
  BY <1>2, <1>3, <1>4

LEMMA ReadEpochStep ==
  ASSUME FreshInv, NEW h \in Handlers, ReadEpoch(h)
  PROVE  FreshInv'
<1>0. ShapeInv /\ job[h].to \in Ids
  BY DEF FreshInv, ShapeInv
<1>1. /\ UNCHANGED <<disk, entries, epochs, clock, done, job, derived>>
      /\ pc' = [pc EXCEPT ![h] = "sources"]
      /\ epoch' = [epoch EXCEPT ![h] = epochs[job[h].to]]
  BY DEF ReadEpoch, Goto, memo, history, At
<1>2. ShapeInv'
  BY <1>0, <1>1 DEF ShapeInv, Labels
<1>3. DiskInv' /\ MemoFresh'
  BY <1>1 DEF FreshInv, DiskInv, MemoFresh
<1>4. InFlight'
  BY <1>0, <1>1 DEF FreshInv, ShapeInv, InFlight, At, Current
<1> QED
  BY <1>2, <1>3, <1>4 DEF FreshInv

\* What is read now is as new as what was announced by now.
LEMMA ReadSourcesStep ==
  ASSUME FreshInv, NEW h \in Handlers, ReadSources(h)
  PROVE  FreshInv'
<1>0. ShapeInv /\ job[h].to \in Ids
  BY DEF FreshInv, ShapeInv
<1>1. UNCHANGED <<disk, entries, epochs, clock, done, job>>
  BY DEF ReadSources, memo, history
<1>2. CASE disk[At(h)] = None
  <2>1. End(h, None)
    BY <1>2 DEF ReadSources, Fail
  <2> QED
    BY <1>0, <1>1, <2>1, EndApart, Quiet
<1>3. CASE disk[At(h)] # None
  <2> DEFINE v == [disk[job[h].to] EXCEPT !.res = Empty.res]
  <2>1. /\ derived' = [derived EXCEPT ![h] = v]
        /\ pc' = [pc EXCEPT ![h] = "resolves"]
        /\ UNCHANGED epoch
    BY <1>3 DEF ReadSources, Goto, At
  <2>2. IsView(disk[job[h].to])
    BY <1>0, <1>3 DEF ShapeInv, At
  <2>3. IsView(v) /\ v.at = disk[job[h].to].at
    BY <2>2 DEF IsView
  <2>4. v.at >= done[job[h].to]
    BY <1>0, <1>3, <2>2, <2>3 DEF FreshInv, ShapeInv, DiskInv, IsView, At
  <2> HIDE DEF v
  <2>5. ShapeInv'
    BY <1>0, <1>1, <2>1, <2>3 DEF ShapeInv, Labels
  <2>6. DiskInv' /\ MemoFresh'
    BY <1>1 DEF FreshInv, DiskInv, MemoFresh
  <2>7. InFlight'
    <3> SUFFICES ASSUME NEW x \in Handlers, pc'[x] \in {"sources", "resolves", "store"}
                 PROVE  /\ epoch[x] <= epochs[job[x].to]
                        /\ pc'[x] \in {"resolves", "store"} /\ epochs[job[x].to] = epoch[x]
                             => derived'[x].at >= done[job[x].to]
      BY <1>1, <2>1 DEF InFlight, At, Current
    <3>1. CASE x = h
      <4>1. pc[h] = "sources" /\ derived'[h] = v
        BY <1>0, <2>1 DEF ReadSources, ShapeInv
      <4> QED
        BY <2>4, <3>1, <4>1 DEF FreshInv, InFlight, At
    <3>2. CASE x # h
      <4>1. pc'[x] = pc[x] /\ derived'[x] = derived[x]
        BY <1>0, <2>1, <3>2 DEF ShapeInv
      <4> QED
        BY <4>1 DEF FreshInv, InFlight, At, Current
    <3> QED
      BY <3>1, <3>2
  <2> QED
    BY <2>5, <2>6, <2>7 DEF FreshInv
<1> QED
  BY <1>2, <1>3

LEMMA ReadResolvesStep ==
  ASSUME FreshInv, NEW h \in Handlers, ReadResolves(h)
  PROVE  FreshInv'
<1>0. ShapeInv
  BY DEF FreshInv
<1>1. UNCHANGED <<disk, entries, epochs, clock, done, job, epoch>> /\ pc[h] = "resolves"
  BY DEF ReadResolves, memo, history
<1>2. PICK r : derived' = [derived EXCEPT ![h] = [@ EXCEPT !.res = r]]
  BY DEF ReadResolves
<1>3. pc' = [pc EXCEPT ![h] = "store"]
  BY DEF ReadResolves, Goto
<1>4. IsView(derived'[h]) /\ derived'[h].at = derived[h].at
  BY <1>0, <1>2 DEF ShapeInv, IsView
<1>5. \A x \in Handlers : derived'[x].at = derived[x].at /\ IsView(derived'[x])
  BY <1>0, <1>2, <1>4 DEF ShapeInv
<1>6. ShapeInv'
  BY <1>0, <1>1, <1>2, <1>3, <1>5 DEF ShapeInv, Labels
<1>7. DiskInv' /\ MemoFresh'
  BY <1>1 DEF FreshInv, DiskInv, MemoFresh
<1>8. InFlight'
  BY <1>0, <1>1, <1>3, <1>5 DEF FreshInv, InFlight, ShapeInv, At, Current
<1> QED
  BY <1>6, <1>7, <1>8 DEF FreshInv

\* Only a derivation with the current epoch is stored.
LEMMA StoreStep ==
  ASSUME FreshInv, NEW h \in Handlers, StoreDerived(h)
  PROVE  FreshInv'
<1>0. ShapeInv
  BY DEF FreshInv
<1>1. UNCHANGED <<disk, epochs, clock, done, job>> /\ pc[h] = "store" /\ End(h, derived[h])
  BY DEF StoreDerived, history
<1>2. Apart(h) /\ pc'[h] = "idle"
  BY <1>0, <1>1, EndApart
<1>3. /\ entries' = [x \in Ids |-> entries'[x]]
      /\ \A x \in Ids : \/ entries'[x] = entries[x] \/ entries'[x] = None
                        \/ x = At(h) /\ epochs[x] = epoch[h] /\ entries'[x] = derived[h]
  <2>1. CASE Current(h, At(h))
    <3> DEFINE q == Touch(recent, At(h))
    <3>1. entries' = [x \in Ids |-> IF Len(q) > Size /\ x = Head(q) THEN None
                                    ELSE IF x = At(h) THEN derived[h] ELSE entries[x]]
      BY <2>1 DEF StoreDerived, Store
    <3> HIDE DEF q
    <3> QED
      BY <2>1, <3>1 DEF Current
  <2>2. CASE ~Current(h, At(h))
    BY <1>0, <2>2 DEF StoreDerived, ShapeInv
  <2> QED
    BY <2>1, <2>2
<1>4. epochs[At(h)] = epoch[h] => derived[h].at >= done[At(h)]
  BY <1>1 DEF FreshInv, InFlight, Current
<1>5. MemoFresh'
  BY <1>1, <1>3, <1>4 DEF FreshInv, MemoFresh
<1>6. ShapeInv'
  <2>1. \A x \in Handlers : IsView(derived'[x])
    BY <1>0, <1>2 DEF Apart, ShapeInv
  <2>2. \A x \in Ids : entries'[x] # None => IsView(entries'[x])
    BY <1>0, <1>3 DEF ShapeInv
  <2> QED
    BY <1>0, <1>1, <1>2, <1>3, <2>1, <2>2 DEF Apart, ShapeInv
<1>7. DiskInv'
  BY <1>1 DEF FreshInv, DiskInv
<1>8. InFlight'
  BY <1>1, <1>2, Undisturbed
<1> QED
  BY <1>5, <1>6, <1>7, <1>8 DEF FreshInv

\* A write of the list, or the arrival of a moved collection.
LEMMA DiskSteps ==
  ASSUME FreshInv, NEW h \in Handlers, Put(h) \/ Move(h)
  PROVE  FreshInv'
<1>0. ShapeInv /\ job[h].to \in Ids /\ job[h].id \in Ids
  BY DEF FreshInv, ShapeInv
<1>1. UNCHANGED <<entries, epochs, done, job>>
  BY DEF Put, Move, memo, history
<1>2. End(h, None) \/ \E l \in {"invalidate", "load"} : Goto(h, l) /\ UNCHANGED <<epoch, derived>>
  BY DEF Put, Move, Fail, local
<1>3. Apart(h) /\ pc'[h] \in {"idle", "invalidate", "load"}
  BY <1>0, <1>1, <1>2, EndApart, GotoApart DEF Labels, ShapeInv
<1>4. InFlight'
  BY <1>1, <1>3, Undisturbed
<1>5. \/ UNCHANGED <<disk, clock>>
      \/ /\ clock' = clock + 1
         /\ disk' = [k \in Ids |-> disk'[k]]
         /\ \A k \in Ids : KeptOrNew(k)
  <2>1. CASE Put(h)
    <3>1. \/ UNCHANGED <<disk, clock>>
          \/ /\ clock' = clock + 1
             /\ \E l, r : disk' = [disk EXCEPT ![At(h)] = [list |-> l, res |-> r, at |-> clock + 1]]
      BY <2>1 DEF Put
    <3>2. CASE UNCHANGED <<disk, clock>>
      BY <3>2
    <3>3. CASE ~UNCHANGED <<disk, clock>>
      <4>1. PICK l, r : disk' = [disk EXCEPT ![job[h].to] = [list |-> l, res |-> r, at |-> clock + 1]]
        BY <3>1, <3>3 DEF At
      <4> DEFINE v == [list |-> l, res |-> r, at |-> clock + 1]
      <4>2. clock' = clock + 1
        BY <3>1, <3>3
      <4>3. IsView(v) /\ v.at = clock'
        BY <1>0, <4>2 DEF IsView, ShapeInv
      <4>4. disk' = [disk EXCEPT ![job[h].to] = v]
        BY <4>1
      <4> HIDE DEF v
      <4> QED
        BY <1>0, <4>2, <4>3, <4>4 DEF ShapeInv, KeptOrNew
    <3> QED
      BY <3>2, <3>3
  <2>2. CASE Move(h)
    <3> DEFINE old == job[h].id
               new == job[h].to
               v == [disk[old] EXCEPT !.at = clock + 1]
    <3>1. CASE disk[old] = None \/ disk[new] # None
      BY <2>2, <3>1 DEF Move
    <3>2. CASE ~(disk[old] = None \/ disk[new] # None)
      <4>1. clock' = clock + 1 /\ disk' = [disk EXCEPT ![old] = None, ![new] = v]
        BY <2>2, <3>2 DEF Move
      <4>2. IsView(disk[old])
        BY <1>0, <3>2 DEF ShapeInv
      <4>3. clock + 1 \in Nat
        BY <1>0 DEF ShapeInv
      <4>4. v = [list |-> disk[old].list, res |-> disk[old].res, at |-> clock + 1]
        BY <4>2 DEF IsView
      <4>5. IsView(v) /\ v.at = clock'
        BY <4>1, <4>3, <4>4 DEF IsView
      <4> HIDE DEF v
      <4>6. \A x \in Ids : disk'[x] = disk[x] \/ disk'[x] = None \/ disk'[x] = v
        BY <1>0, <4>1 DEF ShapeInv
      <4>7. disk' = [x \in Ids |-> disk'[x]]
        BY <1>0, <4>1 DEF ShapeInv
      <4> QED
        BY <4>1, <4>5, <4>6, <4>7 DEF KeptOrNew
    <3> QED
      BY <3>1, <3>2
  <2> QED
    BY <2>1, <2>2
<1>6. ShapeInv' /\ DiskInv' /\ MemoFresh'
  <2>1. CASE UNCHANGED <<disk, clock>>
    <3>1. \A x \in Handlers : IsView(derived'[x])
      BY <1>0, <1>3 DEF Apart, ShapeInv
    <3>2. ShapeInv'
      BY <1>0, <1>1, <1>3, <2>1, <3>1 DEF Apart, ShapeInv
    <3>3. DiskInv' /\ MemoFresh'
      BY <1>1, <2>1 DEF FreshInv, DiskInv, MemoFresh
    <3> QED
      BY <3>2, <3>3
  <2>2. CASE ~UNCHANGED <<disk, clock>>
    <3>1. /\ DiskInv' /\ MemoFresh'
          /\ \A k \in Ids : disk'[k] # None => IsView(disk'[k])
      BY <1>1, <1>5, <2>2, DiskChange
    <3>2. \A x \in Handlers : IsView(derived'[x])
      BY <1>0, <1>3 DEF Apart, ShapeInv
    <3>3. clock' \in Nat /\ disk' = [x \in Ids |-> disk'[x]]
      BY <1>0, <1>5, <2>2 DEF ShapeInv
    <3>4. /\ pc' \in [Handlers -> Labels] /\ epoch' \in [Handlers -> Nat]
          /\ derived' = [x \in Handlers |-> derived'[x]]
          /\ job' \in [Handlers -> [op : Ops, id : Ids, to : Ids]]
      BY <1>0, <1>3 DEF Apart, ShapeInv
    <3> QED
      BY <1>0, <1>1, <3>1, <3>2, <3>3, <3>4 DEF ShapeInv
  <2> QED
    BY <2>1, <2>2
<1> QED
  BY <1>4, <1>6 DEF FreshInv

LEMMA EditStep ==
  ASSUME FreshInv, NEW k \in Ids, Edit(k)
  PROVE  FreshInv'
<1>0. ShapeInv
  BY DEF FreshInv
<1>1. UNCHANGED <<entries, epochs, done, job, pc, epoch, derived>> /\ clock' = clock + 1 /\ disk[k] # None
  BY DEF Edit, memo, local, history
<1>2. PICK l : disk' = [disk EXCEPT ![k] = [@ EXCEPT !.list = l, !.at = clock + 1]]
  BY DEF Edit
<1>3. /\ disk' = [x \in Ids |-> disk'[x]]
      /\ \A x \in Ids : x # k => disk'[x] = disk[x]
      /\ IsView(disk'[k]) /\ disk'[k].at = clock'
  <2> DEFINE v == [disk[k] EXCEPT !.list = l, !.at = clock + 1]
  <2>1. IsView(disk[k]) /\ clock + 1 \in Nat
    BY <1>0, <1>1 DEF ShapeInv
  <2> DEFINE w == [disk[k] EXCEPT !.list = l]
  <2>5. w = [list |-> l, res |-> disk[k].res, at |-> disk[k].at]
    BY <2>1 DEF IsView
  <2>6. v = [w EXCEPT !.at = clock + 1]
    OBVIOUS
  <2>7. [w EXCEPT !.at = clock + 1] = [list |-> l, res |-> disk[k].res, at |-> clock + 1]
    <3> HIDE DEF w
    <3> QED
      BY <2>5
  <2>3. v = [list |-> l, res |-> disk[k].res, at |-> clock + 1]
    BY <2>6, <2>7
  <2>4. IsView(v) /\ v.at = clock + 1
    BY <2>1, <2>3 DEF IsView
  <2>2. disk' = [disk EXCEPT ![k] = v]
    BY <1>0, <1>2
  <2> HIDE DEF v
  <2> QED
    BY <1>0, <1>1, <2>2, <2>4 DEF ShapeInv
<1>4. DiskInv' /\ MemoFresh' /\ \A x \in Ids : disk'[x] # None => IsView(disk'[x])
  BY <1>1, <1>3, DiskChange DEF KeptOrNew
<1>5. ShapeInv'
  BY <1>0, <1>1, <1>3, <1>4 DEF ShapeInv
<1>6. InFlight'
  BY <1>1 DEF FreshInv, InFlight, At, Current
<1> QED
  BY <1>4, <1>5, <1>6 DEF FreshInv

\* Every step keeps the freshness of the memo.
LEMMA FreshStep ==
  ASSUME FreshInv, [Next]_vars
  PROVE  FreshInv'
<1>1. ASSUME NEW h \in Handlers, Step(h) PROVE FreshInv'
  BY <1>1, QuietSteps, InvalidatingSteps, ReadEpochStep, ReadSourcesStep, ReadResolvesStep, StoreStep, DiskSteps DEF Step
<1>2. ASSUME NEW k \in Ids, Edit(k) PROVE FreshInv'
  BY <1>2, EditStep
<1>3. CASE UNCHANGED vars
  BY <1>3 DEF vars, FreshInv, ShapeInv, DiskInv, InFlight, MemoFresh, At, Current
<1> QED
  BY <1>1, <1>2, <1>3 DEF Next

\* The memo is never older than the last write that has ended (definitions.go:53).
THEOREM FreshCorrect == Spec => []MemoFresh
<1>1. Init => FreshInv
  BY FreshInit
<1>2. FreshInv /\ [Next]_vars => FreshInv'
  BY FreshStep
<1>3. FreshInv => MemoFresh
  BY DEF FreshInv
<1> QED
  BY <1>1, <1>2, <1>3, PTL DEF Spec
------------------------------------------------------------------------------
(* Sequences that name nothing twice. *)

LEMMA Members ==
  ASSUME NEW S, NEW q \in Seq(S), NEW x
  PROVE  /\ DOMAIN q = 1..Len(q)
         /\ Member(q, x) => x \in S
  BY DEF Member

\* Removing closes the gap and nothing else.
LEMMA WithoutSeq ==
  ASSUME NEW S, NEW q \in Seq(S), Distinct(q), NEW k
  PROVE  /\ Without(q, k) \in Seq(S)
         /\ Distinct(Without(q, k))
         /\ Len(Without(q, k)) <= Len(q)
         /\ Member(q, k) => Len(Without(q, k)) = Len(q) - 1
         /\ \A x : Member(Without(q, k), x) <=> Member(q, x) /\ x # k
<1>1. CASE ~Member(q, k)
  BY <1>1 DEF Without, Member
<1>2. CASE Member(q, k)
  <2> DEFINE p == CHOOSE i \in DOMAIN q : q[i] = k
             w == [i \in 1..(Len(q) - 1) |-> q[IF i < p THEN i ELSE i + 1]]
  <2>1. Without(q, k) = w
    BY <1>2 DEF Without
  <2>2. p \in 1..Len(q) /\ q[p] = k
    BY <1>2 DEF Member
  <2> HIDE DEF p
  <2>3. Len(q) - 1 \in Nat /\ \A i \in 1..Len(q) : q[i] \in S
    BY <2>2
  <2>4. w \in Seq(S) /\ Len(w) = Len(q) - 1 /\ DOMAIN w = 1..(Len(q) - 1)
    BY <2>2, <2>3
  <2>5. \A i \in 1..(Len(q) - 1) : w[i] = q[IF i < p THEN i ELSE i + 1]
    OBVIOUS
  <2>6. \A i, j \in 1..Len(q) : q[i] = q[j] => i = j
    BY DEF Distinct
  <2> HIDE DEF w
  <2>7. Distinct(w)
    <3> SUFFICES ASSUME NEW i \in 1..(Len(q) - 1), NEW j \in 1..(Len(q) - 1), w[i] = w[j]
                 PROVE  i = j
      BY <2>4 DEF Distinct
    <3> DEFINE a == IF i < p THEN i ELSE i + 1
               b == IF j < p THEN j ELSE j + 1
    <3>1. a \in 1..Len(q) /\ b \in 1..Len(q) /\ q[a] = q[b]
      BY <2>2, <2>5
    <3>2. a = b
      BY <2>6, <3>1
    <3> QED
      BY <2>2, <3>2
  <2>8. ASSUME NEW x PROVE Member(w, x) <=> Member(q, x) /\ x # k
    <3>1. ASSUME NEW i \in 1..(Len(q) - 1), w[i] = x PROVE Member(q, x) /\ x # k
      <4> DEFINE a == IF i < p THEN i ELSE i + 1
      <4>1. a \in 1..Len(q) /\ a # p /\ q[a] = x
        BY <2>2, <2>5, <3>1
      <4> QED
        BY <2>2, <2>6, <4>1 DEF Member
    <3>2. ASSUME NEW i \in 1..Len(q), q[i] = x, x # k PROVE Member(w, x)
      <4> DEFINE a == IF i < p THEN i ELSE i - 1
      <4>1. i # p
        BY <2>2, <3>2
      <4>2. a \in 1..(Len(q) - 1) /\ (IF a < p THEN a ELSE a + 1) = i
        BY <2>2, <4>1
      <4>3. w[a] = x
        BY <2>5, <3>2, <4>2
      <4> QED
        BY <2>4, <4>2, <4>3 DEF Member
    <3> QED
      BY <2>4, <3>1, <3>2 DEF Member
  <2> QED
    BY <1>2, <2>1, <2>4, <2>7, <2>8
<1> QED
  BY <1>1, <1>2

LEMMA AppendSeq ==
  ASSUME NEW S, NEW q \in Seq(S), Distinct(q), NEW k \in S, ~Member(q, k)
  PROVE  /\ Append(q, k) \in Seq(S) /\ Distinct(Append(q, k))
         /\ Len(Append(q, k)) = Len(q) + 1
         /\ \A x : Member(Append(q, k), x) <=> Member(q, x) \/ x = k
<1> DEFINE a == Append(q, k)
<1>1. a \in Seq(S) /\ Len(a) = Len(q) + 1 /\ DOMAIN a = 1..(Len(q) + 1)
  OBVIOUS
<1>2. \A i \in 1..(Len(q) + 1) : a[i] = IF i = Len(q) + 1 THEN k ELSE q[i]
  OBVIOUS
<1> HIDE DEF a
<1>3. Distinct(a)
  <2> SUFFICES ASSUME NEW i \in 1..(Len(q) + 1), NEW j \in 1..(Len(q) + 1), a[i] = a[j]
               PROVE  i = j
    BY <1>1 DEF Distinct
  <2>1. \A n \in 1..Len(q) : q[n] # k
    BY DEF Member
  <2> QED
    BY <1>2, <2>1 DEF Distinct
<1>4. \A x : Member(a, x) <=> Member(q, x) \/ x = k
  <2> SUFFICES ASSUME NEW x PROVE Member(a, x) <=> Member(q, x) \/ x = k
    OBVIOUS
  <2>1. ASSUME NEW i \in 1..(Len(q) + 1), a[i] = x PROVE Member(q, x) \/ x = k
    BY <1>2, <2>1 DEF Member
  <2>2. ASSUME NEW i \in 1..Len(q), q[i] = x PROVE Member(a, x)
    BY <1>1, <1>2, <2>2 DEF Member
  <2>3. Member(a, k)
    <3>1. Len(q) + 1 \in 1..(Len(q) + 1) /\ a[Len(q) + 1] = k
      BY <1>2
    <3> QED
      BY <1>1, <3>1 DEF Member
  <2> QED
    BY <1>1, <2>1, <2>2, <2>3 DEF Member
<1> QED
  BY <1>1, <1>3, <1>4 DEF a

\* The first of several is not the last, and the rest names all others.
LEMMA TailSeq ==
  ASSUME NEW S, NEW q \in Seq(S), Distinct(q), q # << >>
  PROVE  /\ Tail(q) \in Seq(S) /\ Distinct(Tail(q)) /\ Len(Tail(q)) = Len(q) - 1
         /\ \A x : Member(Tail(q), x) <=> Member(q, x) /\ x # Head(q)
<1>1. Len(q) >= 1 /\ Head(q) = q[1]
  OBVIOUS
<1> DEFINE t == Tail(q)
<1>2. t \in Seq(S) /\ Len(t) = Len(q) - 1 /\ DOMAIN t = 1..(Len(q) - 1)
  BY <1>1
<1>3. \A i \in 1..(Len(q) - 1) : t[i] = q[i + 1]
  BY <1>1
<1> HIDE DEF t
<1>4. Distinct(t)
  <2> SUFFICES ASSUME NEW i \in 1..(Len(q) - 1), NEW j \in 1..(Len(q) - 1), t[i] = t[j]
               PROVE  i = j
    BY <1>2 DEF Distinct
  <2> QED
    BY <1>3 DEF Distinct
<1>5. \A x : Member(t, x) <=> Member(q, x) /\ x # Head(q)
  <2> SUFFICES ASSUME NEW x PROVE Member(t, x) <=> Member(q, x) /\ x # Head(q)
    OBVIOUS
  <2>1. ASSUME NEW i \in 1..(Len(q) - 1), t[i] = x PROVE Member(q, x) /\ x # Head(q)
    <3>1. i + 1 \in 1..Len(q) /\ q[i + 1] = x /\ 1 \in 1..Len(q)
      BY <1>1, <1>3, <2>1
    <3> QED
      BY <1>1, <3>1 DEF Member, Distinct
  <2>2. ASSUME NEW i \in 1..Len(q), q[i] = x, x # Head(q) PROVE Member(t, x)
    <3>1. i - 1 \in 1..(Len(q) - 1) /\ t[i - 1] = x
      BY <1>1, <1>3, <2>2
    <3> QED
      BY <1>2, <3>1 DEF Member
  <2> QED
    BY <1>2, <2>1, <2>2 DEF Member
<1> QED
  BY <1>2, <1>4, <1>5 DEF t

\* The lists of sources are the sequences of them that name none twice: there are
\* only so many sources.
LEMMA SourceList ==
  ASSUME NEW l \in Seq(Sources), Distinct(l)
  PROVE  l \in SourceLists
<1>1. l \in [1..Len(l) -> Sources]
  OBVIOUS
<1>2. Cardinality(Sources) \in Nat
  BY SourcesAssumption, FS_CardinalityType
<1>3. Len(l) <= Cardinality(Sources)
  <2> SUFFICES ASSUME Cardinality(Sources) < Len(l) PROVE FALSE
    BY <1>2
  <2>1. IsFiniteSet(1..Len(l)) /\ Cardinality(1..Len(l)) = Len(l)
    BY FS_Interval
  <2>2. \E x, y \in 1..Len(l) : x # y /\ l[x] = l[y]
    BY <1>1, <2>1, SourcesAssumption, FS_PigeonHole
  <2> QED
    BY <2>2 DEF Distinct
<1> QED
  BY <1>1, <1>2, <1>3 DEF SourceLists

LEMMA ListSequence ==
  ASSUME NEW l \in SourceLists
  PROVE  l \in Seq(Sources) /\ Distinct(l)
<1>1. PICK n \in 0..Cardinality(Sources) : l \in [1..n -> Sources]
  BY DEF SourceLists
<1>2. n \in Nat
  BY SourcesAssumption, FS_CardinalityType
<1> QED
  BY <1>1, <1>2 DEF SourceLists
------------------------------------------------------------------------------
(* The memo as a cache: its map and its order of use name the same ids.  *)

MemoInv ==
  /\ entries \in [Ids -> View \cup {None}]
  /\ recent \in Seq(Ids) /\ Distinct(recent)
  /\ MemoExact

LEMMA InvalidateMemo ==
  ASSUME MemoInv, NEW k \in Ids, Invalidate(k)
  PROVE  MemoInv'
<1>1. entries' = [entries EXCEPT ![k] = None] /\ recent' = Without(recent, k)
  BY DEF Invalidate
<1>2. /\ recent' \in Seq(Ids) /\ Distinct(recent') /\ Len(recent') <= Len(recent)
      /\ \A x : Member(recent', x) <=> Member(recent, x) /\ x # k
  BY <1>1, WithoutSeq DEF MemoInv
<1>3. entries' \in [Ids -> View \cup {None}] /\ \A x \in Ids : entries'[x] = IF x = k THEN None ELSE entries[x]
  BY <1>1 DEF MemoInv
<1>4. Len(recent') <= Size
  BY <1>2, SizeAssumption DEF MemoInv, MemoExact
<1> QED
  BY <1>2, <1>3, <1>4 DEF MemoInv, MemoExact, Hit

LEMMA TouchSeq ==
  ASSUME NEW S, NEW q \in Seq(S), Distinct(q), NEW k \in S
  PROVE  /\ Touch(q, k) \in Seq(S) /\ Distinct(Touch(q, k))
         /\ Len(Touch(q, k)) = IF Member(q, k) THEN Len(q) ELSE Len(q) + 1
         /\ \A x : Member(Touch(q, k), x) <=> Member(q, x) \/ x = k
         /\ Touch(q, k)[Len(Touch(q, k))] = k
<1> DEFINE w == Without(q, k)
<1>1. /\ w \in Seq(S) /\ Distinct(w)
      /\ Member(q, k) => Len(w) = Len(q) - 1
      /\ \A x : Member(w, x) <=> Member(q, x) /\ x # k
  BY WithoutSeq
<1>2. ~Member(q, k) => Len(w) = Len(q)
  BY DEF Without
<1> HIDE DEF w
<1>3. /\ Append(w, k) \in Seq(S) /\ Distinct(Append(w, k))
      /\ Len(Append(w, k)) = Len(w) + 1
      /\ \A x : Member(Append(w, k), x) <=> Member(w, x) \/ x = k
  BY <1>1, AppendSeq
<1>4. Append(w, k)[Len(w) + 1] = k
  BY <1>1
<1>5. Touch(q, k) = Append(w, k)
  BY DEF Touch, w
<1>6. Len(Append(w, k)) = IF Member(q, k) THEN Len(q) ELSE Len(q) + 1
  BY <1>1, <1>2, <1>3
<1>7. \A x : Member(Append(w, k), x) <=> Member(q, x) \/ x = k
  BY <1>1, <1>3
<1> QED
  BY <1>3, <1>4, <1>5, <1>6, <1>7

\* An entry that is there is used.
LEMMA TouchMemo ==
  ASSUME MemoInv, NEW k \in Ids, UNCHANGED entries,
         recent' = IF Hit(k) THEN Touch(recent, k) ELSE recent
  PROVE  MemoInv'
<1>1. CASE Hit(k)
  <2>1. Member(recent, k)
    BY <1>1 DEF MemoInv, MemoExact
  <2>2. /\ recent' \in Seq(Ids) /\ Distinct(recent') /\ Len(recent') = Len(recent)
        /\ \A x : Member(recent', x) <=> Member(recent, x) \/ x = k
    BY <1>1, <2>1, TouchSeq DEF MemoInv
  <2> QED
    BY <2>1, <2>2 DEF MemoInv, MemoExact, Hit
<1>2. CASE ~Hit(k)
  BY <1>2 DEF MemoInv, MemoExact, Hit
<1> QED
  BY <1>1, <1>2

\* An entry is added, and the one used least lately goes if there is no room: one at
\* a time is enough.
LEMMA StoreMemo ==
  ASSUME MemoInv, NEW k \in Ids, NEW v \in View, Store(k, v)
  PROVE  MemoInv'
<1> DEFINE q == Touch(recent, k)
           full == Len(q) > Size
<1>1. /\ q \in Seq(Ids) /\ Distinct(q)
      /\ Len(q) = IF Member(recent, k) THEN Len(recent) ELSE Len(recent) + 1
      /\ \A x : Member(q, x) <=> Member(recent, x) \/ x = k
      /\ q[Len(q)] = k
  BY TouchSeq DEF MemoInv
<1>2. /\ recent' = IF full THEN Tail(q) ELSE q
      /\ entries' = [x \in Ids |-> IF full /\ x = Head(q) THEN None ELSE IF x = k THEN v ELSE entries[x]]
  BY DEF Store
<1> HIDE DEF q
<1>3. entries' \in [Ids -> View \cup {None}]
  BY <1>2 DEF MemoInv
<1>4. v # None
  BY NoneAssumption
<1>5. CASE full
  <2>1. Len(recent) <= Size /\ Len(q) <= Size + 1 /\ Len(q) >= 2 /\ q # << >>
    BY <1>1, <1>5, SizeAssumption DEF MemoInv, MemoExact
  <2>2. Head(q) # k
    <3>1. 1 \in DOMAIN q /\ Len(q) \in DOMAIN q /\ Head(q) = q[1]
      BY <1>1, <2>1
    <3> QED
      BY <1>1, <2>1, <3>1 DEF Distinct
  <2>3. /\ Tail(q) \in Seq(Ids) /\ Distinct(Tail(q)) /\ Len(Tail(q)) = Len(q) - 1
        /\ \A x : Member(Tail(q), x) <=> Member(q, x) /\ x # Head(q)
    BY <1>1, <2>1, TailSeq
  <2>4. Len(Tail(q)) <= Size
    BY <1>1, <2>1, <2>3, SizeAssumption
  <2>5. \A x \in Ids : entries'[x] # None <=> Member(Tail(q), x)
    BY <1>1, <1>2, <1>4, <1>5, <2>2, <2>3 DEF MemoInv, MemoExact, Hit
  <2> QED
    BY <1>2, <1>3, <1>5, <2>3, <2>4, <2>5 DEF MemoInv, MemoExact, Hit
<1>6. CASE ~full
  <2>1. \A x \in Ids : entries'[x] # None <=> Member(q, x)
    BY <1>1, <1>2, <1>4, <1>6 DEF MemoInv, MemoExact, Hit
  <2>2. Len(q) <= Size
    BY <1>1, <1>6, SizeAssumption
  <2> QED
    BY <1>1, <1>2, <1>3, <1>6, <2>1, <2>2 DEF MemoInv, MemoExact, Hit
<1> QED
  BY <1>5, <1>6
------------------------------------------------------------------------------
(* The calls: what each has seen, and what it may not be served less than. *)

CallInv(h) ==
  /\ pc[h] # "idle" => answer[h] = None
  /\ pc[h] = "lookup" => job[h].op = "invoke"
  /\ pc[h] \in {"put", "invalidate"} => job[h].op = "write"
  /\ pc[h] = "digest" => shown[h] \in seen[h]
  /\ pc[h] \notin {"idle", "forget", "move"} /\ disk[At(h)] # None => disk[At(h)].list \in seen[h]
  /\ pc[h] \in {"resolves", "store"} => derived[h].list \in seen[h]
  /\ answer[h] # None /\ job[h].op # "invoke" => answer[h].list \in seen[h]
  /\ job[h].op # "rename" =>
       /\ job[h].id = job[h].to
       /\ floor[h] <= done[At(h)]
       /\ pc[h] \in {"resolves", "store"} => derived[h].at >= floor[h]
       /\ answer[h] # None => answer[h].at >= floor[h]

CallsInv == TypeOK /\ MemoExact /\ \A h \in Handlers : CallInv(h)

ServedInv == FreshInv /\ CallsInv

LEMMA EmptyView == << >> \in SourceLists /\ Empty.res \in Resolves /\ Empty \in View
<1>1. << >> \in SourceLists
  <2>1. << >> \in Seq(Sources) /\ Distinct(<< >>)
    BY DEF Distinct
  <2> QED
    BY <2>1, SourceList
<1>2. Empty.res \in Resolves
  <2> DEFINE r == [s \in Sources |-> Unresolved]
  <2>1. r \in [Sources -> {Unresolved} \cup UNION { Snapshots[s] : s \in Sources }]
    OBVIOUS
  <2>2. \A s \in Sources : r[s] \in Snapshots[s] \cup {Unresolved}
    OBVIOUS
  <2>3. Empty.res = r
    BY DEF Empty
  <2> HIDE DEF r
  <2> QED
    BY <2>1, <2>2, <2>3 DEF Resolves
<1>3. Empty = [list |-> << >>, res |-> Empty.res, at |-> 0]
  BY DEF Empty
<1> QED
  BY <1>1, <1>2, <1>3 DEF View

LEMMA CallsInit == Init => CallsInv
<1> SUFFICES ASSUME Init PROVE CallsInv
  OBVIOUS
<1>1. Home \in Ids
  BY StartAssumption DEF Home
<1>2. disk \in [Ids -> View \cup {None}]
  BY StartAssumption DEF Init
<1>3. /\ recent = << >> /\ entries = [k \in Ids |-> None]
      /\ \A x : ~Member(recent, x)
  BY DEF Init, Member
<1>4. MemoExact /\ recent \in Seq(Ids) /\ Distinct(recent)
  BY <1>3, SizeAssumption DEF MemoExact, Hit, Distinct
<1>5. job \in [Handlers -> [op : Ops, id : Ids, to : Ids]] /\ pc \in [Handlers -> Labels]
  BY <1>1 DEF Init, Ops, Labels
<1>6. TypeOK
  BY <1>2, <1>4, <1>5, EmptyView DEF Init, TypeOK
<1>7. ASSUME NEW h \in Handlers PROVE CallInv(h)
  BY <1>1, <1>7 DEF Init, CallInv, At
<1> QED
  BY <1>4, <1>6, <1>7 DEF CallsInv

\* What a step of another handler, or of nobody, leaves of a call: it sees what is
\* put on the disk it works on.
Elsewhere(x) ==
  /\ pc'[x] = pc[x] /\ job'[x] = job[x] /\ shown'[x] = shown[x]
  /\ derived'[x] = derived[x] /\ answer'[x] = answer[x] /\ floor'[x] = floor[x]
  /\ seen[x] \subseteq seen'[x]
  /\ done[At(x)] <= done'[At(x)]
  /\ \/ disk'[At(x)] = disk[At(x)]
     \/ disk'[At(x)] = None
     \/ disk'[At(x)].list \in seen'[x]

LEMMA ElsewhereKept ==
  ASSUME TypeOK, done' \in [Ids -> Nat], NEW x \in Handlers, CallInv(x), Elsewhere(x)
  PROVE  CallInv(x)'
<1>1. /\ floor[x] \in Nat /\ At(x) \in Ids
      /\ done[At(x)] \in Nat /\ done'[At(x)] \in Nat
  BY DEF TypeOK, At
<1>2. floor[x] <= done[At(x)] => floor'[x] <= done'[At(x)]
  BY <1>1 DEF Elsewhere
<1>3. job'[x].to = job[x].to
  BY DEF Elsewhere
<1> DEFINE k == job[x].to
<1>4. /\ pc'[x] \notin {"idle", "forget", "move"} /\ disk'[k] # None => disk'[k].list \in seen'[x]
  BY DEF Elsewhere, CallInv, At
<1>5. job'[x].op # "rename" =>
       /\ job'[x].id = job'[x].to
       /\ floor'[x] <= done'[k]
       /\ pc'[x] \in {"resolves", "store"} => derived'[x].at >= floor'[x]
       /\ answer'[x] # None => answer'[x].at >= floor'[x]
  BY <1>2 DEF Elsewhere, CallInv, At
<1>6. /\ pc'[x] # "idle" => answer'[x] = None
      /\ pc'[x] = "lookup" => job'[x].op = "invoke"
      /\ pc'[x] \in {"put", "invalidate"} => job'[x].op = "write"
      /\ pc'[x] = "digest" => shown'[x] \in seen'[x]
      /\ pc'[x] \in {"resolves", "store"} => derived'[x].list \in seen'[x]
      /\ answer'[x] # None /\ job'[x].op # "invoke" => answer'[x].list \in seen'[x]
  BY DEF Elsewhere, CallInv
<1> QED
  BY <1>3, <1>4, <1>5, <1>6 DEF CallInv, At

\* The steps of one handler that change no disk: the others see nothing.
LEMMA OthersKept ==
  ASSUME CallsInv, NEW h \in Handlers,
         UNCHANGED <<disk, done>>,
         \A x \in Handlers : x # h =>
            /\ pc'[x] = pc[x] /\ job'[x] = job[x] /\ shown'[x] = shown[x]
            /\ derived'[x] = derived[x] /\ answer'[x] = answer[x] /\ floor'[x] = floor[x]
            /\ seen'[x] = seen[x]
  PROVE  \A x \in Handlers : x # h => CallInv(x)'
<1> SUFFICES ASSUME NEW x \in Handlers, x # h PROVE CallInv(x)'
  OBVIOUS
<1>1. done[At(x)] <= done[At(x)]
  BY DEF CallsInv, TypeOK, At
<1>2. Elsewhere(x)
  BY <1>1 DEF Elsewhere
<1> QED
  BY <1>2, ElsewhereKept DEF CallsInv, TypeOK

\* A call that ends: its answer, if it has one, is what was promised.
Served(h, v) ==
  v # None => /\ v \in View
              /\ job[h].op # "invoke" => v.list \in seen[h]
              /\ job[h].op # "rename" => v.at >= floor[h]

LEMMA EndServed ==
  ASSUME CallsInv, NEW h \in Handlers, NEW v, End(h, v), Served(h, v),
         MemoInv', epochs' \in [Ids -> Nat], UNCHANGED <<disk, job, clock, history, seen, bounds>>
  PROVE  CallsInv'
<1>1. /\ pc' = [pc EXCEPT ![h] = "idle"] /\ answer' = [answer EXCEPT ![h] = v]
      /\ shown' = [shown EXCEPT ![h] = << >>] /\ epoch' = [epoch EXCEPT ![h] = 0]
      /\ derived' = [derived EXCEPT ![h] = Empty]
  BY DEF End, Answer, Goto, Clear
<1>2. v \in View \cup {None}
  BY DEF Served
<1>3. TypeOK'
  BY <1>1, <1>2, EmptyView DEF CallsInv, TypeOK, MemoInv, Labels, history, bounds
<1>4. pc'[h] = "idle" /\ answer'[h] = v
  BY <1>1 DEF CallsInv, TypeOK
<1>5. CallInv(h)'
  BY <1>4 DEF CallsInv, CallInv, Served, history, At
<1>6. \A x \in Handlers : x # h => CallInv(x)'
  BY <1>1, OthersKept DEF CallsInv, TypeOK, history
<1> QED
  BY <1>3, <1>5, <1>6 DEF CallsInv, MemoInv

\* A call that goes on at l, with the list s, the epoch n and the view d.
Proceeds(h, l, s, n, d) ==
  /\ l \in Labels /\ Goto(h, l)
  /\ s \in SourceLists /\ shown' = [shown EXCEPT ![h] = s]
  /\ n \in Nat /\ epoch' = [epoch EXCEPT ![h] = n]
  /\ d \in View /\ derived' = [derived EXCEPT ![h] = d]
  /\ UNCHANGED <<disk, job, answer, clock, history, seen, bounds>>
  /\ pc[h] \notin {"idle", "forget", "move"} /\ l \notin {"idle", "forget", "move"}
  /\ l = "lookup" => job[h].op = "invoke"
  /\ l \in {"put", "invalidate"} => job[h].op = "write"
  /\ l = "digest" => s \in seen[h]
  /\ l \in {"resolves", "store"} => /\ d.list \in seen[h]
                                    /\ job[h].op # "rename" => d.at >= floor[h]

LEMMA GoesOn ==
  ASSUME CallsInv, MemoInv', epochs' \in [Ids -> Nat],
         NEW h \in Handlers, NEW l, NEW s, NEW n, NEW d, Proceeds(h, l, s, n, d)
  PROVE  CallsInv'
<1>1. pc' = [pc EXCEPT ![h] = l]
  BY DEF Proceeds, Goto
<1>2. TypeOK'
  BY <1>1 DEF Proceeds, CallsInv, TypeOK, MemoInv, history, bounds
<1>3. pc'[h] = l /\ shown'[h] = s /\ derived'[h] = d
  BY <1>1 DEF Proceeds, CallsInv, TypeOK
<1>4. CallInv(h)'
  BY <1>3 DEF Proceeds, CallsInv, CallInv, history, At
<1>5. \A x \in Handlers : x # h => CallInv(x)'
  BY <1>1, OthersKept DEF Proceeds, CallsInv, TypeOK, history
<1> QED
  BY <1>2, <1>4, <1>5 DEF CallsInv, MemoInv
LEMMA MemoKept ==
  ASSUME CallsInv
  PROVE  MemoInv /\ (UNCHANGED memo => MemoInv' /\ epochs' \in [Ids -> Nat])
  BY DEF CallsInv, TypeOK, MemoInv, MemoExact, Hit, memo

LEMMA InvalidateKept ==
  ASSUME CallsInv, NEW k \in Ids, Invalidate(k)
  PROVE  MemoInv' /\ epochs' \in [Ids -> Nat]
<1>1. MemoInv'
  BY MemoKept, InvalidateMemo
<1>2. epochs' = [epochs EXCEPT ![k] = @ + 1] /\ epochs \in [Ids -> Nat]
  BY DEF Invalidate, CallsInv, TypeOK
<1> QED
  BY <1>1, <1>2

\* The frame of a step that changes its handler's place and nothing else of it.
LEMMA Onward ==
  ASSUME CallsInv, NEW h \in Handlers, NEW l \in Labels, Goto(h, l),
         MemoInv', epochs' \in [Ids -> Nat], UNCHANGED <<shown, epoch, derived>>,
         UNCHANGED <<disk, job, answer, clock, history, seen, bounds>>,
         pc[h] \notin {"idle", "forget", "move"},
         l \notin {"idle", "forget", "move", "digest", "resolves", "store"},
         l = "lookup" => job[h].op = "invoke",
         l \in {"put", "invalidate"} => job[h].op = "write"
  PROVE  CallsInv'
<1>1. /\ shown' = [shown EXCEPT ![h] = shown[h]] /\ shown[h] \in SourceLists
      /\ epoch' = [epoch EXCEPT ![h] = epoch[h]] /\ epoch[h] \in Nat
      /\ derived' = [derived EXCEPT ![h] = derived[h]] /\ derived[h] \in View
  BY DEF CallsInv, TypeOK
<1>2. Proceeds(h, l, shown[h], epoch[h], derived[h])
  BY <1>1 DEF Proceeds
<1> QED
  BY <1>2, GoesOn

LEMMA BeginCalls ==
  ASSUME CallsInv, NEW h \in Handlers, Begin(h)
  PROVE  CallsInv'
<1>1. PICK j \in [op : Ops, id : Ids, to : Ids] :
        /\ j.op = "rename" => j.to # j.id
        /\ j.op # "rename" => j.to = j.id
        /\ writes' = writes + (IF j.op = "write" THEN 1 ELSE 0)
        /\ job' = [job EXCEPT ![h] = j]
        /\ Goto(h, First[j.op])
        /\ floor' = [floor EXCEPT ![h] = done[j.id]]
        /\ seen' = [seen EXCEPT ![h] = ListNow(j.id)]
  BY DEF Begin
<1>2. /\ pc' = [pc EXCEPT ![h] = First[j.op]] /\ answer' = [answer EXCEPT ![h] = None]
      /\ calls' = calls + 1
      /\ UNCHANGED <<disk, entries, recent, epochs, shown, epoch, derived, clock, done, edits>>
  BY <1>1 DEF Begin, Goto, memo, local
<1>3. First[j.op] \in Labels
  BY DEF First, Ops, Labels
<1>4. ListNow(j.id) \subseteq SourceLists
  BY DEF ListNow, CallsInv, TypeOK, View
<1>5. TypeOK'
  <2>1. writes' \in Nat /\ calls' \in Nat
    BY <1>1, <1>2 DEF CallsInv, TypeOK
  <2>2. /\ pc' \in [Handlers -> Labels] /\ job' \in [Handlers -> [op : Ops, id : Ids, to : Ids]]
        /\ answer' \in [Handlers -> View \cup {None}] /\ floor' \in [Handlers -> Nat]
        /\ seen' \in [Handlers -> SUBSET SourceLists]
    BY <1>1, <1>2, <1>3, <1>4 DEF CallsInv, TypeOK
  <2> QED
    BY <1>2, <2>1, <2>2 DEF CallsInv, TypeOK
<1>6. MemoExact'
  BY <1>2 DEF CallsInv, MemoExact, Hit
<1>7. CallInv(h)'
  <2>1. /\ pc'[h] = First[j.op] /\ job'[h] = j /\ answer'[h] = None
        /\ floor'[h] = done[j.id] /\ seen'[h] = ListNow(j.id)
    BY <1>1, <1>2 DEF CallsInv, TypeOK
  <2>2. /\ First[j.op] \in {"load", "lookup", "forget"}
        /\ First[j.op] = "lookup" => j.op = "invoke"
        /\ First[j.op] # "forget" => j.op # "rename"
    BY DEF First, Ops
  <2>3. done[j.id] <= done[j.id]
    BY DEF CallsInv, TypeOK
  <2> QED
    BY <1>1, <1>2, <2>1, <2>2, <2>3 DEF CallInv, At, ListNow
<1>8. \A x \in Handlers : x # h => CallInv(x)'
  BY <1>1, <1>2, OthersKept DEF CallsInv, TypeOK
<1> QED
  BY <1>5, <1>6, <1>7, <1>8 DEF CallsInv

\* The reads of the files and of the memo.
LEMMA LoadCalls ==
  ASSUME CallsInv, NEW h \in Handlers, Load(h)
  PROVE  CallsInv'
<1>0. /\ MemoInv' /\ epochs' \in [Ids -> Nat] /\ At(h) \in Ids
      /\ UNCHANGED <<disk, job, clock, history, seen, bounds>>
      /\ pc[h] = "load"
  BY MemoKept DEF Load, CallsInv, TypeOK, At
<1>1. CASE disk[At(h)] = None
  BY <1>0, <1>1, EndServed DEF Load, Fail, Served
<1>2. CASE disk[At(h)] # None
  <2> DEFINE l == IF job[h].op = "write" THEN "put" ELSE "digest"
             s == disk[At(h)].list
  <2>1. shown' = [shown EXCEPT ![h] = s] /\ Goto(h, l) /\ UNCHANGED <<answer, epoch, derived>>
    BY <1>2 DEF Load
  <2>2. s \in SourceLists /\ s \in seen[h]
    BY <1>0, <1>2 DEF CallsInv, TypeOK, CallInv, View
  <2>3. /\ epoch' = [epoch EXCEPT ![h] = epoch[h]] /\ epoch[h] \in Nat
        /\ derived' = [derived EXCEPT ![h] = derived[h]] /\ derived[h] \in View
    BY <2>1 DEF CallsInv, TypeOK
  <2>4. l \in Labels /\ l \in {"put", "digest"} /\ (l = "put" => job[h].op = "write")
    BY DEF Labels
  <2> HIDE DEF l, s
  <2> QED
    <3>1. Proceeds(h, l, s, epoch[h], derived[h])
      BY <1>0, <2>1, <2>2, <2>3, <2>4 DEF Proceeds
    <3> QED
      BY <1>0, <3>1, GoesOn
<1> QED
  BY <1>1, <1>2

\* What the memo holds is a view, and one that is new enough.
LEMMA EntryServed ==
  ASSUME ServedInv, NEW h \in Handlers, Hit(At(h)),
         job[h].op # "invoke" => entries[At(h)].list \in seen[h]
  PROVE  Served(h, entries[At(h)])
<1>1. At(h) \in Ids /\ entries[At(h)] \in View /\ entries[At(h)] # None
  BY DEF ServedInv, CallsInv, TypeOK, At, Hit
<1>2. entries[At(h)].at \in Nat /\ done[At(h)] \in Nat /\ floor[h] \in Nat
  BY <1>1 DEF ServedInv, CallsInv, TypeOK, View
<1>3. entries[At(h)].at >= done[At(h)]
  BY <1>1 DEF ServedInv, FreshInv, MemoFresh
<1>4. job[h].op # "rename" => floor[h] <= done[At(h)]
  BY DEF ServedInv, CallsInv, CallInv
<1>5. job[h].op # "rename" => entries[At(h)].at >= floor[h]
  BY <1>2, <1>3, <1>4
<1> QED
  BY <1>1, <1>5 DEF Served

LEMMA LookupCalls ==
  ASSUME ServedInv, NEW h \in Handlers, Digest(h) \/ Lookup(h)
  PROVE  CallsInv'
<1>0. /\ CallsInv /\ At(h) \in Ids
      /\ UNCHANGED <<entries, epochs, disk, job, clock, history, seen, bounds>>
      /\ recent' = IF Hit(At(h)) THEN Touch(recent, At(h)) ELSE recent
  BY DEF ServedInv, Digest, Lookup, CallsInv, TypeOK, At
<1>1. MemoInv' /\ epochs' \in [Ids -> Nat]
  BY <1>0, MemoKept, TouchMemo DEF CallsInv, TypeOK
<1>2. CASE Digest(h)
  <2>1. CASE Hit(At(h)) /\ Matches(At(h), shown[h])
    <3>1. End(h, entries[At(h)])
      BY <1>2, <2>1 DEF Digest
    <3>2. entries[At(h)].list \in seen[h]
      BY <1>0, <1>2, <2>1 DEF Digest, Matches, CallsInv, CallInv
    <3> QED
      BY <1>0, <1>1, <2>1, <3>1, <3>2, EntryServed, EndServed
  <2>2. CASE ~(Hit(At(h)) /\ Matches(At(h), shown[h]))
    <3>1. Goto(h, IF Hit(At(h)) THEN "drop" ELSE "epoch") /\ UNCHANGED <<answer, shown, epoch, derived>>
      BY <1>2, <2>2 DEF Digest, local
    <3>2. \E l \in {"drop", "epoch"} : Goto(h, l)
      BY <3>1
    <3>3. pc[h] = "digest" /\ {"drop", "epoch"} \subseteq Labels
      BY <1>2 DEF Digest, Labels
    <3> QED
      BY <1>0, <1>1, <3>1, <3>2, <3>3, Onward
  <2> QED
    BY <2>1, <2>2
<1>3. CASE Lookup(h)
  <2>0. pc[h] = "lookup" /\ job[h].op = "invoke"
    BY <1>0, <1>3 DEF Lookup, CallsInv, CallInv
  <2>1. CASE Hit(At(h))
    <3>1. End(h, entries[At(h)])
      BY <1>3, <2>1 DEF Lookup
    <3> QED
      BY <1>0, <1>1, <2>0, <2>1, <3>1, EntryServed, EndServed
  <2>2. CASE ~Hit(At(h))
    <3>1. Goto(h, "epoch") /\ "epoch" \in Labels /\ UNCHANGED <<answer, shown, epoch, derived>>
      BY <1>3, <2>2 DEF Lookup, local, Labels
    <3> QED
      BY <1>0, <1>1, <2>0, <3>1, Onward
  <2> QED
    BY <2>1, <2>2
<1> QED
  BY <1>2, <1>3

LEMMA DropCalls ==
  ASSUME CallsInv, NEW h \in Handlers, Drop(h)
  PROVE  CallsInv'
<1>1. /\ At(h) \in Ids /\ pc[h] = "drop" /\ Goto(h, "epoch") /\ "epoch" \in Labels
      /\ UNCHANGED <<disk, job, shown, epoch, derived, answer, clock, history, seen, bounds>>
      /\ Invalidate(At(h))
  BY DEF Drop, local, CallsInv, TypeOK, At, Labels
<1>2. MemoInv' /\ epochs' \in [Ids -> Nat]
  BY <1>1, InvalidateKept
<1> QED
  BY <1>1, <1>2, Onward

\* The derivation.
LEMMA DeriveCalls ==
  ASSUME ServedInv, NEW h \in Handlers, ReadEpoch(h) \/ ReadSources(h) \/ ReadResolves(h)
  PROVE  CallsInv'
<1>0. /\ CallsInv /\ At(h) \in Ids /\ UNCHANGED memo
      /\ UNCHANGED <<disk, job, clock, history, seen, bounds>>
  BY DEF ServedInv, ReadEpoch, ReadSources, ReadResolves, CallsInv, TypeOK, At
<1>1. MemoInv' /\ epochs' \in [Ids -> Nat]
  BY <1>0, MemoKept
<1>2. CASE ReadEpoch(h)
  <2>1. /\ pc[h] = "epoch" /\ Goto(h, "sources") /\ "sources" \in Labels
        /\ epoch' = [epoch EXCEPT ![h] = epochs[At(h)]] /\ epochs[At(h)] \in Nat
        /\ shown' = [shown EXCEPT ![h] = shown[h]] /\ shown[h] \in SourceLists
        /\ derived' = [derived EXCEPT ![h] = derived[h]] /\ derived[h] \in View
        /\ UNCHANGED answer
    BY <1>0, <1>2 DEF ReadEpoch, CallsInv, TypeOK, Labels
  <2> QED
    <3>1. Proceeds(h, "sources", shown[h], epochs[At(h)], derived[h])
      BY <1>0, <2>1 DEF Proceeds
    <3> QED
      BY <1>0, <1>1, <3>1, GoesOn
<1>3. CASE ReadSources(h)
  <2>0. pc[h] = "sources"
    BY <1>3 DEF ReadSources
  <2>1. CASE disk[At(h)] = None
    BY <1>0, <1>1, <1>3, <2>1, EndServed DEF ReadSources, Fail, Served
  <2>2. CASE disk[At(h)] # None
    <3> DEFINE d == [disk[At(h)] EXCEPT !.res = Empty.res]
    <3>1. /\ derived' = [derived EXCEPT ![h] = d] /\ Goto(h, "resolves")
          /\ UNCHANGED <<answer, shown, epoch>>
      BY <1>3, <2>2 DEF ReadSources
    <3>2. disk[At(h)] \in View
      BY <1>0, <2>2 DEF CallsInv, TypeOK
    <3>3. d \in View /\ d.list = disk[At(h)].list /\ d.at = disk[At(h)].at
      BY <3>2, EmptyView DEF View
    <3> HIDE DEF d
    <3>4. d.list \in seen[h]
      BY <1>0, <2>0, <2>2, <3>3 DEF CallsInv, CallInv
    <3>5. job[h].op # "rename" => d.at >= floor[h]
      <4>1. disk[At(h)].at >= done[At(h)]
        BY <1>0, <2>2, <3>2 DEF ServedInv, FreshInv, ShapeInv, DiskInv, View
      <4>2. d.at \in Nat /\ done[At(h)] \in Nat /\ floor[h] \in Nat
        BY <1>0, <3>3 DEF CallsInv, TypeOK, View
      <4>3. job[h].op # "rename" => floor[h] <= done[At(h)]
        BY <1>0 DEF CallsInv, CallInv
      <4> QED
        BY <3>3, <4>1, <4>2, <4>3
    <3>6. /\ shown' = [shown EXCEPT ![h] = shown[h]] /\ shown[h] \in SourceLists
          /\ epoch' = [epoch EXCEPT ![h] = epoch[h]] /\ epoch[h] \in Nat
          /\ "resolves" \in Labels
      BY <1>0, <3>1 DEF CallsInv, TypeOK, Labels
    <3> QED
      <4>1. Proceeds(h, "resolves", shown[h], epoch[h], d)
        BY <1>0, <2>0, <3>1, <3>3, <3>4, <3>5, <3>6 DEF Proceeds
      <4> QED
        BY <1>0, <1>1, <4>1, GoesOn
  <2> QED
    BY <2>1, <2>2
<1>4. CASE ReadResolves(h)
  <2> DEFINE r == IF disk[At(h)] = None THEN Empty.res ELSE disk[At(h)].res
             d == [derived[h] EXCEPT !.res = r]
  <2>0. pc[h] = "resolves" /\ Goto(h, "store") /\ "store" \in Labels /\ UNCHANGED <<answer, shown, epoch>>
    BY <1>4 DEF ReadResolves, Labels
  <2>1. derived[h] \in View /\ r \in Resolves
    BY <1>0, EmptyView DEF CallsInv, TypeOK, View
  <2>2. derived' = [derived EXCEPT ![h] = [@ EXCEPT !.res = r]]
    BY <1>4 DEF ReadResolves
  <2> HIDE DEF r
  <2>3. derived' = [derived EXCEPT ![h] = d]
    BY <2>2
  <2>4. d \in View /\ d.list = derived[h].list /\ d.at = derived[h].at
    BY <2>1 DEF View
  <2> HIDE DEF d
  <2>5. d.list \in seen[h] /\ (job[h].op # "rename" => d.at >= floor[h])
    BY <1>0, <2>0, <2>4 DEF CallsInv, CallInv
  <2>6. /\ shown' = [shown EXCEPT ![h] = shown[h]] /\ shown[h] \in SourceLists
        /\ epoch' = [epoch EXCEPT ![h] = epoch[h]] /\ epoch[h] \in Nat
    BY <1>0, <2>0 DEF CallsInv, TypeOK
  <2> QED
    <3>1. Proceeds(h, "store", shown[h], epoch[h], d)
      BY <1>0, <2>0, <2>3, <2>4, <2>5, <2>6 DEF Proceeds
    <3> QED
      BY <1>0, <1>1, <3>1, GoesOn
<1> QED
  BY <1>2, <1>3, <1>4

LEMMA StoreCalls ==
  ASSUME CallsInv, NEW h \in Handlers, StoreDerived(h)
  PROVE  CallsInv'
<1>1. /\ pc[h] = "store" /\ End(h, derived[h]) /\ At(h) \in Ids /\ derived[h] \in View
      /\ UNCHANGED <<disk, epochs, job, clock, history, seen, bounds>>
  BY DEF StoreDerived, CallsInv, TypeOK, At
<1>2. MemoInv' /\ epochs' \in [Ids -> Nat]
  <2>1. MemoInv /\ epochs' \in [Ids -> Nat]
    BY <1>1, MemoKept DEF CallsInv, TypeOK
  <2>2. CASE Current(h, At(h))
    BY <1>1, <2>1, <2>2, StoreMemo DEF StoreDerived
  <2>3. CASE ~Current(h, At(h))
    BY <1>1, <2>1, <2>3, MemoKept DEF StoreDerived, memo
  <2> QED
    BY <2>1, <2>2, <2>3
<1>3. Served(h, derived[h])
  BY <1>1 DEF Served, CallsInv, CallInv
<1> QED
  BY <1>1, <1>2, <1>3, EndServed

LEMMA ForgetCalls ==
  ASSUME CallsInv, NEW h \in Handlers, Forget(h)
  PROVE  CallsInv'
<1>1. /\ pc[h] = "forget" /\ pc' = [pc EXCEPT ![h] = "move"] /\ "move" \in Labels
      /\ UNCHANGED <<disk, job, shown, epoch, derived, answer, clock, done, floor, seen, calls, writes, edits>>
      /\ Invalidate(job[h].id) /\ job[h].id \in Ids
  BY DEF Forget, Goto, local, history, bounds, CallsInv, TypeOK, Labels
<1>2. MemoInv' /\ epochs' \in [Ids -> Nat]
  BY <1>1, InvalidateKept
<1>3. TypeOK'
  BY <1>1, <1>2 DEF CallsInv, TypeOK, MemoInv
<1>4. CallInv(h)'
  <2>1. pc'[h] = "move"
    BY <1>1 DEF CallsInv, TypeOK
  <2> QED
    BY <1>1, <2>1 DEF CallsInv, CallInv, At
<1>5. \A x \in Handlers : x # h => CallInv(x)'
  BY <1>1, OthersKept DEF CallsInv, TypeOK
<1> QED
  BY <1>2, <1>3, <1>4, <1>5 DEF CallsInv, MemoInv
------------------------------------------------------------------------------
(* The changes of the disk. *)

\* Whatever a source handler writes names no source twice.
LEMMA WrittenLists ==
  ASSUME NEW l \in SourceLists, NEW w \in Writes(l)
  PROVE  w.list \in SourceLists
<1>0. l \in Seq(Sources) /\ Distinct(l)
  BY ListSequence
<1>1. ASSUME NEW s \in Sources PROVE Updated(l, s) \in SourceLists
  <2>1. CASE Member(l, s)
    BY <2>1 DEF Updated
  <2>2. CASE ~Member(l, s)
    <3>1. Append(l, s) \in Seq(Sources) /\ Distinct(Append(l, s))
      BY <1>0, <2>2, AppendSeq
    <3> QED
      BY <2>2, <3>1, SourceList DEF Updated
  <2> QED
    BY <2>1, <2>2
<1>2. ASSUME NEW s \in Sources PROVE Without(l, s) \in SourceLists
  <2>1. Without(l, s) \in Seq(Sources) /\ Distinct(Without(l, s))
    BY <1>0, WithoutSeq
  <2> QED
    BY <2>1, SourceList
<1>3. Reordered(l) \subseteq SourceLists
  BY DEF Reordered
<1> QED
  BY <1>1, <1>2, <1>3 DEF Writes

\* Every call that works on the collection sees the change.
LEMMA Witnessed ==
  ASSUME TypeOK, NEW k \in Ids, disk' \in [Ids -> View \cup {None}], disk'[k] \in View, UNCHANGED job,
         Witness(k), \A y \in Ids : y # k => disk'[y] = disk[y] \/ disk'[y] = None
  PROVE  /\ seen' \in [Handlers -> SUBSET SourceLists]
         /\ \A x \in Handlers :
              /\ seen[x] \subseteq seen'[x]
              /\ disk'[At(x)] = disk[At(x)] \/ disk'[At(x)] = None \/ disk'[At(x)].list \in seen'[x]
<1>1. disk'[k].list \in SourceLists
  BY DEF View
<1> DEFINE l == disk'[k].list
<1>2. seen' = [x \in Handlers |-> IF At(x) = k THEN seen[x] \cup {l} ELSE seen[x]]
  BY DEF Witness
<1>3. l \in SourceLists
  BY <1>1
<1> HIDE DEF l
<1>4. seen' \in [Handlers -> SUBSET SourceLists]
  BY <1>2, <1>3 DEF TypeOK
<1>5. ASSUME NEW x \in Handlers
      PROVE  /\ seen[x] \subseteq seen'[x]
             /\ disk'[At(x)] = disk[At(x)] \/ disk'[At(x)] = None \/ disk'[At(x)].list \in seen'[x]
  <2>1. seen'[x] = IF At(x) = k THEN seen[x] \cup {l} ELSE seen[x]
    BY <1>2
  <2>2. At(x) \in Ids
    BY DEF TypeOK, At
  <2>3. CASE At(x) = k
    BY <2>1, <2>3 DEF l
  <2>4. CASE At(x) # k
    BY <2>1, <2>2, <2>4
  <2> QED
    BY <2>3, <2>4
<1> QED
  BY <1>4, <1>5

\* What a change of the disk leaves of every call whose handler does not move.
LEMMA ChangeKept ==
  ASSUME CallsInv, NEW x \in Handlers, UNCHANGED done,
         pc'[x] = pc[x], job'[x] = job[x], shown'[x] = shown[x],
         derived'[x] = derived[x], answer'[x] = answer[x], floor'[x] = floor[x],
         seen[x] \subseteq seen'[x],
         disk'[At(x)] = disk[At(x)] \/ disk'[At(x)] = None \/ disk'[At(x)].list \in seen'[x]
  PROVE  CallInv(x)'
<1>1. done[At(x)] <= done[At(x)]
  BY DEF CallsInv, TypeOK, At
<1>2. Elsewhere(x)
  BY <1>1 DEF Elsewhere
<1> QED
  BY <1>2, ElsewhereKept DEF CallsInv, TypeOK

LEMMA EditCalls ==
  ASSUME CallsInv, NEW k \in Ids, Edit(k)
  PROVE  CallsInv'
<1>1. PICK l \in SourceLists : disk' = [disk EXCEPT ![k].list = l, ![k].at = clock + 1]
  BY DEF Edit
<1> DEFINE v == [list |-> l, res |-> disk[k].res, at |-> clock + 1]
<1>2. disk[k] \in View /\ clock + 1 \in Nat
  BY DEF Edit, CallsInv, TypeOK
<1>3. disk' = [disk EXCEPT ![k] = v]
  <2> DEFINE d == disk[k]
             w == [d EXCEPT !.list = l]
             u == [w EXCEPT !.at = clock + 1]
  <2>1. d = [list |-> d.list, res |-> d.res, at |-> d.at]
    BY <1>2 DEF View
  <2>2. disk' = [disk EXCEPT ![k] = u]
    BY <1>1 DEF CallsInv, TypeOK
  <2>3. v = [list |-> l, res |-> d.res, at |-> clock + 1]
    OBVIOUS
  <2> HIDE DEF d, v
  <2>4. w = [list |-> l, res |-> d.res, at |-> d.at]
    BY <2>1
  <2> HIDE DEF w
  <2>5. u = v
    BY <2>3, <2>4
  <2> QED
    BY <2>2, <2>5
<1>4. v \in View
  BY <1>2 DEF View
<1> HIDE DEF v
<1>5. /\ disk' \in [Ids -> View \cup {None}] /\ disk'[k] \in View
      /\ \A y \in Ids : y # k => disk'[y] = disk[y]
  BY <1>3, <1>4 DEF CallsInv, TypeOK
<1>6. /\ seen' \in [Handlers -> SUBSET SourceLists]
      /\ \A x \in Handlers :
           /\ seen[x] \subseteq seen'[x]
           /\ disk'[At(x)] = disk[At(x)] \/ disk'[At(x)] = None \/ disk'[At(x)].list \in seen'[x]
  BY <1>5, Witnessed DEF Edit, CallsInv
<1>7. UNCHANGED <<entries, recent, epochs, pc, job, shown, epoch, derived, answer, done, floor, calls, writes>>
  BY DEF Edit, memo, local, history
<1>8. clock' \in Nat /\ edits' \in Nat
  BY DEF Edit, CallsInv, TypeOK
<1>9. TypeOK'
  BY <1>5, <1>6, <1>7, <1>8 DEF CallsInv, TypeOK
<1>10. \A x \in Handlers : CallInv(x)'
  BY <1>6, <1>7, ChangeKept
<1>11. MemoExact'
  BY <1>7 DEF CallsInv, MemoExact, Hit
<1> QED
  BY <1>9, <1>10, <1>11 DEF CallsInv

\* The handler that changed the disk goes on, or ends with an error.
LEMMA ChangeCalls ==
  ASSUME CallsInv, NEW h \in Handlers, NEW k \in Ids, k = At(h),
         disk' \in [Ids -> View \cup {None}], disk'[k] \in View, clock' = clock + 1,
         Witness(k), \A y \in Ids : y # k => disk'[y] = disk[y] \/ disk'[y] = None,
         UNCHANGED <<memo, job, history, bounds>>,
         pc[h] \in {"put", "move"},
         \/ Fail(h)
         \/ /\ Goto(h, IF pc[h] = "put" THEN "invalidate" ELSE "load")
            /\ UNCHANGED <<answer, local>>
  PROVE  CallsInv'
<1>1. /\ seen' \in [Handlers -> SUBSET SourceLists]
      /\ \A x \in Handlers :
           /\ seen[x] \subseteq seen'[x]
           /\ disk'[At(x)] = disk[At(x)] \/ disk'[At(x)] = None \/ disk'[At(x)].list \in seen'[x]
  BY Witnessed DEF CallsInv
<1>2. UNCHANGED <<entries, recent, epochs, job, done, floor, calls, writes, edits>>
  BY DEF memo, history, bounds
<1>3. /\ \E l \in {"idle", "invalidate", "load"} :
           /\ pc' = [pc EXCEPT ![h] = l]
           /\ l = "invalidate" => pc[h] = "put"
      /\ shown' \in [Handlers -> SourceLists] /\ \A x \in Handlers : x # h => shown'[x] = shown[x]
      /\ epoch' \in [Handlers -> Nat]
      /\ derived' \in [Handlers -> View] /\ \A x \in Handlers : x # h => derived'[x] = derived[x]
      /\ answer' \in [Handlers -> View \cup {None}] /\ \A x \in Handlers : x # h => answer'[x] = answer[x]
      /\ answer'[h] = None
  <2>1. CASE Fail(h)
    <3>1. /\ pc' = [pc EXCEPT ![h] = "idle"] /\ answer' = [answer EXCEPT ![h] = None]
          /\ shown' = [shown EXCEPT ![h] = << >>] /\ epoch' = [epoch EXCEPT ![h] = 0]
          /\ derived' = [derived EXCEPT ![h] = Empty]
      BY <2>1 DEF Fail, End, Answer, Goto, Clear
    <3> QED
      BY <3>1, EmptyView DEF CallsInv, TypeOK
  <2>2. CASE ~Fail(h)
    <3>1. /\ pc' = [pc EXCEPT ![h] = IF pc[h] = "put" THEN "invalidate" ELSE "load"]
          /\ UNCHANGED <<answer, shown, epoch, derived>>
      BY <2>2 DEF Goto, local
    <3>2. answer[h] = None
      BY DEF CallsInv, CallInv
    <3> QED
      BY <3>1, <3>2 DEF CallsInv, TypeOK
  <2> QED
    BY <2>1, <2>2
<1>4. PICK l \in {"idle", "invalidate", "load"} : pc' = [pc EXCEPT ![h] = l] /\ (l = "invalidate" => pc[h] = "put")
  BY <1>3
<1>5. TypeOK'
  <2>1. pc' \in [Handlers -> Labels] /\ clock' \in Nat
    BY <1>4 DEF CallsInv, TypeOK, Labels
  <2> QED
    BY <1>1, <1>2, <1>3, <2>1 DEF CallsInv, TypeOK
<1>6. CallInv(h)'
  <2>1. pc'[h] = l
    BY <1>4 DEF CallsInv, TypeOK
  <2>2. disk'[job[h].to].list \in seen'[h]
    <3>1. k = job[h].to
      BY DEF At
    <3>2. disk'[k].list \in seen'[h]
      <4>1. seen' = [x \in Handlers |-> IF At(x) = k THEN seen[x] \cup {disk'[k].list} ELSE seen[x]]
        BY DEF Witness
      <4> QED
        BY <4>1
    <3> QED
      BY <3>1, <3>2
  <2> QED
    BY <1>2, <1>3, <1>4, <2>1, <2>2 DEF CallsInv, CallInv, At
<1>7. ASSUME NEW x \in Handlers, x # h PROVE CallInv(x)'
  <2>1. pc'[x] = pc[x]
    BY <1>4, <1>7 DEF CallsInv, TypeOK
  <2> QED
    BY <1>1, <1>2, <1>3, <1>7, <2>1, ChangeKept
<1>8. MemoExact'
  BY <1>2 DEF CallsInv, MemoExact, Hit
<1> QED
  BY <1>5, <1>6, <1>7, <1>8 DEF CallsInv

LEMMA PutCalls ==
  ASSUME CallsInv, NEW h \in Handlers, Put(h)
  PROVE  CallsInv'
<1>0. /\ At(h) \in Ids /\ pc[h] = "put" /\ MemoInv' /\ epochs' \in [Ids -> Nat]
      /\ UNCHANGED <<memo, job, history, bounds>>
  BY MemoKept DEF Put, CallsInv, TypeOK, At
<1>1. CASE Fail(h) /\ UNCHANGED <<disk, clock, seen>>
  BY <1>0, <1>1, EndServed DEF Fail, Served
<1>2. CASE ~(Fail(h) /\ UNCHANGED <<disk, clock, seen>>)
  <2> DEFINE k == At(h)
  <2>1. disk[k] # None /\
        \E w \in Writes(shown[h]) : \E r \in Outcomes(k, w.list, w.fresh) :
             /\ disk' = [disk EXCEPT ![k] = [list |-> w.list, res |-> r, at |-> clock + 1]]
             /\ clock' = clock + 1
             /\ Witness(k)
             /\ \/ Goto(h, "invalidate") /\ UNCHANGED <<answer, local>>
                \/ Fail(h)
    BY <1>2 DEF Put
  <2>10. PICK w \in Writes(shown[h]) : \E r \in Outcomes(k, w.list, w.fresh) :
             /\ disk' = [disk EXCEPT ![k] = [list |-> w.list, res |-> r, at |-> clock + 1]]
             /\ clock' = clock + 1
             /\ Witness(k)
             /\ \/ Goto(h, "invalidate") /\ UNCHANGED <<answer, local>>
                \/ Fail(h)
    BY <2>1
  <2>2. PICK r \in Outcomes(k, w.list, w.fresh) :
             /\ disk' = [disk EXCEPT ![k] = [list |-> w.list, res |-> r, at |-> clock + 1]]
             /\ clock' = clock + 1
             /\ Witness(k)
             /\ \/ Goto(h, "invalidate") /\ UNCHANGED <<answer, local>>
                \/ Fail(h)
    BY <2>10
  <2> DEFINE v == [list |-> w.list, res |-> r, at |-> clock + 1]
  <2>3. v \in View
    <3>1. shown[h] \in SourceLists /\ clock + 1 \in Nat
      BY DEF CallsInv, TypeOK
    <3>2. w.list \in SourceLists
      BY <3>1, WrittenLists
    <3>3. r \in Resolves
      BY DEF Outcomes
    <3> QED
      BY <3>1, <3>2, <3>3 DEF View
  <2>4. disk' = [disk EXCEPT ![k] = v]
    BY <2>2
  <2> HIDE DEF v
  <2>5. /\ disk' \in [Ids -> View \cup {None}] /\ disk'[k] \in View
        /\ \A y \in Ids : y # k => disk'[y] = disk[y]
    BY <1>0, <2>3, <2>4 DEF CallsInv, TypeOK
  <2> QED
    BY <1>0, <2>2, <2>5, ChangeCalls
<1> QED
  BY <1>1, <1>2

LEMMA MoveCalls ==
  ASSUME CallsInv, NEW h \in Handlers, Move(h)
  PROVE  CallsInv'
<1> DEFINE old == job[h].id
           new == job[h].to
<1>0. /\ old \in Ids /\ new \in Ids /\ new = At(h) /\ pc[h] = "move" /\ MemoInv' /\ epochs' \in [Ids -> Nat]
      /\ UNCHANGED <<memo, job, history, bounds>>
  BY MemoKept DEF Move, CallsInv, TypeOK, At
<1>1. CASE disk[old] = None \/ disk[new] # None
  <2>1. Fail(h) /\ UNCHANGED <<disk, clock, seen>>
    BY <1>1 DEF Move
  <2> QED
    BY <1>0, <2>1, EndServed DEF Fail, Served
<1>2. CASE ~(disk[old] = None \/ disk[new] # None)
  <2> DEFINE v == [disk[old] EXCEPT !.at = clock + 1]
  <2>1. /\ disk' = [disk EXCEPT ![old] = None, ![new] = v] /\ clock' = clock + 1 /\ Witness(new)
        /\ Goto(h, "load") /\ UNCHANGED <<answer, local>>
    BY <1>2 DEF Move
  <2>2. v \in View
    <3>1. disk[old] \in View /\ clock + 1 \in Nat
      BY <1>0, <1>2 DEF CallsInv, TypeOK
    <3> QED
      BY <3>1 DEF View
  <2> HIDE DEF v
  <2>3. /\ disk' \in [Ids -> View \cup {None}] /\ disk'[new] \in View
        /\ \A y \in Ids : y # new => disk'[y] = disk[y] \/ disk'[y] = None
    BY <1>0, <2>1, <2>2 DEF CallsInv, TypeOK
  <2> HIDE DEF old, new
  <2> QED
    BY <1>0, <2>1, <2>3, ChangeCalls
<1> QED
  BY <1>1, <1>2

\* The write is announced; its handler goes on to load what it answers with.
LEMMA WriteDoneCalls ==
  ASSUME ServedInv, NEW h \in Handlers, WriteDone(h)
  PROVE  CallsInv'
<1> DEFINE k == At(h)
           n == IF disk[k] = None THEN done[k] ELSE disk[k].at
<1>0. /\ CallsInv /\ k \in Ids /\ pc[h] = "invalidate" /\ job[h].op = "write"
  BY DEF WriteDone, ServedInv, CallsInv, CallInv, TypeOK, At
<1>1. MemoInv' /\ epochs' \in [Ids -> Nat]
  BY <1>0, InvalidateKept DEF WriteDone
<1>2. n \in Nat /\ done[k] \in Nat /\ done[k] <= n
  BY <1>0 DEF ServedInv, FreshInv, DiskInv, CallsInv, TypeOK, View
<1>3. /\ done' = [done EXCEPT ![k] = n]
      /\ job' = [job EXCEPT ![h] = [@ EXCEPT !.op = "load"]]
      /\ pc' = [pc EXCEPT ![h] = "load"]
      /\ UNCHANGED <<disk, shown, epoch, derived, answer, clock, floor, seen, calls, writes, edits>>
  BY DEF WriteDone, Goto, local, bounds
<1> HIDE DEF n, k
<1>4. done' \in [Ids -> Nat] /\ \A y \in Ids : done[y] <= done'[y]
  <2>1. done' \in [Ids -> Nat] /\ \A y \in Ids : done'[y] = IF y = k THEN n ELSE done[y]
    BY <1>0, <1>2, <1>3 DEF CallsInv, TypeOK
  <2>2. ASSUME NEW y \in Ids PROVE done[y] <= done'[y]
    <3>1. done[y] \in Nat
      BY <1>0 DEF CallsInv, TypeOK
    <3> QED
      BY <1>2, <2>1, <3>1
  <2> QED
    BY <2>1, <2>2
<1>5. /\ job' \in [Handlers -> [op : Ops, id : Ids, to : Ids]]
      /\ job'[h].op = "load" /\ job'[h].id = job[h].id /\ job'[h].to = job[h].to
      /\ \A x \in Handlers : x # h => job'[x] = job[x]
  <2>1. job[h] \in [op : Ops, id : Ids, to : Ids] /\ "load" \in Ops
    BY <1>0 DEF CallsInv, TypeOK, Ops
  <2> DEFINE j == [job[h] EXCEPT !.op = "load"]
  <2>2. j \in [op : Ops, id : Ids, to : Ids] /\ j.op = "load" /\ j.id = job[h].id /\ j.to = job[h].to
    BY <2>1
  <2>3. job' = [job EXCEPT ![h] = j]
    BY <1>3
  <2> HIDE DEF j
  <2> QED
    BY <1>0, <2>2, <2>3 DEF CallsInv, TypeOK
<1>6. TypeOK'
  <2>1. pc' \in [Handlers -> Labels]
    BY <1>0, <1>3 DEF CallsInv, TypeOK, Labels
  <2> QED
    BY <1>0, <1>1, <1>3, <1>4, <1>5, <2>1 DEF CallsInv, TypeOK, MemoInv
<1>7. CallInv(h)'
  <2>1. pc'[h] = "load" /\ answer'[h] = None
    BY <1>0, <1>3 DEF CallsInv, TypeOK, CallInv
  <2>2. job[h].id = job[h].to /\ floor[h] <= done[job[h].to] /\ floor[h] \in Nat /\ job[h].to \in Ids
    BY <1>0 DEF CallsInv, CallInv, TypeOK, At
  <2>3. floor[h] <= done'[job[h].to]
    <3>1. done[job[h].to] \in Nat /\ done'[job[h].to] \in Nat
      BY <1>0, <1>4, <2>2 DEF CallsInv, TypeOK
    <3> QED
      BY <1>4, <2>2, <3>1
  <2>4. disk[job[h].to] # None => disk[job[h].to].list \in seen[h]
    BY <1>0 DEF CallsInv, CallInv, At
  <2> QED
    BY <1>3, <1>5, <2>1, <2>2, <2>3, <2>4 DEF CallInv, At
<1>8. ASSUME NEW x \in Handlers, x # h PROVE CallInv(x)'
  <2>1. At(x) \in Ids /\ pc'[x] = pc[x] /\ job'[x] = job[x]
    BY <1>0, <1>3, <1>5, <1>8 DEF CallsInv, TypeOK, At
  <2>2. Elsewhere(x)
    BY <1>3, <1>4, <2>1 DEF Elsewhere
  <2> QED
    BY <1>0, <1>4, <2>2, ElsewhereKept DEF CallsInv
<1> QED
  BY <1>1, <1>6, <1>7, <1>8 DEF CallsInv, MemoInv
LEMMA CallsStep ==
  ASSUME ServedInv, [Next]_vars
  PROVE  CallsInv'
<1>0. CallsInv
  BY DEF ServedInv
<1>1. ASSUME NEW h \in Handlers, Step(h) PROVE CallsInv'
  BY <1>0, <1>1, BeginCalls, LoadCalls, LookupCalls, DropCalls, DeriveCalls, StoreCalls,
     PutCalls, WriteDoneCalls, ForgetCalls, MoveCalls DEF Step
<1>2. ASSUME NEW k \in Ids, Edit(k) PROVE CallsInv'
  BY <1>0, <1>2, EditCalls
<1>3. CASE UNCHANGED vars
  BY <1>0, <1>3 DEF vars, CallsInv, TypeOK, MemoExact, Hit, CallInv, At
<1> QED
  BY <1>1, <1>2, <1>3 DEF Next

LEMMA ServedInvariant == Spec => []ServedInv
<1>1. Init => ServedInv
  BY FreshInit, CallsInit DEF ServedInv
<1>2. ServedInv /\ [Next]_vars => ServedInv'
  BY FreshStep, CallsStep DEF ServedInv
<1> QED
  BY <1>1, <1>2, PTL DEF Spec

\* No call but a rename answers with definitions older than a write that had ended
\* when it began, and a load shows what was edited by hand (definitions.go:149).
THEOREM ServedCorrect == Spec => []ServedFresh
<1>1. ServedInv => ServedFresh
  BY DEF ServedInv, CallsInv, CallInv, ServedFresh, LoadSeesEdits
<1> QED
  BY <1>1, ServedInvariant, PTL

\* The memo's map and its order of use agree, and neither outgrows its size: to
\* evict one entry for each that is added is enough (definitions.go:89).
THEOREM MemoCorrect == Spec => []MemoExact
<1>1. ServedInv => MemoExact
  BY DEF ServedInv, CallsInv
<1> QED
  BY <1>1, ServedInvariant, PTL
------------------------------------------------------------------------------
(* The merge: who claims a file, who wins a service and who is called is   *)
(* settled by the first sources that can tell.                              *)

Less == { p \in Nat \X Nat : p[1] < p[2] }

LEMMA LeastNumber ==
  ASSUME NEW T \in SUBSET Nat, T # {}
  PROVE  \E x \in T : \A y \in T : x <= y
<1>1. IsWellFoundedOn(Less, Nat)
  <2>1. Less = OpToRel(<, Nat)
    BY DEF Less, OpToRel
  <2> QED
    BY <2>1, NatLessThanWellFounded
<1>2. PICK x \in T : \A y \in T : <<y, x>> \notin Less
  BY <1>1, WFMin
<1>3. ASSUME NEW y \in T PROVE x <= y
  <2>1. x \in Nat /\ y \in Nat /\ ~(y < x)
    BY <1>2 DEF Less
  <2> QED
    BY <2>1
<1> QED
  BY <1>3

IsClaimant(rs, f, i) == /\ i \in DOMAIN rs /\ Holds(rs[i], f)
                        /\ \A j \in 1..(i - 1) : ~Holds(rs[j], f)

LEMMA HeldFiles ==
  ASSUME NEW rs, NEW f
  PROVE  f \in FilesOf(rs) <=> \E i \in DOMAIN rs : Holds(rs[i], f)
  BY DEF FilesOf, Holds

\* A file that some source holds has one claimant.
LEMMA OneClaimant ==
  ASSUME NEW S, NEW rs \in Seq(S), NEW f \in FilesOf(rs)
  PROVE  /\ IsClaimant(rs, f, Claimant(rs, f))
         /\ \A i : IsClaimant(rs, f, i) => i = Claimant(rs, f)
<1> DEFINE T == { i \in DOMAIN rs : Holds(rs[i], f) }
<1>1. T \in SUBSET Nat /\ T # {} /\ DOMAIN rs = 1..Len(rs) /\ Len(rs) \in Nat
  BY HeldFiles
<1>2. PICK i \in T : \A j \in T : i <= j
  BY <1>1, LeastNumber
<1>3. IsClaimant(rs, f, i)
  <2>1. ASSUME NEW j \in 1..(i - 1) PROVE ~Holds(rs[j], f)
    <3>1. j \in DOMAIN rs /\ ~(i <= j)
      BY <1>1, <1>2
    <3> QED
      BY <1>2, <3>1
  <2> QED
    BY <1>2, <2>1 DEF IsClaimant
<1>4. IsClaimant(rs, f, Claimant(rs, f))
  BY <1>3 DEF IsClaimant, Claimant
<1>5. ASSUME NEW a, NEW b, IsClaimant(rs, f, a), IsClaimant(rs, f, b) PROVE a = b
  <2>1. a \in 1..Len(rs) /\ b \in 1..Len(rs)
    BY <1>1, <1>5 DEF IsClaimant
  <2>2. ~(a < b) /\ ~(b < a)
    BY <1>5, <2>1 DEF IsClaimant
  <2> QED
    BY <2>1, <2>2
<1> QED
  BY <1>4, <1>5

\* The first n of the sources.
IsPrefixOf(p, rs) == /\ DOMAIN p \subseteq DOMAIN rs
                     /\ \A i \in DOMAIN p : p[i] = rs[i]
                     /\ \A i \in DOMAIN p : \A j \in DOMAIN rs : j <= i => j \in DOMAIN p

LEMMA FirstSources ==
  ASSUME NEW S, NEW rs \in Seq(S), NEW n \in DOMAIN rs
  PROVE  SubSeq(rs, 1, n) \in Seq(S) /\ IsPrefixOf(SubSeq(rs, 1, n), rs)
<1>1. n \in 1..Len(rs) /\ \A i \in 1..n : rs[i] \in S
  OBVIOUS
<1> DEFINE p == SubSeq(rs, 1, n)
<1>2. p \in Seq(S) /\ Len(p) = n /\ \A i \in 1..n : p[i] = rs[i]
  BY <1>1
<1> HIDE DEF p
<1>3. DOMAIN p = 1..n /\ DOMAIN rs = 1..Len(rs)
  BY <1>2
<1>4. IsPrefixOf(p, rs)
  BY <1>1, <1>2, <1>3 DEF IsPrefixOf
<1> QED
  BY <1>2, <1>4 DEF p

LEMMA SameClaimant ==
  ASSUME NEW S, NEW rs \in Seq(S), NEW p \in Seq(S), IsPrefixOf(p, rs), NEW f \in FilesOf(p)
  PROVE  f \in FilesOf(rs) /\ Claimant(p, f) = Claimant(rs, f) /\ Defined(p, f) = Defined(rs, f)
<1>1. f \in FilesOf(rs)
  BY HeldFiles DEF IsPrefixOf
<1> DEFINE c == Claimant(p, f)
<1>2. IsClaimant(p, f, c)
  BY OneClaimant
<1> HIDE DEF c
<1>3. c \in DOMAIN p /\ c \in DOMAIN rs /\ p[c] = rs[c]
  BY <1>2 DEF IsClaimant, IsPrefixOf
<1>4. IsClaimant(rs, f, c)
  <2>1. ASSUME NEW j \in 1..(c - 1) PROVE ~Holds(rs[j], f)
    <3>1. j \in DOMAIN rs /\ j <= c
      BY <1>3
    <3>2. p[j] = rs[j]
      BY <1>3, <3>1 DEF IsPrefixOf
    <3> QED
      BY <1>2, <3>2 DEF IsClaimant
  <2> QED
    BY <1>2, <1>3, <2>1 DEF IsClaimant
<1>5. c = Claimant(rs, f)
  BY <1>1, <1>4, OneClaimant
<1> QED
  BY <1>1, <1>3, <1>5 DEF Defined, c

\* Sources that link have one winner for each service they define.
LEMMA OneWinner ==
  ASSUME NEW S, NEW rs \in Seq(S), ~Conflict(rs), NEW f \in FilesOf(rs), NEW s \in Defined(rs, f)
  PROVE  WonBy(rs, s) = rs[Claimant(rs, f)].id
<1> DEFINE W(i) == \E g \in FilesOf(rs) : i = Claimant(rs, g) /\ s \in Defined(rs, g)
           c == Claimant(rs, f)
<1>1. \A g \in FilesOf(rs) : s \in Defined(rs, g) => g = f
  BY DEF Conflict
<1>2. c \in DOMAIN rs
  BY OneClaimant DEF IsClaimant
<1>3. W(c) /\ \A i : W(i) => i = c
  BY <1>1
<1>4. WonBy(rs, s) = rs[CHOOSE i \in DOMAIN rs : W(i)].id
  BY DEF WonBy
<1> HIDE DEF W, c
<1>5. (CHOOSE i \in DOMAIN rs : W(i)) = c
  BY <1>2, <1>3
<1> QED
  BY <1>4, <1>5 DEF c

\* What the first sources offer together they offer still, whatever comes after.
LEMMA PrefixHolds ==
  ASSUME NEW S, NEW rs \in Seq(S), NEW p \in Seq(S), IsPrefixOf(p, rs), ~Conflict(rs)
  PROVE  /\ Offered(p) \subseteq Offered(rs)
         /\ \A s \in Offered(p) : /\ WonBy(p, s) = WonBy(rs, s)
                                  /\ Servers(p, s) # {} => Dial(p, s) = Dial(rs, s)
<1>1. ~Conflict(p)
  <2> SUFFICES ASSUME NEW f \in FilesOf(p), NEW g \in FilesOf(p), f # g
               PROVE  Defined(p, f) \cap Defined(p, g) = {}
    BY DEF Conflict
  <2>1. f \in FilesOf(rs) /\ g \in FilesOf(rs) /\ Defined(p, f) = Defined(rs, f) /\ Defined(p, g) = Defined(rs, g)
    BY SameClaimant
  <2> QED
    BY <2>1 DEF Conflict
<1>2. ASSUME NEW s \in Offered(p)
      PROVE  /\ s \in Offered(rs) /\ WonBy(p, s) = WonBy(rs, s)
             /\ Servers(p, s) # {} => Dial(p, s) = Dial(rs, s)
  <2>1. PICK f \in FilesOf(p) : s \in Defined(p, f)
    BY DEF Offered
  <2>2. f \in FilesOf(rs) /\ Claimant(p, f) = Claimant(rs, f) /\ s \in Defined(rs, f)
    BY <2>1, SameClaimant
  <2>3. s \in Offered(rs)
    BY <2>2 DEF Offered, IsPrefixOf
  <2>4. WonBy(p, s) = WonBy(rs, s)
    <3>1. WonBy(p, s) = p[Claimant(p, f)].id /\ WonBy(rs, s) = rs[Claimant(rs, f)].id
      BY <1>1, <2>1, <2>2, OneWinner
    <3>2. Claimant(p, f) \in DOMAIN p
      BY OneClaimant DEF IsClaimant
    <3> QED
      BY <2>2, <3>1, <3>2 DEF IsPrefixOf
  <2>5. ASSUME Servers(p, s) # {} PROVE Dial(p, s) = Dial(rs, s)
    <3>0. DOMAIN rs = 1..Len(rs) /\ Servers(p, s) \in SUBSET Nat
      BY DEF Servers, IsPrefixOf
    <3>1. PICK i \in Servers(p, s) : \A j \in Servers(p, s) : i <= j
      BY <2>5, <3>0, LeastNumber
    <3>2. i \in DOMAIN p /\ i \in Servers(rs, s)
      BY DEF Servers, IsPrefixOf
    <3>3. ASSUME NEW j \in Servers(rs, s) PROVE i <= j
      <4>1. i \in Nat /\ j \in Nat /\ j \in DOMAIN rs
        BY <3>0, <3>2 DEF Servers
      <4>2. CASE j <= i
        <5>1. j \in DOMAIN p /\ p[j] = rs[j]
          BY <3>2, <4>1, <4>2 DEF IsPrefixOf
        <5>2. j \in Servers(p, s)
          BY <5>1 DEF Servers
        <5> QED
          BY <3>1, <5>2
      <4> QED
        BY <4>1, <4>2
    <3>4. ASSUME NEW a, NEW T \in SUBSET Nat, a \in T, \A j \in T : a <= j
          PROVE  (CHOOSE x \in T : \A j \in T : x <= j) = a
      <4>1. ASSUME NEW x \in T, \A j \in T : x <= j PROVE x = a
        BY <3>4, <4>1
      <4> QED
        BY <3>4, <4>1
    <3>5. Servers(rs, s) \in SUBSET Nat
      BY <3>0 DEF Servers
    <3>6. Dial(p, s) = i
      BY <3>0, <3>1, <3>4 DEF Dial
    <3>7. Dial(rs, s) = i
      BY <3>2, <3>3, <3>4, <3>5 DEF Dial
    <3> QED
      BY <3>6, <3>7
  <2> QED
    BY <2>3, <2>4, <2>5
<1> QED
  BY <1>2

\* A source that comes later takes nothing from those before it (sources.go:305).
THEOREM PriorityCorrect == Spec => []PriorityHolds
<1>1. ServedInv => PriorityHolds
  <2> SUFFICES ASSUME ServedInv, NEW k \in Ids, Hit(k), ~Conflict(Resolved(entries[k])),
                      NEW n \in DOMAIN Resolved(entries[k])
               PROVE  LET rs == Resolved(entries[k])
                          first == SubSeq(rs, 1, n)
                      IN  /\ Offered(first) \subseteq Offered(rs)
                          /\ \A s \in Offered(first) :
                               /\ WonBy(first, s) = WonBy(rs, s)
                               /\ Servers(first, s) # {} => Dial(first, s) = Dial(rs, s)
    BY DEF PriorityHolds
  <2> DEFINE v == entries[k]
             rs == Resolved(v)
             S == { rs[i] : i \in DOMAIN v.list }
  <2>1. v.list \in Seq(Sources)
    <3>1. v \in View
      BY DEF ServedInv, CallsInv, TypeOK, Hit
    <3> QED
      BY <3>1, ListSequence DEF View
  <2>2. rs \in Seq(S)
    <3>1. DOMAIN rs = DOMAIN v.list /\ rs = [i \in DOMAIN v.list |-> rs[i]]
      BY DEF Resolved
    <3>2. DOMAIN v.list = 1..Len(v.list) /\ Len(v.list) \in Nat
      BY <2>1
    <3> HIDE DEF rs, v
    <3> QED
      BY <3>1, <3>2
  <2> HIDE DEF rs, S, v
  <2>3. SubSeq(rs, 1, n) \in Seq(S) /\ IsPrefixOf(SubSeq(rs, 1, n), rs)
    BY <2>2, FirstSources DEF rs, v
  <2>4. ~Conflict(rs)
    BY DEF rs, v
  <2>5. /\ Offered(SubSeq(rs, 1, n)) \subseteq Offered(rs)
        /\ \A s \in Offered(SubSeq(rs, 1, n)) :
             /\ WonBy(SubSeq(rs, 1, n), s) = WonBy(rs, s)
             /\ Servers(SubSeq(rs, 1, n), s) # {} => Dial(SubSeq(rs, 1, n), s) = Dial(rs, s)
    BY <2>2, <2>3, <2>4, PrefixHolds
  <2> QED
    BY <2>5 DEF rs, v
<1> QED
  BY <1>1, ServedInvariant, PTL
==============================================================================
