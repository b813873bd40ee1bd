----------------------------- MODULE Definitions -----------------------------
(***************************************************************************)
(* The memo of a collection's definitions (service/workspace/definitions.go) *)
(* and the calls that go through it: loading a collection, invoking one of   *)
(* its methods, changing its sources and renaming it.  The definitions are   *)
(* derived in two reads, of the list of sources and of what they resolved    *)
(* to, and stored in the memo under the collection's id.  Nothing holds a    *)
(* lock from one step to the next, so any other call comes between, and so   *)
(* does whoever edits grpcview.json by hand.                                 *)
(*                                                                           *)
(* How the files are written is modelled in Descriptors; here a write of     *)
(* list and resolves is one step under the collection's mutex.               *)
(***************************************************************************)
EXTENDS Naturals, Sequences, FiniteSets

CONSTANTS
  Handlers,    \* goroutines, each serving one call after another
  Ids,         \* collection ids
  Sources,     \* ids of descriptor sources
  Reflecting,  \* those that are servers
  Snapshots,   \* what each source can resolve to
  Start,       \* the collections at the start
  Size,        \* how many definitions the memo holds
  MaxCalls,    \* bound: calls served
  MaxWrites,   \* bound: writes among them
  MaxEdits,    \* bound: edits of grpcview.json by hand
  Unresolved,  \* no snapshot
  None         \* no collection, no definitions

INSTANCE SourceMerge

Ops == {"load", "invoke", "write", "rename"}

\* A collection on disk, and the same when read: the sources in their order,
\* what each resolved to, and which change of the disk made it so.
Distinct(l) == \A i, j \in DOMAIN l : l[i] = l[j] => i = j
SourceLists == { l \in UNION { [1..n -> Sources] : n \in 0..Cardinality(Sources) } : Distinct(l) }
Resolves == { r \in [Sources -> {Unresolved} \cup UNION { Snapshots[s] : s \in Sources }] :
                \A s \in Sources : r[s] \in Snapshots[s] \cup {Unresolved} }
View == [list : SourceLists, res : Resolves, at : Nat]

ASSUME SizeAssumption == Size \in Nat \ {0}
ASSUME SourcesAssumption == IsFiniteSet(Sources)
ASSUME StartAssumption == /\ Start \in [Ids -> { v \in View : v.at = 0 } \cup {None}]
                          /\ \E k \in Ids : Start[k] # None
ASSUME NoneAssumption == None \notin View

VARIABLES
  disk,      \* the collections, by id
  entries,   \* the memo: definitionsCache.entries
  recent,    \* definitionsCache.recent, the entry used last at the end
  epochs,    \* definitionsCache.epochs
  pc, job,   \* where each handler is, in which call
  shown,     \* the list its call has loaded
  epoch,     \* the epoch it derives at
  derived,   \* what it has read so far of the definitions it derives
  answer,    \* the definitions it answered with
  clock,     \* changes of the disk so far
  done,      \* history: the change an id was at when a write last ended
  floor,     \* history: done, as a call found it when it began
  seen,      \* history: lists that were on disk while the call ran
  calls, writes, edits

memo == <<entries, recent, epochs>>
local == <<shown, epoch, derived>>
history == <<done, floor>>
bounds == <<calls, writes, edits>>
vars == <<disk, entries, recent, epochs, pc, job, shown, epoch, derived, answer, clock,
          done, floor, seen, calls, writes, edits>>

Labels == {"idle", "load", "digest", "drop", "lookup", "epoch", "sources", "resolves",
           "store", "put", "invalidate", "forget", "move"}

TypeOK ==
  /\ disk \in [Ids -> View \cup {None}]
  /\ entries \in [Ids -> View \cup {None}]
  /\ recent \in Seq(Ids) /\ Distinct(recent)
  /\ epochs \in [Ids -> Nat]
  /\ pc \in [Handlers -> Labels]
  /\ job \in [Handlers -> [op : Ops, id : Ids, to : Ids]]
  /\ shown \in [Handlers -> SourceLists]
  /\ epoch \in [Handlers -> Nat]
  /\ derived \in [Handlers -> View]
  /\ answer \in [Handlers -> View \cup {None}]
  /\ clock \in Nat
  /\ done \in [Ids -> Nat]
  /\ floor \in [Handlers -> Nat]
  /\ seen \in [Handlers -> SUBSET SourceLists]
  /\ calls \in Nat /\ writes \in Nat /\ edits \in Nat

\* Any id, for a handler that has not been called yet.
Home == CHOOSE k \in Ids : Start[k] # None

Empty == [list |-> << >>, res |-> [s \in Sources |-> Unresolved], at |-> 0]

Init ==
  /\ disk = Start
  /\ entries = [k \in Ids |-> None]
  /\ recent = << >>
  /\ epochs = [k \in Ids |-> 0]
  /\ pc = [h \in Handlers |-> "idle"]
  /\ job = [h \in Handlers |-> [op |-> "load", id |-> Home, to |-> Home]]
  /\ shown = [h \in Handlers |-> << >>]
  /\ epoch = [h \in Handlers |-> 0]
  /\ derived = [h \in Handlers |-> Empty]
  /\ answer = [h \in Handlers |-> None]
  /\ clock = 0
  /\ done = [k \in Ids |-> 0]
  /\ floor = [h \in Handlers |-> 0]
  /\ seen = [h \in Handlers |-> {}]
  /\ calls = 0 /\ writes = 0 /\ edits = 0
------------------------------------------------------------------------------
(* The definitions a view stands for. *)

Resolved(v) == [i \in DOMAIN v.list |->
                 [id |-> v.list[i], reflects |-> v.list[i] \in Reflecting, snap |-> v.res[v.list[i]]]]

(* The memo.  Each of its operations holds the memo's mutex. *)

Member(l, s) == \E i \in DOMAIN l : l[i] = s

\* No sequence here names anything twice: what is removed leaves one gap to close.
Without(q, k) ==
  IF ~Member(q, k) THEN q
  ELSE LET p == CHOOSE i \in DOMAIN q : q[i] = k
       IN [i \in 1..(Len(q) - 1) |-> q[IF i < p THEN i ELSE i + 1]]

Touch(q, k) == Append(Without(q, k), k)

Hit(k) == entries[k] # None

\* A new entry pushes out the one that was not used for longest.
Store(k, v) ==
  LET q == Touch(recent, k)
      full == Len(q) > Size
  IN /\ recent' = IF full THEN Tail(q) ELSE q
     /\ entries' = [x \in Ids |-> IF full /\ x = Head(q) THEN None ELSE IF x = k THEN v ELSE entries[x]]

\* Whether an entry was derived from this list: the digests are the same.
MatchesAny(k, l) == TRUE
Matches(k, l) == entries[k].list = l

\* A derivation that began before the last invalidation is not stored.
CurrentAlways(h, k) == TRUE
Current(h, k) == epochs[k] = epoch[h]

Invalidate(k) ==
  /\ entries' = [entries EXCEPT ![k] = None]
  /\ recent' = Without(recent, k)
  /\ epochs' = [epochs EXCEPT ![k] = @ + 1]
------------------------------------------------------------------------------
Goto(h, l) == pc' = [pc EXCEPT ![h] = l]

\* A call ends, with definitions or with an error; the answer is kept until the
\* handler's next call.
Answer(h, v) == Goto(h, "idle") /\ answer' = [answer EXCEPT ![h] = v]
Clear(h) == /\ shown' = [shown EXCEPT ![h] = << >>]
            /\ epoch' = [epoch EXCEPT ![h] = 0]
            /\ derived' = [derived EXCEPT ![h] = Empty]
End(h, v) == Answer(h, v) /\ Clear(h)
Fail(h) == End(h, None)

First == [load |-> "load", invoke |-> "lookup", write |-> "load", rename |-> "forget"]

\* The list a call that begins now may have to answer for.
ListNow(k) == IF disk[k] = None THEN {} ELSE {disk[k].list}

\* A call begins: Store.Open, which finds a handle for any id.
Begin(h) ==
  /\ pc[h] = "idle"
  /\ calls < MaxCalls
  /\ calls' = calls + 1
  /\ \E j \in [op : Ops, id : Ids, to : Ids] :
       /\ j.op = "rename" => j.to # j.id
       /\ j.op # "rename" => j.to = j.id
       /\ writes' = writes + (IF j.op = "write" THEN 1 ELSE 0)
       /\ writes' <= MaxWrites
       /\ job' = [job EXCEPT ![h] = j]
       /\ Goto(h, First[j.op])
       /\ floor' = [floor EXCEPT ![h] = done[j.id]]
       /\ seen' = [seen EXCEPT ![h] = ListNow(j.id)]
  /\ answer' = [answer EXCEPT ![h] = None]
  /\ UNCHANGED <<disk, memo, local, clock, done, edits>>

\* The collection a call works on now: a rename goes on with the moved one.
At(h) == job[h].to

\* coll.Load: the list of sources as it is on disk.
Load(h) ==
  LET k == At(h) IN
  /\ pc[h] = "load"
  /\ IF disk[k] = None
     THEN Fail(h)
     ELSE /\ shown' = [shown EXCEPT ![h] = disk[k].list]
          /\ Goto(h, IF job[h].op = "write" THEN "put" ELSE "digest")
          /\ UNCHANGED <<answer, epoch, derived>>
  /\ UNCHANGED <<disk, memo, job, clock, history, seen, bounds>>

\* definitionsFor: an entry is only good for the list it was derived from.
Digest(h) ==
  LET k == At(h) IN
  /\ pc[h] = "digest"
  /\ recent' = IF Hit(k) THEN Touch(recent, k) ELSE recent
  /\ IF Hit(k) /\ Matches(k, shown[h]) THEN End(h, entries[k])
     ELSE Goto(h, IF Hit(k) THEN "drop" ELSE "epoch") /\ UNCHANGED <<answer, local>>
  /\ UNCHANGED <<disk, entries, epochs, job, clock, history, seen, bounds>>

Drop(h) ==
  /\ pc[h] = "drop"
  /\ Invalidate(At(h))
  /\ Goto(h, "epoch")
  /\ UNCHANGED <<disk, job, local, answer, clock, history, seen, bounds>>

\* definitionsOf: an invocation takes the entry as it is.
Lookup(h) ==
  LET k == At(h) IN
  /\ pc[h] = "lookup"
  /\ recent' = IF Hit(k) THEN Touch(recent, k) ELSE recent
  /\ IF Hit(k) THEN End(h, entries[k]) ELSE Goto(h, "epoch") /\ UNCHANGED <<answer, local>>
  /\ UNCHANGED <<disk, entries, epochs, job, clock, history, seen, bounds>>

\* derive: the epoch first, then the two reads, each under the collection's mutex.
ReadEpoch(h) ==
  /\ pc[h] = "epoch"
  /\ epoch' = [epoch EXCEPT ![h] = epochs[At(h)]]
  /\ Goto(h, "sources")
  /\ UNCHANGED <<disk, memo, job, shown, derived, answer, clock, history, seen, bounds>>

ReadSources(h) ==
  LET k == At(h) IN
  /\ pc[h] = "sources"
  /\ IF disk[k] = None
     THEN Fail(h)
     ELSE /\ derived' = [derived EXCEPT ![h] = [disk[k] EXCEPT !.res = Empty.res]]
          /\ Goto(h, "resolves") /\ UNCHANGED <<answer, shown, epoch>>
  /\ UNCHANGED <<disk, memo, job, clock, history, seen, bounds>>

\* A collection that is gone has resolved nothing.
ReadResolves(h) ==
  LET k == At(h) IN
  /\ pc[h] = "resolves"
  /\ derived' = [derived EXCEPT ![h].res = IF disk[k] = None THEN Empty.res ELSE disk[k].res]
  /\ Goto(h, "store")
  /\ UNCHANGED <<disk, memo, job, shown, epoch, answer, clock, history, seen, bounds>>

StoreDerived(h) ==
  LET k == At(h) IN
  /\ pc[h] = "store"
  /\ IF Current(h, k) THEN Store(k, derived[h]) ELSE UNCHANGED <<entries, recent>>
  /\ End(h, derived[h])
  /\ UNCHANGED <<disk, epochs, job, clock, history, seen, bounds>>
------------------------------------------------------------------------------
(* The calls that change a collection. *)

\* What every call that is running on this id sees pass by.
Witness(k) == seen' = [h \in Handlers |-> IF At(h) = k THEN seen[h] \cup {disk'[k].list} ELSE seen[h]]

\* The lists a source handler can write, from the one it loaded: a source is
\* added or refreshed, the sources are put in another order, or one is removed.
Updated(l, s) == IF Member(l, s) THEN l ELSE Append(l, s)
Reordered(l) == { m \in SourceLists : Len(m) = Len(l) /\ \A s \in Sources : Member(m, s) <=> Member(l, s) }

Writes(l) == { [list |-> Updated(l, s), fresh |-> {s}] : s \in Sources }
             \cup { [list |-> Without(l, s), fresh |-> {}] : s \in Sources }
             \cup { [list |-> m, fresh |-> {}] : m \in Reordered(l) }

\* What the listed sources resolve to: the fresh one to a new snapshot, the
\* others to what is stored, and one with nothing stored is tried again.
Outcomes(k, l, fresh) ==
  { r \in Resolves : \A s \in Sources :
      /\ ~Member(l, s) => r[s] = Unresolved
      /\ s \in fresh => r[s] # Unresolved
      /\ Member(l, s) /\ s \notin fresh /\ disk[k].res[s] # Unresolved => r[s] = disk[k].res[s] }

\* putDescriptorState, up to and with PutDescriptorState: sources that do not
\* merge are refused.  A failure after the files were written is reported and
\* invalidates nothing.
Put(h) ==
  LET k == At(h) IN
  /\ pc[h] = "put"
  /\ \/ /\ disk[k] = None
        /\ Fail(h)
        /\ UNCHANGED <<disk, clock, seen>>
     \/ /\ disk[k] # None
        /\ \E w \in Writes(shown[h]) : \E r \in Outcomes(k, w.list, w.fresh) :
             LET v == [list |-> w.list, res |-> r, at |-> clock + 1] IN
             \/ /\ Conflict(Resolved(v))
                /\ Fail(h)
                /\ UNCHANGED <<disk, clock, seen>>
             \/ /\ ~Conflict(Resolved(v))
                /\ disk' = [disk EXCEPT ![k] = v]
                /\ clock' = clock + 1
                /\ Witness(k)
                /\ \/ Goto(h, "invalidate") /\ UNCHANGED <<answer, local>>
                   \/ Fail(h)
  /\ UNCHANGED <<memo, job, history, bounds>>

\* The memo forgets what the write has replaced; the call loads the collection
\* again for its answer.
WriteDone(h) ==
  LET k == At(h) IN
  /\ pc[h] = "invalidate"
  /\ Invalidate(k)
  /\ done' = [done EXCEPT ![k] = IF disk[k] = None THEN @ ELSE disk[k].at]
  /\ job' = [job EXCEPT ![h].op = "load"]
  /\ Goto(h, "load")
  /\ UNCHANGED <<disk, local, answer, clock, floor, seen, bounds>>

\* UpdateCollection with another id: the memo forgets the old id, then the
\* directory is moved.
Forget(h) ==
  /\ pc[h] = "forget"
  /\ Invalidate(job[h].id)
  /\ Goto(h, "move")
  /\ UNCHANGED <<disk, job, local, answer, clock, history, seen, bounds>>

Move(h) ==
  LET old == job[h].id
      new == job[h].to
  IN
  /\ pc[h] = "move"
  /\ IF disk[old] = None \/ disk[new] # None
     THEN Fail(h) /\ UNCHANGED <<disk, clock, seen>>
     ELSE /\ disk' = [disk EXCEPT ![old] = None, ![new] = [disk[old] EXCEPT !.at = clock + 1]]
          /\ clock' = clock + 1
          /\ Witness(new)
          /\ Goto(h, "load") /\ UNCHANGED <<answer, local>>
  /\ UNCHANGED <<memo, job, history, bounds>>

\* A person, or a git checkout, changes which sources a collection lists.
Edit(k) ==
  /\ disk[k] # None
  /\ edits < MaxEdits
  /\ edits' = edits + 1
  /\ \E l \in SourceLists \ ListNow(k) :
       disk' = [disk EXCEPT ![k].list = l, ![k].at = clock + 1]
  /\ clock' = clock + 1
  /\ Witness(k)
  /\ UNCHANGED <<memo, pc, job, local, answer, history, calls, writes>>

Step(h) ==
  \/ Begin(h) \/ Load(h) \/ Digest(h) \/ Drop(h) \/ Lookup(h)
  \/ ReadEpoch(h) \/ ReadSources(h) \/ ReadResolves(h) \/ StoreDerived(h)
  \/ Put(h) \/ WriteDone(h) \/ Forget(h) \/ Move(h)

Next == (\E h \in Handlers : Step(h)) \/ (\E k \in Ids : Edit(k))

Spec == Init /\ [][Next]_vars
------------------------------------------------------------------------------
(* Properties. *)

\* Nothing in the memo is older than the last write that has ended under its
\* id, however long ago its derivation began (definitionsCache.epochs).
MemoFresh == \A k \in Ids : entries[k] # None => entries[k].at >= done[k]

\* What a load answers was derived from a list that was on disk while it ran,
\* so that it shows an edit by hand that no call has announced
\* (definitionsFor's digest).  An invocation need not.
LoadSeesEdits ==
  \A h \in Handlers : answer[h] # None /\ job[h].op # "invoke" => answer[h].list \in seen[h]

\* No load, invocation or write answers with definitions older than a write that
\* had ended when the call began: a source that was added can be invoked at once.
\* A load sees edits by hand as well, and the variables keep their types on the way.
\* A rename may not keep to it: what it finds in the memo under the new id can have been
\* stored while an earlier one was moving a directory away from it (workspace.go:176).
ServedFresh ==
  /\ TypeOK
  /\ LoadSeesEdits
  /\ \A h \in Handlers : answer[h] # None /\ job[h].op # "rename" => answer[h].at >= floor[h]

\* The memo holds what it remembers to have used, and no more than it has room for.
MemoExact ==
  /\ Len(recent) <= Size
  /\ \A k \in Ids : Hit(k) <=> Member(recent, k)

\* A source that comes later in the list takes nothing from those before it:
\* what they offer alone is offered still, won by the same source and called on
\* the same server, as long as the sources merge at all (mergeSources).
PriorityHolds ==
  \A v \in { entries[k] : k \in { x \in Ids : Hit(x) } } :
    LET rs == Resolved(v) IN
    ~Conflict(rs) =>
      \A n \in DOMAIN rs :
        LET first == SubSeq(rs, 1, n) IN
        /\ Offered(first) \subseteq Offered(rs)
        /\ \A s \in Offered(first) :
             /\ WonBy(first, s) = WonBy(rs, s)
             /\ Servers(first, s) # {} => Dial(first, s) = Dial(rs, s)
==============================================================================
