--------------------------- MODULE WorkbenchProofs ---------------------------
(***************************************************************************)
(* What the workbench promises a user who waits for pending saves and runs *)
(* before changing the tree (Care), for any number of requests, names,     *)
(* edits, runs and tabs.                                                   *)
(*                                                                         *)
(* The argument has two parts.  While the tree is being changed nothing    *)
(* else is under way, so the snapshot and the server's tree agree about    *)
(* who is where, but for the one change that is not received yet (Phase);  *)
(* what is kept by key is then of the request that the snapshot has there  *)
(* (Kept).  And bodies are numbered by the edits that typed them: a save   *)
(* that waits is newer than those on their way, and once the newest is     *)
(* sent only it and those it was sent among are still to come (Typed).     *)
(***************************************************************************)
EXTENDS Workbench, FiniteSetTheorems, WellFoundedInduction, TLAPS

(* Numbers. *)

Less == { p \in Nat \X Nat : p[1] < p[2] }

LEMMA LeastNumber ==
  ASSUME NEW T \in SUBSET Nat, T # {}
  PROVE  \E x \in T : \A y \in T : x <= y
<1>1. IsWellFoundedOn(Less, Nat)
  <2>1. Less = OpToRel(<, Nat)
    BY DEF Less, OpToRel
  <2> QED
    BY <2>1, NatLessThanWellFounded
<1>2. PICK x \in T : \A y \in T : <<y, x>> \notin Less
  BY <1>1, WFMin
<1>3. ASSUME NEW y \in T PROVE x <= y
  <2>1. x \in Nat /\ y \in Nat /\ ~(y < x)
    BY <1>2 DEF Less
  <2> QED
    BY <2>1
<1> QED
  BY <1>3

LEMMA MinThere ==
  ASSUME NEW T \in SUBSET Nat, T # {}
  PROVE  Min(T) \in T
  BY LeastNumber DEF Min

LEMMA MaxThere ==
  ASSUME NEW n \in Nat, NEW T \in SUBSET (0..n), T # {}
  PROVE  Max(T) \in T
<1> DEFINE below == { m \in Nat : n - m \in T }
<1>1. PICK t \in T : TRUE
  OBVIOUS
<1>2. n - t \in below
  BY <1>1
<1>3. PICK m \in below : \A k \in below : m <= k
  BY <1>2, LeastNumber
<1>4. \A y \in T : n - y \in below
  OBVIOUS
<1>5. n - m \in T /\ \A y \in T : n - m >= y
  BY <1>3, <1>4
<1> QED
  BY <1>5 DEF Max

(* A finite set of positions can be gone through in its order. *)

Enumerates(f, T) == /\ f \in [1..Cardinality(T) -> T]
                    /\ \A i, j \in DOMAIN f : i < j => f[i] < f[j]

LEMMA Enumeration ==
  ASSUME NEW n \in Nat, NEW T \in SUBSET (1..n)
  PROVE  \E f : Enumerates(f, T)
<1> DEFINE upto(m) == { x \in T : x <= m }
           fails == { m \in 0..n : ~ \E f : Enumerates(f, upto(m)) }
<1>1. \A m \in 0..n : IsFiniteSet(upto(m)) /\ Cardinality(upto(m)) \in Nat
  <2> TAKE m \in 0..n
  <2>1. IsFiniteSet(1..n)
    BY FS_Interval
  <2>2. upto(m) \in SUBSET (1..n)
    OBVIOUS
  <2>3. IsFiniteSet(upto(m))
    BY <2>1, <2>2, FS_Subset
  <2> QED
    BY <2>3, FS_CardinalityType
<1>2. \A x \in T : x \in Nat /\ 1 <= x /\ x <= n
  OBVIOUS
<1>3. upto(n) = T
  BY <1>2
<1>4. {x \in T : x <= 0} = {}
  <2>1. \A x \in T : ~(x <= 0)
    BY <1>2
  <2> QED
    BY <2>1
<1>5. ASSUME NEW m \in 1..n
      PROVE  {x \in T : x <= m} = IF m \in T THEN {x \in T : x <= m - 1} \cup {m} ELSE {x \in T : x <= m - 1}
  <2>1. \A x \in T : x <= m <=> x <= m - 1 \/ x = m
    BY <1>2
  <2>2. m <= m
    OBVIOUS
  <2> QED
    BY <2>1, <2>2
<1>6. ASSUME fails # {} PROVE FALSE
  <2>1. fails \in SUBSET Nat
    OBVIOUS
  <2>2. PICK m \in fails : \A k \in fails : m <= k
    BY <1>6, <2>1, LeastNumber
  <2>3. m \in 0..n
    BY <2>2
  <2>4. m # 0
    <3>1. SUFFICES ASSUME m = 0 PROVE FALSE
      OBVIOUS
    <3>2. upto(m) = {}
      BY <1>4, <3>1
    <3>3. Cardinality(upto(m)) = 0
      BY <3>2, FS_EmptySet
    <3>4. 1..0 = {}
      OBVIOUS
    <3>5. Enumerates([i \in {} |-> i], upto(m))
      BY <3>2, <3>3, <3>4 DEF Enumerates
    <3> QED
      BY <2>2, <3>5
  <2>5. m - 1 \in 0..n /\ m - 1 \notin fails
    <3>1. m \in Nat /\ m - 1 \in 0..n /\ ~(m <= m - 1)
      BY <2>3, <2>4
    <3> HIDE DEF fails
    <3> QED
      BY <2>2, <3>1
  <2> DEFINE T0 == upto(m - 1)
  <2>6. PICK f : Enumerates(f, T0)
    <3> HIDE DEF upto
    <3> QED
      BY <2>5
  <2>7. CASE m \notin T
    <3>1. upto(m) = T0
      BY <1>5, <2>3, <2>4, <2>7
    <3> QED
      BY <2>2, <2>6, <3>1
  <2>8. CASE m \in T
    <3>1. upto(m) = T0 \cup {m}
      BY <1>5, <2>3, <2>4, <2>8
    <3>2. IsFiniteSet(T0) /\ Cardinality(T0) \in Nat /\ m \notin T0
      <4>1. m \notin T0
        BY <2>3
      <4> HIDE DEF upto
      <4> QED
        BY <1>1, <2>5, <4>1
    <3> DEFINE c == Cardinality(T0)
    <3>3. Cardinality(upto(m)) = c + 1
      BY <3>1, <3>2, FS_AddElement
    <3>4. \A x \in T0 : x < m /\ x \in Nat
      BY <2>3
    <3> DEFINE g == [i \in 1..(c + 1) |-> IF i = c + 1 THEN m ELSE f[i]]
    <3>5. f \in [1..c -> T0] /\ \A i, j \in 1..c : i < j => f[i] < f[j]
      BY <2>6 DEF Enumerates
    <3> HIDE DEF c, T0, upto
    <3>6. g \in [1..(c + 1) -> upto(m)]
      BY <3>1, <3>2, <3>5 DEF c
    <3>7. \A i, j \in 1..(c + 1) : i < j => g[i] < g[j]
      BY <3>2, <3>4, <3>5 DEF c
    <3>8. Enumerates(g, upto(m))
      BY <3>3, <3>6, <3>7 DEF Enumerates
    <3> QED
      BY <2>2, <3>8
  <2> QED
    BY <2>7, <2>8
<1> QED
  BY <1>3, <1>6

\* It then meets every member.
LEMMA AllEnumerated ==
  ASSUME NEW T \in SUBSET Nat, IsFiniteSet(T), NEW f, Enumerates(f, T), NEW x \in T
  PROVE  \E i \in DOMAIN f : f[i] = x
<1> SUFFICES ASSUME \A i \in DOMAIN f : f[i] # x PROVE FALSE
  OBVIOUS
<1> DEFINE c == Cardinality(T)
<1>3. c \in Nat /\ IsFiniteSet(T \ {x}) /\ Cardinality(T \ {x}) = c - 1
  BY FS_CardinalityType, FS_RemoveElement
<1>4. IsFiniteSet(1..c) /\ Cardinality(1..c) = c
  <2>1. 1 \in Int /\ c \in Int
    BY <1>3
  <2>2. IsFiniteSet(1..c) /\ Cardinality(1..c) = IF 1 > c THEN 0 ELSE c - 1 + 1
    BY <2>1, FS_Interval
  <2> HIDE DEF c
  <2> QED
    BY <1>3, <2>2
<1>5. f \in [1..c -> T \ {x}]
  BY DEF Enumerates
<1> HIDE DEF c
<1>6. Cardinality(T \ {x}) < Cardinality(1..c)
  BY <1>3, <1>4
<1>7. PICK i, j \in 1..c : i # j /\ f[i] = f[j]
  BY <1>3, <1>4, <1>5, <1>6, FS_PigeonHole
<1>8. \A a, b \in 1..c : a < b => f[a] < f[b]
  BY DEF Enumerates, c
<1>9. f[i] \in Nat
  BY <1>5, <1>7
<1>10. i < j \/ j < i
  BY <1>3, <1>7
<1> QED
  BY <1>7, <1>8, <1>9, <1>10

\* What is left of the strip are the tabs that are not gone.
LEMMA RemainingTabs ==
  ASSUME NEW T, tabs \in Seq(T), NEW gone
  PROVE  /\ Remaining(gone) \in Seq(T)
         /\ \A k : Contains(Remaining(gone), k) <=> Contains(tabs, k) /\ k \notin gone
<1> DEFINE n == Len(tabs)
           left == {i \in DOMAIN tabs : tabs[i] \notin gone}
           nth == CHOOSE f \in [1..Cardinality(left) -> left] : \A i, j \in DOMAIN f : i < j => f[i] < f[j]
<1>1. n \in Nat /\ left \in SUBSET (1..n) /\ DOMAIN tabs = 1..n
  OBVIOUS
<1>2. \E f : Enumerates(f, left)
  <2> HIDE DEF n, left
  <2> QED
    BY <1>1, Enumeration
<1>3. Enumerates(nth, left)
  <2> HIDE DEF left
  <2> QED
    BY <1>2 DEF Enumerates
<1>4. IsFiniteSet(left) /\ left \in SUBSET Nat /\ Cardinality(left) \in Nat
  <2>1. IsFiniteSet(1..n)
    BY <1>1, FS_Interval
  <2>2. IsFiniteSet(left)
    BY <1>1, <2>1, FS_Subset
  <2> QED
    BY <1>1, <2>2, FS_CardinalityType
<1>5. Remaining(gone) = [i \in DOMAIN nth |-> tabs[nth[i]]]
  BY DEF Remaining
<1> DEFINE c == Cardinality(left)
<1> HIDE DEF nth
<1>6. nth \in [1..c -> left]
  BY <1>3 DEF Enumerates
<1>7. Remaining(gone) = [i \in 1..c |-> tabs[nth[i]]]
  BY <1>5, <1>6
<1>8. \A i \in left : tabs[i] \in T
  BY <1>1
<1>9. \A x \in left : \E i \in 1..c : nth[i] = x
  <2> HIDE DEF left, n, c
  <2> TAKE x \in left
  <2>1. \E i \in DOMAIN nth : nth[i] = x
    BY <1>3, <1>4, AllEnumerated
  <2> QED
    BY <1>6, <2>1
<1>10. c \in Nat
  BY <1>4
<1> HIDE DEF c
<1>11. Remaining(gone) \in Seq(T) /\ Len(Remaining(gone)) = c
  BY <1>6, <1>7, <1>8, <1>10
<1>12. ASSUME NEW k
       PROVE  Contains(Remaining(gone), k) <=> Contains(tabs, k) /\ k \notin gone
  <2>1. ASSUME Contains(Remaining(gone), k) PROVE Contains(tabs, k) /\ k \notin gone
    <3>1. PICK i \in 1..c : Remaining(gone)[i] = k
      BY <1>11, <2>1 DEF Contains
    <3>2. nth[i] \in left /\ tabs[nth[i]] = k
      BY <1>6, <1>7, <3>1
    <3> QED
      BY <1>1, <3>2 DEF Contains
  <2>2. ASSUME Contains(tabs, k), k \notin gone PROVE Contains(Remaining(gone), k)
    <3>1. PICK x \in 1..n : tabs[x] = k
      BY <2>2 DEF Contains
    <3>2. x \in left
      BY <1>1, <2>2, <3>1
    <3>3. PICK i \in 1..c : nth[i] = x
      BY <1>9, <3>2
    <3>4. Remaining(gone)[i] = k
      BY <1>7, <3>1, <3>3
    <3> QED
      BY <1>11, <3>4 DEF Contains
  <2> QED
    BY <2>1, <2>2
<1> QED
  BY <1>11, <1>12

------------------------------------------------------------------------------
(* The invariant. *)

Forests == [Reqs -> Items \cup {None}]

Saves == [op : {"save"}, addr : Addrs, body : 1..MaxEdits]
Gets == [op : {"get"}, n : 1..MaxRuns]
Creates == [op : {"create"}, n : Nat, of : Reqs, to : Addrs]
Renames == [op : {"rename"}, n : Nat, addr : Addrs, to : Addrs]
Moves == [op : {"move"}, n : Nat, addr : Addrs, to : Addrs, key : Keys]
Deletes == [op : {"delete"}, n : Nat, addr : Addrs]

Plain == Saves \cup Gets
Changes == Creates \cup Renames \cup Moves \cup Deletes
Answers == [call : Plain \cup Changes, ok : BOOLEAN, tree : Forests]

Timers == [key : Keys, addr : Addrs, body : 1..MaxEdits, held : BOOLEAN]
Runs == [n : 1..MaxRuns, key : Keys, of : Reqs, held : BOOLEAN, stopped : BOOLEAN]

StripInv == /\ tabs \in Seq(Keys \cup {Folder})
            /\ active = None \/ Contains(tabs, active)

ShapeInv ==
  /\ tree \in Forests /\ cache \in Forests
  /\ calls \subseteq Plain \cup Changes /\ answers \subseteq Answers
  /\ StripInv
  /\ drafts \in [Keys -> Drafts \cup {None}]
  /\ shown \in [Keys -> Views \cup {None}]
  /\ timers \subseteq Timers
  /\ runs \subseteq Runs
  /\ rivals \in [Reqs -> SUBSET (1..MaxEdits)]
  /\ count \in [edits : 0..MaxEdits, tree : Nat, runs : 0..MaxRuns, moved : Nat, born : SUBSET Reqs]

\* Two trees have the same requests, under the same keys and names.
Alike(t, u) ==
  \A r \in Reqs : /\ t[r] = None <=> u[r] = None
                  /\ t[r] # None => Key(t[r]) = Key(u[r]) /\ Addr(t[r]) = Addr(u[r])

\* Nothing is kept under a key, and no tab has it.
Bare(key) == drafts[key] = None /\ shown[key] = None /\ ~ Contains(tabs, key)

\* What a change that is sent says of the snapshot; a move is the last there was.
Fitted(c) ==
  /\ c.op = "create" => cache[c.of] = None
  /\ c.op = "rename" => c.to.dir = c.addr.dir
  /\ c.op = "move" => /\ c.to.name = c.addr.name
                      /\ \E r \in Reqs : cache[r] # None /\ c.addr = Addr(cache[r]) /\ c.key = Key(cache[r])
  /\ c.op = "delete" => \A r \in Reqs : cache[r] # None /\ c.addr = Addr(cache[r]) => Bare(Key(cache[r]))

Fitting(c) == Fitted(c) /\ (c.op = "move" => c.n = count.moved)

\* Where the requests of the snapshot are once the change is made.
Follows(c) ==
  /\ \A r \in Reqs : cache[r] # None =>
       \/ tree[r] = None /\ c.op = "delete" /\ Bare(Key(cache[r]))
       \/ tree[r] # None /\ Key(tree[r]) = Key(cache[r]) /\ (c.op = "move" => c.key # Key(cache[r]))
       \/ tree[r] # None /\ c.op = "move" /\ c.key = Key(cache[r]) /\ c.to = Addr(tree[r])
  /\ c.op = "move" => c.n = count.moved /\ \E r \in Reqs : cache[r] # None /\ c.key = Key(cache[r])

\* Nothing changes the tree; a change is on its way; a change is answered.
Calm ==
  /\ \A i \in calls : i \in Plain
  /\ \A i \in answers : i.call \in Plain /\ Alike(i.tree, tree)
  /\ Alike(cache, tree)

Still == timers = {} /\ runs = {}

Asked ==
  /\ Still /\ answers = {} /\ Alike(cache, tree)
  /\ \E c \in Changes : calls = {c} /\ Fitting(c) /\ (c.op = "create" => c.of \in count.born)

Answered ==
  /\ Still /\ calls = {}
  /\ \E c \in Changes : \E ok \in BOOLEAN :
       /\ answers = {[call |-> c, ok |-> ok, tree |-> tree]}
       /\ IF ok THEN Follows(c) ELSE Alike(cache, tree)

Phase == Calm \/ Asked \/ Answered

\* Who is there, has been created; no two are at one place.
BornInv ==
  /\ \A r \in Reqs : tree[r] # None \/ cache[r] # None => r \in count.born
  /\ Unambiguous(tree) /\ Unambiguous(cache)

\* What is kept under a key is of the request that the snapshot has there, and
\* the request in view has a draft.
Sits(r, key) == cache[r] # None /\ Key(cache[r]) = key

Kept ==
  /\ \A key \in Keys : drafts[key] # None => Sits(drafts[key].of, key)
  /\ \A key \in Keys : shown[key] # None => Sits(shown[key].of, key)
  /\ \A u \in runs : Sits(u.of, u.key)
  /\ active \in Keys /\ At(cache, active) # {} => drafts[active] # None

\* A save of this body to this address waits, or is on its way.
Sent(a, b) == \E n \in calls : n.op = "save" /\ n.addr = a /\ n.body = b
Waits(a, b) == \E t \in timers : t.addr = a /\ t.body = b
Pending(a, b) == Sent(a, b) \/ Waits(a, b)

Order ==
  /\ \A t, u \in timers : t.body = u.body => t = u
  /\ \A n \in calls, t \in timers : n.op = "save" => n.body < t.body
  /\ \A a \in Addrs, b \in 1..MaxEdits : Pending(a, b) => b <= count.edits

\* The last save has been sent: all that are on their way are those it was sent
\* among, and what is there, or still comes, is it or one of those.
Final(d) == {d.body} \cup rivals[d.of]

SentLast(d, i) ==
  /\ \A b \in 1..MaxEdits : ~ Waits(Addr(i), b) /\ (Sent(Addr(i), b) => b \in Final(d))
  /\ i.body \in Final(d) \/ Sent(Addr(i), d.body)

\* The draft has what is saved last.
Latest(d, i) ==
  /\ i # None
  /\ \A b \in 1..MaxEdits : Pending(Addr(i), b) => b <= d.body
  /\ Waits(Addr(i), d.body) \/ SentLast(d, i)

Typed == \A key \in Keys : drafts[key] # None => Latest(drafts[key], tree[drafts[key].of])

\* What is saved has been typed, and a timer is of the request under its key.
Owned ==
  /\ \A a \in Addrs, b \in 1..MaxEdits :
       Pending(a, b) => \E key \in Keys : drafts[key] # None /\ a = Addr(tree[drafts[key].of])
  /\ \A t \in timers : drafts[t.key] # None /\ t.addr = Addr(tree[drafts[t.key].of])

\* What was not opened, was not changed.
Opened(r) == \E key \in Keys : drafts[key] # None /\ drafts[key].of = r
SameBody(t, u, r) == t[r] # None /\ u[r] # None => t[r].body = u[r].body

Untouched ==
  \A r \in Reqs : ~ Opened(r) =>
    /\ SameBody(tree, cache, r)
    /\ \A n \in answers : SameBody(tree, n.tree, r)

Bodies == Order /\ Typed /\ Owned /\ Untouched

WorkInv == ShapeInv /\ Phase /\ BornInv /\ Kept /\ Bodies /\ BusyEnds

LEMMA Shapes ==
  ASSUME NEW t \in Forests, NEW r \in Reqs, t[r] # None
  PROVE  /\ t[r] \in Items
         /\ Key(t[r]) \in Keys /\ Addr(t[r]) \in Addrs
         /\ t[r].body \in 0..MaxEdits
  BY DEF Forests, Items, Keys, Addrs, Key, Addr

\* Who is at a key or at an address is one at most.
LEMMA OneThere ==
  ASSUME NEW t, Unambiguous(t), NEW r \in Reqs, NEW s \in Reqs, t[r] # None, t[s] # None,
         Key(t[r]) = Key(t[s]) \/ Addr(t[r]) = Addr(t[s])
  PROVE  r = s
  BY DEF Unambiguous

\* Only what the snapshot has there can be kept under a key.
LEMMA KeptThere ==
  ASSUME Kept, BornInv, NEW r \in Reqs, NEW key \in Keys, r \in At(cache, key),
         ShapeInv
  PROVE  /\ drafts[key] # None => drafts[key].of = r
         /\ shown[key] # None => shown[key].of = r
<1>1. drafts[key] # None => drafts[key].of \in Reqs
  BY DEF ShapeInv, Drafts
<1>2. shown[key] # None => shown[key].of \in Reqs
  BY DEF ShapeInv, Views
<1>3. cache[r] # None /\ Key(cache[r]) = key
  BY DEF At
<1> QED
  BY <1>1, <1>2, <1>3, OneThere DEF Kept, Sits, BornInv

LEMMA InitialWork == Init => WorkInv
<1> SUFFICES ASSUME Init PROVE WorkInv
  OBVIOUS
<1>1. tree \in Forests /\ Unambiguous(tree) /\ \A r \in Reqs : tree[r] # None => tree[r].body = 0
  BY TreesAssumption DEF Init, Forests
<1>2. ShapeInv
  <2>1. 0 \in 0..MaxEdits /\ 0 \in 0..MaxRuns
    BY BoundsAssumption
  <2>2. count \in [edits : 0..MaxEdits, tree : Nat, runs : 0..MaxRuns, moved : Nat, born : SUBSET Reqs]
    BY <2>1 DEF Init
  <2> QED
    BY <1>1, <2>2 DEF Init, ShapeInv, StripInv
<1>3. Calm
  BY DEF Init, Calm, Alike
<1>4. BornInv
  BY <1>1 DEF Init, BornInv
<1>5. Kept
  BY NoneAssumption DEF Init, Kept
<1>6. \A a \in Addrs, b \in 1..MaxEdits : ~ Pending(a, b)
  BY DEF Init, Pending, Sent, Waits
<1>7. Order
  BY <1>6 DEF Init, Order
<1>8. Typed /\ Owned /\ Untouched
  BY <1>6 DEF Init, Typed, Owned, Untouched, SameBody
<1>9. BusyEnds
  BY DEF Init, BusyEnds
<1> QED
  BY <1>2, <1>3, <1>4, <1>5, <1>7, <1>8, <1>9 DEF WorkInv, Phase, Bodies

(* What changes the tree is alone. *)

LEMMA OnlyCalm ==
  ASSUME Phase, ShapeInv
  PROVE  ~ Changing => Calm
<1>1. ASSUME Asked PROVE Changing
  <2>1. PICK c \in Changes : calls = {c}
    BY <1>1 DEF Asked
  <2>2. c.op \in {"create", "rename", "move", "delete"}
    BY DEF Changes, Creates, Renames, Moves, Deletes
  <2>3. c \in calls
    BY <2>1
  <2> QED
    BY <2>2, <2>3 DEF Changing
<1>2. ASSUME Answered PROVE Changing
  <2>1. PICK c \in Changes, ok \in BOOLEAN : answers = {[call |-> c, ok |-> ok, tree |-> tree]}
    BY <1>2 DEF Answered
  <2>2. c.op \in {"create", "rename", "move", "delete"}
    BY DEF Changes, Creates, Renames, Moves, Deletes
  <2>3. \E a \in answers : a.call = c
    BY <2>1
  <2> QED
    BY <2>2, <2>3 DEF Changing
<1> QED
  BY <1>1, <1>2 DEF Phase

LEMMA CalmPlain ==
  ASSUME Calm
  PROVE  ~ Changing
<1>1. \A c \in Plain : c.op \notin {"create", "rename", "move", "delete"}
  BY DEF Plain, Saves, Gets
<1> QED
  BY <1>1 DEF Calm, Changing

\* What waits or runs shows that nothing changes the tree.
LEMMA BusyCalm ==
  ASSUME Phase, timers # {} \/ runs # {}
  PROVE  Calm
  BY DEF Phase, Asked, Answered, Still

(* Seeding. *)

SeededFrom(e, c, key, d) ==
  /\ e \in [Keys -> Drafts \cup {None}]
  /\ \A k \in Keys : \/ e[k] = d[k]
                     \/ /\ k = key /\ d[k] = None
                        /\ \E r \in At(c, key) : e[k] = [body |-> c[r].body, of |-> r]
  /\ key \in Keys /\ At(c, key) # {} => e[key] # None

LEMMA Seeding ==
  ASSUME NEW c \in Forests, NEW d \in [Keys -> Drafts \cup {None}], NEW key
  PROVE  SeededFrom(Seeded(c, key, d), c, key, d)
<1>1. CASE key \in Keys /\ At(c, key) # {} /\ d[key] = None
  <2> DEFINE r == CHOOSE x \in At(c, key) : TRUE
             v == [body |-> c[r].body, of |-> r]
  <2>1. r \in At(c, key) /\ r \in Reqs /\ c[r] # None
    BY <1>1 DEF At
  <2>2. Seeded(c, key, d) = [d EXCEPT ![key] = v]
    BY <1>1 DEF Seeded
  <2> HIDE DEF r
  <2>3. v \in Drafts
    BY <2>1, Shapes DEF Drafts
  <2>4. v # None
    BY <2>3, NoneAssumption
  <2>5. \E s \in At(c, key) : v = [body |-> c[s].body, of |-> s]
    BY <2>1
  <2> HIDE DEF v
  <2> QED
    BY <1>1, <2>2, <2>3, <2>4, <2>5 DEF SeededFrom
<1>2. CASE ~ (key \in Keys /\ At(c, key) # {} /\ d[key] = None)
  <2>1. Seeded(c, key, d) = d
    BY <1>2 DEF Seeded
  <2> QED
    BY <1>2, <2>1 DEF SeededFrom
<1> QED
  BY <1>1, <1>2

\* Nothing is saved of a request that was not opened.
LEMMA Unopened ==
  ASSUME ShapeInv, BornInv, Typed, Owned,
         NEW r \in Reqs, tree[r] # None, ~ Opened(r), NEW b \in 1..MaxEdits
  PROVE  ~ Pending(Addr(tree[r]), b)
<1> SUFFICES ASSUME Pending(Addr(tree[r]), b) PROVE FALSE
  OBVIOUS
<1>1. Addr(tree[r]) \in Addrs
  BY Shapes DEF ShapeInv
<1>2. PICK key \in Keys : drafts[key] # None /\ Addr(tree[r]) = Addr(tree[drafts[key].of])
  BY <1>1 DEF Owned
<1>3. drafts[key].of \in Reqs
  BY <1>2 DEF ShapeInv, Drafts
<1>4. tree[drafts[key].of] # None
  BY <1>2 DEF Typed, Latest
<1>5. drafts[key].of = r
  BY <1>2, <1>3, <1>4, OneThere DEF BornInv
<1> QED
  BY <1>2, <1>5 DEF Opened

(* Tabs come and go: what is kept only grows by the draft of what is opened. *)

\* The step of a user that changes nothing but the strip and what comes with it.
Opens(key) ==
  /\ Activate(key)
  /\ tabs' \in Seq(Keys \cup {Folder})
  /\ key = None \/ Contains(tabs', key)
  /\ Changing => \A k : Contains(tabs', k) => Contains(tabs, k)
  /\ key = Folder => runs = {}

LEMMA LetsGo ==
  ASSUME NEW key, NEW held
  PROVE  LetGo(key, held) \in {held, {[x EXCEPT !.held = FALSE] : x \in held}}
  BY DEF LetGo

LEMMA OpensTimers ==
  ASSUME ShapeInv, NEW key, Opens(key)
  PROVE  /\ timers' \subseteq Timers /\ runs' = runs
         /\ \A u \in timers' : \E t \in timers : u.key = t.key /\ u.addr = t.addr /\ u.body = t.body
         /\ \A t \in timers : \E u \in timers' : u.key = t.key /\ u.addr = t.addr /\ u.body = t.body
         /\ (\A t, u \in timers : t.body = u.body => t = u) => \A t, u \in timers' : t.body = u.body => t = u
<1>1. timers' = LetGo(key, timers) /\ runs' = LetGo(key, runs)
  BY DEF Opens, Activate
<1>2. runs' = runs
  BY <1>1 DEF LetGo, Opens
<1>3. CASE timers' = timers
  BY <1>2, <1>3 DEF ShapeInv
<1>4. CASE timers' = {[x EXCEPT !.held = FALSE] : x \in timers}
  <2>1. ASSUME NEW t \in timers
        PROVE  LET u == [t EXCEPT !.held = FALSE] IN
               u \in Timers /\ u.key = t.key /\ u.addr = t.addr /\ u.body = t.body
    BY DEF ShapeInv, Timers
  <2>2. timers' \subseteq Timers
    BY <1>4, <2>1
  <2>3. \A u \in timers' : \E t \in timers : u = [t EXCEPT !.held = FALSE]
    BY <1>4
  <2>4. \A t \in timers : [t EXCEPT !.held = FALSE] \in timers'
    BY <1>4
  <2>5. \A u \in timers' : \E t \in timers : u.key = t.key /\ u.addr = t.addr /\ u.body = t.body
    BY <2>1, <2>3
  <2>6. \A t \in timers : \E u \in timers' : u.key = t.key /\ u.addr = t.addr /\ u.body = t.body
    BY <2>1, <2>4
  <2>7. ASSUME \A t, u \in timers : t.body = u.body => t = u, NEW v \in timers', NEW w \in timers', v.body = w.body
        PROVE  v = w
    <3>1. PICK t \in timers : v = [t EXCEPT !.held = FALSE]
      BY <2>3
    <3>2. PICK u \in timers : w = [u EXCEPT !.held = FALSE]
      BY <2>3
    <3>3. t.body = u.body
      BY <2>1, <2>7, <3>1, <3>2
    <3> QED
      BY <2>7, <3>1, <3>2, <3>3
  <2> QED
    BY <1>2, <2>2, <2>5, <2>6, <2>7
<1> QED
  BY <1>1, <1>3, <1>4, LetsGo

LEMMA OpensPending ==
  ASSUME ShapeInv, NEW key, Opens(key)
  PROVE  \A a, b : /\ Pending(a, b)' <=> Pending(a, b)
                   /\ Waits(a, b)' <=> Waits(a, b)
                   /\ Sent(a, b)' <=> Sent(a, b)
<1>1. \A a, b : Waits(a, b)' <=> Waits(a, b)
  BY OpensTimers DEF Waits
<1>2. calls' = calls
  BY DEF Opens, Activate, server
<1>3. \A a, b : Sent(a, b)' <=> Sent(a, b)
  BY <1>2 DEF Sent
<1> QED
  BY <1>1, <1>3 DEF Pending

\* What is bare while the tree is changed stays bare.
LEMMA OpensBare ==
  ASSUME ShapeInv, NEW key, Opens(key), Changing, NEW k \in Keys, Bare(k)
  PROVE  Bare(k)'
<1>1. SeededFrom(drafts', cache, key, drafts) /\ shown' = shown
  BY Seeding DEF Opens, Activate, ShapeInv
<1>2. ~ Contains(tabs', k)
  BY DEF Opens, Bare
<1>3. k # key
  BY <1>2, NoneAssumption DEF Opens
<1> QED
  BY <1>1, <1>2, <1>3 DEF SeededFrom, Bare

LEMMA OpensWork ==
  ASSUME WorkInv, NEW key, Opens(key)
  PROVE  WorkInv'
<1> USE DEF WorkInv
<1>1. /\ UNCHANGED <<tree, rivals, calls, answers, cache, shown, count>> /\ active' = key
      /\ SeededFrom(drafts', cache, key, drafts)
  BY Seeding DEF Opens, Activate, server, ShapeInv
<1>2. runs' = runs /\ timers' \subseteq Timers
  BY OpensTimers
<1>3. ShapeInv'
  BY <1>1, <1>2 DEF ShapeInv, StripInv, SeededFrom, Opens
<1>4. \A k \in Keys : drafts[k] # None => drafts'[k] = drafts[k]
  BY <1>1 DEF SeededFrom
<1>5. timers = {} => timers' = {}
  BY OpensTimers
<1>6. Phase'
  <2>1. CASE Calm
    BY <1>1, <2>1 DEF Calm, Phase
  <2>2. CASE Asked
    <3>1. Changing
      BY <2>2, OnlyCalm, CalmPlain DEF Asked, Calm, Plain, Saves, Gets, Changing, Changes, Creates, Renames, Moves, Deletes
    <3>2. PICK c \in Changes : calls = {c} /\ Fitting(c) /\ (c.op = "create" => c.of \in count.born)
      BY <2>2 DEF Asked
    <3>3. \A r \in Reqs : cache[r] # None => Key(cache[r]) \in Keys
      BY Shapes DEF ShapeInv
    <3>4. \A k \in Keys : Bare(k) => Bare(k)'
      BY <3>1, OpensBare
    <3>5. Fitting(c)'
      BY <1>1, <3>2, <3>3, <3>4 DEF Fitting, Fitted
    <3> QED
      BY <1>1, <1>2, <1>5, <2>2, <3>2, <3>5 DEF Asked, Still, Phase
  <2>3. CASE Answered
    <3>1. PICK c \in Changes : \E ok \in BOOLEAN :
            /\ answers = {[call |-> c, ok |-> ok, tree |-> tree]}
            /\ IF ok THEN Follows(c) ELSE Alike(cache, tree)
      BY <2>3 DEF Answered
    <3>2. PICK ok \in BOOLEAN :
            /\ answers = {[call |-> c, ok |-> ok, tree |-> tree]}
            /\ IF ok THEN Follows(c) ELSE Alike(cache, tree)
      BY <3>1
    <3>3. Changing
      <4>1. \E a \in answers : a.call = c
        BY <3>2
      <4> QED
        BY <4>1 DEF Changing, Changes, Creates, Renames, Moves, Deletes
    <3>4. \A r \in Reqs : cache[r] # None => Key(cache[r]) \in Keys
      BY Shapes DEF ShapeInv
    <3>5. \A k \in Keys : Bare(k) => Bare(k)'
      BY <3>3, OpensBare
    <3>6. Follows(c) => Follows(c)'
      BY <1>1, <3>4, <3>5 DEF Follows
    <3>7. Alike(cache, tree) => Alike(cache, tree)'
      BY <1>1
    <3> QED
      BY <1>1, <1>2, <1>5, <2>3, <3>2, <3>6, <3>7 DEF Answered, Still, Phase
  <2> QED
    BY <2>1, <2>2, <2>3 DEF Phase
<1>7. BornInv'
  BY <1>1 DEF BornInv
<1>8. Kept'
  <2>1. \A k \in Keys : drafts'[k] # None => cache[drafts'[k].of] # None /\ Key(cache[drafts'[k].of]) = k
    <3> TAKE k \in Keys
    <3> HAVE drafts'[k] # None
    <3>1. CASE drafts'[k] = drafts[k]
      BY <1>1, <3>1 DEF Kept, Sits
    <3>2. CASE k = key /\ \E r \in At(cache, key) : drafts'[k] = [body |-> cache[r].body, of |-> r]
      BY <1>1, <3>2 DEF At, Sits
    <3> QED
      BY <1>1, <3>1, <3>2 DEF SeededFrom
  <2>2. (active \in Keys /\ At(cache, active) # {} => drafts[active] # None)'
    BY <1>1 DEF SeededFrom, At
  <2> QED
    BY <1>1, <1>2, <2>1, <2>2 DEF Kept, Sits
<1>9. \A a, b : /\ Pending(a, b)' <=> Pending(a, b)
                /\ Waits(a, b)' <=> Waits(a, b)
                /\ Sent(a, b)' <=> Sent(a, b)
  BY OpensPending
<1>10. Order'
  <2>1. (\A t, u \in timers : t.body = u.body => t = u)'
    BY OpensTimers DEF Bodies, Order
  <2>2. (\A n \in calls, t \in timers : n.op = "save" => n.body < t.body)'
    BY <1>1, OpensTimers DEF Bodies, Order
  <2> QED
    BY <1>1, <1>9, <2>1, <2>2 DEF Bodies, Order
<1>11. Typed'
  <2> SUFFICES ASSUME NEW k \in Keys, drafts'[k] # None
               PROVE  Latest(drafts[k], tree[drafts[k].of])'
    BY DEF Typed
  <2>1. CASE drafts'[k] = drafts[k]
    BY <1>1, <1>9, <2>1 DEF Typed, Latest, SentLast, Final, Bodies
  <2>2. CASE k = key /\ drafts[k] = None /\ \E r \in At(cache, key) : drafts'[k] = [body |-> cache[r].body, of |-> r]
    <3>1. PICK r \in At(cache, key) : drafts'[k] = [body |-> cache[r].body, of |-> r]
      BY <2>2
    <3>2. r \in Reqs /\ cache[r] # None /\ Key(cache[r]) = k
      BY <2>2 DEF At
    <3>3. ~ Opened(r)
      <4> SUFFICES ASSUME NEW k2 \in Keys, drafts[k2] # None, drafts[k2].of = r PROVE FALSE
        BY DEF Opened
      <4>1. Key(cache[r]) = k2
        BY DEF Kept, Sits
      <4> QED
        BY <2>2, <3>2, <4>1
    <3>4. tree[r] # None
      <4>1. CASE Alike(cache, tree)
        BY <3>2, <4>1 DEF Alike
      <4>2. CASE Answered /\ ~ Alike(cache, tree)
        <5>1. PICK c \in Changes : Follows(c)
          BY <4>2 DEF Answered
        <5>2. ~ Bare(k)
          <6>1. Changing
            BY <4>2, OnlyCalm DEF Calm
          <6>2. Contains(tabs, k)
            BY <2>2, <6>1, NoneAssumption DEF Opens
          <6> QED
            BY <6>2 DEF Bare
        <5> QED
          BY <3>2, <5>1, <5>2 DEF Follows
      <4> QED
        BY <4>1, <4>2 DEF Phase, Calm, Asked
    <3>5. tree[r].body = cache[r].body
      BY <3>2, <3>3, <3>4 DEF Untouched, SameBody, Bodies
    <3>6. \A b \in 1..MaxEdits : ~ Pending(Addr(tree[r]), b)
      BY <3>2, <3>3, <3>4, Unopened DEF Bodies
    <3> QED
      BY <1>1, <1>9, <3>1, <3>4, <3>5, <3>6 DEF Latest, SentLast, Final, Pending
  <2> QED
    BY <1>1, <2>1, <2>2 DEF SeededFrom
<1>12. Owned'
  <2>1. \A k \in Keys : drafts[k] # None => drafts'[k] # None /\ drafts'[k].of = drafts[k].of
    BY <1>4
  <2>2. (\A a \in Addrs, b \in 1..MaxEdits :
           Pending(a, b) => \E k \in Keys : drafts[k] # None /\ a = Addr(tree[drafts[k].of]))'
    BY <1>1, <1>9, <2>1 DEF Owned, Bodies
  <2>3. (\A t \in timers : drafts[t.key] # None /\ t.addr = Addr(tree[drafts[t.key].of]))'
    <3> SUFFICES ASSUME NEW u \in timers' PROVE drafts'[u.key] # None /\ u.addr = Addr(tree[drafts'[u.key].of])
      BY <1>1
    <3>1. PICK t \in timers : u.key = t.key /\ u.addr = t.addr
      BY OpensTimers
    <3>2. t.key \in Keys
      BY DEF ShapeInv, Timers
    <3> QED
      BY <2>1, <3>1, <3>2 DEF Owned, Bodies
  <2> QED
    BY <2>2, <2>3 DEF Owned
<1>13. Untouched'
  <2>1. \A r \in Reqs : Opened(r) => Opened(r)'
    BY <1>4 DEF Opened
  <2> QED
    BY <1>1, <2>1 DEF Untouched, SameBody, Bodies
<1>14. BusyEnds'
  BY <1>1, <1>2 DEF BusyEnds, Listens
<1> QED
  BY <1>3, <1>6, <1>7, <1>8, <1>10, <1>11, <1>12, <1>13, <1>14 DEF Bodies

LEMMA OpenTabOpens ==
  ASSUME ShapeInv, Care, NEW key \in Keys \cup {Folder}, OpenTab(key) \/ ClickTab(key)
  PROVE  Opens(key)
<1>1. CASE OpenTab(key)
  <2>1. CASE Contains(tabs, key)
    <3>1. tabs' = tabs
      BY <1>1, <2>1 DEF OpenTab
    <3> QED
      BY <1>1, <2>1, <3>1 DEF OpenTab, Opens, ShapeInv, StripInv
  <2>2. CASE ~ Contains(tabs, key)
    <3>1. tabs' = Append(tabs, key) /\ ~ Changing
      BY <1>1, <2>2 DEF OpenTab
    <3>2. tabs' \in Seq(Keys \cup {Folder}) /\ Len(tabs') = Len(tabs) + 1 /\ tabs'[Len(tabs) + 1] = key
      BY <3>1 DEF ShapeInv, StripInv
    <3>3. Len(tabs) + 1 \in 1..Len(tabs')
      BY <3>2 DEF ShapeInv, StripInv
    <3> QED
      BY <1>1, <3>1, <3>2, <3>3 DEF OpenTab, Opens, Contains
  <2> QED
    BY <2>1, <2>2
<1>2. CASE ClickTab(key)
  BY <1>2 DEF ClickTab, Opens, ShapeInv, StripInv
<1> QED
  BY <1>1, <1>2

\* Who takes over is left, or was active all along.
LEMMA SurvivorLeft ==
  ASSUME StripInv, NEW gone
  PROVE  Survivor(gone) = None \/ (Contains(tabs, Survivor(gone)) /\ Survivor(gone) \notin gone)
<1> DEFINE here == SelectInSeq(tabs, LAMBDA k : k = active)
           after == {i \in DOMAIN tabs : i > here /\ tabs[i] \notin gone}
           before == {i \in DOMAIN tabs : i < here /\ tabs[i] \notin gone}
<1>1. DOMAIN tabs = 1..Len(tabs) /\ Len(tabs) \in Nat
  BY DEF StripInv
<1> HIDE DEF here
<1>2. after # {} => Min(after) \in after
  <2>1. after \in SUBSET Nat
    BY <1>1
  <2> HIDE DEF after
  <2> QED
    BY <2>1, MinThere
<1>3. before # {} => Max(before) \in before
  <2>1. before \in SUBSET (0..Len(tabs))
    BY <1>1
  <2> HIDE DEF before
  <2> QED
    BY <1>1, <2>1, MaxThere
<1>4. Survivor(gone) = IF active \notin gone THEN active
                       ELSE IF after # {} THEN tabs[Min(after)]
                       ELSE IF before # {} THEN tabs[Max(before)]
                       ELSE None
  BY DEF Survivor, here
<1>5. \A i \in after \cup before : Contains(tabs, tabs[i]) /\ tabs[i] \notin gone
  BY <1>1 DEF Contains
<1> HIDE DEF after, before
<1> QED
  BY <1>2, <1>3, <1>4, <1>5 DEF StripInv

LEMMA CloseTabsOpens ==
  ASSUME ShapeInv, Care, NEW i, CloseTabs(i)
  PROVE  \E key : Opens(key)
<1>1. PICK gone : /\ Survivor(gone) = Folder /\ Care => runs = {}
                  /\ tabs' = Remaining(gone)
                  /\ Activate(Survivor(gone))
  BY DEF CloseTabs
<1>2. StripInv
  BY DEF ShapeInv
<1>3. tabs' \in Seq(Keys \cup {Folder}) /\ \A k : Contains(tabs', k) <=> Contains(tabs, k) /\ k \notin gone
  BY <1>1, <1>2, RemainingTabs DEF StripInv
<1>4. Survivor(gone) = None \/ Contains(tabs', Survivor(gone))
  BY <1>2, <1>3, SurvivorLeft
<1>5. Opens(Survivor(gone))
  BY <1>1, <1>3, <1>4 DEF Opens
<1> QED
  BY <1>5

(* Typing. *)

LEMMA EditWork ==
  ASSUME WorkInv, Care, NEW r \in Reqs, Edit(r)
  PROVE  WorkInv'
<1> USE DEF WorkInv, Bodies
<1> DEFINE body == count.edits + 1
           t0 == [key |-> active, addr |-> Addr(cache[r]), body |-> body, held |-> TRUE]
<1>1. /\ ~ Changing /\ active \in Keys /\ r \in At(cache, active)
      /\ UNCHANGED <<tree, rivals, calls, answers, cache, tabs, active, shown, runs>>
      /\ count' = [count EXCEPT !.edits = body]
      /\ drafts' = [drafts EXCEPT ![active].body = body]
      /\ timers' = {t \in timers : t.key # active \/ ~ t.held} \cup {t0}
  BY DEF Edit, InView, Scheduled, server, strip
<1>2. Calm
  BY <1>1, OnlyCalm
<1>3. cache[r] # None /\ Key(cache[r]) = active /\ tree[r] # None /\ Addr(cache[r]) = Addr(tree[r]) /\ Addr(tree[r]) \in Addrs
  BY <1>1, <1>2, Shapes DEF At, Calm, Alike, ShapeInv
<1>4. drafts[active] # None /\ drafts[active].of = r /\ drafts[active] \in Drafts
  BY <1>1, KeptThere DEF Kept, ShapeInv
<1>5. count.edits \in 0..MaxEdits /\ body \in 1..MaxEdits /\ count.edits < body
  <2>1. count.edits \in 0..MaxEdits /\ count.edits < MaxEdits
    BY DEF Edit, ShapeInv
  <2> QED
    BY <2>1, BoundsAssumption
<1>6. count' \in [edits : 0..MaxEdits, tree : Nat, runs : 0..MaxRuns, moved : Nat, born : SUBSET Reqs] /\ count'.edits = body /\ count'.born = count.born
  <2>1. body \in 0..MaxEdits
    BY <1>5
  <2> HIDE DEF body
  <2> QED
    BY <1>1, <2>1 DEF ShapeInv
<1>7. t0 \in Timers /\ t0.key = active /\ t0.addr = Addr(tree[r]) /\ t0.body = body
  <2> HIDE DEF body
  <2> QED
    BY <1>1, <1>3, <1>5 DEF Timers
<1>8. drafts' \in [Keys -> Drafts \cup {None}] /\ drafts'[active] \in Drafts /\ drafts'[active].of = r /\ drafts'[active].body = body
      /\ \A k \in Keys : k # active => drafts'[k] = drafts[k]
  <2>1. body \in 0..MaxEdits
    BY <1>5
  <2> HIDE DEF body
  <2> QED
    BY <1>1, <1>4, <2>1 DEF ShapeInv, Drafts
<1>9. drafts'[active] # None
  BY <1>8, NoneAssumption
<1>10. \A k \in Keys : /\ (drafts'[k] # None <=> drafts[k] # None)
                       /\ drafts[k] # None => drafts'[k].of = drafts[k].of
  BY <1>4, <1>8, <1>9
<1>11. ShapeInv'
  BY <1>1, <1>6, <1>7, <1>8 DEF ShapeInv, StripInv
<1> HIDE DEF t0
<1>12. Phase'
  BY <1>1, <1>2 DEF Phase, Calm
<1>13. BornInv'
  BY <1>1, <1>6 DEF BornInv
<1>14. Kept'
  <2>1. (\A k \in Keys : drafts[k] # None => Sits(drafts[k].of, k))'
    BY <1>1, <1>10 DEF Kept, Sits
  <2> QED
    BY <1>1, <1>9, <2>1 DEF Kept, Sits
<1>15. \A a, b : Sent(a, b)' <=> Sent(a, b)
  BY <1>1 DEF Sent
<1>16. \A a, b : /\ Pending(a, b)' => Pending(a, b) \/ (a = Addr(tree[r]) /\ b = body)
                 /\ Waits(a, b)' => Waits(a, b) \/ (a = Addr(tree[r]) /\ b = body)
  BY <1>1, <1>7, <1>15 DEF Pending, Waits
<1>17. \A a, b : a = Addr(tree[r]) /\ b = body => Waits(a, b)'
  BY <1>1, <1>7 DEF Waits
<1>18. \A t \in timers : t.body < body
  <2> TAKE t \in timers
  <2>1. t.addr \in Addrs /\ t.body \in 1..MaxEdits /\ Pending(t.addr, t.body)
    BY DEF ShapeInv, Timers, Pending, Waits
  <2>2. t.body <= count.edits
    BY <2>1 DEF Order
  <2> QED
    BY <1>5, <2>1, <2>2
<1>19. \A n \in calls : n.op = "save" => n.body < body
  <2> TAKE n \in calls
  <2> HAVE n.op = "save"
  <2>0. n \in Plain
    BY <1>2 DEF Calm
  <2>1. n.addr \in Addrs /\ n.body \in 1..MaxEdits /\ Pending(n.addr, n.body)
    BY <2>0 DEF Pending, Sent, Plain, Saves, Gets
  <2>2. n.body <= count.edits
    BY <2>1 DEF Order
  <2> QED
    BY <1>5, <2>1, <2>2
<1> HIDE DEF body
<1>21. Order'
  <2>1. \A t \in timers' : t \in timers \/ t = t0
    BY <1>1
  <2>2. (\A t, u \in timers : t.body = u.body => t = u)'
    <3> SUFFICES ASSUME NEW t \in timers', NEW u \in timers', t.body = u.body PROVE t = u
      OBVIOUS
    <3>1. CASE t \in timers /\ u \in timers
      BY <3>1 DEF Order
    <3>2. CASE t = t0 /\ u = t0
      BY <3>2
    <3>3. (t \in timers => t.body # body) /\ (u \in timers => u.body # body)
      BY <1>5, <1>18 DEF ShapeInv, Timers
    <3> QED
      BY <1>5, <1>7, <1>18, <2>1, <3>1, <3>2 DEF ShapeInv, Timers
  <2>3. (\A n \in calls, t \in timers : n.op = "save" => n.body < t.body)'
    BY <1>1, <1>7, <1>19, <2>1 DEF Order
  <2>4. (\A a \in Addrs, b \in 1..MaxEdits : Pending(a, b) => b <= count.edits)'
    BY <1>5, <1>6, <1>16 DEF Order
  <2> QED
    BY <1>1, <1>6, <2>2, <2>3, <2>4 DEF Order
<1>22. Typed'
  <2> SUFFICES ASSUME NEW k \in Keys, drafts'[k] # None
               PROVE  Latest(drafts[k], tree[drafts[k].of])'
    BY DEF Typed
  <2>1. CASE k = active
    <3>1. \A a \in Addrs, b \in 1..MaxEdits : Pending(a, b)' => b <= body
      BY <1>5, <1>16 DEF Order
    <3> DEFINE d == drafts'[active]
    <3>2. d.body = body /\ d.of = r
      BY <1>8
    <3>3. \A b \in 1..MaxEdits : \A a : a = Addr(tree[r]) /\ Pending(a, b)' => b <= d.body
      BY <1>3, <3>1, <3>2
    <3>4. \A a, b : a = Addr(tree[r]) /\ b = d.body => Waits(a, b)'
      BY <1>17, <3>2
    <3>5. drafts'[k] = d
      BY <2>1
    <3> HIDE DEF d
    <3> QED
      BY <1>1, <1>3, <3>2, <3>3, <3>4, <3>5 DEF Latest
  <2>2. CASE k # active
    <3> PICK d : d = drafts[k]
      OBVIOUS
    <3> PICK s : s = d.of
      OBVIOUS
    <3>1. drafts'[k] = d /\ d # None /\ s \in Reqs /\ s # r
      <4>1. drafts'[k] = d /\ d # None
        BY <1>8, <2>2
      <4>2. Sits(s, k)
        BY <4>1 DEF Kept
      <4> QED
        BY <1>3, <2>2, <4>1, <4>2 DEF Sits, ShapeInv, Drafts
    <3>2. Latest(d, tree[s])
      BY <3>1 DEF Typed
    <3>3. Addr(tree[s]) # Addr(tree[r])
      BY <1>3, <3>1, <3>2, OneThere DEF BornInv, Latest
    <3>4. \A b \in 1..MaxEdits : Pending(Addr(tree[s]), b)' => b <= d.body
      BY <1>1, <1>16, <3>2, <3>3 DEF Latest
    <3>5. \A t \in timers : t.addr = Addr(tree[s]) => t.key # active
      BY <1>4, <3>3 DEF Owned
    <3>6. Waits(Addr(tree[s]), d.body) => Waits(Addr(tree[s]), d.body)'
      BY <1>1, <3>5 DEF Waits
    <3>7. SentLast(d, tree[s]) => SentLast(d, tree[s])'
      <4>1. \A a, b : a = Addr(tree[s]) /\ Waits(a, b)' => Waits(a, b)
        BY <1>16, <3>3
      <4>2. Final(d)' = Final(d)
        BY <1>1 DEF Final
      <4>3. tree' = tree
        BY <1>1
      <4> QED
        BY <1>15, <4>1, <4>2, <4>3 DEF SentLast
    <3> QED
      BY <1>1, <3>1, <3>2, <3>4, <3>6, <3>7 DEF Latest
  <2> QED
    BY <2>1, <2>2
<1>23. Owned'
  <2>1. (\A a \in Addrs, b \in 1..MaxEdits :
           Pending(a, b) => \E k \in Keys : drafts[k] # None /\ a = Addr(tree[drafts[k].of]))'
    <3> SUFFICES ASSUME NEW a \in Addrs, NEW b \in 1..MaxEdits, Pending(a, b)'
                 PROVE  \E k \in Keys : drafts'[k] # None /\ a = Addr(tree[drafts'[k].of])
      BY <1>1
    <3>1. CASE a = Addr(tree[r])
      BY <1>1, <1>8, <1>9, <3>1
    <3>2. CASE Pending(a, b)
      BY <1>10, <3>2 DEF Owned
    <3> QED
      BY <1>16, <3>1, <3>2
  <2>2. (\A t \in timers : drafts[t.key] # None /\ t.addr = Addr(tree[drafts[t.key].of]))'
    <3>1. \A t \in timers : t.key \in Keys
      BY DEF ShapeInv, Timers
    <3> QED
      BY <1>1, <1>7, <1>8, <1>9, <1>10, <3>1 DEF Owned
  <2> QED
    BY <2>1, <2>2 DEF Owned
<1>24. Untouched'
  <2>1. \A s \in Reqs : Opened(s) => Opened(s)'
    BY <1>10 DEF Opened
  <2> QED
    BY <1>1, <2>1 DEF Untouched, SameBody
<1>25. BusyEnds'
  BY <1>1 DEF BusyEnds, Listens
<1> QED
  BY <1>11, <1>12, <1>13, <1>14, <1>21, <1>22, <1>23, <1>24, <1>25

(* A change of the tree is sent. *)

LEMMA ChangeWork ==
  ASSUME WorkInv, Care, NEW c \in Changes, Fitted(c), Change(c)
  PROVE  WorkInv'
<1> USE DEF WorkInv, Bodies
<1>1. /\ Still /\ calls = {} /\ answers = {} /\ calls' = {c}
      /\ UNCHANGED <<tree, rivals, answers, cache, tabs, active, drafts, shown, timers, runs>>
  BY DEF Change, Send, strip, Still
<1>2. /\ count' = [count EXCEPT !.tree = @ + 1, !.moved = IF c.op = "move" THEN c.n ELSE @,
                                !.born = @ \cup (IF c.op = "create" THEN {c.of} ELSE {})]
      /\ (IF c.op = "create" THEN {c.of} ELSE {}) \subseteq Reqs
      /\ c.n \in Nat
  BY DEF Change, Changes, Creates, Renames, Moves, Deletes
<1>3. /\ count' \in [edits : 0..MaxEdits, tree : Nat, runs : 0..MaxRuns, moved : Nat, born : SUBSET Reqs]
      /\ count'.edits = count.edits /\ count.born \subseteq count'.born
      /\ c.op = "move" => count'.moved = c.n
      /\ c.op = "create" => c.of \in count'.born
  <2> DEFINE new == IF c.op = "create" THEN {c.of} ELSE {}
             last == IF c.op = "move" THEN c.n ELSE count.moved
  <2>0. (c.op = "create" => c.of \in new) /\ (c.op = "move" => last = c.n)
    OBVIOUS
  <2>1. /\ new \subseteq Reqs /\ last \in Nat
        /\ count' = [count EXCEPT !.tree = @ + 1, !.moved = last, !.born = @ \cup new]
    BY <1>2 DEF ShapeInv
  <2> HIDE DEF new, last
  <2>2. /\ count \in [edits : 0..MaxEdits, tree : Nat, runs : 0..MaxRuns, moved : Nat, born : SUBSET Reqs]
        /\ count.tree + 1 \in Nat
    BY DEF ShapeInv
  <2>3. count.born \cup new \in SUBSET Reqs
    BY <2>1, <2>2
  <2>4. count' = [count EXCEPT !.tree = count.tree + 1, !.moved = last, !.born = count.born \cup new]
    BY <2>1
  <2> QED
    BY <2>0, <2>1, <2>2, <2>3, <2>4
<1>4. calls' \subseteq Plain \cup Changes
  BY <1>1
<1>5. ShapeInv'
  BY <1>1, <1>3, <1>4 DEF ShapeInv, StripInv
<1>6. Alike(cache, tree)
  <2>1. \A d \in Changes : calls # {d}
    BY <1>1
  <2> QED
    BY <1>1, <2>1 DEF Phase, Calm, Asked, Answered
<1>7. Fitting(c)'
  BY <1>1, <1>3 DEF Fitted, Fitting, Bare
<1>8. Asked'
  BY <1>1, <1>3, <1>6, <1>7 DEF Asked, Still
<1>9. BornInv'
  BY <1>1, <1>3 DEF BornInv
<1>10. Kept'
  BY <1>1 DEF Kept, Sits
<1>11. c.op # "save"
  BY DEF Changes, Creates, Renames, Moves, Deletes
<1>12. \A a, b : ~ Sent(a, b)' /\ ~ Sent(a, b)
  BY <1>1, <1>11 DEF Sent
<1>13. \A a, b : ~ Pending(a, b)' /\ ~ Pending(a, b)
  BY <1>1, <1>12 DEF Pending, Waits, Still
<1>14. Order'
  <2>1. \A n \in calls' : n.op # "save"
    BY <1>1, <1>11
  <2> QED
    BY <1>1, <1>3, <1>13, <2>1 DEF Order, Still
<1>15. Typed'
  BY <1>1, <1>13 DEF Typed, Latest, SentLast, Final, Pending
<1>16. Owned'
  BY <1>1, <1>13 DEF Owned, Still
<1>17. Untouched'
  BY <1>1 DEF Untouched, SameBody, Opened
<1>18. BusyEnds'
  BY <1>1 DEF BusyEnds, Listens
<1> QED
  BY <1>5, <1>8, <1>9, <1>10, <1>14, <1>15, <1>16, <1>17, <1>18 DEF Phase

LEMMA PanelWork ==
  ASSUME WorkInv, Care, NEW r \in Reqs, NEW d \in Dirs, NEW name \in Names,
         Create(r, d, name) \/ Rename(r, name) \/ Move(r, d) \/ Delete(r)
  PROVE  WorkInv'
<1> USE DEF WorkInv
<1>1. \A n \in Names, e \in Dirs : [dir |-> e, name |-> n] \in Addrs
  BY DEF Addrs
<1>2. cache[r] # None => /\ cache[r] \in Items /\ cache[r].dir \in Dirs /\ cache[r].name \in Names
                         /\ Addr(cache[r]) \in Addrs /\ Key(cache[r]) \in Keys
  BY Shapes DEF ShapeInv, Items
<1>0. Nth \in Nat
  BY DEF Nth, ShapeInv
<1>3. CASE Create(r, d, name)
  <2> DEFINE c == [op |-> "create", n |-> Nth, of |-> r, to |-> [dir |-> d, name |-> name]]
  <2>1. c \in Changes /\ Change(c)
    BY <1>0, <1>1, <1>3 DEF Create, Changes, Creates
  <2>2. cache[r] = None
    BY <1>3 DEF Create, BornInv
  <2>3. Fitted(c)
    BY <2>2 DEF Fitted
  <2> HIDE DEF c
  <2> QED
    BY <2>1, <2>3, ChangeWork
<1>4. CASE Rename(r, name)
  <2> DEFINE c == [op |-> "rename", n |-> Nth, addr |-> Addr(cache[r]), to |-> [dir |-> cache[r].dir, name |-> name]]
  <2>1. c \in Changes /\ Change(c)
    BY <1>0, <1>1, <1>2, <1>4 DEF Rename, Changes, Renames
  <2>2. Fitted(c)
    BY DEF Fitted, Addr
  <2> HIDE DEF c
  <2> QED
    BY <2>1, <2>2, ChangeWork
<1>5. CASE Move(r, d)
  <2> DEFINE c == [op |-> "move", n |-> Nth, addr |-> Addr(cache[r]), to |-> [dir |-> d, name |-> cache[r].name], key |-> Key(cache[r])]
  <2>1. c \in Changes /\ Change(c) /\ cache[r] # None
    BY <1>0, <1>1, <1>2, <1>5 DEF Move, Changes, Moves
  <2>2. Fitted(c)
    BY <2>1 DEF Fitted, Addr
  <2> HIDE DEF c
  <2> QED
    BY <2>1, <2>2, ChangeWork
<1>6. CASE Delete(r)
  <2> DEFINE c == [op |-> "delete", n |-> Nth, addr |-> Addr(cache[r])]
  <2>1. c \in Changes /\ Change(c) /\ cache[r] # None /\ Bare(Key(cache[r]))
    BY <1>0, <1>2, <1>6 DEF Delete, Changes, Deletes, Bare
  <2>2. \A s \in Reqs : cache[s] # None /\ Addr(cache[r]) = Addr(cache[s]) => s = r
    BY <2>1, OneThere DEF BornInv
  <2>3. Fitted(c)
    BY <2>1, <2>2 DEF Fitted
  <2> HIDE DEF c
  <2> QED
    BY <2>1, <2>3, ChangeWork
<1> QED
  BY <1>3, <1>4, <1>5, <1>6

(* Runs. *)

\* A step that leaves alone what is typed and what the snapshot has.
Runs0 == UNCHANGED <<tree, rivals, answers, cache, tabs, active, drafts, timers>>

LEMMA RunsKeepBodies ==
  ASSUME Bodies, Runs0, calls' = calls \/ (\E g \in Gets : calls' = calls \cup {g}),
         count'.edits = count.edits
  PROVE  Bodies'
<1> USE DEF Bodies, Runs0
<1>1. \A n : n.op = "save" => (n \in calls' <=> n \in calls)
  BY DEF Gets
<1>2. \A a, b : (Sent(a, b)' <=> Sent(a, b)) /\ (Waits(a, b)' <=> Waits(a, b))
  BY <1>1 DEF Sent, Waits
<1>3. \A a, b : Pending(a, b)' <=> Pending(a, b)
  BY <1>2 DEF Pending
<1>4. Order'
  BY <1>1, <1>3 DEF Order
<1>5. Typed'
  BY <1>2, <1>3 DEF Typed, Latest, SentLast, Final
<1>6. Owned'
  BY <1>3 DEF Owned
<1>7. Untouched'
  BY DEF Untouched, SameBody, Opened
<1> QED
  BY <1>4, <1>5, <1>6, <1>7

LEMMA RunWork ==
  ASSUME WorkInv, Care, NEW r \in Reqs, Run(r)
  PROVE  WorkInv'
<1> USE DEF WorkInv
<1> DEFINE new == [n |-> count.runs + 1, key |-> active, of |-> r, held |-> TRUE, stopped |-> FALSE]
<1>1. /\ ~ Changing /\ active \in Keys /\ r \in At(cache, active)
      /\ \A u \in runs : u.key # active /\ (r \in Unary => u.of \notin Unary)
      /\ count' = [count EXCEPT !.runs = @ + 1]
      /\ runs' = Superseded(r, active) \cup {new}
      /\ shown' = [shown EXCEPT ![active] = [busy |-> TRUE, of |-> r]]
      /\ UNCHANGED <<tree, rivals, calls, answers, cache, tabs, active, drafts, timers>>
  BY DEF Run, InView, server, strip
<1>2. Calm
  BY <1>1, OnlyCalm
<1>3. count.runs + 1 \in 1..MaxRuns
  <2>1. count.runs \in 0..MaxRuns /\ count.runs < MaxRuns
    BY DEF Run, ShapeInv
  <2> QED
    BY <2>1, BoundsAssumption
<1>4. count' \in [edits : 0..MaxEdits, tree : Nat, runs : 0..MaxRuns, moved : Nat, born : SUBSET Reqs]
      /\ count'.edits = count.edits /\ count'.born = count.born
  <2>1. count.runs + 1 \in 0..MaxRuns
    BY <1>3
  <2> QED
    BY <1>1, <2>1 DEF ShapeInv
<1>5. new \in Runs
  BY <1>1, <1>3 DEF Runs
<1>6. [busy |-> TRUE, of |-> r] \in Views
  BY DEF Views
\* The other runs go on, under their keys, with the listeners they have.
<1>7. runs' = runs \cup {new}
  <2>1. ASSUME NEW u \in runs
        PROVE  (IF r \in Unary /\ u.of \in Unary THEN [u EXCEPT !.held = FALSE]
                ELSE IF r \notin Unary /\ u.of \notin Unary /\ u.held /\ u.key = active
                  THEN [u EXCEPT !.stopped = TRUE, !.held = FALSE]
                ELSE u) = u
    BY <1>1
  <2>2. Superseded(r, active) = runs
    BY <2>1 DEF Superseded
  <2> QED
    BY <1>1, <2>2
<1>8. new.key = active /\ new.of = r /\ new.held
  OBVIOUS
<1> HIDE DEF new
<1>9. ShapeInv'
  BY <1>1, <1>4, <1>5, <1>6, <1>7 DEF ShapeInv, StripInv
<1>10. Calm'
  BY <1>1, <1>2 DEF Calm
<1>11. BornInv'
  BY <1>1, <1>4 DEF BornInv
<1>12. cache[r] # None /\ Key(cache[r]) = active
  BY <1>1 DEF At
<1>13. Kept'
  <2>1. (\A k \in Keys : shown[k] # None => Sits(shown[k].of, k))'
    BY <1>1, <1>6, <1>12 DEF Kept, Sits, ShapeInv
  <2>2. (\A u \in runs : Sits(u.of, u.key))'
    BY <1>1, <1>7, <1>8, <1>12 DEF Kept, Sits
  <2> QED
    BY <1>1, <2>1, <2>2 DEF Kept, Sits
<1>14. Bodies'
  BY <1>1, <1>4, RunsKeepBodies DEF Runs0
<1>15. BusyEnds'
  <2> SUFFICES ASSUME NEW k \in Keys, shown'[k] # None, shown'[k].busy
               PROVE  \E u \in runs' : u.key = k /\ Listens(u)
    BY DEF BusyEnds, Listens
  <2>1. CASE k = active
    BY <1>7, <1>8, <2>1 DEF Listens
  <2>2. CASE k # active
    <3>1. shown'[k] = shown[k]
      BY <1>1, <2>2 DEF ShapeInv
    <3> QED
      BY <1>7, <3>1 DEF BusyEnds
  <2> QED
    BY <2>1, <2>2
<1> QED
  BY <1>9, <1>10, <1>11, <1>13, <1>14, <1>15 DEF Phase

LEMMA MessageWork ==
  ASSUME WorkInv, NEW u \in runs, Message(u)
  PROVE  WorkInv'
<1> USE DEF WorkInv
<1>1. /\ u.of \notin Unary /\ u \in Runs
      /\ shown' = [shown EXCEPT ![u.key] = [busy |-> TRUE, of |-> u.of]]
      /\ UNCHANGED <<tree, rivals, calls, answers, cache, tabs, active, drafts, timers, runs, count>>
  BY DEF Message, server, strip, ShapeInv
<1>2. Calm
  BY BusyCalm
<1>3. u.key \in Keys /\ [busy |-> TRUE, of |-> u.of] \in Views
  BY <1>1 DEF Runs, Views
<1>4. ShapeInv'
  BY <1>1, <1>3 DEF ShapeInv, StripInv
<1>5. Calm'
  BY <1>1, <1>2 DEF Calm
<1>6. BornInv'
  BY <1>1 DEF BornInv
<1>7. Kept'
  <2>1. (\A k \in Keys : shown[k] # None => Sits(shown[k].of, k))'
    BY <1>1, <1>3 DEF Kept, Sits, ShapeInv
  <2> QED
    BY <1>1, <2>1 DEF Kept, Sits
<1>8. Bodies'
  BY <1>1, RunsKeepBodies DEF Runs0
<1>9. BusyEnds'
  <2> SUFFICES ASSUME NEW k \in Keys, shown'[k] # None, shown'[k].busy
               PROVE  \E v \in runs : v.key = k /\ Listens(v)
    BY <1>1 DEF BusyEnds, Listens
  <2>1. CASE k = u.key
    BY <1>1, <2>1 DEF Listens
  <2>2. CASE k # u.key
    BY <1>1, <2>2 DEF BusyEnds, ShapeInv
  <2> QED
    BY <2>1, <2>2
<1> QED
  BY <1>4, <1>5, <1>6, <1>7, <1>8, <1>9 DEF Phase

LEMMA StopWork ==
  ASSUME WorkInv, NEW u \in runs, Stop(u)
  PROVE  WorkInv'
<1> USE DEF WorkInv
<1> DEFINE v == [u EXCEPT !.stopped = TRUE, !.held = FALSE]
<1>1. /\ u.of \notin Unary /\ u \in Runs
      /\ runs' = (runs \ {u}) \cup {v}
      /\ UNCHANGED <<tree, rivals, calls, answers, cache, tabs, active, drafts, timers, shown, count>>
  BY DEF Stop, server, strip, ShapeInv
<1>2. Calm
  BY BusyCalm
<1>3. v \in Runs /\ v.key = u.key /\ v.of = u.of
  BY <1>1 DEF Runs
<1> HIDE DEF v
<1>4. ShapeInv'
  BY <1>1, <1>3 DEF ShapeInv, StripInv
<1>5. Calm'
  BY <1>1, <1>2 DEF Calm
<1>6. BornInv'
  BY <1>1 DEF BornInv
<1>7. Kept'
  BY <1>1, <1>3 DEF Kept, Sits
<1>8. Bodies'
  BY <1>1, RunsKeepBodies DEF Runs0
<1>9. BusyEnds'
  BY <1>1, <1>3 DEF BusyEnds, Listens
<1> QED
  BY <1>4, <1>5, <1>6, <1>7, <1>8, <1>9 DEF Phase

LEMMA RunEndsWork ==
  ASSUME WorkInv, NEW u \in runs, RunEnds(u)
  PROVE  WorkInv'
<1> USE DEF WorkInv
<1>1. /\ u \in Runs /\ runs' = runs \ {u}
      /\ UNCHANGED <<tree, rivals, answers, cache, tabs, active, drafts, timers, count>>
      /\ \/ /\ Listens(u) /\ shown' = [shown EXCEPT ![u.key] = [busy |-> FALSE, of |-> u.of]]
            /\ calls' = calls \cup {[op |-> "get", n |-> u.n]}
         \/ ~ Listens(u) /\ shown' = shown /\ calls' = calls
  BY DEF RunEnds, RunEnded, Send, server, strip, ShapeInv
<1>2. Calm
  BY BusyCalm
<1>3. u.key \in Keys /\ u.of \in Reqs /\ [busy |-> FALSE, of |-> u.of] \in Views /\ [op |-> "get", n |-> u.n] \in Gets
  BY <1>1 DEF Runs, Views, Gets
<1>4. calls' \subseteq Plain \cup Changes /\ \A i \in calls' : i \in Plain
  BY <1>1, <1>2, <1>3 DEF ShapeInv, Calm, Plain
<1>5. ShapeInv'
  BY <1>1, <1>3, <1>4 DEF ShapeInv, StripInv
<1>6. Calm'
  BY <1>1, <1>2, <1>4 DEF Calm
<1>7. BornInv'
  BY <1>1 DEF BornInv
<1>8. Kept'
  <2>1. Sits(u.of, u.key)
    BY DEF Kept
  <2>2. (\A k \in Keys : shown[k] # None => Sits(shown[k].of, k))'
    BY <1>1, <1>3, <2>1 DEF Kept, Sits, ShapeInv
  <2> QED
    BY <1>1, <2>2 DEF Kept, Sits
<1>9. Bodies'
  BY <1>1, <1>3, RunsKeepBodies DEF Runs0
<1>10. BusyEnds'
  <2> SUFFICES ASSUME NEW k \in Keys, shown'[k] # None, shown'[k].busy
               PROVE  \E v \in runs' : v.key = k /\ Listens(v)
    BY DEF BusyEnds, Listens
  <2>1. CASE Listens(u)
    <3>1. k # u.key
      BY <1>1, <2>1 DEF ShapeInv
    <3>2. shown'[k] = shown[k]
      BY <1>1, <2>1, <3>1 DEF ShapeInv
    <3> QED
      BY <1>1, <3>1, <3>2 DEF BusyEnds
  <2>2. CASE ~ Listens(u)
    BY <1>1, <2>2 DEF BusyEnds
  <2> QED
    BY <2>1, <2>2
<1> QED
  BY <1>5, <1>6, <1>7, <1>8, <1>9, <1>10 DEF Phase

(* A save is sent. *)

LEMMA SaveWork ==
  ASSUME WorkInv, NEW t \in timers, Save(t)
  PROVE  WorkInv'
<1> USE DEF WorkInv, Bodies
<1> DEFINE s == [op |-> "save", addr |-> t.addr, body |-> t.body]
<1>1. /\ \A u \in timers : t.body <= u.body
      /\ timers' = timers \ {t} /\ calls' = calls \cup {s}
      /\ rivals' = [r \in Reqs |-> IF r \in Named(tree, t.addr) THEN UnderWay(t.addr) ELSE rivals[r]]
      /\ UNCHANGED <<tree, answers, cache, tabs, active, drafts, shown, runs, count>>
  BY DEF Save, Send, strip
<1>2. Calm
  BY BusyCalm
<1>3. t \in Timers /\ t.addr \in Addrs /\ t.body \in 1..MaxEdits
  BY DEF ShapeInv, Timers
<1>4. s \in Saves /\ s.op = "save" /\ s.addr = t.addr /\ s.body = t.body
  BY <1>3 DEF Saves
<1> HIDE DEF s
<1>5. calls \subseteq Plain \cup Changes /\ s \in Plain \cup Changes
  BY <1>4 DEF ShapeInv, Plain
<1>6. calls' \subseteq Plain \cup Changes
  BY <1>1, <1>5
<1>7. \A c \in calls : c \in Plain
  BY <1>2 DEF Calm
<1>8. UnderWay(t.addr) \subseteq 1..MaxEdits
  BY <1>7 DEF UnderWay, Plain, Saves, Gets
<1>9. rivals' \in [Reqs -> SUBSET (1..MaxEdits)]
  BY <1>1, <1>8 DEF ShapeInv
<1>10. ShapeInv'
  BY <1>1, <1>6, <1>9 DEF ShapeInv, StripInv
<1>11. Phase'
  BY <1>1, <1>2, <1>4 DEF Phase, Calm, Plain
<1>12. BornInv'
  BY <1>1 DEF BornInv
<1>13. Kept'
  BY <1>1 DEF Kept, Sits
<1>14. \A a, b : Sent(a, b)' <=> Sent(a, b) \/ (a = t.addr /\ b = t.body)
  BY <1>1, <1>4 DEF Sent
<1>15. \A a, b : Waits(a, b) <=> Waits(a, b)' \/ (a = t.addr /\ b = t.body)
  BY <1>1 DEF Waits
<1>16. \A a, b : Pending(a, b)' <=> Pending(a, b)
  BY <1>14, <1>15 DEF Pending
<1>17. \A u \in timers' : t.body < u.body
  <2> TAKE u \in timers'
  <2>1. u \in timers /\ u # t /\ u.body \in 1..MaxEdits
    BY <1>1 DEF ShapeInv, Timers
  <2>2. t.body <= u.body /\ t.body # u.body
    BY <1>1, <2>1 DEF Order
  <2> QED
    BY <1>3, <2>1, <2>2
<1>18. Order'
  <2>1. (\A n \in calls, u \in timers : n.op = "save" => n.body < u.body)'
    BY <1>1, <1>4, <1>17 DEF Order
  <2> QED
    BY <1>1, <1>16, <2>1 DEF Order
<1>19. Typed'
  <2> SUFFICES ASSUME NEW key \in Keys, drafts[key] # None
               PROVE  Latest(drafts[key], tree[drafts[key].of])'
    BY <1>1 DEF Typed
  <2> PICK d : d = drafts[key]
    OBVIOUS
  <2> PICK r : r = d.of
    OBVIOUS
  <2> PICK a : a = Addr(tree[r])
    OBVIOUS
  <2>1. Latest(d, tree[r]) /\ d \in Drafts /\ r \in Reqs /\ d.body \in 0..MaxEdits
    BY DEF Typed, ShapeInv, Drafts
  <2>2. tree[r] # None /\ tree' = tree /\ drafts' = drafts /\ Addr(tree[r]) = a
    BY <1>1, <2>1 DEF Latest
  <2>3. a \in Addrs
    BY <2>1, <2>2, Shapes DEF ShapeInv
  <2>4. \A b \in 1..MaxEdits : Pending(a, b)' => b <= d.body
    BY <1>16, <2>1 DEF Latest
  <2>5. CASE t.addr # a
    <3>1. r \notin Named(tree, t.addr)
      BY <2>5 DEF Named
    <3>2. Final(d)' = Final(d)
      BY <1>1, <2>1, <3>1 DEF Final
    <3>3. \A b : (Sent(a, b)' <=> Sent(a, b)) /\ (Waits(a, b)' <=> Waits(a, b))
      BY <1>14, <1>15, <2>5
    <3>4. Waits(a, d.body)' \/ SentLast(d, tree[r])'
      BY <2>1, <2>2, <3>2, <3>3 DEF Latest, SentLast
    <3> QED
      BY <2>2, <2>4, <3>4 DEF Latest
  <2>6. CASE t.addr = a
    <3>1. Waits(a, t.body) /\ t.body <= d.body
      BY <1>3, <2>1, <2>6 DEF Waits, Pending, Latest
    <3>2. Waits(a, d.body)
      BY <1>3, <2>1, <3>1 DEF Latest, SentLast
    <3>3. CASE t.body # d.body
      <4>1. Waits(a, d.body)'
        BY <1>15, <3>2, <3>3
      <4> QED
        BY <2>2, <2>4, <4>1 DEF Latest
    <3>4. CASE t.body = d.body
      <4>1. rivals'[r] = UnderWay(a)
        BY <1>1, <2>1, <2>2, <2>6 DEF Named
      <4>2. \A b : Sent(a, b) => b \in UnderWay(a)
        BY DEF Sent, UnderWay
      <4>3. \A b : Sent(a, b)' => b \in Final(d)'
        BY <1>14, <3>4, <4>1, <4>2 DEF Final
      <4>4. Sent(a, d.body)'
        BY <1>14, <2>6, <3>4
      <4>5. ASSUME NEW b \in 1..MaxEdits, Waits(a, b)' PROVE FALSE
        <5>1. PICK u \in timers' : u.addr = a /\ u.body = b
          BY <4>5 DEF Waits
        <5>2. t.body < b
          BY <1>17, <5>1
        <5>3. Pending(a, b)'
          BY <4>5 DEF Pending
        <5> QED
          BY <1>3, <2>1, <2>4, <3>4, <5>2, <5>3
      <4>6. SentLast(d, tree[r])'
        BY <2>2, <4>3, <4>4, <4>5 DEF SentLast
      <4> QED
        BY <2>2, <2>4, <4>6 DEF Latest
    <3> QED
      BY <3>3, <3>4
  <2> QED
    BY <2>5, <2>6
<1>20. Owned'
  BY <1>1, <1>16 DEF Owned
<1>21. Untouched'
  BY <1>1 DEF Untouched, SameBody, Opened
<1>22. BusyEnds'
  BY <1>1 DEF BusyEnds, Listens
<1> QED
  BY <1>10, <1>11, <1>12, <1>13, <1>18, <1>19, <1>20, <1>21, <1>22

(* The server answers. *)

LEMMA AlikeWays ==
  ASSUME NEW t, NEW u, NEW v, Alike(t, u), Alike(v, u)
  PROVE  Alike(t, v) /\ Alike(u, t) /\ (Unambiguous(u) => Unambiguous(t))
<1>1. Alike(t, v) /\ Alike(u, t)
  BY DEF Alike
<1>2. ASSUME Unambiguous(u) PROVE Unambiguous(t)
  BY <1>2 DEF Alike, Unambiguous
<1> QED
  BY <1>1, <1>2

\* A directory has a name to spare for one more than it holds.
LEMMA SlugToSpare ==
  ASSUME NEW t \in Forests, NEW d \in Dirs, NEW name \in Names,
         NEW r \in Reqs, t[r] = None \/ t[r].dir # d
  PROVE  LET slug == FreeSlug(t, d, name) IN
         slug \in Slugs /\ At(t, [dir |-> d, slug |-> slug]) = {}
<1> DEFINE c == Cardinality(Reqs)
           key(i) == [dir |-> d, slug |-> <<name, i>>]
           free == {i \in 1..c : At(t, key(i)) = {}}
<1>1. c \in Nat /\ IsFiniteSet(Reqs \ {r}) /\ Cardinality(Reqs \ {r}) = c - 1
  BY ReqsAssumption, FS_CardinalityType, FS_RemoveElement
<1>2. IsFiniteSet(1..c) /\ Cardinality(1..c) = c
  <2>1. 1 \in Int /\ c \in Int
    BY <1>1
  <2>2. IsFiniteSet(1..c) /\ Cardinality(1..c) = IF 1 > c THEN 0 ELSE c - 1 + 1
    BY <2>1, FS_Interval
  <2> HIDE DEF c
  <2> QED
    BY <1>1, <2>2
<1>3. free # {}
  <2> SUFFICES ASSUME free = {} PROVE FALSE
    OBVIOUS
  <2>1. \A i \in 1..c : \E x \in Reqs : t[x] # None /\ Key(t[x]) = key(i)
    BY DEF At
  <2> DEFINE f == [i \in 1..c |-> CHOOSE x \in Reqs : t[x] # None /\ Key(t[x]) = key(i)]
  <2> HIDE DEF c
  <2>2. \A i \in 1..c : f[i] \in Reqs /\ t[f[i]] # None /\ Key(t[f[i]]) = key(i)
    BY <2>1
  <2> HIDE DEF f
  <2>3. \A i \in 1..c : f[i] # r
    BY <2>2 DEF Key
  <2>4. f = [i \in 1..c |-> f[i]]
    BY DEF f
  <2>5. f \in [1..c -> Reqs \ {r}]
    BY <2>2, <2>3, <2>4
  <2>6. PICK i, j \in 1..c : i # j /\ f[i] = f[j]
    <3>1. Cardinality(Reqs \ {r}) < Cardinality(1..c)
      BY <1>1, <1>2
    <3> QED
      BY <1>1, <1>2, <2>5, <3>1, FS_PigeonHole
  <2>7. key(i) = key(j)
    BY <2>2, <2>6
  <2> QED
    BY <2>6, <2>7
<1> DEFINE m == Min(free)
<1>4. m \in free
  <2>1. free \in SUBSET Nat
    OBVIOUS
  <2> HIDE DEF free
  <2> QED
    BY <1>3, <2>1, MinThere
<1>5. FreeSlug(t, d, name) = <<name, m>>
  BY DEF FreeSlug
<1>6. m \in 1..c /\ At(t, key(m)) = {}
  BY <1>4
<1> HIDE DEF m
<1> QED
  BY <1>5, <1>6 DEF Slugs

\* What an accepted change makes of the tree.
Effects(t, c) ==
  /\ t \in Forests /\ Unambiguous(t)
  /\ \A r \in Reqs : t[r] # None =>
       \/ tree[r] # None /\ t[r].body = tree[r].body
       \/ c.op = "create" /\ r = c.of /\ t[r].body = 0
  /\ \A r \in Reqs : cache[r] # None =>
       \/ t[r] = None /\ c.op = "delete" /\ c.addr = Addr(cache[r])
       \/ t[r] # None /\ Key(t[r]) = Key(cache[r]) /\ (c.op = "move" => c.key # Key(cache[r]))
       \/ t[r] # None /\ c.op = "move" /\ c.key = Key(cache[r]) /\ c.to = Addr(t[r])

OneNew(t, r, i) ==
  /\ t \in Forests /\ Unambiguous(t) /\ t[r] = i /\ i # None
  /\ \A s \in Reqs : s # r => t[s] = tree[s]

\* One request is changed, and is alone where it comes to be.
LEMMA OneChanged ==
  ASSUME tree \in Forests, Unambiguous(tree), NEW r \in Reqs, NEW i \in Items,
         \A s \in Reqs : s # r /\ tree[s] # None => Key(tree[s]) # Key(i) /\ Addr(tree[s]) # Addr(i),
         NEW t, t = [tree EXCEPT ![r] = i]
  PROVE  OneNew(t, r, i)
  BY NoneAssumption DEF Forests, Unambiguous, OneNew

\* What is needed of the one that is changed.
LEMMA OneEffect ==
  ASSUME tree \in Forests, Alike(cache, tree), NEW c \in Changes, NEW t, t \in Forests, Unambiguous(t),
         c.op # "delete",
         NEW r \in Reqs, t[r] # None, \A s \in Reqs : s # r => t[s] = tree[s],
         \/ tree[r] # None /\ t[r].body = tree[r].body
         \/ c.op = "create" /\ r = c.of /\ t[r].body = 0,
         \A s \in Reqs : s # r /\ cache[s] # None /\ c.op = "move" => c.key # Key(cache[s]),
         cache[r] # None => \/ Key(t[r]) = Key(cache[r]) /\ c.op # "move"
                            \/ c.op = "move" /\ c.key = Key(cache[r]) /\ c.to = Addr(t[r])
  PROVE  Effects(t, c)
<1>1. \A s \in Reqs : t[s] # None =>
       \/ tree[s] # None /\ t[s].body = tree[s].body
       \/ c.op = "create" /\ s = c.of /\ t[s].body = 0
  OBVIOUS
<1>2. ASSUME NEW s \in Reqs, cache[s] # None
      PROVE  \/ t[s] # None /\ Key(t[s]) = Key(cache[s]) /\ (c.op = "move" => c.key # Key(cache[s]))
             \/ t[s] # None /\ c.op = "move" /\ c.key = Key(cache[s]) /\ c.to = Addr(t[s])
  <2>1. CASE s = r
    BY <1>2, <2>1
  <2>2. CASE s # r
    <3>1. t[s] = tree[s]
      BY <2>2
    <3>2. tree[s] # None /\ Key(tree[s]) = Key(cache[s])
      BY <1>2 DEF Alike
    <3> QED
      BY <1>2, <2>2, <3>1, <3>2
  <2> QED
    BY <2>1, <2>2
<1> QED
  BY <1>1, <1>2 DEF Effects

LEMMA AcceptedEffects ==
  ASSUME ShapeInv, BornInv, Alike(cache, tree), NEW c \in Changes, Fitting(c), Accepts(c)
  PROVE  Effects(Effect(c), c)
<1>1. tree \in Forests /\ Unambiguous(tree) /\ Unambiguous(cache) /\ cache \in Forests
  BY DEF ShapeInv, BornInv
<1>2. \A r \in Reqs : cache[r] # None =>
        /\ tree[r] # None /\ Key(tree[r]) = Key(cache[r]) /\ Addr(tree[r]) = Addr(cache[r])
  BY DEF Alike
<1>3. CASE c \in Creates
  <2> DEFINE i == [dir |-> c.to.dir, slug |-> FreeSlug(tree, c.to.dir, c.to.name), name |-> c.to.name, body |-> 0]
  <2>1. c.op = "create" /\ c.of \in Reqs /\ c.to \in Addrs /\ c.to.dir \in Dirs /\ c.to.name \in Names
    BY <1>3 DEF Creates, Addrs
  <2>2. Named(tree, c.to) = {} /\ cache[c.of] = None /\ tree[c.of] = None
    BY <2>1 DEF Accepts, Fitting, Fitted, Alike
  <2>3. Effect(c) = [tree EXCEPT ![c.of] = i]
    BY <2>1 DEF Effect
  <2>4. FreeSlug(tree, c.to.dir, c.to.name) \in Slugs
        /\ At(tree, [dir |-> c.to.dir, slug |-> FreeSlug(tree, c.to.dir, c.to.name)]) = {}
    BY <1>1, <2>1, <2>2, SlugToSpare
  <2>5. i \in Items
    BY <2>1, <2>4, BoundsAssumption DEF Items
  <2>6. Addr(i) = c.to
    BY <2>1 DEF Addr, Addrs
  <2>7. Key(i) = [dir |-> c.to.dir, slug |-> FreeSlug(tree, c.to.dir, c.to.name)]
    BY DEF Key
  <2>8. i.body = 0
    OBVIOUS
  <2> HIDE DEF i
  <2>9. \A s \in Reqs : s # c.of /\ tree[s] # None => Key(tree[s]) # Key(i) /\ Addr(tree[s]) # Addr(i)
    BY <2>2, <2>4, <2>6, <2>7 DEF At, Named
  <2>10. OneNew(Effect(c), c.of, i)
    BY <1>1, <2>1, <2>3, <2>5, <2>9, OneChanged
  <2> QED
    BY <1>1, <2>1, <2>2, <2>8, <2>10, OneEffect DEF OneNew
<1>4. CASE c \in Renames \cup Moves
  <2> DEFINE r == CHOOSE x \in Named(tree, c.addr) : TRUE
  <2>1. c.op \in {"rename", "move"} /\ c.addr \in Addrs /\ c.to \in Addrs /\ c.to.dir \in Dirs /\ c.to.name \in Names
    BY <1>4 DEF Renames, Moves, Addrs
  <2>2. Named(tree, c.addr) # {} /\ Named(tree, c.to) = {}
    BY <2>1 DEF Accepts
  <2>3. r \in Reqs /\ tree[r] # None /\ Addr(tree[r]) = c.addr
    BY <2>2 DEF Named
  <2>4. Effect(c) = IF c.op = "rename" THEN [tree EXCEPT ![r].name = c.to.name]
                    ELSE [tree EXCEPT ![r].dir = c.to.dir, ![r].slug = FreeSlug(tree, c.to.dir, c.to.name)]
    BY <2>1 DEF Effect
  <2> HIDE DEF r
  <2>5. tree[r] \in Items
    BY <1>1, <2>3, Shapes
  <2>6. CASE c.op = "rename"
    <3> DEFINE i == [tree[r] EXCEPT !.name = c.to.name]
    <3>1. i \in Items /\ Key(i) = Key(tree[r]) /\ i.body = tree[r].body /\ i.name = c.to.name /\ i.dir = tree[r].dir
      BY <2>1, <2>5 DEF Items, Key
    <3>2. Effect(c) = [tree EXCEPT ![r] = i]
      BY <1>1, <2>3, <2>4, <2>6 DEF Forests
    <3>3. c.to.dir = tree[r].dir
      BY <2>3, <2>6 DEF Fitting, Fitted, Addr
    <3> HIDE DEF i
    <3>4. Addr(i) = c.to
      BY <2>1, <3>1, <3>3 DEF Addr, Addrs
    <3>5. \A s \in Reqs : s # r /\ tree[s] # None => Key(tree[s]) # Key(i) /\ Addr(tree[s]) # Addr(i)
      BY <1>1, <2>2, <2>3, <3>1, <3>4, OneThere DEF Named
    <3>6. OneNew(Effect(c), r, i)
      BY <1>1, <2>3, <3>1, <3>2, <3>5, OneChanged
    <3>7. cache[r] # None /\ Key(cache[r]) = Key(tree[r])
      BY <2>3 DEF Alike
    <3> QED
      BY <1>1, <2>3, <2>6, <3>1, <3>6, <3>7, OneEffect DEF OneNew
  <2>7. CASE c.op = "move"
    <3> DEFINE slug == FreeSlug(tree, c.to.dir, c.to.name)
               i == [tree[r] EXCEPT !.dir = c.to.dir, !.slug = slug]
    <3>1. PICK q \in Reqs : cache[q] # None /\ c.addr = Addr(cache[q]) /\ c.key = Key(cache[q])
      BY <2>7 DEF Fitting, Fitted
    <3>2. q = r
      BY <1>1, <1>2, <2>3, <3>1, OneThere
    <3>3. tree[r].name = c.to.name
      BY <2>3, <2>7 DEF Fitting, Fitted, Addr
    <3>4. tree[r].dir # c.to.dir
      <4> SUFFICES ASSUME tree[r].dir = c.to.dir PROVE FALSE
        OBVIOUS
      <4>1. Addr(tree[r]) = c.to
        BY <2>1, <3>3 DEF Addr, Addrs
      <4> QED
        BY <2>2, <2>3, <4>1 DEF Named
    <3>5. slug \in Slugs /\ At(tree, [dir |-> c.to.dir, slug |-> slug]) = {}
      BY <1>1, <2>1, <2>3, <3>4, SlugToSpare
    <3> HIDE DEF slug
    <3>6. i \in Items /\ i.body = tree[r].body /\ i.name = c.to.name /\ i.dir = c.to.dir /\ i.slug = slug
      BY <2>1, <2>5, <3>3, <3>5 DEF Items
    <3>7. Effect(c) = [tree EXCEPT ![r] = i]
      BY <1>1, <2>3, <2>4, <2>7 DEF Forests, slug
    <3> HIDE DEF i
    <3>8. Addr(i) = c.to /\ Key(i) = [dir |-> c.to.dir, slug |-> slug]
      BY <2>1, <3>6 DEF Addr, Addrs, Key
    <3>9. \A s \in Reqs : s # r /\ tree[s] # None => Key(tree[s]) # Key(i) /\ Addr(tree[s]) # Addr(i)
      BY <2>2, <3>5, <3>8 DEF Named, At
    <3>10. OneNew(Effect(c), r, i)
      BY <1>1, <2>3, <3>6, <3>7, <3>9, OneChanged
    <3>11. \A s \in Reqs : s # r /\ cache[s] # None => c.key # Key(cache[s])
      BY <1>1, <3>1, <3>2, OneThere
    <3>12. c.key = Key(cache[r]) /\ c.to = Addr(i)
      BY <3>1, <3>2, <3>8
    <3> QED
      BY <1>1, <2>3, <2>7, <3>6, <3>10, <3>11, <3>12, OneEffect DEF OneNew
  <2> QED
    BY <2>1, <2>6, <2>7
<1>5. CASE c \in Deletes
  <2>1. c.op = "delete"
    BY <1>5 DEF Deletes
  <2>2. Effect(c) = [x \in Reqs |-> IF x \in Named(tree, c.addr) THEN None ELSE tree[x]]
    BY <2>1 DEF Effect
  <2>3. Effect(c) \in Forests /\ Unambiguous(Effect(c))
    BY <1>1, <2>2 DEF Forests, Unambiguous
  <2> QED
    BY <1>2, <2>1, <2>2, <2>3 DEF Effects, Named
<1> QED
  BY <1>3, <1>4, <1>5 DEF Changes

(* The server takes a call. *)

Served(call, t) ==
  /\ call \in calls
  /\ calls' = calls \ {call}
  /\ tree' = t
  /\ answers' = answers \cup {[call |-> call, ok |-> Accepts(call), tree |-> t]}
  /\ UNCHANGED <<cache, tabs, active, drafts, shown, timers, runs, rivals, count>>

LEMMA ServedShape ==
  ASSUME ShapeInv, NEW call, NEW t \in Forests, Served(call, t)
  PROVE  ShapeInv'
<1> DEFINE a == [call |-> call, ok |-> Accepts(call), tree |-> t]
<1>1. call \in Plain \cup Changes
  BY DEF ShapeInv, Served
<1>2. Accepts(call) \in BOOLEAN
  BY DEF Accepts
<1>3. a \in Answers
  BY <1>1, <1>2 DEF Answers
<1>4. answers' = answers \cup {a}
  BY DEF Served
<1> HIDE DEF a
<1> QED
  BY <1>3, <1>4 DEF ShapeInv, StripInv, Served

\* Nobody waits for more than before, and only the one call is not waited for.
LEMMA ServedPending ==
  ASSUME NEW call, NEW t, Served(call, t)
  PROVE  /\ \A a, b : Waits(a, b)' <=> Waits(a, b)
         /\ \A a, b : Sent(a, b)' => Sent(a, b)
         /\ \A a, b : Pending(a, b)' => Pending(a, b)
         /\ \A a, b : Sent(a, b) => Sent(a, b)' \/ (call.op = "save" /\ a = call.addr /\ b = call.body)
  BY DEF Served, Pending, Sent, Waits

LEMMA ServedOrder ==
  ASSUME Order, NEW call, NEW t, Served(call, t)
  PROVE  Order'
<1>1. \A a, b : Pending(a, b)' => Pending(a, b)
  BY ServedPending
<1> QED
  BY <1>1 DEF Order, Served

\* What was not opened is as it was, in the new answer too.
LEMMA UntouchedAfter ==
  ASSUME Untouched, NEW call, NEW t \in Forests, Served(call, t),
         \A r \in Reqs : ~ Opened(r) => SameBody(t, cache, r) /\ (\A n \in answers : SameBody(t, n.tree, r))
  PROVE  Untouched'
<1>1. UNCHANGED <<cache, drafts>> /\ tree' = t
  BY DEF Served
<1>2. \A r \in Reqs : Opened(r)' <=> Opened(r)
  BY <1>1 DEF Opened
<1> SUFFICES ASSUME NEW r \in Reqs, ~ Opened(r)
             PROVE  SameBody(t, cache, r) /\ \A n \in answers' : SameBody(t, n.tree, r)
  BY <1>1, <1>2 DEF Untouched, SameBody
<1> SUFFICES ASSUME NEW n \in answers' PROVE SameBody(t, n.tree, r)
  OBVIOUS
<1>3. CASE n \in answers
  BY <1>3
<1>4. CASE n = [call |-> call, ok |-> Accepts(call), tree |-> t]
  BY <1>4 DEF SameBody
<1> QED
  BY <1>3, <1>4 DEF Served

\* What is served of the plain calls leaves everyone in place.
LEMMA ServedPlain ==
  ASSUME WorkInv, Calm, NEW call, NEW t \in Forests, Served(call, t), Alike(t, tree)
  PROVE  ShapeInv' /\ Phase' /\ BornInv' /\ Kept' /\ BusyEnds'
<1> USE DEF WorkInv
<1>1. ShapeInv'
  BY ServedShape
<1>2. call \in Plain
  BY DEF Calm, Served
<1>3. UNCHANGED <<cache, tabs, active, drafts, shown, timers, runs, count>> /\ tree' = t
  BY DEF Served
<1>4. (\A i \in calls : i \in Plain)'
  BY DEF Calm, Served
<1>5. (\A i \in answers : i.call \in Plain /\ Alike(i.tree, tree))'
  <2> SUFFICES ASSUME NEW i \in answers' PROVE i.call \in Plain /\ Alike(i.tree, t)
    BY <1>3
  <2>1. CASE i \in answers
    BY <2>1, AlikeWays DEF Calm
  <2>2. CASE i = [call |-> call, ok |-> Accepts(call), tree |-> t]
    BY <1>2, <2>2 DEF Alike
  <2> QED
    BY <2>1, <2>2 DEF Served
<1>6. Alike(cache, tree)'
  BY <1>3, AlikeWays DEF Calm
<1>7. Phase'
  BY <1>4, <1>5, <1>6 DEF Phase, Calm
<1>8. BornInv'
  <2>1. Unambiguous(t)
    BY AlikeWays DEF BornInv
  <2>2. \A r \in Reqs : t[r] # None => tree[r] # None
    BY DEF Alike
  <2> QED
    BY <1>3, <2>1, <2>2 DEF BornInv
<1>9. Kept'
  BY <1>3 DEF Kept, Sits
<1>10. BusyEnds'
  BY <1>3 DEF BusyEnds, Listens
<1> QED
  BY <1>1, <1>7, <1>8, <1>9, <1>10

LEMMA GetServed ==
  ASSUME WorkInv, Calm, NEW call \in calls, call \in Gets, Serve(call)
  PROVE  WorkInv'
<1> USE DEF WorkInv, Bodies
<1>1. Effect(call) = tree
  BY DEF Gets, Effect
<1>2. Served(call, tree) /\ tree \in Forests /\ Alike(tree, tree)
  BY <1>1 DEF Serve, Served, ShapeInv, Alike, strip
<1>3. ShapeInv' /\ Phase' /\ BornInv' /\ Kept' /\ BusyEnds'
  BY <1>2, ServedPlain
<1>4. UNCHANGED <<tree, rivals, cache, drafts, timers, count>> /\ call.op # "save"
  BY <1>2 DEF Served, Gets
<1>5. \A a, b : (Pending(a, b)' <=> Pending(a, b)) /\ (Sent(a, b)' <=> Sent(a, b)) /\ (Waits(a, b)' <=> Waits(a, b))
  BY <1>2, <1>4, ServedPending DEF Pending
<1>6. Order'
  BY <1>2, ServedOrder
<1>7. Typed' /\ Owned'
  BY <1>4, <1>5 DEF Typed, Owned, Latest, SentLast, Final
<1>8. Untouched'
  BY <1>2, UntouchedAfter DEF Untouched
<1> QED
  BY <1>3, <1>6, <1>7, <1>8

LEMMA SaveServed ==
  ASSUME WorkInv, Calm, NEW c \in calls, c \in Saves, Serve(c)
  PROVE  WorkInv'
<1> USE DEF WorkInv, Bodies
<1>1. c.op = "save" /\ c.addr \in Addrs /\ c.body \in 1..MaxEdits
  BY DEF Saves
<1>2. Sent(c.addr, c.body)
  BY <1>1 DEF Sent
<1>3. Pending(c.addr, c.body)
  BY <1>2 DEF Pending
<1>4. PICK key \in Keys : drafts[key] # None /\ c.addr = Addr(tree[drafts[key].of])
  BY <1>1, <1>3 DEF Owned
<1> DEFINE r == drafts[key].of
<1>5. r \in Reqs /\ tree[r] # None /\ Addr(tree[r]) = c.addr /\ Opened(r)
  BY <1>4 DEF ShapeInv, Drafts, Typed, Latest, Opened
<1>6. tree[r] \in Items /\ tree \in Forests
  BY <1>5, Shapes DEF ShapeInv
<1>7. \A s \in Reqs : tree[s] # None /\ Addr(tree[s]) = c.addr => s = r
  BY <1>5, OneThere DEF BornInv
<1> HIDE DEF r
<1>8. Named(tree, c.addr) = {r}
  BY <1>5, <1>7 DEF Named
<1>9. Accepts(c)
  BY <1>1, <1>8 DEF Accepts
<1>10. (CHOOSE x \in Named(tree, c.addr) : TRUE) = r
  BY <1>8
<1>11. Effect(c) = [tree EXCEPT ![r].body = c.body]
  BY <1>1, <1>10 DEF Effect
<1> DEFINE i == [tree[r] EXCEPT !.body = c.body]
           t == [tree EXCEPT ![r] = i]
<1>12. i \in Items /\ Key(i) = Key(tree[r]) /\ Addr(i) = Addr(tree[r]) /\ i.body = c.body
  BY <1>1, <1>6, BoundsAssumption DEF Items, Key, Addr
<1>13. t = Effect(c)
  BY <1>5, <1>6, <1>11 DEF Forests
<1> HIDE DEF i
<1>14. t \in Forests /\ t[r] = i /\ i # None /\ \A s \in Reqs : s # r => t[s] = tree[s]
  BY <1>5, <1>6, <1>12, NoneAssumption DEF Forests
<1> HIDE DEF t
<1>15. Alike(t, tree)
  BY <1>5, <1>12, <1>14 DEF Alike
<1>16. Served(c, t)
  BY <1>9, <1>13 DEF Serve, Served, strip
<1>17. ShapeInv' /\ Phase' /\ BornInv' /\ Kept' /\ BusyEnds'
  BY <1>14, <1>15, <1>16, ServedPlain
<1>18. UNCHANGED <<cache, drafts, timers, rivals, count>> /\ tree' = t
  BY <1>16 DEF Served
<1>19. /\ \A a, b : Waits(a, b)' <=> Waits(a, b)
       /\ \A a, b : Sent(a, b)' => Sent(a, b)
       /\ \A a, b : Pending(a, b)' => Pending(a, b)
       /\ \A a, b : Sent(a, b) => Sent(a, b)' \/ (a = c.addr /\ b = c.body)
  BY <1>16, ServedPending
<1>20. Order'
  BY <1>16, ServedOrder
<1>21. \A s \in Reqs : tree[s] # None => t[s] # None /\ Addr(t[s]) = Addr(tree[s])
  BY <1>15 DEF Alike
<1>22. \A k \in Keys : drafts[k] # None => drafts[k].of \in Reqs /\ drafts[k].body \in 0..MaxEdits
  BY DEF ShapeInv, Drafts
<1>23. Typed'
  <2> SUFFICES ASSUME NEW k \in Keys, drafts[k] # None, NEW d, d = drafts[k], NEW i0, i0 = t[d.of]
               PROVE Latest(d, i0)'
    BY <1>18 DEF Typed
  <2>1. PICK s \in Reqs : s = d.of
    BY <1>22
  <2>2. Latest(d, tree[s])
    BY <2>1 DEF Typed
  <2>3. PICK a : a = Addr(tree[s])
    OBVIOUS
  <2>4. i0 # None /\ Addr(i0) = a
    BY <1>21, <2>1, <2>2, <2>3 DEF Latest
  <2>5. \A b \in 1..MaxEdits : Pending(a, b)' => b <= d.body
    BY <1>19, <2>2, <2>3 DEF Latest
  <2>6. Final(d)' = Final(d)
    BY <1>18 DEF Final
  <2>7. ASSUME SentLast(d, tree[s]) PROVE SentLast(d, i0)'
    <3>1. \A b \in 1..MaxEdits : ~ Waits(a, b)' /\ (Sent(a, b)' => b \in Final(d))
      BY <1>19, <2>3, <2>7 DEF SentLast
    <3>2. i0.body \in Final(d) \/ Sent(a, d.body)'
      <4>1. CASE s = r
        <5>1. i0.body = c.body
          BY <1>12, <1>14, <2>1, <4>1
        <5>2. c.body \in Final(d)
          BY <1>1, <1>2, <1>5, <2>7, <4>1 DEF SentLast
        <5> QED
          BY <5>1, <5>2
      <4>2. CASE s # r
        <5>1. i0 = tree[s] /\ tree[s] # None /\ a # c.addr
          BY <1>7, <1>14, <2>1, <2>2, <2>3, <4>2 DEF Latest
        <5> QED
          BY <1>19, <2>3, <2>7, <5>1 DEF SentLast
      <4> QED
        BY <4>1, <4>2
    <3> QED
      BY <2>4, <2>6, <3>1, <3>2 DEF SentLast
  <2>8. Waits(a, d.body)' \/ SentLast(d, i0)'
    BY <1>19, <2>2, <2>3, <2>7 DEF Latest
  <2> QED
    BY <2>4, <2>5, <2>8 DEF Latest
<1>24. Owned'
  <2>1. \A k \in Keys : drafts[k] # None => Addr(t[drafts[k].of]) = Addr(tree[drafts[k].of])
    BY <1>21, <1>22 DEF Typed, Latest
  <2>2. \A u \in timers : u.key \in Keys
    BY DEF ShapeInv, Timers
  <2>3. (\A u \in timers : drafts[u.key] # None /\ u.addr = Addr(tree[drafts[u.key].of]))'
    BY <1>18, <2>1, <2>2 DEF Owned
  <2>4. (\A a \in Addrs, b \in 1..MaxEdits :
           Pending(a, b) => \E k \in Keys : drafts[k] # None /\ a = Addr(tree[drafts[k].of]))'
    BY <1>18, <1>19, <2>1 DEF Owned
  <2> QED
    BY <2>3, <2>4 DEF Owned
<1>25. Untouched'
  <2>1. ASSUME NEW s \in Reqs, ~ Opened(s) PROVE t[s] = tree[s]
    BY <1>5, <1>14, <2>1
  <2> QED
    BY <1>14, <1>16, <2>1, UntouchedAfter DEF Untouched, SameBody
<1> QED
  BY <1>17, <1>20, <1>23, <1>24, <1>25

\* Nothing is saved while the tree is changed.
LEMMA NothingPending ==
  ASSUME ShapeInv, Still, calls = {} \/ \E c \in Changes : calls = {c}
  PROVE  \A a, b : ~ Pending(a, b)
<1>1. \A c \in Changes : c.op # "save"
  BY DEF Changes, Creates, Renames, Moves, Deletes
<1>2. \A n \in calls : n.op # "save"
  BY <1>1
<1> QED
  BY <1>2 DEF Pending, Sent, Waits, Still

LEMMA ChangeServed ==
  ASSUME WorkInv, Asked, NEW call \in calls, Serve(call)
  PROVE  WorkInv'
<1> USE DEF WorkInv, Bodies
<1>1. PICK c \in Changes : calls = {c} /\ Fitting(c) /\ (c.op = "create" => c.of \in count.born)
  BY DEF Asked
<1>2. call = c
  BY <1>1
<1>3. Still /\ answers = {} /\ Alike(cache, tree) /\ tree \in Forests
  BY DEF Asked, ShapeInv
<1> DEFINE t == IF Accepts(c) THEN Effect(c) ELSE tree
<1>4. Accepts(c) => Effects(t, c)
  BY <1>1, <1>3, AcceptedEffects
<1>5. ~ Accepts(c) => t = tree
  OBVIOUS
<1>6. Served(c, t)
  BY <1>2 DEF Serve, Served, strip
<1> HIDE DEF t
<1>7. t \in Forests /\ Unambiguous(t)
  BY <1>3, <1>4, <1>5 DEF Effects, BornInv
<1>8. ShapeInv'
  BY <1>6, <1>7, ServedShape
<1>9. /\ UNCHANGED <<cache, tabs, active, drafts, shown, timers, runs, rivals, count>>
      /\ tree' = t /\ calls' = {}
      /\ answers' = {[call |-> c, ok |-> Accepts(c), tree |-> t]}
  BY <1>1, <1>3, <1>6 DEF Served
<1>10. /\ \A r \in Reqs : cache[r] # None => Key(cache[r]) \in Keys
       /\ \A k \in Keys : Bare(k)' <=> Bare(k)
  BY <1>9, Shapes DEF Bare, ShapeInv
<1>11. ASSUME Accepts(c) PROVE Follows(c)'
  <2>1. ASSUME NEW r \in Reqs, cache[r] # None, t[r] = None, c.op = "delete", c.addr = Addr(cache[r])
        PROVE  Bare(Key(cache[r]))
    BY <1>1, <2>1 DEF Fitting, Fitted
  <2>2. \A k : Bare(k)' <=> Bare(k)
    BY <1>9 DEF Bare
  <2>3. ASSUME NEW r \in Reqs, cache[r] # None
        PROVE  \/ t[r] = None /\ c.op = "delete" /\ (\A k : k = Key(cache[r]) => Bare(k))
               \/ t[r] # None /\ Key(t[r]) = Key(cache[r]) /\ (c.op = "move" => c.key # Key(cache[r]))
               \/ t[r] # None /\ c.op = "move" /\ c.key = Key(cache[r]) /\ c.to = Addr(t[r])
    BY <1>4, <1>11, <2>1, <2>3 DEF Effects
  <2>4. (\A r \in Reqs : cache[r] # None =>
           \/ tree[r] = None /\ c.op = "delete" /\ Bare(Key(cache[r]))
           \/ tree[r] # None /\ Key(tree[r]) = Key(cache[r]) /\ (c.op = "move" => c.key # Key(cache[r]))
           \/ tree[r] # None /\ c.op = "move" /\ c.key = Key(cache[r]) /\ c.to = Addr(tree[r]))'
    BY <1>9, <2>2, <2>3
  <2>5. (c.op = "move" => c.n = count.moved /\ \E r \in Reqs : cache[r] # None /\ c.key = Key(cache[r]))'
    BY <1>1, <1>9 DEF Fitting, Fitted
  <2> QED
    BY <2>4, <2>5 DEF Follows
<1>12. ASSUME ~ Accepts(c) PROVE Alike(cache, tree)'
  BY <1>3, <1>5, <1>9, <1>12
<1>13. Phase'
  <2>1. Accepts(c) \in BOOLEAN
    BY DEF Accepts
  <2> DEFINE ok == Accepts(c)
  <2>2. \E o \in BOOLEAN : /\ answers' = {[call |-> c, ok |-> o, tree |-> t]}
                           /\ IF o THEN Follows(c)' ELSE Alike(cache, tree)'
    BY <1>9, <1>11, <1>12, <2>1
  <2>3. Still'
    BY <1>3, <1>9 DEF Still
  <2> QED
    BY <1>9, <2>2, <2>3 DEF Phase, Answered
<1>14. BornInv'
  <2>1. \A r \in Reqs : t[r] # None => r \in count.born
    BY <1>1, <1>4, <1>5 DEF Effects, BornInv
  <2> QED
    BY <1>7, <1>9, <2>1 DEF BornInv
<1>15. Kept' /\ BusyEnds'
  BY <1>9 DEF Kept, Sits, BusyEnds, Listens
<1>16. \A a, b : ~ Pending(a, b)
  BY <1>1, <1>3, NothingPending
<1>17. (\A a, b : ~ Pending(a, b))'
  <2>1. Still'
    BY <1>3, <1>9 DEF Still
  <2> QED
    BY <1>9, <2>1 DEF Pending, Sent, Waits, Still
<1>19. \A r \in Reqs : cache[r] # None /\ t[r] # None => tree[r] # None /\ t[r].body = tree[r].body
  BY <1>1, <1>3, <1>4, <1>5 DEF Effects, Fitting, Fitted, Alike
<1>20. \A k \in Keys : drafts[k] # None =>
         t[drafts[k].of] # None /\ t[drafts[k].of].body \in Final(drafts[k])
  <2> SUFFICES ASSUME NEW k \in Keys, drafts[k] # None, NEW r, r = drafts[k].of
               PROVE  t[r] # None /\ t[r].body \in Final(drafts[k])
    OBVIOUS
  <2>1. r \in Reqs /\ cache[r] # None /\ Key(cache[r]) = k
    BY DEF ShapeInv, Drafts, Kept, Sits
  <2>2. tree[r] # None /\ tree[r].body \in Final(drafts[k])
    BY <1>16 DEF Typed, Latest, SentLast, Pending
  <2>3. ~ Bare(k)
    BY DEF Bare
  <2>4. t[r] # None
    BY <1>1, <1>4, <1>5, <2>1, <2>2, <2>3 DEF Effects, Fitting, Fitted
  <2> QED
    BY <1>19, <2>1, <2>2, <2>4
<1>21. Order' /\ Typed' /\ Owned'
  <2>1. timers' = {}
    BY <1>3, <1>9 DEF Still
  <2>2. (\A key \in Keys : drafts[key] # None =>
           tree[drafts[key].of] # None /\ tree[drafts[key].of].body \in Final(drafts[key]))'
    BY <1>9, <1>20 DEF Final
  <2>3. Order'
    BY <1>9, <1>17, <2>1 DEF Order
  <2>4. Typed'
    BY <1>17, <2>2 DEF Typed, Latest, SentLast, Pending
  <2>5. Owned'
    BY <1>17, <2>1 DEF Owned
  <2> QED
    BY <2>3, <2>4, <2>5
<1>22. Untouched'
  <2>1. ASSUME NEW r \in Reqs, ~ Opened(r) PROVE SameBody(t, cache, r)
    BY <1>19, <2>1 DEF Untouched, SameBody
  <2>2. \A n \in answers : FALSE
    BY <1>3
  <2> QED
    BY <1>6, <1>7, <2>1, <2>2, UntouchedAfter
<1> QED
  BY <1>8, <1>13, <1>14, <1>15, <1>21, <1>22

LEMMA ServeWork ==
  ASSUME WorkInv, NEW call \in calls, Serve(call)
  PROVE  WorkInv'
<1>2. CASE Calm
  <2>1. call \in Plain
    BY <1>2 DEF Calm
  <2> QED
    BY <1>2, <2>1, GetServed, SaveServed DEF Plain
<1>3. CASE Asked
  BY <1>3, ChangeServed
<1>4. CASE Answered
  BY <1>4 DEF Answered
<1> QED
  BY <1>2, <1>3, <1>4 DEF WorkInv, Phase
(* An answer arrives. *)

\* Saving is not disturbed by what arrives.
LEMMA ReceivedOrder ==
  ASSUME Order, UNCHANGED <<tree, rivals, calls, timers, count>>
  PROVE  /\ Order'
         /\ \A a, b : (Pending(a, b)' <=> Pending(a, b)) /\ (Sent(a, b)' <=> Sent(a, b)) /\ (Waits(a, b)' <=> Waits(a, b))
         /\ \A d, i : Latest(d, i)' <=> Latest(d, i)
<1>1. \A a, b : (Sent(a, b)' <=> Sent(a, b)) /\ (Waits(a, b)' <=> Waits(a, b))
  BY DEF Sent, Waits
<1>2. \A a, b : Pending(a, b)' <=> Pending(a, b)
  BY <1>1 DEF Pending
<1>3. \A d : Final(d)' = Final(d)
  BY DEF Final
<1>4. \A d, i : Latest(d, i)' <=> Latest(d, i)
  BY <1>1, <1>2, <1>3 DEF Latest, SentLast
<1> QED
  BY <1>1, <1>2, <1>4 DEF Order

LEMMA ReceiveRefused ==
  ASSUME WorkInv, NEW a \in answers, Receive(a), ~ a.ok
  PROVE  WorkInv'
<1> USE DEF WorkInv, Bodies
<1>1. /\ answers' = answers \ {a}
      /\ UNCHANGED <<tree, rivals, calls, cache, tabs, active, drafts, shown, timers, runs, count>>
  BY DEF Receive, strip
<1>2. ShapeInv'
  BY <1>1 DEF ShapeInv, StripInv
<1>3. Phase'
  <2>1. CASE Calm
    BY <1>1, <2>1 DEF Phase, Calm
  <2>2. CASE Answered
    <3>1. PICK c \in Changes, ok \in BOOLEAN :
            /\ answers = {[call |-> c, ok |-> ok, tree |-> tree]}
            /\ IF ok THEN Follows(c) ELSE Alike(cache, tree)
      BY <2>2 DEF Answered
    <3>2. a.ok = ok /\ answers \ {a} = {}
      BY <3>1
    <3>3. Alike(cache, tree)'
      BY <1>1, <3>1, <3>2
    <3>4. calls' = {} /\ answers' = {}
      BY <1>1, <2>2, <3>2 DEF Answered
    <3> QED
      BY <3>3, <3>4 DEF Phase, Calm
  <2> QED
    BY <1>1, <2>1, <2>2 DEF Phase, Asked
<1>4. BornInv' /\ Kept' /\ BusyEnds'
  BY <1>1 DEF BornInv, Kept, Sits, BusyEnds, Listens
<1>5. /\ Order'
      /\ \A x, b : Pending(x, b)' <=> Pending(x, b)
      /\ \A d, i : Latest(d, i)' <=> Latest(d, i)
  BY <1>1, ReceivedOrder
<1>6. Typed' /\ Owned'
  BY <1>1, <1>5 DEF Typed, Owned
<1>7. Untouched'
  BY <1>1 DEF Untouched, SameBody, Opened
<1> QED
  BY <1>2, <1>3, <1>4, <1>5, <1>6, <1>7

LEMMA ReceivePlain ==
  ASSUME WorkInv, NEW a \in answers, Receive(a), a.ok, Calm
  PROVE  WorkInv'
<1> USE DEF WorkInv, Bodies
<1>1. answers' = answers \ {a}
  BY DEF Receive
<1>2. a \in Answers /\ a.call \in Plain /\ Alike(a.tree, tree) /\ a.tree \in Forests
  BY DEF Calm, ShapeInv, Answers
<1>3. ~ Remaps(a)
  BY <1>2 DEF Remaps, Plain, Saves, Gets
<1>4. /\ UNCHANGED <<tree, rivals, calls, tabs, active, shown, timers, runs, count>>
      /\ cache' = a.tree /\ drafts' = Seeded(a.tree, active, drafts)
  BY <1>3 DEF Receive, strip
<1>5. PICK u \in Forests : u = a.tree
  BY <1>2
<1>6. SeededFrom(drafts', u, active, drafts)
  BY <1>4, <1>5, Seeding DEF ShapeInv
<1>7. Alike(u, tree) /\ Alike(cache, u) /\ Alike(cache, tree) /\ Unambiguous(u)
  BY <1>2, <1>5, AlikeWays DEF Calm, BornInv
<1>8. ShapeInv'
  BY <1>1, <1>4, <1>5, <1>6 DEF ShapeInv, StripInv, SeededFrom
<1>9. Phase'
  <2>1. (\A i \in answers : i.call \in Plain /\ Alike(i.tree, tree))'
    BY <1>1, <1>4 DEF Calm
  <2> QED
    BY <1>4, <1>5, <1>7, <2>1 DEF Phase, Calm
<1>10. BornInv'
  BY <1>4, <1>5, <1>7 DEF BornInv, Alike
<1>11. \A r \in Reqs : \A k : Sits(r, k)' <=> Sits(r, k)
  BY <1>4, <1>5, <1>7 DEF Sits, Alike
<1>12. \A k \in Keys : drafts[k] # None => drafts'[k] = drafts[k]
  BY <1>6 DEF SeededFrom
<1>13. \A k \in Keys : drafts'[k] # None =>
         \/ drafts[k] # None /\ drafts'[k] = drafts[k]
         \/ /\ drafts[k] = None
            /\ \E r \in Reqs : u[r] # None /\ Key(u[r]) = k /\ drafts'[k] = [body |-> u[r].body, of |-> r]
  BY <1>6 DEF SeededFrom, At
<1>14. \A k \in Keys : /\ drafts[k] # None => drafts[k].of \in Reqs
                       /\ shown[k] # None => shown[k].of \in Reqs
  BY DEF ShapeInv, Drafts, Views
<1>15. Kept'
  <2>1. ASSUME NEW k \in Keys, drafts'[k] # None PROVE \A r : r = drafts'[k].of => Sits(r, k)'
    <3>1. CASE drafts[k] # None /\ drafts'[k] = drafts[k]
      BY <1>11, <1>14, <3>1 DEF Kept
    <3>2. CASE \E r \in Reqs : u[r] # None /\ Key(u[r]) = k /\ drafts'[k] = [body |-> u[r].body, of |-> r]
      BY <1>4, <1>5, <3>2 DEF Sits
    <3> QED
      BY <1>13, <2>1, <3>1, <3>2
  <2>2. \A k \in Keys : shown[k] # None => \A r : r = shown[k].of => Sits(r, k)'
    BY <1>11, <1>14 DEF Kept
  <2>3. \A v \in runs : \A r, k : r = v.of /\ k = v.key => Sits(r, k)'
    BY <1>11 DEF Kept, ShapeInv, Runs
  <2>4. (active \in Keys /\ At(cache, active) # {} => drafts[active] # None)'
    BY <1>4, <1>5, <1>6 DEF SeededFrom, At
  <2> QED
    BY <1>4, <2>1, <2>2, <2>3, <2>4 DEF Kept, Sits
<1>16. /\ Order'
       /\ \A x, b : Pending(x, b)' <=> Pending(x, b)
       /\ \A d, i : Latest(d, i)' <=> Latest(d, i)
  BY <1>4, ReceivedOrder
<1>17. \A r \in Reqs : Opened(r) => Opened(r)'
  BY <1>12 DEF Opened
<1>18. \A r \in Reqs : ~ Opened(r) => SameBody(tree, u, r)
  BY <1>2, <1>5 DEF Untouched
<1>19. Typed'
  <2> SUFFICES ASSUME NEW k \in Keys, drafts'[k] # None, NEW d, d = drafts'[k], NEW i, i = tree[d.of]
               PROVE  Latest(d, i)'
    BY <1>4 DEF Typed
  <2>1. CASE drafts[k] # None /\ d = drafts[k]
    <3>1. Latest(d, i)
      BY <2>1 DEF Typed
    <3> QED
      BY <1>16, <3>1
  <2>2. CASE drafts[k] = None /\ \E r \in Reqs : u[r] # None /\ Key(u[r]) = k /\ d = [body |-> u[r].body, of |-> r]
    <3>1. PICK r \in Reqs : u[r] # None /\ Key(u[r]) = k /\ d = [body |-> u[r].body, of |-> r]
      BY <2>2
    <3>2. tree[r] # None /\ i = tree[r] /\ cache[r] # None /\ Key(cache[r]) = k
      BY <1>7, <3>1 DEF Alike
    <3>3. ~ Opened(r)
      <4> SUFFICES ASSUME NEW j \in Keys, drafts[j] # None, drafts[j].of = r PROVE FALSE
        BY DEF Opened
      <4>1. Key(cache[r]) = j
        BY DEF Kept, Sits
      <4> QED
        BY <2>2, <3>2, <4>1
    <3>4. i.body = d.body
      BY <1>18, <3>1, <3>2, <3>3 DEF SameBody
    <3>5. \A b \in 1..MaxEdits : ~ Pending(Addr(i), b)
      BY <3>2, <3>3, Unopened
    <3>6. Latest(d, i)
      BY <3>2, <3>4, <3>5 DEF Latest, SentLast, Final, Pending
    <3> QED
      BY <1>16, <3>6
  <2> QED
    BY <1>13, <2>1, <2>2
<1>20. Owned'
  <2>1. \A k \in Keys : drafts[k] # None => drafts'[k] # None /\ drafts'[k].of = drafts[k].of
    BY <1>12
  <2>2. \A t \in timers : t.key \in Keys
    BY DEF ShapeInv, Timers
  <2>3. (\A t \in timers : drafts[t.key] # None /\ t.addr = Addr(tree[drafts[t.key].of]))'
    BY <1>4, <2>1, <2>2 DEF Owned
  <2>4. (\A x \in Addrs, b \in 1..MaxEdits :
           Pending(x, b) => \E k \in Keys : drafts[k] # None /\ x = Addr(tree[drafts[k].of]))'
    BY <1>4, <1>16, <2>1 DEF Owned
  <2> QED
    BY <2>3, <2>4 DEF Owned
<1>21. Untouched'
  <2>1. \A r \in Reqs : ~ Opened(r) => \A n \in answers' : SameBody(tree, n.tree, r)
    BY <1>1 DEF Untouched
  <2> QED
    BY <1>4, <1>5, <1>17, <1>18, <2>1 DEF Untouched, SameBody
<1>22. BusyEnds'
  BY <1>4 DEF BusyEnds, Listens
<1> QED
  BY <1>8, <1>9, <1>10, <1>15, <1>16, <1>19, <1>20, <1>21, <1>22
(* What is kept goes with a request that is moved. *)

\* Whatever m has is under one key, and is of the request the server has there.
Carried(e, m, X) ==
  /\ e \in [Keys -> X \cup {None}]
  /\ \A k \in Keys : e[k] # None =>
       \E j \in Keys : m[j] = e[k] /\ tree[e[k].of] # None /\ Key(tree[e[k].of]) = k
  /\ \A j \in Keys : m[j] # None => \E k \in Keys : e[k] = m[j]

\* What is under the old key is put under the new one, which has nothing.
LEMMA MovedCarried ==
  ASSUME NEW X, NEW m \in [Keys -> X \cup {None}],
         NEW old \in Keys, NEW new \in Keys, NEW q \in Reqs, tree[q] # None, Key(tree[q]) = new,
         \A k \in Keys : m[k] # None =>
           \/ k = old /\ m[k].of = q
           \/ k # old /\ k # new /\ tree[m[k].of] # None /\ Key(tree[m[k].of]) = k,
         NEW e \in Moved(m, old, new)
  PROVE  Carried(e, m, X)
<1>1. CASE old = new \/ m[old] = None
  <2>1. e = m
    BY <1>1 DEF Moved
  <2>2. \A k \in Keys : m[k] # None => tree[m[k].of] # None /\ Key(tree[m[k].of]) = k
    BY <1>1
  <2> QED
    BY <2>1, <2>2 DEF Carried
<1>2. CASE old # new /\ m[old] # None
  <2>1. m[new] = None
    BY <1>2
  <2>2. e = [m EXCEPT ![old] = None, ![new] = m[old]]
    BY <1>2, <2>1 DEF Moved
  <2>3. /\ e[old] = None /\ e[new] = m[old]
        /\ \A k \in Keys : k # old /\ k # new => e[k] = m[k]
        /\ e \in [Keys -> X \cup {None}]
    BY <1>2, <2>2
  <2>4. ASSUME NEW k \in Keys, e[k] # None
        PROVE  \E j \in Keys : m[j] = e[k] /\ tree[e[k].of] # None /\ Key(tree[e[k].of]) = k
    <3>1. CASE k = new
      BY <1>2, <2>3, <3>1
    <3>2. CASE k # new
      <4>1. k # old /\ e[k] = m[k]
        BY <2>3, <2>4, <3>2
      <4> QED
        BY <2>4, <4>1
    <3> QED
      BY <3>1, <3>2
  <2>5. \A j \in Keys : m[j] # None => \E k \in Keys : e[k] = m[j]
    BY <2>1, <2>3
  <2> QED
    BY <2>3, <2>4, <2>5 DEF Carried
<1> QED
  BY <1>1, <1>2

LEMMA StaysCarried ==
  ASSUME NEW X, NEW m \in [Keys -> X \cup {None}],
         \A k \in Keys : m[k] # None => tree[m[k].of] # None /\ Key(tree[m[k].of]) = k
  PROVE  Carried(m, m, X)
  BY DEF Carried

\* The tabs of a request that is moved.
LEMMA StripMoved ==
  ASSUME StripInv, NEW old \in Keys, NEW new \in Keys, MovedStrip(old, new)
  PROVE  StripInv'
<1>1. DOMAIN tabs = 1..Len(tabs) /\ Len(tabs) \in Nat /\ \A i \in DOMAIN tabs : tabs[i] \in Keys \cup {Folder}
  BY DEF StripInv
<1>2. /\ DOMAIN tabs' = DOMAIN tabs
      /\ \A i \in DOMAIN tabs : tabs'[i] = IF tabs[i] = old THEN new ELSE tabs[i]
      /\ active' = IF active = old THEN new ELSE active
  BY DEF MovedStrip
<1>3. tabs' \in Seq(Keys \cup {Folder})
  <2>1. tabs' = [i \in 1..Len(tabs) |-> IF tabs[i] = old THEN new ELSE tabs[i]]
    BY <1>1 DEF MovedStrip
  <2>2. \A i \in 1..Len(tabs) : (IF tabs[i] = old THEN new ELSE tabs[i]) \in Keys \cup {Folder}
    BY <1>1
  <2> QED
    BY <1>1, <2>1, <2>2
<1>4. active # None => active' = None \/ Contains(tabs', active')
  <2> HAVE active # None
  <2>1. PICK i \in DOMAIN tabs : tabs[i] = active
    BY <1>1 DEF StripInv, Contains
  <2>2. i \in 1..Len(tabs') /\ tabs'[i] = active'
    BY <1>1, <1>2, <1>3, <2>1
  <2> QED
    BY <2>2 DEF Contains
<1>5. active = None => active' = None
  BY <1>2, NoneAssumption
<1> QED
  BY <1>3, <1>4, <1>5 DEF StripInv
\* An accepted change arrives: what is kept follows it.
LEMMA ReceiveCarries ==
  ASSUME WorkInv, NEW a \in answers, Receive(a), a.ok, Answered
  PROVE  /\ UNCHANGED <<tree, rivals, calls, timers, runs, count>> /\ cache' = tree
         /\ Still /\ calls = {} /\ answers' = {} /\ StripInv'
         /\ Carried(shown', shown, Views)
         /\ \E e : Carried(e, drafts, Drafts) /\ SeededFrom(drafts', tree, active', e)
<1> USE DEF WorkInv
<1>1. PICK c \in Changes, ok \in BOOLEAN :
        /\ answers = {[call |-> c, ok |-> ok, tree |-> tree]}
        /\ IF ok THEN Follows(c) ELSE Alike(cache, tree)
  BY DEF Answered
<1>2. a = [call |-> c, ok |-> ok, tree |-> tree] /\ answers \ {a} = {}
  BY <1>1
<1>3. a.call = c /\ a.tree = tree /\ Follows(c)
  BY <1>1, <1>2
<1>4. Still /\ calls = {}
  BY DEF Answered
<1>5. Remaps(a) <=> c.op = "move"
  BY <1>3 DEF Remaps, Follows
<1>6. /\ UNCHANGED <<tree, rivals, calls, timers, runs, count>> /\ cache' = a.tree /\ answers' = answers \ {a}
      /\ \/ /\ c.op = "move" /\ NewKey(a) # {}
            /\ \E new \in NewKey(a) :
                 /\ MovedStrip(a.call.key, new)
                 /\ \E d \in Moved(drafts, a.call.key, new) : drafts' = Seeded(a.tree, active', d)
                 /\ shown' \in Moved(shown, a.call.key, new)
         \/ /\ c.op # "move" \/ NewKey(a) = {}
            /\ UNCHANGED <<tabs, active, shown>> /\ drafts' = Seeded(a.tree, active, drafts)
  BY <1>5 DEF Receive, strip
<1>7. NewKey(a) = {Key(tree[r]) : r \in Named(tree, c.to)}
  BY <1>3 DEF NewKey
<1>8. tree \in Forests /\ Unambiguous(tree) /\ Unambiguous(cache) /\ StripInv
      /\ drafts \in [Keys -> Drafts \cup {None}] /\ shown \in [Keys -> Views \cup {None}]
  BY DEF ShapeInv, BornInv
<1>9. /\ \A k \in Keys : drafts[k] # None => drafts[k].of \in Reqs /\ Sits(drafts[k].of, k) /\ ~ Bare(k)
      /\ \A k \in Keys : shown[k] # None => shown[k].of \in Reqs /\ Sits(shown[k].of, k) /\ ~ Bare(k)
  BY <1>8 DEF Drafts, Views, Kept, Bare
<1>10. CASE c.op # "move"
  <2>1. \A r \in Reqs : \A k : Sits(r, k) /\ ~ Bare(k) => tree[r] # None /\ Key(tree[r]) = k
    BY <1>3, <1>10 DEF Sits, Follows
  <2>2. Carried(drafts, drafts, Drafts) /\ Carried(shown, shown, Views)
    BY <1>8, <1>9, <2>1, StaysCarried
  <2>3. UNCHANGED <<tabs, active, shown>> /\ drafts' = Seeded(tree, active, drafts)
    BY <1>3, <1>6, <1>10
  <2>4. SeededFrom(drafts', tree, active, drafts)
    BY <1>8, <2>3, Seeding
  <2>5. SeededFrom(drafts', tree, active', drafts)
    BY <2>3, <2>4
  <2>6. StripInv'
    BY <1>8, <2>3 DEF StripInv
  <2>7. Carried(shown', shown, Views)
    BY <2>2, <2>3
  <2> QED
    BY <1>2, <1>3, <1>4, <1>6, <2>2, <2>5, <2>6, <2>7
<1>11. CASE c.op = "move"
  <2>1. PICK q \in Reqs : cache[q] # None /\ c.key = Key(cache[q])
    BY <1>3, <1>11 DEF Follows
  <2>2. tree[q] # None /\ c.to = Addr(tree[q])
    BY <1>3, <1>11, <2>1 DEF Follows
  <2> DEFINE new == Key(tree[q])
             old == c.key
  <2>3. new \in Keys /\ old \in Keys
    BY <1>8, <2>1, <2>2, Shapes DEF ShapeInv
  <2>4. Named(tree, c.to) = {q}
    BY <1>8, <2>2, OneThere DEF Named
  <2>5. NewKey(a) = {new}
    BY <1>7, <2>4
  <2>6. \A r \in Reqs : \A k : Sits(r, k) /\ ~ Bare(k) =>
          \/ k = old /\ r = q
          \/ k # old /\ k # new /\ tree[r] # None /\ Key(tree[r]) = k
    <3> SUFFICES ASSUME NEW r \in Reqs, NEW k, Sits(r, k), ~ Bare(k)
                 PROVE  \/ k = old /\ r = q
                        \/ k # old /\ k # new /\ tree[r] # None /\ Key(tree[r]) = k
      OBVIOUS
    <3>1. CASE k = old
      BY <1>8, <2>1, <3>1, OneThere DEF Sits
    <3>2. CASE k # old
      <4>1. tree[r] # None /\ Key(tree[r]) = k
        BY <1>3, <1>11, <3>2 DEF Sits, Follows
      <4>2. r # q
        BY <2>1, <3>2 DEF Sits
      <4>3. k # new
        BY <1>8, <2>2, <4>1, <4>2, OneThere
      <4> QED
        BY <3>2, <4>1, <4>3
    <3> QED
      BY <3>1, <3>2
  <2> HIDE DEF new, old
  <2>7. /\ MovedStrip(old, new)
        /\ \E d \in Moved(drafts, old, new) : drafts' = Seeded(tree, active', d)
        /\ shown' \in Moved(shown, old, new)
    BY <1>3, <1>6, <1>11, <2>5 DEF old
  <2>8. PICK d \in Moved(drafts, old, new) : drafts' = Seeded(tree, active', d)
    BY <2>7
  <2>9. tree[q] # None /\ Key(tree[q]) = new
    BY <2>2 DEF new
  <2>10. \A k \in Keys : drafts[k] # None =>
           \/ k = old /\ drafts[k].of = q
           \/ k # old /\ k # new /\ tree[drafts[k].of] # None /\ Key(tree[drafts[k].of]) = k
    BY <1>9, <2>6
  <2>11. \A k \in Keys : shown[k] # None =>
           \/ k = old /\ shown[k].of = q
           \/ k # old /\ k # new /\ tree[shown[k].of] # None /\ Key(tree[shown[k].of]) = k
    BY <1>9, <2>6
  <2>12. Carried(d, drafts, Drafts)
    BY <1>8, <2>3, <2>9, <2>10, MovedCarried
  <2>13. Carried(shown', shown, Views)
    BY <1>8, <2>3, <2>7, <2>9, <2>11, MovedCarried
  <2>14. StripInv'
    BY <1>8, <2>3, <2>7, StripMoved
  <2>15. SeededFrom(drafts', tree, active', d)
    BY <1>8, <2>8, <2>12, Seeding DEF Carried
  <2> QED
    BY <1>2, <1>3, <1>4, <1>6, <2>12, <2>13, <2>14, <2>15
<1> QED
  BY <1>10, <1>11

LEMMA ReceiveChanged ==
  ASSUME WorkInv, NEW a \in answers, Receive(a), a.ok, Answered
  PROVE  WorkInv'
<1> USE DEF WorkInv, Bodies
<1>1. /\ UNCHANGED <<tree, rivals, calls, timers, runs, count>> /\ cache' = tree
      /\ timers = {} /\ runs = {} /\ calls = {} /\ answers' = {} /\ StripInv'
      /\ Carried(shown', shown, Views)
  BY ReceiveCarries DEF Still
<1>2. PICK e : Carried(e, drafts, Drafts) /\ SeededFrom(drafts', tree, active', e)
  BY ReceiveCarries
<1>3. tree \in Forests /\ Unambiguous(tree)
  BY DEF ShapeInv, BornInv
<1>4. shown' \in [Keys -> Views \cup {None}] /\ drafts' \in [Keys -> Drafts \cup {None}]
  BY <1>1, <1>2 DEF Carried, SeededFrom
<1>5. ShapeInv'
  BY <1>1, <1>3, <1>4 DEF ShapeInv
<1>6. Phase'
  BY <1>1 DEF Phase, Calm, Alike
<1>7. BornInv'
  BY <1>1, <1>3 DEF BornInv
<1>8. \A k \in Keys : drafts'[k] # None =>
        \/ \E j \in Keys : drafts[j] = drafts'[k] /\ tree[drafts'[k].of] # None /\ Key(tree[drafts'[k].of]) = k
        \/ \E r \in Reqs : tree[r] # None /\ Key(tree[r]) = k /\ drafts'[k] = [body |-> tree[r].body, of |-> r]
  <2> TAKE k \in Keys
  <2> HAVE drafts'[k] # None
  <2>1. CASE drafts'[k] = e[k]
    BY <1>2, <2>1 DEF Carried
  <2>2. CASE k = active' /\ \E r \in At(tree, active') : drafts'[k] = [body |-> tree[r].body, of |-> r]
    BY <2>2 DEF At
  <2> QED
    BY <1>2, <2>1, <2>2 DEF SeededFrom
<1>9. Kept'
  <2>1. ASSUME NEW k \in Keys, drafts'[k] # None
        PROVE  tree[drafts'[k].of] # None /\ Key(tree[drafts'[k].of]) = k
    <3>1. CASE \E r \in Reqs : tree[r] # None /\ Key(tree[r]) = k /\ drafts'[k] = [body |-> tree[r].body, of |-> r]
      <4>1. PICK r \in Reqs : tree[r] # None /\ Key(tree[r]) = k /\ drafts'[k] = [body |-> tree[r].body, of |-> r]
        BY <3>1
      <4>2. drafts'[k].of = r
        BY <4>1
      <4> QED
        BY <4>1, <4>2
    <3> QED
      BY <1>8, <2>1, <3>1
  <2>2. \A k \in Keys : shown'[k] # None => tree[shown'[k].of] # None /\ Key(tree[shown'[k].of]) = k
    BY <1>1 DEF Carried
  <2>3. active' \in Keys /\ At(tree, active') # {} => drafts'[active'] # None
    BY <1>2 DEF SeededFrom
  <2>4. (\A k \in Keys : drafts[k] # None => Sits(drafts[k].of, k))'
    BY <1>1, <2>1 DEF Sits
  <2>5. (\A k \in Keys : shown[k] # None => Sits(shown[k].of, k))'
    BY <1>1, <2>2 DEF Sits
  <2>6. (active \in Keys /\ At(cache, active) # {} => drafts[active] # None)'
    BY <1>1, <2>3 DEF At
  <2>7. runs' = {}
    BY <1>1
  <2> QED
    BY <2>4, <2>5, <2>6, <2>7 DEF Kept
<1>10. /\ Order'
       /\ \A x, b : Pending(x, b)' <=> Pending(x, b)
       /\ \A d, i : Latest(d, i)' <=> Latest(d, i)
  BY <1>1, ReceivedOrder
<1>11. \A x, b : ~ Pending(x, b)
  BY <1>1, NothingPending DEF Still
<1>12. \A k \in Keys : drafts[k] # None =>
         tree[drafts[k].of] # None /\ tree[drafts[k].of].body \in Final(drafts[k])
  BY <1>11 DEF Typed, Latest, SentLast, Pending
<1>13. \A k \in Keys : drafts'[k] # None =>
         tree[drafts'[k].of] # None /\ tree[drafts'[k].of].body \in Final(drafts'[k])
  <2> TAKE k \in Keys
  <2> HAVE drafts'[k] # None
  <2>1. CASE \E r \in Reqs : tree[r] # None /\ Key(tree[r]) = k /\ drafts'[k] = [body |-> tree[r].body, of |-> r]
    <3>1. PICK r \in Reqs : tree[r] # None /\ drafts'[k] = [body |-> tree[r].body, of |-> r]
      BY <2>1
    <3>2. drafts'[k].of = r /\ drafts'[k].body = tree[r].body
      BY <3>1
    <3> QED
      BY <3>1, <3>2 DEF Final
  <2>2. CASE \E j \in Keys : drafts[j] = drafts'[k]
    BY <1>12, <2>2
  <2> QED
    BY <1>8, <2>1, <2>2
<1>14. Typed'
  <2>1. \A k \in Keys : drafts'[k] # None => Latest(drafts'[k], tree[drafts'[k].of])
    BY <1>11, <1>13 DEF Latest, SentLast, Pending
  <2> QED
    BY <1>1, <1>10, <2>1 DEF Typed
<1>15. Owned'
  BY <1>1, <1>10, <1>11 DEF Owned
<1>16. Untouched'
  BY <1>1 DEF Untouched, SameBody
<1>17. BusyEnds'
  <2>1. \A k \in Keys : shown[k] # None => ~ shown[k].busy
    BY <1>1 DEF BusyEnds
  <2>2. \A k \in Keys : shown'[k] # None => ~ shown'[k].busy
    BY <1>1, <2>1 DEF Carried
  <2> QED
    BY <2>2 DEF BusyEnds
<1> QED
  BY <1>5, <1>6, <1>7, <1>9, <1>10, <1>14, <1>15, <1>16, <1>17

LEMMA ReceiveWork ==
  ASSUME WorkInv, NEW a \in answers, Receive(a)
  PROVE  WorkInv'
<1>1. ~ Asked
  BY DEF Asked
<1> QED
  BY <1>1, ReceiveRefused, ReceivePlain, ReceiveChanged DEF WorkInv, Phase
-----------------------------------------------------------------------------
(* Every step. *)

LEMMA WorkStep ==
  ASSUME WorkInv, Care, [Next]_vars
  PROVE  WorkInv'
<1>1. CASE UNCHANGED vars
  <2>1. UNCHANGED <<tree, rivals, calls, answers, cache, tabs, active, drafts, shown, timers, runs, count>>
    BY <1>1 DEF vars
  <2>5. \A d, i : Latest(d, i)' <=> Latest(d, i)
    BY <2>1, ReceivedOrder DEF WorkInv, Bodies
  <2>2. ShapeInv' /\ BornInv' /\ Kept' /\ BusyEnds'
    BY <2>1 DEF WorkInv, ShapeInv, StripInv, BornInv, Kept, Sits, BusyEnds, Listens
  <2>3. Phase'
    BY <2>1 DEF WorkInv, Phase, Calm, Asked, Answered, Fitting, Fitted, Follows, Still, Bare
  <2>4. Bodies'
    BY <2>1, <2>5 DEF WorkInv, Bodies, Order, Typed, Owned, Untouched, Opened, SameBody, Pending, Sent, Waits
  <2> QED
    BY <2>2, <2>3, <2>4 DEF WorkInv
<1>2. ASSUME NEW key \in Keys \cup {Folder}, OpenTab(key) \/ ClickTab(key) PROVE WorkInv'
  BY <1>2, OpenTabOpens, OpensWork DEF WorkInv
<1>3. ASSUME NEW i \in DOMAIN tabs, CloseTabs(i) PROVE WorkInv'
  <2>1. PICK key : Opens(key)
    BY <1>3, CloseTabsOpens DEF WorkInv
  <2> QED
    BY <2>1, OpensWork
<1>4. ASSUME NEW r \in Reqs, Edit(r) PROVE WorkInv'
  BY <1>4, EditWork
<1>5. ASSUME NEW r \in Reqs, Run(r) PROVE WorkInv'
  BY <1>5, RunWork
<1>6. ASSUME NEW r \in Reqs, Delete(r) PROVE WorkInv'
  <2>1. Top \in Dirs
    BY DEF Dirs
  <2>2. PICK name : cache[r] # None => name \in Names
    <3>1. cache[r] # None => cache[r].name \in Names
      BY Shapes DEF WorkInv, ShapeInv, Items
    <3> QED
      BY <3>1
  <2>3. name \in Names
    BY <1>6, <2>2 DEF Delete
  <2> QED
    BY <1>6, <2>1, <2>3, PanelWork
<1>7. ASSUME NEW r \in Reqs, NEW d \in Dirs, NEW name \in Names, Create(r, d, name) PROVE WorkInv'
  BY <1>7, PanelWork
<1>8. ASSUME NEW r \in Reqs, NEW name \in Names, Rename(r, name) PROVE WorkInv'
  <2>1. Top \in Dirs
    BY DEF Dirs
  <2> QED
    BY <1>8, <2>1, PanelWork
<1>9. ASSUME NEW r \in Reqs, NEW d \in Dirs, Move(r, d) PROVE WorkInv'
  <2>1. cache[r] # None => cache[r].name \in Names
    BY Shapes DEF WorkInv, ShapeInv, Items
  <2>2. cache[r].name \in Names
    BY <1>9, <2>1 DEF Move
  <2> QED
    BY <1>9, <2>2, PanelWork
<1>10. ASSUME NEW u \in runs, Stop(u) PROVE WorkInv'
  BY <1>10, StopWork
<1>11. ASSUME NEW t \in timers, Save(t) PROVE WorkInv'
  BY <1>11, SaveWork
<1>12. ASSUME NEW u \in runs, Message(u) \/ RunEnds(u) PROVE WorkInv'
  BY <1>12, MessageWork, RunEndsWork
<1>13. ASSUME NEW call \in calls, Serve(call) PROVE WorkInv'
  BY <1>13, ServeWork
<1>14. ASSUME NEW a \in answers, Receive(a) PROVE WorkInv'
  BY <1>14, ReceiveWork
<1> QED
  BY <1>1, <1>2, <1>3, <1>4, <1>5, <1>6, <1>7, <1>8, <1>9, <1>10, <1>11, <1>12, <1>13, <1>14 DEF Next, User

LEMMA WorkInvariant ==
  ASSUME Care
  PROVE  Spec => []WorkInv
<1>1. Init => WorkInv
  BY InitialWork
<1>2. WorkInv /\ [Next]_vars => WorkInv'
  BY WorkStep
<1> QED
  BY <1>1, <1>2, PTL DEF Spec

-----------------------------------------------------------------------------
(* What a user who waits can rely on. *)

LEMMA OwnFromWork ==
  ASSUME WorkInv
  PROVE  KeptIsOwn
<1> USE DEF WorkInv
<1>1. TypeOK
  <2>1. \A i \in DOMAIN tabs : tabs[i] \in Keys \cup {Folder}
    BY DEF ShapeInv, StripInv
  <2> QED
    BY <2>1 DEF TypeOK, ShapeInv, StripInv, Forests, Timers, Runs
<1>2. \A key \in Keys : \A r \in At(cache, key) :
        /\ drafts[key] # None => drafts[key].of = r
        /\ shown[key] # None => shown[key].of = r
  <2>1. \A key : \A r \in At(cache, key) : r \in Reqs
    BY DEF At
  <2> QED
    BY <2>1, KeptThere
<1> QED
  BY <1>1, <1>2 DEF KeptIsOwn

LEMMA SavedFromWork ==
  ASSUME WorkInv
  PROVE  EditsSaved
<1> USE DEF WorkInv, Bodies
<1> SUFFICES ASSUME timers = {}, calls = {}, NEW key \in Keys, NEW r \in At(cache, key), drafts[key] # None
             PROVE  tree[r] # None /\ tree[r].body \in {drafts[key].body} \cup rivals[r]
  BY DEF EditsSaved
<1>1. r \in Reqs
  BY DEF At
<1>2. drafts[key].of = r
  BY <1>1, KeptThere
<1>3. \A a, b : ~ Sent(a, b) /\ ~ Waits(a, b)
  BY DEF Sent, Waits
<1> QED
  BY <1>2, <1>3 DEF Typed, Latest, SentLast, Final

\* However the answers, the saves and the runs go on while the user waits for
\* what changes the tree, a draft and the state of a run are kept under the key
\* of the request they are of (panel-store.ts remapKeys, CollectionPanel.tsx
\* slugKeyIn).
THEOREM WorkKeptIsOwn ==
  ASSUME Care
  PROVE  Spec => []KeptIsOwn
<1>1. WorkInv => KeptIsOwn
  BY OwnFromWork
<1> QED
  BY <1>1, WorkInvariant, PTL

\* What was typed is on the server once the typing has paused and all is
\* answered, whatever tabs were opened, closed and switched to in between; an
\* older text can be there instead only when it was on its way as the newest
\* was sent, for saves are not held back for one another
\* (RequestWorkspace.tsx scheduleSave).
THEOREM WorkEditsSaved ==
  ASSUME Care
  PROVE  Spec => []EditsSaved
<1>1. WorkInv => EditsSaved
  BY SavedFromWork
<1> QED
  BY <1>1, WorkInvariant, PTL

\* A request that is shown to be running has a run that will end that.
THEOREM WorkBusyEnds ==
  ASSUME Care
  PROVE  Spec => []BusyEnds
<1>1. WorkInv => BusyEnds
  BY DEF WorkInv
<1> QED
  BY <1>1, WorkInvariant, PTL
==============================================================================
