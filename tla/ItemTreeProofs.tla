--------------------------- MODULE ItemTreeProofs ----------------------------
(***************************************************************************)
(* What the folders and requests of a collection are promised, for any     *)
(* number of directories, names and calls, with cuts after any file        *)
(* operation: they are a forest in which paths are unambiguous, nothing is *)
(* written over, a reader is shown each item once, a list that is written  *)
(* is shown from then on, and every step is one of OrderedItems.           *)
(*                                                                         *)
(* The inductive invariant TreeInv says of each plan that is being carried *)
(* out what its steps have left to do and what they find (Planned).  What  *)
(* is above a directory is characterised as the least set that has it and  *)
(* is closed under parents (ChainIs): the forest is argued with sets.      *)
(* For the refinement, OrderInv adds that the steps of a plan are about    *)
(* one item and that a list still to be written has the others in the      *)
(* order in which they are shown.                                          *)
(***************************************************************************)
EXTENDS ItemTree, FiniteSetTheorems, SequenceTheorems, WellFoundedInduction, TLAPS

(* Numbers and finite sets. *)

LessThan == { p \in Nat \X Nat : p[1] < p[2] }

LEMMA LeastNumber ==
  ASSUME NEW T \in SUBSET Nat, T # {}
  PROVE  \E x \in T : \A y \in T : x <= y
<1>1. IsWellFoundedOn(LessThan, Nat)
  <2>1. LessThan = OpToRel(<, Nat)
    BY DEF LessThan, OpToRel
  <2> QED
    BY <2>1, NatLessThanWellFounded
<1>2. PICK x \in T : \A y \in T : <<y, x>> \notin LessThan
  BY <1>1, WFMin
<1>3. ASSUME NEW y \in T PROVE x <= y
  <2>1. x \in Nat /\ y \in Nat /\ ~(y < x)
    BY <1>2 DEF LessThan
  <2> QED
    BY <2>1
<1> QED
  BY <1>3

N == Cardinality(Nodes)

LEMMA NodesNumber == N \in Nat /\ IsFiniteSet(Dirs) /\ Cardinality(Dirs) = N + 1
<1>1. IsFiniteSet(Nodes) /\ Root \notin Nodes
  BY NodesAssumption, RootAssumption
<1>2. N \in Nat
  BY <1>1, FS_CardinalityType DEF N
<1> QED
  BY <1>1, <1>2, FS_AddElement DEF Dirs, N

LEMMA Grows ==
  ASSUME NEW S, NEW T, IsFiniteSet(T), S \subseteq T, S # T
  PROVE  /\ IsFiniteSet(S) /\ Cardinality(S) \in Nat /\ Cardinality(T) \in Nat
         /\ Cardinality(S) < Cardinality(T)
<1>1. S \in SUBSET T
  OBVIOUS
<1>2. IsFiniteSet(S) /\ Cardinality(S) <= Cardinality(T) /\ Cardinality(S) # Cardinality(T)
  BY <1>1, FS_Subset
<1>3. Cardinality(S) \in Nat /\ Cardinality(T) \in Nat
  BY <1>2, FS_CardinalityType
<1> QED
  BY <1>2, <1>3

-----------------------------------------------------------------------------
(* Above: what the recursive definition computes. *)

PlacesOf == [Nodes -> Places \cup {None}]

OneUp(at, S) == S \cup {at[m].parent : m \in {x \in S \ {Root} : at[x] # None}}

Climbs(up, at, d, n) == up = [k \in 0..n |-> IF k = 0 THEN {d} ELSE OneUp(at, up[k - 1])]

Closed(at, S) == \A m \in S \ {Root} : at[m] # None => at[m].parent \in S

LEMMA ParentIsDir ==
  ASSUME NEW at \in PlacesOf, NEW m \in Nodes, at[m] # None
  PROVE  at[m].parent \in Dirs /\ at[m].slug \in Slugs /\ at[m] \in Places
<1>1. at[m] \in Places
  BY DEF PlacesOf
<1> QED
  BY <1>1 DEF Places, Dirs

LEMMA NotRoot ==
  ASSUME NEW m \in Dirs \ {Root}
  PROVE  m \in Nodes
  BY DEF Dirs

LEMMA ClimbExists ==
  ASSUME NEW at, NEW d, NEW n \in Nat
  PROVE  \E up : Climbs(up, at, d, n)
<1> DEFINE fails == { m \in Nat : ~ \E up : Climbs(up, at, d, m) }
<1>1. SUFFICES ASSUME n \in fails PROVE FALSE
  OBVIOUS
<1>2. PICK m \in fails : \A k \in fails : m <= k
  BY <1>1, LeastNumber
<1>3. CASE m = 0
  <2>1. Climbs([k \in 0..0 |-> {d}], at, d, 0)
    BY DEF Climbs
  <2> QED
    BY <1>2, <1>3, <2>1
<1>4. CASE m # 0
  <2>1. m \in Nat /\ m - 1 \in Nat /\ ~(m <= m - 1)
    BY <1>4
  <2>2. m - 1 \notin fails
    BY <1>2, <2>1
  <2>3. PICK f : Climbs(f, at, d, m - 1)
    BY <2>1, <2>2
  <2> DEFINE g == [k \in 0..m |-> IF k = m THEN OneUp(at, f[m - 1]) ELSE f[k]]
  <2>4. ASSUME NEW k \in 0..m PROVE g[k] = IF k = 0 THEN {d} ELSE OneUp(at, g[k - 1])
    <3>1. CASE k = m
      <4>1. m - 1 \in 0..m /\ m - 1 # m /\ g[m - 1] = f[m - 1]
        BY <2>1
      <4> QED
        BY <1>4, <3>1, <4>1
    <3>2. CASE k # m
      <4>1. k \in 0..(m - 1) /\ g[k] = f[k]
        BY <2>1, <3>2
      <4>2. f[k] = IF k = 0 THEN {d} ELSE OneUp(at, f[k - 1])
        <5> HIDE DEF fails, g
        <5> QED
          BY <2>3, <4>1 DEF Climbs
      <4>3. k # 0 => k - 1 \in 0..m /\ k - 1 # m
        BY <2>1, <4>1
      <4> QED
        BY <4>1, <4>2, <4>3
    <3> QED
      BY <3>1, <3>2
  <2>5. Climbs(g, at, d, m)
    BY <2>4 DEF Climbs
  <2> QED
    BY <1>2, <2>5
<1> QED
  BY <1>3, <1>4

LEMMA ChainClimbs ==
  ASSUME NEW at, NEW d
  PROVE  \E up : Climbs(up, at, d, N) /\ Chain(at, d) = up[N]
<1> DEFINE up == CHOOSE f : f = [k \in 0..N |-> IF k = 0 THEN {d} ELSE OneUp(at, f[k - 1])]
<1>1. Climbs(up, at, d, N)
  <2>1. \E f : f = [k \in 0..N |-> IF k = 0 THEN {d} ELSE OneUp(at, f[k - 1])]
    <3>1. PICK f : Climbs(f, at, d, N)
      BY ClimbExists, NodesNumber
    <3> QED
      BY <3>1, Zenon DEF Climbs
  <2> QED
    BY <2>1, Zenon DEF Climbs
<1>2. Chain(at, d) = up[N]
  BY DEF Chain, N, OneUp
<1> QED
  BY <1>1, <1>2

LEMMA ClimbSteps ==
  ASSUME NEW up, NEW at, NEW d, NEW n \in Nat, Climbs(up, at, d, n)
  PROVE  /\ up[0] = {d}
         /\ \A k \in 0..n : k # 0 => up[k] = OneUp(at, up[k - 1])
<1> QED
  BY DEF Climbs

\* Everything a climb meets is within any closed set that has its start.
LEMMA ClimbWithin ==
  ASSUME NEW up, NEW at, NEW d, NEW n \in Nat, Climbs(up, at, d, n),
         NEW S, d \in S, Closed(at, S), NEW k \in 0..n
  PROVE  up[k] \subseteq S
<1> DEFINE fails == { j \in 0..n : ~ (up[j] \subseteq S) }
<1>1. SUFFICES ASSUME k \in fails PROVE FALSE
  OBVIOUS
<1>2. PICK j \in fails : \A i \in fails : j <= i
  <2>1. fails \in SUBSET Nat
    OBVIOUS
  <2> QED
    BY <1>1, <2>1, LeastNumber
<1>3. j # 0
  BY <1>2, ClimbSteps
<1>4. j - 1 \in 0..n /\ ~(j <= j - 1)
  BY <1>3
<1>5. up[j - 1] \subseteq S
  BY <1>2, <1>4
<1>6. up[j] = OneUp(at, up[j - 1])
  BY <1>3, ClimbSteps
<1>7. OneUp(at, up[j - 1]) \subseteq S
  BY <1>5 DEF OneUp, Closed
<1> QED
  BY <1>2, <1>6, <1>7

LEMMA ClimbStays ==
  ASSUME NEW up, NEW at, NEW d, NEW n \in Nat, Climbs(up, at, d, n),
         NEW k \in 0..n, Closed(at, up[k])
  PROVE  up[n] = up[k]
<1> DEFINE fails == { j \in 0..n : k <= j /\ up[j] # up[k] }
<1>1. SUFFICES ASSUME n \in fails PROVE FALSE
  OBVIOUS
<1>2. PICK j \in fails : \A i \in fails : j <= i
  <2>1. fails \in SUBSET Nat
    OBVIOUS
  <2> QED
    BY <1>1, <2>1, LeastNumber
<1>3. j # k /\ j # 0
  BY <1>2
<1>4. j - 1 \in 0..n /\ k <= j - 1 /\ ~(j <= j - 1)
  BY <1>2, <1>3
<1>5. up[j - 1] = up[k]
  BY <1>2, <1>4
<1>6. up[j] = OneUp(at, up[j - 1])
  BY <1>3, ClimbSteps
<1>7. OneUp(at, up[k]) = up[k]
  BY DEF OneUp, Closed
<1> QED
  BY <1>2, <1>5, <1>6, <1>7

\* A climb that has met less than everything it can meet meets more.
LEMMA ClimbCloses ==
  ASSUME NEW up, NEW at \in PlacesOf, NEW d \in Dirs, Climbs(up, at, d, N)
  PROVE  Closed(at, up[N])
<1>0. N \in Nat /\ IsFiniteSet(Dirs) /\ Cardinality(Dirs) = N + 1
  BY NodesNumber
<1>1. Closed(at, Dirs)
  BY NotRoot, ParentIsDir DEF Closed
<1>2. \A k \in 0..N : up[k] \subseteq Dirs
  BY <1>0, <1>1, ClimbWithin
<1>3. CASE \E k \in 0..N : Closed(at, up[k])
  BY <1>0, <1>3, ClimbStays
<1>4. CASE \A k \in 0..N : ~ Closed(at, up[k])
  <2> DEFINE fails == { k \in 0..N : ~(k + 1 <= Cardinality(up[k])) }
  <2>1. \A k \in 0..N : IsFiniteSet(up[k]) /\ Cardinality(up[k]) \in Nat
    BY <1>0, <1>2, FS_Subset, FS_CardinalityType
  <2>2. fails = {}
    <3> SUFFICES ASSUME fails # {} PROVE FALSE
      OBVIOUS
    <3>1. PICK j \in fails : \A i \in fails : j <= i
      <4>1. fails \in SUBSET Nat
        BY <1>0
      <4> QED
        BY <4>1, LeastNumber
    <3>2. j # 0
      <4>1. up[0] = {d}
        BY <1>0, ClimbSteps
      <4>2. Cardinality({d}) = 1
        BY FS_Singleton
      <4>3. Cardinality(up[0]) = 1
        BY <4>1, <4>2
      <4>4. 0 \notin fails
        BY <4>3
      <4> QED
        BY <3>1, <4>4
    <3>3. j - 1 \in 0..N /\ ~(j <= j - 1) /\ j \in 0..N
      BY <1>0, <3>1, <3>2
    <3>4. j <= Cardinality(up[j - 1])
      <4>1. j - 1 \notin fails
        BY <3>1, <3>3
      <4>2. (j - 1) + 1 <= Cardinality(up[j - 1])
        BY <3>3, <4>1
      <4> QED
        BY <3>3, <4>2
    <3>5. up[j] = OneUp(at, up[j - 1])
      BY <1>0, <3>2, ClimbSteps
    <3>6. up[j - 1] \subseteq up[j] /\ up[j - 1] # up[j]
      <4>1. ~ Closed(at, up[j - 1])
        BY <1>4, <3>3
      <4> QED
        BY <3>5, <4>1 DEF OneUp, Closed
    <3>7. Cardinality(up[j - 1]) < Cardinality(up[j])
      BY <2>1, <3>3, <3>6, Grows
    <3>8. Cardinality(up[j - 1]) \in Nat /\ Cardinality(up[j]) \in Nat
      BY <2>1, <3>3
    <3> QED
      BY <3>1, <3>3, <3>4, <3>7, <3>8
  <2>3. N + 1 <= Cardinality(up[N])
    BY <1>0, <2>2
  <2>4. up[N] = Dirs
    <3>1. up[N] \in SUBSET Dirs
      BY <1>0, <1>2
    <3>2. Cardinality(up[N]) <= Cardinality(Dirs) /\ (Cardinality(Dirs) = Cardinality(up[N]) => Dirs = up[N])
      BY <1>0, <3>1, FS_Subset
    <3>3. Cardinality(up[N]) \in Nat
      BY <1>0, <2>1
    <3> QED
      BY <1>0, <2>3, <3>2, <3>3
  <2> QED
    BY <1>1, <2>4
<1> QED
  BY <1>3, <1>4

\* Chain(at, d) is the least closed set with d.
ChainFacts(at, d) ==
  /\ d \in Chain(at, d)
  /\ Chain(at, d) \subseteq Dirs
  /\ Closed(at, Chain(at, d))
  /\ \A S : d \in S /\ Closed(at, S) => Chain(at, d) \subseteq S

LEMMA ChainIs ==
  ASSUME NEW at \in PlacesOf, NEW d \in Dirs
  PROVE  ChainFacts(at, d)
<1>0. N \in Nat
  BY NodesNumber
<1>1. PICK up : Climbs(up, at, d, N) /\ Chain(at, d) = up[N]
  BY ChainClimbs
<1>2. Closed(at, Chain(at, d))
  BY <1>1, ClimbCloses
<1>3. \A S : d \in S /\ Closed(at, S) => Chain(at, d) \subseteq S
  BY <1>0, <1>1, ClimbWithin
<1>4. Closed(at, Dirs)
  BY NotRoot, ParentIsDir DEF Closed
<1>5. d \in Chain(at, d)
  <2> DEFINE fails == { j \in 0..N : d \notin up[j] }
  <2> SUFFICES ASSUME N \in fails PROVE FALSE
    BY <1>0, <1>1
  <2>1. PICK j \in fails : \A i \in fails : j <= i
    <3>1. fails \in SUBSET Nat
      BY <1>0
    <3> QED
      BY <3>1, LeastNumber
  <2>2. j # 0
    BY <1>0, <1>1, <2>1, ClimbSteps
  <2>3. j - 1 \in 0..N /\ ~(j <= j - 1)
    BY <1>0, <2>1, <2>2
  <2>4. d \in up[j - 1]
    BY <2>1, <2>3
  <2>5. up[j] = OneUp(at, up[j - 1])
    BY <1>0, <1>1, <2>2, ClimbSteps
  <2> QED
    BY <2>1, <2>4, <2>5 DEF OneUp
<1> QED
  BY <1>2, <1>3, <1>4, <1>5 DEF ChainFacts

-----------------------------------------------------------------------------
(* Forests. *)

Forest(at) == \A n \in Nodes : at[n] # None => Root \in Chain(at, n)

\* The root, or a directory that is there.
There(at, d) == d = Root \/ (d \in Nodes /\ at[d] # None)

LEMMA ChainOfRoot ==
  ASSUME NEW at \in PlacesOf
  PROVE  Chain(at, Root) = {Root}
<1>1. Root \in Dirs /\ Closed(at, {Root})
  BY DEF Dirs, Closed
<1>2. ChainFacts(at, Root)
  BY <1>1, ChainIs
<1> QED
  BY <1>1, <1>2 DEF ChainFacts

LEMMA ChainOfChain ==
  ASSUME NEW at \in PlacesOf, NEW d \in Dirs, NEW e \in Chain(at, d)
  PROVE  Chain(at, e) \subseteq Chain(at, d)
<1>1. ChainFacts(at, d)
  BY ChainIs
<1>2. ChainFacts(at, e)
  BY <1>1, ChainIs DEF ChainFacts
<1> QED
  BY <1>1, <1>2 DEF ChainFacts

LEMMA ChainOfParent ==
  ASSUME NEW at \in PlacesOf, NEW n \in Nodes, at[n] # None
  PROVE  /\ Chain(at, at[n].parent) \subseteq Chain(at, n)
         /\ Chain(at, n) \subseteq {n} \cup Chain(at, at[n].parent)
<1>1. n \in Dirs /\ n # Root /\ at[n].parent \in Dirs
  BY ParentIsDir, RootAssumption DEF Dirs
<1>2. ChainFacts(at, n) /\ ChainFacts(at, at[n].parent)
  BY <1>1, ChainIs
<1>3. at[n].parent \in Chain(at, n)
  BY <1>1, <1>2 DEF ChainFacts, Closed
<1>4. Closed(at, {n} \cup Chain(at, at[n].parent))
  BY <1>2 DEF ChainFacts, Closed
<1>5. Chain(at, n) \subseteq {n} \cup Chain(at, at[n].parent)
  BY <1>2, <1>4 DEF ChainFacts
<1> QED
  BY <1>1, <1>3, <1>5, ChainOfChain

LEMMA AllThere ==
  ASSUME NEW at \in PlacesOf, Forest(at), NEW d, There(at, d)
  PROVE  Root \in Chain(at, d) /\ \A m \in Chain(at, d) : There(at, m)
<1>1. d \in Dirs /\ Root \in Chain(at, d)
  BY ChainOfRoot DEF There, Forest, Dirs
<1>2. ChainFacts(at, d)
  BY <1>1, ChainIs
<1> DEFINE T == { m \in Chain(at, d) : Root \in Chain(at, m) }
<1>3. Closed(at, T)
  <2> SUFFICES ASSUME NEW m \in T \ {Root}, at[m] # None PROVE at[m].parent \in T
    BY DEF Closed
  <2>1. m \in Nodes /\ at[m].parent \in Chain(at, d)
    BY <1>2, NotRoot DEF ChainFacts, Closed
  <2>2. Root \in Chain(at, at[m].parent)
    BY <2>1, ChainOfParent, RootAssumption
  <2> QED
    BY <2>1, <2>2
<1>4. Chain(at, d) \subseteq T
  BY <1>1, <1>2, <1>3 DEF ChainFacts
<1>5. ASSUME NEW m \in Chain(at, d), m # Root PROVE at[m] # None
  <2>1. SUFFICES ASSUME at[m] = None PROVE FALSE
    OBVIOUS
  <2>2. m \in Dirs /\ Closed(at, {m})
    BY <1>2, <1>5, <2>1 DEF ChainFacts, Closed
  <2>3. Chain(at, m) \subseteq {m}
    BY <2>2, ChainIs DEF ChainFacts
  <2> QED
    BY <1>4, <1>5, <2>3
<1> QED
  BY <1>1, <1>2, <1>5, NotRoot DEF There, ChainFacts

LEMMA NotAboveItself ==
  ASSUME NEW at \in PlacesOf, Forest(at), NEW n \in Nodes, at[n] # None
  PROVE  n \notin Chain(at, at[n].parent)
<1>1. SUFFICES ASSUME n \in Chain(at, at[n].parent) PROVE FALSE
  OBVIOUS
<1>2. n \in Dirs /\ n # Root
  BY RootAssumption DEF Dirs
<1>3. ChainFacts(at, n)
  BY <1>2, ChainIs
<1> DEFINE T == { m \in Chain(at, n) : n \in Chain(at, m) }
<1>4. Closed(at, T)
  <2> SUFFICES ASSUME NEW m \in T \ {Root}, at[m] # None PROVE at[m].parent \in T
    BY DEF Closed
  <2>1. m \in Nodes /\ at[m].parent \in Chain(at, n)
    BY <1>3, NotRoot DEF ChainFacts, Closed
  <2>2. n \in Chain(at, at[m].parent)
    BY <1>1, <2>1, ChainOfParent
  <2> QED
    BY <2>1, <2>2
<1>5. Chain(at, n) \subseteq T
  BY <1>3, <1>4 DEF ChainFacts
<1>6. Root \in T
  BY <1>5 DEF Forest
<1> QED
  BY <1>2, <1>6, ChainOfRoot

LEMMA AboveHasChild ==
  ASSUME NEW at \in PlacesOf, NEW d \in Dirs, NEW m \in Chain(at, d), m # d
  PROVE  \E k \in Nodes : k \in Chain(at, d) /\ at[k] # None /\ at[k].parent = m
<1>1. ChainFacts(at, d)
  BY ChainIs
<1> DEFINE T == { x \in Chain(at, d) :
                    \/ x = d
                    \/ \E k \in Nodes : k \in Chain(at, d) /\ at[k] # None /\ at[k].parent = x }
<1>2. Closed(at, T)
  <2> SUFFICES ASSUME NEW x \in T \ {Root}, at[x] # None PROVE at[x].parent \in T
    BY DEF Closed
  <2>1. x \in Nodes /\ at[x].parent \in Chain(at, d)
    BY <1>1, NotRoot DEF ChainFacts, Closed
  <2> QED
    BY <2>1
<1>3. Chain(at, d) \subseteq T
  BY <1>1, <1>2 DEF ChainFacts
<1> QED
  BY <1>3

LEMMA SameAbove ==
  ASSUME NEW at \in PlacesOf, NEW to \in PlacesOf, NEW d \in Dirs,
         \A m \in Chain(at, d) \ {Root} : to[m] = at[m]
  PROVE  Chain(to, d) = Chain(at, d)
<1>1. ChainFacts(at, d) /\ ChainFacts(to, d)
  BY ChainIs
<1>2. Closed(to, Chain(at, d))
  BY <1>1 DEF ChainFacts, Closed
<1>3. Chain(to, d) \subseteq Chain(at, d)
  BY <1>1, <1>2 DEF ChainFacts
<1>4. Closed(at, Chain(to, d))
  BY <1>1, <1>3 DEF ChainFacts, Closed
<1>5. Chain(at, d) \subseteq Chain(to, d)
  BY <1>1, <1>4 DEF ChainFacts
<1> QED
  BY <1>3, <1>5

\* The directories of gone are empty and go; n is put below d, which n is not above.
Puts(at, to, n, d, gone) ==
  /\ There(at, d) /\ n \notin Chain(at, d)
  /\ d \notin gone /\ n \notin gone
  /\ \A k \in Nodes : at[k] # None => at[k].parent \notin gone
  /\ to[n] # None /\ to[n].parent = d
  /\ \A m \in gone : to[m] = None
  /\ \A m \in Nodes \ (gone \cup {n}) : to[m] = at[m]

LEMMA PutBelow ==
  ASSUME NEW at \in PlacesOf, Forest(at), NEW to \in PlacesOf,
         NEW n \in Nodes, NEW d \in Dirs, NEW gone \in SUBSET Nodes, Puts(at, to, n, d, gone)
  PROVE  Forest(to)
<1> USE DEF Puts
<1>1. \A y \in Dirs \ gone : \A m \in Chain(at, y) \ {Root} : m # n => to[m] = at[m]
  <2> SUFFICES ASSUME NEW y \in Dirs \ gone, NEW m \in Chain(at, y) \ {Root}, m # n
               PROVE  to[m] = at[m]
    OBVIOUS
  <2>1. m \in Nodes
    BY ChainIs, NotRoot DEF ChainFacts
  <2>2. m \notin gone
    BY AboveHasChild
  <2> QED
    BY <2>1, <2>2
<1>2. Root \in Chain(to, d)
  <2>1. Chain(to, d) = Chain(at, d)
    BY <1>1, SameAbove
  <2> QED
    BY <2>1, AllThere
<1>3. Root \in Chain(to, n)
  BY <1>2, ChainOfParent
<1>4. ASSUME NEW y \in Nodes, to[y] # None, y # n PROVE Root \in Chain(to, y)
  <2>1. y \in Dirs \ gone /\ at[y] # None /\ Root \in Chain(at, y)
    BY <1>4 DEF Forest, Dirs
  <2>2. ChainFacts(at, y) /\ ChainFacts(to, y)
    BY <2>1, ChainIs
  <2>3. CASE n \in Chain(to, y)
    BY <1>3, <2>1, <2>3, ChainOfChain
  <2>4. CASE n \notin Chain(to, y)
    <3>1. Closed(at, Chain(at, y) \cap Chain(to, y))
      BY <1>1, <2>1, <2>2, <2>4 DEF ChainFacts, Closed
    <3>2. Chain(at, y) \subseteq Chain(at, y) \cap Chain(to, y)
      <4> DEFINE T == Chain(at, y) \cap Chain(to, y)
      <4>1. y \in T /\ Closed(at, T)
        BY <2>2, <3>1 DEF ChainFacts
      <4> HIDE DEF T
      <4>2. Chain(at, y) \subseteq T
        BY <2>2, <4>1 DEF ChainFacts
      <4> QED
        BY <4>2 DEF T
    <3> QED
      BY <2>1, <3>2
  <2> QED
    BY <2>3, <2>4
<1> QED
  BY <1>3, <1>4 DEF Forest

LEMMA DropEmpty ==
  ASSUME NEW at \in PlacesOf, Forest(at), NEW to \in PlacesOf, NEW n \in Nodes,
         \A k \in Nodes : at[k] # None => at[k].parent # n,
         to[n] = None, \A m \in Nodes \ {n} : to[m] = at[m]
  PROVE  /\ Forest(to)
         /\ \A y \in Dirs \ {n} : Chain(to, y) = Chain(at, y)
<1>1. ASSUME NEW y \in Dirs \ {n} PROVE Chain(to, y) = Chain(at, y)
  <2>1. ASSUME NEW m \in Chain(at, y) \ {Root} PROVE to[m] = at[m]
    <3>1. m \in Nodes
      BY ChainIs, NotRoot DEF ChainFacts
    <3>2. m # n
      BY AboveHasChild
    <3> QED
      BY <3>1, <3>2
  <2> QED
    BY <2>1, SameAbove
<1> QED
  BY <1>1 DEF Forest, Dirs

-----------------------------------------------------------------------------
(* Lists that have each element of a set, and once. *)

Below(R, S, x) == { y \in S : <<y, x>> \in R }
Rank(R, S, x) == Cardinality(Below(R, S, x))

StrictOrder(R, S) ==
  /\ \A x \in S : <<x, x>> \notin R
  /\ \A x, y, z \in S : <<x, y>> \in R /\ <<y, z>> \in R => <<x, z>> \in R
  /\ \A x, y \in S : x # y => <<x, y>> \in R \/ <<y, x>> \in R

RankFacts(R, S) ==
  /\ \A x \in S : Rank(R, S, x) \in 0..(Cardinality(S) - 1)
  /\ \A x, y \in S : <<x, y>> \in R => Rank(R, S, x) < Rank(R, S, y)
  /\ \A x, y \in S : Rank(R, S, x) = Rank(R, S, y) => x = y
  /\ \A k \in 1..Cardinality(S) : \E x \in S : Rank(R, S, x) = k - 1

LEMMA Ranks ==
  ASSUME NEW S, IsFiniteSet(S), NEW R, StrictOrder(R, S)
  PROVE  RankFacts(R, S)
<1>0. Cardinality(S) \in Nat
  BY FS_CardinalityType
<1>1. ASSUME NEW x \in S
      PROVE  Rank(R, S, x) \in Nat /\ Rank(R, S, x) < Cardinality(S)
  <2>1. Below(R, S, x) \subseteq S /\ Below(R, S, x) # S
    BY DEF Below, StrictOrder
  <2> QED
    BY <2>1, Grows DEF Rank
<1>2. ASSUME NEW x \in S, NEW y \in S, <<x, y>> \in R
      PROVE  Rank(R, S, x) < Rank(R, S, y)
  <2>1. Below(R, S, x) \subseteq Below(R, S, y) /\ Below(R, S, x) # Below(R, S, y)
    BY <1>2 DEF Below, StrictOrder
  <2>2. IsFiniteSet(Below(R, S, y))
    BY FS_Subset DEF Below
  <2> QED
    BY <2>1, <2>2, Grows DEF Rank
<1>3. ASSUME NEW x \in S, NEW y \in S, Rank(R, S, x) = Rank(R, S, y)
      PROVE  x = y
  <2>1. Rank(R, S, x) \in Nat /\ Rank(R, S, y) \in Nat
    BY <1>1
  <2>2. <<x, y>> \notin R /\ <<y, x>> \notin R
    BY <1>2, <1>3, <2>1
  <2> QED
    BY <2>2 DEF StrictOrder
<1>4. ASSUME NEW x \in S PROVE Rank(R, S, x) \in 0..(Cardinality(S) - 1)
  BY <1>0, <1>1
<1>5. ASSUME NEW k \in 1..Cardinality(S) PROVE \E x \in S : Rank(R, S, x) = k - 1
  <2> DEFINE f == [x \in S |-> Rank(R, S, x)]
             T == 0..(Cardinality(S) - 1)
  <2>1. f \in Injection(S, T)
    BY <1>3, <1>4 DEF Injection, IsInjective
  <2>2. IsFiniteSet(T) /\ Cardinality(T) = Cardinality(S)
    <3>1. 0 \in Int /\ Cardinality(S) - 1 \in Int
      BY <1>0
    <3>2. IsFiniteSet(T) /\ Cardinality(T) = IF 0 > Cardinality(S) - 1 THEN 0 ELSE (Cardinality(S) - 1) - 0 + 1
      BY <3>1, FS_Interval
    <3> QED
      BY <1>0, <3>2
  <2>3. f \in Surjection(S, T)
    <3> HIDE DEF f, T
    <3> QED
      BY <2>1, <2>2, FS_Injection
  <2>4. k - 1 \in T
    BY <1>0
  <2>5. \E x \in S : f[x] = k - 1
    BY <2>3, <2>4 DEF Surjection
  <2> QED
    BY <2>5
<1> QED
  BY <1>2, <1>3, <1>4, <1>5 DEF RankFacts

\* The list s has each element of S, and once.
Lists(s, S) ==
  /\ s \in Seq(S)
  /\ \A x \in S : \E i \in 1..Len(s) : s[i] = x
  /\ \A i, j \in 1..Len(s) : s[i] = s[j] => i = j

\* Of two elements of s the earlier comes before the later in R.
Sorted(s, R) == \A i, j \in 1..Len(s) : i < j => <<s[i], s[j]>> \in R

LEMMA RankedList ==
  ASSUME NEW S, IsFiniteSet(S), NEW R, StrictOrder(R, S),
         NEW s \in [1..Cardinality(S) -> S],
         \A k \in 1..Cardinality(S) : Rank(R, S, s[k]) = k - 1
  PROVE  Lists(s, S) /\ Len(s) = Cardinality(S) /\ Sorted(s, R)
<1> DEFINE n == Cardinality(S)
<1>0. n \in Nat
  BY FS_CardinalityType
<1>1. RankFacts(R, S)
  BY Ranks
<1>2. \A k \in 1..n : s[k] \in S /\ Rank(R, S, s[k]) = k - 1
  OBVIOUS
<1>3. s \in [1..n -> S]
  OBVIOUS
<1> HIDE DEF n
<1>4. s \in Seq(S) /\ Len(s) = n
  BY <1>0, <1>2, <1>3
<1>5. \A i, j \in 1..Len(s) : s[i] = s[j] => i = j
  <2> SUFFICES ASSUME NEW i \in 1..n, NEW j \in 1..n, s[i] = s[j] PROVE i = j
    BY <1>4
  <2>1. i - 1 = j - 1
    BY <1>2
  <2> QED
    BY <1>0, <2>1
<1>6. \A x \in S : \E i \in 1..Len(s) : s[i] = x
  <2> SUFFICES ASSUME NEW x \in S PROVE \E i \in 1..n : s[i] = x
    BY <1>4
  <2> DEFINE i == Rank(R, S, x) + 1
  <2>1. Rank(R, S, x) \in 0..(n - 1)
    BY <1>1 DEF RankFacts, n
  <2>2. i \in 1..n /\ i - 1 = Rank(R, S, x)
    BY <1>0, <2>1
  <2>3. s[i] \in S /\ Rank(R, S, s[i]) = Rank(R, S, x)
    BY <1>2, <2>2
  <2>4. s[i] = x
    BY <1>1, <2>3 DEF RankFacts
  <2> QED
    BY <2>2, <2>4
<1>7. Sorted(s, R)
  <2> SUFFICES ASSUME NEW i \in 1..n, NEW j \in 1..n, i < j PROVE <<s[i], s[j]>> \in R
    BY <1>4 DEF Sorted
  <2>1. Rank(R, S, s[i]) = i - 1 /\ Rank(R, S, s[j]) = j - 1 /\ s[i] \in S /\ s[j] \in S
    BY <1>2
  <2>2. s[i] # s[j] /\ ~(Rank(R, S, s[j]) < Rank(R, S, s[i]))
    BY <1>0, <2>1
  <2> QED
    BY <1>1, <2>1, <2>2 DEF StrictOrder, RankFacts
<1> QED
  BY <1>4, <1>5, <1>6, <1>7 DEF Lists, n

LEMMA NumbersInOrder ==
  ASSUME NEW S \in SUBSET Nat, IsFiniteSet(S)
  PROVE  /\ Lists(InOrder(S, <), S) /\ Len(InOrder(S, <)) = Cardinality(S)
         /\ Sorted(InOrder(S, <), LessThan)
<1>1. StrictOrder(LessThan, S)
  BY DEF StrictOrder, LessThan
<1>2. ASSUME NEW x \in S PROVE Cardinality({ y \in S : y < x }) = Rank(LessThan, S, x)
  <2>1. { y \in S : y < x } = Below(LessThan, S, x)
    BY DEF Below, LessThan
  <2> QED
    BY <2>1 DEF Rank
<1> DEFINE n == Cardinality(S)
           s == InOrder(S, <)
<1>3. RankFacts(LessThan, S)
  BY <1>1, Ranks
<1>4. ASSUME NEW k \in 1..n PROVE s[k] \in S /\ Rank(LessThan, S, s[k]) = k - 1
  <2>1. PICK x \in S : Rank(LessThan, S, x) = k - 1
    BY <1>3 DEF RankFacts
  <2>2. \E z \in S : Cardinality({ y \in S : y < z }) = k - 1
    BY <1>2, <2>1
  <2>3. s[k] = CHOOSE z \in S : Cardinality({ y \in S : y < z }) = k - 1
    BY DEF InOrder
  <2>4. s[k] \in S /\ Cardinality({ y \in S : y < s[k] }) = k - 1
    BY <2>2, <2>3
  <2> QED
    BY <1>2, <2>4
<1>5. s \in [1..n -> S]
  BY <1>4 DEF InOrder
<1> HIDE DEF s
<1>6. Lists(s, S) /\ Len(s) = n /\ Sorted(s, LessThan)
  BY <1>1, <1>4, <1>5, RankedList
<1> QED
  BY <1>6 DEF s

\* The numbers from 1 to n in order are themselves.
LEMMA IntervalInOrder ==
  ASSUME NEW n \in Nat
  PROVE  InOrder(1..n, <) = [k \in 1..n |-> k]
<1>1. IsFiniteSet(1..n) /\ Cardinality(1..n) = n
  <2>1. IsFiniteSet(1..n) /\ Cardinality(1..n) = IF 1 > n THEN 0 ELSE n - 1 + 1
    BY FS_Interval
  <2> QED
    BY <2>1
<1>2. StrictOrder(LessThan, 1..n)
  BY DEF StrictOrder, LessThan
<1>3. RankFacts(LessThan, 1..n)
  BY <1>1, <1>2, Ranks
<1>4. ASSUME NEW k \in 1..n PROVE Rank(LessThan, 1..n, k) = k - 1
  <2>1. Below(LessThan, 1..n, k) = 1..(k - 1)
    BY DEF Below, LessThan
  <2>2. Cardinality(1..(k - 1)) = IF 1 > k - 1 THEN 0 ELSE (k - 1) - 1 + 1
    <3>1. 1 \in Int /\ k - 1 \in Int
      OBVIOUS
    <3> QED
      BY <3>1, FS_Interval
  <2> QED
    BY <2>1, <2>2 DEF Rank
<1>5. ASSUME NEW x \in 1..n PROVE Cardinality({ y \in 1..n : y < x }) = x - 1
  <2>1. { y \in 1..n : y < x } = Below(LessThan, 1..n, x)
    BY DEF Below, LessThan
  <2> QED
    BY <1>4, <2>1 DEF Rank
<1>6. ASSUME NEW k \in 1..n
      PROVE  (CHOOSE x \in 1..n : Cardinality({ y \in 1..n : y < x }) = k - 1) = k
  <2>1. \A x \in 1..n : Cardinality({ y \in 1..n : y < x }) = k - 1 <=> x = k
    <3> SUFFICES ASSUME NEW x \in 1..n PROVE Cardinality({ y \in 1..n : y < x }) = k - 1 <=> x = k
      OBVIOUS
    <3>1. Cardinality({ y \in 1..n : y < x }) = x - 1
      BY <1>5
    <3> QED
      BY <3>1
  <2> DEFINE P(x) == Cardinality({ y \in 1..n : y < x }) = k - 1
  <2>2. P(k) /\ \A x \in 1..n : P(x) => x = k
    BY <2>1
  <2> HIDE DEF P
  <2>3. (CHOOSE x \in 1..n : P(x)) = k
    BY <2>2
  <2> QED
    BY <2>3 DEF P
<1> QED
  BY <1>1, <1>6 DEF InOrder

LEMMA ListsLen ==
  ASSUME NEW S, NEW s, Lists(s, S)
  PROVE  IsFiniteSet(S) /\ Cardinality(S) = Len(s) /\ Len(s) \in Nat
<1>1. Len(s) \in Nat /\ s \in [1..Len(s) -> S]
  BY DEF Lists
<1>2. s \in Bijection(1..Len(s), S)
  <2>1. s \in Injection(1..Len(s), S)
    BY <1>1 DEF Lists, Injection, IsInjective
  <2>2. s \in Surjection(1..Len(s), S)
    BY <1>1 DEF Lists, Surjection
  <2> QED
    BY <2>1, <2>2 DEF Bijection
<1>3. IsFiniteSet(1..Len(s)) /\ Cardinality(1..Len(s)) = Len(s)
  <2>1. IsFiniteSet(1..Len(s)) /\ Cardinality(1..Len(s)) = IF 1 > Len(s) THEN 0 ELSE Len(s) - 1 + 1
    BY <1>1, FS_Interval
  <2> QED
    BY <1>1, <2>1
<1>4. ExistsBijection(1..Len(s), S)
  BY <1>2 DEF ExistsBijection
<1>5. IsFiniteSet(S) /\ Cardinality(S) = Cardinality(1..Len(s))
  BY <1>3, <1>4, FS_Bijection
<1> QED
  BY <1>1, <1>3, <1>5

LEMMA ListsRange ==
  ASSUME NEW S, NEW s, Lists(s, S)
  PROVE  ToSet(s) = S
<1>1. s \in [1..Len(s) -> S] /\ DOMAIN s = 1..Len(s)
  BY DEF Lists
<1>2. ASSUME NEW x PROVE x \in ToSet(s) <=> x \in S
  <2>1. x \in ToSet(s) <=> \E i \in 1..Len(s) : x = s[i]
    BY <1>1 DEF ToSet
  <2>2. \A i \in 1..Len(s) : s[i] \in S
    BY <1>1
  <2>3. x \in S => \E i \in 1..Len(s) : s[i] = x
    BY DEF Lists
  <2> QED
    BY <2>1, <2>2, <2>3
<1> QED
  BY <1>2

LEMMA ListsConcat ==
  ASSUME NEW S, NEW s, Lists(s, S), NEW T, NEW t, Lists(t, T), S \cap T = {}
  PROVE  Lists(s \o t, S \cup T)
<1> DEFINE u == s \o t
<1>1. s \in Seq(S \cup T) /\ t \in Seq(S \cup T) /\ Len(s) \in Nat /\ Len(t) \in Nat
  BY DEF Lists
<1>2. u \in Seq(S \cup T) /\ Len(u) = Len(s) + Len(t)
  BY <1>1
<1>3. \A i \in 1..Len(s) : u[i] = s[i] /\ u[i] \in S
  BY <1>1 DEF Lists
<1>4. \A i \in 1..Len(t) : u[i + Len(s)] = t[i] /\ t[i] \in T
  BY <1>1 DEF Lists
<1>5. \A i \in 1..Len(u) : i \in 1..Len(s) \/ (i - Len(s) \in 1..Len(t) /\ u[i] = t[i - Len(s)])
  BY <1>1, <1>2
<1> HIDE DEF u
<1>6. ASSUME NEW i \in 1..Len(u), NEW j \in 1..Len(u), u[i] = u[j] PROVE i = j
  <2>1. CASE i \in 1..Len(s) /\ j \in 1..Len(s)
    BY <1>3, <1>6, <2>1 DEF Lists
  <2>2. CASE i \in 1..Len(s) /\ j \notin 1..Len(s)
    BY <1>3, <1>4, <1>5, <1>6, <2>2
  <2>3. CASE i \notin 1..Len(s) /\ j \in 1..Len(s)
    BY <1>3, <1>4, <1>5, <1>6, <2>3
  <2>4. CASE i \notin 1..Len(s) /\ j \notin 1..Len(s)
    <3>1. i - Len(s) \in 1..Len(t) /\ j - Len(s) \in 1..Len(t) /\ t[i - Len(s)] = t[j - Len(s)]
      BY <1>5, <1>6, <2>4
    <3>2. i - Len(s) = j - Len(s)
      BY <3>1 DEF Lists
    <3> QED
      BY <1>1, <1>2, <3>2
  <2> QED
    BY <2>1, <2>2, <2>3, <2>4
<1>7. ASSUME NEW x \in S \cup T PROVE \E i \in 1..Len(u) : u[i] = x
  <2>1. CASE x \in S
    <3>1. PICK i \in 1..Len(s) : s[i] = x
      BY <2>1 DEF Lists
    <3>2. i \in 1..Len(u) /\ u[i] = x
      BY <1>1, <1>2, <1>3, <3>1
    <3> QED
      BY <3>2
  <2>2. CASE x \in T
    <3>1. PICK i \in 1..Len(t) : t[i] = x
      BY <2>2 DEF Lists
    <3>2. i + Len(s) \in 1..Len(u) /\ u[i + Len(s)] = x
      BY <1>1, <1>2, <1>4, <3>1
    <3> QED
      BY <3>2
  <2> QED
    BY <2>1, <2>2
<1>8. Lists(u, S \cup T)
  BY <1>2, <1>6, <1>7 DEF Lists
<1> QED
  BY <1>8 DEF u

LEMMA ListsOne ==
  ASSUME NEW x
  PROVE  Lists(<<x>>, {x})
  BY DEF Lists

LEMMA ListsAppend ==
  ASSUME NEW S, NEW s, Lists(s, S), NEW x, x \notin S
  PROVE  Lists(Append(s, x), S \cup {x})
<1>1. s \in Seq(S \cup {x})
  BY DEF Lists
<1>2. Append(s, x) = s \o <<x>>
  BY <1>1
<1>3. Lists(s \o <<x>>, S \cup {x})
  BY ListsOne, ListsConcat
<1> QED
  BY <1>2, <1>3

\* r is what f, which is one to one, makes of the list q.
Through(I, q, V, f, r) ==
  /\ Lists(q, I)
  /\ f \in [I -> V]
  /\ \A i, j \in I : f[i] = f[j] => i = j
  /\ \A v \in V : \E i \in I : f[i] = v
  /\ r \in [1..Len(q) -> V]
  /\ \A k \in 1..Len(q) : r[k] = f[q[k]]

LEMMA ListsThrough ==
  ASSUME NEW I, NEW q, NEW V, NEW f, NEW r, Through(I, q, V, f, r)
  PROVE  Lists(r, V) /\ Len(r) = Len(q)
<1> USE DEF Through
<1>1. Len(q) \in Nat /\ \A k \in 1..Len(q) : q[k] \in I
  BY DEF Lists
<1>2. r \in Seq(V) /\ Len(r) = Len(q)
  BY <1>1
<1>3. ASSUME NEW v \in V PROVE \E k \in 1..Len(r) : r[k] = v
  <2>1. PICK i \in I : f[i] = v
    OBVIOUS
  <2>2. PICK k \in 1..Len(q) : q[k] = i
    BY DEF Lists
  <2> QED
    BY <1>2, <2>1, <2>2
<1>4. ASSUME NEW i \in 1..Len(r), NEW j \in 1..Len(r), r[i] = r[j] PROVE i = j
  <2>1. i \in 1..Len(q) /\ j \in 1..Len(q) /\ q[i] \in I /\ q[j] \in I /\ f[q[i]] = f[q[j]]
    BY <1>1, <1>2, <1>4
  <2>2. q[i] = q[j]
    BY <2>1
  <2> QED
    BY <2>1, <2>2 DEF Lists
<1> QED
  BY <1>2, <1>3, <1>4 DEF Lists

LEMMA ListsWithout ==
  ASSUME NEW T, NEW s, Lists(s, T), NEW x
  PROVE  Lists(Without(s, x), T \ {x})
<1> DEFINE left == {i \in DOMAIN s : s[i] # x}
           q == InOrder(left, <)
           f == [i \in left |-> s[i]]
           r == [k \in 1..Cardinality(left) |-> s[q[k]]]
<1>1. s \in Seq(T) /\ Len(s) \in Nat /\ DOMAIN s = 1..Len(s)
  BY DEF Lists
<1>2. left \in SUBSET Nat /\ IsFiniteSet(left)
  <2>1. left \in SUBSET (1..Len(s))
    BY <1>1
  <2>2. IsFiniteSet(1..Len(s))
    BY <1>1, FS_Interval
  <2>3. left \in SUBSET Nat
    BY <1>1
  <2> HIDE DEF left
  <2>4. IsFiniteSet(left)
    BY <2>1, <2>2, FS_Subset
  <2> QED
    BY <2>3, <2>4
<1>3. Lists(q, left) /\ Len(q) = Cardinality(left)
  <2> HIDE DEF left
  <2> QED
    BY <1>2, NumbersInOrder
<1>4. f \in [left -> T \ {x}]
  BY <1>1 DEF Lists
<1>5. \A i, j \in left : f[i] = f[j] => i = j
  BY <1>1 DEF Lists
<1>6. \A v \in T \ {x} : \E i \in left : f[i] = v
  BY <1>1 DEF Lists
<1>7. \A k \in 1..Len(q) : q[k] \in left
  <2> HIDE DEF left, q
  <2> QED
    BY <1>3 DEF Lists
<1>8. r \in [1..Len(q) -> T \ {x}] /\ \A k \in 1..Len(q) : r[k] = f[q[k]]
  <2>1. \A k \in 1..Len(q) : s[q[k]] = f[q[k]] /\ f[q[k]] \in T \ {x}
    BY <1>4, <1>7
  <2> HIDE DEF f, q, left
  <2> QED
    BY <1>3, <2>1
<1>9. Without(s, x) = r
  BY DEF Without
<1> HIDE DEF left, q, f, r
<1> QED
  BY <1>3, <1>4, <1>5, <1>6, <1>8, <1>9, ListsThrough DEF Through

LEMMA ListsPart ==
  ASSUME NEW T, NEW s, Lists(s, T), NEW a \in Int, NEW b \in Int, 1 <= a, b <= Len(s)
  PROVE  Lists(SubSeq(s, a, b), {s[j] : j \in a..b})
<1>1. s \in Seq(T) /\ Len(s) \in Nat
  BY DEF Lists
<1> DEFINE u == SubSeq(s, a, b)
           B == {s[j] : j \in a..b}
<1>2. \A j \in a..b : s[j] \in B
  OBVIOUS
<1>3. /\ u \in Seq(B)
      /\ Len(u) = IF a <= b THEN b - a + 1 ELSE 0
      /\ \A i \in 1..(b - a + 1) : u[i] = s[a + i - 1]
  <2> HIDE DEF B
  <2> QED
    BY <1>2, SubSeqProperties
<1> HIDE DEF u
<1>4. ASSUME NEW x \in B PROVE \E i \in 1..Len(u) : u[i] = x
  <2>1. PICK j \in a..b : s[j] = x
    OBVIOUS
  <2>2. j - a + 1 \in 1..(b - a + 1) /\ j - a + 1 \in 1..Len(u) /\ a + (j - a + 1) - 1 = j
    BY <1>3
  <2> QED
    BY <1>3, <2>1, <2>2
<1>5. ASSUME NEW i \in 1..Len(u), NEW j \in 1..Len(u), u[i] = u[j] PROVE i = j
  <2>1. i \in 1..(b - a + 1) /\ j \in 1..(b - a + 1)
    BY <1>3
  <2>2. s[a + i - 1] = s[a + j - 1] /\ a + i - 1 \in 1..Len(s) /\ a + j - 1 \in 1..Len(s)
    <3>1. Len(s) \in Nat
      BY <1>1
    <3>2. a + i - 1 \in 1..Len(s) /\ a + j - 1 \in 1..Len(s)
      BY <2>1, <3>1
    <3>3. u[i] = s[a + i - 1] /\ u[j] = s[a + j - 1]
      BY <1>3, <2>1
    <3> QED
      BY <1>5, <3>2, <3>3
  <2>3. a + i - 1 = a + j - 1
    BY <2>2 DEF Lists
  <2> QED
    BY <2>1, <2>3
<1>6. Lists(u, B)
  BY <1>3, <1>4, <1>5 DEF Lists
<1> QED
  BY <1>6 DEF u

LEMMA ListsInsert ==
  ASSUME NEW T, NEW s, Lists(s, T), NEW x, x \notin T, NEW i \in 1..Len(s)
  PROVE  Lists(InsertAt(s, i, x), T \cup {x})
<1>1. s \in Seq(T) /\ Len(s) \in Nat
  BY DEF Lists
<1> DEFINE A == {s[j] : j \in 1..(i - 1)}
           B == {s[j] : j \in i..Len(s)}
           a == SubSeq(s, 1, i - 1)
           b == SubSeq(s, i, Len(s))
<1>2. Lists(a, A)
  BY <1>1, ListsPart
<1>3. Lists(b, B)
  BY <1>1, ListsPart
<1>4. A \cup B = T
  <2>1. ASSUME NEW y \in T PROVE y \in A \cup B
    <3>1. PICK j \in 1..Len(s) : s[j] = y
      BY DEF Lists
    <3>2. j \in 1..(i - 1) \/ j \in i..Len(s)
      BY <1>1
    <3> QED
      BY <3>1, <3>2
  <2>2. A \subseteq T /\ B \subseteq T
    BY <1>1
  <2> QED
    BY <2>1, <2>2
<1>5. A \cap B = {}
  <2> SUFFICES ASSUME NEW j \in 1..(i - 1), NEW k \in i..Len(s), s[j] = s[k] PROVE FALSE
    OBVIOUS
  <2>1. j \in 1..Len(s) /\ k \in 1..Len(s) /\ j # k
    BY <1>1
  <2> QED
    BY <2>1 DEF Lists
<1> HIDE DEF A, B, a, b
<1>6. Lists(a \o <<x>>, A \cup {x})
  BY <1>2, <1>4, ListsOne, ListsConcat
<1>7. Lists((a \o <<x>>) \o b, (A \cup {x}) \cup B)
  BY <1>3, <1>4, <1>5, <1>6, ListsConcat
<1>8. (A \cup {x}) \cup B = T \cup {x}
  BY <1>4
<1>9. InsertAt(s, i, x) = (a \o <<x>>) \o b
  BY DEF InsertAt, a, b
<1> QED
  BY <1>7, <1>8, <1>9

LEMMA ListsInsertSlug ==
  ASSUME NEW T, NEW s, Lists(s, T), NEW x, x \notin T, NEW d, NEW n, NEW before
  PROVE  Lists(InsertSlug(s, d, n, x, before), T \cup {x})
<1>1. s \in Seq(T) /\ Len(s) \in Nat
  BY DEF Lists
<1>2. CASE before # None /\ Contains(s, place[before].slug)
  <2> DEFINE I == {i \in 1..Len(s) : s[i] = place[before].slug}
  <2>1. I # {} /\ I \in SUBSET Nat
    BY <1>1, <1>2 DEF Contains
  <2>2. Min(I) \in I
    <3> HIDE DEF I
    <3> QED
      BY <2>1, LeastNumber DEF Min
  <2>3. SelectInSeq(s, LAMBDA y : y = place[before].slug) = Min(I)
    BY <2>1 DEF SelectInSeq
  <2>4. Min(I) \in 1..Len(s)
    BY <2>2
  <2>5. InsertSlug(s, d, n, x, before) = InsertAt(s, Min(I), x)
    <3> HIDE DEF I
    <3> QED
      BY <1>2, <2>3 DEF InsertSlug
  <2> HIDE DEF I
  <2> QED
    BY <2>4, <2>5, ListsInsert
<1>3. CASE ~(before # None /\ Contains(s, place[before].slug))
  <2>1. InsertSlug(s, d, n, x, before) = Append(s, x)
    BY <1>3 DEF InsertSlug
  <2> QED
    BY <2>1, ListsAppend
<1> QED
  BY <1>2, <1>3

-----------------------------------------------------------------------------
(* Reading a folder. *)

Apart(at) == \A m, n \in Nodes : at[m] # None /\ at[m] = at[n] => m = n

Typed ==
  /\ place \in PlacesOf
  /\ mark \in [Nodes -> Marks]
  /\ name \in [Nodes -> Names \cup {None}]
  /\ order \in [Dirs -> Seq(Slugs)]
  /\ \A n \in Nodes : mark[n] # "none" <=> name[n] # None

Readable == Typed /\ Apart(place)

SlugsAt(d) == {place[m].slug : m \in Children(d)}

LEMMA ChildFacts ==
  ASSUME Readable, NEW d \in Dirs
  PROVE  /\ Children(d) \in SUBSET Nodes
         /\ IsFiniteSet(Children(d))
         /\ \A m \in Children(d) : /\ place[m] = [parent |-> d, slug |-> place[m].slug]
                                   /\ place[m].slug \in Slugs
                                   /\ name[m] \in Names
         /\ \A m, n \in Children(d) : place[m].slug = place[n].slug => m = n
<1>1. Children(d) \in SUBSET Nodes
  BY DEF Children
<1>2. IsFiniteSet(Children(d))
  BY <1>1, NodesAssumption, FS_Subset
<1>3. ASSUME NEW m \in Children(d)
      PROVE  /\ m \in Nodes /\ place[m] # None /\ place[m] = [parent |-> d, slug |-> place[m].slug]
             /\ place[m].slug \in Slugs /\ name[m] \in Names
  <2>1. m \in Nodes /\ place[m] # None /\ place[m].parent = d /\ name[m] # None
    BY DEF Children, Readable, Typed
  <2>2. place[m] \in Places
    BY <2>1 DEF Readable, Typed, PlacesOf
  <2>3. name[m] \in Names
    BY <2>1 DEF Readable, Typed
  <2> QED
    BY <2>1, <2>2, <2>3 DEF Places
<1>4. ASSUME NEW m \in Children(d), NEW n \in Children(d), place[m].slug = place[n].slug PROVE m = n
  <2>1. place[m] = place[n]
    BY <1>3, <1>4
  <2> QED
    BY <1>3, <2>1 DEF Readable, Apart
<1> QED
  BY <1>1, <1>2, <1>3, <1>4

LEMMA SlugPairs ==
  ASSUME NEW a \in Slugs
  PROVE  a[1] \in Nat /\ a[2] \in Nat /\ a = <<a[1], a[2]>>
<1>1. {BaseOf[t] : t \in Names} \subseteq Nat
  BY NamesAssumption
<1> QED
  BY <1>1, NodesNumber DEF Slugs, N

ByNameIn(S) == {p \in S \X S : ByName(p[1], p[2])}

LEMMA NamesOrder ==
  ASSUME Readable, NEW d \in Dirs, NEW S \in SUBSET Children(d)
  PROVE  StrictOrder(ByNameIn(S), S)
<1>1. ASSUME NEW x \in S PROVE name[x] \in Nat /\ place[x].slug \in Slugs
  BY ChildFacts, NamesAssumption
<1>2. ASSUME NEW x \in S, NEW y \in S
      PROVE  <<x, y>> \in ByNameIn(S) <=>
               \/ name[x] < name[y]
               \/ /\ name[x] = name[y]
                  /\ \/ place[x].slug[1] < place[y].slug[1]
                     \/ place[x].slug[1] = place[y].slug[1] /\ place[x].slug[2] < place[y].slug[2]
  BY DEF ByNameIn, ByName, SlugLess
<1>3. ASSUME NEW x \in S PROVE <<x, x>> \notin ByNameIn(S)
  <2>1. name[x] \in Nat /\ place[x].slug[1] \in Nat /\ place[x].slug[2] \in Nat
    BY <1>1, SlugPairs
  <2> QED
    BY <1>2, <2>1
<1>4. ASSUME NEW x \in S, NEW y \in S, NEW z \in S, <<x, y>> \in ByNameIn(S), <<y, z>> \in ByNameIn(S)
      PROVE  <<x, z>> \in ByNameIn(S)
  <2>1. name[x] \in Nat /\ place[x].slug[1] \in Nat /\ place[x].slug[2] \in Nat
    BY <1>1, SlugPairs
  <2>2. name[y] \in Nat /\ place[y].slug[1] \in Nat /\ place[y].slug[2] \in Nat
    BY <1>1, SlugPairs
  <2>3. name[z] \in Nat /\ place[z].slug[1] \in Nat /\ place[z].slug[2] \in Nat
    BY <1>1, SlugPairs
  <2> QED
    BY <1>2, <1>4, <2>1, <2>2, <2>3
<1>5. ASSUME NEW x \in S, NEW y \in S, x # y
      PROVE  <<x, y>> \in ByNameIn(S) \/ <<y, x>> \in ByNameIn(S)
  <2>1. name[x] \in Nat /\ place[x].slug[1] \in Nat /\ place[x].slug[2] \in Nat
    BY <1>1, SlugPairs
  <2>2. name[y] \in Nat /\ place[y].slug[1] \in Nat /\ place[y].slug[2] \in Nat
    BY <1>1, SlugPairs
  <2>3. place[x].slug # place[y].slug
    BY <1>5, ChildFacts
  <2>4. place[x].slug[1] # place[y].slug[1] \/ place[x].slug[2] # place[y].slug[2]
    BY <1>1, <2>3, SlugPairs
  <2> QED
    BY <1>2, <2>1, <2>2, <2>4
<1> QED
  BY <1>3, <1>4, <1>5 DEF StrictOrder

LEMMA NamesInOrder ==
  ASSUME Readable, NEW d \in Dirs, NEW S \in SUBSET Children(d)
  PROVE  Lists(InOrder(S, ByName), S) /\ Sorted(InOrder(S, ByName), ByNameIn(S))
<1>0. IsFiniteSet(S)
  BY ChildFacts, FS_Subset
<1> DEFINE R == ByNameIn(S)
           n == Cardinality(S)
           s == InOrder(S, ByName)
<1>1. StrictOrder(R, S)
  BY NamesOrder
<1>2. ASSUME NEW x \in S PROVE Cardinality({ y \in S : ByName(y, x) }) = Rank(R, S, x)
  <2>1. { y \in S : ByName(y, x) } = Below(R, S, x)
    BY DEF Below, ByNameIn
  <2> QED
    BY <2>1 DEF Rank
<1>3. RankFacts(R, S)
  BY <1>0, <1>1, Ranks
<1>4. ASSUME NEW k \in 1..n PROVE s[k] \in S /\ Rank(R, S, s[k]) = k - 1
  <2>1. PICK x \in S : Rank(R, S, x) = k - 1
    BY <1>3 DEF RankFacts
  <2>2. \E z \in S : Cardinality({ y \in S : ByName(y, z) }) = k - 1
    BY <1>2, <2>1
  <2>3. s[k] = CHOOSE z \in S : Cardinality({ y \in S : ByName(y, z) }) = k - 1
    BY DEF InOrder
  <2>4. s[k] \in S /\ Cardinality({ y \in S : ByName(y, s[k]) }) = k - 1
    BY <2>2, <2>3
  <2> QED
    BY <1>2, <2>4
<1>5. s \in [1..n -> S]
  BY <1>4 DEF InOrder
<1> HIDE DEF s, R
<1>6. Lists(s, S) /\ Sorted(s, R)
  BY <1>0, <1>1, <1>4, <1>5, RankedList
<1> QED
  BY <1>6 DEF s, R

\* The listed children, by where a list has them first, and the others.
At(d, slug) == {n \in Children(d) : place[n].slug = slug}
First(d) == {i \in DOMAIN order[d] : /\ At(d, order[d][i]) # {}
                                     /\ \A j \in 1..i-1 : order[d][j] # order[d][i]}
Listed(d) == [i \in DOMAIN InOrder(First(d), <) |->
                CHOOSE n \in At(d, order[d][InOrder(First(d), <)[i]]) : TRUE]
Rest(d) == {n \in Children(d) : ~ Contains(order[d], place[n].slug)}

LEMMA OrderedParts ==
  ASSUME NEW d
  PROVE  Ordered(d) = Listed(d) \o InOrder(Rest(d), ByName)
  BY DEF Ordered, Listed, First, At, Rest

LEMMA FirstPlaces ==
  ASSUME Readable, NEW d \in Dirs, NEW n \in Children(d), Contains(order[d], place[n].slug)
  PROVE  \E i \in First(d) : order[d][i] = place[n].slug
<1>1. order[d] \in Seq(Slugs)
  BY DEF Readable, Typed
<1> DEFINE I == {i \in 1..Len(order[d]) : order[d][i] = place[n].slug}
<1>2. I # {} /\ I \in SUBSET Nat
  BY <1>1 DEF Contains
<1>3. PICK i \in I : \A j \in I : i <= j
  <2> HIDE DEF I
  <2> QED
    BY <1>2, LeastNumber
<1>4. ASSUME NEW j \in 1..i-1 PROVE order[d][j] # order[d][i]
  <2>1. j \in 1..Len(order[d]) /\ ~(i <= j)
    BY <1>1
  <2> QED
    BY <1>3, <2>1
<1>5. i \in DOMAIN order[d] /\ n \in At(d, order[d][i])
  BY <1>1 DEF At
<1> QED
  BY <1>4, <1>5 DEF First

LEMMA ListedLists ==
  ASSUME Readable, NEW d \in Dirs
  PROVE  Lists(Listed(d), Children(d) \ Rest(d))
<1> DEFINE I == First(d)
           q == InOrder(I, <)
           V == Children(d) \ Rest(d)
           f == [i \in I |-> CHOOSE n \in At(d, order[d][i]) : TRUE]
           r == Listed(d)
<1>1. order[d] \in Seq(Slugs) /\ Len(order[d]) \in Nat /\ DOMAIN order[d] = 1..Len(order[d])
  BY DEF Readable, Typed
<1>2. I \in SUBSET Nat /\ IsFiniteSet(I)
  <2>1. I \in SUBSET (1..Len(order[d])) /\ I \in SUBSET Nat
    BY <1>1 DEF First
  <2>2. IsFiniteSet(1..Len(order[d]))
    <3> DEFINE l == Len(order[d])
    <3>1. 1 \in Int /\ l \in Int
      BY <1>1
    <3> HIDE DEF l
    <3>2. IsFiniteSet(1..l)
      BY <3>1, FS_Interval
    <3> QED
      BY <3>2 DEF l
  <2> HIDE DEF I
  <2>3. IsFiniteSet(I)
    BY <2>1, <2>2, FS_Subset
  <2> QED
    BY <2>1, <2>3
<1>3. Lists(q, I)
  <2> HIDE DEF I
  <2> QED
    BY <1>2, NumbersInOrder
<1>4. ASSUME NEW i \in I
      PROVE  f[i] \in V /\ f[i] \in Children(d) /\ place[f[i]].slug = order[d][i]
  <2>1. f[i] \in At(d, order[d][i])
    BY DEF First
  <2>2. f[i] \in Children(d) /\ place[f[i]].slug = order[d][i]
    <3> HIDE DEF f
    <3> QED
      BY <2>1 DEF At
  <2>3. Contains(order[d], place[f[i]].slug)
    <3> HIDE DEF f
    <3> QED
      BY <1>1, <2>2 DEF First, Contains
  <2> HIDE DEF f
  <2> QED
    BY <2>2, <2>3 DEF Rest
<1>5. f \in [I -> V]
  BY <1>4
<1>6. \A i, j \in I : f[i] = f[j] => i = j
  <2> SUFFICES ASSUME NEW i \in I, NEW j \in I, f[i] = f[j] PROVE i = j
    BY Zenon
  <2>1. order[d][i] = order[d][j]
    BY <1>4
  <2>2. i \in Nat /\ j \in Nat /\ i >= 1 /\ j >= 1
    BY <1>1 DEF First
  <2>3. ~(i \in 1..j-1) /\ ~(j \in 1..i-1)
    BY <2>1 DEF First
  <2> QED
    BY <2>2, <2>3
<1>7. \A v \in V : \E i \in I : f[i] = v
  <2> SUFFICES ASSUME NEW v \in V PROVE \E i \in I : f[i] = v
    BY Zenon
  <2>1. v \in Children(d) /\ Contains(order[d], place[v].slug)
    BY DEF Rest
  <2>2. PICK i \in I : order[d][i] = place[v].slug
    BY <2>1, FirstPlaces
  <2>3. f[i] \in Children(d) /\ place[f[i]].slug = place[v].slug
    BY <1>4, <2>2
  <2>4. f[i] = v
    <3> HIDE DEF f
    <3> QED
      BY <2>1, <2>3, ChildFacts
  <2> QED
    BY <2>2, <2>4
<1>8. DOMAIN q = 1..Len(q) /\ \A k \in 1..Len(q) : q[k] \in I
  <2> HIDE DEF I, q
  <2> QED
    BY <1>3 DEF Lists
<1>9. r \in [1..Len(q) -> V] /\ \A k \in 1..Len(q) : r[k] = f[q[k]]
  <2>1. \A k \in 1..Len(q) : (CHOOSE n \in At(d, order[d][q[k]]) : TRUE) = f[q[k]]
    <3> HIDE DEF I, q
    <3> QED
      BY <1>8
  <2>2. r = [k \in 1..Len(q) |-> CHOOSE n \in At(d, order[d][q[k]]) : TRUE]
    BY <1>8 DEF Listed
  <2>3. \A k \in 1..Len(q) : f[q[k]] \in V
    BY <1>5, <1>8
  <2> HIDE DEF f, q, I, V, r
  <2> QED
    BY <2>1, <2>2, <2>3
<1> HIDE DEF I, q, V, f, r
<1>10. Lists(r, V)
  <2>1. r \in [1..Len(q) -> V]
    BY <1>9
  <2>2. \A k \in 1..Len(q) : r[k] = f[q[k]]
    BY <1>9
  <2>3. Through(I, q, V, f, r)
    BY <1>3, <1>5, <1>6, <1>7, <2>1, <2>2, Zenon DEF Through
  <2> QED
    BY <2>3, ListsThrough
<1> QED
  BY <1>10 DEF r, V

\* What a reader is shown has each item of the folder, and once.
LEMMA OrderedLists ==
  ASSUME Readable, NEW d \in Dirs
  PROVE  Lists(Ordered(d), Children(d))
<1>1. Lists(Listed(d), Children(d) \ Rest(d))
  BY ListedLists
<1>2. Rest(d) \in SUBSET Children(d)
  BY DEF Rest
<1>3. Lists(InOrder(Rest(d), ByName), Rest(d))
  BY <1>2, NamesInOrder
<1>4. Lists(Listed(d) \o InOrder(Rest(d), ByName), (Children(d) \ Rest(d)) \cup Rest(d))
  BY <1>1, <1>3, ListsConcat
<1>5. (Children(d) \ Rest(d)) \cup Rest(d) = Children(d)
  BY <1>2
<1> QED
  BY <1>4, <1>5, OrderedParts

LEMMA ReconciledLists ==
  ASSUME Readable, NEW d \in Dirs
  PROVE  Lists(Reconciled(d), SlugsAt(d))
<1> DEFINE q == Ordered(d)
           I == Children(d)
           V == SlugsAt(d)
           f == [m \in I |-> place[m].slug]
           r == Reconciled(d)
<1>1. Lists(q, I)
  BY OrderedLists
<1>2. f \in [I -> V] /\ \A v \in V : \E m \in I : f[m] = v
  BY DEF SlugsAt
<1>3. \A m, n \in I : f[m] = f[n] => m = n
  BY ChildFacts
<1>4. DOMAIN q = 1..Len(q) /\ \A k \in 1..Len(q) : q[k] \in I
  <2> HIDE DEF q, I
  <2> QED
    BY <1>1 DEF Lists
<1>5. r = [k \in 1..Len(q) |-> place[q[k]].slug]
  BY <1>4 DEF Reconciled
<1>6. r \in [1..Len(q) -> V] /\ \A k \in 1..Len(q) : r[k] = f[q[k]]
  <2>1. \A k \in 1..Len(q) : place[q[k]].slug = f[q[k]] /\ f[q[k]] \in V
    BY <1>2, <1>4
  <2> HIDE DEF r, q, f, V, I
  <2> QED
    BY <1>5, <2>1
<1> HIDE DEF q, I, V, f, r
<1>7. Lists(r, V)
  BY <1>1, <1>2, <1>3, <1>6, ListsThrough DEF Through
<1> QED
  BY <1>7 DEF r, V

\* A list that has just what is there is shown as it is.
LEMMA ShownAsListed ==
  ASSUME Readable, NEW d \in Dirs, Lists(order[d], SlugsAt(d))
  PROVE  Reconciled(d) = order[d]
<1> DEFINE o == order[d]
           n == Len(o)
<1>1. n \in Nat /\ DOMAIN o = 1..n /\ o \in Seq(Slugs)
  BY DEF Readable, Typed
<1>2. Rest(d) = {}
  <2> SUFFICES ASSUME NEW m \in Children(d) PROVE Contains(o, place[m].slug)
    BY DEF Rest
  <2> QED
    BY DEF Lists, SlugsAt, Contains
<1>3. First(d) = 1..n
  <2>1. ASSUME NEW i \in 1..n PROVE i \in First(d)
    <3>1. o[i] \in SlugsAt(d)
      BY DEF Lists
    <3>2. At(d, o[i]) # {}
      BY <3>1 DEF SlugsAt, At
    <3>3. ASSUME NEW j \in 1..i-1 PROVE o[j] # o[i]
      <4>1. j \in 1..n /\ j # i
        BY <1>1
      <4> QED
        BY <4>1 DEF Lists
    <3> QED
      BY <1>1, <3>2, <3>3 DEF First
  <2> QED
    BY <1>1, <2>1 DEF First
<1>4. InOrder(First(d), <) = [k \in 1..n |-> k]
  BY <1>1, <1>3, IntervalInOrder
<1>5. Listed(d) = [k \in 1..n |-> CHOOSE m \in At(d, o[k]) : TRUE]
  <2> DEFINE q == InOrder(First(d), <)
  <2>1. Listed(d) = [i \in DOMAIN q |-> CHOOSE m \in At(d, o[q[i]]) : TRUE]
    BY DEF Listed
  <2>2. DOMAIN q = 1..n /\ \A k \in 1..n : q[k] = k
    BY <1>4
  <2> HIDE DEF q, o, n
  <2> QED
    BY <2>1, <2>2
<1>6. ASSUME NEW k \in 1..n
      PROVE  Listed(d)[k] \in Children(d) /\ place[Listed(d)[k]].slug = o[k]
  <2>1. o[k] \in SlugsAt(d)
    BY DEF Lists
  <2>2. At(d, o[k]) # {}
    BY <2>1 DEF SlugsAt, At
  <2>3. Listed(d)[k] = CHOOSE m \in At(d, o[k]) : TRUE
    BY <1>5
  <2>4. Listed(d)[k] \in At(d, o[k])
    BY <2>2, <2>3
  <2> QED
    BY <2>4 DEF At
<1>7. Listed(d) \in Seq(Children(d)) /\ Len(Listed(d)) = n
  <2>1. Listed(d) \in [1..n -> Children(d)]
    BY <1>5, <1>6
  <2> QED
    BY <1>1, <2>1
<1>8. InOrder(Rest(d), ByName) = <<>>
  <2>1. Lists(InOrder(Rest(d), ByName), Rest(d))
    BY <1>2, NamesInOrder
  <2>2. Len(InOrder(Rest(d), ByName)) = 0
    BY <1>2, <2>1, ListsLen, FS_EmptySet
  <2> QED
    BY <2>1, <2>2 DEF Lists
<1>9. Ordered(d) = Listed(d)
  BY <1>7, <1>8, OrderedParts
<1>10. DOMAIN Ordered(d) = 1..n
  BY <1>7, <1>9
<1>11. Reconciled(d) = [k \in 1..n |-> place[Listed(d)[k]].slug]
  BY <1>9, <1>10 DEF Reconciled
<1>12. Reconciled(d) = [k \in 1..n |-> o[k]]
  BY <1>6, <1>11
<1> QED
  BY <1>1, <1>12

-----------------------------------------------------------------------------
(* Slugs. *)

LEMMA FreshSlug ==
  ASSUME Readable, NEW d \in Dirs, NEW t \in Names
  PROVE  UniqueSlug(d, t) \in Slugs \ SlugsAt(d)
<1> DEFINE b == BaseOf[t]
           free == {i \in 1..N + 1 : <<b, i>> \notin SlugsAt(d)}
<1>0. N \in Nat
  BY NodesNumber
<1>1. free # {}
  <2> SUFFICES ASSUME \A i \in 1..N + 1 : <<b, i>> \in SlugsAt(d) PROVE FALSE
    OBVIOUS
  <2> DEFINE f == [i \in 1..N + 1 |-> CHOOSE m \in Children(d) : place[m].slug = <<b, i>>]
  <2>1. ASSUME NEW i \in 1..N + 1 PROVE f[i] \in Children(d) /\ place[f[i]].slug = <<b, i>>
    <3>1. \E m \in Children(d) : place[m].slug = <<b, i>>
      BY DEF SlugsAt
    <3> QED
      BY <3>1
  <2>2. f \in [1..N + 1 -> Nodes]
    BY <2>1, ChildFacts
  <2>3. IsFiniteSet(1..N + 1) /\ Cardinality(1..N + 1) = N + 1
    <3>1. N + 1 \in Int /\ 1 \in Int
      BY <1>0
    <3>2. IsFiniteSet(1..N + 1) /\ Cardinality(1..N + 1) = IF 1 > N + 1 THEN 0 ELSE (N + 1) - 1 + 1
      BY <3>1, FS_Interval
    <3> QED
      BY <1>0, <3>2
  <2>4. Cardinality(Nodes) < Cardinality(1..N + 1) /\ IsFiniteSet(Nodes)
    BY <1>0, <2>3, NodesAssumption DEF N
  <2> HIDE DEF f
  <2>5. PICK i \in 1..N + 1, j \in 1..N + 1 : i # j /\ f[i] = f[j]
    BY <2>2, <2>3, <2>4, FS_PigeonHole
  <2>6. <<b, i>> = <<b, j>>
    BY <2>1, <2>5
  <2> QED
    BY <2>5, <2>6
<1>2. Min(free) \in free
  <2>1. free \in SUBSET Nat
    BY <1>0
  <2> HIDE DEF free
  <2> QED
    BY <1>1, <2>1, LeastNumber DEF Min
<1>3. UniqueSlug(d, t) = <<b, Min(free)>>
  BY DEF UniqueSlug, SlugsAt, N
<1>4. <<b, Min(free)>> \in Slugs \ SlugsAt(d)
  <2>1. Min(free) \in 1..N + 1 /\ <<b, Min(free)>> \notin SlugsAt(d)
    BY <1>2
  <2> HIDE DEF free
  <2> QED
    BY <2>1 DEF Slugs, N
<1> QED
  BY <1>3, <1>4

-----------------------------------------------------------------------------
(* The inductive invariant, over places, marks and names. *)

Kinds == Marks \ {"none"}

Kin(at, mk, d) == {n \in Nodes : at[n] # None /\ mk[n] # "none" /\ at[n].parent = d}
SlugsOf(at, mk, d) == {at[m].slug : m \in Kin(at, mk, d)}
Named(at, mk, nm, d, t) == \E m \in Kin(at, mk, d) : nm[m] = t

Spot(d, s) == [parent |-> d, slug |-> s]

TreeTyped(at, mk, nm) ==
  /\ at \in PlacesOf
  /\ mk \in [Nodes -> Marks]
  /\ nm \in [Nodes -> Names \cup {None}]
  /\ \A n \in Nodes : mk[n] # "none" <=> nm[n] # None

Different(at, mk, nm) ==
  \A d \in Dirs : \A m, n \in Kin(at, mk, d) : nm[m] = nm[n] => m = n

TreeOK(at, mk, nm) ==
  /\ TreeTyped(at, mk, nm)
  /\ Apart(at)
  /\ Forest(at)
  /\ \A n \in Nodes : at[n] = None => mk[n] = "none"
  /\ Different(at, mk, nm)

\* What each plan finds, by what is left of it.
Creating(at, mk, nm, n, d, s, t, l) ==
  /\ There(at, d)
  /\ mk[n] = "none" /\ at[n] \in {None, Spot(d, s)}
  /\ \A m \in Nodes : at[m] = Spot(d, s) => m = n
  /\ ~ Named(at, mk, nm, d, t)
  /\ Lists(l, SlugsOf(at, mk, d) \cup {s})

Marking(at, mk, nm, n, d, s, t, l) ==
  /\ at[n] = Spot(d, s) /\ mk[n] = "none"
  /\ ~ Named(at, mk, nm, d, t)
  /\ Lists(l, SlugsOf(at, mk, d) \cup {s})

Naming(at, mk, nm, n, t) ==
  /\ at[n] # None /\ mk[n] # "none"
  /\ ~ Named(at, mk, nm, at[n].parent, t)

Listing(at, mk, d, l) == Lists(l, SlugsOf(at, mk, d))

Removing(at, mk, n, d, l) ==
  /\ at[n] # None /\ at[n].parent = d
  /\ Lists(l, SlugsOf(at, mk, d) \ {at[n].slug})

Moving(at, mk, nm, n, d, s, from, l, r) ==
  /\ at[n] # None /\ mk[n] # "none" /\ at[n].parent = from /\ from # d
  /\ There(at, d) /\ n \notin Chain(at, d)
  /\ s \notin SlugsOf(at, mk, d)
  /\ ~ Named(at, mk, nm, d, nm[n])
  /\ Lists(l, SlugsOf(at, mk, from) \ {at[n].slug})
  /\ Lists(r, SlugsOf(at, mk, d) \cup {s})

Moved(at, mk, from, l, d, r) ==
  /\ from # d
  /\ Lists(l, SlugsOf(at, mk, from))
  /\ Lists(r, SlugsOf(at, mk, d))

MkdirStep(n, d, s) == [do |-> "mkdir", node |-> n, spot |-> Spot(d, s)]
MarkStep(n, k, t) == [do |-> "mark", node |-> n, kind |-> k, name |-> t]
OrderStep(d, l) == [do |-> "order", dir |-> d, slugs |-> l]
RemoveStep(n) == [do |-> "remove", node |-> n]
RenameStep(n, d, s) == [do |-> "rename", node |-> n, spot |-> Spot(d, s)]

ListsOfSlugs == Seq(Slugs)

Planned(p, at, mk, nm) ==
  \/ p = <<>>
  \/ \E n \in Nodes, d \in Dirs, s \in Slugs, k \in Kinds, t \in Names, l \in ListsOfSlugs :
       /\ p = <<MkdirStep(n, d, s), MarkStep(n, k, t), OrderStep(d, l)>>
       /\ Creating(at, mk, nm, n, d, s, t, l)
  \/ \E n \in Nodes, d \in Dirs, s \in Slugs, k \in Kinds, t \in Names, l \in ListsOfSlugs :
       /\ p = <<MarkStep(n, k, t), OrderStep(d, l)>>
       /\ Marking(at, mk, nm, n, d, s, t, l)
  \/ \E n \in Nodes, k \in Kinds, t \in Names :
       /\ p = <<MarkStep(n, k, t)>>
       /\ Naming(at, mk, nm, n, t)
  \/ \E d \in Dirs, l \in ListsOfSlugs :
       /\ p = <<OrderStep(d, l)>>
       /\ Listing(at, mk, d, l)
  \/ \E n \in Nodes, d \in Dirs, l \in ListsOfSlugs :
       /\ p = <<RemoveStep(n), OrderStep(d, l)>>
       /\ Removing(at, mk, n, d, l)
  \/ \E n \in Nodes, d \in Dirs, s \in Slugs, from \in Dirs, l \in ListsOfSlugs, r \in ListsOfSlugs :
       /\ p = <<RenameStep(n, d, s), OrderStep(from, l), OrderStep(d, r)>>
       /\ Moving(at, mk, nm, n, d, s, from, l, r)
  \/ \E d \in Dirs, from \in Dirs, l \in ListsOfSlugs, r \in ListsOfSlugs :
       /\ p = <<OrderStep(from, l), OrderStep(d, r)>>
       /\ Moved(at, mk, from, l, d, r)

TreeInv ==
  /\ TreeOK(place, mark, name)
  /\ order \in [Dirs -> Seq(Slugs)]
  /\ Planned(plan, place, mark, name)
  /\ ops \in 0..MaxOps
  /\ torn \in BOOLEAN

-----------------------------------------------------------------------------
(* What each file operation does to the tree, and to what is left of its plan. *)

LEMMA KinFacts ==
  ASSUME NEW at, NEW mk, NEW nm, TreeTyped(at, mk, nm), Apart(at), NEW d \in Dirs
  PROVE  /\ Kin(at, mk, d) \in SUBSET Nodes
         /\ \A m \in Kin(at, mk, d) : /\ at[m] = Spot(d, at[m].slug)
                                      /\ at[m].slug \in Slugs
                                      /\ nm[m] \in Names
         /\ \A m, n \in Kin(at, mk, d) : at[m].slug = at[n].slug => m = n
<1>1. ASSUME NEW m \in Kin(at, mk, d)
      PROVE  m \in Nodes /\ at[m] # None /\ at[m] = Spot(d, at[m].slug) /\ at[m].slug \in Slugs /\ nm[m] \in Names
  <2>1. m \in Nodes /\ at[m] # None /\ at[m].parent = d /\ nm[m] # None
    BY DEF Kin, TreeTyped
  <2>2. at[m] \in Places
    BY <2>1 DEF TreeTyped, PlacesOf
  <2>3. nm[m] \in Names
    BY <2>1 DEF TreeTyped
  <2> QED
    BY <2>1, <2>2, <2>3 DEF Places, Spot
<1>2. ASSUME NEW m \in Kin(at, mk, d), NEW n \in Kin(at, mk, d), at[m].slug = at[n].slug PROVE m = n
  <2>1. at[m] = at[n]
    BY <1>1, <1>2
  <2> QED
    BY <1>1, <2>1 DEF Apart
<1> QED
  BY <1>1, <1>2 DEF Kin

LEMMA SpotFacts ==
  ASSUME NEW d \in Dirs, NEW s \in Slugs
  PROVE  /\ Spot(d, s) \in Places /\ Spot(d, s) # None
         /\ Spot(d, s).parent = d /\ Spot(d, s).slug = s
  BY NoneAssumption DEF Spot, Places, Dirs

LEMMA ListTyped ==
  ASSUME NEW at, NEW mk, NEW nm, TreeTyped(at, mk, nm), Apart(at), NEW d \in Dirs,
         NEW l, Lists(l, SlugsOf(at, mk, d))
  PROVE  l \in ListsOfSlugs
<1>1. SlugsOf(at, mk, d) \subseteq Slugs
  BY KinFacts DEF SlugsOf
<1> QED
  BY <1>1, SeqMonotonic DEF Lists, ListsOfSlugs

\* The directory is made.
LEMMA MkdirKeeps ==
  ASSUME NEW at, NEW mk, NEW nm, TreeOK(at, mk, nm),
         NEW n \in Nodes, NEW d \in Dirs, NEW s \in Slugs, NEW t \in Names, NEW l,
         Creating(at, mk, nm, n, d, s, t, l),
         NEW to, to = [at EXCEPT ![n] = Spot(d, s)]
  PROVE  TreeOK(to, mk, nm) /\ Marking(to, mk, nm, n, d, s, t, l)
<1>1. TreeTyped(at, mk, nm) /\ at \in PlacesOf /\ Apart(at) /\ Forest(at)
  BY DEF TreeOK, TreeTyped
<1>2. Spot(d, s) \in Places /\ Spot(d, s) # None /\ Spot(d, s).parent = d
  BY SpotFacts
<1>3. to \in PlacesOf
  BY <1>1, <1>2 DEF PlacesOf
<1>4. to[n] = Spot(d, s) /\ \A m \in Nodes \ {n} : to[m] = at[m]
  BY <1>1 DEF PlacesOf
<1>5. TreeTyped(to, mk, nm)
  BY <1>1, <1>3 DEF TreeTyped
<1>6. Apart(to)
  BY <1>1, <1>2, <1>4 DEF Apart, Creating
<1>7. Forest(to)
  <2>1. CASE at[n] = Spot(d, s)
    <3>1. to = at
      BY <1>1, <2>1 DEF PlacesOf
    <3> QED
      BY <1>1, <3>1
  <2>2. CASE at[n] = None
    <3>1. There(at, d)
      BY DEF Creating
    <3>2. n \notin Chain(at, d)
      <4>1. ~ There(at, n)
        BY <2>2, RootAssumption DEF There
      <4> QED
        BY <1>1, <3>1, <4>1, AllThere
    <3>3. to[n] # None /\ to[n].parent = d
      BY <1>2, <1>4
    <3>4. \A m \in Nodes \ ({} \cup {n}) : to[m] = at[m]
      BY <1>4
    <3>5. Puts(at, to, n, d, {})
      BY <3>1, <3>2, <3>3, <3>4 DEF Puts
    <3> QED
      BY <1>1, <1>3, <3>5, PutBelow
  <2> QED
    BY <2>1, <2>2 DEF Creating
<1>8. \A e : Kin(to, mk, e) = Kin(at, mk, e)
  <2>1. mk[n] = "none"
    BY DEF Creating
  <2> QED
    BY <1>4, <2>1 DEF Kin
<1>9. \A e : SlugsOf(to, mk, e) = SlugsOf(at, mk, e)
  <2> SUFFICES ASSUME NEW e PROVE SlugsOf(to, mk, e) = SlugsOf(at, mk, e)
    OBVIOUS
  <2>1. \A m \in Kin(at, mk, e) : to[m] = at[m]
    BY <1>4 DEF Kin, Creating
  <2>2. Kin(to, mk, e) = Kin(at, mk, e)
    BY <1>8
  <2>3. {to[m].slug : m \in Kin(at, mk, e)} = {at[m].slug : m \in Kin(at, mk, e)}
    BY <2>1
  <2> QED
    BY <2>2, <2>3 DEF SlugsOf
<1>10. \A m \in Nodes : to[m] = None => mk[m] = "none"
  BY <1>4 DEF TreeOK, Creating
<1>11. Different(to, mk, nm)
  BY <1>8 DEF TreeOK, Different
<1>12. Marking(to, mk, nm, n, d, s, t, l)
  BY <1>4, <1>8, <1>9 DEF Creating, Marking, Named
<1> QED
  BY <1>3, <1>5, <1>6, <1>7, <1>10, <1>11, <1>12 DEF TreeOK

\* A directory that has no mark gets one.
LEMMA MarkKeeps ==
  ASSUME NEW at, NEW mk, NEW nm, TreeOK(at, mk, nm),
         NEW n \in Nodes, NEW d \in Dirs, NEW s \in Slugs, NEW k \in Kinds, NEW t \in Names, NEW l,
         Marking(at, mk, nm, n, d, s, t, l),
         NEW mk2, mk2 = [mk EXCEPT ![n] = k], NEW nm2, nm2 = [nm EXCEPT ![n] = t]
  PROVE  TreeOK(at, mk2, nm2) /\ Listing(at, mk2, d, l)
<1>1. TreeTyped(at, mk, nm) /\ at \in PlacesOf /\ Apart(at) /\ Forest(at)
  BY DEF TreeOK, TreeTyped
<1>2. at[n] = Spot(d, s) /\ at[n] # None /\ at[n].parent = d /\ at[n].slug = s /\ mk[n] = "none"
  BY SpotFacts DEF Marking
<1>3. mk2[n] = k /\ k # "none" /\ \A m \in Nodes \ {n} : mk2[m] = mk[m]
  BY <1>1 DEF TreeTyped, Kinds
<1>4. nm2[n] = t /\ t # None /\ \A m \in Nodes \ {n} : nm2[m] = nm[m]
  BY <1>1, NoneAssumption DEF TreeTyped
<1>5. TreeTyped(at, mk2, nm2)
  <2>1. mk2 \in [Nodes -> Marks] /\ nm2 \in [Nodes -> Names \cup {None}]
    BY <1>1 DEF TreeTyped, Kinds
  <2> QED
    BY <1>1, <1>3, <1>4, <2>1 DEF TreeTyped
<1>6. \A m \in Nodes : at[m] = None => mk2[m] = "none"
  BY <1>2, <1>3 DEF TreeOK
<1>7. \A e : e # d => Kin(at, mk2, e) = Kin(at, mk, e)
  BY <1>2, <1>3 DEF Kin
<1>8. Kin(at, mk2, d) = Kin(at, mk, d) \cup {n}
  BY <1>2, <1>3 DEF Kin
<1>9. n \notin Kin(at, mk, d)
  BY <1>2 DEF Kin
<1>10. Different(at, mk2, nm2)
  <2> SUFFICES ASSUME NEW e \in Dirs, NEW x \in Kin(at, mk2, e), NEW y \in Kin(at, mk2, e), nm2[x] = nm2[y]
               PROVE  x = y
    BY DEF Different
  <2>1. x \in Nodes /\ y \in Nodes
    BY DEF Kin
  <2>2. CASE x \in Kin(at, mk, e) /\ y \in Kin(at, mk, e)
    <3>1. x # n /\ y # n
      BY <1>2, <2>2 DEF Kin
    <3> QED
      BY <1>4, <2>1, <2>2, <3>1 DEF TreeOK, Different
  <2>3. CASE e = d /\ (x = n \/ y = n)
    <3>1. \A m \in Kin(at, mk, d) : nm2[m] # t
      <4>1. \A m \in Kin(at, mk, d) : nm[m] # t /\ m # n /\ m \in Nodes
        BY <1>9 DEF Marking, Named, Kin
      <4> QED
        BY <1>4, <4>1
    <3> QED
      BY <1>4, <1>8, <2>3, <3>1
  <2> QED
    BY <1>7, <1>8, <2>2, <2>3
<1>11. SlugsOf(at, mk2, d) = SlugsOf(at, mk, d) \cup {s}
  BY <1>2, <1>8 DEF SlugsOf
<1>12. Listing(at, mk2, d, l)
  BY <1>11 DEF Marking, Listing
<1> QED
  BY <1>1, <1>5, <1>6, <1>10, <1>12 DEF TreeOK

\* An item's name is written anew, and its mark may be.
LEMMA NameKeeps ==
  ASSUME NEW at, NEW mk, NEW nm, TreeOK(at, mk, nm),
         NEW n \in Nodes, NEW k \in Kinds, NEW t \in Names,
         Naming(at, mk, nm, n, t),
         NEW mk2, mk2 = [mk EXCEPT ![n] = k], NEW nm2, nm2 = [nm EXCEPT ![n] = t]
  PROVE  TreeOK(at, mk2, nm2)
<1>1. TreeTyped(at, mk, nm) /\ at \in PlacesOf /\ Apart(at) /\ Forest(at)
  BY DEF TreeOK, TreeTyped
<1>2. at[n] # None /\ mk[n] # "none"
  BY DEF Naming
<1>3. mk2[n] = k /\ k # "none" /\ \A m \in Nodes \ {n} : mk2[m] = mk[m]
  BY <1>1 DEF TreeTyped, Kinds
<1>4. nm2[n] = t /\ t # None /\ \A m \in Nodes \ {n} : nm2[m] = nm[m]
  BY <1>1, NoneAssumption DEF TreeTyped
<1>5. TreeTyped(at, mk2, nm2)
  <2>1. mk2 \in [Nodes -> Marks] /\ nm2 \in [Nodes -> Names \cup {None}]
    BY <1>1 DEF TreeTyped, Kinds
  <2> QED
    BY <1>1, <1>3, <1>4, <2>1 DEF TreeTyped
<1>6. \A m \in Nodes : at[m] = None => mk2[m] = "none"
  BY <1>2, <1>3 DEF TreeOK
<1>7. \A e : Kin(at, mk2, e) = Kin(at, mk, e)
  BY <1>2, <1>3 DEF Kin
<1>8. Different(at, mk2, nm2)
  <2> SUFFICES ASSUME NEW e \in Dirs, NEW x \in Kin(at, mk, e), NEW y \in Kin(at, mk, e), nm2[x] = nm2[y]
               PROVE  x = y
    BY <1>7 DEF Different
  <2>1. x \in Nodes /\ y \in Nodes /\ at[x].parent = e /\ at[y].parent = e
    BY DEF Kin
  <2>2. CASE x # n /\ y # n
    BY <1>4, <2>1, <2>2 DEF TreeOK, Different
  <2>3. CASE x = n /\ y # n
    BY <1>4, <2>1, <2>3 DEF Naming, Named
  <2>4. CASE x # n /\ y = n
    BY <1>4, <2>1, <2>4 DEF Naming, Named
  <2> QED
    BY <2>2, <2>3, <2>4
<1> QED
  BY <1>1, <1>5, <1>6, <1>8 DEF TreeOK

LEMMA SameSpot ==
  ASSUME NEW at \in PlacesOf, NEW n \in Nodes, at[n] # None
  PROVE  at[n] = Spot(at[n].parent, at[n].slug)
<1>1. at[n] \in Places
  BY DEF PlacesOf
<1> QED
  BY <1>1 DEF Places, Spot

RenameTo(at, n, spot) ==
  [m \in Nodes |-> IF m = n THEN spot ELSE IF at[m] = spot THEN None ELSE at[m]]

\* A directory moves; what is empty at its new place makes way.
LEMMA RenameKeeps ==
  ASSUME NEW at, NEW mk, NEW nm, TreeOK(at, mk, nm),
         NEW n \in Nodes, NEW d \in Dirs, NEW s \in Slugs, NEW from \in Dirs, NEW l, NEW r,
         Moving(at, mk, nm, n, d, s, from, l, r),
         \A m \in Nodes : at[m] = Spot(d, s) =>
           \A k \in Nodes : at[k] # None => at[k].parent # m,
         NEW to, to = RenameTo(at, n, Spot(d, s))
  PROVE  TreeOK(to, mk, nm) /\ Moved(to, mk, from, l, d, r)
<1> DEFINE gone == {m \in Nodes : at[m] = Spot(d, s)}
<1>1. TreeTyped(at, mk, nm) /\ at \in PlacesOf /\ Apart(at) /\ Forest(at)
  BY DEF TreeOK, TreeTyped
<1>2. /\ Spot(d, s) \in Places /\ Spot(d, s) # None
      /\ Spot(d, s).parent = d /\ Spot(d, s).slug = s
  BY SpotFacts
<1>3. at[n] # None /\ mk[n] # "none" /\ at[n].parent = from /\ from # d
  BY DEF Moving
<1>4. n \notin gone
  BY <1>2, <1>3
<1>5. \A m \in gone : mk[m] = "none"
  <2> SUFFICES ASSUME NEW m \in Nodes, at[m] = Spot(d, s), mk[m] # "none" PROVE FALSE
    OBVIOUS
  <2>1. m \in Kin(at, mk, d)
    BY <1>2 DEF Kin
  <2>2. s \in SlugsOf(at, mk, d)
    BY <1>2, <2>1 DEF SlugsOf
  <2> QED
    BY <2>2 DEF Moving
<1>6. /\ to[n] = Spot(d, s)
      /\ \A m \in gone : to[m] = None
      /\ \A m \in Nodes \ (gone \cup {n}) : to[m] = at[m]
  BY <1>4 DEF RenameTo
<1>7. to \in PlacesOf
  BY <1>1, <1>2 DEF PlacesOf, RenameTo
<1>8. \A m \in Nodes : m # n => to[m] # Spot(d, s)
  BY <1>2 DEF RenameTo
<1>9. TreeTyped(to, mk, nm)
  BY <1>1, <1>7 DEF TreeTyped
<1>10. Apart(to)
  <2> SUFFICES ASSUME NEW x \in Nodes, NEW y \in Nodes, to[x] # None, to[x] = to[y] PROVE x = y
    BY DEF Apart
  <2>1. CASE x # n /\ y # n
    <3>1. to[x] = at[x] /\ to[y] = at[y]
      BY <1>6, <2>1
    <3> QED
      BY <1>1, <3>1 DEF Apart
  <2>2. CASE x = n \/ y = n
    BY <1>6, <1>8, <2>2
  <2> QED
    BY <2>1, <2>2
<1>11. Forest(to)
  <2>1. d \notin gone
    <3> SUFFICES ASSUME d \in Nodes, at[d] = Spot(d, s) PROVE FALSE
      OBVIOUS
    <3> QED
      BY <1>2
  <2>2. \A k \in Nodes : at[k] # None => at[k].parent \notin gone
    OBVIOUS
  <2>3. Puts(at, to, n, d, gone)
    <3> HIDE DEF gone
    <3> QED
      BY <1>2, <1>4, <1>6, <2>1, <2>2 DEF Puts, Moving
  <2>4. gone \in SUBSET Nodes
    OBVIOUS
  <2> HIDE DEF gone
  <2> QED
    BY <1>1, <1>7, <2>3, <2>4, PutBelow
<1>12. \A m \in Nodes : to[m] = None => mk[m] = "none"
  <2>1. \A m \in Nodes \ (gone \cup {n}) : at[m] = None => mk[m] = "none"
    BY DEF TreeOK
  <2> HIDE DEF gone
  <2> QED
    BY <1>2, <1>5, <1>6, <2>1
<1>13. \A m \in Nodes : m # n /\ mk[m] # "none" => to[m] = at[m]
  <2> HIDE DEF gone
  <2> QED
    BY <1>5, <1>6
<1>14. Kin(to, mk, d) = Kin(at, mk, d) \cup {n} /\ n \notin Kin(at, mk, d)
  BY <1>2, <1>3, <1>6, <1>13 DEF Kin
<1>15. Kin(to, mk, from) = Kin(at, mk, from) \ {n} /\ n \in Kin(at, mk, from)
  BY <1>2, <1>3, <1>6, <1>13 DEF Kin
<1>16. ASSUME NEW e, e # d, e # from PROVE Kin(to, mk, e) = Kin(at, mk, e)
  BY <1>2, <1>3, <1>6, <1>13, <1>16 DEF Kin
<1>17. Different(to, mk, nm)
  <2> SUFFICES ASSUME NEW e \in Dirs, NEW x \in Kin(to, mk, e), NEW y \in Kin(to, mk, e), nm[x] = nm[y]
               PROVE  x = y
    BY DEF Different
  <2>1. CASE x \in Kin(at, mk, e) /\ y \in Kin(at, mk, e)
    BY <2>1 DEF TreeOK, Different
  <2>2. CASE e = d /\ (x = n \/ y = n)
    BY <1>14, <2>2 DEF Moving, Named
  <2> QED
    BY <1>14, <1>15, <1>16, <2>1, <2>2
<1>18. SlugsOf(to, mk, d) = SlugsOf(at, mk, d) \cup {s}
  <2>1. \A m \in Kin(at, mk, d) : to[m] = at[m]
    BY <1>13, <1>14 DEF Kin
  <2> QED
    BY <1>2, <1>6, <1>14, <2>1 DEF SlugsOf
<1>19. SlugsOf(to, mk, from) = SlugsOf(at, mk, from) \ {at[n].slug}
  <2>1. \A m \in Kin(at, mk, from) \ {n} : to[m] = at[m] /\ at[m].slug # at[n].slug
    <3> SUFFICES ASSUME NEW m \in Kin(at, mk, from) \ {n} PROVE to[m] = at[m] /\ at[m].slug # at[n].slug
      OBVIOUS
    <3>1. m \in Nodes /\ mk[m] # "none"
      BY DEF Kin
    <3>2. at[m].slug # at[n].slug
      BY <1>1, <1>15, KinFacts
    <3> QED
      BY <1>13, <3>1, <3>2
  <2> QED
    BY <1>15, <2>1 DEF SlugsOf
<1>20. Moved(to, mk, from, l, d, r)
  BY <1>3, <1>18, <1>19 DEF Moving, Moved
<1> QED
  BY <1>9, <1>10, <1>11, <1>12, <1>17, <1>20 DEF TreeOK

\* A file below or in what is deleted goes.
LEMMA RemoveMarkKeeps ==
  ASSUME NEW at, NEW mk, NEW nm, TreeOK(at, mk, nm),
         NEW n \in Nodes, NEW d \in Dirs, NEW l, Removing(at, mk, n, d, l),
         NEW x \in Nodes, at[x] # None, n \in Chain(at, x),
         NEW mk2, mk2 = [mk EXCEPT ![x] = "none"], NEW nm2, nm2 = [nm EXCEPT ![x] = None]
  PROVE  TreeOK(at, mk2, nm2) /\ Removing(at, mk2, n, d, l)
<1>1. TreeTyped(at, mk, nm) /\ at \in PlacesOf /\ Apart(at) /\ Forest(at)
  BY DEF TreeOK, TreeTyped
<1>2. mk2[x] = "none" /\ \A m \in Nodes \ {x} : mk2[m] = mk[m]
  BY <1>1 DEF TreeTyped
<1>3. nm2[x] = None /\ \A m \in Nodes \ {x} : nm2[m] = nm[m]
  BY <1>1 DEF TreeTyped
<1>4. TreeTyped(at, mk2, nm2)
  <2>1. mk2 \in [Nodes -> Marks] /\ nm2 \in [Nodes -> Names \cup {None}]
    BY <1>1 DEF TreeTyped, Marks
  <2> QED
    BY <1>1, <1>2, <1>3, <2>1 DEF TreeTyped
<1>5. \A m \in Nodes : at[m] = None => mk2[m] = "none"
  BY <1>2 DEF TreeOK
<1>6. \A e : Kin(at, mk2, e) = Kin(at, mk, e) \ {x}
  BY <1>2 DEF Kin
<1>7. Different(at, mk2, nm2)
  <2> SUFFICES ASSUME NEW e \in Dirs, NEW y \in Kin(at, mk, e) \ {x}, NEW z \in Kin(at, mk, e) \ {x}, nm2[y] = nm2[z]
               PROVE  y = z
    BY <1>6 DEF Different
  <2>1. nm[y] = nm[z]
    BY <1>3 DEF Kin
  <2> QED
    BY <2>1 DEF TreeOK, Different
<1>8. SlugsOf(at, mk2, d) \ {at[n].slug} = SlugsOf(at, mk, d) \ {at[n].slug}
  <2>1. CASE x = n
    BY <1>6, <2>1 DEF SlugsOf
  <2>2. CASE x # n
    <3>1. x \notin Kin(at, mk, d)
      <4> SUFFICES ASSUME at[x].parent = d PROVE FALSE
        BY DEF Kin
      <4>1. n \in Chain(at, d)
        BY <1>1, <2>2, ChainOfParent
      <4>2. at[n] # None /\ at[n].parent = d
        BY DEF Removing
      <4> QED
        BY <1>1, <4>1, <4>2, NotAboveItself
    <3> QED
      BY <1>6, <3>1 DEF SlugsOf
  <2> QED
    BY <2>1, <2>2
<1>9. Removing(at, mk2, n, d, l)
  BY <1>8 DEF Removing
<1> QED
  BY <1>1, <1>4, <1>5, <1>7, <1>9 DEF TreeOK

\* An empty directory goes.
LEMMA RemoveDirKeeps ==
  ASSUME NEW at, NEW mk, NEW nm, TreeOK(at, mk, nm),
         NEW n \in Nodes, NEW d \in Dirs, NEW l, Removing(at, mk, n, d, l),
         NEW x \in Nodes, mk[x] = "none",
         \A k \in Nodes : at[k] # None => at[k].parent # x,
         NEW to, to = [at EXCEPT ![x] = None]
  PROVE  /\ TreeOK(to, mk, nm)
         /\ x # n => Removing(to, mk, n, d, l)
         /\ x = n => Listing(to, mk, d, l)
<1>1. TreeTyped(at, mk, nm) /\ at \in PlacesOf /\ Apart(at) /\ Forest(at)
  BY DEF TreeOK, TreeTyped
<1>2. to[x] = None /\ \A m \in Nodes \ {x} : to[m] = at[m]
  BY <1>1 DEF PlacesOf
<1>3. to \in PlacesOf
  BY <1>1 DEF PlacesOf
<1>4. TreeTyped(to, mk, nm)
  BY <1>1, <1>3 DEF TreeTyped
<1>5. Apart(to)
  BY <1>1, <1>2 DEF Apart
<1>6. Forest(to)
  BY <1>1, <1>2, <1>3, DropEmpty
<1>7. \A m \in Nodes : to[m] = None => mk[m] = "none"
  BY <1>2 DEF TreeOK
<1>8. \A e : Kin(to, mk, e) = Kin(at, mk, e)
  BY <1>2 DEF Kin
<1>9. Different(to, mk, nm)
  BY <1>8 DEF TreeOK, Different
<1>10. \A e : SlugsOf(to, mk, e) = SlugsOf(at, mk, e)
  <2> SUFFICES ASSUME NEW e PROVE SlugsOf(to, mk, e) = SlugsOf(at, mk, e)
    OBVIOUS
  <2>1. \A m \in Kin(at, mk, e) : to[m] = at[m]
    BY <1>2 DEF Kin
  <2>2. Kin(to, mk, e) = Kin(at, mk, e)
    BY <1>8
  <2>3. {to[m].slug : m \in Kin(at, mk, e)} = {at[m].slug : m \in Kin(at, mk, e)}
    BY <2>1
  <2> QED
    BY <2>2, <2>3 DEF SlugsOf
<1>11. ASSUME x # n PROVE Removing(to, mk, n, d, l)
  BY <1>2, <1>10, <1>11 DEF Removing
<1>12. ASSUME x = n PROVE Listing(to, mk, d, l)
  <2>1. at[n].slug \notin SlugsOf(at, mk, d)
    <3> SUFFICES ASSUME NEW m \in Kin(at, mk, d), at[m].slug = at[n].slug PROVE FALSE
      BY DEF SlugsOf
    <3>1. m \in Nodes /\ at[m] # None /\ at[m].parent = d /\ mk[m] # "none"
      BY DEF Kin
    <3>2. at[n] # None /\ at[n].parent = d
      BY DEF Removing
    <3>3. at[m] = at[n]
      BY <1>1, <3>1, <3>2, SameSpot
    <3> QED
      BY <1>1, <1>12, <3>1, <3>3 DEF Apart
  <2> QED
    BY <1>10, <2>1 DEF Removing, Listing
<1> QED
  BY <1>4, <1>5, <1>6, <1>7, <1>9, <1>11, <1>12 DEF TreeOK

-----------------------------------------------------------------------------
(* Every step keeps the invariant. *)

LEMMA Bridge ==
  /\ \A d : Children(d) = Kin(place, mark, d)
  /\ \A d : SlugsAt(d) = SlugsOf(place, mark, d)
  /\ \A d, t : Taken(d, t) <=> Named(place, mark, name, d, t)
  /\ \A d : Above(d) = Chain(place, d)
<1>1. \A d : Children(d) = Kin(place, mark, d)
  BY DEF Children, Kin
<1>2. ASSUME NEW d PROVE SlugsAt(d) = SlugsOf(place, mark, d)
  BY <1>1 DEF SlugsAt, SlugsOf
<1>3. \A d, t : Taken(d, t) <=> Named(place, mark, name, d, t)
  BY <1>1 DEF Taken, Named
<1>4. \A d : Above(d) = Chain(place, d)
  BY DEF Above
<1> QED
  BY <1>1, <1>2, <1>3, <1>4

LEMMA InvReadable ==
  ASSUME TreeInv
  PROVE  Readable /\ TreeTyped(place, mark, name) /\ place \in PlacesOf /\ Apart(place) /\ Forest(place)
  BY DEF TreeInv, TreeOK, TreeTyped, Readable, Typed

LEMMA FoldersThere ==
  ASSUME TreeInv, NEW d \in Folders
  PROVE  d \in Dirs /\ There(place, d)
  BY DEF Folders, Shown, There, Dirs

LEMMA CallKeeps ==
  ASSUME TreeInv, Call, UNCHANGED <<place, mark, name, order, torn>>,
         Planned(plan', place, mark, name)
  PROVE  TreeInv'
<1>1. ops' \in 0..MaxOps
  BY NodesAssumption DEF TreeInv, Call
<1> QED
  BY <1>1 DEF TreeInv

\* A create makes a plan for a directory that is free or has lost its mark.
LEMMA CreateFinds ==
  ASSUME TreeInv, NEW d \in Dirs, NEW t \in Names, NEW kind \in Marks \ {"none"}, Create(d, t, kind)
  PROVE  LET s == UniqueSlug(d, t)
             l == Append(Reconciled(d), s)
         IN /\ s \in Slugs /\ s \notin SlugsOf(place, mark, d)
            /\ \E n \in Nodes :
                 /\ plan' = <<MkdirStep(n, d, s), MarkStep(n, kind, t), OrderStep(d, l)>>
                 /\ Creating(place, mark, name, n, d, s, t, l)
<1>0. Readable /\ TreeTyped(place, mark, name) /\ place \in PlacesOf /\ Apart(place) /\ Forest(place)
  BY InvReadable
<1> DEFINE s == UniqueSlug(d, t)
           spot == Spot(d, s)
           l == Append(Reconciled(d), s)
<1>1. Call /\ d \in Folders /\ ~ Taken(d, t) /\ UNCHANGED <<place, mark, name, order, torn>>
  BY DEF Create
<1>2. There(place, d)
  BY <1>1, FoldersThere
<1>3. s \in Slugs /\ s \notin SlugsOf(place, mark, d)
  BY <1>0, FreshSlug, Bridge
<1> HIDE DEF s
<1>4. PICK n \in IF {m \in Nodes : place[m] = spot} # {} THEN {m \in Nodes : place[m] = spot}
                 ELSE {m \in Nodes : place[m] = None} :
        plan' = <<MkdirStep(n, d, s), MarkStep(n, kind, t), OrderStep(d, l)>>
  BY DEF Create, s, Spot, MkdirStep, MarkStep, OrderStep
<1>5. n \in Nodes /\ place[n] \in {None, spot} /\ (place[n] = None => {m \in Nodes : place[m] = spot} = {})
  BY <1>3, SpotFacts
<1>6. spot # None /\ spot.parent = d /\ spot.slug = s
  BY <1>3, SpotFacts
<1>7. \A m \in Nodes : place[m] = spot => m = n
  BY <1>0, <1>5, <1>6 DEF Apart
<1>8. mark[n] = "none"
  <2>1. CASE place[n] = None
    BY <1>5, <2>1 DEF TreeInv, TreeOK
  <2>2. CASE place[n] = spot
    <3> SUFFICES ASSUME mark[n] # "none" PROVE FALSE
      OBVIOUS
    <3>1. n \in Kin(place, mark, d)
      BY <1>5, <1>6, <2>2 DEF Kin
    <3> QED
      BY <1>3, <1>6, <2>2, <3>1 DEF SlugsOf
  <2> QED
    BY <1>5, <2>1, <2>2
<1>9. Lists(l, SlugsOf(place, mark, d) \cup {s})
  <2>1. Lists(Reconciled(d), SlugsOf(place, mark, d))
    BY <1>0, ReconciledLists, Bridge
  <2> QED
    BY <1>3, <2>1, ListsAppend
<1> HIDE DEF l
<1>11. Creating(place, mark, name, n, d, s, t, l)
  BY <1>1, <1>2, <1>5, <1>7, <1>8, <1>9, Bridge DEF Creating
<1>12. /\ s \in Slugs /\ s \notin SlugsOf(place, mark, d)
       /\ \E m \in Nodes :
            /\ plan' = <<MkdirStep(m, d, s), MarkStep(m, kind, t), OrderStep(d, l)>>
            /\ Creating(place, mark, name, m, d, s, t, l)
  BY <1>3, <1>4, <1>5, <1>11
<1> QED
  BY <1>12 DEF s, l

LEMMA CreateKeeps ==
  ASSUME TreeInv, NEW d \in Dirs, NEW t \in Names, NEW kind \in Marks \ {"none"}, Create(d, t, kind)
  PROVE  TreeInv'
<1> DEFINE s == UniqueSlug(d, t)
           l == Append(Reconciled(d), s)
<1>1. Call /\ UNCHANGED <<place, mark, name, order, torn>>
  BY DEF Create
<1>2. /\ s \in Slugs
      /\ \E n \in Nodes :
           /\ plan' = <<MkdirStep(n, d, s), MarkStep(n, kind, t), OrderStep(d, l)>>
           /\ Creating(place, mark, name, n, d, s, t, l)
  BY CreateFinds
<1> HIDE DEF s, l
<1>3. l \in ListsOfSlugs
  <2>1. Lists(l, SlugsOf(place, mark, d) \cup {s})
    BY <1>2 DEF Creating
  <2>2. SlugsOf(place, mark, d) \cup {s} \subseteq Slugs
    BY <1>2, InvReadable, KinFacts DEF SlugsOf
  <2> QED
    BY <2>1, <2>2, SeqMonotonic DEF Lists, ListsOfSlugs
<1>4. Planned(plan', place, mark, name)
  BY <1>2, <1>3 DEF Planned, Kinds
<1> QED
  BY <1>1, <1>4, CallKeeps

LEMMA RenameItemKeeps ==
  ASSUME TreeInv, NEW n \in Nodes, NEW t \in Names, Rename(n, t)
  PROVE  TreeInv'
<1>1. Call /\ Shown(n) /\ ~ Taken(place[n].parent, t) /\ UNCHANGED <<place, mark, name, order, torn>>
  BY DEF Rename
<1>2. plan' = <<MarkStep(n, mark[n], t)>>
  BY DEF Rename, MarkStep
<1>3. mark[n] \in Kinds
  BY <1>1, InvReadable DEF Shown, Kinds, TreeTyped
<1>4. Naming(place, mark, name, n, t)
  BY <1>1, Bridge DEF Shown, Naming
<1>5. Planned(plan', place, mark, name)
  BY <1>2, <1>3, <1>4 DEF Planned
<1> QED
  BY <1>1, <1>5, CallKeeps

LEMMA DeleteKeeps ==
  ASSUME TreeInv, NEW n \in Nodes, Delete(n)
  PROVE  TreeInv'
<1>0. Readable /\ TreeTyped(place, mark, name) /\ place \in PlacesOf /\ Apart(place) /\ Forest(place)
  BY InvReadable
<1> DEFINE d == place[n].parent
           l == Without(Reconciled(d), place[n].slug)
<1>1. Call /\ Shown(n) /\ UNCHANGED <<place, mark, name, order, torn>>
  BY DEF Delete
<1>2. plan' = <<RemoveStep(n), OrderStep(d, l)>>
  BY DEF Delete, RemoveStep, OrderStep
<1>3. place[n] # None /\ d \in Dirs
  BY <1>0, <1>1, ParentIsDir DEF Shown
<1>4. Lists(l, SlugsOf(place, mark, d) \ {place[n].slug})
  <2>1. Lists(Reconciled(d), SlugsOf(place, mark, d))
    BY <1>0, <1>3, ReconciledLists, Bridge
  <2> HIDE DEF d
  <2> QED
    BY <2>1, ListsWithout
<1>5. l \in ListsOfSlugs
  <2>1. SlugsOf(place, mark, d) \ {place[n].slug} \subseteq Slugs
    BY <1>0, <1>3, KinFacts DEF SlugsOf
  <2> HIDE DEF l
  <2> QED
    BY <1>4, <2>1, SeqMonotonic DEF Lists, ListsOfSlugs
<1>6. Removing(place, mark, n, d, l)
  BY <1>3, <1>4 DEF Removing
<1>7. Planned(plan', place, mark, name)
  <2> HIDE DEF d, l
  <2> QED
    BY <1>2, <1>3, <1>5, <1>6 DEF Planned
<1> QED
  BY <1>1, <1>7, CallKeeps

LEMMA MoveKeeps ==
  ASSUME TreeInv, NEW n \in Nodes, NEW d \in Dirs, NEW before \in Nodes \cup {None}, Move(n, d, before)
  PROVE  TreeInv'
<1>0. Readable /\ TreeTyped(place, mark, name) /\ place \in PlacesOf /\ Apart(place) /\ Forest(place)
  BY InvReadable
<1> DEFINE from == place[n].parent
           old == place[n].slug
           s == UniqueSlug(d, name[n])
           a == InsertSlug(Without(Reconciled(d), old), d, n, old, before)
           l == Without(Reconciled(from), old)
           r == InsertSlug(Reconciled(d), d, n, s, before)
<1>1. /\ Call /\ Shown(n) /\ d \in Folders /\ ~ IntoItself(n, d)
      /\ UNCHANGED <<place, mark, name, order, torn>>
  BY DEF Move
<1>2. place[n] # None /\ mark[n] # "none" /\ from \in Dirs /\ old \in Slugs /\ name[n] \in Names
  BY <1>0, <1>1, ParentIsDir DEF Shown, TreeTyped
<1>3. There(place, d) /\ n \notin Chain(place, d)
  BY <1>1, FoldersThere, Bridge DEF IntoItself
<1>4. Lists(Reconciled(d), SlugsOf(place, mark, d))
  BY <1>0, ReconciledLists, Bridge
<1>5. SlugsOf(place, mark, d) \subseteq Slugs
  BY <1>0, KinFacts DEF SlugsOf
<1>6. CASE d = from
  <2>1. plan' = <<OrderStep(d, a)>>
    BY <1>6 DEF Move, OrderStep
  <2>2. n \in Kin(place, mark, d)
    BY <1>2, <1>6 DEF Kin
  <2>3. old \in SlugsOf(place, mark, d)
    BY <2>2 DEF SlugsOf
  <2>4. Lists(Without(Reconciled(d), old), SlugsOf(place, mark, d) \ {old})
    BY <1>4, ListsWithout
  <2>5. Lists(a, (SlugsOf(place, mark, d) \ {old}) \cup {old})
    <3> HIDE DEF old
    <3> QED
      BY <2>4, ListsInsertSlug
  <2>6. (SlugsOf(place, mark, d) \ {old}) \cup {old} = SlugsOf(place, mark, d)
    <3> HIDE DEF old
    <3> QED
      BY <2>3
  <2> HIDE DEF a
  <2>7. Listing(place, mark, d, a)
    BY <2>5, <2>6 DEF Listing
  <2>8. a \in ListsOfSlugs
    BY <1>5, <2>7, SeqMonotonic DEF Lists, ListsOfSlugs, Listing
  <2>9. Planned(plan', place, mark, name)
    BY <2>1, <2>7, <2>8 DEF Planned
  <2> QED
    BY <1>1, <2>9, CallKeeps
<1>7. CASE d # from
  <2>1. ~ Taken(d, name[n]) /\ plan' = <<RenameStep(n, d, s), OrderStep(from, l), OrderStep(d, r)>>
    BY <1>7 DEF Move, OrderStep, RenameStep, Spot
  <2>2. s \in Slugs /\ s \notin SlugsOf(place, mark, d)
    BY <1>0, <1>2, FreshSlug, Bridge
  <2>3. Lists(l, SlugsOf(place, mark, from) \ {old})
    <3>1. Lists(Reconciled(from), SlugsOf(place, mark, from))
      BY <1>0, <1>2, ReconciledLists, Bridge
    <3> HIDE DEF from, old
    <3> QED
      BY <3>1, ListsWithout
  <2>4. Lists(r, SlugsOf(place, mark, d) \cup {s})
    <3> HIDE DEF s
    <3> QED
      BY <1>4, <2>2, ListsInsertSlug
  <2>5. SlugsOf(place, mark, from) \subseteq Slugs
    BY <1>0, <1>2, KinFacts DEF SlugsOf
  <2> HIDE DEF l, r, s
  <2>6. l \in ListsOfSlugs
    <3>1. SlugsOf(place, mark, from) \ {old} \subseteq Slugs
      BY <2>5
    <3> QED
      BY <2>3, <3>1, SeqMonotonic DEF Lists, ListsOfSlugs
  <2>7. r \in ListsOfSlugs
    <3>1. SlugsOf(place, mark, d) \cup {s} \subseteq Slugs
      BY <1>5, <2>2
    <3> QED
      BY <2>4, <3>1, SeqMonotonic DEF Lists, ListsOfSlugs
  <2>8. Moving(place, mark, name, n, d, s, from, l, r)
    BY <1>2, <1>3, <1>7, <2>1, <2>2, <2>3, <2>4, Bridge DEF Moving
  <2>9. Planned(plan', place, mark, name)
    <3> HIDE DEF from, old
    <3> QED
      BY <1>2, <2>1, <2>2, <2>6, <2>7, <2>8 DEF Planned
  <2> QED
    BY <1>1, <2>9, CallKeeps
<1> QED
  BY <1>6, <1>7

LEMMA Tuples ==
  /\ \A a : Head(<<a>>) = a /\ Tail(<<a>>) = <<>>
  /\ \A a, b : Head(<<a, b>>) = a /\ Tail(<<a, b>>) = <<b>>
  /\ \A a, b, c : Head(<<a, b, c>>) = a /\ Tail(<<a, b, c>>) = <<b, c>>
<1>1. \A a : Head(<<a>>) = a /\ Tail(<<a>>) = <<>>
  OBVIOUS
<1>2. \A a, b : Head(<<a, b>>) = a /\ Tail(<<a, b>>) = <<b>>
  OBVIOUS
<1>3. \A a, b, c : Head(<<a, b, c>>) = a /\ Tail(<<a, b, c>>) = <<b, c>>
  OBVIOUS
<1> QED
  BY <1>1, <1>2, <1>3

LEMMA StepKinds ==
  /\ \A n, d, s : MkdirStep(n, d, s).do = "mkdir"
  /\ \A n, k, t : MarkStep(n, k, t).do = "mark"
  /\ \A d, l : OrderStep(d, l).do = "order"
  /\ \A n : RemoveStep(n).do = "remove"
  /\ \A n, d, s : RenameStep(n, d, s).do = "rename"
  BY DEF MkdirStep, MarkStep, OrderStep, RemoveStep, RenameStep

\* What a plan is that has such a step at its head.
MkdirForm ==
  \E n \in Nodes, d \in Dirs, s \in Slugs, k \in Kinds, t \in Names, l \in ListsOfSlugs :
    /\ plan = <<MkdirStep(n, d, s), MarkStep(n, k, t), OrderStep(d, l)>>
    /\ Head(plan) = MkdirStep(n, d, s)
    /\ Tail(plan) = <<MarkStep(n, k, t), OrderStep(d, l)>>
    /\ Creating(place, mark, name, n, d, s, t, l)

MarkForm ==
  \/ \E n \in Nodes, d \in Dirs, s \in Slugs, k \in Kinds, t \in Names, l \in ListsOfSlugs :
       /\ plan = <<MarkStep(n, k, t), OrderStep(d, l)>>
       /\ Head(plan) = MarkStep(n, k, t)
       /\ Tail(plan) = <<OrderStep(d, l)>>
       /\ Marking(place, mark, name, n, d, s, t, l)
  \/ \E n \in Nodes, k \in Kinds, t \in Names :
       /\ plan = <<MarkStep(n, k, t)>>
       /\ Head(plan) = MarkStep(n, k, t)
       /\ Tail(plan) = <<>>
       /\ Naming(place, mark, name, n, t)

OrderForm ==
  \/ \E d \in Dirs, l \in ListsOfSlugs :
       /\ plan = <<OrderStep(d, l)>>
       /\ Head(plan) = OrderStep(d, l)
       /\ Tail(plan) = <<>>
       /\ Listing(place, mark, d, l)
  \/ \E d \in Dirs, from \in Dirs, l \in ListsOfSlugs, r \in ListsOfSlugs :
       /\ plan = <<OrderStep(from, l), OrderStep(d, r)>>
       /\ Head(plan) = OrderStep(from, l)
       /\ Tail(plan) = <<OrderStep(d, r)>>
       /\ Moved(place, mark, from, l, d, r)

RemoveForm ==
  \E n \in Nodes, d \in Dirs, l \in ListsOfSlugs :
    /\ plan = <<RemoveStep(n), OrderStep(d, l)>>
    /\ Head(plan) = RemoveStep(n)
    /\ Tail(plan) = <<OrderStep(d, l)>>
    /\ Removing(place, mark, n, d, l)

RenameForm ==
  \E n \in Nodes, d \in Dirs, s \in Slugs, from \in Dirs, l \in ListsOfSlugs, r \in ListsOfSlugs :
    /\ plan = <<RenameStep(n, d, s), OrderStep(from, l), OrderStep(d, r)>>
    /\ Head(plan) = RenameStep(n, d, s)
    /\ Tail(plan) = <<OrderStep(from, l), OrderStep(d, r)>>
    /\ Moving(place, mark, name, n, d, s, from, l, r)

PlanForm(form, what) == form /\ Head(plan).do = what

LEMMA PlanForms ==
  ASSUME TreeInv, plan # <<>>
  PROVE  \/ PlanForm(MkdirForm, "mkdir") \/ PlanForm(MarkForm, "mark") \/ PlanForm(OrderForm, "order")
         \/ PlanForm(RemoveForm, "remove") \/ PlanForm(RenameForm, "rename")
<1>1. CASE \E n \in Nodes, d \in Dirs, s \in Slugs, k \in Kinds, t \in Names, l \in ListsOfSlugs :
             /\ plan = <<MkdirStep(n, d, s), MarkStep(n, k, t), OrderStep(d, l)>>
             /\ Creating(place, mark, name, n, d, s, t, l)
  <2>1. MkdirForm
    BY <1>1, Tuples DEF MkdirForm
  <2>2. Head(plan).do = "mkdir"
    BY <1>1, Tuples, StepKinds
  <2> QED
    BY <2>1, <2>2 DEF PlanForm
<1>2. CASE \E n \in Nodes, d \in Dirs, s \in Slugs, k \in Kinds, t \in Names, l \in ListsOfSlugs :
             /\ plan = <<MarkStep(n, k, t), OrderStep(d, l)>>
             /\ Marking(place, mark, name, n, d, s, t, l)
  <2>1. MarkForm
    BY <1>2, Tuples DEF MarkForm
  <2>2. Head(plan).do = "mark"
    BY <1>2, Tuples, StepKinds
  <2> QED
    BY <2>1, <2>2 DEF PlanForm
<1>3. CASE \E n \in Nodes, k \in Kinds, t \in Names :
             /\ plan = <<MarkStep(n, k, t)>>
             /\ Naming(place, mark, name, n, t)
  <2>1. MarkForm
    BY <1>3, Tuples DEF MarkForm
  <2>2. Head(plan).do = "mark"
    BY <1>3, Tuples, StepKinds
  <2> QED
    BY <2>1, <2>2 DEF PlanForm
<1>4. CASE \E d \in Dirs, l \in ListsOfSlugs :
             /\ plan = <<OrderStep(d, l)>>
             /\ Listing(place, mark, d, l)
  <2>1. OrderForm
    BY <1>4, Tuples DEF OrderForm
  <2>2. Head(plan).do = "order"
    BY <1>4, Tuples, StepKinds
  <2> QED
    BY <2>1, <2>2 DEF PlanForm
<1>5. CASE \E n \in Nodes, d \in Dirs, l \in ListsOfSlugs :
             /\ plan = <<RemoveStep(n), OrderStep(d, l)>>
             /\ Removing(place, mark, n, d, l)
  <2>1. RemoveForm
    BY <1>5, Tuples DEF RemoveForm
  <2>2. Head(plan).do = "remove"
    BY <1>5, Tuples, StepKinds
  <2> QED
    BY <2>1, <2>2 DEF PlanForm
<1>6. CASE \E n \in Nodes, d \in Dirs, s \in Slugs, from \in Dirs, l \in ListsOfSlugs, r \in ListsOfSlugs :
             /\ plan = <<RenameStep(n, d, s), OrderStep(from, l), OrderStep(d, r)>>
             /\ Moving(place, mark, name, n, d, s, from, l, r)
  <2>1. RenameForm
    BY <1>6, Tuples DEF RenameForm
  <2>2. Head(plan).do = "rename"
    BY <1>6, Tuples, StepKinds
  <2> QED
    BY <2>1, <2>2 DEF PlanForm
<1>7. CASE \E d \in Dirs, from \in Dirs, l \in ListsOfSlugs, r \in ListsOfSlugs :
             /\ plan = <<OrderStep(from, l), OrderStep(d, r)>>
             /\ Moved(place, mark, from, l, d, r)
  <2>1. OrderForm
    BY <1>7, Tuples DEF OrderForm
  <2>2. Head(plan).do = "order"
    BY <1>7, Tuples, StepKinds
  <2> QED
    BY <2>1, <2>2 DEF PlanForm
<1> QED
  BY <1>1, <1>2, <1>3, <1>4, <1>5, <1>6, <1>7 DEF TreeInv, Planned

LEMMA FormOf ==
  ASSUME TreeInv
  PROVE  /\ Todo("mkdir") => MkdirForm
         /\ Todo("mark") => MarkForm
         /\ Todo("order") => OrderForm
         /\ Todo("remove") => RemoveForm
         /\ Todo("rename") => RenameForm
  BY PlanForms DEF Todo, PlanForm

\* A file operation leaves the calls, their number and what was cut off alone.
LEMMA OpKeeps ==
  ASSUME TreeInv, TreeOK(place', mark', name'), order' \in [Dirs -> Seq(Slugs)],
         Planned(plan', place', mark', name'), UNCHANGED <<ops, torn>>
  PROVE  TreeInv'
  BY DEF TreeInv

LEMMA MkdirActs ==
  ASSUME TreeInv, Mkdir
  PROVE  TreeInv'
<1>1. PICK n \in Nodes, d \in Dirs, s \in Slugs, k \in Kinds, t \in Names, l \in ListsOfSlugs :
        /\ Head(plan) = MkdirStep(n, d, s)
        /\ Tail(plan) = <<MarkStep(n, k, t), OrderStep(d, l)>>
        /\ Creating(place, mark, name, n, d, s, t, l)
  BY FormOf DEF MkdirForm, Mkdir
<1>2. Head(plan).node = n /\ Head(plan).spot = Spot(d, s)
  BY <1>1 DEF MkdirStep
<1>3. /\ place' = [place EXCEPT ![n] = Spot(d, s)] /\ plan' = Tail(plan)
      /\ UNCHANGED <<mark, name, order, ops, torn>>
  BY <1>2 DEF Mkdir
<1>4. TreeOK(place', mark, name) /\ Marking(place', mark, name, n, d, s, t, l)
  BY <1>1, <1>3, MkdirKeeps DEF TreeInv
<1>5. Planned(plan', place', mark, name)
  BY <1>1, <1>3, <1>4 DEF Planned
<1>6. order' \in [Dirs -> Seq(Slugs)]
  BY <1>3 DEF TreeInv
<1> QED
  BY <1>3, <1>4, <1>5, <1>6, OpKeeps

LEMMA MarkActs ==
  ASSUME TreeInv, Mark
  PROVE  TreeInv'
<1>0. order' \in [Dirs -> Seq(Slugs)]
  <2>1. order \in [Dirs -> Seq(Slugs)] /\ <<>> \in Seq(Slugs)
    BY DEF TreeInv
  <2>2. order' = order \/ \E n : order' = [order EXCEPT ![n] = <<>>]
    BY DEF Mark
  <2> QED
    BY <2>1, <2>2
<1>1. CASE \E n \in Nodes, d \in Dirs, s \in Slugs, k \in Kinds, t \in Names, l \in ListsOfSlugs :
             /\ Head(plan) = MarkStep(n, k, t)
             /\ Tail(plan) = <<OrderStep(d, l)>>
             /\ Marking(place, mark, name, n, d, s, t, l)
  <2>1. PICK n \in Nodes, d \in Dirs, s \in Slugs, k \in Kinds, t \in Names, l \in ListsOfSlugs :
          /\ Head(plan) = MarkStep(n, k, t)
          /\ Tail(plan) = <<OrderStep(d, l)>>
          /\ Marking(place, mark, name, n, d, s, t, l)
    BY <1>1
  <2>2. Head(plan).node = n /\ Head(plan).kind = k /\ Head(plan).name = t
    BY <2>1 DEF MarkStep
  <2>3. /\ mark' = [mark EXCEPT ![n] = k] /\ name' = [name EXCEPT ![n] = t]
        /\ plan' = Tail(plan) /\ UNCHANGED <<place, ops, torn>>
    BY <2>2 DEF Mark
  <2>4. TreeOK(place, mark', name') /\ Listing(place, mark', d, l)
    BY <2>1, <2>3, MarkKeeps DEF TreeInv
  <2>5. Planned(plan', place, mark', name')
    BY <2>1, <2>3, <2>4 DEF Planned
  <2> QED
    BY <1>0, <2>3, <2>4, <2>5, OpKeeps
<1>2. CASE \E n \in Nodes, k \in Kinds, t \in Names :
             /\ Head(plan) = MarkStep(n, k, t)
             /\ Tail(plan) = <<>>
             /\ Naming(place, mark, name, n, t)
  <2>1. PICK n \in Nodes, k \in Kinds, t \in Names :
          /\ Head(plan) = MarkStep(n, k, t)
          /\ Tail(plan) = <<>>
          /\ Naming(place, mark, name, n, t)
    BY <1>2
  <2>2. Head(plan).node = n /\ Head(plan).kind = k /\ Head(plan).name = t
    BY <2>1 DEF MarkStep
  <2>3. /\ mark' = [mark EXCEPT ![n] = k] /\ name' = [name EXCEPT ![n] = t]
        /\ plan' = Tail(plan) /\ UNCHANGED <<place, ops, torn>>
    BY <2>2 DEF Mark
  <2>4. TreeOK(place, mark', name')
    BY <2>1, <2>3, NameKeeps DEF TreeInv
  <2>5. Planned(plan', place, mark', name')
    BY <2>1, <2>3 DEF Planned
  <2> QED
    BY <1>0, <2>3, <2>4, <2>5, OpKeeps
<1> QED
  BY <1>1, <1>2, FormOf DEF MarkForm, Mark

LEMMA WriteOrderActs ==
  ASSUME TreeInv, WriteOrder
  PROVE  TreeInv'
<1>1. PICK d \in Dirs, l \in ListsOfSlugs :
        /\ Head(plan) = OrderStep(d, l)
        /\ \/ Tail(plan) = <<>>
           \/ \E e \in Dirs, r \in ListsOfSlugs :
                Tail(plan) = <<OrderStep(e, r)>> /\ Listing(place, mark, e, r)
  BY FormOf DEF OrderForm, WriteOrder, Moved, Listing
<1>2. Head(plan).dir = d /\ Head(plan).slugs = l
  BY <1>1 DEF OrderStep
<1>3. /\ order' = [order EXCEPT ![d] = l] /\ plan' = Tail(plan)
      /\ UNCHANGED <<place, mark, name, ops, torn>>
  BY <1>2 DEF WriteOrder
<1>4. order' \in [Dirs -> Seq(Slugs)]
  BY <1>3 DEF TreeInv, ListsOfSlugs
<1>5. Planned(plan', place, mark, name)
  BY <1>1, <1>3 DEF Planned
<1> QED
  BY <1>3, <1>4, <1>5, OpKeeps DEF TreeInv

LEMMA RenameDirActs ==
  ASSUME TreeInv, RenameDir
  PROVE  TreeInv'
<1>1. PICK n \in Nodes, d \in Dirs, s \in Slugs, from \in Dirs, l \in ListsOfSlugs, r \in ListsOfSlugs :
        /\ Head(plan) = RenameStep(n, d, s)
        /\ Tail(plan) = <<OrderStep(from, l), OrderStep(d, r)>>
        /\ Moving(place, mark, name, n, d, s, from, l, r)
  BY FormOf DEF RenameForm, RenameDir
<1>2. Head(plan).node = n /\ Head(plan).spot = Spot(d, s)
  BY <1>1 DEF RenameStep
<1> DEFINE full == \E m \in Nodes : place[m] = Spot(d, s)
<1>3. UNCHANGED <<mark, name, order, ops, torn>>
  BY DEF RenameDir
<1>4. order' \in [Dirs -> Seq(Slugs)]
  BY <1>3 DEF TreeInv
<1>5. CASE full
  <2>1. plan' = <<>> /\ UNCHANGED place
    BY <1>2, <1>5 DEF RenameDir
  <2>2. Planned(plan', place', mark, name)
    BY <2>1 DEF Planned
  <2> QED
    BY <1>3, <1>4, <2>1, <2>2, OpKeeps DEF TreeInv
<1>6. CASE ~ full
  <2>1. plan' = Tail(plan)
    BY <1>2, <1>6 DEF RenameDir
  <2>2. place' = RenameTo(place, n, Spot(d, s))
    BY <1>1, <1>2, <1>6 DEF RenameDir, RenameTo, TreeInv, TreeOK, TreeTyped, PlacesOf
  <2>3. \A m \in Nodes : place[m] = Spot(d, s) => \A k \in Nodes : place[k] # None => place[k].parent # m
    BY <1>6
  <2>4. TreeOK(place', mark, name) /\ Moved(place', mark, from, l, d, r)
    BY <1>1, <2>2, <2>3, RenameKeeps DEF TreeInv
  <2>5. Planned(plan', place', mark, name)
    BY <1>1, <2>1, <2>4 DEF Planned
  <2> QED
    BY <1>3, <1>4, <2>4, <2>5, OpKeeps
<1> QED
  BY <1>5, <1>6

LEMMA RemoveMarkActs ==
  ASSUME TreeInv, RemoveMark
  PROVE  TreeInv'
<1>1. PICK n \in Nodes, d \in Dirs, l \in ListsOfSlugs :
        /\ plan = <<RemoveStep(n), OrderStep(d, l)>>
        /\ Head(plan) = RemoveStep(n)
        /\ Removing(place, mark, n, d, l)
  BY FormOf DEF RemoveForm, RemoveMark
<1>2. Head(plan).node = n
  BY <1>1 DEF RemoveStep
<1>3. PICK x \in Nodes :
        /\ place[x] # None /\ n \in Chain(place, x)
        /\ mark' = [mark EXCEPT ![x] = "none"] /\ name' = [name EXCEPT ![x] = None]
        /\ order' = [order EXCEPT ![x] = <<>>]
  BY <1>2, Bridge DEF RemoveMark
<1>4. UNCHANGED <<place, plan, ops, torn>>
  BY DEF RemoveMark
<1>5. TreeOK(place, mark', name') /\ Removing(place, mark', n, d, l)
  BY <1>1, <1>3, RemoveMarkKeeps DEF TreeInv
<1>6. Planned(plan', place, mark', name')
  BY <1>1, <1>4, <1>5 DEF Planned
<1>7. order' \in [Dirs -> Seq(Slugs)]
  <2>1. order \in [Dirs -> Seq(Slugs)] /\ <<>> \in Seq(Slugs)
    BY DEF TreeInv
  <2> QED
    BY <1>3, <2>1
<1> QED
  BY <1>4, <1>5, <1>6, <1>7, OpKeeps

LEMMA RemoveDirActs ==
  ASSUME TreeInv, RemoveDir
  PROVE  TreeInv'
<1>1. PICK n \in Nodes, d \in Dirs, l \in ListsOfSlugs :
        /\ plan = <<RemoveStep(n), OrderStep(d, l)>>
        /\ Head(plan) = RemoveStep(n)
        /\ Tail(plan) = <<OrderStep(d, l)>>
        /\ Removing(place, mark, n, d, l)
  BY FormOf DEF RemoveForm, RemoveDir
<1>2. Head(plan).node = n
  BY <1>1 DEF RemoveStep
<1>3. PICK x \in Nodes :
        /\ mark[x] = "none"
        /\ \A k \in Nodes : place[k] # None => place[k].parent # x
        /\ place' = [place EXCEPT ![x] = None]
        /\ plan' = IF x = n THEN Tail(plan) ELSE plan
  BY <1>2 DEF RemoveDir
<1>4. UNCHANGED <<mark, name, order, ops, torn>>
  BY DEF RemoveDir
<1>5. /\ TreeOK(place', mark, name)
      /\ x # n => Removing(place', mark, n, d, l)
      /\ x = n => Listing(place', mark, d, l)
  BY <1>1, <1>3, RemoveDirKeeps DEF TreeInv
<1>6. Planned(plan', place', mark, name)
  BY <1>1, <1>3, <1>5 DEF Planned
<1>7. order' \in [Dirs -> Seq(Slugs)]
  BY <1>4 DEF TreeInv
<1> QED
  BY <1>4, <1>5, <1>6, <1>7, OpKeeps

LEMMA CutActs ==
  ASSUME TreeInv, Cut
  PROVE  TreeInv'
<1>1. plan' = <<>> /\ UNCHANGED <<place, mark, name, order, ops>> /\ torn' \in BOOLEAN
  BY DEF Cut, Todo, TreeInv
<1>2. Planned(plan', place', mark', name')
  BY <1>1 DEF Planned
<1> QED
  BY <1>1, <1>2 DEF TreeInv

LEMMA TreeInit ==
  ASSUME Init
  PROVE  TreeInv
<1>1. PICK tree \in Trees : place = tree.place /\ mark = tree.mark /\ name = tree.name
  BY DEF Init
<1>2. IsTree(tree)
  BY TreesAssumption
<1>3. TreeTyped(place, mark, name)
  BY <1>1, <1>2 DEF IsTree, TreeTyped, PlacesOf
<1>4. Apart(place) /\ Different(place, mark, name)
  BY <1>1, <1>2 DEF IsTree, Apart, Different, Kin
<1>5. Forest(place) /\ \A n \in Nodes : place[n] = None => mark[n] = "none"
  BY <1>1, <1>2 DEF IsTree, Forest
<1>6. order \in [Dirs -> Seq(Slugs)]
  <2>1. PICK drift \in Drifts : order = [d \in Dirs |-> IF d = Root THEN drift ELSE <<>>]
    BY DEF Init
  <2>2. drift \in Seq(Slugs) /\ <<>> \in Seq(Slugs)
    BY DriftsAssumption
  <2> QED
    BY <2>1, <2>2
<1>7. Planned(plan, place, mark, name) /\ ops \in 0..MaxOps /\ torn \in BOOLEAN
  <2>1. plan = <<>> /\ ops = 0 /\ torn \in BOOLEAN
    BY DEF Init
  <2>2. 0 \in 0..MaxOps
    BY NodesAssumption
  <2> QED
    BY <2>1, <2>2 DEF Planned
<1> QED
  BY <1>3, <1>4, <1>5, <1>6, <1>7 DEF TreeInv, TreeOK

LEMMA TreeStep ==
  ASSUME TreeInv, [Next]_vars
  PROVE  TreeInv'
<1>1. CASE Handler
  BY <1>1, CreateKeeps, RenameItemKeeps, DeleteKeeps, MoveKeeps DEF Handler
<1>2. CASE FileOp
  BY <1>2, MkdirActs, MarkActs, WriteOrderActs, RenameDirActs, RemoveMarkActs, RemoveDirActs DEF FileOp
<1>3. CASE Cut
  BY <1>3, CutActs
<1>4. CASE UNCHANGED vars
  BY <1>4 DEF vars, TreeInv
<1> QED
  BY <1>1, <1>2, <1>3, <1>4 DEF Next

LEMMA TreeAlways == Spec => []TreeInv
<1>1. Init => TreeInv
  BY TreeInit
<1>2. TreeInv /\ [Next]_vars => TreeInv'
  BY TreeStep
<1> QED
  BY <1>1, <1>2, PTL DEF Spec

-----------------------------------------------------------------------------
(* Lists in an order, without one of their elements. *)

\* s without its element at p.
LEMMA ListsRemove ==
  ASSUME NEW T, NEW s, Lists(s, T), NEW p \in 1..Len(s), NEW Q, Sorted(s, Q)
  PROVE  Lists(RemoveAt(s, p), T \ {s[p]}) /\ Sorted(RemoveAt(s, p), Q)
<1> DEFINE r == RemoveAt(s, p)
           g == [k \in 1..(Len(s) - 1) |-> IF k < p THEN s[k] ELSE s[k + 1]]
<1>1. s \in Seq(T) /\ Len(s) \in Nat /\ \A k \in 1..Len(s) : s[k] \in T
  BY DEF Lists
<1>2. r = g
  <2> DEFINE a == SubSeq(s, 1, p - 1)
             b == SubSeq(s, p + 1, Len(s))
  <2>1. a \in Seq(T) /\ Len(a) = p - 1 /\ \A k \in 1..(p - 1) : a[k] = s[k]
    BY <1>1
  <2>2. b \in Seq(T) /\ Len(b) = Len(s) - p /\ \A k \in 1..(Len(s) - p) : b[k] = s[p + k]
    BY <1>1
  <2>3. r = a \o b
    BY DEF RemoveAt
  <2> HIDE DEF a, b, r
  <2>4. r \in Seq(T) /\ Len(r) = Len(s) - 1
    <3>1. a \in Seq(T) /\ b \in Seq(T)
      BY <2>1, <2>2
    <3>2. a \o b \in Seq(T) /\ Len(a \o b) = Len(a) + Len(b)
      BY <3>1, ConcatProperties
    <3>3. Len(a) + Len(b) = Len(s) - 1
      BY <1>1, <2>1, <2>2
    <3> QED
      BY <2>3, <3>2, <3>3
  <2>5. ASSUME NEW k \in 1..(Len(s) - 1) PROVE r[k] = g[k]
    <3>1. CASE k < p
      <4>1. r[k] = a[k]
        BY <1>1, <2>1, <2>2, <2>3, <3>1
      <4>2. k \in 1..(p - 1)
        BY <1>1, <3>1
      <4> QED
        BY <2>1, <3>1, <4>1, <4>2
    <3>2. CASE ~(k < p)
      <4>1. r[k] = b[k - (p - 1)]
        BY <1>1, <2>1, <2>2, <2>3, <3>2
      <4>2. k - (p - 1) \in 1..(Len(s) - p) /\ p + (k - (p - 1)) = k + 1
        BY <1>1, <3>2
      <4> QED
        BY <2>2, <3>2, <4>1, <4>2
    <3> QED
      BY <3>1, <3>2
  <2>6. g \in Seq(T) /\ Len(g) = Len(s) - 1
    BY <1>1
  <2> HIDE DEF g
  <2> QED
    BY <1>1, <2>4, <2>5, <2>6
<1>3. Len(g) = Len(s) - 1 /\ DOMAIN g = 1..(Len(s) - 1)
  BY <1>1
<1>4. \A k \in 1..(Len(s) - 1) : \E a \in 1..Len(s) \ {p} :
         g[k] = s[a] /\ a = IF k < p THEN k ELSE k + 1
  <2> SUFFICES ASSUME NEW k \in 1..(Len(s) - 1)
               PROVE  \E a \in 1..Len(s) \ {p} : g[k] = s[a] /\ a = IF k < p THEN k ELSE k + 1
    OBVIOUS
  <2>1. CASE k < p
    BY <1>1, <2>1
  <2>2. CASE ~(k < p)
    <3>1. k + 1 \in 1..Len(s) /\ k + 1 # p
      BY <1>1, <2>2
    <3> QED
      BY <2>2, <3>1
  <2> QED
    BY <2>1, <2>2
<1>5. g \in Seq(T \ {s[p]})
  <2>1. ASSUME NEW k \in 1..(Len(s) - 1) PROVE g[k] \in T \ {s[p]}
    <3> HIDE DEF g
    <3>1. PICK a \in 1..Len(s) \ {p} : g[k] = s[a]
      BY <1>4
    <3>2. s[a] \in T /\ s[a] # s[p]
      BY <1>1 DEF Lists
    <3> QED
      BY <3>1, <3>2
  <2> QED
    BY <1>1, <2>1
<1>6. ASSUME NEW x \in T \ {s[p]} PROVE \E k \in 1..(Len(s) - 1) : g[k] = x
  <2>1. PICK a \in 1..Len(s) : s[a] = x
    BY DEF Lists
  <2>2. a # p
    BY <2>1
  <2>3. CASE a < p
    BY <1>1, <2>1, <2>3
  <2>4. CASE a > p
    <3>1. a - 1 \in 1..(Len(s) - 1) /\ ~(a - 1 < p) /\ (a - 1) + 1 = a
      BY <1>1, <2>4
    <3> QED
      BY <2>1, <3>1
  <2> QED
    BY <2>2, <2>3, <2>4
<1> HIDE DEF g
<1>7. \A i, j \in 1..(Len(s) - 1) : g[i] = g[j] => i = j
  <2> SUFFICES ASSUME NEW i \in 1..(Len(s) - 1), NEW j \in 1..(Len(s) - 1), g[i] = g[j] PROVE i = j
    OBVIOUS
  <2>1. PICK a \in 1..Len(s) : g[i] = s[a] /\ a = IF i < p THEN i ELSE i + 1
    BY <1>4
  <2>2. PICK b \in 1..Len(s) : g[j] = s[b] /\ b = IF j < p THEN j ELSE j + 1
    BY <1>4
  <2>3. a = b
    BY <2>1, <2>2 DEF Lists
  <2> QED
    BY <1>1, <2>1, <2>2, <2>3
<1>8. ASSUME NEW i \in 1..(Len(s) - 1), NEW j \in 1..(Len(s) - 1), i < j PROVE <<g[i], g[j]>> \in Q
  <2>1. PICK a \in 1..Len(s) : g[i] = s[a] /\ a = IF i < p THEN i ELSE i + 1
    BY <1>4
  <2>2. PICK b \in 1..Len(s) : g[j] = s[b] /\ b = IF j < p THEN j ELSE j + 1
    BY <1>4
  <2>3. a < b
    BY <1>1, <1>8, <2>1, <2>2
  <2> QED
    BY <2>1, <2>2, <2>3 DEF Sorted
<1>9. Lists(g, T \ {s[p]})
  BY <1>3, <1>5, <1>6, <1>7 DEF Lists
<1>10. Sorted(g, Q)
  BY <1>3, <1>8 DEF Sorted
<1> QED
  BY <1>2, <1>9, <1>10

LEMMA ListsRemoveFirst ==
  ASSUME NEW T, NEW s, Lists(s, T), NEW x, NEW Q, Sorted(s, Q)
  PROVE  /\ Lists(RemoveFirst(s, x), T \ {x}) /\ Sorted(RemoveFirst(s, x), Q)
         /\ x \notin T => RemoveFirst(s, x) = s
<1>1. s \in Seq(T) /\ Len(s) \in Nat
  BY DEF Lists
<1>2. CASE x \in T
  <2> DEFINE I == {i \in 1..Len(s) : s[i] = x}
  <2>1. I # {} /\ I \in SUBSET Nat
    <3>1. PICK i \in 1..Len(s) : s[i] = x
      BY <1>2 DEF Lists
    <3>2. i \in I
      BY <3>1
    <3> QED
      BY <1>1, <3>2
  <2>2. Min(I) \in I
    <3> HIDE DEF I
    <3> QED
      BY <2>1, LeastNumber DEF Min
  <2>3. SelectInSeq(s, LAMBDA y : y = x) = Min(I)
    BY <2>1 DEF SelectInSeq
  <2>4. Min(I) \in 1..Len(s) /\ s[Min(I)] = x
    BY <2>2
  <2>5. RemoveFirst(s, x) = RemoveAt(s, Min(I))
    <3>1. \E i \in 1..Len(s) : s[i] = x
      BY <1>2 DEF Lists
    <3> HIDE DEF I
    <3> QED
      BY <2>3, <3>1 DEF RemoveFirst
  <2> HIDE DEF I
  <2>6. Lists(RemoveAt(s, Min(I)), T \ {x}) /\ Sorted(RemoveAt(s, Min(I)), Q)
    BY <2>4, ListsRemove
  <2> QED
    BY <1>2, <2>5, <2>6
<1>3. CASE x \notin T
  <2>1. ~ \E i \in 1..Len(s) : s[i] = x
    BY <1>1, <1>3
  <2>2. RemoveFirst(s, x) = s
    BY <2>1 DEF RemoveFirst
  <2>3. T \ {x} = T
    BY <1>3
  <2> QED
    BY <2>2, <2>3
<1> QED
  BY <1>2, <1>3

\* There is one way at most to list a set in an order.
Refines(T, R, Q) ==
  \A x, y \in T : /\ <<x, y>> \in R => <<x, y>> \in Q
                  /\ <<x, y>> \in Q => <<y, x>> \notin Q

LEMMA SortedUnique ==
  ASSUME NEW T, NEW R, NEW Q, Refines(T, R, Q),
         NEW s, Lists(s, T), Sorted(s, R), NEW t, Lists(t, T), Sorted(t, Q)
  PROVE  s = t
<1>1. /\ s \in Seq(T) /\ t \in Seq(T) /\ Len(s) \in Nat /\ Len(t) \in Nat
  BY DEF Lists
<1>2. Len(s) = Len(t)
  BY ListsLen
<1> DEFINE fails == {i \in 1..Len(s) : s[i] # t[i]}
<1>3. SUFFICES ASSUME fails # {} PROVE FALSE
  <2>1. \A i \in 1..Len(s) : fails = {} => s[i] = t[i]
    OBVIOUS
  <2> HIDE DEF fails
  <2> QED
    BY <1>1, <1>2, <2>1
<1>4. PICK i \in fails : \A j \in fails : i <= j
  <2>1. fails \in SUBSET Nat
    BY <1>1
  <2> HIDE DEF fails
  <2> QED
    BY <1>3, <2>1, LeastNumber
<1>5. i \in 1..Len(s) /\ s[i] # t[i] /\ s[i] \in T /\ t[i] \in T
  BY <1>1, <1>2
<1>6. \A j \in 1..Len(s) : j < i => s[j] = t[j]
  BY <1>1, <1>4
<1>7. PICK j \in 1..Len(s) : s[j] = t[i]
  BY <1>5 DEF Lists
<1>8. PICK k \in 1..Len(t) : t[k] = s[i]
  BY <1>5 DEF Lists
<1>9. i < j
  <2> SUFFICES ASSUME ~(i < j) PROVE FALSE
    OBVIOUS
  <2>1. CASE j = i
    BY <1>5, <1>7, <2>1
  <2>2. CASE j < i
    <3>1. t[j] = t[i]
      BY <1>6, <1>7, <2>2
    <3>2. j = i
      BY <1>2, <1>5, <1>7, <3>1 DEF Lists
    <3> QED
      BY <1>5, <1>7, <3>2
  <2> QED
    BY <1>1, <1>5, <1>7, <2>1, <2>2
<1>10. i < k
  <2> SUFFICES ASSUME ~(i < k) PROVE FALSE
    OBVIOUS
  <2>1. CASE k = i
    BY <1>5, <1>8, <2>1
  <2>2. CASE k < i
    <3>1. s[k] = s[i]
      BY <1>2, <1>6, <1>8, <2>2
    <3>2. k = i
      BY <1>2, <1>5, <1>8, <3>1 DEF Lists
    <3> QED
      BY <1>5, <1>8, <3>2
  <2> QED
    BY <1>1, <1>2, <1>5, <1>8, <2>1, <2>2
<1>11. <<s[i], t[i]>> \in R
  BY <1>5, <1>7, <1>9 DEF Sorted
<1>12. <<t[i], s[i]>> \in Q
  BY <1>2, <1>5, <1>8, <1>10 DEF Sorted
<1> QED
  BY <1>5, <1>11, <1>12 DEF Refines

\* Two lists of the same things in the same order, but for one of them.
LEMMA SameApart ==
  ASSUME NEW T, NEW V, NEW x, T \ {x} = V \ {x},
         NEW R, NEW Q, Refines(T \ {x}, R, Q),
         NEW s, Lists(s, T), Sorted(s, R), NEW t, Lists(t, V), Sorted(t, Q)
  PROVE  RemoveFirst(s, x) = RemoveFirst(t, x)
<1>1. Lists(RemoveFirst(s, x), T \ {x}) /\ Sorted(RemoveFirst(s, x), R)
  BY ListsRemoveFirst
<1>2. Lists(RemoveFirst(t, x), V \ {x}) /\ Sorted(RemoveFirst(t, x), Q)
  BY ListsRemoveFirst
<1> QED
  BY <1>1, <1>2, SortedUnique

-----------------------------------------------------------------------------
(* The order in which a folder's items are shown. *)

ByNameOf(at, nm, m, n) ==
  nm[m] < nm[n] \/ (nm[m] = nm[n] /\ SlugLess(at[m].slug, at[n].slug))

Has(l, a) == \E i \in DOMAIN l : l[i] = a

\* The list l has a, and has no b before it.
Ahead(l, a, b) == \E i \in DOMAIN l : l[i] = a /\ \A j \in 1..i : l[j] # b

Sooner(l, at, nm, m, n) ==
  \/ Ahead(l, at[m].slug, at[n].slug)
  \/ ~ Has(l, at[m].slug) /\ ~ Has(l, at[n].slug) /\ ByNameOf(at, nm, m, n)

SoonerIn(l, at, mk, nm, d) == {p \in Kin(at, mk, d) \X Kin(at, mk, d) : Sooner(l, at, nm, p[1], p[2])}

LEMMA AheadAsym ==
  ASSUME NEW S, NEW l \in Seq(S), NEW a, NEW b, Ahead(l, a, b)
  PROVE  ~ Ahead(l, b, a) /\ Has(l, a)
<1>1. PICK i \in DOMAIN l : l[i] = a /\ \A j \in 1..i : l[j] # b
  BY DEF Ahead
<1>2. SUFFICES ASSUME NEW k \in DOMAIN l, l[k] = b, \A j \in 1..k : l[j] # a PROVE FALSE
  BY <1>1 DEF Ahead, Has
<1>3. i \in Nat /\ k \in Nat /\ 1 <= i /\ 1 <= k
  OBVIOUS
<1>4. i \in 1..k \/ k \in 1..i
  BY <1>3
<1> QED
  BY <1>1, <1>2, <1>4

LEMMA SoonerAsym ==
  ASSUME NEW at, NEW mk, NEW nm, TreeTyped(at, mk, nm), Apart(at), NEW d \in Dirs,
         NEW l \in Seq(Slugs), NEW m \in Kin(at, mk, d), NEW n \in Kin(at, mk, d),
         Sooner(l, at, nm, m, n)
  PROVE  ~ Sooner(l, at, nm, n, m)
<1> DEFINE a == at[m].slug
           b == at[n].slug
<1>1. a \in Slugs /\ b \in Slugs /\ nm[m] \in Nat /\ nm[n] \in Nat
  BY KinFacts, NamesAssumption
<1>2. a[1] \in Nat /\ a[2] \in Nat /\ b[1] \in Nat /\ b[2] \in Nat
  BY <1>1, SlugPairs
<1>3. ByNameOf(at, nm, m, n) => ~ ByNameOf(at, nm, n, m)
  <2> HIDE DEF a, b
  <2>1. ByNameOf(at, nm, m, n) <=> nm[m] < nm[n] \/ (nm[m] = nm[n] /\ SlugLess(a, b))
    BY DEF ByNameOf, a, b
  <2>2. ByNameOf(at, nm, n, m) <=> nm[n] < nm[m] \/ (nm[n] = nm[m] /\ SlugLess(b, a))
    BY DEF ByNameOf, a, b
  <2> QED
    BY <1>1, <1>2, <2>1, <2>2 DEF SlugLess
<1>4. CASE Ahead(l, a, b)
  BY <1>4, AheadAsym DEF Sooner
<1>5. CASE ~ Has(l, a) /\ ~ Has(l, b) /\ ByNameOf(at, nm, m, n)
  <2>1. ~ Ahead(l, b, a)
    BY <1>5, AheadAsym
  <2> QED
    BY <1>3, <1>5, <2>1 DEF Sooner
<1> QED
  BY <1>4, <1>5 DEF Sooner

\* Listed children come in the order of the list, then the others by name.
LEMMA OrderedSorted ==
  ASSUME Readable, NEW d \in Dirs
  PROVE  Sorted(Ordered(d), SoonerIn(order[d], place, mark, name, d))
<1> DEFINE o == order[d]
           I == First(d)
           q == InOrder(I, <)
           u == Listed(d)
           v == InOrder(Rest(d), ByName)
           Q == SoonerIn(o, place, mark, name, d)
<1>1. o \in Seq(Slugs) /\ Len(o) \in Nat /\ DOMAIN o = 1..Len(o)
  BY DEF Readable, Typed
<1>2. Lists(q, I) /\ Sorted(q, LessThan)
  <2>1. I \in SUBSET (1..Len(o)) /\ I \in SUBSET Nat
    BY <1>1 DEF First
  <2>2. IsFiniteSet(1..Len(o))
    <3> DEFINE l == Len(o)
    <3>1. 1 \in Int /\ l \in Int
      BY <1>1
    <3> HIDE DEF l
    <3>2. IsFiniteSet(1..l)
      BY <3>1, FS_Interval
    <3> QED
      BY <3>2 DEF l
  <2> HIDE DEF I, o
  <2>3. IsFiniteSet(I)
    BY <2>1, <2>2, FS_Subset
  <2> QED
    BY <2>1, <2>3, NumbersInOrder
<1>3. Lists(u, Children(d) \ Rest(d))
  BY ListedLists
<1>4. Rest(d) \in SUBSET Children(d)
  BY DEF Rest
<1>5. Lists(v, Rest(d)) /\ Sorted(v, ByNameIn(Rest(d)))
  BY <1>4, NamesInOrder
<1>6. Children(d) = Kin(place, mark, d)
  BY Bridge
\* What u has comes where the list has its slug first.
<1>7. DOMAIN q = 1..Len(q) /\ Len(q) \in Nat /\ \A k \in 1..Len(q) : q[k] \in I
  <2> HIDE DEF I, q
  <2> QED
    BY <1>2 DEF Lists
<1>8. u = [k \in 1..Len(q) |-> CHOOSE n \in At(d, o[q[k]]) : TRUE]
  BY <1>7 DEF Listed
<1>9. Len(u) = Len(q)
  <2> HIDE DEF q, u
  <2> QED
    BY <1>7, <1>8
<1>10. ASSUME NEW k \in 1..Len(u)
       PROVE  /\ u[k] \in Children(d) /\ q[k] \in I /\ q[k] \in DOMAIN o
              /\ place[u[k]].slug = o[q[k]]
              /\ \A j \in 1..(q[k] - 1) : o[j] # o[q[k]]
  <2>1. q[k] \in I
    BY <1>7, <1>9
  <2>2. At(d, o[q[k]]) # {} /\ q[k] \in DOMAIN o /\ \A j \in 1..(q[k] - 1) : o[j] # o[q[k]]
    <3> HIDE DEF q, o
    <3> QED
      BY <2>1 DEF First, o
  <2>3. u[k] \in At(d, o[q[k]])
    <3>1. u[k] = CHOOSE n \in At(d, o[q[k]]) : TRUE
      <4> HIDE DEF q, u
      <4> QED
        BY <1>8, <1>9
    <3> HIDE DEF u, q, o
    <3> QED
      BY <2>2, <3>1
  <2> HIDE DEF u, q, o, I
  <2> QED
    BY <2>1, <2>2, <2>3 DEF At
<1>11. ASSUME NEW i \in 1..Len(u), NEW j \in 1..Len(u), i < j PROVE <<u[i], u[j]>> \in Q
  <2>1. q[i] < q[j]
    <3> HIDE DEF q, u
    <3> QED
      BY <1>2, <1>9, <1>11 DEF Sorted, LessThan
  <2> HIDE DEF u, q, I, o
  <2>2. \A k \in 1..q[i] : o[k] # o[q[j]]
    <3> SUFFICES ASSUME NEW k \in 1..q[i] PROVE o[k] # o[q[j]]
      OBVIOUS
    <3>1. q[i] \in Nat /\ q[j] \in Nat
      BY <1>1, <1>10
    <3>2. k \in 1..(q[j] - 1)
      BY <2>1, <3>1
    <3> QED
      BY <1>10, <3>2
  <2>3. Ahead(o, place[u[i]].slug, place[u[j]].slug)
    BY <1>10, <2>2 DEF Ahead
  <2> QED
    BY <1>6, <1>10, <2>3 DEF SoonerIn, Sooner
<1>12. ASSUME NEW j \in 1..Len(v) PROVE v[j] \in Children(d) /\ ~ Has(o, place[v[j]].slug)
  <2>1. v[j] \in Rest(d)
    <3> HIDE DEF v
    <3> QED
      BY <1>5 DEF Lists
  <2> HIDE DEF v
  <2> QED
    BY <1>1, <2>1 DEF Rest, Has, Contains
<1>13. ASSUME NEW i \in 1..Len(u), NEW j \in 1..Len(v) PROVE <<u[i], v[j]>> \in Q
  <2> HIDE DEF u, v, q, I, o
  <2>1. q[i] \in DOMAIN o /\ 1..q[i] \subseteq DOMAIN o
    BY <1>1, <1>10
  <2>2. Ahead(o, place[u[i]].slug, place[v[j]].slug)
    BY <1>10, <1>12, <2>1 DEF Ahead, Has
  <2> QED
    BY <1>6, <1>10, <1>12, <2>2 DEF SoonerIn, Sooner
<1>14. ASSUME NEW i \in 1..Len(v), NEW j \in 1..Len(v), i < j PROVE <<v[i], v[j]>> \in Q
  <2> HIDE DEF v, o
  <2>1. ByName(v[i], v[j])
    BY <1>5, <1>14 DEF Sorted, ByNameIn
  <2> QED
    BY <1>6, <1>12, <2>1 DEF SoonerIn, Sooner, ByName, ByNameOf
<1>15. Ordered(d) = u \o v
  BY OrderedParts
<1>16. u \in Seq(Children(d)) /\ v \in Seq(Children(d))
  <2>1. Children(d) \ Rest(d) \subseteq Children(d) /\ Rest(d) \subseteq Children(d)
    BY <1>4
  <2> HIDE DEF u, v
  <2> QED
    BY <1>3, <1>5, <2>1, SeqMonotonic DEF Lists
<1> HIDE DEF u, v, q, I, o, Q
<1>17. /\ Len(u) \in Nat /\ Len(v) \in Nat /\ Len(u \o v) = Len(u) + Len(v)
       /\ \A i \in 1..(Len(u) + Len(v)) : (u \o v)[i] = IF i <= Len(u) THEN u[i] ELSE v[i - Len(u)]
  BY <1>16, ConcatProperties
<1>18. ASSUME NEW i \in 1..Len(u \o v), NEW j \in 1..Len(u \o v), i < j
       PROVE  <<(u \o v)[i], (u \o v)[j]>> \in Q
  <2>1. CASE j <= Len(u)
    <3>1. i \in 1..Len(u) /\ j \in 1..Len(u) /\ (u \o v)[i] = u[i] /\ (u \o v)[j] = u[j]
      BY <1>17, <1>18, <2>1
    <3> QED
      BY <1>11, <1>18, <3>1
  <2>2. CASE i <= Len(u) /\ ~(j <= Len(u))
    <3>1. i \in 1..Len(u) /\ j - Len(u) \in 1..Len(v) /\ (u \o v)[i] = u[i] /\ (u \o v)[j] = v[j - Len(u)]
      BY <1>17, <1>18, <2>2
    <3> QED
      BY <1>13, <3>1
  <2>3. CASE ~(i <= Len(u))
    <3>1. /\ i - Len(u) \in 1..Len(v) /\ j - Len(u) \in 1..Len(v) /\ i - Len(u) < j - Len(u)
          /\ (u \o v)[i] = v[i - Len(u)] /\ (u \o v)[j] = v[j - Len(u)]
      BY <1>17, <1>18, <2>3
    <3> QED
      BY <1>14, <3>1
  <2> QED
    BY <1>17, <1>18, <2>1, <2>2, <2>3
<1> QED
  BY <1>15, <1>18 DEF Sorted, Q, o

\* The list that is read keeps the order that is shown.
LEMMA ReconciledAhead ==
  ASSUME Readable, NEW d \in Dirs, NEW m \in Children(d), NEW n \in Children(d),
         Sooner(order[d], place, name, m, n)
  PROVE  Ahead(Reconciled(d), place[m].slug, place[n].slug)
<1> DEFINE q == Ordered(d)
           o == order[d]
<1>1. Lists(q, Children(d)) /\ Sorted(q, SoonerIn(o, place, mark, name, d))
  BY OrderedLists, OrderedSorted
<1>2. TreeTyped(place, mark, name) /\ Apart(place) /\ o \in Seq(Slugs)
  BY DEF Readable, Typed, TreeTyped
<1>3. m \in Kin(place, mark, d) /\ n \in Kin(place, mark, d)
  BY Bridge
<1>4. ~ Sooner(o, place, name, n, m)
  BY <1>2, <1>3, SoonerAsym
<1>5. m # n
  BY <1>4
<1> HIDE DEF q, o
<1>6. q \in Seq(Children(d)) /\ Len(q) \in Nat /\ DOMAIN q = 1..Len(q)
  BY <1>1 DEF Lists
<1>7. PICK a \in 1..Len(q) : q[a] = m
  BY <1>1 DEF Lists
<1>8. PICK b \in 1..Len(q) : q[b] = n
  BY <1>1 DEF Lists
<1>9. a < b
  <2> SUFFICES ASSUME ~(a < b) PROVE FALSE
    OBVIOUS
  <2>1. a # b
    BY <1>5, <1>7, <1>8
  <2>2. b < a
    BY <1>6, <2>1
  <2>3. <<n, m>> \in SoonerIn(o, place, mark, name, d)
    BY <1>1, <1>7, <1>8, <2>2 DEF Sorted
  <2>4. Sooner(o, place, name, n, m)
    BY <2>3 DEF SoonerIn
  <2> QED
    BY <1>4, <2>4
<1>10. Reconciled(d) = [i \in 1..Len(q) |-> place[q[i]].slug]
  BY <1>6 DEF Reconciled, q
<1>11. ASSUME NEW j \in 1..a PROVE Reconciled(d)[j] # place[n].slug
  <2>1. j \in 1..Len(q) /\ j # b
    BY <1>6, <1>9
  <2>2. q[j] # n /\ q[j] \in Children(d)
    BY <1>1, <1>6, <1>8, <2>1 DEF Lists
  <2>3. Reconciled(d)[j] = place[q[j]].slug
    BY <1>10, <2>1
  <2> QED
    BY <2>2, <2>3, ChildFacts
<1>12. a \in DOMAIN Reconciled(d) /\ Reconciled(d)[a] = place[m].slug
  BY <1>7, <1>10
<1> QED
  BY <1>11, <1>12 DEF Ahead

LEMMA AheadAppend ==
  ASSUME NEW T, NEW l \in Seq(T), NEW x, NEW a, NEW b, Ahead(l, a, b)
  PROVE  Ahead(Append(l, x), a, b)
<1>1. PICK i \in DOMAIN l : l[i] = a /\ \A j \in 1..i : l[j] # b
  BY DEF Ahead
<1>2. i \in DOMAIN Append(l, x) /\ i \in 1..Len(l) /\ Len(l) \in Nat
  OBVIOUS
<1>3. ASSUME NEW j \in 1..i PROVE Append(l, x)[j] = l[j]
  <2>1. j \in 1..Len(l)
    BY <1>2
  <2> QED
    BY <2>1
<1>4. i \in 1..i
  BY <1>2
<1> QED
  BY <1>1, <1>2, <1>3, <1>4 DEF Ahead

LEMMA AheadInsert ==
  ASSUME NEW T, NEW l \in Seq(T), NEW p \in 1..Len(l), NEW x, NEW a, NEW b, x # b, Ahead(l, a, b)
  PROVE  Ahead(InsertAt(l, p, x), a, b)
<1> DEFINE V == T \cup {x}
           u == SubSeq(l, 1, p - 1)
           v == SubSeq(l, p, Len(l))
           w == u \o <<x>>
           r == w \o v
<1>1. PICK i \in DOMAIN l : l[i] = a /\ \A j \in 1..i : l[j] # b
  BY DEF Ahead
<1>2. Len(l) \in Nat /\ i \in 1..Len(l)
  OBVIOUS
<1>3. u \in Seq(V) /\ Len(u) = p - 1 /\ \A k \in 1..(p - 1) : u[k] = l[k]
  <2>1. u \in Seq(T) /\ Len(u) = p - 1 /\ \A k \in 1..(p - 1) : u[k] = l[k]
    BY <1>2
  <2> HIDE DEF u
  <2> QED
    BY <2>1, SeqMonotonic
<1>4. v \in Seq(V) /\ Len(v) = Len(l) - p + 1 /\ \A k \in 1..(Len(l) - p + 1) : v[k] = l[p + k - 1]
  <2>1. v \in Seq(T) /\ Len(v) = Len(l) - p + 1 /\ \A k \in 1..(Len(l) - p + 1) : v[k] = l[p + k - 1]
    BY <1>2
  <2> HIDE DEF v
  <2> QED
    BY <2>1, SeqMonotonic
<1>5. <<x>> \in Seq(V) /\ Len(<<x>>) = 1 /\ <<x>>[1] = x
  OBVIOUS
<1> HIDE DEF u, v, V
<1>6. /\ w \in Seq(V) /\ Len(w) = p
      /\ \A k \in 1..p : w[k] = IF k <= p - 1 THEN u[k] ELSE x
  <2>1. w \in Seq(V) /\ Len(w) = Len(u) + 1
    BY <1>3, <1>5, ConcatProperties
  <2>2. \A k \in 1..(Len(u) + 1) : w[k] = IF k <= Len(u) THEN u[k] ELSE <<x>>[k - Len(u)]
    BY <1>3, <1>5, ConcatProperties
  <2>3. ASSUME NEW k \in 1..p PROVE w[k] = IF k <= p - 1 THEN u[k] ELSE x
    <3>1. CASE k <= p - 1
      BY <1>3, <2>2, <3>1
    <3>2. CASE ~(k <= p - 1)
      <4>1. k - Len(u) = 1
        BY <1>3, <3>2
      <4> QED
        BY <1>3, <1>5, <2>2, <3>2, <4>1
    <3> QED
      BY <3>1, <3>2
  <2> QED
    BY <1>3, <2>1, <2>3
<1> HIDE DEF w
<1>7. /\ r \in Seq(V) /\ Len(r) = Len(l) + 1
      /\ \A k \in 1..(Len(l) + 1) : r[k] = IF k <= p THEN w[k] ELSE v[k - p]
  <2>1. r \in Seq(V) /\ Len(r) = Len(w) + Len(v)
    BY <1>4, <1>6, ConcatProperties
  <2>2. \A k \in 1..(Len(w) + Len(v)) : r[k] = IF k <= Len(w) THEN w[k] ELSE v[k - Len(w)]
    BY <1>4, <1>6, ConcatProperties
  <2>3. Len(w) = p /\ Len(w) + Len(v) = Len(l) + 1
    BY <1>2, <1>4, <1>6
  <2> QED
    BY <2>1, <2>2, <2>3
<1> HIDE DEF r
<1>8. ASSUME NEW k \in 1..(Len(l) + 1)
      PROVE  \/ k < p /\ r[k] = l[k]
             \/ k = p /\ r[k] = x
             \/ k > p /\ r[k] = l[k - 1]
  <2>1. CASE k < p
    BY <1>2, <1>3, <1>6, <1>7, <2>1
  <2>2. CASE k = p
    BY <1>2, <1>6, <1>7, <2>2
  <2>3. CASE k > p
    <3>1. k - p \in 1..(Len(l) - p + 1) /\ p + (k - p) - 1 = k - 1
      BY <1>2, <2>3
    <3>2. r[k] = v[k - p]
      BY <1>2, <1>7, <2>3
    <3> QED
      BY <1>4, <2>3, <3>1, <3>2
  <2> QED
    BY <2>1, <2>2, <2>3
<1>9. InsertAt(l, p, x) = r
  BY DEF InsertAt, r, w, u, v
<1>10. \E k \in 1..(Len(l) + 1) : r[k] = a /\ \A j \in 1..k : r[j] # b
  <2>1. CASE i < p
    <3>1. i \in 1..(Len(l) + 1) /\ r[i] = l[i]
      BY <1>2, <1>8, <2>1
    <3>2. ASSUME NEW j \in 1..i PROVE r[j] # b
      <4>1. j \in 1..(Len(l) + 1) /\ j < p
        BY <1>2, <2>1
      <4> QED
        BY <1>1, <1>8, <4>1
    <3> QED
      BY <1>1, <3>1, <3>2
  <2>2. CASE ~(i < p)
    <3>1. i + 1 \in 1..(Len(l) + 1) /\ i + 1 > p /\ (i + 1) - 1 = i
      BY <1>2, <2>2
    <3>2. r[i + 1] = l[i]
      BY <1>8, <3>1
    <3>3. ASSUME NEW j \in 1..(i + 1) PROVE r[j] # b
      <4>1. j \in 1..(Len(l) + 1)
        BY <1>2
      <4>2. CASE j < p
        <5>1. j \in 1..i
          BY <1>2, <2>2, <4>2
        <5> QED
          BY <1>1, <1>8, <4>1, <4>2, <5>1
      <4>3. CASE j = p
        BY <1>8, <4>1, <4>3
      <4>4. CASE j > p
        <5>1. j - 1 \in 1..i
          BY <1>2, <4>4
        <5> QED
          BY <1>1, <1>8, <4>1, <4>4, <5>1
      <4> QED
        BY <4>2, <4>3, <4>4
    <3> QED
      BY <1>1, <3>1, <3>2, <3>3
  <2> QED
    BY <2>1, <2>2
<1>11. DOMAIN r = 1..(Len(l) + 1)
  BY <1>7
<1> QED
  BY <1>9, <1>10, <1>11 DEF Ahead

LEMMA AheadInsertSlug ==
  ASSUME NEW T, NEW l \in Seq(T), NEW x, NEW a, NEW b, x # b, Ahead(l, a, b),
         NEW d, NEW n, NEW before
  PROVE  Ahead(InsertSlug(l, d, n, x, before), a, b)
<1>1. Len(l) \in Nat
  OBVIOUS
<1>2. CASE before # None /\ Contains(l, place[before].slug)
  <2> DEFINE I == {i \in 1..Len(l) : l[i] = place[before].slug}
  <2>1. I # {} /\ I \in SUBSET Nat
    BY <1>1, <1>2 DEF Contains
  <2>2. Min(I) \in I
    <3> HIDE DEF I
    <3> QED
      BY <2>1, LeastNumber DEF Min
  <2>3. SelectInSeq(l, LAMBDA y : y = place[before].slug) = Min(I)
    BY <2>1 DEF SelectInSeq
  <2>4. Min(I) \in 1..Len(l)
    BY <2>2
  <2>5. InsertSlug(l, d, n, x, before) = InsertAt(l, Min(I), x)
    <3> HIDE DEF I
    <3> QED
      BY <1>2, <2>3 DEF InsertSlug
  <2> HIDE DEF I
  <2> QED
    BY <2>4, <2>5, AheadInsert
<1>3. CASE ~(before # None /\ Contains(l, place[before].slug))
  <2>1. InsertSlug(l, d, n, x, before) = Append(l, x)
    BY <1>3 DEF InsertSlug
  <2> QED
    BY <2>1, AheadAppend
<1> QED
  BY <1>2, <1>3

LEMMA AheadWithout ==
  ASSUME NEW T, NEW l \in Seq(T), NEW x, NEW a, NEW b, x # a, Ahead(l, a, b)
  PROVE  Ahead(Without(l, x), a, b)
<1> DEFINE left == {i \in DOMAIN l : l[i] # x}
           q == InOrder(left, <)
           r == [k \in 1..Cardinality(left) |-> l[q[k]]]
<1>1. Len(l) \in Nat /\ DOMAIN l = 1..Len(l)
  OBVIOUS
<1>2. left \in SUBSET Nat /\ IsFiniteSet(left)
  <2>1. left \in SUBSET (1..Len(l)) /\ left \in SUBSET Nat
    BY <1>1
  <2>2. IsFiniteSet(1..Len(l))
    BY <1>1, FS_Interval
  <2> HIDE DEF left
  <2>3. IsFiniteSet(left)
    BY <2>1, <2>2, FS_Subset
  <2> QED
    BY <2>1, <2>3
<1>3. PICK i \in DOMAIN l : l[i] = a /\ \A j \in 1..i : l[j] # b
  BY DEF Ahead
<1>4. i \in left
  BY <1>3
<1> HIDE DEF left
<1>5. Lists(q, left) /\ Len(q) = Cardinality(left) /\ Sorted(q, LessThan)
  BY <1>2, NumbersInOrder
<1>6. Without(l, x) = r
  BY DEF Without, left
<1> HIDE DEF q
<1>7. PICK k \in 1..Len(q) : q[k] = i
  BY <1>4, <1>5 DEF Lists
<1>8. Len(q) \in Nat /\ \A j \in 1..Len(q) : q[j] \in Nat /\ q[j] \in 1..Len(l)
  <2>1. \A y \in left : y \in Nat /\ y \in 1..Len(l)
    BY <1>1 DEF left
  <2> QED
    BY <1>5, <2>1 DEF Lists
<1>9. ASSUME NEW j \in 1..k PROVE r[j] # b
  <2>1. j \in 1..Len(q)
    BY <1>8
  <2>2. ASSUME j # k PROVE q[j] < q[k]
    <3>1. j < k
      BY <1>8, <2>2
    <3>2. <<q[j], q[k]>> \in LessThan
      BY <1>5, <2>1, <3>1 DEF Sorted
    <3> QED
      BY <3>2 DEF LessThan
  <2>3. q[j] \in 1..i
    BY <1>7, <1>8, <2>1, <2>2
  <2> QED
    BY <1>3, <1>5, <2>1, <2>3
<1>10. k \in DOMAIN r /\ r[k] = a
  BY <1>3, <1>5, <1>7
<1> HIDE DEF r
<1> QED
  BY <1>6, <1>9, <1>10 DEF Ahead

-----------------------------------------------------------------------------
(* What is shown, and what each file operation does to it. *)

Seen(at, mk, n) ==
  /\ at[n] # None /\ mk[n] # "none"
  /\ \A m \in Chain(at, n) \ {n, Root} : mk[m] = "folder"
  /\ Root \in Chain(at, n)

FoldersOf(at, mk) == {Root} \cup {n \in Nodes : Seen(at, mk, n) /\ mk[n] = "folder"}

LEMMA SeenBridge ==
  /\ \A n : Shown(n) <=> Seen(place, mark, n)
  /\ Folders = FoldersOf(place, mark)
<1>1. \A n : Shown(n) <=> Seen(place, mark, n)
  BY DEF Shown, Seen, Above
<1> QED
  BY <1>1 DEF Folders, FoldersOf

\* All above what is shown are shown folders.
LEMMA SeenAbove ==
  ASSUME NEW at \in PlacesOf, Forest(at), NEW mk, NEW n \in Nodes, Seen(at, mk, n),
         NEW m \in Chain(at, n), m # n
  PROVE  m \in FoldersOf(at, mk)
<1>1. CASE m = Root
  BY <1>1 DEF FoldersOf
<1>2. CASE m # Root
  <2>1. There(at, n) /\ n \in Dirs
    BY DEF There, Seen, Dirs
  <2>2. m \in Nodes /\ at[m] # None
    BY <1>2, <2>1, AllThere DEF There
  <2>3. Chain(at, m) \subseteq Chain(at, n) /\ Root \in Chain(at, m)
    BY <2>1, <2>2, ChainOfChain DEF Forest
  <2>4. mk[m] = "folder"
    BY <1>2 DEF Seen
  <2>5. n \notin Chain(at, m)
    <3> SUFFICES ASSUME n \in Chain(at, m) PROVE FALSE
      OBVIOUS
    <3>1. m \in Chain(at, at[n].parent)
      BY <2>1, ChainOfParent DEF Seen
    <3>2. at[n].parent \in Dirs
      BY ParentIsDir DEF Seen
    <3>3. Chain(at, m) \subseteq Chain(at, at[n].parent)
      BY <3>1, <3>2, ChainOfChain
    <3>4. n \notin Chain(at, at[n].parent)
      BY NotAboveItself DEF Seen
    <3> QED
      BY <3>3, <3>4
  <2>6. Seen(at, mk, m)
    BY <2>2, <2>3, <2>4, <2>5 DEF Seen
  <2> QED
    BY <2>2, <2>4, <2>6 DEF FoldersOf
<1> QED
  BY <1>1, <1>2

LEMMA SeenStep ==
  ASSUME NEW at \in PlacesOf, Forest(at), NEW mk, NEW n \in Nodes
  PROVE  Seen(at, mk, n) <=> at[n] # None /\ mk[n] # "none" /\ at[n].parent \in FoldersOf(at, mk)
<1>1. ASSUME Seen(at, mk, n) PROVE at[n].parent \in FoldersOf(at, mk)
  <2>1. n \in Dirs /\ n # Root /\ at[n] # None
    BY <1>1, RootAssumption DEF Dirs, Seen
  <2>2. at[n].parent \in Chain(at, n)
    BY <2>1, ChainIs DEF ChainFacts, Closed
  <2>3. at[n].parent # n
    <3>1. n \notin Chain(at, at[n].parent)
      BY <2>1, NotAboveItself
    <3>2. at[n].parent \in Dirs
      BY <2>1, ParentIsDir
    <3>3. at[n].parent \in Chain(at, at[n].parent)
      BY <3>2, ChainIs DEF ChainFacts
    <3> QED
      BY <3>1, <3>3
  <2> QED
    BY <1>1, <2>2, <2>3, SeenAbove
<1>2. ASSUME at[n] # None, mk[n] # "none", at[n].parent \in FoldersOf(at, mk)
      PROVE  Seen(at, mk, n)
  <2> DEFINE p == at[n].parent
  <2>1. Chain(at, n) \subseteq {n} \cup Chain(at, p) /\ Root \in Chain(at, n)
    BY <1>2, ChainOfParent DEF Forest
  <2>2. CASE p = Root
    <3>1. Chain(at, n) \subseteq {n, Root}
      BY <2>1, <2>2, ChainOfRoot
    <3> QED
      BY <1>2, <2>1, <3>1 DEF Seen
  <2>3. CASE p # Root
    <3>1. p \in Nodes /\ Seen(at, mk, p) /\ mk[p] = "folder"
      BY <1>2, <2>3 DEF FoldersOf
    <3> HIDE DEF p
    <3>2. \A m \in Chain(at, n) \ {n, Root} : mk[m] = "folder"
      BY <2>1, <3>1 DEF Seen
    <3> QED
      BY <1>2, <2>1, <3>2 DEF Seen
  <2> QED
    BY <2>2, <2>3
<1> QED
  BY <1>1, <1>2 DEF Seen

\* What is shown is found by walking down from the root.
LEMMA SeenDown ==
  ASSUME NEW at \in PlacesOf, Forest(at), NEW mk, NEW X,
         \A n \in Nodes : Seen(at, mk, n) /\ (at[n].parent = Root \/ at[n].parent \in X) => n \in X,
         NEW y \in Nodes, Seen(at, mk, y)
  PROVE  y \in X
<1> DEFINE B == {z \in Chain(at, y) \cap Nodes : Seen(at, mk, z) /\ z \notin X}
<1>1. SUFFICES ASSUME y \notin X PROVE FALSE
  OBVIOUS
<1>2. y \in Dirs /\ ChainFacts(at, y)
  BY ChainIs DEF Dirs
<1>3. y \in B
  BY <1>1, <1>2 DEF ChainFacts
<1>4. Closed(at, B)
  <2> SUFFICES ASSUME NEW z \in B \ {Root}, at[z] # None PROVE at[z].parent \in B
    BY DEF Closed
  <2>1. z \in Nodes /\ z # Root /\ Seen(at, mk, z) /\ z \in Chain(at, y)
    OBVIOUS
  <2>2. at[z].parent \in FoldersOf(at, mk)
    BY <2>1, SeenStep
  <2>3. at[z].parent # Root /\ at[z].parent \notin X
    BY <2>1
  <2>4. at[z].parent \in Nodes /\ Seen(at, mk, at[z].parent)
    BY <2>2, <2>3 DEF FoldersOf
  <2>5. at[z].parent \in Chain(at, y)
    BY <1>2, <2>1 DEF ChainFacts, Closed
  <2> QED
    BY <2>3, <2>4, <2>5
<1>5. Root \in B
  BY <1>2, <1>3, <1>4 DEF ChainFacts, Seen
<1> QED
  BY <1>5, RootAssumption

\* What depends on nothing but the marks above, and those above, of what is there.
LEMMA SeenSame ==
  ASSUME NEW at, NEW to, NEW mk, NEW mk2, NEW n \in Nodes,
         Chain(to, n) = Chain(at, n), to[n] = None <=> at[n] = None,
         mk2[n] = mk[n], \A m \in Chain(at, n) \ {Root} : mk2[m] = mk[m]
  PROVE  Seen(to, mk2, n) <=> Seen(at, mk, n)
  BY DEF Seen

SameSeen(at, to, mk, mk2) == \A y \in Nodes : Seen(to, mk2, y) <=> Seen(at, mk, y)

LEMMA SameFolders ==
  ASSUME NEW at, NEW to, NEW mk, NEW mk2, SameSeen(at, to, mk, mk2),
         \A y \in Nodes : Seen(at, mk, y) => mk2[y] = mk[y]
  PROVE  FoldersOf(to, mk2) = FoldersOf(at, mk)
  BY DEF SameSeen, FoldersOf

LEMMA MkdirSeen ==
  ASSUME NEW at \in PlacesOf, Forest(at), NEW mk, NEW n \in Nodes, NEW d \in Dirs, NEW s \in Slugs,
         mk[n] = "none", at[n] \in {None, Spot(d, s)},
         NEW to, to = [at EXCEPT ![n] = Spot(d, s)]
  PROVE  SameSeen(at, to, mk, mk)
<1>1. to \in PlacesOf
  BY SpotFacts DEF PlacesOf
<1>2. ASSUME NEW y \in Nodes PROVE Seen(to, mk, y) <=> Seen(at, mk, y)
  <2>1. CASE y = n
    BY <2>1 DEF Seen
  <2>2. CASE y # n /\ at[y] = None
    <3>1. to[y] = at[y]
      BY <2>2 DEF PlacesOf
    <3> QED
      BY <2>2, <3>1 DEF Seen
  <2>3. CASE y # n /\ at[y] # None
    <3>1. y \in Dirs /\ There(at, y) /\ to[y] = at[y]
      BY <2>3 DEF Dirs, There, PlacesOf
    <3>2. \A m \in Chain(at, y) \ {Root} : to[m] = at[m]
      <4> SUFFICES ASSUME NEW m \in Chain(at, y) \ {Root} PROVE to[m] = at[m]
        OBVIOUS
      <4>1. m \in Nodes /\ at[m] # None
        BY <3>1, AllThere DEF There
      <4> QED
        BY <4>1 DEF PlacesOf
    <3>3. Chain(to, y) = Chain(at, y)
      BY <1>1, <3>1, <3>2, SameAbove
    <3> QED
      BY <3>1, <3>3, SeenSame
  <2> QED
    BY <2>1, <2>2, <2>3
<1> QED
  BY <1>2 DEF SameSeen

\* A directory in a shown folder is marked, and shown.
Uncovered(at, mk, mk2, n) ==
  /\ ~ Seen(at, mk, n) /\ Seen(at, mk2, n)
  /\ \A y \in Nodes : n \notin Chain(at, y) => (Seen(at, mk2, y) <=> Seen(at, mk, y))
  /\ \A y \in Nodes : n \in Chain(at, y) => ~ Seen(at, mk, y)
  /\ at[n].parent \in FoldersOf(at, mk2)

LEMMA MarkSeen ==
  ASSUME NEW at \in PlacesOf, Forest(at), NEW mk, NEW mk2,
         NEW n \in Nodes, at[n] # None, mk[n] = "none", at[n].parent \in FoldersOf(at, mk),
         mk2[n] # "none", \A m \in Nodes \ {n} : mk2[m] = mk[m]
  PROVE  Uncovered(at, mk, mk2, n)
<1>1. ASSUME NEW y \in Nodes, n \notin Chain(at, y)
      PROVE  (Seen(at, mk2, y) <=> Seen(at, mk, y)) /\ mk2[y] = mk[y]
  <2>1. y \in Dirs /\ y \in Chain(at, y) /\ Chain(at, y) \subseteq Dirs
    BY ChainIs DEF Dirs, ChainFacts
  <2>2. y # n /\ mk2[y] = mk[y]
    BY <1>1, <2>1
  <2>3. \A m \in Chain(at, y) \ {Root} : mk2[m] = mk[m]
    BY <1>1, <2>1, NotRoot
  <2> QED
    BY <2>2, <2>3, SeenSame
<1>2. ASSUME NEW y \in Nodes, n \in Chain(at, y) PROVE ~ Seen(at, mk, y)
  BY <1>2, RootAssumption DEF Seen
<1>3. at[n].parent \in FoldersOf(at, mk2)
  <2> DEFINE p == at[n].parent
  <2>1. n \notin Chain(at, p)
    BY NotAboveItself
  <2>2. p # Root => p \in Nodes /\ Seen(at, mk, p) /\ mk[p] = "folder"
    BY DEF FoldersOf
  <2> HIDE DEF p
  <2>3. p # Root => Seen(at, mk2, p) /\ mk2[p] = "folder"
    BY <1>1, <2>1, <2>2
  <2>4. p \in FoldersOf(at, mk2)
    BY <2>2, <2>3 DEF FoldersOf
  <2> QED
    BY <2>4 DEF p
<1>5. Seen(at, mk2, n)
  BY <1>3, SeenStep
<1>6. ~ Seen(at, mk, n)
  BY DEF Seen
<1> QED
  BY <1>1, <1>2, <1>3, <1>5, <1>6 DEF Uncovered

LEMMA RemoveMarkSeen ==
  ASSUME NEW at \in PlacesOf, NEW mk, mk \in [Nodes -> Marks], NEW x \in Nodes,
         NEW mk2, mk2 = [mk EXCEPT ![x] = "none"]
  PROVE  /\ \A y \in Nodes : x \in Chain(at, y) => ~ Seen(at, mk2, y)
         /\ \A y \in Nodes : x \notin Chain(at, y) =>
              (Seen(at, mk2, y) <=> Seen(at, mk, y)) /\ mk2[y] = mk[y]
<1>1. ASSUME NEW y \in Nodes, x \notin Chain(at, y)
      PROVE  (Seen(at, mk2, y) <=> Seen(at, mk, y)) /\ mk2[y] = mk[y]
  <2>1. y \in Dirs /\ y \in Chain(at, y) /\ Chain(at, y) \subseteq Dirs
    BY ChainIs DEF Dirs, ChainFacts
  <2>2. y # x /\ mk2[y] = mk[y]
    BY <1>1, <2>1
  <2>3. \A m \in Chain(at, y) \ {Root} : mk2[m] = mk[m]
    BY <1>1, <2>1, NotRoot
  <2> QED
    BY <2>2, <2>3, SeenSame
<1>2. ASSUME NEW y \in Nodes, x \in Chain(at, y) PROVE ~ Seen(at, mk2, y)
  <2>1. mk2[x] = "none" /\ x # Root
    BY RootAssumption
  <2> QED
    BY <1>2, <2>1 DEF Seen
<1> QED
  BY <1>1, <1>2

LEMMA RemoveDirSeen ==
  ASSUME NEW at \in PlacesOf, Forest(at), NEW mk, NEW x \in Nodes, mk[x] = "none",
         \A k \in Nodes : at[k] # None => at[k].parent # x,
         NEW to, to = [at EXCEPT ![x] = None]
  PROVE  SameSeen(at, to, mk, mk)
<1>1. to \in PlacesOf /\ to[x] = None /\ \A m \in Nodes \ {x} : to[m] = at[m]
  BY DEF PlacesOf
<1>2. \A y \in Dirs \ {x} : Chain(to, y) = Chain(at, y)
  BY <1>1, DropEmpty
<1>3. ASSUME NEW y \in Nodes PROVE Seen(to, mk, y) <=> Seen(at, mk, y)
  <2>1. CASE y = x
    BY <2>1 DEF Seen
  <2>2. CASE y # x
    <3>1. Chain(to, y) = Chain(at, y) /\ to[y] = at[y]
      BY <1>1, <1>2, <2>2 DEF Dirs
    <3> QED
      BY <3>1, SeenSame
  <2> QED
    BY <2>1, <2>2
<1> QED
  BY <1>3 DEF SameSeen

LEMMA RenameSeen ==
  ASSUME NEW at \in PlacesOf, Forest(at), NEW mk, NEW n \in Nodes, NEW d \in FoldersOf(at, mk), NEW s \in Slugs,
         Seen(at, mk, n), n \notin Chain(at, d),
         \A m \in Nodes : at[m] = Spot(d, s) => mk[m] = "none",
         NEW to \in PlacesOf, Forest(to), to = RenameTo(at, n, Spot(d, s))
  PROVE  SameSeen(at, to, mk, mk)
<1>1. d \in Dirs /\ Spot(d, s) # None /\ Spot(d, s).parent = d
  <2>1. d \in Dirs
    BY DEF FoldersOf, Dirs
  <2> QED
    BY <2>1, SpotFacts
<1>2. /\ to[n] = Spot(d, s)
      /\ \A m \in Nodes : m # n /\ mk[m] # "none" => to[m] = at[m]
      /\ \A m \in Nodes : m # n /\ to[m] # None => to[m] = at[m]
  BY DEF RenameTo
<1>3. d \in FoldersOf(to, mk)
  <2>1. CASE d = Root
    BY <2>1 DEF FoldersOf
  <2>2. CASE d # Root
    <3>1. d \in Nodes /\ Seen(at, mk, d) /\ mk[d] = "folder"
      BY <2>2 DEF FoldersOf
    <3>2. ASSUME NEW m \in Chain(at, d) \ {Root} PROVE to[m] = at[m]
      <4>1. m \in FoldersOf(at, mk)
        BY <3>1, SeenAbove
      <4>2. m \in Nodes /\ mk[m] = "folder"
        BY <4>1 DEF FoldersOf
      <4> QED
        BY <1>2, <4>2
    <3>3. Chain(to, d) = Chain(at, d)
      BY <1>1, <3>2, SameAbove
    <3>4. to[d] = at[d]
      BY <1>1, <3>1, <3>2, <2>2, ChainIs DEF ChainFacts
    <3>5. Seen(to, mk, d)
      BY <3>1, <3>3, <3>4, SeenSame
    <3> QED
      BY <3>1, <3>5 DEF FoldersOf
  <2> QED
    BY <2>1, <2>2
<1>4. ASSUME NEW y \in Nodes, Seen(at, mk, y) PROVE Seen(to, mk, y)
  <2> DEFINE X == {z \in Nodes : Seen(to, mk, z)}
  <2>1. ASSUME NEW z \in Nodes, Seen(at, mk, z), at[z].parent = Root \/ at[z].parent \in X
        PROVE  z \in X
    <3>1. at[z] # None /\ mk[z] # "none" /\ at[z].parent \in FoldersOf(at, mk)
      BY <2>1, SeenStep
    <3>2. CASE z = n
      BY <1>1, <1>2, <1>3, <3>1, <3>2, SeenStep
    <3>3. CASE z # n
      <4>1. to[z] = at[z]
        BY <1>2, <3>1, <3>3
      <4>2. at[z].parent \in FoldersOf(to, mk)
        BY <2>1, <3>1 DEF FoldersOf
      <4> QED
        BY <3>1, <4>1, <4>2, SeenStep
    <3> QED
      BY <3>2, <3>3
  <2> HIDE DEF X
  <2>2. y \in X
    BY <1>4, <2>1, SeenDown
  <2> QED
    BY <2>2 DEF X
<1>5. ASSUME NEW y \in Nodes, Seen(to, mk, y) PROVE Seen(at, mk, y)
  <2> DEFINE X == {z \in Nodes : Seen(at, mk, z)}
  <2>1. ASSUME NEW z \in Nodes, Seen(to, mk, z), to[z].parent = Root \/ to[z].parent \in X
        PROVE  z \in X
    <3>1. to[z] # None /\ mk[z] # "none" /\ to[z].parent \in FoldersOf(to, mk)
      BY <2>1, SeenStep
    <3>2. CASE z = n
      BY <3>2
    <3>3. CASE z # n
      <4>1. to[z] = at[z]
        BY <1>2, <3>1, <3>3
      <4>2. to[z].parent \in FoldersOf(at, mk)
        BY <2>1, <3>1 DEF FoldersOf
      <4> QED
        BY <3>1, <4>1, <4>2, SeenStep
    <3> QED
      BY <3>2, <3>3
  <2> HIDE DEF X
  <2>2. y \in X
    BY <1>5, <2>1, SeenDown
  <2> QED
    BY <2>2 DEF X
<1> QED
  BY <1>4, <1>5 DEF SameSeen

-----------------------------------------------------------------------------
(* What the abstract specification speaks of. *)

\* It has operators of the library under names of its own.
LEMMA SameWords ==
  /\ \A s : Shows!ToSet(s) = ToSet(s)
  /\ \A s, x : Shows!RemoveFirst(s, x) = RemoveFirst(s, x)
<1>1. \A s : Shows!ToSet(s) = ToSet(s)
  BY DEF Shows!ToSet, ToSet
<1>2. \A s, i : Shows!RemoveAt(s, i) = RemoveAt(s, i)
  BY DEF Shows!RemoveAt, RemoveAt
<1>3. \A T : Shows!Min(T) = Min(T)
  BY DEF Shows!Min, Min
<1>4. ASSUME NEW s, NEW x PROVE Shows!RemoveFirst(s, x) = RemoveFirst(s, x)
  BY <1>2, <1>3 DEF Shows!RemoveFirst, RemoveFirst, Shows!SelectInSeq, SelectInSeq
<1> QED
  BY <1>1, <1>4

LEMMA Words ==
  /\ Shows!Places = Dirs
  /\ Shows!Present = {n \in Nodes : Seen(place, mark, n)}
  /\ DOMAIN Kids = Dirs /\ Kids = [d \in Dirs |-> Kids[d]]
  /\ \A d \in Dirs : Kids[d] = IF d \in FoldersOf(place, mark) THEN Ordered(d) ELSE <<>>
  /\ \A n \in Nodes : Seen(place, mark, n) => Titles[n] = name[n]
<1>1. Shows!Places = Dirs
  BY DEF Shows!Places, Dirs
<1>2. Titles = [n \in {m \in Nodes : Seen(place, mark, m)} |-> name[n]]
  BY SeenBridge DEF Titles
<1>3. Kids = [d \in Dirs |-> IF d \in FoldersOf(place, mark) THEN Ordered(d) ELSE <<>>]
  BY SeenBridge DEF Kids
<1>4. Shows!Present = DOMAIN Titles
  BY DEF Shows!Present
<1> QED
  BY <1>1, <1>2, <1>3, <1>4

LEMMA KidsAre ==
  ASSUME TreeInv, NEW d \in Dirs
  PROVE  /\ Kids[d] \in Seq(Nodes)
         /\ ToSet(Kids[d]) = IF d \in FoldersOf(place, mark) THEN Kin(place, mark, d) ELSE {}
         /\ \A i, j \in DOMAIN Kids[d] : i # j => Kids[d][i] # Kids[d][j]
<1>1. CASE d \in FoldersOf(place, mark)
  <2>1. Lists(Ordered(d), Kin(place, mark, d))
    BY InvReadable, OrderedLists, Bridge
  <2>2. Kids[d] = Ordered(d)
    BY <1>1, Words
  <2>3. Kin(place, mark, d) \subseteq Nodes
    BY DEF Kin
  <2>4. Ordered(d) \in Seq(Nodes)
    BY <2>1, <2>3, SeqMonotonic DEF Lists
  <2>5. \A i, j \in DOMAIN Ordered(d) : i # j => Ordered(d)[i] # Ordered(d)[j]
    BY <2>1, <2>4 DEF Lists
  <2>6. ToSet(Ordered(d)) = Kin(place, mark, d)
    BY <2>1, ListsRange
  <2> QED
    BY <1>1, <2>2, <2>4, <2>5, <2>6
<1>2. CASE d \notin FoldersOf(place, mark)
  <2>1. Kids[d] = <<>>
    BY <1>2, Words
  <2>2. ToSet(<<>>) = {} /\ <<>> \in Seq(Nodes) /\ DOMAIN <<>> = {}
    BY DEF ToSet
  <2> QED
    BY <1>2, <2>1, <2>2
<1> QED
  BY <1>1, <1>2

LEMMA WithinIs ==
  ASSUME TreeInv, NEW n \in Nodes, Seen(place, mark, n)
  PROVE  Shows!Within(n) = {m \in Nodes : Seen(place, mark, m) /\ n \in Chain(place, m)}
<1> DEFINE W == {m \in Nodes : Seen(place, mark, m) /\ n \in Chain(place, m)}
           Shut(S) == \A d \in S : ToSet(Kids[d]) \subseteq S
<1>0. place \in PlacesOf /\ Forest(place)
  BY InvReadable
<1>1. Shows!Within(n) = {m \in Nodes : \A S \in SUBSET Nodes : n \in S /\ Shut(S) => m \in S}
  BY SameWords DEF Shows!Within
<1>2. n \in W
  <2>1. n \in Chain(place, n)
    BY <1>0, ChainIs DEF ChainFacts, Dirs
  <2> QED
    BY <2>1
<1>3. Shut(W)
  <2> SUFFICES ASSUME NEW d \in W, NEW m \in ToSet(Kids[d]) PROVE m \in W
    OBVIOUS
  <2>1. d \in Dirs /\ d \in Nodes
    BY DEF Dirs
  <2>2. d \in FoldersOf(place, mark) /\ m \in Kin(place, mark, d)
    BY <2>1, KidsAre
  <2>3. m \in Nodes /\ Seen(place, mark, m)
    BY <1>0, <2>2, SeenStep DEF Kin
  <2>4. Chain(place, d) \subseteq Chain(place, m)
    BY <1>0, <2>2, ChainOfParent DEF Kin
  <2> QED
    BY <2>3, <2>4
<1>4. ASSUME NEW m \in W, NEW S \in SUBSET Nodes, n \in S, Shut(S) PROVE m \in S
  <2> DEFINE B == {z \in Chain(place, m) \cap Nodes : n \in Chain(place, z) /\ Seen(place, mark, z) /\ z \notin S}
  <2>1. SUFFICES ASSUME m \notin S PROVE FALSE
    OBVIOUS
  <2>2. m \in Dirs /\ ChainFacts(place, m)
    BY <1>0, ChainIs DEF Dirs
  <2>3. m \in B
    BY <2>1, <2>2 DEF ChainFacts
  <2>4. Closed(place, B)
    <3> SUFFICES ASSUME NEW z \in B \ {Root}, place[z] # None PROVE place[z].parent \in B
      BY DEF Closed
    <3> DEFINE p == place[z].parent
    <3>1. z \in Nodes /\ z # n
      BY <1>4
    <3>2. n \in Chain(place, p)
      BY <1>0, <3>1, ChainOfParent
    <3>3. p # Root
      BY <1>0, <3>2, ChainOfRoot, RootAssumption
    <3>4. p \in FoldersOf(place, mark)
      BY <1>0, <3>1, SeenStep
    <3>5. p \in Nodes /\ Seen(place, mark, p) /\ p \in Dirs
      BY <3>3, <3>4 DEF FoldersOf, Dirs
    <3>6. p \in Chain(place, m)
      BY <2>2, <3>1 DEF ChainFacts, Closed
    <3>7. p \notin S
      <4>1. z \in Kin(place, mark, p)
        BY <3>1 DEF Kin, Seen
      <4>2. z \in ToSet(Kids[p])
        BY <3>4, <3>5, <4>1, KidsAre
      <4> QED
        BY <1>4, <4>2
    <3> QED
      BY <3>2, <3>5, <3>6, <3>7
  <2>5. Root \in B
    BY <2>2, <2>3, <2>4 DEF ChainFacts, Seen
  <2> QED
    BY <2>5, RootAssumption
<1>5. ASSUME NEW m \in Nodes, \A S \in SUBSET Nodes : n \in S /\ Shut(S) => m \in S PROVE m \in W
  <2>1. W \in SUBSET Nodes
    OBVIOUS
  <2> HIDE DEF W, Shut
  <2> QED
    BY <1>2, <1>3, <1>5, <2>1
<1>6. W \in SUBSET Nodes
  OBVIOUS
<1> HIDE DEF W, Shut
<1>7. Shows!Within(n) = W
  BY <1>1, <1>4, <1>5, <1>6
<1> QED
  BY <1>7 DEF W

\* What a reader sees of a tree, in both vocabularies.
Reads ==
  /\ Shows!Present = {n \in Nodes : Seen(place, mark, n)}
  /\ \A n \in Nodes : Seen(place, mark, n) =>
       /\ Titles[n] = name[n] /\ name[n] \in Names
       /\ place[n].parent \in FoldersOf(place, mark)
       /\ Shows!Within(n) = {m \in Nodes : Seen(place, mark, m) /\ n \in Chain(place, m)}
  /\ DOMAIN Kids = Dirs /\ Kids = [d \in Dirs |-> Kids[d]]
  /\ Titles = [n \in {m \in Nodes : Seen(place, mark, m)} |-> name[n]]
  /\ FoldersOf(place, mark) \subseteq Dirs
  /\ \A d \in Dirs \ FoldersOf(place, mark) : Kids[d] = <<>> /\ ToSet(Kids[d]) = {}
  /\ \A d \in FoldersOf(place, mark) :
       /\ Kids[d] = Ordered(d) /\ ToSet(Kids[d]) = Kin(place, mark, d)
       /\ Kin(place, mark, d) = {n \in Nodes : Seen(place, mark, n) /\ place[n].parent = d}
  /\ \A d \in Dirs :
       /\ Lists(Ordered(d), Kin(place, mark, d))
       /\ Sorted(Ordered(d), SoonerIn(order[d], place, mark, name, d))
       /\ \A m, n \in Kin(place, mark, d) :
            Sooner(order[d], place, name, m, n) => ~ Sooner(order[d], place, name, n, m)

LEMMA ReadsAs == TreeInv => Reads
<1> SUFFICES ASSUME TreeInv PROVE Reads
  OBVIOUS
<1>0. /\ Readable /\ TreeTyped(place, mark, name) /\ place \in PlacesOf /\ Apart(place) /\ Forest(place)
      /\ order \in [Dirs -> Seq(Slugs)]
  BY InvReadable DEF TreeInv
<1>1. ASSUME NEW n \in Nodes, Seen(place, mark, n)
      PROVE  Titles[n] = name[n] /\ name[n] \in Names /\ place[n].parent \in FoldersOf(place, mark)
  <2>1. name[n] \in Names
    BY <1>0, <1>1 DEF Seen, TreeTyped
  <2> QED
    BY <1>0, <1>1, <2>1, Words, SeenStep
<1>2. FoldersOf(place, mark) \subseteq Dirs
  BY DEF FoldersOf, Dirs
<1>3. \A d \in Dirs \ FoldersOf(place, mark) : Kids[d] = <<>> /\ ToSet(Kids[d]) = {}
  BY Words, KidsAre
<1>4. ASSUME NEW d \in FoldersOf(place, mark)
      PROVE  /\ Kids[d] = Ordered(d) /\ ToSet(Kids[d]) = Kin(place, mark, d)
             /\ Kin(place, mark, d) = {n \in Nodes : Seen(place, mark, n) /\ place[n].parent = d}
  <2>1. Kids[d] = Ordered(d) /\ ToSet(Kids[d]) = Kin(place, mark, d)
    BY <1>2, Words, KidsAre
  <2>2. ASSUME NEW n \in Nodes
        PROVE  n \in Kin(place, mark, d) <=> Seen(place, mark, n) /\ place[n].parent = d
    BY <1>0, SeenStep DEF Kin
  <2>3. Kin(place, mark, d) \subseteq Nodes
    BY DEF Kin
  <2> QED
    BY <2>1, <2>2, <2>3
<1>5. ASSUME NEW d \in Dirs
      PROVE  /\ Lists(Ordered(d), Kin(place, mark, d))
             /\ Sorted(Ordered(d), SoonerIn(order[d], place, mark, name, d))
             /\ \A m, n \in Kin(place, mark, d) :
                  Sooner(order[d], place, name, m, n) => ~ Sooner(order[d], place, name, n, m)
  <2>1. order[d] \in Seq(Slugs)
    BY <1>0
  <2> QED
    BY <1>0, <2>1, OrderedLists, OrderedSorted, SoonerAsym, Bridge
<1>6. \A n \in Nodes : Seen(place, mark, n) =>
        Shows!Within(n) = {m \in Nodes : Seen(place, mark, m) /\ n \in Chain(place, m)}
  BY WithinIs
<1>7. Titles = [n \in {m \in Nodes : Seen(place, mark, m)} |-> name[n]]
  BY SeenBridge DEF Titles
<1> QED
  BY <1>1, <1>2, <1>3, <1>4, <1>5, <1>6, <1>7, Words DEF Reads

LEMMA ReadsBoth ==
  ASSUME TreeInv, TreeInv'
  PROVE  Reads /\ Reads'
<1>1. (TreeInv => Reads)'
  BY ReadsAs, PTL
<1> QED
  BY <1>1, ReadsAs

\* The order of a folder's items, but for x, before and after a step.
LEMMA KidsApart ==
  ASSUME Reads, Reads', NEW d \in Dirs, NEW x,
         Kin(place, mark, d) \ {x} = Kin(place', mark', d) \ {x},
         \A m, n \in Kin(place, mark, d) \ {x} :
           Sooner(order[d], place, name, m, n) => Sooner(order'[d], place', name', m, n)
  PROVE  /\ RemoveFirst(Ordered(d), x) = RemoveFirst(Ordered(d)', x)
         /\ x \notin Kin(place, mark, d) => RemoveFirst(Ordered(d), x) = Ordered(d)
         /\ x \notin Kin(place', mark', d) => RemoveFirst(Ordered(d)', x) = Ordered(d)'
<1> DEFINE T == Kin(place, mark, d)
           V == Kin(place', mark', d)
           s == Ordered(d)
           t == Ordered(d)'
           R == SoonerIn(order[d], place, mark, name, d)
           Q == SoonerIn(order'[d], place', mark', name', d)
<1>1. Lists(s, T) /\ Sorted(s, R) /\ Lists(t, V) /\ Sorted(t, Q)
  BY DEF Reads
<1>2. Refines(T \ {x}, R, Q)
  <2> SUFFICES ASSUME NEW m \in T \ {x}, NEW n \in T \ {x}
               PROVE  (<<m, n>> \in R => <<m, n>> \in Q) /\ (<<m, n>> \in Q => <<n, m>> \notin Q)
    BY Zenon DEF Refines
  <2>1. m \in T /\ n \in T /\ m \in V /\ n \in V
    OBVIOUS
  <2>2. <<m, n>> \in R => <<m, n>> \in Q
    BY <2>1 DEF SoonerIn
  <2>3. <<m, n>> \in Q => <<n, m>> \notin Q
    BY <2>1 DEF SoonerIn, Reads
  <2> QED
    BY <2>2, <2>3
<1>3. T \ {x} = V \ {x}
  OBVIOUS
<1> HIDE DEF T, V, s, t, R, Q
<1>4. RemoveFirst(s, x) = RemoveFirst(t, x)
  BY <1>1, <1>2, <1>3, SameApart
<1>5. (x \notin T => RemoveFirst(s, x) = s) /\ (x \notin V => RemoveFirst(t, x) = t)
  BY <1>1, ListsRemoveFirst
<1> QED
  BY <1>4, <1>5 DEF T, V, s, t

\* Nothing happens to a folder's items, but for x.
Calm(d, x) ==
  /\ d \in FoldersOf(place, mark) /\ d \in FoldersOf(place', mark')
  /\ order'[d] = order[d]
  /\ \A y \in Nodes \ {x} : Seen(place, mark, y) /\ place[y].parent = d =>
       Seen(place', mark', y) /\ place'[y] = place[y] /\ name'[y] = name[y]
  /\ \A y \in Nodes \ {x} : Seen(place', mark', y) /\ place'[y].parent = d =>
       Seen(place, mark, y) /\ place[y].parent = d

LEMMA CalmKids ==
  ASSUME Reads, Reads', NEW d, NEW x, Calm(d, x)
  PROVE  /\ RemoveFirst(Kids'[d], x) = RemoveFirst(Kids[d], x)
         /\ x \notin Kin(place, mark, d) => RemoveFirst(Kids[d], x) = Kids[d]
         /\ x \notin Kin(place', mark', d) => RemoveFirst(Kids'[d], x) = Kids'[d]
<1>1. d \in Dirs /\ Kids[d] = Ordered(d) /\ Kids'[d] = Ordered(d)'
  BY DEF Reads, Calm
<1>2. Kin(place, mark, d) = {n \in Nodes : Seen(place, mark, n) /\ place[n].parent = d}
  BY DEF Reads, Calm
<1>3. Kin(place', mark', d) = {n \in Nodes : Seen(place', mark', n) /\ place'[n].parent = d}
  BY DEF Reads, Calm
<1>4. Kin(place, mark, d) \ {x} = Kin(place', mark', d) \ {x}
  BY <1>2, <1>3 DEF Calm
<1>5. ASSUME NEW m \in Kin(place, mark, d) \ {x}, NEW n \in Kin(place, mark, d) \ {x},
             Sooner(order[d], place, name, m, n)
      PROVE  Sooner(order'[d], place', name', m, n)
  <2>1. order'[d] = order[d] /\ place'[m] = place[m] /\ place'[n] = place[n]
    BY <1>2 DEF Calm
  <2>2. name'[m] = name[m] /\ name'[n] = name[n]
    BY <1>2 DEF Calm
  <2> QED
    BY <1>5, <2>1, <2>2 DEF Sooner, ByNameOf
<1> QED
  BY <1>1, <1>4, <1>5, KidsApart

LEMMA TitlesKept ==
  ASSUME Reads, Reads', SameSeen(place, place', mark, mark'),
         \A y \in Nodes : Seen(place, mark, y) => name'[y] = name[y]
  PROVE  Titles' = Titles
<1>1. Titles = [n \in {m \in Nodes : Seen(place, mark, m)} |-> name[n]]
  BY DEF Reads
<1>2. Titles' = [n \in {m \in Nodes : Seen(place', mark', m)} |-> name'[n]]
  BY DEF Reads
<1>3. {m \in Nodes : Seen(place', mark', m)} = {m \in Nodes : Seen(place, mark, m)}
  BY DEF SameSeen
<1>4. \A n \in {m \in Nodes : Seen(place, mark, m)} : name'[n] = name[n]
  OBVIOUS
<1> QED
  BY <1>1, <1>2, <1>3, <1>4

LEMMA UnseenKids ==
  ASSUME Reads, Reads', SameSeen(place, place', mark, mark'),
         \A y \in Nodes : Seen(place, mark, y) => mark'[y] = mark[y] /\ name'[y] = name[y],
         \A d \in FoldersOf(place, mark) : Kids'[d] = Kids[d],
         torn => torn'
  PROVE  Shows!Unseen
<1>1. FoldersOf(place', mark') = FoldersOf(place, mark)
  BY SameFolders
<1>2. ASSUME NEW d \in Dirs, d \notin FoldersOf(place, mark) PROVE Kids'[d] = Kids[d]
  <2>1. Kids[d] = <<>>
    BY <1>2 DEF Reads
  <2>2. Kids'[d] = <<>>
    BY <1>1, <1>2 DEF Reads
  <2> QED
    BY <2>1, <2>2
<1>3. Kids' = Kids
  <2>1. Kids = [d \in Dirs |-> Kids[d]] /\ Kids' = [d \in Dirs |-> Kids'[d]]
    BY DEF Reads
  <2>2. \A d \in Dirs : Kids'[d] = Kids[d]
    BY <1>2
  <2> QED
    BY <2>1, <2>2
<1>4. Titles' = Titles
  BY TitlesKept
<1> QED
  BY <1>3, <1>4 DEF Shows!Unseen

\* Nothing is seen of a step that leaves what is shown where it is, as it is.
LEMMA UnseenStep ==
  ASSUME Reads, Reads', SameSeen(place, place', mark, mark'),
         \A y \in Nodes : Seen(place, mark, y) =>
           place'[y] = place[y] /\ mark'[y] = mark[y] /\ name'[y] = name[y],
         \A d \in FoldersOf(place, mark) : order'[d] = order[d],
         torn => torn'
  PROVE  Shows!Unseen
<1>1. FoldersOf(place', mark') = FoldersOf(place, mark)
  BY SameFolders
<1>2. ASSUME NEW d \in FoldersOf(place, mark) PROVE Kids'[d] = Kids[d]
  <2>1. Calm(d, None)
    BY <1>1 DEF Calm, SameSeen
  <2>2. None \notin Kin(place, mark, d) /\ None \notin Kin(place', mark', d)
    BY RootAssumption DEF Kin
  <2> QED
    BY <2>1, <2>2, CalmKids
<1> QED
  BY <1>2, UnseenKids

-----------------------------------------------------------------------------
(* The invariant that the refinement needs besides TreeInv: all steps of a *)
(* plan are about one item, and a list that is still to be written has the *)
(* others in the order in which they are shown; as long as no deletion was *)
(* cut off, what has lost its mark but not what it holds is below the item *)
(* that is being deleted.                                                  *)

Agrees(l, x, at, mk, nm, d, o) ==
  \A m, n \in Kin(at, mk, d) \ {x} : Sooner(o, at, nm, m, n) => Ahead(l, at[m].slug, at[n].slug)

StepSteady(q, x, at, mk, nm, o) ==
  /\ q.do = "order" => Agrees(q.slugs, x, at, mk, nm, q.dir, o[q.dir])
  /\ q.do # "order" => q.node = x
  /\ q.do \in {"mkdir", "rename"} => q.spot.parent \in FoldersOf(at, mk)
  /\ q.do = "rename" => Seen(at, mk, x)
  /\ q.do = "mark" => IF mk[x] = "none" THEN at[x] = None \/ at[x].parent \in FoldersOf(at, mk)
                      ELSE Seen(at, mk, x) /\ q.kind = mk[x]

Steady(p, x, at, mk, nm, o) == \A i \in DOMAIN p : StepSteady(p[i], x, at, mk, nm, o)

Hollow(p, at, mk) ==
  \A k \in Nodes : at[k] # None /\ at[k].parent # Root /\ mk[at[k].parent] = "none" =>
    p # <<>> /\ p[1].do = "remove" /\ p[1].node \in Chain(at, at[k].parent)

OrderInv ==
  /\ TreeInv
  /\ \E x \in Nodes \cup {None} : Steady(plan, x, place, mark, name, order)
  /\ torn \/ Hollow(plan, place, mark)

LEMMA SteadyTuples ==
  ASSUME NEW x, NEW at, NEW mk, NEW nm, NEW o
  PROVE  /\ Steady(<<>>, x, at, mk, nm, o)
         /\ \A a : Steady(<<a>>, x, at, mk, nm, o) <=> StepSteady(a, x, at, mk, nm, o)
         /\ \A a, b : Steady(<<a, b>>, x, at, mk, nm, o) <=>
              StepSteady(a, x, at, mk, nm, o) /\ StepSteady(b, x, at, mk, nm, o)
         /\ \A a, b, c : Steady(<<a, b, c>>, x, at, mk, nm, o) <=>
              /\ StepSteady(a, x, at, mk, nm, o) /\ StepSteady(b, x, at, mk, nm, o)
              /\ StepSteady(c, x, at, mk, nm, o)
<1>1. DOMAIN <<>> = {}
  OBVIOUS
<1>2. \A a : DOMAIN <<a>> = {1} /\ <<a>>[1] = a
  OBVIOUS
<1>3. \A a, b : DOMAIN <<a, b>> = {1, 2} /\ <<a, b>>[1] = a /\ <<a, b>>[2] = b
  OBVIOUS
<1>4. \A a, b, c : /\ DOMAIN <<a, b, c>> = {1, 2, 3} /\ <<a, b, c>>[1] = a /\ <<a, b, c>>[2] = b
                   /\ <<a, b, c>>[3] = c
  OBVIOUS
<1>5. Steady(<<>>, x, at, mk, nm, o)
  BY <1>1 DEF Steady
<1>6. ASSUME NEW a PROVE Steady(<<a>>, x, at, mk, nm, o) <=> StepSteady(a, x, at, mk, nm, o)
  BY <1>2 DEF Steady
<1>7. ASSUME NEW a, NEW b
      PROVE  Steady(<<a, b>>, x, at, mk, nm, o) <=>
               StepSteady(a, x, at, mk, nm, o) /\ StepSteady(b, x, at, mk, nm, o)
  BY <1>3 DEF Steady
<1>8. ASSUME NEW a, NEW b, NEW c
      PROVE  Steady(<<a, b, c>>, x, at, mk, nm, o) <=>
               /\ StepSteady(a, x, at, mk, nm, o) /\ StepSteady(b, x, at, mk, nm, o)
               /\ StepSteady(c, x, at, mk, nm, o)
  BY <1>4 DEF Steady
<1> QED
  BY <1>5, <1>6, <1>7, <1>8

LEMMA SteadyKinds ==
  ASSUME NEW x, NEW at, NEW mk, NEW nm, NEW o
  PROVE  /\ \A n, s : \A d \in Dirs : StepSteady(MkdirStep(n, d, s), x, at, mk, nm, o) <=>
              n = x /\ d \in FoldersOf(at, mk)
         /\ \A n, k, t : StepSteady(MarkStep(n, k, t), x, at, mk, nm, o) <=>
              /\ n = x
              /\ mk[x] = "none" => at[x] = None \/ at[x].parent \in FoldersOf(at, mk)
              /\ mk[x] # "none" => Seen(at, mk, x) /\ k = mk[x]
         /\ \A d, l : StepSteady(OrderStep(d, l), x, at, mk, nm, o) <=> Agrees(l, x, at, mk, nm, d, o[d])
         /\ \A n : StepSteady(RemoveStep(n), x, at, mk, nm, o) <=> n = x
         /\ \A n, s : \A d \in Dirs : StepSteady(RenameStep(n, d, s), x, at, mk, nm, o) <=>
              n = x /\ d \in FoldersOf(at, mk) /\ Seen(at, mk, x)
<1>1. ASSUME NEW n, NEW s, NEW d \in Dirs
      PROVE  /\ StepSteady(MkdirStep(n, d, s), x, at, mk, nm, o) <=> n = x /\ d \in FoldersOf(at, mk)
             /\ StepSteady(RenameStep(n, d, s), x, at, mk, nm, o) <=>
                  n = x /\ d \in FoldersOf(at, mk) /\ Seen(at, mk, x)
  <2>1. /\ MkdirStep(n, d, s).do = "mkdir" /\ MkdirStep(n, d, s).node = n
        /\ MkdirStep(n, d, s).spot.parent = d
    BY DEF MkdirStep, Spot
  <2>2. /\ RenameStep(n, d, s).do = "rename" /\ RenameStep(n, d, s).node = n
        /\ RenameStep(n, d, s).spot.parent = d
    BY DEF RenameStep, Spot
  <2>3. StepSteady(MkdirStep(n, d, s), x, at, mk, nm, o) <=> n = x /\ d \in FoldersOf(at, mk)
    BY <2>1 DEF StepSteady
  <2>4. StepSteady(RenameStep(n, d, s), x, at, mk, nm, o) <=>
          n = x /\ d \in FoldersOf(at, mk) /\ Seen(at, mk, x)
    BY <2>2 DEF StepSteady
  <2> QED
    BY <2>3, <2>4
<1>2. ASSUME NEW n, NEW k, NEW t
      PROVE  StepSteady(MarkStep(n, k, t), x, at, mk, nm, o) <=>
               /\ n = x
               /\ mk[x] = "none" => at[x] = None \/ at[x].parent \in FoldersOf(at, mk)
               /\ mk[x] # "none" => Seen(at, mk, x) /\ k = mk[x]
  <2>1. /\ MarkStep(n, k, t).do = "mark" /\ MarkStep(n, k, t).node = n
        /\ MarkStep(n, k, t).kind = k
    BY DEF MarkStep
  <2> QED
    BY <2>1 DEF StepSteady
<1>3. ASSUME NEW d, NEW l
      PROVE  StepSteady(OrderStep(d, l), x, at, mk, nm, o) <=> Agrees(l, x, at, mk, nm, d, o[d])
  <2>1. OrderStep(d, l).do = "order" /\ OrderStep(d, l).dir = d /\ OrderStep(d, l).slugs = l
    BY DEF OrderStep
  <2> QED
    BY <2>1 DEF StepSteady
<1>4. ASSUME NEW n PROVE StepSteady(RemoveStep(n), x, at, mk, nm, o) <=> n = x
  <2>1. RemoveStep(n).do = "remove" /\ RemoveStep(n).node = n
    BY DEF RemoveStep
  <2> QED
    BY <2>1 DEF StepSteady
<1> QED
  BY <1>1, <1>2, <1>3, <1>4

LEMMA AgreesKept ==
  ASSUME NEW l, NEW x, NEW d, NEW at, NEW mk, NEW nm, NEW o, Agrees(l, x, at, mk, nm, d, o),
         NEW to, NEW mk2, NEW nm2,
         \A m \in Kin(to, mk2, d) \ {x} : m \in Kin(at, mk, d) /\ to[m] = at[m] /\ nm2[m] = nm[m]
  PROVE  Agrees(l, x, to, mk2, nm2, d, o)
<1> SUFFICES ASSUME NEW m \in Kin(to, mk2, d) \ {x}, NEW n \in Kin(to, mk2, d) \ {x},
                    Sooner(o, to, nm2, m, n)
             PROVE  Ahead(l, to[m].slug, to[n].slug)
  BY Zenon DEF Agrees
<1>1. /\ m \in Kin(at, mk, d) \ {x} /\ n \in Kin(at, mk, d) \ {x}
      /\ to[m] = at[m] /\ to[n] = at[n] /\ nm2[m] = nm[m] /\ nm2[n] = nm[n]
  OBVIOUS
<1>2. Sooner(o, at, nm, m, n)
  BY <1>1 DEF Sooner, ByNameOf
<1> QED
  BY <1>1, <1>2 DEF Agrees

\* What a handler's list is made of is in the order that is shown.
LEMMA AgreesRead ==
  ASSUME TreeInv, NEW d \in Dirs, NEW x, NEW l,
         \A a, b : a # x /\ b # x /\ Ahead(Reconciled(d), a, b) => Ahead(l, a, b),
         NEW y, \A m \in Kin(place, mark, d) : place[m].slug = x => m = y
  PROVE  Agrees(l, y, place, mark, name, d, order[d])
<1> SUFFICES ASSUME NEW m \in Kin(place, mark, d) \ {y}, NEW n \in Kin(place, mark, d) \ {y},
                    Sooner(order[d], place, name, m, n)
             PROVE  Ahead(l, place[m].slug, place[n].slug)
  BY Zenon DEF Agrees
<1>1. m \in Children(d) /\ n \in Children(d)
  BY Bridge
<1>2. Ahead(Reconciled(d), place[m].slug, place[n].slug)
  BY <1>1, InvReadable, ReconciledAhead
<1> QED
  BY <1>2

-----------------------------------------------------------------------------
(* Every step keeps OrderInv and is a step of OrderedItems: the handlers.  *)

LEMMA ShownSteps ==
  /\ Shows!Unseen => Shows!Next
  /\ \A n \in Nodes : Shows!Vanish(n) \/ Shows!Rename(n) => Shows!Next
  /\ \A n \in Nodes, d \in Dirs : Shows!Insert(n, d) \/ Shows!Move(n, d) => Shows!Next
<1>1. Shows!Places = Dirs
  BY Words
<1>2. Shows!Unseen => Shows!Next
  BY DEF Shows!Next
<1>3. \A n \in Nodes : Shows!Vanish(n) \/ Shows!Rename(n) => Shows!Next
  BY Zenon DEF Shows!Next
<1>4. \A n \in Nodes, d \in Dirs : Shows!Insert(n, d) \/ Shows!Move(n, d) => Shows!Next
  BY <1>1, Zenon DEF Shows!Next
<1> QED
  BY <1>2, <1>3, <1>4

LEMMA ReconciledTyped ==
  ASSUME TreeInv, NEW d \in Dirs
  PROVE  Reconciled(d) \in Seq(Slugs)
<1>1. Lists(Reconciled(d), SlugsOf(place, mark, d))
  BY InvReadable, ReconciledLists, Bridge
<1> QED
  BY <1>1, InvReadable, ListTyped DEF ListsOfSlugs

LEMMA CallUnseen ==
  ASSUME OrderInv, TreeInv', Reads, Reads', Call, UNCHANGED <<place, mark, name, order, torn>>,
         NEW x \in Nodes, Steady(plan', x, place, mark, name, order)
  PROVE  OrderInv' /\ Shows!Unseen
<1>1. Shows!Unseen
  BY UnseenStep DEF SameSeen
<1>2. torn \/ Hollow(plan', place, mark)
  BY DEF OrderInv, Hollow, Call
<1>3. Steady(plan', x, place', mark', name', order') /\ (torn' \/ Hollow(plan', place', mark'))
  BY <1>2
<1> QED
  BY <1>1, <1>3 DEF OrderInv

\* A fresh slug's list.
LEMMA FreshAgrees ==
  ASSUME TreeInv, NEW d \in Dirs, NEW s, s \notin SlugsOf(place, mark, d), NEW l, NEW y,
         \A a, b : a # s /\ b # s /\ Ahead(Reconciled(d), a, b) => Ahead(l, a, b)
  PROVE  Agrees(l, y, place, mark, name, d, order[d])
<1>1. \A m \in Kin(place, mark, d) : place[m].slug = s => m = y
  BY DEF SlugsOf
<1> QED
  BY <1>1, AgreesRead

LEMMA CreateOrder ==
  ASSUME OrderInv, TreeInv', Reads, Reads',
         NEW d \in Dirs, NEW t \in Names, NEW kind \in Marks \ {"none"}, Create(d, t, kind)
  PROVE  OrderInv' /\ Shows!Unseen
<1>0. TreeInv
  BY DEF OrderInv
<1> DEFINE s == UniqueSlug(d, t)
           l == Append(Reconciled(d), s)
<1>1. /\ s \in Slugs /\ s \notin SlugsOf(place, mark, d)
      /\ \E n \in Nodes :
           /\ plan' = <<MkdirStep(n, d, s), MarkStep(n, kind, t), OrderStep(d, l)>>
           /\ Creating(place, mark, name, n, d, s, t, l)
  BY <1>0, CreateFinds
<1>2. Call /\ d \in FoldersOf(place, mark) /\ UNCHANGED <<place, mark, name, order, torn>>
  BY SeenBridge DEF Create
<1> HIDE DEF s
<1>3. \A a, b : a # s /\ b # s /\ Ahead(Reconciled(d), a, b) => Ahead(l, a, b)
  BY <1>0, ReconciledTyped, AheadAppend
<1> HIDE DEF l
<1>4. PICK n \in Nodes :
        /\ plan' = <<MkdirStep(n, d, s), MarkStep(n, kind, t), OrderStep(d, l)>>
        /\ Creating(place, mark, name, n, d, s, t, l)
  BY <1>1
<1>5. Agrees(l, n, place, mark, name, d, order[d])
  BY <1>0, <1>1, <1>3, FreshAgrees
<1>6. mark[n] = "none" /\ (place[n] = None \/ place[n].parent = d)
  BY <1>1, <1>4, SpotFacts DEF Creating
<1>7. /\ StepSteady(MkdirStep(n, d, s), n, place, mark, name, order)
      /\ StepSteady(MarkStep(n, kind, t), n, place, mark, name, order)
      /\ StepSteady(OrderStep(d, l), n, place, mark, name, order)
  <2>1. StepSteady(MkdirStep(n, d, s), n, place, mark, name, order)
    BY <1>2, SteadyKinds
  <2>2. mark[n] = "none" => place[n] = None \/ place[n].parent \in FoldersOf(place, mark)
    BY <1>2, <1>6
  <2>3. StepSteady(MarkStep(n, kind, t), n, place, mark, name, order)
    BY <1>6, <2>2, SteadyKinds
  <2>4. StepSteady(OrderStep(d, l), n, place, mark, name, order)
    BY <1>5, SteadyKinds
  <2> QED
    BY <2>1, <2>3, <2>4
<1>8. Steady(plan', n, place, mark, name, order)
  BY <1>4, <1>7, SteadyTuples
<1> QED
  BY <1>2, <1>8, CallUnseen

LEMMA RenameItemOrder ==
  ASSUME OrderInv, TreeInv', Reads, Reads', NEW n \in Nodes, NEW t \in Names, Rename(n, t)
  PROVE  OrderInv' /\ Shows!Unseen
<1>1. Call /\ Seen(place, mark, n) /\ UNCHANGED <<place, mark, name, order, torn>>
  BY SeenBridge DEF Rename
<1>2. plan' = <<MarkStep(n, mark[n], t)>>
  BY DEF Rename, MarkStep
<1>3. StepSteady(MarkStep(n, mark[n], t), n, place, mark, name, order)
  BY <1>1, SteadyKinds DEF Seen
<1>4. Steady(plan', n, place, mark, name, order)
  BY <1>2, <1>3, SteadyTuples
<1> QED
  BY <1>1, <1>4, CallUnseen

\* The list without an item's slug, and with it elsewhere.
LEMMA OwnAgrees ==
  ASSUME TreeInv, NEW n \in Nodes, place[n] # None, NEW l,
         \A a, b : a # place[n].slug /\ b # place[n].slug /\ Ahead(Reconciled(place[n].parent), a, b) => Ahead(l, a, b)
  PROVE  Agrees(l, n, place, mark, name, place[n].parent, order[place[n].parent])
<1> DEFINE d == place[n].parent
<1>1. TreeTyped(place, mark, name) /\ Apart(place) /\ d \in Dirs /\ place[n] \in Places
  BY InvReadable, ParentIsDir DEF PlacesOf
<1>2. place[n] = Spot(d, place[n].slug)
  BY <1>1 DEF Places, Spot
<1>3. ASSUME NEW m \in Kin(place, mark, d), place[m].slug = place[n].slug PROVE m = n
  <2>1. place[m] = Spot(d, place[m].slug) /\ m \in Nodes
    BY <1>1, KinFacts
  <2> QED
    BY <1>1, <1>2, <1>3, <2>1 DEF Apart
<1> HIDE DEF d
<1>4. Agrees(l, n, place, mark, name, d, order[d])
  BY <1>1, <1>3, AgreesRead DEF d
<1> QED
  BY <1>4 DEF d

LEMMA DeleteOrder ==
  ASSUME OrderInv, TreeInv', Reads, Reads', NEW n \in Nodes, Delete(n)
  PROVE  OrderInv' /\ Shows!Unseen
<1>0. TreeInv
  BY DEF OrderInv
<1> DEFINE d == place[n].parent
           l == Without(Reconciled(d), place[n].slug)
<1>1. Call /\ Seen(place, mark, n) /\ UNCHANGED <<place, mark, name, order, torn>>
  BY SeenBridge DEF Delete
<1>2. plan' = <<RemoveStep(n), OrderStep(d, l)>>
  BY DEF Delete, RemoveStep, OrderStep
<1>3. place[n] # None /\ d \in Dirs
  BY <1>0, <1>1, InvReadable, ParentIsDir DEF Seen
<1>4. \A a, b : a # place[n].slug /\ b # place[n].slug /\ Ahead(Reconciled(d), a, b) => Ahead(l, a, b)
  BY <1>0, <1>3, ReconciledTyped, AheadWithout
<1>5. Agrees(l, n, place, mark, name, d, order[d])
  BY <1>0, <1>3, <1>4, OwnAgrees
<1> HIDE DEF d, l
<1>6. /\ StepSteady(RemoveStep(n), n, place, mark, name, order)
      /\ StepSteady(OrderStep(d, l), n, place, mark, name, order)
  BY <1>5, SteadyKinds
<1>7. Steady(plan', n, place, mark, name, order)
  BY <1>2, <1>6, SteadyTuples
<1> QED
  BY <1>1, <1>7, CallUnseen

LEMMA MoveOrder ==
  ASSUME OrderInv, TreeInv', Reads, Reads',
         NEW n \in Nodes, NEW d \in Dirs, NEW before \in Nodes \cup {None}, Move(n, d, before)
  PROVE  OrderInv' /\ Shows!Unseen
<1>0. TreeInv /\ Readable
  BY InvReadable DEF OrderInv
<1> DEFINE from == place[n].parent
           old == place[n].slug
           s == UniqueSlug(d, name[n])
           l == Without(Reconciled(from), old)
           a == InsertSlug(Without(Reconciled(d), old), d, n, old, before)
           r == InsertSlug(Reconciled(d), d, n, s, before)
<1>1. /\ Call /\ Seen(place, mark, n) /\ d \in FoldersOf(place, mark)
      /\ UNCHANGED <<place, mark, name, order, torn>>
  BY SeenBridge DEF Move
<1>2. place[n] # None /\ from \in Dirs /\ name[n] \in Names
  BY <1>0, <1>1, InvReadable, ParentIsDir DEF Seen, TreeTyped
<1>3. Reconciled(d) \in Seq(Slugs) /\ Reconciled(from) \in Seq(Slugs)
  BY <1>0, <1>2, ReconciledTyped
<1>4. CASE d = from
  <2>1. plan' = <<OrderStep(d, a)>>
    BY <1>4 DEF Move, OrderStep
  <2>2. Without(Reconciled(d), old) \in Seq(Slugs)
    <3>1. Lists(Reconciled(d), SlugsOf(place, mark, d))
      BY <1>0, ReconciledLists, Bridge
    <3>2. Lists(Without(Reconciled(d), old), SlugsOf(place, mark, d) \ {old})
      BY <3>1, ListsWithout
    <3>3. SlugsOf(place, mark, d) \ {old} \subseteq Slugs
      BY <1>0, InvReadable, KinFacts DEF SlugsOf
    <3> QED
      BY <3>2, <3>3, SeqMonotonic DEF Lists
  <2>3. ASSUME NEW u, NEW v, u # old, v # old, Ahead(Reconciled(d), u, v) PROVE Ahead(a, u, v)
    <3>1. Ahead(Without(Reconciled(d), old), u, v)
      BY <1>3, <2>3, AheadWithout
    <3> HIDE DEF old
    <3> QED
      BY <2>2, <2>3, <3>1, AheadInsertSlug
  <2> HIDE DEF a
  <2>4. Agrees(a, n, place, mark, name, d, order[d])
    BY <1>0, <1>2, <1>4, <2>3, OwnAgrees
  <2>5. StepSteady(OrderStep(d, a), n, place, mark, name, order)
    BY <2>4, SteadyKinds
  <2>6. Steady(plan', n, place, mark, name, order)
    BY <2>1, <2>5, SteadyTuples
  <2> QED
    BY <1>1, <2>6, CallUnseen
<1>5. CASE d # from
  <2>1. plan' = <<RenameStep(n, d, s), OrderStep(from, l), OrderStep(d, r)>>
    BY <1>5 DEF Move, OrderStep, RenameStep, Spot
  <2>2. s \in Slugs /\ s \notin SlugsOf(place, mark, d)
    BY <1>0, <1>2, FreshSlug, Bridge
  <2>3. \A u, v : u # old /\ v # old /\ Ahead(Reconciled(from), u, v) => Ahead(l, u, v)
    BY <1>3, AheadWithout
  <2>4. Agrees(l, n, place, mark, name, from, order[from])
    BY <1>0, <1>2, <2>3, OwnAgrees
  <2>5. \A u, v : u # s /\ v # s /\ Ahead(Reconciled(d), u, v) => Ahead(r, u, v)
    <3> HIDE DEF s
    <3> QED
      BY <1>3, AheadInsertSlug
  <2> HIDE DEF s, r, l, from
  <2>6. Agrees(r, n, place, mark, name, d, order[d])
    BY <1>0, <2>2, <2>5, FreshAgrees
  <2>7. /\ StepSteady(RenameStep(n, d, s), n, place, mark, name, order)
        /\ StepSteady(OrderStep(from, l), n, place, mark, name, order)
        /\ StepSteady(OrderStep(d, r), n, place, mark, name, order)
    BY <1>1, <2>4, <2>6, SteadyKinds
  <2>8. Steady(plan', n, place, mark, name, order)
    BY <2>1, <2>7, SteadyTuples
  <2> QED
    BY <1>1, <2>8, CallUnseen
<1> QED
  BY <1>4, <1>5

-----------------------------------------------------------------------------
(* The file operations. *)

\* Nothing that holds something has lost its mark.
Whole(at, mk) == \A k \in Nodes : at[k] # None /\ at[k].parent # Root => mk[at[k].parent] # "none"

LEMMA WholeIs ==
  /\ \A p, at, mk : Whole(at, mk) => Hollow(p, at, mk)
  /\ Hollow(plan, place, mark) /\ (plan = <<>> \/ Head(plan).do # "remove") => Whole(place, mark)
<1>1. \A p, at, mk : Whole(at, mk) => Hollow(p, at, mk)
  BY DEF Whole, Hollow
<1>2. ASSUME Hollow(plan, place, mark), plan = <<>> PROVE Whole(place, mark)
  BY <1>2 DEF Whole, Hollow
<1>3. ASSUME Hollow(plan, place, mark), Head(plan).do # "remove" PROVE Whole(place, mark)
  <2>1. Head(plan) = plan[1]
    OBVIOUS
  <2> QED
    BY <1>3, <2>1 DEF Whole, Hollow
<1> QED
  BY <1>1, <1>2, <1>3

LEMMA EmptyList ==
  /\ \A x : RemoveFirst(<<>>, x) = <<>>
  /\ \A s : Lists(s, {}) => s = <<>>
<1>1. Lists(<<>>, {}) /\ Sorted(<<>>, {})
  BY DEF Lists, Sorted
<1>2. ASSUME NEW x PROVE RemoveFirst(<<>>, x) = <<>>
  <2> DEFINE s == <<>>
             T == {}
  <2>1. Lists(s, T) /\ Sorted(s, T)
    BY <1>1
  <2> HIDE DEF s, T
  <2>2. x \notin T => RemoveFirst(s, x) = s
    BY ONLY <2>1, ListsRemoveFirst
  <2> QED
    BY <2>2 DEF s, T
<1>3. \A s : Lists(s, {}) => s = <<>>
  BY DEF Lists
<1> QED
  BY <1>2, <1>3

\* A folder that x is not in, or what is no folder, before and after.
LEMMA KidsElsewhere ==
  ASSUME Reads, Reads', NEW d \in Dirs,
         d \in FoldersOf(place, mark) <=> d \in FoldersOf(place', mark'),
         NEW x, d \in FoldersOf(place, mark) => Calm(d, x)
  PROVE  /\ x \notin Kin(place', mark', d) => Kids'[d] = RemoveFirst(Kids[d], x)
         /\ x \notin Kin(place, mark, d) /\ x \notin Kin(place', mark', d) => Kids'[d] = Kids[d]
<1>1. CASE d \in FoldersOf(place, mark)
  BY <1>1, CalmKids
<1>2. CASE d \notin FoldersOf(place, mark)
  <2>1. Kids[d] = <<>> /\ Kids'[d] = <<>>
    BY <1>2 DEF Reads
  <2> QED
    BY <2>1, EmptyList
<1> QED
  BY <1>1, <1>2

\* Folders and items are those that are seen, and the root.
LEMMA PresentIs ==
  ASSUME Reads
  PROVE  /\ \A n \in Nodes : n \in Shows!Present <=> Seen(place, mark, n)
         /\ FoldersOf(place, mark) \subseteq Shows!Present \cup {Root}
         /\ Shows!Places = Dirs
         /\ \A d : Shows!ToSet(Kids[d]) = ToSet(Kids[d])
         /\ \A d, x : Shows!RemoveFirst(Kids[d], x) = RemoveFirst(Kids[d], x)
<1>1. FoldersOf(place, mark) \subseteq Shows!Present \cup {Root}
  BY DEF Reads, FoldersOf
<1>2. \A n \in Nodes : n \in Shows!Present <=> Seen(place, mark, n)
  BY DEF Reads
<1> QED
  BY <1>1, <1>2, SameWords, Words

LEMMA MkdirOrder ==
  ASSUME OrderInv, TreeInv', Reads, Reads', Mkdir
  PROVE  OrderInv' /\ Shows!Unseen
<1>0. TreeInv /\ place \in PlacesOf /\ Forest(place)
  BY InvReadable DEF OrderInv
<1>1. PICK n \in Nodes, d \in Dirs, s \in Slugs, k \in Kinds, t \in Names, l \in ListsOfSlugs :
        /\ plan = <<MkdirStep(n, d, s), MarkStep(n, k, t), OrderStep(d, l)>>
        /\ Head(plan) = MkdirStep(n, d, s)
        /\ Tail(plan) = <<MarkStep(n, k, t), OrderStep(d, l)>>
        /\ Creating(place, mark, name, n, d, s, t, l)
  BY <1>0, FormOf DEF MkdirForm, Mkdir
<1>2. Head(plan).node = n /\ Head(plan).spot = Spot(d, s) /\ Head(plan).do # "remove"
  BY <1>1 DEF MkdirStep
<1>3. /\ place' = [place EXCEPT ![n] = Spot(d, s)] /\ plan' = Tail(plan)
      /\ UNCHANGED <<mark, name, order, ops, torn>>
  BY <1>2 DEF Mkdir
<1>4. d \in FoldersOf(place, mark) /\ Agrees(l, n, place, mark, name, d, order[d])
  <2>1. PICK x \in Nodes \cup {None} : Steady(plan, x, place, mark, name, order)
    BY DEF OrderInv
  <2>2. /\ StepSteady(MkdirStep(n, d, s), x, place, mark, name, order)
        /\ StepSteady(OrderStep(d, l), x, place, mark, name, order)
    BY <1>1, <2>1, SteadyTuples
  <2>3. n = x /\ d \in FoldersOf(place, mark) /\ Agrees(l, x, place, mark, name, d, order[d])
    BY <2>2, SteadyKinds
  <2> QED
    BY <2>3
<1>5. mark[n] = "none" /\ place[n] \in {None, Spot(d, s)}
  BY <1>1 DEF Creating
<1>6. /\ place'[n] = Spot(d, s) /\ Spot(d, s) # None /\ Spot(d, s).parent = d
      /\ \A m \in Nodes \ {n} : place'[m] = place[m]
  BY <1>0, <1>3, SpotFacts DEF PlacesOf
<1>7. SameSeen(place, place', mark, mark)
  BY <1>0, <1>3, <1>5, MkdirSeen
<1>8. FoldersOf(place', mark) = FoldersOf(place, mark)
  BY <1>7, SameFolders
<1>9. Shows!Unseen
  <2>1. \A y \in Nodes : Seen(place, mark, y) => place'[y] = place[y]
    BY <1>5, <1>6 DEF Seen
  <2> QED
    BY <1>3, <1>7, <2>1, UnseenStep
<1>10. Steady(plan', n, place', mark, name, order)
  <2>0. mark[n] = "none" => place'[n] = None \/ place'[n].parent \in FoldersOf(place', mark)
    BY <1>4, <1>6, <1>8
  <2>1. StepSteady(MarkStep(n, k, t), n, place', mark, name, order)
    BY <1>5, <2>0, SteadyKinds
  <2>2. \A m \in Kin(place', mark, d) \ {n} : m \in Kin(place, mark, d) /\ place'[m] = place[m]
    BY <1>6 DEF Kin
  <2>3. Agrees(l, n, place', mark, name, d, order[d])
    BY <1>4, <2>2, AgreesKept
  <2>4. StepSteady(OrderStep(d, l), n, place', mark, name, order)
    BY <2>3, SteadyKinds
  <2> QED
    BY <1>1, <1>3, <2>1, <2>4, SteadyTuples
<1>11. torn \/ Hollow(plan', place', mark)
  <2> SUFFICES ASSUME ~ torn PROVE Whole(place', mark)
    BY WholeIs
  <2>1. Whole(place, mark)
    BY <1>2, WholeIs DEF OrderInv
  <2>2. d # Root => mark[d] # "none"
    BY <1>4 DEF FoldersOf
  <2> QED
    BY <1>6, <2>1, <2>2 DEF Whole
<1> QED
  BY <1>3, <1>9, <1>10, <1>11 DEF OrderInv

\* A new item is shown at the end of its folder, with what its directory still held.
LEMMA MarkInserts ==
  ASSUME TreeInv, TreeInv', Reads, Reads', torn \/ Whole(place, mark),
         NEW n \in Nodes, NEW d \in FoldersOf(place, mark), NEW k \in Kinds, NEW t \in Names,
         place[n] # None, place[n].parent = d, mark[n] = "none", ~ Named(place, mark, name, d, t),
         mark' = [mark EXCEPT ![n] = k], name' = [name EXCEPT ![n] = t],
         order' = [order EXCEPT ![n] = <<>>], UNCHANGED <<place, torn>>
  PROVE  Shows!Insert(n, d)
<1>0. /\ place \in PlacesOf /\ Forest(place) /\ mark \in [Nodes -> Marks]
      /\ name \in [Nodes -> Names \cup {None}] /\ order \in [Dirs -> Seq(Slugs)]
      /\ n \in Dirs /\ d \in Dirs /\ n # Root
  BY InvReadable, RootAssumption DEF TreeInv, TreeTyped, Reads, Dirs
<1>1. /\ mark'[n] = k /\ name'[n] = t /\ k # "none"
      /\ \A m \in Nodes \ {n} : mark'[m] = mark[m] /\ name'[m] = name[m]
      /\ \A m \in Dirs \ {n} : order'[m] = order[m]
  BY <1>0 DEF Kinds
<1>2. /\ ~ Seen(place, mark, n) /\ Seen(place, mark', n)
      /\ \A y \in Nodes : n \notin Chain(place, y) => (Seen(place, mark', y) <=> Seen(place, mark, y))
      /\ \A y \in Nodes : n \in Chain(place, y) => ~ Seen(place, mark, y)
      /\ d \in FoldersOf(place, mark')
  <2>1. Uncovered(place, mark, mark', n)
    BY <1>0, <1>1, MarkSeen
  <2> QED
    BY <2>1 DEF Uncovered
<1>3. n \in Chain(place, n) /\ n \notin Chain(place, Root)
  BY <1>0, ChainIs, ChainOfRoot DEF ChainFacts
<1>4. Shows!Within(n)' = {m \in Nodes : Seen(place, mark', m) /\ n \in Chain(place, m)}
  BY <1>2 DEF Reads
\* Folders that are not below it are what they were.
<1>5. ASSUME NEW f \in FoldersOf(place, mark) PROVE n \notin Chain(place, f) /\ Calm(f, n) /\ f \in Dirs
  <2>1. f \in Dirs /\ f # n /\ n \notin Chain(place, f)
    BY <1>0, <1>2, <1>3 DEF FoldersOf, Dirs
  <2>2. f \in FoldersOf(place, mark')
    BY <1>1, <1>2, <2>1 DEF FoldersOf
  <2>3. ASSUME NEW y \in Nodes \ {n}, place[y] # None, place[y].parent = f
        PROVE  Seen(place, mark', y) <=> Seen(place, mark, y)
    <3>1. n \notin Chain(place, y)
      BY <1>0, <2>1, <2>3, ChainOfParent
    <3> QED
      BY <1>2, <3>1
  <2>4. \A y \in Nodes \ {n} : Seen(place, mark, y) /\ place[y].parent = f =>
          Seen(place, mark', y) /\ name'[y] = name[y]
    BY <1>1, <2>3 DEF Seen
  <2>5. \A y \in Nodes \ {n} : Seen(place, mark', y) /\ place[y].parent = f => Seen(place, mark, y)
    BY <2>3 DEF Seen
  <2>6. order'[f] = order[f]
    BY <1>1, <2>1
  <2> QED
    BY <2>1, <2>2, <2>4, <2>5, <2>6 DEF Calm
<1>6. n \in Nodes \ Shows!Present /\ d \in Shows!Present \cup {Root}
  BY <1>2, PresentIs
<1>7. Shows!Present' = Shows!Present \cup Shows!Within(n)'
  <2>1. Shows!Present' = {m \in Nodes : Seen(place, mark', m)}
    BY DEF Reads
  <2>2. Shows!Present = {m \in Nodes : Seen(place, mark, m)}
    BY DEF Reads
  <2> QED
    BY <1>2, <1>4, <2>1, <2>2
<1>8. torn \/ Kids'[n] = <<>>
  <2> SUFFICES ASSUME ~ torn PROVE Kids'[n] = <<>>
    OBVIOUS
  <2>1. Kin(place, mark', n) = {}
    BY <1>0 DEF Kin, Whole
  <2>2. CASE n \in FoldersOf(place, mark')
    <3>1. Kids'[n] = Ordered(n)' /\ Lists(Ordered(n)', Kin(place, mark', n))
      BY <1>0, <2>2 DEF Reads
    <3> QED
      BY <2>1, <3>1, EmptyList
  <2>3. CASE n \notin FoldersOf(place, mark')
    BY <1>0, <2>3 DEF Reads
  <2> QED
    BY <2>2, <2>3
<1>9. n \in ToSet(Kids'[d]) /\ RemoveFirst(Kids'[d], n) = Kids[d]
  <2>1. n \in Kin(place, mark', d) /\ n \notin Kin(place, mark, d)
    BY <1>1 DEF Kin
  <2>2. ToSet(Kids'[d]) = Kin(place, mark', d)
    BY <1>2 DEF Reads
  <2> QED
    BY <1>5, <2>1, <2>2, CalmKids
<1>10. ASSUME NEW m \in Dirs \ ({d} \cup Shows!Within(n)') PROVE Kids'[m] = Kids[m]
  <2>1. m \in FoldersOf(place, mark) => Calm(m, n)
    BY <1>5
  <2>2. m \in FoldersOf(place, mark) <=> m \in FoldersOf(place, mark')
    <3>1. m \in FoldersOf(place, mark) => m \in FoldersOf(place, mark')
      BY <2>1 DEF Calm
    <3>2. ASSUME m \in FoldersOf(place, mark'), m # Root PROVE m \in FoldersOf(place, mark)
      <4>1. m \in Nodes /\ Seen(place, mark', m) /\ mark'[m] = "folder"
        BY <3>2 DEF FoldersOf
      <4>2. n \notin Chain(place, m)
        BY <1>4, <4>1
      <4>3. Seen(place, mark, m) /\ m # n
        BY <1>2, <1>3, <4>1, <4>2
      <4> QED
        BY <1>1, <4>1, <4>3 DEF FoldersOf
    <3> QED
      BY <3>1, <3>2 DEF FoldersOf
  <2>3. n \notin Kin(place, mark, m) /\ n \notin Kin(place, mark', m)
    BY DEF Kin
  <2> QED
    BY <2>1, <2>2, <2>3, KidsElsewhere
<1>11. Titles'[n] = t /\ \A m \in Nodes : Seen(place, mark, m) => Titles[m] = name[m] /\ Titles'[m] = Titles[m]
  <2>1. Titles'[n] = t
    BY <1>1, <1>2 DEF Reads
  <2>2. ASSUME NEW m \in Nodes, Seen(place, mark, m) PROVE Titles[m] = name[m] /\ Titles'[m] = Titles[m]
    <3>1. n \notin Chain(place, m) /\ m # n
      BY <1>2, <2>2
    <3>2. Titles[m] = name[m] /\ Titles'[m] = name'[m]
      BY <1>2, <2>2, <3>1 DEF Reads
    <3> QED
      BY <1>1, <3>1, <3>2
  <2> QED
    BY <2>1, <2>2
<1>12. Shows!Free(d, Titles'[n], n)
  <2>1. ToSet(Kids[d]) = Kin(place, mark, d)
    BY DEF Reads
  <2>2. \A m \in Kin(place, mark, d) : m \in Nodes /\ Seen(place, mark, m) /\ name[m] # t
    <3>1. Kin(place, mark, d) = {m \in Nodes : Seen(place, mark, m) /\ place[m].parent = d}
      BY DEF Reads
    <3>2. \A m \in Kin(place, mark, d) : name[m] # t
      BY DEF Named
    <3> QED
      BY <3>1, <3>2
  <2>3. \A m \in ToSet(Kids[d]) \ {n} : Titles[m] # Titles'[n]
    BY <1>11, <2>1, <2>2
  <2> QED
    BY <2>3, SameWords DEF Shows!Free
<1>13. \A m \in Shows!Present : Titles'[m] = Titles[m]
  BY <1>11 DEF Reads
<1>14. /\ n \in Shows!ToSet(Kids'[d]) /\ Shows!RemoveFirst(Kids'[d], n) = Kids[d]
       /\ \A m \in Shows!Places \ ({d} \cup Shows!Within(n)') : Kids'[m] = Kids[m]
  BY <1>9, <1>10, SameWords, Words
<1> QED
  BY <1>6, <1>7, <1>8, <1>12, <1>13, <1>14 DEF Shows!Insert

\* An item's new name.
LEMMA NameRenames ==
  ASSUME TreeInv, Reads, Reads', NEW n \in Nodes, Seen(place, mark, n), NEW t \in Names,
         ~ Named(place, mark, name, place[n].parent, t),
         name' = [name EXCEPT ![n] = t], UNCHANGED <<place, mark, order, torn>>
  PROVE  Shows!Rename(n)
<1> DEFINE d == place[n].parent
<1>1. d \in FoldersOf(place, mark) /\ d \in Dirs /\ n \in Kin(place, mark, d)
  <2>1. d \in FoldersOf(place, mark)
    BY DEF Reads
  <2> QED
    BY <2>1 DEF Reads
<1>2. name'[n] = t /\ \A m \in Nodes \ {n} : name'[m] = name[m]
  BY InvReadable DEF TreeTyped
<1>3. \A f \in FoldersOf(place, mark) : Calm(f, n)
  BY <1>2 DEF Calm
<1> HIDE DEF d
<1>4. n \in ToSet(Kids[d]) /\ n \in ToSet(Kids'[d]) /\ RemoveFirst(Kids'[d], n) = RemoveFirst(Kids[d], n)
  <2>1. ToSet(Kids[d]) = Kin(place, mark, d) /\ ToSet(Kids'[d]) = Kin(place, mark, d)
    BY <1>1 DEF Reads
  <2>2. RemoveFirst(Kids'[d], n) = RemoveFirst(Kids[d], n)
    BY <1>1, <1>3, CalmKids
  <2> QED
    BY <1>1, <2>1, <2>2
<1>5. ASSUME NEW m \in Dirs \ {d} PROVE Kids'[m] = Kids[m]
  <2>1. n \notin Kin(place, mark, m)
    BY DEF Kin, d
  <2> QED
    BY <1>3, <2>1, KidsElsewhere
<1>6. \A m \in Nodes : Seen(place, mark, m) => Titles[m] = name[m] /\ Titles'[m] = name'[m]
  BY DEF Reads
<1>7. Shows!Free(d, Titles'[n], n)
  <2>1. ToSet(Kids[d]) = Kin(place, mark, d)
    BY <1>1 DEF Reads
  <2>2. \A m \in Kin(place, mark, d) : m \in Nodes /\ Seen(place, mark, m) /\ name[m] # t
    BY <1>1 DEF Reads, Named, d
  <2>3. \A m \in ToSet(Kids[d]) \ {n} : Titles[m] # Titles'[n]
    BY <1>2, <1>6, <2>1, <2>2
  <2> QED
    BY <2>3, SameWords DEF Shows!Free
<1>8. Shows!Present' = Shows!Present /\ n \in Shows!Present /\ d \in Shows!Present \cup {Root}
  <2>1. Shows!Present' = {m \in Nodes : Seen(place, mark, m)}
    BY DEF Reads
  <2>2. Shows!Present = {m \in Nodes : Seen(place, mark, m)}
    BY DEF Reads
  <2> QED
    BY <1>1, <2>1, <2>2, PresentIs
<1>9. \A m \in Shows!Present \ {n} : Titles'[m] = Titles[m]
  BY <1>2, <1>6 DEF Reads
<1>10. /\ n \in Shows!ToSet(Kids[d]) /\ n \in Shows!ToSet(Kids'[d])
       /\ Shows!RemoveFirst(Kids'[d], n) = Shows!RemoveFirst(Kids[d], n)
       /\ \A m \in Shows!Places \ {d} : Kids'[m] = Kids[m]
  BY <1>4, <1>5, SameWords, Words
<1> QED
  BY <1>7, <1>8, <1>9, <1>10 DEF Shows!Rename

LEMMA MarkOrder ==
  ASSUME OrderInv, TreeInv', Reads, Reads', Mark
  PROVE  OrderInv' /\ Shows!Next
<1>0. TreeInv /\ place \in PlacesOf /\ Forest(place) /\ TreeTyped(place, mark, name)
  BY InvReadable DEF OrderInv
<1>1. PICK x \in Nodes \cup {None} : Steady(plan, x, place, mark, name, order)
  BY DEF OrderInv
<1>2. CASE \E n \in Nodes, d \in Dirs, s \in Slugs, k \in Kinds, t \in Names, l \in ListsOfSlugs :
             /\ plan = <<MarkStep(n, k, t), OrderStep(d, l)>>
             /\ Head(plan) = MarkStep(n, k, t)
             /\ Tail(plan) = <<OrderStep(d, l)>>
             /\ Marking(place, mark, name, n, d, s, t, l)
  <2>1. PICK n \in Nodes, d \in Dirs, s \in Slugs, k \in Kinds, t \in Names, l \in ListsOfSlugs :
          /\ plan = <<MarkStep(n, k, t), OrderStep(d, l)>>
          /\ Head(plan) = MarkStep(n, k, t)
          /\ Tail(plan) = <<OrderStep(d, l)>>
          /\ Marking(place, mark, name, n, d, s, t, l)
    BY <1>2
  <2>2. Head(plan).node = n /\ Head(plan).kind = k /\ Head(plan).name = t /\ Head(plan).do # "remove"
    BY <2>1 DEF MarkStep
  <2>3. place[n] # None /\ place[n].parent = d /\ mark[n] = "none" /\ ~ Named(place, mark, name, d, t)
    BY <2>1, SpotFacts DEF Marking
  <2>4. /\ mark' = [mark EXCEPT ![n] = k] /\ name' = [name EXCEPT ![n] = t]
        /\ order' = [order EXCEPT ![n] = <<>>]
        /\ plan' = Tail(plan) /\ UNCHANGED <<place, ops, torn>>
    BY <2>2, <2>3 DEF Mark
  <2>5. n = x /\ d \in FoldersOf(place, mark) /\ Agrees(l, n, place, mark, name, d, order[d])
    <3>1. /\ StepSteady(MarkStep(n, k, t), x, place, mark, name, order)
          /\ StepSteady(OrderStep(d, l), x, place, mark, name, order)
      BY <1>1, <2>1, SteadyTuples
    <3>2. n = x /\ (mark[x] = "none" => place[x] = None \/ place[x].parent \in FoldersOf(place, mark))
      BY <3>1, SteadyKinds
    <3>3. Agrees(l, x, place, mark, name, d, order[d])
      BY <3>1, SteadyKinds
    <3> QED
      BY <2>3, <3>2, <3>3
  <2>6. torn \/ Whole(place, mark)
    BY <2>2, WholeIs DEF OrderInv
  <2>7. Shows!Insert(n, d)
    BY <1>0, <2>3, <2>4, <2>5, <2>6, MarkInserts
  <2>8. Steady(plan', n, place, mark', name', order')
    <3>1. d # n
      <4>1. n \notin Chain(place, d)
        BY <1>0, <2>3, NotAboveItself
      <4> QED
        BY <4>1, ChainIs, <1>0 DEF ChainFacts
    <3>2. order'[d] = order[d]
      BY <2>4, <3>1
    <3>3. \A m \in Kin(place, mark', d) \ {n} : m \in Kin(place, mark, d) /\ name'[m] = name[m]
      BY <1>0, <2>4 DEF Kin, TreeTyped
    <3>4. Agrees(l, n, place, mark', name', d, order'[d])
      BY <2>5, <3>2, <3>3, AgreesKept
    <3>5. StepSteady(OrderStep(d, l), n, place, mark', name', order')
      BY <3>4, SteadyKinds
    <3> QED
      BY <2>1, <2>4, <3>5, SteadyTuples
  <2>9. torn \/ Hollow(plan', place, mark')
    <3> SUFFICES ASSUME ~ torn PROVE Whole(place, mark')
      BY WholeIs
    <3>1. \A m \in Nodes : mark[m] # "none" => mark'[m] # "none"
      BY <1>0, <2>4 DEF Kinds, TreeTyped
    <3>2. ASSUME NEW c \in Nodes, place[c] # None, place[c].parent # Root
          PROVE  mark'[place[c].parent] # "none"
      <4>1. place[c].parent \in Nodes
        BY <1>0, <3>2, ParentIsDir DEF Dirs
      <4> QED
        BY <2>6, <3>1, <3>2, <4>1 DEF Whole
    <3> QED
      BY <3>2 DEF Whole
  <2>10. OrderInv'
    BY <2>4, <2>8, <2>9 DEF OrderInv
  <2> QED
    BY <2>7, <2>10, ShownSteps
<1>3. CASE \E n \in Nodes, k \in Kinds, t \in Names :
             /\ plan = <<MarkStep(n, k, t)>>
             /\ Head(plan) = MarkStep(n, k, t)
             /\ Tail(plan) = <<>>
             /\ Naming(place, mark, name, n, t)
  <2>1. PICK n \in Nodes, k \in Kinds, t \in Names :
          /\ plan = <<MarkStep(n, k, t)>>
          /\ Head(plan) = MarkStep(n, k, t)
          /\ Tail(plan) = <<>>
          /\ Naming(place, mark, name, n, t)
    BY <1>3
  <2>2. Head(plan).node = n /\ Head(plan).kind = k /\ Head(plan).name = t /\ Head(plan).do # "remove"
    BY <2>1 DEF MarkStep
  <2>3. mark[n] # "none" /\ ~ Named(place, mark, name, place[n].parent, t)
    BY <2>1 DEF Naming
  <2>4. n = x /\ Seen(place, mark, n) /\ k = mark[n]
    <3>1. StepSteady(MarkStep(n, k, t), x, place, mark, name, order)
      BY <1>1, <2>1, SteadyTuples
    <3>2. MarkStep(n, k, t).do = "mark" /\ MarkStep(n, k, t).node = n /\ MarkStep(n, k, t).kind = k
      BY DEF MarkStep
    <3>3. n = x /\ (mark[x] # "none" => Seen(place, mark, x) /\ k = mark[x])
      BY <3>1, <3>2 DEF StepSteady
    <3> QED
      BY <2>3, <3>3
  <2>5. /\ mark' = mark /\ name' = [name EXCEPT ![n] = t] /\ order' = order
        /\ plan' = <<>> /\ UNCHANGED <<place, ops, torn>>
    <3>1. mark' = [mark EXCEPT ![n] = mark[n]]
      BY <2>2, <2>4 DEF Mark
    <3>2. mark' = mark
      BY <1>0, <3>1 DEF TreeTyped
    <3> QED
      BY <2>1, <2>2, <2>3, <3>2 DEF Mark
  <2>6. Shows!Rename(n)
    BY <1>0, <2>3, <2>4, <2>5, NameRenames
  <2>7. torn \/ Hollow(plan', place, mark)
    BY <2>2, WholeIs DEF OrderInv
  <2>8. Steady(plan', x, place', mark', name', order')
    BY <2>5, SteadyTuples
  <2>9. OrderInv'
    BY <2>5, <2>7, <2>8 DEF OrderInv
  <2> QED
    BY <2>6, <2>9, ShownSteps
<1>4. MarkForm
  BY <1>0, FormOf DEF Mark
<1> QED
  BY <1>2, <1>3, <1>4 DEF MarkForm

\* A list is written: at most one item is shown elsewhere in its folder.
LEMMA ListMoves ==
  ASSUME TreeInv, TreeInv', Reads, Reads', NEW d \in FoldersOf(place, mark), NEW l \in ListsOfSlugs,
         NEW x \in Nodes \cup {None}, Agrees(l, x, place, mark, name, d, order[d]),
         order' = [order EXCEPT ![d] = l], UNCHANGED <<place, mark, name, torn>>
  PROVE  Shows!Next
<1>0. d \in Dirs /\ order'[d] = l /\ \A f \in Dirs \ {d} : order'[f] = order[f]
  BY DEF TreeInv, Reads
<1>1. /\ RemoveFirst(Ordered(d), x) = RemoveFirst(Ordered(d)', x)
      /\ x \notin Kin(place, mark, d) => Ordered(d) = Ordered(d)'
  <2>1. Kin(place, mark, d) \ {x} = Kin(place', mark', d) \ {x}
    OBVIOUS
  <2>2. ASSUME NEW m \in Kin(place, mark, d) \ {x}, NEW n \in Kin(place, mark, d) \ {x},
               Sooner(order[d], place, name, m, n)
        PROVE  Sooner(order'[d], place', name', m, n)
    <3>1. Ahead(l, place[m].slug, place[n].slug)
      BY <2>2 DEF Agrees
    <3>2. Sooner(l, place, name, m, n)
      BY <3>1 DEF Sooner
    <3> QED
      BY <1>0, <3>2
  <2>3. /\ RemoveFirst(Ordered(d), x) = RemoveFirst(Ordered(d)', x)
        /\ x \notin Kin(place, mark, d) => RemoveFirst(Ordered(d), x) = Ordered(d)
        /\ x \notin Kin(place', mark', d) => RemoveFirst(Ordered(d)', x) = Ordered(d)'
    BY <1>0, <2>1, <2>2, KidsApart
  <2>4. Kin(place', mark', d) = Kin(place, mark, d)
    OBVIOUS
  <2> QED
    BY <2>3, <2>4
<1>2. Kids[d] = Ordered(d) /\ Kids'[d] = Ordered(d)'
  BY DEF Reads
<1>3. SameSeen(place, place', mark, mark')
  BY DEF SameSeen
<1>4. ASSUME NEW m \in Dirs \ {d} PROVE Kids'[m] = Kids[m]
  <2>1. m \in FoldersOf(place, mark) => Calm(m, None)
    BY <1>0 DEF Calm
  <2>2. None \notin Kin(place, mark, m) /\ None \notin Kin(place', mark', m)
    BY RootAssumption DEF Kin
  <2>3. m \in FoldersOf(place, mark) <=> m \in FoldersOf(place', mark')
    OBVIOUS
  <2> QED
    BY <2>1, <2>2, <2>3, KidsElsewhere
<1>5. CASE x \notin Kin(place, mark, d)
  <2>1. \A f \in FoldersOf(place, mark) : Kids'[f] = Kids[f]
    <3>1. Kids'[d] = Kids[d]
      BY <1>1, <1>2, <1>5
    <3>2. FoldersOf(place, mark) \subseteq Dirs
      BY DEF Reads
    <3> QED
      BY <1>4, <3>1, <3>2
  <2>2. \A y \in Nodes : Seen(place, mark, y) => mark'[y] = mark[y] /\ name'[y] = name[y]
    OBVIOUS
  <2>3. Shows!Unseen
    BY <1>3, <2>1, <2>2, UnseenKids
  <2> QED
    BY <2>3, ShownSteps
<1>6. CASE x \in Kin(place, mark, d)
  <2>1. x \in Nodes /\ Seen(place, mark, x) /\ x \in Shows!Present /\ d \in Shows!Present \cup {Root}
    <3>1. x \in Nodes /\ Seen(place, mark, x)
      <4>1. Kin(place, mark, d) = {n \in Nodes : Seen(place, mark, n) /\ place[n].parent = d}
        BY DEF Reads
      <4> QED
        BY <1>6, <4>1
    <3>2. /\ \A n \in Nodes : n \in Shows!Present <=> Seen(place, mark, n)
          /\ FoldersOf(place, mark) \subseteq Shows!Present \cup {Root}
      BY PresentIs
    <3> QED
      BY <3>1, <3>2
  <2>2. x \in ToSet(Kids[d]) /\ x \in ToSet(Kids'[d]) /\ RemoveFirst(Kids'[d], x) = RemoveFirst(Kids[d], x)
    <3>1. ToSet(Kids[d]) = Kin(place, mark, d) /\ ToSet(Kids'[d]) = Kin(place, mark, d)
      BY DEF Reads
    <3> QED
      BY <1>1, <1>2, <1>6, <3>1
  <2>3. Titles' = Titles
    <3>1. \A y \in Nodes : Seen(place, mark, y) => name'[y] = name[y]
      OBVIOUS
    <3> QED
      BY <1>3, <3>1, TitlesKept
  <2>4. Shows!Free(d, Titles'[x], x)
    <3>1. ToSet(Kids[d]) = Kin(place, mark, d)
      BY DEF Reads
    <3>2. \A m \in Kin(place, mark, d) : Titles[m] = name[m]
      BY DEF Reads
    <3>3. \A m \in Kin(place, mark, d) \ {x} : name[m] # name[x]
      BY <1>0, <1>6 DEF TreeInv, TreeOK, Different
    <3>4. \A m \in ToSet(Kids[d]) \ {x} : Titles[m] # Titles'[x]
      BY <1>6, <2>3, <3>1, <3>2, <3>3
    <3> QED
      BY <3>4, SameWords DEF Shows!Free
  <2>5. Shows!Present' = Shows!Present /\ \A m \in Shows!Present \ {x} : Titles'[m] = Titles[m]
    BY <2>3 DEF Shows!Present
  <2>6. /\ x \in Shows!ToSet(Kids[d]) /\ x \in Shows!ToSet(Kids'[d])
        /\ Shows!RemoveFirst(Kids'[d], x) = Shows!RemoveFirst(Kids[d], x)
        /\ \A m \in Shows!Places \ {d} : Kids'[m] = Kids[m]
    BY <1>4, <2>2, SameWords, Words
  <2>7. Shows!Rename(x)
    BY <2>1, <2>4, <2>5, <2>6 DEF Shows!Rename
  <2> QED
    BY <2>1, <2>7, ShownSteps
<1> QED
  BY <1>5, <1>6

LEMMA WriteOrderOrder ==
  ASSUME OrderInv, TreeInv', Reads, Reads', WriteOrder
  PROVE  OrderInv' /\ Shows!Next
<1>0. TreeInv /\ order \in [Dirs -> Seq(Slugs)]
  BY DEF OrderInv, TreeInv
<1>1. PICK x \in Nodes \cup {None} : Steady(plan, x, place, mark, name, order)
  BY DEF OrderInv
<1>2. PICK d \in Dirs, l \in ListsOfSlugs :
        /\ Head(plan) = OrderStep(d, l)
        /\ Agrees(l, x, place, mark, name, d, order[d])
        /\ \/ Tail(plan) = <<>>
           \/ \E f \in Dirs, r \in ListsOfSlugs :
                /\ Tail(plan) = <<OrderStep(f, r)>> /\ f # d
                /\ Agrees(r, x, place, mark, name, f, order[f])
  <2>1. CASE \E d \in Dirs, l \in ListsOfSlugs :
               /\ plan = <<OrderStep(d, l)>>
               /\ Head(plan) = OrderStep(d, l)
               /\ Tail(plan) = <<>>
               /\ Listing(place, mark, d, l)
    <3>1. PICK d \in Dirs, l \in ListsOfSlugs :
            plan = <<OrderStep(d, l)>> /\ Head(plan) = OrderStep(d, l) /\ Tail(plan) = <<>>
      BY <2>1
    <3>2. StepSteady(OrderStep(d, l), x, place, mark, name, order)
      BY <1>1, <3>1, SteadyTuples
    <3>3. Agrees(l, x, place, mark, name, d, order[d])
      BY <3>2, SteadyKinds
    <3> QED
      BY <3>1, <3>3
  <2>2. CASE \E d \in Dirs, from \in Dirs, l \in ListsOfSlugs, r \in ListsOfSlugs :
               /\ plan = <<OrderStep(from, l), OrderStep(d, r)>>
               /\ Head(plan) = OrderStep(from, l)
               /\ Tail(plan) = <<OrderStep(d, r)>>
               /\ Moved(place, mark, from, l, d, r)
    <3>1. PICK d \in Dirs, from \in Dirs, l \in ListsOfSlugs, r \in ListsOfSlugs :
            /\ plan = <<OrderStep(from, l), OrderStep(d, r)>>
            /\ Head(plan) = OrderStep(from, l)
            /\ Tail(plan) = <<OrderStep(d, r)>>
            /\ Moved(place, mark, from, l, d, r)
      BY <2>2
    <3>2. /\ StepSteady(OrderStep(from, l), x, place, mark, name, order)
          /\ StepSteady(OrderStep(d, r), x, place, mark, name, order)
      BY <1>1, <3>1, SteadyTuples
    <3>3. Agrees(l, x, place, mark, name, from, order[from]) /\ Agrees(r, x, place, mark, name, d, order[d])
      BY <3>2, SteadyKinds
    <3>4. d # from
      BY <3>1 DEF Moved
    <3> QED
      BY <3>1, <3>3, <3>4
  <2>3. OrderForm
    BY <1>0, FormOf DEF WriteOrder
  <2> QED
    BY <2>1, <2>2, <2>3 DEF OrderForm
<1>3. Head(plan).dir = d /\ Head(plan).slugs = l /\ Head(plan).do # "remove"
  BY <1>2 DEF OrderStep
<1>4. /\ order' = [order EXCEPT ![d] = l] /\ plan' = Tail(plan)
      /\ UNCHANGED <<place, mark, name, ops, torn>>
  BY <1>3 DEF WriteOrder
<1>5. Steady(plan', x, place, mark, name, order')
  <2>1. CASE Tail(plan) = <<>>
    BY <1>4, <2>1, SteadyTuples
  <2>2. CASE \E f \in Dirs, r \in ListsOfSlugs :
               /\ Tail(plan) = <<OrderStep(f, r)>> /\ f # d
               /\ Agrees(r, x, place, mark, name, f, order[f])
    <3>1. PICK f \in Dirs, r \in ListsOfSlugs :
            /\ Tail(plan) = <<OrderStep(f, r)>> /\ f # d
            /\ Agrees(r, x, place, mark, name, f, order[f])
      BY <2>2
    <3>2. order'[f] = order[f]
      BY <1>0, <1>4, <3>1
    <3>3. StepSteady(OrderStep(f, r), x, place, mark, name, order')
      BY <3>1, <3>2, SteadyKinds
    <3> QED
      BY <1>4, <3>1, <3>3, SteadyTuples
  <2> QED
    BY <1>2, <2>1, <2>2
<1>6. torn \/ Hollow(plan', place, mark)
  BY <1>3, WholeIs DEF OrderInv
<1>7. OrderInv'
  BY <1>4, <1>5, <1>6 DEF OrderInv
<1>8. CASE d \in FoldersOf(place, mark)
  BY <1>0, <1>2, <1>4, <1>7, <1>8, ListMoves
<1>9. CASE d \notin FoldersOf(place, mark)
  <2>1. \A f \in FoldersOf(place, mark) : order'[f] = order[f]
    BY <1>0, <1>4, <1>9 DEF Reads
  <2>2. SameSeen(place, place', mark, mark')
    BY <1>4 DEF SameSeen
  <2>3. Shows!Unseen
    BY <1>4, <2>1, <2>2, UnseenStep
  <2> QED
    BY <1>7, <2>3, ShownSteps
<1> QED
  BY <1>8, <1>9

\* A directory moves with what is below it.
LEMMA DirMoves ==
  ASSUME TreeInv, TreeInv', Reads, Reads', NEW n \in Nodes, NEW d \in FoldersOf(place, mark), NEW s \in Slugs,
         Seen(place, mark, n), n \notin Chain(place, d), place[n].parent # d,
         ~ Named(place, mark, name, d, name[n]), SameSeen(place, place', mark, mark),
         place'[n] = Spot(d, s), \A y \in Nodes \ {n} : place'[y] # None => place'[y] = place[y],
         \A y \in Nodes \ {n} : mark[y] # "none" => place'[y] = place[y],
         UNCHANGED <<mark, name, order, torn>>
  PROVE  Shows!Move(n, d)
<1>0. d \in Dirs /\ Spot(d, s) # None /\ Spot(d, s).parent = d
  BY SpotFacts DEF Reads
<1>1. FoldersOf(place', mark') = FoldersOf(place, mark)
  BY SameFolders
<1>2. ASSUME NEW f \in FoldersOf(place, mark) PROVE Calm(f, n)
  <2>1. ASSUME NEW y \in Nodes \ {n}, Seen(place, mark, y) PROVE Seen(place', mark', y) /\ place'[y] = place[y]
    BY <2>1 DEF SameSeen, Seen
  <2>2. ASSUME NEW y \in Nodes \ {n}, Seen(place', mark', y) PROVE Seen(place, mark, y) /\ place'[y] = place[y]
    BY <2>2 DEF SameSeen, Seen
  <2> QED
    BY <1>1, <2>1, <2>2 DEF Calm
<1>3. Titles' = Titles
  BY TitlesKept
<1>4. n \in Shows!Present /\ d \in (Shows!Present \cup {Root}) \ Shows!Within(n)
  <2>1. Shows!Within(n) = {m \in Nodes : Seen(place, mark, m) /\ n \in Chain(place, m)}
    BY DEF Reads
  <2> QED
    BY <2>1, PresentIs
<1>5. Shows!Free(d, Titles[n], n)
  <2>1. ToSet(Kids[d]) = Kin(place, mark, d) /\ Titles[n] = name[n]
    BY DEF Reads
  <2>2. \A m \in Kin(place, mark, d) : Titles[m] = name[m] /\ name[m] # name[n]
    BY DEF Reads, Named
  <2>3. \A m \in ToSet(Kids[d]) \ {n} : Titles[m] # Titles[n]
    BY <2>1, <2>2
  <2> QED
    BY <2>3, SameWords DEF Shows!Free
<1>6. n \in ToSet(Kids'[d]) /\ RemoveFirst(Kids'[d], n) = RemoveFirst(Kids[d], n)
  <2>1. ToSet(Kids'[d]) = Kin(place', mark', d)
    BY <1>1 DEF Reads
  <2>2. n \in Kin(place', mark', d)
    BY <1>0 DEF Kin, Seen
  <2> QED
    BY <1>2, <2>1, <2>2, CalmKids
<1>7. ASSUME NEW m \in Dirs \ {d} PROVE Kids'[m] = RemoveFirst(Kids[m], n)
  <2>1. n \notin Kin(place', mark', m)
    BY <1>0 DEF Kin
  <2>2. m \in FoldersOf(place, mark) => Calm(m, n)
    BY <1>2
  <2>3. m \in FoldersOf(place, mark) <=> m \in FoldersOf(place', mark')
    BY <1>1
  <2> QED
    BY <2>1, <2>2, <2>3, KidsElsewhere
<1>8. /\ n \in Shows!ToSet(Kids'[d]) /\ Shows!RemoveFirst(Kids'[d], n) = Shows!RemoveFirst(Kids[d], n)
      /\ \A m \in Shows!Places \ {d} : Kids'[m] = Shows!RemoveFirst(Kids[m], n)
  BY <1>6, <1>7, SameWords, Words
<1> QED
  BY <1>3, <1>4, <1>5, <1>8 DEF Shows!Move

LEMMA RenameDirOrder ==
  ASSUME OrderInv, TreeInv', Reads, Reads', RenameDir
  PROVE  OrderInv' /\ Shows!Next
<1>0. TreeInv /\ place \in PlacesOf /\ Forest(place) /\ TreeOK(place, mark, name)
  BY InvReadable DEF OrderInv, TreeInv
<1>1. PICK n \in Nodes, d \in Dirs, s \in Slugs, from \in Dirs, l \in ListsOfSlugs, r \in ListsOfSlugs :
        /\ plan = <<RenameStep(n, d, s), OrderStep(from, l), OrderStep(d, r)>>
        /\ Head(plan) = RenameStep(n, d, s)
        /\ Tail(plan) = <<OrderStep(from, l), OrderStep(d, r)>>
        /\ Moving(place, mark, name, n, d, s, from, l, r)
  BY <1>0, FormOf DEF RenameForm, RenameDir
<1>2. Head(plan).node = n /\ Head(plan).spot = Spot(d, s) /\ Head(plan).do # "remove"
  BY <1>1 DEF RenameStep
<1>3. UNCHANGED <<mark, name, order, ops, torn>>
  BY DEF RenameDir
<1>4. /\ d \in FoldersOf(place, mark) /\ Seen(place, mark, n)
      /\ Agrees(l, n, place, mark, name, from, order[from])
      /\ Agrees(r, n, place, mark, name, d, order[d])
  <2>1. PICK x \in Nodes \cup {None} : Steady(plan, x, place, mark, name, order)
    BY DEF OrderInv
  <2>2. /\ StepSteady(RenameStep(n, d, s), x, place, mark, name, order)
        /\ StepSteady(OrderStep(from, l), x, place, mark, name, order)
        /\ StepSteady(OrderStep(d, r), x, place, mark, name, order)
    BY <1>1, <2>1, SteadyTuples
  <2>3. n = x /\ d \in FoldersOf(place, mark) /\ Seen(place, mark, x)
    BY <2>2, SteadyKinds
  <2>4. Agrees(l, x, place, mark, name, from, order[from]) /\ Agrees(r, x, place, mark, name, d, order[d])
    BY <2>2, SteadyKinds
  <2> QED
    BY <2>3, <2>4
<1>5. torn \/ Whole(place, mark)
  BY <1>2, WholeIs DEF OrderInv
<1> DEFINE full == \E m \in Nodes : place[m] = Spot(d, s)
<1>6. CASE full
  <2>1. plan' = <<>> /\ UNCHANGED place
    BY <1>2, <1>6 DEF RenameDir
  <2>2. SameSeen(place, place', mark, mark')
    BY <1>3, <2>1 DEF SameSeen
  <2>3. Shows!Unseen
    BY <1>3, <2>1, <2>2, UnseenStep
  <2>4. Steady(plan', n, place', mark', name', order')
    BY <2>1, SteadyTuples
  <2>5. torn \/ Hollow(plan', place, mark)
    BY <1>5, WholeIs
  <2>6. OrderInv'
    BY <1>3, <2>1, <2>4, <2>5 DEF OrderInv
  <2> QED
    BY <2>3, <2>6, ShownSteps
<1>7. CASE ~ full
  <2>1. plan' = Tail(plan)
    BY <1>2, <1>7 DEF RenameDir
  <2>2. place' = RenameTo(place, n, Spot(d, s))
    BY <1>0, <1>2, <1>7 DEF RenameDir, RenameTo, TreeInv, TreeOK, TreeTyped, PlacesOf
  <2>3. \A m \in Nodes : place[m] = Spot(d, s) => mark[m] = "none"
    BY <1>7
  <2>4. place' \in PlacesOf /\ Forest(place')
    BY DEF TreeInv, TreeOK, TreeTyped
  <2>5. n \notin Chain(place, d) /\ place[n].parent = from /\ from # d /\ ~ Named(place, mark, name, d, name[n])
    BY <1>1 DEF Moving
  <2>6. SameSeen(place, place', mark, mark)
    BY <1>0, <1>4, <2>2, <2>3, <2>4, <2>5, RenameSeen
  <2>7. /\ place'[n] = Spot(d, s) /\ Spot(d, s).parent = d
        /\ \A y \in Nodes \ {n} : place'[y] # None => place'[y] = place[y]
        /\ \A y \in Nodes \ {n} : mark[y] # "none" => place'[y] = place[y]
    BY <2>2, <2>3, SpotFacts DEF RenameTo
  <2>8. Shows!Move(n, d)
    BY <1>0, <1>3, <1>4, <2>5, <2>6, <2>7, DirMoves
  <2>9. Steady(plan', n, place', mark, name, order)
    <3>1. \A f : \A m \in Kin(place', mark, f) \ {n} : m \in Kin(place, mark, f) /\ place'[m] = place[m]
      BY <2>7 DEF Kin
    <3>2. Agrees(l, n, place', mark, name, from, order[from])
      BY <1>4, <3>1, AgreesKept
    <3>3. Agrees(r, n, place', mark, name, d, order[d])
      BY <1>4, <3>1, AgreesKept
    <3>4. /\ StepSteady(OrderStep(from, l), n, place', mark, name, order)
          /\ StepSteady(OrderStep(d, r), n, place', mark, name, order)
      BY <3>2, <3>3, SteadyKinds
    <3> QED
      BY <1>1, <2>1, <3>4, SteadyTuples
  <2>10. torn \/ Hollow(plan', place', mark)
    <3> SUFFICES ASSUME ~ torn PROVE Whole(place', mark)
      BY WholeIs
    <3>1. d # Root => mark[d] # "none"
      BY <1>4 DEF FoldersOf
    <3> QED
      BY <1>5, <2>7, <3>1 DEF Whole
  <2>11. OrderInv'
    BY <1>3, <2>9, <2>10 DEF OrderInv
  <2> QED
    BY <2>8, <2>11, ShownSteps
<1> QED
  BY <1>6, <1>7

\* An item's file goes: what is below it is no longer shown.
LEMMA MarkVanishes ==
  ASSUME TreeInv, TreeInv', Reads, Reads', NEW y \in Nodes, Seen(place, mark, y),
         mark' = [mark EXCEPT ![y] = "none"], name' = [name EXCEPT ![y] = None],
         order' = [order EXCEPT ![y] = <<>>], UNCHANGED <<place, torn>>
  PROVE  Shows!Vanish(y)
<1>0. /\ place \in PlacesOf /\ Forest(place) /\ mark \in [Nodes -> Marks]
      /\ name \in [Nodes -> Names \cup {None}] /\ order \in [Dirs -> Seq(Slugs)]
      /\ y \in Dirs /\ y # Root
  BY InvReadable, RootAssumption DEF TreeInv, TreeTyped, Dirs
<1>1. /\ mark'[y] = "none"
      /\ \A m \in Nodes \ {y} : mark'[m] = mark[m] /\ name'[m] = name[m]
      /\ \A m \in Dirs \ {y} : order'[m] = order[m]
  BY <1>0
<1>2. /\ \A z \in Nodes : y \in Chain(place, z) => ~ Seen(place, mark', z)
      /\ \A z \in Nodes : y \notin Chain(place, z) =>
           (Seen(place, mark', z) <=> Seen(place, mark, z)) /\ mark'[z] = mark[z]
  BY <1>0, RemoveMarkSeen
<1>3. y \in Chain(place, y) /\ y \notin Chain(place, Root)
  BY <1>0, ChainIs, ChainOfRoot DEF ChainFacts
<1>4. Shows!Within(y) = {m \in Nodes : Seen(place, mark, m) /\ y \in Chain(place, m)}
  BY DEF Reads
<1>5. ASSUME NEW f \in Dirs \ Shows!Within(y) PROVE Kids'[f] = RemoveFirst(Kids[f], y)
  <2>1. f \in FoldersOf(place, mark) => y \notin Chain(place, f)
    BY <1>3, <1>4 DEF FoldersOf
  <2>2. f \in FoldersOf(place, mark') => y \notin Chain(place, f)
    BY <1>2, <1>3 DEF FoldersOf
  <2>3. f \in FoldersOf(place, mark) <=> f \in FoldersOf(place, mark')
    BY <1>2, <2>1, <2>2 DEF FoldersOf
  <2>4. ASSUME f \in FoldersOf(place, mark) PROVE Calm(f, y)
    <3>1. y \notin Chain(place, f) /\ f # y
      BY <1>3, <2>1, <2>4
    <3>2. ASSUME NEW z \in Nodes \ {y}, place[z] # None, place[z].parent = f
          PROVE  Seen(place, mark', z) <=> Seen(place, mark, z)
      <4>1. y \notin Chain(place, z)
        BY <1>0, <3>1, <3>2, ChainOfParent
      <4> QED
        BY <1>2, <4>1
    <3>3. \A z \in Nodes \ {y} : Seen(place, mark, z) /\ place[z].parent = f =>
            Seen(place, mark', z) /\ name'[z] = name[z]
      BY <1>1, <3>2 DEF Seen
    <3>4. \A z \in Nodes \ {y} : Seen(place, mark', z) /\ place[z].parent = f => Seen(place, mark, z)
      BY <3>2 DEF Seen
    <3>5. order'[f] = order[f]
      BY <1>1, <3>1
    <3> QED
      BY <2>3, <2>4, <3>3, <3>4, <3>5 DEF Calm
  <2>5. y \notin Kin(place', mark', f)
    BY <1>1 DEF Kin
  <2> QED
    BY <2>3, <2>4, <2>5, KidsElsewhere
<1>6. ASSUME NEW f \in Shows!Within(y) PROVE f \in Dirs /\ Kids'[f] = <<>>
  <2>1. f \in Nodes /\ f \in Dirs /\ y \in Chain(place, f) /\ f # Root
    BY <1>3, <1>4, <1>6 DEF Dirs
  <2>2. f \notin FoldersOf(place, mark')
    BY <1>2, <2>1 DEF FoldersOf
  <2> QED
    BY <2>1, <2>2 DEF Reads
<1>7. Kids' = [f \in Dirs |-> IF f \in Shows!Within(y) THEN <<>> ELSE RemoveFirst(Kids[f], y)]
  <2>1. Kids' = [f \in Dirs |-> Kids'[f]]
    BY DEF Reads
  <2>2. \A f \in Dirs : Kids'[f] = IF f \in Shows!Within(y) THEN <<>> ELSE RemoveFirst(Kids[f], y)
    BY <1>5, <1>6
  <2> QED
    BY <2>1, <2>2
<1>8. Kids' = [f \in Shows!Places |-> IF f \in Shows!Within(y) THEN <<>> ELSE Shows!RemoveFirst(Kids[f], y)]
  BY <1>7, SameWords, Words
<1>9. Titles' = [m \in Shows!Present \ Shows!Within(y) |-> Titles[m]]
  <2>1. Titles' = [m \in {z \in Nodes : Seen(place, mark', z)} |-> name'[m]]
    BY DEF Reads
  <2>2. {z \in Nodes : Seen(place, mark', z)} = Shows!Present \ Shows!Within(y)
    <3>1. Shows!Present = {m \in Nodes : Seen(place, mark, m)}
      BY DEF Reads
    <3> QED
      BY <1>2, <1>4, <3>1
  <2>3. ASSUME NEW m \in Shows!Present \ Shows!Within(y) PROVE name'[m] = Titles[m]
    <3>1. m \in Nodes /\ Seen(place, mark, m)
      BY DEF Reads
    <3>2. m # y
      BY <1>3, <1>4
    <3> QED
      BY <1>1, <3>1, <3>2 DEF Reads
  <2> QED
    BY <2>1, <2>2, <2>3
<1>10. y \in Shows!Present
  BY PresentIs
<1> QED
  BY <1>8, <1>9, <1>10 DEF Shows!Vanish

LEMMA RemoveMarkOrder ==
  ASSUME OrderInv, TreeInv', Reads, Reads', RemoveMark
  PROVE  OrderInv' /\ Shows!Next
<1>0. /\ TreeInv /\ place \in PlacesOf /\ Forest(place) /\ mark \in [Nodes -> Marks]
      /\ name \in [Nodes -> Names \cup {None}] /\ order \in [Dirs -> Seq(Slugs)]
  BY InvReadable DEF OrderInv, TreeInv, TreeTyped
<1>1. PICK n \in Nodes, d \in Dirs, l \in ListsOfSlugs :
        /\ plan = <<RemoveStep(n), OrderStep(d, l)>>
        /\ Head(plan) = RemoveStep(n)
        /\ Removing(place, mark, n, d, l)
  BY <1>0, FormOf DEF RemoveForm, RemoveMark
<1>2. Head(plan).node = n /\ RemoveStep(n).do = "remove" /\ RemoveStep(n).node = n
  BY <1>1 DEF RemoveStep
<1>3. PICK y \in Nodes :
        /\ place[y] # None /\ n \in Chain(place, y)
        /\ mark' = [mark EXCEPT ![y] = "none"] /\ name' = [name EXCEPT ![y] = None]
        /\ order' = [order EXCEPT ![y] = <<>>]
  BY <1>2, Bridge DEF RemoveMark
<1>4. UNCHANGED <<place, plan, ops, torn>>
  BY DEF RemoveMark
<1>5. /\ mark'[y] = "none"
      /\ \A m \in Nodes \ {y} : mark'[m] = mark[m] /\ name'[m] = name[m]
      /\ \A m \in Dirs \ {y} : order'[m] = order[m]
  BY <1>0, <1>3
<1>6. Agrees(l, n, place, mark, name, d, order[d])
  <2>1. PICK x \in Nodes \cup {None} : Steady(plan, x, place, mark, name, order)
    BY DEF OrderInv
  <2>2. /\ StepSteady(RemoveStep(n), x, place, mark, name, order)
        /\ StepSteady(OrderStep(d, l), x, place, mark, name, order)
    BY <1>1, <2>1, SteadyTuples
  <2>3. n = x /\ Agrees(l, x, place, mark, name, d, order[d])
    BY <2>2, SteadyKinds
  <2> QED
    BY <2>3
<1>7. Steady(plan', n, place, mark', name', order')
  <2>1. d # y
    <3>1. place[n] # None /\ place[n].parent = d
      BY <1>1 DEF Removing
    <3>2. n \notin Chain(place, d)
      BY <1>0, <3>1, NotAboveItself
    <3> QED
      BY <1>3, <3>2
  <2>2. order'[d] = order[d]
    BY <1>5, <2>1
  <2>3. \A m \in Kin(place, mark', d) \ {n} : m \in Kin(place, mark, d) /\ name'[m] = name[m]
    BY <1>5 DEF Kin
  <2>4. Agrees(l, n, place, mark', name', d, order'[d])
    BY <1>6, <2>2, <2>3, AgreesKept
  <2>5. /\ StepSteady(RemoveStep(n), n, place, mark', name', order')
        /\ StepSteady(OrderStep(d, l), n, place, mark', name', order')
    BY <2>4, SteadyKinds
  <2> QED
    BY <1>1, <1>4, <2>5, SteadyTuples
<1>8. torn \/ Hollow(plan', place, mark')
  <2> SUFFICES ASSUME ~ torn PROVE Hollow(plan, place, mark')
    BY <1>4
  <2>1. plan # <<>> /\ plan[1].do = "remove" /\ plan[1].node = n
    BY <1>1, <1>2
  <2>2. ASSUME NEW c \in Nodes, place[c] # None, place[c].parent # Root, mark'[place[c].parent] = "none"
        PROVE  n \in Chain(place, place[c].parent)
    <3>1. CASE place[c].parent = y
      BY <1>3, <3>1
    <3>2. CASE place[c].parent # y
      <4>1. place[c].parent \in Nodes
        BY <1>0, <2>2, ParentIsDir DEF Dirs
      <4>2. mark[place[c].parent] = "none"
        BY <1>5, <2>2, <3>2, <4>1
      <4> QED
        BY <2>1, <2>2, <4>2 DEF OrderInv, Hollow
    <3> QED
      BY <3>1, <3>2
  <2> QED
    BY <2>1, <2>2 DEF Hollow
<1>9. OrderInv'
  BY <1>4, <1>7, <1>8 DEF OrderInv
<1>10. CASE Seen(place, mark, y)
  <2>1. TreeInv /\ TreeInv' /\ Reads /\ Reads' /\ y \in Nodes /\ UNCHANGED <<place, torn>>
    BY <1>0, <1>3, <1>4
  <2>2. /\ mark' = [mark EXCEPT ![y] = "none"] /\ name' = [name EXCEPT ![y] = None]
        /\ order' = [order EXCEPT ![y] = <<>>]
    BY <1>3
  <2>3. Shows!Vanish(y)
    BY <1>10, <2>1, <2>2, MarkVanishes
  <2> QED
    BY <1>9, <2>3, ShownSteps
<1>11. CASE ~ Seen(place, mark, y)
  <2>1. /\ \A z \in Nodes : y \in Chain(place, z) => ~ Seen(place, mark', z)
        /\ \A z \in Nodes : y \notin Chain(place, z) =>
             (Seen(place, mark', z) <=> Seen(place, mark, z)) /\ mark'[z] = mark[z]
    <3>1. place \in PlacesOf /\ mark \in [Nodes -> Marks] /\ y \in Nodes
      BY <1>0
    <3>2. mark' = [mark EXCEPT ![y] = "none"]
      BY <1>3
    <3> DEFINE mk2 == mark'
    <3>3. mk2 = [mark EXCEPT ![y] = "none"]
      BY <3>2
    <3> HIDE DEF mk2
    <3>4. /\ \A z \in Nodes : y \in Chain(place, z) => ~ Seen(place, mk2, z)
          /\ \A z \in Nodes : y \notin Chain(place, z) =>
               (Seen(place, mk2, z) <=> Seen(place, mark, z)) /\ mk2[z] = mark[z]
      BY <3>1, <3>3, RemoveMarkSeen
    <3> QED
      BY <3>4 DEF mk2
  <2>2. ASSUME NEW z \in Nodes, Seen(place, mark, z) PROVE y \notin Chain(place, z)
    <3> SUFFICES ASSUME y \in Chain(place, z) PROVE FALSE
      OBVIOUS
    <3>1. y \in FoldersOf(place, mark)
      BY <1>0, <1>11, <2>2, SeenAbove
    <3> QED
      BY <1>11, <3>1, RootAssumption DEF FoldersOf
  <2>3. SameSeen(place, place', mark, mark')
    BY <1>4, <2>1, <2>2 DEF SameSeen
  <2>4. \A z \in Nodes : Seen(place, mark, z) => mark'[z] = mark[z] /\ name'[z] = name[z]
    BY <1>5, <1>11
  <2>5. \A f \in FoldersOf(place, mark) : order'[f] = order[f]
    BY <1>5, <1>11, RootAssumption DEF FoldersOf, Dirs
  <2>6. Shows!Unseen
    BY <1>4, <2>3, <2>4, <2>5, UnseenStep
  <2> QED
    BY <1>9, <2>6, ShownSteps
<1> QED
  BY <1>10, <1>11

LEMMA RemoveDirOrder ==
  ASSUME OrderInv, TreeInv', Reads, Reads', RemoveDir
  PROVE  OrderInv' /\ Shows!Unseen
<1>0. /\ TreeInv /\ place \in PlacesOf /\ Forest(place)
      /\ place' \in PlacesOf
  BY InvReadable DEF OrderInv, TreeInv, TreeOK, TreeTyped
<1>1. PICK n \in Nodes, d \in Dirs, l \in ListsOfSlugs :
        /\ plan = <<RemoveStep(n), OrderStep(d, l)>>
        /\ Head(plan) = RemoveStep(n)
        /\ Tail(plan) = <<OrderStep(d, l)>>
        /\ Removing(place, mark, n, d, l)
  BY <1>0, FormOf DEF RemoveForm, RemoveDir
<1>2. Head(plan).node = n /\ RemoveStep(n).do = "remove" /\ RemoveStep(n).node = n
  BY <1>1 DEF RemoveStep
<1>3. PICK y \in Nodes :
        /\ place[y] # None /\ mark[y] = "none"
        /\ \A k \in Nodes : place[k] # None => place[k].parent # y
        /\ place' = [place EXCEPT ![y] = None]
        /\ plan' = IF y = n THEN Tail(plan) ELSE plan
  BY <1>2 DEF RemoveDir
<1>4. UNCHANGED <<mark, name, order, ops, torn>>
  BY DEF RemoveDir
<1>5. place'[y] = None /\ \A m \in Nodes \ {y} : place'[m] = place[m]
  BY <1>0, <1>3 DEF PlacesOf
<1>6. SameSeen(place, place', mark, mark)
  BY <1>0, <1>3, RemoveDirSeen
<1>7. Shows!Unseen
  <2>1. \A z \in Nodes : Seen(place, mark, z) => place'[z] = place[z]
    BY <1>3, <1>5 DEF Seen
  <2> QED
    BY <1>4, <1>6, <2>1, UnseenStep
<1>8. Agrees(l, n, place, mark, name, d, order[d])
  <2>1. PICK x \in Nodes \cup {None} : Steady(plan, x, place, mark, name, order)
    BY DEF OrderInv
  <2>2. /\ StepSteady(RemoveStep(n), x, place, mark, name, order)
        /\ StepSteady(OrderStep(d, l), x, place, mark, name, order)
    BY <1>1, <2>1, SteadyTuples
  <2>3. n = x /\ Agrees(l, x, place, mark, name, d, order[d])
    BY <2>2, SteadyKinds
  <2> QED
    BY <2>3
<1>9. Steady(plan', n, place', mark, name, order)
  <2>1. \A m \in Kin(place', mark, d) \ {n} : m \in Kin(place, mark, d) /\ place'[m] = place[m]
    BY <1>5 DEF Kin
  <2>2. Agrees(l, n, place', mark, name, d, order[d])
    BY <1>8, <2>1, AgreesKept
  <2>3. /\ StepSteady(RemoveStep(n), n, place', mark, name, order)
        /\ StepSteady(OrderStep(d, l), n, place', mark, name, order)
    BY <2>2, SteadyKinds
  <2>4. /\ Steady(<<RemoveStep(n), OrderStep(d, l)>>, n, place', mark, name, order)
        /\ Steady(<<OrderStep(d, l)>>, n, place', mark, name, order)
    BY <2>3, SteadyTuples
  <2> QED
    BY <1>1, <1>3, <2>4
<1>10. torn \/ Hollow(plan', place', mark)
  <2> SUFFICES ASSUME ~ torn PROVE Hollow(plan', place', mark)
    OBVIOUS
  <2>1. plan # <<>> /\ plan[1].do = "remove" /\ plan[1].node = n
    BY <1>1, <1>2
  <2>2. ASSUME NEW c \in Nodes, place'[c] # None, place'[c].parent # Root, mark[place'[c].parent] = "none"
        PROVE  /\ place'[c] = place[c] /\ n \in Chain(place, place[c].parent)
               /\ place[c].parent \in Nodes /\ place[c].parent # y
    <3>1. place'[c] = place[c]
      BY <1>5, <2>2
    <3>2. n \in Chain(place, place[c].parent)
      BY <2>1, <2>2, <3>1 DEF OrderInv, Hollow
    <3>3. place[c].parent \in Nodes
      BY <1>0, <2>2, <3>1, ParentIsDir DEF Dirs
    <3> QED
      BY <1>3, <2>2, <3>1, <3>2, <3>3
  <2>3. CASE y # n
    <3>1. \A f \in Dirs \ {y} : Chain(place', f) = Chain(place, f)
      BY <1>0, <1>3, <1>5, DropEmpty
    <3>2. plan' = plan
      BY <1>3, <2>3
    <3>3. ASSUME NEW c \in Nodes, place'[c] # None, place'[c].parent # Root, mark[place'[c].parent] = "none"
          PROVE  n \in Chain(place', place'[c].parent)
      <4>1. /\ place'[c] = place[c] /\ n \in Chain(place, place[c].parent)
            /\ place[c].parent \in Nodes /\ place[c].parent # y
        BY <2>2, <3>3
      <4>2. Chain(place', place[c].parent) = Chain(place, place[c].parent)
        BY <3>1, <4>1 DEF Dirs
      <4> QED
        BY <4>1, <4>2
    <3> QED
      BY <2>1, <3>2, <3>3 DEF Hollow
  <2>4. CASE y = n
    <3>1. Whole(place', mark)
      <4> SUFFICES ASSUME NEW c \in Nodes, place'[c] # None, place'[c].parent # Root, mark[place'[c].parent] = "none"
                   PROVE  FALSE
        BY DEF Whole
      <4>1. n \in Chain(place, place[c].parent) /\ place[c].parent \in Dirs /\ place[c].parent # n
        BY <2>2, <2>4 DEF Dirs
      <4>2. \E k \in Nodes : place[k] # None /\ place[k].parent = n
        BY <1>0, <4>1, AboveHasChild
      <4> QED
        BY <1>3, <2>4, <4>2
    <3> QED
      BY <3>1, WholeIs
  <2> QED
    BY <2>3, <2>4
<1>11. OrderInv'
  BY <1>4, <1>9, <1>10 DEF OrderInv
<1> QED
  BY <1>7, <1>11

LEMMA CutOrder ==
  ASSUME OrderInv, TreeInv', Reads, Reads', Cut
  PROVE  OrderInv' /\ Shows!Unseen
<1>1. /\ plan' = <<>> /\ UNCHANGED <<place, mark, name, order>>
      /\ plan # <<>> /\ torn' = (torn \/ Todo("remove"))
  BY DEF Cut
<1>2. Shows!Unseen
  <2>1. torn => torn'
    BY <1>1
  <2> QED
    BY <1>1, <2>1, UnseenStep DEF SameSeen
<1>3. Steady(plan', None, place', mark', name', order')
  BY <1>1, SteadyTuples
<1>4. torn' \/ Hollow(plan', place, mark)
  BY <1>1, WholeIs DEF OrderInv, Todo
<1>5. torn' \/ Hollow(plan', place', mark')
  BY <1>1, <1>4
<1> QED
  BY <1>2, <1>3, <1>5 DEF OrderInv

LEMMA OrderStepKeeps ==
  ASSUME OrderInv, [Next]_vars
  PROVE  OrderInv' /\ Shows!Next
<1>1. TreeInv'
  BY TreeStep DEF OrderInv
<1>2. Reads /\ Reads'
  BY <1>1, ReadsBoth DEF OrderInv
<1>3. CASE Handler
  BY <1>1, <1>2, <1>3, CreateOrder, RenameItemOrder, DeleteOrder, MoveOrder, ShownSteps DEF Handler
<1>4. CASE FileOp
  BY <1>1, <1>2, <1>4, MkdirOrder, MarkOrder, WriteOrderOrder, RenameDirOrder, RemoveMarkOrder,
     RemoveDirOrder, ShownSteps DEF FileOp
<1>5. CASE Cut
  BY <1>1, <1>2, <1>5, CutOrder, ShownSteps
<1>6. CASE UNCHANGED vars
  <2>1. UNCHANGED <<place, mark, name, order, plan, torn>>
    BY <1>6 DEF vars
  <2>2. Shows!Unseen
    BY <1>2, <2>1, UnseenStep DEF SameSeen
  <2>3. OrderInv'
    BY <1>1, <2>1 DEF OrderInv
  <2> QED
    BY <2>2, <2>3, ShownSteps
<1> QED
  BY <1>3, <1>4, <1>5, <1>6 DEF Next

LEMMA OrderInit ==
  ASSUME Init
  PROVE  OrderInv /\ Shows!Init
<1>0. /\ TreeInv /\ Reads
      /\ place \in PlacesOf /\ Forest(place) /\ TreeTyped(place, mark, name)
      /\ Different(place, mark, name)
  BY TreeInit, ReadsAs, InvReadable DEF TreeInv, TreeOK
<1>1. /\ plan = <<>>
      /\ torn = \E n, m \in Nodes : place[n] # None /\ place[n].parent = m /\ mark[m] = "none"
  BY DEF Init
<1>2. torn \/ Hollow(plan, place, mark)
  <2>1. ASSUME ~ torn, NEW c \in Nodes, place[c] # None, place[c].parent # Root PROVE mark[place[c].parent] # "none"
    <3>1. place[c].parent \in Nodes
      BY <1>0, <2>1, ParentIsDir DEF Dirs
    <3> QED
      BY <1>1, <2>1, <3>1
  <2>2. ~ torn => Whole(place, mark)
    BY <2>1 DEF Whole
  <2> QED
    BY <2>2, WholeIs
<1>3. OrderInv
  <2>1. Steady(plan, None, place, mark, name, order)
    BY <1>1, SteadyTuples
  <2> QED
    BY <1>0, <1>2, <2>1 DEF OrderInv
<1>4. Kids \in [Shows!Places -> Seq(Nodes)]
  <2>1. Kids = [d \in Dirs |-> Kids[d]]
    BY <1>0 DEF Reads
  <2>2. \A d \in Dirs : Kids[d] \in Seq(Nodes)
    BY <1>0, KidsAre
  <2> QED
    BY <2>1, <2>2, Words
<1>5. \A d \in Dirs : Shows!ToSet(Kids[d]) = IF d \in FoldersOf(place, mark) THEN Kin(place, mark, d) ELSE {}
  BY <1>0, KidsAre, SameWords
<1>6. Shows!Present = UNION {Shows!ToSet(Kids[d]) : d \in Shows!Places}
  <2>1. ASSUME NEW n \in Shows!Present PROVE n \in UNION {Shows!ToSet(Kids[d]) : d \in Dirs}
    <3>1. n \in Nodes /\ Seen(place, mark, n) /\ place[n].parent \in FoldersOf(place, mark)
      BY <1>0, <2>1 DEF Reads
    <3>2. place[n].parent \in Dirs /\ n \in Kin(place, mark, place[n].parent)
      BY <1>0, <3>1 DEF Reads
    <3>3. n \in Shows!ToSet(Kids[place[n].parent])
      BY <1>5, <3>1, <3>2
    <3> QED
      BY <3>2, <3>3
  <2>2. ASSUME NEW d \in Dirs, NEW n \in Shows!ToSet(Kids[d]) PROVE n \in Shows!Present
    <3>1. d \in FoldersOf(place, mark) /\ n \in Kin(place, mark, d)
      BY <1>5, <2>2
    <3> QED
      BY <1>0, <3>1 DEF Reads
  <2> QED
    BY <2>1, <2>2, Words
<1>7. Titles \in [Shows!Present -> Nat]
  <2>1. Titles = [n \in {m \in Nodes : Seen(place, mark, m)} |-> name[n]]
    BY <1>0 DEF Reads
  <2>2. \A n \in Nodes : Seen(place, mark, n) => name[n] \in Nat
    BY <1>0, NamesAssumption DEF Reads
  <2> QED
    BY <1>0, <2>1, <2>2 DEF Reads
<1>8. ASSUME NEW d \in Dirs, NEW i \in DOMAIN Kids[d], NEW j \in DOMAIN Kids[d], i # j
      PROVE  Kids[d][i] # Kids[d][j] /\ Titles[Kids[d][i]] # Titles[Kids[d][j]]
  <2>1. Kids[d][i] # Kids[d][j]
    BY <1>0, <1>8, KidsAre
  <2>2. Kids[d][i] \in ToSet(Kids[d]) /\ Kids[d][j] \in ToSet(Kids[d])
    BY DEF ToSet
  <2>3. d \in FoldersOf(place, mark) /\ Kids[d][i] \in Kin(place, mark, d) /\ Kids[d][j] \in Kin(place, mark, d)
    BY <1>0, <2>2, KidsAre
  <2>4. \A m \in Kin(place, mark, d) : Titles[m] = name[m]
    BY <1>0, <2>3 DEF Reads
  <2>5. name[Kids[d][i]] # name[Kids[d][j]]
    BY <1>0, <2>1, <2>3 DEF Different
  <2> QED
    BY <2>1, <2>3, <2>4, <2>5
<1>9. Shows!Present = UNION {Shows!Within(n) : n \in Shows!ToSet(Kids[Root])}
  <2>1. Root \in Dirs /\ Shows!ToSet(Kids[Root]) = Kin(place, mark, Root)
    BY <1>5 DEF FoldersOf, Dirs
  <2>2. ASSUME NEW n \in Kin(place, mark, Root)
        PROVE  n \in Nodes /\ Seen(place, mark, n) /\ place[n].parent = Root
               /\ Shows!Within(n) = {m \in Nodes : Seen(place, mark, m) /\ n \in Chain(place, m)}
    <3>1. Root \in FoldersOf(place, mark)
      BY DEF FoldersOf
    <3>2. n \in Nodes /\ Seen(place, mark, n) /\ place[n].parent = Root
      <4>1. Kin(place, mark, Root) = {m \in Nodes : Seen(place, mark, m) /\ place[m].parent = Root}
        BY <1>0, <3>1 DEF Reads
      <4> QED
        BY <4>1
    <3> QED
      BY <1>0, <3>2 DEF Reads
  <2> DEFINE X == {m \in Nodes : \E n \in Kin(place, mark, Root) : n \in Chain(place, m)}
  <2>3. ASSUME NEW m \in Nodes, Seen(place, mark, m) PROVE m \in X
    <3>1. ASSUME NEW z \in Nodes, Seen(place, mark, z), place[z].parent = Root \/ place[z].parent \in X
          PROVE  z \in X
      <4>1. CASE place[z].parent = Root
        <5>1. z \in Kin(place, mark, Root)
          BY <3>1, <4>1 DEF Kin, Seen
        <5>2. z \in Chain(place, z)
          BY <1>0, ChainIs DEF ChainFacts, Dirs
        <5> QED
          BY <5>1, <5>2
      <4>2. CASE place[z].parent \in X
        <5>1. Chain(place, place[z].parent) \subseteq Chain(place, z)
          BY <1>0, <3>1, ChainOfParent DEF Seen
        <5> QED
          BY <4>2, <5>1
      <4> QED
        BY <3>1, <4>1, <4>2
    <3> HIDE DEF X
    <3> QED
      BY <1>0, <2>3, <3>1, SeenDown
  <2>4. Shows!Present = {m \in Nodes : Seen(place, mark, m)}
    BY <1>0 DEF Reads
  <2>5. ASSUME NEW m \in Shows!Present PROVE \E n \in Kin(place, mark, Root) : m \in Shows!Within(n)
    <3>1. m \in Nodes /\ Seen(place, mark, m)
      BY <2>4
    <3>2. PICK n \in Kin(place, mark, Root) : n \in Chain(place, m)
      BY <2>3, <3>1
    <3> QED
      BY <2>2, <3>1, <3>2
  <2>6. ASSUME NEW n \in Kin(place, mark, Root) PROVE Shows!Within(n) \subseteq Shows!Present
    BY <2>2, <2>4
  <2> QED
    BY <2>1, <2>5, <2>6
<1>10. torn \in BOOLEAN
  BY <1>1
<1>11. \A d \in Shows!Places : \A i, j \in DOMAIN Kids[d] :
         i # j => Kids[d][i] # Kids[d][j] /\ Titles[Kids[d][i]] # Titles[Kids[d][j]]
  BY <1>8, Words
<1>12. Titles \in [UNION {Shows!ToSet(Kids[d]) : d \in Shows!Places} -> Nat]
  BY <1>6, <1>7
<1> QED
  BY <1>3, <1>4, <1>9, <1>10, <1>11, <1>12 DEF Shows!Init

-----------------------------------------------------------------------------
(* The theorems. *)

\* Siblings have different names, whatever was cut off before: a path of names, as
\* resolveFolder walks it, leads to one item at most (findByName, layout.go:141).
THEOREM PathsUnambiguous == Spec => []NoNamesakes
<1>1. TreeInv => NoNamesakes
  BY Bridge DEF TreeInv, TreeOK, Different, NoNamesakes
<1> QED
  BY <1>1, TreeAlways, PTL

\* A create or a move never goes where an item is, listed or not: uniqueSlug finds a
\* directory name no sibling has, and it stays free until it is taken.
THEOREM NothingLostToAnother == Spec => []NothingOverwritten
<1>1. ASSUME TreeInv PROVE NothingOverwritten
  <2> SUFFICES ASSUME NEW i \in DOMAIN plan, plan[i].do \in {"mkdir", "rename"},
                      NEW m \in Nodes, place[m] = plan[i].spot
               PROVE  mark[m] = "none"
    BY DEF NothingOverwritten
  <2>1. CASE \E n \in Nodes, d \in Dirs, s \in Slugs, t \in Names, l \in ListsOfSlugs :
               plan[i].spot = Spot(d, s) /\ Creating(place, mark, name, n, d, s, t, l)
    BY <2>1 DEF Creating
  <2>2. CASE \E n \in Nodes, d \in Dirs, s \in Slugs, from \in Dirs, l \in ListsOfSlugs, r \in ListsOfSlugs :
               plan[i].spot = Spot(d, s) /\ Moving(place, mark, name, n, d, s, from, l, r)
    <3>1. PICK n \in Nodes, d \in Dirs, s \in Slugs, from \in Dirs, l \in ListsOfSlugs, r \in ListsOfSlugs :
            plan[i].spot = Spot(d, s) /\ Moving(place, mark, name, n, d, s, from, l, r)
      BY <2>2
    <3>2. place[m] # None /\ place[m].parent = d /\ place[m].slug = s
      BY <3>1, SpotFacts
    <3>3. mark[m] # "none" => s \in SlugsOf(place, mark, d)
      BY <3>2 DEF SlugsOf, Kin
    <3> QED
      BY <3>1, <3>3 DEF Moving
  <2>3. Planned(plan, place, mark, name)
    BY <1>1 DEF TreeInv
  <2> QED
    BY <2>1, <2>2, <2>3 DEF Planned, MkdirStep, MarkStep, OrderStep, RemoveStep, RenameStep
<1> QED
  BY <1>1, TreeAlways, PTL

\* What there is stays a forest and a reader is shown each item of it, and once,
\* however lists and directories have drifted apart (reconcileOrder, layout.go:150).
THEOREM ForestShown == Spec => []Rooted
<1>1. ASSUME TreeInv PROVE TypeOK
  <2>1. place \in [Nodes -> Places \cup {None}] /\ mark \in [Nodes -> Marks] /\ name \in [Nodes -> Names \cup {None}]
    BY <1>1 DEF TreeInv, TreeOK, TreeTyped, PlacesOf
  <2>2. order \in [Dirs -> Seq(Slugs)] /\ ops \in 0..MaxOps /\ torn \in BOOLEAN
    BY <1>1 DEF TreeInv
  <2>3. \A n \in Nodes : mark[n] # "none" <=> name[n] # None
    BY <1>1 DEF TreeInv, TreeOK, TreeTyped
  <2>4. \A i \in DOMAIN plan : plan[i].do \in {"mkdir", "mark", "order", "rename", "remove"}
    <3>1. Planned(plan, place, mark, name)
      BY <1>1 DEF TreeInv
    <3> QED
      BY <3>1 DEF Planned, MkdirStep, MarkStep, OrderStep, RemoveStep, RenameStep
  <2> QED
    BY <2>1, <2>2, <2>3, <2>4 DEF TypeOK
<1>2. ASSUME TreeInv PROVE \A n \in Nodes : place[n] # None => Root \in Above(n)
  BY <1>2, InvReadable, Bridge DEF Forest
<1>3. ASSUME TreeInv PROVE ShownOnce
  <2> SUFFICES ASSUME NEW d \in Folders
               PROVE  ToSet(Ordered(d)) = Children(d) /\ Len(Ordered(d)) = Cardinality(Children(d))
    BY DEF ShownOnce
  <2>1. d \in Dirs /\ Readable
    BY <1>3, FoldersThere, InvReadable
  <2>2. Lists(Ordered(d), Children(d))
    BY <2>1, OrderedLists
  <2> QED
    BY <2>2, ListsRange, ListsLen
<1>4. TreeInv => Rooted
  BY <1>1, <1>2, <1>3 DEF Rooted
<1> QED
  BY <1>4, TreeAlways, PTL

LEMMA ListedShown ==
  \A f \in Dirs : TreeInv /\ Lists(order[f], SlugsOf(place, mark, f)) => Reconciled(f) = order[f]
  BY InvReadable, Bridge, ShownAsListed

\* The list that a handler made up before it touched a directory is what a reader
\* shows as soon as it is written: nothing came or went that is not in it.
THEOREM ListsAsWritten == Spec => [][AsWritten]_vars
<1>1. ASSUME TreeInv, TreeInv', Next, NEW e \in Dirs, order'[e] # order[e], Todo("order")
      PROVE  Reconciled(e)' = order'[e]
  <2>1. WriteOrder
    BY <1>1 DEF Next, Handler, Create, Rename, Delete, Move, Call, FileOp, Cut, Todo,
                Mkdir, Mark, RenameDir, RemoveMark, RemoveDir
  <2>2. PICK d \in Dirs, l \in ListsOfSlugs : Head(plan) = OrderStep(d, l) /\ Listing(place, mark, d, l)
    BY <1>1, FormOf DEF OrderForm, Moved, Listing
  <2>3. order' = [order EXCEPT ![d] = l] /\ UNCHANGED <<place, mark, name>>
    <3>1. Head(plan).dir = d /\ Head(plan).slugs = l
      BY <2>2 DEF OrderStep
    <3> QED
      BY <2>1, <3>1 DEF WriteOrder
  <2>4. order \in [Dirs -> Seq(Slugs)]
    BY <1>1 DEF TreeInv
  <2>5. e = d /\ order'[e] = l
    BY <1>1, <2>3, <2>4
  <2>6. Lists(order'[e], SlugsOf(place', mark', e))
    BY <2>2, <2>3, <2>5 DEF Listing
  <2>7. (\A f \in Dirs : TreeInv /\ Lists(order[f], SlugsOf(place, mark, f)) => Reconciled(f) = order[f])'
    BY ListedShown, PTL
  <2> QED
    BY <1>1, <2>6, <2>7
<1>2. TreeInv /\ TreeInv' /\ [Next]_vars => [AsWritten]_vars
  BY <1>1 DEF AsWritten, vars
<1> QED
  BY <1>2, TreeAlways, PTL DEF Spec

\* Every file operation, and a cut after any of them, changes what a reader is shown by
\* one item at most and leaves the order of the others alone: what reconcileOrder
\* (layout.go:150) makes of a half-applied create, move or deletion is the collection
\* before it or after it, but for that item.
THEOREM OrderKept == Spec => KeepsOrder
<1>1. Init => OrderInv /\ Shows!Init
  BY OrderInit
<1>2. OrderInv /\ [Next]_vars => OrderInv' /\ [Shows!Next]_<<Kids, Titles, torn>>
  BY OrderStepKeeps
<1>3. Spec => Shows!Spec
  BY <1>1, <1>2, PTL DEF Spec, Shows!Spec
<1> QED
  BY <1>3, ListsAsWritten DEF KeepsOrder

=============================================================================
