-------------------------------- MODULE PanelProofs ------------------------------
(***************************************************************************)
(* Proofs about the panel of collections, for any number of collections    *)
(* and items and any tree of them: what a render opens by default, which   *)
(* rows there are, and which collection is chosen.                         *)
(*                                                                         *)
(* Three inductive invariants: PanelInv of what is listed and asked for,   *)
(* ExpandInv of what is open, ChoiceInv of what is chosen.  That the steps *)
(* of the panel keep them is shown here; that nothing else in the          *)
(* application disturbs them, in AppProofs.                                *)
(***************************************************************************)
EXTENDS TreePanel, FiniteSetTheorems, WellFoundedInduction, TLAPS

\* A sequence, of whatever; a function, by its values.
IsSeq(s) == Len(s) \in Nat /\ s = [k \in 1..Len(s) |-> s[k]]

Home == ToSet(Dirs)

(* What the panel keeps. *)
PanelInv ==
  /\ served \subseteq Home /\ served # {}
  /\ IsSeq(cols) /\ Len(cols) > 0 /\ \A k \in 1..Len(cols) : cols[k] \in Home
  /\ count = [acts |-> count.acts, changes |-> count.changes, views |-> count.views, dirs |-> count.dirs]
  /\ count.dirs \subseteq Home
  /\ IsSeq(calls)
  /\ \A k \in 1..Len(calls) : calls[k].op \in {"newcoll", "recol"} => calls[k].to \in Home

------------------------------------------------------------------------------
(* Numbers, ranks and sequences.                                              *)

LEMMA SeqIs ==
  ASSUME NEW s, IsSeq(s)
  PROVE  s \in Seq({s[n] : n \in 1..Len(s)}) /\ DOMAIN s = 1..Len(s)
<1> DEFINE Els == {s[n] : n \in 1..Len(s)}
<1>1. s \in [1..Len(s) -> Els]
  BY DEF IsSeq
<1>2. Len(s) \in Nat
  BY DEF IsSeq
<1> QED
  BY <1>1, <1>2

LEMMA IsSeqOf ==
  ASSUME NEW Els, NEW t \in Seq(Els)
  PROVE  IsSeq(t)
<1>1. t \in [1..Len(t) -> Els] /\ Len(t) \in Nat
  OBVIOUS
<1> QED
  BY <1>1 DEF IsSeq

LEMMA Pushed ==
  ASSUME NEW s, IsSeq(s), NEW f
  PROVE  /\ IsSeq(Append(s, f)) /\ Len(Append(s, f)) = Len(s) + 1
         /\ \A n \in 1..Len(s) : Append(s, f)[n] = s[n]
         /\ Append(s, f)[Len(s) + 1] = f
<1> DEFINE Els == {s[n] : n \in 1..Len(s)} \cup {f}
           t == Append(s, f)
<1>1. s \in [1..Len(s) -> Els] /\ Len(s) \in Nat
  BY DEF IsSeq
<1>2. s \in Seq(Els) /\ f \in Els
  BY <1>1
<1>3. t \in Seq(Els) /\ Len(t) = Len(s) + 1 /\ t[Len(t)] = f /\ (\A n \in 1..Len(s) : t[n] = s[n])
  BY <1>1, <1>2
<1>4. IsSeq(t)
  BY <1>3, IsSeqOf
<1> QED
  BY <1>3, <1>4

LEMMA Tailed ==
  ASSUME NEW s, IsSeq(s), s # << >>
  PROVE  /\ IsSeq(Tail(s)) /\ Len(Tail(s)) = Len(s) - 1 /\ Len(s) > 0
         /\ \A n \in 1..Len(s) - 1 : Tail(s)[n] = s[n + 1]
         /\ Head(s) = s[1]
<1> DEFINE Els == {s[n] : n \in 1..Len(s)}
           t == Tail(s)
<1>1. s \in Seq(Els) /\ Len(s) \in Nat
  BY SeqIs DEF IsSeq
<1> HIDE DEF Els
<1>2. t \in Seq(Els) /\ Len(t) = Len(s) - 1 /\ Len(s) > 0 /\ (\A n \in 1..Len(s) - 1 : t[n] = s[n + 1])
  BY <1>1
<1>3. IsSeq(t)
  BY <1>2, IsSeqOf
<1> QED
  BY <1>1, <1>2, <1>3

LEMMA Joined ==
  ASSUME NEW s, IsSeq(s), NEW t, IsSeq(t)
  PROVE  /\ IsSeq(s \o t) /\ Len(s \o t) = Len(s) + Len(t)
         /\ \A n \in 1..Len(s) : (s \o t)[n] = s[n]
         /\ \A n \in 1..Len(t) : (s \o t)[Len(s) + n] = t[n]
<1> DEFINE Els == {s[n] : n \in 1..Len(s)} \cup {t[n] : n \in 1..Len(t)}
           u == s \o t
<1>1. /\ s \in [1..Len(s) -> Els] /\ t \in [1..Len(t) -> Els] /\ Len(s) \in Nat /\ Len(t) \in Nat
  BY DEF IsSeq
<1>2. s \in Seq(Els) /\ t \in Seq(Els)
  BY <1>1
<1> HIDE DEF Els
<1>3. u \in Seq(Els) /\ Len(u) = Len(s) + Len(t)
  BY <1>2
<1>4. IsSeq(u)
  BY <1>3, IsSeqOf
<1>5. \A n \in 1..Len(s) : u[n] = s[n]
  BY <1>1, <1>2
<1>6. ASSUME NEW n \in 1..Len(t) PROVE u[Len(s) + n] = t[n]
  BY <1>1, <1>2
<1> QED
  BY <1>3, <1>4, <1>5, <1>6

LEMMA Single ==
  ASSUME NEW f
  PROVE  IsSeq(<<f>>) /\ Len(<<f>>) = 1 /\ <<f>>[1] = f
<1>1. <<f>> \in Seq({f}) /\ Len(<<f>>) = 1 /\ <<f>>[1] = f
  OBVIOUS
<1> QED
  BY <1>1, IsSeqOf

LEMMA NoneOfIt == IsSeq(<< >>) /\ Len(<< >>) = 0
<1>1. << >> \in Seq({}) /\ Len(<< >>) = 0
  OBVIOUS
<1> QED
  BY <1>1, IsSeqOf

\* A sequence that is a function from one to a number.
LEMMA ListOf ==
  ASSUME NEW n \in Nat, NEW s, s = [k \in 1..n |-> s[k]]
  PROVE  IsSeq(s) /\ Len(s) = n
<1> DEFINE Els == {s[k] : k \in 1..n}
<1>1. s \in [1..n -> Els]
  OBVIOUS
<1>2. s \in Seq(Els) /\ Len(s) = n
  BY <1>1
<1> QED
  BY <1>2, IsSeqOf

Lower(Els, x) == {y \in Els : y < x}

\* Of a finite set of numbers there is one with any number of lower ones.
LEMMA Ranked ==
  ASSUME NEW Els \in SUBSET Nat, IsFiniteSet(Els), NEW k \in 1..Cardinality(Els)
  PROVE  \E x \in Els : Cardinality(Lower(Els, x)) = k - 1
<1> DEFINE Rk(x) == Cardinality(Lower(Els, x))
<1>0. Cardinality(Els) \in Nat
  BY FS_CardinalityType
<1>1. \A x \in Els : IsFiniteSet(Lower(Els, x)) /\ Rk(x) \in Nat
  BY FS_Subset, FS_CardinalityType DEF Lower
<1>2. ASSUME NEW x \in Els, NEW y \in Els, x < y PROVE Rk(x) < Rk(y)
  <2>1. Lower(Els, x) \subseteq Lower(Els, y) /\ x \in Lower(Els, y) /\ x \notin Lower(Els, x)
    <3>1. x \in Nat /\ y \in Nat
      OBVIOUS
    <3>2. ASSUME NEW z \in Lower(Els, x) PROVE z \in Lower(Els, y)
      <4>1. z \in Nat /\ z \in Els /\ z < x
        BY DEF Lower
      <4> QED
        BY <1>2, <3>1, <4>1 DEF Lower
    <3>3. ~(x < x)
      BY <3>1
    <3> QED
      BY <1>2, <3>2, <3>3 DEF Lower
  <2>2. Lower(Els, x) \in SUBSET Lower(Els, y) /\ Lower(Els, x) # Lower(Els, y)
    BY <2>1
  <2>3. Rk(x) <= Rk(y) /\ Rk(x) # Rk(y)
    BY <1>1, <2>2, FS_Subset
  <2> QED
    BY <1>1, <2>3
<1>3. ASSUME NEW x \in Els PROVE Rk(x) \in 0..(Cardinality(Els) - 1)
  <2>1. Lower(Els, x) \in SUBSET Els /\ Lower(Els, x) # Els
    BY DEF Lower
  <2>2. Rk(x) <= Cardinality(Els) /\ Rk(x) # Cardinality(Els)
    BY <2>1, FS_Subset
  <2> QED
    BY <1>0, <1>1, <2>2
<1> DEFINE f == [x \in Els |-> Rk(x)]
           T == 0..(Cardinality(Els) - 1)
<1>4. f \in Injection(Els, T)
  <2>1. ASSUME NEW x \in Els, NEW y \in Els, Rk(x) = Rk(y) PROVE x = y
    <3>1. ~(x < y) /\ ~(y < x)
      BY <1>1, <1>2, <2>1
    <3> QED
      BY <3>1
  <2> HIDE DEF Rk
  <2> QED
    BY <1>3, <2>1 DEF Injection, IsInjective
<1>5. IsFiniteSet(T) /\ Cardinality(T) = Cardinality(Els)
  <2>1. 0 \in Int /\ Cardinality(Els) - 1 \in Int
    BY <1>0
  <2>2. IsFiniteSet(T) /\ Cardinality(T) = IF 0 > Cardinality(Els) - 1 THEN 0 ELSE (Cardinality(Els) - 1) - 0 + 1
    BY <2>1, FS_Interval
  <2> QED
    BY <1>0, <2>2
<1>6. f \in Surjection(Els, T)
  <2> HIDE DEF f, T
  <2> QED
    BY <1>4, <1>5, FS_Injection
<1>7. k - 1 \in T
  BY <1>0
<1> HIDE DEF T, Rk
<1>8. \E x \in Els : f[x] = k - 1
  BY <1>6, <1>7 DEF Surjection
<1> QED
  BY <1>8 DEF Rk

LEMMA Sublist ==
  ASSUME NEW dirs
  PROVE  /\ IsSeq(Listing(dirs))
         /\ \A k \in 1..Len(Listing(dirs)) : Listing(dirs)[k] \in dirs
         /\ dirs \cap Home # {} => Len(Listing(dirs)) > 0
<1> DEFINE places == {i \in DOMAIN Dirs : Dirs[i] \in dirs}
           N == Cardinality(places)
           Place(k) == CHOOSE i \in places : Cardinality({j \in places : j < i}) = k - 1
           list == [k \in 1..N |-> Dirs[Place(k)]]
<1>1. DOMAIN Dirs = 1..Len(Dirs) /\ Len(Dirs) \in Nat
  BY DirsAssumption
<1>2. IsFiniteSet(places) /\ places \in SUBSET Nat /\ N \in Nat
  <2> DEFINE all == 1..Len(Dirs)
  <2>1. IsFiniteSet(all)
    <3>1. 1 \in Int /\ Len(Dirs) \in Int
      BY <1>1
    <3> QED
      BY <3>1, FS_Interval
  <2>2. places \in SUBSET all /\ all \subseteq Nat
    BY <1>1
  <2> HIDE DEF places, all
  <2>3. IsFiniteSet(places)
    BY <2>1, <2>2, FS_Subset
  <2>4. Cardinality(places) \in Nat
    BY <2>3, FS_CardinalityType
  <2> QED
    BY <2>2, <2>3, <2>4
<1>3. ASSUME NEW k \in 1..N PROVE Dirs[Place(k)] \in dirs
  <2>1. PICK i \in places : Cardinality(Lower(places, i)) = k - 1
    BY <1>2, Ranked
  <2>2. \E x \in places : Cardinality({j \in places : j < x}) = k - 1
    BY <2>1 DEF Lower
  <2>3. Place(k) \in places
    <3> HIDE DEF places
    <3> QED
      BY <2>2
  <2> QED
    BY <2>3
<1>4. Listing(dirs) = list
  BY DEF Listing
<1>5. IsSeq(list) /\ Len(list) = N
  <2>1. list = [k \in 1..N |-> list[k]]
    OBVIOUS
  <2> HIDE DEF N, list
  <2> QED
    BY <1>2, <2>1, ListOf
<1>6. \A k \in 1..Len(list) : list[k] \in dirs
  <2> HIDE DEF N, Place
  <2> QED
    BY <1>3, <1>5
<1>7. ASSUME dirs \cap Home # {} PROVE N > 0
  <2>1. PICK d \in dirs \cap Home : TRUE
    BY <1>7
  <2>2. PICK i \in DOMAIN Dirs : Dirs[i] = d
    BY <1>1, <2>1 DEF Home, ToSet
  <2>3. places # {}
    BY <2>1, <2>2
  <2> HIDE DEF places
  <2> QED
    BY <1>2, <2>3, FS_EmptySet
<1> QED
  BY <1>4, <1>5, <1>6, <1>7

LEMMA ActiveServed ==
  ASSUME PanelInv, cols = Listing(served)
  PROVE  active \in served
<1>1. served \cap Home # {}
  BY DEF PanelInv
<1>2. Len(cols) > 0 /\ IsSeq(cols) /\ \A k \in 1..Len(cols) : cols[k] \in served
  BY <1>1, Sublist
<1>3. cols[1] \in served
  BY <1>2 DEF IsSeq
<1>4. Contains(cols, chosen) => chosen \in served
  BY <1>2 DEF Contains
<1> QED
  BY <1>3, <1>4 DEF active, Resolve

------------------------------------------------------------------------------
(* The panel: what it counts and what it has asked for.                       *)

Spent ==
  \/ count' = count
  \/ count' = [count EXCEPT !.acts = @ - 1]
  \/ count' = [count EXCEPT !.changes = @ - 1]
  \/ count' = [count EXCEPT !.acts = @ - 1, !.changes = @ - 1]

Known(more) ==
  IsSeq(more) /\ \A k \in 1..Len(more) : more[k].op \in {"newcoll", "recol"} => more[k].to \in Home

Asks == calls' = calls \/ \E more : Known(more) /\ calls' = calls \o more

CountInv ==
  /\ count = [acts |-> count.acts, changes |-> count.changes, views |-> count.views, dirs |-> count.dirs]
  /\ count.dirs \subseteq Home

LEMMA CountKept ==
  ASSUME CountInv, Spent
  PROVE  CountInv'
<1>1. CASE count' = count
  BY <1>1 DEF CountInv
<1>2. CASE count' = [count EXCEPT !.acts = @ - 1]
  BY <1>2 DEF CountInv
<1>3. CASE count' = [count EXCEPT !.changes = @ - 1]
  BY <1>3 DEF CountInv
<1>4. CASE count' = [count EXCEPT !.acts = @ - 1, !.changes = @ - 1]
  BY <1>4 DEF CountInv
<1> QED
  BY <1>1, <1>2, <1>3, <1>4 DEF Spent

LEMMA KnownJoined ==
  ASSUME NEW s, Known(s), NEW t, Known(t)
  PROVE  Known(s \o t)
<1> DEFINE u == s \o t
<1>1. /\ IsSeq(s) /\ IsSeq(t) /\ IsSeq(u) /\ Len(u) = Len(s) + Len(t)
      /\ \A n \in 1..Len(s) : u[n] = s[n]
      /\ \A n \in 1..Len(t) : u[Len(s) + n] = t[n]
  BY Joined DEF Known
<1>2. Len(s) \in Nat /\ Len(t) \in Nat
  BY <1>1 DEF IsSeq
<1> HIDE DEF u
<1>3. ASSUME NEW k \in 1..Len(u), u[k].op \in {"newcoll", "recol"} PROVE u[k].to \in Home
  <2>1. CASE k <= Len(s)
    BY <1>1, <1>2, <1>3, <2>1 DEF Known
  <2>2. CASE k > Len(s)
    <3>1. PICK n \in 1..Len(t) : k = Len(s) + n
      <4>1. k - Len(s) \in 1..Len(t) /\ k = Len(s) + (k - Len(s))
        BY <1>1, <1>2, <2>2
      <4> QED
        BY <4>1
    <3> QED
      BY <1>1, <1>3, <3>1 DEF Known
  <2> QED
    BY <1>1, <1>2, <2>1, <2>2
<1> QED
  BY <1>1, <1>3 DEF Known, u

LEMMA PanelAsks ==
  ASSUME PanelInv, UNCHANGED <<served, cols>>, Spent, Asks
  PROVE  PanelInv'
<1>1. CountInv'
  BY CountKept DEF PanelInv, CountInv
<1>2. Known(calls)
  BY DEF PanelInv, Known
<1>3. CASE calls' = calls
  BY <1>1, <1>3 DEF PanelInv, CountInv
<1>4. CASE \E more : Known(more) /\ calls' = calls \o more
  <2>1. PICK more : Known(more) /\ calls' = calls \o more
    BY <1>4
  <2>2. Known(calls')
    BY <1>2, <2>1, KnownJoined
  <2> QED
    BY <1>1, <2>2 DEF PanelInv, CountInv, Known
<1> QED
  BY <1>3, <1>4 DEF Asks

\* One call of an item.
LEMMA OneAsked ==
  ASSUME NEW c, c.op \notin {"newcoll", "recol"} \/ c.to \in Home
  PROVE  Known(<<c>>)
BY Single DEF Known

LEMMA SendSpends ==
  ASSUME NEW more, Known(more), Send(more)
  PROVE  Spent /\ Asks
BY DEF Send, Sent, Spent, Asks

LEMMA ActSpends ==
  ASSUME Acts
  PROVE  Spent
BY DEF Acts, Spent

\* What the keys and the pointer do asks for nothing.
LEMMA Clicks ==
  ASSUME \/ \E stroke \in Strokes : KeyMoves(stroke) \/ KeyRenames(stroke) \/ KeyDeletes(stroke)
         \/ \E i \in DOMAIN rows : \/ \E mods \in {"plain", "shift", "mod"} : Click(i, mods)
                          \/ Twistie(i) \/ DoubleClick(i) \/ ContextMenu(i) \/ RowButton(i) \/ DragStart(i)
                          \/ \E zone \in {"before", "into", "after"} : DragOver(i, zone)
         \/ Header \/ MenuChoice \/ Dismiss \/ DragAway
         \/ \E q \in Names \cup {None} : TypeFilter(q)
         \/ \E c \in ToSet(cols) : SwitchCollection(c)
         \/ \E v \in count.views : ShowView(v)
  PROVE  UNCHANGED <<served, cols>> /\ Spent /\ Asks
<1>1. Acts => Spent
  BY ActSpends
<1>2. UNCHANGED count => Spent
  BY DEF Spent
<1>3. UNCHANGED calls => Asks
  BY DEF Asks
<1>4. ASSUME NEW stroke \in Strokes, KeyMoves(stroke) PROVE UNCHANGED <<served, cols>> /\ Spent /\ Asks
  BY <1>1, <1>3, <1>4 DEF KeyMoves, Still
<1>5. ASSUME NEW stroke \in Strokes, KeyRenames(stroke) PROVE UNCHANGED <<served, cols>> /\ Spent /\ Asks
  BY <1>1, <1>3, <1>5 DEF KeyRenames, Still
<1>6. ASSUME NEW stroke \in Strokes, KeyDeletes(stroke) PROVE UNCHANGED <<served, cols>> /\ Spent /\ Asks
  BY <1>1, <1>3, <1>6 DEF KeyDeletes, Still
<1>7. ASSUME NEW i \in DOMAIN rows, NEW mods, Click(i, mods) PROVE UNCHANGED <<served, cols>> /\ Spent /\ Asks
  BY <1>1, <1>3, <1>7 DEF Click, Still
<1>8. ASSUME NEW i \in DOMAIN rows, Twistie(i) \/ DoubleClick(i) \/ ContextMenu(i) \/ RowButton(i) \/ DragStart(i)
      PROVE  UNCHANGED <<served, cols>> /\ Spent /\ Asks
  BY <1>1, <1>3, <1>8 DEF Twistie, DoubleClick, ContextMenu, RowButton, DragStart, Still
<1>9. ASSUME NEW i \in DOMAIN rows, NEW zone, DragOver(i, zone) PROVE UNCHANGED <<served, cols>> /\ Spent /\ Asks
  BY <1>2, <1>3, <1>9 DEF DragOver, Still
<1>10. ASSUME Header \/ MenuChoice \/ Dismiss \/ DragAway PROVE UNCHANGED <<served, cols>> /\ Spent /\ Asks
  BY <1>1, <1>2, <1>3, <1>10 DEF Header, MenuChoice, Dismiss, DragAway, Still
<1>11. ASSUME NEW q, TypeFilter(q) PROVE UNCHANGED <<served, cols>> /\ Spent /\ Asks
  BY <1>1, <1>3, <1>11 DEF TypeFilter
<1>12. ASSUME NEW c, SwitchCollection(c) PROVE UNCHANGED <<served, cols>> /\ Spent /\ Asks
  BY <1>1, <1>3, <1>12 DEF SwitchCollection
<1>13. ASSUME NEW v, ShowView(v) PROVE UNCHANGED <<served, cols>> /\ Spent /\ Asks
  BY <1>1, <1>3, <1>13 DEF ShowView
<1> QED
  BY <1>4, <1>5, <1>6, <1>7, <1>8, <1>9, <1>10, <1>11, <1>12, <1>13

LEMMA UserAsks ==
  ASSUME PanelInv, User
  PROVE  UNCHANGED <<served, cols>> /\ Spent /\ Asks
<1>1. ASSUME NEW i \in Items, NEW name \in Names, Submit(i, name) PROVE UNCHANGED <<served, cols>> /\ Spent /\ Asks
  <2>1. PICK parent : Send(<<[op |-> "create", coll |-> active, path |-> parent.path, in |-> parent.i, of |-> i, to |-> name]>>)
    BY <1>1 DEF Submit
  <2>2. Known(<<[op |-> "create", coll |-> active, path |-> parent.path, in |-> parent.i, of |-> i, to |-> name]>>)
    BY OneAsked
  <2> QED
    BY <1>1, <2>1, <2>2, SendSpends DEF Submit, Still
<1>2. ASSUME ConfirmDelete PROVE UNCHANGED <<served, cols>> /\ Spent /\ Asks
  <2>1. PICK n \in 0..Cardinality(Items) : \E f \in Bijection(1..n, modal.items) :
          Send([k \in DOMAIN f |-> [op |-> "delete", coll |-> f[k].key[1], path |-> f[k].path, of |-> f[k].i]])
    BY <1>2 DEF ConfirmDelete
  <2>2. PICK f \in Bijection(1..n, modal.items) :
          Send([k \in DOMAIN f |-> [op |-> "delete", coll |-> f[k].key[1], path |-> f[k].path, of |-> f[k].i]])
    BY <2>1
  <2>3. DOMAIN f = 1..n /\ n \in Nat
    <3>1. Cardinality(Items) \in Nat
      BY DirsAssumption, FS_CardinalityType
    <3> QED
      BY <3>1 DEF Bijection, Injection
  <2> DEFINE more == [k \in DOMAIN f |-> [op |-> "delete", coll |-> f[k].key[1], path |-> f[k].path, of |-> f[k].i]]
  <2>4. Known(more)
    <3>1. \A k \in 1..n : more[k].op = "delete"
      BY <2>3
    <3>2. more = [k \in 1..n |-> more[k]]
      BY <2>3
    <3> HIDE DEF more
    <3>3. IsSeq(more) /\ Len(more) = n
      BY <2>3, <3>2, ListOf
    <3> QED
      BY <3>1, <3>3 DEF Known
  <2> HIDE DEF more
  <2>5. Send(more)
    BY <2>2 DEF more
  <2> QED
    BY <1>2, <2>4, <2>5, SendSpends DEF ConfirmDelete, Still
<1>3. ASSUME Drop PROVE UNCHANGED <<served, cols>> /\ Spent /\ Asks
  <2>1. CASE UNCHANGED <<calls, count>>
    BY <1>3, <2>1 DEF Drop, Still, Spent, Asks
  <2>2. CASE \E b : Send(<<MoveCall(b)>>)
    <3>1. PICK b : Send(<<MoveCall(b)>>)
      BY <2>2
    <3>2. Known(<<MoveCall(b)>>)
      BY OneAsked DEF MoveCall
    <3> QED
      BY <1>3, <3>1, <3>2, SendSpends DEF Drop, Still
  <2> QED
    BY <1>3, <2>1, <2>2 DEF Drop
<1>4. ASSUME NEW name \in Names, TypeName(name) PROVE UNCHANGED <<served, cols>> /\ Spent /\ Asks
  <2>1. CASE UNCHANGED <<calls, count>>
    BY <1>4, <2>1 DEF TypeName, Still, Spent, Asks
  <2>2. CASE Send(<<RenameCall(renaming, name)>>)
    <3>1. Known(<<RenameCall(renaming, name)>>)
      BY OneAsked DEF RenameCall
    <3> QED
      BY <1>4, <2>2, <3>1, SendSpends DEF TypeName, Still
  <2> QED
    BY <1>4, <2>1, <2>2 DEF TypeName
<1>5. ASSUME NEW dir \in count.dirs, CreateCollection(dir) \/ RenameCollection(dir)
      PROVE  UNCHANGED <<served, cols>> /\ Spent /\ Asks
  <2>1. dir \in Home
    BY DEF PanelInv
  <2>2. PICK c : CallsAnew(c) /\ c.to = dir
    BY <1>5 DEF CreateCollection, RenameCollection, CollectionCall
  <2>3. Known(<<c>>)
    BY <2>1, <2>2, OneAsked
  <2> QED
    BY <1>5, <2>2, <2>3 DEF CallsAnew, CreateCollection, RenameCollection, Sent, Still, Spent, Asks
<1> QED
  BY <1>1, <1>2, <1>3, <1>4, <1>5, Clicks DEF User

\* Answers.
LEMMA AnswerPanel ==
  ASSUME PanelInv, Answer
  PROVE  PanelInv'
<1>1. calls # << >> /\ count' = count
  BY DEF Answer
<1>2. IsSeq(calls) /\ IsSeq(Tail(calls)) /\ Len(Tail(calls)) = Len(calls) - 1 /\ Len(calls) > 0 /\ Len(calls) \in Nat
      /\ (\A n \in 1..Len(calls) - 1 : Tail(calls)[n] = calls[n + 1]) /\ Head(calls) = calls[1]
  BY <1>1, Tailed DEF PanelInv, IsSeq
<1>3. Known(Tail(calls))
  BY <1>2 DEF PanelInv, Known
<1>4. Known(calls')
  <2>1. CASE calls' = Tail(calls)
    BY <1>3, <2>1
  <2>2. CASE \E b : calls' = Tail(calls) \o <<MoveCall(b)>>
    <3>1. PICK b : calls' = Tail(calls) \o <<MoveCall(b)>>
      BY <2>2
    <3>2. Known(<<MoveCall(b)>>)
      BY OneAsked DEF MoveCall
    <3> QED
      BY <1>3, <3>1, <3>2, KnownJoined
  <2>3. CASE calls' = Tail(calls) \o << >>
    <3>1. Known(<< >>)
      BY NoneOfIt DEF Known
    <3> QED
      BY <1>3, <2>3, <3>1, KnownJoined
  <2> QED
    BY <2>1, <2>2, <2>3 DEF Answer, Taken, Refused
<1>5. served' \subseteq Home /\ served' # {}
  <2>1. CASE Refused(Head(calls))
    BY <2>1 DEF Refused, Still, PanelInv
  <2>2. CASE Taken(Head(calls))
    <3> DEFINE c == Head(calls)
    <3>1. c.op \in {"newcoll", "recol"} => c.to \in Home
      BY <1>2 DEF PanelInv
    <3>2. served' = CASE c.op = "newcoll" -> served \cup {c.to}
                   [] c.op = "recol" -> (served \ {c.coll}) \cup {c.to}
                   [] OTHER -> served
      BY <2>2 DEF Taken
    <3> HIDE DEF c
    <3> QED
      BY <3>1, <3>2 DEF PanelInv
  <2> QED
    BY <2>1, <2>2 DEF Answer
<1>6. cols' = cols
  BY DEF Answer, Taken, Refused, Still
<1> QED
  BY <1>1, <1>4, <1>5, <1>6 DEF PanelInv, Known

\* A step of the panel is its user's, an answer, or an arrival.
LEMMA PanelKeeps ==
  ASSUME PanelInv, Next
  PROVE  PanelInv'
<1>1. CASE Answer
  BY <1>1, AnswerPanel
<1>2. CASE \E c \in ToSet(cols) : Landed(c)
  BY <1>2 DEF Landed, Arrives, PanelInv
<1>4. CASE Listed
  <2>1. UNCHANGED <<served, calls, count>> /\ cols' = Listing(served)
    BY <1>4 DEF Listed, Arrives
  <2>2. served \subseteq Home /\ served \cap Home # {}
    BY DEF PanelInv
  <2>3. IsSeq(cols') /\ Len(cols') > 0 /\ \A k \in 1..Len(cols') : cols'[k] \in Home
    BY <2>1, <2>2, Sublist
  <2> QED
    BY <2>1, <2>3 DEF PanelInv
<1>3. CASE User
  BY <1>3, UserAsks, PanelAsks
<1> QED
  BY <1>1, <1>2, <1>3, <1>4 DEF Next

LEMMA ActiveHome ==
  ASSUME NEW list, IsSeq(list), Len(list) > 0, \A k \in 1..Len(list) : list[k] \in Home, NEW choice
  PROVE  Resolve(choice, list) \in Home
<1>1. list[1] \in Home
  BY DEF IsSeq
<1>2. Contains(list, choice) => choice \in Home
  BY DEF Contains
<1> QED
  BY <1>1, <1>2 DEF Resolve

LEMMA PanelStarts ==
  ASSUME Init
  PROVE  PanelInv
<1>1. PICK start \in Starts : InitWith(start)
  BY DEF Init
<1>2. start.cols \in Seq(Home) \ {<< >>} /\ start.dirs \subseteq Home
  BY PanelAssumption DEF Home
<1>3. IsSeq(start.cols)
  BY <1>2, IsSeqOf
<1>4. Len(start.cols) > 0 /\ \A k \in 1..Len(start.cols) : start.cols[k] \in Home
  BY <1>2
<1>5. ToSet(start.cols) \subseteq Home /\ ToSet(start.cols) # {}
  <2>1. DOMAIN start.cols = 1..Len(start.cols) /\ 1 \in 1..Len(start.cols)
    BY <1>2, <1>4
  <2> QED
    BY <1>4, <2>1 DEF ToSet
<1>6. IsSeq(calls) /\ Len(calls) = 0
  BY <1>1, NoneOfIt DEF InitWith
<1>7. count = [acts |-> start.acts, changes |-> start.changes, views |-> start.views, dirs |-> start.dirs]
      /\ served = ToSet(start.cols) /\ cols = start.cols
  BY <1>1 DEF InitWith
<1> QED
  BY <1>2, <1>3, <1>4, <1>5, <1>6, <1>7 DEF PanelInv

------------------------------------------------------------------------------
(* Sequences strung together.                                                 *)

LessThan == { p \in Nat \X Nat : p[1] < p[2] }

LEMMA LeastNumber ==
  ASSUME NEW T \in SUBSET Nat, T # {}
  PROVE  \E x \in T : \A y \in T : x <= y
<1>1. IsWellFoundedOn(LessThan, Nat)
  <2>1. LessThan = OpToRel(<, Nat)
    BY DEF LessThan, OpToRel
  <2> QED
    BY <2>1, NatLessThanWellFounded
<1>2. PICK x \in T : \A y \in T : <<y, x>> \notin LessThan
  BY <1>1, WFMin
<1>3. ASSUME NEW y \in T PROVE x <= y
  <2>1. x \in Nat /\ y \in Nat /\ ~(y < x)
    BY <1>2 DEF LessThan
  <2> QED
    BY <2>1
<1> QED
  BY <1>3

\* The first of seqs, one after the other.
Strung(f, seqs, n) == f = [i \in 1..n |-> IF i = 1 THEN seqs[i] ELSE f[i - 1] \o seqs[i]]

LEMMA Strings ==
  ASSUME NEW seqs, NEW n \in Nat
  PROVE  \E f : Strung(f, seqs, n)
<1> DEFINE fails == {m \in Nat : ~ \E f : Strung(f, seqs, m)}
<1>1. SUFFICES ASSUME fails # {} PROVE FALSE
  OBVIOUS
<1>2. PICK m \in fails : \A k \in fails : m <= k
  BY <1>1, LeastNumber
<1>3. CASE m = 0
  <2>1. Strung([i \in 1..0 |-> IF i = 1 THEN seqs[i] ELSE << >>], seqs, 0)
    BY DEF Strung
  <2> QED
    BY <1>2, <1>3, <2>1
<1>4. CASE m # 0
  <2>1. m \in Nat /\ m - 1 \in Nat /\ ~(m <= m - 1)
    BY <1>4
  <2>2. m - 1 \notin fails
    BY <1>2, <2>1
  <2>3. PICK f : Strung(f, seqs, m - 1)
    BY <2>1, <2>2
  <2> DEFINE g == [i \in 1..m |-> IF i = m THEN (IF m = 1 THEN seqs[m] ELSE f[m - 1] \o seqs[m]) ELSE f[i]]
  <2>4. ASSUME NEW i \in 1..m PROVE g[i] = IF i = 1 THEN seqs[i] ELSE g[i - 1] \o seqs[i]
    <3>1. CASE i = m
      <4>1. m # 1 => m - 1 \in 1..m /\ m - 1 # m /\ g[m - 1] = f[m - 1]
        BY <2>1
      <4> QED
        BY <3>1, <4>1
    <3>2. CASE i # m
      <4>1. i \in 1..(m - 1) /\ g[i] = f[i]
        BY <2>1, <3>2
      <4>2. f[i] = IF i = 1 THEN seqs[i] ELSE f[i - 1] \o seqs[i]
        <5> HIDE DEF fails, g
        <5> QED
          BY <2>3, <4>1 DEF Strung
      <4>3. i # 1 => i - 1 \in 1..m /\ i - 1 # m /\ g[i - 1] = f[i - 1]
        BY <2>1, <3>2
      <4> QED
        BY <4>1, <4>2, <4>3
    <3> QED
      BY <3>1, <3>2
  <2>5. Strung(g, seqs, m)
    <3>1. g = [i \in 1..m |-> g[i]]
      OBVIOUS
    <3> HIDE DEF g
    <3>2. [i \in 1..m |-> g[i]] = [i \in 1..m |-> IF i = 1 THEN seqs[i] ELSE g[i - 1] \o seqs[i]]
      BY <2>4
    <3> QED
      BY <3>1, <3>2 DEF Strung
  <2> QED
    BY <1>2, <2>5
<1> QED
  BY <1>3, <1>4

\* What is where in a sequence of sequences strung together: off says how much there
\* is before each.
Offsets(off, seqs) ==
  /\ off \in [0..Len(seqs) -> Nat] /\ off[0] = 0
  /\ \A k \in 1..Len(seqs) : off[k] = off[k - 1] + Len(seqs[k])

Blocks(s, off, seqs) ==
  /\ IsSeq(s) /\ Offsets(off, seqs) /\ Len(s) = off[Len(seqs)]
  /\ \A k \in 1..Len(seqs) : \A j \in 1..Len(seqs[k]) : off[k - 1] + j \in 1..Len(s) /\ s[off[k - 1] + j] = seqs[k][j]
  /\ \A m \in 1..Len(s) : \E k \in 1..Len(seqs) : \E j \in 1..Len(seqs[k]) : m = off[k - 1] + j

LEMMA FlattenIs ==
  ASSUME NEW seqs, IsSeq(seqs), Len(seqs) > 0
  PROVE  \E f : Strung(f, seqs, Len(seqs)) /\ FlattenSeq(seqs) = f[Len(seqs)]
<1> DEFINE f == CHOOSE f : f = [i \in 1..Len(seqs) |-> IF i = 1 THEN seqs[i] ELSE f[i - 1] \o seqs[i]]
<1>1. Len(seqs) \in Nat
  BY DEF IsSeq
<1>2. Strung(f, seqs, Len(seqs))
  BY <1>1, Strings DEF Strung
<1>3. FlattenSeq(seqs) = f[Len(seqs)]
  BY <1>1 DEF FlattenSeq
<1> QED
  BY <1>2, <1>3

LEMMA Sums ==
  /\ \A a, b, c, d \in Nat : a <= b /\ d = b + c => a <= d
  /\ \A a, c, d \in Nat : \A j \in 1..c : d = a + c => a + j \in 1..d
  OBVIOUS

LEMMA StrungSeqs ==
  ASSUME NEW seqs, NEW f, NEW n \in Nat, Strung(f, seqs, n), \A k \in 1..n : IsSeq(seqs[k])
  PROVE  \A k \in 1..n : IsSeq(f[k])
<1> DEFINE fails == {k \in 1..n : ~ IsSeq(f[k])}
<1>1. SUFFICES ASSUME fails # {} PROVE FALSE
  OBVIOUS
<1>2. PICK k \in fails : \A j \in fails : k <= j
  <2>1. fails \in SUBSET Nat
    OBVIOUS
  <2> HIDE DEF fails
  <2> QED
    BY <1>1, <2>1, LeastNumber
<1>3. k \in 1..n /\ ~ IsSeq(f[k])
  BY <1>2
<1>4. f[k] = IF k = 1 THEN seqs[k] ELSE f[k - 1] \o seqs[k]
  BY <1>3 DEF Strung
<1>5. k # 1
  BY <1>3, <1>4
<1>6. k - 1 \in 1..n /\ ~(k <= k - 1)
  BY <1>3, <1>5
<1>7. IsSeq(f[k - 1]) /\ IsSeq(seqs[k])
  BY <1>2, <1>3, <1>6
<1>8. IsSeq(f[k - 1] \o seqs[k])
  BY <1>7, Joined
<1> QED
  BY <1>3, <1>4, <1>5, <1>8

LEMMA StrungGrows ==
  ASSUME NEW seqs, NEW f, NEW n \in Nat, Strung(f, seqs, n), \A k \in 1..n : IsSeq(seqs[k]),
         NEW k \in 1..n
  PROVE  \A m \in k..n : Len(f[k]) <= Len(f[m]) /\ \A i \in 1..Len(f[k]) : f[m][i] = f[k][i]
<1>0. \A j \in 1..n : IsSeq(f[j]) /\ Len(f[j]) \in Nat
  <2>1. \A j \in 1..n : IsSeq(f[j])
    BY StrungSeqs
  <2> QED
    BY <2>1 DEF IsSeq
<1> DEFINE fails == {m \in k..n : ~(Len(f[k]) <= Len(f[m]) /\ \A i \in 1..Len(f[k]) : f[m][i] = f[k][i])}
<1>1. SUFFICES ASSUME fails # {} PROVE FALSE
  OBVIOUS
<1>2. PICK m \in fails : \A j \in fails : m <= j
  <2>1. fails \in SUBSET Nat
    OBVIOUS
  <2> HIDE DEF fails
  <2> QED
    BY <1>1, <2>1, LeastNumber
<1>3. m \in k..n /\ m \in 1..n /\ k \in 1..n /\ ~(Len(f[k]) <= Len(f[m]) /\ \A i \in 1..Len(f[k]) : f[m][i] = f[k][i])
  BY <1>2
<1>4. m # k
  <2>1. Len(f[k]) <= Len(f[k])
    BY <1>0, <1>3
  <2> QED
    BY <1>3, <2>1
<1>5. m - 1 \in k..n /\ m - 1 \in 1..n /\ ~(m <= m - 1) /\ m # 1
  BY <1>3, <1>4
<1>6. Len(f[k]) <= Len(f[m - 1]) /\ \A i \in 1..Len(f[k]) : f[m - 1][i] = f[k][i]
  BY <1>2, <1>5
<1>7. f[m] = f[m - 1] \o seqs[m]
  BY <1>3, <1>5 DEF Strung
<1>8. /\ Len(f[m]) = Len(f[m - 1]) + Len(seqs[m]) /\ Len(seqs[m]) \in Nat
      /\ \A i \in 1..Len(f[m - 1]) : f[m][i] = f[m - 1][i]
  <2>1. IsSeq(f[m - 1]) /\ IsSeq(seqs[m])
    BY <1>0, <1>3, <1>5
  <2>2. Len(seqs[m]) \in Nat
    BY <2>1 DEF IsSeq
  <2>3. /\ Len(f[m - 1] \o seqs[m]) = Len(f[m - 1]) + Len(seqs[m])
        /\ \A i \in 1..Len(f[m - 1]) : (f[m - 1] \o seqs[m])[i] = f[m - 1][i]
    <3> DEFINE a == f[m - 1]
               b == seqs[m]
    <3>1. IsSeq(a) /\ IsSeq(b)
      BY <2>1
    <3> HIDE DEF a, b
    <3>2. Len(a \o b) = Len(a) + Len(b) /\ \A i \in 1..Len(a) : (a \o b)[i] = a[i]
      BY <3>1, Joined
    <3> QED
      BY <3>2 DEF a, b
  <2> QED
    BY <1>7, <2>2, <2>3
<1> HIDE DEF fails
<1>9. Len(f[k]) \in Nat /\ Len(f[m - 1]) \in Nat /\ Len(f[m]) \in Nat
  BY <1>0, <1>3, <1>5
<1>10. Len(f[k]) <= Len(f[m])
  <2>1. Len(f[k]) <= Len(f[m - 1]) /\ Len(f[m]) = Len(f[m - 1]) + Len(seqs[m]) /\ Len(seqs[m]) \in Nat
    BY <1>6, <1>8
  <2> QED
    BY <1>9, <2>1, Sums
<1>11. \A i \in 1..Len(f[k]) : i \in 1..Len(f[m - 1])
  BY <1>6, <1>9
<1> QED
  BY <1>3, <1>6, <1>8, <1>10, <1>11

\* What FlattenSeq makes of sequences.
LEMMA Flat ==
  ASSUME NEW seqs, IsSeq(seqs), \A k \in 1..Len(seqs) : IsSeq(seqs[k])
  PROVE  \E off : Blocks(FlattenSeq(seqs), off, seqs)
<1> DEFINE n == Len(seqs)
<1>0. n \in Nat
  BY DEF IsSeq
<1>1. CASE n = 0
  <2>1. FlattenSeq(seqs) = seqs
    BY <1>1 DEF FlattenSeq
  <2> DEFINE off == [i \in 0..0 |-> 0]
  <2>2. Offsets(off, seqs)
    BY <1>1 DEF Offsets
  <2>3. Blocks(seqs, off, seqs)
    BY <1>1, <2>2 DEF Blocks
  <2> QED
    BY <2>1, <2>3
<1>2. CASE n # 0
  <2>1. n > 0
    BY <1>0, <1>2
  <2>2. PICK f : Strung(f, seqs, n) /\ FlattenSeq(seqs) = f[n]
    BY <2>1, FlattenIs
  <2> DEFINE s == f[n]
             off == [i \in 0..n |-> IF i = 0 THEN 0 ELSE Len(f[i])]
  <2> HIDE DEF n
  <2>3. \A j \in 1..n : IsSeq(seqs[j]) /\ Len(seqs[j]) \in Nat
    BY DEF n, IsSeq
  <2>4. \A j \in 1..n : IsSeq(f[j]) /\ Len(f[j]) \in Nat
    <3>1. \A j \in 1..n : IsSeq(f[j])
      BY <1>0, <2>2, <2>3, StrungSeqs
    <3> QED
      BY <3>1 DEF IsSeq
  <2>5. off \in [0..n -> Nat] /\ off[0] = 0 /\ n \in 1..n /\ off[n] = Len(s)
    BY <1>0, <1>2, <2>4
  <2>6. ASSUME NEW k \in 1..n
        PROVE  /\ off[k] = off[k - 1] + Len(seqs[k])
               /\ \A j \in 1..Len(seqs[k]) : off[k - 1] + j \in 1..Len(f[k]) /\ f[k][off[k - 1] + j] = seqs[k][j]
    <3>1. f[k] = IF k = 1 THEN seqs[k] ELSE f[k - 1] \o seqs[k]
      BY <2>2 DEF Strung
    <3>2. CASE k = 1
      <4>1. off[k] = Len(seqs[k]) /\ off[k - 1] = 0 /\ f[k] = seqs[k]
        BY <1>0, <3>1, <3>2
      <4> HIDE DEF off
      <4> QED
        BY <2>3, <4>1
    <3>3. CASE k # 1
      <4>1. k - 1 \in 1..n /\ k - 1 # 0 /\ off[k] = Len(f[k]) /\ off[k - 1] = Len(f[k - 1])
        BY <1>0, <3>3
      <4> HIDE DEF off
      <4>2. /\ Len(f[k]) = Len(f[k - 1]) + Len(seqs[k])
            /\ \A j \in 1..Len(seqs[k]) : f[k][Len(f[k - 1]) + j] = seqs[k][j]
        <5>1. IsSeq(f[k - 1]) /\ IsSeq(seqs[k]) /\ f[k] = f[k - 1] \o seqs[k]
          BY <2>3, <2>4, <3>1, <3>3, <4>1
        <5>2. /\ Len(f[k - 1] \o seqs[k]) = Len(f[k - 1]) + Len(seqs[k])
              /\ \A j \in 1..Len(seqs[k]) : (f[k - 1] \o seqs[k])[Len(f[k - 1]) + j] = seqs[k][j]
          <6> DEFINE p == f[k - 1]
                     q == seqs[k]
          <6>1. IsSeq(p) /\ IsSeq(q)
            BY <5>1
          <6> HIDE DEF p, q
          <6>2. /\ Len(p \o q) = Len(p) + Len(q)
                /\ \A j \in 1..Len(q) : (p \o q)[Len(p) + j] = q[j]
            BY <6>1, Joined
          <6> QED
            BY <6>2 DEF p, q
        <5> QED
          BY <5>1, <5>2
      <4>3. Len(f[k - 1]) \in Nat /\ Len(seqs[k]) \in Nat
        BY <2>3, <2>4, <4>1
      <4>4. \A j \in 1..Len(seqs[k]) : Len(f[k - 1]) + j \in 1..Len(f[k])
        <5>1. Len(f[k]) = Len(f[k - 1]) + Len(seqs[k]) /\ Len(f[k]) \in Nat
          BY <2>4, <4>2
        <5> QED
          BY <4>3, <5>1, Sums
      <4> QED
        BY <4>1, <4>2, <4>4
    <3> QED
      BY <3>2, <3>3
  <2>7. ASSUME NEW k \in 1..n, NEW j \in 1..Len(seqs[k])
        PROVE  off[k - 1] + j \in 1..Len(s) /\ s[off[k - 1] + j] = seqs[k][j]
    <3>1. off[k - 1] + j \in 1..Len(f[k]) /\ f[k][off[k - 1] + j] = seqs[k][j]
      BY <2>6
    <3>2. n \in k..n
      BY <1>0
    <3>3. Len(f[k]) <= Len(s) /\ \A i \in 1..Len(f[k]) : s[i] = f[k][i]
      BY <1>0, <2>2, <2>3, <3>2, StrungGrows
    <3>4. Len(f[k]) \in Nat /\ Len(s) \in Nat
      BY <2>4, <2>5
    <3> HIDE DEF off, s
    <3> QED
      BY <3>1, <3>3, <3>4
  <2>8. ASSUME NEW m \in 1..Len(s)
        PROVE  \E k \in 1..n : \E j \in 1..Len(seqs[k]) : m = off[k - 1] + j
    <3> DEFINE Far == {k \in 1..n : m <= off[k]}
    <3>1. Far \in SUBSET Nat /\ n \in Far
      BY <1>0, <2>5
    <3> HIDE DEF s, off
    <3>2. PICK k \in Far : \A j \in Far : k <= j
      <4> HIDE DEF Far
      <4> QED
        BY <3>1, LeastNumber
    <3>3. k \in 1..n /\ m <= off[k] /\ off[k] = off[k - 1] + Len(seqs[k]) /\ k - 1 \in 0..n
      <4>1. k \in 1..n /\ m <= off[k]
        BY <3>2
      <4>2. off[k] = off[k - 1] + Len(seqs[k])
        BY <2>6, <4>1
      <4> HIDE DEF Far
      <4> QED
        BY <1>0, <4>1, <4>2
    <3>4. off[k - 1] \in Nat /\ Len(seqs[k]) \in Nat /\ m \in Nat /\ m > 0
      BY <2>3, <2>5, <3>3
    <3>5. off[k - 1] < m
      <4>1. CASE k = 1
        BY <2>5, <3>4, <4>1
      <4>2. CASE k # 1
        <5>1. k - 1 \in 1..n /\ ~(k <= k - 1)
          BY <3>3, <4>2
        <5>2. ~(m <= off[k - 1])
          BY <3>2, <5>1
        <5> QED
          BY <3>4, <5>2
      <4> QED
        BY <4>1, <4>2
    <3>6. m - off[k - 1] \in 1..Len(seqs[k]) /\ m = off[k - 1] + (m - off[k - 1])
      BY <3>3, <3>4, <3>5
    <3> QED
      BY <3>3, <3>6
  <2>9. Blocks(s, off, seqs)
    <3>1. IsSeq(s) /\ Len(s) = off[n]
      BY <2>4, <2>5
    <3> HIDE DEF off, s
    <3>2. Offsets(off, seqs)
      BY <2>5, <2>6 DEF Offsets, n
    <3> QED
      BY <2>7, <2>8, <3>1, <3>2 DEF Blocks, n
  <2> QED
    BY <2>2, <2>9
<1> QED
  BY <1>1, <1>2

------------------------------------------------------------------------------
(* What a render opens: pass after pass, of what was never open by default.   *)

\* The passes of resolveExpansion, up to the m-th.
Passes(f, host, expanded, known, m) ==
  f = [n \in 0..m |->
         IF n = 0 THEN PassOver(host, expanded, known)
         ELSE LET last == f[n - 1]
              IN IF last.more = {} THEN last ELSE PassOver(host, last.open \cup last.more, known)]

LEMMA PassesThere ==
  ASSUME NEW host, NEW expanded, NEW known, NEW m \in Nat
  PROVE  \E f : Passes(f, host, expanded, known, m)
<1> DEFINE fails == {n \in Nat : ~ \E f : Passes(f, host, expanded, known, n)}
<1>1. SUFFICES ASSUME fails # {} PROVE FALSE
  OBVIOUS
<1>2. PICK n \in fails : \A k \in fails : n <= k
  BY <1>1, LeastNumber
<1>3. CASE n = 0
  <2> DEFINE g == [i \in 0..0 |-> PassOver(host, expanded, known)]
  <2>1. \A i \in 0..0 : i = 0
    OBVIOUS
  <2>2. Passes(g, host, expanded, known, 0)
    BY <2>1 DEF Passes
  <2> QED
    BY <1>2, <1>3, <2>2
<1>4. CASE n # 0
  <2>1. n \in Nat /\ n - 1 \in Nat /\ ~(n <= n - 1)
    BY <1>4
  <2>2. n - 1 \notin fails
    BY <1>2, <2>1
  <2>3. PICK f : Passes(f, host, expanded, known, n - 1)
    BY <2>1, <2>2
  <2> DEFINE Step(last) == IF last.more = {} THEN last ELSE PassOver(host, last.open \cup last.more, known)
             g == [i \in 0..n |-> IF i = n THEN Step(f[n - 1]) ELSE f[i]]
  <2>4. \A i \in 0..(n - 1) : f[i] = IF i = 0 THEN PassOver(host, expanded, known) ELSE Step(f[i - 1])
    <3> HIDE DEF fails, g
    <3> QED
      BY <2>3 DEF Passes
  <2> HIDE DEF Step
  <2>5. ASSUME NEW i \in 0..n PROVE g[i] = IF i = 0 THEN PassOver(host, expanded, known) ELSE Step(g[i - 1])
    <3>1. CASE i = n
      <4>1. n # 0 /\ n - 1 \in 0..n /\ n - 1 # n /\ g[n - 1] = f[n - 1]
        BY <1>4, <2>1
      <4> QED
        BY <3>1, <4>1
    <3>2. CASE i # n
      <4>1. i \in 0..(n - 1) /\ g[i] = f[i]
        BY <2>1, <3>2
      <4>2. i # 0 => i - 1 \in 0..n /\ i - 1 # n /\ g[i - 1] = f[i - 1]
        BY <2>1, <3>2
      <4> QED
        BY <2>4, <4>1, <4>2
    <3> QED
      BY <3>1, <3>2
  <2>6. Passes(g, host, expanded, known, n)
    <3>1. g = [i \in 0..n |-> g[i]]
      OBVIOUS
    <3> HIDE DEF g
    <3>2. g = [i \in 0..n |-> IF i = 0 THEN PassOver(host, expanded, known) ELSE Step(g[i - 1])]
      BY <2>5, <3>1
    <3> QED
      BY <3>2 DEF Passes, Step
  <2> QED
    BY <1>2, <2>6
<1> QED
  BY <1>3, <1>4

\* What is opened is what was, and what was never before open by default.
Opened(pass, host, expanded, known) ==
  /\ expanded \subseteq pass.open
  /\ (pass.open \ expanded) \cap known = {}
  /\ pass.more \cap known = {}
  /\ pass.rows = Flatten(host, pass.open)

LEMMA PassOpens ==
  ASSUME NEW host, NEW expanded, NEW known, NEW open, expanded \subseteq open, (open \ expanded) \cap known = {}
  PROVE  Opened(PassOver(host, open, known), host, expanded, known)
<1> DEFINE pass == PassOver(host, open, known)
<1>1. /\ pass.open = open /\ pass.rows = Flatten(host, open)
      /\ pass.more = Defaults(host, Flatten(host, open)) \ (open \cup known)
  BY DEF PassOver
<1> HIDE DEF pass
<1>2. Opened(pass, host, expanded, known)
  BY <1>1 DEF Opened
<1> QED
  BY <1>2 DEF pass

LEMMA PassesOpen ==
  ASSUME NEW host, NEW expanded, NEW known, NEW m \in Nat, NEW f, Passes(f, host, expanded, known, m)
  PROVE  \A n \in 0..m : Opened(f[n], host, expanded, known)
<1> DEFINE fails == {n \in 0..m : ~ Opened(f[n], host, expanded, known)}
<1>1. SUFFICES ASSUME fails # {} PROVE FALSE
  OBVIOUS
<1>2. PICK n \in fails : \A k \in fails : n <= k
  <2>1. fails \in SUBSET Nat
    OBVIOUS
  <2> HIDE DEF fails
  <2> QED
    BY <1>1, <2>1, LeastNumber
<1>3. n \in 0..m /\ ~ Opened(f[n], host, expanded, known)
  BY <1>2
<1>4. CASE n = 0
  <2>1. f[n] = PassOver(host, expanded, known)
    BY <1>3, <1>4 DEF Passes
  <2>2. Opened(PassOver(host, expanded, known), host, expanded, known)
    BY PassOpens
  <2> QED
    BY <1>3, <2>1, <2>2
<1>5. CASE n # 0
  <2> DEFINE last == f[n - 1]
  <2>1. f[n] = IF last.more = {} THEN last ELSE PassOver(host, last.open \cup last.more, known)
    BY <1>3, <1>5 DEF Passes
  <2>2. n - 1 \in 0..m /\ ~(n <= n - 1)
    BY <1>3, <1>5
  <2>3. Opened(last, host, expanded, known)
    BY <1>2, <2>2
  <2> HIDE DEF last
  <2>4. Opened(PassOver(host, last.open \cup last.more, known), host, expanded, known)
    <3>1. expanded \subseteq last.open \cup last.more /\ ((last.open \cup last.more) \ expanded) \cap known = {}
      BY <2>3 DEF Opened
    <3> QED
      BY <3>1, PassOpens
  <2> QED
    BY <1>3, <2>1, <2>3, <2>4
<1> QED
  BY <1>4, <1>5

\* What the tree opens by itself, for any tree and any number of passes.
LEMMA ResolvedOpens ==
  ASSUME NEW host, NEW expanded, NEW known
  PROVE  LET shows == Resolved(host, expanded, known)
         IN /\ expanded \subseteq shows.open /\ (shows.open \ expanded) \cap known = {}
            /\ shows.rows = Flatten(host, shows.open)
<1>1. MAX_RESOLVE_PASSES \in Nat
  BY ItemsAssumption
<1> DEFINE F(g) == [n \in 0..MAX_RESOLVE_PASSES |->
         IF n = 0 THEN PassOver(host, expanded, known)
         ELSE LET last == g[n - 1]
              IN IF last.more = {} THEN last ELSE PassOver(host, last.open \cup last.more, known)]
           f == CHOOSE g : g = F(g)
<1>2. Passes(f, host, expanded, known, MAX_RESOLVE_PASSES)
  <2>1. \E g : Passes(g, host, expanded, known, MAX_RESOLVE_PASSES)
    BY <1>1, PassesThere
  <2>2. \A g : Passes(g, host, expanded, known, MAX_RESOLVE_PASSES) <=> g = F(g)
    BY DEF Passes
  <2> HIDE DEF F
  <2> QED
    BY <2>1, <2>2
<1>3. Resolved(host, expanded, known) = f[MAX_RESOLVE_PASSES]
  BY DEF Resolved
<1> HIDE DEF f
<1>4. Opened(f[MAX_RESOLVE_PASSES], host, expanded, known)
  BY <1>1, <1>2, PassesOpen
<1> QED
  BY <1>3, <1>4 DEF Opened

------------------------------------------------------------------------------
(* What the tree component keeps.                                             *)

\* What the tree component keeps: a record of these.
IsUi(u) == u = [expanded |-> u.expanded, selection |-> u.selection, focused |-> u.focused,
                anchor |-> u.anchor, hit |-> u.hit]

LEMMA UiExpand ==
  ASSUME NEW u, IsUi(u), NEW row
  PROVE  IsUi(Expand(u, row))
BY DEF IsUi, Expand

LEMMA UiFocus ==
  ASSUME NEW u, IsUi(u), NEW id
  PROVE  IsUi(Focus(u, id)) /\ Focus(u, id).focused = id /\ Focus(u, id).hit = TRUE
         /\ Focus(u, id).expanded = u.expanded
<1> DEFINE q == Focus(u, id)
<1>1. q = Focus(u, id)
  OBVIOUS
<1> HIDE DEF q
<1>2. IsUi(q) /\ q.focused = id /\ q.hit = TRUE /\ q.expanded = u.expanded
  BY <1>1 DEF IsUi, Focus
<1> QED
  BY <1>2 DEF q

LEMMA UiSet ==
  ASSUME NEW u, IsUi(u), NEW v, NEW w
  PROVE  /\ IsUi([u EXCEPT !.anchor = v]) /\ IsUi([u EXCEPT !.selection = v]) /\ IsUi([u EXCEPT !.expanded = v])
         /\ IsUi([u EXCEPT !.anchor = v, !.selection = w]) /\ IsUi([u EXCEPT !.selection = v, !.anchor = w])
<1>1. IsUi([u EXCEPT !.anchor = v])
  <2> DEFINE q == [u EXCEPT !.anchor = v]
  <2>1. q = [u EXCEPT !.anchor = v]
    OBVIOUS
  <2> HIDE DEF q
  <2>2. IsUi(q)
    BY <2>1 DEF IsUi
  <2> QED
    BY <2>2 DEF q
<1>2. IsUi([u EXCEPT !.selection = v])
  <2> DEFINE q == [u EXCEPT !.selection = v]
  <2>1. q = [u EXCEPT !.selection = v]
    OBVIOUS
  <2> HIDE DEF q
  <2>2. IsUi(q)
    BY <2>1 DEF IsUi
  <2> QED
    BY <2>2 DEF q
<1>3. IsUi([u EXCEPT !.expanded = v])
  <2> DEFINE q == [u EXCEPT !.expanded = v]
  <2>1. q = [u EXCEPT !.expanded = v]
    OBVIOUS
  <2> HIDE DEF q
  <2>2. IsUi(q)
    BY <2>1 DEF IsUi
  <2> QED
    BY <2>2 DEF q
<1>4. IsUi([u EXCEPT !.anchor = v, !.selection = w])
  <2> DEFINE q == [u EXCEPT !.anchor = v, !.selection = w]
  <2>1. q = [u EXCEPT !.anchor = v, !.selection = w]
    OBVIOUS
  <2> HIDE DEF q
  <2>2. IsUi(q)
    BY <2>1 DEF IsUi
  <2> QED
    BY <2>2 DEF q
<1>5. IsUi([u EXCEPT !.selection = v, !.anchor = w])
  <2> DEFINE q == [u EXCEPT !.selection = v, !.anchor = w]
  <2>1. q = [u EXCEPT !.selection = v, !.anchor = w]
    OBVIOUS
  <2> HIDE DEF q
  <2>2. IsUi(q)
    BY <2>1 DEF IsUi
  <2> QED
    BY <2>2 DEF q
<1> QED
  BY <1>1, <1>2, <1>3, <1>4, <1>5

\* A key or a click makes of them a record of these.
LEMMA UiIntent ==
  ASSUME NEW u, IsUi(u), NEW rs, NEW intent, NEW page
  PROVE  IsUi(ApplyIntent(u, rs, intent, page))
<1>1. \A v : IsUi([u EXCEPT !.anchor = v]) /\ IsUi([u EXCEPT !.selection = v])
             /\ \A w : IsUi([u EXCEPT !.selection = v, !.anchor = w])
  BY UiSet
<1>2. \A id, v : IsUi(Focus(u, id)) /\ IsUi([Focus(u, id) EXCEPT !.anchor = v])
                 /\ \A w : IsUi([Focus(u, id) EXCEPT !.anchor = v, !.selection = w])
  BY UiFocus, UiSet
<1>3. \A row, v : IsUi(Expand(u, row)) /\ IsUi([Expand(u, row) EXCEPT !.selection = v])
  BY UiExpand, UiSet
<1>4. \A id : IsUi(Extended(u, rs, id))
  BY <1>2 DEF Extended
<1>5. \A row, v : IsUi([(IF row.expandable THEN Expand(u, row) ELSE u) EXCEPT !.selection = v])
  BY <1>1, <1>3
<1> DEFINE Leads(w) == IsUi(w)
<1>6. /\ \A id, v : Leads([Focus(u, id) EXCEPT !.anchor = v]) /\ Leads(Focus(u, id)) /\ Leads(Extended(u, rs, id))
      /\ \A row : Leads(Expand(u, row))
      /\ \A row, v : Leads([(IF row.expandable THEN Expand(u, row) ELSE u) EXCEPT !.selection = v])
      /\ \A v, w : Leads([u EXCEPT !.selection = v, !.anchor = w])
      /\ Leads(u)
  BY <1>1, <1>2, <1>3, <1>4, <1>5
<1> HIDE DEF Leads
<1>7. Leads(ApplyIntent(u, rs, intent, page))
  BY <1>6 DEF ApplyIntent
<1> QED
  BY <1>7 DEF Leads

LEMMA UiClick ==
  ASSUME NEW u, IsUi(u), NEW rs, NEW row
  PROVE  /\ \A mods \in {"plain", "shift", "mod"} : IsUi(ApplyRowClick(u, rs, row, mods))
         /\ IsUi(ApplyTwistieClick(u, rs, row))
<1>1. IsUi(Extended(u, rs, row.id))
  <2>1. IsUi(Focus(u, row.id))
    BY UiFocus
  <2> QED
    BY <2>1, UiSet DEF Extended
<1>2. \A v, w : IsUi([Focus(u, row.id) EXCEPT !.anchor = v, !.selection = w])
  BY UiFocus, UiSet
<1>3. \A v, w : IsUi([Focus(IF row.expandable THEN Expand(u, row) ELSE u, row.id) EXCEPT !.anchor = v, !.selection = w])
  <2>1. IsUi(IF row.expandable THEN Expand(u, row) ELSE u)
    BY UiExpand
  <2>2. IsUi(Focus(IF row.expandable THEN Expand(u, row) ELSE u, row.id))
    BY <2>1, UiFocus
  <2> QED
    BY <2>2, UiSet
<1>4. IsUi(ApplyTwistieClick(u, rs, row))
  <2>1. \A v : IsUi([Expand(u, row) EXCEPT !.selection = v])
    BY UiExpand, UiSet
  <2>2. \A v : IsUi(Focus([Expand(u, row) EXCEPT !.selection = v], row.id))
    BY <2>1, UiFocus
  <2> QED
    BY <2>1, <2>2 DEF ApplyTwistieClick
<1>5. ASSUME NEW mods \in {"plain", "shift", "mod"} PROVE IsUi(ApplyRowClick(u, rs, row, mods))
  <2>1. CASE mods = "plain"
    <3>1. \A v, w : Focus(IF row.expandable THEN Expand(u, row) ELSE u, row.id).selection = w \/ TRUE
      OBVIOUS
    <3> QED
      BY <1>3, <2>1 DEF ApplyRowClick
  <2>2. CASE mods = "shift"
    BY <1>1, <2>2 DEF ApplyRowClick
  <2>3. CASE mods = "mod"
    BY <1>2, <2>3 DEF ApplyRowClick
  <2> QED
    BY <2>1, <2>2, <2>3
<1> QED
  BY <1>4, <1>5

LEMMA UiMenu ==
  ASSUME IsUi(ui), NEW id
  PROVE  IsUi(MenuFocus(id))
<1>1. IsUi(IF id \in ui.selection THEN ui ELSE [ui EXCEPT !.selection = {id}, !.anchor = id])
  BY UiSet
<1> QED
  BY <1>1, UiFocus DEF MenuFocus

------------------------------------------------------------------------------
(* What was open by default and was closed stays closed.                      *)

ExpandInv == IsUi(ui) /\ shut \subseteq seen /\ shut \cap ui.expanded = {}

\* Every render keeps it, as long as what was closed is not among what is asked for.
LEMMA RenderOpens ==
  ASSUME NEW u, IsUi(u), Rendered(u, seen),
         Mounted' => shut' \subseteq seen /\ shut' \cap u.expanded = {}, ~ Mounted' => shut' = {}
  PROVE  ExpandInv'
<1>1. CASE Mounted'
  <2> DEFINE host == Host(cols', tree', landed', filter', active', u.expanded)
             shows == Resolved(host, u.expanded, seen)
  <2>1. /\ ui' = [u EXCEPT !.expanded = shows.open, !.hit = FALSE]
        /\ seen' = seen \cup (shows.open \ u.expanded)
    BY <1>1 DEF Rendered
  <2>2. (shows.open \ u.expanded) \cap seen = {}
    BY ResolvedOpens
  <2> HIDE DEF shows
  <2>3. IsUi(ui') /\ ui'.expanded = shows.open
    BY <2>1 DEF IsUi
  <2> QED
    BY <1>1, <2>1, <2>2, <2>3 DEF ExpandInv, IsUi
<1>2. CASE ~ Mounted'
  <2>1. ui' = [u EXCEPT !.hit = FALSE, !.anchor = None]
    BY <1>2 DEF Rendered
  <2>2. IsUi(ui')
    BY <2>1 DEF IsUi
  <2> QED
    BY <1>2, <2>2 DEF ExpandInv, IsUi
<1> QED
  BY <1>1, <1>2

\* The user closes and opens.
LEMMA ShutOpens ==
  ASSUME ExpandInv, NEW u, IsUi(u), Shut(u), Rendered(u, seen)
  PROVE  ExpandInv'
<1>1. Mounted' => shut' \subseteq seen /\ shut' \cap u.expanded = {}
  BY DEF Shut, ExpandInv
<1>2. ~ Mounted' => shut' = {}
  BY DEF Shut
<1> QED
  BY <1>1, <1>2, RenderOpens

\* The user closes and opens nothing.
LEMMA StillOpens ==
  ASSUME ExpandInv, StillShut, Rendered(ui, seen)
  PROVE  ExpandInv'
<1>1. Mounted' => shut' \subseteq seen /\ shut' \cap ui.expanded = {}
  BY DEF StillShut, ExpandInv
<1>2. ~ Mounted' => shut' = {}
  BY DEF StillShut
<1> QED
  BY <1>1, <1>2, RenderOpens DEF ExpandInv

LEMMA AskOpens ==
  ASSUME ExpandInv, NEW kind, NEW parents, AskFor(kind, parents)
  PROVE  ExpandInv'
<1> DEFINE u == [ui EXCEPT !.expanded = @ \cup {s.key : s \in parents}]
<1>1. IsUi(u) /\ Shut(u) /\ Rendered(u, seen)
  BY UiSet DEF AskFor, ExpandInv
<1> HIDE DEF u
<1> QED
  BY <1>1, ShutOpens

LEMMA NothingOpens ==
  ASSUME ExpandInv, UNCHANGED <<ui, seen, shut>>
  PROVE  ExpandInv'
BY DEF ExpandInv, IsUi

LEMMA UserOpens ==
  ASSUME ExpandInv, User
  PROVE  ExpandInv'
<1>1. IsUi(ui)
  BY DEF ExpandInv
<1>2. ASSUME NEW stroke \in Strokes, KeyMoves(stroke) PROVE ExpandInv'
  <2> DEFINE u == ApplyIntent(ui, rows, Intent(stroke), Page)
  <2>1. Shut(u) /\ Rendered(u, seen)
    BY <1>2 DEF KeyMoves
  <2>2. IsUi(u)
    BY <1>1, UiIntent
  <2> HIDE DEF u
  <2> QED
    BY <2>1, <2>2, ShutOpens
<1>3. ASSUME NEW stroke \in Strokes, KeyRenames(stroke) \/ KeyDeletes(stroke) PROVE ExpandInv'
  BY <1>3, NothingOpens DEF KeyRenames, KeyDeletes
<1>4. ASSUME NEW i \in DOMAIN rows, NEW mods \in {"plain", "shift", "mod"}, Click(i, mods) PROVE ExpandInv'
  <2> DEFINE u == ApplyRowClick(ui, rows, rows[i], mods)
  <2>1. Shut(u) /\ Rendered(u, seen)
    BY <1>4 DEF Click, Apply
  <2>2. IsUi(u)
    BY <1>1, UiClick
  <2> HIDE DEF u
  <2> QED
    BY <2>1, <2>2, ShutOpens
<1>5. ASSUME NEW i \in DOMAIN rows, Twistie(i) PROVE ExpandInv'
  <2> DEFINE u == ApplyTwistieClick(ui, rows, rows[i])
  <2>1. Shut(u) /\ Rendered(u, seen)
    BY <1>5 DEF Twistie, Apply
  <2>2. IsUi(u)
    BY <1>1, UiClick
  <2> HIDE DEF u
  <2> QED
    BY <2>1, <2>2, ShutOpens
<1>6. ASSUME NEW i \in DOMAIN rows, DoubleClick(i) PROVE ExpandInv'
  BY <1>6, StillOpens DEF DoubleClick
<1>7. ASSUME NEW i \in DOMAIN rows, ContextMenu(i) PROVE ExpandInv'
  <2>1. Shut(MenuFocus(rows[i].id)) /\ Rendered(MenuFocus(rows[i].id), seen)
    BY <1>7 DEF ContextMenu, Apply
  <2>2. IsUi(MenuFocus(rows[i].id))
    BY <1>1, UiMenu
  <2> QED
    BY <2>1, <2>2, ShutOpens
<1>8. ASSUME NEW i \in DOMAIN rows, RowButton(i) PROVE ExpandInv'
  <2>1. PICK s : \/ UNCHANGED <<ui, seen, shut>>
                 \/ AskFor("request", {s})
                 \/ StillShut /\ Rendered(ui, seen)
    BY <1>8 DEF RowButton
  <2> QED
    BY <2>1, NothingOpens, AskOpens, StillOpens
<1>9. ASSUME NEW i \in DOMAIN rows, DragStart(i) PROVE ExpandInv'
  <2> DEFINE id == rows[i].id
             u == IF id \in ui.selection THEN ui ELSE [ui EXCEPT !.selection = {id}, !.anchor = id]
  <2>1. Shut(u) /\ Rendered(u, seen)
    BY <1>9 DEF DragStart, Apply
  <2>2. IsUi(u)
    BY <1>1, UiSet
  <2> HIDE DEF u
  <2> QED
    BY <2>1, <2>2, ShutOpens
<1>10. ASSUME NEW i, NEW zone, DragOver(i, zone) PROVE ExpandInv'
  BY <1>10, NothingOpens DEF DragOver
<1>11. CASE Header
  BY <1>11, AskOpens DEF Header
<1>12. CASE MenuChoice
  <2>1. \/ UNCHANGED <<ui, seen, shut>>
        \/ \E kind, parents : AskFor(kind, parents)
        \/ StillShut /\ Rendered(ui, seen)
    BY <1>12 DEF MenuChoice
  <2> QED
    BY <2>1, NothingOpens, AskOpens, StillOpens
<1>13. CASE Dismiss \/ ConfirmDelete \/ DragAway
  BY <1>13, NothingOpens DEF Dismiss, ConfirmDelete, DragAway
<1>14. CASE Drop
  <2>1. CASE UNCHANGED <<ui, seen, shut>>
    BY <2>1, NothingOpens
  <2>2. CASE \E more : /\ Shut([ui EXCEPT !.expanded = @ \cup more])
                       /\ Rendered([ui EXCEPT !.expanded = @ \cup more], seen)
    <3>1. PICK more : /\ Shut([ui EXCEPT !.expanded = @ \cup more])
                      /\ Rendered([ui EXCEPT !.expanded = @ \cup more], seen)
      BY <2>2
    <3>2. IsUi([ui EXCEPT !.expanded = @ \cup more])
      BY <1>1, UiSet
    <3> QED
      BY <3>1, <3>2, ShutOpens
  <2> QED
    BY <1>14, <2>1, <2>2 DEF Drop
<1>15. ASSUME NEW i, NEW name, Submit(i, name) \/ TypeName(name) PROVE ExpandInv'
  BY <1>15, NothingOpens DEF Submit, TypeName
<1>16. ASSUME NEW q, TypeFilter(q) \/ SwitchCollection(q) \/ ShowView(q) PROVE ExpandInv'
  BY <1>16, StillOpens DEF TypeFilter, SwitchCollection, ShowView
<1>17. ASSUME NEW dir, CreateCollection(dir) \/ RenameCollection(dir) PROVE ExpandInv'
  BY <1>17, NothingOpens DEF CreateCollection, RenameCollection
<1> QED
  BY <1>2, <1>3, <1>4, <1>5, <1>6, <1>7, <1>8, <1>9, <1>10, <1>11, <1>12, <1>13, <1>14, <1>15, <1>16, <1>17 DEF User

LEMMA AnswerOpens ==
  ASSUME ExpandInv, Answer
  PROVE  ExpandInv'
<1>1. CASE Refused(Head(calls))
  BY <1>1, NothingOpens DEF Refused
<1>2. CASE Taken(Head(calls))
  <2> DEFINE u == After(Head(calls))
  <2>1. Rendered(u, seen) /\ shut' = IF Mounted' THEN shut \ (u.expanded \ ui.expanded) ELSE {}
    BY <1>2 DEF Taken
  <2>2. IsUi(u)
    <3>1. ASSUME NEW old, NEW new PROVE IsUi(Rekeyed(old, new))
      <4> DEFINE q == Rekeyed(old, new)
      <4>1. q = Rekeyed(old, new)
        OBVIOUS
      <4> HIDE DEF q
      <4>2. IsUi(q)
        BY <4>1 DEF Rekeyed, ExpandInv, IsUi
      <4> QED
        BY <4>2 DEF q
    <3> QED
      BY <3>1 DEF After, ExpandInv
  <2> HIDE DEF u
  <2>3. /\ Mounted' => shut' \subseteq seen /\ shut' \cap u.expanded = {}
        /\ ~ Mounted' => shut' = {}
    BY <2>1 DEF ExpandInv
  <2> QED
    BY <2>1, <2>2, <2>3, RenderOpens
<1> QED
  BY <1>1, <1>2 DEF Answer

LEMMA PanelOpens ==
  ASSUME ExpandInv, Next
  PROVE  ExpandInv'
<1>1. CASE \E c \in ToSet(cols) : Landed(c)
  BY <1>1, StillOpens DEF Landed, Arrives
<1>2. CASE Listed
  BY <1>2, StillOpens DEF Listed, Arrives
<1> QED
  BY <1>1, <1>2, AnswerOpens, UserOpens DEF Next

------------------------------------------------------------------------------
(* The rows: what the recursion over the tree yields, layer by layer.         *)

Added(above, host, expanded, left, parent, id) ==
  LET expandable == PanelState(host, id) # "none"
      open == expandable /\ id \in expanded
  IN <<[id |-> id, parent |-> parent, depth |-> Cardinality(Items) - left,
        expandable |-> expandable, expanded |-> open]>>
       \o (IF open /\ left > 0 THEN above[id] ELSE << >>)

Branches(above, host, expanded, left, parent) ==
  [k \in DOMAIN PanelChildren(host, parent) |->
     Added(above, host, expanded, left, parent, PanelChildren(host, parent)[k])]

Layer(above, host, expanded, left) ==
  [parent \in expanded \cup {None} |-> FlattenSeq(Branches(above, host, expanded, left, parent))]

Visits(v, host, expanded, m) == v = [left \in 0..m |-> Layer(v[left - 1], host, expanded, left)]

\* Below the last layer there is none.
LEMMA LowestLayer ==
  ASSUME NEW v, NEW w, NEW host, NEW expanded
  PROVE  Layer(v, host, expanded, 0) = Layer(w, host, expanded, 0)
<1>1. ASSUME NEW parent, NEW id PROVE Added(v, host, expanded, 0, parent, id) = Added(w, host, expanded, 0, parent, id)
  <2>1. ~ (0 > 0)
    OBVIOUS
  <2> QED
    BY <2>1 DEF Added
<1>2. \A parent : Branches(v, host, expanded, 0, parent) = Branches(w, host, expanded, 0, parent)
  BY <1>1 DEF Branches
<1> QED
  BY <1>2 DEF Layer

LEMMA VisitsThere ==
  ASSUME NEW host, NEW expanded, NEW m \in Nat
  PROVE  \E v : Visits(v, host, expanded, m)
<1> DEFINE fails == {n \in Nat : ~ \E v : Visits(v, host, expanded, n)}
<1>1. SUFFICES ASSUME fails # {} PROVE FALSE
  OBVIOUS
<1>2. PICK n \in fails : \A k \in fails : n <= k
  BY <1>1, LeastNumber
<1>3. CASE n = 0
  <2> DEFINE g == [i \in 0..0 |-> Layer(<< >>, host, expanded, 0)]
  <2>1. \A i \in 0..0 : i = 0
    OBVIOUS
  <2>2. Layer(<< >>, host, expanded, 0) = Layer(g[0 - 1], host, expanded, 0)
    BY LowestLayer
  <2>3. g = [i \in 0..0 |-> Layer(g[i - 1], host, expanded, i)]
    <3> DEFINE low == Layer(<< >>, host, expanded, 0)
    <3>1. g = [i \in 0..0 |-> low]
      OBVIOUS
    <3> HIDE DEF low, g
    <3>2. \A i \in 0..0 : low = Layer(g[i - 1], host, expanded, i)
      BY <2>1, <2>2 DEF low
    <3> QED
      BY <3>1, <3>2
  <2>4. Visits(g, host, expanded, 0)
    BY <2>3 DEF Visits
  <2> QED
    BY <1>2, <1>3, <2>4
<1>4. CASE n # 0
  <2>1. n \in Nat /\ n - 1 \in Nat /\ ~(n <= n - 1)
    BY <1>4
  <2>2. n - 1 \notin fails
    BY <1>2, <2>1
  <2>3. PICK f : Visits(f, host, expanded, n - 1)
    BY <2>1, <2>2
  <2> DEFINE g == [i \in 0..n |-> IF i = n THEN Layer(f[n - 1], host, expanded, n) ELSE f[i]]
  <2>4. \A i \in 0..(n - 1) : f[i] = Layer(f[i - 1], host, expanded, i)
    <3> HIDE DEF fails, g
    <3> QED
      BY <2>3 DEF Visits
  <2>5. ASSUME NEW i \in 0..n PROVE g[i] = Layer(g[i - 1], host, expanded, i)
    <3>1. CASE i = n
      <4>1. n - 1 \in 0..n /\ n - 1 # n /\ g[n - 1] = f[n - 1]
        BY <1>4, <2>1
      <4> QED
        BY <3>1, <4>1
    <3>2. CASE i # n /\ i # 0
      <4>1. i \in 0..(n - 1) /\ g[i] = f[i]
        BY <2>1, <3>2
      <4>2. i - 1 \in 0..n /\ i - 1 # n /\ g[i - 1] = f[i - 1]
        BY <2>1, <3>2
      <4> QED
        BY <2>4, <4>1, <4>2
    <3>3. CASE i # n /\ i = 0
      <4>1. i \in 0..(n - 1) /\ g[i] = f[i]
        BY <2>1, <3>3
      <4>2. f[i] = Layer(f[i - 1], host, expanded, 0)
        BY <2>4, <3>3, <4>1
      <4> HIDE DEF g
      <4>3. Layer(f[i - 1], host, expanded, 0) = Layer(g[i - 1], host, expanded, 0)
        BY LowestLayer
      <4> QED
        BY <3>3, <4>1, <4>2, <4>3
    <3> QED
      BY <3>1, <3>2, <3>3
  <2>6. Visits(g, host, expanded, n)
    <3>1. g = [i \in 0..n |-> g[i]]
      OBVIOUS
    <3> HIDE DEF g
    <3>2. g = [i \in 0..n |-> Layer(g[i - 1], host, expanded, i)]
      BY <2>5, <3>1
    <3> QED
      BY <3>2 DEF Visits
  <2> QED
    BY <1>2, <2>6
<1> QED
  BY <1>3, <1>4

LEMMA FlattenVisits ==
  ASSUME NEW host, NEW expanded
  PROVE  \E v : Visits(v, host, expanded, Cardinality(Items)) /\ Flatten(host, expanded) = v[Cardinality(Items)][None]
<1>1. Cardinality(Items) \in Nat
  BY DirsAssumption, FS_CardinalityType
<1> DEFINE F(v) == [left \in 0..Cardinality(Items) |-> Layer(v[left - 1], host, expanded, left)]
           w == CHOOSE v : v = F(v)
<1>2. Visits(w, host, expanded, Cardinality(Items))
  <2>1. \E v : Visits(v, host, expanded, Cardinality(Items))
    BY <1>1, VisitsThere
  <2>2. \A v : Visits(v, host, expanded, Cardinality(Items)) <=> v = F(v)
    BY DEF Visits
  <2> HIDE DEF F
  <2> QED
    BY <2>1, <2>2
<1>3. Flatten(host, expanded) = w[Cardinality(Items)][None]
  BY DEF Flatten, Layer, Branches, Added
<1> QED
  BY <1>2, <1>3

\* Rows below p, all of them good, and each below p or below another one.
RowsBelow(rs, p, host, expanded, good) ==
  /\ IsSeq(rs)
  /\ \A i \in 1..Len(rs) :
       /\ rs[i].id \in good
       /\ rs[i].parent = p \/ \E j \in 1..Len(rs) : rs[j].id = rs[i].parent
       /\ rs[i].expandable <=> PanelState(host, rs[i].id) # "none"
       /\ rs[i].expanded <=> rs[i].expandable /\ rs[i].id \in expanded

Fertile(host, good) == {None} \cup {p \in good : PanelState(host, p) # "none"}

\* What is below what is good is good.
Bears(host, good) ==
  \A p \in Fertile(host, good) :
    /\ IsSeq(PanelChildren(host, p))
    /\ \A k \in 1..Len(PanelChildren(host, p)) : PanelChildren(host, p)[k] \in good

LEMMA Prefixed ==
  ASSUME NEW e, NEW s, IsSeq(s)
  PROVE  /\ IsSeq(<<e>> \o s) /\ Len(<<e>> \o s) = 1 + Len(s) /\ (<<e>> \o s)[1] = e
         /\ \A n \in 1..Len(s) : (<<e>> \o s)[1 + n] = s[n]
<1> DEFINE one == <<e>>
<1>1. IsSeq(one) /\ Len(one) = 1 /\ one[1] = e
  BY Single
<1> HIDE DEF one
<1>2. /\ IsSeq(one \o s) /\ Len(one \o s) = Len(one) + Len(s)
      /\ \A n \in 1..Len(one) : (one \o s)[n] = one[n]
      /\ \A n \in 1..Len(s) : (one \o s)[Len(one) + n] = s[n]
  <2>1. IsSeq(one) /\ IsSeq(s)
    BY <1>1
  <2> QED
    BY <2>1, Joined
<1>3. 1 \in 1..Len(one)
  BY <1>1
<1>4. (one \o s)[1] = e
  BY <1>1, <1>2, <1>3
<1> QED
  BY <1>1, <1>2, <1>4 DEF one

\* An id and what is below it.
LEMMA AddedRows ==
  ASSUME NEW host, NEW expanded, NEW good, NEW above, NEW left, NEW p, NEW id \in good,
         (id \in expanded /\ id \in Fertile(host, good) /\ left > 0) => RowsBelow(above[id], id, host, expanded, good)
  PROVE  LET rs == Added(above, host, expanded, left, p, id)
         IN RowsBelow(rs, p, host, expanded, good) /\ Len(rs) > 0 /\ rs[1].id = id
<1> DEFINE expandable == PanelState(host, id) # "none"
           open == expandable /\ id \in expanded
           row == [id |-> id, parent |-> p, depth |-> Cardinality(Items) - left, expandable |-> expandable, expanded |-> open]
           below == IF open /\ left > 0 THEN above[id] ELSE << >>
           rs == <<row>> \o below
<1>1. rs = Added(above, host, expanded, left, p, id)
  BY DEF Added
<1>2. row.id = id /\ row.parent = p /\ row.expandable = expandable /\ row.expanded = open
  OBVIOUS
<1>3. RowsBelow(below, id, host, expanded, good)
  <2>1. CASE open /\ left > 0
    <3>1. id \in Fertile(host, good)
      BY <2>1 DEF Fertile
    <3> QED
      BY <2>1, <3>1
  <2>2. CASE ~ (open /\ left > 0)
    <3>1. below = << >>
      BY <2>2
    <3> HIDE DEF below
    <3>2. IsSeq(below) /\ Len(below) = 0
      BY <3>1, NoneOfIt
    <3> QED
      BY <3>2 DEF RowsBelow
  <2> QED
    BY <2>1, <2>2
<1> HIDE DEF row, below
<1>4. /\ IsSeq(rs) /\ Len(rs) = 1 + Len(below) /\ rs[1] = row
      /\ \A n \in 1..Len(below) : rs[1 + n] = below[n]
  <2>1. IsSeq(below)
    BY <1>3 DEF RowsBelow
  <2> QED
    BY <2>1, Prefixed
<1>5. Len(below) \in Nat
  BY <1>3 DEF RowsBelow, IsSeq
<1> HIDE DEF rs
<1>6. ASSUME NEW i \in 1..Len(rs)
      PROVE  /\ rs[i].id \in good
             /\ rs[i].parent = p \/ \E j \in 1..Len(rs) : rs[j].id = rs[i].parent
             /\ rs[i].expandable <=> PanelState(host, rs[i].id) # "none"
             /\ rs[i].expanded <=> rs[i].expandable /\ rs[i].id \in expanded
  <2>1. CASE i = 1
    BY <1>2, <1>4, <2>1
  <2>2. CASE i # 1
    <3> DEFINE n == i - 1
    <3>1. n \in 1..Len(below) /\ i = 1 + n /\ 1 \in 1..Len(rs)
      BY <1>4, <1>5, <2>2
    <3> HIDE DEF n
    <3>2. rs[i] = below[n]
      BY <1>4, <3>1
    <3>3. /\ below[n].id \in good
          /\ below[n].parent = id \/ \E j \in 1..Len(below) : below[j].id = below[n].parent
          /\ below[n].expandable <=> PanelState(host, below[n].id) # "none"
          /\ below[n].expanded <=> below[n].expandable /\ below[n].id \in expanded
      BY <1>3, <3>1 DEF RowsBelow
    <3>4. CASE below[n].parent = id
      BY <1>2, <1>4, <3>1, <3>2, <3>3, <3>4
    <3>5. CASE \E j \in 1..Len(below) : below[j].id = below[n].parent
      <4>1. PICK j \in 1..Len(below) : below[j].id = below[n].parent
        BY <3>5
      <4>2. 1 + j \in 1..Len(rs) /\ rs[1 + j] = below[j]
        BY <1>4, <1>5
      <4> QED
        BY <3>2, <3>3, <4>1, <4>2
    <3> QED
      BY <3>3, <3>4, <3>5
  <2> QED
    BY <2>1, <2>2
<1>7. Len(rs) > 0 /\ rs[1].id = id
  BY <1>2, <1>4, <1>5
<1>8. RowsBelow(rs, p, host, expanded, good)
  BY <1>4, <1>6 DEF RowsBelow
<1> QED
  BY <1>1, <1>7, <1>8

\* Strung together, what is below each child is what is below the parent.
LEMMA BranchRows ==
  ASSUME NEW host, NEW expanded, NEW good, Bears(host, good), NEW above, NEW left,
         \A p \in expanded \cap Fertile(host, good) : left > 0 => RowsBelow(above[p], p, host, expanded, good),
         NEW p \in Fertile(host, good)
  PROVE  RowsBelow(FlattenSeq(Branches(above, host, expanded, left, p)), p, host, expanded, good)
<1> DEFINE kids == PanelChildren(host, p)
           seqs == Branches(above, host, expanded, left, p)
           rs == FlattenSeq(seqs)
<1>1. IsSeq(kids) /\ DOMAIN kids = 1..Len(kids) /\ Len(kids) \in Nat /\ \A k \in 1..Len(kids) : kids[k] \in good
  <2>1. IsSeq(kids) /\ \A k \in 1..Len(kids) : kids[k] \in good
    BY DEF Bears
  <2> QED
    BY <2>1, SeqIs DEF IsSeq
<1>2. seqs = [k \in 1..Len(kids) |-> Added(above, host, expanded, left, p, kids[k])]
  BY <1>1 DEF Branches
<1> HIDE DEF kids, seqs
<1>3. IsSeq(seqs) /\ Len(seqs) = Len(kids)
  <2>1. seqs = [k \in 1..Len(kids) |-> seqs[k]]
    BY <1>2
  <2> QED
    BY <1>1, <2>1, ListOf
<1>4. ASSUME NEW k \in 1..Len(seqs)
      PROVE  RowsBelow(seqs[k], p, host, expanded, good) /\ Len(seqs[k]) > 0
  <2>1. seqs[k] = Added(above, host, expanded, left, p, kids[k]) /\ kids[k] \in good
    BY <1>1, <1>2, <1>3
  <2>2. (kids[k] \in expanded /\ kids[k] \in Fertile(host, good) /\ left > 0)
          => RowsBelow(above[kids[k]], kids[k], host, expanded, good)
    OBVIOUS
  <2> QED
    BY <2>1, <2>2, AddedRows
<1>5. \A k \in 1..Len(seqs) : IsSeq(seqs[k]) /\ Len(seqs[k]) \in Nat
  BY <1>4 DEF RowsBelow, IsSeq
<1>6. PICK off : Blocks(rs, off, seqs)
  BY <1>3, <1>5, Flat
<1> HIDE DEF rs
<1>7. ASSUME NEW i \in 1..Len(rs)
      PROVE  /\ rs[i].id \in good
             /\ rs[i].parent = p \/ \E j \in 1..Len(rs) : rs[j].id = rs[i].parent
             /\ rs[i].expandable <=> PanelState(host, rs[i].id) # "none"
             /\ rs[i].expanded <=> rs[i].expandable /\ rs[i].id \in expanded
  <2>0. PICK k \in 1..Len(seqs) : \E m \in 1..Len(seqs[k]) : i = off[k - 1] + m
    BY <1>6 DEF Blocks
  <2>1. PICK m \in 1..Len(seqs[k]) : i = off[k - 1] + m
    BY <2>0
  <2>2. rs[i] = seqs[k][m]
    BY <1>6, <2>1 DEF Blocks
  <2>3. /\ seqs[k][m].id \in good
        /\ seqs[k][m].parent = p \/ \E j \in 1..Len(seqs[k]) : seqs[k][j].id = seqs[k][m].parent
        /\ seqs[k][m].expandable <=> PanelState(host, seqs[k][m].id) # "none"
        /\ seqs[k][m].expanded <=> seqs[k][m].expandable /\ seqs[k][m].id \in expanded
    BY <1>4 DEF RowsBelow
  <2>4. \A j \in 1..Len(seqs[k]) : off[k - 1] + j \in 1..Len(rs) /\ rs[off[k - 1] + j] = seqs[k][j]
    BY <1>6 DEF Blocks
  <2> QED
    BY <2>2, <2>3, <2>4
<1>8. IsSeq(rs)
  BY <1>6 DEF Blocks
<1> QED
  BY <1>7, <1>8 DEF RowsBelow, rs, seqs

LEMMA VisitRows ==
  ASSUME NEW host, NEW expanded, NEW good, Bears(host, good), NEW m \in Nat, NEW v, Visits(v, host, expanded, m)
  PROVE  \A left \in 0..m : \A p \in (expanded \cup {None}) \cap Fertile(host, good) :
           RowsBelow(v[left][p], p, host, expanded, good)
<1> DEFINE Holds(left) == \A p \in (expanded \cup {None}) \cap Fertile(host, good) :
                           RowsBelow(v[left][p], p, host, expanded, good)
           fails == {left \in 0..m : ~ Holds(left)}
<1>1. SUFFICES ASSUME fails # {} PROVE FALSE
  OBVIOUS
<1>2. PICK left \in fails : \A k \in fails : left <= k
  <2>1. fails \in SUBSET Nat
    OBVIOUS
  <2> HIDE DEF fails
  <2> QED
    BY <1>1, <2>1, LeastNumber
<1>3. left \in 0..m /\ ~ Holds(left)
  BY <1>2
<1>4. v[left] = Layer(v[left - 1], host, expanded, left)
  BY <1>3 DEF Visits
<1>5. left > 0 => Holds(left - 1)
  <2>1. left > 0 => left - 1 \in 0..m /\ ~(left <= left - 1)
    BY <1>3
  <2> QED
    BY <1>2, <2>1
<1>6. \A p \in expanded \cap Fertile(host, good) : left > 0 => RowsBelow(v[left - 1][p], p, host, expanded, good)
  BY <1>5
<1> HIDE DEF fails
<1>7. ASSUME NEW p \in (expanded \cup {None}) \cap Fertile(host, good)
      PROVE  RowsBelow(v[left][p], p, host, expanded, good)
  <2> DEFINE above == v[left - 1]
  <2>1. v[left][p] = FlattenSeq(Branches(above, host, expanded, left, p))
    BY <1>4 DEF Layer
  <2>2. \A q \in expanded \cap Fertile(host, good) : left > 0 => RowsBelow(above[q], q, host, expanded, good)
    BY <1>6
  <2> HIDE DEF above
  <2>3. RowsBelow(FlattenSeq(Branches(above, host, expanded, left, p)), p, host, expanded, good)
    BY <2>2, BranchRows
  <2> QED
    BY <2>1, <2>3
<1> QED
  BY <1>3, <1>7

\* The rows on screen: what is below the root, and nothing else.
LEMMA FlattenRows ==
  ASSUME NEW host, NEW expanded, NEW good, Bears(host, good)
  PROVE  RowsBelow(Flatten(host, expanded), None, host, expanded, good)
<1>1. PICK v : Visits(v, host, expanded, Cardinality(Items)) /\ Flatten(host, expanded) = v[Cardinality(Items)][None]
  BY FlattenVisits
<1>2. Cardinality(Items) \in Nat /\ Cardinality(Items) \in 0..Cardinality(Items)
  BY DirsAssumption, FS_CardinalityType
<1>3. None \in (expanded \cup {None}) \cap Fertile(host, good)
  BY DEF Fertile
<1> QED
  BY <1>1, <1>2, <1>3, VisitRows

\* Ids of rows: a collection of the listing, and whatever below it.
Tokens == Home \cup Items \cup {Status}

IdsUnder(list) == {id \in Seq(Tokens) : id # << >> /\ id[1] \in ToSet(list)}

IsListing(list) == IsSeq(list) /\ Len(list) > 0 /\ \A k \in 1..Len(list) : list[k] \in Home

Branching(t, l) == \A x \in l \cup Folders : t.kids[x] \in Seq(Items)

\* The filter leaves some of the items, and nothing else.
LEMMA FilteredItems ==
  ASSUME NEW t, NEW q, NEW x, t.kids[x] \in Seq(Items)
  PROVE  /\ IsSeq(FilterTree(t, q, x))
         /\ \A i \in 1..Len(FilterTree(t, q, x)) : \E k \in 1..Len(t.kids[x]) : FilterTree(t, q, x)[i] = t.kids[x][k]
<1> DEFINE kids == t.kids[x]
           seqs == [k \in DOMAIN kids |-> IF Kept(t, q, kids[k]) THEN <<kids[k]>> ELSE << >>]
<1>1. FilterTree(t, q, x) = FlattenSeq(seqs)
  BY DEF FilterTree
<1>2. DOMAIN kids = 1..Len(kids) /\ Len(kids) \in Nat
  OBVIOUS
<1>3. seqs = [k \in 1..Len(kids) |-> IF Kept(t, q, kids[k]) THEN <<kids[k]>> ELSE << >>]
  BY <1>2
<1> HIDE DEF kids, seqs
<1>4. IsSeq(seqs) /\ Len(seqs) = Len(kids)
  <2>1. seqs = [k \in 1..Len(kids) |-> seqs[k]]
    BY <1>3
  <2> QED
    BY <1>2, <2>1, ListOf
<1>5. ASSUME NEW k \in 1..Len(seqs)
      PROVE  IsSeq(seqs[k]) /\ \A j \in 1..Len(seqs[k]) : seqs[k][j] = kids[k]
  <2>1. seqs[k] = IF Kept(t, q, kids[k]) THEN <<kids[k]>> ELSE << >>
    BY <1>3, <1>4
  <2>2. CASE Kept(t, q, kids[k])
    <3>1. seqs[k] = <<kids[k]>> /\ IsSeq(<<kids[k]>>) /\ Len(<<kids[k]>>) = 1 /\ <<kids[k]>>[1] = kids[k]
      BY <2>1, <2>2, Single
    <3> QED
      BY <3>1
  <2>3. CASE ~ Kept(t, q, kids[k])
    <3>1. seqs[k] = << >> /\ IsSeq(<< >>) /\ Len(<< >>) = 0
      BY <2>1, <2>3, NoneOfIt
    <3> QED
      BY <3>1
  <2> QED
    BY <2>2, <2>3
<1> DEFINE rs == FlattenSeq(seqs)
<1>6. PICK off : Blocks(rs, off, seqs)
  BY <1>4, <1>5, Flat
<1> HIDE DEF rs
<1>7. ASSUME NEW i \in 1..Len(rs) PROVE \E k \in 1..Len(kids) : rs[i] = kids[k]
  <2>1. PICK k \in 1..Len(seqs) : \E j \in 1..Len(seqs[k]) : i = off[k - 1] + j
    BY <1>6 DEF Blocks
  <2>2. PICK j \in 1..Len(seqs[k]) : i = off[k - 1] + j
    BY <2>1
  <2>3. rs[i] = seqs[k][j]
    BY <1>6, <2>2 DEF Blocks
  <2> QED
    BY <1>4, <1>5, <2>3
<1>8. IsSeq(rs)
  BY <1>6 DEF Blocks
<1> QED
  BY <1>1, <1>7, <1>8 DEF kids, rs

\* The items below an id, as ids.
LEMMA ItemIds ==
  ASSUME NEW list, NEW above \in IdsUnder(list), NEW all, IsSeq(all), \A i \in 1..Len(all) : all[i] \in Items
  PROVE  LET ids == [k \in DOMAIN all |-> Append(above, all[k])]
         IN IsSeq(ids) /\ Len(ids) = Len(all) /\ \A k \in 1..Len(ids) : ids[k] \in IdsUnder(list)
<1> DEFINE ids == [k \in DOMAIN all |-> Append(above, all[k])]
<1>1. DOMAIN all = 1..Len(all) /\ Len(all) \in Nat
  BY SeqIs DEF IsSeq
<1>2. ids = [k \in 1..Len(all) |-> Append(above, all[k])]
  BY <1>1
<1> HIDE DEF ids
<1>3. IsSeq(ids) /\ Len(ids) = Len(all)
  <2>1. ids = [k \in 1..Len(all) |-> ids[k]]
    BY <1>2
  <2> QED
    BY <1>1, <2>1, ListOf
<1>4. ASSUME NEW k \in 1..Len(ids) PROVE ids[k] \in IdsUnder(list)
  <2>1. ids[k] = Append(above, all[k]) /\ all[k] \in Tokens
    BY <1>2, <1>3 DEF Tokens
  <2>2. above \in Seq(Tokens) /\ above # << >> /\ above[1] \in ToSet(list)
    BY DEF IdsUnder
  <2>3. Append(above, all[k]) \in Seq(Tokens) /\ Len(above) > 0 /\ 1 \in 1..Len(above)
    BY <2>1, <2>2
  <2>4. Append(above, all[k])[1] = above[1] /\ Append(above, all[k]) # << >>
    BY <2>1, <2>2, <2>3
  <2> QED
    BY <2>1, <2>2, <2>3, <2>4 DEF IdsUnder
<1> QED
  BY <1>3, <1>4 DEF ids

LEMMA PanelBears ==
  ASSUME NEW list, IsListing(list), NEW t, NEW l, Branching(t, l), NEW q, NEW a, NEW expanded
  PROVE  Bears(Host(list, t, l, q, a, expanded), IdsUnder(list))
<1> DEFINE host == Host(list, t, l, q, a, expanded)
           good == IdsUnder(list)
           ItemsIn(x, above) == [k \in DOMAIN FilterTree(t, q, x) |-> Append(above, FilterTree(t, q, x)[k])]
           Bred(ids) == IsSeq(ids) /\ \A k \in 1..Len(ids) : ids[k] \in good
<1>1. host.cols = list /\ host.tree = t /\ host.filter = q /\ host.loaded \subseteq l
  BY DEF Host
<1>2. ASSUME NEW x \in l \cup Folders, NEW above \in good PROVE Bred(ItemsIn(x, above))
  <2> DEFINE all == FilterTree(t, q, x)
  <2>1. IsSeq(all) /\ \A i \in 1..Len(all) : all[i] \in Items
    <3>1. t.kids[x] \in Seq(Items)
      BY DEF Branching
    <3>2. \A k \in 1..Len(t.kids[x]) : t.kids[x][k] \in Items
      BY <3>1
    <3>3. IsSeq(all) /\ \A i \in 1..Len(all) : \E k \in 1..Len(t.kids[x]) : all[i] = t.kids[x][k]
      BY <3>1, FilteredItems
    <3> HIDE DEF all
    <3> QED
      BY <3>2, <3>3
  <2> HIDE DEF all
  <2> DEFINE ids == [k \in DOMAIN all |-> Append(above, all[k])]
  <2>2. IsSeq(ids) /\ \A k \in 1..Len(ids) : ids[k] \in good
    BY <2>1, ItemIds
  <2> QED
    BY <2>2 DEF all
<1>3. \A k \in 1..Len(list) : list[k] \in Home /\ list[k] \in ToSet(list)
  <2>1. DOMAIN list = 1..Len(list)
    BY SeqIs DEF IsListing
  <2> QED
    BY <2>1 DEF IsListing, ToSet
<1>4. \A c \in ToSet(list) : c \in Home => <<c>> \in good /\ <<c, Status>> \in good
  <2> SUFFICES ASSUME NEW c \in ToSet(list), c \in Home PROVE <<c>> \in good /\ <<c, Status>> \in good
    OBVIOUS
  <2>1. c \in Tokens /\ Status \in Tokens
    BY DEF Tokens
  <2>2. <<c>> \in Seq(Tokens) /\ <<c>> # << >> /\ <<c>>[1] = c
    BY <2>1
  <2>3. <<c, Status>> \in Seq(Tokens) /\ <<c, Status>> # << >> /\ <<c, Status>>[1] = c
    BY <2>1
  <2> QED
    BY <2>2, <2>3 DEF IdsUnder
<1> HIDE DEF host, good
<1>5. ASSUME NEW p \in Fertile(host, good) PROVE Bred(PanelChildren(host, p))
  <2> HIDE DEF Bred, ItemsIn
  <2>1. CASE p = None /\ Tiered(list)
    <3> DEFINE ids == [k \in DOMAIN list |-> <<list[k]>>]
    <3>1. PanelChildren(host, p) = ids
      BY <1>1, <2>1 DEF PanelChildren
    <3>2. DOMAIN list = 1..Len(list) /\ Len(list) \in Nat
      BY SeqIs DEF IsListing, IsSeq
    <3>3. ids = [k \in 1..Len(list) |-> <<list[k]>>]
      BY <3>2
    <3> HIDE DEF ids
    <3>4. IsSeq(ids) /\ Len(ids) = Len(list)
      <4>1. ids = [k \in 1..Len(list) |-> ids[k]]
        BY <3>3
      <4> QED
        BY <3>2, <4>1, ListOf
    <3>5. \A k \in 1..Len(ids) : ids[k] \in good
      BY <1>3, <1>4, <3>3, <3>4
    <3> QED
      BY <3>1, <3>4, <3>5 DEF Bred
  <2>2. CASE p = None /\ ~ Tiered(list)
    <3> DEFINE sole == list[1]
    <3>1. PanelChildren(host, p) = IF sole \in host.loaded THEN ItemsIn(sole, <<sole>>) ELSE << >>
      BY <1>1, <2>2 DEF PanelChildren, ItemsIn
    <3>2. 1 \in 1..Len(list)
      BY DEF IsListing, IsSeq
    <3>3. <<sole>> \in good
      BY <1>3, <1>4, <3>2
    <3> HIDE DEF sole
    <3>4. sole \in host.loaded => Bred(ItemsIn(sole, <<sole>>))
      BY <1>1, <1>2, <3>3
    <3>5. Bred(<< >>)
      BY NoneOfIt DEF Bred
    <3> QED
      BY <3>1, <3>4, <3>5
  <2>3. CASE p # None
    <3>1. p \in good /\ PanelState(host, p) # "none"
      BY <2>3 DEF Fertile
    <3>2. p \in Seq(Tokens) /\ p # << >> /\ p[1] \in ToSet(list) /\ Len(p) \in Nat /\ Len(p) > 0
      BY <3>1 DEF good, IdsUnder
    <3>3. CASE Len(p) = 1
      <4>1. PanelChildren(host, p) = IF p[1] \notin host.loaded \/ ItemsIn(p[1], p) = << >> THEN << <<p[1], Status>> >> ELSE ItemsIn(p[1], p)
        BY <1>1, <2>3, <3>3 DEF PanelChildren, ItemsIn
      <4>2. p[1] \in host.loaded => Bred(ItemsIn(p[1], p))
        BY <1>1, <1>2, <3>1
      <4>3. Bred(<< <<p[1], Status>> >>)
        <5>1. <<p[1], Status>> \in good
          <6>1. p[1] \in Home
            <7>1. DOMAIN list = 1..Len(list)
              BY SeqIs DEF IsListing
            <7> QED
              BY <1>3, <3>2, <7>1 DEF ToSet
          <6> QED
            BY <1>4, <3>2, <6>1
        <5> DEFINE e == <<p[1], Status>>
        <5>2. e \in good
          BY <5>1
        <5> HIDE DEF e
        <5>3. IsSeq(<<e>>) /\ Len(<<e>>) = 1 /\ <<e>>[1] = e
          BY Single
        <5>4. Bred(<<e>>)
          BY <5>2, <5>3 DEF Bred
        <5> QED
          BY <5>4 DEF e
      <4> QED
        BY <4>1, <4>2, <4>3
    <3>4. CASE Len(p) > 1
      <4>1. PanelChildren(host, p) = ItemsIn(Last(p), p)
        <5>1. ~ (Len(p) = 1)
          <6> DEFINE n == Len(p)
          <6>1. n \in Nat /\ n > 1
            BY <3>2, <3>4
          <6> HIDE DEF n
          <6>2. ~ (n = 1)
            BY <6>1
          <6> QED
            BY <6>2 DEF n
        <5> QED
          BY <1>1, <2>3, <5>1 DEF PanelChildren, ItemsIn
      <4>2. Last(p) \in Folders
        BY <3>1, <3>4 DEF PanelState
      <4> QED
        BY <1>2, <3>1, <4>1, <4>2
    <3>5. Len(p) = 1 \/ Len(p) > 1
      <4> DEFINE n == Len(p)
      <4>1. n \in Nat /\ n > 0
        BY <3>2
      <4> HIDE DEF n
      <4>2. n = 1 \/ n > 1
        BY <4>1
      <4> QED
        BY <4>2 DEF n
    <3> QED
      BY <3>3, <3>4, <3>5
  <2> QED
    BY <2>1, <2>2, <2>3
<1> QED
  BY <1>5 DEF Bears, host, good

\* What a render shows.
LEMMA PanelRows ==
  ASSUME NEW list, IsListing(list), NEW t, NEW l, Branching(t, l), NEW q, NEW a, NEW expanded, NEW open
  PROVE  LET host == Host(list, t, l, q, a, expanded)
         IN RowsBelow(Flatten(host, open), None, host, open, IdsUnder(list))
BY PanelBears, FlattenRows

------------------------------------------------------------------------------
(* Where a key or a click leaves the focus: on a row there is.                *)

LEMMA Least ==
  ASSUME NEW T \in SUBSET Nat, T # {}
  PROVE  Min(T) \in T /\ \A y \in T : Min(T) <= y
<1>1. \E x \in T : \A y \in T : x <= y
  BY LeastNumber
<1> QED
  BY <1>1 DEF Min

LEMMA IndexIs ==
  ASSUME NEW rs, IsSeq(rs), NEW id
  PROVE  /\ Index(rs, id) \in 0..Len(rs)
         /\ Index(rs, id) # 0 => Index(rs, id) \in DOMAIN rs /\ rs[Index(rs, id)].id = id
         /\ Index(rs, id) # 0 <=> id \in Ids(rs)
<1> DEFINE At == {i \in 1..Len(rs) : rs[i].id = id}
<1>1. Index(rs, id) = IF At # {} THEN Min(At) ELSE 0
  BY DEF Index, SelectInSeq
<1>2. DOMAIN rs = 1..Len(rs) /\ Len(rs) \in Nat
  BY SeqIs DEF IsSeq
<1>3. id \in Ids(rs) <=> At # {}
  BY <1>2 DEF Ids
<1>4. At # {} => Min(At) \in At
  <2>1. At \in SUBSET Nat
    OBVIOUS
  <2> HIDE DEF At
  <2> QED
    BY <2>1, Least
<1> QED
  BY <1>1, <1>2, <1>3, <1>4

LEMMA MaxTwo ==
  ASSUME NEW a \in Int, NEW b \in Int
  PROVE  /\ Max({a, b}) \in {a, b} /\ Max({a, b}) >= a /\ Max({a, b}) >= b
         /\ Min({a, b}) \in {a, b} /\ Min({a, b}) <= a /\ Min({a, b}) <= b
<1>1. \E x \in {a, b} : \A y \in {a, b} : x >= y
  OBVIOUS
<1>2. \E x \in {a, b} : \A y \in {a, b} : x =< y
  OBVIOUS
<1>3. Max({a, b}) \in {a, b} /\ \A y \in {a, b} : Max({a, b}) >= y
  BY <1>1 DEF Max
<1>4. Min({a, b}) \in {a, b} /\ \A y \in {a, b} : Min({a, b}) =< y
  BY <1>2 DEF Min
<1> QED
  BY <1>3, <1>4

LEMMA Clamped ==
  ASSUME NEW n \in Nat, n > 0, NEW i \in Int
  PROVE  Max({1, Min({i, n})}) \in 1..n
<1> DEFINE m == Min({i, n})
<1>0. i \in Int /\ n \in Int
  OBVIOUS
<1>1. m \in {i, n} /\ m <= n
  BY <1>0, MaxTwo
<1>3. m \in Int
  BY <1>0, <1>1
<1> HIDE DEF m
<1>2. Max({1, m}) \in {1, m} /\ Max({1, m}) >= 1
  <2>1. 1 \in Int
    OBVIOUS
  <2> QED
    BY <1>3, <2>1, MaxTwo
<1>4. Max({1, m}) \in 1..n
  BY <1>1, <1>2, <1>3
<1> QED
  BY <1>4 DEF m

LEMMA TargetIs ==
  ASSUME NEW rs, IsSeq(rs), rs # << >>, NEW from, NEW to \in Moves
  PROVE  TargetIndex(rs, from, to, Page) \in DOMAIN rs
<1> DEFINE n == Len(rs)
           at == Index(rs, from)
           above == IF at = 0 THEN n + 1 ELSE at
<1>1. DOMAIN rs = 1..n /\ n \in Nat
  BY SeqIs DEF IsSeq
<1>2. n > 0
  <2>1. CASE n = 0
    <3>1. rs = [k \in 1..0 |-> rs[k]] /\ << >> = [k \in 1..0 |-> rs[k]]
      BY <2>1 DEF IsSeq
    <3> QED
      BY <3>1
  <2> QED
    BY <1>1, <2>1
<1>3. at \in 0..n /\ above \in Int /\ Page \in Nat
  BY <1>1, IndexIs, ItemsAssumption
<1> HIDE DEF at
<1>4. \A i \in Int : Max({1, Min({i, n})}) \in 1..n
  BY <1>1, <1>2, Clamped
<1>5. at + 1 \in Int /\ above - 1 \in Int /\ at + Page \in Int /\ above - Page \in Int /\ 1 \in 1..n /\ n \in 1..n
  BY <1>1, <1>2, <1>3
<1>6. CASE to = "first"
  BY <1>1, <1>2, <1>5, <1>6 DEF TargetIndex
<1>7. CASE to = "last"
  BY <1>1, <1>2, <1>5, <1>7 DEF TargetIndex
<1>8. CASE to = "down"
  <2>1. TargetIndex(rs, from, to, Page) = Max({1, Min({at + 1, n})})
    BY <1>1, <1>2, <1>8 DEF TargetIndex, at
  <2> QED
    BY <1>1, <1>4, <1>5, <2>1
<1>9. CASE to = "up"
  <2>1. TargetIndex(rs, from, to, Page) = Max({1, Min({above - 1, n})})
    BY <1>1, <1>2, <1>9 DEF TargetIndex, at
  <2> QED
    BY <1>1, <1>4, <1>5, <2>1
<1>10. CASE to = "pageDown"
  <2>1. TargetIndex(rs, from, to, Page) = Max({1, Min({at + Page, n})})
    BY <1>1, <1>2, <1>10 DEF TargetIndex, at
  <2> QED
    BY <1>1, <1>4, <1>5, <2>1
<1>11. CASE to = "pageUp"
  <2>1. TargetIndex(rs, from, to, Page) = IF Page < above THEN Max({1, Min({above - Page, n})}) ELSE 1
    BY <1>1, <1>2, <1>11 DEF TargetIndex, at
  <2> QED
    BY <1>1, <1>4, <1>5, <2>1
<1> QED
  BY <1>6, <1>7, <1>8, <1>9, <1>10, <1>11 DEF Moves

\* Whoever was given the focus has a row.
Lands(u, rs) == IsUi(u) /\ (u.hit => u.focused \in Ids(rs))

LEMMA FocusLands ==
  ASSUME NEW u, IsUi(u), NEW rs, NEW id \in Ids(rs), NEW v, NEW w
  PROVE  /\ Lands(Focus(u, id), rs) /\ Lands([Focus(u, id) EXCEPT !.anchor = v], rs)
         /\ Lands([Focus(u, id) EXCEPT !.anchor = v, !.selection = w], rs)
<1> DEFINE p == Focus(u, id)
<1>1. IsUi(p) /\ p.focused = id
  BY UiFocus
<1> HIDE DEF p
<1> DEFINE q == [p EXCEPT !.anchor = v]
           r == [p EXCEPT !.anchor = v, !.selection = w]
<1>2. IsUi(q) /\ IsUi(r)
  BY <1>1, UiSet
<1>3. q.focused = id /\ r.focused = id
  BY <1>1 DEF IsUi
<1> QED
  BY <1>1, <1>2, <1>3 DEF Lands, p

\* What keeps the focus as it was.
LEMMA SameLands ==
  ASSUME NEW u, IsUi(u), u.hit = FALSE, NEW rs, NEW v, NEW w, NEW row
  PROVE  /\ Lands(u, rs) /\ Lands([u EXCEPT !.selection = v, !.anchor = w], rs) /\ Lands(Expand(u, row), rs)
         /\ Lands([Expand(u, row) EXCEPT !.selection = v], rs) /\ Lands([u EXCEPT !.selection = v], rs)
         /\ Expand(u, row).hit = FALSE /\ Lands([u EXCEPT !.expanded = v], rs)
<1>1. IsUi(Expand(u, row)) /\ Expand(u, row).hit = FALSE
  <2> DEFINE q == Expand(u, row)
  <2>1. q = Expand(u, row)
    OBVIOUS
  <2> HIDE DEF q
  <2>2. q.hit = FALSE
    BY <2>1 DEF IsUi, Expand
  <2> QED
    BY <2>2, UiExpand DEF q
<1> DEFINE a == [u EXCEPT !.selection = v, !.anchor = w]
           e == Expand(u, row)
<1> HIDE DEF e
<1> DEFINE b == [e EXCEPT !.selection = v]
           d == [u EXCEPT !.selection = v]
           f == [u EXCEPT !.expanded = v]
<1>2. IsUi(a) /\ IsUi(b) /\ IsUi(d) /\ IsUi(e) /\ IsUi(f)
  BY <1>1, UiSet DEF e
<1>3. a.hit = FALSE /\ d.hit = FALSE /\ f.hit = FALSE
  BY DEF IsUi
<1>4. b.hit = FALSE
  BY <1>1, <1>2 DEF IsUi, e
<1> QED
  BY <1>1, <1>2, <1>3, <1>4 DEF Lands, e

Parented(rs) == IsSeq(rs) /\ \A i \in DOMAIN rs : rs[i].parent = None \/ rs[i].parent \in Ids(rs)

LEMMA IntentLands ==
  ASSUME NEW u, IsUi(u), u.hit = FALSE, NEW rs, Parented(rs), NEW intent
  PROVE  Lands(ApplyIntent(u, rs, intent, Page), rs)
<1> DEFINE row == FocusedRow(u, rs)
           there == Index(rs, u.focused) # 0
           Goes(w) == Lands(w, rs)
<1>0. \A i \in DOMAIN rs : rs[i].id \in Ids(rs)
  BY DEF Ids
<1>1. \A id \in Ids(rs) : Goes(Focus(u, id)) /\ Goes([Focus(u, id) EXCEPT !.anchor = id]) /\ Goes(Extended(u, rs, id))
  BY FocusLands DEF Extended
<1>2. /\ Goes(u)
      /\ \A v, w : Goes([u EXCEPT !.selection = v, !.anchor = w])
      /\ \A r : Goes(Expand(u, r))
      /\ \A r, v : Goes([(IF r.expandable THEN Expand(u, r) ELSE u) EXCEPT !.selection = v])
  BY SameLands
<1>3. intent \in Moves /\ rs # << >> => rs[TargetIndex(rs, u.focused, intent, Page)].id \in Ids(rs)
  BY <1>0, TargetIs DEF Parented
<1>4. rs # << >> => /\ rs[TargetIndex(rs, u.focused, "up", Page)].id \in Ids(rs)
                    /\ rs[TargetIndex(rs, u.focused, "down", Page)].id \in Ids(rs)
  BY <1>0, TargetIs DEF Parented, Moves
<1>5. there => row = rs[Index(rs, u.focused)] /\ Index(rs, u.focused) \in DOMAIN rs /\ row.id \in Ids(rs)
  BY <1>0, IndexIs DEF Parented, FocusedRow
<1>6. there /\ row.parent # None => rs[ParentIndex(rs, row.id)].id \in Ids(rs)
  <2> SUFFICES ASSUME there, row.parent # None PROVE rs[ParentIndex(rs, row.id)].id \in Ids(rs)
    OBVIOUS
  <2>1. row = rs[Index(rs, u.focused)] /\ Index(rs, u.focused) \in DOMAIN rs /\ row.id = u.focused
    BY <1>5, IndexIs DEF Parented
  <2>2. row.parent \in Ids(rs)
    BY <2>1 DEF Parented
  <2>3. ParentIndex(rs, row.id) = Index(rs, row.parent)
    BY <2>1 DEF ParentIndex
  <2>4. Index(rs, row.parent) \in DOMAIN rs
    BY <2>2, IndexIs DEF Parented
  <2> QED
    BY <1>0, <2>3, <2>4
<1>7. FirstChildIndex(rs, row.id) # 0 => rs[FirstChildIndex(rs, row.id)].id \in Ids(rs)
  <2> DEFINE next == Index(rs, row.id) + 1
  <2>1. DOMAIN rs = 1..Len(rs) /\ Len(rs) \in Nat
    BY SeqIs DEF Parented, IsSeq
  <2>2. next \in Nat /\ next > 0
    BY <2>1, IndexIs DEF Parented
  <2>3. FirstChildIndex(rs, row.id) # 0 => FirstChildIndex(rs, row.id) = next /\ next <= Len(rs)
    BY DEF FirstChildIndex
  <2> HIDE DEF next
  <2>4. FirstChildIndex(rs, row.id) # 0 => FirstChildIndex(rs, row.id) \in DOMAIN rs
    BY <2>1, <2>2, <2>3
  <2> QED
    BY <1>0, <2>4
<1> HIDE DEF Goes
<1>8. Goes(ApplyIntent(u, rs, intent, Page))
  BY <1>1, <1>2, <1>3, <1>4, <1>5, <1>6, <1>7 DEF ApplyIntent, FocusedRow
<1> QED
  BY <1>8 DEF Goes

LEMMA ClickLands ==
  ASSUME NEW u, IsUi(u), u.hit = FALSE, NEW rs, NEW i \in DOMAIN rs
  PROVE  /\ \A mods \in {"plain", "shift", "mod"} : Lands(ApplyRowClick(u, rs, rs[i], mods), rs)
         /\ Lands(ApplyTwistieClick(u, rs, rs[i]), rs)
<1> DEFINE row == rs[i]
<1>1. row.id \in Ids(rs)
  BY DEF Ids
<1> HIDE DEF row
<1>2. Lands(Extended(u, rs, row.id), rs)
  BY <1>1, FocusLands DEF Extended
<1>3. \A v, w : Lands([Focus(u, row.id) EXCEPT !.anchor = v, !.selection = w], rs)
  BY <1>1, FocusLands
<1>4. \A v, w : Lands([Focus(IF row.expandable THEN Expand(u, row) ELSE u, row.id) EXCEPT !.anchor = v, !.selection = w], rs)
  <2> DEFINE p == IF row.expandable THEN Expand(u, row) ELSE u
  <2>1. IsUi(p)
    BY UiExpand
  <2> HIDE DEF p
  <2>2. \A v, w : Lands([Focus(p, row.id) EXCEPT !.anchor = v, !.selection = w], rs)
    BY <1>1, <2>1, FocusLands
  <2> QED
    BY <2>2 DEF p
<1>5. Lands(ApplyTwistieClick(u, rs, row), rs)
  <2>1. \A v : Lands([Expand(u, row) EXCEPT !.selection = v], rs) /\ IsUi([Expand(u, row) EXCEPT !.selection = v])
    BY SameLands, UiExpand, UiSet
  <2>2. \A v : Lands(Focus([Expand(u, row) EXCEPT !.selection = v], row.id), rs)
    BY <1>1, <2>1, FocusLands
  <2> QED
    BY <2>1, <2>2 DEF ApplyTwistieClick
<1>6. ASSUME NEW mods \in {"plain", "shift", "mod"} PROVE Lands(ApplyRowClick(u, rs, row, mods), rs)
  <2>1. CASE mods = "plain"
    BY <1>4, <2>1 DEF ApplyRowClick
  <2>2. CASE mods = "shift"
    BY <1>2, <2>2 DEF ApplyRowClick
  <2>3. CASE mods = "mod"
    BY <1>3, <2>3 DEF ApplyRowClick
  <2> QED
    BY <2>1, <2>2, <2>3
<1> QED
  BY <1>5, <1>6 DEF row

------------------------------------------------------------------------------
(* The collection that was chosen is one there is.                            *)

TreeOf(t, there) ==
  /\ t = [kids |-> t.kids, name |-> t.name] /\ there \cup Folders \subseteq DOMAIN t.kids
  /\ \A x \in DOMAIN t.kids : t.kids[x] \in Seq(Items)

RowsOf(rs, list) == Parented(rs) /\ Ids(rs) \subseteq IdsUnder(list)

\* Calls name collections there are; a call that changes them, or that another one
\* follows, is the only one.
CallsOf(cs, there) ==
  /\ IsSeq(cs)
  /\ \A k \in 1..Len(cs) : /\ cs[k].op \in {"newcoll", "recol", "delete", "rename", "create", "move"}
                           /\ cs[k].op # "newcoll" => cs[k].coll \in there
                           /\ cs[k].op = "create" => cs[k].of \in Items
                           /\ cs[k].op \in {"newcoll", "recol", "move"} => Len(cs) = 1

BatchInv == batch # None /\ Pending("move") => batch.coll \in served

ModalInv == modal.kind # "none" => /\ ~ Pending("newcoll") /\ ~ Pending("recol")
                                   /\ \A s \in modal.items : s.key[1] \in served

ChoiceInv ==
  /\ chosen \in served /\ landed \subseteq served /\ missing \cap served = {}
  /\ TreeOf(tree, served) /\ RowsOf(rows, cols) /\ CallsOf(calls, served)
  /\ IsUi(ui) /\ ui.hit = FALSE
  /\ BatchInv /\ ModalInv

LEMMA ListIs ==
  ASSUME PanelInv
  PROVE  IsListing(cols) /\ (cols = Listing(served) => ToSet(cols) \subseteq served /\ cols[1] \in served)
<1>1. IsListing(cols)
  BY DEF PanelInv, IsListing
<1>2. ASSUME cols = Listing(served) PROVE ToSet(cols) \subseteq served /\ cols[1] \in served
  <2>1. IsSeq(cols) /\ \A k \in 1..Len(cols) : cols[k] \in served
    BY <1>2, Sublist
  <2>2. DOMAIN cols = 1..Len(cols) /\ Len(cols) \in Nat /\ Len(cols) > 0
    BY <2>1, <1>1, SeqIs DEF IsListing, IsSeq
  <2> QED
    BY <2>1, <2>2 DEF ToSet
<1> QED
  BY <1>1, <1>2

LEMMA TreeBranches ==
  ASSUME NEW t, NEW there, TreeOf(t, there), NEW l, l \subseteq there
  PROVE  Branching(t, l)
BY DEF TreeOf, Branching

LEMMA RowsFrom ==
  ASSUME NEW list, NEW rs, NEW host, NEW open, RowsBelow(rs, None, host, open, IdsUnder(list))
  PROVE  RowsOf(rs, list)
<1>1. IsSeq(rs) /\ DOMAIN rs = 1..Len(rs)
  BY SeqIs DEF RowsBelow, IsSeq
<1>2. Ids(rs) \subseteq IdsUnder(list)
  BY <1>1 DEF RowsBelow, Ids
<1>3. \A i \in DOMAIN rs : rs[i].parent = None \/ rs[i].parent \in Ids(rs)
  BY <1>1 DEF RowsBelow, Ids
<1> QED
  BY <1>1, <1>2, <1>3 DEF RowsOf, Parented

LEMMA NoRows ==
  ASSUME NEW list
  PROVE  RowsOf(<< >>, list)
<1> DEFINE rs == << >>
<1>1. rs = << >>
  OBVIOUS
<1> HIDE DEF rs
<1>2. IsSeq(rs) /\ Len(rs) = 0
  BY <1>1, NoneOfIt
<1>3. DOMAIN rs = {}
  BY <1>2, SeqIs DEF IsSeq
<1> QED
  BY <1>2, <1>3 DEF RowsOf, Parented, Ids, rs

LEMMA RowsMade ==
  ASSUME NEW u, IsUi(u), NEW known, Rendered(u, known), IsListing(cols'), Branching(tree', landed')
  PROVE  RowsOf(rows', cols') /\ IsUi(ui') /\ ui'.hit = FALSE
<1>1. CASE Mounted'
  <2> DEFINE host == Host(cols', tree', landed', filter', active', u.expanded)
             shows == Resolved(host, u.expanded, known)
  <2>1. ui' = [u EXCEPT !.expanded = shows.open, !.hit = FALSE] /\ rows' = shows.rows
    BY <1>1 DEF Rendered
  <2>2. rows' = Flatten(host, shows.open)
    BY <2>1, ResolvedOpens
  <2> HIDE DEF shows
  <2>3. IsUi(ui') /\ ui'.hit = FALSE
    BY <2>1 DEF IsUi
  <2>4. RowsBelow(Flatten(host, shows.open), None, host, shows.open, IdsUnder(cols'))
    BY PanelRows
  <2> QED
    BY <2>2, <2>3, <2>4, RowsFrom
<1>2. CASE ~ Mounted'
  <2>1. ui' = [u EXCEPT !.hit = FALSE, !.anchor = None] /\ rows' = << >>
    BY <1>2 DEF Rendered
  <2>2. IsUi(ui') /\ ui'.hit = FALSE
    BY <2>1 DEF IsUi
  <2> QED
    BY <2>1, <2>2, NoRows
<1> QED
  BY <1>1, <1>2

\* A row's collection is there, when the list is that of the server.
LEMMA RowsThere ==
  ASSUME PanelInv, ChoiceInv, cols = Listing(served)
  PROVE  /\ \A id \in Ids(rows) : id[1] \in served
         /\ \A i \in DOMAIN rows : rows[i].id \in Ids(rows) /\ rows[i].id[1] \in served
         /\ \A ids : \A s \in Snaps(ids) : s.key[1] \in served
         /\ \A u : Lands(u, rows) => Owner(u) \in served
<1>1. ToSet(cols) \subseteq served
  BY ListIs
<1>2. \A id \in Ids(rows) : id[1] \in served
  BY <1>1 DEF ChoiceInv, RowsOf, IdsUnder
<1>3. \A i \in DOMAIN rows : rows[i].id \in Ids(rows)
  BY DEF Ids
<1>4. \A ids : \A s \in Snaps(ids) : s.key \in Ids(rows)
  BY DEF Snaps, Snap
<1>5. \A u : Lands(u, rows) => Owner(u) \in served
  BY <1>2 DEF Lands, Owner, ChoiceInv
<1> QED
  BY <1>2, <1>3, <1>4, <1>5

\* The server's side and what has come of it stay; the rows are as they were, or
\* those of a render.
Stays == UNCHANGED <<served, tree, cols, landed, missing>>

Renders == UNCHANGED <<rows, ui>> \/ \E u : IsUi(u) /\ Rendered(u, seen)

LEMMA ChoiceStays ==
  ASSUME PanelInv, ChoiceInv, Stays, Renders, chosen' \in served, CallsOf(calls', served), BatchInv', ModalInv'
  PROVE  ChoiceInv'
<1>1. RowsOf(rows', cols') /\ IsUi(ui') /\ ui'.hit = FALSE
  <2>1. CASE UNCHANGED <<rows, ui>>
    BY <2>1 DEF ChoiceInv, Stays, IsUi
  <2>2. CASE \E u : IsUi(u) /\ Rendered(u, seen)
    <3>1. PICK u : IsUi(u) /\ Rendered(u, seen)
      BY <2>2
    <3>2. IsListing(cols') /\ Branching(tree', landed')
      BY ListIs, TreeBranches DEF Stays, ChoiceInv
    <3> QED
      BY <3>1, <3>2, RowsMade
  <2> QED
    BY <2>1, <2>2 DEF Renders
<1>2. TreeOf(tree', served') /\ landed' \subseteq served' /\ missing' \cap served' = {} /\ chosen' \in served'
      /\ CallsOf(calls', served')
  BY DEF ChoiceInv, Stays
<1> QED
  BY <1>1, <1>2 DEF ChoiceInv

LEMMA NoneAsked ==
  ASSUME calls = << >>
  PROVE  \A op : ~ Pending(op)
<1>1. DOMAIN calls = {}
  <2>1. IsSeq(calls) /\ Len(calls) = 0
    BY NoneOfIt
  <2> QED
    BY <2>1, SeqIs DEF IsSeq
<1> QED
  BY <1>1 DEF Pending

\* Nothing is sent.
LEMMA AsksNone ==
  ASSUME ChoiceInv, UNCHANGED <<served, calls>>, batch' \in {batch, None}
  PROVE  CallsOf(calls', served) /\ BatchInv'
BY DEF ChoiceInv, BatchInv, Pending

LEMMA DialogStays ==
  ASSUME ChoiceInv, UNCHANGED <<served, calls>>, modal' \in {modal, Closed}
  PROVE  ModalInv'
BY DEF ChoiceInv, ModalInv, Pending, Closed

LEMMA DialogOpens ==
  ASSUME Careful, NEW kind, NEW snaps, NEW more, Open(kind, snaps, more), UNCHANGED <<served, calls>>,
         \A s \in snaps : s.key[1] \in served
  PROVE  ModalInv'
<1>1. calls = << >> /\ modal' = [kind |-> kind, items |-> snaps, asked |-> more]
  BY DEF Open
<1>2. \A op : ~ Pending(op)
  BY <1>1, NoneAsked
<1> QED
  BY <1>1, <1>2 DEF ModalInv, Pending

LEMMA DialogConfirms ==
  ASSUME Careful, ChoiceInv, NEW snaps, Confirm(snaps), UNCHANGED <<served, calls>>, \A s \in snaps : s.key[1] \in served
  PROVE  ModalInv'
<1>1. PICK some \in Prune(snaps) : modal' = Closed \/ Open("delete", some, snaps)
  BY DEF Confirm
<1>2. \A s \in some : s.key[1] \in served
  BY DEF Prune
<1> QED
  BY <1>1, <1>2, DialogOpens, DialogStays

LEMMA ActsThere ==
  ASSUME Careful, Acts
  PROVE  cols = Listing(served)
BY DEF Acts

\* The keys, the pointer and the menu.
LEMMA KeysChoose ==
  ASSUME Careful, PanelInv, ChoiceInv, NEW stroke, KeyMoves(stroke) \/ KeyRenames(stroke) \/ KeyDeletes(stroke)
  PROVE  ChoiceInv'
<1>1. cols = Listing(served)
  BY ActsThere DEF KeyMoves, KeyRenames, KeyDeletes
<1>2. Stays /\ UNCHANGED <<calls, batch>>
  BY DEF KeyMoves, KeyRenames, KeyDeletes, Still, Stays
<1>3. UNCHANGED served
  BY <1>2 DEF Stays
<1>4. CallsOf(calls', served) /\ BatchInv'
  BY <1>2, <1>3, AsksNone
<1>5. chosen \in served /\ IsUi(ui) /\ ui.hit = FALSE /\ Parented(rows)
  BY DEF ChoiceInv, RowsOf
<1>6. CASE KeyMoves(stroke)
  <2> DEFINE u == ApplyIntent(ui, rows, Intent(stroke), Page)
  <2>1. IsUi(u)
    BY <1>5, UiIntent
  <2>2. Lands(u, rows)
    BY <1>5, IntentLands
  <2>3. Rendered(u, seen) /\ UNCHANGED modal
    BY <1>6 DEF KeyMoves
  <2>4. chosen' = Owner(u) \/ (Snaps({ui.focused}) # {} /\ chosen' = ui.focused[1])
    BY <1>6 DEF KeyMoves
  <2> HIDE DEF u
  <2>5. Snaps({ui.focused}) # {} => ui.focused \in Ids(rows)
    BY DEF Snaps
  <2>6. chosen' \in served
    BY <1>1, <2>2, <2>4, <2>5, RowsThere
  <2>7. ModalInv'
    BY <1>2, <1>3, <2>3, DialogStays
  <2> QED
    BY <1>2, <1>4, <2>1, <2>3, <2>6, <2>7, ChoiceStays DEF Renders
<1>7. CASE KeyRenames(stroke)
  <2>1. UNCHANGED <<chosen, rows, ui, modal>>
    BY <1>7 DEF KeyRenames
  <2>2. ModalInv'
    BY <1>2, <1>3, <2>1, DialogStays
  <2> QED
    BY <1>2, <1>4, <1>5, <2>1, <2>2, ChoiceStays DEF Renders
<1>8. CASE KeyDeletes(stroke)
  <2>1. UNCHANGED <<chosen, rows, ui>> /\ Confirm(Snaps(DeleteIds(ui, rows)))
    BY <1>8 DEF KeyDeletes
  <2>2. \A s \in Snaps(DeleteIds(ui, rows)) : s.key[1] \in served
    BY <1>1, RowsThere
  <2>3. ModalInv'
    BY <1>2, <1>3, <2>1, <2>2, DialogConfirms
  <2> QED
    BY <1>2, <1>4, <1>5, <2>1, <2>3, ChoiceStays DEF Renders
<1> QED
  BY <1>6, <1>7, <1>8

LEMMA ClicksChoose ==
  ASSUME Careful, PanelInv, ChoiceInv, NEW i \in DOMAIN rows, NEW mods \in {"plain", "shift", "mod"},
         Click(i, mods) \/ Twistie(i) \/ DoubleClick(i) \/ DragStart(i)
  PROVE  ChoiceInv'
<1>1. cols = Listing(served)
  BY ActsThere DEF Click, Twistie, DoubleClick, DragStart
<1>2. Stays /\ UNCHANGED <<calls, batch, modal>>
  BY DEF Click, Twistie, DoubleClick, DragStart, Still, Stays
<1>3. UNCHANGED served
  BY <1>2 DEF Stays
<1>4. CallsOf(calls', served) /\ BatchInv' /\ ModalInv'
  BY <1>2, <1>3, AsksNone, DialogStays
<1>5. IsUi(ui) /\ ui.hit = FALSE /\ Parented(rows)
  BY DEF ChoiceInv, RowsOf
<1>6. ASSUME NEW u, IsUi(u), Lands(u, rows), Apply(u) PROVE ChoiceInv'
  <2>1. chosen' = Owner(u) /\ Rendered(u, seen)
    BY <1>6 DEF Apply
  <2>2. chosen' \in served
    BY <1>1, <1>6, <2>1, RowsThere
  <2> QED
    BY <1>2, <1>4, <1>6, <2>1, <2>2, ChoiceStays DEF Renders
<1>7. CASE Click(i, mods)
  <2>1. IsUi(ApplyRowClick(ui, rows, rows[i], mods)) /\ Lands(ApplyRowClick(ui, rows, rows[i], mods), rows)
    BY <1>5, UiClick, ClickLands
  <2> QED
    BY <1>6, <1>7, <2>1 DEF Click
<1>8. CASE Twistie(i)
  <2>1. IsUi(ApplyTwistieClick(ui, rows, rows[i])) /\ Lands(ApplyTwistieClick(ui, rows, rows[i]), rows)
    BY <1>5, UiClick, ClickLands
  <2> QED
    BY <1>6, <1>8, <2>1 DEF Twistie
<1>9. CASE DoubleClick(i)
  <2>1. chosen' = rows[i].id[1] /\ Rendered(ui, seen)
    BY <1>9 DEF DoubleClick
  <2>2. chosen' \in served
    BY <1>1, <2>1, RowsThere
  <2> QED
    BY <1>2, <1>4, <1>5, <2>1, <2>2, ChoiceStays DEF Renders
<1>10. CASE DragStart(i)
  <2> DEFINE id == rows[i].id
             u == IF id \in ui.selection THEN ui ELSE [ui EXCEPT !.selection = {id}, !.anchor = id]
  <2>1. Apply(u)
    BY <1>10 DEF DragStart
  <2>2. IsUi(u) /\ Lands(u, rows)
    BY <1>5, UiSet, SameLands
  <2> HIDE DEF u
  <2> QED
    BY <1>6, <2>1, <2>2
<1> QED
  BY <1>7, <1>8, <1>9, <1>10

LEMMA MenuChooses ==
  ASSUME Careful, PanelInv, ChoiceInv, NEW i \in DOMAIN rows, ContextMenu(i)
  PROVE  ChoiceInv'
<1> DEFINE u == MenuFocus(rows[i].id)
<1>1. cols = Listing(served)
  BY ActsThere DEF ContextMenu
<1>2. Stays /\ UNCHANGED <<calls, batch>> /\ UNCHANGED served
  BY DEF ContextMenu, Still, Stays
<1>3. CallsOf(calls', served) /\ BatchInv'
  BY <1>2, AsksNone
<1>4. IsUi(ui) /\ rows[i].id \in Ids(rows)
  BY DEF ChoiceInv, Ids
<1>5. IsUi(u)
  BY <1>4, UiMenu
<1>6. Lands(u, rows)
  <2> DEFINE p == IF rows[i].id \in ui.selection THEN ui ELSE [ui EXCEPT !.selection = {rows[i].id}, !.anchor = rows[i].id]
  <2>1. IsUi(p)
    BY <1>4, UiSet
  <2>2. u = Focus(p, rows[i].id)
    BY DEF MenuFocus
  <2> HIDE DEF p, u
  <2>3. Lands(Focus(p, rows[i].id), rows)
    BY <1>4, <2>1, FocusLands
  <2> QED
    BY <2>2, <2>3
<1>7. chosen' = Owner(u) /\ Rendered(u, seen) /\ Open("menu", Snaps(u.selection), {})
  BY DEF ContextMenu, Apply
<1> HIDE DEF u
<1>8. chosen' \in served /\ \A s \in Snaps(u.selection) : s.key[1] \in served
  BY <1>1, <1>6, <1>7, RowsThere
<1>9. ModalInv'
  BY <1>2, <1>7, <1>8, DialogOpens
<1> QED
  BY <1>2, <1>3, <1>5, <1>7, <1>8, <1>9, ChoiceStays DEF Renders

\* A dialog that asks for the name of something new.
LEMMA AskChooses ==
  ASSUME Careful, PanelInv, ChoiceInv, Stays, UNCHANGED <<calls, batch, chosen>>, NEW kind, NEW parents, AskFor(kind, parents),
         \A s \in parents : s.key[1] \in served
  PROVE  ChoiceInv'
<1> DEFINE u == [ui EXCEPT !.expanded = @ \cup {s.key : s \in parents}]
<1>1. Rendered(u, seen) /\ Open(kind, parents, {})
  BY DEF AskFor
<1>2. IsUi(u) /\ chosen' \in served
  BY UiSet DEF ChoiceInv
<1> HIDE DEF u
<1>3. UNCHANGED served
  BY DEF Stays
<1>4. CallsOf(calls', served) /\ BatchInv' /\ ModalInv'
  BY <1>1, <1>3, AsksNone, DialogOpens
<1> QED
  BY <1>1, <1>2, <1>4, ChoiceStays DEF Renders

LEMMA ButtonChooses ==
  ASSUME Careful, PanelInv, ChoiceInv, NEW i \in DOMAIN rows, RowButton(i)
  PROVE  ChoiceInv'
<1>1. cols = Listing(served)
  BY ActsThere DEF RowButton
<1>2. Stays /\ UNCHANGED <<calls, batch>> /\ UNCHANGED served
  BY DEF RowButton, Still, Stays
<1>3. CallsOf(calls', served) /\ BatchInv' /\ chosen \in served /\ IsUi(ui)
  BY <1>2, AsksNone DEF ChoiceInv
<1>4. PICK s \in Snaps({rows[i].id}) :
        \/ Confirm({s}) /\ UNCHANGED <<chosen, rows, ui>>
        \/ UNCHANGED <<chosen, rows, ui, modal>>
        \/ UNCHANGED chosen /\ AskFor("request", {s})
        \/ chosen' = s.key[1] /\ Rendered(ui, seen) /\ UNCHANGED modal
  BY DEF RowButton
<1>5. \A r \in {s} : r.key[1] \in served
  BY <1>1, RowsThere
<1>6. CASE Confirm({s}) /\ UNCHANGED <<chosen, rows, ui>>
  BY <1>2, <1>3, <1>5, <1>6, DialogConfirms, ChoiceStays DEF Renders
<1>7. CASE UNCHANGED <<chosen, rows, ui, modal>>
  BY <1>2, <1>3, <1>7, DialogStays, ChoiceStays DEF Renders
<1>8. CASE UNCHANGED chosen /\ AskFor("request", {s})
  BY <1>2, <1>5, <1>8, AskChooses
<1>9. CASE chosen' = s.key[1] /\ Rendered(ui, seen) /\ UNCHANGED modal
  BY <1>2, <1>3, <1>5, <1>9, DialogStays, ChoiceStays DEF Renders
<1> QED
  BY <1>4, <1>6, <1>7, <1>8, <1>9

LEMMA ItemsChoose ==
  ASSUME Careful, PanelInv, ChoiceInv, MenuChoice
  PROVE  ChoiceInv'
<1>1. Stays /\ UNCHANGED <<calls, batch>> /\ UNCHANGED served
  BY DEF MenuChoice, Still, Stays
<1>2. CallsOf(calls', served) /\ BatchInv' /\ chosen \in served /\ IsUi(ui)
  BY <1>1, AsksNone DEF ChoiceInv
<1>3. \A s \in modal.items : s.key[1] \in served
  BY DEF MenuChoice, ChoiceInv, ModalInv
<1>4. \/ Confirm(modal.items) /\ UNCHANGED <<chosen, rows, ui>>
      \/ UNCHANGED <<chosen, rows, ui>> /\ modal' = Closed
      \/ UNCHANGED chosen /\ \E kind : AskFor(kind, modal.items)
      \/ Cardinality(modal.items) = 1 /\ (\A s \in modal.items : chosen' = s.key[1]) /\ Rendered(ui, seen) /\ modal' = Closed
  BY DEF MenuChoice
<1>5. CASE Confirm(modal.items) /\ UNCHANGED <<chosen, rows, ui>>
  BY <1>1, <1>2, <1>3, <1>5, DialogConfirms, ChoiceStays DEF Renders
<1>6. CASE UNCHANGED <<chosen, rows, ui>> /\ modal' = Closed
  BY <1>1, <1>2, <1>6, DialogStays, ChoiceStays DEF Renders
<1>7. CASE UNCHANGED chosen /\ \E kind : AskFor(kind, modal.items)
  BY <1>1, <1>3, <1>7, AskChooses
<1>8. CASE Cardinality(modal.items) = 1 /\ (\A s \in modal.items : chosen' = s.key[1]) /\ Rendered(ui, seen) /\ modal' = Closed
  <2>1. modal.items # {}
    BY <1>8, FS_EmptySet
  <2>2. chosen' \in served
    BY <1>3, <1>8, <2>1
  <2> QED
    BY <1>1, <1>2, <1>8, <2>2, DialogStays, ChoiceStays DEF Renders
<1> QED
  BY <1>4, <1>5, <1>6, <1>7, <1>8

\* The rest that asks for nothing.
LEMMA ViewChooses ==
  ASSUME Careful, PanelInv, ChoiceInv,
         \/ Header \/ Dismiss \/ DragAway
         \/ \E i, zone : DragOver(i, zone)
         \/ \E q : TypeFilter(q) \/ ShowView(q)
         \/ \E c \in ToSet(cols) : SwitchCollection(c)
  PROVE  ChoiceInv'
<1>1. Stays /\ UNCHANGED calls /\ UNCHANGED served /\ batch' \in {batch, None}
  BY DEF Header, Dismiss, DragAway, DragOver, TypeFilter, ShowView, SwitchCollection, Still, Stays
<1>2. CallsOf(calls', served) /\ BatchInv' /\ chosen \in served /\ IsUi(ui)
  BY <1>1, AsksNone DEF ChoiceInv
<1>3. CASE Header
  <2>1. PICK kind : AskFor(kind, {})
    BY <1>3 DEF Header
  <2>2. UNCHANGED <<batch, chosen>>
    BY <1>3 DEF Header
  <2> QED
    BY <1>1, <2>1, <2>2, AskChooses
<1>4. CASE Dismiss \/ DragAway \/ \E i, zone : DragOver(i, zone)
  <2>1. UNCHANGED <<chosen, rows, ui>> /\ modal' \in {modal, Closed}
    BY <1>4 DEF Dismiss, DragAway, DragOver
  <2> QED
    BY <1>1, <1>2, <2>1, DialogStays, ChoiceStays DEF Renders
<1>5. CASE \E q : TypeFilter(q) \/ ShowView(q)
  <2>1. UNCHANGED chosen /\ Rendered(ui, seen) /\ modal' \in {modal, Closed}
    BY <1>5 DEF TypeFilter, ShowView, DialogKept
  <2> QED
    BY <1>1, <1>2, <2>1, DialogStays, ChoiceStays DEF Renders
<1>6. CASE \E c \in ToSet(cols) : SwitchCollection(c)
  <2>1. PICK c \in ToSet(cols) : SwitchCollection(c)
    BY <1>6
  <2>2. chosen' = c /\ Rendered(ui, seen) /\ modal' \in {modal, Closed} /\ Acts
    BY <2>1 DEF SwitchCollection, DialogKept
  <2>3. chosen' \in served
    BY <2>2, ActsThere, ListIs
  <2> QED
    BY <1>1, <1>2, <2>2, <2>3, DialogStays, ChoiceStays DEF Renders
<1> QED
  BY <1>3, <1>4, <1>5, <1>6

LEMMA SentIs ==
  ASSUME Careful, NEW more, Sent(more), IsSeq(more)
  PROVE  /\ calls = << >> /\ cols = Listing(served)
         /\ IsSeq(calls') /\ Len(calls') = Len(more) /\ \A k \in 1..Len(more) : calls'[k] = more[k]
<1> DEFINE none == << >>
<1>1. calls = none /\ cols = Listing(served) /\ calls' = none \o more
  BY DEF Sent
<1>2. IsSeq(none) /\ Len(none) = 0
  BY NoneOfIt
<1> HIDE DEF none
<1>3. /\ IsSeq(none \o more) /\ Len(none \o more) = Len(none) + Len(more)
      /\ \A n \in 1..Len(more) : (none \o more)[Len(none) + n] = more[n]
  BY <1>2, Joined
<1>4. Len(more) \in Nat
  BY DEF IsSeq
<1>5. Len(calls') = Len(more) /\ \A k \in 1..Len(more) : 0 + k = k
  BY <1>1, <1>2, <1>3, <1>4
<1>6. \A k \in 1..Len(more) : calls'[k] = more[k]
  BY <1>1, <1>2, <1>3, <1>5
<1> QED
  BY <1>1, <1>3, <1>5, <1>6 DEF none

LEMMA CallSent ==
  ASSUME Careful, NEW c, Sent(<<c>>), UNCHANGED served, c.op \in {"newcoll", "recol", "delete", "rename", "create", "move"},
         c.op # "newcoll" => c.coll \in served, c.op = "create" => c.of \in Items
  PROVE  /\ calls = << >> /\ cols = Listing(served) /\ CallsOf(calls', served)
         /\ \A op : Pending(op)' <=> c.op = op
<1> DEFINE more == <<c>>
<1>1. IsSeq(more) /\ Len(more) = 1 /\ more[1] = c
  BY Single
<1>2. Sent(more)
  OBVIOUS
<1> HIDE DEF more
<1>3. /\ calls = << >> /\ cols = Listing(served)
      /\ IsSeq(calls') /\ Len(calls') = Len(more) /\ \A k \in 1..Len(more) : calls'[k] = more[k]
  BY <1>1, <1>2, SentIs
<1>4. Len(calls') = 1 /\ calls'[1] = c /\ 1..1 = {1}
  BY <1>1, <1>3
<1>5. DOMAIN calls' = {1}
  BY <1>3, <1>4, SeqIs DEF IsSeq
<1>6. CallsOf(calls', served)
  BY <1>3, <1>4 DEF CallsOf
<1>7. \A op : Pending(op)' <=> c.op = op
  BY <1>4, <1>5 DEF Pending
<1> QED
  BY <1>3, <1>6, <1>7

LEMMA SubmitChooses ==
  ASSUME Careful, PanelInv, ChoiceInv, NEW i \in Items, NEW name, Submit(i, name)
  PROVE  ChoiceInv'
<1>1. Stays /\ UNCHANGED served /\ UNCHANGED <<chosen, rows, ui>> /\ batch' = None /\ modal' = Closed
  BY DEF Submit, Still, Stays
<1>2. PICK parent : Send(<<[op |-> "create", coll |-> active, path |-> parent.path, in |-> parent.i, of |-> i, to |-> name]>>)
  BY DEF Submit
<1> DEFINE c == [op |-> "create", coll |-> active, path |-> parent.path, in |-> parent.i, of |-> i, to |-> name]
<1>3. Sent(<<c>>) /\ c.op = "create" /\ c.coll = active /\ c.of = i
  BY <1>2 DEF Send
<1> HIDE DEF c
<1>4. active \in served
  BY <1>3, ActiveServed DEF Sent
<1>5. CallsOf(calls', served)
  BY <1>1, <1>3, <1>4, CallSent
<1>6. BatchInv' /\ ModalInv'
  BY <1>1 DEF BatchInv, ModalInv, Closed
<1> QED
  BY <1>1, <1>5, <1>6, ChoiceStays DEF ChoiceInv, Renders

LEMMA DeleteChooses ==
  ASSUME Careful, PanelInv, ChoiceInv, ConfirmDelete
  PROVE  ChoiceInv'
<1>1. Stays /\ UNCHANGED served /\ UNCHANGED <<chosen, rows, ui>> /\ batch' = None /\ modal' = Closed
  BY DEF ConfirmDelete, Still, Stays
<1>2. \A s \in modal.items : s.key[1] \in served
  BY DEF ConfirmDelete, ChoiceInv, ModalInv
<1>3. PICK n \in 0..Cardinality(Items) : \E f \in Bijection(1..n, modal.items) :
        Send([k \in DOMAIN f |-> [op |-> "delete", coll |-> f[k].key[1], path |-> f[k].path, of |-> f[k].i]])
  BY DEF ConfirmDelete
<1>4. PICK f \in Bijection(1..n, modal.items) :
        Send([k \in DOMAIN f |-> [op |-> "delete", coll |-> f[k].key[1], path |-> f[k].path, of |-> f[k].i]])
  BY <1>3
<1>5. DOMAIN f = 1..n /\ n \in Nat /\ \A k \in 1..n : f[k] \in modal.items
  <2>1. Cardinality(Items) \in Nat
    BY DirsAssumption, FS_CardinalityType
  <2> QED
    BY <2>1 DEF Bijection, Injection
<1> DEFINE more == [k \in DOMAIN f |-> [op |-> "delete", coll |-> f[k].key[1], path |-> f[k].path, of |-> f[k].i]]
<1>6. \A k \in 1..n : more[k].op = "delete" /\ more[k].coll \in served
  BY <1>2, <1>5
<1>7. more = [k \in 1..n |-> more[k]]
  BY <1>5
<1>8. Sent(more)
  BY <1>4 DEF Send
<1> HIDE DEF more
<1>9. IsSeq(more) /\ Len(more) = n
  BY <1>5, <1>7, ListOf
<1>10. IsSeq(calls') /\ Len(calls') = n /\ \A k \in 1..n : calls'[k] = more[k]
  BY <1>8, <1>9, SentIs
<1>11. CallsOf(calls', served)
  BY <1>6, <1>10 DEF CallsOf
<1>12. BatchInv' /\ ModalInv'
  BY <1>1 DEF BatchInv, ModalInv, Closed
<1> QED
  BY <1>1, <1>11, <1>12, ChoiceStays DEF ChoiceInv, Renders

LEMMA NameChooses ==
  ASSUME Careful, PanelInv, ChoiceInv, NEW name, TypeName(name)
  PROVE  ChoiceInv'
<1>1. Stays /\ UNCHANGED served /\ UNCHANGED <<chosen, rows, ui, modal>> /\ modal.kind = "none" /\ renaming \in Ids(rows)
  BY DEF TypeName, Typing, Still, Stays
<1>2. ModalInv'
  BY <1>1 DEF ModalInv
<1>3. CASE UNCHANGED <<calls, batch>>
  BY <1>1, <1>2, <1>3, AsksNone, ChoiceStays DEF ChoiceInv, Renders
<1>4. CASE Send(<<RenameCall(renaming, name)>>) /\ batch' = None
  <2> DEFINE c == RenameCall(renaming, name)
  <2>1. Sent(<<c>>) /\ c.op = "rename" /\ c.coll = renaming[1]
    BY <1>4 DEF Send, RenameCall
  <2> HIDE DEF c
  <2>2. c.coll \in served
    BY <1>1, <2>1, RowsThere DEF Sent
  <2>3. CallsOf(calls', served)
    BY <1>1, <2>1, <2>2, CallSent
  <2>4. BatchInv'
    BY <1>4 DEF BatchInv
  <2> QED
    BY <1>1, <1>2, <2>3, <2>4, ChoiceStays DEF ChoiceInv, Renders
<1> QED
  BY <1>3, <1>4 DEF TypeName

LEMMA CollectionChooses ==
  ASSUME Careful, PanelInv, ChoiceInv, NEW to, CreateCollection(to) \/ RenameCollection(to)
  PROVE  ChoiceInv'
<1>1. Stays /\ UNCHANGED served /\ UNCHANGED <<chosen, rows, ui, modal, batch>> /\ modal.kind = "none"
  BY DEF CreateCollection, RenameCollection, Idle, Still, Stays
<1>2. ModalInv'
  BY <1>1 DEF ModalInv
<1>3. PICK c : Sent(<<c>>) /\ (c.op = "newcoll" \/ (c.op = "recol" /\ c.coll = active))
  BY DEF CreateCollection, RenameCollection, CollectionCall, CallsAnew
<1>4. active \in served
  BY <1>3, ActiveServed DEF Sent
<1>5. CallsOf(calls', served) /\ \A op : Pending(op)' <=> c.op = op
  BY <1>1, <1>3, <1>4, CallSent
<1>6. BatchInv'
  BY <1>3, <1>5 DEF BatchInv
<1> QED
  BY <1>1, <1>2, <1>5, <1>6, ChoiceStays DEF ChoiceInv, Renders

LEMMA DropChooses ==
  ASSUME Careful, PanelInv, ChoiceInv, Drop
  PROVE  ChoiceInv'
<1>1. Stays /\ UNCHANGED served /\ UNCHANGED modal
  BY DEF Drop, Still, Stays
<1>2. CASE UNCHANGED <<calls, chosen, rows, ui, batch>>
  <2>1. CallsOf(calls', served) /\ BatchInv' /\ ModalInv'
    BY <1>1, <1>2, AsksNone, DialogStays
  <2> QED
    BY <1>1, <1>2, <2>1, ChoiceStays DEF ChoiceInv, Renders
<1> DEFINE to == DestinationFor(drag.drop.res)
<1>3. CASE \E more, b : /\ to # None /\ b.coll = IntoColl(to) /\ batch' = b /\ Send(<<MoveCall(b)>>) /\ chosen' = chosen
                        /\ Rendered([ui EXCEPT !.expanded = @ \cup more], seen)
  <2>1. PICK more, b : /\ to # None /\ b.coll = IntoColl(to) /\ batch' = b /\ Send(<<MoveCall(b)>>) /\ chosen' = chosen
                       /\ Rendered([ui EXCEPT !.expanded = @ \cup more], seen)
    BY <1>3
  <2>2. to.parent \in Ids(rows) \cup {None}
    BY <2>1 DEF DestinationFor
  <2> DEFINE c == MoveCall(b)
  <2>3. Sent(<<c>>) /\ c.op = "move" /\ c.coll = b.coll
    BY <2>1 DEF Send, MoveCall
  <2> HIDE DEF c, to
  <2>4. b.coll \in served
    BY <2>1, <2>2, <2>3, RowsThere, ListIs DEF IntoColl, Sent
  <2>5. CallsOf(calls', served) /\ \A op : Pending(op)' <=> c.op = op
    BY <1>1, <2>3, <2>4, CallSent
  <2>6. BatchInv' /\ ModalInv'
    BY <1>1, <2>1, <2>3, <2>4, <2>5 DEF BatchInv, ModalInv, ChoiceInv
  <2>7. IsUi([ui EXCEPT !.expanded = @ \cup more])
    BY UiSet DEF ChoiceInv
  <2> QED
    BY <1>1, <2>1, <2>5, <2>6, <2>7, ChoiceStays DEF ChoiceInv, Renders
<1> QED
  BY <1>2, <1>3 DEF Drop

LEMMA UserChooses ==
  ASSUME Careful, PanelInv, ChoiceInv, User
  PROVE  ChoiceInv'
BY KeysChoose, ClicksChoose, MenuChooses, ButtonChooses, ItemsChoose, ViewChooses, SubmitChooses, DeleteChooses,
   NameChooses, CollectionChooses, DropChooses DEF User

\* What takes an item out of a list, or puts one in, leaves a list of items.
LEMMA ListsItems ==
  ASSUME NEW s \in Seq(Items), NEW i
  PROVE  /\ RemoveFirst(s, i) \in Seq(Items)
         /\ i \in Items => Append(s, i) \in Seq(Items) /\ \A n \in 1..Len(s) : InsertAt(s, n, i) \in Seq(Items)
<1> DEFINE At == {k \in 1..Len(s) : s[k] = i}
<1>1. SelectInSeq(s, LAMBDA v : v = i) = IF At # {} THEN Min(At) ELSE 0
  BY DEF SelectInSeq
<1>2. At # {} => Min(At) \in At
  <2>1. At \in SUBSET Nat
    OBVIOUS
  <2> HIDE DEF At
  <2> QED
    BY <2>1, Least
<1>3. \A m, n \in Nat : m > 0 /\ n <= Len(s) => SubSeq(s, m, n) \in Seq(Items)
  OBVIOUS
<1>4. \A n \in 1..Len(s) : RemoveAt(s, n) \in Seq(Items)
  <2> SUFFICES ASSUME NEW n \in 1..Len(s) PROVE RemoveAt(s, n) \in Seq(Items)
    OBVIOUS
  <2>1. SubSeq(s, 1, n - 1) \in Seq(Items) /\ SubSeq(s, n + 1, Len(s)) \in Seq(Items)
    BY <1>3
  <2> QED
    BY <2>1 DEF RemoveAt
<1>5. RemoveFirst(s, i) \in Seq(Items)
  BY <1>1, <1>2, <1>4 DEF RemoveFirst
<1>6. ASSUME i \in Items, NEW n \in 1..Len(s) PROVE InsertAt(s, n, i) \in Seq(Items)
  <2>1. SubSeq(s, 1, n - 1) \in Seq(Items) /\ SubSeq(s, n, Len(s)) \in Seq(Items) /\ <<i>> \in Seq(Items)
    BY <1>3, <1>6
  <2> QED
    BY <2>1 DEF InsertAt
<1> QED
  BY <1>5, <1>6

ItemsOf(f) == \A x \in DOMAIN f : f[x] \in Seq(Items)

LEMMA ItemsPut ==
  ASSUME NEW f, ItemsOf(f), NEW x, NEW v, x \in DOMAIN f => v \in Seq(Items)
  PROVE  ItemsOf([f EXCEPT ![x] = v]) /\ DOMAIN [f EXCEPT ![x] = v] = DOMAIN f
BY DEF ItemsOf

LEMMA WithoutIs ==
  ASSUME NEW t, NEW there, TreeOf(t, there), NEW i
  PROVE  TreeOf(Without(t, i), there)
<1> DEFINE p == Parent(t, i)
           f == [t.kids EXCEPT ![p] = RemoveFirst(t.kids[p], i)]
<1>1. Without(t, i) = [kids |-> f, name |-> t.name]
  BY DEF Without, TreeOf
<1>2. ItemsOf(t.kids)
  BY DEF TreeOf, ItemsOf
<1>3. p \in DOMAIN t.kids => RemoveFirst(t.kids[p], i) \in Seq(Items)
  BY ListsItems DEF TreeOf
<1>4. ItemsOf(f) /\ DOMAIN f = DOMAIN t.kids
  BY <1>2, <1>3, ItemsPut
<1> HIDE DEF f
<1> QED
  BY <1>1, <1>4 DEF TreeOf, ItemsOf

LEMMA EffectIs ==
  ASSUME NEW c, Accepts(c), TreeOf(tree, served), served \subseteq Home,
         c.op \in {"newcoll", "recol", "delete", "rename", "create", "move"},
         c.op \in {"newcoll", "recol"} => c.to \in Home, c.op = "create" => c.of \in Items
  PROVE  TreeOf(Effect(c), CASE c.op = "newcoll" -> served \cup {c.to}
                             [] c.op = "recol" -> (served \ {c.coll}) \cup {c.to}
                             [] OTHER -> served)
<1> DEFINE i == CHOOSE x \in Who(c) : TRUE
           cut == Without(tree, i)
<1>1. tree = [kids |-> tree.kids, name |-> tree.name] /\ ItemsOf(tree.kids) /\ served \cup Folders \subseteq DOMAIN tree.kids
  BY DEF TreeOf, ItemsOf
<1>2. Home \cap Items = {} /\ Folders \subseteq Items
  BY ItemsAssumption DEF Home
<1>3. c.op \in {"delete", "rename", "move"} => i \in Items
  <2> SUFFICES ASSUME c.op \in {"delete", "rename", "move"} PROVE i \in Items
    OBVIOUS
  <2>1. Who(c) = Child(tree, c.coll, c.path) /\ Who(c) # {}
    BY DEF Who, Accepts
  <2>2. i \in Child(tree, c.coll, c.path)
    BY <2>1
  <2>3. PICK x \in DOMAIN tree.kids : i \in ToSet(tree.kids[x])
    BY <2>2 DEF Child
  <2>4. tree.kids[x] \in Seq(Items)
    BY <1>1 DEF ItemsOf
  <2> HIDE DEF i
  <2> QED
    BY <2>3, <2>4 DEF ToSet
<1>4. cut = [kids |-> cut.kids, name |-> cut.name] /\ ItemsOf(cut.kids) /\ served \cup Folders \subseteq DOMAIN cut.kids
  <2>1. TreeOf(cut, served)
    BY WithoutIs
  <2> QED
    BY <2>1 DEF TreeOf, ItemsOf
<1>5. CASE c.op = "newcoll"
  <2> DEFINE f == [x \in {c.to} \cup DOMAIN tree.kids |-> IF x = c.to THEN << >> ELSE tree.kids[x]]
  <2>1. Effect(c) = [kids |-> f, name |-> tree.name]
    BY <1>1, <1>5 DEF Effect
  <2>2. ItemsOf(f) /\ DOMAIN f = {c.to} \cup DOMAIN tree.kids
    BY <1>1 DEF ItemsOf
  <2> HIDE DEF f
  <2> QED
    BY <1>1, <1>5, <2>1, <2>2 DEF TreeOf, ItemsOf
<1>6. CASE c.op = "recol"
  <2> DEFINE f == [x \in {c.to} \cup (DOMAIN tree.kids \ {c.coll}) |-> tree.kids[IF x = c.to THEN c.coll ELSE x]]
  <2>1. Effect(c) = [kids |-> f, name |-> tree.name]
    BY <1>1, <1>6 DEF Effect
  <2>2. c.coll \in served
    BY <1>6 DEF Accepts
  <2>3. ItemsOf(f) /\ DOMAIN f = {c.to} \cup (DOMAIN tree.kids \ {c.coll})
    BY <1>1, <2>2 DEF ItemsOf
  <2>4. c.coll \notin Folders
    BY <1>2, <2>2
  <2> HIDE DEF f
  <2> QED
    BY <1>1, <1>6, <2>1, <2>3, <2>4 DEF TreeOf, ItemsOf
<1>7. CASE c.op = "delete"
  <2> DEFINE f == [x \in DOMAIN cut.kids |-> IF x \in Below(tree, i) THEN << >> ELSE cut.kids[x]]
  <2>1. Effect(c) = [cut EXCEPT !.kids = f]
    BY <1>7 DEF Effect
  <2>2. ItemsOf(f) /\ DOMAIN f = DOMAIN cut.kids
    BY <1>4 DEF ItemsOf
  <2> HIDE DEF f, cut
  <2>3. Effect(c) = [kids |-> f, name |-> cut.name]
    BY <1>4, <2>1
  <2> QED
    BY <1>4, <1>7, <2>2, <2>3 DEF TreeOf, ItemsOf
<1>8. CASE c.op = "rename"
  <2>1. Effect(c) = [tree EXCEPT !.name[i] = c.to]
    BY <1>8 DEF Effect
  <2>2. Effect(c) = [kids |-> tree.kids, name |-> [tree.name EXCEPT ![i] = c.to]]
    BY <1>1, <2>1
  <2> QED
    BY <1>1, <1>8, <2>2 DEF TreeOf, ItemsOf
<1>9. CASE c.op = "create"
  <2> DEFINE f == [tree.kids EXCEPT ![i] = Append(tree.kids[i], c.of)]
  <2>1. Effect(c) = [kids |-> f, name |-> [tree.name EXCEPT ![c.of] = c.to]]
    BY <1>1, <1>9 DEF Effect
  <2>2. i \in DOMAIN tree.kids => Append(tree.kids[i], c.of) \in Seq(Items)
    BY <1>1, <1>9 DEF ItemsOf
  <2>3. ItemsOf(f) /\ DOMAIN f = DOMAIN tree.kids
    BY <1>1, <2>2, ItemsPut
  <2> HIDE DEF f
  <2> QED
    BY <1>1, <1>9, <2>1, <2>3 DEF TreeOf, ItemsOf
<1>10. CASE c.op = "move"
  <2> DEFINE y == CHOOSE z \in Target(c) : TRUE
             f == [cut.kids EXCEPT ![y] = Inserted(cut, y, i, c.before)]
  <2>1. Effect(c) = [cut EXCEPT !.kids[y] = Inserted(cut, y, i, c.before)]
    BY <1>10 DEF Effect
  <2> HIDE DEF cut, i, y
  <2>2. Effect(c) = [kids |-> f, name |-> cut.name]
    BY <1>4, <2>1
  <2>3. y \in DOMAIN cut.kids => Inserted(cut, y, i, c.before) \in Seq(Items)
    <3> SUFFICES ASSUME y \in DOMAIN cut.kids PROVE Inserted(cut, y, i, c.before) \in Seq(Items)
      OBVIOUS
    <3> DEFINE kids == cut.kids[y]
               At == {k \in 1..Len(kids) : cut.name[kids[k]] = c.before}
               at == SelectInSeq(kids, LAMBDA j : cut.name[j] = c.before)
    <3>1. kids \in Seq(Items) /\ i \in Items
      BY <1>3, <1>4, <1>10 DEF ItemsOf
    <3>2. at = IF At # {} THEN Min(At) ELSE 0
      BY DEF SelectInSeq
    <3>3. At # {} => Min(At) \in At
      <4>1. At \in SUBSET Nat
        OBVIOUS
      <4> HIDE DEF At
      <4> QED
        BY <4>1, Least
    <3>4. at = 0 \/ at \in 1..Len(kids)
      BY <3>2, <3>3
    <3>5. Inserted(cut, y, i, c.before) = IF at = 0 THEN Append(kids, i) ELSE InsertAt(kids, at, i)
      BY DEF Inserted
    <3> HIDE DEF kids, at
    <3> QED
      BY <3>1, <3>4, <3>5, ListsItems
  <2>4. ItemsOf(f) /\ DOMAIN f = DOMAIN cut.kids
    BY <1>4, <2>3, ItemsPut
  <2> HIDE DEF f
  <2> QED
    BY <1>4, <1>10, <2>2, <2>4 DEF TreeOf, ItemsOf
<1> QED
  BY <1>5, <1>6, <1>7, <1>8, <1>9, <1>10

LEMMA LeftAlone ==
  ASSUME NEW s, IsSeq(s)
  PROVE  s \o << >> = s
<1> DEFINE none == << >>
<1>1. IsSeq(none) /\ Len(none) = 0
  BY NoneOfIt
<1> HIDE DEF none
<1>2. /\ IsSeq(s \o none) /\ Len(s \o none) = Len(s) + Len(none)
      /\ \A n \in 1..Len(s) : (s \o none)[n] = s[n]
  BY <1>1, Joined
<1>3. Len(s) \in Nat
  BY DEF IsSeq
<1>4. Len(s \o none) = Len(s)
  BY <1>1, <1>2, <1>3
<1>5. [k \in 1..Len(s \o none) |-> (s \o none)[k]] = [k \in 1..Len(s) |-> s[k]]
  BY <1>2, <1>4
<1> QED
  BY <1>2, <1>5 DEF IsSeq, none

\* What is left of the calls after the first, with a move or without.
LEMMA CallsLeft ==
  ASSUME NEW cs, NEW there, CallsOf(cs, there), cs # << >>
  PROVE  /\ Head(cs) = cs[1] /\ 1 \in 1..Len(cs) /\ 1 \in DOMAIN cs
         /\ CallsOf(Tail(cs), there) /\ (cs[1].op \in {"newcoll", "recol", "move"} => Len(Tail(cs)) = 0)
         /\ cs[1].op \in {"newcoll", "recol"} => \A new : CallsOf(Tail(cs), new)
         /\ \A c : /\ cs[1].op = "move" /\ c.op = "move" /\ c.coll \in there
                   => CallsOf(Tail(cs) \o <<c>>, there)
         /\ CallsOf(Tail(cs) \o << >>, there)
         /\ cs[1].op \in {"newcoll", "recol"} => \A new : CallsOf(Tail(cs) \o << >>, new)
         /\ \A n \in 1..Len(Tail(cs)) : n + 1 \in DOMAIN cs /\ Tail(cs)[n] = cs[n + 1]
<1> DEFINE rest == Tail(cs)
<1>1. IsSeq(cs)
  BY DEF CallsOf
<1>2. IsSeq(rest) /\ Len(rest) = Len(cs) - 1 /\ Len(cs) > 0 /\ Len(cs) \in Nat
      /\ (\A n \in 1..Len(cs) - 1 : rest[n] = cs[n + 1]) /\ Head(cs) = cs[1]
  BY <1>1, Tailed DEF IsSeq
<1>3. DOMAIN cs = 1..Len(cs)
  BY <1>1, SeqIs DEF IsSeq
<1>4. \A n \in 1..Len(rest) : n + 1 \in 1..Len(cs) /\ rest[n] = cs[n + 1]
  BY <1>2
<1> HIDE DEF rest
<1>5. CallsOf(rest, there)
  <2> SUFFICES ASSUME NEW n \in 1..Len(rest)
               PROVE  /\ rest[n].op \in {"newcoll", "recol", "delete", "rename", "create", "move"}
                      /\ rest[n].op # "newcoll" => rest[n].coll \in there
                      /\ rest[n].op = "create" => rest[n].of \in Items
                      /\ rest[n].op \in {"newcoll", "recol", "move"} => Len(rest) = 1
    BY <1>2 DEF CallsOf
  <2>1. rest[n] = cs[n + 1] /\ n + 1 \in 1..Len(cs)
    BY <1>4
  <2>2. Len(cs) # 1
    BY <1>2
  <2> QED
    BY <2>1, <2>2 DEF CallsOf
<1>6. cs[1].op \in {"newcoll", "recol", "move"} => Len(rest) = 0
  <2>1. 1 \in 1..Len(cs)
    BY <1>2
  <2> QED
    BY <1>2, <2>1 DEF CallsOf
<1>7. cs[1].op \in {"newcoll", "recol"} => \A new : CallsOf(rest, new)
  <2>1. Len(rest) = 0 => 1..Len(rest) = {}
    OBVIOUS
  <2> QED
    BY <1>2, <1>6, <2>1 DEF CallsOf
<1>8. ASSUME NEW c, cs[1].op = "move", c.op = "move", c.coll \in there PROVE CallsOf(rest \o <<c>>, there)
  <2> DEFINE one == <<c>>
  <2>1. IsSeq(one) /\ Len(one) = 1 /\ one[1] = c
    BY Single
  <2> HIDE DEF one
  <2>2. /\ IsSeq(rest \o one) /\ Len(rest \o one) = Len(rest) + Len(one)
        /\ \A n \in 1..Len(one) : (rest \o one)[Len(rest) + n] = one[n]
    <3>1. IsSeq(rest) /\ IsSeq(one)
      BY <1>2, <2>1
    <3> QED
      BY <3>1, Joined
  <2>3. Len(rest \o one) = 1 /\ (rest \o one)[1] = c
    <3>1. Len(rest) = 0 /\ 1 \in 1..Len(one) /\ 0 + 1 = 1
      BY <1>6, <1>8, <2>1
    <3> QED
      BY <2>1, <2>2, <3>1
  <2>4. \A k \in 1..Len(rest \o one) : k = 1
    BY <2>3
  <2> QED
    BY <1>8, <2>2, <2>3, <2>4 DEF CallsOf, one
<1>9. rest \o << >> = rest
  BY <1>2, LeftAlone
<1>10. 1 \in 1..Len(cs)
  BY <1>2
<1> QED
  BY <1>2, <1>3, <1>4, <1>5, <1>6, <1>7, <1>8, <1>9, <1>10 DEF rest

LEMMA AnswerChooses ==
  ASSUME PanelInv, ChoiceInv, Answer, PanelInv'
  PROVE  ChoiceInv'
<1> DEFINE c == Head(calls)
<1>1. calls # << >> /\ CallsOf(calls, served) /\ IF Accepts(c) THEN Taken(c) ELSE Refused(c)
  BY DEF Answer, ChoiceInv
<1>2. c = calls[1] /\ 1 \in 1..Len(calls) /\ 1 \in DOMAIN calls
  BY <1>1, CallsLeft
<1>3. /\ c.op \in {"newcoll", "recol", "delete", "rename", "create", "move"}
      /\ c.op # "newcoll" => c.coll \in served
      /\ c.op = "create" => c.of \in Items
      /\ c.op \in {"newcoll", "recol"} => c.to \in Home
  BY <1>1, <1>2 DEF CallsOf, PanelInv
<1>4. Pending(c.op)
  BY <1>2 DEF Pending
<1>5. \A n \in 1..Len(Tail(calls)) : n + 1 \in DOMAIN calls /\ Tail(calls)[n] = calls[n + 1]
  BY <1>1, CallsLeft
<1> HIDE DEF c
<1>6. CASE Refused(c)
  <2>1. /\ calls' = Tail(calls) /\ UNCHANGED <<served, tree, cols, landed, missing, chosen, rows, ui, modal>>
        /\ batch' \in {batch, None}
    BY <1>6 DEF Refused, Still
  <2>2. CallsOf(calls', served)
    BY <1>1, <2>1, CallsLeft
  <2>3. \A op : Pending(op)' => Pending(op)
    <3>1. DOMAIN calls' = 1..Len(Tail(calls))
      BY <2>1, <2>2, SeqIs DEF CallsOf, IsSeq
    <3> QED
      BY <1>5, <2>1, <3>1 DEF Pending
  <2>4. BatchInv' /\ ModalInv'
    BY <2>1, <2>3 DEF BatchInv, ModalInv, ChoiceInv
  <2> QED
    BY <2>1, <2>2, <2>4, ChoiceStays DEF Stays, Renders, ChoiceInv
<1>7. CASE Accepts(c) /\ Taken(c)
  <2> DEFINE there == CASE c.op = "newcoll" -> served \cup {c.to}
                        [] c.op = "recol" -> (served \ {c.coll}) \cup {c.to}
                        [] OTHER -> served
  <2>1. /\ served' = there /\ tree' = Effect(c) /\ cols' = cols
        /\ landed' = (IF c.op = "recol" THEN landed \ {c.coll} ELSE landed) \cup {Held(c)}
        /\ missing' = missing \ {Held(c)}
        /\ chosen' = Activated(c) /\ Rendered(After(c), seen)
        /\ modal' \in {modal, Closed}
    BY <1>7 DEF Taken, DialogKept
  <2>2. TreeOf(tree', served')
    <3>1. TreeOf(tree, served) /\ served \subseteq Home
      BY DEF ChoiceInv, PanelInv
    <3>2. TreeOf(Effect(c), there)
      BY <1>3, <1>7, <3>1, EffectIs
    <3> QED
      BY <2>1, <3>2
  <2>3. Held(c) \in served' /\ (c.op # "recol" => served \subseteq served') /\ served \ {c.coll} \subseteq served'
        /\ served' \subseteq served \cup {Held(c)}
        /\ (c.op \in {"newcoll", "recol"} => Held(c) = c.to)
    BY <1>3, <2>1 DEF Held
  <2>4. landed' \subseteq served' /\ missing' \cap served' = {} /\ chosen' \in served'
    BY <2>1, <2>3 DEF ChoiceInv, Activated
  <2>5. IsUi(After(c))
    <3>1. ASSUME NEW from, NEW new PROVE IsUi(Rekeyed(from, new))
      <4> DEFINE q == Rekeyed(from, new)
      <4>1. q = Rekeyed(from, new)
        OBVIOUS
      <4> HIDE DEF q
      <4>2. IsUi(q)
        BY <4>1 DEF Rekeyed, ChoiceInv, IsUi
      <4> QED
        BY <4>2 DEF q
    <3> QED
      BY <3>1 DEF After, ChoiceInv
  <2>6. RowsOf(rows', cols') /\ IsUi(ui') /\ ui'.hit = FALSE
    <3>1. IsListing(cols') /\ Branching(tree', landed')
      BY <2>1, <2>2, <2>4, ListIs, TreeBranches
    <3> QED
      BY <2>1, <2>5, <3>1, RowsMade
  <2>7. /\ batch' = None \/ batch' = batch \/ (batch # None /\ batch' = [batch EXCEPT !.left = Tail(@)])
        /\ \/ calls' = Tail(calls) \o << >>
           \/ /\ Continues(c) /\ batch # None
              /\ calls' = Tail(calls) \o <<MoveCall([batch EXCEPT !.left = Tail(@)])>>
    BY <1>7 DEF Taken, Continues
  <2> DEFINE rest == [batch EXCEPT !.left = Tail(@)]
  <2>8. \A b : MoveCall(b).op = "move" /\ MoveCall(b).coll = b.coll
    BY DEF MoveCall
  <2>9. c.op = "move" /\ batch # None => batch.coll \in served
    BY <1>4 DEF ChoiceInv, BatchInv
  <2>10. rest.coll = batch.coll
    OBVIOUS
  <2> HIDE DEF rest
  <2>11. CallsOf(calls', served') /\ \A op : Pending(op)' => Pending(op)
    <3>1. CASE calls' = Tail(calls) \o << >>
      <4>1. CallsOf(Tail(calls) \o << >>, served')
        <5>1. CASE c.op \in {"newcoll", "recol"}
          BY <1>1, <1>2, <5>1, CallsLeft
        <5>2. CASE c.op \notin {"newcoll", "recol"}
          BY <1>1, <2>1, <5>2, CallsLeft
        <5> QED
          BY <5>1, <5>2
      <4>2. CallsOf(calls', served')
        BY <3>1, <4>1
      <4>3. calls' = Tail(calls)
        <5>1. IsSeq(Tail(calls))
          BY <1>1, CallsLeft DEF CallsOf
        <5> QED
          BY <3>1, <5>1, LeftAlone
      <4>4. DOMAIN calls' = 1..Len(Tail(calls))
        BY <4>2, <4>3, SeqIs DEF CallsOf, IsSeq
      <4> QED
        BY <1>5, <4>2, <4>3, <4>4 DEF Pending
    <3>2. CASE Continues(c) /\ batch # None /\ calls' = Tail(calls) \o <<MoveCall(rest)>>
      <4>1. c.op = "move" /\ served' = served
        BY <3>2, <2>1 DEF Continues
      <4>2. CallsOf(calls', served)
        BY <1>1, <1>2, <2>8, <2>9, <2>10, <3>2, <4>1, CallsLeft
      <4>3. \A op : Pending(op)' => op = "move"
        <5> DEFINE next == MoveCall(rest)
        <5>1. IsSeq(Tail(calls)) /\ Len(Tail(calls)) = 0
          BY <1>1, <1>2, <4>1, CallsLeft DEF CallsOf
        <5>2. next.op = "move"
          BY <2>8
        <5> HIDE DEF next
        <5>3. IsSeq(<<next>>) /\ Len(<<next>>) = 1 /\ <<next>>[1] = next
          BY Single
        <5>4. IsSeq(calls') /\ Len(calls') = 1 /\ calls'[1] = next
          <6> DEFINE left == Tail(calls)
                     more == <<next>>
          <6>1. calls' = left \o more
            BY <3>2 DEF next
          <6>2. IsSeq(left) /\ Len(left) = 0 /\ IsSeq(more) /\ Len(more) = 1 /\ more[1] = next
            BY <5>1, <5>3
          <6>8. IsSeq(left) /\ IsSeq(more)
            BY <6>2
          <6> HIDE DEF left, more
          <6>3. /\ IsSeq(left \o more) /\ Len(left \o more) = Len(left) + Len(more)
                /\ \A n \in 1..Len(more) : (left \o more)[Len(left) + n] = more[n]
            BY <6>8, Joined
          <6>4. 1 \in 1..Len(more) /\ Len(left) + 1 = 1 /\ Len(left) + Len(more) = 1
            BY <6>2
          <6>5. (left \o more)[Len(left) + 1] = more[1]
            BY <6>3, <6>4
          <6>6. (left \o more)[1] = next
            BY <6>2, <6>4, <6>5
          <6>7. Len(left \o more) = 1
            BY <6>3, <6>4
          <6> QED
            BY <6>1, <6>3, <6>6, <6>7
        <5>5. DOMAIN calls' = 1..1
          BY <5>4, SeqIs DEF IsSeq
        <5>6. \A k \in DOMAIN calls' : calls'[k] = next
          BY <5>4, <5>5
        <5> QED
          BY <5>2, <5>6 DEF Pending
      <4> QED
        BY <1>4, <4>1, <4>2, <4>3
    <3> QED
      BY <2>7, <3>1, <3>2 DEF rest
  <2>12. BatchInv'
    <3> SUFFICES ASSUME batch' # None, Pending("move")' PROVE batch'.coll \in served'
      BY DEF BatchInv
    <3>1. Pending("move")
      BY <2>11
    <3>2. batch # None /\ batch'.coll = batch.coll
      BY <2>7, <2>10 DEF rest
    <3>3. batch.coll \in served
      BY <3>1, <3>2 DEF ChoiceInv, BatchInv
    <3>4. c.op \notin {"newcoll", "recol"}
      <4>1. PICK k \in DOMAIN calls : calls[k].op = "move"
        BY <3>1 DEF Pending
      <4>2. DOMAIN calls = 1..Len(calls)
        BY <1>1, SeqIs DEF CallsOf, IsSeq
      <4>3. Len(calls) = 1
        BY <1>1, <4>1, <4>2 DEF CallsOf
      <4>4. k = 1
        BY <4>1, <4>2, <4>3
      <4> QED
        BY <1>2, <4>1, <4>4
    <3> QED
      BY <2>1, <3>2, <3>3, <3>4
  <2>13. ModalInv'
    <3> SUFFICES ASSUME modal'.kind # "none"
                 PROVE  ~ Pending("newcoll")' /\ ~ Pending("recol")' /\ \A s \in modal'.items : s.key[1] \in served'
      BY DEF ModalInv
    <3>1. modal' = modal
      BY <2>1 DEF Closed
    <3>2. ~ Pending("newcoll") /\ ~ Pending("recol") /\ \A s \in modal.items : s.key[1] \in served
      BY <3>1 DEF ChoiceInv, ModalInv
    <3>3. c.op \notin {"newcoll", "recol"}
      BY <1>4, <3>2
    <3>4. served' = served
      BY <2>1, <3>3
    <3> QED
      BY <2>11, <3>1, <3>2, <3>4
  <2> QED
    BY <2>2, <2>4, <2>6, <2>11, <2>12, <2>13 DEF ChoiceInv
<1> QED
  BY <1>1, <1>6, <1>7

LEMMA ArrivalChooses ==
  ASSUME PanelInv, ChoiceInv, PanelInv', Listed \/ \E c \in ToSet(cols) : Landed(c)
  PROVE  ChoiceInv'
<1>1. UNCHANGED <<served, tree, chosen, calls>> /\ batch' \in {batch, None} /\ modal' \in {modal, Closed}
      /\ Rendered(ui, seen)
  BY DEF Listed, Landed, Arrives, DialogKept
<1>2. landed' \subseteq served /\ missing' \cap served = {}
  BY DEF Listed, Landed, ChoiceInv
<1>3. UNCHANGED served
  BY <1>1
<1>4. CallsOf(calls', served) /\ BatchInv' /\ ModalInv'
  BY <1>1, <1>3, AsksNone, DialogStays
<1>5. IsListing(cols')
  BY DEF PanelInv, IsListing
<1>6. TreeOf(tree', served') /\ Branching(tree', landed')
  BY <1>1, <1>2, TreeBranches DEF ChoiceInv
<1>7. RowsOf(rows', cols') /\ IsUi(ui') /\ ui'.hit = FALSE
  BY <1>1, <1>5, <1>6, RowsMade DEF ChoiceInv
<1> QED
  BY <1>1, <1>2, <1>4, <1>6, <1>7 DEF ChoiceInv

LEMMA PanelChooses ==
  ASSUME Careful, PanelInv, ChoiceInv, Next
  PROVE  ChoiceInv'
<1>1. PanelInv'
  BY PanelKeeps
<1> QED
  BY <1>1, ArrivalChooses, AnswerChooses, UserChooses DEF Next

LEMMA ChoiceStarts ==
  ASSUME Init
  PROVE  ChoiceInv
<1>1. PICK start \in Starts : InitWith(start)
  BY DEF Init
<1>2. PanelInv
  BY PanelStarts
<1>3. /\ served = ToSet(start.cols) /\ cols = start.cols /\ tree = start.tree /\ landed = {} /\ missing = {}
      /\ chosen = start.cols[1] /\ calls = << >> /\ batch = None /\ modal = Closed
      /\ ui = [expanded |-> IF Mounted THEN {<<active>>} ELSE {}, selection |-> {},
               focused |-> None, anchor |-> None, hit |-> FALSE]
      /\ rows = IF Mounted THEN Flatten(Host(cols, tree, {}, None, active, ui.expanded), ui.expanded) ELSE << >>
  BY <1>1 DEF InitWith
<1>4. start.tree \in [kids : [ToSet(start.cols) \cup Folders -> Seq(Items)], name : [Items -> Names]]
  BY PanelAssumption
<1>5. TreeOf(tree, served)
  BY <1>3, <1>4 DEF TreeOf
<1>6. chosen \in served
  <2>1. IsSeq(cols) /\ Len(cols) > 0
    BY <1>2 DEF PanelInv
  <2>2. DOMAIN cols = 1..Len(cols) /\ 1 \in 1..Len(cols)
    BY <2>1, SeqIs DEF IsSeq
  <2> QED
    BY <1>3, <2>2 DEF ToSet
<1>7. RowsOf(rows, cols)
  <2>1. CASE Mounted
    <3>1. IsListing(cols) /\ Branching(tree, {})
      BY <1>2, <1>5, ListIs, TreeBranches
    <3>2. RowsBelow(Flatten(Host(cols, tree, {}, None, active, ui.expanded), ui.expanded), None,
                    Host(cols, tree, {}, None, active, ui.expanded), ui.expanded, IdsUnder(cols))
      BY <3>1, PanelRows
    <3> QED
      BY <1>3, <2>1, <3>2, RowsFrom
  <2>2. CASE ~ Mounted
    BY <1>3, <2>2, NoRows
  <2> QED
    BY <2>1, <2>2
<1>8. IsUi(ui) /\ ui.hit = FALSE
  BY <1>3 DEF IsUi
<1>9. CallsOf(calls, served)
  <2>1. IsSeq(calls) /\ Len(calls) = 0
    BY <1>3, NoneOfIt
  <2> QED
    BY <2>1 DEF CallsOf
<1>10. BatchInv /\ ModalInv
  BY <1>3 DEF BatchInv, ModalInv, Closed
<1> QED
  BY <1>3, <1>5, <1>6, <1>7, <1>8, <1>9, <1>10 DEF ChoiceInv
=================================================================================
