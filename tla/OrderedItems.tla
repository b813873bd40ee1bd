----------------------------- MODULE OrderedItems ----------------------------
(***************************************************************************)
(* What a collection promises of its folders and requests: a forest of     *)
(* items in an order the user chose.  Items come, go, move with all they   *)
(* hold and change their names one at a time, siblings have different      *)
(* names, and whatever happens to one item, a crash in the middle of it    *)
(* included, leaves the order of the others alone.                         *)
(***************************************************************************)
EXTENDS Naturals, Sequences, SequencesExt

CONSTANTS Items, Root

VARIABLES
  kids,   \* the items of each folder, in order
  title,  \* the name of each item that is there
  torn    \* a deletion was cut off: what it left may come back

Places == Items \cup {Root}

Present == DOMAIN title

\* Everything below and including an item: what each set has that has the item and,
\* with a folder, what the folder holds.
Within(n) ==
  {m \in Items : \A S \in SUBSET Items :
     n \in S /\ (\A d \in S : ToSet(kids[d]) \subseteq S) => m \in S}

Free(d, t, n) == \A m \in ToSet(kids[d]) \ {n} : title[m] # t

Init ==
  /\ kids \in [Places -> Seq(Items)]
  /\ title \in [UNION {ToSet(kids[d]) : d \in Places} -> Nat]
  /\ \A d \in Places : \A i, j \in DOMAIN kids[d] :
       i # j => kids[d][i] # kids[d][j] /\ title[kids[d][i]] # title[kids[d][j]]
  /\ Present = UNION {Within(n) : n \in ToSet(kids[Root])}
  /\ torn \in BOOLEAN

\* A new item is empty, unless it took over what a deletion left behind.
Insert(n, d) ==
  /\ n \in Items \ Present
  /\ d \in Present \cup {Root}
  /\ Present' = Present \cup Within(n)'
  /\ torn \/ kids'[n] = <<>>
  /\ n \in ToSet(kids'[d]) /\ RemoveFirst(kids'[d], n) = kids[d]
  /\ \A m \in Places \ ({d} \cup Within(n)') : kids'[m] = kids[m]
  /\ Free(d, title'[n], n)
  /\ \A m \in Present : title'[m] = title[m]
  /\ UNCHANGED torn

\* An item goes with all that is below it.
Vanish(n) ==
  /\ n \in Present
  /\ kids' = [d \in Places |-> IF d \in Within(n) THEN <<>> ELSE RemoveFirst(kids[d], n)]
  /\ title' = [m \in Present \ Within(n) |-> title[m]]
  /\ UNCHANGED torn

Move(n, d) ==
  /\ n \in Present
  /\ d \in (Present \cup {Root}) \ Within(n)
  /\ Free(d, title[n], n)
  /\ n \in ToSet(kids'[d]) /\ RemoveFirst(kids'[d], n) = RemoveFirst(kids[d], n)
  /\ \A m \in Places \ {d} : kids'[m] = RemoveFirst(kids[m], n)
  /\ UNCHANGED <<title, torn>>

\* An item that is in no list yet is shown by its name.
Rename(n) ==
  /\ n \in Present
  /\ \E d \in Present \cup {Root} :
       /\ n \in ToSet(kids[d]) /\ n \in ToSet(kids'[d])
       /\ RemoveFirst(kids'[d], n) = RemoveFirst(kids[d], n)
       /\ Free(d, title'[n], n)
       /\ \A m \in Places \ {d} : kids'[m] = kids[m]
  /\ Present' = Present
  /\ \A m \in Present \ {n} : title'[m] = title[m]
  /\ UNCHANGED torn

\* Nothing shows, not even of a deletion that is cut off.
Unseen == (torn => torn') /\ UNCHANGED <<kids, title>>

Next ==
  \/ Unseen
  \/ \E n \in Items : Vanish(n) \/ Rename(n)
  \/ \E n \in Items, d \in Places : Insert(n, d) \/ Move(n, d)

Spec == Init /\ [][Next]_<<kids, title, torn>>

=============================================================================
