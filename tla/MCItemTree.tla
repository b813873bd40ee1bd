----------------------------- MODULE MCItemTree ------------------------------
(* Small instances of ItemTree for TLC. *)
EXTENDS ItemTree, TLC

CONSTANTS n1, n2, n3, n4

\* Names 1 and 2 become the same slug.
TwoSlugs == [t \in Names |-> IF t = 3 THEN 2 ELSE 1]

\* A folder and a request, side by side, or the request in a folder that lost its mark.
StartTrees ==
  { [ place |-> [n \in Nodes |-> IF n = n1 THEN [parent |-> Root, slug |-> <<1, 1>>]
                                 ELSE IF n = n2 THEN [parent |-> holder, slug |-> <<2, 1>>]
                                 ELSE None],
      mark |-> [n \in Nodes |-> IF n = n1 /\ holder = Root THEN "folder"
                                ELSE IF n = n2 THEN "request" ELSE "none"],
      name |-> [n \in Nodes |-> IF n = n1 /\ holder = Root THEN 1 ELSE IF n = n2 THEN 3 ELSE None] ]
    : holder \in {Root, n1} }

\* In order, out of order, one missing, one twice, one that is not there.
SomeDrifts ==
  { << <<1, 1>>, <<2, 1>> >>, << <<2, 1>> >>, << <<2, 1>>, <<1, 2>>, <<1, 1>>, <<2, 1>> >> }

=============================================================================
