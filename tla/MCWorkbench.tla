----------------------------- MODULE MCWorkbench -----------------------------
(* Small instances of Workbench for TLC. *)
EXTENDS Workbench, TLC

CONSTANTS r1, r2, r3

\* One request in the root, and one in the folder that was renamed and has, in
\* its directory, the slug the first one would get there.
TwoThere ==
  { [r \in Reqs |->
       IF r = r1 THEN [dir |-> Top, slug |-> <<1, 1>>, name |-> 1, body |-> 0]
       ELSE IF r = r2 THEN [dir |-> Folder, slug |-> <<1, 1>>, name |-> 2, body |-> 0]
       ELSE None] }

\* The same, or two side by side in the root.
TwoOrSideBySide == TwoThere \cup
  { [r \in Reqs |->
       IF r = r1 THEN [dir |-> Top, slug |-> <<1, 1>>, name |-> 1, body |-> 0]
       ELSE IF r = r2 THEN [dir |-> Top, slug |-> <<2, 1>>, name |-> 2, body |-> 0]
       ELSE None] }

=============================================================================
