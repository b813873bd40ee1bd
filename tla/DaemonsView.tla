----------------------------- MODULE DaemonsView -------------------------------
(***************************************************************************)
(* The view of the machine's daemons (ui/src/features/daemons): a listing  *)
(* that is fetched anew every few seconds, a button to stop each, and a    *)
(* dialog before the one that serves the page is stopped.                  *)
(***************************************************************************)
EXTENDS Naturals, FiniteSets

CONSTANTS
  Roots,    \* workspace roots
  Own,      \* the one whose server the page comes from
  None

VARIABLES
  daemons,  \* the roots with a registration, and whether a server answers for it
  listed,   \* what the view has been told of them
  stopping, \* calls under way: [root, heard]
  confirm,  \* the dialog for the page's own server is open
  view, count

vars == <<daemons, listed, stopping, confirm>>

Viewing == view = "daemons"
Connected == Own \in DOMAIN daemons /\ daemons[Own]
Without(root) == [r \in DOMAIN daemons \ {root} |-> daemons[r]]

Follows ==
  /\ UNCHANGED <<daemons, listed>>
  /\ confirm' = (confirm /\ Viewing')
  /\ stopping' = IF Viewing' THEN stopping ELSE {[c EXCEPT !.heard = FALSE] : c \in stopping}

\* A page without its server is told of none.
Fetch ==
  /\ Viewing
  /\ listed' = IF Connected THEN daemons ELSE << >>
  /\ UNCHANGED <<daemons, stopping, confirm, count>>

Busy == \E c \in stopping : c.heard

Call(root) ==
  /\ count.changes > 0
  /\ count' = [count EXCEPT !.changes = @ - 1]
  /\ stopping' = stopping \cup {[root |-> root, heard |-> TRUE, n |-> count.changes]}

\* Mutant: only the rows of others wait.
Disabled(root) == Busy /\ root # Own

\* The button of a row: a server that has answered, and no other one being stopped.
Waits(root) == Busy

Stop(root) ==
  /\ Viewing /\ ~ confirm /\ root \in DOMAIN listed /\ listed[root] /\ ~ Waits(root)
  /\ IF root = Own THEN confirm' = TRUE /\ UNCHANGED <<stopping, count>>
     ELSE Call(root) /\ UNCHANGED confirm
  /\ UNCHANGED <<daemons, listed>>

ConfirmStop ==
  /\ confirm /\ ~ Busy
  /\ Call(Own)
  /\ UNCHANGED <<daemons, listed, confirm>>

Cancel ==
  /\ confirm /\ confirm' = FALSE
  /\ UNCHANGED <<daemons, listed, stopping, count>>

\* The server ends and takes its registration along; whoever listens has the dialog
\* closed and the listing fetched (Fetch).
Stopped(c) ==
  /\ stopping' = stopping \ {c}
  /\ daemons' = Without(c.root)
  /\ confirm' = (confirm /\ ~ c.heard)
  /\ UNCHANGED <<listed, count>>

\* Or the call fails, as it does without a server to make it to.
Fails(c) ==
  /\ stopping' = stopping \ {c}
  /\ UNCHANGED <<daemons, listed, confirm, count>>

\* Servers end and start without us.
Elsewhere ==
  /\ Viewing /\ count.changes > 0 /\ count' = [count EXCEPT !.changes = @ - 1]
  /\ \E root \in Roots, up \in BOOLEAN : daemons' = [r \in DOMAIN daemons \cup {root} |-> IF r = root THEN up ELSE daemons[r]]
  /\ UNCHANGED <<listed, stopping, confirm>>

InitWith(start) == daemons = start /\ listed = << >> /\ stopping = {} /\ confirm = FALSE

User == ConfirmStop \/ Cancel \/ \E root \in Roots : Stop(root)

Server ==
  \/ Fetch \/ Elsewhere
  \/ \E c \in stopping : (Connected /\ Stopped(c)) \/ Fails(c)

-----------------------------------------------------------------------------
\* The dialog that was opened for the page's own server is not closed by the answer to
\* another row's stop, which "only" one at a time (busy) can be under way.
DialogUndisturbed == \A c \in stopping : confirm /\ c.heard => c.root = Own
===============================================================================
