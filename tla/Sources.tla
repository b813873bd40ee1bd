------------------------------- MODULE Sources ---------------------------------
(***************************************************************************)
(* The view of a collection's definition sources                           *)
(* (ui/src/features/sources) over the handlers of their list, which read   *)
(* it, take their time and write it (service/workspace/workspace.go).      *)
(*                                                                         *)
(* Which view and collection are shown is decided elsewhere.               *)
(***************************************************************************)
EXTENDS Naturals, Sequences, FiniteSets, SequencesExt

CONSTANTS
  Colls,    \* collections
  Origins,  \* what a source may be of: its id
  Bazel,    \* those that are built, in a workspace that is trusted
  Careful,  \* the user changes no list while a source is being added or refreshed, nor
            \* goes elsewhere while anything is under way
  None

VARIABLES
  lists,    \* by collection, the sources in order: [id, commit]
  resolved, \* by collection, ids that have ever been resolved
  trusted,  \* the workspace is
  sent,     \* calls under way; "read" is the list as the handler has read it
  modal,    \* "add", the source of the remove dialog, or None
  asked,    \* history: by collection, the list that the accepted changes make
  served, active, landed, view, count

vars == <<lists, resolved, trusted, sent, modal, asked>>

Viewing == view = "sources"
Rows == IF active \in landed THEN lists[active] ELSE << >>
Pending(ops) == \E c \in sent : c.heard /\ c.op \in ops

\* What goes with the view: its dialogs, and whom answers are told.
Follows(newLists, newAsked, newResolved) ==
  /\ lists' = newLists /\ asked' = newAsked /\ resolved' = newResolved
  /\ UNCHANGED trusted
  /\ modal' = IF Viewing' THEN modal ELSE None
  /\ sent' = IF Viewing' THEN sent ELSE {[c EXCEPT !.heard = FALSE] : c \in sent}

-----------------------------------------------------------------------------
(***************************************************************************)
(* What the user does.                                                     *)
(***************************************************************************)
\* Mutant: a move does not lock the rows.
BusyButMoving == Pending({"add", "remove", "commit"})

\* Whatever changes the list locks every row; a refresh locks its own (SourceRow).
Busy == Pending({"add", "remove", "reorder", "commit"})
Locked(id) == Busy \/ \E c \in sent : c.heard /\ c.latest /\ c.op = "refresh" /\ c.id = id

Call(op, id, arg) ==
  [op |-> op, coll |-> active, id |-> id, arg |-> arg, read |-> None, heard |-> TRUE,
   latest |-> TRUE, n |-> count.changes]

\* The latest call of a kind is the one that is looked at from then on.
Ask(c) ==
  /\ count.changes > 0
  /\ count' = [count EXCEPT !.changes = @ - 1]
  /\ sent' = {IF d.op = c.op THEN [d EXCEPT !.heard = FALSE, !.latest = FALSE] ELSE d : d \in sent} \cup {c}
  /\ UNCHANGED <<lists, resolved, trusted, asked>>

Alone == Careful => ~ \E c \in sent : c.op \in {"add", "refresh"}
Free == modal = None

\* onAdd, onAddBazel, onAddDescriptorSet: Enter in a field does not ask what is pending.
Add(id, commit) ==
  /\ modal = "add"
  /\ Careful => sent = {}
  /\ Ask(Call("add", id, commit))
  /\ UNCHANGED modal

\* The backend is sent the whole order (move).
Move(i, j) ==
  /\ Free /\ Alone /\ i \in DOMAIN Rows /\ j \in DOMAIN Rows \cap {i - 1, i + 1}
  /\ ~ Locked(Rows[i].id)
  /\ LET ids == [k \in DOMAIN Rows |-> Rows[k].id]
     IN Ask(Call("reorder", None, [ids EXCEPT ![i] = ids[j], ![j] = ids[i]]))
  /\ UNCHANGED modal

SetCommit(i) ==
  /\ Free /\ Alone /\ i \in DOMAIN Rows /\ ~ Locked(Rows[i].id)
  /\ Ask(Call("commit", Rows[i].id, ~ Rows[i].commit))
  /\ UNCHANGED modal

Refresh(i) ==
  /\ Free /\ i \in DOMAIN Rows /\ ~ Locked(Rows[i].id)
  /\ Careful => \A c \in sent : c.op = "refresh"
  /\ Ask(Call("refresh", Rows[i].id, None))
  /\ UNCHANGED modal

Opens ==
  /\ Free /\ count.acts > 0 /\ count' = [count EXCEPT !.acts = @ - 1]
  /\ modal' \in {"add"} \cup {Rows[i].id : i \in {k \in DOMAIN Rows : ~ Locked(Rows[k].id)}}
  /\ UNCHANGED <<lists, resolved, trusted, sent, asked>>

Closes ==
  /\ modal # None /\ modal' = None
  /\ UNCHANGED <<lists, resolved, trusted, sent, asked, count>>

DoRemove ==
  /\ modal \in Origins /\ Alone /\ ~ Pending({"remove"})
  /\ Ask(Call("remove", modal, None))
  /\ UNCHANGED modal

\* The banner's button; nothing is refreshed for it.
Trust ==
  /\ Free /\ ~ trusted /\ \E k \in DOMAIN Rows : Rows[k].id \in Bazel
  /\ count.acts > 0 /\ count' = [count EXCEPT !.acts = @ - 1]
  /\ trusted' = TRUE
  /\ UNCHANGED <<lists, resolved, sent, modal, asked>>

-----------------------------------------------------------------------------
(***************************************************************************)
(* The handlers: openWithSources, then the rest.                           *)
(***************************************************************************)
At(list, id) == SelectInSeq(list, LAMBDA s : s.id = id)
SameIds(list, ids) == Len(ids) = Len(list) /\ ToSet(ids) = {list[k].id : k \in DOMAIN list}

\* An upload cannot be refused; a reflection that is not answered and a build that
\* fails can, and a build must be, in a workspace that is not trusted.
Resolves(id) == IF id \in Bazel THEN {trusted, FALSE} ELSE {TRUE, FALSE}

\* upsertSource: a commit flag that is set stays (sticky).
Upsert(list, id, commit) ==
  LET at == At(list, id)
  IN IF at = 0 THEN Append(list, [id |-> id, commit |-> commit])
     ELSE [list EXCEPT ![at].commit = @ \/ commit]

Changed(list, c) ==
  CASE c.op = "add" -> Upsert(list, c.id, c.arg)
    [] c.op = "reorder" -> [k \in DOMAIN c.arg |-> list[At(list, c.arg[k])]]
    [] c.op = "commit" -> [list EXCEPT ![At(list, c.id)].commit = c.arg]
    [] c.op = "remove" -> SelectSeq(list, LAMBDA s : s.id # c.id)
    [] c.op = "refresh" -> list

Fits(list, c) ==
  CASE c.op = "add" -> TRUE
    [] c.op = "reorder" -> SameIds(list, c.arg)
    [] OTHER -> At(list, c.id) # 0

Reads(c) ==
  /\ c.read = None
  /\ sent' = (sent \ {c}) \cup (IF c.coll \in served THEN {[c EXCEPT !.read = lists[c.coll]]} ELSE {})
  /\ UNCHANGED <<lists, resolved, trusted, modal, asked, count>>

\* What was read is changed, written and answered; the answer closes the dialog it
\* was asked from, if somebody still listens.
Answers(c) ==
  /\ c.read # None
  /\ sent' = sent \ {c}
  /\ UNCHANGED <<trusted, count>>
  /\ \E well \in IF c.op \in {"add", "refresh"} THEN Resolves(c.id)
                 ELSE {c.op = "commit" /\ c.arg => c.id \in resolved[c.coll]} :
       IF well /\ Fits(c.read, c)
         THEN /\ lists' = [lists EXCEPT ![c.coll] = Changed(c.read, c)]
              /\ asked' = [asked EXCEPT ![c.coll] = IF Fits(@, c) THEN Changed(@, c) ELSE @]
              /\ resolved' = IF c.op \in {"add", "refresh"} THEN [resolved EXCEPT ![c.coll] = @ \cup {c.id}]
                             ELSE IF c.op = "remove" THEN [resolved EXCEPT ![c.coll] = @ \ {c.id}]
                             ELSE resolved
              /\ modal' = IF c.heard /\ ((c.op = "add" /\ modal = "add") \/ (c.op = "remove" /\ modal # "add"))
                            THEN None ELSE modal
         ELSE UNCHANGED <<lists, resolved, modal, asked>>

-----------------------------------------------------------------------------
InitWith(start) ==
  /\ lists = start /\ asked = start /\ sent = {} /\ modal = None /\ trusted = FALSE
  /\ resolved = [c \in Colls |-> {}]

User ==
  /\ Viewing
  /\ \/ \E id \in Origins, commit \in BOOLEAN : Add(id, commit)
     \/ \E i \in DOMAIN Rows : Move(i, i - 1) \/ Move(i, i + 1) \/ SetCommit(i) \/ Refresh(i)
     \/ Opens \/ Closes \/ DoRemove \/ Trust

Server == \E c \in sent : Reads(c) \/ Answers(c)

-----------------------------------------------------------------------------
\* No change of a list that was accepted is undone by another one that had read the
\* list before: whatever "touch[es] the list itself ... lock[s] every row"
\* (source-row.tsx:205).
NothingUndone == \A c \in Colls : lists[c] = asked[c]
===============================================================================
