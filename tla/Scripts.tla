------------------------------- MODULE Scripts ---------------------------------
(***************************************************************************)
(* The scripts of the collections: the files the server keeps, and the     *)
(* view that edits, runs, renames and deletes them                         *)
(* (service/store/scripts.go, ui/src/features/scripts).                    *)
(*                                                                         *)
(* A call and its answer carry no more than a path; the model knows which  *)
(* script that was.  The server answers calls in any order, each with a    *)
(* snapshot of the collection.  Which view and collection are shown is     *)
(* decided elsewhere: served, active, landed and view are only read here.  *)
(***************************************************************************)
EXTENDS Naturals, FiniteSets, Functions

CONSTANTS
  Colls,     \* collections
  Paths,     \* paths of scripts
  Scripts,   \* scripts, each created once at most
  Texts,     \* what is typed
  Empty,     \* the text of a new script
  Starter,   \* what the editor offers for it
  Careful,   \* the user does not leave a script, nor rename or delete it or create
             \* another one, while a call about it is under way, lets the dialog for
             \* a new one stand until it is answered, and has no two scripts at one path
  None

VARIABLES
  files,     \* by collection and path: the script and its text
  asked,     \* calls under way; "heard" says that the one who made it still listens
  drafts,    \* by path: the text in the editor, and the script it is of (scriptDrafts)
  selected,  \* the path of the script to show (selectedScript)
  dialog,    \* the dialog for a new script is open
  detail,    \* what is shown of a script: its path, the delete dialog, the output
  history,   \* history: by script, the text last typed and the one last saved; all there were
  served, active, landed, view, count

vars == <<files, asked, drafts, selected, dialog, detail, history>>

-----------------------------------------------------------------------------
(***************************************************************************)
(* The detail pane has the path for its key: another path, and it starts   *)
(* afresh and no longer hears what it has asked for.                       *)
(***************************************************************************)
Viewing == view = "scripts"

Shown == IF Viewing /\ active \in landed /\ selected \in DOMAIN files[active] THEN selected ELSE None

\* A record of the store with one entry set.
Put(f, x, v) == [y \in DOMAIN f \cup {x} |-> IF y = x THEN v ELSE f[y]]

Afresh(path) == [path |-> path, confirm |-> FALSE, output |-> None]

\* The first time a script is shown its text is the draft, the starter for none.
Seeded(ds, path, file) ==
  IF path \in DOMAIN ds THEN ds
  ELSE Put(ds, path, [of |-> file.id, text |-> IF file.text = Empty THEN Starter ELSE file.text])

Unheard(calls, ops) == {IF c.op \in ops THEN [c EXCEPT !.heard = FALSE] ELSE c : c \in calls}
OfDetail == {"save", "rename", "delete", "run"}

\* The render that follows every step, files' and selected' being set.
Rendered(ds, pane, calls) ==
  /\ drafts' = IF Shown' = None THEN ds ELSE Seeded(ds, Shown', files'[active'][Shown'])
  /\ detail' = IF Shown' = detail.path THEN pane ELSE Afresh(Shown')
  /\ asked' = Unheard(calls, (IF Shown' = detail.path THEN {} ELSE OfDetail)
                               \cup (IF Viewing' THEN {} ELSE {"create"}))

\* Another view or collection is shown, or another part of this one.
Follows(now) ==
  /\ files' = now
  /\ UNCHANGED <<selected, history>>
  /\ dialog' = (dialog /\ Viewing')
  /\ Rendered(drafts, detail, asked)

\* The calls a button waits for.
Pending(ops) == \E c \in asked : c.heard /\ c.op \in ops
Abandons == Careful => ~ \E c \in asked : c.op \in {"save", "rename", "delete"}

-----------------------------------------------------------------------------
(***************************************************************************)
(* What the user does.                                                     *)
(***************************************************************************)
Script == files[active][Shown]
Draft == drafts[Shown]

Acts == count.acts > 0 /\ count' = [count EXCEPT !.acts = @ - 1]
Free == ~ dialog /\ ~ detail.confirm

Call(op, path, of, arg) ==
  [op |-> op, coll |-> active, path |-> path, of |-> of, arg |-> arg, heard |-> TRUE, n |-> count.changes]

\* A second call of a kind is the one that is listened to from then on.
Ask(c, ops) ==
  /\ count.changes > 0
  /\ count' = [count EXCEPT !.changes = @ - 1]
  /\ asked' = Unheard(asked, ops) \cup {c}

Select(path) ==
  /\ Free /\ active \in landed /\ path \in DOMAIN files[active] \ {selected}
  /\ Abandons
  /\ Acts
  /\ selected' = path
  /\ UNCHANGED <<files, dialog, history>>
  /\ Rendered(drafts, detail, asked)

Type(text) ==
  /\ Free /\ Shown # None /\ text # Draft.text
  /\ Acts
  /\ drafts' = [drafts EXCEPT ![Shown] = [of |-> Script.id, text |-> text]]
  /\ history' = [history EXCEPT !.typed = Put(@, Script.id, text)]
  /\ UNCHANGED <<files, asked, selected, dialog, detail>>

\* Mutant: a save does not wait for the one before.
CanSaveAnyTime == Draft.text # Script.text

\* There is something to save, and nothing of this script is being saved or renamed.
CanSave == Draft.text # Script.text /\ ~ Pending({"save", "rename"})

Save ==
  /\ Free /\ Shown # None /\ CanSave
  /\ Ask(Call("save", Shown, Script.id, Draft.text), {"save", "rename"})
  /\ history' = [history EXCEPT !.saved = Put(@, Script.id, Draft.text)]
  /\ UNCHANGED <<files, drafts, selected, dialog, detail>>

\* Drafts are kept by path alone: a path that another collection uses, or is about to.
Elsewhere ==
  UNION {DOMAIN files[c] : c \in Colls \ {active}}
    \cup {c.arg : c \in {a \in asked : a.coll # active /\ a.op \in {"rename", "create"}}}

\* The name in the header is edited in place; the one it had is no edit (EditableName).
Commits(path) == Free /\ Shown # None /\ path # Shown

\* Nothing here looks at what is pending.
Rename(path) ==
  /\ Commits(path)
  /\ Careful => Abandons /\ path \notin Elsewhere
  /\ Ask(Call("rename", Shown, Script.id, path), {"save", "rename"})
  /\ UNCHANGED <<files, drafts, selected, dialog, detail, history>>

TestRun ==
  /\ Free /\ Shown # None /\ Draft.text # Empty /\ ~ Pending({"run"})
  /\ Ask(Call("run", Shown, Draft.of, Draft.text), {})
  /\ UNCHANGED <<files, drafts, selected, dialog, detail, history>>

\* The delete dialog of the script, and the one for a new script.
Opens ==
  /\ Free /\ Acts
  /\ \/ Shown # None /\ Abandons /\ detail' = [detail EXCEPT !.confirm = TRUE] /\ UNCHANGED dialog
     \/ dialog' = TRUE /\ UNCHANGED detail
  /\ UNCHANGED <<files, asked, drafts, selected, history>>

Cancels ==
  /\ dialog \/ detail.confirm
  /\ Careful => ~ Pending({"delete", "create"})
  /\ dialog' = FALSE /\ detail' = [detail EXCEPT !.confirm = FALSE]
  /\ UNCHANGED <<files, asked, drafts, selected, history, count>>

Delete ==
  /\ detail.confirm /\ ~ Pending({"delete"})
  /\ Ask(Call("delete", Shown, Script.id, None), {})
  /\ UNCHANGED <<files, drafts, selected, dialog, detail, history>>

Create(path) ==
  /\ dialog /\ ~ Pending({"create"})
  /\ active \in landed => path \notin DOMAIN files[active]
  /\ Careful => Abandons /\ path \notin Elsewhere
  /\ \E s \in Scripts \ history.born :
       /\ Ask(Call("create", path, s, path), {})
       /\ history' = [history EXCEPT !.born = @ \cup {s}]
  /\ UNCHANGED <<files, drafts, selected, dialog, detail>>

-----------------------------------------------------------------------------
(***************************************************************************)
(* The server, and what its answers do.                                    *)
(***************************************************************************)
There(c) == c.path \in DOMAIN files[c.coll]

\* CreateScript, UpdateScript and DeleteScript, which does not mind.
Accepts(c) ==
  /\ c.coll \in served
  /\ c.op = "create" => ~ There(c)
  /\ c.op \in {"save", "rename"} => There(c)
  /\ c.op = "rename" => c.arg \notin DOMAIN files[c.coll]

Effect(c) ==
  LET dir == files[c.coll]
      rest == Restrict(dir, DOMAIN dir \ {c.path})
  IN CASE c.op = "create" -> Put(dir, c.path, [id |-> c.of, text |-> Empty])
       [] c.op = "save" -> [dir EXCEPT ![c.path].text = c.arg]
       [] c.op = "rename" -> Put(rest, c.arg, dir[c.path])
       [] c.op = "delete" -> rest
       [] c.op = "run" -> dir

\* Mutant: the draft of a script that is deleted stays.
DraftsKept(c) == IF c.op = "rename" THEN Put(Restrict(drafts, DOMAIN drafts \ {c.path}), c.arg, drafts[c.path]) ELSE drafts

\* renameScript, forgetScript
DraftsAfter(c) ==
  LET rest == Restrict(drafts, DOMAIN drafts \ {c.path})
  IN CASE c.op = "rename" /\ c.path \in DOMAIN drafts -> Put(rest, c.arg, drafts[c.path])
       [] c.op = "delete" -> rest
       [] OTHER -> drafts

\* A script that was created is shown, a renamed one still is, a deleted one is not.
SelectedAfter(c) ==
  CASE c.op = "create" -> c.path
    [] c.op = "rename" /\ selected = c.path -> c.arg
    [] c.op = "delete" /\ selected = c.path -> None
    [] OTHER -> selected

PaneAfter(c) ==
  CASE c.op = "run" -> [detail EXCEPT !.output = c.of]
    [] c.op = "delete" -> [detail EXCEPT !.confirm = FALSE]
    [] OTHER -> detail

\* The snapshot is for everyone, the rest for those who still listen.
Answer(c) ==
  LET well == c.heard /\ Accepts(c)
  IN /\ files' = IF Accepts(c) THEN [files EXCEPT ![c.coll] = Effect(c)] ELSE files
     /\ selected' = IF well THEN SelectedAfter(c) ELSE selected
     /\ dialog' = (dialog /\ ~ (well /\ c.op = "create"))
     /\ Rendered(IF well THEN DraftsAfter(c) ELSE drafts, IF well THEN PaneAfter(c) ELSE detail, asked \ {c})
     /\ UNCHANGED <<history, count>>

-----------------------------------------------------------------------------
InitWith(start) ==
  /\ files = start /\ asked = {} /\ drafts = << >> /\ selected = None /\ dialog = FALSE
  /\ detail = Afresh(None)
  /\ history = [typed |-> << >>, saved |-> << >>,
                born |-> UNION {{f.id : f \in Range(start[c])} : c \in Colls}]

User ==
  /\ Viewing
  /\ \/ \E path \in Paths : Select(path) \/ Rename(path) \/ Create(path)
     \/ \E text \in Texts : Type(text)
     \/ Save \/ TestRun \/ Opens \/ Cancels \/ Delete

Server == \E c \in asked : Answer(c)

-----------------------------------------------------------------------------
(***************************************************************************)
(* Properties.                                                             *)
(***************************************************************************)
\* The text in the editor, and the output below it, are the script's that is there,
\* not of one that had its path before; and what was typed is in its draft, whatever
\* it was renamed to since (renameScript, forgetScript, ScriptsView.tsx key).
ShownIsOwn ==
  /\ \A c \in Colls : \A p \in DOMAIN files[c] :
       LET s == files[c][p].id
       IN /\ p \in DOMAIN drafts => drafts[p].of = s
          /\ s \in DOMAIN history.typed => p \in DOMAIN drafts /\ drafts[p].text = history.typed[s]
  /\ detail.output # None => detail.output = Script.id

\* When nothing is under way a file holds the text that was saved last, in whichever
\* order the calls reached the server.
SavesLand ==
  asked = {} => \A c \in Colls : \A p \in DOMAIN files[c] :
    LET s == files[c][p].id
    IN s \in DOMAIN history.saved => files[c][p].text = history.saved[s]
===============================================================================
