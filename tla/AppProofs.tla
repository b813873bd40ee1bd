-------------------------------- MODULE AppProofs --------------------------------
(***************************************************************************)
(* Proofs about the application, for any number of collections, scripts,   *)
(* sources, daemons and requests: of the views, one after the other, with  *)
(* the rail, the top bar and the tree around them; of the panel, what a    *)
(* render opens and which collection is chosen; and what the edits of a    *)
(* script's region do to any text.                                         *)
(*                                                                         *)
(* First the inductive invariants, one for what the panel of collections   *)
(* keeps and that the others rest on, one for each view; then, view by     *)
(* view, that every step of it and of the tree keeps its invariant, and    *)
(* the theorems.  A step is as App has it: TreeStep lets the views         *)
(* follow, ViewStep is one view's own.                                     *)
(***************************************************************************)
EXTENDS App, PanelProofs

IsFunction(f) == f = [x \in DOMAIN f |-> f[x]]

NothingAsked == calls = << >> /\ cols = Listing(served)

(* Daemons *)
DaemonsInv ==
  \A c \in stopping : /\ c = [root |-> c.root, heard |-> c.heard, n |-> c.n]
                      /\ c.heard \in BOOLEAN
                      /\ confirm /\ c.heard => c.root = Own

(* Sources *)
IsAsk(c) ==
  c = [op |-> c.op, coll |-> c.coll, id |-> c.id, arg |-> c.arg, read |-> c.read, heard |-> c.heard,
       latest |-> c.latest, n |-> c.n]

SourcesInv ==
  /\ lists = agreed /\ IsFunction(lists)
  /\ \A c \in sent : IsAsk(c) /\ (c.read = None \/ c.read = lists[c.coll])
  /\ sent # {} => NothingAsked /\ view = "sources"
  /\ \A c \in sent : c.op # "refresh" => (c.heard \/ Astray) /\ \A d \in sent : c = d
  /\ \A c \in sent : c.op # "refresh" => c.op \in {"add", "remove", "commit", "reorder"}
  /\ prompt \in Origins => \A c \in sent : c.op \in {"refresh", "remove"}

(* Scripts *)
IsCall(c) ==
  /\ c = [op |-> c.op, coll |-> c.coll, path |-> c.path, of |-> c.of, arg |-> c.arg, heard |-> c.heard, n |-> c.n]
  /\ c.op \in {"run", "create", "save", "rename", "delete"}

IsFile(f) == f = [id |-> f.id, text |-> f.text]

\* No two files have a path or a script in common, in whichever collections.
FilesOf(fs, h) ==
  /\ DOMAIN fs = Home /\ IsFunction(fs)
  /\ \A c \in Home : /\ IsFunction(fs[c])
                     /\ \A p \in DOMAIN fs[c] : IsFile(fs[c][p]) /\ p # None /\ fs[c][p].id \in h.born
  /\ \A c, d \in Home : \A p \in DOMAIN fs[c], q \in DOMAIN fs[d] :
       p = q \/ fs[c][p].id = fs[d][q].id => c = d /\ p = q

HistoryOf(h) ==
  /\ h = [typed |-> h.typed, saved |-> h.saved, born |-> h.born]
  /\ IsFunction(h.typed) /\ IsFunction(h.saved)
  /\ DOMAIN h.typed \subseteq h.born /\ DOMAIN h.saved \subseteq h.born

\* Every draft is of the file that is at its path, and what was typed is in one.
DraftsOf(ds, fs, h) ==
  /\ IsFunction(ds)
  /\ \A p \in DOMAIN ds : \E c \in Home : p \in DOMAIN fs[c] /\ ds[p].of = fs[c][p].id
  /\ \A c \in Home : \A p \in DOMAIN fs[c] :
       fs[c][p].id \in DOMAIN h.typed => p \in DOMAIN ds /\ ds[p].text = h.typed[fs[c][p].id]

\* A file holds what was saved last of its script, or a save is under way.
SavesOf(fs, under, h) ==
  \A c \in Home : \A p \in DOMAIN fs[c] :
    fs[c][p].id \in DOMAIN h.saved =>
      \/ fs[c][p].text = h.saved[fs[c][p].id]
      \/ \E a \in under : a.op = "save" /\ a.of = fs[c][p].id

PaneOf(pane) == pane = [path |-> pane.path, confirm |-> pane.confirm, output |-> pane.output]

PaneInv ==
  /\ PaneOf(detail) /\ detail.path = S!Shown
  /\ S!Shown # None => S!Shown \in DOMAIN drafts
  /\ detail.output # None => S!Shown # None /\ detail.output = S!Script.id
  /\ detail.confirm => S!Shown # None /\ ~ dialog

\* Of the calls that are not test runs there is one at most, about what is shown.
Keys == {c \in asked : c.op # "run"}

KeyInv(a) ==
  /\ NothingAsked /\ a.heard /\ a.coll = active /\ view = "scripts" /\ ~ Astray /\ a.path # None
  /\ a.op = "create" =>
       /\ dialog
       /\ a.of \in history.born /\ a.of \notin DOMAIN history.typed \cup DOMAIN history.saved
       /\ \A c \in Home : \A p \in DOMAIN files[c] : files[c][p].id # a.of /\ (c # active => p # a.path)
  /\ a.op # "create" => S!Shown = a.path /\ a.of = S!Script.id
  /\ a.op = "save" => a.of \in DOMAIN history.saved /\ a.arg = history.saved[a.of]
  /\ a.op = "rename" => a.arg # None /\ \A c \in Home : c # active => a.arg \notin DOMAIN files[c]
  /\ a.op = "delete" <=> detail.confirm

CallsInv ==
  /\ \A a \in asked : IsCall(a) /\ (a.op = "run" /\ a.heard => S!Shown # None /\ a.of = S!Script.id)
  /\ \A a, b \in Keys : a = b
  /\ \A a \in Keys : KeyInv(a)

ScriptsInv ==
  /\ FilesOf(files, history) /\ HistoryOf(history) /\ DraftsOf(drafts, files, history)
  /\ SavesOf(files, asked, history)
  /\ PaneInv /\ CallsInv

(* The pane of the request in view *)
IsForm(t) ==
  /\ t = [wrapped |-> t.wrapped, shim |-> t.shim, imports |-> t.imports, lead |-> t.lead, uses |-> t.uses]
  /\ t.wrapped \in BOOLEAN /\ t.shim \in BOOLEAN

IsScript(t) == IsForm(t) /\ (t.wrapped => t.shim)

IsText(t) == IsScript(t) /\ (t.wrapped => t.lead # "other")

Timed == {"body", "metadata", "target"}

Fields == {"body", "metadata", "target", "method", "middleware"}

FiveOf(q) ==
  q = [body |-> q.body, metadata |-> q.metadata, target |-> q.target, method |-> q.method, middleware |-> q.middleware]

IsDraft(d) ==
  /\ d = [body |-> d.body, extras |-> d.extras, target |-> d.target, metadata |-> d.metadata]
  /\ IsText(d.body) /\ IsText(d.metadata)
  /\ IsSeq(d.extras) /\ \A k \in 1..Len(d.extras) : IsText(d.extras[k])

IsUpdate(u, rs) ==
  /\ u.req \in rs /\ u.field \in Fields
  /\ u.field \in {"body", "metadata"} => IsText(u.value)

SavedOf(s) ==
  /\ IsFunction(s)
  /\ \A r \in DOMAIN s : r # None /\ FiveOf(s[r]) /\ IsText(s[r].body) /\ IsText(s[r].metadata)

KeptOf(ds) ==
  /\ IsFunction(ds) /\ DOMAIN ds = DOMAIN saved
  /\ \A r \in DOMAIN ds : ds[r] = None \/ IsDraft(ds[r])

ShownInv == shown # None => shown \in DOMAIN saved /\ IsDraft(kept[shown])

\* What the editor has is the draft, and what waits belongs to it.
EditorInv ==
  /\ armed \in BOOLEAN /\ idle \in BOOLEAN
  /\ E!Edited = None => text = None /\ ~ armed /\ ~ idle /\ passes = {}
  /\ E!Edited # None => text = kept[shown][E!Edited]

\* A field has one timer, with what was written last.  Where there is none, every
\* update of the field is that or was on its way as that was sent.
OneEach(ts) ==
  \A j, k \in 1..Len(ts) : ts[j].req = ts[k].req /\ ts[j].field = ts[k].field => j = k

Waits(ts, r, f) == \E k \in 1..Len(ts) : ts[k].req = r /\ ts[k].field = f
OnWay(us, r, f) == \E c \in us : c.req = r /\ c.field = f

Final(r, f) == {wanted[r][f]} \cup rivals[r][f]

TimersInv ==
  /\ IsSeq(timers) /\ OneEach(timers)
  /\ \A k \in 1..Len(timers) : /\ IsUpdate(timers[k], DOMAIN saved) /\ timers[k].field \in Timed
                               /\ timers[k].value = wanted[timers[k].req][timers[k].field]

UpdatesInv ==
  /\ \A c \in updates : /\ IsUpdate(c, DOMAIN saved)
                        /\ Waits(timers, c.req, c.field) \/ c.value \in Final(c.req, c.field)
  /\ \A a \in answers : SavedOf(a.stored) /\ DOMAIN a.stored = DOMAIN saved

ServerInv ==
  /\ SavedOf(stored) /\ DOMAIN stored = DOMAIN saved
  /\ IsFunction(wanted) /\ DOMAIN wanted = DOMAIN saved
  /\ IsFunction(rivals) /\ DOMAIN rivals = DOMAIN saved
  /\ \A r \in DOMAIN saved : FiveOf(wanted[r]) /\ FiveOf(rivals[r]) /\ rivals[r].middleware = {}
  /\ \A r \in DOMAIN saved, f \in Fields :
       Waits(timers, r, f) \/ OnWay(updates, r, f) \/ stored[r][f] \in Final(r, f)

\* What a pass has found of a text with the names it began with still holds of the
\* text there is, and what it began with bounds the imports.
PassOf(p, t, brought) ==
  t.wrapped /\ t.uses = p.before.uses =>
    /\ p.before.imports \cap t.uses \subseteq t.imports
    /\ t.imports \subseteq p.before.imports \cup t.uses
    /\ p.kind = "prune" /\ p.found # None =>
         t.imports \ t.uses \subseteq p.found /\ p.found \subseteq p.before.imports \ t.uses
    /\ p.kind = "resolve" =>
         /\ t.uses \subseteq brought
         /\ p.found # None => /\ t.uses \ t.imports \subseteq p.found
                              /\ p.found \subseteq t.uses \ p.before.imports

IsPass(p) ==
  /\ p = [kind |-> p.kind, before |-> p.before, found |-> p.found]
  /\ p.kind \in {"resolve", "prune"}
  /\ IsText(p.before) /\ p.before.wrapped

PassesInv == \A p \in passes : IsPass(p) /\ PassOf(p, text, pasted)

\* Only a paste arms, and what it has armed waits for the pause that follows it.
ArmedInv ==
  armed => /\ idle /\ text.wrapped /\ text.uses \subseteq pasted
           /\ \A p \in passes : p.kind = "resolve" => p.before.uses # text.uses

PaneTypes == SavedOf(saved) /\ KeptOf(kept) /\ ShownInv

RequestInv == PaneTypes /\ EditorInv /\ TimersInv /\ UpdatesInv /\ ServerInv /\ PassesInv /\ ArmedInv

\* A step of the tree is a step of the panel, of a user who has nothing else open or
\* under way, or an answer, or an arrival.
LEMMA StepOfPanel ==
  ASSUME TreeStep
  PROVE  Next
BY DEF TreeStep, Next

LEMMA TreePanelKeeps ==
  ASSUME PanelInv, TreeStep
  PROVE  PanelInv'
BY StepOfPanel, PanelKeeps

LEMMA AppPanelStarts ==
  ASSUME AppInit
  PROVE  Init /\ PanelInv
<1>1. Init
  BY DEF AppInit, Init
<1> QED
  BY <1>1, PanelStarts

------------------------------------------------------------------------------
(* Steps of the other views: what they count.                                 *)

LEMMA ScriptsSpend ==
  ASSUME S!Server \/ S!User
  PROVE  Spent
<1>1. ASSUME S!Acts PROVE Spent
  BY <1>1 DEF S!Acts, Spent
<1>2. ASSUME NEW c, NEW ops, S!Ask(c, ops) PROVE Spent
  BY <1>2 DEF S!Ask, Spent
<1>3. ASSUME UNCHANGED count PROVE Spent
  BY <1>3 DEF Spent
<1>4. ASSUME NEW c \in asked, S!Answer(c) PROVE Spent
  BY <1>3, <1>4 DEF S!Answer
<1>5. ASSUME NEW path \in Paths, S!Select(path) \/ S!Rename(path) \/ S!Create(path) PROVE Spent
  BY <1>1, <1>2, <1>5 DEF S!Select, S!Rename, S!Create
<1>6. ASSUME NEW t \in Texts, S!Type(t) PROVE Spent
  BY <1>1, <1>6 DEF S!Type
<1>7. ASSUME S!Save \/ S!TestRun \/ S!Opens \/ S!Cancels \/ S!Delete PROVE Spent
  BY <1>1, <1>2, <1>3, <1>7 DEF S!Save, S!TestRun, S!Opens, S!Cancels, S!Delete
<1> QED
  BY <1>4, <1>5, <1>6, <1>7 DEF S!Server, S!User

LEMMA SourcesSpend ==
  ASSUME R!Server \/ R!User
  PROVE  Spent
<1>1. ASSUME NEW c, R!Ask(c) PROVE Spent
  BY <1>1 DEF R!Ask, Spent
<1>2. ASSUME NEW c \in sent, R!Reads(c) \/ R!Answers(c) PROVE Spent
  BY <1>2 DEF R!Reads, R!Answers, Spent
<1>3. ASSUME NEW id, NEW commit, R!Add(id, commit) PROVE Spent
  BY <1>1, <1>3 DEF R!Add
<1>4. ASSUME NEW i, NEW j, R!Move(i, j) PROVE Spent
  BY <1>1, <1>4 DEF R!Move
<1>5. ASSUME NEW i, R!SetCommit(i) \/ R!Refresh(i) PROVE Spent
  BY <1>1, <1>5 DEF R!SetCommit, R!Refresh
<1>6. ASSUME R!Opens \/ R!Closes \/ R!DoRemove \/ R!Trust PROVE Spent
  BY <1>1, <1>6 DEF R!Opens, R!Closes, R!DoRemove, R!Trust, Spent
<1> QED
  BY <1>2, <1>3, <1>4, <1>5, <1>6 DEF R!Server, R!User

LEMMA DaemonsSpend ==
  ASSUME D!Server \/ D!User
  PROVE  Spent
<1>1. ASSUME NEW root, D!Call(root) PROVE Spent
  BY <1>1 DEF D!Call, Spent
<1>2. ASSUME NEW root, D!Stop(root) PROVE Spent
  BY <1>1, <1>2 DEF D!Stop, Spent
<1>3. ASSUME NEW c, D!Stopped(c) \/ D!Fails(c) PROVE Spent
  BY <1>3 DEF D!Stopped, D!Fails, Spent
<1>4. ASSUME D!Fetch \/ D!Elsewhere \/ D!ConfirmStop \/ D!Cancel PROVE Spent
  BY <1>1, <1>4 DEF D!Fetch, D!Elsewhere, D!ConfirmStop, D!Cancel, Spent
<1> QED
  BY <1>2, <1>3, <1>4 DEF D!Server, D!User

LEMMA PaneSpends ==
  ASSUME E!Server \/ E!User
  PROVE  Spent
<1>1. ASSUME E!Acts \/ E!Changes PROVE Spent
  BY <1>1 DEF E!Acts, E!Changes, Spent
<1>2. ASSUME UNCHANGED count PROVE Spent
  BY <1>2 DEF Spent
<1>3. ASSUME NEW p \in passes, E!Worker(p) \/ E!Finish(p) PROVE Spent
  BY <1>2, <1>3 DEF E!Worker, E!Finish
<1>4. ASSUME NEW x, E!Idle \/ E!Save \/ E!Serve(x) \/ E!Answer(x) PROVE Spent
  BY <1>2, <1>4 DEF E!Idle, E!Save, E!Serve, E!Answer
<1>5. ASSUME NEW r, E!Open(r) PROVE Spent
  BY <1>1, <1>5 DEF E!Open
<1>6. ASSUME NEW t, E!ShowTab(t) PROVE Spent
  BY <1>1, <1>6 DEF E!ShowTab
<1>7. ASSUME NEW a, NEW cut, E!Paste(a) \/ E!Type(a, cut) PROVE Spent
  BY <1>1, <1>7 DEF E!Paste, E!Type
<1>8. ASSUME NEW n, E!Complete(n) \/ E!RemoveMessage(n) PROVE Spent
  BY <1>1, <1>8 DEF E!Complete, E!RemoveMessage
<1>9. ASSUME NEW i, NEW a, E!TypeMessage(i, a) PROVE Spent
  BY <1>1, <1>9 DEF E!TypeMessage
<1>10. ASSUME NEW x, NEW y, E!SetTarget(x, y) \/ E!Rearrange(x, y) \/ E!SetMethod(x) PROVE Spent
  BY <1>1, <1>10 DEF E!SetTarget, E!Rearrange, E!SetMethod
<1>11. ASSUME E!AddMessage \/ E!SelectHistory PROVE Spent
  BY <1>1, <1>11 DEF E!AddMessage, E!SelectHistory
<1>12. E!Server => Spent
  BY <1>3, <1>4 DEF E!Server
<1>13. E!User => Spent
  BY <1>5, <1>6, <1>7, <1>8, <1>9, <1>10, <1>11 DEF E!User
<1> QED
  BY <1>12, <1>13

LEMMA ViewPanelKeeps ==
  ASSUME PanelInv, ViewStep
  PROVE  PanelInv'
<1>1. Spent
  BY ScriptsSpend, SourcesSpend, DaemonsSpend, PaneSpends DEF ViewStep
<1>2. UNCHANGED <<served, cols>> /\ calls' = calls
  BY DEF ViewStep, treeVars
<1> QED
  BY <1>1, <1>2, PanelAsks DEF Asks

\* What every step but one of the tree leaves alone: what is shown.
LEMMA StillShown ==
  ASSUME UNCHANGED treeVars
  PROVE  UNCHANGED <<served, cols, landed, missing, calls, chosen, view, active, Astray, Current, NothingAsked>>
BY DEF treeVars, active, Astray, Current, NothingAsked

------------------------------------------------------------------------------
(* The daemons.                                                               *)

LEMMA DaemonsFollow ==
  ASSUME DaemonsInv, D!Follows
  PROVE  DaemonsInv'
<1>1. CASE D!Viewing'
  <2>1. stopping' = stopping /\ (confirm' => confirm)
    BY <1>1 DEF D!Follows
  <2> QED
    BY <2>1 DEF DaemonsInv
<1>2. CASE ~ D!Viewing'
  <2>1. stopping' = {[c EXCEPT !.heard = FALSE] : c \in stopping}
    BY <1>2 DEF D!Follows
  <2>2. ASSUME NEW d \in stopping'
        PROVE  d = [root |-> d.root, heard |-> d.heard, n |-> d.n] /\ d.heard = FALSE
    <3>1. PICK c \in stopping : d = [c EXCEPT !.heard = FALSE]
      BY <2>1
    <3>2. c = [root |-> c.root, heard |-> c.heard, n |-> c.n]
      BY DEF DaemonsInv
    <3> QED
      BY <3>1, <3>2
  <2> QED
    BY <2>2 DEF DaemonsInv
<1> QED
  BY <1>1, <1>2

LEMMA DaemonsCall ==
  ASSUME DaemonsInv, NEW root, D!Call(root), confirm' => confirm /\ root = Own
  PROVE  DaemonsInv'
<1>1. PICK d : /\ d = [root |-> root, heard |-> TRUE, n |-> count.changes]
               /\ stopping' = stopping \cup {d}
  BY DEF D!Call
<1>2. d = [root |-> d.root, heard |-> d.heard, n |-> d.n] /\ d.heard \in BOOLEAN /\ d.root = root
  BY <1>1
<1>3. stopping' = stopping \cup {d}
  BY <1>1
<1> QED
  BY <1>2, <1>3 DEF DaemonsInv

LEMMA DaemonsMove ==
  ASSUME DaemonsInv, D!Server \/ D!User
  PROVE  DaemonsInv'
<1>1. CASE D!Fetch \/ D!Elsewhere
  BY <1>1 DEF D!Fetch, D!Elsewhere, DaemonsInv
<1>2. CASE \E c \in stopping : D!Stopped(c) \/ D!Fails(c)
  BY <1>2 DEF D!Stopped, D!Fails, DaemonsInv
<1>3. CASE D!Cancel
  BY <1>3 DEF D!Cancel, DaemonsInv
<1>4. CASE D!ConfirmStop
  BY <1>4, DaemonsCall DEF D!ConfirmStop
<1>5. ASSUME NEW root \in Roots, D!Stop(root) PROVE DaemonsInv'
  <2>1. CASE root = Own
    <3>1. stopping' = stopping /\ \A c \in stopping : ~ c.heard
      BY <1>5, <2>1 DEF D!Stop, D!Waits, D!Busy
    <3> QED
      BY <3>1 DEF DaemonsInv
  <2>2. CASE root # Own
    <3>1. ~ confirm' /\ D!Call(root)
      BY <1>5, <2>2 DEF D!Stop
    <3> QED
      BY <2>2, <3>1, DaemonsCall
  <2> QED
    BY <2>1, <2>2
<1> QED
  BY <1>1, <1>2, <1>3, <1>4, <1>5 DEF D!Server, D!User

\* Only one server is stopped at a time by whoever looks on, so the dialog for the
\* page's own server is open for its own stop or for none: every state of the
\* application keeps DialogUndisturbed.
THEOREM DialogsOwnStop == AppSpec => []DialogUndisturbed
<1>1. AppInit => DaemonsInv
  BY DEF AppInit, D!InitWith, DaemonsInv
<1>2. ASSUME DaemonsInv, [TreeStep \/ ViewStep]_allVars
      PROVE  DaemonsInv'
  <2>1. CASE TreeStep
    BY <1>2, <2>1, DaemonsFollow DEF TreeStep
  <2>2. CASE ViewStep
    <3>1. CASE D!Server \/ D!User
      BY <1>2, <3>1, DaemonsMove
    <3>2. CASE UNCHANGED daemonVars
      BY <1>2, <3>2 DEF daemonVars, DaemonsInv
    <3> QED
      BY <2>2, <3>1, <3>2 DEF ViewStep
  <2>3. CASE UNCHANGED allVars
    BY <1>2, <2>3 DEF allVars, daemonVars, DaemonsInv
  <2> QED
    BY <1>2, <2>1, <2>2, <2>3
<1>3. DaemonsInv => DialogUndisturbed
  BY DEF DaemonsInv, DialogUndisturbed, D!DialogUndisturbed
<1> QED
  BY <1>1, <1>2, <1>3, PTL DEF AppSpec

------------------------------------------------------------------------------
(* The sources: what was read is still what there is when it is written.      *)

LEMMA NeverAdd == "add" \notin Origins /\ None \notin Origins
BY ConstantsAssumption

\* Nothing else goes on while a call for a source is under way, but what arrives.
LEMMA ArrivesOnly ==
  ASSUME Careful, SourcesInv, TreeStep, sent # {}
  PROVE  /\ UNCHANGED <<served, cols, calls, chosen, view, active>>
         /\ lists' = lists /\ agreed' = agreed
         /\ Astray => Astray'
<1>1. ~ Answer /\ ~ Listed /\ ~ Settled
  BY DEF SourcesInv, NothingAsked, Answer, Listed, Settled
<1>2. PICK c \in ToSet(cols) : Landed(c)
  BY <1>1 DEF TreeStep
<1>3. UNCHANGED <<served, cols, calls, chosen, view>>
  BY <1>2 DEF Landed, Arrives
<1>4. active' = active
  BY <1>3 DEF active
<1>5. missing \subseteq missing'
  BY <1>2 DEF Landed
<1>6. Astray => Astray'
  BY <1>4, <1>5 DEF Astray
<1>7. lists' = lists /\ agreed' = agreed
  BY <1>3 DEF TreeStep, R!Follows, Renamed
<1> QED
  BY <1>3, <1>4, <1>6, <1>7

LEMMA RenamedIs ==
  ASSUME NEW f, IsFunction(f)
  PROVE  IsFunction(Renamed(f))
BY DEF Renamed, IsFunction

LEMMA SourcesFollow ==
  ASSUME Careful, SourcesInv, TreeStep
  PROVE  SourcesInv'
<1>1. lists' = Renamed(lists) /\ agreed' = Renamed(agreed)
  BY DEF TreeStep, R!Follows
<1>2. lists' = agreed' /\ IsFunction(lists')
  BY <1>1, RenamedIs DEF SourcesInv
<1>3. prompt' \in {prompt, None} /\ (R!Viewing' => sent' = sent)
      /\ (~ R!Viewing' => sent' = {[c EXCEPT !.heard = FALSE] : c \in sent})
  BY DEF TreeStep, R!Follows
<1>4. CASE sent = {}
  <2>1. sent' = {}
    BY <1>3, <1>4
  <2> QED
    BY <1>2, <2>1 DEF SourcesInv
<1>5. CASE sent # {}
  <2>1. /\ UNCHANGED <<served, cols, calls, chosen, view, active>>
        /\ lists' = lists /\ agreed' = agreed
        /\ Astray => Astray'
    BY <1>5, ArrivesOnly
  <2>2. NothingAsked' /\ view' = "sources"
    BY <1>5, <2>1 DEF SourcesInv, NothingAsked
  <2>3. CASE R!Viewing'
    <3>1. sent' = sent /\ prompt' \in {prompt, None}
      BY <1>3, <2>3
    <3>2. prompt' \in Origins => prompt \in Origins
      BY <3>1, NeverAdd
    <3> QED
      BY <1>2, <2>1, <2>2, <3>1, <3>2 DEF SourcesInv
  <2>4. CASE ~ R!Viewing'
    <3>1. Astray'
      BY <2>2, <2>4 DEF R!Viewing, Current
    <3>2. sent' = {[c EXCEPT !.heard = FALSE] : c \in sent}
      BY <1>3, <2>4
    <3>3. ASSUME NEW d \in sent'
          PROVE  \E c \in sent : /\ d = [c EXCEPT !.heard = FALSE]
                                 /\ IsAsk(d) /\ d.op = c.op /\ d.read = c.read /\ d.coll = c.coll
      <4>1. PICK c \in sent : d = [c EXCEPT !.heard = FALSE]
        BY <3>2
      <4>2. IsAsk(c)
        BY DEF SourcesInv
      <4> QED
        BY <4>1, <4>2 DEF IsAsk
    <3>4. \A d \in sent' : IsAsk(d) /\ (d.read = None \/ d.read = lists'[d.coll])
      BY <2>1, <3>3 DEF SourcesInv
    <3>5. ASSUME NEW d \in sent', d.op # "refresh", NEW x \in sent' PROVE d = x
      <4>1. PICK c \in sent : d = [c EXCEPT !.heard = FALSE] /\ d.op = c.op
        BY <3>3
      <4>2. PICK y \in sent : x = [y EXCEPT !.heard = FALSE]
        BY <3>2
      <4>3. c = y
        BY <3>5, <4>1 DEF SourcesInv
      <4> QED
        BY <4>1, <4>2, <4>3
    <3>6. \A d \in sent' : d.op # "refresh" => d.op \in {"add", "remove", "commit", "reorder"}
      BY <3>3 DEF SourcesInv
    <3>7. prompt' = None
      BY <2>4 DEF TreeStep, R!Follows
    <3> QED
      BY <1>2, <2>2, <3>1, <3>4, <3>5, <3>6, <3>7, NeverAdd DEF SourcesInv
  <2> QED
    BY <2>3, <2>4
<1> QED
  BY <1>4, <1>5

\* What a call changes the list of.
LEMMA SourcesAnswer ==
  ASSUME SourcesInv, UNCHANGED treeVars, NEW c \in sent, R!Answers(c)
  PROVE  SourcesInv'
<1>1. IsAsk(c) /\ c.read = lists[c.coll] /\ lists = agreed /\ IsFunction(lists)
  BY DEF SourcesInv, R!Answers
<1>2. sent' = sent \ {c}
  BY DEF R!Answers
<1>3. CASE UNCHANGED <<lists, agreed>>
  <2>1. prompt' \in Origins => prompt \in Origins
    BY NeverAdd DEF R!Answers
  <2> QED
    BY <1>1, <1>2, <1>3, <2>1, StillShown DEF SourcesInv
<1>4. CASE R!Fits(c.read, c)
           /\ lists' = [lists EXCEPT ![c.coll] = R!Changed(c.read, c)]
           /\ agreed' = [agreed EXCEPT ![c.coll] = IF R!Fits(@, c) THEN R!Changed(@, c) ELSE @]
  <2>1. lists' = agreed' /\ IsFunction(lists')
    <3>1. agreed[c.coll] = c.read
      BY <1>1
    <3>2. agreed' = [agreed EXCEPT ![c.coll] = R!Changed(c.read, c)]
      BY <1>4, <3>1
    <3>3. IsFunction(lists')
      BY <1>1, <1>4 DEF IsFunction
    <3> QED
      BY <1>1, <1>4, <3>2, <3>3
  <2>2. prompt' \in Origins => prompt \in Origins
    BY NeverAdd DEF R!Answers
  <2>3. CASE c.op = "refresh"
    <3>1. R!Changed(c.read, c) = c.read
      BY <2>3 DEF R!Changed
    <3>2. lists' = lists
      BY <1>1, <1>4, <3>1 DEF IsFunction
    <3> QED
      BY <1>1, <1>2, <2>1, <2>2, <3>2, StillShown DEF SourcesInv
  <2>4. CASE c.op # "refresh"
    <3>1. sent' = {}
      BY <1>2, <2>4 DEF SourcesInv
    <3> QED
      BY <2>1, <3>1 DEF SourcesInv
  <2> QED
    BY <2>3, <2>4
<1> QED
  BY <1>3, <1>4 DEF R!Answers

LEMMA SourcesRead ==
  ASSUME SourcesInv, UNCHANGED treeVars, NEW c \in sent, R!Reads(c)
  PROVE  SourcesInv'
<1>1. IsAsk(c)
  BY DEF SourcesInv
<1> DEFINE d == [c EXCEPT !.read = lists[c.coll]]
<1>2. IsAsk(d) /\ d.op = c.op /\ d.heard = c.heard /\ d.coll = c.coll /\ d.read = lists[d.coll]
  BY <1>1 DEF IsAsk
<1> HIDE DEF d
<1>3. sent' \subseteq (sent \ {c}) \cup {d} /\ UNCHANGED <<lists, agreed, prompt>>
  BY DEF R!Reads, d
<1>4. \A x \in sent' : x.op # "refresh" => (x.heard \/ Astray) /\ \A y \in sent' : x = y
  <2>1. CASE c.op = "refresh"
    BY <1>2, <1>3, <2>1 DEF SourcesInv
  <2>2. CASE c.op # "refresh"
    <3>1. sent' \subseteq {d}
      BY <1>3, <2>2 DEF SourcesInv
    <3> QED
      BY <1>2, <2>2, <3>1 DEF SourcesInv
  <2> QED
    BY <2>1, <2>2
<1> QED
  BY <1>2, <1>3, <1>4, StillShown DEF SourcesInv

\* A call that is asked for.
LEMMA SourcesAsk ==
  ASSUME SourcesInv, UNCHANGED treeVars, NothingAsked, R!Viewing, NEW op, NEW id, NEW arg,
         op \in {"add", "remove", "commit", "reorder", "refresh"},
         R!Ask(R!Call(op, id, arg)), UNCHANGED prompt,
         IF op = "refresh" THEN \A d \in sent : d.op = "refresh" ELSE sent = {},
         prompt \in Origins => op \in {"refresh", "remove"}
  PROVE  SourcesInv'
<1> DEFINE c == R!Call(op, id, arg)
           Quieted(d) == IF d.op = c.op THEN [d EXCEPT !.heard = FALSE, !.latest = FALSE] ELSE d
<1>1. c.op = op /\ IsAsk(c) /\ c.read = None /\ c.heard
  BY DEF R!Call, IsAsk
<1> HIDE DEF c
<1>2. sent' = {Quieted(d) : d \in sent} \cup {c} /\ UNCHANGED <<lists, agreed>>
  BY DEF R!Ask, c
<1>3. ASSUME NEW d \in sent
      PROVE  IsAsk(Quieted(d)) /\ Quieted(d).op = d.op /\ Quieted(d).read = d.read /\ Quieted(d).coll = d.coll
  <2>1. IsAsk(d)
    BY DEF SourcesInv
  <2>2. CASE d.op = c.op
    <3>1. PICK x : x = [d EXCEPT !.heard = FALSE, !.latest = FALSE]
      OBVIOUS
    <3>2. x = [op |-> d.op, coll |-> d.coll, id |-> d.id, arg |-> d.arg, read |-> d.read, heard |-> FALSE,
               latest |-> FALSE, n |-> d.n]
      BY <2>1, <3>1 DEF IsAsk
    <3>3. Quieted(d) = x
      BY <2>2, <3>1
    <3> QED
      BY <3>2, <3>3 DEF IsAsk
  <2> QED
    BY <2>1, <2>2
<1>4. view = "sources"
  BY DEF R!Viewing, Current
<1> HIDE DEF Quieted
<1>5. CASE op = "refresh"
  <2>1. \A x \in sent' : x.op = "refresh"
    BY <1>1, <1>2, <1>3, <1>5
  <2> QED
    BY <1>1, <1>2, <1>3, <1>4, <2>1, StillShown DEF SourcesInv
<1>6. CASE op # "refresh"
  <2>1. sent' = {c}
    BY <1>2, <1>6
  <2> QED
    BY <1>1, <1>2, <1>4, <1>6, <2>1, StillShown DEF SourcesInv
<1> QED
  BY <1>5, <1>6

\* While the user may act, no change of the list is asked for that somebody else
\* has asked for.
LEMMA SourcesUser ==
  ASSUME Careful, SourcesInv, UNCHANGED treeVars, NothingAsked, R!User
  PROVE  SourcesInv'
<1>1. R!Viewing /\ ~ Astray
  BY DEF R!User, R!Viewing, Current
<1>2. \A c \in sent : c.op # "refresh" => c.heard
  BY <1>1 DEF SourcesInv
<1>3. R!Alone => \A c \in sent : c.op \notin {"add", "refresh"}
  BY DEF R!Alone
<1>4. ASSUME ~ R!Busy, R!Alone PROVE sent = {}
  BY <1>2, <1>3, <1>4 DEF R!Busy, R!Pending, SourcesInv
<1>5. ASSUME NEW id, NEW commit, R!Add(id, commit) PROVE SourcesInv'
  <2>1. sent = {} /\ R!Ask(R!Call("add", id, commit)) /\ UNCHANGED prompt /\ prompt = "add"
    BY <1>5 DEF R!Add
  <2> QED
    BY <1>1, <2>1, SourcesAsk, NeverAdd
<1>6. ASSUME NEW i, NEW j, R!Move(i, j) PROVE SourcesInv'
  <2>1. PICK ids : R!Ask(R!Call("reorder", None, ids)) /\ UNCHANGED prompt /\ prompt = None /\ R!Alone /\ ~ R!Busy
    BY <1>6 DEF R!Move, R!Free, R!Locked
  <2> QED
    BY <1>1, <1>4, <2>1, SourcesAsk, NeverAdd
<1>7. ASSUME NEW i, R!SetCommit(i) PROVE SourcesInv'
  <2>1. PICK id, arg : R!Ask(R!Call("commit", id, arg)) /\ UNCHANGED prompt /\ prompt = None /\ R!Alone /\ ~ R!Busy
    BY <1>7 DEF R!SetCommit, R!Free, R!Locked
  <2> QED
    BY <1>1, <1>4, <2>1, SourcesAsk, NeverAdd
<1>8. ASSUME NEW i, R!Refresh(i) PROVE SourcesInv'
  <2>1. PICK id : R!Ask(R!Call("refresh", id, None)) /\ UNCHANGED prompt /\ prompt = None
                  /\ \A c \in sent : c.op = "refresh"
    BY <1>8 DEF R!Refresh, R!Free
  <2> QED
    BY <1>1, <2>1, SourcesAsk, NeverAdd
<1>9. ASSUME R!DoRemove PROVE SourcesInv'
  <2>1. prompt \in Origins /\ R!Alone /\ ~ R!Pending({"remove"}) /\ UNCHANGED prompt
        /\ R!Ask(R!Call("remove", prompt, None))
    BY <1>9 DEF R!DoRemove
  <2>2. sent = {}
    BY <1>2, <1>3, <2>1 DEF R!Pending, SourcesInv
  <2> QED
    BY <1>1, <2>1, <2>2, SourcesAsk
<1>10. ASSUME R!Opens PROVE SourcesInv'
  <2>1. UNCHANGED <<lists, agreed, sent>>
        /\ prompt' \in {"add"} \cup {R!Rows[i].id : i \in {k \in DOMAIN R!Rows : ~ R!Locked(R!Rows[k].id)}}
    BY <1>10 DEF R!Opens
  <2>2. prompt' \in Origins => ~ R!Busy
    BY <2>1, NeverAdd DEF R!Locked
  <2>3. prompt' \in Origins => \A c \in sent : c.op = "refresh"
    BY <1>2, <2>2 DEF R!Busy, R!Pending, SourcesInv
  <2> QED
    BY <2>1, <2>3, StillShown DEF SourcesInv
<1>11. ASSUME R!Closes \/ R!Trust PROVE SourcesInv'
  <2>1. UNCHANGED <<lists, agreed, sent>> /\ (prompt' = prompt \/ prompt' = None)
    BY <1>11 DEF R!Closes, R!Trust
  <2> QED
    BY <2>1, StillShown, NeverAdd DEF SourcesInv
<1> QED
  BY <1>5, <1>6, <1>7, <1>8, <1>9, <1>10, <1>11 DEF R!User

\* No change of a list that was accepted is undone by one that had read the list
\* before: for a user who waits with the list for what is added or refreshed, there
\* are never two calls that would change it, and none when the collection is renamed.
THEOREM ListsLoseNothing ==
  ASSUME Careful
  PROVE  AppSpec => []NothingUndone
<1>1. AppInit => SourcesInv
  <2>1. ASSUME AppInit PROVE SourcesInv
    <3>1. PICK start \in Starts : R!InitWith(start.lists)
      BY <2>1 DEF AppInit
    <3>2. IsFunction(start.lists)
      BY StartsAssumption DEF IsFunction
    <3>3. lists = agreed /\ IsFunction(lists) /\ sent = {}
      BY <3>1, <3>2 DEF R!InitWith
    <3> QED
      BY <3>3 DEF SourcesInv
  <2> QED
    BY <2>1
<1>2. ASSUME SourcesInv, [TreeStep \/ ViewStep]_allVars
      PROVE  SourcesInv'
  <2>1. CASE TreeStep
    BY <1>2, <2>1, SourcesFollow
  <2>2. CASE ViewStep /\ (R!Server \/ ((Careful => calls = << >> /\ cols = Listing(served)) /\ R!User))
    <3>1. UNCHANGED treeVars
      BY <2>2 DEF ViewStep
    <3>2. CASE R!Server
      BY <1>2, <3>1, <3>2, SourcesRead, SourcesAnswer DEF R!Server
    <3>3. CASE NothingAsked /\ R!User
      BY <1>2, <3>1, <3>3, SourcesUser
    <3> QED
      BY <2>2, <3>2, <3>3 DEF NothingAsked
  <2>3. CASE ViewStep /\ UNCHANGED sourceVars
    <3>1. UNCHANGED treeVars
      BY <2>3 DEF ViewStep
    <3> QED
      BY <1>2, <2>3, <3>1, StillShown DEF sourceVars, SourcesInv
  <2>4. CASE UNCHANGED allVars
    <3>1. UNCHANGED treeVars /\ UNCHANGED sourceVars
      BY <2>4 DEF allVars, vars, treeVars
    <3> QED
      BY <1>2, <3>1, StillShown DEF sourceVars, SourcesInv
  <2> QED
    BY <1>2, <2>1, <2>2, <2>3, <2>4 DEF ViewStep
<1>3. SourcesInv => NothingUndone
  BY DEF SourcesInv, NothingUndone, R!NothingUndone
<1> QED
  BY <1>1, <1>2, <1>3, PTL DEF AppSpec

------------------------------------------------------------------------------
(* The scripts: what a step leaves of their files, drafts and pane.           *)

LEMMA UnheardIs ==
  ASSUME NEW under, \A c \in under : IsCall(c), NEW ops, NEW x \in S!Unheard(under, ops)
  PROVE  \E c \in under : /\ IsCall(x) /\ x.op = c.op /\ x.of = c.of
                          /\ IF c.op \in ops THEN ~ x.heard ELSE x = c
<1>1. PICK c \in under : x = IF c.op \in ops THEN [c EXCEPT !.heard = FALSE] ELSE c
  BY DEF S!Unheard
<1>2. IsCall(c)
  OBVIOUS
<1>3. CASE c.op \in ops
  <2>1. x = [op |-> c.op, coll |-> c.coll, path |-> c.path, of |-> c.of, arg |-> c.arg, heard |-> FALSE, n |-> c.n]
    BY <1>1, <1>2, <1>3 DEF IsCall
  <2>2. IsCall(x) /\ x.op = c.op /\ x.of = c.of /\ ~ x.heard
    BY <1>2, <2>1 DEF IsCall
  <2> QED
    BY <1>3, <2>2
<1>4. CASE c.op \notin ops
  BY <1>1, <1>2, <1>4
<1> QED
  BY <1>3, <1>4

\* Nothing is unheard of when there is nothing of those kinds.
LEMMA AllHeard ==
  ASSUME NEW under, NEW ops, \A c \in under : c.op \notin ops
  PROVE  S!Unheard(under, ops) = under
BY DEF S!Unheard

LEMMA Seeding ==
  ASSUME NEW fs, NEW h, FilesOf(fs, h), NEW ds, DraftsOf(ds, fs, h), NEW c \in Home, NEW p \in DOMAIN fs[c]
  PROVE  LET after == S!Seeded(ds, p, fs[c][p])
         IN DraftsOf(after, fs, h) /\ p \in DOMAIN after
<1>1. CASE p \in DOMAIN ds
  BY <1>1 DEF S!Seeded
<1>2. CASE p \notin DOMAIN ds
  <2> DEFINE d == [of |-> fs[c][p].id, text |-> IF fs[c][p].text = Empty THEN Starter ELSE fs[c][p].text]
             after == [x \in DOMAIN ds \cup {p} |-> IF x = p THEN d ELSE ds[x]]
  <2>1. S!Seeded(ds, p, fs[c][p]) = after
    BY <1>2 DEF S!Seeded, S!Put
  <2>2. d.of = fs[c][p].id
    OBVIOUS
  <2>3. DOMAIN after = DOMAIN ds \cup {p} /\ after[p] = d /\ (\A x \in DOMAIN ds : after[x] = ds[x]) /\ IsFunction(after)
    BY <1>2 DEF IsFunction
  <2> HIDE DEF after, d
  <2>4. \A x \in DOMAIN after : \E e \in Home : x \in DOMAIN fs[e] /\ after[x].of = fs[e][x].id
    BY <2>2, <2>3 DEF DraftsOf
  <2>5. \A e \in Home : \A x \in DOMAIN fs[e] :
          fs[e][x].id \in DOMAIN h.typed => x \in DOMAIN after /\ after[x].text = h.typed[fs[e][x].id]
    BY <1>2, <2>3 DEF DraftsOf
  <2> QED
    BY <2>1, <2>3, <2>4, <2>5 DEF DraftsOf
<1> QED
  BY <1>1, <1>2

\* The render that ends a step.
LEMMA Rendering ==
  ASSUME NEW ds, NEW pane, NEW under, S!Rendered(ds, pane, under), active' \in Home,
         FilesOf(files', history'), DraftsOf(ds, files', history'), PaneOf(pane)
  PROVE  /\ DraftsOf(drafts', files', history')
         /\ S!Shown' # None => S!Shown' \in DOMAIN drafts'
         /\ PaneOf(detail')
         /\ S!Shown' # detail.path => detail'.path = S!Shown' /\ ~ detail'.confirm /\ detail'.output = None
         /\ S!Shown' = detail.path => detail' = pane
<1>1. CASE S!Shown' = None
  BY <1>1 DEF S!Rendered, S!Afresh, PaneOf
<1>2. CASE S!Shown' # None
  <2>1. S!Shown' \in DOMAIN files'[active']
    BY <1>2 DEF S!Shown
  <2>2. drafts' = S!Seeded(ds, S!Shown', files'[active'][S!Shown'])
    BY <1>2 DEF S!Rendered
  <2>3. DraftsOf(drafts', files', history') /\ S!Shown' \in DOMAIN drafts'
    BY <2>1, <2>2, Seeding
  <2> QED
    BY <2>3 DEF S!Rendered, S!Afresh, PaneOf
<1> QED
  BY <1>1, <1>2

\* What is shown is a file of the active collection.
LEMMA ShownThere ==
  ASSUME S!Shown # None
  PROVE  S!Shown \in DOMAIN files[active] /\ S!Viewing /\ active \in landed /\ S!Shown = selected
BY DEF S!Shown

LEMMA ScriptsViewed ==
  ASSUME S!Viewing
  PROVE  view = "scripts" /\ ~ Astray
BY DEF S!Viewing, Current

\* A step of the scripts that leaves files and the choice of one alone.
LEMMA SameShown ==
  ASSUME UNCHANGED treeVars, UNCHANGED <<files, selected>>
  PROVE  S!Shown' = S!Shown /\ S!Script' = S!Script /\ (S!Viewing <=> S!Viewing') /\ active' = active
<1>1. UNCHANGED <<active, Current, landed>>
  BY StillShown
<1> QED
  BY <1>1 DEF S!Shown, S!Script, S!Viewing

\* A step after which nothing but test runs is under way.
LEMMA Rests ==
  ASSUME \A a \in asked' : IsCall(a) /\ a.op = "run" /\ (a.heard => S!Shown' # None /\ a.of = S!Script.id')
  PROVE  CallsInv'
BY DEF CallsInv, Keys

LEMMA NoKeysSave ==
  ASSUME Keys = {}, NEW fs, NEW h, SavesOf(fs, asked, h), NEW under
  PROVE  SavesOf(fs, under, h)
BY DEF SavesOf, Keys

\* A collection that is renamed takes its files along: the collections change places.
Places(perm, f, g) ==
  /\ perm \in [Home -> Home]
  /\ \A c, d \in Home : perm[c] = perm[d] => c = d
  /\ \A c \in Home : \E d \in Home : perm[d] = c
  /\ g = [c \in Home |-> f[perm[c]]]

LEMMA RenamedPlaces ==
  ASSUME PanelInv, TreeStep, NEW f, DOMAIN f = Home, IsFunction(f)
  PROVE  \E perm : Places(perm, f, Renamed(f))
<1>1. CASE ~ (calls # << >> /\ Head(calls).op = "recol" /\ served' # served)
  <2> DEFINE perm == [c \in Home |-> c]
  <2>1. Renamed(f) = f
    BY <1>1 DEF Renamed
  <2>2. Places(perm, f, f)
    BY DEF Places, IsFunction
  <2> QED
    BY <2>1, <2>2
<1>2. CASE calls # << >> /\ Head(calls).op = "recol" /\ served' # served
  <2>1. Answer
    <3>1. ~ User /\ ~ Listed /\ ~ \E c \in ToSet(cols) : Landed(c)
      BY <1>2, UserAsks DEF Listed, Landed, Arrives
    <3> QED
      BY <3>1 DEF TreeStep
  <2>2. Accepts(Head(calls))
    BY <1>2, <2>1 DEF Answer, Refused, Still
  <2>3. Head(calls).coll \in served /\ Head(calls).to \notin served
    BY <1>2, <2>2 DEF Accepts
  <2>4. Head(calls).to \in Home
    <3>1. Head(calls) = calls[1] /\ Len(calls) > 0 /\ Len(calls) \in Nat
      BY <1>2, Tailed DEF PanelInv, IsSeq
    <3> QED
      BY <1>2, <3>1 DEF PanelInv
  <2>5. PICK from \in Home, to \in Home : from = Head(calls).coll /\ to = Head(calls).to /\ from # to
    BY <2>3, <2>4 DEF PanelInv
  <2> DEFINE perm == [c \in Home |-> IF c = to THEN from ELSE IF c = from THEN to ELSE c]
  <2>6. Renamed(f) = [f EXCEPT ![to] = f[from], ![from] = f[to]]
    BY <1>2, <2>5 DEF Renamed
  <2>7. Renamed(f) = [c \in Home |-> f[perm[c]]]
    BY <2>5, <2>6 DEF IsFunction
  <2>8. \A c \in Home : \E d \in Home : perm[d] = c
    <3>1. ASSUME NEW c \in Home PROVE perm[perm[c]] = c /\ perm[c] \in Home
      OBVIOUS
    <3> HIDE DEF perm
    <3> QED
      BY <3>1
  <2>9. perm \in [Home -> Home] /\ \A c, d \in Home : perm[c] = perm[d] => c = d
    BY <2>5
  <2> HIDE DEF perm
  <2> QED
    BY <2>7, <2>8, <2>9 DEF Places
<1> QED
  BY <1>1, <1>2

LEMMA PlacedFiles ==
  ASSUME NEW perm, NEW fs, NEW gs, Places(perm, fs, gs), NEW h, FilesOf(fs, h)
  PROVE  /\ FilesOf(gs, h)
         /\ \A ds : DraftsOf(ds, fs, h) => DraftsOf(ds, gs, h)
         /\ \A under : SavesOf(fs, under, h) => SavesOf(gs, under, h)
<1>1. /\ perm \in [Home -> Home] /\ gs = [c \in Home |-> fs[perm[c]]]
      /\ \A c, d \in Home : perm[c] = perm[d] => c = d
      /\ \A c \in Home : \E d \in Home : perm[d] = c
  BY DEF Places
<1>2. DOMAIN gs = Home /\ IsFunction(gs) /\ \A c \in Home : perm[c] \in Home /\ gs[c] = fs[perm[c]]
  BY <1>1 DEF IsFunction
<1>3. FilesOf(gs, h)
  BY <1>1, <1>2 DEF FilesOf
<1>4. ASSUME NEW ds, DraftsOf(ds, fs, h) PROVE DraftsOf(ds, gs, h)
  <2>1. ASSUME NEW p \in DOMAIN ds PROVE \E c \in Home : p \in DOMAIN gs[c] /\ ds[p].of = gs[c][p].id
    <3>1. PICK c \in Home : p \in DOMAIN fs[c] /\ ds[p].of = fs[c][p].id
      BY <1>4 DEF DraftsOf
    <3>2. PICK d \in Home : perm[d] = c
      BY <1>1
    <3> QED
      BY <1>2, <3>1, <3>2
  <2>2. ASSUME NEW c \in Home, NEW p \in DOMAIN gs[c], gs[c][p].id \in DOMAIN h.typed
        PROVE  p \in DOMAIN ds /\ ds[p].text = h.typed[gs[c][p].id]
    BY <1>2, <1>4, <2>2 DEF DraftsOf
  <2>3. IsFunction(ds)
    BY <1>4 DEF DraftsOf
  <2> QED
    BY <2>1, <2>2, <2>3 DEF DraftsOf
<1>5. ASSUME NEW under, SavesOf(fs, under, h) PROVE SavesOf(gs, under, h)
  BY <1>2, <1>5 DEF SavesOf
<1> QED
  BY <1>3, <1>4, <1>5

\* While a call is under way that is no test run, nothing can happen to the tree
\* but that a collection arrives, and the view stays.
LEMMA KeyStays ==
  ASSUME Careful, PanelInv, CallsInv, TreeStep, NEW k \in Keys
  PROVE  /\ UNCHANGED <<served, cols, calls, view, active, files>> /\ NothingAsked' /\ ~ Astray' /\ S!Viewing'
         /\ landed \subseteq landed'
<1>1. KeyInv(k)
  BY DEF CallsInv
<1>2. k \in asked /\ k.op \in {"create", "save", "rename", "delete"}
  BY DEF CallsInv, Keys, IsCall
<1>3. ~ Answer /\ ~ Listed
  BY <1>1 DEF KeyInv, NothingAsked, Answer, Listed
<1>4. ~ (~ Covered /\ Settled)
  BY <1>1, <1>2 DEF KeyInv, Covered, Settled, S!Abandons
<1>5. PICK c \in ToSet(cols) : Landed(c)
  BY <1>3, <1>4 DEF TreeStep
<1>6. UNCHANGED <<served, cols, calls, view, chosen>>
  BY <1>5 DEF Landed, Arrives
<1>7. active' = active /\ active \in served
  BY <1>1, <1>6, ActiveServed DEF active, KeyInv, NothingAsked
<1>8. active \notin missing'
  <2>1. active \notin missing
    BY <1>1 DEF KeyInv, Astray
  <2> QED
    BY <1>5, <1>7, <2>1 DEF Landed
<1>9. ~ Astray' /\ S!Viewing'
  BY <1>1, <1>6, <1>7, <1>8 DEF Astray, S!Viewing, Current, KeyInv
<1>10. files' = files
  BY <1>6 DEF TreeStep, S!Follows, Renamed
<1>11. NothingAsked' /\ landed \subseteq landed'
  BY <1>1, <1>5, <1>6 DEF NothingAsked, KeyInv, Landed
<1> QED
  BY <1>6, <1>7, <1>9, <1>10, <1>11

LEMMA ScriptsFollow ==
  ASSUME Careful, PanelInv, PanelInv', ScriptsInv, TreeStep
  PROVE  ScriptsInv'
<1>1. /\ files' = Renamed(files) /\ UNCHANGED <<selected, history>>
      /\ (dialog' => dialog) /\ (S!Viewing' => (dialog' <=> dialog))
      /\ S!Rendered(drafts, detail, asked)
  <2>1. S!Follows(Renamed(files))
    BY DEF TreeStep
  <2> QED
    BY <2>1 DEF S!Follows
<1>2. PICK perm : Places(perm, files, files')
  BY <1>1, RenamedPlaces DEF ScriptsInv, FilesOf
<1>3. FilesOf(files', history') /\ DraftsOf(drafts, files', history') /\ SavesOf(files', asked, history')
  BY <1>1, <1>2, PlacedFiles DEF ScriptsInv
<1>4. active' \in Home /\ active \in Home
  BY ActiveHome DEF PanelInv, active
<1>5. /\ DraftsOf(drafts', files', history')
      /\ S!Shown' # None => S!Shown' \in DOMAIN drafts'
      /\ PaneOf(detail')
      /\ S!Shown' # detail.path => detail'.path = S!Shown' /\ ~ detail'.confirm /\ detail'.output = None
      /\ S!Shown' = detail.path => detail' = detail
  BY <1>1, <1>3, <1>4, Rendering DEF ScriptsInv, PaneInv
<1>6. detail.path = S!Shown
  BY DEF ScriptsInv, PaneInv
<1>7. ASSUME S!Shown # None, S!Shown' = S!Shown PROVE S!Script' = S!Script
  <2>1. S!Shown \in DOMAIN files[active] /\ S!Shown' \in DOMAIN files'[active']
    BY <1>7 DEF S!Shown
  <2>2. files'[active'] = files[perm[active']] /\ perm[active'] \in Home
    BY <1>2, <1>4 DEF Places
  <2>3. perm[active'] = active
    BY <1>4, <1>7, <2>1, <2>2 DEF ScriptsInv, FilesOf
  <2> QED
    BY <1>7, <2>2, <2>3 DEF S!Script
<1>8. PaneInv'
  <2>1. CASE S!Shown' = S!Shown
    BY <1>1, <1>5, <1>6, <1>7, <2>1 DEF ScriptsInv, PaneInv
  <2>2. CASE S!Shown' # S!Shown
    BY <1>1, <1>5, <1>6, <2>2 DEF PaneInv
  <2> QED
    BY <2>1, <2>2
<1> DEFINE ops == (IF S!Shown' = detail.path THEN {} ELSE S!OfDetail) \cup (IF S!Viewing' THEN {} ELSE {"create"})
<1>9. asked' = S!Unheard(asked, ops)
  BY <1>1 DEF S!Rendered
<1>10. \A c \in asked : IsCall(c)
  BY DEF ScriptsInv, CallsInv
<1>11. ASSUME NEW x \in asked'
       PROVE  \E c \in asked : /\ IsCall(x) /\ x.op = c.op /\ x.of = c.of
                               /\ IF c.op \in ops THEN ~ x.heard ELSE x = c
  <2> HIDE DEF ops
  <2> QED
    BY <1>9, <1>10, UnheardIs
<1>12. ASSUME NEW x \in asked' PROVE IsCall(x) /\ (x.op = "run" /\ x.heard => S!Shown' # None /\ x.of = S!Script.id')
  <2>1. PICK c \in asked : /\ IsCall(x) /\ x.op = c.op /\ x.of = c.of
                           /\ IF c.op \in ops THEN ~ x.heard ELSE x = c
    BY <1>11
  <2>2. ASSUME x.op = "run", x.heard PROVE S!Shown' # None /\ x.of = S!Script.id'
    <3>1. c.op = "run" /\ c.heard /\ S!Shown' = detail.path
      BY <2>1, <2>2 DEF S!OfDetail
    <3>2. S!Shown # None /\ c.of = S!Script.id
      BY <3>1 DEF ScriptsInv, CallsInv
    <3> QED
      BY <1>6, <1>7, <2>1, <3>1, <3>2
  <2> QED
    BY <2>1, <2>2
<1>13. SavesOf(files', asked', history')
  <2>1. ASSUME NEW c \in asked PROVE \E x \in asked' : x.op = c.op /\ x.of = c.of
    <3>1. IsCall(c)
      BY <1>10
    <3>2. CASE c.op \in ops
      <4>1. [c EXCEPT !.heard = FALSE] \in asked'
        BY <1>9, <3>2 DEF S!Unheard
      <4> QED
        BY <3>1, <4>1 DEF IsCall
    <3>3. CASE c.op \notin ops
      <4>1. c \in asked'
        BY <1>9, <3>3 DEF S!Unheard
      <4> QED
        BY <4>1
    <3> HIDE DEF ops
    <3> QED
      BY <3>2, <3>3
  <2> QED
    BY <1>3, <2>1 DEF SavesOf
<1>14. CallsInv'
  <2>1. CASE Keys = {}
    <3>1. \A x \in asked' : x.op = "run"
      BY <1>11, <2>1 DEF Keys
    <3> QED
      BY <1>12, <3>1, Rests
  <2>2. CASE Keys # {}
    <3>1. PICK k \in Keys : TRUE
      BY <2>2
    <3>2. /\ UNCHANGED <<served, cols, calls, view, active, files>> /\ NothingAsked' /\ ~ Astray' /\ S!Viewing'
          /\ landed \subseteq landed'
      BY <3>1, KeyStays DEF ScriptsInv
    <3>3. KeyInv(k) /\ k.op # "run" /\ \A c \in Keys : c = k
      BY DEF ScriptsInv, CallsInv, Keys
    <3>4. S!Shown # None => S!Shown' = S!Shown
      BY <1>1, <3>2, ShownThere DEF S!Shown
    <3>5. k.op # "create" => S!Shown' = S!Shown
      BY <3>3, <3>4 DEF KeyInv
    <3>6. k.op \notin ops
      BY <1>6, <3>2, <3>5 DEF S!OfDetail
    <3>7. ASSUME NEW x \in asked', x.op # "run" PROVE x = k
      <4>1. PICK c \in asked : x.op = c.op /\ IF c.op \in ops THEN ~ x.heard ELSE x = c
        BY <1>11
      <4>2. c = k
        BY <3>3, <3>7, <4>1 DEF Keys
      <4> QED
        BY <3>6, <4>1, <4>2
    <3>8. k.op # "create" => S!Script' = S!Script
      BY <1>7, <3>3, <3>5 DEF KeyInv
    <3>9. k.op = "delete" <=> detail'.confirm
      BY <1>5, <1>6, <3>3, <3>5 DEF KeyInv
    <3>10. (dialog' <=> dialog) /\ history' = history
      BY <1>1, <3>2
    <3>11. KeyInv(k)'
      BY <3>2, <3>3, <3>5, <3>8, <3>9, <3>10 DEF KeyInv
    <3> HIDE DEF ops
    <3> QED
      BY <1>12, <3>7, <3>11 DEF CallsInv, Keys
  <2> QED
    BY <2>1, <2>2
<1> QED
  BY <1>1, <1>3, <1>5, <1>8, <1>13, <1>14 DEF ScriptsInv

------------------------------------------------------------------------------
(* What the user does in the view of scripts.                                 *)

\* The tree is left alone, and nothing goes on in it.
AskingQuietly == Careful /\ PanelInv /\ ScriptsInv /\ UNCHANGED treeVars /\ NothingAsked /\ S!Viewing

LEMMA OneKey ==
  ASSUME AskingQuietly, \A a \in asked : a.op = "run"
  PROVE  Keys = {}
BY DEF Keys

\* With no dialog open there is none about a new script or a deletion under way.
LEMMA FreeKeys ==
  ASSUME ScriptsInv, S!Free, NEW a \in Keys
  PROVE  a.op \in {"save", "rename"} /\ a.heard
<1>1. KeyInv(a) /\ IsCall(a) /\ a.op # "run"
  BY DEF ScriptsInv, CallsInv, Keys
<1> QED
  BY <1>1 DEF KeyInv, S!Free, IsCall

LEMMA Abandoned ==
  ASSUME Careful, ScriptsInv, S!Abandons, S!Free \/ ~ S!Pending({"create"})
  PROVE  Keys = {}
<1>1. ASSUME NEW a \in Keys PROVE FALSE
  <2>1. a \in asked /\ KeyInv(a) /\ IsCall(a) /\ a.op # "run"
    BY DEF ScriptsInv, CallsInv, Keys
  <2>2. a.op = "create" /\ a.heard
    BY <2>1 DEF S!Abandons, IsCall, KeyInv
  <2> QED
    BY <2>1, <2>2, FreeKeys DEF S!Pending
<1> QED
  BY <1>1

\* A call that is asked for when there is none.
LEMMA Asking ==
  ASSUME AskingQuietly, Keys = {}, UNCHANGED <<files, selected, drafts, detail, dialog>>,
         NEW c, NEW ops, ops \subseteq {"save", "rename"}, S!Ask(c, ops),
         IsCall(c), c.op # "run", HistoryOf(history'), FilesOf(files, history'), DraftsOf(drafts, files, history'),
         SavesOf(files, asked \cup {c}, history'), KeyInv(c)'
  PROVE  ScriptsInv'
<1>1. \A a \in asked : a.op = "run" /\ IsCall(a)
  BY DEF Keys, AskingQuietly, ScriptsInv, CallsInv
<1>2. asked' = asked \cup {c}
  BY <1>1, AllHeard DEF S!Ask
<1>3. S!Shown' = S!Shown /\ S!Script' = S!Script
  BY SameShown DEF AskingQuietly
<1>4. PaneInv'
  BY <1>3 DEF PaneInv, AskingQuietly, ScriptsInv
<1>5. CallsInv'
  BY <1>1, <1>2, <1>3 DEF CallsInv, Keys, AskingQuietly, ScriptsInv
<1> QED
  BY <1>2, <1>4, <1>5 DEF ScriptsInv

\* Everything there is to know of the script in view.
LEMMA InView ==
  ASSUME AskingQuietly, S!Shown # None
  PROVE  /\ active \in Home /\ S!Shown \in DOMAIN files[active] /\ S!Script = files[active][S!Shown]
         /\ S!Script.id \in history.born
         /\ S!Shown \in DOMAIN drafts /\ S!Draft = drafts[S!Shown] /\ S!Draft.of = S!Script.id
         /\ \A c \in Home : \A p \in DOMAIN files[c] :
              p = S!Shown \/ files[c][p].id = S!Script.id => c = active /\ p = S!Shown
<1>1. active \in Home
  BY ActiveHome DEF active, AskingQuietly, PanelInv
<1>2. S!Shown \in DOMAIN files[active] /\ S!Shown \in DOMAIN drafts
  BY ShownThere DEF AskingQuietly, ScriptsInv, PaneInv
<1>3. \A c, d \in Home : \A p \in DOMAIN files[c], q \in DOMAIN files[d] :
        p = q \/ files[c][p].id = files[d][q].id => c = d /\ p = q
  BY DEF AskingQuietly, ScriptsInv, FilesOf
<1>4. PICK c \in Home : S!Shown \in DOMAIN files[c] /\ drafts[S!Shown].of = files[c][S!Shown].id
  BY <1>2 DEF AskingQuietly, ScriptsInv, DraftsOf
<1>5. c = active
  BY <1>1, <1>2, <1>3, <1>4
<1>6. files[active][S!Shown].id \in history.born
  BY <1>1, <1>2 DEF AskingQuietly, ScriptsInv, FilesOf
<1> QED
  BY <1>1, <1>2, <1>3, <1>4, <1>5, <1>6 DEF S!Script, S!Draft

LEMMA ScriptsSelect ==
  ASSUME AskingQuietly, NEW path \in Paths, S!Select(path)
  PROVE  ScriptsInv'
<1>1. Keys = {}
  BY Abandoned DEF AskingQuietly, S!Select
<1>2. /\ selected' = path /\ UNCHANGED <<files, dialog, history>> /\ S!Rendered(drafts, detail, asked)
      /\ path \in DOMAIN files[active] /\ path # selected /\ S!Free
  BY DEF S!Select
<1>3. active' = active /\ active \in Home
  BY StillShown, ActiveHome DEF AskingQuietly, PanelInv, active
<1>4. /\ DraftsOf(drafts', files', history')
      /\ S!Shown' # None => S!Shown' \in DOMAIN drafts'
      /\ PaneOf(detail')
      /\ S!Shown' # detail.path => detail'.path = S!Shown' /\ ~ detail'.confirm /\ detail'.output = None
      /\ S!Shown' = detail.path => detail' = detail
  BY <1>2, <1>3, Rendering DEF AskingQuietly, ScriptsInv, PaneInv
<1>5. S!Shown' # S!Shown \/ S!Shown = None
  BY <1>2 DEF S!Shown
<1>6. detail.path = S!Shown /\ (S!Shown = None => ~ detail.confirm /\ detail.output = None)
  BY DEF AskingQuietly, ScriptsInv, PaneInv
<1>7. PaneInv'
  BY <1>4, <1>5, <1>6 DEF PaneInv
<1> DEFINE ops == (IF S!Shown' = detail.path THEN {} ELSE S!OfDetail) \cup (IF S!Viewing' THEN {} ELSE {"create"})
<1>8. asked' = S!Unheard(asked, ops) /\ \A a \in asked : IsCall(a) /\ a.op = "run"
  BY <1>1, <1>2 DEF S!Rendered, Keys, AskingQuietly, ScriptsInv, CallsInv
<1>9. ASSUME NEW x \in asked' PROVE IsCall(x) /\ x.op = "run" /\ (x.heard => S!Shown' # None /\ x.of = S!Script.id')
  <2>1. PICK c \in asked : /\ IsCall(x) /\ x.op = c.op
                           /\ IF c.op \in ops THEN ~ x.heard ELSE x = c
    <3> HIDE DEF ops
    <3> QED
      BY <1>8, UnheardIs
  <2>2. x.op = "run"
    BY <1>8, <2>1
  <2>3. ASSUME x.heard PROVE FALSE
    <3>1. S!Shown' = detail.path /\ x = c
      BY <2>1, <2>2, <2>3 DEF S!OfDetail
    <3>2. S!Shown # None
      BY <2>2, <2>3, <3>1 DEF AskingQuietly, ScriptsInv, CallsInv
    <3> QED
      BY <1>5, <1>6, <3>1, <3>2
  <2> QED
    BY <2>1, <2>2, <2>3
<1>10. CallsInv'
  BY <1>9, Rests
<1>11. SavesOf(files', asked', history')
  BY <1>1, <1>2, NoKeysSave DEF AskingQuietly, ScriptsInv
<1> QED
  BY <1>2, <1>4, <1>7, <1>10, <1>11 DEF ScriptsInv, AskingQuietly

LEMMA ScriptsType ==
  ASSUME AskingQuietly, NEW words, S!Type(words)
  PROVE  ScriptsInv'
<1>1. /\ S!Free /\ S!Shown # None /\ UNCHANGED <<files, asked, selected, dialog, detail>>
      /\ drafts' = [drafts EXCEPT ![S!Shown] = [of |-> S!Script.id, text |-> words]]
      /\ history' = [history EXCEPT !.typed = S!Put(@, S!Script.id, words)]
  BY DEF S!Type
<1>2. S!Shown' = S!Shown /\ S!Script' = S!Script /\ active' = active
  BY <1>1, SameShown DEF AskingQuietly
<1>3. PICK sid : sid = S!Script.id
  OBVIOUS
<1>4. history' = [typed |-> S!Put(history.typed, sid, words), saved |-> history.saved, born |-> history.born]
  BY <1>1, <1>3 DEF AskingQuietly, ScriptsInv, HistoryOf
<1>5. /\ DOMAIN S!Put(history.typed, sid, words) = DOMAIN history.typed \cup {sid}
      /\ S!Put(history.typed, sid, words)[sid] = words
      /\ \A x \in DOMAIN history.typed : x # sid => S!Put(history.typed, sid, words)[x] = history.typed[x]
      /\ IsFunction(S!Put(history.typed, sid, words))
  BY DEF S!Put, IsFunction
<1>6. sid \in history.born /\ active \in Home /\ S!Shown \in DOMAIN files[active] /\ files[active][S!Shown].id = sid
      /\ S!Shown \in DOMAIN drafts
      /\ \A c \in Home : \A p \in DOMAIN files[c] :
           p = S!Shown \/ files[c][p].id = sid => c = active /\ p = S!Shown
  BY <1>1, <1>3, InView
<1> HIDE DEF S!Put
<1>7. HistoryOf(history')
  BY <1>4, <1>5, <1>6 DEF AskingQuietly, ScriptsInv, HistoryOf
<1>8. FilesOf(files', history')
  BY <1>1, <1>4 DEF AskingQuietly, ScriptsInv, FilesOf
<1>9. SavesOf(files', asked', history')
  BY <1>1, <1>4 DEF AskingQuietly, ScriptsInv, SavesOf
<1>10. PICK d : d = [of |-> sid, text |-> words] /\ drafts' = [drafts EXCEPT ![S!Shown] = d]
  BY <1>1, <1>3
<1>11. /\ DOMAIN drafts' = DOMAIN drafts /\ IsFunction(drafts') /\ drafts'[S!Shown] = d
       /\ \A p \in DOMAIN drafts : p # S!Shown => drafts'[p] = drafts[p]
  <2>1. IsFunction(drafts)
    BY DEF AskingQuietly, ScriptsInv, DraftsOf
  <2> QED
    BY <1>6, <1>10, <2>1 DEF IsFunction
<1>12. DraftsOf(drafts', files', history')
  <2>1. ASSUME NEW p \in DOMAIN drafts' PROVE \E c \in Home : p \in DOMAIN files[c] /\ drafts'[p].of = files[c][p].id
    <3>1. CASE p = S!Shown
      BY <1>6, <1>10, <1>11, <3>1
    <3>2. CASE p # S!Shown
      BY <1>11, <3>2 DEF AskingQuietly, ScriptsInv, DraftsOf
    <3> QED
      BY <3>1, <3>2
  <2>2. ASSUME NEW c \in Home, NEW p \in DOMAIN files[c], files[c][p].id \in DOMAIN history'.typed
        PROVE  p \in DOMAIN drafts' /\ drafts'[p].text = history'.typed[files[c][p].id]
    <3>1. CASE files[c][p].id = sid
      BY <1>4, <1>5, <1>6, <1>10, <1>11, <3>1
    <3>2. CASE files[c][p].id # sid
      <4>1. files[c][p].id \in DOMAIN history.typed /\ history'.typed[files[c][p].id] = history.typed[files[c][p].id]
        BY <1>4, <1>5, <2>2, <3>2
      <4>2. p \in DOMAIN drafts /\ drafts[p].text = history.typed[files[c][p].id]
        BY <4>1 DEF AskingQuietly, ScriptsInv, DraftsOf
      <4>3. p # S!Shown
        BY <1>6, <3>2
      <4> QED
        BY <1>11, <4>1, <4>2, <4>3
    <3> QED
      BY <3>1, <3>2
  <2> QED
    BY <1>1, <1>11, <2>1, <2>2 DEF DraftsOf
<1>13. PaneInv'
  BY <1>1, <1>2, <1>11 DEF PaneInv, AskingQuietly, ScriptsInv
<1>14. CallsInv'
  <2>1. ASSUME NEW a \in Keys PROVE KeyInv(a)'
    <3>1. KeyInv(a) /\ a.op \in {"save", "rename"}
      BY <1>1, FreeKeys DEF AskingQuietly, ScriptsInv, CallsInv
    <3>2. history'.saved = history.saved
      BY <1>4
    <3>3. NothingAsked' /\ view' = view /\ Astray' = Astray
      BY StillShown DEF AskingQuietly
    <3> QED
      BY <1>1, <1>2, <3>1, <3>2, <3>3 DEF KeyInv
  <2> QED
    BY <1>1, <1>2, <2>1 DEF CallsInv, Keys, AskingQuietly, ScriptsInv
<1> QED
  BY <1>7, <1>8, <1>9, <1>12, <1>13, <1>14 DEF ScriptsInv

LEMMA ScriptsSave ==
  ASSUME AskingQuietly, S!Save
  PROVE  ScriptsInv'
<1>1. PICK c : c = S!Call("save", S!Shown, S!Script.id, S!Draft.text) /\ S!Ask(c, {"save", "rename"})
  BY DEF S!Save
<1>2. /\ S!Free /\ S!Shown # None /\ ~ S!Pending({"save", "rename"})
      /\ UNCHANGED <<files, drafts, selected, dialog, detail>>
      /\ history' = [history EXCEPT !.saved = S!Put(@, S!Script.id, S!Draft.text)]
  BY DEF S!Save, S!CanSave
<1>3. Keys = {}
  <2>1. ASSUME NEW a \in Keys PROVE FALSE
    BY <1>2, FreeKeys DEF S!Pending, AskingQuietly, Keys
  <2> QED
    BY <2>1
<1>4. PICK sid, words : sid = S!Script.id /\ words = S!Draft.text
  OBVIOUS
<1>5. history' = [typed |-> history.typed, saved |-> S!Put(history.saved, sid, words), born |-> history.born]
  BY <1>2, <1>4 DEF AskingQuietly, ScriptsInv, HistoryOf
<1>6. /\ DOMAIN S!Put(history.saved, sid, words) = DOMAIN history.saved \cup {sid}
      /\ S!Put(history.saved, sid, words)[sid] = words
      /\ \A x \in DOMAIN history.saved : x # sid => S!Put(history.saved, sid, words)[x] = history.saved[x]
      /\ IsFunction(S!Put(history.saved, sid, words))
  BY DEF S!Put, IsFunction
<1> HIDE DEF S!Put
<1>7. /\ IsCall(c) /\ c.op = "save" /\ c.coll = active /\ c.path = S!Shown /\ c.of = sid /\ c.arg = words /\ c.heard
  BY <1>1, <1>4 DEF S!Call, IsCall
<1>8. sid \in history.born
  BY <1>2, <1>4, InView
<1>9. HistoryOf(history')
  BY <1>5, <1>6, <1>8 DEF AskingQuietly, ScriptsInv, HistoryOf
<1>10. FilesOf(files, history')
  BY <1>5 DEF AskingQuietly, ScriptsInv, FilesOf
<1>11. DraftsOf(drafts, files, history')
  BY <1>5 DEF AskingQuietly, ScriptsInv, DraftsOf
<1>12. SavesOf(files, asked \cup {c}, history')
  <2>1. ASSUME NEW e \in Home, NEW p \in DOMAIN files[e], files[e][p].id \in DOMAIN history'.saved
        PROVE  \/ files[e][p].text = history'.saved[files[e][p].id]
               \/ \E a \in asked \cup {c} : a.op = "save" /\ a.of = files[e][p].id
    <3>1. CASE files[e][p].id = sid
      BY <1>7, <3>1
    <3>2. CASE files[e][p].id # sid
      BY <1>5, <1>6, <2>1, <3>2 DEF AskingQuietly, ScriptsInv, SavesOf
    <3> QED
      BY <3>1, <3>2
  <2> QED
    BY <2>1 DEF SavesOf
<1>13. S!Shown' = S!Shown /\ S!Script' = S!Script /\ active' = active /\ NothingAsked' /\ view' = view /\ Astray' = Astray
  BY <1>2, SameShown, StillShown DEF AskingQuietly
<1>14. KeyInv(c)'
  <2>1. ~ detail.confirm /\ view = "scripts" /\ ~ Astray
    BY <1>2, ScriptsViewed DEF S!Free, AskingQuietly
  <2>2. c.of \in DOMAIN history'.saved /\ c.arg = history'.saved[c.of]
    BY <1>5, <1>6, <1>7
  <2> QED
    BY <1>2, <1>4, <1>7, <1>13, <2>1, <2>2 DEF KeyInv
<1> QED
  BY <1>1, <1>2, <1>3, <1>7, <1>9, <1>10, <1>11, <1>12, <1>14, Asking

\* A call that writes nothing down.
LEMMA AskingOnly ==
  ASSUME AskingQuietly, Keys = {}, UNCHANGED <<files, selected, drafts, detail, dialog, history>>,
         NEW c, NEW ops, ops \subseteq {"save", "rename"}, S!Ask(c, ops),
         IsCall(c), c.op # "run", KeyInv(c)'
  PROVE  ScriptsInv'
<1>1. SavesOf(files, asked \cup {c}, history)
  BY NoKeysSave DEF AskingQuietly, ScriptsInv
<1>2. HistoryOf(history') /\ FilesOf(files, history') /\ DraftsOf(drafts, files, history')
  BY DEF AskingQuietly, ScriptsInv
<1> QED
  BY <1>1, <1>2, Asking

\* Drafts are kept by path: a careful user takes none that another collection has.
LEMMA NotElsewhere ==
  ASSUME NEW path, path \notin S!Elsewhere, NEW c \in Home, c # active
  PROVE  path \notin DOMAIN files[c]
BY DEF S!Elsewhere, Home

LEMMA ScriptsRename ==
  ASSUME AskingQuietly, NEW path \in Paths, S!Rename(path)
  PROVE  ScriptsInv'
<1>1. PICK c : c = S!Call("rename", S!Shown, S!Script.id, path) /\ S!Ask(c, {"save", "rename"})
  BY DEF S!Rename
<1>2. /\ S!Free /\ S!Shown # None /\ S!Abandons /\ path \notin S!Elsewhere
      /\ UNCHANGED <<files, drafts, selected, dialog, detail, history>>
  BY DEF S!Rename, S!Commits, AskingQuietly
<1>3. Keys = {}
  BY <1>2, Abandoned DEF AskingQuietly
<1>4. /\ IsCall(c) /\ c.op = "rename" /\ c.coll = active /\ c.path = S!Shown /\ c.of = S!Script.id /\ c.arg = path /\ c.heard
  BY <1>1 DEF S!Call, IsCall
<1>5. S!Shown' = S!Shown /\ S!Script' = S!Script /\ active' = active /\ NothingAsked' /\ view' = view /\ Astray' = Astray
  BY <1>2, SameShown, StillShown DEF AskingQuietly
<1>6. KeyInv(c)'
  <2>1. ~ detail.confirm /\ view = "scripts" /\ ~ Astray
    BY <1>2, ScriptsViewed DEF S!Free, AskingQuietly
  <2>2. path # None /\ \A d \in Home : d # active => path \notin DOMAIN files[d]
    BY <1>2, NotElsewhere, ConstantsAssumption
  <2> QED
    BY <1>2, <1>4, <1>5, <2>1, <2>2 DEF KeyInv
<1> QED
  BY <1>1, <1>2, <1>3, <1>4, <1>6, AskingOnly

LEMMA ScriptsDelete ==
  ASSUME AskingQuietly, S!Delete
  PROVE  ScriptsInv'
<1>1. PICK c : c = S!Call("delete", S!Shown, S!Script.id, None) /\ S!Ask(c, {})
  BY DEF S!Delete
<1>2. /\ detail.confirm /\ ~ S!Pending({"delete"})
      /\ UNCHANGED <<files, drafts, selected, dialog, detail, history>>
  BY DEF S!Delete
<1>3. Keys = {}
  <2>1. ASSUME NEW a \in Keys PROVE FALSE
    BY <1>2 DEF S!Pending, AskingQuietly, ScriptsInv, CallsInv, KeyInv, Keys
  <2> QED
    BY <2>1
<1>4. /\ IsCall(c) /\ c.op = "delete" /\ c.coll = active /\ c.path = S!Shown /\ c.of = S!Script.id /\ c.heard
  BY <1>1 DEF S!Call, IsCall
<1>5. S!Shown' = S!Shown /\ S!Script' = S!Script /\ active' = active /\ NothingAsked' /\ view' = view /\ Astray' = Astray
  BY <1>2, SameShown, StillShown DEF AskingQuietly
<1>6. KeyInv(c)'
  <2>1. S!Shown # None /\ view = "scripts" /\ ~ Astray
    BY <1>2, ScriptsViewed DEF AskingQuietly, ScriptsInv, PaneInv
  <2> QED
    BY <1>2, <1>4, <1>5, <2>1 DEF KeyInv
<1> QED
  BY <1>1, <1>2, <1>3, <1>4, <1>6, AskingOnly

LEMMA ScriptsCreate ==
  ASSUME AskingQuietly, NEW path \in Paths, S!Create(path)
  PROVE  ScriptsInv'
<1>1. /\ dialog /\ ~ S!Pending({"create"}) /\ S!Abandons /\ path \notin S!Elsewhere
      /\ UNCHANGED <<files, drafts, selected, dialog, detail>>
  BY DEF S!Create, AskingQuietly
<1>2. PICK s \in Scripts \ history.born : /\ S!Ask(S!Call("create", path, s, path), {})
                                          /\ history' = [history EXCEPT !.born = @ \cup {s}]
  BY DEF S!Create
<1>3. PICK c : c = S!Call("create", path, s, path) /\ S!Ask(c, {})
  BY <1>2
<1>4. Keys = {}
  BY <1>1, Abandoned DEF AskingQuietly
<1>5. /\ IsCall(c) /\ c.op = "create" /\ c.coll = active /\ c.path = path /\ c.of = s /\ c.heard
  BY <1>3 DEF S!Call, IsCall
<1>6. history' = [typed |-> history.typed, saved |-> history.saved, born |-> history.born \cup {s}]
  BY <1>2 DEF AskingQuietly, ScriptsInv, HistoryOf
<1>7. HistoryOf(history')
  BY <1>6 DEF AskingQuietly, ScriptsInv, HistoryOf
<1>8. FilesOf(files, history')
  BY <1>6 DEF AskingQuietly, ScriptsInv, FilesOf
<1>9. DraftsOf(drafts, files, history')
  BY <1>6 DEF AskingQuietly, ScriptsInv, DraftsOf
<1>10. SavesOf(files, asked \cup {c}, history')
  <2>1. SavesOf(files, asked \cup {c}, history)
    BY <1>4, NoKeysSave DEF AskingQuietly, ScriptsInv
  <2> QED
    BY <1>6, <2>1 DEF SavesOf
<1>11. S!Shown' = S!Shown /\ S!Script' = S!Script /\ active' = active /\ NothingAsked' /\ view' = view /\ Astray' = Astray
  BY <1>1, SameShown, StillShown DEF AskingQuietly
<1>12. KeyInv(c)'
  <2>1. ~ detail.confirm /\ view = "scripts" /\ ~ Astray
    BY <1>1, ScriptsViewed DEF AskingQuietly, ScriptsInv, PaneInv
  <2>2. path # None /\ \A d \in Home : d # active => path \notin DOMAIN files[d]
    BY <1>1, NotElsewhere, ConstantsAssumption
  <2>3. \A d \in Home : \A p \in DOMAIN files[d] : files[d][p].id # s
    BY DEF AskingQuietly, ScriptsInv, FilesOf
  <2>4. s \notin DOMAIN history.typed /\ s \notin DOMAIN history.saved
    BY DEF AskingQuietly, ScriptsInv, HistoryOf
  <2> QED
    BY <1>1, <1>5, <1>6, <1>11, <2>1, <2>2, <2>3, <2>4 DEF KeyInv
<1> QED
  BY <1>1, <1>3, <1>4, <1>5, <1>7, <1>8, <1>9, <1>10, <1>12, Asking

LEMMA ScriptsTestRun ==
  ASSUME AskingQuietly, S!TestRun
  PROVE  ScriptsInv'
<1>1. PICK c : c = S!Call("run", S!Shown, S!Draft.of, S!Draft.text) /\ S!Ask(c, {})
  BY DEF S!TestRun
<1>2. S!Shown # None /\ UNCHANGED <<files, drafts, selected, dialog, detail, history>>
  BY DEF S!TestRun
<1>3. asked' = asked \cup {c}
  BY <1>1, AllHeard DEF S!Ask
<1>4. IsCall(c) /\ c.op = "run" /\ c.of = S!Script.id
  BY <1>1, <1>2, InView DEF S!Call, IsCall
<1>5. S!Shown' = S!Shown /\ S!Script' = S!Script /\ active' = active /\ NothingAsked' /\ view' = view /\ Astray' = Astray
  BY <1>2, SameShown, StillShown DEF AskingQuietly
<1>6. PaneInv'
  BY <1>2, <1>5 DEF PaneInv, AskingQuietly, ScriptsInv
<1>7. \A a \in Keys : KeyInv(a)'
  BY <1>2, <1>5 DEF AskingQuietly, ScriptsInv, CallsInv, KeyInv
<1>8. CallsInv'
  BY <1>2, <1>3, <1>4, <1>5, <1>7 DEF CallsInv, Keys, AskingQuietly, ScriptsInv
<1>9. SavesOf(files', asked', history')
  BY <1>2, <1>3 DEF SavesOf, AskingQuietly, ScriptsInv
<1> QED
  BY <1>2, <1>6, <1>8, <1>9 DEF ScriptsInv, AskingQuietly

\* The dialogs open when nothing else does, and close when nothing waits for them.
LEMMA ScriptsDialogs ==
  ASSUME AskingQuietly, S!Opens \/ S!Cancels
  PROVE  ScriptsInv'
<1>1. UNCHANGED <<files, asked, drafts, selected, history>>
  BY DEF S!Opens, S!Cancels
<1>2. S!Shown' = S!Shown /\ S!Script' = S!Script /\ active' = active /\ NothingAsked' /\ view' = view /\ Astray' = Astray
  BY <1>1, SameShown, StillShown DEF AskingQuietly
<1>3. detail = [path |-> detail.path, confirm |-> detail.confirm, output |-> detail.output]
  BY DEF AskingQuietly, ScriptsInv, PaneInv, PaneOf
<1>4. CASE S!Opens /\ dialog' = TRUE /\ UNCHANGED detail
  <2>1. S!Free
    BY <1>4 DEF S!Opens
  <2>2. PaneInv'
    BY <1>1, <1>2, <1>4, <2>1 DEF PaneInv, S!Free, AskingQuietly, ScriptsInv
  <2>3. ASSUME NEW a \in Keys PROVE KeyInv(a)'
    <3>1. KeyInv(a)
      BY DEF AskingQuietly, ScriptsInv, CallsInv
    <3> QED
      BY <1>1, <1>2, <1>4, <3>1 DEF KeyInv
  <2>4. CallsInv'
    BY <1>1, <1>2, <2>3 DEF CallsInv, Keys, AskingQuietly, ScriptsInv
  <2> QED
    BY <1>1, <2>2, <2>4 DEF AskingQuietly, ScriptsInv
<1>5. CASE S!Opens /\ S!Shown # None /\ S!Abandons /\ detail' = [detail EXCEPT !.confirm = TRUE] /\ UNCHANGED dialog
  <2>1. S!Free /\ Keys = {}
    BY <1>5, Abandoned DEF S!Opens, AskingQuietly
  <2>2. detail' = [path |-> detail.path, confirm |-> TRUE, output |-> detail.output]
    BY <1>3, <1>5
  <2>3. PaneInv'
    BY <1>1, <1>2, <1>5, <2>1, <2>2 DEF PaneInv, PaneOf, S!Free, AskingQuietly, ScriptsInv
  <2>4. CallsInv'
    BY <1>1, <1>2, <2>1 DEF CallsInv, Keys, AskingQuietly, ScriptsInv
  <2> QED
    BY <1>1, <2>3, <2>4 DEF AskingQuietly, ScriptsInv
<1>6. CASE S!Cancels
  <2>1. dialog' = FALSE /\ detail' = [detail EXCEPT !.confirm = FALSE] /\ ~ S!Pending({"delete", "create"})
    BY <1>6 DEF S!Cancels, AskingQuietly
  <2>2. detail' = [path |-> detail.path, confirm |-> FALSE, output |-> detail.output]
    BY <1>3, <2>1
  <2>3. PaneInv'
    BY <1>1, <1>2, <2>1, <2>2 DEF PaneInv, PaneOf, AskingQuietly, ScriptsInv
  <2>4. ASSUME NEW a \in Keys PROVE KeyInv(a)'
    <3>1. KeyInv(a) /\ a \in asked
      BY DEF AskingQuietly, ScriptsInv, CallsInv, Keys
    <3>2. a.op # "create" /\ a.op # "delete"
      BY <2>1, <3>1 DEF S!Pending, KeyInv
    <3> QED
      BY <1>1, <1>2, <2>2, <3>1, <3>2 DEF KeyInv
  <2>5. CallsInv'
    BY <1>1, <1>2, <2>4 DEF CallsInv, Keys, AskingQuietly, ScriptsInv
  <2> QED
    BY <1>1, <2>3, <2>5 DEF AskingQuietly, ScriptsInv
<1> QED
  BY <1>4, <1>5, <1>6 DEF S!Opens

LEMMA ScriptsUser ==
  ASSUME AskingQuietly, S!User
  PROVE  ScriptsInv'
BY ScriptsSelect, ScriptsType, ScriptsSave, ScriptsRename, ScriptsDelete, ScriptsCreate, ScriptsTestRun, ScriptsDialogs
DEF S!User

------------------------------------------------------------------------------
(* What the answers do.                                                       *)

\* Another directory in place of a collection's.
Fitting(dir, fs, c, h) ==
  /\ IsFunction(dir)
  /\ \A p \in DOMAIN dir : IsFile(dir[p]) /\ p # None /\ dir[p].id \in h.born
  /\ \A p, q \in DOMAIN dir : dir[p].id = dir[q].id => p = q
  /\ \A d \in Home : d # c => \A q \in DOMAIN fs[d], p \in DOMAIN dir : p # q /\ dir[p].id # fs[d][q].id

Instead(gs, fs, c, dir) ==
  DOMAIN gs = Home /\ IsFunction(gs) /\ gs[c] = dir /\ \A d \in Home : d # c => gs[d] = fs[d]

LEMMA Replaced ==
  ASSUME NEW fs, NEW h, FilesOf(fs, h), NEW c \in Home, NEW dir, Fitting(dir, fs, c, h), NEW gs, Instead(gs, fs, c, dir)
  PROVE  FilesOf(gs, h)
<1>0. /\ IsFunction(dir)
      /\ \A p \in DOMAIN dir : IsFile(dir[p]) /\ p # None /\ dir[p].id \in h.born
      /\ \A p, q \in DOMAIN dir : dir[p].id = dir[q].id => p = q
      /\ \A d \in Home : d # c => \A q \in DOMAIN fs[d], p \in DOMAIN dir : p # q /\ dir[p].id # fs[d][q].id
  BY DEF Fitting
<1>1. DOMAIN gs = Home /\ IsFunction(gs) /\ gs[c] = dir /\ (\A d \in Home : d # c => gs[d] = fs[d])
  BY DEF Instead
<1>2. ASSUME NEW d \in Home PROVE IsFunction(gs[d]) /\ \A p \in DOMAIN gs[d] : IsFile(gs[d][p]) /\ p # None /\ gs[d][p].id \in h.born
  BY <1>0, <1>1 DEF FilesOf
<1>3. ASSUME NEW d \in Home, NEW e \in Home, NEW p \in DOMAIN gs[d], NEW q \in DOMAIN gs[e],
             p = q \/ gs[d][p].id = gs[e][q].id
      PROVE  d = e /\ p = q
  <2>1. CASE d = c /\ e = c
    BY <1>0, <1>1, <1>3, <2>1
  <2>2. CASE d # c /\ e # c
    BY <1>1, <1>3, <2>2 DEF FilesOf
  <2>3. CASE d # c /\ e = c
    BY <1>0, <1>1, <1>3, <2>3
  <2>4. CASE d = c /\ e # c
    BY <1>0, <1>1, <1>3, <2>4
  <2> QED
    BY <2>1, <2>2, <2>3, <2>4
<1> QED
  BY <1>1, <1>2, <1>3 DEF FilesOf

\* The answer to what is no test run: none but test runs are left.
LEMMA Answered ==
  ASSUME PanelInv, ScriptsInv, UNCHANGED treeVars, history' = history, NEW c \in Keys, NEW ds, NEW pane,
         S!Rendered(ds, pane, asked \ {c}),
         FilesOf(files', history), DraftsOf(ds, files', history), SavesOf(files', {}, history),
         PaneOf(pane), pane.path = detail.path, pane.output = detail.output, pane.confirm => detail.confirm,
         dialog' => dialog,
         S!Shown' = S!Shown /\ S!Shown # None => S!Script.id' = S!Script.id
  PROVE  ScriptsInv'
<1>1. active' \in Home
  BY StillShown, ActiveHome DEF PanelInv, active
<1>2. /\ DraftsOf(drafts', files', history')
      /\ S!Shown' # None => S!Shown' \in DOMAIN drafts'
      /\ PaneOf(detail')
      /\ S!Shown' # detail.path => detail'.path = S!Shown' /\ ~ detail'.confirm /\ detail'.output = None
      /\ S!Shown' = detail.path => detail' = pane
  BY <1>1, Rendering
<1>3. /\ detail.path = S!Shown
      /\ detail.output # None => S!Shown # None /\ detail.output = S!Script.id
      /\ detail.confirm => S!Shown # None /\ ~ dialog
  BY DEF ScriptsInv, PaneInv
<1>4. PaneInv'
  <2>1. CASE S!Shown' = S!Shown
    BY <1>2, <1>3, <2>1 DEF PaneInv
  <2>2. CASE S!Shown' # S!Shown
    BY <1>2, <1>3, <2>2 DEF PaneInv
  <2> QED
    BY <2>1, <2>2
<1> DEFINE ops == (IF S!Shown' = detail.path THEN {} ELSE S!OfDetail) \cup (IF S!Viewing' THEN {} ELSE {"create"})
<1>5. asked' = S!Unheard(asked \ {c}, ops)
  BY DEF S!Rendered
<1>6. \A a \in asked \ {c} : IsCall(a) /\ a.op = "run" /\ (a.heard => S!Shown # None /\ a.of = S!Script.id)
  BY DEF ScriptsInv, CallsInv, Keys
<1>7. ASSUME NEW x \in asked' PROVE IsCall(x) /\ x.op = "run" /\ (x.heard => S!Shown' # None /\ x.of = S!Script.id')
  <2>1. PICK a \in asked \ {c} : /\ IsCall(x) /\ x.op = a.op
                                 /\ IF a.op \in ops THEN ~ x.heard ELSE x = a
    <3> HIDE DEF ops
    <3> QED
      BY <1>5, <1>6, UnheardIs
  <2>2. a.op = "run"
    BY <1>6
  <2>3. ASSUME x.heard PROVE S!Shown' = S!Shown /\ x = a
    BY <1>3, <2>1, <2>2, <2>3 DEF S!OfDetail
  <2> QED
    BY <1>6, <2>1, <2>2, <2>3
<1>8. CallsInv'
  BY <1>7, Rests
<1>9. SavesOf(files', asked', history')
  BY DEF SavesOf
<1> QED
  BY <1>2, <1>4, <1>8, <1>9 DEF ScriptsInv

LEMMA AnswersRun ==
  ASSUME PanelInv, ScriptsInv, UNCHANGED treeVars, NEW c \in asked, S!Answer(c), c.op = "run"
  PROVE  ScriptsInv'
<1>1. IsCall(c) /\ (c.heard => S!Shown # None /\ c.of = S!Script.id)
  BY DEF ScriptsInv, CallsInv
<1>2. files' = files
  <2>1. S!Accepts(c) => S!Effect(c) = files[c.coll] /\ c.coll \in Home
    BY DEF S!Effect, S!Accepts, PanelInv
  <2> QED
    BY <2>1 DEF S!Answer, ScriptsInv, FilesOf, IsFunction
<1>3. selected' = selected /\ history' = history /\ (dialog' <=> dialog)
  BY DEF S!Answer, S!SelectedAfter
<1>4. PICK pane : /\ pane = detail \/ (c.heard /\ pane = [detail EXCEPT !.output = c.of])
                  /\ S!Rendered(drafts, pane, asked \ {c})
  BY DEF S!Answer, S!DraftsAfter, S!PaneAfter
<1>5. S!Shown' = S!Shown /\ S!Script' = S!Script /\ active' = active /\ (S!Viewing <=> S!Viewing')
      /\ NothingAsked' = NothingAsked /\ view' = view /\ Astray' = Astray
  BY <1>2, <1>3, SameShown, StillShown
<1>6. detail = [path |-> detail.path, confirm |-> detail.confirm, output |-> detail.output] /\ detail.path = S!Shown
  BY DEF ScriptsInv, PaneInv, PaneOf
<1>7. PaneOf(pane) /\ pane.path = S!Shown /\ pane.confirm = detail.confirm /\ pane.output \in {detail.output, c.of}
      /\ (pane.output # detail.output => c.heard /\ pane.output = c.of)
  BY <1>4, <1>6 DEF PaneOf
<1>8. FilesOf(files', history') /\ DraftsOf(drafts, files', history')
  BY <1>2, <1>3 DEF ScriptsInv
<1>9. active' \in Home
  BY StillShown, ActiveHome DEF PanelInv, active
<1>10. DraftsOf(drafts', files', history') /\ (S!Shown' # None => S!Shown' \in DOMAIN drafts') /\ detail' = pane
  BY <1>4, <1>5, <1>6, <1>7, <1>8, <1>9, Rendering
<1>11. PaneInv'
  BY <1>1, <1>3, <1>5, <1>7, <1>10 DEF PaneInv, ScriptsInv
<1>12. asked' = asked \ {c}
  <2>1. \A a \in asked : a.op = "create" => S!Viewing'
    <3>1. ASSUME NEW a \in asked, a.op = "create" PROVE S!Viewing'
      <4>1. KeyInv(a)
        BY <3>1 DEF ScriptsInv, CallsInv, Keys
      <4> QED
        BY <1>5, <4>1 DEF KeyInv, S!Viewing, Current
    <3> QED
      BY <3>1
  <2> DEFINE ops == (IF S!Shown' = detail.path THEN {} ELSE S!OfDetail) \cup (IF S!Viewing' THEN {} ELSE {"create"})
  <2>2. asked' = S!Unheard(asked \ {c}, ops)
    BY <1>4 DEF S!Rendered
  <2>3. \A a \in asked \ {c} : a.op \notin ops
    BY <1>5, <1>6, <2>1
  <2> HIDE DEF ops
  <2> QED
    BY <2>2, <2>3, AllHeard
<1>13. \A a \in Keys : KeyInv(a)'
  BY <1>2, <1>3, <1>5, <1>7, <1>10 DEF ScriptsInv, CallsInv, KeyInv
<1>14. CallsInv'
  BY <1>5, <1>12, <1>13 DEF CallsInv, Keys, ScriptsInv
<1>15. SavesOf(files', asked', history')
  BY <1>2, <1>3, <1>12 DEF SavesOf, ScriptsInv
<1> QED
  BY <1>3, <1>8, <1>10, <1>11, <1>14, <1>15 DEF ScriptsInv

\* What is known of an answer to anything but a test run.
LEMMA KeyFacts ==
  ASSUME PanelInv, ScriptsInv, NEW c \in Keys
  PROVE  /\ KeyInv(c) /\ IsCall(c) /\ c.op \in {"create", "save", "rename", "delete"}
         /\ c.coll = active /\ active \in served /\ active \in Home /\ IsFunction(files[active]) /\ DOMAIN files = Home
         /\ c.op # "create" => /\ c.path \in DOMAIN files[active] /\ c.of = files[active][c.path].id
                               /\ c.path = selected /\ c.path \in DOMAIN drafts
         /\ \A x \in Home : \A p \in DOMAIN files[x] :
              files[x][p].id \in DOMAIN history.saved =>
                \/ files[x][p].text = history.saved[files[x][p].id]
                \/ c.op = "save" /\ c.of = files[x][p].id
<1>1. KeyInv(c) /\ IsCall(c) /\ c.op \in {"create", "save", "rename", "delete"}
  BY DEF ScriptsInv, CallsInv, Keys, IsCall
<1>2. c.coll = active /\ active \in served /\ active \in Home
  BY <1>1, ActiveServed DEF KeyInv, NothingAsked, PanelInv
<1>3. IsFunction(files[active]) /\ DOMAIN files = Home
  BY <1>2 DEF ScriptsInv, FilesOf
<1>4. c.op # "create" => /\ c.path \in DOMAIN files[active] /\ c.of = files[active][c.path].id
                         /\ c.path = selected /\ c.path \in DOMAIN drafts
  BY <1>1, ShownThere DEF KeyInv, ScriptsInv, PaneInv, S!Script
<1>5. ASSUME NEW a \in asked, a.op = "save" PROVE a = c
  BY <1>5 DEF ScriptsInv, CallsInv, Keys
<1>6. \A x \in Home : \A p \in DOMAIN files[x] :
              files[x][p].id \in DOMAIN history.saved =>
                \/ files[x][p].text = history.saved[files[x][p].id]
                \/ c.op = "save" /\ c.of = files[x][p].id
  BY <1>5 DEF ScriptsInv, SavesOf
<1> QED
  BY <1>1, <1>2, <1>3, <1>4, <1>6

\* With another file at most where the call was about, of which nothing was saved.
LEMMA SavesElse ==
  ASSUME ScriptsInv, PanelInv, NEW c \in Keys, c.op # "save", NEW fs,
         \A x \in Home : \A p \in DOMAIN fs[x] :
            \/ fs[x][p].id \notin DOMAIN history.saved
            \/ \E q \in DOMAIN files[x] : fs[x][p] = files[x][q]
  PROVE  SavesOf(fs, {}, history)
BY KeyFacts DEF SavesOf

LEMMA AnswersRefused ==
  ASSUME PanelInv, ScriptsInv, UNCHANGED treeVars, NEW c \in Keys, S!Answer(c), ~ S!Accepts(c)
  PROVE  ScriptsInv'
<1>1. /\ UNCHANGED <<files, selected, history>> /\ (dialog' => dialog)
      /\ S!Rendered(drafts, detail, asked \ {c})
  BY DEF S!Answer
<1>2. c.op # "save"
  BY KeyFacts DEF S!Accepts, S!There
<1>3. SavesOf(files', {}, history)
  <2>1. \A x \in Home : \A p \in DOMAIN files[x] : \E q \in DOMAIN files[x] : files[x][p] = files[x][q]
    OBVIOUS
  <2> QED
    BY <1>1, <1>2, <2>1, SavesElse
<1>4. S!Script' = S!Script
  BY <1>1, SameShown
<1>5. FilesOf(files', history) /\ DraftsOf(drafts, files', history) /\ PaneOf(detail)
  BY <1>1 DEF ScriptsInv, PaneInv
<1> QED
  BY <1>1, <1>3, <1>4, <1>5, Answered

\* What an answer that is accepted does.
LEMMA Accepted ==
  ASSUME PanelInv, ScriptsInv, NEW c \in Keys, S!Answer(c), S!Accepts(c)
  PROVE  /\ Instead(files', files, active, S!Effect(c)) /\ selected' = S!SelectedAfter(c)
         /\ dialog' => dialog
         /\ S!Rendered(S!DraftsAfter(c), S!PaneAfter(c), asked \ {c}) /\ history' = history
<1>1. files' = [files EXCEPT ![active] = S!Effect(c)] /\ DOMAIN files = Home /\ active \in Home
  BY KeyFacts DEF S!Answer
<1> DEFINE dir == S!Effect(c)
<1>2. Instead(files', files, active, dir)
  <2> HIDE DEF dir
  <2> QED
    BY <1>1 DEF Instead, IsFunction, dir
<1> QED
  BY <1>2, KeyFacts DEF S!Answer, KeyInv

LEMMA AnswersCreate ==
  ASSUME PanelInv, ScriptsInv, UNCHANGED treeVars, NEW c \in Keys, S!Answer(c), S!Accepts(c), c.op = "create"
  PROVE  ScriptsInv'
<1>1. /\ KeyInv(c) /\ c.coll = active /\ active \in Home /\ IsFunction(files[active])
  BY KeyFacts
<1>2. c.path \notin DOMAIN files[active]
  BY <1>1 DEF S!Accepts, S!There
<1> DEFINE dir == S!Effect(c)
<1>3. dir = S!Put(files[active], c.path, [id |-> c.of, text |-> Empty])
  BY <1>1 DEF S!Effect
<1>4. PICK file : file = [id |-> c.of, text |-> Empty]
  OBVIOUS
<1>5. /\ DOMAIN dir = DOMAIN files[active] \cup {c.path} /\ dir[c.path] = file /\ IsFunction(dir)
      /\ \A p \in DOMAIN files[active] : dir[p] = files[active][p]
  BY <1>2, <1>3, <1>4 DEF S!Put, IsFunction
<1>6. /\ Instead(files', files, active, dir) /\ (dialog' => dialog) /\ history' = history
      /\ S!Rendered(drafts, detail, asked \ {c}) /\ selected' = c.path
  BY Accepted DEF S!DraftsAfter, S!PaneAfter, S!SelectedAfter
<1> HIDE DEF dir
<1>7. file.id = c.of /\ IsFile(file) /\ c.of \in history.born /\ c.of \notin DOMAIN history.typed \cup DOMAIN history.saved /\ c.path # None
      /\ \A x \in Home : \A p \in DOMAIN files[x] : files[x][p].id # c.of /\ p # c.path
  BY <1>1, <1>2, <1>4 DEF KeyInv, IsFile
<1>8. /\ FilesOf(files', history) /\ files'[active] = dir /\ \A d \in Home : d # active => files'[d] = files[d]
  <2>1. \A p \in DOMAIN dir : IsFile(dir[p]) /\ p # None /\ dir[p].id \in history.born
    BY <1>1, <1>5, <1>7 DEF ScriptsInv, FilesOf
  <2>2. \A p, q \in DOMAIN dir : dir[p].id = dir[q].id => p = q
    BY <1>1, <1>5, <1>7 DEF ScriptsInv, FilesOf
  <2>3. \A d \in Home : d # active => \A q \in DOMAIN files[d], p \in DOMAIN dir : p # q /\ dir[p].id # files[d][q].id
    BY <1>1, <1>5, <1>7 DEF ScriptsInv, FilesOf
  <2> QED
    <3>1. FilesOf(files, history) /\ active \in Home /\ Instead(files', files, active, dir)
      BY <1>1, <1>6 DEF ScriptsInv
    <3>2. Fitting(dir, files, active, history)
      BY <1>5, <2>1, <2>2, <2>3 DEF Fitting
    <3> QED
      BY <3>1, <3>2, Replaced DEF Instead
<1>9. \A x \in Home : \A p \in DOMAIN files[x] : p \in DOMAIN files'[x] /\ files'[x][p] = files[x][p]
  BY <1>5, <1>8
<1>10. \A x \in Home : \A p \in DOMAIN files'[x] :
         (p \in DOMAIN files[x] /\ files'[x][p] = files[x][p]) \/ files'[x][p].id = c.of
  BY <1>5, <1>7, <1>8
<1>11. DraftsOf(drafts, files', history)
  <2>1. \A p \in DOMAIN drafts : \E x \in Home : p \in DOMAIN files'[x] /\ drafts[p].of = files'[x][p].id
    BY <1>9 DEF ScriptsInv, DraftsOf
  <2>2. \A x \in Home : \A p \in DOMAIN files'[x] :
          files'[x][p].id \in DOMAIN history.typed => p \in DOMAIN drafts /\ drafts[p].text = history.typed[files'[x][p].id]
    BY <1>7, <1>10 DEF ScriptsInv, DraftsOf
  <2> QED
    BY <2>1, <2>2 DEF ScriptsInv, DraftsOf
<1>12. SavesOf(files', {}, history)
  BY <1>7, <1>10, SavesElse
<1>13. S!Shown' = S!Shown /\ S!Shown # None => S!Script.id' = S!Script.id
  <2>1. S!Shown # None => S!Shown \in DOMAIN files[active]
    BY ShownThere
  <2>2. active' = active
    BY StillShown
  <2> QED
    BY <1>1, <1>9, <2>1, <2>2 DEF S!Script
<1> QED
  BY <1>6, <1>8, <1>11, <1>12, <1>13, Answered DEF ScriptsInv, PaneInv

LEMMA AnswersSave ==
  ASSUME PanelInv, ScriptsInv, UNCHANGED treeVars, NEW c \in Keys, S!Answer(c), S!Accepts(c), c.op = "save"
  PROVE  ScriptsInv'
<1>1. /\ KeyInv(c) /\ c.coll = active /\ active \in Home /\ IsFunction(files[active])
      /\ c.path \in DOMAIN files[active] /\ c.of = files[active][c.path].id
  BY KeyFacts
<1> DEFINE dir == S!Effect(c)
<1>2. dir = [files[active] EXCEPT ![c.path].text = c.arg]
  BY <1>1 DEF S!Effect
<1>3. PICK file : file = [files[active][c.path] EXCEPT !.text = c.arg]
  OBVIOUS
<1>4. file = [id |-> c.of, text |-> c.arg]
  <2>1. IsFile(files[active][c.path])
    BY <1>1 DEF ScriptsInv, FilesOf
  <2> QED
    BY <1>1, <1>3, <2>1 DEF IsFile
<1>5. /\ DOMAIN dir = DOMAIN files[active] /\ dir[c.path] = file /\ IsFunction(dir)
      /\ \A p \in DOMAIN files[active] : p # c.path => dir[p] = files[active][p]
  <2>1. dir = [files[active] EXCEPT ![c.path] = file]
    BY <1>2, <1>3
  <2> HIDE DEF dir
  <2> QED
    BY <1>1, <2>1 DEF IsFunction
<1>6. /\ Instead(files', files, active, dir) /\ (dialog' => dialog) /\ history' = history
      /\ S!Rendered(drafts, detail, asked \ {c}) /\ selected' = selected
  BY Accepted DEF S!DraftsAfter, S!PaneAfter, S!SelectedAfter
<1> HIDE DEF dir
<1>7. file.id = c.of /\ file.text = history.saved[c.of] /\ IsFile(file) /\ c.path # None
  BY <1>1, <1>4 DEF KeyInv, IsFile
<1>8. \A p \in DOMAIN files[active] : dir[p].id = files[active][p].id
  BY <1>1, <1>5, <1>7
<1>9. FilesOf(files', history) /\ files'[active] = dir /\ \A d \in Home : d # active => files'[d] = files[d]
  <2>1. \A p \in DOMAIN dir : IsFile(dir[p]) /\ p # None /\ dir[p].id \in history.born
    BY <1>1, <1>5, <1>7, <1>8 DEF ScriptsInv, FilesOf
  <2>2. \A p, q \in DOMAIN dir : dir[p].id = dir[q].id => p = q
    BY <1>1, <1>5, <1>8 DEF ScriptsInv, FilesOf
  <2>3. \A d \in Home : d # active => \A q \in DOMAIN files[d], p \in DOMAIN dir : p # q /\ dir[p].id # files[d][q].id
    BY <1>1, <1>5, <1>8 DEF ScriptsInv, FilesOf
  <2> QED
    <3>1. FilesOf(files, history) /\ active \in Home /\ Instead(files', files, active, dir)
      BY <1>1, <1>6 DEF ScriptsInv
    <3>2. Fitting(dir, files, active, history)
      BY <1>5, <2>1, <2>2, <2>3 DEF Fitting
    <3> QED
      BY <3>1, <3>2, Replaced DEF Instead
<1>10. \A x \in Home : DOMAIN files'[x] = DOMAIN files[x] /\ \A p \in DOMAIN files[x] : files'[x][p].id = files[x][p].id
  BY <1>5, <1>8, <1>9
<1>11. DraftsOf(drafts, files', history)
  BY <1>10 DEF ScriptsInv, DraftsOf
<1>12. SavesOf(files', {}, history)
  <2>1. ASSUME NEW x \in Home, NEW p \in DOMAIN files'[x], files'[x][p].id \in DOMAIN history.saved
        PROVE  files'[x][p].text = history.saved[files'[x][p].id]
    <3>1. CASE x = active /\ p = c.path
      BY <1>5, <1>7, <1>9, <3>1
    <3>2. CASE ~ (x = active /\ p = c.path)
      <4>1. p \in DOMAIN files[x] /\ files'[x][p] = files[x][p]
        BY <1>5, <1>9, <1>10, <3>2
      <4>2. files[x][p].id # c.of
        BY <1>1, <3>2, <4>1 DEF ScriptsInv, FilesOf
      <4> QED
        BY <2>1, <4>1, <4>2, KeyFacts
    <3> QED
      BY <3>1, <3>2
  <2> QED
    BY <2>1 DEF SavesOf
<1>13. S!Shown' = S!Shown /\ S!Shown # None => S!Script.id' = S!Script.id
  <2>1. S!Shown # None => S!Shown \in DOMAIN files[active]
    BY ShownThere
  <2>2. active' = active
    BY StillShown
  <2> QED
    BY <1>1, <1>10, <2>1, <2>2 DEF S!Script
<1> QED
  BY <1>6, <1>9, <1>11, <1>12, <1>13, Answered DEF ScriptsInv, PaneInv

LEMMA AnswersDelete ==
  ASSUME PanelInv, ScriptsInv, UNCHANGED treeVars, NEW c \in Keys, S!Answer(c), S!Accepts(c), c.op = "delete"
  PROVE  ScriptsInv'
<1>1. /\ KeyInv(c) /\ c.coll = active /\ active \in Home /\ IsFunction(files[active])
      /\ c.path \in DOMAIN files[active] /\ c.path = selected
  BY KeyFacts
<1> DEFINE dir == S!Effect(c)
           ds == S!DraftsAfter(c)
           pane == [detail EXCEPT !.confirm = FALSE]
<1>2. dir = [p \in DOMAIN files[active] \ {c.path} |-> files[active][p]]
  BY <1>1 DEF S!Effect, S!Restrict
<1>3. ds = [p \in DOMAIN drafts \ {c.path} |-> drafts[p]]
  BY DEF S!DraftsAfter, S!Restrict
<1>4. /\ Instead(files', files, active, dir) /\ (dialog' => dialog) /\ history' = history
      /\ S!Rendered(ds, pane, asked \ {c}) /\ selected' = None
  BY <1>1, Accepted DEF S!PaneAfter, S!SelectedAfter
<1>5. PaneOf(pane) /\ pane.path = detail.path /\ pane.output = detail.output /\ ~ pane.confirm
  <2>1. detail = [path |-> detail.path, confirm |-> detail.confirm, output |-> detail.output]
    BY DEF ScriptsInv, PaneInv, PaneOf
  <2>2. PICK now : now = [detail EXCEPT !.confirm = FALSE]
    OBVIOUS
  <2>3. now = [path |-> detail.path, confirm |-> FALSE, output |-> detail.output]
    BY <2>1, <2>2
  <2> QED
    BY <2>2, <2>3 DEF PaneOf
<1>6. /\ DOMAIN dir = DOMAIN files[active] \ {c.path} /\ IsFunction(dir)
      /\ \A p \in DOMAIN dir : dir[p] = files[active][p]
  BY <1>2 DEF IsFunction
<1>7. /\ DOMAIN ds = DOMAIN drafts \ {c.path} /\ IsFunction(ds) /\ \A p \in DOMAIN ds : ds[p] = drafts[p]
  BY <1>3 DEF IsFunction
<1> HIDE DEF dir, ds, pane
<1>8. FilesOf(files', history) /\ files'[active] = dir /\ \A d \in Home : d # active => files'[d] = files[d]
  <2>1. \A p \in DOMAIN dir : IsFile(dir[p]) /\ p # None /\ dir[p].id \in history.born
    BY <1>1, <1>6 DEF ScriptsInv, FilesOf
  <2>2. \A p, q \in DOMAIN dir : dir[p].id = dir[q].id => p = q
    BY <1>1, <1>6 DEF ScriptsInv, FilesOf
  <2>3. \A d \in Home : d # active => \A q \in DOMAIN files[d], p \in DOMAIN dir : p # q /\ dir[p].id # files[d][q].id
    BY <1>1, <1>6 DEF ScriptsInv, FilesOf
  <2>4. FilesOf(files, history) /\ active \in Home /\ IsFunction(dir) /\ Instead(files', files, active, dir)
    BY <1>1, <1>4, <1>6 DEF ScriptsInv
  <2>5. Fitting(dir, files, active, history)
    BY <1>6, <2>1, <2>2, <2>3 DEF Fitting
  <2> QED
    BY <2>4, <2>5, Replaced DEF Instead
<1>9. \A x \in Home : \A p \in DOMAIN files'[x] : p \in DOMAIN files[x] /\ files'[x][p] = files[x][p] /\ p # c.path
  <2>1. \A x \in Home : x # active => c.path \notin DOMAIN files[x]
    BY <1>1 DEF ScriptsInv, FilesOf
  <2> QED
    BY <1>6, <1>8, <2>1
<1>10. DraftsOf(ds, files', history)
  <2>1. ASSUME NEW p \in DOMAIN ds PROVE \E x \in Home : p \in DOMAIN files'[x] /\ ds[p].of = files'[x][p].id
    <3>1. PICK x \in Home : p \in DOMAIN files[x] /\ drafts[p].of = files[x][p].id
      BY <1>7 DEF ScriptsInv, DraftsOf
    <3>2. p \in DOMAIN files'[x] /\ files'[x][p] = files[x][p]
      BY <1>6, <1>7, <1>8, <3>1
    <3> QED
      BY <1>7, <3>1, <3>2
  <2>2. \A x \in Home : \A p \in DOMAIN files'[x] :
          files'[x][p].id \in DOMAIN history.typed => p \in DOMAIN ds /\ ds[p].text = history.typed[files'[x][p].id]
    BY <1>7, <1>9 DEF ScriptsInv, DraftsOf
  <2> QED
    BY <1>7, <2>1, <2>2 DEF DraftsOf
<1>11. SavesOf(files', {}, history)
  BY <1>9, SavesElse
<1>12. S!Shown' = None
  <2>1. active' = active
    BY StillShown
  <2>2. None \notin DOMAIN files'[active]
    BY <1>1, <1>8 DEF FilesOf
  <2> QED
    BY <1>4, <2>1, <2>2 DEF S!Shown
<1> QED
  BY <1>4, <1>5, <1>8, <1>10, <1>11, <1>12, Answered

LEMMA AnswersRename ==
  ASSUME PanelInv, ScriptsInv, UNCHANGED treeVars, NEW c \in Keys, S!Answer(c), S!Accepts(c), c.op = "rename"
  PROVE  ScriptsInv'
<1>1. /\ KeyInv(c) /\ c.coll = active /\ active \in Home /\ IsFunction(files[active])
      /\ c.path \in DOMAIN files[active] /\ c.path = selected /\ c.path \in DOMAIN drafts
  BY KeyFacts
<1>2. c.arg \notin DOMAIN files[active] /\ c.arg # None /\ \A x \in Home : c.arg \notin DOMAIN files[x]
  BY <1>1 DEF S!Accepts, KeyInv
<1> DEFINE dir == S!Effect(c)
           ds == S!DraftsAfter(c)
<1>3. dir = [p \in (DOMAIN files[active] \ {c.path}) \cup {c.arg} |-> IF p = c.arg THEN files[active][c.path] ELSE files[active][p]]
  <2>1. dir = S!Put(S!Restrict(files[active], DOMAIN files[active] \ {c.path}), c.arg, files[active][c.path])
    BY <1>1 DEF S!Effect
  <2> HIDE DEF dir
  <2> QED
    BY <2>1 DEF S!Put, S!Restrict
<1>4. ds = [p \in (DOMAIN drafts \ {c.path}) \cup {c.arg} |-> IF p = c.arg THEN drafts[c.path] ELSE drafts[p]]
  <2>1. ds = S!Put(S!Restrict(drafts, DOMAIN drafts \ {c.path}), c.arg, drafts[c.path])
    BY <1>1 DEF S!DraftsAfter
  <2> HIDE DEF ds
  <2> QED
    BY <2>1 DEF S!Put, S!Restrict
<1>5. /\ Instead(files', files, active, dir) /\ (dialog' => dialog) /\ history' = history
      /\ S!Rendered(ds, detail, asked \ {c}) /\ selected' = c.arg
  BY <1>1, Accepted DEF S!PaneAfter, S!SelectedAfter
<1>6. /\ DOMAIN dir = (DOMAIN files[active] \ {c.path}) \cup {c.arg} /\ IsFunction(dir)
      /\ dir[c.arg] = files[active][c.path]
      /\ \A p \in DOMAIN dir : p # c.arg => dir[p] = files[active][p]
  BY <1>3 DEF IsFunction
<1>7. /\ DOMAIN ds = (DOMAIN drafts \ {c.path}) \cup {c.arg} /\ IsFunction(ds)
      /\ ds[c.arg] = drafts[c.path]
      /\ \A p \in DOMAIN ds : p # c.arg => ds[p] = drafts[p]
  BY <1>4 DEF IsFunction
<1> HIDE DEF dir, ds
<1>8. FilesOf(files', history) /\ files'[active] = dir /\ \A d \in Home : d # active => files'[d] = files[d]
  <2>1. \A p \in DOMAIN dir : IsFile(dir[p]) /\ p # None /\ dir[p].id \in history.born
    BY <1>1, <1>2, <1>6 DEF ScriptsInv, FilesOf
  <2>2. ASSUME NEW p \in DOMAIN dir, NEW q \in DOMAIN dir, dir[p].id = dir[q].id PROVE p = q
    <3> DEFINE Was(y) == IF y = c.arg THEN c.path ELSE y
    <3>1. \A y \in DOMAIN dir : Was(y) \in DOMAIN files[active] /\ dir[y] = files[active][Was(y)]
      BY <1>1, <1>6
    <3>2. Was(p) = Was(q)
      <4> HIDE DEF Was
      <4> QED
        BY <1>1, <2>2, <3>1 DEF ScriptsInv, FilesOf
    <3> QED
      BY <1>6, <3>2
  <2>3. ASSUME NEW d \in Home, d # active, NEW q \in DOMAIN files[d], NEW p \in DOMAIN dir
        PROVE  p # q /\ dir[p].id # files[d][q].id
    BY <1>1, <1>2, <1>6, <2>3 DEF ScriptsInv, FilesOf
  <2>4. FilesOf(files, history) /\ active \in Home /\ IsFunction(dir) /\ Instead(files', files, active, dir)
    BY <1>1, <1>5, <1>6 DEF ScriptsInv
  <2>5. Fitting(dir, files, active, history)
    BY <1>6, <2>1, <2>2, <2>3 DEF Fitting
  <2> QED
    BY <2>4, <2>5, Replaced DEF Instead
<1>9. ASSUME NEW x \in Home, NEW p \in DOMAIN files'[x]
      PROVE  \/ x = active /\ p = c.arg /\ files'[x][p] = files[x][c.path] /\ c.path \in DOMAIN files[x]
             \/ p \in DOMAIN files[x] /\ files'[x][p] = files[x][p] /\ p # c.path /\ p # c.arg
  <2>1. \A y \in Home : y # active => c.path \notin DOMAIN files[y]
    BY <1>1 DEF ScriptsInv, FilesOf
  <2> QED
    BY <1>1, <1>2, <1>6, <1>8, <2>1
<1>10. DraftsOf(ds, files', history)
  <2>1. ASSUME NEW p \in DOMAIN ds PROVE \E x \in Home : p \in DOMAIN files'[x] /\ ds[p].of = files'[x][p].id
    <3>1. CASE p = c.arg
      <4>1. PICK x \in Home : c.path \in DOMAIN files[x] /\ drafts[c.path].of = files[x][c.path].id
        BY <1>1 DEF ScriptsInv, DraftsOf
      <4>2. x = active
        BY <1>1, <4>1 DEF ScriptsInv, FilesOf
      <4> QED
        BY <1>1, <1>6, <1>7, <1>8, <3>1, <4>1, <4>2
    <3>2. CASE p # c.arg
      <4>1. p \in DOMAIN drafts /\ p # c.path /\ ds[p] = drafts[p]
        BY <1>7, <3>2
      <4>2. PICK x \in Home : p \in DOMAIN files[x] /\ drafts[p].of = files[x][p].id
        BY <4>1 DEF ScriptsInv, DraftsOf
      <4>3. p \in DOMAIN files'[x] /\ files'[x][p] = files[x][p]
        BY <1>6, <1>8, <3>2, <4>1, <4>2
      <4> QED
        BY <4>1, <4>2, <4>3
    <3> QED
      BY <3>1, <3>2
  <2>2. ASSUME NEW x \in Home, NEW p \in DOMAIN files'[x], files'[x][p].id \in DOMAIN history.typed
        PROVE  p \in DOMAIN ds /\ ds[p].text = history.typed[files'[x][p].id]
    <3>1. CASE x = active /\ p = c.arg /\ files'[x][p] = files[x][c.path] /\ c.path \in DOMAIN files[x]
      <4>1. drafts[c.path].text = history.typed[files[x][c.path].id]
        BY <2>2, <3>1 DEF ScriptsInv, DraftsOf
      <4> QED
        BY <1>7, <3>1, <4>1
    <3>2. CASE p \in DOMAIN files[x] /\ files'[x][p] = files[x][p] /\ p # c.path /\ p # c.arg
      <4>1. p \in DOMAIN drafts /\ drafts[p].text = history.typed[files[x][p].id]
        BY <2>2, <3>2 DEF ScriptsInv, DraftsOf
      <4> QED
        BY <1>7, <3>2, <4>1
    <3> QED
      BY <1>9, <3>1, <3>2
  <2> QED
    BY <1>7, <2>1, <2>2 DEF DraftsOf
<1>11. SavesOf(files', {}, history)
  <2>1. \A x \in Home : \A p \in DOMAIN files'[x] : \E q \in DOMAIN files[x] : files'[x][p] = files[x][q]
    BY <1>9
  <2> QED
    BY <2>1, SavesElse
<1>12. S!Shown = c.path /\ S!Shown' \in {c.arg, None} /\ c.arg # c.path
  <2>1. S!Shown = c.path
    BY <1>1 DEF KeyInv
  <2> QED
    BY <1>1, <1>2, <1>5, <2>1 DEF S!Shown
<1>13. c.path # None
  BY <1>1 DEF KeyInv
<1> QED
  BY <1>5, <1>8, <1>10, <1>11, <1>12, <1>13, Answered DEF ScriptsInv, PaneInv

LEMMA ScriptsServer ==
  ASSUME PanelInv, ScriptsInv, UNCHANGED treeVars, S!Server
  PROVE  ScriptsInv'
<1>1. PICK c \in asked : S!Answer(c)
  BY DEF S!Server
<1>2. CASE c.op = "run"
  BY <1>1, <1>2, AnswersRun
<1>3. CASE c.op # "run"
  <2>1. c \in Keys
    BY <1>3 DEF Keys
  <2>2. c.op \in {"create", "save", "rename", "delete"}
    BY <2>1, KeyFacts
  <2> QED
    BY <1>1, <2>1, <2>2, AnswersRefused, AnswersCreate, AnswersSave, AnswersDelete, AnswersRename
<1> QED
  BY <1>2, <1>3

LEMMA ScriptsStart ==
  ASSUME AppInit
  PROVE  ScriptsInv
<1>1. PICK start \in Starts : InitWith(start) /\ S!InitWith(start.files)
  BY DEF AppInit
<1>2. /\ files = start.files /\ asked = {} /\ drafts = << >> /\ selected = None /\ detail = S!Afresh(None)
      /\ history = [typed |-> << >>, saved |-> << >>,
                    born |-> UNION {{f.id : f \in S!Range(start.files[c])} : c \in Home}]
  BY <1>1 DEF S!InitWith, Home
<1>3. /\ files \in [Home -> UNION {[ps -> [id : Scripts, text : Texts]] : ps \in SUBSET Paths}]
      /\ \A c, d \in Home : \A p \in DOMAIN files[c], q \in DOMAIN files[d] :
           p = q \/ files[c][p].id = files[d][q].id => c = d /\ p = q
  <2>1. /\ start.files \in [Home -> UNION {[ps -> [id : Scripts, text : Texts]] : ps \in SUBSET Paths}]
        /\ \A c, d \in Home : \A p \in DOMAIN start.files[c], q \in DOMAIN start.files[d] :
             p = q \/ start.files[c][p].id = start.files[d][q].id => c = d /\ p = q
    BY StartsAssumption DEF Home
  <2> QED
    BY <1>2, <2>1
<1>4. ASSUME NEW c \in Home
      PROVE  IsFunction(files[c]) /\ \A p \in DOMAIN files[c] : IsFile(files[c][p]) /\ p # None /\ files[c][p].id \in history.born
  <2>1. PICK ps \in SUBSET Paths : files[c] \in [ps -> [id : Scripts, text : Texts]]
    BY <1>3
  <2>2. \A p \in DOMAIN files[c] : files[c][p].id \in history.born
    BY <1>2 DEF S!Range
  <2> QED
    BY <2>1, <2>2, ConstantsAssumption DEF IsFunction, IsFile
<1>5. FilesOf(files, history)
  BY <1>3, <1>4 DEF FilesOf, IsFunction
<1>6. DOMAIN << >> = {} /\ IsFunction(<< >>)
  BY DEF IsFunction
<1>7. HistoryOf(history) /\ DraftsOf(drafts, files, history) /\ SavesOf(files, asked, history)
  BY <1>2, <1>6 DEF HistoryOf, DraftsOf, SavesOf
<1>8. S!Shown = None
  <2>1. active \in Home
    BY AppPanelStarts, ActiveHome DEF PanelInv, active
  <2> QED
    BY <1>2, <2>1, <1>4 DEF S!Shown
<1>9. PaneInv /\ CallsInv
  BY <1>2, <1>8 DEF PaneInv, PaneOf, CallsInv, Keys, S!Afresh
<1> QED
  BY <1>5, <1>7, <1>9 DEF ScriptsInv

LEMMA ScriptsStep ==
  ASSUME Careful, PanelInv, ScriptsInv, [TreeStep \/ ViewStep]_allVars
  PROVE  PanelInv' /\ ScriptsInv'
<1>1. CASE TreeStep
  <2>1. PanelInv'
    BY <1>1, TreePanelKeeps
  <2> QED
    BY <1>1, <2>1, ScriptsFollow
<1>2. CASE ViewStep
  <2>1. PanelInv' /\ UNCHANGED treeVars
    BY <1>2, ViewPanelKeeps DEF ViewStep
  <2>2. CASE S!Server
    BY <2>1, <2>2, ScriptsServer
  <2>3. CASE NothingAsked /\ S!User
    BY <2>1, <2>3, ScriptsUser DEF AskingQuietly, S!User
  <2>4. CASE UNCHANGED scriptVars
    <3>1. UNCHANGED <<files, asked, drafts, selected, dialog, detail, history>>
      BY <2>4 DEF scriptVars
    <3>2. S!Shown' = S!Shown /\ S!Script' = S!Script /\ active' = active /\ NothingAsked' = NothingAsked /\ view' = view /\ Astray' = Astray
      BY <2>1, <3>1, SameShown, StillShown
    <3>3. PaneInv'
      BY <3>1, <3>2 DEF PaneInv, ScriptsInv
    <3>4. ASSUME NEW a \in Keys PROVE KeyInv(a)'
      <4>1. KeyInv(a)
        BY DEF ScriptsInv, CallsInv
      <4> QED
        BY <3>1, <3>2, <4>1 DEF KeyInv
    <3>5. CallsInv'
      BY <3>1, <3>2, <3>4 DEF CallsInv, Keys, ScriptsInv
    <3> QED
      BY <2>1, <3>1, <3>3, <3>5 DEF ScriptsInv
  <2> QED
    BY <1>2, <2>2, <2>3, <2>4 DEF ViewStep, NothingAsked
<1>3. CASE UNCHANGED allVars
  <2>1. UNCHANGED treeVars /\ UNCHANGED scriptVars /\ UNCHANGED count
    BY <1>3 DEF allVars, vars, treeVars
  <2>2. PanelInv'
    BY <1>3, <2>1 DEF PanelInv, treeVars
  <2>3. UNCHANGED <<files, asked, drafts, selected, dialog, detail, history>>
    BY <2>1 DEF scriptVars
  <2>4. S!Shown' = S!Shown /\ S!Script' = S!Script /\ active' = active /\ NothingAsked' = NothingAsked /\ view' = view /\ Astray' = Astray
    BY <2>1, <2>3, SameShown, StillShown
  <2>5. PaneInv'
    BY <2>3, <2>4 DEF PaneInv, ScriptsInv
  <2>6. ASSUME NEW a \in Keys PROVE KeyInv(a)'
    <3>1. KeyInv(a)
      BY DEF ScriptsInv, CallsInv
    <3> QED
      BY <2>3, <2>4, <3>1 DEF KeyInv
  <2>7. CallsInv'
    BY <2>3, <2>4, <2>6 DEF CallsInv, Keys, ScriptsInv
  <2> QED
    BY <2>2, <2>3, <2>5, <2>7 DEF ScriptsInv
<1> QED
  BY <1>1, <1>2, <1>3

\* For a user who lets a call about a script be answered before going elsewhere,
\* the text in the editor and the output below it are those of the script that is
\* there, and what was typed is in its draft: a call is only ever about what is
\* shown, and whatever takes a script off the screen or puts another one at its path
\* waits for it.
THEOREM ScriptsShowTheirOwn ==
  ASSUME Careful
  PROVE  AppSpec => []ShownIsOwn
<1>1. AppInit => PanelInv /\ ScriptsInv
  BY AppPanelStarts, ScriptsStart
<1>2. PanelInv /\ ScriptsInv /\ [TreeStep \/ ViewStep]_allVars => PanelInv' /\ ScriptsInv'
  BY ScriptsStep
<1>3. PanelInv /\ ScriptsInv => ShownIsOwn
  <2>1. ASSUME ScriptsInv, NEW c \in Home, NEW p \in DOMAIN files[c], p \in DOMAIN drafts
        PROVE  drafts[p].of = files[c][p].id
    <3>1. PICK d \in Home : p \in DOMAIN files[d] /\ drafts[p].of = files[d][p].id
      BY <2>1 DEF ScriptsInv, DraftsOf
    <3>2. c = d
      BY <2>1, <3>1 DEF ScriptsInv, FilesOf
    <3> QED
      BY <3>1, <3>2
  <2>2. ASSUME ScriptsInv, NEW c \in Home, NEW p \in DOMAIN files[c], files[c][p].id \in DOMAIN history.typed
        PROVE  p \in DOMAIN drafts /\ drafts[p].text = history.typed[files[c][p].id]
    BY <2>2 DEF ScriptsInv, DraftsOf
  <2>3. ASSUME ScriptsInv, detail.output # None PROVE detail.output = S!Script.id
    BY <2>3 DEF ScriptsInv, PaneInv
  <2> QED
    BY <2>1, <2>2, <2>3 DEF ShownIsOwn, S!ShownIsOwn, Home
<1> QED
  BY <1>1, <1>2, <1>3, PTL DEF AppSpec

\* For the same user the file of a script holds what was saved last once nothing is
\* under way: no save overtakes another one, nor a rename of its script.
THEOREM ScriptSavesLand ==
  ASSUME Careful
  PROVE  AppSpec => []SavesLand
<1>1. AppInit => PanelInv /\ ScriptsInv
  BY AppPanelStarts, ScriptsStart
<1>2. PanelInv /\ ScriptsInv /\ [TreeStep \/ ViewStep]_allVars => PanelInv' /\ ScriptsInv'
  BY ScriptsStep
<1>3. PanelInv /\ ScriptsInv => SavesLand
  BY DEF ScriptsInv, SavesOf, SavesLand, S!SavesLand, Home
<1> QED
  BY <1>1, <1>2, <1>3, PTL DEF AppSpec

------------------------------------------------------------------------------
(* The scripts of a request.                                                  *)

LEMMA FiveFields ==
  ASSUME NEW u, u = [x \in DOMAIN u |-> u[x]], DOMAIN u = {"wrapped", "shim", "imports", "lead", "uses"}
  PROVE  u = [wrapped |-> u.wrapped, shim |-> u.shim, imports |-> u.imports, lead |-> u.lead, uses |-> u.uses]
OBVIOUS

\* Opening a region up never gives a text that would be wrapped at once: neither
\* when the author typed something else than an object, nor when a pasted name has
\* no single home and the region of an object is given up.
LEMMA UnwrapSettles ==
  ASSUME NEW t, IsForm(t)
  PROVE  /\ IsText(E!Unwrap(t)) /\ E!Switched(E!Unwrap(t)) = E!Unwrap(t)
         /\ ~ E!Unwrap(t).wrapped /\ E!Unwrap(t).uses = t.uses /\ E!Unwrap(t).imports = t.imports /\ E!Unwrap(t).lead = t.lead
         /\ E!ModeSwitchFor(E!Unwrap(t)) = "none"
<1> DEFINE u == E!Unwrap(t)
<1>1. /\ DOMAIN u = {"wrapped", "shim", "imports", "lead", "uses"}
      /\ u.wrapped = FALSE /\ u.shim \in BOOLEAN /\ (u.shim <=> ~ E!ShimIsDisposable(t))
      /\ u.imports = t.imports /\ u.lead = t.lead /\ u.uses = t.uses
  BY DEF E!Unwrap, IsScript, IsForm
<1>2. u = [x \in DOMAIN u |-> u[x]]
  BY DEF E!Unwrap
<1> HIDE DEF u
<1>3. IsText(u)
  BY <1>1, <1>2, FiveFields DEF IsText, IsScript, IsForm
<1>4. E!ModeSwitchFor(u) = "none"
  <2>1. CASE E!ShimIsDisposable(t)
    BY <1>1, <2>1 DEF E!ModeSwitchFor, E!Bare, E!ShimIsDisposable
  <2>2. CASE ~ E!ShimIsDisposable(t)
    BY <1>1, <2>2 DEF E!ModeSwitchFor, E!Bare
  <2> QED
    BY <2>1, <2>2
<1>5. E!Switched(u) = u
  BY <1>4 DEF E!Switched
<1> QED
  BY <1>1, <1>3, <1>4, <1>5 DEF u

LEMMA WrapIs ==
  ASSUME NEW t, IsForm(t)
  PROVE  /\ IsScript(E!Wrap(t)) /\ E!Wrap(t).wrapped /\ E!Wrap(t).shim
         /\ E!Wrap(t).imports = t.imports /\ E!Wrap(t).lead = t.lead /\ E!Wrap(t).uses = t.uses
<1> DEFINE u == E!Wrap(t)
<1>1. /\ DOMAIN u = {"wrapped", "shim", "imports", "lead", "uses"}
      /\ u.wrapped = TRUE /\ u.shim = TRUE /\ u.imports = t.imports /\ u.lead = t.lead /\ u.uses = t.uses
  BY DEF E!Wrap, IsScript, IsForm
<1>2. u = [x \in DOMAIN u |-> u[x]]
  BY DEF E!Wrap
<1> HIDE DEF u
<1> QED
  BY <1>1, <1>2, FiveFields DEF IsScript, IsForm, u

\* A change of the text leaves a text, of the same names.
LEMMA SwitchIs ==
  ASSUME NEW t, IsScript(t)
  PROVE  /\ IsText(E!Switched(t))
         /\ E!Switched(t).uses = t.uses /\ E!Switched(t).imports = t.imports /\ E!Switched(t).lead = t.lead
         /\ t.wrapped /\ t.lead # "other" => E!Switched(t) = t
         /\ t.wrapped /\ ~ E!Switched(t).wrapped => t.lead = "other"
<1>1. CASE E!ModeSwitchFor(t) = "toPlain"
  <2>1. E!Switched(t) = E!Unwrap(t) /\ t.lead = "other"
    BY <1>1 DEF E!Switched, E!ModeSwitchFor
  <2> QED
    BY <2>1, UnwrapSettles DEF IsScript
<1>2. CASE E!ModeSwitchFor(t) = "toWrapped"
  <2>1. E!Switched(t) = E!Wrap(t) /\ ~ t.wrapped /\ t.lead = "brace"
    BY <1>2 DEF E!Switched, E!ModeSwitchFor, E!Bare
  <2> QED
    BY <2>1, WrapIs DEF IsText, IsScript
<1>3. CASE E!ModeSwitchFor(t) = "none"
  <2>1. E!Switched(t) = t
    BY <1>3 DEF E!Switched
  <2>2. t.wrapped => t.lead # "other"
    BY <1>3 DEF E!ModeSwitchFor
  <2> QED
    BY <2>1, <2>2 DEF IsText
<1> QED
  BY <1>1, <1>2, <1>3 DEF E!ModeSwitchFor

\* What is stored is opened as a text.
LEMMA OpenedIs ==
  ASSUME NEW t, IsText(t)
  PROVE  IsText(E!Hosted(t)) /\ IsText(E!Migrated(t))
<1>1. ASSUME NEW u, IsText(u) PROVE IsText(E!Hosted(u))
  <2>1. CASE E!Bare(u) /\ u.lead = "brace"
    <3>1. E!Hosted(u) = E!Wrap(u)
      BY <2>1 DEF E!Hosted
    <3> QED
      BY <1>1, <2>1, <3>1, WrapIs DEF IsText, IsScript
  <2>2. CASE ~ (E!Bare(u) /\ u.lead = "brace")
    BY <1>1, <2>2 DEF E!Hosted
  <2> QED
    BY <2>1, <2>2
<1>2. CASE E!Blank(t)
  <2> DEFINE u == [t EXCEPT !.lead = "brace"]
  <2>1. u = [wrapped |-> t.wrapped, shim |-> t.shim, imports |-> t.imports, lead |-> "brace", uses |-> t.uses]
    BY DEF IsText, IsScript, IsForm
  <2>2. IsScript(u) /\ u.lead = "brace"
    BY <2>1 DEF IsText, IsScript, IsForm
  <2>3. E!Migrated(t) = E!Wrap(u)
    BY <1>2 DEF E!Migrated
  <2> HIDE DEF u
  <2> QED
    BY <1>1, <2>2, <2>3, WrapIs DEF IsText, IsScript
<1>3. CASE ~ E!Blank(t)
  BY <1>1, <1>3 DEF E!Migrated
<1> QED
  BY <1>1, <1>2, <1>3

LEMMA StoredIs ==
  ASSUME NEW t \in Stored
  PROVE  IsText(t)
BY DEF Stored, E!ScriptTexts, E!Formed, IsText, IsScript, IsForm

LEMMA PlainlyIs ==
  ASSUME NEW a
  PROVE  IsText(E!Plainly(a))
BY DEF E!Plainly, IsText, IsScript, IsForm

\* What a pass makes of a text it was asked about.
LEMMA PrunedIs ==
  ASSUME NEW t, IsText(t), t.wrapped, NEW found
  PROVE  /\ IsText(E!Pruned(t, found)) /\ E!Switched(E!Pruned(t, found)) = E!Pruned(t, found)
         /\ E!Pruned(t, found).wrapped /\ E!Pruned(t, found).uses = t.uses /\ E!Pruned(t, found).lead = t.lead
         /\ E!Pruned(t, found).imports = t.imports \ found
<1> DEFINE u == E!Pruned(t, found)
<1>1. u = [wrapped |-> t.wrapped, shim |-> t.shim, imports |-> t.imports \ found, lead |-> t.lead, uses |-> t.uses]
  BY DEF E!Pruned, IsText, IsScript, IsForm
<1>2. IsText(u) /\ u.wrapped /\ u.uses = t.uses /\ u.lead = t.lead /\ u.imports = t.imports \ found
  BY <1>1 DEF IsText, IsScript, IsForm
<1> HIDE DEF u
<1> QED
  BY <1>2, SwitchIs DEF u, IsText

LEMMA ResolvedIs ==
  ASSUME NEW t, IsText(t), t.wrapped, NEW found
  PROVE  /\ IsText(E!Resolved(t, found)) /\ E!Switched(E!Resolved(t, found)) = E!Resolved(t, found)
         /\ E!Resolved(t, found).uses = t.uses /\ E!Resolved(t, found).lead = t.lead
         /\ IF E!Bails(t, found) THEN E!Resolved(t, found).imports = t.imports /\ ~ E!Resolved(t, found).wrapped
                                 ELSE E!Resolved(t, found).imports = t.imports \cup found /\ E!Resolved(t, found).wrapped
<1> DEFINE u == E!Resolved(t, found)
<1>1. CASE E!Bails(t, found)
  <2>1. u = E!Unwrap(t)
    BY <1>1 DEF E!Resolved, E!Bails
  <2> QED
    BY <1>1, <2>1, UnwrapSettles DEF IsText, IsScript
<1>2. CASE ~ E!Bails(t, found)
  <2>1. u = [wrapped |-> t.wrapped, shim |-> t.shim, imports |-> t.imports \cup found, lead |-> t.lead, uses |-> t.uses]
    BY <1>2 DEF E!Resolved, IsText, IsScript, IsForm
  <2>2. IsText(u) /\ u.wrapped /\ u.uses = t.uses /\ u.lead = t.lead /\ u.imports = t.imports \cup found
    BY <2>1 DEF IsText, IsScript, IsForm
  <2> HIDE DEF u
  <2>3. E!Switched(u) = u
    BY <2>2, SwitchIs DEF IsText
  <2> QED
    BY <1>2, <2>2, <2>3 DEF u
<1> QED
  BY <1>1, <1>2

------------------------------------------------------------------------------
(* Timers and updates.                                                        *)

LEMMA Removed ==
  ASSUME NEW s, IsSeq(s), NEW i \in 1..Len(s)
  PROVE  /\ IsSeq(E!RemoveAt(s, i)) /\ Len(E!RemoveAt(s, i)) = Len(s) - 1
         /\ \A k \in 1..Len(s) - 1 : E!RemoveAt(s, i)[k] = IF k < i THEN s[k] ELSE s[k + 1]
<1> DEFINE Els == {s[k] : k \in 1..Len(s)}
           a == SubSeq(s, 1, i - 1)
           b == SubSeq(s, i + 1, Len(s))
<1>1. s \in [1..Len(s) -> Els] /\ Len(s) \in Nat
  BY DEF IsSeq
<1>2. s \in Seq(Els)
  BY SeqIs
<1>3. i \in Int /\ 1 =< i /\ i =< Len(s)
  BY <1>1
<1> HIDE DEF Els
<1>4. Len(a) = i - 1 /\ IsSeq(a) /\ \A k \in 1..i - 1 : a[k] = s[k]
  <2>1. a = [k \in 1..i - 1 |-> s[k]]
    BY <1>2, <1>3
  <2>2. i - 1 \in Nat
    BY <1>3
  <2>3. a = [k \in 1..i - 1 |-> a[k]] /\ \A k \in 1..i - 1 : a[k] = s[k]
    BY <2>1
  <2> HIDE DEF a
  <2> QED
    BY <2>2, <2>3, ListOf
<1>5. Len(b) = Len(s) - i /\ IsSeq(b) /\ \A k \in 1..Len(s) - i : b[k] = s[i + k]
  <2>1. b = [k \in 1..Len(s) - i |-> s[i + k]]
    BY <1>1, <1>2, <1>3
  <2>2. Len(s) - i \in Nat
    BY <1>1, <1>3
  <2>3. b = [k \in 1..Len(s) - i |-> b[k]] /\ \A k \in 1..Len(s) - i : b[k] = s[i + k]
    BY <2>1
  <2> HIDE DEF b
  <2> QED
    BY <2>2, <2>3, ListOf
<1>6. E!RemoveAt(s, i) = a \o b
  BY DEF E!RemoveAt
<1> HIDE DEF a, b
<1>7. /\ IsSeq(a \o b) /\ Len(a \o b) = Len(a) + Len(b)
      /\ \A n \in 1..Len(a) : (a \o b)[n] = a[n]
      /\ \A n \in 1..Len(b) : (a \o b)[Len(a) + n] = b[n]
  <2>1. IsSeq(a) /\ IsSeq(b)
    BY <1>4, <1>5
  <2> QED
    BY <2>1, Joined
<1>8. Len(a \o b) = Len(s) - 1
  BY <1>1, <1>3, <1>4, <1>5, <1>7
<1>9. ASSUME NEW k \in 1..Len(s) - 1
      PROVE  (a \o b)[k] = IF k < i THEN s[k] ELSE s[k + 1]
  <2>1. CASE k < i
    <3>1. k \in 1..i - 1 /\ k \in 1..Len(a)
      BY <1>1, <1>3, <1>4, <2>1
    <3> QED
      BY <1>4, <1>7, <2>1, <3>1
  <2>2. CASE ~ (k < i)
    <3> DEFINE m == k - (i - 1)
    <3>1. m \in 1..Len(s) - i /\ k = Len(a) + m /\ i + m = k + 1
      BY <1>1, <1>3, <1>4, <2>2
    <3> HIDE DEF m
    <3>2. (a \o b)[Len(a) + m] = b[m] /\ b[m] = s[i + m]
      BY <1>5, <1>7, <3>1
    <3> QED
      BY <2>2, <3>1, <3>2
  <2> QED
    BY <2>1, <2>2
<1> QED
  BY <1>6, <1>7, <1>8, <1>9

\* The one timer of a field is replaced, and no other.
Reset(now, ts, r, f, v) ==
  /\ IsSeq(now) /\ OneEach(now)
  /\ \E k \in 1..Len(now) : now[k] = [req |-> r, field |-> f, value |-> v]
  /\ \A k \in 1..Len(now) :
       \/ now[k] = [req |-> r, field |-> f, value |-> v]
       \/ \E j \in 1..Len(ts) : now[k] = ts[j] /\ ~ (ts[j].req = r /\ ts[j].field = f)
  /\ \A j \in 1..Len(ts) :
       ~ (ts[j].req = r /\ ts[j].field = f) => \E k \in 1..Len(now) : now[k] = ts[j]

LEMMA RescheduledIs ==
  ASSUME IsSeq(timers), OneEach(timers), NEW r, NEW f, NEW v
  PROVE  Reset(E!Rescheduled(r, f, v), timers, r, f, v)
<1> DEFINE new == [req |-> r, field |-> f, value |-> v]
           I == {i \in 1..Len(timers) : timers[i].req = r /\ timers[i].field = f}
           at == IF I # {} THEN E!Min(I) ELSE 0
           rest == IF at = 0 THEN timers ELSE E!RemoveAt(timers, at)
           now == Append(rest, new)
<1>1. E!Rescheduled(r, f, v) = now
  BY DEF E!Rescheduled, E!SelectInSeq, E!SameTimer
<1>2. new.req = r /\ new.field = f
  OBVIOUS
<1>3. Len(timers) \in Nat
  BY DEF IsSeq
<1>4. /\ IsSeq(rest) /\ Len(rest) \in Nat
      /\ \A k \in 1..Len(rest) : \E j \in 1..Len(timers) : rest[k] = timers[j] /\ j \notin I
      /\ \A j \in 1..Len(timers) : j \notin I => \E k \in 1..Len(rest) : rest[k] = timers[j]
      /\ OneEach(rest)
  <2>1. CASE I = {}
    <3>1. rest = timers
      BY <2>1
    <3> QED
      BY <1>3, <2>1, <3>1
  <2>2. CASE I # {}
    <3>1. PICK i \in I : TRUE
      BY <2>2
    <3>2. \A j \in I : j = i
      BY <3>1 DEF OneEach
    <3>3. i \in Int
      BY <1>3, <3>1
    <3>4. i \in I /\ \A y \in I : i =< y
      BY <3>1, <3>2, <3>3
    <3>5. E!Min(I) = i
      BY <3>2, <3>4 DEF E!Min
    <3>6. i \in 1..Len(timers) /\ at = i /\ at # 0
      BY <1>3, <2>2, <3>1, <3>5
    <3>7. rest = E!RemoveAt(timers, i)
      BY <3>6
    <3>8. \A j \in 1..Len(timers) : j \notin I <=> j # i
      BY <3>1, <3>2
    <3> HIDE DEF at, rest, I
    <3>9. /\ IsSeq(rest) /\ Len(rest) = Len(timers) - 1
          /\ \A k \in 1..Len(timers) - 1 : rest[k] = IF k < i THEN timers[k] ELSE timers[k + 1]
      BY <3>6, <3>7, Removed
    <3>10. \A k \in 1..Len(rest) : \E j \in 1..Len(timers) : rest[k] = timers[j] /\ j \notin I
      <4>1. ASSUME NEW k \in 1..Len(rest)
            PROVE  \E j \in 1..Len(timers) : rest[k] = timers[j] /\ j \notin I
        <5> DEFINE j == IF k < i THEN k ELSE k + 1
        <5>1. j \in 1..Len(timers) /\ j # i /\ rest[k] = timers[j]
          BY <1>3, <3>3, <3>6, <3>9
        <5> HIDE DEF j
        <5> QED
          BY <3>8, <5>1
      <4> QED
        BY <4>1
    <3>11. \A j \in 1..Len(timers) : j \notin I => \E k \in 1..Len(rest) : rest[k] = timers[j]
      <4>1. ASSUME NEW j \in 1..Len(timers), j # i
            PROVE  \E k \in 1..Len(rest) : rest[k] = timers[j]
        <5> DEFINE k == IF j < i THEN j ELSE j - 1
        <5>1. k \in 1..Len(rest) /\ rest[k] = timers[j]
          BY <1>3, <3>3, <3>6, <3>9, <4>1
        <5> HIDE DEF k
        <5> QED
          BY <5>1
      <4> QED
        BY <3>8, <4>1
    <3>12. OneEach(rest)
      <4>1. ASSUME NEW a \in 1..Len(rest), NEW b \in 1..Len(rest),
                   rest[a].req = rest[b].req, rest[a].field = rest[b].field
            PROVE  a = b
        <5> DEFINE ja == IF a < i THEN a ELSE a + 1
                   jb == IF b < i THEN b ELSE b + 1
        <5>1. ja \in 1..Len(timers) /\ rest[a] = timers[ja] /\ jb \in 1..Len(timers) /\ rest[b] = timers[jb]
          BY <1>3, <3>3, <3>6, <3>9
        <5>2. ja = jb => a = b
          BY <1>3, <3>3, <3>9
        <5> HIDE DEF ja, jb
        <5>3. ja = jb
          BY <4>1, <5>1 DEF OneEach
        <5> QED
          BY <5>2, <5>3
      <4> QED
        BY <4>1 DEF OneEach
    <3>13. Len(rest) \in Nat
      BY <3>9 DEF IsSeq
    <3> QED
      BY <3>9, <3>10, <3>11, <3>12, <3>13
  <2> QED
    BY <2>1, <2>2
<1>5. \A j \in 1..Len(timers) : j \notin I <=> ~ (timers[j].req = r /\ timers[j].field = f)
  OBVIOUS
<1> HIDE DEF new, I, rest
<1>6. /\ IsSeq(now) /\ Len(now) = Len(rest) + 1
      /\ \A n \in 1..Len(rest) : now[n] = rest[n]
      /\ now[Len(rest) + 1] = new
  BY <1>4, Pushed
<1> HIDE DEF now
<1>7. \A k \in 1..Len(now) : k \in 1..Len(rest) \/ k = Len(rest) + 1
  BY <1>4, <1>6
<1>8. Len(rest) + 1 \in 1..Len(now) /\ \A k \in 1..Len(rest) : k \in 1..Len(now)
  BY <1>4, <1>6
<1>9. ASSUME NEW k \in 1..Len(rest)
      PROVE  /\ ~ (now[k].req = r /\ now[k].field = f)
             /\ \E j \in 1..Len(timers) : now[k] = timers[j] /\ ~ (timers[j].req = r /\ timers[j].field = f)
  <2>1. PICK j \in 1..Len(timers) : rest[k] = timers[j] /\ j \notin I
    BY <1>4
  <2> QED
    BY <1>5, <1>6, <2>1
<1>10. OneEach(now)
  <2>1. ASSUME NEW a \in 1..Len(now), NEW b \in 1..Len(now), now[a].req = now[b].req, now[a].field = now[b].field
        PROVE  a = b
    <3>1. CASE a \in 1..Len(rest) /\ b \in 1..Len(rest)
      BY <1>4, <1>6, <2>1, <3>1 DEF OneEach
    <3>2. CASE ~ (a \in 1..Len(rest)) \/ ~ (b \in 1..Len(rest))
      BY <1>2, <1>6, <1>7, <1>9, <2>1, <3>2
    <3> QED
      BY <3>1, <3>2
  <2> QED
    BY <2>1 DEF OneEach
<1>11. \A k \in 1..Len(now) : now[k] = new \/ \E j \in 1..Len(timers) : now[k] = timers[j] /\ ~ (timers[j].req = r /\ timers[j].field = f)
  BY <1>6, <1>7, <1>9
<1>12. \A j \in 1..Len(timers) :
         ~ (timers[j].req = r /\ timers[j].field = f) => \E k \in 1..Len(now) : now[k] = timers[j]
  BY <1>4, <1>5, <1>6, <1>8
<1> QED
  <2>1. Reset(now, timers, r, f, v)
    BY <1>6, <1>8, <1>10, <1>11, <1>12 DEF new, Reset
  <2> QED
    BY <1>1, <2>1

\* A function, or a record, that differs in one place.
Placed(t, q, f, v) ==
  /\ DOMAIN t = DOMAIN q /\ IsFunction(t)
  /\ t[f] = v /\ \A g \in DOMAIN q : g # f => t[g] = q[g]

Fielded(t, s, r, f, v) ==
  /\ IsFunction(t) /\ DOMAIN t = DOMAIN s /\ FiveOf(t[r])
  /\ t[r][f] = v /\ \A g \in Fields : g # f => t[r][g] = s[r][g]
  /\ \A p \in DOMAIN s : p # r => t[p] = s[p]

LEMMA FivePlaced ==
  ASSUME NEW s, FiveOf(s), NEW f \in Fields, NEW v, NEW q, Placed(q, s, f, v)
  PROVE  FiveOf(q) /\ q[f] = v /\ \A g \in Fields : g # f => q[g] = s[g]
<1>1. DOMAIN s = Fields
  BY DEF FiveOf, Fields
<1>2. DOMAIN q = Fields /\ IsFunction(q)
  BY <1>1 DEF Placed
<1> QED
  BY <1>1, <1>2 DEF FiveOf, Fields, IsFunction, Placed

LEMMA FieldPut ==
  ASSUME NEW s, NEW r \in DOMAIN s, FiveOf(s[r]), NEW f \in Fields, NEW v
  PROVE  Fielded([s EXCEPT ![r][f] = v], s, r, f, v)
<1> DEFINE q == [s[r] EXCEPT ![f] = v]
           t == [s EXCEPT ![r][f] = v]
<1>1. DOMAIN s[r] = Fields
  BY DEF FiveOf, Fields
<1>2. Placed(q, s[r], f, v)
  BY <1>1 DEF Placed, IsFunction
<1>3. Placed(t, s, r, q)
  BY DEF Placed, IsFunction
<1> HIDE DEF q, t
<1>4. FiveOf(q) /\ q[f] = v /\ \A g \in Fields : g # f => q[g] = s[r][g]
  BY <1>2, FivePlaced
<1>5. t[r] = q
  BY <1>3 DEF Placed
<1>6. Fielded(t, s, r, f, v)
  BY <1>3, <1>4, <1>5 DEF Placed, Fielded
<1> QED
  BY <1>6 DEF t

\* A field that is written has its timer, or its update, with what was written.
LEMMA WrittenWaits ==
  ASSUME SavedOf(saved), TimersInv, UpdatesInv, ServerInv,
         NEW r \in DOMAIN saved, NEW f \in Timed, NEW v, f \in {"body", "metadata"} => IsText(v),
         timers' = E!Rescheduled(r, f, v), Fielded(wanted', wanted, r, f, v),
         UNCHANGED <<saved, stored, updates, answers, rivals>>
  PROVE  TimersInv' /\ UpdatesInv' /\ ServerInv'
<1> DEFINE new == [req |-> r, field |-> f, value |-> v]
<1>0. f \in Fields
  BY DEF Timed, Fields
<1>2. /\ IsFunction(wanted') /\ DOMAIN wanted' = DOMAIN saved /\ FiveOf(wanted'[r])
      /\ wanted'[r][f] = v /\ \A g \in Fields : g # f => wanted'[r][g] = wanted[r][g]
      /\ \A q \in DOMAIN saved : q # r => wanted'[q] = wanted[q]
  BY DEF Fielded, ServerInv
<1>3. /\ IsSeq(timers') /\ OneEach(timers')
      /\ \E k \in 1..Len(timers') : timers'[k] = new
      /\ \A k \in 1..Len(timers') :
           timers'[k] = new \/ \E j \in 1..Len(timers) : timers'[k] = timers[j] /\ ~ (timers[j].req = r /\ timers[j].field = f)
      /\ \A j \in 1..Len(timers) :
           ~ (timers[j].req = r /\ timers[j].field = f) => \E k \in 1..Len(timers') : timers'[k] = timers[j]
  <2>1. IsSeq(timers) /\ OneEach(timers)
    BY DEF TimersInv
  <2>2. Reset(E!Rescheduled(r, f, v), timers, r, f, v)
    BY <2>1, RescheduledIs
  <2> QED
    BY <2>1, <2>2 DEF Reset
<1>4. new.req = r /\ new.field = f /\ new.value = v
  OBVIOUS
<1>5. Waits(timers', r, f)
  BY <1>3, <1>4 DEF Waits
<1>6. ASSUME NEW q, NEW g, Waits(timers, q, g) PROVE Waits(timers', q, g)
  <2>1. PICK j \in 1..Len(timers) : timers[j].req = q /\ timers[j].field = g
    BY <1>6 DEF Waits
  <2>2. CASE q = r /\ g = f
    BY <1>5, <2>2
  <2>3. CASE ~ (q = r /\ g = f)
    <3>1. PICK k \in 1..Len(timers') : timers'[k] = timers[j]
      BY <1>3, <2>1, <2>3
    <3> QED
      BY <2>1, <3>1 DEF Waits
  <2> QED
    BY <2>2, <2>3
<1>7. ASSUME NEW q \in DOMAIN saved, NEW g \in Fields, ~ (q = r /\ g = f) PROVE wanted'[q][g] = wanted[q][g]
  BY <1>2, <1>7
<1>8. TimersInv'
  <2>1. ASSUME NEW k \in 1..Len(timers')
        PROVE  /\ IsUpdate(timers'[k], DOMAIN saved') /\ timers'[k].field \in Timed
               /\ timers'[k].value = wanted'[timers'[k].req][timers'[k].field]
    <3>1. CASE timers'[k] = new
      <4>1. new = [req |-> new.req, field |-> new.field, value |-> new.value]
        OBVIOUS
      <4> HIDE DEF new
      <4> QED
        BY <1>0, <1>2, <1>4, <3>1, <4>1 DEF IsUpdate
    <3>2. CASE timers'[k] # new
      <4> HIDE DEF new
      <4>1. PICK j \in 1..Len(timers) : timers'[k] = timers[j] /\ ~ (timers[j].req = r /\ timers[j].field = f)
        BY <1>3, <3>2
      <4>2. IsUpdate(timers[j], DOMAIN saved) /\ timers[j].field \in Timed /\ timers[j].value = wanted[timers[j].req][timers[j].field]
        BY DEF TimersInv
      <4>3. timers[j].req \in DOMAIN saved /\ timers[j].field \in Fields
        BY <4>2 DEF IsUpdate
      <4>4. IsUpdate(timers[j], DOMAIN saved')
        BY <4>1, <4>2 DEF IsUpdate
      <4> QED
        BY <1>7, <4>1, <4>2, <4>3, <4>4
    <3> QED
      BY <3>1, <3>2
  <2> QED
    BY <1>3, <2>1 DEF TimersInv
<1>9. UpdatesInv'
  <2>1. ASSUME NEW c \in updates
        PROVE  /\ IsUpdate(c, DOMAIN saved')
               /\ Waits(timers', c.req, c.field) \/ c.value \in {wanted'[c.req][c.field]} \cup rivals[c.req][c.field]
    <3>1. IsUpdate(c, DOMAIN saved) /\ c.req \in DOMAIN saved /\ c.field \in Fields
      BY DEF UpdatesInv, IsUpdate
    <3>2. Waits(timers, c.req, c.field) \/ c.value \in {wanted[c.req][c.field]} \cup rivals[c.req][c.field]
      BY DEF UpdatesInv, Final
    <3>3. CASE c.req = r /\ c.field = f
      BY <1>5, <3>1, <3>3
    <3>4. CASE ~ (c.req = r /\ c.field = f)
      <4>1. wanted'[c.req][c.field] = wanted[c.req][c.field]
        BY <1>7, <3>1, <3>4
      <4> QED
        BY <1>6, <3>1, <3>2, <4>1
    <3> QED
      BY <3>3, <3>4
  <2> QED
    BY <2>1 DEF UpdatesInv, Final
<1>10. ServerInv'
  <2>1. ASSUME NEW q \in DOMAIN saved, NEW g \in Fields
        PROVE  Waits(timers', q, g) \/ OnWay(updates, q, g) \/ stored[q][g] \in {wanted'[q][g]} \cup rivals[q][g]
    <3>1. Waits(timers, q, g) \/ OnWay(updates, q, g) \/ stored[q][g] \in {wanted[q][g]} \cup rivals[q][g]
      BY DEF ServerInv, Final
    <3> QED
      BY <1>5, <1>6, <1>7, <3>1
  <2>2. \A q \in DOMAIN saved : FiveOf(wanted'[q])
    BY <1>2 DEF ServerInv
  <2> QED
    BY <1>2, <2>1, <2>2 DEF ServerInv, Final
<1> QED
  BY <1>8, <1>9, <1>10

\* What is sent as the last of its field is one update more of it, and what is on
\* its way then are its rivals.
LEMMA OnItsWay ==
  ASSUME UpdatesInv, ServerInv, UNCHANGED saved,
         NEW r \in DOMAIN saved, NEW f \in Fields, NEW v, f \in {"body", "metadata"} => IsText(v),
         E!Send(r, f, v), f = "middleware" => \A c \in updates : c.field # "middleware",
         IsFunction(wanted'), DOMAIN wanted' = DOMAIN saved, \A q \in DOMAIN saved : FiveOf(wanted'[q]),
         wanted'[r][f] = v,
         \A q \in DOMAIN saved, g \in Fields : ~ (q = r /\ g = f) =>
           wanted'[q][g] = wanted[q][g] /\ (Waits(timers, q, g) => Waits(timers', q, g))
  PROVE  UpdatesInv' /\ ServerInv'
<1> DEFINE new == [n |-> E!Number, req |-> r, field |-> f, value |-> v]
           those == E!UnderWay(r, f)
<1>1. /\ updates' = updates \cup {new} /\ rivals' = [rivals EXCEPT ![r][f] = those]
      /\ UNCHANGED <<stored, answers>>
  BY DEF E!Send
<1>2. new.req = r /\ new.field = f /\ new.value = v
  OBVIOUS
<1>3. \A c \in updates : c.req = r /\ c.field = f => c.value \in those
  BY DEF E!UnderWay
<1>4. f = "middleware" => those = {}
  BY DEF E!UnderWay
<1> HIDE DEF new, those
<1>5. Fielded(rivals', rivals, r, f, those)
  <2>1. FiveOf(rivals[r]) /\ r \in DOMAIN rivals
    BY DEF ServerInv
  <2>2. Fielded([rivals EXCEPT ![r][f] = those], rivals, r, f, those)
    BY <2>1, FieldPut
  <2> QED
    BY <1>1, <2>2
<1>6. IsFunction(rivals') /\ DOMAIN rivals' = DOMAIN saved /\ rivals'[r][f] = those /\ FiveOf(rivals'[r])
  BY <1>5 DEF Fielded, ServerInv
<1>7. ASSUME NEW q \in DOMAIN saved, NEW g \in Fields, ~ (q = r /\ g = f)
      PROVE  rivals'[q][g] = rivals[q][g] /\ wanted'[q][g] = wanted[q][g]
  <2>1. q \in DOMAIN rivals
    BY DEF ServerInv
  <2>2. rivals'[q][g] = rivals[q][g]
    BY <1>5, <1>7, <2>1 DEF Fielded
  <2> QED
    BY <1>7, <2>2
<1>8. ASSUME NEW q \in DOMAIN saved
      PROVE  FiveOf(rivals'[q]) /\ rivals'[q].middleware = {}
  <2>1. FiveOf(rivals[q]) /\ rivals[q].middleware = {} /\ q \in DOMAIN rivals
    BY DEF ServerInv
  <2>2. FiveOf(rivals'[q])
    BY <1>5, <1>6, <2>1 DEF Fielded
  <2>3. "middleware" \in Fields
    BY DEF Fields
  <2>4. CASE q = r /\ f = "middleware"
    BY <1>4, <1>6, <2>2, <2>4
  <2>5. CASE ~ (q = r /\ f = "middleware")
    <3>1. rivals'[q]["middleware"] = rivals[q]["middleware"]
      BY <1>7, <2>3, <2>5
    <3> QED
      BY <2>1, <2>2, <3>1
  <2> QED
    BY <2>4, <2>5
<1>9. UpdatesInv'
  <2>1. ASSUME NEW c \in updates'
        PROVE  /\ IsUpdate(c, DOMAIN saved')
               /\ Waits(timers', c.req, c.field) \/ c.value \in {wanted'[c.req][c.field]} \cup rivals'[c.req][c.field]
    <3>1. CASE c = new
      BY <1>2, <3>1 DEF IsUpdate
    <3>2. CASE c \in updates
      <4>1. IsUpdate(c, DOMAIN saved) /\ c.req \in DOMAIN saved /\ c.field \in Fields
        BY <3>2 DEF UpdatesInv, IsUpdate
      <4>2. Waits(timers, c.req, c.field) \/ c.value \in {wanted[c.req][c.field]} \cup rivals[c.req][c.field]
        BY <3>2 DEF UpdatesInv, Final
      <4>3. CASE c.req = r /\ c.field = f
        BY <1>3, <1>6, <3>2, <4>1, <4>3
      <4>4. CASE ~ (c.req = r /\ c.field = f)
        <5>1. /\ rivals'[c.req][c.field] = rivals[c.req][c.field]
              /\ wanted'[c.req][c.field] = wanted[c.req][c.field]
          BY <1>7, <4>1, <4>4
        <5>2. Waits(timers, c.req, c.field) => Waits(timers', c.req, c.field)
          BY <4>1, <4>4
        <5> QED
          BY <4>1, <4>2, <5>1, <5>2
      <4> QED
        BY <4>3, <4>4
    <3> QED
      BY <1>1, <3>1, <3>2
  <2>2. \A a \in answers' : SavedOf(a.stored) /\ DOMAIN a.stored = DOMAIN saved'
    BY <1>1 DEF UpdatesInv
  <2> QED
    BY <2>1, <2>2 DEF UpdatesInv, Final
<1>10. ServerInv'
  <2>1. ASSUME NEW q \in DOMAIN saved, NEW g \in Fields
        PROVE  Waits(timers', q, g) \/ OnWay(updates', q, g) \/ stored[q][g] \in {wanted'[q][g]} \cup rivals'[q][g]
    <3>1. Waits(timers, q, g) \/ OnWay(updates, q, g) \/ stored[q][g] \in {wanted[q][g]} \cup rivals[q][g]
      BY DEF ServerInv, Final
    <3>2. CASE q = r /\ g = f
      BY <1>1, <1>2, <3>2 DEF OnWay
    <3>3. CASE ~ (q = r /\ g = f)
      <4>1. OnWay(updates, q, g) => OnWay(updates', q, g)
        BY <1>1 DEF OnWay
      <4> QED
        BY <1>7, <3>1, <3>3, <4>1
    <3> QED
      BY <3>2, <3>3
  <2>2. SavedOf(stored') /\ DOMAIN stored' = DOMAIN saved'
    BY <1>1 DEF ServerInv
  <2> QED
    BY <1>1, <1>6, <1>8, <2>1, <2>2 DEF ServerInv, Final
<1> QED
  BY <1>9, <1>10

\* What is chosen is sent at once.
LEMMA SentWaits ==
  ASSUME TimersInv, UpdatesInv, ServerInv,
         NEW r \in DOMAIN saved, NEW f \in Fields \ Timed, NEW v, E!Send(r, f, v),
         f = "middleware" => \A c \in updates : c.field # "middleware",
         Fielded(wanted', wanted, r, f, v), UNCHANGED <<saved, timers>>
  PROVE  TimersInv' /\ UpdatesInv' /\ ServerInv'
<1>1. /\ IsFunction(wanted') /\ DOMAIN wanted' = DOMAIN saved /\ FiveOf(wanted'[r])
      /\ wanted'[r][f] = v /\ \A g \in Fields : g # f => wanted'[r][g] = wanted[r][g]
      /\ \A q \in DOMAIN saved : q # r => wanted'[q] = wanted[q]
  BY DEF Fielded, ServerInv
<1>2. ASSUME NEW q \in DOMAIN saved, NEW g \in Fields, ~ (q = r /\ g = f) PROVE wanted'[q][g] = wanted[q][g]
  BY <1>1, <1>2
<1>3. TimersInv'
  <2>1. ASSUME NEW k \in 1..Len(timers)
        PROVE  /\ IsUpdate(timers[k], DOMAIN saved') /\ timers[k].field \in Timed
               /\ timers[k].value = wanted'[timers[k].req][timers[k].field]
    <3>1. IsUpdate(timers[k], DOMAIN saved) /\ timers[k].field \in Timed /\ timers[k].value = wanted[timers[k].req][timers[k].field]
      BY DEF TimersInv
    <3>2. IsUpdate(timers[k], DOMAIN saved') /\ timers[k].req \in DOMAIN saved /\ timers[k].field \in Fields
      BY <3>1 DEF IsUpdate
    <3> QED
      BY <1>2, <3>1, <3>2
  <2> QED
    BY <2>1 DEF TimersInv
<1>4. UpdatesInv' /\ ServerInv'
  <2>1. \A q \in DOMAIN saved : FiveOf(wanted'[q])
    BY <1>1 DEF ServerInv
  <2>2. \A q \in DOMAIN saved, g \in Fields : ~ (q = r /\ g = f) =>
          wanted'[q][g] = wanted[q][g] /\ (Waits(timers, q, g) => Waits(timers', q, g))
    BY <1>2
  <2>3. f \in Fields /\ ~ (f \in {"body", "metadata"}) /\ UNCHANGED saved
    BY DEF Timed
  <2> QED
    BY <1>1, <2>1, <2>2, <2>3, OnItsWay
<1> QED
  BY <1>3, <1>4

\* A timer that runs out sends what was written last.
LEMMA SaveKeeps ==
  ASSUME TimersInv, UpdatesInv, ServerInv, E!Save
  PROVE  TimersInv' /\ UpdatesInv' /\ ServerInv'
<1> DEFINE u == timers[1]
<1>1. /\ timers # << >> /\ timers' = Tail(timers) /\ UNCHANGED <<saved, wanted>>
      /\ E!Send(Head(timers).req, Head(timers).field, Head(timers).value)
  BY DEF E!Save
<1>2. /\ IsSeq(timers') /\ Len(timers') = Len(timers) - 1 /\ Len(timers) > 0 /\ Len(timers) \in Nat
      /\ \A k \in 1..Len(timers) - 1 : timers'[k] = timers[k + 1]
      /\ Head(timers) = u
  BY <1>1, Tailed DEF TimersInv, IsSeq
<1>3. 1 \in 1..Len(timers) /\ \A k \in 1..Len(timers') : k + 1 \in 1..Len(timers) /\ timers'[k] = timers[k + 1] /\ k + 1 # 1 /\ k \in Int
  BY <1>2
<1>4. \A k \in 1..Len(timers) : k = 1 \/ (k - 1 \in 1..Len(timers') /\ (k - 1) + 1 = k)
  BY <1>2
<1>5. /\ IsUpdate(u, DOMAIN saved) /\ u.field \in Timed /\ u.value = wanted[u.req][u.field]
      /\ u.req \in DOMAIN saved /\ u.field \in Fields
  BY <1>3 DEF TimersInv, IsUpdate
<1>6. E!Send(u.req, u.field, u.value)
  BY <1>1, <1>2
<1> HIDE DEF u
<1>7. ASSUME NEW q, NEW g, Waits(timers, q, g), ~ (q = u.req /\ g = u.field) PROVE Waits(timers', q, g)
  <2>1. PICK k \in 1..Len(timers) : timers[k].req = q /\ timers[k].field = g
    BY <1>7 DEF Waits
  <2>2. k - 1 \in 1..Len(timers') /\ timers'[k - 1] = timers[k]
    BY <1>3, <1>4, <1>7, <2>1 DEF u
  <2> QED
    BY <2>1, <2>2 DEF Waits
<1>8. TimersInv'
  <2>1. ASSUME NEW j \in 1..Len(timers'), NEW k \in 1..Len(timers'),
               timers'[j].req = timers'[k].req, timers'[j].field = timers'[k].field
        PROVE  j = k
    <3>1. j + 1 = k + 1
      BY <1>3, <2>1 DEF TimersInv, OneEach
    <3> QED
      BY <1>3, <3>1
  <2>2. ASSUME NEW k \in 1..Len(timers')
        PROVE  /\ IsUpdate(timers'[k], DOMAIN saved') /\ timers'[k].field \in Timed
               /\ timers'[k].value = wanted'[timers'[k].req][timers'[k].field]
    BY <1>1, <1>3 DEF TimersInv
  <2> QED
    BY <1>2, <2>1, <2>2 DEF TimersInv, OneEach
<1>9. UpdatesInv' /\ ServerInv'
  <2>1. /\ IsFunction(wanted') /\ DOMAIN wanted' = DOMAIN saved
        /\ \A q \in DOMAIN saved : FiveOf(wanted'[q])
        /\ wanted'[u.req][u.field] = u.value
    BY <1>1, <1>5 DEF ServerInv
  <2>2. \A q \in DOMAIN saved, g \in Fields : ~ (q = u.req /\ g = u.field) =>
          wanted'[q][g] = wanted[q][g] /\ (Waits(timers, q, g) => Waits(timers', q, g))
    BY <1>1, <1>7
  <2>3. /\ u.field \in {"body", "metadata"} => IsText(u.value)
        /\ u.field = "middleware" => \A c \in updates : c.field # "middleware"
        /\ UNCHANGED saved
    BY <1>1, <1>5 DEF IsUpdate, Timed
  <2> QED
    BY <1>5, <1>6, <2>1, <2>2, <2>3, OnItsWay
<1> QED
  BY <1>8, <1>9

\* What the server makes of an update is one of its field that may be the last, or
\* there is more to come.
LEMMA ServeKeeps ==
  ASSUME TimersInv, UpdatesInv, ServerInv, NEW c \in updates, E!Serve(c)
  PROVE  TimersInv' /\ UpdatesInv' /\ ServerInv'
<1>1. /\ updates' = updates \ {c} /\ stored' = [stored EXCEPT ![c.req][c.field] = c.value]
      /\ answers' = answers \cup {[n |-> c.n, stored |-> stored']}
      /\ UNCHANGED <<saved, timers, wanted, rivals>>
  BY DEF E!Serve
<1>2. /\ c.req \in DOMAIN stored /\ c.field \in Fields /\ DOMAIN stored = DOMAIN saved
      /\ c.field \in {"body", "metadata"} => IsText(c.value)
      /\ Waits(timers, c.req, c.field) \/ c.value \in Final(c.req, c.field)
  BY DEF UpdatesInv, IsUpdate, ServerInv
<1>3. Fielded(stored', stored, c.req, c.field, c.value)
  <2>1. FiveOf(stored[c.req])
    BY <1>2 DEF SavedOf, ServerInv
  <2>2. Fielded([stored EXCEPT ![c.req][c.field] = c.value], stored, c.req, c.field, c.value)
    BY <1>2, <2>1, FieldPut
  <2> QED
    BY <1>1, <2>2
<1>4. SavedOf(stored') /\ DOMAIN stored' = DOMAIN saved
  <2>1. ASSUME NEW r \in DOMAIN stored
        PROVE  r # None /\ FiveOf(stored'[r]) /\ IsText(stored'[r].body) /\ IsText(stored'[r].metadata)
    <3>1. r # None /\ FiveOf(stored[r]) /\ IsText(stored[r].body) /\ IsText(stored[r].metadata)
      BY DEF SavedOf, ServerInv
    <3>2. CASE r # c.req
      BY <1>2, <1>3, <3>1, <3>2 DEF Fielded
    <3>3. CASE r = c.req
      <4>1. FiveOf(stored'[r]) /\ stored'[r][c.field] = c.value /\ \A g \in Fields : g # c.field => stored'[r][g] = stored[r][g]
        BY <1>3, <3>3 DEF Fielded
      <4>2. "body" \in Fields /\ "metadata" \in Fields
        BY DEF Fields
      <4>3. IsText(stored'[r].body)
        BY <1>2, <3>1, <4>1, <4>2
      <4>4. IsText(stored'[r].metadata)
        BY <1>2, <3>1, <4>1, <4>2
      <4> QED
        BY <3>1, <4>1, <4>3, <4>4
    <3> QED
      BY <3>2, <3>3
  <2> QED
    BY <1>2, <1>3, <2>1 DEF SavedOf, Fielded
<1>5. TimersInv'
  BY <1>1 DEF TimersInv
<1>6. UpdatesInv'
  <2>1. \A b \in updates' : /\ IsUpdate(b, DOMAIN saved')
                            /\ Waits(timers', b.req, b.field) \/ b.value \in Final(b.req, b.field)'
    BY <1>1 DEF UpdatesInv, Final
  <2>2. \A a \in answers' : SavedOf(a.stored) /\ DOMAIN a.stored = DOMAIN saved'
    <3> DEFINE new == [n |-> c.n, stored |-> stored']
    <3>1. SavedOf(new.stored) /\ DOMAIN new.stored = DOMAIN saved'
      BY <1>1, <1>4
    <3>2. answers' = answers \cup {new}
      BY <1>1
    <3> HIDE DEF new
    <3> QED
      BY <1>1, <3>1, <3>2 DEF UpdatesInv
  <2> QED
    BY <2>1, <2>2 DEF UpdatesInv
<1>7. ServerInv'
  <2>1. ASSUME NEW q \in DOMAIN saved, NEW g \in Fields
        PROVE  Waits(timers, q, g) \/ OnWay(updates', q, g) \/ stored'[q][g] \in Final(q, g)
    <3>1. CASE q = c.req /\ g = c.field
      <4>1. stored'[q][g] = c.value
        BY <1>3, <3>1 DEF Fielded
      <4> QED
        BY <1>2, <3>1, <4>1
    <3>2. CASE ~ (q = c.req /\ g = c.field)
      <4>1. stored'[q][g] = stored[q][g]
        BY <1>2, <1>3, <3>2 DEF Fielded
      <4>2. OnWay(updates, q, g) => OnWay(updates', q, g)
        BY <1>1, <3>2 DEF OnWay
      <4> QED
        BY <4>1, <4>2 DEF ServerInv
    <3> QED
      BY <3>1, <3>2
  <2> QED
    BY <1>1, <1>4, <2>1 DEF ServerInv, Final
<1> QED
  BY <1>5, <1>6, <1>7

\* A snapshot that arrives, however old, has the same requests.
LEMMA AnswerKeeps ==
  ASSUME TimersInv, UpdatesInv, ServerInv, NEW a \in answers, E!Answer(a)
  PROVE  SavedOf(saved') /\ DOMAIN saved' = DOMAIN saved /\ TimersInv' /\ UpdatesInv' /\ ServerInv'
<1>1. answers' = answers \ {a} /\ saved' = a.stored /\ UNCHANGED <<stored, timers, updates, wanted, rivals>>
  BY DEF E!Answer
<1>2. SavedOf(saved') /\ DOMAIN saved' = DOMAIN saved
  BY <1>1 DEF UpdatesInv
<1>3. TimersInv'
  BY <1>1, <1>2 DEF TimersInv
<1>4. UpdatesInv'
  BY <1>1, <1>2 DEF UpdatesInv, Final
<1>5. ServerInv'
  BY <1>1, <1>2 DEF ServerInv, Final
<1> QED
  BY <1>2, <1>3, <1>4, <1>5

------------------------------------------------------------------------------
(* The editor and its draft.                                                  *)

LEMMA SlotIs ==
  ASSUME NEW v, NEW s, NEW r, NEW t, E!Slot(v, s, r, t) # None
  PROVE  r # None /\ E!Slot(v, s, r, t) = IF t = "metadata" THEN "metadata" ELSE "body"
BY DEF E!Slot

LEMMA DraftPut ==
  ASSUME NEW d, IsDraft(d), NEW f \in Timed, NEW v, f \in {"body", "metadata"} => IsText(v)
  PROVE  IsDraft([d EXCEPT ![f] = v]) /\ [d EXCEPT ![f] = v][f] = v
<1> DEFINE n == [d EXCEPT ![f] = v]
<1>1. DOMAIN d = {"body", "extras", "target", "metadata"}
  BY DEF IsDraft
<1>2. /\ DOMAIN n = {"body", "extras", "target", "metadata"} /\ n = [x \in DOMAIN n |-> n[x]] /\ n[f] = v
      /\ \A g \in {"body", "extras", "target", "metadata"} : g # f => n[g] = d[g]
  BY <1>1 DEF Timed
<1> HIDE DEF n
<1>3. n = [body |-> n.body, extras |-> n.extras, target |-> n.target, metadata |-> n.metadata]
  BY <1>2
<1>4. n.extras = d.extras
  BY <1>2 DEF Timed
<1>5. IsText(n.body) /\ IsText(n.metadata)
  BY <1>2 DEF IsDraft
<1>6. IsDraft(n)
  BY <1>3, <1>4, <1>5 DEF IsDraft
<1> QED
  BY <1>2, <1>6 DEF n

LEMMA KeptPlaced ==
  ASSUME PaneTypes, NEW r \in DOMAIN saved, NEW d, IsDraft(d), Placed(kept', kept, r, d), UNCHANGED <<saved, shown>>
  PROVE  PaneTypes'
<1>1. KeptOf(kept)'
  BY DEF PaneTypes, KeptOf, Placed
<1>2. ShownInv'
  <2>1. ASSUME shown # None PROVE shown \in DOMAIN saved /\ IsDraft(kept'[shown])
    BY <2>1 DEF PaneTypes, ShownInv, KeptOf, Placed
  <2> QED
    BY <2>1 DEF ShownInv
<1> QED
  BY <1>1, <1>2 DEF PaneTypes

\* What E!Written does to the draft.
LEMMA WrittenDraft ==
  ASSUME PaneTypes, shown # None, NEW f \in Timed, NEW v, f \in {"body", "metadata"} => IsText(v),
         E!Written(shown, f, v), UNCHANGED <<saved, shown>>
  PROVE  PaneTypes' /\ kept'[shown][f] = v
<1> DEFINE d == [kept[shown] EXCEPT ![f] = v]
<1>1. shown \in DOMAIN saved /\ shown \in DOMAIN kept /\ IsDraft(kept[shown]) /\ IsFunction(kept)
  BY DEF PaneTypes, ShownInv, KeptOf
<1>2. IsDraft(d) /\ d[f] = v
  BY <1>1, DraftPut
<1>3. Placed(kept', kept, shown, d)
  <2>1. kept' = [kept EXCEPT ![shown][f] = v]
    BY DEF E!Written
  <2> QED
    BY <1>1, <2>1 DEF Placed, IsFunction
<1> HIDE DEF d
<1>4. kept'[shown] = d
  BY <1>3 DEF Placed
<1> QED
  BY <1>1, <1>2, <1>3, <1>4, KeptPlaced

LEMMA WrittenSaves ==
  ASSUME SavedOf(saved), TimersInv, UpdatesInv, ServerInv,
         NEW r \in DOMAIN saved, NEW f \in Timed, NEW v, f \in {"body", "metadata"} => IsText(v),
         E!Written(r, f, v), UNCHANGED <<saved, stored, updates, answers, rivals>>
  PROVE  TimersInv' /\ UpdatesInv' /\ ServerInv'
<1>1. timers' = E!Rescheduled(r, f, v) /\ wanted' = [wanted EXCEPT ![r][f] = v]
  BY DEF E!Written
<1>2. r \in DOMAIN wanted /\ FiveOf(wanted[r]) /\ f \in Fields
  BY DEF ServerInv, Timed, Fields
<1>3. Fielded([wanted EXCEPT ![r][f] = v], wanted, r, f, v)
  BY <1>2, FieldPut
<1>4. Fielded(wanted', wanted, r, f, v)
  BY <1>1, <1>3
<1> QED
  BY <1>1, <1>4, WrittenWaits

\* A change of the text changes the draft with it, and its save is due.
LEMMA ChangedKeeps ==
  ASSUME PaneTypes, EditorInv, TimersInv, UpdatesInv, ServerInv, UNCHANGED treeVars,
         E!Edited # None, NEW t, IsScript(t), E!Changed(t)
  PROVE  /\ PaneTypes' /\ TimersInv' /\ UpdatesInv' /\ ServerInv'
         /\ E!Edited' = E!Edited /\ text' = kept'[shown'][E!Edited]
         /\ text' = E!Switched(t) /\ idle' = E!Switched(t).wrapped /\ shown' = shown /\ tab' = tab
<1>1. /\ text' = E!Switched(t) /\ idle' = E!Switched(t).wrapped
      /\ E!Written(shown, E!Edited, E!Switched(t)) /\ UNCHANGED <<saved, shown, tab, stored, updates, answers, rivals>>
  BY DEF E!Changed, E!Reported, E!wire
<1>2. E!Edited \in {"body", "metadata"} /\ E!Edited \in Timed /\ shown # None
  BY SlotIs DEF E!Edited, Timed
<1>3. IsText(E!Switched(t))
  BY SwitchIs
<1>4. PaneTypes' /\ kept'[shown][E!Edited] = E!Switched(t)
  BY <1>1, <1>2, <1>3, WrittenDraft
<1>5. SavedOf(saved) /\ shown \in DOMAIN saved
  BY <1>2 DEF PaneTypes, ShownInv
<1>6. TimersInv' /\ UpdatesInv' /\ ServerInv'
  BY <1>1, <1>2, <1>3, <1>5, WrittenSaves
<1>7. E!Edited' = E!Edited
  BY <1>1, StillShown DEF E!Edited
<1> QED
  BY <1>1, <1>4, <1>6, <1>7

\* Another request, tab or view, or another snapshot of the request.
Steady == shown' = shown /\ tab' = tab /\ text # None /\ text' # None => text' = text

LEMMA ShowsKeeps ==
  ASSUME PaneTypes, EditorInv, PassesInv, ArmedInv, Careful, ShownInv', E!Shows,
         shown' = shown /\ shown # None => kept'[shown] = kept[shown],
         shown' # shown /\ passes' # {} => E!NoneWaitsWith(text')
  PROVE  EditorInv' /\ PassesInv' /\ ArmedInv' /\ Steady
<1>1. CASE E!Edited' = E!Edited /\ shown' = shown
  <2>1. UNCHANGED <<text, armed, idle, passes, pasted>>
    BY <1>1 DEF E!Shows, E!Edited, E!editor
  <2>2. PassesInv' /\ ArmedInv' /\ Steady
    BY <2>1 DEF PassesInv, ArmedInv, Steady
  <2>3. EditorInv'
    <3>1. CASE E!Edited = None
      BY <1>1, <2>1, <3>1 DEF EditorInv
    <3>2. CASE E!Edited # None
      <4>1. shown # None
        BY <3>2, SlotIs DEF E!Edited
      <4> QED
        BY <1>1, <2>1, <3>2, <4>1 DEF EditorInv
    <3> QED
      BY <3>1, <3>2
  <2> QED
    BY <2>2, <2>3
<1>2. CASE ~ (E!Edited' = E!Edited /\ shown' = shown)
  <2>1. /\ text' = IF E!Edited' = None THEN None ELSE kept'[shown'][E!Edited']
        /\ armed' = FALSE /\ idle' = FALSE
        /\ passes' = IF E!Edited' = E!Edited THEN passes ELSE {}
        /\ pasted' = {}
    BY <1>2 DEF E!Shows, E!Edited, E!ArmedAfter
  <2>2. E!Edited' = None => passes' = {}
    BY <2>1 DEF EditorInv
  <2>3. EditorInv' /\ ArmedInv'
    BY <2>1, <2>2 DEF EditorInv, ArmedInv
  <2>4. PassesInv'
    <3>1. ASSUME NEW p \in passes' PROVE IsPass(p) /\ PassOf(p, text', pasted')
      <4>1. passes' = passes /\ E!Edited' = E!Edited /\ shown' # shown
        BY <1>2, <2>1, <3>1
      <4>2. E!NoneWaitsWith(text')
        BY <3>1, <4>1
      <4>3. text'.wrapped => p.before.uses # text'.uses
        BY <3>1, <4>1, <4>2 DEF E!NoneWaitsWith
      <4> QED
        BY <3>1, <4>1, <4>3 DEF PassesInv, PassOf
    <3> QED
      BY <3>1 DEF PassesInv
  <2>5. Steady
    <3>1. ASSUME shown' = shown, tab' = tab, text # None, text' # None PROVE FALSE
      <4>1. E!Edited # None /\ E!Edited' # None
        BY <2>1, <3>1 DEF EditorInv
      <4>2. E!Edited = (IF tab = "metadata" THEN "metadata" ELSE "body")
        BY <4>1, SlotIs DEF E!Edited
      <4>3. E!Edited' = (IF tab' = "metadata" THEN "metadata" ELSE "body")
        <5>1. E!Edited' = E!Slot(Current', saved', shown', tab')
          BY DEF E!Edited
        <5> QED
          BY <4>1, <5>1, SlotIs
      <4> QED
        BY <1>2, <3>1, <4>2, <4>3
    <3> QED
      BY <3>1 DEF Steady
  <2> QED
    BY <2>3, <2>4, <2>5
<1> QED
  BY <1>1, <1>2

\* What the two action properties say of a step.
KeepsUsed ==
  text # None /\ text' # None /\ text.wrapped /\ text'.uses = text.uses /\ shown' = shown /\ tab' = tab
    => text.imports \ text'.imports \subseteq E!Unused(text)

OpensForPaste ==
  text # None /\ text' # None /\ text.wrapped /\ ~ text'.wrapped /\ text'.lead = text.lead /\ shown' = shown /\ tab' = tab
    => E!Ambiguous(text, E!Unresolved(text)) \subseteq pasted

LEMMA SteadyKeeps ==
  ASSUME Steady
  PROVE  KeepsUsed /\ OpensForPaste
BY DEF Steady, KeepsUsed, OpensForPaste

LEMMA TextIs ==
  ASSUME PaneTypes, EditorInv, E!Edited # None
  PROVE  IsText(text) /\ shown # None /\ shown \in DOMAIN saved
<1>1. shown # None /\ E!Edited \in {"body", "metadata"}
  BY SlotIs DEF E!Edited
<1>2. text = kept[shown][E!Edited] /\ shown \in DOMAIN saved /\ IsDraft(kept[shown])
  BY <1>1 DEF PaneTypes, ShownInv, EditorInv
<1> QED
  BY <1>1, <1>2 DEF IsDraft

\* The author's change of a text.
LEMMA EditKeeps ==
  ASSUME RequestInv, UNCHANGED treeVars, E!Edited # None, NEW t, IsScript(t), E!Changed(t),
         text.wrapped => t.wrapped /\ text.imports \subseteq t.imports,
         E!NoneWaitsWith(text'), Careful, passes' = passes, armed' \in BOOLEAN
  PROVE  /\ PaneTypes' /\ EditorInv' /\ TimersInv' /\ UpdatesInv' /\ ServerInv' /\ PassesInv'
         /\ KeepsUsed /\ OpensForPaste
         /\ text' = E!Switched(t) /\ idle' = E!Switched(t).wrapped
<1>1. /\ PaneTypes' /\ TimersInv' /\ UpdatesInv' /\ ServerInv'
      /\ E!Edited' = E!Edited /\ text' = kept'[shown'][E!Edited]
      /\ text' = E!Switched(t) /\ idle' = E!Switched(t).wrapped
  BY ChangedKeeps DEF RequestInv
<1>2. /\ IsText(E!Switched(t))
      /\ E!Switched(t).uses = t.uses /\ E!Switched(t).imports = t.imports /\ E!Switched(t).lead = t.lead
      /\ t.wrapped /\ ~ E!Switched(t).wrapped => t.lead = "other"
  BY SwitchIs
<1>3. EditorInv'
  <2>1. idle' \in BOOLEAN
    BY <1>1, <1>2 DEF IsText, IsScript, IsForm
  <2> QED
    BY <1>1, <2>1 DEF EditorInv
<1>4. PassesInv'
  <2>1. ASSUME NEW p \in passes PROVE IsPass(p) /\ PassOf(p, text', pasted')
    <3>1. text'.wrapped => p.before.uses # text'.uses
      BY DEF E!NoneWaitsWith
    <3> QED
      BY <3>1 DEF RequestInv, PassesInv, PassOf
  <2> QED
    BY <2>1 DEF PassesInv
<1>5. KeepsUsed
  BY <1>1, <1>2 DEF KeepsUsed
<1>6. OpensForPaste
  <2>1. IsText(text)
    BY TextIs DEF RequestInv
  <2> QED
    BY <1>1, <1>2, <2>1 DEF OpensForPaste, IsText
<1> QED
  BY <1>1, <1>3, <1>4, <1>5, <1>6

LEMMA TypeKeeps ==
  ASSUME RequestInv, UNCHANGED treeVars, Careful, NEW a, NEW cut \in BOOLEAN, E!Type(a, cut)
  PROVE  RequestInv' /\ KeepsUsed /\ OpensForPaste
<1> DEFINE t == [text EXCEPT !.lead = a.lead, !.uses = a.uses,
                            !.imports = IF cut THEN {} ELSE @, !.shim = ~ cut /\ @]
<1>1. /\ E!Edited # None /\ ~ (armed /\ idle) /\ (cut => ~ text.wrapped)
      /\ E!Changed(t) /\ E!NoneWaitsWith(text') /\ UNCHANGED <<armed, passes, pasted>>
  BY DEF E!Type
<1>2. IsText(text)
  BY <1>1, TextIs DEF RequestInv
<1>3. /\ DOMAIN t = {"wrapped", "shim", "imports", "lead", "uses"} /\ t = [x \in DOMAIN t |-> t[x]]
      /\ t.wrapped = text.wrapped /\ t.shim \in BOOLEAN /\ (t.shim <=> ~ cut /\ text.shim)
      /\ (~ cut => t.imports = text.imports)
  BY <1>2 DEF IsText, IsScript, IsForm
<1> HIDE DEF t
<1>4. IsScript(t) /\ (text.wrapped => t.wrapped /\ text.imports \subseteq t.imports)
  BY <1>1, <1>2, <1>3, FiveFields DEF IsText, IsScript, IsForm
<1>5. armed \in BOOLEAN /\ (armed => idle)
  BY DEF RequestInv, EditorInv, ArmedInv
<1>6. /\ PaneTypes' /\ EditorInv' /\ TimersInv' /\ UpdatesInv' /\ ServerInv' /\ PassesInv'
      /\ KeepsUsed /\ OpensForPaste
  BY <1>1, <1>4, <1>5, EditKeeps
<1>7. ArmedInv'
  BY <1>1, <1>5 DEF ArmedInv
<1> QED
  BY <1>6, <1>7 DEF RequestInv

LEMMA CompleteKeeps ==
  ASSUME RequestInv, UNCHANGED treeVars, Careful, NEW n, E!Complete(n)
  PROVE  RequestInv' /\ KeepsUsed /\ OpensForPaste
<1> DEFINE t == [text EXCEPT !.uses = @ \cup {n}, !.imports = @ \cup {n}]
<1>1. /\ E!Edited # None /\ ~ (armed /\ idle)
      /\ E!Changed(t) /\ E!NoneWaitsWith(text') /\ UNCHANGED <<armed, passes, pasted>>
  BY DEF E!Complete
<1>2. IsText(text)
  BY <1>1, TextIs DEF RequestInv
<1>3. /\ DOMAIN t = {"wrapped", "shim", "imports", "lead", "uses"} /\ t = [x \in DOMAIN t |-> t[x]]
      /\ t.wrapped = text.wrapped /\ t.shim = text.shim /\ text.imports \subseteq t.imports
  BY <1>2 DEF IsText, IsScript, IsForm
<1> HIDE DEF t
<1>4. IsScript(t) /\ (text.wrapped => t.wrapped /\ text.imports \subseteq t.imports)
  BY <1>2, <1>3, FiveFields DEF IsText, IsScript, IsForm
<1>5. armed \in BOOLEAN /\ (armed => idle)
  BY DEF RequestInv, EditorInv, ArmedInv
<1>6. /\ PaneTypes' /\ EditorInv' /\ TimersInv' /\ UpdatesInv' /\ ServerInv' /\ PassesInv'
      /\ KeepsUsed /\ OpensForPaste
  BY <1>1, <1>4, <1>5, EditKeeps
<1>7. ArmedInv'
  BY <1>1, <1>5 DEF ArmedInv
<1> QED
  BY <1>6, <1>7 DEF RequestInv

LEMMA PasteKeeps ==
  ASSUME RequestInv, UNCHANGED treeVars, Careful, NEW a, E!Paste(a)
  PROVE  RequestInv' /\ KeepsUsed /\ OpensForPaste
<1> DEFINE t == [text EXCEPT !.lead = a.lead, !.uses = a.uses]
<1>1. /\ E!Edited # None /\ text.wrapped /\ a.lead = "brace"
      /\ E!Changed(t) /\ E!NoneWaitsWith(text') /\ armed' = TRUE /\ pasted' = text'.uses /\ passes' = passes
  BY DEF E!Paste
<1>2. IsText(text)
  BY <1>1, TextIs DEF RequestInv
<1>3. /\ DOMAIN t = {"wrapped", "shim", "imports", "lead", "uses"} /\ t = [x \in DOMAIN t |-> t[x]]
      /\ t.wrapped = text.wrapped /\ t.shim = text.shim /\ text.imports = t.imports /\ t.lead = "brace"
  BY <1>1, <1>2 DEF IsText, IsScript, IsForm
<1> HIDE DEF t
<1>4. IsScript(t) /\ (text.wrapped => t.wrapped /\ text.imports \subseteq t.imports)
  BY <1>2, <1>3, FiveFields DEF IsText, IsScript, IsForm
<1>5. /\ PaneTypes' /\ EditorInv' /\ TimersInv' /\ UpdatesInv' /\ ServerInv' /\ PassesInv'
      /\ KeepsUsed /\ OpensForPaste /\ text' = E!Switched(t) /\ idle' = E!Switched(t).wrapped
  BY <1>1, <1>4, EditKeeps
<1>6. E!Switched(t) = t
  BY <1>1, <1>3, <1>4, SwitchIs
<1>7. ASSUME NEW p \in passes PROVE p.before.uses # text'.uses
  BY <1>1, <1>3, <1>5, <1>6 DEF E!NoneWaitsWith
<1>8. ArmedInv'
  BY <1>1, <1>3, <1>5, <1>6, <1>7 DEF ArmedInv
<1> QED
  BY <1>5, <1>8 DEF RequestInv

------------------------------------------------------------------------------
(* The passes.                                                                *)

\* A step that leaves the text and what is saved alone.
LEMMA PassesOnly ==
  ASSUME RequestInv, UNCHANGED treeVars, UNCHANGED <<saved, kept, shown, tab, text, timers, stored, updates, answers, wanted, rivals>>
  PROVE  /\ PaneTypes' /\ TimersInv' /\ UpdatesInv' /\ ServerInv' /\ E!Edited' = E!Edited
         /\ KeepsUsed /\ OpensForPaste
<1>1. E!Edited' = E!Edited
  BY StillShown DEF E!Edited
<1>2. PaneTypes' /\ TimersInv' /\ UpdatesInv' /\ ServerInv'
  BY DEF RequestInv, PaneTypes, KeptOf, ShownInv, TimersInv, UpdatesInv, ServerInv, Final
<1> QED
  BY <1>1, <1>2, SteadyKeeps DEF Steady

LEMMA IdleKeeps ==
  ASSUME RequestInv, UNCHANGED treeVars, E!Idle
  PROVE  RequestInv' /\ KeepsUsed /\ OpensForPaste
<1> DEFINE kind == IF armed THEN "resolve" ELSE "prune"
           new == [kind |-> kind, before |-> text, found |-> None]
<1>1. /\ idle /\ idle' = FALSE /\ armed' = FALSE
      /\ passes' = passes \cup (IF text.wrapped THEN {new} ELSE {})
      /\ UNCHANGED <<saved, kept, shown, tab, text, timers, stored, updates, answers, wanted, rivals, pasted>>
  BY DEF E!Idle, E!Pass, E!wire
<1>2. /\ PaneTypes' /\ TimersInv' /\ UpdatesInv' /\ ServerInv' /\ E!Edited' = E!Edited
      /\ KeepsUsed /\ OpensForPaste
  BY <1>1, PassesOnly
<1>3. E!Edited # None /\ IsText(text)
  BY <1>1, TextIs DEF RequestInv, EditorInv
<1>4. EditorInv' /\ ArmedInv'
  BY <1>1, <1>2, <1>3 DEF EditorInv, ArmedInv, RequestInv
<1>5. new = [kind |-> new.kind, before |-> new.before, found |-> new.found] /\ new.kind = kind /\ new.before = text /\ new.found = None
  OBVIOUS
<1> HIDE DEF new
<1>6. ASSUME text.wrapped PROVE IsPass(new) /\ PassOf(new, text, pasted)
  <2>1. kind \in {"resolve", "prune"} /\ (kind = "resolve" => text.uses \subseteq pasted)
    BY DEF RequestInv, ArmedInv
  <2>2. IsPass(new)
    BY <1>3, <1>5, <1>6, <2>1 DEF IsPass
  <2>3. PassOf(new, text, pasted)
    BY <1>5, <2>1 DEF PassOf
  <2> QED
    BY <2>2, <2>3
<1>7. PassesInv'
  BY <1>1, <1>6 DEF PassesInv, RequestInv
<1> QED
  BY <1>2, <1>4, <1>7 DEF RequestInv

LEMMA WorkerKeeps ==
  ASSUME RequestInv, UNCHANGED treeVars, NEW p \in passes, E!Worker(p)
  PROVE  RequestInv' /\ KeepsUsed /\ OpensForPaste
<1> DEFINE found == IF p.kind = "resolve" THEN E!Unresolved(text) ELSE E!Unused(text)
           q == [p EXCEPT !.found = found]
<1>1. /\ p.found = None /\ passes' = (passes \ {p}) \cup {q}
      /\ UNCHANGED <<saved, kept, shown, tab, text, armed, idle, timers, stored, updates, answers, wanted, rivals, pasted>>
  BY DEF E!Worker, E!wire
<1>2. /\ PaneTypes' /\ TimersInv' /\ UpdatesInv' /\ ServerInv' /\ E!Edited' = E!Edited
      /\ KeepsUsed /\ OpensForPaste
  BY <1>1, PassesOnly
<1>3. IsPass(p) /\ PassOf(p, text, pasted)
  BY DEF RequestInv, PassesInv
<1>4. q = [kind |-> p.kind, before |-> p.before, found |-> found]
  BY <1>3 DEF IsPass
<1>5. q = [kind |-> q.kind, before |-> q.before, found |-> q.found] /\ q.kind = p.kind /\ q.before = p.before /\ q.found = found
  BY <1>4
<1> HIDE DEF q
<1>6. IsPass(q)
  BY <1>3, <1>5 DEF IsPass
<1>7. PassOf(q, text, pasted)
  <2>1. ASSUME text.wrapped, text.uses = p.before.uses, p.kind = "prune"
        PROVE  text.imports \ text.uses \subseteq found /\ found \subseteq p.before.imports \ text.uses
    BY <1>3, <2>1 DEF PassOf, E!Unused
  <2>2. ASSUME text.wrapped, text.uses = p.before.uses, p.kind = "resolve"
        PROVE  text.uses \ text.imports \subseteq found /\ found \subseteq text.uses \ p.before.imports
    BY <1>3, <2>2 DEF PassOf, E!Unresolved
  <2> HIDE DEF found
  <2> QED
    BY <1>3, <1>5, <2>1, <2>2 DEF PassOf
<1>8. PassesInv'
  BY <1>1, <1>6, <1>7 DEF PassesInv, RequestInv
<1>9. passes # {} /\ E!Edited # None
  BY DEF RequestInv, EditorInv
<1>10. EditorInv'
  BY <1>1, <1>2, <1>9 DEF EditorInv, RequestInv
<1>11. ArmedInv'
  BY <1>1, <1>5 DEF ArmedInv, RequestInv
<1> QED
  BY <1>2, <1>8, <1>10, <1>11 DEF RequestInv

\* A pass that is applied: of the text it was asked about it takes what is not used,
\* or adds what is, or opens the region up for the names of a paste.
LEMMA AppliedKeeps ==
  ASSUME RequestInv, UNCHANGED treeVars, NEW p \in passes, p.found # None, text = p.before,
         NEW t, t = E!Outcome(p), E!Changed(t), passes' = passes \ {p}, UNCHANGED <<armed, pasted>>
  PROVE  RequestInv' /\ KeepsUsed /\ OpensForPaste
<1>1. IsPass(p) /\ PassOf(p, text, pasted) /\ E!Edited # None
  BY DEF RequestInv, PassesInv, EditorInv
<1>2. IsText(text) /\ text.wrapped /\ text.uses = p.before.uses
  BY <1>1 DEF IsPass
<1>3. /\ IsText(t) /\ E!Switched(t) = t /\ t.uses = text.uses /\ t.lead = text.lead
      /\ p.kind = "prune" => t.wrapped /\ t.imports = text.imports \ p.found
      /\ p.kind = "resolve" /\ t.wrapped => t.imports = text.imports \cup p.found
      /\ p.kind = "resolve" => text.imports \subseteq t.imports
  <2>1. CASE p.kind = "prune"
    <3>1. t = E!Pruned(text, p.found)
      BY <2>1 DEF E!Outcome
    <3> QED
      BY <1>2, <2>1, <3>1, PrunedIs
  <2>2. CASE p.kind = "resolve"
    <3>1. t = E!Resolved(text, p.found)
      BY <2>2 DEF E!Outcome
    <3>2. /\ IsText(E!Resolved(text, p.found)) /\ E!Switched(E!Resolved(text, p.found)) = E!Resolved(text, p.found)
          /\ E!Resolved(text, p.found).uses = text.uses /\ E!Resolved(text, p.found).lead = text.lead
          /\ IF E!Bails(text, p.found)
               THEN E!Resolved(text, p.found).imports = text.imports /\ ~ E!Resolved(text, p.found).wrapped
               ELSE E!Resolved(text, p.found).imports = text.imports \cup p.found /\ E!Resolved(text, p.found).wrapped
      BY <1>2, ResolvedIs
    <3> QED
      BY <2>2, <3>1, <3>2
  <2> QED
    BY <1>1, <2>1, <2>2 DEF IsPass
<1>4. IsScript(t)
  BY <1>3 DEF IsText
<1>5. /\ PaneTypes' /\ TimersInv' /\ UpdatesInv' /\ ServerInv'
      /\ E!Edited' = E!Edited /\ text' = kept'[shown'][E!Edited]
      /\ text' = t /\ idle' = t.wrapped
  BY <1>1, <1>3, <1>4, ChangedKeeps DEF RequestInv
<1>6. EditorInv'
  <2>1. idle' \in BOOLEAN
    BY <1>3, <1>5 DEF IsText, IsScript, IsForm
  <2> QED
    BY <1>1, <1>5, <2>1 DEF EditorInv, RequestInv
<1>7. /\ p.kind = "prune" => text.imports \ text.uses \subseteq p.found /\ p.found \subseteq text.imports \ text.uses
      /\ p.kind = "resolve" => /\ text.uses \ text.imports \subseteq p.found /\ p.found \subseteq text.uses \ text.imports
                               /\ text.uses \subseteq pasted
  BY <1>1, <1>2 DEF PassOf
<1>8. ASSUME NEW q \in passes' PROVE IsPass(q) /\ PassOf(q, t, pasted)
  <2>1. IsPass(q) /\ PassOf(q, text, pasted)
    BY <1>8 DEF RequestInv, PassesInv
  <2>2. CASE p.kind = "prune"
    BY <1>2, <1>3, <1>7, <2>1, <2>2 DEF PassOf
  <2>3. CASE p.kind = "resolve"
    <3>1. CASE ~ t.wrapped
      BY <2>1, <3>1 DEF PassOf
    <3>2. CASE t.wrapped
      <4>1. t.imports = text.imports \cup p.found
        BY <1>3, <2>3, <3>2
      <4>2. /\ text.imports \subseteq t.imports /\ t.imports \subseteq text.imports \cup text.uses
            /\ t.imports \ text.uses = text.imports \ text.uses /\ t.uses \ t.imports = {}
        BY <1>3, <1>7, <2>3, <4>1
      <4> QED
        BY <1>2, <1>3, <2>1, <4>2 DEF PassOf
    <3> QED
      BY <3>1, <3>2
  <2> QED
    BY <1>1, <2>2, <2>3 DEF IsPass
<1>9. PassesInv'
  BY <1>5, <1>8 DEF PassesInv
<1>10. ArmedInv'
  <2>1. ASSUME armed PROVE idle' /\ text'.wrapped /\ text'.uses \subseteq pasted
                           /\ \A q \in passes' : q.kind = "resolve" => q.before.uses # text'.uses
    <3>1. p.kind = "prune"
      BY <1>1, <2>1 DEF RequestInv, ArmedInv, IsPass
    <3>2. t.wrapped /\ t.uses = text.uses
      BY <1>3, <3>1
    <3>3. text.uses \subseteq pasted /\ \A q \in passes : q.kind = "resolve" => q.before.uses # text.uses
      BY <2>1 DEF RequestInv, ArmedInv
    <3> QED
      BY <1>5, <3>2, <3>3
  <2> QED
    BY <2>1 DEF ArmedInv
<1>11. KeepsUsed
  BY <1>1, <1>3, <1>5, <1>7 DEF KeepsUsed, E!Unused, IsPass
<1>12. OpensForPaste
  BY <1>1, <1>3, <1>5, <1>7 DEF OpensForPaste, E!Ambiguous, E!Unresolved, IsPass
<1> QED
  BY <1>5, <1>6, <1>9, <1>10, <1>11, <1>12 DEF RequestInv

LEMMA FinishKeeps ==
  ASSUME RequestInv, UNCHANGED treeVars, NEW p \in passes, E!Finish(p)
  PROVE  RequestInv' /\ KeepsUsed /\ OpensForPaste
<1>1. IsPass(p) /\ PassOf(p, text, pasted) /\ E!Edited # None
  BY DEF RequestInv, PassesInv, EditorInv
<1>2. CASE E!Fresh(p) /\ E!Outcome(p) # p.before
  <2>1. /\ p.found # None /\ text = p.before
        /\ E!Changed(E!Outcome([p EXCEPT !.before = text])) /\ passes' = passes \ {p} /\ UNCHANGED <<armed, pasted>>
    BY <1>2 DEF E!Finish, E!Fresh
  <2>2. [p EXCEPT !.before = text] = p
    BY <1>1, <2>1 DEF IsPass
  <2>3. E!Changed(E!Outcome(p))
    BY <2>1, <2>2
  <2> QED
    BY <2>1, <2>3, AppliedKeeps
<1>3. CASE ~ (E!Fresh(p) /\ E!Outcome(p) # p.before)
  <2> DEFINE new == [kind |-> "prune", before |-> text, found |-> None]
  <2>1. /\ passes' \subseteq passes \cup (IF text.wrapped THEN {new} ELSE {})
        /\ UNCHANGED <<saved, kept, shown, tab, text, armed, idle, timers, stored, updates, answers, wanted, rivals, pasted>>
    BY <1>3 DEF E!Finish, E!Pass, E!wire
  <2>2. /\ PaneTypes' /\ TimersInv' /\ UpdatesInv' /\ ServerInv' /\ E!Edited' = E!Edited
        /\ KeepsUsed /\ OpensForPaste
    BY <2>1, PassesOnly
  <2>3. IsText(text)
    BY <1>1, TextIs DEF RequestInv
  <2>4. EditorInv'
    BY <1>1, <2>1, <2>2 DEF EditorInv, RequestInv
  <2>5. /\ new = [kind |-> new.kind, before |-> new.before, found |-> new.found]
        /\ new.kind = "prune" /\ new.before = text /\ new.found = None
    OBVIOUS
  <2> HIDE DEF new
  <2>6. ASSUME text.wrapped PROVE IsPass(new) /\ PassOf(new, text, pasted)
    <3>1. IsPass(new)
      BY <2>3, <2>5, <2>6 DEF IsPass
    <3>2. PassOf(new, text, pasted)
      BY <2>5 DEF PassOf
    <3> QED
      BY <3>1, <3>2
  <2>7. PassesInv'
    BY <2>1, <2>6 DEF PassesInv, RequestInv
  <2>8. ArmedInv'
    BY <2>1, <2>5 DEF ArmedInv, RequestInv
  <2> QED
    BY <2>2, <2>4, <2>7, <2>8 DEF RequestInv
<1> QED
  BY <1>2, <1>3

------------------------------------------------------------------------------
(* The rest of the pane.                                                      *)

\* A step that leaves the editor alone, and the draft it shows.
LEMMA EditorStays ==
  ASSUME RequestInv, UNCHANGED treeVars, UNCHANGED <<shown, tab, text, armed, idle, passes, pasted>>,
         E!Edited' = E!Edited, E!Edited # None => kept'[shown][E!Edited] = kept[shown][E!Edited]
  PROVE  EditorInv' /\ PassesInv' /\ ArmedInv' /\ KeepsUsed /\ OpensForPaste
<1>1. EditorInv'
  BY DEF EditorInv, RequestInv
<1>2. PassesInv' /\ ArmedInv'
  BY DEF PassesInv, ArmedInv, RequestInv
<1> QED
  BY <1>1, <1>2, SteadyKeeps DEF Steady

LEMMA SavingKeeps ==
  ASSUME RequestInv, UNCHANGED treeVars, E!Save
  PROVE  RequestInv' /\ KeepsUsed /\ OpensForPaste
<1>1. UNCHANGED <<saved, kept, shown, tab, text, armed, idle, passes, pasted>>
  BY DEF E!Save, E!editor
<1>2. E!Edited' = E!Edited
  BY <1>1, StillShown DEF E!Edited
<1>3. PaneTypes'
  BY <1>1 DEF RequestInv, PaneTypes, KeptOf, ShownInv
<1>4. TimersInv' /\ UpdatesInv' /\ ServerInv'
  BY SaveKeeps DEF RequestInv
<1>5. EditorInv' /\ PassesInv' /\ ArmedInv' /\ KeepsUsed /\ OpensForPaste
  BY <1>1, <1>2, EditorStays
<1> QED
  BY <1>3, <1>4, <1>5 DEF RequestInv

LEMMA ServedKeeps ==
  ASSUME RequestInv, UNCHANGED treeVars, NEW c \in updates, E!Serve(c)
  PROVE  RequestInv' /\ KeepsUsed /\ OpensForPaste
<1>1. UNCHANGED <<saved, kept, shown, tab, text, armed, idle, passes, pasted>>
  BY DEF E!Serve, E!editor
<1>2. E!Edited' = E!Edited
  BY <1>1, StillShown DEF E!Edited
<1>3. PaneTypes'
  BY <1>1 DEF RequestInv, PaneTypes, KeptOf, ShownInv
<1>4. TimersInv' /\ UpdatesInv' /\ ServerInv'
  BY ServeKeeps DEF RequestInv
<1>5. EditorInv' /\ PassesInv' /\ ArmedInv' /\ KeepsUsed /\ OpensForPaste
  BY <1>1, <1>2, EditorStays
<1> QED
  BY <1>3, <1>4, <1>5 DEF RequestInv

LEMMA AnsweredKeeps ==
  ASSUME RequestInv, UNCHANGED treeVars, Careful, NEW a \in answers, E!Answer(a)
  PROVE  RequestInv' /\ KeepsUsed /\ OpensForPaste
<1>1. UNCHANGED <<kept, shown, tab>> /\ E!Shows
  BY DEF E!Answer
<1>2. SavedOf(saved') /\ DOMAIN saved' = DOMAIN saved /\ TimersInv' /\ UpdatesInv' /\ ServerInv'
  BY AnswerKeeps DEF RequestInv
<1>3. PaneTypes'
  BY <1>1, <1>2 DEF RequestInv, PaneTypes, KeptOf, ShownInv
<1>4. EditorInv' /\ PassesInv' /\ ArmedInv' /\ Steady
  <2>1. ShownInv'
    BY <1>3 DEF PaneTypes
  <2> QED
    BY <1>1, <2>1, ShowsKeeps DEF RequestInv
<1> QED
  BY <1>2, <1>3, <1>4, SteadyKeeps DEF RequestInv

\* A request is opened with a draft of its own.
LEMMA SeededIs ==
  ASSUME PaneTypes, NEW r \in DOMAIN saved, kept' = E!Seeded(kept, r), saved' = saved
  PROVE  /\ KeptOf(kept)' /\ IsDraft(kept'[r])
         /\ \A q \in DOMAIN kept : q # r => kept'[q] = kept[q]
<1>1. r # None /\ r \in DOMAIN kept /\ IsFunction(kept) /\ (kept[r] = None \/ IsDraft(kept[r]))
  BY DEF PaneTypes, SavedOf, KeptOf
<1>2. CASE kept[r] # None
  <2>1. kept' = kept
    BY <1>2 DEF E!Seeded
  <2> QED
    BY <1>1, <1>2, <2>1 DEF PaneTypes, KeptOf
<1>3. CASE kept[r] = None
  <2> DEFINE d == [body |-> E!Migrated(saved[r].body), extras |-> << >>, target |-> saved[r].target,
                   metadata |-> IF E!Blank(saved[r].metadata) THEN Default ELSE E!Hosted(saved[r].metadata)]
  <2>1. kept' = [kept EXCEPT ![r] = d]
    BY <1>1, <1>3 DEF E!Seeded
  <2>2. IsText(saved[r].body) /\ IsText(saved[r].metadata)
    BY DEF PaneTypes, SavedOf
  <2>3. IsText(d.body) /\ IsText(d.metadata)
    <3>1. IsText(Default)
      BY ConstantsAssumption, StoredIs
    <3>2. IsText(E!Migrated(saved[r].body)) /\ IsText(E!Hosted(saved[r].metadata))
      BY <2>2, OpenedIs
    <3> QED
      BY <3>1, <3>2
  <2>4. /\ d = [body |-> d.body, extras |-> d.extras, target |-> d.target, metadata |-> d.metadata]
        /\ d.extras = << >>
    OBVIOUS
  <2> HIDE DEF d
  <2>5. IsDraft(d)
    BY <2>3, <2>4, NoneOfIt DEF IsDraft
  <2>6. Placed(kept', kept, r, d)
    BY <1>1, <2>1 DEF Placed, IsFunction
  <2> QED
    BY <2>5, <2>6 DEF PaneTypes, KeptOf, Placed
<1> QED
  BY <1>2, <1>3

LEMMA OpenKeeps ==
  ASSUME RequestInv, UNCHANGED treeVars, Careful, NEW r \in DOMAIN saved, E!Open(r)
  PROVE  RequestInv' /\ KeepsUsed /\ OpensForPaste
<1>1. /\ r # shown /\ shown' = r /\ kept' = E!Seeded(kept, r) /\ E!Shows
      /\ UNCHANGED <<saved, tab, timers, stored, updates, answers, wanted, rivals>>
      /\ passes' # {} => E!NoneWaitsWith(text')
  BY DEF E!Open, E!wire
<1>2. KeptOf(kept)' /\ IsDraft(kept'[r])
  BY <1>1, SeededIs DEF RequestInv
<1>3. PaneTypes'
  BY <1>1, <1>2 DEF RequestInv, PaneTypes, ShownInv
<1>4. TimersInv' /\ UpdatesInv' /\ ServerInv'
  BY <1>1 DEF RequestInv, TimersInv, UpdatesInv, ServerInv, Final
<1>5. EditorInv' /\ PassesInv' /\ ArmedInv' /\ Steady
  <2>1. ShownInv'
    BY <1>3 DEF PaneTypes
  <2> QED
    BY <1>1, <2>1, ShowsKeeps DEF RequestInv
<1> QED
  BY <1>3, <1>4, <1>5, SteadyKeeps DEF RequestInv

\* The tab or the view changes.
LEMMA ViewingKeeps ==
  ASSUME RequestInv, Careful, UNCHANGED <<saved, kept, shown, timers, stored, updates, answers, wanted, rivals>>, E!Shows
  PROVE  RequestInv' /\ KeepsUsed /\ OpensForPaste
<1>1. PaneTypes' /\ TimersInv' /\ UpdatesInv' /\ ServerInv'
  BY DEF RequestInv, PaneTypes, KeptOf, ShownInv, TimersInv, UpdatesInv, ServerInv, Final
<1>2. EditorInv' /\ PassesInv' /\ ArmedInv' /\ Steady
  <2>1. ShownInv'
    BY <1>1 DEF PaneTypes
  <2> QED
    BY <2>1, ShowsKeeps DEF RequestInv
<1> QED
  BY <1>1, <1>2, SteadyKeeps DEF RequestInv

LEMMA TargetKeeps ==
  ASSUME RequestInv, UNCHANGED treeVars, NEW field, NEW value, E!SetTarget(field, value)
  PROVE  RequestInv' /\ KeepsUsed /\ OpensForPaste
<1> DEFINE v == [kept[shown].target EXCEPT ![field] = value]
<1>1. shown # None /\ E!Written(shown, "target", v) /\ UNCHANGED <<saved, shown, tab, text, armed, idle, passes, pasted, stored, updates, answers, rivals>>
  BY DEF E!SetTarget, E!editor, E!wire
<1> HIDE DEF v
<1>2. shown \in DOMAIN saved /\ "target" \in Timed /\ ~ ("target" \in {"body", "metadata"}) /\ IsDraft(kept[shown])
      /\ shown \in DOMAIN kept
  BY <1>1 DEF RequestInv, PaneTypes, ShownInv, KeptOf, Timed
<1>3. PaneTypes'
  BY <1>1, <1>2, WrittenDraft DEF RequestInv
<1>4. TimersInv' /\ UpdatesInv' /\ ServerInv'
  BY <1>1, <1>2, WrittenSaves DEF RequestInv, PaneTypes
<1>5. E!Edited' = E!Edited
  BY <1>1, StillShown DEF E!Edited
<1>6. E!Edited # None => kept'[shown][E!Edited] = kept[shown][E!Edited]
  <2>1. kept' = [kept EXCEPT ![shown]["target"] = v]
    BY <1>1 DEF E!Written
  <2>2. E!Edited # None => E!Edited \in {"body", "metadata"}
    BY SlotIs DEF E!Edited
  <2>3. DOMAIN kept[shown] = {"body", "extras", "target", "metadata"}
    BY <1>2 DEF IsDraft
  <2> QED
    BY <1>2, <2>1, <2>2, <2>3
<1>7. EditorInv' /\ PassesInv' /\ ArmedInv' /\ KeepsUsed /\ OpensForPaste
  BY <1>1, <1>5, <1>6, EditorStays
<1> QED
  BY <1>3, <1>4, <1>7 DEF RequestInv

\* What is chosen, rather than typed.
LEMMA SendKeeps ==
  ASSUME RequestInv, UNCHANGED treeVars, shown # None, NEW f \in Fields \ Timed, NEW v,
         E!Send(shown, f, v), f = "middleware" => \A c \in updates : c.field # "middleware",
         Fielded(wanted', wanted, shown, f, v),
         UNCHANGED <<saved, kept, shown, tab, text, armed, idle, passes, pasted, timers>>
  PROVE  RequestInv' /\ KeepsUsed /\ OpensForPaste
<1>1. shown \in DOMAIN saved
  BY DEF RequestInv, PaneTypes, ShownInv
<1>2. TimersInv' /\ UpdatesInv' /\ ServerInv'
  BY <1>1, SentWaits DEF RequestInv
<1>3. PaneTypes'
  BY DEF RequestInv, PaneTypes, KeptOf, ShownInv
<1>4. E!Edited' = E!Edited
  BY StillShown DEF E!Edited
<1>5. EditorInv' /\ PassesInv' /\ ArmedInv' /\ KeepsUsed /\ OpensForPaste
  BY <1>4, EditorStays
<1> QED
  BY <1>2, <1>3, <1>5 DEF RequestInv

LEMMA MethodKeeps ==
  ASSUME RequestInv, UNCHANGED treeVars, NEW m, E!SetMethod(m)
  PROVE  RequestInv' /\ KeepsUsed /\ OpensForPaste
<1>1. /\ shown # None /\ E!Send(shown, "method", m)
      /\ wanted' = [wanted EXCEPT ![shown]["method"] = m]
      /\ UNCHANGED <<saved, kept, shown, tab, text, armed, idle, passes, pasted, timers>>
  BY DEF E!SetMethod, E!editor
<1>2. shown \in DOMAIN wanted /\ FiveOf(wanted[shown]) /\ "method" \in Fields /\ "method" \in Fields \ Timed
  BY <1>1 DEF RequestInv, PaneTypes, ShownInv, ServerInv, Fields, Timed
<1>3. Fielded([wanted EXCEPT ![shown]["method"] = m], wanted, shown, "method", m)
  BY <1>2, FieldPut
<1>4. Fielded(wanted', wanted, shown, "method", m)
  BY <1>1, <1>3
<1> QED
  BY <1>1, <1>2, <1>4, SendKeeps

LEMMA RearrangeKeeps ==
  ASSUME RequestInv, UNCHANGED treeVars, Careful, NEW op, NEW s, E!Rearrange(op, s)
  PROVE  RequestInv' /\ KeepsUsed /\ OpensForPaste
<1> DEFINE v == E!Rearranged(op, saved[shown].middleware, s)
<1>1. /\ shown # None /\ E!Send(shown, "middleware", v)
      /\ saved[shown]["middleware"] = stored[shown]["middleware"]
      /\ \A c \in updates : c.field # "middleware"
      /\ wanted' = [wanted EXCEPT ![shown]["middleware"] = E!Rearranged(op, wanted[shown]["middleware"], s)]
      /\ UNCHANGED <<saved, kept, shown, tab, text, armed, idle, passes, pasted, timers>>
  BY DEF E!Rearrange, E!editor
<1>2. /\ shown \in DOMAIN wanted /\ shown \in DOMAIN saved /\ FiveOf(wanted[shown])
      /\ "middleware" \in Fields /\ "middleware" \in Fields \ Timed
  BY <1>1 DEF RequestInv, PaneTypes, ShownInv, ServerInv, Fields, Timed
<1>3. saved[shown]["middleware"] = wanted[shown]["middleware"]
  <2>1. ~ Waits(timers, shown, "middleware")
    BY <1>2 DEF RequestInv, TimersInv, Waits
  <2>2. ~ OnWay(updates, shown, "middleware")
    BY <1>1 DEF OnWay
  <2>3. rivals[shown]["middleware"] = {}
    BY <1>2 DEF RequestInv, ServerInv
  <2>4. stored[shown]["middleware"] \in {wanted[shown]["middleware"]} \cup rivals[shown]["middleware"]
    BY <1>2, <2>1, <2>2 DEF RequestInv, ServerInv, Final
  <2> QED
    BY <1>1, <2>3, <2>4
<1>4. wanted' = [wanted EXCEPT ![shown]["middleware"] = v]
  BY <1>1, <1>3
<1> HIDE DEF v
<1>5. Fielded([wanted EXCEPT ![shown]["middleware"] = v], wanted, shown, "middleware", v)
  BY <1>2, FieldPut
<1>6. Fielded(wanted', wanted, shown, "middleware", v)
  BY <1>4, <1>5
<1> QED
  BY <1>1, <1>2, <1>6, SendKeeps

\* The messages are a list of texts, and not in the editor.
LEMMA MessagesIs ==
  ASSUME RequestInv, E!Composes
  PROVE  /\ shown # None /\ shown \in DOMAIN saved /\ E!Edited = None
         /\ IsSeq(E!Messages) /\ Len(E!Messages) > 0 /\ \A k \in 1..Len(E!Messages) : IsText(E!Messages[k])
<1>1. shown # None /\ tab = "message" /\ saved[shown].method \in Multi
  BY DEF E!Composes
<1>2. shown \in DOMAIN saved /\ IsDraft(kept[shown])
  BY <1>1 DEF RequestInv, PaneTypes, ShownInv
<1>3. E!Edited = None
  BY <1>1 DEF E!Edited, E!Slot
<1> DEFINE x == kept[shown].extras
           b == kept[shown].body
<1>4. E!Messages = <<b>> \o x
  BY DEF E!Messages
<1>5. IsSeq(x) /\ IsText(b) /\ (\A k \in 1..Len(x) : IsText(x[k])) /\ Len(x) \in Nat
  BY <1>2 DEF IsDraft, IsSeq
<1> HIDE DEF x, b
<1>6. IsSeq(<<b>>) /\ Len(<<b>>) = 1 /\ <<b>>[1] = b
  BY Single
<1>7. /\ IsSeq(<<b>> \o x) /\ Len(<<b>> \o x) = Len(<<b>>) + Len(x)
      /\ \A n \in 1..Len(<<b>>) : (<<b>> \o x)[n] = <<b>>[n]
      /\ \A n \in 1..Len(x) : (<<b>> \o x)[Len(<<b>>) + n] = x[n]
  <2>1. IsSeq(<<b>>) /\ IsSeq(x)
    BY <1>5, <1>6
  <2> QED
    BY <2>1, Joined
<1> DEFINE m == <<b>> \o x
<1>8. E!Messages = m
  BY <1>4
<1>9. IsSeq(m) /\ Len(m) = 1 + Len(x) /\ m[1] = b /\ \A n \in 1..Len(x) : m[1 + n] = x[n]
  <2>1. 1 \in 1..Len(<<b>>)
    BY <1>6
  <2> QED
    BY <1>6, <1>7, <2>1
<1> HIDE DEF m
<1>10. ASSUME NEW k \in 1..Len(m) PROVE IsText(m[k])
  <2>1. CASE k = 1
    BY <1>5, <1>9, <2>1
  <2>2. CASE k # 1
    <3>1. k - 1 \in 1..Len(x) /\ 1 + (k - 1) = k
      BY <1>5, <1>9, <2>2
    <3> QED
      BY <1>5, <1>9, <3>1
  <2> QED
    BY <2>1, <2>2
<1> QED
  BY <1>1, <1>2, <1>3, <1>5, <1>8, <1>9, <1>10

LEMMA MessagesKeep ==
  ASSUME RequestInv, UNCHANGED treeVars, E!Composes, NEW list, IsSeq(list), Len(list) > 0,
         \A k \in 1..Len(list) : IsText(list[k]), E!MessagesAre(list)
  PROVE  RequestInv' /\ KeepsUsed /\ OpensForPaste
<1> DEFINE b == Head(list)
           x == Tail(list)
           d == [body |-> b, extras |-> x, target |-> kept[shown].target, metadata |-> kept[shown].metadata]
<1>1. shown # None /\ shown \in DOMAIN saved /\ E!Edited = None
  BY MessagesIs
<1>2. /\ kept' = [kept EXCEPT ![shown]["body"] = b, ![shown]["extras"] = x]
      /\ timers' = E!Rescheduled(shown, "body", b)
      /\ wanted' = [wanted EXCEPT ![shown]["body"] = b]
      /\ UNCHANGED <<saved, shown, tab, text, armed, idle, passes, pasted, stored, updates, answers, rivals>>
  BY DEF E!MessagesAre, E!editor, E!wire
<1>3. list # << >> /\ Len(list) \in Nat
  BY NoneOfIt DEF IsSeq
<1>4. IsSeq(x) /\ Len(x) = Len(list) - 1 /\ (\A n \in 1..Len(list) - 1 : x[n] = list[n + 1]) /\ b = list[1]
  BY <1>3, Tailed
<1>5. IsText(b) /\ \A n \in 1..Len(x) : IsText(x[n])
  <2>1. 1 \in 1..Len(list) /\ \A n \in 1..Len(x) : n \in 1..Len(list) - 1 /\ n + 1 \in 1..Len(list)
    BY <1>3, <1>4
  <2> QED
    BY <1>4, <2>1
<1> HIDE DEF b, x
<1>6. shown \in DOMAIN kept /\ IsFunction(kept) /\ IsDraft(kept[shown])
  BY <1>1 DEF RequestInv, PaneTypes, ShownInv, KeptOf
<1>7. Placed(kept', kept, shown, d)
  <2>1. kept[shown] = [body |-> kept[shown].body, extras |-> kept[shown].extras, target |-> kept[shown].target,
                       metadata |-> kept[shown].metadata]
    BY <1>6 DEF IsDraft
  <2>2. PICK e : e = kept[shown]
    OBVIOUS
  <2>3. [[e EXCEPT !["body"] = b] EXCEPT !["extras"] = x] = d
    BY <2>1, <2>2
  <2>4. kept'[shown] = d
    BY <1>2, <1>6, <2>1, <2>2, <2>3
  <2>5. DOMAIN kept' = DOMAIN kept /\ IsFunction(kept') /\ \A r \in DOMAIN kept : r # shown => kept'[r] = kept[r]
    BY <1>2, <1>6 DEF IsFunction
  <2> QED
    BY <2>4, <2>5 DEF Placed
<1>8. /\ d = [body |-> d.body, extras |-> d.extras, target |-> d.target, metadata |-> d.metadata]
      /\ d.body = b /\ d.extras = x /\ d.metadata = kept[shown].metadata
  OBVIOUS
<1> HIDE DEF d
<1>9. IsDraft(d)
  BY <1>4, <1>5, <1>6, <1>8 DEF IsDraft
<1>10. PaneTypes'
  BY <1>1, <1>2, <1>7, <1>9, KeptPlaced DEF RequestInv
<1>11. TimersInv' /\ UpdatesInv' /\ ServerInv'
  <2>1. shown \in DOMAIN wanted /\ FiveOf(wanted[shown]) /\ "body" \in Fields /\ "body" \in Timed
    BY <1>1 DEF RequestInv, ServerInv, Fields, Timed
  <2>2. Fielded([wanted EXCEPT ![shown]["body"] = b], wanted, shown, "body", b)
    BY <2>1, FieldPut
  <2>3. Fielded(wanted', wanted, shown, "body", b)
    BY <1>2, <2>2
  <2> QED
    BY <1>1, <1>2, <1>5, <2>1, <2>3, WrittenWaits DEF RequestInv, PaneTypes
<1>12. E!Edited' = E!Edited
  BY <1>2, StillShown DEF E!Edited
<1>13. EditorInv' /\ PassesInv' /\ ArmedInv' /\ KeepsUsed /\ OpensForPaste
  BY <1>1, <1>2, <1>12, EditorStays
<1> QED
  BY <1>10, <1>11, <1>13 DEF RequestInv

LEMMA MessageSteps ==
  ASSUME RequestInv, UNCHANGED treeVars,
         \/ \E i \in 1..2 : E!RemoveMessage(i) \/ \E a \in Writable : E!TypeMessage(i, a)
         \/ E!AddMessage
  PROVE  RequestInv' /\ KeepsUsed /\ OpensForPaste
<1> DEFINE m == E!Messages
<1>1. E!Composes
  BY DEF E!RemoveMessage, E!TypeMessage, E!AddMessage
<1>2. IsSeq(m) /\ Len(m) > 0 /\ \A k \in 1..Len(m) : IsText(m[k])
  BY <1>1, MessagesIs
<1>3. DOMAIN m = 1..Len(m) /\ Len(m) \in Nat
  BY <1>2, SeqIs DEF IsSeq
<1>4. ASSUME NEW i, NEW a, E!TypeMessage(i, a)
      PROVE  RequestInv' /\ KeepsUsed /\ OpensForPaste
  <2> DEFINE n == [m EXCEPT ![i] = E!Plainly(a)]
  <2>1. i \in DOMAIN m /\ E!MessagesAre(n)
    BY <1>4 DEF E!TypeMessage
  <2>2. DOMAIN n = 1..Len(m) /\ n = [k \in 1..Len(m) |-> n[k]] /\ \A k \in 1..Len(m) : n[k] = IF k = i THEN E!Plainly(a) ELSE m[k]
    BY <1>3
  <2> HIDE DEF n, m
  <2>3. IsSeq(n) /\ Len(n) = Len(m)
    BY <1>3, <2>2, ListOf
  <2>4. \A k \in 1..Len(n) : IsText(n[k])
    BY <1>2, <2>2, <2>3, PlainlyIs
  <2> QED
    BY <1>1, <1>2, <2>1, <2>3, <2>4, MessagesKeep
<1>5. ASSUME E!AddMessage
      PROVE  RequestInv' /\ KeepsUsed /\ OpensForPaste
  <2> DEFINE new == E!Plainly([lead |-> "brace", uses |-> {}])
             n == Append(m, new)
  <2>1. E!MessagesAre(n)
    BY <1>5 DEF E!AddMessage
  <2>2. IsText(new)
    BY PlainlyIs
  <2> HIDE DEF new, m
  <2>3. IsSeq(n) /\ Len(n) = Len(m) + 1 /\ (\A k \in 1..Len(m) : n[k] = m[k]) /\ n[Len(m) + 1] = new
    BY <1>2, Pushed
  <2> HIDE DEF n
  <2>4. ASSUME NEW k \in 1..Len(n) PROVE IsText(n[k])
    <3>1. k \in 1..Len(m) \/ k = Len(m) + 1
      BY <1>3, <2>3
    <3> QED
      BY <1>2, <2>2, <2>3, <3>1
  <2>5. Len(n) > 0
    BY <1>3, <2>3
  <2> QED
    BY <1>1, <2>1, <2>3, <2>4, <2>5, MessagesKeep
<1>6. ASSUME NEW i, E!RemoveMessage(i)
      PROVE  RequestInv' /\ KeepsUsed /\ OpensForPaste
  <2> DEFINE n == E!RemoveAt(m, i)
  <2>1. i \in DOMAIN m /\ Len(m) > 1 /\ E!MessagesAre(n)
    BY <1>6 DEF E!RemoveMessage
  <2> HIDE DEF m
  <2>2. i \in 1..Len(m)
    BY <1>3, <2>1
  <2>3. IsSeq(n) /\ Len(n) = Len(m) - 1 /\ \A k \in 1..Len(m) - 1 : n[k] = IF k < i THEN m[k] ELSE m[k + 1]
    BY <1>2, <2>2, Removed
  <2> HIDE DEF n
  <2>4. ASSUME NEW k \in 1..Len(n) PROVE IsText(n[k])
    <3>1. k \in 1..Len(m) - 1 /\ k \in 1..Len(m) /\ k + 1 \in 1..Len(m)
      BY <1>3, <2>3
    <3> QED
      BY <1>2, <2>3, <3>1
  <2>5. Len(n) > 0
    BY <1>3, <2>1, <2>3
  <2> QED
    BY <1>1, <2>1, <2>3, <2>4, <2>5, MessagesKeep
<1> QED
  BY <1>4, <1>5, <1>6

\* A past run is put in the draft while the editor does not show it.
LEMMA HistoryKeeps ==
  ASSUME RequestInv, UNCHANGED treeVars, Careful, E!SelectHistory
  PROVE  RequestInv' /\ KeepsUsed /\ OpensForPaste
<1> DEFINE d == [body |-> Past, extras |-> << >>, target |-> kept[shown].target, metadata |-> Past]
<1>1. /\ shown # None /\ E!Edited = None
      /\ kept' = [kept EXCEPT ![shown]["body"] = Past, ![shown]["metadata"] = Past, ![shown]["extras"] = << >>]
      /\ UNCHANGED <<saved, shown, tab, text, armed, idle, passes, pasted, timers, stored, updates, answers, wanted, rivals>>
  BY DEF E!SelectHistory, E!editor, E!wire
<1>2. shown \in DOMAIN saved /\ shown \in DOMAIN kept /\ IsFunction(kept) /\ IsDraft(kept[shown])
  BY <1>1 DEF RequestInv, PaneTypes, ShownInv, KeptOf
<1>3. Placed(kept', kept, shown, d)
  <2>1. kept[shown] = [body |-> kept[shown].body, extras |-> kept[shown].extras, target |-> kept[shown].target,
                       metadata |-> kept[shown].metadata]
    BY <1>2 DEF IsDraft
  <2>2. PICK e : e = kept[shown]
    OBVIOUS
  <2>3. [[[e EXCEPT !["body"] = Past] EXCEPT !["metadata"] = Past] EXCEPT !["extras"] = << >>] = d
    BY <2>1, <2>2
  <2>4. kept'[shown] = d
    BY <1>1, <1>2, <2>1, <2>2, <2>3
  <2>5. DOMAIN kept' = DOMAIN kept /\ IsFunction(kept') /\ \A r \in DOMAIN kept : r # shown => kept'[r] = kept[r]
    BY <1>1, <1>2 DEF IsFunction
  <2> QED
    BY <2>4, <2>5 DEF Placed
<1>4. /\ d = [body |-> d.body, extras |-> d.extras, target |-> d.target, metadata |-> d.metadata]
      /\ d.body = Past /\ d.extras = << >> /\ d.metadata = Past
  OBVIOUS
<1> HIDE DEF d
<1>5. IsDraft(d)
  BY <1>4, ConstantsAssumption, StoredIs, NoneOfIt DEF IsDraft
<1>6. PaneTypes'
  BY <1>1, <1>2, <1>3, <1>5, KeptPlaced DEF RequestInv
<1>7. TimersInv' /\ UpdatesInv' /\ ServerInv'
  BY <1>1 DEF RequestInv, TimersInv, UpdatesInv, ServerInv, Final
<1>8. E!Edited' = E!Edited
  BY <1>1, StillShown DEF E!Edited
<1>9. EditorInv' /\ PassesInv' /\ ArmedInv' /\ KeepsUsed /\ OpensForPaste
  BY <1>1, <1>8, EditorStays
<1> QED
  BY <1>6, <1>7, <1>9 DEF RequestInv

LEMMA PaneMoves ==
  ASSUME RequestInv, Careful, UNCHANGED treeVars, E!Server \/ E!User
  PROVE  RequestInv' /\ KeepsUsed /\ OpensForPaste
<1>1. CASE E!Server
  <2>1. ASSUME NEW p \in passes, E!Worker(p) \/ E!Finish(p)
        PROVE  RequestInv' /\ KeepsUsed /\ OpensForPaste
    BY <2>1, WorkerKeeps, FinishKeeps
  <2>2. ASSUME NEW c \in updates, E!Serve(c) PROVE RequestInv' /\ KeepsUsed /\ OpensForPaste
    BY <2>2, ServedKeeps
  <2>3. ASSUME NEW a \in answers, E!Answer(a) PROVE RequestInv' /\ KeepsUsed /\ OpensForPaste
    BY <2>3, AnsweredKeeps
  <2> QED
    BY <1>1, <2>1, <2>2, <2>3, IdleKeeps, SavingKeeps DEF E!Server
<1>2. ASSUME NEW r \in DOMAIN saved, E!Open(r) PROVE RequestInv' /\ KeepsUsed /\ OpensForPaste
  BY <1>2, OpenKeeps
<1>3. ASSUME NEW t, E!ShowTab(t) PROVE RequestInv' /\ KeepsUsed /\ OpensForPaste
  <2>1. UNCHANGED <<saved, kept, shown, timers, stored, updates, answers, wanted, rivals>> /\ E!Shows
    BY <1>3 DEF E!ShowTab, E!wire
  <2> QED
    BY <2>1, ViewingKeeps
<1>4. ASSUME NEW a, E!Paste(a) PROVE RequestInv' /\ KeepsUsed /\ OpensForPaste
  BY <1>4, PasteKeeps
<1>5. ASSUME NEW a, NEW cut \in BOOLEAN, E!Type(a, cut) PROVE RequestInv' /\ KeepsUsed /\ OpensForPaste
  BY <1>5, TypeKeeps
<1>6. ASSUME NEW n, E!Complete(n) PROVE RequestInv' /\ KeepsUsed /\ OpensForPaste
  BY <1>6, CompleteKeeps
<1>7. ASSUME NEW field, NEW value, E!SetTarget(field, value) PROVE RequestInv' /\ KeepsUsed /\ OpensForPaste
  BY <1>7, TargetKeeps
<1>8. ASSUME NEW m, E!SetMethod(m) PROVE RequestInv' /\ KeepsUsed /\ OpensForPaste
  BY <1>8, MethodKeeps
<1>9. ASSUME NEW op, NEW s, E!Rearrange(op, s) PROVE RequestInv' /\ KeepsUsed /\ OpensForPaste
  BY <1>9, RearrangeKeeps
<1>10. ASSUME \/ \E i \in 1..2 : E!RemoveMessage(i) \/ \E a \in Writable : E!TypeMessage(i, a)
              \/ E!AddMessage
       PROVE  RequestInv' /\ KeepsUsed /\ OpensForPaste
  BY <1>10, MessageSteps
<1>11. ASSUME E!SelectHistory PROVE RequestInv' /\ KeepsUsed /\ OpensForPaste
  BY <1>11, HistoryKeeps
<1>12. CASE E!User
  BY <1>2, <1>3, <1>4, <1>5, <1>6, <1>7, <1>8, <1>9, <1>10, <1>11, <1>12 DEF E!User
<1> QED
  BY <1>1, <1>12

LEMMA PaneUntouched ==
  ASSUME RequestInv, UNCHANGED treeVars, UNCHANGED paneVars
  PROVE  RequestInv' /\ KeepsUsed /\ OpensForPaste
<1>1. UNCHANGED <<saved, kept, shown, tab, text, armed, idle, passes, timers, stored, updates, answers, wanted, rivals, pasted>>
  BY DEF paneVars
<1>2. /\ PaneTypes' /\ TimersInv' /\ UpdatesInv' /\ ServerInv' /\ E!Edited' = E!Edited
      /\ KeepsUsed /\ OpensForPaste
  BY <1>1, PassesOnly
<1>3. EditorInv' /\ PassesInv' /\ ArmedInv'
  BY <1>1, <1>2, EditorStays
<1> QED
  BY <1>2, <1>3 DEF RequestInv

LEMMA PaneStep ==
  ASSUME RequestInv, Careful, [TreeStep \/ ViewStep]_allVars
  PROVE  RequestInv' /\ KeepsUsed /\ OpensForPaste
<1>1. CASE TreeStep
  <2>1. UNCHANGED <<saved, kept, shown, timers, stored, updates, answers, wanted, rivals>> /\ E!Shows
    BY <1>1 DEF TreeStep, E!Follows, E!wire
  <2> QED
    BY <2>1, ViewingKeeps
<1>2. CASE ViewStep
  <2>1. UNCHANGED treeVars /\ (E!Server \/ E!User \/ UNCHANGED paneVars)
    BY <1>2 DEF ViewStep
  <2> QED
    BY <2>1, PaneMoves, PaneUntouched
<1>3. CASE UNCHANGED allVars
  <2>1. UNCHANGED treeVars /\ UNCHANGED paneVars
    BY <1>3 DEF allVars, vars, treeVars
  <2> QED
    BY <2>1, PaneUntouched
<1> QED
  BY <1>1, <1>2, <1>3

LEMMA PaneStarts ==
  ASSUME AppInit
  PROVE  RequestInv
<1>1. PICK start \in Starts : E!InitWith(start.requests)
  BY DEF AppInit
<1> DEFINE q == start.requests
<1>2. q \in [DOMAIN q -> Requests] /\ None \notin DOMAIN q
  BY StartsAssumption
<1> HIDE DEF q
<1>3. /\ stored = q /\ saved = q /\ wanted = q /\ kept = [r \in DOMAIN q |-> None]
      /\ rivals = [r \in DOMAIN q |-> [f \in DOMAIN q[r] |-> {}]]
      /\ shown = None /\ tab = "message" /\ text = None
      /\ armed = FALSE /\ idle = FALSE /\ passes = {} /\ pasted = {}
      /\ timers = << >> /\ updates = {} /\ answers = {}
  BY <1>1 DEF E!InitWith, q
<1>4. ASSUME NEW r \in DOMAIN q
      PROVE  FiveOf(q[r]) /\ IsText(q[r].body) /\ IsText(q[r].metadata)
  <2>1. q[r] \in Requests
    BY <1>2
  <2> QED
    BY <2>1, StoredIs DEF Requests, FiveOf
<1>5. IsFunction(q)
  BY <1>2 DEF IsFunction
<1>6. PaneTypes
  BY <1>2, <1>3, <1>4, <1>5 DEF PaneTypes, SavedOf, KeptOf, ShownInv, IsFunction
<1>7. E!Edited = None
  BY <1>3 DEF E!Edited, E!Slot
<1>8. EditorInv /\ PassesInv /\ ArmedInv
  BY <1>3, <1>7 DEF EditorInv, PassesInv, ArmedInv
<1>9. \A k \in 1..0 : FALSE
  OBVIOUS
<1>10. TimersInv /\ UpdatesInv
  BY <1>3, <1>9, NoneOfIt DEF TimersInv, UpdatesInv, OneEach
<1>11. ServerInv
  <2>1. SavedOf(stored) /\ DOMAIN stored = DOMAIN saved /\ IsFunction(wanted) /\ DOMAIN wanted = DOMAIN saved
    BY <1>3, <1>6 DEF PaneTypes, SavedOf
  <2>2. IsFunction(rivals) /\ DOMAIN rivals = DOMAIN saved
    BY <1>3 DEF IsFunction
  <2>3. ASSUME NEW r \in DOMAIN saved
        PROVE  FiveOf(wanted[r]) /\ FiveOf(rivals[r]) /\ rivals[r].middleware = {}
    <3>1. FiveOf(q[r]) /\ rivals[r] = [f \in DOMAIN q[r] |-> {}]
      BY <1>3, <1>4
    <3>2. DOMAIN q[r] = Fields
      BY <3>1 DEF FiveOf, Fields
    <3>3. rivals[r] = [f \in Fields |-> {}]
      BY <3>1, <3>2
    <3>4. FiveOf(rivals[r]) /\ rivals[r].middleware = {}
      BY <3>3 DEF FiveOf, Fields
    <3> QED
      BY <1>3, <3>1, <3>4
  <2>4. \A r \in DOMAIN saved, f \in Fields : stored[r][f] \in Final(r, f)
    BY <1>3 DEF Final
  <2> QED
    BY <2>1, <2>2, <2>3, <2>4 DEF ServerInv
<1> QED
  BY <1>6, <1>8, <1>10, <1>11 DEF RequestInv

\* For a careful user, who above all chooses an older run only where no editor is
\* open, the editor shows the draft of the request and its field, and a script in its
\* form: whatever is typed, pasted, opened or done by a pass, draft and text change
\* together, and a switch of the mode is in both (Editor.tsx, onChange).
THEOREM EditorShowsDraft ==
  ASSUME Careful
  PROVE  AppSpec => []BufferIsDraft
<1>1. AppInit => RequestInv
  BY PaneStarts
<1>2. RequestInv /\ [TreeStep \/ ViewStep]_allVars => RequestInv'
  BY PaneStep
<1>3. RequestInv => BufferIsDraft
  BY TextIs DEF RequestInv, EditorInv, BufferIsDraft, E!BufferIsDraft, E!Formed, IsText, IsScript, IsForm
<1> QED
  BY <1>1, <1>2, <1>3, PTL DEF AppSpec

\* For a careful user, who waits for a change of the middleware to be answered
\* before the next, the server has of every field what was written last, or else what
\* was on its way as that was sent, once no timer runs and no update is under way:
\* updates overtake each other, but what is sent last is what is written last, and
\* none is of another field or request (scheduleSave and onAttach,
\* RequestWorkspace.tsx).
THEOREM FieldsAreSaved ==
  ASSUME Careful
  PROVE  AppSpec => []FieldsSaved
<1>1. AppInit => RequestInv
  BY PaneStarts
<1>2. RequestInv /\ [TreeStep \/ ViewStep]_allVars => RequestInv'
  BY PaneStep
<1>3. RequestInv => FieldsSaved
  <2>1. ASSUME RequestInv, timers = << >>, updates = {}, NEW r \in DOMAIN stored, NEW f \in DOMAIN stored[r]
        PROVE  stored[r][f] \in {wanted[r][f]} \cup rivals[r][f]
    <3>1. r \in DOMAIN saved /\ f \in Fields
      BY <2>1 DEF RequestInv, ServerInv, SavedOf, FiveOf, Fields
    <3>2. ~ Waits(timers, r, f) /\ ~ OnWay(updates, r, f)
      BY <2>1, NoneOfIt DEF Waits, OnWay
    <3> QED
      BY <2>1, <3>1, <3>2 DEF RequestInv, ServerInv, Final
  <2> QED
    BY <2>1 DEF FieldsSaved, E!FieldsSaved
<1> QED
  BY <1>1, <1>2, <1>3, PTL DEF AppSpec

\* With a careful user, who does not bring back the very names a pass is waiting
\* with, no step takes an import that its region uses: what a pass
\* found is still true of the text it is applied to, however many edits there were in
\* between (runPrune, Editor.tsx).
THEOREM ImportsAreKept ==
  ASSUME Careful
  PROVE  AppSpec => ImportsKept
<1>1. AppInit => RequestInv
  BY PaneStarts
<1>2. RequestInv /\ [TreeStep \/ ViewStep]_allVars => RequestInv'
  BY PaneStep
<1>3. RequestInv /\ [TreeStep \/ ViewStep]_allVars => [KeepsUsed]_<<text, shown>>
  BY PaneStep
<1> QED
  BY <1>1, <1>2, <1>3, PTL DEF AppSpec, ImportsKept, E!ImportsKept, KeepsUsed

\* And none opens a region up but for a name of a paste that has no single
\* home: a resolve pass is only ever asked about the names of a paste, and comes too
\* late for any others.
THEOREM OnlyPastesUnwrap ==
  ASSUME Careful
  PROVE  AppSpec => OnlyPasteUnwraps
<1>1. AppInit => RequestInv
  BY PaneStarts
<1>2. RequestInv /\ [TreeStep \/ ViewStep]_allVars => RequestInv'
  BY PaneStep
<1>3. RequestInv /\ [TreeStep \/ ViewStep]_allVars => [OpensForPaste]_<<text, shown>>
  BY PaneStep
<1> QED
  BY <1>1, <1>2, <1>3, PTL DEF AppSpec, OnlyPasteUnwraps, E!OnlyPasteUnwraps, OpensForPaste

------------------------------------------------------------------------------
(* What the edits of a script's region do to any text.                        *)

\* A change of the text switches the mode once: what it is turned into asks for no
\* further switch (modeSwitchFor, on every change of the editor's model), nor does
\* what a pass bails out with, so that the editor never goes back and forth.
THEOREM ModesSettle ==
  ASSUME NEW t \in E!ScriptTexts, NEW unresolved
  PROVE  /\ E!ModeSwitchFor(E!Switched(t)) = "none"
         /\ E!Bails(t, unresolved) => E!ModeSwitchFor(E!Resolved(t, unresolved)) = "none"
<1>1. IsForm(t)
  BY DEF E!ScriptTexts, IsForm
<1>2. E!ModeSwitchFor(E!Unwrap(t)) = "none"
  BY <1>1, UnwrapSettles
<1>3. E!ModeSwitchFor(E!Switched(t)) = "none"
  <2>1. CASE E!ModeSwitchFor(t) = "toPlain"
    BY <1>2, <2>1 DEF E!Switched
  <2>2. CASE E!ModeSwitchFor(t) = "toWrapped"
    <3>1. t.lead = "brace" /\ E!Switched(t) = E!Wrap(t)
      BY <2>2 DEF E!ModeSwitchFor, E!Switched
    <3>2. E!Wrap(t).wrapped /\ E!Wrap(t).lead = "brace"
      BY <1>1, <3>1, WrapIs
    <3> QED
      BY <3>1, <3>2 DEF E!ModeSwitchFor, E!Bare
  <2>3. CASE E!ModeSwitchFor(t) = "none"
    BY <2>3 DEF E!Switched
  <2> QED
    BY <2>1, <2>2, <2>3 DEF E!ModeSwitchFor
<1>4. E!Bails(t, unresolved) => E!ModeSwitchFor(E!Resolved(t, unresolved)) = "none"
  BY <1>2 DEF E!Bails, E!Resolved
<1> QED
  BY <1>3, <1>4

\* A pass that is applied to the text the worker was asked about loses no import
\* the region uses, leaves none that it does not use, and resolves all names or,
\* when one has no single home, opens the region up with the imports it had.
THEOREM PassesKeepUsed ==
  ASSUME NEW t \in E!ScriptTexts, t.wrapped
  PROVE  /\ E!Pruned(t, E!Unused(t)).imports = t.imports \cap t.uses
         /\ E!Unresolved(E!Pruned(t, E!Unused(t))) = E!Unresolved(t)
         /\ ~ E!Bails(t, E!Unresolved(t)) => E!Unresolved(E!Resolved(t, E!Unresolved(t))) = {}
         /\ E!Bails(t, E!Unresolved(t)) => E!Resolved(t, E!Unresolved(t)).imports = t.imports
         /\ E!Unused(E!Resolved(t, E!Unresolved(t))) = E!Unused(t)
<1>1. /\ E!Pruned(t, E!Unused(t)).imports = t.imports \ E!Unused(t)
      /\ E!Pruned(t, E!Unused(t)).uses = t.uses
  BY DEF E!Pruned, E!ScriptTexts
<1>2. E!Unwrap(t).imports = t.imports /\ E!Unwrap(t).uses = t.uses
  BY DEF E!Unwrap, E!ScriptTexts
<1>3. ASSUME ~ E!Bails(t, E!Unresolved(t))
      PROVE  /\ E!Resolved(t, E!Unresolved(t)).imports = t.imports \cup E!Unresolved(t)
             /\ E!Resolved(t, E!Unresolved(t)).uses = t.uses
  BY <1>3 DEF E!Resolved, E!ScriptTexts
<1>4. E!Bails(t, E!Unresolved(t)) => E!Resolved(t, E!Unresolved(t)) = E!Unwrap(t)
  BY DEF E!Resolved, E!Bails
<1> QED BY <1>1, <1>2, <1>3, <1>4 DEF E!Unused, E!Unresolved

LEMMA TreeOpens ==
  ASSUME ExpandInv, TreeStep
  PROVE  ExpandInv'
BY StepOfPanel, PanelOpens

\* While the tree is on the screen, a row that was open by default and that the user
\* closed stays closed until he opens it, or moves an open one there: no answer,
\* arrival, filter or choice of a collection opens it (useTreeState.ts, resolveExpansion
\* in flatten.ts).
THEOREM ClosedStaysClosed == AppSpec => []CollapseSticks
<1>1. AppInit => ExpandInv
  <2> SUFFICES ASSUME AppInit PROVE ExpandInv
    OBVIOUS
  <2>1. PICK start \in Starts : InitWith(start)
    BY DEF AppInit
  <2> QED
    BY <2>1 DEF InitWith, ExpandInv, IsUi
<1>2. ASSUME ExpandInv, [TreeStep \/ ViewStep]_allVars
      PROVE  ExpandInv'
  <2>1. CASE UNCHANGED treeVars
    BY <1>2, <2>1, NothingOpens DEF treeVars
  <2>2. CASE UNCHANGED allVars
    BY <1>2, <2>2, NothingOpens DEF allVars, vars
  <2> QED
    BY <1>2, <2>1, <2>2, TreeOpens DEF ViewStep
<1>3. ExpandInv => CollapseSticks
  BY DEF ExpandInv, CollapseSticks
<1> QED
  BY <1>1, <1>2, <1>3, PTL DEF AppSpec

LEMMA TreeChooses ==
  ASSUME Careful, PanelInv, ChoiceInv, TreeStep
  PROVE  ChoiceInv'
BY StepOfPanel, PanelChooses

LEMMA ChoiceUntouched ==
  ASSUME ChoiceInv, UNCHANGED treeVars
  PROVE  ChoiceInv'
BY DEF treeVars, ChoiceInv, BatchInv, ModalInv, Pending, IsUi

\* Whatever a careful user does, and in whichever order the answers and the listing
\* arrive: once nothing is under way the collection that was chosen is one the server
\* has, and the view is not taken for one that has none.
THEOREM ChosenIsThere ==
  ASSUME Careful
  PROVE  AppSpec => []ChoiceListed
<1> DEFINE Inv == PanelInv /\ ChoiceInv
<1>1. AppInit => Inv
  BY AppPanelStarts, ChoiceStarts
<1>2. ASSUME Inv, [TreeStep \/ ViewStep]_allVars
      PROVE  Inv'
  <2>1. CASE TreeStep
    BY <1>2, <2>1, TreePanelKeeps, TreeChooses
  <2>2. CASE ViewStep
    BY <1>2, <2>2, ViewPanelKeeps, ChoiceUntouched DEF ViewStep
  <2>3. CASE UNCHANGED allVars
    <3>1. UNCHANGED treeVars /\ UNCHANGED count
      BY <2>3 DEF allVars, vars, treeVars
    <3>2. PanelInv'
      BY <1>2, <3>1 DEF PanelInv, treeVars
    <3> QED
      BY <1>2, <3>1, <3>2, ChoiceUntouched
  <2> QED
    BY <1>2, <2>1, <2>2, <2>3
<1>3. Inv => ChoiceListed
  <2> SUFFICES ASSUME Inv, calls = << >>, cols = Listing(served) PROVE chosen \in served /\ active \notin missing
    BY DEF ChoiceListed
  <2>1. active \in served
    BY ActiveServed
  <2> QED
    BY <2>1 DEF ChoiceInv
<1> HIDE DEF Inv
<1> QED
  BY <1>1, <1>2, <1>3, PTL DEF AppSpec
=================================================================================
