---------------------------------- MODULE App ----------------------------------
(***************************************************************************)
(* The browser's application: the rail and the top bar around the views    *)
(* of collections, scripts, sources and daemons, which share the choice of *)
(* a collection and what has been fetched of it (ui/src/App.tsx,           *)
(* ui/src/components/shell).                                               *)
(***************************************************************************)
EXTENDS TreePanel

CONSTANTS Paths, Scripts, Texts, Empty, Starter, Origins, Bazel, Roots, Own,
          Idents, Homes, Multi, Methods, Middlewares, Writable, Default, Past, MaxOnWay

VARIABLES
  files, asked, drafts, selected, dialog, detail, history,  \* Scripts
  lists, resolved, trusted, sent, prompt, agreed,           \* Sources
  daemons, listed, stopping, confirm,                       \* DaemonsView
  stored, saved, kept, shown, tab, text, armed, idle, passes, timers, updates, answers, wanted, rivals, pasted  \* RequestPane

\* CurrentView: what the rail has chosen, unless its collection is not there.
Current == IF view # "daemons" /\ Astray THEN "none" ELSE view

S == INSTANCE Scripts WITH Colls <- ToSet(Dirs), view <- Current
R == INSTANCE Sources WITH Colls <- ToSet(Dirs), view <- Current, modal <- prompt, asked <- agreed
D == INSTANCE DaemonsView WITH view <- Current
E == INSTANCE RequestPane WITH Names <- Idents, view <- Current,
                               drafts <- kept, calls <- updates, asked <- wanted

\* A request's scripts as they are stored: a region has its shim, and an object in it.
Stored == {t \in E!ScriptTexts : E!Formed(t) /\ (t.wrapped => t.lead # "other")}
Requests == [body : Stored, metadata : Stored, target : [address : BOOLEAN, tls : BOOLEAN],
             method : Methods, middleware : Seq(Middlewares)]

\* What there may be at the start: scripts that differ and have paths of their own,
\* and requests.
ASSUME StartsAssumption ==
  \A start \in Starts :
    /\ start.files \in [ToSet(Dirs) -> UNION {[ps -> [id : Scripts, text : Texts]] : ps \in SUBSET Paths}]
    /\ \A c, d \in ToSet(Dirs) : \A p \in DOMAIN start.files[c], q \in DOMAIN start.files[d] :
         p = q \/ start.files[c][p].id = start.files[d][q].id => c = d /\ p = q
    /\ start.lists \in [ToSet(Dirs) -> Seq([id : Origins, commit : BOOLEAN])]
    /\ start.requests \in [DOMAIN start.requests -> Requests] /\ None \notin DOMAIN start.requests

ASSUME ConstantsAssumption ==
  /\ None \notin Paths \cup Origins /\ "add" \notin Origins
  /\ Default \in Stored /\ Past \in Stored

treeVars == <<served, tree, cols, landed, missing, calls, chosen, view, rows, ui, seen, filter,
              renaming, drag, modal, batch, shut>>
scriptVars == <<files, asked, drafts, selected, dialog, detail, history>>
sourceVars == <<lists, resolved, trusted, sent, prompt, agreed>>
daemonVars == <<daemons, listed, stopping, confirm>>
paneVars == <<stored, saved, kept, shown, tab, text, armed, idle, passes, timers, updates, answers, wanted, rivals, pasted>>

allVars == <<vars, scriptVars, sourceVars, daemonVars, paneVars>>

\* A dialog in front of a view.
Covered == dialog \/ detail.confirm \/ prompt # None \/ confirm

\* A careful user waits for what the other views have asked for before the
\* collection is renamed or another view or collection shown.
Settled == S!Abandons /\ (Careful => sent = {})

\* A step of the tree, the top bar, the rail, or an answer to one of them: the
\* other views follow, and their lists are those of the collection's new name.
Renamed(f) ==
  IF calls # << >> /\ Head(calls).op = "recol" /\ served' # served
    THEN [f EXCEPT ![Head(calls).to] = f[Head(calls).coll], ![Head(calls).coll] = f[Head(calls).to]]
    ELSE f

TreeStep ==
  /\ \/ Answer \/ Listed \/ \E c \in ToSet(cols) : Landed(c)
     \/ ~ Covered /\ Settled /\ User
  /\ S!Follows(Renamed(files))
  /\ R!Follows(Renamed(lists), Renamed(agreed), Renamed(resolved)) /\ D!Follows /\ E!Follows

\* A step of another view.  A careful user starts nothing in a collection that is
\* being renamed.
ViewStep ==
  /\ UNCHANGED treeVars
  /\ LET Quiet == Careful => calls = << >> /\ cols = Listing(served)
     IN \/ (S!Server \/ (Quiet /\ S!User)) /\ UNCHANGED <<sourceVars, daemonVars, paneVars>>
        \/ (R!Server \/ (Quiet /\ R!User)) /\ UNCHANGED <<scriptVars, daemonVars, paneVars>>
        \/ (D!Server \/ D!User) /\ UNCHANGED <<scriptVars, sourceVars, paneVars>>
        \/ (E!Server \/ (Quiet /\ E!User)) /\ UNCHANGED <<scriptVars, sourceVars, daemonVars>>

AppInit ==
  \E start \in Starts :
    /\ InitWith(start)
    /\ S!InitWith(start.files) /\ R!InitWith(start.lists) /\ D!InitWith(start.daemons)
    /\ E!InitWith(start.requests)

AppSpec == AppInit /\ [][TreeStep \/ ViewStep]_allVars

-----------------------------------------------------------------------------
\* The properties of the views, in the application.
ShownIsOwn == S!ShownIsOwn
SavesLand == S!SavesLand
NothingUndone == R!NothingUndone
DialogUndisturbed == D!DialogUndisturbed
BufferIsDraft == E!BufferIsDraft
ImportsKept == E!ImportsKept
OnlyPasteUnwraps == E!OnlyPasteUnwraps
FieldsSaved == E!FieldsSaved
================================================================================
