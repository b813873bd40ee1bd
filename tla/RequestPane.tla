------------------------------ MODULE RequestPane -------------------------------
(***************************************************************************)
(* The pane of the request in view: the editor of its body or metadata     *)
(* (ui/src/features/workspace/Editor.tsx, MetadataEditor.tsx), the         *)
(* messages of a method that takes several, the target, the method and the *)
(* middleware, and when each of them is saved (RequestWorkspace.tsx).      *)
(*                                                                         *)
(* The strip of tabs, and what becomes of drafts when requests move, are   *)
(* in Workbench; which view is shown is decided elsewhere.                 *)
(***************************************************************************)
EXTENDS Region, Sequences, SequencesExt

CONSTANTS
  Multi,       \* methods that take several messages
  Methods,     \* methods
  Middlewares, \* specifiers of scripts
  Writable,    \* what an author may write
  Default,     \* the script of a request that has no metadata
  Past,        \* what a run in the timeline was sent
  MaxOnWay,    \* bound: updates and snapshots on their way at a time
  Careful,     \* see the guards that mention it
  None

VARIABLES
  stored,  \* by request with an open tab, what the server has
  saved,   \* the snapshot of it that arrived last
  drafts,  \* by request, what is kept of it here
  shown,   \* the request whose tab is active
  tab,     \* "message", "metadata" or "middleware", for every request
  text,    \* the text in the editor, None where there is none
  armed,   \* a paste has asked for its names to be resolved
  idle,    \* the timer that waits for a pause runs
  passes,  \* passes that wait for the TypeScript worker
  timers,  \* saves that wait for a pause, oldest first
  calls,   \* updates that the server has not made
  answers, \* snapshots that have not arrived
  asked,   \* history: by request, the last that was written of each field
  rivals,  \* history: what was on its way as the last that was written was sent
  pasted,  \* history: the names that were there after the last paste
  view, count

editor == <<text, armed, idle, passes, pasted>>
wire == <<stored, calls, answers, rivals>>
vars == <<wire, saved, drafts, shown, tab, editor, timers, asked>>

\* The script that is edited: a list of messages is not.
Slot(v, s, r, t) ==
  IF v # "workspace" \/ r = None \/ t = "middleware" THEN None
  ELSE IF t = "metadata" THEN "metadata"
  ELSE IF s[r].method \in Multi THEN None
  ELSE "body"

Edited == Slot(view, saved, shown, tab)

-----------------------------------------------------------------------------
(***************************************************************************)
(* What the editor shows.                                                  *)
(***************************************************************************)
\* seedDraft, when a request is shown for the first time.
Seeded(d, r) ==
  IF r = None \/ d[r] # None THEN d
  ELSE [d EXCEPT ![r] =
          [body |-> Migrated(saved[r].body), extras |-> << >>, target |-> saved[r].target,
           metadata |-> IF Blank(saved[r].metadata) THEN Default ELSE Hosted(saved[r].metadata)]]

\* Mutant: what a paste has armed stays so for the next request.
ArmedStill == armed

\* Another request in the same editor: its text is put in, and what was pending is
\* called off, but for the passes that wait for the worker.
ArmedAfter == FALSE

\* The editor goes with its tab, its request's kind and the view: no pass that
\* belonged to it finds its model again.
Shows ==
  LET now == Edited
      next == Slot(view', saved', shown', tab')
  IN IF next = now /\ shown' = shown THEN UNCHANGED editor
     ELSE /\ text' = IF next = None THEN None ELSE drafts'[shown'][next]
          /\ armed' = (next = now /\ next # None /\ ArmedAfter)
          /\ idle' = FALSE
          /\ passes' = IF next = now THEN passes ELSE {}
          /\ pasted' = {}

\* The view is left or come back to.
Follows == UNCHANGED <<wire, saved, drafts, shown, tab, timers, asked>> /\ Shows

\* A careful user brings the names back that a pass waits with only when it has
\* ended: it would not notice that there were others in between.
NoneWaitsWith(t) == Careful /\ t.wrapped => \A p \in passes : p.before.uses # t.uses

Acts == count.acts > 0 /\ count' = [count EXCEPT !.acts = @ - 1]
Changes == count.changes > 0 /\ count' = [count EXCEPT !.changes = @ - 1]

Open(r) ==
  /\ Acts /\ r # shown
  /\ shown' = r
  /\ drafts' = Seeded(drafts, r)
  /\ UNCHANGED <<wire, saved, tab, timers, asked>>
  /\ Shows
  /\ passes' # {} => NoneWaitsWith(text')

ShowTab(t) ==
  /\ Acts /\ shown # None /\ t # tab
  /\ tab' = t
  /\ UNCHANGED <<wire, saved, drafts, shown, timers, asked>>
  /\ Shows

-----------------------------------------------------------------------------
(***************************************************************************)
(* Saving.                                                                 *)
(***************************************************************************)
\* Mutant: a request has one timer.
SameRequest(t, r, field) == t.req = r

SameTimer(t, r, field) == t.req = r /\ t.field = field

\* setDraft and scheduleSave: a field of a request has one timer, which is started
\* anew.
Rescheduled(r, field, value) ==
  LET at == SelectInSeq(timers, LAMBDA t : SameTimer(t, r, field))
  IN Append(IF at = 0 THEN timers ELSE RemoveAt(timers, at), [req |-> r, field |-> field, value |-> value])

Written(r, field, value) ==
  /\ drafts' = [drafts EXCEPT ![r][field] = value]
  /\ timers' = Rescheduled(r, field, value)
  /\ asked' = [asked EXCEPT ![r][field] = value]

\* Every update is a request of its own, and nothing is held back for another one.
UnderWay(r, field) == {c.value : c \in {x \in calls : x.req = r /\ x.field = field}}
Number == Min((1..Cardinality(calls \cup answers) + 1) \ {x.n : x \in calls \cup answers})

Send(r, field, value) ==
  /\ Cardinality(calls \cup answers) < MaxOnWay
  /\ calls' = calls \cup {[n |-> Number, req |-> r, field |-> field, value |-> value]}
  /\ rivals' = [rivals EXCEPT ![r][field] = UnderWay(r, field)]
  /\ UNCHANGED <<stored, answers>>

Save ==
  /\ timers # << >>
  /\ timers' = Tail(timers)
  /\ LET t == Head(timers) IN Send(t.req, t.field, t.value)
  /\ UNCHANGED <<saved, drafts, shown, tab, editor, asked, count>>

\* The server makes whichever change is there first, and answers with a snapshot.
Serve(c) ==
  /\ calls' = calls \ {c}
  /\ stored' = [stored EXCEPT ![c.req][c.field] = c.value]
  /\ answers' = answers \cup {[n |-> c.n, stored |-> stored']}
  /\ UNCHANGED <<saved, drafts, shown, tab, editor, timers, asked, rivals, count>>

\* A snapshot replaces the one that is here, be it older or not.
Answer(a) ==
  /\ answers' = answers \ {a}
  /\ saved' = a.stored
  /\ UNCHANGED <<stored, drafts, shown, tab, timers, calls, asked, rivals, count>>
  /\ Shows

-----------------------------------------------------------------------------
(***************************************************************************)
(* The author in the editor.                                               *)
(***************************************************************************)
\* Mutant: the switch of the mode is kept from the draft.
TypedAlone(t) == t

\* What onChange is told: the text after the switch of the mode.
Reported(t) == Switched(t)

\* A change of the text, by the author or by a pass.
Changed(t) ==
  /\ text' = Switched(t)
  /\ idle' = Switched(t).wrapped
  /\ Written(shown, Edited, Reported(t))
  /\ UNCHANGED <<wire, saved, shown, tab>>

\* In a plain script everything is the author's to delete.
Type(a, cut) ==
  /\ Changes /\ Edited # None
  /\ Careful => ~ (armed /\ idle)
  /\ cut => ~ text.wrapped
  /\ LET t == [text EXCEPT !.lead = a.lead, !.uses = a.uses,
                           !.imports = IF cut THEN {} ELSE @, !.shim = ~ cut /\ @]
     IN t # text /\ Changed(t)
  /\ NoneWaitsWith(text')
  /\ UNCHANGED <<armed, passes, pasted>>

\* The completion of a name brings its import.
Complete(n) ==
  /\ Changes /\ Edited # None
  /\ n \notin text.imports /\ Homes[n] > 0
  /\ Careful => ~ (armed /\ idle)
  /\ Changed([text EXCEPT !.uses = @ \cup {n}, !.imports = @ \cup {n}])
  /\ NoneWaitsWith(text')
  /\ UNCHANGED <<armed, passes, pasted>>

\* A paste that does not leave a region keeps its arm for the next one there is.
Paste(a) ==
  /\ Changes /\ Edited # None
  /\ Careful => text.wrapped /\ a.lead = "brace"
  /\ Changed([text EXCEPT !.lead = a.lead, !.uses = a.uses])
  /\ NoneWaitsWith(text')
  /\ armed' = TRUE
  /\ pasted' = text'.uses
  /\ UNCHANGED passes

-----------------------------------------------------------------------------
(***************************************************************************)
(* The passes over a region after a pause.                                 *)
(***************************************************************************)
Pass(kind, t) == IF t.wrapped THEN {[kind |-> kind, before |-> t, found |-> None]} ELSE {}

Idle ==
  /\ idle
  /\ idle' = FALSE
  /\ armed' = FALSE
  /\ passes' = passes \cup Pass(IF armed THEN "resolve" ELSE "prune", text)
  /\ UNCHANGED <<wire, saved, drafts, shown, tab, text, timers, asked, pasted, count>>

\* The worker looks at the text that is there by now.
Worker(p) ==
  /\ p.found = None
  /\ passes' = (passes \ {p}) \cup
       {[p EXCEPT !.found = IF p.kind = "resolve" THEN Unresolved(text) ELSE Unused(text)]}
  /\ UNCHANGED <<wire, saved, drafts, shown, tab, text, armed, idle, timers, asked, pasted, count>>

\* Mutant: the text is not looked at again.
FreshEnough(p) == TRUE

\* The text is what it was before the worker was asked.
Fresh(p) == text = p.before

Outcome(p) == IF p.kind = "resolve" THEN Resolved(p.before, p.found) ELSE Pruned(p.before, p.found)

\* A pass that has nothing to change ends; a resolve is followed by a prune, and
\* by one of the text there is now where it came too late.
Finish(p) ==
  /\ p.found # None
  /\ UNCHANGED count
  /\ IF Fresh(p) /\ Outcome(p) # p.before
       THEN /\ Changed(Outcome([p EXCEPT !.before = text]))
            /\ passes' = passes \ {p}
            /\ UNCHANGED <<armed, pasted>>
       ELSE /\ passes' = (passes \ {p}) \cup (IF p.kind = "resolve" THEN Pass("prune", text) ELSE {})
            /\ UNCHANGED <<wire, saved, drafts, shown, tab, text, armed, idle, timers, asked, pasted>>

-----------------------------------------------------------------------------
(***************************************************************************)
(* The rest of the pane.                                                   *)
(***************************************************************************)
Plainly(a) == [wrapped |-> FALSE, shim |-> FALSE, imports |-> {}, lead |-> a.lead, uses |-> a.uses]

\* The messages of a method that takes several: the first is the body.
Messages == <<drafts[shown].body>> \o drafts[shown].extras
Composes == shown # None /\ tab = "message" /\ saved[shown].method \in Multi

\* onMessagesChange
MessagesAre(list) ==
  /\ drafts' = [drafts EXCEPT ![shown].body = Head(list), ![shown].extras = Tail(list)]
  /\ timers' = Rescheduled(shown, "body", Head(list))
  /\ asked' = [asked EXCEPT ![shown].body = Head(list)]
  /\ UNCHANGED <<wire, saved, shown, tab, editor>>

TypeMessage(i, a) ==
  /\ Changes /\ Composes /\ i \in DOMAIN Messages
  /\ MessagesAre([Messages EXCEPT ![i] = Plainly(a)])

AddMessage == Changes /\ Composes /\ MessagesAre(Append(Messages, Plainly([lead |-> "brace", uses |-> {}])))

RemoveMessage(i) ==
  /\ Changes /\ Composes /\ i \in DOMAIN Messages /\ Len(Messages) > 1
  /\ MessagesAre(RemoveAt(Messages, i))

\* Every change of the target sends the whole of it.
SetTarget(field, value) ==
  /\ Changes /\ shown # None
  /\ drafts[shown].target[field] # value
  /\ Written(shown, "target", [drafts[shown].target EXCEPT ![field] = value])
  /\ UNCHANGED <<wire, saved, shown, tab, editor>>

SetMethod(m) ==
  /\ Changes /\ shown # None /\ m # saved[shown].method
  /\ Send(shown, "method", m)
  /\ asked' = [asked EXCEPT ![shown].method = m]
  /\ UNCHANGED <<saved, drafts, shown, tab, editor, timers>>

\* move, detach and attach, of the list of the last snapshot: the whole list is
\* sent.  A careful user waits until it is the one that the server has.
Ups(list, s) ==
  LET i == SelectInSeq(list, LAMBDA x : x = s)
  IN IF i < 2 THEN list ELSE [list EXCEPT ![i] = list[i - 1], ![i - 1] = s]

Rearranged(op, list, s) ==
  CASE op = "attach" -> IF s \in ToSet(list) THEN list ELSE Append(list, s)
    [] op = "detach" -> SelectSeq(list, LAMBDA x : x # s)
    [] op = "up" -> Ups(list, s)

Rearrange(op, s) ==
  /\ Changes /\ shown # None /\ tab = "middleware"
  /\ Careful => /\ saved[shown].middleware = stored[shown].middleware
                /\ \A c \in calls : c.field # "middleware"
  /\ Rearranged(op, saved[shown].middleware, s) # saved[shown].middleware
  /\ Send(shown, "middleware", Rearranged(op, saved[shown].middleware, s))
  /\ asked' = [asked EXCEPT ![shown].middleware = Rearranged(op, @, s)]
  /\ UNCHANGED <<saved, drafts, shown, tab, editor, timers>>

\* "Load this run into the editor": it is put in the draft, which is not saved and
\* which the editor does not look at again.
SelectHistory ==
  /\ Acts /\ shown # None
  /\ Careful => Edited = None
  /\ drafts' = [drafts EXCEPT ![shown].body = Past, ![shown].metadata = Past, ![shown].extras = << >>]
  /\ UNCHANGED <<wire, saved, shown, tab, editor, timers, asked>>

-----------------------------------------------------------------------------
InitWith(start) ==
  /\ stored = start /\ saved = start /\ asked = start
  /\ rivals = [r \in DOMAIN start |-> [f \in DOMAIN start[r] |-> {}]]
  /\ drafts = [r \in DOMAIN start |-> None]
  /\ shown = None /\ tab = "message" /\ text = None
  /\ armed = FALSE /\ idle = FALSE /\ passes = {} /\ pasted = {}
  /\ timers = << >> /\ calls = {} /\ answers = {}

User ==
  /\ view = "workspace"
  /\ \/ \E r \in DOMAIN saved : Open(r)
     \/ \E t \in {"message", "metadata", "middleware"} : ShowTab(t)
     \/ \E a \in Writable : Paste(a) \/ \E cut \in BOOLEAN : Type(a, cut)
     \/ \E n \in Names : Complete(n)
     \/ \E i \in 1..2 : RemoveMessage(i) \/ \E a \in Writable : TypeMessage(i, a)
     \/ \E field \in {"address", "tls"}, value \in BOOLEAN : SetTarget(field, value)
     \/ \E m \in Methods : SetMethod(m)
     \/ \E s \in Middlewares, op \in {"attach", "detach", "up"} : Rearrange(op, s)
     \/ AddMessage \/ SelectHistory

Server ==
  \/ Idle \/ Save
  \/ \E c \in calls : Serve(c)
  \/ \E a \in answers : Answer(a)
  \/ \E p \in passes : Worker(p) \/ Finish(p)

-----------------------------------------------------------------------------
(***************************************************************************)
(* Properties.                                                             *)
(***************************************************************************)
\* What the editor shows is the draft, which is what an invocation sends: nothing
\* is left of the time when "the editor and the saved body used to disagree until a
\* reload" (Editor.tsx:424).
BufferIsDraft == Edited # None => text = drafts[shown][Edited] /\ Formed(text)

\* Whoever has not touched the header of a region loses no import from it that the
\* region uses, whatever was typed, completed, pasted or opened while the worker
\* was asked (runPrune, Editor.tsx:130).  Another request or tab is another text.
ImportsKept ==
  [][text # None /\ text' # None /\ text.wrapped /\ text'.uses = text.uses /\ shown' = shown /\ tab' = tab
       => text.imports \ text'.imports \subseteq Unused(text)]_<<text, shown>>

\* A region is opened up for the names of a paste and for no others: "typing must
\* never arm it", and "a saved file that opens with red squiggles must not be
\* unwrapped" (Editor.tsx:118, 257).
OnlyPasteUnwraps ==
  [][text # None /\ text' # None /\ text.wrapped /\ ~ text'.wrapped /\ text'.lead = text.lead /\ shown' = shown
         /\ tab' = tab
       => Ambiguous(text, Unresolved(text)) \subseteq pasted]_<<text, shown>>

\* When the typing has paused and nothing is on its way, the server has of every
\* field what was last written or chosen, or else what was on its way as that was
\* sent: an update is not held back for another (RequestWorkspace.tsx:149, 171, 182),
\* but no older one wins, nor one of another field.
FieldsSaved ==
  timers = << >> /\ calls = {} =>
    \A r \in DOMAIN stored : \A f \in DOMAIN stored[r] :
      stored[r][f] \in {asked[r][f]} \cup rivals[r][f]
===============================================================================
