-------------------------------- MODULE Invoke --------------------------------
(***************************************************************************)
(* Invocations (service/workspace/invoke.go, invoke_saved.go, middleware.go, *)
(* gvinvoke.go, runscript.go) in one collection.  An invocation reads the    *)
(* saved request, evaluates its messages, folds the metadata of the folders  *)
(* above it with its own, runs the messages through the attached middleware, *)
(* sends them and records what came back.  Each of its reads of the store is *)
(* one critical section, and requests and folders are moved in between.      *)
(*                                                                           *)
(* All but the sending is done by scripts, and a script may invoke a request *)
(* of the collection: a host call that runs the whole of another invocation  *)
(* before it returns.  So a caller is a stack of invocations, of which only  *)
(* the last runs, inside the script of the one before it.                    *)
(***************************************************************************)
EXTENDS ScriptPool, OutgoingMetadata, FiniteSets

CONSTANTS
  Callers,        \* goroutines, each serving one top-level call after another
  Names, Items,   \* the names a request can have in the folder, and requests
  Start,          \* who has which name at the start
  OwnScript,      \* the metadata script saved with each request, or NoScript
  FolderScripts,  \* the scripts of the folders above, from the root down
  MaxFolders,     \* MaxFolderMetadataDepth
  Attached,       \* each request's middleware, in order
  Stamps,         \* the metadata each middleware sets
  Asks,           \* the top-level calls to choose from
  MaxDepth,       \* maxInvokeDepth
  Limit,          \* historyLimit
  MaxCalls,       \* bound: top-level calls
  MaxWork,        \* bound: twice these, the calls of invoke() by scripts, and changes
                  \* of the collection while calls run
  OwnInstance,    \* stands for an instance that is made for one run
  None

\* What is asked for: a call with the editor's buffers, a saved request, a saved
\* request's dry run, or a script of the scratchpad.  A saved request that is run
\* as a unary call sends the first of its messages only.
Kinds == {"adhoc", "saved", "dry", "script"}
IsAsk(q) ==
  /\ q.kind \in Kinds /\ q.stream \in BOOLEAN /\ q.record \in BOOLEAN
  /\ q.n \in Nat \ {0} /\ q.name \in Names \cup {None}
  /\ q.own = NoScript \/ IsScript(q.own)
  /\ Lists(q.explicit)

ASSUME DepthAssumption == MaxDepth \in Nat /\ Limit \in Nat \ {0} /\ MaxCalls \in Nat
ASSUME InstanceAssumption == None # OwnInstance /\ {None, OwnInstance} \cap Instances = {}
ASSUME AsksAssumption == \A q \in Asks : IsAsk(q)
ASSUME ScriptsAssumption ==
  /\ FolderScripts \in Seq({FolderScripts[n] : n \in DOMAIN FolderScripts})
  /\ \A n \in DOMAIN FolderScripts : FolderScripts[n] = NoScript \/ IsScript(FolderScripts[n])
  /\ \A i \in Items : OwnScript[i] = NoScript \/ IsScript(OwnScript[i])
ASSUME AttachedAssumption == Attached \in [Items -> Seq(DOMAIN Stamps)]
ASSUME StartAssumption == Start \in [Names -> Items \cup {None}] /\ None \notin Callers

VARIABLES
  at,       \* the request that has a name, or None
  folder,   \* whether the folder is still where the callers think
  files,    \* whether the middleware's files are there
  hist,     \* each request's history file: numbers of top-level calls
  mu,       \* Collection.mu, where it is held over two steps
  stack,    \* each caller's invocations
  late,     \* the deadline of the first one's script has passed
  gone,     \* the client has hung up
  number,   \* each caller's top-level call
  begun, invokes, edits,
  due,      \* history: the request whose history must come to have the call
  passed    \* history: records that were dropped for newer ones

store == <<at, folder, files>>
ghosts == <<due, passed>>
callVars == <<late, gone, number>>
vars == <<idle, busy, dead, shut, at, folder, files, hist, mu, stack, late, gone, number,
          begun, invokes, edits, due, passed>>

Frame(q) ==
  [ask |-> q, pc |-> "resolve", n |-> q.n, own |-> q.own, run |-> None, msg |-> 1, step |-> 1,
   bodies |-> <<>>, md |-> Nothing, chain |-> <<>>, read |-> <<>>, steady |-> TRUE]

\* gvinvoke.go: what a script asks for is a saved request, never recorded.
Nested(name) ==
  [kind |-> "saved", stream |-> FALSE, n |-> 1, record |-> FALSE, name |-> name,
   own |-> NoScript, explicit |-> << >>]

Init ==
  /\ PoolInit
  /\ at = Start
  /\ folder = TRUE
  /\ files = TRUE
  /\ hist = [i \in Items |-> <<>>]
  /\ mu = None
  /\ stack = [c \in Callers |-> <<>>]
  /\ late = [c \in Callers |-> FALSE]
  /\ gone = [c \in Callers |-> FALSE]
  /\ number = [c \in Callers |-> 0]
  /\ begun = 0
  /\ invokes = 0
  /\ edits = 0
  /\ due = [n \in 1..MaxCalls |-> None]
  /\ passed = {}
------------------------------------------------------------------------------
Active(c) == stack[c] # <<>>
Top(c) == stack[c][Len(stack[c])]
Outermost(c) == Len(stack[c]) = 1

\* resolveRequestChild: the folder is resolved before the name in it.
Lookup(name) == IF name # None /\ folder THEN at[name] ELSE None

\* The last invocation of c goes on as f.
Become(c, f) == stack' = [stack EXCEPT ![c][Len(stack[c])] = f]

\* The last invocation ends, with a response or an error: the script that asked
\* for it goes on with either, the client has its answer.
Return(c) == stack' = [stack EXCEPT ![c] = SubSeq(stack[c], 1, Len(stack[c]) - 1)]

Reading(c) == Active(c) /\ mu = None /\ Top(c).run = None
------------------------------------------------------------------------------
(* The handlers. *)

Work == 2 * begun + invokes + edits

Begin(c, q) ==
  /\ ~Active(c)
  /\ c = CHOOSE x \in Callers : ~Active(x)
  /\ begun < MaxCalls /\ Work + 2 <= MaxWork
  /\ begun' = begun + 1
  /\ number' = [number EXCEPT ![c] = begun']
  /\ late' = [late EXCEPT ![c] = FALSE]
  /\ gone' = [gone EXCEPT ![c] = FALSE]
  /\ stack' = [stack EXCEPT ![c] = <<Frame(q)>>]
  /\ UNCHANGED <<poolVars, store, hist, mu, invokes, edits, ghosts>>

\* resolveSavedRun and resolveMethod.  The request that is read names its method
\* and its scripts; a method nobody defines, a method that streams run as one
\* that does not, or no server to call is an error.  A dry run looks for no method.
Resolve(c) ==
  LET f == Top(c)
      item == Lookup(f.ask.name)
      saved == f.ask.kind \in {"saved", "dry"}
  IN
  /\ Reading(c)
  /\ f.pc = "resolve"
  /\ \/ /\ saved => item # None
        /\ Become(c, [f EXCEPT !.pc = IF f.ask.kind = "script" THEN "scratch" ELSE "body",
                               !.n = IF f.ask.stream \/ f.ask.kind = "dry" THEN f.n ELSE 1,
                               !.own = IF saved THEN OwnScript[item] ELSE f.own])
     \/ /\ f.ask.kind # "dry" \/ item = None
        /\ Return(c)
  /\ UNCHANGED <<poolVars, store, hist, mu, callVars, begun, invokes, edits, ghosts>>

\* Where an invocation is once the metadata of n folders is folded.
Folded(f, md) ==
  IF f.own = NoScript THEN [f EXCEPT !.pc = "attached", !.md = Under(f.ask.explicit, md)]
  ELSE [f EXCEPT !.pc = "own", !.md = md]

\* The folders that have a script, which the others are passed over for.
ScriptChain ==
  LET having == {n \in DOMAIN FolderScripts : FolderScripts[n] # NoScript}
  IN [k \in 1..Cardinality(having) |->
        FolderScripts[CHOOSE n \in having : Cardinality({m \in having : m < n}) = k - 1]]

\* foldAncestorMetadata: a folder that is gone has no metadata.
ReadFolders(c) ==
  LET f == Top(c)
      scripts == IF folder /\ f.ask.name # None THEN ScriptChain ELSE <<>>
  IN
  /\ Reading(c)
  /\ f.pc = "folders"
  /\ IF f.ask.name # None /\ Len(FolderScripts) > MaxFolders THEN Return(c)
     ELSE Become(c, IF scripts = <<>> THEN Folded(f, Nothing)
                    ELSE [f EXCEPT !.pc = "folder", !.chain = scripts, !.step = 1])
  /\ UNCHANGED <<poolVars, store, hist, mu, callVars, begun, invokes, edits, ghosts>>

\* loadAttachedMiddleware: a call of no request, or of one that is not found any
\* more, has none.
ReadAttached(c) ==
  LET f == Top(c)
      item == Lookup(f.ask.name)
  IN
  /\ Reading(c)
  /\ f.pc = "attached"
  /\ IF item = None THEN Become(c, [f EXCEPT !.pc = "send"])
     ELSE IF Attached[item] = <<>> THEN Become(c, [f EXCEPT !.pc = "send"])
     ELSE IF ~files THEN Return(c)
     ELSE Become(c, [f EXCEPT !.pc = "middleware", !.chain = Attached[item], !.msg = 1, !.step = 1,
                              !.md = Single(f.md)])
  /\ UNCHANGED <<poolVars, store, hist, mu, callVars, begun, invokes, edits, ghosts>>

\* The messages are read into the method's type and sent; a dry run has no more
\* to do than to name the server.
Send(c) ==
  LET f == Top(c) IN
  /\ Reading(c)
  /\ f.pc = "send"
  /\ \/ f.ask.kind # "dry" /\ Become(c, [f EXCEPT !.pc = "sent"])
     \/ Return(c)
  /\ UNCHANGED <<poolVars, store, hist, mu, callVars, begun, invokes, edits, ghosts>>

\* The server answers, or the call is cut off; both are a response.  What cannot
\* be read, or sent on to a client that has hung up on its stream, is an error.
Answer(c) ==
  LET f == Top(c)
      kept == Outermost(c) /\ f.ask.record /\ f.ask.name # None
  IN
  /\ Active(c)
  /\ f.pc = "sent"
  /\ \/ /\ ~(f.ask.stream /\ gone[c])
        /\ IF kept
           THEN /\ Become(c, [f EXCEPT !.pc = "record"])
                /\ due' = [due EXCEPT ![number[c]] = IF f.steady THEN Lookup(f.ask.name) ELSE None]
           ELSE Return(c) /\ UNCHANGED due
     \/ Return(c) /\ UNCHANGED due
  /\ UNCHANGED <<poolVars, store, hist, mu, callVars, begun, invokes, edits, passed>>

\* Mutant: the history is read without the mutex.
RecordUnlocked(c) ==
  LET f == Top(c)
      item == Lookup(f.ask.name)
  IN
  /\ Reading(c)
  /\ f.pc = "record"
  /\ IF item = None THEN Return(c)
     ELSE Become(c, [f EXCEPT !.pc = "append", !.read = hist[item]])
  /\ UNCHANGED <<poolVars, store, hist, mu, callVars, begun, invokes, edits, ghosts>>

\* recordHistory and AppendHistory: the request is looked up again by its name,
\* and its file is read and written back under the collection's mutex.
Record(c) ==
  LET f == Top(c)
      item == Lookup(f.ask.name)
  IN
  /\ Reading(c)
  /\ f.pc = "record"
  /\ IF item = None THEN Return(c) /\ UNCHANGED mu
     ELSE Become(c, [f EXCEPT !.pc = "append", !.read = hist[item]]) /\ mu' = c
  /\ UNCHANGED <<poolVars, store, hist, callVars, begun, invokes, edits, ghosts>>

Newest(entries) == SubSeq(entries, IF Len(entries) > Limit THEN Len(entries) - Limit + 1 ELSE 1, Len(entries))

AppendHistory(c) ==
  LET f == Top(c)
      entries == Append(f.read, number[c])
      item == Lookup(f.ask.name)
  IN
  /\ Active(c)
  /\ f.pc = "append"
  /\ hist' = [hist EXCEPT ![item] = Newest(entries)]
  /\ passed' = passed \cup { n \in 1..MaxCalls : Len(entries) > Limit /\ n = entries[1] }
  /\ mu' = None
  /\ Return(c)
  /\ UNCHANGED <<poolVars, store, callVars, begun, invokes, edits, due>>
------------------------------------------------------------------------------
(* The scripts.  Middleware runs in an instance of the pool, all others in one  *)
(* that is made for them and closed.                                            *)

Scripted == {"body", "folder", "own", "middleware", "scratch"}

Running(c) == Active(c) /\ Top(c).run # None
Alive(c) == Running(c) /\ ~shut /\ Top(c).run \notin dead

\* A script that does not compile, or an instance that cannot be made, ends the
\* invocation before anything runs.
StartScript(c) ==
  LET f == Top(c) IN
  /\ Active(c)
  /\ f.pc \in Scripted
  /\ f.run = None
  /\ \/ Return(c) /\ UNCHANGED poolVars
     \/ /\ f.pc # "middleware"
        /\ ~shut
        /\ Become(c, [f EXCEPT !.run = OwnInstance])
        /\ UNCHANGED poolVars
     \/ /\ f.pc = "middleware"
        /\ LET i == IF idle # <<>> THEN idle[Len(idle)]
                    ELSE CHOOSE x \in Instances : x \notin busy
           IN i \in Instances /\ Get(i) /\ Become(c, [f EXCEPT !.run = i])
  /\ UNCHANGED <<store, hist, mu, callVars, begun, invokes, edits, ghosts>>

\* Mutant: the middleware has been through when one message has.
OnwardFirst(f) ==
  IF f.pc = "body"
  THEN [f EXCEPT !.bodies = Append(f.bodies, <<f.msg>>), !.msg = f.msg + 1,
                 !.pc = IF f.msg < f.n THEN "body" ELSE "folders"]
  ELSE IF f.pc = "folder"
  THEN LET md == Result(f.chain[f.step], f.md) IN
       IF f.step < Len(f.chain) THEN [f EXCEPT !.md = md, !.step = f.step + 1] ELSE Folded(f, md)
  ELSE IF f.pc = "own"
  THEN [f EXCEPT !.md = Result(f.own, f.md), !.pc = "attached"]
  ELSE [f EXCEPT !.bodies[f.msg] = Append(@, f.chain[f.step]),
                 !.md = Stamped(Stamps[f.chain[f.step]], f.md),
                 !.step = f.step + 1,
                 !.pc = IF f.step = Len(f.chain) THEN "send" ELSE "middleware"]

\* What its result makes of the invocation.
Onward(f) ==
  IF f.pc = "body"
  THEN [f EXCEPT !.bodies = Append(f.bodies, <<f.msg>>), !.msg = f.msg + 1,
                 !.pc = IF f.msg < f.n THEN "body" ELSE "folders"]
  ELSE IF f.pc = "folder"
  THEN LET md == Result(f.chain[f.step], f.md) IN
       IF f.step < Len(f.chain) THEN [f EXCEPT !.md = md, !.step = f.step + 1] ELSE Folded(f, md)
  ELSE IF f.pc = "own"
  THEN [f EXCEPT !.md = Result(f.own, f.md), !.pc = "attached"]
  ELSE LET mw == f.chain[f.step]
           last == f.step = Len(f.chain)
       IN [f EXCEPT !.bodies[f.msg] = Append(@, mw), !.md = Stamped(Stamps[mw], f.md),
                    !.step = IF last THEN 1 ELSE f.step + 1,
                    !.msg = IF last THEN f.msg + 1 ELSE f.msg,
                    !.pc = IF last /\ f.msg = f.n THEN "send" ELSE "middleware"]

\* The deferred calls of a run: the instance is closed or put back, and the
\* deadline of a first invocation's script is over.
Leave(c) ==
  /\ late' = [late EXCEPT ![c] = @ /\ ~Outermost(c)]
  /\ IF Top(c).run = OwnInstance THEN UNCHANGED poolVars ELSE Put(Top(c).run)

ScriptYields(c) ==
  LET f == Top(c) IN
  /\ Alive(c)
  /\ Leave(c)
  /\ IF f.pc = "scratch" THEN Return(c) ELSE Become(c, Onward([f EXCEPT !.run = None]))
  /\ UNCHANGED <<store, hist, mu, gone, number, begun, invokes, edits, ghosts>>

\* It throws, or returns what the stage cannot use.
ScriptFails(c) ==
  /\ Running(c)
  /\ Leave(c)
  /\ Return(c)
  /\ UNCHANGED <<store, hist, mu, gone, number, begun, invokes, edits, ghosts>>

\* It traps, or its context is over: the instance is dead, and the run fails.
ScriptTraps(c) ==
  LET i == Top(c).run IN
  /\ Running(c)
  /\ i \notin dead
  /\ IF i = OwnInstance THEN Leave(c) /\ Return(c)
     ELSE Trap(i) /\ UNCHANGED <<late, stack>>
  /\ UNCHANGED <<store, hist, mu, gone, number, begun, invokes, edits, ghosts>>

\* invoke(): what is too deep is thrown back at the script.
ScriptInvokes(c, name) ==
  /\ Alive(c)
  /\ Work < MaxWork
  /\ invokes' = invokes + 1
  /\ stack' = IF Len(stack[c]) > MaxDepth THEN stack
              ELSE [stack EXCEPT ![c] = Append(@, Frame(Nested(name)))]
  /\ UNCHANGED <<poolVars, store, hist, mu, callVars, begun, edits, ghosts>>

\* withProfileDeadline: the first script of a stack sets a deadline, and all that
\* it invokes has to keep it.
Deadline(c) ==
  /\ Active(c)
  /\ stack[c][1].run # None
  /\ ~late[c]
  /\ late' = [late EXCEPT ![c] = TRUE]
  /\ UNCHANGED <<poolVars, store, hist, mu, stack, gone, number, begun, invokes, edits, ghosts>>

\* Mutant: every invocation would wait for a deadline of its own.
OverAlone(c) == (late[c] /\ Outermost(c)) \/ gone[c] \/ shut

Over(c) == late[c] \/ gone[c] \/ shut
------------------------------------------------------------------------------
(* Everybody else. *)

HangUp(c) ==
  /\ Active(c)
  /\ ~gone[c]
  /\ gone' = [gone EXCEPT ![c] = TRUE]
  /\ UNCHANGED <<poolVars, store, hist, mu, stack, late, number, begun, invokes, edits, ghosts>>

CloseEngine == Close /\ UNCHANGED <<store, hist, mu, stack, callVars, begun, invokes, edits, ghosts>>

\* A request is renamed, the folder is moved, a file of the middleware is deleted.
Edit ==
  /\ mu = None
  /\ Work < MaxWork
  /\ edits' = edits + 1
  /\ \/ /\ \E a, b \in Names :
             /\ at[a] # None
             /\ at[b] = None
             /\ at' = [at EXCEPT ![a] = None, ![b] = at[a]]
        /\ UNCHANGED <<folder, files>>
     \/ folder /\ folder' = FALSE /\ UNCHANGED <<at, files>>
     \/ files /\ files' = FALSE /\ UNCHANGED <<at, folder>>
  /\ stack' = [c \in Callers |-> [n \in DOMAIN stack[c] |-> [stack[c][n] EXCEPT !.steady = FALSE]]]
  /\ due' = [n \in 1..MaxCalls |-> IF \E c \in Callers : Active(c) /\ number[c] = n THEN None ELSE due[n]]
  /\ UNCHANGED <<poolVars, hist, mu, callVars, begun, invokes, passed>>

Step(c) ==
  \/ Resolve(c) \/ ReadFolders(c) \/ ReadAttached(c) \/ Send(c) \/ Answer(c)
  \/ Record(c) \/ AppendHistory(c)
  \/ StartScript(c) \/ ScriptYields(c) \/ ScriptFails(c) \/ ScriptTraps(c) \/ Deadline(c) \/ HangUp(c)

Next ==
  \/ \E c \in Callers : Step(c) \/ (\E q \in Asks : Begin(c, q)) \/ (\E name \in Names : ScriptInvokes(c, name))
  \/ CloseEngine
  \/ Edit

\* Handlers go on, deadlines pass, and what is over is interrupted.  A script may
\* run for ever and a server never answer.
Fairness ==
  \A c \in Callers :
    /\ WF_vars(Resolve(c) \/ ReadFolders(c) \/ ReadAttached(c) \/ Send(c) \/ Record(c) \/ AppendHistory(c))
    /\ WF_vars(StartScript(c))
    /\ WF_vars(Deadline(c))
    /\ WF_vars(Over(c) /\ (ScriptTraps(c) \/ ScriptFails(c)))
    /\ WF_vars((late[c] \/ gone[c]) /\ Answer(c))

Spec == Init /\ [][Next]_vars /\ Fairness
------------------------------------------------------------------------------
(* Properties. *)

TypeOK ==
  /\ at \in [Names -> Items \cup {None}]
  /\ folder \in BOOLEAN /\ files \in BOOLEAN
  /\ \A i \in Items : Len(hist[i]) <= Limit /\ \A n \in DOMAIN hist[i] : hist[i][n] \in 1..MaxCalls
  /\ mu \in Callers \cup {None}
  /\ \A c \in Callers :
       /\ Len(stack[c]) <= MaxDepth + 1
       /\ \A n \in DOMAIN stack[c] : stack[c][n].run \in Instances \cup {None, OwnInstance}
  /\ late \in [Callers -> BOOLEAN] /\ gone \in [Callers -> BOOLEAN]
  /\ number \in [Callers -> 0..MaxCalls]

Runs == { r \in Callers \X (1..MaxDepth + 1) :
            r[2] <= Len(stack[r[1]]) /\ stack[r[1]][r[2]].run \in Instances }

\* Every instance the pool has given out is held by one run, of one caller and at
\* one depth, and by it alone; the ones at rest are whole (get, put).
PoolSound ==
  /\ PoolInv
  /\ busy = { stack[r[1]][r[2]].run : r \in Runs }
  /\ \A r, s \in Runs : stack[r[1]][r[2]].run = stack[s[1]][s[2]].run => r = s

\* What is sent has been through all of the middleware attached to the request,
\* in order and each message for itself, and goes with the metadata of its whole
\* chain of folders, if nothing was moved while the invocation ran: however deep
\* it is nested, whatever its scripts invoked.
NothingDropped ==
  \A c \in Callers : \A n \in DOMAIN stack[c] :
    LET f == stack[c][n]
        item == Lookup(f.ask.name)
        mw == IF item = None THEN <<>> ELSE Attached[item]
        chain == IF f.ask.name = None \/ ~folder THEN <<>> ELSE ScriptChain
        md == Intended(chain, f.own, f.ask.explicit)
        Last(k) == { m \in DOMAIN mw : k \in DOMAIN Stamps[mw[m]] }
    IN f.pc = "sent" /\ f.steady =>
         /\ f.bodies = [m \in 1..f.n |-> <<m>> \o mw]
         /\ f.md = [k \in Keys |-> IF mw = <<>> THEN md[k]
                                   ELSE IF Last(k) # {} THEN Stamps[mw[Max(Last(k))]][k]
                                   ELSE FirstOnly(md[k])]

\* A finished call whose answer was to be recorded, and whose request was not
\* moved, is in that request's history unless newer ones have pushed it out, and
\* the history has no call twice: not even with two calls at once (AppendHistory).
\* The variables keep their types.
Finished(n) == n <= begun /\ \A c \in Callers : Active(c) => number[c] # n

HistoryExact ==
  /\ TypeOK
  /\ \A n \in 1..MaxCalls : Finished(n) /\ due[n] # None =>
       n \in passed \/ \E m \in DOMAIN hist[due[n]] : hist[due[n]][m] = n
  /\ \A i \in Items : \A m, n \in DOMAIN hist[i] : hist[i][m] = hist[i][n] => m = n

\* A stack of scripts ends, though a script loops, or waits for a server that
\* never answers, at any depth.
ScriptsEnd ==
  \A c \in Callers :
    (Active(c) /\ stack[c][1].run # None) ~> (~Active(c) \/ stack[c][1].run = None)
==============================================================================
