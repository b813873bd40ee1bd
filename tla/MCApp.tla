--------------------------------- MODULE MCApp ---------------------------------
(* Small instances of App for TLC, one start for each thing to look at. *)
EXTENDS App

CONSTANTS c1, c2, c3, F, G, r1, r2, r3, new, p1, p2, p3, p4, s1, s2, s3, old, other, w1, w2, twice, once,
          unary, stream, n1, n2

MCDirs == <<c1, c2, c3>>

\* A collection with a folder and two requests, one of them named like what the
\* folder holds; another one with a folder of the same name.
MCTree ==
  [ kids |-> c1 :> <<r2, r3, F>> @@ c2 :> <<G>> @@ F :> <<r1>> @@ G :> << >>,
    name |-> r1 :> "a" @@ r2 :> "a" @@ r3 :> "b" @@ F :> "f" @@ G :> "f" @@ new :> "b" ]

\* One alone, with a folder that the other one can go into.
MCOne == [MCTree EXCEPT !.kids = c1 :> <<r2, G, F>> @@ F :> <<r1>> @@ G :> << >>, !.name[G] = "b"]

MCPlain ==
  [ cols |-> <<c1>>, tree |-> MCOne, acts |-> 3, changes |-> 1, view |-> "workspace",
    views |-> {"workspace"}, dirs |-> {c3},
    files |-> [coll \in {c1, c2, c3} |-> << >>], lists |-> [coll \in {c1, c2, c3} |-> << >>], daemons |-> << >>,
    requests |-> << >> ]

MCTiered == [MCPlain EXCEPT !.cols = <<c1, c2>>, !.tree = MCTree, !.acts = 2, !.views = {"workspace", "sources"}]

\* Two collections with a script each, and a third path.
MCScripts ==
  [MCTiered EXCEPT !.acts = 4, !.changes = 3, !.view = "scripts", !.views = {"scripts", "sources"}, !.dirs = {c3},
                   !.files = c1 :> (p1 :> [id |-> s1, text |-> old]) @@ c2 :> (p2 :> [id |-> s2, text |-> old]) @@ c3 :> << >>]

MCSources ==
  [MCPlain EXCEPT !.acts = 3, !.changes = 4, !.view = "sources", !.views = {"sources", "daemons"}, !.dirs = {c3},
                  !.lists[c1] = <<[id |-> w1, commit |-> FALSE], [id |-> w2, commit |-> TRUE]>>]

MCDaemons ==
  [MCPlain EXCEPT !.acts = 2, !.changes = 3, !.view = "daemons", !.views = {"daemons", "scripts"}, !.dirs = {},
                  !.daemons = c1 :> TRUE @@ c2 :> TRUE]

\* Two requests with tabs.  A name is exported by one module, another by two, and the
\* stored script that uses it does not import it.
MCHomes == twice :> 2 @@ once :> 1
Region(uses, imports) == [wrapped |-> TRUE, shim |-> TRUE, imports |-> imports, lead |-> "brace", uses |-> uses]
Plain(uses, lead) == [wrapped |-> FALSE, shim |-> FALSE, imports |-> {}, lead |-> lead, uses |-> uses]
MCDefault == Region({}, {})
MCPast == Region({once}, {once})
MCRequest(body) ==
  [ body |-> body, metadata |-> Plain({}, "none"), target |-> [address |-> FALSE, tls |-> FALSE],
    method |-> unary, middleware |-> <<n1>> ]

MCPane ==
  [MCPlain EXCEPT !.tree = [MCOne EXCEPT !.kids[c1] = << >>], !.acts = 2, !.changes = 2, !.views = {"workspace", "daemons"}, !.dirs = {},
                  !.requests = r1 :> MCRequest(Region({once}, {once})) @@ r2 :> MCRequest(Plain({twice}, "brace"))]

\* One of several messages, whose first was emptied and left before the pause.
MCEmptied == [Region({}, {once}) EXCEPT !.lead = "none"]
MCMessages ==
  [MCPane EXCEPT !.requests = r3 :> [MCRequest(MCEmptied) EXCEPT !.method = stream]]

MCWritable == { [lead |-> "brace", uses |-> {twice}], [lead |-> "other", uses |-> {once}] }

MCStarts == {MCPlain, MCTiered, MCScripts, MCSources, MCDaemons, MCPane, MCMessages}

Stroke(key, mods) == [key |-> key, mods |-> mods]
MCStrokes ==
  { Stroke("ArrowDown", {}), Stroke("ArrowLeft", {}), Stroke("ArrowDown", {"shift"}),
    Stroke("a", {"ctrl"}), Stroke("Enter", {}), Stroke("Delete", {}), Stroke("F2", {}) }
===============================================================================
