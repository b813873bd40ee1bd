------------------------------- MODULE MCInvoke -------------------------------
(* One request in a folder below another, with a script of its own and two    *)
(* middleware scripts, called as saved, from the editor with two messages and *)
(* dry, and from a scratchpad, by two callers who may be at it together.      *)
EXTENDS Invoke, TLC

CONSTANTS nameA, nameB, req1, mw1, mw2, key1, key2, v1, v2, v3

MCStart == nameA :> req1 @@ nameB :> None

Script(sets, spreads) == [sets |-> sets, spreads |-> spreads]
MCFolderScripts == <<Script(key1 :> <<v1, v2>>, FALSE), Script(key2 :> <<v2>>, TRUE)>>
MCOwnScript == req1 :> Script(key2 :> <<v3>>, TRUE)
MCAttached == req1 :> <<mw1, mw2>>
MCStamps == mw1 :> (key2 :> <<v1>>) @@ mw2 :> (key2 :> <<v2>>)

Asked(kind, stream, n, record, name, explicit) ==
  [kind |-> kind, stream |-> stream, n |-> n, record |-> record, name |-> name,
   own |-> NoScript, explicit |-> explicit]

MCAsks ==
  { Asked("saved", FALSE, 1, TRUE, nameA, << >>),
    Asked("adhoc", TRUE, 2, TRUE, nameA, key1 :> <<v3>>),
    Asked("dry", FALSE, 1, FALSE, nameA, << >>),
    Asked("script", FALSE, 1, FALSE, None, << >>) }
==============================================================================
