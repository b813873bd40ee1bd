--------------------------------- MODULE Region ---------------------------------
(***************************************************************************)
(* The script of a request's body or metadata.  A wrapped script is a      *)
(* region between two marker lines: the author sees the region, what is    *)
(* above it is the machine's, a block of imports and the shim              *)
(* "export default ... => (" that the last line closes.  A plain script    *)
(* has no markers and is all the author's                                  *)
(* (ui/src/features/workspace/script-region.ts, region-edits.ts,           *)
(* import-block.ts, resolve-imports.ts, body-wrapper.ts).                  *)
(*                                                                         *)
(* Of the text the module keeps the form it has, what it begins with and   *)
(* the names it uses; imports the machine does not manage are left out.    *)
(***************************************************************************)
EXTENDS Naturals, FiniteSets

CONSTANTS
  Names,  \* names a script may use and import
  Homes   \* how many modules export each, a function of them

\* What the author wrote begins with a brace, with something else, or is empty.
ScriptTexts == [wrapped : BOOLEAN, shim : BOOLEAN, imports : SUBSET Names,
                lead : {"brace", "other", "none"}, uses : SUBSET Names]

\* A region always has its shim around it.
Formed(t) == t.wrapped => t.shim

-----------------------------------------------------------------------------
\* The whole text is what the author wrote, and no more.
Bare(t) == ~ t.wrapped /\ ~ t.shim /\ t.imports = {}

\* The first token decides the mode; an empty region holds the mode it has.
ModeSwitchFor(t) ==
  IF t.wrapped /\ t.lead = "other" THEN "toPlain"
  ELSE IF Bare(t) /\ t.lead = "brace" THEN "toWrapped"
  ELSE "none"

\* An import cannot stand where the region stands, and a bare object would be
\* wrapped again.
ShimIsDisposable(t) == t.imports = {} /\ t.lead # "brace"

Wrap(t) == [t EXCEPT !.wrapped = TRUE, !.shim = TRUE]
Unwrap(t) == [t EXCEPT !.wrapped = FALSE, !.shim = ~ ShimIsDisposable(t)]

\* What a change of the text is turned into.
Switched(t) ==
  IF ModeSwitchFor(t) = "toPlain" THEN Unwrap(t)
  ELSE IF ModeSwitchFor(t) = "toWrapped" THEN Wrap(t)
  ELSE t

\* How a stored script is opened: hostMetadataScript, and migrateBodyToTs, which
\* makes an empty message of an empty text.
Blank(t) == Bare(t) /\ t.lead = "none"
Hosted(t) == IF Bare(t) /\ t.lead = "brace" THEN Wrap(t) ELSE t
Migrated(t) == IF Blank(t) THEN Wrap([t EXCEPT !.lead = "brace"]) ELSE Hosted(t)

-----------------------------------------------------------------------------
(***************************************************************************)
(* What the TypeScript worker says of a text, and what is made of it.      *)
(***************************************************************************)
Unused(t) == t.imports \ t.uses
Unresolved(t) == t.uses \ t.imports

\* pruneEdits: the header of a region without the imports that are not used.
Pruned(t, unused) == IF t.wrapped THEN [t EXCEPT !.imports = @ \ unused] ELSE t

\* resolveOrBail: all the names or none.
Ambiguous(t, unresolved) == {n \in unresolved \ t.imports : Homes[n] # 1}
Bails(t, unresolved) == t.wrapped /\ Ambiguous(t, unresolved) # {}

Resolved(t, unresolved) ==
  IF ~ t.wrapped THEN t
  ELSE IF Bails(t, unresolved) THEN Unwrap(t)
  ELSE [t EXCEPT !.imports = @ \cup unresolved]
===============================================================================
