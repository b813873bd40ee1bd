--------------------------- MODULE OutgoingMetadata ---------------------------
(***************************************************************************)
(* The metadata a call goes out with (service/workspace/invoke.go,           *)
(* middleware.go).  Every folder above the request may have a script, which  *)
(* sees what the folders above it made and returns what the ones below it    *)
(* see; the request's own script comes last; middleware sees one value a key *)
(* and returns what is sent.                                                 *)
(***************************************************************************)
EXTENDS Naturals, Sequences, FiniteSetsExt

CONSTANTS Keys, Values, NoScript

\* Values of some of the keys.
Lists(md) == DOMAIN md \subseteq Keys /\ \A k \in DOMAIN md : md[k] \in Seq(Values)

\* A key with no values is not sent.
Nothing == [k \in Keys |-> <<>>]

\* A script is told apart by the keys it sets and by whether it spreads inherit()
\* into its result.
IsScript(s) == Lists(s.sets) /\ s.spreads \in BOOLEAN

Result(s, inherited) ==
  [k \in Keys |-> IF k \in DOMAIN s.sets THEN s.sets[k]
                  ELSE IF s.spreads THEN inherited[k] ELSE <<>>]

\* inheritedMetadataOnly: what the caller gives explicitly wins.
Under(explicit, inherited) ==
  [k \in Keys |-> IF k \in DOMAIN explicit THEN explicit[k] ELSE inherited[k]]

\* mdToStringMap, parseMiddlewareResult.
FirstOnly(values) == IF values = <<>> THEN <<>> ELSE <<Head(values)>>
Single(md) == [k \in Keys |-> FirstOnly(md[k])]
Stamped(sets, md) == [k \in Keys |-> IF k \in DOMAIN sets THEN sets[k] ELSE md[k]]
------------------------------------------------------------------------------
(* The same said of one key at a time, for the scripts of a chain of folders  *)
(* from the root down: the deepest script that sets the key gives its values, *)
(* unless a script below it does not spread what it inherits.                 *)
Inherited(chain, k) ==
  LET setting == { n \in DOMAIN chain : k \in DOMAIN chain[n].sets }
      last == IF setting = {} THEN 0 ELSE Max(setting)
      cut == \E n \in DOMAIN chain : n > last /\ ~chain[n].spreads
  IN IF setting = {} \/ cut THEN <<>> ELSE chain[last].sets[k]

Intended(chain, own, explicit) ==
  [k \in Keys |->
     IF own = NoScript
     THEN IF k \in DOMAIN explicit THEN explicit[k] ELSE Inherited(chain, k)
     ELSE Inherited(Append(chain, own), k)]
==============================================================================
