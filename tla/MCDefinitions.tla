---------------------------- MODULE MCDefinitions ----------------------------
(* Definitions with two sources, one of them a server, that hold two files   *)
(* of which the first differs between them, and one collection that can be   *)
(* moved to another id and back.                                             *)
EXTENDS Definitions, TLC

CONSTANTS id1, id2, srcA, srcB, fileF, fileG, svcP, svcQ

Snapshot(files, inF, inG, listed) ==
  [files |-> files, defines |-> (fileF :> inF @@ fileG :> inG), listed |-> listed]

OnlyF == Snapshot({fileF}, {svcP}, {}, {svcP})
Both == Snapshot({fileF, fileG}, {svcP}, {svcQ}, {svcP, svcQ})
OtherF == Snapshot({fileF}, {svcQ}, {}, {svcQ})

MCSnapshots == (srcA :> {OnlyF, Both} @@ srcB :> {OtherF})

MCStart == [k \in Ids |->
             IF k = id1 THEN [list |-> <<srcA>>, res |-> (srcA :> OnlyF @@ srcB :> Unresolved), at |-> 0] ELSE None]

Alike == Permutations(Handlers)
==============================================================================
