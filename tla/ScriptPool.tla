------------------------------ MODULE ScriptPool ------------------------------
(***************************************************************************)
(* The pool of QuickJS instances middleware runs in (service/scripting/      *)
(* pool.go).  A run takes the instance that was put back last, or a new one  *)
(* when none is idle: runs nest, so waiting for one could wait for itself.   *)
(* An instance that trapped or was interrupted is dead and must never run    *)
(* anything again.                                                           *)
(***************************************************************************)
EXTENDS Naturals, Sequences

CONSTANTS
  Instances,  \* identities, free to be used again once their instance is closed
  MaxIdle     \* Pool.maxIdle

ASSUME MaxIdleAssumption == MaxIdle \in Nat \ {0}

VARIABLES
  idle,   \* Pool.idle
  busy,   \* instances some run holds
  dead,   \* Instance.dead
  shut    \* Pool.closed, and the runtime closed with it

poolVars == <<idle, busy, dead, shut>>

Waiting == { idle[n] : n \in DOMAIN idle }

PoolInit ==
  /\ idle = <<>>
  /\ busy = {}
  /\ dead = {}
  /\ shut = FALSE

\* get: the last one put back, or a new one.
Get(i) ==
  /\ i \notin busy
  /\ idle = <<>> => ~shut
  /\ idle # <<>> => i = idle[Len(idle)]
  /\ idle' = IF idle = <<>> THEN idle ELSE SubSeq(idle, 1, Len(idle) - 1)
  /\ busy' = busy \cup {i}
  /\ UNCHANGED <<dead, shut>>

\* mapErr: a call into the instance did not return.
Trap(i) ==
  /\ i \in busy
  /\ dead' = dead \cup {i}
  /\ UNCHANGED <<idle, busy, shut>>

\* Mutant: what trapped is put back with the rest.
ReusableDead(i) == ~shut /\ Len(idle) < MaxIdle

\* put: back to the pool, or closed.
Reusable(i) == i \notin dead /\ ~shut /\ Len(idle) < MaxIdle

Put(i) ==
  /\ i \in busy
  /\ busy' = busy \ {i}
  /\ idle' = IF Reusable(i) THEN Append(idle, i) ELSE idle
  /\ dead' = IF Reusable(i) THEN dead ELSE dead \ {i}
  /\ UNCHANGED shut

\* Engine.Close: the pool forgets its instances and the runtime closes them,
\* the ones that run included.
Close ==
  /\ ~shut
  /\ shut' = TRUE
  /\ idle' = <<>>
  /\ dead' = busy
  /\ UNCHANGED busy

PoolNext == Close \/ \E i \in Instances : Get(i) \/ Trap(i) \/ Put(i)

PoolSpec == PoolInit /\ [][PoolNext]_poolVars
------------------------------------------------------------------------------
\* An idle instance is in the pool once, is held by no run and has not died; the
\* pool keeps no more than it may, and none once it is closed (put, Close).
PoolInv ==
  /\ \A m, n \in DOMAIN idle : idle[m] = idle[n] => m = n
  /\ Waiting \cap (busy \cup dead) = {}
  /\ dead \subseteq busy
  /\ Len(idle) <= MaxIdle
  /\ shut => idle = <<>>
==============================================================================
