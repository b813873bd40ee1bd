----------------------------- MODULE InvokeProofs -----------------------------
(***************************************************************************)
(* Invocations use the pool of instances as it is meant to be used, however   *)
(* many callers there are and however deep their scripts nest: every step of  *)
(* an invocation is one of the pool's or leaves the pool alone, and what the  *)
(* pool has given out is what the frames of the stacks hold, each once.       *)
(*                                                                         *)
(* First the pool alone: what get, put, a trap and Close preserve, whoever    *)
(* calls them and in whatever order.                                          *)
(*                                                                         *)
(* Then the history: it has every call of a request that was to be recorded,  *)
(* once, until newer ones push it out.                                        *)
(*                                                                         *)
(* At the end what is sent: the messages have been through all of the         *)
(* middleware, and the metadata is that of the whole chain of folders.        *)
(***************************************************************************)
EXTENDS Invoke, FiniteSetTheorems, WellFoundedInduction, TLAPS

PoolTypeOK ==
  /\ idle \in Seq(Instances)
  /\ busy \subseteq Instances
  /\ dead \subseteq Instances
  /\ shut \in BOOLEAN

\* get: the run that takes an instance has it to itself, and the rest of the
\* pool is as it was.
LEMMA GetKeeps ==
  ASSUME PoolTypeOK, PoolInv, NEW i \in Instances, Get(i)
  PROVE  PoolTypeOK' /\ PoolInv'
<1>1. CASE idle = <<>>
  <2>1. idle' = <<>> /\ busy' = busy \cup {i} /\ dead' = dead /\ shut' = shut
    BY <1>1 DEF Get
  <2>2. DOMAIN idle' = {} /\ Waiting' = {}
    BY <2>1 DEF Waiting
  <2>3. Len(idle') <= MaxIdle
    BY <2>1, MaxIdleAssumption
  <2> QED
    BY <2>1, <2>2, <2>3 DEF PoolTypeOK, PoolInv
<1>2. CASE idle # <<>>
  <2> DEFINE last == Len(idle)
  <2>1. last \in Nat /\ last > 0 /\ i = idle[last] /\ DOMAIN idle = 1..last
    BY <1>2 DEF Get, PoolTypeOK
  <2>2. idle' = SubSeq(idle, 1, last - 1) /\ busy' = busy \cup {i} /\ dead' = dead /\ shut' = shut
    BY <1>2 DEF Get
  <2>3. /\ idle' \in Seq(Instances)
        /\ Len(idle') = last - 1
        /\ DOMAIN idle' = 1..(last - 1)
        /\ \A n \in 1..(last - 1) : idle'[n] = idle[n]
    BY <2>1, <2>2 DEF PoolTypeOK
  <2>4. Waiting' \subseteq Waiting /\ i \in Waiting
    BY <2>1, <2>3 DEF Waiting
  <2>5. i \notin Waiting'
    BY <2>1, <2>3 DEF Waiting, PoolInv
  <2>6. \A m, n \in DOMAIN idle' : idle'[m] = idle'[n] => m = n
    BY <2>1, <2>3 DEF PoolInv
  <2>7. ~shut /\ Len(idle') <= MaxIdle
    BY <1>2, <2>1, <2>3, MaxIdleAssumption DEF PoolInv, PoolTypeOK
  <2> QED
    BY <2>2, <2>3, <2>4, <2>5, <2>6, <2>7 DEF PoolTypeOK, PoolInv
<1> QED
  BY <1>1, <1>2

\* mapErr: an instance dies while a run holds it.
LEMMA TrapKeeps ==
  ASSUME PoolTypeOK, PoolInv, NEW i \in Instances, Trap(i)
  PROVE  PoolTypeOK' /\ PoolInv'
BY DEF Trap, PoolTypeOK, PoolInv, Waiting

\* put: what comes back to the pool was held by the run and is whole.
LEMMA PutKeeps ==
  ASSUME PoolTypeOK, PoolInv, NEW i \in Instances, Put(i)
  PROVE  PoolTypeOK' /\ PoolInv'
<1>1. i \in busy /\ busy' = busy \ {i} /\ shut' = shut /\ i \notin Waiting
  BY DEF Put, PoolInv
<1>2. CASE Reusable(i)
  <2> DEFINE new == Len(idle) + 1
  <2>1. idle' = Append(idle, i) /\ dead' = dead /\ i \notin dead /\ ~shut
    BY <1>2 DEF Put, Reusable
  <2>2. Len(idle) \in Nat /\ Len(idle) < MaxIdle
    BY <1>2 DEF Reusable, PoolTypeOK
  <2>3. /\ idle' \in Seq(Instances)
        /\ Len(idle') = new
        /\ DOMAIN idle' = 1..new /\ DOMAIN idle = 1..(new - 1)
        /\ idle'[new] = i
        /\ \A n \in 1..(new - 1) : idle'[n] = idle[n]
    BY <2>1, <2>2 DEF PoolTypeOK
  <2>4. Waiting' = Waiting \cup {i}
    <3>1. Waiting' \subseteq Waiting \cup {i}
      BY <2>2, <2>3 DEF Waiting
    <3>2. Waiting \cup {i} \subseteq Waiting'
      BY <2>2, <2>3 DEF Waiting
    <3> QED
      BY <3>1, <3>2
  <2>5. \A n \in 1..(new - 1) : idle'[n] # i
    BY <1>1, <2>3 DEF Waiting
  <2>6. \A m, n \in DOMAIN idle' : idle'[m] = idle'[n] => m = n
    BY <2>2, <2>3, <2>5 DEF PoolInv
  <2>7. Len(idle') <= MaxIdle
    BY <2>2, <2>3, MaxIdleAssumption
  <2> QED
    BY <1>1, <2>1, <2>3, <2>4, <2>6, <2>7 DEF PoolTypeOK, PoolInv
<1>3. CASE ~Reusable(i)
  <2>1. idle' = idle /\ dead' = dead \ {i} /\ Waiting' = Waiting
    BY <1>3 DEF Put, Waiting
  <2> QED
    BY <1>1, <2>1 DEF PoolTypeOK, PoolInv
<1> QED
  BY <1>2, <1>3

\* Close: nothing is left to be taken.
LEMMA CloseKeeps ==
  ASSUME PoolTypeOK, PoolInv, Close
  PROVE  PoolTypeOK' /\ PoolInv'
<1>1. idle' = <<>> /\ dead' = busy /\ busy' = busy /\ shut' = TRUE
  BY DEF Close
<1>2. DOMAIN idle' = {} /\ Waiting' = {} /\ Len(idle') = 0
  BY <1>1 DEF Waiting
<1> QED
  BY <1>1, <1>2, MaxIdleAssumption DEF PoolTypeOK, PoolInv

\* For any number of instances and any limit: an idle instance is in the pool
\* once, is held by no run and has not died, and none is left once it is closed.
THEOREM PoolSafe == PoolSpec => []PoolInv
<1>1. ASSUME PoolInit PROVE PoolTypeOK /\ PoolInv
  <2>1. idle = <<>> /\ busy = {} /\ dead = {} /\ shut = FALSE
    BY <1>1 DEF PoolInit
  <2>2. DOMAIN idle = {} /\ Waiting = {} /\ Len(idle) = 0
    BY <2>1 DEF Waiting
  <2>3. PoolTypeOK
    <3>1. <<>> \in Seq(Instances)
      OBVIOUS
    <3>2. idle \in Seq(Instances)
      BY <2>1, <3>1
    <3>3. busy \subseteq Instances /\ dead \subseteq Instances /\ shut \in BOOLEAN
      BY <2>1
    <3> QED
      BY <3>2, <3>3 DEF PoolTypeOK
  <2>4. Len(idle) <= MaxIdle
    BY <2>2, MaxIdleAssumption
  <2>5. \A m, n \in DOMAIN idle : idle[m] = idle[n] => m = n
    BY <2>2
  <2>6. Waiting \cap (busy \cup dead) = {} /\ dead \subseteq busy
    BY <2>1, <2>2
  <2> QED
    BY <2>1, <2>3, <2>4, <2>5, <2>6 DEF PoolInv
<1>2. PoolTypeOK /\ PoolInv /\ [PoolNext]_poolVars => PoolTypeOK' /\ PoolInv'
  <2> SUFFICES ASSUME PoolTypeOK, PoolInv, [PoolNext]_poolVars
               PROVE  PoolTypeOK' /\ PoolInv'
    OBVIOUS
  <2>1. CASE Close
    BY <2>1, CloseKeeps
  <2>2. ASSUME NEW i \in Instances, Get(i) PROVE PoolTypeOK' /\ PoolInv'
    BY <2>2, GetKeeps
  <2>3. ASSUME NEW i \in Instances, Trap(i) PROVE PoolTypeOK' /\ PoolInv'
    BY <2>3, TrapKeeps
  <2>4. ASSUME NEW i \in Instances, Put(i) PROVE PoolTypeOK' /\ PoolInv'
    BY <2>4, PutKeeps
  <2>5. CASE UNCHANGED poolVars
    BY <2>5 DEF poolVars, PoolTypeOK, PoolInv, Waiting
  <2> QED
    BY <2>1, <2>2, <2>3, <2>4, <2>5 DEF PoolNext
<1> QED
  BY <1>1, <1>2, PTL DEF PoolSpec

-----------------------------------------------------------------------------
(* Invocations. *)

IsFrame(f) ==
  f = [ask |-> f.ask, pc |-> f.pc, n |-> f.n, own |-> f.own, run |-> f.run, msg |-> f.msg,
       step |-> f.step, bodies |-> f.bodies, md |-> f.md, chain |-> f.chain, read |-> f.read,
       steady |-> f.steady]

IsSeq(s) == Len(s) \in Nat /\ s = [n \in 1..Len(s) |-> s[n]]

\* A frame runs a script only where there is one to run.
Sane(f) ==
  /\ IsFrame(f)
  /\ f.run \in Instances \cup {None, OwnInstance}
  /\ f.pc \notin Scripted => f.run = None

StackInv ==
  /\ stack = [c \in Callers |-> stack[c]]
  /\ \A c \in Callers :
       /\ IsSeq(stack[c])
       /\ Len(stack[c]) <= MaxDepth + 1
       /\ \A n \in 1..Len(stack[c]) : Sane(stack[c][n])

\* What is busy is in some frame, what is in a frame is busy, and in no other.
HeldInv ==
  /\ \A i \in busy : \E c \in Callers : \E n \in 1..Len(stack[c]) : i = stack[c][n].run /\ i \in Instances
  /\ \A c \in Callers : \A n \in 1..Len(stack[c]) :
       /\ stack[c][n].run \in Instances => stack[c][n].run \in busy
       /\ \A d \in Callers : \A m \in 1..Len(stack[d]) :
            stack[c][n].run \in Instances /\ stack[c][n].run = stack[d][m].run => c = d /\ n = m
------------------------------------------------------------------------------
(* Sequences. *)

\* What replacing the last element, popping it and pushing one make of s.
LastIs(s, f, t) ==
  /\ IsSeq(t) /\ Len(t) = Len(s) /\ t[Len(s)] = f
  /\ \A n \in 1..Len(s) : n # Len(s) => t[n] = s[n]

Shorter(s, t) == IsSeq(t) /\ Len(t) = Len(s) - 1 /\ \A n \in 1..Len(t) : t[n] = s[n]

Longer(s, f, t) ==
  IsSeq(t) /\ Len(t) = Len(s) + 1 /\ t[Len(t)] = f /\ \A n \in 1..Len(s) : t[n] = s[n]

LEMMA SeqOf ==
  ASSUME NEW s, IsSeq(s)
  PROVE  s \in Seq({s[n] : n \in 1..Len(s)}) /\ DOMAIN s = 1..Len(s)
<1> DEFINE S == {s[n] : n \in 1..Len(s)}
<1>1. s \in [1..Len(s) -> S]
  BY DEF IsSeq
<1>2. Len(s) \in Nat
  BY DEF IsSeq
<1> QED
  BY <1>1, <1>2

LEMMA IsSeqOf ==
  ASSUME NEW S, NEW t \in Seq(S)
  PROVE  IsSeq(t)
<1>1. t \in [1..Len(t) -> S] /\ Len(t) \in Nat
  OBVIOUS
<1> QED
  BY <1>1 DEF IsSeq

LEMMA Replaced ==
  ASSUME NEW s, IsSeq(s), Len(s) > 0, NEW f, NEW t, t = [s EXCEPT ![Len(s)] = f]
  PROVE  LastIs(s, f, t)
<1> DEFINE S == {s[n] : n \in 1..Len(s)} \cup {f}
<1>1. s \in [1..Len(s) -> S] /\ Len(s) \in Nat
  BY DEF IsSeq
<1>2. t \in [1..Len(s) -> S] /\ t[Len(s)] = f /\ (\A n \in 1..Len(s) : n # Len(s) => t[n] = s[n])
  BY <1>1
<1>3. t \in Seq(S) /\ Len(t) = Len(s)
  BY <1>1, <1>2
<1> QED
  BY <1>1, <1>2, <1>3 DEF IsSeq, LastIs

LEMMA Popped ==
  ASSUME NEW s, IsSeq(s), Len(s) > 0, NEW t, t = SubSeq(s, 1, Len(s) - 1)
  PROVE  Shorter(s, t)
<1> DEFINE S == {s[n] : n \in 1..Len(s)}
<1>1. s \in Seq(S) /\ Len(s) \in Nat /\ DOMAIN s = 1..Len(s)
  BY SeqOf DEF IsSeq
<1> HIDE DEF S
<1>2. t \in Seq(S) /\ Len(t) = Len(s) - 1 /\ (\A n \in 1..Len(s) - 1 : t[n] = s[n])
  BY <1>1
<1>3. IsSeq(t)
  BY <1>2, IsSeqOf
<1> QED
  BY <1>2, <1>3 DEF Shorter

LEMMA Pushed ==
  ASSUME NEW s, IsSeq(s), NEW f, NEW t, t = Append(s, f)
  PROVE  Longer(s, f, t)
<1> DEFINE S == {s[n] : n \in 1..Len(s)} \cup {f}
<1>1. s \in [1..Len(s) -> S] /\ Len(s) \in Nat
  BY DEF IsSeq
<1>2. s \in Seq(S) /\ f \in S
  BY <1>1
<1>3. t \in Seq(S) /\ Len(t) = Len(s) + 1 /\ t[Len(t)] = f /\ (\A n \in 1..Len(s) : t[n] = s[n])
  BY <1>1, <1>2
<1>4. IsSeq(t)
  BY <1>3, IsSeqOf
<1> QED
  BY <1>3, <1>4 DEF Longer
------------------------------------------------------------------------------
(* What a step of caller c makes of the stacks, as far as it matters here.      *)

\* All stacks but one are as they were.
LEMMA Others ==
  ASSUME StackInv, NEW c \in Callers, NEW t, stack' = [stack EXCEPT ![c] = t]
  PROVE  /\ stack'[c] = t /\ stack' = [d \in Callers |-> stack'[d]]
         /\ \A d \in Callers : d # c => stack'[d] = stack[d]
BY DEF StackInv

\* A stack that changes is still one.
LEMMA OneStack ==
  ASSUME StackInv, NEW c \in Callers, NEW t, stack' = [stack EXCEPT ![c] = t],
         IsSeq(t), Len(t) <= MaxDepth + 1, \A n \in 1..Len(t) : Sane(t[n])
  PROVE  StackInv'
<1>1. /\ stack'[c] = t /\ stack' = [d \in Callers |-> stack'[d]]
      /\ \A d \in Callers : d # c => stack'[d] = stack[d]
  BY Others
<1> SUFFICES ASSUME NEW d \in Callers
             PROVE  /\ IsSeq(stack'[d])
                    /\ Len(stack'[d]) <= MaxDepth + 1
                    /\ \A n \in 1..Len(stack'[d]) : Sane(stack'[d][n])
  BY <1>1 DEF StackInv, Sane, IsSeq, IsFrame
<1>2. CASE d = c
  BY <1>1, <1>2
<1>3. CASE d # c
  BY <1>1, <1>3 DEF StackInv
<1> QED
  BY <1>2, <1>3

\* The same instances are in the same frames.
LEMMA SameHeld ==
  ASSUME HeldInv, busy' = busy,
         \A d \in Callers : \A n \in 1..Len(stack[d]) :
           stack[d][n].run \in Instances => n \in 1..Len(stack'[d]) /\ stack'[d][n].run = stack[d][n].run,
         \A d \in Callers : \A n \in 1..Len(stack'[d]) :
           stack'[d][n].run \in Instances => n \in 1..Len(stack[d]) /\ stack'[d][n].run = stack[d][n].run
  PROVE  HeldInv'
<1>1. ASSUME NEW i \in busy
      PROVE  \E d \in Callers : \E n \in 1..Len(stack'[d]) : i = stack'[d][n].run /\ i \in Instances
  <2>1. PICK d \in Callers : \E n \in 1..Len(stack[d]) : i = stack[d][n].run /\ i \in Instances
    BY DEF HeldInv
  <2>2. PICK n \in 1..Len(stack[d]) : i = stack[d][n].run /\ i \in Instances
    BY <2>1
  <2> QED
    BY <2>2
<1>2. ASSUME NEW d \in Callers, NEW n \in 1..Len(stack'[d]), stack'[d][n].run \in Instances
      PROVE  /\ stack'[d][n].run \in busy
             /\ \A e \in Callers : \A m \in 1..Len(stack'[e]) :
                  stack'[d][n].run = stack'[e][m].run => d = e /\ n = m
  BY <1>2 DEF HeldInv
<1> QED
  BY <1>1, <1>2 DEF HeldInv

\* The last frame is replaced, and holds the same instance or, as before, none.
LEMMA Stays ==
  ASSUME StackInv, HeldInv, NEW c \in Callers, Active(c), NEW g, Become(c, g), Sane(g),
         g.run = Top(c).run \/ (g.run \notin Instances /\ Top(c).run \notin Instances),
         busy' = busy
  PROVE  StackInv' /\ HeldInv'
<1> DEFINE s == stack[c]
           t == [s EXCEPT ![Len(s)] = g]
<1>1. IsSeq(s) /\ Len(s) > 0 /\ Len(s) \in Nat
  BY DEF StackInv, IsSeq, Active
<1>2. stack' = [stack EXCEPT ![c] = t]
  BY DEF Become, StackInv
<1>3. /\ IsSeq(t) /\ Len(t) = Len(s) /\ t[Len(s)] = g
      /\ \A n \in 1..Len(s) : n # Len(s) => t[n] = s[n]
  <2>1. LastIs(s, g, t)
    BY <1>1, Replaced
  <2> QED
    BY <2>1 DEF LastIs
<1> HIDE DEF t
<1>4. /\ stack'[c] = t /\ stack' = [d \in Callers |-> stack'[d]]
      /\ \A d \in Callers : d # c => stack'[d] = stack[d]
  BY <1>2, Others
<1>5. \A d \in Callers : Len(stack'[d]) = Len(stack[d])
  BY <1>3, <1>4
<1>6. \A d \in Callers : \A n \in 1..Len(stack[d]) :
        stack'[d][n].run = stack[d][n].run \/ (stack'[d][n].run \notin Instances /\ stack[d][n].run \notin Instances)
  BY <1>1, <1>3, <1>4 DEF Top
<1>7. Len(t) <= MaxDepth + 1 /\ \A n \in 1..Len(t) : Sane(t[n])
  BY <1>1, <1>3 DEF StackInv
<1>8. StackInv'
  BY <1>2, <1>3, <1>7, OneStack
<1>9. HeldInv'
  BY <1>5, <1>6, SameHeld
<1> QED
  BY <1>8, <1>9

\* The last frame goes, with no instance of the pool.
LEMMA Leaves ==
  ASSUME StackInv, HeldInv, NEW c \in Callers, Active(c), Return(c),
         Top(c).run \notin Instances, busy' = busy
  PROVE  StackInv' /\ HeldInv'
<1> DEFINE s == stack[c]
           t == SubSeq(s, 1, Len(s) - 1)
<1>1. IsSeq(s) /\ Len(s) > 0 /\ Len(s) \in Nat
  BY DEF StackInv, IsSeq, Active
<1>2. stack' = [stack EXCEPT ![c] = t]
  BY DEF Return
<1>3. IsSeq(t) /\ Len(t) = Len(s) - 1 /\ \A n \in 1..Len(t) : t[n] = s[n]
  <2>1. Shorter(s, t)
    BY <1>1, Popped
  <2> QED
    BY <2>1 DEF Shorter
<1> HIDE DEF t
<1>4. /\ stack'[c] = t /\ stack' = [d \in Callers |-> stack'[d]]
      /\ \A d \in Callers : d # c => stack'[d] = stack[d]
  BY <1>2, Others
<1>5. \A d \in Callers : \A n \in 1..Len(stack'[d]) :
        n \in 1..Len(stack[d]) /\ stack'[d][n] = stack[d][n]
  BY <1>1, <1>3, <1>4
<1>6. \A d \in Callers : \A n \in 1..Len(stack[d]) :
        stack[d][n].run \in Instances => n \in 1..Len(stack'[d])
  BY <1>1, <1>3, <1>4 DEF Top
<1>7. Len(t) <= MaxDepth + 1 /\ \A n \in 1..Len(t) : Sane(t[n])
  BY <1>1, <1>3, DepthAssumption DEF StackInv
<1>8. StackInv'
  BY <1>2, <1>3, <1>7, OneStack
<1>9. HeldInv'
  BY <1>5, <1>6, SameHeld
<1> QED
  BY <1>8, <1>9

\* A frame is added that runs nothing yet.
LEMMA Enters ==
  ASSUME StackInv, HeldInv, NEW c \in Callers, NEW g, Sane(g), g.run \notin Instances,
         Len(stack[c]) <= MaxDepth, stack' = [stack EXCEPT ![c] = Append(stack[c], g)],
         busy' = busy
  PROVE  StackInv' /\ HeldInv'
<1> DEFINE s == stack[c]
<1>1. IsSeq(s) /\ Len(s) \in Nat
  BY DEF StackInv, IsSeq
<1>0. PICK t : t = Append(s, g)
  OBVIOUS
<1>2. stack' = [stack EXCEPT ![c] = t]
  BY <1>0
<1> HIDE DEF s
<1>3. IsSeq(t) /\ Len(t) = Len(s) + 1 /\ t[Len(t)] = g /\ \A n \in 1..Len(s) : t[n] = s[n]
  <2>1. Longer(s, g, t)
    BY <1>0, <1>1, Pushed
  <2> QED
    BY <2>1 DEF Longer
<1> USE DEF s
<1>4. /\ stack'[c] = t /\ stack' = [d \in Callers |-> stack'[d]]
      /\ \A d \in Callers : d # c => stack'[d] = stack[d]
  BY <1>2, Others
<1>5. \A d \in Callers : \A n \in 1..Len(stack[d]) :
        n \in 1..Len(stack'[d]) /\ stack'[d][n] = stack[d][n]
  BY <1>1, <1>3, <1>4
<1>6. \A d \in Callers : \A n \in 1..Len(stack'[d]) :
        stack'[d][n].run \in Instances => n \in 1..Len(stack[d])
  BY <1>1, <1>3, <1>4
<1>7. Len(t) <= MaxDepth + 1 /\ \A n \in 1..Len(t) : Sane(t[n])
  <2>1. \A n \in 1..Len(s) : Sane(s[n])
    BY DEF StackInv
  <2>2. Len(t) <= MaxDepth + 1
    <3>1. Len(s) <= MaxDepth /\ Len(s) \in Nat /\ MaxDepth \in Nat /\ Len(t) = Len(s) + 1
      BY <1>1, <1>3, DepthAssumption
    <3> QED
      BY <3>1
  <2>3. ASSUME NEW n \in 1..Len(t) PROVE Sane(t[n])
    <3>1. n \in 1..Len(s) \/ n = Len(t)
      BY <1>1, <1>3
    <3> QED
      BY <1>3, <2>1, <3>1
  <2> QED
    BY <2>2, <2>3
<1>8. StackInv'
  BY <1>2, <1>3, <1>7, OneStack
<1>9. HeldInv'
  BY <1>5, <1>6, SameHeld
<1> QED
  BY <1>8, <1>9

\* The last frame takes an instance nobody has.
LEMMA Takes ==
  ASSUME StackInv, HeldInv, NEW c \in Callers, Active(c), NEW i \in Instances, i \notin busy,
         NEW g, Become(c, g), Sane(g), g.run = i, Top(c).run = None, busy' = busy \cup {i}
  PROVE  StackInv' /\ HeldInv'
<1> DEFINE s == stack[c]
           t == [s EXCEPT ![Len(s)] = g]
<1>1. IsSeq(s) /\ Len(s) > 0 /\ Len(s) \in Nat
  BY DEF StackInv, IsSeq, Active
<1>2. stack' = [stack EXCEPT ![c] = t]
  BY DEF Become, StackInv
<1>3. /\ IsSeq(t) /\ Len(t) = Len(s) /\ t[Len(s)] = g
      /\ \A n \in 1..Len(s) : n # Len(s) => t[n] = s[n]
  <2>1. LastIs(s, g, t)
    BY <1>1, Replaced
  <2> QED
    BY <2>1 DEF LastIs
<1> HIDE DEF t
<1>4. /\ stack'[c] = t /\ stack' = [d \in Callers |-> stack'[d]]
      /\ \A d \in Callers : d # c => stack'[d] = stack[d]
  BY <1>2, Others
<1>5. \A d \in Callers : Len(stack'[d]) = Len(stack[d])
  BY <1>3, <1>4
<1>6. /\ stack'[c][Len(s)].run = i
      /\ stack[c][Len(s)].run = None
      /\ \A d \in Callers : \A n \in 1..Len(stack[d]) :
           d # c \/ n # Len(s) => stack'[d][n].run = stack[d][n].run
  BY <1>1, <1>3, <1>4 DEF Top
<1>7. \A d \in Callers : \A n \in 1..Len(stack[d]) : stack[d][n].run # i
  BY DEF HeldInv
<1>8. StackInv'
  <2>1. Len(t) <= MaxDepth + 1 /\ \A n \in 1..Len(t) : Sane(t[n])
    BY <1>1, <1>3 DEF StackInv
  <2> QED
    BY <1>2, <1>3, <2>1, OneStack
<1>9. HeldInv'
  <2>1. \A j \in busy' : \E d \in Callers : \E n \in 1..Len(stack'[d]) : j = stack'[d][n].run /\ j \in Instances
    <3> SUFFICES ASSUME NEW j \in busy'
                 PROVE  \E d \in Callers : \E n \in 1..Len(stack'[d]) : j = stack'[d][n].run /\ j \in Instances
      OBVIOUS
    <3>1. CASE j = i
      BY <3>1, <1>1, <1>5, <1>6
    <3>2. CASE j \in busy
      <4>1. PICK d \in Callers : \E n \in 1..Len(stack[d]) : j = stack[d][n].run /\ j \in Instances
        BY <3>2 DEF HeldInv
      <4>2. PICK n \in 1..Len(stack[d]) : j = stack[d][n].run /\ j \in Instances
        BY <4>1
      <4>3. stack'[d][n].run = j
        BY <4>2, <1>6, InstanceAssumption
      <4> QED
        BY <4>2, <4>3, <1>5
    <3> QED
      BY <3>1, <3>2
  <2>2. \A d \in Callers : \A n \in 1..Len(stack'[d]) : stack'[d][n].run \in Instances => stack'[d][n].run \in busy'
    BY <1>5, <1>6 DEF HeldInv
  <2>3. ASSUME NEW d \in Callers, NEW n \in 1..Len(stack'[d]), NEW e \in Callers, NEW m \in 1..Len(stack'[e]),
               stack'[d][n].run \in Instances, stack'[d][n].run = stack'[e][m].run
        PROVE  d = e /\ n = m
    <3>1. n \in 1..Len(stack[d]) /\ m \in 1..Len(stack[e])
      BY <1>5
    <3>2. CASE (d = c /\ n = Len(s)) \/ (e = c /\ m = Len(s))
      BY <3>1, <3>2, <2>3, <1>6, <1>7
    <3>3. CASE ~(d = c /\ n = Len(s)) /\ ~(e = c /\ m = Len(s))
      <4>1. stack[d][n].run \in Instances /\ stack[d][n].run = stack[e][m].run
        BY <3>1, <3>3, <2>3, <1>6
      <4> QED
        BY <3>1, <4>1 DEF HeldInv
    <3> QED
      BY <3>2, <3>3
  <2> QED
    BY <2>1, <2>2, <2>3 DEF HeldInv
<1> QED
  BY <1>8, <1>9

\* The one instance that a frame lets go of is not held any more.
LEMMA OneGiven ==
  ASSUME HeldInv, NEW c \in Callers, NEW k \in 1..Len(stack[c]), NEW i \in Instances,
         stack[c][k].run = i, busy' = busy \ {i},
         \A d \in Callers : \A n \in 1..Len(stack[d]) :
           stack[d][n].run \in Instances /\ (d # c \/ n # k) =>
             n \in 1..Len(stack'[d]) /\ stack'[d][n].run = stack[d][n].run,
         \A d \in Callers : \A n \in 1..Len(stack'[d]) :
           stack'[d][n].run \in Instances =>
             n \in 1..Len(stack[d]) /\ stack'[d][n].run = stack[d][n].run /\ (d # c \/ n # k)
  PROVE  HeldInv'
<1>1. ASSUME NEW j \in busy'
      PROVE  \E d \in Callers : \E n \in 1..Len(stack'[d]) : j = stack'[d][n].run /\ j \in Instances
  <2>1. j \in busy /\ j # i
    OBVIOUS
  <2>2. PICK d \in Callers : \E n \in 1..Len(stack[d]) : j = stack[d][n].run /\ j \in Instances
    BY <2>1 DEF HeldInv
  <2>3. PICK n \in 1..Len(stack[d]) : j = stack[d][n].run /\ j \in Instances
    BY <2>2
  <2>4. d # c \/ n # k
    BY <2>1, <2>3
  <2> QED
    BY <2>3, <2>4
<1>2. ASSUME NEW d \in Callers, NEW n \in 1..Len(stack'[d]), stack'[d][n].run \in Instances
      PROVE  /\ stack'[d][n].run \in busy'
             /\ \A e \in Callers : \A m \in 1..Len(stack'[e]) :
                  stack'[d][n].run = stack'[e][m].run => d = e /\ n = m
  <2>1. n \in 1..Len(stack[d]) /\ stack'[d][n].run = stack[d][n].run /\ (d # c \/ n # k)
    BY <1>2
  <2>2. stack[d][n].run \in busy /\ stack[d][n].run # i
    BY <1>2, <2>1 DEF HeldInv
  <2>3. ASSUME NEW e \in Callers, NEW m \in 1..Len(stack'[e]), stack'[d][n].run = stack'[e][m].run
        PROVE  d = e /\ n = m
    <3>1. m \in 1..Len(stack[e]) /\ stack'[e][m].run = stack[e][m].run
      BY <1>2, <2>3
    <3> QED
      BY <1>2, <2>1, <2>3, <3>1 DEF HeldInv
  <2> QED
    BY <2>1, <2>2, <2>3
<1> QED
  BY <1>1, <1>2 DEF HeldInv

\* The run of the last frame is over, and the invocation goes on without it.
LEMMA Gives ==
  ASSUME StackInv, HeldInv, NEW c \in Callers, Active(c), NEW i \in Instances, Top(c).run = i,
         busy' = busy \ {i}, NEW g, Become(c, g), Sane(g), g.run = None
  PROVE  StackInv' /\ HeldInv'
<1> DEFINE s == stack[c]
           t == [s EXCEPT ![Len(s)] = g]
<1>1. IsSeq(s) /\ Len(s) > 0 /\ Len(s) \in Nat
  BY DEF StackInv, IsSeq, Active
<1>2. stack' = [stack EXCEPT ![c] = t]
  BY DEF Become, StackInv
<1>3. /\ IsSeq(t) /\ Len(t) = Len(s) /\ t[Len(s)] = g
      /\ \A n \in 1..Len(s) : n # Len(s) => t[n] = s[n]
  <2>1. LastIs(s, g, t)
    BY <1>1, Replaced
  <2> QED
    BY <2>1 DEF LastIs
<1> HIDE DEF t
<1>4. /\ stack'[c] = t /\ stack' = [d \in Callers |-> stack'[d]]
      /\ \A d \in Callers : d # c => stack'[d] = stack[d]
  BY <1>2, Others
<1>5. Len(t) <= MaxDepth + 1 /\ \A n \in 1..Len(t) : Sane(t[n])
  BY <1>1, <1>3 DEF StackInv
<1>6. StackInv'
  BY <1>2, <1>3, <1>5, OneStack
<1>7. Len(s) \in 1..Len(stack[c]) /\ stack[c][Len(s)].run = i
  BY <1>1 DEF Top
<1>8. \A d \in Callers : \A n \in 1..Len(stack[d]) :
        d # c \/ n # Len(s) => n \in 1..Len(stack'[d]) /\ stack'[d][n].run = stack[d][n].run
  BY <1>1, <1>3, <1>4
<1>9. \A d \in Callers : \A n \in 1..Len(stack'[d]) :
        stack'[d][n].run \in Instances =>
          n \in 1..Len(stack[d]) /\ stack'[d][n].run = stack[d][n].run /\ (d # c \/ n # Len(s))
  BY <1>1, <1>3, <1>4, InstanceAssumption
<1>10. HeldInv'
  BY <1>7, <1>8, <1>9, OneGiven
<1> QED
  BY <1>6, <1>10

\* The run of the last frame is over, and the invocation with it.
LEMMA GivesUp ==
  ASSUME StackInv, HeldInv, NEW c \in Callers, Active(c), NEW i \in Instances, Top(c).run = i,
         busy' = busy \ {i}, Return(c)
  PROVE  StackInv' /\ HeldInv'
<1> DEFINE s == stack[c]
           t == SubSeq(s, 1, Len(s) - 1)
<1>1. IsSeq(s) /\ Len(s) > 0 /\ Len(s) \in Nat
  BY DEF StackInv, IsSeq, Active
<1>2. stack' = [stack EXCEPT ![c] = t]
  BY DEF Return
<1>3. IsSeq(t) /\ Len(t) = Len(s) - 1 /\ \A n \in 1..Len(t) : t[n] = s[n]
  <2>1. Shorter(s, t)
    BY <1>1, Popped
  <2> QED
    BY <2>1 DEF Shorter
<1> HIDE DEF t
<1>4. /\ stack'[c] = t /\ stack' = [d \in Callers |-> stack'[d]]
      /\ \A d \in Callers : d # c => stack'[d] = stack[d]
  BY <1>2, Others
<1>5. Len(t) <= MaxDepth + 1 /\ \A n \in 1..Len(t) : Sane(t[n])
  BY <1>1, <1>3, DepthAssumption DEF StackInv
<1>6. StackInv'
  BY <1>2, <1>3, <1>5, OneStack
<1>7. Len(s) \in 1..Len(stack[c]) /\ stack[c][Len(s)].run = i
  BY <1>1 DEF Top
<1>8. \A d \in Callers : \A n \in 1..Len(stack[d]) :
        d # c \/ n # Len(s) => n \in 1..Len(stack'[d]) /\ stack'[d][n].run = stack[d][n].run
  BY <1>1, <1>3, <1>4
<1>9. \A d \in Callers : \A n \in 1..Len(stack'[d]) :
        stack'[d][n].run \in Instances =>
          n \in 1..Len(stack[d]) /\ stack'[d][n].run = stack[d][n].run /\ (d # c \/ n # Len(s))
  BY <1>1, <1>3, <1>4
<1>10. HeldInv'
  BY <1>7, <1>8, <1>9, OneGiven
<1> QED
  BY <1>6, <1>10
------------------------------------------------------------------------------
(* The actions.                                                                *)

Good == StackInv /\ HeldInv

LEMMA Tops ==
  ASSUME StackInv, NEW c \in Callers, Active(c)
  PROVE  Sane(Top(c)) /\ Len(stack[c]) \in Nat \ {0}
BY DEF StackInv, Active, Top, IsSeq

\* What runs no script is sane wherever it is.
LEMMA Quiet ==
  ASSUME NEW g, IsFrame(g), g.run = None
  PROVE  Sane(g)
BY DEF Sane

\* An invocation that runs no script goes on to another place, or ends.
LEMMA GoesOn ==
  ASSUME Good, NEW c \in Callers, Active(c), Top(c).run = None, UNCHANGED poolVars,
         NEW g, Become(c, g), IsFrame(g), g.run = None
  PROVE  Good'
<1>1. Sane(g) /\ busy' = busy
  BY Quiet DEF poolVars
<1> QED
  BY <1>1, Stays DEF Good

LEMMA Ends ==
  ASSUME Good, NEW c \in Callers, Active(c), Top(c).run = None, UNCHANGED poolVars, Return(c)
  PROVE  Good'
<1>1. Top(c).run \notin Instances /\ busy' = busy
  BY InstanceAssumption DEF poolVars
<1> QED
  BY <1>1, Leaves DEF Good

LEMMA Begins ==
  ASSUME Good, NEW c \in Callers, NEW q, Begin(c, q)
  PROVE  Good' /\ UNCHANGED poolVars
<1>1. stack[c] = <<>> /\ UNCHANGED poolVars /\ busy' = busy
  BY DEF Begin, Active, poolVars
<1>2. PICK g : g = Frame(q)
  OBVIOUS
<1>3. Sane(g) /\ g.run \notin Instances
  BY <1>2, InstanceAssumption DEF Frame, Sane, IsFrame
<1>4. stack' = [stack EXCEPT ![c] = Append(stack[c], g)]
  <2>1. Append(stack[c], g) = <<g>>
    BY <1>1
  <2> QED
    BY <1>2, <2>1 DEF Begin
<1>5. Len(stack[c]) <= MaxDepth
  BY <1>1, DepthAssumption
<1> QED
  BY <1>1, <1>3, <1>4, <1>5, Enters DEF Good

LEMMA Resolves ==
  ASSUME Good, NEW c \in Callers, Resolve(c)
  PROVE  Good' /\ UNCHANGED poolVars
<1> DEFINE f == Top(c)
<1>1. Active(c) /\ f.run = None /\ UNCHANGED poolVars /\ IsFrame(f)
  BY Tops DEF Resolve, Reading, Good, Sane
<1>2. CASE Return(c)
  BY <1>1, <1>2, Ends
<1>3. ASSUME NEW pc, NEW n, NEW own, Become(c, [f EXCEPT !.pc = pc, !.n = n, !.own = own]) PROVE Good'
  <2>1. PICK g : g = [f EXCEPT !.pc = pc, !.n = n, !.own = own]
    OBVIOUS
  <2> HIDE DEF f
  <2>2. IsFrame(g) /\ g.run = f.run
    BY <1>1, <2>1 DEF IsFrame
  <2> USE DEF f
  <2> QED
    BY <1>1, <1>3, <2>1, <2>2, GoesOn
<1> QED
  BY <1>1, <1>2, <1>3 DEF Resolve

\* Folding changes neither the frame's form nor what it holds.
LEMMA FoldedHolds ==
  ASSUME NEW f, IsFrame(f), NEW md
  PROVE  IsFrame(Folded(f, md)) /\ Folded(f, md).run = f.run
BY DEF Folded, IsFrame

LEMMA ReadsFolders ==
  ASSUME Good, NEW c \in Callers, ReadFolders(c)
  PROVE  Good' /\ UNCHANGED poolVars
<1> DEFINE f == Top(c)
<1>1. Active(c) /\ f.run = None /\ UNCHANGED poolVars /\ IsFrame(f)
  BY Tops DEF ReadFolders, Reading, Good, Sane
<1>2. CASE Return(c)
  BY <1>1, <1>2, Ends
<1>3. CASE Become(c, Folded(f, Nothing))
  <2>1. PICK g : g = Folded(f, Nothing)
    OBVIOUS
  <2>2. IsFrame(g) /\ g.run = None
    BY <1>1, <2>1, FoldedHolds
  <2> QED
    BY <1>1, <1>3, <2>1, <2>2, GoesOn
<1>4. ASSUME NEW chain, Become(c, [f EXCEPT !.pc = "folder", !.chain = chain, !.step = 1]) PROVE Good'
  <2>1. PICK g : g = [f EXCEPT !.pc = "folder", !.chain = chain, !.step = 1]
    OBVIOUS
  <2> HIDE DEF f
  <2>2. IsFrame(g) /\ g.run = f.run
    BY <1>1, <2>1 DEF IsFrame
  <2> USE DEF f
  <2> QED
    BY <1>1, <1>4, <2>1, <2>2, GoesOn
<1> QED
  BY <1>1, <1>2, <1>3, <1>4 DEF ReadFolders

LEMMA ReadsAttached ==
  ASSUME Good, NEW c \in Callers, ReadAttached(c)
  PROVE  Good' /\ UNCHANGED poolVars
<1> DEFINE f == Top(c)
<1>1. Active(c) /\ f.run = None /\ UNCHANGED poolVars /\ IsFrame(f)
  BY Tops DEF ReadAttached, Reading, Good, Sane
<1>2. CASE Return(c)
  BY <1>1, <1>2, Ends
<1>3. CASE Become(c, [f EXCEPT !.pc = "send"])
  <2>1. PICK g : g = [f EXCEPT !.pc = "send"]
    OBVIOUS
  <2> HIDE DEF f
  <2>2. IsFrame(g) /\ g.run = f.run
    BY <1>1, <2>1 DEF IsFrame
  <2> USE DEF f
  <2> QED
    BY <1>1, <1>3, <2>1, <2>2, GoesOn
<1>4. ASSUME NEW chain, NEW md,
             Become(c, [f EXCEPT !.pc = "middleware", !.chain = chain, !.msg = 1, !.step = 1, !.md = md])
      PROVE  Good'
  <2>1. PICK g : g = [f EXCEPT !.pc = "middleware", !.chain = chain, !.msg = 1, !.step = 1, !.md = md]
    OBVIOUS
  <2> HIDE DEF f
  <2>2. IsFrame(g) /\ g.run = f.run
    BY <1>1, <2>1 DEF IsFrame
  <2> USE DEF f
  <2> QED
    BY <1>1, <1>4, <2>1, <2>2, GoesOn
<1> QED
  BY <1>1, <1>2, <1>3, <1>4 DEF ReadAttached

\* The message is on its way, or is not.
LEMMA GoesTo ==
  ASSUME Good, NEW c \in Callers, Active(c), Top(c).run = None, UNCHANGED poolVars,
         NEW pc, Become(c, [Top(c) EXCEPT !.pc = pc])
  PROVE  Good'
<1> DEFINE f == Top(c)
<1>1. IsFrame(f) /\ f.run = None
  BY Tops DEF Good, Sane
<1>2. PICK g : g = [f EXCEPT !.pc = pc]
  OBVIOUS
<1> HIDE DEF f
<1>3. IsFrame(g) /\ g.run = None
  BY <1>1, <1>2 DEF IsFrame
<1> USE DEF f
<1> QED
  BY <1>2, <1>3, GoesOn

LEMMA Sends ==
  ASSUME Good, NEW c \in Callers, Send(c)
  PROVE  Good' /\ UNCHANGED poolVars
<1>1. Active(c) /\ Top(c).run = None /\ UNCHANGED poolVars
  BY DEF Send, Reading
<1>2. Return(c) \/ Become(c, [Top(c) EXCEPT !.pc = "sent"])
  BY DEF Send
<1> QED
  BY <1>1, <1>2, Ends, GoesTo

\* A message is not sent from within a script.
LEMMA Answers ==
  ASSUME Good, NEW c \in Callers, Answer(c)
  PROVE  Good' /\ UNCHANGED poolVars
<1>1. Active(c) /\ Top(c).pc = "sent" /\ UNCHANGED poolVars
  BY DEF Answer
<1>2. Top(c).run = None
  BY <1>1, Tops DEF Good, Sane, Scripted
<1>3. Return(c) \/ Become(c, [Top(c) EXCEPT !.pc = "record"])
  BY DEF Answer
<1> QED
  BY <1>1, <1>2, <1>3, Ends, GoesTo

LEMMA Records ==
  ASSUME Good, NEW c \in Callers, Record(c)
  PROVE  Good' /\ UNCHANGED poolVars
<1> DEFINE f == Top(c)
<1>1. Active(c) /\ f.run = None /\ UNCHANGED poolVars /\ IsFrame(f)
  BY Tops DEF Record, Reading, Good, Sane
<1>2. CASE Return(c)
  BY <1>1, <1>2, Ends
<1>3. ASSUME NEW read, Become(c, [f EXCEPT !.pc = "append", !.read = read]) PROVE Good'
  <2>1. PICK g : g = [f EXCEPT !.pc = "append", !.read = read]
    OBVIOUS
  <2> HIDE DEF f
  <2>2. IsFrame(g) /\ g.run = f.run
    BY <1>1, <2>1 DEF IsFrame
  <2> USE DEF f
  <2> QED
    BY <1>1, <1>3, <2>1, <2>2, GoesOn
<1> QED
  BY <1>1, <1>2, <1>3 DEF Record

LEMMA Appends ==
  ASSUME Good, NEW c \in Callers, AppendHistory(c)
  PROVE  Good' /\ UNCHANGED poolVars
<1>1. Active(c) /\ Top(c).pc = "append" /\ UNCHANGED poolVars /\ Return(c)
  BY DEF AppendHistory
<1>2. Top(c).run = None
  BY <1>1, Tops DEF Good, Sane, Scripted
<1> QED
  BY <1>1, <1>2, Ends

\* A script starts in an instance of its own, or in one the pool gives out.
LEMMA Starts ==
  ASSUME Good, NEW c \in Callers, StartScript(c)
  PROVE  Good' /\ [PoolNext]_poolVars
<1> DEFINE f == Top(c)
<1>1. Active(c) /\ f.run = None /\ f.pc \in Scripted /\ IsFrame(f)
  BY Tops DEF StartScript, Good, Sane
<1>2. CASE Return(c) /\ UNCHANGED poolVars
  BY <1>1, <1>2, Ends
<1>3. CASE Become(c, [f EXCEPT !.run = OwnInstance]) /\ UNCHANGED poolVars
  <2>1. PICK g : g = [f EXCEPT !.run = OwnInstance]
    OBVIOUS
  <2> HIDE DEF f
  <2>2. IsFrame(g) /\ g.run = OwnInstance /\ g.pc = f.pc
    BY <1>1, <2>1 DEF IsFrame
  <2> USE DEF f
  <2>3. Sane(g)
    BY <1>1, <2>2 DEF Sane
  <2>4. g.run \notin Instances /\ f.run \notin Instances /\ busy' = busy
    BY <1>1, <1>3, <2>2, InstanceAssumption DEF poolVars
  <2> QED
    BY <1>1, <1>3, <2>1, <2>3, <2>4, Stays DEF Good
<1>4. ASSUME NEW i, i \in Instances, Get(i), Become(c, [f EXCEPT !.run = i])
      PROVE  Good' /\ [PoolNext]_poolVars
  <2>1. PICK g : g = [f EXCEPT !.run = i]
    OBVIOUS
  <2> HIDE DEF f
  <2>2. IsFrame(g) /\ g.run = i /\ g.pc = f.pc
    BY <1>1, <2>1 DEF IsFrame
  <2> USE DEF f
  <2>3. Sane(g)
    BY <1>1, <1>4, <2>2 DEF Sane
  <2>4. i \notin busy /\ busy' = busy \cup {i}
    BY <1>4 DEF Get
  <2>5. Good'
    BY <1>1, <1>4, <2>1, <2>2, <2>3, <2>4, Takes DEF Good
  <2> QED
    BY <1>4, <2>5 DEF PoolNext
<1> QED
  BY <1>1, <1>2, <1>3, <1>4 DEF StartScript

\* What a script's result makes of a frame holds what it held.
LEMMA OnwardHolds ==
  ASSUME NEW f, IsFrame(f)
  PROVE  IsFrame(Onward(f)) /\ Onward(f).run = f.run
<1>1. CASE f.pc = "body"
  BY <1>1 DEF Onward, IsFrame
<1>2. CASE f.pc = "folder"
  <2>1. PICK md : md = Result(f.chain[f.step], f.md)
    OBVIOUS
  <2>2. Onward(f) = IF f.step < Len(f.chain) THEN [f EXCEPT !.md = md, !.step = f.step + 1] ELSE Folded(f, md)
    BY <1>2, <2>1 DEF Onward
  <2>3. PICK g : g = [f EXCEPT !.md = md, !.step = f.step + 1]
    OBVIOUS
  <2>6. IsFrame(g) /\ g.run = f.run
    BY <2>3 DEF IsFrame
  <2>4. CASE f.step < Len(f.chain)
    BY <2>2, <2>3, <2>4, <2>6
  <2>5. CASE ~(f.step < Len(f.chain))
    BY <2>2, <2>5, FoldedHolds
  <2> QED
    BY <2>4, <2>5
<1>3. CASE f.pc = "own"
  BY <1>3 DEF Onward, IsFrame
<1>4. CASE f.pc \notin {"body", "folder", "own"}
  <2> DEFINE mw == f.chain[f.step]
             last == f.step = Len(f.chain)
  <2>1. PICK bodies : bodies = [f.bodies EXCEPT ![f.msg] = Append(@, mw)]
    OBVIOUS
  <2>2. PICK md : md = Stamped(Stamps[mw], f.md)
    OBVIOUS
  <2>3. PICK step, msg, pc :
          /\ step = IF last THEN 1 ELSE f.step + 1
          /\ msg = IF last THEN f.msg + 1 ELSE f.msg
          /\ pc = IF last /\ f.msg = f.n THEN "send" ELSE "middleware"
    OBVIOUS
  <2>4. Onward(f) = [f EXCEPT !.bodies = bodies, !.md = md, !.step = step, !.msg = msg, !.pc = pc]
    BY <1>4, <2>1, <2>2, <2>3 DEF Onward, IsFrame
  <2>5. PICK g : g = [f EXCEPT !.bodies = bodies, !.md = md, !.step = step, !.msg = msg, !.pc = pc]
    OBVIOUS
  <2>6. IsFrame(g) /\ g.run = f.run
    BY <2>5 DEF IsFrame
  <2> QED
    BY <2>4, <2>5, <2>6
<1> QED
  BY <1>1, <1>2, <1>3, <1>4

\* The deferred calls of a run: what the pool gave out comes back to it.
LEMMA LeavesWith ==
  ASSUME Good, NEW c \in Callers, Running(c), Leave(c), Return(c)
  PROVE  Good' /\ [PoolNext]_poolVars
<1>1. Active(c) /\ Top(c).run \in Instances \cup {OwnInstance}
  BY Tops DEF Running, Good, Sane
<1>2. CASE Top(c).run = OwnInstance
  <2>1. UNCHANGED poolVars /\ busy' = busy /\ Top(c).run \notin Instances
    BY <1>2, InstanceAssumption DEF Leave, poolVars
  <2> QED
    BY <1>1, <2>1, Leaves DEF Good
<1>3. ASSUME NEW i \in Instances, Top(c).run = i
      PROVE  Good' /\ [PoolNext]_poolVars
  <2>1. Put(i)
    BY <1>3, InstanceAssumption DEF Leave
  <2>2. busy' = busy \ {i}
    BY <2>1 DEF Put
  <2>3. Good'
    BY <1>1, <1>3, <2>2, GivesUp DEF Good
  <2> QED
    BY <2>1, <2>3 DEF PoolNext
<1> QED
  BY <1>1, <1>2, <1>3

LEMMA Yields ==
  ASSUME Good, NEW c \in Callers, ScriptYields(c)
  PROVE  Good' /\ [PoolNext]_poolVars
<1> DEFINE f == Top(c)
<1>1. /\ Running(c) /\ Active(c) /\ Leave(c) /\ IsFrame(f)
      /\ f.run \in Instances \cup {OwnInstance}
  BY Tops DEF ScriptYields, Alive, Running, Good, Sane
<1>2. CASE Return(c)
  BY <1>1, <1>2, LeavesWith
<1>3. CASE Become(c, Onward([f EXCEPT !.run = None]))
  <2>1. PICK h : h = [f EXCEPT !.run = None]
    OBVIOUS
  <2> HIDE DEF f
  <2>2. IsFrame(h) /\ h.run = None
    BY <1>1, <2>1 DEF IsFrame
  <2> USE DEF f
  <2>3. PICK g : g = Onward(h)
    OBVIOUS
  <2>4. IsFrame(g) /\ g.run = None
    BY <2>2, <2>3, OnwardHolds
  <2>5. Sane(g) /\ Become(c, g)
    BY <1>3, <2>1, <2>3, <2>4, Quiet
  <2>6. CASE f.run = OwnInstance
    <3>1. UNCHANGED poolVars /\ busy' = busy /\ f.run \notin Instances /\ g.run \notin Instances
      BY <1>1, <2>4, <2>6, InstanceAssumption DEF Leave, poolVars
    <3> QED
      BY <1>1, <2>5, <3>1, Stays DEF Good
  <2>7. ASSUME NEW i \in Instances, f.run = i
        PROVE  Good' /\ [PoolNext]_poolVars
    <3>1. Put(i)
      BY <1>1, <2>7, InstanceAssumption DEF Leave
    <3>2. busy' = busy \ {i}
      BY <3>1 DEF Put
    <3>3. Good'
      BY <1>1, <2>4, <2>5, <2>7, <3>2, Gives DEF Good
    <3> QED
      BY <3>1, <3>3 DEF PoolNext
  <2> QED
    BY <1>1, <2>6, <2>7
<1> QED
  BY <1>2, <1>3 DEF ScriptYields

LEMMA Traps ==
  ASSUME Good, NEW c \in Callers, ScriptTraps(c)
  PROVE  Good' /\ [PoolNext]_poolVars
<1>1. Running(c) /\ Top(c).run \in Instances \cup {OwnInstance}
  BY Tops DEF ScriptTraps, Running, Good, Sane
<1>2. CASE Top(c).run = OwnInstance
  BY <1>1, <1>2, LeavesWith DEF ScriptTraps
<1>3. CASE Top(c).run \in Instances
  <2>1. Trap(Top(c).run) /\ stack' = stack
    BY <1>3, InstanceAssumption DEF ScriptTraps
  <2>2. busy' = busy
    BY <2>1 DEF Trap
  <2>3. Good'
    BY <2>1, <2>2 DEF Good, StackInv, HeldInv, Sane, IsSeq, IsFrame
  <2> QED
    BY <1>3, <2>1, <2>3 DEF PoolNext
<1> QED
  BY <1>1, <1>2, <1>3

LEMMA Invokes ==
  ASSUME Good, NEW c \in Callers, NEW name, ScriptInvokes(c, name)
  PROVE  Good' /\ UNCHANGED poolVars
<1>1. UNCHANGED poolVars /\ busy' = busy
  BY DEF ScriptInvokes, poolVars
<1>2. CASE stack' = stack
  BY <1>1, <1>2 DEF Good, StackInv, HeldInv, Sane, IsSeq, IsFrame
<1>3. CASE ~(Len(stack[c]) > MaxDepth)
  <2>1. PICK g : g = Frame(Nested(name))
    OBVIOUS
  <2>2. Sane(g) /\ g.run \notin Instances
    BY <2>1, InstanceAssumption DEF Frame, Sane, IsFrame
  <2>3. stack' = [stack EXCEPT ![c] = Append(stack[c], g)]
    BY <1>3, <2>1 DEF ScriptInvokes, Good, StackInv
  <2>4. Len(stack[c]) <= MaxDepth
    BY <1>3, DepthAssumption DEF Good, StackInv, IsSeq
  <2> QED
    BY <1>1, <2>2, <2>3, <2>4, Enters DEF Good
<1> QED
  BY <1>1, <1>2, <1>3 DEF ScriptInvokes

\* An edit touches no more of a frame than whether it has been disturbed.
LEMMA Edits ==
  ASSUME Good, Edit
  PROVE  Good' /\ UNCHANGED poolVars
<1>1. UNCHANGED poolVars /\ busy' = busy
  BY DEF Edit, poolVars
<1>2. stack' = [c \in Callers |-> [n \in DOMAIN stack[c] |-> [stack[c][n] EXCEPT !.steady = FALSE]]]
  BY DEF Edit
<1>3. ASSUME NEW c \in Callers
      PROVE  /\ IsSeq(stack'[c]) /\ Len(stack'[c]) = Len(stack[c])
             /\ \A n \in 1..Len(stack[c]) : stack'[c][n].run = stack[c][n].run /\ Sane(stack'[c][n])
  <2> DEFINE s == stack[c]
  <2>1. Len(s) \in Nat /\ DOMAIN s = 1..Len(s) /\ \A n \in 1..Len(s) : Sane(s[n])
    BY SeqOf DEF Good, StackInv, IsSeq
  <2>2. PICK t : t = [n \in 1..Len(s) |-> [s[n] EXCEPT !.steady = FALSE]]
    OBVIOUS
  <2>3. stack'[c] = t
    BY <1>2, <2>1, <2>2
  <2> HIDE DEF s
  <2>4. t \in Seq({t[n] : n \in 1..Len(s)}) /\ Len(t) = Len(s)
    <3>1. t \in [1..Len(s) -> {t[n] : n \in 1..Len(s)}]
      BY <2>2
    <3> QED
      BY <2>1, <3>1
  <2>5. IsSeq(t)
    BY <2>4, IsSeqOf
  <2>6. ASSUME NEW n \in 1..Len(s) PROVE t[n].run = s[n].run /\ Sane(t[n])
    <3>1. PICK f : f = s[n]
      OBVIOUS
    <3>2. PICK g : g = [f EXCEPT !.steady = FALSE]
      OBVIOUS
    <3>3. Sane(f) /\ t[n] = g
      BY <2>1, <2>2, <3>1, <3>2
    <3>4. IsFrame(g) /\ g.run = f.run /\ g.pc = f.pc
      BY <3>2, <3>3 DEF Sane, IsFrame
    <3> QED
      BY <3>1, <3>3, <3>4 DEF Sane
  <2> USE DEF s
  <2> QED
    BY <2>3, <2>4, <2>5, <2>6
<1>4. StackInv'
  <2>1. stack' = [c \in Callers |-> stack'[c]]
    BY <1>2
  <2> QED
    BY <1>3, <2>1 DEF Good, StackInv, Sane, IsSeq, IsFrame
<1>5. HeldInv'
  BY <1>1, <1>3, SameHeld DEF Good
<1> QED
  BY <1>1, <1>4, <1>5 DEF Good

\* Nothing of the stacks or the pool.
LEMMA Elsewhere ==
  ASSUME Good, stack' = stack, busy' = busy
  PROVE  Good'
BY DEF Good, StackInv, HeldInv, Sane, IsSeq, IsFrame

LEMMA StepKeeps ==
  ASSUME Good, [Next]_vars
  PROVE  Good' /\ [PoolNext]_poolVars
<1>1. ASSUME NEW c \in Callers, Step(c) PROVE Good' /\ [PoolNext]_poolVars
  <2>1. CASE Resolve(c) \/ ReadFolders(c) \/ ReadAttached(c) \/ Send(c)
    BY <2>1, Resolves, ReadsFolders, ReadsAttached, Sends
  <2>2. CASE Answer(c) \/ Record(c) \/ AppendHistory(c)
    BY <2>2, Answers, Records, Appends
  <2>3. CASE StartScript(c) \/ ScriptYields(c) \/ ScriptTraps(c)
    BY <2>3, Starts, Yields, Traps
  <2>4. CASE ScriptFails(c)
    BY <2>4, LeavesWith DEF ScriptFails
  <2>5. CASE Deadline(c) \/ HangUp(c)
    <3>1. UNCHANGED poolVars /\ stack' = stack /\ busy' = busy
      BY <2>5 DEF Deadline, HangUp, poolVars
    <3> QED
      BY <3>1, Elsewhere
  <2> QED
    BY <1>1, <2>1, <2>2, <2>3, <2>4, <2>5 DEF Step
<1>2. ASSUME NEW c \in Callers, NEW q \in Asks, Begin(c, q) PROVE Good' /\ [PoolNext]_poolVars
  BY <1>2, Begins
<1>3. ASSUME NEW c \in Callers, NEW name \in Names, ScriptInvokes(c, name) PROVE Good' /\ [PoolNext]_poolVars
  BY <1>3, Invokes
<1>4. CASE CloseEngine
  <2>1. Close /\ stack' = stack /\ busy' = busy
    BY <1>4 DEF CloseEngine, Close
  <2> QED
    BY <2>1, Elsewhere DEF PoolNext
<1>5. CASE Edit
  BY <1>5, Edits
<1>6. CASE UNCHANGED vars
  <2>1. UNCHANGED poolVars /\ stack' = stack /\ busy' = busy
    BY <1>6 DEF vars, poolVars
  <2> QED
    BY <2>1, Elsewhere
<1> QED
  BY <1>1, <1>2, <1>3, <1>4, <1>5, <1>6 DEF Next

LEMMA StartsGood == Init => Good
<1> SUFFICES ASSUME Init PROVE Good
  OBVIOUS
<1>1. stack = [c \in Callers |-> <<>>] /\ busy = {}
  BY DEF Init, PoolInit
<1>2. ASSUME NEW c \in Callers PROVE stack[c] = <<>> /\ Len(stack[c]) = 0 /\ IsSeq(stack[c])
  <2>1. stack[c] = <<>>
    BY <1>1
  <2>2. <<>> \in Seq({})
    OBVIOUS
  <2>3. IsSeq(<<>>)
    BY <2>2, IsSeqOf
  <2> QED
    BY <2>1, <2>3
<1>3. \A c \in Callers : 1..Len(stack[c]) = {}
  BY <1>2
<1>4. StackInv
  BY <1>1, <1>2, <1>3, DepthAssumption DEF StackInv
<1>5. HeldInv
  BY <1>1, <1>3 DEF HeldInv
<1> QED
  BY <1>4, <1>5 DEF Good

\* For any number of callers, at any depth: a step of an invocation, with all the
\* scripts it runs, is a step of the pool or leaves the pool alone.  So the
\* invocations implement the pool's own specification (get, put, trap, Close).
THEOREM PoolUsed == Spec => PoolSpec
<1>1. Init => PoolInit
  BY DEF Init
<1>2. Good /\ [Next]_vars => Good' /\ [PoolNext]_poolVars
  BY StepKeeps
<1> QED
  BY <1>1, <1>2, StartsGood, PTL DEF Spec, PoolSpec

\* What the frames say of the pool.
LEMMA Held ==
  ASSUME Good, PoolInv
  PROVE  PoolSound
<1>1. ASSUME NEW r \in Runs
      PROVE  /\ r[1] \in Callers /\ r[2] \in 1..Len(stack[r[1]])
             /\ stack[r[1]][r[2]].run \in Instances
             /\ r = <<r[1], r[2]>>
  BY DepthAssumption DEF Runs, Good, StackInv, IsSeq
<1>2. ASSUME NEW c \in Callers, NEW n \in 1..Len(stack[c]), stack[c][n].run \in Instances
      PROVE  <<c, n>> \in Runs
  BY <1>2, DepthAssumption DEF Runs, Good, StackInv, IsSeq
<1>3. busy = { stack[r[1]][r[2]].run : r \in Runs }
  <2>1. ASSUME NEW i \in busy PROVE i \in { stack[r[1]][r[2]].run : r \in Runs }
    <3>1. PICK c \in Callers : \E n \in 1..Len(stack[c]) : i = stack[c][n].run /\ i \in Instances
      BY DEF Good, HeldInv
    <3>2. PICK n \in 1..Len(stack[c]) : i = stack[c][n].run /\ i \in Instances
      BY <3>1
    <3>3. PICK r \in Runs : r = <<c, n>>
      BY <1>2, <3>2
    <3> QED
      BY <3>2, <3>3
  <2>2. ASSUME NEW r \in Runs PROVE stack[r[1]][r[2]].run \in busy
    BY <1>1 DEF Good, HeldInv
  <2> QED
    BY <2>1, <2>2
<1>4. \A r, s \in Runs : stack[r[1]][r[2]].run = stack[s[1]][s[2]].run => r = s
  <2> SUFFICES ASSUME NEW r \in Runs, NEW s \in Runs, stack[r[1]][r[2]].run = stack[s[1]][s[2]].run
               PROVE  r = s
    OBVIOUS
  <2>1. r[1] = s[1] /\ r[2] = s[2]
    BY <1>1 DEF Good, HeldInv
  <2> QED
    BY <1>1, <2>1
<1> QED
  BY <1>3, <1>4 DEF PoolSound

\* For any number of callers, at any depth: what the pool has given out is what
\* the invocations' frames hold, each instance in one frame of one caller, and
\* what is at rest in the pool is whole (get, put, withProfileDeadline).
THEOREM InstancesHeldOnce == Spec => []PoolSound
<1>1. Good /\ [Next]_vars => Good'
  BY StepKeeps
<1>2. Good /\ PoolInv => PoolSound
  BY Held
<1> QED
  BY <1>1, <1>2, StartsGood, PoolUsed, PoolSafe, PTL DEF Spec

-----------------------------------------------------------------------------
(* The history of a request, for any number of callers and calls, at any      *)
(* depth, and whatever is renamed, moved or deleted while calls run.          *)

Recording == {"record", "append"}

StoreTypes ==
  /\ at \in [Names -> Items \cup {None}] /\ folder \in BOOLEAN /\ files \in BOOLEAN
  /\ late \in [Callers -> BOOLEAN] /\ gone \in [Callers -> BOOLEAN]

\* The calls that are under way have a number each, none of a call that is to come.
Numbered ==
  /\ begun \in 0..MaxCalls
  /\ number \in [Callers -> 0..begun]
  /\ \A c \in Callers : Active(c) => number[c] # 0
  /\ \A c, d \in Callers : Active(c) /\ Active(d) /\ number[c] = number[d] => c = d

\* An invocation that records is the only one of its stack.
Alone ==
  \A c \in Callers : \A n \in 1..Len(stack[c]) :
    /\ stack[c][n].ask.name \in Names \cup {None}
    /\ stack[c][n].pc \in Recording => Len(stack[c]) = 1

\* Who has the mutex has read the file of the request it is about to write to.
Exclusive ==
  /\ mu \in Callers \cup {None}
  /\ \A c \in Callers : mu = c <=> Active(c) /\ Top(c).pc = "append"
  /\ \A c \in Callers : mu = c =>
       /\ Lookup(Top(c).ask.name) \in Items
       /\ Top(c).read = hist[Lookup(Top(c).ask.name)]

\* The files hold calls that have ended, each once.
Listed ==
  /\ hist \in [Items -> Seq(1..MaxCalls)]
  /\ \A i \in Items :
       /\ Len(hist[i]) <= Limit
       /\ \A m \in 1..Len(hist[i]) : hist[i][m] <= begun /\ \A c \in Callers : Active(c) => number[c] # hist[i][m]
       /\ \A m, n \in 1..Len(hist[i]) : hist[i][m] = hist[i][n] => m = n

\* What has ended and is due is there; what is under way is due only where it is
\* about to be recorded.
Owed ==
  /\ due \in [1..MaxCalls -> Items \cup {None}]
  /\ \A n \in 1..MaxCalls : due[n] # None =>
       /\ n <= begun
       /\ \/ \E c \in Callers : Active(c) /\ number[c] = n
          \/ n \in passed
          \/ \E m \in 1..Len(hist[due[n]]) : hist[due[n]][m] = n
  /\ \A c \in Callers : Active(c) /\ due[number[c]] # None =>
       Top(c).pc \in Recording /\ due[number[c]] = Lookup(Top(c).ask.name)

HistInv == StoreTypes /\ Numbered /\ Alone /\ Exclusive /\ Listed /\ Owed
------------------------------------------------------------------------------
(* Stacks.                                                                     *)

LEMMA EmptySeq ==
  ASSUME NEW t, IsSeq(t), Len(t) = 0
  PROVE  t = <<>>
<1>1. t \in Seq({t[n] : n \in 1..Len(t)})
  BY SeqOf
<1> QED
  BY <1>1

LEMMA ActiveLen ==
  ASSUME StackInv, NEW c \in Callers
  PROVE  Active(c) <=> Len(stack[c]) > 0
<1>1. IsSeq(stack[c]) /\ Len(stack[c]) \in Nat
  BY DEF StackInv, IsSeq
<1> QED
  BY <1>1, EmptySeq DEF Active

\* All of a stack whose last invocation does not record is clean.
LEMMA Clean ==
  ASSUME StackInv, Alone, NEW c \in Callers, Active(c), Top(c).pc \notin Recording
  PROVE  \A n \in 1..Len(stack[c]) : stack[c][n].pc \notin Recording
<1>1. Len(stack[c]) \in Nat
  BY DEF StackInv, IsSeq
<1> QED
  BY <1>1 DEF Alone, Top

\* Whoever does not record neither has the mutex nor is owed anything.
LEMMA Free ==
  ASSUME HistInv, NEW c \in Callers, Active(c), Top(c).pc \notin Recording
  PROVE  mu # c /\ due[number[c]] = None
BY DEF HistInv, Exclusive, Owed, Recording

records == <<at, folder, files, hist, mu, number, begun, due, passed>>
------------------------------------------------------------------------------
(* Steps that have nothing to do with the history.                             *)

\* One stack changes, and none of its invocations records afterwards.
LEMMA Aside ==
  ASSUME Good, HistInv, NEW c \in Callers, Active(c), mu # c, due[number[c]] = None,
         NEW t, stack' = [stack EXCEPT ![c] = t], IsSeq(t),
         \A n \in 1..Len(t) : t[n].pc \notin Recording /\ t[n].ask.name \in Names \cup {None},
         UNCHANGED records, late' \in [Callers -> BOOLEAN], gone' = gone
  PROVE  HistInv'
<1>1. stack'[c] = t /\ \A d \in Callers : d # c => stack'[d] = stack[d]
  BY Others DEF Good
<1>2. \A d \in Callers : d # c => (Active(d)' <=> Active(d)) /\ Top(d)' = Top(d)
  BY <1>1 DEF Active, Top
<1>3. Active(c)' => Top(c)'.pc \notin Recording
  <2>1. Len(t) \in Nat /\ (t # <<>> => Len(t) > 0)
    BY EmptySeq DEF IsSeq
  <2> QED
    BY <1>1, <2>1 DEF Active, Top
<1>4. \A name : Lookup(name)' = Lookup(name)
  BY DEF records, Lookup
<1>5. StoreTypes' /\ Numbered'
  BY <1>2 DEF HistInv, StoreTypes, Numbered, records
<1>6. Alone'
  BY <1>1 DEF HistInv, Alone
<1>7. Exclusive'
  BY <1>2, <1>3, <1>4 DEF HistInv, Exclusive, records, Recording
<1>8. Listed'
  BY <1>2 DEF HistInv, Listed, records
<1>9. Owed'
  BY <1>2, <1>4 DEF HistInv, Owed, records
<1> QED
  BY <1>5, <1>6, <1>7, <1>8, <1>9 DEF HistInv

\* The last invocation goes on, to do something else than record.
LEMMA GoesAside ==
  ASSUME Good, HistInv, NEW c \in Callers, Active(c), Top(c).pc \notin Recording,
         NEW g, Become(c, g), g.pc \notin Recording, g.ask = Top(c).ask,
         UNCHANGED records, late' \in [Callers -> BOOLEAN], gone' = gone
  PROVE  HistInv'
<1> DEFINE s == stack[c]
           t == [s EXCEPT ![Len(s)] = g]
<1>1. IsSeq(s) /\ Len(s) > 0 /\ Len(s) \in Nat
  BY DEF Good, StackInv, IsSeq, Active
<1>2. stack' = [stack EXCEPT ![c] = t]
  BY DEF Become, Good, StackInv
<1> HIDE DEF s
<1>3. /\ IsSeq(t) /\ Len(t) = Len(s) /\ t[Len(s)] = g
      /\ \A n \in 1..Len(s) : n # Len(s) => t[n] = s[n]
  <2>1. LastIs(s, g, t)
    BY <1>1, Replaced
  <2> QED
    BY <2>1 DEF LastIs
<1> USE DEF s
<1> HIDE DEF t
<1>4. Top(c) = s[Len(s)]
  BY DEF Top
<1>5. \A n \in 1..Len(s) : s[n].pc \notin Recording /\ s[n].ask.name \in Names \cup {None}
  BY Clean DEF Good, HistInv, Alone
<1>6. \A n \in 1..Len(t) : t[n].pc \notin Recording /\ t[n].ask.name \in Names \cup {None}
  BY <1>1, <1>3, <1>4, <1>5
<1> QED
  BY <1>2, <1>3, <1>6, Free, Aside

\* The last invocation ends, and was not to record anything.
LEMMA EndsAside ==
  ASSUME Good, HistInv, NEW c \in Callers, Active(c), Return(c),
         mu # c, due[number[c]] = None,
         UNCHANGED records, late' \in [Callers -> BOOLEAN], gone' = gone
  PROVE  HistInv'
<1> DEFINE s == stack[c]
<1>1. IsSeq(s) /\ Len(s) > 0 /\ Len(s) \in Nat
  BY DEF Good, StackInv, IsSeq, Active
<1>2. PICK t : t = SubSeq(s, 1, Len(s) - 1)
  OBVIOUS
<1>3. stack' = [stack EXCEPT ![c] = t]
  BY <1>2 DEF Return
<1>4. IsSeq(t) /\ Len(t) = Len(s) - 1 /\ \A n \in 1..Len(t) : t[n] = s[n]
  <2>1. Shorter(s, t)
    BY <1>1, <1>2, Popped
  <2> QED
    BY <2>1 DEF Shorter
<1>5. \A n \in 1..Len(t) : t[n].pc \notin Recording /\ t[n].ask.name \in Names \cup {None}
  BY <1>1, <1>4 DEF HistInv, Alone
<1> QED
  BY <1>3, <1>4, <1>5, Aside

\* The stacks stay as they are.
LEMMA Untouched ==
  ASSUME HistInv, stack' = stack, UNCHANGED records,
         late' \in [Callers -> BOOLEAN], gone' \in [Callers -> BOOLEAN]
  PROVE  HistInv'
<1>1. \A c \in Callers : (Active(c)' <=> Active(c)) /\ Top(c)' = Top(c)
  BY DEF Active, Top
<1>2. \A name : Lookup(name)' = Lookup(name)
  BY DEF records, Lookup
<1>3. StoreTypes' /\ Numbered'
  BY <1>1 DEF HistInv, StoreTypes, Numbered, records
<1>4. Alone' /\ Exclusive'
  BY <1>1, <1>2 DEF HistInv, Alone, Exclusive, records
<1>5. Listed'
  BY <1>1 DEF HistInv, Listed, records
<1>6. Owed'
  BY <1>1, <1>2 DEF HistInv, Owed, records
<1> QED
  BY <1>3, <1>4, <1>5, <1>6 DEF HistInv

\* What folding and a script's result make of a frame: the same call, which does
\* not record yet.
LEMMA FoldedAside ==
  ASSUME NEW f, IsFrame(f), NEW md
  PROVE  Folded(f, md).ask = f.ask /\ Folded(f, md).pc \notin Recording
BY DEF Folded, IsFrame, Recording

LEMMA OnwardAside ==
  ASSUME NEW f, IsFrame(f)
  PROVE  Onward(f).ask = f.ask /\ (f.pc \notin Recording => Onward(f).pc \notin Recording)
<1>1. CASE f.pc = "body"
  BY <1>1 DEF Onward, IsFrame, Recording
<1>2. CASE f.pc = "folder"
  <2>1. PICK md : md = Result(f.chain[f.step], f.md)
    OBVIOUS
  <2>2. Onward(f) = IF f.step < Len(f.chain) THEN [f EXCEPT !.md = md, !.step = f.step + 1] ELSE Folded(f, md)
    BY <1>2, <2>1 DEF Onward
  <2>3. PICK g : g = [f EXCEPT !.md = md, !.step = f.step + 1]
    OBVIOUS
  <2>4. g.ask = f.ask /\ g.pc = f.pc
    BY <2>3 DEF IsFrame
  <2> QED
    BY <2>2, <2>3, <2>4, FoldedAside
<1>3. CASE f.pc = "own"
  BY <1>3 DEF Onward, IsFrame, Recording
<1>4. CASE f.pc \notin {"body", "folder", "own"}
  <2> DEFINE mw == f.chain[f.step]
             last == f.step = Len(f.chain)
  <2>1. PICK bodies : bodies = [f.bodies EXCEPT ![f.msg] = Append(@, mw)]
    OBVIOUS
  <2>2. PICK md : md = Stamped(Stamps[mw], f.md)
    OBVIOUS
  <2>3. PICK step, msg, pc :
          /\ step = IF last THEN 1 ELSE f.step + 1
          /\ msg = IF last THEN f.msg + 1 ELSE f.msg
          /\ pc = IF last /\ f.msg = f.n THEN "send" ELSE "middleware"
    OBVIOUS
  <2>4. Onward(f) = [f EXCEPT !.bodies = bodies, !.md = md, !.step = step, !.msg = msg, !.pc = pc]
    BY <1>4, <2>1, <2>2, <2>3 DEF Onward, IsFrame
  <2>5. PICK g : g = [f EXCEPT !.bodies = bodies, !.md = md, !.step = step, !.msg = msg, !.pc = pc]
    OBVIOUS
  <2>6. g.ask = f.ask /\ g.pc = pc
    BY <2>5 DEF IsFrame
  <2> QED
    BY <2>3, <2>4, <2>5, <2>6 DEF Recording
<1> QED
  BY <1>1, <1>2, <1>3, <1>4

\* Resolving, reading and sending: nothing of the history is touched.
LEMMA ResolvesAside ==
  ASSUME Good, HistInv, NEW c \in Callers, Resolve(c)
  PROVE  HistInv'
<1> DEFINE f == Top(c)
<1>1. /\ Active(c) /\ f.pc \notin Recording /\ IsFrame(f)
      /\ UNCHANGED records /\ late' = late /\ late' \in [Callers -> BOOLEAN] /\ gone' = gone
  BY Tops DEF Resolve, Reading, Good, Sane, Recording, records, store, ghosts, callVars, HistInv, StoreTypes
<1>2. CASE Return(c)
  BY <1>1, <1>2, Free, EndsAside
<1>3. ASSUME NEW pc \in {"scratch", "body"}, NEW n, NEW own, Become(c, [f EXCEPT !.pc = pc, !.n = n, !.own = own])
      PROVE  HistInv'
  <2>1. PICK g : g = [f EXCEPT !.pc = pc, !.n = n, !.own = own]
    OBVIOUS
  <2> HIDE DEF f
  <2>2. g.ask = f.ask /\ g.pc = pc /\ g.pc \notin Recording
    BY <1>1, <2>1 DEF IsFrame, Recording
  <2> USE DEF f
  <2> QED
    BY <1>1, <1>3, <2>1, <2>2, GoesAside
<1> QED
  BY <1>2, <1>3 DEF Resolve

\* Only where it is changes.
LEMMA OnlyPc ==
  ASSUME Good, HistInv, NEW c \in Callers, Active(c), Top(c).pc \notin Recording, IsFrame(Top(c)),
         NEW pc, pc \notin Recording, Become(c, [Top(c) EXCEPT !.pc = pc]),
         UNCHANGED records, late' \in [Callers -> BOOLEAN], gone' = gone
  PROVE  HistInv'
<1> DEFINE f == Top(c)
<1>1. PICK g : g = [f EXCEPT !.pc = pc]
  OBVIOUS
<1> HIDE DEF f
<1>2. IsFrame(f) => g.ask = f.ask /\ g.pc = pc
  BY <1>1 DEF IsFrame
<1> USE DEF f
<1> QED
  BY <1>1, <1>2, GoesAside

LEMMA FoldersAside ==
  ASSUME Good, HistInv, NEW c \in Callers, ReadFolders(c)
  PROVE  HistInv'
<1> DEFINE f == Top(c)
<1>1. /\ Active(c) /\ f.pc \notin Recording /\ IsFrame(f)
      /\ UNCHANGED records /\ late' = late /\ late' \in [Callers -> BOOLEAN] /\ gone' = gone
  BY Tops DEF ReadFolders, Reading, Good, Sane, Recording, records, store, ghosts, callVars, HistInv, StoreTypes
<1>2. CASE Return(c)
  BY <1>1, <1>2, Free, EndsAside
<1>3. CASE Become(c, Folded(f, Nothing))
  BY <1>1, <1>3, FoldedAside, GoesAside
<1>4. ASSUME NEW chain, Become(c, [f EXCEPT !.pc = "folder", !.chain = chain, !.step = 1])
      PROVE  HistInv'
  <2>1. PICK g : g = [f EXCEPT !.pc = "folder", !.chain = chain, !.step = 1]
    OBVIOUS
  <2> HIDE DEF f
  <2>2. g.ask = f.ask /\ g.pc = "folder" /\ g.pc \notin Recording
    BY <1>1, <2>1 DEF IsFrame, Recording
  <2> USE DEF f
  <2> QED
    BY <1>1, <1>4, <2>1, <2>2, GoesAside
<1>5. PICK scripts : scripts = IF folder /\ f.ask.name # None
                               THEN ScriptChain ELSE <<>>
  OBVIOUS
<1>6. \/ Return(c)
      \/ Become(c, IF scripts = <<>> THEN Folded(f, Nothing)
                   ELSE [f EXCEPT !.pc = "folder", !.chain = scripts, !.step = 1])
  BY <1>5 DEF ReadFolders
<1> QED
  BY <1>2, <1>3, <1>4, <1>6

LEMMA AttachedAside ==
  ASSUME Good, HistInv, NEW c \in Callers, ReadAttached(c)
  PROVE  HistInv'
<1> DEFINE f == Top(c)
<1>1. /\ Active(c) /\ f.pc \notin Recording /\ IsFrame(f)
      /\ UNCHANGED records /\ late' = late /\ late' \in [Callers -> BOOLEAN] /\ gone' = gone
  BY Tops DEF ReadAttached, Reading, Good, Sane, Recording, records, store, ghosts, callVars, HistInv, StoreTypes
<1>2. CASE Return(c)
  BY <1>1, <1>2, Free, EndsAside
<1>3. ASSUME Become(c, [f EXCEPT !.pc = "send"])
      PROVE  HistInv'
  BY <1>1, <1>3, OnlyPc DEF Recording
<1>4. ASSUME NEW chain, NEW md,
             Become(c, [f EXCEPT !.pc = "middleware", !.chain = chain, !.msg = 1, !.step = 1, !.md = md])
      PROVE  HistInv'
  <2>1. PICK g : g = [f EXCEPT !.pc = "middleware", !.chain = chain, !.msg = 1, !.step = 1, !.md = md]
    OBVIOUS
  <2> HIDE DEF f
  <2>2. g.ask = f.ask /\ g.pc = "middleware" /\ g.pc \notin Recording
    BY <1>1, <2>1 DEF IsFrame, Recording
  <2> USE DEF f
  <2> QED
    BY <1>1, <1>4, <2>1, <2>2, GoesAside
<1>5. PICK chain : chain = Attached[Lookup(f.ask.name)]
  OBVIOUS
<1>6. \/ Return(c)
      \/ Become(c, [f EXCEPT !.pc = "send"])
      \/ Become(c, [f EXCEPT !.pc = "middleware", !.chain = chain, !.msg = 1, !.step = 1, !.md = Single(f.md)])
  BY <1>5 DEF ReadAttached
<1> QED
  BY <1>2, <1>3, <1>4, <1>6

LEMMA SendsAside ==
  ASSUME Good, HistInv, NEW c \in Callers, Send(c)
  PROVE  HistInv'
<1>1. /\ Active(c) /\ Top(c).pc \notin Recording /\ IsFrame(Top(c))
      /\ UNCHANGED records /\ late' = late /\ late' \in [Callers -> BOOLEAN] /\ gone' = gone
  BY Tops DEF Send, Reading, Good, Sane, Recording, records, store, ghosts, callVars, HistInv, StoreTypes
<1>2. CASE Return(c)
  BY <1>1, <1>2, Free, EndsAside
<1>3. CASE Become(c, [Top(c) EXCEPT !.pc = "sent"])
  BY <1>1, <1>3, OnlyPc DEF Recording
<1> QED
  BY <1>2, <1>3 DEF Send

\* Scripts: nor do they, from their start to their end.
LEMMA StartsAside ==
  ASSUME Good, HistInv, NEW c \in Callers, StartScript(c)
  PROVE  HistInv'
<1> DEFINE f == Top(c)
<1>1. /\ Active(c) /\ f.pc \notin Recording /\ IsFrame(f)
      /\ UNCHANGED records /\ late' \in [Callers -> BOOLEAN] /\ gone' = gone
  BY Tops DEF StartScript, Scripted, Good, Sane, Recording, records, store, ghosts, callVars, HistInv, StoreTypes
<1>2. CASE Return(c)
  BY <1>1, <1>2, Free, EndsAside
<1>3. ASSUME NEW i, Become(c, [f EXCEPT !.run = i])
      PROVE  HistInv'
  <2>1. PICK g : g = [f EXCEPT !.run = i]
    OBVIOUS
  <2> HIDE DEF f
  <2>2. g.ask = f.ask /\ g.pc = f.pc
    BY <1>1, <2>1 DEF IsFrame
  <2> USE DEF f
  <2> QED
    BY <1>1, <1>3, <2>1, <2>2, GoesAside
<1> QED
  BY <1>2, <1>3 DEF StartScript

LEMMA LateType ==
  ASSUME HistInv, NEW c \in Callers, Leave(c)
  PROVE  late' \in [Callers -> BOOLEAN]
<1>1. PICK b \in BOOLEAN : b = (late[c] /\ ~Outermost(c))
  OBVIOUS
<1>2. late' = [late EXCEPT ![c] = b]
  BY <1>1 DEF Leave
<1> QED
  BY <1>2 DEF HistInv, StoreTypes

\* Only what runs no script records.
LEMMA RunsAside ==
  ASSUME Good, NEW c \in Callers, Running(c)
  PROVE  Active(c) /\ Top(c).pc \notin Recording /\ IsFrame(Top(c))
BY Tops DEF Running, Good, Sane, Recording, Scripted

LEMMA FailsAside ==
  ASSUME Good, HistInv, NEW c \in Callers, Running(c), Leave(c), Return(c),
         UNCHANGED <<store, hist, mu, gone, number, begun, ghosts>>
  PROVE  HistInv'
<1>1. UNCHANGED records /\ gone' = gone
  BY DEF records, store, ghosts
<1> QED
  BY <1>1, LateType, RunsAside, Free, EndsAside

LEMMA YieldsAside ==
  ASSUME Good, HistInv, NEW c \in Callers, ScriptYields(c)
  PROVE  HistInv'
<1> DEFINE f == Top(c)
<1>1. /\ Running(c) /\ Leave(c) /\ UNCHANGED records /\ gone' = gone
      /\ UNCHANGED <<store, hist, mu, gone, number, begun, ghosts>>
  BY DEF ScriptYields, Alive, records, store, ghosts
<1>2. CASE Return(c)
  BY <1>1, <1>2, FailsAside
<1>3. CASE Become(c, Onward([f EXCEPT !.run = None]))
  <2>1. PICK h : h = [f EXCEPT !.run = None]
    OBVIOUS
  <2>2. IsFrame(f) /\ Active(c) /\ f.pc \notin Recording
    BY <1>1, RunsAside
  <2> HIDE DEF f
  <2>3. IsFrame(h) /\ h.ask = f.ask /\ h.pc = f.pc
    BY <2>1, <2>2 DEF IsFrame
  <2>4. PICK g : g = Onward(h)
    OBVIOUS
  <2>5. g.ask = f.ask /\ g.pc \notin Recording
    BY <2>2, <2>3, <2>4, OnwardAside
  <2> USE DEF f
  <2>6. Become(c, g)
    BY <1>3, <2>1, <2>4
  <2> QED
    BY <1>1, <2>2, <2>5, <2>6, LateType, GoesAside
<1> QED
  BY <1>2, <1>3 DEF ScriptYields

LEMMA TrapsAside ==
  ASSUME Good, HistInv, NEW c \in Callers, ScriptTraps(c)
  PROVE  HistInv'
<1>1. UNCHANGED records /\ gone' = gone /\ Running(c)
      /\ UNCHANGED <<store, hist, mu, gone, number, begun, ghosts>>
  BY DEF ScriptTraps, records, store, ghosts
<1>2. CASE Leave(c) /\ Return(c)
  BY <1>1, <1>2, FailsAside
<1>3. CASE UNCHANGED <<late, stack>>
  BY <1>1, <1>3, Untouched DEF HistInv, StoreTypes
<1> QED
  BY <1>2, <1>3 DEF ScriptTraps

\* A nested invocation is not recorded, and the script that asked for it runs on.
LEMMA InvokesAside ==
  ASSUME Good, HistInv, NEW c \in Callers, NEW name \in Names, ScriptInvokes(c, name)
  PROVE  HistInv'
<1>1. /\ Active(c) /\ Top(c).pc \notin Recording
      /\ UNCHANGED records /\ late' \in [Callers -> BOOLEAN] /\ gone' = gone
  BY RunsAside DEF ScriptInvokes, Alive, records, store, ghosts, callVars, HistInv, StoreTypes
<1>2. CASE stack' = stack
  BY <1>1, <1>2, Untouched DEF HistInv, StoreTypes
<1>3. CASE stack' # stack
  <2> DEFINE s == stack[c]
  <2>1. PICK g : g = Frame(Nested(name))
    OBVIOUS
  <2>2. g.pc \notin Recording /\ g.ask.name = name
    BY <2>1 DEF Frame, Nested, Recording
  <2>3. PICK t : t = Append(s, g)
    OBVIOUS
  <2>4. stack' = [stack EXCEPT ![c] = t]
    BY <1>3, <2>1, <2>3 DEF ScriptInvokes, Good, StackInv
  <2>5. IsSeq(s) /\ Len(s) \in Nat
    BY DEF Good, StackInv, IsSeq
  <2>6. \A n \in 1..Len(s) : s[n].pc \notin Recording /\ s[n].ask.name \in Names \cup {None}
    BY <1>1, Clean DEF Good, HistInv, Alone
  <2> HIDE DEF s
  <2>7. Longer(s, g, t)
    BY <2>3, <2>5, Pushed
  <2>8. IsSeq(t) /\ Len(t) = Len(s) + 1 /\ t[Len(t)] = g
    BY <2>7 DEF Longer
  <2>9. \A n \in 1..Len(s) : t[n] = s[n]
    BY <2>7 DEF Longer
  <2>10. \A n \in 1..Len(t) : t[n].pc \notin Recording /\ t[n].ask.name \in Names \cup {None}
    BY <2>2, <2>5, <2>6, <2>8, <2>9
  <2> QED
    BY <1>1, <2>4, <2>8, <2>10, Free, Aside
<1> QED
  BY <1>2, <1>3

\* A script that runs is not of what records, so a deadline changes nothing; nor
\* does a client that hangs up, nor the engine's end.
LEMMA OthersAside ==
  ASSUME HistInv, (\E c \in Callers : Deadline(c) \/ HangUp(c)) \/ CloseEngine \/ UNCHANGED vars
  PROVE  HistInv'
<1>1. UNCHANGED records /\ stack' = stack
  BY DEF Deadline, HangUp, CloseEngine, records, store, ghosts, callVars, vars
<1>2. late \in [Callers -> BOOLEAN] /\ gone \in [Callers -> BOOLEAN]
  BY DEF HistInv, StoreTypes
<1>3. ASSUME NEW c \in Callers, Deadline(c) \/ HangUp(c)
      PROVE  late' \in [Callers -> BOOLEAN] /\ gone' \in [Callers -> BOOLEAN]
  BY <1>2, <1>3 DEF Deadline, HangUp
<1>4. ASSUME CloseEngine \/ UNCHANGED vars
      PROVE  late' \in [Callers -> BOOLEAN] /\ gone' \in [Callers -> BOOLEAN]
  BY <1>2, <1>4 DEF CloseEngine, callVars, vars
<1> QED
  BY <1>1, <1>3, <1>4, Untouched
------------------------------------------------------------------------------
(* Steps of the history.                                                       *)

\* What a name stands for is a request, or nothing.
LEMMA LookupType ==
  ASSUME StoreTypes, NEW name \in Names \cup {None}
  PROVE  Lookup(name) \in Items \cup {None}
BY DEF StoreTypes, Lookup

LEMMA ElementOf ==
  ASSUME NEW S, NEW h \in Seq(S), NEW m \in 1..Len(h)
  PROVE  h[m] \in S
OBVIOUS

LEMMA Entry ==
  ASSUME Listed, NEW i \in Items, NEW m \in 1..Len(hist[i])
  PROVE  hist[i][m] \in 1..MaxCalls
BY ElementOf DEF Listed

LEMMA CallNumber ==
  ASSUME Numbered, NEW c \in Callers, Active(c)
  PROVE  number[c] \in 1..MaxCalls /\ number[c] <= begun
BY DepthAssumption DEF Numbered

LEMMA BeginsListed ==
  ASSUME Good, HistInv, NEW c \in Callers, NEW q \in Asks, Begin(c, q)
  PROVE  HistInv'
<1>1. PICK t : t = <<Frame(q)>>
  OBVIOUS
<1>2. stack' = [stack EXCEPT ![c] = t]
  BY <1>1 DEF Begin
<1>3. Len(t) = 1 /\ IsSeq(t) /\ t # <<>> /\ t[1] = Frame(q)
  <2>1. t \in Seq({Frame(q)})
    BY <1>1
  <2> QED
    BY <1>1, <2>1, IsSeqOf
<1>4. t[1].pc \notin Recording /\ t[1].ask.name \in Names \cup {None}
  BY <1>3, AsksAssumption DEF Frame, Recording, IsAsk
<1>5. stack'[c] = t /\ \A d \in Callers : d # c => stack'[d] = stack[d]
  BY <1>2, Others DEF Good
<1>6. \A d \in Callers : d # c => (Active(d)' <=> Active(d)) /\ Top(d)' = Top(d)
  BY <1>5 DEF Active, Top
<1>7. Active(c)' /\ Top(c)'.pc \notin Recording /\ ~Active(c)
  BY <1>3, <1>4, <1>5 DEF Active, Top, Begin
<1>8. /\ begun' = begun + 1 /\ begun \in Nat /\ MaxCalls \in Nat /\ begun < MaxCalls
      /\ number' = [number EXCEPT ![c] = begun + 1] /\ number \in [Callers -> 0..begun]
      /\ UNCHANGED <<at, folder, files, hist, mu, due, passed>>
  BY DepthAssumption DEF Begin, HistInv, Numbered, store, ghosts
<1>9. number'[c] = begun + 1 /\ \A d \in Callers : d # c => number'[d] = number[d] /\ number[d] <= begun
  BY <1>8
<1>10. \A name : Lookup(name)' = Lookup(name)
  BY <1>8 DEF Lookup
<1>11. StoreTypes'
  BY <1>8 DEF HistInv, StoreTypes, Begin
<1>12. Numbered'
  <2>1. begun' \in 0..MaxCalls /\ number' \in [Callers -> 0..begun']
    BY <1>8
  <2>2. \A d \in Callers : Active(d)' => number'[d] # 0
    BY <1>6, <1>8, <1>9 DEF HistInv, Numbered
  <2>3. ASSUME NEW d \in Callers, NEW e \in Callers, Active(d)', Active(e)', number'[d] = number'[e]
        PROVE  d = e
    <3>1. CASE d # c /\ e # c
      BY <2>3, <3>1, <1>6, <1>9 DEF HistInv, Numbered
    <3>2. CASE d = c \/ e = c
      BY <2>3, <3>2, <1>8, <1>9
    <3> QED
      BY <3>1, <3>2
  <2> QED
    BY <2>1, <2>2, <2>3 DEF Numbered
<1>13. Alone'
  BY <1>3, <1>4, <1>5 DEF HistInv, Alone
<1>14. Exclusive'
  <2>1. mu # c
    BY <1>7 DEF HistInv, Exclusive
  <2> QED
    BY <2>1, <1>6, <1>7, <1>8, <1>10 DEF HistInv, Exclusive, Recording
<1>15. Listed'
  <2>1. ASSUME NEW i \in Items, NEW m \in 1..Len(hist[i])
        PROVE  hist[i][m] <= begun /\ hist[i][m] \in Nat /\ \A d \in Callers : Active(d)' => number'[d] # hist[i][m]
    <3>1. hist[i][m] <= begun /\ hist[i][m] \in Nat /\ \A d \in Callers : Active(d) => number[d] # hist[i][m]
      <4>1. hist[i][m] \in 1..MaxCalls
        BY Entry DEF HistInv
      <4> QED
        BY <4>1 DEF HistInv, Listed
    <3>2. number'[c] # hist[i][m]
      BY <3>1, <1>8, <1>9
    <3> QED
      BY <3>1, <3>2, <1>6, <1>9
  <2>2. \A i \in Items : \A m \in 1..Len(hist[i]) : hist[i][m] <= begun'
    BY <2>1, <1>8
  <2> QED
    BY <2>1, <2>2, <1>8 DEF HistInv, Listed
<1>16. Owed'
  <2>1. due \in [1..MaxCalls -> Items \cup {None}]
    BY DEF HistInv, Owed
  <2>2. ASSUME NEW n \in 1..MaxCalls, due[n] # None
        PROVE  /\ n <= begun /\ n <= begun'
               /\ \/ \E d \in Callers : Active(d)' /\ number'[d] = n
                  \/ n \in passed
                  \/ \E m \in 1..Len(hist[due[n]]) : hist[due[n]][m] = n
    <3>1. n <= begun
      BY <2>2 DEF HistInv, Owed
    <3>2. ASSUME NEW d \in Callers, Active(d), number[d] = n
          PROVE  Active(d)' /\ number'[d] = n
      BY <3>2, <1>6, <1>7, <1>9
    <3> QED
      BY <2>2, <3>1, <3>2, <1>8 DEF HistInv, Owed
  <2>3. due[begun + 1] = None
    <3>1. begun + 1 \in 1..MaxCalls
      BY <1>8
    <3> QED
      BY <3>1, <2>2, <1>8
  <2>4. \A d \in Callers : Active(d)' /\ due[number'[d]] # None =>
          Top(d)'.pc \in Recording /\ due[number'[d]] = Lookup(Top(d)'.ask.name)
    BY <2>3, <1>6, <1>9 DEF HistInv, Owed
  <2> QED
    BY <2>1, <2>2, <2>4, <1>8, <1>10 DEF Owed
<1> QED
  BY <1>11, <1>12, <1>13, <1>14, <1>15, <1>16 DEF HistInv

LEMMA EditsListed ==
  ASSUME Good, HistInv, Edit
  PROVE  HistInv'
<1>1. /\ mu = None /\ UNCHANGED <<hist, mu, late, gone, number, begun, passed>>
      /\ stack' = [c \in Callers |-> [n \in DOMAIN stack[c] |-> [stack[c][n] EXCEPT !.steady = FALSE]]]
      /\ due' = [n \in 1..MaxCalls |-> IF \E c \in Callers : Active(c) /\ number[c] = n THEN None ELSE due[n]]
  BY DEF Edit, callVars
<1>2. ASSUME NEW c \in Callers
      PROVE  /\ Len(stack'[c]) = Len(stack[c])
             /\ \A n \in 1..Len(stack[c]) : stack'[c][n].pc = stack[c][n].pc /\ stack'[c][n].ask = stack[c][n].ask
  <2> DEFINE s == stack[c]
  <2>1. Len(s) \in Nat /\ DOMAIN s = 1..Len(s) /\ \A n \in 1..Len(s) : IsFrame(s[n])
    BY SeqOf DEF Good, StackInv, IsSeq, Sane
  <2>2. PICK t : t = [n \in 1..Len(s) |-> [s[n] EXCEPT !.steady = FALSE]]
    OBVIOUS
  <2>3. stack'[c] = t
    BY <1>1, <2>1, <2>2
  <2> HIDE DEF s
  <2>4. Len(t) = Len(s)
    <3>1. t \in [1..Len(s) -> {t[n] : n \in 1..Len(s)}]
      BY <2>2
    <3>2. t \in Seq({t[n] : n \in 1..Len(s)})
      BY <2>1, <3>1
    <3> QED
      BY <2>1, <3>1, <3>2
  <2>5. ASSUME NEW n \in 1..Len(s) PROVE t[n].pc = s[n].pc /\ t[n].ask = s[n].ask
    <3>1. PICK f : f = s[n]
      OBVIOUS
    <3>2. PICK g : g = [f EXCEPT !.steady = FALSE]
      OBVIOUS
    <3>3. t[n] = g /\ IsFrame(f)
      BY <2>1, <2>2, <3>1, <3>2
    <3>4. g.pc = f.pc /\ g.ask = f.ask
      BY <3>2, <3>3 DEF IsFrame
    <3> QED
      BY <3>1, <3>3, <3>4
  <2> USE DEF s
  <2> QED
    BY <2>3, <2>4, <2>5
<1>3. StackInv'
  BY Edits DEF Good
<1>4. \A c \in Callers : Active(c)' <=> Active(c)
  <2> TAKE c \in Callers
  <2>1. IsSeq(stack[c]) /\ IsSeq(stack'[c]) /\ Len(stack'[c]) = Len(stack[c])
    BY <1>2, <1>3 DEF Good, StackInv
  <2>2. stack[c] = <<>> <=> Len(stack[c]) = 0
    BY <2>1, EmptySeq
  <2>3. stack'[c] = <<>> <=> Len(stack'[c]) = 0
    BY <2>1, EmptySeq
  <2> QED
    BY <2>1, <2>2, <2>3 DEF Active
<1>5. \A c \in Callers : Active(c) => Top(c)'.pc = Top(c).pc /\ Top(c)'.ask = Top(c).ask
  <2> TAKE c \in Callers
  <2> HAVE Active(c)
  <2>1. Len(stack[c]) \in 1..Len(stack[c])
    BY ActiveLen DEF Good, StackInv, IsSeq
  <2> QED
    BY <1>2, <2>1 DEF Top
<1>6. at' \in [Names -> Items \cup {None}] /\ folder' \in BOOLEAN /\ files' \in BOOLEAN
  <2>1. at \in [Names -> Items \cup {None}] /\ folder \in BOOLEAN /\ files \in BOOLEAN
    BY DEF HistInv, StoreTypes
  <2>2. ASSUME NEW a \in Names, NEW b \in Names, at' = [at EXCEPT ![a] = None, ![b] = at[a]]
        PROVE  at' \in [Names -> Items \cup {None}]
    BY <2>1, <2>2
  <2> QED
    BY <2>1, <2>2 DEF Edit
<1>7. StoreTypes' /\ Numbered'
  BY <1>1, <1>4, <1>6 DEF HistInv, StoreTypes, Numbered
<1>8. Alone'
  BY <1>2 DEF HistInv, Alone
<1>9. Exclusive'
  <2>1. \A c \in Callers : mu # c
    BY <1>1, StartAssumption
  <2> QED
    BY <1>1, <1>4, <1>5, <2>1 DEF HistInv, Exclusive
<1>10. Listed'
  BY <1>1, <1>4 DEF HistInv, Listed
<1>11. Owed'
  <2>1. due \in [1..MaxCalls -> Items \cup {None}]
    BY DEF HistInv, Owed
  <2>2. due' \in [1..MaxCalls -> Items \cup {None}]
    BY <1>1, <2>1
  <2>3. ASSUME NEW n \in 1..MaxCalls, due'[n] # None
        PROVE  n <= begun /\ (n \in passed \/ \E m \in 1..Len(hist[due'[n]]) : hist[due'[n]][m] = n)
    <3>1. due'[n] = due[n] /\ ~\E c \in Callers : Active(c) /\ number[c] = n
      BY <1>1, <2>3
    <3> QED
      BY <2>3, <3>1 DEF HistInv, Owed
  <2>4. ASSUME NEW c \in Callers, Active(c)
        PROVE  due'[number[c]] = None
    <3>1. number[c] \in 1..MaxCalls
      BY <2>4, CallNumber DEF HistInv
    <3> QED
      BY <1>1, <2>4, <3>1
  <2> QED
    BY <1>1, <1>4, <2>2, <2>3, <2>4 DEF Owed
<1> QED
  BY <1>7, <1>8, <1>9, <1>10, <1>11 DEF HistInv

\* What was to be recorded and no longer is: only where it was not owed.
LEMMA AnswersListed ==
  ASSUME Good, HistInv, NEW c \in Callers, Answer(c)
  PROVE  HistInv'
<1> DEFINE f == Top(c)
           s == stack[c]
           name == f.ask.name
<1>1. /\ Active(c) /\ f.pc = "sent" /\ f.pc \notin Recording /\ IsFrame(f)
      /\ UNCHANGED <<at, folder, files, hist, mu, number, begun, passed, late, gone>>
      /\ late \in [Callers -> BOOLEAN]
  BY Tops DEF Answer, Good, Sane, Recording, store, callVars, HistInv, StoreTypes
<1>2. CASE Return(c) /\ UNCHANGED due
  <2>1. UNCHANGED records /\ late' \in [Callers -> BOOLEAN] /\ gone' = gone
    BY <1>1, <1>2 DEF records
  <2> QED
    BY <1>1, <1>2, <2>1, Free, EndsAside
<1>3. ASSUME Outermost(c), Become(c, [f EXCEPT !.pc = "record"]),
             due' = [due EXCEPT ![number[c]] = IF f.steady THEN Lookup(name) ELSE None]
      PROVE  HistInv'
  <2>1. PICK g : g = [f EXCEPT !.pc = "record"]
    OBVIOUS
  <2>2. g.ask = f.ask /\ g.pc = "record"
    <3> HIDE DEF f
    <3> QED
      BY <1>1, <2>1 DEF IsFrame
  <2>3. PICK owed : owed = IF f.steady THEN Lookup(name) ELSE None
    OBVIOUS
  <2>4. number[c] \in 1..MaxCalls /\ number[c] <= begun
    BY <1>1, CallNumber DEF HistInv
  <2>5. name \in Names \cup {None} /\ Len(s) = 1 /\ IsSeq(s)
    <3>1. IsSeq(s) /\ Len(s) = 1
      BY <1>3 DEF Outermost, Good, StackInv
    <3> QED
      BY <3>1 DEF Top, HistInv, Alone
  <2>6. owed \in Items \cup {None}
    BY <2>3, <2>5, LookupType DEF HistInv
  <2>7. due' = [due EXCEPT ![number[c]] = owed]
    BY <1>3, <2>3
  <2>8. PICK t : t = [s EXCEPT ![Len(s)] = g]
    OBVIOUS
  <2>9. stack' = [stack EXCEPT ![c] = t]
    BY <1>3, <2>1, <2>8 DEF Become, Good, StackInv
  <2>10. IsSeq(t) /\ Len(t) = 1 /\ t[1] = g
    <3>1. Len(s) > 0
      BY <2>5
    <3> HIDE DEF s
    <3>2. LastIs(s, g, t)
      BY <2>5, <2>8, <3>1, Replaced
    <3> QED
      BY <2>5, <3>2 DEF LastIs
  <2>11. stack'[c] = t /\ \A d \in Callers : d # c => stack'[d] = stack[d]
    BY <2>9, Others DEF Good
  <2>12. t # <<>> /\ Top(c)' = g
    <3>1. Top(c)' = t[Len(t)]
      BY <2>11 DEF Top
    <3> QED
      BY <2>10, <3>1
  <2>13. \A d \in Callers : (Active(d)' <=> Active(d)) /\ (d # c => Top(d)' = Top(d))
    BY <1>1, <2>11, <2>12 DEF Active, Top
  <2>14. \A x : Lookup(x)' = Lookup(x)
    BY <1>1 DEF Lookup
  <2>15. StoreTypes' /\ Numbered'
    BY <1>1, <2>13 DEF HistInv, StoreTypes, Numbered
  <2>16. Alone'
    BY <2>2, <2>5, <2>10, <2>11 DEF HistInv, Alone
  <2>17. Exclusive'
    BY <1>1, <2>2, <2>12, <2>13, <2>14 DEF HistInv, Exclusive
  <2>18. Listed'
    BY <1>1, <2>13 DEF HistInv, Listed
  <2>19. Owed'
    <3>1. due \in [1..MaxCalls -> Items \cup {None}]
      BY DEF HistInv, Owed
    <3>2. due' \in [1..MaxCalls -> Items \cup {None}] /\ due'[number[c]] = owed
      BY <2>4, <2>6, <2>7, <3>1
    <3>3. \A n \in 1..MaxCalls : n # number[c] => due'[n] = due[n]
      BY <2>7, <3>1
    <3>4. ASSUME NEW n \in 1..MaxCalls, due'[n] # None
          PROVE  /\ n <= begun
                 /\ \/ \E d \in Callers : Active(d)' /\ number[d] = n
                    \/ n \in passed
                    \/ \E m \in 1..Len(hist[due'[n]]) : hist[due'[n]][m] = n
      <4>1. CASE n = number[c]
        BY <4>1, <1>1, <2>4, <2>13
      <4>2. CASE n # number[c]
        BY <4>2, <3>3, <3>4, <2>13 DEF HistInv, Owed
      <4> QED
        BY <4>1, <4>2
    <3>5. ASSUME NEW d \in Callers, Active(d)', due'[number[d]] # None
          PROVE  Top(d)'.pc \in Recording /\ due'[number[d]] = Lookup(Top(d)'.ask.name)
      <4>1. CASE d = c
        <5>1. owed = Lookup(g.ask.name)
          BY <4>1, <3>2, <3>5, <2>2, <2>3
        <5> QED
          BY <4>1, <5>1, <3>2, <2>2, <2>12 DEF Recording
      <4>2. CASE d # c
        <5>1. number[d] \in 1..MaxCalls /\ number[d] # number[c] /\ Active(d)
          BY <4>2, <3>5, <1>1, <2>13, CallNumber DEF HistInv, Numbered
        <5>2. due'[number[d]] = due[number[d]]
          BY <5>1, <3>3
        <5> QED
          BY <4>2, <5>1, <5>2, <3>5, <2>13 DEF HistInv, Owed
      <4> QED
        BY <4>1, <4>2
    <3> QED
      BY <1>1, <2>14, <3>2, <3>4, <3>5 DEF Owed
  <2> QED
    BY <2>15, <2>16, <2>17, <2>18, <2>19 DEF HistInv
<1> QED
  BY <1>2, <1>3 DEF Answer

\* A request that is not found any more is not owed the call.
LEMMA RecordsListed ==
  ASSUME Good, HistInv, NEW c \in Callers, Record(c)
  PROVE  HistInv'
<1> DEFINE f == Top(c)
           s == stack[c]
<1>1. /\ Active(c) /\ f.pc = "record" /\ f.pc \in Recording /\ IsFrame(f) /\ mu = None
      /\ UNCHANGED <<at, folder, files, hist, number, begun, due, passed, late, gone>>
      /\ late \in [Callers -> BOOLEAN]
  BY Tops DEF Record, Reading, Good, Sane, Recording, store, ghosts, callVars, HistInv, StoreTypes
<1>2. IsSeq(s) /\ Len(s) = 1 /\ Len(s) > 0 /\ s[1] = f /\ f.ask.name \in Names \cup {None}
  <2>1. IsSeq(s) /\ Len(s) \in 1..Len(s)
    BY <1>1, ActiveLen DEF Good, StackInv, IsSeq
  <2>2. s[Len(s)] = f
    BY DEF Top
  <2>3. Len(s) = 1 /\ f.ask.name \in Names \cup {None}
    BY <1>1, <2>1, <2>2 DEF HistInv, Alone
  <2> QED
    BY <2>1, <2>2, <2>3
<1>3. PICK item : item = Lookup(f.ask.name)
  OBVIOUS
<1>4. item \in Items \cup {None}
  BY <1>2, <1>3, LookupType DEF HistInv
<1>5. CASE item = None /\ Return(c) /\ UNCHANGED mu
  <2>1. mu # c
    BY <1>1, StartAssumption
  <2>2. due[number[c]] = None
    BY <1>1, <1>3, <1>5 DEF HistInv, Owed
  <2>3. UNCHANGED records /\ late' \in [Callers -> BOOLEAN] /\ gone' = gone
    BY <1>1, <1>5 DEF records
  <2> QED
    BY <1>1, <1>5, <2>1, <2>2, <2>3, EndsAside
<1>6. CASE item # None /\ Become(c, [f EXCEPT !.pc = "append", !.read = hist[item]]) /\ mu' = c
  <2>1. PICK read : read = hist[item]
    OBVIOUS
  <2>2. PICK g : g = [f EXCEPT !.pc = "append", !.read = read]
    OBVIOUS
  <2>3. g.ask = f.ask /\ g.pc = "append" /\ g.read = read
    <3> HIDE DEF f
    <3> QED
      BY <1>1, <2>2 DEF IsFrame
  <2>4. PICK t : t = [s EXCEPT ![Len(s)] = g]
    OBVIOUS
  <2>5. stack' = [stack EXCEPT ![c] = t]
    BY <1>6, <2>1, <2>2, <2>4 DEF Become, Good, StackInv
  <2>6. IsSeq(t) /\ Len(t) = 1 /\ t[1] = g
    <3> HIDE DEF s
    <3>1. LastIs(s, g, t)
      BY <1>2, <2>4, Replaced
    <3> QED
      BY <1>2, <3>1 DEF LastIs
  <2>7. stack'[c] = t /\ \A d \in Callers : d # c => stack'[d] = stack[d]
    BY <2>5, Others DEF Good
  <2>8. t # <<>> /\ Top(c)' = g
    <3>1. Top(c)' = t[Len(t)]
      BY <2>7 DEF Top
    <3> QED
      BY <2>6, <3>1
  <2>9. \A d \in Callers : (Active(d)' <=> Active(d)) /\ (d # c => Top(d)' = Top(d))
    BY <1>1, <2>7, <2>8 DEF Active, Top
  <2>10. \A x : Lookup(x)' = Lookup(x)
    BY <1>1 DEF Lookup
  <2>11. StoreTypes' /\ Numbered'
    BY <1>1, <2>9 DEF HistInv, StoreTypes, Numbered
  <2>12. Alone'
    BY <1>2, <2>3, <2>6, <2>7 DEF HistInv, Alone
  <2>13. Exclusive'
    <3>1. mu' = c /\ mu' \in Callers
      BY <1>6
    <3>2. \A d \in Callers : d # c => ~(Active(d)' /\ Top(d)'.pc = "append")
      BY <1>1, <2>9, StartAssumption DEF HistInv, Exclusive
    <3>3. Active(c)' /\ Top(c)'.pc = "append"
      BY <1>1, <2>3, <2>8, <2>9
    <3>4. Lookup(Top(c).ask.name)' = item
      BY <1>3, <2>3, <2>8, <2>10
    <3>5. item \in Items /\ Top(c)'.read = hist'[item]
      BY <1>1, <1>4, <1>6, <2>1, <2>3, <2>8
    <3> QED
      BY <3>1, <3>2, <3>3, <3>4, <3>5 DEF Exclusive
  <2>14. Listed'
    BY <1>1, <2>9 DEF HistInv, Listed
  <2>15. Owed'
    <3>1. ASSUME NEW d \in Callers, Active(d)', due[number[d]] # None
          PROVE  Top(d)'.pc \in Recording /\ due[number[d]] = Lookup(Top(d)'.ask.name)
      <4>1. Top(d).pc \in Recording /\ due[number[d]] = Lookup(Top(d).ask.name)
        BY <3>1, <2>9 DEF HistInv, Owed
      <4>2. CASE d = c
        BY <4>1, <4>2, <2>3, <2>8 DEF Recording
      <4>3. CASE d # c
        BY <4>1, <4>3, <2>9
      <4> QED
        BY <4>2, <4>3
    <3> QED
      BY <1>1, <2>9, <2>10, <3>1 DEF HistInv, Owed
  <2> QED
    BY <2>11, <2>12, <2>13, <2>14, <2>15 DEF HistInv
<1> QED
  BY <1>3, <1>5, <1>6 DEF Record

\* The newest entries are the last ones: all, or all but the first.
Trimmed(S, h, x, e, w, k) ==
  /\ w \in Seq(S)
  /\ Len(w) = Len(h) + 1 - k /\ Len(w) <= Limit
  /\ \A m \in 1..Len(w) : w[m] = IF m + k = Len(h) + 1 THEN x ELSE h[m + k]
  /\ k = 0 <=> ~(Len(e) > Limit)
  /\ k = 1 => Len(h) > 0 /\ e[1] = h[1]

LEMMA NewestOf ==
  ASSUME NEW S, NEW h, h \in Seq(S), Len(h) <= Limit, NEW x, x \in S, NEW e, e = Append(h, x)
  PROVE  \E k \in {0, 1} : Trimmed(S, h, x, e, Newest(e), k)
<1>1. e \in Seq(S) /\ Len(e) = Len(h) + 1 /\ Len(h) \in Nat /\ Limit \in Nat \ {0}
  BY DepthAssumption
<1>2. \A m \in 1..Len(e) : e[m] = IF m = Len(h) + 1 THEN x ELSE h[m]
  OBVIOUS
<1>3. PICK k \in {0, 1} : k = IF Len(e) > Limit THEN 1 ELSE 0
  OBVIOUS
<1>4. Newest(e) = SubSeq(e, k + 1, Len(e))
  <2>1. CASE Len(e) > Limit
    <3>1. Len(e) - Limit + 1 = k + 1
      BY <1>1, <1>3, <2>1
    <3> QED
      BY <2>1, <3>1 DEF Newest
  <2>2. CASE ~(Len(e) > Limit)
    <3>1. k + 1 = 1
      BY <1>3, <2>2
    <3> QED
      BY <2>2, <3>1 DEF Newest
  <2> QED
    BY <2>1, <2>2
<1>5. PICK w : w = SubSeq(e, k + 1, Len(e))
  OBVIOUS
<1>6. w \in Seq(S) /\ Len(w) = Len(e) - k /\ \A m \in 1..Len(w) : w[m] = e[m + k]
  BY <1>1, <1>5
<1>7. k = 1 => Len(h) > 0 /\ e[1] = h[1]
  BY <1>1, <1>2, <1>3
<1>8. \A m \in 1..Len(w) : w[m] = IF m + k = Len(h) + 1 THEN x ELSE h[m + k]
  <2> TAKE m \in 1..Len(w)
  <2>1. m + k \in 1..Len(e)
    BY <1>1, <1>6
  <2> QED
    BY <1>2, <1>6, <2>1
<1>9. Len(w) <= Limit /\ Len(w) = Len(h) + 1 - k
  BY <1>1, <1>3, <1>6
<1> QED
  BY <1>3, <1>4, <1>5, <1>6, <1>7, <1>8, <1>9 DEF Trimmed

\* What is written back is what was read and the call, which ends with it: what
\* no longer fits has been passed.
LEMMA AppendsListed ==
  ASSUME Good, HistInv, NEW c \in Callers, AppendHistory(c)
  PROVE  HistInv'
<1> DEFINE f == Top(c)
           s == stack[c]
<1>1. /\ Active(c) /\ f.pc = "append" /\ f.pc \in Recording /\ mu' = None /\ Return(c)
      /\ UNCHANGED <<at, folder, files, late, gone, number, begun, due>>
  BY DEF AppendHistory, Recording, store, callVars
<1>2. mu = c
  BY <1>1 DEF HistInv, Exclusive
<1>3. PICK item : item = Lookup(f.ask.name)
  OBVIOUS
<1>4. item \in Items /\ f.read = hist[item]
  BY <1>2, <1>3 DEF HistInv, Exclusive
<1>5. PICK h, x, e : h = hist[item] /\ x = number[c] /\ e = Append(h, x)
  OBVIOUS
<1>6. h \in Seq(1..MaxCalls) /\ Len(h) <= Limit /\ x \in 1..MaxCalls /\ x <= begun
  BY <1>1, <1>4, <1>5, CallNumber DEF HistInv, Listed
<1>7. /\ hist' = [hist EXCEPT ![item] = Newest(e)]
      /\ passed' = passed \cup { n \in 1..MaxCalls : Len(e) > Limit /\ n = e[1] }
  BY <1>3, <1>4, <1>5 DEF AppendHistory
<1>8. PICK w : w = Newest(e)
  OBVIOUS
<1>9. PICK k \in {0, 1} :
        /\ w \in Seq(1..MaxCalls)
        /\ Len(w) = Len(h) + 1 - k /\ Len(w) <= Limit
        /\ \A m \in 1..Len(w) : w[m] = IF m + k = Len(h) + 1 THEN x ELSE h[m + k]
        /\ k = 0 <=> ~(Len(e) > Limit)
        /\ k = 1 => Len(h) > 0 /\ e[1] = h[1]
  <2>1. PICK S : S = 1..MaxCalls
    OBVIOUS
  <2>2. h \in Seq(S) /\ x \in S /\ Len(h) <= Limit /\ e = Append(h, x)
    BY <1>5, <1>6, <2>1
  <2>3. \E k \in {0, 1} : Trimmed(S, h, x, e, Newest(e), k)
    BY <2>2, NewestOf
  <2> QED
    BY <1>8, <2>1, <2>3 DEF Trimmed
<1>10. Len(h) \in Nat /\ Len(w) \in Nat
  BY <1>6, <1>9
<1>11. hist'[item] = w /\ \A i \in Items : i # item => hist'[i] = hist[i]
  BY <1>4, <1>7, <1>8 DEF HistInv, Listed
<1>12. hist' \in [Items -> Seq(1..MaxCalls)]
  BY <1>4, <1>7, <1>8, <1>9 DEF HistInv, Listed
<1>13. stack'[c] = <<>> /\ ~Active(c)'
  <2>1. IsSeq(s) /\ Len(s) \in 1..Len(s)
    BY <1>1, ActiveLen DEF Good, StackInv, IsSeq
  <2>2. Len(s) = 1 /\ Len(s) > 0
    BY <1>1, <2>1 DEF Top, HistInv, Alone
  <2>3. PICK t : t = SubSeq(s, 1, Len(s) - 1)
    OBVIOUS
  <2>4. stack' = [stack EXCEPT ![c] = t]
    BY <1>1, <2>3 DEF Return
  <2>5. stack'[c] = t
    BY <2>4, Others DEF Good
  <2> HIDE DEF s
  <2>6. IsSeq(t) /\ Len(t) = Len(s) - 1
    <3>1. Shorter(s, t)
      BY <2>1, <2>2, <2>3, Popped
    <3> QED
      BY <3>1 DEF Shorter
  <2>7. t = <<>>
    BY <2>2, <2>6, EmptySeq
  <2> QED
    BY <2>5, <2>7 DEF Active
<1>14. \A d \in Callers : d # c => stack'[d] = stack[d]
  <2>1. PICK t : t = SubSeq(s, 1, Len(s) - 1)
    OBVIOUS
  <2>2. stack' = [stack EXCEPT ![c] = t]
    BY <1>1, <2>1 DEF Return
  <2> QED
    BY <2>2, Others DEF Good
<1>15. \A d \in Callers : d # c => (Active(d)' <=> Active(d)) /\ Top(d)' = Top(d)
  BY <1>14 DEF Active, Top
<1>16. \A name : Lookup(name)' = Lookup(name)
  BY <1>1 DEF Lookup
\* Every entry is the call or an old one, and an old one is of no active call.
<1>17. ASSUME NEW m \in 1..Len(w)
       PROVE  \/ m + k = Len(h) + 1 /\ w[m] = x
              \/ m + k \in 1..Len(h) /\ w[m] = h[m + k]
  BY <1>9, <1>10
<1>18. ASSUME NEW m \in 1..Len(h)
       PROVE  h[m] <= begun /\ (\A d \in Callers : Active(d) => number[d] # h[m])
  BY <1>4, <1>5 DEF HistInv, Listed
<1>19. \A m, n \in 1..Len(h) : h[m] = h[n] => m = n
  BY <1>4, <1>5 DEF HistInv, Listed
<1>20. StoreTypes' /\ Numbered' /\ Alone'
  <2>1. StoreTypes'
    BY <1>1 DEF HistInv, StoreTypes
  <2>2. \A d \in Callers : Active(d)' => Active(d) /\ d # c
    BY <1>13, <1>15
  <2>3. Numbered'
    BY <1>1, <2>2 DEF HistInv, Numbered
  <2>4. 1..Len(stack'[c]) = {}
    BY <1>13
  <2>5. Alone'
    BY <1>14, <2>4 DEF HistInv, Alone
  <2> QED
    BY <2>1, <2>3, <2>5
<1>21. Exclusive'
  <2>1. \A d \in Callers : ~(Active(d)' /\ Top(d)'.pc = "append")
    <3>1. ASSUME NEW d \in Callers, d # c PROVE ~(Active(d) /\ Top(d).pc = "append")
      BY <1>2, <3>1 DEF HistInv, Exclusive
    <3> QED
      BY <1>13, <1>15, <3>1
  <2>2. \A d \in Callers : mu' # d
    BY <1>1, StartAssumption
  <2> QED
    BY <1>1, <2>1, <2>2 DEF Exclusive
<1>22. Listed'
  <2> SUFFICES ASSUME NEW i \in Items
               PROVE  /\ Len(hist'[i]) <= Limit
                      /\ \A m \in 1..Len(hist'[i]) :
                           hist'[i][m] <= begun /\ \A d \in Callers : Active(d)' => number[d] # hist'[i][m]
                      /\ \A m, n \in 1..Len(hist'[i]) : hist'[i][m] = hist'[i][n] => m = n
    BY <1>1, <1>12 DEF Listed
  <2>1. CASE i # item
    BY <2>1, <1>11, <1>13, <1>15 DEF HistInv, Listed
  <2>2. CASE i = item
    <3>1. ASSUME NEW m \in 1..Len(w)
          PROVE  w[m] <= begun /\ \A d \in Callers : Active(d)' => number[d] # w[m]
      <4>1. CASE w[m] = x
        BY <4>1, <1>1, <1>5, <1>6, <1>13, <1>15 DEF HistInv, Numbered
      <4>2. CASE m + k \in 1..Len(h) /\ w[m] = h[m + k]
        BY <4>2, <1>13, <1>15, <1>18
      <4> QED
        BY <4>1, <4>2, <1>17
    <3>2. ASSUME NEW m \in 1..Len(w), NEW n \in 1..Len(w), w[m] = w[n]
          PROVE  m = n
      <4>1. \A l \in 1..Len(h) : h[l] # x
        BY <1>1, <1>5, <1>18
      <4>2. m + k = n + k
        BY <3>2, <4>1, <1>17, <1>19
      <4> QED
        BY <4>2
    <3> QED
      BY <2>2, <3>1, <3>2, <1>9, <1>11
  <2> QED
    BY <2>1, <2>2
<1>23. Owed'
  <2>1. due' = due /\ due \in [1..MaxCalls -> Items \cup {None}]
    BY <1>1 DEF HistInv, Owed
  <2>2. ASSUME NEW n \in 1..MaxCalls, due[n] # None
        PROVE  /\ n <= begun
               /\ \/ \E d \in Callers : Active(d)' /\ number[d] = n
                  \/ n \in passed'
                  \/ \E m \in 1..Len(hist'[due[n]]) : hist'[due[n]][m] = n
    <3>1. n <= begun
      BY <2>2 DEF HistInv, Owed
    <3>2. CASE n = x
      <4>1. due[n] = item
        BY <3>2, <2>2, <1>1, <1>3, <1>5 DEF HistInv, Owed
      <4>2. Len(w) \in 1..Len(w) /\ w[Len(w)] = x
        <5>1. Len(w) + k = Len(h) + 1
          BY <1>9, <1>10
        <5>2. Len(w) > 0
          BY <1>9, <1>10
        <5> QED
          BY <5>1, <5>2, <1>9, <1>10
      <4> QED
        BY <3>1, <3>2, <4>1, <4>2, <1>11
    <3>3. CASE n # x /\ \E d \in Callers : Active(d) /\ number[d] = n
      BY <3>1, <3>3, <1>5, <1>15
    <3>4. CASE n \in passed
      BY <3>1, <3>4, <1>7
    <3>5. ASSUME NEW m \in 1..Len(hist[due[n]]), hist[due[n]][m] = n
          PROVE  n \in passed' \/ \E l \in 1..Len(hist'[due[n]]) : hist'[due[n]][l] = n
      <4>1. CASE due[n] # item
        <5>1. due[n] \in Items
          BY <2>1, <2>2
        <5> QED
          BY <3>5, <4>1, <5>1, <1>11
      <4>2. CASE due[n] = item
        <5>1. m \in 1..Len(h) /\ h[m] = n
          BY <3>5, <4>2, <1>5
        <5>2. CASE k = 1 /\ m = 1
          BY <5>1, <5>2, <1>7, <1>9
        <5>3. CASE ~(k = 1 /\ m = 1)
          <6>1. m - k \in 1..Len(w) /\ (m - k) + k = m /\ m # Len(h) + 1
            BY <5>1, <5>3, <1>9, <1>10
          <6>2. w[m - k] = n
            BY <5>1, <6>1, <1>9
          <6> QED
            BY <4>2, <6>1, <6>2, <1>11
        <5> QED
          BY <5>2, <5>3
      <4> QED
        BY <4>1, <4>2
    <3> QED
      BY <2>2, <3>1, <3>2, <3>3, <3>4, <3>5 DEF HistInv, Owed
  <2>3. \A d \in Callers : Active(d)' /\ due[number[d]] # None =>
          Top(d)'.pc \in Recording /\ due[number[d]] = Lookup(Top(d)'.ask.name)
    BY <1>13, <1>15 DEF HistInv, Owed
  <2> QED
    BY <1>1, <1>16, <2>1, <2>2, <2>3 DEF Owed
<1> QED
  BY <1>20, <1>21, <1>22, <1>23 DEF HistInv
------------------------------------------------------------------------------
LEMMA StepLists ==
  ASSUME Good, HistInv, [Next]_vars
  PROVE  HistInv'
<1>1. ASSUME NEW c \in Callers, Step(c) PROVE HistInv'
  <2>1. CASE Resolve(c) \/ ReadFolders(c) \/ ReadAttached(c) \/ Send(c)
    BY <2>1, ResolvesAside, FoldersAside, AttachedAside, SendsAside
  <2>2. CASE Answer(c) \/ Record(c) \/ AppendHistory(c)
    BY <2>2, AnswersListed, RecordsListed, AppendsListed
  <2>3. CASE StartScript(c) \/ ScriptYields(c) \/ ScriptTraps(c)
    BY <2>3, StartsAside, YieldsAside, TrapsAside
  <2>4. CASE ScriptFails(c)
    BY <2>4, FailsAside DEF ScriptFails
  <2>5. CASE Deadline(c) \/ HangUp(c)
    BY <2>5, OthersAside
  <2> QED
    BY <1>1, <2>1, <2>2, <2>3, <2>4, <2>5 DEF Step
<1>2. ASSUME NEW c \in Callers, NEW q \in Asks, Begin(c, q) PROVE HistInv'
  BY <1>2, BeginsListed
<1>3. ASSUME NEW c \in Callers, NEW name \in Names, ScriptInvokes(c, name) PROVE HistInv'
  BY <1>3, InvokesAside
<1>4. CASE CloseEngine \/ UNCHANGED vars
  BY <1>4, OthersAside
<1>5. CASE Edit
  BY <1>5, EditsListed
<1> QED
  BY <1>1, <1>2, <1>3, <1>4, <1>5 DEF Next

LEMMA StartsListed == Init => HistInv
<1> SUFFICES ASSUME Init PROVE HistInv
  OBVIOUS
<1>1. \A c \in Callers : ~Active(c) /\ stack[c] = <<>> /\ 1..Len(stack[c]) = {}
  BY DEF Init, Active
<1>2. StoreTypes
  BY StartAssumption DEF Init, StoreTypes
<1>3. Numbered /\ Alone
  BY <1>1, DepthAssumption DEF Init, Numbered, Alone
<1>4. Exclusive
  BY <1>1, StartAssumption DEF Init, Exclusive
<1>5. Listed
  <2>1. \A i \in Items : hist[i] = <<>>
    BY DEF Init
  <2>2. \A i \in Items : Len(hist[i]) = 0 /\ 1..Len(hist[i]) = {}
    BY <2>1
  <2>3. hist \in [Items -> Seq(1..MaxCalls)]
    BY DEF Init
  <2> QED
    BY <1>1, <2>2, <2>3, DepthAssumption DEF Listed
<1>6. Owed
  BY <1>1 DEF Init, Owed
<1> QED
  BY <1>2, <1>3, <1>4, <1>5, <1>6 DEF HistInv

LEMMA ListedIsExact ==
  ASSUME Good, HistInv
  PROVE  HistoryExact
<1>1. \A i \in Items : DOMAIN hist[i] = 1..Len(hist[i])
  <2> TAKE i \in Items
  <2>1. hist[i] \in Seq(1..MaxCalls)
    BY DEF HistInv, Listed
  <2> QED
    BY <2>1
<1>2. \A c \in Callers : DOMAIN stack[c] = 1..Len(stack[c])
  BY SeqOf DEF Good, StackInv
<1>3. TypeOK
  <2>1. \A i \in Items : Len(hist[i]) <= Limit /\ \A n \in DOMAIN hist[i] : hist[i][n] \in 1..MaxCalls
    BY <1>1, Entry DEF HistInv, Listed
  <2>2. \A c \in Callers : /\ Len(stack[c]) <= MaxDepth + 1
                           /\ \A n \in DOMAIN stack[c] : stack[c][n].run \in Instances \cup {None, OwnInstance}
    BY <1>2 DEF Good, StackInv, Sane
  <2>3. number \in [Callers -> 0..MaxCalls]
    BY DepthAssumption DEF HistInv, Numbered
  <2> QED
    BY <2>1, <2>2, <2>3 DEF TypeOK, HistInv, StoreTypes, Exclusive
<1>4. ASSUME NEW n \in 1..MaxCalls, Finished(n), due[n] # None
      PROVE  n \in passed \/ \E m \in DOMAIN hist[due[n]] : hist[due[n]][m] = n
  <2>1. due[n] \in Items
    BY <1>4 DEF HistInv, Owed
  <2> QED
    BY <1>1, <1>4, <2>1 DEF Finished, HistInv, Owed
<1>5. \A i \in Items : \A m, n \in DOMAIN hist[i] : hist[i][m] = hist[i][n] => m = n
  BY <1>1 DEF HistInv, Listed
<1> QED
  BY <1>3, <1>4, <1>5 DEF HistoryExact

\* For any number of callers and calls, at any depth of their scripts and for any
\* limit: a call whose answer was to be recorded, and whose request nobody moved,
\* is in that request's history until newer ones push it out, and in no history
\* twice (recordHistory, AppendHistory).
THEOREM HistoryCorrect == Spec => []HistoryExact
<1>1. Init => Good /\ HistInv
  BY StartsGood, StartsListed
<1>2. Good /\ HistInv /\ [Next]_vars => (Good /\ HistInv)'
  BY StepKeeps, StepLists
<1>3. Good /\ HistInv => HistoryExact
  BY ListedIsExact
<1> QED
  BY <1>1, <1>2, <1>3, PTL DEF Spec

-----------------------------------------------------------------------------
(* What is sent.  First the numbers: least and greatest elements, and ranks.    *)

LEMMA LeastNumber ==
  ASSUME NEW T \in SUBSET Nat, T # {}
  PROVE  \E x \in T : \A y \in T : x <= y
<1> DEFINE Less == OpToRel(<, Nat)
<1>1. IsWellFoundedOn(Less, Nat)
  BY NatLessThanWellFounded
<1>2. \A x, y \in Nat : <<x, y>> \in Less <=> x < y
  BY DEF OpToRel
<1> HIDE DEF Less
<1>3. PICK x \in T : \A y \in T : <<y, x>> \notin Less
  BY <1>1, WFMin
<1>4. ASSUME NEW y \in T PROVE x <= y
  <2>1. x \in Nat /\ y \in Nat /\ ~(y < x)
    BY <1>2, <1>3
  <2> QED
    BY <2>1
<1> QED
  BY <1>4

LEMMA GreatestNumber ==
  ASSUME NEW i \in Nat, NEW S \in SUBSET (1..i), S # {}
  PROVE  Max(S) \in S /\ Max(S) \in 1..i /\ \A y \in S : y <= Max(S)
<1> DEFINE T == {i - x : x \in S}
<1>1. T \in SUBSET Nat /\ T # {}
  <2>1. ASSUME NEW x \in S PROVE i - x \in Nat
    <3>1. x \in 1..i
      OBVIOUS
    <3> QED
      BY <3>1
  <2>2. \A t \in T : t \in Nat
    BY <2>1
  <2>3. PICK x : x \in S
    OBVIOUS
  <2>4. i - x \in T
    BY <2>3
  <2> HIDE DEF T
  <2> QED
    BY <2>2, <2>4
<1>2. PICK z \in T : \A y \in T : z <= y
  BY <1>1, LeastNumber
<1>3. PICK x \in S : z = i - x
  OBVIOUS
<1>4. ASSUME NEW y \in S PROVE x >= y
  <2>1. z <= i - y
    BY <1>2
  <2> QED
    BY <1>3, <2>1
<1>5. \E m \in S : \A y \in S : m >= y
  BY <1>4
<1>6. Max(S) \in S /\ \A y \in S : Max(S) >= y
  BY <1>5 DEF Max
<1> QED
  BY <1>6

Lower(S, x) == {y \in S : y < x}

\* Of a finite set of numbers there is one with any number of lower ones.
LEMMA Ranked ==
  ASSUME NEW S \in SUBSET Nat, IsFiniteSet(S), NEW k \in 1..Cardinality(S)
  PROVE  \E x \in S : Cardinality(Lower(S, x)) = k - 1
<1> DEFINE R(x) == Cardinality(Lower(S, x))
<1>0. Cardinality(S) \in Nat
  BY FS_CardinalityType
<1>1. \A x \in S : IsFiniteSet(Lower(S, x)) /\ R(x) \in Nat
  BY FS_Subset, FS_CardinalityType DEF Lower
<1>2. ASSUME NEW x \in S, NEW y \in S, x < y PROVE R(x) < R(y)
  <2>1. Lower(S, x) \subseteq Lower(S, y) /\ x \in Lower(S, y) /\ x \notin Lower(S, x)
    <3>1. x \in Nat /\ y \in Nat
      OBVIOUS
    <3>2. ASSUME NEW z \in Lower(S, x) PROVE z \in Lower(S, y)
      <4>1. z \in Nat /\ z \in S /\ z < x
        BY DEF Lower
      <4> QED
        BY <1>2, <3>1, <4>1 DEF Lower
    <3>3. ~(x < x)
      BY <3>1
    <3> QED
      BY <1>2, <3>2, <3>3 DEF Lower
  <2>2. Lower(S, x) \in SUBSET Lower(S, y) /\ Lower(S, x) # Lower(S, y)
    BY <2>1
  <2>3. R(x) <= R(y) /\ R(x) # R(y)
    BY <1>1, <2>2, FS_Subset
  <2> QED
    BY <1>1, <2>3
<1>3. ASSUME NEW x \in S PROVE R(x) \in 0..(Cardinality(S) - 1)
  <2>1. Lower(S, x) \in SUBSET S /\ Lower(S, x) # S
    BY DEF Lower
  <2>2. R(x) <= Cardinality(S) /\ R(x) # Cardinality(S)
    BY <2>1, FS_Subset
  <2> QED
    BY <1>0, <1>1, <2>2
<1> DEFINE f == [x \in S |-> R(x)]
           T == 0..(Cardinality(S) - 1)
<1>4. f \in Injection(S, T)
  <2>1. ASSUME NEW x \in S, NEW y \in S, R(x) = R(y) PROVE x = y
    <3>1. ~(x < y) /\ ~(y < x)
      BY <1>1, <1>2, <2>1
    <3> QED
      BY <3>1
  <2> HIDE DEF R
  <2> QED
    BY <1>3, <2>1 DEF Injection, IsInjective
<1>5. IsFiniteSet(T) /\ Cardinality(T) = Cardinality(S)
  <2>1. 0 \in Int /\ Cardinality(S) - 1 \in Int
    BY <1>0
  <2>2. IsFiniteSet(T) /\ Cardinality(T) = IF 0 > Cardinality(S) - 1 THEN 0 ELSE (Cardinality(S) - 1) - 0 + 1
    BY <2>1, FS_Interval
  <2> QED
    BY <1>0, <2>2
<1>6. f \in Surjection(S, T)
  <2> HIDE DEF f, T
  <2> QED
    BY <1>4, <1>5, FS_Injection
<1>7. k - 1 \in T
  BY <1>0
<1> HIDE DEF T, R
<1>8. \E x \in S : f[x] = k - 1
  BY <1>6, <1>7 DEF Surjection
<1> QED
  BY <1>8 DEF R

-----------------------------------------------------------------------------
(* The metadata of a chain of folders.                                          *)

IsChain(chain) == IsSeq(chain) /\ \A n \in 1..Len(chain) : IsScript(chain[n])

LEMMA SeqDomain ==
  ASSUME NEW s, IsSeq(s)
  PROVE  DOMAIN s = 1..Len(s) /\ Len(s) \in Nat
BY SeqOf DEF IsSeq

\* The folders that have a script, in their order.
LEMMA ChainOfScripts == IsChain(ScriptChain)
<1> DEFINE having == {n \in DOMAIN FolderScripts : FolderScripts[n] # NoScript}
           Pick(k) == CHOOSE n \in having : Cardinality({m \in having : m < n}) = k - 1
           N == Cardinality(having)
<1>1. DOMAIN FolderScripts = 1..Len(FolderScripts) /\ Len(FolderScripts) \in Nat
  BY ScriptsAssumption
<1>2. IsFiniteSet(having) /\ having \in SUBSET Nat /\ N \in Nat
  <2> DEFINE all == 1..Len(FolderScripts)
  <2>1. IsFiniteSet(all)
    <3>1. 1 \in Int /\ Len(FolderScripts) \in Int
      BY <1>1
    <3> QED
      BY <3>1, FS_Interval
  <2>2. having \in SUBSET all /\ all \subseteq Nat
    BY <1>1
  <2> HIDE DEF having, all
  <2>3. IsFiniteSet(having)
    BY <2>1, <2>2, FS_Subset
  <2>4. Cardinality(having) \in Nat
    BY <2>3, FS_CardinalityType
  <2> QED
    BY <2>2, <2>3, <2>4 DEF N
<1>3. ASSUME NEW k \in 1..N PROVE Pick(k) \in having
  <2>1. \E n \in having : Cardinality(Lower(having, n)) = k - 1
    <3> HIDE DEF having
    <3> QED
      BY <1>2, Ranked
  <2>2. \E n \in having : Cardinality({m \in having : m < n}) = k - 1
    BY <2>1 DEF Lower
  <2> HIDE DEF having
  <2> QED
    BY <2>2
<1>4. ASSUME NEW n \in having PROVE IsScript(FolderScripts[n])
  BY ScriptsAssumption
<1>5. ScriptChain = [k \in 1..N |-> FolderScripts[Pick(k)]]
  BY DEF ScriptChain
<1> DEFINE S == {FolderScripts[n] : n \in having}
<1> HIDE DEF having, Pick, N
<1>6. ScriptChain \in [1..N -> S]
  BY <1>3, <1>5
<1>7. ScriptChain \in Seq(S) /\ Len(ScriptChain) = N
  BY <1>2, <1>6
<1> QED
  BY <1>3, <1>4, <1>5, <1>7, IsSeqOf DEF IsChain

LEMMA EmptyChain == IsChain(<<>>) /\ Len(<<>>) = 0
<1>1. <<>> \in Seq({}) /\ Len(<<>>) = 0
  OBVIOUS
<1>2. IsSeq(<<>>)
  BY <1>1, IsSeqOf
<1>3. 1..Len(<<>>) = {}
  BY <1>1
<1> QED
  BY <1>1, <1>2, <1>3 DEF IsChain

\* Inherited, of the first i of the chain.
Setting(chain, i, k) == {n \in 1..i : k \in DOMAIN chain[n].sets}
Last(S) == IF S = {} THEN 0 ELSE Max(S)
CutOff(chain, i, l) == \E n \in 1..i : n > l /\ ~chain[n].spreads
Upto(chain, i, k) ==
  IF Setting(chain, i, k) = {} \/ CutOff(chain, i, Last(Setting(chain, i, k))) THEN <<>>
  ELSE chain[Last(Setting(chain, i, k))].sets[k]
InheritedBy(chain, i) == [k \in Keys |-> Upto(chain, i, k)]

LEMMA UptoAll ==
  ASSUME NEW chain, IsChain(chain), NEW k
  PROVE  Upto(chain, Len(chain), k) = Inherited(chain, k)
<1>1. DOMAIN chain = 1..Len(chain)
  BY SeqDomain DEF IsChain
<1> QED
  BY <1>1 DEF Upto, Setting, Last, CutOff, Inherited

LEMMA UptoNone ==
  ASSUME NEW chain
  PROVE  InheritedBy(chain, 0) = Nothing
<1>1. \A k : Setting(chain, 0, k) = {}
  BY DEF Setting
<1> QED
  BY <1>1 DEF Upto, InheritedBy, Nothing

LEMMA UptoSame ==
  ASSUME NEW chain, NEW d, NEW i \in Nat, \A n \in 1..i : chain[n] = d[n]
  PROVE  InheritedBy(chain, i) = InheritedBy(d, i)
<1>1. \A k : Setting(chain, i, k) = Setting(d, i, k)
  BY DEF Setting
<1>2. \A l : CutOff(chain, i, l) <=> CutOff(d, i, l)
  BY DEF CutOff
<1>3. ASSUME NEW k PROVE Upto(chain, i, k) = Upto(d, i, k)
  <2> DEFINE S == Setting(chain, i, k)
  <2>1. S = Setting(d, i, k) /\ S \in SUBSET (1..i)
    BY <1>1 DEF Setting
  <2>2. CASE S = {}
    BY <2>1, <2>2 DEF Upto
  <2>3. CASE S # {}
    <3>1. Last(S) \in 1..i
      <4> HIDE DEF S
      <4> QED
        BY <2>1, <2>3, GreatestNumber DEF Last
    <3> HIDE DEF S
    <3> QED
      BY <1>2, <2>1, <2>3, <3>1 DEF Upto, S
  <2> QED
    BY <2>2, <2>3
<1> QED
  BY <1>3 DEF InheritedBy

\* One script more: what it returns.
LEMMA OneScript ==
  ASSUME NEW chain, IsChain(chain), NEW i \in 1..Len(chain)
  PROVE  Result(chain[i], InheritedBy(chain, i - 1)) = InheritedBy(chain, i)
<1>1. Len(chain) \in Nat /\ i \in Nat /\ i - 1 \in Nat /\ chain[i].spreads \in BOOLEAN
      /\ \A n \in 1..i : chain[n].spreads \in BOOLEAN
  BY DEF IsChain, IsSeq, IsScript
<1>2. ASSUME NEW k \in Keys
      PROVE  Upto(chain, i, k) = IF k \in DOMAIN chain[i].sets THEN chain[i].sets[k]
                                 ELSE IF chain[i].spreads THEN Upto(chain, i - 1, k) ELSE <<>>
  <2> DEFINE S == Setting(chain, i, k)
             T == Setting(chain, i - 1, k)
  <2>1. S \in SUBSET (1..i) /\ T \in SUBSET (1..i - 1)
    BY DEF Setting
  <2>2. CASE k \in DOMAIN chain[i].sets
    <3>1. i \in S
      BY <1>1, <2>2 DEF Setting
    <3>2. Last(S) = i
      <4> HIDE DEF S
      <4>1. Max(S) \in 1..i /\ i <= Max(S)
        BY <1>1, <2>1, <3>1, GreatestNumber
      <4> QED
        BY <1>1, <3>1, <4>1 DEF Last
    <3>3. ~CutOff(chain, i, i)
      BY <1>1 DEF CutOff
    <3> QED
      BY <2>2, <3>1, <3>2, <3>3 DEF Upto
  <2>3. CASE k \notin DOMAIN chain[i].sets
    <3>1. S = T
      BY <1>1, <2>3 DEF Setting
    <3>2. Last(T) \in 0..(i - 1)
      <4>1. T # {} => Max(T) \in 1..(i - 1)
        <5> HIDE DEF T
        <5> QED
          BY <1>1, <2>1, GreatestNumber
      <4> QED
        BY <1>1, <4>1 DEF Last
    <3>3. CutOff(chain, i, Last(T)) <=> CutOff(chain, i - 1, Last(T)) \/ ~chain[i].spreads
      <4> DEFINE l == Last(T)
      <4>1. l \in 0..(i - 1)
        BY <3>2
      <4> HIDE DEF l
      <4>2. CutOff(chain, i, l) <=> CutOff(chain, i - 1, l) \/ ~chain[i].spreads
        BY <1>1, <4>1 DEF CutOff
      <4> QED
        BY <4>2 DEF l
    <3> HIDE DEF S, T
    <3>4. Upto(chain, i, k) = IF T = {} \/ CutOff(chain, i, Last(T)) THEN <<>> ELSE chain[Last(T)].sets[k]
      BY <3>1 DEF Upto, S
    <3>5. Upto(chain, i - 1, k) = IF T = {} \/ CutOff(chain, i - 1, Last(T)) THEN <<>> ELSE chain[Last(T)].sets[k]
      BY DEF Upto, T
    <3> QED
      BY <2>3, <3>3, <3>4, <3>5
  <2> QED
    BY <2>2, <2>3
<1> QED
  BY <1>2 DEF Result, InheritedBy

\* What the folders give, and what the request's own script or the caller makes of it.
LEMMA IntendedIs ==
  ASSUME NEW chain, IsChain(chain), NEW own, NEW explicit
  PROVE  /\ own = NoScript =>
              Under(explicit, InheritedBy(chain, Len(chain))) = Intended(chain, own, explicit)
         /\ own # NoScript /\ IsScript(own) =>
              Result(own, InheritedBy(chain, Len(chain))) = Intended(chain, own, explicit)
<1>1. CASE own = NoScript
  BY <1>1, UptoAll DEF Under, Intended, InheritedBy
<1>2. CASE own # NoScript /\ IsScript(own)
  <2>1. PICK d : d = Append(chain, own)
    OBVIOUS
  <2>2. Longer(chain, own, d)
    BY <2>1, Pushed DEF IsChain
  <2>3. Len(chain) \in Nat /\ Len(d) = Len(chain) + 1 /\ IsSeq(d)
    BY <2>2 DEF Longer, IsChain, IsSeq
  <2>4. IsChain(d)
    BY <1>2, <2>2, <2>3 DEF Longer, IsChain
  <2>5. InheritedBy(chain, Len(chain)) = InheritedBy(d, Len(chain))
    BY <2>2, <2>3, UptoSame DEF Longer
  <2>6. Result(own, InheritedBy(d, Len(chain))) = InheritedBy(d, Len(d))
    <3>1. d[Len(d)] = own /\ Len(d) \in 1..Len(d) /\ Len(d) - 1 = Len(chain)
      BY <2>2, <2>3 DEF Longer
    <3> QED
      BY <2>4, <3>1, OneScript
  <2>7. InheritedBy(d, Len(d)) = [k \in Keys |-> Inherited(d, k)]
    BY <2>4, UptoAll DEF InheritedBy
  <2> QED
    BY <1>2, <2>1, <2>5, <2>6, <2>7 DEF Intended
<1> QED
  BY <1>1, <1>2

-----------------------------------------------------------------------------
(* The middleware.                                                              *)

\* Those of the first j that set k; what the last of them sets.
StampedIn(mw, k, j) == {m \in 1..j : k \in DOMAIN Stamps[mw[m]]}
Stamp(mw, k, j) == Stamps[mw[Max(StampedIn(mw, k, j))]][k]

\* The metadata when message msg has been through the first j.
Midway(mw, md, msg, j) ==
  [k \in Keys |-> IF StampedIn(mw, k, j) # {} THEN Stamp(mw, k, j)
                  ELSE IF msg > 1 /\ StampedIn(mw, k, Len(mw)) # {} THEN Stamp(mw, k, Len(mw))
                  ELSE FirstOnly(md[k])]

\* A message that has been through the first j.
Through(m, mw, j) == [i \in 1..j + 1 |-> IF i = 1 THEN m ELSE mw[i - 1]]

\* The n messages when the one that is on has been through the first j.
Bodies(n, mw, msg, j) ==
  [m \in 1..n |-> Through(m, mw, IF m < msg THEN Len(mw) ELSE IF m = msg THEN j ELSE 0)]

Bare(n) == [m \in 1..n |-> <<m>>]

LEMMA OneStamp ==
  ASSUME NEW mw, IsSeq(mw), NEW j \in 1..Len(mw), NEW md, NEW msg
  PROVE  Stamped(Stamps[mw[j]], Midway(mw, md, msg, j - 1)) = Midway(mw, md, msg, j)
<1>1. Len(mw) \in Nat /\ j \in Nat /\ j - 1 \in Nat
  BY DEF IsSeq
<1> DEFINE sets == Stamps[mw[j]]
           old == Midway(mw, md, msg, j - 1)
           new == Midway(mw, md, msg, j)
<1>2. ASSUME NEW k \in Keys
      PROVE  (IF k \in DOMAIN sets THEN sets[k] ELSE old[k]) = new[k]
  <2> DEFINE S == StampedIn(mw, k, j)
             T == StampedIn(mw, k, j - 1)
  <2>1. CASE k \in DOMAIN sets
    <3>1. j \in S /\ S \in SUBSET (1..j)
      BY <1>1, <2>1 DEF StampedIn
    <3>2. Max(S) = j
      <4> HIDE DEF S
      <4>1. Max(S) \in 1..j /\ j <= Max(S)
        BY <1>1, <3>1, GreatestNumber
      <4> QED
        BY <1>1, <4>1
    <3>3. new[k] = Stamp(mw, k, j)
      BY <3>1 DEF Midway
    <3> QED
      BY <2>1, <3>2, <3>3 DEF Stamp
  <2>2. CASE k \notin DOMAIN sets
    <3>1. S = T
      BY <1>1, <2>2 DEF StampedIn
    <3>2. old[k] = new[k]
      BY <3>1 DEF Midway, Stamp
    <3> QED
      BY <2>2, <3>2
  <2> QED
    BY <2>1, <2>2
<1> QED
  BY <1>2 DEF Stamped, Midway

\* A message begins where the one before it has ended.
LEMMA NextMessage ==
  ASSUME NEW mw, IsSeq(mw), NEW md, NEW msg \in Nat \ {0}
  PROVE  Midway(mw, md, msg, Len(mw)) = Midway(mw, md, msg + 1, 0)
<1>1. \A k : StampedIn(mw, k, 0) = {}
  BY DEF StampedIn
<1>2. msg + 1 > 1
  OBVIOUS
<1>3. ASSUME NEW k \in Keys
      PROVE  Midway(mw, md, msg, Len(mw))[k] = Midway(mw, md, msg + 1, 0)[k]
  BY <1>1, <1>2 DEF Midway
<1> QED
  BY <1>3 DEF Midway

LEMMA FirstMessage ==
  ASSUME NEW mw, NEW md
  PROVE  Single(md) = Midway(mw, md, 1, 0)
<1>1. \A k : StampedIn(mw, k, 0) = {}
  BY DEF StampedIn
<1>2. ~(1 > 1)
  OBVIOUS
<1> QED
  BY <1>1, <1>2 DEF Midway, Single

LEMMA ThroughAll ==
  ASSUME NEW mw, IsSeq(mw), NEW m
  PROVE  Through(m, mw, Len(mw)) = <<m>> \o mw
<1> DEFINE S == {m} \cup {mw[n] : n \in 1..Len(mw)}
<1>1. mw \in Seq(S) /\ Len(mw) \in Nat
  <2>1. mw \in [1..Len(mw) -> S] /\ Len(mw) \in Nat
    BY DEF IsSeq
  <2> QED
    BY <2>1
<1>2. <<m>> \in Seq(S) /\ Len(<<m>>) = 1 /\ <<m>>[1] = m
  OBVIOUS
<1> HIDE DEF S
<1>3. /\ <<m>> \o mw \in Seq(S) /\ Len(<<m>> \o mw) = Len(mw) + 1
      /\ \A i \in 1..Len(mw) + 1 : (<<m>> \o mw)[i] = IF i = 1 THEN m ELSE mw[i - 1]
  BY <1>1, <1>2
<1>4. <<m>> \o mw = [i \in 1..Len(mw) + 1 |-> (<<m>> \o mw)[i]]
  BY <1>3
<1> QED
  BY <1>3, <1>4 DEF Through

LEMMA ThroughOne ==
  ASSUME NEW mw, IsSeq(mw), NEW j \in 1..Len(mw), NEW m
  PROVE  Append(Through(m, mw, j - 1), mw[j]) = Through(m, mw, j)
<1> DEFINE S == {m} \cup {mw[n] : n \in 1..Len(mw)}
           s == Through(m, mw, j - 1)
<1>1. j \in Nat /\ Len(mw) \in Nat /\ j <= Len(mw)
  BY DEF IsSeq
<1>2. s \in [1..j -> S]
  BY <1>1 DEF Through
<1>3. s \in Seq(S) /\ Len(s) = j /\ mw[j] \in S
  BY <1>1, <1>2
<1>4. \A i \in 1..j : s[i] = IF i = 1 THEN m ELSE mw[i - 1]
  BY <1>1 DEF Through
<1> HIDE DEF S, s
<1>5. /\ Append(s, mw[j]) \in Seq(S) /\ Len(Append(s, mw[j])) = j + 1
      /\ Append(s, mw[j])[j + 1] = mw[j] /\ \A i \in 1..j : Append(s, mw[j])[i] = s[i]
  BY <1>1, <1>3
<1>6. Append(s, mw[j]) = [i \in 1..j + 1 |-> Append(s, mw[j])[i]]
  BY <1>5
<1>7. \A i \in 1..j + 1 : Append(s, mw[j])[i] = IF i = 1 THEN m ELSE mw[i - 1]
  BY <1>1, <1>4, <1>5
<1> QED
  BY <1>6, <1>7 DEF Through, s

LEMMA ThroughNone ==
  ASSUME NEW mw, NEW m
  PROVE  Through(m, mw, 0) = <<m>>
BY DEF Through

LEMMA OneBody ==
  ASSUME NEW mw, IsSeq(mw), NEW j \in 1..Len(mw), NEW n \in Nat, NEW msg \in 1..n
  PROVE  [Bodies(n, mw, msg, j - 1) EXCEPT ![msg] = Append(@, mw[j])] = Bodies(n, mw, msg, j)
<1> DEFINE old == Bodies(n, mw, msg, j - 1)
           new == Bodies(n, mw, msg, j)
<1>1. Append(Through(msg, mw, j - 1), mw[j]) = Through(msg, mw, j)
  BY ThroughOne
<1>2. old[msg] = Through(msg, mw, j - 1) /\ new[msg] = Through(msg, mw, j)
  BY DEF Bodies
<1>3. \A m \in 1..n : m # msg => old[m] = new[m]
  BY DEF Bodies
<1>4. old = [m \in 1..n |-> old[m]] /\ new = [m \in 1..n |-> new[m]]
  BY DEF Bodies
<1> HIDE DEF old, new
<1>5. [old EXCEPT ![msg] = Append(@, mw[j])] = new
  BY <1>1, <1>2, <1>3, <1>4
<1> QED
  BY <1>5 DEF old, new

LEMMA NextBody ==
  ASSUME NEW mw, NEW n \in Nat, NEW msg \in Nat
  PROVE  Bodies(n, mw, msg, Len(mw)) = Bodies(n, mw, msg + 1, 0)
<1>1. ASSUME NEW m \in 1..n
      PROVE  Bodies(n, mw, msg, Len(mw))[m] = Bodies(n, mw, msg + 1, 0)[m]
  <2>1. m \in Nat /\ (m < msg + 1 <=> m < msg \/ m = msg)
    OBVIOUS
  <2> QED
    BY <2>1 DEF Bodies
<1> QED
  BY <1>1 DEF Bodies

LEMMA FirstBody ==
  ASSUME NEW mw, NEW n \in Nat
  PROVE  Bare(n) = Bodies(n, mw, 1, 0)
<1>1. \A m \in 1..n : ~(m < 1)
  OBVIOUS
<1> QED
  BY <1>1, ThroughNone DEF Bare, Bodies

LEMMA OneBare ==
  ASSUME NEW n \in Nat \ {0}
  PROVE  Append(Bare(n - 1), <<n>>) = Bare(n)
<1> DEFINE S == {<<m>> : m \in 1..n}
           s == Bare(n - 1)
<1>1. s \in [1..n - 1 -> S] /\ n - 1 \in Nat
  BY DEF Bare
<1>2. s \in Seq(S) /\ Len(s) = n - 1 /\ <<n>> \in S /\ \A m \in 1..n - 1 : s[m] = <<m>>
  BY <1>1 DEF Bare
<1> HIDE DEF S, s
<1>3. /\ Append(s, <<n>>) \in Seq(S) /\ Len(Append(s, <<n>>)) = n
      /\ Append(s, <<n>>)[n] = <<n>> /\ \A m \in 1..n - 1 : Append(s, <<n>>)[m] = s[m]
  BY <1>1, <1>2
<1>4. Append(s, <<n>>) = [m \in 1..n |-> Append(s, <<n>>)[m]]
  BY <1>3
<1>5. \A m \in 1..n : Append(s, <<n>>)[m] = <<m>>
  BY <1>2, <1>3
<1> QED
  BY <1>4, <1>5 DEF Bare, s

-----------------------------------------------------------------------------
(* What an invocation has seen of a collection that has not changed since it    *)
(* began: mw is the request's middleware, chain the scripts above it.           *)

Pcs == {"resolve", "body", "folders", "folder", "own", "attached", "middleware", "send", "sent",
        "record", "append", "scratch"}

\* What goes out is the last of this.
Complete(f, mw, chain) ==
  /\ f.bodies = Bodies(f.n, mw, f.n + 1, 0)
  /\ f.md = IF mw = <<>> THEN Intended(chain, f.own, f.ask.explicit)
            ELSE Midway(mw, Intended(chain, f.own, f.ask.explicit), f.n + 1, 0)

Saw(f, mw, chain) ==
  /\ f.pc \in Pcs
  /\ f.ask.name \in Names \cup {None}
  /\ f.n \in Nat \ {0}
  /\ f.own = NoScript \/ IsScript(f.own)
  /\ f.pc \in {"resolve", "body", "folders"} => f.md = Nothing
  /\ f.pc \in {"resolve", "body"} => f.msg \in Nat \ {0} /\ f.bodies = Bare(f.msg - 1)
  /\ f.pc = "resolve" => f.msg = 1
  /\ f.pc = "body" => f.msg <= f.n
  /\ f.pc \in {"folders", "folder", "own", "attached"} => f.bodies = Bare(f.n)
  /\ f.pc = "folder" =>
       /\ f.chain = chain /\ f.step \in 1..Len(chain)
       /\ f.md = InheritedBy(chain, f.step - 1)
  /\ f.pc = "own" => f.own # NoScript /\ f.md = InheritedBy(chain, Len(chain))
  /\ f.pc = "attached" => f.md = Intended(chain, f.own, f.ask.explicit)
  /\ f.pc = "middleware" =>
       /\ f.chain = mw /\ f.step \in 1..Len(mw) /\ f.msg \in 1..f.n
       /\ f.bodies = Bodies(f.n, mw, f.msg, f.step - 1)
       /\ f.md = Midway(mw, Intended(chain, f.own, f.ask.explicit), f.msg, f.step - 1)
  /\ f.pc \in {"send", "sent"} => Complete(f, mw, chain)

\* What a frame has in common with the one it comes from.
Same(f, g) == g.ask = f.ask /\ g.steady = f.steady

LEMMA SawFrame ==
  ASSUME NEW q, IsAsk(q), NEW mw, NEW chain
  PROVE  Saw(Frame(q), mw, chain) /\ Frame(q).ask = q /\ Frame(q).steady = TRUE
<1>1. Bare(0) = <<>>
  <2>1. 1..0 = {}
    OBVIOUS
  <2> QED
    BY <2>1 DEF Bare
<1>2. q.n \in Nat \ {0} /\ q.name \in Names \cup {None} /\ (q.own = NoScript \/ IsScript(q.own))
  BY DEF IsAsk
<1>3. PICK g : g = Frame(q)
  OBVIOUS
<1>4. /\ g.ask = q /\ g.pc = "resolve" /\ g.n = q.n /\ g.own = q.own /\ g.msg = 1
      /\ g.md = Nothing /\ g.bodies = <<>> /\ g.steady = TRUE
  BY <1>3 DEF Frame
<1>5. Saw(g, mw, chain)
  BY <1>1, <1>2, <1>4 DEF Saw, Pcs
<1> QED
  BY <1>3, <1>4, <1>5

LEMMA NestedIsAsk ==
  ASSUME NEW name \in Names
  PROVE  IsAsk(Nested(name))
<1>1. Lists(<< >>)
  BY DEF Lists
<1>2. PICK q : q = Nested(name)
  OBVIOUS
<1>3. /\ q.kind = "saved" /\ q.stream = FALSE /\ q.n = 1 /\ q.record = FALSE /\ q.name = name
      /\ q.own = NoScript /\ q.explicit = << >>
  BY <1>2 DEF Nested
<1>4. Lists(q.explicit)
  BY <1>1, <1>3
<1>5. q.kind \in Kinds /\ q.name \in Names \cup {None}
  BY <1>3 DEF Kinds
<1>6. q.n \in Nat \ {0}
  BY <1>3
<1>7. q.stream \in BOOLEAN
  BY <1>3
<1>8. q.record \in BOOLEAN
  BY <1>3
<1>9. IsAsk(q)
  BY <1>3, <1>4, <1>5, <1>6, <1>7, <1>8 DEF IsAsk
<1> QED
  BY <1>2, <1>9

LEMMA SawResolved ==
  ASSUME NEW f, IsFrame(f), NEW mw, NEW chain, Saw(f, mw, chain), f.pc = "resolve",
         NEW pc \in {"scratch", "body"}, NEW n \in {f.n, 1}, NEW own, own = NoScript \/ IsScript(own),
         NEW g, g = [f EXCEPT !.pc = pc, !.n = n, !.own = own]
  PROVE  Saw(g, mw, chain)
<1>1. /\ g.ask = f.ask /\ g.pc = pc /\ g.n = n /\ g.own = own /\ g.md = f.md /\ g.msg = f.msg
      /\ g.bodies = f.bodies
  BY DEF IsFrame
<1>2. n \in Nat \ {0} /\ 1 <= n
  BY DEF Saw
<1> QED
  BY <1>1, <1>2 DEF Saw, Pcs

LEMMA SawFolded ==
  ASSUME NEW f, IsFrame(f), NEW mw, NEW chain, IsChain(chain), f.ask.name \in Names \cup {None},
         f.n \in Nat \ {0}, f.own = NoScript \/ IsScript(f.own), f.bodies = Bare(f.n),
         NEW md, md = InheritedBy(chain, Len(chain)),
         NEW g, g = Folded(f, md)
  PROVE  Saw(g, mw, chain) /\ Same(f, g)
<1>1. CASE f.own = NoScript
  <2>1. PICK m : m = Under(f.ask.explicit, md)
    OBVIOUS
  <2>2. m = Intended(chain, f.own, f.ask.explicit)
    BY <1>1, <2>1, IntendedIs
  <2>3. g = [f EXCEPT !.pc = "attached", !.md = m]
    BY <1>1, <2>1 DEF Folded
  <2>4. /\ g.ask = f.ask /\ g.pc = "attached" /\ g.n = f.n /\ g.own = f.own /\ g.md = m
        /\ g.bodies = f.bodies /\ g.steady = f.steady
    BY <2>3 DEF IsFrame
  <2> QED
    BY <2>2, <2>4 DEF Saw, Pcs, Same
<1>2. CASE f.own # NoScript
  <2>1. g = [f EXCEPT !.pc = "own", !.md = md]
    BY <1>2 DEF Folded
  <2>2. /\ g.ask = f.ask /\ g.pc = "own" /\ g.n = f.n /\ g.own = f.own /\ g.md = md
        /\ g.bodies = f.bodies /\ g.steady = f.steady
    BY <2>1 DEF IsFrame
  <2> QED
    BY <1>2, <2>2 DEF Saw, Pcs, Same
<1> QED
  BY <1>1, <1>2

\* A script's result.
LEMMA SawOnward ==
  ASSUME NEW f, IsFrame(f), NEW mw, NEW chain, Saw(f, mw, chain), IsSeq(mw), IsChain(chain),
         f.pc \in Scripted, f.pc # "scratch", NEW g, g = Onward(f)
  PROVE  Saw(g, mw, chain) /\ Same(f, g)
<1>0. /\ f.ask.name \in Names \cup {None} /\ f.n \in Nat \ {0} /\ (f.own = NoScript \/ IsScript(f.own))
  BY DEF Saw
<1>1. CASE f.pc = "body"
  <2>1. f.msg \in Nat \ {0} /\ f.bodies = Bare(f.msg - 1) /\ f.msg <= f.n /\ f.md = Nothing
    BY <1>1 DEF Saw
  <2>2. PICK pc, bodies : /\ pc = IF f.msg < f.n THEN "body" ELSE "folders"
                          /\ bodies = Append(f.bodies, <<f.msg>>)
    OBVIOUS
  <2>3. g = [f EXCEPT !.bodies = bodies, !.msg = f.msg + 1, !.pc = pc]
    BY <1>1, <2>2 DEF Onward
  <2>4. /\ g.ask = f.ask /\ g.pc = pc /\ g.n = f.n /\ g.own = f.own /\ g.md = f.md
        /\ g.bodies = bodies /\ g.msg = f.msg + 1 /\ g.steady = f.steady
    BY <2>3 DEF IsFrame
  <2>5. bodies = Bare(f.msg)
    BY <2>1, <2>2, OneBare
  <2>6. f.msg + 1 \in Nat \ {0} /\ (f.msg + 1) - 1 = f.msg /\ (f.msg < f.n => f.msg + 1 <= f.n)
        /\ (~(f.msg < f.n) => f.msg = f.n)
    BY <1>0, <2>1
  <2> QED
    BY <1>0, <2>1, <2>2, <2>4, <2>5, <2>6 DEF Saw, Pcs, Same
<1>2. CASE f.pc = "folder"
  <2>1. /\ f.chain = chain /\ f.step \in 1..Len(chain) /\ f.bodies = Bare(f.n)
        /\ f.md = InheritedBy(chain, f.step - 1)
    BY <1>2 DEF Saw
  <2>2. PICK md : md = Result(f.chain[f.step], f.md)
    OBVIOUS
  <2>3. md = InheritedBy(chain, f.step)
    BY <2>1, <2>2, OneScript
  <2>4. g = IF f.step < Len(f.chain) THEN [f EXCEPT !.md = md, !.step = f.step + 1] ELSE Folded(f, md)
    BY <1>2, <2>2 DEF Onward
  <2>5. Len(chain) \in Nat
    BY DEF IsChain, IsSeq
  <2>6. CASE f.step < Len(f.chain)
    <3>1. g = [f EXCEPT !.md = md, !.step = f.step + 1]
      BY <2>4, <2>6
    <3>2. /\ g.ask = f.ask /\ g.pc = f.pc /\ g.n = f.n /\ g.own = f.own /\ g.md = md
          /\ g.bodies = f.bodies /\ g.step = f.step + 1 /\ g.chain = f.chain /\ g.steady = f.steady
      BY <3>1 DEF IsFrame
    <3>3. f.step + 1 \in 1..Len(chain) /\ (f.step + 1) - 1 = f.step
      BY <2>1, <2>5, <2>6
    <3> QED
      BY <1>0, <1>2, <2>1, <2>3, <3>2, <3>3 DEF Saw, Pcs, Same
  <2>7. CASE ~(f.step < Len(f.chain))
    <3>1. f.step = Len(chain) /\ g = Folded(f, md)
      BY <2>1, <2>4, <2>5, <2>7
    <3> QED
      BY <1>0, <2>1, <2>3, <3>1, SawFolded
  <2> QED
    BY <2>6, <2>7
<1>3. CASE f.pc = "own"
  <2>1. f.own # NoScript /\ f.md = InheritedBy(chain, Len(chain)) /\ f.bodies = Bare(f.n)
    BY <1>3 DEF Saw
  <2>2. PICK md : md = Result(f.own, f.md)
    OBVIOUS
  <2>3. md = Intended(chain, f.own, f.ask.explicit)
    BY <1>0, <2>1, <2>2, IntendedIs
  <2>4. g = [f EXCEPT !.md = md, !.pc = "attached"]
    BY <1>3, <2>2 DEF Onward
  <2>5. /\ g.ask = f.ask /\ g.pc = "attached" /\ g.n = f.n /\ g.own = f.own /\ g.md = md
        /\ g.bodies = f.bodies /\ g.steady = f.steady
    BY <2>4 DEF IsFrame
  <2> QED
    BY <1>0, <2>1, <2>3, <2>5 DEF Saw, Pcs, Same
<1>4. CASE f.pc = "middleware"
  <2> DEFINE md0 == Intended(chain, f.own, f.ask.explicit)
  <2>1. /\ f.chain = mw /\ f.step \in 1..Len(mw) /\ f.msg \in 1..f.n
        /\ f.bodies = Bodies(f.n, mw, f.msg, f.step - 1)
        /\ f.md = Midway(mw, md0, f.msg, f.step - 1)
    BY <1>4 DEF Saw
  <2>2. Len(mw) \in Nat
    BY DEF IsSeq
  <2>3. PICK bodies : bodies = [f.bodies EXCEPT ![f.msg] = Append(@, mw[f.step])]
    OBVIOUS
  <2>4. PICK md : md = Stamped(Stamps[mw[f.step]], f.md)
    OBVIOUS
  <2>5. PICK last \in BOOLEAN : last <=> f.step = Len(mw)
    OBVIOUS
  <2>6. PICK step, msg, pc :
          /\ step = IF last THEN 1 ELSE f.step + 1
          /\ msg = IF last THEN f.msg + 1 ELSE f.msg
          /\ pc = IF last /\ f.msg = f.n THEN "send" ELSE "middleware"
    OBVIOUS
  <2>7. g = [f EXCEPT !.bodies = bodies, !.md = md, !.step = step, !.msg = msg, !.pc = pc]
    <3>1. f.bodies[f.msg] = f.bodies[f.msg]
      OBVIOUS
    <3> QED
      BY <1>4, <2>1, <2>3, <2>4, <2>5, <2>6 DEF Onward, IsFrame
  <2>8. /\ g.ask = f.ask /\ g.pc = pc /\ g.n = f.n /\ g.own = f.own /\ g.md = md /\ g.bodies = bodies
        /\ g.step = step /\ g.msg = msg /\ g.chain = f.chain /\ g.steady = f.steady
    BY <2>7 DEF IsFrame
  <2>9. bodies = Bodies(f.n, mw, f.msg, f.step) /\ md = Midway(mw, md0, f.msg, f.step)
    <3>1. f.n \in Nat
      BY <1>0
    <3>2. bodies = Bodies(f.n, mw, f.msg, f.step)
      <4>1. PICK n, m, j : n = f.n /\ m = f.msg /\ j = f.step
        BY <3>1
      <4>2. bodies = [Bodies(n, mw, m, j - 1) EXCEPT ![m] = Append(@, mw[j])]
        BY <2>1, <2>3, <4>1
      <4>3. n \in Nat /\ m \in 1..n /\ j \in 1..Len(mw)
        BY <2>1, <3>1, <4>1
      <4>4. bodies = Bodies(n, mw, m, j)
        BY <4>2, <4>3, OneBody
      <4> QED
        BY <4>1, <4>4
    <3> HIDE DEF md0
    <3> QED
      BY <2>1, <2>4, <3>2, OneStamp
  <2>10. CASE ~last
    <3>1. step = f.step + 1 /\ msg = f.msg /\ pc = "middleware" /\ step \in 1..Len(mw) /\ step - 1 = f.step
      BY <2>1, <2>2, <2>5, <2>6, <2>10
    <3> QED
      BY <1>0, <2>1, <2>8, <2>9, <3>1 DEF Saw, Pcs, Same
  <2>11. CASE last
    <3>1. step = 1 /\ msg = f.msg + 1 /\ f.step = Len(mw) /\ 1 \in 1..Len(mw) /\ f.msg \in Nat \ {0}
          /\ f.n \in Nat
      BY <1>0, <2>1, <2>2, <2>5, <2>6, <2>11
    <3>2. bodies = Bodies(f.n, mw, msg, 0)
      BY <2>9, <3>1, NextBody
    <3>3. md = Midway(mw, md0, msg, 0)
      <4> HIDE DEF md0
      <4> QED
        BY <2>9, <3>1, NextMessage
    <3>4. CASE f.msg = f.n
      <4>1. pc = "send" /\ msg = f.n + 1
        BY <2>6, <2>11, <3>1, <3>4
      <4>2. mw # <<>>
        BY <2>1, EmptyChain
      <4>3. Complete(g, mw, chain)
        BY <2>8, <3>2, <3>3, <4>1, <4>2 DEF Complete
      <4> QED
        BY <1>0, <2>8, <4>1, <4>3 DEF Saw, Pcs, Same
    <3>5. CASE f.msg # f.n
      <4>1. pc = "middleware" /\ msg \in 1..f.n /\ step - 1 = 0
        BY <2>1, <2>6, <3>1, <3>5
      <4> QED
        BY <1>0, <2>1, <2>8, <3>1, <3>2, <3>3, <4>1 DEF Saw, Pcs, Same
    <3> QED
      BY <3>4, <3>5
  <2> QED
    BY <2>10, <2>11
<1> QED
  BY <1>1, <1>2, <1>3, <1>4 DEF Scripted

LEMMA SawAttached ==
  ASSUME NEW f, IsFrame(f), NEW mw, NEW chain, Saw(f, mw, chain), IsSeq(mw), f.pc = "attached", NEW g,
         \/ mw = <<>> /\ g = [f EXCEPT !.pc = "send"]
         \/ /\ mw # <<>>
            /\ g = [f EXCEPT !.pc = "middleware", !.chain = mw, !.msg = 1, !.step = 1, !.md = Single(f.md)]
  PROVE  Saw(g, mw, chain) /\ Same(f, g)
<1>0. /\ f.ask.name \in Names \cup {None} /\ f.n \in Nat \ {0} /\ (f.own = NoScript \/ IsScript(f.own))
      /\ f.bodies = Bare(f.n) /\ f.md = Intended(chain, f.own, f.ask.explicit)
  BY DEF Saw
<1>1. f.bodies = Bodies(f.n, mw, 1, 0)
  BY <1>0, FirstBody
<1>2. CASE mw = <<>> /\ g = [f EXCEPT !.pc = "send"]
  <2>1. /\ g.ask = f.ask /\ g.pc = "send" /\ g.n = f.n /\ g.own = f.own /\ g.md = f.md
        /\ g.bodies = f.bodies /\ g.steady = f.steady
    BY <1>2 DEF IsFrame
  <2>2. Bodies(f.n, mw, 1, 0) = Bodies(f.n, mw, f.n + 1, 0)
    <3>1. Len(mw) = 0
      BY <1>2, EmptyChain
    <3>2. \A m \in 1..f.n : Bodies(f.n, mw, 1, 0)[m] = Bodies(f.n, mw, f.n + 1, 0)[m]
      BY <3>1 DEF Bodies
    <3> QED
      BY <3>2 DEF Bodies
  <2>3. Complete(g, mw, chain)
    BY <1>0, <1>1, <1>2, <2>1, <2>2 DEF Complete
  <2> QED
    BY <1>0, <2>1, <2>3 DEF Saw, Pcs, Same
<1>3. CASE /\ mw # <<>>
           /\ g = [f EXCEPT !.pc = "middleware", !.chain = mw, !.msg = 1, !.step = 1, !.md = Single(f.md)]
  <2>1. PICK md : md = Single(f.md)
    OBVIOUS
  <2>2. g = [f EXCEPT !.pc = "middleware", !.chain = mw, !.msg = 1, !.step = 1, !.md = md]
    BY <1>3, <2>1
  <2>3. /\ g.ask = f.ask /\ g.pc = "middleware" /\ g.n = f.n /\ g.own = f.own /\ g.md = md /\ g.chain = mw
        /\ g.msg = 1 /\ g.step = 1 /\ g.bodies = f.bodies /\ g.steady = f.steady
    BY <2>2 DEF IsFrame
  <2>4. 1 \in 1..Len(mw) /\ 1 \in 1..f.n /\ 1 - 1 = 0
    <3>1. Len(mw) \in Nat /\ Len(mw) # 0
      BY <1>3, EmptySeq DEF IsSeq
    <3> QED
      BY <1>0, <3>1
  <2>5. md = Midway(mw, Intended(chain, f.own, f.ask.explicit), 1, 0)
    BY <1>0, <2>1, FirstMessage
  <2> QED
    BY <1>0, <1>1, <2>3, <2>4, <2>5 DEF Saw, Pcs, Same
<1> QED
  BY <1>2, <1>3

-----------------------------------------------------------------------------
(* The stacks again.                                                            *)

MiddlewareOf(name) == IF Lookup(name) = None THEN <<>> ELSE Attached[Lookup(name)]
ScriptsOver(name) == IF name = None \/ ~folder THEN <<>> ELSE ScriptChain

SeesNow(f) == Saw(f, MiddlewareOf(f.ask.name), ScriptsOver(f.ask.name))

\* An invocation that nothing was changed under is where the collection as it is
\* leads it.
SeenInv ==
  \A c \in Callers : \A n \in 1..Len(stack[c]) : stack[c][n].steady => SeesNow(stack[c][n])

LEMMA StoreSays ==
  ASSUME StoreTypes, NEW name \in Names \cup {None}
  PROVE  /\ IsSeq(MiddlewareOf(name)) /\ IsChain(ScriptsOver(name))
         /\ Lookup(name) \in Items \cup {None}
         /\ Lookup(name) = None => MiddlewareOf(name) = <<>>
         /\ Lookup(name) # None => MiddlewareOf(name) = Attached[Lookup(name)]
<1>1. Lookup(name) \in Items \cup {None}
  BY DEF Lookup, StoreTypes
<1>2. IsSeq(MiddlewareOf(name))
  <2>1. CASE Lookup(name) = None
    BY <2>1, EmptyChain DEF MiddlewareOf, IsChain
  <2>2. CASE Lookup(name) # None
    <3>1. Attached[Lookup(name)] \in Seq(DOMAIN Stamps)
      BY <1>1, <2>2, AttachedAssumption
    <3> QED
      BY <2>2, <3>1, IsSeqOf DEF MiddlewareOf
  <2> QED
    BY <2>1, <2>2
<1>3. IsChain(ScriptsOver(name))
  BY ChainOfScripts, EmptyChain DEF ScriptsOver
<1> QED
  BY <1>1, <1>2, <1>3 DEF MiddlewareOf

LEMMA SameSeen ==
  ASSUME UNCHANGED store,
         \A d \in Callers : \A n \in 1..Len(stack'[d]) : stack'[d][n].steady => SeesNow(stack'[d][n])
  PROVE  SeenInv'
BY DEF store, SeenInv, SeesNow, MiddlewareOf, ScriptsOver, Lookup

\* One stack changes.
LEMMA OneSeen ==
  ASSUME Good, SeenInv, NEW c \in Callers, UNCHANGED store, NEW t, stack' = [stack EXCEPT ![c] = t],
         \A n \in 1..Len(t) : t[n].steady => SeesNow(t[n])
  PROVE  SeenInv'
<1>1. stack'[c] = t /\ \A d \in Callers : d # c => stack'[d] = stack[d]
  BY Others DEF Good
<1>2. ASSUME NEW d \in Callers, NEW n \in 1..Len(stack'[d]), stack'[d][n].steady
      PROVE  SeesNow(stack'[d][n])
  BY <1>1, <1>2 DEF SeenInv
<1> QED
  BY <1>2, SameSeen

LEMMA GoesSeen ==
  ASSUME Good, SeenInv, NEW c \in Callers, Active(c), UNCHANGED store,
         NEW g, Become(c, g), g.steady => SeesNow(g)
  PROVE  SeenInv'
<1> DEFINE s == stack[c]
           t == [s EXCEPT ![Len(s)] = g]
<1>1. IsSeq(s) /\ Len(s) > 0 /\ Len(s) \in Nat
  BY DEF Good, StackInv, IsSeq, Active
<1>2. stack' = [stack EXCEPT ![c] = t]
  BY DEF Become, Good, StackInv
<1> HIDE DEF s
<1>3. Len(t) = Len(s) /\ t[Len(s)] = g /\ \A n \in 1..Len(s) : n # Len(s) => t[n] = s[n]
  <2>1. LastIs(s, g, t)
    BY <1>1, Replaced
  <2> QED
    BY <2>1 DEF LastIs
<1>4. \A n \in 1..Len(s) : s[n].steady => SeesNow(s[n])
  BY DEF SeenInv, s
<1> HIDE DEF t
<1>5. \A n \in 1..Len(t) : t[n].steady => SeesNow(t[n])
  BY <1>3, <1>4
<1> USE DEF t
<1> QED
  BY <1>2, <1>5, OneSeen DEF s

LEMMA EndsSeen ==
  ASSUME Good, SeenInv, NEW c \in Callers, Active(c), UNCHANGED store, Return(c)
  PROVE  SeenInv'
<1> DEFINE s == stack[c]
<1>1. IsSeq(s) /\ Len(s) > 0 /\ Len(s) \in Nat
  BY DEF Good, StackInv, IsSeq, Active
<1>2. PICK t : t = SubSeq(s, 1, Len(s) - 1)
  OBVIOUS
<1>3. stack' = [stack EXCEPT ![c] = t]
  BY <1>2 DEF Return
<1>4. Len(t) = Len(s) - 1 /\ \A n \in 1..Len(t) : t[n] = s[n]
  <2>1. Shorter(s, t)
    BY <1>1, <1>2, Popped
  <2> QED
    BY <2>1 DEF Shorter
<1>5. \A n \in 1..Len(t) : t[n].steady => SeesNow(t[n])
  BY <1>1, <1>4 DEF SeenInv
<1> QED
  BY <1>3, <1>5, OneSeen

LEMMA EntersSeen ==
  ASSUME Good, SeenInv, NEW c \in Callers, UNCHANGED store, NEW q, IsAsk(q),
         stack' = [stack EXCEPT ![c] = Append(stack[c], Frame(q))]
  PROVE  SeenInv'
<1> DEFINE s == stack[c]
<1>1. IsSeq(s)
  BY DEF Good, StackInv
<1>2. PICK g : g = Frame(q)
  OBVIOUS
<1>3. PICK t : t = Append(s, g)
  OBVIOUS
<1>4. Len(t) = Len(s) + 1 /\ t[Len(t)] = g /\ (\A n \in 1..Len(s) : t[n] = s[n]) /\ Len(s) \in Nat
  <2>1. Longer(s, g, t)
    BY <1>1, <1>3, Pushed
  <2> QED
    BY <1>1, <2>1 DEF Longer, IsSeq
<1>5. SeesNow(g)
  BY <1>2, SawFrame DEF SeesNow
<1>6. \A n \in 1..Len(s) : s[n].steady => SeesNow(s[n])
  BY DEF SeenInv
<1> HIDE DEF s
<1>7. \A n \in 1..Len(t) : t[n].steady => SeesNow(t[n])
  BY <1>4, <1>5, <1>6
<1> QED
  BY <1>2, <1>3, <1>7, OneSeen DEF s

LEMMA StaysSeen ==
  ASSUME SeenInv, UNCHANGED store, stack' = stack
  PROVE  SeenInv'
<1>1. ASSUME NEW d \in Callers, NEW n \in 1..Len(stack'[d]), stack'[d][n].steady
      PROVE  SeesNow(stack'[d][n])
  BY <1>1 DEF SeenInv
<1> QED
  BY <1>1, SameSeen

\* The last invocation of c, if nothing was changed under it.
LEMMA TopSees ==
  ASSUME Good, SeenInv, HistInv, NEW c \in Callers, Active(c), Top(c).steady
  PROVE  /\ IsFrame(Top(c)) /\ SeesNow(Top(c)) /\ Top(c).ask.name \in Names \cup {None}
         /\ IsSeq(MiddlewareOf(Top(c).ask.name)) /\ IsChain(ScriptsOver(Top(c).ask.name))
<1>1. Len(stack[c]) \in 1..Len(stack[c])
  BY Tops DEF Good
<1>2. SeesNow(Top(c))
  BY <1>1 DEF SeenInv, Top
<1>3. Top(c).ask.name \in Names \cup {None}
  BY <1>2 DEF SeesNow, Saw
<1> QED
  BY <1>2, <1>3, Tops, StoreSays DEF Good, Sane, HistInv

\* What it goes on as sees what it saw, when it has the same request in mind.
LEMMA SeesOn ==
  ASSUME NEW f, NEW g, Same(f, g), Saw(g, MiddlewareOf(f.ask.name), ScriptsOver(f.ask.name))
  PROVE  SeesNow(g)
BY DEF Same, SeesNow

-----------------------------------------------------------------------------
(* The steps.                                                                   *)

LEMMA ResolvesSeen ==
  ASSUME Good, HistInv, SeenInv, NEW c \in Callers, Resolve(c)
  PROVE  SeenInv'
<1> DEFINE f == Top(c)
           item == Lookup(f.ask.name)
           saved == f.ask.kind \in {"saved", "dry"}
<1>1. Active(c) /\ f.pc = "resolve" /\ UNCHANGED store /\ IsFrame(f)
  BY Tops DEF Resolve, Reading, Good, Sane
<1>2. CASE Return(c)
  BY <1>1, <1>2, EndsSeen
<1>3. CASE ~Return(c)
  <2>1. PICK pc, n, own : /\ pc = IF f.ask.kind = "script" THEN "scratch" ELSE "body"
                          /\ n = IF f.ask.stream \/ f.ask.kind = "dry" THEN f.n ELSE 1
                          /\ own = IF saved THEN OwnScript[item] ELSE f.own
    OBVIOUS
  <2>2. Become(c, [f EXCEPT !.pc = pc, !.n = n, !.own = own]) /\ (saved => item # None)
    BY <1>3, <2>1 DEF Resolve
  <2>3. PICK g : g = [f EXCEPT !.pc = pc, !.n = n, !.own = own]
    OBVIOUS
  <2>4. Same(f, g)
    <3> HIDE DEF f
    <3> QED
      BY <1>1, <2>3 DEF Same, IsFrame
  <2>5. ASSUME g.steady PROVE SeesNow(g)
    <3>1. f.steady
      BY <2>4, <2>5 DEF Same
    <3>2. SeesNow(f) /\ f.ask.name \in Names \cup {None}
      BY <1>1, <3>1, TopSees
    <3>3. item \in Items \cup {None}
      BY <3>2, StoreSays DEF HistInv
    <3>4. f.own = NoScript \/ IsScript(f.own)
      BY <3>2 DEF SeesNow, Saw
    <3>5. own = NoScript \/ IsScript(own)
      BY <2>1, <2>2, <3>3, <3>4, ScriptsAssumption
    <3>6. pc \in {"scratch", "body"} /\ n \in {f.n, 1}
      BY <2>1
    <3>7. Saw(f, MiddlewareOf(f.ask.name), ScriptsOver(f.ask.name))
      BY <3>2 DEF SeesNow
    <3> HIDE DEF f
    <3>8. Saw(g, MiddlewareOf(f.ask.name), ScriptsOver(f.ask.name))
      BY <1>1, <2>3, <3>5, <3>6, <3>7, SawResolved
    <3> QED
      BY <2>4, <3>8, SeesOn
  <2> QED
    BY <1>1, <2>2, <2>3, <2>5, GoesSeen
<1> QED
  BY <1>2, <1>3

LEMMA FoldersSeen ==
  ASSUME Good, HistInv, SeenInv, NEW c \in Callers, ReadFolders(c)
  PROVE  SeenInv'
<1> DEFINE f == Top(c)
<1>1. Active(c) /\ f.pc = "folders" /\ UNCHANGED store /\ IsFrame(f)
  BY Tops DEF ReadFolders, Reading, Good, Sane
<1>2. CASE Return(c)
  BY <1>1, <1>2, EndsSeen
<1>3. CASE ~Return(c)
  <2>1. PICK scripts : scripts = ScriptsOver(f.ask.name)
    OBVIOUS
  <2>2. Become(c, IF scripts = <<>> THEN Folded(f, Nothing)
                  ELSE [f EXCEPT !.pc = "folder", !.chain = scripts, !.step = 1])
    <3>1. scripts = IF folder /\ f.ask.name # None THEN ScriptChain ELSE <<>>
      BY <2>1 DEF ScriptsOver
    <3> QED
      BY <1>3, <3>1 DEF ReadFolders
  <2>3. PICK g : g = IF scripts = <<>> THEN Folded(f, Nothing)
                     ELSE [f EXCEPT !.pc = "folder", !.chain = scripts, !.step = 1]
    OBVIOUS
  <2>4. ASSUME g.steady PROVE SeesNow(g)
    <3>1. g.ask = f.ask /\ g.steady = f.steady
      <4> HIDE DEF f
      <4>1. CASE scripts = <<>>
        BY <1>1, <2>3, <4>1 DEF Folded, IsFrame
      <4>2. CASE scripts # <<>>
        BY <1>1, <2>3, <4>2 DEF IsFrame
      <4> QED
        BY <4>1, <4>2
    <3>2. SeesNow(f) /\ IsChain(scripts)
      BY <1>1, <2>1, <2>4, <3>1, TopSees
    <3>3. Saw(f, MiddlewareOf(f.ask.name), scripts)
      BY <2>1, <3>2 DEF SeesNow
    <3> DEFINE mw == MiddlewareOf(f.ask.name)
    <3> HIDE DEF f, mw
    <3>4. /\ f.ask.name \in Names \cup {None} /\ f.n \in Nat \ {0}
          /\ (f.own = NoScript \/ IsScript(f.own)) /\ f.bodies = Bare(f.n)
      BY <1>1, <3>3 DEF Saw, mw
    <3>5. Saw(g, mw, scripts)
      <4>1. CASE scripts = <<>>
        <5>1. Nothing = InheritedBy(scripts, Len(scripts))
          BY <4>1, UptoNone, EmptyChain
        <5>2. g = Folded(f, Nothing)
          BY <2>3, <4>1
        <5> QED
          BY <1>1, <3>2, <3>4, <5>1, <5>2, SawFolded
      <4>2. CASE scripts # <<>>
        <5>1. g = [f EXCEPT !.pc = "folder", !.chain = scripts, !.step = 1]
          BY <2>3, <4>2
        <5>2. /\ g.ask = f.ask /\ g.pc = "folder" /\ g.n = f.n /\ g.own = f.own /\ g.bodies = f.bodies
              /\ g.chain = scripts /\ g.step = 1 /\ g.md = f.md
          BY <1>1, <5>1 DEF IsFrame
        <5>3. 1 \in 1..Len(scripts) /\ 1 - 1 = 0
          <6>1. Len(scripts) \in Nat /\ Len(scripts) # 0
            BY <3>2, <4>2, EmptySeq DEF IsChain, IsSeq
          <6> QED
            BY <6>1
        <5>4. f.md = Nothing
          BY <1>1, <3>3 DEF Saw, mw
        <5> QED
          BY <3>4, <5>2, <5>3, <5>4, UptoNone DEF Saw, Pcs
      <4> QED
        BY <4>1, <4>2
    <3> QED
      BY <2>1, <3>1, <3>5 DEF mw, SeesNow, f
  <2> QED
    BY <1>1, <2>2, <2>3, <2>4, GoesSeen
<1> QED
  BY <1>2, <1>3

LEMMA AttachedSeen ==
  ASSUME Good, HistInv, SeenInv, NEW c \in Callers, ReadAttached(c)
  PROVE  SeenInv'
<1> DEFINE f == Top(c)
           item == Lookup(f.ask.name)
<1>1. Active(c) /\ f.pc = "attached" /\ UNCHANGED store /\ IsFrame(f)
  BY Tops DEF ReadAttached, Reading, Good, Sane
<1>2. CASE Return(c)
  BY <1>1, <1>2, EndsSeen
<1>3. CASE ~Return(c)
  <2>1. PICK mw : mw = MiddlewareOf(f.ask.name)
    OBVIOUS
  <2>2. PICK g : \/ mw = <<>> /\ g = [f EXCEPT !.pc = "send"]
                 \/ /\ mw # <<>>
                    /\ g = [f EXCEPT !.pc = "middleware", !.chain = mw, !.msg = 1, !.step = 1, !.md = Single(f.md)]
    OBVIOUS
  <2>3. Become(c, g)
    <3>1. CASE item = None
      <4>1. mw = <<>>
        BY <2>1, <3>1 DEF MiddlewareOf
      <4> QED
        BY <1>3, <2>2, <3>1, <4>1 DEF ReadAttached
    <3>2. CASE item # None
      <4>1. mw = Attached[item]
        BY <2>1, <3>2 DEF MiddlewareOf
      <4> QED
        BY <1>3, <2>2, <3>2, <4>1 DEF ReadAttached
    <3> QED
      BY <3>1, <3>2
  <2>4. ASSUME g.steady PROVE SeesNow(g)
    <3>1. g.steady = f.steady
      <4> HIDE DEF f
      <4>1. CASE mw = <<>>
        BY <1>1, <2>2, <4>1 DEF IsFrame
      <4>2. CASE mw # <<>>
        BY <1>1, <2>2, <4>2 DEF IsFrame
      <4> QED
        BY <4>1, <4>2
    <3>2. SeesNow(f) /\ IsSeq(mw)
      BY <1>1, <2>1, <2>4, <3>1, TopSees
    <3>3. Saw(f, mw, ScriptsOver(f.ask.name))
      BY <2>1, <3>2 DEF SeesNow
    <3>4. Saw(g, mw, ScriptsOver(f.ask.name)) /\ Same(f, g)
      <4> HIDE DEF f
      <4> QED
        BY <1>1, <2>2, <3>2, <3>3, SawAttached
    <3> QED
      BY <2>1, <3>4, SeesOn
  <2> QED
    BY <1>1, <2>3, <2>4, GoesSeen
<1> QED
  BY <1>2, <1>3

\* What is sent is what there was to send.
LEMMA SendsSeen ==
  ASSUME Good, HistInv, SeenInv, NEW c \in Callers, Send(c)
  PROVE  SeenInv'
<1> DEFINE f == Top(c)
<1>1. Active(c) /\ f.pc = "send" /\ UNCHANGED store /\ IsFrame(f)
  BY Tops DEF Send, Reading, Good, Sane
<1>2. CASE Return(c)
  BY <1>1, <1>2, EndsSeen
<1>3. CASE Become(c, [f EXCEPT !.pc = "sent"])
  <2>1. PICK g : g = [f EXCEPT !.pc = "sent"]
    OBVIOUS
  <2>2. /\ Same(f, g) /\ g.pc = "sent" /\ g.n = f.n /\ g.own = f.own /\ g.bodies = f.bodies /\ g.md = f.md
        /\ g.ask = f.ask
    <3> HIDE DEF f
    <3> QED
      BY <1>1, <2>1 DEF Same, IsFrame
  <2>3. ASSUME g.steady PROVE SeesNow(g)
    <3>1. SeesNow(f)
      BY <1>1, <2>2, <2>3, TopSees DEF Same
    <3>2. Saw(f, MiddlewareOf(f.ask.name), ScriptsOver(f.ask.name))
      BY <3>1 DEF SeesNow
    <3> HIDE DEF f
    <3>3. Saw(g, MiddlewareOf(f.ask.name), ScriptsOver(f.ask.name))
      BY <1>1, <2>2, <3>2 DEF Saw, Pcs, Complete
    <3> QED
      BY <2>2, <3>3, SeesOn
  <2> QED
    BY <1>1, <1>3, <2>1, <2>3, GoesSeen
<1> QED
  BY <1>2, <1>3 DEF Send

\* Of what records nothing more is said.
LEMMA RecordingSeen ==
  ASSUME Good, HistInv, SeenInv, NEW c \in Callers, Active(c), UNCHANGED store,
         NEW g, Become(c, g), Same(Top(c), g), g.n = Top(c).n, g.own = Top(c).own, g.pc \in Recording
  PROVE  SeenInv'
<1> DEFINE f == Top(c)
<1>1. ASSUME g.steady PROVE SeesNow(g)
  <2>1. SeesNow(f)
    BY <1>1, TopSees DEF Same
  <2>2. Saw(f, MiddlewareOf(f.ask.name), ScriptsOver(f.ask.name))
    BY <2>1 DEF SeesNow
  <2>3. g.ask = f.ask
    BY DEF Same
  <2> HIDE DEF f
  <2>4. Saw(g, MiddlewareOf(f.ask.name), ScriptsOver(f.ask.name))
    BY <2>2, <2>3 DEF Saw, Pcs, Recording, f
  <2> QED
    BY <2>4, SeesOn DEF f
<1> QED
  BY <1>1, GoesSeen

LEMMA AnswersSeen ==
  ASSUME Good, HistInv, SeenInv, NEW c \in Callers, Answer(c) \/ Record(c) \/ AppendHistory(c)
  PROVE  SeenInv'
<1> DEFINE f == Top(c)
<1>1. Active(c) /\ UNCHANGED store /\ IsFrame(f)
  BY Tops DEF Answer, Record, AppendHistory, Reading, Good, Sane
<1>2. CASE Return(c)
  BY <1>1, <1>2, EndsSeen
<1>3. CASE Become(c, [f EXCEPT !.pc = "record"])
  <2>1. PICK g : g = [f EXCEPT !.pc = "record"]
    OBVIOUS
  <2>2. Same(f, g) /\ g.pc = "record" /\ g.n = f.n /\ g.own = f.own
    <3> HIDE DEF f
    <3> QED
      BY <1>1, <2>1 DEF Same, IsFrame
  <2> QED
    BY <1>1, <1>3, <2>1, <2>2, RecordingSeen DEF Recording
<1>4. ASSUME NEW read, Become(c, [f EXCEPT !.pc = "append", !.read = read]) PROVE SeenInv'
  <2>1. PICK g : g = [f EXCEPT !.pc = "append", !.read = read]
    OBVIOUS
  <2>2. Same(f, g) /\ g.pc = "append" /\ g.n = f.n /\ g.own = f.own
    <3> HIDE DEF f
    <3> QED
      BY <1>1, <2>1 DEF Same, IsFrame
  <2> QED
    BY <1>1, <1>4, <2>1, <2>2, RecordingSeen DEF Recording
<1> QED
  BY <1>2, <1>3, <1>4 DEF Answer, Record, AppendHistory

\* A frame is the same whatever script it runs.
LEMMA SawRunning ==
  ASSUME NEW f, IsFrame(f), NEW run, NEW g, g = [f EXCEPT !.run = run], NEW mw, NEW chain
  PROVE  /\ IsFrame(g) /\ Same(f, g) /\ g.pc = f.pc
         /\ Saw(f, mw, chain) => Saw(g, mw, chain)
<1>1. /\ g.ask = f.ask /\ g.pc = f.pc /\ g.n = f.n /\ g.own = f.own /\ g.msg = f.msg /\ g.step = f.step
      /\ g.bodies = f.bodies /\ g.md = f.md /\ g.chain = f.chain /\ g.steady = f.steady
  BY DEF IsFrame
<1>2. IsFrame(g)
  BY DEF IsFrame
<1> QED
  BY <1>1, <1>2 DEF Same, Saw, Complete

LEMMA OnwardSteady ==
  ASSUME NEW f, IsFrame(f)
  PROVE  Onward(f).steady = f.steady
<1>1. CASE f.pc = "body"
  BY <1>1 DEF Onward, IsFrame
<1>2. CASE f.pc = "folder"
  <2>1. PICK md : md = Result(f.chain[f.step], f.md)
    OBVIOUS
  <2>2. Onward(f) = IF f.step < Len(f.chain) THEN [f EXCEPT !.md = md, !.step = f.step + 1] ELSE Folded(f, md)
    BY <1>2, <2>1 DEF Onward
  <2>3. Folded(f, md).steady = f.steady
    BY DEF Folded, IsFrame
  <2>4. [f EXCEPT !.md = md, !.step = f.step + 1].steady = f.steady
    BY DEF IsFrame
  <2> QED
    BY <2>2, <2>3, <2>4
<1>3. CASE f.pc = "own"
  BY <1>3 DEF Onward, IsFrame
<1>4. CASE f.pc \notin {"body", "folder", "own"}
  <2>1. PICK bodies, md, step, msg, pc :
          /\ bodies = [f.bodies EXCEPT ![f.msg] = Append(@, f.chain[f.step])]
          /\ md = Stamped(Stamps[f.chain[f.step]], f.md)
          /\ step = IF f.step = Len(f.chain) THEN 1 ELSE f.step + 1
          /\ msg = IF f.step = Len(f.chain) THEN f.msg + 1 ELSE f.msg
          /\ pc = IF f.step = Len(f.chain) /\ f.msg = f.n THEN "send" ELSE "middleware"
    OBVIOUS
  <2>2. Onward(f) = [f EXCEPT !.bodies = bodies, !.md = md, !.step = step, !.msg = msg, !.pc = pc]
    BY <1>4, <2>1 DEF Onward, IsFrame
  <2> QED
    BY <2>2 DEF IsFrame
<1> QED
  BY <1>1, <1>2, <1>3, <1>4

LEMMA StartsSeen ==
  ASSUME Good, HistInv, SeenInv, NEW c \in Callers, StartScript(c)
  PROVE  SeenInv'
<1> DEFINE f == Top(c)
<1>1. Active(c) /\ UNCHANGED store /\ IsFrame(f)
  BY Tops DEF StartScript, Good, Sane
<1>2. CASE Return(c)
  BY <1>1, <1>2, EndsSeen
<1>3. ASSUME NEW run, Become(c, [f EXCEPT !.run = run]) PROVE SeenInv'
  <2>1. PICK g : g = [f EXCEPT !.run = run]
    OBVIOUS
  <2>2. ASSUME g.steady PROVE SeesNow(g)
    <3> HIDE DEF f
    <3>1. Same(f, g)
      BY <1>1, <2>1, SawRunning
    <3>2. SeesNow(f)
      BY <1>1, <2>2, <3>1, TopSees DEF Same, f
    <3>3. Saw(f, MiddlewareOf(f.ask.name), ScriptsOver(f.ask.name))
      BY <3>2 DEF SeesNow
    <3>4. Saw(g, MiddlewareOf(f.ask.name), ScriptsOver(f.ask.name))
      BY <1>1, <2>1, <3>3, SawRunning
    <3> QED
      BY <3>1, <3>4, SeesOn
  <2> QED
    BY <1>1, <1>3, <2>1, <2>2, GoesSeen
<1> QED
  BY <1>2, <1>3 DEF StartScript

LEMMA YieldsSeen ==
  ASSUME Good, HistInv, SeenInv, NEW c \in Callers, ScriptYields(c)
  PROVE  SeenInv'
<1> DEFINE f == Top(c)
<1>1. Active(c) /\ UNCHANGED store /\ IsFrame(f) /\ f.pc \in Scripted
  BY Tops DEF ScriptYields, Alive, Running, Good, Sane
<1>2. CASE Return(c)
  BY <1>1, <1>2, EndsSeen
<1>3. CASE f.pc # "scratch" /\ Become(c, Onward([f EXCEPT !.run = None]))
  <2>1. PICK h : h = [f EXCEPT !.run = None]
    OBVIOUS
  <2>2. IsFrame(h) /\ Same(f, h) /\ h.pc = f.pc
    <3> HIDE DEF f
    <3> QED
      BY <1>1, <2>1, SawRunning
  <2>3. PICK g : g = Onward(h)
    OBVIOUS
  <2>4. ASSUME g.steady PROVE SeesNow(g)
    <3>1. ASSUME f.steady PROVE Saw(g, MiddlewareOf(f.ask.name), ScriptsOver(f.ask.name)) /\ Same(h, g)
      <4>1. PICK mw, chain : mw = MiddlewareOf(f.ask.name) /\ chain = ScriptsOver(f.ask.name)
        OBVIOUS
      <4>2. Saw(f, mw, chain) /\ IsSeq(mw) /\ IsChain(chain)
        BY <1>1, <3>1, <4>1, TopSees DEF SeesNow
      <4> HIDE DEF f
      <4>3. Saw(h, mw, chain)
        BY <1>1, <2>1, <4>2, SawRunning
      <4>4. Saw(g, mw, chain) /\ Same(h, g)
        BY <1>1, <1>3, <2>2, <2>3, <4>2, <4>3, SawOnward
      <4> QED
        BY <4>1, <4>4
    <3>2. g.steady = h.steady
      BY <2>2, <2>3, OnwardSteady
    <3>3. f.steady
      BY <2>2, <2>4, <3>2 DEF Same
    <3>4. Same(f, g)
      BY <2>2, <3>1, <3>3 DEF Same
    <3> QED
      BY <3>1, <3>3, <3>4, SeesOn
  <2> QED
    BY <1>1, <1>3, <2>1, <2>3, <2>4, GoesSeen
<1> QED
  BY <1>2, <1>3 DEF ScriptYields

LEMMA TrapsSeen ==
  ASSUME Good, SeenInv, NEW c \in Callers, ScriptFails(c) \/ ScriptTraps(c)
  PROVE  SeenInv'
<1>1. Active(c) /\ UNCHANGED store
  BY DEF ScriptFails, ScriptTraps, Running
<1>2. Return(c) \/ stack' = stack
  BY DEF ScriptFails, ScriptTraps
<1> QED
  BY <1>1, <1>2, EndsSeen, StaysSeen

LEMMA InvokesSeen ==
  ASSUME Good, SeenInv, NEW c \in Callers, NEW name \in Names, ScriptInvokes(c, name)
  PROVE  SeenInv'
<1>1. UNCHANGED store
  BY DEF ScriptInvokes
<1>2. CASE stack' = stack
  BY <1>1, <1>2, StaysSeen
<1>3. CASE stack' = [stack EXCEPT ![c] = Append(@, Frame(Nested(name)))]
  <2>1. PICK q : q = Nested(name)
    OBVIOUS
  <2>2. stack' = [stack EXCEPT ![c] = Append(stack[c], Frame(q))]
    BY <1>3, <2>1 DEF Good, StackInv
  <2>3. IsAsk(q)
    BY <2>1, NestedIsAsk
  <2> QED
    BY <1>1, <2>2, <2>3, EntersSeen
<1> QED
  BY <1>2, <1>3 DEF ScriptInvokes

LEMMA BeginsSeen ==
  ASSUME Good, SeenInv, NEW c \in Callers, NEW q \in Asks, Begin(c, q)
  PROVE  SeenInv'
<1>1. UNCHANGED store /\ stack[c] = <<>>
  BY DEF Begin, Active
<1>2. PICK g : g = Frame(q)
  OBVIOUS
<1>3. Append(stack[c], g) = <<g>>
  BY <1>1
<1>4. stack' = [stack EXCEPT ![c] = Append(stack[c], Frame(q))]
  BY <1>2, <1>3 DEF Begin
<1> QED
  BY <1>1, <1>4, AsksAssumption, EntersSeen

\* An edit leaves no frame steady.
LEMMA EditsSeen ==
  ASSUME Good, Edit
  PROVE  SeenInv'
<1>1. stack' = [c \in Callers |-> [n \in DOMAIN stack[c] |-> [stack[c][n] EXCEPT !.steady = FALSE]]]
  BY DEF Edit
<1>2. ASSUME NEW d \in Callers, NEW n \in 1..Len(stack'[d]) PROVE ~stack'[d][n].steady
  <2>1. PICK s : s = stack[d]
    OBVIOUS
  <2>2. Len(s) \in Nat /\ DOMAIN s = 1..Len(s) /\ \A m \in 1..Len(s) : Sane(s[m])
    BY <2>1, SeqOf DEF Good, StackInv, IsSeq
  <2>3. PICK t : t = [m \in 1..Len(s) |-> [s[m] EXCEPT !.steady = FALSE]]
    OBVIOUS
  <2>4. stack'[d] = t
    BY <1>1, <2>1, <2>2, <2>3
  <2>5. Len(t) = Len(s)
    <3>1. t \in [1..Len(s) -> {t[m] : m \in 1..Len(s)}]
      BY <2>3
    <3> QED
      BY <2>2, <3>1
  <2>6. n \in 1..Len(s)
    BY <1>2, <2>4, <2>5
  <2>7. PICK f : f = s[n]
    OBVIOUS
  <2>8. IsFrame(f)
    BY <2>2, <2>6, <2>7 DEF Sane
  <2>9. t[n] = [f EXCEPT !.steady = FALSE]
    BY <2>3, <2>6, <2>7
  <2>10. t[n].steady = FALSE
    BY <2>8, <2>9 DEF IsFrame
  <2> QED
    BY <2>4, <2>10
<1> QED
  BY <1>2 DEF SeenInv

LEMMA StepSees ==
  ASSUME Good, HistInv, SeenInv, [Next]_vars
  PROVE  SeenInv'
<1>1. ASSUME NEW c \in Callers, Step(c) PROVE SeenInv'
  <2>1. CASE Resolve(c) \/ ReadFolders(c) \/ ReadAttached(c) \/ Send(c)
    BY <2>1, ResolvesSeen, FoldersSeen, AttachedSeen, SendsSeen
  <2>2. CASE Answer(c) \/ Record(c) \/ AppendHistory(c)
    BY <2>2, AnswersSeen
  <2>3. CASE StartScript(c) \/ ScriptYields(c)
    BY <2>3, StartsSeen, YieldsSeen
  <2>4. CASE ScriptFails(c) \/ ScriptTraps(c)
    BY <2>4, TrapsSeen
  <2>5. CASE Deadline(c) \/ HangUp(c)
    BY <2>5, StaysSeen DEF Deadline, HangUp
  <2> QED
    BY <1>1, <2>1, <2>2, <2>3, <2>4, <2>5 DEF Step
<1>2. ASSUME NEW c \in Callers, NEW q \in Asks, Begin(c, q) PROVE SeenInv'
  BY <1>2, BeginsSeen
<1>3. ASSUME NEW c \in Callers, NEW name \in Names, ScriptInvokes(c, name) PROVE SeenInv'
  BY <1>3, InvokesSeen
<1>4. CASE CloseEngine \/ UNCHANGED vars
  BY <1>4, StaysSeen DEF CloseEngine, vars, store
<1>5. CASE Edit
  BY <1>5, EditsSeen
<1> QED
  BY <1>1, <1>2, <1>3, <1>4, <1>5 DEF Next

\* As it is said of what is sent.
Sent(f, mw, chain) ==
  LET md == Intended(chain, f.own, f.ask.explicit)
      Setters(k) == { m \in DOMAIN mw : k \in DOMAIN Stamps[mw[m]] }
  IN /\ f.bodies = [m \in 1..f.n |-> <<m>> \o mw]
     /\ f.md = [k \in Keys |-> IF mw = <<>> THEN md[k]
                               ELSE IF Setters(k) # {} THEN Stamps[mw[Max(Setters(k))]][k]
                               ELSE FirstOnly(md[k])]

LEMMA SentIsComplete ==
  ASSUME Good, HistInv, SeenInv
  PROVE  NothingDropped
<1> SUFFICES ASSUME NEW c \in Callers, NEW n \in DOMAIN stack[c],
                    stack[c][n].pc = "sent", stack[c][n].steady
             PROVE  LET f == stack[c][n]
                        item == Lookup(f.ask.name)
                        mw == IF item = None THEN <<>> ELSE Attached[item]
                        chain == IF f.ask.name = None \/ ~folder THEN <<>> ELSE ScriptChain
                        md == Intended(chain, f.own, f.ask.explicit)
                        Sets(k) == { m \in DOMAIN mw : k \in DOMAIN Stamps[mw[m]] }
                    IN /\ f.bodies = [m \in 1..f.n |-> <<m>> \o mw]
                       /\ f.md = [k \in Keys |-> IF mw = <<>> THEN md[k]
                                                 ELSE IF Sets(k) # {} THEN Stamps[mw[Max(Sets(k))]][k]
                                                 ELSE FirstOnly(md[k])]
  BY DEF NothingDropped
<1>1. PICK f : f = stack[c][n]
  OBVIOUS
<1>2. PICK mw, chain : mw = MiddlewareOf(f.ask.name) /\ chain = ScriptsOver(f.ask.name)
  OBVIOUS
<1>3. n \in 1..Len(stack[c])
  BY SeqOf DEF Good, StackInv
<1>4. Saw(f, mw, chain) /\ f.ask.name \in Names \cup {None}
  BY <1>1, <1>2, <1>3 DEF SeenInv, SeesNow, Saw
<1>5. IsSeq(mw) /\ IsChain(chain)
  BY <1>2, <1>4, StoreSays DEF HistInv
<1>6. Complete(f, mw, chain) /\ f.n \in Nat \ {0}
  BY <1>1, <1>4 DEF Saw
<1>7. DOMAIN mw = 1..Len(mw) /\ Len(mw) \in Nat
  BY <1>5, SeqDomain
<1>8. f.bodies = [m \in 1..f.n |-> <<m>> \o mw]
  <2>1. \A m \in 1..f.n : Bodies(f.n, mw, f.n + 1, 0)[m] = <<m>> \o mw
    <3> TAKE m \in 1..f.n
    <3>1. m < f.n + 1
      BY <1>6
    <3>2. Bodies(f.n, mw, f.n + 1, 0)[m] = Through(m, mw, Len(mw))
      BY <3>1 DEF Bodies
    <3> QED
      BY <1>5, <3>2, ThroughAll
  <2> QED
    BY <1>6, <2>1 DEF Complete, Bodies
<1> DEFINE md == Intended(chain, f.own, f.ask.explicit)
           Set(k) == { m \in DOMAIN mw : k \in DOMAIN Stamps[mw[m]] }
<1>9. f.md = [k \in Keys |-> IF mw = <<>> THEN md[k]
                             ELSE IF Set(k) # {} THEN Stamps[mw[Max(Set(k))]][k]
                             ELSE FirstOnly(md[k])]
  <2>1. CASE mw = <<>>
    <3>1. f.md = md
      BY <1>6, <2>1 DEF Complete
    <3>2. md = [k \in Keys |-> md[k]]
      BY DEF Intended
    <3> HIDE DEF md
    <3> QED
      BY <2>1, <3>1, <3>2
  <2>2. CASE mw # <<>>
    <3>1. f.md = Midway(mw, md, f.n + 1, 0)
      BY <1>6, <2>2 DEF Complete
    <3>2. \A k : StampedIn(mw, k, 0) = {} /\ StampedIn(mw, k, Len(mw)) = Set(k)
      BY <1>7 DEF StampedIn
    <3>3. f.n + 1 > 1
      BY <1>6
    <3>4. \A k \in Keys : Midway(mw, md, f.n + 1, 0)[k] = IF Set(k) # {} THEN Stamps[mw[Max(Set(k))]][k]
                                                          ELSE FirstOnly(md[k])
      <4> HIDE DEF md
      <4> QED
        BY <3>2, <3>3 DEF Midway, Stamp
    <3> HIDE DEF md
    <3> QED
      BY <2>2, <3>1, <3>4 DEF Midway
  <2> QED
    BY <2>1, <2>2
<1>10. /\ mw = IF Lookup(f.ask.name) = None THEN <<>> ELSE Attached[Lookup(f.ask.name)]
       /\ chain = IF f.ask.name = None \/ ~folder THEN <<>> ELSE ScriptChain
  BY <1>2 DEF MiddlewareOf, ScriptsOver
<1>11. Sent(f, mw, chain)
  BY <1>8, <1>9 DEF Sent
<1>12. Sent(stack[c][n],
            IF Lookup(stack[c][n].ask.name) = None THEN <<>> ELSE Attached[Lookup(stack[c][n].ask.name)],
            IF stack[c][n].ask.name = None \/ ~folder THEN <<>> ELSE ScriptChain)
  BY <1>1, <1>10, <1>11
<1> QED
  BY <1>12, Zenon DEF Sent

LEMMA StartsSeeing == Init => SeenInv
<1> SUFFICES ASSUME Init PROVE SeenInv
  OBVIOUS
<1>1. \A c \in Callers : stack[c] = <<>>
  BY DEF Init
<1>2. \A c \in Callers : 1..Len(stack[c]) = {}
  BY <1>1, EmptyChain
<1> QED
  BY <1>2 DEF SeenInv

\* However deep an invocation is nested, whatever the other callers do and whatever
\* its own scripts invoke: if nothing was moved while it ran, every message it sends
\* has been through all of the request's middleware, in order, and carries the
\* metadata of the whole chain of folders as foldAncestorMetadata and the middleware
\* are meant to combine it.
THEOREM SentWhole == Spec => []NothingDropped
<1>1. Init => Good /\ HistInv /\ SeenInv
  BY StartsGood, StartsListed, StartsSeeing
<1>2. Good /\ HistInv /\ SeenInv /\ [Next]_vars => (Good /\ HistInv /\ SeenInv)'
  BY StepKeeps, StepLists, StepSees
<1>3. Good /\ HistInv /\ SeenInv => NothingDropped
  BY SentIsComplete
<1> QED
  BY <1>1, <1>2, <1>3, PTL DEF Spec
==============================================================================
