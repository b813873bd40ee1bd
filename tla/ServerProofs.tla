------------------------------ MODULE ServerProofs ------------------------------
(***************************************************************************)
(* Proofs about how a client gets a server and keeps it, for any number of *)
(* clients, processes, calls and failures, and any timeouts.               *)
(*                                                                         *)
(* First the rendezvous (Daemon): as long as servers only crash and other  *)
(* workspaces only take ports, there is one server per workspace, the part *)
(* of the rendezvous that the spawn lock and the repeated probe do         *)
(* achieve.  Then what goes on with the server that was found (Session): a *)
(* repaired connection does not apply a write twice, a stream's frames     *)
(* come from one server, an idle server is gone by the end of its timeout, *)
(* and one that a session heartbeats is not idle that long.                *)
(***************************************************************************)
EXTENDS Daemon, Session, FiniteSetTheorems, TLAPS

(* The rendezvous. *)

\* A client that is about to use the registration it read has one, one that
\* waits for a child has a child, and a server that listens has a port.
Carried ==
  /\ \A c \in Clients :
       /\ pc[c] \in {"firstSeen", "lockedSeen", "waitSeen", "stopCall", "stopWait"}
            => seen[c] \in Registration
       /\ pc[c] \in {"wait", "waitSeen"} => child[c] \in Pids
  /\ \A p \in Pids : Listening(p) => port[p] \in Ports

TypeInv == TypeOK /\ Carried

LEMMA TypeInit == Init => TypeInv
<1> SUFFICES ASSUME Init PROVE TypeInv
  OBVIOUS
<1> USE DEF Init, ProcessStates, ClientStates
<1>1. op \in [Clients -> {"connect", "shutdown"}]
  OBVIOUS
<1>2. TypeOK
  BY <1>1 DEF TypeOK
<1>3. Carried
  BY DEF Carried, Listening
<1> QED BY <1>2, <1>3 DEF TypeInv

LEMMA TypeServer ==
  ASSUME TypeInv, NEW p \in Pids, Server(p)
  PROVE  TypeInv'
<1> USE DEF TypeInv, TypeOK, Carried, ProcessStates, ClientStates, clients, Ports,
            Registration, Listening
<1>1. CASE HandServe(p)  BY <1>1 DEF HandServe
<1>2. CASE Bind(p)  BY <1>2 DEF Bind
<1>3. CASE Publish(p)  BY <1>3 DEF Publish
<1>4. CASE IdleExpire(p)  BY <1>4 DEF IdleExpire
<1>5. CASE CloseListener(p)  BY <1>5 DEF CloseListener
<1>6. CASE DrainEnd(p)  BY <1>6 DEF DrainEnd
<1>7. CASE Exit(p)  BY <1>7 DEF Exit
<1>8. CASE Crash(p)  BY <1>8 DEF Crash
<1>9. CASE Reuse(p)  BY <1>9 DEF Reuse
<1> QED BY <1>1, <1>2, <1>3, <1>4, <1>5, <1>6, <1>7, <1>8, <1>9 DEF Server

LEMMA TypeClient ==
  ASSUME TypeInv, NEW c \in Clients, Client(c)
  PROVE  TypeInv'
<1> USE DEF TypeInv, TypeOK, Carried, ProcessStates, ClientStates, servers, Ports,
            Registration, Listening, Goto, Return
<1>1. CASE Call(c)  BY <1>1 DEF Call
<1>2. CASE ReadReg(c)  BY <1>2 DEF ReadReg, AfterRead
<1>3. CASE ReadNothing(c)  BY <1>3 DEF ReadNothing, NotFound
<1>4. CASE ProbeFails(c)  BY <1>4 DEF ProbeFails, NotFound, AfterRead
<1>5. CASE ProbeAnswered(c)  BY <1>5 DEF ProbeAnswered, Verified, RootMatches
<1>6. CASE TakeLock(c)  BY <1>6 DEF TakeLock
<1>7. CASE StopCall(c)  BY <1>7 DEF StopCall, Answers
<1>8. CASE StopRefused(c)  BY <1>8 DEF StopRefused
<1>9. CASE StopSawDeath(c)  BY <1>9 DEF StopSawDeath, Stopped
<1>10. CASE StopSawUnlink(c)  BY <1>10 DEF StopSawUnlink, Stopped
<1>11. CASE StopDeadline(c)  BY <1>11 DEF StopDeadline, Stopped
<1>12. CASE Spawn(c)
  <2>1. PICK p \in Pids : state[p] = "unborn"
                         /\ state' = [state EXCEPT ![p] = "starting"]
                         /\ build' = [build EXCEPT ![p] = BuildOf[c]]
                         /\ child' = [child EXCEPT ![c] = p]
    BY <1>12 DEF Spawn
  <2>2. BuildOf[c] \in Builds
    BY BuildAssumption
  <2>3. TypeOK'
    BY <1>12, <2>1, <2>2 DEF Spawn
  <2> QED BY <1>12, <2>1, <2>3 DEF Spawn
<1>13. CASE ChildDied(c)  BY <1>13 DEF ChildDied
<1>14. CASE StartupTimeout(c)  BY <1>14 DEF StartupTimeout
<1>15. CASE GiveUp(c)  BY <1>15 DEF GiveUp
<1> QED
  BY <1>1, <1>2, <1>3, <1>4, <1>5, <1>6, <1>7, <1>8, <1>9, <1>10, <1>11, <1>12,
     <1>13, <1>14, <1>15 DEF Client, ClientStep

LEMMA TypeNext == TypeInv /\ [Next]_vars => TypeInv'
<1> SUFFICES ASSUME TypeInv, [Next]_vars PROVE TypeInv'
  OBVIOUS
<1>1. ASSUME NEW p \in Pids, Server(p) PROVE TypeInv'
  BY <1>1, TypeServer
<1>2. ASSUME NEW c \in Clients, Client(c) PROVE TypeInv'
  BY <1>2, TypeClient
<1>3. CASE ForeignUp \/ ForeignDown
  BY <1>3 DEF ForeignUp, ForeignDown, servers, clients, TypeInv, TypeOK, Carried, Listening
<1>4. CASE UNCHANGED vars
  BY <1>4 DEF vars, TypeInv, TypeOK, Carried, Listening
<1> QED BY <1>1, <1>2, <1>3, <1>4 DEF Next

LEMMA TypeAlways == Spec => []TypeInv
<1> QED BY TypeInit, TypeNext, PTL DEF Spec

\* Every variable keeps its type; the proof also needs that nobody uses a
\* registration, a child or a port it does not have.
THEOREM TypeCorrect == Spec => []TypeOK
<1>1. TypeInv => TypeOK
  BY DEF TypeInv
<1> QED BY <1>1, TypeAlways, PTL

-----------------------------------------------------------------------------
(***************************************************************************)
(* The spawn lock.  The holder is always where Connect holds the lock; a   *)
(* client that only stops a server never takes it.                         *)
(***************************************************************************)
UnderLock ==
  {"locked", "lockedSeen", "stopCall", "stopWait", "spawn", "wait", "waitSeen"}

LockInv ==
  /\ \A c \in Clients : op[c] = "connect" => (lock = c <=> pc[c] \in UnderLock)
  /\ \A c \in Clients : op[c] = "shutdown" =>
       /\ lock # c
       /\ pc[c] \in {"idle", "first", "firstSeen", "stopCall", "stopWait", "done"}

LEMMA LockInit == Init => LockInv
<1> SUFFICES ASSUME Init PROVE LockInv
  OBVIOUS
<1> QED BY NoneAssumption DEF Init, LockInv, UnderLock

LEMMA LockClient ==
  ASSUME TypeInv, LockInv, NEW c \in Clients, Client(c)
  PROVE  LockInv'
<1> USE NoneAssumption DEF TypeInv, TypeOK, LockInv, UnderLock, Goto, Return
<1>1. CASE Call(c)  BY <1>1 DEF Call
<1>2. CASE ReadReg(c)  BY <1>2 DEF ReadReg, AfterRead
<1>3. CASE ReadNothing(c)  BY <1>3 DEF ReadNothing, NotFound
<1>4. CASE ProbeFails(c)  BY <1>4 DEF ProbeFails, NotFound, AfterRead
<1>5. CASE ProbeAnswered(c)  BY <1>5 DEF ProbeAnswered
<1>6. CASE TakeLock(c)  BY <1>6 DEF TakeLock
<1>7. CASE StopCall(c)  BY <1>7 DEF StopCall
<1>8. CASE StopRefused(c)  BY <1>8 DEF StopRefused
<1>9. CASE StopSawDeath(c)  BY <1>9 DEF StopSawDeath, Stopped
<1>10. CASE StopSawUnlink(c)  BY <1>10 DEF StopSawUnlink, Stopped
<1>11. CASE StopDeadline(c)  BY <1>11 DEF StopDeadline, Stopped
<1>12. CASE Spawn(c)  BY <1>12 DEF Spawn
<1>13. CASE ChildDied(c)  BY <1>13 DEF ChildDied
<1>14. CASE StartupTimeout(c)  BY <1>14 DEF StartupTimeout
<1>15. CASE GiveUp(c)  BY <1>15 DEF GiveUp
<1> QED
  BY <1>1, <1>2, <1>3, <1>4, <1>5, <1>6, <1>7, <1>8, <1>9, <1>10, <1>11, <1>12,
     <1>13, <1>14, <1>15 DEF Client, ClientStep

LEMMA LockNext == TypeInv /\ LockInv /\ [Next]_vars => LockInv'
<1> SUFFICES ASSUME TypeInv, LockInv, [Next]_vars PROVE LockInv'
  OBVIOUS
<1>1. ASSUME NEW p \in Pids, Server(p) PROVE LockInv'
  <2>1. UNCHANGED <<lock, clients>>
    BY <1>1 DEF Server, HandServe, Bind, Publish, IdleExpire, CloseListener, DrainEnd,
                Exit, Crash, Reuse
  <2> QED BY <2>1 DEF LockInv, clients
<1>2. ASSUME NEW c \in Clients, Client(c) PROVE LockInv'
  BY <1>2, LockClient
<1>3. CASE ForeignUp \/ ForeignDown \/ UNCHANGED vars
  BY <1>3 DEF ForeignUp, ForeignDown, vars, clients, LockInv
<1> QED BY <1>1, <1>2, <1>3 DEF Next

\* Whatever its surroundings do, a connecting client holds the spawn lock
\* exactly from taking it to returning.
THEOREM LockDiscipline == Spec => []LockCoversSpawn
<1>1. LockInv => LockCoversSpawn
  BY DEF LockInv, LockCoversSpawn, UnderLock
<1> QED BY LockInit, LockNext, TypeAlways, <1>1, PTL DEF Spec

-----------------------------------------------------------------------------
\* A client never ends up on another workspace's server, whatever is written
\* in the registration and whoever took its port.
THEOREM NoForeignAdoption == Spec => []NeverAdoptsForeign
<1>1. Init => NeverAdoptsForeign
  BY NoneAssumption DEF Init, NeverAdoptsForeign
<1>2. TypeInv /\ NeverAdoptsForeign /\ [Next]_vars => NeverAdoptsForeign'
  <2> SUFFICES ASSUME TypeInv, NeverAdoptsForeign, [Next]_vars
               PROVE  NeverAdoptsForeign'
    OBVIOUS
  <2>1. CASE UNCHANGED result
    BY <2>1 DEF NeverAdoptsForeign
  <2>2. ASSUME NEW c \in Clients, NEW r \in Pids \cup {"ok", "error"}, Return(c, r)
        PROVE  NeverAdoptsForeign'
    BY <2>2, NoneAssumption DEF Return, NeverAdoptsForeign, TypeInv, TypeOK
  <2>3. ASSUME NEW c \in Clients, Client(c)
        PROVE  UNCHANGED result \/ \E r \in Pids \cup {"ok", "error"} : Return(c, r)
    <3>1. CASE ProbeAnswered(c)
      BY <3>1 DEF ProbeAnswered, Verified, RootMatches
    <3>2. CASE ReadNothing(c) \/ ProbeFails(c)
      BY <3>2 DEF ReadNothing, ProbeFails, NotFound
    <3>3. CASE StopSawDeath(c) \/ StopSawUnlink(c) \/ StopDeadline(c)
      BY <3>3 DEF StopSawDeath, StopSawUnlink, StopDeadline, Stopped
    <3>4. CASE StopRefused(c) \/ ChildDied(c) \/ StartupTimeout(c) \/ GiveUp(c)
      BY <3>4 DEF StopRefused, ChildDied, StartupTimeout, GiveUp
    <3>5. CASE Call(c) \/ ReadReg(c) \/ TakeLock(c) \/ StopCall(c) \/ Spawn(c)
      BY <3>5 DEF Call, ReadReg, TakeLock, StopCall, Spawn
    <3> QED BY <2>3, <3>1, <3>2, <3>3, <3>4, <3>5 DEF Client, ClientStep
  <2>4. ASSUME NEW p \in Pids, Server(p) PROVE UNCHANGED result
    BY <2>4 DEF Server, HandServe, Bind, Publish, IdleExpire, CloseListener, DrainEnd,
                Exit, Crash, Reuse, clients
  <2> QED BY <2>1, <2>2, <2>3, <2>4 DEF Next, ForeignUp, ForeignDown, clients, vars
<1> QED BY <1>1, <1>2, TypeAlways, PTL DEF Spec
------------------------------------------------------------------------------
(* One server. *)

\* Nobody idles out, is stopped outside the lock, is started by hand, gives
\* up on a child or answers late, and no pid is reused.
QuietEnv == Env \subseteq {"crash", "foreign"}

Inv == TypeInv /\ LockInv /\ SoloInv

LEMMA SoloInit == QuietEnv /\ Init => SoloInv
<1> SUFFICES ASSUME QuietEnv, Init PROVE SoloInv
  OBVIOUS
<1> QED
  BY NoneAssumption DEF QuietEnv, Init, SoloInv, RegisteredIsUp, ChangesUnderLock,
     HolderKnows, HolderAt, Up

LEMMA SoloServer ==
  ASSUME QuietEnv, Inv, NEW p \in Pids, Server(p)
  PROVE  SoloInv'
<1> USE NoneAssumption
    DEF QuietEnv, Inv, TypeInv, TypeOK, SoloInv, RegisteredIsUp, ChangesUnderLock, HolderKnows,
        HolderAt, Up, clients
<1>1. CASE Bind(p)  BY <1>1 DEF Bind
<1>2. CASE Publish(p)
  \* The holder waits for p, so nothing else is up to be registered.
  <2>1. HolderAt({"wait", "waitSeen"}) /\ child[lock] = p
    BY <1>2 DEF Publish
  <2>2. port[p] \in Ports
    BY <1>2 DEF Publish, Carried, Listening
  <2>3. reg' \in Registration /\ reg'.pid = p /\ reg'.port = port[p]
    BY <1>2, <2>2 DEF Publish, Registration
  <2>4. \A q \in Pids : Up(q) => q = p
    BY <2>1
  <2>5. RegisteredIsUp'
    BY <1>2, <2>3, <2>4 DEF Publish
  <2>6. ChangesUnderLock'
    BY <1>2, <2>4 DEF Publish
  <2>7. HolderKnows'
    BY <1>2, <2>1, <2>4 DEF Publish
  <2> QED BY <1>2, <2>5, <2>6, <2>7 DEF Publish
<1>3. CASE CloseListener(p)  BY <1>3 DEF CloseListener
<1>4. CASE DrainEnd(p)  BY <1>4 DEF DrainEnd
<1>5. CASE Exit(p)  BY <1>5 DEF Exit
<1>6. CASE Crash(p)  BY <1>6 DEF Crash
<1>7. ~ HandServe(p) /\ ~ IdleExpire(p) /\ ~ Reuse(p)
  BY DEF HandServe, IdleExpire, Reuse
<1> QED BY <1>1, <1>2, <1>3, <1>4, <1>5, <1>6, <1>7 DEF Server

\* A client that does not hold the lock disturbs nothing by moving on.
LEMMA Bystander ==
  ASSUME Inv, NEW c \in Clients, lock # c,
         UNCHANGED <<state, port, reg, lock, op, child>>,
         \A d \in Clients : d # c => pc'[d] = pc[d] /\ seen'[d] = seen[d]
  PROVE  SoloInv'
BY DEF Inv, SoloInv, RegisteredIsUp, ChangesUnderLock, HolderKnows, HolderAt, Up

\* Nor does the holder by letting go, when nothing is coming up or down.
LEMMA Release ==
  ASSUME Inv, lock' = None, UNCHANGED <<state, port, reg, op>>,
         \A p \in Pids : state[p] \notin {"starting", "bound", "stopping", "draining"}
  PROVE  SoloInv'
BY NoneAssumption
   DEF Inv, SoloInv, RegisteredIsUp, ChangesUnderLock, HolderKnows, HolderAt, Up

LEMMA SoloClient ==
  ASSUME QuietEnv, Inv, NEW c \in Clients, Client(c)
  PROVE  SoloInv'
<1> USE NoneAssumption
    DEF QuietEnv, Inv, TypeInv, TypeOK, LockInv, UnderLock, SoloInv, RegisteredIsUp, ChangesUnderLock,
        HolderKnows, HolderAt, Up, servers, Goto, Return
<1>1. CASE Call(c)  BY <1>1 DEF Call
<1>2. CASE ReadReg(c)
  <2>1. reg \in Registration /\ seen' = [seen EXCEPT ![c] = reg]
    BY <1>2 DEF ReadReg
  <2>2. reg = [pid |-> reg.pid, port |-> reg.port]
    BY <2>1 DEF Registration
  <2>3. CASE pc[c] = "first"
    <3>1. lock # c
      BY <2>3
    <3> QED BY <1>2, <2>1, <3>1, Bystander DEF ReadReg, AfterRead
  <2>4. CASE pc[c] = "locked"
    <3>1. lock = c /\ pc' = [pc EXCEPT ![c] = "lockedSeen"]
      BY <1>2, <2>4 DEF ReadReg, AfterRead
    <3>2. \A p \in Pids : Up(p) => state[p] = "serving"
      BY <2>4, <3>1
    <3>3. \A p \in Pids : Up(p) => reg = [pid |-> p, port |-> port[p]]
      BY <2>2, <3>2
    <3> QED BY <1>2, <2>1, <2>4, <3>1, <3>2, <3>3 DEF ReadReg
  <2>5. CASE pc[c] = "wait"
    <3>1. lock = c /\ pc' = [pc EXCEPT ![c] = "waitSeen"]
      BY <1>2, <2>5 DEF ReadReg, AfterRead
    <3>2. reg.pid \in Pids
      BY <2>1 DEF Registration
    <3>3. state[reg.pid] \in {"serving", "dead"}
      BY <2>1, <2>5, <3>1, <3>2
    <3> QED BY <1>2, <2>1, <2>5, <3>1, <3>3 DEF ReadReg
  <2> QED BY <1>2, <2>3, <2>4, <2>5 DEF ReadReg
<1>3. CASE ReadNothing(c)  BY <1>3 DEF ReadNothing, NotFound
<1>4. CASE ProbeFails(c)
  <2>1. seen' = [seen EXCEPT ![c] = None]
    BY <1>4 DEF ProbeFails
  <2>a. DOMAIN AfterRead = {"first", "locked", "wait"}
    BY DEF AfterRead
  <2>b. PICK at \in {"first", "locked", "wait"} : pc[c] = AfterRead[at] /\ NotFound(c, at)
    BY <1>4, <2>a DEF ProbeFails
  <2>2. CASE pc[c] = "firstSeen"
    <3>1. lock # c /\ (lock' = lock) /\ pc' = [pc EXCEPT ![c] = "lockWait"]
      <4>1. at = "first"
        BY <2>b, <2>2 DEF AfterRead
      <4> QED BY <2>b, <2>2, <4>1 DEF NotFound
    <3> QED BY <1>4, <2>1, <3>1, Bystander DEF ProbeFails
  <2>3. CASE pc[c] = "lockedSeen"
    <3>1. lock = c /\ (lock' = lock) /\ pc' = [pc EXCEPT ![c] = "spawn"]
      <4>1. at = "locked"
        BY <2>b, <2>3 DEF AfterRead
      <4> QED BY <2>b, <2>3, <4>1 DEF NotFound
    <3>2. \A p \in Pids : ~ Verified(seen[c], p)
      BY <1>4 DEF ProbeFails, Unverified
    <3>3. ASSUME NEW p \in Pids, Up(p) PROVE FALSE
      <4>1. state[p] = "serving" /\ seen[c] = [pid |-> p, port |-> port[p]]
        BY <2>3, <3>1, <3>3
      <4>2. p # Foreign
        OBVIOUS
      <4> QED BY <3>2, <4>1, <4>2 DEF Verified, Alive, Answers, Listening, RootMatches
    <3> QED BY <1>4, <2>1, <2>3, <3>1, <3>3 DEF ProbeFails
  <2>4. CASE pc[c] = "waitSeen"
    <3>1. lock = c /\ (lock' = lock) /\ pc' = [pc EXCEPT ![c] = "wait"]
      <4>1. at = "wait"
        BY <2>b, <2>4 DEF AfterRead
      <4> QED BY <2>b, <2>4, <4>1 DEF NotFound
    <3> QED BY <1>4, <2>1, <2>4, <3>1 DEF ProbeFails
  <2> QED BY <1>4, <2>2, <2>3, <2>4 DEF ProbeFails, AfterRead
<1>5. CASE ProbeAnswered(c)
  <2>1. PICK q \in Pids : Verified(seen[c], q) /\ seen' = [seen EXCEPT ![c].pid = q]
    BY <1>5 DEF ProbeAnswered, Verified, RootMatches
  <2>2. Listening(q) /\ port[q] = seen[c].port /\ Alive(seen[c].pid)
    BY <2>1 DEF Verified, Answers
  <2>3. seen[c] \in Registration /\ seen'[c].pid = q
    BY <1>5, <2>1 DEF ProbeAnswered, Carried, Registration
  <2>4. CASE pc[c] = "firstSeen"
    <3>1. lock # c /\ (lock' = lock)
      BY <1>5, <2>4 DEF ProbeAnswered
    <3>2. pc'[c] \notin UnderLock /\ \A d \in Clients : d # c => pc'[d] = pc[d] /\ seen'[d] = seen[d]
      BY <1>5, <2>1, <2>4 DEF ProbeAnswered
    <3> QED BY <1>5, <3>1, <3>2, Bystander DEF ProbeAnswered
  <2>5. CASE pc[c] = "lockedSeen"
    <3>1. lock = c
      BY <2>5
    <3>2. \A p \in Pids : Up(p) => state[p] = "serving" /\ p = q
      BY <2>2, <2>5, <3>1 DEF Listening
    <3>3. \/ lock' = None
          \/ lock' = c /\ pc'[c] = "stopCall"
      BY <1>5, <2>5, <3>1 DEF ProbeAnswered
    <3> QED BY <1>5, <2>3, <2>5, <3>1, <3>2, <3>3 DEF ProbeAnswered
  <2>6. CASE pc[c] = "waitSeen"
    <3>1. lock = c /\ lock' = None
      BY <1>5, <2>6 DEF ProbeAnswered
    <3>2. state[seen[c].pid] = "serving" /\ seen[c].pid \in Pids
      BY <2>2, <2>3, <2>6, <3>1 DEF Alive, Registration
    <3>3. \A p \in Pids : Up(p) => p = seen[c].pid
      BY <2>6, <3>1, <3>2
    <3>4. \A p \in Pids : state[p] \notin {"starting", "bound", "stopping", "draining"}
      BY <2>6, <3>1, <3>2, <3>3
    <3> QED BY <1>5, <3>1, <3>4, Release DEF ProbeAnswered
  <2> QED BY <1>5, <2>4, <2>5, <2>6 DEF ProbeAnswered
<1>6. CASE TakeLock(c)  BY <1>6 DEF TakeLock
<1>7. CASE StopCall(c)
  <2>1. lock = c /\ pc' = [pc EXCEPT ![c] = "stopWait"] /\ UNCHANGED <<port, reg, lock, op, seen, child>>
    BY <1>7 DEF StopCall
  <2>2. \A q \in Pids : \/ state'[q] = state[q]
                        \/ state[q] = "serving" /\ state'[q] = "stopping"
    BY <1>7 DEF StopCall
  <2>3. state' \in [Pids -> ProcessStates]
    BY <1>7 DEF StopCall, ProcessStates
  <2> QED BY <1>7, <2>1, <2>2, <2>3 DEF StopCall
<1>8. CASE StopRefused(c)
  <2>1. lock = c
    BY <1>8 DEF StopRefused
  <2>2. \A p \in Pids : state[p] \notin {"starting", "bound", "stopping", "draining"}
    BY <1>8, <2>1 DEF StopRefused
  <2> QED BY <1>8, <2>1, <2>2 DEF StopRefused
<1>9. CASE StopSawDeath(c)  BY <1>9 DEF StopSawDeath, Stopped, Alive
<1>10. CASE StopSawUnlink(c)  BY <1>10 DEF StopSawUnlink, Stopped
<1>11. CASE StopDeadline(c)  BY <1>11 DEF StopDeadline, Stopped
<1>12. CASE Spawn(c)  BY <1>12 DEF Spawn
<1>13. CASE ChildDied(c)  BY <1>13 DEF ChildDied
<1>14. ~ StartupTimeout(c) /\ ~ GiveUp(c)
  BY DEF StartupTimeout, GiveUp
<1> QED
  BY <1>1, <1>2, <1>3, <1>4, <1>5, <1>6, <1>7, <1>8, <1>9, <1>10, <1>11, <1>12,
     <1>13, <1>14 DEF Client, ClientStep

LEMMA SoloNext == QuietEnv /\ Inv /\ [Next]_vars => SoloInv'
<1> SUFFICES ASSUME QuietEnv, Inv, [Next]_vars PROVE SoloInv'
  OBVIOUS
<1>1. ASSUME NEW p \in Pids, Server(p) PROVE SoloInv'
  BY <1>1, SoloServer
<1>2. ASSUME NEW c \in Clients, Client(c) PROVE SoloInv'
  BY <1>2, SoloClient
<1>3. CASE ForeignUp \/ ForeignDown \/ UNCHANGED vars
  <2>1. UNCHANGED <<state, port, reg, lock, op, child, pc, seen>>
    BY <1>3 DEF ForeignUp, ForeignDown, servers, clients, vars
  <2> QED
    BY <2>1 DEF Inv, SoloInv, RegisteredIsUp, ChangesUnderLock, HolderKnows, HolderAt, Up
<1> QED BY <1>1, <1>2, <1>3 DEF Next

LEMMA SoloIsOne == Inv => OneServer
<1> SUFFICES ASSUME Inv, NEW p \in Pids, NEW q \in Pids, Listening(p), Listening(q)
             PROVE  p = q
  BY DEF OneServer
<1>1. CASE state[p] = "bound" \/ state[q] = "bound"
  \* One of them is the child somebody waits for: then so is the other.
  BY <1>1 DEF Inv, SoloInv, ChangesUnderLock, HolderKnows, HolderAt, Up, Listening
<1>2. CASE state[p] # "bound" /\ state[q] # "bound"
  \* Both are published: the registration names both.
  BY <1>2 DEF Inv, SoloInv, RegisteredIsUp, Listening
<1> QED BY <1>1, <1>2

\* However many clients look for a server at once, of whatever builds, and
\* whatever crashes: no two servers accept requests for the workspace, as long
\* as a server goes away only by crashing or by a restart under the lock.
THEOREM SingleServer ==
  ASSUME QuietEnv
  PROVE  Spec => []OneServer
<1>1. Init => Inv
  BY TypeInit, LockInit, SoloInit DEF Inv
<1>2. Inv /\ [Next]_vars => Inv'
  BY TypeNext, LockNext, SoloNext DEF Inv
<1> QED BY <1>1, <1>2, SoloIsOne, PTL DEF Spec

------------------------------------------------------------------------------
(* The session. *)

Serving == {"sent", "handling", "worked"}
Underway == Serving \cup {"dialing", "failed", "redialed"}

ServerSet ==
  [state : {"down", "up", "draining"}, gen : Gens, after : Afters \cup {0},
   inflight : SUBSET All, quiet : 0..MaxAfter+1, alarm : 0..Max(Afters \cup {DrainTimeout})]
CallSet ==
  [kind : Kinds, at : Urls \cup {NoUrl}, again : BOOLEAN, failure : {"none", "unsent", "broken"},
   pc : {"idle", "dialing", "sent", "handling", "worked", "failed", "redialed", "ok", "error"}]
KeepSet == [on : BOOLEAN, every : MinBeat..MaxBeat, next : 0..MaxBeat, missed : 0..2, held : Gens]
DoneSet == [applied : 0..2, from : SUBSET Gens]
CountSet == [servers : 1..MaxServers, faults : Nat]

\* What a call has done, by where it is: nothing before it is handled, and nothing
\* when it failed before it was sent.
Fits(x, y) ==
  /\ x.pc \in Underway => x.at \in Urls
  /\ x.pc = "idle" => x.kind = "read"
  /\ x.pc = "worked" => x.kind = "write"
  /\ x.kind # "write" => y.applied = 0
  /\ x.kind # "stream" => y.from = {}
  /\ y.applied <= 1
  /\ x.pc \in {"dialing", "sent", "handling"} => y.applied = 0
  /\ x.pc \in {"failed", "redialed"} /\ x.failure = "unsent" => y.applied = 0
  /\ x.kind = "write" /\ x.pc \in {"worked", "ok"} => y.applied = 1
  /\ x.pc \in {"dialing", "sent"} => y.from = {}
  /\ \E g \in Gens : y.from \subseteq {g}

\* Whoever serves a call is there, and has sent all its frames.
ServedBy(x, y, s) ==
  x.pc \in Serving => s[x.at].state # "down" /\ y.from \subseteq {s[x.at].gen}

SessionInv ==
  /\ server \in [Urls -> ServerSet] /\ current \in Urls
  /\ call \in [All -> CallSet] /\ keep \in KeepSet /\ done \in [All -> DoneSet] /\ count \in CountSet
  /\ call[Beat].kind = "read"
  /\ \A c \in All : Fits(call[c], done[c]) /\ ServedBy(call[c], done[c], server)
------------------------------------------------------------------------------
(* Times. *)

LEMMA MinOfTwo ==
  ASSUME NEW a \in Nat, NEW b \in Nat
  PROVE  Min({a, b}) \in Nat /\ Min({a, b}) <= a /\ Min({a, b}) <= b /\ Min({a, b}) \in {a, b}
<1>1. \E x \in {a, b} : \A y \in {a, b} : x <= y
  BY SMT
<1>2. PICK m : m = Min({a, b})
  OBVIOUS
<1>3. m \in {a, b} /\ \A y \in {a, b} : m <= y
  BY <1>1, <1>2 DEF Min
<1> QED
  BY <1>2, <1>3

LEMMA MaxOf ==
  ASSUME NEW S, S \subseteq Nat, NEW top \in S, \A a \in S : a <= top
  PROVE  Max(S) \in S /\ \A a \in S : a <= Max(S)
<1>1. \E x \in S : \A y \in S : x >= y
  OBVIOUS
<1>2. PICK m : m = Max(S)
  OBVIOUS
<1>3. m \in S /\ \A y \in S : m >= y
  BY <1>1, <1>2 DEF Max
<1> QED
  BY <1>2, <1>3

LEMMA Longest ==
  /\ MaxAfter \in Nat /\ \A a \in Afters : a \in Nat \ {0} /\ a <= MaxAfter
  /\ Max(Afters \cup {DrainTimeout}) \in Nat
  /\ \A a \in Afters \cup {DrainTimeout} : a <= Max(Afters \cup {DrainTimeout})
<1>1. PICK longest \in Afters : \A a \in Afters : a <= longest
  BY TimesAssumption
<1>2. Afters \subseteq Nat \ {0} /\ DrainTimeout \in Nat \ {0}
  BY TimesAssumption
<1>3. Max(Afters) \in Afters /\ \A a \in Afters : a <= Max(Afters)
  BY <1>1, <1>2, MaxOf
<1>4. PICK S : S = Afters \cup {DrainTimeout}
  OBVIOUS
<1>5. PICK top \in S : top = IF longest <= DrainTimeout THEN DrainTimeout ELSE longest
  BY <1>1, <1>4
<1>6. S \subseteq Nat /\ \A a \in S : a <= top
  BY <1>1, <1>2, <1>4, <1>5
<1>7. Max(S) \in S /\ \A a \in S : a <= Max(S)
  BY <1>6, MaxOf
<1> QED
  BY <1>2, <1>3, <1>4, <1>6, <1>7 DEF MaxAfter

LEMMA IntervalType ==
  ASSUME NEW idle \in Nat
  PROVE  Interval(idle) \in MinBeat..MaxBeat
<1>1. PICK d : d = idle \div BeatsPerIdle
  OBVIOUS
<1>2. d \in Nat
  BY <1>1, TimesAssumption
<1>3. PICK m : m = Max({MinBeat, d})
  OBVIOUS
<1>4. m \in {MinBeat, d} /\ MinBeat <= m /\ m \in Nat
  <2>1. PICK top \in {MinBeat, d} : top = IF d <= MinBeat THEN MinBeat ELSE d
    OBVIOUS
  <2>2. {MinBeat, d} \subseteq Nat /\ \A a \in {MinBeat, d} : a <= top
    BY <1>2, <2>1, TimesAssumption
  <2> QED
    BY <1>3, <2>2, MaxOf
<1>5. Interval(idle) = Min({MaxBeat, m})
  BY <1>1, <1>3 DEF Interval
<1>6. Min({MaxBeat, m}) \in Nat /\ Min({MaxBeat, m}) <= MaxBeat /\ Min({MaxBeat, m}) \in {MaxBeat, m}
  BY <1>4, MinOfTwo, TimesAssumption
<1> QED
  BY <1>4, <1>5, <1>6, TimesAssumption
------------------------------------------------------------------------------
(* One call at a time. *)

\* A call changes, and no server goes down or is replaced.
LEMMA OneCall ==
  ASSUME SessionInv, NEW c \in All,
         NEW x \in CallSet, call' = [call EXCEPT ![c] = x],
         NEW y \in DoneSet, done' = [done EXCEPT ![c] = y],
         Fits(x, y), ServedBy(x, y, server'), c = Beat => x.kind = "read",
         server' \in [Urls -> ServerSet],
         \A u \in Urls : server[u].state # "down" =>
           server'[u].state # "down" /\ server'[u].gen = server[u].gen,
         current' \in Urls, keep' \in KeepSet, count' \in CountSet
  PROVE  SessionInv'
<1>1. call' \in [All -> CallSet] /\ done' \in [All -> DoneSet]
  BY DEF SessionInv
<1>2. call'[c] = x /\ done'[c] = y
  BY DEF SessionInv
<1>3. \A d \in All : d # c => call'[d] = call[d] /\ done'[d] = done[d]
  BY DEF SessionInv
<1>4. call'[Beat].kind = "read"
  BY <1>2, <1>3 DEF SessionInv, All
<1>5. ASSUME NEW d \in All
      PROVE  Fits(call'[d], done'[d]) /\ ServedBy(call'[d], done'[d], server')
  <2>1. CASE d = c
    BY <2>1, <1>2
  <2>2. CASE d # c
    <3>1. Fits(call[d], done[d]) /\ ServedBy(call[d], done[d], server)
      BY DEF SessionInv
    <3>2. ServedBy(call[d], done[d], server')
      BY <3>1 DEF ServedBy, Fits, Underway
    <3> QED
      BY <2>2, <1>3, <3>1, <3>2
  <2> QED
    BY <2>1, <2>2
<1> QED
  BY <1>1, <1>4, <1>5 DEF SessionInv

\* No call changes.
LEMMA NoCall ==
  ASSUME SessionInv, call' = call, done' = done,
         server' \in [Urls -> ServerSet],
         \A u \in Urls : server[u].state # "down" =>
           server'[u].state # "down" /\ server'[u].gen = server[u].gen,
         current' \in Urls, keep' \in KeepSet, count' \in CountSet
  PROVE  SessionInv'
<1>1. ASSUME NEW d \in All
      PROVE  Fits(call'[d], done'[d]) /\ ServedBy(call'[d], done'[d], server')
  <2>1. Fits(call[d], done[d]) /\ ServedBy(call[d], done[d], server)
    BY DEF SessionInv
  <2> QED
    BY <2>1 DEF ServedBy, Fits, Underway
<1> QED
  BY <1>1 DEF SessionInv

LEMMA ReturnedFits ==
  ASSUME NEW x \in CallSet, NEW y, Fits(x, y), NEW c \in All, NEW ok \in BOOLEAN,
         ok /\ x.kind = "write" => y.applied = 1, c = Beat => x.kind = "read"
  PROVE  /\ Returned(x, c, ok) \in CallSet
         /\ Fits(Returned(x, c, ok), y)
         /\ Returned(x, c, ok).kind = x.kind
         /\ Returned(x, c, ok).pc \notin Serving
BY DEF Returned, NewCall, CallSet, Fits, Serving, Underway

LEMMA BeatOverType ==
  ASSUME SessionInv, NEW ok \in BOOLEAN, NEW u, ok => u \in Urls
  PROVE  BeatOver(ok, u) \in KeepSet
<1>1. keep \in KeepSet /\ MinBeat \in Nat \ {0} /\ MaxBeat \in Nat /\ MinBeat <= MaxBeat
  BY TimesAssumption DEF SessionInv
<1>2. CASE ~ ok
  <2>1. PICK m : m = Min({keep.missed + 1, 2})
    OBVIOUS
  <2>2. m \in 0..2
    <3>1. keep.missed + 1 \in Nat
      BY <1>1 DEF KeepSet
    <3> QED
      BY <2>1, <3>1, MinOfTwo
  <2>3. BeatOver(ok, u) = [keep EXCEPT !.next = keep.every, !.missed = m]
    BY <1>2, <2>1 DEF BeatOver
  <2>4. keep.every \in 0..MaxBeat
    BY <1>1 DEF KeepSet
  <2> QED
    BY <1>1, <2>2, <2>3, <2>4 DEF KeepSet
<1>3. CASE ok /\ server[u].after = 0
  BY <1>1, <1>3, BoundsAssumption DEF BeatOver, Over, KeepSet, Gens
<1>4. CASE ok /\ server[u].after # 0
  <2>1. server[u] \in ServerSet
    BY <1>4 DEF SessionInv
  <2>2. server[u].after \in Nat /\ server[u].gen \in Gens
    <3>1. server[u].after \in Afters \cup {0} /\ server[u].gen \in Gens
      BY <2>1 DEF ServerSet
    <3> QED
      BY <3>1, Longest
  <2>3. PICK i : i = Interval(server[u].after)
    OBVIOUS
  <2>4. i \in MinBeat..MaxBeat /\ i \in 0..MaxBeat
    BY <1>1, <2>2, <2>3, IntervalType
  <2> QED
    BY <1>4, <2>2, <2>3, <2>4 DEF BeatOver, KeepSet
<1> QED
  BY <1>2, <1>3, <1>4

\* A call returns to its caller.
LEMMA Returns ==
  ASSUME SessionInv, NEW c \in All, NEW ok \in BOOLEAN, CallReturns(c, ok), done' = done,
         ok /\ call[c].kind = "write" => done[c].applied = 1,
         ok => call[c].at \in Urls,
         server' \in [Urls -> ServerSet],
         \A u \in Urls : server[u].state # "down" =>
           server'[u].state # "down" /\ server'[u].gen = server[u].gen,
         current' \in Urls, count' \in CountSet
  PROVE  SessionInv'
<1>1. call[c] \in CallSet /\ done[c] \in DoneSet /\ Fits(call[c], done[c]) /\ (c = Beat => call[c].kind = "read")
  BY DEF SessionInv
<1>2. PICK x : x = Returned(call[c], c, ok)
  OBVIOUS
<1>3. x \in CallSet /\ Fits(x, done[c]) /\ x.kind = call[c].kind /\ x.pc \notin Serving
  BY <1>1, <1>2, ReturnedFits
<1>4. call' = [call EXCEPT ![c] = x]
  BY <1>2 DEF CallReturns
<1>5. done' = [done EXCEPT ![c] = done[c]]
  BY DEF SessionInv
<1>6. ServedBy(x, done[c], server')
  BY <1>3 DEF ServedBy
<1>7. keep' \in KeepSet
  BY BeatOverType DEF CallReturns, SessionInv
<1> QED
  BY <1>1, <1>3, <1>4, <1>5, <1>6, <1>7, OneCall

\* A call goes on, and nothing else changes.
LEMMA Moves ==
  ASSUME SessionInv, NEW c \in All, NEW x \in CallSet, call' = [call EXCEPT ![c] = x],
         UNCHANGED <<server, keep, done, count>>, current' \in Urls,
         Fits(x, done[c]), ServedBy(x, done[c], server), x.kind = call[c].kind \/ x.kind = "read"
  PROVE  SessionInv'
<1>1. done' = [done EXCEPT ![c] = done[c]] /\ done[c] \in DoneSet
  BY DEF SessionInv
<1>2. c = Beat => x.kind = "read"
  BY DEF SessionInv
<1>3. /\ server' \in [Urls -> ServerSet] /\ keep' \in KeepSet /\ count' \in CountSet
      /\ \A u \in Urls : server'[u] = server[u]
  BY DEF SessionInv
<1>4. ServedBy(x, done[c], server')
  BY DEF ServedBy
<1> QED
  BY <1>1, <1>2, <1>3, <1>4, OneCall

LEMMA CallType ==
  ASSUME SessionInv, NEW c \in All
  PROVE  call[c] \in CallSet /\ done[c] \in DoneSet /\ Fits(call[c], done[c]) /\ ServedBy(call[c], done[c], server)
BY DEF SessionInv

\* The server, the counters and the heartbeat are as they were.
LEMMA Unchanged ==
  ASSUME SessionInv
  PROVE  /\ server' = server => /\ server' \in [Urls -> ServerSet]
                                /\ \A u \in Urls : server[u].state # "down" =>
                                     server'[u].state # "down" /\ server'[u].gen = server[u].gen
         /\ current' = current => current' \in Urls
         /\ keep' = keep => keep' \in KeepSet
         /\ count' = count => count' \in CountSet
         /\ Fault => count' \in CountSet
<1>1. Fault => count' \in CountSet
  <2> SUFFICES ASSUME Fault PROVE count' \in CountSet
    OBVIOUS
  <2>1. count \in CountSet /\ count' = [count EXCEPT !.faults = count.faults + 1]
    BY DEF SessionInv, Fault
  <2> QED
    BY <2>1 DEF CountSet
<1> QED
  BY <1>1 DEF SessionInv

LEMMA Begins ==
  ASSUME SessionInv, NEW c \in All, NEW kind \in Kinds, Begin(c, kind)
  PROVE  SessionInv'
<1>1. /\ call[c].pc = "idle" /\ call' = [call EXCEPT ![c] = NewCall(kind, current, "dialing")]
      /\ UNCHANGED <<server, current, keep, done, count>> /\ (c = Beat => kind = "read")
      /\ current \in Urls
  BY DEF Begin, SessionInv
<1>2. done[c].applied = 0 /\ done[c].from = {} /\ \E g \in Gens : done[c].from \subseteq {g}
  BY <1>1, CallType DEF Fits
<1>3. PICK x : x = NewCall(kind, current, "dialing")
  OBVIOUS
<1>4. x \in CallSet /\ Fits(x, done[c]) /\ ServedBy(x, done[c], server') /\ x.kind = kind
  BY <1>1, <1>2, <1>3 DEF NewCall, CallSet, Fits, ServedBy, Serving, Underway
<1>5. done' = [done EXCEPT ![c] = done[c]] /\ done[c] \in DoneSet
  BY <1>1 DEF SessionInv
<1>6. /\ server' \in [Urls -> ServerSet] /\ keep' \in KeepSet /\ count' \in CountSet
      /\ \A u \in Urls : server[u].state # "down" => server'[u].state # "down" /\ server'[u].gen = server[u].gen
  BY <1>1, Unchanged
<1> QED
  BY <1>1, <1>3, <1>4, <1>5, <1>6, OneCall

LEMMA Dials ==
  ASSUME SessionInv, NEW c \in All, Dial(c)
  PROVE  SessionInv'
<1> DEFINE o == call[c]
<1>1. /\ o.pc = "dialing" /\ o \in CallSet /\ done[c] \in DoneSet /\ Fits(o, done[c])
      /\ o.at \in Urls /\ done[c].applied = 0 /\ done[c].from = {}
      /\ UNCHANGED <<server, current, done, count>> /\ current' \in Urls
  BY CallType, Unchanged DEF Dial, Fits, Underway
<1>2. CASE server[o.at].state = "up"
  <2>1. PICK x : x = [o EXCEPT !.pc = "sent"]
    OBVIOUS
  <2>2. call' = [call EXCEPT ![c] = x] /\ UNCHANGED keep
    BY <1>2, <2>1 DEF Dial, SessionInv
  <2> HIDE DEF o
  <2>3. x \in CallSet /\ x.pc = "sent" /\ x.kind = o.kind /\ x.at = o.at
    BY <1>1, <2>1 DEF CallSet
  <2>4. Fits(x, done[c]) /\ ServedBy(x, done[c], server)
    BY <1>1, <1>2, <2>3 DEF Fits, ServedBy, Underway, Serving
  <2> USE DEF o
  <2> QED
    BY <1>1, <2>2, <2>3, <2>4, Moves
<1>3. CASE CallReturns(c, FALSE)
  BY <1>1, <1>3, Unchanged, Returns
<1>4. CASE call' = [call EXCEPT ![c].pc = "failed", ![c].failure = "unsent"] /\ UNCHANGED keep
  <2>1. PICK x : x = [o EXCEPT !.pc = "failed", !.failure = "unsent"]
    OBVIOUS
  <2>2. call' = [call EXCEPT ![c] = x]
    BY <1>4, <2>1 DEF SessionInv
  <2> HIDE DEF o
  <2>3. x \in CallSet /\ x.pc = "failed" /\ x.kind = o.kind /\ x.at = o.at
    BY <1>1, <2>1 DEF CallSet
  <2>4. Fits(x, done[c]) /\ ServedBy(x, done[c], server)
    BY <1>1, <2>3 DEF Fits, ServedBy, Underway, Serving
  <2> USE DEF o
  <2> QED
    BY <1>1, <1>4, <2>2, <2>3, <2>4, Moves
<1> QED
  BY <1>2, <1>3, <1>4 DEF Dial

\* The timer counts a request in or out: its server stays what it is.
LEMMA Counted ==
  ASSUME SessionInv, NEW u \in Urls, NEW c \in All,
         server' \in {[server EXCEPT ![u] = Entered(server[u], c)], [server EXCEPT ![u] = Left(server[u], c)]}
  PROVE  /\ server' \in [Urls -> ServerSet]
         /\ \A v \in Urls : server'[v].state = server[v].state /\ server'[v].gen = server[v].gen
<1>1. server \in [Urls -> ServerSet] /\ server[u] \in ServerSet
  BY DEF SessionInv
<1>2. PICK t : t \in {Entered(server[u], c), Left(server[u], c)} /\ server' = [server EXCEPT ![u] = t]
  OBVIOUS
<1>3. PICK o : o = server[u]
  OBVIOUS
<1>4. PICK i : i \in {o.inflight \cup {c}, o.inflight \ {c}} /\ t = [o EXCEPT !.inflight = i, !.quiet = 0]
  BY <1>2, <1>3 DEF Entered, Left
<1>5. 0 \in 0..MaxAfter+1
  BY Longest
<1>6. t \in ServerSet /\ t.state = o.state /\ t.gen = o.gen
  BY <1>1, <1>3, <1>4, <1>5 DEF ServerSet
<1> QED
  BY <1>1, <1>2, <1>3, <1>6

LEMMA Arrives ==
  ASSUME SessionInv, NEW c \in All, Arrive(c)
  PROVE  SessionInv'
<1> DEFINE o == call[c]
<1>1. /\ o.pc = "sent" /\ o \in CallSet /\ done[c] \in DoneSet /\ Fits(o, done[c]) /\ ServedBy(o, done[c], server)
      /\ o.at \in Urls /\ done' = [done EXCEPT ![c] = done[c]]
      /\ UNCHANGED <<current, keep, done, count>> /\ current' \in Urls /\ keep' \in KeepSet /\ count' \in CountSet
  BY CallType, Unchanged DEF Arrive, Fits, Underway, Serving, SessionInv
<1>2. /\ server' \in [Urls -> ServerSet]
      /\ \A v \in Urls : server'[v].state = server[v].state /\ server'[v].gen = server[v].gen
  <2>1. server' = [server EXCEPT ![o.at] = Entered(server[o.at], c)]
    BY DEF Arrive
  <2> QED
    BY <1>1, <2>1, Counted
<1>3. PICK x : x = [o EXCEPT !.pc = "handling"]
  OBVIOUS
<1>4. call' = [call EXCEPT ![c] = x]
  BY <1>3 DEF Arrive, SessionInv
<1>5. c = Beat => o.kind = "read"
  BY DEF SessionInv
<1> HIDE DEF o
<1>6. x \in CallSet /\ x.pc = "handling" /\ x.kind = o.kind /\ x.at = o.at
  BY <1>1, <1>3 DEF CallSet
<1>7. Fits(x, done[c]) /\ ServedBy(x, done[c], server')
  BY <1>1, <1>2, <1>6 DEF Fits, ServedBy, Underway, Serving
<1> USE DEF o
<1> QED
  BY <1>1, <1>2, <1>4, <1>5, <1>6, <1>7, OneCall

LEMMA Works ==
  ASSUME SessionInv, NEW c \in All, Work(c)
  PROVE  SessionInv'
<1> DEFINE o == call[c]
           d == done[c]
<1>1. /\ o.pc = "handling" /\ o \in CallSet /\ d \in DoneSet /\ Fits(o, d) /\ ServedBy(o, d, server)
      /\ o.at \in Urls /\ d.applied = 0
      /\ UNCHANGED <<server, current, keep, count>>
  BY CallType DEF Work, Fits, Underway, Serving
<1>2. /\ current' \in Urls /\ keep' \in KeepSet /\ count' \in CountSet /\ server' \in [Urls -> ServerSet]
      /\ \A u \in Urls : server[u].state # "down" => server'[u].state # "down" /\ server'[u].gen = server[u].gen
  BY <1>1, Unchanged
<1>3. c = Beat => o.kind = "read"
  BY DEF SessionInv
<1>4. CASE o.kind = "write" /\ call' = [call EXCEPT ![c].pc = "worked"] /\ done' = [done EXCEPT ![c].applied = @ + 1]
  <2>1. PICK x : x = [o EXCEPT !.pc = "worked"]
    OBVIOUS
  <2>2. PICK y : y = [d EXCEPT !.applied = d.applied + 1]
    OBVIOUS
  <2>3. call' = [call EXCEPT ![c] = x] /\ done' = [done EXCEPT ![c] = y]
    BY <1>4, <2>1, <2>2 DEF SessionInv
  <2> HIDE DEF o, d
  <2>4. x \in CallSet /\ x.pc = "worked" /\ x.kind = "write" /\ x.at = o.at
    BY <1>1, <1>4, <2>1 DEF CallSet
  <2>5. y \in DoneSet /\ y.applied = 1 /\ y.from = d.from
    BY <1>1, <2>2 DEF DoneSet
  <2>6. Fits(x, y) /\ ServedBy(x, y, server')
    BY <1>1, <1>4, <2>4, <2>5 DEF Fits, ServedBy, Underway, Serving
  <2> USE DEF o, d
  <2> QED
    BY <1>2, <1>3, <1>4, <2>3, <2>4, <2>5, <2>6, OneCall
<1>5. CASE o.kind = "stream" /\ done' = [done EXCEPT ![c].from = @ \cup {server[o.at].gen}] /\ UNCHANGED call
  <2>1. PICK g : g = server[o.at].gen
    OBVIOUS
  <2>2. g \in Gens
    <3>1. server[o.at] \in ServerSet
      BY <1>1 DEF SessionInv
    <3> QED
      BY <2>1, <3>1 DEF ServerSet
  <2>3. PICK y : y = [d EXCEPT !.from = d.from \cup {g}]
    OBVIOUS
  <2>4. call' = [call EXCEPT ![c] = o] /\ done' = [done EXCEPT ![c] = y]
    BY <1>5, <2>1, <2>3 DEF SessionInv
  <2> HIDE DEF o, d
  <2>5. y \in DoneSet /\ y.applied = 0 /\ y.from = d.from \cup {g}
    BY <1>1, <2>2, <2>3 DEF DoneSet
  <2>6. d.from \subseteq {g} /\ server[o.at].state # "down"
    BY <1>1, <2>1 DEF ServedBy, Serving
  <2>7. Fits(o, y) /\ ServedBy(o, y, server')
    BY <1>1, <1>5, <2>1, <2>2, <2>5, <2>6 DEF Fits, ServedBy, Underway, Serving
  <2> USE DEF o, d
  <2> QED
    BY <1>1, <1>2, <1>3, <2>4, <2>5, <2>7, OneCall
<1> QED
  BY <1>4, <1>5 DEF Work

LEMMA Replies ==
  ASSUME SessionInv, NEW c \in All, Reply(c)
  PROVE  SessionInv'
<1>1. /\ call[c].pc \in {"handling", "worked"} /\ call[c].at \in Urls /\ Fits(call[c], done[c])
      /\ UNCHANGED <<current, done, count>> /\ current' \in Urls /\ count' \in CountSet
  BY CallType, Unchanged DEF Reply, Fits, Underway, Serving
<1>2. PICK ok \in BOOLEAN : (ok => (call[c].kind = "write" <=> call[c].pc = "worked")) /\ CallReturns(c, ok)
  BY DEF Reply
<1>3. ok /\ call[c].kind = "write" => done[c].applied = 1
  BY <1>1, <1>2 DEF Fits
<1>4. /\ server' \in [Urls -> ServerSet]
      /\ \A v \in Urls : server'[v].state = server[v].state /\ server'[v].gen = server[v].gen
  <2>1. server' = [server EXCEPT ![call[c].at] = Left(server[call[c].at], c)]
    BY DEF Reply
  <2> QED
    BY <1>1, <2>1, Counted
<1> QED
  BY <1>1, <1>2, <1>3, <1>4, Returns

LEMMA Cancels ==
  ASSUME SessionInv, NEW c \in All, Cancel(c)
  PROVE  SessionInv'
<1>1. /\ call[c].at \in Urls /\ CallReturns(c, FALSE) /\ Fault
      /\ UNCHANGED <<current, done>> /\ current' \in Urls /\ count' \in CountSet
  BY CallType, Unchanged DEF Cancel, Fits, Underway, Serving
<1>2. CASE server' = server
  BY <1>1, <1>2, Unchanged, Returns
<1>3. CASE server' = [server EXCEPT ![call[c].at] = Left(server[call[c].at], c)]
  <2>1. /\ server' \in [Urls -> ServerSet]
        /\ \A v \in Urls : server'[v].state = server[v].state /\ server'[v].gen = server[v].gen
    BY <1>1, <1>3, Counted
  <2> QED
    BY <1>1, <2>1, Returns
<1> QED
  BY <1>2, <1>3 DEF Cancel

\* A call that is repaired has a server to go to.
LEMMA Redials ==
  ASSUME SessionInv, NEW c \in All, Redial(c)
  PROVE  SessionInv'
<1> DEFINE o == call[c]
<1>1. /\ o.pc = "failed" /\ o \in CallSet /\ done[c] \in DoneSet /\ Fits(o, done[c])
      /\ UNCHANGED <<current, done>> /\ current' \in Urls /\ done' = [done EXCEPT ![c] = done[c]]
  BY CallType, Unchanged DEF Redial, SessionInv
<1>2. ASSUME NEW u \in Urls, call' = [call EXCEPT ![c].pc = "redialed", ![c].at = u]
      PROVE  \E x \in CallSet : /\ call' = [call EXCEPT ![c] = x] /\ x.kind = o.kind
                                /\ Fits(x, done[c]) /\ x.pc \notin Serving
  <2>1. PICK x : x = [o EXCEPT !.pc = "redialed", !.at = u]
    OBVIOUS
  <2>2. call' = [call EXCEPT ![c] = x]
    BY <1>2, <2>1 DEF SessionInv
  <2> HIDE DEF o
  <2>3. x \in CallSet /\ x.pc = "redialed" /\ x.kind = o.kind /\ x.at = u /\ x.failure = o.failure
    BY <1>1, <2>1 DEF CallSet
  <2>4. Fits(x, done[c]) /\ x.pc \notin Serving
    BY <1>1, <2>3 DEF Fits, Underway, Serving
  <2> QED
    BY <2>2, <2>3, <2>4
<1>3. CASE UNCHANGED <<server, keep, count>> /\ \E u \in Urls : call' = [call EXCEPT ![c].pc = "redialed", ![c].at = u]
  <2>1. PICK x \in CallSet : /\ call' = [call EXCEPT ![c] = x] /\ x.kind = o.kind
                             /\ Fits(x, done[c]) /\ x.pc \notin Serving
    BY <1>2, <1>3
  <2>2. ServedBy(x, done[c], server)
    BY <2>1 DEF ServedBy
  <2> QED
    BY <1>1, <1>3, <2>1, <2>2, Moves
<1>4. ASSUME NEW u \in Urls, NEW after \in Afters, server[u].state = "down", count.servers < MaxServers,
             server' = [server EXCEPT ![u] = Started(count.servers + 1, after)],
             call' = [call EXCEPT ![c].pc = "redialed", ![c].at = u],
             count' = [count EXCEPT !.servers = @ + 1], UNCHANGED keep
      PROVE  SessionInv'
  <2>1. PICK x \in CallSet : /\ call' = [call EXCEPT ![c] = x] /\ x.kind = o.kind
                             /\ Fits(x, done[c]) /\ x.pc \notin Serving
    BY <1>2, <1>4
  <2>2. ServedBy(x, done[c], server') /\ (c = Beat => x.kind = "read")
    BY <2>1 DEF ServedBy, SessionInv
  <2>3. PICK n : n = count.servers + 1
    OBVIOUS
  <2>4. n \in 1..MaxServers /\ n \in Gens /\ count' \in CountSet
    <3>1. count \in CountSet /\ MaxServers \in Nat
      BY BoundsAssumption DEF SessionInv
    <3>2. n \in 1..MaxServers
      BY <1>4, <2>3, <3>1 DEF CountSet
    <3>3. count' = [count EXCEPT !.servers = n]
      BY <1>4, <2>3
    <3> QED
      BY <3>1, <3>2, <3>3 DEF CountSet, Gens
  <2>5. PICK t : t = Started(n, after)
    OBVIOUS
  <2>6. t \in ServerSet
    <3>1. 0 \in 0..MaxAfter+1 /\ after \in 0..Max(Afters \cup {DrainTimeout})
      BY Longest
    <3> QED
      BY <2>4, <2>5, <3>1 DEF Started, ServerSet
  <2>7. server' = [server EXCEPT ![u] = t]
    BY <1>4, <2>3, <2>5
  <2>8. /\ server' \in [Urls -> ServerSet]
        /\ \A v \in Urls : server[v].state # "down" => server'[v] = server[v]
    BY <1>4, <2>6, <2>7 DEF SessionInv
  <2>9. keep' \in KeepSet
    BY <1>4, Unchanged
  <2> QED
    BY <1>1, <2>1, <2>2, <2>4, <2>8, <2>9, OneCall
<1>5. CASE CallReturns(c, FALSE) /\ UNCHANGED <<server, count>>
  BY <1>1, <1>5, Unchanged, Returns
<1> QED
  BY <1>3, <1>4, <1>5 DEF Redial

\* What is made again has been applied by nobody, and has delivered no frame.
LEMMA Repairs ==
  ASSUME SessionInv, NEW c \in All, Repair(c)
  PROVE  SessionInv'
<1> DEFINE o == call[c]
<1>1. /\ o.pc = "redialed" /\ o \in CallSet /\ done[c] \in DoneSet /\ Fits(o, done[c]) /\ o.at \in Urls
      /\ UNCHANGED <<server, done, count>> /\ current' \in Urls
  BY CallType DEF Repair, Fits, Underway
<1>2. CASE Replays(c) /\ call' = [call EXCEPT ![c].pc = "dialing", ![c].again = TRUE] /\ UNCHANGED keep
  <2>1. done[c].applied = 0 /\ done[c].from = {}
    BY <1>1, <1>2 DEF Replays, Fits
  <2>2. PICK x : x = [o EXCEPT !.pc = "dialing", !.again = TRUE]
    OBVIOUS
  <2>3. call' = [call EXCEPT ![c] = x]
    BY <1>2, <2>2 DEF SessionInv
  <2> HIDE DEF o
  <2>4. x \in CallSet /\ x.pc = "dialing" /\ x.kind = o.kind /\ x.at = o.at
    BY <1>1, <2>2 DEF CallSet
  <2>5. Fits(x, done[c]) /\ ServedBy(x, done[c], server)
    BY <1>1, <2>1, <2>4 DEF Fits, ServedBy, Underway, Serving
  <2> USE DEF o
  <2> QED
    BY <1>1, <1>2, <2>3, <2>4, <2>5, Moves
<1>3. CASE CallReturns(c, FALSE)
  BY <1>1, <1>3, Unchanged, Returns
<1> QED
  BY <1>2, <1>3 DEF Repair
------------------------------------------------------------------------------
(* The end of servers.                                                         *)

\* A call whose connection breaks is served by nobody, and keeps what it did.
LEMMA Broken ==
  ASSUME SessionInv, NEW gone \in SUBSET All, \A c \in gone : call[c].pc \in Serving, Break(gone)
  PROVE  /\ call' \in [All -> CallSet] /\ keep' \in KeepSet /\ call'[Beat].kind = "read"
         /\ \A c \in All : Fits(call'[c], done[c])
         /\ \A c \in All : c \notin gone => call'[c] = call[c]
         /\ \A c \in gone : call'[c].pc \notin Serving
<1>1. ASSUME NEW c \in gone
      PROVE  /\ call'[c] \in CallSet /\ Fits(call'[c], done[c])
             /\ call'[c].kind = call[c].kind /\ call'[c].pc \notin Serving
  <2> DEFINE o == call[c]
  <2>1. c \in All /\ o \in CallSet /\ done[c] \in DoneSet /\ Fits(o, done[c]) /\ o.pc \in Serving
        /\ (c = Beat => o.kind = "read")
    BY CallType DEF SessionInv
  <2>2. CASE o.again
    <3>1. call'[c] = Returned(o, c, FALSE)
      BY <2>1, <2>2 DEF Break
    <3>2. PICK x : x = Returned(o, c, FALSE)
      OBVIOUS
    <3>3. x \in CallSet /\ Fits(x, done[c]) /\ x.kind = o.kind /\ x.pc \notin Serving
      BY <2>1, <3>2, ReturnedFits
    <3> QED
      BY <3>1, <3>2, <3>3
  <2>3. CASE ~ o.again
    <3>1. PICK x : x = [o EXCEPT !.pc = "failed", !.failure = "broken"]
      OBVIOUS
    <3>2. call'[c] = x
      BY <2>1, <2>3, <3>1 DEF Break
    <3> HIDE DEF o
    <3>3. x \in CallSet /\ x.pc = "failed" /\ x.failure = "broken" /\ x.kind = o.kind /\ x.at = o.at
      BY <2>1, <3>1 DEF CallSet
    <3>4. Fits(x, done[c]) /\ x.pc \notin Serving
      BY <2>1, <3>3 DEF Fits, Underway, Serving
    <3> USE DEF o
    <3> QED
      BY <3>2, <3>3, <3>4
  <2> QED
    BY <2>2, <2>3
<1>2. ASSUME NEW c \in All, c \notin gone
      PROVE  call'[c] = call[c]
  BY <1>2 DEF Break
<1>3. \A c \in All : call'[c] \in CallSet /\ Fits(call'[c], done[c]) /\ call'[c].kind = call[c].kind
  BY <1>1, <1>2, CallType
<1>4. call' = [c \in All |-> call'[c]]
  BY DEF Break
<1>5. keep' \in KeepSet
  <2>1. keep' = BeatOver(FALSE, NoUrl) \/ keep' = keep
    BY DEF Break
  <2>2. BeatOver(FALSE, NoUrl) \in KeepSet
    BY BeatOverType
  <2> QED
    BY <2>1, <2>2 DEF SessionInv
<1>6. call'[Beat].kind = "read"
  BY <1>3 DEF SessionInv, All
<1> QED
  BY <1>1, <1>2, <1>3, <1>4, <1>5, <1>6

LEMMA Drops ==
  ASSUME SessionInv, NEW c \in All, Drop(c)
  PROVE  SessionInv'
<1>1. Break({c}) /\ UNCHANGED <<server, current, done, count>> /\ call[c].pc \in Serving
  BY DEF Drop, Serving
<1>2. /\ call' \in [All -> CallSet] /\ keep' \in KeepSet /\ call'[Beat].kind = "read"
      /\ \A d \in All : Fits(call'[d], done[d])
      /\ \A d \in All : d \notin {c} => call'[d] = call[d]
      /\ \A d \in {c} : call'[d].pc \notin Serving
  BY <1>1, Broken
<1>3. ASSUME NEW d \in All PROVE ServedBy(call'[d], done[d], server)
  <2>1. CASE d = c
    BY <2>1, <1>2 DEF ServedBy
  <2>2. CASE d # c
    BY <2>2, <1>2, CallType
  <2> QED
    BY <2>1, <2>2
<1> QED
  BY <1>1, <1>2, <1>3 DEF SessionInv

LEMMA Ends ==
  ASSUME SessionInv, NEW u \in Urls, Gone(u), count' \in CountSet
  PROVE  SessionInv'
<1>1. /\ server' = [server EXCEPT ![u] = Down] /\ Break(At(u)) /\ UNCHANGED <<current, done>>
      /\ At(u) \in SUBSET All /\ \A c \in At(u) : call[c].pc \in Serving
  BY DEF Gone, At, Serving
<1>2. PICK gone : gone = At(u)
  OBVIOUS
<1>3. /\ call' \in [All -> CallSet] /\ keep' \in KeepSet /\ call'[Beat].kind = "read"
      /\ \A d \in All : Fits(call'[d], done[d])
      /\ \A d \in All : d \notin gone => call'[d] = call[d]
      /\ \A d \in gone : call'[d].pc \notin Serving
  BY <1>1, <1>2, Broken
<1>4. Down \in ServerSet
  <2>1. 0 \in Gens /\ 0 \in 0..MaxAfter+1 /\ 0 \in 0..Max(Afters \cup {DrainTimeout})
    BY Longest, BoundsAssumption DEF Gens
  <2> QED
    BY <2>1 DEF Down, ServerSet
<1>5. server' \in [Urls -> ServerSet] /\ \A v \in Urls : v # u => server'[v] = server[v]
  BY <1>1, <1>4 DEF SessionInv
<1>6. ASSUME NEW d \in All PROVE ServedBy(call'[d], done[d], server')
  <2>1. CASE d \in gone
    BY <2>1, <1>3 DEF ServedBy
  <2>2. CASE d \notin gone /\ call[d].pc \in Serving
    <3>1. call'[d] = call[d] /\ ServedBy(call[d], done[d], server) /\ call[d].at \in Urls
      BY <2>2, <1>3, CallType DEF Fits, Underway
    <3>2. call[d].at # u
      BY <2>2, <1>2 DEF At, Serving
    <3> QED
      BY <3>1, <3>2, <1>5 DEF ServedBy
  <2>3. CASE d \notin gone /\ call[d].pc \notin Serving
    BY <2>3, <1>3 DEF ServedBy
  <2> QED
    BY <2>1, <2>2, <2>3
<1> QED
  BY <1>1, <1>3, <1>5, <1>6 DEF SessionInv

\* A server drains: it is still there.
LEMMA Drained ==
  ASSUME SessionInv, NEW u \in Urls, server[u].state = "up", server' = [server EXCEPT ![u] = Draining(server[u])]
  PROVE  /\ server' \in [Urls -> ServerSet]
         /\ \A v \in Urls : server[v].state # "down" => server'[v].state # "down" /\ server'[v].gen = server[v].gen
<1>1. PICK o : o = server[u]
  OBVIOUS
<1>2. o \in ServerSet
  BY <1>1 DEF SessionInv
<1>3. PICK t : t = [o EXCEPT !.state = "draining", !.quiet = 0, !.alarm = DrainTimeout]
  OBVIOUS
<1>4. server' = [server EXCEPT ![u] = t]
  BY <1>1, <1>3 DEF Draining
<1>5. 0 \in 0..MaxAfter+1 /\ DrainTimeout \in 0..Max(Afters \cup {DrainTimeout})
  BY Longest, TimesAssumption
<1>6. t \in ServerSet /\ t.state = "draining" /\ t.gen = o.gen
  BY <1>2, <1>3, <1>5 DEF ServerSet
<1> QED
  BY <1>1, <1>4, <1>6 DEF SessionInv

LEMMA Wakes ==
  ASSUME SessionInv, NEW u \in Urls, Wake(u)
  PROVE  SessionInv'
<1> DEFINE o == server[u]
<1>1. UNCHANGED <<current, call, keep, done, count>> /\ o.state = "up" /\ o.after > 0 /\ o \in ServerSet
  BY DEF Wake, SessionInv
<1>2. /\ server' \in [Urls -> ServerSet]
      /\ \A v \in Urls : server[v].state # "down" => server'[v].state # "down" /\ server'[v].gen = server[v].gen
  <2>1. CASE server' = [server EXCEPT ![u] = Draining(o)]
    BY <1>1, <2>1, Drained
  <2>2. CASE server' = [server EXCEPT ![u] = [o EXCEPT !.alarm = Remaining(o)]]
    <3>1. PICK r : r = Remaining(o)
      OBVIOUS
    <3>2. r \in 0..Max(Afters \cup {DrainTimeout})
      <4>1. PICK top : top = Max(Afters \cup {DrainTimeout})
        OBVIOUS
      <4>2. o.quiet \in Nat /\ o.after \in Nat /\ o.after <= top /\ top \in Nat
        <5>1. o.after \in Afters \cup {0} /\ o.quiet \in 0..MaxAfter+1
          BY <1>1 DEF ServerSet
        <5> QED
          BY <4>1, <5>1, Longest
      <4> QED
        BY <3>1, <4>1, <4>2 DEF Remaining
    <3>3. PICK t : t = [o EXCEPT !.alarm = r]
      OBVIOUS
    <3>4. server' = [server EXCEPT ![u] = t]
      BY <2>2, <3>1, <3>3
    <3> HIDE DEF o
    <3>5. t \in ServerSet /\ t.state = o.state /\ t.gen = o.gen
      BY <1>1, <3>2, <3>3 DEF ServerSet
    <3> USE DEF o
    <3> QED
      BY <3>4, <3>5 DEF SessionInv
  <2> QED
    BY <2>1, <2>2 DEF Wake
<1> QED
  BY <1>1, <1>2, Unchanged, NoCall

LEMMA Shutdowns ==
  ASSUME SessionInv, NEW u \in Urls, Shutdown(u)
  PROVE  SessionInv'
<1>1. UNCHANGED <<current, call, keep, done>> /\ Fault /\ server[u].state = "up"
      /\ server' = [server EXCEPT ![u] = Draining(server[u])]
  BY DEF Shutdown
<1>2. /\ server' \in [Urls -> ServerSet]
      /\ \A v \in Urls : server[v].state # "down" => server'[v].state # "down" /\ server'[v].gen = server[v].gen
  BY <1>1, Drained
<1> QED
  BY <1>1, <1>2, Unchanged, NoCall

LEMMA SessionEnds ==
  ASSUME SessionInv, End
  PROVE  SessionInv'
<1>1. Over \in KeepSet
  BY TimesAssumption, BoundsAssumption DEF Over, KeepSet, Gens
<1> QED
  BY <1>1, Unchanged, NoCall DEF End

LEMMA Ticks ==
  ASSUME SessionInv, Tick
  PROVE  SessionInv'
<1>1. UNCHANGED <<current, call, done, count>>
  BY DEF Tick
<1>2. ASSUME NEW u \in Urls
      PROVE  server'[u] \in ServerSet /\ server'[u].state = server[u].state /\ server'[u].gen = server[u].gen
  <2>1. PICK o : o = server[u]
    OBVIOUS
  <2>2. o \in ServerSet
    BY <2>1 DEF SessionInv
  <2>3. PICK quiet, alarm : /\ quiet = IF o.state = "up" THEN Min({o.quiet + 1, o.after + 1}) ELSE o.quiet
                            /\ alarm = IF o.alarm > 0 THEN o.alarm - 1 ELSE 0
    OBVIOUS
  <2>4. server'[u] = [o EXCEPT !.quiet = quiet, !.alarm = alarm]
    BY <2>1, <2>3 DEF Tick
  <2>5. /\ o.after \in Nat /\ o.after <= MaxAfter /\ MaxAfter \in Nat
        /\ o.quiet \in 0..MaxAfter+1 /\ o.alarm \in 0..Max(Afters \cup {DrainTimeout})
    <3>1. o.after \in Afters \cup {0} /\ o.quiet \in 0..MaxAfter+1 /\ o.alarm \in 0..Max(Afters \cup {DrainTimeout})
      BY <2>2 DEF ServerSet
    <3> QED
      BY <3>1, Longest
  <2>6. quiet \in 0..MaxAfter+1
    <3>1. o.quiet + 1 \in Nat /\ o.after + 1 \in Nat
      BY <2>5
    <3>2. Min({o.quiet + 1, o.after + 1}) \in Nat /\ Min({o.quiet + 1, o.after + 1}) <= o.after + 1
      BY <3>1, MinOfTwo
    <3> QED
      BY <2>3, <2>5, <3>2
  <2>7. alarm \in 0..Max(Afters \cup {DrainTimeout})
    BY <2>3, <2>5, Longest
  <2> QED
    BY <2>1, <2>2, <2>4, <2>6, <2>7 DEF ServerSet
<1>3. server' \in [Urls -> ServerSet]
  <2>1. server' = [u \in Urls |-> server'[u]]
    BY DEF Tick
  <2> QED
    BY <1>2, <2>1
<1>4. keep' \in KeepSet
  <2>1. PICK next : next = IF keep.on THEN keep.next - 1 ELSE keep.next
    OBVIOUS
  <2>2. keep' = [keep EXCEPT !.next = next] /\ (keep.on => keep.next > 0) /\ keep \in KeepSet
    BY <2>1 DEF Tick, SessionInv
  <2>3. next \in 0..MaxBeat
    BY <2>1, <2>2, TimesAssumption DEF KeepSet
  <2> QED
    BY <2>2, <2>3 DEF KeepSet
<1> QED
  BY <1>1, <1>2, <1>3, <1>4, Unchanged, NoCall
------------------------------------------------------------------------------
LEMMA StepKeepsSession ==
  ASSUME SessionInv, [SessionNext]_sessionVars
  PROVE  SessionInv'
<1>1. ASSUME NEW c \in All, NEW kind \in Kinds, Begin(c, kind) PROVE SessionInv'
  BY <1>1, Begins
<1>2. ASSUME NEW c \in All, CallStep(c) PROVE SessionInv'
  BY <1>2, Dials, Arrives, Works, Replies, Redials, Repairs DEF CallStep
<1>3. ASSUME NEW c \in All, Cancel(c) \/ Drop(c) PROVE SessionInv'
  BY <1>3, Cancels, Drops
<1>4. ASSUME NEW u \in Urls, Wake(u) \/ Shutdown(u) PROVE SessionInv'
  BY <1>4, Wakes, Shutdowns
<1>5. ASSUME NEW u \in Urls, DrainOver(u) \/ ServerCrash(u) PROVE SessionInv'
  BY <1>5, Ends, Unchanged DEF DrainOver, ServerCrash
<1>6. CASE End \/ Tick
  BY <1>6, SessionEnds, Ticks
<1>7. CASE UNCHANGED sessionVars
  BY <1>7, Unchanged, NoCall DEF sessionVars
<1> QED
  BY <1>1, <1>2, <1>3, <1>4, <1>5, <1>6, <1>7 DEF SessionNext

LEMMA SessionStarts == SessionInit => SessionInv
<1> SUFFICES ASSUME SessionInit PROVE SessionInv
  OBVIOUS
<1>1. PICK after \in Afters \cup {0} :
        /\ server = [u \in Urls |-> IF u = Home THEN Started(1, after) ELSE Down]
        /\ call = [c \in All |-> NewCall("read", NoUrl, "idle")]
        /\ keep = [on |-> TRUE, every |-> MinBeat, next |-> 0, missed |-> 0, held |-> 0]
        /\ done = [c \in All |-> [applied |-> 0, from |-> {}]]
        /\ count = [servers |-> 1, faults |-> 0]
        /\ current = Home
  BY DEF SessionInit
<1>2. /\ 0 \in Gens /\ 1 \in Gens /\ 0 \in 0..MaxAfter+1 /\ 0 \in 0..Max(Afters \cup {DrainTimeout})
      /\ after \in 0..Max(Afters \cup {DrainTimeout})
  BY Longest, BoundsAssumption DEF Gens
<1>3. Down \in ServerSet /\ Started(1, after) \in ServerSet
  BY <1>2 DEF Down, Started, ServerSet
<1>4. server \in [Urls -> ServerSet] /\ current \in Urls
  BY <1>1, <1>3, UrlsAssumption
<1>5. keep \in KeepSet /\ count \in CountSet
  BY <1>1, <1>2, TimesAssumption, BoundsAssumption DEF KeepSet, CountSet
<1>6. call \in [All -> CallSet] /\ done \in [All -> DoneSet] /\ call[Beat].kind = "read"
  BY <1>1 DEF NewCall, CallSet, DoneSet, Kinds, All
<1>7. ASSUME NEW c \in All PROVE Fits(call[c], done[c]) /\ ServedBy(call[c], done[c], server)
  BY <1>1, <1>2 DEF NewCall, Fits, ServedBy, Serving, Underway
<1> QED
  BY <1>4, <1>5, <1>6, <1>7 DEF SessionInv

LEMMA SessionInvApplies ==
  ASSUME SessionInv
  PROVE  AppliedOnce
<1>1. SessionTypeOK
  BY DEF SessionInv, SessionTypeOK, ServerSet, CallSet, KeepSet, DoneSet
<1>2. OneSource
  <2> SUFFICES ASSUME NEW c \in Calls PROVE Cardinality(done[c].from) <= 1
    BY DEF OneSource
  <2>1. PICK g \in Gens : done[c].from \subseteq {g}
    BY CallType DEF All, Fits
  <2>2. done[c].from = {} \/ done[c].from = {g}
    BY <2>1
  <2>3. Cardinality({}) = 0 /\ Cardinality({g}) = 1
    BY FS_EmptySet, FS_Singleton
  <2> QED
    BY <2>2, <2>3
<1>3. \A c \in Calls : call[c].kind = "write" =>
        done[c].applied <= 1 /\ (call[c].pc = "ok" => done[c].applied = 1)
  BY CallType DEF All, Fits
<1> QED
  BY <1>1, <1>2, <1>3 DEF AppliedOnce

\* For any number of calls and of servers that crash, drain and are replaced: a
\* write is applied at most once, once when its call succeeds, and no stream's
\* frames come from two servers (retry, replays).
THEOREM AppliesOnce == SessionSpec => []AppliedOnce
<1>1. SessionInv /\ [SessionNext]_sessionVars => SessionInv'
  BY StepKeepsSession
<1>2. SessionInv => AppliedOnce
  BY SessionInvApplies
<1> QED
  BY <1>1, <1>2, SessionStarts, PTL DEF SessionSpec
------------------------------------------------------------------------------
(* The timers.                                                                 *)

\* Beats come often enough: a timeout is longer than two of the shortest
\* intervals, and has room for three of the others (beatsPerIdle).
Paced == 3 <= BeatsPerIdle /\ \A a \in Afters : 2 * MinBeat < a

\* While the server answers, or misses one beat, it is silent for two intervals at
\* most, less what is left of the one that runs.
Held(s, k) ==
  /\ 2 * k.every < s.after
  /\ k.missed = 0 => s.quiet + k.next <= k.every
  /\ k.missed = 1 => s.quiet + k.next <= 2 * k.every

HeldBy(s, k) == s.state = "up" /\ k.on /\ k.held = s.gen /\ k.missed < 2

\* The alarm is set for the deadline, or before it.
InTime(s) ==
  s.state = "up" /\ s.after > 0 =>
    s.alarm <= s.after /\ (s.inflight = {} => s.quiet + s.alarm <= s.after)

\* A server's number is its own.
Numbered(s, n) ==
  /\ \A u \in Urls : s[u].state # "down" => s[u].gen \in 1..n
  /\ \A u, v \in Urls : s[u].state # "down" /\ s[v].state # "down" /\ s[u].gen = s[v].gen => u = v

TimerInv ==
  /\ \A u \in Urls : InTime(server[u])
  /\ \A u \in Urls : Paced /\ HeldBy(server[u], keep) => Held(server[u], keep)
  /\ Numbered(server, count.servers)
  /\ keep.next <= keep.every /\ keep.held <= count.servers

\* Two intervals are shorter than the timeout they are taken from.
LEMMA TwoIntervals ==
  ASSUME Paced, NEW a \in Afters
  PROVE  2 * Interval(a) < a
<1> DEFINE d == a \div BeatsPerIdle
           m == Max({MinBeat, d})
<1>1. a \in Nat \ {0} /\ BeatsPerIdle \in Nat /\ 3 <= BeatsPerIdle /\ MinBeat \in Nat \ {0} /\ 2 * MinBeat < a /\ MaxBeat \in Nat
  BY TimesAssumption DEF Paced
<1>2. d \in Nat /\ BeatsPerIdle * d <= a
  BY <1>1
<1>3. 3 * d <= BeatsPerIdle * d
  BY <1>1, <1>2
<1>4. 2 * d < a
  <2>1. BeatsPerIdle * d \in Nat
    BY <1>1, <1>2
  <2> HIDE DEF d
  <2>2. 3 * d <= a
    BY <1>1, <1>2, <1>3, <2>1
  <2> QED
    BY <1>1, <1>2, <2>2
<1> HIDE DEF d
<1>5. m \in {MinBeat, d} /\ m \in Nat
  <2>1. PICK top \in {MinBeat, d} : top = IF d <= MinBeat THEN MinBeat ELSE d
    OBVIOUS
  <2>2. {MinBeat, d} \subseteq Nat /\ \A x \in {MinBeat, d} : x <= top
    BY <1>1, <1>2, <2>1
  <2> QED
    BY <1>1, <1>2, <2>2, MaxOf
<1>6. 2 * m < a
  BY <1>1, <1>4, <1>5
<1>7. Interval(a) = Min({MaxBeat, m})
  BY DEF Interval, d
<1> HIDE DEF m
<1>8. PICK i : i = Interval(a)
  OBVIOUS
<1>9. i \in Nat /\ i <= m
  BY <1>1, <1>5, <1>7, <1>8, MinOfTwo
<1> QED
  BY <1>1, <1>5, <1>6, <1>8, <1>9

\* What a server may become while the client's numbers stay: it goes, it drains, a
\* request resets its silence, or its alarm is set for the deadline.
Calmer(s, t) ==
  \/ t.state = "down"
  \/ t.state = "draining" /\ s.state # "down" /\ t.gen = s.gen
  \/ /\ t.state = "up" /\ s.state = "up" /\ t.gen = s.gen /\ t.after = s.after
     /\ t.quiet \in {0, s.quiet}
     /\ InTime(s) => InTime(t)

LEMMA CalmerStays ==
  ASSUME NEW s \in ServerSet, NEW t, t = s
  PROVE  Calmer(s, t)
BY DEF Calmer, ServerSet

\* What the heartbeat may become while no beat is answered: a beat is missed, or
\* the session is over.
Missed(k, l) ==
  /\ l.next <= l.every /\ (l.held = k.held \/ l.held = 0)
  /\ \/ l = k
     \/ ~ l.on
     \/ l.on = k.on /\ l.held = k.held /\ l.every = k.every /\ l.next = k.every
        /\ (l.missed < 2 => k.missed = 0 /\ l.missed = 1)

LEMMA NumberType ==
  ASSUME SessionInv
  PROVE  /\ keep.every \in Nat /\ keep.next \in Nat /\ keep.missed \in 0..2 /\ keep.held \in Nat
         /\ keep.on \in BOOLEAN /\ count.servers \in 1..MaxServers
         /\ \A u \in Urls : /\ server[u].quiet \in Nat /\ server[u].after \in Nat /\ server[u].alarm \in Nat
                            /\ server[u].gen \in Nat /\ server[u] \in ServerSet
<1>1. keep \in KeepSet /\ count \in CountSet
  BY DEF SessionInv
<1>2. \A u \in Urls : server[u] \in ServerSet
  BY DEF SessionInv
<1>3. ASSUME NEW s \in ServerSet
      PROVE  s.quiet \in Nat /\ s.after \in Nat /\ s.alarm \in Nat /\ s.gen \in Nat
  <2>1. s.quiet \in 0..MaxAfter+1 /\ s.after \in Afters \cup {0} /\ s.alarm \in 0..Max(Afters \cup {DrainTimeout}) /\ s.gen \in Gens
    BY DEF ServerSet
  <2> QED
    BY <2>1, Longest DEF Gens
<1>4. keep.every \in Nat /\ keep.next \in Nat /\ keep.missed \in 0..2 /\ keep.held \in Nat /\ keep.on \in BOOLEAN
  BY <1>1, TimesAssumption DEF KeepSet, Gens
<1>5. count.servers \in 1..MaxServers
  BY <1>1 DEF CountSet
<1> QED
  BY <1>2, <1>3, <1>4, <1>5

LEMMA MissedBeat ==
  ASSUME SessionInv, TimerInv
  PROVE  \A u : Missed(keep, BeatOver(FALSE, u))
<1> TAKE u
<1>1. keep \in KeepSet /\ keep.missed \in 0..2 /\ keep.every \in Nat
  BY NumberType DEF SessionInv
<1>2. PICK m : m = Min({keep.missed + 1, 2})
  OBVIOUS
<1>3. m \in {keep.missed + 1, 2} /\ m <= keep.missed + 1
  BY <1>1, <1>2, MinOfTwo
<1>4. PICK l : l = [keep EXCEPT !.next = keep.every, !.missed = m]
  OBVIOUS
<1>5. BeatOver(FALSE, u) = l
  BY <1>2, <1>4 DEF BeatOver
<1>6. l.next = keep.every /\ l.missed = m /\ l.on = keep.on /\ l.held = keep.held /\ l.every = keep.every
  BY <1>1, <1>4 DEF KeepSet
<1>7. m < 2 => keep.missed = 0 /\ m = 1
  BY <1>1, <1>3
<1>8. l.next <= l.every
  BY <1>1, <1>6
<1>9. Missed(keep, l)
  BY <1>6, <1>7, <1>8, Zenon DEF Missed
<1> QED
  BY <1>5, <1>9

LEMMA MissedStays ==
  ASSUME TimerInv
  PROVE  Missed(keep, keep)
BY DEF TimerInv, Missed

\* Whatever goes on, but an answered beat, a new server and time.
LEMMA TimersCalm ==
  ASSUME SessionInv, TimerInv, count'.servers = count.servers,
         \A u \in Urls : Calmer(server[u], server'[u]),
         Missed(keep, keep')
  PROVE  TimerInv'
<1>1. \A u \in Urls : InTime(server'[u])
  BY DEF TimerInv, Calmer, InTime
<1>2. Numbered(server', count'.servers)
  BY DEF TimerInv, Calmer, Numbered
<1>3. keep'.next <= keep'.every /\ keep'.held <= count'.servers
  BY NumberType DEF TimerInv, Missed
<1>4. ASSUME NEW u \in Urls, Paced, HeldBy(server'[u], keep') PROVE Held(server'[u], keep')
  <2> DEFINE s == server[u]
             t == server'[u]
  <2>1. s.state = "up" /\ t.gen = s.gen /\ t.after = s.after /\ t.quiet \in {0, s.quiet}
    BY <1>4 DEF Calmer, HeldBy
  <2>2. /\ keep'.on = keep.on /\ keep'.held = keep.held /\ keep'.every = keep.every
        /\ \/ keep' = keep
           \/ keep'.next = keep.every /\ keep.missed = 0 /\ keep'.missed = 1
    BY <1>4 DEF Missed, HeldBy
  <2>3. Held(s, keep)
    BY <1>4, <2>1, <2>2 DEF HeldBy, TimerInv
  <2>4. s.quiet \in Nat /\ keep.every \in Nat /\ keep.next \in Nat /\ keep.next <= keep.every
    BY NumberType DEF TimerInv
  <2> QED
    BY <2>1, <2>2, <2>3, <2>4 DEF Held
<1> QED
  BY <1>1, <1>2, <1>3, <1>4 DEF TimerInv

\* A request that comes or ends.
LEMMA CountedCalmer ==
  ASSUME SessionInv, NEW u \in Urls, NEW c,
         NEW t \in {Entered(server[u], c), Left(server[u], c)}
  PROVE  /\ server[u].state # "down" => Calmer(server[u], t)
         /\ t.quiet = 0 /\ t.state = server[u].state /\ t.gen = server[u].gen /\ t.after = server[u].after
<1>1. PICK s \in ServerSet : s = server[u]
  BY DEF SessionInv
<1>2. PICK i : t = [s EXCEPT !.inflight = i, !.quiet = 0]
  BY <1>1 DEF Entered, Left
<1>3. t.quiet = 0 /\ t.state = s.state /\ t.gen = s.gen /\ t.after = s.after /\ t.alarm = s.alarm
  BY <1>2 DEF ServerSet
<1>4. s.alarm \in Nat /\ s.after \in Nat /\ s.state \in {"down", "up", "draining"}
  BY <1>1, NumberType DEF ServerSet
<1>5. InTime(s) => InTime(t)
  BY <1>3, <1>4 DEF InTime
<1>6. s.state # "down" => Calmer(s, t)
  BY <1>3, <1>4, <1>5 DEF Calmer
<1> QED
  BY <1>1, <1>3, <1>6

LEMMA SameServer ==
  ASSUME SessionInv, server' = server
  PROVE  \A u \in Urls : Calmer(server[u], server'[u])
BY NumberType, CalmerStays

\* One server changes.
LEMMA SoleServer ==
  ASSUME SessionInv, NEW u \in Urls, NEW t, server' = [server EXCEPT ![u] = t], Calmer(server[u], t)
  PROVE  \A v \in Urls : Calmer(server[v], server'[v])
<1> TAKE v \in Urls
<1>1. server \in [Urls -> ServerSet]
  BY DEF SessionInv
<1>2. CASE v = u
  BY <1>1, <1>2
<1>3. CASE v # u
  <2>1. server'[v] = server[v]
    BY <1>1, <1>3
  <2> QED
    BY <2>1, NumberType, CalmerStays
<1> QED
  BY <1>2, <1>3

\* A call that fails takes no more than a beat.
LEMMA FailedCall ==
  ASSUME SessionInv, TimerInv, NEW c, keep' = keep \/ CallReturns(c, FALSE)
  PROVE  Missed(keep, keep')
<1>1. CASE keep' = keep
  BY <1>1, MissedStays
<1>2. CASE CallReturns(c, FALSE) /\ keep' # keep
  <2>1. keep' = BeatOver(FALSE, call[c].at)
    BY <1>2 DEF CallReturns
  <2> QED
    BY <2>1, MissedBeat
<1> QED
  BY <1>1, <1>2

LEMMA BrokenCalls ==
  ASSUME SessionInv, TimerInv, NEW gone, Break(gone)
  PROVE  Missed(keep, keep')
<1>1. keep' = BeatOver(FALSE, NoUrl) \/ keep' = keep
  BY DEF Break
<1> QED
  BY <1>1, MissedBeat, MissedStays

LEMMA FaultServers ==
  ASSUME SessionInv, Fault
  PROVE  count'.servers = count.servers
BY DEF Fault, SessionInv, CountSet

LEMMA CallTimers ==
  ASSUME SessionInv, TimerInv, NEW c \in All, NEW kind \in Kinds,
         Begin(c, kind) \/ Dial(c) \/ Arrive(c) \/ Work(c) \/ Repair(c) \/ Cancel(c) \/ Drop(c)
  PROVE  TimerInv'
<1>1. CASE Begin(c, kind) \/ Work(c)
  BY <1>1, SameServer, MissedStays, TimersCalm DEF Begin, Work
<1>2. CASE Dial(c) \/ Repair(c)
  <2>1. keep' = keep \/ CallReturns(c, FALSE)
    BY <1>2 DEF Dial, Repair
  <2> QED
    BY <1>2, <2>1, SameServer, FailedCall, TimersCalm DEF Dial, Repair
<1>3. CASE Drop(c)
  BY <1>3, SameServer, BrokenCalls, TimersCalm DEF Drop
<1>4. CASE Arrive(c)
  <2>1. call[c].at \in Urls /\ server[call[c].at].state # "down"
    BY <1>4, CallType DEF Arrive, Fits, ServedBy, Underway, Serving
  <2>2. PICK u \in Urls : u = call[c].at
    BY <2>1
  <2>3. server' = [server EXCEPT ![u] = Entered(server[u], c)] /\ UNCHANGED <<keep, count>>
    BY <1>4, <2>2 DEF Arrive
  <2>4. Calmer(server[u], Entered(server[u], c))
    BY <2>1, <2>2, CountedCalmer
  <2> QED
    BY <2>3, <2>4, SoleServer, MissedStays, TimersCalm
<1>5. CASE Cancel(c)
  <2>1. CallReturns(c, FALSE) /\ count'.servers = count.servers
    BY <1>5, FaultServers DEF Cancel
  <2>2. CASE server' = server
    BY <2>1, <2>2, SameServer, FailedCall, TimersCalm
  <2>3. CASE call[c].pc \in {"handling", "worked"} /\ server' = [server EXCEPT ![call[c].at] = Left(server[call[c].at], c)]
    <3>1. call[c].at \in Urls /\ server[call[c].at].state # "down"
      BY <2>3, CallType DEF Fits, ServedBy, Underway, Serving
    <3>2. PICK u \in Urls : u = call[c].at
      BY <3>1
    <3>3. server' = [server EXCEPT ![u] = Left(server[u], c)]
      BY <2>3, <3>2
    <3>4. Calmer(server[u], Left(server[u], c))
      BY <3>1, <3>2, CountedCalmer
    <3> QED
      BY <2>1, <3>3, <3>4, SoleServer, FailedCall, TimersCalm
  <2> QED
    BY <1>5, <2>2, <2>3 DEF Cancel
<1> QED
  BY <1>1, <1>2, <1>3, <1>4, <1>5

\* A beat that is answered starts the window anew.
LEMMA ReplyTimers ==
  ASSUME SessionInv, TimerInv, NEW c \in All, Reply(c)
  PROVE  TimerInv'
<1>1. call[c].at \in Urls /\ server[call[c].at].state # "down" /\ UNCHANGED count
  BY CallType DEF Reply, Fits, ServedBy, Underway, Serving
<1>2. PICK u \in Urls : u = call[c].at
  BY <1>1
<1>3. PICK t : t = Left(server[u], c)
  OBVIOUS
<1>4. server' = [server EXCEPT ![u] = t]
  BY <1>2, <1>3 DEF Reply
<1>5. PICK ok \in BOOLEAN : CallReturns(c, ok) /\ (c = Beat => ok)
  BY DEF Reply
<1>6. Calmer(server[u], t) /\ t.quiet = 0 /\ t.state = server[u].state /\ t.gen = server[u].gen /\ t.after = server[u].after
  BY <1>1, <1>2, <1>3, CountedCalmer
<1>7. \A v \in Urls : Calmer(server[v], server'[v])
  BY <1>4, <1>6, SoleServer
<1>8. CASE keep' = keep
  BY <1>1, <1>7, <1>8, MissedStays, TimersCalm
<1>9. CASE c = Beat /\ server[u].after = 0
  <2>1. keep' = Over
    BY <1>2, <1>5, <1>9 DEF CallReturns, BeatOver
  <2>2. Missed(keep, Over)
    BY TimesAssumption DEF Over, Missed
  <2> QED
    BY <1>1, <1>7, <2>1, <2>2, TimersCalm
<1>10. CASE c = Beat /\ server[u].after # 0
  <2>1. PICK a \in Afters : a = server[u].after
    BY <1>10, NumberType DEF ServerSet
  <2>2. PICK i : i = Interval(a)
    OBVIOUS
  <2>3. i \in Nat
    BY <2>2, Longest, IntervalType, TimesAssumption
  <2>4. keep' = [on |-> TRUE, every |-> i, next |-> i, missed |-> 0, held |-> server[u].gen]
    BY <1>2, <1>5, <1>10, <2>1, <2>2 DEF CallReturns, BeatOver
  <2>5. keep'.every = i /\ keep'.next = i /\ keep'.missed = 0 /\ keep'.held = server[u].gen
    BY <2>4
  <2>6. \A v \in Urls : InTime(server'[v])
    BY <1>7 DEF TimerInv, Calmer, InTime
  <2>7. Numbered(server', count'.servers)
    BY <1>1, <1>7 DEF TimerInv, Calmer, Numbered
  <2>8. keep'.next <= keep'.every /\ keep'.held <= count'.servers
    BY <1>1, <1>2, <2>3, <2>5, NumberType DEF TimerInv, Numbered
  <2>9. ASSUME NEW v \in Urls, Paced, HeldBy(server'[v], keep') PROVE Held(server'[v], keep')
    <3>1. server[v].state # "down" /\ server[v].gen = server[u].gen
      BY <1>7, <2>5, <2>9 DEF HeldBy, Calmer
    <3>2. v = u
      BY <1>1, <1>2, <3>1 DEF TimerInv, Numbered
    <3>3. server'[v] = t
      BY <1>4, <3>2 DEF SessionInv
    <3>4. 2 * i < a
      BY <2>2, <2>9, TwoIntervals
    <3> QED
      BY <1>6, <2>1, <2>3, <2>5, <3>3, <3>4 DEF Held
  <2> QED
    BY <2>6, <2>7, <2>8, <2>9 DEF TimerInv
<1> QED
  BY <1>5, <1>8, <1>9, <1>10 DEF CallReturns

\* A server that is started has a number nobody has, and that no beat has seen.
LEMMA RedialTimers ==
  ASSUME SessionInv, TimerInv, NEW c \in All, Redial(c)
  PROVE  TimerInv'
<1>1. CASE UNCHANGED <<server, count>>
  <2>1. keep' = keep \/ CallReturns(c, FALSE)
    BY <1>1 DEF Redial
  <2> QED
    BY <1>1, <2>1, SameServer, FailedCall, TimersCalm
<1>2. ASSUME NEW u \in Urls, NEW after \in Afters, server[u].state = "down",
             server' = [server EXCEPT ![u] = Started(count.servers + 1, after)],
             count' = [count EXCEPT !.servers = @ + 1], UNCHANGED keep
      PROVE  TimerInv'
  <2>1. PICK n : n = count.servers + 1
    OBVIOUS
  <2>2. count'.servers = n /\ n \in Nat /\ count.servers \in Nat /\ n = count.servers + 1
    BY <1>2, <2>1, NumberType DEF SessionInv, CountSet
  <2>3. PICK t : t = Started(n, after)
    OBVIOUS
  <2>4. t.state = "up" /\ t.gen = n /\ t.after = after /\ t.quiet = 0 /\ t.alarm = after /\ after \in Nat
    BY <2>3, Longest DEF Started
  <2>5. server'[u] = t /\ \A v \in Urls : v # u => server'[v] = server[v]
    BY <1>2, <2>1, <2>3 DEF SessionInv
  <2>6. InTime(t)
    BY <2>4 DEF InTime
  <2>7. \A v \in Urls : server[v].state # "down" => server[v].gen \in Nat /\ server[v].gen < n
    BY <2>2, NumberType DEF TimerInv, Numbered
  <2>8. Numbered(server', count'.servers)
    <3>1. \A v \in Urls : server'[v].state # "down" => server'[v].gen \in 1..n
      BY <2>2, <2>4, <2>5, NumberType DEF TimerInv, Numbered
    <3>2. \A v, w \in Urls : server'[v].state # "down" /\ server'[w].state # "down" /\ server'[v].gen = server'[w].gen => v = w
      BY <2>2, <2>4, <2>5, <2>7 DEF TimerInv, Numbered
    <3> QED
      BY <2>2, <3>1, <3>2 DEF Numbered
  <2>9. keep'.next <= keep'.every /\ keep'.held <= count'.servers
    BY <1>2, <2>2, NumberType DEF TimerInv
  <2>10. ~ HeldBy(t, keep')
    BY <1>2, <2>2, <2>4, NumberType DEF HeldBy, TimerInv
  <2> QED
    BY <1>2, <2>5, <2>6, <2>8, <2>9, <2>10 DEF TimerInv
<1> QED
  BY <1>1, <1>2 DEF Redial

LEMMA EndTimers ==
  ASSUME SessionInv, TimerInv, NEW u \in Urls,
         Wake(u) \/ DrainOver(u) \/ ServerCrash(u) \/ Shutdown(u) \/ End
  PROVE  TimerInv'
<1> DEFINE s == server[u]
<1>1. s \in ServerSet /\ s.quiet \in Nat /\ s.after \in Nat /\ s.alarm \in Nat
  BY NumberType
<1>2. ASSUME s.state = "up" PROVE Calmer(s, Draining(s))
  BY <1>1, <1>2 DEF Draining, Calmer, ServerSet
<1>3. Calmer(s, Down)
  BY DEF Down, Calmer
<1>4. CASE Wake(u)
  <2>1. s.state = "up" /\ s.after > 0 /\ s.alarm = 0 /\ UNCHANGED <<keep, count>>
    BY <1>4 DEF Wake
  <2>2. CASE Expired(s)
    <3>1. server' = [server EXCEPT ![u] = Draining(s)]
      BY <1>4, <2>2 DEF Wake
    <3> QED
      BY <1>2, <2>1, <3>1, SoleServer, MissedStays, TimersCalm
  <2>3. CASE ~ Expired(s)
    <3>1. PICK r : r = Remaining(s)
      OBVIOUS
    <3>2. PICK t : t = [s EXCEPT !.alarm = r]
      OBVIOUS
    <3>3. server' = [server EXCEPT ![u] = t]
      BY <1>4, <2>3, <3>1, <3>2 DEF Wake
    <3> HIDE DEF s
    <3>4. t.state = s.state /\ t.gen = s.gen /\ t.after = s.after /\ t.quiet = s.quiet /\ t.inflight = s.inflight /\ t.alarm = r
      BY <1>1, <3>2 DEF ServerSet
    <3>5. r <= s.after /\ (s.inflight = {} => s.quiet + r <= s.after)
      BY <1>1, <2>3, <3>1 DEF Remaining, Expired
    <3>6. Calmer(s, t)
      BY <2>1, <3>4, <3>5 DEF Calmer, InTime
    <3> USE DEF s
    <3> QED
      BY <2>1, <3>3, <3>6, SoleServer, MissedStays, TimersCalm
  <2> QED
    BY <2>2, <2>3
<1>5. CASE DrainOver(u) \/ ServerCrash(u)
  <2>1. count'.servers = count.servers /\ Gone(u)
    BY <1>5, FaultServers DEF DrainOver, ServerCrash
  <2>2. server' = [server EXCEPT ![u] = Down] /\ Break(At(u))
    BY <2>1 DEF Gone
  <2>3. Missed(keep, keep')
    BY <2>2, BrokenCalls
  <2> QED
    BY <1>3, <2>1, <2>2, <2>3, SoleServer, TimersCalm
<1>6. CASE Shutdown(u)
  <2>1. server' = [server EXCEPT ![u] = Draining(s)] /\ s.state = "up" /\ UNCHANGED keep /\ count'.servers = count.servers
    BY <1>6, FaultServers DEF Shutdown
  <2> QED
    BY <1>2, <2>1, SoleServer, MissedStays, TimersCalm
<1>7. CASE End
  <2>1. Missed(keep, Over)
    BY TimesAssumption DEF Over, Missed
  <2> QED
    BY <1>7, <2>1, SameServer, TimersCalm DEF End
<1> QED
  BY <1>4, <1>5, <1>6, <1>7

\* Time passes: no alarm is overdue, and no beat.
LEMMA TickTimers ==
  ASSUME SessionInv, TimerInv, Tick
  PROVE  TimerInv'
<1>1. /\ UNCHANGED count /\ (keep.on => keep.next > 0)
      /\ \A u \in Urls : server[u].alarm = 0 => server[u].state = "down" \/ server[u].after = 0
  BY DEF Tick
<1>2. PICK next : next = IF keep.on THEN keep.next - 1 ELSE keep.next
  OBVIOUS
<1>3. /\ keep'.next = next /\ keep'.on = keep.on /\ keep'.every = keep.every
      /\ keep'.missed = keep.missed /\ keep'.held = keep.held
  BY <1>2 DEF Tick, SessionInv, KeepSet
<1>4. \A u \in Urls :
        /\ server'[u].state = server[u].state /\ server'[u].gen = server[u].gen
        /\ server'[u].after = server[u].after /\ server'[u].inflight = server[u].inflight
        /\ server'[u].alarm = (IF server[u].alarm > 0 THEN server[u].alarm - 1 ELSE 0)
        /\ server[u].state = "up" => server'[u].quiet \in Nat /\ server'[u].quiet <= server[u].quiet + 1
  <2> TAKE u \in Urls
  <2>1. PICK s : s = server[u]
    OBVIOUS
  <2>2. s \in ServerSet /\ s.quiet + 1 \in Nat /\ s.after + 1 \in Nat
    BY <2>1, NumberType
  <2>3. PICK quiet, alarm : /\ quiet = IF s.state = "up" THEN Min({s.quiet + 1, s.after + 1}) ELSE s.quiet
                            /\ alarm = IF s.alarm > 0 THEN s.alarm - 1 ELSE 0
    OBVIOUS
  <2>4. PICK t : t = [s EXCEPT !.quiet = quiet, !.alarm = alarm]
    OBVIOUS
  <2>5. server'[u] = t
    BY <2>1, <2>3, <2>4 DEF Tick
  <2>6. t.state = s.state /\ t.gen = s.gen /\ t.after = s.after /\ t.inflight = s.inflight /\ t.alarm = alarm /\ t.quiet = quiet
    BY <2>2, <2>4 DEF ServerSet
  <2>7. s.state = "up" => quiet \in Nat /\ quiet <= s.quiet + 1
    BY <2>2, <2>3, MinOfTwo
  <2> QED
    BY <2>1, <2>3, <2>5, <2>6, <2>7
<1>5. ASSUME NEW u \in Urls PROVE InTime(server'[u])
  <2> SUFFICES ASSUME server[u].state = "up", server[u].after > 0
               PROVE  /\ server'[u].alarm <= server[u].after
                      /\ server[u].inflight = {} => server'[u].quiet + server'[u].alarm <= server[u].after
    BY <1>4 DEF InTime
  <2>1. /\ server[u].alarm \in Nat /\ server[u].alarm # 0 /\ server[u].after \in Nat /\ server[u].quiet \in Nat
        /\ server[u].alarm <= server[u].after
        /\ server[u].inflight = {} => server[u].quiet + server[u].alarm <= server[u].after
    BY <1>1, NumberType DEF TimerInv, InTime
  <2>2. server'[u].alarm = server[u].alarm - 1 /\ server'[u].quiet \in Nat /\ server'[u].quiet <= server[u].quiet + 1
    BY <1>4, <2>1
  <2> QED
    BY <2>1, <2>2
<1>6. Numbered(server', count'.servers)
  BY <1>1, <1>4 DEF TimerInv, Numbered
<1>7. keep.next \in Nat /\ keep.every \in Nat /\ keep.next <= keep.every
  BY NumberType DEF TimerInv
<1>8. keep'.next <= keep'.every /\ keep'.held <= count'.servers
  BY <1>1, <1>2, <1>3, <1>7 DEF TimerInv
<1>9. ASSUME NEW u \in Urls, Paced, HeldBy(server'[u], keep') PROVE Held(server'[u], keep')
  <2>1. server[u].state = "up" /\ keep.on /\ Held(server[u], keep)
    BY <1>3, <1>4, <1>9 DEF HeldBy, TimerInv
  <2>2. next = keep.next - 1 /\ keep.next > 0
    BY <1>1, <1>2, <2>1
  <2>3. server[u].quiet \in Nat /\ server'[u].quiet \in Nat /\ server'[u].quiet <= server[u].quiet + 1 /\ server'[u].after = server[u].after
    BY <1>4, <2>1, NumberType
  <2> QED
    BY <1>3, <1>7, <2>1, <2>2, <2>3 DEF Held
<1> QED
  BY <1>5, <1>6, <1>8, <1>9 DEF TimerInv

LEMMA TimersStart == SessionInit => TimerInv
<1> SUFFICES ASSUME SessionInit PROVE TimerInv
  OBVIOUS
<1>1. PICK after \in Afters \cup {0} :
        /\ server = [u \in Urls |-> IF u = Home THEN Started(1, after) ELSE Down]
        /\ keep = [on |-> TRUE, every |-> MinBeat, next |-> 0, missed |-> 0, held |-> 0]
        /\ count = [servers |-> 1, faults |-> 0]
  BY DEF SessionInit
<1>2. \A u \in Urls : server[u].state # "down" => u = Home /\ server[u] = Started(1, after)
  BY <1>1 DEF Down
<1>3. PICK t : t = Started(1, after)
  OBVIOUS
<1>4. t.gen = 1 /\ t.quiet = 0 /\ t.alarm = after /\ t.after = after /\ after \in Nat
  BY <1>3, Longest DEF Started
<1>5. \A u \in Urls : InTime(server[u])
  BY <1>2, <1>3, <1>4 DEF InTime
<1>6. Numbered(server, 1)
  BY <1>2, <1>3, <1>4 DEF Numbered
<1>7. \A u \in Urls : ~ HeldBy(server[u], keep)
  BY <1>1, <1>2, <1>3, <1>4 DEF HeldBy
<1>8. keep.next <= keep.every /\ keep.held <= count.servers /\ count.servers = 1
  BY <1>1, TimesAssumption
<1> QED
  BY <1>5, <1>6, <1>7, <1>8 DEF TimerInv

LEMMA StepKeepsTimers ==
  ASSUME SessionInv, TimerInv, [SessionNext]_sessionVars
  PROVE  TimerInv'
<1>1. CASE UNCHANGED sessionVars
  BY <1>1, SameServer, MissedStays, TimersCalm DEF sessionVars
<1>2. ASSUME NEW c \in All, NEW kind \in Kinds, Begin(c, kind) PROVE TimerInv'
  BY <1>2, CallTimers
<1>3. ASSUME NEW c \in All, CallStep(c) \/ Cancel(c) \/ Drop(c) PROVE TimerInv'
  <2>1. "read" \in Kinds
    BY DEF Kinds
  <2> QED
    BY <1>3, <2>1, CallTimers, ReplyTimers, RedialTimers DEF CallStep
<1>4. ASSUME NEW u \in Urls, Wake(u) \/ DrainOver(u) \/ ServerCrash(u) \/ Shutdown(u) PROVE TimerInv'
  BY <1>4, EndTimers
<1>5. ASSUME End PROVE TimerInv'
  BY <1>5, UrlsAssumption, EndTimers
<1>6. ASSUME Tick PROVE TimerInv'
  BY <1>6, TickTimers
<1> QED
  BY <1>1, <1>2, <1>3, <1>4, <1>5, <1>6 DEF SessionNext

LEMMA TimersHold == SessionSpec => [](SessionInv /\ TimerInv)
<1>1. SessionInv /\ TimerInv /\ [SessionNext]_sessionVars => SessionInv' /\ TimerInv'
  BY StepKeepsSession, StepKeepsTimers
<1> QED
  BY <1>1, SessionStarts, TimersStart, PTL DEF SessionSpec

LEMMA TimersInTime ==
  ASSUME SessionInv, TimerInv
  PROVE  IdleInTime
<1>1. \A u \in Urls : server[u].quiet \in Nat /\ server[u].alarm \in Nat /\ server[u].after \in Nat
  BY NumberType
<1> QED
  BY <1>1 DEF TimerInv, InTime, IdleInTime

\* For any timeouts, a server that nobody asks anything stays up no longer than its
\* idle timeout: the watcher's alarm is set for the deadline or before it.
THEOREM ServersIdleInTime == SessionSpec => []IdleInTime
<1>1. SessionInv /\ TimerInv => IdleInTime
  BY TimersInTime
<1> QED
  BY <1>1, TimersHold, PTL

\* And one the session has heard of stays while the session lives, for any
\* timeouts the beats can keep up with, through a missed beat and whatever
\* the other calls do (keepalive.go Keepalive, heartbeatInterval).
THEOREM IdlesOnTime ==
  ASSUME Paced
  PROVE  SessionSpec => []IdleOnTime
<1>1. SessionInv /\ TimerInv => IdleOnTime
  <2> SUFFICES ASSUME SessionInv, TimerInv PROVE HeldOpen
    BY TimersInTime DEF IdleOnTime, IdleInTime
  <2> SUFFICES ASSUME NEW u \in Urls, HeldBy(server[u], keep) PROVE server[u].quiet < server[u].after
    BY DEF HeldOpen, HeldBy
  <2>1. Held(server[u], keep)
    BY DEF TimerInv
  <2>2. /\ keep.every \in Nat /\ keep.next \in Nat /\ keep.missed \in 0..2 /\ keep.missed < 2
        /\ server[u].quiet \in Nat /\ server[u].after \in Nat
    BY NumberType DEF HeldBy
  <2> QED
    BY <2>1, <2>2 DEF Held
<1> QED
  BY <1>1, TimersHold, PTL
=================================================================================
