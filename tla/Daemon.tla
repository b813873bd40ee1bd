------------------------------- MODULE Daemon -------------------------------
(***************************************************************************)
(* The rendezvous of one workspace: clients that look for the workspace's  *)
(* server, start one when none answers and restart one of another build    *)
(* (service/daemon), and the life of the server processes they find, from  *)
(* exec to exit (service.Run).                                             *)
(*                                                                         *)
(* What the two sides share is a registration file, which anybody may      *)
(* rewrite or unlink, the spawn lock (an flock), the TCP ports, and the    *)
(* processes themselves.  Ports matter: every server first tries the same  *)
(* default port, so the port a registration names may be answered by a     *)
(* later server, or by the server of another workspace.                    *)
(*                                                                         *)
(* Timeouts are not clocks here: a deadline that may pass is an action     *)
(* that may be taken.                                                      *)
(***************************************************************************)
EXTENDS Naturals, FiniteSets

CONSTANTS
  Clients,      \* processes that call Connect, `grpcview shutdown` or StopServer
  Pids,         \* server processes, each used once
  HandPids,     \* those a user starts by hand: no idle timeout, no lock
  Builds,       \* identities of the executable
  BuildOf,      \* the build each client runs
  Env,          \* which of Happenings the surroundings may do
  DefaultPort,  \* the port every server tries first
  Foreign,      \* another workspace's server
  None          \* no registration, no port, no process, no holder

Happenings ==
  { "crash",     \* a server process dies without running its deferred calls
    "idle",      \* a spawned server reaches its idle timeout
    "shutdown",  \* a client stops the server outside the spawn lock
    "hand",      \* a user starts a server by hand
    "giveup",    \* a client is cancelled or killed, or its exec fails
    "late",      \* a child needs longer than startupTimeout to come up
    "slow",      \* a live server does not answer within probeTimeout
    "foreign",   \* another workspace's server takes the default port
    "reuse" }    \* the kernel gives a dead server's pid to a stranger

ASSUME EnvAssumption    == Env \subseteq Happenings
ASSUME PidsAssumption   == HandPids \subseteq Pids
ASSUME BuildAssumption  == BuildOf \in [Clients -> Builds]
\* An ephemeral port is named after the process the kernel gave it to.
Ports == Pids \cup {DefaultPort}

Registration == [pid : Pids, port : Ports]

ASSUME NoneAssumption   == /\ None \notin Clients \cup Pids
                           /\ Foreign \notin Pids \cup {"ok", "error"}
                           /\ Foreign # None
                           /\ DefaultPort \notin Pids \cup {None}
                           /\ None \notin Registration

ProcessStates ==
  { "unborn", "starting", "bound", "serving", "stopping", "draining",
    "exiting", "dead", "reused" }

ClientStates ==
  { "idle", "first", "firstSeen", "lockWait", "locked", "lockedSeen",
    "stopCall", "stopWait", "spawn", "wait", "waitSeen", "done" }

VARIABLES
  state,    \* where each server process is in Run
  port,     \* the port each listens on
  build,    \* the executable each runs
  reg,      \* the registration file
  lock,     \* who holds the spawn lock
  foreign,  \* another workspace's server listens on the default port
  pc,       \* where each client is in Connect or Stop
  op,       \* what each client was asked for
  seen,     \* the registration a client last read, then what Verify made of it
  child,    \* the process a client spawned
  result    \* what a client's call came to

servers == <<state, port, build>>
clients == <<pc, op, seen, child, result>>
vars == <<state, port, build, reg, lock, foreign, pc, op, seen, child, result>>

TypeOK ==
  /\ state \in [Pids -> ProcessStates]
  /\ port \in [Pids -> Ports \cup {None}]
  /\ build \in [Pids -> Builds \cup {None}]
  /\ reg \in Registration \cup {None}
  /\ lock \in Clients \cup {None}
  /\ foreign \in BOOLEAN
  /\ pc \in [Clients -> ClientStates]
  /\ op \in [Clients -> {"connect", "shutdown"}]
  /\ seen \in [Clients -> Registration \cup {None}]
  /\ child \in [Clients -> Pids \cup {None}]
  /\ result \in [Clients -> Pids \cup {Foreign, None, "error", "ok"}]

Init ==
  /\ state = [p \in Pids |-> "unborn"]
  /\ port = [p \in Pids |-> None]
  /\ build = [p \in Pids |-> None]
  /\ reg = None
  /\ lock = None
  /\ foreign = FALSE
  /\ pc = [c \in Clients |-> "idle"]
  /\ op \in [Clients -> IF "shutdown" \in Env THEN {"connect", "shutdown"}
                                              ELSE {"connect"}]
  /\ seen = [c \in Clients |-> None]
  /\ child = [c \in Clients |-> None]
  /\ result = [c \in Clients |-> None]

(***************************************************************************)
(* What a client can find out about a process.                             *)
(***************************************************************************)

\* Signal 0: the pid names some process, not necessarily a server.
Alive(p) == state[p] \notin {"unborn", "dead"}

Listening(p) == state[p] \in {"bound", "serving", "stopping"}

\* The server behind a port, of this workspace or of another.
Answers(q, prt) ==
  \/ q \in Pids /\ Listening(q) /\ port[q] = prt
  \/ q = Foreign /\ foreign /\ prt = DefaultPort

PortFree(prt) == \A q \in Pids \cup {Foreign} : ~ Answers(q, prt)

\* Mutant: the root in the answer is not compared.
AnyRootMatches(q) == TRUE

\* ServerInfo's root against the registration's.
RootMatches(q) == q # Foreign

\* A foreign server is taken to run the client's build: nothing but its root
\* then tells it from the workspace's own.
SameBuild(q, c) == q = Foreign \/ build[q] = BuildOf[c]

\* Verify: the claimed pid is alive and the server on the claimed port
\* reports this workspace's root.  The pid kept is the one that answered.
Verified(r, q) == Alive(r.pid) /\ Answers(q, r.port) /\ RootMatches(q)

Unverified(r) ==
  \/ \A q \in Pids \cup {Foreign} : ~ Verified(r, q)
  \/ "slow" \in Env

-----------------------------------------------------------------------------
(***************************************************************************)
(* The server process: service.Run from the exec to the exit.              *)
(***************************************************************************)

\* A user runs `grpcview`: no lock is taken and no registration is read.
HandServe(p) ==
  /\ "hand" \in Env
  /\ p \in HandPids
  /\ state[p] = "unborn"
  /\ state' = [state EXCEPT ![p] = "starting"]
  /\ \E b \in Builds : build' = [build EXCEPT ![p] = b]
  /\ UNCHANGED <<port, reg, lock, foreign, clients>>

\* Bind first: the default port, or an ephemeral one when it is taken.
Bind(p) ==
  /\ state[p] = "starting"
  /\ state' = [state EXCEPT ![p] = "bound"]
  /\ port' = [port EXCEPT ![p] = IF PortFree(DefaultPort) THEN DefaultPort ELSE p]
  /\ UNCHANGED <<build, reg, lock, foreign, clients>>

\* Publish second: the registration is replaced whatever it said.
Publish(p) ==
  /\ state[p] = "bound"
  /\ state' = [state EXCEPT ![p] = "serving"]
  /\ reg' = [pid |-> p, port |-> port[p]]
  /\ UNCHANGED <<port, build, lock, foreign, clients>>

\* The idle timeout a client gives its child (an hour) is far beyond the
\* time it waits for it, and a server started by hand has none.
IdleExpire(p) ==
  /\ "idle" \in Env
  /\ p \notin HandPids
  /\ state[p] = "serving"
  /\ \A c \in Clients : child[c] = p => pc[c] \notin {"wait", "waitSeen"}
  /\ state' = [state EXCEPT ![p] = "stopping"]
  /\ UNCHANGED <<port, build, reg, lock, foreign, clients>>

\* http.Server.Shutdown closes the listener before it waits for requests.
CloseListener(p) ==
  /\ state[p] = "stopping"
  /\ state' = [state EXCEPT ![p] = "draining"]
  /\ port' = [port EXCEPT ![p] = None]
  /\ UNCHANGED <<build, reg, lock, foreign, clients>>

\* The drain ended, or drainTimeout passed: either way Run returns, and its
\* deferred Remove unlinks whatever registration the root has.
DrainEnd(p) ==
  /\ state[p] = "draining"
  /\ state' = [state EXCEPT ![p] = "exiting"]
  /\ reg' = None
  /\ UNCHANGED <<port, build, lock, foreign, clients>>

Exit(p) ==
  /\ state[p] = "exiting"
  /\ state' = [state EXCEPT ![p] = "dead"]
  /\ UNCHANGED <<port, build, reg, lock, foreign, clients>>

\* Killed, or a startup that failed: the deferred Remove does not run.
Crash(p) ==
  /\ "crash" \in Env
  /\ Alive(p) /\ state[p] # "reused"
  /\ state' = [state EXCEPT ![p] = "dead"]
  /\ port' = [port EXCEPT ![p] = None]
  /\ UNCHANGED <<build, reg, lock, foreign, clients>>

Reuse(p) ==
  /\ "reuse" \in Env
  /\ state[p] = "dead"
  /\ state' = [state EXCEPT ![p] = "reused"]
  /\ UNCHANGED <<port, build, reg, lock, foreign, clients>>

ForeignUp ==
  /\ "foreign" \in Env
  /\ PortFree(DefaultPort)
  /\ foreign' = TRUE
  /\ UNCHANGED <<servers, reg, lock, clients>>

ForeignDown ==
  /\ foreign
  /\ foreign' = FALSE
  /\ UNCHANGED <<servers, reg, lock, clients>>

Server(p) ==
  \/ HandServe(p) \/ Bind(p) \/ Publish(p) \/ IdleExpire(p)
  \/ CloseListener(p) \/ DrainEnd(p) \/ Exit(p) \/ Crash(p) \/ Reuse(p)

-----------------------------------------------------------------------------
(***************************************************************************)
(* The client: Connect, and Stop by `grpcview shutdown` and StopServer.    *)
(***************************************************************************)

Goto(c, label) == pc' = [pc EXCEPT ![c] = label]

\* Mutant: an exit from Connect without the deferred unlock.
ReturnKeepingLock(c, r) ==
  /\ Goto(c, "done")
  /\ result' = [result EXCEPT ![c] = r]
  /\ UNCHANGED lock

\* Connect returns, and its deferred unlock runs if it held the lock.
Return(c, r) ==
  /\ Goto(c, "done")
  /\ result' = [result EXCEPT ![c] = r]
  /\ lock' = IF lock = c THEN None ELSE lock

Call(c) ==
  /\ pc[c] = "idle"
  /\ Goto(c, "first")
  /\ UNCHANGED <<servers, reg, lock, foreign, op, seen, child, result>>

\* The probe reads the registration; what it says is verified a step later.
AfterRead == [first |-> "firstSeen", locked |-> "lockedSeen", wait |-> "waitSeen"]

ReadReg(c) ==
  /\ pc[c] \in {"first", "locked", "wait"}
  /\ reg # None
  /\ seen' = [seen EXCEPT ![c] = reg]
  /\ Goto(c, AfterRead[pc[c]])
  /\ UNCHANGED <<servers, reg, lock, foreign, op, child, result>>

\* Nothing to talk to: before the lock this leads to the lock, under the
\* lock to a spawn, after the spawn to the next poll.
NotFound(c, at) ==
  \/ /\ at = "first" /\ op[c] = "connect"
     /\ Goto(c, "lockWait")
     /\ UNCHANGED <<result, lock>>
  \/ /\ at = "first" /\ op[c] = "shutdown"
     /\ Return(c, "ok")
  \/ /\ at = "locked"
     /\ Goto(c, "spawn")
     /\ UNCHANGED <<result, lock>>
  \/ /\ at = "wait"
     /\ Goto(c, "wait")
     /\ UNCHANGED <<result, lock>>

ReadNothing(c) ==
  /\ pc[c] \in {"first", "locked"}
  /\ reg = None
  /\ NotFound(c, pc[c])
  /\ UNCHANGED <<servers, reg, foreign, op, seen, child>>

ProbeFails(c) ==
  \E at \in DOMAIN AfterRead :
    /\ pc[c] = AfterRead[at]
    /\ Unverified(seen[c])
    /\ NotFound(c, at)
    /\ seen' = [seen EXCEPT ![c] = None]
    /\ UNCHANGED <<servers, reg, foreign, op, child>>

\* StateOK: Connect is done; StateSkew: before the lock it is only a reason
\* to take it, under the lock a reason to restart, after the spawn accepted.
ProbeAnswered(c) ==
  /\ pc[c] \in {"firstSeen", "lockedSeen", "waitSeen"}
  /\ \E q \in Pids \cup {Foreign} :
      /\ Verified(seen[c], q)
      /\ seen' = [seen EXCEPT ![c].pid = q]
      /\ \/ /\ pc[c] = "firstSeen" /\ op[c] = "shutdown"
            /\ Goto(c, "stopCall")
            /\ UNCHANGED <<lock, result>>
         \/ /\ pc[c] \in {"firstSeen", "lockedSeen"} /\ op[c] = "connect"
            /\ SameBuild(q, c)
            /\ Return(c, q)
         \/ /\ pc[c] = "firstSeen" /\ op[c] = "connect"
            /\ ~ SameBuild(q, c)
            /\ Goto(c, "lockWait")
            /\ UNCHANGED <<lock, result>>
         \/ /\ pc[c] = "lockedSeen"
            /\ ~ SameBuild(q, c)
            /\ Goto(c, "stopCall")
            /\ UNCHANGED <<lock, result>>
         \/ /\ pc[c] = "waitSeen"
            /\ Return(c, q)
  /\ UNCHANGED <<servers, reg, foreign, op, child>>

\* Mutant: the probe is not repeated under the lock.
TakeLockAndSpawn(c) ==
  /\ pc[c] = "lockWait"
  /\ lock = None
  /\ lock' = c
  /\ Goto(c, "spawn")
  /\ UNCHANGED <<servers, reg, foreign, op, seen, child, result>>

\* The flock is polled until it is free.
TakeLock(c) ==
  /\ pc[c] = "lockWait"
  /\ lock = None
  /\ lock' = c
  /\ Goto(c, "locked")
  /\ UNCHANGED <<servers, reg, foreign, op, seen, child, result>>

\* The Shutdown call goes to whoever listens on the verified port by now: it
\* names no root.  A server that is already stopping answers it as well, and a
\* call that timed out may not have arrived.
StopCall(c) ==
  /\ pc[c] = "stopCall"
  /\ \/ \E q \in Pids :
          /\ Answers(q, seen[c].port)
          /\ state' = [state EXCEPT ![q] = IF @ = "serving" THEN "stopping" ELSE @]
          /\ UNCHANGED foreign
     \/ /\ seen[c].port = DefaultPort /\ foreign
        /\ foreign' = FALSE
        /\ UNCHANGED state
     \/ /\ "slow" \in Env
        /\ UNCHANGED <<state, foreign>>
  /\ Goto(c, "stopWait")
  /\ UNCHANGED <<port, build, reg, lock, op, seen, child, result>>

\* A refused dial is an error of Stop, and of the Connect around it.
StopRefused(c) ==
  /\ pc[c] = "stopCall"
  /\ PortFree(seen[c].port)
  /\ Return(c, "error")
  /\ UNCHANGED <<servers, reg, foreign, op, seen, child>>

\* Where Stop's caller goes on when Stop succeeded.
Stopped(c) ==
  IF op[c] = "connect"
    THEN Goto(c, "spawn") /\ UNCHANGED <<lock, result>>
    ELSE Return(c, "ok")

StopSawDeath(c) ==
  /\ pc[c] = "stopWait"
  /\ ~ Alive(seen[c].pid)
  /\ reg' = None
  /\ Stopped(c)
  /\ UNCHANGED <<servers, foreign, op, seen, child>>

StopSawUnlink(c) ==
  /\ pc[c] = "stopWait"
  /\ Alive(seen[c].pid)
  /\ reg = None
  /\ Stopped(c)
  /\ UNCHANGED <<servers, reg, foreign, op, seen, child>>

\* Mutant: Stop waits for the server for as long as it takes.
StopWithoutDeadline(c) == FALSE /\ UNCHANGED vars

\* shutdownTimeout passed: SIGTERM, which no server handles, then Remove.
StopDeadline(c) ==
  /\ pc[c] = "stopWait"
  /\ state' = [state EXCEPT ![seen[c].pid] = "dead"]
  /\ port' = [port EXCEPT ![seen[c].pid] = None]
  /\ reg' = None
  /\ Stopped(c)
  /\ UNCHANGED <<build, foreign, op, seen, child>>

Spawn(c) ==
  /\ pc[c] = "spawn"
  /\ \E p \in Pids \ HandPids :
       /\ state[p] = "unborn"
       /\ state' = [state EXCEPT ![p] = "starting"]
       /\ build' = [build EXCEPT ![p] = BuildOf[c]]
       /\ child' = [child EXCEPT ![c] = p]
  /\ Goto(c, "wait")
  /\ UNCHANGED <<port, reg, lock, foreign, op, seen, result>>

\* The pipe closed: the child is gone.
ChildDied(c) ==
  /\ pc[c] = "wait"
  /\ state[child[c]] \in {"dead", "reused"}
  /\ Return(c, "error")
  /\ UNCHANGED <<servers, reg, foreign, op, seen, child>>

\* The child is not killed: it may still come up, with nobody waiting for it.
StartupTimeout(c) ==
  /\ "late" \in Env
  /\ pc[c] = "wait"
  /\ Return(c, "error")
  /\ UNCHANGED <<servers, reg, foreign, op, seen, child>>

\* The context ends, the client process is killed (which drops the flock), or
\* the exec fails.  A child that was started goes on by itself.
GiveUp(c) ==
  /\ "giveup" \in Env
  /\ pc[c] \in {"lockWait", "stopWait", "spawn", "wait"}
  /\ Return(c, "error")
  /\ UNCHANGED <<servers, reg, foreign, op, seen, child>>

ClientStep(c) ==
  \/ Call(c) \/ ReadReg(c) \/ ReadNothing(c) \/ ProbeFails(c)
  \/ ProbeAnswered(c) \/ TakeLock(c) \/ StopCall(c) \/ StopRefused(c)
  \/ StopSawDeath(c) \/ StopSawUnlink(c) \/ StopDeadline(c) \/ Spawn(c)
  \/ ChildDied(c) \/ StartupTimeout(c)

Client(c) == ClientStep(c) \/ GiveUp(c)

-----------------------------------------------------------------------------
Next ==
  \/ \E p \in Pids : Server(p)
  \/ \E c \in Clients : Client(c)
  \/ ForeignUp
  \/ ForeignDown

Spec == Init /\ [][Next]_vars

(***************************************************************************)
(* A client process is scheduled until its call has returned.  Nothing is  *)
(* assumed of the servers, nor of cancellation.  The startup deadline is   *)
(* strong: the poll loop checks it on every turn, between two probes.      *)
(***************************************************************************)
ClientFairness ==
  \A c \in Clients :
    /\ WF_vars(ClientStep(c))
    /\ SF_vars(StartupTimeout(c))
    /\ WF_vars(StopDeadline(c))

FairSpec == Spec /\ ClientFairness

-----------------------------------------------------------------------------
(***************************************************************************)
(* Properties.                                                             *)
(***************************************************************************)

\* At most one server accepts requests for the workspace: "one workspace, one
\* writer" (docs/design/shipped/daemon.md:67) and Connect's promise that a
\* server another client just started is reused rather than duplicated
\* (connect.go:118).  It takes a client that does not see another's server.
OneServer ==
  \A p, q \in Pids : Listening(p) /\ Listening(q) => p = q

\* Only the client between lock and unlock starts, waits for or replaces a
\* server, so the spawn lock really is held over check, spawn and wait, and
\* every path out of Connect has given it back.
LockCoversSpawn ==
  \A c \in Clients :
    op[c] = "connect" =>
      (lock = c <=> pc[c] \in { "locked", "lockedSeen", "stopCall", "stopWait",
                               "spawn", "wait", "waitSeen" })

\* A client never ends up on another workspace's server, although the port in
\* a stale registration is the one every server tries first (connect.go:92).
NeverAdoptsForeign == \A c \in Clients : result[c] # Foreign

\* Every call returns: no error path keeps the lock, and no loop of Stop or
\* spawn outlives its deadline.
EveryCallReturns == \A c \in Clients : pc[c] = "first" ~> pc[c] = "done"

-----------------------------------------------------------------------------
(***************************************************************************)
(* Why there is one server as long as servers only crash or are restarted  *)
(* under the lock: the inductive invariant behind OneServer.  A process    *)
(* that is up is the registered one, or the child of the lock's holder.    *)
(***************************************************************************)
Up(p) == state[p] \in {"starting", "bound", "serving", "stopping", "draining"}

HolderAt(labels) == lock \in Clients /\ pc[lock] \in labels

\* A published server stays the registered one until it has drained.
RegisteredIsUp ==
  /\ \A p \in Pids : state[p] \in {"serving", "stopping", "draining"} =>
       reg \in Registration /\ reg.pid = p
  /\ \A p \in Pids : state[p] \in {"serving", "stopping"} => reg.port = port[p]
  /\ reg \in Registration =>
       state[reg.pid] \in {"serving", "stopping", "draining", "dead"}

\* A server that comes up or goes down does so under the lock.
ChangesUnderLock ==
  /\ \A p \in Pids : state[p] \in {"starting", "bound"} =>
       HolderAt({"wait", "waitSeen"}) /\ child[lock] = p
  /\ \A p \in Pids : state[p] \in {"stopping", "draining"} => HolderAt({"stopWait"})

\* What the holder of the lock knows about every process that is up.
HolderKnows ==
  /\ HolderAt({"lockedSeen"}) =>
       \A p \in Pids : Up(p) => seen[lock] = [pid |-> p, port |-> port[p]]
  /\ HolderAt({"stopCall", "stopWait"}) => \A p \in Pids : Up(p) => seen[lock].pid = p
  /\ HolderAt({"spawn"}) => \A p \in Pids : ~ Up(p)
  /\ HolderAt({"wait", "waitSeen"}) => \A p \in Pids : Up(p) => child[lock] = p
  /\ HolderAt({"waitSeen"}) => state[seen[lock].pid] \in {"serving", "dead"}

SoloInv ==
  /\ \A c \in Clients : op[c] = "connect"
  /\ \A p \in Pids : state[p] # "reused"
  /\ RegisteredIsUp
  /\ ChangesUnderLock
  /\ HolderKnows

=============================================================================
