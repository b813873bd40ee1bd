------------------------------- MODULE Session -------------------------------
(***************************************************************************)
(* A session with a server that comes and goes: the calls of a client that *)
(* reconnects (service/wire/wire.go, reconnect.go), the heartbeat that     *)
(* holds the server open (wire/keepalive.go, ui/src/lib/keepalive.ts), and *)
(* the idle timer that ends it (service/idle.go, service.go Run).  How a   *)
(* server is found or started is in Daemon; here it is one step, Redial.   *)
(* Time passes in ticks, shorter than any timeout and longer than a beat.  *)
(* No name here is one of Daemon's: the proofs extend the two together.    *)
(***************************************************************************)
EXTENDS Naturals, FiniteSets, FiniteSetsExt

CONSTANTS
  Urls,         \* where a server may listen
  Home,         \* where the first one does
  NoUrl,        \* no URL
  Calls,        \* the session's calls, each made once
  Beat,         \* the call of the heartbeat, made again and again
  Afters,       \* idle timeouts servers are started with
  MinBeat, MaxBeat, BeatsPerIdle,  \* minHeartbeat, maxHeartbeat, beatsPerIdle
  DrainTimeout, \* drainTimeout
  MaxServers,   \* bound: servers ever started
  MaxFaults     \* bound: crashes, shutdowns, cancelled calls and missed beats

ASSUME CallsAssumption == Beat \notin Calls
ASSUME BoundsAssumption == MaxServers \in Nat \ {0} /\ MaxFaults \in Nat
ASSUME UrlsAssumption == Home \in Urls /\ NoUrl \notin Urls
ASSUME TimesAssumption ==
  /\ Afters \subseteq Nat \ {0}
  /\ MinBeat \in Nat \ {0} /\ MaxBeat \in Nat /\ MinBeat <= MaxBeat
  /\ BeatsPerIdle \in Nat \ {0} /\ DrainTimeout \in Nat \ {0}
  /\ \E longest \in Afters : \A a \in Afters : a <= longest

All == Calls \cup {Beat}
Kinds == {"read", "write", "stream"}
Gens == 0..MaxServers
MaxAfter == Max(Afters)

VARIABLES
  server,   \* by URL: the server there, and its idle timer
  current,  \* the URL the client is pointed at
  call,     \* the client's calls
  keep,     \* the heartbeat
  done,     \* by call: how often it was applied, which servers its frames came from
  count     \* servers and faults so far

sessionVars == <<server, current, call, keep, done, count>>

SessionTypeOK ==
  /\ server \in [Urls -> [state : {"down", "up", "draining"}, gen : Gens, after : Afters \cup {0},
                          inflight : SUBSET All, quiet : 0..MaxAfter+1,
                          alarm : 0..Max(Afters \cup {DrainTimeout})]]
  /\ current \in Urls
  /\ call \in [All -> [kind : Kinds, at : Urls \cup {NoUrl}, again : BOOLEAN, failure : {"none", "unsent", "broken"},
                       pc : {"idle", "dialing", "sent", "handling", "worked", "failed", "redialed", "ok", "error"}]]
  /\ keep \in [on : BOOLEAN, every : MinBeat..MaxBeat, next : 0..MaxBeat, missed : 0..2, held : Gens]
  /\ done \in [All -> [applied : 0..2, from : SUBSET Gens]]

Started(gen, after) ==
  [state |-> "up", gen |-> gen, after |-> after, inflight |-> {}, quiet |-> 0, alarm |-> after]

Down == [state |-> "down", gen |-> 0, after |-> 0, inflight |-> {}, quiet |-> 0, alarm |-> 0]

NewCall(kind, u, pc) == [kind |-> kind, at |-> u, again |-> FALSE, failure |-> "none", pc |-> pc]

\* The session begins with a server: one it may find running, started by hand
\* with no idle timeout, or one of its own.
SessionInit ==
  \E after \in Afters \cup {0} :
    /\ server = [u \in Urls |-> IF u = Home THEN Started(1, after) ELSE Down]
    /\ current = Home
    /\ call = [c \in All |-> NewCall("read", NoUrl, "idle")]
    /\ keep = [on |-> TRUE, every |-> MinBeat, next |-> 0, missed |-> 0, held |-> 0]
    /\ done = [c \in All |-> [applied |-> 0, from |-> {}]]
    /\ count = [servers |-> 1, faults |-> 0]

Fault == count.faults < MaxFaults /\ count' = [count EXCEPT !.faults = @ + 1]

-----------------------------------------------------------------------------
(***************************************************************************)
(* The idle timer.                                                         *)
(***************************************************************************)
Entered(s, c) == [s EXCEPT !.inflight = @ \cup {c}, !.quiet = 0]

\* Mutant: a request that ends is not counted out.
LeftCounted(s, c) == [s EXCEPT !.quiet = 0]

Left(s, c) == [s EXCEPT !.inflight = @ \ {c}, !.quiet = 0]

Expired(s) == s.inflight = {} /\ s.quiet >= s.after

Remaining(s) == IF s.quiet < s.after THEN s.after - s.quiet ELSE s.after

Draining(s) == [s EXCEPT !.state = "draining", !.quiet = 0, !.alarm = DrainTimeout]

\* watch: the alarm goes off.
Wake(u) ==
  LET s == server[u]
  IN /\ s.state = "up" /\ s.after > 0 /\ s.alarm = 0
     /\ server' = [server EXCEPT ![u] = IF Expired(s) THEN Draining(s) ELSE [s EXCEPT !.alarm = Remaining(s)]]
     /\ UNCHANGED <<current, call, keep, done, count>>

-----------------------------------------------------------------------------
(***************************************************************************)
(* Calls.                                                                  *)
(***************************************************************************)
\* Mutant: a minute of silence for every minute of the window.
IntervalWhole(idle) == Min({MaxBeat, Max({MinBeat, idle})})

\* heartbeatInterval
Interval(idle) == Min({MaxBeat, Max({MinBeat, idle \div BeatsPerIdle})})

Over == [on |-> FALSE, every |-> MinBeat, next |-> 0, missed |-> 0, held |-> 0]

\* What the loop of Keepalive does with the beat that ended.
BeatOver(ok, u) ==
  IF ~ ok THEN [keep EXCEPT !.next = keep.every, !.missed = Min({@ + 1, 2})]
  ELSE IF server[u].after = 0 THEN Over
  ELSE [on |-> TRUE, every |-> Interval(server[u].after), next |-> Interval(server[u].after),
        missed |-> 0, held |-> server[u].gen]

Returned(x, c, ok) ==
  NewCall(x.kind, NoUrl, IF c = Beat THEN "idle" ELSE IF ok THEN "ok" ELSE "error")

\* The call returns to its caller.
CallReturns(c, ok) ==
  /\ call' = [call EXCEPT ![c] = Returned(@, c, ok)]
  /\ keep' = IF c = Beat THEN BeatOver(ok, call[c].at) ELSE keep

\* retry: the first attempt, at the server of the snapshot.
Begin(c, kind) ==
  /\ call[c].pc = "idle"
  /\ c = Beat => keep.on /\ keep.next = 0 /\ kind = "read"
  /\ call' = [call EXCEPT ![c] = NewCall(kind, current, "dialing")]
  /\ UNCHANGED <<server, current, keep, done, count>>

\* A first attempt that fails is repaired, a second one is the caller's.
Dial(c) ==
  /\ call[c].pc = "dialing"
  /\ IF server[call[c].at].state = "up"
       THEN call' = [call EXCEPT ![c].pc = "sent"] /\ UNCHANGED keep
       ELSE IF call[c].again THEN CallReturns(c, FALSE)
       ELSE call' = [call EXCEPT ![c].pc = "failed", ![c].failure = "unsent"] /\ UNCHANGED keep
  /\ UNCHANGED <<server, current, done, count>>

\* The request arrives, and the timer counts it in.
Arrive(c) ==
  /\ call[c].pc = "sent"
  /\ call' = [call EXCEPT ![c].pc = "handling"]
  /\ server' = [server EXCEPT ![call[c].at] = Entered(@, c)]
  /\ UNCHANGED <<current, keep, done, count>>

\* The handler applies a write, or sends a frame.
Work(c) ==
  /\ call[c].pc = "handling"
  /\ \/ /\ call[c].kind = "write"
        /\ call' = [call EXCEPT ![c].pc = "worked"]
        /\ done' = [done EXCEPT ![c].applied = @ + 1]
     \/ /\ call[c].kind = "stream"
        /\ done' = [done EXCEPT ![c].from = @ \cup {server[call[c].at].gen}]
        /\ UNCHANGED call
  /\ UNCHANGED <<server, current, keep, count>>

\* The server answers; an error of its own is returned untouched.
Reply(c) ==
  /\ call[c].pc \in {"handling", "worked"}
  /\ \E ok \in BOOLEAN :
       /\ ok => (call[c].kind = "write" <=> call[c].pc = "worked")
       /\ c = Beat => ok
       /\ CallReturns(c, ok)
  /\ server' = [server EXCEPT ![call[c].at] = Left(@, c)]
  /\ UNCHANGED <<current, done, count>>

\* The caller gives up, or a beat takes too long: nothing is repaired.
Cancel(c) ==
  /\ call[c].pc \in {"dialing", "sent", "handling", "worked"}
  /\ Fault
  /\ CallReturns(c, FALSE)
  /\ server' = IF call[c].pc \in {"handling", "worked"}
                 THEN [server EXCEPT ![call[c].at] = Left(@, c)] ELSE server
  /\ UNCHANGED <<current, done>>

\* Redial finds the server that is up, or starts one, or fails.
Redial(c) ==
  /\ call[c].pc = "failed"
  /\ LET up == {u \in Urls : server[u].state = "up"}
     IN \/ /\ \E u \in up : call' = [call EXCEPT ![c].pc = "redialed", ![c].at = u]
           /\ UNCHANGED <<server, keep, count>>
        \/ /\ up = {} /\ count.servers < MaxServers
           /\ \E u \in Urls, after \in Afters :
                /\ server[u].state = "down"
                /\ server' = [server EXCEPT ![u] = Started(count.servers + 1, after)]
                /\ call' = [call EXCEPT ![c].pc = "redialed", ![c].at = u]
           /\ count' = [count EXCEPT !.servers = @ + 1]
           /\ UNCHANGED keep
        \/ /\ up = {}
           /\ CallReturns(c, FALSE)
           /\ UNCHANGED <<server, count>>
  /\ UNCHANGED <<current, done>>

\* Mutant: what was repaired is replayed.
ReplaysAll(c) == TRUE

\* What never left is made again, what broke on the way only when nobody can
\* tell, and a stream that has delivered a frame never.
Replays(c) ==
  /\ call[c].failure = "unsent" \/ call[c].kind = "read"
  /\ done[c].from = {}

\* replace, and the second attempt.
Repair(c) ==
  /\ call[c].pc = "redialed"
  /\ current' = call[c].at
  /\ IF Replays(c)
       THEN call' = [call EXCEPT ![c].pc = "dialing", ![c].again = TRUE] /\ UNCHANGED keep
       ELSE CallReturns(c, FALSE)
  /\ UNCHANGED <<server, done, count>>

-----------------------------------------------------------------------------
(***************************************************************************)
(* The end of a server.                                                    *)
(***************************************************************************)
\* The connections of these calls break.
Break(gone) ==
  /\ call' = [c \in All |->
       IF c \notin gone THEN call[c]
       ELSE IF ~ call[c].again THEN [call[c] EXCEPT !.pc = "failed", !.failure = "broken"]
       ELSE Returned(call[c], c, FALSE)]
  /\ keep' = IF Beat \in gone /\ call[Beat].again THEN BeatOver(FALSE, NoUrl) ELSE keep

At(u) == {c \in All : call[c].at = u /\ call[c].pc \in {"sent", "handling", "worked"}}

\* A draining server may close a connection before it has read the request.
Drop(c) ==
  /\ call[c].pc = "sent" /\ server[call[c].at].state = "draining"
  /\ Break({c})
  /\ UNCHANGED <<server, current, done, count>>

Gone(u) ==
  /\ server' = [server EXCEPT ![u] = Down]
  /\ Break(At(u))
  /\ UNCHANGED <<current, done>>

\* Everything is answered, or the drain has taken too long.
DrainOver(u) ==
  /\ server[u].state = "draining"
  /\ server[u].inflight = {} \/ server[u].alarm = 0
  /\ Gone(u)
  /\ UNCHANGED count

ServerCrash(u) ==
  /\ server[u].state # "down"
  /\ Fault
  /\ Gone(u)

\* Another client stops or restarts the server.
Shutdown(u) ==
  /\ server[u].state = "up"
  /\ Fault
  /\ server' = [server EXCEPT ![u] = Draining(@)]
  /\ UNCHANGED <<current, call, keep, done>>

-----------------------------------------------------------------------------
\* The session's context ends.
End ==
  /\ keep.on /\ call[Beat].pc = "idle"
  /\ keep' = Over
  /\ UNCHANGED <<server, current, call, done, count>>

\* A beat takes less than a tick, and the timers go off when they are due.
Tick ==
  /\ \A u \in Urls : server[u].alarm = 0 => server[u].state = "down" \/ server[u].after = 0
  /\ call[Beat].pc = "idle"
  /\ keep.on => keep.next > 0
  /\ server' = [u \in Urls |->
       [server[u] EXCEPT !.quiet = IF server[u].state = "up" THEN Min({@ + 1, server[u].after + 1}) ELSE @,
                         !.alarm = IF @ > 0 THEN @ - 1 ELSE 0]]
  /\ keep' = [keep EXCEPT !.next = IF keep.on THEN @ - 1 ELSE @]
  /\ UNCHANGED <<current, call, done, count>>

CallStep(c) == Dial(c) \/ Arrive(c) \/ Work(c) \/ Reply(c) \/ Redial(c) \/ Repair(c)

SessionNext ==
  \/ \E c \in All, kind \in Kinds : Begin(c, kind)
  \/ \E c \in All : CallStep(c) \/ Cancel(c) \/ Drop(c)
  \/ \E u \in Urls : Wake(u) \/ DrainOver(u) \/ ServerCrash(u) \/ Shutdown(u)
  \/ End
  \/ Tick

\* The timers go off, the servers drain, and calls take their steps; the user's
\* own server answers in the end.
Fairness ==
  /\ WF_sessionVars(Tick)
  /\ \A u \in Urls : WF_sessionVars(Wake(u)) /\ WF_sessionVars(DrainOver(u))
  /\ \A c \in All : WF_sessionVars(Dial(c) \/ Arrive(c) \/ Reply(c) \/ Redial(c) \/ Repair(c))

SessionSpec == SessionInit /\ [][SessionNext]_sessionVars /\ Fairness

-----------------------------------------------------------------------------
(***************************************************************************)
(* Properties.                                                             *)
(***************************************************************************)
\* A stream's frames come from one server and one run: it is never replayed under
\* a caller who has a frame (wire.go:183).
OneSource == \A c \in Calls : Cardinality(done[c].from) <= 1

\* A write is applied at most once however often the connection is repaired, and
\* was applied when its call succeeds: "the difference between the second and
\* third that keeps a retry from duplicating a write" (wire.go:213).  A stream's
\* frames have one source, and the variables keep their types on the way.
AppliedOnce ==
  /\ SessionTypeOK
  /\ OneSource
  /\ \A c \in Calls : call[c].kind = "write" =>
       /\ done[c].applied <= 1
       /\ call[c].pc = "ok" => done[c].applied = 1

\* A server that has answered a beat does not idle out while the session lives,
\* unless two beats in a row have failed since (keepalive.go:22).
HeldOpen ==
  \A u \in Urls :
    LET s == server[u]
    IN s.state = "up" /\ keep.on /\ keep.held = s.gen /\ keep.missed < 2 => s.quiet < s.after

\* However requests begin, go on and end: who is silent for the whole of its idle
\* timeout is on its way out (idle.go watch, remaining).
IdleInTime ==
  \A u \in Urls :
    LET s == server[u]
    IN s.state = "up" /\ s.after > 0 /\ s.inflight = {} => s.quiet <= s.after

\* No server stays up longer than its idle timeout after the last request, however
\* long that one took: the watcher sleeps "to the deadline" (idle.go:68).  One that
\* the session's heartbeat holds open stays up.
IdleOnTime == HeldOpen /\ IdleInTime

\* When the session is over and its calls have returned, no server that was started
\* for it stays.
Quiet == ~ keep.on /\ \A c \in All : call[c].pc \in {"idle", "ok", "error"}

QuietServerStops ==
  \A u \in Urls : <>[]Quiet => <>[](server[u].state = "down" \/ (server[u].state = "up" /\ server[u].after = 0))

=============================================================================
