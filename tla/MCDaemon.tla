------------------------------ MODULE MCDaemon ------------------------------
(* Small instances of Daemon: the executables the clients run.             *)
EXTENDS Daemon, TLC

CONSTANTS c1, c2, c3, b1, b2

\* The third client, where there is one, runs what the first one runs.
MixedBuilds == [c \in Clients |-> IF c = c2 THEN b2 ELSE b1]
SameBuilds  == [c \in Clients |-> b1]
=============================================================================
