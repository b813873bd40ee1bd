\* The close race: an idle server unlinks its successor's registration.
CONSTANTS
  c1 = c1
  c2 = c2
  c3 = c3
  b1 = b1
  b2 = b2
  Clients = {c1, c2, c3}
  Pids = {p1, p2, p3}
  HandPids = {}
  Builds = {b1, b2}
  BuildOf <- SameBuilds
  Env = {"idle"}
  DefaultPort = DefaultPort
  Foreign = Foreign
  None = None
SPECIFICATION Spec
CHECK_DEADLOCK FALSE
INVARIANT OneServer
