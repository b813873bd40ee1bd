\* Three clients of two builds; servers crash, another workspace takes the default port.
CONSTANTS
  c1 = c1
  c2 = c2
  c3 = c3
  b1 = b1
  b2 = b2
  Clients = {c1, c2, c3}
  Pids = {p1, p2, p3}
  HandPids = {}
  Builds = {b1, b2}
  BuildOf <- MixedBuilds
  Env = {"crash", "foreign"}
  DefaultPort = DefaultPort
  Foreign = Foreign
  None = None
SPECIFICATION Spec
CHECK_DEADLOCK FALSE
INVARIANTS TypeOK OneServer NeverAdoptsForeign
