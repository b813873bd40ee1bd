\* Everything may happen to the workspace's own servers and clients.
CONSTANTS
  c1 = c1
  c2 = c2
  c3 = c3
  b1 = b1
  b2 = b2
  Clients = {c1, c2}
  Pids = {p1, p2, h1}
  HandPids = {h1}
  Builds = {b1, b2}
  BuildOf <- MixedBuilds
  Env = {"crash", "idle", "shutdown", "hand", "giveup", "late", "slow", "reuse"}
  DefaultPort = DefaultPort
  Foreign = Foreign
  None = None
SPECIFICATION FairSpec
CHECK_DEADLOCK FALSE
INVARIANTS
  LockCoversSpawn
PROPERTY
  EveryCallReturns
