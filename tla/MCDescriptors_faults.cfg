SPECIFICATION Spec
CONSTANTS
  h1 = h1  h2 = h2  a = a  b = b  s1 = s1  s2 = s2  v1 = v1  v2 = v2
  Handlers = {h1}
  Dirs = {a, b}
  Present = {a}
  Sources = {s1, s2}
  Versions = {v1}
  Ops = {"add", "refresh", "reorder", "commit", "uncommit", "remove", "rename", "create"}
  Env = {"offline", "crash", "fail"}
  MaxOps = 5
  MaxGen = 5
  None = None
INVARIANTS LiveBlobsKept Recoverable
CHECK_DEADLOCK FALSE
