SPECIFICATION Spec
CONSTANTS
  h1 = h1  h2 = h2  a = a  b = b  s1 = s1  s2 = s2  v1 = v1  v2 = v2
  Handlers = {h1, h2}
  Dirs = {a}
  Present = {a}
  Sources = {s1}
  Versions = {v1}
  Ops = {"add", "commit", "reorder"}
  Env = {}
  MaxOps = 3
  MaxGen = 0
  None = None

PROPERTY CommitIsSticky
CHECK_DEADLOCK FALSE
