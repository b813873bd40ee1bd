SPECIFICATION Spec
CONSTANTS
  h1 = h1  h2 = h2  a = a  b = b  s1 = s1  s2 = s2  v1 = v1  v2 = v2
  Handlers = {h1, h2}
  Dirs = {a, b}
  Present = {a, b}
  Sources = {s1, s2}
  Versions = {v1, v2}
  Ops = {"add", "refresh", "reorder", "commit", "uncommit", "remove"}
  Env = {"offline"}
  MaxOps = 3
  MaxGen = 0
  None = None
SYMMETRY Interchangeable
INVARIANTS ReadersFindTheirBlobs BlobsExact
CHECK_DEADLOCK FALSE
