SPECIFICATION Spec
CONSTANTS
  Handlers = {h1, h2}
  Ids = {id1, id2}
  id1 = id1
  id2 = id2
  Sources = {srcA, srcB}
  srcA = srcA
  srcB = srcB
  fileF = fileF
  fileG = fileG
  svcP = svcP
  svcQ = svcQ
  Reflecting = {srcA}
  Snapshots <- MCSnapshots
  Start <- MCStart
  Size = 1
  MaxCalls = 3
  MaxWrites = 1
  MaxEdits = 1
  Unresolved = Unresolved
  None = None
INVARIANTS MemoFresh ServedFresh PriorityHolds
SYMMETRY Alike
CHECK_DEADLOCK FALSE
