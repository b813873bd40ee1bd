SPECIFICATION Spec
CONSTANTS
  r1 = r1  r2 = r2  r3 = r3
  Reqs = {r1, r2, r3}
  Unary = {r2}
  Top = Top
  Folder = Folder
  Names = {1, 2}
  Trees <- TwoOrSideBySide
  Care = TRUE
  MaxEdits = 2
  MaxTree = 1
  MaxRuns = 1
  MaxTabs = 2
  None = None
INVARIANTS KeptIsOwn EditsSaved BusyEnds
CHECK_DEADLOCK FALSE
