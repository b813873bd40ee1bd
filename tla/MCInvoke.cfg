SPECIFICATION Spec
CONSTANTS
  Callers = {c1, c2}
  Names = {nameA, nameB}
  Items = {req1}
  nameA = nameA
  nameB = nameB
  req1 = req1
  mw1 = mw1
  mw2 = mw2
  key1 = key1
  key2 = key2
  v1 = v1
  v2 = v2
  v3 = v3
  Keys = {key1, key2}
  Values = {v1, v2, v3}
  Instances = {i1, i2, i3, i4}
  OwnInstance = OwnInstance
  MaxIdle = 1
  Start <- MCStart
  OwnScript <- MCOwnScript
  FolderScripts <- MCFolderScripts
  MaxFolders = 2
  Attached <- MCAttached
  Stamps <- MCStamps
  Asks <- MCAsks
  MaxDepth = 2
  Limit = 1
  MaxCalls = 2
  MaxWork = 4
  NoScript = NoScript
  None = None
INVARIANTS NothingDropped PoolSound HistoryExact
PROPERTIES ScriptsEnd
CHECK_DEADLOCK FALSE
