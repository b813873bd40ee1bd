SPECIFICATION AppSpec
CONSTANTS
  c1 = c1  c2 = c2  c3 = c3  F = F  G = G  r1 = r1  r2 = r2  r3 = r3  new = new
  p1 = p1  p2 = p2  p3 = p3  p4 = p4  s1 = s1  s2 = s2  s3 = s3  old = old  other = other  w1 = w1  w2 = w2
  Paths = {p1, p2, p3, p4}  Scripts = {s1, s2, s3}  Texts = {old, other}  Empty = Empty  Starter = Starter
  Origins = {w1, w2}  Bazel = {w2}  Roots = {c1, c2}  Own = c1
  twice = twice  once = once  unary = unary  stream = stream  n1 = n1  n2 = n2
  Idents = {twice, once}  Homes <- MCHomes  Multi = {stream}  Methods = {unary, stream}  Middlewares = {n1, n2}
  Writable <- MCWritable  Default <- MCDefault  Past <- MCPast  MaxOnWay = 2
  Items = {r1, r2, r3, F, G, new}
  Folders = {F, G}
  Names = {"a", "b", "f"}
  Starts <- MCStarts
  Strokes <- MCStrokes
  Status = Status
  Mac = FALSE
  Careful = TRUE
  Page = 2
  MAX_RESOLVE_PASSES = 4
  Dirs <- MCDirs
  None = None
INVARIANTS DoneAsAsked MovedTogether KeysCurrent CollapseSticks ChoiceListed ShownIsOwn SavesLand NothingUndone DialogUndisturbed BufferIsDraft FieldsSaved
PROPERTIES FocusInSight ImportsKept OnlyPasteUnwraps
CHECK_DEADLOCK FALSE
