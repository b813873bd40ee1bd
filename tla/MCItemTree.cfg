SPECIFICATION Spec
CONSTANTS
  n1 = n1  n2 = n2  n3 = n3  n4 = n4
  Nodes = {n1, n2, n3}
  Root = Root
  Names = {1, 2, 3}
  BaseOf <- TwoSlugs
  Env = {"cut"}
  Trees <- StartTrees
  Drifts <- SomeDrifts
  MaxOps = 3
  None = None
INVARIANTS NoNamesakes NothingOverwritten Rooted
PROPERTIES KeepsOrder
CHECK_DEADLOCK FALSE
