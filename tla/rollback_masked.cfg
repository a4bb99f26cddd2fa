CONSTANTS
  Client = {c1}
  Handler = {h1, h2}
  Reader = {r1}
  Platform = {ios}
  Content = {b1}
  Asset = {a1}
  MaxId = 2
  ListLimit = 2
  Env = {}
  None = None
SPECIFICATION Spec
INVARIANT RollbackIsLatest
CHECK_DEADLOCK FALSE
