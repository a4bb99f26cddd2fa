CONSTANTS
  Client = {c1}
  Handler = {h1, h2}
  Reader = {}
  Platform = {ios}
  Content = {b1}
  Asset = {a1}
  MaxId = 1
  ListLimit = 1
  Env = {"retry"}
  None = None
SPECIFICATION Spec
INVARIANT IdenticalIsPublished
CHECK_DEADLOCK FALSE
