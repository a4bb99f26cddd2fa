CONSTANTS
  Client = {c1, c2}
  Handler = {h1, h2}
  Reader = {}
  Platform = {ios, android}
  Content = {b1}
  Asset = {a1}
  MaxId = 2
  ListLimit = 2
  Env = {"crash", "io_error"}
  None = None
SPECIFICATION Spec
SYMMETRY Symmetry
INVARIANTS Inv AnswersArePublished
CHECK_DEADLOCK FALSE
