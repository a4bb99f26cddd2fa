CONSTANTS
  Client = {c1, c2}
  Handler = {h1, h2}
  Reader = {r1}
  Platform = {ios}
  Content = {b1, b2}
  Asset = {a1}
  MaxId = 2
  ListLimit = 2
  Env = {"crash"}
  None = None
SPECIFICATION Spec
SYMMETRY Symmetry
INVARIANTS
  TypeOK
  PublishedIsComplete
  IdenticalIsPublished
  ScanIsFresh
  AnswersArePublished
  AckedIsPublished
  Inv
PROPERTIES
  PublishedIsImmutable
  ImplementsReleaseLog
