CONSTANTS
  ios = ios
  android = android
  c1 = c1
  Platform = {ios, android}
  None = None
  Command = {c1, c2}
  Invocation <- Together
  Project <- PlainOnly
  Config <- OnApp
  Seed <- Releases
  Origin <- Servers
  Retries = 0
  MaxTree = 3
SPECIFICATION Spec
INVARIANTS ReleasedWherePolled LiveAfterUploads NamesNoLaterCommit ShipsItsCommit OwnExport
CHECK_DEADLOCK FALSE
