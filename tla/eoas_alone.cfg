CONSTANTS
  ios = ios
  android = android
  c1 = c1
  Platform = {ios, android}
  None = None
  Command = {c1}
  Invocation <- Alone
  Project <- Projects
  Config <- Configs
  Seed <- Releases
  Origin <- Servers
  Retries = 1
  MaxTree = 3
SPECIFICATION FairSpec
PROPERTY EventuallyExits
INVARIANTS TypeOK PublishNeverAsks SuccessIsReleased KeysMatch
CHECK_DEADLOCK FALSE
