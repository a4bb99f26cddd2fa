CONSTANTS
  Server = {s1}
  Stores = {"s3"}
  SharedCache = TRUE
  LastEntry = 1
  LastFile = 3
  V1Shape <- Described
  Skip = FALSE
  Dropped = {}
  MaxCrashes = 1
  MaxMisreads = 0
SPECIFICATION FairSpec
PROPERTY EventuallyMigrated
CHECK_DEADLOCK FALSE
