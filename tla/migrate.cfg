CONSTANTS
  Server = {s1, s2}
  Stores = {"local", "s3", "gcs"}
  SharedCache = FALSE
  LastEntry = 2
  LastFile = 3
  V1Shape <- Published
  Skip = FALSE
  Dropped = {"ledger"}
  MaxCrashes = 1
  MaxMisreads = 1
SPECIFICATION FairSpec
INVARIANTS TypeOK NothingLost ForeignUntouched RecordedIsMoved Inv
PROPERTIES MovesOnlyOnce ImplementsDataMove EventuallyMigrated
CHECK_DEADLOCK FALSE
