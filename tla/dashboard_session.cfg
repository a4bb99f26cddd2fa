CONSTANTS
  Call = {r1, r2}
  AccessLife = 1
  RefreshLife = 2
  None = None
  MaxTime = 3
  MaxFailures = 2
SPECIFICATION FairSpec
INVARIANTS TypeOK FailsForAReason LoggedOutStays
PROPERTY EventuallyAnswered
CHECK_DEADLOCK FALSE
