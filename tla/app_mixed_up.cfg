CONSTANTS
  a = a
  b = b
  App = {a, b}
  Tree <- Releases
  Uuid <- Uuids
  AppList <- Lists
  Change = {m1}
  None = None
  IdModulus = 2
  MaxSelections = 2
  MaxRedeploys = 0
  MaxChanges = 0
  MaxClicks = 0
  MaxIncidents = 0
SPECIFICATION Spec
INVARIANT ShowsSelectedApp
CHECK_DEADLOCK FALSE
