CONSTANTS
  a = a
  b = b
  App = {a, b}
  Tree <- Releases
  Uuid <- Uuids
  AppList <- Lists
  Change = {m1}
  None = None
  IdModulus = 2
  MaxSelections = 1
  MaxRedeploys = 1
  MaxChanges = 2
  MaxClicks = 4
  MaxIncidents = 1
SPECIFICATION Spec
INVARIANTS TypeOK Inv SelectionIsOffered ShowsWhatWasSet SheetShowsItsRow
PROPERTIES OnlyDismissedVanish
CHECK_DEADLOCK FALSE
