SPECIFICATION FairSpec
CONSTANTS
  NumLeases = 2
  Tools = {}
  Works = {"w1", "w2"}
  Retainers = {1}
  Providers = {2}
  MaxCalls = 2
  MaxBeats = 1
  Limited = TRUE
INVARIANTS
  ReportMatchesWork
  KeepAliveIsExact
  TurnsAreShown
PROPERTIES
  SilentAfterClose
  EveryTurnIsLetIn
CHECK_DEADLOCK FALSE
