SPECIFICATION FairSpec
CONSTANTS
  NumMessages = 1
  MaxReconnects = 1
  MaxDeliveries = 1
  MaxRetries = 1
  SeenWindow = 4
  Replies = {}
  Echoes = {}
  Bootstraps = {1}
  StopBudgets = {"zero", "finite", "unlimited"}
INVARIANTS
  InFlightIsExact
  GracefulStopDrained
PROPERTIES
  RetiredRoomIsSilent
  BootstrapIsAnswered
  LoopComesToRest
  BudgetedStopSettles
CHECK_DEADLOCK FALSE
