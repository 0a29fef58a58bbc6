SPECIFICATION Spec
CONSTANTS
  NumMessages = 2
  MaxReconnects = 1
  MaxDeliveries = 1
  MaxRetries = 1
  SeenWindow = 4
  Replies = {2}
  Echoes = {}
  Bootstraps = {1}
  StopBudgets = {}
INVARIANTS
  TypeOK
  RunsOnce
  HoldTracksHeldTurn
  HoldIsExclusive
  BoundariesHaveOwners
  AcceptedIsKept
  NoLostWakeup
CHECK_DEADLOCK FALSE
