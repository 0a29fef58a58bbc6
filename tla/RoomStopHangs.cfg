SPECIFICATION FairSpec
CONSTANTS
  NumMessages = 1
  MaxReconnects = 1
  MaxDeliveries = 1
  MaxRetries = 1
  SeenWindow = 4
  Replies = {}
  Echoes = {}
  Bootstraps = {}
  StopBudgets = {"zero", "finite", "unlimited"}
PROPERTIES
  FailureIsStopOutcome
CHECK_DEADLOCK FALSE
