SPECIFICATION Spec
CONSTANTS
  NumMessages = 1
  MaxReconnects = 0
  MaxDeliveries = 1
  MaxRetries = 1
  SeenWindow = 4
  Replies = {}
  Echoes = {}
  Bootstraps = {1}
  StopBudgets = {"zero", "finite", "unlimited"}
INVARIANTS
  BootstrapToldTheTruth
CHECK_DEADLOCK FALSE
