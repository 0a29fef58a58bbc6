SPECIFICATION LinearSpec
CONSTANTS
  Sessions = {s1, s2}
  RetryLimit = 0
  MaxLinearEvents = 2
  MaxOpen = 2
  MaxDeliveries = 2
  MaxChats = 1
  MaxUpsets = 0
INVARIANTS
  HandledSessionsAreFiled
CHECK_DEADLOCK FALSE
