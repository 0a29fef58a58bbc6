SPECIFICATION AgentFairSpec
CONSTANTS
  MaxStarts = 1
  Contacts = FALSE
PROPERTIES
  AgentStopSettles
CHECK_DEADLOCK FALSE
