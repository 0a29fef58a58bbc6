CONSTANTS
  Rooms = {r1, r2}
  MaxStarts = 2
  MaxExecs = 2
  MaxCalls = 1
SPECIFICATION AgentRoomsSpec
PROPERTIES
  NoStartDuringAStop
CHECK_DEADLOCK FALSE
