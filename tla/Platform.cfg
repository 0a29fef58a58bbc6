SPECIFICATION PlatformSpec
CONSTANTS
  Topics = {room}
  MaxSessions = 2
  MaxOpens = 3
  MaxLapses = 1
  MaxEvents = 3
  MaxBoots = 1
  MaxReconnects = 1
  MaxRuns = 2
  MaxFailures = 2
  Rooms = {r1, r2}
  MaxStarts = 1
  MaxExecs = 2
  MaxCalls = 1
INVARIANTS
  EventsFollowTheirSession
  MembershipAgrees
  StopsReachEveryRoom
PROPERTIES
  RecoveryEnds
CHECK_DEADLOCK FALSE
