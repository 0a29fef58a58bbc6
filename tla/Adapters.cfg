SPECIFICATION AdaptersSpec
CONSTANTS
  MaxEngines = 2
  MaxProcs = 3
  MaxSessions = 2
  MaxTurns = 3
  MaxCodexEngines = 2
  MaxServers = 2
  MaxThreads = 2
  MaxCodexTurns = 3
  Asks = {ask}
  MaxLives = 2
  MaxOcTurns = 2
  MaxOcSessions = 2
  MaxLettaLives = 3
  MaxLettaTurns = 4
  MaxLettaAgents = 3
  MaxEntries = 4
  Limits = {0, 1, 2, 3, 4}
  MaxToolTurns = 2
  MaxToolSessions = 2
  MaxToolRounds = 2
  MaxCalls = 1
  MaxLosses = 1
  CursorTurns = {1, 2}
  CursorAsks = {1, 2}
  MaxPending = 1
  MaxPrompts = 2
  MaxClients = 1
  ToolCalls = {1}
  Requests = {r}
  MaxUpdates = 3
  ClaudeTurns = {1, 2}
  MaxRetirals = 2
  ParlantTurns = {1, 2}
  ParlantStarts = {1, 2}
  MaxCleanups = 1
  Slots = {1, 2}
  CallIds = {0, 1, 2}
  MaxRounds = 2
  MaxAppClients = 2
  MaxAppTurns = 2
  MaxAppEvents = 1
  FwWindow = 1
  MaxFwTurns = 3
  MaxFwSessions = 2
INVARIANTS
  
  NothingIsOrphaned
  TurnsStayApart
CHECK_DEADLOCK FALSE
