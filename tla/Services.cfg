SPECIFICATION ServicesSpec
CONSTANTS
  Peers = {p1}
  Contexts = {c1}
  MaxRequests = 2
  MaxGwRooms = 2
  MaxAnswers = 2
  MaxGwUpsets = 2
  Senders = {u1, u2}
  MaxTasks = 2
  MaxA2ATurns = 3
  MaxA2ALives = 2
  SessionLimit = 1
  MaxEsSessions = 2
  MaxPrompts = 2
  MaxEsUpsets = 1
  MaxLinks = 2
  MaxFetches = 2
  MaxPushes = 1
  MaxOpenings = 4
  McpClients = {m1, m2}
  MaxMcpCalls = 4
  StdioTools = {t1, t2}
  FirstTools = {t1}
  StdioCalls = {c1, c2}
  MaxStdioSessions = 2
  MaxRemovals = 1
  PromptRooms = {r1, r2}
  PromptAsks = {a1, a2}
  Ttl = 1
  MaxContexts = 1
  MaxClock = 3
  Changes = {c1, c2, c3}
  Broadcast = {c1}
  ContactRooms = {r1}
  Window = 2
  MaxContactEvents = 4
  MaxRoomTurns = 3
  Participants = {a, b}
  ToolCallIds = {1}
  MaxMoves = 2
  OcStarts = {1, 2}
  OcStops = {k1}
  MaxOcFailures = 1
  OcRooms = {r1, r2}
  OcPeople = {u1, u2}
  MaxLastSenders = 1
  MaxOcMessages = 2
  MaxOcSends = 1
  MaxOcMoves = 1
  PageSize = 2
  MaxPages = 3
  MaxListed = 5
  MaxListMoves = 2
  Keep = 2
  RestCallIds = {1, 2}
  SendRetries = 1
  OtherRetries = 2
  MaxLookups = 2
  Sessions = {s1, s2}
  RetryLimit = 1
  MaxLinearEvents = 2
  MaxOpen = 2
  MaxDeliveries = 2
  MaxChats = 3
  MaxUpsets = 1
  HandOffEvents = {h1, h2}
  HandOffRetries = 1
  MaxHandOffs = 2
  MaxHandOffEnds = 1
  Notifications = {n1, n2}
  NoticeLimit = 1
  MaxNotices = 4
  MaxNoticeUpsets = 2
  LinearSessions = {l1, l2}
  Assigned = l1
  ToolCalls = {a, b}
  MaxToolTurns = 2
  MaxToolCalls = 2
  MaxUserEvents = 2
INVARIANTS
  AnswersReachWhoAsked
  NothingIsStranded
  ViewsAreTrue
  RoomsAreNotDoubled
  ForwardedOnce
PROPERTIES
  AgentsAreCurrent
CHECK_DEADLOCK FALSE
