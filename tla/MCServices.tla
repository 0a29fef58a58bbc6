----------------------------- MODULE MCServices -----------------------------
(***************************************************************************)
(* The services around a room, each on its own: those that let others'     *)
(* agents and clients in (the A2A gateway and adapter, the ACP server, the *)
(* Claude Code channel, the OpenClaw plugin, the MCP servers), those that  *)
(* an agent reaches out by (the REST client; Linear's bridge, tools,       *)
(* hand-offs and notices), and what it is told of its room (contacts,      *)
(* participants, the prompt's context).  A behaviour is one of the part    *)
(* the initial state picks; the parts it does not pick are not there, and  *)
(* their variables hold 0.                                                 *)
(***************************************************************************)
EXTENDS Gateway, A2ATasks, EditorServer, ClaudeChannel, McpServers, PromptContext,
        ContactHub, RoomTools, OpenClaw, RestClient, LinearBridge,
        LinearHandOff, LinearTools

VARIABLE service

servicesVars == <<service, gatewayVars, a2aVars, editorVars, channelVars, claudeRoomsVars, mcpVars, stdioVars,
                  promptVars, contactVars, toolsVars, accountsVars, repliesVars, pagesVars, restVars,
                  linearVars, handOffVars, noticesVars, linearToolVars>>

NoGateway == requests = 0 /\ contextRoom = 0 /\ gwRooms = 0 /\ byTask = 0 /\ byRoom = 0 /\ gwMemory = 0
NoA2A == a2a = 0 /\ a2aTurns = 0 /\ remote = 0 /\ a2aRoom = 0 /\ a2aMemory = 0
NoEditor ==
  /\ creations = 0 /\ known = 0 /\ inFlight = 0 /\ prompts = 0 /\ pending = 0 /\ updating = 0
  /\ history = 0 /\ revived = 0 /\ esUpsets = 0
NoClaudeRooms == openings = 0 /\ opened = 0
NoHttp ==
  flavor = 0 /\ listener = 0 /\ sweeping = 0 /\ mcp = 0 /\ knownSessions = 0 /\ mcpCalls = 0 /\ lost = 0
NoStdio == current = 0 /\ starting = 0 /\ stdio = 0 /\ stdioCalls = 0 /\ removals = 0
NoPrompts == clock = 0 /\ contexts = 0 /\ asks = 0
NoContacts ==
  /\ strategy = 0 /\ arrived = 0 /\ handling = 0 /\ dedup = 0 /\ hubRoom = 0 /\ notes = 0 /\ turn = 0 /\ primed = 0
  /\ hubQueue = 0 /\ roomTurns = 0 /\ contactsUp = 0 /\ owed = 0 /\ told = 0 /\ hubTurns = 0 /\ recorded = 0 /\ remade = 0
NoTools ==
  /\ room = 0 /\ wire = 0 /\ roster = 0 /\ hydration = 0 /\ call = 0 /\ peersOn = 0 /\ moves = 0 /\ doubt = 0
NoAccounts ==
  /\ ocStart = 0 /\ ocLink = 0 /\ ocRuntime = 0 /\ account = 0 /\ startGuard = 0 /\ teardowns = 0 /\ ocStop = 0
  /\ crossed = 0 /\ unread = 0 /\ stuck = 0 /\ ocFailures = 0
NoReplies ==
  /\ peopleIn = 0 /\ connected = 0 /\ lastSenders = 0 /\ inbound = 0 /\ sending = 0 /\ mentioned = 0
  /\ ocMessages = 0 /\ ocSends = 0 /\ ocMoves = 0
NoPages ==
  /\ listed = 0 /\ everListed = 0 /\ pageMeta = 0 /\ readBy = 0 /\ readStep = 0 /\ pagesRead = 0 /\ pageCursor = 0
  /\ readSoFar = 0 /\ atStart = 0 /\ atEnd = 0 /\ entryGone = 0 /\ blankPage = 0 /\ listMoves = 0
NoRest == restCalls = 0 /\ support = 0 /\ lookups = 0 /\ lookupsBegun = 0 /\ platform = 0
NoHandOffs ==
  inProcess = 0 /\ sessionRow = 0 /\ handOffs = 0 /\ jobs = 0 /\ terminals = 0 /\ idleWait = 0 /\ hoMemory = 0
NoNotices == sessionStatus = 0 /\ unassigns = 0 /\ noticed = 0 /\ noticeJobs = 0 /\ lnNotes = 0
NoLinearTools ==
  /\ ltTurn = 0 /\ acted = 0 /\ judged = 0 /\ toolCalls = 0 /\ onLinear = 0 /\ filed = 0 /\ hooks = 0 /\ ltMemory = 0

NoLinear ==
  /\ linear = 0 /\ records = 0 /\ webhooks = 0 /\ locks = 0 /\ guard = 0 /\ byIssue = FALSE /\ chats = <<>>
  /\ lnMemory = [posts |-> [e \in LinearEvents |-> 0], excused |-> {}, cancels |-> [x \in Scopes |-> 0], aside |-> {}]

\* Linear's sessions are alike: let the first event be this one's.  With one session,
\* a room per issue and a room per session are the same.
ASession == CHOOSE s \in Sessions : TRUE
LinearOnce ==
  /\ LinearInit
  /\ linear[1].session = ASession
  /\ byIssue => \E e \in LinearEvents : linear[e].session # ASession

ServicesInit ==
  /\ service \in {"gateway", "a2a", "editor", "channel", "rooms", "http", "stdio", "prompt", "contacts", "tools",
       "accounts", "replies", "pages", "rest", "bridge", "handoff", "notices", "linear"}
  /\ IF service = "gateway" THEN GatewayInit ELSE NoGateway
  /\ IF service = "a2a" THEN A2AInit ELSE NoA2A
  /\ IF service = "editor" THEN EditorInit ELSE NoEditor
  /\ IF service = "rooms" THEN ClaudeRoomsInit ELSE NoClaudeRooms
  /\ IF service = "http" THEN McpInit ELSE NoHttp
  /\ IF service = "stdio" THEN StdioInit ELSE NoStdio
  /\ IF service = "prompt" THEN PromptInit ELSE NoPrompts
  /\ IF service = "contacts" THEN ContactInit ELSE NoContacts
  /\ IF service = "tools" THEN ToolsInit ELSE NoTools
  /\ IF service = "accounts" THEN AccountsInit ELSE NoAccounts
  /\ IF service = "replies" THEN RepliesInit ELSE NoReplies
  /\ IF service = "pages" THEN PagesInit ELSE NoPages
  /\ IF service = "rest" THEN RestInit ELSE NoRest
  /\ IF service = "bridge" THEN LinearOnce ELSE NoLinear
  /\ IF service = "handoff" THEN HandOffInit ELSE NoHandOffs
  /\ IF service = "notices" THEN NoticesInit ELSE NoNotices
  /\ IF service = "linear" THEN LinearToolsInit ELSE NoLinearTools
  /\ ChannelInit

\* The variables of every part but the one that moves.
HttpRests == UNCHANGED mcpVars
AnsweringRest == UNCHANGED <<gatewayVars, a2aVars, editorVars>>
ClaudeRest == UNCHANGED <<channelVars, claudeRoomsVars>>
OpenClawRest == UNCHANGED <<accountsVars, repliesVars>>
PluginsRest == ClaudeRest /\ OpenClawRest
McpRest == HttpRests /\ UNCHANGED <<stdioVars, promptVars>>
RoomsRest == UNCHANGED <<contactVars, toolsVars>>
ClientRest == UNCHANGED <<pagesVars, restVars>>
WebhooksRest == UNCHANGED <<linearVars, handOffVars>>
LinearRest == WebhooksRest /\ UNCHANGED <<noticesVars, linearToolVars>>
ReachingRest == ClientRest /\ LinearRest

\* A part moves, and all others rest.
AnsweringPart ==
  /\ service \in {"gateway", "a2a", "editor"}
  /\ PluginsRest /\ McpRest /\ RoomsRest /\ ReachingRest
  /\ \/ service = "gateway" /\ UNCHANGED <<a2aVars, editorVars>> /\ GatewayNext
     \/ service = "a2a" /\ UNCHANGED <<gatewayVars, editorVars>> /\ A2ANext
     \/ service = "editor" /\ UNCHANGED <<gatewayVars, a2aVars>> /\ EditorNext
PluginsPart ==
  /\ service \in {"channel", "rooms", "accounts", "replies"}
  /\ AnsweringRest /\ McpRest /\ RoomsRest /\ ReachingRest
  /\ \/ service = "channel" /\ UNCHANGED claudeRoomsVars /\ OpenClawRest /\ ChannelNext
     \/ service = "rooms" /\ UNCHANGED channelVars /\ OpenClawRest /\ ClaudeRoomsNext
     \/ service = "accounts" /\ ClaudeRest /\ UNCHANGED repliesVars /\ AccountsNext
     \/ service = "replies" /\ ClaudeRest /\ UNCHANGED accountsVars /\ RepliesNext
McpPart ==
  /\ service \in {"http", "stdio", "prompt"}
  /\ AnsweringRest /\ PluginsRest /\ RoomsRest /\ ReachingRest
  /\ \/ service = "http" /\ UNCHANGED <<stdioVars, promptVars>> /\ McpNext
     \/ service = "stdio" /\ HttpRests /\ UNCHANGED promptVars /\ StdioNext
     \/ service = "prompt" /\ HttpRests /\ UNCHANGED stdioVars /\ PromptNext
RoomsPart ==
  /\ service \in {"contacts", "tools"}
  /\ AnsweringRest /\ PluginsRest /\ McpRest /\ ReachingRest
  /\ \/ service = "contacts" /\ UNCHANGED toolsVars /\ ContactNext
     \/ service = "tools" /\ UNCHANGED contactVars /\ ToolsNext
ReachingPart ==
  /\ service \in {"pages", "rest", "bridge", "handoff", "notices", "linear"}
  /\ AnsweringRest /\ PluginsRest /\ McpRest /\ RoomsRest
  /\ \/ service = "pages" /\ LinearRest /\ UNCHANGED restVars /\ PagesNext
     \/ service = "rest" /\ LinearRest /\ UNCHANGED pagesVars /\ RestNext
     \/ service = "bridge" /\ ClientRest /\ UNCHANGED <<handOffVars, noticesVars, linearToolVars>> /\ LinearNext
     \/ service = "handoff" /\ ClientRest /\ UNCHANGED <<linearVars, noticesVars, linearToolVars>> /\ HandOffNext
     \/ service = "notices" /\ ClientRest /\ WebhooksRest /\ UNCHANGED linearToolVars /\ NoticesNext
     \/ service = "linear" /\ ClientRest /\ WebhooksRest /\ UNCHANGED noticesVars /\ LinearToolsNext

ServicesNext ==
  /\ UNCHANGED service
  /\ AnsweringPart \/ PluginsPart \/ McpPart \/ RoomsPart \/ ReachingPart

ServicesSpec == ServicesInit /\ [][ServicesNext]_servicesVars

\* Whoever asked gets the answer, and whoever must be told is: the gateway's client whose
\* request a peer answers, the room's user who opened the task a remote agent asks about or
\* ends (and gives artifacts of, unless another user's message took it up too), the
\* one an OpenClaw reply is meant for, the rooms a contact's change is announced to, and the
\* room of an issue that Linear notifies of.
AnswersReachWhoAsked ==
  /\ service = "gateway" => AnswersReachTheirRequest
  /\ service = "a2a" => AnswersMentionTheAsker
  /\ service = "contacts" => ContactsAreHandled
  /\ service = "replies" => RepliesAreMeant
  /\ service = "notices" => NoticesAreTold

\* What waits can be found by what it waits for, what is over is let go, no more is held
\* than its limit, and no entry of a list is left behind: requests, prompts, questions,
\* tasks, indicators, the sessions of the servers, the connections of an account, the
\* attempts of a call, the pages of a list, and Linear's events.
NothingIsStranded ==
  /\ service = "gateway" => RequestsAreFound
  /\ service = "a2a" => QuestionsAreAnswered /\ FinishedTasksAreLetGo
  /\ service = "editor" => PromptsHaveTheirRoom /\ SessionsAreBounded
  /\ service = "rooms" => OneRoomIsOpened
  /\ service = "http" => McpSessionsAreKept
  /\ service = "stdio" => StdioIsSound
  /\ service = "channel" => NothingRunsAfterClose /\ IndicatorGoesOut
  /\ service = "accounts" => AccountsAreHeld
  /\ service = "rest" => CallsAreSound
  /\ service = "pages" => ReadsAreWhole
  /\ service = "handoff" => HandOffsAreSound

\* What is shown of the agent and of its room is true when it is shown: the recorded status,
\* the prompt's context, the participants, and what its turns and its records of Linear's
\* sessions say it did there.
ViewsAreTrue ==
  /\ service = "channel" => StatusTellsTheTruth
  /\ service = "prompt" => PromptsAreCurrent
  /\ service = "tools" => RosterIsSound
  /\ service = "linear" => LinearWorkIsTrue
=============================================================================
