----------------------------- MODULE MCAdapters -----------------------------
(***************************************************************************)
(* The adapters that turn a room's messages into a provider's turns, each  *)
(* on its own.  A behaviour is one of the part the initial state picks;    *)
(* the parts it does not pick are not there, and their variables hold 0.   *)
(***************************************************************************)
EXTENDS ACPRoom, CodexRoom, Opencode, Letta, ReplayedHistory, ToolTurns, CursorRoom, PromptStream,
        ClaudeQuery, ParlantRoom, GraphRounds, AppServer, FrameworkMemory

VARIABLE adapter

adaptersVars == <<adapter, acpVars, codexVars, ocVars, lettaVars, historyVars, toolVars, cursorVars,
                  streamVars, claudeVars, parlantVars, roundVars, appVars, fwVars>>

NoACP ==
  /\ room = 0 /\ engines = 0 /\ procs = 0 /\ acpTurns = 0 /\ sessions = 0 /\ persisted = 0
  /\ talked = 0 /\ lost = 0 /\ amnesia = 0
NoCodexRoom == codex = 0 /\ servers = 0 /\ cxTurns = 0 /\ threads = 0 /\ recall = 0
NoOpencode ==
  oc = 0 /\ routes = 0 /\ ocTurns = 0 /\ opened = 0 /\ asks = 0 /\ events = 0 /\ posting = 0 /\ memory = 0
NoLettaRoom == letta = 0 /\ ltTurns = 0 /\ ltAgents = 0 /\ ltMemory = 0
NoHistory == raw = 0 /\ turns = 0
NoToolTurns == tool = 0 /\ session = 0 /\ convs = 0 /\ held = 0 /\ said = 0 /\ losses = 0
NoCursor == roomTurn = 0 /\ cursor = 0 /\ decision = 0 /\ registry = 0
NoStream == client = 0 /\ prompts = 0 /\ sent = 0 /\ bandLocal = 0
NoClaude ==
  owner = 0 /\ active = 0 /\ tail = 0 /\ sessionId = 0 /\ marker = 0 /\ life = 0 /\ claude = 0 /\ late = 0
NoParlant ==
  /\ agent = 0 /\ agents = 0 /\ stops = 0 /\ parlant = 0 /\ server = 0 /\ parlantTurns = 0
  /\ cleaning = 0 /\ cleanups = 0
NoRounds == framework = 0 /\ rounds = 0 /\ made = 0 /\ seen = 0 /\ roster = 0 /\ outcome = 0 /\ turnStage = 0
NoAppServer == appEngine = 0 /\ appClients = 0 /\ appServers = 0 /\ appTurns = 0
NoFrameworks ==
  fwKind = 0 /\ fwRoom = 0 /\ fwSession = 0 /\ fwLines = 0 /\ fwThread = 0 /\ fwTurns = 0

AdaptersInit ==
  /\ adapter \in {"acp", "codex", "opencode", "letta", "history", "tools", "cursor", "stream", "claude",
                  "parlant", "rounds", "appserver", "memory"}
  /\ IF adapter = "acp" THEN ACPInit ELSE NoACP
  /\ IF adapter = "codex" THEN CodexInit ELSE NoCodexRoom
  /\ IF adapter = "opencode" THEN OpencodeInit ELSE NoOpencode
  /\ IF adapter = "letta" THEN LettaInit ELSE NoLettaRoom
  /\ IF adapter = "history" THEN HistoryInit ELSE NoHistory
  /\ IF adapter = "tools" THEN ToolInit ELSE NoToolTurns
  /\ IF adapter = "cursor" THEN CursorInit ELSE NoCursor
  /\ IF adapter = "stream" THEN StreamInit ELSE NoStream
  /\ IF adapter = "claude" THEN ClaudeInit ELSE NoClaude
  /\ IF adapter = "parlant" THEN ParlantInit ELSE NoParlant
  /\ IF adapter = "rounds" THEN RoundsInit ELSE NoRounds
  /\ IF adapter = "appserver" THEN AppInit ELSE NoAppServer
  /\ IF adapter = "memory" THEN FwInit ELSE NoFrameworks

\* The variables of every part but the one that moves.
EnginesRest == UNCHANGED <<acpVars, codexVars, appVars>>
SessionsRest == UNCHANGED <<ocVars, lettaVars>>
TurnsRest == UNCHANGED <<historyVars, toolVars, roundVars, fwVars>>
StreamsRest == UNCHANGED <<cursorVars, streamVars>>
SdksRest == UNCHANGED <<claudeVars, parlantVars>>

\* A part moves, and all others rest.
EnginesPart ==
  /\ adapter \in {"acp", "codex", "appserver"}
  /\ SessionsRest /\ TurnsRest /\ StreamsRest /\ SdksRest
  /\ \/ adapter = "acp" /\ UNCHANGED <<codexVars, appVars>> /\ ACPNext
     \/ adapter = "codex" /\ UNCHANGED <<acpVars, appVars>> /\ CodexNext
     \/ adapter = "appserver" /\ UNCHANGED <<acpVars, codexVars>> /\ AppNext
SessionsPart ==
  /\ adapter \in {"opencode", "letta"}
  /\ EnginesRest /\ TurnsRest /\ StreamsRest /\ SdksRest
  /\ \/ adapter = "opencode" /\ UNCHANGED lettaVars /\ OpencodeNext
     \/ adapter = "letta" /\ UNCHANGED ocVars /\ LettaNext
TurnsPart ==
  /\ adapter \in {"history", "tools", "rounds", "memory"}
  /\ EnginesRest /\ SessionsRest /\ StreamsRest /\ SdksRest
  /\ \/ adapter = "history" /\ UNCHANGED <<toolVars, roundVars, fwVars>> /\ HistoryNext
     \/ adapter = "tools" /\ UNCHANGED <<historyVars, roundVars, fwVars>> /\ ToolNext
     \/ adapter = "rounds" /\ UNCHANGED <<historyVars, toolVars, fwVars>> /\ RoundsNext
     \/ adapter = "memory" /\ UNCHANGED <<historyVars, toolVars, roundVars>> /\ FwNext
StreamsPart ==
  /\ adapter \in {"cursor", "stream"}
  /\ EnginesRest /\ SessionsRest /\ TurnsRest /\ SdksRest
  /\ \/ adapter = "cursor" /\ UNCHANGED streamVars /\ CursorNext
     \/ adapter = "stream" /\ UNCHANGED cursorVars /\ StreamNext
SdksPart ==
  /\ adapter \in {"claude", "parlant"}
  /\ EnginesRest /\ SessionsRest /\ TurnsRest /\ StreamsRest
  /\ \/ adapter = "claude" /\ UNCHANGED parlantVars /\ ClaudeNext
     \/ adapter = "parlant" /\ UNCHANGED claudeVars /\ ParlantNext

AdaptersNext ==
  /\ UNCHANGED adapter
  /\ EnginesPart \/ SessionsPart \/ TurnsPart \/ StreamsPart \/ SdksPart

AdaptersSpec == AdaptersInit /\ [][AdaptersNext]_adaptersVars


\* What an adapter has opened and someone must close or answer, a process, an ask, a
\* call, a session or an agent, always has someone who will.
NothingIsOrphaned ==
  /\ adapter = "acp" => ProcessesAreOwned
  /\ adapter = "codex" => ServersAreOwned
  /\ adapter = "opencode" => AsksHaveOwners
  /\ adapter = "letta" => AgentsAreDeleted
  /\ adapter = "cursor" => DecisionsReachTheRoom
  /\ adapter = "parlant" => ParlantHoldsWhatItUses
  /\ adapter = "appserver" => AppServersServe

\* What a provider reports ends, names and answers the turn it is about: no event of one
\* turn ends a later one, no turn that was given up speaks, what a prompt shows ends with
\* it, and a round's end is its own.
TurnsStayApart ==
  /\ adapter = "opencode" => EventsStayWithTheirTurn
  /\ adapter = "stream" => ActivityEndsWithItsPrompt
  /\ adapter = "claude" => ClaudeIsContained
  /\ adapter = "rounds" => RoundsEndInTime
=============================================================================
