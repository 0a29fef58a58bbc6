----------------------------- MODULE McpServers -----------------------------
(***************************************************************************)
(* The MCP servers on a loopback port (BandMcpServer over Streamable HTTP, *)
(* BandMcpSseServer): a session per client, found by the id its requests   *)
(* carry, swept when idle, and let go when either side closes, while       *)
(* requests, handshakes and the server's stop overlap.                     *)
(***************************************************************************)
EXTENDS Naturals, FiniteSets

CONSTANTS
  McpClients,    \* sessions, one per client that connects
  MaxMcpCalls    \* requests, errors and starts, in all

VARIABLES
  flavor,      \* the server's class
  listener,    \* httpServer
  sweeping,    \* the sweep timer
  mcp,         \* sessions, by client
  knownSessions, \* the sessions map
  mcpCalls,
  lost         \* requests answered 404 for a session that was open

mcpVars == <<flavor, listener, sweeping, mcp, knownSessions, mcpCalls, lost>>

NoMcpSession == [phase |-> "none", idle |-> FALSE, requests |-> 0, stray |-> FALSE]

McpInit ==
  /\ flavor \in {"http", "sse"} /\ listener = "off" /\ sweeping = FALSE
  /\ mcp = [c \in McpClients |-> NoMcpSession] /\ knownSessions = {} /\ mcpCalls = 0 /\ lost = {}

Bounded == mcpCalls < MaxMcpCalls /\ mcpCalls' = mcpCalls + 1

\* start: listening, and the sweep with it.
ServerStarts ==
  /\ listener = "off" /\ Bounded
  /\ listener' = "on" /\ sweeping' = TRUE
  /\ UNCHANGED <<flavor, mcp, knownSessions, lost>>

\* An initialize request, or GET /sse: the session is made, and awaits its connect().
ClientConnects(c) ==
  /\ listener = "on" /\ mcp[c].phase = "none"
  /\ mcp' = [mcp EXCEPT ![c] = [NoMcpSession EXCEPT !.phase = "connecting", !.requests = 1]]
  /\ UNCHANGED <<flavor, listener, sweeping, knownSessions, mcpCalls, lost>>

\* createSession, onsessioninitialized; the SSE server's own sessions.set.  The stream an
\* SSE session was asked for stays open.  A session that connects once the stop has taken
\* the sessions is nobody's.
Connected(c) ==
  /\ mcp[c].phase = "connecting"
  /\ knownSessions' = knownSessions \cup {c}
  /\ mcp' = [mcp EXCEPT ![c].phase = "open", ![c].stray = listener # "on",
                        ![c].requests = IF flavor = "sse" THEN 1 ELSE 0]
  /\ UNCHANGED <<flavor, listener, sweeping, mcpCalls, lost>>

\* A later request with the session's id; an unknown one is answered 404.
AsksOf(c) ==
  /\ listener = "on" /\ mcp[c].phase \in {"open", "closed"} /\ Bounded
  /\ IF c \in knownSessions
     THEN /\ mcp' = [mcp EXCEPT ![c].requests = @ + 1, ![c].idle = FALSE]
          /\ UNCHANGED lost
     ELSE /\ lost' = IF mcp[c].phase = "open" THEN lost \cup {c} ELSE lost
          /\ UNCHANGED mcp
  /\ UNCHANGED <<flavor, listener, sweeping, knownSessions>>

Streams(c) == IF flavor = "sse" /\ mcp[c].phase = "open" THEN 1 ELSE 0
RequestEnds(c) ==
  /\ mcp[c].phase = "open" /\ mcp[c].requests > Streams(c)
  /\ mcp' = [mcp EXCEPT ![c].requests = @ - 1]
  /\ UNCHANGED <<flavor, listener, sweeping, knownSessions, mcpCalls, lost>>

\* A POST the transport cannot read: the SSE server's onerror forgets the session and
\* leaves its stream open.
Errors(c) ==
  /\ flavor = "sse" /\ listener = "on" /\ c \in knownSessions /\ Bounded
  /\ knownSessions' = knownSessions \ {c} /\ mcp' = [mcp EXCEPT ![c].stray = TRUE]
  /\ UNCHANGED <<flavor, listener, sweeping, lost>>

\* No request began for SESSION_IDLE_TTL_MS, whether or not one is still running.
GoesIdle(c) ==
  /\ mcp[c].phase = "open" /\ ~mcp[c].idle
  /\ mcp' = [mcp EXCEPT ![c].idle = TRUE]
  /\ UNCHANGED <<flavor, listener, sweeping, knownSessions, mcpCalls, lost>>

Shut(clients) == [c \in McpClients |-> IF c \in clients /\ mcp[c].phase = "open"
                                       THEN [mcp[c] EXCEPT !.phase = "closed", !.requests = 0] ELSE mcp[c]]

\* closeIdleSessions.
IdleSessions == {c \in knownSessions : mcp[c].idle}
KeepsAll(clients) == knownSessions
Forget(clients) == knownSessions \ clients
Sweeps ==
  /\ sweeping /\ IdleSessions # {}
  /\ mcp' = Shut(IdleSessions) /\ knownSessions' = Forget(IdleSessions)
  /\ UNCHANGED <<flavor, listener, sweeping, mcpCalls, lost>>

\* The client deletes its session or goes away: onsessionclosed, onclose, res "close".
ClientCloses(c) ==
  /\ mcp[c].phase = "open"
  /\ mcp' = Shut({c}) /\ knownSessions' = Forget({c})
  /\ UNCHANGED <<flavor, listener, sweeping, mcpCalls, lost>>

\* stop: the sweep ends, the sessions are forgotten and closed, the listener refuses
\* connections, and the SSE server drops those it has.
Dropped == IF flavor = "sse" THEN {c \in McpClients : mcp[c].phase = "open"} ELSE knownSessions
ServerStops ==
  /\ listener = "on"
  /\ sweeping' = FALSE /\ knownSessions' = {} /\ mcp' = Shut(Dropped)
  /\ listener' = "stopping"
  /\ UNCHANGED <<flavor, mcpCalls, lost>>

\* httpServer.close calls back once no connection is left; a handshake the stop cut leaves
\* its session behind.
Idling == \A c \in McpClients : mcp[c].requests = 0 \/ (flavor = "sse" /\ mcp[c].stray)
StopEnds ==
  /\ listener = "stopping" /\ Idling
  /\ listener' = "off"
  /\ UNCHANGED <<flavor, sweeping, mcp, knownSessions, mcpCalls, lost>>

McpNext ==
  \/ ServerStarts \/ ServerStops \/ StopEnds \/ Sweeps
  \/ \E c \in McpClients : ClientConnects(c) \/ Connected(c) \/ AsksOf(c) \/ RequestEnds(c)
                           \/ Errors(c) \/ GoesIdle(c) \/ ClientCloses(c)

McpSpec == McpInit /\ [][McpNext]_mcpVars

-----------------------------------------------------------------------------

\* The sessions a request can find are open, and an open one can be found: but for one the
\* SSE server forgot for an error, and one whose handshake outlived the server's stop.
SessionsAreFound ==
  /\ \A c \in knownSessions : mcp[c].phase = "open"
  /\ \A c \in McpClients : mcp[c].phase = "open" /\ ~mcp[c].stray => c \in knownSessions
  /\ \A c \in lost : mcp[c].stray

\* A server that has stopped holds no session, and no timer that would keep looking for
\* one, but those same two.
StoppedHoldsNothing ==
  listener = "off" => ~sweeping /\ \A c \in McpClients : mcp[c].phase = "open" => mcp[c].stray

McpSessionsAreKept == SessionsAreFound /\ StoppedHoldsNothing

----------------------------------------------------------------------------
(***************************************************************************)
(* BandMcpStdioServer: the sessions of an MCP server over stdin and        *)
(* stdout, one at a time; the calls that wait for the client to            *)
(* initialize, or for its first tools/list; the tools added and removed    *)
(* meanwhile, and the list_changed notices that keep the client's list     *)
(* current, however the client goes away.                                  *)
(***************************************************************************)
CONSTANTS
  StdioTools, FirstTools,   \* tool names, and those of the options
  StdioCalls,               \* addTools, notify and toolsListed calls
  MaxStdioSessions, MaxRemovals

VARIABLES
  current,     \* session: the running one, 0 for null
  starting,    \* start() calls that await their imports
  stdio,       \* every session opened
  stdioCalls,  \* whenRunning
  removals

stdioVars == <<current, starting, stdio, stdioCalls, removals>>

StdioSessions == 1..MaxStdioSessions
NewSession == [phase |-> "up", initialized |-> FALSE, listed |-> FALSE, tools |-> FirstTools,
               notice |-> FALSE, heard |-> FALSE, view |-> {}]
Unopened == [NewSession EXCEPT !.phase = "none"]
NoCallYet == [state |-> "none", kind |-> "send", session |-> 0, batch |-> {}]

StdioInit ==
  /\ current = 0 /\ starting = 0 /\ removals = 0
  /\ stdio = [s \in StdioSessions |-> Unopened]
  /\ stdioCalls = [c \in StdioCalls |-> NoCallYet]

\* start: nothing when a session runs; else its imports, and openSession.  Only a session
\* that runs is looked at, so a second start() goes along with one that still imports.
Unstarted == {s \in StdioSessions : stdio[s].phase = "none"}
StdioStarts ==
  /\ current = 0 /\ starting < Cardinality(Unstarted)
  /\ starting' = starting + 1
  /\ UNCHANGED <<current, stdio, stdioCalls, removals>>

\* this.session is written without a second look: a session a start() beside this one
\* opened meanwhile stays up, and neither stop() nor the client's leaving ends it.
SessionOpens ==
  /\ starting > 0
  /\ \E s \in Unstarted :
       /\ \A u \in Unstarted : s <= u
       /\ stdio' = [stdio EXCEPT ![s] = NewSession] /\ current' = s
  /\ starting' = starting - 1
  /\ UNCHANGED <<stdioCalls, removals>>

\* close, of stop() and of onClientGone: `stopped` resolves, and what waits is rejected.
RejectsNone(s) == stdioCalls
Settled(s) == [c \in StdioCalls |-> IF stdioCalls[c].state = "waiting" /\ stdioCalls[c].session = s
                                    THEN [stdioCalls[c] EXCEPT !.state = "rejected"] ELSE stdioCalls[c]]

\* The host's stop().  One that comes while start() awaits its imports stops nothing.
StdioStops ==
  /\ current # 0
  /\ current' = 0 /\ stdio' = [stdio EXCEPT ![current].phase = "closed"]
  /\ stdioCalls' = Settled(current)
  /\ UNCHANGED <<starting, removals>>

\* stdin ends, stdout closes or fails, or the transport closes itself: onClientGone.
ClientGoes(s) ==
  /\ stdio[s].phase = "up" /\ s = current
  /\ current' = 0 /\ stdio' = [stdio EXCEPT ![s].phase = "closed"]
  /\ stdioCalls' = Settled(s)
  /\ UNCHANGED <<starting, removals>>

\* The client's initialize, and its notifications/initialized.
ClientInitializes(s) ==
  /\ stdio[s].phase = "up" /\ ~stdio[s].initialized
  /\ stdio' = [stdio EXCEPT ![s].initialized = TRUE]
  /\ UNCHANGED <<current, starting, stdioCalls, removals>>

\* tools/list, first or because a list_changed was heard.
ClientLists(s) ==
  /\ stdio[s].phase = "up" /\ stdio[s].initialized /\ (~stdio[s].listed \/ stdio[s].heard)
  /\ stdio' = [stdio EXCEPT ![s].listed = TRUE, ![s].heard = FALSE, ![s].view = stdio[s].tools]
  /\ UNCHANGED <<current, starting, stdioCalls, removals>>

\* The debounced list_changed is sent.
NoticeSent(s) ==
  /\ stdio[s].phase = "up" /\ stdio[s].notice
  /\ stdio' = [stdio EXCEPT ![s].notice = FALSE, ![s].heard = TRUE]
  /\ UNCHANGED <<current, starting, stdioCalls, removals>>

\* addTools, notify, toolsListed: rejected when no session runs, else they wait on this one.
Waits(c, kind, batch) ==
  /\ stdioCalls[c].state = "none"
  /\ stdioCalls' = [stdioCalls EXCEPT ![c] = [state |-> IF current = 0 THEN "rejected" ELSE "waiting",
                                    kind |-> kind, session |-> current, batch |-> batch]]
  /\ UNCHANGED <<current, starting, stdio, removals>>

\* registerTools: all, or none when a name is taken.
RegisteredInPart(s, batch) == stdio[s].tools \cup batch
ToolRegistered(s, batch) == IF batch \cap stdio[s].tools = {} THEN stdio[s].tools \cup batch ELSE stdio[s].tools
NoticesIfListed(s) == stdio[s].notice \/ ~stdio[s].listed
Notices(s) == TRUE

Runs(c) ==
  LET s == stdioCalls[c].session
      b == stdioCalls[c].batch
      taken == b \cap stdio[s].tools # {}
  IN /\ stdioCalls[c].state = "waiting" /\ stdio[s].phase = "up" /\ stdio[s].initialized
     /\ stdioCalls[c].kind = "listed" => stdio[s].listed
     /\ stdioCalls' = [stdioCalls EXCEPT ![c].state = IF taken THEN "rejected" ELSE "resolved"]
     /\ stdio' = IF b = {} THEN stdio
                 ELSE [stdio EXCEPT ![s].tools = ToolRegistered(s, b), ![s].notice = Notices(s)]
     /\ UNCHANGED <<current, starting, removals>>

\* removeTools acts on the tools added so far, whether or not the client has initialized.
ToolRemoved(names) ==
  /\ current # 0 /\ removals < MaxRemovals /\ names \cap stdio[current].tools # {}
  /\ stdio' = [stdio EXCEPT ![current].tools = @ \ names, ![current].notice = Notices(current)]
  /\ removals' = removals + 1
  /\ UNCHANGED <<current, starting, stdioCalls>>

StdioNext ==
  \/ StdioStarts \/ SessionOpens \/ StdioStops
  \/ \E s \in StdioSessions : ClientGoes(s) \/ ClientInitializes(s)
                              \/ ClientLists(s) \/ NoticeSent(s)
  \/ \E c \in StdioCalls : Runs(c) \/ Waits(c, "send", {}) \/ Waits(c, "listed", {})
                           \/ \E b \in SUBSET StdioTools : b # {} /\ Waits(c, "add", b)
  \/ \E t \in StdioTools : ToolRemoved({t})

StdioSpec == StdioInit /\ [][StdioNext]_stdioVars

-----------------------------------------------------------------------------

\* A call waits only on the session that runs: every way the session ends settles it.
\* But for a session that an overlapping start() took the place of: nothing ends it, and
\* what waits on it for a client that never initializes waits on.
Overwritten(s) == stdio[s].phase = "up" /\ s # current
NobodyWaitsForever ==
  \A c \in StdioCalls : stdioCalls[c].state = "waiting" =>
    stdioCalls[c].session = current \/ Overwritten(stdioCalls[c].session)

\* A batch is listed whole or not at all: every tool is one of the options', or of a batch
\* that was resolved in this session.
BatchesAreWhole ==
  \A s \in StdioSessions : \A t \in stdio[s].tools \ FirstTools :
    \E c \in StdioCalls : stdioCalls[c].state = "resolved" /\ stdioCalls[c].session = s /\ t \in stdioCalls[c].batch

\* Once it has listed, a client that lists again when told has the tools there are, or
\* will be told.
ClientListIsCurrent ==
  \A s \in StdioSessions :
    stdio[s].phase = "up" /\ stdio[s].listed /\ ~stdio[s].notice /\ ~stdio[s].heard
      => stdio[s].view = stdio[s].tools

StdioIsSound == NobodyWaitsForever /\ BatchesAreWhole /\ ClientListIsCurrent
=============================================================================
