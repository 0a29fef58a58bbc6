--------------------------- MODULE ClaudeChannel ---------------------------
(***************************************************************************)
(* The Claude Code plugin (plugins/claude-code: AgentSession,              *)
(* WorkingIndicator, AgentResources, open_room): one MCP server, which     *)
(* connects to Band as the agent its user picks, and again after the       *)
(* connection ended or was never made.                                     *)
(*                                                                         *)
(* An attempt, the connection it makes, the fetches of its peers and the   *)
(* turns it pushes each go on by themselves, from one request to the next. *)
(* The server stops with the session, whoever left first.  Saved agents,   *)
(* the wording of a status and the status files of other sessions are left *)
(* out.  A room's working indicator is independent of any other room's:    *)
(* one room is modelled.                                                   *)
(***************************************************************************)
EXTENDS Naturals, Sequences, FiniteSets

CONSTANTS
  MaxLinks,     \* bound: connections attempted
  MaxFetches,   \* bound: fetches of peers
  MaxPushes     \* bound: messages pushed

ASSUME ChannelAssumption == {MaxLinks, MaxFetches, MaxPushes} \subseteq Nat

Links == 1..MaxLinks

VARIABLES
  cc,        \* AgentSession: its attempt, runtime, what it records, and the server's tools
  links,     \* each PlatformRuntime and its serve()
  lamps,     \* each connection's WorkingIndicator
  fetches,   \* refreshAgents, for each call
  latest,    \* latestFetch
  agents,    \* the fetch whose peers AgentResources shows
  pushes     \* counts messages pushed

channelVars == <<cc, links, lamps, fetches, latest, agents, pushes>>

ChannelInit ==
  /\ cc = [attempt |-> "none", runtime |-> 0, working |-> 0, closed |-> FALSE, recorded |-> "off", tools |-> {"connect"}]
  /\ links = [n \in Links |-> [status |-> "none", serve |-> "none", listed |-> FALSE, turn |-> FALSE]]
  /\ lamps = [n \in Links |-> [closed |-> FALSE, on |-> FALSE, reports |-> <<>>, shown |-> FALSE, failed |-> FALSE]]
  /\ fetches = <<>> /\ latest = 0 /\ agents = 0 /\ pushes = 0

----------------------------------------------------------------------------
(* The working indicator.                                                  *)

\* report: reports are sent in order, and nobody waits for them.
Reporting(n, on) == [lamps[n] EXCEPT !.on = on, !.reports = Append(@, on)]
StoppedLamp(n) == [(IF lamps[n].on THEN Reporting(n, FALSE) ELSE lamps[n]) EXCEPT !.closed = TRUE]
StopAll == IF cc.working = 0 THEN lamps ELSE [lamps EXCEPT ![cc.working] = StoppedLamp(cc.working)]

ReportSent(n, ok) ==
  /\ lamps[n].reports # <<>>
  /\ lamps' = [lamps EXCEPT ![n].reports = Tail(@), ![n].failed = ~ok,
                            ![n].shown = IF ok THEN Head(lamps[n].reports) ELSE @]
  /\ UNCHANGED <<cc, links, fetches, latest, agents, pushes>>

\* A turn pushes its message, which may end after its connection did, and starts the
\* indicator.
PushBegins(n) ==
  /\ links[n].status = "running" /\ ~links[n].turn /\ pushes < MaxPushes
  /\ links' = [links EXCEPT ![n].turn = TRUE] /\ pushes' = pushes + 1
  /\ UNCHANGED <<cc, lamps, fetches, latest, agents>>

\* Broken variant of StartsLamp: a late push lights an indicator that was put out.
StartsLampAnyway(n) == [lamps EXCEPT ![n] = Reporting(n, TRUE)]
StartsLamp(n) == IF lamps[n].closed THEN lamps ELSE [lamps EXCEPT ![n] = Reporting(n, TRUE)]
PushEnds(n, ok) ==
  /\ links[n].turn /\ (ok => ~cc.closed)
  /\ links' = [links EXCEPT ![n].turn = FALSE]
  /\ lamps' = IF ok THEN StartsLamp(n) ELSE lamps
  /\ UNCHANGED <<cc, fetches, latest, agents, pushes>>

\* Claude posts in the room.
StatusPosted(n) ==
  /\ lamps[n].on /\ lamps' = [lamps EXCEPT ![n] = Reporting(n, FALSE)]
  /\ UNCHANGED <<cc, links, fetches, latest, agents, pushes>>

----------------------------------------------------------------------------
(* An attempt at a connection.                                             *)

LinksKeep == UNCHANGED <<lamps, fetches, latest, agents, pushes>>

\* once(): the connect tool of a session that is off asks the user; others join.
Asks ==
  /\ cc.attempt = "none" /\ ~cc.closed /\ "connect" \in cc.tools
  /\ cc' = [cc EXCEPT !.attempt = "asking", !.recorded = "off"]
  /\ UNCHANGED links /\ LinksKeep
NotPicked ==
  /\ cc.attempt = "asking" /\ cc' = [cc EXCEPT !.attempt = "none"]
  /\ UNCHANGED links /\ LinksKeep

\* connect(): for the agent the user picked, or the one the environment names.
Connects(n) ==
  /\ links[n].status = "none" /\ \A m \in 1..(n - 1) : links[m].status # "none"
  /\ \/ cc.attempt = "asking"
     \/ n = 1 /\ cc.attempt = "none" /\ ~cc.closed
  /\ cc' = [cc EXCEPT !.attempt = "reaching", !.runtime = n]
  /\ links' = [links EXCEPT ![n].status = "made"]
  /\ LinksKeep

\* initialize() and getAgentMe() have answered.
Identified ==
  /\ cc.attempt = "reaching" /\ cc' = [cc EXCEPT !.attempt = "gating", !.working = cc.runtime]
  /\ UNCHANGED links /\ LinksKeep

ServerReady ==
  /\ cc.attempt = "gating" /\ ~cc.closed
  /\ cc' = [cc EXCEPT !.attempt = "listing", !.recorded = "connected", !.tools = @ \ {"connect"}]
  /\ UNCHANGED links /\ LinksKeep

\* Broken variant of ToolsListed: it is not asked whether the server still runs.
ToolsListedAnyway ==
  /\ cc.attempt = "listing"
  /\ cc' = [cc EXCEPT !.attempt = "starting", !.tools = @ \cup {"band"}]
  /\ links' = [links EXCEPT ![cc.runtime].status = "starting", ![cc.runtime].listed = TRUE]
  /\ LinksKeep
ToolsListed ==
  /\ cc.attempt = "listing" /\ ~cc.closed
  /\ cc' = [cc EXCEPT !.attempt = "starting", !.tools = @ \cup {"band"}]
  /\ links' = [links EXCEPT ![cc.runtime].status = "starting", ![cc.runtime].listed = TRUE]
  /\ LinksKeep

Started ==
  /\ cc.attempt = "starting" /\ links[cc.runtime].status = "starting"
  /\ cc' = [cc EXCEPT !.attempt = "settling"]
  /\ links' = [links EXCEPT ![cc.runtime].status = "running", ![cc.runtime].serve = "serving"]
  /\ fetches' = Append(fetches, [link |-> cc.runtime, over |-> FALSE]) /\ latest' = Len(fetches')
  /\ UNCHANGED <<lamps, agents, pushes>>

\* Once closed the attempt ends wherever it was; the server refuses it if nothing else does.
AttemptAbandoned ==
  /\ cc.closed /\ cc.attempt \in {"asking", "reaching", "gating", "listing", "starting", "settling"}
  /\ cc.attempt = "starting" => links[cc.runtime].status # "starting"
  /\ cc' = [cc EXCEPT !.attempt = "none"]
  /\ UNCHANGED links /\ LinksKeep

\* release(), up to its first await.
Stopping(n) == IF links[n].status \in {"stopping", "stopped"} THEN links[n] ELSE [links[n] EXCEPT !.status = "stopping"]
Releases(n, session, serve) ==
  /\ agents' = 0 /\ lamps' = StopAll
  /\ links' = [links EXCEPT ![n] = [Stopping(n) EXCEPT !.serve = serve]]
  /\ cc' = session
  /\ UNCHANGED <<fetches, latest, pushes>>

AttemptFails ==
  /\ cc.attempt \in {"reaching", "starting"} /\ ~cc.closed
  /\ Releases(cc.runtime, [cc EXCEPT !.attempt = "releasing"], "releasing")

\* The attempt has its peers, or its connection has ended.
Newest(n) == links[n].status # "none" /\ \A m \in Links : m > n => links[m].status = "none"
AttemptEnds(n) ==
  /\ Newest(n) /\ cc.attempt \in {"settling", "releasing"}
  /\ \/ links[n].serve = "over"
     \/ /\ cc.attempt = "settling" /\ cc.runtime = n /\ links[n].status = "running"
        /\ \E f \in DOMAIN fetches : fetches[f].link = n /\ fetches[f].over
  /\ cc' = [cc EXCEPT !.attempt = "none"]
  /\ UNCHANGED links /\ LinksKeep

----------------------------------------------------------------------------
(* The connection.                                                         *)

ConnectionLost(n) ==
  /\ links[n].serve = "serving" /\ links[n].status = "running"
  /\ links' = [links EXCEPT ![n].serve = "lost"] /\ UNCHANGED cc /\ LinksKeep
ServeEnds(n) ==
  /\ links[n].serve = "lost"
  /\ IF cc.closed THEN links' = [links EXCEPT ![n].serve = "over"] /\ UNCHANGED cc /\ LinksKeep
     ELSE Releases(n, cc, "releasing")

RuntimeStopped(n) ==
  /\ links[n].status = "stopping"
  /\ links' = [links EXCEPT ![n].status = "stopped",
                            ![n].serve = IF @ = "serving" THEN "over" ELSE @]
  /\ UNCHANGED cc /\ LinksKeep

\* Broken variant of Released: the tools of a start that failed are forgotten.
ReleasedIfServed(n) ==
  /\ links[n].serve = "releasing" /\ links[n].status = "stopped" /\ lamps[n].reports = <<>>
  /\ cc' = [cc EXCEPT !.runtime = 0, !.working = 0, !.recorded = "off"]
  /\ links' = [links EXCEPT ![n].serve = "over"]
  /\ LinksKeep
\* The indicator and the runtime have stopped.
Released(n) ==
  /\ links[n].serve = "releasing" /\ links[n].status = "stopped" /\ lamps[n].reports = <<>>
  /\ IF cc.closed THEN links' = [links EXCEPT ![n].serve = "over"] /\ UNCHANGED cc
     ELSE /\ cc' = [cc EXCEPT !.runtime = 0, !.working = 0, !.recorded = "off",
                              !.tools = IF links[n].listed THEN @ \ {"band"} ELSE @]
          /\ links' = [links EXCEPT ![n].serve = IF links[n].listed THEN "relisting" ELSE "over"]
  /\ LinksKeep
Relisted(n) ==
  /\ links[n].serve = "relisting"
  /\ links' = [links EXCEPT ![n].serve = "over"]
  /\ cc' = [cc EXCEPT !.tools = IF cc.closed THEN @ ELSE @ \cup {"connect"}]
  /\ LinksKeep

\* close(), and the server stops.
Closes ==
  /\ ~cc.closed
  /\ agents' = 0 /\ lamps' = StopAll
  /\ links' = IF cc.runtime = 0 THEN links ELSE [links EXCEPT ![cc.runtime] = Stopping(cc.runtime)]
  /\ cc' = [cc EXCEPT !.closed = TRUE]
  /\ UNCHANGED <<fetches, latest, pushes>>

----------------------------------------------------------------------------
(* The peers.                                                              *)

\* A tool of the connection asks for them again.
FetchBegins ==
  /\ "band" \in cc.tools /\ ~cc.closed /\ cc.runtime # 0 /\ links[cc.runtime].listed
  /\ Len(fetches) < MaxFetches
  /\ fetches' = Append(fetches, [link |-> cc.runtime, over |-> FALSE]) /\ latest' = Len(fetches')
  /\ UNCHANGED <<cc, links, lamps, agents, pushes>>

\* Broken variant of Shows: the peers of any fetch are shown.
ShowsAny(f) == ~cc.closed /\ cc.runtime = fetches[f].link
Shows(f) ==
  /\ latest = f /\ ~cc.closed
  /\ cc.runtime = fetches[f].link /\ links[cc.runtime].status = "running"
FetchEnds(f, ok) ==
  /\ ~fetches[f].over
  /\ fetches' = [fetches EXCEPT ![f].over = TRUE]
  /\ agents' = IF ok /\ Shows(f) THEN f ELSE agents
  /\ latest' = IF latest = f THEN 0 ELSE latest
  /\ UNCHANGED <<cc, links, lamps, pushes>>

----------------------------------------------------------------------------
ChannelNext ==
  \/ Asks \/ NotPicked \/ Identified \/ ServerReady \/ ToolsListed \/ Started \/ AttemptAbandoned \/ AttemptFails \/ Closes
  \/ \E n \in Links :
       \/ Connects(n) \/ AttemptEnds(n) \/ ConnectionLost(n) \/ ServeEnds(n) \/ RuntimeStopped(n) \/ Released(n) \/ Relisted(n)
       \/ PushBegins(n) \/ StatusPosted(n) \/ \E ok \in BOOLEAN : PushEnds(n, ok) \/ ReportSent(n, ok)
  \/ FetchBegins \/ \E f \in DOMAIN fetches, ok \in BOOLEAN : FetchEnds(f, ok)

ChannelSpec == ChannelInit /\ [][ChannelNext]_channelVars

----------------------------------------------------------------------------
(* What must hold.                                                         *)

\* Nothing is being connected or released, and no connection has been lost unnoticed.
ChannelRests ==
  cc.attempt = "none" /\ ~cc.closed /\ \A n \in Links : links[n].serve \notin {"lost", "releasing", "relisting"}

\* At rest a session's status, its tools and its connection say the same: it is connected
\* and serves the agent's tools, or it is off and offers to connect.
StatusTellsTheTruth ==
  ChannelRests =>
    IF cc.recorded = "connected"
    THEN cc.tools = {"band"} /\ cc.runtime # 0 /\ links[cc.runtime].status = "running"
    ELSE cc.tools = {"connect"} /\ cc.runtime = 0 /\ \A n \in Links : links[n].status \in {"none", "stopped"}

\* The peers offered as resources are those of the connection there is, whatever fetches
\* of earlier ones end late, and an older answer never takes a newer one's place.
AgentsAreCurrent ==
  /\ [](agents # 0 => ~cc.closed /\ cc.runtime = fetches[agents].link)
  /\ [][agents' \notin {0, agents} => agents' > agents]_channelVars

\* A session that has closed comes to rest: no connection starts behind its back.
NothingRunsAfterClose ==
  cc.closed => \A n \in Links : links[n].status \notin {"starting", "running"}

\* A connection's indicator is out once it has been stopped and its reports are sent,
\* late pushes and replies or not, unless Band refused the last of them.
IndicatorGoesOut ==
  \A n \in Links : lamps[n].closed /\ lamps[n].reports = <<>> => ~lamps[n].shown \/ lamps[n].failed

----------------------------------------------------------------------------
(* The tool open_room (rooms.ts): calls for one set of participants, some  *)
(* for a room of its own, the others for whichever there is.               *)
CONSTANT MaxOpenings   \* bound: calls

ASSUME OpeningsAssumption == MaxOpenings \in Nat

Openings == 1..MaxOpenings

VARIABLES
  openings,  \* each call
  opened     \* the call others share (inFlight), and the rooms there are

claudeRoomsVars == <<openings, opened>>

ClaudeRoomsInit ==
  /\ openings = [o \in Openings |-> [pc |-> "none", new |-> FALSE]]
  /\ opened = [shared |-> 0, fits |-> 0, found |-> FALSE, twice |-> FALSE]

\* Who is meant has been looked up: a call for a room of its own makes one, any other
\* shares the find-or-create that is under way.
Opens(o, new) ==
  /\ openings[o].pc = "none" /\ \A q \in 1..(o - 1) : openings[q].pc # "none"
  /\ LET leads == ~new /\ opened.shared = 0 IN
       /\ openings' = [openings EXCEPT ![o] = [pc |-> IF new THEN "creating" ELSE IF leads THEN "listing" ELSE "over", new |-> new]]
       /\ opened' = IF leads THEN [opened EXCEPT !.shared = o] ELSE opened


\* Broken variant of Leaves: the next call does not wait for the invites.
LeavesAt(o, pc) == IF pc \in {"inviting", "over"} /\ opened.shared = o THEN 0 ELSE opened.shared
Leaves(o, pc) == IF pc = "over" /\ opened.shared = o THEN 0 ELSE opened.shared
OpeningAt(o, pc) == openings' = [openings EXCEPT ![o].pc = pc]

\* The most recently active room whose participants are exactly these is reused.
RoomsListed(o) ==
  /\ openings[o].pc = "listing"
  /\ LET pc == IF opened.fits > 0 THEN "over" ELSE "creating" IN
       OpeningAt(o, pc) /\ opened' = [opened EXCEPT !.shared = Leaves(o, pc)]
RoomOpened(o) ==
  /\ openings[o].pc = "creating" /\ OpeningAt(o, "inviting")
  /\ opened' = [opened EXCEPT !.shared = Leaves(o, "inviting")]
\* Someone who could not be invited leaves a room that fits nobody's call.
ParticipantsInvited(o, all) ==
  /\ openings[o].pc = "inviting" /\ OpeningAt(o, "over")
  /\ opened' = [opened EXCEPT !.shared = Leaves(o, "over"), !.fits = IF all THEN @ + 1 ELSE @,
                              !.twice = @ \/ (all /\ ~openings[o].new /\ opened.found),
                              !.found = @ \/ (all /\ ~openings[o].new)]
OpeningFails(o) ==
  /\ openings[o].pc \in {"listing", "creating"} /\ OpeningAt(o, "over")
  /\ opened' = [opened EXCEPT !.shared = Leaves(o, "over")]

ClaudeRoomsNext ==
  \E o \in Openings :
    \/ RoomsListed(o) \/ RoomOpened(o) \/ OpeningFails(o)
    \/ \E yes \in BOOLEAN : Opens(o, yes) \/ ParticipantsInvited(o, yes)

ClaudeRoomsSpec == ClaudeRoomsInit /\ [][ClaudeRoomsNext]_claudeRoomsVars

----------------------------------------------------------------------------
\* Calls that name the same participants open one room for them, unless one is asked
\* for or someone could not be invited.
OneRoomIsOpened == ~opened.twice
=============================================================================
