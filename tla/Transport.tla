----------------------------- MODULE Transport -----------------------------
(***************************************************************************)
(* The streaming transport (platform/streaming): one SessionRun over one   *)
(* Phoenix socket, the channels ChannelRegistry holds on it, the reconnect *)
(* generations and the barrier they keep, and the BandLink session above.  *)
(* Phoenix and the server are external: what they may do is modelled from  *)
(* how the transport uses them.  Control stands for agent_control, Topics  *)
(* for the chat topics of the rooms the agent is in.                       *)
(***************************************************************************)
EXTENDS Integers, Sequences, FiniteSets

CONSTANTS
  Topics,       \* the chat topics
  MaxSessions,  \* bound: how many times BandLink connects
  MaxOpens,     \* bound: how many times the socket opens
  MaxLapses     \* bound: how often a channel is cut off a live socket, at one time

ASSUME TransportAssumption ==
  /\ "control" \notin Topics
  /\ MaxSessions \in Nat /\ MaxOpens \in Nat /\ MaxLapses \in Nat

Control == "control"
AllTopics == Topics \cup {Control}

VARIABLES
  link,       \* BandLink: where its connect or disconnect is
  connected,  \* BandLink.connected
  sessions,   \* how many sessions it has begun, the epoch of the latest
  run,        \* the latest SessionRun: is it live, connected, closing its socket?
  terminal,   \* has a terminal verdict ended the transport for good?
  wire,       \* the socket: closed or open
  opens,      \* how many times it has opened
  openedOnce, \* hasOpenedOnce
  booting,    \* is a handleOpen waiting for agent_control's first join?
  epoch,      \* PhoenixChannelsTransport.epoch
  teardown,   \* disconnect(): its stage, and the leaves it awaits
  reg,        \* each topic's channel in the registry: none, pending or joined
  regEpoch,   \* the epoch its doJoin read
  husks,      \* the topics whose leave failed: still registered, heard no more
  leaving,    \* the topics with a leave in flight
  px,         \* Phoenix's side of each channel
  joining,    \* each topic's join(): none, or what it awaits
  joinEpoch,  \* the epoch that join() read
  gen,        \* the open reconnect generation: its number, pending and joined topics
  genCount,   \* ReconnectGenerationTracker.currentGeneration
  buffering,  \* bufferingGeneration, 0 for null
  barrier,    \* is there a reconnectBarrier?
  buffer,     \* bufferedTopicEvents, whose order no property tells apart
  observers,  \* observerChain: the snapshots not yet reported
  observing,  \* is the first of them being reconciled?
  lapse,      \* how many times each topic's channel was cut off
  caught,     \* the cut-offs of each topic a queued catch-up covers
  overtaken   \* topics with an event delivered ahead of such a catch-up

linkVars   == <<link, connected, sessions>>
socketVars == <<run, terminal, wire, opens, openedOnce, booting>>
chanVars   == <<reg, regEpoch, husks, leaving, px>>
joinVars   == <<joining, joinEpoch>>
genVars    == <<gen, genCount>>
flushVars  == <<buffering, barrier, buffer, observers, observing>>
gapVars    == <<lapse, caught, overtaken>>
transportVars == <<linkVars, socketVars, epoch, teardown, chanVars, joinVars,
                   genVars, flushVars, gapVars>>

NoTeardown == [stage |-> "none", awaits |-> {}]
NoGen == [num |-> 0, pending |-> {}, joined |-> {}]
EndedRun == [live |-> FALSE, connected |-> FALSE, closing |-> FALSE]
FreshRun == [EndedRun EXCEPT !.live = TRUE]

TransportInit ==
  /\ link = "idle" /\ connected = FALSE /\ sessions = 0
  /\ run = EndedRun /\ terminal = FALSE /\ wire = "closed" /\ opens = 0
  /\ openedOnce = FALSE /\ booting = FALSE
  /\ epoch = 0 /\ teardown = NoTeardown
  /\ reg = [t \in AllTopics |-> "none"] /\ regEpoch = [t \in AllTopics |-> 0]
  /\ husks = {} /\ leaving = {} /\ px = [t \in AllTopics |-> "none"]
  /\ joining = [t \in Topics |-> "none"] /\ joinEpoch = [t \in Topics |-> 0]
  /\ gen = NoGen /\ genCount = 0
  /\ buffering = 0 /\ barrier = FALSE /\ buffer = {}
  /\ observers = <<>> /\ observing = FALSE
  /\ lapse = [t \in Topics |-> 0] /\ caught = [t \in Topics |-> 0]
  /\ overtaken = {}

\* What `channels` holds, and isJoined().
Registered == {t \in AllTopics : reg[t] = "joined"} \cup husks
IsJoined(t) == t \in Registered \ leaving

\* The epoch and owns() checks of doJoin: do the channel's replies and events count?
Current(t) == regEpoch[t] = epoch
              /\ (reg[t] = "pending" \/ (reg[t] = "joined" /\ t \notin leaving))

\* The BandLink session is the one its observers were registered for.
InSession(s) == link \in {"connecting", "active"} /\ s = sessions

----------------------------------------------------------------------------
(* Parts of the steps.                                                     *)

\* Broken variant: joins waiting on the barrier are left behind it.
AbandonKeepingBarrier ==
  /\ buffering' = 0 /\ buffer' = {} /\ UNCHANGED <<barrier, joining>>
  /\ gen' = NoGen /\ genCount' = 0

ReleasedJoins == [t \in Topics |-> IF joining[t] = "barrier" THEN "resume" ELSE joining[t]]

\* abandonReconnect(): a reconnect does not outlive its run.
AbandonReconnect ==
  /\ buffering' = 0 /\ barrier' = FALSE /\ buffer' = {}
  /\ joining' = ReleasedJoins
  /\ gen' = NoGen /\ genCount' = 0

\* maybeFinalize() and notifyReconnectObservers().
Settle(g) ==
  IF g.num # 0 /\ g.pending = {}
    THEN /\ gen' = NoGen
         /\ observers' = Append(observers, [num |-> g.num, epoch |-> epoch, session |-> sessions])
    ELSE gen' = g /\ UNCHANGED observers

Without(t) == [gen EXCEPT !.pending = @ \ {t}]

\* A catch-up queued now covers every cut-off of a channel that is back, and all
\* but the one a channel is still in.
CaughtUp(t) == IF px[t] = "joined" \/ lapse[t] = 0 THEN lapse[t] ELSE lapse[t] - 1

\* Phoenix, told its socket closed, keeps each channel to rejoin it.
Cut == [t \in AllTopics |-> IF px[t] \in {"asked", "joined"} THEN "waiting" ELSE px[t]]
CutLapses == [t \in Topics |-> IF px[t] = "joined" /\ reg[t] = "joined"
                                 THEN lapse[t] + 1 ELSE lapse[t]]

\* closeOwnConnection() and closeLiveConnection(): the close comes later.
DropLiveConnection ==
  /\ gen' = NoGen
  /\ run' = [run EXCEPT !.closing = TRUE, !.connected = FALSE]

----------------------------------------------------------------------------
(* BandLink's session.                                                     *)

\* connect(), connectSession() and, in the transport, connect() and startRun().
LinkConnect ==
  /\ link = "idle" /\ sessions < MaxSessions /\ teardown = NoTeardown
  /\ sessions' = sessions + 1
  /\ IF terminal
       THEN link' = "failed" /\ UNCHANGED run
       ELSE link' = "connecting" /\ run' = FreshRun
  /\ UNCHANGED <<connected, terminal, wire, opens, openedOnce, booting, epoch, teardown,
                 chanVars, joinVars, genVars, flushVars, gapVars>>

\* waitForConnection() rejects: the boot deadline, or disconnect() aborted it.
ConnectGivesUp ==
  /\ link = "connecting"
  /\ link' = "failed"
  /\ run' = EndedRun /\ AbandonReconnect
  /\ wire' = "closed" /\ px' = Cut
  /\ lapse' = CutLapses
  /\ UNCHANGED <<connected, sessions, terminal, opens, openedOnce, booting, epoch, teardown,
                 reg, regEpoch, husks, leaving, joinEpoch, observers, observing, caught, overtaken>>

\* disconnectSession(), or connectSession() cleaning up after itself; either calls
\* the transport's disconnect(), which runs to its first await.
LinkDisconnect ==
  /\ link \in {"active", "failed"}
  /\ link' = "disconnecting"
  /\ IF run.live THEN run' = EndedRun /\ AbandonReconnect
                 ELSE UNCHANGED <<run, buffering, barrier, buffer, joining, genVars>>
  /\ epoch' = epoch + 1
  /\ teardown' = [stage |-> "leaving", awaits |-> Registered]
  /\ leaving' = leaving \cup Registered
  /\ px' = [t \in AllTopics |-> IF reg[t] = "joined" THEN "none" ELSE px[t]]
  /\ UNCHANGED <<connected, sessions, terminal, wire, opens, openedOnce, booting,
                 reg, regEpoch, husks, joinEpoch, observers, observing, gapVars>>

TeardownCloses ==
  /\ teardown.stage = "leaving" /\ teardown.awaits = {}
  /\ teardown' = [teardown EXCEPT !.stage = "closing"]
  /\ wire' = "closed" /\ px' = Cut
  /\ lapse' = CutLapses
  /\ UNCHANGED <<linkVars, run, terminal, opens, openedOnce, booting, epoch, reg, regEpoch,
                 husks, leaving, joinVars, genVars, flushVars, caught, overtaken>>

\* forceTeardown(), and BandLink's own end of the session.
TeardownEnds ==
  /\ teardown.stage = "closing"
  /\ teardown' = NoTeardown
  /\ reg' = [t \in AllTopics |-> "none"] /\ px' = [t \in AllTopics |-> "none"]
  /\ husks' = {} /\ leaving' = {}
  /\ joining' = [t \in Topics |-> IF joining[t] = "flight" THEN "none" ELSE joining[t]]
  /\ openedOnce' = FALSE /\ booting' = FALSE
  /\ link' = "idle" /\ connected' = FALSE
  /\ UNCHANGED <<sessions, run, terminal, wire, opens, epoch, regEpoch, joinEpoch,
                 genVars, flushVars, gapVars>>

----------------------------------------------------------------------------
(* The socket.                                                             *)

\* beginGeneration(), the buffering and the barrier.
BeginGeneration ==
  /\ gen' = [num |-> genCount + 1, pending |-> Registered, joined |-> {}]
  /\ genCount' = genCount + 1
  /\ buffering' = genCount + 1 /\ barrier' = TRUE

\* markConnected() and the connect() that waits for it.
MarkConnected ==
  /\ openedOnce' = TRUE
  /\ run' = [run EXCEPT !.connected = TRUE, !.closing = FALSE]
  /\ link' = IF link = "connecting" THEN "active" ELSE link
  /\ connected' = (connected \/ link = "connecting")

\* An attempt of a live run opens: handleOpen(), then Phoenix resends its joins.
\* agent_control is joined whenever the socket has once been past it.
Open ==
  /\ run.live /\ wire = "closed" /\ opens < MaxOpens
  /\ opens' = opens + 1 /\ wire' = "open"
  /\ IF openedOnce THEN BeginGeneration ELSE UNCHANGED <<genVars, buffering, barrier>>
  /\ LET resent == [t \in AllTopics |-> IF px[t] \in {"waiting", "unsent"} THEN "asked" ELSE px[t]]
         bare == reg[Control] = "none" IN
     IF IsJoined(Control)
       THEN /\ MarkConnected /\ px' = resent
            /\ UNCHANGED <<booting, reg, regEpoch>>
       ELSE /\ booting' = TRUE
            /\ run' = [run EXCEPT !.closing = FALSE]
            /\ reg' = [reg EXCEPT ![Control] = "pending"]
            /\ regEpoch' = IF bare THEN [regEpoch EXCEPT ![Control] = epoch] ELSE regEpoch
            /\ px' = IF bare THEN [resent EXCEPT ![Control] = "asked"] ELSE resent
            /\ UNCHANGED <<link, connected, openedOnce>>
  /\ UNCHANGED <<sessions, terminal, epoch, teardown, husks, leaving, joinVars,
                 buffer, observers, observing, gapVars>>

\* The connection is lost, or closed by its owner; Session retries.
WireDrops ==
  /\ wire = "open"
  /\ wire' = "closed" /\ px' = Cut /\ lapse' = CutLapses
  /\ run' = [run EXCEPT !.connected = FALSE]
  /\ UNCHANGED <<linkVars, terminal, opens, openedOnce, booting, epoch, teardown, reg, regEpoch,
                 husks, leaving, joinVars, genVars, flushVars, caught, overtaken>>

\* A terminal verdict: of a close, a refused upgrade or a supersede; and
\* handleRunEnded() with BandLink's handleTerminal().
Dies ==
  /\ run.live
  /\ LET pending == {t \in AllTopics : reg[t] = "pending"} IN
     /\ run' = EndedRun /\ terminal' = TRUE
     /\ buffering' = 0 /\ barrier' = FALSE /\ buffer' = {} /\ gen' = NoGen /\ genCount' = 0
     /\ joining' = [t \in Topics |-> IF t \in pending THEN "none" ELSE ReleasedJoins[t]]
     /\ reg' = [t \in AllTopics |-> IF t \in pending THEN "none" ELSE reg[t]]
     /\ wire' = "closed"
     /\ px' = [t \in AllTopics |-> IF t \in pending THEN "none" ELSE Cut[t]]
     /\ lapse' = CutLapses
  /\ booting' = FALSE
  /\ link' = IF link = "connecting" THEN "failed" ELSE link
  /\ connected' = FALSE
  /\ UNCHANGED <<sessions, opens, openedOnce, epoch, teardown, regEpoch, husks, leaving,
                 joinEpoch, observers, observing, caught, overtaken>>

\* A retryable supersede closes the live connection.
Supersede ==
  /\ wire = "open" /\ px[Control] = "joined" /\ Current(Control) /\ run.live /\ ~run.closing
  /\ DropLiveConnection
  /\ UNCHANGED <<linkVars, terminal, wire, opens, openedOnce, booting, epoch, teardown, chanVars,
                 joinVars, genCount, flushVars, gapVars>>

\* The server cuts one channel off (phx_error); Phoenix rejoins it in a while.
ChannelDrops(t) ==
  /\ wire = "open" /\ px[t] = "joined" /\ lapse[t] < MaxLapses
  /\ px' = [px EXCEPT ![t] = "waiting"]
  /\ lapse' = [lapse EXCEPT ![t] = @ + 1]
  /\ UNCHANGED <<linkVars, socketVars, epoch, teardown, reg, regEpoch, husks, leaving, joinVars,
                 genVars, flushVars, caught, overtaken>>

PhoenixRejoins(t) ==
  /\ wire = "open" /\ px[t] = "waiting"
  /\ px' = [px EXCEPT ![t] = "asked"]
  /\ UNCHANGED <<linkVars, socketVars, epoch, teardown, reg, regEpoch, husks, leaving, joinVars,
                 genVars, flushVars, gapVars>>

----------------------------------------------------------------------------
(* Channels.                                                               *)

\* A reply no longer routed to its join: Phoenix alone acts on it.
JoinReplyStale(t, ok) ==
  /\ px[t] = "asked" /\ wire = "open" /\ ~Current(t)
  /\ px' = [px EXCEPT ![t] = IF ok THEN "joined" ELSE "waiting"]
  /\ UNCHANGED <<linkVars, socketVars, epoch, teardown, reg, regEpoch, husks, leaving, joinVars,
                 genVars, flushVars, gapVars>>

\* handleJoinSettled() and, for a chat topic, queueRejoinCatchUp(): a rejoin that no
\* generation waited on is caught up on its own.
JoinSettled(t, ok) ==
  IF run.closing
    THEN UNCHANGED <<gen, observers>>
    ELSE Settle(IF t \in gen.pending
                  THEN [Without(t) EXCEPT !.joined = IF ok THEN @ \cup {t} ELSE @]
                  ELSE gen)

RejoinCatchUp(t) ==
  ~run.closing /\ t \notin gen.pending /\ IsJoined(t) /\ InSession(sessions)

\* The ok reply of a join Push: of its first settlement, or of a rejoin.
Joined(t) ==
  /\ px[t] = "asked" /\ wire = "open" /\ Current(t)
  /\ px' = [px EXCEPT ![t] = "joined"]
  /\ reg' = [reg EXCEPT ![t] = "joined"]
  /\ husks' = husks \ {t}
  /\ JoinSettled(t, TRUE)
  /\ IF t = Control
       THEN /\ booting' = FALSE
            /\ IF booting /\ run.live /\ ~run.closing
                 THEN MarkConnected ELSE UNCHANGED <<run, openedOnce, link, connected>>
            /\ UNCHANGED <<joining, caught>>
       ELSE /\ joining' = [joining EXCEPT ![t] = IF reg[t] = "pending" THEN "none" ELSE @]
            /\ caught' = [caught EXCEPT ![t] = IF reg[t] = "pending" \/ RejoinCatchUp(t)
                                                 THEN lapse[t] ELSE @]
            /\ UNCHANGED <<booting, run, openedOnce, link, connected>>
  /\ UNCHANGED <<sessions, terminal, wire, opens, epoch, teardown, regEpoch, leaving, joinEpoch,
                 genCount, buffering, barrier, buffer, observing, lapse, overtaken>>

\* The error or timeout of a join Push: a first join is abandoned and its caller
\* rejected; a rejoin stays with Phoenix.  agent_control's costs the socket.
JoinFailed(t) ==
  /\ \/ px[t] = "asked" /\ wire = "open"
     \/ px[t] = "unsent"
  /\ Current(t)
  /\ IF t = Control /\ run.live /\ ~run.closing
       THEN DropLiveConnection /\ UNCHANGED observers
       ELSE JoinSettled(t, FALSE) /\ UNCHANGED run
  /\ IF reg[t] = "pending"
       THEN /\ reg' = [reg EXCEPT ![t] = "none"] /\ px' = [px EXCEPT ![t] = "none"]
            /\ booting' = (booting /\ t # Control)
            /\ joining' = IF t = Control THEN joining ELSE [joining EXCEPT ![t] = "none"]
       ELSE /\ px' = [px EXCEPT ![t] = "waiting"]
            /\ UNCHANGED <<reg, booting, joining>>
  /\ UNCHANGED <<linkVars, terminal, wire, opens, openedOnce, epoch, teardown, regEpoch, husks,
                 leaving, joinEpoch, genCount, buffering, barrier, buffer, observing, gapVars>>

\* join() to its first await: a join there already is shared.
Join(t) ==
  /\ joining[t] = "none" /\ ~IsJoined(t)
  /\ joining' = [joining EXCEPT ![t] = IF barrier THEN "barrier" ELSE "resume"]
  /\ joinEpoch' = [joinEpoch EXCEPT ![t] = epoch]
  /\ UNCHANGED <<linkVars, socketVars, epoch, teardown, chanVars, genVars, flushVars, gapVars>>

\* doJoin() to its await.
DoJoin(t) ==
  /\ reg' = [reg EXCEPT ![t] = "pending"]
  /\ regEpoch' = [regEpoch EXCEPT ![t] = epoch]
  /\ px' = [px EXCEPT ![t] = IF wire = "open" THEN "asked" ELSE "unsent"]
  /\ joining' = [joining EXCEPT ![t] = "flight"]

\* join() past the barrier.
JoinResumes(t) ==
  /\ joining[t] = "resume"
  /\ IF terminal \/ joinEpoch[t] # epoch \/ IsJoined(t)
       THEN joining' = [joining EXCEPT ![t] = "none"] /\ UNCHANGED <<reg, regEpoch, px>>
       ELSE IF t \in leaving
         THEN joining' = [joining EXCEPT ![t] = "leave"] /\ UNCHANGED <<reg, regEpoch, px>>
         ELSE DoJoin(t)
  /\ UNCHANGED <<linkVars, socketVars, epoch, teardown, husks, leaving, joinEpoch,
                 genVars, flushVars, gapVars>>

\* The registry's join() waited out a leave, in whatever session that ended.
JoinAfterLeave(t) ==
  /\ joining[t] = "leave" /\ t \notin leaving
  /\ DoJoin(t)
  /\ UNCHANGED <<linkVars, socketVars, epoch, teardown, husks, leaving, joinEpoch,
                 genVars, flushVars, gapVars>>

\* leave(): the handlers are unbound at once.  SubscriptionManager leaves no room
\* whose join is in flight.
Leave(t) ==
  /\ IsJoined(t) /\ joining[t] = "none"
  /\ leaving' = leaving \cup {t}
  /\ px' = [px EXCEPT ![t] = IF reg[t] = "joined" THEN "none" ELSE @]
  /\ UNCHANGED <<linkVars, socketVars, epoch, teardown, reg, regEpoch, husks, joinVars,
                 genVars, flushVars, gapVars>>

\* Broken variant: a generation goes on waiting for a topic that was left.
LeaveReplyUnsettled(t, ok) ==
  /\ t \in leaving
  /\ leaving' = leaving \ {t}
  /\ teardown' = [teardown EXCEPT !.awaits = @ \ {t}]
  /\ reg' = IF reg[t] = "joined" /\ px[t] = "none" THEN [reg EXCEPT ![t] = "none"] ELSE reg
  /\ husks' = IF ok THEN husks \ {t} ELSE husks \cup {t}
  /\ UNCHANGED <<linkVars, socketVars, epoch, regEpoch, px, joinVars, genVars, flushVars, gapVars>>

\* doLeave() goes on.  A leave that fails leaves the topic registered; a channel
\* joined in its place since is not touched.
LeaveReply(t, ok) ==
  /\ t \in leaving
  /\ leaving' = leaving \ {t}
  /\ teardown' = [teardown EXCEPT !.awaits = @ \ {t}]
  /\ LET left == reg[t] = "joined" /\ px[t] = "none" IN
     /\ reg' = IF left THEN [reg EXCEPT ![t] = "none"] ELSE reg
     /\ IF ok /\ (left \/ t \in husks)
          THEN /\ husks' = husks \ {t}
               /\ Settle(Without(t))
               /\ buffer' = {e \in buffer : e.topic # t}
          ELSE /\ husks' = IF left THEN husks \cup {t} ELSE husks
               /\ UNCHANGED <<gen, observers, buffer>>
  /\ UNCHANGED <<linkVars, socketVars, epoch, regEpoch, px, joinVars, genCount, buffering,
                 barrier, observing, gapVars>>

----------------------------------------------------------------------------
(* Events, and the reports of a reconnect.                                 *)

\* A topic's event: held back while a reconnect is being recovered.
Message(t) ==
  /\ wire = "open" /\ px[t] = "joined" /\ Current(t)
  /\ IF buffering # 0
       THEN /\ \A e \in buffer : e.topic # t   \* bound: one event of each
            /\ buffer' = buffer \cup {[topic |-> t, lapse |-> lapse[t]]}
            /\ UNCHANGED overtaken
       ELSE /\ overtaken' = IF lapse[t] > caught[t] /\ run.connected THEN overtaken \cup {t} ELSE overtaken
            /\ UNCHANGED buffer
  /\ UNCHANGED <<linkVars, socketVars, epoch, teardown, chanVars, joinVars, genVars, buffering,
                 barrier, observers, observing, lapse, caught>>

\* observerChain: the next snapshot, unless its session's disconnect came first.
ReportStarts ==
  /\ ~observing /\ observers # <<>>
  /\ IF Head(observers).epoch = epoch
       THEN observing' = TRUE /\ UNCHANGED observers
       ELSE observers' = Tail(observers) /\ UNCHANGED observing
  /\ UNCHANGED <<linkVars, socketVars, epoch, teardown, chanVars, joinVars, genVars, buffering,
                 barrier, buffer, gapVars>>

\* Broken variant: any report lifts the barrier, whichever generation it is of.
ReportEndsAnyway ==
  /\ observing
  /\ LET report == Head(observers) IN
     /\ caught' = IF InSession(report.session) THEN [t \in Topics |-> CaughtUp(t)] ELSE caught
     /\ buffering' = 0 /\ barrier' = FALSE /\ buffer' = {}
     /\ joining' = ReleasedJoins
     /\ overtaken' = overtaken \cup
          {e.topic : e \in {x \in buffer : Current(x.topic) /\ x.lapse > caught'[x.topic]}}
  /\ observing' = FALSE /\ observers' = Tail(observers)
  /\ UNCHANGED <<linkVars, socketVars, epoch, teardown, chanVars, joinEpoch, genVars, lapse>>

\* reconcileReconnect() is over: BandLink queues the catch-up, and the generation
\* still being buffered for lets its events and joins go.
ReportEnds ==
  /\ observing
  /\ LET report == Head(observers)
         flush  == report.epoch = epoch /\ report.num = buffering
     IN
     /\ caught' = IF InSession(report.session) THEN [t \in Topics |-> CaughtUp(t)] ELSE caught
     /\ IF flush
          THEN /\ buffering' = 0 /\ barrier' = FALSE /\ buffer' = {}
               /\ joining' = ReleasedJoins
               /\ overtaken' = overtaken \cup
                    {e.topic : e \in {x \in buffer : Current(x.topic) /\ x.lapse > caught'[x.topic]}}
          ELSE UNCHANGED <<buffering, barrier, buffer, joining, overtaken>>
  /\ observing' = FALSE /\ observers' = Tail(observers)
  /\ UNCHANGED <<linkVars, socketVars, epoch, teardown, chanVars, joinEpoch, genVars, lapse>>

----------------------------------------------------------------------------
TransportNext ==
  \/ LinkConnect \/ ConnectGivesUp \/ LinkDisconnect \/ TeardownCloses \/ TeardownEnds
  \/ Open \/ WireDrops \/ Dies \/ Supersede \/ ReportStarts \/ ReportEnds
  \/ \E t \in AllTopics :
       \/ PhoenixRejoins(t) \/ Joined(t) \/ JoinFailed(t)
       \/ \E ok \in BOOLEAN : JoinReplyStale(t, ok) \/ LeaveReply(t, ok)
  \/ \E t \in Topics :
       ChannelDrops(t) \/ Join(t) \/ JoinResumes(t) \/ JoinAfterLeave(t) \/ Leave(t) \/ Message(t)

TransportSpec == TransportInit /\ [][TransportNext]_transportVars

\* What goes on by itself while the socket is open: every Push is answered or times
\* out, Phoenix rejoins, a socket being closed closes, and the reports run.
TransportFairness ==
  /\ WF_transportVars(ReportStarts) /\ WF_transportVars(ReportEnds)
  /\ WF_transportVars(run.closing /\ WireDrops)
  /\ \A t \in AllTopics :
       /\ WF_transportVars(PhoenixRejoins(t))
       /\ WF_transportVars(Joined(t) \/ JoinFailed(t))
       /\ WF_transportVars(\E ok \in BOOLEAN : LeaveReply(t, ok))

----------------------------------------------------------------------------
(* Properties.                                                             *)

\* After a cut-off, whether of the socket or of one channel, no event of a room
\* reaches the agent over a connection in use ahead of the catch-up that makes good
\* what the room missed
\* (PhoenixChannelsTransport.ts:418-419, BandLink.ts:218-222).
CatchUpFirst == overtaken = {}

\* A session leaves nothing behind: once disconnect() is over no channel it made is
\* held, a reconnect's barrier and buffer belong to a live run that is past
\* agent_control, and whatever a join waits on is there to release it.
NothingOutlivesItsSession ==
  /\ teardown = NoTeardown => \A t \in AllTopics : reg[t] # "none" => regEpoch[t] = epoch
  /\ barrier => run.live /\ IsJoined(Control)
  /\ buffer # {} => buffering # 0
  /\ (buffering # 0) = barrier
  /\ \A t \in Topics : /\ joining[t] = "barrier" => barrier
                       /\ joining[t] = "flight" => reg[t] = "pending"

\* A reconnect's recovery ends: on a socket that stays open the events held back and
\* the joins behind the barrier are let go, unless a leave has failed.
RecoveryEnds == []<>(~barrier \/ wire = "closed" \/ husks # {})
=============================================================================
