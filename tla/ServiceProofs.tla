--------------------------- MODULE ServiceProofs ---------------------------
(***************************************************************************)
(* Theorems about the services of MCServices: those that show what they    *)
(* know of the agent and its room (the Claude Code channel, the prompt's   *)
(* context, the participants, Linear's tools), and those that answer or    *)
(* announce (the A2A gateway and adapter, the contacts' hub, OpenClaw's    *)
(* replies, Linear's notifications), for every number of connections,      *)
(* participants, calls, turns, requests, tasks and events.  Each part has  *)
(* an inductive invariant of its own, those of the second kind in          *)
(* AnswerProofs; a behaviour of ServicesSpec is one of the part its        *)
(* initial state picks.                                                    *)
(***************************************************************************)
EXTENDS MCServices, AnswerProofs, FiniteSetTheorems, SequenceTheorems, TLAPS

-----------------------------------------------------------------------------
(* The Claude Code channel.                                                *)

ChannelSession ==
  [attempt : {"none", "asking", "reaching", "gating", "listing", "starting", "settling", "releasing"},
   runtime : Links \cup {0}, working : Links \cup {0}, closed : BOOLEAN, recorded : {"off", "connected"},
   tools : SUBSET {"connect", "band"}]
ChannelLink ==
  [status : {"none", "made", "starting", "running", "stopping", "stopped"},
   serve : {"none", "serving", "lost", "releasing", "relisting", "over"}, listed : BOOLEAN, turn : BOOLEAN]

\* A connection not made yet, and one that is over.
LinkFresh(l) == l.status = "none" /\ l.serve = "none" /\ ~l.listed
LinkIdle(l) == LinkFresh(l) \/ (l.status = "stopped" /\ l.serve = "over")
\* They are made in order.
LinksInOrder == \A m, n \in Links : m < n /\ links[m].status = "none" => links[n].status = "none"

\* The connection there is: how far the attempt is with it, what it serves, what is recorded.
ConnectingAt(s, l) ==
  /\ s.attempt \in {"reaching", "gating", "listing"} /\ l.status = "made" /\ l.serve = "none" /\ ~l.listed
  /\ IF s.attempt = "listing" THEN s.tools = {} /\ s.recorded = "connected" ELSE s.tools = {"connect"} /\ s.recorded = "off"
BandIsServed(s, l) == l.listed /\ s.tools = {"band"} /\ s.recorded = "connected"
ServingAt(s, l) ==
  /\ BandIsServed(s, l)
  /\ \/ s.attempt = "starting" /\ l.status = "starting" /\ l.serve = "none"
     \/ s.attempt \in {"settling", "none"} /\ l.status = "running" /\ l.serve \in {"serving", "lost"}
ReleasingAt(s, l) ==
  /\ l.status \in {"stopping", "stopped"} /\ l.serve = "releasing"
  /\ \/ s.attempt \in {"settling", "none", "releasing"} /\ BandIsServed(s, l)
     \/ s.attempt = "releasing" /\ ~l.listed /\ s.tools = {"connect"} /\ s.recorded = "off"
Attached ==
  /\ cc.runtime # 0
  /\ \A n \in Links : n # cc.runtime => LinkIdle(links[n]) /\ (n > cc.runtime => LinkFresh(links[n]))
  /\ ConnectingAt(cc, links[cc.runtime]) \/ ServingAt(cc, links[cc.runtime]) \/ ReleasingAt(cc, links[cc.runtime])
\* There is none: the session offers to connect, or is about to.
Detached ==
  /\ cc.runtime = 0 /\ cc.recorded = "off" /\ cc.attempt \in {"none", "asking", "settling", "releasing"}
  /\ \/ cc.tools = {"connect"} /\ \A n \in Links : LinkIdle(links[n])
     \/ /\ cc.tools = {} /\ cc.attempt # "asking"
        /\ \E n \in Links :
             /\ links[n].status = "stopped" /\ links[n].serve = "relisting"
             /\ \A m \in Links : m # n => LinkIdle(links[m])
ChannelInv ==
  /\ cc \in ChannelSession
  /\ ~cc.closed => links \in [Links -> ChannelLink] /\ LinksInOrder /\ (Attached \/ Detached)

LEMMA ChannelTells == ChannelInv => StatusTellsTheTruth
<1> SUFFICES ASSUME ChannelInv, ChannelRests
             PROVE  IF cc.recorded = "connected"
                    THEN cc.tools = {"band"} /\ cc.runtime # 0 /\ links[cc.runtime].status = "running"
                    ELSE cc.tools = {"connect"} /\ cc.runtime = 0 /\ \A n \in Links : links[n].status \in {"none", "stopped"}
  BY DEF StatusTellsTheTruth
<1>1. CASE Attached
  <2>1. cc.runtime \in Links
    BY <1>1 DEF Attached, ChannelInv, ChannelSession
  <2> QED BY <1>1, <2>1 DEF ChannelRests, Attached, ConnectingAt, ServingAt, ReleasingAt, BandIsServed
<1>2. CASE Detached
  BY <1>2 DEF ChannelRests, Detached, LinkIdle, LinkFresh
<1> QED BY <1>1, <1>2 DEF ChannelInv, ChannelRests

LEMMA ChannelStarts == ChannelInit => ChannelInv
<1> SUFFICES ASSUME ChannelInit PROVE ChannelInv
  OBVIOUS
<1>1. /\ cc \in ChannelSession /\ links \in [Links -> ChannelLink]
  BY DEF ChannelInit, ChannelSession, ChannelLink
<1>2. \A n \in Links : LinkFresh(links[n])
  BY DEF ChannelInit, LinkFresh
<1>3. Detached
  BY <1>2 DEF ChannelInit, Detached, LinkIdle
<1> QED BY <1>1, <1>2, <1>3 DEF ChannelInv, LinksInOrder, LinkFresh

\* A session that has closed stays so; while it has not, the rest is to be shown.
LEMMA ChannelHolds ==
  ASSUME cc' \in ChannelSession, ~cc'.closed => links' \in [Links -> ChannelLink] /\ LinksInOrder' /\ (Attached' \/ Detached')
  PROVE  ChannelInv'
BY DEF ChannelInv

\* The attempt moves, and no connection does.
LEMMA AttemptMoves ==
  ASSUME ChannelInv, links' = links, NEW s \in ChannelSession, cc' = s,
         ~s.closed => ~cc.closed,
         ~s.closed => Attached' \/ Detached'
  PROVE  ChannelInv'
BY DEF ChannelInv, LinksInOrder

LEMMA AskKeeps == ChannelInv /\ (Asks \/ NotPicked) => ChannelInv'
<1> SUFFICES ASSUME ChannelInv, Asks \/ NotPicked PROVE ChannelInv'
  OBVIOUS
<1>1. links' = links /\ cc \in ChannelSession /\ cc.attempt \in {"none", "asking"}
  BY DEF ChannelInv, Asks, NotPicked
<1>2. /\ cc' \in ChannelSession /\ cc'.closed = cc.closed /\ cc'.runtime = cc.runtime /\ cc'.tools = cc.tools
      /\ cc'.recorded \in {cc.recorded, "off"} /\ cc'.attempt \in {"none", "asking"}
      /\ "connect" \in cc.tools \/ (cc.attempt = "asking" /\ cc'.recorded = cc.recorded)
  BY <1>1 DEF Asks, NotPicked, ChannelSession
<1>3. ASSUME ~cc.closed PROVE Attached' \/ Detached'
  <2>1. ~Attached
    BY <1>1, <1>2 DEF Attached, ConnectingAt, ServingAt, ReleasingAt, BandIsServed
  <2>2. Detached
    BY <1>3, <2>1 DEF ChannelInv
  <2>3. cc.tools = {"connect"} /\ \A n \in Links : LinkIdle(links[n])
    BY <1>2, <2>2 DEF Detached
  <2> QED BY <1>1, <1>2, <2>2, <2>3 DEF Detached
<1> QED BY <1>1, <1>2, <1>3, AttemptMoves

LEMMA ConnectKeeps == ASSUME ChannelInv, NEW n \in Links, Connects(n) PROVE ChannelInv'
<1>1. /\ cc \in ChannelSession /\ links[n].status = "none" /\ \A m \in 1..(n - 1) : links[m].status # "none"
      /\ links' = [links EXCEPT ![n].status = "made"]
  BY DEF ChannelInv, Connects
<1>2. /\ cc' \in ChannelSession /\ cc'.closed = cc.closed /\ cc'.runtime = n /\ cc'.tools = cc.tools
      /\ cc'.recorded = cc.recorded /\ cc'.attempt = "reaching"
  BY <1>1 DEF Connects, ChannelSession
<1>3. ASSUME ~cc.closed PROVE links' \in [Links -> ChannelLink] /\ LinksInOrder' /\ (Attached' \/ Detached')
  <2>0. Links \subseteq Nat /\ n \in Nat \ {0}
    BY DEF Links
  <2>1. links \in [Links -> ChannelLink] /\ LinksInOrder
    BY <1>3 DEF ChannelInv
  <2>2. /\ links' \in [Links -> ChannelLink] /\ \A m \in Links \ {n} : links'[m] = links[m]
        /\ links'[n].status = "made" /\ links'[n].serve = links[n].serve /\ links'[n].listed = links[n].listed
    BY <1>1, <2>1 DEF ChannelLink
  <2>3. LinksInOrder'
    <3> SUFFICES ASSUME NEW m \in Links, NEW k \in Links, m < k, links'[m].status = "none" PROVE links'[k].status = "none"
      BY DEF LinksInOrder
    <3>1. m # n /\ links[m].status = "none"
      BY <2>2
    <3>2. k # n
      <4> SUFFICES ASSUME k = n PROVE FALSE
        OBVIOUS
      <4>1. m \in 1..(n - 1)
        BY <2>0 DEF Links
      <4> QED BY <1>1, <3>1, <4>1
    <3> QED BY <2>1, <2>2, <3>1, <3>2 DEF LinksInOrder
  <2>4. Detached
    <3>1. CASE cc.attempt = "asking"
      BY <1>3, <3>1 DEF ChannelInv, Attached, ConnectingAt, ServingAt, ReleasingAt, BandIsServed
    <3>2. CASE cc.attempt # "asking"
      <4>1. n = 1 /\ \A m \in Links : links[m].status = "none"
        BY <1>1, <2>0, <2>1, <3>2 DEF Connects, LinksInOrder, Links
      <4>2. ~Attached
        BY <1>1, <4>1 DEF Attached, ChannelSession, ConnectingAt, ServingAt, ReleasingAt
      <4> QED BY <1>3, <4>2 DEF ChannelInv
    <3> QED BY <3>1, <3>2
  <2>5. cc.tools = {"connect"} /\ \A m \in Links : LinkIdle(links[m])
    <3>1. CASE cc.attempt = "asking"
      BY <2>4, <3>1 DEF Detached
    <3>2. CASE cc.attempt # "asking"
      <4>1. n = 1 /\ \A m \in Links : links[m].status = "none"
        BY <1>1, <2>0, <2>1, <3>2 DEF Connects, LinksInOrder, Links
      <4> QED BY <2>4, <4>1 DEF Detached
    <3> QED BY <3>1, <3>2
  <2>6. links[n].serve = "none" /\ ~links[n].listed /\ cc.recorded = "off"
    BY <1>1, <2>4, <2>5 DEF LinkIdle, LinkFresh, Detached
  <2>8. \A m \in Links : m > n => LinkFresh(links[m])
    BY <1>1, <2>1, <2>5 DEF LinksInOrder, LinkIdle, LinkFresh
  <2>9. \A m \in Links : m # n => LinkIdle(links'[m]) /\ (m > n => LinkFresh(links'[m]))
    BY <2>2, <2>5, <2>8
  <2>10. ConnectingAt(cc', links'[n])
    BY <1>2, <2>2, <2>5, <2>6 DEF ConnectingAt
  <2>7. Attached'
    BY <1>2, <2>0, <2>9, <2>10 DEF Attached
  <2> QED BY <2>2, <2>3, <2>7
<1> QED BY <1>2, <1>3, ChannelHolds

\* A connection that is not idle is the one there is.
LEMMA BusyIsAttached ==
  ASSUME ChannelInv, ~cc.closed, NEW n \in Links, ~LinkIdle(links[n]), links[n].serve # "relisting"
  PROVE  Attached /\ n = cc.runtime
BY DEF ChannelInv, Attached, Detached

\* The attempt or its connection moves on, where there is one.
LEMMA AttachedMoves ==
  ASSUME ChannelInv, NEW s \in ChannelSession, cc' = s, s.closed = cc.closed,
         ~cc.closed => /\ Attached /\ s.runtime = cc.runtime
                       /\ \E l \in ChannelLink :
                            /\ links' = [links EXCEPT ![cc.runtime] = l] /\ l.status # "none"
                            /\ ConnectingAt(s, l) \/ ServingAt(s, l) \/ ReleasingAt(s, l)
  PROVE  ChannelInv'
<1> SUFFICES ASSUME ~cc.closed PROVE links' \in [Links -> ChannelLink] /\ LinksInOrder' /\ Attached'
  BY ChannelHolds
<1>1. links \in [Links -> ChannelLink] /\ LinksInOrder /\ cc.runtime \in Links
  BY DEF ChannelInv, ChannelSession, Attached
<1>2. PICK l \in ChannelLink :
        /\ links' = [links EXCEPT ![cc.runtime] = l] /\ l.status # "none"
        /\ ConnectingAt(s, l) \/ ServingAt(s, l) \/ ReleasingAt(s, l)
  OBVIOUS
<1>3. links' \in [Links -> ChannelLink] /\ links'[cc.runtime] = l /\ \A m \in Links \ {cc.runtime} : links'[m] = links[m]
  BY <1>1, <1>2
<1>4. links[cc.runtime].status # "none"
  BY DEF Attached, ConnectingAt, ServingAt, ReleasingAt
<1>5. LinksInOrder'
  BY <1>1, <1>2, <1>3, <1>4 DEF LinksInOrder
<1>6. \A n \in Links : n # cc.runtime => LinkIdle(links'[n]) /\ (n > cc.runtime => LinkFresh(links'[n]))
  BY <1>3 DEF Attached
<1> QED BY <1>1, <1>2, <1>3, <1>5, <1>6 DEF Attached

LEMMA LinkItself == ASSUME links \in [Links -> ChannelLink] PROVE \A n \in Links : links = [links EXCEPT ![n] = links[n]]
OBVIOUS

\* What an attempt tells of itself.
LEMMA AttemptIsAttached ==
  ASSUME ChannelInv, ~cc.closed, cc.attempt \in {"reaching", "gating", "listing", "starting"}
  PROVE  /\ Attached /\ cc.runtime \in Links /\ links[cc.runtime] \in ChannelLink /\ links \in [Links -> ChannelLink]
         /\ cc.attempt # "starting" => ConnectingAt(cc, links[cc.runtime])
         /\ cc.attempt = "starting" => ServingAt(cc, links[cc.runtime]) /\ links[cc.runtime].status = "starting"
<1>1. Attached /\ links \in [Links -> ChannelLink]
  BY DEF ChannelInv, Detached
<1>2. cc.runtime \in Links
  BY <1>1 DEF ChannelInv, ChannelSession, Attached
<1> QED BY <1>1, <1>2 DEF Attached, ConnectingAt, ServingAt, ReleasingAt

LEMMA IdentifiedKeeps == ChannelInv /\ (Identified \/ ServerReady \/ ToolsListed) => ChannelInv'
<1> SUFFICES ASSUME ChannelInv, Identified \/ ServerReady \/ ToolsListed PROVE ChannelInv'
  OBVIOUS
<1>1. cc \in ChannelSession
  BY DEF ChannelInv
<1>2. /\ cc' \in ChannelSession /\ cc'.closed = cc.closed /\ cc'.runtime = cc.runtime
      /\ cc.attempt \in {"reaching", "gating", "listing"}
      /\ cc.attempt = "reaching" => cc'.attempt = "gating" /\ cc'.tools = cc.tools /\ cc'.recorded = cc.recorded /\ links' = links
      /\ cc.attempt = "gating" => cc'.attempt = "listing" /\ cc'.tools = cc.tools \ {"connect"} /\ cc'.recorded = "connected" /\ links' = links
      /\ cc.attempt = "listing" => /\ cc'.attempt = "starting" /\ cc'.tools = cc.tools \cup {"band"} /\ cc'.recorded = cc.recorded
                                   /\ links' = [links EXCEPT ![cc.runtime].status = "starting", ![cc.runtime].listed = TRUE]
  <2>1. CASE Identified
    BY <1>1, <2>1 DEF Identified, ChannelSession
  <2>2. CASE ServerReady
    BY <1>1, <2>2 DEF ServerReady, ChannelSession
  <2>3. CASE ToolsListed
    BY <1>1, <2>3 DEF ToolsListed, ChannelSession
  <2> QED BY <2>1, <2>2, <2>3
<1>3. ASSUME ~cc.closed
      PROVE  /\ Attached
             /\ \E l \in ChannelLink :
                  /\ links' = [links EXCEPT ![cc.runtime] = l] /\ l.status # "none"
                  /\ ConnectingAt(cc', l) \/ ServingAt(cc', l) \/ ReleasingAt(cc', l)
  <2>1. /\ Attached /\ cc.runtime \in Links /\ links[cc.runtime] \in ChannelLink /\ links \in [Links -> ChannelLink]
        /\ ConnectingAt(cc, links[cc.runtime])
    BY <1>2, <1>3, AttemptIsAttached
  <2>2. CASE cc.attempt # "listing"
    <3>1. ConnectingAt(cc', links[cc.runtime]) /\ links[cc.runtime].status # "none"
      BY <1>2, <2>1, <2>2 DEF ConnectingAt
    <3> QED BY <1>2, <2>1, <2>2, <3>1, LinkItself
  <2>3. CASE cc.attempt = "listing"
    <3> DEFINE l == [links[cc.runtime] EXCEPT !.status = "starting", !.listed = TRUE]
    <3>1. /\ l \in ChannelLink /\ l.status = "starting" /\ l.listed /\ l.serve = links[cc.runtime].serve
      BY <2>1 DEF ChannelLink
    <3>2. links' = [links EXCEPT ![cc.runtime] = l]
      BY <1>2, <2>1, <2>3
    <3> HIDE DEF l
    <3>3. ServingAt(cc', l)
      BY <1>2, <2>1, <2>3, <3>1 DEF ConnectingAt, ServingAt, BandIsServed
    <3> QED BY <2>1, <3>1, <3>2, <3>3
  <2> QED BY <2>2, <2>3
<1> QED BY <1>2, <1>3, AttachedMoves

LEMMA StartedKeeps == ChannelInv /\ Started => ChannelInv'
<1> SUFFICES ASSUME ChannelInv, Started PROVE ChannelInv'
  OBVIOUS
<1>1. /\ cc \in ChannelSession /\ cc.attempt = "starting"
      /\ links' = [links EXCEPT ![cc.runtime].status = "running", ![cc.runtime].serve = "serving"]
  BY DEF ChannelInv, Started
<1>2. /\ cc' \in ChannelSession /\ cc'.closed = cc.closed /\ cc'.runtime = cc.runtime
      /\ cc'.attempt = "settling" /\ cc'.tools = cc.tools /\ cc'.recorded = cc.recorded
  BY <1>1 DEF Started, ChannelSession
<1>3. ASSUME ~cc.closed
      PROVE  /\ Attached
             /\ \E l \in ChannelLink :
                  /\ links' = [links EXCEPT ![cc.runtime] = l] /\ l.status # "none"
                  /\ ConnectingAt(cc', l) \/ ServingAt(cc', l) \/ ReleasingAt(cc', l)
  <2>1. /\ Attached /\ cc.runtime \in Links /\ links[cc.runtime] \in ChannelLink /\ links \in [Links -> ChannelLink]
        /\ ServingAt(cc, links[cc.runtime])
    BY <1>1, <1>3, AttemptIsAttached
  <2> DEFINE l == [links[cc.runtime] EXCEPT !.status = "running", !.serve = "serving"]
  <2>2. /\ l \in ChannelLink /\ l.status = "running" /\ l.listed = links[cc.runtime].listed /\ l.serve = "serving"
    BY <2>1 DEF ChannelLink
  <2>3. links' = [links EXCEPT ![cc.runtime] = l]
    BY <1>1, <2>1
  <2> HIDE DEF l
  <2>4. ServingAt(cc', l)
    BY <1>2, <2>1, <2>2 DEF ServingAt, BandIsServed
  <2> QED BY <2>1, <2>2, <2>3, <2>4
<1> QED BY <1>2, <1>3, AttachedMoves

\* release(), of the connection there is.
LEMMA ReleaseKeeps ==
  ASSUME ChannelInv, NEW s \in ChannelSession, s.closed = cc.closed, s.runtime = cc.runtime, s.tools = cc.tools, s.recorded = cc.recorded,
         NEW n \in Links, Releases(n, s, "releasing"), ~cc.closed => Attached /\ n = cc.runtime,
         \/ s.attempt = "releasing"
         \/ s.attempt \in {"settling", "none"} /\ (~cc.closed => BandIsServed(cc, links[n])),
         ~cc.closed => BandIsServed(cc, links[n]) \/ (~links[n].listed /\ cc.tools = {"connect"} /\ cc.recorded = "off")
  PROVE  ChannelInv'
<1>1. cc' = s /\ links' = [links EXCEPT ![n] = [Stopping(n) EXCEPT !.serve = "releasing"]]
  BY DEF Releases
<1>2. ASSUME ~cc.closed
      PROVE  \E l \in ChannelLink :
                  /\ links' = [links EXCEPT ![cc.runtime] = l] /\ l.status # "none"
                  /\ ConnectingAt(s, l) \/ ServingAt(s, l) \/ ReleasingAt(s, l)
  <2> DEFINE l == [Stopping(n) EXCEPT !.serve = "releasing"]
  <2>1. links[n] \in ChannelLink
    BY <1>2 DEF ChannelInv
  <2>2. Stopping(n) \in ChannelLink /\ Stopping(n).status \in {"stopping", "stopped"} /\ Stopping(n).listed = links[n].listed
    BY <2>1 DEF Stopping, ChannelLink
  <2>3. l \in ChannelLink /\ l.status \in {"stopping", "stopped"} /\ l.listed = links[n].listed /\ l.serve = "releasing"
    BY <2>2 DEF ChannelLink
  <2> HIDE DEF l
  <2>4. ReleasingAt(s, l)
    BY <1>2, <2>3 DEF ReleasingAt, BandIsServed
  <2> QED BY <1>1, <1>2, <2>3, <2>4 DEF l
<1> QED BY <1>1, <1>2, AttachedMoves

LEMMA FailKeeps == ChannelInv /\ AttemptFails => ChannelInv'
<1> SUFFICES ASSUME ChannelInv, AttemptFails PROVE ChannelInv'
  OBVIOUS
<1> DEFINE s == [cc EXCEPT !.attempt = "releasing"]
<1>1. cc \in ChannelSession /\ cc.attempt \in {"reaching", "starting"} /\ ~cc.closed /\ Releases(cc.runtime, s, "releasing")
  BY DEF ChannelInv, AttemptFails
<1>2. /\ s \in ChannelSession /\ s.closed = cc.closed /\ s.runtime = cc.runtime /\ s.tools = cc.tools /\ s.recorded = cc.recorded
      /\ s.attempt = "releasing"
  BY <1>1 DEF ChannelSession
<1> HIDE DEF s
<1>3. /\ Attached /\ cc.runtime \in Links
      /\ cc.attempt # "starting" => ConnectingAt(cc, links[cc.runtime])
      /\ cc.attempt = "starting" => ServingAt(cc, links[cc.runtime])
  BY <1>1, AttemptIsAttached
<1>4. BandIsServed(cc, links[cc.runtime]) \/ (~links[cc.runtime].listed /\ cc.tools = {"connect"} /\ cc.recorded = "off")
  BY <1>1, <1>3 DEF ConnectingAt, ServingAt
<1> QED BY <1>1, <1>2, <1>3, <1>4, ReleaseKeeps

\* Once closed, a session's record alone is to be shown.
LEMMA ClosedHolds == ASSUME cc' \in ChannelSession, cc'.closed PROVE ChannelInv'
BY DEF ChannelInv

LEMMA AbandonKeeps == ChannelInv /\ AttemptAbandoned => ChannelInv'
<1> SUFFICES ASSUME ChannelInv, AttemptAbandoned PROVE ChannelInv'
  OBVIOUS
<1>1. cc \in ChannelSession
  BY DEF ChannelInv
<1>2. cc' \in ChannelSession /\ cc'.closed
  BY <1>1 DEF AttemptAbandoned, ChannelSession
<1> QED BY <1>2, ClosedHolds

LEMMA CloseKeeps == ChannelInv /\ Closes => ChannelInv'
<1> SUFFICES ASSUME ChannelInv, Closes PROVE ChannelInv'
  OBVIOUS
<1>1. cc \in ChannelSession
  BY DEF ChannelInv
<1>2. cc' \in ChannelSession /\ cc'.closed
  BY <1>1 DEF Closes, ChannelSession
<1> QED BY <1>2, ClosedHolds

LEMMA AttemptEndKeeps == ASSUME ChannelInv, NEW n \in Links, AttemptEnds(n) PROVE ChannelInv'
<1>1. /\ cc \in ChannelSession /\ links' = links /\ cc.attempt \in {"settling", "releasing"}
      /\ links[n].status # "none" /\ \A m \in Links : m > n => links[m].status = "none"
      /\ links[n].serve = "over" \/ (cc.attempt = "settling" /\ cc.runtime = n /\ links[n].status = "running")
  BY DEF ChannelInv, AttemptEnds, Newest, LinksKeep
<1>2. /\ cc' \in ChannelSession /\ cc'.closed = cc.closed /\ cc'.runtime = cc.runtime
      /\ cc'.attempt = "none" /\ cc'.tools = cc.tools /\ cc'.recorded = cc.recorded
  BY <1>1 DEF AttemptEnds, ChannelSession
<1>3. ASSUME ~cc.closed PROVE Attached' \/ Detached'
  <2>1. CASE Detached
    BY <1>1, <1>2, <2>1 DEF Detached
  <2>2. CASE Attached
    <3>0. Links \subseteq Nat
      BY DEF Links
    <3>1. cc.runtime \in Links /\ links[cc.runtime].status # "none" /\ links[cc.runtime].serve # "over" /\ LinksInOrder
      BY <1>1, <1>3, <2>2 DEF Attached, ChannelSession, ConnectingAt, ServingAt, ReleasingAt, ChannelInv
    <3>2. n = cc.runtime
      <4>1. CASE cc.runtime > n
        BY <1>1, <3>1, <4>1
      <4>2. CASE cc.runtime < n
        BY <1>1, <2>2, <3>0, <3>1, <4>2 DEF Attached, LinkFresh
      <4> QED BY <3>0, <3>1, <4>1, <4>2
    <3>3. cc.attempt = "settling" /\ links[cc.runtime].status = "running"
      BY <1>1, <3>1, <3>2
    <3>4. ServingAt(cc, links[cc.runtime])
      BY <2>2, <3>3 DEF Attached, ConnectingAt, ReleasingAt
    <3>5. ServingAt(cc', links[cc.runtime])
      BY <1>2, <3>3, <3>4 DEF ServingAt, BandIsServed
    <3> QED BY <1>1, <1>2, <2>2, <3>5 DEF Attached
  <2> QED BY <1>3, <2>1, <2>2 DEF ChannelInv
<1> QED BY <1>1, <1>2, <1>3, AttemptMoves

LEMMA LostKeeps == ASSUME ChannelInv, NEW n \in Links, ConnectionLost(n) \/ RuntimeStopped(n) PROVE ChannelInv'
<1>1. /\ cc \in ChannelSession /\ cc' = cc
      /\ \/ links[n].serve = "serving" /\ links[n].status = "running" /\ links' = [links EXCEPT ![n].serve = "lost"]
         \/ /\ links[n].status = "stopping"
            /\ links' = [links EXCEPT ![n].status = "stopped", ![n].serve = IF @ = "serving" THEN "over" ELSE @]
  BY DEF ChannelInv, ConnectionLost, RuntimeStopped
<1>2. ASSUME ~cc.closed
      PROVE  /\ Attached
             /\ \E l \in ChannelLink :
                  /\ links' = [links EXCEPT ![cc.runtime] = l] /\ l.status # "none"
                  /\ ConnectingAt(cc, l) \/ ServingAt(cc, l) \/ ReleasingAt(cc, l)
  <2>1. /\ Attached /\ n = cc.runtime /\ links[n] \in ChannelLink /\ links \in [Links -> ChannelLink]
    <3>1. ~LinkIdle(links[n]) /\ links[n].status \in {"running", "stopping"}
      BY <1>1 DEF LinkIdle, LinkFresh
    <3>2. CASE links[n].serve = "relisting"
      BY <1>2, <3>1, <3>2 DEF ChannelInv, Attached, Detached, LinkIdle, LinkFresh, ConnectingAt, ServingAt, ReleasingAt
    <3> QED BY <1>2, <3>1, <3>2, BusyIsAttached DEF ChannelInv
  <2>2. CASE links[n].serve = "serving" /\ links[n].status = "running" /\ links' = [links EXCEPT ![n].serve = "lost"]
    <3> DEFINE l == [links[n] EXCEPT !.serve = "lost"]
    <3>1. l \in ChannelLink /\ l.serve = "lost" /\ l.status = "running" /\ l.listed = links[n].listed
      BY <2>1, <2>2 DEF ChannelLink
    <3>2. links' = [links EXCEPT ![n] = l]
      BY <2>1, <2>2
    <3> HIDE DEF l
    <3>3. ServingAt(cc, l)
      BY <2>1, <2>2, <3>1 DEF Attached, ConnectingAt, ServingAt, ReleasingAt, BandIsServed
    <3> QED BY <2>1, <3>1, <3>2, <3>3
  <2>3. CASE /\ links[n].status = "stopping"
             /\ links' = [links EXCEPT ![n].status = "stopped", ![n].serve = IF @ = "serving" THEN "over" ELSE @]
    <3> DEFINE l == [links[n] EXCEPT !.status = "stopped", !.serve = IF @ = "serving" THEN "over" ELSE @]
    <3>1. links[n].serve = "releasing" /\ ReleasingAt(cc, links[n])
      BY <2>1, <2>3 DEF Attached, ConnectingAt, ServingAt, ReleasingAt
    <3>2. l \in ChannelLink /\ l.serve = "releasing" /\ l.status = "stopped" /\ l.listed = links[n].listed
      BY <2>1, <3>1 DEF ChannelLink
    <3>3. links' = [links EXCEPT ![n] = l]
      BY <2>1, <2>3
    <3> HIDE DEF l
    <3>4. ReleasingAt(cc, l)
      BY <3>1, <3>2 DEF ReleasingAt, BandIsServed
    <3> QED BY <2>1, <3>2, <3>3, <3>4
  <2> QED BY <1>1, <2>2, <2>3
<1> QED BY <1>1, <1>2, AttachedMoves

LEMMA ServeEndKeeps == ASSUME ChannelInv, NEW n \in Links, ServeEnds(n) PROVE ChannelInv'
<1>1. cc \in ChannelSession /\ links[n].serve = "lost"
  BY DEF ChannelInv, ServeEnds
<1>2. CASE cc.closed
  BY <1>1, <1>2, ClosedHolds DEF ServeEnds
<1>3. CASE ~cc.closed
  <2>1. Attached /\ n = cc.runtime
    BY <1>1, <1>3, BusyIsAttached DEF LinkIdle, LinkFresh
  <2>2. BandIsServed(cc, links[n]) /\ cc.attempt \in {"settling", "none"}
    BY <1>1, <2>1 DEF Attached, ConnectingAt, ServingAt, ReleasingAt
  <2>3. Releases(n, cc, "releasing")
    BY <1>3 DEF ServeEnds
  <2> QED BY <1>1, <2>1, <2>2, <2>3, ReleaseKeeps
<1> QED BY <1>2, <1>3

LEMMA ReleasedKeeps == ASSUME ChannelInv, NEW n \in Links, Released(n) PROVE ChannelInv'
<1>1. cc \in ChannelSession /\ links[n].serve = "releasing" /\ links[n].status = "stopped"
  BY DEF ChannelInv, Released
<1>2. CASE cc.closed
  BY <1>1, <1>2, ClosedHolds DEF Released
<1>3. CASE ~cc.closed
  <2>1. /\ Attached /\ n = cc.runtime /\ links \in [Links -> ChannelLink] /\ LinksInOrder
    BY <1>1, <1>3, BusyIsAttached DEF LinkIdle, LinkFresh, ChannelInv
  <2>2. ReleasingAt(cc, links[n])
    BY <1>1, <2>1 DEF Attached, ConnectingAt, ServingAt
  <2>3. /\ cc' \in ChannelSession /\ ~cc'.closed /\ cc'.runtime = 0 /\ cc'.recorded = "off" /\ cc'.attempt = cc.attempt
        /\ cc'.tools = IF links[n].listed THEN cc.tools \ {"band"} ELSE cc.tools
    <3>1. cc' = [cc EXCEPT !.runtime = 0, !.working = 0, !.recorded = "off",
                           !.tools = IF links[n].listed THEN @ \ {"band"} ELSE @]
      BY <1>3 DEF Released
    <3> DEFINE T == IF links[n].listed THEN cc.tools \ {"band"} ELSE cc.tools
    <3>2. T \in SUBSET {"connect", "band"}
      BY <1>1 DEF ChannelSession
    <3>3. cc' = [cc EXCEPT !.runtime = 0, !.working = 0, !.recorded = "off", !.tools = T]
      BY <3>1
    <3> HIDE DEF T
    <3>4. cc' \in ChannelSession /\ cc'.closed = cc.closed /\ cc'.runtime = 0 /\ cc'.recorded = "off" /\ cc'.attempt = cc.attempt /\ cc'.tools = T
      BY <1>1, <3>2, <3>3 DEF ChannelSession
    <3> QED BY <1>3, <3>4 DEF T
  <2>4. /\ links' \in [Links -> ChannelLink] /\ \A m \in Links \ {n} : links'[m] = links[m]
        /\ links'[n].status = "stopped" /\ links'[n].serve = IF links[n].listed THEN "relisting" ELSE "over"
    BY <1>1, <1>3, <2>1 DEF Released, ChannelLink
  <2>5. LinksInOrder'
    BY <1>1, <2>1, <2>4 DEF LinksInOrder
  <2>6. \A m \in Links \ {n} : LinkIdle(links'[m])
    BY <2>1, <2>4 DEF Attached
  <2>7. CASE links[n].listed
    <3>1. cc'.tools = {}
      BY <2>2, <2>3, <2>7 DEF ReleasingAt, BandIsServed
    <3>2. cc'.attempt \in {"none", "settling", "releasing"}
      BY <2>2, <2>3 DEF ReleasingAt
    <3>3. Detached'
      BY <2>3, <2>4, <2>6, <2>7, <3>1, <3>2 DEF Detached
    <3> QED BY <2>3, <2>4, <2>5, <3>3, ChannelHolds
  <2>8. CASE ~links[n].listed
    <3>1. cc'.tools = {"connect"} /\ cc'.attempt = "releasing"
      BY <2>2, <2>3, <2>8 DEF ReleasingAt, BandIsServed
    <3>2. \A m \in Links : LinkIdle(links'[m])
      BY <2>4, <2>6, <2>8 DEF LinkIdle
    <3>3. Detached'
      BY <2>3, <3>1, <3>2 DEF Detached
    <3> QED BY <2>3, <2>4, <2>5, <3>3, ChannelHolds
  <2> QED BY <2>7, <2>8
<1> QED BY <1>2, <1>3

LEMMA RelistedKeeps == ASSUME ChannelInv, NEW n \in Links, Relisted(n) PROVE ChannelInv'
<1>1. cc \in ChannelSession /\ links[n].serve = "relisting" /\ links' = [links EXCEPT ![n].serve = "over"]
  BY DEF ChannelInv, Relisted
<1>2. /\ cc' \in ChannelSession /\ cc'.closed = cc.closed /\ cc'.runtime = cc.runtime /\ cc'.recorded = cc.recorded
      /\ cc'.attempt = cc.attempt /\ (~cc.closed => cc'.tools = cc.tools \cup {"connect"})
  BY <1>1 DEF Relisted, ChannelSession
<1>3. ASSUME ~cc.closed PROVE links' \in [Links -> ChannelLink] /\ LinksInOrder' /\ Detached'
  <2>1. links \in [Links -> ChannelLink] /\ LinksInOrder
    BY <1>3 DEF ChannelInv
  <2>2. ~LinkIdle(links[n])
    BY <1>1 DEF LinkIdle, LinkFresh
  <2>3. Detached
    BY <1>1, <1>3, <2>2 DEF ChannelInv, Attached, ConnectingAt, ServingAt, ReleasingAt
  <2>4. cc.tools = {} /\ links[n].status = "stopped" /\ \A m \in Links : m # n => LinkIdle(links[m])
    BY <2>2, <2>3 DEF Detached
  <2>5. /\ links' \in [Links -> ChannelLink] /\ \A m \in Links \ {n} : links'[m] = links[m]
        /\ links'[n].status = "stopped" /\ links'[n].serve = "over"
    BY <1>1, <2>1, <2>4 DEF ChannelLink
  <2>6. LinksInOrder'
    BY <2>1, <2>4, <2>5 DEF LinksInOrder
  <2>7. \A m \in Links : LinkIdle(links'[m])
    BY <2>4, <2>5 DEF LinkIdle
  <2>8. Detached'
    BY <1>2, <1>3, <2>3, <2>4, <2>7 DEF Detached
  <2> QED BY <2>5, <2>6, <2>8
<1> QED BY <1>2, <1>3, ChannelHolds

\* A turn that pushes changes nothing that the status speaks of.
LEMMA PushKeeps == ASSUME ChannelInv, NEW n \in Links, PushBegins(n) \/ \E ok \in BOOLEAN : PushEnds(n, ok) PROVE ChannelInv'
<1>1. cc \in ChannelSession /\ cc' = cc /\ \E on \in BOOLEAN : links' = [links EXCEPT ![n].turn = on]
  BY DEF ChannelInv, PushBegins, PushEnds
<1>2. ASSUME ~cc.closed PROVE links' \in [Links -> ChannelLink] /\ LinksInOrder' /\ (Attached' \/ Detached')
  <2>1. links \in [Links -> ChannelLink] /\ LinksInOrder /\ (Attached \/ Detached)
    BY <1>2 DEF ChannelInv
  <2>2. /\ links' \in [Links -> ChannelLink]
        /\ \A m \in Links : links'[m].status = links[m].status /\ links'[m].serve = links[m].serve /\ links'[m].listed = links[m].listed
    BY <1>1, <2>1 DEF ChannelLink
  <2>3. LinksInOrder' /\ \A m \in Links : /\ LinkIdle(links[m]) => LinkIdle(links'[m])
                                          /\ LinkFresh(links[m]) => LinkFresh(links'[m])
    BY <2>1, <2>2 DEF LinksInOrder, LinkIdle, LinkFresh
  <2>4. Attached => Attached'
    <3> SUFFICES ASSUME Attached PROVE Attached'
      OBVIOUS
    <3>1. cc.runtime \in Links
      BY <1>1 DEF Attached, ChannelSession
    <3>2. ConnectingAt(cc, links'[cc.runtime]) \/ ServingAt(cc, links'[cc.runtime]) \/ ReleasingAt(cc, links'[cc.runtime])
      BY <2>2, <3>1 DEF Attached, ConnectingAt, ServingAt, ReleasingAt, BandIsServed
    <3> QED BY <1>1, <2>3, <3>2 DEF Attached
  <2>5. Detached => Detached'
    BY <1>1, <2>2, <2>3 DEF Detached
  <2> QED BY <2>1, <2>2, <2>3, <2>4, <2>5
<1> QED BY <1>1, <1>2, ChannelHolds

LEMMA SessionRests == ChannelInv /\ UNCHANGED <<cc, links>> => ChannelInv'
BY DEF ChannelInv, LinksInOrder, Attached, Detached

LEMMA ChannelKept == ChannelInv /\ [ChannelNext]_channelVars => ChannelInv'
<1> SUFFICES ASSUME ChannelInv, [ChannelNext]_channelVars PROVE ChannelInv'
  OBVIOUS
<1>1. CASE Asks \/ NotPicked \/ Identified \/ ServerReady \/ ToolsListed \/ Started \/ AttemptAbandoned \/ AttemptFails \/ Closes
  BY <1>1, AskKeeps, IdentifiedKeeps, StartedKeeps, AbandonKeeps, FailKeeps, CloseKeeps
<1>2. ASSUME NEW n \in Links,
             \/ Connects(n) \/ AttemptEnds(n) \/ ConnectionLost(n) \/ ServeEnds(n) \/ RuntimeStopped(n) \/ Released(n) \/ Relisted(n)
             \/ PushBegins(n) \/ StatusPosted(n) \/ \E ok \in BOOLEAN : PushEnds(n, ok) \/ ReportSent(n, ok)
      PROVE  ChannelInv'
  <2>1. CASE StatusPosted(n) \/ \E ok \in BOOLEAN : ReportSent(n, ok)
    BY <2>1, SessionRests DEF StatusPosted, ReportSent
  <2> QED BY <1>2, <2>1, ConnectKeeps, AttemptEndKeeps, LostKeeps, ServeEndKeeps, ReleasedKeeps, RelistedKeeps, PushKeeps
<1>3. CASE FetchBegins \/ \E f \in DOMAIN fetches, ok \in BOOLEAN : FetchEnds(f, ok)
  BY <1>3, SessionRests DEF FetchBegins, FetchEnds
<1>4. CASE UNCHANGED channelVars
  BY <1>4, SessionRests DEF channelVars
<1> QED BY <1>1, <1>2, <1>3, <1>4 DEF ChannelNext

-----------------------------------------------------------------------------
(* The prompt's context.                                                   *)

PromptStages == {"none", "participants", "details", "failed", "answered"}
ContextEntry == [cached : BOOLEAN, read : Nat, expires : Nat, used : Nat]
PromptAsk == [stage : PromptStages, began : Nat, read : Nat, from : {"none", "cache", "build", "unavailable"}]
PromptType ==
  /\ clock \in Nat /\ contexts \in [PromptRooms -> ContextEntry]
  /\ asks \in [PromptAsks -> [PromptRooms -> PromptAsk]]
\* What is cached expires a TTL after it was read, at most; what is being built was read,
\* if it was, after its request began.
CachedIsYoung == \A r \in PromptRooms : contexts[r].cached => contexts[r].expires <= contexts[r].read + Ttl
BuiltIsRead ==
  \A a \in PromptAsks, r \in PromptRooms :
    asks[a][r].stage \in {"participants", "details"} =>
      asks[a][r].from = "build" /\ asks[a][r].began <= asks[a][r].read /\ asks[a][r].read <= clock
PromptInv == PromptType /\ CachedIsYoung /\ BuiltIsRead /\ PromptsAreCurrent

LEMMA PromptStarts == PromptInit => PromptInv
<1> SUFFICES ASSUME PromptInit PROVE PromptInv
  OBVIOUS
<1>1. PromptType /\ CachedIsYoung /\ BuiltIsRead /\ CacheIsFresh
  BY DEF PromptInit, PromptType, CachedIsYoung, BuiltIsRead, CacheIsFresh, NoContext, NoAsk, ContextEntry, PromptAsk, PromptStages
<1>2. Cached = {}
  BY DEF Cached, PromptInit, NoContext
<1>3. CacheIsBounded
  BY <1>2, FS_EmptySet, PromptAssumption DEF CacheIsBounded
<1> QED
  BY <1>1, <1>3 DEF PromptInv, PromptsAreCurrent

\* A cached set that only loses rooms stays within the limit.
LEMMA FewerCached ==
  ASSUME NEW S \in SUBSET PromptRooms, Cardinality(S) <= MaxContexts, NEW T \in SUBSET S
  PROVE  Cardinality(T) <= MaxContexts
<1>1. IsFiniteSet(S)
  BY PromptAssumption, FS_Subset
<1>2. Cardinality(T) <= Cardinality(S) /\ IsFiniteSet(T) /\ Cardinality(T) \in Nat /\ Cardinality(S) \in Nat
  BY <1>1, FS_Subset, FS_CardinalityType
<1> QED
  BY <1>2, PromptAssumption

\* One room too many, and then one room less.
LEMMA EvictionHolds ==
  ASSUME NEW held \in [PromptRooms -> ContextEntry], NEW r0 \in PromptRooms,
         Cardinality({r \in PromptRooms : held[r].cached} \ {r0}) <= MaxContexts,
         NEW kept \in Evicted(held)
  PROVE  /\ kept \in [PromptRooms -> ContextEntry]
         /\ \A r \in PromptRooms : kept[r] \in {held[r], NoContext}
         /\ Cardinality({r \in PromptRooms : kept[r].cached}) <= MaxContexts
<1> DEFINE full == {r \in PromptRooms : held[r].cached}
           oldest == {r \in full : \A q \in full : held[r].used <= held[q].used}
<1>1. IsFiniteSet(full) /\ Cardinality(full) \in Nat
  BY PromptAssumption, FS_Subset, FS_CardinalityType
<1>2. CASE Cardinality(full) <= MaxContexts
  BY <1>2 DEF Evicted
<1>3. CASE ~(Cardinality(full) <= MaxContexts)
  <2>1. PICK r \in oldest : kept = [held EXCEPT ![r] = NoContext]
    BY <1>3 DEF Evicted
  <2>2. r \in full /\ r \in PromptRooms
    OBVIOUS
  <2>3. kept \in [PromptRooms -> ContextEntry] /\ \A q \in PromptRooms : kept[q] \in {held[q], NoContext}
    BY <2>1, <2>2 DEF ContextEntry, NoContext
  <2>4. {q \in PromptRooms : kept[q].cached} = full \ {r}
    BY <2>1, <2>2 DEF NoContext
  <2>5. Cardinality(full \ {r}) = Cardinality(full) - 1
    BY <1>1, <2>2, FS_RemoveElement
  <2>6. Cardinality(full) <= MaxContexts + 1
    <3>1. r0 \in full
      <4> SUFFICES ASSUME r0 \notin full PROVE FALSE
        OBVIOUS
      <4>1. full \ {r0} = full
        OBVIOUS
      <4> QED
        BY <4>1, <1>3
    <3>2. Cardinality(full \ {r0}) = Cardinality(full) - 1
      BY <1>1, <3>1, FS_RemoveElement
    <3> QED
      BY <3>2, <1>1, PromptAssumption
  <2>7. MaxContexts \in Nat
    BY PromptAssumption
  <2> HIDE DEF full
  <2>8. Cardinality(full \ {r}) <= MaxContexts
    BY <2>5, <2>6, <2>7, <1>1
  <2>9. Cardinality({q \in PromptRooms : kept[q].cached}) <= MaxContexts
    BY <2>4, <2>8, Zenon
  <2> QED
    BY <2>3, <2>9, Zenon
<1> QED
  BY <1>2, <1>3

LEMMA PromptKept == PromptInv /\ [PromptNext]_promptVars => PromptInv'
<1> SUFFICES ASSUME PromptInv, [PromptNext]_promptVars PROVE PromptInv'
  OBVIOUS
<1> USE PromptAssumption DEF PromptInv, PromptsAreCurrent
<1>1. CASE Ticks
  BY <1>1 DEF Ticks, PromptType, CachedIsYoung, BuiltIsRead, CacheIsFresh, CacheIsBounded, Cached, PromptAsk
<1>2. ASSUME NEW a \in PromptAsks, NEW r \in PromptRooms, RequestComes(a, r) PROVE PromptInv'
  <2>1. CASE FreshContext(r)
    <3>1. /\ contexts' = [contexts EXCEPT ![r].used = clock] /\ clock' = clock
          /\ asks' = [asks EXCEPT ![a][r] = [stage |-> "answered", began |-> clock, read |-> contexts[r].read,
                                             from |-> "cache"]]
      BY <1>2, <2>1 DEF RequestComes
    <3>2. Cached' = Cached
      BY <3>1 DEF Cached, PromptType, ContextEntry
    <3>3. PromptType' /\ CachedIsYoung' /\ BuiltIsRead'
      BY <3>1 DEF PromptType, CachedIsYoung, BuiltIsRead, ContextEntry, PromptAsk, PromptStages
    <3>4. CacheIsFresh'
      BY <3>1, <2>1 DEF CacheIsFresh, PromptType, CachedIsYoung, FreshContext, ContextEntry, PromptAsk
    <3> QED
      BY <3>2, <3>3, <3>4 DEF CacheIsBounded
  <2>2. CASE ~FreshContext(r)
    <3>1. contexts' = [contexts EXCEPT ![r] = NoContext] /\ clock' = clock
      BY <1>2, <2>2 DEF RequestComes
    <3>2. PICK identified \in BOOLEAN :
            asks' = [asks EXCEPT ![a][r] = [stage |-> IF identified THEN "participants" ELSE "answered", began |-> clock,
                                            read |-> clock, from |-> IF identified THEN "build" ELSE "unavailable"]]
      BY <1>2, <2>2 DEF RequestComes
    <3>3. Cached' \subseteq Cached
      BY <3>1 DEF Cached, PromptType, NoContext
    <3>4. CacheIsBounded'
      BY <3>3, FewerCached DEF CacheIsBounded, Cached
    <3>5. PromptType' /\ CachedIsYoung' /\ BuiltIsRead' /\ CacheIsFresh'
      BY <3>1, <3>2 DEF PromptType, CachedIsYoung, BuiltIsRead, ContextEntry, PromptAsk, PromptStages, NoContext, CacheIsFresh
    <3> QED
      BY <3>4, <3>5
  <2> QED
    BY <2>1, <2>2
<1>3. ASSUME NEW a \in PromptAsks, NEW r \in PromptRooms, Reads(a, r) PROVE PromptInv'
  BY <1>3 DEF Reads, PromptType, CachedIsYoung, BuiltIsRead, PromptAsk, PromptStages, CacheIsFresh, CacheIsBounded, Cached
<1>4. ASSUME NEW a \in PromptAsks, NEW r \in PromptRooms, ReadFails(a, r) PROVE PromptInv'
  BY <1>4 DEF ReadFails, PromptType, CachedIsYoung, BuiltIsRead, PromptAsk, PromptStages, CacheIsFresh, CacheIsBounded, Cached
<1>5. ASSUME NEW a \in PromptAsks, NEW r \in PromptRooms, Built(a, r) PROVE PromptInv'
  <2> DEFINE held == Entered(a, r)
  <2>1. /\ contexts' \in Evicted(held) /\ clock' = clock /\ asks' = [asks EXCEPT ![a][r].stage = "answered"]
        /\ asks[a][r].stage = "details"
    BY <1>5 DEF Built
  <2>2. /\ held \in [PromptRooms -> ContextEntry] /\ \A q \in PromptRooms : q # r => held[q] = contexts[q]
        /\ held[r].expires <= held[r].read + Ttl
    BY <2>1 DEF Entered, Expires, PromptType, ContextEntry, PromptAsk, BuiltIsRead
  <2>3. {q \in PromptRooms : held[q].cached} \ {r} \subseteq Cached
    BY <2>2 DEF Cached
  <2>4. Cardinality({q \in PromptRooms : held[q].cached} \ {r}) <= MaxContexts
    BY <2>3, FewerCached DEF CacheIsBounded, Cached
  <2>5. /\ contexts' \in [PromptRooms -> ContextEntry] /\ \A q \in PromptRooms : contexts'[q] \in {held[q], NoContext}
        /\ Cardinality({q \in PromptRooms : contexts'[q].cached}) <= MaxContexts
    BY <2>1, <2>2, <2>4, EvictionHolds
  <2>6. CacheIsBounded'
    BY <2>5 DEF CacheIsBounded, Cached
  <2>7. CachedIsYoung'
    BY <2>2, <2>5 DEF CachedIsYoung, NoContext
  <2>8. PromptType'
    <3> DEFINE answer == [asks[a][r] EXCEPT !.stage = "answered"]
    <3>1. asks' = [asks EXCEPT ![a] = [asks[a] EXCEPT ![r] = answer]] /\ clock' \in Nat
      BY <2>1 DEF PromptType
    <3>0. asks[a][r] \in PromptAsk
      BY DEF PromptType
    <3>2. answer \in PromptAsk
      BY <3>0 DEF PromptAsk, PromptStages
    <3> HIDE DEF answer
    <3>3. asks' \in [PromptAsks -> [PromptRooms -> PromptAsk]]
      BY <3>1, <3>2 DEF PromptType
    <3> QED
      BY <2>5, <3>1, <3>3, Zenon DEF PromptType
  <2>9. BuiltIsRead' /\ CacheIsFresh'
    BY <2>1 DEF PromptType, BuiltIsRead, CacheIsFresh, PromptAsk, PromptStages
  <2> QED
    BY <2>6, <2>7, <2>8, <2>9
<1>6. CASE UNCHANGED promptVars
  BY <1>6 DEF promptVars, PromptType, CachedIsYoung, BuiltIsRead, CacheIsFresh, CacheIsBounded, Cached
<1> QED
  BY <1>1, <1>2, <1>3, <1>4, <1>5, <1>6 DEF PromptNext

-----------------------------------------------------------------------------
(* The participants.                                                       *)

ToolStages == {"none", "syncing", "fetching", "posting", "looking", "asking", "changed", "over"}
Underway == {"syncing", "fetching", "posting", "looking", "asking", "changed"}
BandAnswer == [said : SUBSET Participants, missed : SUBSET Participants]
RosterCall ==
  [kind : {"none", "send", "add", "remove"}, of : Participants \cup {"nobody"}, stage : ToolStages,
   answer : BandAnswer, in : BOOLEAN, out : BOOLEAN,
   outcome : {"none", "absent", "already", "sent", "failed", "unsupported", "unknown", "done"}]
WireEvent == [who : Participants, joined : BOOLEAN]
RosterType ==
  /\ room \in SUBSET Participants /\ wire \in Seq(WireEvent) /\ roster \in SUBSET Participants
  /\ hydration \in [stage : {"none", "asked", "over"}, answer : BandAnswer]
  /\ call \in [ToolCallIds -> RosterCall] /\ doubt \in SUBSET Participants

\* The last event of a participant on its way says what Band says.
NoneOf(w, p) == \A i \in 1..Len(w) : w[i].who # p
WireIsTrue(w, r) ==
  \A i \in 1..Len(w) : (\A j \in 1..Len(w) : i < j => w[j].who # w[i].who) => (w[i].joined <=> w[i].who \in r)
\* So does an answer on its way to the roster, of whoever no event came since, nor comes.
Holds(answer, w, r) == \A p \in Participants \ answer.missed : NoneOf(w, p) => (p \in answer.said <=> p \in r)
\* A call knows of its participant what was so since it began, and so do its answers.
CallSees(k, w, r) ==
  /\ k.stage # "over" => k.outcome = "none"
  /\ k.outcome = "absent" => k.out
  /\ k.outcome = "already" => k.in
  /\ k.stage \in Underway =>
       /\ k.of \in Participants /\ k.kind # "none"
       /\ k.of \in r => k.in
       /\ k.of \notin r => k.out
  /\ k.stage \in Underway \ {"changed"} =>
       /\ k.of \in k.answer.said => k.in
       /\ k.of \notin k.answer.said => k.out
  /\ k.stage = "syncing" => Holds(k.answer, w, r)
  /\ k.stage = "changed" /\ k.of \notin k.answer.missed /\ NoneOf(w, k.of) => (k.kind = "add" <=> k.of \in r)
RosterOwed(ros, d, w, r) == \A p \in Participants \ d : NoneOf(w, p) => (p \in ros <=> p \in r)
RosterCalls ==
  /\ WireIsTrue(wire, room) /\ RosterOwed(roster, doubt, wire, room)
  /\ hydration.stage = "asked" => Holds(hydration.answer, wire, room)
  /\ \A c \in ToolCallIds : CallSees(call[c], wire, room)
RosterFits == RosterType /\ RosterCalls

LEMMA RosterIsTrue == RosterFits => RosterIsSound
BY DEF RosterFits, RosterCalls, CallSees, RosterOwed, NoneOf, RosterIsSound, RosterFollows, AnswersWereTrue

LEMMA RosterStarts == ToolsInit => RosterFits
BY DEF ToolsInit, RosterFits, RosterType, RosterCalls, WireIsTrue, RosterOwed, NoneOf, Holds, CallSees, NoCall, NoAnswer, Answer,
       RosterCall, BandAnswer, ToolStages, Underway

LEMMA WireGrows ==
  ASSUME NEW w \in Seq(WireEvent), NEW r \in SUBSET Participants, NEW e \in WireEvent, NEW q,
         WireIsTrue(w, r), q = IF e.joined THEN r \cup {e.who} ELSE r \ {e.who}
  PROVE  /\ Append(w, e) \in Seq(WireEvent) /\ WireIsTrue(Append(w, e), q)
         /\ q \in SUBSET Participants
         /\ \A p : NoneOf(Append(w, e), p) => NoneOf(w, p) /\ p # e.who
         /\ \A p : p # e.who => (p \in r <=> p \in q)
         /\ e.who \in q <=> e.joined
<1> DEFINE v == Append(w, e)
<1>1. /\ v \in Seq(WireEvent) /\ Len(v) = Len(w) + 1 /\ v[Len(v)] = e /\ Len(w) \in Nat
      /\ \A i \in 1..Len(w) : v[i] = w[i] /\ i \in 1..Len(v) /\ i < Len(v)
      /\ \A i \in 1..Len(v) : i \in 1..Len(w) \/ i = Len(v)
  OBVIOUS
<1>2. /\ \A p : NoneOf(v, p) => NoneOf(w, p) /\ p # e.who
  BY <1>1 DEF NoneOf
<1>3. /\ q \in SUBSET Participants /\ \A p : p # e.who => (p \in r <=> p \in q)
      /\ e.who \in q <=> e.joined
  BY DEF WireEvent
<1>4. WireIsTrue(v, q)
  <2> SUFFICES ASSUME NEW i \in 1..Len(v), \A j \in 1..Len(v) : i < j => v[j].who # v[i].who
               PROVE  v[i].joined <=> v[i].who \in q
    BY DEF WireIsTrue
  <2>1. CASE i = Len(v)
    BY <2>1, <1>1, <1>3
  <2>2. CASE i \in 1..Len(w)
    <3> HIDE DEF v
    <3>1. v[i] = w[i] /\ w[i].who # e.who
      BY <2>2, <1>1
    <3>2. \A j \in 1..Len(w) : i < j => w[j].who # w[i].who
      BY <2>2, <1>1
    <3>3. w[i].joined <=> w[i].who \in r
      BY <3>2, <2>2 DEF WireIsTrue
    <3> QED
      BY <3>1, <3>3, <1>3
  <2> QED
    BY <2>1, <2>2, <1>1
<1> QED
  BY <1>1, <1>2, <1>3, <1>4

LEMMA WireShrinks ==
  ASSUME NEW w \in Seq(WireEvent), NEW r \in SUBSET Participants, WireIsTrue(w, r), w # <<>>
  PROVE  /\ Tail(w) \in Seq(WireEvent) /\ WireIsTrue(Tail(w), r) /\ Head(w) \in WireEvent
         /\ NoneOf(Tail(w), Head(w).who) => (Head(w).joined <=> Head(w).who \in r)
         /\ \A p : p # Head(w).who => (NoneOf(Tail(w), p) => NoneOf(w, p))
<1> DEFINE v == Tail(w)
<1>1. /\ v \in Seq(WireEvent) /\ Len(v) = Len(w) - 1 /\ Head(w) = w[1] /\ Len(w) \in Nat \ {0} /\ Head(w) \in WireEvent
      /\ \A i \in 1..Len(v) : v[i] = w[i + 1] /\ i + 1 \in 1..Len(w)
      /\ \A i \in 1..Len(w) : i = 1 \/ (i - 1 \in 1..Len(v) /\ w[i] = v[i - 1])
  OBVIOUS
<1> HIDE DEF v
<1>2. WireIsTrue(v, r)
  <2> SUFFICES ASSUME NEW i \in 1..Len(v), \A j \in 1..Len(v) : i < j => v[j].who # v[i].who
               PROVE  v[i].joined <=> v[i].who \in r
    BY DEF WireIsTrue
  <2>1. ASSUME NEW j \in 1..Len(w), i + 1 < j PROVE w[j].who # w[i + 1].who
    <3>1. j - 1 \in 1..Len(v) /\ w[j] = v[j - 1] /\ i < j - 1
      BY <2>1, <1>1
    <3> QED
      BY <3>1, <1>1
  <2> QED
    BY <2>1, <1>1 DEF WireIsTrue
<1>3. NoneOf(v, Head(w).who) => (Head(w).joined <=> Head(w).who \in r)
  <2> SUFFICES ASSUME NoneOf(v, Head(w).who) PROVE Head(w).joined <=> Head(w).who \in r
    OBVIOUS
  <2>1. \A j \in 1..Len(w) : 1 < j => w[j].who # w[1].who
    BY <1>1 DEF NoneOf
  <2> QED
    BY <2>1, <1>1 DEF WireIsTrue
<1>4. \A p : p # Head(w).who => (NoneOf(v, p) => NoneOf(w, p))
  BY <1>1 DEF NoneOf
<1> QED
  BY <1>1, <1>2, <1>3, <1>4 DEF v

\* A call that began, one that goes on with a new answer, and one that is over.
LEMMA NoCallIs ==
  /\ NoCall \in RosterCall /\ NoCall.kind = "none" /\ NoCall.of = "nobody" /\ NoCall.stage = "none"
  /\ NoCall.outcome = "none"
BY DEF NoCall, NoAnswer, Answer, RosterCall, BandAnswer, ToolStages

LEMMA CallsBegun ==
  ASSUME RosterFits, NEW c \in ToolCallIds, NEW stage \in Underway \ {"changed"}, NEW kind \in {"send", "add", "remove"},
         NEW p \in Participants, Calls(c, stage, kind, p)
  PROVE  call' \in [ToolCallIds -> RosterCall] /\ \A d \in ToolCallIds : CallSees(call'[d], wire, room)
<1> DEFINE k == [NoCall EXCEPT !.kind = kind, !.of = p, !.stage = stage, !.answer = Answer(room), !.in = p \in room, !.out = p \notin room]
<1>0. Answer(room) \in BandAnswer /\ Answer(room).said = room /\ Answer(room).missed = {}
  BY DEF Answer, BandAnswer, RosterFits, RosterType
<1>1. /\ k.kind = kind /\ k.of = p /\ k.stage = stage /\ k.answer = Answer(room)
      /\ k.in = (p \in room) /\ k.out = (p \notin room) /\ k.outcome = "none"
  BY NoCallIs DEF RosterCall
<1>2. k \in RosterCall
  <2> DEFINE a == Answer(room)
             seen == p \in room
             gone == p \notin room
  <2>1. a \in BandAnswer /\ seen \in BOOLEAN /\ gone \in BOOLEAN /\ stage \in ToolStages
    BY <1>0 DEF ToolStages, Underway
  <2>2. k = [NoCall EXCEPT !.kind = kind, !.of = p, !.stage = stage, !.answer = a, !.in = seen, !.out = gone]
    OBVIOUS
  <2> HIDE DEF a, seen, gone, k
  <2> QED BY NoCallIs, <2>1, <2>2 DEF RosterCall
<1>4. call' = [call EXCEPT ![c] = k]
  BY DEF Calls
<1> HIDE DEF k
<1>3. CallSees(k, wire, room)
  BY <1>0, <1>1 DEF CallSees, Holds, Underway
<1> QED
  BY <1>2, <1>3, <1>4 DEF RosterFits, RosterType, RosterCalls

LEMMA CallsProceed ==
  ASSUME RosterFits, NEW c \in ToolCallIds, NEW stage \in {"posting", "looking", "asking"}, Proceeds(c, stage),
         call[c].stage \in Underway
  PROVE  call' \in [ToolCallIds -> RosterCall] /\ \A d \in ToolCallIds : CallSees(call'[d], wire, room)
<1> DEFINE k == [call[c] EXCEPT !.stage = stage, !.answer = Answer(room)]
<1>1. call[c] \in RosterCall /\ CallSees(call[c], wire, room) /\ room \in SUBSET Participants
  BY DEF RosterFits, RosterType, RosterCalls
<1>2. k \in RosterCall
  BY <1>1 DEF Answer, RosterCall, BandAnswer, ToolStages
<1>3. /\ k.stage = stage /\ k.answer = [said |-> room, missed |-> {}] /\ k.of = call[c].of /\ k.kind = call[c].kind
      /\ k.in = call[c].in /\ k.out = call[c].out /\ k.outcome = call[c].outcome
  BY <1>1 DEF Answer, RosterCall
<1> HIDE DEF k
<1>4. CallSees(k, wire, room)
  BY <1>1, <1>3 DEF CallSees, Underway
<1>5. call' = [call EXCEPT ![c] = k]
  BY DEF Proceeds, k, RosterFits, RosterType
<1> QED
  BY <1>2, <1>4, <1>5 DEF RosterFits, RosterType, RosterCalls

LEMMA CallsOver ==
  ASSUME RosterFits, NEW c \in ToolCallIds, NEW outcome \in {"absent", "already", "sent", "failed", "unsupported", "unknown", "done"},
         Answered(c, outcome), call[c].stage \in Underway,
         outcome = "absent" => call[c].out, outcome = "already" => call[c].in
  PROVE  call' \in [ToolCallIds -> RosterCall] /\ \A d \in ToolCallIds : CallSees(call'[d], wire, room)
<1> DEFINE k == [NoCall EXCEPT !.stage = "over", !.outcome = outcome, !.in = call[c].in, !.out = call[c].out]
<1>1. call[c] \in RosterCall
  BY DEF RosterFits, RosterType
<1>2. k.stage = "over" /\ k.in = call[c].in /\ k.out = call[c].out /\ k.outcome = outcome
  BY NoCallIs DEF RosterCall
<1>3. k \in RosterCall
  BY <1>1, NoCallIs DEF RosterCall, ToolStages
<1>4. CallSees(k, wire, room)
  BY <1>2 DEF CallSees, Underway
<1>5. call' = [call EXCEPT ![c] = k]
  BY DEF Answered
<1> HIDE DEF k
<1> QED
  BY <1>3, <1>4, <1>5 DEF RosterFits, RosterType, RosterCalls

\* Band changes the room, and an event says so.
LEMMA BandMoves ==
  ASSUME RosterFits, NEW e \in WireEvent, NEW calls \in [ToolCallIds -> RosterCall],
         room' = IF e.joined THEN room \cup {e.who} ELSE room \ {e.who},
         wire' = Append(wire, e), call' = Seen(calls, room'),
         UNCHANGED <<roster, hydration, doubt>>,
         \A c \in ToolCallIds :
           \/ calls[c] = call[c]
           \/ /\ calls[c].stage = "changed" /\ call[c].stage = "asking" /\ calls[c].of = call[c].of /\ calls[c].kind = call[c].kind
              /\ calls[c].in = call[c].in /\ calls[c].out = call[c].out /\ calls[c].outcome = call[c].outcome
              /\ calls[c].of = e.who
  PROVE  RosterFits'
<1> DEFINE w == Append(wire, e)
<1> DEFINE q == IF e.joined THEN room \cup {e.who} ELSE room \ {e.who}
<1>1. /\ wire \in Seq(WireEvent) /\ room \in SUBSET Participants /\ WireIsTrue(wire, room)
  BY DEF RosterFits, RosterType, RosterCalls
<1>2. /\ w \in Seq(WireEvent) /\ WireIsTrue(w, q) /\ q \in SUBSET Participants
      /\ \A p : NoneOf(w, p) => NoneOf(wire, p) /\ p # e.who
      /\ \A p : p # e.who => (p \in room <=> p \in q)
  BY <1>1, WireGrows
<1> HIDE DEF w, q
<1>3. wire' = w /\ room' = q
  BY DEF w, q
<1>4. \A a : Holds(a, wire, room) => Holds(a, w, q)
  BY <1>2 DEF Holds
<1>5. RosterOwed(roster, doubt, w, q)
  BY <1>2 DEF RosterFits, RosterCalls, RosterOwed
<1>6. \A c \in ToolCallIds : CallSees(call[c], wire, room) /\ call[c] \in RosterCall
  BY DEF RosterFits, RosterCalls, RosterType
<1>7. ASSUME NEW c \in ToolCallIds PROVE call'[c] \in RosterCall /\ CallSees(call'[c], w, q)
  <2> DEFINE k == calls[c]
             m == [k EXCEPT !.in = @ \/ k.of \in q, !.out = @ \/ k.of \notin q]
  <2>1. k \in RosterCall
    OBVIOUS
  <2>2. call'[c] = IF k.stage \in {"none", "over"} THEN k ELSE m
    BY <1>3 DEF Seen
  <2>3. CASE k.stage \in {"none", "over"}
    <3>1. k = call[c]
      BY <2>3
    <3> QED
      BY <2>1, <2>2, <2>3, <3>1, <1>6 DEF CallSees, Underway
  <2>4. CASE k.stage \notin {"none", "over"}
    <3> HIDE DEF k
    <3>1. /\ m.kind = k.kind /\ m.of = k.of /\ m.stage = k.stage /\ m.answer = k.answer /\ m.outcome = k.outcome
          /\ m.in = (k.in \/ k.of \in q) /\ m.out = (k.out \/ k.of \notin q)
      BY <2>1 DEF RosterCall
    <3>2. m \in RosterCall
      BY <2>1 DEF RosterCall
    <3> HIDE DEF m
    <3>3. CASE k = call[c]
      <4>1. CallSees(k, wire, room)
        BY <3>3, <1>6
      <4>2. m.of # e.who => (m.of \in room <=> m.of \in q) /\ (NoneOf(w, m.of) => NoneOf(wire, m.of))
        BY <1>2
      <4>3. NoneOf(w, m.of) => m.of # e.who
        BY <1>2
      <4>4. /\ m.stage # "over" => m.outcome = "none"
            /\ m.outcome = "absent" => m.out
            /\ m.outcome = "already" => m.in
        BY <4>1, <3>1 DEF CallSees
      <4>5. m.stage \in Underway =>
              /\ m.of \in Participants /\ m.kind # "none"
              /\ m.of \in q => m.in
              /\ m.of \notin q => m.out
        BY <4>1, <3>1 DEF CallSees
      <4>6. m.stage \in Underway \ {"changed"} =>
              /\ m.of \in m.answer.said => m.in
              /\ m.of \notin m.answer.said => m.out
        BY <4>1, <3>1 DEF CallSees
      <4>7. m.stage = "syncing" => Holds(m.answer, w, q)
        BY <4>1, <3>1, <1>4 DEF CallSees
      <4>8. m.stage = "changed" /\ m.of \notin m.answer.missed /\ NoneOf(w, m.of) => (m.kind = "add" <=> m.of \in q)
        BY <4>1, <4>2, <4>3, <3>1 DEF CallSees
      <4>9. CallSees(m, w, q)
        BY <4>4, <4>5, <4>6, <4>7, <4>8 DEF CallSees
      <4> QED
        BY <4>9, <3>2, <2>2, <2>4
    <3>4. CASE k # call[c]
      <4>1. /\ k.stage = "changed" /\ call[c].stage = "asking" /\ k.of = call[c].of /\ k.kind = call[c].kind
            /\ k.in = call[c].in /\ k.out = call[c].out /\ k.outcome = call[c].outcome /\ k.of = e.who
        BY <3>4 DEF k
      <4>2. CallSees(call[c], wire, room)
        BY <1>6
      <4>3. /\ m.stage = "changed" /\ m.of = e.who /\ m.outcome = "none" /\ m.of \in Participants /\ m.kind # "none"
        BY <4>1, <4>2, <3>1 DEF CallSees, Underway
      <4>4. (m.of \in q => m.in) /\ (m.of \notin q => m.out)
        BY <3>1
      <4>5. ~NoneOf(w, m.of)
        BY <4>3, <1>2
      <4>6. CallSees(m, w, q)
        BY <4>3, <4>4, <4>5 DEF CallSees, Underway
      <4> QED
        BY <4>6, <3>2, <2>2, <2>4
    <3> QED
      BY <3>3, <3>4
  <2> QED
    BY <2>3, <2>4
<1>8. call' \in [ToolCallIds -> RosterCall]
  <2>1. call' = [c \in ToolCallIds |-> call'[c]]
    BY DEF Seen
  <2> QED
    BY <2>1, <1>7
<1>9. hydration.stage = "asked" => Holds(hydration.answer, w, q)
  BY <1>4 DEF RosterFits, RosterCalls
<1> QED
  BY <1>2, <1>3, <1>5, <1>7, <1>8, <1>9 DEF RosterFits, RosterType, RosterCalls

\* The room and its events stay as they are.
LEMMA RosterHolds ==
  ASSUME RosterFits, UNCHANGED <<room, wire>>,
         roster' \in SUBSET Participants, doubt' \in SUBSET Participants, RosterOwed(roster', doubt', wire, room),
         hydration' \in [stage : {"none", "asked", "over"}, answer : BandAnswer],
         hydration'.stage = "asked" => Holds(hydration'.answer, wire, room),
         call' \in [ToolCallIds -> RosterCall], \A d \in ToolCallIds : CallSees(call'[d], wire, room)
  PROVE  RosterFits'
BY DEF RosterFits, RosterType, RosterCalls

\* Neither does the roster move: a call does.
LEMMA CallMoves ==
  ASSUME RosterFits, UNCHANGED <<room, wire, roster, hydration, doubt>>,
         call' \in [ToolCallIds -> RosterCall], \A d \in ToolCallIds : CallSees(call'[d], wire, room)
  PROVE  RosterFits'
BY DEF RosterFits, RosterType, RosterCalls

LEMMA EventKeeps == RosterFits /\ EventArrives => RosterFits'
<1> SUFFICES ASSUME RosterFits, EventArrives PROVE RosterFits'
  OBVIOUS
<1> DEFINE e == Head(wire)
           p == e.who
<1>1. /\ wire # <<>> /\ wire \in Seq(WireEvent) /\ room \in SUBSET Participants /\ WireIsTrue(wire, room)
      /\ room' = room /\ wire' = Tail(wire)
  BY DEF EventArrives, RosterFits, RosterType, RosterCalls
<1>2. /\ wire' \in Seq(WireEvent) /\ WireIsTrue(wire', room) /\ e \in WireEvent /\ p \in Participants
      /\ NoneOf(wire', p) => (e.joined <=> p \in room)
      /\ \A q : q # p => (NoneOf(wire', q) => NoneOf(wire, q))
  BY <1>1, WireShrinks DEF WireEvent
<1>3. /\ roster' = IF e.joined THEN roster \cup {p} ELSE roster \ {p}
      /\ doubt' = doubt \ {p}
      /\ hydration' = IF hydration.stage = "asked" THEN [hydration EXCEPT !.answer.missed = @ \cup {p}] ELSE hydration
      /\ call' = [c \in ToolCallIds |-> IF Writes(c) THEN [call[c] EXCEPT !.answer.missed = @ \cup {p}] ELSE call[c]]
  BY DEF EventArrives
<1> HIDE DEF e, p
<1>4. roster' \in SUBSET Participants /\ doubt' \in SUBSET Participants
  BY <1>2, <1>3 DEF RosterFits, RosterType
<1>5. RosterOwed(roster', doubt', wire', room)
  <2>1. RosterOwed(roster, doubt, wire, room)
    BY DEF RosterFits, RosterCalls
  <2> QED BY <1>2, <1>3, <2>1 DEF RosterOwed
<1>6. ASSUME NEW a \in BandAnswer, NEW b \in BandAnswer, b.said = a.said, b.missed = a.missed \cup {p}, Holds(a, wire, room)
      PROVE  Holds(b, wire', room)
  BY <1>2, <1>6 DEF Holds
<1>7. /\ hydration' \in [stage : {"none", "asked", "over"}, answer : BandAnswer]
      /\ hydration'.stage = "asked" => Holds(hydration'.answer, wire', room)
  <2>1. /\ hydration \in [stage : {"none", "asked", "over"}, answer : BandAnswer] /\ hydration.answer \in BandAnswer
        /\ hydration.stage = "asked" => Holds(hydration.answer, wire, room)
    BY DEF RosterFits, RosterType, RosterCalls
  <2>2. CASE hydration.stage = "asked"
    <3> DEFINE b == [hydration.answer EXCEPT !.missed = @ \cup {p}]
    <3>1. b \in BandAnswer /\ b.said = hydration.answer.said /\ b.missed = hydration.answer.missed \cup {p}
      BY <2>1, <1>2 DEF BandAnswer
    <3>2. hydration' = [hydration EXCEPT !.answer = b]
      BY <1>3, <2>2
    <3> HIDE DEF b
    <3>3. Holds(b, wire', room)
      BY <1>6, <2>1, <2>2, <3>1
    <3> QED BY <2>1, <3>1, <3>2, <3>3
  <2>3. CASE hydration.stage # "asked"
    BY <1>3, <2>1, <2>3
  <2> QED BY <2>2, <2>3
<1>8. ASSUME NEW c \in ToolCallIds PROVE call'[c] \in RosterCall /\ CallSees(call'[c], wire', room)
  <2>1. call[c] \in RosterCall /\ call[c].answer \in BandAnswer /\ CallSees(call[c], wire, room)
    BY DEF RosterFits, RosterType, RosterCalls, RosterCall
  <2>2. CASE Writes(c)
    <3> DEFINE b == [call[c].answer EXCEPT !.missed = @ \cup {p}]
               k == [call[c] EXCEPT !.answer = b]
    <3>1. b \in BandAnswer /\ b.said = call[c].answer.said /\ b.missed = call[c].answer.missed \cup {p}
      BY <2>1, <1>2 DEF BandAnswer
    <3>2. call'[c] = k
      BY <1>3, <2>2
    <3> HIDE DEF b
    <3>3. /\ k \in RosterCall /\ k.kind = call[c].kind /\ k.of = call[c].of /\ k.stage = call[c].stage /\ k.answer = b
          /\ k.in = call[c].in /\ k.out = call[c].out /\ k.outcome = call[c].outcome
      BY <2>1, <3>1 DEF RosterCall
    <3> HIDE DEF k
    <3>4. k.stage = "syncing" => Holds(k.answer, wire', room)
      BY <1>6, <2>1, <3>1, <3>3 DEF CallSees
    <3>5. k.of # p => (NoneOf(wire', k.of) => NoneOf(wire, k.of))
      BY <1>2
    <3>6. k.stage = "changed" /\ k.of \notin k.answer.missed /\ NoneOf(wire', k.of) => (k.kind = "add" <=> k.of \in room)
      BY <2>1, <3>1, <3>3, <3>5 DEF CallSees
    <3>7. CallSees(k, wire', room)
      BY <2>1, <3>1, <3>3, <3>4, <3>6 DEF CallSees
    <3> QED BY <3>2, <3>3, <3>7
  <2>3. CASE ~Writes(c)
    <3>1. call'[c] = call[c] /\ call[c].stage \notin {"syncing", "changed"}
      BY <1>3, <2>3 DEF Writes
    <3> QED BY <2>1, <3>1 DEF CallSees
  <2> QED BY <2>2, <2>3
<1>9. call' \in [ToolCallIds -> RosterCall]
  <2>1. call' = [c \in ToolCallIds |-> call'[c]]
    BY <1>3
  <2> QED BY <2>1, <1>8
<1> QED BY <1>1, <1>2, <1>4, <1>5, <1>7, <1>8, <1>9 DEF RosterFits, RosterType, RosterCalls

LEMMA HydrationKeeps == RosterFits /\ (Hydrates \/ \E ok \in BOOLEAN : HydrationEnds(ok)) => RosterFits'
<1> SUFFICES ASSUME RosterFits, Hydrates \/ \E ok \in BOOLEAN : HydrationEnds(ok) PROVE RosterFits'
  OBVIOUS
<1>1. /\ room \in SUBSET Participants /\ UNCHANGED <<room, wire, call>> /\ hydration.answer \in BandAnswer
      /\ RosterOwed(roster, doubt, wire, room)
      /\ hydration.stage = "asked" => Holds(hydration.answer, wire, room)
      /\ call \in [ToolCallIds -> RosterCall] /\ \A d \in ToolCallIds : CallSees(call[d], wire, room)
      /\ roster \in SUBSET Participants /\ doubt \in SUBSET Participants
  BY DEF Hydrates, HydrationEnds, RosterFits, RosterType, RosterCalls
<1>2. CASE Hydrates
  <2>1. /\ hydration' \in [stage : {"none", "asked", "over"}, answer : BandAnswer]
        /\ hydration'.answer = Answer(room) /\ UNCHANGED <<roster, doubt>>
    BY <1>1, <1>2 DEF Hydrates, Answer, BandAnswer
  <2>2. Holds(Answer(room), wire, room)
    BY DEF Holds, Answer
  <2>3. UNCHANGED <<room, wire>> /\ roster' = roster /\ doubt' = doubt /\ call' = call
    BY <1>1, <2>1
  <2>4. hydration'.stage = "asked" => Holds(hydration'.answer, wire, room)
    BY <2>1, <2>2
  <2> QED BY <1>1, <2>1, <2>3, <2>4, RosterHolds
<1>3. ASSUME NEW ok \in BOOLEAN, HydrationEnds(ok) PROVE RosterFits'
  <2>1. hydration' \in [stage : {"none", "asked", "over"}, answer : BandAnswer] /\ hydration'.stage = "over"
    BY <1>3 DEF HydrationEnds, NoAnswer, Answer, BandAnswer
  <2>2. /\ roster' \in SUBSET Participants /\ doubt' \in SUBSET Participants
        /\ RosterOwed(roster', doubt', wire, room)
    <3>1. CASE ok
      <4>1. roster' = hydration.answer.said /\ doubt' = hydration.answer.missed /\ hydration.stage = "asked"
        BY <1>3, <3>1 DEF HydrationEnds, ToolsListedFor
      <4> QED BY <1>1, <4>1 DEF RosterOwed, Holds, BandAnswer
    <3>2. CASE ~ok
      <4>1. roster' = roster /\ doubt' = doubt
        BY <1>3, <3>2 DEF HydrationEnds
      <4> QED BY <1>1, <4>1
    <3> QED BY <3>1, <3>2
  <2>3. UNCHANGED <<room, wire>> /\ call' = call
    BY <1>1
  <2> QED BY <1>1, <2>1, <2>2, <2>3, RosterHolds
<1> QED BY <1>2, <1>3

LEMMA CallBeginsKeeps ==
  ASSUME RosterFits, NEW c \in ToolCallIds, NEW p \in Participants,
         SendCalled(c, p) \/ \E kind \in {"add", "remove"} : MemberCalled(c, kind, p)
  PROVE  RosterFits'
<1>1. StageOfSend(p) \in Underway \ {"changed"} /\ "syncing" \in Underway \ {"changed"}
  BY DEF StageOfSend, Underway
<1>2. call' \in [ToolCallIds -> RosterCall] /\ \A d \in ToolCallIds : CallSees(call'[d], wire, room)
  <2>1. CASE SendCalled(c, p)
    <3>1. Calls(c, StageOfSend(p), "send", p)
      BY <2>1 DEF SendCalled
    <3> QED BY <1>1, <3>1, CallsBegun
  <2>2. ASSUME NEW kind \in {"add", "remove"}, MemberCalled(c, kind, p)
        PROVE  call' \in [ToolCallIds -> RosterCall] /\ \A d \in ToolCallIds : CallSees(call'[d], wire, room)
    <3>1. Calls(c, "syncing", kind, p) /\ kind \in {"send", "add", "remove"}
      BY <2>2 DEF MemberCalled
    <3> QED BY <1>1, <3>1, CallsBegun
  <2> QED BY <2>1, <2>2
<1>3. UNCHANGED <<room, wire, roster, hydration, doubt>>
  BY DEF SendCalled, MemberCalled
<1> QED BY <1>2, <1>3, CallMoves

LEMMA CallGoesOnKeeps ==
  ASSUME RosterFits, NEW c \in ToolCallIds,
         SendFetched(c) \/ LookedUp(c) \/ CallFails(c) \/ \E ok \in BOOLEAN : SendEnds(c, ok)
  PROVE  RosterFits'
<1>1. call[c].stage \in Underway \ {"changed"}
  BY DEF SendFetched, LookedUp, CallFails, SendEnds, Underway
<1>2. call[c].of \notin call[c].answer.said => call[c].out
  BY <1>1 DEF RosterFits, RosterCalls, CallSees
<1>3. UNCHANGED <<room, wire, roster, hydration, doubt>>
  BY DEF SendFetched, Fetched, LookedUp, CallFails, SendEnds
<1>4. \/ Proceeds(c, "posting") \/ Proceeds(c, "asking")
      \/ Answered(c, "absent") /\ call[c].out
      \/ Answered(c, "unknown") \/ Answered(c, "failed") \/ Answered(c, "sent")
  BY <1>2 DEF SendFetched, LookedUp, CallFails, SendEnds
<1>5. call' \in [ToolCallIds -> RosterCall] /\ \A d \in ToolCallIds : CallSees(call'[d], wire, room)
  <2>1. call[c].stage \in Underway
    BY <1>1
  <2>2. CASE Proceeds(c, "posting") \/ Proceeds(c, "asking")
    BY <2>1, <2>2, CallsProceed
  <2>3. CASE Answered(c, "absent") /\ call[c].out
    BY <2>1, <2>3, CallsOver
  <2>4. CASE Answered(c, "unknown") \/ Answered(c, "failed") \/ Answered(c, "sent")
    BY <2>1, <2>4, CallsOver
  <2> QED BY <1>4, <2>2, <2>3, <2>4
<1> QED BY <1>3, <1>5, CallMoves

LEMMA SyncedKeeps == ASSUME RosterFits, NEW c \in ToolCallIds, Synced(c) PROVE RosterFits'
<1>1. /\ call[c].stage = "syncing" /\ call[c].stage \in Underway /\ call[c] \in RosterCall /\ CallSees(call[c], wire, room)
      /\ UNCHANGED <<room, wire, hydration>> /\ roster' = call[c].answer.said /\ doubt' = call[c].answer.missed
  BY DEF Synced, ToolsListedFor, RosterFits, RosterType, RosterCalls, Underway
<1>2. /\ call[c].of \in call[c].answer.said => call[c].in
      /\ call[c].of \notin call[c].answer.said => call[c].out
      /\ Holds(call[c].answer, wire, room) /\ call[c].answer \in BandAnswer /\ call[c].kind \in {"send", "add", "remove"}
  BY <1>1 DEF CallSees, Underway, RosterCall
<1>3. /\ roster' \in SUBSET Participants /\ doubt' \in SUBSET Participants /\ RosterOwed(roster', doubt', wire, room)
  BY <1>1, <1>2 DEF RosterOwed, Holds, BandAnswer
<1>4. \/ Proceeds(c, "posting") \/ Proceeds(c, "looking") \/ Proceeds(c, "asking")
      \/ (Answered(c, "absent") /\ call[c].out) \/ (Answered(c, "already") /\ call[c].in) \/ Answered(c, "unsupported")
  <2>1. CASE call[c].kind = "send"
    BY <1>2, <2>1 DEF Synced
  <2>2. CASE call[c].kind = "add"
    BY <1>2, <2>2 DEF Synced
  <2>3. CASE call[c].kind = "remove"
    BY <1>2, <2>3 DEF Synced
  <2> QED BY <1>2, <2>1, <2>2, <2>3
<1>5. call' \in [ToolCallIds -> RosterCall] /\ \A d \in ToolCallIds : CallSees(call'[d], wire, room)
  <2>2. CASE Proceeds(c, "posting") \/ Proceeds(c, "looking") \/ Proceeds(c, "asking")
    BY <1>1, <2>2, CallsProceed
  <2>3. CASE Answered(c, "absent") /\ call[c].out
    BY <1>1, <2>3, CallsOver
  <2>4. CASE Answered(c, "already") /\ call[c].in
    BY <1>1, <2>4, CallsOver
  <2>5. CASE Answered(c, "unsupported")
    BY <1>1, <2>5, CallsOver
  <2> QED BY <1>4, <2>2, <2>3, <2>4, <2>5
<1> QED BY <1>1, <1>3, <1>5, RosterHolds DEF RosterFits, RosterType, RosterCalls

LEMMA ChangedKeeps == ASSUME RosterFits, NEW c \in ToolCallIds, Changed(c) PROVE RosterFits'
<1>1. /\ call[c].stage = "changed" /\ call[c].stage \in Underway /\ CallSees(call[c], wire, room)
      /\ UNCHANGED <<room, wire, hydration>> /\ Answered(c, "done")
      /\ roster' = IF call[c].kind = "add" THEN roster \cup {call[c].of} ELSE roster \ {call[c].of}
      /\ doubt' = IF call[c].of \in call[c].answer.missed THEN doubt \cup {call[c].of} ELSE doubt \ {call[c].of}
  BY DEF Changed, RosterFits, RosterCalls, Underway
<1>2. /\ call[c].of \in Participants
      /\ call[c].of \notin call[c].answer.missed /\ NoneOf(wire, call[c].of) => (call[c].kind = "add" <=> call[c].of \in room)
  BY <1>1 DEF CallSees
<1>3. /\ roster' \in SUBSET Participants /\ doubt' \in SUBSET Participants
  BY <1>1, <1>2 DEF RosterFits, RosterType
<1>4. RosterOwed(roster', doubt', wire, room)
  <2>1. RosterOwed(roster, doubt, wire, room)
    BY DEF RosterFits, RosterCalls
  <2> QED BY <1>1, <1>2, <2>1 DEF RosterOwed
<1>5. call' \in [ToolCallIds -> RosterCall] /\ \A d \in ToolCallIds : CallSees(call'[d], wire, room)
  BY <1>1, CallsOver
<1> QED BY <1>1, <1>3, <1>4, <1>5, RosterHolds DEF RosterFits, RosterType, RosterCalls

LEMMA MoveKeeps == ASSUME RosterFits, NEW p \in Participants, Moves(p) PROVE RosterFits'
<1> DEFINE e == [who |-> p, joined |-> p \notin room]
<1>1. e \in WireEvent /\ e.who = p /\ e.joined = (p \notin room)
  BY DEF WireEvent
<1>2. /\ room' = IF e.joined THEN room \cup {e.who} ELSE room \ {e.who}
      /\ wire' = Append(wire, e) /\ call' = Seen(call, room') /\ UNCHANGED <<roster, hydration, doubt>>
  BY <1>1 DEF Moves
<1> HIDE DEF e
<1>3. call \in [ToolCallIds -> RosterCall]
  BY DEF RosterFits, RosterType
<1> QED BY <1>1, <1>2, <1>3, BandMoves

LEMMA BandChangeKeeps == ASSUME RosterFits, NEW c \in ToolCallIds, BandChanges(c) PROVE RosterFits'
<1> DEFINE e == [who |-> call[c].of, joined |-> call[c].kind = "add"]
           k == [call[c] EXCEPT !.stage = "changed", !.answer = NoAnswer]
           calls == [call EXCEPT ![c] = k]
<1>1. /\ call[c].stage = "asking" /\ call \in [ToolCallIds -> RosterCall] /\ call[c] \in RosterCall /\ call[c].of \in Participants
  BY DEF BandChanges, RosterFits, RosterType, RosterCalls, CallSees, Underway
<1>2. e \in WireEvent /\ e.who = call[c].of /\ e.joined = (call[c].kind = "add")
  BY <1>1 DEF WireEvent
<1>3. /\ k.stage = "changed" /\ k.of = call[c].of /\ k.kind = call[c].kind
      /\ k.in = call[c].in /\ k.out = call[c].out /\ k.outcome = call[c].outcome
  BY <1>1 DEF RosterCall
<1>4. k \in RosterCall
  <2>1. NoAnswer \in BandAnswer /\ "changed" \in ToolStages
    BY DEF NoAnswer, Answer, BandAnswer, ToolStages
  <2> QED BY <1>1, <2>1 DEF RosterCall
<1>5. calls = [call EXCEPT ![c].stage = "changed", ![c].answer = NoAnswer]
  BY <1>1
<1>6. /\ room' = IF e.joined THEN room \cup {e.who} ELSE room \ {e.who}
      /\ wire' = Append(wire, e) /\ call' = Seen(calls, room') /\ UNCHANGED <<roster, hydration, doubt>>
  BY <1>2, <1>5 DEF BandChanges, Members
<1> HIDE DEF e, k
<1>7. calls \in [ToolCallIds -> RosterCall] /\ calls[c] = k /\ \A d \in ToolCallIds \ {c} : calls[d] = call[d]
  BY <1>1, <1>4
<1> HIDE DEF calls
<1>8. \A d \in ToolCallIds :
        \/ calls[d] = call[d]
        \/ /\ calls[d].stage = "changed" /\ call[d].stage = "asking" /\ calls[d].of = call[d].of /\ calls[d].kind = call[d].kind
           /\ calls[d].in = call[d].in /\ calls[d].out = call[d].out /\ calls[d].outcome = call[d].outcome
           /\ calls[d].of = e.who
  BY <1>1, <1>2, <1>3, <1>7
<1> QED BY <1>2, <1>6, <1>7, <1>8, BandMoves

LEMMA RosterKept == RosterFits /\ [ToolsNext]_toolsVars => RosterFits'
<1> SUFFICES ASSUME RosterFits, [ToolsNext]_toolsVars PROVE RosterFits'
  OBVIOUS
<1>1. CASE EventArrives \/ Hydrates \/ \E ok \in BOOLEAN : HydrationEnds(ok)
  BY <1>1, EventKeeps, HydrationKeeps
<1>2. CASE \E p \in Participants : Moves(p)
  BY <1>2, MoveKeeps
<1>3. ASSUME NEW c \in ToolCallIds,
             \/ SendFetched(c) \/ Synced(c) \/ LookedUp(c) \/ BandChanges(c) \/ Changed(c) \/ CallFails(c)
             \/ \E ok \in BOOLEAN : SendEnds(c, ok)
             \/ \E p \in Participants : SendCalled(c, p) \/ \E k \in {"add", "remove"} : MemberCalled(c, k, p)
      PROVE  RosterFits'
  BY <1>3, CallGoesOnKeeps, SyncedKeeps, BandChangeKeeps, ChangedKeeps, CallBeginsKeeps
<1>4. CASE UNCHANGED toolsVars
  BY <1>4 DEF toolsVars, RosterFits, RosterType, RosterCalls
<1> QED BY <1>1, <1>2, <1>3, <1>4 DEF ToolsNext

-----------------------------------------------------------------------------
(* Linear's tools.                                                         *)

LinearCall ==
  [tool : Tools \cup {"none"}, turn : Turns \cup {0}, of : LinearSessions, roomed : BOOLEAN,
   pc : {"none", "asked", "closing", "opened"}]
LinearRecord == [st : {"none", "active", "waiting", "completed"}, room : {"none", "here", "other"}, last : Nat]
LinearHook == [at : {"none", "prompted", "creating", "forwarding"}, ev : Nat, rec : LinearRecord]
LinearWork ==
  [calls : Nat, events : Nat, worked : SUBSET Turns, excused : SUBSET Turns, known : SUBSET LinearSessions,
   mapped : SUBSET LinearSessions, crossed : SUBSET LinearSessions, closed : SUBSET LinearSessions,
   handled : [LinearSessions -> Nat]]
LinearToolsType ==
  /\ ltTurn \in [n : Turns \cup {0}, open : BOOLEAN] /\ acted \in SUBSET Turns
  /\ judged \in [Turns -> {"none", "complete", "missing_reply"}]
  /\ toolCalls \in [ToolCalls -> LinearCall]
  /\ onLinear \in [LinearSessions -> [made : BOOLEAN, answered : BOOLEAN]]
  /\ filed \in [LinearSessions -> LinearRecord] /\ hooks \in [LinearSessions -> LinearHook]
  /\ ltMemory \in LinearWork

\* The turn that runs, and those to come, have no verdict.
TurnsAreJudged == \A t \in Turns : t > ltTurn.n \/ (t = ltTurn.n /\ ltTurn.open) => judged[t] = "none"
CallsAreOfTurns ==
  /\ ltTurn.open => ltTurn.n \in Turns
  /\ \A c \in ToolCalls :
       LET tc == toolCalls[c] IN
       /\ tc.pc # "none" => tc.turn \in Turns /\ tc.turn <= ltTurn.n
       /\ tc.pc = "none" => tc.turn = 0
       /\ tc.pc = "closing" => tc.tool = "respond" /\ onLinear[tc.of].answered
       /\ tc.pc = "opened" => tc.tool = "open"
       /\ tc.pc \in {"closing", "opened"} /\ judged[tc.turn] = "none" => tc.turn \in ltMemory.worked
\* Work that the turn's ledger does not have is excused, or still files what it did.
WorkIsCounted ==
  /\ \A t \in acted : judged[t] = "none" => t \in ltMemory.worked
  /\ \A t \in Turns : judged[t] = "complete" => t \in ltMemory.worked
  /\ \A t \in ltMemory.worked :
       t \in ltMemory.excused \cup acted \/ \E c \in ToolCalls : toolCalls[c].turn = t /\ toolCalls[c].pc \in {"closing", "opened"}
\* A session that a call opened is known to no other call until it is filed.
OpenedAreNew ==
  /\ \A s \in ltMemory.known : onLinear[s].made
  /\ \A c \in ToolCalls :
       /\ toolCalls[c].pc # "none" /\ toolCalls[c].tool \in OfSession => toolCalls[c].of \in ltMemory.known
       /\ toolCalls[c].pc = "opened" =>
            /\ onLinear[toolCalls[c].of].made /\ toolCalls[c].of \notin ltMemory.known
            /\ \A d \in ToolCalls : toolCalls[d].pc = "opened" /\ toolCalls[d].of = toolCalls[c].of => d = c
RecordsHold ==
  \A s \in LinearSessions :
    /\ s \in ltMemory.closed => s \in ltMemory.known
    /\ hooks[s].at = "creating" => filed[s] = Unfiled \/ s \in ltMemory.crossed
    /\ s \in ltMemory.mapped \ ltMemory.crossed =>
         hooks[s].at # "creating" /\ (hooks[s].at \in {"prompted", "forwarding"} => hooks[s].rec.room = "here")
LinearToolsInv ==
  /\ LinearToolsType /\ TurnsAreJudged /\ CallsAreOfTurns /\ WorkIsCounted /\ OpenedAreNew /\ RecordsHold
  /\ CompletedIsAnswered /\ HandledStaysKnown /\ SessionsComeHome

LEMMA LinearIsTrue == LinearToolsInv => LinearWorkIsTrue
<1> SUFFICES ASSUME LinearToolsInv PROVE VerdictsAreEarned
  BY DEF LinearToolsInv, LinearWorkIsTrue
<1> QED BY DEF LinearToolsInv, WorkIsCounted, VerdictsAreEarned

UnfiledIs == Unfiled \in LinearRecord /\ Unfiled.st = "none" /\ Unfiled.room = "none" /\ Unfiled.last = 0
NoToolCallIs == NoToolCall \in LinearCall /\ NoToolCall.pc = "none" /\ NoToolCall.turn = 0
NoHookIs == NoHook \in LinearHook /\ NoHook.at = "none"
LEMMA LinearNothing == UnfiledIs /\ NoToolCallIs /\ NoHookIs
<1>1. Assigned \in LinearSessions
  BY LinearToolsAssumption
<1> QED
  BY <1>1 DEF UnfiledIs, NoToolCallIs, NoHookIs, Unfiled, NoToolCall, NoHook, LinearCall, LinearRecord, LinearHook

LEMMA LinearToolsStart == LinearToolsInit => LinearToolsInv
<1> SUFFICES ASSUME LinearToolsInit PROVE LinearToolsInv
  OBVIOUS
<1>1. Assigned \in LinearSessions
  BY LinearToolsAssumption
<1>2. ltMemory \in LinearWork
  BY <1>1 DEF LinearToolsInit, LinearWork
<1>3. LinearToolsType
  BY <1>1, <1>2, LinearNothing DEF LinearToolsInit, LinearToolsType, UnfiledIs, NoToolCallIs, NoHookIs, LinearRecord
<1>4. TurnsAreJudged /\ CallsAreOfTurns /\ WorkIsCounted /\ OpenedAreNew
  <2>1. \A c \in ToolCalls : toolCalls[c].pc = "none" /\ toolCalls[c].turn = 0
    BY LinearNothing DEF LinearToolsInit, NoToolCallIs
  <2>2. \A t \in Turns : judged[t] = "none"
    BY DEF LinearToolsInit
  <2>3. ~ltTurn.open /\ acted = {}
    BY DEF LinearToolsInit
  <2>4. ltMemory.worked = {} /\ \A s \in ltMemory.known : onLinear[s].made
    BY <1>1 DEF LinearToolsInit
  <2> QED BY <2>1, <2>2, <2>3, <2>4 DEF TurnsAreJudged, CallsAreOfTurns, WorkIsCounted, OpenedAreNew
<1>5. RecordsHold /\ CompletedIsAnswered /\ HandledStaysKnown /\ SessionsComeHome
  BY LinearNothing DEF LinearToolsInit, RecordsHold, CompletedIsAnswered, HandledStaysKnown, SessionsComeHome, NoHookIs, UnfiledIs
<1> QED BY <1>3, <1>4, <1>5 DEF LinearToolsInv

SessionsRecorded == RecordsHold /\ CompletedIsAnswered /\ HandledStaysKnown /\ SessionsComeHome
TurnsCounted == TurnsAreJudged /\ CallsAreOfTurns /\ WorkIsCounted

\* A step that leaves the records, and what the checks know of them.
LEMMA RecordsKept ==
  ASSUME LinearToolsInv, UNCHANGED <<filed, hooks>>,
         ltMemory'.closed = ltMemory.closed, ltMemory'.crossed = ltMemory.crossed, ltMemory'.mapped = ltMemory.mapped,
         ltMemory'.handled = ltMemory.handled, ltMemory.known \subseteq ltMemory'.known,
         \A s \in LinearSessions : onLinear[s].answered => onLinear'[s].answered
  PROVE  SessionsRecorded'
BY DEF LinearToolsInv, SessionsRecorded, RecordsHold, CompletedIsAnswered, HandledStaysKnown, SessionsComeHome

\* A call that is over.
LEMMA CallIsOver ==
  ASSUME LinearToolsType, NEW c \in ToolCalls, toolCalls' = CallOver(c)
  PROVE  /\ toolCalls' \in [ToolCalls -> LinearCall]
         /\ toolCalls'[c].pc = "none" /\ toolCalls'[c].turn = 0
         /\ \A d \in ToolCalls \ {c} : toolCalls'[d] = toolCalls[d]
BY LinearNothing DEF NoToolCallIs, CallOver, LinearToolsType

LEMMA OverIsNew ==
  ASSUME LinearToolsInv, NEW c \in ToolCalls, toolCalls' = CallOver(c), onLinear' = onLinear, ltMemory'.known = ltMemory.known
  PROVE  OpenedAreNew'
<1>1. /\ toolCalls'[c].pc = "none" /\ \A d \in ToolCalls \ {c} : toolCalls'[d] = toolCalls[d]
  BY CallIsOver DEF LinearToolsInv
<1> QED BY <1>1 DEF LinearToolsInv, OpenedAreNew

\* It counts as the work it did, or is excused, if it was to be counted.
LEMMA OverIsCounted ==
  ASSUME LinearToolsInv, NEW c \in ToolCalls, toolCalls[c].pc # "none", toolCalls' = CallOver(c), UNCHANGED <<ltTurn, judged>>,
         \A s \in LinearSessions : onLinear[s].answered => onLinear'[s].answered,
         ltMemory' \in LinearWork, ltMemory.worked \subseteq ltMemory'.worked, ltMemory.excused \subseteq ltMemory'.excused,
         ltMemory'.worked \subseteq ltMemory.worked \cup {toolCalls[c].turn},
         acted' \in SUBSET Turns, acted \subseteq acted', acted' \subseteq acted \cup {toolCalls[c].turn},
         toolCalls[c].turn \in acted' \ acted /\ judged[toolCalls[c].turn] = "none" => toolCalls[c].turn \in ltMemory'.worked,
         toolCalls[c].turn \in ltMemory'.worked /\ toolCalls[c].turn \notin ltMemory.worked
            => toolCalls[c].turn \in acted' \cup ltMemory'.excused,
         toolCalls[c].pc \in {"closing", "opened"} => toolCalls[c].turn \in acted' \cup ltMemory'.excused
  PROVE  TurnsCounted'
<1>1. /\ toolCalls' \in [ToolCalls -> LinearCall] /\ toolCalls'[c].pc = "none" /\ toolCalls'[c].turn = 0
      /\ \A d \in ToolCalls \ {c} : toolCalls'[d] = toolCalls[d]
  BY CallIsOver DEF LinearToolsInv
<1>2. TurnsAreJudged'
  BY DEF LinearToolsInv, TurnsAreJudged
<1>3. CallsAreOfTurns'
  <2>1. \A d \in ToolCalls : toolCalls[d].of \in LinearSessions
    BY DEF LinearToolsInv, LinearToolsType, LinearCall
  <2> QED BY <1>1, <2>1 DEF LinearToolsInv, CallsAreOfTurns
<1>4. \A t \in acted' : judged'[t] = "none" => t \in ltMemory'.worked
  BY DEF LinearToolsInv, WorkIsCounted
<1>5. \A t \in Turns : judged'[t] = "complete" => t \in ltMemory'.worked
  BY DEF LinearToolsInv, WorkIsCounted
<1>6. ASSUME NEW t \in ltMemory'.worked
      PROVE  \/ t \in ltMemory'.excused \cup acted'
             \/ \E d \in ToolCalls : toolCalls'[d].turn = t /\ toolCalls'[d].pc \in {"closing", "opened"}
  <2>1. CASE t \notin ltMemory.worked
    BY <1>6, <2>1
  <2>2. CASE t \in ltMemory.excused \cup acted
    BY <2>2
  <2>3. ASSUME NEW d \in ToolCalls, toolCalls[d].turn = t, toolCalls[d].pc \in {"closing", "opened"}
        PROVE  \/ t \in ltMemory'.excused \cup acted'
               \/ \E e \in ToolCalls : toolCalls'[e].turn = t /\ toolCalls'[e].pc \in {"closing", "opened"}
    <3>1. CASE d = c
      BY <2>3, <3>1
    <3>2. CASE d # c
      BY <2>3, <3>2, <1>1
    <3> QED BY <3>1, <3>2
  <2> QED BY <2>1, <2>2, <2>3 DEF LinearToolsInv, WorkIsCounted
<1> QED BY <1>2, <1>3, <1>4, <1>5, <1>6 DEF TurnsCounted, WorkIsCounted

LEMMA TurnStartKeeps == LinearToolsInv /\ TurnStarts => LinearToolsInv'
<1> SUFFICES ASSUME LinearToolsInv, TurnStarts PROVE LinearToolsInv'
  OBVIOUS
<1>1. ltTurn.n \in Turns \cup {0} /\ ltTurn.n < MaxToolTurns /\ MaxToolTurns \in Nat
  BY LinearToolsAssumption DEF TurnStarts, LinearToolsInv, LinearToolsType
<1>2. ltTurn' = [n |-> ltTurn.n + 1, open |-> TRUE] /\ ltTurn.n + 1 \in Turns
  BY <1>1 DEF TurnStarts, Turns
<1>3. LinearToolsType'
  BY <1>2 DEF TurnStarts, LinearToolsInv, LinearToolsType
<1>4. TurnsAreJudged' /\ CallsAreOfTurns'
  BY <1>1, <1>2 DEF TurnStarts, LinearToolsInv, TurnsAreJudged, CallsAreOfTurns, Turns
<1>5. WorkIsCounted' /\ OpenedAreNew'
  BY DEF TurnStarts, LinearToolsInv, WorkIsCounted, OpenedAreNew
<1>6. SessionsRecorded'
  BY RecordsKept DEF TurnStarts
<1> QED BY <1>3, <1>4, <1>5, <1>6 DEF LinearToolsInv, SessionsRecorded

LEMMA TurnEndKeeps == LinearToolsInv /\ TurnEnds => LinearToolsInv'
<1> SUFFICES ASSUME LinearToolsInv, TurnEnds PROVE LinearToolsInv'
  OBVIOUS
<1>1. /\ ltTurn.n \in Turns /\ judged[ltTurn.n] = "none"
      /\ ltTurn'.n = ltTurn.n /\ ~ltTurn'.open /\ ltTurn' \in [n : Turns \cup {0}, open : BOOLEAN]
  BY DEF TurnEnds, LinearToolsInv, LinearToolsType, CallsAreOfTurns, TurnsAreJudged
<1>2. /\ judged' \in [Turns -> {"none", "complete", "missing_reply"}]
      /\ \A t \in Turns \ {ltTurn.n} : judged'[t] = judged[t]
      /\ judged'[ltTurn.n] = IF ltTurn.n \in acted THEN "complete" ELSE "missing_reply"
  BY <1>1 DEF TurnEnds, LinearToolsInv, LinearToolsType
<1>3. LinearToolsType'
  BY <1>1, <1>2 DEF TurnEnds, LinearToolsInv, LinearToolsType
<1>4. TurnsAreJudged'
  BY <1>1, <1>2 DEF LinearToolsInv, TurnsAreJudged, Turns
<1>5. \A t \in Turns : judged'[t] = "none" => judged[t] = "none"
  BY <1>1, <1>2
<1>6. CallsAreOfTurns'
  BY <1>1, <1>5 DEF TurnEnds, LinearToolsInv, CallsAreOfTurns
<1>7. WorkIsCounted'
  <2>1. \A t \in acted : t \in Turns
    BY DEF LinearToolsInv, LinearToolsType
  <2>2. \A t \in acted : judged'[t] = "none" => t \in ltMemory.worked
    BY <1>5, <2>1 DEF LinearToolsInv, WorkIsCounted
  <2>3. \A t \in Turns : judged'[t] = "complete" => t \in ltMemory.worked
    BY <1>1, <1>2 DEF LinearToolsInv, WorkIsCounted
  <2> QED BY <2>2, <2>3 DEF TurnEnds, LinearToolsInv, WorkIsCounted
<1>8. OpenedAreNew'
  BY DEF TurnEnds, LinearToolsInv, OpenedAreNew
<1>9. SessionsRecorded'
  BY RecordsKept DEF TurnEnds
<1> QED BY <1>3, <1>4, <1>6, <1>7, <1>8, <1>9 DEF LinearToolsInv, SessionsRecorded

LEMMA CallMadeKeeps ==
  ASSUME LinearToolsInv, NEW c \in ToolCalls, NEW tool \in Tools, NEW s \in LinearSessions, NEW roomed \in BOOLEAN,
         CallMade(c, tool, s, roomed)
  PROVE  LinearToolsInv'
<1> DEFINE asking == [tool |-> tool, turn |-> ltTurn.n, of |-> s, roomed |-> roomed, pc |-> "asked"]
<1>1. /\ ltTurn.n \in Turns /\ ltTurn.n <= ltTurn.n
  BY DEF CallMade, LinearToolsInv, LinearToolsType, CallsAreOfTurns, Turns
<1>2. /\ asking \in LinearCall /\ asking.pc = "asked" /\ asking.turn = ltTurn.n /\ asking.tool = tool /\ asking.of = s
  BY <1>1 DEF LinearCall
<1>3. toolCalls' = [toolCalls EXCEPT ![c] = asking] /\ toolCalls[c].pc = "none" /\ (tool \in OfSession => s \in ltMemory.known)
  BY LinearNothing DEF CallMade, NoToolCallIs
<1> HIDE DEF asking
<1>4. /\ toolCalls' \in [ToolCalls -> LinearCall] /\ toolCalls'[c] = asking
      /\ \A d \in ToolCalls \ {c} : toolCalls'[d] = toolCalls[d]
  BY <1>2, <1>3 DEF LinearToolsInv, LinearToolsType
<1>5. /\ ltMemory'.worked = ltMemory.worked /\ ltMemory'.excused = ltMemory.excused /\ ltMemory'.known = ltMemory.known
      /\ ltMemory'.closed = ltMemory.closed /\ ltMemory'.crossed = ltMemory.crossed /\ ltMemory'.mapped = ltMemory.mapped
      /\ ltMemory'.handled = ltMemory.handled /\ ltMemory' \in LinearWork
  <2>1. ltMemory \in LinearWork /\ ltMemory' = [ltMemory EXCEPT !.calls = @ + 1]
    BY DEF CallMade, LinearToolsInv, LinearToolsType
  <2> QED BY <2>1 DEF LinearWork
<1>6. LinearToolsType'
  BY <1>4, <1>5 DEF CallMade, LinearToolsInv, LinearToolsType
<1>7. TurnsAreJudged' /\ CallsAreOfTurns'
  BY <1>1, <1>2, <1>4, <1>5 DEF CallMade, LinearToolsInv, TurnsAreJudged, CallsAreOfTurns
<1>8. WorkIsCounted'
  <2>1. ASSUME NEW d \in ToolCalls, toolCalls[d].pc \in {"closing", "opened"} PROVE toolCalls'[d] = toolCalls[d]
    BY <1>3, <1>4, <2>1
  <2> QED BY <1>5, <2>1 DEF CallMade, LinearToolsInv, WorkIsCounted
<1>9. OpenedAreNew'
  BY <1>2, <1>3, <1>4, <1>5 DEF CallMade, LinearToolsInv, OpenedAreNew
<1>10. SessionsRecorded'
  BY <1>5, RecordsKept DEF CallMade
<1> QED BY <1>6, <1>7, <1>8, <1>9, <1>10 DEF LinearToolsInv, SessionsRecorded

\* What the checks know of a call that is over.
LEMMA WorkOf ==
  ASSUME LinearToolsInv, NEW c \in ToolCalls, toolCalls[c].pc # "none"
  PROVE  /\ toolCalls[c] \in LinearCall /\ toolCalls[c].turn \in Turns
         /\ Works(c) \subseteq {toolCalls[c].turn}
         /\ toolCalls[c].tool \notin {"narrate", "read"} /\ judged[toolCalls[c].turn] = "none" => toolCalls[c].turn \in Works(c)
         /\ toolCalls[c].tool \in {"narrate", "read"} => Works(c) = {}
         /\ Acts(toolCalls[c].tool) <=> toolCalls[c].tool \notin {"narrate", "read"}
BY DEF LinearToolsInv, LinearToolsType, CallsAreOfTurns, Works, Acts

LEMMA WorkedFields ==
  ASSUME ltMemory \in LinearWork, NEW W \in SUBSET Turns, NEW X \in SUBSET Turns,
         ltMemory' = [ltMemory EXCEPT !.worked = @ \cup W, !.excused = @ \cup X]
  PROVE  /\ ltMemory' \in LinearWork
         /\ ltMemory'.worked = ltMemory.worked \cup W /\ ltMemory'.excused = ltMemory.excused \cup X
         /\ ltMemory'.known = ltMemory.known
         /\ ltMemory'.closed = ltMemory.closed /\ ltMemory'.crossed = ltMemory.crossed /\ ltMemory'.mapped = ltMemory.mapped
         /\ ltMemory'.handled = ltMemory.handled
BY DEF LinearWork

\* A call that is over leaves the records of sessions.
LEMMA CallOverKeeps ==
  ASSUME LinearToolsInv, NEW c \in ToolCalls, toolCalls[c].pc # "none", toolCalls' = CallOver(c), UNCHANGED <<ltTurn, judged, filed, hooks>>,
         onLinear' \in [LinearSessions -> [made : BOOLEAN, answered : BOOLEAN]],
         \A s \in LinearSessions : onLinear'[s].answered = onLinear[s].answered /\ (onLinear[s].made => onLinear'[s].made),
         NEW W \in SUBSET Works(c), NEW X \in SUBSET Excused(c), NEW A \in SUBSET {toolCalls[c].turn},
         acted' = acted \cup A, ltMemory' = [ltMemory EXCEPT !.worked = @ \cup W, !.excused = @ \cup X],
         toolCalls[c].turn \in A /\ judged[toolCalls[c].turn] = "none" => toolCalls[c].turn \in ltMemory.worked \cup W,
         toolCalls[c].turn \in W => toolCalls[c].turn \in A \cup X,
         toolCalls[c].pc \in {"closing", "opened"} => toolCalls[c].turn \in A \cup X
  PROVE  LinearToolsInv'
<1>1. toolCalls[c].turn \in Turns /\ Works(c) \subseteq {toolCalls[c].turn} /\ Excused(c) = {toolCalls[c].turn}
  BY WorkOf DEF Excused
<1>2. /\ ltMemory' \in LinearWork
      /\ ltMemory'.worked = ltMemory.worked \cup W /\ ltMemory'.excused = ltMemory.excused \cup X
      /\ ltMemory'.known = ltMemory.known
      /\ ltMemory'.closed = ltMemory.closed /\ ltMemory'.crossed = ltMemory.crossed /\ ltMemory'.mapped = ltMemory.mapped
      /\ ltMemory'.handled = ltMemory.handled
  <2>1. ltMemory \in LinearWork /\ W \in SUBSET Turns /\ X \in SUBSET Turns
    BY <1>1 DEF LinearToolsInv, LinearToolsType
  <2> QED BY <2>1, WorkedFields
<1>3. acted \in SUBSET Turns
  BY DEF LinearToolsInv, LinearToolsType
<1>4. TurnsCounted'
  BY <1>1, <1>2, <1>3, OverIsCounted
<1>5. OpenedAreNew'
  <2>1. /\ toolCalls'[c].pc = "none" /\ \A d \in ToolCalls \ {c} : toolCalls'[d] = toolCalls[d]
    BY CallIsOver DEF LinearToolsInv
  <2>2. \A d \in ToolCalls : toolCalls[d].of \in LinearSessions
    BY DEF LinearToolsInv, LinearToolsType, LinearCall
  <2>3. ltMemory.known \subseteq LinearSessions
    BY DEF LinearToolsInv, LinearToolsType, LinearWork
  <2> QED BY <1>2, <2>1, <2>2, <2>3 DEF LinearToolsInv, OpenedAreNew
<1>6. SessionsRecorded'
  BY <1>2, RecordsKept
<1>7. LinearToolsType'
  BY <1>1, <1>2, <1>3, CallIsOver DEF LinearToolsInv, LinearToolsType
<1> QED BY <1>4, <1>5, <1>6, <1>7 DEF LinearToolsInv, SessionsRecorded, TurnsCounted

LEMMA LinearReplyKeeps ==
  ASSUME LinearToolsInv, NEW c \in ToolCalls, LinearTakes(c) \/ LinearAnswers(c) \/ LinearRefuses(c) \/ AnswerIsNameless(c) \/ ClosingFails(c)
  PROVE  LinearToolsInv'
<1>1. toolCalls[c].pc # "none"
  BY DEF LinearTakes, LinearAnswers, LinearRefuses, AnswerIsNameless, ClosingFails
<1>2. /\ toolCalls[c].turn \in Turns /\ Works(c) \subseteq {toolCalls[c].turn} /\ Excused(c) = {toolCalls[c].turn}
      /\ toolCalls[c].tool \notin {"narrate", "read"} /\ judged[toolCalls[c].turn] = "none" => toolCalls[c].turn \in Works(c)
      /\ toolCalls[c].tool \in {"narrate", "read"} => Works(c) = {}
      /\ Acts(toolCalls[c].tool) <=> toolCalls[c].tool \notin {"narrate", "read"}
  BY <1>1, WorkOf DEF Excused
<1>3. /\ onLinear \in [LinearSessions -> [made : BOOLEAN, answered : BOOLEAN]] /\ ltMemory \in LinearWork
  BY DEF LinearToolsInv, LinearToolsType
<1>4. /\ ltMemory = [ltMemory EXCEPT !.worked = @ \cup {}, !.excused = @ \cup {}]
      /\ \A W, X : [ltMemory EXCEPT !.worked = @ \cup W] = [ltMemory EXCEPT !.worked = @ \cup W, !.excused = @ \cup {}]
      /\ \A W, X : [ltMemory EXCEPT !.excused = @ \cup X] = [ltMemory EXCEPT !.worked = @ \cup {}, !.excused = @ \cup X]
  BY <1>3 DEF LinearWork
<1>5. CASE LinearTakes(c)
  <2>1. /\ toolCalls' = CallOver(c) /\ UNCHANGED <<ltTurn, judged, onLinear, filed, hooks>>
        /\ ltMemory' = [ltMemory EXCEPT !.worked = @ \cup Works(c)] /\ toolCalls[c].pc = "asked" /\ toolCalls[c].tool # "read"
        /\ acted' = acted \cup (IF Acts(toolCalls[c].tool) THEN {toolCalls[c].turn} ELSE {})
    BY <1>5 DEF LinearTakes, Lands, TurnOf
  <2>2. ltMemory' = [ltMemory EXCEPT !.worked = @ \cup Works(c), !.excused = @ \cup {}]
    BY <2>1, <1>4
  <2> DEFINE A == IF Acts(toolCalls[c].tool) THEN {toolCalls[c].turn} ELSE {}
  <2>3. /\ A \in SUBSET {toolCalls[c].turn} /\ acted' = acted \cup A
        /\ toolCalls[c].turn \in A /\ judged[toolCalls[c].turn] = "none" => toolCalls[c].turn \in ltMemory.worked \cup Works(c)
        /\ toolCalls[c].turn \in Works(c) => toolCalls[c].turn \in A \cup {}
    BY <1>2, <2>1
  <2> HIDE DEF A
  <2>4. toolCalls[c].pc \notin {"closing", "opened"}
    BY <2>1
  <2>5. onLinear' \in [LinearSessions -> [made : BOOLEAN, answered : BOOLEAN]] /\ UNCHANGED <<ltTurn, judged, filed, hooks>>
    BY <1>3, <2>1
  <2> QED BY <1>1, <2>1, <2>2, <2>3, <2>4, <2>5, CallOverKeeps
<1>6. CASE LinearAnswers(c)
  <2>1. /\ toolCalls' = CallOver(c) /\ UNCHANGED <<ltTurn, judged, onLinear, filed, hooks>> /\ toolCalls[c].pc = "asked"
        /\ ltMemory' = [ltMemory EXCEPT !.worked = @ \cup {}, !.excused = @ \cup {}] /\ acted' = acted \cup {}
    BY <1>2, <1>4, <1>6 DEF LinearAnswers, Lands
  <2> QED BY <1>1, <1>2, <1>3, <2>1, CallOverKeeps
<1>7. CASE LinearRefuses(c)
  <2>1. /\ toolCalls' = CallOver(c) /\ UNCHANGED <<ltTurn, judged, onLinear, filed, hooks>> /\ toolCalls[c].pc = "asked"
        /\ ltMemory' = [ltMemory EXCEPT !.worked = @ \cup {}, !.excused = @ \cup {}] /\ acted' = acted \cup {}
    BY <1>4, <1>7 DEF LinearRefuses, Refusal
  <2> QED BY <1>1, <1>2, <1>3, <2>1, CallOverKeeps
<1>8. CASE AnswerIsNameless(c)
  <2>1. /\ toolCalls' = CallOver(c) /\ UNCHANGED <<ltTurn, judged, filed, hooks>> /\ toolCalls[c].pc = "asked"
        /\ ltMemory' = [ltMemory EXCEPT !.worked = @ \cup Works(c), !.excused = @ \cup Excused(c)] /\ acted' = acted \cup {}
    <3>1. acted' = acted
      BY <1>8 DEF AnswerIsNameless
    <3>2. acted \cup {} = acted
      OBVIOUS
    <3> QED BY <1>8, <3>1, <3>2 DEF AnswerIsNameless
  <2>2. /\ onLinear' \in [LinearSessions -> [made : BOOLEAN, answered : BOOLEAN]]
        /\ \A s \in LinearSessions : onLinear'[s].answered = onLinear[s].answered /\ (onLinear[s].made => onLinear'[s].made)
    <3>1. CASE toolCalls[c].tool = "open"
      <4>1. PICK s \in LinearSessions : onLinear' = [onLinear EXCEPT ![s].made = TRUE]
        BY <1>8, <3>1 DEF AnswerIsNameless
      <4> QED BY <1>3, <4>1
    <3>2. CASE toolCalls[c].tool # "open"
      <4>1. onLinear' = onLinear
        BY <1>8, <3>2 DEF AnswerIsNameless
      <4> QED BY <1>3, <4>1
    <3> QED BY <3>1, <3>2
  <2> QED BY <1>1, <1>2, <2>1, <2>2, CallOverKeeps
<1>9. CASE ClosingFails(c)
  <2>1. /\ toolCalls' = CallOver(c) /\ UNCHANGED <<ltTurn, judged, onLinear, filed, hooks>>
        /\ ltMemory' = [ltMemory EXCEPT !.worked = @ \cup {}, !.excused = @ \cup Excused(c)] /\ acted' = acted \cup {}
    BY <1>4, <1>9 DEF ClosingFails
  <2> QED BY <1>1, <1>2, <1>3, <2>1, CallOverKeeps
<1> QED BY <1>5, <1>6, <1>7, <1>8, <1>9

LEMMA AnswerPostedKeeps == ASSUME LinearToolsInv, NEW c \in ToolCalls, AnswerPosted(c) PROVE LinearToolsInv'
<1>1. /\ toolCalls[c].pc = "asked" /\ toolCalls[c].tool = "respond" /\ toolCalls[c] \in LinearCall /\ toolCalls[c].turn \in Turns
      /\ Works(c) \subseteq {toolCalls[c].turn} /\ (judged[toolCalls[c].turn] = "none" => toolCalls[c].turn \in Works(c))
  BY WorkOf DEF AnswerPosted
<1>2. /\ toolCalls' \in [ToolCalls -> LinearCall] /\ \A d \in ToolCalls \ {c} : toolCalls'[d] = toolCalls[d]
      /\ toolCalls'[c].pc = "closing" /\ toolCalls'[c].tool = toolCalls[c].tool /\ toolCalls'[c].turn = toolCalls[c].turn
      /\ toolCalls'[c].of = toolCalls[c].of
  BY <1>1 DEF AnswerPosted, LinearToolsInv, LinearToolsType, LinearCall
<1>3. /\ onLinear' \in [LinearSessions -> [made : BOOLEAN, answered : BOOLEAN]]
      /\ \A s \in LinearSessions : onLinear'[s].made = onLinear[s].made /\ (onLinear[s].answered => onLinear'[s].answered)
      /\ onLinear'[toolCalls[c].of].answered
  <2>1. /\ toolCalls[c].of \in LinearSessions /\ onLinear \in [LinearSessions -> [made : BOOLEAN, answered : BOOLEAN]]
        /\ onLinear' = [onLinear EXCEPT ![toolCalls[c].of].answered = TRUE]
    BY <1>1 DEF AnswerPosted, LinearToolsInv, LinearToolsType, LinearCall
  <2> QED BY <2>1
<1>4. /\ ltMemory' \in LinearWork
      /\ ltMemory'.worked = ltMemory.worked \cup Works(c) /\ ltMemory'.excused = ltMemory.excused
      /\ ltMemory'.known = ltMemory.known
      /\ ltMemory'.closed = ltMemory.closed /\ ltMemory'.crossed = ltMemory.crossed /\ ltMemory'.mapped = ltMemory.mapped
      /\ ltMemory'.handled = ltMemory.handled
  <2>1. ltMemory \in LinearWork /\ Works(c) \in SUBSET Turns
    BY <1>1 DEF LinearToolsInv, LinearToolsType
  <2> QED BY <2>1 DEF AnswerPosted, LinearWork
<1>5. LinearToolsType'
  BY <1>2, <1>3, <1>4 DEF AnswerPosted, LinearToolsInv, LinearToolsType
<1>6. TurnsAreJudged'
  BY DEF AnswerPosted, LinearToolsInv, TurnsAreJudged
<1>7. CallsAreOfTurns'
  <2>1. \A d \in ToolCalls : toolCalls[d].of \in LinearSessions
    BY DEF LinearToolsInv, LinearToolsType, LinearCall
  <2> QED BY <1>1, <1>2, <1>3, <1>4, <2>1 DEF AnswerPosted, LinearToolsInv, CallsAreOfTurns
<1>8. WorkIsCounted'
  <2>1. ASSUME NEW t \in ltMemory'.worked
        PROVE  \/ t \in ltMemory'.excused \cup acted'
               \/ \E d \in ToolCalls : toolCalls'[d].turn = t /\ toolCalls'[d].pc \in {"closing", "opened"}
    <3>1. CASE t \notin ltMemory.worked
      BY <1>1, <1>2, <1>4, <2>1, <3>1
    <3>2. CASE t \in ltMemory.worked
      BY <1>1, <1>2, <1>4, <3>2 DEF AnswerPosted, LinearToolsInv, WorkIsCounted
    <3> QED BY <3>1, <3>2
  <2> QED BY <1>4, <2>1 DEF AnswerPosted, LinearToolsInv, WorkIsCounted
<1>9. OpenedAreNew'
  <2>1. \A d \in ToolCalls : toolCalls[d].of \in LinearSessions
    BY DEF LinearToolsInv, LinearToolsType, LinearCall
  <2>2. ltMemory.known \subseteq LinearSessions
    BY DEF LinearToolsInv, LinearToolsType, LinearWork
  <2> QED BY <1>1, <1>2, <1>3, <1>4, <2>1, <2>2 DEF LinearToolsInv, OpenedAreNew
<1>10. SessionsRecorded'
  BY <1>3, <1>4, RecordsKept DEF AnswerPosted
<1> QED BY <1>5, <1>6, <1>7, <1>8, <1>9, <1>10 DEF LinearToolsInv, SessionsRecorded

LEMMA SessionOpenedKeeps ==
  ASSUME LinearToolsInv, NEW c \in ToolCalls, NEW s \in LinearSessions, SessionOpened(c, s) PROVE LinearToolsInv'
<1>1. /\ toolCalls[c].pc = "asked" /\ toolCalls[c].tool = "open" /\ toolCalls[c] \in LinearCall /\ toolCalls[c].turn \in Turns
      /\ Works(c) \subseteq {toolCalls[c].turn} /\ (judged[toolCalls[c].turn] = "none" => toolCalls[c].turn \in Works(c))
      /\ ~onLinear[s].made
  BY WorkOf DEF SessionOpened
<1>2. /\ toolCalls' \in [ToolCalls -> LinearCall] /\ \A d \in ToolCalls \ {c} : toolCalls'[d] = toolCalls[d]
      /\ toolCalls'[c].pc = "opened" /\ toolCalls'[c].tool = "open" /\ toolCalls'[c].turn = toolCalls[c].turn
      /\ toolCalls'[c].of = s
  <2> DEFINE k == [toolCalls[c] EXCEPT !.of = s, !.pc = "opened"]
  <2>1. k \in LinearCall /\ k.pc = "opened" /\ k.tool = "open" /\ k.turn = toolCalls[c].turn /\ k.of = s
    BY <1>1 DEF LinearCall
  <2>2. toolCalls' = [toolCalls EXCEPT ![c] = k]
    BY DEF SessionOpened
  <2> HIDE DEF k
  <2> QED BY <2>1, <2>2 DEF LinearToolsInv, LinearToolsType
<1>3. /\ onLinear' \in [LinearSessions -> [made : BOOLEAN, answered : BOOLEAN]]
      /\ \A r \in LinearSessions : /\ onLinear'[r].made <=> onLinear[r].made \/ r = s
                                  /\ onLinear'[r].answered = onLinear[r].answered
  BY <1>1 DEF SessionOpened, LinearToolsInv, LinearToolsType
<1>4. /\ ltMemory' \in LinearWork
      /\ ltMemory'.worked = ltMemory.worked \cup Works(c) /\ ltMemory'.excused = ltMemory.excused
      /\ ltMemory'.known = ltMemory.known
      /\ ltMemory'.closed = ltMemory.closed /\ ltMemory'.crossed = ltMemory.crossed /\ ltMemory'.mapped = ltMemory.mapped
      /\ ltMemory'.handled = ltMemory.handled
  <2>1. ltMemory \in LinearWork /\ Works(c) \in SUBSET Turns
    BY <1>1 DEF LinearToolsInv, LinearToolsType
  <2> QED BY <2>1 DEF SessionOpened, LinearWork
<1>5. LinearToolsType'
  BY <1>2, <1>3, <1>4 DEF SessionOpened, LinearToolsInv, LinearToolsType
<1>6. TurnsAreJudged'
  BY DEF SessionOpened, LinearToolsInv, TurnsAreJudged
<1>a. \A d \in ToolCalls : toolCalls[d].of \in LinearSessions
  BY DEF LinearToolsInv, LinearToolsType, LinearCall
<1>7. CallsAreOfTurns'
  BY <1>1, <1>2, <1>3, <1>4, <1>a DEF SessionOpened, LinearToolsInv, CallsAreOfTurns
<1>8. WorkIsCounted'
  <2>1. ASSUME NEW t \in ltMemory'.worked
        PROVE  \/ t \in ltMemory'.excused \cup acted'
               \/ \E d \in ToolCalls : toolCalls'[d].turn = t /\ toolCalls'[d].pc \in {"closing", "opened"}
    <3>1. CASE t \notin ltMemory.worked
      BY <1>1, <1>2, <1>4, <2>1, <3>1
    <3>2. CASE t \in ltMemory.worked
      BY <1>1, <1>2, <1>4, <3>2 DEF SessionOpened, LinearToolsInv, WorkIsCounted
    <3> QED BY <3>1, <3>2
  <2> QED BY <1>4, <2>1 DEF SessionOpened, LinearToolsInv, WorkIsCounted
<1>9. OpenedAreNew'
  <2>2. ltMemory.known \subseteq LinearSessions
    BY DEF LinearToolsInv, LinearToolsType, LinearWork
  <2>3. "open" \notin OfSession
    BY DEF OfSession
  <2> QED BY <1>1, <1>2, <1>3, <1>4, <1>a, <2>2, <2>3 DEF LinearToolsInv, OpenedAreNew
<1>10. SessionsRecorded'
  BY <1>3, <1>4, RecordsKept DEF SessionOpened
<1> QED BY <1>5, <1>6, <1>7, <1>8, <1>9, <1>10 DEF LinearToolsInv, SessionsRecorded

\* A call that files what it did is of a turn that acted.
LEMMA FilingCounts ==
  ASSUME LinearToolsInv, NEW c \in ToolCalls, toolCalls[c].pc \in {"closing", "opened"}, Lands(c), UNCHANGED <<ltTurn, judged, onLinear>>,
         ltMemory' \in LinearWork, ltMemory'.worked = ltMemory.worked, ltMemory'.excused = ltMemory.excused
  PROVE  TurnsCounted' /\ acted' \in SUBSET Turns /\ toolCalls' \in [ToolCalls -> LinearCall]
<1>1. /\ toolCalls[c].turn \in Turns /\ toolCalls[c].tool \in {"respond", "open"}
      /\ judged[toolCalls[c].turn] = "none" => toolCalls[c].turn \in ltMemory.worked
  BY WorkOf DEF LinearToolsInv, CallsAreOfTurns
<1>2. toolCalls' = CallOver(c) /\ acted' = acted \cup {toolCalls[c].turn}
  BY <1>1 DEF Lands, Acts, TurnOf
<1>3. acted \in SUBSET Turns
  BY DEF LinearToolsInv, LinearToolsType
<1>4. toolCalls' \in [ToolCalls -> LinearCall]
  BY <1>2, CallIsOver DEF LinearToolsInv
<1> QED BY <1>1, <1>2, <1>3, <1>4, OverIsCounted

LEMMA SessionClosesKeeps == ASSUME LinearToolsInv, NEW c \in ToolCalls, SessionCloses(c) PROVE LinearToolsInv'
<1> DEFINE s == toolCalls[c].of
<1>1. /\ toolCalls[c].pc = "closing" /\ toolCalls[c].tool = "respond" /\ s \in LinearSessions /\ onLinear[s].answered
      /\ s \in ltMemory.known /\ toolCalls' = CallOver(c)
  BY DEF SessionCloses, Lands, LinearToolsInv, CallsAreOfTurns, OpenedAreNew, OfSession, LinearToolsType, LinearCall
<1>2. /\ filed' \in [LinearSessions -> LinearRecord] /\ \A r \in LinearSessions \ {s} : filed'[r] = filed[r]
      /\ filed'[s].room = filed[s].room /\ filed'[s].last = filed[s].last
      /\ \/ filed[s] = Unfiled /\ filed'[s] = filed[s] /\ ltMemory' = ltMemory
         \/ filed[s] # Unfiled /\ filed'[s].st = "completed" /\ ltMemory' = [ltMemory EXCEPT !.closed = @ \cup {s}]
  <2>1. filed \in [LinearSessions -> LinearRecord] /\ filed[s] \in LinearRecord
    BY <1>1 DEF LinearToolsInv, LinearToolsType
  <2>2. CASE filed[s] = Unfiled
    BY <2>1, <2>2 DEF SessionCloses
  <2>3. CASE filed[s] # Unfiled
    <3> DEFINE rec == RecordClosed(filed[s])
    <3>1. rec \in LinearRecord /\ rec.st = "completed" /\ rec.room = filed[s].room /\ rec.last = filed[s].last
      BY <2>1 DEF LinearRecord, RecordClosed
    <3>2. filed' = [filed EXCEPT ![s] = rec] /\ ltMemory' = [ltMemory EXCEPT !.closed = @ \cup {s}]
      BY <2>3 DEF SessionCloses
    <3> HIDE DEF rec, s
    <3> QED BY <1>1, <2>1, <2>3, <3>1, <3>2
  <2> QED BY <2>2, <2>3
<1>3. /\ ltMemory' \in LinearWork
      /\ ltMemory'.worked = ltMemory.worked /\ ltMemory'.excused = ltMemory.excused
      /\ ltMemory'.known = ltMemory.known
      /\ ltMemory'.crossed = ltMemory.crossed /\ ltMemory'.mapped = ltMemory.mapped
      /\ ltMemory'.handled = ltMemory.handled
      /\ ltMemory'.closed = IF filed[s] = Unfiled THEN ltMemory.closed ELSE ltMemory.closed \cup {s}
  <2>1. ltMemory \in LinearWork
    BY DEF LinearToolsInv, LinearToolsType
  <2> HIDE DEF s
  <2>2. CASE filed[s] = Unfiled
    BY <1>2, <2>1, <2>2
  <2>3. CASE filed[s] # Unfiled
    <3>1. ltMemory' = [ltMemory EXCEPT !.closed = @ \cup {s}]
      BY <1>2, <2>3
    <3> QED BY <1>1, <2>1, <2>3, <3>1 DEF LinearWork
  <2> QED BY <2>2, <2>3
<1> HIDE DEF s
<1>4. TurnsCounted' /\ acted' \in SUBSET Turns /\ toolCalls' \in [ToolCalls -> LinearCall]
  BY <1>1, <1>3, FilingCounts DEF SessionCloses
<1>5. LinearToolsType'
  BY <1>2, <1>3, <1>4 DEF SessionCloses, LinearToolsInv, LinearToolsType
<1>6. OpenedAreNew'
  BY <1>1, <1>3, OverIsNew DEF SessionCloses
<1>7. RecordsHold'
  BY <1>1, <1>2, <1>3 DEF SessionCloses, LinearToolsInv, RecordsHold
<1>8. CompletedIsAnswered'
  BY <1>1, <1>2, <1>3 DEF SessionCloses, LinearToolsInv, CompletedIsAnswered
<1>9. HandledStaysKnown'
  BY <1>2, <1>3 DEF LinearToolsInv, HandledStaysKnown
<1>10. SessionsComeHome'
  <2>1. \A r \in LinearSessions : filed'[r].room = filed[r].room
    BY <1>2
  <2>2. ltMemory.mapped \subseteq LinearSessions
    BY DEF LinearToolsInv, LinearToolsType, LinearWork
  <2> QED BY <1>3, <2>1, <2>2 DEF LinearToolsInv, SessionsComeHome
<1> QED BY <1>4, <1>5, <1>6, <1>7, <1>8, <1>9, <1>10 DEF LinearToolsInv, TurnsCounted

\* A session that is filed, or should be, is known from then on.
LEMMA ToldIsNew ==
  ASSUME LinearToolsInv, NEW c \in ToolCalls, toolCalls[c].pc = "opened", toolCalls' = CallOver(c), onLinear' = onLinear,
         ltMemory'.known = ltMemory.known \cup {toolCalls[c].of}
  PROVE  OpenedAreNew'
<1>1. /\ toolCalls'[c].pc = "none" /\ \A d \in ToolCalls \ {c} : toolCalls'[d] = toolCalls[d]
  BY CallIsOver DEF LinearToolsInv
<1> QED BY <1>1 DEF LinearToolsInv, OpenedAreNew

LEMMA PersistingFailsKeeps == ASSUME LinearToolsInv, NEW c \in ToolCalls, PersistingFails(c) PROVE LinearToolsInv'
<1>1. toolCalls[c].pc = "opened" /\ toolCalls' = CallOver(c) /\ toolCalls[c].of \in LinearSessions
  BY DEF PersistingFails, Lands, LinearToolsInv, LinearToolsType, LinearCall
<1>2. /\ ltMemory' \in LinearWork
      /\ ltMemory'.worked = ltMemory.worked /\ ltMemory'.excused = ltMemory.excused
      /\ ltMemory'.known = ltMemory.known \cup {toolCalls[c].of}
      /\ ltMemory'.crossed = ltMemory.crossed /\ ltMemory'.mapped = ltMemory.mapped
      /\ ltMemory'.handled = ltMemory.handled /\ ltMemory'.closed = ltMemory.closed
  <2>1. ltMemory \in LinearWork
    BY DEF LinearToolsInv, LinearToolsType
  <2>2. Told(c) \in LinearWork /\ Told(c).known = ltMemory.known \cup {toolCalls[c].of} /\ Told(c).mapped = ltMemory.mapped
        /\ Told(c).worked = ltMemory.worked /\ Told(c).excused = ltMemory.excused /\ Told(c).crossed = ltMemory.crossed
        /\ Told(c).handled = ltMemory.handled /\ Told(c).closed = ltMemory.closed
    BY <1>1, <2>1 DEF Told, LinearWork
  <2>3. ltMemory' = [Told(c) EXCEPT !.mapped = @ \cup {}]
    BY DEF PersistingFails, Mapped
  <2> HIDE DEF Told
  <2> QED BY <2>2, <2>3 DEF LinearWork
<1>4. TurnsCounted' /\ acted' \in SUBSET Turns /\ toolCalls' \in [ToolCalls -> LinearCall]
  BY <1>1, <1>2, FilingCounts DEF PersistingFails
<1>5. LinearToolsType'
  BY <1>2, <1>4 DEF PersistingFails, LinearToolsInv, LinearToolsType
<1>6. OpenedAreNew'
  BY <1>1, <1>2, ToldIsNew DEF PersistingFails
<1>7. SessionsRecorded'
  BY <1>2, RecordsKept DEF PersistingFails
<1> QED BY <1>4, <1>5, <1>6, <1>7 DEF LinearToolsInv, TurnsCounted, SessionsRecorded

LEMMA RoomPersistsKeeps == ASSUME LinearToolsInv, NEW c \in ToolCalls, RoomPersists(c) PROVE LinearToolsInv'
<1> DEFINE s == toolCalls[c].of
<1>1. toolCalls[c].pc = "opened" /\ toolCalls' = CallOver(c) /\ s \in LinearSessions /\ s \notin ltMemory.known
  BY DEF RoomPersists, Lands, LinearToolsInv, LinearToolsType, LinearCall, OpenedAreNew
<1>2. ltMemory \in LinearWork /\ filed \in [LinearSessions -> LinearRecord]
  BY DEF LinearToolsInv, LinearToolsType
<1>3. Told(c) \in LinearWork /\ Told(c).known = ltMemory.known \cup {s} /\ Told(c).mapped = ltMemory.mapped
      /\ Told(c).worked = ltMemory.worked /\ Told(c).excused = ltMemory.excused /\ Told(c).crossed = ltMemory.crossed
      /\ Told(c).handled = ltMemory.handled /\ Told(c).closed = ltMemory.closed
  BY <1>1, <1>2 DEF Told, LinearWork
<1>4. CASE ~toolCalls[c].roomed
  <2>1. filed' = filed /\ ltMemory' = Told(c)
    BY <1>4 DEF RoomPersists
  <2>4. TurnsCounted' /\ acted' \in SUBSET Turns /\ toolCalls' \in [ToolCalls -> LinearCall]
    BY <1>1, <1>3, <2>1, FilingCounts DEF RoomPersists
  <2>5. LinearToolsType'
    BY <1>3, <2>1, <2>4 DEF RoomPersists, LinearToolsInv, LinearToolsType
  <2>6. OpenedAreNew'
    BY <1>1, <1>3, <2>1, ToldIsNew DEF RoomPersists
  <2>7. SessionsRecorded'
    BY <1>3, <2>1, RecordsKept DEF RoomPersists
  <2> QED BY <2>4, <2>5, <2>6, <2>7 DEF LinearToolsInv, TurnsCounted, SessionsRecorded
<1>5. CASE toolCalls[c].roomed
  <2> DEFINE rec == [st |-> "active", room |-> "here", last |-> 0]
  <2>1. rec \in LinearRecord /\ rec.st = "active" /\ rec.room = "here" /\ rec.last = 0
    BY DEF LinearRecord
  <2>2. /\ filed' = [filed EXCEPT ![s] = rec]
        /\ ltMemory' = [Told(c) EXCEPT !.mapped = @ \cup {s}, !.crossed = IF filed[s] # Unfiled \/ hooks[s] # NoHook THEN @ \cup {s} ELSE @]
    BY <1>5 DEF RoomPersists
  <2> HIDE DEF rec, s, Told
  <2>3. /\ filed' \in [LinearSessions -> LinearRecord] /\ filed'[s].st = "active" /\ filed'[s].room = "here" /\ filed'[s].last = 0
        /\ \A r \in LinearSessions \ {s} : filed'[r] = filed[r]
    BY <1>1, <1>2, <2>1, <2>2
  <2>4. /\ ltMemory' \in LinearWork
        /\ ltMemory'.worked = ltMemory.worked /\ ltMemory'.excused = ltMemory.excused /\ ltMemory'.known = ltMemory.known \cup {s}
        /\ ltMemory'.mapped = ltMemory.mapped \cup {s} /\ ltMemory'.handled = ltMemory.handled /\ ltMemory'.closed = ltMemory.closed
        /\ ltMemory'.crossed = IF filed[s] # Unfiled \/ hooks[s] # NoHook THEN ltMemory.crossed \cup {s} ELSE ltMemory.crossed
    BY <1>1, <1>3, <2>2 DEF LinearWork
  <2>5. TurnsCounted' /\ acted' \in SUBSET Turns /\ toolCalls' \in [ToolCalls -> LinearCall]
    BY <1>1, <2>4, FilingCounts DEF RoomPersists
  <2>6. LinearToolsType'
    BY <2>3, <2>4, <2>5 DEF RoomPersists, LinearToolsInv, LinearToolsType
  <2>7. OpenedAreNew'
    BY <1>1, <2>4, ToldIsNew DEF RoomPersists, s
  <2>8. hooks' = hooks /\ onLinear' = onLinear
    BY DEF RoomPersists
  <2>9. RecordsHold'
    BY <1>1, <2>3, <2>4, <2>8, LinearNothing DEF LinearToolsInv, RecordsHold, NoHookIs
  <2>10. CompletedIsAnswered'
    BY <1>1, <2>3, <2>4, <2>8 DEF LinearToolsInv, CompletedIsAnswered, RecordsHold
  <2>11. HandledStaysKnown'
    BY <1>1, <2>3, <2>4, LinearNothing DEF LinearToolsInv, HandledStaysKnown, UnfiledIs
  <2>12. SessionsComeHome'
    <3>1. ltMemory.mapped \subseteq LinearSessions
      BY <1>2 DEF LinearWork
    <3> QED BY <2>3, <2>4, <3>1 DEF LinearToolsInv, SessionsComeHome
  <2> QED BY <2>5, <2>6, <2>7, <2>9, <2>10, <2>11, <2>12 DEF LinearToolsInv, TurnsCounted
<1> QED BY <1>4, <1>5

\* The bridge touches no turn.
LEMMA BridgeLeavesTurns ==
  ASSUME LinearToolsInv, UNCHANGED <<ltTurn, acted, judged, toolCalls, onLinear>>,
         ltMemory'.worked = ltMemory.worked, ltMemory'.excused = ltMemory.excused, ltMemory'.known = ltMemory.known
  PROVE  TurnsCounted' /\ OpenedAreNew'
BY DEF LinearToolsInv, TurnsCounted, TurnsAreJudged, CallsAreOfTurns, WorkIsCounted, OpenedAreNew

LEMMA HookComesKeeps == ASSUME LinearToolsInv, NEW s \in LinearSessions, PromptArrives(s) \/ SessionArrives(s) PROVE LinearToolsInv'
<1>1. ltMemory \in LinearWork /\ ltMemory' = [ltMemory EXCEPT !.events = @ + 1] /\ UNCHANGED <<ltTurn, acted, judged, toolCalls, onLinear, filed>>
  BY DEF PromptArrives, SessionArrives, LinearToolsInv, LinearToolsType
<1>2. /\ ltMemory' \in LinearWork
      /\ ltMemory'.worked = ltMemory.worked /\ ltMemory'.excused = ltMemory.excused /\ ltMemory'.known = ltMemory.known
      /\ ltMemory'.crossed = ltMemory.crossed /\ ltMemory'.mapped = ltMemory.mapped
      /\ ltMemory'.handled = ltMemory.handled /\ ltMemory'.closed = ltMemory.closed /\ ltMemory.events + 1 \in Nat
  BY <1>1 DEF LinearWork
<1>3. PICK h \in LinearHook :
        /\ hooks' = [hooks EXCEPT ![s] = h] /\ h.rec = filed[s]
        /\ h.at = "creating" => filed[s] = Unfiled
        /\ h.at # "creating" => filed[s] # Unfiled
  <2>1. filed[s] \in LinearRecord
    BY DEF LinearToolsInv, LinearToolsType
  <2>2. CASE PromptArrives(s)
    <3> DEFINE h == [at |-> "prompted", ev |-> ltMemory.events + 1, rec |-> filed[s]]
    <3>1. h \in LinearHook /\ h.rec = filed[s] /\ h.at = "prompted"
      BY <1>2, <2>1 DEF LinearHook
    <3>2. hooks' = [hooks EXCEPT ![s] = h] /\ filed[s] # Unfiled
      BY <2>2 DEF PromptArrives
    <3> HIDE DEF h
    <3> QED BY <3>1, <3>2
  <2>3. CASE SessionArrives(s)
    <3> DEFINE h == [at |-> IF filed[s] = Unfiled THEN "creating" ELSE "forwarding", ev |-> ltMemory.events + 1, rec |-> filed[s]]
    <3>1. h \in LinearHook /\ h.rec = filed[s] /\ h.at = IF filed[s] = Unfiled THEN "creating" ELSE "forwarding"
      BY <1>2, <2>1 DEF LinearHook
    <3>2. hooks' = [hooks EXCEPT ![s] = h]
      BY <2>3 DEF SessionArrives
    <3> HIDE DEF h
    <3> QED BY <3>1, <3>2
  <2> QED BY <2>2, <2>3
<1>4. /\ hooks' \in [LinearSessions -> LinearHook] /\ hooks'[s] = h /\ \A r \in LinearSessions \ {s} : hooks'[r] = hooks[r]
  BY <1>3 DEF LinearToolsInv, LinearToolsType
<1>5. TurnsCounted' /\ OpenedAreNew'
  BY <1>1, <1>2, BridgeLeavesTurns
<1>6. LinearToolsType'
  BY <1>1, <1>2, <1>4 DEF LinearToolsInv, LinearToolsType
<1>7. RecordsHold'
  <2>1. s \in ltMemory.mapped \ ltMemory.crossed => filed[s].room = "here" /\ filed[s] # Unfiled
    BY LinearNothing DEF LinearToolsInv, SessionsComeHome, UnfiledIs
  <2> QED BY <1>1, <1>2, <1>3, <1>4, <2>1 DEF LinearToolsInv, RecordsHold
<1>8. CompletedIsAnswered' /\ HandledStaysKnown' /\ SessionsComeHome'
  BY <1>1, <1>2 DEF LinearToolsInv, CompletedIsAnswered, HandledStaysKnown, SessionsComeHome
<1> QED BY <1>5, <1>6, <1>7, <1>8 DEF LinearToolsInv, TurnsCounted

LEMMA HookFilesKeeps == ASSUME LinearToolsInv, NEW s \in LinearSessions, RoomOfItsOwn(s) \/ EventFiled(s) PROVE LinearToolsInv'
<1>1. /\ ltMemory \in LinearWork /\ UNCHANGED <<ltTurn, acted, judged, toolCalls, onLinear>>
      /\ filed \in [LinearSessions -> LinearRecord] /\ hooks \in [LinearSessions -> LinearHook]
  BY DEF RoomOfItsOwn, EventFiled, LinearToolsInv, LinearToolsType
<1>2. PICK rec \in LinearRecord, h \in LinearHook :
        /\ filed' = [filed EXCEPT ![s] = rec] /\ hooks' = [hooks EXCEPT ![s] = h]
        /\ rec.st # "completed" /\ h.at # "creating"
        /\ s \in ltMemory.mapped \ ltMemory.crossed => rec.room = "here" /\ h.at = "none"
        /\ \/ rec.last = 0 /\ hooks[s].at = "creating" /\ ltMemory' = [ltMemory EXCEPT !.closed = @ \ {s}]
           \/ rec.last = hooks[s].ev /\ ltMemory' = [ltMemory EXCEPT !.closed = @ \ {s}, !.handled[s] = hooks[s].ev]
  <2>1. hooks[s] \in LinearHook /\ hooks[s].rec \in LinearRecord /\ hooks[s].ev \in Nat
    BY <1>1 DEF LinearHook
  <2>2. CASE RoomOfItsOwn(s)
    <3> DEFINE rec == [st |-> "active", room |-> "other", last |-> 0]
               h == [hooks[s] EXCEPT !.at = "forwarding", !.rec = rec]
    <3>1. rec \in LinearRecord /\ rec.st = "active" /\ rec.last = 0
      BY DEF LinearRecord
    <3>2. filed' = [filed EXCEPT ![s] = rec] /\ hooks' = [hooks EXCEPT ![s] = h] /\ hooks[s].at = "creating"
          /\ ltMemory' = [ltMemory EXCEPT !.closed = @ \ {s}]
      BY <2>2 DEF RoomOfItsOwn
    <3> HIDE DEF rec
    <3>3. h \in LinearHook /\ h.at = "forwarding"
      BY <2>1, <3>1 DEF LinearHook
    <3>4. s \notin ltMemory.mapped \ ltMemory.crossed
      BY <3>2 DEF LinearToolsInv, RecordsHold
    <3> HIDE DEF h
    <3> QED BY <3>1, <3>2, <3>3, <3>4
  <2>3. CASE EventFiled(s)
    <3> DEFINE rec == [hooks[s].rec EXCEPT !.st = IF hooks[s].at = "prompted" THEN "waiting" ELSE "active", !.last = hooks[s].ev]
    <3>1. rec \in LinearRecord /\ rec.st # "completed" /\ rec.last = hooks[s].ev /\ rec.room = hooks[s].rec.room
      BY <2>1 DEF LinearRecord
    <3>2. filed' = [filed EXCEPT ![s] = rec] /\ hooks' = [hooks EXCEPT ![s] = NoHook] /\ hooks[s].at \in {"prompted", "forwarding"}
          /\ ltMemory' = [ltMemory EXCEPT !.closed = @ \ {s}, !.handled[s] = hooks[s].ev]
      BY <2>3 DEF EventFiled
    <3> HIDE DEF rec
    <3>3. s \in ltMemory.mapped \ ltMemory.crossed => rec.room = "here"
      BY <3>1, <3>2 DEF LinearToolsInv, RecordsHold
    <3> QED BY <3>1, <3>2, <3>3, LinearNothing DEF NoHookIs
  <2> QED BY <2>2, <2>3
<1>3. /\ ltMemory' \in LinearWork
      /\ ltMemory'.worked = ltMemory.worked /\ ltMemory'.excused = ltMemory.excused /\ ltMemory'.known = ltMemory.known
      /\ ltMemory'.crossed = ltMemory.crossed /\ ltMemory'.mapped = ltMemory.mapped
      /\ ltMemory'.closed = ltMemory.closed \ {s}
      /\ \A r \in LinearSessions \ {s} : ltMemory'.handled[r] = ltMemory.handled[r]
      /\ \/ rec.last = 0 /\ hooks[s].at = "creating" /\ ltMemory'.handled[s] = ltMemory.handled[s]
         \/ rec.last = hooks[s].ev /\ ltMemory'.handled[s] = hooks[s].ev
  <2>1. hooks[s].ev \in Nat
    BY <1>1 DEF LinearHook
  <2>2. CASE rec.last = 0 /\ hooks[s].at = "creating" /\ ltMemory' = [ltMemory EXCEPT !.closed = @ \ {s}]
    BY <1>1, <2>2 DEF LinearWork
  <2>3. CASE rec.last = hooks[s].ev /\ ltMemory' = [ltMemory EXCEPT !.closed = @ \ {s}, !.handled[s] = hooks[s].ev]
    <3> DEFINE handled == [ltMemory.handled EXCEPT ![s] = hooks[s].ev]
    <3>1. /\ handled \in [LinearSessions -> Nat] /\ handled[s] = hooks[s].ev
          /\ \A r \in LinearSessions \ {s} : handled[r] = ltMemory.handled[r]
      BY <1>1, <2>1 DEF LinearWork
    <3>2. ltMemory' = [ltMemory EXCEPT !.closed = @ \ {s}, !.handled = handled]
      BY <2>3
    <3> HIDE DEF handled
    <3> QED BY <1>1, <2>3, <3>1, <3>2 DEF LinearWork
  <2> QED BY <1>2, <2>2, <2>3
<1>4. /\ hooks' \in [LinearSessions -> LinearHook] /\ hooks'[s] = h /\ \A r \in LinearSessions \ {s} : hooks'[r] = hooks[r]
      /\ filed' \in [LinearSessions -> LinearRecord] /\ filed'[s] = rec /\ \A r \in LinearSessions \ {s} : filed'[r] = filed[r]
  BY <1>1, <1>2
<1>5. TurnsCounted' /\ OpenedAreNew'
  BY <1>1, <1>3, BridgeLeavesTurns
<1>6. LinearToolsType'
  BY <1>1, <1>3, <1>4 DEF LinearToolsInv, LinearToolsType
<1>7. RecordsHold'
  BY <1>2, <1>3, <1>4 DEF LinearToolsInv, RecordsHold
<1>8. CompletedIsAnswered'
  BY <1>1, <1>2, <1>3, <1>4 DEF LinearToolsInv, CompletedIsAnswered
<1>9. HandledStaysKnown'
  <2>1. hooks[s].at = "creating" => ltMemory.handled[s] = 0 \/ s \in ltMemory.crossed
    BY LinearNothing DEF LinearToolsInv, RecordsHold, HandledStaysKnown, UnfiledIs
  <2> QED BY <1>3, <1>4, <2>1 DEF LinearToolsInv, HandledStaysKnown
<1>10. SessionsComeHome'
  <2>1. ltMemory.mapped \subseteq LinearSessions
    BY <1>1 DEF LinearWork
  <2> QED BY <1>2, <1>3, <1>4, <2>1 DEF LinearToolsInv, SessionsComeHome
<1> QED BY <1>5, <1>6, <1>7, <1>8, <1>9, <1>10 DEF LinearToolsInv, TurnsCounted

LEMMA LinearToolsKept == LinearToolsInv /\ [LinearToolsNext]_linearToolVars => LinearToolsInv'
<1> SUFFICES ASSUME LinearToolsInv, [LinearToolsNext]_linearToolVars PROVE LinearToolsInv'
  OBVIOUS
<1>1. CASE TurnStarts \/ TurnEnds
  BY <1>1, TurnStartKeeps, TurnEndKeeps
<1>2. ASSUME NEW c \in ToolCalls, NEW tool \in Tools, NEW s \in LinearSessions, NEW roomed \in BOOLEAN, CallMade(c, tool, s, roomed)
      PROVE  LinearToolsInv'
  BY <1>2, CallMadeKeeps
<1>3. ASSUME NEW c \in ToolCalls,
             \/ LinearTakes(c) \/ LinearAnswers(c) \/ LinearRefuses(c) \/ AnswerIsNameless(c)
             \/ AnswerPosted(c) \/ SessionCloses(c) \/ ClosingFails(c) \/ RoomPersists(c) \/ PersistingFails(c)
             \/ \E s \in LinearSessions : SessionOpened(c, s)
      PROVE  LinearToolsInv'
  BY <1>3, LinearReplyKeeps, AnswerPostedKeeps, SessionClosesKeeps, RoomPersistsKeeps, PersistingFailsKeeps, SessionOpenedKeeps
<1>4. ASSUME NEW s \in LinearSessions, PromptArrives(s) \/ SessionArrives(s) \/ RoomOfItsOwn(s) \/ EventFiled(s)
      PROVE  LinearToolsInv'
  BY <1>4, HookComesKeeps, HookFilesKeeps
<1>5. CASE UNCHANGED linearToolVars
  BY <1>5 DEF linearToolVars, LinearToolsInv, LinearToolsType, TurnsAreJudged, CallsAreOfTurns, WorkIsCounted, OpenedAreNew, RecordsHold,
              CompletedIsAnswered, HandledStaysKnown, SessionsComeHome
<1> QED BY <1>1, <1>2, <1>3, <1>4, <1>5 DEF LinearToolsNext

-----------------------------------------------------------------------------
(* A behaviour of ServicesSpec is one of the part it began as.             *)

ServicesInv ==
  /\ service = "channel" => ChannelInv
  /\ service = "prompt" => PromptInv
  /\ service = "tools" => RosterFits
  /\ service = "linear" => LinearToolsInv
  /\ service = "gateway" => GatewayInv
  /\ service = "a2a" => TasksInv /\ JoinedInv
  /\ service = "contacts" => ContactInv
  /\ service = "replies" => RepliesInv
  /\ service = "notices" => NoticesInv

LEMMA ServicesStart == ServicesInit => ServicesInv
<1> SUFFICES ASSUME ServicesInit PROVE ServicesInv
  OBVIOUS
<1>1. /\ ChannelInit
      /\ service = "prompt" => PromptInit
      /\ service = "tools" => ToolsInit
      /\ service = "linear" => LinearToolsInit
      /\ service = "gateway" => GatewayInit
      /\ service = "a2a" => A2AInit
      /\ service = "contacts" => ContactInit
      /\ service = "replies" => RepliesInit
      /\ service = "notices" => NoticesInit
  BY DEF ServicesInit
<1> QED BY <1>1, ChannelStarts, PromptStarts, RosterStarts, LinearToolsStart, GatewayStart, TasksStart, ContactStart,
           RepliesStart, NoticesStart DEF ServicesInv

\* A step of the part that runs is a step of that part, and leaves the others where they are.
LEMMA ServicesKept == ServicesInv /\ [ServicesNext]_servicesVars => ServicesInv'
<1> SUFFICES ASSUME ServicesInv, [ServicesNext]_servicesVars PROVE ServicesInv'
  OBVIOUS
<1>1. service' = service
  BY DEF ServicesNext, servicesVars
<1>2. ASSUME service = "channel" PROVE ChannelInv'
  <2>1. [ChannelNext]_channelVars
    BY <1>2 DEF ServicesNext, servicesVars, AnsweringPart, PluginsPart, McpPart, RoomsPart, ReachingPart
  <2> QED BY <1>2, <2>1, ChannelKept DEF ServicesInv
<1>3. ASSUME service = "prompt" PROVE PromptInv'
  <2>1. [PromptNext]_promptVars
    BY <1>3 DEF ServicesNext, servicesVars, AnsweringPart, PluginsPart, McpPart, RoomsPart, ReachingPart
  <2> QED BY <1>3, <2>1, PromptKept DEF ServicesInv
<1>4. ASSUME service = "tools" PROVE RosterFits'
  <2>1. [ToolsNext]_toolsVars
    BY <1>4 DEF ServicesNext, servicesVars, AnsweringPart, PluginsPart, McpPart, RoomsPart, ReachingPart
  <2> QED BY <1>4, <2>1, RosterKept DEF ServicesInv
<1>5. ASSUME service = "linear" PROVE LinearToolsInv'
  <2>1. [LinearToolsNext]_linearToolVars
    BY <1>5 DEF ServicesNext, servicesVars, AnsweringPart, PluginsPart, McpPart, RoomsPart, ReachingPart
  <2> QED BY <1>5, <2>1, LinearToolsKept DEF ServicesInv
<1>6. ASSUME service = "gateway" PROVE GatewayInv'
  <2>1. [GatewayNext]_gatewayVars
    BY <1>6 DEF ServicesNext, servicesVars, AnsweringPart, PluginsPart, McpPart, RoomsPart, ReachingPart
  <2> QED BY <1>6, <2>1, GatewayKept DEF ServicesInv
<1>7. ASSUME service = "a2a" PROVE TasksInv' /\ JoinedInv'
  <2>1. [A2ANext]_a2aVars
    BY <1>7 DEF ServicesNext, servicesVars, AnsweringPart, PluginsPart, McpPart, RoomsPart, ReachingPart
  <2> QED BY <1>7, <2>1, TasksKept DEF ServicesInv
<1>8. ASSUME service = "contacts" PROVE ContactInv'
  <2>1. [ContactNext]_contactVars
    BY <1>8 DEF ServicesNext, servicesVars, AnsweringPart, PluginsPart, McpPart, RoomsPart, ReachingPart
  <2> QED BY <1>8, <2>1, ContactKept DEF ServicesInv
<1>9. ASSUME service = "replies" PROVE RepliesInv'
  <2>1. [RepliesNext]_repliesVars
    BY <1>9 DEF ServicesNext, servicesVars, AnsweringPart, PluginsPart, McpPart, RoomsPart, ReachingPart
  <2> QED BY <1>9, <2>1, RepliesKept DEF ServicesInv
<1>10. ASSUME service = "notices" PROVE NoticesInv'
  <2>1. [NoticesNext]_noticesVars
    BY <1>10 DEF ServicesNext, servicesVars, AnsweringPart, PluginsPart, McpPart, RoomsPart, ReachingPart
  <2> QED BY <1>10, <2>1, NoticesKept DEF ServicesInv
<1> QED BY <1>1, <1>2, <1>3, <1>4, <1>5, <1>6, <1>7, <1>8, <1>9, <1>10 DEF ServicesInv

\* What is shown of the agent and its room is true when it is shown: a session's recorded
\* status, its tools and its connection agree at rest (Claude Code channel); a prompt's
\* context is no older than the TTL (ContextSource); the roster says what Band says of whoever
\* no event is on its way (AgentTools, ParticipantRoster); a turn's verdict and a session's
\* record are what its calls did on Linear: for every number of connections, rooms,
\* participants, calls, turns and events.
THEOREM ViewsStayTrue == ServicesSpec => []ViewsAreTrue
<1>1. ServicesInv => ViewsAreTrue
  BY ChannelTells, RosterIsTrue, LinearIsTrue DEF ServicesInv, ViewsAreTrue, PromptInv
<1> QED BY <1>1, ServicesStart, ServicesKept, PTL DEF ServicesSpec

\* Whoever asked gets the answer, and whoever must be told is: a peer's answer reaches the
\* request it answers (A2A gateway); the room's user who opened a remote task is the one its
\* question and its end mention, and an artifact's text too until another user's message
\* took the task up (A2AAdapter); a hub's context is told each change it is owed, once, and its
\* purpose (ContactEventHandler); an OpenClaw reply is meant for someone who is in its room,
\* or who was last to write there; a room is told a notification of Linear once, for any
\* number of them, in any order of their steps.
THEOREM AnswersReach == ServicesSpec => []AnswersReachWhoAsked
<1>1. ServicesInv => AnswersReachWhoAsked
  BY ContactHandles, NoticesTell DEF ServicesInv, AnswersReachWhoAsked, GatewayInv, TasksInv, RepliesInv
<1> QED BY <1>1, ServicesStart, ServicesKept, PTL DEF ServicesSpec

\* Who waits for a peer's answer can be found by it, and what can be found waits or will (A2A
\* gateway): the gateway's part of NothingIsStranded.
THEOREM RequestsFound == ServicesSpec => [](service = "gateway" => RequestsAreFound)
<1>1. ServicesInv => (service = "gateway" => RequestsAreFound)
  BY GatewayFinds DEF ServicesInv
<1> QED BY <1>1, ServicesStart, ServicesKept, PTL DEF ServicesSpec
=============================================================================
