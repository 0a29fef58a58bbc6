--------------------------- MODULE PlatformProofs ---------------------------
(***************************************************************************)
(* Theorems about two of MCPlatform's parts.                               *)
(*                                                                         *)
(* The transport, for any chat topics, sessions, opens and cut-offs:       *)
(* events reach the agent after the catch-up that makes good what their    *)
(* room missed, and nothing outlives its session.  The invariant says of   *)
(* which session, epoch and generation each channel, report and held-back  *)
(* event is.                                                               *)
(*                                                                         *)
(* The AgentRuntime's rooms, for any rooms, starts, executions and calls   *)
(* from outside: a stop reaches every execution.  An execution that takes  *)
(* work stays in the map, and one that runs in the roster, until a stop    *)
(* takes it from there.  The invariant follows the stop from stage to      *)
(* stage and says what is left to be stopped, and that between stops,      *)
(* until a start connects, there is nothing.                               *)
(***************************************************************************)
EXTENDS MCPlatform, TLAPS

----------------------------------------------------------------------------
(* The transport's invariant.                                              *)

Gens == [num : Nat, pending : SUBSET AllTopics, joined : SUBSET AllTopics]
Reports == [num : Nat, epoch : Nat, session : Nat]
Sides == {"none", "unsent", "asked", "joined", "waiting"}

TransportTypeInv ==
  /\ link \in {"idle", "connecting", "active", "failed", "disconnecting"}
  /\ sessions \in Nat /\ epoch \in Nat /\ genCount \in Nat /\ buffering \in Nat
  /\ run \in [live : BOOLEAN, connected : BOOLEAN, closing : BOOLEAN]
  /\ wire \in {"open", "closed"} /\ openedOnce \in BOOLEAN /\ barrier \in BOOLEAN
  /\ teardown \in [stage : {"none", "leaving", "closing"}, awaits : SUBSET AllTopics]
  /\ reg \in [AllTopics -> {"none", "pending", "joined"}]
  /\ regEpoch \in [AllTopics -> Nat]
  /\ px \in [AllTopics -> Sides]
  /\ husks \subseteq AllTopics /\ leaving \subseteq AllTopics
  /\ joining \in [Topics -> {"none", "barrier", "resume", "leave", "flight"}]
  /\ gen \in Gens
  /\ buffer \subseteq [topic : Topics, lapse : Nat]
  /\ observers \in Seq(Reports) /\ (observing => observers # <<>>)
  /\ lapse \in [Topics -> Nat] /\ caught \in [Topics -> Nat]

\* The life of a session: a run lives while BandLink is up, ends before a disconnect's
\* leaves are awaited, and while it has been past agent_control keeps that channel.
LifeInv ==
  /\ teardown.stage = "none" => teardown = NoTeardown
  /\ link = "disconnecting" <=> teardown.stage # "none"
  /\ run.live => link \in {"connecting", "active"}
  /\ ~run.live => run = EndedRun
  /\ run.closing => ~run.connected
  /\ wire = "open" => run.live \/ teardown.stage = "leaving"
  /\ link # "disconnecting" => Control \notin husks \cup leaving
  /\ link # "disconnecting" /\ openedOnce => reg[Control] = "joined"

\* A registered channel is of the epoch there is, until a disconnect retires them all;
\* a topic has one join under way, and it is the registry's.
ChannelInv ==
  /\ \A t \in AllTopics :
       /\ regEpoch[t] <= epoch
       /\ teardown.stage = "none" /\ reg[t] # "none" => regEpoch[t] = epoch
       /\ t \in leaving => /\ reg[t] = "joined" => px[t] = "none"
                           /\ reg[t] = "pending" => regEpoch[t] # epoch
       /\ reg[t] = "pending" /\ regEpoch[t] = epoch => px[t] # "joined"
       /\ wire = "closed" => px[t] \notin {"asked", "joined"}
  /\ \A t \in Topics : /\ joining[t] = "flight" <=> reg[t] = "pending"
                       /\ reg[t] = "joined" /\ t \notin leaving => joining[t] = "none"

\* The barrier, the buffer and the joins that wait on them belong to one generation: the
\* open one if there is one, else one that has closed and is yet to be reported.
RecoveryInv ==
  /\ barrier <=> buffering # 0
  /\ barrier => run.live /\ openedOnce
  /\ \A t \in Topics : joining[t] = "barrier" => barrier
  /\ buffer # {} => barrier
  /\ gen.num = 0 => gen.pending = {}
  /\ gen.num # 0 => gen.num = buffering /\ gen.num = genCount

\* A report of the epoch there is is of BandLink's session, and of a generation older
\* than the open one: reports that could lift the barrier find their session alive.
Timely(r) ==
  /\ r.epoch <= epoch
  /\ r.epoch = epoch =>
       /\ r.session = sessions /\ link \notin {"idle", "disconnecting"}
       /\ run.live => /\ r.num <= genCount
                      /\ gen.num # 0 => r.num < gen.num
ReportInv == \A i \in DOMAIN observers : Timely(observers[i])

\* What keeps events from overtaking their catch-up: outside a recovery a channel that
\* is heard has been caught up, and a held-back event is older than the cut-off its
\* channel is in, so that the catch-up its recovery queues covers it.
GapInv ==
  /\ \A t \in Topics :
       run.live /\ ~run.closing /\ buffering = 0 /\ px[t] = "joined" /\ Current(t)
         => lapse[t] <= caught[t]
  /\ \A e \in buffer :
       /\ e.lapse <= lapse[e.topic]
       /\ Current(e.topic) /\ px[e.topic] # "joined" => e.lapse < lapse[e.topic]
       /\ joining[e.topic] \in {"none", "barrier"}
  /\ CatchUpFirst

TransportInv == TransportTypeInv /\ LifeInv /\ ChannelInv /\ RecoveryInv /\ ReportInv /\ GapInv

----------------------------------------------------------------------------
(* What the steps' parts do.                                               *)

LEMMA TailKeeps ==
  ASSUME NEW S, NEW s \in Seq(S), s # <<>>
  PROVE  /\ Tail(s) \in Seq(S) /\ Head(s) \in S /\ Head(s) = s[1] /\ 1 \in DOMAIN s
         /\ \A i \in DOMAIN Tail(s) : i + 1 \in DOMAIN s /\ Tail(s)[i] = s[i + 1]
  OBVIOUS

LEMMA AppendKeeps ==
  ASSUME NEW S, NEW s \in Seq(S), NEW x \in S
  PROVE  /\ Append(s, x) \in Seq(S)
         /\ \A i \in DOMAIN Append(s, x) :
              Append(s, x)[i] = x \/ (i \in DOMAIN s /\ Append(s, x)[i] = s[i])
  OBVIOUS

LEMMA ReportTypes ==
  ASSUME TransportTypeInv
  PROVE  /\ epoch \in Nat /\ sessions \in Nat /\ gen.num \in Nat
         /\ \A i \in DOMAIN observers : observers[i].num \in Nat /\ observers[i].epoch \in Nat
<1>1. \A i \in DOMAIN observers : observers[i] \in Reports
  BY DEF TransportTypeInv
<1> QED BY <1>1 DEF TransportTypeInv, Reports, Gens

LEMMA CutFits ==
  ASSUME TransportTypeInv
  PROVE  /\ Cut \in [AllTopics -> Sides]
         /\ \A t \in AllTopics : Cut[t] = IF px[t] \in {"asked", "joined"} THEN "waiting" ELSE px[t]
         /\ CutLapses \in [Topics -> Nat]
  BY DEF TransportTypeInv, Cut, CutLapses, Sides

LEMMA ReleaseFits ==
  ASSUME TransportTypeInv
  PROVE  /\ ReleasedJoins \in [Topics -> {"none", "barrier", "resume", "leave", "flight"}]
         /\ \A t \in Topics : ReleasedJoins[t] = IF joining[t] = "barrier" THEN "resume" ELSE joining[t]
  BY DEF TransportTypeInv, ReleasedJoins

\* A generation goes on, or is over; if over of itself, it is reported.
GenMoves ==
  /\ gen' \in Gens /\ observers' \in Seq(Reports) /\ (observers # <<>> => observers' # <<>>)
  /\ gen' = NoGen \/ (gen'.num = gen.num /\ gen'.pending \subseteq gen.pending)
  /\ \A i \in DOMAIN observers' :
       \/ i \in DOMAIN observers /\ observers'[i] = observers[i]
       \/ /\ observers'[i] = [num |-> gen.num, epoch |-> epoch, session |-> sessions]
          /\ gen.num # 0 /\ gen' = NoGen

LEMMA SettleMoves ==
  ASSUME TransportTypeInv, NEW g \in Gens, g.num = gen.num, g.pending \subseteq gen.pending, Settle(g)
  PROVE  GenMoves
<1>1. NoGen \in Gens /\ observers \in Seq(Reports)
  BY DEF NoGen, Gens, TransportTypeInv
<1>2. CASE g.num # 0 /\ g.pending = {}
  <2> DEFINE r == [num |-> g.num, epoch |-> epoch, session |-> sessions]
  <2>1. gen' = NoGen /\ observers' = Append(observers, r)
    BY <1>2 DEF Settle
  <2>2. r \in Reports
    BY ReportTypes DEF Reports
  <2> HIDE DEF r
  <2>3. observers' \in Seq(Reports)
        /\ \A i \in DOMAIN observers' : observers'[i] = r \/ (i \in DOMAIN observers /\ observers'[i] = observers[i])
    BY <1>1, <2>1, <2>2, AppendKeeps
  <2> QED BY <1>1, <1>2, <2>1, <2>3 DEF GenMoves, r
<1>3. CASE ~(g.num # 0 /\ g.pending = {})
  BY <1>1, <1>3 DEF Settle, GenMoves
<1> QED BY <1>2, <1>3

LEMMA JoinSettledMoves ==
  ASSUME TransportTypeInv, NEW t \in AllTopics, NEW ok \in BOOLEAN, JoinSettled(t, ok)
  PROVE  GenMoves
<1> DEFINE g == IF t \in gen.pending
                  THEN [Without(t) EXCEPT !.joined = IF ok THEN @ \cup {t} ELSE @]
                  ELSE gen
<1>1. CASE run.closing
  BY <1>1 DEF JoinSettled, GenMoves, TransportTypeInv
<1>2. CASE ~run.closing
  <2>1. gen \in Gens /\ g \in Gens /\ g.num = gen.num /\ g.pending \subseteq gen.pending
    BY DEF TransportTypeInv, Gens, Without
  <2>2. Settle(g)
    BY <1>2 DEF JoinSettled
  <2> HIDE DEF g
  <2> QED BY <2>1, <2>2, SettleMoves
<1> QED BY <1>1, <1>2

LEMMA MovedReports ==
  ASSUME TransportInv, GenMoves, UNCHANGED <<epoch, sessions, genCount>>,
         run'.live => run.live, link' = link \/ (link = "connecting" /\ link' = "active")
  PROVE  ReportInv'
<1>1. TransportTypeInv /\ LifeInv /\ RecoveryInv /\ ReportInv
  BY DEF TransportInv
<1>2. gen.num # 0 => link \in {"connecting", "active"} /\ gen.num = genCount
  BY <1>1 DEF LifeInv, RecoveryInv
<1>3. SUFFICES ASSUME NEW i \in DOMAIN observers', NEW CONSTANT r, r = observers'[i] PROVE Timely(r)'
  BY DEF ReportInv, Timely
<1>4. CASE i \in DOMAIN observers /\ r = observers[i]
  <2>1. Timely(r)
    BY <1>1, <1>4 DEF ReportInv
  <2> QED BY <1>1, <2>1 DEF Timely, GenMoves, NoGen
<1>5. CASE r = [num |-> gen.num, epoch |-> epoch, session |-> sessions] /\ gen.num # 0 /\ gen' = NoGen
  BY <1>1, <1>2, <1>5, ReportTypes DEF Timely, NoGen, LifeInv
<1> QED BY <1>3, <1>4, <1>5 DEF GenMoves

\* A join that starts is the transport's only one of that topic.
RunMoves ==
  /\ run' \in [live : BOOLEAN, connected : BOOLEAN, closing : BOOLEAN]
  /\ run'.live = run.live /\ (run.closing => run'.closing)
  /\ run'.closing => ~run'.connected
  /\ ~run.live => run' = run
  /\ link' = link \/ (link = "connecting" /\ link' = "active")

----------------------------------------------------------------------------
(* BandLink's session.                                                     *)

LEMMA LinkConnectKeeps ==
  ASSUME TransportInv, LinkConnect
  PROVE  TransportInv'
<1>a. TransportTypeInv /\ LifeInv /\ ChannelInv /\ RecoveryInv /\ ReportInv /\ GapInv
  BY DEF TransportInv
<1>1. TransportTypeInv'
  <2>1. FreshRun \in [live : BOOLEAN, connected : BOOLEAN, closing : BOOLEAN]
    BY DEF FreshRun, EndedRun
  <2> QED BY <1>a, <2>1 DEF TransportTypeInv, LinkConnect, chanVars, joinVars, genVars, flushVars, gapVars
<1>2. LifeInv'
  BY <1>a DEF LifeInv, LinkConnect, chanVars, FreshRun, EndedRun
<1>3. ChannelInv'
  BY <1>a DEF ChannelInv, LinkConnect, chanVars, joinVars
<1>4. RecoveryInv'
  BY <1>a DEF LifeInv, RecoveryInv, LinkConnect, joinVars, genVars, flushVars
<1>5. ReportInv'
  BY <1>a DEF ReportInv, Timely, LinkConnect, flushVars
<1>6. GapInv'
  BY <1>a
    DEF TransportTypeInv, LifeInv, ChannelInv, RecoveryInv, GapInv, LinkConnect, chanVars, flushVars,
        gapVars, CatchUpFirst, AllTopics
<1> QED BY <1>1, <1>2, <1>3, <1>4, <1>5, <1>6 DEF TransportInv

LEMMA ConnectGivesUpKeeps ==
  ASSUME TransportInv, ConnectGivesUp
  PROVE  TransportInv'
<1>a. TransportTypeInv /\ LifeInv /\ ChannelInv /\ RecoveryInv /\ ReportInv /\ GapInv
  BY DEF TransportInv
<1>1. TransportTypeInv'
  BY <1>a, CutFits, ReleaseFits
    DEF TransportTypeInv, Gens, Sides, ConnectGivesUp, AbandonReconnect, NoGen, EndedRun
<1>2. LifeInv'
  BY <1>a DEF LifeInv, ConnectGivesUp, EndedRun
<1>3. ChannelInv'
  BY <1>a DEF ChannelInv, ConnectGivesUp, AbandonReconnect, ReleasedJoins, Cut
<1>4. RecoveryInv'
  BY <1>a DEF RecoveryInv, ConnectGivesUp, AbandonReconnect, ReleasedJoins, NoGen
<1>5. ReportInv'
  BY <1>a DEF ReportInv, Timely, ConnectGivesUp, EndedRun
<1>6. GapInv'
  BY <1>a DEF GapInv, ConnectGivesUp, AbandonReconnect, EndedRun, CatchUpFirst
<1> QED BY <1>1, <1>2, <1>3, <1>4, <1>5, <1>6 DEF TransportInv

LEMMA LinkDisconnectKeeps ==
  ASSUME TransportInv, LinkDisconnect
  PROVE  TransportInv'
<1>a. TransportTypeInv /\ LifeInv /\ ChannelInv /\ RecoveryInv /\ ReportInv /\ GapInv
  BY DEF TransportInv
<1>1. TransportTypeInv'
  <2>1. Registered \subseteq AllTopics /\ NoGen \in Gens
        /\ EndedRun \in [live : BOOLEAN, connected : BOOLEAN, closing : BOOLEAN]
    BY <1>a DEF TransportTypeInv, Registered, NoGen, Gens, EndedRun
  <2>2. px' \in [AllTopics -> Sides] /\ epoch' \in Nat
    BY <1>a DEF TransportTypeInv, LinkDisconnect, Sides
  <2>3. UNCHANGED <<sessions, wire, openedOnce, reg, regEpoch, husks, observers, lapse, caught>>
    BY DEF LinkDisconnect, gapVars
  <2>4. link' = "disconnecting" /\ teardown' \in [stage : {"none", "leaving", "closing"}, awaits : SUBSET AllTopics]
        /\ leaving' \subseteq AllTopics
    BY <1>a, <2>1 DEF TransportTypeInv, LinkDisconnect
  <2>5. run' \in [live : BOOLEAN, connected : BOOLEAN, closing : BOOLEAN] /\ gen' \in Gens
        /\ joining' \in [Topics -> {"none", "barrier", "resume", "leave", "flight"}]
        /\ genCount' \in Nat /\ buffering' \in Nat /\ barrier' \in BOOLEAN /\ buffer' \subseteq buffer
    <3>1. \/ run' = EndedRun /\ AbandonReconnect
          \/ UNCHANGED <<run, buffering, barrier, buffer, joining, genVars>>
      BY DEF LinkDisconnect
    <3>2. /\ ReleasedJoins \in [Topics -> {"none", "barrier", "resume", "leave", "flight"}]
            /\ joining \in [Topics -> {"none", "barrier", "resume", "leave", "flight"}]
            /\ buffering \in Nat /\ barrier \in BOOLEAN /\ genCount \in Nat /\ gen \in Gens
            /\ run \in [live : BOOLEAN, connected : BOOLEAN, closing : BOOLEAN]
      BY <1>a, ReleaseFits DEF TransportTypeInv
    <3>3. CASE UNCHANGED <<run, buffering, barrier, buffer, joining, genVars>>
      BY <3>2, <3>3 DEF genVars
    <3>4. CASE run' = EndedRun /\ AbandonReconnect
      BY <2>1, <3>2, <3>4 DEF AbandonReconnect
    <3> QED BY <3>1, <3>3, <3>4
  <2>6. UNCHANGED observing
    BY DEF LinkDisconnect
  <2> QED BY <1>a, <2>2, <2>3, <2>4, <2>5, <2>6 DEF TransportTypeInv
<1>2. LifeInv'
  BY <1>a DEF LifeInv, LinkDisconnect, EndedRun
<1>3. ChannelInv'
  BY <1>a DEF TransportTypeInv, ChannelInv, LinkDisconnect, AbandonReconnect, ReleasedJoins
<1>4. RecoveryInv'
  BY <1>a DEF RecoveryInv, LinkDisconnect, AbandonReconnect, ReleasedJoins, NoGen, genVars
<1>5. ReportInv'
  <2>1. epoch' = epoch + 1 /\ UNCHANGED observers
    BY DEF LinkDisconnect
  <2> QED BY <1>a, <2>1, ReportTypes DEF ReportInv, Timely
<1>6. GapInv'
  BY <1>a DEF RecoveryInv, GapInv, LinkDisconnect, AbandonReconnect, EndedRun, gapVars, CatchUpFirst
<1> QED BY <1>1, <1>2, <1>3, <1>4, <1>5, <1>6 DEF TransportInv

LEMMA TeardownClosesKeeps ==
  ASSUME TransportInv, TeardownCloses
  PROVE  TransportInv'
<1>a. TransportTypeInv /\ LifeInv /\ ChannelInv /\ RecoveryInv /\ ReportInv /\ GapInv
  BY DEF TransportInv
<1>1. TransportTypeInv'
  BY <1>a, CutFits, ReleaseFits
    DEF TransportTypeInv, Gens, Sides, TeardownCloses, linkVars, joinVars, genVars, flushVars
<1>2. LifeInv'
  BY <1>a DEF LifeInv, TeardownCloses, linkVars
<1>3. ChannelInv'
  BY <1>a DEF ChannelInv, TeardownCloses, Cut, joinVars
<1>4. RecoveryInv'
  BY <1>a DEF RecoveryInv, TeardownCloses, joinVars, genVars, flushVars
<1>5. ReportInv'
  BY <1>a DEF LifeInv, ReportInv, Timely, TeardownCloses, flushVars
<1>6. GapInv'
  BY <1>a DEF LifeInv, RecoveryInv, GapInv, TeardownCloses, flushVars, CatchUpFirst
<1> QED BY <1>1, <1>2, <1>3, <1>4, <1>5, <1>6 DEF TransportInv

LEMMA TeardownEndsKeeps ==
  ASSUME TransportInv, TeardownEnds
  PROVE  TransportInv'
<1>a. TransportTypeInv /\ LifeInv /\ ChannelInv /\ RecoveryInv /\ ReportInv /\ GapInv
  BY DEF TransportInv
<1>1. TransportTypeInv'
  BY <1>a DEF TransportTypeInv, Sides, TeardownEnds, NoTeardown, genVars, flushVars, gapVars
<1>2. LifeInv'
  BY <1>a DEF LifeInv, TeardownEnds, NoTeardown, NoTeardown
<1>3. ChannelInv'
  BY <1>a DEF ChannelInv, TeardownEnds, AllTopics
<1>4. RecoveryInv'
  BY <1>a DEF LifeInv, RecoveryInv, TeardownEnds, genVars, flushVars
<1>5. ReportInv'
  BY <1>a DEF LifeInv, ReportInv, Timely, TeardownEnds, flushVars
<1>6. GapInv'
  BY <1>a DEF LifeInv, RecoveryInv, GapInv, TeardownEnds, flushVars, gapVars, CatchUpFirst
<1> QED BY <1>1, <1>2, <1>3, <1>4, <1>5, <1>6 DEF TransportInv

----------------------------------------------------------------------------
(* The socket and the reports.                                             *)

\* An open socket resends what is waiting, and begins a generation if it is a reconnect.
LEMMA OpenKeeps ==
  ASSUME TransportInv, Open
  PROVE  TransportInv'
<1>a. TransportTypeInv /\ LifeInv /\ ChannelInv /\ RecoveryInv /\ ReportInv /\ GapInv
  BY DEF TransportInv
<1>b. /\ run.live /\ wire = "closed" /\ link \in {"connecting", "active"} /\ teardown.stage = "none"
      /\ Control \notin husks \cup leaving /\ Control \in AllTopics
      /\ \A t \in AllTopics : px[t] \in {"none", "unsent", "waiting"}
      /\ openedOnce => reg[Control] = "joined"
  <2>1. run.live /\ wire = "closed"
    BY DEF Open
  <2> QED BY <1>a, <2>1 DEF TransportTypeInv, LifeInv, ChannelInv, Sides, AllTopics
<1>c. /\ wire' = "open"
      /\ UNCHANGED <<sessions, epoch, teardown, husks, leaving, joinVars, buffer, observers, observing, gapVars>>
      /\ \/ openedOnce /\ BeginGeneration
         \/ ~openedOnce /\ UNCHANGED <<genVars, buffering, barrier>>
  BY DEF Open
<1>d. /\ run' \in [live : BOOLEAN, connected : BOOLEAN, closing : BOOLEAN] /\ run'.live /\ ~run'.closing
      /\ link' = link \/ (link = "connecting" /\ link' = "active")
      /\ openedOnce' \in BOOLEAN /\ (openedOnce => openedOnce') /\ (openedOnce' => reg'[Control] = "joined")
      /\ px' \in [AllTopics -> Sides] /\ \A t \in AllTopics : px'[t] # "joined"
      /\ reg' \in [AllTopics -> {"none", "pending", "joined"}] /\ regEpoch' \in [AllTopics -> Nat]
      /\ \A t \in AllTopics \ {Control} : reg'[t] = reg[t] /\ regEpoch'[t] = regEpoch[t]
                                            /\ (px[t] = "none" => px'[t] = "none")
      /\ regEpoch'[Control] \in {regEpoch[Control], epoch} /\ (reg'[Control] # "none" => regEpoch'[Control] = epoch)
  <2> DEFINE resent == [t \in AllTopics |-> IF px[t] \in {"waiting", "unsent"} THEN "asked" ELSE px[t]]
  <2>1. resent \in [AllTopics -> Sides] /\ \A t \in AllTopics : resent[t] # "joined"
    BY <1>a, <1>b DEF TransportTypeInv, Sides
  <2>2. CASE IsJoined(Control)
    <3>1. MarkConnected /\ px' = resent /\ UNCHANGED <<reg, regEpoch>>
      BY <2>2 DEF Open
    <3>2. reg[Control] = "joined"
      BY <1>b, <2>2 DEF IsJoined, Registered
    <3> QED BY <1>a, <1>b, <2>1, <3>1, <3>2 DEF TransportTypeInv, ChannelInv, MarkConnected
  <2>3. CASE ~IsJoined(Control)
    <3>1. /\ run' = [run EXCEPT !.closing = FALSE] /\ reg' = [reg EXCEPT ![Control] = "pending"]
          /\ regEpoch' = IF reg[Control] = "none" THEN [regEpoch EXCEPT ![Control] = epoch] ELSE regEpoch
          /\ px' = IF reg[Control] = "none" THEN [resent EXCEPT ![Control] = "asked"] ELSE resent
          /\ UNCHANGED <<link, openedOnce>>
      BY <2>3 DEF Open
    <3>2. reg[Control] # "joined"
      BY <1>b, <2>3 DEF IsJoined, Registered
    <3>3. /\ run' \in [live : BOOLEAN, connected : BOOLEAN, closing : BOOLEAN] /\ run'.live /\ ~run'.closing
          /\ ~openedOnce
      BY <1>a, <1>b, <3>1, <3>2 DEF TransportTypeInv
    <3>4. reg[Control] # "none" => regEpoch[Control] = epoch
      BY <1>a, <1>b DEF ChannelInv
    <3>5. \A t \in AllTopics \ {Control} : px[t] = "none" => resent[t] = "none"
      OBVIOUS
    <3> HIDE DEF resent
    <3> QED BY <1>a, <1>b, <2>1, <3>1, <3>3, <3>4, <3>5 DEF TransportTypeInv, Sides
  <2> QED BY <2>2, <2>3
<1>1. TransportTypeInv'
  <2>1. gen' \in Gens /\ genCount' \in Nat /\ buffering' \in Nat /\ barrier' \in BOOLEAN
    <3>1. Registered \subseteq AllTopics /\ genCount \in Nat
      BY <1>a DEF TransportTypeInv, Registered
    <3>2. CASE BeginGeneration
      BY <3>1, <3>2 DEF BeginGeneration, Gens
    <3>3. CASE UNCHANGED <<genVars, buffering, barrier>>
      BY <1>a, <3>3 DEF TransportTypeInv, genVars
    <3> QED BY <1>c, <3>2, <3>3
  <2>2. link' \in {"idle", "connecting", "active", "failed", "disconnecting"}
    BY <1>a, <1>d DEF TransportTypeInv
  <2> QED BY <1>a, <1>c, <1>d, <2>1, <2>2 DEF TransportTypeInv, joinVars, gapVars
<1>2. LifeInv'
  BY <1>a, <1>b, <1>c, <1>d DEF LifeInv
<1>3. ChannelInv'
  <2>1. \A t \in Topics : t \in AllTopics \ {Control}
    BY TransportAssumption DEF AllTopics, Control
  <2>2. \A t \in Topics : /\ joining'[t] = "flight" <=> reg'[t] = "pending"
                          /\ reg'[t] = "joined" /\ t \notin leaving' => joining'[t] = "none"
    BY <1>a, <1>c, <1>d, <2>1 DEF ChannelInv, joinVars
  <2>3. ASSUME NEW t \in AllTopics
        PROVE  /\ regEpoch'[t] <= epoch'
               /\ teardown'.stage = "none" /\ reg'[t] # "none" => regEpoch'[t] = epoch'
               /\ t \in leaving' /\ reg'[t] = "joined" => px'[t] = "none"
               /\ t \in leaving' /\ reg'[t] = "pending" => regEpoch'[t] # epoch'
               /\ reg'[t] = "pending" /\ regEpoch'[t] = epoch' => px'[t] # "joined"
               /\ wire' = "closed" => px'[t] \notin {"asked", "joined"}
    <3>1. CASE t = Control
      BY <1>a, <1>b, <1>c, <1>d, <3>1 DEF TransportTypeInv, ChannelInv
    <3>2. CASE t # Control
      BY <1>a, <1>c, <1>d, <3>2 DEF ChannelInv
    <3> QED BY <3>1, <3>2
  <2> QED BY <2>2, <2>3 DEF ChannelInv
<1>4. RecoveryInv'
  BY <1>a, <1>b, <1>c, <1>d DEF TransportTypeInv, RecoveryInv, BeginGeneration, genVars, joinVars
<1>5. ReportInv'
  <2>1. ASSUME NEW i \in DOMAIN observers' PROVE Timely(observers[i]) /\ observers[i].num \in Nat
    BY <1>a, <1>c, <2>1, ReportTypes DEF ReportInv
  <2>2. gen'.num # 0 => \/ gen'.num = gen.num /\ genCount' = genCount
                        \/ gen'.num = genCount + 1 /\ genCount' = genCount + 1
    BY <1>c DEF BeginGeneration, genVars
  <2>3. genCount \in Nat /\ genCount' \in {genCount, genCount + 1} /\ link' \in {"connecting", "active"}
    BY <1>a, <1>b, <1>c, <1>d DEF TransportTypeInv, BeginGeneration, genVars
  <2> QED BY <1>b, <1>c, <2>1, <2>2, <2>3 DEF ReportInv, Timely
<1>6. GapInv'
  <2>1. \A t \in Topics : t \in AllTopics \ {Control}
    BY TransportAssumption DEF AllTopics, Control
  <2>2. \A e \in buffer : e.topic \in Topics
    BY <1>a DEF TransportTypeInv
  <2> QED BY <1>a, <1>b, <1>c, <1>d, <2>1, <2>2 DEF GapInv, Current, CatchUpFirst, joinVars, gapVars
<1> QED BY <1>1, <1>2, <1>3, <1>4, <1>5, <1>6 DEF TransportInv

LEMMA WireDropsKeeps ==
  ASSUME TransportInv, WireDrops
  PROVE  TransportInv'
<1>a. TransportTypeInv /\ LifeInv /\ ChannelInv /\ RecoveryInv /\ ReportInv /\ GapInv
  BY DEF TransportInv
<1>1. TransportTypeInv'
  BY <1>a, CutFits, ReleaseFits
    DEF TransportTypeInv, Gens, Sides, WireDrops, linkVars, joinVars, genVars, flushVars
<1>2. LifeInv'
  <2>1. /\ wire' = "closed" /\ run' = [run EXCEPT !.connected = FALSE]
        /\ UNCHANGED <<link, teardown, husks, leaving, reg, openedOnce>>
    BY DEF WireDrops, linkVars
  <2>2. run'.live = run.live /\ run'.closing = run.closing /\ ~run'.connected /\ (~run.live => run' = run)
    BY <1>a, <2>1 DEF TransportTypeInv, LifeInv, EndedRun
  <2> QED BY <1>a, <2>1, <2>2 DEF LifeInv
<1>3. ChannelInv'
  BY <1>a DEF ChannelInv, WireDrops, Cut, joinVars
<1>4. RecoveryInv'
  BY <1>a DEF RecoveryInv, WireDrops, joinVars, genVars, flushVars
<1>5. ReportInv'
  BY <1>a DEF ReportInv, Timely, WireDrops, linkVars, genVars, flushVars
<1>6. GapInv'
  BY <1>a
    DEF TransportTypeInv, ChannelInv, GapInv, WireDrops, Cut, CutLapses, joinVars, flushVars, Current,
        CatchUpFirst, AllTopics
<1> QED BY <1>1, <1>2, <1>3, <1>4, <1>5, <1>6 DEF TransportInv

LEMMA DiesKeeps ==
  ASSUME TransportInv, Dies
  PROVE  TransportInv'
<1>a. TransportTypeInv /\ LifeInv /\ ChannelInv /\ RecoveryInv /\ ReportInv /\ GapInv
  BY DEF TransportInv
<1>1. TransportTypeInv'
  BY <1>a, CutFits, ReleaseFits DEF TransportTypeInv, Gens, Sides, Dies, NoGen, EndedRun
<1>2. LifeInv'
  BY <1>a DEF LifeInv, Dies, EndedRun, AllTopics
<1>3. ChannelInv'
  BY <1>a DEF ChannelInv, Dies, ReleasedJoins, Cut, AllTopics
<1>4. RecoveryInv'
  BY <1>a DEF RecoveryInv, Dies, ReleasedJoins, NoGen
<1>5. ReportInv'
  BY <1>a DEF ReportInv, Timely, Dies, EndedRun
<1>6. GapInv'
  BY <1>a DEF GapInv, Dies, EndedRun, CatchUpFirst
<1> QED BY <1>1, <1>2, <1>3, <1>4, <1>5, <1>6 DEF TransportInv

LEMMA SupersedeKeeps ==
  ASSUME TransportInv, Supersede
  PROVE  TransportInv'
<1>a. TransportTypeInv /\ LifeInv /\ ChannelInv /\ RecoveryInv /\ ReportInv /\ GapInv
  BY DEF TransportInv
<1>1. TransportTypeInv'
  BY <1>a
    DEF TransportTypeInv, Gens, Supersede, DropLiveConnection, NoGen, linkVars, chanVars, joinVars,
        flushVars, gapVars
<1>2. LifeInv'
  BY <1>a DEF LifeInv, Supersede, DropLiveConnection, linkVars, chanVars
<1>3. ChannelInv'
  BY <1>a DEF ChannelInv, Supersede, chanVars, joinVars
<1>4. RecoveryInv'
  BY <1>a DEF RecoveryInv, Supersede, DropLiveConnection, NoGen, joinVars, flushVars
<1>5. ReportInv'
  BY <1>a DEF ReportInv, Timely, Supersede, DropLiveConnection, NoGen, linkVars, flushVars
<1>6. GapInv'
  BY <1>a DEF GapInv, Supersede, chanVars, joinVars, flushVars, gapVars, Current, CatchUpFirst
<1> QED BY <1>1, <1>2, <1>3, <1>4, <1>5, <1>6 DEF TransportInv

LEMMA ReportStartsKeeps ==
  ASSUME TransportInv, ReportStarts
  PROVE  TransportInv'
<1>a. TransportTypeInv /\ LifeInv /\ ChannelInv /\ RecoveryInv /\ ReportInv /\ GapInv
  BY DEF TransportInv
<1>b. \/ UNCHANGED observers
      \/ /\ observers' = Tail(observers) /\ observers' \in Seq(Reports) /\ observers # <<>>
         /\ \A i \in DOMAIN observers' : i + 1 \in DOMAIN observers /\ observers'[i] = observers[i + 1]
  <2>1. observers \in Seq(Reports) /\ (UNCHANGED observers \/ (observers # <<>> /\ observers' = Tail(observers)))
    BY <1>a DEF TransportTypeInv, ReportStarts
  <2>2. observers # <<>> => /\ Tail(observers) \in Seq(Reports)
                            /\ \A i \in DOMAIN Tail(observers) :
                                 i + 1 \in DOMAIN observers /\ Tail(observers)[i] = observers[i + 1]
    BY <2>1, TailKeeps
  <2> QED BY <2>1, <2>2
<1>1. TransportTypeInv'
  <2>1. observing' => observers' # <<>>
    BY DEF ReportStarts
  <2> QED BY <1>a, <1>b, <2>1
    DEF TransportTypeInv, ReportStarts, linkVars, socketVars, chanVars, joinVars, genVars, gapVars
<1>2. LifeInv'
  BY <1>a DEF LifeInv, ReportStarts, linkVars, socketVars, chanVars
<1>3. ChannelInv'
  BY <1>a DEF ChannelInv, ReportStarts, socketVars, chanVars, joinVars
<1>4. RecoveryInv'
  BY <1>a DEF RecoveryInv, ReportStarts, socketVars, joinVars, genVars
<1>5. ReportInv'
  <2>1. \A i \in DOMAIN observers' : \E j \in DOMAIN observers : observers'[i] = observers[j]
    BY <1>b
  <2> QED BY <1>a, <2>1 DEF ReportInv, Timely, ReportStarts, linkVars, socketVars, genVars
<1>6. GapInv'
  BY <1>a DEF GapInv, ReportStarts, socketVars, chanVars, joinVars, gapVars, Current, CatchUpFirst
<1> QED BY <1>1, <1>2, <1>3, <1>4, <1>5, <1>6 DEF TransportInv

\* The report of the generation being buffered for finds every channel that is back
\* caught up, so that what was held back reaches the agent after what was missed.
LEMMA ReportEndsKeeps ==
  ASSUME TransportInv, ReportEnds
  PROVE  TransportInv'
<1>a. TransportTypeInv /\ LifeInv /\ ChannelInv /\ RecoveryInv /\ ReportInv /\ GapInv
  BY DEF TransportInv
<1>b. \/ UNCHANGED observers
      \/ /\ observers' = Tail(observers) /\ observers' \in Seq(Reports) /\ observers # <<>>
         /\ \A i \in DOMAIN observers' : i + 1 \in DOMAIN observers /\ observers'[i] = observers[i + 1]
  <2>1. observers \in Seq(Reports) /\ (UNCHANGED observers \/ (observers # <<>> /\ observers' = Tail(observers)))
    BY <1>a DEF TransportTypeInv, ReportEnds
  <2>2. observers # <<>> => /\ Tail(observers) \in Seq(Reports)
                            /\ \A i \in DOMAIN Tail(observers) :
                                 i + 1 \in DOMAIN observers /\ Tail(observers)[i] = observers[i + 1]
    BY <2>1, TailKeeps
  <2> QED BY <2>1, <2>2
<1>1. TransportTypeInv'
  <2>1. caught' \in [Topics -> Nat]
    BY <1>a DEF TransportTypeInv, ReportEnds, CaughtUp
  <2>2. joining' \in [Topics -> {"none", "barrier", "resume", "leave", "flight"}]
        /\ buffering' \in Nat /\ barrier' \in BOOLEAN /\ buffer' \subseteq buffer
    <3>1. \/ buffering' = 0 /\ barrier' = FALSE /\ buffer' = {} /\ joining' = ReleasedJoins
          \/ UNCHANGED <<buffering, barrier, buffer, joining>>
      BY DEF ReportEnds
    <3>2. /\ ReleasedJoins \in [Topics -> {"none", "barrier", "resume", "leave", "flight"}]
            /\ joining \in [Topics -> {"none", "barrier", "resume", "leave", "flight"}]
            /\ buffering \in Nat /\ barrier \in BOOLEAN
      BY <1>a, ReleaseFits DEF TransportTypeInv
    <3>3. CASE UNCHANGED <<buffering, barrier, buffer, joining>>
      BY <3>2, <3>3
    <3>4. CASE buffering' = 0 /\ barrier' = FALSE /\ buffer' = {} /\ joining' = ReleasedJoins
      BY <3>2, <3>4
    <3> QED BY <3>1, <3>3, <3>4
  <2>3. ~observing' /\ UNCHANGED <<link, sessions, run, wire, openedOnce, epoch, genCount,
                                    teardown, reg, regEpoch, px, husks, leaving, gen, lapse>>
    BY DEF ReportEnds, linkVars, socketVars, chanVars, genVars
  <2> QED BY <1>a, <1>b, <2>1, <2>2, <2>3 DEF TransportTypeInv
<1>2. LifeInv'
  BY <1>a DEF LifeInv, ReportEnds, linkVars, socketVars, chanVars
<1>3. ChannelInv'
  <2>1. UNCHANGED <<wire, epoch, teardown, reg, regEpoch, px, leaving>>
    BY DEF ReportEnds, socketVars, chanVars
  <2>2. \A t \in Topics : joining'[t] = joining[t] \/ (joining[t] = "barrier" /\ joining'[t] = "resume")
    BY <1>a, ReleaseFits DEF ReportEnds
  <2> QED BY <1>a, <2>1, <2>2 DEF ChannelInv
<1>4. RecoveryInv'
  <2>1. UNCHANGED <<run, openedOnce, gen, genCount>> /\ buffer' \subseteq buffer
    BY DEF ReportEnds, socketVars, genVars
  <2>2. CASE UNCHANGED <<buffering, barrier, buffer, joining>>
    BY <1>a, <2>1, <2>2 DEF RecoveryInv
  <2>3. CASE /\ buffering' = 0 /\ barrier' = FALSE /\ buffer' = {} /\ joining' = ReleasedJoins
             /\ observers[1].epoch = epoch /\ observers[1].num = buffering
    <3>1. gen.num = 0
      <4>1. 1 \in DOMAIN observers
        BY <1>a, TailKeeps DEF TransportTypeInv, ReportEnds
      <4>2. run.live /\ gen.num # 0 => observers[1].num < gen.num
        BY <1>a, <2>3, <4>1 DEF ReportInv, Timely
      <4> QED BY <1>a, <2>3, <4>2, ReportTypes DEF RecoveryInv
    <3> QED BY <1>a, <2>1, <2>3, <3>1, ReleaseFits DEF RecoveryInv
  <2>4. Head(observers) = observers[1]
    OBVIOUS
  <2> QED BY <2>2, <2>3, <2>4 DEF ReportEnds
<1>5. ReportInv'
  <2>1. \A i \in DOMAIN observers' : \E j \in DOMAIN observers : observers'[i] = observers[j]
    BY <1>b
  <2> QED BY <1>a, <2>1 DEF ReportInv, Timely, ReportEnds, linkVars, socketVars, genVars
<1>6. GapInv'
  <2> DEFINE r == observers[1]
  <2>1. /\ UNCHANGED <<run, lapse, px, reg, regEpoch, epoch, leaving>>
        /\ caught' = IF InSession(r.session) THEN [t \in Topics |-> CaughtUp(t)] ELSE caught
        /\ \/ /\ r.epoch = epoch /\ r.num = buffering /\ buffering' = 0 /\ buffer' = {} /\ joining' = ReleasedJoins
              /\ overtaken' = overtaken \cup
                   {e.topic : e \in {x \in buffer : Current(x.topic) /\ x.lapse > caught'[x.topic]}}
           \/ UNCHANGED <<buffering, buffer, joining, overtaken>>
    <3>1. Head(observers) = r
      OBVIOUS
    <3> QED BY <3>1 DEF ReportEnds, socketVars, chanVars
  <2>2. \A t \in Topics : px[t] = "joined" /\ run.live => caught'[t] \in {caught[t], lapse[t]}
    BY <1>a, <2>1 DEF TransportTypeInv, CaughtUp
  <2>3. \A t \in Topics : Current(t)' <=> Current(t)
    BY <2>1 DEF Current
  <2>7. \A t \in Topics : run.live /\ ~run.closing /\ buffering = 0 /\ px[t] = "joined" /\ Current(t)
                            => lapse[t] <= caught'[t]
    <3>1. \A t \in Topics : lapse[t] <= lapse[t]
      BY <1>a DEF TransportTypeInv
    <3>2. \A t \in Topics : run.live /\ ~run.closing /\ buffering = 0 /\ px[t] = "joined" /\ Current(t)
                              => lapse[t] <= caught[t]
      BY <1>a DEF GapInv
    <3> QED BY <2>2, <3>1, <3>2
  \* the report is of this session, so that all it flushes is caught up
  <2>4. CASE buffering # 0 /\ r.epoch = epoch /\ r.num = buffering /\ buffering' = 0 /\ buffer' = {}
    <3>1. run.live /\ InSession(r.session)
      <4>1. 1 \in DOMAIN observers
        BY <1>a, TailKeeps DEF TransportTypeInv, ReportEnds
      <4>2. r.session = sessions
        BY <1>a, <2>4, <4>1 DEF ReportInv, Timely
      <4> QED BY <1>a, <2>4, <4>2 DEF RecoveryInv, LifeInv, InSession
    <3>2. \A t \in Topics : caught'[t] = CaughtUp(t)
      BY <2>1, <3>1
    <3>3. \A e \in buffer : Current(e.topic) => ~(e.lapse > caught'[e.topic])
      <4>1. ASSUME NEW e \in buffer, Current(e.topic) PROVE ~(e.lapse > CaughtUp(e.topic))
        <5>1. /\ e.topic \in Topics /\ e.lapse \in Nat /\ lapse[e.topic] \in Nat /\ e.lapse <= lapse[e.topic]
              /\ px[e.topic] # "joined" => e.lapse < lapse[e.topic]
          BY <1>a, <4>1 DEF TransportTypeInv, GapInv
        <5> QED BY <5>1 DEF CaughtUp
      <4> QED BY <1>a, <3>2, <4>1 DEF TransportTypeInv
    <3>4. overtaken' = overtaken
      BY <2>1, <2>4, <3>3
    <3>5. \A t \in Topics : px[t] = "joined" => lapse[t] <= caught'[t]
      BY <1>a, <3>2 DEF TransportTypeInv, CaughtUp
    <3> QED BY <1>a, <2>1, <2>4, <3>4, <3>5 DEF GapInv, CatchUpFirst
  <2>5. CASE buffering = 0 /\ buffering' = 0
    <3>1. buffer = {} /\ UNCHANGED <<buffer, overtaken>>
      BY <1>a, <2>1, <2>5 DEF RecoveryInv
    <3> QED BY <1>a, <2>1, <2>3, <2>5, <2>7, <3>1 DEF GapInv, CatchUpFirst
  <2>6. CASE UNCHANGED <<buffering, buffer, joining, overtaken>>
    <3>2. \A e \in buffer : e.topic \in Topics
      BY <1>a DEF TransportTypeInv
    <3> QED BY <1>a, <2>1, <2>3, <2>6, <2>7, <3>2 DEF GapInv, CatchUpFirst
  <2> HIDE DEF r
  <2> QED BY <2>1, <2>4, <2>5, <2>6
<1> QED BY <1>1, <1>2, <1>3, <1>4, <1>5, <1>6 DEF TransportInv

----------------------------------------------------------------------------
(* The channels.                                                           *)

LEMMA PhoenixRejoinsKeeps ==
  ASSUME TransportInv, NEW t \in AllTopics, PhoenixRejoins(t)
  PROVE  TransportInv'
<1>a. TransportTypeInv /\ LifeInv /\ ChannelInv /\ RecoveryInv /\ ReportInv /\ GapInv
  BY DEF TransportInv
<1>1. TransportTypeInv'
  BY <1>a
    DEF TransportTypeInv, Sides, PhoenixRejoins, linkVars, socketVars, joinVars, genVars, flushVars,
        gapVars
<1>2. LifeInv'
  BY <1>a DEF LifeInv, PhoenixRejoins, linkVars, socketVars
<1>3. ChannelInv'
  BY <1>a DEF ChannelInv, PhoenixRejoins, socketVars, joinVars
<1>4. RecoveryInv'
  BY <1>a DEF RecoveryInv, PhoenixRejoins, socketVars, joinVars, genVars, flushVars
<1>5. ReportInv'
  BY <1>a DEF LifeInv, ReportInv, Timely, PhoenixRejoins, linkVars, genVars, flushVars
<1>6. GapInv'
  BY <1>a DEF GapInv, PhoenixRejoins, socketVars, joinVars, flushVars, gapVars, Current, CatchUpFirst
<1> QED BY <1>1, <1>2, <1>3, <1>4, <1>5, <1>6 DEF TransportInv

\* A channel that is back is caught up by itself, or its generation is still to be reported.
LEMMA JoinedKeeps ==
  ASSUME TransportInv, NEW t \in AllTopics, Joined(t)
  PROVE  TransportInv'
<1>a. TransportTypeInv /\ LifeInv /\ ChannelInv /\ RecoveryInv /\ ReportInv /\ GapInv
  BY DEF TransportInv
<1>b. /\ px[t] = "asked" /\ wire = "open" /\ Current(t)
      /\ px' = [px EXCEPT ![t] = "joined"] /\ reg' = [reg EXCEPT ![t] = "joined"] /\ husks' = husks \ {t}
      /\ UNCHANGED <<sessions, wire, epoch, teardown, regEpoch, leaving, genCount, buffering, barrier,
                     buffer, observing, lapse, overtaken>>
      /\ JoinSettled(t, TRUE)
  BY DEF Joined
<1>c. GenMoves
  BY <1>a, <1>b, JoinSettledMoves
<1>d. /\ RunMoves /\ openedOnce' \in BOOLEAN
      /\ (openedOnce => openedOnce') /\ (openedOnce' => openedOnce \/ t = Control)
  <2>1. \/ run.live /\ ~run.closing /\ MarkConnected /\ t = Control
        \/ UNCHANGED <<run, openedOnce, link, connected>>
    BY DEF Joined
  <2>2. CASE run.live /\ ~run.closing /\ MarkConnected /\ t = Control
    BY <1>a, <2>2 DEF TransportTypeInv, LifeInv, RunMoves, MarkConnected
  <2>3. CASE UNCHANGED <<run, openedOnce, link, connected>>
    BY <1>a, <2>3 DEF TransportTypeInv, LifeInv, RunMoves
  <2> QED BY <2>1, <2>2, <2>3
<1>e. /\ joining' \in [Topics -> {"none", "barrier", "resume", "leave", "flight"}]
      /\ caught' \in [Topics -> Nat]
      /\ \A u \in Topics \ {t} : joining'[u] = joining[u] /\ caught'[u] = caught[u]
      /\ t \in Topics => /\ joining'[t] = IF reg[t] = "pending" THEN "none" ELSE joining[t]
                         /\ caught'[t] = IF reg[t] = "pending" \/ RejoinCatchUp(t) THEN lapse[t] ELSE caught[t]
  <2>1. CASE t = Control
    BY <1>a, <2>1, TransportAssumption DEF Joined, TransportTypeInv, Control
  <2>2. CASE t # Control
    <3>1. /\ joining' = [joining EXCEPT ![t] = IF reg[t] = "pending" THEN "none" ELSE @]
          /\ caught' = [caught EXCEPT ![t] = IF reg[t] = "pending" \/ RejoinCatchUp(t) THEN lapse[t] ELSE @]
      BY <2>2 DEF Joined
    <3>2. /\ joining \in [Topics -> {"none", "barrier", "resume", "leave", "flight"}]
          /\ caught \in [Topics -> Nat] /\ lapse \in [Topics -> Nat] /\ t \in Topics
      BY <1>a, <2>2 DEF TransportTypeInv, AllTopics
    <3> QED BY <3>1, <3>2
  <2> QED BY <2>1, <2>2
<1>1. TransportTypeInv'
  <2>1. px' \in [AllTopics -> Sides] /\ reg' \in [AllTopics -> {"none", "pending", "joined"}]
        /\ husks' \subseteq AllTopics
    BY <1>a, <1>b DEF TransportTypeInv, Sides
  <2>2. link' \in {"idle", "connecting", "active", "failed", "disconnecting"}
        /\ run' \in [live : BOOLEAN, connected : BOOLEAN, closing : BOOLEAN]
    BY <1>a, <1>d DEF TransportTypeInv, RunMoves
  <2>3. observing' => observers' # <<>>
    BY <1>a, <1>b, <1>c DEF TransportTypeInv, GenMoves
  <2> QED BY <1>a, <1>b, <1>c, <1>d, <1>e, <2>1, <2>2, <2>3 DEF TransportTypeInv, GenMoves
<1>2. LifeInv'
  BY <1>a, <1>b, <1>d DEF TransportTypeInv, LifeInv, RunMoves
<1>3. ChannelInv'
  BY <1>a, <1>b, <1>e DEF TransportTypeInv, ChannelInv, Current, AllTopics
<1>4. RecoveryInv'
  <2>1. gen'.num = 0 => gen'.pending = {}
    BY <1>a, <1>c DEF RecoveryInv, GenMoves, NoGen
  <2>2. gen'.num # 0 => gen'.num = buffering' /\ gen'.num = genCount'
    BY <1>a, <1>b, <1>c DEF RecoveryInv, GenMoves, NoGen
  <2>3. \A u \in Topics : joining'[u] = "barrier" => barrier'
    <3>1. \A u \in Topics : joining'[u] \in {"none", joining[u]}
      BY <1>e
    <3> QED BY <1>a, <1>b, <3>1 DEF RecoveryInv
  <2> QED BY <1>a, <1>b, <1>d, <2>1, <2>2, <2>3 DEF RecoveryInv, RunMoves
<1>5. ReportInv'
  <2>1. TransportInv
    BY <1>a DEF TransportInv
  <2> QED BY <1>b, <1>c, <1>d, <2>1, MovedReports DEF RunMoves
<1>6. GapInv'
  <2>1. ASSUME NEW u \in Topics, run'.live, ~run'.closing, buffering' = 0, px'[u] = "joined", Current(u)'
        PROVE  lapse'[u] <= caught'[u]
    <3>1. CASE u = t
      \* a rejoin that no generation waits on is caught up on its own
      <4>1. reg[t] = "pending" \/ RejoinCatchUp(t)
        <5>1. gen.num = 0 /\ t \notin gen.pending
          BY <1>a, <1>b, <2>1 DEF RecoveryInv
        <5>2. ~run.closing /\ InSession(sessions)
          BY <1>a, <1>d, <2>1 DEF LifeInv, InSession, RunMoves
        <5>3. reg[t] = "pending" \/ IsJoined(t)
          BY <1>b DEF Current, IsJoined, Registered
        <5> QED BY <5>1, <5>2, <5>3 DEF RejoinCatchUp
      <4> QED BY <1>a, <1>b, <1>e, <3>1, <4>1 DEF TransportTypeInv
    <3>2. CASE u # t
      BY <1>a, <1>b, <1>d, <1>e, <2>1, <3>2 DEF TransportTypeInv, GapInv, Current, RunMoves
    <3> QED BY <3>1, <3>2
  <2>2. ASSUME NEW e \in buffer'
        PROVE  /\ e.lapse <= lapse'[e.topic]
               /\ Current(e.topic)' /\ px'[e.topic] # "joined" => e.lapse < lapse'[e.topic]
               /\ joining'[e.topic] \in {"none", "barrier"}
    BY <1>a, <1>b, <1>e, <2>2 DEF TransportTypeInv, GapInv, Current, AllTopics
  <2> QED BY <1>a, <1>b, <2>1, <2>2 DEF GapInv, CatchUpFirst
<1> QED BY <1>1, <1>2, <1>3, <1>4, <1>5, <1>6 DEF TransportInv

LEMMA JoinFailedKeeps ==
  ASSUME TransportInv, NEW t \in AllTopics, JoinFailed(t)
  PROVE  TransportInv'
<1>a. TransportTypeInv /\ LifeInv /\ ChannelInv /\ RecoveryInv /\ ReportInv /\ GapInv
  BY DEF TransportInv
<1>b. /\ Current(t) /\ (px[t] = "asked" \/ px[t] = "unsent")
      /\ UNCHANGED <<link, connected, sessions, wire, openedOnce, epoch, teardown, regEpoch, husks, leaving, genCount,
                     buffering, barrier, buffer, observing, lapse, caught, overtaken>>
      /\ \/ DropLiveConnection /\ run.live /\ UNCHANGED observers
         \/ JoinSettled(t, FALSE) /\ UNCHANGED run
  BY DEF JoinFailed, linkVars, gapVars
<1>c. GenMoves
  <2>1. CASE DropLiveConnection /\ UNCHANGED observers
    BY <1>a, <2>1 DEF TransportTypeInv, DropLiveConnection, GenMoves, NoGen, Gens
  <2>2. CASE JoinSettled(t, FALSE)
    BY <1>a, <2>2, JoinSettledMoves
  <2> QED BY <1>b, <2>1, <2>2
<1>d. RunMoves
  BY <1>a, <1>b DEF TransportTypeInv, LifeInv, RunMoves, DropLiveConnection
<1>e. /\ reg' \in [AllTopics -> {"none", "pending", "joined"}] /\ px' \in [AllTopics -> Sides]
      /\ joining' \in [Topics -> {"none", "barrier", "resume", "leave", "flight"}]
      /\ \A u \in AllTopics \ {t} : reg'[u] = reg[u] /\ px'[u] = px[u]
      /\ \A u \in Topics \ {t} : joining'[u] = joining[u]
      /\ \/ reg[t] = "pending" /\ reg'[t] = "none" /\ px'[t] = "none" /\ (t \in Topics => joining'[t] = "none")
         \/ /\ reg[t] # "pending" /\ reg'[t] = reg[t] /\ px'[t] = "waiting"
            /\ (t \in Topics => joining'[t] = joining[t])
  <2>1. /\ reg \in [AllTopics -> {"none", "pending", "joined"}] /\ px \in [AllTopics -> Sides]
        /\ joining \in [Topics -> {"none", "barrier", "resume", "leave", "flight"}]
        /\ t = Control => t \notin Topics
    BY <1>a, TransportAssumption DEF TransportTypeInv, Control
  <2>2. CASE reg[t] = "pending"
    <3>1. /\ reg' = [reg EXCEPT ![t] = "none"] /\ px' = [px EXCEPT ![t] = "none"]
          /\ joining' = IF t = Control THEN joining ELSE [joining EXCEPT ![t] = "none"]
      BY <2>2 DEF JoinFailed
    <3> QED BY <2>1, <2>2, <3>1 DEF Sides, AllTopics
  <2>3. CASE reg[t] # "pending"
    <3>1. px' = [px EXCEPT ![t] = "waiting"] /\ UNCHANGED <<reg, joining>>
      BY <2>3 DEF JoinFailed
    <3> QED BY <2>1, <2>3, <3>1 DEF Sides, AllTopics
  <2> QED BY <2>2, <2>3
<1>1. TransportTypeInv'
  <2>1. run' \in [live : BOOLEAN, connected : BOOLEAN, closing : BOOLEAN]
    BY <1>d DEF RunMoves
  <2>2. observing' => observers' # <<>>
    BY <1>a, <1>b, <1>c DEF TransportTypeInv, GenMoves
  <2> QED BY <1>a, <1>b, <1>c, <1>e, <2>1, <2>2 DEF TransportTypeInv, GenMoves
<1>2. LifeInv'
  <2>1. openedOnce /\ link # "disconnecting" => reg'[Control] = "joined"
    BY <1>a, <1>b, <1>e DEF LifeInv, AllTopics
  <2> QED BY <1>a, <1>b, <1>d, <2>1 DEF LifeInv, RunMoves
<1>3. ChannelInv'
  <2>1. \A u \in AllTopics : /\ reg'[u] # "none" => reg'[u] = reg[u]
                             /\ px'[u] \in {px[u], "none", "waiting"}
                             /\ u \in leaving /\ reg'[u] = "joined" => u # t
    BY <1>b, <1>e DEF Current
  <2>2. \A u \in Topics : /\ joining'[u] = "flight" <=> reg'[u] = "pending"
                          /\ reg'[u] = "joined" /\ u \notin leaving => joining'[u] = "none"
    <3>1. \A u \in Topics \ {t} : reg'[u] = reg[u] /\ joining'[u] = joining[u]
      BY <1>e DEF AllTopics
    <3>2. t \in Topics => reg'[t] # "pending" /\ joining'[t] # "flight"
                          /\ (reg'[t] # "none" => joining'[t] = joining[t])
      BY <1>a, <1>e DEF ChannelInv
    <3> QED BY <1>a, <1>b, <1>e, <3>1, <3>2 DEF ChannelInv, Current
  <2>3. \A u \in AllTopics : /\ reg'[u] = "pending" /\ regEpoch[u] = epoch => px'[u] # "joined"
                             /\ wire = "closed" => px'[u] \notin {"asked", "joined"}
                             /\ u \in leaving /\ reg'[u] = "joined" => px'[u] = "none"
    BY <1>a, <1>e, <2>1 DEF ChannelInv
  <2> QED BY <1>a, <1>b, <2>1, <2>2, <2>3 DEF ChannelInv
<1>4. RecoveryInv'
  <2>1. gen'.num = 0 => gen'.pending = {}
    BY <1>a, <1>c DEF RecoveryInv, GenMoves, NoGen
  <2>2. gen'.num # 0 => gen'.num = buffering' /\ gen'.num = genCount'
    BY <1>a, <1>b, <1>c DEF RecoveryInv, GenMoves, NoGen
  <2>3. \A u \in Topics : joining'[u] = "barrier" => barrier'
    <3>1. \A u \in Topics : joining'[u] \in {"none", joining[u]}
      BY <1>e
    <3> QED BY <1>a, <1>b, <3>1 DEF RecoveryInv
  <2> QED BY <1>a, <1>b, <1>d, <2>1, <2>2, <2>3 DEF RecoveryInv, RunMoves
<1>5. ReportInv'
  <2>1. TransportInv
    BY <1>a DEF TransportInv
  <2> QED BY <1>b, <1>c, <1>d, <2>1, MovedReports DEF RunMoves
<1>6. GapInv'
  <2>1. ASSUME NEW u \in Topics, run'.live, ~run'.closing, buffering' = 0, px'[u] = "joined", Current(u)'
        PROVE  lapse'[u] <= caught'[u]
    <3>1. u # t /\ u \in AllTopics
      BY <1>e, <2>1 DEF AllTopics
    <3> QED BY <1>a, <1>b, <1>d, <1>e, <2>1, <3>1 DEF GapInv, Current, RunMoves
  <2>2. ASSUME NEW e \in buffer'
        PROVE  /\ e.lapse <= lapse'[e.topic]
               /\ Current(e.topic)' /\ px'[e.topic] # "joined" => e.lapse < lapse'[e.topic]
               /\ joining'[e.topic] \in {"none", "barrier"}
    <3>1. e \in buffer /\ e.topic \in Topics /\ e.topic \in AllTopics
      BY <1>a, <1>b, <2>2 DEF TransportTypeInv, AllTopics
    <3>2. Current(e.topic)' => Current(e.topic)
      BY <1>b, <1>e, <3>1 DEF Current
    <3>3. px'[e.topic] # "joined" => px[e.topic] # "joined"
      BY <1>b, <1>e, <3>1
    <3>4. joining'[e.topic] \in {"none", joining[e.topic]}
      BY <1>e, <3>1
    <3> QED BY <1>a, <1>b, <3>1, <3>2, <3>3, <3>4 DEF GapInv
  <2> QED BY <1>a, <1>b, <2>1, <2>2 DEF GapInv, CatchUpFirst
<1> QED BY <1>1, <1>2, <1>3, <1>4, <1>5, <1>6 DEF TransportInv

LEMMA JoinReplyStaleKeeps ==
  ASSUME TransportInv, NEW t \in AllTopics, NEW ok \in BOOLEAN, JoinReplyStale(t, ok)
  PROVE  TransportInv'
<1>a. TransportTypeInv /\ LifeInv /\ ChannelInv /\ RecoveryInv /\ ReportInv /\ GapInv
  BY DEF TransportInv
<1>1. TransportTypeInv'
  BY <1>a
    DEF TransportTypeInv, Sides, JoinReplyStale, linkVars, socketVars, joinVars, genVars, flushVars,
        gapVars
<1>2. LifeInv'
  BY <1>a DEF LifeInv, JoinReplyStale, linkVars, socketVars
<1>3. ChannelInv'
  BY <1>a DEF ChannelInv, JoinReplyStale, socketVars, joinVars, Current
<1>4. RecoveryInv'
  BY <1>a DEF RecoveryInv, JoinReplyStale, socketVars, joinVars, genVars, flushVars
<1>5. ReportInv'
  BY <1>a DEF LifeInv, ReportInv, Timely, JoinReplyStale, linkVars, genVars, flushVars
<1>6. GapInv'
  BY <1>a DEF GapInv, JoinReplyStale, socketVars, joinVars, flushVars, gapVars, Current, CatchUpFirst
<1> QED BY <1>1, <1>2, <1>3, <1>4, <1>5, <1>6 DEF TransportInv

\* A leave lets go of what was held back for its topic, and of the generation's wait for it.
LEMMA LeaveReplyKeeps ==
  ASSUME TransportInv, NEW t \in AllTopics, NEW ok \in BOOLEAN, LeaveReply(t, ok)
  PROVE  TransportInv'
<1>a. TransportTypeInv /\ LifeInv /\ ChannelInv /\ RecoveryInv /\ ReportInv /\ GapInv
  BY DEF TransportInv
<1> DEFINE left == reg[t] = "joined" /\ px[t] = "none"
<1>b. /\ t \in leaving /\ leaving' = leaving \ {t}
      /\ teardown' = [teardown EXCEPT !.awaits = @ \ {t}]
      /\ reg' = IF left THEN [reg EXCEPT ![t] = "none"] ELSE reg
      /\ husks' \subseteq husks \cup {t}
      /\ UNCHANGED <<link, sessions, run, wire, openedOnce, epoch, regEpoch, px, joining, genCount, buffering,
                     barrier, observing, lapse, caught, overtaken>>
      /\ \/ Settle(Without(t)) /\ buffer' = {e \in buffer : e.topic # t}
         \/ UNCHANGED <<gen, observers, buffer>>
  BY DEF LeaveReply, linkVars, socketVars, joinVars, gapVars
<1>c. GenMoves
  <2>1. Without(t) \in Gens /\ Without(t).num = gen.num /\ Without(t).pending \subseteq gen.pending
    BY <1>a DEF TransportTypeInv, Gens, Without
  <2>2. CASE Settle(Without(t))
    BY <1>a, <2>1, <2>2, SettleMoves
  <2>3. CASE UNCHANGED <<gen, observers>>
    BY <1>a, <2>3 DEF TransportTypeInv, GenMoves
  <2> QED BY <1>b, <2>2, <2>3
<1>d. /\ reg' \in [AllTopics -> {"none", "pending", "joined"}]
      /\ \A u \in AllTopics \ {t} : reg'[u] = reg[u]
      /\ reg'[t] = IF reg[t] = "joined" THEN "none" ELSE reg[t]
      /\ teardown'.stage = teardown.stage
      /\ teardown' \in [stage : {"none", "leaving", "closing"}, awaits : SUBSET AllTopics]
      /\ teardown = NoTeardown => teardown' = NoTeardown
  <2>1. reg \in [AllTopics -> {"none", "pending", "joined"}] /\ (left <=> reg[t] = "joined")
    BY <1>a, <1>b DEF TransportTypeInv, ChannelInv
  <2>2. teardown \in [stage : {"none", "leaving", "closing"}, awaits : SUBSET AllTopics]
    BY <1>a DEF TransportTypeInv
  <2> HIDE DEF left
  <2> QED BY <1>b, <2>1, <2>2 DEF NoTeardown
<1> HIDE DEF left
<1>1. TransportTypeInv'
  <2>1. observing' => observers' # <<>>
    BY <1>a, <1>b, <1>c DEF TransportTypeInv, GenMoves
  <2>2. buffer' \subseteq buffer /\ husks' \subseteq AllTopics /\ leaving' \subseteq AllTopics
    BY <1>a, <1>b DEF TransportTypeInv
  <2> QED BY <1>a, <1>b, <1>c, <1>d, <2>1, <2>2 DEF TransportTypeInv, GenMoves
<1>2. LifeInv'
  <2>1. link # "disconnecting" => t # Control
    BY <1>a, <1>b DEF LifeInv
  <2> QED BY <1>a, <1>b, <1>d, <2>1 DEF LifeInv, AllTopics
<1>3. ChannelInv'
  BY <1>a, <1>b, <1>d DEF TransportTypeInv, ChannelInv, AllTopics
<1>4. RecoveryInv'
  <2>1. gen'.num = 0 => gen'.pending = {}
    BY <1>a, <1>c DEF RecoveryInv, GenMoves, NoGen
  <2>2. gen'.num # 0 => gen'.num = buffering' /\ gen'.num = genCount'
    BY <1>a, <1>b, <1>c DEF RecoveryInv, GenMoves, NoGen
  <2> QED BY <1>a, <1>b, <2>1, <2>2 DEF RecoveryInv
<1>5. ReportInv'
  <2>1. TransportInv
    BY <1>a DEF TransportInv
  <2> QED BY <1>b, <1>c, <2>1, MovedReports
<1>6. GapInv'
  <2>1. \A u \in AllTopics : Current(u)' => Current(u)
    BY <1>b, <1>d DEF Current
  <2>2. buffer' \subseteq buffer /\ \A e \in buffer : e.topic \in AllTopics
    BY <1>a, <1>b DEF TransportTypeInv, AllTopics
  <2> QED BY <1>a, <1>b, <2>1, <2>2 DEF GapInv, CatchUpFirst, AllTopics
<1> QED BY <1>1, <1>2, <1>3, <1>4, <1>5, <1>6 DEF TransportInv

LEMMA ChannelDropsKeeps ==
  ASSUME TransportInv, NEW t \in Topics, ChannelDrops(t)
  PROVE  TransportInv'
<1>a. TransportTypeInv /\ LifeInv /\ ChannelInv /\ RecoveryInv /\ ReportInv /\ GapInv
  BY DEF TransportInv
<1>1. TransportTypeInv'
  BY <1>a
    DEF TransportTypeInv, Sides, ChannelDrops, linkVars, socketVars, joinVars, genVars, flushVars,
        AllTopics
<1>2. LifeInv'
  BY <1>a DEF LifeInv, ChannelDrops, linkVars, socketVars
<1>3. ChannelInv'
  BY <1>a DEF ChannelInv, ChannelDrops, socketVars, joinVars
<1>4. RecoveryInv'
  BY <1>a DEF RecoveryInv, ChannelDrops, socketVars, joinVars, genVars, flushVars
<1>5. ReportInv'
  BY <1>a DEF LifeInv, ReportInv, Timely, ChannelDrops, linkVars, genVars, flushVars
<1>6. GapInv'
  BY <1>a
    DEF TransportTypeInv, GapInv, ChannelDrops, socketVars, joinVars, flushVars, Current, CatchUpFirst,
        AllTopics
<1> QED BY <1>1, <1>2, <1>3, <1>4, <1>5, <1>6 DEF TransportInv

LEMMA JoinKeeps ==
  ASSUME TransportInv, NEW t \in Topics, Join(t)
  PROVE  TransportInv'
<1>a. TransportTypeInv /\ LifeInv /\ ChannelInv /\ RecoveryInv /\ ReportInv /\ GapInv
  BY DEF TransportInv
<1>1. TransportTypeInv'
  BY <1>a DEF TransportTypeInv, Join, linkVars, socketVars, chanVars, genVars, flushVars, gapVars
<1>2. LifeInv'
  BY <1>a DEF LifeInv, Join, linkVars, socketVars, chanVars
<1>3. ChannelInv'
  BY <1>a DEF ChannelInv, Join, IsJoined, Registered, socketVars, chanVars, AllTopics
<1>4. RecoveryInv'
  BY <1>a DEF RecoveryInv, Join, socketVars, genVars, flushVars
<1>5. ReportInv'
  BY <1>a DEF ReportInv, Timely, Join, linkVars, socketVars, genVars, flushVars
<1>6. GapInv'
  BY <1>a DEF RecoveryInv, GapInv, Join, socketVars, chanVars, flushVars, gapVars, Current, CatchUpFirst
<1> QED BY <1>1, <1>2, <1>3, <1>4, <1>5, <1>6 DEF TransportInv

LEMMA JoinResumesKeeps ==
  ASSUME TransportInv, NEW t \in Topics, JoinResumes(t)
  PROVE  TransportInv'
<1>a. TransportTypeInv /\ LifeInv /\ ChannelInv /\ RecoveryInv /\ ReportInv /\ GapInv
  BY DEF TransportInv
<1>1. TransportTypeInv'
  <2>1. CASE joining' = [joining EXCEPT ![t] = "none"] /\ UNCHANGED <<reg, regEpoch, px>>
    BY <1>a, <2>1 DEF TransportTypeInv, JoinResumes, linkVars, socketVars, genVars, flushVars, gapVars
  <2>2. CASE joining' = [joining EXCEPT ![t] = "leave"] /\ UNCHANGED <<reg, regEpoch, px>>
    BY <1>a, <2>2 DEF TransportTypeInv, JoinResumes, linkVars, socketVars, genVars, flushVars, gapVars
  <2>3. CASE DoJoin(t)
    BY <1>a, <2>3
      DEF TransportTypeInv, JoinResumes, DoJoin, Sides, AllTopics, linkVars, socketVars, genVars,
          flushVars, gapVars
  <2> QED BY <2>1, <2>2, <2>3 DEF JoinResumes
<1>2. LifeInv'
  BY <1>a
    DEF TransportTypeInv, LifeInv, JoinResumes, DoJoin, IsJoined, Registered, linkVars, socketVars,
        AllTopics
<1>3. ChannelInv'
  <2>1. CASE /\ UNCHANGED <<reg, regEpoch, px>>
             /\ (joining' = [joining EXCEPT ![t] = "none"] \/ joining' = [joining EXCEPT ![t] = "leave"])
    BY <1>a, <2>1 DEF TransportTypeInv, ChannelInv, JoinResumes, socketVars
  <2>2. CASE DoJoin(t) /\ t \notin leaving
    BY <1>a, <2>2 DEF TransportTypeInv, ChannelInv, JoinResumes, DoJoin, AllTopics, socketVars
  <2> QED BY <2>1, <2>2 DEF JoinResumes
<1>4. RecoveryInv'
  BY <1>a DEF TransportTypeInv, RecoveryInv, JoinResumes, DoJoin, socketVars, genVars, flushVars
<1>5. ReportInv'
  BY <1>a DEF ReportInv, Timely, JoinResumes, linkVars, socketVars, genVars, flushVars
<1>6. GapInv'
  <2>1. UNCHANGED <<run, buffering, epoch, leaving, lapse, caught, buffer, overtaken>>
    BY DEF JoinResumes, socketVars, flushVars, gapVars
  <2>2. \A u \in AllTopics \ {t} : reg'[u] = reg[u] /\ regEpoch'[u] = regEpoch[u] /\ px'[u] = px[u]
    BY <1>a DEF TransportTypeInv, JoinResumes, DoJoin
  <2>3. \A u \in Topics \ {t} : joining'[u] = joining[u]
    BY <1>a DEF TransportTypeInv, JoinResumes, DoJoin
  <2>4. px'[t] = "joined" => UNCHANGED <<reg, regEpoch, px>>
    BY <1>a DEF TransportTypeInv, JoinResumes, DoJoin, AllTopics
  \* while an event of it is buffered a topic is not joined
  <2>5. \A e \in buffer : e.topic \in Topics /\ e.topic # t
    BY <1>a DEF TransportTypeInv, GapInv, JoinResumes
  <2> QED BY <1>a, <2>1, <2>2, <2>3, <2>4, <2>5 DEF GapInv, Current, CatchUpFirst, AllTopics
<1> QED BY <1>1, <1>2, <1>3, <1>4, <1>5, <1>6 DEF TransportInv

LEMMA JoinAfterLeaveKeeps ==
  ASSUME TransportInv, NEW t \in Topics, JoinAfterLeave(t)
  PROVE  TransportInv'
<1>a. TransportTypeInv /\ LifeInv /\ ChannelInv /\ RecoveryInv /\ ReportInv /\ GapInv
  BY DEF TransportInv
<1>1. TransportTypeInv'
  BY <1>a
    DEF TransportTypeInv, Sides, JoinAfterLeave, DoJoin, linkVars, socketVars, genVars, flushVars,
        gapVars, AllTopics
<1>2. LifeInv'
  BY <1>a, TransportAssumption DEF LifeInv, JoinAfterLeave, DoJoin, linkVars, socketVars, Control
<1>3. ChannelInv'
  BY <1>a DEF TransportTypeInv, ChannelInv, JoinAfterLeave, DoJoin, socketVars, AllTopics
<1>4. RecoveryInv'
  BY <1>a DEF RecoveryInv, JoinAfterLeave, DoJoin, socketVars, genVars, flushVars
<1>5. ReportInv'
  BY <1>a DEF ReportInv, Timely, JoinAfterLeave, linkVars, socketVars, genVars, flushVars
<1>6. GapInv'
  BY <1>a
    DEF TransportTypeInv, GapInv, JoinAfterLeave, DoJoin, socketVars, flushVars, gapVars, Current,
        CatchUpFirst
<1> QED BY <1>1, <1>2, <1>3, <1>4, <1>5, <1>6 DEF TransportInv

LEMMA LeaveKeeps ==
  ASSUME TransportInv, NEW t \in Topics, Leave(t)
  PROVE  TransportInv'
<1>a. TransportTypeInv /\ LifeInv /\ ChannelInv /\ RecoveryInv /\ ReportInv /\ GapInv
  BY DEF TransportInv
<1>1. TransportTypeInv'
  BY <1>a
    DEF TransportTypeInv, Sides, Leave, IsJoined, Registered, linkVars, socketVars, joinVars, genVars,
        flushVars, gapVars
<1>2. LifeInv'
  BY <1>a, TransportAssumption DEF LifeInv, Leave, linkVars, socketVars, Control
<1>3. ChannelInv'
  BY <1>a DEF TransportTypeInv, ChannelInv, Leave, socketVars, joinVars
<1>4. RecoveryInv'
  BY <1>a DEF RecoveryInv, Leave, socketVars, joinVars, genVars, flushVars
<1>5. ReportInv'
  BY <1>a DEF ReportInv, Timely, Leave, linkVars, socketVars, genVars, flushVars
<1>6. GapInv'
  BY <1>a DEF GapInv, Leave, socketVars, joinVars, flushVars, gapVars, Current, CatchUpFirst
<1> QED BY <1>1, <1>2, <1>3, <1>4, <1>5, <1>6 DEF TransportInv

LEMMA MessageKeeps ==
  ASSUME TransportInv, NEW t \in Topics, Message(t)
  PROVE  TransportInv'
<1>a. TransportTypeInv /\ LifeInv /\ ChannelInv /\ RecoveryInv /\ ReportInv /\ GapInv
  BY DEF TransportInv
<1>1. TransportTypeInv'
  BY <1>a DEF TransportTypeInv, Message, linkVars, socketVars, chanVars, joinVars, genVars
<1>2. LifeInv'
  BY <1>a DEF LifeInv, Message, linkVars, socketVars, chanVars
<1>3. ChannelInv'
  BY <1>a DEF ChannelInv, Message, socketVars, chanVars, joinVars
<1>4. RecoveryInv'
  BY <1>a DEF RecoveryInv, Message, socketVars, joinVars, genVars
<1>5. ReportInv'
  BY <1>a DEF LifeInv, ReportInv, Timely, Message, linkVars, genVars
<1>6. GapInv'
  <2>1. CASE buffering # 0
    BY <1>a, <2>1
      DEF TransportTypeInv, ChannelInv, GapInv, Message, socketVars, chanVars, joinVars, Current,
          CatchUpFirst, AllTopics
  <2>2. CASE buffering = 0
    BY <1>a, <2>2
      DEF TransportTypeInv, LifeInv, GapInv, Message, socketVars, chanVars, joinVars, Current,
          CatchUpFirst, AllTopics, EndedRun
  <2> QED BY <2>1, <2>2, <1>a DEF TransportTypeInv
<1> QED BY <1>1, <1>2, <1>3, <1>4, <1>5, <1>6 DEF TransportInv

----------------------------------------------------------------------------
(* All of it.                                                              *)

LEMMA InitTransport == TransportInit => TransportInv
<1> SUFFICES ASSUME TransportInit PROVE TransportInv
  OBVIOUS
<1>1. TransportTypeInv
  <2>1. NoGen \in Gens /\ <<>> \in Seq(Reports)
        /\ EndedRun \in [live : BOOLEAN, connected : BOOLEAN, closing : BOOLEAN]
        /\ NoTeardown \in [stage : {"none", "leaving", "closing"}, awaits : SUBSET AllTopics]
    BY DEF NoGen, Gens, EndedRun, NoTeardown
  <2>2. observing => observers # <<>>
    BY DEF TransportInit
  <2> QED BY <2>1, <2>2 DEF TransportInit, TransportTypeInv, Sides
<1>2. LifeInv /\ ChannelInv /\ RecoveryInv
  BY DEF TransportInit, LifeInv, ChannelInv, RecoveryInv, NoGen, NoTeardown, EndedRun, AllTopics
<1>3. ReportInv /\ GapInv
  BY DEF TransportInit, ReportInv, GapInv, CatchUpFirst, EndedRun
<1> QED BY <1>1, <1>2, <1>3 DEF TransportInv

LEMMA TransportMoves ==
  ASSUME TransportInv, TransportNext
  PROVE  TransportInv'
<1>1. CASE LinkConnect \/ ConnectGivesUp \/ LinkDisconnect \/ TeardownCloses \/ TeardownEnds
  BY <1>1, LinkConnectKeeps, ConnectGivesUpKeeps, LinkDisconnectKeeps, TeardownClosesKeeps, TeardownEndsKeeps
<1>2. CASE Open \/ WireDrops \/ Dies \/ Supersede
  BY <1>2, OpenKeeps, WireDropsKeeps, DiesKeeps, SupersedeKeeps
<1>3. CASE ReportStarts \/ ReportEnds
  BY <1>3, ReportStartsKeeps, ReportEndsKeeps
<1>4. ASSUME NEW t \in AllTopics, PhoenixRejoins(t) \/ Joined(t) \/ JoinFailed(t)
      PROVE  TransportInv'
  BY <1>4, PhoenixRejoinsKeeps, JoinedKeeps, JoinFailedKeeps
<1>5. ASSUME NEW t \in AllTopics, NEW ok \in BOOLEAN, JoinReplyStale(t, ok) \/ LeaveReply(t, ok)
      PROVE  TransportInv'
  BY <1>5, JoinReplyStaleKeeps, LeaveReplyKeeps
<1>6. ASSUME NEW t \in Topics, ChannelDrops(t) \/ Join(t) \/ JoinResumes(t)
      PROVE  TransportInv'
  BY <1>6, ChannelDropsKeeps, JoinKeeps, JoinResumesKeeps
<1>7. ASSUME NEW t \in Topics, JoinAfterLeave(t) \/ Leave(t) \/ Message(t)
      PROVE  TransportInv'
  BY <1>7, JoinAfterLeaveKeeps, LeaveKeeps, MessageKeeps
<1> QED BY <1>1, <1>2, <1>3, <1>4, <1>5, <1>6, <1>7 DEF TransportNext

LEMMA TransportStutters == TransportInv /\ UNCHANGED transportVars => TransportInv'
<1> SUFFICES ASSUME TransportInv, UNCHANGED transportVars PROVE TransportInv'
  OBVIOUS
<1> USE DEF transportVars, linkVars, socketVars, chanVars, joinVars, genVars, flushVars, gapVars
<1>1. TransportTypeInv'
  BY DEF TransportInv, TransportTypeInv
<1>2. LifeInv' /\ ChannelInv' /\ RecoveryInv'
  BY DEF TransportInv, LifeInv, ChannelInv, RecoveryInv
<1>3. ReportInv' /\ GapInv'
  BY DEF TransportInv, ReportInv, Timely, GapInv, Current, CatchUpFirst
<1> QED BY <1>1, <1>2, <1>3 DEF TransportInv

LEMMA EventsFollow == TransportInv => CatchUpFirst /\ NothingOutlivesItsSession
<1> SUFFICES ASSUME TransportInv PROVE CatchUpFirst /\ NothingOutlivesItsSession
  OBVIOUS
<1>1. CatchUpFirst
  BY DEF TransportInv, GapInv
<1>2. NothingOutlivesItsSession
  <2>1. LifeInv /\ ChannelInv /\ RecoveryInv /\ barrier \in BOOLEAN
    BY DEF TransportInv, TransportTypeInv
  <2>2. teardown = NoTeardown => \A t \in AllTopics : reg[t] # "none" => regEpoch[t] = epoch
    BY <2>1 DEF ChannelInv, NoTeardown
  <2>3. barrier => run.live /\ IsJoined(Control)
    <3>1. barrier => run.live /\ link # "disconnecting" /\ openedOnce
      BY <2>1 DEF RecoveryInv, LifeInv
    <3> QED BY <2>1, <3>1 DEF LifeInv, IsJoined, Registered, AllTopics
  <2>4. (buffering # 0) = barrier
    BY <2>1 DEF RecoveryInv
  <2> QED BY <2>1, <2>2, <2>3, <2>4 DEF NothingOutlivesItsSession, RecoveryInv, ChannelInv
<1> QED BY <1>1, <1>2

----------------------------------------------------------------------------
(* The rooms' invariant.                                                   *)

ExecStates == {"none", "running", "stopping", "closing", "stopped", "failed"}
ExecRecords ==
  [room : Rooms \cup {None}, st : ExecStates, busy : BOOLEAN,
   budget : Budgets \cup {"none"}, graceful : BOOLEAN]

TeardownRecords ==
  [by : {"loop", "presence", "reset", "nobody"}, room : Rooms, exec : 0..MaxExecs,
   stage : {"unsubscribing", "stopping", "cleaning"}]

RoomsTypeInv ==
  /\ counts \in [starts : Nat, execs : 0..MaxExecs, calls : Nat]
  /\ exec \in [Ids -> ExecRecords]
  /\ executions \in [Rooms -> 0..MaxExecs]
  /\ midStart \in {"no"} \cup Budgets
  /\ budget \in Budgets /\ tracked \subseteq Rooms
  /\ teardowns \subseteq TeardownRecords
  \* the executions made so far are those numbered
  /\ \A e \in Ids : e > counts.execs => exec[e].st = "none"
  /\ \A r \in Rooms : executions[r] <= counts.execs
  /\ \A r \in Rooms : executions[r] # None => exec[executions[r]].room = r

\* Does execution e take work, within reach of a stop?
Working(e) == TakesWork(exec[e]) /\ e \notin late
NoneWorks == \A e \in Ids : ~Working(e)

\* It is found in the map.
FoundInv == \A e \in Ids : Working(e) => exec[e].room \in Rooms /\ executions[exec[e].room] = e

\* Whose turn it is.
GateInv ==
  /\ starting # "none" => startGate
  /\ presence \in {"connecting", "hydrating"} <=> starting = "presence"
  /\ status = "running" => starting = "none"
  /\ status \in {"not_started", "stopping", "stopped"} => ~startGate
  /\ presence = "stopping" <=> stopping = "leaving"
  /\ loop # "none" /\ stopping \notin {"loop", "rooms"} => startGate /\ starting = "none"
  \* the event loop leaves one room at a time
  /\ \A t \in teardowns : t.by = "loop" => loop = "running"
  /\ \A t, u \in teardowns : t.by = "loop" /\ u.by = "loop" => t = u
  \* and presence waits for the rooms it leaves, unless one failed
  /\ \A t \in teardowns : t.by = "presence" => stopping = "leaving"

\* Between stops, until a start has connected.
Quiet ==
  /\ stopping \in {"none", "start"}
  /\ ~startGate \/ starting \in {"queued", "failing"} \/ presence = "connecting"
QuietInv == Quiet => NoneWorks /\ ~linkUp

\* Presence, leaving its rooms, stops execution e, or lets its room's channel go first.
LeavesIt(t, e) ==
  /\ t.by = "presence"
  /\ \/ t.stage = "stopping" /\ t.exec = e
     \/ t.stage = "unsubscribing" /\ t.room = exec[e].room

\* What a stop has left to stop, unless a start was let in beside it or it has failed.
StopInv ==
  /\ stopping = "link" => NoneWorks
  /\ status = "stopping" =>
       /\ stopping \in {"loop", "rooms", "leaving", "cleanup", "link"}
       /\ stopping = "rooms" =>
            /\ loop # "running"
            /\ \A e \in Ids : Working(e) => e \in sweep \/ exec[e].room \in tracked
       /\ stopping = "leaving" =>
            \A e \in Ids : Working(e) => \E t \in teardowns : LeavesIt(t, e)
       /\ stopping = "cleanup" /\ ~errors => NoneWorks

RoomsInv == RoomsTypeInv /\ FoundInv /\ GateInv /\ QuietInv /\ StopInv /\ StopReachesJoiningRooms

----------------------------------------------------------------------------
(* What the steps do to the executions.                                    *)

\* Nothing takes work that did not.
WorkFades ==
  \A e \in Ids : Working(e)' =>
    Working(e) /\ exec'[e].room = exec[e].room /\ (exec'[e].st = "running" => exec[e].st = "running")

LEMMA NumbersFit == MaxExecs \in Nat /\ None \in 0..MaxExecs /\ Ids = (0..MaxExecs) \ {None}
<1>1. MaxExecs \in Nat
  BY AgentRoomsAssumption
<1> QED BY <1>1 DEF Ids, None

LEMMA StoppedFades ==
  ASSUME NEW x \in ExecRecords, NEW b \in {"none", "timed", "zero"}
  PROVE  /\ Stopped(x, b) \in ExecRecords /\ Stopped(x, b).room = x.room
         /\ Stopped(x, b).st # "running"
         /\ b = "zero" /\ x.st = "running" => Stopped(x, b).st = "closing"
         /\ x.st # "running" => Stopped(x, b) = x
  BY DEF Stopped, ExecRecords, ExecStates, Budgets

\* The execution a room gets is one of the map, or the next.
LEMMA GotFits ==
  ASSUME RoomsTypeInv, NEW r \in Rooms, Fits(r)
  PROVE  /\ Got(r) \in Ids
         /\ executions[r] = None => Got(r) = counts.execs + 1 /\ exec[Got(r)].st = "none"
         /\ executions[r] # None => Got(r) = executions[r] /\ exec[Got(r)].room = r
         /\ \A s \in Rooms : s # r => executions[s] # Got(r)
<1>1. counts.execs \in 0..MaxExecs /\ executions[r] \in 0..MaxExecs /\ MaxExecs \in Nat
  BY AgentRoomsAssumption DEF RoomsTypeInv
<1>2. CASE executions[r] = None
  BY <1>1, <1>2 DEF RoomsTypeInv, Fits, Got, Ids, None
<1>3. CASE executions[r] # None
  BY <1>1, <1>3 DEF RoomsTypeInv, Fits, Got, Ids, None
<1> QED BY <1>2, <1>3

LEMMA InitRooms == AgentRoomsInit => RoomsInv
<1> SUFFICES ASSUME AgentRoomsInit PROVE RoomsInv
  OBVIOUS
<1>1. \A e \in Ids : exec[e] = NoExec /\ exec[e].st = "none" /\ ~TakesWork(exec[e])
  BY DEF AgentRoomsInit, NoExec, TakesWork
<1>2. NoneWorks
  BY <1>1 DEF NoneWorks, Working
<1>3. RoomsTypeInv
  BY <1>1, AgentRoomsAssumption
  DEF AgentRoomsInit, RoomsTypeInv, NoExec, ExecRecords, ExecStates, Budgets, Ids, None
<1>4. FoundInv /\ GateInv /\ QuietInv /\ StopInv /\ StopReachesJoiningRooms
  BY <1>2 DEF AgentRoomsInit, FoundInv, GateInv, QuietInv, StopInv, StopReachesJoiningRooms, NoneWorks
<1> QED BY <1>3, <1>4 DEF RoomsInv

----------------------------------------------------------------------------
(* An execution of its own.                                                *)

\* What one execution does by itself: it ends its turns, closes, ends.
LEMMA ExecMoves ==
  ASSUME RoomsInv, NEW e \in Ids, Settles(e) \/ TurnFails(e) \/ Closes(e) \/ Ends(e)
  PROVE  RoomsInv'
<1>1. /\ exec' \in [Ids -> ExecRecords] /\ UNCHANGED <<executions, late, counts, midStart, budget>>
      /\ \A d \in Ids : /\ exec'[d].room = exec[d].room
                        /\ exec[d].st = "none" => exec'[d].st = "none"
                        /\ exec'[d].st = "running" => exec[d].st = "running"
                        /\ TakesWork(exec'[d]) => TakesWork(exec[d])
  <2>1. UNCHANGED <<executions, late, counts, midStart, budget>>
    BY DEF Settles, TurnFails, Closes, Ends, ownerVars, stopVars
  <2>2. exec \in [Ids -> ExecRecords] /\ exec[e] \in ExecRecords /\ exec[e].busy \in BOOLEAN
    BY DEF RoomsInv, RoomsTypeInv, ExecRecords
  <2>3. /\ exec' \in [Ids -> ExecRecords] /\ \A d \in Ids \ {e} : exec'[d] = exec[d]
        /\ exec[e].st # "none" /\ exec'[e].room = exec[e].room
        /\ exec'[e].st \in {exec[e].st, "closing", "failed", "stopped"}
    <3>1. CASE Settles(e)
      BY <2>2, <3>1 DEF Settles, ExecRecords, ExecStates
    <3>2. CASE TurnFails(e)
      BY <2>2, <3>2 DEF TurnFails, ExecRecords, ExecStates
    <3>3. CASE Closes(e)
      BY <2>2, <3>3 DEF Closes, ExecRecords, ExecStates
    <3>4. CASE Ends(e)
      BY <2>2, <3>4 DEF Ends, ExecRecords, ExecStates
    <3> QED BY <3>1, <3>2, <3>3, <3>4
  <2> QED BY <2>1, <2>2, <2>3 DEF TakesWork
<1>2. /\ UNCHANGED <<startGate, starting, presence, stopping, errors, sweep, teardowns, linkUp, tracked, loop>>
      /\ status' \in {status, "failed"}
  BY DEF Settles, TurnFails, FailRuntime, Closes, Ends, ownerVars, stopVars, presVars
<1>3. WorkFades
  BY <1>1 DEF WorkFades, Working
<1>4. RoomsTypeInv'
  BY <1>1, <1>2 DEF RoomsInv, RoomsTypeInv, Ids, None
<1>5. FoundInv'
  BY <1>1, <1>2, <1>3 DEF RoomsInv, FoundInv, WorkFades
<1>6. GateInv'
  BY <1>2 DEF RoomsInv, GateInv
<1>7. QuietInv'
  BY <1>2, <1>3 DEF RoomsInv, QuietInv, Quiet, NoneWorks, WorkFades
<1>8. StopInv'
  BY <1>1, <1>2, <1>3 DEF RoomsInv, StopInv, NoneWorks, WorkFades, LeavesIt
<1>9. StopReachesJoiningRooms'
  BY <1>1 DEF RoomsInv, RoomsTypeInv, StopReachesJoiningRooms, Ids, None
<1> QED BY <1>4, <1>5, <1>6, <1>7, <1>8, <1>9 DEF RoomsInv

\* An execution's stop settles: it takes work no longer, and what is found in its room's
\* place is beyond a stop's reach from now on.
LEMMA StoppedLeaves ==
  ASSUME RoomsInv, NEW e \in Ids, RoomStopped(e)
  PROVE  RoomsInv'
<1>1. /\ UNCHANGED <<exec, counts, midStart, budget>> /\ ~TakesWork(exec[e])
      /\ executions' = [executions EXCEPT ![exec[e].room] = None]
      /\ late' = late \cup ({executions[exec[e].room]} \ {e, None})
      /\ teardowns' = (teardowns \ AwaitedRooms(e)) \cup {[t EXCEPT !.stage = "cleaning"] : t \in AwaitedRooms(e)}
      /\ sweep' = sweep \ {e}
      /\ errors' = (errors \/ (e \in sweep /\ exec[e].st = "failed"))
  BY DEF RoomStopped, Evict, Ended, TakesWork, ownerVars, stopVars, presVars
<1>2. UNCHANGED <<status, startGate, starting, presence, stopping, linkUp, tracked, loop>>
  BY DEF RoomStopped, Evict, ownerVars, presVars
<1>3. \A d \in Ids : Working(d)' => Working(d) /\ d # e /\ executions'[exec[d].room] = d
  BY <1>1 DEF RoomsInv, RoomsTypeInv, FoundInv, Working, Ids, None
<1>4. RoomsTypeInv'
  <2>1. executions' \in [Rooms -> 0..MaxExecs]
    BY <1>1, NumbersFit DEF RoomsInv, RoomsTypeInv
  <2>2. \A r \in Rooms : executions'[r] \in {None, executions[r]}
    BY <1>1 DEF RoomsInv, RoomsTypeInv
  <2>3. \A r \in Rooms : executions'[r] <= counts.execs
    BY <2>2 DEF RoomsInv, RoomsTypeInv, None
  <2>4. teardowns' \subseteq TeardownRecords
    BY <1>1 DEF RoomsInv, RoomsTypeInv, AwaitedRooms, TeardownRecords
  <2> QED BY <1>1, <1>2, <2>1, <2>3, <2>4 DEF RoomsInv, RoomsTypeInv
<1>5. FoundInv'
  BY <1>1, <1>2, <1>3 DEF RoomsInv, FoundInv
<1>6. GateInv'
  <2>1. \A t \in teardowns' : \E u \in teardowns : t.by = u.by /\ t \in {u, [u EXCEPT !.stage = "cleaning"]}
                                                /\ (t = u => u \notin AwaitedRooms(e))
                                                /\ (t # u => u \in AwaitedRooms(e))
    BY <1>1 DEF RoomsInv, RoomsTypeInv, AwaitedRooms, TeardownRecords
  <2> QED BY <1>2, <2>1 DEF RoomsInv, GateInv
<1>7. QuietInv'
  BY <1>2, <1>3 DEF RoomsInv, QuietInv, Quiet, NoneWorks
<1>8. StopInv'
  <2>1. ASSUME NEW d \in Ids, d # e, NEW t \in teardowns, LeavesIt(t, d) PROVE t \in teardowns' /\ LeavesIt(t, d)'
    BY <1>1, <2>1 DEF AwaitedRooms, LeavesIt
  <2>2. errors => errors'
    BY <1>1
  <2>3. \A d \in Ids : d \in sweep /\ d # e => d \in sweep'
    BY <1>1
  <2> QED BY <1>1, <1>2, <1>3, <2>1, <2>2, <2>3 DEF RoomsInv, StopInv, NoneWorks
<1>9. StopReachesJoiningRooms'
  BY <1>1 DEF RoomsInv, RoomsTypeInv, StopReachesJoiningRooms, None
<1> QED BY <1>4, <1>5, <1>6, <1>7, <1>8, <1>9 DEF RoomsInv

\* A teardown's cleanup ends, and with an error perhaps the event loop, or the leaving.
LEMMA CleanedUp ==
  ASSUME RoomsInv, NEW t \in teardowns, NEW ok \in BOOLEAN, ExecTeardownEnds(t, ok)
  PROVE  RoomsInv'
<1>1. /\ UNCHANGED <<exec, executions, late, counts, midStart, startGate, starting, linkUp, tracked, sweep, budget>>
      /\ t.stage = "cleaning" /\ teardowns' \in {teardowns \ {t}, {Unheard(u) : u \in teardowns \ {t}}}
      /\ status' \in {status, "failed"}
      /\ \/ UNCHANGED <<presence, stopping, errors, loop>> /\ teardowns' = teardowns \ {t}
         \/ /\ UNCHANGED <<presence, stopping, errors>> /\ loop' = "rejected" /\ t.by = "loop"
            /\ teardowns' = teardowns \ {t}
         \/ /\ UNCHANGED <<loop, status>> /\ stopping = "leaving" /\ errors' /\ presence' = "idle" /\ stopping' = "cleanup"
            /\ teardowns' = {Unheard(u) : u \in teardowns \ {t}}
  <2>1. t.by = "presence" => stopping = "leaving"
    BY DEF RoomsInv, GateInv
  <2> QED BY <2>1 DEF ExecTeardownEnds, FailRuntime, stopVars
<1>u. \A u \in TeardownRecords : Unheard(u) \in TeardownRecords /\ (Unheard(u).by = "loop" => Unheard(u) = u)
                                 /\ Unheard(u).by # "presence"
  BY DEF TeardownRecords, Unheard
<1>v. teardowns \subseteq TeardownRecords
  BY DEF RoomsInv, RoomsTypeInv
<1>w. /\ teardowns' \subseteq TeardownRecords
      /\ \A u \in teardowns' : u.by = "loop" => u \in teardowns /\ u # t
      /\ \A u \in teardowns' : u.by = "presence" => u \in teardowns /\ stopping' = stopping
  BY <1>1, <1>u, <1>v
<1>2. RoomsTypeInv' /\ WorkFades
  BY <1>1, <1>w DEF RoomsInv, RoomsTypeInv, WorkFades, Working
<1>3. FoundInv'
  BY <1>1, <1>2 DEF RoomsInv, FoundInv, WorkFades
<1>4. GateInv'
  <2>1. t.by = "loop" => \A u \in teardowns' : u.by # "loop"
    BY <1>w DEF RoomsInv, GateInv
  <2> QED BY <1>1, <1>w, <2>1 DEF RoomsInv, GateInv
<1>5. QuietInv'
  BY <1>1, <1>2 DEF RoomsInv, QuietInv, Quiet, NoneWorks, WorkFades
<1>6. StopInv'
  <2>1. ASSUME NEW e \in Ids, NEW u \in teardowns, LeavesIt(u, e), stopping' = "leaving"
        PROVE  u \in teardowns' /\ LeavesIt(u, e)'
    BY <1>1, <2>1 DEF LeavesIt
  <2> QED BY <1>1, <1>2, <2>1 DEF RoomsInv, StopInv, NoneWorks, WorkFades
<1>7. StopReachesJoiningRooms'
  BY <1>1 DEF RoomsInv, StopReachesJoiningRooms
<1> QED BY <1>2, <1>3, <1>4, <1>5, <1>6, <1>7 DEF RoomsInv

----------------------------------------------------------------------------
(* The event loop, the start's joins, and the callers from outside.        *)

LEMMA FreshFits ==
  ASSUME RoomsTypeInv, NEW r \in Rooms
  PROVE  /\ FreshExec(r) \in ExecRecords /\ FreshExec(r).room = r
         /\ midStart # "no" => FreshExec(r).st # "running"
<1> DEFINE x == [NoExec EXCEPT !.room = r, !.st = "running", !.busy = TRUE]
<1>1. x \in ExecRecords /\ x.room = r
  BY DEF NoExec, ExecRecords, ExecStates
<1>2. midStart \in {"no"} \cup Budgets
  BY DEF RoomsTypeInv
<1>3. FreshExec(r) = IF midStart = "no" THEN x ELSE Stopped(x, midStart)
  BY DEF FreshExec
<1> HIDE DEF x
<1> QED BY <1>1, <1>2, <1>3, StoppedFades DEF Budgets

\* How many executions there are then.
NextCount(r) == IF executions[r] = None THEN counts.execs + 1 ELSE counts.execs
\* A room's execution, one of the map or a new one, is given an event or nothing.
RoomGets(r) ==
  /\ Fits(r)
  /\ executions' = [executions EXCEPT ![r] = Got(r)]
  /\ counts'.execs = NextCount(r) /\ counts' \in [starts : Nat, execs : Nat, calls : Nat]
  /\ late' = IF executions[r] = None
                /\ (status = "stopped" \/ stopping \in {"leaving", "cleanup", "link"})
               THEN late \cup {Got(r)} ELSE late
  /\ exec' \in {[exec EXCEPT ![Got(r)] = Pushed(r)],
                [exec EXCEPT ![Got(r)] = IF executions[r] = None THEN FreshExec(r) ELSE @]}
  /\ r \in tracked' /\ tracked \subseteq tracked' /\ tracked' \subseteq Rooms
  /\ UNCHANGED <<midStart, budget, teardowns>>

LEMMA RoomGetsOne ==
  ASSUME RoomsTypeInv, FoundInv, StopReachesJoiningRooms, NEW r \in Rooms, RoomGets(r)
  PROVE  /\ RoomsTypeInv' /\ FoundInv' /\ StopReachesJoiningRooms'
         /\ late \subseteq late'
         /\ \A e \in Ids : Working(e)' =>
              \/ Working(e) /\ exec'[e].room = exec[e].room
              \/ exec'[e].room = r /\ status # "stopped" /\ stopping \notin {"leaving", "cleanup", "link"}
<1> DEFINE n == Got(r)
           x == exec'[n]
<1>1. /\ n \in Ids
      /\ executions[r] = None => n = counts.execs + 1 /\ exec[n].st = "none"
      /\ executions[r] # None => n = executions[r] /\ exec[n].room = r
      /\ \A s \in Rooms : s # r => executions[s] # n
  BY GotFits DEF RoomGets
<1>2. /\ executions' = [executions EXCEPT ![r] = n]
      /\ counts'.execs = NextCount(r) /\ counts' \in [starts : Nat, execs : Nat, calls : Nat]
      /\ late' = IF executions[r] = None
                    /\ (status = "stopped" \/ stopping \in {"leaving", "cleanup", "link"})
                   THEN late \cup {n} ELSE late
      /\ UNCHANGED <<midStart, budget, teardowns>>
      /\ r \in tracked' /\ tracked \subseteq tracked' /\ tracked' \subseteq Rooms
  BY DEF RoomGets
<1>3. /\ exec' \in [Ids -> ExecRecords] /\ \A e \in Ids : e # n => exec'[e] = exec[e]
      /\ x.room = r
      /\ executions[r] # None => x.st = exec[n].st
      /\ executions[r] = None /\ midStart # "no" => x.st # "running"
  <2>1. exec \in [Ids -> ExecRecords] /\ FreshExec(r) \in ExecRecords /\ FreshExec(r).room = r
        /\ (midStart # "no" => FreshExec(r).st # "running")
    BY FreshFits DEF RoomsTypeInv
  <2>2. /\ Pushed(r) \in ExecRecords /\ Pushed(r).room = r
        /\ executions[r] # None => Pushed(r).st = exec[n].st
        /\ executions[r] = None => Pushed(r).st = FreshExec(r).st
    <3> DEFINE y == IF executions[r] = None THEN FreshExec(r) ELSE exec[executions[r]]
    <3>1. y \in ExecRecords /\ y.room = r /\ (executions[r] # None => y = exec[n])
          /\ (executions[r] = None => y = FreshExec(r))
      BY <1>1, <2>1
    <3>2. Pushed(r) = IF TakesWork(y) THEN [y EXCEPT !.busy = TRUE] ELSE y
      BY DEF Pushed
    <3> HIDE DEF y
    <3>3. Pushed(r) \in ExecRecords /\ Pushed(r).room = y.room /\ Pushed(r).st = y.st
      BY <3>1, <3>2 DEF ExecRecords
    <3> QED BY <3>1, <3>3
  <2>3. CASE exec' = [exec EXCEPT ![n] = Pushed(r)]
    BY <1>1, <2>1, <2>2, <2>3
  <2>4. CASE exec' = [exec EXCEPT ![n] = IF executions[r] = None THEN FreshExec(r) ELSE @]
    BY <1>1, <2>1, <2>4
  <2> QED BY <2>3, <2>4 DEF RoomGets
<1> HIDE DEF n, x
<1>4. RoomsTypeInv'
  <2>1. counts'.execs \in 0..MaxExecs /\ counts.execs <= counts'.execs /\ n <= counts'.execs
        /\ counts' \in [starts : Nat, execs : 0..MaxExecs, calls : Nat]
        /\ (executions[r] # None => counts'.execs = counts.execs)
    BY <1>1, <1>2, NumbersFit DEF RoomsTypeInv, Ids, NextCount
  <2>2. executions' \in [Rooms -> 0..MaxExecs]
    BY <1>1, <1>2, NumbersFit DEF RoomsTypeInv
  <2>3. \A s \in Rooms : executions'[s] <= counts'.execs
    BY <1>1, <1>2, <2>1, NumbersFit DEF RoomsTypeInv
  <2>4. \A s \in Rooms : executions'[s] # None => exec'[executions'[s]].room = s
    BY <1>1, <1>2, <1>3, NumbersFit DEF RoomsTypeInv, x
  <2>5. \A e \in Ids : e > counts'.execs => exec'[e].st = "none"
    BY <1>1, <1>2, <1>3, <2>1, NumbersFit DEF RoomsTypeInv
  <2> QED BY <1>2, <1>3, <2>1, <2>2, <2>3, <2>4, <2>5 DEF RoomsTypeInv
<1>5. \A e \in Ids : Working(e)' =>
        \/ e # n /\ Working(e) /\ exec'[e] = exec[e]
        \/ e = n /\ executions[r] # None /\ Working(e) /\ exec'[e].room = r /\ exec'[e].st = exec[e].st
        \/ e = n /\ executions[r] = None /\ exec'[e].room = r
           /\ status # "stopped" /\ stopping \notin {"leaving", "cleanup", "link"}
  BY <1>1, <1>2, <1>3 DEF Working, TakesWork, x
<1>6. FoundInv'
  <2> SUFFICES ASSUME NEW e \in Ids, Working(e)'
               PROVE  exec'[e].room \in Rooms /\ executions'[exec'[e].room] = e
    BY DEF FoundInv
  <2>1. CASE e = n
    BY <1>2, <1>5, <2>1 DEF RoomsTypeInv
  <2>2. CASE e # n
    <3>1. Working(e) /\ exec'[e] = exec[e] /\ e # None
      BY <1>5, <2>2, NumbersFit
    <3>2. exec[e].room \in Rooms /\ executions[exec[e].room] = e
      BY <3>1 DEF FoundInv
    <3>3. exec[e].room # r
      BY <1>1, <2>2, <3>1, <3>2
    <3> QED BY <1>2, <3>1, <3>2, <3>3 DEF RoomsTypeInv
  <2> QED BY <2>1, <2>2
<1>7. StopReachesJoiningRooms'
  BY <1>1, <1>2, <1>3, NumbersFit DEF StopReachesJoiningRooms, RoomsTypeInv, x
<1> QED BY <1>1, <1>2, <1>4, <1>5, <1>6, <1>7

\* Who is given an event while nothing may run: nobody.
LEMMA LoopGets ==
  ASSUME RoomsInv, NEW r \in Rooms, RoomJoins(r) \/ MessageArrives(r) \/ Hydrates(r) \/ BootstrapRoom(r)
  PROVE  RoomsInv'
<1>1. /\ RoomGets(r)
      /\ UNCHANGED <<startGate, starting, presence, stopping, errors, sweep, teardowns, linkUp>>
      /\ \/ UNCHANGED <<status, loop>>
         \/ status' \in {status, "failed"} /\ loop = "running" /\ loop' = "rejected" /\ \A t \in teardowns : t.by # "loop"
  <2>1. counts \in [starts : Nat, execs : 0..MaxExecs, calls : Nat] /\ counts.execs \in Nat
    BY NumbersFit DEF RoomsInv, RoomsTypeInv
  <2>7. tracked \subseteq Rooms
    BY DEF RoomsInv, RoomsTypeInv
  <2>2. ASSUME GetOrCreate(r)
        PROVE  counts'.execs = NextCount(r) /\ counts' \in [starts : Nat, execs : Nat, calls : Nat]
    BY <2>1, <2>2 DEF GetOrCreate, NextCount
  <2>3. CASE RoomJoins(r)
    BY <2>2, <2>7, <2>3 DEF RoomJoins, GetOrCreate, RoomGets, ownerVars, stopVars
  <2>4. CASE MessageArrives(r)
    BY <2>2, <2>7, <2>4 DEF MessageArrives, GetOrCreate, RoomGets, stopVars, FailRuntime, Listens
  <2>5. CASE Hydrates(r)
    BY <2>2, <2>7, <2>5 DEF Hydrates, GetOrCreate, RoomGets, ownerVars, stopVars
  <2>6. CASE BootstrapRoom(r)
    <3>1. counts'.execs = NextCount(r) /\ counts' \in [starts : Nat, execs : Nat, calls : Nat]
      <4>1. counts' = [counts EXCEPT !.calls = counts.calls + 1, !.execs = NextCount(r)]
        BY <2>6 DEF BootstrapRoom, NextCount
      <4>2. counts.calls \in Nat /\ NextCount(r) \in Nat
        BY <2>1 DEF NextCount
      <4>3. counts'.execs = NextCount(r)
        BY <2>1, <4>1
      <4>4. counts' \in [starts : Nat, execs : Nat, calls : Nat]
        <5>1. counts \in [starts : Nat, execs : Nat, calls : Nat]
          BY <2>1, NumbersFit
        <5>2. counts.calls + 1 \in Nat
          BY <4>2
        <5> QED BY <4>1, <4>2, <5>1, <5>2
      <4> QED BY <4>3, <4>4
    <3> QED BY <2>6, <2>7, <3>1 DEF BootstrapRoom, RoomGets, ownerVars, stopVars
  <2> QED BY <2>3, <2>4, <2>5, <2>6
<1>2. ~Quiet
  <2>1. CASE RoomJoins(r) \/ BootstrapRoom(r)
    BY <2>1 DEF RoomJoins, BootstrapRoom, RoomsInv, QuietInv
  <2>2. CASE MessageArrives(r)
    BY <2>2 DEF MessageArrives, Listens, RoomsInv, GateInv, Quiet
  <2>3. CASE Hydrates(r)
    BY <2>3 DEF Hydrates, RoomsInv, GateInv, Quiet
  <2> QED BY <2>1, <2>2, <2>3
<1>3. /\ RoomsTypeInv' /\ FoundInv' /\ StopReachesJoiningRooms'
      /\ r \in tracked' /\ tracked \subseteq tracked'
      /\ \A e \in Ids : Working(e)' =>
           \/ Working(e) /\ exec'[e].room = exec[e].room
           \/ exec'[e].room = r /\ status # "stopped" /\ stopping \notin {"leaving", "cleanup", "link"}
  BY <1>1, RoomGetsOne DEF RoomsInv, RoomGets
<1>4. GateInv'
  BY <1>1 DEF RoomsInv, GateInv
<1>5. QuietInv'
  BY <1>1, <1>2 DEF Quiet, QuietInv
<1>6. StopInv'
  BY <1>1, <1>3 DEF RoomsInv, StopInv, NoneWorks, LeavesIt
<1> QED BY <1>3, <1>4, <1>5, <1>6 DEF RoomsInv

\* What a teardown's beginning leaves.
TornDown(others, by, left) ==
  /\ exec' \in [Ids -> ExecRecords]
  /\ \A e \in Ids : /\ exec'[e].room = exec[e].room
                    /\ exec[e].st # "running" => exec'[e] = exec[e]
                    /\ exec'[e].st = "running" => exec[e].st = "running"
                    /\ TakesWork(exec'[e]) => TakesWork(exec[e])
  /\ teardowns' \subseteq TeardownRecords /\ others \subseteq teardowns'
  /\ \A t \in teardowns' : t \notin others => t.by = by
  /\ \A r \in left : \E t \in teardowns' :
       t.by = by /\ t.exec = executions[r] /\ (executions[r] # None => t.stage = "stopping")

\* A room is left, or reset: its execution is stopped.
LEMMA TeardownFades ==
  ASSUME RoomsTypeInv, NEW by \in {"loop", "presence", "reset", "nobody"}, NEW left \in SUBSET Rooms,
         NEW b \in {"none", "timed", "zero"}, NEW others \in SUBSET TeardownRecords,
         BeginTeardown(others, by, left, b)
  PROVE  TornDown(others, by, left)
<1>1. exec \in [Ids -> ExecRecords] /\ executions \in [Rooms -> 0..MaxExecs]
  BY DEF RoomsTypeInv
<1>2. \A e \in Ids : exec'[e] = IF \E r \in left : executions[r] = e THEN Stopped(exec[e], b) ELSE exec[e]
  BY DEF BeginTeardown
<1>3. \A e \in Ids : exec'[e] \in ExecRecords /\ exec'[e].room = exec[e].room
  BY <1>1, <1>2, StoppedFades
<1>4. exec' = [e \in Ids |-> exec'[e]]
  BY DEF BeginTeardown
<1>5. \A e \in Ids : /\ exec[e].st # "running" => exec'[e] = exec[e]
                     /\ exec'[e].st = "running" => exec[e].st = "running"
                     /\ TakesWork(exec'[e]) => TakesWork(exec[e])
  BY <1>1, <1>2, StoppedFades DEF TakesWork
<1>6. teardowns' = others \cup {Teardown(by, r) : r \in left}
  BY DEF BeginTeardown
<1>7. \A r \in left : /\ Teardown(by, r) \in TeardownRecords
                      /\ Teardown(by, r).by = by /\ Teardown(by, r).room = r /\ Teardown(by, r).exec = executions[r]
                      /\ executions[r] # None => Teardown(by, r).stage = "stopping"
  BY <1>1 DEF Teardown, TeardownRecords
<1> QED BY <1>3, <1>4, <1>5, <1>6, <1>7 DEF TornDown

LEMMA LeavingFits ==
  ASSUME NEW by \in {"loop", "presence"}, NEW r \in Rooms
  PROVE  /\ Leaving(by, r) \in TeardownRecords /\ Leaving(by, r).by = by
         /\ Leaving(by, r).stage = "unsubscribing" /\ Leaving(by, r).room = r
  BY NumbersFit DEF Leaving, TeardownRecords

\* The event loop lets a room's channel go.
LEMMA LoopLeaves ==
  ASSUME RoomsInv, NEW r \in Rooms, RoomLeaves(r)
  PROVE  RoomsInv'
<1>1. /\ UNCHANGED <<startGate, starting, presence, stopping, errors, sweep, linkUp, status, loop, midStart, budget,
                     exec, executions, late, counts, tracked>>
      /\ teardowns' = teardowns \cup {Leaving("loop", r)} /\ loop = "running" /\ \A t \in teardowns : t.by # "loop"
  BY DEF RoomLeaves, Listens, ownerVars, stopVars, presVars
<1>2. Leaving("loop", r) \in TeardownRecords /\ Leaving("loop", r).by = "loop"
  BY LeavingFits
<1>3. RoomsTypeInv' /\ FoundInv' /\ QuietInv' /\ StopReachesJoiningRooms'
  BY <1>1, <1>2 DEF RoomsInv, RoomsTypeInv, FoundInv, QuietInv, Quiet, NoneWorks, Working, StopReachesJoiningRooms
<1>4. GateInv'
  BY <1>1, <1>2 DEF RoomsInv, GateInv
<1>5. StopInv'
  BY <1>1 DEF RoomsInv, StopInv, NoneWorks, Working, LeavesIt
<1> QED BY <1>3, <1>4, <1>5 DEF RoomsInv

\* The channel is gone: the room's execution is stopped, and the loop's leaves the roster.
LEMMA ChannelGone ==
  ASSUME RoomsInv, NEW t \in teardowns, Unsubscribed(t)
  PROVE  RoomsInv'
<1> DEFINE left == IF t.by = "loop" THEN {t.room} \cap tracked ELSE {t.room}
           others == teardowns \ {t}
<1>1. /\ BeginTeardown(others, t.by, left, "zero")
      /\ UNCHANGED <<ownerVars, stopVars, presence, loop, aborted, linkUp, executions, late, counts>>
      /\ tracked' = (IF t.by = "loop" THEN tracked \ {t.room} ELSE tracked) /\ t.stage = "unsubscribing"
  BY DEF Unsubscribed
<1>2. /\ t \in TeardownRecords /\ t.by \in {"loop", "presence", "reset", "nobody"} /\ left \in SUBSET Rooms
      /\ others \in SUBSET TeardownRecords /\ RoomsTypeInv /\ (t.by # "loop" => left = {t.room})
  <2>1. t \in TeardownRecords /\ teardowns \subseteq TeardownRecords /\ RoomsTypeInv
    BY DEF RoomsInv, RoomsTypeInv
  <2>2. t.by \in {"loop", "presence", "reset", "nobody"} /\ t.room \in Rooms
    BY <2>1 DEF TeardownRecords
  <2> QED BY <2>1, <2>2
<1> HIDE DEF left, others
<1>3. UNCHANGED <<startGate, starting, presence, stopping, errors, sweep, linkUp, status, loop, midStart, budget,
                  executions, late, counts>>
  BY <1>1 DEF ownerVars, stopVars
<1>4. /\ exec' \in [Ids -> ExecRecords]
      /\ \A e \in Ids : /\ exec'[e].room = exec[e].room
                        /\ exec[e].st # "running" => exec'[e] = exec[e]
                        /\ exec'[e].st = "running" => exec[e].st = "running"
                        /\ TakesWork(exec'[e]) => TakesWork(exec[e])
      /\ teardowns' \subseteq TeardownRecords /\ others \subseteq teardowns'
      /\ \A u \in teardowns' : u \notin others => u.by = t.by
      /\ \A r \in left : \E u \in teardowns' :
           u.by = t.by /\ u.exec = executions[r] /\ (executions[r] # None => u.stage = "stopping")
      /\ \A u, v \in teardowns' : u \notin others /\ v \notin others => u = v
  <2>1. teardowns' = others \cup {Teardown(t.by, r) : r \in left} /\ \A r, q \in left : r = q
    BY <1>1 DEF BeginTeardown, left
  <2>2. \A u, v \in teardowns' : u \notin others /\ v \notin others => u = v
    BY <2>1
  <2>3. TornDown(others, t.by, left)
    BY <1>1, <1>2, TeardownFades
  <2> QED BY <2>2, <2>3 DEF TornDown
<1>5. RoomsTypeInv' /\ WorkFades
  <2>1. WorkFades
    BY <1>3, <1>4 DEF WorkFades, Working
  <2>2. \A e \in Ids : exec[e].st = "none" => exec'[e].st = "none"
    BY <1>4
  <2>3. \A s \in Rooms : executions'[s] # None => exec'[executions'[s]].room = s
    BY <1>2, <1>3, <1>4, NumbersFit DEF RoomsTypeInv
  <2>4. tracked' \subseteq Rooms
    BY <1>1, <1>2 DEF RoomsTypeInv
  <2> QED BY <1>2, <1>3, <1>4, <2>1, <2>2, <2>3, <2>4 DEF RoomsTypeInv
<1>6. FoundInv'
  BY <1>3, <1>5 DEF RoomsInv, FoundInv, WorkFades
<1>7. GateInv'
  <2>1. \A u \in teardowns' : (u \in teardowns /\ u # t) \/ (u \notin others /\ u.by = t.by)
    BY <1>4 DEF others
  <2>2. \A u \in teardowns' : (u.by = "loop" => loop = "running") /\ (u.by = "presence" => stopping = "leaving")
    BY <2>1 DEF RoomsInv, GateInv
  <2>3. \A u, v \in teardowns' : u.by = "loop" /\ v.by = "loop" => u = v
    BY <1>4, <2>1 DEF RoomsInv, GateInv
  <2> QED BY <1>3, <2>2, <2>3 DEF RoomsInv, GateInv
<1>8. QuietInv'
  BY <1>3, <1>5 DEF RoomsInv, QuietInv, Quiet, NoneWorks, WorkFades
<1>9. StopInv'
  <2>1. ASSUME NEW e \in Ids, Working(e)', NEW u \in teardowns, LeavesIt(u, e)
        PROVE  \E v \in teardowns' : LeavesIt(v, e)'
    <3>1. CASE u # t
      BY <1>4, <2>1, <3>1 DEF LeavesIt, others
    <3>2. CASE u = t
      <4>1. t.by = "presence" /\ t.room = exec[e].room /\ t.room \in left
        BY <1>1, <1>2, <2>1, <3>2 DEF LeavesIt, left
      <4>2. executions[t.room] = e /\ e # None
        BY <1>5, <2>1, <4>1, NumbersFit DEF RoomsInv, FoundInv, WorkFades
      <4>3. PICK v \in teardowns' : v.by = t.by /\ v.exec = executions[t.room] /\ (executions[t.room] # None => v.stage = "stopping")
        BY <1>4, <4>1
      <4> QED BY <4>1, <4>2, <4>3 DEF LeavesIt
    <3> QED BY <3>1, <3>2
  <2>2. stopping = "rooms" /\ status = "stopping" => tracked' = tracked
    BY <1>1 DEF RoomsInv, StopInv, GateInv
  <2> QED BY <1>3, <1>5, <2>1, <2>2 DEF RoomsInv, StopInv, NoneWorks, WorkFades
<1>10. StopReachesJoiningRooms'
  BY <1>2, <1>3, <1>4, NumbersFit DEF RoomsInv, RoomsTypeInv, StopReachesJoiningRooms
<1> QED BY <1>5, <1>6, <1>7, <1>8, <1>9, <1>10 DEF RoomsInv

LEMMA ResetKeeps ==
  ASSUME RoomsInv, NEW r \in Rooms, NEW b \in Budgets, Reset(r, b)
  PROVE  RoomsInv'
<1>1. /\ BeginTeardown(teardowns, "reset", {r}, b)
      /\ UNCHANGED <<ownerVars, stopVars, presVars, executions, late>>
      /\ counts' = [counts EXCEPT !.calls = @ + 1]
  BY DEF Reset
<1>2. /\ UNCHANGED <<startGate, starting, presence, stopping, errors, sweep, linkUp, status, loop, midStart, budget,
                     executions, late, tracked>>
      /\ counts' \in [starts : Nat, execs : 0..MaxExecs, calls : Nat] /\ counts'.execs = counts.execs
  BY <1>1 DEF ownerVars, stopVars, presVars, RoomsInv, RoomsTypeInv
<1>3. /\ exec' \in [Ids -> ExecRecords]
      /\ \A e \in Ids : /\ exec'[e].room = exec[e].room
                        /\ exec[e].st # "running" => exec'[e] = exec[e]
                        /\ exec'[e].st = "running" => exec[e].st = "running"
                        /\ TakesWork(exec'[e]) => TakesWork(exec[e])
      /\ teardowns' \subseteq TeardownRecords
      /\ teardowns \subseteq teardowns' /\ \A t \in teardowns' : t \notin teardowns => t.by = "reset"
  <2>1. RoomsTypeInv /\ {r} \in SUBSET Rooms /\ b \in {"none", "timed", "zero"} /\ teardowns \in SUBSET TeardownRecords
    BY DEF RoomsInv, RoomsTypeInv, Budgets
  <2>2. TornDown(teardowns, "reset", {r})
    BY <1>1, <2>1, TeardownFades
  <2> QED BY <2>2 DEF TornDown
<1>4. RoomsTypeInv' /\ WorkFades
  <2>1. WorkFades
    BY <1>2, <1>3 DEF WorkFades, Working
  <2>2. \A e \in Ids : exec[e].st = "none" => exec'[e].st = "none"
    BY <1>3
  <2>3. \A s \in Rooms : executions'[s] # None => exec'[executions'[s]].room = s
    BY <1>2, <1>3, NumbersFit DEF RoomsInv, RoomsTypeInv
  <2> QED BY <1>2, <1>3, <2>1, <2>2, <2>3 DEF RoomsInv, RoomsTypeInv
<1>5. FoundInv'
  BY <1>2, <1>4 DEF RoomsInv, FoundInv, WorkFades
<1>6. GateInv'
  BY <1>2, <1>3 DEF RoomsInv, GateInv
<1>7. QuietInv'
  BY <1>2, <1>4 DEF RoomsInv, QuietInv, Quiet, NoneWorks, WorkFades
<1>8. StopInv'
  BY <1>2, <1>3, <1>4 DEF RoomsInv, StopInv, NoneWorks, WorkFades, LeavesIt
<1>9. StopReachesJoiningRooms'
  BY <1>2, <1>3, NumbersFit DEF RoomsInv, RoomsTypeInv, StopReachesJoiningRooms
<1> QED BY <1>4, <1>5, <1>6, <1>7, <1>8, <1>9 DEF RoomsInv

\* A participant changes, or the event loop ends.
LEMMA LoopGoesOn ==
  ASSUME RoomsInv, LoopEnds \/ \E r \in Rooms : ParticipantChanges(r)
  PROVE  RoomsInv'
<1>1. /\ UNCHANGED <<startGate, starting, presence, stopping, errors, sweep, linkUp, status, midStart, budget,
                     exec, executions, late, counts, tracked, teardowns>>
      /\ \/ loop' = loop
         \/ loop = "running" /\ loop' = "ended" /\ \A t \in teardowns : t.by # "loop"
  BY DEF LoopEnds, ParticipantChanges, ownerVars, stopVars, presVars, roomVars
<1>2. RoomsTypeInv' /\ FoundInv' /\ QuietInv' /\ StopReachesJoiningRooms'
  BY <1>1 DEF RoomsInv, RoomsTypeInv, FoundInv, QuietInv, Quiet, NoneWorks, Working, StopReachesJoiningRooms
<1>3. GateInv'
  BY <1>1 DEF RoomsInv, GateInv
<1>4. StopInv'
  BY <1>1 DEF RoomsInv, StopInv, NoneWorks, Working, LeavesIt
<1> QED BY <1>2, <1>3, <1>4 DEF RoomsInv

----------------------------------------------------------------------------
(* Starting and stopping.                                                  *)

LEMMA StartKeeps ==
  ASSUME RoomsInv,
         StartRuntime \/ PresenceStarts \/ Connects \/ ConnectFails \/ StartFails \/ PresenceStarted
  PROVE  RoomsInv'
<1>1. /\ UNCHANGED <<stopping, errors, sweep, midStart, budget, exec, executions, late, tracked, teardowns>>
      /\ counts' \in [starts : Nat, execs : 0..MaxExecs, calls : Nat] /\ counts'.execs = counts.execs
  <2>1. counts \in [starts : Nat, execs : 0..MaxExecs, calls : Nat]
    BY DEF RoomsInv, RoomsTypeInv
  <2>2. CASE StartRuntime
    BY <2>1, <2>2 DEF StartRuntime, stopVars, presVars, roomVars
  <2>3. CASE PresenceStarts \/ Connects \/ ConnectFails \/ StartFails \/ PresenceStarted
    BY <2>1, <2>3 DEF PresenceStarts, Connects, ConnectFails, StartFails, PresenceStarted, ownerVars, stopVars,
                      roomVars
  <2> QED BY <2>2, <2>3
<1>2. RoomsTypeInv' /\ FoundInv' /\ StopReachesJoiningRooms'
  BY <1>1 DEF RoomsInv, RoomsTypeInv, FoundInv, Working, StopReachesJoiningRooms
<1>3. NoneWorks' = NoneWorks /\ \A e \in Ids : Working(e)' = Working(e)
  BY <1>1 DEF NoneWorks, Working
<1>4. CASE StartRuntime
  <2>1. /\ status' = "starting" /\ startGate' = TRUE /\ starting' = "queued" /\ ~startGate
        /\ UNCHANGED <<presence, loop, linkUp>>
    BY <1>4 DEF StartRuntime, presVars
  <2> QED BY <1>1, <1>2, <1>3, <2>1 DEF RoomsInv, GateInv, QuietInv, Quiet, StopInv
<1>5. CASE PresenceStarts
  <2>1. /\ starting = "queued" /\ presence = "idle" /\ UNCHANGED <<status, startGate, loop, linkUp>>
        /\ \/ starting' = "failing" /\ presence' = "idle"
           \/ starting' = "presence" /\ presence' = "connecting"
    BY <1>5 DEF PresenceStarts
  <2> QED BY <1>1, <1>2, <1>3, <2>1 DEF RoomsInv, GateInv, QuietInv, Quiet, StopInv
<1>6. CASE Connects
  <2>1. presence = "connecting" /\ presence' = "hydrating" /\ UNCHANGED <<status, startGate, starting, loop>>
    BY <1>6 DEF Connects, ownerVars
  <2> QED BY <1>1, <1>2, <1>3, <2>1 DEF RoomsInv, GateInv, QuietInv, Quiet, StopInv
<1>7. CASE ConnectFails
  <2>1. /\ presence = "connecting" /\ presence' = "idle" /\ starting' = "failing"
        /\ UNCHANGED <<status, startGate, loop, linkUp>>
    BY <1>7 DEF ConnectFails
  <2> QED BY <1>1, <1>2, <1>3, <2>1 DEF RoomsInv, GateInv, QuietInv, Quiet, StopInv
<1>8. CASE StartFails
  <2>1. /\ starting = "failing" /\ starting' = "none" /\ startGate' = FALSE /\ linkUp' = FALSE
        /\ status' = IF status = "starting" THEN "stopped" ELSE status
        /\ UNCHANGED <<presence, loop>>
    BY <1>8 DEF StartFails
  <2> QED BY <1>1, <1>2, <1>3, <2>1 DEF RoomsInv, GateInv, QuietInv, Quiet, StopInv
<1>9. CASE PresenceStarted
  <2>1. /\ presence = "hydrating" /\ presence' = "idle" /\ loop' = "running" /\ starting' = "none"
        /\ status' = IF status = "starting" THEN "running" ELSE status
        /\ UNCHANGED <<startGate, linkUp>>
    BY <1>9 DEF PresenceStarted
  <2> QED BY <1>1, <1>2, <1>3, <2>1 DEF RoomsInv, GateInv, QuietInv, Quiet, StopInv
<1> QED BY <1>4, <1>5, <1>6, <1>7, <1>8, <1>9

\* A stop begins, with no start in flight or ahead of one.
LEMMA StopStarts ==
  ASSUME RoomsInv, StopAfterStart \/ \E b \in Budgets : StopRuntime(b)
  PROVE  RoomsInv'
<1>1. /\ UNCHANGED <<sweep, starting, presence, loop, linkUp, exec, executions, late, tracked, teardowns, counts>>
      /\ budget' \in Budgets /\ midStart' \in {midStart, "no"} /\ starting = "none"
      /\ \/ startGate' = FALSE /\ status' = "stopping" /\ stopping' = "loop" /\ stopping \in {"none", "start"}
         \/ UNCHANGED <<status, startGate, errors>> /\ stopping = "start" /\ stopping' = "none"
  BY DEF StopAfterStart, StopRuntime, BeginStop, roomVars, RoomsInv, RoomsTypeInv, GateInv
<1>2. RoomsTypeInv' /\ FoundInv' /\ StopReachesJoiningRooms'
  BY <1>1 DEF RoomsInv, RoomsTypeInv, FoundInv, Working, StopReachesJoiningRooms
<1>3. NoneWorks' = NoneWorks
  BY <1>1 DEF NoneWorks, Working
<1> QED BY <1>1, <1>2, <1>3 DEF RoomsInv, GateInv, QuietInv, Quiet, StopInv

LEMMA StopOvertakes ==
  ASSUME RoomsInv, NEW b \in Budgets, StopMidStart(b)
  PROVE  RoomsInv'
<1>1. /\ UNCHANGED <<status, startGate, starting, presence, loop, linkUp, sweep, errors, executions, late, tracked,
                     teardowns, counts>>
      /\ budget' = b /\ midStart' = b /\ stopping = "none" /\ stopping' = "start" /\ status = "starting"
      /\ exec' = [e \in Ids |-> IF e \in {executions[r] : r \in Rooms} THEN Stopped(exec[e], b) ELSE exec[e]]
  BY DEF StopMidStart, presVars
<1>2. exec \in [Ids -> ExecRecords] /\ b \in {"none", "timed", "zero"}
  BY DEF RoomsInv, RoomsTypeInv, Budgets
<1>3. /\ exec' \in [Ids -> ExecRecords]
      /\ \A e \in Ids : /\ exec'[e].room = exec[e].room
                        /\ exec[e].st = "none" => exec'[e].st = "none"
                        /\ exec'[e].st = "running" => exec[e].st = "running"
                        /\ TakesWork(exec'[e]) => TakesWork(exec[e])
                        /\ e \in {executions[r] : r \in Rooms} => exec'[e].st # "running"
  BY <1>1, <1>2, StoppedFades DEF TakesWork
<1>4. WorkFades
  BY <1>1, <1>3 DEF WorkFades, Working
<1>5. RoomsTypeInv'
  <2>1. \A s \in Rooms : executions'[s] # None => exec'[executions'[s]].room = s
    BY <1>1, <1>3, NumbersFit DEF RoomsInv, RoomsTypeInv
  <2> QED BY <1>1, <1>3, <2>1 DEF RoomsInv, RoomsTypeInv
<1>6. FoundInv'
  BY <1>1, <1>4 DEF RoomsInv, FoundInv, WorkFades
<1>7. GateInv' /\ QuietInv' /\ StopInv'
  BY <1>1, <1>4 DEF RoomsInv, GateInv, QuietInv, Quiet, StopInv, NoneWorks, WorkFades
<1>8. StopReachesJoiningRooms'
  BY <1>1, <1>3, NumbersFit DEF RoomsInv, RoomsTypeInv, StopReachesJoiningRooms
<1> QED BY <1>5, <1>6, <1>7, <1>8 DEF RoomsInv

\* Every room in the map is stopped: whatever works is awaited.
LEMMA RoomsAreStopped ==
  ASSUME RoomsInv, StopRooms
  PROVE  RoomsInv'
<1>1. /\ UNCHANGED <<status, startGate, starting, midStart, budget, presence, loop, linkUp, executions, late, tracked,
                     teardowns, counts>>
      /\ stopping = "loop" /\ stopping' = "rooms" /\ loop # "running"
      /\ sweep' = {executions[r] : r \in Rooms} \ {None}
      /\ exec' = [e \in Ids |-> IF e \in sweep' THEN Stopped(exec[e], budget) ELSE exec[e]]
  BY DEF StopRooms, ownerVars, presVars
<1>2. exec \in [Ids -> ExecRecords] /\ budget \in {"none", "timed", "zero"}
  BY DEF RoomsInv, RoomsTypeInv, Budgets
<1>3. /\ exec' \in [Ids -> ExecRecords]
      /\ \A e \in Ids : /\ exec'[e].room = exec[e].room
                        /\ exec[e].st = "none" => exec'[e].st = "none"
                        /\ exec'[e].st = "running" => exec[e].st = "running"
                        /\ TakesWork(exec'[e]) => TakesWork(exec[e])
  BY <1>1, <1>2, StoppedFades DEF TakesWork
<1>4. WorkFades
  BY <1>1, <1>3 DEF WorkFades, Working
<1>5. RoomsTypeInv'
  <2>1. \A s \in Rooms : executions'[s] # None => exec'[executions'[s]].room = s
    BY <1>1, <1>3, NumbersFit DEF RoomsInv, RoomsTypeInv
  <2> QED BY <1>1, <1>3, <2>1 DEF RoomsInv, RoomsTypeInv
<1>6. FoundInv'
  BY <1>1, <1>4 DEF RoomsInv, FoundInv, WorkFades
<1>7. GateInv' /\ QuietInv'
  BY <1>1 DEF RoomsInv, GateInv, QuietInv, Quiet
<1>8. StopInv'
  <2>1. \A e \in Ids : Working(e)' => e \in sweep'
    BY <1>1, <1>4, NumbersFit DEF RoomsInv, FoundInv, WorkFades
  <2> QED BY <1>1, <2>1 DEF StopInv
<1>9. StopReachesJoiningRooms'
  BY <1>1, <1>3, NumbersFit DEF RoomsInv, RoomsTypeInv, StopReachesJoiningRooms
<1> QED BY <1>5, <1>6, <1>7, <1>8, <1>9 DEF RoomsInv

\* The roster is cleared: whatever still works is in a room whose channel is let go.
LEMMA RosterIsCleared ==
  ASSUME RoomsInv, StopPresence
  PROVE  RoomsInv'
<1>1. /\ teardowns' = teardowns \cup {Leaving("presence", r) : r \in tracked}
      /\ UNCHANGED <<status, startGate, starting, midStart, budget, linkUp, exec, executions, late, errors, sweep, counts>>
      /\ stopping = "rooms" /\ stopping' = "leaving" /\ loop # "running" /\ loop' = "none" /\ sweep = {}
      /\ presence = "idle" /\ presence' = "stopping" /\ tracked' = {}
  BY DEF StopPresence, ownerVars
<1>2. tracked \subseteq Rooms
  BY DEF RoomsInv, RoomsTypeInv
<1>3. \A t \in teardowns' : t \notin teardowns => t \in TeardownRecords /\ t.by = "presence"
  BY <1>1, <1>2, LeavingFits
<1>4. RoomsTypeInv' /\ FoundInv' /\ StopReachesJoiningRooms'
  BY <1>1, <1>3 DEF RoomsInv, RoomsTypeInv, FoundInv, Working, StopReachesJoiningRooms
<1>5. GateInv'
  BY <1>1, <1>3 DEF RoomsInv, GateInv
<1>6. StopInv' /\ QuietInv'
  <2>1. ASSUME status = "stopping", NEW e \in Ids, Working(e)'
        PROVE  \E t \in teardowns' : LeavesIt(t, e)'
    <3>1. exec[e].room \in tracked
      BY <1>1, <2>1 DEF RoomsInv, StopInv, Working
    <3>2. Leaving("presence", exec[e].room) \in teardowns'
      BY <1>1, <3>1
    <3> QED BY <1>1, <1>2, <3>1, <3>2, LeavingFits DEF LeavesIt
  <2> QED BY <1>1, <2>1 DEF StopInv, QuietInv, Quiet
<1> QED BY <1>4, <1>5, <1>6 DEF RoomsInv

\* The rooms have been left, the maps are cleared, and the link is down.
LEMMA StopFinishes ==
  ASSUME RoomsInv, PresenceStopped \/ StopRuntimeEnds \/ \E ok \in BOOLEAN : StopCleansUp(ok)
  PROVE  RoomsInv'
<1>1. /\ UNCHANGED <<startGate, starting, midStart, budget, loop, sweep, exec, tracked, teardowns, counts>>
  BY DEF PresenceStopped, StopRuntimeEnds, StopCleansUp, ownerVars, presVars, roomVars
<1>2. CASE PresenceStopped
  <2>1. /\ UNCHANGED <<status, errors, linkUp, executions, late>> /\ presence' = "idle"
        /\ stopping = "leaving" /\ stopping' = "cleanup" /\ \A t \in teardowns : t.by # "presence"
    BY <1>2 DEF PresenceStopped, ownerVars, roomVars
  <2>2. RoomsTypeInv' /\ FoundInv' /\ StopReachesJoiningRooms'
    BY <1>1, <2>1 DEF RoomsInv, RoomsTypeInv, FoundInv, Working, StopReachesJoiningRooms
  <2>3. NoneWorks' = NoneWorks
    BY <1>1, <2>1 DEF NoneWorks, Working
  <2> QED BY <1>1, <2>1, <2>2, <2>3 DEF RoomsInv, GateInv, QuietInv, Quiet, StopInv, NoneWorks, LeavesIt
<1>3. CASE \E ok \in BOOLEAN : StopCleansUp(ok)
  <2>1. /\ UNCHANGED <<status, presence, linkUp>> /\ stopping = "cleanup" /\ stopping' = "link"
        /\ executions' = [r \in Rooms |-> None]
        /\ late' = IF errors \/ status # "stopping"
                     THEN late \cup ({executions[r] : r \in Rooms} \ {None}) ELSE late
    BY <1>3 DEF StopCleansUp, ownerVars, presVars
  <2>2. NoneWorks'
    <3>1. CASE errors \/ status # "stopping"
      BY <1>1, <2>1, <3>1, NumbersFit DEF RoomsInv, FoundInv, NoneWorks, Working
    <3>2. CASE ~(errors \/ status # "stopping")
      BY <1>1, <2>1, <3>2 DEF RoomsInv, StopInv, NoneWorks, Working
    <3> QED BY <3>1, <3>2
  <2>3. RoomsTypeInv'
    BY <1>1, <2>1, NumbersFit DEF RoomsInv, RoomsTypeInv, None
  <2>4. FoundInv' /\ StopReachesJoiningRooms'
    BY <2>1, <2>2 DEF FoundInv, NoneWorks, StopReachesJoiningRooms
  <2> QED BY <1>1, <2>1, <2>2, <2>3, <2>4 DEF RoomsInv, GateInv, QuietInv, Quiet, StopInv
<1>4. CASE StopRuntimeEnds
  <2>1. /\ UNCHANGED <<presence, errors, executions, late>> /\ linkUp' = FALSE
        /\ stopping = "link" /\ stopping' = "none" /\ status' \in {"stopped", "failed"}
        /\ status' = "stopped" => status \in {"stopped", "stopping"}
    BY <1>4 DEF StopRuntimeEnds, roomVars
  <2>2. RoomsTypeInv' /\ FoundInv' /\ StopReachesJoiningRooms'
    BY <1>1, <2>1 DEF RoomsInv, RoomsTypeInv, FoundInv, Working, StopReachesJoiningRooms
  <2>3. NoneWorks'
    BY <1>1, <2>1 DEF RoomsInv, StopInv, NoneWorks, Working
  <2> QED BY <1>1, <2>1, <2>2, <2>3 DEF RoomsInv, GateInv, QuietInv, Quiet, StopInv
<1> QED BY <1>2, <1>3, <1>4

----------------------------------------------------------------------------
LEMMA RoomsKeep == RoomsInv /\ [AgentRoomsNext]_roomsVars => RoomsInv'
<1> SUFFICES ASSUME RoomsInv, [AgentRoomsNext]_roomsVars PROVE RoomsInv'
  OBVIOUS
<1>1. CASE \E e \in Ids : Settles(e) \/ TurnFails(e) \/ Closes(e) \/ Ends(e)
  BY <1>1, ExecMoves
<1>2. CASE \E e \in Ids : RoomStopped(e)
  BY <1>2, StoppedLeaves
<1>u. CASE \E t \in teardowns : Unsubscribed(t)
  BY <1>u, ChannelGone
<1>3. CASE \E t \in teardowns : \E ok \in BOOLEAN : ExecTeardownEnds(t, ok)
  BY <1>3, CleanedUp
<1>4. CASE \E r \in Rooms : RoomJoins(r) \/ MessageArrives(r) \/ Hydrates(r) \/ BootstrapRoom(r)
  BY <1>4, LoopGets
<1>5. CASE \E r \in Rooms : RoomLeaves(r)
  BY <1>5, LoopLeaves
<1>6. CASE LoopEnds \/ \E r \in Rooms : ParticipantChanges(r)
  BY <1>6, LoopGoesOn
<1>7. CASE \E r \in Rooms, b \in Budgets : Reset(r, b)
  BY <1>7, ResetKeeps
<1>8. CASE StartRuntime \/ PresenceStarts \/ Connects \/ ConnectFails \/ StartFails \/ PresenceStarted
  BY <1>8, StartKeeps
<1>9. CASE StopAfterStart \/ \E b \in Budgets : StopRuntime(b)
  BY <1>9, StopStarts
<1>10. CASE \E b \in Budgets : StopMidStart(b)
  BY <1>10, StopOvertakes
<1>11. CASE StopRooms
  BY <1>11, RoomsAreStopped
<1>12. CASE StopPresence
  BY <1>12, RosterIsCleared
<1>13. CASE PresenceStopped \/ StopRuntimeEnds \/ \E ok \in BOOLEAN : StopCleansUp(ok)
  BY <1>13, StopFinishes
<1>14. CASE UNCHANGED roomsVars
  <2>1. UNCHANGED <<status, startGate, starting, midStart, stopping, budget, errors, sweep, presence, loop, linkUp,
                    exec, executions, late, tracked, teardowns, counts>>
    BY <1>14 DEF roomsVars, ownerVars, stopVars, presVars, roomVars
  <2> QED BY <2>1 DEF RoomsInv, RoomsTypeInv, FoundInv, GateInv, QuietInv, Quiet, StopInv, NoneWorks, Working,
                      StopReachesJoiningRooms, LeavesIt
<1> QED BY <1>1, <1>2, <1>3, <1>4, <1>5, <1>6, <1>7, <1>8, <1>9, <1>10, <1>11, <1>12, <1>13, <1>14, <1>u
        DEF AgentRoomsNext

\* What moves in MCPlatform moves by itself.
LEMMA PartMoves == PlatformInit /\ [][PlatformNext]_platformVars => AgentRoomsSpec /\ TransportSpec
<1>1. PlatformInit => AgentRoomsInit /\ TransportInit
  BY DEF PlatformInit
<1>2. [PlatformNext]_platformVars => [AgentRoomsNext]_roomsVars /\ [TransportNext]_transportVars
  BY DEF PlatformNext, TransportPart, MembershipPart, RoomsPart, platformVars
<1> QED BY <1>1, <1>2, PTL DEF AgentRoomsSpec, TransportSpec

\* Whatever a start, an event, a reset or a caller makes while the runtime stops, none
\* of its executions goes on taking work (AgentRuntime.performStop), and none that a
\* start joins once a stop has overtaken it begins to (AgentRuntime.runStop).
THEOREM StopsReach == PlatformSpec => []StopsReachEveryRoom
<1>1. RoomsInv => StopsReachEveryRoom
  BY DEF RoomsInv, GateInv, QuietInv, Quiet, NoneWorks, Working, StopsReachEveryRoom, RoomsEndWithTheStop
<1> QED BY <1>1, InitRooms, RoomsKeep, PartMoves, PTL DEF AgentRoomsSpec, PlatformSpec

\* Whatever the socket, the server and BandLink do, and in whatever order, no event
\* reaches the agent ahead of the catch-up its room is owed
\* (PhoenixChannelsTransport.handleJoinSettled, notifyReconnectObservers),
\* and no channel, barrier, held-back event or join outlives the session it is of
\* (PhoenixChannelsTransport.disconnect, abandonReconnect, handleRunEnded).
THEOREM EventsFollowTheSession == PlatformSpec => []EventsFollowTheirSession
<1>1. TransportInv => EventsFollowTheirSession
  BY EventsFollow DEF EventsFollowTheirSession
<1>2. TransportInv /\ [TransportNext]_transportVars => TransportInv'
  BY TransportMoves, TransportStutters
<1> QED BY <1>1, <1>2, InitTransport, PartMoves, PTL DEF TransportSpec, PlatformSpec
=============================================================================
