------------------------------ MODULE ACPRoom ------------------------------
(***************************************************************************)
(* One room of the ACP adapter (adapters/acp/ACPRoomAgent.ts under         *)
(* adapters/shared/roomScopedAdapter.ts): its engines, one after another,  *)
(* the agent processes they spawn, and the sessions the agent keeps.       *)
(*                                                                         *)
(* A room's engine is built on its first message and closed when the room  *)
(* is left; the room's next message builds another, which starts once the  *)
(* former has closed.  Within an engine one turn runs at a time.  A turn   *)
(* connects, restores or creates a session, configures it and prompts it.  *)
(* A turn that an engine's stop overtakes runs on, on its own.             *)
(*                                                                         *)
(* A session is known by the agent, across processes, by its number; what  *)
(* it has been told is abstracted to `knows`: has it the room's earlier    *)
(* conversation?  The room's history on Band (`persisted`) names the       *)
(* session of the last turn that was recorded there.                       *)
(***************************************************************************)
EXTENDS Naturals, FiniteSets

CONSTANTS
  MaxEngines,   \* bound: engines built for the room
  MaxProcs,     \* bound: agent processes spawned
  MaxSessions,  \* bound: sessions the agent creates
  MaxTurns      \* bound: turns

ASSUME ACPAssumption == {MaxEngines, MaxProcs, MaxSessions, MaxTurns} \subseteq Nat \ {0}

Engines == 1..MaxEngines
Procs == 1..MaxProcs
Turns == 1..MaxTurns
Nothing == 0
NoOwner == [sid |-> Nothing, gen |-> 0]

VARIABLES
  room,        \* rooms.get(roomId): the room's engine, or Nothing
  engines,     \* every engine: its lifecycle and its maps
  procs,       \* every connection attempt, from spawnConnection() on
  acpTurns,    \* every turn: where it awaits
  sessions,    \* the sessions the agent has created, and what they know
  persisted,   \* the session the room's history names
  talked,      \* has the agent accepted a prompt in this room?
  lost,        \* the link to what the agent knows went (see ConversationFollows)
  amnesia      \* an accepted prompt left the agent without the conversation

acpVars == <<room, engines, procs, acpTurns, sessions, persisted, talked, lost, amnesia>>

NoEngine == [st |-> "none", started |-> FALSE, gen |-> 0, live |-> Nothing, spawn |-> Nothing,
             owner |-> NoOwner, active |-> {}, booted |-> {}, owed |-> FALSE]
NoProc == [engine |-> Nothing, st |-> "none", gen |-> 0, doomed |-> FALSE]
NoTurn == [engine |-> Nothing, pc |-> "none", proc |-> Nothing, existing |-> Nothing,
           sid |-> Nothing, carries |-> FALSE]

ACPInit ==
  /\ room = Nothing
  /\ engines = [e \in Engines |-> NoEngine]
  /\ procs = [p \in Procs |-> NoProc]
  /\ acpTurns = [t \in Turns |-> NoTurn]
  /\ sessions = <<>> /\ persisted = Nothing
  /\ talked = FALSE /\ lost = FALSE /\ amnesia = FALSE

----------------------------------------------------------------------------
(* RoomScopedAdapter: building and closing the room's engine.              *)

Unused(things, field, none) == {i \in DOMAIN things : things[i][field] = none}
Least(S) == CHOOSE i \in S : \A j \in S : i <= j
Busy(e) == \E t \in Turns : acpTurns[t].engine = e /\ acpTurns[t].pc \notin {"none", "done"}

\* engineFor: startRoom waits on the closing of the room's former engines.
EngineBuilt ==
  /\ room = Nothing
  /\ Unused(engines, "st", "none") # {}
  /\ LET e == Least(Unused(engines, "st", "none")) IN
       /\ room' = e
       /\ engines' = [engines EXCEPT ![e].st = "waiting"]
  /\ UNCHANGED <<procs, acpTurns, sessions, persisted, talked, lost, amnesia>>

EngineStarts(e) ==
  /\ engines[e].st = "waiting"
  /\ \A f \in Engines : f < e => engines[f].st = "closed"
  /\ engines' = [engines EXCEPT ![e].st = "open", ![e].started = TRUE]
  /\ UNCHANGED <<room, procs, acpTurns, sessions, persisted, talked, lost, amnesia>>

\* The agent process is asked to stop.
Doomed(ps, S) == [p \in Procs |-> IF p \in S /\ ps[p].st # "none" THEN [ps[p] EXCEPT !.doomed = TRUE] ELSE ps[p]]

Handshaking == {p \in Procs : procs[p].st = "handshake"}

\* onCleanup, or the adapter's stop: the engine's stop() runs once it is ready.
\* A connection attempt in flight is aborted, and the live connection's process stopped.
EngineStops ==
  /\ room # Nothing /\ engines[room].st = "open"
  /\ room' = Nothing
  /\ engines' = [engines EXCEPT ![room] =
                  [NoEngine EXCEPT !.st = "closing", !.gen = engines[room].gen + 1,
                                   !.live = engines[room].live,
                                   !.spawn = IF engines[room].spawn \in Handshaking
                                               THEN engines[room].spawn ELSE Nothing]]
  /\ procs' = Doomed(procs, {engines[room].live, engines[room].spawn})
  /\ UNCHANGED <<acpTurns, sessions, persisted, talked, lost, amnesia>>

\* stop() waits for the two processes it stopped, the live one and that of an
\* attempt in flight, unless the attempt has yet to create it.
EngineCloses(e) ==
  /\ engines[e].st = "closing"
  /\ \A p \in {engines[e].live, engines[e].spawn} \ {Nothing} : procs[p].st = "exited"
  /\ engines' = [engines EXCEPT ![e] = [NoEngine EXCEPT !.st = "closed", !.gen = engines[e].gen]]
  /\ UNCHANGED <<room, procs, acpTurns, sessions, persisted, talked, lost, amnesia>>

----------------------------------------------------------------------------
(* spawnConnection, retireConnection                                       *)

Key(gen, sid) == <<gen, sid>>

\* Maps of an engine whose connection is retired: its live one goes.
Retired(g, p) ==
  IF g.live # p \/ g.gen # procs[p].gen THEN g
  ELSE [g EXCEPT !.gen = @ + 1, !.live = Nothing,
                 !.active = {k \in @ : k[1] # procs[p].gen}]
Retires(e, p) == engines[e].live = p /\ engines[e].gen = procs[p].gen /\ engines[e].st = "open"

\* The process exists once createSubprocessConnection resolves; one whose
\* attempt was aborted meanwhile is stopped there.
ProcessSpawned(p) ==
  /\ procs[p].st = "loading"
  /\ procs' = [procs EXCEPT ![p].st = "handshake"]
  /\ UNCHANGED <<room, engines, acpTurns, sessions, persisted, talked, lost, amnesia>>

\* Broken variant: an attempt installs its connection whatever happened meanwhile.
InstallsAnyway(p) == procs[p].st = "handshake"

\* Only the attempt of the engine's current generation installs its connection.
Installs(p) ==
  /\ procs[p].st = "handshake" /\ ~procs[p].doomed
  /\ procs[p].gen = engines[procs[p].engine].gen

Waiting(p) == {t \in Turns : acpTurns[t].proc = p /\ acpTurns[t].pc = "connecting"}

HandshakeSucceeds(p) ==
  /\ Installs(p)
  /\ LET e == procs[p].engine IN
       /\ engines' = [engines EXCEPT ![e].gen = @ + 1, ![e].live = p, ![e].spawn = Nothing]
       /\ procs' = [procs EXCEPT ![p].st = "up", ![p].gen = engines[e].gen + 1]
  /\ acpTurns' = [t \in Turns |-> IF t \in Waiting(p) THEN [acpTurns[t] EXCEPT !.pc = "connected"]
                                 ELSE acpTurns[t]]
  /\ UNCHANGED <<room, sessions, persisted, talked, lost, amnesia>>

\* It fails, or was superseded: what the attempt owns is stopped, and its turn fails.
HandshakeFails(p) ==
  /\ procs[p].st = "handshake"
  /\ procs' = Doomed(procs, {p})
  /\ engines' = [engines EXCEPT ![procs[p].engine].spawn = IF @ = p THEN Nothing ELSE @]
  /\ acpTurns' = [t \in Turns |-> IF t \in Waiting(p) THEN [acpTurns[t] EXCEPT !.pc = "done"]
                                 ELSE acpTurns[t]]
  /\ procs[p].doomed => Waiting(p) # {}
  /\ UNCHANGED <<room, sessions, persisted, talked, lost, amnesia>>

\* A process exits, on its own or as asked: connection.closed retires it.
ProcessExits(p) ==
  /\ procs[p].st \in {"handshake", "up"}
  /\ procs[p].st = "handshake" => procs[p].doomed /\ Waiting(p) = {}
  /\ procs' = [procs EXCEPT ![p].st = "exited", ![p].doomed = TRUE]
  /\ LET e == procs[p].engine IN
       engines' = IF Retires(e, p) THEN [engines EXCEPT ![e] = Retired(@, p)] ELSE engines
  /\ UNCHANGED <<room, acpTurns, sessions, persisted, talked, lost, amnesia>>

----------------------------------------------------------------------------
(* A turn: connection and session.                                         *)

\* rehydrate: an engine's first turn takes the session the history names.
Bootstraps(e) == \A t \in Turns : acpTurns[t].engine # e
Rehydrated(g, bootstrap) ==
  IF bootstrap /\ persisted # Nothing /\ g.owner = NoOwner
    THEN [g EXCEPT !.owner = [sid |-> persisted, gen |-> g.gen]] ELSE g

Knows(sid) == sid # Nothing /\ sessions[sid]

\* onMessage, then ensureConnection: the live connection, or a new attempt.
TurnBegins(p) ==
  /\ room # Nothing /\ engines[room].st = "open" /\ ~Busy(room)
  /\ Unused(acpTurns, "pc", "none") # {}
  /\ LET e == room
         t == Least(Unused(acpTurns, "pc", "none"))
         g == Rehydrated(engines[e], Bootstraps(e)) IN
       /\ lost' = (lost \/ (Bootstraps(e) /\ talked /\ ~Knows(persisted)))
       /\ \/ /\ g.live # Nothing /\ p = g.live
             /\ acpTurns' = [acpTurns EXCEPT ![t] = [NoTurn EXCEPT !.engine = e, !.pc = "connected", !.proc = p]]
             /\ engines' = [engines EXCEPT ![e] = g]
             /\ UNCHANGED procs
          \/ /\ g.live = Nothing /\ Unused(procs, "st", "none") # {} /\ p = Least(Unused(procs, "st", "none"))
             /\ acpTurns' = [acpTurns EXCEPT ![t] = [NoTurn EXCEPT !.engine = e, !.pc = "connecting", !.proc = p]]
             /\ engines' = [engines EXCEPT ![e] = [g EXCEPT !.spawn = p]]
             /\ procs' = [procs EXCEPT ![p] = [NoProc EXCEPT !.engine = e, !.st = "loading", !.gen = g.gen]]
  /\ UNCHANGED <<room, sessions, persisted, talked, amnesia>>

Turn(t, pc) == acpTurns[t].pc = pc
To(t, pc) == acpTurns' = [acpTurns EXCEPT ![t].pc = pc]
Alive(t) == procs[acpTurns[t].proc].st = "up"
Gen(t) == procs[acpTurns[t].proc].gen

\* getOrCreateSession: the room's session if it is active on this connection;
\* otherwise it is to be established, by a restore if there is one to restore.
GetSession(t) ==
  /\ Turn(t, "connected")
  /\ LET g == engines[acpTurns[t].engine] IN
       IF g.owner.gen = Gen(t) /\ Key(Gen(t), g.owner.sid) \in g.active
         THEN acpTurns' = [acpTurns EXCEPT ![t].pc = "ready", ![t].sid = g.owner.sid]
         ELSE acpTurns' = [acpTurns EXCEPT ![t].existing = g.owner.sid,
                             ![t].pc = IF g.owner.sid # Nothing THEN "restoring" ELSE "creating"]
  /\ UNCHANGED <<room, engines, procs, sessions, persisted, talked, lost, amnesia>>

\* linkOrAbandon: stop() has given the room to no one, so its turn gives up.
MayLink(t) == engines[acpTurns[t].engine].st = "open"
Linked(g, gen, sid) == [g EXCEPT !.owner = [sid |-> sid, gen |-> gen], !.active = @ \cup {Key(gen, sid)}]

RestoreSucceeds(t) ==
  /\ Turn(t, "restoring") /\ Alive(t) /\ MayLink(t)
  /\ engines' = [engines EXCEPT ![acpTurns[t].engine] = Linked(@, Gen(t), acpTurns[t].existing)]
  /\ acpTurns' = [acpTurns EXCEPT ![t].pc = "configuring", ![t].sid = acpTurns[t].existing]
  /\ UNCHANGED <<room, procs, sessions, persisted, talked, lost, amnesia>>

\* The agent cannot, or the connection closed: the turn opens a fresh session.
RestoreFails(t) ==
  /\ Turn(t, "restoring")
  /\ To(t, "creating")
  /\ UNCHANGED <<room, engines, procs, sessions, persisted, talked, lost, amnesia>>

\* Broken variant: a fresh session is never owed the transcript.
Created(g, gen, sid, existing) == Linked(g, gen, sid)

\* A fresh session in place of one that could not be restored is owed the transcript.
Owing(g, gen, sid, existing) ==
  [Linked(g, gen, sid) EXCEPT !.owed = (@ \/ existing # Nothing)]

CreateSucceeds(t) ==
  /\ Turn(t, "creating") /\ Alive(t) /\ MayLink(t)
  /\ Cardinality(DOMAIN sessions) < MaxSessions
  /\ LET sid == Cardinality(DOMAIN sessions) + 1 IN
       /\ sessions' = [s \in 1..sid |-> IF s = sid THEN FALSE ELSE sessions[s]]
       /\ engines' = [engines EXCEPT ![acpTurns[t].engine] = Owing(@, Gen(t), sid, acpTurns[t].existing)]
       /\ acpTurns' = [acpTurns EXCEPT ![t].pc = "configuring", ![t].sid = sid]
  /\ UNCHANGED <<room, procs, persisted, talked, lost, amnesia>>

\* configureSessionMode, -Model and -Config: a restored session counts as
\* bootstrapped once it is configured.
Configured(t) ==
  /\ Turn(t, "configuring")
  /\ LET x == acpTurns[t] IN
       engines' = IF x.existing = x.sid /\ engines[x.engine].st = "open"
                    THEN [engines EXCEPT ![x.engine].booted = @ \cup {Key(Gen(t), x.sid)}]
                    ELSE engines
  /\ To(t, "ready")
  /\ UNCHANGED <<room, procs, sessions, persisted, talked, lost, amnesia>>

----------------------------------------------------------------------------
(* The prompt, and how a turn ends.                                        *)

\* A room owed its transcript carries it, whatever session it prompts.  A process
\* asked to stop is taken to accept no new prompt.
Prompts(t) ==
  /\ Turn(t, "ready") /\ ~procs[acpTurns[t].proc].doomed
  /\ acpTurns' = [acpTurns EXCEPT ![t].pc = "prompting", ![t].carries = engines[acpTurns[t].engine].owed]
  /\ UNCHANGED <<room, engines, procs, sessions, persisted, talked, lost, amnesia>>

\* Seeding is over, and the debt paid if the room still points at the session.
Accepted(g, gen, sid) ==
  [g EXCEPT !.booted = @ \cup {Key(gen, sid)},
            !.owed = @ /\ g.owner # [sid |-> sid, gen |-> gen]]

PromptAccepted(t) ==
  /\ Turn(t, "prompting") /\ procs[acpTurns[t].proc].st \in {"up", "exited"}
  /\ LET x == acpTurns[t] IN
       /\ engines' = IF engines[x.engine].st = "open"
                       THEN [engines EXCEPT ![x.engine] = Accepted(@, Gen(t), x.sid)] ELSE engines
       /\ sessions' = [sessions EXCEPT ![x.sid] = @ \/ x.carries \/ ~talked]
       /\ amnesia' = (amnesia \/ (engines[x.engine].st = "open" /\ talked /\ ~x.carries
                                      /\ ~sessions[x.sid] /\ ~lost))
       /\ lost' = (lost \/ engines[x.engine].st # "open")
  /\ talked' = TRUE
  /\ To(t, "posting")
  /\ UNCHANGED <<room, procs, persisted>>

\* stopReason "cancelled": the agent may not have taken the prompt.
PromptCancelled(t) ==
  /\ Turn(t, "prompting") /\ Alive(t)
  /\ To(t, "posting")
  /\ UNCHANGED <<room, engines, procs, sessions, persisted, talked, lost, amnesia>>

\* The turn's session event lands in the room's history, or the post fails.
Posts(t, ok) ==
  /\ Turn(t, "posting")
  /\ persisted' = IF ok THEN acpTurns[t].sid ELSE persisted
  /\ To(t, "done")
  /\ UNCHANGED <<room, engines, procs, sessions, talked, lost, amnesia>>

\* dropUnacceptedSession: the session goes unless a prompt was accepted on it.
Dropped(g, gen) ==
  IF g.owner.gen # gen \/ Key(gen, g.owner.sid) \in g.booted THEN g
  ELSE [g EXCEPT !.owner = NoOwner, !.active = @ \ {Key(gen, g.owner.sid)}]
DropsWhatKnows(g, gen) == Dropped(g, gen) # g /\ sessions[g.owner.sid]

\* The agent's own error leaves the connection up, unless the turn waits on none.
TurnFails(t) ==
  /\ acpTurns[t].pc \in {"creating", "configuring", "prompting"}
  /\ LET e == acpTurns[t].engine IN
       /\ engines' = [engines EXCEPT ![e] = Dropped(@, Gen(t))]
       /\ lost' = (lost \/ DropsWhatKnows(engines[e], Gen(t)))
  /\ To(t, "done")
  /\ UNCHANGED <<room, procs, sessions, persisted, talked, amnesia>>

\* A timeout, or the connection closing under the turn, or the turn's link
\* refused: the connection is retired and its process stopped, unawaited.
TurnBreaks(t) ==
  /\ acpTurns[t].pc \in {"restoring", "creating", "configuring", "ready", "prompting"}
  /\ acpTurns[t].pc = "ready" => procs[acpTurns[t].proc].doomed
  /\ acpTurns[t].pc = "restoring" => ~MayLink(t)
  /\ acpTurns[t].pc = "configuring" => ~Alive(t)
  /\ acpTurns[t].pc = "creating" => ~Alive(t) \/ ~MayLink(t)
  /\ LET e == acpTurns[t].engine
         p == acpTurns[t].proc
         g == Dropped(engines[e], Gen(t)) IN
       /\ engines' = [engines EXCEPT ![e] = IF Retires(e, p) THEN Retired(g, p) ELSE g]
       /\ procs' = IF Retires(e, p) THEN Doomed(procs, {p}) ELSE procs
       /\ lost' = (lost \/ DropsWhatKnows(engines[e], Gen(t)))
  /\ To(t, "done")
  /\ UNCHANGED <<room, sessions, persisted, talked, amnesia>>

----------------------------------------------------------------------------
ACPNext ==
  \/ EngineBuilt \/ EngineStops
  \/ \E e \in Engines : EngineStarts(e) \/ EngineCloses(e)
  \/ \E p \in Procs : ProcessSpawned(p) \/ HandshakeSucceeds(p) \/ HandshakeFails(p)
                       \/ ProcessExits(p) \/ TurnBegins(p)
  \/ \E t \in Turns : GetSession(t) \/ RestoreSucceeds(t) \/ RestoreFails(t) \/ CreateSucceeds(t)
                       \/ Configured(t) \/ Prompts(t) \/ PromptAccepted(t) \/ PromptCancelled(t)
                       \/ (\E ok \in BOOLEAN : Posts(t, ok)) \/ TurnFails(t) \/ TurnBreaks(t)

ACPSpec == ACPInit /\ [][ACPNext]_acpVars

----------------------------------------------------------------------------
\* An agent session that takes the room's prompt has the room's conversation, or
\* is given it with the prompt, across failed restores, rejected and cancelled
\* prompts, lost connections and rejoined rooms (ACPRoomAgent.ts:223, 1046).
\* Three ways of losing the link to a session that has it are excepted: a rejoin
\* while the room's history names no session that does, a turn that outlives its
\* engine, and a session restored and then dropped since it could not be configured.
ConversationFollows == ~amnesia

\* A process nobody has asked to stop is the live connection of the room's engine,
\* or of an attempt that will install or stop it; so the room's workspace never
\* has two (RoomScopedAdapter: rooms, closing; spawnConnection's supersession).
ProcessesAreOwned ==
  /\ \A p \in Procs : procs[p].st \in {"handshake", "up"} /\ ~procs[p].doomed =>
       \/ engines[procs[p].engine].st = "open" /\ engines[procs[p].engine].live = p
       \/ Waiting(p) # {}
  /\ Cardinality({p \in Procs : procs[p].st = "up" /\ ~procs[p].doomed}) <= 1
=============================================================================
