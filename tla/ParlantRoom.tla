------------------------------ MODULE ParlantRoom ------------------------------
(***************************************************************************)
(* ParlantAdapter: the agent it makes on the Parlant server when it starts *)
(* and deletes when the runtime stops, and, for one room, the customer and *)
(* the session its turns share, made by whichever turn needs them first    *)
(* and deleted when the room is cleaned up, with turns still in flight.    *)
(***************************************************************************)
EXTENDS Naturals, FiniteSets

CONSTANTS
  ParlantTurns,    \* 1..n, in the order they come
  ParlantStarts,   \* 1..n: starts of the adapter, and the agents they make
  MaxCleanups

ASSUME ParlantAssumption == ParlantTurns \cup ParlantStarts \subseteq Nat \ {0}

VARIABLES
  agent,      \* agentId, and ownedAgentCreation; 0 for null
  agents,     \* on the server, by the start that made it
  stops,      \* onRuntimeStop, waiting on the creation it claimed, or on the deletion
  parlant,    \* the room's maps
  server,     \* the sessions and customers on the server, and those whose deletion failed
  parlantTurns, \* onMessage
  cleaning,   \* onCleanup
  cleanups

parlantVars == <<agent, agents, stops, parlant, server, parlantTurns, cleaning, cleanups>>

NoTurnYet == [phase |-> "none", init |-> 0, left |-> FALSE]
NotCleaning == [stage |-> "none", awaited |-> 0, deleting |-> {}]

ParlantInit ==
  /\ agent = [id |-> 0, creation |-> 0] /\ agents = [n \in ParlantStarts |-> "none"]
  /\ stops = {} /\ cleanups = 0
  /\ parlant = [session |-> 0, customer |-> 0, init |-> 0]
  /\ server = [live |-> {}, undeleted |-> {}]
  /\ parlantTurns = [t \in ParlantTurns |-> NoTurnYet]
  /\ cleaning = NotCleaning

Session(n) == [kind |-> "session", by |-> n]
Customer(n) == [kind |-> "customer", by |-> n]

-----------------------------------------------------------------------------
\* onStarted, and createOwnedAgent's request.
AdapterStarts(n) ==
  /\ agents[n] = "none" /\ \A m \in ParlantStarts : m < n => agents[m] # "none"
  /\ agent.creation = 0 /\ stops = {}
  /\ agents' = [agents EXCEPT ![n] = "creating"] /\ agent' = [agent EXCEPT !.creation = n]
  /\ UNCHANGED <<stops, parlant, server, parlantTurns, cleaning, cleanups>>

\* The agent is made: this adapter's, unless a stop has claimed it.
KeepsAny(n) == TRUE
KeepsAgent(n) == agent.creation = n
AgentMade(n) ==
  /\ agents[n] = "creating"
  /\ agents' = [agents EXCEPT ![n] = "live"]
  /\ agent' = IF KeepsAgent(n) THEN [agent EXCEPT !.id = n] ELSE agent
  /\ UNCHANGED <<stops, parlant, server, parlantTurns, cleaning, cleanups>>
AgentNotMade(n) ==
  /\ agents[n] = "creating"
  /\ agents' = [agents EXCEPT ![n] = "gone"]
  /\ UNCHANGED <<agent, stops, parlant, server, parlantTurns, cleaning, cleanups>>

\* onRuntimeStop claims the creation, waits for it, and deletes what it made.
ClaimsMade == IF agent.id # 0 THEN {agent.id} ELSE {}
ClaimsAgent == {agent.creation} \ {0}
AdapterStops ==
  /\ agent.creation # 0
  /\ stops' = stops \cup ClaimsAgent
  /\ agent' = [id |-> 0, creation |-> 0]
  /\ UNCHANGED <<agents, parlant, server, parlantTurns, cleaning, cleanups>>
\* deleteQuietly: a deletion that fails, or takes too long, leaves the agent behind.
AgentDeleted(n) ==
  /\ n \in stops /\ agents[n] # "creating"
  /\ stops' = stops \ {n}
  /\ agents' \in {[agents EXCEPT ![n] = "gone"],
                  [agents EXCEPT ![n] = IF @ = "live" THEN "undeleted" ELSE @]}
  /\ UNCHANGED <<agent, parlant, server, parlantTurns, cleaning, cleanups>>

-----------------------------------------------------------------------------
\* onMessage: refused while the room is cleaned up.  The room's worker brings a turn once
\* the one before has ended, or was left to a cleanup.
ParlantTurnBegins(t) ==
  /\ parlantTurns[t].phase = "none"
  /\ \A u \in ParlantTurns : u < t => parlantTurns[u].phase = "done" \/ parlantTurns[u].left
  /\ parlantTurns' = [parlantTurns EXCEPT ![t].phase = IF cleaning.stage = "none" THEN "client" ELSE "done"]
  /\ UNCHANGED <<agent, agents, stops, parlant, server, cleaning, cleanups>>

\* getOrCreateSession, once the client has loaded: the room's session, the one another turn
\* is making, or one this turn makes, with the room's customer.
Pending(t) == t # 0 /\ parlantTurns[t].phase \in {"customer", "session"}
ForgettingDue == cleaning.stage = "waiting" /\ ~Pending(cleaning.awaited)
InitializingNever == 0
Initializing == parlant.init
Making == IF parlant.customer = 0 THEN "customer" ELSE "session"
ClientReady(t) ==
  /\ parlantTurns[t].phase = "client" /\ ~ForgettingDue
  /\ \/ /\ parlant.session # 0
        /\ parlantTurns' = [parlantTurns EXCEPT ![t].phase = "asking"] /\ UNCHANGED parlant
     \/ /\ parlant.session = 0 /\ Initializing # 0
        /\ parlantTurns' = [parlantTurns EXCEPT ![t] = [@ EXCEPT !.phase = "joined", !.init = Initializing]] /\ UNCHANGED parlant
     \/ /\ parlant.session = 0 /\ Initializing = 0
        /\ parlantTurns' = [parlantTurns EXCEPT ![t] = [@ EXCEPT !.phase = Making, !.init = t]]
        /\ parlant' = [parlant EXCEPT !.init = t]
  /\ UNCHANGED <<agent, agents, stops, server, cleaning, cleanups>>

CustomerMade(t) ==
  /\ parlantTurns[t].phase = "customer"
  /\ parlantTurns' = [parlantTurns EXCEPT ![t].phase = "session"]
  /\ parlant' = [parlant EXCEPT !.customer = t]
  /\ server' = [server EXCEPT !.live = @ \cup {Customer(t)}]
  /\ UNCHANGED <<agent, agents, stops, cleaning, cleanups>>

\* The initialization settles for the turn and those that joined it.
InitSettles(t, phase) ==
  [u \in ParlantTurns |-> IF u = t \/ (parlantTurns[u].phase = "joined" /\ parlantTurns[u].init = t)
                          THEN [parlantTurns[u] EXCEPT !.phase = phase] ELSE parlantTurns[u]]
Unpending(t) == IF parlant.init = t THEN 0 ELSE parlant.init
SessionMade(t) ==
  /\ parlantTurns[t].phase = "session"
  /\ parlantTurns' = InitSettles(t, "asking")
  /\ parlant' = [parlant EXCEPT !.session = t, !.init = Unpending(t)]
  /\ server' = [server EXCEPT !.live = @ \cup {Session(t)}]
  /\ UNCHANGED <<agent, agents, stops, cleaning, cleanups>>
\* A request fails, or there is no agent to talk to (requireAgentId).
SessionNotMade(t) ==
  /\ parlantTurns[t].phase \in {"customer", "session"}
  /\ parlantTurns' = InitSettles(t, "failing")
  /\ parlant' = [parlant EXCEPT !.init = Unpending(t)]
  /\ UNCHANGED <<agent, agents, stops, server, cleaning, cleanups>>

\* createEvent, the polls for the AI's answer, and what the room is told of it.
TurnProceeds(t) ==
  /\ \/ parlantTurns[t].phase = "asking" /\ parlantTurns' = [parlantTurns EXCEPT ![t].phase = "polling"]
     \/ parlantTurns[t].phase = "polling" /\ parlantTurns' = [parlantTurns EXCEPT ![t].phase = "replying"]
     \/ parlantTurns[t].phase \in {"client", "asking", "polling", "replying"} /\ parlantTurns' = [parlantTurns EXCEPT ![t].phase = "failing"]
     \/ parlantTurns[t].phase \in {"replying", "failing"} /\ parlantTurns' = [parlantTurns EXCEPT ![t].phase = "done"]
  /\ UNCHANGED <<agent, agents, stops, parlant, server, cleaning, cleanups>>

-----------------------------------------------------------------------------
\* onCleanup: it waits for the initialization in flight, forgets the room's session and
\* customer as soon as it has settled, and deletes them both.
AwaitsNothing == 0
AwaitsInit == parlant.init
ForgettingBegins ==
  /\ cleaning.stage = "none" /\ cleanups < MaxCleanups /\ cleanups' = cleanups + 1
  /\ cleaning' = [stage |-> "waiting", awaited |-> AwaitsInit, deleting |-> {}]
  /\ parlantTurns' = [t \in ParlantTurns |-> IF parlantTurns[t].phase = "none" THEN parlantTurns[t] ELSE [parlantTurns[t] EXCEPT !.left = TRUE]]
  /\ UNCHANGED <<agent, agents, stops, parlant, server>>

RoomForgotten ==
  /\ ForgettingDue
  /\ cleaning' = [cleaning EXCEPT !.stage = "deleting",
                                  !.deleting = server.live \cap {Session(parlant.session), Customer(parlant.customer)}]
  /\ parlant' = [session |-> 0, customer |-> 0, init |-> 0]
  /\ UNCHANGED <<agent, agents, stops, server, parlantTurns, cleanups>>

SessionDeleted(r) ==
  /\ cleaning.stage = "deleting" /\ r \in cleaning.deleting
  /\ cleaning' = [cleaning EXCEPT !.deleting = @ \ {r}]
  /\ server' \in {[server EXCEPT !.live = @ \ {r}], [server EXCEPT !.undeleted = @ \cup {r}]}
  /\ UNCHANGED <<agent, agents, stops, parlant, parlantTurns, cleanups>>
ForgettingEnds ==
  /\ cleaning.stage = "deleting" /\ cleaning.deleting = {}
  /\ cleaning' = NotCleaning
  /\ UNCHANGED <<agent, agents, stops, parlant, server, parlantTurns, cleanups>>

ParlantNext ==
  \/ \E n \in ParlantStarts : AdapterStarts(n) \/ AgentMade(n) \/ AgentNotMade(n) \/ AgentDeleted(n)
  \/ AdapterStops \/ ForgettingBegins \/ RoomForgotten \/ ForgettingEnds
  \/ \E r \in server.live : SessionDeleted(r)
  \/ \E t \in ParlantTurns : ParlantTurnBegins(t) \/ ClientReady(t) \/ CustomerMade(t) \/ SessionMade(t)
                             \/ SessionNotMade(t) \/ TurnProceeds(t)

ParlantSpec == ParlantInit /\ [][ParlantNext]_parlantVars

-----------------------------------------------------------------------------

\* Every session and customer the room made on the server is the one the room uses, is
\* being deleted, or could not be: two turns never make one each and lose the first.
RoomResourcesAreKnown ==
  server.live \subseteq {Session(parlant.session), Customer(parlant.customer)} \cup cleaning.deleting \cup server.undeleted

\* The adapter talks through an agent that is on the server; and of those it made, none is
\* left there, once it has stopped, but one it could not delete.
AgentsAreTheirs ==
  /\ agent.id # 0 => agents[agent.id] = "live"
  /\ \A n \in ParlantStarts : agents[n] = "live" => n = agent.id \/ n \in stops

ParlantHoldsWhatItUses == RoomResourcesAreKnown /\ AgentsAreTheirs
=============================================================================
