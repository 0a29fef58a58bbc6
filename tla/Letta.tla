-------------------------------- MODULE Letta --------------------------------
(***************************************************************************)
(* A room of the Letta adapter (adapters/letta/LettaAdapter.ts): one Letta *)
(* agent per room, created by the room's first turn, told the room's       *)
(* history by a bootstrap turn, deleted when the room is left.             *)
(*                                                                         *)
(* A room runs one turn at a time, but leaving it only aborts the turn in  *)
(* flight: that turn runs on beside the cleanup and beside the turns of    *)
(* the room's next `life`.  Every wait of a turn on Letta rejects once its *)
(* abort signal fired; the wait for the shared client does not.            *)
(* Each turn of the tool loop is abstracted to one exchange.               *)
(***************************************************************************)
EXTENDS Naturals

CONSTANTS
  MaxLettaLives,   \* bound: joins of the room
  MaxLettaTurns,   \* bound: messages
  MaxLettaAgents   \* bound: agents created

ASSUME LettaAssumption == {MaxLettaLives, MaxLettaTurns, MaxLettaAgents} \subseteq Nat \ {0}

LettaTurns == 1..MaxLettaTurns
LettaAgents == 1..MaxLettaAgents
NoLetta == 0
GivesUpAfter == 3

VARIABLES
  letta,      \* what the adapter keeps of the room
  ltTurns,    \* every turn: where it awaits
  ltAgents,   \* the agents on the Letta server, and what they know
  ltMemory    \* what the checks remember

lettaVars == <<letta, ltTurns, ltAgents, ltMemory>>

NoLettaTurn == [pc |-> "none", life |-> 0, boots |-> FALSE, history |-> FALSE, agent |-> NoLetta]

LettaInit ==
  /\ letta = [life |-> 1, cleaning |-> "no", fresh |-> TRUE, agent |-> NoLetta, init |-> NoLetta,
              seeding |-> NoLetta, booted |-> FALSE, failures |-> 0, client |-> FALSE]
  /\ ltTurns = [t \in LettaTurns |-> NoLettaTurn]
  /\ ltAgents = [a \in LettaAgents |-> [st |-> "none", told |-> FALSE]]
  /\ ltMemory = [talked |-> FALSE, amnesia |-> FALSE, spent |-> FALSE, strayed |-> FALSE]

----------------------------------------------------------------------------
(* onMessage, getOrCreateAgent.                                            *)

\* Broken variant: a turn goes on though its signal has fired.
NeverAborted(t) == FALSE

\* The signal a turn took from roomAbortControllers has fired.
Aborted(t) == ltTurns[t].life < letta.life \/ letta.cleaning # "no"

Waits(t, pc) == ltTurns' = [ltTurns EXCEPT ![t].pc = pc]
EndedTurn == [NoLettaTurn EXCEPT !.pc = "done"]
Ends(t) == ltTurns' = [ltTurns EXCEPT ![t] = EndedTurn]

\* A bootstrap turn alone may inject the history: what ends it first loses it.
Spends(ts) ==
  ltMemory' = [ltMemory EXCEPT !.spent = @ \/ \E t \in ts : ltTurns[t].boots /\ ltTurns[t].history]

FirstLettaTurn(t) == ltTurns[t].pc = "none" /\ \A u \in LettaTurns : u < t => ltTurns[u].pc # "none"
Serving == \E u \in LettaTurns : ltTurns[u].life = letta.life /\ ltTurns[u].pc \notin {"none", "done"}

\* The first message of a life bootstraps.  A room being cleaned up rejects messages.
LettaTurnBegins(t) ==
  /\ FirstLettaTurn(t) /\ ~Serving
  /\ IF letta.cleaning # "no"
     THEN Ends(t) /\ UNCHANGED letta
     ELSE /\ ltTurns' = [ltTurns EXCEPT ![t] = [pc |-> "client", life |-> letta.life, boots |-> letta.fresh,
                                                history |-> ltMemory.talked, agent |-> NoLetta]]
          /\ letta' = [letta EXCEPT !.fresh = FALSE]
  /\ UNCHANGED <<ltAgents, ltMemory>>

\* clientLoader: one load, shared by whoever waits for it.
ClientLoads ==
  /\ ~letta.client
  /\ letta' = [letta EXCEPT !.client = TRUE]
  /\ UNCHANGED <<ltTurns, ltAgents, ltMemory>>
ClientFails(t) ==
  /\ ltTurns[t].pc = "client" /\ ~letta.client
  /\ Ends(t) /\ Spends({t})
  /\ UNCHANGED <<letta, ltAgents>>

\* The room's agent, or the creation under way, whoever began it, or its own.  raceTimeout
\* rejects at once when the signal has fired.
AgentSought(t) ==
  /\ ltTurns[t].pc = "client" /\ letta.client
  /\ \/ /\ letta.agent # NoLetta
        /\ ltTurns' = [ltTurns EXCEPT ![t].pc = "agent", ![t].agent = letta.agent]
        /\ UNCHANGED <<letta, ltMemory>>
     \/ /\ letta.agent = NoLetta /\ letta.init # NoLetta
        /\ Waits(t, "joining") /\ UNCHANGED <<letta, ltMemory>>
     \/ /\ letta.agent = NoLetta /\ letta.init = NoLetta /\ ~Aborted(t)
        /\ Waits(t, "creating") /\ letta' = [letta EXCEPT !.init = t] /\ UNCHANGED ltMemory
     \/ /\ letta.agent = NoLetta /\ letta.init = NoLetta /\ Aborted(t)
        /\ Ends(t) /\ Spends({t}) /\ UNCHANGED letta
  /\ UNCHANGED ltAgents

Joined(t) == {u \in LettaTurns : u = t \/ (ltTurns[u].pc = "joining" /\ letta.init = t)}

IsNextAgent(a) == ltAgents[a].st = "none" /\ \A b \in LettaAgents : b < a => ltAgents[b].st # "none"

AgentCreated(t) ==
  /\ ltTurns[t].pc = "creating" /\ ~Aborted(t)
  /\ \E a \in LettaAgents :
       /\ IsNextAgent(a)
       /\ ltAgents' = [ltAgents EXCEPT ![a].st = "live"]
       /\ letta' = [letta EXCEPT !.agent = a, !.init = IF @ = t THEN NoLetta ELSE @]
       /\ ltTurns' = [u \in LettaTurns |-> IF u \in Joined(t) THEN [ltTurns[u] EXCEPT !.pc = "agent", !.agent = a]
                                          ELSE ltTurns[u]]
  /\ UNCHANGED ltMemory

\* Refused, timed out, or aborted; a request given up may have made its agent all the same,
\* which nobody hears of.
CreateFails(t) ==
  /\ ltTurns[t].pc = "creating"
  /\ letta' = [letta EXCEPT !.init = IF @ = t THEN NoLetta ELSE @]
  /\ ltTurns' = [u \in LettaTurns |-> IF u \in Joined(t) THEN EndedTurn ELSE ltTurns[u]]
  /\ Spends(Joined(t))
  /\ \/ UNCHANGED ltAgents
     \/ \E a \in LettaAgents : IsNextAgent(a) /\ ltAgents' = [ltAgents EXCEPT ![a].st = "unheard"]

----------------------------------------------------------------------------
(* ensureBootstrapHistory, and the exchange.                               *)

\* A turn the room has left finds the agent of the room's next life.
Strays(t) == ltMemory' = [ltMemory EXCEPT !.strayed = @ \/ ltTurns[t].life < letta.life]

\* Without history to inject, a bootstrap is done at once.
HistorySought(t) ==
  /\ ltTurns[t].pc = "agent"
  /\ \/ /\ ~ltTurns[t].boots \/ letta.booted
        /\ Waits(t, "prompting") /\ UNCHANGED letta
     \/ /\ ltTurns[t].boots /\ ~letta.booted /\ letta.seeding # NoLetta
        /\ Waits(t, "awaiting") /\ UNCHANGED letta
     \/ /\ ltTurns[t].boots /\ ~letta.booted /\ letta.seeding = NoLetta /\ ltTurns[t].history
        /\ Waits(t, "seeding") /\ letta' = [letta EXCEPT !.seeding = t]
     \/ /\ ltTurns[t].boots /\ ~letta.booted /\ letta.seeding = NoLetta /\ ~ltTurns[t].history
        /\ Waits(t, "prompting") /\ letta' = [letta EXCEPT !.booted = TRUE, !.failures = 0]
  /\ Strays(t)
  /\ UNCHANGED ltAgents

Seeded(t) ==
  ltTurns' = [u \in LettaTurns |->
    IF u = t \/ (ltTurns[u].pc = "awaiting" /\ letta.seeding = t)
    THEN [ltTurns[u] EXCEPT !.pc = "prompting"] ELSE ltTurns[u]]

HistoryInjected(t) ==
  /\ ltTurns[t].pc = "seeding" /\ ~Aborted(t)
  /\ letta' = [letta EXCEPT !.booted = TRUE, !.failures = 0, !.seeding = IF @ = t THEN NoLetta ELSE @]
  /\ Seeded(t)
  /\ ltAgents' = [ltAgents EXCEPT ![ltTurns[t].agent].told = TRUE]
  /\ UNCHANGED ltMemory

\* The turn goes on without: "will retry" is for the next bootstrap turn.
InjectionFails(t) ==
  /\ ltTurns[t].pc = "seeding"
  /\ letta' = [letta EXCEPT !.booted = @ \/ letta.failures + 1 >= GivesUpAfter,
                            !.failures = IF @ + 1 >= GivesUpAfter THEN 0 ELSE @ + 1,
                            !.seeding = IF @ = t THEN NoLetta ELSE @]
  /\ Seeded(t)
  /\ Spends({t})
  /\ UNCHANGED ltAgents

\* The agent remembers what it is told, and answers from it.
PromptLands(t) ==
  /\ ltTurns[t].pc = "prompting" /\ ~Aborted(t)
  /\ ltAgents[ltTurns[t].agent].st = "live"
  /\ LET a == ltTurns[t].agent
         knows == ltAgents[a].told \/ ~ltTurns[t].history IN
       /\ ltAgents' = [ltAgents EXCEPT ![a].told = knows]
       /\ ltMemory' = [ltMemory EXCEPT !.talked = TRUE, !.amnesia = @ \/ ~knows]
  /\ Ends(t) /\ UNCHANGED letta

PromptRejected(t) ==
  /\ ltTurns[t].pc = "prompting"
  /\ Ends(t)
  /\ UNCHANGED <<letta, ltAgents, ltMemory>>

----------------------------------------------------------------------------
(* onCleanup.                                                              *)

\* Every wait of the room's turns on Letta is aborted.
CleanupBegins ==
  /\ letta.cleaning = "no" /\ letta.life < MaxLettaLives
  /\ letta' = [letta EXCEPT !.cleaning = "waiting"]
  /\ UNCHANGED <<ltTurns, ltAgents, ltMemory>>

\* The creation and the injection in flight have settled; the agent is deleted, unless
\* Letta refuses or does not answer in time.
CleanupDeletes ==
  /\ letta.cleaning = "waiting" /\ letta.init = NoLetta /\ letta.seeding = NoLetta
  /\ letta' = [letta EXCEPT !.cleaning = "deleting"]
  /\ \/ letta.agent = NoLetta /\ UNCHANGED ltAgents
     \/ /\ letta.agent # NoLetta
        /\ \E st \in {"deleted", "refused"} : ltAgents' = [ltAgents EXCEPT ![letta.agent].st = st]
  /\ UNCHANGED <<ltTurns, ltMemory>>

\* Broken variant: the flag of a room's bootstrap outlives its agent.
ForgotAgent == [letta EXCEPT !.agent = NoLetta, !.failures = 0]
Forgot == [ForgotAgent EXCEPT !.init = NoLetta, !.seeding = NoLetta, !.booted = FALSE]

\* The room may be joined again.
CleanupEnds ==
  /\ letta.cleaning = "deleting"
  /\ letta' = [Forgot EXCEPT !.cleaning = "no", !.fresh = TRUE, !.life = @ + 1]
  /\ UNCHANGED <<ltTurns, ltAgents, ltMemory>>

LettaTurnMoves(t) ==
  \/ LettaTurnBegins(t) \/ ClientFails(t) \/ AgentSought(t) \/ AgentCreated(t) \/ CreateFails(t)
  \/ HistorySought(t) \/ HistoryInjected(t) \/ InjectionFails(t) \/ PromptLands(t) \/ PromptRejected(t)

LettaNext ==
  \/ \E t \in LettaTurns : LettaTurnMoves(t)
  \/ ClientLoads \/ CleanupBegins \/ CleanupDeletes \/ CleanupEnds

LettaSpec == LettaInit /\ [][LettaNext]_lettaVars

----------------------------------------------------------------------------
(* What must hold.                                                         *)

\* A Letta agent that answers in a room with a conversation has been told it: the flag
\* that says so (bootstrappedRooms) goes with the agent (onCleanup).  Not so once a
\* bootstrap turn failed to inject it, for no later turn bootstraps (`spent`), or a turn
\* of a former life found the next one's agent (`strayed`).
AgentKnowsTheRoom == ltMemory.amnesia => ltMemory.spent \/ ltMemory.strayed

\* An agent the room heard of is the room's agent until its deletion was tried, however
\* turns, the cleanup and the room's next life interleave ("leaving orphaned Letta agents",
\* LettaAdapter.ts:359-361).  An agent that Letta made for a creation given up is not
\* ("unheard").
AgentsAreDeleted == \A a \in LettaAgents : ltAgents[a].st = "live" => letta.agent = a
==============================================================================
