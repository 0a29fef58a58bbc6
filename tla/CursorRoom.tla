----------------------------- MODULE CursorRoom -----------------------------
(***************************************************************************)
(* The decisions Cursor asks a room for (CursorRoomAgent over              *)
(* ACPRoomAgent's permission requests and shared/decisions): a permission, *)
(* a question or a plan is posted to the room, the room's worker is handed *)
(* back so that the reply can reach the adapter, and the reply, either     *)
(* deadline, an eviction, the end of the turn or of the room ends it.      *)
(***************************************************************************)
EXTENDS Integers, FiniteSets

CONSTANTS CursorTurns, CursorAsks, MaxPending

ASSUME CursorAssumption ==
  CursorTurns \subseteq Nat /\ 0 \notin CursorTurns /\ CursorAsks \subseteq Nat /\ MaxPending \in Nat \ {0}

VARIABLES
  roomTurn,  \* CursorRoomAgent.turn: the running turn, 0 for none
  cursor,   \* the turns: their phase, whether onMessage still holds the room's worker,
            \* whether the turn knows its session, whether the room let it go
  decision,  \* the asks: their turn, what they want, where their prompt is, how they ended
  registry  \* decisions: the asks held, claimed or not

cursorVars == <<roomTurn, cursor, decision, registry>>

NoCursorTurn == [phase |-> "absent", attached |-> FALSE, session |-> FALSE, orphan |-> FALSE]
NoDecision == [turn |-> 0, kind |-> "none", prompt |-> "none", answer |-> "none", reply |-> "none",
               told |-> {}, lost |-> FALSE]

CursorInit ==
  /\ roomTurn = 0 /\ registry = {}
  /\ cursor = [t \in CursorTurns |-> NoCursorTurn]
  /\ decision = [a \in CursorAsks |-> NoDecision]

\* The registry's entries nobody claimed: claiming and answering are one step.
Unclaimed == {a \in registry : decision[a].answer = "none"}

\* endUnanswered: whoever removes an unclaimed ask resolves it.
UnansweredAsk(asks, gone) ==
  [a \in CursorAsks |-> IF a \in gone THEN [asks[a] EXCEPT !.answer = "nothing"] ELSE asks[a]]

\* onMessage of a message that is no command: one turn at a time.
MessageArrives(t) ==
  /\ cursor[t].phase = "absent" /\ \A u \in CursorTurns : u < t => cursor[u].phase # "absent"
  /\ \A u \in CursorTurns : ~cursor[u].attached
  /\ IF roomTurn # 0
     THEN cursor' = [cursor EXCEPT ![t].phase = "over"] /\ UNCHANGED roomTurn
     ELSE /\ roomTurn' = t
          /\ cursor' = [cursor EXCEPT ![t] = [@ EXCEPT !.phase = "setup", !.attached = TRUE]]
  /\ UNCHANGED <<decision, registry>>

\* onAcpSessionReady
SessionReady(t) ==
  /\ cursor[t].phase = "setup"
  /\ cursor' = [cursor EXCEPT ![t] = [@ EXCEPT !.phase = "prompting", !.session = roomTurn = t]]
  /\ UNCHANGED <<roomTurn, decision, registry>>

\* resolveExtension, resolveCursorPermission: only the running prompt's own session may ask;
\* a permission is admitted by the session that is prompting (routePermissionRequest).
MayAsk(t, kind) ==
  /\ roomTurn # 0
  /\ IF kind = "permission" THEN cursor[t].phase = "prompting" /\ ~cursor[t].orphan
     ELSE roomTurn = t /\ cursor[t].session

\* DecisionRegistry.evictOldest: at capacity, the oldest ask still open.
Evicted ==
  IF Cardinality(registry) < MaxPending THEN {}
  ELSE {a \in Unclaimed : \A b \in Unclaimed : a <= b}

\* waitForDecision to its prompt's post, or the answer of an ask that finds no turn.
DecisionAsked(a, t, kind) ==
  /\ decision[a].kind = "none" /\ \A b \in CursorAsks : b < a => decision[b].kind # "none"
  /\ cursor[t].phase \in {"prompting", "over"}
  /\ IF MayAsk(t, kind)
     THEN /\ decision' = [UnansweredAsk(decision, Evicted) EXCEPT ![a] =
                [NoDecision EXCEPT !.turn = roomTurn, !.kind = kind, !.prompt = "posting"]]
          /\ registry' = (registry \ Evicted) \cup {a}
     ELSE /\ decision' = [decision EXCEPT ![a] = [@ EXCEPT !.kind = kind, !.turn = t, !.reply = "cancelled"]]
          /\ UNCHANGED registry
  /\ UNCHANGED <<roomTurn, cursor>>

\* postPrompt: the room is handed back whether or not the prompt landed; a prompt that
\* failed ends its ask unless a reply claimed it meanwhile.
PromptSettles(a) ==
  /\ decision[a].prompt = "posting"
  /\ \E ok \in BOOLEAN :
       LET gone == IF ok THEN {} ELSE {a} \cap Unclaimed IN
       /\ decision' = [UnansweredAsk(decision, gone) EXCEPT ![a].prompt = "posted"]
       /\ registry' = registry \ gone
  /\ cursor' = [cursor EXCEPT ![decision[a].turn].attached = FALSE]
  /\ UNCHANGED roomTurn

\* handleControl: a valid command of the room claims its ask, answers it and says so.  The
\* command reaches the adapter once no turn holds the room's worker.
RoomDecides(a) ==
  /\ a \in Unclaimed /\ \A u \in CursorTurns : ~cursor[u].attached
  /\ decision' = [decision EXCEPT ![a] = [@ EXCEPT !.answer = "answer", !.told = @ \cup {"resolved"}]]
  /\ UNCHANGED <<roomTurn, cursor, registry>>

\* abandonDecision of a decision that times out: the requester is told, if nobody answered.
TimedOut(a) == [UnansweredAsk(decision, {a}) EXCEPT ![a].told = @ \cup {"timed out"}]
ClaimedMayExpire(a) == a \in registry
MayExpire(a) == a \in Unclaimed

\* DecisionRegistry.wait past its deadline.
DecisionExpires(a) ==
  /\ decision[a].prompt = "posted" /\ decision[a].reply = "none" /\ MayExpire(a)
  /\ decision' = TimedOut(a) /\ registry' = registry \ {a}
  /\ UNCHANGED <<roomTurn, cursor>>

\* The ACP engine gives a permission up at its own deadline (resolveManually); a reply that
\* claimed it is lost when the prompt it answers is still being posted.
PermissionExpires(a) ==
  /\ decision[a].kind = "permission" /\ decision[a].reply = "none"
  /\ decision[a].answer = "none" \/ decision[a].prompt = "posting"
  /\ decision' = [IF MayExpire(a) THEN TimedOut(a) ELSE decision EXCEPT
                   ![a].reply = "cancelled", ![a].lost = a \notin Unclaimed]
  /\ registry' = registry \ ({a} \cap Unclaimed)
  /\ UNCHANGED <<roomTurn, cursor>>

\* Or because its connection is lost or the event that tells the room of it failed, whatever
\* the room answers (handlePermissionRequest).
PermissionEventFails(a) ==
  /\ decision[a].kind = "permission" /\ decision[a].reply = "none"
  /\ decision' = [UnansweredAsk(decision, {a} \cap Unclaimed) EXCEPT ![a] = [@ EXCEPT !.lost = TRUE, !.reply = "cancelled"]]
  /\ registry' = registry \ ({a} \cap Unclaimed)
  /\ UNCHANGED <<roomTurn, cursor>>

\* The answer goes back to Cursor, and the entry is forgotten (wait's finally).
DecisionAnswered(a) ==
  /\ decision[a].prompt = "posted" /\ decision[a].answer # "none"
  /\ decision[a].reply = "none" \/ a \in registry
  /\ decision' = [decision EXCEPT ![a].reply = IF @ # "none" THEN @
                                     ELSE IF decision[a].answer = "answer" THEN "selected" ELSE "cancelled"]
  /\ registry' = registry \ {a}
  /\ UNCHANGED <<roomTurn, cursor>>

\* onAcpTurnFinished: forgotten now, so a late ask finds no turn to attach to.
RoomCancelled == decision' = UnansweredAsk(decision, Unclaimed) /\ registry' = {}
TurnFinished(t) ==
  /\ cursor[t].phase \in {"setup", "prompting"}
  /\ cursor' = [cursor EXCEPT ![t].phase = "closing"]
  /\ IF roomTurn = t THEN roomTurn' = 0 /\ RoomCancelled ELSE UNCHANGED <<roomTurn, decision, registry>>

\* forgetTurn, the end of onMessage: only the turn itself goes.
ForgetsAny(t) == 0
Forgets(t) == IF roomTurn = t THEN 0 ELSE roomTurn
TurnForgotten(t) ==
  /\ cursor[t].phase = "closing"
  /\ cursor' = [cursor EXCEPT ![t] = [@ EXCEPT !.phase = "over", !.attached = FALSE]]
  /\ roomTurn' = Forgets(t)
  /\ UNCHANGED <<decision, registry>>

\* onCleanup, stop: whatever still runs goes on without the room, its permissions given up.
RoomLetGo ==
  /\ \E t \in CursorTurns : cursor[t].phase \in {"setup", "prompting", "closing"} /\ ~cursor[t].orphan
  /\ roomTurn' = 0 /\ registry' = {}
  /\ cursor' = [t \in CursorTurns |->
       IF cursor[t].phase \in {"setup", "prompting", "closing"}
       THEN [cursor[t] EXCEPT !.orphan = TRUE, !.attached = FALSE] ELSE cursor[t]]
  /\ decision' = UnansweredAsk(decision, Unclaimed)

CursorNext ==
  \/ \E t \in CursorTurns :
       MessageArrives(t) \/ SessionReady(t) \/ TurnFinished(t) \/ TurnForgotten(t)
  \/ \E a \in CursorAsks :
       \/ \E t \in CursorTurns, kind \in {"permission", "question"} : DecisionAsked(a, t, kind)
       \/ PromptSettles(a) \/ RoomDecides(a) \/ DecisionExpires(a) \/ PermissionExpires(a)
       \/ PermissionEventFails(a) \/ DecisionAnswered(a)
  \/ RoomLetGo

CursorSpec == CursorInit /\ [][CursorNext]_cursorVars

----------------------------------------------------------------------------

\* What the room was told of an ask is what Cursor got: a reply that was acknowledged is
\* the answer Cursor gets, unless the engine gave the permission up meanwhile: its connection
\* was lost, its event failed, or its deadline passed while the prompt was still being posted;
\* the requester is never told both that it was resolved and that it timed out; and nobody
\* answers for the room.
AcknowledgedIsHonoured ==
  \A a \in CursorAsks :
    /\ ~({"resolved", "timed out"} \subseteq decision[a].told)
    /\ decision[a].reply = "selected" => "resolved" \in decision[a].told
    /\ "resolved" \in decision[a].told /\ decision[a].reply = "cancelled" => decision[a].lost

\* An ask Cursor waits on is never lost: it is one of at most MaxPending that the room can
\* answer, or its answer is already there; and what the room can answer is of the running turn.
AsksAreHeld ==
  /\ Cardinality(Unclaimed) <= MaxPending
  /\ \A a \in CursorAsks : decision[a].kind # "none" /\ decision[a].reply = "none" => a \in Unclaimed \/ decision[a].answer # "none"
  /\ \A a \in Unclaimed : decision[a].turn = roomTurn

\* The engine's running prompt is the current turn until the room lets it go, whatever an
\* earlier turn that ends late forgets: a turn mistaken for over would let a second prompt
\* in beside it and find no one for its asks.
RunningTurnIsKnown ==
  \A t \in CursorTurns :
    cursor[t].phase \in {"setup", "prompting"} /\ ~cursor[t].orphan => roomTurn = t

DecisionsReachTheRoom == AcknowledgedIsHonoured /\ AsksAreHeld /\ RunningTurnIsKnown
=============================================================================
