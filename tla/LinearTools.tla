----------------------------- MODULE LinearTools -----------------------------
(***************************************************************************)
(* The Linear tools an agent in a Band room may call (linear/tools.ts,     *)
(* activities.ts): it narrates a session, asks its user, answers it, plans *)
(* and changes issues, and opens sessions of its own.  What a call did to  *)
(* Linear counts as its turn's work, and the store of sessions and rooms   *)
(* (store.ts) is shared with the bridge, whose webhooks run beside.        *)
(*                                                                         *)
(* A call that its schema, the UUID check or a method the client lacks     *)
(* refuses has made no request, and leaves all as it was.  What a read     *)
(* returns is left out, and so is what a turn does besides these tools.    *)
(* The bridge is LinearBridge's, with one webhook per session at a time    *)
(* and a room per session; that Linear sends events of a session opened by *)
(* a tool is assumed.  The bridge's own failures are left out.             *)
(***************************************************************************)
EXTENDS Naturals, FiniteSets

CONSTANTS
  LinearSessions, \* Linear's agent sessions
  Assigned,       \* the one that Linear opened: its room is the agent's
  ToolCalls,      \* the calls a turn may have in flight
  MaxToolTurns,   \* bound: turns
  MaxToolCalls,   \* bound: calls
  MaxUserEvents   \* bound: webhooks

ASSUME LinearToolsAssumption ==
  /\ Assigned \in LinearSessions
  /\ {MaxToolTurns, MaxToolCalls, MaxUserEvents} \subseteq Nat

VARIABLES
  ltTurn,    \* the turn: its number, and whether it runs
  acted,     \* the turns whose ledger has an "act"
  judged,    \* the turns that have ended, each with its verdict
  toolCalls, \* the calls in flight
  onLinear,  \* what Linear has of a session
  filed,     \* SessionRoomStore
  hooks,     \* the webhook of a session, and the record it will write back
  ltMemory   \* what the checks remember

linearToolVars == <<ltTurn, acted, judged, toolCalls, onLinear, filed, hooks, ltMemory>>

Turns == 1..MaxToolTurns
Unfiled == [st |-> "none", room |-> "none", last |-> 0]
NoToolCall == [tool |-> "none", turn |-> 0, of |-> Assigned, roomed |-> FALSE, pc |-> "none"]
NoHook == [at |-> "none", ev |-> 0, rec |-> Unfiled]

LinearToolsInit ==
  /\ ltTurn = [n |-> 0, open |-> FALSE] /\ acted = {} /\ judged = [t \in Turns |-> "none"]
  /\ toolCalls = [c \in ToolCalls |-> NoToolCall]
  /\ onLinear = [s \in LinearSessions |-> [made |-> s = Assigned, answered |-> FALSE]]
  /\ filed = [s \in LinearSessions |-> IF s = Assigned THEN [st |-> "active", room |-> "here", last |-> 0] ELSE Unfiled]
  /\ hooks = [s \in LinearSessions |-> NoHook]
  /\ ltMemory = [calls |-> 0, events |-> 0, worked |-> {}, excused |-> {}, known |-> {Assigned},
                 mapped |-> {}, crossed |-> {}, closed |-> {}, handled |-> [s \in LinearSessions |-> 0]]

-----------------------------------------------------------------------------
(* The tools.                                                              *)

\* "narrate": a thought, an action, an error.  "ask": free text, a choice, an account to
\* link.  "respond": the session's answer.  "change": an issue updated, commented on or
\* created.  "read": an issue, its comments, its team's states, the repositories to suggest.
\* "open": a session on an issue or on a comment.
OfSession == {"narrate", "ask", "respond", "plan"}
Tools == OfSession \cup {"change", "read", "open"}

\* LINEAR_ACTION_EFFECT: the tools whose call is real work.
NarratingActs(tool) == tool # "read"
Acts(tool) == tool \notin {"narrate", "read"}

TurnStarts ==
  /\ ~ltTurn.open /\ ltTurn.n < MaxToolTurns
  /\ ltTurn' = [n |-> ltTurn.n + 1, open |-> TRUE]
  /\ UNCHANGED <<acted, judged, toolCalls, onLinear, filed, hooks, ltMemory>>

\* The turn is judged by its ledger.  Calls still in flight count no more.
TurnEnds ==
  /\ ltTurn.open
  /\ ltTurn' = [ltTurn EXCEPT !.open = FALSE]
  /\ judged' = [judged EXCEPT ![ltTurn.n] = IF ltTurn.n \in acted THEN "complete" ELSE "missing_reply"]
  /\ UNCHANGED <<acted, toolCalls, onLinear, filed, hooks, ltMemory>>

\* The model names a session it was told of, and may name the room it is in.
CallMade(c, tool, s, roomed) ==
  /\ ltTurn.open /\ toolCalls[c] = NoToolCall /\ ltMemory.calls < MaxToolCalls
  /\ IF tool \in OfSession THEN s \in ltMemory.known ELSE s = Assigned
  /\ roomed => tool = "open"
  /\ toolCalls' = [toolCalls EXCEPT ![c] = [tool |-> tool, turn |-> ltTurn.n, of |-> s, roomed |-> roomed, pc |-> "asked"]]
  /\ ltMemory' = [ltMemory EXCEPT !.calls = @ + 1]
  /\ UNCHANGED <<ltTurn, acted, judged, onLinear, filed, hooks>>

CallOver(c) == [toolCalls EXCEPT ![c] = NoToolCall]

\* executeCustomTool: a call that succeeds counts for the turn it was made in.
TurnNow(c) == ltTurn.n
TurnOf(c) == toolCalls[c].turn
Lands(c) ==
  /\ toolCalls' = CallOver(c)
  /\ acted' = IF Acts(toolCalls[c].tool) THEN acted \cup {TurnOf(c)} ELSE acted

\* What the checks know of the turn's work: a change of a turn that has not ended.
Works(c) ==
  IF toolCalls[c].tool \in {"narrate", "read"} \/ judged[toolCalls[c].turn] # "none" THEN {} ELSE {toolCalls[c].turn}
Excused(c) == {toolCalls[c].turn}

\* Linear takes the request; a plan it refuses is posted as a thought instead.
LinearTakes(c) ==
  /\ toolCalls[c].pc = "asked" /\ toolCalls[c].tool \notin {"read", "respond", "open"}
  /\ Lands(c)
  /\ ltMemory' = [ltMemory EXCEPT !.worked = @ \cup Works(c)]
  /\ UNCHANGED <<ltTurn, judged, onLinear, filed, hooks>>

\* It answers a read.
LinearAnswers(c) ==
  /\ toolCalls[c].pc = "asked" /\ toolCalls[c].tool = "read"
  /\ Lands(c)
  /\ UNCHANGED <<ltTurn, judged, onLinear, filed, hooks, ltMemory>>

\* It refuses: the call fails.
RefusalIsPassed(c) == IF toolCalls[c].tool = "respond" THEN [toolCalls EXCEPT ![c].pc = "closing"] ELSE CallOver(c)
Refusal(c) == CallOver(c)
LinearRefuses(c) ==
  /\ toolCalls[c].pc = "asked" /\ toolCalls' = Refusal(c)
  /\ UNCHANGED <<ltTurn, acted, judged, onLinear, filed, hooks, ltMemory>>

\* A change that Linear made is answered with no id: the call fails.
AnswerIsNameless(c) ==
  /\ toolCalls[c].pc = "asked" /\ toolCalls[c].tool \in {"change", "open"}
  /\ toolCalls' = CallOver(c)
  /\ IF toolCalls[c].tool = "open"
     THEN \E s \in LinearSessions : ~onLinear[s].made /\ onLinear' = [onLinear EXCEPT ![s].made = TRUE]
     ELSE UNCHANGED onLinear
  /\ ltMemory' = [ltMemory EXCEPT !.worked = @ \cup Works(c), !.excused = @ \cup Excused(c)]
  /\ UNCHANGED <<ltTurn, acted, judged, filed, hooks>>

-----------------------------------------------------------------------------
(* The answer to a session, and a session of the agent's own.              *)

AnswerPosted(c) ==
  /\ toolCalls[c].pc = "asked" /\ toolCalls[c].tool = "respond"
  /\ onLinear' = [onLinear EXCEPT ![toolCalls[c].of].answered = TRUE]
  /\ toolCalls' = [toolCalls EXCEPT ![c].pc = "closing"]
  /\ ltMemory' = [ltMemory EXCEPT !.worked = @ \cup Works(c)]
  /\ UNCHANGED <<ltTurn, acted, judged, filed, hooks>>

\* completeLinearSession: the record, as it is now, is marked.
ClosedAfresh(r) == [r EXCEPT !.st = "completed", !.last = 0]
RecordClosed(r) == [r EXCEPT !.st = "completed"]
SessionCloses(c) ==
  /\ toolCalls[c].pc = "closing"
  /\ LET s == toolCalls[c].of IN
       IF filed[s] = Unfiled THEN UNCHANGED <<filed, ltMemory>>
       ELSE /\ filed' = [filed EXCEPT ![s] = RecordClosed(@)]
            /\ ltMemory' = [ltMemory EXCEPT !.closed = @ \cup {s}]
  /\ Lands(c)
  /\ UNCHANGED <<ltTurn, judged, onLinear, hooks>>
\* The store fails after the answer was posted: the call fails.
ClosingFails(c) ==
  /\ toolCalls[c].pc = "closing" /\ toolCalls' = CallOver(c)
  /\ ltMemory' = [ltMemory EXCEPT !.excused = @ \cup Excused(c)]
  /\ UNCHANGED <<ltTurn, acted, judged, onLinear, filed, hooks>>

SessionOpened(c, s) ==
  /\ toolCalls[c].pc = "asked" /\ toolCalls[c].tool = "open" /\ ~onLinear[s].made
  /\ onLinear' = [onLinear EXCEPT ![s].made = TRUE]
  /\ toolCalls' = [toolCalls EXCEPT ![c] = [@ EXCEPT !.of = s, !.pc = "opened"]]
  /\ ltMemory' = [ltMemory EXCEPT !.worked = @ \cup Works(c)]
  /\ UNCHANGED <<ltTurn, acted, judged, filed, hooks>>

\* persistSessionRoom: the session is filed with the room the model named, whatever its
\* record was; a store that fails is told as a warning.
Told(c) == [ltMemory EXCEPT !.known = @ \cup {toolCalls[c].of}]
RoomPersists(c) ==
  /\ toolCalls[c].pc = "opened"
  /\ LET s == toolCalls[c].of IN
       IF toolCalls[c].roomed
       THEN /\ filed' = [filed EXCEPT ![s] = [st |-> "active", room |-> "here", last |-> 0]]
            /\ ltMemory' = [Told(c) EXCEPT !.mapped = @ \cup {s},
                 !.crossed = IF filed[s] # Unfiled \/ hooks[s] # NoHook THEN @ \cup {s} ELSE @]
       ELSE UNCHANGED filed /\ ltMemory' = Told(c)
  /\ Lands(c)
  /\ UNCHANGED <<ltTurn, judged, onLinear, hooks>>
MappedAnyway(s) == {s}
Mapped(s) == {}
PersistingFails(c) ==
  /\ toolCalls[c].pc = "opened" /\ toolCalls[c].roomed
  /\ ltMemory' = [Told(c) EXCEPT !.mapped = @ \cup Mapped(toolCalls[c].of)]
  /\ Lands(c)
  /\ UNCHANGED <<ltTurn, judged, onLinear, filed, hooks>>

-----------------------------------------------------------------------------
(* The bridge beside it.                                                   *)

\* A prompt is for the room its session is filed with; one of no record is dropped.
PromptArrives(s) ==
  /\ onLinear[s].made /\ hooks[s] = NoHook /\ filed[s] # Unfiled /\ ltMemory.events < MaxUserEvents
  /\ ltMemory' = [ltMemory EXCEPT !.events = @ + 1]
  /\ hooks' = [hooks EXCEPT ![s] = [at |-> "prompted", ev |-> ltMemory.events + 1, rec |-> filed[s]]]
  /\ UNCHANGED <<ltTurn, acted, judged, toolCalls, onLinear, filed>>

\* A session that is filed has its room; another gets one of its own.
SessionArrives(s) ==
  /\ onLinear[s].made /\ s # Assigned /\ hooks[s] = NoHook /\ ltMemory.events < MaxUserEvents
  /\ hooks' = [hooks EXCEPT ![s] =
       [at |-> IF filed[s] = Unfiled THEN "creating" ELSE "forwarding", ev |-> ltMemory.events + 1, rec |-> filed[s]]]
  /\ ltMemory' = [ltMemory EXCEPT !.events = @ + 1]
  /\ UNCHANGED <<ltTurn, acted, judged, toolCalls, onLinear, filed>>
RoomOfItsOwn(s) ==
  /\ hooks[s].at = "creating"
  /\ LET r == [st |-> "active", room |-> "other", last |-> 0] IN
       /\ filed' = [filed EXCEPT ![s] = r]
       /\ hooks' = [hooks EXCEPT ![s] = [@ EXCEPT !.at = "forwarding", !.rec = r]]
  /\ ltMemory' = [ltMemory EXCEPT !.closed = @ \ {s}]
  /\ UNCHANGED <<ltTurn, acted, judged, toolCalls, onLinear>>

\* The record that was read is written back, with the event it handled.
EventFiled(s) ==
  /\ hooks[s].at \in {"prompted", "forwarding"}
  /\ filed' = [filed EXCEPT ![s] = [hooks[s].rec EXCEPT
       !.st = IF hooks[s].at = "prompted" THEN "waiting" ELSE "active", !.last = hooks[s].ev]]
  /\ hooks' = [hooks EXCEPT ![s] = NoHook]
  /\ ltMemory' = [ltMemory EXCEPT !.closed = @ \ {s}, !.handled[s] = hooks[s].ev]
  /\ UNCHANGED <<ltTurn, acted, judged, toolCalls, onLinear>>

LinearToolsNext ==
  \/ TurnStarts \/ TurnEnds
  \/ \E c \in ToolCalls, tool \in Tools, s \in LinearSessions, roomed \in BOOLEAN : CallMade(c, tool, s, roomed)
  \/ \E c \in ToolCalls :
       \/ LinearTakes(c) \/ LinearAnswers(c) \/ LinearRefuses(c) \/ AnswerIsNameless(c)
       \/ AnswerPosted(c) \/ SessionCloses(c) \/ ClosingFails(c)
       \/ RoomPersists(c) \/ PersistingFails(c)
       \/ \E s \in LinearSessions : SessionOpened(c, s)
  \/ \E s \in LinearSessions : PromptArrives(s) \/ SessionArrives(s) \/ RoomOfItsOwn(s) \/ EventFiled(s)

LinearToolsSpec == LinearToolsInit /\ [][LinearToolsNext]_linearToolVars

-----------------------------------------------------------------------------

\* A turn is judged by the changes its own calls made to Linear while it ran, narration
\* aside (linear-tools.test.ts:191, 209): a call that outlives its turn counts for no
\* other.  But a call that fails after Linear made its change does not count, and one that
\* still files what it did when its turn ends counts too late.
VerdictsAreEarned ==
  \A t \in Turns :
    /\ judged[t] = "complete" => t \in ltMemory.worked
    /\ judged[t] = "missing_reply" /\ t \in ltMemory.worked
         => \/ t \in ltMemory.excused \cup acted
            \/ \E c \in ToolCalls : toolCalls[c].turn = t /\ toolCalls[c].pc # "asked"

\* A session is filed as completed only once Linear has its answer; and after a call that
\* answered it, it stays so until the bridge has handled another event of it.
CompletedIsAnswered ==
  \A s \in LinearSessions :
    /\ filed[s].st = "completed" => onLinear[s].answered
    /\ s \in ltMemory.closed => filed[s].st = "completed"

\* The event the bridge handled last stays on record, so that its redelivery is known as
\* one, whatever the agent's calls write in between; but for a session the bridge filed
\* before the call that opened it did, or was about to.
HandledStaysKnown ==
  \A s \in LinearSessions : filed[s].last = ltMemory.handled[s] \/ s \in ltMemory.crossed

\* A session that a call opened and said, with no warning, to have filed belongs to the
\* room that was named, where its user's prompts go; with the same exception.
SessionsComeHome ==
  \A s \in ltMemory.mapped \ ltMemory.crossed : filed[s].room = "here"

LinearWorkIsTrue == VerdictsAreEarned /\ CompletedIsAnswered /\ HandledStaysKnown /\ SessionsComeHome
=============================================================================
