------------------------------ MODULE RoomTools ------------------------------
(***************************************************************************)
(* The participants of one room as its context and its tools know them     *)
(* (ExecutionContext, AgentTools, AgentRuntime's participant events): a    *)
(* roster that Band's events, the first turn's hydration and the tool      *)
(* calls of several turns write, each from what Band answered some time    *)
(* ago, and that mentions and participant tools are resolved against.      *)
(***************************************************************************)
EXTENDS Naturals, Sequences, FiniteSets, SequencesExt

CONSTANTS
  Participants,  \* who may be in the room besides the agent
  ToolCallIds,    \* tool calls
  MaxMoves        \* joins and leaves by others

VARIABLES
  room,      \* Band's: who is in the room
  wire,      \* participant events on their way, in order
  roster,    \* ParticipantRoster
  hydration, \* the first turn's listChatParticipants
  call,      \* tool calls
  peersOn,   \* capabilities.peers
  moves,
  doubt      \* whose entry an answer older than an event may have written

toolsVars == <<room, wire, roster, hydration, call, peersOn, moves, doubt>>

\* An answer of Band on its way: what it says, and whose events were applied since.
Answer(said) == [said |-> said, missed |-> {}]
NoAnswer == Answer({})

NoCall == [kind |-> "none", of |-> "nobody", stage |-> "none", answer |-> NoAnswer,
           in |-> FALSE, out |-> FALSE, outcome |-> "none"]

ToolsInit ==
  /\ room \in SUBSET Participants /\ wire = <<>> /\ roster = {}
  /\ hydration = [stage |-> "none", answer |-> NoAnswer]
  /\ call = [c \in ToolCallIds |-> NoCall] /\ peersOn \in BOOLEAN
  /\ moves = 0 /\ doubt = room

\* What the call awaits is what it will write to the roster.
Writes(c) == call[c].stage \in {"syncing", "changed"}

\* A membership changes at Band: every call under way saw it so.
Seen(calls, members) ==
  [c \in ToolCallIds |->
     IF calls[c].stage \in {"none", "over"} THEN calls[c]
     ELSE [calls[c] EXCEPT !.in = @ \/ calls[c].of \in members, !.out = @ \/ calls[c].of \notin members]]

Moves(p) ==
  /\ moves < MaxMoves /\ moves' = moves + 1
  /\ room' = IF p \in room THEN room \ {p} ELSE room \cup {p}
  /\ wire' = Append(wire, [who |-> p, joined |-> p \notin room])
  /\ call' = Seen(call, room')
  /\ UNCHANGED <<roster, hydration, peersOn, doubt>>

\* participant_added, participant_removed: onRoomEvent applies it in the presence loop,
\* whatever the room's turn is awaiting.
EventArrives ==
  /\ wire # <<>>
  /\ LET p == Head(wire).who IN
       /\ roster' = IF Head(wire).joined THEN roster \cup {p} ELSE roster \ {p}
       /\ hydration' = IF hydration.stage = "asked"
                       THEN [hydration EXCEPT !.answer.missed = @ \cup {p}] ELSE hydration
       /\ call' = [c \in ToolCallIds |->
            IF Writes(c) THEN [call[c] EXCEPT !.answer.missed = @ \cup {p}] ELSE call[c]]
       /\ doubt' = doubt \ {p}
  /\ wire' = Tail(wire)
  /\ UNCHANGED <<room, peersOn, moves>>

\* roster.setAll, with an answer to listChatParticipants.
ToolsListedFor(answer) == roster' = answer.said /\ doubt' = answer.missed

\* loadParticipants, of the room's first turn.
Hydrates ==
  /\ hydration.stage = "none"
  /\ hydration' = [stage |-> "asked", answer |-> Answer(room)]
  /\ UNCHANGED <<room, wire, roster, call, peersOn, moves, doubt>>

HydrationEnds(ok) ==
  /\ hydration.stage = "asked"
  /\ hydration' = [stage |-> "over", answer |-> NoAnswer]
  /\ IF ok THEN ToolsListedFor(hydration.answer) ELSE UNCHANGED <<roster, doubt>>
  /\ UNCHANGED <<room, wire, call, peersOn, moves>>

Calls(c, stage, kind, p) ==
  call' = [call EXCEPT ![c] = [NoCall EXCEPT !.kind = kind, !.of = p, !.stage = stage,
             !.answer = Answer(room), !.in = p \in room, !.out = p \notin room]]

Proceeds(c, stage) == call' = [call EXCEPT ![c].stage = stage, ![c].answer = Answer(room)]
Answered(c, outcome) == call' = [call EXCEPT ![c] =
  [NoCall EXCEPT !.stage = "over", !.outcome = outcome, !.in = call[c].in, !.out = call[c].out]]

\* sendMessage, resolveEachMention: a cached roster that knows the mention is enough; an
\* empty one is fetched and kept, one that lags is fetched for this message alone.
StageOfSend(p) ==
  IF roster = {} THEN "syncing" ELSE IF p \in roster THEN "posting" ELSE "fetching"
SendCalled(c, p) ==
  /\ call[c].stage = "none"
  /\ Calls(c, StageOfSend(p), "send", p)
  /\ UNCHANGED <<room, wire, roster, hydration, peersOn, moves, doubt>>

FetchedAndKept(answer) == roster' = answer.said /\ UNCHANGED doubt
Fetched(answer) == UNCHANGED <<roster, doubt>>

SendFetched(c) ==
  /\ call[c].stage = "fetching"
  /\ Fetched(call[c].answer)
  /\ IF call[c].of \in call[c].answer.said THEN Proceeds(c, "posting") ELSE Answered(c, "absent")
  /\ UNCHANGED <<room, wire, hydration, peersOn, moves>>

\* createChatMessage: Band takes the message or refuses it.
SendEnds(c, ok) ==
  /\ call[c].stage = "posting"
  /\ Answered(c, IF ok THEN "sent" ELSE "failed")
  /\ UNCHANGED <<room, wire, roster, hydration, peersOn, moves, doubt>>

\* addParticipant and removeParticipant begin with syncParticipants.
MemberCalled(c, kind, p) ==
  /\ call[c].stage = "none" /\ kind \in {"add", "remove"}
  /\ Calls(c, "syncing", kind, p)
  /\ UNCHANGED <<room, wire, roster, hydration, peersOn, moves, doubt>>

\* syncParticipants answers, with the list it has just written.
Synced(c) ==
  /\ call[c].stage = "syncing"
  /\ ToolsListedFor(call[c].answer)
  /\ LET member == call[c].of \in call[c].answer.said IN
       CASE call[c].kind = "send" -> IF member THEN Proceeds(c, "posting") ELSE Answered(c, "absent")
         [] call[c].kind = "add" ->
              IF member THEN Answered(c, "already")
              ELSE IF peersOn THEN Proceeds(c, "looking") ELSE Answered(c, "unsupported")
         [] call[c].kind = "remove" -> IF member THEN Proceeds(c, "asking") ELSE Answered(c, "absent")
  /\ UNCHANGED <<room, wire, hydration, peersOn, moves>>

\* lookupPeerByName, among those not in the room.
LookedUp(c) ==
  /\ call[c].stage = "looking"
  /\ IF call[c].of \notin call[c].answer.said THEN Proceeds(c, "asking") ELSE Answered(c, "unknown")
  /\ UNCHANGED <<room, wire, roster, hydration, peersOn, moves, doubt>>

\* addChatParticipant, removeChatParticipant: Band changes the room, and says so to all.
Members(c) == IF call[c].kind = "add" THEN room \cup {call[c].of} ELSE room \ {call[c].of}
BandChanges(c) ==
  /\ call[c].stage = "asking" /\ Members(c) # room
  /\ room' = Members(c)
  /\ wire' = Append(wire, [who |-> call[c].of, joined |-> call[c].kind = "add"])
  /\ call' = Seen([call EXCEPT ![c].stage = "changed", ![c].answer = NoAnswer], Members(c))
  /\ UNCHANGED <<roster, hydration, peersOn, moves, doubt>>

\* The tool's own write to the roster, once Band has answered.
Changed(c) ==
  /\ call[c].stage = "changed"
  /\ roster' = IF call[c].kind = "add" THEN roster \cup {call[c].of} ELSE roster \ {call[c].of}
  /\ doubt' = IF call[c].of \in call[c].answer.missed THEN doubt \cup {call[c].of} ELSE doubt \ {call[c].of}
  /\ Answered(c, "done")
  /\ UNCHANGED <<room, wire, hydration, peersOn, moves>>

\* A request of the call fails: executeScopedToolCall answers with an error.
CallFails(c) ==
  /\ call[c].stage \in {"syncing", "fetching", "looking", "asking"}
  /\ Answered(c, "failed")
  /\ UNCHANGED <<room, wire, roster, hydration, peersOn, moves, doubt>>

ToolsNext ==
  \/ EventArrives \/ Hydrates \/ \E ok \in BOOLEAN : HydrationEnds(ok)
  \/ \E p \in Participants : Moves(p)
  \/ \E c \in ToolCallIds :
       \/ SendFetched(c) \/ Synced(c) \/ LookedUp(c) \/ BandChanges(c) \/ Changed(c) \/ CallFails(c)
       \/ \E ok \in BOOLEAN : SendEnds(c, ok)
       \/ \E p \in Participants : SendCalled(c, p) \/ \E k \in {"add", "remove"} : MemberCalled(c, k, p)

ToolsSpec == ToolsInit /\ [][ToolsNext]_toolsVars

-----------------------------------------------------------------------------

\* The roster follows the room: of whoever no event is on its way, it says what Band says,
\* unless the last to write of them was an answer older than an event already applied
\* (loadParticipants, syncParticipants, addParticipant and removeParticipant write what they
\* awaited; the fetch for one message does not, AgentTools.resolveMentionsAgainstFetched).
RosterFollows ==
  \A p \in Participants \ doubt :
    (\A i \in 1..Len(wire) : wire[i].who # p) => (p \in roster <=> p \in room)

\* What a tool tells the model of a participant was so at some moment of the call, however
\* far the roster lags: refused as absent, or found to be there already.
AnswersWereTrue ==
  \A c \in ToolCallIds :
    /\ call[c].outcome = "absent" => call[c].out
    /\ call[c].outcome = "already" => call[c].in

RosterIsSound == RosterFollows /\ AnswersWereTrue
=============================================================================
