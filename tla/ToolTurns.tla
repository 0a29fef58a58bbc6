----------------------------- MODULE ToolTurns -----------------------------
(***************************************************************************)
(* The turns of a tool-calling adapter in one room (ToolCallingAdapter,    *)
(* core/turn, toolRounds, turnBudget): the model is asked,                 *)
(* its tool calls run and are reported, its closing text is relayed unless *)
(* the turn replied or declined, and what was posted stays in the          *)
(* conversation the next turn is asked with.  A room that is left lets its *)
(* running turn go on beside the turns of the session that follows.        *)
(***************************************************************************)
EXTENDS Integers, Sequences, FiniteSets

CONSTANTS MaxToolTurns, MaxToolSessions, MaxToolRounds, MaxCalls, MaxLosses

TurnIds == 1..MaxToolTurns

VARIABLES
  tool,      \* the turns, by id
  session,   \* the room's session; one is over when the room is cleaned up
  convs,     \* the conversations, by the session that made them
  held,      \* conversations: the session whose conversation the map holds, 0 for none
  said,      \* what the room shows: messages and the agent's posts
  losses     \* posts and events that failed, a bound of the checks

toolVars == <<tool, session, convs, held, said, losses>>

Absent == [phase |-> "absent", of |-> 0, boot |-> FALSE, rounds |-> 0,
           left |-> 0, open |-> FALSE, declined |-> FALSE, failed |-> FALSE, expired |-> FALSE,
           landed |-> {}, posts |-> 0, text |-> FALSE, relayed |-> FALSE,
           told |-> FALSE, calls |-> 0, results |-> 0]

ToolInit ==
  /\ tool = [t \in TurnIds |-> Absent]
  /\ session = 1 /\ convs = [n \in 1..MaxToolSessions |-> <<>>] /\ held = 0
  /\ said = <<>> /\ losses = 0

Asked(t) == [of |-> t, post |-> 0]
PostsTold(t, k) == [of |-> t, post |-> k]
PostsOf(t) == [k \in 1..tool[t].posts |-> PostsTold(t, k)]
TurnEnded(t) == tool[t].phase \in {"answered", "failed"}

\* A post or an event that the platform may refuse.
Lands(ok) == IF ok THEN UNCHANGED losses ELSE losses < MaxLosses /\ losses' = losses + 1

\* onMessage, conversationFor, handleTurn to its first model call: the room's worker hands
\* a message over once the session's last turn is over, so that the room's lock is free; the
\* session's first turn comes with the room's history, without the message itself.
Seeds == \A u \in TurnIds : tool[u].of # session
Reseeds == Seeds \/ held = 0
ToolTurnBegins(t) ==
  /\ tool[t].phase = "absent" /\ \A u \in TurnIds : u < t => tool[u].phase # "absent"
  /\ \A u \in TurnIds : tool[u].of = session => TurnEnded(u)
  /\ tool' = [tool EXCEPT ![t] =
       [Absent EXCEPT !.phase = "asking", !.of = session, !.boot = Seeds]]
  /\ IF Reseeds
     THEN /\ held' = session
          /\ convs' = [convs EXCEPT ![session] = (IF Seeds THEN said ELSE <<>>) \o <<Asked(t)>>]
     ELSE /\ UNCHANGED held
          /\ convs' = [convs EXCEPT ![held] = Append(@, Asked(t))]
  /\ said' = Append(said, Asked(t))
  /\ UNCHANGED <<session, losses>>

\* A turn that is over keeps what it did.
ToolTurnOver(turn, phase) ==
  [turn EXCEPT !.phase = phase, !.rounds = 0, !.left = 0, !.declined = FALSE, !.failed = FALSE,
               !.expired = FALSE]
Becomes(t, phase) == tool' = [tool EXCEPT ![t].phase = phase]
ToolKeep == UNCHANGED <<session, held>>

\* The model answers with a round of calls, RoundOutcome.start refusing one too many; or
\* with its closing text, which may be blank.
CallsRequested(t) ==
  /\ tool[t].phase = "asking"
  /\ IF tool[t].rounds = MaxToolRounds THEN Becomes(t, "reporting")
     ELSE \E n \in 1..MaxCalls :
       tool' = [tool EXCEPT ![t] = [@ EXCEPT !.phase = "calling", !.rounds = @ + 1, !.left = n,
                                             !.declined = FALSE, !.failed = FALSE]]
  /\ ToolKeep /\ UNCHANGED <<convs, said, losses>>

\* The finally of handleTurn, then the relay of the text: what was sent joins the conversation.
RejoinedIfAnswered(t) ==
  convs' = IF tool[t].phase = "reporting" THEN convs
           ELSE [convs EXCEPT ![tool[t].of] = @ \o PostsOf(t)]
Rejoined(t) == convs' = [convs EXCEPT ![tool[t].of] = @ \o PostsOf(t)]

TextAnswered(t) ==
  /\ tool[t].phase = "asking"
  /\ \E text \in BOOLEAN : tool' = [tool EXCEPT ![t] = [@ EXCEPT !.phase = "relaying", !.text = text]]
  /\ Rejoined(t)
  /\ ToolKeep /\ UNCHANGED <<said, losses>>

ModelFails(t) ==
  /\ tool[t].phase = "asking"
  /\ Becomes(t, "reporting")
  /\ ToolKeep /\ UNCHANGED <<convs, said, losses>>

\* The deadline: the model's answer is waited for no longer; a tool that runs is let run.
Expires(t) ==
  /\ tool[t].phase \in {"asking", "calling"} /\ ~tool[t].expired
  /\ tool' = [tool EXCEPT ![t] = [@ EXCEPT !.expired = TRUE,
                                           !.phase = IF @ = "asking" THEN "reporting" ELSE @]]
  /\ ToolKeep /\ UNCHANGED <<convs, said, losses>>

\* One call of the round: the deadline is checked before it is reported.
CallBeginsReported(t) ==
  /\ tool[t].phase = "calling" /\ tool[t].left > 0 /\ ~tool[t].open
  /\ tool' = [tool EXCEPT ![t] = [@ EXCEPT !.calls = @ + 1, !.open = ~tool[t].expired,
                                           !.phase = IF tool[t].expired THEN "reporting" ELSE @]]
  /\ ToolKeep /\ UNCHANGED <<convs, said, losses>>
CallBegins(t) ==
  /\ tool[t].phase = "calling" /\ tool[t].left > 0 /\ ~tool[t].open
  /\ IF tool[t].expired THEN Becomes(t, "reporting") /\ UNCHANGED losses
     ELSE \E ok \in BOOLEAN :
       /\ Lands(ok)
       /\ tool' = [tool EXCEPT ![t] = [@ EXCEPT !.open = TRUE, !.calls = IF ok THEN @ + 1 ELSE @]]
  /\ ToolKeep /\ UNCHANGED <<convs, said>>

\* The tool's outcome, recorded on the turn if it landed (recordLanded) and on the round
\* (ToolRoundOutcome), then reported.
Landed(turn, effect) ==
  [turn EXCEPT !.landed = @ \cup ({effect} \ {"observe", "error"}),
               !.posts = IF effect = "reply" THEN @ + 1 ELSE @]
RoundRecorded(turn, effect) ==
  [turn EXCEPT !.declined = @ \/ effect = "decline", !.failed = @ \/ effect = "error"]
CallEnds(t) ==
  /\ tool[t].open
  /\ \E effect \in {"reply", "decline", "act", "observe", "error"}, ok \in BOOLEAN :
       /\ Lands(ok)
       /\ tool' = [tool EXCEPT ![t] =
            [RoundRecorded(Landed(@, effect), effect) EXCEPT
               !.open = FALSE, !.left = @ - 1, !.results = IF ok THEN @ + 1 ELSE @]]
       /\ said' = IF effect = "reply" THEN Append(said, PostsTold(t, tool[t].posts + 1)) ELSE said
  /\ ToolKeep /\ UNCHANGED convs

\* RoundOutcome.shouldStop: a decline ends the turn unless a call beside it failed.
ShouldStop(t) == tool[t].declined /\ ~tool[t].failed
RoundEnds(t) ==
  /\ tool[t].phase = "calling" /\ tool[t].left = 0 /\ ~tool[t].open
  /\ IF ShouldStop(t)
     THEN /\ \E text \in BOOLEAN :
               tool' = [tool EXCEPT ![t] = [@ EXCEPT !.phase = "relaying", !.text = text]]
          /\ Rejoined(t)
     ELSE /\ Becomes(t, IF tool[t].expired THEN "reporting" ELSE "asking")
          /\ UNCHANGED convs
  /\ ToolKeep /\ UNCHANGED <<said, losses>>

\* The catch: the failure is reported, its own failure swallowed; then the finally.
FailureReported(t) ==
  /\ tool[t].phase = "reporting"
  /\ \E ok \in BOOLEAN :
       /\ Lands(ok)
       /\ tool' = [tool EXCEPT ![t] = [ToolTurnOver(@, "failed") EXCEPT !.told = ok]]
  /\ Rejoined(t)
  /\ ToolKeep /\ UNCHANGED said

\* relayReply, then finishTurn: the missing reply of a turn that did nothing is reported.
RepliedIfPosted(t) == "reply" \in tool[t].landed
Replied(t) == tool[t].landed \cap {"reply", "decline"} # {}
RelaysReply(t) ==
  /\ tool[t].phase = "relaying" /\ tool[t].text /\ ~Replied(t)
  /\ \E ok \in BOOLEAN :
       /\ Lands(ok)
       /\ IF ok
          THEN LET k == tool[t].posts + 1 IN
               /\ tool' = [tool EXCEPT ![t] = [ToolTurnOver(@, "answered") EXCEPT !.posts = k, !.relayed = TRUE,
                                                                   !.landed = @ \cup {"reply"}]]
               /\ said' = Append(said, PostsTold(t, k))
               /\ convs' = [convs EXCEPT ![tool[t].of] = Append(@, PostsTold(t, k))]
          ELSE tool' = [tool EXCEPT ![t] = ToolTurnOver(@, "failed")] /\ UNCHANGED <<said, convs>>
  /\ ToolKeep

Judged(t) ==
  /\ tool[t].phase = "relaying" /\ (~tool[t].text \/ Replied(t))
  /\ tool' = [tool EXCEPT ![t] =
       IF @.landed = {} THEN [@ EXCEPT !.phase = "reporting"] ELSE ToolTurnOver(@, "answered")]
  /\ ToolKeep /\ UNCHANGED <<convs, said, losses>>

\* onCleanup: the conversation is let go; a running turn goes on.
RoomCleaned ==
  /\ session < MaxToolSessions
  /\ session' = session + 1 /\ held' = 0
  /\ UNCHANGED <<tool, convs, said, losses>>

ToolNext ==
  \/ \E t \in TurnIds :
       \/ ToolTurnBegins(t) \/ CallsRequested(t) \/ TextAnswered(t) \/ ModelFails(t)
       \/ Expires(t) \/ CallBegins(t) \/ CallEnds(t) \/ RoundEnds(t) \/ FailureReported(t)
       \/ RelaysReply(t) \/ Judged(t)
  \/ RoomCleaned

ToolSpec == ToolInit /\ [][ToolNext]_toolVars

----------------------------------------------------------------------------

Times(seq, item) == Cardinality({k \in DOMAIN seq : seq[k] = item})

\* Between two turns, the conversation the next is asked with holds every post of the
\* session's turns once, after the message it answers, a turn that failed halfway included;
\* or the next turn answers again (handleTurn's finally).
PostsAreRemembered ==
  held # 0 /\ (\A t \in TurnIds : tool[t].of = held => TurnEnded(t)) =>
    \A t \in TurnIds : tool[t].of = held => \A k \in 1..tool[t].posts :
      /\ Times(convs[held], PostsTold(t, k)) = 1
      /\ \E i, j \in DOMAIN convs[held] :
           i < j /\ convs[held][i] = Asked(t) /\ convs[held][j] = PostsTold(t, k)

\* A session's conversation is written by its own turns alone: the turn a cleanup left
\* running writes into the one it was asked with, which nobody reads again.
ConversationsAreApart ==
  /\ held \in {0, session}
  /\ \A n \in 1..MaxToolSessions : \A i, j \in DOMAIN convs[n] :
       i < j /\ tool[convs[n][i].of].of = n => tool[convs[n][j].of].of = n

\* The calls and results the room saw are as many, but for the events that were lost: no
\* call is reported that the deadline keeps from running.
CallsHaveResults ==
  \A t \in TurnIds : TurnEnded(t) =>
    tool[t].calls - tool[t].results \in (-losses)..losses

\* A turn answers once or says why not: its closing text is never relayed on top of a reply
\* or a decline, a turn that ends well replied, declined or acted, and one that does not has
\* told the room, unless that post or the reply itself failed.
TurnsAreAccounted ==
  \A t \in TurnIds :
    /\ tool[t].relayed => tool[t].posts = 1 /\ "decline" \notin tool[t].landed
    /\ tool[t].phase = "answered" => tool[t].landed # {}
    /\ tool[t].phase = "failed" /\ ~tool[t].told => losses > 0

TurnsAreTold == PostsAreRemembered /\ ConversationsAreApart /\ CallsHaveResults /\ TurnsAreAccounted
=============================================================================
