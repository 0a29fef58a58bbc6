-------------------------- MODULE FrameworkMemory --------------------------
(***************************************************************************)
(* What a framework's model is given of a room's conversation, turn by     *)
(* turn: the Google ADK adapter keeps the lines itself, in an array per    *)
(* room (roomHistory); a LangGraph graph without a checkpointer is given   *)
(* the session's messages again each turn, and one with a checkpointer is  *)
(* given the history once and keeps a thread.  A line is a message of      *)
(* another's or the agent's reply to it: a turn replies once, through a    *)
(* tool or with its closing text, which is relayed.  A room that is left   *)
(* lets its running turn go on beside the session that follows.            *)
(***************************************************************************)
EXTENDS Naturals, Sequences, SequencesExt, FiniteSets

CONSTANTS
  FwWindow,      \* maxHistoryMessages
  MaxFwTurns,    \* bound: messages
  MaxFwSessions  \* bound: sessions of the room

ASSUME FwAssumption == FwWindow \in Nat \ {0}

FwTurns == 1..MaxFwTurns

VARIABLES
  fwKind,     \* "adk", "stateless" or "checkpointed"
  fwRoom,     \* the room's lines
  fwSession,  \* its session: the messages it recorded, whether its first was handed over, and
              \* what the checks remember: the conversation, and messages its backlog held early
              \* (a thread's, whichever its session)
  fwLines,    \* ADK: the room's array, whose owners are the turns that hold it
  fwThread,   \* LangGraph: the checkpointed thread
  fwTurns     \* the turns

fwVars == <<fwKind, fwRoom, fwSession, fwLines, fwThread, fwTurns>>

SaidLine(t) == [of |-> t, by |-> "other"]
Reply(t) == [of |-> t, by |-> "agent"]
\* Lines of a graph's state beside these: a tool's call, and a closing line without text.
ToolLine(t) == [of |-> t, by |-> "tool"]
BlankLine(t) == [of |-> t, by |-> "blank"]

NoFwTurn == [pc |-> "none", session |-> 0, input |-> <<>>, holds |-> FALSE, replied |-> FALSE, answer |-> 0]
FreshSession(n) == [n |-> n, record |-> <<>>, begun |-> FALSE, conv |-> <<>>, early |-> {}, gap |-> FALSE]

FwInit ==
  /\ fwKind \in {"adk", "stateless", "checkpointed"}
  /\ fwRoom = <<>> /\ fwSession = FreshSession(1) /\ fwLines = <<>> /\ fwThread = <<>>
  /\ fwTurns = [t \in FwTurns |-> NoFwTurn]

LastLines(s) == IF Len(s) > FwWindow THEN SubSeq(s, Len(s) - FwWindow + 1, Len(s)) ELSE s

-----------------------------------------------------------------------------
(* What a turn is given.                                                   *)

\* The room's history comes with the session's first message, without the message itself; with
\* the others, the messages the session has recorded.
History(t) ==
  IF fwSession.begun THEN Append(fwSession.record, SaidLine(t)) ELSE SelectSeq(fwRoom, LAMBDA line : line # SaidLine(t))

\* Broken variant: the history is cut to its limit with the message still in it.
HistoricalCut(t) == SelectSeq(LastLines(History(t)), LAMBDA line : line # SaidLine(t))
\* What is replayed of the history: its latest lines, the message left out first.
Historical(t) == LastLines(SelectSeq(History(t), LAMBDA line : line # SaidLine(t)))

\* The room's array as a turn finds it: anew from the session's history, or as it was kept.
RoomLines(t) == IF fwSession.begun THEN fwLines ELSE History(t)

Given(t) ==
  CASE fwKind = "adk" -> LastLines(RoomLines(t))
    [] fwKind = "stateless" -> Historical(t)
    [] fwKind = "checkpointed" -> fwThread \o (IF fwSession.begun THEN <<>> ELSE Historical(t))

-----------------------------------------------------------------------------
(* A turn.                                                                 *)

MessageSaid(t) ==
  /\ fwTurns[t].pc = "none" /\ \A u \in FwTurns : u < t => fwTurns[u].pc # "none"
  /\ fwRoom' = Append(fwRoom, SaidLine(t))
  /\ fwTurns' = [fwTurns EXCEPT ![t].pc = "said"]
  /\ UNCHANGED <<fwKind, fwSession, fwLines, fwThread>>

\* The session's turns follow one another.
NextIs(t) ==
  /\ fwTurns[t].pc = "said" /\ \A u \in FwTurns : u < t => fwTurns[u].pc # "said"
  /\ \A u \in FwTurns : fwTurns[u].session = fwSession.n => fwTurns[u].pc = "done"
Recorded(t) == [fwSession EXCEPT !.record = Append(@, SaidLine(t)), !.begun = TRUE]
StillQueued == {u \in FwTurns : fwTurns[u].pc = "said"}

\* The turn is given its lines, its message last, and the run begins: a checkpointer has taken
\* its input.
FwTurnBegins(t) ==
  LET first == ~fwSession.begun
      input == Append(Given(t), SaidLine(t))
  IN  /\ NextIs(t)
      /\ fwSession' = [Recorded(t) EXCEPT
           !.conv = Append(IF first THEN History(t) ELSE @, SaidLine(t)), !.early = IF first THEN @ \cup (StillQueued \ {t}) ELSE @]
      /\ fwTurns' = [fwTurns EXCEPT ![t] = [NoFwTurn EXCEPT !.pc = "running", !.session = fwSession.n,
                                                            !.input = input, !.holds = (fwKind = "adk")]]
      /\ fwLines' = IF fwKind = "adk" THEN RoomLines(t) ELSE fwLines
      /\ fwThread' = IF fwKind = "checkpointed" THEN input ELSE fwThread
      /\ UNCHANGED <<fwKind, fwRoom>>

\* The history could not be read: the message does not get as far as the adapter, nor does the
\* history come again.
HistoryFails(t) ==
  /\ NextIs(t) /\ ~fwSession.begun
  /\ fwSession' = [Recorded(t) EXCEPT !.gap = TRUE]
  /\ fwTurns' = [fwTurns EXCEPT ![t] = [NoFwTurn EXCEPT !.pc = "done", !.session = fwSession.n]]
  /\ UNCHANGED <<fwKind, fwRoom, fwLines, fwThread>>

\* A graph that cannot be built, or fails before its input is taken.
GraphNeverRuns(t) ==
  /\ NextIs(t) /\ fwKind # "adk"
  /\ fwSession' = [Recorded(t) EXCEPT !.gap = TRUE]
  /\ fwTurns' = [fwTurns EXCEPT ![t] = [NoFwTurn EXCEPT !.pc = "done", !.session = fwSession.n]]
  /\ UNCHANGED <<fwKind, fwRoom, fwLines, fwThread>>

\* What a turn of the session adds to the conversation.
ConvTold(t, ses) == [ses EXCEPT !.conv = IF fwTurns[t].session = ses.n THEN Append(@, Reply(t)) ELSE @]

\* A graph's run has the thread's lines from when it began, adds its own, and keeps the thread as
\* it has it: a run of an earlier session keeps it without what came between.
With(t, line) == IF fwKind = "adk" THEN fwTurns[t].input ELSE Append(fwTurns[t].input, line)
ThreadKept(t, line) == fwThread' = IF fwKind = "checkpointed" THEN With(t, line) ELSE fwThread
SessionKept(t) == [fwSession EXCEPT !.gap = @ \/ (fwKind = "checkpointed" /\ fwTurns[t].session # fwSession.n)]

\* A tool sends the reply.
FwReplies(t) ==
  /\ fwTurns[t].pc = "running" /\ ~fwTurns[t].replied
  /\ fwTurns' = [fwTurns EXCEPT ![t].replied = TRUE, ![t].input = With(t, ToolLine(t))]
  /\ fwRoom' = Append(fwRoom, Reply(t)) /\ fwSession' = ConvTold(t, SessionKept(t)) /\ ThreadKept(t, ToolLine(t))
  /\ UNCHANGED <<fwKind, fwLines>>

\* trimRoomHistory: an array twice too long is replaced by its latest lines.
Trimmed(lines) == IF Len(lines) > 2 * FwWindow THEN LastLines(lines) ELSE lines
Owned(t, lines) == fwLines' = IF fwTurns[t].holds THEN Trimmed(lines) ELSE fwLines
\* Broken variant: a turn whose array was trimmed takes it for another's.
HoldsUntilTrimmed(t, lines) == fwTurns[t].holds /\ Len(lines) <= 2 * FwWindow
\* A turn whose own array was trimmed holds the new one.
StillHolds(t, lines) == fwTurns[t].holds

\* rememberExchange: the message and the replies that landed, unless the array is another's.
Exchange(t) == fwLines \o <<SaidLine(t)>> \o (IF fwTurns[t].replied THEN <<Reply(t)>> ELSE <<>>)

\* Broken variant: the latest text there is.
AnswerOfAnyTurn(lines) ==
  LET texts == {i \in DOMAIN lines : lines[i].by = "agent"} IN
  IF texts = {} THEN 0 ELSE lines[CHOOSE i \in texts : \A j \in texts : j <= i].of
\* extractAssistantText: the latest text of the graph's lines, back to the latest message.
AnswerOf(lines) ==
  LET texts == {i \in DOMAIN lines : lines[i].by = "agent" /\ \A j \in i..Len(lines) : lines[j].by # "other"} IN
  IF texts = {} THEN 0 ELSE lines[CHOOSE i \in texts : \A j \in texts : j <= i].of

\* The run ends, with a closing text or without.
RunEnds(t, text) ==
  LET line == IF text THEN Reply(t) ELSE BlankLine(t)
      answer == IF fwKind # "adk" THEN AnswerOf(With(t, line)) ELSE IF text THEN t ELSE 0
  IN  /\ fwTurns[t].pc = "running"
      /\ fwTurns' = [fwTurns EXCEPT ![t].pc = "relaying", ![t].answer = answer, ![t].input = <<>>,
                                    ![t].holds = StillHolds(t, Exchange(t))]
      /\ Owned(t, Exchange(t)) /\ ThreadKept(t, line) /\ fwSession' = SessionKept(t)
      /\ UNCHANGED <<fwKind, fwRoom>>
FwRunFails(t) ==
  /\ fwTurns[t].pc = "running"
  /\ fwTurns' = [fwTurns EXCEPT ![t] = [@ EXCEPT !.pc = "done", !.input = <<>>, !.holds = FALSE]]
  /\ Owned(t, Exchange(t))
  /\ UNCHANGED <<fwKind, fwRoom, fwSession, fwThread>>

FwOver(t) == [fwTurns EXCEPT ![t] = [@ EXCEPT !.pc = "done", !.holds = FALSE]]
\* relayReply: a text is the reply of a turn that has none; delivered, it is remembered.
TextRelayed(t) ==
  /\ fwTurns[t].pc = "relaying" /\ fwTurns[t].answer # 0 /\ ~fwTurns[t].replied
  /\ fwRoom' = Append(fwRoom, Reply(t)) /\ fwSession' = ConvTold(t, fwSession)
  /\ fwTurns' = [FwOver(t) EXCEPT ![t].replied = TRUE]
  /\ Owned(t, Append(fwLines, Reply(t)))
  /\ UNCHANGED <<fwKind, fwThread>>
NothingRelayed(t) ==
  /\ fwTurns[t].pc = "relaying" /\ fwTurns' = FwOver(t)
  /\ UNCHANGED <<fwKind, fwRoom, fwSession, fwLines, fwThread>>

\* onCleanup, with the session's end: the array is let go.
FwRoomLeft ==
  /\ fwSession.n < MaxFwSessions
  /\ fwSession' = [FreshSession(fwSession.n + 1) EXCEPT !.early = IF fwKind = "checkpointed" THEN fwSession.early ELSE {}]
  /\ fwLines' = <<>>
  /\ fwTurns' = [t \in FwTurns |-> [fwTurns[t] EXCEPT !.holds = FALSE]]
  /\ UNCHANGED <<fwKind, fwRoom, fwThread>>

FwNext ==
  \/ \E t \in FwTurns :
       \/ MessageSaid(t) \/ FwTurnBegins(t) \/ HistoryFails(t) \/ GraphNeverRuns(t) \/ FwReplies(t)
       \/ \E text \in BOOLEAN : RunEnds(t, text)
       \/ FwRunFails(t) \/ TextRelayed(t) \/ NothingRelayed(t)
  \/ FwRoomLeft

FwSpec == FwInit /\ [][FwNext]_fwVars

-----------------------------------------------------------------------------
\* The turns of the session that the model is at work on.
AtWork == {t \in FwTurns : fwTurns[t].pc = "running" /\ fwTurns[t].session = fwSession.n}
Before(t) == SubSeq(fwSession.conv, 1, Cardinality({i \in DOMAIN fwSession.conv : fwSession.conv[i].of # t}))
Count(lines, line) == Cardinality({i \in DOMAIN lines : lines[i] = line})

\* The message a turn is about is the last line its model is given, and, but for a message that
\* waited its turn when its session began, and so came with the history, the only one of it.
MessageComesLast ==
  \A t \in FwTurns : fwTurns[t].pc = "running" =>
    /\ Last(SelectSeq(fwTurns[t].input, LAMBDA line : line.by # "tool")) = SaidLine(t)
    /\ t \notin fwSession.early /\ fwTurns[t].session = fwSession.n => Count(fwTurns[t].input, SaidLine(t)) = 1

\* ADK: a turn is given exactly the latest lines of its session's conversation, the history it
\* began with, each message and each reply that was delivered, in order: trimmed arrays, failed
\* runs, failed relays and turns of a session that is over change nothing.
ADKRemembers ==
  fwKind = "adk" => \A t \in AtWork :
    t \notin fwSession.early => fwTurns[t].input = Append(LastLines(Before(t)), SaidLine(t))

\* LangGraph: without a checkpointer, a turn is given the others' latest messages of the session;
\* with one, the thread has everything the session has seen, unless a first message's history
\* could not be read or its graph not be run.
GraphsAreTold ==
  /\ fwKind = "stateless" => \A t \in AtWork, u \in FwTurns :
       fwTurns[u].session = fwSession.n /\ u < t /\ t - u <= FwWindow => SaidLine(u) \in ToSet(fwTurns[t].input)
  /\ fwKind = "checkpointed" /\ ~fwSession.gap => \A t \in AtWork :
       ToSet(LastLines(Before(t))) \subseteq
         {IF line.by = "tool" THEN Reply(line.of) ELSE line : line \in ToSet(fwTurns[t].input)}

\* The text that is relayed as a turn's reply is its own run's, whatever the thread holds.
RepliesAreTheRuns == \A t \in FwTurns : fwTurns[t].answer \in {0, t}

\* A framework's model is told the conversation it answers.
FrameworksAreTold == MessageComesLast /\ ADKRemembers /\ GraphsAreTold /\ RepliesAreTheRuns
=============================================================================
