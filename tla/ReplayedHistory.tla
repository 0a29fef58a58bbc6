-------------------------- MODULE ReplayedHistory --------------------------
(***************************************************************************)
(* What a model is told of the room it rejoins: the platform's history,    *)
(* converted to the provider's messages (converters/anthropic, google-adk, *)
(* vercel-ai-sdk, gemini, langchain), and the exchanges selected for a     *)
(* Letta agent (adapters/shared/history).  The history grows one entry at  *)
(* a time; the conversions are functions of it.                            *)
(***************************************************************************)
EXTENDS Integers, SequencesExt

CONSTANTS MaxEntries, Limits

Calls == {1, 2}
Speakers == {"A", "B", ""}

VARIABLES
  raw,  \* the room's history, tool events and texts
  turns \* the room's history as LettaHistoryConverter reads it

historyVars == <<raw, turns>>

(***************************************************************************)
(* The converters.  An entry is a tool call or a result, legible or not, a *)
(* text of the agent's own or of someone else, a note (a thought, an       *)
(* error) or a task; a message is its role and its blocks.                 *)
(***************************************************************************)
Message(role, blocks) == [role |-> role, blocks |-> blocks]
Block(kind, n) == [kind |-> kind, n |-> n]
NothingConverted == [messages |-> <<>>, calls |-> <<>>, results |-> <<>>]

Flushed(messages, role, blocks) ==
  IF blocks = <<>> THEN messages ELSE Append(messages, Message(role, blocks))
CallsFlushed(c) == [c EXCEPT !.messages = Flushed(@, "assistant", c.calls), !.calls = <<>>]
ResultsFlushed(c) == [c EXCEPT !.messages = Flushed(@, "user", c.results), !.results = <<>>]
BothFlushed(c) == ResultsFlushed(CallsFlushed(c))

Called(c, e) == IF e.legible THEN [c EXCEPT !.calls = Append(@, Block("call", e.n))] ELSE c
Returned(c, e) == IF e.legible THEN [c EXCEPT !.results = Append(@, Block("result", e.n))] ELSE c
Said(c, role, e) == [c EXCEPT !.messages = Append(@, Message(role, <<Block("text", e.n)>>))]

\* convert: what every converter but LangChain's does of one entry; heard is what becomes of
\* one that is no tool event.
Entry(c, e, heard) ==
  CASE e.kind = "call" -> Called(ResultsFlushed(c), e)
    [] e.kind = "result" -> Returned(CallsFlushed(c), e)
    [] OTHER -> heard

AnthropicHeard(c, e) ==
  CASE e.kind \notin {"own", "other"} -> c
    [] e.kind = "own" -> BothFlushed(c)
    [] OTHER -> Said(BothFlushed(c), "user", e)
AdkHeard(c, e) ==
  CASE e.kind = "note" -> c
    [] e.kind = "own" -> BothFlushed(c)
    [] OTHER -> Said(BothFlushed(c), "user", e)
GeminiHeard(c, e) ==
  CASE e.kind \notin {"own", "other"} -> c
    [] e.kind = "own" /\ (c.calls # <<>> \/ c.results # <<>>) -> c
    [] e.kind = "own" -> Said(c, "assistant", e)
    [] OTHER -> Said(BothFlushed(c), "user", e)

Uses(m) == IF m.role = "assistant" THEN SelectSeq(m.blocks, LAMBDA b : b.kind = "call") ELSE <<>>
AnswersOf(m, n) == m.role = "user" /\ \E k \in DOMAIN m.blocks : m.blocks[k] = Block("result", n)

\* patchOrphanedToolUses, patchOrphanedToolCalls: a call whose result is not in the next
\* message is given one, put first.
Synthetic(ms, i) ==
  LET orphans == SelectSeq(Uses(ms[i]), LAMBDA b : ~(i < Len(ms) /\ AnswersOf(ms[i + 1], b.n)))
  IN  [k \in DOMAIN orphans |-> Block("result", orphans[k].n)]
UserFollows(ms, i) == i < Len(ms) /\ ms[i + 1].role = "user"
PatchedIfLast(ms) ==
  ms \o IF ms = <<>> THEN <<>> ELSE Flushed(<<>>, "user", Synthetic(ms, Len(ms)))
Patched(ms) ==
  FlattenSeq([i \in DOMAIN ms |->
    << IF i > 1 /\ UserFollows(ms, i - 1)
       THEN [ms[i] EXCEPT !.blocks = Synthetic(ms, i - 1) \o @] ELSE ms[i] >>
    \o IF UserFollows(ms, i) THEN <<>> ELSE Flushed(<<>>, "user", Synthetic(ms, i))])

\* mergeConsecutiveRoles
Merged(ms) ==
  FoldLeft(LAMBDA acc, m :
             IF acc # <<>> /\ Last(acc).role = m.role
             THEN [acc EXCEPT ![Len(acc)].blocks = @ \o m.blocks] ELSE Append(acc, m),
           <<>>, ms)

AnthropicConvert(es) ==
  Patched(BothFlushed(FoldLeft(LAMBDA c, e : Entry(c, e, AnthropicHeard(c, e)), NothingConverted, es)).messages)
AdkConvert(es) ==
  Patched(BothFlushed(FoldLeft(LAMBDA c, e : Entry(c, e, AdkHeard(c, e)), NothingConverted, es)).messages)
VercelConvert(es) ==
  BothFlushed(FoldLeft(LAMBDA c, e : Entry(c, e, AnthropicHeard(c, e)), NothingConverted, es)).messages
GeminiConvert(es) ==
  Merged(BothFlushed(FoldLeft(LAMBDA c, e : Entry(c, e, GeminiHeard(c, e)), NothingConverted, es)).messages)

\* LangChain's: a result brings its call, the oldest waiting with its id or of its
\* tool; sameTool is whether calls 1 and 2 are of one tool.
Matching(c, n, sameTool) ==
  LET alike == SelectInSeq(c.calls, LAMBDA b : b.n = n \/ sameTool)
  IN  IF alike = 0 THEN c
      ELSE [c EXCEPT !.calls = RemoveAt(@, alike),
                     !.messages = Append(@, Message("assistant", <<c.calls[alike]>>))]
LangChainHeard(c, e, sameTool) ==
  CASE e.kind = "call" -> Called(c, e)
    [] e.kind = "result" /\ e.legible ->
         [Matching(c, e.n, sameTool) EXCEPT !.messages = Append(@, Message("tool", <<Block("result", e.n)>>))]
    [] e.kind = "other" -> Said(c, "user", e)
    [] OTHER -> c
LangChainConvert(es, sameTool) ==
  FoldLeft(LAMBDA c, e : LangChainHeard(c, e, sameTool), NothingConverted, es).messages

(***************************************************************************)
(* The exchanges a Letta agent is told of.  A line is who said it and the  *)
(* name it is printed with, none for a line printed bare.                  *)
(***************************************************************************)
Unnamed == "none"
Line(t, name) == [of |-> t.sender, name |-> name]

\* LettaHistoryConverter.convert: what a user said is printed with the user's name.
Printed(t) ==
  [role |-> t.role, sender |-> t.sender,
   lines |-> <<Line(t, IF t.role = "user" /\ t.sender # "" THEN t.sender ELSE Unnamed)>>]

\* nameContribution
Contribution(block, t) ==
  IF t.role = "user" /\ t.sender # "" THEN block.lines[1] ELSE Line(t, t.sender)

\* mergeConsecutiveSameRole of history.ts
OpensBlock(acc, t) == acc.merged = <<>> \/ Last(acc.merged).role # t.role
NamedFirst(acc, t) == IF OpensBlock(acc, t) THEN t.sender ELSE acc.attributedTo
NamedLast(acc, t) == t.sender
JoinedBlock(acc, t) ==
  LET block == Printed(t)
      line == IF t.sender = acc.attributedTo THEN block.lines[1] ELSE Contribution(block, t)
  IN  [attributedTo |-> NamedLast(acc, t),
       merged |-> IF OpensBlock(acc, t)
                  THEN Append(acc.merged, block)
                  ELSE [acc.merged EXCEPT ![Len(acc.merged)].lines = Append(@, line)]]
MergedTurns(ts) == FoldLeft(JoinedBlock, [attributedTo |-> "", merged |-> <<>>], ts).merged

\* pairUserAssistantTurns: an answer without its question is left out.
Paired(ts) ==
  LET Kept(i) == \/ ts[i].role = "user" /\ (i = Len(ts) \/ ts[i + 1].role = "assistant")
                 \/ ts[i].role = "assistant" /\ i > 1 /\ ts[i - 1].role = "user"
  IN  FlattenSeq([i \in DOMAIN ts |-> IF Kept(i) THEN <<ts[i]>> ELSE <<>>])

\* takeLast, takeRecentTurns
TakeLast(ts, cap) == SubSeq(ts, Len(ts) - cap + 1, Len(ts))
RecentCut(ts, cap) == IF cap >= Len(ts) THEN ts ELSE TakeLast(ts, cap)
Recent(ts, cap) ==
  LET cut == IF cap >= Len(ts) THEN ts ELSE TakeLast(ts, cap)
  IN  IF Len(cut) < Len(ts) /\ cut # <<>> /\ cut[1].role = "assistant" THEN Tail(cut) ELSE cut

SelectCompleteExchanges(ts, cap) == Recent(Paired(MergedTurns(ts)), cap)

----------------------------------------------------------------------------

HistoryInit == raw = <<>> /\ turns = <<>>

\* The room goes on.  A call and its result are each recorded once; one of them may be
\* missing, and they may come in any order with what else is said.
Happens(kind, n, legible) ==
  /\ turns = <<>> /\ Len(raw) < MaxEntries
  /\ raw' = Append(raw, [kind |-> kind, n |-> n, legible |-> legible])
  /\ UNCHANGED turns
ToolEvent ==
  \E kind \in {"call", "result"}, n \in Calls, legible \in BOOLEAN :
    /\ ~\E k \in DOMAIN raw : raw[k].kind = kind /\ raw[k].n = n
    /\ Happens(kind, n, legible)
SomethingElse == \E kind \in {"own", "other", "note", "task"} : Happens(kind, 10 + Len(raw), TRUE)

TurnSaid ==
  /\ raw = <<>> /\ Len(turns) < MaxEntries
  /\ \E role \in {"user", "assistant"}, sender \in Speakers :
       turns' = Append(turns, [role |-> role, sender |-> sender])
  /\ UNCHANGED raw

HistoryNext == ToolEvent \/ SomethingElse \/ TurnSaid
HistorySpec == HistoryInit /\ [][HistoryNext]_historyVars

----------------------------------------------------------------------------

TextsOf(ms) ==
  SelectSeq(FlattenSeq([i \in DOMAIN ms |-> ms[i].blocks]), LAMBDA b : b.kind = "text")
EntriesOf(es, kinds) == SelectSeq(es, LAMBDA e : e.kind \in kinds)
SaysOnce(ms, es, kinds) ==
  LET wanted == {k \in DOMAIN es : es[k].kind \in kinds}
      texts == SelectSeq(TextsOf(ms), LAMBDA b : \E k \in wanted : es[k].n = b.n)
  IN  [k \in DOMAIN texts |-> texts[k].n] = [k \in DOMAIN EntriesOf(es, kinds) |-> EntriesOf(es, kinds)[k].n]

\* Whatever the calls and results around it, what the others said reaches the model once
\* and in order: the pending calls and results are flushed before it, never over it
\* (convert of each converter).
WhatWasSaidIsReplayed ==
  /\ \A ms \in {AnthropicConvert(raw), VercelConvert(raw), GeminiConvert(raw),
               LangChainConvert(raw, FALSE), LangChainConvert(raw, TRUE)} :
       SaysOnce(ms, raw, {"other"})
  /\ SaysOnce(AdkConvert(raw), raw, {"other", "task"})

\* A provider refuses a call whose result is not in the very next message.  However the
\* history was cut or interleaved, Claude's and ADK's have one there for each call
\* (patchOrphanedToolUses, patchOrphanedToolCalls); Gemini's roles alternate; and LangChain's
\* call is followed by its own result, unless calls of one tool return out of order.
CallsAreAnswered ==
  /\ \A ms \in {AnthropicConvert(raw), AdkConvert(raw)} :
       \A i \in DOMAIN ms : \A k \in DOMAIN Uses(ms[i]) :
         i < Len(ms) /\ AnswersOf(ms[i + 1], Uses(ms[i])[k].n)
  /\ LET ms == GeminiConvert(raw) IN \A i \in 1..(Len(ms) - 1) : ms[i].role # ms[i + 1].role
  /\ LET ms == LangChainConvert(raw, FALSE) IN
       \A i \in DOMAIN ms : \A k \in DOMAIN Uses(ms[i]) :
         i < Len(ms) /\ ms[i + 1].blocks = <<Block("result", Uses(ms[i])[k].n)>>

\* Whoever reads the merged block reads each line as its speaker's, a speaker who returns
\* after another included (mergeConsecutiveSameRole); a block of the agents' is printed
\* with the name of the one who opened it.
LinesKeepTheirSpeaker ==
  LET Reads(block) ==
        FoldLeft(LAMBDA acc, line :
                   LET reader == IF line.name = Unnamed THEN acc.reader ELSE line.name
                   IN  [reader |-> reader, right |-> acc.right /\ reader = line.of],
                 [reader |-> IF block.role = "user" THEN "" ELSE block.sender, right |-> TRUE],
                 block.lines)
      ms == MergedTurns(turns)
  IN  \A i \in DOMAIN ms : Reads(ms[i]).right

\* What is replayed is the longest end of the conversation that opens on a question and
\* fits the limit: no answer without its question, no question left out but for age
\* (selectCompleteExchanges against its definition).
ReplayIsTheLatestExchanges ==
  \A limit \in Limits :
  LET ms == MergedTurns(turns)
      Fits(s) == Len(s) <= limit /\ (s = <<>> \/ s[1].role = "user")
      ends == {SubSeq(ms, i, Len(ms)) : i \in 1..(Len(ms) + 1)}
  IN  /\ SelectCompleteExchanges(turns, limit) \in {s \in ends : Fits(s)}
      /\ \A s \in ends : Fits(s) => Len(s) <= Len(SelectCompleteExchanges(turns, limit))

HistoryIsTrue ==
  WhatWasSaidIsReplayed /\ CallsAreAnswered /\ LinesKeepTheirSpeaker /\ ReplayIsTheLatestExchanges
=============================================================================
