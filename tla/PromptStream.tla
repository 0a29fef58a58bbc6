---------------------------- MODULE PromptStream ----------------------------
(***************************************************************************)
(* What an ACP agent streams while it answers (BandACPClient, toolCalls.ts *)
(* and ACPRoomAgent.runTurn): the updates are collected for the turn's one *)
(* flush, its own tool calls and its asks are shown as the room's activity *)
(* while the prompt runs, and a client whose process the engine has left   *)
(* behind says nothing more, however long that process lingers.            *)
(***************************************************************************)
EXTENDS Integers, Sequences, FiniteSets, SequencesExt

CONSTANTS MaxPrompts, MaxClients, ToolCalls, Requests, MaxUpdates

ASSUME StreamAssumption == {MaxPrompts, MaxClients, MaxUpdates} \subseteq Nat

VARIABLES
  client,     \* BandACPClient of each process, and the session the room uses on it
  prompts,    \* the turns: what they show, what they took, told and relayed
  sent,       \* the updates of the agents so far, each with the prompt then in flight
  bandLocal   \* enableMcpTools: Band's tools are served by this process

streamVars == <<client, prompts, sent, bandLocal>>

PromptsHeld == 1..MaxPrompts
Clients == 1..MaxClients

FreshClient ==
  [live |-> TRUE, session |-> 0, chunks |-> <<>>, retired |-> FALSE, inFlight |-> 0,
   owners |-> [c \in ToolCalls |-> 0], waits |-> [r \in Requests |-> 0]]
NoPrompt ==
  [client |-> 0, session |-> 0, phase |-> "absent", open |-> {}, ended |-> {}, local |-> {}, waits |-> {},
   shown |-> {}, events |-> <<>>, told |-> <<>>, texts |-> <<>>, relayed |-> <<>>, replied |-> FALSE]

StreamInit ==
  /\ client = [g \in Clients |-> FreshClient]
  /\ prompts = [t \in PromptsHeld |-> NoPrompt]
  /\ sent = <<>>
  /\ bandLocal \in BOOLEAN

\* The engine's live client: the first whose process is still trusted.
LivePrompt(g) == client[g].live /\ \A h \in Clients : h < g => ~client[h].live
Left(cl) == [cl EXCEPT !.live = FALSE]

----------------------------------------------------------------------------
(* What a prompt shows: trackNativeActivity under observeNativeToolCalls.  *)

\* claimToolCall: the first prompt to report a call owns it for its session's life.
LastOwner(cl, c) == cl.inFlight
Owner(cl, c) == IF cl.owners[c] = 0 THEN cl.inFlight ELSE cl.owners[c]
CallClaims(cl, c) == cl.inFlight # 0 /\ Owner(cl, c) = cl.inFlight

\* A call shows until it ends or turns out to be one Band runs itself.
Observed(p, u) ==
  IF u.call \in p.ended THEN p
  ELSE LET local == IF bandLocal /\ u.band THEN p.local \cup {u.call} ELSE p.local
           shows == ~u.done /\ u.call \notin local
       IN [p EXCEPT !.local = local,
                    !.ended = IF u.done THEN @ \cup {u.call} ELSE @,
                    !.open = IF shows THEN @ \cup {u.call} ELSE @ \ {u.call},
                    !.shown = IF shows THEN @ \cup {u.call} ELSE @]

\* endActivity: a prompt's tools and waits end with it.
Quiet(p) == [p EXCEPT !.open = {}, !.waits = {}, !.ended = {}, !.local = {}]
Released(cl) ==
  [cl EXCEPT !.inFlight = 0, !.waits = [r \in Requests |-> IF @[r] = cl.inFlight THEN 0 ELSE @[r]]]

\* retire: nothing of the process is heard any more.
StillHeard(cl) == cl
PromptRetired(cl) ==
  [cl EXCEPT !.retired = TRUE, !.owners = [c \in ToolCalls |-> 0], !.waits = [r \in Requests |-> 0]]

\* unlinkOwner: the room has left the session, and a later turn opens another.
PromptForgotten(cl) == [cl EXCEPT !.session = -@, !.owners = [c \in ToolCalls |-> 0]]

----------------------------------------------------------------------------
(* What the turn takes: coalesceChunks and recordBandToolCalls.            *)

Streamed(i) == sent[i].kind \in {"text", "thought"}

AnyRun(groups, i) == {k \in DOMAIN groups : Streamed(i) /\ sent[groups[k][1]].kind = sent[i].kind}

\* A streamed run stays open across the other streamed kind; an action closes both.
OpenRun(groups, i) ==
  {k \in DOMAIN groups :
     /\ Streamed(i) /\ sent[groups[k][1]].kind = sent[i].kind
     /\ \A j \in k..Len(groups) : Streamed(groups[j][1])}
Coalesced(chunks) ==
  FoldLeft(LAMBDA groups, i :
             IF OpenRun(groups, i) = {} THEN Append(groups, <<i>>)
             ELSE LET k == CHOOSE k \in OpenRun(groups, i) : TRUE IN [groups EXCEPT ![k] = Append(@, i)],
           <<>>, chunks)

NamedAtOnce(chunks, i) == sent[i].band

\* A Band tool another process runs is recorded when its call completes, whichever frame
\* of the turn named it.
NamedBy(chunks, i) ==
  IF sent[i].kind = "call" THEN sent[i].band
  ELSE \E j \in 1..SelectInSeq(chunks, LAMBDA k : k = i) : sent[chunks[j]].call = sent[i].call /\ sent[chunks[j]].band
BandToolLanded(chunks) ==
  \E i \in Range(chunks) : sent[i].call \in ToolCalls /\ sent[i].done /\ NamedBy(chunks, i)

\* flushChunks to its first post: the buffer is cleared as it is read.
Taken(cl) == [cl EXCEPT !.chunks = <<>>]
Flushing(p, cl) ==
  LET groups == Coalesced(cl.chunks)
      kind(group) == sent[group[1]].kind IN
  [Quiet(p) EXCEPT
     !.phase = "flushing",
     !.events = SelectSeq(groups, LAMBDA group : kind(group) # "text"),
     !.texts = FlattenSeq(SelectSeq(groups, LAMBDA group : kind(group) = "text")),
     !.replied = @ \/ (~bandLocal /\ BandToolLanded(cl.chunks))]

----------------------------------------------------------------------------

\* beginSession
StillCollecting(cl) == cl
Collecting(cl) == [cl EXCEPT !.chunks = <<>>]

\* runTurn to its prompt: the session collects anew.  Turns of a room are serial.
PromptBegins(t, g) ==
  /\ prompts[t].phase = "absent" /\ LivePrompt(g)
  /\ \A u \in PromptsHeld : u < t => prompts[u].phase = "over"
  /\ LET session == IF client[g].session > 0 THEN client[g].session ELSE 1 - client[g].session IN
     /\ client' = [client EXCEPT ![g] = [Collecting(@) EXCEPT !.session = session, !.inFlight = t]]
     /\ prompts' = [prompts EXCEPT ![t] =
          [@ EXCEPT !.client = g, !.session = session, !.phase = "prompting"]]
  /\ UNCHANGED <<sent, bandLocal>>

\* What an agent may send: a call once in a prompt, and again on a later one that replays
\* it; a result of a call it has sent, which may be what names the Band tool it invokes.
Sent(g, c, t) == \E i \in DOMAIN sent : sent[i].kind = "call" /\ sent[i].call = c /\ sent[i].client = g /\ sent[i].during >= t
Updates(g) ==
  [kind : {"text", "thought"}, call : {0}, done : {FALSE}, band : {FALSE}]
    \cup {u \in [kind : {"call"}, call : ToolCalls, done : BOOLEAN, band : BOOLEAN] :
            ~Sent(g, u.call, client[g].inFlight)}
    \cup {u \in [kind : {"result"}, call : ToolCalls, done : BOOLEAN, band : BOOLEAN] :
            Sent(g, u.call, 0) /\ (u.done \/ u.band)}

\* sessionUpdate: shown by the prompt that owns the call, and collected; dropped once
\* retired or before the session.
Latest == Max({t \in PromptsHeld : prompts[t].phase # "absent"})
StreamHeard(cl) == ~cl.retired /\ cl.session > 0
AgentSends(g) ==
  LET cl == client[g]  t == cl.inFlight IN
  /\ Len(sent) < MaxUpdates /\ StreamHeard(cl)
  /\ \E u \in Updates(g) :
       LET claims == u.call # 0 /\ CallClaims(cl, u.call) IN
       /\ sent' = Append(sent, u @@ [client |-> g, during |-> t, turn |-> Latest, live |-> cl.live])
       /\ client' = [client EXCEPT ![g] =
            [cl EXCEPT !.chunks = Append(@, Len(sent) + 1),
                       !.owners = IF claims THEN [@ EXCEPT ![u.call] = t] ELSE @]]
       /\ prompts' = IF claims THEN [prompts EXCEPT ![t] = Observed(@, u)] ELSE prompts
  /\ UNCHANGED bandLocal

\* openWaitFor, closeWaitFor: a request for a human holds a wait until its response is
\* written, for the prompt it came in.
RequestOpens(g, r) ==
  /\ client[g].inFlight # 0 /\ ~client[g].retired /\ client[g].waits[r] = 0
  /\ client' = [client EXCEPT ![g].waits[r] = client[g].inFlight]
  /\ prompts' = [prompts EXCEPT ![client[g].inFlight].waits = @ \cup {r}]
  /\ UNCHANGED <<sent, bandLocal>>
AskAnswered(g, r) ==
  /\ client[g].waits[r] # 0
  /\ client' = [client EXCEPT ![g].waits[r] = 0]
  /\ prompts' = [prompts EXCEPT ![client[g].waits[r]].waits = @ \ {r}]
  /\ UNCHANGED <<sent, bandLocal>>

\* The agent answers the prompt, or refuses it: a session that was never accepted is left.
PromptReturns(t) ==
  LET g == prompts[t].client IN
  /\ prompts[t].phase = "prompting"
  /\ \E refused \in BOOLEAN :
       client' = [client EXCEPT ![g] =
         IF refused /\ @.session > 0 THEN Taken(PromptForgotten(Released(@))) ELSE Taken(Released(@))]
  /\ prompts' = [prompts EXCEPT ![t] = Flushing(@, client[g])]
  /\ UNCHANGED <<sent, bandLocal>>

\* The turn times out or its connection closes: the client is retired before the flush.
TurnGivenUp(t) ==
  LET g == prompts[t].client IN
  /\ prompts[t].phase = "prompting"
  /\ client' = [client EXCEPT ![g] = Taken(Left(PromptRetired(Released(@))))]
  /\ prompts' = [prompts EXCEPT ![t] = Flushing(@, client[g])]
  /\ UNCHANGED <<sent, bandLocal>>

\* onCleanup and stop, under a turn that is still running.
RoomLeaves(g) ==
  /\ LivePrompt(g) /\ client[g].inFlight # 0 /\ client[g].session > 0
  /\ client' = [client EXCEPT ![g] = [PromptForgotten(@) EXCEPT !.chunks = <<>>]]
  /\ UNCHANGED <<prompts, sent, bandLocal>>
ClientStops(g) ==
  /\ LivePrompt(g)
  /\ client' = [client EXCEPT ![g] = Left(PromptRetired(@))]
  /\ prompts' = [t \in PromptsHeld |-> IF t = client[g].inFlight THEN Quiet(prompts[t]) ELSE prompts[t]]
  /\ UNCHANGED <<sent, bandLocal>>

\* flushChunks: the events in order, then the reply unless a tool has replied.
Told(p, k) == [p EXCEPT !.told = @ \o SubSeq(p.events, 1, k), !.events = <<>>, !.texts = <<>>]
FlushPosts(t) ==
  LET p == prompts[t] IN
  /\ p.phase = "flushing"
  /\ prompts' = [prompts EXCEPT ![t] =
       [Told(p, Len(p.events)) EXCEPT !.phase = "over", !.relayed = IF p.replied THEN @ ELSE @ \o p.texts]]
  /\ UNCHANGED <<client, sent, bandLocal>>

\* A post that fails ends the turn, or fails it: then the client is retired and what was
\* collected since is flushed.
PostFails(t) ==
  LET p == prompts[t]  g == p.client IN
  /\ p.phase = "flushing"
  /\ \E k \in 0..Len(p.events) :
       \/ prompts' = [prompts EXCEPT ![t] = [Told(p, k) EXCEPT !.phase = "over"]] /\ UNCHANGED client
       \/ /\ client[g].live
          /\ client' = [client EXCEPT ![g] = Taken(Left(PromptRetired(Released(@))))]
          /\ prompts' = [prompts EXCEPT ![t] = Flushing(Told(p, k), client[g])]
  /\ UNCHANGED <<sent, bandLocal>>

StreamNext ==
  \/ \E g \in Clients :
       \/ AgentSends(g) \/ RoomLeaves(g) \/ ClientStops(g)
       \/ \E t \in PromptsHeld : PromptBegins(t, g)
       \/ \E r \in Requests : RequestOpens(g, r) \/ AskAnswered(g, r)
  \/ \E t \in PromptsHeld :
       PromptReturns(t) \/ TurnGivenUp(t) \/ FlushPosts(t) \/ PostFails(t)

StreamSpec == StreamInit /\ [][StreamNext]_streamVars

----------------------------------------------------------------------------

\* A prompt that is over, or whose process the engine left, shows no tool and no wait:
\* late updates of a lingering process, late answers to its asks and replays of its calls
\* included; and a call is shown by one prompt of its session.
ActivityEndsWithItsPrompt ==
  /\ \A t \in PromptsHeld :
       prompts[t].phase # "prompting" \/ ~client[prompts[t].client].live
         => prompts[t].open = {} /\ prompts[t].waits = {}
  /\ \A t, u \in PromptsHeld :
       t < u /\ prompts[t].client = prompts[u].client /\ prompts[t].session = prompts[u].session
         => prompts[t].shown \cap prompts[u].shown = {}

ToldParts(t) == FlattenSeq(prompts[t].told) \o prompts[t].relayed

\* Nothing is told twice or in another turn than the one it was streamed to; nothing a
\* retired process sent is told at all; what an action follows was told before it, and
\* what follows it after; and the reply's text is in the order it was streamed.
StreamIsToldOnce ==
  \A t \in PromptsHeld :
    LET parts == ToldParts(t)  told == prompts[t].told IN
    /\ IsInjective(parts)
    /\ \A i \in Range(parts) :
         /\ sent[i].client = prompts[t].client /\ sent[i].turn = t /\ sent[i].live
         /\ \A u \in PromptsHeld \ {t} : i \notin Range(ToldParts(u))
    /\ \A k, m \in DOMAIN told : \A i \in Range(told[k]), j \in Range(told[m]) :
         i < j /\ ~(Streamed(i) /\ Streamed(j)) => k < m
    /\ \A k, m \in DOMAIN prompts[t].relayed : k < m => prompts[t].relayed[k] < prompts[t].relayed[m]

\* A turn that replied through a Band tool another process served does not relay its
\* text as a second reply.
RepliesOnce ==
  \A t \in PromptsHeld :
    ~bandLocal /\ prompts[t].relayed # <<>> =>
      ~\E i, j \in Range(FlattenSeq(prompts[t].told)) :
         /\ sent[i].call # 0 /\ sent[i].call = sent[j].call /\ sent[i].during = t /\ sent[j].during = t
         /\ j <= i /\ sent[i].done /\ sent[j].band
         /\ (sent[i].kind = "call" => j = i)

StreamsAreTold == StreamIsToldOnce /\ RepliesOnce
=============================================================================
