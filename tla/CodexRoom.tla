----------------------------- MODULE CodexRoom -----------------------------
(***************************************************************************)
(* One room of the Codex adapter (adapters/codex/CodexRoomAgent.ts over    *)
(* appServerClient.ts): its engines, one after another as                  *)
(* RoomScopedAdapter builds them (see ACPRoom), the app-servers they       *)
(* spawn, and the threads, which outlive an app-server.                    *)
(*                                                                         *)
(* Within an engine one turn runs at a time.  A turn gets a client and a   *)
(* thread, starts a Codex turn on the thread, and reads events until that  *)
(* turn completes.  A turn that its engine's stop overtakes runs on.       *)
(* What a thread has been told is abstracted to `knows`: has it the room's *)
(* conversation?  `named` is the thread the room's history maps it to.     *)
(***************************************************************************)
EXTENDS Naturals, FiniteSets

CONSTANTS
  MaxCodexEngines,  \* bound: engines built for the room
  MaxServers,       \* bound: app-servers spawned
  MaxThreads,       \* bound: threads started
  MaxCodexTurns     \* bound: messages

ASSUME CodexAssumption ==
  {MaxCodexEngines, MaxServers, MaxThreads, MaxCodexTurns} \subseteq Nat \ {0}

CodexEngines == 1..MaxCodexEngines
Servers == 1..MaxServers
CodexTurns == 1..MaxCodexTurns
NoCodex == 0

VARIABLES
  codex,     \* the room's engines
  servers,   \* every app-server: its process and the threads it has loaded
  cxTurns,   \* every turn: where it awaits
  threads,   \* the threads started: does each know the conversation?
  recall     \* what the room's history names, and what the checks remember

codexVars == <<codex, servers, cxTurns, threads, recall>>

NoCodexTurn == [pc |-> "none", engine |-> NoCodex, server |-> NoCodex, thread |-> NoCodex,
                kind |-> "message", boots |-> FALSE, carries |-> FALSE]
Ended == [NoCodexTurn EXCEPT !.pc = "done"]

CodexInit ==
  /\ codex = [e \in CodexEngines |-> [st |-> "none", client |-> NoCodex, thread |-> NoCodex,
                                      owed |-> FALSE, booted |-> FALSE, cooling |-> FALSE]]
  /\ servers = [p \in Servers |-> [st |-> "none", engine |-> NoCodex, asked |-> FALSE,
                                   loaded |-> {}, stray |-> FALSE]]
  /\ cxTurns = [t \in CodexTurns |-> NoCodexTurn]
  /\ threads = <<>>
  /\ recall = [named |-> NoCodex, talked |-> FALSE, lost |-> FALSE, amnesia |-> FALSE]

----------------------------------------------------------------------------
(* Engines and app-servers.                                                *)

\* RoomScopedAdapter.startRoom waits for the room's former engines to close.
CodexStarts(e) ==
  /\ codex[e].st = "none" /\ \A f \in CodexEngines : f < e => codex[f].st = "closed"
  /\ codex' = [codex EXCEPT ![e].st = "open"]
  /\ UNCHANGED <<servers, cxTurns, threads, recall>>

\* onRuntimeStop, after onCleanup if the room was left: `stopped` is set and the
\* client taken; an app-server still starting is left to its turn.
CodexStops(e, left) ==
  /\ codex[e].st = "open"
  /\ codex' = [codex EXCEPT ![e].st = "closing", ![e].thread = NoCodex,
                            ![e].owed = ~left /\ (@ \/ codex[e].thread # NoCodex)]
  /\ servers' = [p \in Servers |-> IF p = codex[e].client THEN [servers[p] EXCEPT !.asked = TRUE]
                                  ELSE servers[p]]
  /\ UNCHANGED <<cxTurns, threads, recall>>

\* resetClient waits for the process it closes.
CodexCloses(e) ==
  /\ codex[e].st = "closing"
  /\ codex[e].client # NoCodex => servers[codex[e].client].st = "exited"
  /\ codex' = [codex EXCEPT ![e].st = "closed", ![e].client = NoCodex]
  /\ UNCHANGED <<servers, cxTurns, threads, recall>>

\* this.client, which a stop takes at once.
Client(e) == IF codex[e].st = "open" THEN codex[e].client ELSE NoCodex

ServerExits(p) ==
  /\ servers[p].st = "up"
  /\ servers' = [servers EXCEPT ![p].st = "exited", ![p].asked = TRUE]
  /\ UNCHANGED <<codex, cxTurns, threads, recall>>

CoolingEnds(e) ==
  /\ codex[e].cooling
  /\ codex' = [codex EXCEPT ![e].cooling = FALSE]
  /\ UNCHANGED <<servers, cxTurns, threads, recall>>

----------------------------------------------------------------------------
(* A turn: onMessage, ensureClient.                                        *)

CodexBusy(e) == \E t \in CodexTurns : cxTurns[t].engine = e /\ cxTurns[t].pc \notin {"none", "done"}
Untaken(things, field) == {i \in DOMAIN things : things[i][field] = "none"}
FirstOf(S) == CHOOSE i \in S : \A j \in S : i <= j

\* The bootstrap turn alone may resume the thread the history names, or be given
\* the history for want of one: what ends it before that loses the conversation.
Unlinked(boots) == [recall EXCEPT !.lost = @ \/ (boots /\ recall.talked)]

\* A room whose history names a thread that was never told the conversation.
Misled(boots) ==
  boots /\ recall.talked /\ recall.named # NoCodex /\ ~threads[recall.named]

\* A message resumes, a "reset" (linear_reset_room_session) starts over, "models"
\* is the local command that reaches Codex, "notice" any other local command.
CodexTurnBegins(e, kind) ==
  /\ codex[e].st = "open" /\ ~CodexBusy(e) /\ Untaken(cxTurns, "pc") # {}
  /\ LET t == FirstOf(Untaken(cxTurns, "pc"))
         boots == ~codex[e].booted
         over == boots /\ kind = "reset"
         turn == [cxTurns[t] EXCEPT !.engine = e, !.kind = kind, !.boots = boots]
         begun == [codex EXCEPT ![e].booted = TRUE]
         told == [Unlinked(boots /\ kind \in {"notice", "models"})
                    EXCEPT !.talked = @ /\ ~over,
                           !.lost = ~over /\ (@ \/ (kind = "message" /\ Misled(boots)))] IN
       /\ threads' = [s \in DOMAIN threads |-> threads[s] /\ ~over]
       /\ \/ /\ kind = "notice"
             /\ cxTurns' = [cxTurns EXCEPT ![t] = Ended]
             /\ codex' = begun /\ recall' = told /\ UNCHANGED servers
          \/ /\ kind # "notice" /\ codex[e].client # NoCodex
             /\ cxTurns' = [cxTurns EXCEPT ![t] = [turn EXCEPT !.pc = "client", !.server = codex[e].client]]
             /\ codex' = begun /\ recall' = told /\ UNCHANGED servers
          \/ /\ kind # "notice" /\ codex[e].client = NoCodex /\ codex[e].cooling
             /\ cxTurns' = [cxTurns EXCEPT ![t] = Ended]
             /\ codex' = begun /\ recall' = [told EXCEPT !.lost = @ \/ (boots /\ recall.talked /\ ~over)]
             /\ UNCHANGED servers
          \/ /\ kind # "notice" /\ codex[e].client = NoCodex /\ ~codex[e].cooling
             /\ Untaken(servers, "st") # {}
             /\ LET p == FirstOf(Untaken(servers, "st")) IN
                  /\ cxTurns' = [cxTurns EXCEPT ![t] = [turn EXCEPT !.pc = "connecting", !.server = p]]
                  /\ servers' = [servers EXCEPT ![p].st = "starting", ![p].engine = e]
             /\ codex' = begun /\ recall' = told

\* Broken variant: an app-server that comes up is installed though the room retired.
KeepsAnyway(e) == TRUE

Keeps(e) == codex[e].st = "open"

Goes(t, pc) ==
  cxTurns' = [cxTurns EXCEPT ![t] = IF pc = "done" THEN Ended ELSE [@ EXCEPT !.pc = pc]]

\* initialize() answered.  A room retired meanwhile closes the app-server here.
ServerStarts(t) ==
  /\ cxTurns[t].pc = "connecting"
  /\ LET p == cxTurns[t].server
         e == cxTurns[t].engine IN
       /\ servers' = [servers EXCEPT ![p].st = "up", ![p].asked = ~Keeps(e)]
       /\ codex' = IF Keeps(e) THEN [codex EXCEPT ![e].client = p] ELSE codex
       /\ Goes(t, IF Keeps(e) THEN "client" ELSE "done")
  /\ UNCHANGED <<threads, recall>>

\* connect() or initialize() fails.  Nothing closes an app-server that answered
\* with an error: it is left running, a stray.
ServerFails(t, exited) ==
  /\ cxTurns[t].pc = "connecting"
  /\ servers' = [servers EXCEPT ![cxTurns[t].server].st = IF exited THEN "exited" ELSE "up",
                                ![cxTurns[t].server].stray = ~exited]
  /\ codex' = [codex EXCEPT ![cxTurns[t].engine].cooling = TRUE]
  /\ recall' = Unlinked(cxTurns[t].boots /\ cxTurns[t].kind = "message")
  /\ Goes(t, "done")
  /\ UNCHANGED threads

----------------------------------------------------------------------------
(* getOrCreateThread, from which a turn goes on with the thread mapped.    *)

\* close() rejects what is pending; an answer already in may still be read after it.
Up(t) == servers[cxTurns[t].server].st = "up"
Open(t) == Up(t) /\ ~servers[cxTurns[t].server].asked

\* Broken variant: a thread is mapped whatever became of the client it was got from.
CurrentAnyway(t) == TRUE

\* assertCurrentClient
Current(t) == Client(cxTurns[t].engine) = cxTurns[t].server

\* On bootstrap the thread the history names is resumed; without one the new
\* thread is owed the history.
GetThread(t) ==
  /\ cxTurns[t].pc = "client" /\ cxTurns[t].kind # "models"
  /\ LET e == cxTurns[t].engine
         resumes == cxTurns[t].boots /\ cxTurns[t].kind # "reset" IN
       /\ cxTurns' = [cxTurns EXCEPT ![t].thread = codex[e].thread,
            ![t].pc = IF codex[e].thread # NoCodex THEN "input"
                      ELSE IF resumes /\ recall.named # NoCodex THEN "resuming" ELSE "opening"]
       /\ codex' = IF codex[e].thread = NoCodex /\ resumes /\ recall.named = NoCodex
                     THEN [codex EXCEPT ![e].owed = TRUE] ELSE codex
  /\ UNCHANGED <<servers, threads, recall>>

Maps(t, thread) ==
  IF Current(t) THEN /\ codex' = [codex EXCEPT ![cxTurns[t].engine].thread = thread]
                     /\ cxTurns' = [cxTurns EXCEPT ![t].thread = thread, ![t].pc = "mapping"]
  ELSE Goes(t, "done") /\ UNCHANGED codex

Resumes(t) ==
  /\ cxTurns[t].pc = "resuming" /\ Up(t)
  /\ servers' = [servers EXCEPT ![cxTurns[t].server].loaded = @ \cup {recall.named}]
  /\ Maps(t, recall.named)
  /\ UNCHANGED <<threads, recall>>

\* The thread cannot be resumed, or the app-server went: unless the client was
\* replaced, a new thread is opened, and owed the history.
ResumeFails(t) ==
  /\ cxTurns[t].pc = "resuming"
  /\ IF Client(cxTurns[t].engine) = cxTurns[t].server
       THEN /\ codex' = [codex EXCEPT ![cxTurns[t].engine].owed = TRUE]
            /\ Goes(t, "opening")
       ELSE Goes(t, "done") /\ UNCHANGED codex
  /\ UNCHANGED <<servers, threads, recall>>

ThreadOpens(t) ==
  /\ cxTurns[t].pc = "opening" /\ Up(t) /\ Cardinality(DOMAIN threads) < MaxThreads
  /\ LET thread == Cardinality(DOMAIN threads) + 1 IN
       /\ threads' = [s \in 1..thread |-> s # thread /\ threads[s]]
       /\ servers' = [servers EXCEPT ![cxTurns[t].server].loaded = @ \cup {thread}]
       /\ Maps(t, thread)
  /\ UNCHANGED recall

\* sendThreadMappingEvent, which may fail unnoticed, and the second
\* assertCurrentClient.
ThreadMapped(t, posted) ==
  /\ cxTurns[t].pc = "mapping"
  /\ recall' = IF posted THEN [recall EXCEPT !.named = cxTurns[t].thread] ELSE recall
  /\ Goes(t, IF Current(t) THEN "input" ELSE "done")
  /\ UNCHANGED <<codex, servers, threads>>

----------------------------------------------------------------------------
(* turn/start, the event loop, and eviction.                               *)

\* buildTurnInput, which takes the debt with it, and the turn/start request.
TurnRequested(t) ==
  /\ cxTurns[t].pc = "input"
  /\ LET e == cxTurns[t].engine IN
       /\ cxTurns' = [cxTurns EXCEPT ![t].pc = "requested", ![t].carries = codex[e].owed]
       /\ codex' = [codex EXCEPT ![e].owed = FALSE]
  /\ UNCHANGED <<servers, threads, recall>>

TurnAccepted(t) ==
  /\ cxTurns[t].pc = "requested" /\ Open(t)
  /\ LET thread == cxTurns[t].thread
         knows == threads[thread] \/ cxTurns[t].carries \/ ~recall.talked IN
       /\ threads' = [threads EXCEPT ![thread] = knows]
       /\ recall' = [recall EXCEPT !.talked = TRUE, !.amnesia = @ \/ (~knows /\ ~recall.lost)]
  /\ Goes(t, "loop")
  /\ UNCHANGED <<codex, servers>>

\* A JSON-RPC error of the app-server, which stays: the history a rejected input
\* carried is owed no more.
Refused(t) ==
  /\ cxTurns[t].pc \in {"opening", "requested", "listing"} /\ Open(t)
  /\ recall' = IF cxTurns[t].pc = "requested" THEN Unlinked(cxTurns[t].carries) ELSE recall
  /\ Goes(t, "done")
  /\ UNCHANGED <<codex, servers, threads>>

\* Broken variant: an evicted client's room is not owed its history.
Forgotten(g) == [g EXCEPT !.client = NoCodex, !.thread = NoCodex]

\* takeClientForReset
Reset(g) == [g EXCEPT !.client = NoCodex, !.thread = NoCodex, !.owed = @ \/ g.thread # NoCodex]

\* abandonClient: the identity-matched client is closed, unawaited.
Evicts(t) ==
  LET e == cxTurns[t].engine
      p == cxTurns[t].server IN
    IF Client(e) = p
      THEN /\ codex' = [codex EXCEPT ![e] = Reset(@)]
           /\ servers' = [servers EXCEPT ![p].asked = TRUE]
      ELSE UNCHANGED <<codex, servers>>

\* handleServerRequest: the app-server has a Band tool run, or asks an approval, and
\* waits; the loop reads no event meanwhile.  Whatever comes of it is answered.
RequestTaken(t) ==
  /\ cxTurns[t].pc = "loop" /\ Open(t)
  /\ Goes(t, "answering")
  /\ UNCHANGED <<codex, servers, threads, recall>>

RequestAnswered(t) ==
  /\ cxTurns[t].pc = "answering" /\ Open(t)
  /\ Goes(t, "loop")
  /\ UNCHANGED <<codex, servers, threads, recall>>

\* The transport fails under a request or an answer, or closes under the event loop.
TransportFails(t) ==
  /\ cxTurns[t].pc \in {"opening", "requested", "listing", "loop", "answering"}
  /\ ~Open(t)
  /\ Evicts(t)
  /\ Goes(t, "done")
  /\ UNCHANGED <<threads, recall>>

\* No event within turnTimeoutMs: the turn is interrupted, unawaited.
TurnTimesOut(t) ==
  /\ cxTurns[t].pc = "loop"
  /\ Evicts(t)
  /\ Goes(t, "done")
  /\ UNCHANGED <<threads, recall>>

\* turn/completed, whatever its status.
TurnCompletes(t) ==
  /\ cxTurns[t].pc = "loop" /\ Open(t)
  /\ Goes(t, "done")
  /\ UNCHANGED <<codex, servers, threads, recall>>

\* handleModelListCommand
ModelsAsked(t) ==
  /\ cxTurns[t].pc = "client" /\ cxTurns[t].kind = "models"
  /\ Goes(t, "listing")
  /\ UNCHANGED <<codex, servers, threads, recall>>

ModelsListed(t) ==
  /\ cxTurns[t].pc = "listing" /\ Up(t)
  /\ Goes(t, "done")
  /\ UNCHANGED <<codex, servers, threads, recall>>

----------------------------------------------------------------------------
CodexNext ==
  \/ \E e \in CodexEngines :
       \/ CodexStarts(e) \/ CodexCloses(e) \/ CoolingEnds(e)
       \/ \E left \in BOOLEAN : CodexStops(e, left)
       \/ \E kind \in {"message", "reset", "models", "notice"} : CodexTurnBegins(e, kind)
  \/ \E p \in Servers : ServerExits(p)
  \/ \E t \in CodexTurns :
       \/ ServerStarts(t) \/ GetThread(t) \/ Resumes(t) \/ ResumeFails(t) \/ ThreadOpens(t)
       \/ TurnRequested(t) \/ TurnAccepted(t) \/ Refused(t) \/ TransportFails(t)
       \/ TurnTimesOut(t) \/ TurnCompletes(t)
       \/ RequestTaken(t) \/ RequestAnswered(t) \/ ModelsAsked(t) \/ ModelsListed(t)
       \/ \E ok \in BOOLEAN : ServerFails(t, ok) \/ ThreadMapped(t, ok)

CodexSpec == CodexInit /\ [][CodexNext]_codexVars

----------------------------------------------------------------------------
\* A thread that accepts the room's turn has the room's conversation, or is given
\* the history with it, across timed-out turns, closed transports, failed resumes
\* and rejoined rooms (CodexRoomAgent.ts:428-431, 1047-1053).  Excepted is a room
\* whose bootstrap message never reached Codex, whose history went into a rejected
\* turn/start, or whose history names a thread that never accepted a turn.
HistoryIsInjected == ~recall.amnesia

\* An app-server nobody has asked to stop is the client of the room's engine, or a
\* turn awaits its start (CodexRoomAgent.ts:164-166), strays of a failed start
\* apart; and a mapped thread is loaded on the engine's client (ibid. 760, 792).
ServersAreOwned ==
  /\ \A p \in Servers :
       servers[p].st \in {"starting", "up"} /\ ~servers[p].asked /\ ~servers[p].stray =>
         \/ Client(servers[p].engine) = p
         \/ \E t \in CodexTurns : cxTurns[t].server = p /\ cxTurns[t].pc = "connecting"
  /\ \A e \in CodexEngines : codex[e].thread # NoCodex =>
       Client(e) # NoCodex /\ codex[e].thread \in servers[Client(e)].loaded
=============================================================================
