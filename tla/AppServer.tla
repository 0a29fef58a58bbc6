----------------------------- MODULE AppServer -----------------------------
(***************************************************************************)
(* How a room's turns talk to a Codex app-server: the JSON-RPC client over *)
(* the child process's pipes (adapters/codex/appServerClient.ts, stopped   *)
(* as shared/stopChildProcess.ts does), and the loop in which a turn reads *)
(* its events (CodexRoomAgent.runEventLoop) up to what it tells the room.  *)
(* Threads, history and the engine's successors are in CodexRoom: here the *)
(* room has one engine, whose turns follow one another.  An event is one   *)
(* of a turn's: text, a tool it asks for, an error, or its end.            *)
(***************************************************************************)
EXTENDS Naturals, Sequences

CONSTANTS
  MaxAppClients, \* bound: clients, each with its app-server
  MaxAppTurns,   \* bound: messages
  MaxAppEvents   \* bound: events an app-server sends, the ends of turns apart

ASSUME AppAssumption == {MaxAppClients, MaxAppTurns} \subseteq Nat \ {0} /\ MaxAppEvents \in Nat

AppClients == 1..MaxAppClients
AppTurns == 1..MaxAppTurns

VARIABLES
  appEngine,  \* the room's engine: its client, and the one its stop waits for
  appClients, \* every client: its call, the lines it has not read, its queue of events and who
              \* waits for one, and how far its close() is
  appServers, \* their processes: the call to answer and the turn that runs
  appTurns    \* every turn: how much of its text it has taken, whether that was another turn's,
              \* out of order or not all, and how it ended

appVars == <<appEngine, appClients, appServers, appTurns>>

NoClientYet == [st |-> "none", call |-> "none", lines |-> <<>>, events |-> <<>>, waiter |-> 0, stop |-> "no"]
NoProcess == [st |-> "none", call |-> "none", caller |-> 0, running |-> 0, sent |-> 0]
NoAppTurn == [pc |-> "none", client |-> 0, spoken |-> 0, took |-> 0, spoilt |-> FALSE,
              end |-> "none", errors |-> 0, failures |-> 0]

AppInit ==
  /\ appEngine = [st |-> "open", client |-> 0, waits |-> 0]
  /\ appClients = [c \in AppClients |-> NoClientYet]
  /\ appServers = [c \in AppClients |-> NoProcess]
  /\ appTurns = [t \in AppTurns |-> NoAppTurn]

-----------------------------------------------------------------------------
(* The client.                                                             *)

\* A call waits until it is settled, and is written if there is a process to read it: a
\* turn makes one at a time.
AppCalls(c, call) == appClients' = [appClients EXCEPT ![c].st = "open", ![c].call = call]
Received(srv, call, t) == IF srv.st = "up" THEN [srv EXCEPT !.call = call, !.caller = t] ELSE srv

ClosedEvent == [kind |-> "closed", turn |-> 0, n |-> 0]
\* Broken variant: the calls are rejected, the reader is not.
FailCalls(k) ==
  IF k.st = "open"
  THEN [k EXCEPT !.st = "closed", !.call = "none", !.lines = <<>>, !.events = Append(@, ClosedEvent)]
  ELSE k
\* All that waits is rejected, once, and whoever reads next finds "transport/closed" after
\* the events that came before it.
FailAll(k) ==
  IF k.st = "open"
  THEN [k EXCEPT !.st = "closed", !.call = "none", !.lines = <<>>, !.waiter = 0, !.events = Append(@, ClosedEvent)]
  ELSE k

\* Broken variant: it is put in front.
QueuedFirst(k, event) == IF k.waiter # 0 THEN [k EXCEPT !.waiter = 0] ELSE [k EXCEPT !.events = <<event>> \o @]
\* An event goes to whoever waits for one, or else to the end of the queue.
Queued(k, event) == IF k.waiter # 0 THEN [k EXCEPT !.waiter = 0] ELSE [k EXCEPT !.events = Append(@, event)]

\* close(): a client that is open fails all and stops its child, whose input it ends first.
Close(k) == IF k.st = "open" THEN [FailAll(k) EXCEPT !.stop = "eof"] ELSE k

Exited(c) == [appServers EXCEPT ![c] = [NoProcess EXCEPT !.st = IF appClients[c].st = "open" THEN "exited" ELSE "gone"]]
\* Broken variant: a child that ignores SIGTERM is let be.
EscalatesOnce(c) ==
  /\ appClients[c].stop = "eof" /\ appServers[c].st = "up"
  /\ appClients' = [appClients EXCEPT ![c].stop = "done"]
  /\ UNCHANGED <<appEngine, appServers, appTurns>>
\* A child still there is sent SIGTERM, and a second later is killed.
Escalates(c) ==
  /\ appClients[c].stop \in {"eof", "term"} /\ appServers[c].st = "up"
  /\ appClients' = [appClients EXCEPT ![c].stop = IF @ = "eof" THEN "term" ELSE "done"]
  /\ appServers' = IF appClients[c].stop = "eof" THEN appServers ELSE Exited(c)
  /\ UNCHANGED <<appEngine, appTurns>>
\* It exits by itself, of its input's end, or in the middle of anything.
ChildExits(c) ==
  /\ appServers[c].st = "up"
  /\ appServers' = Exited(c)
  /\ appClients' = [appClients EXCEPT ![c].stop = IF @ = "no" THEN "no" ELSE "done"]
  /\ UNCHANGED <<appEngine, appTurns>>

-----------------------------------------------------------------------------
(* A turn's end, and the clients it gives up.                              *)

Held(t) == appTurns[t].client
AppOver(t, end, failures) ==
  [appTurns EXCEPT ![t].pc = "done", ![t].end = end, ![t].failures = @ + failures, ![t].took = 0,
                   ![t].spoilt = @ \/ (end = "completed" /\ appTurns[t].took # appTurns[t].spoken)]

\* takeClientForReset and close(), unless another client has taken its place.
AppEvicted(clients, c) == IF appEngine.client = c THEN [clients EXCEPT ![c] = Close(@)] ELSE clients
LetGo(c) == IF appEngine.client = c THEN [appEngine EXCEPT !.client = 0] ELSE appEngine

\* Broken variant: it always does.
FailuresAnyway(t) == 1
\* emitTurnOutcome: a turn that did not complete says so, unless the app-server's own error did.
Failures(t) == IF appTurns[t].errors > 0 THEN 0 ELSE 1

\* The transport failed under a turn, which fails, and the client goes.
TransportGone(t, clients) ==
  /\ appClients' = AppEvicted(clients, Held(t))
  /\ appEngine' = LetGo(Held(t))
  /\ appTurns' = AppOver(t, "lost", 1)

\* Who waits on a client, for an answer or an event.
WaitsOn(c) ==
  {t \in AppTurns : Held(t) = c /\ (appTurns[t].pc \in {"opening", "starting"} \/ appClients[c].waiter = t)}

\* The process's end is seen once its output is read: all that still waits on it fails.
CloseSeen(c) ==
  LET failed == [appClients EXCEPT ![c] = FailAll(@)]
  IN  /\ appServers[c].st = "exited" /\ appClients[c].lines = <<>>
      /\ appServers' = [appServers EXCEPT ![c].st = "gone"]
      /\ IF WaitsOn(c) # {} THEN \E t \in WaitsOn(c) : TransportGone(t, failed)
         ELSE appClients' = failed /\ UNCHANGED <<appEngine, appTurns>>

-----------------------------------------------------------------------------
(* A turn: its client, its start, its events.                              *)

Idle == \A t \in AppTurns : appTurns[t].pc \in {"none", "done"}
\* The next message of an engine that is open.
Comes(t, pc, c) ==
  /\ appTurns[t].pc = "none" /\ Idle /\ (\A u \in AppTurns : u < t => appTurns[u].pc = "done")
  /\ appEngine.st = "open"
  /\ appTurns' = [appTurns EXCEPT ![t].pc = pc, ![t].client = c]

\* A message finds the engine's client, if only a closed one.
AppTurnBegins(t) ==
  /\ appEngine.client # 0 /\ Comes(t, "begun", appEngine.client)
  /\ UNCHANGED <<appEngine, appClients, appServers>>
AppUnused(c) == appClients[c].st = "none" /\ \A d \in AppClients : d < c => appClients[d].st # "none"
\* Or connects one: a process is spawned, and initialize is its first call.
TurnConnects(t, c) ==
  /\ appEngine.client = 0 /\ AppUnused(c) /\ Comes(t, "opening", c)
  /\ AppCalls(c, "initialize")
  /\ appServers' = [appServers EXCEPT ![c] = Received([@ EXCEPT !.st = "up"], "initialize", t)]
  /\ UNCHANGED appEngine
\* There is no such command: an error instead of a process, which fails the call.
SpawnFails(t, c) ==
  /\ appEngine.client = 0 /\ AppUnused(c) /\ appEngine.st = "open" /\ appTurns[t].pc = "none" /\ Idle
  /\ \A u \in AppTurns : u < t => appTurns[u].pc = "done"
  /\ appClients' = [appClients EXCEPT ![c] = FailAll([@ EXCEPT !.st = "open"])]
  /\ appTurns' = [AppOver(t, "lost", 1) EXCEPT ![t].client = c]
  /\ UNCHANGED <<appEngine, appServers>>

\* turn/start; a client that was closed refuses it.
AppTurnStarts(t) ==
  LET c == Held(t)
  IN  /\ appTurns[t].pc = "begun"
      /\ IF appClients[c].st = "open"
         THEN /\ AppCalls(c, "start") /\ appTurns' = [appTurns EXCEPT ![t].pc = "starting"]
              /\ appServers' = [appServers EXCEPT ![c] = Received(@, "start", t)]
              /\ UNCHANGED appEngine
         ELSE TransportGone(t, appClients) /\ UNCHANGED appServers

\* A write into the pipe of a child that has exited is refused.
WriteFails(t) ==
  /\ appTurns[t].pc \in {"opening", "starting"} /\ appServers[Held(t)].st = "exited"
  /\ TransportGone(t, [appClients EXCEPT ![Held(t)].call = "none"])
  /\ UNCHANGED appServers

\* What a turn does with an event of its client: the end of another turn is passed over.
EventTaken(t, event) ==
  CASE event.kind = "text" ->
         IF event.turn = t /\ event.n = appTurns[t].took + 1 THEN [appTurns EXCEPT ![t].took = @ + 1]
         ELSE [appTurns EXCEPT ![t].spoilt = TRUE]
    [] event.kind = "error" -> [appTurns EXCEPT ![t].errors = @ + 1, ![t].failures = @ + 1]
    [] event.kind = "ask" -> [appTurns EXCEPT ![t].pc = "asked"]
    [] event.kind \in {"completed", "failed"} /\ event.turn # t -> appTurns
    [] event.kind = "completed" /\ event.turn = t -> AppOver(t, "completed", 0)
    [] OTHER -> AppOver(t, "failed", Failures(t))

\* recvEvent(): the first event queued, or a place to wait for one.  With "transport/closed"
\* the client goes too.
AppEventRead(t) ==
  LET c == Held(t)
      k == appClients[c]
      rest == [appClients EXCEPT ![c].events = Tail(@)]
  IN  /\ appTurns[t].pc = "reading" /\ k.waiter # t
      /\ \/ /\ k.events = <<>> /\ appClients' = [appClients EXCEPT ![c].waiter = t]
            /\ UNCHANGED <<appEngine, appTurns>>
         \/ /\ k.events # <<>> /\ appTurns' = EventTaken(t, Head(k.events))
            /\ IF Head(k.events) = ClosedEvent THEN appClients' = AppEvicted(rest, c) /\ appEngine' = LetGo(c)
               ELSE appClients' = rest /\ UNCHANGED appEngine
      /\ UNCHANGED appServers

\* Broken variant: the client stays.
TimesOutAlone(t) ==
  /\ appTurns[t].pc = "reading" /\ appClients[Held(t)].waiter = t
  /\ appClients' = [appClients EXCEPT ![Held(t)].waiter = 0]
  /\ appTurns' = AppOver(t, "interrupted", Failures(t))
  /\ UNCHANGED <<appEngine, appServers>>
\* No event in time: the turn is interrupted, and as what is still to come of it could not be
\* told from the next turn's, the client goes with it.
TimesOut(t) ==
  /\ appTurns[t].pc = "reading" /\ appClients[Held(t)].waiter = t
  /\ appClients' = AppEvicted(appClients, Held(t)) /\ appEngine' = LetGo(Held(t))
  /\ appTurns' = AppOver(t, "interrupted", Failures(t))
  /\ UNCHANGED appServers

\* A tool the app-server asked for has run, or its approval is declined.  The answer is
\* written, and once more if that failed; a client that takes neither goes.
AppAnswered(t) ==
  /\ appTurns[t].pc = "asked"
  /\ IF appClients[Held(t)].st = "open" /\ appServers[Held(t)].st = "up"
     THEN appTurns' = [appTurns EXCEPT ![t].pc = "reading"] /\ UNCHANGED <<appEngine, appClients>>
     ELSE TransportGone(t, appClients)
  /\ UNCHANGED appServers

-----------------------------------------------------------------------------
(* The app-server, and the lines it writes.                                *)

\* What it writes to a client that has closed is not read, and left out.
AppHeard(c) == appServers[c].st = "up" /\ appClients[c].st = "open"
AppWrites(c, line) == appClients' = [appClients EXCEPT ![c].lines = Append(@, line)]
ServerAnswers(c, ok) ==
  /\ AppHeard(c) /\ appServers[c].call # "none"
  /\ appServers' = [appServers EXCEPT
       ![c].call = "none", ![c].running = IF appServers[c].call = "start" /\ ok THEN appServers[c].caller ELSE @]
  /\ AppWrites(c, [kind |-> IF ok THEN "answer" ELSE "refusal", turn |-> 0, n |-> 0])
  /\ UNCHANGED <<appEngine, appTurns>>

\* An event of the turn that runs; a tool's answer is awaited, which the checks leave out.
ServerSends(c, kind) ==
  LET t == appServers[c].running
      ends == kind \in {"completed", "failed"}
  IN  /\ AppHeard(c) /\ t # 0 /\ (ends \/ appServers[c].sent < MaxAppEvents)
      /\ appTurns' = IF kind = "text" THEN [appTurns EXCEPT ![t].spoken = @ + 1] ELSE appTurns
      /\ appServers' = [appServers EXCEPT ![c].sent = IF ends THEN @ ELSE @ + 1, ![c].running = IF ends THEN 0 ELSE @]
      /\ AppWrites(c, [kind |-> kind, turn |-> t, n |-> appTurns'[t].spoken])
      /\ UNCHANGED appEngine

Caller(c) == CHOOSE t \in AppTurns : Held(t) = c /\ appTurns[t].pc \in {"opening", "starting"}
\* A line that answers settles the call.  Of an initialize, the client becomes the engine's,
\* or is closed again if the engine has stopped; of a start, the turn reads.  A refusal fails
\* the turn and leaves the client up: one of initialize leaves it to nobody.
CallSettled(c, ok) ==
  LET clients == [appClients EXCEPT ![c].call = "none", ![c].lines = Tail(@)]
      t == Caller(c)
      waits == appTurns[t].pc = "opening"
  IN  \/ /\ ~ok /\ appClients' = clients /\ appTurns' = AppOver(t, "refused", 1) /\ UNCHANGED appEngine
      \/ /\ ok /\ waits /\ appEngine.st # "open"
         /\ appClients' = [clients EXCEPT ![c] = Close(@)] /\ appTurns' = AppOver(t, "lost", 1) /\ UNCHANGED appEngine
      \/ /\ ok /\ ~(waits /\ appEngine.st # "open") /\ appClients' = clients
         /\ appTurns' = [appTurns EXCEPT ![t].pc = IF waits THEN "begun" ELSE "reading"]
         /\ appEngine' = IF waits THEN [appEngine EXCEPT !.client = c] ELSE appEngine
EventComes(c, event) ==
  /\ appClients' = [appClients EXCEPT ![c] = Queued([@ EXCEPT !.lines = Tail(@)], event)]
  /\ appTurns' = IF appClients[c].waiter # 0 THEN EventTaken(appClients[c].waiter, event) ELSE appTurns
  /\ UNCHANGED appEngine
\* handleLine: the answer to the call there is, to one there is no more, or an event.
LineHandled(c) ==
  LET line == Head(appClients[c].lines)
  IN  /\ appClients[c].lines # <<>> /\ UNCHANGED appServers
      /\ CASE line.kind \in {"answer", "refusal"} /\ appClients[c].call # "none" -> CallSettled(c, line.kind = "answer")
           [] line.kind \in {"answer", "refusal"} /\ appClients[c].call = "none" ->
                appClients' = [appClients EXCEPT ![c].lines = Tail(@)] /\ UNCHANGED <<appEngine, appTurns>>
           [] OTHER -> EventComes(c, line)

-----------------------------------------------------------------------------
(* The engine's stop.                                                      *)

\* onRuntimeStop takes the client and closes it, which fails the turn that waits on it.
AppEngineStops ==
  LET c == appEngine.client
      waiting == IF c = 0 THEN {} ELSE WaitsOn(c)
  IN  /\ appEngine.st = "open"
      /\ appEngine' = [appEngine EXCEPT !.st = "closing", !.client = 0, !.waits = c]
      /\ appClients' = [d \in AppClients |-> IF d = c THEN Close(appClients[d]) ELSE appClients[d]]
      /\ appTurns' = [t \in AppTurns |-> IF t \in waiting THEN AppOver(t, "lost", 1)[t] ELSE appTurns[t]]
      /\ UNCHANGED appServers
\* It waits for the process, unless the client was closed already.
EngineStopped ==
  /\ appEngine.st = "closing" /\ (appEngine.waits # 0 => appClients[appEngine.waits].stop \in {"no", "done"})
  /\ appEngine' = [appEngine EXCEPT !.st = "closed"]
  /\ UNCHANGED <<appClients, appServers, appTurns>>

AppNext ==
  \/ \E t \in AppTurns :
       \/ AppTurnBegins(t) \/ AppTurnStarts(t) \/ WriteFails(t) \/ AppEventRead(t) \/ TimesOut(t) \/ AppAnswered(t)
       \/ \E c \in AppClients : TurnConnects(t, c) \/ SpawnFails(t, c)
  \/ \E c \in AppClients :
       \/ Escalates(c) \/ ChildExits(c) \/ CloseSeen(c) \/ LineHandled(c)
       \/ \E ok \in BOOLEAN : ServerAnswers(c, ok)
       \/ \E kind \in {"text", "ask", "error", "completed", "failed"} : ServerSends(c, kind)
  \/ AppEngineStops \/ EngineStopped

AppSpec == AppInit /\ [][AppNext]_appVars

-----------------------------------------------------------------------------
\* A turn takes its own text and no other turn's, in the order it was sent, and one that
\* completes has all of it: a client is not handed on with a turn's events still to come
\* (CodexRoomAgent.ts:424-429).
TurnsHearTheirOwn == \A t \in AppTurns : ~appTurns[t].spoilt

\* Nobody waits on a closed client, for an answer or an event, and who waits for an answer is
\* the caller of the one call there is; a reader waits only while no event is queued.
NobodyWaitsInVain ==
  /\ \A c \in AppClients :
       /\ appClients[c].st = "closed" => appClients[c].call = "none" /\ appClients[c].waiter = 0
       /\ appClients[c].waiter # 0 => appClients[c].events = <<>> /\ appTurns[appClients[c].waiter].pc = "reading"
  /\ \A t \in AppTurns :
       appTurns[t].pc \in {"opening", "starting"} =>
         /\ appClients[Held(t)].st = "open"
         /\ appClients[Held(t)].call = IF appTurns[t].pc = "opening" THEN "initialize" ELSE "start"

\* A process that runs is the engine's client's or is being stopped, but for one still being
\* connected, or whose initialize was refused and that CodexRoom calls a stray
\* (CodexRoomAgent.ts:614-649); and where close() or the engine's stop is over, it has exited.
ChildrenAreStopped ==
  \A c \in AppClients :
    /\ appServers[c].st = "up" =>
         \/ appEngine.client = c
         \/ appClients[c].stop \in {"eof", "term"}
         \/ \E t \in AppTurns : Held(t) = c /\ (appTurns[t].pc = "opening" \/ appTurns[t].end = "refused")
    /\ appClients[c].stop = "done" => appServers[c].st # "up"
    /\ appEngine.st = "closed" /\ appEngine.waits = c => appServers[c].st # "up"

\* A failed turn's failure is told, and told once: an error the app-server reported is not told
\* again as the outcome of its turn.  Only a transport that then fails is another failure.
FailuresAreToldOnce ==
  \A t \in AppTurns :
    LET turn == appTurns[t]
    IN  /\ turn.end = "completed" => turn.failures = turn.errors
        /\ turn.end \in {"failed", "interrupted"} => turn.failures = IF turn.errors > 0 THEN turn.errors ELSE 1
        /\ turn.end \in {"lost", "refused"} => turn.failures = turn.errors + 1

\* Turns on an app-server have an end of their own.
AppServersServe == TurnsHearTheirOwn /\ NobodyWaitsInVain /\ ChildrenAreStopped /\ FailuresAreToldOnce
=============================================================================
