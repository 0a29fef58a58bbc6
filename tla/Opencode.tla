------------------------------ MODULE Opencode ------------------------------
(***************************************************************************)
(* A room of the OpenCode adapter (adapters/opencode/OpencodeAdapter.ts,   *)
(* with adapters/shared/decisions.ts and runUntilReleased.ts): its turns,  *)
(* the sessions they prompt, and the asks (permissions and questions) on   *)
(* which OpenCode waits for the room.                                      *)
(*                                                                         *)
(* One event loop reads the events of every session in order.  An event    *)
(* reaches the room by its session (`routes` is roomBySession), and ends   *)
(* whatever turn the room holds.  The rest runs beside it: the message's   *)
(* handler, the timers of asks, the room's replies, the room's removal.    *)
(* OpenCode runs the prompts of a session one at a time, ends each by one  *)
(* event, and has not taken a prompt whose request failed.  A room that is *)
(* left and joined again has a new RoomState, a new `life`; a handler of   *)
(* the former life runs on.  Another room keeps the client up.             *)
(***************************************************************************)
EXTENDS Naturals, FiniteSets, Sequences

CONSTANTS
  Asks,          \* the asks OpenCode may open
  MaxLives,      \* bound: joins of the room
  MaxOcTurns,    \* bound: messages
  MaxOcSessions  \* bound: sessions created

ASSUME OpencodeAssumption ==
  {MaxLives, MaxOcTurns, MaxOcSessions} \subseteq Nat \ {0} /\ 0 \notin Asks

OcTurns == 1..MaxOcTurns
OcSessions == 1..MaxOcSessions
NoOc == 0

VARIABLES
  oc,        \* the room's RoomState, the session the room's history names, and whether
             \* the configuration answers asks by itself (approvalMode, questionMode)
  routes,    \* roomBySession: the sessions routed to the room
  ocTurns,   \* every message's turn
  opened,    \* OpenCode's sessions: the prompts taken, is the conversation known?
  asks,      \* every ask: on OpenCode, and its entry in the registry
  events,    \* the event stream, in order
  posting,   \* the ask the event loop is relaying to the room, and for which turn
  memory     \* what the checks remember

ocVars == <<oc, routes, ocTurns, opened, asks, events, posting, memory>>

NoOcTurn == [pc |-> "none", life |-> 0, held |-> NoOc, named |-> NoOc, fresh |-> FALSE,
             session |-> NoOc, lost |-> FALSE, replays |-> FALSE, ended |-> FALSE, owes |-> FALSE]
NoAsk == [on |-> "none", session |-> NoOc, entry |-> "none", timer |-> FALSE,
          replying |-> FALSE, by |-> NoOc]
NoPost == [ask |-> NoOc, turn |-> NoOc]

OpencodeInit ==
  /\ oc \in [in : {FALSE}, life : {0}, session : {NoOc}, turn : {NoOc}, starting : {FALSE},
             force : {FALSE}, named : {NoOc}, auto : BOOLEAN]
  /\ routes = {}
  /\ ocTurns = [t \in OcTurns |-> NoOcTurn]
  /\ opened = [s \in OcSessions |-> [st |-> "none", aborted |-> FALSE, prompts |-> <<>>, knows |-> FALSE]]
  /\ asks = [a \in Asks |-> NoAsk]
  /\ events = <<>> /\ posting = NoPost
  /\ memory = [talked |-> FALSE, amnesia |-> FALSE, misled |-> FALSE, strayed |-> FALSE,
              unforced |-> FALSE, spent |-> FALSE, untold |-> FALSE]

----------------------------------------------------------------------------
(* What several steps share.                                               *)

\* DecisionRegistry.cancelAll: every entry goes, claimed or not, with its timer.
Undecided(as) == [a \in DOMAIN as |-> [as[a] EXCEPT !.entry = "none", !.timer = FALSE]]

\* A turn of the RoomState the room has now.
Mine(t) == oc.in /\ ocTurns[t].life = oc.life

\* OpencodeTurn.end: the first end counts.
EndsTurn(ts, t) == IF t = NoOc THEN ts ELSE [ts EXCEPT ![t].ended = TRUE]

Over(t) == [ocTurns EXCEPT ![t] = [NoOcTurn EXCEPT !.pc = "done", !.life = ocTurns[t].life]]

\* abortAndAbandonSession: OpenCode is asked to abort, and nobody waits for it.
Abandons(s) ==
  /\ opened' = IF s = NoOc THEN opened ELSE [opened EXCEPT ![s].aborted = TRUE]
  /\ routes' = routes \ {s}

\* Broken variant: the room's next turn may restore the abandoned session.
StaysResumable(o) == o
ForcesFresh(o) == IF o.session = NoOc THEN o ELSE [o EXCEPT !.force = TRUE]

----------------------------------------------------------------------------
(* onMessage: the session, then the prompt.                                *)

FirstUnsent(t) == ocTurns[t].pc = "none" /\ \A u \in OcTurns : u < t => ocTurns[u].pc # "none"

Known(s) == s # NoOc /\ opened[s].knows

\* A room that holds a turn, or starts one, tells the sender so and is done with the
\* message.  The room's first message makes its RoomState; it alone is handed the
\* history that names a session.
MessageComes(t) ==
  /\ FirstUnsent(t)
  /\ oc.in => oc.turn = NoOc /\ ~oc.starting
  /\ oc.in \/ oc.life < MaxLives
  /\ oc' = IF oc.in THEN [oc EXCEPT !.starting = TRUE]
           ELSE [oc EXCEPT !.in = TRUE, !.life = @ + 1, !.session = NoOc, !.starting = TRUE,
                           !.force = FALSE]
  /\ ocTurns' = [ocTurns EXCEPT ![t] =
       [NoOcTurn EXCEPT !.pc = "setup", !.life = oc'.life, !.held = oc'.session, !.fresh = oc'.force,
                        !.named = IF oc.in THEN NoOc ELSE oc.named, !.owes = memory.talked]]
  /\ memory' = [memory EXCEPT !.spent = @ \/ (~oc.in /\ memory.talked /\ ~Known(oc.named))]
  /\ UNCHANGED <<routes, opened, asks, events, posting>>

Prior(t) == IF ocTurns[t].held # NoOc THEN ocTurns[t].held ELSE ocTurns[t].named
Restored(t) == IF ocTurns[t].fresh THEN NoOc ELSE Prior(t)

HasSession(t, s, lost, replays) ==
  /\ routes' = (routes \ {ocTurns[t].held}) \cup {s}
  /\ oc' = IF Mine(t) THEN [oc EXCEPT !.session = s] ELSE oc
  /\ ocTurns' = [ocTurns EXCEPT ![t].pc = "settled", ![t].session = s,
                                ![t].lost = lost, ![t].replays = replays]

SessionRestored(t) ==
  /\ ocTurns[t].pc = "setup" /\ Restored(t) # NoOc
  /\ opened[Restored(t)].st = "made"
  /\ HasSession(t, Restored(t), FALSE, FALSE)
  /\ memory' = [memory EXCEPT !.strayed = @ \/ (~Mine(t) /\ opened[Restored(t)].aborted)]
  /\ UNCHANGED <<opened, asks, events, posting>>

Replays(t) == Prior(t) # NoOc

\* None to restore, or it is gone (404): a new session.
SessionCreated(t) ==
  /\ ocTurns[t].pc = "setup"
  /\ Restored(t) # NoOc => opened[Restored(t)].st = "gone"
  /\ \E s \in OcSessions :
       /\ opened[s].st = "none" /\ \A r \in OcSessions : r < s => opened[r].st # "none"
       /\ HasSession(t, s, Restored(t) # NoOc, Replays(t))
       /\ opened' = [opened EXCEPT ![s].st = "made"]
  /\ UNCHANGED <<asks, events, posting, memory>>

\* A room whose conversation rests on the turn that now fails: its RoomState has no
\* session and it alone knew one, or the session it opened for a lost one goes untold.
Forfeits(t) ==
  LET turn == ocTurns[t]
      hadAll == turn.pc = "setup" /\ turn.held = NoOc /\ turn.owes IN
    [memory EXCEPT !.spent = @ \/ hadAll, !.untold = @ \/ turn.lost]

\* OpenCode refuses the session, or the room the event that names it.
SetupFails(t) ==
  /\ ocTurns[t].pc \in {"setup", "settled"}
  /\ oc' = IF Mine(t) THEN [oc EXCEPT !.starting = FALSE] ELSE oc
  /\ ocTurns' = Over(t)
  /\ memory' = Forfeits(t)
  /\ UNCHANGED <<routes, opened, asks, events, posting>>

\* emitSessionTaskEvent names the session in the room's history, and startTurn claims
\* the room.
TurnStarts(t) ==
  /\ ocTurns[t].pc = "settled"
  /\ oc' = [oc EXCEPT !.starting = @ /\ ~Mine(t), !.turn = IF Mine(t) THEN t ELSE @,
                      !.named = ocTurns[t].session]
  /\ ocTurns' = [ocTurns EXCEPT ![t].pc = "prompting"]
  /\ UNCHANGED <<routes, opened, asks, events, posting, memory>>

Knowing(t) == Known(ocTurns[t].session) \/ ocTurns[t].replays \/ ~ocTurns[t].owes

\* OpenCode takes the prompt.  A conversation is what turns of the RoomState the room
\* has say.
PromptTaken(t) ==
  /\ ocTurns[t].pc = "prompting" /\ opened[ocTurns[t].session].st = "made"
  /\ LET s == ocTurns[t].session IN
       opened' = [opened EXCEPT ![s].prompts = Append(@, t), ![s].knows = Knowing(t) /\ (Mine(t) \/ @)]
  /\ memory' = [memory EXCEPT !.talked = @ \/ Mine(t), !.amnesia = @ \/ ~Knowing(t)]
  /\ ocTurns' = [ocTurns EXCEPT ![t].pc = "taken"]
  /\ UNCHANGED <<oc, routes, asks, events, posting>>

\* Its answer reaches the adapter, which takes the history as told: whatever forced a
\* fresh session while the request was out is forgotten.
PromptAnswered(t) ==
  /\ ocTurns[t].pc = "taken"
  /\ ocTurns' = [ocTurns EXCEPT ![t].pc = "running"]
  /\ oc' = IF Mine(t) THEN [oc EXCEPT !.force = FALSE] ELSE oc
  /\ memory' = [memory EXCEPT !.unforced = @ \/ (Mine(t) /\ oc.force /\ opened[ocTurns[t].session].aborted)]
  /\ UNCHANGED <<routes, opened, asks, events, posting>>

\* clearTurnState, of a turn that may no longer be the room's.
TurnCleared(t) ==
  IF Mine(t) /\ oc.turn = t THEN oc' = [oc EXCEPT !.turn = NoOc] /\ asks' = Undecided(asks)
  ELSE UNCHANGED <<oc, asks>>

PromptFails(t) ==
  /\ ocTurns[t].pc = "prompting"
  /\ TurnCleared(t)
  /\ ocTurns' = Over(t)
  /\ memory' = Forfeits(t)
  /\ UNCHANGED <<routes, opened, events, posting>>

----------------------------------------------------------------------------
(* OpenCode.                                                               *)

Running(s) == opened[s].prompts # <<>>
WaitedOn(s) == {a \in Asks : asks[a].session = s /\ asks[a].on \in {"waiting", "unheard"}}

AskOpens(a) ==
  /\ asks[a].on = "none"
  /\ \E s \in OcSessions :
       /\ Running(s)
       /\ asks' = [asks EXCEPT ![a].on = "waiting", ![a].session = s]
       /\ events' = Append(events, [is |-> "ask", session |-> s, of |-> a])
  /\ UNCHANGED <<oc, routes, ocTurns, opened, posting, memory>>

\* Another client answers, or a reply to another ask settles this one too.
AskSettles(a) ==
  /\ asks[a].on \in {"waiting", "unheard"}
  /\ asks' = [asks EXCEPT ![a].on = "settled", ![a].session = NoOc]
  /\ events' = Append(events, [is |-> "settled", session |-> asks[a].session, of |-> a])
  /\ UNCHANGED <<oc, routes, ocTurns, opened, posting, memory>>

\* session.idle, or session.error.
PromptEnds(s) ==
  /\ Running(s) /\ (WaitedOn(s) = {} \/ opened[s].aborted)
  /\ opened' = [opened EXCEPT ![s].prompts = Tail(@)]
  /\ events' = Append(events, [is |-> "end", session |-> s, of |-> Head(opened[s].prompts)])
  /\ UNCHANGED <<oc, routes, ocTurns, asks, posting, memory>>

\* OpenCode forgets an idle session.
SessionGoes(s) ==
  /\ opened[s].st = "made" /\ ~Running(s)
  /\ opened' = [opened EXCEPT ![s].st = "gone"]
  /\ UNCHANGED <<oc, routes, ocTurns, asks, events, posting, memory>>

----------------------------------------------------------------------------
(* runEventLoop, handleEvent: one event at a time.                         *)

Heard(kind) ==
  /\ events # <<>> /\ posting = NoPost /\ Head(events).is = kind
  /\ events' = Tail(events)
Routed(e) == oc.in /\ e.session \in routes

EventsLost ==
  /\ events # <<>> /\ posting = NoPost
  /\ events' = <<>>
  /\ asks' = [a \in Asks |-> IF [is |-> "ask", session |-> asks[a].session, of |-> a]
                                \in {events[i] : i \in DOMAIN events} /\ asks[a].on = "waiting"
                             THEN [asks[a] EXCEPT !.on = "unheard"] ELSE asks[a]]
  /\ UNCHANGED <<oc, routes, ocTurns, opened, posting, memory>>

\* openAsk: an ask answered automatically is claimed and replied to; another waits on a
\* timer and is posted.  The loop waits for either.
AskHeard ==
  /\ Heard("ask")
  /\ LET a == Head(events).of IN
       IF ~Routed(Head(events))
       THEN /\ asks' = [asks EXCEPT ![a].on = IF @ = "waiting" THEN "unheard" ELSE @]
            /\ UNCHANGED posting
       ELSE /\ posting' = [ask |-> a, turn |-> oc.turn]
            /\ asks' = IF oc.auto
                       THEN [asks EXCEPT ![a].entry = "claimed", ![a].replying = TRUE, ![a].by = oc.turn]
                       ELSE [asks EXCEPT ![a].entry = "open", ![a].timer = TRUE]
  /\ UNCHANGED <<oc, routes, ocTurns, opened, memory>>

\* settledOnOpencode
SettledHeard ==
  /\ Heard("settled")
  /\ LET a == Head(events).of IN
       asks' = IF Routed(Head(events)) /\ asks[a].entry = "open"
               THEN [asks EXCEPT ![a].entry = "none", ![a].timer = FALSE] ELSE asks
  /\ UNCHANGED <<oc, routes, ocTurns, opened, posting, memory>>

\* Whatever turn the room holds ends.
EndHeard ==
  /\ Heard("end")
  /\ LET t == Head(events).of IN
       IF Routed(Head(events)) /\ oc.turn # NoOc
       THEN /\ ocTurns' = EndsTurn(ocTurns, oc.turn)
            /\ memory' = [memory EXCEPT !.strayed = @ \/ ~Mine(t),
                                        !.misled = @ \/ (t # oc.turn /\ Mine(t) /\ ~memory.strayed)]
       ELSE UNCHANGED <<ocTurns, memory>>
  /\ UNCHANGED <<oc, routes, opened, asks, posting>>

AskPosted ==
  /\ posting # NoPost /\ ~oc.auto
  /\ posting' = NoPost
  /\ UNCHANGED <<oc, routes, ocTurns, opened, asks, events, memory>>

\* Broken variant: the turn that cannot ask the room waits for an answer all the same.
WithdrawsOnly(t) == UNCHANGED <<oc, routes, ocTurns, opened>>

\* failInteraction: the session is aborted and abandoned, and the turn fails.
InteractionFails(t) ==
  /\ Abandons(oc.session)
  /\ oc' = ForcesFresh(oc)
  /\ ocTurns' = EndsTurn(ocTurns, t)

\* The room cannot be asked.  A reply that claimed the ask meanwhile owns it, and so does
\* whatever ended the turn or withdrew the ask.
AskPostFails ==
  /\ posting # NoPost /\ ~oc.auto
  /\ IF oc.turn = posting.turn /\ asks[posting.ask].entry = "open"
     THEN InteractionFails(oc.turn) /\ asks' = Undecided(asks)
     ELSE UNCHANGED <<oc, routes, ocTurns, opened, asks>>
  /\ posting' = NoPost
  /\ UNCHANGED <<events, memory>>

----------------------------------------------------------------------------
(* Replies: of the room, of a timer.                                       *)

Claims(a) ==
  /\ asks[a].entry = "open"
  /\ asks' = [asks EXCEPT ![a].entry = "claimed", ![a].timer = FALSE, ![a].replying = TRUE,
                          ![a].by = oc.turn]
  /\ UNCHANGED <<oc, routes, ocTurns, opened, events, posting, memory>>
RoomReplies(a) == oc.in /\ Claims(a)
AskExpires(a) == asks[a].timer /\ Claims(a)

\* The event loop waits for an automatic reply.
LoopGoesOn == posting' = IF oc.auto THEN NoPost ELSE posting

Answered(a) ==
  [asks EXCEPT ![a].on = IF @ = "none" THEN @ ELSE "settled", ![a].session = NoOc, ![a].replying = FALSE,
               ![a].by = NoOc, ![a].entry = IF @ = "claimed" THEN "none" ELSE @]

ReplyLands(a) ==
  /\ asks[a].replying
  /\ asks' = Answered(a)
  /\ LoopGoesOn
  /\ UNCHANGED <<oc, routes, ocTurns, opened, events, memory>>

Unanswered(a, as) ==
  [as EXCEPT ![a].replying = FALSE, ![a].by = NoOc, ![a].entry = IF @ = "claimed" THEN "none" ELSE @]

\* sendClaimedReply: the reply fails, and the turn with it if it is still the room's.
ReplyFails(a) ==
  /\ asks[a].replying
  /\ IF oc.in /\ oc.turn = asks[a].by
     THEN InteractionFails(oc.turn) /\ asks' = Unanswered(a, Undecided(asks))
     ELSE asks' = Unanswered(a, asks) /\ UNCHANGED <<oc, routes, ocTurns, opened>>
  /\ LoopGoesOn
  /\ UNCHANGED <<events, memory>>

----------------------------------------------------------------------------
(* How a turn ends (watchTurnCompletion), and how the room goes.           *)

\* handleTurnTimeout, of a turn nothing has ended.
WatchdogFires(t) ==
  /\ ocTurns[t].pc = "running" /\ ~ocTurns[t].ended
  /\ Abandons(ocTurns[t].session)
  /\ oc' = IF Mine(t) THEN ForcesFresh(oc) ELSE oc
  /\ ocTurns' = [ocTurns EXCEPT ![t].pc = "reporting"]
  /\ UNCHANGED <<asks, events, posting, memory>>

TurnCloses(t) ==
  /\ ocTurns[t].pc = "reporting" \/ (ocTurns[t].pc = "running" /\ ocTurns[t].ended)
  /\ TurnCleared(t)
  /\ ocTurns' = Over(t)
  /\ UNCHANGED <<routes, opened, events, posting, memory>>

\* onCleanup: nothing is aborted on OpenCode, and a handler still setting up runs on.
RoomLeft ==
  /\ oc.in
  /\ routes' = routes \ {oc.session}
  /\ asks' = Undecided(asks)
  /\ ocTurns' = EndsTurn(ocTurns, oc.turn)
  /\ oc' = [oc EXCEPT !.in = FALSE, !.session = NoOc, !.turn = NoOc, !.starting = FALSE, !.force = FALSE]
  /\ UNCHANGED <<opened, events, posting, memory>>

TurnMoves(t) ==
  \/ MessageComes(t) \/ SessionRestored(t) \/ SessionCreated(t) \/ SetupFails(t)
  \/ TurnStarts(t) \/ PromptTaken(t) \/ PromptAnswered(t) \/ PromptFails(t) \/ WatchdogFires(t) \/ TurnCloses(t)
LoopMoves ==
  EventsLost \/ AskHeard \/ SettledHeard \/ EndHeard \/ AskPosted \/ AskPostFails
AskMoves(a) ==
  \/ AskOpens(a) \/ AskSettles(a) \/ RoomReplies(a) \/ AskExpires(a) \/ ReplyLands(a) \/ ReplyFails(a)

OpencodeNext ==
  \/ \E t \in OcTurns : TurnMoves(t)
  \/ \E a \in Asks : AskMoves(a)
  \/ \E s \in OcSessions : PromptEnds(s) \/ SessionGoes(s)
  \/ LoopMoves \/ RoomLeft

OpencodeSpec == OpencodeInit /\ [][OpencodeNext]_ocVars

----------------------------------------------------------------------------
(* What must hold.                                                         *)

\* An event that ends the prompt of one of the room's turns never ends a later one of
\* them: roomStateForEvent reads the session alone, so a turn that is given up on must
\* leave its session behind.  Not so once that order came while the turn's own prompt was
\* out (`unforced`), not of prompts of a former life, as a room that is left aborts nothing
\* and restores its session when it is joined again, and not once a handler of a former
\* life has restored a session the room had given up (`strayed`).
EventsStayWithTheirTurn == memory.misled => memory.unforced

\* A prompt lands in a session that knows the conversation, or carries the replayed
\* history (ensureSession), whatever was forced, lost, refused or left.  Not so once the
\* turn that alone was handed the history failed, the history names a session that was
\* never prompted (`spent`), or a session opened for a lost one went unprompted
\* (`untold`).
HistoryIsReplayed == memory.amnesia => memory.spent \/ memory.untold

\* An ask OpenCode has for the room's turn is on its way to the room, open with its timer
\* running, or being answered: no failed post or reply leaves the prompt waiting for
\* nobody.
AsksHaveOwners ==
  \A a \in Asks :
    /\ asks[a].on = "waiting" /\ ~opened[asks[a].session].aborted
    /\ oc.turn # NoOc /\ ~ocTurns[oc.turn].ended /\ Head(opened[asks[a].session].prompts) = oc.turn
    => \/ \E i \in DOMAIN events : events[i].is = "ask" /\ events[i].of = a
       \/ asks[a].entry = "open" /\ asks[a].timer
       \/ asks[a].replying
=============================================================================
