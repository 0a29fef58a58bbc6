----------------------------- MODULE OpenClaw ------------------------------
(***************************************************************************)
(* The connections of one account of the OpenClaw plugin.  A start holds   *)
(* the account's guard until it returns, which is when its connection has  *)
(* been torn down again; a stop lifts the guard and tears down whatever is *)
(* registered; and a teardown forgets the account by its id, whichever     *)
(* connection is registered by then.  Starts and stops come from           *)
(* OpenClaw's gateway, in any order.                                       *)
(***************************************************************************)
EXTENDS Naturals, Sequences, SequencesExt, FiniteSets

CONSTANTS OcStarts, OcStops, MaxOcFailures

\* No connection, in `account`.
Unregistered == 0

ASSUME StartsAssumption == OcStarts \subseteq Nat \ {0}

VARIABLES
  ocStart,   \* each call of startAccount: how far it is, and whether it was aborted
  ocLink,    \* the link of each start
  ocRuntime, \* the AgentRuntime of each start
  account,   \* the registered connection of the account
  startGuard,     \* whether the account is in `starting`
  teardowns, \* the teardowns under way
  ocStop,    \* the calls of stopAccount made
  crossed,   \* whether a start was let in before earlier calls were over, or a stop came on its way up
  unread,    \* the starts whose getAgentMe failed
  stuck,     \* the links that failed to close
  ocFailures

accountsVars == <<ocStart, ocLink, ocRuntime, account, startGuard, teardowns, ocStop, crossed, unread, stuck, ocFailures>>

AccountsInit ==
  /\ ocStart = [s \in OcStarts |-> [phase |-> "none", aborted |-> FALSE]]
  /\ ocLink = [s \in OcStarts |-> "none"]
  /\ ocRuntime = [s \in OcStarts |-> "none"]
  /\ account = Unregistered /\ startGuard = FALSE /\ teardowns = {}
  /\ ocStop = {} /\ crossed = FALSE /\ unread = {} /\ stuck = {} /\ ocFailures = 0

Returned == {"none", "skipped", "failed", "done"}
OcRunning == {s \in OcStarts : ocStart[s].phase \notin Returned}
OcPhase(s, p) == ocStart' = [ocStart EXCEPT ![s].phase = p]
\* startAccount returns, or throws: its finally lifts the guard.
Returns(s, p) == OcPhase(s, p) /\ startGuard' = FALSE

OcFails == ocFailures < MaxOcFailures /\ ocFailures' = ocFailures + 1
OcFine == UNCHANGED ocFailures

\* The connection a teardown takes is the registered one; its runtime is stopped first.
Teardown(by) == [by |-> by, of |-> account, step |-> "runtime", failed |-> FALSE]

\* A start that leaves the earlier connection as it is.
StartBeside(s) ==
  /\ ocStart[s].phase = "none" /\ \A q \in OcStarts : q < s => ocStart[q].phase # "none"
  /\ IF startGuard
       THEN OcPhase(s, "skipped") /\ UNCHANGED <<startGuard, crossed>>
       ELSE startGuard' = TRUE /\ crossed' = (crossed \/ OcRunning # {} \/ teardowns # {}) /\ OcPhase(s, "connecting")
  /\ UNCHANGED <<ocLink, ocRuntime, account, teardowns, ocStop, unread, stuck, ocFailures>>

StartAccount(s) ==
  /\ ocStart[s].phase = "none" /\ \A q \in OcStarts : q < s => ocStart[q].phase # "none"
  /\ IF startGuard
       THEN OcPhase(s, "skipped") /\ UNCHANGED <<startGuard, teardowns, crossed>>
       ELSE /\ startGuard' = TRUE
            /\ crossed' = (crossed \/ OcRunning # {} \/ teardowns # {})
            /\ IF account = Unregistered
                 THEN OcPhase(s, "connecting") /\ UNCHANGED teardowns
                 ELSE OcPhase(s, "tearing") /\ teardowns' = teardowns \cup {Teardown(s)}
  /\ UNCHANGED <<ocLink, ocRuntime, account, ocStop, unread, stuck, ocFailures>>

\* OpenClaw gives up the account: the signal the start was given.
StartAborted(s) ==
  /\ s \in OcRunning /\ ~ocStart[s].aborted
  /\ ocStart' = [ocStart EXCEPT ![s].aborted = TRUE]
  /\ UNCHANGED <<ocLink, ocRuntime, account, startGuard, teardowns, ocStop, crossed, unread, stuck, ocFailures>>

LinkConnects(s) ==
  /\ ocStart[s].phase = "connecting" /\ ~ocStart[s].aborted
  /\ OcPhase(s, "reading") /\ ocLink' = [ocLink EXCEPT ![s] = "up"]
  /\ UNCHANGED <<ocRuntime, account, startGuard, teardowns, ocStop, crossed, unread, stuck, ocFailures>>
LinkFails(s) ==
  /\ ocStart[s].phase = "connecting"
  /\ IF ocStart[s].aborted THEN OcFine ELSE OcFails
  /\ Returns(s, "failed")
  /\ UNCHANGED <<ocLink, ocRuntime, account, teardowns, ocStop, crossed, unread, stuck>>

\* The agent's identity was read: the account is registered over whatever was.
AccountRegisters(s) ==
  /\ ocStart[s].phase = "reading"
  /\ OcPhase(s, "starting") /\ account' = s /\ ocRuntime' = [ocRuntime EXCEPT ![s] = "made"]
  /\ UNCHANGED <<ocLink, startGuard, teardowns, ocStop, crossed, unread, stuck, ocFailures>>
\* It could not be read: the start throws, and nobody closes its link.
IdentityUnread(s) ==
  /\ ocStart[s].phase = "reading" /\ OcFails
  /\ Returns(s, "failed") /\ unread' = unread \cup {s}
  /\ UNCHANGED <<ocLink, ocRuntime, account, teardowns, ocStop, crossed, stuck>>

RuntimeStarts(s) ==
  /\ ocStart[s].phase = "starting"
  /\ OcPhase(s, "holding")
  /\ ocRuntime' = [ocRuntime EXCEPT ![s] = IF @ = "made" THEN "on" ELSE @]
  /\ UNCHANGED <<ocLink, account, startGuard, teardowns, ocStop, crossed, unread, stuck, ocFailures>>
RuntimeFails(s) ==
  /\ ocStart[s].phase = "starting"
  /\ IF ocRuntime[s] = "off" THEN OcFine ELSE OcFails
  /\ Returns(s, "failed") /\ ocRuntime' = [ocRuntime EXCEPT ![s] = "off"]
  /\ UNCHANGED <<ocLink, account, teardowns, ocStop, crossed, unread, stuck>>

\* runPassiveAccountLifecycle: on the abort the start tears down what is registered.
LifecycleEnds(s) ==
  /\ ocStart[s].phase = "holding" /\ ocStart[s].aborted
  /\ IF account = Unregistered
       THEN Returns(s, "done") /\ UNCHANGED teardowns
       ELSE OcPhase(s, "closing") /\ teardowns' = teardowns \cup {Teardown(s)} /\ UNCHANGED startGuard
  /\ UNCHANGED <<ocLink, ocRuntime, account, ocStop, crossed, unread, stuck, ocFailures>>

StopAccount(k) ==
  /\ k \notin ocStop /\ ocStop' = ocStop \cup {k}
  /\ startGuard' = FALSE
  /\ crossed' = (crossed \/ \E s \in OcRunning : ocStart[s].phase \notin {"holding", "closing"})
  /\ teardowns' = IF account = Unregistered THEN teardowns ELSE teardowns \cup {Teardown(k)}
  /\ UNCHANGED <<ocStart, ocLink, ocRuntime, account, unread, stuck, ocFailures>>

\* The runtime of a teardown's connection stopped, or gave up stopping: its link is next.
RuntimeStops(t) ==
  /\ t.step = "runtime"
  /\ \E failed \in BOOLEAN :
       /\ IF failed THEN OcFails ELSE OcFine
       /\ teardowns' = (teardowns \ {t}) \cup {[t EXCEPT !.step = "link", !.failed = failed]}
  /\ ocRuntime' = [ocRuntime EXCEPT ![t.of] = "off"]
  /\ UNCHANGED <<ocStart, ocLink, account, startGuard, ocStop, crossed, unread, stuck>>

\* What the call that tore down does next: a start goes on to connect, or returns.
Resumes(by, failed) ==
  IF by \notin OcStarts THEN UNCHANGED <<ocStart, startGuard>>
  ELSE IF ocStart[by].phase = "tearing" /\ ~failed THEN OcPhase(by, "connecting") /\ UNCHANGED startGuard
  ELSE Returns(by, IF failed THEN "failed" ELSE "done")

\* An entry that outlives its connection.
EntryKept(t) == account

\* The link of a teardown closed, or failed to: the account's entry goes, whosever it is.
Deregistered(t) == Unregistered
LinkCloses(t) ==
  /\ t.step = "link"
  /\ \E failed \in BOOLEAN :
       /\ IF failed THEN OcFails /\ stuck' = stuck \cup {t.of} /\ UNCHANGED ocLink
          ELSE OcFine /\ UNCHANGED stuck /\ ocLink' = [ocLink EXCEPT ![t.of] = "closed"]
       /\ Resumes(t.by, failed \/ t.failed)
  /\ account' = Deregistered(t) /\ teardowns' = teardowns \ {t}
  /\ UNCHANGED <<ocRuntime, ocStop, crossed, unread>>

AccountsNext ==
  \/ \E s \in OcStarts :
       \/ StartAccount(s) \/ StartAborted(s) \/ LinkConnects(s) \/ LinkFails(s) \/ AccountRegisters(s)
       \/ IdentityUnread(s) \/ RuntimeStarts(s) \/ RuntimeFails(s) \/ LifecycleEnds(s)
  \/ \E k \in OcStops : StopAccount(k)
  \/ \E t \in teardowns : RuntimeStops(t) \/ LinkCloses(t)

AccountsSpec == AccountsInit /\ [][AccountsNext]_accountsVars

-----------------------------------------------------------------------------
\* A link that is up is its account's, on its way to be, or being closed: nothing else could
\* ever close it.  Excused are a link whose close failed, one whose start could not read the
\* agent's identity, and everything once a stop came while a start was on its way up, or a
\* start was let in before the calls before it were over: those then forget an entry that is
\* not theirs (startAccount, teardown, src/plugins/openclaw/src/transport.ts).
ConnectionsAreHeld ==
  crossed \/ \A s \in OcStarts :
    ocLink[s] = "up" =>
      \/ account = s \/ ocStart[s].phase = "reading" \/ s \in stuck \/ s \in unread
      \/ \E t \in teardowns : t.of = s

\* Unless a stop lifts the guard or is still tearing down, the account has one call at work
\* on it, and one link up but for those that cannot be closed any more.
OneConnection ==
  /\ ocStop = {} => Cardinality(OcRunning) <= 1 /\ ~crossed
  /\ crossed \/ Cardinality({s \in OcStarts : ocLink[s] = "up"} \ (stuck \cup unread)) <= 1

\* What is registered can be used: its link is up or could not be closed, and no runtime runs
\* over a closed link.
RegisteredIsUsable ==
  /\ account # Unregistered /\ ~crossed =>
       ocLink[account] = "up" \/ \E t \in teardowns : t.of = account
  /\ crossed \/ \A s \in OcStarts : ocRuntime[s] = "on" => ocLink[s] = "up" /\ ocStart[s].phase \in {"holding", "closing"}

\* The account's connections are known and usable.
AccountsAreHeld == ConnectionsAreHeld /\ OneConnection /\ RegisteredIsUsable

----------------------------------------------------------------------------
(***************************************************************************)
(* What the plugin says in Band rooms.  A room's message is handed to the  *)
(* model with the room's roster; its replies, and what other contexts send *)
(* to the room, must mention someone: whom the text names, or the room's   *)
(* last sender if still there, or the first other participant.  The last   *)
(* senders are kept for the rooms used last, and go with the account's     *)
(* connection.                                                             *)
(***************************************************************************)
CONSTANTS OcRooms, OcPeople, MaxLastSenders, MaxOcMessages, MaxOcSends, MaxOcMoves

OcSelf == "self"
NoPerson == "nobody"
ASSUME PeopleAssumption == OcSelf \notin OcPeople /\ NoPerson \notin OcPeople
ASSUME LastSendersAssumption == MaxLastSenders \in Nat

\* What a text may name: nobody, a participant by handle or name, or an id token.
OcTexts == [kind : {"plain"}, who : {NoPerson}] \cup [kind : {"name", "id"}, who : OcPeople \cup {OcSelf}]

VARIABLES
  peopleIn,    \* those in each room beside the agent
  connected,   \* whether the account is registered
  lastSenders, \* the registered account's last senders, least recently used first
  inbound,     \* the message each room's execution is at
  sending,     \* the text being sent: its roster is fetched
  mentioned,   \* the last message posted, and whom it had to mention
  ocMessages, ocSends, ocMoves

repliesVars == <<peopleIn, connected, lastSenders, inbound, sending, mentioned, ocMessages, ocSends, ocMoves>>

NoInbound == [from |-> NoPerson, stage |-> "none", named |-> FALSE, since |-> {}, fresh |-> FALSE]
NotSending == [stage |-> "none"]

RepliesInit ==
  /\ peopleIn = [r \in OcRooms |-> OcPeople] /\ connected = TRUE /\ lastSenders = <<>>
  /\ inbound = [r \in OcRooms |-> NoInbound]
  /\ sending = NotSending /\ mentioned = NotSending
  /\ ocMessages = 0 /\ ocSends = 0 /\ ocMoves = 0

-----------------------------------------------------------------------------
\* The last senders.
EntriesOf(r) == {i \in DOMAIN lastSenders : lastSenders[i].room = r}
Tracked(r, u) ==
  LET others == IF EntriesOf(r) = {} THEN lastSenders ELSE RemoveAt(lastSenders, CHOOSE i \in EntriesOf(r) : TRUE)
      kept == Append(others, [room |-> r, from |-> u])
  IN  IF Len(kept) > MaxLastSenders THEN Tail(kept) ELSE kept
LastSender(r) ==
  IF \E e \in ToSet(lastSenders) : e.room = r THEN (CHOOSE e \in ToSet(lastSenders) : e.room = r).from ELSE NoPerson

-----------------------------------------------------------------------------
\* Whom a text mentions, given the room's participants; {} when the send throws.  Two
\* people may bear the name a text uses, and the first other participant is the server's.
Explicit(text, present) == {text.who} \cap present
Unresolved(text, present) == text.kind = "id" /\ text.who # OcSelf /\ text.who \notin present
Fallback(r, present) ==
  IF LastSender(r) \in present THEN {{LastSender(r)}}
  ELSE IF present = {} THEN {{}} ELSE {{u} : u \in present}
\* An id token that matches nobody falls back as if there was none.
ResolvedSomehow(text, r, present) ==
  IF Explicit(text, present) # {} THEN {Explicit(text, present)} ELSE Fallback(r, present)

Resolved(text, r, present) ==
  IF Explicit(text, present) # {} THEN {Explicit(text, present)}
  ELSE IF Unresolved(text, present) THEN {{}}
  ELSE Fallback(r, present)

-----------------------------------------------------------------------------
\* A room's next message to dispatch (text, of someone else): its sender's name may be missing.
MessageComes(r, u, named) ==
  /\ inbound[r].stage = "none" /\ connected /\ ocMessages < MaxOcMessages /\ ocMessages' = ocMessages + 1
  /\ u \in peopleIn[r]
  /\ inbound' = [inbound EXCEPT ![r] = [NoInbound EXCEPT !.stage = "preparing", !.from = u, !.named = named]]
  /\ UNCHANGED <<peopleIn, connected, lastSenders, sending, mentioned, ocSends, ocMoves>>

\* The roster was listed, or could not be: the sender is remembered and the model runs.
Dispatches(r) ==
  LET tracks == inbound[r].named /\ connected
  IN  /\ inbound[r].stage = "preparing"
      /\ lastSenders' = IF tracks THEN Tracked(r, inbound[r].from) ELSE lastSenders
      /\ inbound' = [q \in OcRooms |->
           IF q = r THEN [inbound[r] EXCEPT !.stage = "dispatched", !.since = {}, !.fresh = tracks]
           ELSE IF tracks THEN [inbound[q] EXCEPT !.since = @ \cup {r}] ELSE inbound[q]]
      /\ UNCHANGED <<peopleIn, connected, sending, mentioned, ocMessages, ocSends, ocMoves>>

\* The dispatch is over, however it ended, and the message is marked, whether that works or not.
InboundSettles(r) ==
  /\ inbound[r].stage = "dispatched" /\ ~(sending.stage # "none" /\ sending.room = r /\ sending.reply)
  /\ inbound' = [inbound EXCEPT ![r] = NoInbound]
  /\ UNCHANGED <<peopleIn, connected, lastSenders, sending, mentioned, ocMessages, ocSends, ocMoves>>

\* A reply of the room's turn, or a send from elsewhere: dropped, or refused, with no account.
TextSent(r, text, reply) ==
  /\ sending = NotSending /\ ocSends < MaxOcSends /\ ocSends' = ocSends + 1
  /\ reply => inbound[r].stage = "dispatched"
  /\ sending' = IF connected THEN [stage |-> "listing", room |-> r, text |-> text, reply |-> reply] ELSE NotSending
  /\ mentioned' = NotSending
  /\ UNCHANGED <<peopleIn, connected, lastSenders, inbound, ocMessages, ocMoves>>
PeopleListed ==
  /\ sending.stage = "listing"
  /\ sending' = [stage |-> "resolving", room |-> sending.room, text |-> sending.text, reply |-> sending.reply,
                 present |-> peopleIn[sending.room]]
  /\ UNCHANGED <<peopleIn, connected, lastSenders, inbound, mentioned, ocMessages, ocSends, ocMoves>>
\* The participants could not be listed, or the post failed.
TextFails ==
  /\ sending.stage # "none" /\ sending' = NotSending
  /\ UNCHANGED <<peopleIn, connected, lastSenders, inbound, mentioned, ocMessages, ocSends, ocMoves>>

\* Whom a plain reply must mention: the sender of the message it answers, still in the room,
\* unless the connection that heard it is gone or as many other rooms were heard since as
\* are kept.
DueTo(s) ==
  IF s.reply /\ inbound[s.room].fresh /\ Cardinality(inbound[s.room].since) < MaxLastSenders
     /\ inbound[s.room].from \in s.present
    THEN {inbound[s.room].from} ELSE s.present
\* The last sender is looked up once the roster is there.
TextPosted ==
  /\ sending.stage = "resolving"
  /\ \E who \in Resolved(sending.text, sending.room, sending.present) :
       mentioned' = IF who = {} THEN mentioned
                    ELSE [stage |-> "posted", text |-> sending.text, to |-> who, present |-> sending.present, due |-> DueTo(sending)]
  /\ sending' = NotSending
  /\ UNCHANGED <<peopleIn, connected, lastSenders, inbound, ocMessages, ocSends, ocMoves>>

\* People come and go; the account's connection goes, and another one registers.
PeopleMove(r, u) ==
  /\ ocMoves < MaxOcMoves /\ ocMoves' = ocMoves + 1
  /\ peopleIn' = [peopleIn EXCEPT ![r] = IF u \in @ THEN @ \ {u} ELSE @ \cup {u}]
  /\ UNCHANGED <<connected, lastSenders, inbound, sending, mentioned, ocMessages, ocSends>>
AccountGoes ==
  /\ connected /\ ocMoves < MaxOcMoves /\ ocMoves' = ocMoves + 1
  /\ connected' = FALSE /\ lastSenders' = <<>>
  /\ inbound' = [r \in OcRooms |-> [inbound[r] EXCEPT !.fresh = FALSE]]
  /\ UNCHANGED <<peopleIn, sending, mentioned, ocMessages, ocSends>>
AccountComes ==
  /\ ~connected /\ connected' = TRUE
  /\ UNCHANGED <<peopleIn, lastSenders, inbound, sending, mentioned, ocMessages, ocSends, ocMoves>>

RepliesNext ==
  \/ \E r \in OcRooms :
       \/ \E u \in OcPeople, named \in BOOLEAN : MessageComes(r, u, named)
       \/ Dispatches(r) \/ InboundSettles(r)
       \/ \E text \in OcTexts, reply \in BOOLEAN : TextSent(r, text, reply)
       \/ \E u \in OcPeople : PeopleMove(r, u)
  \/ PeopleListed \/ TextFails \/ TextPosted \/ AccountGoes \/ AccountComes

RepliesSpec == RepliesInit /\ [][RepliesNext]_repliesVars

-----------------------------------------------------------------------------
\* A message the plugin posts mentions exactly one of the room's others: the one its text
\* names; never anyone in the place of an id that is not in the room; and a plain reply the
\* one it answers, as long as that one's message is among those remembered (resolveMentions,
\* trackLastSender, src/plugins/openclaw/src).
MentionsAreMeant ==
  mentioned.stage = "posted" =>
    /\ Cardinality(mentioned.to) = 1 /\ mentioned.to \subseteq mentioned.present
    /\ mentioned.text.who \in mentioned.present => mentioned.to = {mentioned.text.who}
    /\ mentioned.text.kind = "id" => mentioned.text.who \in mentioned.present \cup {OcSelf}
    /\ mentioned.text.kind = "plain" => mentioned.to \subseteq mentioned.due

\* No more rooms are remembered than the limit, each once, and none of a connection gone.
LastSendersAreBounded ==
  /\ Len(lastSenders) <= MaxLastSenders
  /\ \A i, j \in DOMAIN lastSenders : lastSenders[i].room = lastSenders[j].room => i = j
  /\ ~connected => lastSenders = <<>>

\* What is said reaches those it is meant for.
RepliesAreMeant == MentionsAreMeant /\ LastSendersAreBounded
=============================================================================
