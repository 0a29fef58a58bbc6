---------------------------- MODULE LinearBridge ----------------------------
(***************************************************************************)
(* The Linear bridge (integrations/linear: bridge/handler.ts, webhook.ts,  *)
(* stale-session-guard.ts, store.ts): Linear's agent-session events,       *)
(* delivered at least once and in any order, are forwarded to a Band room  *)
(* per issue or per session, and a store keeps one record per session.     *)
(*                                                                         *)
(* Every webhook runs beside the others.  What a handler does between two  *)
(* requests to Band or Linear is one step: the store (SQLite) is local.    *)
(* The creation of a room is two: Band makes the room, and the handler     *)
(* gets the answer and saves the record, or never does.  A message that    *)
(* failed has not been taken.  The dispatcher is the inline one; the       *)
(* sessions are of one issue.  Acknowledgments, delegation, specialist     *)
(* hints and the hand-off table that embedding applications read are left  *)
(* out.                                                                    *)
(***************************************************************************)
EXTENDS Naturals, FiniteSets, Sequences

CONSTANTS
  Sessions,        \* Linear's agent sessions, all of one issue
  RetryLimit,      \* DISPATCH_RETRY_LIMIT
  MaxLinearEvents, \* bound: events of the sessions
  MaxOpen,         \* bound: webhooks handled at a time
  MaxDeliveries,   \* bound: webhooks, redeliveries included
  MaxChats,        \* bound: rooms created
  MaxUpsets        \* bound: restarts, ticks of the guard, completions by the agent

ASSUME LinearAssumption ==
  {RetryLimit, MaxLinearEvents, MaxOpen, MaxDeliveries, MaxChats, MaxUpsets} \subseteq Nat

LinearEvents == 1..MaxLinearEvents
Deliveries == 1..MaxOpen
NoChat == 0
NoSession == "none"

VARIABLES
  linear,      \* the events Linear delivers, a session's first one creates it
  records,     \* SessionRoomStore: a record per session
  webhooks,    \* the deliveries being handled: where each awaits, and what it has read
  chats,       \* the rooms created, each by a session
  locks,       \* roomResolutionLocks: the delivery that creates the scope's room
  guard,       \* the records a tick of the StaleSessionGuard is working on
  byIssue,     \* roomStrategy
  lnMemory     \* what the checks remember

linearVars == <<linear, records, webhooks, chats, locks, guard, byIssue, lnMemory>>

NoRecord == [of |-> NoSession, st |-> "none", room |-> NoChat, last |-> 0]
NoDelivery ==
  [pc |-> "none", ev |-> 0, tries |-> 0, existing |-> NoRecord, rec |-> NoRecord, fresh |-> NoRecord]
Actions == {"created", "updated", "prompted", "canceled"}
Scopes == Sessions \cup {NoSession}

LinearInit ==
  /\ linear \in [LinearEvents -> [session : Sessions, action : Actions]]
  /\ \A i \in LinearEvents :
       linear[i].action = "created" <=> \A j \in 1..(i - 1) : linear[j].session # linear[i].session
  /\ chats = <<>>
  /\ records = [s \in Sessions |-> NoRecord] /\ guard = records
  /\ webhooks = [d \in Deliveries |-> NoDelivery]
  /\ locks = [x \in Scopes |-> 0]
  /\ byIssue \in BOOLEAN
  /\ lnMemory = [posts |-> [e \in LinearEvents |-> 0], excused |-> {}, cancels |-> [x \in Scopes |-> 0], aside |-> {},
                 handled |-> {}, arrived |-> 0, upsets |-> 0]

----------------------------------------------------------------------------
(* The store, and what a delivery knows.                                   *)

EventOf(d) == webhooks[d].ev
SessionOf(d) == linear[EventOf(d)].session
ActionOf(d) == linear[EventOf(d)].action
Scope(s) == IF byIssue THEN NoSession ELSE s
Live(r) == r.st \notin {"none", "canceled"}

\* An event whose record comes to name another event, or that is recorded with another
\* session, is not known as handled any more.
Excuses(r) ==
  {e \in LinearEvents : e = records[r.of].last /\ e # r.last}
    \cup {e \in {r.last} \cap LinearEvents : linear[e].session # r.of}

\* Every record that comes to be canceled is counted, in its scope.
Cancels(r) == r.st = "canceled" /\ Live(records[r.of])
Canceled(r) ==
  [x \in Scopes |-> lnMemory.cancels[x] + IF Cancels(r) /\ x = Scope(r.of) THEN 1 ELSE 0]

Upsert(r) == records' = [records EXCEPT ![r.of] = r]
Kept(r) == [lnMemory EXCEPT !.excused = @ \cup Excuses(r), !.cancels = Canceled(r)]
Saves(r) == Upsert(r) /\ lnMemory' = Kept(r)

Awaits(d, pc) == webhooks' = [webhooks EXCEPT ![d].pc = pc]
Answers(d) == webhooks' = [webhooks EXCEPT ![d] = NoDelivery]
Throws(d) ==
  webhooks' = [webhooks EXCEPT ![d] = [NoDelivery EXCEPT !.pc = "thrown", !.ev = EventOf(d), !.tries = webhooks[d].tries]]

----------------------------------------------------------------------------
(* The webhook handler, and the inline dispatcher.                         *)

\* Broken variant: a redelivery is let in beside the event's first delivery.
NeverInFlight(e) == FALSE
InFlight(e) == \E d \in Deliveries : webhooks[d].ev = e

\* A delivery of an event that its record names, or that is in flight, is answered at
\* once and changes nothing.
WebhookArrives(d, e) ==
  /\ webhooks[d] = NoDelivery /\ \A b \in Deliveries : b < d => webhooks[b] # NoDelivery
  /\ lnMemory.arrived < MaxDeliveries
  /\ records[linear[e].session].last # e /\ ~InFlight(e)
  /\ webhooks' = [webhooks EXCEPT ![d].ev = e, ![d].pc = "dispatched"]
  /\ lnMemory' = [lnMemory EXCEPT !.arrived = @ + 1]
  /\ UNCHANGED <<linear, records, chats, locks, guard, byIssue>>

\* Error handling has ended: the dispatcher tries again what the error calls retryable, ...
Retries(d) ==
  /\ webhooks[d].pc = "thrown" /\ webhooks[d].tries < RetryLimit
  /\ webhooks' = [webhooks EXCEPT ![d] =
       [NoDelivery EXCEPT !.pc = "dispatched", !.ev = EventOf(d), !.tries = webhooks[d].tries + 1]]
  /\ UNCHANGED <<linear, records, chats, locks, guard, byIssue, lnMemory>>

\* ... or signals a terminal failure and answers the webhook with it.
GivesUp(d) ==
  /\ webhooks[d].pc = "thrown"
  /\ LET r == records[SessionOf(d)] IN
       IF r = NoRecord THEN UNCHANGED <<records, lnMemory>>
       ELSE Saves([r EXCEPT !.st = "errored", !.last = EventOf(d)])
  /\ Answers(d)
  /\ UNCHANGED <<linear, chats, locks, guard, byIssue>>

----------------------------------------------------------------------------
(* handleAgentSessionEvent.                                                *)

\* Nothing to do for an event its record names, and for the answer or the cancellation
\* of a session with no room.  A cancellation is recorded before the room is told; a
\* session that may be stale is first told that work resumes.
EventRead(d) ==
  /\ webhooks[d].pc = "dispatched"
  /\ LET r == records[SessionOf(d)]
         known == r.last = EventOf(d)
         homeless == r = NoRecord /\ ActionOf(d) \in {"prompted", "canceled"}
         read(pc) == webhooks' = [webhooks EXCEPT ![d].pc = pc, ![d].existing = r] IN
       \/ /\ known \/ homeless
          /\ Answers(d) /\ UNCHANGED <<records, lnMemory>>
       \/ /\ ~known /\ ~homeless /\ ActionOf(d) = "canceled"
          /\ Saves([r EXCEPT !.st = "canceled", !.last = EventOf(d)])
          /\ read("telling")
       \/ /\ ~known /\ ~homeless /\ ActionOf(d) = "prompted"
          /\ \E pc \in {"telling", "resuming"} : read(pc)
          /\ UNCHANGED <<records, lnMemory>>
       \/ /\ ~known /\ ActionOf(d) \in {"created", "updated"}
          /\ \E pc \in {"resolving"} \cup {p \in {"resuming"} : ActionOf(d) = "updated" /\ r # NoRecord} : read(pc)
          /\ UNCHANGED <<records, lnMemory>>
  /\ UNCHANGED <<linear, chats, locks, guard, byIssue>>

\* sendRecoveryActivityIfStale: the record it read is written back, canceled though it
\* may be, or Linear refuses.
Resumed(d) ==
  /\ webhooks[d].pc = "resuming"
  /\ Saves(webhooks[d].existing) \/ UNCHANGED <<records, lnMemory>>
  /\ Awaits(d, IF ActionOf(d) = "prompted" THEN "telling" ELSE "resolving")
  /\ UNCHANGED <<linear, chats, locks, guard, byIssue>>

Posted(e) == [lnMemory EXCEPT !.posts[e] = IF @ < 2 THEN @ + 1 ELSE @]

\* The user's answer or the cancellation reaches the room, or Band refuses it.
RoomTold(d) ==
  /\ webhooks[d].pc = "telling"
  /\ lnMemory' = Posted(EventOf(d))
  /\ IF ActionOf(d) = "prompted" THEN Awaits(d, "told") ELSE Answers(d)
  /\ UNCHANGED <<linear, records, chats, locks, guard, byIssue>>
TellingFails(d) ==
  /\ webhooks[d].pc = "telling"
  /\ Throws(d)
  /\ UNCHANGED <<linear, records, chats, locks, guard, byIssue, lnMemory>>

AnswerSaved(d) ==
  /\ webhooks[d].pc = "told"
  /\ Saves([webhooks[d].existing EXCEPT !.st = "waiting", !.last = EventOf(d)])
  /\ Answers(d)
  /\ UNCHANGED <<linear, chats, locks, guard, byIssue>>

----------------------------------------------------------------------------
(* The room of a created or updated session (resolveRoomRecord).           *)

\* Broken variant: the lock is let go with the room made, its record not saved yet.
LockedUntilMade(s) == \E d \in Deliveries : d = locks[Scope(s)] /\ webhooks[d].pc = "creating"
Locked(s) == locks[Scope(s)] # 0

\* The session's own record, else a live one of its issue, else a new room.  Who finds
\* the scope's creation under way gets what that creation gets.
RoomSought(d) ==
  /\ webhooks[d].pc = "resolving"
  /\ LET s == SessionOf(d)
         ofIssue == {r \in {records[o] : o \in Sessions} : byIssue /\ Live(r)}
         resolves(r) == webhooks' = [webhooks EXCEPT ![d].pc = "resolved", ![d].existing = NoRecord, ![d].rec = r] IN
       \/ /\ Locked(s)
          /\ Awaits(d, "sharing") /\ UNCHANGED <<records, locks, lnMemory>>
       \/ /\ ~Locked(s) /\ Live(records[s])
          /\ resolves(records[s]) /\ UNCHANGED <<records, locks, lnMemory>>
       \/ /\ ~Locked(s) /\ ~Live(records[s])
          /\ \E r \in ofIssue :
               LET linked == [of |-> s, st |-> "active", room |-> r.room, last |-> records[s].last] IN
                 resolves(linked) /\ Saves(linked)
          /\ UNCHANGED locks
       \/ /\ ~Locked(s) /\ ~Live(records[s]) /\ ofIssue = {}
          /\ Awaits(d, "creating") /\ locks' = [locks EXCEPT ![Scope(s)] = d]
          /\ UNCHANGED <<records, lnMemory>>
  /\ UNCHANGED <<linear, chats, guard, byIssue>>

NewRecord(s) == [of |-> s, st |-> "active", room |-> Len(chats) + 1, last |-> 0]
Sharers(d) == {b \in Deliveries : b = d \/ (webhooks[b].pc = "sharing" /\ Scope(SessionOf(b)) = Scope(SessionOf(d)))}
Unlocked(d) == [locks EXCEPT ![Scope(SessionOf(d))] = 0]

\* The rooms Band made for these deliveries that no record names yet.
Unrecorded(D) == {webhooks[d].fresh.room : d \in {b \in D : webhooks[b].pc = "created"}}

\* Band makes the room; the lock is held until its record is saved.
BandMakesRoom(d) ==
  /\ webhooks[d].pc = "creating" /\ Len(chats) < MaxChats
  /\ webhooks' = [webhooks EXCEPT ![d].pc = "created", ![d].fresh = NewRecord(SessionOf(d))]
  /\ chats' = Append(chats, SessionOf(d))
  /\ UNCHANGED <<linear, records, locks, guard, byIssue, lnMemory>>

RoomCreated(d) ==
  /\ webhooks[d].pc = "created"
  /\ Saves(webhooks[d].fresh)
  /\ webhooks' = [b \in Deliveries |->
       IF b \in Sharers(d)
       THEN [webhooks[b] EXCEPT !.pc = "resolved", !.existing = NoRecord, !.rec = webhooks[d].fresh, !.fresh = NoRecord]
       ELSE webhooks[b]]
  /\ locks' = Unlocked(d)
  /\ UNCHANGED <<linear, chats, guard, byIssue>>

\* Band refuses the room, or its answer is lost with the room made.
CreationFails(d) ==
  /\ webhooks[d].pc \in {"creating", "created"}
  /\ webhooks' = [b \in Deliveries |->
       IF b \in Sharers(d) THEN [webhooks[b] EXCEPT !.pc = "reporting"] ELSE webhooks[b]]
  /\ locks' = Unlocked(d) /\ lnMemory' = [lnMemory EXCEPT !.aside = @ \cup Unrecorded({d})]
  /\ UNCHANGED <<linear, records, chats, guard, byIssue>>

----------------------------------------------------------------------------
(* Forwarding the message, and how the event ends.                         *)

\* Band knows the room no more (403, 404): a new one takes its place, and is then recorded.
RoomRecreated(d) ==
  /\ webhooks[d].pc = "resolved" /\ webhooks[d].fresh = NoRecord /\ Len(chats) < MaxChats
  /\ LET r == NewRecord(SessionOf(d)) IN
       /\ webhooks' = [webhooks EXCEPT ![d].pc = "recreated", ![d].fresh = r]
       /\ lnMemory' = [lnMemory EXCEPT !.aside = @ \cup {r.room}]
  /\ chats' = Append(chats, SessionOf(d))
  /\ UNCHANGED <<linear, records, locks, guard, byIssue>>
RecreatedSaved(d) ==
  /\ webhooks[d].pc = "recreated"
  /\ Saves(webhooks[d].fresh) /\ Awaits(d, "resolved")
  /\ UNCHANGED <<linear, chats, locks, guard, byIssue>>

MessageForwarded(d) ==
  /\ webhooks[d].pc = "resolved"
  /\ webhooks' = [webhooks EXCEPT ![d].pc = "forwarded",
       ![d].rec = IF webhooks[d].fresh = NoRecord THEN @ ELSE webhooks[d].fresh, ![d].fresh = NoRecord]
  /\ lnMemory' = Posted(EventOf(d))
  /\ UNCHANGED <<linear, records, chats, locks, guard, byIssue>>

EventSaved(d) ==
  /\ webhooks[d].pc = "forwarded"
  /\ LET r == [webhooks[d].rec EXCEPT !.st = "active", !.last = EventOf(d)] IN
       Upsert(r) /\ lnMemory' = [Kept(r) EXCEPT !.handled = @ \cup {EventOf(d)}]
  /\ Answers(d)
  /\ UNCHANGED <<linear, chats, locks, guard, byIssue>>

\* The host's handle, the participants, the room (or its answer) or the message fails.
ForwardFails(d) ==
  /\ webhooks[d].pc \in {"resolving", "resolved", "recreated"}
  /\ Awaits(d, "reporting")
  /\ UNCHANGED <<linear, records, chats, locks, guard, byIssue, lnMemory>>

\* Linear is told, and the record that was to be used is marked.
FailureSaved(d) ==
  /\ webhooks[d].pc = "reporting"
  /\ LET r == IF webhooks[d].rec # NoRecord THEN webhooks[d].rec ELSE webhooks[d].existing IN
       IF r = NoRecord THEN UNCHANGED <<records, lnMemory>>
       ELSE Saves([r EXCEPT !.st = "errored", !.last = EventOf(d)])
  /\ Throws(d)
  /\ UNCHANGED <<linear, chats, locks, guard, byIssue>>

----------------------------------------------------------------------------
(* The agent's own writes, the stale-session guard, a restart.             *)

Upset == lnMemory.upsets < MaxUpsets
Upsetting(m) == [m EXCEPT !.upsets = @ + 1]

\* completeLinearSession
SessionCompletes(s) ==
  /\ records[s] # NoRecord /\ Upset
  /\ LET done == [records[s] EXCEPT !.st = "completed"] IN Upsert(done) /\ lnMemory' = Upsetting(Kept(done))
  /\ UNCHANGED <<linear, webhooks, chats, locks, guard, byIssue>>

\* tick: the sessions at work are listed once, and each record is written back when
\* Linear has taken its keepalive.
GuardTicks ==
  /\ Upset /\ \A s \in Sessions : guard[s] = NoRecord
  /\ \E s \in Sessions : records[s].st \in {"active", "waiting"}
  /\ guard' = [s \in Sessions |-> IF records[s].st \in {"active", "waiting"} THEN records[s] ELSE NoRecord]
  /\ lnMemory' = Upsetting(lnMemory)
  /\ UNCHANGED <<linear, records, webhooks, chats, locks, byIssue>>
GuardKeeps(s) ==
  /\ guard[s] # NoRecord
  /\ Saves(guard[s]) \/ UNCHANGED <<records, lnMemory>>
  /\ guard' = [guard EXCEPT ![s] = NoRecord]
  /\ UNCHANGED <<linear, webhooks, chats, locks, byIssue>>

\* The records survive.  A message forwarded and not recorded is not known of, nor is a
\* room made and not recorded.
BridgeRestarts ==
  /\ Upset
  /\ webhooks' = [d \in Deliveries |-> NoDelivery]
  /\ locks' = [x \in Scopes |-> 0] /\ guard' = [s \in Sessions |-> NoRecord]
  /\ lnMemory' = [Upsetting(lnMemory) EXCEPT !.aside = @ \cup Unrecorded(Deliveries), !.excused = @ \cup
       {EventOf(d) : d \in {b \in Deliveries : webhooks[b].pc \in {"told", "forwarded"}}}]
  /\ UNCHANGED <<linear, records, chats, byIssue>>

DeliveryMoves(d) ==
  \/ \E e \in LinearEvents : WebhookArrives(d, e)
  \/ Retries(d) \/ GivesUp(d) \/ EventRead(d) \/ Resumed(d)
  \/ RoomTold(d) \/ TellingFails(d) \/ AnswerSaved(d)
  \/ RoomSought(d) \/ BandMakesRoom(d) \/ RoomCreated(d) \/ CreationFails(d)
  \/ RoomRecreated(d) \/ RecreatedSaved(d)
  \/ MessageForwarded(d) \/ EventSaved(d) \/ ForwardFails(d) \/ FailureSaved(d)

LinearNext ==
  \/ \E d \in Deliveries : DeliveryMoves(d)
  \/ \E s \in Sessions : SessionCompletes(s) \/ GuardKeeps(s)
  \/ GuardTicks \/ BridgeRestarts

LinearSpec == LinearInit /\ [][LinearNext]_linearVars

----------------------------------------------------------------------------
(* What must hold.                                                         *)

\* The rooms created for a scope, but for those set aside: one that replaces a room Band
\* lost, and one Band made whose answer a restart or an error took before its record was
\* saved (handler.ts:1031-1042), which no redelivery can know of.
RoomsOf(x) == {c \in DOMAIN chats : Scope(chats[c]) = x /\ c \notin lnMemory.aside}

\* "roomStrategy: issue keeps one Band room per Linear issue" (linear-band/README.md:118),
\* session one per session: a second room takes the place of one that Band lost or
\* whose making the bridge never heard of, or follows a record's cancellation, by its
\* user or by an old copy of it written back over a newer one.  However else deliveries,
\* failures and restarts overlap, there is one: the lock is held until the record is saved.
RoomsAreNotDoubled ==
  \A x \in {Scope(s) : s \in Sessions} : Cardinality(RoomsOf(x)) <= 1 + lnMemory.cancels[x]

\* An event delivered again, beside its first delivery or after it, reaches the room
\* once: the set of events in flight and the record's last event hand over with no gap.
\* Not so of an event its record does not name any more, or never did (`excused`).
ForwardedOnce == \A e \in LinearEvents : lnMemory.posts[e] > 1 => e \in lnMemory.excused

\* A session whose event was handled has a record of its own, which its user's answers
\* are forwarded by (linear-bridge-room-strategy.test.ts:348).
HandledSessionsAreFiled ==
  \A e \in lnMemory.handled : records[linear[e].session] # NoRecord
=============================================================================
