---------------------------- MODULE AnswerProofs ----------------------------
(***************************************************************************)
(* Who is told what, once and by the right one, in the bridges of the SDK. *)
(*                                                                         *)
(* No event of Linear reaches its room twice, for any number of sessions,  *)
(* events, deliveries, rooms, retries and restarts.  The argument follows  *)
(* one event: no two deliveries of it are handled at a time (OneAtATime),  *)
(* one that has not posted it yet has the right to, for nobody has         *)
(* (DeliveryInv), and once it is posted either its delivery is still about *)
(* to record it or the session's record names it (PostedInv), which keeps  *)
(* its redeliveries out.  What makes a record forget an event is           *)
(* `excused`, with the record, in the same step.  And nobody gets a second *)
(* room for nothing: rooms are made, and their records saved, under the    *)
(* lock of their scope (LocksInv), where no record is live, so that there  *)
(* is at most one per record canceled and none on file yet for the next    *)
(* one (RoomsInv); the one made and not yet on file is the one that the    *)
(* lock's holder is about to save (MadeInv).                               *)
(*                                                                         *)
(* Then the inductive invariants of five services that answer or announce: *)
(* a remote task is held with the turn, the sender and the life it was     *)
(* opened in (TasksInv), and other senders' turns on it are known of       *)
(* (JoinedInv); what the gateway lists is pending, in its room and under   *)
(* its task (GatewayInv); what a room was told of a notification is what   *)
(* its webhook is past or what is remembered (NoticesInv); behind          *)
(* a remembered sender there are only rooms heard since (RepliesInv); and  *)
(* a hub's context has told, holds and keeps exactly what it is owed       *)
(* (ContactInv).  ServiceProofs puts them together.                        *)
(***************************************************************************)
EXTENDS A2ATasks, ContactHub, Gateway, LinearBridge, LinearHandOff, OpenClaw, FiniteSetTheorems, SequenceTheorems, TLAPS

Statuses == {"none", "active", "waiting", "errored", "canceled", "completed"}
Stages == {"none", "dispatched", "resuming", "telling", "told", "resolving", "sharing", "creating", "created",
           "recreated", "resolved", "forwarded", "reporting", "thrown"}
Record == [of : Sessions \cup {NoSession}, st : Statuses, room : Nat, last : LinearEvents \cup {0}]
Delivery == [pc : Stages, ev : LinearEvents \cup {0}, tries : Nat,
             existing : Record, rec : Record, fresh : Record]
Memory == [posts : [LinearEvents -> 0..2], excused : SUBSET LinearEvents,
           cancels : [Scopes -> Nat], aside : SUBSET Nat,
           handled : SUBSET LinearEvents, arrived : Nat, upsets : Nat]

TypeInv ==
  /\ linear \in [LinearEvents -> [session : Sessions, action : Actions]]
  /\ records \in [Sessions -> Record] /\ guard \in [Sessions -> Record]
  /\ webhooks \in [Deliveries -> Delivery]
  /\ chats \in Seq(Sessions)
  /\ lnMemory \in Memory

Sent(d) == webhooks[d].pc \in {"told", "forwarded"}
RecordNames(e) == records[linear[e].session].last = e

MayTell(e) ==
  \/ linear[e].action = "prompted"
  \/ linear[e].action = "canceled" /\ (e \in lnMemory.excused \/ RecordNames(e))

OneAtATime ==
  /\ \A d \in Deliveries : webhooks[d].ev = 0 => webhooks[d] = NoDelivery
  /\ \A d, b \in Deliveries : webhooks[d].ev = webhooks[b].ev /\ webhooks[d].ev # 0 => d = b

DeliveryInv ==
  \A d \in Deliveries : \A e \in LinearEvents :
    webhooks[d].ev = e =>
      /\ e \notin lnMemory.excused => lnMemory.posts[e] = IF Sent(d) THEN 1 ELSE 0
      /\ webhooks[d].pc = "telling" => MayTell(e)

PostedInv ==
  \A e \in LinearEvents : e \notin lnMemory.excused =>
    /\ lnMemory.posts[e] \in {0, 1}
    /\ lnMemory.posts[e] = 1 => RecordNames(e) \/ \E d \in Deliveries : webhooks[d].ev = e /\ Sent(d)

IndInv == TypeInv /\ OneAtATime /\ DeliveryInv /\ PostedInv

----------------------------------------------------------------------------
(* What a record that is written does to the events recorded.              *)

\* The step forgets no event but those it excuses.
FilesSafely ==
  /\ lnMemory.excused \subseteq lnMemory'.excused
  /\ \A e \in LinearEvents : e \notin lnMemory'.excused /\ RecordNames(e) => RecordNames(e)'

\* A record written over the one of its session forgets nothing but what Excuses names,
\* and records the event it carries or excuses it.
LEMMA SavesFile ==
  ASSUME TypeInv, NEW r \in Record, Upsert(r), linear' = linear,
         lnMemory'.excused = lnMemory.excused \cup Excuses(r)
  PROVE  /\ FilesSafely
         /\ r.last \in LinearEvents => r.last \in lnMemory'.excused \/ RecordNames(r.last)'
<1>1. \A e \in LinearEvents : linear[e].session \in Sessions
  BY DEF TypeInv
<1>2. ASSUME NEW e \in LinearEvents, e \notin lnMemory'.excused, RecordNames(e)
      PROVE  RecordNames(e)'
  <2>1. CASE r.of = linear[e].session
    <3>1. r.last = e
      BY <1>2, <2>1 DEF RecordNames, Excuses
    <3> QED BY <1>1, <2>1, <3>1 DEF RecordNames, Upsert, TypeInv
  <2>2. CASE r.of # linear[e].session
    BY <1>1, <1>2, <2>2 DEF RecordNames, Upsert, TypeInv
  <2> QED BY <2>1, <2>2
<1>3. ASSUME r.last \in LinearEvents, r.last \notin lnMemory'.excused
      PROVE  RecordNames(r.last)'
  <2>1. r.of = linear[r.last].session
    BY <1>3 DEF Excuses
  <2> QED BY <1>1, <1>3, <2>1 DEF RecordNames, Upsert, TypeInv
<1> QED BY <1>2, <1>3 DEF FilesSafely

\* As above, of the forms the actions use.
LEMMA KeptFiles ==
  ASSUME TypeInv, NEW r \in Record, Saves(r), linear' = linear
  PROVE  /\ FilesSafely /\ lnMemory'.posts = lnMemory.posts
         /\ r.last \in LinearEvents => r.last \in lnMemory'.excused \/ RecordNames(r.last)'
<1>1. lnMemory'.excused = lnMemory.excused \cup Excuses(r) /\ lnMemory'.posts = lnMemory.posts
  BY DEF Saves, Kept, TypeInv
<1> QED BY <1>1, SavesFile DEF Saves

----------------------------------------------------------------------------
(* The steps that post nothing.                                            *)

\* No delivery's event changes, nor whether it has been sent; who is about to tell the
\* room may.
Quiet ==
  /\ linear' = linear /\ lnMemory'.posts = lnMemory.posts /\ FilesSafely
  /\ \A d \in Deliveries :
       /\ webhooks'[d].ev = webhooks[d].ev
       /\ Sent(d)' <=> Sent(d)
       /\ webhooks'[d].ev = 0 => webhooks'[d] = NoDelivery
       /\ webhooks'[d].pc = "telling" => webhooks[d].pc = "telling" \/ MayTell(webhooks[d].ev)'

Followed == OneAtATime /\ DeliveryInv /\ PostedInv

\* Such a step keeps what is known of every event.
LEMMA QuietFollowed ==
  ASSUME TypeInv, Followed, Quiet
  PROVE  Followed'
<1>1. OneAtATime'
  BY DEF Followed, OneAtATime, Quiet
<1>2. DeliveryInv'
  <2>1. ASSUME NEW e \in LinearEvents, MayTell(e) PROVE MayTell(e)'
    BY <2>1 DEF MayTell, Quiet, FilesSafely
  <2>2. \A e \in LinearEvents : e \notin lnMemory'.excused => e \notin lnMemory.excused
    BY DEF Quiet, FilesSafely
  <2> QED BY <2>1, <2>2 DEF Followed, DeliveryInv, Quiet
<1>3. PostedInv'
  BY DEF Followed, PostedInv, Quiet, FilesSafely
<1> QED BY <1>1, <1>2, <1>3 DEF Followed

----------------------------------------------------------------------------
(* The steps that end a delivery, and those that post.                     *)

\* A delivery that has been sent is over once its event is recorded.
LEMMA AnsweredFollowed ==
  ASSUME TypeInv, Followed, NEW d \in Deliveries, NEW f \in LinearEvents, webhooks[d].ev = f,
         Answers(d), linear' = linear, lnMemory'.posts = lnMemory.posts, FilesSafely,
         Sent(d) => f \in lnMemory'.excused \/ RecordNames(f)'
  PROVE  Followed'
<1>1. /\ webhooks'[d] = NoDelivery /\ webhooks'[d].ev = 0
      /\ \A b \in Deliveries : b # d => webhooks'[b] = webhooks[b]
  BY DEF Answers, TypeInv, NoDelivery
<1>2. OneAtATime'
  BY <1>1 DEF Followed, OneAtATime
<1>3. \A e \in LinearEvents : e \notin lnMemory'.excused => e \notin lnMemory.excused
  BY DEF FilesSafely
<1>4. DeliveryInv'
  <2>1. ASSUME NEW e \in LinearEvents, MayTell(e) PROVE MayTell(e)'
    BY <2>1 DEF MayTell, FilesSafely
  <2>2. \A b \in Deliveries : b # d => (Sent(b)' <=> Sent(b))
    BY <1>1 DEF Sent
  <2>3. \A e \in LinearEvents : e # 0
    BY DEF LinearEvents
  <2> QED BY <1>1, <1>3, <2>1, <2>2, <2>3 DEF Followed, DeliveryInv
<1>5. PostedInv'
  <2> SUFFICES ASSUME NEW e \in LinearEvents, e \notin lnMemory'.excused, lnMemory.posts[e] = 1
               PROVE  RecordNames(e)' \/ \E b \in Deliveries : webhooks'[b].ev = e /\ Sent(b)'
    BY <1>3 DEF Followed, PostedInv
  <2>1. CASE RecordNames(e)
    BY <2>1 DEF FilesSafely
  <2>2. ASSUME NEW b \in Deliveries, webhooks[b].ev = e, Sent(b)
        PROVE  RecordNames(e)' \/ (webhooks'[b].ev = e /\ Sent(b)')
    <3>1. CASE b = d
      BY <2>2, <3>1
    <3>2. CASE b # d
      BY <1>1, <2>2, <3>2 DEF Sent
    <3> QED BY <3>1, <3>2
  <2> QED BY <1>3, <2>1, <2>2 DEF Followed, PostedInv
<1> QED BY <1>2, <1>4, <1>5 DEF Followed

\* A delivery that posts its event is the first one to, and goes on to record it or has done so.
LEMMA PostedFollowed ==
  ASSUME TypeInv, Followed, NEW d \in Deliveries, NEW f \in LinearEvents, webhooks[d].ev = f, ~Sent(d),
         linear' = linear, records' = records, lnMemory' = Posted(f),
         \A b \in Deliveries : b # d => webhooks'[b] = webhooks[b],
         \/ webhooks'[d].ev = f /\ Sent(d)'
         \/ webhooks'[d] = NoDelivery /\ (f \in lnMemory.excused \/ RecordNames(f))
  PROVE  Followed'
<1>1. /\ lnMemory'.excused = lnMemory.excused
      /\ \A e \in LinearEvents : e # f => lnMemory'.posts[e] = lnMemory.posts[e]
      /\ f \notin lnMemory.excused => lnMemory'.posts[f] = 1
  BY DEF TypeInv, Memory, Posted, Followed, DeliveryInv
<1>2. \A e \in LinearEvents : (MayTell(e)' <=> MayTell(e)) /\ (RecordNames(e)' <=> RecordNames(e)) /\ e # 0
  BY <1>1 DEF MayTell, RecordNames, LinearEvents
<1>3. NoDelivery.ev = 0 /\ NoDelivery.pc = "none"
  BY DEF NoDelivery
<1>4. OneAtATime'
  BY <1>2, <1>3 DEF Followed, OneAtATime
<1>5. \A b \in Deliveries : b # d => webhooks[b].ev # f /\ (Sent(b)' <=> Sent(b))
  BY <1>2 DEF Followed, OneAtATime, Sent
<1>6. DeliveryInv'
  <2>1. ASSUME NEW b \in Deliveries, b # d, NEW e \in LinearEvents, webhooks'[b].ev = e
        PROVE  /\ e \notin lnMemory'.excused => lnMemory'.posts[e] = IF Sent(b)' THEN 1 ELSE 0
               /\ webhooks'[b].pc = "telling" => MayTell(e)'
    BY <1>1, <1>2, <1>5, <2>1 DEF Followed, DeliveryInv
  <2>2. ASSUME NEW e \in LinearEvents, webhooks'[d].ev = e
        PROVE  /\ e \notin lnMemory'.excused => lnMemory'.posts[e] = IF Sent(d)' THEN 1 ELSE 0
               /\ webhooks'[d].pc = "telling" => MayTell(e)'
    BY <1>1, <1>2, <1>3, <2>2 DEF Sent
  <2> QED BY <2>1, <2>2 DEF DeliveryInv
<1>7. PostedInv'
  <2>1. ASSUME NEW e \in LinearEvents, e # f, e \notin lnMemory'.excused
        PROVE  /\ lnMemory'.posts[e] \in {0, 1}
               /\ lnMemory'.posts[e] = 1 =>
                    RecordNames(e)' \/ \E b \in Deliveries : webhooks'[b].ev = e /\ Sent(b)'
    <3>1. \A b \in Deliveries : webhooks[b].ev = e => b # d
      BY <2>1
    <3> QED BY <1>1, <1>2, <1>5, <2>1, <3>1 DEF Followed, PostedInv
  <2>2. f \notin lnMemory'.excused =>
          RecordNames(f)' \/ (webhooks'[d].ev = f /\ Sent(d)')
    BY <1>1, <1>2
  <2>3. ASSUME NEW e \in LinearEvents, e \notin lnMemory'.excused
        PROVE  /\ lnMemory'.posts[e] \in {0, 1}
               /\ lnMemory'.posts[e] = 1 =>
                    RecordNames(e)' \/ \E b \in Deliveries : webhooks'[b].ev = e /\ Sent(b)'
    <3>1. CASE e = f
      BY <1>1, <2>2, <2>3, <3>1
    <3>2. CASE e # f
      BY <2>1, <2>3, <3>2
    <3> QED BY <3>1, <3>2
  <2>4. \A b \in Deliveries : (webhooks[b].ev)' = webhooks'[b].ev
    OBVIOUS
  <2> QED BY <2>3, <2>4 DEF PostedInv
<1> QED BY <1>4, <1>6, <1>7 DEF Followed

----------------------------------------------------------------------------
(* Type correctness.                                                       *)

\* No record and no delivery are values of their types.
LEMMA Zero == /\ NoRecord \in Record /\ NoDelivery \in Delivery
              /\ NoDelivery.ev = 0 /\ NoDelivery.pc = "none" /\ NoRecord.last = 0
<1>1. NoRecord \in Record /\ NoRecord.last = 0
  BY DEF NoRecord, Record, NoChat, Statuses
<1>2. NoDelivery \in Delivery /\ NoDelivery.ev = 0 /\ NoDelivery.pc = "none"
  BY <1>1 DEF NoDelivery, Delivery, Stages
<1> QED BY <1>1, <1>2

\* What the delivery of an event works with.
LEMMA EventsTyped ==
  ASSUME TypeInv, OneAtATime, NEW d \in Deliveries, webhooks[d].pc # "none"
  PROVE  /\ webhooks[d] \in Delivery
         /\ EventOf(d) \in LinearEvents /\ SessionOf(d) \in Sessions /\ ActionOf(d) \in Actions
         /\ records[SessionOf(d)] \in Record
<1>1. webhooks[d] \in Delivery /\ webhooks[d].ev \in LinearEvents
  BY Zero DEF TypeInv, OneAtATime, Delivery
<1> QED BY <1>1 DEF TypeInv, EventOf, SessionOf, ActionOf

\* A record whose status and last event are set is one.
LEMMA RecordsTyped ==
  /\ \A r \in Record : \A st \in Statuses : [r EXCEPT !.st = st] \in Record
  /\ \A r \in Record : \A st \in Statuses : \A e \in LinearEvents :
       LET m == [r EXCEPT !.st = st, !.last = e] IN m \in Record /\ m.last = e
  /\ {"none", "active", "waiting", "errored", "canceled", "completed"} \subseteq Statuses
  BY DEF Record, Statuses

\* Stages that a delivery goes through, and what it takes with it.
LEMMA DeliveriesTyped ==
  \A w \in Delivery : \A pc \in Stages :
    /\ [w EXCEPT !.pc = pc] \in Delivery
    /\ \A r \in Record : [w EXCEPT !.pc = pc, !.existing = r] \in Delivery
    /\ \A r \in Record : [w EXCEPT !.pc = pc, !.fresh = r] \in Delivery
    /\ \A r \in Record : \A q \in Record :
         /\ [w EXCEPT !.pc = pc, !.existing = q, !.rec = r] \in Delivery
         /\ [w EXCEPT !.pc = pc, !.existing = q, !.rec = r, !.fresh = q] \in Delivery
<1> SUFFICES ASSUME NEW w \in Delivery, NEW pc \in Stages
             PROVE  /\ [w EXCEPT !.pc = pc] \in Delivery
                    /\ \A r \in Record : [w EXCEPT !.pc = pc, !.existing = r] \in Delivery
                    /\ \A r \in Record : [w EXCEPT !.pc = pc, !.fresh = r] \in Delivery
                    /\ \A r \in Record : \A q \in Record :
                         /\ [w EXCEPT !.pc = pc, !.existing = q, !.rec = r] \in Delivery
                         /\ [w EXCEPT !.pc = pc, !.existing = q, !.rec = r, !.fresh = q] \in Delivery
  OBVIOUS
<1>1. [w EXCEPT !.pc = pc] \in Delivery
  BY DEF Delivery
<1>2. ASSUME NEW r \in Record
      PROVE  [w EXCEPT !.pc = pc, !.existing = r] \in Delivery /\ [w EXCEPT !.pc = pc, !.fresh = r] \in Delivery
  BY DEF Delivery
<1>3. ASSUME NEW r \in Record, NEW q \in Record
      PROVE  /\ [w EXCEPT !.pc = pc, !.existing = q, !.rec = r] \in Delivery
             /\ [w EXCEPT !.pc = pc, !.existing = q, !.rec = r, !.fresh = q] \in Delivery
  <2>1. [w EXCEPT !.pc = pc, !.existing = q, !.rec = r] \in Delivery
    BY DEF Delivery
  <2>2. [w EXCEPT !.pc = pc, !.existing = q, !.rec = r, !.fresh = q] \in Delivery
    BY DEF Delivery
  <2> QED BY <2>1, <2>2
<1> QED BY <1>1, <1>2, <1>3

\* A record written keeps the types.
LEMMA SavesTyped ==
  ASSUME TypeInv, NEW r \in Record, Upsert(r)
  PROVE  /\ records' \in [Sessions -> Record] /\ Kept(r) \in Memory
         /\ Kept(r).posts = lnMemory.posts /\ Kept(r).excused = lnMemory.excused \cup Excuses(r)
         /\ Kept(r).aside = lnMemory.aside /\ Kept(r).cancels = Canceled(r)
<1>1. records' \in [Sessions -> Record] /\ lnMemory.excused \cup Excuses(r) \subseteq LinearEvents
  BY DEF TypeInv, Memory, Upsert, Excuses
<1>2. Canceled(r) \in [Scopes -> Nat]
  <2>1. \A x \in Scopes : \A n \in {0, 1} : lnMemory.cancels[x] + n \in Nat
    BY DEF TypeInv, Memory
  <2> QED BY <2>1 DEF Canceled
<1>3. PICK g \in SUBSET LinearEvents : g = lnMemory.excused \cup Excuses(r)
  BY <1>1
<1>4. PICK c \in [Scopes -> Nat] : c = Canceled(r)
  BY <1>2
<1>5. PICK m : m = [lnMemory EXCEPT !.excused = g, !.cancels = c]
  OBVIOUS
<1>6. /\ m \in Memory /\ m.posts = lnMemory.posts /\ m.excused = g
      /\ m.aside = lnMemory.aside /\ m.cancels = c
  BY <1>5 DEF TypeInv, Memory
<1>7. Kept(r) = m
  BY <1>3, <1>4, <1>5 DEF Kept
<1> QED BY <1>1, <1>3, <1>4, <1>6, <1>7

\* Counting what happens keeps the memory a memory.
LEMMA MarksTyped ==
  ASSUME TypeInv
  PROVE  /\ [lnMemory EXCEPT !.arrived = @ + 1] \in Memory
         /\ [lnMemory EXCEPT !.upsets = @ + 1] \in Memory
<1>1. lnMemory \in Memory /\ lnMemory.arrived + 1 \in Nat /\ lnMemory.upsets + 1 \in Nat
  BY DEF TypeInv, Memory
<1>2. \A m \in Memory : \A n \in Nat :
        [m EXCEPT !.arrived = n] \in Memory /\ [m EXCEPT !.upsets = n] \in Memory
  BY DEF Memory
<1> QED BY <1>1, <1>2

\* So does setting rooms aside, those no record names yet among them.
LEMMA AsideTyped ==
  ASSUME TypeInv
  PROVE  /\ \A D \in SUBSET Deliveries : Unrecorded(D) \subseteq Nat
         /\ \A R \in SUBSET Nat : LET m == [lnMemory EXCEPT !.aside = @ \cup R] IN
              /\ m \in Memory /\ m.aside = lnMemory.aside \cup R /\ m.posts = lnMemory.posts
              /\ m.excused = lnMemory.excused /\ m.cancels = lnMemory.cancels
<1>1. ASSUME NEW D \in SUBSET Deliveries PROVE Unrecorded(D) \subseteq Nat
  <2>1. \A d \in D : webhooks[d].fresh.room \in Nat
    BY DEF TypeInv, Delivery, Record
  <2> QED BY <2>1 DEF Unrecorded
<1>2. lnMemory \in Memory
  BY DEF TypeInv
<1> QED BY <1>1, <1>2 DEF Memory

\* So does excusing what a record written forgets.
LEMMA MemoryTyped ==
  ASSUME TypeInv, NEW r \in Record, Saves(r)
  PROVE  records' \in [Sessions -> Record] /\ lnMemory' \in Memory
  BY SavesTyped DEF Saves

\* The types hold at first.
LEMMA InitTyped == LinearInit => TypeInv
<1> SUFFICES ASSUME LinearInit PROVE TypeInv
  OBVIOUS
<1>1. records \in [Sessions -> Record] /\ guard \in [Sessions -> Record]
  BY Zero DEF LinearInit
<1>2. webhooks \in [Deliveries -> Delivery] /\ chats \in Seq(Sessions)
  BY Zero DEF LinearInit
<1>3. lnMemory \in Memory
  BY DEF LinearInit, Memory
<1> QED BY <1>1, <1>2, <1>3 DEF TypeInv, LinearInit

\* The webhook handler's steps keep the types.
LEMMA HandlerTyped ==
  ASSUME TypeInv, OneAtATime, NEW d \in Deliveries,
         (\E e \in LinearEvents : WebhookArrives(d, e)) \/ Retries(d) \/ GivesUp(d)
  PROVE  TypeInv'
<1> USE DEF EventOf
<1>0. /\ webhooks[d] \in Delivery /\ webhooks[d].ev \in LinearEvents \cup {0} /\ webhooks[d].tries + 1 \in Nat
      /\ {"dispatched"} \subseteq Stages
  BY DEF TypeInv, Delivery, Stages
<1>1. ASSUME NEW e \in LinearEvents, WebhookArrives(d, e) PROVE TypeInv'
  <2>1. [webhooks[d] EXCEPT !.ev = e, !.pc = "dispatched"] \in Delivery
    BY <1>0 DEF Delivery
  <2>2. webhooks' \in [Deliveries -> Delivery]
    BY <1>1, <2>1 DEF TypeInv, WebhookArrives
  <2>3. lnMemory' = [lnMemory EXCEPT !.arrived = @ + 1]
    BY <1>1 DEF WebhookArrives
  <2>4. lnMemory' \in Memory
    BY <2>3, MarksTyped
  <2> QED BY <1>1, <2>2, <2>4 DEF TypeInv, WebhookArrives
<1>2. CASE Retries(d)
  <2>1. [NoDelivery EXCEPT !.pc = "dispatched", !.ev = EventOf(d), !.tries = webhooks[d].tries + 1] \in Delivery
    BY <1>0, Zero DEF Delivery
  <2> QED BY <1>2, <2>1 DEF TypeInv, Retries
<1>3. CASE GivesUp(d)
  <2>1. webhooks' \in [Deliveries -> Delivery]
    BY <1>3, Zero DEF TypeInv, GivesUp, Answers
  <2>2. CASE UNCHANGED <<records, lnMemory>>
    BY <1>3, <2>1, <2>2 DEF TypeInv, GivesUp
  <2>3. CASE Saves([records[SessionOf(d)] EXCEPT !.st = "errored", !.last = EventOf(d)])
    <3>1. [records[SessionOf(d)] EXCEPT !.st = "errored", !.last = EventOf(d)] \in Record
      BY <1>3, EventsTyped, RecordsTyped DEF GivesUp
    <3> QED BY <1>3, <2>1, <2>3, <3>1, MemoryTyped DEF TypeInv, GivesUp
  <2> QED BY <1>3, <2>2, <2>3 DEF GivesUp
<1> QED BY <1>1, <1>2, <1>3

\* The steps of an event that read, tell and record.
LEMMA ToldTyped ==
  ASSUME TypeInv, OneAtATime, NEW d \in Deliveries,
         \/ EventRead(d) \/ Resumed(d) \/ RoomTold(d) \/ TellingFails(d) \/ AnswerSaved(d)
         \/ MessageForwarded(d) \/ EventSaved(d) \/ ForwardFails(d) \/ FailureSaved(d)
  PROVE  TypeInv'
<1>0. webhooks[d].pc # "none"
  BY DEF EventRead, Resumed, RoomTold, TellingFails, AnswerSaved, MessageForwarded, EventSaved,
         ForwardFails, FailureSaved
<1>1. /\ webhooks[d] \in Delivery /\ EventOf(d) \in LinearEvents /\ SessionOf(d) \in Sessions
      /\ records[SessionOf(d)] \in Record
      /\ webhooks[d].existing \in Record /\ webhooks[d].rec \in Record /\ webhooks[d].fresh \in Record
      /\ webhooks[d].tries \in Nat
  BY <1>0, EventsTyped DEF Delivery
<1>2. ASSUME NEW pc \in Stages, Awaits(d, pc) PROVE webhooks' \in [Deliveries -> Delivery]
  BY <1>1, <1>2, DeliveriesTyped DEF Awaits, TypeInv
<1>3. Answers(d) => webhooks' \in [Deliveries -> Delivery]
  BY Zero DEF Answers, TypeInv
<1>4. Throws(d) => webhooks' \in [Deliveries -> Delivery]
  <2>1. [NoDelivery EXCEPT !.pc = "thrown", !.ev = EventOf(d), !.tries = webhooks[d].tries] \in Delivery
    BY <1>1, Zero DEF Delivery, Stages
  <2> QED BY <2>1 DEF Throws, TypeInv
<1>5. ASSUME NEW r \in Record, Saves(r) \/ UNCHANGED <<records, lnMemory>>
      PROVE  records' \in [Sessions -> Record] /\ lnMemory' \in Memory
  BY <1>5, MemoryTyped DEF TypeInv
<1>6. lnMemory' = Posted(EventOf(d)) => lnMemory' \in Memory
  <2>1. \A n \in 0..2 : (IF n < 2 THEN n + 1 ELSE n) \in 0..2
    OBVIOUS
  <2>2. lnMemory.posts[EventOf(d)] \in 0..2 /\ lnMemory \in Memory
    BY <1>1 DEF TypeInv, Memory
  <2>3. \A n \in 0..2 : [lnMemory EXCEPT !.posts[EventOf(d)] = n] \in Memory
    BY <1>1, <2>2 DEF Memory
  <2> QED BY <2>1, <2>2, <2>3 DEF Posted
<1>7. {"telling", "told", "resuming", "resolving", "forwarded", "reporting"} \subseteq Stages
  BY DEF Stages
<1>8. CASE EventRead(d)
  <2> DEFINE r == records[SessionOf(d)]
             gone == [r EXCEPT !.st = "canceled", !.last = EventOf(d)]
             read(pc) == webhooks' = [webhooks EXCEPT ![d].pc = pc, ![d].existing = r]
  <2>1. ASSUME NEW pc \in Stages, read(pc) PROVE webhooks' \in [Deliveries -> Delivery]
    <3>1. webhooks' = [webhooks EXCEPT ![d] = [webhooks[d] EXCEPT !.pc = pc, !.existing = r]]
      BY <2>1 DEF TypeInv
    <3> QED BY <1>1, <3>1, DeliveriesTyped DEF TypeInv
  <2>2. gone \in Record
    BY <1>1, RecordsTyped
  <2>3. CASE Answers(d) /\ UNCHANGED <<records, lnMemory>>
    BY <1>3, <1>8, <2>3 DEF TypeInv, EventRead
  <2>4. CASE Saves(gone) /\ read("telling")
    <3>1. records' \in [Sessions -> Record] /\ lnMemory' \in Memory
      BY <2>2, <2>4, MemoryTyped
    <3> QED BY <1>7, <1>8, <2>1, <2>4, <3>1 DEF TypeInv, EventRead
  <2>5. CASE (\E pc \in {"telling", "resuming", "resolving"} : read(pc)) /\ UNCHANGED <<records, lnMemory>>
    <3>1. webhooks' \in [Deliveries -> Delivery]
      BY <1>7, <2>1, <2>5
    <3>2. UNCHANGED <<linear, records, chats, guard, lnMemory>>
      BY <1>8, <2>5 DEF EventRead
    <3> QED BY <3>1, <3>2 DEF TypeInv
  <2> QED BY <1>8, <2>3, <2>4, <2>5 DEF EventRead
<1>9. CASE Resumed(d)
  BY <1>1, <1>2, <1>5, <1>7, <1>9 DEF TypeInv, Resumed
<1>10. CASE RoomTold(d)
  BY <1>2, <1>3, <1>6, <1>7, <1>10 DEF TypeInv, RoomTold
<1>11. CASE TellingFails(d)
  BY <1>4, <1>11 DEF TypeInv, TellingFails
<1>12. CASE AnswerSaved(d)
  <2>1. [webhooks[d].existing EXCEPT !.st = "waiting", !.last = EventOf(d)] \in Record
    BY <1>1, RecordsTyped
  <2> QED BY <1>3, <1>5, <1>12, <2>1 DEF TypeInv, AnswerSaved
<1>13. CASE MessageForwarded(d)
  <2>1. webhooks' \in [Deliveries -> Delivery]
    <3> DEFINE w == [webhooks[d] EXCEPT !.pc = "forwarded",
                      !.rec = IF webhooks[d].fresh = NoRecord THEN @ ELSE webhooks[d].fresh, !.fresh = NoRecord]
    <3>1. w \in Delivery
      BY <1>1, <1>7, Zero DEF Delivery
    <3>2. webhooks' = [webhooks EXCEPT ![d] = w]
      BY <1>13 DEF MessageForwarded, TypeInv
    <3> QED BY <3>1, <3>2 DEF TypeInv
  <2> QED BY <1>6, <1>13, <2>1 DEF TypeInv, MessageForwarded
<1>14. CASE EventSaved(d)
  <2> DEFINE r == [webhooks[d].rec EXCEPT !.st = "active", !.last = EventOf(d)]
  <2>1. r \in Record
    BY <1>1, RecordsTyped
  <2>2. records' \in [Sessions -> Record] /\ Kept(r) \in Memory
    BY <1>14, <2>1, SavesTyped DEF EventSaved
  <2>3. lnMemory' = [Kept(r) EXCEPT !.handled = @ \cup {EventOf(d)}]
    BY <1>14 DEF EventSaved
  <2>4. lnMemory' \in Memory
    BY <1>1, <2>2, <2>3 DEF Memory
  <2> QED BY <1>3, <1>14, <2>2, <2>4 DEF TypeInv, EventSaved
<1>15. CASE ForwardFails(d)
  BY <1>2, <1>7, <1>15 DEF TypeInv, ForwardFails
<1>16. CASE FailureSaved(d)
  <2> DEFINE r == IF webhooks[d].rec # NoRecord THEN webhooks[d].rec ELSE webhooks[d].existing
  <2>1. [r EXCEPT !.st = "errored", !.last = EventOf(d)] \in Record
    BY <1>1, RecordsTyped
  <2> QED BY <1>4, <1>5, <1>16, <2>1 DEF TypeInv, FailureSaved
<1> QED BY <1>8, <1>9, <1>10, <1>11, <1>12, <1>13, <1>14, <1>15, <1>16

\* The steps that look for an event's room, and create it.
LEMMA RoomsTyped ==
  ASSUME TypeInv, OneAtATime, NEW d \in Deliveries,
         \/ RoomSought(d) \/ BandMakesRoom(d) \/ RoomCreated(d) \/ CreationFails(d)
         \/ RoomRecreated(d) \/ RecreatedSaved(d)
  PROVE  TypeInv'
<1>0. webhooks[d].pc # "none"
  BY DEF RoomSought, BandMakesRoom, RoomCreated, CreationFails, RoomRecreated, RecreatedSaved
<1>1. /\ webhooks[d] \in Delivery /\ EventOf(d) \in LinearEvents /\ SessionOf(d) \in Sessions
      /\ webhooks[d].fresh \in Record
  BY <1>0, EventsTyped DEF Delivery
<1>2. {"sharing", "creating", "created", "recreated", "resolved", "reporting"} \subseteq Stages
  BY DEF Stages
<1>3. NewRecord(SessionOf(d)) \in Record /\ chats \in Seq(Sessions) /\ Len(chats) + 1 \in Nat
      /\ Append(chats, SessionOf(d)) \in Seq(Sessions)
  BY <1>1 DEF NewRecord, Record, Statuses, TypeInv
<1>4. CASE RoomSought(d)
  <2>1. ASSUME NEW r \in Record,
               webhooks' = [webhooks EXCEPT ![d].pc = "resolved", ![d].existing = NoRecord, ![d].rec = r]
        PROVE  webhooks' \in [Deliveries -> Delivery]
    <3>1. webhooks' = [webhooks EXCEPT ![d] = [webhooks[d] EXCEPT !.pc = "resolved", !.existing = NoRecord, !.rec = r]]
      BY <2>1 DEF TypeInv
    <3> QED BY <1>1, <1>2, <3>1, Zero, DeliveriesTyped DEF TypeInv
  <2>2. ASSUME NEW pc \in {"sharing", "creating"}, Awaits(d, pc)
        PROVE  webhooks' \in [Deliveries -> Delivery]
    BY <1>1, <1>2, <2>2, DeliveriesTyped DEF Awaits, TypeInv
  <2>3. \A o \in Sessions : records[o] \in Record
    BY DEF TypeInv
  <2> DEFINE s == SessionOf(d)
             ofIssue == {r \in {records[o] : o \in Sessions} : byIssue /\ Live(r)}
             linked(r) == [of |-> s, st |-> "active", room |-> r.room, last |-> records[s].last]
  <2>4. CASE \E pc \in {"sharing", "creating"} : Awaits(d, pc) /\ UNCHANGED <<records, lnMemory>>
    BY <1>4, <2>2, <2>4 DEF RoomSought, TypeInv
  <2>5. CASE /\ webhooks' = [webhooks EXCEPT ![d].pc = "resolved", ![d].existing = NoRecord, ![d].rec = records[s]]
             /\ UNCHANGED <<records, lnMemory>>
    BY <1>1, <1>4, <2>1, <2>3, <2>5 DEF RoomSought, TypeInv
  <2>6. ASSUME NEW r \in ofIssue, Saves(linked(r)),
               webhooks' = [webhooks EXCEPT ![d].pc = "resolved", ![d].existing = NoRecord, ![d].rec = linked(r)]
        PROVE  TypeInv'
    <3>1. linked(r) \in Record
      BY <1>1, <2>3, <2>6 DEF Record, Statuses
    <3> QED BY <1>4, <2>1, <2>6, <3>1, MemoryTyped DEF RoomSought, TypeInv
  <2> QED BY <1>4, <2>4, <2>5, <2>6 DEF RoomSought
\* A room made for a delivery, which goes on with it.
<1>5. ASSUME NEW pc \in Stages, NEW r \in Record, webhooks' = [webhooks EXCEPT ![d].pc = pc, ![d].fresh = r]
      PROVE  webhooks' \in [Deliveries -> Delivery]
  <2> DEFINE w == [webhooks[d] EXCEPT !.pc = pc, !.fresh = r]
  <2>1. webhooks' = [webhooks EXCEPT ![d] = w]
    BY <1>5 DEF TypeInv
  <2>2. w \in Delivery
    BY <1>1, <1>5, DeliveriesTyped
  <2> HIDE DEF w
  <2> QED BY <2>1, <2>2 DEF TypeInv
<1>6. CASE BandMakesRoom(d)
  <2>1. /\ webhooks' = [webhooks EXCEPT ![d].pc = "created", ![d].fresh = NewRecord(SessionOf(d))]
        /\ chats' = Append(chats, SessionOf(d)) /\ UNCHANGED <<linear, records, guard, lnMemory>>
    BY <1>6 DEF BandMakesRoom
  <2>2. webhooks' \in [Deliveries -> Delivery]
    BY <1>2, <1>3, <1>5, <2>1
  <2> QED BY <1>3, <2>1, <2>2 DEF TypeInv
<1>7. CASE RoomCreated(d)
  <2> DEFINE r == webhooks[d].fresh
  <2>1. Saves(r) /\ UNCHANGED <<linear, chats, guard>>
    BY <1>7 DEF RoomCreated
  <2>2. \A b \in Deliveries :
          [webhooks[b] EXCEPT !.pc = "resolved", !.existing = NoRecord, !.rec = r, !.fresh = NoRecord] \in Delivery
    BY <1>1, <1>2, Zero, DeliveriesTyped DEF TypeInv
  <2>3. webhooks' \in [Deliveries -> Delivery]
    BY <1>7, <2>2 DEF RoomCreated, TypeInv
  <2> QED BY <1>1, <2>1, <2>3, MemoryTyped DEF TypeInv
<1>8. CASE CreationFails(d)
  <2>1. \A b \in Deliveries : [webhooks[b] EXCEPT !.pc = "reporting"] \in Delivery
    BY <1>2, DeliveriesTyped DEF TypeInv
  <2>2. webhooks' \in [Deliveries -> Delivery]
    BY <1>8, <2>1 DEF CreationFails, TypeInv
  <2>3. lnMemory' \in Memory
    BY <1>8, AsideTyped DEF CreationFails
  <2> QED BY <1>8, <2>2, <2>3 DEF CreationFails, TypeInv
<1>9. CASE RoomRecreated(d)
  <2> DEFINE r == NewRecord(SessionOf(d))
  <2>1. /\ lnMemory' = [lnMemory EXCEPT !.aside = @ \cup {r.room}]
        /\ webhooks' = [webhooks EXCEPT ![d].pc = "recreated", ![d].fresh = r]
        /\ chats' = Append(chats, SessionOf(d)) /\ UNCHANGED <<linear, records, guard>>
    BY <1>9 DEF RoomRecreated
  <2>2. r.room \in Nat
    BY <1>3 DEF Record
  <2>3. lnMemory' \in Memory
    BY <2>1, <2>2, AsideTyped
  <2>4. webhooks' \in [Deliveries -> Delivery]
    BY <1>2, <1>3, <1>5, <2>1
  <2> QED BY <1>3, <2>1, <2>3, <2>4 DEF TypeInv
<1>10. CASE RecreatedSaved(d)
  <2>1. webhooks' \in [Deliveries -> Delivery]
    BY <1>1, <1>2, <1>10, DeliveriesTyped DEF RecreatedSaved, Awaits, TypeInv
  <2> QED BY <1>1, <1>10, <2>1, MemoryTyped DEF RecreatedSaved, TypeInv
<1> QED BY <1>4, <1>6, <1>7, <1>8, <1>9, <1>10

\* The agent's own writes, the guard's, and a restart.
LEMMA UpsetsTyped ==
  ASSUME TypeInv, OneAtATime,
         \/ \E s \in Sessions : SessionCompletes(s) \/ GuardKeeps(s)
         \/ GuardTicks \/ BridgeRestarts
  PROVE  TypeInv'
<1>1. ASSUME NEW s \in Sessions, SessionCompletes(s) PROVE TypeInv'
  <2> DEFINE done == [records[s] EXCEPT !.st = "completed"]
  <2>1. done \in Record /\ Upsert(done) /\ lnMemory' = Upsetting(Kept(done))
        /\ UNCHANGED <<linear, webhooks, chats, guard>>
    BY <1>1, RecordsTyped DEF TypeInv, SessionCompletes
  <2>2. records' \in [Sessions -> Record] /\ Kept(done) \in Memory
    BY <2>1, SavesTyped
  <2>3. \A m \in Memory : Upsetting(m) \in Memory
    BY DEF Memory, Upsetting
  <2> QED BY <2>1, <2>2, <2>3 DEF TypeInv
<1>2. ASSUME NEW s \in Sessions, GuardKeeps(s) PROVE TypeInv'
  BY <1>2, Zero, MemoryTyped DEF TypeInv, GuardKeeps
<1>3. CASE GuardTicks
  <2>1. guard' \in [Sessions -> Record]
    BY <1>3, Zero DEF GuardTicks, TypeInv
  <2> QED BY <1>3, <2>1, MarksTyped DEF TypeInv, GuardTicks, Upsetting
<1>4. CASE BridgeRestarts
  <2>1. webhooks' \in [Deliveries -> Delivery] /\ guard' \in [Sessions -> Record]
    BY <1>4, Zero DEF BridgeRestarts
  <2>2. {EventOf(d) : d \in {b \in Deliveries : webhooks[b].pc \in {"told", "forwarded"}}} \subseteq LinearEvents
    <3>1. ASSUME NEW d \in Deliveries, webhooks[d].pc \in {"told", "forwarded"} PROVE EventOf(d) \in LinearEvents
      BY <3>1, EventsTyped
    <3> QED BY <3>1
  <2>3. Upsetting(lnMemory) \in Memory
    BY MarksTyped DEF Upsetting
  <2>4. \A m \in Memory : \A x \in SUBSET LinearEvents : \A R \in SUBSET Nat :
          [m EXCEPT !.aside = @ \cup R, !.excused = @ \cup x] \in Memory
    BY DEF Memory
  <2>5. Unrecorded(Deliveries) \subseteq Nat
    BY AsideTyped
  <2>6. lnMemory' \in Memory
    BY <1>4, <2>2, <2>3, <2>4, <2>5 DEF BridgeRestarts
  <2> QED BY <1>4, <2>1, <2>6 DEF TypeInv, BridgeRestarts
<1> QED BY <1>1, <1>2, <1>3, <1>4

----------------------------------------------------------------------------
(* Every step follows the event.                                           *)

\* A delivery that moves on, before it has sent anything.
LEMMA MovedOn ==
  ASSUME TypeInv, OneAtATime, NEW d \in Deliveries, NEW w \in Delivery,
         webhooks' = [webhooks EXCEPT ![d] = w], w.ev = webhooks[d].ev, webhooks[d].pc # "none",
         webhooks[d].pc \notin {"told", "forwarded"}, w.pc \notin {"told", "forwarded"},
         w.pc = "telling" => MayTell(w.ev)'
  PROVE  \A b \in Deliveries :
           /\ webhooks'[b].ev = webhooks[b].ev
           /\ Sent(b)' <=> Sent(b)
           /\ webhooks'[b].ev = 0 => webhooks'[b] = NoDelivery
           /\ webhooks'[b].pc = "telling" => webhooks[b].pc = "telling" \/ MayTell(webhooks[b].ev)'
<1>1. webhooks[d].ev # 0
  BY Zero DEF OneAtATime
<1>2. webhooks'[d] = w /\ \A b \in Deliveries : b # d => webhooks'[b] = webhooks[b]
  BY DEF TypeInv
<1>3. ASSUME NEW b \in Deliveries, b # d
      PROVE  /\ webhooks'[b].ev = webhooks[b].ev
             /\ Sent(b)' <=> Sent(b)
             /\ webhooks'[b].ev = 0 => webhooks'[b] = NoDelivery
             /\ webhooks'[b].pc = "telling" => webhooks[b].pc = "telling"
  BY <1>2, <1>3 DEF OneAtATime, Sent
<1>4. /\ webhooks'[d].ev = webhooks[d].ev
      /\ Sent(d)' <=> Sent(d)
      /\ webhooks'[d].ev # 0
      /\ webhooks'[d].pc = "telling" => MayTell(webhooks[d].ev)'
  BY <1>1, <1>2 DEF Sent
<1> QED BY <1>3, <1>4

\* A step that writes no record forgets nothing.
LEMMA NothingFiled ==
  ASSUME linear' = linear, records' = records, lnMemory'.excused = lnMemory.excused
  PROVE  FilesSafely
  BY DEF FilesSafely, RecordNames

\* The steps of a delivery that leave its event as far as it was.
LEMMA DeliveryQuiet ==
  ASSUME TypeInv, OneAtATime, NEW d \in Deliveries,
         \/ Retries(d) \/ Resumed(d) \/ TellingFails(d) \/ RoomSought(d) \/ BandMakesRoom(d)
         \/ RoomRecreated(d) \/ RecreatedSaved(d) \/ ForwardFails(d) \/ FailureSaved(d)
  PROVE  Quiet
<1>0. webhooks[d].pc # "none"
  BY DEF Retries, Resumed, TellingFails, RoomSought, BandMakesRoom, RoomRecreated, RecreatedSaved, ForwardFails,
         FailureSaved
<1>1. /\ webhooks[d] \in Delivery /\ EventOf(d) \in LinearEvents /\ SessionOf(d) \in Sessions
      /\ ActionOf(d) \in Actions /\ webhooks[d].tries \in Nat /\ webhooks[d].tries + 1 \in Nat
      /\ webhooks[d].existing \in Record /\ webhooks[d].rec \in Record /\ webhooks[d].fresh \in Record
      /\ EventOf(d) = webhooks[d].ev /\ ActionOf(d) = linear[EventOf(d)].action
  BY <1>0, EventsTyped DEF Delivery, EventOf, ActionOf
<1>2. {"dispatched", "telling", "resolving", "sharing", "creating", "created", "recreated", "resolved", "reporting",
       "thrown"} \subseteq Stages
  BY DEF Stages
<1>3. UNCHANGED <<linear, records, lnMemory>> => FilesSafely /\ lnMemory'.posts = lnMemory.posts
  BY NothingFiled
<1>4. ASSUME NEW pc \in Stages \ {"told", "forwarded"}, Awaits(d, pc), webhooks[d].pc \notin {"told", "forwarded"},
             pc = "telling" => MayTell(EventOf(d))', linear' = linear, FilesSafely, lnMemory'.posts = lnMemory.posts
      PROVE  Quiet
  <2> DEFINE w == [webhooks[d] EXCEPT !.pc = pc]
  <2>1. w \in Delivery /\ w.ev = webhooks[d].ev /\ w.pc = pc
    BY <1>1, DeliveriesTyped DEF Delivery
  <2>2. webhooks' = [webhooks EXCEPT ![d] = w]
    BY <1>4 DEF Awaits, TypeInv
  <2>3. (webhooks[d].ev)' = webhooks[d].ev
    BY <2>1, <2>2 DEF TypeInv
  <2> HIDE DEF w
  <2> QED BY <1>0, <1>1, <1>4, <2>1, <2>2, <2>3, MovedOn DEF Quiet, EventOf
\* The delivery's whole entry changes.
<1>5. ASSUME NEW w \in Delivery, webhooks' = [webhooks EXCEPT ![d] = w], w.ev = webhooks[d].ev,
             webhooks[d].pc \notin {"told", "forwarded"}, w.pc \notin {"told", "forwarded", "telling"},
             linear' = linear, FilesSafely, lnMemory'.posts = lnMemory.posts
      PROVE  Quiet
  BY <1>0, <1>5, MovedOn DEF Quiet
<1>6. ASSUME NEW r \in Record, Saves(r) \/ UNCHANGED <<records, lnMemory>>, linear' = linear
      PROVE  FilesSafely /\ lnMemory'.posts = lnMemory.posts
  BY <1>3, <1>6, KeptFiles
<1>7. ASSUME Throws(d), webhooks[d].pc \notin {"told", "forwarded"}, linear' = linear, FilesSafely,
             lnMemory'.posts = lnMemory.posts
      PROVE  Quiet
  <2> DEFINE w == [NoDelivery EXCEPT !.pc = "thrown", !.ev = EventOf(d), !.tries = webhooks[d].tries]
  <2>1. w \in Delivery /\ w.ev = webhooks[d].ev /\ w.pc = "thrown"
    BY <1>1, <1>2, Zero DEF Delivery
  <2>2. webhooks' = [webhooks EXCEPT ![d] = w]
    BY <1>7 DEF Throws
  <2> HIDE DEF w
  <2> QED BY <1>5, <1>7, <2>1, <2>2
<1>8. CASE Retries(d)
  <2> DEFINE w == [NoDelivery EXCEPT !.pc = "dispatched", !.ev = EventOf(d), !.tries = webhooks[d].tries + 1]
  <2>1. w \in Delivery /\ w.ev = webhooks[d].ev /\ w.pc = "dispatched"
    BY <1>1, <1>2, Zero DEF Delivery
  <2>2. webhooks' = [webhooks EXCEPT ![d] = w] /\ webhooks[d].pc = "thrown" /\ linear' = linear
        /\ UNCHANGED <<linear, records, lnMemory>>
    BY <1>8 DEF Retries
  <2> HIDE DEF w
  <2> QED BY <1>3, <1>5, <2>1, <2>2
<1>9. CASE Resumed(d)
  <2>1. FilesSafely /\ lnMemory'.posts = lnMemory.posts /\ linear' = linear
    BY <1>1, <1>6, <1>9 DEF Resumed
  <2>2. ActionOf(d) = "prompted" => MayTell(EventOf(d))'
    <3>1. webhooks'[d].ev = EventOf(d)
      BY <1>1, <1>9 DEF Resumed, Awaits, TypeInv, EventOf
    <3> QED BY <1>1, <2>1, <3>1 DEF MayTell, EventOf
  <2>3. CASE ActionOf(d) = "prompted"
    BY <1>2, <1>4, <1>9, <2>1, <2>2, <2>3 DEF Resumed
  <2>4. CASE ActionOf(d) # "prompted"
    BY <1>2, <1>4, <1>9, <2>1, <2>4 DEF Resumed
  <2> QED BY <2>3, <2>4
<1>10. CASE TellingFails(d)
  BY <1>3, <1>7, <1>10 DEF TellingFails
<1>11. CASE RoomSought(d)
  <2> DEFINE s == SessionOf(d)
             ofIssue == {r \in {records[o] : o \in Sessions} : byIssue /\ Live(r)}
             linked(r) == [of |-> s, st |-> "active", room |-> r.room, last |-> records[s].last]
             resolved(r) == [webhooks[d] EXCEPT !.pc = "resolved", !.existing = NoRecord, !.rec = r]
  <2>1. ASSUME NEW r \in Record, FilesSafely, lnMemory'.posts = lnMemory.posts,
               webhooks' = [webhooks EXCEPT ![d].pc = "resolved", ![d].existing = NoRecord, ![d].rec = r]
        PROVE  Quiet
    <3>1. resolved(r) \in Delivery /\ resolved(r).ev = webhooks[d].ev /\ resolved(r).pc = "resolved"
      BY <1>1, <1>2, Zero, DeliveriesTyped DEF Delivery
    <3>2. webhooks' = [webhooks EXCEPT ![d] = resolved(r)]
      BY <2>1 DEF TypeInv
    <3>3. webhooks[d].pc = "resolving" /\ linear' = linear
      BY <1>11 DEF RoomSought
    <3> HIDE DEF resolved
    <3> QED BY <1>5, <2>1, <3>1, <3>2, <3>3
  <2>2. CASE \E pc \in {"sharing", "creating"} : Awaits(d, pc) /\ UNCHANGED <<records, lnMemory>>
    BY <1>2, <1>3, <1>4, <1>11, <2>2 DEF RoomSought
  <2>3. CASE /\ webhooks' = [webhooks EXCEPT ![d].pc = "resolved", ![d].existing = NoRecord, ![d].rec = records[s]]
             /\ UNCHANGED <<records, lnMemory>>
    BY <1>1, <1>3, <1>11, <2>1, <2>3 DEF RoomSought, TypeInv
  <2>4. ASSUME NEW r \in ofIssue, Saves(linked(r)),
               webhooks' = [webhooks EXCEPT ![d].pc = "resolved", ![d].existing = NoRecord, ![d].rec = linked(r)]
        PROVE  Quiet
    <3>1. linked(r) \in Record
      BY <1>1, <2>4 DEF Record, Statuses, TypeInv
    <3>2. linear' = linear
      BY <1>11 DEF RoomSought
    <3> QED BY <1>6, <2>1, <2>4, <3>1, <3>2
  <2> QED BY <1>11, <2>2, <2>3, <2>4 DEF RoomSought
<1>12. CASE BandMakesRoom(d) \/ RoomRecreated(d)
  <2> DEFINE r == NewRecord(SessionOf(d))
             w(pc) == [webhooks[d] EXCEPT !.pc = pc, !.fresh = r]
  <2>1. PICK pc \in {"created", "recreated"} : webhooks' = [webhooks EXCEPT ![d].pc = pc, ![d].fresh = r]
    BY <1>12 DEF BandMakesRoom, RoomRecreated
  <2>2. r \in Record
    BY <1>1 DEF NewRecord, Record, Statuses, TypeInv
  <2>3. /\ linear' = linear /\ records' = records /\ webhooks[d].pc \in {"creating", "resolved"}
        /\ lnMemory'.excused = lnMemory.excused /\ lnMemory'.posts = lnMemory.posts
    BY <1>12 DEF BandMakesRoom, RoomRecreated, TypeInv, Memory
  <2>4. w(pc) \in Delivery
    <3>1. pc \in Stages
      BY <1>2
    <3> QED BY <1>1, <2>2, <3>1, DeliveriesTyped
  <2>7. w(pc).ev = webhooks[d].ev /\ w(pc).pc = pc
    BY <1>1 DEF Delivery
  <2>5. webhooks' = [webhooks EXCEPT ![d] = w(pc)]
    BY <2>1 DEF TypeInv
  <2>6. FilesSafely
    BY <2>3, NothingFiled
  <2> HIDE DEF w, r
  <2> QED BY <1>5, <2>3, <2>4, <2>5, <2>6, <2>7
<1>15. CASE RecreatedSaved(d)
  <2>1. /\ Saves(webhooks[d].fresh) /\ Awaits(d, "resolved") /\ linear' = linear
        /\ webhooks[d].pc = "recreated"
    BY <1>15 DEF RecreatedSaved
  <2>2. FilesSafely /\ lnMemory'.posts = lnMemory.posts
    BY <1>1, <1>6, <2>1
  <2> QED BY <1>2, <1>4, <2>1, <2>2
<1>13. CASE ForwardFails(d)
  BY <1>2, <1>3, <1>4, <1>13 DEF ForwardFails
<1>14. CASE FailureSaved(d)
  <2> DEFINE r == IF webhooks[d].rec # NoRecord THEN webhooks[d].rec ELSE webhooks[d].existing
             m == [r EXCEPT !.st = "errored", !.last = EventOf(d)]
  <2>1. m \in Record
    BY <1>1, RecordsTyped
  <2>2. /\ Saves(m) \/ UNCHANGED <<records, lnMemory>>
        /\ linear' = linear /\ Throws(d) /\ webhooks[d].pc = "reporting"
    BY <1>14 DEF FailureSaved
  <2> HIDE DEF m
  <2> QED BY <1>6, <1>7, <2>1, <2>2
<1> QED BY <1>8, <1>9, <1>10, <1>11, <1>12, <1>13, <1>14, <1>15

\* A creation that ends moves everyone who waits for it.
LEMMA CreationQuiet ==
  ASSUME TypeInv, OneAtATime, NEW d \in Deliveries, RoomCreated(d) \/ CreationFails(d)
  PROVE  Quiet
<1>1. \A b \in Sharers(d) : b \in Deliveries /\ webhooks[b].pc \in {"creating", "created", "sharing"}
  BY DEF Sharers, RoomCreated, CreationFails
<1>2. ASSUME NEW b \in Deliveries
      PROVE  /\ b \notin Sharers(d) => webhooks'[b] = webhooks[b]
             /\ b \in Sharers(d) => webhooks'[b].ev = webhooks[b].ev /\ webhooks'[b].pc \in {"resolved", "reporting"}
  BY DEF RoomCreated, CreationFails, TypeInv, Delivery
<1>3. \A b \in Deliveries : webhooks[b].ev = 0 => webhooks[b].pc = "none" /\ webhooks[b] = NoDelivery
  BY Zero DEF OneAtATime
<1>4. \A b \in Deliveries :
        /\ webhooks'[b].ev = webhooks[b].ev
        /\ Sent(b)' <=> Sent(b)
        /\ webhooks'[b].ev = 0 => webhooks'[b] = NoDelivery
        /\ webhooks'[b].pc = "telling" => webhooks[b].pc = "telling"
  BY <1>1, <1>2, <1>3 DEF Sent
<1>5. linear' = linear
  BY DEF RoomCreated, CreationFails
<1>6. FilesSafely /\ lnMemory'.posts = lnMemory.posts
  <2>1. CASE RoomCreated(d)
    <3>1. webhooks[d].fresh \in Record
      BY DEF TypeInv, Delivery
    <3> QED BY <1>5, <2>1, <3>1, KeptFiles DEF RoomCreated
  <2>2. CASE CreationFails(d)
    <3>1. /\ records' = records
          /\ lnMemory'.excused = lnMemory.excused /\ lnMemory'.posts = lnMemory.posts
      BY <2>2 DEF CreationFails, TypeInv, Memory
    <3> QED BY <1>5, <3>1, NothingFiled
  <2> QED BY <2>1, <2>2
<1> QED BY <1>4, <1>5, <1>6 DEF Quiet

\* The agent's own writes and the guard's touch no delivery.
LEMMA WritesQuiet ==
  ASSUME TypeInv, OneAtATime, (\E s \in Sessions : SessionCompletes(s) \/ GuardKeeps(s)) \/ GuardTicks
  PROVE  Quiet
<1>1. webhooks' = webhooks /\ linear' = linear
  BY DEF SessionCompletes, GuardKeeps, GuardTicks
<1>2. \A d \in Deliveries :
        /\ webhooks'[d].ev = webhooks[d].ev
        /\ Sent(d)' <=> Sent(d)
        /\ webhooks'[d].ev = 0 => webhooks'[d] = NoDelivery
        /\ webhooks'[d].pc = "telling" => webhooks[d].pc = "telling"
  BY <1>1 DEF Sent, OneAtATime
<1>3. FilesSafely /\ lnMemory'.posts = lnMemory.posts
  <2>1. ASSUME NEW s \in Sessions, SessionCompletes(s) PROVE FilesSafely /\ lnMemory'.posts = lnMemory.posts
    <3> DEFINE done == [records[s] EXCEPT !.st = "completed"]
    <3>1. done \in Record /\ Upsert(done) /\ lnMemory' = Upsetting(Kept(done))
      BY <2>1, RecordsTyped DEF TypeInv, SessionCompletes
    <3>2. lnMemory'.excused = lnMemory.excused \cup Excuses(done) /\ lnMemory'.posts = lnMemory.posts
      BY <3>1 DEF Upsetting, Kept, TypeInv, Memory
    <3> HIDE DEF done
    <3> QED BY <1>1, <3>1, <3>2, SavesFile
  <2>2. ASSUME NEW s \in Sessions, GuardKeeps(s) PROVE FilesSafely /\ lnMemory'.posts = lnMemory.posts
    BY <1>1, <2>2, KeptFiles, NothingFiled DEF GuardKeeps, TypeInv
  <2>3. CASE GuardTicks
    <3>1. records' = records /\ lnMemory'.excused = lnMemory.excused /\ lnMemory'.posts = lnMemory.posts
      BY <2>3 DEF GuardTicks, Upsetting, TypeInv, Memory
    <3> QED BY <1>1, <3>1, NothingFiled
  <2> QED BY <2>1, <2>2, <2>3
<1> QED BY <1>1, <1>2, <1>3 DEF Quiet

\* A delivery lets nothing be forgotten when it is let in: its event was never posted,
\* or its record knows it.
LEMMA ArrivalFollowed ==
  ASSUME TypeInv, Followed, NEW d \in Deliveries, NEW e \in LinearEvents, WebhookArrives(d, e)
  PROVE  Followed'
<1>1. /\ webhooks[d] = NoDelivery /\ ~RecordNames(e)
      /\ \A b \in Deliveries : webhooks[b].ev # e
      /\ webhooks'[d].ev = e /\ webhooks'[d].pc = "dispatched"
      /\ \A b \in Deliveries : b # d => webhooks'[b] = webhooks[b]
      /\ linear' = linear /\ records' = records
      /\ lnMemory'.posts = lnMemory.posts /\ lnMemory'.excused = lnMemory.excused
  BY Zero DEF WebhookArrives, TypeInv, Delivery, Memory, RecordNames, InFlight
<1>2. \A f \in LinearEvents : (MayTell(f)' <=> MayTell(f)) /\ (RecordNames(f)' <=> RecordNames(f)) /\ f # 0
  BY <1>1 DEF MayTell, RecordNames, LinearEvents
<1>3. ~Sent(d) /\ ~Sent(d)' /\ \A b \in Deliveries : b # d => (Sent(b)' <=> Sent(b))
  BY <1>1, Zero DEF Sent
<1>4. OneAtATime'
  BY <1>1, <1>2 DEF Followed, OneAtATime
<1>5. e \notin lnMemory.excused => lnMemory.posts[e] = 0
  BY <1>1 DEF Followed, PostedInv
<1>6. DeliveryInv'
  <2>1. ASSUME NEW b \in Deliveries, b # d, NEW f \in LinearEvents, webhooks'[b].ev = f
        PROVE  /\ f \notin lnMemory'.excused => lnMemory'.posts[f] = IF Sent(b)' THEN 1 ELSE 0
               /\ webhooks'[b].pc = "telling" => MayTell(f)'
    BY <1>1, <1>2, <1>3, <2>1 DEF Followed, DeliveryInv
  <2>2. ASSUME NEW f \in LinearEvents, webhooks'[d].ev = f
        PROVE  /\ f \notin lnMemory'.excused => lnMemory'.posts[f] = IF Sent(d)' THEN 1 ELSE 0
               /\ webhooks'[d].pc = "telling" => MayTell(f)'
    BY <1>1, <1>3, <1>5, <2>2
  <2> QED BY <2>1, <2>2 DEF DeliveryInv
<1>7. PostedInv'
  <2>1. \A b \in Deliveries : Sent(b) => b # d /\ webhooks'[b].ev = webhooks[b].ev /\ Sent(b)'
    BY <1>1, <1>3
  <2> QED BY <1>1, <1>2, <2>1 DEF Followed, PostedInv
<1> QED BY <1>4, <1>6, <1>7 DEF Followed

\* A restart excuses what was posted and not recorded.
LEMMA RestartFollowed ==
  ASSUME TypeInv, Followed, BridgeRestarts
  PROVE  Followed'
<1>1. /\ \A d \in Deliveries : webhooks'[d] = NoDelivery
      /\ linear' = linear /\ records' = records /\ lnMemory'.posts = lnMemory.posts
      /\ lnMemory'.excused = lnMemory.excused \cup
            {EventOf(d) : d \in {b \in Deliveries : webhooks[b].pc \in {"told", "forwarded"}}}
  BY DEF BridgeRestarts, Upsetting, TypeInv, Memory
<1>2. \A e \in LinearEvents : (RecordNames(e)' <=> RecordNames(e)) /\ e # 0
  BY <1>1 DEF RecordNames, LinearEvents
<1>3. OneAtATime' /\ DeliveryInv'
  BY <1>1, <1>2, Zero DEF OneAtATime, DeliveryInv
<1>4. PostedInv'
  <2>1. \A e \in LinearEvents : e \notin lnMemory'.excused =>
          e \notin lnMemory.excused /\ ~\E d \in Deliveries : webhooks[d].ev = e /\ Sent(d)
    BY <1>1 DEF Sent, EventOf
  <2> QED BY <1>1, <1>2, <2>1 DEF Followed, PostedInv
<1> QED BY <1>3, <1>4 DEF Followed

\* The steps that answer a delivery: it is given up on, there is nothing to do for it, or
\* the record written names its event.
LEMMA EndedFollowed ==
  ASSUME TypeInv, Followed, NEW d \in Deliveries, Answers(d), linear' = linear,
         webhooks[d].pc # "none",
         \/ UNCHANGED <<records, lnMemory>> /\ ~Sent(d)
         \/ \E r \in Record : /\ Upsert(r) /\ r.last = EventOf(d)
                              /\ lnMemory'.excused = lnMemory.excused \cup Excuses(r)
                              /\ lnMemory'.posts = lnMemory.posts
  PROVE  Followed'
<1>1. PICK f \in LinearEvents : f = webhooks[d].ev
  BY EventsTyped DEF EventOf, Followed
<1>2. CASE UNCHANGED <<records, lnMemory>> /\ ~Sent(d)
  BY <1>1, <1>2, NothingFiled, AnsweredFollowed
<1>3. ASSUME NEW r \in Record, Upsert(r), r.last = EventOf(d),
             lnMemory'.excused = lnMemory.excused \cup Excuses(r), lnMemory'.posts = lnMemory.posts
      PROVE  Followed'
  <2>1. r.last = f
    BY <1>1, <1>3 DEF EventOf
  <2>2. FilesSafely /\ (r.last \in LinearEvents => r.last \in lnMemory'.excused \/ RecordNames(r.last)')
    BY <1>3, SavesFile
  <2>3. f \in lnMemory'.excused \/ RecordNames(f)'
    BY <2>1, <2>2 DEF RecordNames
  <2> QED BY <1>1, <1>3, <2>2, <2>3, AnsweredFollowed
<1> QED BY <1>2, <1>3

\* The handler's steps that end with an answer.
LEMMA AnswersFollowed ==
  ASSUME TypeInv, Followed, NEW d \in Deliveries, GivesUp(d) \/ AnswerSaved(d) \/ EventSaved(d)
  PROVE  Followed'
<1>0. webhooks[d].pc # "none" /\ OneAtATime
  BY DEF GivesUp, AnswerSaved, EventSaved, Followed
<1>1. /\ EventOf(d) \in LinearEvents /\ records[SessionOf(d)] \in Record
      /\ webhooks[d].existing \in Record /\ webhooks[d].rec \in Record
  BY <1>0, EventsTyped DEF Delivery
<1>2. Answers(d) /\ linear' = linear
  BY DEF GivesUp, AnswerSaved, EventSaved
<1>3. ASSUME NEW q \in Record, NEW st \in Statuses,
             LET r == [q EXCEPT !.st = st, !.last = EventOf(d)] IN
               /\ Upsert(r) /\ lnMemory'.posts = lnMemory.posts
               /\ lnMemory'.excused = lnMemory.excused \cup Excuses(r)
      PROVE  Followed'
  <2> DEFINE r == [q EXCEPT !.st = st, !.last = EventOf(d)]
  <2>1. r \in Record /\ r.last = EventOf(d)
    <3>1. PICK e \in LinearEvents : e = EventOf(d)
      BY <1>1
    <3> QED BY <3>1, RecordsTyped
  <2>2. Upsert(r) /\ lnMemory'.posts = lnMemory.posts /\ lnMemory'.excused = lnMemory.excused \cup Excuses(r)
    BY <1>3
  <2> HIDE DEF r
  <2> QED BY <1>0, <1>2, <2>1, <2>2, EndedFollowed
<1>4. CASE GivesUp(d)
  <2> DEFINE r == [records[SessionOf(d)] EXCEPT !.st = "errored", !.last = EventOf(d)]
  <2>1. CASE UNCHANGED <<records, lnMemory>>
    BY <1>0, <1>2, <1>4, <2>1, EndedFollowed DEF GivesUp, Sent
  <2>2. CASE Saves(r)
    <3>1. Upsert(r) /\ lnMemory'.excused = lnMemory.excused \cup Excuses(r) /\ lnMemory'.posts = lnMemory.posts
      BY <2>2 DEF Saves, Kept, TypeInv, Memory
    <3> QED BY <1>1, <1>3, <3>1, RecordsTyped
  <2> QED BY <1>4, <2>1, <2>2 DEF GivesUp
<1>5. CASE AnswerSaved(d)
  <2> DEFINE r == [webhooks[d].existing EXCEPT !.st = "waiting", !.last = EventOf(d)]
  <2>1. Saves(r)
    BY <1>5 DEF AnswerSaved
  <2>2. Upsert(r) /\ lnMemory'.excused = lnMemory.excused \cup Excuses(r) /\ lnMemory'.posts = lnMemory.posts
    BY <2>1 DEF Saves, Kept, TypeInv, Memory
  <2> QED BY <1>1, <1>3, <2>2, RecordsTyped
<1>6. CASE EventSaved(d)
  <2> DEFINE r == [webhooks[d].rec EXCEPT !.st = "active", !.last = EventOf(d)]
  <2>1. Upsert(r) /\ lnMemory' = [Kept(r) EXCEPT !.handled = @ \cup {EventOf(d)}]
    BY <1>6 DEF EventSaved
  <2>2. Upsert(r) /\ lnMemory'.excused = lnMemory.excused \cup Excuses(r) /\ lnMemory'.posts = lnMemory.posts
    BY <2>1 DEF Kept, TypeInv, Memory
  <2> QED BY <1>1, <1>3, <2>2, RecordsTyped
<1> QED BY <1>4, <1>5, <1>6

\* An event read is answered, or goes on unsent; a cancellation is recorded before the room
\* is told.
LEMMA ReadFollowed ==
  ASSUME TypeInv, Followed, NEW d \in Deliveries, EventRead(d)
  PROVE  Followed'
<1>0. webhooks[d].pc = "dispatched" /\ linear' = linear /\ OneAtATime
  BY DEF EventRead, Followed
<1> DEFINE r == records[SessionOf(d)]
           gone == [r EXCEPT !.st = "canceled", !.last = EventOf(d)]
           read(pc) == webhooks' = [webhooks EXCEPT ![d].pc = pc, ![d].existing = r]
           w(pc) == [webhooks[d] EXCEPT !.pc = pc, !.existing = r]
<1>1. /\ webhooks[d] \in Delivery /\ EventOf(d) \in LinearEvents /\ EventOf(d) = webhooks[d].ev
      /\ r \in Record /\ ActionOf(d) = linear[EventOf(d)].action
  BY <1>0, EventsTyped DEF EventOf, ActionOf
<1>2. ASSUME NEW pc \in {"telling", "resuming", "resolving"}, read(pc), FilesSafely, lnMemory'.posts = lnMemory.posts,
             NEW f \in LinearEvents, f = EventOf(d), pc = "telling" => MayTell(f)'
      PROVE  Followed'
  <2>1. PICK m \in Delivery : m = w(pc)
    BY <1>1, <1>2, DeliveriesTyped DEF Stages
  <2>2. webhooks' = [webhooks EXCEPT ![d] = m]
    BY <1>2, <2>1 DEF TypeInv
  <2>3. m.pc = pc /\ m.ev = webhooks[d].ev /\ m.ev = f
    BY <1>1, <1>2, <2>1 DEF Delivery
  <2>4. \A b \in Deliveries :
          /\ webhooks'[b].ev = webhooks[b].ev
          /\ Sent(b)' <=> Sent(b)
          /\ webhooks'[b].ev = 0 => webhooks'[b] = NoDelivery
          /\ webhooks'[b].pc = "telling" => webhooks[b].pc = "telling" \/ MayTell(webhooks[b].ev)'
    <3>1. /\ webhooks[d].pc # "none" /\ webhooks[d].pc \notin {"told", "forwarded"}
          /\ m.pc \notin {"told", "forwarded"}
      BY <1>0, <1>2, <2>3
    <3>2. m.pc = "telling" => MayTell(m.ev)'
      BY <1>2, <2>3
    <3> QED BY <1>0, <2>2, <2>3, <3>1, <3>2, MovedOn
  <2>5. Quiet
    BY <1>0, <1>2, <2>4 DEF Quiet
  <2> QED BY <2>5, QuietFollowed
<1>3. PICK f \in LinearEvents : f = EventOf(d)
  BY <1>1
<1>4. ~Sent(d)
  BY <1>0 DEF Sent
<1>5. CASE Answers(d) /\ UNCHANGED <<records, lnMemory>>
  BY <1>0, <1>4, <1>5, EndedFollowed
<1>6. CASE /\ Saves(gone)
           /\ read("telling") /\ ActionOf(d) = "canceled"
  <2>0. gone \in Record /\ gone.last = f
    <3> HIDE DEF r
    <3> QED BY <1>1, <1>3 DEF Record, Statuses
  <2>1. PICK g \in Record : g = gone /\ g.last = f
    BY <2>0
  <2>2. /\ Upsert(g) /\ lnMemory'.posts = lnMemory.posts
        /\ lnMemory'.excused = lnMemory.excused \cup Excuses(g)
    BY <1>6, <2>1 DEF Saves, Kept, TypeInv, Memory
  <2>3. FilesSafely /\ (g.last \in LinearEvents => g.last \in lnMemory'.excused \/ RecordNames(g.last)')
    BY <1>0, <2>1, <2>2, SavesFile
  <2>4. f \in lnMemory'.excused \/ RecordNames(f)'
    BY <2>1, <2>3 DEF RecordNames
  <2>5. MayTell(f)'
    BY <1>0, <1>1, <1>3, <1>6, <2>4 DEF MayTell
  <2> QED BY <1>2, <1>3, <1>6, <2>2, <2>3, <2>5
<1>7. ASSUME UNCHANGED <<records, lnMemory>>, NEW pc \in {"telling", "resuming", "resolving"}, read(pc),
             pc = "telling" => ActionOf(d) = "prompted"
      PROVE  Followed'
  <2>1. FilesSafely /\ lnMemory'.posts = lnMemory.posts
    BY <1>0, <1>7, NothingFiled
  <2>2. pc = "telling" => MayTell(f)'
    BY <1>0, <1>1, <1>3, <1>7 DEF MayTell
  <2> QED BY <1>2, <1>3, <1>7, <2>1, <2>2
<1> QED BY <1>0, <1>5, <1>6, <1>7 DEF EventRead

\* The messages that reach the room.
LEMMA PostsFollowed ==
  ASSUME TypeInv, Followed, NEW d \in Deliveries, RoomTold(d) \/ MessageForwarded(d)
  PROVE  Followed'
<1>0. webhooks[d].pc \in {"telling", "resolved"} /\ linear' = linear /\ records' = records /\ OneAtATime
  BY DEF RoomTold, MessageForwarded, Followed
<1>1. PICK f \in LinearEvents : f = webhooks[d].ev
  BY <1>0, EventsTyped DEF EventOf
<1>2. webhooks[d] \in Delivery /\ ~Sent(d) /\ lnMemory' = Posted(f)
  BY <1>0, <1>1, EventsTyped DEF Sent, RoomTold, MessageForwarded, EventOf
<1>3. \A b \in Deliveries : b # d => webhooks'[b] = webhooks[b]
  BY DEF RoomTold, MessageForwarded, Awaits, Answers, TypeInv
<1>4. CASE RoomTold(d)
  <2>1. CASE ActionOf(d) = "prompted"
    <3>1. webhooks'[d].ev = f /\ Sent(d)'
      BY <1>1, <1>2, <1>4, <2>1 DEF RoomTold, Awaits, TypeInv, Sent, Delivery
    <3> QED BY <1>0, <1>1, <1>2, <1>3, <3>1, PostedFollowed
  <2>2. CASE ActionOf(d) # "prompted"
    <3>1. f \in lnMemory.excused \/ RecordNames(f)
      BY <1>1, <1>4, <2>2 DEF RoomTold, Followed, DeliveryInv, MayTell, ActionOf, EventOf
    <3>2. webhooks'[d] = NoDelivery
      BY <1>4, <2>2 DEF RoomTold, Answers, TypeInv
    <3> QED BY <1>0, <1>1, <1>2, <1>3, <3>1, <3>2, PostedFollowed
  <2> QED BY <2>1, <2>2
<1>5. CASE MessageForwarded(d)
  <2>1. webhooks'[d].ev = f /\ Sent(d)'
    BY <1>1, <1>2, <1>5 DEF MessageForwarded, TypeInv, Sent, Delivery
  <2> QED BY <1>0, <1>1, <1>2, <1>3, <2>1, PostedFollowed
<1> QED BY <1>4, <1>5

----------------------------------------------------------------------------
(* The theorem.                                                            *)

\* Nothing is handled, posted or recorded at first.
LEMMA InitFollowed == LinearInit => IndInv
<1> SUFFICES ASSUME LinearInit PROVE IndInv
  OBVIOUS
<1>1. OneAtATime /\ DeliveryInv
  BY Zero DEF LinearInit, OneAtATime, DeliveryInv, LinearEvents
<1>2. PostedInv
  BY DEF LinearInit, PostedInv
<1> QED BY <1>1, <1>2, InitTyped DEF IndInv

\* Every step keeps the invariant.
LEMMA NextFollowed == IndInv /\ [LinearNext]_linearVars => IndInv'
<1> SUFFICES ASSUME TypeInv, Followed, [LinearNext]_linearVars PROVE TypeInv' /\ Followed'
  BY DEF IndInv, Followed
<1>0. OneAtATime
  BY DEF Followed
<1>1. ASSUME NEW d \in Deliveries, DeliveryMoves(d) PROVE TypeInv' /\ Followed'
  <2>1. CASE (\E e \in LinearEvents : WebhookArrives(d, e)) \/ Retries(d) \/ GivesUp(d)
    BY <1>0, <2>1, HandlerTyped, ArrivalFollowed, AnswersFollowed, DeliveryQuiet, QuietFollowed
  <2>2. CASE \/ EventRead(d) \/ Resumed(d) \/ RoomTold(d) \/ TellingFails(d) \/ AnswerSaved(d)
             \/ MessageForwarded(d) \/ EventSaved(d) \/ ForwardFails(d) \/ FailureSaved(d)
    BY <1>0, <2>2, ToldTyped, ReadFollowed, PostsFollowed, AnswersFollowed, DeliveryQuiet, QuietFollowed
  <2>3. CASE \/ RoomSought(d) \/ BandMakesRoom(d) \/ RoomCreated(d) \/ CreationFails(d)
             \/ RoomRecreated(d) \/ RecreatedSaved(d)
    BY <1>0, <2>3, RoomsTyped, CreationQuiet, DeliveryQuiet, QuietFollowed
  <2> QED BY <1>1, <2>1, <2>2, <2>3 DEF DeliveryMoves
<1>2. CASE (\E s \in Sessions : SessionCompletes(s) \/ GuardKeeps(s)) \/ GuardTicks
  BY <1>0, <1>2, UpsetsTyped, WritesQuiet, QuietFollowed
<1>3. CASE BridgeRestarts
  BY <1>0, <1>3, UpsetsTyped, RestartFollowed
<1>4. CASE UNCHANGED linearVars
  <2>1. TypeInv'
    BY <1>4 DEF TypeInv, linearVars
  <2>2. Followed'
    BY <1>4 DEF Followed, OneAtATime, DeliveryInv, PostedInv, MayTell, RecordNames, Sent, linearVars
  <2> QED BY <2>1, <2>2
<1> QED BY <1>1, <1>2, <1>3, <1>4 DEF LinearNext

\* A redelivered webhook, beside the first or after it, forwards its event once, unless its
\* record had come to name another event or a restart cut it off between the two.
THEOREM EventsForwardedOnce == LinearSpec => []ForwardedOnce
<1>1. IndInv => ForwardedOnce
  BY DEF IndInv, PostedInv, ForwardedOnce
<1> QED BY <1>1, InitFollowed, NextFollowed, PTL DEF LinearSpec
----------------------------------------------------------------------------
(* How many rooms a scope gets.                                            *)

\* No session of the scope has a record to be found by.
Homeless(x) == \A o \in Sessions : Scope(o) = x => ~Live(records[o])

\* What is kept, or about to be written back, is a record, and a live one but for what
\* Resumed writes.
FiledInv ==
  /\ \A s \in Sessions : records[s] # NoRecord => records[s].st # "none"
  /\ \A s \in Sessions : guard[s] # NoRecord => guard[s].st # "none"
  /\ \A d \in Deliveries : webhooks[d].pc = "resuming" => webhooks[d].existing.st # "none"

\* Who creates a room holds the lock of its scope until the record is saved.
LocksInv ==
  /\ locks \in [Scopes -> Deliveries \cup {0}] /\ byIssue \in BOOLEAN
  /\ \A d \in Deliveries : webhooks[d].pc \in {"creating", "created"} => locks[Scope(SessionOf(d))] = d

\* The record that waits to be saved is of the room made for the delivery's session.
MadeInv ==
  \A d \in Deliveries :
    LET r == webhooks[d].fresh IN
      /\ webhooks[d].pc \in {"created", "recreated"} => r.st = "active"
      /\ webhooks[d].pc = "created" =>
           r.of = SessionOf(d) /\ r.room \in DOMAIN chats /\ chats[r.room] = SessionOf(d)

\* The rooms of a scope that a record was saved for.
Filed(x) == RoomsOf(x) \ Unrecorded(Deliveries)

\* A scope has a room for its first record and one for each canceled; none was saved for
\* the record that is still to be made.
RoomsInv ==
  /\ lnMemory.aside \subseteq DOMAIN chats
  /\ \A x \in Scopes :
       /\ Cardinality(RoomsOf(x)) <= 1 + lnMemory.cancels[x]
       /\ locks[x] # 0 \/ Homeless(x) => Cardinality(Filed(x)) <= lnMemory.cancels[x]

RoomIndInv == FiledInv /\ LocksInv /\ MadeInv /\ RoomsInv

LEMMA RoomsFinite ==
  ASSUME TypeInv, NEW x
  PROVE  /\ IsFiniteSet(RoomsOf(x)) /\ Cardinality(RoomsOf(x)) \in Nat
         /\ IsFiniteSet(Filed(x)) /\ Cardinality(Filed(x)) \in Nat
<1>1. IsFiniteSet(DOMAIN chats)
  BY FS_Interval DEF TypeInv
<1>2. RoomsOf(x) \subseteq DOMAIN chats /\ Filed(x) \subseteq DOMAIN chats
  BY DEF RoomsOf, Filed
<1> QED BY <1>1, <1>2, FS_Subset, FS_CardinalityType

\* A record written over a live one of its scope is live, or the scope's count grows.
LEMMA SavesCount ==
  ASSUME TypeInv, byIssue' = byIssue, NEW r \in Record, r.st # "none", Upsert(r),
         lnMemory'.cancels = Canceled(r), NEW x \in Scopes
  PROVE  /\ lnMemory.cancels[x] <= lnMemory'.cancels[x]
         /\ Homeless(x)' => Homeless(x) \/ lnMemory.cancels[x] < lnMemory'.cancels[x]
<1>1. lnMemory.cancels[x] \in Nat
  BY DEF TypeInv, Memory
<1>2. lnMemory'.cancels[x] = lnMemory.cancels[x] + IF Cancels(r) /\ x = Scope(r.of) THEN 1 ELSE 0
  BY DEF Canceled
<1>3. ASSUME Homeless(x)', NEW o \in Sessions, Scope(o) = x, Live(records[o])
      PROVE  Cancels(r) /\ x = Scope(r.of)
  <2>1. ~Live(records'[o])
    BY <1>3 DEF Homeless, Scope, Live
  <2>2. r.of = o
    BY <1>3, <2>1 DEF Upsert, TypeInv
  <2>3. records'[o] = r
    BY <2>2 DEF Upsert, TypeInv
  <2> QED BY <1>3, <2>1, <2>2, <2>3 DEF Cancels, Live
<1> QED BY <1>1, <1>2, <1>3 DEF Homeless

\* A step that makes no room, locks none that would be made twice, and leaves no room
\* unsaved behind.
ScopeSettled ==
  /\ lnMemory'.aside \subseteq DOMAIN chats'
  /\ \A x \in Scopes :
       /\ RoomsOf(x)' \subseteq RoomsOf(x)
       /\ locks'[x] # 0 \/ Homeless(x)' => Filed(x)' \subseteq Filed(x)
       /\ lnMemory.cancels[x] <= lnMemory'.cancels[x]
       /\ Homeless(x)' => Homeless(x) \/ lnMemory.cancels[x] < lnMemory'.cancels[x]
       /\ locks'[x] # 0 => locks[x] # 0 \/ Homeless(x)

LEMMA SettledRooms ==
  ASSUME TypeInv, TypeInv', RoomsInv, ScopeSettled
  PROVE  RoomsInv'
<1>1. ASSUME NEW x \in Scopes
      PROVE  /\ Cardinality(RoomsOf(x))' <= 1 + lnMemory'.cancels[x]
             /\ locks'[x] # 0 \/ Homeless(x)' => Cardinality(Filed(x))' <= lnMemory'.cancels[x]
  <2>1. PICK R, F : R = RoomsOf(x) /\ F = Filed(x)
    OBVIOUS
  <2>2. PICK Rn, Fn : Rn = RoomsOf(x)' /\ Fn = Filed(x)'
    OBVIOUS
  <2>3. IsFiniteSet(R) /\ IsFiniteSet(F) /\ F \subseteq R /\ Fn \subseteq Rn /\ Rn \subseteq R
    BY <2>1, <2>2, RoomsFinite DEF Filed, ScopeSettled
  <2>4. /\ Cardinality(Rn) \in Nat /\ Cardinality(R) \in Nat /\ Cardinality(Rn) <= Cardinality(R)
        /\ IsFiniteSet(Rn)
    BY <2>3, FS_Subset, FS_CardinalityType
  <2>5. Cardinality(Fn) \in Nat /\ Cardinality(F) \in Nat /\ Cardinality(Fn) <= Cardinality(Rn)
    BY <2>3, <2>4, FS_Subset, FS_CardinalityType
  <2>6. Fn \subseteq F => Cardinality(Fn) <= Cardinality(F)
    BY <2>3, FS_Subset
  <2>7. lnMemory.cancels[x] \in Nat /\ lnMemory'.cancels[x] \in Nat
    BY DEF TypeInv, Memory
  <2>8. Cardinality(RoomsOf(x))' = Cardinality(Rn) /\ Cardinality(Filed(x))' = Cardinality(Fn)
    BY <2>2
  <2>9. /\ Cardinality(R) <= 1 + lnMemory.cancels[x]
        /\ locks[x] # 0 \/ Homeless(x) => Cardinality(F) <= lnMemory.cancels[x]
        /\ lnMemory.cancels[x] <= lnMemory'.cancels[x]
        /\ locks'[x] # 0 \/ Homeless(x)' => Fn \subseteq F
        /\ Homeless(x)' => Homeless(x) \/ lnMemory.cancels[x] < lnMemory'.cancels[x]
        /\ locks'[x] # 0 => locks[x] # 0 \/ Homeless(x)
    BY <2>1, <2>2 DEF ScopeSettled, RoomsInv
  <2>10. locks'[x] # 0 \/ Homeless(x)' => Cardinality(Fn) <= lnMemory'.cancels[x]
    <3>1. CASE locks[x] # 0 \/ Homeless(x)
      BY <2>5, <2>6, <2>7, <2>9, <3>1
    <3>2. CASE lnMemory.cancels[x] < lnMemory'.cancels[x]
      BY <2>4, <2>5, <2>7, <2>9, <3>2
    <3> QED BY <2>9, <3>1, <3>2
  <2> QED BY <2>4, <2>7, <2>8, <2>9, <2>10
<1> QED BY <1>1 DEF RoomsInv, ScopeSettled

\* A step that touches no room, nor a room's way to its record.
RoomsUntouched ==
  /\ chats' = chats /\ byIssue' = byIssue /\ lnMemory'.aside = lnMemory.aside
  /\ Unrecorded(Deliveries)' = Unrecorded(Deliveries)

LEMMA RestingRooms ==
  ASSUME RoomsInv, RoomsUntouched
  PROVE  /\ lnMemory'.aside \subseteq DOMAIN chats'
         /\ \A x : RoomsOf(x)' \subseteq RoomsOf(x) /\ Filed(x)' \subseteq Filed(x)
<1>1. \A x : RoomsOf(x)' = RoomsOf(x)
  BY DEF RoomsUntouched, RoomsOf, Scope
<1> QED BY <1>1 DEF RoomsUntouched, RoomsInv, Filed

\* Deliveries none of which comes to await a room's record, or stops to.
LEMMA RecordsRest ==
  ASSUME \A b \in Deliveries :
           \/ webhooks'[b] = webhooks[b]
           \/ webhooks[b].pc # "created" /\ webhooks'[b].pc # "created"
  PROVE  Unrecorded(Deliveries)' = Unrecorded(Deliveries)
  BY DEF Unrecorded

\* No record, no count and no new lock: nothing to do with rooms.
LEMMA IdleSettled ==
  ASSUME TypeInv, RoomsInv, RoomsUntouched, records' = records,
         lnMemory'.cancels = lnMemory.cancels, \A x \in Scopes : locks'[x] # 0 => locks[x] # 0 \/ Homeless(x)
  PROVE  ScopeSettled
<1>1. \A x \in Scopes : lnMemory.cancels[x] \in Nat
  BY DEF TypeInv, Memory
<1>2. \A x \in Scopes : Homeless(x)' => Homeless(x)
  BY DEF Homeless, Scope, RoomsUntouched
<1> QED BY <1>1, <1>2, RestingRooms DEF ScopeSettled

\* A record saved, or none.
LEMMA SavesSettled ==
  ASSUME TypeInv, RoomsInv, RoomsUntouched, NEW r \in Record, r.st # "none", Upsert(r), lnMemory'.cancels = Canceled(r),
         \A x \in Scopes : locks'[x] # 0 => locks[x] # 0 \/ Homeless(x)
  PROVE  ScopeSettled
<1>1. byIssue' = byIssue
  BY DEF RoomsUntouched
<1> QED BY <1>1, SavesCount, RestingRooms DEF ScopeSettled

\* The steps that create the room of a record.
Creates(d) == BandMakesRoom(d) \/ RoomCreated(d) \/ CreationFails(d)

\* What a delivery's own step does to the deliveries: the others stay, and it comes to
\* create a room, to resume a session, or to replace a room, by RoomSought, EventRead and
\* RoomRecreated alone.
LEMMA DeliveryAlone ==
  ASSUME TypeInv, OneAtATime, NEW d \in Deliveries, DeliveryMoves(d), ~Creates(d)
  PROVE  /\ \A b \in Deliveries : b # d => webhooks'[b] = webhooks[b]
         /\ webhooks[d].pc # "created" /\ webhooks'[d].pc # "created"
         /\ webhooks'[d].pc = "creating" =>
              /\ RoomSought(d) /\ ~Locked(SessionOf(d)) /\ Homeless(Scope(SessionOf(d)))
              /\ locks' = [locks EXCEPT ![Scope(SessionOf(d))] = d] /\ webhooks'[d].ev = webhooks[d].ev
         /\ webhooks'[d].pc # "creating" => locks' = locks
         /\ webhooks'[d].pc = "resuming" =>
              /\ EventRead(d) /\ records[SessionOf(d)] # NoRecord
              /\ webhooks'[d].existing = records[SessionOf(d)]
         /\ webhooks'[d].pc = "recreated" => webhooks'[d].fresh.st = "active"
<1>0. webhooks[d] \in Delivery /\ webhooks \in [Deliveries -> Delivery]
  BY DEF TypeInv
<1> USE DEF Awaits, Answers, Throws
<1>6. webhooks[d].pc # "created"
  BY Zero DEF Creates, DeliveryMoves, WebhookArrives, Retries, GivesUp, EventRead, Resumed, RoomTold, TellingFails,
       AnswerSaved, RoomSought, RoomRecreated, RecreatedSaved, MessageForwarded, EventSaved, ForwardFails, FailureSaved
<1>7. ASSUME RoomRecreated(d)
      PROVE  /\ webhooks'[d].pc = "recreated" /\ webhooks'[d].fresh.st = "active" /\ locks' = locks
             /\ \A b \in Deliveries : b # d => webhooks'[b] = webhooks[b]
  <2> DEFINE r == NewRecord(SessionOf(d))
  <2>1. webhooks' = [webhooks EXCEPT ![d].pc = "recreated", ![d].fresh = r] /\ locks' = locks
    BY <1>7 DEF RoomRecreated
  <2>2. r.st = "active"
    BY DEF NewRecord
  <2> HIDE DEF r
  <2> QED BY <1>0, <2>1, <2>2 DEF Delivery
<1>1. ASSUME NEW e \in LinearEvents, WebhookArrives(d, e)
      PROVE  /\ webhooks'[d].pc = "dispatched" /\ locks' = locks
             /\ \A b \in Deliveries : b # d => webhooks'[b] = webhooks[b]
  BY <1>0, <1>1 DEF WebhookArrives, Delivery
<1>2. ASSUME Retries(d) \/ GivesUp(d) \/ TellingFails(d) \/ AnswerSaved(d) \/ EventSaved(d) \/ FailureSaved(d)
      PROVE  /\ webhooks'[d].pc \in {"dispatched", "none", "thrown"} /\ locks' = locks
             /\ \A b \in Deliveries : b # d => webhooks'[b] = webhooks[b]
  <2>1. CASE Answers(d) \/ Throws(d)
    <3>1. locks' = locks
      BY <1>2, Zero DEF Retries, GivesUp, TellingFails, AnswerSaved, EventSaved, FailureSaved
    <3>2. CASE Answers(d)
      BY <1>0, <3>1, <3>2, Zero
    <3>3. CASE Throws(d)
      <4>1. webhooks'[d].pc = "thrown" /\ \A b \in Deliveries : b # d => webhooks'[b] = webhooks[b]
        BY <1>0, <3>3 DEF NoDelivery
      <4> QED BY <3>1, <4>1
    <3> QED BY <2>1, <3>2, <3>3
  <2>2. CASE Retries(d)
    BY <1>0, <2>2, Zero DEF Retries, NoDelivery
  <2> HIDE DEF Answers, Throws
  <2> QED BY <1>2, <2>1, <2>2 DEF GivesUp, TellingFails, AnswerSaved, EventSaved, FailureSaved
<1>3. ASSUME Resumed(d) \/ RoomTold(d) \/ MessageForwarded(d) \/ ForwardFails(d) \/ RecreatedSaved(d)
      PROVE  /\ webhooks'[d].pc \in {"telling", "resolving", "told", "none", "forwarded", "reporting", "resolved"}
             /\ locks' = locks
             /\ \A b \in Deliveries : b # d => webhooks'[b] = webhooks[b]
  BY <1>0, <1>3, Zero DEF Resumed, RoomTold, MessageForwarded, ForwardFails, RecreatedSaved, NoDelivery, Delivery
<1>4. ASSUME EventRead(d)
      PROVE  /\ webhooks'[d].pc \in {"none", "telling", "resuming", "resolving"} /\ locks' = locks
             /\ webhooks'[d].pc = "resuming" =>
                  records[SessionOf(d)] # NoRecord /\ webhooks'[d].existing = records[SessionOf(d)]
             /\ \A b \in Deliveries : b # d => webhooks'[b] = webhooks[b]
  <2> DEFINE r == records[SessionOf(d)]
             read(pc) == webhooks' = [webhooks EXCEPT ![d].pc = pc, ![d].existing = r]
  <2>1. locks' = locks
    BY <1>4 DEF EventRead
  <2>2. CASE Answers(d)
    BY <1>0, <2>1, <2>2, Zero
  <2>3. ASSUME NEW pc \in {"telling", "resuming", "resolving"}, read(pc), pc = "resuming" => r # NoRecord
        PROVE  /\ webhooks'[d].pc = pc /\ webhooks'[d].existing = r
               /\ \A b \in Deliveries : b # d => webhooks'[b] = webhooks[b]
    BY <1>0, <2>3 DEF Delivery
  <2>4. Answers(d) \/ \E pc \in {"telling", "resuming", "resolving"} : read(pc) /\ (pc = "resuming" => r # NoRecord)
    BY <1>4 DEF EventRead
  <2> QED BY <2>1, <2>2, <2>3, <2>4
<1>5. ASSUME RoomSought(d)
      PROVE  /\ webhooks'[d].pc \in {"sharing", "creating", "resolved"}
             /\ webhooks'[d].pc = "creating" =>
                  /\ ~Locked(SessionOf(d)) /\ Homeless(Scope(SessionOf(d)))
                  /\ locks' = [locks EXCEPT ![Scope(SessionOf(d))] = d] /\ webhooks'[d].ev = webhooks[d].ev
             /\ webhooks'[d].pc # "creating" => locks' = locks
             /\ \A b \in Deliveries : b # d => webhooks'[b] = webhooks[b]
  <2> DEFINE s == SessionOf(d)
             ofIssue == {r \in {records[o] : o \in Sessions} : byIssue /\ Live(r)}
             linked(r) == [of |-> s, st |-> "active", room |-> r.room, last |-> records[s].last]
             resolves(r) == webhooks' = [webhooks EXCEPT ![d].pc = "resolved", ![d].existing = NoRecord, ![d].rec = r]
  <2>1. \/ Awaits(d, "sharing") /\ locks' = locks
        \/ resolves(records[s]) /\ locks' = locks
        \/ (\E r \in ofIssue : resolves(linked(r))) /\ locks' = locks
        \/ /\ ~Locked(s) /\ ~Live(records[s]) /\ ofIssue = {}
           /\ Awaits(d, "creating") /\ locks' = [locks EXCEPT ![Scope(s)] = d]
    BY <1>5 DEF RoomSought
  <2>2. ASSUME NEW r, resolves(r)
        PROVE  webhooks'[d].pc = "resolved" /\ \A b \in Deliveries : b # d => webhooks'[b] = webhooks[b]
    BY <1>0, <2>2 DEF Delivery
  <2>3. ASSUME NEW pc, Awaits(d, pc)
        PROVE  /\ webhooks'[d].pc = pc /\ webhooks'[d].ev = webhooks[d].ev
               /\ \A b \in Deliveries : b # d => webhooks'[b] = webhooks[b]
    BY <1>0, <2>3 DEF Delivery
  <2>4. ofIssue = {} /\ ~Live(records[s]) => Homeless(Scope(s))
    BY DEF Homeless, Scope
  <2> HIDE DEF resolves, ofIssue, linked, Awaits
  <2> QED BY <2>1, <2>2, <2>3, <2>4
<1> HIDE DEF Awaits, Answers, Throws
<1> QED BY <1>1, <1>2, <1>3, <1>4, <1>5, <1>6, <1>7 DEF DeliveryMoves, Creates

\* What those that create a room do to the deliveries.
LEMMA CreatingAlone ==
  ASSUME TypeInv, NEW d \in Deliveries, Creates(d)
  PROVE  /\ webhooks[d].pc \in {"creating", "created"}
         /\ \A b \in Deliveries : b # d =>
              webhooks'[b] = webhooks[b] \/ (webhooks[b].pc = "sharing" /\ webhooks'[b].pc \in {"resolved", "reporting"})
         /\ \A b \in Deliveries : webhooks'[b].ev = webhooks[b].ev
         /\ BandMakesRoom(d) => webhooks'[d].pc = "created" /\ webhooks'[d].fresh = NewRecord(SessionOf(d))
         /\ ~BandMakesRoom(d) => webhooks'[d].pc \in {"resolved", "reporting"}
<1>0. \A b \in Deliveries : webhooks[b] \in Delivery
  BY DEF TypeInv
<1>1. d \in Sharers(d) /\ \A b \in Sharers(d) : b = d \/ webhooks[b].pc = "sharing"
  BY DEF Sharers
<1>2. CASE BandMakesRoom(d)
  <2>1. /\ webhooks' = [webhooks EXCEPT ![d].pc = "created", ![d].fresh = NewRecord(SessionOf(d))]
        /\ webhooks[d].pc = "creating"
    BY <1>2 DEF BandMakesRoom
  <2> QED BY <1>0, <1>2, <2>1 DEF TypeInv, Delivery
<1>3. CASE RoomCreated(d)
  <2> DEFINE r == webhooks[d].fresh
  <2>1. \A w \in Delivery :
          LET m == [w EXCEPT !.pc = "resolved", !.existing = NoRecord, !.rec = r, !.fresh = NoRecord] IN
            m.pc = "resolved" /\ m.ev = w.ev
    BY DEF Delivery
  <2>2. webhooks[d].pc = "created" /\ ~BandMakesRoom(d)
    BY <1>3 DEF RoomCreated, BandMakesRoom
  <2> QED BY <1>0, <1>1, <1>3, <2>1, <2>2 DEF RoomCreated
<1>4. CASE CreationFails(d) /\ ~BandMakesRoom(d)
  <2>1. \A w \in Delivery : [w EXCEPT !.pc = "reporting"].pc = "reporting" /\ [w EXCEPT !.pc = "reporting"].ev = w.ev
    BY DEF Delivery
  <2> QED BY <1>0, <1>1, <1>4, <2>1 DEF CreationFails
<1> QED BY <1>2, <1>3, <1>4 DEF Creates

\* Who holds a lock goes on holding it.
LEMMA NextLocks ==
  ASSUME TypeInv, OneAtATime, LocksInv, [LinearNext]_linearVars
  PROVE  LocksInv'
<1> DEFINE Creating(pc) == pc \in {"creating", "created"}
<1>1. ASSUME NEW d \in Deliveries, DeliveryMoves(d), ~Creates(d)
      PROVE  LocksInv'
  <2>1. linear' = linear /\ byIssue' = byIssue /\ webhooks[d] \in Delivery
    BY <1>1 DEF DeliveryMoves, Creates, WebhookArrives, Retries, GivesUp, EventRead, Resumed, RoomTold, TellingFails,
         AnswerSaved, RoomSought, RoomRecreated, RecreatedSaved, MessageForwarded, EventSaved, ForwardFails,
         FailureSaved, TypeInv
  <2>2. CASE webhooks'[d].pc = "creating"
    <3> DEFINE x == Scope(SessionOf(d))
    <3>1. /\ locks' = [locks EXCEPT ![x] = d] /\ locks[x] = 0 /\ webhooks'[d].ev = webhooks[d].ev
          /\ RoomSought(d) /\ \A b \in Deliveries : b # d => webhooks'[b] = webhooks[b]
      BY <1>1, <2>2, DeliveryAlone DEF Locked
    <3>2. x \in Scopes
      BY <3>1, EventsTyped DEF Scope, Scopes, RoomSought
    <3>3. ASSUME NEW b \in Deliveries, Creating(webhooks'[b].pc)
          PROVE  locks'[Scope(SessionOf(b))'] = b
      <4>1. Scope(SessionOf(b))' = Scope(SessionOf(b))
        BY <2>1, <3>1 DEF Scope, SessionOf, EventOf
      <4>2. CASE b = d
        BY <3>1, <3>2, <4>1, <4>2 DEF LocksInv
      <4>3. CASE b # d
        <5>1. locks[Scope(SessionOf(b))] = b /\ b # 0
          BY <3>1, <3>3, <4>3 DEF LocksInv, Deliveries
        <5> QED BY <3>1, <4>1, <5>1 DEF LocksInv
      <4> QED BY <4>2, <4>3
    <3> QED BY <2>1, <3>1, <3>3 DEF LocksInv
  <2>3. CASE webhooks'[d].pc # "creating"
    <3>1. /\ locks' = locks /\ \A b \in Deliveries : b # d => webhooks'[b] = webhooks[b]
          /\ webhooks'[d].pc # "created"
      BY <1>1, <2>3, DeliveryAlone
    <3> QED BY <2>1, <2>3, <3>1 DEF LocksInv, Scope, SessionOf, EventOf
  <2> QED BY <2>2, <2>3
<1>2. ASSUME NEW d \in Deliveries, Creates(d)
      PROVE  LocksInv'
  <2> DEFINE x == Scope(SessionOf(d))
  <2>1. /\ webhooks[d].pc \in {"creating", "created"} /\ UNCHANGED <<linear, byIssue>>
        /\ IF BandMakesRoom(d) THEN locks' = locks ELSE locks' = [locks EXCEPT ![x] = 0]
    BY <1>2 DEF Creates, BandMakesRoom, RoomCreated, CreationFails, Unlocked
  <2>2. locks[x] = d /\ x \in Scopes /\ locks' \in [Scopes -> Deliveries \cup {0}]
    BY <2>1, EventsTyped DEF LocksInv, Scope, Scopes
  <2>3. ASSUME NEW b \in Deliveries, Creating(webhooks'[b].pc)
        PROVE  locks'[Scope(SessionOf(b))'] = b
    <3>1. Scope(SessionOf(b))' = Scope(SessionOf(b))
      BY <1>2, <2>1, CreatingAlone DEF Scope, SessionOf, EventOf
    <3>2. Creating(webhooks[b].pc) /\ (b = d => BandMakesRoom(d))
      BY <1>2, <2>3, CreatingAlone
    <3>3. locks[Scope(SessionOf(b))] = b
      BY <3>2 DEF LocksInv
    <3> DEFINE y == Scope(SessionOf(b))
    <3>4. CASE BandMakesRoom(d)
      BY <2>1, <3>1, <3>3, <3>4
    <3>5. CASE ~BandMakesRoom(d)
      <4>1. y # x /\ b # d
        BY <2>2, <3>2, <3>3, <3>5
      <4>2. locks' = [locks EXCEPT ![x] = 0] /\ b # 0
        BY <2>1, <3>5 DEF Deliveries
      <4>3. locks'[y] = locks[y]
        BY <4>1, <4>2 DEF LocksInv
      <4> QED BY <3>1, <3>3, <4>3
    <3> QED BY <3>4, <3>5
  <2> QED BY <2>1, <2>2, <2>3 DEF LocksInv
<1>3. ASSUME NEW s \in Sessions, SessionCompletes(s) \/ GuardKeeps(s) PROVE LocksInv'
  BY <1>3 DEF LocksInv, SessionCompletes, GuardKeeps, Scope, SessionOf, EventOf
<1>4. CASE GuardTicks \/ UNCHANGED linearVars
  BY <1>4 DEF LocksInv, GuardTicks, linearVars, Scope, SessionOf, EventOf
<1>5. CASE BridgeRestarts
  BY <1>5, Zero DEF LocksInv, BridgeRestarts
<1> QED BY <1>1, <1>2, <1>3, <1>4, <1>5 DEF LinearNext, Creates

\* What awaits its record goes on naming the room made for it.
LEMMA NextMade ==
  ASSUME TypeInv, OneAtATime, MadeInv, [LinearNext]_linearVars
  PROVE  MadeInv'
<1> DEFINE Made(d) == LET r == webhooks[d].fresh IN
             /\ webhooks[d].pc \in {"created", "recreated"} => r.st = "active"
             /\ webhooks[d].pc = "created" =>
                  r.of = SessionOf(d) /\ r.room \in DOMAIN chats /\ chats[r.room] = SessionOf(d)
<1>1. chats' = chats \/ \E s \in Sessions : chats' = Append(chats, s)
  <2>1. ASSUME NEW d \in Deliveries, BandMakesRoom(d) \/ RoomRecreated(d)
        PROVE  \E s \in Sessions : chats' = Append(chats, s)
    BY <2>1, EventsTyped DEF BandMakesRoom, RoomRecreated
  <2> QED BY <2>1 DEF LinearNext, linearVars, DeliveryMoves, WebhookArrives, Retries, GivesUp, EventRead, Resumed,
               RoomTold, TellingFails, AnswerSaved, RoomSought, RoomCreated, CreationFails, RecreatedSaved,
               MessageForwarded, EventSaved, ForwardFails, FailureSaved, SessionCompletes, GuardKeeps, GuardTicks,
               BridgeRestarts
<1>2. \A c \in DOMAIN chats : c \in DOMAIN chats' /\ chats'[c] = chats[c]
  BY <1>1 DEF TypeInv
<1>3. linear' = linear
  BY DEF LinearNext, linearVars, DeliveryMoves, WebhookArrives, Retries, GivesUp, EventRead, Resumed,
         RoomTold, TellingFails, AnswerSaved, RoomSought, BandMakesRoom, RoomCreated, CreationFails, RoomRecreated,
         RecreatedSaved, MessageForwarded, EventSaved, ForwardFails, FailureSaved, SessionCompletes, GuardKeeps,
         GuardTicks, BridgeRestarts
<1>4. \A d \in Deliveries : Made(d)
  BY DEF MadeInv
<1>5. ASSUME NEW b \in Deliveries, webhooks'[b] = webhooks[b] \/ webhooks'[b].pc \notin {"created", "recreated"}
      PROVE  Made(b)'
  BY <1>2, <1>3, <1>4, <1>5 DEF SessionOf, EventOf
<1>6. ASSUME NEW d \in Deliveries, DeliveryMoves(d), ~Creates(d), NEW b \in Deliveries PROVE Made(b)'
  <2>1. CASE b = d
    BY <1>6, <2>1, DeliveryAlone
  <2>2. CASE b # d
    BY <1>5, <1>6, <2>2, DeliveryAlone
  <2> QED BY <2>1, <2>2
<1>7. ASSUME NEW d \in Deliveries, Creates(d), NEW b \in Deliveries PROVE Made(b)'
  <2>1. CASE b # d \/ ~BandMakesRoom(d)
    BY <1>5, <1>7, <2>1, CreatingAlone
  <2>2. CASE b = d /\ BandMakesRoom(d)
    <3>1. /\ webhooks'[d].fresh = NewRecord(SessionOf(d)) /\ webhooks'[d].ev = webhooks[d].ev
          /\ chats' = Append(chats, SessionOf(d)) /\ webhooks[d].pc # "none"
      BY <1>7, <2>2, CreatingAlone DEF BandMakesRoom
    <3>2. SessionOf(d)' = SessionOf(d) /\ SessionOf(d) \in Sessions
      BY <1>3, <3>1, EventsTyped DEF SessionOf, EventOf
    <3>3. Len(chats) + 1 \in DOMAIN chats' /\ chats'[Len(chats) + 1] = SessionOf(d)
      BY <3>1, <3>2 DEF TypeInv
    <3> QED BY <2>2, <3>1, <3>2, <3>3 DEF NewRecord
  <2> QED BY <2>1, <2>2
<1>8. ASSUME NEW b \in Deliveries,
             (\E s \in Sessions : SessionCompletes(s) \/ GuardKeeps(s)) \/ GuardTicks \/ BridgeRestarts \/ UNCHANGED linearVars
      PROVE  Made(b)'
  BY <1>5, <1>8, Zero DEF SessionCompletes, GuardKeeps, GuardTicks, BridgeRestarts, linearVars
<1>9. \A b \in Deliveries : Made(b)'
  BY <1>6, <1>7, <1>8 DEF LinearNext
<1> QED BY <1>9 DEF MadeInv

\* What is kept, and what is about to be written back, stays a record.
LEMMA NextFiled ==
  ASSUME TypeInv, OneAtATime, FiledInv, MadeInv, [LinearNext]_linearVars
  PROVE  FiledInv'
<1> USE DEF FiledInv
\* A record written keeps the records.
<1>1. ASSUME NEW r \in Record, r.st # "none", Upsert(r)
      PROVE  \A s \in Sessions : records'[s] # NoRecord => records'[s].st # "none"
  BY <1>1 DEF Upsert, TypeInv
<1>2. ASSUME NEW r \in Record, NEW st \in Statuses \ {"none"}, NEW e \in LinearEvents
      PROVE  /\ [r EXCEPT !.st = st, !.last = e] \in Record /\ [r EXCEPT !.st = st, !.last = e].st # "none"
             /\ [r EXCEPT !.st = st] \in Record /\ [r EXCEPT !.st = st].st # "none"
  BY <1>2 DEF Record
<1>3. {"active", "waiting", "errored", "canceled", "completed"} \subseteq Statuses \ {"none"}
  BY DEF Statuses
<1>4. ASSUME NEW d \in Deliveries, DeliveryMoves(d)
      PROVE  /\ guard' = guard
             /\ \A s \in Sessions : records'[s] # NoRecord => records'[s].st # "none"
  <2>1. /\ webhooks[d] \in Delivery /\ webhooks[d].existing \in Record /\ webhooks[d].rec \in Record
    BY DEF TypeInv, Delivery
  <2>2. webhooks[d].pc # "none" =>
          /\ EventOf(d) \in LinearEvents /\ SessionOf(d) \in Sessions /\ records[SessionOf(d)] \in Record
    BY EventsTyped
  <2>3. guard' = guard
    BY <1>4 DEF DeliveryMoves, WebhookArrives, Retries, GivesUp, EventRead, Resumed, RoomTold, TellingFails,
         AnswerSaved, RoomSought, BandMakesRoom, RoomCreated, CreationFails, RoomRecreated, RecreatedSaved,
         MessageForwarded, EventSaved, ForwardFails, FailureSaved
  <2>4. ASSUME \/ \E e \in LinearEvents : WebhookArrives(d, e)
               \/ Retries(d) \/ RoomTold(d) \/ TellingFails(d) \/ BandMakesRoom(d) \/ CreationFails(d)
               \/ RoomRecreated(d) \/ MessageForwarded(d) \/ ForwardFails(d)
        PROVE  records' = records
    BY <2>4 DEF WebhookArrives, Retries, RoomTold, TellingFails, BandMakesRoom, CreationFails, RoomRecreated,
         MessageForwarded, ForwardFails
  <2>5. ASSUME \/ GivesUp(d) \/ EventRead(d) \/ Resumed(d) \/ AnswerSaved(d) \/ RoomSought(d) \/ RoomCreated(d)
               \/ RecreatedSaved(d) \/ EventSaved(d) \/ FailureSaved(d)
        PROVE  records' = records \/ \E r \in Record : r.st # "none" /\ Upsert(r)
    <3>1. CASE GivesUp(d)
      BY <1>2, <1>3, <2>2, <3>1 DEF GivesUp, Saves
    <3>2. CASE EventRead(d)
      BY <1>2, <1>3, <2>2, <3>2 DEF EventRead, Saves
    <3>3. CASE Resumed(d)
      BY <2>1, <3>3 DEF Resumed, Saves
    <3>4. CASE AnswerSaved(d)
      BY <1>2, <1>3, <2>1, <2>2, <3>4 DEF AnswerSaved, Saves
    <3>5. CASE RoomSought(d)
      <4> DEFINE s == SessionOf(d)
                 ofIssue == {r \in {records[o] : o \in Sessions} : byIssue /\ Live(r)}
                 linked(r) == [of |-> s, st |-> "active", room |-> r.room, last |-> records[s].last]
      <4>1. records' = records \/ \E r \in ofIssue : Upsert(linked(r))
        BY <3>5 DEF RoomSought, Saves
      <4>2. \A r \in ofIssue : linked(r) \in Record /\ linked(r).st # "none"
        BY <2>2, <3>5 DEF RoomSought, TypeInv, Record, Statuses
      <4> QED BY <4>1, <4>2
    <3>6. CASE RoomCreated(d) \/ RecreatedSaved(d)
      <4>1. webhooks[d].pc \in {"created", "recreated"} /\ Upsert(webhooks[d].fresh)
        BY <3>6 DEF RoomCreated, RecreatedSaved, Saves
      <4>2. webhooks[d].fresh \in Record /\ webhooks[d].fresh.st = "active"
        BY <4>1 DEF MadeInv, TypeInv, Delivery
      <4> QED BY <4>1, <4>2
    <3>7. CASE EventSaved(d)
      BY <1>2, <1>3, <2>1, <2>2, <3>7 DEF EventSaved
    <3>8. CASE FailureSaved(d)
      <4> DEFINE r == IF webhooks[d].rec # NoRecord THEN webhooks[d].rec ELSE webhooks[d].existing
                 m == [r EXCEPT !.st = "errored", !.last = EventOf(d)]
      <4>1. r \in Record /\ (records' = records \/ Upsert(m)) /\ webhooks[d].pc # "none"
        BY <2>1, <3>8 DEF FailureSaved, Saves
      <4> HIDE DEF r
      <4>2. m \in Record /\ m.st # "none"
        BY <1>2, <1>3, <2>2, <4>1
      <4> QED BY <4>1, <4>2
    <3> QED BY <2>5, <3>1, <3>2, <3>3, <3>4, <3>5, <3>6, <3>7, <3>8
  <2> QED BY <1>1, <1>4, <2>3, <2>4, <2>5 DEF DeliveryMoves
<1>5. ASSUME NEW d \in Deliveries, DeliveryMoves(d)
      PROVE  \A b \in Deliveries : webhooks'[b].pc = "resuming" => webhooks'[b].existing.st # "none"
  <2>1. CASE ~Creates(d)
    <3>1. ASSUME webhooks'[d].pc = "resuming" PROVE webhooks'[d].existing.st # "none"
      <4>1. records[SessionOf(d)] # NoRecord /\ webhooks'[d].existing = records[SessionOf(d)] /\ EventRead(d)
        BY <1>5, <2>1, <3>1, DeliveryAlone
      <4>2. SessionOf(d) \in Sessions
        BY <4>1, EventsTyped DEF EventRead
      <4> QED BY <4>1, <4>2
    <3> QED BY <1>5, <2>1, <3>1, DeliveryAlone
  <2>2. CASE Creates(d)
    BY <2>2, CreatingAlone
  <2> QED BY <2>1, <2>2
<1>6. ASSUME NEW s \in Sessions, SessionCompletes(s) PROVE FiledInv'
  <2>1. [records[s] EXCEPT !.st = "completed"] \in Record /\ [records[s] EXCEPT !.st = "completed"].st # "none"
    <3>1. \A r \in Record : \A st \in Statuses : [r EXCEPT !.st = st].st = st
      BY DEF Record
    <3> QED BY <1>3, <3>1, RecordsTyped DEF TypeInv
  <2> QED BY <1>1, <1>6, <2>1 DEF SessionCompletes
<1>7. ASSUME NEW s \in Sessions, GuardKeeps(s) PROVE FiledInv'
  <2>1. guard[s] \in Record /\ guard[s].st # "none"
    BY <1>7 DEF GuardKeeps, TypeInv
  <2>2. records' = records \/ Upsert(guard[s])
    BY <1>7 DEF GuardKeeps, Saves
  <2> QED BY <1>1, <1>7, <2>1, <2>2 DEF GuardKeeps, TypeInv
<1>8. CASE GuardTicks
  BY <1>8 DEF GuardTicks
<1>9. CASE BridgeRestarts
  BY <1>9, Zero DEF BridgeRestarts
<1>10. CASE UNCHANGED linearVars
  BY <1>10 DEF linearVars
<1> QED BY <1>4, <1>5, <1>6, <1>7, <1>8, <1>9, <1>10 DEF LinearNext

\* A step that saves a record, or none, and makes no room.
LEMMA SavedSettled ==
  ASSUME TypeInv, RoomsInv, UNCHANGED <<chats, byIssue>>, Unrecorded(Deliveries)' = Unrecorded(Deliveries),
         \A x \in Scopes : locks'[x] # 0 => locks[x] # 0 \/ Homeless(x),
         NEW r \in Record, r.st # "none", Saves(r)
  PROVE  ScopeSettled
<1>1. lnMemory'.aside = lnMemory.aside /\ lnMemory'.cancels = Canceled(r)
  BY SavesTyped DEF Saves
<1> QED BY <1>1, SavesSettled DEF Saves, RoomsUntouched

\* A delivery's steps but for those that make a room, or save the record of one.
LEMMA DeliverySettled ==
  ASSUME TypeInv, OneAtATime, FiledInv, LocksInv, MadeInv, RoomsInv, NEW d \in Deliveries,
         DeliveryMoves(d), ~Creates(d), ~RoomRecreated(d)
  PROVE  ScopeSettled
<1>0. /\ webhooks[d] \in Delivery /\ webhooks[d].existing \in Record /\ webhooks[d].rec \in Record
      /\ webhooks[d].fresh \in Record
  BY DEF TypeInv, Delivery
<1>1. webhooks[d].pc # "none" =>
        EventOf(d) \in LinearEvents /\ SessionOf(d) \in Sessions /\ records[SessionOf(d)] \in Record
  BY EventsTyped
<1>2. UNCHANGED <<chats, byIssue>> /\ Unrecorded(Deliveries)' = Unrecorded(Deliveries)
  <2>1. UNCHANGED <<chats, byIssue>>
    BY DEF DeliveryMoves, Creates, WebhookArrives, Retries, GivesUp, EventRead, Resumed, RoomTold, TellingFails,
         AnswerSaved, RoomSought, RecreatedSaved, MessageForwarded, EventSaved, ForwardFails, FailureSaved
  <2> QED BY <2>1, DeliveryAlone, RecordsRest
<1>3. \A x \in Scopes : locks'[x] # 0 => locks[x] # 0 \/ Homeless(x)
  <2>1. CASE webhooks'[d].pc = "creating"
    BY <2>1, DeliveryAlone DEF LocksInv
  <2>2. CASE webhooks'[d].pc # "creating"
    BY <2>2, DeliveryAlone
  <2> QED BY <2>1, <2>2
<1>4. ASSUME UNCHANGED <<records, lnMemory>> PROVE ScopeSettled
  BY <1>2, <1>3, <1>4, IdleSettled DEF RoomsUntouched
<1>5. ASSUME NEW r \in Record, NEW st \in Statuses \ {"none"}, NEW e \in LinearEvents
      PROVE  [r EXCEPT !.st = st, !.last = e] \in Record /\ [r EXCEPT !.st = st, !.last = e].st # "none"
  BY <1>5 DEF Record
<1>6. {"active", "waiting", "errored", "canceled", "completed"} \subseteq Statuses \ {"none"}
  BY DEF Statuses
<1>7. ASSUME NEW e \in LinearEvents, WebhookArrives(d, e) PROVE ScopeSettled
  <2>1. records' = records /\ lnMemory'.aside = lnMemory.aside /\ lnMemory'.cancels = lnMemory.cancels
    BY <1>7 DEF WebhookArrives, TypeInv, Memory
  <2> QED BY <1>2, <1>3, <2>1, IdleSettled DEF RoomsUntouched
<1>8. CASE RoomTold(d) \/ MessageForwarded(d)
  <2>1. records' = records /\ lnMemory'.aside = lnMemory.aside /\ lnMemory'.cancels = lnMemory.cancels
    BY <1>8 DEF RoomTold, MessageForwarded, Posted, TypeInv, Memory
  <2> QED BY <1>2, <1>3, <2>1, IdleSettled DEF RoomsUntouched
<1>9. CASE Retries(d) \/ TellingFails(d) \/ ForwardFails(d)
  BY <1>4, <1>9 DEF Retries, TellingFails, ForwardFails
<1>10. ASSUME NEW r \in Record, r.st # "none", Saves(r) PROVE ScopeSettled
  BY <1>2, <1>3, <1>10, SavedSettled
<1>11. CASE GivesUp(d)
  BY <1>1, <1>4, <1>5, <1>6, <1>10, <1>11 DEF GivesUp
<1>12. CASE EventRead(d)
  BY <1>1, <1>4, <1>5, <1>6, <1>10, <1>12 DEF EventRead
<1>13. CASE Resumed(d)
  BY <1>0, <1>4, <1>10, <1>13 DEF Resumed, FiledInv
<1>14. CASE AnswerSaved(d)
  BY <1>0, <1>1, <1>5, <1>6, <1>10, <1>14 DEF AnswerSaved
<1>15. CASE RoomSought(d)
  <2> DEFINE s == SessionOf(d)
             ofIssue == {r \in {records[o] : o \in Sessions} : byIssue /\ Live(r)}
             linked(r) == [of |-> s, st |-> "active", room |-> r.room, last |-> records[s].last]
  <2>1. UNCHANGED <<records, lnMemory>> \/ \E r \in ofIssue : Saves(linked(r))
    BY <1>15 DEF RoomSought
  <2>2. \A r \in ofIssue : linked(r) \in Record /\ linked(r).st # "none"
    BY <1>1, <1>15 DEF RoomSought, TypeInv, Record, Statuses
  <2> QED BY <1>4, <1>10, <2>1, <2>2
<1>16. CASE EventSaved(d)
  <2> DEFINE r == [webhooks[d].rec EXCEPT !.st = "active", !.last = EventOf(d)]
  <2>1. r \in Record /\ r.st # "none"
    BY <1>0, <1>1, <1>5, <1>6, <1>16 DEF EventSaved
  <2>2. Upsert(r) /\ lnMemory' = [Kept(r) EXCEPT !.handled = @ \cup {EventOf(d)}]
    BY <1>16 DEF EventSaved
  <2>3. lnMemory'.aside = lnMemory.aside /\ lnMemory'.cancels = Canceled(r)
    <3> HIDE DEF r
    <3>1. Kept(r) \in Memory /\ Kept(r).aside = lnMemory.aside /\ Kept(r).cancels = Canceled(r)
      BY <2>1, <2>2, SavesTyped
    <3> QED BY <2>2, <3>1 DEF Memory
  <2> HIDE DEF r
  <2> QED BY <1>2, <1>3, <2>1, <2>2, <2>3, SavesSettled DEF RoomsUntouched
<1>18. CASE RecreatedSaved(d)
  BY <1>0, <1>10, <1>18 DEF RecreatedSaved, MadeInv
<1>17. CASE FailureSaved(d)
  <2> DEFINE r == IF webhooks[d].rec # NoRecord THEN webhooks[d].rec ELSE webhooks[d].existing
             m == [r EXCEPT !.st = "errored", !.last = EventOf(d)]
  <2>1. r \in Record /\ (UNCHANGED <<records, lnMemory>> \/ Saves(m)) /\ webhooks[d].pc # "none"
    BY <1>0, <1>17 DEF FailureSaved
  <2> HIDE DEF r
  <2>2. m \in Record /\ m.st # "none"
    BY <1>1, <1>5, <1>6, <2>1
  <2> HIDE DEF m
  <2> QED BY <1>4, <1>10, <2>1, <2>2
<1> QED BY <1>7, <1>8, <1>9, <1>11, <1>12, <1>13, <1>14, <1>15, <1>16, <1>17, <1>18
  DEF DeliveryMoves, Creates

\* A room is appended: it is one more of its scope, unless it replaces one Band lost.
LEMMA RoomAdded ==
  ASSUME TypeInv, RoomsInv, NEW s \in Sessions, chats' = Append(chats, s), byIssue' = byIssue, NEW x \in Scopes
  PROVE  /\ lnMemory'.aside = lnMemory.aside /\ x # Scope(s) => RoomsOf(x)' = RoomsOf(x)
         /\ lnMemory'.aside = lnMemory.aside =>
              /\ RoomsOf(x)' \subseteq RoomsOf(x) \cup {Len(chats) + 1}
              /\ Cardinality(RoomsOf(x))' <= Cardinality(RoomsOf(x)) + 1
         /\ lnMemory'.aside = lnMemory.aside \cup {Len(chats) + 1} => RoomsOf(x)' = RoomsOf(x)
<1>1. /\ DOMAIN chats = 1..Len(chats) /\ DOMAIN chats' = 1..(Len(chats) + 1) /\ Len(chats) \in Nat
      /\ \A c \in 1..Len(chats) : chats'[c] = chats[c]
      /\ chats'[Len(chats) + 1] = s
  BY DEF TypeInv
<1>2. lnMemory.aside \subseteq 1..Len(chats)
  BY <1>1 DEF RoomsInv
<1>3. RoomsOf(x)' = {c \in 1..(Len(chats) + 1) : Scope(chats'[c]) = x /\ c \notin lnMemory'.aside}
  BY <1>1 DEF RoomsOf, Scope
<1>4. RoomsOf(x) = {c \in 1..Len(chats) : Scope(chats[c]) = x /\ c \notin lnMemory.aside}
  BY <1>1 DEF RoomsOf
<1>5. lnMemory'.aside = lnMemory.aside /\ x # Scope(s) => RoomsOf(x)' = RoomsOf(x)
  BY <1>1, <1>3, <1>4
<1>6. lnMemory'.aside = lnMemory.aside \cup {Len(chats) + 1} => RoomsOf(x)' = RoomsOf(x)
  BY <1>1, <1>3, <1>4
<1>7. ASSUME lnMemory'.aside = lnMemory.aside
      PROVE  /\ RoomsOf(x)' \subseteq RoomsOf(x) \cup {Len(chats) + 1}
             /\ Cardinality(RoomsOf(x))' <= Cardinality(RoomsOf(x)) + 1
  <2>1. RoomsOf(x)' \subseteq RoomsOf(x) \cup {Len(chats) + 1}
    BY <1>1, <1>3, <1>4, <1>7
  <2>2. /\ IsFiniteSet(RoomsOf(x) \cup {Len(chats) + 1})
        /\ Cardinality(RoomsOf(x) \cup {Len(chats) + 1}) <= Cardinality(RoomsOf(x)) + 1
        /\ Cardinality(RoomsOf(x) \cup {Len(chats) + 1}) \in Nat /\ Cardinality(RoomsOf(x)) \in Nat
    <3>1. PICK R : R = RoomsOf(x)
      OBVIOUS
    <3>2. IsFiniteSet(R) /\ Cardinality(R) \in Nat
      BY <3>1, RoomsFinite
    <3>3. /\ IsFiniteSet(R \cup {Len(chats) + 1})
          /\ Cardinality(R \cup {Len(chats) + 1}) = Cardinality(R) \/ Cardinality(R \cup {Len(chats) + 1}) = Cardinality(R) + 1
      BY <3>2, FS_AddElement
    <3> QED BY <3>1, <3>2, <3>3
  <2>3. /\ Cardinality(RoomsOf(x)') <= Cardinality(RoomsOf(x) \cup {Len(chats) + 1})
        /\ Cardinality(RoomsOf(x)') \in Nat
    BY <2>1, <2>2, FS_Subset, FS_CardinalityType
  <2>4. Cardinality(RoomsOf(x))' = Cardinality(RoomsOf(x)')
    OBVIOUS
  <2> QED BY <2>1, <2>2, <2>3, <2>4
<1> QED BY <1>5, <1>6, <1>7

\* A room Band makes for the first record of a scope: none of the scope's others waits to
\* be recorded, and this one does.
LEMMA MadeRooms ==
  ASSUME TypeInv, TypeInv', OneAtATime, LocksInv, MadeInv, RoomsInv, NEW d \in Deliveries, BandMakesRoom(d)
  PROVE  RoomsInv'
<1> DEFINE s == SessionOf(d)
<1>1. /\ webhooks[d].pc = "creating" /\ chats' = Append(chats, s) /\ byIssue' = byIssue /\ locks' = locks
      /\ records' = records /\ lnMemory' = lnMemory /\ lnMemory'.aside = lnMemory.aside
  BY DEF BandMakesRoom
<1>2. s \in Sessions /\ Scope(s) \in Scopes
  BY <1>1, EventsTyped DEF Scope, Scopes
<1>3. locks[Scope(s)] = d /\ d # 0
  BY <1>1 DEF LocksInv, Deliveries
<1>4. DOMAIN chats' = 1..(Len(chats) + 1) /\ DOMAIN chats = 1..Len(chats) /\ Len(chats) \in Nat
  BY <1>1, <1>2 DEF TypeInv
<1>5. Unrecorded(Deliveries)' = Unrecorded(Deliveries) \cup {Len(chats) + 1}
  <2>1. /\ webhooks'[d].pc = "created" /\ webhooks'[d].fresh = NewRecord(s)
        /\ \A b \in Deliveries : b # d =>
              webhooks'[b] = webhooks[b] \/ (webhooks[b].pc # "created" /\ webhooks'[b].pc # "created")
    BY CreatingAlone DEF Creates
  <2>2. webhooks'[d].fresh.room = Len(chats) + 1
    BY <2>1 DEF NewRecord
  <2> QED BY <1>1, <2>1, <2>2 DEF Unrecorded
<1>6. Filed(Scope(s)) = RoomsOf(Scope(s))
  <2>1. ASSUME NEW b \in Deliveries, webhooks[b].pc = "created" PROVE webhooks[b].fresh.room \notin RoomsOf(Scope(s))
    <3>1. chats[webhooks[b].fresh.room] = SessionOf(b) /\ locks[Scope(SessionOf(b))] = b /\ b # d
      BY <1>1, <2>1 DEF MadeInv, LocksInv
    <3> QED BY <1>3, <3>1 DEF RoomsOf
  <2> QED BY <2>1 DEF Filed, Unrecorded
<1>7. ASSUME NEW x \in Scopes
      PROVE  /\ Cardinality(RoomsOf(x))' <= 1 + lnMemory'.cancels[x]
             /\ locks'[x] # 0 \/ Homeless(x)' => Cardinality(Filed(x))' <= lnMemory'.cancels[x]
  <2>1. Filed(x)' \subseteq Filed(x)
    <3>1. RoomsOf(x)' \subseteq RoomsOf(x) \cup {Len(chats) + 1}
      BY <1>1, <1>2, RoomAdded
    <3> QED BY <1>5, <3>1 DEF Filed
  <2>2. Cardinality(Filed(x)') <= Cardinality(Filed(x)) /\ Cardinality(Filed(x)') \in Nat /\ Cardinality(Filed(x)) \in Nat
    BY <2>1, RoomsFinite, FS_Subset, FS_CardinalityType
  <2>3. Cardinality(Filed(x))' = Cardinality(Filed(x)') /\ (Homeless(x)' => Homeless(x))
    BY <1>1 DEF Homeless, Scope
  <2>4. lnMemory.cancels[x] \in Nat /\ Cardinality(RoomsOf(x)) \in Nat
    BY RoomsFinite DEF TypeInv, Memory
  <2>5. Cardinality(RoomsOf(x))' \in Nat
    <3>1. TypeInv' => IsFiniteSet(RoomsOf(x)') /\ Cardinality(RoomsOf(x)') \in Nat
      <4>1. TypeInv' => IsFiniteSet(DOMAIN chats') /\ RoomsOf(x)' \subseteq DOMAIN chats'
        BY FS_Interval DEF TypeInv, RoomsOf
      <4> QED BY <4>1, FS_Subset, FS_CardinalityType
    <3> QED BY <3>1
  <2>6. locks'[x] # 0 \/ Homeless(x)' => Cardinality(Filed(x))' <= lnMemory'.cancels[x]
    BY <1>1, <2>2, <2>3, <2>4 DEF RoomsInv
  <2>7. Cardinality(RoomsOf(x))' <= 1 + lnMemory'.cancels[x]
    <3>1. CASE x = Scope(s)
      <4>1. Cardinality(RoomsOf(x)) <= lnMemory.cancels[x]
        BY <1>3, <1>6, <3>1 DEF RoomsInv
      <4>2. Cardinality(RoomsOf(x))' <= Cardinality(RoomsOf(x)) + 1
        BY <1>1, <1>2, RoomAdded
      <4>3. PICK n \in Nat : n = lnMemory.cancels[x] /\ n = lnMemory'.cancels[x]
        BY <1>1, <2>4
      <4>4. Cardinality(RoomsOf(x))' \in Nat
        BY <2>5
      <4> QED BY <2>4, <4>1, <4>2, <4>3, <4>4
    <3>2. CASE x # Scope(s)
      <4>1. RoomsOf(x)' = RoomsOf(x)
        BY <1>1, <1>2, <3>2, RoomAdded
      <4> QED BY <1>1, <4>1 DEF RoomsInv
    <3> QED BY <3>1, <3>2
  <2> QED BY <2>6, <2>7
<1> QED BY <1>1, <1>4, <1>7 DEF RoomsInv

\* The record of a scope's new room is saved: the scope is no more without one, and no
\* other scope's rooms change.
LEMMA CreatedSettled ==
  ASSUME TypeInv, OneAtATime, LocksInv, MadeInv, RoomsInv, NEW d \in Deliveries, RoomCreated(d)
  PROVE  ScopeSettled
<1> DEFINE s == SessionOf(d)
           r == webhooks[d].fresh
<1>1. /\ webhooks[d].pc = "created" /\ chats' = chats /\ byIssue' = byIssue /\ Saves(r) /\ Upsert(r)
      /\ locks' = [locks EXCEPT ![Scope(s)] = 0]
  BY DEF RoomCreated, Unlocked, Saves
<1>2. s \in Sessions /\ Scope(s) \in Scopes
  BY <1>1, EventsTyped DEF Scope, Scopes
<1>3. r \in Record /\ r.of = s /\ r.st = "active" /\ r.room \in DOMAIN chats /\ chats[r.room] = s
  BY <1>1 DEF MadeInv, TypeInv, Delivery
<1> HIDE DEF r
<1>4. lnMemory'.aside = lnMemory.aside /\ lnMemory'.cancels = Canceled(r)
  BY <1>1, <1>3, SavesTyped DEF Saves
<1>5. Unrecorded(Deliveries) \subseteq Unrecorded(Deliveries)' \cup {r.room}
  <2>1. \A b \in Deliveries : b # d =>
          webhooks'[b] = webhooks[b] \/ (webhooks[b].pc # "created" /\ webhooks'[b].pc # "created")
    BY CreatingAlone DEF Creates
  <2> QED BY <2>1 DEF Unrecorded, r
<1>6. ASSUME NEW x \in Scopes
      PROVE  /\ RoomsOf(x)' \subseteq RoomsOf(x)
             /\ locks'[x] # 0 \/ Homeless(x)' => Filed(x)' \subseteq Filed(x)
             /\ locks'[x] # 0 => locks[x] # 0
  <2>1. RoomsOf(x)' = RoomsOf(x)
    BY <1>1, <1>4 DEF RoomsOf, Scope
  <2>2. CASE x = Scope(s)
    <3>1. locks'[x] = 0
      BY <1>1, <1>2, <2>2 DEF LocksInv
    <3>2. ~Homeless(x)'
      <4>1. PICK o \in Sessions : o = s
        BY <1>2
      <4>2. records'[o] = r
        BY <1>1, <1>3, <4>1 DEF Upsert, TypeInv
      <4>3. Live(records'[o])
        BY <1>3, <4>2 DEF Live
      <4>4. Scope(o)' = x
        BY <1>1, <2>2, <4>1 DEF Scope
      <4> QED BY <4>3, <4>4 DEF Homeless, Live
    <3> QED BY <2>1, <3>1, <3>2
  <2>3. CASE x # Scope(s)
    <3>1. r.room \notin RoomsOf(x) /\ locks'[x] = locks[x]
      BY <1>1, <1>2, <1>3, <2>3 DEF RoomsOf, LocksInv
    <3> QED BY <1>5, <2>1, <3>1 DEF Filed
  <2> QED BY <2>2, <2>3
<1>7. lnMemory'.aside \subseteq DOMAIN chats'
  BY <1>1, <1>4 DEF RoomsInv
<1>8. \A x \in Scopes :
        /\ lnMemory.cancels[x] <= lnMemory'.cancels[x]
        /\ Homeless(x)' => Homeless(x) \/ lnMemory.cancels[x] < lnMemory'.cancels[x]
  BY <1>1, <1>3, <1>4, SavesCount
<1> QED BY <1>6, <1>7, <1>8 DEF ScopeSettled

\* Rooms that are set aside while they await their record, by an error or by a restart.
LEMMA AsideSettled ==
  ASSUME TypeInv, MadeInv, RoomsInv, UNCHANGED <<records, chats, byIssue>>,
         NEW D \in SUBSET Deliveries, lnMemory'.aside = lnMemory.aside \cup Unrecorded(D),
         lnMemory'.cancels = lnMemory.cancels, Unrecorded(Deliveries) \subseteq Unrecorded(Deliveries)' \cup Unrecorded(D),
         \A x \in Scopes : locks'[x] # 0 => locks[x] # 0
  PROVE  ScopeSettled
<1>1. Unrecorded(D) \subseteq DOMAIN chats
  BY DEF Unrecorded, MadeInv
<1>2. ASSUME NEW x \in Scopes PROVE RoomsOf(x)' \subseteq RoomsOf(x) /\ Filed(x)' \subseteq Filed(x)
  <2>1. RoomsOf(x)' = RoomsOf(x) \ Unrecorded(D)
    BY DEF RoomsOf, Scope
  <2> QED BY <2>1 DEF Filed
<1>3. \A x \in Scopes : lnMemory.cancels[x] \in Nat /\ (Homeless(x)' => Homeless(x))
  BY DEF TypeInv, Memory, Homeless, Scope
<1> QED BY <1>1, <1>2, <1>3 DEF ScopeSettled, RoomsInv

LEMMA FailedSettled ==
  ASSUME TypeInv, LocksInv, MadeInv, RoomsInv, NEW d \in Deliveries, CreationFails(d)
  PROVE  ScopeSettled
<1>1. /\ UNCHANGED <<records, chats, byIssue>> /\ locks' = [locks EXCEPT ![Scope(SessionOf(d))] = 0]
      /\ lnMemory'.aside = lnMemory.aside \cup Unrecorded({d}) /\ lnMemory'.cancels = lnMemory.cancels
  BY AsideTyped DEF CreationFails, Unlocked
<1>2. Unrecorded(Deliveries) \subseteq Unrecorded(Deliveries)' \cup Unrecorded({d})
  <2>1. \A b \in Deliveries : b # d =>
          webhooks'[b] = webhooks[b] \/ (webhooks[b].pc # "created" /\ webhooks'[b].pc # "created")
    BY CreatingAlone DEF Creates
  <2> QED BY <2>1 DEF Unrecorded
<1>3. \A x \in Scopes : locks'[x] # 0 => locks[x] # 0
  BY <1>1 DEF LocksInv
<1> QED BY <1>1, <1>2, <1>3, AsideSettled

\* A room that takes the place of one that Band lost is none of its scope's.
LEMMA RecreatedSettled ==
  ASSUME TypeInv, OneAtATime, RoomsInv, NEW d \in Deliveries, RoomRecreated(d)
  PROVE  ScopeSettled
<1> DEFINE s == SessionOf(d)
<1>1. /\ webhooks[d].pc = "resolved" /\ UNCHANGED <<records, locks, byIssue>> /\ chats' = Append(chats, s)
      /\ lnMemory' = [lnMemory EXCEPT !.aside = @ \cup {NewRecord(s).room}]
  BY DEF RoomRecreated
<1>2. s \in Sessions /\ NewRecord(s).room = Len(chats) + 1 /\ Len(chats) \in Nat
  BY <1>1, EventsTyped DEF NewRecord, TypeInv
<1>3. lnMemory'.aside = lnMemory.aside \cup {Len(chats) + 1} /\ lnMemory'.cancels = lnMemory.cancels
  BY <1>1, <1>2, AsideTyped
<1>4. Unrecorded(Deliveries)' = Unrecorded(Deliveries)
  <2>1. DeliveryMoves(d) /\ ~Creates(d)
    BY <1>1 DEF DeliveryMoves, Creates, BandMakesRoom, RoomCreated, CreationFails
  <2> QED BY <2>1, DeliveryAlone, RecordsRest
<1>5. \A x \in Scopes : RoomsOf(x)' = RoomsOf(x)
  BY <1>1, <1>2, <1>3, RoomAdded
<1>6. \A x \in Scopes : Filed(x)' = Filed(x)
  BY <1>4, <1>5 DEF Filed
<1>7. lnMemory'.aside \subseteq DOMAIN chats'
  BY <1>1, <1>2, <1>3 DEF RoomsInv, TypeInv
<1>8. \A x \in Scopes : lnMemory.cancels[x] \in Nat /\ (Homeless(x)' => Homeless(x))
  BY <1>1 DEF TypeInv, Memory, Homeless, Scope
<1> QED BY <1>1, <1>3, <1>5, <1>6, <1>7, <1>8 DEF ScopeSettled

\* No step makes a room too many.
LEMMA NextRooms ==
  ASSUME TypeInv, TypeInv', OneAtATime, RoomIndInv, [LinearNext]_linearVars
  PROVE  RoomIndInv'
<1> USE DEF RoomIndInv
<1>1. FiledInv' /\ LocksInv' /\ MadeInv'
  BY NextFiled, NextLocks, NextMade
<1>2. ASSUME NEW d \in Deliveries, DeliveryMoves(d) PROVE RoomsInv'
  <2>1. CASE BandMakesRoom(d)
    BY <2>1, MadeRooms
  <2>2. CASE RoomCreated(d) \/ CreationFails(d) \/ RoomRecreated(d)
    BY <2>2, CreatedSettled, FailedSettled, RecreatedSettled, SettledRooms
  <2>3. CASE ~Creates(d) /\ ~RoomRecreated(d)
    BY <1>2, <2>3, DeliverySettled, SettledRooms
  <2> QED BY <2>1, <2>2, <2>3 DEF Creates
<1>3. ASSUME NEW s \in Sessions, SessionCompletes(s) PROVE RoomsInv'
  <2> DEFINE done == [records[s] EXCEPT !.st = "completed"]
  <2>1. done \in Record /\ done.st # "none"
    <3>1. \A r \in Record : \A st \in Statuses : [r EXCEPT !.st = st].st = st
      BY DEF Record
    <3>2. records[s] \in Record /\ "completed" \in Statuses
      BY DEF TypeInv, Statuses
    <3> QED BY <3>1, <3>2, RecordsTyped
  <2>2. Upsert(done) /\ lnMemory' = Upsetting(Kept(done)) /\ UNCHANGED <<chats, locks, byIssue>>
    BY <1>3 DEF SessionCompletes
  <2> HIDE DEF done
  <2>3. Kept(done) \in Memory /\ Kept(done).aside = lnMemory.aside /\ Kept(done).cancels = Canceled(done)
    BY <2>1, <2>2, SavesTyped
  <2>4. lnMemory'.aside = lnMemory.aside /\ lnMemory'.cancels = Canceled(done)
    BY <2>2, <2>3 DEF Upsetting, Memory
  <2>6. Unrecorded(Deliveries)' = Unrecorded(Deliveries)
    BY <1>3 DEF SessionCompletes, Unrecorded
  <2>5. ScopeSettled
    BY <2>1, <2>2, <2>4, <2>6, SavesSettled DEF RoomsUntouched
  <2> QED BY <2>5, SettledRooms
<1>4. ASSUME NEW s \in Sessions, GuardKeeps(s) PROVE RoomsInv'
  <2>1. guard[s] \in Record /\ guard[s].st # "none" /\ UNCHANGED <<chats, locks, byIssue>>
    BY <1>4 DEF GuardKeeps, TypeInv, FiledInv
  <2>4. Unrecorded(Deliveries)' = Unrecorded(Deliveries)
    BY <1>4 DEF GuardKeeps, Unrecorded
  <2>2. CASE Saves(guard[s])
    BY <2>1, <2>2, <2>4, SavedSettled, SettledRooms
  <2>3. CASE UNCHANGED <<records, lnMemory>>
    BY <2>1, <2>3, <2>4, IdleSettled, SettledRooms DEF RoomsUntouched
  <2> QED BY <1>4, <2>2, <2>3 DEF GuardKeeps
<1>5. CASE GuardTicks \/ UNCHANGED linearVars
  <2>1. /\ UNCHANGED <<records, webhooks, chats, locks, byIssue>> /\ lnMemory'.aside = lnMemory.aside
        /\ lnMemory'.cancels = lnMemory.cancels
    BY <1>5 DEF GuardTicks, linearVars, Upsetting, TypeInv, Memory
  <2>2. Unrecorded(Deliveries)' = Unrecorded(Deliveries)
    BY <2>1 DEF Unrecorded
  <2>3. ScopeSettled
    BY <2>1, <2>2, IdleSettled DEF RoomsUntouched
  <2> QED BY <1>1, <2>3, SettledRooms
<1>6. CASE BridgeRestarts
  <2>1. /\ UNCHANGED <<records, chats, byIssue>> /\ locks' = [x \in Scopes |-> 0]
        /\ lnMemory'.aside = lnMemory.aside \cup Unrecorded(Deliveries) /\ lnMemory'.cancels = lnMemory.cancels
    BY <1>6 DEF BridgeRestarts, Upsetting, TypeInv, Memory
  <2>2. ScopeSettled
    BY <2>1, AsideSettled
  <2> QED BY <1>1, <2>2, SettledRooms
<1> QED BY <1>1, <1>2, <1>3, <1>4, <1>5, <1>6 DEF LinearNext

\* Nothing is recorded, locked or created at first.
LEMMA InitRooms == LinearInit => RoomIndInv
<1> SUFFICES ASSUME LinearInit PROVE RoomIndInv
  OBVIOUS
<1>1. FiledInv
  BY Zero DEF LinearInit, FiledInv
<1>2. LocksInv
  BY Zero DEF LinearInit, LocksInv
<1>4. MadeInv
  BY Zero DEF LinearInit, MadeInv
<1>3. RoomsInv
  <2>1. \A x : RoomsOf(x) = {} /\ Filed(x) = {}
    BY DEF LinearInit, RoomsOf, Filed
  <2>2. \A x \in Scopes : lnMemory.cancels[x] = 0
    BY DEF LinearInit
  <2>3. lnMemory.aside = {}
    BY DEF LinearInit
  <2> QED BY <2>1, <2>2, <2>3, FS_EmptySet DEF RoomsInv
<1> QED BY <1>1, <1>2, <1>3, <1>4 DEF RoomIndInv

\* However deliveries of a scope's events overlap, fail and are retried, one room is made
\* for it, and one more for each of its records that was canceled; those aside that replace
\* one Band lost, or whose making was lost between Band's answer and the saved record.
THEOREM RoomsStaySingle == LinearSpec => []RoomsAreNotDoubled
<1>1. IndInv /\ RoomIndInv /\ [LinearNext]_linearVars => (IndInv /\ RoomIndInv)'
  <2>1. IndInv => TypeInv /\ OneAtATime
    BY DEF IndInv
  <2>2. IndInv' => TypeInv'
    BY DEF IndInv
  <2> QED BY <2>1, <2>2, NextFollowed, NextRooms
<1>2. RoomIndInv => RoomsAreNotDoubled
  BY DEF RoomIndInv, RoomsInv, RoomsAreNotDoubled, Scope, Scopes
<1> QED BY <1>1, <1>2, InitFollowed, InitRooms, PTL DEF LinearSpec

-----------------------------------------------------------------------------
(* The A2A adapter's tasks.                                                *)

TaskStates == {"none", "open", "input", "over"}
SomeTask == Tasks \cup {0}
A2ATurn ==
  [pc : {"none", "rehydrating", "sending", "streaming", "telling", "over"}, sender : Senders \cup {Nobody}, life : Nat,
   task : SomeTask, told : TaskStates, to : Senders \cup {Nobody}]
RemoteTask == [state : TaskStates, context : SomeTask, asker : Senders \cup {Nobody}, life : Nat]
RoomOfTasks == [life : Nat \ {0}, fresh : BOOLEAN, task : SomeTask, state : TaskStates, context : SomeTask]
TaskMemory ==
  [ended : SUBSET SomeTask, disturbed : BOOLEAN, lost : BOOLEAN, joined : SUBSET SomeTask, astray : SUBSET SomeTask,
   stale : SUBSET SomeTask, dropped : SUBSET SomeTask]
A2AType ==
  /\ a2a \in [context : SomeTask, task : SomeTask, senders : [Tasks -> Senders \cup {Nobody}]]
  /\ a2aTurns \in [A2ATurns -> A2ATurn] /\ remote \in [Tasks -> RemoteTask]
  /\ a2aRoom \in RoomOfTasks /\ a2aMemory \in TaskMemory

\* A turn at work has a sender, and its task is one the remote has.
TurnHolds(turns, tasks, now) ==
  \A i \in A2ATurns :
    /\ turns[i].life <= now
    /\ turns[i].pc \notin {"none", "over"} => turns[i].sender \in Senders
    /\ turns[i].pc \in {"streaming", "telling"} => turns[i].task \in Tasks /\ tasks[turns[i].task].state # "none"
\* A life runs a turn at a time.
OneAtATimeOf(turns, now) ==
  \A i, j \in A2ATurns :
    turns[i].life = now /\ turns[j].life = now /\ {turns[i].pc, turns[j].pc} \cap {"none", "over"} = {} => i = j
TasksHold(tasks, now) ==
  \A t \in Tasks : tasks[t].life <= now /\ (tasks[t].state # "none" => tasks[t].asker \in Senders)
\* The room and its history know only tasks that the remote has.
TasksKnown(memo, room0, tasks, turns) ==
  /\ memo.task # 0 => tasks[memo.task].state # "none"
  /\ \A t \in Tasks : memo.senders[t] # Nobody => tasks[t].state # "none"
  /\ room0.task # 0 => tasks[room0.task].state # "none"
  /\ \A i \in A2ATurns : turns[i].pc = "rehydrating" => room0.task # 0
\* Until the first turn of a life has taken up its history's task, no task is of that life.
NoneYet(room0, tasks, turns) ==
  /\ room0.fresh => \A i \in A2ATurns : turns[i].life # room0.life
  /\ room0.fresh \/ (\E i \in A2ATurns : turns[i].life = room0.life /\ turns[i].pc = "rehydrating")
       => \A t \in Tasks : tasks[t].life # room0.life
\* Who is remembered as having opened a task of this life did, and the room's own task has
\* who opened it remembered; so has a turn's, or the turn is theirs.
SendersHold(memo, turns, tasks, now) ==
  \A t \in Tasks :
    tasks[t].life = now =>
      /\ memo.senders[t] \in {Nobody, tasks[t].asker}
      /\ memo.task = t => memo.senders[t] = tasks[t].asker
      /\ \A i \in A2ATurns :
           turns[i].life = now /\ turns[i].pc \in {"streaming", "telling"} /\ turns[i].task = t /\ memo.senders[t] = Nobody
             => turns[i].sender = tasks[t].asker
TasksInv ==
  /\ A2AType
  /\ TurnHolds(a2aTurns, remote, a2aRoom.life) /\ OneAtATimeOf(a2aTurns, a2aRoom.life) /\ TasksHold(remote, a2aRoom.life)
  /\ TasksKnown(a2a, a2aRoom, remote, a2aTurns) /\ NoneYet(a2aRoom, remote, a2aTurns)
  /\ ~a2aMemory.disturbed => SendersHold(a2a, a2aTurns, remote, a2aRoom.life)
  /\ AnswersMentionTheAsker

\* A turn at work on a task that another user opened has taken it up.
OnTask(i) == a2aTurns[i].pc \in {"streaming", "telling"}
JoinedInv ==
  \A i \in A2ATurns :
    OnTask(i) /\ a2aTurns[i].sender # remote[a2aTurns[i].task].asker => a2aTurns[i].task \in a2aMemory.joined

LEMMA TasksStart == A2AInit => TasksInv /\ JoinedInv
<1> SUFFICES ASSUME A2AInit PROVE TasksInv /\ JoinedInv
  OBVIOUS
<1>1. /\ a2a.task = 0 /\ \A t \in Tasks : a2a.senders[t] = Nobody
      /\ \A i \in A2ATurns : a2aTurns[i].pc = "none" /\ a2aTurns[i].life = 0
      /\ \A t \in Tasks : remote[t].state = "none" /\ remote[t].life = 0
      /\ a2aRoom.life = 1 /\ a2aRoom.task = 0 /\ ~a2aMemory.disturbed
  BY DEF A2AInit, Forgotten, NoA2ATurn
<1>2. A2AType
  BY DEF A2AInit, A2AType, Forgotten, NoA2ATurn, A2ATurn, RemoteTask, RoomOfTasks, TaskMemory, SomeTask, TaskStates
<1>3. /\ TurnHolds(a2aTurns, remote, a2aRoom.life) /\ OneAtATimeOf(a2aTurns, a2aRoom.life) /\ TasksHold(remote, a2aRoom.life)
      /\ TasksKnown(a2a, a2aRoom, remote, a2aTurns) /\ NoneYet(a2aRoom, remote, a2aTurns)
      /\ SendersHold(a2a, a2aTurns, remote, a2aRoom.life)
  BY <1>1 DEF TurnHolds, OneAtATimeOf, TasksHold, TasksKnown, NoneYet, SendersHold
<1>4. JoinedInv
  BY <1>1 DEF JoinedInv, OnTask
<1> QED BY <1>2, <1>3, <1>4 DEF TasksInv, A2AInit, AnswersMentionTheAsker

\* What one turn's step does to it.
LEMMA TurnMoved ==
  ASSUME A2AType, NEW i \in A2ATurns, NEW m \in A2ATurn, a2aTurns' = [a2aTurns EXCEPT ![i] = m]
  PROVE  /\ a2aTurns' \in [A2ATurns -> A2ATurn] /\ a2aTurns'[i] = m
         /\ \A j \in A2ATurns \ {i} : a2aTurns'[j] = a2aTurns[j]
BY DEF A2AType

\* A turn of a life keeps its place: it goes no further than it was, or is over.
LEMMA TurnAtIs ==
  ASSUME A2AType, NEW i \in A2ATurns, NEW pc \in {"sending", "streaming", "telling", "over"}, TurnAt(i, pc)
  PROVE  /\ a2aTurns' \in [A2ATurns -> A2ATurn]
         /\ \A j \in A2ATurns \ {i} : a2aTurns'[j] = a2aTurns[j]
         /\ a2aTurns'[i].pc = pc /\ a2aTurns'[i].life = a2aTurns[i].life /\ a2aTurns'[i].sender = a2aTurns[i].sender
         /\ a2aTurns'[i].task = a2aTurns[i].task
<1>1. a2aTurns[i] \in A2ATurn
  BY DEF A2AType
<1> DEFINE m == [a2aTurns[i] EXCEPT !.pc = pc]
<1>2. m \in A2ATurn /\ m.pc = pc /\ m.life = a2aTurns[i].life /\ m.sender = a2aTurns[i].sender /\ m.task = a2aTurns[i].task
  BY <1>1 DEF A2ATurn
<1>3. a2aTurns' = [a2aTurns EXCEPT ![i] = m]
  BY DEF TurnAt, A2AType
<1> HIDE DEF m
<1> QED BY <1>2, <1>3, TurnMoved

LEMMA A2ATurnStartKeeps == ASSUME TasksInv, NEW i \in A2ATurns, NEW s \in Senders, A2ATurnStarts(i, s) PROVE TasksInv'
<1> DEFINE pc == IF a2aRoom.fresh /\ a2aRoom.task # 0 /\ a2aRoom.state # "over" THEN "rehydrating" ELSE "sending"
           m == [NoA2ATurn EXCEPT !.sender = s, !.life = a2aRoom.life, !.pc = pc]
           context == IF a2aRoom.fresh /\ a2aRoom.context # 0 THEN a2aRoom.context ELSE a2a.context
<1>1. A2AType
  BY DEF TasksInv
<1>2. /\ a2aTurns' = [a2aTurns EXCEPT ![i] = m] /\ a2a' = [a2a EXCEPT !.context = context]
      /\ a2aRoom' = [a2aRoom EXCEPT !.fresh = FALSE] /\ remote' = remote /\ a2aMemory' = a2aMemory
      /\ a2aTurns[i].pc = "none"
      /\ \A j \in A2ATurns : a2aTurns[j].life = a2aRoom.life => a2aTurns[j].pc = "over"
  BY DEF A2ATurnStarts, OfThisLife
<1>3. pc \in {"rehydrating", "sending"} /\ (pc = "rehydrating" => a2aRoom.fresh /\ a2aRoom.task # 0) /\ context \in SomeTask
  BY <1>1 DEF A2AType, RoomOfTasks
<1> HIDE DEF pc, context
<1>4. m \in A2ATurn /\ m.pc = pc /\ m.sender = s /\ m.life = a2aRoom.life
  BY <1>1, <1>3 DEF NoA2ATurn, A2ATurn, A2AType, RoomOfTasks, SomeTask, TaskStates
<1> HIDE DEF m
<1>5. /\ a2aTurns' \in [A2ATurns -> A2ATurn] /\ a2aTurns'[i] = m /\ \A j \in A2ATurns \ {i} : a2aTurns'[j] = a2aTurns[j]
  BY <1>1, <1>2, <1>4, TurnMoved
<1>6. /\ a2a' \in [context : SomeTask, task : SomeTask, senders : [Tasks -> Senders \cup {Nobody}]]
      /\ a2a'.task = a2a.task /\ a2a'.senders = a2a.senders
  BY <1>1, <1>2, <1>3 DEF A2AType
<1>7. a2aRoom' \in RoomOfTasks /\ a2aRoom'.life = a2aRoom.life /\ a2aRoom'.task = a2aRoom.task /\ ~a2aRoom'.fresh /\ a2aRoom.life \in Nat
  BY <1>1, <1>2 DEF A2AType, RoomOfTasks
<1>8. A2AType'
  BY <1>1, <1>2, <1>5, <1>6, <1>7 DEF A2AType
<1>9. TurnHolds(a2aTurns', remote', a2aRoom'.life)
  BY <1>2, <1>3, <1>4, <1>5, <1>7 DEF TasksInv, TurnHolds
<1>10. OneAtATimeOf(a2aTurns', a2aRoom'.life)
  BY <1>2, <1>5, <1>7 DEF OneAtATimeOf
<1>11. TasksHold(remote', a2aRoom'.life)
  BY <1>2, <1>7 DEF TasksInv
<1>12. TasksKnown(a2a', a2aRoom', remote', a2aTurns')
  BY <1>2, <1>3, <1>4, <1>5, <1>6, <1>7 DEF TasksInv, TasksKnown
<1>13. NoneYet(a2aRoom', remote', a2aTurns')
  BY <1>2, <1>3, <1>4, <1>5, <1>7 DEF TasksInv, NoneYet
<1>14. ~a2aMemory'.disturbed => SendersHold(a2a', a2aTurns', remote', a2aRoom'.life)
  BY <1>2, <1>3, <1>4, <1>5, <1>6, <1>7 DEF TasksInv, SendersHold
<1> QED BY <1>2, <1>8, <1>9, <1>10, <1>11, <1>12, <1>13, <1>14 DEF TasksInv, AnswersMentionTheAsker

\* A turn that has asked for its history's task goes on to send.
LEMMA RehydratedKeeps == ASSUME TasksInv, NEW i \in A2ATurns, Resubscribed(i) \/ ResubscribeFails(i) PROVE TasksInv'
<1>1. A2AType /\ a2aTurns[i].pc = "rehydrating" /\ TurnAt(i, "sending") /\ remote' = remote /\ a2aRoom' = a2aRoom
  BY DEF TasksInv, Resubscribed, ResubscribeFails
<1>2. /\ a2aTurns' \in [A2ATurns -> A2ATurn]
      /\ \A j \in A2ATurns \ {i} : a2aTurns'[j] = a2aTurns[j]
      /\ a2aTurns'[i].pc = "sending" /\ a2aTurns'[i].life = a2aTurns[i].life /\ a2aTurns'[i].sender = a2aTurns[i].sender
  BY <1>1, TurnAtIs
<1>3. a2aRoom.task \in Tasks /\ remote[a2aRoom.task].state # "none" /\ a2aRoom.task # 0
  BY <1>1 DEF TasksInv, TasksKnown, A2AType, RoomOfTasks, SomeTask
<1>4. /\ a2a' \in [context : SomeTask, task : SomeTask, senders : [Tasks -> Senders \cup {Nobody}]]
      /\ a2a'.senders = a2a.senders /\ a2a'.task \in {a2a.task, a2aRoom.task}
      /\ a2a'.task = a2a.task \/ Resubscribed(i)
  <2>1. CASE Resubscribed(i)
    <3> DEFINE context == remote[a2aRoom.task].context
               task == IF remote[a2aRoom.task].state # "over" THEN a2aRoom.task ELSE a2a.task
    <3>1. context \in SomeTask /\ task \in SomeTask /\ task \in {a2a.task, a2aRoom.task}
      BY <1>1, <1>3 DEF A2AType, RemoteTask, SomeTask
    <3>2. a2a' = [a2a EXCEPT !.context = context, !.task = task]
      BY <2>1 DEF Resubscribed
    <3> HIDE DEF context, task
    <3> QED BY <1>1, <2>1, <3>1, <3>2 DEF A2AType
  <2>2. CASE ResubscribeFails(i)
    BY <1>1, <2>2 DEF ResubscribeFails, A2AType
  <2> QED BY <2>1, <2>2
<1>5. /\ a2aMemory' \in TaskMemory /\ a2aMemory'.astray = a2aMemory.astray
      /\ Resubscribed(i) => a2aMemory'.disturbed = (a2aMemory.disturbed \/ a2aTurns[i].life # a2aRoom.life)
      /\ ~Resubscribed(i) => a2aMemory'.disturbed = a2aMemory.disturbed
  <2>1. a2aMemory \in TaskMemory
    BY <1>1 DEF A2AType
  <2>2. CASE Resubscribed(i)
    <3> DEFINE upset == a2aMemory.disturbed \/ a2aTurns[i].life # a2aRoom.life
    <3>1. a2aMemory' = [a2aMemory EXCEPT !.disturbed = upset] /\ upset \in BOOLEAN
      BY <2>1, <2>2 DEF Resubscribed, Late, OfThisLife, TaskMemory
    <3> HIDE DEF upset
    <3>2. a2aMemory' \in TaskMemory /\ a2aMemory'.astray = a2aMemory.astray /\ a2aMemory'.disturbed = upset
      BY <2>1, <3>1 DEF TaskMemory
    <3> QED BY <2>2, <3>2 DEF upset
  <2>3. CASE ~Resubscribed(i)
    <3>1. a2aMemory' = [a2aMemory EXCEPT !.lost = TRUE]
      BY <2>3 DEF ResubscribeFails
    <3> QED BY <2>1, <2>3, <3>1 DEF TaskMemory
  <2> QED BY <2>2, <2>3
<1>6. A2AType'
  BY <1>1, <1>2, <1>4, <1>5 DEF A2AType
<1>7. TurnHolds(a2aTurns', remote', a2aRoom'.life) /\ OneAtATimeOf(a2aTurns', a2aRoom'.life) /\ TasksHold(remote', a2aRoom'.life)
  <2>1. TurnHolds(a2aTurns', remote', a2aRoom'.life)
    BY <1>1, <1>2 DEF TasksInv, TurnHolds
  <2>2. OneAtATimeOf(a2aTurns', a2aRoom'.life)
    BY <1>1, <1>2 DEF TasksInv, OneAtATimeOf
  <2> QED BY <1>1, <2>1, <2>2 DEF TasksInv
<1>8. TasksKnown(a2a', a2aRoom', remote', a2aTurns')
  BY <1>1, <1>2, <1>3, <1>4 DEF TasksInv, TasksKnown
<1>9. NoneYet(a2aRoom', remote', a2aTurns')
  BY <1>1, <1>2 DEF TasksInv, NoneYet
<1>10. ~a2aMemory'.disturbed => SendersHold(a2a', a2aTurns', remote', a2aRoom'.life)
  <2> SUFFICES ASSUME ~a2aMemory'.disturbed PROVE SendersHold(a2a', a2aTurns', remote', a2aRoom'.life)
    OBVIOUS
  <2>1. SendersHold(a2a, a2aTurns, remote, a2aRoom.life)
    BY <1>5 DEF TasksInv
  <2>2. CASE a2a'.task = a2a.task
    BY <1>1, <1>2, <1>4, <2>1, <2>2 DEF SendersHold
  <2>3. CASE a2a'.task # a2a.task
    <3>1. a2aTurns[i].life = a2aRoom.life
      BY <1>4, <1>5, <2>3
    <3>2. \A t \in Tasks : remote[t].life # a2aRoom.life
      BY <1>1, <3>1 DEF TasksInv, NoneYet
    <3> QED BY <1>1, <3>2 DEF SendersHold
  <2> QED BY <2>2, <2>3
<1> QED BY <1>5, <1>6, <1>7, <1>8, <1>9, <1>10 DEF TasksInv, AnswersMentionTheAsker

\* The remote opens a task for a message, or takes the message up in the room's task.
LEMMA RequestSentKeeps == ASSUME TasksInv, NEW i \in A2ATurns, RequestSent(i) PROVE TasksInv'
<1>1. A2AType /\ a2aTurns[i].pc = "sending" /\ a2a' = a2a /\ a2aRoom' = a2aRoom
  BY DEF TasksInv, RequestSent
<1>2. /\ a2aTurns[i] \in A2ATurn /\ a2aTurns[i].sender \in Senders /\ a2aTurns[i].life \in Nat /\ a2aTurns[i].life <= a2aRoom.life
      /\ a2aRoom.life \in Nat
  BY <1>1 DEF TasksInv, TurnHolds, A2AType, A2ATurn, RoomOfTasks
<1>3. a2aMemory' \in TaskMemory /\ a2aMemory'.astray = a2aMemory.astray /\ a2aMemory'.disturbed = a2aMemory.disturbed
  <2> DEFINE stale == IF a2a.task \in a2aMemory.ended /\ ~Reported(a2a.task) THEN a2aMemory.stale \cup {a2a.task} ELSE a2aMemory.stale
             joined == IF a2a.task # 0 /\ a2aTurns[i].sender # remote[a2a.task].asker
                       THEN a2aMemory.joined \cup {a2a.task} ELSE a2aMemory.joined
             dropped == IF Questioned \in {0, a2a.task} \/ a2aMemory.disturbed \/ a2aMemory.lost \/ ~OfThisLife(i)
                        THEN a2aMemory.dropped ELSE a2aMemory.dropped \cup {Questioned}
  <2>1. a2aMemory \in TaskMemory /\ a2a.task \in SomeTask /\ Questioned \in SomeTask
    BY <1>1 DEF A2AType, RoomOfTasks, SomeTask, Questioned
  <2>2. stale \in SUBSET SomeTask /\ joined \in SUBSET SomeTask /\ dropped \in SUBSET SomeTask
    BY <2>1 DEF TaskMemory
  <2>3. a2aMemory' = [a2aMemory EXCEPT !.stale = stale, !.joined = joined, !.dropped = dropped]
    BY DEF RequestSent
  <2> HIDE DEF stale, joined, dropped
  <2> QED BY <2>1, <2>2, <2>3 DEF TaskMemory
<1>4. CASE TurnAt(i, "over") /\ remote' = remote
  <2>1. /\ a2aTurns' \in [A2ATurns -> A2ATurn]
        /\ \A j \in A2ATurns \ {i} : a2aTurns'[j] = a2aTurns[j]
        /\ a2aTurns'[i].pc = "over" /\ a2aTurns'[i].life = a2aTurns[i].life
    BY <1>1, <1>4, TurnAtIs
  <2>2. A2AType'
    BY <1>1, <1>3, <1>4, <2>1 DEF A2AType
  <2>3. TurnHolds(a2aTurns', remote', a2aRoom'.life)
    BY <1>1, <1>4, <2>1 DEF TasksInv, TurnHolds
  <2>4. OneAtATimeOf(a2aTurns', a2aRoom'.life)
    BY <1>1, <1>4, <2>1 DEF TasksInv, OneAtATimeOf
  <2>5. TasksHold(remote', a2aRoom'.life)
    BY <1>1, <1>4 DEF TasksInv
  <2>6. TasksKnown(a2a', a2aRoom', remote', a2aTurns')
    BY <1>1, <1>4, <2>1 DEF TasksInv, TasksKnown
  <2>7. NoneYet(a2aRoom', remote', a2aTurns')
    BY <1>1, <1>4, <2>1 DEF TasksInv, NoneYet
  <2>8. ~a2aMemory'.disturbed => SendersHold(a2a', a2aTurns', remote', a2aRoom'.life)
    BY <1>1, <1>3, <1>4, <2>1 DEF TasksInv, SendersHold
  <2> QED BY <1>3, <2>2, <2>3, <2>4, <2>5, <2>6, <2>7, <2>8 DEF TasksInv, AnswersMentionTheAsker
<1>5. CASE \E n \in Tasks : a2aTurns' = [a2aTurns EXCEPT ![i].pc = "streaming", ![i].task = n] /\ remote'[n].state = "open"
                /\ remote' \in [Tasks -> RemoteTask] /\ (\A t \in Tasks \ {n} : remote'[t] = remote[t])
                /\ \/ a2a.task = n /\ remote'[n].life = remote[n].life /\ remote'[n].asker = remote[n].asker /\ remote[n].state # "none"
                   \/ /\ a2a.task = 0 /\ remote[n].state = "none"
                      /\ remote'[n].life = a2aTurns[i].life /\ remote'[n].asker = a2aTurns[i].sender
  <2>1. PICK n \in Tasks :
          /\ a2aTurns' = [a2aTurns EXCEPT ![i].pc = "streaming", ![i].task = n] /\ remote'[n].state = "open"
          /\ remote' \in [Tasks -> RemoteTask] /\ (\A t \in Tasks \ {n} : remote'[t] = remote[t])
          /\ \/ a2a.task = n /\ remote'[n].life = remote[n].life /\ remote'[n].asker = remote[n].asker /\ remote[n].state # "none"
             \/ /\ a2a.task = 0 /\ remote[n].state = "none"
                /\ remote'[n].life = a2aTurns[i].life /\ remote'[n].asker = a2aTurns[i].sender
    BY <1>5
  <2> DEFINE m == [a2aTurns[i] EXCEPT !.pc = "streaming", !.task = n]
  <2>2. m \in A2ATurn /\ m.pc = "streaming" /\ m.task = n /\ m.life = a2aTurns[i].life /\ m.sender = a2aTurns[i].sender
    BY <1>2 DEF A2ATurn, SomeTask
  <2>3. a2aTurns' = [a2aTurns EXCEPT ![i] = m]
    BY <1>1, <2>1 DEF A2AType
  <2> HIDE DEF m
  <2>4. a2aTurns' \in [A2ATurns -> A2ATurn] /\ a2aTurns'[i] = m /\ \A j \in A2ATurns \ {i} : a2aTurns'[j] = a2aTurns[j]
    BY <1>1, <2>2, <2>3, TurnMoved
  <2>5. A2AType'
    BY <1>1, <1>3, <2>1, <2>4 DEF A2AType
  <2>6. \A t \in Tasks : remote[t].state # "none" => remote'[t].state # "none"
    BY <2>1
  <2>7. TurnHolds(a2aTurns', remote', a2aRoom'.life)
    BY <1>1, <1>2, <2>1, <2>2, <2>4, <2>6 DEF TasksInv, TurnHolds
  <2>8. OneAtATimeOf(a2aTurns', a2aRoom'.life)
    BY <1>1, <2>2, <2>4 DEF TasksInv, OneAtATimeOf
  <2>9. TasksHold(remote', a2aRoom'.life)
    <3> SUFFICES ASSUME NEW t \in Tasks
                 PROVE  remote'[t].life <= a2aRoom.life /\ (remote'[t].state # "none" => remote'[t].asker \in Senders)
      BY <1>1 DEF TasksHold
    <3>1. remote[t].life <= a2aRoom.life /\ (remote[t].state # "none" => remote[t].asker \in Senders)
      BY DEF TasksInv, TasksHold
    <3> QED BY <1>2, <2>1, <3>1
  <2>10. TasksKnown(a2a', a2aRoom', remote', a2aTurns')
    <3>1. a2a.task \in SomeTask /\ a2aRoom.task \in SomeTask
      BY <1>1 DEF A2AType, RoomOfTasks
    <3> QED BY <1>1, <2>2, <2>4, <2>6, <3>1 DEF TasksInv, TasksKnown, SomeTask
  <2>11. NoneYet(a2aRoom', remote', a2aTurns')
    <3>1. a2aRoom.fresh => \A j \in A2ATurns : a2aTurns'[j].life # a2aRoom.life
      BY <2>2, <2>4 DEF TasksInv, NoneYet
    <3>2. ASSUME a2aRoom.fresh \/ (\E j \in A2ATurns : a2aTurns'[j].life = a2aRoom.life /\ a2aTurns'[j].pc = "rehydrating"),
                 NEW t \in Tasks
          PROVE  remote'[t].life # a2aRoom.life
      <4>1. a2aRoom.fresh \/ (\E j \in A2ATurns : a2aTurns[j].life = a2aRoom.life /\ a2aTurns[j].pc = "rehydrating")
        BY <2>2, <2>4, <3>2
      <4>2. \A u \in Tasks : remote[u].life # a2aRoom.life
        BY <4>1 DEF TasksInv, NoneYet
      <4>3. a2aTurns[i].life # a2aRoom.life
        <5>1. CASE a2aRoom.fresh
          BY <5>1 DEF TasksInv, NoneYet
        <5>2. CASE ~a2aRoom.fresh
          <6>1. PICK j \in A2ATurns : a2aTurns[j].life = a2aRoom.life /\ a2aTurns[j].pc = "rehydrating"
            BY <4>1, <5>2
          <6> QED BY <1>1, <6>1 DEF TasksInv, OneAtATimeOf
        <5> QED BY <5>1, <5>2
      <4> QED BY <2>1, <4>2, <4>3
    <3> QED BY <1>1, <3>1, <3>2 DEF NoneYet
  <2>12. ~a2aMemory'.disturbed => SendersHold(a2a', a2aTurns', remote', a2aRoom'.life)
    <3> SUFFICES ASSUME ~a2aMemory'.disturbed, NEW t \in Tasks, remote'[t].life = a2aRoom.life
                 PROVE  /\ a2a.senders[t] \in {Nobody, remote'[t].asker}
                        /\ a2a.task = t => a2a.senders[t] = remote'[t].asker
                        /\ \A j \in A2ATurns :
                             a2aTurns'[j].life = a2aRoom.life /\ a2aTurns'[j].pc \in {"streaming", "telling"} /\ a2aTurns'[j].task = t
                                  /\ a2a.senders[t] = Nobody
                               => a2aTurns'[j].sender = remote'[t].asker
      BY <1>1 DEF SendersHold
    <3>1. SendersHold(a2a, a2aTurns, remote, a2aRoom.life)
      BY <1>3 DEF TasksInv
    <3>2. CASE t # n
      BY <2>1, <2>2, <2>4, <3>1, <3>2 DEF SendersHold
    <3>3. CASE t = n /\ remote[n].state = "none"
      <4>1. a2a.task # n /\ a2a.senders[n] = Nobody
        BY <3>3 DEF TasksInv, TasksKnown, Tasks
      <4>2. remote'[n].life = a2aTurns[i].life /\ remote'[n].asker = a2aTurns[i].sender
        BY <2>1, <4>1
      <4>3. \A j \in A2ATurns \ {i} : ~(a2aTurns[j].pc \in {"streaming", "telling"} /\ a2aTurns[j].task = n)
        BY <3>3 DEF TasksInv, TurnHolds
      <4> QED BY <2>2, <2>4, <3>3, <4>1, <4>2, <4>3
    <3>4. CASE t = n /\ remote[n].state # "none"
      <4>1. a2a.task = n /\ remote'[n].life = remote[n].life /\ remote'[n].asker = remote[n].asker
        BY <2>1, <3>4
      <4>2. a2a.senders[n] = remote[n].asker /\ remote[n].asker \in Senders
        BY <3>1, <3>4, <4>1 DEF SendersHold, TasksInv, TasksHold
      <4> QED BY <3>4, <4>1, <4>2, SendersAssumption
    <3> QED BY <3>2, <3>3, <3>4
  <2> QED BY <1>3, <2>5, <2>7, <2>8, <2>9, <2>10, <2>11, <2>12 DEF TasksInv, AnswersMentionTheAsker
<1>6. \/ TurnAt(i, "over") /\ remote' = remote
      \/ \E n \in Tasks : a2aTurns' = [a2aTurns EXCEPT ![i].pc = "streaming", ![i].task = n] /\ remote'[n].state = "open"
                /\ remote' \in [Tasks -> RemoteTask] /\ (\A t \in Tasks \ {n} : remote'[t] = remote[t])
                /\ \/ a2a.task = n /\ remote'[n].life = remote[n].life /\ remote'[n].asker = remote[n].asker /\ remote[n].state # "none"
                   \/ /\ a2a.task = 0 /\ remote[n].state = "none"
                      /\ remote'[n].life = a2aTurns[i].life /\ remote'[n].asker = a2aTurns[i].sender
  <2>1. CASE TurnAt(i, "over") /\ UNCHANGED remote
    BY <2>1
  <2>2. CASE /\ a2a.task # 0 /\ remote[a2a.task].state # "over"
             /\ remote' = [remote EXCEPT ![a2a.task].state = "open"]
             /\ a2aTurns' = [a2aTurns EXCEPT ![i].pc = "streaming", ![i].task = a2a.task]
    <3>1. a2a.task \in Tasks /\ remote[a2a.task].state # "none" /\ remote \in [Tasks -> RemoteTask]
      BY <1>1, <2>2 DEF A2AType, SomeTask, TasksInv, TasksKnown
    <3> DEFINE m == [remote[a2a.task] EXCEPT !.state = "open"]
    <3>2. /\ m \in RemoteTask /\ m.state = "open" /\ m.life = remote[a2a.task].life /\ m.asker = remote[a2a.task].asker
      BY <3>1 DEF RemoteTask, TaskStates
    <3>3. remote' = [remote EXCEPT ![a2a.task] = m]
      BY <2>2, <3>1
    <3> HIDE DEF m
    <3>4. /\ remote'[a2a.task] = m /\ remote' \in [Tasks -> RemoteTask]
          /\ \A t \in Tasks \ {a2a.task} : remote'[t] = remote[t]
      BY <3>1, <3>2, <3>3
    <3>5. /\ remote'[a2a.task].state = "open" /\ remote'[a2a.task].life = remote[a2a.task].life
          /\ remote'[a2a.task].asker = remote[a2a.task].asker
      BY <3>2, <3>4
    <3> QED BY <2>2, <3>1, <3>4, <3>5
  <2>3. ASSUME a2a.task = 0, NEW n \in Tasks, remote[n].state = "none",
               remote' = [remote EXCEPT ![n] = [state |-> "open", asker |-> a2aTurns[i].sender, life |-> a2aTurns[i].life,
                    context |-> IF a2a.context # 0 THEN a2a.context ELSE n]],
               a2aTurns' = [a2aTurns EXCEPT ![i].pc = "streaming", ![i].task = n]
        PROVE  /\ remote'[n].state = "open" /\ remote' \in [Tasks -> RemoteTask] /\ (\A t \in Tasks \ {n} : remote'[t] = remote[t])
               /\ remote'[n].life = a2aTurns[i].life /\ remote'[n].asker = a2aTurns[i].sender
    <3> DEFINE context == IF a2a.context # 0 THEN a2a.context ELSE n
               m == [state |-> "open", asker |-> a2aTurns[i].sender, life |-> a2aTurns[i].life, context |-> context]
    <3>1. context \in SomeTask /\ remote \in [Tasks -> RemoteTask]
      BY <1>1 DEF A2AType, SomeTask
    <3>2. remote' = [remote EXCEPT ![n] = m]
      BY <2>3
    <3> HIDE DEF context
    <3>3. m \in RemoteTask /\ m.state = "open" /\ m.life = a2aTurns[i].life /\ m.asker = a2aTurns[i].sender
      BY <1>2, <3>1 DEF RemoteTask, TaskStates
    <3> HIDE DEF m
    <3> QED BY <3>1, <3>2, <3>3
  <2> QED BY <2>1, <2>2, <2>3 DEF RequestSent
<1> QED BY <1>4, <1>5, <1>6

LEMMA RemoteMovesKeeps == ASSUME TasksInv, NEW n \in Tasks, RemoteMoves(n) PROVE TasksInv'
<1>1. A2AType /\ remote[n].state \in {"open", "input"} /\ UNCHANGED <<a2a, a2aTurns, a2aRoom, a2aMemory>>
  BY DEF TasksInv, RemoteMoves
<1>2. PICK st \in {"input", "over"} : remote' = [remote EXCEPT ![n].state = st]
  BY DEF RemoteMoves
<1> DEFINE m == [remote[n] EXCEPT !.state = st]
<1>3. remote[n] \in RemoteTask /\ m \in RemoteTask /\ m.state = st /\ m.life = remote[n].life /\ m.asker = remote[n].asker
  BY <1>1 DEF A2AType, RemoteTask, TaskStates
<1>4. remote' = [remote EXCEPT ![n] = m]
  BY <1>1, <1>2 DEF A2AType
<1> HIDE DEF m
<1>5. /\ remote' \in [Tasks -> RemoteTask]
      /\ \A t \in Tasks : /\ remote'[t].life = remote[t].life /\ remote'[t].asker = remote[t].asker
                          /\ (remote'[t].state = "none") = (remote[t].state = "none")
  BY <1>1, <1>2, <1>3, <1>4 DEF A2AType
<1>6. A2AType'
  BY <1>1, <1>5 DEF A2AType
<1>7. TurnHolds(a2aTurns', remote', a2aRoom'.life) /\ TasksHold(remote', a2aRoom'.life)
  BY <1>1, <1>5 DEF TasksInv, TurnHolds, TasksHold
<1>8. OneAtATimeOf(a2aTurns', a2aRoom'.life)
  BY <1>1 DEF TasksInv
<1>9. TasksKnown(a2a', a2aRoom', remote', a2aTurns')
  BY <1>1, <1>5 DEF TasksInv, TasksKnown, A2AType, RoomOfTasks, SomeTask
<1>10. NoneYet(a2aRoom', remote', a2aTurns')
  BY <1>1, <1>5 DEF TasksInv, NoneYet
<1>11. ~a2aMemory'.disturbed => SendersHold(a2a', a2aTurns', remote', a2aRoom'.life)
  BY <1>1, <1>5 DEF TasksInv, SendersHold
<1> QED BY <1>1, <1>6, <1>7, <1>8, <1>9, <1>10, <1>11 DEF TasksInv, AnswersMentionTheAsker

\* A turn of a life's task is told to who opened it.
LEMMA EventSeenKeeps == ASSUME TasksInv, NEW i \in A2ATurns, EventSeen(i) PROVE TasksInv'
<1> DEFINE n == a2aTurns[i].task
           to == Addressee(i, n)
           st == remote[n].state
           upset == a2aMemory.disturbed \/ ~OfThisLife(i)
           astray == IF st # "open" /\ OfThisLife(i) /\ ~a2aMemory.disturbed /\ remote[n].life = a2aRoom.life /\ to # remote[n].asker
                     THEN a2aMemory.astray \cup {n} ELSE a2aMemory.astray
           senders == [a2a.senders EXCEPT ![n] = to]
<1>1. /\ A2AType /\ a2aTurns[i].pc = "streaming" /\ UNCHANGED <<remote, a2aRoom>>
      /\ a2a' = [context |-> remote[n].context, task |-> n, senders |-> senders]
      /\ a2aMemory' = [a2aMemory EXCEPT !.disturbed = upset, !.astray = astray]
      /\ st # "open" => a2aTurns' = [a2aTurns EXCEPT ![i].pc = "telling", ![i].told = st, ![i].to = to]
      /\ st = "open" => a2aTurns' = a2aTurns
  BY DEF TasksInv, EventSeen
<1>2. /\ a2aTurns[i] \in A2ATurn /\ a2aTurns[i].sender \in Senders /\ n \in Tasks /\ st # "none"
      /\ remote[n] \in RemoteTask /\ a2a.senders[n] \in Senders \cup {Nobody} /\ a2aMemory \in TaskMemory
  BY <1>1 DEF TasksInv, TurnHolds, A2AType
<1>3. /\ to \in Senders \cup {Nobody} /\ st \in TaskStates
      /\ to = a2a.senders[n] \/ (a2a.senders[n] = Nobody /\ to = a2aTurns[i].sender)
  BY <1>2 DEF Addressee, RemoteTask
<1>4. ASSUME ~upset, remote[n].life = a2aRoom.life PROVE to = remote[n].asker
  <2>1. SendersHold(a2a, a2aTurns, remote, a2aRoom.life) /\ a2aTurns[i].life = a2aRoom.life
    BY <1>4 DEF TasksInv, OfThisLife
  <2>2. /\ a2a.senders[n] \in {Nobody, remote[n].asker}
        /\ a2a.senders[n] = Nobody => a2aTurns[i].sender = remote[n].asker
    BY <1>1, <1>2, <1>4, <2>1 DEF SendersHold
  <2> QED BY <2>2 DEF Addressee
<1>5. astray = a2aMemory.astray
  BY <1>4
<1>6. upset \in BOOLEAN
  BY <1>2 DEF TaskMemory
<1>7. /\ a2a' \in [context : SomeTask, task : SomeTask, senders : [Tasks -> Senders \cup {Nobody}]]
      /\ a2a'.task = n /\ a2a'.senders[n] = to /\ \A t \in Tasks \ {n} : a2a'.senders[t] = a2a.senders[t]
  <2>1. senders \in [Tasks -> Senders \cup {Nobody}] /\ senders[n] = to /\ \A t \in Tasks \ {n} : senders[t] = a2a.senders[t]
    BY <1>1, <1>2, <1>3 DEF A2AType
  <2>2. remote[n].context \in SomeTask /\ n \in SomeTask
    BY <1>2 DEF RemoteTask, SomeTask
  <2> HIDE DEF senders, n
  <2> QED BY <1>1, <2>1, <2>2
<1> DEFINE m == [a2aTurns[i] EXCEPT !.pc = "telling", !.told = st, !.to = to]
<1>8. m \in A2ATurn /\ m.pc = "telling" /\ m.life = a2aTurns[i].life /\ m.sender = a2aTurns[i].sender /\ m.task = n
  BY <1>2, <1>3 DEF A2ATurn
<1>9. st # "open" => a2aTurns' = [a2aTurns EXCEPT ![i] = m]
  BY <1>1 DEF A2AType
<1> HIDE DEF m, n, to, st, upset, astray, senders
<1>10. /\ a2aTurns' \in [A2ATurns -> A2ATurn] /\ \A j \in A2ATurns \ {i} : a2aTurns'[j] = a2aTurns[j]
       /\ a2aTurns'[i].pc \in {"streaming", "telling"} /\ a2aTurns'[i].life = a2aTurns[i].life
       /\ a2aTurns'[i].sender = a2aTurns[i].sender /\ a2aTurns'[i].task = n
  <2>1. CASE st = "open"
    BY <1>1, <2>1 DEF A2AType, n
  <2>2. CASE st # "open"
    BY <1>1, <1>8, <1>9, <2>2, TurnMoved
  <2> QED BY <2>1, <2>2
<1>11. a2aMemory' \in TaskMemory /\ a2aMemory'.astray = a2aMemory.astray /\ a2aMemory'.disturbed = upset
  BY <1>1, <1>2, <1>5, <1>6 DEF TaskMemory
<1>12. A2AType'
  BY <1>1, <1>7, <1>10, <1>11 DEF A2AType
<1>13. TurnHolds(a2aTurns', remote', a2aRoom'.life)
  <2> SUFFICES ASSUME NEW j \in A2ATurns
               PROVE  /\ a2aTurns'[j].life <= a2aRoom.life
                      /\ a2aTurns'[j].pc \notin {"none", "over"} => a2aTurns'[j].sender \in Senders
                      /\ a2aTurns'[j].pc \in {"streaming", "telling"}
                           => a2aTurns'[j].task \in Tasks /\ remote[a2aTurns'[j].task].state # "none"
    BY <1>1 DEF TurnHolds
  <2>1. CASE j = i
    BY <1>2, <1>10, <2>1 DEF TasksInv, TurnHolds, st
  <2>2. CASE j # i
    BY <1>10, <2>2 DEF TasksInv, TurnHolds
  <2> QED BY <2>1, <2>2
<1>14. OneAtATimeOf(a2aTurns', a2aRoom'.life)
  BY <1>1, <1>10 DEF TasksInv, OneAtATimeOf
<1>15. TasksHold(remote', a2aRoom'.life)
  BY <1>1 DEF TasksInv
<1>16. TasksKnown(a2a', a2aRoom', remote', a2aTurns')
  BY <1>1, <1>2, <1>7, <1>10 DEF TasksInv, TasksKnown, st
<1>17. NoneYet(a2aRoom', remote', a2aTurns')
  BY <1>1, <1>10 DEF TasksInv, NoneYet
<1>18. ~a2aMemory'.disturbed => SendersHold(a2a', a2aTurns', remote', a2aRoom'.life)
  <2> SUFFICES ASSUME ~upset, NEW t \in Tasks, remote[t].life = a2aRoom.life
               PROVE  /\ a2a'.senders[t] \in {Nobody, remote[t].asker}
                      /\ a2a'.task = t => a2a'.senders[t] = remote[t].asker
                      /\ \A j \in A2ATurns :
                           a2aTurns'[j].life = a2aRoom.life /\ a2aTurns'[j].pc \in {"streaming", "telling"} /\ a2aTurns'[j].task = t
                                /\ a2a'.senders[t] = Nobody
                             => a2aTurns'[j].sender = remote[t].asker
    BY <1>1, <1>11 DEF SendersHold
  <2>1. SendersHold(a2a, a2aTurns, remote, a2aRoom.life)
    BY DEF TasksInv, upset
  <2>2. CASE t = n
    <3>1. a2a'.senders[t] = remote[t].asker /\ remote[t].asker \in Senders
      BY <1>2, <1>4, <1>7, <2>2 DEF TasksInv, TasksHold, st
    <3> QED BY <3>1, SendersAssumption
  <2>3. CASE t # n
    BY <1>7, <1>10, <2>1, <2>3 DEF SendersHold
  <2> QED BY <2>2, <2>3
<1> QED BY <1>11, <1>12, <1>13, <1>14, <1>15, <1>16, <1>17, <1>18 DEF TasksInv, AnswersMentionTheAsker

\* What a turn told of its task is let go when that is over.
LEMMA ToldKeeps == ASSUME TasksInv, NEW i \in A2ATurns, TaskTold(i) \/ TaskTellingFails(i) PROVE TasksInv'
<1> DEFINE n == a2aTurns[i].task
           upset == a2aMemory.disturbed \/ ~OfThisLife(i)
           ended == IF a2aTurns[i].told = "over" THEN a2aMemory.ended \cup {n} ELSE a2aMemory.ended
           pc == IF TaskTellingFails(i) \/ a2aTurns[i].told = "over" THEN "over" ELSE "streaming"
<1>1. A2AType /\ a2aTurns[i].pc = "telling" /\ remote' = remote /\ a2a' = LetsGo(i) /\ Ends(i) /\ TurnAt(i, pc)
  BY DEF TasksInv, TaskTold, TaskTellingFails
<1>2. /\ n \in Tasks /\ remote[n].state # "none" /\ a2aTurns[i] \in A2ATurn /\ remote[n] \in RemoteTask
      /\ a2aMemory \in TaskMemory /\ a2aRoom \in RoomOfTasks
  BY <1>1 DEF TasksInv, TurnHolds, A2AType
<1>3. /\ pc \in {"over", "streaming"}
      /\ pc = "streaming" => a2aTurns[i].told # "over"
  OBVIOUS
<1>4. a2aMemory' \in TaskMemory /\ a2aMemory'.astray = a2aMemory.astray /\ a2aMemory'.disturbed = upset
  <2>1. upset \in BOOLEAN /\ ended \in SUBSET SomeTask
    BY <1>2 DEF TaskMemory, SomeTask
  <2>2. a2aMemory' = [a2aMemory EXCEPT !.disturbed = upset, !.ended = ended]
    BY <1>1 DEF Ends
  <2> HIDE DEF upset, ended
  <2> QED BY <1>2, <2>1, <2>2 DEF TaskMemory
<1>5. /\ a2aRoom' \in RoomOfTasks /\ a2aRoom'.life = a2aRoom.life /\ a2aRoom'.fresh = a2aRoom.fresh
      /\ a2aRoom'.task = a2aRoom.task \/ a2aRoom'.task = n
  <2>1. CASE TaskTold(i)
    <3> DEFINE context == remote[n].context
               told0 == a2aTurns[i].told
    <3>1. context \in SomeTask /\ told0 \in TaskStates /\ n \in SomeTask
      BY <1>2 DEF RemoteTask, A2ATurn, SomeTask
    <3>2. a2aRoom' = [a2aRoom EXCEPT !.task = n, !.state = told0, !.context = context]
      BY <2>1 DEF TaskTold
    <3> HIDE DEF context, told0, n
    <3> QED BY <1>2, <3>1, <3>2 DEF RoomOfTasks
  <2>2. CASE TaskTellingFails(i)
    BY <1>2, <2>2 DEF TaskTellingFails
  <2> QED BY <2>1, <2>2
<1>6. /\ a2a' \in [context : SomeTask, task : SomeTask, senders : [Tasks -> Senders \cup {Nobody}]]
      /\ \A t \in Tasks \ {n} : a2a'.senders[t] = a2a.senders[t]
      /\ \/ a2a' = a2a /\ a2aTurns[i].told # "over"
         \/ a2a'.task = 0 /\ a2a'.senders[n] = Nobody /\ pc = "over"
  <2>1. CASE a2aTurns[i].told # "over"
    BY <1>1, <2>1 DEF LetsGo, A2AType
  <2>2. CASE a2aTurns[i].told = "over"
    <3> DEFINE senders == [a2a.senders EXCEPT ![n] = Nobody]
    <3>1. senders \in [Tasks -> Senders \cup {Nobody}] /\ senders[n] = Nobody /\ \A t \in Tasks \ {n} : senders[t] = a2a.senders[t]
      BY <1>1, <1>2 DEF A2AType
    <3>2. a2a' = [a2a EXCEPT !.task = 0, !.senders = senders]
      BY <1>1, <2>2 DEF LetsGo, A2AType
    <3>3. pc = "over"
      BY <2>2
    <3> HIDE DEF senders, n
    <3> QED BY <1>1, <3>1, <3>2, <3>3 DEF A2AType, SomeTask
  <2> QED BY <2>1, <2>2
<1> HIDE DEF pc, upset, ended
<1>7. /\ a2aTurns' \in [A2ATurns -> A2ATurn]
      /\ \A j \in A2ATurns \ {i} : a2aTurns'[j] = a2aTurns[j]
      /\ a2aTurns'[i].pc = pc /\ a2aTurns'[i].life = a2aTurns[i].life /\ a2aTurns'[i].sender = a2aTurns[i].sender
      /\ a2aTurns'[i].task = n
  BY <1>1, <1>3, TurnAtIs
<1> HIDE DEF n
<1>8. A2AType'
  BY <1>1, <1>4, <1>5, <1>6, <1>7 DEF A2AType
<1>9. TurnHolds(a2aTurns', remote', a2aRoom'.life)
  BY <1>1, <1>2, <1>3, <1>5, <1>7 DEF TasksInv, TurnHolds
<1>10. OneAtATimeOf(a2aTurns', a2aRoom'.life)
  BY <1>1, <1>3, <1>5, <1>7 DEF TasksInv, OneAtATimeOf
<1>11. TasksHold(remote', a2aRoom'.life)
  BY <1>1, <1>5 DEF TasksInv
<1>12. TasksKnown(a2a', a2aRoom', remote', a2aTurns')
  <2>1. a2a'.task # 0 => remote[a2a'.task].state # "none"
    BY <1>6 DEF TasksInv, TasksKnown
  <2>2. \A t \in Tasks : a2a'.senders[t] # Nobody => remote[t].state # "none"
    BY <1>2, <1>6 DEF TasksInv, TasksKnown
  <2>3. a2aRoom'.task # 0 => remote[a2aRoom'.task].state # "none"
    BY <1>2, <1>5 DEF TasksInv, TasksKnown
  <2>4. \A j \in A2ATurns : a2aTurns'[j].pc = "rehydrating" => a2aRoom'.task # 0
    <3>1. n # 0
      BY <1>2 DEF Tasks
    <3> QED BY <1>3, <1>5, <1>7, <3>1 DEF TasksInv, TasksKnown
  <2> QED BY <1>1, <2>1, <2>2, <2>3, <2>4 DEF TasksKnown
<1>13. NoneYet(a2aRoom', remote', a2aTurns')
  BY <1>1, <1>3, <1>5, <1>7 DEF TasksInv, NoneYet
<1>14. ~a2aMemory'.disturbed => SendersHold(a2a', a2aTurns', remote', a2aRoom'.life)
  <2> SUFFICES ASSUME ~upset, NEW t \in Tasks, remote[t].life = a2aRoom.life
               PROVE  /\ a2a'.senders[t] \in {Nobody, remote[t].asker}
                      /\ a2a'.task = t => a2a'.senders[t] = remote[t].asker
                      /\ \A j \in A2ATurns :
                           a2aTurns'[j].life = a2aRoom.life /\ a2aTurns'[j].pc \in {"streaming", "telling"} /\ a2aTurns'[j].task = t
                                /\ a2a'.senders[t] = Nobody
                             => a2aTurns'[j].sender = remote[t].asker
    BY <1>1, <1>4, <1>5 DEF SendersHold
  <2>1. SendersHold(a2a, a2aTurns, remote, a2aRoom.life) /\ a2aTurns[i].life = a2aRoom.life
    BY DEF TasksInv, upset, OfThisLife
  <2>2. \A j \in A2ATurns \ {i} : a2aTurns'[j].life = a2aRoom.life => a2aTurns'[j].pc \notin {"streaming", "telling"}
    BY <1>1, <1>7, <2>1 DEF TasksInv, OneAtATimeOf
  <2>3. CASE a2a' = a2a
    BY <1>1, <1>7, <2>1, <2>2, <2>3 DEF SendersHold, n
  <2>4. CASE a2a'.task = 0 /\ a2a'.senders[n] = Nobody /\ pc = "over"
    <3>1. t # 0
      BY DEF Tasks
    <3>2. a2a'.senders[t] \in {Nobody, remote[t].asker}
      BY <1>6, <2>1, <2>4 DEF SendersHold
    <3> QED BY <1>7, <2>2, <2>4, <3>1, <3>2
  <2> QED BY <1>6, <2>3, <2>4
<1> QED BY <1>4, <1>8, <1>9, <1>10, <1>11, <1>12, <1>13, <1>14 DEF TasksInv, AnswersMentionTheAsker

\* An artifact's text reaches who opened the task, unless another's message took it up.
LEMMA StreamEndKeeps == ASSUME TasksInv, JoinedInv, NEW i \in A2ATurns, StreamEnds(i) \/ ArtifactSeen(i) PROVE TasksInv'
<1>1. A2AType /\ (TurnAt(i, "over") \/ a2aTurns' = a2aTurns) /\ UNCHANGED <<a2a, remote, a2aRoom>>
  BY DEF TasksInv, StreamEnds, ArtifactSeen
<1>2. /\ a2aTurns' \in [A2ATurns -> A2ATurn]
      /\ \A j \in A2ATurns \ {i} : a2aTurns'[j] = a2aTurns[j]
      /\ a2aTurns'[i] = a2aTurns[i] \/ (a2aTurns'[i].pc = "over" /\ a2aTurns'[i].life = a2aTurns[i].life)
  BY <1>1, TurnAtIs DEF A2AType
<1>3. a2aMemory' \in TaskMemory /\ a2aMemory'.astray = a2aMemory.astray /\ a2aMemory'.disturbed = a2aMemory.disturbed
  <2>1. CASE StreamEnds(i)
    BY <1>1, <2>1 DEF StreamEnds, A2AType
  <2>2. CASE ArtifactSeen(i)
    <3>1. a2aMemory' = [a2aMemory EXCEPT !.astray = a2aMemory.astray]
      BY <2>2 DEF ArtifactSeen, JoinedInv, OnTask
    <3> QED BY <1>1, <3>1 DEF A2AType, TaskMemory
  <2> QED BY <2>1, <2>2
<1>4. A2AType'
  BY <1>1, <1>2, <1>3 DEF A2AType
<1>5. TurnHolds(a2aTurns', remote', a2aRoom'.life)
  BY <1>1, <1>2 DEF TasksInv, TurnHolds
<1>6. OneAtATimeOf(a2aTurns', a2aRoom'.life)
  BY <1>1, <1>2 DEF TasksInv, OneAtATimeOf
<1>7. TasksHold(remote', a2aRoom'.life)
  BY <1>1 DEF TasksInv
<1>8. TasksKnown(a2a', a2aRoom', remote', a2aTurns')
  BY <1>1, <1>2 DEF TasksInv, TasksKnown
<1>9. NoneYet(a2aRoom', remote', a2aTurns')
  BY <1>1, <1>2 DEF TasksInv, NoneYet
<1>10. ~a2aMemory'.disturbed => SendersHold(a2a', a2aTurns', remote', a2aRoom'.life)
  BY <1>1, <1>2, <1>3 DEF TasksInv, SendersHold
<1> QED BY <1>3, <1>4, <1>5, <1>6, <1>7, <1>8, <1>9, <1>10 DEF TasksInv, AnswersMentionTheAsker

\* A new life knows no task, and no task is of it.
LEMMA NewLifeKeeps == ASSUME TasksInv, A2ARoomLeft \/ A2AProcessEnds PROVE TasksInv'
<1>1. /\ A2AType /\ a2aRoom' = [a2aRoom EXCEPT !.life = @ + 1, !.fresh = TRUE] /\ a2a' = Forgotten
      /\ a2aMemory' = [a2aMemory EXCEPT !.disturbed = FALSE, !.lost = FALSE] /\ remote' = remote
  BY DEF TasksInv, A2ARoomLeft, A2AProcessEnds, NewLife
<1>2. /\ a2aRoom' \in RoomOfTasks /\ a2aRoom'.life = a2aRoom.life + 1 /\ a2aRoom'.task = a2aRoom.task /\ a2aRoom.life \in Nat
  <2> DEFINE next == a2aRoom.life + 1
  <2>1. a2aRoom \in RoomOfTasks /\ a2aRoom.life \in Nat /\ next \in Nat \ {0}
    BY <1>1 DEF A2AType, RoomOfTasks
  <2>2. a2aRoom' = [a2aRoom EXCEPT !.life = next, !.fresh = TRUE]
    BY <1>1
  <2>3. a2aRoom' \in RoomOfTasks /\ a2aRoom'.life = next /\ a2aRoom'.task = a2aRoom.task
    <3> HIDE DEF next
    <3> QED BY <2>1, <2>2 DEF RoomOfTasks
  <2> QED BY <2>1, <2>3
<1>3. a2aMemory' \in TaskMemory /\ a2aMemory'.astray = a2aMemory.astray
  BY <1>1 DEF A2AType, TaskMemory
<1>4. /\ a2a' \in [context : SomeTask, task : SomeTask, senders : [Tasks -> Senders \cup {Nobody}]]
      /\ a2a'.task = 0 /\ \A t \in Tasks : a2a'.senders[t] = Nobody
  BY <1>1 DEF Forgotten, SomeTask
<1>5. /\ a2aTurns' \in [A2ATurns -> A2ATurn]
      /\ \A j \in A2ATurns : \/ a2aTurns'[j] = a2aTurns[j]
                             \/ a2aTurns'[j].pc \in {"none", "over"} /\ a2aTurns'[j].life = 0
  <2>1. CASE A2ARoomLeft
    BY <1>1, <2>1 DEF A2ARoomLeft, A2AType
  <2>2. CASE A2AProcessEnds
    <3> DEFINE m == [NoA2ATurn EXCEPT !.pc = "over"]
    <3>1. m \in A2ATurn /\ m.pc = "over" /\ m.life = 0 /\ NoA2ATurn \in A2ATurn /\ NoA2ATurn.pc = "none" /\ NoA2ATurn.life = 0
      BY DEF NoA2ATurn, A2ATurn, SomeTask, TaskStates
    <3>2. a2aTurns' = [j \in A2ATurns |-> IF a2aTurns[j].pc = "none" THEN NoA2ATurn ELSE m]
      BY <2>2 DEF A2AProcessEnds
    <3> HIDE DEF m
    <3> QED BY <3>1, <3>2
  <2> QED BY <2>1, <2>2
<1>6. \A j \in A2ATurns : a2aTurns'[j].life # a2aRoom'.life /\ a2aTurns'[j].life <= a2aRoom'.life
  <2> SUFFICES ASSUME NEW j \in A2ATurns PROVE a2aTurns'[j].life # a2aRoom'.life /\ a2aTurns'[j].life <= a2aRoom'.life
    OBVIOUS
  <2>1. a2aTurns[j].life \in Nat /\ a2aTurns[j].life <= a2aRoom.life
    BY <1>1 DEF TasksInv, TurnHolds, A2AType, A2ATurn
  <2> QED BY <1>2, <1>5, <2>1
<1>7. \A t \in Tasks : remote[t].life # a2aRoom'.life /\ remote[t].life <= a2aRoom'.life
  <2> SUFFICES ASSUME NEW t \in Tasks PROVE remote[t].life # a2aRoom'.life /\ remote[t].life <= a2aRoom'.life
    OBVIOUS
  <2>1. remote[t].life \in Nat /\ remote[t].life <= a2aRoom.life
    BY <1>1 DEF TasksInv, TasksHold, A2AType, RemoteTask
  <2> QED BY <1>2, <2>1
<1>8. A2AType'
  BY <1>1, <1>2, <1>3, <1>4, <1>5 DEF A2AType
<1>9. TurnHolds(a2aTurns', remote', a2aRoom'.life)
  BY <1>1, <1>5, <1>6 DEF TasksInv, TurnHolds
<1>10. OneAtATimeOf(a2aTurns', a2aRoom'.life)
  BY <1>6 DEF OneAtATimeOf
<1>11. TasksHold(remote', a2aRoom'.life)
  BY <1>1, <1>7 DEF TasksInv, TasksHold
<1>12. TasksKnown(a2a', a2aRoom', remote', a2aTurns')
  BY <1>1, <1>2, <1>4, <1>5 DEF TasksInv, TasksKnown
<1>13. NoneYet(a2aRoom', remote', a2aTurns')
  BY <1>1, <1>6, <1>7 DEF NoneYet
<1>14. SendersHold(a2a', a2aTurns', remote', a2aRoom'.life)
  BY <1>1, <1>7 DEF SendersHold
<1> QED BY <1>3, <1>8, <1>9, <1>10, <1>11, <1>12, <1>13, <1>14 DEF TasksInv, AnswersMentionTheAsker

\* A step that opens no task and sets no turn to work on one.
LEMMA JoinedStays ==
  ASSUME TasksInv, JoinedInv, a2aMemory.joined \subseteq a2aMemory'.joined,
         \A t \in Tasks : remote[t].state # "none" => remote'[t].asker = remote[t].asker,
         \A j \in A2ATurns : OnTask(j)' => OnTask(j) /\ a2aTurns'[j].task = a2aTurns[j].task
                                              /\ a2aTurns'[j].sender = a2aTurns[j].sender
  PROVE  JoinedInv'
<1> SUFFICES ASSUME NEW j \in A2ATurns, OnTask(j)', a2aTurns'[j].sender # remote'[a2aTurns'[j].task].asker
             PROVE  a2aTurns'[j].task \in a2aMemory'.joined
  BY DEF JoinedInv
<1>1. a2aTurns[j].task \in Tasks /\ remote[a2aTurns[j].task].state # "none"
  BY DEF TasksInv, TurnHolds, OnTask
<1> QED BY <1>1 DEF JoinedInv

LEMMA JoinedKept == ASSUME TasksInv, JoinedInv, [A2ANext]_a2aVars PROVE JoinedInv'
<1> USE DEF OnTask
<1>1. A2AType
  BY DEF TasksInv
<1>2. ASSUME NEW i \in A2ATurns, NEW s \in Senders, A2ATurnStarts(i, s) PROVE JoinedInv'
  <2>1. /\ \A j \in A2ATurns \ {i} : a2aTurns'[j] = a2aTurns[j]
        /\ a2aTurns'[i].pc \in {"rehydrating", "sending"} /\ remote' = remote /\ a2aMemory' = a2aMemory
    BY <1>1, <1>2 DEF A2ATurnStarts, A2AType, NoA2ATurn
  <2> QED BY <2>1, JoinedStays
<1>3. ASSUME NEW i \in A2ATurns, NEW pc \in {"sending", "streaming", "over"}, TurnAt(i, pc) \/ a2aTurns' = a2aTurns, OnTask(i) \/ pc # "streaming",
             remote' = remote, a2aMemory'.joined = a2aMemory.joined
      PROVE  JoinedInv'
  <2>1. CASE a2aTurns' = a2aTurns
    BY <1>3, <2>1, JoinedStays
  <2>2. CASE TurnAt(i, pc)
    <3>1. /\ \A j \in A2ATurns \ {i} : a2aTurns'[j] = a2aTurns[j]
          /\ a2aTurns'[i].pc = pc /\ a2aTurns'[i].sender = a2aTurns[i].sender /\ a2aTurns'[i].task = a2aTurns[i].task
      BY <1>1, <2>2, TurnAtIs
    <3> QED BY <1>3, <3>1, JoinedStays
  <2> QED BY <1>3, <2>1, <2>2
<1>4. ASSUME NEW i \in A2ATurns, Resubscribed(i) \/ ResubscribeFails(i) PROVE JoinedInv'
  <2>1. TurnAt(i, "sending") /\ remote' = remote /\ a2aMemory'.joined = a2aMemory.joined
    BY <1>1, <1>4 DEF Resubscribed, ResubscribeFails, Late, A2AType, TaskMemory
  <2> QED BY <1>3, <2>1
<1>5. ASSUME NEW i \in A2ATurns, RequestSent(i) PROVE JoinedInv'
  <2>1. /\ a2aMemory.joined \subseteq a2aMemory'.joined
        /\ a2a.task # 0 /\ a2aTurns[i].sender # remote[a2a.task].asker => a2a.task \in a2aMemory'.joined
        /\ a2aTurns[i] \in A2ATurn /\ a2a.task \in SomeTask
    BY <1>1, <1>5 DEF RequestSent, A2AType, TaskMemory
  <2>2. CASE TurnAt(i, "over") /\ UNCHANGED remote
    <3>1. \A j \in A2ATurns \ {i} : a2aTurns'[j] = a2aTurns[j]
      BY <1>1, <2>2, TurnAtIs
    <3>2. a2aTurns'[i].pc = "over"
      BY <1>1, <2>2, TurnAtIs
    <3> QED BY <2>1, <2>2, <3>1, <3>2, JoinedStays
  <2>3. ASSUME NEW n \in Tasks, a2aTurns' = [a2aTurns EXCEPT ![i].pc = "streaming", ![i].task = n],
               \A t \in Tasks : remote[t].state # "none" => remote'[t].asker = remote[t].asker,
               \/ n = a2a.task /\ remote[n].state # "none"
               \/ remote'[n].asker = a2aTurns[i].sender
        PROVE  JoinedInv'
    <3>1. /\ \A j \in A2ATurns \ {i} : a2aTurns'[j] = a2aTurns[j]
          /\ a2aTurns'[i].sender = a2aTurns[i].sender /\ a2aTurns'[i].task = n
      BY <1>1, <2>1, <2>3 DEF A2AType, A2ATurn
    <3>2. n # 0
      BY DEF Tasks
    <3>3. ASSUME NEW j \in A2ATurns, OnTask(j)', a2aTurns'[j].sender # remote'[a2aTurns'[j].task].asker
          PROVE  a2aTurns'[j].task \in a2aMemory'.joined
      <4>1. CASE j = i
        BY <2>1, <2>3, <3>1, <3>2, <3>3, <4>1
      <4>2. CASE j # i
        <5>1. a2aTurns[j].task \in Tasks /\ remote[a2aTurns[j].task].state # "none"
          BY <3>1, <3>3, <4>2 DEF TasksInv, TurnHolds
        <5> QED BY <2>1, <2>3, <3>1, <3>3, <4>2, <5>1 DEF JoinedInv
      <4> QED BY <4>1, <4>2
    <3> QED BY <3>3 DEF JoinedInv
  <2>4. ASSUME a2a.task # 0, remote' = [remote EXCEPT ![a2a.task].state = "open"],
               a2aTurns' = [a2aTurns EXCEPT ![i].pc = "streaming", ![i].task = a2a.task]
        PROVE  JoinedInv'
    <3>1. a2a.task \in Tasks /\ remote[a2a.task].state # "none"
      BY <2>1, <2>4 DEF SomeTask, TasksInv, TasksKnown
    <3>2. \A t \in Tasks : remote'[t].asker = remote[t].asker
      BY <1>1, <2>4, <3>1 DEF A2AType, RemoteTask
    <3> QED BY <2>3, <2>4, <3>1, <3>2
  <2>5. ASSUME NEW n \in Tasks, remote[n].state = "none",
               remote' = [remote EXCEPT ![n] = [state |-> "open", asker |-> a2aTurns[i].sender, life |-> a2aTurns[i].life,
                    context |-> IF a2a.context # 0 THEN a2a.context ELSE n]],
               a2aTurns' = [a2aTurns EXCEPT ![i].pc = "streaming", ![i].task = n]
        PROVE  JoinedInv'
    <3>1. /\ \A t \in Tasks : remote[t].state # "none" => remote'[t].asker = remote[t].asker
          /\ remote'[n].asker = a2aTurns[i].sender
      BY <1>1, <2>5 DEF A2AType
    <3> QED BY <2>3, <2>5, <3>1
  <2> QED BY <1>5, <2>2, <2>4, <2>5 DEF RequestSent
<1>6. ASSUME NEW i \in A2ATurns, EventSeen(i) PROVE JoinedInv'
  <2>1. /\ \A j \in A2ATurns \ {i} : a2aTurns'[j] = a2aTurns[j]
        /\ a2aTurns'[i].sender = a2aTurns[i].sender /\ a2aTurns'[i].task = a2aTurns[i].task /\ OnTask(i)
    BY <1>1, <1>6 DEF EventSeen, A2AType, A2ATurn
  <2>2. a2aMemory'.joined = a2aMemory.joined /\ remote' = remote
    BY <1>1, <1>6 DEF EventSeen, A2AType, TaskMemory
  <2> QED BY <2>1, <2>2, JoinedStays
<1>7. ASSUME NEW i \in A2ATurns, ArtifactSeen(i) \/ StreamEnds(i) PROVE JoinedInv'
  <2>1. /\ a2aTurns' = a2aTurns \/ TurnAt(i, "over")
        /\ remote' = remote /\ a2aMemory'.joined = a2aMemory.joined
    BY <1>1, <1>7 DEF ArtifactSeen, StreamEnds, A2AType, TaskMemory
  <2> QED BY <1>3, <2>1
<1>8. ASSUME NEW i \in A2ATurns, TaskTold(i) \/ TaskTellingFails(i) PROVE JoinedInv'
  <2>1. OnTask(i) /\ Ends(i) /\ remote' = remote /\ (TurnAt(i, "over") \/ TurnAt(i, "streaming"))
    BY <1>8 DEF TaskTold, TaskTellingFails
  <2>2. a2aMemory'.joined = a2aMemory.joined
    BY <1>1, <2>1 DEF Ends, A2AType, TaskMemory
  <2> QED BY <1>3, <2>1, <2>2
<1>9. ASSUME NEW t \in Tasks, RemoteMoves(t) PROVE JoinedInv'
  <2>1. /\ \A n \in Tasks : remote'[n].asker = remote[n].asker
        /\ a2aTurns' = a2aTurns /\ a2aMemory' = a2aMemory
    BY <1>1, <1>9 DEF RemoteMoves, A2AType, RemoteTask
  <2> QED BY <2>1, JoinedStays
<1>10. CASE A2ARoomLeft \/ A2AProcessEnds
  <2>1. /\ \A j \in A2ATurns : a2aTurns'[j] = a2aTurns[j] \/ a2aTurns'[j].pc \in {"none", "over"}
        /\ remote' = remote /\ a2aMemory'.joined = a2aMemory.joined
    <3>1. NewLife /\ remote' = remote
      BY <1>10 DEF A2ARoomLeft, A2AProcessEnds, NewLife
    <3>2. a2aMemory'.joined = a2aMemory.joined
      BY <1>1, <3>1 DEF NewLife, A2AType, TaskMemory
    <3>3. CASE A2ARoomLeft
      BY <3>1, <3>2, <3>3 DEF A2ARoomLeft
    <3>4. CASE A2AProcessEnds
      <4>1. ASSUME NEW j \in A2ATurns PROVE a2aTurns'[j].pc \in {"none", "over"}
        BY <3>4 DEF A2AProcessEnds, NoA2ATurn
      <4> QED BY <3>1, <3>2, <4>1
    <3> QED BY <1>10, <3>3, <3>4
  <2> QED BY <2>1, JoinedStays
<1>11. CASE UNCHANGED a2aVars
  BY <1>11, JoinedStays DEF a2aVars
<1> QED BY <1>2, <1>4, <1>5, <1>6, <1>7, <1>8, <1>9, <1>10, <1>11 DEF A2ANext

LEMMA TasksKept == TasksInv /\ JoinedInv /\ [A2ANext]_a2aVars => TasksInv' /\ JoinedInv'
<1> SUFFICES ASSUME TasksInv, JoinedInv, [A2ANext]_a2aVars PROVE TasksInv'
  BY JoinedKept
<1>1. ASSUME NEW i \in A2ATurns,
             \/ \E s \in Senders : A2ATurnStarts(i, s)
             \/ Resubscribed(i) \/ ResubscribeFails(i) \/ RequestSent(i)
             \/ EventSeen(i) \/ ArtifactSeen(i) \/ TaskTold(i) \/ TaskTellingFails(i) \/ StreamEnds(i)
      PROVE  TasksInv'
  BY <1>1, A2ATurnStartKeeps, RehydratedKeeps, RequestSentKeeps, EventSeenKeeps, ToldKeeps, StreamEndKeeps
<1>2. ASSUME NEW t \in Tasks, RemoteMoves(t) PROVE TasksInv'
  BY <1>2, RemoteMovesKeeps
<1>3. CASE A2ARoomLeft \/ A2AProcessEnds
  BY <1>3, NewLifeKeeps
<1>4. CASE UNCHANGED a2aVars
  BY <1>4 DEF a2aVars, TasksInv, A2AType, AnswersMentionTheAsker
<1> QED BY <1>1, <1>2, <1>3, <1>4 DEF A2ANext

-----------------------------------------------------------------------------
(* The A2A gateway's requests.                                             *)

Pending == {"posting", "posted", "waiting"}
SomeRequest == Requests \cup {0}
SomeGwRoom == GwRooms \cup {0}
GwRequest ==
  [pc : {"none", "adding", "creating", "inviting", "over"} \cup Pending, peer : Peers \cup {"none"}, ctx : Contexts \cup {"none"},
   task : SomeRequest, room : SomeGwRoom, strict : BOOLEAN, require : BOOLEAN, final : BOOLEAN, cancelled : BOOLEAN]
GatewayType ==
  /\ requests \in [Requests -> GwRequest] /\ contextRoom \in [Contexts -> SomeGwRoom]
  /\ gwRooms \in Seq(Contexts) /\ Len(gwRooms) <= MaxGwRooms
  /\ byTask \in [Requests -> SomeRequest] /\ byRoom \in [GwRooms -> [Requests -> SomeRequest]]
  /\ gwMemory \in [astray : SUBSET (Requests \X Requests), answers : Nat, upsets : Nat]

\* A request has a task from its start, and a room from when it has one to post into.
RequestHolds(m) ==
  /\ IF m.pc = "none" THEN m.task = 0 ELSE m.task \in Requests
  /\ m.pc \in {"adding", "inviting"} \cup Pending => m.room \in GwRooms
  /\ m.pc \in {"adding", "creating", "inviting"} => m.ctx \in Contexts /\ ~m.final /\ ~m.cancelled
  /\ m.pc = "waiting" => ~m.final /\ ~m.cancelled
\* What is listed is pending, unanswered, in its room and under its task.
EntriesHold(requests0, rooms, tasks) ==
  /\ \A x \in GwRooms, t \in Requests :
       rooms[x][t] # 0 => LET m == requests0[rooms[x][t]] IN m.task = t /\ m.room = x /\ m.pc \in Pending /\ ~m.final
  /\ \A t \in Requests :
       tasks[t] # 0 => LET m == requests0[tasks[t]] IN m.task = t /\ m.pc \in Pending /\ ~m.final
ReusedIn(requests0, q) == \E b \in Requests \ {q} : requests0[b].task = requests0[q].task
\* What still awaits its answer is listed, unless another request is of its task.
AwaitedAreListed(requests0, rooms, tasks) ==
  \A r \in Requests :
    LET m == requests0[r] IN
      m.pc \in Pending /\ ~m.final /\ ~m.cancelled /\ ~ReusedIn(requests0, r) => rooms[m.room][m.task] = r /\ tasks[m.task] = r
\* Where two are listed, each needs answers that name its task.
TogetherTheyNeedNames(requests0, rooms) ==
  \A x \in GwRooms : \A t, u \in Requests :
    rooms[x][t] # 0 /\ rooms[x][u] # 0 /\ rooms[x][t] # rooms[x][u] => requests0[rooms[x][t]].require
GatewayInv ==
  /\ GatewayType
  /\ \A r \in Requests : RequestHolds(requests[r])
  /\ EntriesHold(requests, byRoom, byTask)
  /\ AwaitedAreListed(requests, byRoom, byTask)
  /\ TogetherTheyNeedNames(requests, byRoom)
  /\ AnswersReachTheirRequest

LEMMA BoundsOfGateway == MaxRequests \in Nat /\ MaxGwRooms \in Nat /\ 0 \notin Requests /\ 0 \notin GwRooms
BY GatewayAssumption DEF Requests, GwRooms

\* Two of a room's requests are several.
LEMMA TwoAreSeveral ==
  ASSUME NEW here \in SUBSET Requests, NEW q \in here, NEW r \in here, q # r
  PROVE  Several(here)
<1>1. IsFiniteSet(here) /\ Cardinality(here) \in Nat
  <2>1. IsFiniteSet(Requests)
    BY BoundsOfGateway, FS_Interval DEF Requests
  <2> QED BY <2>1, FS_Subset, FS_CardinalityType
<1>2. Cardinality(here) # 1
  <2> SUFFICES ASSUME Cardinality(here) = 1 PROVE FALSE
    OBVIOUS
  <2>1. \E x : here = {x}
    BY <1>1, FS_Singleton
  <2> QED BY <2>1
<1>3. Cardinality(here) # 0
  BY <1>1, FS_EmptySet
<1> QED BY <1>1, <1>2, <1>3 DEF Several

LEMMA ListedAre ==
  ASSUME GatewayType, NEW x \in GwRooms
  PROVE  /\ Listed(x) \subseteq Requests
         /\ \A t \in Requests : byRoom[x][t] # 0 => byRoom[x][t] \in Listed(x)
         /\ \A r \in Listed(x) : \E t \in Requests : byRoom[x][t] = r /\ r # 0
BY DEF GatewayType, Listed, SomeRequest

LEMMA GatewayStart == GatewayInit => GatewayInv
<1> SUFFICES ASSUME GatewayInit PROVE GatewayInv
  OBVIOUS
<1>1. /\ NoRequest \in GwRequest /\ NoRequest.pc = "none" /\ NoRequest.task = 0
      /\ requests = [r \in Requests |-> NoRequest]
      /\ byTask = [t \in Requests |-> 0] /\ byRoom = [x \in GwRooms |-> byTask]
  BY DEF GatewayInit, NoRequest, GwRequest, SomeRequest, SomeGwRoom, Pending
<1>2. gwRooms = <<>> /\ gwRooms \in Seq(Contexts) /\ Len(gwRooms) = 0
  BY DEF GatewayInit
<1>3. GatewayType
  BY <1>1, <1>2, BoundsOfGateway DEF GatewayInit, GatewayType, SomeRequest, SomeGwRoom
<1>4. \A r \in Requests : RequestHolds(requests[r])
  BY <1>1 DEF RequestHolds, Pending
<1>5. EntriesHold(requests, byRoom, byTask) /\ TogetherTheyNeedNames(requests, byRoom)
  BY <1>1 DEF EntriesHold, TogetherTheyNeedNames
<1>6. AwaitedAreListed(requests, byRoom, byTask)
  BY <1>1 DEF AwaitedAreListed, Pending
<1> QED BY <1>3, <1>4, <1>5, <1>6 DEF GatewayInv, GatewayInit, AnswersReachTheirRequest

\* A task stays that of its requests.
LEMMA ReusedStays ==
  ASSUME NEW old \in [Requests -> GwRequest], NEW new \in [Requests -> GwRequest],
         \A q \in Requests : old[q].task # 0 => new[q].task = old[q].task,
         NEW r \in Requests, old[r].task # 0, ~ReusedIn(new, r)
  PROVE  ~ReusedIn(old, r)
BY DEF ReusedIn

\* A request is listed in its room, in the place of its task.
LEMMA RegisterKeeps ==
  ASSUME GatewayInv, NEW r \in Requests, requests[r].pc \notin Pending, NEW x \in GwRooms, NEW entry \in GwRequest,
         entry.task \in Requests, requests[r].task \in {0, entry.task}, entry.ctx \in Contexts, ~entry.final, ~entry.cancelled,
         Registers(r, entry, x), contextRoom' \in [Contexts -> SomeGwRoom], gwRooms' = gwRooms
  PROVE  GatewayInv'
<1> DEFINE t == entry.task
           here == (Listed(x) \ {byRoom[x][t]}) \cup {r}
           need == entry.strict \/ Listed(x) # {}
           mine == [entry EXCEPT !.pc = "posting", !.room = x, !.require = need]
           all == [requests EXCEPT ![r] = mine]
           needs(q) == all[q].require \/ (q \in here /\ Several(here))
<1>1. /\ GatewayType /\ requests \in [Requests -> GwRequest] /\ t \in Requests /\ gwMemory' = gwMemory
      /\ requests' = [q \in Requests |-> [all[q] EXCEPT !.require = @ \/ (q \in here /\ Several(here))]]
      /\ byRoom' = [byRoom EXCEPT ![x][t] = r] /\ byTask' = [byTask EXCEPT ![t] = r]
  BY DEF GatewayInv, GatewayType, Registers
<1>2. mine \in GwRequest /\ mine.pc = "posting" /\ mine.room = x /\ mine.task = t /\ mine.ctx = entry.ctx /\ ~mine.final /\ ~mine.cancelled
  BY DEF GwRequest, SomeGwRoom, Pending
<1> HIDE DEF need, mine
<1>3. all \in [Requests -> GwRequest] /\ all[r] = mine /\ \A q \in Requests \ {r} : all[q] = requests[q]
  BY <1>1, <1>2
<1>4. \A q \in Requests :
        /\ requests'[q] \in GwRequest
        /\ requests'[q].pc = all[q].pc /\ requests'[q].task = all[q].task /\ requests'[q].room = all[q].room
        /\ requests'[q].ctx = all[q].ctx /\ requests'[q].final = all[q].final /\ requests'[q].cancelled = all[q].cancelled
        /\ q \in here /\ Several(here) => requests'[q].require
  <2> SUFFICES ASSUME NEW q \in Requests
               PROVE  /\ requests'[q] \in GwRequest
                      /\ requests'[q].pc = all[q].pc /\ requests'[q].task = all[q].task /\ requests'[q].room = all[q].room
                      /\ requests'[q].ctx = all[q].ctx /\ requests'[q].final = all[q].final /\ requests'[q].cancelled = all[q].cancelled
                      /\ q \in here /\ Several(here) => requests'[q].require
    OBVIOUS
  <2> DEFINE e == all[q]
             b == e.require \/ (q \in here /\ Several(here))
  <2>1. e \in GwRequest /\ requests'[q] = [e EXCEPT !.require = b]
    BY <1>1, <1>3
  <2>2. b \in BOOLEAN
    BY <2>1 DEF GwRequest
  <2>3. q \in here /\ Several(here) => b
    OBVIOUS
  <2> HIDE DEF e, b, here
  <2>4. /\ requests'[q] \in GwRequest
        /\ requests'[q].pc = e.pc /\ requests'[q].task = e.task /\ requests'[q].room = e.room
        /\ requests'[q].ctx = e.ctx /\ requests'[q].final = e.final /\ requests'[q].cancelled = e.cancelled
        /\ requests'[q].require = b
    BY <2>1, <2>2 DEF GwRequest
  <2> QED BY <2>3, <2>4 DEF e
<1> HIDE DEF all
<1>5. /\ byRoom' \in [GwRooms -> [Requests -> SomeRequest]] /\ byRoom'[x][t] = r
      /\ \A y \in GwRooms, u \in Requests : ~(y = x /\ u = t) => byRoom'[y][u] = byRoom[y][u]
  BY <1>1 DEF GatewayType, SomeRequest
<1>6. /\ byTask' \in [Requests -> SomeRequest] /\ byTask'[t] = r
      /\ \A u \in Requests \ {t} : byTask'[u] = byTask[u]
  BY <1>1 DEF GatewayType, SomeRequest
<1>7. requests' \in [Requests -> GwRequest]
  BY <1>1, <1>4
<1>8. GatewayType'
  BY <1>1, <1>5, <1>6, <1>7 DEF GatewayType
<1>9. \A q \in Requests : RequestHolds(requests'[q])
  <2> SUFFICES ASSUME NEW q \in Requests PROVE RequestHolds(requests'[q])
    OBVIOUS
  <2>1. CASE q = r
    <3>1. /\ requests'[q].pc = "posting" /\ requests'[q].task = t /\ requests'[q].room = x
      BY <1>2, <1>3, <1>4, <2>1
    <3> HIDE DEF t
    <3> QED BY <1>1, <3>1 DEF RequestHolds, Pending
  <2>2. CASE q # r
    BY <1>3, <1>4, <2>2 DEF GatewayInv, RequestHolds
  <2> QED BY <2>1, <2>2
<1>10. \A q \in Requests : requests[q].task # 0 => requests'[q].task = requests[q].task
  BY <1>2, <1>3, <1>4
<1>11. EntriesHold(requests', byRoom', byTask')
  <2>1. ASSUME NEW y \in GwRooms, NEW u \in Requests, byRoom'[y][u] # 0
        PROVE  /\ requests'[byRoom'[y][u]].task = u /\ requests'[byRoom'[y][u]].room = y
               /\ requests'[byRoom'[y][u]].pc \in Pending /\ ~requests'[byRoom'[y][u]].final
    <3>1. CASE y = x /\ u = t
      BY <1>2, <1>3, <1>4, <1>5, <3>1 DEF Pending
    <3>2. CASE ~(y = x /\ u = t)
      <4>1. byRoom'[y][u] = byRoom[y][u] /\ byRoom[y][u] \in Requests
        BY <1>1, <1>5, <2>1, <3>2 DEF GatewayType, SomeRequest
      <4>2. LET m == requests[byRoom[y][u]] IN m.task = u /\ m.room = y /\ m.pc \in Pending /\ ~m.final
        BY <2>1, <4>1 DEF GatewayInv, EntriesHold
      <4>3. byRoom[y][u] # r
        BY <4>2
      <4> QED BY <1>3, <1>4, <4>1, <4>2, <4>3
    <3> QED BY <3>1, <3>2
  <2>2. ASSUME NEW u \in Requests, byTask'[u] # 0
        PROVE  requests'[byTask'[u]].task = u /\ requests'[byTask'[u]].pc \in Pending /\ ~requests'[byTask'[u]].final
    <3>1. CASE u = t
      BY <1>2, <1>3, <1>4, <1>6, <3>1 DEF Pending
    <3>2. CASE u # t
      <4>1. byTask'[u] = byTask[u] /\ byTask[u] \in Requests
        BY <1>1, <1>6, <2>2, <3>2 DEF GatewayType, SomeRequest
      <4>2. requests[byTask[u]].task = u /\ requests[byTask[u]].pc \in Pending /\ ~requests[byTask[u]].final
        BY <2>2, <4>1 DEF GatewayInv, EntriesHold
      <4> QED BY <1>3, <1>4, <4>1, <4>2
    <3> QED BY <3>1, <3>2
  <2> QED BY <2>1, <2>2 DEF EntriesHold
<1>12. AwaitedAreListed(requests', byRoom', byTask')
  <2> SUFFICES ASSUME NEW q \in Requests, requests'[q].pc \in Pending, ~requests'[q].final, ~requests'[q].cancelled,
                      ~ReusedIn(requests', q)
               PROVE  byRoom'[requests'[q].room][requests'[q].task] = q /\ byTask'[requests'[q].task] = q
    BY DEF AwaitedAreListed
  <2>1. CASE q = r
    BY <1>2, <1>3, <1>4, <1>5, <1>6, <2>1
  <2>2. CASE q # r
    <3>1. /\ requests'[q].task = requests[q].task /\ requests'[q].room = requests[q].room /\ requests[q].pc \in Pending
          /\ ~requests[q].final /\ ~requests[q].cancelled
      BY <1>3, <1>4, <2>2
    <3>2. requests[q].task \in Requests /\ requests[q].room \in GwRooms
      BY <3>1 DEF GatewayInv, RequestHolds, Pending
    <3>3. requests[q].task # t
      BY <1>2, <1>3, <1>4, <2>2, <3>1 DEF ReusedIn
    <3>4. ~ReusedIn(requests, q)
      BY <1>1, <1>7, <1>10, <3>2, BoundsOfGateway, ReusedStays
    <3>5. byRoom[requests[q].room][requests[q].task] = q /\ byTask[requests[q].task] = q
      BY <3>1, <3>4 DEF GatewayInv, AwaitedAreListed
    <3> QED BY <1>5, <1>6, <3>1, <3>2, <3>3, <3>5
  <2> QED BY <2>1, <2>2
<1>13. TogetherTheyNeedNames(requests', byRoom')
  <2> SUFFICES ASSUME NEW y \in GwRooms, NEW u \in Requests, NEW v \in Requests,
                      byRoom'[y][u] # 0, byRoom'[y][v] # 0, byRoom'[y][u] # byRoom'[y][v]
               PROVE  requests'[byRoom'[y][u]].require
    BY DEF TogetherTheyNeedNames
  <2>1. CASE y = x
    <3>1. here \subseteq Requests
      BY <1>1, ListedAre
    <3>2. \A w \in Requests : byRoom'[x][w] # 0 => byRoom'[x][w] \in here
      <4> SUFFICES ASSUME NEW w \in Requests, byRoom'[x][w] # 0 PROVE byRoom'[x][w] \in here
        OBVIOUS
      <4>1. CASE w = t
        BY <1>5, <4>1
      <4>2. CASE w # t
        <5>1. byRoom'[x][w] = byRoom[x][w] /\ byRoom[x][w] \in Listed(x) /\ byRoom[x][w] \in Requests
          BY <1>1, <1>5, <4>2, ListedAre
        <5>2. requests[byRoom[x][w]].task = w
          BY <5>1, BoundsOfGateway DEF GatewayInv, EntriesHold
        <5>3. byRoom[x][t] # 0 => requests[byRoom[x][t]].task = t
          BY <1>1 DEF GatewayInv, EntriesHold
        <5> QED BY <4>2, <5>1, <5>2, <5>3, BoundsOfGateway
      <4> QED BY <4>1, <4>2
    <3>3. byRoom'[x][u] \in here /\ byRoom'[x][v] \in here
      BY <2>1, <3>2
    <3> HIDE DEF here
    <3>4. Several(here)
      BY <2>1, <3>1, <3>3, TwoAreSeveral
    <3> QED BY <1>4, <2>1, <3>1, <3>3, <3>4
  <2>2. CASE y # x
    <3>1. byRoom'[y][u] = byRoom[y][u] /\ byRoom'[y][v] = byRoom[y][v] /\ byRoom[y][u] \in Requests
      BY <1>1, <1>5, <2>2 DEF GatewayType, SomeRequest
    <3>2. requests[byRoom[y][u]].require
      BY <3>1 DEF GatewayInv, TogetherTheyNeedNames
    <3>3. byRoom[y][u] # r
      BY <3>1 DEF GatewayInv, EntriesHold
    <3>4. requests'[byRoom[y][u]].require = (requests[byRoom[y][u]].require \/ (byRoom[y][u] \in here /\ Several(here)))
      BY <1>1, <1>3, <3>1, <3>3 DEF GwRequest
    <3> QED BY <3>1, <3>2, <3>4
  <2> QED BY <2>1, <2>2
<1> QED BY <1>1, <1>8, <1>9, <1>11, <1>12, <1>13 DEF GatewayInv, AnswersReachTheirRequest

\* Who is answered or given up is a request still, of its task and in its room.
LEMMA OverIs ==
  ASSUME GatewayType, NEW r \in Requests
  PROVE  /\ Over(r) \in GwRequest /\ Over(r).pc = "over" /\ Over(r).task = requests[r].task
         /\ Given(r) \in GwRequest /\ Given(r).task = requests[r].task
         /\ Given(r).pc = "over" \/ (Given(r).pc = requests[r].pc /\ requests[r].pc # "waiting" /\ Given(r).final)
         /\ Given(r).pc # "over" => Given(r).room = requests[r].room /\ Given(r).ctx = requests[r].ctx
<1>1. requests[r] \in GwRequest
  BY DEF GatewayType
<1>2. Over(r) \in GwRequest /\ Over(r).pc = "over" /\ Over(r).task = requests[r].task
  BY <1>1 DEF Over, NoRequest, GwRequest, Pending
<1> DEFINE m == [requests[r] EXCEPT !.final = TRUE]
<1>3. m \in GwRequest /\ m.pc = requests[r].pc /\ m.task = requests[r].task /\ m.final /\ m.room = requests[r].room /\ m.ctx = requests[r].ctx
  BY <1>1 DEF GwRequest
<1> HIDE DEF m
<1>4. Given(r) = IF requests[r].pc = "waiting" THEN Over(r) ELSE m
  BY DEF Given, m
<1> QED BY <1>2, <1>3, <1>4

\* One request of a room goes: those left are found as they were, and need what they need.
LEMMA RemoveKeeps ==
  ASSUME GatewayInv, NEW r \in Requests, requests[r].pc \in Pending, NEW after \in {Over(r), Given(r)}, Removes(r, after),
         contextRoom' = contextRoom, gwRooms' = gwRooms, gwMemory'.astray = {}, gwMemory' \in [astray : SUBSET (Requests \X Requests), answers : Nat, upsets : Nat]
  PROVE  GatewayInv'
<1> DEFINE t == requests[r].task
           x == requests[r].room
           left == Listed(x) \ {byRoom[x][t]}
<1>1. /\ GatewayType /\ requests \in [Requests -> GwRequest] /\ t \in Requests /\ x \in GwRooms
      /\ requests' = [q \in Requests |-> IF q = r THEN after ELSE
                       [requests[q] EXCEPT !.require =
                          IF q \in left THEN requests[q].strict \/ Cardinality(left) > 1 ELSE @]]
      /\ byRoom' = [byRoom EXCEPT ![x][t] = 0] /\ byTask' = [byTask EXCEPT ![t] = IF @ = r THEN 0 ELSE @]
  BY DEF GatewayInv, GatewayType, Removes, RequestHolds, Pending
<1>2. /\ after \in GwRequest /\ after.task = t
      /\ after.pc = "over" \/ (after.pc = requests[r].pc /\ requests[r].pc # "waiting" /\ after.final)
      /\ after.pc # "over" => after.room = x
  BY <1>1, OverIs
<1>3. requests'[r] = after
  BY <1>1
<1>4. \A q \in Requests \ {r} :
        /\ requests'[q] \in GwRequest
        /\ requests'[q].pc = requests[q].pc /\ requests'[q].task = requests[q].task /\ requests'[q].room = requests[q].room
        /\ requests'[q].ctx = requests[q].ctx
        /\ requests'[q].final = requests[q].final /\ requests'[q].cancelled = requests[q].cancelled
        /\ IF q \in left THEN Several(left) => requests'[q].require ELSE requests'[q].require = requests[q].require
  <2> SUFFICES ASSUME NEW q \in Requests \ {r}
               PROVE  /\ requests'[q] \in GwRequest
                      /\ requests'[q].pc = requests[q].pc /\ requests'[q].task = requests[q].task /\ requests'[q].room = requests[q].room
                      /\ requests'[q].ctx = requests[q].ctx
                      /\ requests'[q].final = requests[q].final /\ requests'[q].cancelled = requests[q].cancelled
                      /\ IF q \in left THEN Several(left) => requests'[q].require ELSE requests'[q].require = requests[q].require
    OBVIOUS
  <2> DEFINE e == requests[q]
             b == IF q \in left THEN e.strict \/ Cardinality(left) > 1 ELSE e.require
  <2>1. e \in GwRequest /\ requests'[q] = [e EXCEPT !.require = b]
    BY <1>1
  <2>2. b \in BOOLEAN
    BY <2>1 DEF GwRequest
  <2>3. IF q \in left THEN Several(left) => b ELSE b = e.require
    BY DEF Several
  <2> HIDE DEF e, b, left
  <2>4. /\ requests'[q] \in GwRequest
        /\ requests'[q].pc = e.pc /\ requests'[q].task = e.task /\ requests'[q].room = e.room
        /\ requests'[q].ctx = e.ctx /\ requests'[q].final = e.final /\ requests'[q].cancelled = e.cancelled
        /\ requests'[q].require = b
    BY <2>1, <2>2 DEF GwRequest
  <2> QED BY <2>3, <2>4 DEF e
<1> HIDE DEF t, x
<1>5. /\ byRoom' \in [GwRooms -> [Requests -> SomeRequest]] /\ byRoom'[x][t] = 0
      /\ \A y \in GwRooms, u \in Requests : ~(y = x /\ u = t) => byRoom'[y][u] = byRoom[y][u]
  BY <1>1 DEF GatewayType, SomeRequest
<1>6. /\ byTask' \in [Requests -> SomeRequest] /\ byTask'[t] # r /\ byTask'[t] \in {0, byTask[t]}
      /\ byTask[t] # r => byTask'[t] = byTask[t]
      /\ \A u \in Requests \ {t} : byTask'[u] = byTask[u]
  BY <1>1, BoundsOfGateway DEF GatewayType, SomeRequest
<1>7. requests' \in [Requests -> GwRequest]
  BY <1>1, <1>2, <1>3, <1>4
<1>8. GatewayType'
  BY <1>1, <1>5, <1>6, <1>7 DEF GatewayType
<1>9. \A q \in Requests : RequestHolds(requests'[q])
  <2> SUFFICES ASSUME NEW q \in Requests PROVE RequestHolds(requests'[q])
    OBVIOUS
  <2>1. CASE q = r
    BY <1>1, <1>2, <1>3, <2>1 DEF RequestHolds, Pending
  <2>2. CASE q # r
    BY <1>4, <2>2 DEF GatewayInv, RequestHolds
  <2> QED BY <2>1, <2>2
<1>10. \A q \in Requests : requests'[q].task = requests[q].task
  BY <1>2, <1>3, <1>4 DEF t
<1>11. /\ \A y \in GwRooms, u \in Requests :
            byRoom'[y][u] # 0 => /\ byRoom'[y][u] = byRoom[y][u] /\ byRoom[y][u] \in Requests \ {r}
                                 /\ requests[byRoom[y][u]].task = u /\ requests[byRoom[y][u]].room = y
                                 /\ requests[byRoom[y][u]].pc \in Pending /\ ~requests[byRoom[y][u]].final
       /\ \A u \in Requests :
            byTask'[u] # 0 => /\ byTask'[u] = byTask[u] /\ byTask[u] \in Requests \ {r}
                              /\ requests[byTask[u]].task = u /\ requests[byTask[u]].pc \in Pending /\ ~requests[byTask[u]].final
  <2>1. ASSUME NEW y \in GwRooms, NEW u \in Requests, byRoom'[y][u] # 0
        PROVE  /\ byRoom'[y][u] = byRoom[y][u] /\ byRoom[y][u] \in Requests \ {r}
               /\ requests[byRoom[y][u]].task = u /\ requests[byRoom[y][u]].room = y
               /\ requests[byRoom[y][u]].pc \in Pending /\ ~requests[byRoom[y][u]].final
    <3>1. ~(y = x /\ u = t) /\ byRoom'[y][u] = byRoom[y][u] /\ byRoom[y][u] \in Requests
      BY <1>1, <1>5, <2>1 DEF GatewayType, SomeRequest
    <3>2. LET m == requests[byRoom[y][u]] IN m.task = u /\ m.room = y /\ m.pc \in Pending /\ ~m.final
      BY <2>1, <3>1 DEF GatewayInv, EntriesHold
    <3> QED BY <3>1, <3>2 DEF x, t
  <2>2. ASSUME NEW u \in Requests, byTask'[u] # 0
        PROVE  /\ byTask'[u] = byTask[u] /\ byTask[u] \in Requests \ {r}
               /\ requests[byTask[u]].task = u /\ requests[byTask[u]].pc \in Pending /\ ~requests[byTask[u]].final
    <3>1. byTask'[u] = byTask[u] /\ byTask[u] \in Requests
      BY <1>1, <1>6, <2>2 DEF GatewayType, SomeRequest
    <3>2. requests[byTask[u]].task = u /\ requests[byTask[u]].pc \in Pending /\ ~requests[byTask[u]].final
      BY <2>2, <3>1 DEF GatewayInv, EntriesHold
    <3>3. byTask[u] # r
      BY <1>6, <3>1, <3>2 DEF t
    <3> QED BY <3>1, <3>2, <3>3
  <2> QED BY <2>1, <2>2
<1>12. EntriesHold(requests', byRoom', byTask')
  BY <1>4, <1>11 DEF EntriesHold
<1>13. AwaitedAreListed(requests', byRoom', byTask')
  <2> SUFFICES ASSUME NEW q \in Requests, requests'[q].pc \in Pending, ~requests'[q].final, ~requests'[q].cancelled,
                      ~ReusedIn(requests', q)
               PROVE  byRoom'[requests'[q].room][requests'[q].task] = q /\ byTask'[requests'[q].task] = q
    BY DEF AwaitedAreListed
  <2>1. q # r
    BY <1>2, <1>3 DEF Pending
  <2>2. /\ requests'[q].task = requests[q].task /\ requests'[q].room = requests[q].room /\ requests[q].pc \in Pending
        /\ ~requests[q].final /\ ~requests[q].cancelled
    BY <1>4, <2>1
  <2>3. requests[q].task \in Requests /\ requests[q].room \in GwRooms
    BY <2>2 DEF GatewayInv, RequestHolds, Pending
  <2>4. ~ReusedIn(requests, q) /\ requests[q].task # t
    BY <1>10, <2>1 DEF ReusedIn, t
  <2>5. byRoom[requests[q].room][requests[q].task] = q /\ byTask[requests[q].task] = q
    BY <2>2, <2>4 DEF GatewayInv, AwaitedAreListed
  <2> QED BY <1>5, <1>6, <2>2, <2>3, <2>4, <2>5
<1>14. TogetherTheyNeedNames(requests', byRoom')
  <2> SUFFICES ASSUME NEW y \in GwRooms, NEW u \in Requests, NEW v \in Requests,
                      byRoom'[y][u] # 0, byRoom'[y][v] # 0, byRoom'[y][u] # byRoom'[y][v]
               PROVE  requests'[byRoom'[y][u]].require
    BY DEF TogetherTheyNeedNames
  <2>1. /\ byRoom'[y][u] = byRoom[y][u] /\ byRoom[y][u] \in Requests \ {r} /\ byRoom'[y][v] = byRoom[y][v]
        /\ requests[byRoom[y][u]].task = u /\ requests[byRoom[y][u]].room = y
        /\ requests[byRoom[y][v]].task = v /\ byRoom[y][v] \in Requests
    BY <1>11
  <2>2. CASE y = x
    <3>1. left \subseteq Requests
      BY <1>1, ListedAre
    <3>2. byRoom[x][t] # 0 => requests[byRoom[x][t]].task = t
      BY <1>1 DEF GatewayInv, EntriesHold
    <3>3. u # t /\ v # t
      BY <1>5, <2>2
    <3>4. byRoom[x][u] \in left /\ byRoom[x][v] \in left
      BY <1>1, <2>1, <2>2, <3>2, <3>3, ListedAre, BoundsOfGateway
    <3> HIDE DEF left
    <3>5. Several(left)
      BY <2>1, <2>2, <3>1, <3>4, TwoAreSeveral
    <3> QED BY <1>4, <2>1, <2>2, <3>4, <3>5
  <2>3. CASE y # x
    <3>1. requests[byRoom[y][u]].require
      BY <2>1 DEF GatewayInv, TogetherTheyNeedNames
    <3>2. byRoom[y][u] \notin left
      <4> SUFFICES ASSUME byRoom[y][u] \in left PROVE FALSE
        OBVIOUS
      <4>1. PICK w \in Requests : byRoom[x][w] = byRoom[y][u]
        BY <1>1, ListedAre
      <4>2. requests[byRoom[x][w]].room = x
        BY <1>1, <2>1, <4>1, BoundsOfGateway DEF GatewayInv, EntriesHold
      <4> QED BY <2>1, <2>3, <4>1, <4>2
    <3> HIDE DEF left
    <3> QED BY <1>4, <2>1, <3>1, <3>2
  <2> QED BY <2>2, <2>3
<1> QED BY <1>8, <1>9, <1>12, <1>13, <1>14 DEF GatewayInv, AnswersReachTheirRequest

\* One request moves, and its entries stay: it is in none, or is pending still.
LEMMA RequestMoveKeeps ==
  ASSUME GatewayInv, NEW r \in Requests, NEW m \in GwRequest, requests' = [requests EXCEPT ![r] = m],
         byTask' = byTask, byRoom' = byRoom, gwMemory' = gwMemory, gwRooms' \in Seq(Contexts), Len(gwRooms') <= MaxGwRooms,
         contextRoom' = contextRoom, RequestHolds(m), requests[r].task = 0 \/ m.task = requests[r].task,
         \/ m.pc \notin Pending /\ (requests[r].pc \notin Pending \/ requests[r].final)
         \/ /\ requests[r].pc \in Pending /\ m.pc \in Pending
            /\ m.room = requests[r].room /\ m.final = requests[r].final /\ m.cancelled = requests[r].cancelled
            /\ m.require = requests[r].require
  PROVE  GatewayInv'
<1>1. /\ GatewayType /\ requests \in [Requests -> GwRequest] /\ requests' \in [Requests -> GwRequest] /\ requests'[r] = m
      /\ \A q \in Requests \ {r} : requests'[q] = requests[q]
  BY DEF GatewayInv, GatewayType
<1>2. GatewayType'
  BY <1>1 DEF GatewayType
<1>3. \A q \in Requests : RequestHolds(requests'[q])
  BY <1>1 DEF GatewayInv
<1>4. \A q \in Requests : requests[q].task # 0 => requests'[q].task = requests[q].task
  BY <1>1
<1>5. /\ \A x \in GwRooms, t \in Requests :
           byRoom[x][t] # 0 => LET e == requests[byRoom[x][t]] IN
             byRoom[x][t] \in Requests /\ e.task = t /\ e.room = x /\ e.pc \in Pending /\ ~e.final
      /\ \A t \in Requests :
           byTask[t] # 0 => LET e == requests[byTask[t]] IN byTask[t] \in Requests /\ e.task = t /\ e.pc \in Pending /\ ~e.final
  BY <1>1 DEF GatewayInv, GatewayType, EntriesHold, SomeRequest
<1>6. CASE m.pc \notin Pending /\ (requests[r].pc \notin Pending \/ requests[r].final)
  <2>1. (\A x \in GwRooms, t \in Requests : byRoom[x][t] # r) /\ (\A t \in Requests : byTask[t] # r)
    BY <1>5, <1>6, BoundsOfGateway
  <2>2. EntriesHold(requests', byRoom', byTask')
    BY <1>1, <1>5, <2>1 DEF EntriesHold
  <2>3. AwaitedAreListed(requests', byRoom', byTask')
    <3> SUFFICES ASSUME NEW q \in Requests, requests'[q].pc \in Pending, ~requests'[q].final, ~requests'[q].cancelled,
                        ~ReusedIn(requests', q)
                 PROVE  byRoom[requests'[q].room][requests'[q].task] = q /\ byTask[requests'[q].task] = q
      BY DEF AwaitedAreListed
    <3>1. q # r /\ requests'[q] = requests[q]
      BY <1>1, <1>6
    <3>2. requests[q].task \in Requests
      BY <3>1 DEF GatewayInv, RequestHolds, Pending
    <3>3. ~ReusedIn(requests, q)
      BY <1>1, <1>4, <3>2, BoundsOfGateway, ReusedStays
    <3> QED BY <3>1, <3>3 DEF GatewayInv, AwaitedAreListed
  <2>4. TogetherTheyNeedNames(requests', byRoom')
    <3> SUFFICES ASSUME NEW y \in GwRooms, NEW u \in Requests, NEW v \in Requests,
                        byRoom[y][u] # 0, byRoom[y][v] # 0, byRoom[y][u] # byRoom[y][v]
                 PROVE  requests'[byRoom[y][u]].require
      BY DEF TogetherTheyNeedNames
    <3>1. requests'[byRoom[y][u]] = requests[byRoom[y][u]]
      BY <1>1, <1>5, <2>1
    <3> QED BY <3>1 DEF GatewayInv, TogetherTheyNeedNames
  <2> QED BY <1>2, <1>3, <2>2, <2>3, <2>4 DEF GatewayInv, AnswersReachTheirRequest
<1>7. CASE /\ requests[r].pc \in Pending /\ m.pc \in Pending
           /\ m.room = requests[r].room /\ m.final = requests[r].final /\ m.cancelled = requests[r].cancelled
           /\ m.require = requests[r].require
  <2>1. requests[r].task \in Requests
    BY <1>7 DEF GatewayInv, RequestHolds, Pending
  <2>2. \A q \in Requests : LET e == requests[q]
                                n == requests'[q] IN
          n.task = e.task /\ n.room = e.room /\ n.final = e.final /\ n.cancelled = e.cancelled /\ n.require = e.require
            /\ (n.pc \in Pending <=> e.pc \in Pending)
    BY <1>1, <1>7, <2>1, BoundsOfGateway
  <2>3. EntriesHold(requests', byRoom', byTask')
    BY <1>5, <2>2 DEF EntriesHold
  <2>4. AwaitedAreListed(requests', byRoom', byTask')
    BY <2>2 DEF GatewayInv, AwaitedAreListed, ReusedIn
  <2>5. TogetherTheyNeedNames(requests', byRoom')
    BY <1>5, <2>2 DEF GatewayInv, TogetherTheyNeedNames
  <2> QED BY <1>2, <1>3, <2>3, <2>4, <2>5 DEF GatewayInv, AnswersReachTheirRequest
<1> QED BY <1>6, <1>7

LEMMA RequestArriveKeeps ==
  ASSUME GatewayInv, NEW r \in Requests, NEW p \in Peers, NEW c \in Contexts, NEW t \in 1..r, RequestArrives(r, p, c, t)
  PROVE  GatewayInv'
<1> DEFINE x == contextRoom[c]
           strict == x # 0
           entry(pc) == [NoRequest EXCEPT !.pc = pc, !.peer = p, !.ctx = c, !.task = t, !.room = x, !.strict = strict]
           m == entry(IF x # 0 THEN "adding" ELSE "creating")
<1>1. /\ requests[r].pc = "none" /\ requests[r].task = 0 /\ x \in SomeGwRoom /\ contextRoom' = contextRoom /\ gwRooms' = gwRooms
      /\ gwRooms \in Seq(Contexts) /\ Len(gwRooms) <= MaxGwRooms /\ contextRoom \in [Contexts -> SomeGwRoom]
  BY DEF GatewayInv, GatewayType, RequestArrives, RequestHolds
<1>2. t \in Requests
  BY BoundsOfGateway DEF Requests
<1>3. ASSUME NEW pc \in {"posting", "adding", "creating"}
      PROVE  /\ entry(pc) \in GwRequest /\ entry(pc).pc = pc /\ entry(pc).task = t /\ entry(pc).room = x /\ entry(pc).ctx = c
             /\ ~entry(pc).final /\ ~entry(pc).cancelled
  BY <1>1, <1>2, <1>3 DEF NoRequest, GwRequest, Pending, SomeRequest
<1>4. \/ x # 0 /\ Registers(r, entry("posting"), x)
      \/ requests' = [requests EXCEPT ![r] = m] /\ UNCHANGED <<byTask, byRoom, gwMemory>>
  BY DEF RequestArrives
<1>5. CASE x # 0 /\ Registers(r, entry("posting"), x)
  <2> DEFINE e == entry("posting")
  <2>1. /\ e \in GwRequest /\ e.task = t /\ e.ctx = c /\ ~e.final /\ ~e.cancelled
    BY <1>3
  <2>2. Registers(r, e, x) /\ x \in GwRooms
    BY <1>1, <1>5 DEF SomeGwRoom
  <2> HIDE DEF e, x
  <2> QED BY <1>1, <1>2, <2>1, <2>2, RegisterKeeps DEF Pending
<1>6. CASE requests' = [requests EXCEPT ![r] = m] /\ UNCHANGED <<byTask, byRoom, gwMemory>>
  <2>1. m \in GwRequest /\ m.pc \in {"adding", "creating"} /\ (m.pc = "adding" => x # 0) /\ m.task = t /\ m.room = x
        /\ m.ctx = c /\ ~m.final /\ ~m.cancelled
    BY <1>3
  <2> HIDE DEF m
  <2>2. RequestHolds(m)
    BY <1>1, <1>2, <2>1 DEF RequestHolds, Pending, SomeGwRoom
  <2> QED BY <1>1, <1>6, <2>1, <2>2, RequestMoveKeeps DEF Pending
<1> QED BY <1>4, <1>5, <1>6

\* A request that adds its peer, creates its room or invites its peer is in no list.
LEMMA RoomStepKeeps ==
  ASSUME GatewayInv, NEW r \in Requests, PeerAdded(r) \/ RoomMade(r) \/ PeerInvited(r) \/ RoomRefused(r)
  PROVE  GatewayInv'
<1>1. /\ GatewayType /\ requests[r] \in GwRequest /\ requests[r].pc \in {"adding", "creating", "inviting"}
      /\ requests[r].task \in Requests /\ RequestHolds(requests[r])
      /\ gwRooms \in Seq(Contexts) /\ Len(gwRooms) <= MaxGwRooms /\ contextRoom \in [Contexts -> SomeGwRoom]
  BY DEF GatewayInv, GatewayType, RequestHolds, PeerAdded, RoomMade, PeerInvited, RoomRefused
<1>2. CASE PeerAdded(r) \/ PeerInvited(r)
  <2> DEFINE entry == requests[r]
             x == requests[r].room
  <2>1. /\ x \in GwRooms /\ entry.ctx \in Contexts /\ ~entry.final /\ ~entry.cancelled /\ entry.task \in Requests
        /\ entry \in GwRequest /\ requests[r].task = entry.task
    BY <1>1, <1>2 DEF RequestHolds, PeerAdded, PeerInvited
  <2>2. Registers(r, entry, x) /\ gwRooms' = gwRooms
    BY <1>2 DEF PeerAdded, PeerInvited
  <2>3. contextRoom' \in [Contexts -> SomeGwRoom]
    BY <1>1, <1>2, <2>1 DEF PeerAdded, PeerInvited, SomeGwRoom
  <2> HIDE DEF entry, x
  <2> QED BY <1>1, <2>1, <2>2, <2>3, RegisterKeeps DEF Pending
<1>3. CASE RoomMade(r)
  <2> DEFINE x == Len(gwRooms) + 1
             m == [requests[r] EXCEPT !.pc = "inviting", !.room = x]
  <2>1. /\ x \in GwRooms /\ requests[r].ctx \in Contexts /\ requests[r].pc = "creating" /\ ~requests[r].final /\ ~requests[r].cancelled
        /\ gwRooms' = Append(gwRooms, requests[r].ctx) /\ UNCHANGED <<contextRoom, byTask, byRoom, gwMemory>>
        /\ Len(gwRooms) < MaxGwRooms
    BY <1>1, <1>3, BoundsOfGateway DEF RoomMade, RequestHolds, GwRooms
  <2>2. gwRooms' \in Seq(Contexts) /\ Len(gwRooms') <= MaxGwRooms
    BY <1>1, <2>1, BoundsOfGateway
  <2>3. requests' = [requests EXCEPT ![r] = m]
    BY <1>1, <1>3 DEF RoomMade, GatewayType
  <2> HIDE DEF x
  <2>4. /\ m \in GwRequest /\ m.pc = "inviting" /\ m.room = x /\ m.task = requests[r].task /\ m.ctx = requests[r].ctx
        /\ ~m.final /\ ~m.cancelled
    BY <1>1, <2>1 DEF GwRequest, SomeGwRoom
  <2> HIDE DEF m
  <2>5. RequestHolds(m)
    BY <1>1, <2>1, <2>4 DEF RequestHolds, Pending
  <2> QED BY <1>1, <2>1, <2>2, <2>3, <2>4, <2>5, RequestMoveKeeps DEF Pending
<1>4. CASE RoomRefused(r)
  <2>1. requests' = [requests EXCEPT ![r] = Over(r)] /\ UNCHANGED <<byTask, byRoom, contextRoom, gwRooms, gwMemory>>
    BY <1>4 DEF RoomRefused, Stuck
  <2>2. Over(r) \in GwRequest /\ Over(r).pc = "over" /\ Over(r).task = requests[r].task
    BY <1>1, OverIs
  <2>3. RequestHolds(Over(r))
    BY <1>1, <2>2 DEF RequestHolds, Pending
  <2> QED BY <1>1, <2>1, <2>2, <2>3, RequestMoveKeeps DEF Pending
<1> QED BY <1>2, <1>3, <1>4

LEMMA PostKeeps ==
  ASSUME GatewayInv, NEW r \in Requests, PostTaken(r) \/ PostFails(r) \/ PostAnswered(r) \/ RequestTimesOut(r)
  PROVE  GatewayInv'
<1>1. /\ GatewayType /\ requests \in [Requests -> GwRequest] /\ requests[r] \in GwRequest /\ requests[r].pc \in Pending
      /\ requests[r].task \in Requests /\ RequestHolds(requests[r])
      /\ gwRooms \in Seq(Contexts) /\ Len(gwRooms) <= MaxGwRooms /\ UNCHANGED <<contextRoom, gwRooms, gwMemory>>
      /\ gwMemory.astray = {} /\ gwMemory \in [astray : SUBSET (Requests \X Requests), answers : Nat, upsets : Nat]
  BY DEF GatewayInv, GatewayType, RequestHolds, PostTaken, PostFails, PostAnswered, RequestTimesOut, AnswersReachTheirRequest, Pending
<1>2. CASE Removes(r, Over(r))
  BY <1>1, <1>2, RemoveKeeps
<1>3. ASSUME NEW pc \in Pending, requests' = [requests EXCEPT ![r].pc = pc], UNCHANGED <<byTask, byRoom>>,
             pc = "waiting" => ~requests[r].final /\ ~requests[r].cancelled
      PROVE  GatewayInv'
  <2> DEFINE m == [requests[r] EXCEPT !.pc = pc]
  <2>1. /\ m \in GwRequest /\ m.pc = pc /\ m.task = requests[r].task /\ m.room = requests[r].room
        /\ m.final = requests[r].final /\ m.cancelled = requests[r].cancelled /\ m.require = requests[r].require
    BY <1>1, <1>3 DEF GwRequest
  <2>2. requests' = [requests EXCEPT ![r] = m]
    BY <1>1, <1>3
  <2> HIDE DEF m
  <2>3. RequestHolds(m)
    BY <1>1, <1>3, <2>1 DEF RequestHolds, Pending
  <2> QED BY <1>1, <1>3, <2>1, <2>2, <2>3, RequestMoveKeeps
<1>4. CASE ~requests[r].cancelled /\ requests[r].final /\ Stuck(r)
  <2>1. Over(r) \in GwRequest /\ Over(r).pc = "over" /\ Over(r).task = requests[r].task
    BY <1>1, OverIs
  <2>2. RequestHolds(Over(r))
    BY <1>1, <2>1 DEF RequestHolds, Pending
  <2> QED BY <1>1, <1>4, <2>1, <2>2, RequestMoveKeeps DEF Pending, Stuck
<1>5. CASE PostTaken(r)
  BY <1>3, <1>5 DEF PostTaken, Pending
<1>6. CASE PostAnswered(r)
  BY <1>2, <1>3, <1>4, <1>6 DEF PostAnswered, Pending
<1> QED BY <1>2, <1>5, <1>6 DEF PostFails, RequestTimesOut

LEMMA CancelKeeps == ASSUME GatewayInv, NEW t \in Requests, ClientCancels(t) PROVE GatewayInv'
<1>1. /\ GatewayType /\ byTask[t] \in Requests /\ requests[byTask[t]].pc \in Pending
      /\ Removes(byTask[t], Given(byTask[t])) /\ UNCHANGED <<contextRoom, gwRooms, gwMemory>>
      /\ gwMemory.astray = {} /\ gwMemory \in [astray : SUBSET (Requests \X Requests), answers : Nat, upsets : Nat]
  BY SMTT(30) DEF GatewayInv, GatewayType, SomeRequest, EntriesHold, ClientCancels, AnswersReachTheirRequest
<1> QED BY <1>1, RemoveKeeps

\* A peer's answer is taken for that of the request that awaits it.
LEMMA PeerAnswerKeeps == ASSUME GatewayInv, NEW q \in Requests, PeerAnswers(q) PROVE GatewayInv'
<1> DEFINE memory == [astray : SUBSET (Requests \X Requests), answers : Nat, upsets : Nat]
           counted == [gwMemory EXCEPT !.answers = @ + 1]
           x == requests[q].room
<1>1. /\ GatewayType /\ requests[q] \in GwRequest /\ requests[q].pc \in {"posted", "waiting", "over"} /\ x \in GwRooms
      /\ gwMemory \in memory /\ gwMemory.astray = {} /\ UNCHANGED <<contextRoom, gwRooms>>
  BY DEF GatewayInv, GatewayType, GwRequest, SomeGwRoom, PeerAnswers, AnswersReachTheirRequest
<1>2. counted \in memory /\ counted.astray = {}
  BY <1>1, SMTT(30)
<1>3. PICK tagged \in BOOLEAN, final \in BOOLEAN :
        LET found == Matching(requests[q].room, requests[q].peer, IF tagged THEN requests[q].task ELSE 0) IN
          \/ /\ Cardinality(found) # 1
             /\ gwMemory' = [gwMemory EXCEPT !.answers = @ + 1]
             /\ UNCHANGED <<requests, byTask, byRoom>>
          \/ \E r \in found :
               /\ Cardinality(found) = 1
               /\ gwMemory' = [gwMemory EXCEPT !.answers = @ + 1, !.astray =
                    IF ~Unanswered(q) \/ q = r \/ Reused(q) THEN @ ELSE @ \cup {<<q, r>>}]
               /\ IF final THEN Removes(r, Given(r)) ELSE UNCHANGED <<requests, byTask, byRoom>>
  BY DEF PeerAnswers
<1> DEFINE task == IF tagged THEN requests[q].task ELSE 0
           found == Matching(x, requests[q].peer, task)
<1>4. ASSUME NEW r \in found PROVE r \in Requests /\ requests[r].pc \in Pending
  <2>1. r \in Listed(x)
    <3>1. task # 0 => task \in Requests
      BY <1>1 DEF GwRequest, SomeRequest
    <3> QED BY <1>1, <1>4, <3>1, ListedAre DEF Matching
  <2>2. PICK t \in Requests : byRoom[x][t] = r /\ r # 0
    BY <1>1, <2>1, ListedAre
  <2> QED BY <1>1, <2>1, <2>2, ListedAre DEF GatewayInv, EntriesHold
<1>5. ASSUME NEW r \in found, Unanswered(q), q # r PROVE Reused(q)
  <2> SUFFICES ASSUME ~Reused(q) PROVE FALSE
    OBVIOUS
  <2>1. requests[q].pc \in Pending /\ ~requests[q].final /\ ~requests[q].cancelled /\ ~ReusedIn(requests, q) /\ requests[q].task \in Requests
    BY <1>1, <1>5 DEF Unanswered, Pending, Reused, ReusedIn, GatewayInv, RequestHolds
  <2>2. byRoom[x][requests[q].task] = q
    BY <2>1 DEF GatewayInv, AwaitedAreListed
  <2>3. CASE tagged
    <3>1. found = {byRoom[x][requests[q].task]} \ {0}
      BY <2>1, <2>3, BoundsOfGateway DEF Matching
    <3> QED BY <1>5, <2>2, <3>1
  <2>4. CASE ~tagged
    <3>1. r \in Listed(x) /\ ~requests[r].require
      BY <1>5, <2>4 DEF Matching
    <3>2. PICK t \in Requests : byRoom[x][t] = r /\ r # 0
      BY <1>1, <3>1, ListedAre
    <3> QED BY <1>1, <1>5, <2>1, <2>2, <3>1, <3>2, BoundsOfGateway DEF GatewayInv, TogetherTheyNeedNames
  <2> QED BY <2>3, <2>4
<1>6. CASE Cardinality(found) # 1 /\ gwMemory' = counted /\ UNCHANGED <<requests, byTask, byRoom>>
  BY <1>1, <1>2, <1>6 DEF GatewayInv, GatewayType, AnswersReachTheirRequest
<1>7. ASSUME NEW r \in found,
             gwMemory' = [gwMemory EXCEPT !.answers = @ + 1, !.astray =
               IF ~Unanswered(q) \/ q = r \/ Reused(q) THEN @ ELSE @ \cup {<<q, r>>}],
             IF final THEN Removes(r, Given(r)) ELSE UNCHANGED <<requests, byTask, byRoom>>
      PROVE  GatewayInv'
  <2>1. gwMemory' = counted
    BY <1>1, <1>5, <1>7
  <2>2. CASE final
    <3>1. Removes(r, Given(r)) /\ r \in Requests /\ requests[r].pc \in Pending
      BY <1>4, <1>7, <2>2
    <3> QED BY <1>1, <1>2, <2>1, <3>1, RemoveKeeps
  <2>3. CASE ~final
    BY <1>1, <1>2, <1>7, <2>1, <2>3 DEF GatewayInv, GatewayType, AnswersReachTheirRequest
  <2> QED BY <2>2, <2>3
<1> QED BY <1>3, <1>6, <1>7

LEMMA CancelledIs ==
  ASSUME GatewayType, NEW r \in Requests
  PROVE  /\ Cancelled(r) \in GwRequest /\ Cancelled(r).task = requests[r].task
         /\ Cancelled(r).pc = "over" \/ /\ Cancelled(r).pc = requests[r].pc /\ requests[r].pc # "waiting"
                                        /\ Cancelled(r).cancelled /\ Cancelled(r).room = requests[r].room
<1>1. requests[r] \in GwRequest
  BY DEF GatewayType
<1> DEFINE m == [requests[r] EXCEPT !.cancelled = TRUE, !.final = FALSE]
<1>2. m \in GwRequest /\ m.pc = requests[r].pc /\ m.task = requests[r].task /\ m.room = requests[r].room /\ m.cancelled
  BY <1>1 DEF GwRequest
<1> HIDE DEF m
<1>3. Cancelled(r) = IF requests[r].pc = "waiting" THEN Over(r) ELSE m
  BY DEF Cancelled, m
<1> QED BY <1>2, <1>3, OverIs

LEMMA GwUpsetIs ==
  ASSUME GatewayType, GwUpset
  PROVE  /\ gwMemory' \in [astray : SUBSET (Requests \X Requests), answers : Nat, upsets : Nat]
         /\ gwMemory'.astray = gwMemory.astray
BY SMTT(30) DEF GatewayType, GwUpset

\* Requests of a room, or all that are pending, are cancelled: what stays listed is as it was.
LEMMA GwUpsetKeeps ==
  ASSUME GatewayInv, NEW gone \in SUBSET Requests, \A r \in gone : requests[r].pc \in Pending,
         requests' = [r \in Requests |-> IF r \in gone THEN Cancelled(r) ELSE requests[r]],
         byRoom' \in [GwRooms -> [Requests -> SomeRequest]], byTask' \in [Requests -> SomeRequest],
         \A x \in GwRooms, t \in Requests : byRoom'[x][t] # 0 => byRoom'[x][t] = byRoom[x][t] /\ byRoom[x][t] \notin gone,
         \A t \in Requests : byTask'[t] # 0 => byTask'[t] = byTask[t] /\ byTask[t] \notin gone,
         \A r \in Requests \ gone :
           LET m == requests[r] IN
             m.pc \in Pending /\ byRoom[m.room][m.task] = r /\ byTask[m.task] = r => byRoom'[m.room][m.task] = r /\ byTask'[m.task] = r,
         contextRoom' \in [Contexts -> SomeGwRoom], gwRooms' = gwRooms, GwUpset
  PROVE  GatewayInv'
<1>1. GatewayType /\ requests \in [Requests -> GwRequest] /\ gwMemory.astray = {}
  BY DEF GatewayInv, GatewayType, AnswersReachTheirRequest
<1>2. /\ gwMemory' \in [astray : SUBSET (Requests \X Requests), answers : Nat, upsets : Nat] /\ gwMemory'.astray = {}
  BY <1>1, GwUpsetIs
<1>3. \A r \in Requests :
        /\ requests'[r] \in GwRequest /\ requests'[r].task = requests[r].task
        /\ r \notin gone => requests'[r] = requests[r]
        /\ r \in gone => requests'[r].pc = "over" \/ /\ requests'[r].pc = requests[r].pc /\ requests[r].pc # "waiting"
                                                     /\ requests'[r].cancelled /\ requests'[r].room = requests[r].room
  BY <1>1, CancelledIs
<1>4. requests' \in [Requests -> GwRequest]
  BY <1>3
<1>5. GatewayType'
  BY <1>1, <1>2, <1>4 DEF GatewayType
<1>6. \A r \in Requests : RequestHolds(requests'[r])
  <2> SUFFICES ASSUME NEW r \in Requests PROVE RequestHolds(requests'[r])
    OBVIOUS
  <2>1. CASE r \in gone
    BY <1>3, <2>1 DEF GatewayInv, RequestHolds, Pending
  <2>2. CASE r \notin gone
    BY <1>3, <2>2 DEF GatewayInv
  <2> QED BY <2>1, <2>2
<1>7. /\ \A x \in GwRooms, t \in Requests :
           byRoom'[x][t] # 0 => byRoom'[x][t] = byRoom[x][t] /\ byRoom[x][t] \in Requests /\ requests'[byRoom[x][t]] = requests[byRoom[x][t]]
      /\ \A t \in Requests :
           byTask'[t] # 0 => byTask'[t] = byTask[t] /\ byTask[t] \in Requests /\ requests'[byTask[t]] = requests[byTask[t]]
  BY <1>3 DEF SomeRequest
<1>8. EntriesHold(requests', byRoom', byTask')
  BY <1>7 DEF GatewayInv, EntriesHold
<1>9. AwaitedAreListed(requests', byRoom', byTask')
  <2> SUFFICES ASSUME NEW q \in Requests, requests'[q].pc \in Pending, ~requests'[q].final, ~requests'[q].cancelled,
                      ~ReusedIn(requests', q)
               PROVE  byRoom'[requests'[q].room][requests'[q].task] = q /\ byTask'[requests'[q].task] = q
    BY DEF AwaitedAreListed
  <2>1. q \notin gone /\ requests'[q] = requests[q]
    BY <1>3 DEF Pending
  <2>2. ~ReusedIn(requests, q)
    BY <1>3 DEF ReusedIn
  <2> QED BY <2>1, <2>2 DEF GatewayInv, AwaitedAreListed
<1>10. TogetherTheyNeedNames(requests', byRoom')
  BY <1>7 DEF GatewayInv, TogetherTheyNeedNames
<1> QED BY <1>2, <1>5, <1>6, <1>8, <1>9, <1>10 DEF GatewayInv, AnswersReachTheirRequest

LEMMA RoomLeftKeeps == ASSUME GatewayInv, NEW x \in GwRooms, GwRoomLeft(x) PROVE GatewayInv'
<1> DEFINE gone == Listed(x)
<1>1. /\ GatewayType /\ requests' = [r \in Requests |-> IF r \in gone THEN Cancelled(r) ELSE requests[r]]
      /\ byRoom' = [byRoom EXCEPT ![x] = [t \in Requests |-> 0]]
      /\ byTask' = [t \in Requests |-> IF byTask[t] # 0 /\ requests[byTask[t]].room = x THEN 0 ELSE byTask[t]]
      /\ contextRoom' = [c \in Contexts |-> IF contextRoom[c] = x THEN 0 ELSE contextRoom[c]]
      /\ gwRooms' = gwRooms /\ GwUpset
  BY DEF GatewayInv, GwRoomLeft
<1>2. /\ gone \subseteq Requests
      /\ \A r \in gone : requests[r].pc \in Pending /\ requests[r].room = x
  BY <1>1, ListedAre DEF GatewayInv, EntriesHold
<1>3. /\ byRoom' \in [GwRooms -> [Requests -> SomeRequest]] /\ \A t \in Requests : byRoom'[x][t] = 0
      /\ \A y \in GwRooms \ {x} : byRoom'[y] = byRoom[y]
  BY <1>1 DEF GatewayType, SomeRequest
<1>4. byTask' \in [Requests -> SomeRequest] /\ contextRoom' \in [Contexts -> SomeGwRoom]
  BY <1>1 DEF GatewayType, SomeRequest, SomeGwRoom
<1>5. \A y \in GwRooms, t \in Requests : byRoom'[y][t] # 0 => byRoom'[y][t] = byRoom[y][t] /\ byRoom[y][t] \notin gone
  <2> SUFFICES ASSUME NEW y \in GwRooms, NEW t \in Requests, byRoom'[y][t] # 0
               PROVE  byRoom'[y][t] = byRoom[y][t] /\ byRoom[y][t] \notin gone
    OBVIOUS
  <2>1. y # x /\ byRoom'[y][t] = byRoom[y][t]
    BY <1>3
  <2>2. requests[byRoom[y][t]].room = y
    BY <2>1 DEF GatewayInv, EntriesHold
  <2> QED BY <1>2, <2>1, <2>2
<1>6. \A t \in Requests : byTask'[t] # 0 => byTask'[t] = byTask[t] /\ byTask[t] \notin gone
  BY <1>1, <1>2
<1>7. ASSUME NEW r \in Requests \ gone, requests[r].pc \in Pending, byRoom[requests[r].room][requests[r].task] = r,
             byTask[requests[r].task] = r
      PROVE  byRoom'[requests[r].room][requests[r].task] = r /\ byTask'[requests[r].task] = r
  <2>1. requests[r].task \in Requests /\ requests[r].room \in GwRooms
    BY <1>7 DEF GatewayInv, RequestHolds, Pending
  <2>2. requests[r].room # x
    BY <1>1, <1>7, <2>1, ListedAre, BoundsOfGateway
  <2> QED BY <1>1, <1>3, <1>7, <2>1, <2>2
<1> HIDE DEF gone
<1> QED BY <1>1, <1>2, <1>3, <1>4, <1>5, <1>6, <1>7, GwUpsetKeeps

LEMMA RuntimeStopKeeps == ASSUME GatewayInv, GwRuntimeStops PROVE GatewayInv'
<1> DEFINE gone == {r \in Requests : \E t \in Requests : byTask[t] = r}
<1>1. /\ GatewayType /\ requests' = [r \in Requests |-> IF r \in gone THEN Cancelled(r) ELSE requests[r]]
      /\ byRoom' = [x \in GwRooms |-> [t \in Requests |-> 0]] /\ byTask' = [t \in Requests |-> 0]
      /\ contextRoom' = [c \in Contexts |-> 0] /\ gwRooms' = gwRooms /\ GwUpset
  BY DEF GatewayInv, GwRuntimeStops
<1>2. gone \subseteq Requests /\ \A r \in gone : requests[r].pc \in Pending
  BY BoundsOfGateway DEF GatewayInv, EntriesHold
<1>3. /\ byRoom' \in [GwRooms -> [Requests -> SomeRequest]] /\ \A x \in GwRooms, t \in Requests : byRoom'[x][t] = 0
      /\ byTask' \in [Requests -> SomeRequest] /\ (\A t \in Requests : byTask'[t] = 0)
      /\ contextRoom' \in [Contexts -> SomeGwRoom]
  BY <1>1 DEF SomeRequest, SomeGwRoom
<1>4. ASSUME NEW r \in Requests \ gone, requests[r].pc \in Pending PROVE byTask[requests[r].task] # r
  <2>1. requests[r].task \in Requests
    BY <1>4 DEF GatewayInv, RequestHolds, Pending
  <2> QED BY <1>4, <2>1
<1> HIDE DEF gone
<1> QED BY <1>1, <1>2, <1>3, <1>4, GwUpsetKeeps

LEMMA BootstrapKeeps == ASSUME GatewayInv, NEW x \in GwRooms, GwRoomBootstraps(x) PROVE GatewayInv'
<1>1. /\ GatewayType /\ contextRoom' = [contextRoom EXCEPT ![gwRooms[x]] = x] /\ UNCHANGED <<requests, gwRooms, byTask, byRoom>>
      /\ gwMemory' = [gwMemory EXCEPT !.upsets = @ + 1]
  BY DEF GatewayInv, GwRoomBootstraps, GwUpset
<1>2. contextRoom' \in [Contexts -> SomeGwRoom]
  BY <1>1 DEF GatewayType, SomeGwRoom
<1>3. gwMemory' \in [astray : SUBSET (Requests \X Requests), answers : Nat, upsets : Nat] /\ gwMemory'.astray = gwMemory.astray
  BY <1>1 DEF GatewayType
<1> QED BY <1>1, <1>2, <1>3 DEF GatewayInv, GatewayType, AnswersReachTheirRequest

LEMMA GatewayKept == GatewayInv /\ [GatewayNext]_gatewayVars => GatewayInv'
<1> SUFFICES ASSUME GatewayInv, [GatewayNext]_gatewayVars PROVE GatewayInv'
  OBVIOUS
<1>1. ASSUME NEW r \in Requests,
             \/ \E p \in Peers, c \in Contexts, t \in 1..r : RequestArrives(r, p, c, t)
             \/ PeerAdded(r) \/ RoomMade(r) \/ PeerInvited(r) \/ RoomRefused(r)
             \/ PostTaken(r) \/ PostFails(r) \/ PostAnswered(r) \/ RequestTimesOut(r)
             \/ ClientCancels(r) \/ PeerAnswers(r)
      PROVE  GatewayInv'
  BY <1>1, RequestArriveKeeps, RoomStepKeeps, PostKeeps, CancelKeeps, PeerAnswerKeeps
<1>2. ASSUME NEW x \in GwRooms, GwRoomLeft(x) \/ GwRoomBootstraps(x) PROVE GatewayInv'
  BY <1>2, RoomLeftKeeps, BootstrapKeeps
<1>3. CASE GwRuntimeStops
  BY <1>3, RuntimeStopKeeps
<1>4. CASE UNCHANGED gatewayVars
  BY <1>4 DEF gatewayVars, GatewayInv, GatewayType, AnswersReachTheirRequest
<1> QED BY <1>1, <1>2, <1>3, <1>4 DEF GatewayNext

\* What waits is listed, and what is listed waits or will.
LEMMA GatewayFinds == GatewayInv => RequestsAreFound
<1> SUFFICES ASSUME GatewayInv PROVE RequestsAreFound
  OBVIOUS
<1>1. \A r \in Requests :
        requests[r].pc = "waiting" /\ ~Reused(r) => byRoom[requests[r].room][requests[r].task] = r /\ byTask[requests[r].task] = r
  BY DEF GatewayInv, RequestHolds, AwaitedAreListed, Pending, Reused, ReusedIn
<1>2. ASSUME NEW x \in GwRooms, NEW r \in Listed(x)
      PROVE  requests[r].pc \in {"posting", "posted", "waiting"} /\ requests[r].room = x
  BY <1>2, ListedAre DEF GatewayInv, EntriesHold, Pending
<1>3. ASSUME NEW t \in Requests, byTask[t] # 0 PROVE requests[byTask[t]].pc \in {"posting", "posted", "waiting"}
  BY <1>3 DEF GatewayInv, EntriesHold, Pending
<1> QED BY <1>1, <1>2, <1>3 DEF RequestsAreFound

-----------------------------------------------------------------------------
(* Linear's notifications.                                                 *)

NoticeJob == [of : Notifications \cup {NoNotice}, pc : {"none", "telling", "canceling"}]
NoticeNotes == [forwarded : [Notifications -> Nat], excused : SUBSET Notifications, heard : Nat, upsets : Nat]
NoticesType ==
  /\ sessionStatus \in {"none", "active", "errored", "canceled"} /\ unassigns \subseteq Notifications
  /\ noticed \in Seq(Notifications) /\ Len(noticed) <= NoticeLimit
  /\ noticeJobs \in [NoticeSlots -> NoticeJob] /\ lnNotes \in NoticeNotes

\* A webhook that carries a notification has one, and told the room before it cancels.
NoticeJobHolds(job) ==
  /\ job.pc = "none" <=> job.of = NoNotice
  /\ job.pc = "canceling" => job.of \in unassigns /\ lnNotes.forwarded[job.of] > 0
\* What the room was told of a notification that nothing excuses is what its webhook is
\* past, or what is remembered.
NoticeCounts(n) ==
  /\ \A c, d \in NoticeSlots : noticeJobs[c].of = n /\ noticeJobs[d].of = n => c = d
  /\ \A d \in NoticeSlots :
       noticeJobs[d].of = n => n \notin ToSet(noticed) /\ lnNotes.forwarded[n] = IF noticeJobs[d].pc = "canceling" THEN 1 ELSE 0
  /\ (\A d \in NoticeSlots : noticeJobs[d].of # n) => lnNotes.forwarded[n] = IF n \in ToSet(noticed) THEN 1 ELSE 0
NoticesInv ==
  /\ NoticesType
  /\ \A d \in NoticeSlots : NoticeJobHolds(noticeJobs[d])
  /\ \A n \in Notifications \ lnNotes.excused : NoticeCounts(n)
  /\ sessionStatus = "canceled" => \E n \in unassigns : lnNotes.forwarded[n] > 0

LEMMA NoticesStart == NoticesInit => NoticesInv
<1> SUFFICES ASSUME NoticesInit PROVE NoticesInv
  OBVIOUS
<1>1. /\ noticed = <<>> /\ noticed \in Seq(Notifications) /\ Len(noticed) = 0 /\ ToSet(noticed) = {}
  BY DEF NoticesInit, ToSet
<1>2. /\ \A d \in NoticeSlots : noticeJobs[d].of = NoNotice /\ noticeJobs[d].pc = "none"
      /\ noticeJobs \in [NoticeSlots -> NoticeJob]
  BY DEF NoticesInit, NoNoticeJob, NoticeJob
<1>3. lnNotes \in NoticeNotes /\ \A n \in Notifications : lnNotes.forwarded[n] = 0
  BY DEF NoticesInit, NoticeNotes
<1>4. NoticesType
  BY <1>1, <1>2, <1>3, NoticesAssumption DEF NoticesInit, NoticesType
<1>5. \A n \in Notifications : NoticeCounts(n)
  BY <1>1, <1>2, <1>3, NoticeNamesAssumption DEF NoticeCounts
<1> QED BY <1>2, <1>4, <1>5 DEF NoticesInv, NoticesInit, NoticeJobHolds

\* What is remembered with one more: that one, and of the others all but those forgotten.
LEMMA RememberedIs ==
  ASSUME NoticesType, NEW n \in Notifications
  PROVE  /\ Remembered(n) \in Seq(Notifications) /\ Len(Remembered(n)) <= NoticeLimit
         /\ n \in ToSet(Remembered(n)) /\ ToSet(Remembered(n)) \subseteq ToSet(noticed) \cup {n}
         /\ NoticesForgotten(n) \subseteq Notifications
         /\ \A m \in ToSet(noticed) : m \in ToSet(Remembered(n)) \/ m \in NoticesForgotten(n)
         /\ n \notin NoticesForgotten(n)
<1>1. noticed \in Seq(Notifications) /\ Len(noticed) <= NoticeLimit /\ NoticeLimit \in Nat \ {0}
  BY NoticesAssumption DEF NoticesType
<1>2. /\ Remembered(n) \in Seq(Notifications) /\ Len(Remembered(n)) <= NoticeLimit
      /\ n \in ToSet(Remembered(n)) /\ ToSet(Remembered(n)) \subseteq ToSet(noticed) \cup {n}
  <2>1. CASE n \in ToSet(noticed)
    BY <1>1, <2>1 DEF Remembered
  <2>2. CASE n \notin ToSet(noticed) /\ Len(noticed) < NoticeLimit
    <3>1. Remembered(n) = Append(noticed, n)
      BY <2>2 DEF Remembered
    <3>2. /\ Append(noticed, n) \in Seq(Notifications) /\ Len(Append(noticed, n)) = Len(noticed) + 1
          /\ \A i \in 1..Len(noticed) : Append(noticed, n)[i] = noticed[i]
          /\ Append(noticed, n)[Len(noticed) + 1] = n
      BY <1>1
    <3>3. ToSet(Append(noticed, n)) = ToSet(noticed) \cup {n}
      BY <1>1, <3>2 DEF ToSet
    <3> QED BY <1>1, <2>2, <3>1, <3>2, <3>3
  <2>3. CASE n \notin ToSet(noticed) /\ ~(Len(noticed) < NoticeLimit)
    <3>1. /\ Remembered(n) = Append(Tail(noticed), n) /\ noticed # <<>>
      BY <1>1, <2>3 DEF Remembered
    <3>2. /\ Tail(noticed) \in Seq(Notifications) /\ Len(Tail(noticed)) = Len(noticed) - 1
          /\ \A i \in 1..Len(Tail(noticed)) : Tail(noticed)[i] = noticed[i + 1]
      BY <1>1, <3>1
    <3>3. ToSet(Tail(noticed)) \subseteq ToSet(noticed)
      BY <1>1, <3>2 DEF ToSet
    <3>4. ToSet(Append(Tail(noticed), n)) = ToSet(Tail(noticed)) \cup {n}
      BY <3>2 DEF ToSet
    <3> QED BY <1>1, <3>1, <3>2, <3>3, <3>4
  <2> QED BY <2>1, <2>2, <2>3
<1>3. ToSet(noticed) \subseteq Notifications
  BY <1>1 DEF ToSet
<1> QED BY <1>2, <1>3 DEF NoticesForgotten

LEMMA JobMoved ==
  ASSUME NoticesType, NEW d \in NoticeSlots, NEW job \in NoticeJob, noticeJobs' = [noticeJobs EXCEPT ![d] = job]
  PROVE  /\ noticeJobs' \in [NoticeSlots -> NoticeJob] /\ noticeJobs'[d] = job
         /\ \A c \in NoticeSlots \ {d} : noticeJobs'[c] = noticeJobs[c]
BY DEF NoticesType

LEMMA NoJobIs == NoNoticeJob \in NoticeJob /\ NoNoticeJob.of = NoNotice /\ NoNoticeJob.pc = "none"
BY DEF NoNoticeJob, NoticeJob

LEMMA NoticeArriveKeeps == ASSUME NoticesInv, NEW d \in NoticeSlots, NEW n \in Notifications, NoticeArrives(d, n) PROVE NoticesInv'
<1>1. /\ NoticesType /\ noticeJobs[d] = NoNoticeJob /\ n \notin ToSet(noticed) /\ UNCHANGED <<sessionStatus, unassigns>>
      /\ lnNotes \in NoticeNotes
  BY DEF NoticesInv, NoticesType, NoticeArrives
<1>2. CASE sessionStatus = "active"
  <2> DEFINE job == [of |-> n, pc |-> "telling"]
             excused == IF \E c \in NoticeSlots : noticeJobs[c].of = n THEN lnNotes.excused \cup {n} ELSE lnNotes.excused
  <2>1. /\ noticeJobs' = [noticeJobs EXCEPT ![d] = job] /\ lnNotes' = [lnNotes EXCEPT !.heard = @ + 1, !.excused = excused]
        /\ noticed' = noticed
    BY <1>2 DEF NoticeArrives
  <2>2. job \in NoticeJob /\ job.of = n /\ job.pc = "telling" /\ n # NoNotice
    BY NoticeNamesAssumption DEF NoticeJob
  <2>3. excused \subseteq Notifications /\ lnNotes.excused \subseteq excused
    BY <1>1 DEF NoticeNotes
  <2>4. n \notin excused => \A c \in NoticeSlots : noticeJobs[c].of # n
    OBVIOUS
  <2> HIDE DEF job, excused
  <2>5. lnNotes' \in NoticeNotes /\ lnNotes'.forwarded = lnNotes.forwarded /\ lnNotes'.excused = excused
    <3> DEFINE heard == lnNotes.heard + 1
    <3>1. heard \in Nat /\ lnNotes' = [lnNotes EXCEPT !.heard = heard, !.excused = excused]
      BY <1>1, <2>1 DEF NoticeNotes
    <3> HIDE DEF heard
    <3> QED BY <1>1, <2>3, <3>1 DEF NoticeNotes
  <2>6. /\ noticeJobs' \in [NoticeSlots -> NoticeJob] /\ noticeJobs'[d] = job
        /\ \A c \in NoticeSlots \ {d} : noticeJobs'[c] = noticeJobs[c]
    BY <1>1, <2>1, <2>2, JobMoved
  <2>7. NoticesType'
    BY <1>1, <2>1, <2>5, <2>6 DEF NoticesType
  <2>8. \A c \in NoticeSlots : NoticeJobHolds(noticeJobs[c])'
    BY <1>1, <2>2, <2>5, <2>6 DEF NoticesInv, NoticeJobHolds
  <2>9. ASSUME NEW m \in Notifications \ lnNotes'.excused PROVE NoticeCounts(m)'
    <3>1. NoticeCounts(m)
      BY <2>3, <2>5, <2>9 DEF NoticesInv
    <3>2. CASE m # n
      BY <1>1, <2>1, <2>2, <2>5, <2>6, <3>1, <3>2, NoJobIs, NoticeNamesAssumption DEF NoticeCounts
    <3>3. CASE m = n
      BY <1>1, <2>1, <2>2, <2>4, <2>5, <2>6, <2>9, <3>1, <3>3 DEF NoticeCounts
    <3> QED BY <3>2, <3>3
  <2> QED BY <1>1, <2>5, <2>7, <2>8, <2>9 DEF NoticesInv
<1>3. CASE sessionStatus # "active"
  <2> DEFINE excused == lnNotes.excused \cup NoticesForgotten(n) \cup {n}
  <2>1. noticed' = Remembered(n) /\ lnNotes' = [lnNotes EXCEPT !.heard = @ + 1, !.excused = excused] /\ noticeJobs' = noticeJobs
    BY <1>3 DEF NoticeArrives
  <2>2. excused \subseteq Notifications
    BY <1>1, RememberedIs DEF NoticeNotes
  <2> HIDE DEF excused
  <2>3. lnNotes' \in NoticeNotes /\ lnNotes'.forwarded = lnNotes.forwarded /\ lnNotes'.excused = excused
    <3> DEFINE heard == lnNotes.heard + 1
    <3>1. heard \in Nat /\ lnNotes' = [lnNotes EXCEPT !.heard = heard, !.excused = excused]
      BY <1>1, <2>1 DEF NoticeNotes
    <3> HIDE DEF heard
    <3> QED BY <1>1, <2>2, <3>1 DEF NoticeNotes
  <2>4. NoticesType'
    BY <1>1, <2>1, <2>3, RememberedIs DEF NoticesType
  <2>5. \A c \in NoticeSlots : NoticeJobHolds(noticeJobs[c])'
    BY <1>1, <2>1, <2>3 DEF NoticesInv, NoticeJobHolds
  <2>6. ASSUME NEW m \in Notifications \ lnNotes'.excused PROVE NoticeCounts(m)'
    <3>1. NoticeCounts(m) /\ m # n /\ m \notin NoticesForgotten(n)
      BY <2>3, <2>6 DEF NoticesInv, excused
    <3>2. m \in ToSet(noticed') <=> m \in ToSet(noticed)
      BY <1>1, <2>1, <3>1, RememberedIs
    <3> QED BY <2>1, <2>3, <3>1, <3>2 DEF NoticeCounts
  <2> QED BY <1>1, <2>3, <2>4, <2>5, <2>6 DEF NoticesInv
<1> QED BY <1>2, <1>3

\* The webhook's end: the notification is remembered, and those it pushes out are excused.
LEMMA NoticeToldKeeps == ASSUME NoticesInv, NEW d \in NoticeSlots, NoticeTold(d) PROVE NoticesInv'
<1> DEFINE n == noticeJobs[d].of
           forwarded == [lnNotes.forwarded EXCEPT ![n] = @ + 1]
           ends == n \notin unassigns
           excused == IF ends THEN lnNotes.excused \cup NoticesForgotten(n) ELSE lnNotes.excused
           job == IF ends THEN NoNoticeJob ELSE [noticeJobs[d] EXCEPT !.pc = "canceling"]
<1>1. /\ NoticesType /\ noticeJobs[d].pc = "telling" /\ noticeJobs[d] \in NoticeJob /\ UNCHANGED <<sessionStatus, unassigns>>
      /\ lnNotes \in NoticeNotes
  BY DEF NoticesInv, NoticesType, NoticeTold
<1>2. n \in Notifications
  BY <1>1 DEF NoticesInv, NoticeJobHolds, NoticeJob
<1>3. /\ noticeJobs' = [noticeJobs EXCEPT ![d] = job] /\ lnNotes' = [lnNotes EXCEPT !.forwarded = forwarded, !.excused = excused]
      /\ noticed' = IF ends THEN Remembered(n) ELSE noticed
  <2>1. CASE ends
    BY <1>1, <2>1 DEF NoticeTold, NoticeOver, NoticeNotes
  <2>2. CASE ~ends
    BY <1>1, <2>2 DEF NoticeTold, NoticesType, NoticeNotes
  <2> QED BY <2>1, <2>2
<1>4. /\ forwarded \in [Notifications -> Nat] /\ forwarded[n] = lnNotes.forwarded[n] + 1
      /\ \A m \in Notifications \ {n} : forwarded[m] = lnNotes.forwarded[m]
      /\ \A m \in Notifications : lnNotes.forwarded[m] \in Nat
  BY <1>1, <1>2 DEF NoticeNotes
<1>5. excused \subseteq Notifications /\ lnNotes.excused \subseteq excused /\ (ends => NoticesForgotten(n) \subseteq excused)
  BY <1>1, <1>2, RememberedIs DEF NoticeNotes
<1>6. job \in NoticeJob /\ IF ends THEN job.of = NoNotice /\ job.pc = "none" ELSE job.of = n /\ job.pc = "canceling"
  BY <1>1, NoJobIs DEF NoticeJob
<1> HIDE DEF forwarded, excused, job
<1>7. lnNotes' \in NoticeNotes /\ lnNotes'.forwarded = forwarded /\ lnNotes'.excused = excused
  BY <1>1, <1>3, <1>4, <1>5 DEF NoticeNotes
<1>8. /\ noticeJobs' \in [NoticeSlots -> NoticeJob] /\ noticeJobs'[d] = job
      /\ \A c \in NoticeSlots \ {d} : noticeJobs'[c] = noticeJobs[c]
  BY <1>1, <1>3, <1>6, JobMoved
<1>9. /\ noticed' \in Seq(Notifications) /\ Len(noticed') <= NoticeLimit /\ (ends => n \in ToSet(noticed'))
      /\ ~ends => ToSet(noticed') = ToSet(noticed)
      /\ \A m \in Notifications \ excused : m # n => (m \in ToSet(noticed') <=> m \in ToSet(noticed))
  BY <1>1, <1>2, <1>3, <1>5, RememberedIs DEF NoticesType
<1>10. NoticesType'
  BY <1>1, <1>7, <1>8, <1>9 DEF NoticesType
<1>11. \A c \in NoticeSlots : NoticeJobHolds(noticeJobs[c])'
  <2> SUFFICES ASSUME NEW c \in NoticeSlots PROVE NoticeJobHolds(noticeJobs[c])'
    OBVIOUS
  <2>1. CASE c = d
    BY <1>1, <1>2, <1>4, <1>6, <1>7, <1>8, <2>1, NoticeNamesAssumption DEF NoticeJobHolds
  <2>2. CASE c # d
    <3>1. NoticeJobHolds(noticeJobs[c]) /\ noticeJobs[c] \in NoticeJob /\ noticeJobs'[c] = noticeJobs[c]
      BY <1>1, <1>8, <2>2 DEF NoticesInv, NoticesType
    <3>2. noticeJobs[c].pc = "canceling" => noticeJobs[c].of \in Notifications
      BY <1>1, <3>1 DEF NoticeJobHolds, NoticesType
    <3> QED BY <1>1, <1>4, <1>7, <3>1, <3>2 DEF NoticeJobHolds
  <2> QED BY <2>1, <2>2
<1>12. ASSUME NEW m \in Notifications \ lnNotes'.excused PROVE NoticeCounts(m)'
  <2>1. NoticeCounts(m) /\ m \notin excused
    BY <1>5, <1>7, <1>12 DEF NoticesInv
  <2>2. CASE m # n
    <3>1. \A c \in NoticeSlots : noticeJobs'[c].of = m => noticeJobs[c].of = m /\ noticeJobs'[c].pc = noticeJobs[c].pc
      BY <1>6, <1>8, <2>2, NoticeNamesAssumption
    <3>2. \A c \in NoticeSlots : noticeJobs[c].of = m => noticeJobs'[c].of = m
      BY <1>8, <2>2
    <3> QED BY <1>4, <1>7, <1>9, <2>1, <2>2, <3>1, <3>2 DEF NoticeCounts
  <2>3. CASE m = n
    <3>1. /\ lnNotes.forwarded[n] = 0 /\ n \notin ToSet(noticed)
          /\ \A c \in NoticeSlots \ {d} : noticeJobs[c].of # n
      BY <1>1, <2>1, <2>3 DEF NoticeCounts
    <3>2. lnNotes'.forwarded[n] = 1
      BY <1>4, <1>7, <3>1
    <3>3. \A c \in NoticeSlots \ {d} : noticeJobs'[c].of # n
      BY <1>8, <3>1
    <3>4. CASE ends
      <4>1. noticeJobs'[d].of # n
        BY <1>2, <1>6, <1>8, <3>4, NoticeNamesAssumption
      <4> HIDE DEF n
      <4> QED BY <1>9, <2>3, <3>2, <3>3, <3>4, <4>1 DEF NoticeCounts
    <3>5. CASE ~ends
      <4>1. noticeJobs'[d].of = n /\ noticeJobs'[d].pc = "canceling" /\ n \notin ToSet(noticed')
        BY <1>6, <1>8, <1>9, <3>1, <3>5
      <4> HIDE DEF n
      <4> QED BY <2>3, <3>2, <3>3, <4>1 DEF NoticeCounts
    <3> QED BY <3>4, <3>5
  <2> QED BY <2>2, <2>3
<1>13. sessionStatus' = "canceled" => \E m \in unassigns' : lnNotes'.forwarded[m] > 0
  <2> SUFFICES ASSUME sessionStatus = "canceled" PROVE \E m \in unassigns : forwarded[m] > 0
    BY <1>1, <1>7
  <2>1. PICK m \in unassigns : lnNotes.forwarded[m] > 0
    BY DEF NoticesInv
  <2>2. m \in Notifications
    BY <1>1 DEF NoticesType
  <2> QED BY <1>4, <2>1, <2>2
<1> QED BY <1>10, <1>11, <1>12, <1>13 DEF NoticesInv

LEMMA NoticeEndKeeps == ASSUME NoticesInv, NEW d \in NoticeSlots, SessionCanceled(d) \/ NoticeFails(d) PROVE NoticesInv'
<1> DEFINE n == noticeJobs[d].of
           excused == IF SessionCanceled(d) THEN lnNotes.excused \cup NoticesForgotten(n)
                      ELSE IF noticeJobs[d].pc = "canceling" THEN lnNotes.excused \cup {n} ELSE lnNotes.excused
<1>1. /\ NoticesType /\ noticeJobs[d].pc \in {"telling", "canceling"} /\ noticeJobs[d] \in NoticeJob /\ unassigns' = unassigns
      /\ lnNotes \in NoticeNotes /\ NoticeOver(d) /\ (SessionCanceled(d) => noticeJobs[d].pc = "canceling")
      /\ sessionStatus' = IF SessionCanceled(d) THEN "canceled" ELSE sessionStatus
      /\ noticed' = IF SessionCanceled(d) THEN Remembered(n) ELSE noticed
  BY DEF NoticesInv, NoticesType, SessionCanceled, NoticeFails
<1>2. n \in Notifications /\ n # NoNotice
  BY <1>1, NoticeNamesAssumption DEF NoticesInv, NoticeJobHolds, NoticeJob
<1>3. lnNotes' = [lnNotes EXCEPT !.excused = excused]
  <2>1. CASE SessionCanceled(d)
    BY <2>1 DEF SessionCanceled
  <2>2. CASE ~SessionCanceled(d) /\ noticeJobs[d].pc = "canceling"
    BY <2>2 DEF NoticeFails
  <2>3. CASE ~SessionCanceled(d) /\ noticeJobs[d].pc # "canceling"
    BY <1>1, <2>3 DEF NoticeFails, NoticeNotes
  <2> QED BY <2>1, <2>2, <2>3
<1>4. /\ excused \subseteq Notifications /\ lnNotes.excused \subseteq excused
      /\ SessionCanceled(d) => NoticesForgotten(n) \subseteq excused
      /\ ~SessionCanceled(d) /\ noticeJobs[d].pc = "canceling" => n \in excused
  BY <1>1, <1>2, RememberedIs DEF NoticeNotes
<1> HIDE DEF excused
<1>5. lnNotes' \in NoticeNotes /\ lnNotes'.forwarded = lnNotes.forwarded /\ lnNotes'.excused = excused
  BY <1>1, <1>3, <1>4 DEF NoticeNotes
<1>6. /\ noticeJobs' \in [NoticeSlots -> NoticeJob] /\ noticeJobs'[d] = NoNoticeJob
      /\ \A c \in NoticeSlots \ {d} : noticeJobs'[c] = noticeJobs[c]
  BY <1>1, NoJobIs, JobMoved DEF NoticeOver
<1>7. /\ noticed' \in Seq(Notifications) /\ Len(noticed') <= NoticeLimit /\ (SessionCanceled(d) => n \in ToSet(noticed'))
      /\ ~SessionCanceled(d) => ToSet(noticed') = ToSet(noticed)
      /\ \A m \in Notifications \ excused : m # n => (m \in ToSet(noticed') <=> m \in ToSet(noticed))
  BY <1>1, <1>2, <1>4, RememberedIs DEF NoticesType
<1>8. NoticesType'
  BY <1>1, <1>5, <1>6, <1>7 DEF NoticesType
<1>9. \A c \in NoticeSlots : NoticeJobHolds(noticeJobs[c])'
  BY <1>1, <1>5, <1>6, NoJobIs DEF NoticesInv, NoticeJobHolds
<1>10. ASSUME NEW m \in Notifications \ lnNotes'.excused PROVE NoticeCounts(m)'
  <2>1. NoticeCounts(m) /\ m \notin excused
    BY <1>4, <1>5, <1>10 DEF NoticesInv
  <2>2. CASE m # n
    <3>1. \A c \in NoticeSlots : noticeJobs'[c].of = m => noticeJobs[c].of = m /\ noticeJobs'[c].pc = noticeJobs[c].pc
      BY <1>6, <2>2, NoJobIs, NoticeNamesAssumption
    <3>2. \A c \in NoticeSlots : noticeJobs[c].of = m => noticeJobs'[c].of = m
      BY <1>6, <2>2
    <3> QED BY <1>5, <1>7, <2>1, <2>2, <3>1, <3>2 DEF NoticeCounts
  <2>3. CASE m = n
    <3>1. /\ n \notin ToSet(noticed) /\ \A c \in NoticeSlots \ {d} : noticeJobs[c].of # n
          /\ lnNotes.forwarded[n] = IF noticeJobs[d].pc = "canceling" THEN 1 ELSE 0
      BY <1>1, <2>1, <2>3 DEF NoticeCounts
    <3>2. \A c \in NoticeSlots : noticeJobs'[c].of # n
      BY <1>2, <1>6, <3>1, NoJobIs
    <3>3. lnNotes'.forwarded[n] = IF n \in ToSet(noticed') THEN 1 ELSE 0
      BY <1>1, <1>4, <1>5, <1>7, <2>1, <2>3, <3>1
    <3> HIDE DEF n
    <3> QED BY <2>3, <3>2, <3>3 DEF NoticeCounts
  <2> QED BY <2>2, <2>3
<1>11. sessionStatus' = "canceled" => \E m \in unassigns' : lnNotes'.forwarded[m] > 0
  <2>1. CASE SessionCanceled(d)
    BY <1>1, <1>5, <2>1 DEF NoticesInv, NoticeJobHolds
  <2>2. CASE ~SessionCanceled(d)
    BY <1>1, <1>5, <2>2 DEF NoticesInv
  <2> QED BY <2>1, <2>2
<1> QED BY <1>8, <1>9, <1>10, <1>11 DEF NoticesInv

LEMMA NoticeUpsetKeeps == ASSUME NoticesInv, SessionSaved \/ NoticesLost PROVE NoticesInv'
<1>1. NoticesType /\ lnNotes \in NoticeNotes /\ unassigns' = unassigns
  BY DEF NoticesInv, NoticesType, SessionSaved, NoticesLost
<1>2. CASE SessionSaved
  <2>1. /\ lnNotes' \in NoticeNotes /\ lnNotes'.forwarded = lnNotes.forwarded /\ lnNotes'.excused = lnNotes.excused
        /\ noticed' = noticed /\ noticeJobs' = noticeJobs /\ sessionStatus' \in {"active", "errored"}
    BY <1>1, <1>2 DEF SessionSaved, NoticeNotes
  <2>2. NoticesType'
    BY <1>1, <2>1 DEF NoticesType
  <2> QED BY <1>1, <2>1, <2>2 DEF NoticesInv, NoticeJobHolds, NoticeCounts
<1>3. CASE NoticesLost
  <2>1. /\ lnNotes' \in NoticeNotes /\ lnNotes'.forwarded = lnNotes.forwarded /\ lnNotes'.excused = Notifications
    <3> DEFINE upsets == lnNotes.upsets + 1
    <3>1. upsets \in Nat /\ lnNotes' = [lnNotes EXCEPT !.upsets = upsets, !.excused = Notifications]
      BY <1>1, <1>3 DEF NoticesLost, NoticeNotes
    <3> HIDE DEF upsets
    <3> QED BY <1>1, <3>1 DEF NoticeNotes
  <2>2. /\ noticed' = <<>> /\ sessionStatus' = sessionStatus /\ noticeJobs' \in [NoticeSlots -> NoticeJob]
        /\ \A d \in NoticeSlots : noticeJobs'[d] = NoNoticeJob
    BY <1>3, NoJobIs DEF NoticesLost
  <2>3. noticed' \in Seq(Notifications) /\ Len(noticed') = 0
    BY <2>2
  <2>4. NoticesType'
    BY <1>1, <2>1, <2>2, <2>3, NoticesAssumption DEF NoticesType
  <2>5. \A d \in NoticeSlots : NoticeJobHolds(noticeJobs[d])'
    BY <2>2, NoJobIs DEF NoticeJobHolds
  <2> QED BY <1>1, <2>1, <2>2, <2>4, <2>5 DEF NoticesInv
<1> QED BY <1>2, <1>3

LEMMA NoticesKept == NoticesInv /\ [NoticesNext]_noticesVars => NoticesInv'
<1> SUFFICES ASSUME NoticesInv, [NoticesNext]_noticesVars PROVE NoticesInv'
  OBVIOUS
<1>1. ASSUME NEW d \in NoticeSlots,
             (\E n \in Notifications : NoticeArrives(d, n)) \/ NoticeTold(d) \/ SessionCanceled(d) \/ NoticeFails(d)
      PROVE  NoticesInv'
  BY <1>1, NoticeArriveKeeps, NoticeToldKeeps, NoticeEndKeeps
<1>2. CASE SessionSaved \/ NoticesLost
  BY <1>2, NoticeUpsetKeeps
<1>3. CASE UNCHANGED noticesVars
  BY <1>3 DEF noticesVars, NoticesInv, NoticesType, NoticeJobHolds, NoticeCounts
<1> QED BY <1>1, <1>2, <1>3 DEF NoticesNext

LEMMA NoticesTell == NoticesInv => NoticesAreTold
<1> SUFFICES ASSUME NoticesInv PROVE NoticesAreTold
  OBVIOUS
<1>1. ASSUME NEW n \in Notifications \ lnNotes.excused
      PROVE  lnNotes.forwarded[n] <= 1 /\ (n \in ToSet(noticed) => lnNotes.forwarded[n] = 1)
  BY <1>1 DEF NoticesInv, NoticeCounts
<1> QED BY <1>1 DEF NoticesAreTold, NoticesInv, NoticesType

-----------------------------------------------------------------------------
(* The replies of the OpenClaw plugin.                                     *)

LastEntry == [room : OcRooms, from : OcPeople]
Inbound ==
  [from : OcPeople \cup {NoPerson}, stage : {"none", "preparing", "dispatched"}, named : BOOLEAN, since : SUBSET OcRooms,
   fresh : BOOLEAN]
RepliesType ==
  /\ peopleIn \in [OcRooms -> SUBSET OcPeople] /\ lastSenders \in Seq(LastEntry) /\ inbound \in [OcRooms -> Inbound]
  /\ sending.stage \in {"none", "listing", "resolving"}
  /\ sending.stage # "none" => sending.room \in OcRooms /\ sending.text \in OcTexts
  /\ sending.stage = "resolving" => sending.present \subseteq OcPeople

\* A sender is remembered, and behind it only rooms heard since; or as many as are kept were.
HeardOf(entries, r, from, since) ==
  \/ Cardinality(since) >= MaxLastSenders
  \/ \E i \in DOMAIN entries :
       entries[i] = [room |-> r, from |-> from] /\ \A j \in DOMAIN entries : j > i => entries[j].room \in since
InboundHolds(r) ==
  LET m == inbound[r] IN
    /\ m.stage # "none" => m.from \in OcPeople
    /\ IsFiniteSet(m.since)
    /\ m.fresh => m.stage = "dispatched" /\ HeardOf(lastSenders, r, m.from, m.since)
RepliesInv ==
  /\ RepliesType
  /\ \A r \in OcRooms : InboundHolds(r)
  /\ RepliesAreMeant

OneEach(entries) == \A i, j \in DOMAIN entries : entries[i].room = entries[j].room => i = j

\* Without a room's entry the others stay, in their order.
LEMMA WithoutOne ==
  ASSUME NEW entries \in Seq(LastEntry), OneEach(entries), NEW r \in OcRooms, NEW k \in DOMAIN entries, entries[k].room = r
  PROVE  LET others == RemoveAt(entries, k) IN
           /\ others \in Seq(LastEntry) /\ Len(others) = Len(entries) - 1 /\ OneEach(others)
           /\ \A j \in DOMAIN others : others[j].room # r
           /\ \A i \in DOMAIN entries : entries[i].room # r =>
                \E m \in DOMAIN others :
                  others[m] = entries[i] /\ \A j \in DOMAIN others : j > m => \E n \in DOMAIN entries : n > i /\ others[j] = entries[n]
<1> DEFINE a == SubSeq(entries, 1, k - 1)
           b == SubSeq(entries, k + 1, Len(entries))
           others == RemoveAt(entries, k)
<1>1. k \in 1..Len(entries) /\ Len(entries) \in Nat /\ DOMAIN entries = 1..Len(entries)
  OBVIOUS
<1>2. a \in Seq(LastEntry) /\ Len(a) = k - 1 /\ \A i \in 1..(k - 1) : a[i] = entries[i]
  BY <1>1
<1>3. b \in Seq(LastEntry) /\ Len(b) = Len(entries) - k /\ \A i \in 1..(Len(entries) - k) : b[i] = entries[k + i]
  BY <1>1
<1>4. others = a \o b
  BY DEF RemoveAt
<1> HIDE DEF a, b, others
<1>5. /\ others \in Seq(LastEntry) /\ Len(others) = Len(entries) - 1 /\ DOMAIN others = 1..(Len(entries) - 1)
      /\ \A i \in 1..(Len(entries) - 1) : others[i] = IF i < k THEN entries[i] ELSE entries[i + 1]
  <2>1. others \in Seq(LastEntry) /\ Len(others) = Len(entries) - 1
    <3>1. a \o b \in Seq(LastEntry) /\ Len(a \o b) = Len(a) + Len(b)
      BY <1>2, <1>3, ConcatProperties
    <3>2. (k - 1) + (Len(entries) - k) = Len(entries) - 1
      BY <1>1
    <3> QED BY <1>2, <1>3, <1>4, <3>1, <3>2
  <2>2. ASSUME NEW i \in 1..(Len(entries) - 1) PROVE others[i] = IF i < k THEN entries[i] ELSE entries[i + 1]
    <3>1. CASE i < k
      <4>1. i \in 1..Len(a) /\ i \in 1..(k - 1)
        BY <1>1, <1>2, <3>1
      <4>2. others[i] = a[i]
        BY <1>2, <1>3, <1>4, <4>1
      <4> QED BY <1>2, <3>1, <4>1, <4>2
    <3>2. CASE ~(i < k)
      <4>1. others[i] = b[i - (k - 1)] /\ i - (k - 1) \in 1..(Len(entries) - k)
        BY <1>1, <1>2, <1>3, <1>4, <2>2, <3>2
      <4>2. b[i - (k - 1)] = entries[k + (i - (k - 1))]
        BY <1>3, <4>1
      <4>3. k + (i - (k - 1)) = i + 1
        BY <1>1
      <4> QED BY <3>2, <4>1, <4>2, <4>3
    <3> QED BY <3>1, <3>2
  <2>3. DOMAIN others = 1..(Len(entries) - 1)
    BY <2>1
  <2> QED BY <2>1, <2>2, <2>3
<1>6. OneEach(others) /\ \A j \in DOMAIN others : others[j].room # r
  <2> DEFINE from(i) == IF i < k THEN i ELSE i + 1
  <2>1. \A i \in DOMAIN others : from(i) \in DOMAIN entries /\ from(i) # k /\ others[i] = entries[from(i)]
    BY <1>1, <1>5
  <2>2. \A i, j \in DOMAIN others : from(i) = from(j) => i = j
    BY <1>1, <1>5
  <2> HIDE DEF from
  <2>3. \A i, j \in DOMAIN others : others[i].room = others[j].room => i = j
    BY <2>1, <2>2 DEF OneEach
  <2>4. \A j \in DOMAIN others : others[j].room # r
    BY <1>1, <2>1 DEF OneEach
  <2> QED BY <2>3, <2>4 DEF OneEach
<1>7. ASSUME NEW i \in DOMAIN entries, entries[i].room # r
      PROVE  \E m \in DOMAIN others :
               others[m] = entries[i] /\ \A j \in DOMAIN others : j > m => \E n \in DOMAIN entries : n > i /\ others[j] = entries[n]
  <2> DEFINE m == IF i < k THEN i ELSE i - 1
  <2>1. i # k /\ i \in 1..Len(entries)
    BY <1>1, <1>7
  <2>2. m \in DOMAIN others /\ others[m] = entries[i]
    BY <1>1, <1>5, <2>1
  <2>3. ASSUME NEW j \in DOMAIN others, j > m PROVE \E n \in DOMAIN entries : n > i /\ others[j] = entries[n]
    <3> DEFINE n == IF j < k THEN j ELSE j + 1
    <3>1. n \in DOMAIN entries /\ n > i /\ others[j] = entries[n]
      BY <1>1, <1>5, <2>1, <2>3
    <3> QED BY <3>1
  <2> QED BY <2>2, <2>3
<1> QED BY <1>5, <1>6, <1>7 DEF others

\* Distinct rooms behind an entry are as many as were heard since.
LEMMA ManyBehind ==
  ASSUME NEW entries \in Seq(LastEntry), OneEach(entries), NEW n \in Nat, Len(entries) = n + 1,
         NEW since, IsFiniteSet(since), \A j \in DOMAIN entries : j > 1 => entries[j].room \in since
  PROVE  Cardinality(since) >= n
<1> DEFINE S == 2..(n + 1)
           f == [j \in S |-> entries[j].room]
<1>1. f \in [S -> since]
  OBVIOUS
<1>2. \A i, j \in S : f[i] = f[j] => i = j
  BY DEF OneEach
<1>3. f \in Injection(S, since)
  BY <1>1, <1>2 DEF Injection, IsInjective
<1>4. IsFiniteSet(S) /\ Cardinality(S) = n
  BY FS_Interval
<1> HIDE DEF S, f
<1>5. Cardinality(S) <= Cardinality(since)
  BY <1>3, FS_Injection
<1>6. Cardinality(since) \in Nat
  BY FS_CardinalityType
<1> QED BY <1>4, <1>5, <1>6

\* A set with one more element has no fewer.
LEMMA OneMore ==
  ASSUME NEW S, IsFiniteSet(S), NEW x
  PROVE  /\ IsFiniteSet(S \cup {x}) /\ Cardinality(S) \in Nat /\ Cardinality(S \cup {x}) \in Nat
         /\ Cardinality(S \cup {x}) >= Cardinality(S)
<1>1. IsFiniteSet(S \cup {x}) /\ Cardinality(S \cup {x}) = IF x \in S THEN Cardinality(S) ELSE Cardinality(S) + 1
  BY FS_AddElement
<1>2. Cardinality(S) \in Nat /\ Cardinality(S \cup {x}) \in Nat
  BY <1>1, FS_CardinalityType
<1> QED BY <1>1, <1>2

\* The room's sender comes last; the others stay, but for the first where there is one too many.
LEMMA TrackedIs ==
  ASSUME RepliesType, OneEach(lastSenders), Len(lastSenders) <= MaxLastSenders, NEW r \in OcRooms, NEW u \in OcPeople
  PROVE  LET new == Tracked(r, u) IN
           /\ new \in Seq(LastEntry) /\ Len(new) <= MaxLastSenders /\ OneEach(new)
           /\ HeardOf(new, r, u, {})
           /\ \A q \in OcRooms \ {r} : \A from \in OcPeople : \A since \in SUBSET OcRooms :
                IsFiniteSet(since) /\ HeardOf(lastSenders, q, from, since) => HeardOf(new, q, from, since \cup {r})
<1> DEFINE others == IF EntriesOf(r) = {} THEN lastSenders ELSE RemoveAt(lastSenders, CHOOSE i \in EntriesOf(r) : TRUE)
           e == [room |-> r, from |-> u]
           kept == Append(others, e)
           new == Tracked(r, u)
<1>1. lastSenders \in Seq(LastEntry) /\ MaxLastSenders \in Nat /\ e \in LastEntry
  BY LastSendersAssumption DEF RepliesType, LastEntry
<1>2. /\ others \in Seq(LastEntry) /\ Len(others) <= MaxLastSenders /\ OneEach(others)
      /\ \A j \in DOMAIN others : others[j].room # r
      /\ \A i \in DOMAIN lastSenders : lastSenders[i].room # r =>
           \E m \in DOMAIN others :
             others[m] = lastSenders[i]
               /\ \A j \in DOMAIN others : j > m => \E n \in DOMAIN lastSenders : n > i /\ others[j] = lastSenders[n]
  <2>1. CASE EntriesOf(r) = {}
    BY <1>1, <2>1 DEF EntriesOf
  <2>2. CASE EntriesOf(r) # {}
    <3>1. PICK k \in EntriesOf(r) : others = RemoveAt(lastSenders, k)
      BY <2>2
    <3>2. k \in DOMAIN lastSenders /\ lastSenders[k].room = r
      BY <3>1 DEF EntriesOf
    <3> HIDE DEF others
    <3>3. /\ others \in Seq(LastEntry) /\ Len(others) = Len(lastSenders) - 1 /\ OneEach(others)
          /\ \A j \in DOMAIN others : others[j].room # r
          /\ \A i \in DOMAIN lastSenders : lastSenders[i].room # r =>
               \E m \in DOMAIN others :
                 others[m] = lastSenders[i]
                   /\ \A j \in DOMAIN others : j > m => \E n \in DOMAIN lastSenders : n > i /\ others[j] = lastSenders[n]
      BY <1>1, <3>1, <3>2, WithoutOne
    <3> QED BY <1>1, <3>3
  <2> QED BY <2>1, <2>2
<1>3. new = IF Len(kept) > MaxLastSenders THEN Tail(kept) ELSE kept
  BY DEF Tracked
<1> HIDE DEF others, new
<1>4. /\ kept \in Seq(LastEntry) /\ Len(kept) = Len(others) + 1 /\ kept[Len(kept)] = e
      /\ \A j \in 1..Len(others) : kept[j] = others[j]
  BY <1>1, <1>2
<1>5. OneEach(kept)
  BY <1>2, <1>4 DEF OneEach
<1> HIDE DEF kept
<1>6. CASE Len(kept) <= MaxLastSenders
  <2>1. new = kept
    BY <1>3, <1>4, <1>6, <1>1
  <2>2. HeardOf(new, r, u, {})
    <3>1. Len(kept) \in DOMAIN new /\ new[Len(kept)] = e /\ \A j \in DOMAIN new : ~(j > Len(kept))
      BY <1>2, <1>4, <2>1
    <3> QED BY <3>1 DEF HeardOf
  <2>3. ASSUME NEW q \in OcRooms \ {r}, NEW from \in OcPeople, NEW since \in SUBSET OcRooms, IsFiniteSet(since),
               HeardOf(lastSenders, q, from, since)
        PROVE  HeardOf(new, q, from, since \cup {r})
    <3>1. CASE Cardinality(since) >= MaxLastSenders
      <4>1. IsFiniteSet(since \cup {r}) /\ Cardinality(since) \in Nat /\ Cardinality(since \cup {r}) >= Cardinality(since)
            /\ Cardinality(since \cup {r}) \in Nat
        BY <2>3, OneMore
      <4> QED BY <1>1, <3>1, <4>1 DEF HeardOf
    <3>2. ASSUME NEW i \in DOMAIN lastSenders, lastSenders[i] = [room |-> q, from |-> from],
                 \A j \in DOMAIN lastSenders : j > i => lastSenders[j].room \in since
          PROVE  HeardOf(new, q, from, since \cup {r})
      <4>1. PICK m \in DOMAIN others :
              others[m] = lastSenders[i]
                /\ \A j \in DOMAIN others : j > m => \E n \in DOMAIN lastSenders : n > i /\ others[j] = lastSenders[n]
        BY <1>2, <3>2
      <4>2. \A j \in DOMAIN others : j > m => others[j].room \in since
        BY <3>2, <4>1
      <4>3. m \in DOMAIN new /\ new[m] = [room |-> q, from |-> from]
        BY <1>2, <1>4, <2>1, <3>2, <4>1
      <4>4. ASSUME NEW j \in DOMAIN new, j > m PROVE new[j].room \in since \cup {r}
        <5>1. CASE j \in DOMAIN others
          BY <1>2, <1>4, <2>1, <4>2, <4>4, <5>1
        <5>2. CASE j \notin DOMAIN others
          <6>1. j = Len(kept)
            BY <1>2, <1>4, <2>1, <4>4, <5>2
          <6> QED BY <1>4, <2>1, <6>1
        <5> QED BY <5>1, <5>2
      <4> QED BY <4>3, <4>4 DEF HeardOf
    <3> QED BY <2>3, <3>1, <3>2 DEF HeardOf
  <2> HIDE DEF e
  <2> QED BY <1>4, <1>5, <1>6, <2>1, <2>2, <2>3 DEF new
<1>7. CASE Len(kept) > MaxLastSenders
  <2>1. /\ new = Tail(kept) /\ Len(kept) = MaxLastSenders + 1
        /\ new \in Seq(LastEntry) /\ Len(new) = MaxLastSenders /\ DOMAIN new = 1..MaxLastSenders
        /\ \A j \in 1..MaxLastSenders : new[j] = kept[j + 1]
    BY <1>1, <1>2, <1>3, <1>4, <1>7
  <2>2. OneEach(new)
    BY <1>1, <1>4, <1>5, <2>1 DEF OneEach
  <2>3. HeardOf(new, r, u, {})
    <3>1. CASE MaxLastSenders = 0
      BY <3>1, FS_EmptySet DEF HeardOf
    <3>2. CASE MaxLastSenders # 0
      <4>1. MaxLastSenders \in DOMAIN new /\ new[MaxLastSenders] = e /\ \A j \in DOMAIN new : ~(j > MaxLastSenders)
        BY <1>1, <1>4, <2>1, <3>2
      <4> QED BY <4>1 DEF HeardOf
    <3> QED BY <3>1, <3>2
  <2>4. ASSUME NEW q \in OcRooms \ {r}, NEW from \in OcPeople, NEW since \in SUBSET OcRooms, IsFiniteSet(since),
               HeardOf(lastSenders, q, from, since)
        PROVE  HeardOf(new, q, from, since \cup {r})
    <3>0. IsFiniteSet(since \cup {r}) /\ Cardinality(since) \in Nat /\ Cardinality(since \cup {r}) >= Cardinality(since)
          /\ Cardinality(since \cup {r}) \in Nat
      BY <2>4, OneMore
    <3>1. CASE Cardinality(since) >= MaxLastSenders
      BY <1>1, <3>0, <3>1 DEF HeardOf
    <3>2. ASSUME NEW i \in DOMAIN lastSenders, lastSenders[i] = [room |-> q, from |-> from],
                 \A j \in DOMAIN lastSenders : j > i => lastSenders[j].room \in since
          PROVE  HeardOf(new, q, from, since \cup {r})
      <4>1. PICK m \in DOMAIN others :
              others[m] = lastSenders[i]
                /\ \A j \in DOMAIN others : j > m => \E n \in DOMAIN lastSenders : n > i /\ others[j] = lastSenders[n]
        BY <1>2, <3>2
      <4>2. \A j \in DOMAIN others : j > m => others[j].room \in since
        BY <3>2, <4>1
      <4>3. m \in 1..Len(others) /\ kept[m] = [room |-> q, from |-> from] /\ Len(others) = MaxLastSenders /\ DOMAIN kept = 1..Len(kept)
        BY <1>1, <1>2, <1>4, <2>1, <3>2, <4>1
      <4>4. ASSUME NEW j \in DOMAIN kept, j > m PROVE kept[j].room \in since \cup {r}
        <5>1. CASE j \in DOMAIN others
          BY <1>2, <1>4, <4>2, <4>4, <5>1
        <5>2. CASE j \notin DOMAIN others
          <6>1. j = Len(kept)
            BY <1>2, <1>4, <4>3, <4>4, <5>2
          <6> QED BY <1>4, <6>1
        <5> QED BY <5>1, <5>2
      <4>5. CASE m = 1
        <5>1. Cardinality(since \cup {r}) >= MaxLastSenders
          BY <1>1, <1>4, <1>5, <2>1, <3>0, <4>4, <4>5, ManyBehind
        <5> QED BY <5>1 DEF HeardOf
      <4>6. CASE m # 1
        <5>1. m - 1 \in DOMAIN new /\ new[m - 1] = [room |-> q, from |-> from]
          BY <1>1, <2>1, <4>3, <4>6
        <5>2. ASSUME NEW j \in DOMAIN new, j > m - 1 PROVE new[j].room \in since \cup {r}
          <6>1. j + 1 \in DOMAIN kept /\ j + 1 > m /\ new[j] = kept[j + 1]
            BY <1>1, <2>1, <4>3, <5>2
          <6> QED BY <4>4, <6>1
        <5> QED BY <5>1, <5>2 DEF HeardOf
      <4> QED BY <4>5, <4>6
    <3> QED BY <2>4, <3>1, <3>2 DEF HeardOf
  <2> QED BY <1>1, <2>1, <2>2, <2>3, <2>4 DEF new
<1> QED BY <1>1, <1>2, <1>4, <1>6, <1>7

\* What is remembered of a room is whom it heard last.
LEMMA LastSenderIs ==
  ASSUME NEW r, NEW from, NEW since, OneEach(lastSenders), HeardOf(lastSenders, r, from, since),
         ~(Cardinality(since) >= MaxLastSenders)
  PROVE  LastSender(r) = from
<1>1. PICK i \in DOMAIN lastSenders : lastSenders[i] = [room |-> r, from |-> from]
  BY DEF HeardOf
<1>2. \A e \in ToSet(lastSenders) : e.room = r => e.from = from
  BY <1>1 DEF ToSet, OneEach
<1>3. \E e \in ToSet(lastSenders) : e.room = r
  BY <1>1 DEF ToSet
<1>4. (CHOOSE e \in ToSet(lastSenders) : e.room = r).from = from
  BY <1>2, <1>3
<1> QED BY <1>3, <1>4 DEF LastSender

LEMMA RepliesStart == RepliesInit => RepliesInv
<1> SUFFICES ASSUME RepliesInit PROVE RepliesInv
  OBVIOUS
<1>1. NoInbound \in Inbound
  BY DEF NoInbound, Inbound
<1>2. RepliesType
  BY <1>1 DEF RepliesInit, RepliesType, NotSending
<1>3. \A r \in OcRooms : InboundHolds(r)
  BY FS_EmptySet DEF RepliesInit, InboundHolds, NoInbound
<1>4. MentionsAreMeant
  BY DEF RepliesInit, MentionsAreMeant, NotSending
<1>5. LastSendersAreBounded
  BY LastSendersAssumption DEF RepliesInit, LastSendersAreBounded
<1> QED BY <1>2, <1>3, <1>4, <1>5 DEF RepliesInv, RepliesAreMeant

LEMMA MessageComesKeeps ==
  ASSUME RepliesInv, NEW r \in OcRooms, NEW u \in OcPeople, NEW named \in BOOLEAN, MessageComes(r, u, named)
  PROVE  RepliesInv'
<1> DEFINE m == [NoInbound EXCEPT !.stage = "preparing", !.from = u, !.named = named]
<1>1. m \in Inbound /\ m.stage = "preparing" /\ m.from = u /\ m.fresh = FALSE /\ m.since = {}
  BY DEF NoInbound, Inbound
<1>2. inbound' = [inbound EXCEPT ![r] = m]
  BY DEF MessageComes
<1> HIDE DEF m
<1>3. RepliesType'
  BY <1>1, <1>2 DEF RepliesInv, RepliesType, MessageComes
<1>4. ASSUME NEW q \in OcRooms PROVE InboundHolds(q)'
  <2>1. CASE q = r
    <3>1. inbound'[q] = m
      BY <1>2, <2>1 DEF RepliesInv, RepliesType
    <3> QED BY <1>1, <3>1, FS_EmptySet DEF InboundHolds
  <2>2. CASE q # r
    <3>1. inbound'[q] = inbound[q] /\ lastSenders' = lastSenders
      BY <1>2, <2>2 DEF RepliesInv, RepliesType, MessageComes
    <3> QED BY <3>1 DEF RepliesInv, InboundHolds
  <2> QED BY <2>1, <2>2
<1>5. RepliesAreMeant'
  BY DEF RepliesInv, RepliesAreMeant, MentionsAreMeant, LastSendersAreBounded, MessageComes
<1> QED BY <1>3, <1>4, <1>5 DEF RepliesInv

LEMMA DispatchesKeeps ==
  ASSUME RepliesInv, NEW r \in OcRooms, Dispatches(r)
  PROVE  RepliesInv'
<1> DEFINE tracks == inbound[r].named /\ connected
           u == inbound[r].from
<1>1. /\ inbound \in [OcRooms -> Inbound] /\ u \in OcPeople /\ inbound[r].stage = "preparing"
      /\ OneEach(lastSenders) /\ Len(lastSenders) <= MaxLastSenders /\ lastSenders \in Seq(LastEntry)
  BY DEF RepliesInv, RepliesType, RepliesAreMeant, LastSendersAreBounded, InboundHolds, Dispatches, OneEach
<1>2. /\ lastSenders' = IF tracks THEN Tracked(r, u) ELSE lastSenders
      /\ inbound' = [q \in OcRooms |->
           IF q = r THEN [inbound[r] EXCEPT !.stage = "dispatched", !.since = {}, !.fresh = tracks]
           ELSE IF tracks THEN [inbound[q] EXCEPT !.since = @ \cup {r}] ELSE inbound[q]]
      /\ UNCHANGED <<peopleIn, connected, sending, mentioned>>
  BY DEF Dispatches
<1>3. tracks => connected /\ tracks \in BOOLEAN
  OBVIOUS
<1>4. /\ inbound'[r] \in Inbound /\ inbound'[r].stage = "dispatched" /\ inbound'[r].since = {} /\ inbound'[r].from = u
      /\ inbound'[r].fresh = tracks
  <2>1. inbound'[r] = [inbound[r] EXCEPT !.stage = "dispatched", !.since = {}, !.fresh = tracks]
    BY <1>2
  <2>2. tracks \in BOOLEAN
    OBVIOUS
  <2> HIDE DEF tracks
  <2> QED BY <1>1, <2>1, <2>2 DEF Inbound
<1>5. ASSUME NEW q \in OcRooms \ {r}
      PROVE  /\ inbound'[q] \in Inbound /\ inbound'[q].stage = inbound[q].stage /\ inbound'[q].from = inbound[q].from
             /\ inbound'[q].fresh = inbound[q].fresh
             /\ inbound'[q].since = IF tracks THEN inbound[q].since \cup {r} ELSE inbound[q].since
  <2>1. inbound'[q] = IF tracks THEN [inbound[q] EXCEPT !.since = @ \cup {r}] ELSE inbound[q]
    BY <1>2
  <2> HIDE DEF tracks
  <2>2. CASE tracks
    BY <1>1, <2>1, <2>2 DEF Inbound
  <2>3. CASE ~tracks
    BY <1>1, <2>1, <2>3
  <2> QED BY <2>2, <2>3
<1>6. LET new == Tracked(r, u) IN
        /\ new \in Seq(LastEntry) /\ Len(new) <= MaxLastSenders /\ OneEach(new)
        /\ HeardOf(new, r, u, {})
        /\ \A q \in OcRooms \ {r} : \A from \in OcPeople : \A since \in SUBSET OcRooms :
             IsFiniteSet(since) /\ HeardOf(lastSenders, q, from, since) => HeardOf(new, q, from, since \cup {r})
  <2> HIDE DEF u
  <2> QED BY <1>1, TrackedIs DEF RepliesInv
<1> DEFINE new == Tracked(r, u)
<1>7. tracks => lastSenders' = new
  BY <1>2
<1>8. ~tracks => lastSenders' = lastSenders
  BY <1>2
<1> HIDE DEF new, u
<1>9. RepliesType'
  <2>1. inbound' \in [OcRooms -> Inbound]
    <3>1. \A q \in OcRooms : inbound'[q] \in Inbound
      BY <1>4, <1>5
    <3>2. inbound' = [q \in OcRooms |-> inbound'[q]]
      BY <1>2
    <3> QED BY <3>1, <3>2
  <2>2. lastSenders' \in Seq(LastEntry)
    BY <1>1, <1>6, <1>7, <1>8 DEF new
  <2> QED BY <1>2, <2>1, <2>2 DEF RepliesInv, RepliesType
<1>10. ASSUME NEW q \in OcRooms PROVE InboundHolds(q)'
  <2>1. CASE q = r
    <3>1. tracks => HeardOf(lastSenders', r, u, {})
      BY <1>6, <1>7 DEF new
    <3> QED BY <1>1, <1>4, <2>1, <3>1, FS_EmptySet DEF InboundHolds
  <2>2. CASE q # r
    <3>1. inbound[q] \in Inbound /\ (inbound[q].stage # "none" => inbound[q].from \in OcPeople) /\ IsFiniteSet(inbound[q].since)
          /\ (inbound[q].fresh => inbound[q].stage = "dispatched" /\ HeardOf(lastSenders, q, inbound[q].from, inbound[q].since))
      BY <1>1 DEF RepliesInv, InboundHolds
    <3>2. inbound[q].since \in SUBSET OcRooms
      BY <3>1 DEF Inbound
    <3>3. CASE tracks
      <4>1. IsFiniteSet(inbound[q].since \cup {r})
        BY <3>1, OneMore
      <4>2. inbound[q].fresh => HeardOf(lastSenders', q, inbound[q].from, inbound[q].since \cup {r})
        BY <1>6, <1>7, <2>2, <3>1, <3>2, <3>3 DEF new
      <4> QED BY <1>5, <2>2, <3>1, <3>3, <4>1, <4>2 DEF InboundHolds
    <3>4. CASE ~tracks
      BY <1>5, <1>8, <2>2, <3>1, <3>4 DEF InboundHolds
    <3> QED BY <3>3, <3>4
  <2> QED BY <2>1, <2>2
<1>11. LastSendersAreBounded'
  <2>1. connected' = connected
    BY <1>2
  <2>2. CASE tracks
    <3>1. Len(lastSenders') <= MaxLastSenders /\ OneEach(lastSenders')
      BY <1>6, <1>7, <2>2 DEF new
    <3> QED BY <2>1, <2>2, <3>1 DEF LastSendersAreBounded, OneEach
  <2>3. CASE ~tracks
    BY <1>8, <2>1, <2>3 DEF RepliesInv, RepliesAreMeant, LastSendersAreBounded
  <2> QED BY <2>2, <2>3
<1>12. MentionsAreMeant'
  BY <1>2 DEF RepliesInv, RepliesAreMeant, MentionsAreMeant
<1> QED BY <1>9, <1>10, <1>11, <1>12 DEF RepliesInv, RepliesAreMeant

LEMMA InboundSettlesKeeps ==
  ASSUME RepliesInv, NEW r \in OcRooms, InboundSettles(r)
  PROVE  RepliesInv'
<1>1. NoInbound \in Inbound /\ NoInbound.stage = "none" /\ NoInbound.since = {} /\ NoInbound.fresh = FALSE
  BY DEF NoInbound, Inbound
<1>2. inbound' = [inbound EXCEPT ![r] = NoInbound] /\ lastSenders' = lastSenders
  BY DEF InboundSettles
<1>3. RepliesType'
  BY <1>1, <1>2 DEF RepliesInv, RepliesType, InboundSettles
<1>4. ASSUME NEW q \in OcRooms PROVE InboundHolds(q)'
  <2>1. CASE q = r
    <3>1. inbound'[q] = NoInbound
      BY <1>2, <2>1 DEF RepliesInv, RepliesType
    <3> QED BY <1>1, <3>1, FS_EmptySet DEF InboundHolds
  <2>2. CASE q # r
    <3>1. inbound'[q] = inbound[q]
      BY <1>2, <2>2 DEF RepliesInv, RepliesType
    <3> QED BY <1>2, <3>1 DEF RepliesInv, InboundHolds
  <2> QED BY <2>1, <2>2
<1>5. RepliesAreMeant'
  BY DEF RepliesInv, RepliesAreMeant, MentionsAreMeant, LastSendersAreBounded, InboundSettles
<1> QED BY <1>3, <1>4, <1>5 DEF RepliesInv

\* What is remembered, and the message each room is at, are as they were.
LEMMA InboundsRest ==
  ASSUME RepliesInv, UNCHANGED <<inbound, lastSenders, connected>>
  PROVE  (\A r \in OcRooms : InboundHolds(r)') /\ LastSendersAreBounded'
BY DEF RepliesInv, RepliesAreMeant, InboundHolds, LastSendersAreBounded

LEMMA TextSentKeeps ==
  ASSUME RepliesInv, NEW r \in OcRooms, NEW text \in OcTexts, NEW reply \in BOOLEAN, TextSent(r, text, reply)
  PROVE  RepliesInv'
<1>1. UNCHANGED <<inbound, lastSenders, connected, peopleIn>> /\ mentioned' = NotSending
  BY DEF TextSent
<1>2. RepliesType'
  <2>1. sending' = [stage |-> "listing", room |-> r, text |-> text, reply |-> reply] \/ sending' = NotSending
    BY DEF TextSent
  <2> QED BY <1>1, <2>1 DEF RepliesInv, RepliesType, NotSending
<1>3. MentionsAreMeant'
  BY <1>1 DEF MentionsAreMeant, NotSending
<1> QED BY <1>1, <1>2, <1>3, InboundsRest DEF RepliesInv, RepliesAreMeant

LEMMA PeopleListedKeeps == ASSUME RepliesInv, PeopleListed PROVE RepliesInv'
<1>1. UNCHANGED <<inbound, lastSenders, connected, peopleIn, mentioned>>
  BY DEF PeopleListed
<1>2. RepliesType'
  BY <1>1 DEF RepliesInv, RepliesType, PeopleListed
<1>3. MentionsAreMeant'
  BY <1>1 DEF RepliesInv, RepliesAreMeant, MentionsAreMeant
<1> QED BY <1>1, <1>2, <1>3, InboundsRest DEF RepliesInv, RepliesAreMeant

LEMMA TextFailsKeeps == ASSUME RepliesInv, TextFails PROVE RepliesInv'
<1>1. UNCHANGED <<inbound, lastSenders, connected, peopleIn, mentioned>>
  BY DEF TextFails
<1>2. RepliesType'
  BY <1>1 DEF RepliesInv, RepliesType, TextFails, NotSending
<1>3. MentionsAreMeant'
  BY <1>1 DEF RepliesInv, RepliesAreMeant, MentionsAreMeant
<1> QED BY <1>1, <1>2, <1>3, InboundsRest DEF RepliesInv, RepliesAreMeant

\* Whom a text mentions is whom it names; a plain reply goes to the sender it answers.
LEMMA ResolvedIs ==
  ASSUME RepliesInv, sending.stage = "resolving",
         NEW who \in Resolved(sending.text, sending.room, sending.present), who # {}
  PROVE  LET text == sending.text IN
         LET present == sending.present IN
           /\ \E u \in present : who = {u}
           /\ text.who \in present => who = {text.who}
           /\ text.kind = "id" => text.who \in present \cup {OcSelf}
           /\ text.kind = "plain" => who \subseteq DueTo(sending)
<1> DEFINE text == sending.text
           present == sending.present
           r == sending.room
           m == inbound[r]
<1>1. r \in OcRooms /\ text \in OcTexts /\ present \subseteq OcPeople
  BY DEF RepliesInv, RepliesType
<1>2. text.kind = "plain" => text.who \notin present
  BY <1>1, PeopleAssumption DEF OcTexts
<1>3. OneEach(lastSenders) /\ InboundHolds(r)
  BY <1>1 DEF RepliesInv, RepliesAreMeant, LastSendersAreBounded, OneEach
<1>4. CASE Explicit(text, present) # {}
  <2>1. who = {text.who} /\ text.who \in present
    BY <1>4 DEF Resolved, Explicit
  <2> QED BY <1>2, <2>1
<1>5. CASE Explicit(text, present) = {}
  <2>1. text.who \notin present
    BY <1>5 DEF Explicit
  <2>2. ~Unresolved(text, present) /\ who \in Fallback(r, present)
    BY <1>5 DEF Resolved
  <2>3. text.kind = "id" => text.who = OcSelf
    BY <2>1, <2>2 DEF Unresolved
  <2>4. \E u \in present : who = {u}
    BY <2>2 DEF Fallback
  <2>5. who \subseteq DueTo(sending)
    <3>1. CASE sending.reply /\ m.fresh /\ Cardinality(m.since) < MaxLastSenders /\ m.from \in present
      <4>1. HeardOf(lastSenders, r, m.from, m.since) /\ IsFiniteSet(m.since)
        BY <1>3, <3>1 DEF InboundHolds
      <4>2. ~(Cardinality(m.since) >= MaxLastSenders)
        BY <3>1, <4>1, FS_CardinalityType, LastSendersAssumption
      <4>3. LastSender(r) = m.from
        BY <1>3, <4>1, <4>2, LastSenderIs
      <4>4. who = {m.from}
        BY <2>2, <3>1, <4>3 DEF Fallback
      <4> QED BY <3>1, <4>4 DEF DueTo
    <3>2. CASE ~(sending.reply /\ m.fresh /\ Cardinality(m.since) < MaxLastSenders /\ m.from \in present)
      BY <2>4, <3>2 DEF DueTo
    <3> QED BY <3>1, <3>2
  <2> QED BY <2>1, <2>3, <2>4, <2>5
<1> QED BY <1>4, <1>5

LEMMA TextPostedKeeps == ASSUME RepliesInv, TextPosted PROVE RepliesInv'
<1>1. UNCHANGED <<inbound, lastSenders, connected, peopleIn>> /\ sending.stage = "resolving"
  BY DEF TextPosted
<1>2. RepliesType'
  BY <1>1 DEF RepliesInv, RepliesType, TextPosted, NotSending
<1>3. PICK who \in Resolved(sending.text, sending.room, sending.present) :
        mentioned' = IF who = {} THEN mentioned
                     ELSE [stage |-> "posted", text |-> sending.text, to |-> who, present |-> sending.present,
                           due |-> DueTo(sending)]
  BY DEF TextPosted
<1>4. MentionsAreMeant'
  <2>1. CASE who = {}
    BY <1>3, <2>1 DEF RepliesInv, RepliesAreMeant, MentionsAreMeant
  <2>2. CASE who # {}
    <3>1. PICK u \in sending.present : who = {u}
      BY <1>1, <2>2, ResolvedIs
    <3>2. Cardinality(who) = 1
      BY <3>1, FS_Singleton
    <3>3. /\ sending.text.who \in sending.present => who = {sending.text.who}
          /\ sending.text.kind = "id" => sending.text.who \in sending.present \cup {OcSelf}
          /\ sending.text.kind = "plain" => who \subseteq DueTo(sending)
      BY <1>1, <2>2, ResolvedIs
    <3>4. /\ mentioned'.to = who /\ mentioned'.present = sending.present /\ mentioned'.text = sending.text
          /\ mentioned'.due = DueTo(sending)
      BY <1>3, <2>2
    <3> QED BY <3>1, <3>2, <3>3, <3>4 DEF MentionsAreMeant
  <2> QED BY <2>1, <2>2
<1> QED BY <1>1, <1>2, <1>4, InboundsRest DEF RepliesInv, RepliesAreMeant

LEMMA PeopleMoveKeeps ==
  ASSUME RepliesInv, NEW r \in OcRooms, NEW u \in OcPeople, PeopleMove(r, u) PROVE RepliesInv'
<1>1. UNCHANGED <<inbound, lastSenders, connected, sending, mentioned>>
  BY DEF PeopleMove
<1>2. RepliesType'
  BY <1>1 DEF RepliesInv, RepliesType, PeopleMove
<1>3. MentionsAreMeant'
  BY <1>1 DEF RepliesInv, RepliesAreMeant, MentionsAreMeant
<1> QED BY <1>1, <1>2, <1>3, InboundsRest DEF RepliesInv, RepliesAreMeant

LEMMA AccountGoesKeeps == ASSUME RepliesInv, AccountGoes PROVE RepliesInv'
<1>1. /\ lastSenders' = <<>> /\ UNCHANGED <<peopleIn, sending, mentioned>>
      /\ inbound' = [r \in OcRooms |-> [inbound[r] EXCEPT !.fresh = FALSE]]
  BY DEF AccountGoes
<1>2. ASSUME NEW r \in OcRooms
      PROVE  /\ inbound'[r] \in Inbound /\ inbound'[r].fresh = FALSE /\ inbound'[r].stage = inbound[r].stage
             /\ inbound'[r].from = inbound[r].from /\ inbound'[r].since = inbound[r].since
  <2>1. inbound'[r] = [inbound[r] EXCEPT !.fresh = FALSE]
    BY <1>1
  <2>2. inbound[r] \in Inbound
    BY DEF RepliesInv, RepliesType
  <2> QED BY <2>1, <2>2 DEF Inbound
<1>3. RepliesType'
  <2>1. inbound' = [r \in OcRooms |-> inbound'[r]]
    BY <1>1
  <2>2. inbound' \in [OcRooms -> Inbound]
    BY <1>2, <2>1
  <2>3. lastSenders' \in Seq(LastEntry)
    BY <1>1
  <2> QED BY <1>1, <2>2, <2>3 DEF RepliesInv, RepliesType
<1>4. \A r \in OcRooms : InboundHolds(r)'
  BY <1>2 DEF RepliesInv, InboundHolds
<1>5. LastSendersAreBounded'
  BY <1>1, LastSendersAssumption DEF LastSendersAreBounded
<1>6. MentionsAreMeant'
  BY <1>1 DEF RepliesInv, RepliesAreMeant, MentionsAreMeant
<1> QED BY <1>3, <1>4, <1>5, <1>6 DEF RepliesInv, RepliesAreMeant

LEMMA AccountComesKeeps == ASSUME RepliesInv, AccountComes PROVE RepliesInv'
BY DEF RepliesInv, RepliesType, InboundHolds, RepliesAreMeant, MentionsAreMeant, LastSendersAreBounded, AccountComes

LEMMA RepliesKept == RepliesInv /\ [RepliesNext]_repliesVars => RepliesInv'
<1> SUFFICES ASSUME RepliesInv, [RepliesNext]_repliesVars PROVE RepliesInv'
  OBVIOUS
<1>1. ASSUME NEW r \in OcRooms,
             \/ \E u \in OcPeople, named \in BOOLEAN : MessageComes(r, u, named)
             \/ Dispatches(r) \/ InboundSettles(r)
             \/ \E text \in OcTexts, reply \in BOOLEAN : TextSent(r, text, reply)
             \/ \E u \in OcPeople : PeopleMove(r, u)
      PROVE  RepliesInv'
  BY <1>1, MessageComesKeeps, DispatchesKeeps, InboundSettlesKeeps, TextSentKeeps, PeopleMoveKeeps
<1>2. CASE PeopleListed \/ TextFails \/ TextPosted \/ AccountGoes \/ AccountComes
  BY <1>2, PeopleListedKeeps, TextFailsKeeps, TextPostedKeeps, AccountGoesKeeps, AccountComesKeeps
<1>3. CASE UNCHANGED repliesVars
  BY <1>3 DEF repliesVars, RepliesInv, RepliesType, InboundHolds, RepliesAreMeant, MentionsAreMeant, LastSendersAreBounded
<1> QED BY <1>1, <1>2, <1>3 DEF RepliesNext

-----------------------------------------------------------------------------
(* Contact changes.                                                        *)

Note == Changes \cup {Prompt, "closed"}
RoomTurn == [notes : Seq(Note), of : Changes \cup {"none", "message"}, on : BOOLEAN, backlog : BOOLEAN]
ContactType ==
  /\ dedup \in Seq(Changes) /\ recorded \in Seq(Changes) /\ hubQueue \in Seq(Changes) /\ hubTurns \in Seq(Changes)
  /\ handling = Idle \/ handling \in [stage : {"calling", "opening", "filing"}, of : Changes]
  /\ notes \in [HubContexts -> Seq(Note)] /\ told \in [HubContexts -> Seq(Note)] /\ owed \in [HubContexts -> Seq(Note)]
  /\ turn \in [HubContexts -> RoomTurn]

\* A context that is there holds what it is owed; one that is gone holds nothing.
ContextHolds(r) ==
  /\ turn[r].on \/ turn[r].notes = <<>>
  /\ IF Open(r) THEN told[r] \o turn[r].notes \o notes[r] = owed[r]
     ELSE told[r] = <<>> /\ owed[r] = <<>> /\ turn[r] = NoRoomTurn

\* The purpose is on its way to the hub's model, or was told.
PurposeIsDue ==
  \/ Prompt \in ToSet(told[Hub])
  \/ IF turn[Hub].on THEN Prompt \in ToSet(turn[Hub].notes) ELSE Prompt \in ToSet(notes[Hub])
HubHolds ==
  /\ ~hubRoom => ~Open(Hub) /\ hubTurns = <<>>
  /\ handling.stage = "opening" => ~hubRoom
  /\ handling.stage = "filing" => hubRoom
  /\ turn[Hub].on => turn[Hub].of \in Changes /\ ~turn[Hub].backlog
  /\ contactsUp /\ Open(Hub) /\ ~remade => PurposeIsDue
  /\ HubKnowsItsPurpose

\* The window is of the changes let through last, each once, until a handler fails.
WindowIsLast ==
  /\ Len(dedup) <= Window /\ Len(dedup) <= Len(recorded) /\ (Len(dedup) = Window \/ Len(dedup) = Len(recorded))
  /\ \A k \in 1..Len(dedup) : dedup[k] = recorded[Len(recorded) - Len(dedup) + k]
  /\ \A i, j \in 1..Len(dedup) : dedup[i] = dedup[j] => i = j
WindowHolds ==
  /\ contactsUp => WindowIsLast
  /\ RepeatsAreSkipped

\* What the hub's turns were for, and what they are to be for.
Held == IF turn[Hub].on THEN <<turn[Hub].of>> ELSE <<>>
Coming == IF handling.stage \in {"opening", "filing"} THEN <<handling.of>> ELSE <<>>
HubWork == hubTurns \o Held \o hubQueue \o Coming
Embeds(s, z) ==
  \E place \in [1..Len(s) -> 1..Len(z)] : \A i, j \in 1..Len(s) : z[place[i]] = s[i] /\ (i < j => place[i] < place[j])

ContactInv ==
  /\ ContactType
  /\ \A r \in HubContexts : ContextHolds(r)
  /\ HubHolds /\ WindowHolds /\ Embeds(HubWork, recorded)

-----------------------------------------------------------------------------
\* Embedding a sequence in one that grows.
LEMMA EmbedsLonger ==
  ASSUME NEW S, NEW s \in Seq(S), NEW z \in Seq(S), NEW c \in S, Embeds(s, z)
  PROVE  Embeds(s, Append(z, c))
<1>1. PICK place \in [1..Len(s) -> 1..Len(z)] :
        \A i, j \in 1..Len(s) : z[place[i]] = s[i] /\ (i < j => place[i] < place[j])
  BY DEF Embeds
<1>2. Len(Append(z, c)) = Len(z) + 1 /\ \A k \in 1..Len(z) : Append(z, c)[k] = z[k]
  BY AppendProperties
<1>3. place \in [1..Len(s) -> 1..Len(Append(z, c))]
  BY <1>1, <1>2
<1>4. \A i \in 1..Len(s) : Append(z, c)[place[i]] = s[i]
  BY <1>1, <1>2
<1>5. \A i, j \in 1..Len(s) : Append(z, c)[place[i]] = s[i] /\ (i < j => place[i] < place[j])
  BY <1>1, <1>4
<1> QED BY <1>3, <1>5 DEF Embeds

LEMMA EmbedsBoth ==
  ASSUME NEW S, NEW s \in Seq(S), NEW z \in Seq(S), NEW c \in S, Embeds(s, z)
  PROVE  Embeds(Append(s, c), Append(z, c))
<1>1. PICK place \in [1..Len(s) -> 1..Len(z)] :
        \A i, j \in 1..Len(s) : z[place[i]] = s[i] /\ (i < j => place[i] < place[j])
  BY DEF Embeds
<1> DEFINE t == Append(s, c)
           y == Append(z, c)
           m == Len(s)
           n == Len(z)
           at == [i \in 1..(m + 1) |-> IF i <= m THEN place[i] ELSE n + 1]
<1>2. m \in Nat /\ n \in Nat /\ Len(t) = m + 1 /\ Len(y) = n + 1
  BY AppendProperties
<1>3. /\ \A k \in 1..m : t[k] = s[k]
      /\ \A k \in 1..n : y[k] = z[k]
      /\ t[m + 1] = c /\ y[n + 1] = c
  BY AppendProperties
<1> HIDE DEF t, y
<1>4. \A i \in 1..m : place[i] \in 1..n
  BY <1>1
<1> HIDE DEF m, n
<1>5. at \in [1..Len(t) -> 1..Len(y)]
  BY <1>2, <1>4
<1>6. ASSUME NEW i \in 1..Len(t) PROVE y[at[i]] = t[i]
  <2>1. CASE i <= m
    BY <1>1, <1>2, <1>3, <1>4, <2>1 DEF m
  <2>2. CASE ~(i <= m)
    BY <1>2, <1>3, <2>2
  <2> QED BY <2>1, <2>2
<1>7. ASSUME NEW i \in 1..Len(t), NEW j \in 1..Len(t), i < j PROVE at[i] < at[j]
  BY <1>1, <1>2, <1>4, <1>7 DEF m
<1>8. Embeds(t, y)
  BY <1>5, <1>6, <1>7 DEF Embeds
<1> QED BY <1>8 DEF t, y

LEMMA EmbedsLess ==
  ASSUME NEW S, NEW u \in Seq(S), NEW v \in Seq(S), NEW w \in Seq(S), NEW z \in Seq(S), Embeds((u \o v) \o w, z)
  PROVE  Embeds(u \o w, z)
<1> DEFINE t == (u \o v) \o w
           s == u \o w
           a == Len(u)
           b == Len(v)
           c == Len(w)
<1>1. a \in Nat /\ b \in Nat /\ c \in Nat
  OBVIOUS
<1>2. u \o v \in Seq(S) /\ Len(u \o v) = a + b /\ \A i \in 1..a : (u \o v)[i] = u[i]
  <2>1. \A i \in 1..(a + b) : (u \o v)[i] = IF i <= a THEN u[i] ELSE v[i - a]
    BY ConcatProperties
  <2> QED BY <1>1, <2>1, ConcatProperties
<1>3. /\ Len(t) = (a + b) + c
      /\ \A i \in 1..(a + b) + c : t[i] = IF i <= a + b THEN (u \o v)[i] ELSE w[i - (a + b)]
  BY <1>2, ConcatProperties
<1>4. /\ Len(s) = a + c
      /\ \A i \in 1..(a + c) : s[i] = IF i <= a THEN u[i] ELSE w[i - a]
  BY ConcatProperties
<1>5. PICK place \in [1..Len(t) -> 1..Len(z)] :
        \A i, j \in 1..Len(t) : z[place[i]] = t[i] /\ (i < j => place[i] < place[j])
  BY DEF Embeds
<1> HIDE DEF t, s, a, b, c
<1> DEFINE from(i) == IF i <= a THEN i ELSE i + b
           at == [i \in 1..Len(s) |-> place[from(i)]]
<1>6. \A i \in 1..Len(s) : from(i) \in 1..Len(t)
  BY <1>1, <1>3, <1>4
<1>7. ASSUME NEW i \in 1..Len(s) PROVE s[i] = t[from(i)]
  <2>1. CASE i <= a
    <3>1. i \in 1..a /\ i \in 1..((a + b) + c) /\ i <= a + b
      BY <1>1, <1>4, <2>1
    <3> QED BY <1>2, <1>3, <1>4, <2>1, <3>1
  <2>2. CASE ~(i <= a)
    <3>1. i + b \in 1..((a + b) + c) /\ ~(i + b <= a + b) /\ i \in 1..(a + c)
      BY <1>1, <1>4, <2>2
    <3>2. (i + b) - (a + b) = i - a
      BY <1>1
    <3> QED BY <1>3, <1>4, <2>2, <3>1, <3>2
  <2> QED BY <2>1, <2>2
<1>8. \A i, j \in 1..Len(s) : i < j => from(i) < from(j)
  BY <1>1, <1>4
<1> HIDE DEF from
<1>9. at \in [1..Len(s) -> 1..Len(z)]
  BY <1>5, <1>6
<1>10. \A i, j \in 1..Len(s) : z[at[i]] = s[i] /\ (i < j => at[i] < at[j])
  BY <1>5, <1>6, <1>7, <1>8
<1>11. Embeds(s, z)
  BY <1>9, <1>10 DEF Embeds
<1> QED BY <1>11 DEF s

-----------------------------------------------------------------------------
\* What is in a sequence, in a longer one.
LEMMA StaysIn ==
  ASSUME NEW S, NEW s \in Seq(S), NEW t \in Seq(S), NEW x
  PROVE  /\ x \in ToSet(s) => x \in ToSet(s \o t) /\ x \in ToSet(t \o s)
<1>1. ASSUME NEW i \in 1..Len(s), x = s[i] PROVE x \in ToSet(s \o t) /\ x \in ToSet(t \o s)
  <2>1. i \in 1..Len(s \o t) /\ (s \o t)[i] = x
    BY <1>1, ConcatProperties
  <2>2. Len(t) + i \in 1..Len(t \o s) /\ (t \o s)[Len(t) + i] = x
    BY <1>1, ConcatProperties
  <2>3. DOMAIN (s \o t) = 1..Len(s \o t) /\ DOMAIN (t \o s) = 1..Len(t \o s)
    BY ConcatProperties
  <2> QED BY <2>1, <2>2, <2>3 DEF ToSet
<1>2. DOMAIN s = 1..Len(s)
  OBVIOUS
<1> QED BY <1>1, <1>2 DEF ToSet

LEMMA NotesTypes ==
  /\ Closed \in Seq(Note) /\ NoRoomTurn \in RoomTurn /\ Purpose \in Seq(Note) /\ Purpose # Closed /\ <<>> # Closed
  /\ NoRoomTurn.on = FALSE /\ NoRoomTurn.notes = <<>>
<1>1. "closed" \in Note /\ Prompt \in Note
  BY DEF Note
<1>2. Purpose[1] # Closed[1]
  BY DEF Purpose, Closed, Prompt
<1>3. Len(<<>>) # Len(Closed)
  BY DEF Closed
<1> QED BY <1>1, <1>2, <1>3 DEF Closed, Purpose, NoRoomTurn, RoomTurn

LEMMA ContactStart == ContactInit => ContactInv
<1> SUFFICES ASSUME ContactInit PROVE ContactInv
  OBVIOUS
<1>1. ContactType
  BY NotesTypes DEF ContactInit, ContactType
<1>2. \A r \in HubContexts : ContextHolds(r)
  <2>1. <<>> \o <<>> = <<>>
    OBVIOUS
  <2> QED BY <2>1, NotesTypes DEF ContactInit, ContextHolds, Open
<1>3. HubHolds
  BY NotesTypes DEF ContactInit, HubHolds, Open, Idle, HubContexts, HubKnowsItsPurpose
<1>4. WindowHolds
  BY WindowAssumption DEF ContactInit, WindowHolds, WindowIsLast, RepeatsAreSkipped
<1>5. Embeds(HubWork, recorded)
  <2>1. HubWork = <<>>
    <3>1. Held = <<>> /\ Coming = <<>> /\ hubTurns = <<>> /\ hubQueue = <<>>
      BY NotesTypes DEF Held, Coming, ContactInit, Idle, HubContexts
    <3>2. <<>> \o <<>> = <<>>
      OBVIOUS
    <3> QED BY <3>1, <3>2 DEF HubWork
  <2>2. 1..Len(HubWork) = {}
    BY <2>1
  <2>3. [i \in {} |-> 1] \in [{} -> 1..Len(recorded)]
    OBVIOUS
  <2> QED BY <2>2, <2>3 DEF Embeds
<1> QED BY <1>1, <1>2, <1>3, <1>4, <1>5 DEF ContactInv

-----------------------------------------------------------------------------
LEMMA HubIsContext == Hub \in HubContexts
BY DEF HubContexts

LEMMA ContactTypeKept == ASSUME ContactInv, ContactNext PROVE ContactType'
<1>0. ContactType
  BY DEF ContactInv
<1>1. ASSUME NEW c \in Changes, Handle(c) PROVE ContactType'
  <2>1. UNCHANGED <<hubQueue, hubTurns, told, turn>>
    BY <1>1 DEF Handle
  <2>2. CASE Fresh(c)
    <3>1. /\ dedup' = Recorded(c) /\ recorded' = Append(recorded, c)
          /\ handling' = IF StageOf = "idle" THEN Idle ELSE [stage |-> StageOf, of |-> c]
          /\ IF c \in Broadcast THEN Noted(c) ELSE UNCHANGED <<notes, owed>>
      BY <1>1, <2>2 DEF Handle
    <3>2. dedup' \in Seq(Changes)
      <4>1. CASE Evicts
        <5>1. dedup # <<>>
          BY <4>1, <1>0, WindowAssumption DEF Evicts, ContactType
        <5>2. Tail(dedup) \in Seq(Changes)
          BY <1>0, <5>1, HeadTailProperties DEF ContactType
        <5> QED BY <3>1, <4>1, <5>2 DEF Recorded
      <4>2. CASE ~Evicts
        BY <1>0, <3>1, <4>2 DEF Recorded, ContactType
      <4> QED BY <4>1, <4>2
    <3>3. recorded' \in Seq(Changes)
      BY <1>0, <3>1 DEF ContactType
    <3>4. handling' = Idle \/ handling' \in [stage : {"calling", "opening", "filing"}, of : Changes]
      BY <3>1 DEF StageOf
    <3>5. notes' \in [HubContexts -> Seq(Note)] /\ owed' \in [HubContexts -> Seq(Note)]
      <4>1. CASE c \in Broadcast
        <5>1. c \in Note
          BY DEF Note
        <5>2. \A r \in HubContexts : Append(notes[r], c) \in Seq(Note) /\ Append(owed[r], c) \in Seq(Note)
          BY <1>0, <5>1 DEF ContactType
        <5>3. Noted(c)
          BY <3>1, <4>1
        <5> QED BY <1>0, <5>2, <5>3 DEF Noted, ContactType
      <4>2. CASE c \notin Broadcast
        BY <1>0, <3>1, <4>2 DEF ContactType
      <4> QED BY <4>1, <4>2
    <3> QED BY <1>0, <2>1, <3>2, <3>3, <3>4, <3>5 DEF ContactType
  <2>3. CASE ~Fresh(c)
    BY <1>0, <1>1, <2>1, <2>3 DEF Handle, ContactType
  <2> QED BY <2>2, <2>3
<1>a. \A ok \in BOOLEAN : RolledBack(ok) \in Seq(Changes)
  <2>1. Len(dedup) \in Nat /\ \A k \in 1..(Len(dedup) - 1) : dedup[k] \in Changes
    BY <1>0 DEF ContactType
  <2>2. SubSeq(dedup, 1, Len(dedup) - 1) \in Seq(Changes)
    BY <1>0, <2>1 DEF ContactType
  <2> QED BY <1>0, <2>2 DEF RolledBack, Front, ContactType
<1>2. ASSUME NEW ok \in BOOLEAN, CallbackEnds(ok) PROVE ContactType'
  BY <1>0, <1>a, <1>2 DEF CallbackEnds, ContactType
<1>3. ASSUME HubOpens PROVE ContactType'
  <2>1. handling' = Idle \/ handling' \in [stage : {"calling", "opening", "filing"}, of : Changes]
    <3>1. handling \in [stage : {"calling", "opening", "filing"}, of : Changes] /\ handling' = [handling EXCEPT !.stage = "filing"]
      <4>1. handling # Idle
        BY <1>3 DEF HubOpens, Idle
      <4> QED BY <1>0, <1>3, <4>1 DEF HubOpens, ContactType
    <3> QED BY <3>1
  <2>2. <<Prompt>> \in Seq(Note)
    BY NotesTypes DEF Purpose
  <2>3. notes' \in [HubContexts -> Seq(Note)] /\ owed' \in [HubContexts -> Seq(Note)]
    BY <1>0, <1>3, <2>2 DEF HubOpens, ContactType, Purpose
  <2> QED BY <1>0, <1>3, <2>1, <2>3 DEF HubOpens, ContactType
<1>4. ASSUME HubFails PROVE ContactType'
  BY <1>0, <1>a, <1>4 DEF HubFails, ContactType
<1>5. ASSUME NEW ok \in BOOLEAN, Files(ok) PROVE ContactType'
  <2>1. handling.of \in Changes
    BY <1>0, <1>5 DEF Files, ContactType, Idle
  <2>2. hubQueue' \in Seq(Changes)
    BY <1>0, <1>5, <2>1 DEF Files, ContactType
  <2>3. notes' \in [HubContexts -> Seq(Note)]
    <3>1. <<>> \in Seq(Note)
      OBVIOUS
    <3>2. notes' = notes \/ notes' = [notes EXCEPT ![Hub] = <<>>]
      BY <1>5 DEF Files
    <3> QED BY <1>0, <3>1, <3>2 DEF ContactType
  <2> QED BY <1>0, <1>a, <1>5, <2>2, <2>3 DEF Files, ContactType
<1>6. ASSUME NEW r \in HubContexts, TurnTells(r) PROVE ContactType'
  <2>1. told[r] \o turn[r].notes \in Seq(Note)
    BY <1>0, ConcatProperties DEF ContactType, RoomTurn
  <2>2. told' \in [HubContexts -> Seq(Note)] /\ notes' \in [HubContexts -> Seq(Note)] /\ turn' \in [HubContexts -> RoomTurn]
    BY <1>0, <1>6, <2>1, NotesTypes DEF TurnTells, NotesLeft, ContactType
  <2>3. hubTurns' \in Seq(Changes)
    <3>1. CASE r = Hub
      <4>1. turn[Hub].of \in Changes
        BY <1>6, <3>1 DEF TurnTells, ContactInv, HubHolds
      <4> QED BY <1>0, <1>6, <3>1, <4>1 DEF TurnTells, ContactType
    <3>2. CASE r # Hub
      BY <1>0, <1>6, <3>2 DEF TurnTells, ContactType
    <3> QED BY <3>1, <3>2
  <2> QED BY <1>0, <1>6, <2>2, <2>3 DEF TurnTells, ContactType
<1>7. ASSUME NEW r \in HubContexts, HydrationFails(r) PROVE ContactType'
  <2>1. told[r] \o notes[r] \in Seq(Note)
    BY <1>0, ConcatProperties DEF ContactType
  <2> QED BY <1>0, <1>7, <2>1, NotesTypes DEF HydrationFails, ContactType
<1>8. ASSUME NEW r \in HubContexts, RoomGoes(r) PROVE ContactType'
  <2>1. <<>> \in Seq(Note) /\ <<>> \in Seq(Changes)
    OBVIOUS
  <2>2. notes' \in [HubContexts -> Seq(Note)] /\ told' \in [HubContexts -> Seq(Note)] /\ owed' \in [HubContexts -> Seq(Note)]
        /\ turn' \in [HubContexts -> RoomTurn] /\ hubQueue' \in Seq(Changes)
    BY <1>0, <1>8, <2>1, NotesTypes DEF RoomGoes, ContactType
  <2> QED BY <1>0, <1>8, <2>2 DEF RoomGoes, ContactType
<1>9. ASSUME NEW r \in HubContexts, RoomComes(r) PROVE ContactType'
  <2>1. <<>> \in Seq(Note)
    OBVIOUS
  <2> QED BY <1>0, <1>9, <2>1 DEF RoomComes, ContactType
<1>10. ASSUME NEW r \in HubContexts, NEW b \in BOOLEAN, TurnTakes(r, b) PROVE ContactType'
  <2>1. /\ turn' = [turn EXCEPT ![r] = [notes |-> notes[r], on |-> TRUE, backlog |-> b,
                                        of |-> IF r = Hub THEN Head(hubQueue) ELSE "message"]]
        /\ notes' = [notes EXCEPT ![r] = <<>>]
        /\ hubQueue' = IF r = Hub THEN Tail(hubQueue) ELSE hubQueue
    BY <1>10 DEF TurnTakes, Taken
  <2>2. r = Hub => Head(hubQueue) \in Changes /\ Tail(hubQueue) \in Seq(Changes)
    BY <1>0, <1>10, HeadTailProperties DEF TurnTakes, ContactType
  <2> DEFINE t == [notes |-> notes[r], on |-> TRUE, backlog |-> b, of |-> IF r = Hub THEN Head(hubQueue) ELSE "message"]
  <2>3. t \in RoomTurn
    BY <1>0, <2>2 DEF RoomTurn, ContactType
  <2>4. turn' = [turn EXCEPT ![r] = t]
    BY <2>1
  <2> HIDE DEF t
  <2>5. turn' \in [HubContexts -> RoomTurn] /\ hubQueue' \in Seq(Changes)
    BY <1>0, <2>1, <2>2, <2>3, <2>4 DEF ContactType
  <2>6. notes' \in [HubContexts -> Seq(Note)]
    BY <1>0, <2>1 DEF ContactType
  <2> QED BY <1>0, <1>10, <2>5, <2>6 DEF TurnTakes, ContactType
<1> QED BY <1>1, <1>2, <1>3, <1>4, <1>5, <1>6, <1>7, <1>8, <1>9, <1>10 DEF ContactNext

-----------------------------------------------------------------------------
\* A context's notes, joined again after a step.
LEMMA JoinedWithNote ==
  ASSUME NEW S, NEW t \in Seq(S), NEW u \in Seq(S), NEW n \in Seq(S), NEW x \in S
  PROVE  t \o u \o Append(n, x) = Append(t \o u \o n, x)
<1> DEFINE v == t \o u
<1>1. v \in Seq(S) /\ <<x>> \in Seq(S)
  BY ConcatProperties
<1> HIDE DEF v
<1>2. v \o n \in Seq(S)
  BY <1>1, ConcatProperties
<1>3. Append(n, x) = n \o <<x>>
  BY AppendIsConcat
<1>4. Append(v \o n, x) = (v \o n) \o <<x>>
  BY <1>2, AppendIsConcat
<1>5. (v \o n) \o <<x>> = v \o (n \o <<x>>)
  BY <1>1, ConcatAssociative
<1>6. v \o Append(n, x) = Append(v \o n, x)
  BY <1>3, <1>4, <1>5
<1> QED BY <1>6 DEF v

LEMMA JoinedWhenTaken ==
  ASSUME NEW S, NEW t \in Seq(S), NEW n \in Seq(S)
  PROVE  t \o <<>> \o n = t \o n \o <<>> /\ t \o <<>> \o n = t \o n
<1>1. t \o n \in Seq(S)
  BY ConcatProperties
<1> QED BY <1>1, ConcatEmptySeq

LEMMA JoinedWhenTold ==
  ASSUME NEW S, NEW t \in Seq(S), NEW u \in Seq(S), NEW n \in Seq(S)
  PROVE  (t \o u) \o <<>> \o n = t \o u \o n
<1>1. t \o u \in Seq(S)
  BY ConcatProperties
<1> QED BY <1>1, ConcatEmptySeq

\* A note leaves a context that is there as one that is there.
LEMMA NoteOpens ==
  ASSUME NEW n \in Seq(Note), n # Closed, NEW c \in Changes
  PROVE  Append(n, c) # Closed
<1>1. c # "closed"
  BY ClosedAssumption
<1>2. CASE n = <<>>
  BY <1>1, <1>2 DEF Closed
<1>3. CASE n # <<>>
  <2>1. Len(Append(n, c)) = Len(n) + 1 /\ Len(n) # 0 /\ Len(Closed) = 1
    BY <1>3 DEF Closed
  <2> QED BY <2>1
<1> QED BY <1>2, <1>3

LEMMA ContextsKept == ASSUME ContactInv, ContactNext, NEW q \in HubContexts PROVE ContextHolds(q)'
<1>0. ContactType /\ ContextHolds(q)
  BY DEF ContactInv
<1>a. notes[q] \in Seq(Note) /\ told[q] \in Seq(Note) /\ owed[q] \in Seq(Note) /\ turn[q] \in RoomTurn
  BY <1>0 DEF ContactType
<1>b. turn[q].notes \in Seq(Note)
  BY <1>a DEF RoomTurn
<1>c. ASSUME notes'[q] = notes[q], told'[q] = told[q], owed'[q] = owed[q], turn'[q] = turn[q] PROVE ContextHolds(q)'
  BY <1>0, <1>c DEF ContextHolds, Open
<1>1. ASSUME NEW c \in Changes, Handle(c) PROVE ContextHolds(q)'
  <2>1. CASE c \in Broadcast /\ Fresh(c) /\ Open(q)
    <3>1. notes'[q] = Append(notes[q], c) /\ owed'[q] = Append(owed[q], c) /\ told' = told /\ turn' = turn
      BY <1>1, <2>1 DEF Handle, Noted
    <3>2. c \in Note /\ notes'[q] # Closed
      BY <1>a, <2>1, <3>1, NoteOpens DEF Open, Note
    <3>3. told[q] \o turn[q].notes \o Append(notes[q], c) = Append(told[q] \o turn[q].notes \o notes[q], c)
      <4> DEFINE t == told[q]
                 u == turn[q].notes
                 n == notes[q]
      <4>1. t \in Seq(Note) /\ u \in Seq(Note) /\ n \in Seq(Note) /\ c \in Note
        BY <1>a, <1>b, <3>2
      <4> HIDE DEF t, u, n
      <4>2. t \o u \o Append(n, c) = Append(t \o u \o n, c)
        BY <4>1, JoinedWithNote
      <4> QED BY <4>2 DEF t, u, n
    <3>4. told[q] \o turn[q].notes \o notes[q] = owed[q] /\ (turn[q].on \/ turn[q].notes = <<>>)
      BY <1>0, <2>1 DEF ContextHolds
    <3> QED BY <3>1, <3>2, <3>3, <3>4 DEF ContextHolds, Open
  <2>2. CASE ~(c \in Broadcast /\ Fresh(c) /\ Open(q))
    <3>1. notes'[q] = notes[q] /\ owed'[q] = owed[q] /\ told' = told /\ turn' = turn
      BY <1>1, <2>2 DEF Handle, Noted
    <3> QED BY <3>1, <1>c
  <2> QED BY <2>1, <2>2
<1>2. ASSUME NEW ok \in BOOLEAN, CallbackEnds(ok) PROVE ContextHolds(q)'
  BY <1>2, <1>c DEF CallbackEnds
<1>3. ASSUME HubOpens PROVE ContextHolds(q)'
  <2>1. CASE q = Hub
    <3>1. ~Open(Hub)
      BY <1>3 DEF HubOpens, ContactInv, HubHolds
    <3>2. told[q] = <<>> /\ turn[q] = NoRoomTurn
      BY <1>0, <2>1, <3>1 DEF ContextHolds
    <3>3. notes'[q] = Purpose /\ owed'[q] = Purpose /\ told' = told /\ turn' = turn
      BY <1>0, <1>3, <2>1 DEF HubOpens, ContactType, Purpose
    <3>4. <<>> \o <<>> \o Purpose = Purpose
      BY NotesTypes, ConcatEmptySeq
    <3> QED BY <3>2, <3>3, <3>4, NotesTypes DEF ContextHolds, Open
  <2>2. CASE q # Hub
    BY <1>0, <1>3, <1>c, <2>2 DEF HubOpens, ContactType
  <2> QED BY <2>1, <2>2
<1>4. ASSUME HubFails PROVE ContextHolds(q)'
  BY <1>4, <1>c DEF HubFails
<1>5. ASSUME NEW ok \in BOOLEAN, Files(ok) PROVE ContextHolds(q)'
  <2>1. CASE q = Hub /\ ~Open(Hub)
    <3>1. told[q] = <<>> /\ owed[q] = <<>> /\ turn[q] = NoRoomTurn
      BY <1>0, <2>1 DEF ContextHolds
    <3>2. notes'[q] = <<>> /\ owed' = owed /\ told' = told /\ turn' = turn
      BY <1>0, <1>5, <2>1 DEF Files, ContactType
    <3>3. <<>> \o <<>> \o <<>> = <<>>
      OBVIOUS
    <3> QED BY <3>1, <3>2, <3>3, NotesTypes DEF ContextHolds, Open
  <2>2. CASE ~(q = Hub /\ ~Open(Hub))
    <3>1. notes'[q] = notes[q] /\ owed' = owed /\ told' = told /\ turn' = turn
      BY <1>0, <1>5, <2>2 DEF Files, ContactType
    <3> QED BY <3>1, <1>c
  <2> QED BY <2>1, <2>2
<1>6. ASSUME NEW r \in HubContexts, TurnTells(r) PROVE ContextHolds(q)'
  <2>1. CASE q = r
    <3>1. Open(q) /\ told[q] \o turn[q].notes \o notes[q] = owed[q]
      BY <1>0, <1>6, <2>1, NotesTypes DEF TurnTells, ContextHolds
    <3>2. told'[q] = told[q] \o turn[q].notes /\ notes'[q] = notes[q] /\ owed' = owed /\ turn'[q] = NoRoomTurn
      BY <1>0, <1>6, <2>1 DEF TurnTells, NotesLeft, ContactType
    <3>3. (told[q] \o turn[q].notes) \o <<>> \o notes[q] = told[q] \o turn[q].notes \o notes[q]
      BY <1>a, <1>b, JoinedWhenTold
    <3> QED BY <3>1, <3>2, <3>3, NotesTypes DEF ContextHolds, Open
  <2>2. CASE q # r
    <3>1. told'[q] = told[q] /\ notes'[q] = notes[q] /\ owed' = owed /\ turn'[q] = turn[q]
      BY <1>0, <1>6, <2>2 DEF TurnTells, NotesLeft, ContactType
    <3> QED BY <3>1, <1>c
  <2> QED BY <2>1, <2>2
<1>7. ASSUME NEW r \in HubContexts, HydrationFails(r) PROVE ContextHolds(q)'
  <2>1. CASE q = r
    <3>1. Open(q)
      BY <1>0, <1>7, <2>1, NotesTypes DEF HydrationFails, ContextHolds
    <3>2. told' = told /\ notes' = notes /\ owed'[q] = told[q] \o notes[q] /\ turn'[q] = NoRoomTurn
      BY <1>0, <1>7, <2>1 DEF HydrationFails, ContactType
    <3>3. told[q] \o <<>> \o notes[q] = told[q] \o notes[q]
      BY <1>a, JoinedWhenTaken
    <3> QED BY <3>1, <3>2, <3>3, NotesTypes DEF ContextHolds, Open
  <2>2. CASE q # r
    <3>1. told' = told /\ notes' = notes /\ owed'[q] = owed[q] /\ turn'[q] = turn[q]
      BY <1>0, <1>7, <2>2 DEF HydrationFails, ContactType
    <3> QED BY <3>1, <1>c
  <2> QED BY <2>1, <2>2
<1>8. ASSUME NEW r \in HubContexts, RoomGoes(r) PROVE ContextHolds(q)'
  <2>1. CASE q = r
    <3>1. notes'[q] = Closed /\ told'[q] = <<>> /\ owed'[q] = <<>> /\ turn'[q] = NoRoomTurn
      BY <1>0, <1>8, <2>1 DEF RoomGoes, ContactType
    <3> QED BY <3>1, NotesTypes DEF ContextHolds, Open
  <2>2. CASE q # r
    <3>1. told'[q] = told[q] /\ notes'[q] = notes[q] /\ owed'[q] = owed[q] /\ turn'[q] = turn[q]
      BY <1>0, <1>8, <2>2 DEF RoomGoes, ContactType
    <3> QED BY <3>1, <1>c
  <2> QED BY <2>1, <2>2
<1>9. ASSUME NEW r \in HubContexts, RoomComes(r) PROVE ContextHolds(q)'
  <2>1. CASE q = r
    <3>1. told[q] = <<>> /\ owed[q] = <<>> /\ turn[q] = NoRoomTurn
      BY <1>0, <1>9, <2>1 DEF RoomComes, ContextHolds
    <3>2. notes'[q] = <<>> /\ told' = told /\ owed' = owed /\ turn' = turn
      BY <1>0, <1>9, <2>1 DEF RoomComes, ContactType
    <3>3. <<>> \o <<>> \o <<>> = <<>>
      OBVIOUS
    <3> QED BY <3>1, <3>2, <3>3, NotesTypes DEF ContextHolds, Open
  <2>2. CASE q # r
    <3>1. told' = told /\ notes'[q] = notes[q] /\ owed' = owed /\ turn' = turn
      BY <1>0, <1>9, <2>2 DEF RoomComes, ContactType
    <3> QED BY <3>1, <1>c
  <2> QED BY <2>1, <2>2
<1>10. ASSUME NEW r \in HubContexts, NEW b \in BOOLEAN, TurnTakes(r, b) PROVE ContextHolds(q)'
  <2>1. CASE q = r
    <3>1. Open(q) /\ turn[q].notes = <<>> /\ told[q] \o turn[q].notes \o notes[q] = owed[q]
      BY <1>0, <1>10, <2>1 DEF TurnTakes, ContextHolds
    <3>2. told' = told /\ owed' = owed /\ notes'[q] = <<>> /\ turn'[q].notes = notes[q] /\ turn'[q].on
      BY <1>0, <1>10, <2>1 DEF TurnTakes, Taken, ContactType
    <3>3. told[q] \o <<>> \o notes[q] = told[q] \o notes[q] \o <<>>
      BY <1>a, JoinedWhenTaken
    <3> QED BY <3>1, <3>2, <3>3, NotesTypes DEF ContextHolds, Open
  <2>2. CASE q # r
    <3>1. told' = told /\ notes'[q] = notes[q] /\ owed' = owed /\ turn'[q] = turn[q]
      BY <1>0, <1>10, <2>2 DEF TurnTakes, ContactType
    <3> QED BY <3>1, <1>c
  <2> QED BY <2>1, <2>2
<1> QED BY <1>1, <1>2, <1>3, <1>4, <1>5, <1>6, <1>7, <1>8, <1>9, <1>10 DEF ContactNext

-----------------------------------------------------------------------------
LEMMA HubKept == ASSUME ContactInv, ContactNext PROVE HubHolds'
<1>0. ContactType /\ HubHolds /\ Hub \in HubContexts
  BY HubIsContext DEF ContactInv
<1>a. notes[Hub] \in Seq(Note) /\ told[Hub] \in Seq(Note) /\ turn[Hub].notes \in Seq(Note)
  BY <1>0 DEF ContactType, RoomTurn
<1>b. ~Open(Hub) => turn[Hub] = NoRoomTurn
  BY <1>0 DEF ContactInv, ContextHolds
<1>1. ASSUME NEW c \in Changes, Handle(c) PROVE HubHolds'
  <2>1. UNCHANGED <<hubRoom, turn, contactsUp, told, hubTurns, remade>> /\ contactsUp /\ handling = Idle
    BY <1>1 DEF Handle
  <2>2. notes'[Hub] = notes[Hub] \/ (Open(Hub) /\ notes'[Hub] = Append(notes[Hub], c))
    BY <1>0, <1>1 DEF Handle, Noted
  <2>3. Open(Hub)' => Open(Hub)
    BY <2>2 DEF Open
  <2>4. handling'.stage = "opening" => ~hubRoom
    BY <1>1, <2>1 DEF Handle, StageOf, Idle
  <2>5. handling'.stage = "filing" => hubRoom
    BY <1>1, <2>1 DEF Handle, StageOf, Idle
  <2>6. Prompt \in ToSet(notes[Hub]) => Prompt \in ToSet(notes'[Hub])
    <3>1. <<c>> \in Seq(Note) /\ c \in Note
      BY DEF Note
    <3>2. Append(notes[Hub], c) = notes[Hub] \o <<c>>
      BY <1>a, <3>1, AppendIsConcat
    <3>3. Prompt \in ToSet(notes[Hub]) => Prompt \in ToSet(notes[Hub] \o <<c>>)
      BY <1>a, <3>1, StaysIn
    <3> QED BY <2>2, <3>2, <3>3
  <2>7. PurposeIsDue => PurposeIsDue'
    BY <2>1, <2>6 DEF PurposeIsDue
  <2> QED BY <1>0, <2>1, <2>3, <2>4, <2>5, <2>7 DEF HubHolds, HubKnowsItsPurpose
<1>2. ASSUME NEW ok \in BOOLEAN, CallbackEnds(ok) PROVE HubHolds'
  <2>1. UNCHANGED <<hubRoom, turn, told, hubTurns, remade, notes>> /\ contactsUp /\ handling' = Idle
    BY <1>2 DEF CallbackEnds
  <2> QED BY <1>0, <2>1 DEF HubHolds, HubKnowsItsPurpose, PurposeIsDue, Open, Idle
<1>3. ASSUME HubOpens PROVE HubHolds'
  <2>1. /\ UNCHANGED <<turn, told, hubTurns, remade>> /\ contactsUp /\ hubRoom' /\ ~Open(Hub) /\ hubTurns = <<>>
        /\ handling'.stage # "opening"
    <3>1. handling'.stage # "opening"
      <4>1. handling # Idle
        BY <1>3 DEF HubOpens, Idle
      <4>2. handling' = [handling EXCEPT !.stage = "filing"] /\ handling \in [stage : {"calling", "opening", "filing"}, of : Changes]
        BY <1>0, <1>3, <4>1 DEF HubOpens, ContactType
      <4> QED BY <4>2
    <3> QED BY <1>0, <1>3, <3>1 DEF HubOpens, HubHolds
  <2>2. notes'[Hub] = Purpose /\ ~turn[Hub].on
    BY <1>0, <1>3, <1>b, <2>1, NotesTypes DEF HubOpens, ContactType
  <2>3. Prompt \in ToSet(Purpose)
    BY DEF ToSet, Purpose
  <2> QED BY <2>1, <2>2, <2>3 DEF HubHolds, HubKnowsItsPurpose, PurposeIsDue
<1>4. ASSUME HubFails PROVE HubHolds'
  <2>1. UNCHANGED <<hubRoom, turn, told, hubTurns, remade, notes>> /\ ~contactsUp' /\ handling' = Idle
    BY <1>4 DEF HubFails
  <2> QED BY <1>0, <2>1 DEF HubHolds, HubKnowsItsPurpose, Open, Idle
<1>5. ASSUME NEW ok \in BOOLEAN, Files(ok) PROVE HubHolds'
  <2>1. UNCHANGED <<hubRoom, turn, told, hubTurns>> /\ contactsUp /\ handling' = Idle /\ hubRoom
    BY <1>0, <1>5 DEF Files, HubHolds
  <2>2. IF Open(Hub) THEN UNCHANGED <<notes, remade>> ELSE remade'
    BY <1>5 DEF Files
  <2>3. CASE Open(Hub)
    BY <1>0, <2>1, <2>2, <2>3 DEF HubHolds, HubKnowsItsPurpose, PurposeIsDue, Open, Idle
  <2>4. CASE ~Open(Hub)
    BY <1>0, <2>1, <2>2, <2>4 DEF HubHolds, HubKnowsItsPurpose, Idle
  <2> QED BY <2>3, <2>4
<1>6. ASSUME NEW r \in HubContexts, TurnTells(r) PROVE HubHolds'
  <2>1. UNCHANGED <<hubRoom, handling, contactsUp, remade>> /\ contactsUp /\ turn[r].on /\ notes' = notes
    <3>1. notes' = [notes EXCEPT ![r] = notes[r]]
      BY <1>6 DEF TurnTells, NotesLeft
    <3>2. notes' = notes
      BY <1>0, <3>1 DEF ContactType
    <3> QED BY <1>6, <3>2 DEF TurnTells
  <2>2. CASE r = Hub
    <3>1. Open(Hub) /\ hubRoom
      BY <1>0, <1>b, <2>1, <2>2, NotesTypes DEF HubHolds
    <3>2. told'[Hub] = told[Hub] \o turn[Hub].notes /\ turn'[Hub] = NoRoomTurn
      BY <1>0, <1>6, <2>2 DEF TurnTells, ContactType
    <3>3. PurposeIsDue => Prompt \in ToSet(told'[Hub])
      BY <1>a, <2>1, <2>2, <3>2, StaysIn DEF PurposeIsDue
    <3>4. ~remade => Prompt \in ToSet(told'[Hub])
      BY <1>0, <2>1, <3>1, <3>3 DEF HubHolds
    <3> QED BY <1>0, <2>1, <3>1, <3>2, <3>4, NotesTypes DEF HubHolds, HubKnowsItsPurpose, PurposeIsDue, Open
  <2>3. CASE r # Hub
    <3>1. told'[Hub] = told[Hub] /\ turn'[Hub] = turn[Hub] /\ hubTurns' = hubTurns
      BY <1>0, <1>6, <2>3 DEF TurnTells, ContactType
    <3> QED BY <1>0, <2>1, <3>1 DEF HubHolds, HubKnowsItsPurpose, PurposeIsDue, Open
  <2> QED BY <2>2, <2>3
<1>7. ASSUME NEW r \in HubContexts, HydrationFails(r) PROVE HubHolds'
  <2>1. UNCHANGED <<hubRoom, handling, remade, notes, told, hubTurns>> /\ contactsUp
    BY <1>7 DEF HydrationFails
  <2>2. CASE r = Hub
    <3>1. ~contactsUp' /\ turn'[Hub] = NoRoomTurn
      BY <1>0, <1>7, <2>2 DEF HydrationFails, HubHolds, ContactType
    <3> QED BY <1>0, <2>1, <3>1, NotesTypes DEF HubHolds, HubKnowsItsPurpose, Open
  <2>3. CASE r # Hub
    <3>1. turn'[Hub] = turn[Hub]
      BY <1>0, <1>7, <2>3 DEF HydrationFails, ContactType
    <3> QED BY <1>0, <2>1, <3>1 DEF HubHolds, HubKnowsItsPurpose, PurposeIsDue, Open
  <2> QED BY <2>2, <2>3
<1>8. ASSUME NEW r \in HubContexts, RoomGoes(r) PROVE HubHolds'
  <2>1. UNCHANGED <<hubRoom, handling, remade, hubTurns, contactsUp>> /\ contactsUp
    BY <1>8 DEF RoomGoes
  <2>2. CASE r = Hub
    <3>1. notes'[Hub] = Closed /\ turn'[Hub] = NoRoomTurn
      BY <1>0, <1>8, <2>2 DEF RoomGoes, ContactType
    <3> QED BY <1>0, <2>1, <3>1, NotesTypes DEF HubHolds, HubKnowsItsPurpose, Open
  <2>3. CASE r # Hub
    <3>1. turn'[Hub] = turn[Hub] /\ notes'[Hub] = notes[Hub] /\ told'[Hub] = told[Hub]
      BY <1>0, <1>8, <2>3 DEF RoomGoes, ContactType
    <3> QED BY <1>0, <2>1, <3>1 DEF HubHolds, HubKnowsItsPurpose, PurposeIsDue, Open
  <2> QED BY <2>2, <2>3
<1>9. ASSUME NEW r \in HubContexts, RoomComes(r) PROVE HubHolds'
  <2>1. UNCHANGED <<hubRoom, handling, hubTurns, contactsUp, turn, told>> /\ contactsUp
    BY <1>9 DEF RoomComes
  <2>2. CASE r = Hub
    <3>1. hubRoom /\ remade'
      BY <1>9, <2>2 DEF RoomComes
    <3> QED BY <1>0, <2>1, <3>1 DEF HubHolds, HubKnowsItsPurpose
  <2>3. CASE r # Hub
    <3>1. notes'[Hub] = notes[Hub] /\ (remade' <=> remade)
      BY <1>0, <1>9, <2>3 DEF RoomComes, ContactType
    <3> QED BY <1>0, <2>1, <3>1 DEF HubHolds, HubKnowsItsPurpose, PurposeIsDue, Open
  <2> QED BY <2>2, <2>3
<1>10. ASSUME NEW r \in HubContexts, NEW b \in BOOLEAN, TurnTakes(r, b) PROVE HubHolds'
  <2>1. UNCHANGED <<hubRoom, handling, hubTurns, contactsUp, told, remade>> /\ contactsUp /\ Open(r) /\ ~turn[r].on
    BY <1>10 DEF TurnTakes
  <2>2. CASE r = Hub
    <3>1. turn'[Hub].on /\ turn'[Hub].notes = notes[Hub] /\ turn'[Hub].of = Head(hubQueue) /\ turn'[Hub].backlog = b
      BY <1>0, <1>10, <2>2 DEF TurnTakes, Taken, ContactType
    <3>2. Head(hubQueue) \in Changes /\ ~b
      BY <1>0, <1>10, <2>2, HeadTailProperties DEF TurnTakes, ContactType
    <3>3. hubRoom
      BY <1>0, <2>1, <2>2 DEF HubHolds
    <3>4. PurposeIsDue => PurposeIsDue'
      BY <2>1, <2>2, <3>1 DEF PurposeIsDue
    <3> QED BY <1>0, <2>1, <2>2, <3>1, <3>2, <3>3, <3>4 DEF HubHolds, HubKnowsItsPurpose
  <2>3. CASE r # Hub
    <3>1. notes'[Hub] = notes[Hub] /\ turn'[Hub] = turn[Hub]
      BY <1>0, <1>10, <2>3 DEF TurnTakes, ContactType
    <3> QED BY <1>0, <2>1, <3>1 DEF HubHolds, HubKnowsItsPurpose, PurposeIsDue, Open
  <2> QED BY <2>2, <2>3
<1> QED BY <1>1, <1>2, <1>3, <1>4, <1>5, <1>6, <1>7, <1>8, <1>9, <1>10 DEF ContactNext

-----------------------------------------------------------------------------
\* What the window becomes, place by place.
LEMMA RecordedIs ==
  ASSUME ContactType, WindowIsLast, NEW c \in Changes, c \notin ToSet(dedup)
  PROVE  LET new == Recorded(c) IN
         LET longer == Append(recorded, c) IN
           /\ Len(new) <= Window /\ Len(new) <= Len(longer) /\ (Len(new) = Window \/ Len(new) = Len(longer))
           /\ \A k \in 1..Len(new) : new[k] = longer[Len(longer) - Len(new) + k]
           /\ \A i, j \in 1..Len(new) : new[i] = new[j] => i = j
<1> DEFINE new == Recorded(c)
           longer == Append(recorded, c)
           d == Len(dedup)
           n == Len(recorded)
<1>1. /\ dedup \in Seq(Changes) /\ recorded \in Seq(Changes) /\ Window \in Nat \ {0} /\ d \in Nat /\ n \in Nat
      /\ d <= Window /\ d <= n /\ (d = Window \/ d = n)
  BY WindowAssumption DEF ContactType, WindowIsLast
<1>2. \A k \in 1..d : dedup[k] = recorded[n - d + k]
  BY DEF WindowIsLast
<1>3. \A i, j \in 1..d : dedup[i] = dedup[j] => i = j
  BY DEF WindowIsLast
<1>4. \A k \in 1..d : dedup[k] # c
  BY <1>1 DEF ToSet
<1>5. Len(longer) = n + 1 /\ longer[n + 1] = c /\ \A k \in 1..n : longer[k] = recorded[k]
  BY <1>1, AppendProperties
<1>6. CASE Evicts
  <2>1. d >= Window /\ dedup # <<>> /\ d = Window
    BY <1>1, <1>6 DEF Evicts
  <2>2. Tail(dedup) \in Seq(Changes) /\ Len(Tail(dedup)) = d - 1 /\ \A k \in 1..(d - 1) : Tail(dedup)[k] = dedup[k + 1]
    BY <1>1, <2>1, HeadTailProperties
  <2>3. new = Append(Tail(dedup), c)
    BY <1>6 DEF Recorded
  <2>4. Len(new) = d /\ new[d] = c /\ \A k \in 1..(d - 1) : new[k] = dedup[k + 1]
    BY <1>1, <2>1, <2>2, <2>3, AppendProperties
  <2> HIDE DEF new, longer, d, n
  <2>5. Len(new) <= Window /\ Len(new) <= Len(longer) /\ Len(new) = Window
    BY <1>1, <1>5, <2>1, <2>4
  <2>6. ASSUME NEW k \in 1..Len(new) PROVE new[k] = longer[Len(longer) - Len(new) + k]
    <3>1. CASE k = d
      <4>1. Len(longer) - Len(new) + k = n + 1
        BY <1>1, <1>5, <2>4, <3>1
      <4> QED BY <1>5, <2>4, <3>1, <4>1
    <3>2. CASE k # d
      <4>1. k \in 1..(d - 1) /\ k + 1 \in 1..d
        BY <1>1, <2>4, <2>6, <3>2
      <4>2. Len(longer) - Len(new) + k = n - d + (k + 1) /\ n - d + (k + 1) \in 1..n
        BY <1>1, <1>5, <2>4, <4>1
      <4> QED BY <1>2, <1>5, <2>4, <4>1, <4>2
    <3> QED BY <3>1, <3>2
  <2>7. ASSUME NEW i \in 1..Len(new), NEW j \in 1..Len(new), new[i] = new[j] PROVE i = j
    <3>1. \A k \in 1..(d - 1) : new[k] # c /\ k + 1 \in 1..d
      BY <1>1, <1>4, <2>4
    <3>2. CASE i = d \/ j = d
      BY <1>1, <2>4, <2>7, <3>1, <3>2
    <3>3. CASE i # d /\ j # d
      <4>1. i \in 1..(d - 1) /\ j \in 1..(d - 1)
        BY <1>1, <2>4, <2>7, <3>3
      <4>2. i + 1 = j + 1
        BY <1>3, <2>4, <2>7, <3>1, <4>1
      <4> QED BY <4>1, <4>2
    <3> QED BY <3>2, <3>3
  <2> QED BY <2>5, <2>6, <2>7 DEF new, longer
<1>7. CASE ~Evicts
  <2>1. d < Window /\ d = n
    BY <1>1, <1>7 DEF Evicts
  <2>2. new = Append(dedup, c)
    BY <1>7 DEF Recorded
  <2>3. Len(new) = d + 1 /\ new[d + 1] = c /\ \A k \in 1..d : new[k] = dedup[k]
    BY <1>1, <2>2, AppendProperties
  <2> HIDE DEF new, longer, d, n
  <2>4. Len(new) <= Window /\ Len(new) = Len(longer)
    BY <1>1, <1>5, <2>1, <2>3
  <2>5. ASSUME NEW k \in 1..Len(new) PROVE new[k] = longer[Len(longer) - Len(new) + k]
    <3>1. Len(longer) - Len(new) + k = k /\ n - d + k = k
      BY <1>1, <1>5, <2>1, <2>3, <2>5
    <3>2. CASE k = d + 1
      BY <1>5, <2>1, <2>3, <3>1, <3>2
    <3>3. CASE k # d + 1
      <4>1. k \in 1..d /\ k \in 1..n
        BY <1>1, <2>1, <2>3, <2>5, <3>3
      <4> QED BY <1>2, <1>5, <2>3, <3>1, <4>1
    <3> QED BY <3>2, <3>3
  <2>6. ASSUME NEW i \in 1..Len(new), NEW j \in 1..Len(new), new[i] = new[j] PROVE i = j
    <3>1. \A k \in 1..d : new[k] # c
      BY <1>4, <2>3
    <3>2. \A k \in 1..Len(new) : k = d + 1 \/ k \in 1..d
      BY <1>1, <2>3
    <3> QED BY <1>3, <2>3, <2>6, <3>1, <3>2
  <2> QED BY <1>1, <2>4, <2>5, <2>6 DEF new, longer
<1> QED BY <1>6, <1>7

\* Between a change and its repeat there are all those of the window.
LEMMA RepeatIsOutside ==
  ASSUME ContactType, WindowIsLast, NEW c \in Changes, c \notin ToSet(dedup), NEW i \in 1..Len(recorded), recorded[i] = c
  PROVE  Cardinality({recorded[k] : k \in (i + 1)..Len(recorded)}) >= Window
<1> DEFINE d == Len(dedup)
           n == Len(recorded)
           seen == {recorded[k] : k \in (i + 1)..n}
<1>1. /\ dedup \in Seq(Changes) /\ recorded \in Seq(Changes) /\ Window \in Nat \ {0} /\ d \in Nat /\ n \in Nat
      /\ d <= n /\ (d = Window \/ d = n)
  BY WindowAssumption DEF ContactType, WindowIsLast
<1>2. \A k \in 1..d : dedup[k] = recorded[n - d + k]
  BY DEF WindowIsLast
<1>3. \A k, j \in 1..d : dedup[k] = dedup[j] => k = j
  BY DEF WindowIsLast
<1>4. \A k \in 1..d : dedup[k] # c
  BY <1>1 DEF ToSet
<1>0. i \in 1..n
  OBVIOUS
<1> HIDE DEF d, n
<1>5. i <= n - d
  <2>1. SUFFICES ASSUME ~(i <= n - d) PROVE FALSE
    OBVIOUS
  <2>2. i - (n - d) \in 1..d /\ n - d + (i - (n - d)) = i
    BY <1>0, <1>1, <2>1
  <2> QED BY <1>2, <1>4, <2>2
<1>6. d = Window
  BY <1>0, <1>1, <1>5
<1>7. \A k \in 1..d : dedup[k] \in seen
  <2>1. ASSUME NEW k \in 1..d PROVE n - d + k \in (i + 1)..n
    BY <1>0, <1>1, <1>5
  <2> QED BY <1>2, <2>1
<1>8. IsFiniteSet(seen)
  <2>1. IsFiniteSet((i + 1)..n)
    BY <1>0, <1>1, FS_Interval
  <2> DEFINE g == [k \in (i + 1)..n |-> recorded[k]]
  <2>2. g \in Surjection((i + 1)..n, seen)
    BY DEF Surjection
  <2> HIDE DEF g
  <2> QED BY <2>1, <2>2, FS_Surjection
<1> HIDE DEF seen
<1> DEFINE f == [k \in 1..d |-> dedup[k]]
<1>9. f \in Injection(1..d, seen)
  BY <1>3, <1>7 DEF Injection, IsInjective
<1>10. IsFiniteSet(1..d) /\ Cardinality(1..d) = d
  <2>1. IsFiniteSet(1..d) /\ Cardinality(1..d) = IF 1 > d THEN 0 ELSE d - 1 + 1
    <3>1. d \in Int /\ 1 \in Int
      BY <1>1
    <3> QED BY <3>1, FS_Interval
  <2> QED BY <1>1, <2>1
<1> HIDE DEF f
<1>11. Cardinality(1..d) <= Cardinality(seen)
  BY <1>8, <1>9, FS_Injection
<1>12. Cardinality(seen) \in Nat
  BY <1>8, FS_CardinalityType
<1>13. Cardinality(seen) >= Window
  BY <1>1, <1>6, <1>10, <1>11, <1>12
<1> QED BY <1>13 DEF seen, n

LEMMA WindowKept == ASSUME ContactInv, ContactNext PROVE WindowHolds'
<1>0. ContactType /\ WindowHolds
  BY DEF ContactInv
<1>1. ASSUME recorded' = recorded, contactsUp' => dedup' = dedup /\ contactsUp PROVE WindowHolds'
  <2>1. RepeatsAreSkipped'
    BY <1>0, <1>1 DEF WindowHolds, RepeatsAreSkipped
  <2>2. contactsUp' => WindowIsLast'
    BY <1>0, <1>1 DEF WindowHolds, WindowIsLast
  <2> QED BY <2>1, <2>2 DEF WindowHolds
<1>2. ASSUME NEW c \in Changes, Handle(c) PROVE WindowHolds'
  <2>1. CASE ~Fresh(c)
    BY <1>1, <1>2, <2>1 DEF Handle
  <2>2. CASE Fresh(c)
    <3>0. WindowIsLast
      BY <1>0, <1>2 DEF Handle, WindowHolds
    <3>1. dedup' = Recorded(c) /\ recorded' = Append(recorded, c) /\ c \notin ToSet(dedup)
      BY <1>2, <2>2 DEF Handle, Fresh
    <3>2. /\ Len(dedup') <= Window /\ Len(dedup') <= Len(recorded') /\ (Len(dedup') = Window \/ Len(dedup') = Len(recorded'))
          /\ \A k \in 1..Len(dedup') : dedup'[k] = recorded'[Len(recorded') - Len(dedup') + k]
          /\ \A i, j \in 1..Len(dedup') : dedup'[i] = dedup'[j] => i = j
      BY <1>0, <3>0, <3>1, RecordedIs
    <3>3. RepeatsAreSkipped'
      <4> DEFINE n == Len(recorded)
      <4>1. n \in Nat /\ Len(recorded') = n + 1 /\ recorded'[n + 1] = c /\ \A k \in 1..n : recorded'[k] = recorded[k]
        BY <1>0, <3>1, AppendProperties DEF ContactType
      <4>2. SUFFICES ASSUME NEW i \in 1..(n + 1), NEW j \in 1..(n + 1), i < j, recorded'[i] = recorded'[j]
                     PROVE  Cardinality({recorded'[k] : k \in (i + 1)..(j - 1)}) >= Window
        BY <4>1 DEF RepeatsAreSkipped
      <4>3. i \in 1..n /\ \A k \in (i + 1)..(j - 1) : k \in 1..n
        BY <4>1, <4>2
      <4> HIDE DEF n
      <4>4. {recorded'[k] : k \in (i + 1)..(j - 1)} = {recorded[k] : k \in (i + 1)..(j - 1)}
        BY <4>1, <4>3
      <4>5. CASE j = n + 1
        <5>1. recorded[i] = c /\ j - 1 = n
          BY <4>1, <4>2, <4>3, <4>5
        <5>2. Cardinality({recorded[k] : k \in (i + 1)..n}) >= Window
          BY <1>0, <3>0, <3>1, <4>3, <5>1, RepeatIsOutside DEF n
        <5> QED BY <4>4, <5>1, <5>2
      <4>6. CASE j # n + 1
        <5>1. j \in 1..n /\ recorded[i] = recorded[j]
          BY <4>1, <4>2, <4>3, <4>6
        <5>2. RepeatsAreSkipped
          BY <1>0 DEF WindowHolds
        <5>3. Cardinality({recorded[k] : k \in (i + 1)..(j - 1)}) >= Window
          BY <4>2, <4>3, <5>1, <5>2 DEF RepeatsAreSkipped, n
        <5> QED BY <4>4, <5>3
      <4> QED BY <4>5, <4>6
    <3> QED BY <3>2, <3>3 DEF WindowHolds, WindowIsLast
  <2> QED BY <2>1, <2>2
<1>3. ASSUME NEW ok \in BOOLEAN, Files(ok) \/ CallbackEnds(ok) PROVE WindowHolds'
  BY <1>1, <1>3 DEF Files, CallbackEnds, RolledBack
<1>4. CASE HubOpens \/ HubFails
  BY <1>1, <1>4 DEF HubOpens, HubFails
<1>5. ASSUME NEW r \in HubContexts, TurnTells(r) \/ HydrationFails(r) \/ RoomGoes(r) \/ RoomComes(r) PROVE WindowHolds'
  BY <1>1, <1>5 DEF TurnTells, HydrationFails, RoomGoes, RoomComes
<1>6. ASSUME NEW r \in HubContexts, NEW b \in BOOLEAN, TurnTakes(r, b) PROVE WindowHolds'
  BY <1>1, <1>6 DEF TurnTakes
<1> QED BY <1>2, <1>3, <1>4, <1>5, <1>6 DEF ContactNext

-----------------------------------------------------------------------------
\* What of the hub's work is left, and how it is joined.
LEMMA WorkTypes ==
  ASSUME ContactInv
  PROVE  /\ hubTurns \in Seq(Changes) /\ Held \in Seq(Changes) /\ hubQueue \in Seq(Changes) /\ Coming \in Seq(Changes)
         /\ hubTurns \o Held \in Seq(Changes) /\ (hubTurns \o Held) \o hubQueue \in Seq(Changes) /\ HubWork \in Seq(Changes)
         /\ recorded \in Seq(Changes)
<1>1. hubTurns \in Seq(Changes) /\ hubQueue \in Seq(Changes) /\ recorded \in Seq(Changes)
  BY DEF ContactInv, ContactType
<1>2. Held \in Seq(Changes)
  BY DEF ContactInv, HubHolds, Held
<1>3. Coming \in Seq(Changes)
  <2>1. handling.stage \in {"opening", "filing"} => handling.of \in Changes
    BY DEF ContactInv, ContactType, Idle
  <2> QED BY <2>1 DEF Coming
<1>4. hubTurns \o Held \in Seq(Changes)
  BY <1>1, <1>2, ConcatProperties
<1>5. (hubTurns \o Held) \o hubQueue \in Seq(Changes)
  BY <1>1, <1>4, ConcatProperties
<1>6. HubWork \in Seq(Changes)
  BY <1>3, <1>5, ConcatProperties DEF HubWork
<1> QED BY <1>1, <1>2, <1>3, <1>4, <1>5, <1>6

\* However its parts are joined, the work is the same.
LEMMA JoinedLater == \A s, t, u \in Seq(Changes) : (s \o t) \o u = s \o (t \o u)
BY ConcatAssociative

LEMMA JoinedAre == \A s, t \in Seq(Changes) : s \o t \in Seq(Changes)
BY ConcatProperties

LEMMA WorkRejoined ==
  ASSUME ContactInv
  PROVE  /\ hubQueue \o Coming \in Seq(Changes) /\ Held \o hubQueue \in Seq(Changes)
         /\ ((hubTurns \o Held) \o hubQueue) \o Coming = (hubTurns \o Held) \o (hubQueue \o Coming)
         /\ (hubTurns \o hubQueue) \o Coming = hubTurns \o (hubQueue \o Coming)
         /\ (hubTurns \o Held) \o hubQueue = hubTurns \o (Held \o hubQueue)
<1>1. hubTurns \in Seq(Changes) /\ hubQueue \in Seq(Changes) /\ Coming \in Seq(Changes)
  BY WorkTypes
<1>2. Held \in Seq(Changes)
  BY WorkTypes
<1>3. hubTurns \o Held \in Seq(Changes)
  BY WorkTypes
<1>4. hubQueue \o Coming \in Seq(Changes) /\ Held \o hubQueue \in Seq(Changes)
  BY <1>1, <1>2, JoinedAre, Zenon
<1>5. ((hubTurns \o Held) \o hubQueue) \o Coming = (hubTurns \o Held) \o (hubQueue \o Coming)
  <2>1. hubQueue \in Seq(Changes) /\ Coming \in Seq(Changes)
    BY <1>1
  <2> QED BY <1>3, <2>1, JoinedLater, Zenon
<1>6. (hubTurns \o hubQueue) \o Coming = hubTurns \o (hubQueue \o Coming)
  BY <1>1, JoinedLater, Zenon
<1>7. (hubTurns \o Held) \o hubQueue = hubTurns \o (Held \o hubQueue)
  <2>1. hubTurns \in Seq(Changes) /\ hubQueue \in Seq(Changes)
    BY <1>1
  <2> QED BY <1>2, <2>1, JoinedLater, Zenon
<1> QED BY <1>4, <1>5, <1>6, <1>7

\* Without its end.
LEMMA EmbedsStart ==
  ASSUME NEW S, NEW s \in Seq(S), NEW t \in Seq(S), NEW z \in Seq(S), Embeds(s \o t, z)
  PROVE  Embeds(s, z)
<1>1. <<>> \in Seq(S) /\ s \o t \in Seq(S)
  BY ConcatProperties
<1>2. (s \o t) \o <<>> = s \o t /\ s \o <<>> = s
  BY <1>1, ConcatEmptySeq
<1>3. Embeds(s \o <<>>, z)
  BY <1>1, <1>2, EmbedsLess
<1> QED BY <1>2, <1>3

LEMMA OrderKept == ASSUME ContactInv, ContactNext PROVE Embeds(HubWork, recorded)'
<1>0. ContactType /\ HubHolds /\ Hub \in HubContexts /\ Embeds(HubWork, recorded)
  BY HubIsContext DEF ContactInv
<1> DEFINE wa == hubTurns
           wb == Held
           wc == hubQueue
           wd == Coming
<1>a. /\ wa \in Seq(Changes) /\ wb \in Seq(Changes) /\ wc \in Seq(Changes) /\ wd \in Seq(Changes)
      /\ wa \o wb \in Seq(Changes) /\ (wa \o wb) \o wc \in Seq(Changes) /\ HubWork \in Seq(Changes) /\ recorded \in Seq(Changes)
      /\ <<>> \in Seq(Changes)
  BY WorkTypes
<1>f. /\ wc \o wd \in Seq(Changes) /\ wb \o wc \in Seq(Changes)
      /\ ((wa \o wb) \o wc) \o wd = (wa \o wb) \o (wc \o wd)
      /\ (wa \o wc) \o wd = wa \o (wc \o wd)
      /\ (wa \o wb) \o wc = wa \o (wb \o wc)
  BY WorkRejoined
<1>b. HubWork = ((wa \o wb) \o wc) \o wd
  BY DEF HubWork
<1>c. HubWork' = ((hubTurns' \o Held') \o hubQueue') \o Coming'
  BY DEF HubWork
<1> HIDE DEF wa, wb, wc, wd
<1>d. ASSUME HubWork' = HubWork, recorded' = recorded PROVE Embeds(HubWork, recorded)'
  <2>1. Embeds(HubWork', recorded')
    BY <1>0, <1>d
  <2> QED BY <2>1 DEF Embeds
<1>e. ASSUME Embeds(HubWork', recorded') PROVE Embeds(HubWork, recorded)'
  BY <1>e DEF Embeds
<1>1. ASSUME NEW e \in Changes, Handle(e) PROVE Embeds(HubWork, recorded)'
  <2>1. hubTurns' = wa /\ Held' = wb /\ hubQueue' = wc /\ handling = Idle
    BY <1>1 DEF Handle, Held, wa, wb, wc
  <2>2. wd = <<>>
    BY <2>1 DEF Coming, wd, Idle
  <2>3. HubWork = (wa \o wb) \o wc
    BY <1>a, <1>b, <2>2, ConcatEmptySeq
  <2>4. CASE ~Fresh(e)
    BY <1>1, <1>b, <1>c, <1>d, <2>1, <2>4 DEF Handle, Coming, wd
  <2>5. CASE Fresh(e)
    <3>1. recorded' = Append(recorded, e) /\ handling' = IF StageOf = "idle" THEN Idle ELSE [stage |-> StageOf, of |-> e]
      BY <1>1, <2>5 DEF Handle
    <3>2. CASE StageOf \in {"opening", "filing"}
      <4>1. Coming' = <<e>>
        BY <3>1, <3>2 DEF Coming
      <4>2. HubWork' = Append(HubWork, e)
        BY <1>a, <1>c, <2>1, <2>3, <4>1, AppendIsConcat
      <4>3. Embeds(Append(HubWork, e), Append(recorded, e))
        BY <1>0, <1>a, EmbedsBoth
      <4> QED BY <1>e, <3>1, <4>2, <4>3
    <3>3. CASE StageOf \notin {"opening", "filing"}
      <4>1. Coming' = <<>>
        BY <3>1, <3>3 DEF Coming, Idle
      <4>2. HubWork' = HubWork
        BY <1>b, <1>c, <2>1, <2>2, <4>1
      <4>3. Embeds(HubWork, Append(recorded, e))
        BY <1>0, <1>a, EmbedsLonger
      <4> QED BY <1>e, <3>1, <4>2, <4>3
    <3> QED BY <3>2, <3>3
  <2> QED BY <2>4, <2>5
<1>2. ASSUME NEW ok \in BOOLEAN, CallbackEnds(ok) PROVE Embeds(HubWork, recorded)'
  <2>1. hubTurns' = wa /\ Held' = wb /\ hubQueue' = wc /\ recorded' = recorded
    BY <1>2 DEF CallbackEnds, Held, wa, wb, wc
  <2>2. wd = <<>> /\ Coming' = <<>>
    BY <1>2 DEF CallbackEnds, Coming, wd, Idle
  <2> QED BY <1>b, <1>c, <1>d, <2>1, <2>2
<1>3. ASSUME HubOpens PROVE Embeds(HubWork, recorded)'
  <2>1. hubTurns' = wa /\ Held' = wb /\ hubQueue' = wc /\ recorded' = recorded
    BY <1>3 DEF HubOpens, Held, wa, wb, wc
  <2>2. Coming' = wd
    <3>1. handling # Idle /\ handling.stage = "opening"
      BY <1>3 DEF HubOpens, Idle
    <3>2. handling' = [handling EXCEPT !.stage = "filing"] /\ handling \in [stage : {"calling", "opening", "filing"}, of : Changes]
      BY <1>0, <1>3, <3>1 DEF HubOpens, ContactType
    <3>3. handling'.stage = "filing" /\ handling'.of = handling.of
      BY <3>2
    <3> QED BY <3>1, <3>3 DEF Coming, wd
  <2> QED BY <1>b, <1>c, <1>d, <2>1, <2>2
<1>4. ASSUME HubFails PROVE Embeds(HubWork, recorded)'
  <2>1. hubTurns' = wa /\ Held' = wb /\ hubQueue' = wc /\ recorded' = recorded
    BY <1>4 DEF HubFails, Held, wa, wb, wc
  <2>2. Coming' = <<>>
    BY <1>4 DEF HubFails, Coming, Idle
  <2>3. HubWork' = (wa \o wb) \o wc
    BY <1>a, <1>c, <2>1, <2>2, ConcatEmptySeq
  <2>4. Embeds((wa \o wb) \o wc, recorded)
    BY <1>0, <1>a, <1>b, EmbedsStart
  <2> QED BY <1>e, <2>1, <2>3, <2>4
<1>5. ASSUME NEW ok \in BOOLEAN, Files(ok) PROVE Embeds(HubWork, recorded)'
  <2> DEFINE e == handling.of
  <2>1. hubTurns' = wa /\ Held' = wb /\ hubQueue' = Append(wc, e) /\ recorded' = recorded
    BY <1>5 DEF Files, Held, wa, wb, wc
  <2>2. wd = <<e>> /\ Coming' = <<>>
    BY <1>5 DEF Files, Coming, wd, Idle
  <2>3. e \in Changes
    BY <1>0, <1>5 DEF Files, ContactType, Idle
  <2> HIDE DEF e
  <2>4. Append(wc, e) = wc \o <<e>> /\ <<e>> \in Seq(Changes) /\ wc \o <<e>> \in Seq(Changes)
    BY <1>a, <2>3, AppendIsConcat, AppendProperties
  <2>5. (wa \o wb) \o (wc \o <<e>>) \in Seq(Changes)
    BY <1>a, <2>4, ConcatProperties
  <2>6. HubWork' = (wa \o wb) \o (wc \o <<e>>)
    BY <1>c, <2>1, <2>2, <2>4, <2>5, ConcatEmptySeq
  <2>7. (wa \o wb) \o (wc \o <<e>>) = ((wa \o wb) \o wc) \o <<e>>
    BY <1>f, <2>2
  <2> QED BY <1>b, <1>d, <2>1, <2>2, <2>6, <2>7
<1>6. ASSUME NEW r \in HubContexts, TurnTells(r) PROVE Embeds(HubWork, recorded)'
  <2>1. hubQueue' = wc /\ Coming' = wd /\ recorded' = recorded /\ turn[r].on
    BY <1>6 DEF TurnTells, Coming, wc, wd
  <2>2. CASE r = Hub
    <3> DEFINE e == turn[Hub].of
    <3>1. wb = <<e>> /\ e \in Changes /\ hubTurns' = Append(wa, e)
      BY <1>0, <1>6, <2>1, <2>2 DEF Held, wb, HubHolds, TurnTells, wa
    <3>2. Held' = <<>>
      <4>1. turn'[Hub] = NoRoomTurn
        BY <1>0, <1>6, <2>2 DEF TurnTells, ContactType
      <4> QED BY <4>1, NotesTypes DEF Held
    <3> HIDE DEF e
    <3>3. Append(wa, e) = wa \o wb
      BY <1>a, <3>1, AppendIsConcat
    <3>4. hubTurns' \o Held' = wa \o wb
      BY <1>a, <3>1, <3>2, <3>3, ConcatEmptySeq
    <3> QED BY <1>b, <1>c, <1>d, <2>1, <3>4
  <2>3. CASE r # Hub
    <3>1. hubTurns' = wa /\ turn'[Hub] = turn[Hub]
      BY <1>0, <1>6, <2>3 DEF TurnTells, ContactType, wa
    <3>2. Held' = wb
      BY <3>1 DEF Held, wb
    <3> QED BY <1>b, <1>c, <1>d, <2>1, <3>1, <3>2
  <2> QED BY <2>2, <2>3
<1>7. ASSUME NEW r \in HubContexts, HydrationFails(r) PROVE Embeds(HubWork, recorded)'
  <2>1. hubTurns' = wa /\ hubQueue' = wc /\ Coming' = wd /\ recorded' = recorded
    BY <1>7 DEF HydrationFails, Coming, wa, wc, wd
  <2>2. CASE r = Hub
    <3>1. Held' = <<>>
      <4>1. turn'[Hub] = NoRoomTurn
        BY <1>0, <1>7, <2>2 DEF HydrationFails, ContactType
      <4> QED BY <4>1, NotesTypes DEF Held
    <3>2. HubWork' = (wa \o wc) \o wd
      BY <1>a, <1>c, <2>1, <3>1, ConcatEmptySeq
    <3>4. Embeds(wa \o (wc \o wd), recorded)
      BY <1>0, <1>a, <1>b, <1>f, EmbedsLess
    <3> QED BY <1>e, <1>f, <2>1, <3>2, <3>4
  <2>3. CASE r # Hub
    <3>1. turn'[Hub] = turn[Hub]
      BY <1>0, <1>7, <2>3 DEF HydrationFails, ContactType
    <3>2. Held' = wb
      BY <3>1 DEF Held, wb
    <3> QED BY <1>b, <1>c, <1>d, <2>1, <3>2
  <2> QED BY <2>2, <2>3
<1>8. ASSUME NEW r \in HubContexts, RoomGoes(r) PROVE Embeds(HubWork, recorded)'
  <2>1. hubTurns' = wa /\ Coming' = wd /\ recorded' = recorded
    BY <1>8 DEF RoomGoes, Coming, wa, wd
  <2>2. CASE r = Hub
    <3>1. Held' = <<>> /\ hubQueue' = <<>>
      <4>1. turn'[Hub] = NoRoomTurn /\ hubQueue' = <<>>
        BY <1>0, <1>8, <2>2 DEF RoomGoes, ContactType
      <4> QED BY <4>1, NotesTypes DEF Held
    <3>2. HubWork' = wa \o wd
      BY <1>a, <1>c, <2>1, <3>1, ConcatEmptySeq
    <3>4. Embeds(wa \o wd, recorded)
      BY <1>0, <1>a, <1>b, <1>f, EmbedsLess
    <3> QED BY <1>e, <2>1, <3>2, <3>4
  <2>3. CASE r # Hub
    <3>1. turn'[Hub] = turn[Hub] /\ hubQueue' = wc
      BY <1>0, <1>8, <2>3 DEF RoomGoes, ContactType, wc
    <3>2. Held' = wb
      BY <3>1 DEF Held, wb
    <3> QED BY <1>b, <1>c, <1>d, <2>1, <3>1, <3>2
  <2> QED BY <2>2, <2>3
<1>9. ASSUME NEW r \in HubContexts, RoomComes(r) PROVE Embeds(HubWork, recorded)'
  <2>1. hubTurns' = wa /\ Held' = wb /\ hubQueue' = wc /\ Coming' = wd /\ recorded' = recorded
    BY <1>9 DEF RoomComes, Held, Coming, wa, wb, wc, wd
  <2> QED BY <1>b, <1>c, <1>d, <2>1
<1>10. ASSUME NEW r \in HubContexts, NEW g \in BOOLEAN, TurnTakes(r, g) PROVE Embeds(HubWork, recorded)'
  <2>1. hubTurns' = wa /\ Coming' = wd /\ recorded' = recorded /\ ~turn[r].on
    BY <1>10 DEF TurnTakes, Coming, wa, wd
  <2>2. CASE r = Hub
    <3> DEFINE h == Head(hubQueue)
               t == Tail(hubQueue)
    <3>1. wb = <<>>
      BY <2>1, <2>2 DEF Held, wb
    <3>2. turn'[Hub].on /\ turn'[Hub].of = h /\ hubQueue' = t /\ hubQueue # <<>>
      BY <1>0, <1>10, <2>2 DEF TurnTakes, ContactType
    <3>3. Held' = <<h>>
      BY <3>2 DEF Held
    <3>4. wc = <<h>> \o t /\ h \in Changes /\ t \in Seq(Changes)
      BY <1>a, <3>2, HeadTailProperties DEF wc
    <3> HIDE DEF h, t
    <3>5. <<h>> \in Seq(Changes)
      BY <3>4
    <3>6. (wa \o wb) \o wc = wa \o (<<h>> \o t)
      BY <1>a, <3>1, <3>4, ConcatEmptySeq
    <3>7. (wa \o <<h>>) \o t = wa \o (<<h>> \o t)
      <4>1. wa \in Seq(Changes) /\ t \in Seq(Changes)
        BY <1>a, <3>4
      <4> QED BY <3>5, <4>1, JoinedLater, Zenon
    <3> QED BY <1>b, <1>c, <1>d, <2>1, <3>2, <3>3, <3>6, <3>7
  <2>3. CASE r # Hub
    <3>1. turn'[Hub] = turn[Hub] /\ hubQueue' = wc
      BY <1>0, <1>10, <2>3 DEF TurnTakes, ContactType, wc
    <3>2. Held' = wb
      BY <3>1 DEF Held, wb
    <3> QED BY <1>b, <1>c, <1>d, <2>1, <3>1, <3>2
  <2> QED BY <2>2, <2>3
<1> QED BY <1>1, <1>2, <1>3, <1>4, <1>5, <1>6, <1>7, <1>8, <1>9, <1>10 DEF ContactNext

-----------------------------------------------------------------------------
LEMMA ContactKept == ContactInv /\ [ContactNext]_contactVars => ContactInv'
<1> SUFFICES ASSUME ContactInv, [ContactNext]_contactVars PROVE ContactInv'
  OBVIOUS
<1>1. CASE ContactNext
  BY <1>1, ContactTypeKept, ContextsKept, HubKept, WindowKept, OrderKept DEF ContactInv
<1>2. CASE UNCHANGED contactVars
  <2>1. ContactType' /\ (\A r \in HubContexts : ContextHolds(r)')
    BY <1>2 DEF contactVars, ContactInv, ContactType, ContextHolds, Open
  <2>2. HubHolds'
    BY <1>2 DEF contactVars, ContactInv, HubHolds, HubKnowsItsPurpose, PurposeIsDue, Open
  <2>3. RepeatsAreSkipped'
    <3>1. recorded' = recorded
      BY <1>2 DEF contactVars
    <3>2. RepeatsAreSkipped
      BY DEF ContactInv, WindowHolds
    <3> QED BY <3>1, <3>2 DEF RepeatsAreSkipped
  <2>4. WindowHolds'
    BY <1>2, <2>3 DEF contactVars, ContactInv, WindowHolds, WindowIsLast
  <2>5. HubWork' = HubWork /\ recorded' = recorded
    BY <1>2 DEF contactVars, HubWork, Held, Coming
  <2>6. Embeds(HubWork', recorded')
    BY <2>5 DEF ContactInv
  <2>7. Embeds(HubWork, recorded)'
    BY <2>6 DEF Embeds
  <2> QED BY <2>1, <2>2, <2>4, <2>7 DEF ContactInv
<1> QED BY <1>1, <1>2

LEMMA ContactHandles == ContactInv => ContactsAreHandled
<1> SUFFICES ASSUME ContactInv PROVE ContactsAreHandled
  OBVIOUS
<1>1. NotesAreTold
  BY DEF ContactInv, ContextHolds, NotesAreTold
<1>2. HubKnowsItsPurpose /\ RepeatsAreSkipped
  BY DEF ContactInv, HubHolds, WindowHolds
<1>3. Embeds(hubTurns, recorded)
  <2>1. Embeds(((hubTurns \o Held) \o hubQueue) \o Coming, recorded)
    BY DEF ContactInv, HubWork
  <2>2. Embeds((hubTurns \o Held) \o hubQueue, recorded)
    BY <2>1, WorkTypes, EmbedsStart
  <2>3. Embeds(hubTurns \o Held, recorded)
    BY <2>2, WorkTypes, EmbedsStart
  <2> QED BY <2>3, WorkTypes, EmbedsStart
<1>4. HubKeepsTheOrder
  BY <1>3 DEF HubKeepsTheOrder, Embeds
<1> QED BY <1>1, <1>2, <1>4 DEF ContactsAreHandled
=============================================================================
