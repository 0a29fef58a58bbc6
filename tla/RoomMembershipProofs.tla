------------------------ MODULE RoomMembershipProofs ------------------------
(***************************************************************************)
(* Theorems about a room's membership, for any number of room events,      *)
(* bootstraps, reconnects, runs and failures: whenever nobody is at work   *)
(* on the room, the runtime, RoomPresence, SubscriptionManager and the     *)
(* transport take it for the same thing.                                   *)
(*                                                                         *)
(* Three things hold this together.  The operations of a session form a    *)
(* chain of which only the oldest is past its claim (Chained), so the      *)
(* tracker and the topics are that operation's to change (TrackFits).      *)
(* Every operation has a caller that awaits it (OwnInv), so what is to     *)
(* become of the room is somebody's intent.  And the event loop's removal  *)
(* of a room and a bootstrap's admission of it are ordered by that chain   *)
(* (RaceInv).                                                              *)
(***************************************************************************)
EXTENDS RoomMembership, TLAPS

Admitters == {"loop", "boot"}

UpPcs == {"chat", "participants", "rollback"}
Operations ==
  [id : Nat \ {0}, kind : {"up", "down"}, after : Nat, epoch : Nat,
   pc : {"queued", "leave"} \cup UpPcs]
CallerPcs ==
  {"idle", "admitting", "awaiting", "releasing", "removing", "resync", "dropping", "tearing"}

CallerRecords == [pc : CallerPcs, op : Nat, ok : BOOLEAN, ticket : Nat]

Sweeps == [epoch : Nat, stage : {"queued", "leaving"}, lost : BOOLEAN, ticket : Nat]

TypeInv ==
  /\ phase \in {"off", "on", "stopping"}
  /\ roster \in [state : {"absent", "admitting", "admitted"}, ticket : Nat]
  /\ tickets \in Nat
  /\ inFlight \in {"none", "loop", "boot"}
  /\ callers \in [Callers -> CallerRecords]
  /\ runs \in BOOLEAN
  /\ tracker \in [status : {"none", "joining", "subscribed", "leaving", "dirty"}, ticket : Nat]
  /\ needs \in BOOLEAN /\ subEpoch \in Nat
  /\ ops \subseteq Operations
  /\ lastOp \in Nat /\ opCount \in Nat
  /\ held \subseteq Topics2
  /\ sweeps \in Seq(Sweeps)
  /\ reports \in Nat
  /\ spent \in [{"events", "boots", "reconnects", "runs", "failures"} -> Nat]

----------------------------------------------------------------------------
(* The operations.                                                         *)

\* Ids tell the operations apart, in the order they were called; one that waits, waits
\* for an older one, and one that does not is where its kind puts it.
WellOrdered ==
  /\ \A o, p \in ops : o.id = p.id => o = p
  /\ \A o \in ops : /\ o.id <= opCount /\ o.epoch <= subEpoch
                    /\ o.pc = "queued" => o.after < o.id /\ o.epoch = subEpoch
                    /\ o.pc \in UpPcs => o.kind = "up"
                    /\ o.pc = "leave" => o.kind = "down"

\* Those of the session are a chain: each waits for the one before it, and the last is
\* the one the next will wait for.
Chained ==
  /\ \A o, p \in ops : o.epoch = subEpoch /\ p.epoch = subEpoch /\ p.id < o.id
       => /\ o.pc = "queued" /\ p.id <= o.after
          /\ \E q \in ops : q.id = o.after /\ q.epoch = subEpoch
  /\ \A o, q \in ops : o.pc = "queued" /\ q.id = o.after => q.epoch = subEpoch /\ q.kind # o.kind
  /\ \A o \in ops : o.epoch = subEpoch => lastOp # 0 /\ o.id <= lastOp
  /\ lastOp # 0 => \E o \in ops : o.id = lastOp /\ o.epoch = subEpoch

\* Somebody awaits every operation, and it is of the kind they asked for.
OwnInv ==
  /\ \A o \in ops : \E c \in Callers : callers[c].op = o.id
  /\ \A c \in Callers : callers[c].op # 0 =>
       \E o \in ops : /\ o.id = callers[c].op
                      /\ o.kind = IF callers[c].pc \in {"admitting", "resync"} THEN "up" ELSE "down"
  \* what a session leaves behind is its bootstrap's
  /\ \A o \in ops : o.epoch # subEpoch => /\ callers["boot"].op = o.id
                                          /\ callers["loop"].op # o.id /\ callers["stop"].op # o.id

\* Does the operation caller c awaits belong to the session?
OfSession(c) == \E o \in ops : o.id = callers[c].op /\ o.epoch = subEpoch

----------------------------------------------------------------------------
(* The tracker.                                                            *)

HeldFits ==
  /\ tracker.status = "none" => held = {} /\ tracker.ticket = 0
  /\ tracker.status \in {"subscribed", "leaving"} => held = Topics2
  /\ needs = (tracker.status = "dirty")

TrackFits ==
  /\ \A o \in ops : o.epoch = subEpoch =>
       /\ o.pc \in UpPcs => /\ tracker = [status |-> "joining", ticket |-> o.id]
                            /\ held = IF o.pc = "chat" THEN {} ELSE {"chat"}
       /\ o.pc = "leave" => tracker = [status |-> "leaving", ticket |-> o.id]
  /\ \A o \in ops : o.epoch # subEpoch \/ tracker.status = "subscribed" => tracker.ticket # o.id
  /\ tracker.status = "joining" => \E o \in ops : o.epoch = subEpoch /\ o.pc \in UpPcs
  /\ tracker.status = "leaving" => \E o \in ops : o.epoch = subEpoch /\ o.pc = "leave"
  /\ tracker.ticket <= opCount
  \* a subscribe whose turn has come finds the room left
  /\ \A o \in ops : o.kind = "up" /\ o.pc = "queued" /\ o.after \notin OpIds => tracker.status # "subscribed"

\* A reconnect's rejoin that failed is of a subscription there was, not of one to come.
SweepInv ==
  /\ \A i \in DOMAIN sweeps :
       /\ sweeps[i].epoch <= subEpoch
       /\ i > 1 => sweeps[i].stage = "queued"
       /\ sweeps[i].stage = "leaving" /\ sweeps[i].epoch = subEpoch => tracker.status = "dirty"
       /\ sweeps[i].lost /\ sweeps[i].epoch = subEpoch =>
            /\ sweeps[i].ticket <= opCount
            /\ \A o \in ops : o.kind = "up" /\ o.epoch = subEpoch => sweeps[i].ticket # o.id

\* What only a reconnect brings about.
ReconnectInv ==
  /\ sweeps # <<>> \/ reports > 0 => spent.reconnects > 0
  /\ callers["loop"].pc \in {"dropping", "resync"} => spent.reconnects > 0

Unjudged ==
  \A i \in DOMAIN sweeps :
    ~(sweeps[i].lost /\ sweeps[i].epoch = subEpoch /\ sweeps[i].ticket = tracker.ticket)

----------------------------------------------------------------------------
(* The callers.                                                            *)

\* Whose admission the roster waits for.
Mine(c) == roster = [state |-> "admitting", ticket |-> callers[c].ticket]
Absent == roster.state = "absent"

CallerInv ==
  /\ callers["loop"].pc \notin {"releasing", "tearing"}
  /\ callers["boot"].pc \in {"idle", "admitting", "awaiting", "releasing"}
  /\ callers["stop"].pc \in {"idle", "tearing"}
  /\ \A c \in Callers : /\ callers[c].ticket <= tickets
                        /\ callers[c].pc \in {"idle", "awaiting"} => callers[c].op = 0
                        /\ callers[c].pc = "idle" => callers[c] = Idle
  /\ callers["loop"].pc = "admitting" /\ callers["boot"].pc = "admitting"
       => callers["loop"].ticket # callers["boot"].ticket

PhaseInv ==
  /\ phase = "off" => /\ Absent /\ callers["loop"] = Idle /\ callers["stop"] = Idle /\ ~runs
                      /\ tracker.status = "none" /\ lastOp = 0
  /\ callers["stop"].pc = "tearing" => phase = "stopping" /\ Absent /\ callers["loop"] = Idle

\* What becomes of an admission: the roster waits for it, or it is a bootstrap's that a
\* stop has overtaken, or it has failed.
AdmitInv ==
  /\ roster.state = "admitting" => \E c \in Admitters : callers[c].pc = "admitting" /\ Mine(c)
  /\ callers["loop"].pc = "admitting" => Mine("loop")
  /\ callers["boot"].pc = "admitting" /\ ~Mine("boot") =>
       \/ callers["stop"].pc = "tearing"
       \/ callers["boot"].op # 0 /\ ~OfSession("boot")
       \/ callers["boot"].op = 0 /\ ~callers["boot"].ok
  /\ callers["boot"].pc = "releasing" =>
       callers["stop"].pc = "tearing" \/ callers["boot"].op = 0 \/ ~OfSession("boot")
  /\ \A c \in Admitters : callers[c].pc = "admitting" /\ Mine(c) =>
       /\ callers[c].op # 0 => OfSession(c)
       /\ callers[c].op = 0 /\ ~callers[c].ok => tracker.status \notin {"subscribed", "leaving"}
       /\ callers[c].op = 0 /\ callers[c].ok =>
            tracker.status = "leaving" \/ (tracker.status = "subscribed" /\ Unjudged)
  /\ callers["loop"].pc = "resync" => roster.state = "admitted"

\* The loop's removals and the bootstrap's admissions.
RaceInv ==
  \* the topics are left before the loop goes on
  /\ callers["loop"].pc \in {"removing", "dropping"} /\ callers["loop"].op = 0
       => tracker.status # "subscribed"
  \* a room that is being removed is still in, or its admission has failed
  /\ callers["loop"].pc = "removing" /\ callers["loop"].op # 0 /\ Absent =>
       /\ tracker.status # "subscribed"
       /\ \E o \in ops : o.id = callers["loop"].op /\ o.pc = "queued" /\ o.after \notin OpIds
  \* so the admission that it meets is older
  /\ callers["loop"].pc = "removing" /\ callers["boot"].pc = "admitting" /\ Mine("boot") /\ callers["boot"].op # 0
       => callers["boot"].op < callers["loop"].op
  \* a room that is being dropped is out, and an admission that it meets is younger
  /\ callers["loop"].pc = "dropping" =>
       /\ roster.state # "admitted"
       /\ callers["boot"].pc = "admitting" /\ Mine("boot") =>
            /\ callers["boot"].op = 0 => ~callers["boot"].ok
            /\ callers["boot"].op # 0 /\ callers["loop"].op # 0 => callers["loop"].op < callers["boot"].op

\* Whom the runtime runs, and whom the server's topics are held for.
AgreeInv ==
  /\ callers["loop"].pc # "dropping" /\ callers["stop"].pc # "tearing"
       => runs = (roster.state = "admitted")
  /\ tracker.status = "subscribed" =>
       \/ roster.state = "admitted"
       \/ \E c \in Admitters : callers[c].pc = "admitting" /\ callers[c].op = 0 /\ callers[c].ok
       \/ \E o \in ops : o.kind = "down" /\ o.epoch = subEpoch
  /\ roster.state = "admitted" /\ spent.failures = 0 /\ spent.reconnects = 0
       => tracker.status = "subscribed" \/ callers["loop"].pc = "removing"

MembershipInv ==
  /\ TypeInv /\ WellOrdered /\ Chained /\ OwnInv /\ HeldFits /\ TrackFits /\ SweepInv
  /\ ReconnectInv /\ CallerInv /\ PhaseInv /\ AdmitInv /\ RaceInv /\ AgreeInv

----------------------------------------------------------------------------
(* Running an operation.                                                   *)

Awaits(c, next, id) == callers' = [callers EXCEPT ![c] = [next EXCEPT !.op = id]]
Claimable(kind) == tracker.status = IF kind = "up" THEN "none" ELSE "subscribed"

\* The session's last operation is of the kind asked for, and is awaited too.
RunShared(c, kind, next) ==
  /\ lastOp # 0 /\ Awaits(c, next, lastOp)
  /\ \E o \in ops : o.id = lastOp /\ o.epoch = subEpoch /\ o.kind = kind
  /\ UNCHANGED <<ops, lastOp, opCount, tracker>>
\* It is of the other, and is waited for.
RunQueued(c, kind, next) ==
  /\ lastOp # 0 /\ Awaits(c, next, opCount + 1)
  /\ \E o \in ops : o.id = lastOp /\ o.epoch = subEpoch /\ o.kind # kind
  /\ ops' = ops \cup {Operation(opCount + 1, kind, "queued", lastOp)}
  /\ lastOp' = opCount + 1 /\ opCount' = opCount + 1 /\ tracker' = tracker
\* There is nothing to do.
RunOver(c, kind, next) ==
  /\ lastOp = 0 /\ ~Claimable(kind)
  /\ callers' = [callers EXCEPT ![c] = [next EXCEPT !.ok = (kind = "down" \/ tracker.status = "subscribed")]]
  /\ opCount' = opCount + 1 /\ UNCHANGED <<ops, lastOp, tracker>>
\* There is, at once.
RunBegun(c, kind, next) ==
  /\ lastOp = 0 /\ Claimable(kind) /\ Awaits(c, next, opCount + 1)
  /\ ops' = ops \cup {Operation(opCount + 1, kind, IF kind = "up" THEN "chat" ELSE "leave", 0)}
  /\ lastOp' = opCount + 1 /\ opCount' = opCount + 1
  /\ tracker' = [status |-> IF kind = "up" THEN "joining" ELSE "leaving", ticket |-> opCount + 1]

LEMMA Runs ==
  ASSUME WellOrdered, Chained, NEW c \in Callers, NEW kind \in {"up", "down"}, NEW next, RunOperation(c, kind, next)
  PROVE  \/ RunShared(c, kind, next) \/ RunQueued(c, kind, next)
         \/ RunOver(c, kind, next) \/ RunBegun(c, kind, next)
<1>1. CASE lastOp # 0
  <2>1. PICK o \in ops : o.id = lastOp /\ o.epoch = subEpoch
    BY <1>1 DEF Chained
  <2>2. OpOf(lastOp) = o
    BY <2>1 DEF OpOf, WellOrdered
  <2>3. CASE o.kind = kind
    BY <1>1, <2>1, <2>2, <2>3 DEF RunOperation, RunShared, Awaits
  <2>4. CASE o.kind # kind
    BY <1>1, <2>1, <2>2, <2>4 DEF RunOperation, RunQueued, Awaits
  <2> QED BY <2>3, <2>4
<1>2. CASE lastOp = 0
  <2>1. CASE Claimable(kind)
    BY <1>2, <2>1 DEF RunOperation, Claim, Claimable, RunBegun, Awaits
  <2>2. CASE ~Claimable(kind)
    BY <1>2, <2>2 DEF RunOperation, Claim, Claimable, RunOver
  <2> QED BY <2>1, <2>2
<1> QED BY <1>1, <1>2

\* Caller c goes on as `next`, which awaits `id`; the others stay as they are.
GoesOn(c, next, id) ==
  /\ callers' \in [Callers -> CallerRecords]
  /\ callers'[c].pc = next.pc /\ callers'[c].ticket = next.ticket /\ callers'[c].op = id
  /\ \A d \in Callers \ {c} : callers'[d] = callers[d]

LEMMA AwaitsGoesOn ==
  ASSUME callers \in [Callers -> CallerRecords], NEW c \in Callers, NEW next \in CallerRecords,
         NEW id \in Nat, Awaits(c, next, id)
  PROVE  GoesOn(c, next, id)
<1>1. PICK new : new = [next EXCEPT !.op = id]
  OBVIOUS
<1>2. new \in CallerRecords /\ new.pc = next.pc /\ new.ticket = next.ticket /\ new.op = id
  BY <1>1 DEF CallerRecords
<1>3. callers' = [callers EXCEPT ![c] = new]
  BY <1>1 DEF Awaits
<1> QED BY <1>2, <1>3 DEF GoesOn

LEMMA OverGoesOn ==
  ASSUME callers \in [Callers -> CallerRecords], NEW c \in Callers, NEW next \in CallerRecords, next.op = 0,
         NEW kind \in {"up", "down"}, RunOver(c, kind, next)
  PROVE  /\ GoesOn(c, next, 0)
         /\ callers'[c].ok = (kind = "down" \/ tracker.status = "subscribed")
<1>1. PICK ok \in BOOLEAN : ok = (kind = "down" \/ tracker.status = "subscribed")
  OBVIOUS
<1>2. PICK new : new = [next EXCEPT !.ok = ok]
  OBVIOUS
<1>3. new \in CallerRecords /\ new.pc = next.pc /\ new.ticket = next.ticket /\ new.op = 0 /\ new.ok = ok
  BY <1>2 DEF CallerRecords
<1>4. callers' = [callers EXCEPT ![c] = new]
  BY <1>1, <1>2 DEF RunOver
<1> QED BY <1>1, <1>3, <1>4 DEF GoesOn

\* What RunOperation does to the operations and to its caller.
RunSteps(c, kind, next) ==
  \/ RunShared(c, kind, next) /\ GoesOn(c, next, lastOp)
  \/ RunQueued(c, kind, next) /\ GoesOn(c, next, opCount + 1)
  \/ RunOver(c, kind, next) /\ GoesOn(c, next, 0)
       /\ callers'[c].ok = (kind = "down" \/ tracker.status = "subscribed")
  \/ RunBegun(c, kind, next) /\ GoesOn(c, next, opCount + 1)

LEMMA RunsOn ==
  ASSUME TypeInv, WellOrdered, Chained, NEW c \in Callers, NEW kind \in {"up", "down"},
         NEW next \in CallerRecords, next.op = 0, RunOperation(c, kind, next)
  PROVE  RunSteps(c, kind, next)
<1>1. callers \in [Callers -> CallerRecords] /\ lastOp \in Nat /\ opCount + 1 \in Nat
  BY DEF TypeInv
<1>2. CASE RunShared(c, kind, next)
  BY <1>1, <1>2, AwaitsGoesOn DEF RunSteps, RunShared
<1>3. CASE RunQueued(c, kind, next)
  BY <1>1, <1>3, AwaitsGoesOn DEF RunSteps, RunQueued
<1>4. CASE RunOver(c, kind, next)
  BY <1>1, <1>4, OverGoesOn DEF RunSteps
<1>5. CASE RunBegun(c, kind, next)
  BY <1>1, <1>5, AwaitsGoesOn DEF RunSteps, RunBegun
<1> QED BY <1>2, <1>3, <1>4, <1>5, Runs

OpsInv == WellOrdered /\ Chained /\ OwnInv /\ HeldFits /\ TrackFits /\ SweepInv
KindOf(at) == IF at \in {"admitting", "resync"} THEN "up" ELSE "down"

LEMMA RunKeepsOps ==
  ASSUME TypeInv, OpsInv, NEW c \in Callers, callers[c].op = 0, NEW next \in CallerRecords,
         RunSteps(c, KindOf(next.pc), next), UNCHANGED subSame
  PROVE  OpsInv' /\ ops' \subseteq Operations /\ lastOp' \in Nat /\ opCount' \in Nat
         /\ tracker' \in [status : {"none", "joining", "subscribed", "leaving", "dirty"}, ticket : Nat]
<1> DEFINE kind == KindOf(next.pc)
           at == IF kind = "up" THEN "chat" ELSE "leave"
           fresh == Operation(opCount + 1, kind, at, 0)
           behind == Operation(opCount + 1, kind, "queued", lastOp)
<1>0. /\ kind \in {"up", "down"} /\ opCount \in Nat /\ lastOp \in Nat /\ subEpoch \in Nat
      /\ ops \subseteq Operations /\ subEpoch' = subEpoch /\ held' = held /\ needs' = needs /\ sweeps' = sweeps
      /\ \A o \in ops : o.id \in Nat /\ o.id # 0 /\ o.after \in Nat /\ o.epoch \in Nat
  BY DEF KindOf, TypeInv, Operations, subSame
<1>a. /\ fresh \in Operations /\ fresh.id = opCount + 1 /\ fresh.kind = kind /\ fresh.epoch = subEpoch
      /\ fresh.pc = at /\ fresh.after = 0
  BY <1>0 DEF Operation, Operations, UpPcs
<1>b. /\ behind \in Operations /\ behind.id = opCount + 1 /\ behind.kind = kind /\ behind.epoch = subEpoch
      /\ behind.pc = "queued" /\ behind.after = lastOp
  BY <1>0 DEF Operation, Operations
<1>s. \A i \in DOMAIN sweeps : sweeps[i].ticket \in Nat
  <2>1. \A i \in DOMAIN sweeps : sweeps[i] \in Sweeps
    BY DEF TypeInv
  <2> QED BY <2>1 DEF Sweeps
<1> HIDE DEF fresh, behind, kind
\* Whoever awaited an operation still does, and c awaits the one it ran.
<1>o. ASSUME NEW id \in Nat, GoesOn(c, next, id), ops' \subseteq ops \cup {fresh, behind}, ops \subseteq ops',
             id # 0 => \E o \in ops' : o.id = id /\ o.kind = kind /\ o.epoch = subEpoch,
             \A o \in ops' \ ops : o.id = id,
             \A o, p \in ops' : o.id = p.id => o = p
      PROVE  OwnInv'
  <2>1. \A d \in Callers : callers[d].op # 0 => d # c /\ callers'[d] = callers[d]
    BY <1>o DEF GoesOn
  <2>2. \A o \in ops' : \E d \in Callers : callers'[d].op = o.id
    <3>1. ASSUME NEW o \in ops PROVE \E d \in Callers : callers'[d].op = o.id
      <4>1. PICK d \in Callers : callers[d].op = o.id
        BY DEF OpsInv, OwnInv
      <4> QED BY <1>0, <2>1, <4>1
    <3>2. ASSUME NEW o \in ops', o \notin ops PROVE \E d \in Callers : callers'[d].op = o.id
      BY <1>o, <3>2 DEF GoesOn
    <3> QED BY <3>1, <3>2
  <2>3. \A d \in Callers : callers'[d].op # 0 =>
          \E o \in ops' : o.id = callers'[d].op /\ o.kind = KindOf(callers'[d].pc)
    <3>1. CASE callers'[c].op = 0
      BY <1>o, <2>1, <3>1 DEF OpsInv, OwnInv, KindOf, GoesOn
    <3>2. id # 0 => \E o \in ops' : o.id = callers'[c].op /\ o.kind = KindOf(callers'[c].pc)
      BY <1>o DEF GoesOn, kind
    <3>3. ASSUME NEW d \in Callers \ {c}, callers'[d].op # 0
          PROVE  \E o \in ops' : o.id = callers'[d].op /\ o.kind = KindOf(callers'[d].pc)
      BY <1>o, <3>3 DEF OpsInv, OwnInv, KindOf, GoesOn
    <3> QED BY <1>o, <3>2, <3>3 DEF GoesOn
  <2>4. ASSUME NEW o \in ops', o.epoch # subEpoch
        PROVE  callers'["boot"].op = o.id /\ callers'["loop"].op # o.id /\ callers'["stop"].op # o.id
    <3>1. o \in ops
      BY <1>o, <1>a, <1>b, <2>4
    <3>2. callers["boot"].op = o.id /\ callers["loop"].op # o.id /\ callers["stop"].op # o.id
      BY <2>4, <3>1 DEF OpsInv, OwnInv
    <3>3. callers'[c].op # o.id
      BY <1>0, <1>o, <2>4, <3>1 DEF GoesOn
    <3> QED BY <1>0, <2>1, <3>1, <3>2, <3>3, <1>o DEF GoesOn, Callers
  <2> QED BY <1>0, <2>2, <2>3, <2>4 DEF OwnInv, KindOf
<1>1. CASE RunShared(c, kind, next) /\ GoesOn(c, next, lastOp)
  <2>1. UNCHANGED <<ops, lastOp, opCount, tracker>>
        /\ \E o \in ops : o.id = lastOp /\ o.kind = kind /\ o.epoch = subEpoch
    BY <1>1 DEF RunShared
  <2>2. OwnInv'
    BY <1>0, <1>1, <1>o, <2>1 DEF OpsInv, WellOrdered
  <2> QED BY <1>0, <2>1, <2>2 DEF OpsInv, WellOrdered, Chained, HeldFits, TrackFits, SweepInv, OpIds, TypeInv
<1>2. CASE RunQueued(c, kind, next) /\ GoesOn(c, next, opCount + 1)
  <2>1. /\ ops' = ops \cup {behind} /\ lastOp' = opCount + 1 /\ opCount' = opCount + 1 /\ tracker' = tracker
        /\ lastOp # 0 /\ \E o \in ops : o.id = lastOp /\ o.kind # kind /\ o.epoch = subEpoch
    BY <1>2 DEF RunQueued, behind, kind
  <2>2. WellOrdered'
    BY <1>0, <1>b, <2>1 DEF OpsInv, WellOrdered, UpPcs
  <2>3. OwnInv'
    BY <1>0, <1>2, <1>b, <1>o, <2>1, <2>2 DEF WellOrdered
  <2>4. Chained'
    <3>1. ASSUME NEW o \in ops', NEW p \in ops', o.epoch = subEpoch, p.epoch = subEpoch, p.id < o.id
          PROVE  /\ o.pc = "queued" /\ p.id <= o.after
                 /\ \E q \in ops' : q.id = o.after /\ q.epoch = subEpoch
      BY <1>0, <1>b, <2>1, <3>1 DEF OpsInv, Chained, WellOrdered
    <3> QED BY <1>0, <1>b, <2>1, <3>1 DEF OpsInv, Chained, WellOrdered
  <2>5. HeldFits'
    BY <1>0, <2>1 DEF OpsInv, HeldFits
  <2>6. TrackFits'
    <3>1. OpIds \subseteq OpIds' /\ lastOp \in OpIds'
      BY <2>1 DEF OpIds
    <3> QED BY <1>0, <1>b, <2>1, <3>1 DEF OpsInv, TrackFits, UpPcs, TypeInv
  <2>7. SweepInv'
    BY <1>0, <1>b, <1>s, <2>1 DEF OpsInv, SweepInv
  <2> QED BY <1>0, <1>b, <2>1, <2>2, <2>3, <2>4, <2>5, <2>6, <2>7 DEF OpsInv, TypeInv
<1>3. CASE RunOver(c, kind, next) /\ GoesOn(c, next, 0)
  <2>1. UNCHANGED <<ops, lastOp, tracker>> /\ opCount' = opCount + 1
    BY <1>3 DEF RunOver
  <2>2. OwnInv'
    BY <1>0, <1>3, <1>o, <2>1 DEF OpsInv, WellOrdered
  <2>3. WellOrdered' /\ Chained' /\ HeldFits'
    BY <1>0, <2>1 DEF OpsInv, WellOrdered, Chained, HeldFits, OpIds
  <2>4. TrackFits'
    BY <1>0, <2>1 DEF OpsInv, TrackFits, TypeInv, OpIds
  <2>5. SweepInv'
    BY <1>0, <1>s, <2>1 DEF OpsInv, SweepInv
  <2> QED BY <1>0, <2>1, <2>2, <2>3, <2>4, <2>5 DEF OpsInv, TypeInv
<1>4. CASE RunBegun(c, kind, next) /\ GoesOn(c, next, opCount + 1)
  <2>1. /\ ops' = ops \cup {fresh} /\ lastOp' = opCount + 1 /\ opCount' = opCount + 1 /\ lastOp = 0
        /\ tracker' = [status |-> IF kind = "up" THEN "joining" ELSE "leaving", ticket |-> opCount + 1]
        /\ tracker.status = IF kind = "up" THEN "none" ELSE "subscribed"
    BY <1>4 DEF RunBegun, Claimable, fresh, kind
  <2>2. \A o \in ops : o.epoch # subEpoch
    BY <2>1 DEF OpsInv, Chained
  <2>3. WellOrdered'
    BY <1>0, <1>a, <2>1 DEF OpsInv, WellOrdered, UpPcs
  <2>4. OwnInv'
    BY <1>0, <1>4, <1>a, <1>o, <2>1, <2>3 DEF WellOrdered
  <2>5. Chained'
    BY <1>0, <1>a, <2>1, <2>2 DEF OpsInv, Chained, WellOrdered
  <2>6. HeldFits' /\ TrackFits'
    <3>1. HeldFits'
      BY <1>0, <2>1 DEF OpsInv, HeldFits
    <3>2. \A o \in ops : o.id # opCount + 1
      BY <1>0 DEF OpsInv, WellOrdered
    <3> QED BY <1>0, <1>a, <2>1, <2>2, <3>1, <3>2 DEF OpsInv, HeldFits, TrackFits, UpPcs
  <2>7. SweepInv'
    BY <1>0, <1>a, <1>s, <2>1, <2>2 DEF OpsInv, SweepInv
  <2>8. tracker' \in [status : {"none", "joining", "subscribed", "leaving", "dirty"}, ticket : Nat]
    BY <1>0, <2>1
  <2> QED BY <1>0, <1>a, <2>1, <2>3, <2>4, <2>5, <2>6, <2>7, <2>8 DEF OpsInv
<1> QED BY <1>1, <1>2, <1>3, <1>4 DEF RunSteps, kind

----------------------------------------------------------------------------
(* An operation's steps.                                                   *)

\* No older operation of the session is left.
IsOldest(op) == \A p \in ops : op.epoch = subEpoch /\ p.epoch = subEpoch => op.id <= p.id

LEMMA OldestFirst ==
  ASSUME TypeInv, Chained, NEW op \in ops, op.pc # "queued" \/ op.after \notin OpIds
  PROVE  IsOldest(op)
<1>1. \A o \in ops : o.id \in Nat
  BY DEF TypeInv, Operations
<1> QED BY <1>1 DEF Chained, IsOldest, OpIds

\* Those that await the operation go on, and nobody else.
SettledFor(c, op, ok) ==
  /\ callers'[c] \in CallerRecords /\ callers'[c].pc = callers[c].pc /\ callers'[c].ticket = callers[c].ticket
  /\ callers[c].op = op.id => callers'[c].op = 0 /\ callers'[c].ok = ok
  /\ callers[c].op # op.id => callers'[c] = callers[c]

LEMMA SettledCallers ==
  ASSUME TypeInv, NEW op \in ops, NEW ok \in BOOLEAN, Settled(op, ok)
  PROVE  callers' \in [Callers -> CallerRecords] /\ \A c \in Callers : SettledFor(c, op, ok)
<1>1. ASSUME NEW c \in Callers PROVE SettledFor(c, op, ok)
  <2>1. callers[c] \in CallerRecords
    BY DEF TypeInv
  <2>2. PICK new : new = [callers[c] EXCEPT !.op = 0, !.ok = ok]
    OBVIOUS
  <2>3. new \in CallerRecords /\ new.pc = callers[c].pc /\ new.ticket = callers[c].ticket
        /\ new.op = 0 /\ new.ok = ok
    BY <2>1, <2>2 DEF CallerRecords
  <2>4. callers'[c] = IF callers[c].op = op.id THEN new ELSE callers[c]
    BY <2>2 DEF Settled
  <2> QED BY <2>1, <2>3, <2>4 DEF SettledFor
<1> QED BY <1>1 DEF Settled, SettledFor

\* How the tracker, and the topics, come out of it.
NothingToDo(op, ok) ==
  /\ UNCHANGED <<tracker, held, needs>>
  /\ op.epoch # subEpoch => (op.kind = "up" => ~ok)
  /\ op.epoch = subEpoch => /\ op.pc = "queued"
                            /\ op.kind = "up" => ok = (tracker.status = "subscribed")
                            /\ op.kind = "down" => tracker.status # "subscribed"
Joined(op, ok) ==
  /\ op.epoch = subEpoch /\ op.pc \in UpPcs /\ ok /\ Awaiting
  /\ tracker' = [status |-> "subscribed", ticket |-> op.id] /\ held' = Topics2 /\ needs' = needs
Released(op, ok) ==
  /\ op.epoch = subEpoch /\ op.pc # "queued" /\ (op.kind = "up" => ~ok) /\ Awaiting
  /\ \/ tracker' = Untracked /\ held' = {} /\ needs' = needs
     \/ tracker' = [status |-> "dirty", ticket |-> op.id] /\ held' \subseteq Topics2 /\ needs' = TRUE

SpentGrows ==
  /\ spent' \in [{"events", "boots", "reconnects", "runs", "failures"} -> Nat]
  /\ spent'.reconnects = spent.reconnects
  /\ spent'.failures = 0 => spent.failures = 0

SettleStep(op, ok) ==
  /\ Settled(op, ok) /\ IsOldest(op)
  /\ NothingToDo(op, ok) \/ Joined(op, ok) \/ Released(op, ok)
  /\ UNCHANGED <<phase, roster, tickets, inFlight, runs, subEpoch, opCount, sweeps, reports>> /\ SpentGrows

\* An operation of the session claims the room, or goes on with its topics.
AdvanceStep(op, new) ==
  /\ op.epoch = subEpoch /\ IsOldest(op)
  /\ new \in Operations /\ new.id = op.id /\ new.kind = op.kind /\ new.epoch = subEpoch
  /\ ops' = (ops \ {op}) \cup {new}
  /\ \/ /\ new.pc \in UpPcs /\ new.kind = "up" /\ tracker' = [status |-> "joining", ticket |-> op.id]
        /\ held' = IF new.pc = "chat" THEN {} ELSE {"chat"}
        /\ tracker.status \in {"none", "joining"}
     \/ /\ new.pc = "leave" /\ new.kind = "down" /\ tracker' = [status |-> "leaving", ticket |-> op.id]
        /\ held' = held /\ tracker.status = "subscribed"
  /\ UNCHANGED <<phase, roster, tickets, inFlight, callers, runs, needs, subEpoch, lastOp, opCount, sweeps, reports>>
  /\ SpentGrows

LEMMA Spending ==
  ASSUME TypeInv, NEW what \in {"events", "boots", "runs", "failures"}, NEW bound, Spend(what, bound) \/ UNCHANGED spent
  PROVE  SpentGrows
<1>1. CASE UNCHANGED spent
  BY <1>1 DEF TypeInv, SpentGrows
<1>2. CASE Spend(what, bound)
  BY <1>2 DEF TypeInv, SpentGrows, Spend
<1> QED BY <1>1, <1>2

OpStep(op) ==
  \/ OpStarts(op)
  \/ /\ Awaiting
     /\ \/ \E ok \in BOOLEAN : ChatJoins(op, ok) \/ ParticipantsJoin(op, ok) \/ RollsBack(op, ok)
        \/ \E left \in SUBSET Topics2 : Leaves(op, left)

LEMMA OpOutcomes ==
  ASSUME TypeInv, OpsInv, NEW op \in ops, OpStep(op)
  PROVE  \/ \E ok \in BOOLEAN : SettleStep(op, ok)
         \/ \E new \in Operations : AdvanceStep(op, new)
<1>0. /\ op \in Operations /\ subEpoch \in Nat /\ held \subseteq Topics2
      /\ tracker \in [status : {"none", "joining", "subscribed", "leaving", "dirty"}, ticket : Nat]
      /\ op.epoch = subEpoch \/ op.epoch # subEpoch
  BY DEF TypeInv
<1>k. /\ op.pc \in UpPcs => op.kind = "up"
      /\ op.pc = "leave" => op.kind = "down"
      /\ op.pc = "queued" => op.epoch = subEpoch
      /\ op.epoch # subEpoch => tracker.ticket # op.id
  BY DEF OpsInv, WellOrdered, TrackFits
<1>t. op.epoch = subEpoch =>
        /\ op.pc \in UpPcs => tracker = [status |-> "joining", ticket |-> op.id]
                              /\ held = IF op.pc = "chat" THEN {} ELSE {"chat"}
        /\ op.pc = "leave" => tracker = [status |-> "leaving", ticket |-> op.id] /\ held = Topics2
  BY DEF OpsInv, TrackFits, HeldFits
<1>f. Fails(op) \/ UNCHANGED spent => SpentGrows
  BY Spending DEF Fails
<1>1. CASE OpStarts(op)
  <2>1. /\ op.pc = "queued" /\ op.after \notin OpIds /\ IsOldest(op) /\ SpentGrows
        /\ UNCHANGED <<phase, roster, tickets, inFlight, runs, needs, subEpoch, opCount, held, sweeps, reports>>
    BY <1>1, <1>f, OldestFirst DEF OpStarts, OpsInv
  <2>2. CASE Claimable(op.kind)
    <3> DEFINE new == Operation(op.id, op.kind, IF op.kind = "up" THEN "chat" ELSE "leave", 0)
    <3>1. /\ new \in Operations /\ new.id = op.id /\ new.kind = op.kind /\ new.epoch = subEpoch
          /\ new.pc = IF op.kind = "up" THEN "chat" ELSE "leave"
      BY <1>0 DEF Operation, Operations, UpPcs
    <3>2. /\ tracker' = [status |-> IF op.kind = "up" THEN "joining" ELSE "leaving", ticket |-> op.id]
          /\ ops' = (ops \ {op}) \cup {new} /\ UNCHANGED <<lastOp, callers>>
      BY <1>0, <1>1, <2>2 DEF OpStarts, Claim, Claimable, Replace, Operations
    <3> HIDE DEF new
    <3>3. AdvanceStep(op, new)
      BY <1>0, <1>k, <2>1, <2>2, <3>1, <3>2 DEF AdvanceStep, Claimable, OpsInv, HeldFits, UpPcs, Operations
    <3> QED BY <3>1, <3>3
  <2>3. CASE ~Claimable(op.kind)
    <3>1. PICK ok \in BOOLEAN : ok = (op.kind = "down" \/ tracker.status = "subscribed")
      OBVIOUS
    <3>2. tracker' = tracker /\ Settled(op, ok)
      BY <1>0, <1>1, <2>3, <3>1 DEF OpStarts, Claim, Claimable, Operations
    <3>3. NothingToDo(op, ok)
      BY <1>0, <1>k, <2>1, <2>3, <3>1, <3>2 DEF NothingToDo, Claimable
    <3> QED BY <2>1, <3>2, <3>3 DEF SettleStep
  <2> QED BY <2>2, <2>3
<1>s. op.pc # "queued" => IsOldest(op)
  BY OldestFirst DEF OpsInv
<1>2. ASSUME Awaiting, NEW ok \in BOOLEAN, ChatJoins(op, ok)
      PROVE  (\E k \in BOOLEAN : SettleStep(op, k)) \/ \E new \in Operations : AdvanceStep(op, new)
  <2>0. /\ op.pc = "chat" /\ op.pc \in UpPcs /\ IsOldest(op) /\ SpentGrows
        /\ UNCHANGED <<phase, roster, tickets, inFlight, runs, needs, subEpoch, opCount, sweeps, reports>>
    BY <1>2, <1>f, <1>s DEF ChatJoins, UpPcs
  <2>1. CASE ok
    <3> DEFINE new == [op EXCEPT !.pc = "participants"]
    <3>1. new \in Operations /\ new.id = op.id /\ new.kind = op.kind /\ new.epoch = op.epoch /\ new.pc = "participants"
      BY <1>0 DEF Operations, UpPcs
    <3>2. /\ op.epoch = subEpoch /\ held' = held \cup {"chat"} /\ ops' = (ops \ {op}) \cup {new}
          /\ UNCHANGED <<tracker, lastOp, callers>>
      BY <1>2, <2>1 DEF ChatJoins, Fresh, Replace
    <3> HIDE DEF new
    <3>3. AdvanceStep(op, new)
      BY <1>k, <1>t, <2>0, <3>1, <3>2 DEF AdvanceStep, UpPcs
    <3> QED BY <3>1, <3>3
  <2>2. CASE ~ok
    <3>1. /\ Settled(op, FALSE) /\ held' = held
          /\ tracker' = IF op.epoch = subEpoch /\ tracker.ticket = op.id THEN Untracked ELSE tracker
      BY <1>2, <2>2 DEF ChatJoins, Fresh
    <3>2. CASE op.epoch = subEpoch
      <4>1. Released(op, FALSE)
        BY <1>2, <1>t, <2>0, <3>1, <3>2 DEF Released
      <4> QED BY <2>0, <3>1, <4>1 DEF SettleStep
    <3>3. CASE op.epoch # subEpoch
      <4>1. NothingToDo(op, FALSE)
        BY <2>0, <3>1, <3>3 DEF NothingToDo
      <4> QED BY <2>0, <3>1, <4>1 DEF SettleStep
    <3> QED BY <3>2, <3>3
  <2> QED BY <2>1, <2>2
<1>3. ASSUME Awaiting, NEW ok \in BOOLEAN, ParticipantsJoin(op, ok)
      PROVE  (\E k \in BOOLEAN : SettleStep(op, k)) \/ \E new \in Operations : AdvanceStep(op, new)
  <2>0. /\ op.pc = "participants" /\ op.pc \in UpPcs /\ IsOldest(op) /\ SpentGrows
        /\ UNCHANGED <<phase, roster, tickets, inFlight, runs, needs, subEpoch, opCount, sweeps, reports>>
    BY <1>3, <1>f, <1>s DEF ParticipantsJoin, UpPcs
  <2>1. CASE ok
    <3>1. op.epoch = subEpoch /\ Settled(op, TRUE) /\ held' = held \cup {"participants"}
          /\ tracker' = IF tracker.ticket = op.id THEN [tracker EXCEPT !.status = "subscribed"] ELSE tracker
      BY <1>3, <2>1 DEF ParticipantsJoin, Fresh
    <3>2. Joined(op, TRUE)
      BY <1>3, <1>t, <2>0, <3>1 DEF Joined, Topics2
    <3> QED BY <2>0, <3>1, <3>2 DEF SettleStep
  <2>2. CASE ~ok /\ op.epoch = subEpoch
    <3> DEFINE new == [op EXCEPT !.pc = "rollback"]
    <3>1. new \in Operations /\ new.id = op.id /\ new.kind = op.kind /\ new.epoch = op.epoch /\ new.pc = "rollback"
      BY <1>0 DEF Operations, UpPcs
    <3>2. ops' = (ops \ {op}) \cup {new} /\ UNCHANGED <<held, tracker, lastOp, callers>>
      BY <1>3, <2>2 DEF ParticipantsJoin, Fresh, Replace
    <3> HIDE DEF new
    <3>3. AdvanceStep(op, new)
      BY <1>k, <1>t, <2>0, <2>2, <3>1, <3>2 DEF AdvanceStep, UpPcs
    <3> QED BY <3>1, <3>3
  <2>3. CASE ~ok /\ op.epoch # subEpoch
    <3>1. Settled(op, FALSE) /\ UNCHANGED <<held, tracker>>
      BY <1>3, <2>3 DEF ParticipantsJoin, Fresh
    <3>2. NothingToDo(op, FALSE)
      BY <2>0, <2>3, <3>1 DEF NothingToDo
    <3> QED BY <2>0, <3>1, <3>2 DEF SettleStep
  <2> QED BY <2>1, <2>2, <2>3
<1>4. ASSUME Awaiting, NEW ok \in BOOLEAN, RollsBack(op, ok)
      PROVE  \E k \in BOOLEAN : SettleStep(op, k)
  <2>0. /\ op.pc = "rollback" /\ op.pc \in UpPcs /\ IsOldest(op) /\ SpentGrows /\ Settled(op, FALSE)
        /\ UNCHANGED <<phase, roster, tickets, inFlight, runs, subEpoch, opCount, sweeps, reports>>
    BY <1>4, <1>f, <1>s DEF RollsBack, UpPcs
  <2>1. CASE op.epoch = subEpoch
    <3>1. tracker.ticket = op.id /\ held = {"chat"}
      BY <1>t, <2>0, <2>1
    <3>2. /\ held' = IF ok THEN held \ {"chat"} ELSE held
          /\ tracker' = IF ok THEN Untracked ELSE [tracker EXCEPT !.status = "dirty"]
          /\ needs' = (needs \/ ~ok)
      BY <1>4, <2>1, <3>1 DEF RollsBack, Fresh
    <3>3. Released(op, FALSE)
      BY <1>0, <1>4, <2>0, <2>1, <3>1, <3>2 DEF Released, Topics2, TypeInv
    <3> QED BY <2>0, <3>3 DEF SettleStep
  <2>2. CASE op.epoch # subEpoch
    <3>1. UNCHANGED <<tracker, held, needs>>
      BY <1>4, <1>k, <2>2 DEF RollsBack, Fresh
    <3>2. NothingToDo(op, FALSE)
      BY <2>0, <2>2, <3>1 DEF NothingToDo
    <3> QED BY <2>0, <3>2 DEF SettleStep
  <2> QED BY <2>1, <2>2
<1>5. ASSUME Awaiting, NEW left \in SUBSET Topics2, Leaves(op, left)
      PROVE  \E k \in BOOLEAN : SettleStep(op, k)
  <2>0. /\ op.pc = "leave" /\ op.kind = "down" /\ IsOldest(op) /\ SpentGrows /\ Settled(op, left = Topics2)
        /\ UNCHANGED <<phase, roster, tickets, inFlight, runs, subEpoch, opCount, sweeps, reports>>
    BY <1>5, <1>f, <1>k, <1>s DEF Leaves
  <2>1. CASE op.epoch = subEpoch
    <3>1. tracker.ticket = op.id /\ held = Topics2
      BY <1>t, <2>0, <2>1
    <3>2. /\ held' = held \ left
          /\ tracker' = IF left = Topics2 THEN Untracked ELSE [tracker EXCEPT !.status = "dirty"]
          /\ needs' = (needs \/ left # Topics2)
      BY <1>5, <2>1, <3>1 DEF Leaves, Fresh
    <3>3. Released(op, left = Topics2)
      BY <1>0, <1>5, <2>0, <2>1, <3>1, <3>2 DEF Released, TypeInv
    <3> QED BY <2>0, <3>3 DEF SettleStep
  <2>2. CASE op.epoch # subEpoch
    <3>1. UNCHANGED <<tracker, held, needs>>
      BY <1>5, <1>k, <2>2 DEF Leaves, Fresh
    <3>2. NothingToDo(op, left = Topics2)
      BY <2>0, <2>2, <3>1 DEF NothingToDo
    <3> QED BY <2>0, <3>2 DEF SettleStep
  <2> QED BY <2>1, <2>2
<1> QED BY <1>1, <1>2, <1>3, <1>4, <1>5 DEF OpStep

LEMMA SettleKeepsOps ==
  ASSUME TypeInv, OpsInv, NEW op \in ops, NEW ok \in BOOLEAN, SettleStep(op, ok)
  PROVE  TypeInv' /\ OpsInv'
<1>0. /\ op \in Operations /\ subEpoch \in Nat /\ lastOp \in Nat /\ opCount \in Nat
      /\ ops \subseteq Operations /\ ops' = ops \ {op} /\ lastOp' = IF lastOp = op.id THEN 0 ELSE lastOp
      /\ UNCHANGED <<phase, roster, tickets, inFlight, runs, subEpoch, opCount, sweeps, reports>>
      /\ \A o \in ops : o.id \in Nat /\ o.id # 0 /\ o.after \in Nat /\ o.epoch \in Nat
  BY DEF TypeInv, SettleStep, Settled, Operations
<1>1. callers' \in [Callers -> CallerRecords] /\ \A c \in Callers : SettledFor(c, op, ok)
  BY SettledCallers DEF SettleStep
<1>2. op.epoch = subEpoch => \A p \in ops' : p.epoch = subEpoch => op.id < p.id
  BY <1>0 DEF SettleStep, IsOldest, OpsInv, WellOrdered
\* What the tracker comes to, for those that are left.
<1>3. /\ tracker' \in [status : {"none", "joining", "subscribed", "leaving", "dirty"}, ticket : Nat]
      /\ held' \subseteq Topics2 /\ needs' \in BOOLEAN
  <2>1. CASE NothingToDo(op, ok)
    BY <2>1 DEF NothingToDo, TypeInv
  <2>2. CASE Joined(op, ok)
    BY <1>0, <2>2 DEF Joined, TypeInv, Operations
  <2>3. CASE Released(op, ok)
    <3>1. CASE tracker' = Untracked /\ held' = {} /\ needs' = needs
      BY <3>1 DEF TypeInv, Untracked
    <3>2. CASE tracker' = [status |-> "dirty", ticket |-> op.id] /\ held' \subseteq Topics2 /\ needs' = TRUE
      BY <1>0, <3>2 DEF Operations
    <3> QED BY <2>3, <3>1, <3>2 DEF Released
  <2> QED BY <2>1, <2>2, <2>3 DEF SettleStep
<1>4. HeldFits'
  <2>1. CASE NothingToDo(op, ok)
    BY <2>1 DEF NothingToDo, OpsInv, HeldFits
  <2>2. CASE Joined(op, ok)
    <3>1. tracker.status = "joining"
      BY <2>2 DEF Joined, OpsInv, TrackFits
    <3> QED BY <2>2, <3>1 DEF Joined, OpsInv, HeldFits
  <2>3. CASE Released(op, ok)
    <3>1. tracker.status \in {"joining", "leaving"}
      BY <1>0, <2>3 DEF Released, OpsInv, TrackFits, Operations
    <3>2. CASE tracker' = Untracked /\ held' = {} /\ needs' = needs
      BY <3>1, <3>2 DEF OpsInv, HeldFits, Untracked
    <3>3. CASE tracker' = [status |-> "dirty", ticket |-> op.id] /\ needs' = TRUE
      BY <3>3 DEF HeldFits
    <3> QED BY <2>3, <3>2, <3>3 DEF Released
  <2> QED BY <2>1, <2>2, <2>3 DEF SettleStep
<1>w. ASSUME NEW o \in ops', o.kind = "up", o.pc = "queued", o.after \notin OpIds'
      PROVE  tracker'.status # "subscribed"
  <2>1. CASE o.after \in OpIds
    <3>1. PICK q \in ops : q.id = o.after
      BY <2>1 DEF OpIds
    <3>2. q = op
      BY <1>0, <1>w, <3>1 DEF OpIds
    <3>3. op.epoch = subEpoch /\ op.kind = "down"
      BY <1>0, <1>w, <3>1, <3>2 DEF OpsInv, Chained, Operations
    <3> QED BY <3>3 DEF SettleStep, NothingToDo, Joined, Released, Untracked, OpsInv, WellOrdered
  <2>2. CASE o.after \notin OpIds
    <3>1. ~Awaiting /\ tracker.status # "subscribed"
      BY <1>0, <1>w, <2>2 DEF Awaiting, OpsInv, TrackFits
    <3> QED BY <3>1 DEF SettleStep, NothingToDo, Joined, Released
  <2> QED BY <2>1, <2>2
<1>5. TrackFits'
  <2>1. CASE NothingToDo(op, ok)
    <3>1. \A o \in ops : o.epoch = subEpoch /\ o.pc \in UpPcs \cup {"leave"} => o \in ops'
      BY <1>0, <2>1 DEF NothingToDo, UpPcs
    <3> QED BY <1>0, <1>w, <2>1, <3>1 DEF NothingToDo, OpsInv, TrackFits
  <2>2. CASE ~NothingToDo(op, ok)
    <3>1. op.epoch = subEpoch /\ tracker'.ticket \in {0, op.id} /\ tracker'.status \in {"none", "subscribed", "dirty"}
      BY <2>2 DEF SettleStep, Joined, Released, Untracked
    <3>2. \A o \in ops' : o.epoch = subEpoch => o.pc = "queued"
      BY <1>0, <1>2, <3>1 DEF OpsInv, Chained
    <3>3. \A o \in ops' : o.id # op.id /\ o.id # 0
      BY <1>0 DEF OpsInv, WellOrdered
    <3> QED BY <1>0, <1>w, <3>1, <3>2, <3>3 DEF TrackFits, UpPcs, OpsInv, WellOrdered
  <2> QED BY <2>1, <2>2
<1>6. SweepInv'
  <2>1. \A i \in DOMAIN sweeps : sweeps[i].stage = "leaving" /\ sweeps[i].epoch = subEpoch => tracker'.status = "dirty"
    <3>1. CASE NothingToDo(op, ok)
      BY <3>1 DEF NothingToDo, OpsInv, SweepInv
    <3>2. CASE ~NothingToDo(op, ok)
      <4>1. op.epoch = subEpoch /\ op.pc \in UpPcs \cup {"leave"}
        BY <1>0, <3>2 DEF SettleStep, Joined, Released, Operations
      <4> QED BY <4>1 DEF OpsInv, TrackFits, SweepInv
    <3> QED BY <3>1, <3>2
  <2> QED BY <1>0, <2>1 DEF OpsInv, SweepInv
<1>7. WellOrdered'
  BY <1>0 DEF OpsInv, WellOrdered
<1>8. Chained'
  <2>1. ASSUME NEW o \in ops', NEW p \in ops', o.epoch = subEpoch, p.epoch = subEpoch, p.id < o.id
        PROVE  /\ o.pc = "queued" /\ p.id <= o.after
               /\ \E q \in ops' : q.id = o.after /\ q.epoch = subEpoch
    <3>1. PICK q \in ops : o.pc = "queued" /\ p.id <= o.after /\ q.id = o.after /\ q.epoch = subEpoch
      BY <1>0, <2>1 DEF OpsInv, Chained
    <3>2. q # op
      BY <1>0, <1>2, <2>1, <3>1
    <3> QED BY <1>0, <3>1, <3>2
  <2>2. ASSUME NEW o \in ops', o.epoch = subEpoch PROVE lastOp' # 0 /\ o.id <= lastOp'
    <3>1. lastOp # 0 /\ o.id <= lastOp
      BY <1>0, <2>2 DEF OpsInv, Chained
    <3>2. lastOp # op.id
      <4> SUFFICES ASSUME lastOp = op.id PROVE FALSE
        OBVIOUS
      <4>1. PICK q \in ops : q.id = lastOp /\ q.epoch = subEpoch
        BY <3>1 DEF OpsInv, Chained
      <4>2. op.epoch = subEpoch
        BY <4>1 DEF OpsInv, WellOrdered
      <4> QED BY <1>0, <1>2, <2>2, <3>1, <4>2
    <3> QED BY <1>0, <3>1, <3>2
  <2>3. lastOp' # 0 => \E o \in ops' : o.id = lastOp' /\ o.epoch = subEpoch
    BY <1>0 DEF OpsInv, Chained
  <2> QED BY <1>0, <2>1, <2>2, <2>3 DEF OpsInv, Chained
<1>9. OwnInv'
  <2>1. \A o \in ops' : o.id # op.id
    BY <1>0 DEF OpsInv, WellOrdered
  <2>2. \A o \in ops' : \E c \in Callers : callers'[c].op = o.id
    <3> SUFFICES ASSUME NEW o \in ops' PROVE \E c \in Callers : callers'[c].op = o.id
      OBVIOUS
    <3>1. PICK c \in Callers : callers[c].op = o.id
      BY <1>0 DEF OpsInv, OwnInv
    <3> QED BY <1>1, <2>1, <3>1 DEF SettledFor
  <2>3. ASSUME NEW c \in Callers, callers'[c].op # 0
        PROVE  \E o \in ops' : /\ o.id = callers'[c].op
                               /\ o.kind = IF callers'[c].pc \in {"admitting", "resync"} THEN "up" ELSE "down"
    <3>1. callers[c].op # op.id /\ callers'[c] = callers[c]
      BY <1>1, <2>3 DEF SettledFor
    <3> QED BY <1>0, <2>3, <3>1 DEF OpsInv, OwnInv
  <2>4. ASSUME NEW o \in ops', o.epoch # subEpoch
        PROVE  callers'["boot"].op = o.id /\ callers'["loop"].op # o.id /\ callers'["stop"].op # o.id
    <3>1. callers["boot"].op = o.id /\ callers["loop"].op # o.id /\ callers["stop"].op # o.id
      BY <1>0, <2>4 DEF OpsInv, OwnInv
    <3> QED BY <1>0, <1>1, <2>1, <3>1 DEF SettledFor, Callers
  <2> QED BY <1>0, <2>2, <2>3, <2>4 DEF OwnInv
<1>10. TypeInv'
  BY <1>0, <1>1, <1>3 DEF TypeInv, SettleStep, SpentGrows
<1> QED BY <1>4, <1>5, <1>6, <1>7, <1>8, <1>9, <1>10 DEF OpsInv

LEMMA AdvanceKeepsOps ==
  ASSUME TypeInv, OpsInv, NEW op \in ops, NEW new \in Operations, AdvanceStep(op, new)
  PROVE  TypeInv' /\ OpsInv'
<1>0. /\ op \in Operations /\ subEpoch \in Nat /\ lastOp \in Nat /\ opCount \in Nat
      /\ ops \subseteq Operations /\ ops' = (ops \ {op}) \cup {new} /\ new.id = op.id /\ new.kind = op.kind
      /\ op.epoch = subEpoch /\ new.epoch = subEpoch /\ new.pc \in UpPcs \cup {"leave"}
      /\ UNCHANGED <<phase, roster, tickets, inFlight, callers, runs, needs, subEpoch, lastOp, opCount, sweeps, reports>>
      /\ \A o \in ops : o.id \in Nat /\ o.id # 0 /\ o.after \in Nat /\ o.epoch \in Nat
  BY DEF TypeInv, AdvanceStep, Operations
<1>1. /\ \A p \in ops : p # op => p.id # op.id
      /\ \A p \in ops : p # op /\ p.epoch = subEpoch => op.id < p.id
  BY <1>0 DEF AdvanceStep, IsOldest, OpsInv, WellOrdered
<1>2. /\ tracker'.ticket = op.id /\ tracker'.status \in {"joining", "leaving"}
      /\ tracker' \in [status : {"none", "joining", "subscribed", "leaving", "dirty"}, ticket : Nat]
      /\ held' \subseteq Topics2 /\ tracker.status \in {"none", "joining", "subscribed"}
  <2>1. CASE /\ tracker' = [status |-> "joining", ticket |-> op.id] /\ tracker.status \in {"none", "joining"}
             /\ held' = IF new.pc = "chat" THEN {} ELSE {"chat"}
    BY <1>0, <2>1 DEF Topics2, Operations
  <2>2. CASE tracker' = [status |-> "leaving", ticket |-> op.id] /\ tracker.status = "subscribed" /\ held' = held
    BY <1>0, <2>2 DEF TypeInv, Operations
  <2> QED BY <2>1, <2>2 DEF AdvanceStep
<1>3. WellOrdered'
  BY <1>0, <1>1 DEF OpsInv, WellOrdered, AdvanceStep, UpPcs
<1>4. Chained'
  <2>1. ASSUME NEW o \in ops', NEW p \in ops', o.epoch = subEpoch, p.epoch = subEpoch, p.id < o.id
        PROVE  /\ o.pc = "queued" /\ p.id <= o.after
               /\ \E q \in ops' : q.id = o.after /\ q.epoch = subEpoch
    <3>1. o # new /\ o \in ops
      BY <1>0, <1>1, <2>1
    <3>2. \E p0 \in ops : p0.epoch = subEpoch /\ p0.id = p.id
      BY <1>0, <2>1
    <3>3. PICK q \in ops : o.pc = "queued" /\ p.id <= o.after /\ q.id = o.after /\ q.epoch = subEpoch
      BY <2>1, <3>1, <3>2 DEF OpsInv, Chained
    <3> QED BY <1>0, <3>3
  <2>2. ASSUME NEW o \in ops', NEW q \in ops', o.pc = "queued", q.id = o.after
        PROVE  q.epoch = subEpoch /\ q.kind # o.kind
    <3>1. o \in ops /\ \E q0 \in ops : q0.id = q.id /\ q0.kind = q.kind /\ q0.epoch = q.epoch
      BY <1>0, <2>2 DEF UpPcs
    <3> QED BY <2>2, <3>1 DEF OpsInv, Chained
  <2> QED BY <1>0, <2>1, <2>2 DEF OpsInv, Chained
<1>5. OwnInv'
  BY <1>0 DEF OpsInv, OwnInv
<1>6. HeldFits'
  BY <1>0, <1>2 DEF OpsInv, HeldFits, AdvanceStep
<1>7. TrackFits'
  <2>1. \A o \in ops' : o.epoch = subEpoch => o = new \/ o.pc = "queued"
    BY <1>0, <1>1 DEF OpsInv, Chained
  <2>2. \A o \in ops' : o.epoch # subEpoch => o.id # op.id
    BY <1>0, <1>1
  <2> QED BY <1>0, <1>2, <2>1, <2>2 DEF TrackFits, AdvanceStep, UpPcs, OpsInv, WellOrdered
<1>8. SweepInv'
  <2>1. ~\E i \in DOMAIN sweeps : sweeps[i].stage = "leaving" /\ sweeps[i].epoch = subEpoch
    BY <1>2 DEF OpsInv, SweepInv
  <2> QED BY <1>0, <2>1 DEF OpsInv, SweepInv
<1>9. TypeInv'
  BY <1>0, <1>2 DEF TypeInv, AdvanceStep, SpentGrows
<1> QED BY <1>3, <1>4, <1>5, <1>6, <1>7, <1>8, <1>9 DEF OpsInv

----------------------------------------------------------------------------
(* The callers while an operation goes on.                                 *)

\* What the callers, the roster and the runtime keep to.
CallInv == ReconnectInv /\ CallerInv /\ PhaseInv /\ AdmitInv /\ RaceInv /\ AgreeInv

\* The loop's operations are the session's.
LEMMA LoopIsOfSession ==
  ASSUME OpsInv, callers["loop"].op # 0
  PROVE  OfSession("loop")
BY DEF OpsInv, OwnInv, OfSession, Callers

\* An operation that joins or releases the room finds every caller told of those before it.
LEMMA SettledInTime ==
  ASSUME CallerInv, Awaiting, NEW c \in Admitters, callers[c].pc \notin {"idle", "awaiting"}
  PROVE  callers[c].op # 0
BY DEF Awaiting, Admitters, Callers

LEMMA SettleKeepsCallers ==
  ASSUME TypeInv, OpsInv, CallInv, NEW op \in ops, NEW ok \in BOOLEAN, SettleStep(op, ok)
  PROVE  CallInv'
<1>0. /\ op \in Operations /\ op.id # 0 /\ ops' = ops \ {op} /\ ops \subseteq Operations
      /\ lastOp' = IF lastOp = op.id THEN 0 ELSE lastOp
      /\ UNCHANGED <<phase, roster, tickets, inFlight, runs, subEpoch, opCount, sweeps, reports>> /\ SpentGrows
      /\ \A p \in ops : p.id = op.id => p = op
      /\ \A c \in Callers : callers[c].op \in Nat
      /\ \A o \in ops : o.id \in Nat
  BY DEF TypeInv, SettleStep, Settled, Operations, CallerRecords, OpsInv, WellOrdered
<1>1. callers' \in [Callers -> CallerRecords] /\ \A c \in Callers : SettledFor(c, op, ok)
  BY SettledCallers DEF SettleStep
<1>2. \A c \in Callers : callers'[c].pc = callers[c].pc /\ callers'[c].ticket = callers[c].ticket
  BY <1>1 DEF SettledFor
<1>3. \A c \in Admitters : Mine(c)' = Mine(c)
  BY <1>0, <1>2 DEF Mine, Admitters, Callers
\* A subscribe that finds its session's operation done is told that it failed.
<1>4. op.epoch = subEpoch /\ op.kind = "up" =>
        \/ tracker'.status = "subscribed" /\ ok /\ Joined(op, ok)
        \/ tracker'.status \notin {"subscribed", "leaving"} /\ ~ok
  <2>1. CASE NothingToDo(op, ok) /\ op.epoch = subEpoch /\ op.kind = "up"
    <3>1. tracker.status # "subscribed"
      <4>1. op.pc = "queued"
        BY <2>1 DEF NothingToDo
      <4>2. op.after \notin OpIds
        <5> SUFFICES ASSUME NEW q \in ops, q.id = op.after PROVE FALSE
          BY DEF OpIds
        <5>1. q.epoch = subEpoch /\ q.id < op.id
          BY <4>1 DEF OpsInv, Chained, WellOrdered
        <5> QED BY <1>0, <2>1, <5>1 DEF SettleStep, IsOldest
      <4> QED BY <2>1, <4>1, <4>2 DEF OpsInv, TrackFits
    <3>2. tracker.status # "leaving"
      <4> SUFFICES ASSUME NEW o \in ops, o.epoch = subEpoch, o.pc = "leave" PROVE FALSE
        BY DEF OpsInv, TrackFits
      <4>1. o.id # op.id /\ op.id <= o.id
        BY <1>0, <2>1 DEF SettleStep, IsOldest, NothingToDo
      <4> QED BY <1>0, <2>1, <4>1 DEF OpsInv, Chained
    <3> QED BY <2>1, <3>1, <3>2 DEF NothingToDo
  <2>2. CASE Joined(op, ok)
    <3>1. tracker'.status = "subscribed" /\ ok
      BY <2>2 DEF Joined
    <3> QED BY <2>2, <3>1
  <2>3. CASE Released(op, ok)
    BY <2>3 DEF Released, Untracked
  <2> QED BY <2>1, <2>2, <2>3 DEF SettleStep
<1>5. op.epoch = subEpoch /\ op.kind = "down" => tracker'.status # "subscribed"
  BY DEF SettleStep, NothingToDo, Joined, Released, Untracked, OpsInv, WellOrdered
<1>6. op.epoch # subEpoch => UNCHANGED tracker /\ (op.kind = "up" => ~ok)
  BY DEF SettleStep, NothingToDo, Joined, Released
<1>7. ~Awaiting => UNCHANGED tracker
  BY DEF SettleStep, NothingToDo, Joined, Released
<1>8. \A c \in Callers : callers[c].op = op.id =>
        op.kind = IF callers[c].pc \in {"admitting", "resync"} THEN "up" ELSE "down"
  BY <1>0 DEF OpsInv, OwnInv
<1>9. ReconnectInv'
  BY <1>0, <1>2 DEF CallInv, ReconnectInv, SpentGrows, Callers
<1>10. CallerInv'
  <2>1. ASSUME NEW c \in Callers
        PROVE  /\ callers'[c].ticket <= tickets'
               /\ callers'[c].pc \in {"idle", "awaiting"} => callers'[c].op = 0
               /\ callers'[c].pc = "idle" => callers'[c] = Idle
    <3>1. callers[c].pc \in {"idle", "awaiting"} => callers'[c] = callers[c]
      BY <1>0, <1>1 DEF CallInv, CallerInv, SettledFor
    <3> QED BY <1>0, <1>2, <3>1 DEF CallInv, CallerInv
  <2> QED BY <1>2, <2>1 DEF CallInv, CallerInv, Callers
<1>11. PhaseInv'
  <2>1. ASSUME phase = "off"
        PROVE  /\ callers'["loop"] = Idle /\ callers'["stop"] = Idle /\ tracker'.status = "none" /\ lastOp' = 0
    <3>1. /\ callers["loop"] = Idle /\ callers["stop"] = Idle /\ tracker.status = "none" /\ lastOp = 0
      BY <2>1 DEF CallInv, PhaseInv
    <3>2. op.epoch # subEpoch
      BY <3>1 DEF OpsInv, Chained
    <3> QED BY <1>0, <1>1, <1>6, <3>1, <3>2 DEF SettledFor, Idle, Callers
  <2>2. callers["stop"].pc = "tearing" => callers'["loop"] = Idle
    BY <1>0, <1>1 DEF CallInv, PhaseInv, SettledFor, Idle, Callers
  <2> QED BY <1>0, <1>2, <2>1, <2>2 DEF CallInv, PhaseInv, Absent, Callers
<1>12. AdmitInv'
  <2>1. ASSUME NEW c \in Admitters, callers'[c].pc = "admitting", Mine(c)'
        PROVE  /\ callers'[c].op # 0 => OfSession(c)'
               /\ callers'[c].op = 0 /\ ~callers'[c].ok => tracker'.status \notin {"subscribed", "leaving"}
               /\ callers'[c].op = 0 /\ callers'[c].ok =>
                    tracker'.status = "leaving" \/ (tracker'.status = "subscribed" /\ Unjudged')
    <3>0. c \in Callers /\ callers[c].pc = "admitting" /\ Mine(c)
      BY <1>2, <1>3, <2>1 DEF Admitters, Callers
    <3>1. CASE callers[c].op = op.id
      <4>1. callers'[c].op = 0 /\ callers'[c].ok = ok
        BY <1>1, <3>0, <3>1 DEF SettledFor
      <4>2. op.epoch = subEpoch /\ op.kind = "up"
        BY <1>0, <1>8, <2>1, <3>0, <3>1 DEF CallInv, AdmitInv, OfSession
      <4>3. CASE ok /\ Joined(op, ok)
        <5>1. tracker' = [status |-> "subscribed", ticket |-> op.id] /\ UNCHANGED <<subEpoch, sweeps>>
          BY <1>0, <4>3 DEF Joined
        <5>2. Unjudged'
          BY <4>2, <5>1 DEF Unjudged, OpsInv, SweepInv
        <5> QED BY <4>1, <4>3, <5>1, <5>2
      <4>4. CASE tracker'.status \notin {"subscribed", "leaving"} /\ ~ok
        BY <4>1, <4>4
      <4> QED BY <1>4, <4>2, <4>3, <4>4
    <3>2. CASE callers[c].op # op.id /\ callers[c].op # 0
      <4>1. callers'[c] = callers[c]
        BY <1>1, <3>0, <3>2 DEF SettledFor
      <4>2. PICK o \in ops : o.id = callers[c].op /\ o.epoch = subEpoch
        BY <2>1, <3>0, <3>2 DEF CallInv, AdmitInv, OfSession
      <4>3. o \in ops'
        BY <1>0, <3>2, <4>2
      <4> QED BY <1>0, <3>2, <4>1, <4>2, <4>3 DEF OfSession
    <3>3. CASE callers[c].op = 0
      <4>1. callers'[c] = callers[c]
        BY <1>0, <1>1, <3>0, <3>3 DEF SettledFor
      <4>2. UNCHANGED <<tracker, sweeps, subEpoch>>
        BY <1>0, <1>7, <2>1, <3>0, <3>3, SettledInTime DEF CallInv
      <4> QED BY <2>1, <3>0, <3>3, <4>1, <4>2 DEF CallInv, AdmitInv, Unjudged
    <3> QED BY <3>1, <3>2, <3>3
  <2>2. ASSUME callers["boot"].op # 0, ~OfSession("boot")
        PROVE  \/ callers'["boot"].op # 0 /\ ~OfSession("boot")'
               \/ callers'["boot"].op = 0 /\ (callers["boot"].pc = "admitting" => ~callers'["boot"].ok)
    <3>1. CASE callers["boot"].op = op.id
      <4>1. op.epoch # subEpoch
        BY <2>2, <3>1 DEF OfSession
      <4> QED BY <1>1, <1>6, <1>8, <3>1, <4>1 DEF SettledFor, Callers
    <3>2. CASE callers["boot"].op # op.id
      BY <1>0, <1>1, <2>2, <3>2 DEF SettledFor, OfSession, Callers
    <3> QED BY <3>1, <3>2
  <2>3. callers["boot"].op = 0 => callers'["boot"] = callers["boot"]
    BY <1>0, <1>1 DEF SettledFor, Callers
  <2>4. /\ roster'.state = "admitting" => \E c \in Admitters : callers'[c].pc = "admitting" /\ Mine(c)'
        /\ callers'["loop"].pc = "admitting" => Mine("loop")'
        /\ callers'["loop"].pc = "resync" => roster'.state = "admitted"
    BY <1>0, <1>2, <1>3 DEF CallInv, AdmitInv, Admitters, Callers
  <2>5. callers'["boot"].pc = "admitting" /\ ~Mine("boot")' =>
          \/ callers'["stop"].pc = "tearing"
          \/ callers'["boot"].op # 0 /\ ~OfSession("boot")'
          \/ callers'["boot"].op = 0 /\ ~callers'["boot"].ok
    BY <1>2, <1>3, <2>2, <2>3 DEF CallInv, AdmitInv, Admitters, Callers
  <2>6. callers'["boot"].pc = "releasing" =>
          callers'["stop"].pc = "tearing" \/ callers'["boot"].op = 0 \/ ~OfSession("boot")'
    BY <1>0, <1>2, <2>2, <2>3 DEF CallInv, AdmitInv, Callers
  <2> QED BY <2>1, <2>4, <2>5, <2>6 DEF AdmitInv
<1>13. RaceInv'
  <2>1. callers["loop"].pc \in {"removing", "dropping"} /\ callers'["loop"].op = 0 => tracker'.status # "subscribed"
    <3> SUFFICES ASSUME callers["loop"].pc \in {"removing", "dropping"}, callers'["loop"].op = 0
                 PROVE  tracker'.status # "subscribed"
      OBVIOUS
    <3>1. CASE callers["loop"].op = op.id
      <4>1. op.kind = "down" /\ op.epoch = subEpoch
        BY <1>0, <1>8, <3>1, LoopIsOfSession DEF OfSession, Callers
      <4> QED BY <1>5, <4>1
    <3>2. CASE callers["loop"].op # op.id
      <4>1. callers["loop"].op = 0
        BY <1>1, <3>2 DEF SettledFor, Callers
      <4>2. UNCHANGED tracker
        BY <1>7, <4>1, SettledInTime DEF CallInv, Admitters
      <4> QED BY <4>1, <4>2 DEF CallInv, RaceInv
    <3> QED BY <3>1, <3>2
  <2>2. ASSUME callers["loop"].pc = "removing", callers'["loop"].op # 0, Absent
        PROVE  /\ tracker'.status # "subscribed"
               /\ \E o \in ops' : o.id = callers'["loop"].op /\ o.pc = "queued" /\ o.after \notin OpIds'
    <3>1. callers["loop"].op # op.id /\ callers'["loop"] = callers["loop"]
      BY <1>1, <2>2 DEF SettledFor, Callers
    <3>2. tracker.status # "subscribed"
      BY <2>2, <3>1 DEF CallInv, RaceInv
    <3>3. PICK o \in ops : o.id = callers["loop"].op /\ o.pc = "queued" /\ o.after \notin OpIds
      BY <2>2, <3>1 DEF CallInv, RaceInv
    <3>4. UNCHANGED tracker
      BY <1>7, <3>3 DEF Awaiting
    <3>5. o \in ops' /\ o.after \notin OpIds'
      BY <1>0, <3>1, <3>3 DEF OpIds
    <3> QED BY <3>1, <3>2, <3>3, <3>4, <3>5
  <2>3. ASSUME callers["loop"].pc = "removing", callers["boot"].pc = "admitting", Mine("boot"), callers'["boot"].op # 0
        PROVE  callers'["boot"].op < callers'["loop"].op
    <3>1. callers'["boot"] = callers["boot"] /\ callers["boot"].op # op.id
      BY <1>1, <2>3 DEF SettledFor, Callers
    <3>2. callers["boot"].op < callers["loop"].op /\ OfSession("boot")
      BY <2>3, <3>1 DEF CallInv, RaceInv, AdmitInv, Admitters
    <3>3. callers["loop"].op # op.id
      <4> SUFFICES ASSUME callers["loop"].op = op.id PROVE FALSE
        OBVIOUS
      <4>1. op.epoch = subEpoch
        BY <1>0, LoopIsOfSession DEF OfSession
      <4>2. PICK o \in ops : o.id = callers["boot"].op /\ o.epoch = subEpoch
        BY <3>2 DEF OfSession
      <4> QED BY <1>0, <3>2, <4>1, <4>2 DEF SettleStep, IsOldest
    <3> QED BY <1>1, <3>1, <3>2, <3>3 DEF SettledFor, Callers
  <2>4. ASSUME callers["loop"].pc = "dropping", callers["boot"].pc = "admitting", Mine("boot")
        PROVE  /\ callers'["boot"].op = 0 => ~callers'["boot"].ok
               /\ callers'["boot"].op # 0 /\ callers'["loop"].op # 0 => callers'["loop"].op < callers'["boot"].op
    <3>1. /\ callers["boot"].op = 0 => ~callers["boot"].ok
          /\ callers["boot"].op # 0 /\ callers["loop"].op # 0 => callers["loop"].op < callers["boot"].op
          /\ callers["boot"].op # 0 => OfSession("boot")
      BY <2>4 DEF CallInv, RaceInv, AdmitInv, Admitters
    <3>2. CASE callers["boot"].op = op.id
      <4>1. op.epoch = subEpoch /\ op.kind = "up" /\ callers'["boot"].op = 0 /\ callers'["boot"].ok = ok
        BY <1>0, <1>1, <1>8, <2>4, <3>1, <3>2 DEF SettledFor, OfSession, Callers
      <4>2. ~Joined(op, ok)
        <5> SUFFICES ASSUME Joined(op, ok) PROVE FALSE
          OBVIOUS
        <5>1. callers["loop"].op # 0
          BY <2>4, SettledInTime DEF Joined, CallInv, Admitters
        <5>2. PICK o \in ops : o.id = callers["loop"].op /\ o.epoch = subEpoch
          BY <5>1, LoopIsOfSession DEF OfSession
        <5> QED BY <1>0, <3>1, <3>2, <4>1, <5>1, <5>2 DEF SettleStep, IsOldest
      <4> QED BY <1>4, <4>1, <4>2
    <3>3. CASE callers["boot"].op # op.id
      <4>1. callers'["boot"] = callers["boot"]
        BY <1>1, <3>3 DEF SettledFor, Callers
      <4> QED BY <1>0, <1>1, <3>1, <4>1 DEF SettledFor, Callers
    <3> QED BY <3>2, <3>3
  <2>5. callers["loop"].pc = "dropping" => roster'.state # "admitted"
    BY <1>0 DEF CallInv, RaceInv
  <2> QED BY <1>0, <1>2, <1>3, <2>1, <2>2, <2>3, <2>4, <2>5 DEF RaceInv, Absent, Admitters, Callers
<1>14. AgreeInv'
  <2>1. ASSUME tracker'.status = "subscribed"
        PROVE  \/ roster'.state = "admitted"
               \/ \E c \in Admitters : callers'[c].pc = "admitting" /\ callers'[c].op = 0 /\ callers'[c].ok
               \/ \E o \in ops' : o.kind = "down" /\ o.epoch = subEpoch'
    <3>1. CASE op.epoch = subEpoch
      <4>1. op.kind = "up" /\ ok
        BY <1>0, <1>4, <1>5, <2>1, <3>1 DEF Operations
      <4>2. PICK c \in Callers : callers[c].op = op.id
        BY DEF OpsInv, OwnInv
      <4>3. callers[c].pc \in {"admitting", "resync"} /\ callers'[c].op = 0 /\ callers'[c].ok
        BY <1>1, <1>8, <4>1, <4>2 DEF SettledFor
      <4>4. CASE callers[c].pc = "resync"
        BY <1>0, <4>4 DEF CallInv, AdmitInv, CallerInv, Callers
      <4>5. CASE callers[c].pc = "admitting"
        <5>1. c \in Admitters
          BY <4>5 DEF CallInv, CallerInv, Callers, Admitters
        <5> QED BY <1>2, <4>3, <4>5, <5>1
      <4> QED BY <4>3, <4>4, <4>5
    <3>2. CASE op.epoch # subEpoch
      <4>1. UNCHANGED tracker
        BY <1>6, <3>2
      <4>2. CASE \E c \in Admitters : callers[c].pc = "admitting" /\ callers[c].op = 0 /\ callers[c].ok
        <5>1. PICK c \in Admitters : callers[c].pc = "admitting" /\ callers[c].op = 0 /\ callers[c].ok
          BY <4>2
        <5>2. callers'[c] = callers[c]
          BY <1>0, <1>1, <5>1 DEF SettledFor, Admitters, Callers
        <5> QED BY <5>1, <5>2
      <4>3. CASE \E o \in ops : o.kind = "down" /\ o.epoch = subEpoch
        BY <1>0, <3>2, <4>3
      <4>4. CASE roster.state = "admitted"
        BY <1>0, <4>4
      <4> QED BY <2>1, <4>1, <4>2, <4>3, <4>4 DEF CallInv, AgreeInv
    <3> QED BY <3>1, <3>2
  <2>2. ASSUME roster'.state = "admitted", spent'.failures = 0, spent'.reconnects = 0
        PROVE  tracker'.status = "subscribed" \/ callers["loop"].pc = "removing"
    <3>1. tracker.status = "subscribed" \/ callers["loop"].pc = "removing"
      BY <1>0, <2>2 DEF CallInv, AgreeInv, SpentGrows
    <3>2. CASE Released(op, ok)
      <4>1. tracker.status \in {"joining", "leaving"}
        BY <1>0, <3>2 DEF Released, OpsInv, TrackFits, Operations
      <4> QED BY <3>1, <4>1
    <3> QED BY <3>1, <3>2 DEF SettleStep, NothingToDo, Joined
  <2> QED BY <1>0, <1>2, <2>1, <2>2 DEF CallInv, AgreeInv, Callers
<1> QED BY <1>9, <1>10, <1>11, <1>12, <1>13, <1>14 DEF CallInv

\* Without a reconnect, only its removal has a room left that is in, or about to be.
LEMMA OnlyRemovalsLeave ==
  ASSUME TypeInv, OpsInv, CallInv, NEW op \in ops, op.kind = "down", op.epoch = subEpoch, roster.state # "absent"
  PROVE  callers["loop"].pc \in {"removing", "dropping"}
<1>1. PICK c \in Callers : callers[c].op = op.id
  BY DEF OpsInv, OwnInv
<1>2. callers[c].op # 0 /\ callers[c] \in CallerRecords
  BY <1>1 DEF TypeInv, Operations
<1>3. callers[c].pc \notin {"admitting", "resync", "idle", "awaiting"}
  <2>1. \E o \in ops : /\ o.id = callers[c].op
                       /\ o.kind = IF callers[c].pc \in {"admitting", "resync"} THEN "up" ELSE "down"
    BY <1>2 DEF OpsInv, OwnInv
  <2> QED BY <1>1, <1>2, <2>1 DEF OpsInv, WellOrdered, CallInv, CallerInv
<1>4. CASE c = "loop"
  BY <1>2, <1>3, <1>4 DEF CallInv, CallerInv, CallerRecords, CallerPcs
<1>5. CASE c = "boot"
  <2>1. OfSession("boot")
    BY <1>1, <1>5 DEF OfSession
  <2> QED BY <1>2, <1>3, <1>5, <2>1 DEF CallInv, CallerInv, AdmitInv, PhaseInv, Absent
<1>6. CASE c = "stop"
  BY <1>3, <1>6 DEF CallInv, CallerInv, PhaseInv, Absent
<1> QED BY <1>4, <1>5, <1>6 DEF Callers

LEMMA AdvanceKeepsCallers ==
  ASSUME TypeInv, OpsInv, CallInv, NEW op \in ops, NEW new \in Operations, AdvanceStep(op, new)
  PROVE  CallInv'
<1>0. /\ op.epoch = subEpoch /\ ops' = (ops \ {op}) \cup {new} /\ SpentGrows
      /\ new.id = op.id /\ new.epoch = subEpoch /\ new.kind = op.kind
      /\ UNCHANGED <<phase, roster, tickets, inFlight, callers, runs, needs, subEpoch, lastOp, opCount, sweeps, reports>>
      /\ \A p \in ops : p.id = op.id => p = op
  BY DEF AdvanceStep, OpsInv, WellOrdered
<1>1. /\ tracker'.status \in {"joining", "leaving"}
      /\ tracker'.status = "joining" => tracker.status \in {"none", "joining"}
      /\ tracker'.status = "leaving" => tracker.status = "subscribed" /\ op.kind = "down"
  BY DEF AdvanceStep
<1>2. OpIds' = OpIds /\ \A c \in Callers : OfSession(c)' = OfSession(c)
  BY <1>0 DEF OpIds, OfSession
<1>3. \A c \in Callers : Mine(c)' = Mine(c)
  BY <1>0 DEF Mine
<1>4. ReconnectInv' /\ CallerInv'
  BY <1>0 DEF CallInv, ReconnectInv, CallerInv, SpentGrows
<1>5. PhaseInv'
  <2>1. phase # "off"
    BY <1>0 DEF CallInv, PhaseInv, OpsInv, Chained
  <2> QED BY <1>0, <2>1 DEF CallInv, PhaseInv, Absent
<1>6. AdmitInv'
  BY <1>0, <1>1, <1>2, <1>3 DEF CallInv, AdmitInv, Admitters, Callers
<1>7. RaceInv'
  <2>1. ASSUME callers["loop"].pc = "removing", callers["loop"].op # 0, Absent
        PROVE  \E o \in ops' : o.id = callers["loop"].op /\ o.pc = "queued" /\ o.after \notin OpIds'
    <3>1. tracker.status # "subscribed"
      BY <2>1 DEF CallInv, RaceInv
    <3>2. PICK o \in ops : o.id = callers["loop"].op /\ o.pc = "queued" /\ o.after \notin OpIds
      BY <2>1 DEF CallInv, RaceInv
    <3>3. o # op
      <4>1. \E p \in ops : p.id = callers["loop"].op /\ p.kind = "down"
        BY <2>1 DEF OpsInv, OwnInv, Callers
      <4> QED BY <1>0, <1>1, <3>1, <3>2, <4>1 DEF AdvanceStep
    <3> QED BY <1>0, <1>2, <3>2, <3>3
  <2> QED BY <1>0, <1>1, <1>3, <2>1 DEF CallInv, RaceInv, Absent, Callers
<1>8. AgreeInv'
  <2>1. ASSUME roster'.state = "admitted", spent'.failures = 0, spent'.reconnects = 0
        PROVE  callers["loop"].pc = "removing"
    <3>1. tracker.status = "subscribed" \/ callers["loop"].pc = "removing"
      BY <1>0, <2>1 DEF CallInv, AgreeInv, SpentGrows
    <3>2. callers["loop"].pc # "dropping" /\ roster.state # "absent"
      BY <1>0, <2>1 DEF CallInv, ReconnectInv, SpentGrows
    <3> QED BY <1>0, <1>1, <3>1, <3>2, OnlyRemovalsLeave
  <2> QED BY <1>0, <1>1, <2>1 DEF CallInv, AgreeInv
<1> QED BY <1>4, <1>5, <1>6, <1>7, <1>8 DEF CallInv

LEMMA OpStepsKeep ==
  ASSUME TypeInv, OpsInv, CallInv, OpSteps
  PROVE  TypeInv' /\ OpsInv' /\ CallInv'
<1>1. PICK op \in ops : OpStep(op)
  BY DEF OpSteps, OpStep
<1>2. CASE \E ok \in BOOLEAN : SettleStep(op, ok)
  BY <1>2, SettleKeepsOps, SettleKeepsCallers
<1>3. CASE \E new \in Operations : AdvanceStep(op, new)
  BY <1>3, AdvanceKeepsOps, AdvanceKeepsCallers
<1> QED BY <1>1, <1>2, <1>3, OpOutcomes

----------------------------------------------------------------------------
(* Reconnects and their sweeps.                                            *)

LEMMA SweepTail ==
  ASSUME sweeps \in Seq(Sweeps), sweeps # <<>>
  PROVE  /\ Tail(sweeps) \in Seq(Sweeps)
         /\ 1 \in DOMAIN sweeps /\ Head(sweeps) = sweeps[1] /\ Head(sweeps) \in Sweeps
         /\ \A i \in DOMAIN Tail(sweeps) : i \in Nat \ {0} /\ i + 1 \in DOMAIN sweeps /\ Tail(sweeps)[i] = sweeps[i + 1]
OBVIOUS

LEMMA SweepAtWork ==
  ASSUME sweeps \in Seq(Sweeps), sweeps # <<>>, NEW s \in Sweeps, sweeps' = <<s>> \o Tail(sweeps)
  PROVE  /\ sweeps' \in Seq(Sweeps)
         /\ \A i \in DOMAIN sweeps' :
              \/ i = 1 /\ sweeps'[i] = s
              \/ i > 1 /\ i \in DOMAIN sweeps /\ sweeps'[i] = sweeps[i]
<1> DEFINE t == Tail(sweeps)
<1>1. t \in Seq(Sweeps) /\ Len(t) = Len(sweeps) - 1 /\ \A i \in 1..Len(t) : t[i] = sweeps[i + 1]
  OBVIOUS
<1>0. sweeps' = <<s>> \o t
  OBVIOUS
<1> HIDE DEF t
<1>2. /\ sweeps' \in Seq(Sweeps) /\ Len(sweeps') = Len(sweeps)
      /\ \A i \in 1..Len(sweeps) : sweeps'[i] = IF i = 1 THEN s ELSE t[i - 1]
  BY <1>0, <1>1
<1>3. \A i \in 1..Len(sweeps) : i > 1 => i - 1 \in 1..Len(t) /\ t[i - 1] = sweeps[i]
  BY <1>1
<1>4. DOMAIN sweeps' = 1..Len(sweeps) /\ DOMAIN sweeps = 1..Len(sweeps)
  BY <1>2
<1>5. ASSUME NEW i \in 1..Len(sweeps)
      PROVE  (i = 1 /\ sweeps'[i] = s) \/ (i > 1 /\ sweeps'[i] = sweeps[i])
  BY <1>2, <1>3
<1> QED BY <1>2, <1>4, <1>5

\* Nobody's admission is at stake while the tracker is swept.
LEMMA SweepKeepsCallers ==
  ASSUME CallInv, UNCHANGED <<presenceVars, subEpoch, ops, lastOp>>, spent'.reconnects > 0,
         \/ tracker' = tracker
         \/ /\ tracker'.status \in {"none", "dirty"} /\ tracker.status \in {"subscribed", "dirty"}
            /\ \A c \in Admitters : callers[c].pc = "admitting" /\ Mine(c) /\ callers[c].op = 0 => ~callers[c].ok,
         \/ Unjudged /\ tracker' = tracker => Unjudged'
         \/ \A c \in Admitters : callers[c].pc = "admitting" => callers[c].op # 0
  PROVE  CallInv'
<1>0. UNCHANGED <<phase, roster, tickets, inFlight, callers, runs, subEpoch, ops, lastOp>>
  BY DEF presenceVars
<1>1. /\ OpIds' = OpIds /\ Absent' = Absent
      /\ \A c \in Callers : OfSession(c)' = OfSession(c) /\ Mine(c)' = Mine(c)
  BY <1>0 DEF OpIds, OfSession, Mine, Absent
<1>2. ReconnectInv' /\ CallerInv'
  BY <1>0 DEF CallInv, ReconnectInv, CallerInv
<1>3. PhaseInv'
  BY <1>0, <1>1 DEF CallInv, PhaseInv
<1>4. AdmitInv'
  BY <1>0, <1>1 DEF CallInv, AdmitInv, Admitters, Callers
<1>5. RaceInv'
  BY <1>0, <1>1 DEF CallInv, RaceInv, Callers
<1>6. AgreeInv'
  BY <1>0, <1>1 DEF CallInv, AgreeInv
<1> QED BY <1>2, <1>3, <1>4, <1>5, <1>6 DEF CallInv

LEMMA ReconnectKeeps ==
  ASSUME TypeInv, OpsInv, CallInv, NEW joined \in SUBSET Topics2, Reconnect(joined)
  PROVE  TypeInv' /\ OpsInv' /\ CallInv'
<1> DEFINE lost == tracker.status = "subscribed" /\ held = Topics2 /\ joined # Topics2
           s == [epoch |-> subEpoch, stage |-> "queued", lost |-> lost, ticket |-> tracker.ticket]
<1>0. /\ UNCHANGED <<phase, roster, tickets, inFlight, callers, runs, tracker, needs, subEpoch, ops, lastOp, opCount, held, reports>>
      /\ UNCHANGED presenceVars
      /\ sweeps' = Append(sweeps, s) /\ Awaiting
  BY DEF Reconnect, presenceVars
<1>1. spent' \in [{"events", "boots", "reconnects", "runs", "failures"} -> Nat] /\ spent'.reconnects > 0
  BY DEF Reconnect, Spend, TypeInv
<1>2. s \in Sweeps /\ s.stage = "queued" /\ s.epoch = subEpoch /\ s.ticket = tracker.ticket
      /\ (s.lost => tracker.status = "subscribed")
  BY DEF Sweeps, TypeInv
<1> HIDE DEF s
<1>3. /\ sweeps' \in Seq(Sweeps)
      /\ \A i \in DOMAIN sweeps' : (i \in DOMAIN sweeps /\ sweeps'[i] = sweeps[i]) \/ sweeps'[i] = s
  BY <1>0, <1>2 DEF TypeInv
<1>4. TypeInv'
  BY <1>0, <1>1, <1>3 DEF TypeInv
<1>5. SweepInv'
  <2>1. \A o \in ops : s.lost => s.ticket # o.id
    BY <1>2 DEF OpsInv, TrackFits
  <2> QED BY <1>0, <1>2, <1>3, <2>1 DEF OpsInv, SweepInv, TrackFits, TypeInv
<1>6. OpsInv'
  BY <1>0, <1>5 DEF OpsInv, WellOrdered, Chained, OwnInv, HeldFits, TrackFits, OpIds
<1>7. CallInv'
  BY <1>0, <1>1, SettledInTime, SweepKeepsCallers DEF CallInv
<1> QED BY <1>4, <1>6, <1>7

\* What is left of the sweeps was there before.
LEMMA SweepsShrink ==
  ASSUME TypeInv, OpsInv, UNCHANGED <<subEpoch, ops, opCount>>,
         sweeps' \in Seq(Sweeps),
         \A i \in DOMAIN sweeps' : \E j \in DOMAIN sweeps :
           /\ sweeps'[i].epoch = sweeps[j].epoch /\ sweeps'[i].lost = sweeps[j].lost /\ sweeps'[i].ticket = sweeps[j].ticket
           /\ i > 1 => sweeps'[i].stage = "queued"
           /\ sweeps'[i].stage = "leaving" /\ sweeps'[i].epoch = subEpoch => tracker'.status = "dirty"
  PROVE  SweepInv' /\ (Unjudged /\ tracker' = tracker => Unjudged')
BY DEF OpsInv, SweepInv, Unjudged

LEMMA SweepStartsKeeps ==
  ASSUME TypeInv, OpsInv, CallInv, SweepStarts
  PROVE  TypeInv' /\ OpsInv' /\ CallInv'
<1> DEFINE s == Head(sweeps)
           t == [s EXCEPT !.stage = "leaving"]
<1>0. /\ UNCHANGED <<phase, roster, tickets, inFlight, callers, runs, subEpoch, ops, lastOp, opCount, held, spent>>
      /\ UNCHANGED presenceVars /\ sweeps # <<>> /\ sweeps \in Seq(Sweeps)
  BY DEF SweepStarts, presenceVars, TypeInv
<1>1. /\ Tail(sweeps) \in Seq(Sweeps) /\ 1 \in DOMAIN sweeps /\ s = sweeps[1] /\ s \in Sweeps
      /\ \A i \in DOMAIN Tail(sweeps) : i \in Nat \ {0} /\ i + 1 \in DOMAIN sweeps /\ Tail(sweeps)[i] = sweeps[i + 1]
  BY <1>0, SweepTail
<1>2. t \in Sweeps /\ t.epoch = s.epoch /\ t.lost = s.lost /\ t.ticket = s.ticket /\ t.stage = "leaving"
  BY <1>1 DEF Sweeps
<1>3. spent.reconnects > 0 /\ spent'.reconnects > 0
  BY <1>0 DEF CallInv, ReconnectInv
<1>4. \/ tracker' = tracker /\ ~(Judges(s) /\ s.epoch = subEpoch)
      \/ Judges(s) /\ s.epoch = subEpoch /\ tracker' = [tracker EXCEPT !.status = "dirty"]
  <2>1. CASE s.epoch # subEpoch
    BY <2>1 DEF SweepStarts
  <2>2. CASE s.epoch = subEpoch
    BY <2>2 DEF SweepStarts
  <2> QED BY <2>1, <2>2
<1>5. /\ \/ sweeps' = Tail(sweeps) /\ UNCHANGED <<tracker, needs>> /\ reports' \in {reports, reports + 1}
         \/ sweeps' = <<t>> \o Tail(sweeps) /\ needs' = TRUE /\ reports' = reports /\ (needs \/ Judges(s))
      /\ needs' = (needs \/ (Judges(s) /\ s.epoch = subEpoch))
  <2>1. needs \in BOOLEAN
    BY DEF TypeInv
  <2>2. CASE s.epoch # subEpoch
    BY <2>1, <2>2 DEF SweepStarts
  <2>3. CASE s.epoch = subEpoch /\ (needs \/ Judges(s))
    BY <2>1, <2>3 DEF SweepStarts
  <2>4. CASE s.epoch = subEpoch /\ ~(needs \/ Judges(s))
    BY <2>1, <2>4 DEF SweepStarts
  <2> QED BY <2>2, <2>3, <2>4
<1>6. s.epoch # subEpoch => sweeps' = Tail(sweeps) /\ UNCHANGED <<tracker, needs>>
  BY DEF SweepStarts
<1> HIDE DEF s, t
<1>7. Judges(s) => tracker.status = "subscribed" /\ s.lost /\ s.ticket = tracker.ticket
  BY DEF Judges
<1>8. TypeInv'
  <2>1. tracker' \in [status : {"none", "joining", "subscribed", "leaving", "dirty"}, ticket : Nat]
    BY <1>4 DEF TypeInv
  <2>2. sweeps' \in Seq(Sweeps) /\ reports' \in Nat /\ needs' \in BOOLEAN
    <3>1. sweeps' = <<t>> \o Tail(sweeps) => sweeps' \in Seq(Sweeps)
      BY <1>0, <1>2, SweepAtWork
    <3>2. reports \in Nat /\ needs \in BOOLEAN
      BY DEF TypeInv
    <3>3. CASE sweeps' = Tail(sweeps) /\ UNCHANGED <<tracker, needs>> /\ reports' \in {reports, reports + 1}
      BY <1>1, <3>2, <3>3
    <3>4. CASE sweeps' = <<t>> \o Tail(sweeps) /\ needs' = TRUE /\ reports' = reports
      BY <3>1, <3>2, <3>4
    <3> QED BY <1>5, <3>3, <3>4
  <2> QED BY <1>0, <2>1, <2>2 DEF TypeInv
<1>9. tracker' = [tracker EXCEPT !.status = "dirty"] =>
        tracker'.status = "dirty" /\ tracker'.ticket = tracker.ticket
  BY DEF TypeInv
<1>10. HeldFits'
  <2>1. HeldFits /\ needs \in BOOLEAN
    BY DEF OpsInv, TypeInv
  <2>2. CASE tracker' = tracker /\ ~(Judges(s) /\ s.epoch = subEpoch)
    <3>1. needs' = needs
      BY <1>5, <2>1, <2>2
    <3> QED BY <1>0, <2>1, <2>2, <3>1 DEF HeldFits
  <2>3. CASE Judges(s) /\ s.epoch = subEpoch /\ tracker' = [tracker EXCEPT !.status = "dirty"]
    <3>1. needs' = TRUE
      BY <1>5, <2>3
    <3>2. tracker'.status = "dirty"
      BY <1>9, <2>3
    <3> QED BY <3>1, <3>2 DEF HeldFits
  <2> QED BY <1>4, <2>2, <2>3
<1>11. TrackFits'
  BY <1>0, <1>4, <1>7, <1>9 DEF OpsInv, TrackFits, OpIds
<1>12. SweepInv' /\ (Unjudged /\ tracker' = tracker => Unjudged')
  <2>1. CASE sweeps' = Tail(sweeps)
    <3>1. \A i \in DOMAIN sweeps' : sweeps'[i].stage = "queued"
      BY <1>1, <2>1 DEF OpsInv, SweepInv
    <3> QED BY <1>0, <1>1, <2>1, <3>1, SweepsShrink
  <2>2. CASE sweeps' = <<t>> \o Tail(sweeps) /\ needs' = TRUE
    <3>1. \A i \in DOMAIN sweeps' :
            \/ i = 1 /\ sweeps'[i] = t
            \/ i > 1 /\ i \in DOMAIN sweeps /\ sweeps'[i] = sweeps[i]
      BY <1>0, <1>2, <2>2, SweepAtWork
    <3>2. tracker'.status = "dirty" /\ sweeps' \in Seq(Sweeps)
      BY <1>8, <1>10, <2>2 DEF HeldFits, TypeInv
    <3>3. \A i \in DOMAIN sweeps' : \E j \in DOMAIN sweeps :
            /\ sweeps'[i].epoch = sweeps[j].epoch /\ sweeps'[i].lost = sweeps[j].lost
            /\ sweeps'[i].ticket = sweeps[j].ticket
            /\ i > 1 => sweeps'[i].stage = "queued"
      BY <1>1, <1>2, <3>1 DEF OpsInv, SweepInv
    <3> QED BY <1>0, <3>2, <3>3, SweepsShrink
  <2> QED BY <1>5, <2>1, <2>2
<1>13. OpsInv'
  BY <1>0, <1>5, <1>10, <1>11, <1>12 DEF OpsInv, WellOrdered, Chained, OwnInv, OpIds, SweepStarts
<1>14. Judges(s) /\ s.epoch = subEpoch =>
         \A c \in Admitters : callers[c].pc = "admitting" /\ Mine(c) /\ callers[c].op = 0 => ~callers[c].ok
  BY <1>1, <1>7 DEF CallInv, AdmitInv, Unjudged
<1>15. CallInv'
  BY <1>0, <1>3, <1>4, <1>7, <1>9, <1>12, <1>14, SweepKeepsCallers
<1> QED BY <1>8, <1>13, <1>15

LEMMA SweepEndsKeeps ==
  ASSUME TypeInv, OpsInv, CallInv, NEW left \in SUBSET Topics2, SweepEnds(left)
  PROVE  TypeInv' /\ OpsInv' /\ CallInv'
<1> DEFINE s == Head(sweeps)
<1>0. /\ UNCHANGED <<phase, roster, tickets, inFlight, callers, runs, subEpoch, ops, lastOp, opCount>>
      /\ UNCHANGED presenceVars /\ sweeps # <<>> /\ sweeps \in Seq(Sweeps) /\ Awaiting
      /\ sweeps' = Tail(sweeps) /\ s.stage = "leaving"
  BY DEF SweepEnds, presenceVars, TypeInv
<1>1. /\ Tail(sweeps) \in Seq(Sweeps) /\ 1 \in DOMAIN sweeps /\ s = sweeps[1] /\ s \in Sweeps
      /\ \A i \in DOMAIN Tail(sweeps) : i \in Nat \ {0} /\ i + 1 \in DOMAIN sweeps /\ Tail(sweeps)[i] = sweeps[i + 1]
  BY <1>0, SweepTail
<1>2. SpentGrows
  BY Spending DEF SweepEnds
<1>3. spent'.reconnects > 0
  BY <1>0, <1>2 DEF CallInv, ReconnectInv, SpentGrows
<1>4. s.epoch = subEpoch => tracker.status = "dirty" /\ needs
  BY <1>0, <1>1 DEF OpsInv, SweepInv, HeldFits
<1>5. /\ \/ tracker' = tracker /\ needs' = needs /\ (held' = held \/ tracker.status = "dirty")
         \/ /\ tracker.status = "dirty" /\ tracker' = Untracked /\ needs' = FALSE /\ held' = {}
      /\ held' \subseteq Topics2 /\ reports' \in Nat
  <2>1. (tracker' = tracker /\ needs' = needs /\ held' = held /\ reports' = reports) \/ s.epoch = subEpoch
    BY DEF SweepEnds
  <2>2. held \subseteq Topics2 /\ reports \in Nat
    BY DEF TypeInv
  <2>3. CASE s.epoch = subEpoch
    <3>1. held' = held \ left /\ reports' = reports + 1
      BY <2>3 DEF SweepEnds
    <3>2. CASE left = Topics2
      <4>1. needs' = (tracker.status # "dirty") /\ tracker' = IF tracker.status = "dirty" THEN Untracked ELSE tracker
        BY <2>3, <3>2 DEF SweepEnds
      <4>2. held' = {}
        BY <2>2, <3>1, <3>2
      <4>3. tracker.status = "dirty"
        BY <1>4, <2>3
      <4>4. needs' = FALSE /\ tracker' = Untracked
        BY <4>1, <4>3
      <4> QED BY <2>2, <3>1, <4>2, <4>3, <4>4
    <3>3. CASE left # Topics2
      BY <1>4, <2>2, <2>3, <3>1, <3>3 DEF SweepEnds
    <3> QED BY <3>2, <3>3
  <2> QED BY <2>1, <2>2, <2>3
<1>6. TypeInv'
  <2>1. needs \in BOOLEAN /\ needs' \in BOOLEAN
    BY <1>5 DEF TypeInv
  <2>2. tracker' \in [status : {"none", "joining", "subscribed", "leaving", "dirty"}, ticket : Nat]
    BY <1>5 DEF TypeInv, Untracked
  <2> QED BY <1>0, <1>1, <1>2, <1>5, <2>1, <2>2 DEF TypeInv, SpentGrows
<1>7. HeldFits'
  <2>1. HeldFits
    BY DEF OpsInv
  <2>2. CASE tracker' = tracker /\ needs' = needs /\ (held' = held \/ tracker.status = "dirty")
    BY <2>1, <2>2 DEF HeldFits
  <2>3. CASE tracker' = Untracked /\ needs' = FALSE /\ held' = {}
    BY <2>3 DEF HeldFits, Untracked
  <2> QED BY <1>5, <2>2, <2>3
<1>8. TrackFits'
  <2>1. \A o \in ops : o.id # 0 /\ (o.epoch = subEpoch /\ o.pc \in UpPcs \cup {"leave"} => tracker.status # "dirty")
    BY DEF OpsInv, TrackFits, TypeInv, Operations
  <2>2. CASE tracker' = tracker /\ (held' = held \/ tracker.status = "dirty")
    BY <1>0, <2>1, <2>2 DEF OpsInv, TrackFits, OpIds
  <2>3. CASE tracker.status = "dirty" /\ tracker' = Untracked
    <3>1. tracker'.status = "none" /\ tracker'.ticket = 0 /\ opCount \in Nat
      BY <2>3 DEF Untracked, TypeInv
    <3> QED BY <1>0, <2>1, <2>3, <3>1 DEF TrackFits
  <2> QED BY <1>5, <2>2, <2>3
<1>9. SweepInv' /\ (Unjudged /\ tracker' = tracker => Unjudged')
  <2>1. \A i \in DOMAIN sweeps' : sweeps'[i].stage = "queued"
    BY <1>0, <1>1 DEF OpsInv, SweepInv
  <2> QED BY <1>0, <1>1, <2>1, SweepsShrink
<1>10. OpsInv'
  BY <1>0, <1>7, <1>8, <1>9 DEF OpsInv, WellOrdered, Chained, OwnInv, OpIds
<1>11. CallInv'
  <2>1. \A c \in Admitters : callers[c].pc = "admitting" => callers[c].op # 0
    BY <1>0, SettledInTime DEF CallInv
  <2>2. \/ tracker' = tracker
        \/ tracker'.status \in {"none", "dirty"} /\ tracker.status \in {"subscribed", "dirty"}
    BY <1>5 DEF Untracked
  <2> QED BY <1>0, <1>3, <2>1, <2>2, SweepKeepsCallers
<1> QED BY <1>6, <1>10, <1>11

----------------------------------------------------------------------------
(* RoomPresence.                                                           *)

subTypes ==
  /\ callers' \in [Callers -> CallerRecords]
  /\ tracker' \in [status : {"none", "joining", "subscribed", "leaving", "dirty"}, ticket : Nat]
  /\ ops' \subseteq Operations /\ lastOp' \in Nat /\ opCount' \in Nat

\* What a caller that runs an operation can count on, and what the others keep.
RunFacts(c, next) ==
  LET kind == KindOf(next.pc) IN
  /\ subTypes
  /\ callers'[c].pc = next.pc /\ callers'[c].ticket = next.ticket
  /\ callers'[c].op # 0 => OfSession(c)'
  /\ callers'[c].op = 0 =>
       /\ lastOp = 0 /\ tracker' = tracker /\ tracker.status # IF kind = "up" THEN "none" ELSE "subscribed"
       /\ kind = "up" => callers'[c].ok = (tracker.status = "subscribed")
  /\ \A d \in Callers \ {c} : callers'[d] = callers[d] /\ OfSession(d)' = OfSession(d)
  /\ \/ tracker' = tracker
     \/ kind = "up" /\ tracker.status = "none" /\ tracker'.status = "joining"
     \/ kind = "down" /\ lastOp = 0 /\ tracker.status = "subscribed" /\ tracker'.status = "leaving"
  /\ ops \subseteq ops'
  /\ \A o \in ops : o.pc = "queued" /\ o.after \notin OpIds => o.after \notin OpIds'
  /\ \A o \in ops : o.epoch = subEpoch /\ o.kind # kind => callers'[c].op # 0 /\ o.id < callers'[c].op
  /\ kind = "down" /\ tracker'.status = "subscribed" => \E o \in ops' : o.kind = "down" /\ o.epoch = subEpoch'

LEMMA Running ==
  ASSUME TypeInv, OpsInv, NEW c \in Callers, callers[c].op = 0, NEW next \in CallerRecords,
         RunSteps(c, KindOf(next.pc), next), UNCHANGED subSame
  PROVE  RunFacts(c, next) /\ OpsInv'
<1> DEFINE kind == KindOf(next.pc)
           at == IF kind = "up" THEN "chat" ELSE "leave"
           fresh == Operation(opCount + 1, kind, at, 0)
           behind == Operation(opCount + 1, kind, "queued", lastOp)
<1>1. /\ OpsInv' /\ ops' \subseteq Operations /\ lastOp' \in Nat /\ opCount' \in Nat
      /\ tracker' \in [status : {"none", "joining", "subscribed", "leaving", "dirty"}, ticket : Nat]
  BY RunKeepsOps
<1>2. /\ kind \in {"up", "down"} /\ opCount \in Nat /\ lastOp \in Nat /\ subEpoch' = subEpoch
      /\ \A o \in ops : o.id \in Nat \ {0} /\ o.after \in Nat /\ o.id <= opCount
      /\ \A d \in Callers : callers[d].op \in Nat
  BY DEF KindOf, TypeInv, Operations, subSame, OpsInv, WellOrdered, CallerRecords
<1>3. /\ fresh.id = opCount + 1 /\ fresh.kind = kind /\ fresh.epoch = subEpoch
      /\ behind.id = opCount + 1 /\ behind.kind = kind /\ behind.epoch = subEpoch
  BY DEF Operation
<1> HIDE DEF fresh, behind, kind
<1>4. PICK id \in Nat : GoesOn(c, next, id)
  BY <1>2 DEF RunSteps
<1>5. ops \subseteq ops' /\ ops' \subseteq ops \cup {fresh, behind}
  BY DEF RunSteps, RunShared, RunQueued, RunOver, RunBegun, fresh, behind, kind
<1>6. \A d \in Callers \ {c} : callers'[d] = callers[d] /\ OfSession(d)' = OfSession(d)
  <2> SUFFICES ASSUME NEW d \in Callers \ {c}
               PROVE  callers'[d] = callers[d] /\ OfSession(d)' = OfSession(d)
    OBVIOUS
  <2>1. callers'[d] = callers[d]
    BY <1>4 DEF GoesOn
  <2>2. callers[d].op # opCount + 1
    BY <1>2 DEF OpsInv, OwnInv
  <2> QED BY <1>2, <1>3, <1>5, <2>1, <2>2 DEF OfSession
<1>7. \A o \in ops : o.pc = "queued" /\ o.after \notin OpIds => o.after \notin OpIds'
  <2>1. \A o \in ops : o.pc = "queued" => o.after # opCount + 1
    BY <1>2 DEF OpsInv, WellOrdered
  <2> QED BY <1>3, <1>5, <2>1 DEF OpIds
<1>8. CASE RunShared(c, kind, next) /\ GoesOn(c, next, lastOp)
  <2>1. PICK o \in ops : o.id = lastOp /\ o.epoch = subEpoch /\ o.kind = kind
    BY <1>8 DEF RunShared
  <2>2. callers'[c].op = lastOp /\ lastOp # 0 /\ tracker' = tracker
    BY <1>8 DEF RunShared, GoesOn
  <2>3. \A p \in ops : p.epoch = subEpoch /\ p.kind # kind => p.id < lastOp
    BY <1>2, <2>1 DEF OpsInv, WellOrdered, Chained
  <2>4. OfSession(c)'
    BY <1>2, <1>5, <2>1, <2>2 DEF OfSession
  <2> QED BY <1>1, <1>2, <1>5, <1>6, <1>7, <1>8, <2>1, <2>2, <2>3, <2>4 DEF RunFacts, subTypes, GoesOn, kind
<1>9. CASE RunQueued(c, kind, next) /\ GoesOn(c, next, opCount + 1)
  <2>1. callers'[c].op = opCount + 1 /\ behind \in ops' /\ tracker' = tracker
    BY <1>9 DEF RunQueued, GoesOn, behind
  <2>2. OfSession(c)'
    BY <1>2, <1>3, <2>1 DEF OfSession
  <2>3. \A p \in ops : p.id < opCount + 1
    BY <1>2
  <2> QED BY <1>1, <1>2, <1>3, <1>5, <1>6, <1>7, <1>9, <2>1, <2>2, <2>3 DEF RunFacts, subTypes, GoesOn, kind
<1>10. CASE RunOver(c, kind, next) /\ GoesOn(c, next, 0)
             /\ callers'[c].ok = (kind = "down" \/ tracker.status = "subscribed")
  <2>1. callers'[c].op = 0 /\ lastOp = 0 /\ tracker' = tracker /\ ~Claimable(kind)
    BY <1>10 DEF RunOver, GoesOn
  <2>2. \A p \in ops : p.epoch # subEpoch
    BY <2>1 DEF OpsInv, Chained
  <2> QED BY <1>1, <1>2, <1>5, <1>6, <1>7, <1>10, <2>1, <2>2 DEF RunFacts, subTypes, GoesOn, Claimable, kind
<1>11. CASE RunBegun(c, kind, next) /\ GoesOn(c, next, opCount + 1)
  <2>1. /\ callers'[c].op = opCount + 1 /\ fresh \in ops' /\ lastOp = 0 /\ Claimable(kind)
        /\ tracker' = [status |-> IF kind = "up" THEN "joining" ELSE "leaving", ticket |-> opCount + 1]
    BY <1>11 DEF RunBegun, GoesOn, fresh, at
  <2>2. OfSession(c)'
    BY <1>2, <1>3, <2>1 DEF OfSession
  <2>3. \A p \in ops : p.epoch # subEpoch
    BY <2>1 DEF OpsInv, Chained
  <2> QED BY <1>1, <1>2, <1>5, <1>6, <1>7, <1>11, <2>1, <2>2, <2>3 DEF RunFacts, subTypes, GoesOn, Claimable, kind
<1> QED BY <1>1, <1>8, <1>9, <1>10, <1>11 DEF RunSteps, kind

\* The room is not in, nothing is under way, and the loop is free to do the next thing.
LEMMA QuietWhenOut ==
  ASSUME TypeInv, OpsInv, CallInv, phase = "on", Absent, callers["loop"] = Idle
  PROVE  lastOp = 0 /\ tracker.status \notin {"joining", "subscribed", "leaving"}
<1>1. callers["stop"].pc = "idle" /\ callers["stop"].op = 0 /\ callers["loop"].op = 0
  BY DEF CallInv, CallerInv, PhaseInv, Idle, Callers
<1>2. ~OfSession("boot") \/ callers["boot"].op = 0
  <2>1. callers["boot"].pc \in {"idle", "awaiting"} => callers["boot"].op = 0
    BY DEF CallInv, CallerInv, Callers
  <2>2. ~Mine("boot")
    BY DEF Mine, Absent
  <2> QED BY <1>1, <2>1, <2>2 DEF CallInv, CallerInv, AdmitInv
<1>3. \A o \in ops : o.epoch # subEpoch
  <2> SUFFICES ASSUME NEW o \in ops, o.epoch = subEpoch PROVE FALSE
    OBVIOUS
  <2>1. PICK c \in Callers : callers[c].op = o.id
    BY DEF OpsInv, OwnInv
  <2>2. o.id # 0
    BY DEF TypeInv, Operations
  <2> QED BY <1>1, <1>2, <2>1, <2>2 DEF OfSession, Callers
<1>4. lastOp = 0 /\ tracker.status \notin {"joining", "leaving"}
  BY <1>3 DEF OpsInv, Chained, TrackFits
<1>5. tracker.status # "subscribed"
  <2>1. ~(callers["boot"].pc = "admitting" /\ callers["boot"].op = 0 /\ callers["boot"].ok)
    BY <1>1 DEF CallInv, AdmitInv, Mine, Absent
  <2>2. callers["loop"].pc # "admitting"
    BY DEF Idle
  <2> QED BY <1>3, <2>1, <2>2 DEF CallInv, AgreeInv, Admitters, Absent
<1> QED BY <1>4, <1>5

LEMMA Operating ==
  ASSUME TypeInv, OpsInv, NEW c \in Callers, callers[c].op = 0, NEW next \in CallerRecords, next.op = 0,
         NEW kind, kind = KindOf(next.pc), RunOperation(c, kind, next), UNCHANGED subSame
  PROVE  RunFacts(c, next) /\ OpsInv'
<1>1. kind \in {"up", "down"} /\ WellOrdered /\ Chained
  BY DEF KindOf, OpsInv
<1>2. RunSteps(c, kind, next)
  BY <1>1, RunsOn
<1> QED BY <1>2, Running

\* Callers that await nothing may go on without the operations noticing.
LEMMA OpsStay ==
  ASSUME OpsInv, UNCHANGED subVars,
         \A c \in Callers : /\ callers'[c].op = callers[c].op
                            /\ callers[c].op # 0 => callers'[c].pc = callers[c].pc
  PROVE  OpsInv'
<1>1. UNCHANGED <<tracker, needs, subEpoch, ops, lastOp, opCount, held, sweeps>>
  BY DEF subVars
<1>2. OwnInv'
  BY <1>1 DEF OpsInv, OwnInv, Callers
<1> QED BY <1>1, <1>2 DEF OpsInv, WellOrdered, Chained, HeldFits, TrackFits, SweepInv, OpIds

\* An admission of the room is taken on, or another's is shared, or it is in already.
LEMMA AdmitRoomKeeps ==
  ASSUME TypeInv, OpsInv, CallInv, NEW c \in Admitters, AdmitRoom(c), phase = "on", UNCHANGED phase,
         c = "boot" => Awaiting, SpentGrows, reports' \in Nat, reports' > 0 => reports > 0
  PROVE  TypeInv' /\ OpsInv' /\ CallInv'
<1>0. /\ callers[c] = Idle /\ c \in Callers /\ callers[c].op = 0 /\ callers["stop"].pc = "idle"
      /\ UNCHANGED <<needs, subEpoch, held, sweeps>> /\ UNCHANGED subSame
  BY DEF AdmitRoom, Idle, Admitters, Callers, CallInv, CallerInv, PhaseInv, subSame
<1>1. CASE roster.state = "absent"
  <2> DEFINE next == [Idle EXCEPT !.pc = "admitting", !.ticket = tickets + 1]
  <2>1. /\ tickets' = tickets + 1 /\ roster' = [state |-> "admitting", ticket |-> tickets + 1]
        /\ inFlight' = c /\ RunOperation(c, "up", next) /\ runs' = runs /\ tickets \in Nat
    BY <1>1 DEF AdmitRoom, TypeInv
  <2>2. next \in CallerRecords /\ next.pc = "admitting" /\ next.op = 0 /\ next.ticket = tickets + 1
    <3>1. Idle \in CallerRecords /\ Idle.op = 0
      BY DEF CallerRecords, CallerPcs, Idle
    <3>2. PICK ticket \in Nat : ticket = tickets + 1
      BY <2>1
    <3>3. next = [Idle EXCEPT !.pc = "admitting", !.ticket = ticket]
      BY <3>2
    <3> HIDE DEF next
    <3> QED BY <3>1, <3>2, <3>3 DEF CallerRecords, CallerPcs
  <2> HIDE DEF next
  <2>3. RunFacts(c, next) /\ OpsInv'
    BY <1>0, <2>1, <2>2, Operating DEF KindOf
  <2>4. KindOf(next.pc) = "up"
    BY <2>2 DEF KindOf
  <2>5. callers'[c].pc = "admitting" /\ callers'[c].ticket = tickets + 1 /\ callers'[c] \in CallerRecords
    BY <1>0, <2>2, <2>3 DEF RunFacts, subTypes
  <2>6. \A d \in Callers \ {c} : callers'[d] = callers[d] /\ OfSession(d)' = OfSession(d)
    BY <2>3 DEF RunFacts
  <2>7. TypeInv'
    <3>1. /\ roster' \in [state : {"absent", "admitting", "admitted"}, ticket : Nat]
          /\ tickets' \in Nat /\ inFlight' \in {"none", "loop", "boot"}
      BY <2>1 DEF Admitters
    <3>2. subTypes
      BY <2>3 DEF RunFacts
    <3> QED BY <1>0, <2>1, <3>1, <3>2 DEF subTypes, TypeInv, SpentGrows
  \* A room that is out is not subscribed, unless an operation will have it left.
  <2>8. callers'[c].op = 0 => ~callers'[c].ok /\ tracker'.status \notin {"subscribed", "leaving"}
    <3> SUFFICES ASSUME callers'[c].op = 0
                 PROVE  ~callers'[c].ok /\ tracker'.status \notin {"subscribed", "leaving"}
      OBVIOUS
    <3>1. lastOp = 0 /\ tracker' = tracker /\ callers'[c].ok = (tracker.status = "subscribed")
      BY <2>3, <2>4 DEF RunFacts
    <3>2. \A o \in ops : o.epoch # subEpoch
      BY <3>1 DEF OpsInv, Chained
    <3>3. tracker.status # "leaving"
      BY <3>2 DEF OpsInv, TrackFits
    <3>4. \A d \in Admitters : ~(callers[d].pc = "admitting" /\ callers[d].op = 0 /\ callers[d].ok)
      BY <1>0, <1>1 DEF CallInv, AdmitInv, Mine, Admitters
    <3>5. tracker.status # "subscribed"
      BY <1>1, <3>2, <3>4 DEF CallInv, AgreeInv
    <3> QED BY <3>1, <3>3, <3>5
  <2>9. callers["loop"].pc # "admitting" /\ (callers["loop"].pc # "resync")
    BY <1>1 DEF CallInv, AdmitInv, Mine
  <2>10. \A d \in Admitters : Mine(d)' = (d = c)
    <3>1. ASSUME NEW d \in Admitters, d # c
          PROVE  callers'[d].ticket # tickets + 1
      <4>1. callers'[d] = callers[d] /\ callers[d] \in CallerRecords /\ d \in Callers
        BY <2>6, <3>1 DEF Admitters, Callers, TypeInv
      <4> QED BY <2>1, <4>1 DEF CallInv, CallerInv, CallerRecords
    <3> QED BY <2>1, <2>5, <3>1 DEF Mine
  <2>11. ReconnectInv'
    BY <1>0, <2>5, <2>6 DEF CallInv, ReconnectInv, SpentGrows, Callers
  <2>12. CallerInv'
    <3>1. \A d \in Callers : callers[d].ticket \in Nat /\ callers[d].ticket <= tickets
      BY DEF CallInv, CallerInv, TypeInv, CallerRecords
    <3> QED BY <1>0, <2>1, <2>5, <2>6, <3>1 DEF CallInv, CallerInv, Admitters, Callers
  <2>13. PhaseInv'
    BY <1>0, <2>6 DEF PhaseInv, Admitters, Callers
  <2>14. AdmitInv'
    BY <1>0, <1>1, <2>1, <2>3, <2>5, <2>6, <2>8, <2>9, <2>10
       DEF CallInv, AdmitInv, Mine, RunFacts, Admitters, Callers
  <2>15. RaceInv'
    <3>1. c = "boot" => /\ callers["loop"].pc \in {"removing", "dropping"} => callers["loop"].op # 0
                        /\ callers["loop"].pc # "removing"
      <4> SUFFICES ASSUME c = "boot"
                   PROVE  /\ callers["loop"].pc \in {"removing", "dropping"} => callers["loop"].op # 0
                          /\ callers["loop"].pc # "removing"
        OBVIOUS
      <4>1. callers["loop"].pc \in {"removing", "dropping"} => callers["loop"].op # 0
        BY SettledInTime DEF CallInv, Admitters
      <4> QED BY <1>1, <4>1 DEF CallInv, RaceInv, Absent, Awaiting
    <3>2. CASE c = "boot"
      <4>1. callers'["loop"] = callers["loop"] /\ callers["loop"].op \in Nat
        BY <2>6, <3>2 DEF Callers, TypeInv, CallerRecords
      <4>2. callers["loop"].pc = "dropping" => callers["loop"].op < callers'["boot"].op \/ callers'["boot"].op = 0
        <5> SUFFICES ASSUME callers["loop"].pc = "dropping" PROVE callers["loop"].op < callers'["boot"].op
          OBVIOUS
        <5>1. callers["loop"].op # 0
          BY <3>1, <3>2
        <5>2. PICK o \in ops : o.id = callers["loop"].op /\ o.kind = "down"
          BY <5>1 DEF OpsInv, OwnInv, Callers
        <5>3. o.epoch = subEpoch
          BY <5>2 DEF OpsInv, OwnInv
        <5> QED BY <2>3, <2>4, <3>2, <5>2, <5>3 DEF RunFacts
      <4>3. roster'.state # "admitted" /\ ~Absent'
        BY <2>1 DEF Absent
      <4> QED BY <2>8, <3>1, <3>2, <4>1, <4>2, <4>3 DEF RaceInv
    <3>3. CASE c = "loop"
      BY <2>5, <3>3 DEF RaceInv
    <3> QED BY <3>2, <3>3 DEF Admitters
  <2>16. AgreeInv'
    <3>1. tracker'.status = "subscribed" => tracker' = tracker
      BY <2>3, <2>4 DEF RunFacts
    <3>2. callers["loop"].pc # "dropping" => ~runs
      BY <1>0, <1>1 DEF CallInv, AgreeInv
    <3>3. tracker.status = "subscribed" => \E o \in ops' : o.kind = "down" /\ o.epoch = subEpoch'
      <4>1. \A d \in Admitters : ~(callers[d].pc = "admitting" /\ callers[d].op = 0 /\ callers[d].ok)
        BY <1>0, <1>1 DEF CallInv, AdmitInv, Mine, Admitters
      <4>2. tracker.status = "subscribed" => \E o \in ops : o.kind = "down" /\ o.epoch = subEpoch
        BY <1>1, <4>1 DEF CallInv, AgreeInv
      <4> QED BY <1>0, <2>3, <4>2 DEF RunFacts
    <3>4. callers'["loop"].pc = "dropping" \/ ~runs
      BY <1>0, <2>6, <3>2 DEF Idle, Admitters, Callers
    <3>5. roster'.state # "admitted"
      BY <2>1
    <3> QED BY <2>1, <3>1, <3>3, <3>4, <3>5 DEF AgreeInv, TypeInv
  <2> QED BY <2>3, <2>7, <2>11, <2>12, <2>13, <2>14, <2>15, <2>16 DEF CallInv
\* Nothing else comes of it but for a caller that waits, or a room that is in already.
<1>2. CASE roster.state # "absent"
  <2>1. UNCHANGED <<tickets, roster, ops, lastOp, opCount, tracker>> /\ UNCHANGED subVars
    BY <1>0, <1>2 DEF AdmitRoom, subVars
  <2>2. inFlight' \in {"none", "loop", "boot"} /\ runs' = (runs \/ (roster.state = "admitted" /\ inFlight = "none"))
    <3>1. inFlight' = inFlight /\ runs \in BOOLEAN /\ inFlight \in {"none", "loop", "boot"}
      BY <1>2 DEF AdmitRoom, TypeInv
    <3>2. CASE inFlight # "none"
      BY <1>2, <3>1, <3>2 DEF AdmitRoom
    <3>3. CASE inFlight = "none"
      BY <1>2, <3>1, <3>3 DEF AdmitRoom
    <3> QED BY <3>1, <3>2, <3>3
  <2>3. /\ callers' \in [Callers -> CallerRecords]
        /\ \/ callers'[c] = Idle
           \/ callers'[c].pc = "awaiting" /\ callers'[c].op = 0 /\ callers'[c].ticket <= tickets
        /\ \A d \in Callers \ {c} : callers'[d] = callers[d]
    <3>1. CASE inFlight # "none"
      <4>1. inFlight \in Callers
        BY <3>1 DEF TypeInv, Callers
      <4>2. PICK ticket \in Nat : ticket = callers[inFlight].ticket /\ ticket <= tickets
        BY <4>1 DEF TypeInv, CallerRecords, CallInv, CallerInv
      <4>3. Idle \in CallerRecords /\ Idle.op = 0
        BY DEF CallerRecords, CallerPcs, Idle
      <4>4. PICK new : new = [Idle EXCEPT !.pc = "awaiting", !.ticket = ticket]
        OBVIOUS
      <4>5. new \in CallerRecords /\ new.pc = "awaiting" /\ new.op = 0 /\ new.ticket = ticket
        BY <4>3, <4>4 DEF CallerRecords, CallerPcs
      <4>6. callers' = [callers EXCEPT ![c] = new]
        BY <1>2, <3>1, <4>2, <4>4 DEF AdmitRoom
      <4> QED BY <1>0, <4>2, <4>5, <4>6 DEF TypeInv
    <3>2. CASE inFlight = "none"
      BY <1>0, <1>2, <3>2 DEF AdmitRoom, TypeInv
    <3> QED BY <3>1, <3>2
  <2>4. TypeInv'
    BY <1>0, <2>1, <2>2, <2>3 DEF TypeInv, SpentGrows
  <2>5. OpsInv'
    BY <1>0, <2>1, <2>3, OpsStay DEF Idle
  <2>6. \A d \in Callers \ {c} : Mine(d)' = Mine(d) /\ OfSession(d)' = OfSession(d)
    BY <1>0, <2>1, <2>3 DEF Mine, OfSession
  <2>7. callers'[c].pc \in {"idle", "awaiting"} /\ callers'[c].op = 0 /\ callers[c].pc = "idle"
    BY <1>0, <2>3 DEF Idle
  <2>8. ReconnectInv' /\ PhaseInv'
    BY <1>0, <2>1, <2>3, <2>7 DEF CallInv, ReconnectInv, PhaseInv, SpentGrows, Admitters, Callers
  <2>9. CallerInv'
    <3>1. callers'[c].ticket <= tickets' /\ (callers'[c].pc = "idle" => callers'[c] = Idle)
      BY <1>0, <2>1, <2>3 DEF CallInv, CallerInv, Idle
    <3> QED BY <1>0, <2>1, <2>3, <2>7, <3>1 DEF CallInv, CallerInv, Admitters, Callers
  <2>10. AdmitInv'
    BY <1>0, <2>1, <2>3, <2>6, <2>7 DEF CallInv, AdmitInv, Unjudged, Admitters, Callers
  <2>11. RaceInv'
    BY <1>0, <2>1, <2>3, <2>6, <2>7 DEF CallInv, RaceInv, OpIds, Absent, Admitters, Callers
  <2>12. AgreeInv'
    <3>1. callers'["loop"].pc = "dropping" \/ runs' = (roster.state = "admitted")
      BY <1>0, <2>2, <2>3, <2>7 DEF CallInv, AgreeInv, Admitters, Callers
    <3> QED BY <1>0, <2>1, <2>3, <2>7, <3>1 DEF CallInv, AgreeInv, SpentGrows, Admitters, Callers
  <2> QED BY <2>4, <2>5, <2>8, <2>9, <2>10, <2>11, <2>12 DEF CallInv
<1> QED BY <1>1, <1>2

\* An admission that is over has its caller, and those that shared it, done.
Resumed(c) ==
  /\ callers' \in [Callers -> CallerRecords] /\ callers'[c] = Idle
  /\ \A d \in Callers \ {c} : \/ callers'[d] = callers[d]
                              \/ callers[d].pc = "awaiting" /\ callers[d].op = 0 /\ callers'[d] = Idle

LEMMA AdmittedResumes ==
  ASSUME TypeInv, CallInv, NEW c \in Callers, NEW result, Admitted(c, result)
  PROVE  Resumed(c) /\ inFlight' \in {"none", "loop", "boot"}
<1>1. Idle \in CallerRecords
  BY DEF CallerRecords, CallerPcs, Idle
<1>2. \A d \in Callers : callers[d].pc = "awaiting" => callers[d].op = 0
  BY DEF CallInv, CallerInv
<1> QED BY <1>1, <1>2 DEF Admitted, Resumed, TypeInv

\* The admission is over, whatever it came to: in, out, or a stop's to deal with.
LEMMA AdmissionEndsKeeps ==
  ASSUME TypeInv, OpsInv, CallInv, NEW c \in Admitters, callers[c].pc = "admitting", callers[c].op = 0,
         Resumed(c), inFlight' \in {"none", "loop", "boot"},
         runs' = (runs \/ roster'.state = "admitted"), UNCHANGED <<phase, tickets, reports, spent>>, UNCHANGED subVars,
         roster' = IF ~Mine(c) THEN roster ELSE IF callers[c].ok THEN [roster EXCEPT !.state = "admitted"] ELSE NoRoom,
         callers[c].ok => roster'.state = "admitted"
  PROVE  TypeInv' /\ OpsInv' /\ CallInv'
<1>0. /\ UNCHANGED <<tracker, needs, subEpoch, ops, lastOp, opCount, held, sweeps>>
      /\ c \in Callers /\ callers'[c] = Idle /\ callers'[c].pc = "idle" /\ callers'[c].op = 0
  BY DEF subVars, Admitters, Callers, Resumed, Idle
<1>a. \A d \in Callers \ {c} : /\ callers'[d].op = callers[d].op
                              /\ \/ callers'[d] = callers[d]
                                 \/ callers'[d].pc = "idle" /\ callers[d].pc = "awaiting" /\ callers'[d] = Idle
  BY DEF Resumed, Idle
<1>b. \A d \in Callers \ {c} : callers[d].pc \notin {"idle", "awaiting"} \/ callers'[d].pc \notin {"idle", "awaiting"}
        => callers'[d] = callers[d]
  BY <1>a
<1>c. Mine(c) => phase # "off" /\ callers["stop"].pc # "tearing"
  BY DEF CallInv, PhaseInv, Absent, Mine
<1>1. /\ roster' \in [state : {"absent", "admitting", "admitted"}, ticket : Nat]
      /\ Mine(c) /\ callers[c].ok => roster' = [state |-> "admitted", ticket |-> callers[c].ticket]
  BY DEF TypeInv, Mine, NoRoom
<1>2. TypeInv'
  BY <1>0, <1>1 DEF TypeInv, Resumed
<1>3. OpsInv'
  <2>1. \A d \in Callers : /\ callers'[d].op = callers[d].op
                           /\ callers[d].op # 0 => callers'[d].pc = callers[d].pc
    BY <1>0, <1>a DEF CallInv, CallerInv
  <2> QED BY <2>1, OpsStay
<1>4. Mine(c) => \A d \in Admitters \ {c} : callers[d].pc = "admitting" => ~Mine(d)
  BY DEF CallInv, CallerInv, Mine, Admitters
<1>5. \A d \in Admitters \ {c} : callers'[d].pc = "admitting" =>
        /\ callers'[d] = callers[d]
        /\ Mine(d)' => Mine(d) /\ ~Mine(c) /\ roster' = roster
        /\ ~Mine(d)' => ~Mine(d)
  <2> SUFFICES ASSUME NEW d \in Admitters \ {c}, callers'[d].pc = "admitting"
               PROVE  /\ callers'[d] = callers[d]
                      /\ Mine(d)' => Mine(d) /\ ~Mine(c) /\ roster' = roster
                      /\ ~Mine(d)' => ~Mine(d)
    OBVIOUS
  <2>1. callers'[d] = callers[d]
    BY <1>b DEF Admitters, Callers
  <2>2. Mine(c) => ~Mine(d)
    BY <1>4, <2>1
  <2> QED BY <1>1, <2>1, <2>2 DEF Mine, NoRoom
<1>6. ReconnectInv' /\ CallerInv'
  <2>1. ReconnectInv'
    BY <1>0, <1>b DEF CallInv, ReconnectInv, Callers, Admitters
  <2>2. \A d \in Callers : /\ callers'[d].ticket <= tickets'
                           /\ callers'[d].pc \in {"idle", "awaiting"} => callers'[d].op = 0
                           /\ callers'[d].pc = "idle" => callers'[d] = Idle
    <3>1. tickets \in Nat /\ Idle.op = 0 /\ Idle.ticket = 0
      BY DEF TypeInv, Idle
    <3>2. \A d \in Callers : callers'[d] = callers[d] \/ callers'[d] = Idle
      BY <1>0, <1>a
    <3> QED BY <3>1, <3>2 DEF CallInv, CallerInv
  <2> QED BY <1>0, <1>a, <2>2, <2>1 DEF CallInv, CallerInv, Callers, Idle, Admitters
<1>7. PhaseInv'
  <2>1. callers'["stop"].pc = "tearing" => callers["stop"].pc = "tearing"
    BY <1>b DEF Callers, Admitters
  <2>2. callers["stop"].pc = "tearing" => callers'["loop"] = Idle
    BY <1>0, <1>a DEF CallInv, PhaseInv, Callers
  <2>3. phase = "off" => /\ roster' = roster /\ Absent /\ callers'["loop"] = Idle /\ callers'["stop"] = Idle
                         /\ ~runs' /\ tracker.status = "none" /\ lastOp = 0
    <3>1. callers["loop"] = Idle => callers'["loop"] = Idle
      BY <1>0, <1>a DEF Callers
    <3>2. callers["stop"] = Idle => callers'["stop"] = Idle
      BY <1>0, <1>a DEF Callers
    <3> QED BY <1>c, <3>1, <3>2 DEF CallInv, PhaseInv, Absent
  <2>4. callers["stop"].pc = "tearing" => phase = "stopping" /\ roster' = roster /\ Absent
    BY <1>c DEF CallInv, PhaseInv
  <2> QED BY <1>0, <2>1, <2>2, <2>3, <2>4 DEF PhaseInv, Absent
<1>8. \A d \in Callers : callers'[d].op # 0 => (OfSession(d)' <=> OfSession(d))
  BY <1>0, <1>a DEF OfSession
\* The room is in only if its admission went well, and out only if it did not.
<1>9. \/ roster' = roster /\ ~Mine(c) /\ c = "boot"
      \/ roster'.state = "admitted" /\ Mine(c) /\ callers[c].ok /\ roster.state = "admitting"
      \/ roster'.state = "absent" /\ Mine(c) /\ ~callers[c].ok /\ roster.state = "admitting"
  BY <1>1 DEF CallInv, AdmitInv, Mine, NoRoom, Admitters
<1>10. AdmitInv'
  <2>1. roster'.state = "admitting" => \E d \in Admitters : callers'[d].pc = "admitting" /\ Mine(d)'
    <3> SUFFICES ASSUME roster'.state = "admitting" PROVE \E d \in Admitters : callers'[d].pc = "admitting" /\ Mine(d)'
      OBVIOUS
    <3>1. roster' = roster /\ ~Mine(c)
      BY <1>9
    <3>2. PICK d \in Admitters : callers[d].pc = "admitting" /\ Mine(d)
      BY <3>1 DEF CallInv, AdmitInv
    <3>3. callers'[d] = callers[d]
      BY <1>b, <3>1, <3>2 DEF Admitters, Callers
    <3> QED BY <3>1, <3>2, <3>3 DEF Mine
  <2>2. callers'["loop"].pc = "admitting" => Mine("loop")'
    BY <1>0, <1>5 DEF CallInv, AdmitInv, Admitters
  <2>3. ASSUME NEW d \in Admitters, callers'[d].pc = "admitting", Mine(d)'
        PROVE  /\ callers'[d].op # 0 => OfSession(d)'
               /\ callers'[d].op = 0 /\ ~callers'[d].ok => tracker'.status \notin {"subscribed", "leaving"}
               /\ callers'[d].op = 0 /\ callers'[d].ok =>
                    tracker'.status = "leaving" \/ (tracker'.status = "subscribed" /\ Unjudged')
    <3>1. d # c /\ callers'[d] = callers[d] /\ Mine(d) /\ d \in Callers
      BY <1>0, <1>5, <2>3 DEF Admitters, Callers
    <3>2. Unjudged' = Unjudged
      BY <1>0 DEF Unjudged
    <3> QED BY <1>0, <1>8, <2>3, <3>1, <3>2 DEF CallInv, AdmitInv
  <2>4. callers'["boot"].pc \in {"admitting", "releasing"} => callers'["boot"] = callers["boot"] /\ c = "loop"
    BY <1>0, <1>b DEF Callers, Admitters
  <2>5. c = "loop" => /\ callers["stop"].pc # "tearing"
                      /\ callers["boot"].op # 0 => (OfSession("boot")' <=> OfSession("boot"))
    BY <1>8, <1>9, <1>c, <1>a DEF Callers
  <2>6. callers'["boot"].pc = "admitting" /\ ~Mine("boot")' =>
          \/ callers'["stop"].pc = "tearing"
          \/ callers'["boot"].op # 0 /\ ~OfSession("boot")'
          \/ callers'["boot"].op = 0 /\ ~callers'["boot"].ok
    BY <1>5, <2>4, <2>5 DEF CallInv, AdmitInv, Admitters
  <2>7. callers'["boot"].pc = "releasing" =>
          callers'["stop"].pc = "tearing" \/ callers'["boot"].op = 0 \/ ~OfSession("boot")'
    BY <2>4, <2>5 DEF CallInv, AdmitInv
  <2>8. callers'["loop"].pc = "resync" => roster'.state = "admitted"
    <3> SUFFICES ASSUME callers'["loop"].pc = "resync" PROVE roster'.state = "admitted"
      OBVIOUS
    <3>1. c # "loop" /\ callers["loop"].pc = "resync"
      BY <1>0, <1>b DEF Callers
    <3> QED BY <1>9, <3>1 DEF CallInv, AdmitInv
  <2> QED BY <2>1, <2>2, <2>3, <2>6, <2>7, <2>8 DEF AdmitInv
<1>11. RaceInv'
  <2>1. callers'["loop"].pc \in {"removing", "dropping"} => callers'["loop"] = callers["loop"] /\ c = "boot"
    BY <1>0, <1>b DEF Callers, Admitters
  <2>2. ASSUME c = "boot", callers["loop"].pc = "removing", callers["loop"].op # 0, Absent'
        PROVE  /\ tracker.status # "subscribed"
               /\ \E o \in ops : o.id = callers["loop"].op /\ o.pc = "queued" /\ o.after \notin OpIds
    <3>1. CASE Absent
      BY <2>2, <3>1 DEF CallInv, RaceInv
    <3>2. CASE ~Absent
      <4>1. Mine(c) /\ ~callers[c].ok
        BY <1>9, <2>2, <3>2 DEF Absent
      <4>2. tracker.status \notin {"subscribed", "leaving"}
        BY <4>1 DEF CallInv, AdmitInv
      <4>3. PICK o \in ops : o.id = callers["loop"].op /\ o.kind = "down"
        BY <2>2 DEF OpsInv, OwnInv, Callers
      <4>4. o.epoch = subEpoch
        BY <4>3 DEF OpsInv, OwnInv
      <4>5. o.pc = "queued"
        BY <4>2, <4>3, <4>4 DEF OpsInv, TrackFits, WellOrdered, TypeInv, Operations
      <4>6. o.after \notin OpIds
        <5> SUFFICES ASSUME NEW q \in ops, q.id = o.after PROVE FALSE
          BY DEF OpIds
        <5>0. q.id # 0
          BY DEF TypeInv, Operations
        <5>1. q.epoch = subEpoch /\ q.kind # "down"
          BY <4>3, <4>5 DEF OpsInv, Chained
        <5>2. PICK d \in Callers : callers[d].op = q.id
          BY DEF OpsInv, OwnInv
        <5>3. \E p \in ops : p.id = q.id /\ p.kind = IF callers[d].pc \in {"admitting", "resync"} THEN "up" ELSE "down"
          BY <5>0, <5>2 DEF OpsInv, OwnInv
        <5>4. callers[d].pc \in {"admitting", "resync"}
          BY <5>1, <5>3 DEF OpsInv, WellOrdered
        <5>5. d # "stop" /\ d # "loop"
          BY <2>2, <5>4 DEF CallInv, CallerInv
        <5> QED BY <2>2, <5>0, <5>2, <5>5 DEF Callers
      <4> QED BY <4>2, <4>3, <4>5, <4>6
    <3> QED BY <3>1, <3>2
  <2>3. c = "boot" => callers'["boot"].pc = "idle"
    BY <1>0
  <2>4. c = "boot" /\ callers["loop"].pc = "dropping" => roster'.state # "admitted"
    BY <1>9 DEF CallInv, RaceInv
  <2>5. c = "boot" /\ callers["loop"].pc \in {"removing", "dropping"} /\ callers["loop"].op = 0 => tracker.status # "subscribed"
    BY DEF CallInv, RaceInv
  <2>6. OpIds' = OpIds
    BY <1>0 DEF OpIds
  <2> QED BY <1>0, <2>1, <2>2, <2>3, <2>4, <2>5, <2>6 DEF RaceInv
<1>12. AgreeInv'
  <2>1. ASSUME callers'["loop"].pc # "dropping", callers'["stop"].pc # "tearing"
        PROVE  runs' = (roster'.state = "admitted")
    <3>1. callers["stop"].pc = "tearing" => callers'["stop"] = callers["stop"]
      BY <1>0, <1>b DEF Callers, Admitters
    <3>2. callers["loop"].pc = "dropping" => c = "loop" \/ callers'["loop"] = callers["loop"]
      BY <1>0, <1>b DEF Callers
    <3>3. callers[c].pc # "dropping"
      OBVIOUS
    <3>4. runs = (roster.state = "admitted")
      BY <2>1, <3>1, <3>2, <3>3 DEF CallInv, AgreeInv
    <3> QED BY <1>9, <3>4
  <2>2. ASSUME tracker'.status = "subscribed"
        PROVE  \/ roster'.state = "admitted"
               \/ \E d \in Admitters : callers'[d].pc = "admitting" /\ callers'[d].op = 0 /\ callers'[d].ok
               \/ \E o \in ops' : o.kind = "down" /\ o.epoch = subEpoch'
    <3>1. CASE roster.state = "admitted"
      BY <1>9, <3>1
    <3>2. CASE \E d \in Admitters : callers[d].pc = "admitting" /\ callers[d].op = 0 /\ callers[d].ok
      <4>1. PICK d \in Admitters : callers[d].pc = "admitting" /\ callers[d].op = 0 /\ callers[d].ok
        BY <3>2
      <4>2. d # c => callers'[d] = callers[d]
        BY <1>b, <4>1 DEF Admitters, Callers
      <4> QED BY <4>1, <4>2
    <3>3. CASE \E o \in ops : o.kind = "down" /\ o.epoch = subEpoch
      BY <1>0, <3>3
    <3> QED BY <1>0, <2>2, <3>1, <3>2, <3>3 DEF CallInv, AgreeInv
  <2>3. ASSUME roster'.state = "admitted", spent.failures = 0, spent.reconnects = 0
        PROVE  tracker.status = "subscribed" \/ callers'["loop"].pc = "removing"
    <3>1. tracker.status = "subscribed" \/ callers["loop"].pc = "removing"
      <4>1. CASE roster.state = "admitted"
        BY <2>3, <4>1 DEF CallInv, AgreeInv
      <4>2. CASE Mine(c) /\ callers[c].ok /\ roster.state = "admitting"
        <5>1. tracker.status \in {"leaving", "subscribed"}
          BY <4>2 DEF CallInv, AdmitInv
        <5>2. ASSUME tracker.status = "leaving"
              PROVE  callers["loop"].pc \in {"removing", "dropping"}
          <6>1. PICK o \in ops : o.epoch = subEpoch /\ o.pc = "leave"
            BY <5>2 DEF OpsInv, TrackFits
          <6>2. o.kind = "down"
            BY <6>1 DEF OpsInv, WellOrdered
          <6> QED BY <4>2, <6>1, <6>2, OnlyRemovalsLeave
        <5>3. callers["loop"].pc # "dropping"
          BY <2>3 DEF CallInv, ReconnectInv
        <5> QED BY <5>1, <5>2, <5>3
      <4> QED BY <1>9, <2>3, <4>1, <4>2
    <3>2. callers["loop"].pc = "removing" => c # "loop" /\ callers'["loop"] = callers["loop"]
      BY <1>b DEF Callers
    <3> QED BY <3>1, <3>2
  <2> QED BY <1>0, <2>1, <2>2, <2>3 DEF AgreeInv
<1> QED BY <1>2, <1>3, <1>6, <1>7, <1>10, <1>11, <1>12 DEF CallInv

LEMMA AdmissionSubscribedKeeps ==
  ASSUME TypeInv, OpsInv, CallInv, NEW c \in Admitters, AdmissionSubscribed(c)
  PROVE  TypeInv' /\ OpsInv' /\ CallInv'
<1>0. /\ callers[c].pc = "admitting" /\ callers[c].op = 0 /\ c \in Callers
      /\ UNCHANGED <<phase, tickets, reports, spent>> /\ UNCHANGED subSame
      /\ UNCHANGED <<needs, subEpoch, held, sweeps>>
      /\ roster' = IF ~Mine(c) THEN roster ELSE IF callers[c].ok THEN [roster EXCEPT !.state = "admitted"] ELSE NoRoom
  BY DEF AdmissionSubscribed, Mine, subSame, Admitters, Callers
<1>1. CASE callers[c].ok /\ roster'.state # "admitted"
  <2>1. roster' = roster /\ ~Mine(c) /\ c = "boot"
    <3>1. ~Mine(c)
      BY <1>0, <1>1 DEF TypeInv
    <3> QED BY <1>0, <3>1 DEF CallInv, AdmitInv, Admitters
  <2>2. callers["stop"].pc = "tearing" /\ phase = "stopping" /\ Absent /\ callers["loop"] = Idle
    BY <1>0, <1>1, <2>1 DEF CallInv, AdmitInv, PhaseInv
  <2> DEFINE next == [callers[c] EXCEPT !.pc = "releasing"]
  <2>3. next \in CallerRecords /\ next.pc = "releasing" /\ next.op = 0 /\ next.ticket = callers[c].ticket
    BY <1>0 DEF CallerRecords, CallerPcs, TypeInv
  <2>4. RunOperation(c, "down", next) /\ UNCHANGED <<inFlight, runs>>
    BY <1>0, <1>1 DEF AdmissionSubscribed
  <2> HIDE DEF next
  <2>5. RunFacts(c, next) /\ OpsInv' /\ KindOf(next.pc) = "down"
    BY <1>0, <2>3, <2>4, Operating DEF KindOf
  <2>6. TypeInv'
    BY <1>0, <2>1, <2>4, <2>5 DEF RunFacts, subTypes, TypeInv
  <2>7. /\ callers'["boot"].pc = "releasing" /\ callers'["boot"].ticket = callers["boot"].ticket
        /\ callers'["loop"] = Idle /\ callers'["stop"] = callers["stop"]
    BY <2>1, <2>2, <2>3, <2>5 DEF RunFacts, Callers
  <2>8. ReconnectInv' /\ CallerInv' /\ PhaseInv'
    BY <1>0, <2>1, <2>2, <2>4, <2>7 DEF CallInv, ReconnectInv, CallerInv, PhaseInv, Absent, Idle, Callers, TypeInv
  <2>9. AdmitInv' /\ RaceInv' /\ AgreeInv'
    BY <1>0, <2>1, <2>2, <2>5, <2>7 DEF CallInv, AdmitInv, RaceInv, AgreeInv, Absent, Mine, Idle, Admitters, RunFacts
  <2> QED BY <2>5, <2>6, <2>8, <2>9 DEF CallInv
<1>2. CASE ~(callers[c].ok /\ roster'.state # "admitted")
  <2>1. Admitted(c, roster'.state = "admitted") /\ UNCHANGED <<ops, lastOp, opCount, tracker>>
    BY <1>0, <1>2 DEF AdmissionSubscribed
  <2>2. Resumed(c) /\ inFlight' \in {"none", "loop", "boot"} /\ runs' = (runs \/ roster'.state = "admitted")
    BY <1>0, <2>1, AdmittedResumes DEF Admitted
  <2>3. UNCHANGED subVars
    BY <1>0, <2>1 DEF subVars
  <2> QED BY <1>0, <1>2, <2>2, <2>3, AdmissionEndsKeeps
<1> QED BY <1>1, <1>2

LEMMA AdmissionReleasedKeeps ==
  ASSUME TypeInv, OpsInv, CallInv, NEW c \in Admitters, AdmissionReleased(c)
  PROVE  TypeInv' /\ OpsInv' /\ CallInv'
<1>0. /\ callers[c].pc = "releasing" /\ callers[c].op = 0 /\ c = "boot" /\ c \in Callers
      /\ UNCHANGED <<phase, roster, tickets, reports, spent>> /\ UNCHANGED subVars
      /\ UNCHANGED <<tracker, needs, subEpoch, ops, lastOp, opCount, held, sweeps>>
  BY DEF AdmissionReleased, CallInv, CallerInv, Admitters, Callers, subVars
<1>1. Resumed(c) /\ inFlight' \in {"none", "loop", "boot"} /\ runs' = runs
  BY <1>0, AdmittedResumes DEF AdmissionReleased, Admitted, TypeInv
<1>2. /\ callers'["boot"] = Idle /\ callers'["boot"].pc = "idle" /\ callers'["boot"].op = 0
      /\ \A d \in Callers \ {"boot"} :
           \/ callers'[d] = callers[d]
           \/ callers'[d] = Idle /\ callers'[d].pc = "idle" /\ callers[d].pc = "awaiting"
      /\ \A d \in Callers : callers'[d].op = callers[d].op
  BY <1>0, <1>1 DEF Resumed, Idle
<1>3. TypeInv'
  BY <1>0, <1>1 DEF Resumed, TypeInv
<1>4. OpsInv'
  <2>1. \A d \in Callers : callers[d].op # 0 => callers'[d].pc = callers[d].pc
    BY <1>0, <1>2 DEF CallInv, CallerInv
  <2> QED BY <1>0, <1>2, <2>1, OpsStay
<1>5. ReconnectInv' /\ CallerInv' /\ PhaseInv'
  <2>1. \A d \in Callers : callers'[d] = callers[d] \/ callers'[d] = Idle
    BY <1>2
  <2>2. tickets \in Nat /\ Idle.op = 0 /\ Idle.ticket = 0 /\ Idle.pc = "idle"
    BY DEF TypeInv, Idle
  <2>3. ReconnectInv'
    BY <1>0, <2>1, <2>2 DEF CallInv, ReconnectInv, Callers
  <2>4. CallerInv'
    BY <1>0, <1>2, <2>1, <2>2 DEF CallInv, CallerInv, Callers
  <2>5. PhaseInv'
    BY <1>0, <1>1, <2>1, <2>2 DEF CallInv, PhaseInv, Absent, Callers
  <2> QED BY <2>3, <2>4, <2>5
<1>6. \A d \in Admitters : callers'[d].pc = "admitting" \/ callers[d].pc = "admitting"
        => callers'[d] = callers[d] /\ d = "loop" /\ (Mine(d)' <=> Mine(d)) /\ (OfSession(d)' <=> OfSession(d))
  BY <1>0, <1>2 DEF Admitters, Callers, Mine, OfSession
<1>7. callers'["loop"] = callers["loop"] \/ (callers'["loop"].pc = "idle" /\ callers["loop"].pc = "awaiting")
  BY <1>2 DEF Callers
<1>8. AdmitInv'
  BY <1>0, <1>2, <1>6, <1>7 DEF CallInv, AdmitInv, Unjudged, Admitters
<1>9. RaceInv'
  BY <1>0, <1>2, <1>7 DEF CallInv, RaceInv, OpIds, Absent
<1>10. AgreeInv'
  <2>1. callers'["stop"].pc = "tearing" <=> callers["stop"].pc = "tearing"
    BY <1>2 DEF Callers
  <2> QED BY <1>0, <1>1, <1>6, <1>7, <2>1 DEF CallInv, AgreeInv
<1> QED BY <1>3, <1>4, <1>5, <1>8, <1>9, <1>10 DEF CallInv

\* The loop subscribes to the room again, or leaves its topics.
LEMMA LoopRunsKeeps ==
  ASSUME TypeInv, OpsInv, CallInv, phase = "on", UNCHANGED phase, callers["loop"] = Idle,
         NEW at \in {"removing", "resync", "dropping"},
         RunOperation("loop", KindOf(at), [Idle EXCEPT !.pc = at]),
         UNCHANGED <<tickets, inFlight, runs>>, UNCHANGED subSame, SpentGrows,
         reports' \in Nat, reports' > 0 => reports > 0,
         at # "removing" => spent.reconnects > 0 /\ roster.state = "admitted",
         roster' = IF at = "dropping" THEN NoRoom ELSE roster
  PROVE  TypeInv' /\ OpsInv' /\ CallInv'
<1>0. /\ UNCHANGED <<needs, subEpoch, held, sweeps>> /\ callers["loop"].op = 0 /\ callers["stop"].pc = "idle"
      /\ callers["loop"].pc = "idle"
  BY DEF subSame, Idle, CallInv, CallerInv, PhaseInv
<1> DEFINE next == [Idle EXCEPT !.pc = at]
<1>1. next \in CallerRecords /\ next.pc = at /\ next.op = 0 /\ next.ticket = 0
  <2>1. Idle \in CallerRecords /\ Idle.op = 0 /\ Idle.ticket = 0
    BY DEF Idle, CallerRecords, CallerPcs
  <2> QED BY <2>1 DEF CallerRecords, CallerPcs
<1>2. RunOperation("loop", KindOf(at), next)
  OBVIOUS
<1> HIDE DEF next
<1>3. RunFacts("loop", next) /\ OpsInv'
  BY <1>0, <1>1, <1>2, Operating DEF Callers
<1>4. /\ callers'["loop"].pc = at /\ callers'["loop"].ticket = 0
      /\ callers'["boot"] = callers["boot"] /\ callers'["stop"] = callers["stop"]
      /\ OfSession("boot")' = OfSession("boot")
  BY <1>1, <1>3 DEF RunFacts, Callers
<1>5. TypeInv'
  BY <1>0, <1>3 DEF RunFacts, subTypes, TypeInv, NoRoom, SpentGrows
<1>6. ReconnectInv' /\ CallerInv' /\ PhaseInv'
  <2>1. ReconnectInv'
    BY <1>0, <1>4 DEF CallInv, ReconnectInv, SpentGrows
  <2>2. CallerInv'
    BY <1>4 DEF CallInv, CallerInv, Callers, TypeInv
  <2>3. PhaseInv'
    BY <1>0, <1>4 DEF PhaseInv
  <2> QED BY <2>1, <2>2, <2>3
\* Of what the callers' admissions come to, the tracker tells no less.
<1>7. /\ tracker' = tracker \/ tracker'.status = "joining" \/ (tracker.status = "subscribed" /\ tracker'.status = "leaving")
      /\ tracker' = tracker => Unjudged' = Unjudged
  BY <1>0, <1>3 DEF RunFacts, Unjudged
<1>8. /\ Mine("boot")' => Mine("boot") /\ at = "removing" /\ roster' = roster
      /\ ~Mine("boot")' /\ callers["boot"].pc = "admitting" => ~Mine("boot")
  BY <1>4 DEF Mine, NoRoom
<1>9. AdmitInv'
  <2>1. roster'.state = "admitting" => callers'["boot"].pc = "admitting" /\ Mine("boot")'
    BY <1>0, <1>4 DEF CallInv, AdmitInv, Mine, Admitters, NoRoom
  <2>2. callers["boot"].pc = "admitting" /\ Mine("boot")' =>
          /\ callers["boot"].op # 0 => OfSession("boot")'
          /\ callers["boot"].op = 0 /\ ~callers["boot"].ok => tracker'.status \notin {"subscribed", "leaving"}
          /\ callers["boot"].op = 0 /\ callers["boot"].ok =>
               tracker'.status = "leaving" \/ (tracker'.status = "subscribed" /\ Unjudged')
    <3> SUFFICES ASSUME callers["boot"].pc = "admitting", Mine("boot")'
                 PROVE  /\ callers["boot"].op # 0 => OfSession("boot")'
                        /\ callers["boot"].op = 0 /\ ~callers["boot"].ok => tracker'.status \notin {"subscribed", "leaving"}
                        /\ callers["boot"].op = 0 /\ callers["boot"].ok =>
                             tracker'.status = "leaving" \/ (tracker'.status = "subscribed" /\ Unjudged')
      OBVIOUS
    <3>1. Mine("boot") /\ KindOf(next.pc) = "down"
      BY <1>1, <1>8 DEF KindOf
    <3>2. tracker' = tracker \/ (tracker.status = "subscribed" /\ tracker'.status = "leaving")
      BY <1>3, <3>1 DEF RunFacts
    <3> QED BY <1>4, <1>7, <3>1, <3>2 DEF CallInv, AdmitInv, Admitters
  <2>3. at = "resync" => roster'.state = "admitted"
    OBVIOUS
  <2> QED BY <1>0, <1>4, <1>8, <2>1, <2>2, <2>3 DEF CallInv, AdmitInv, Admitters
<1>10. RaceInv'
  <2>1. at # "resync" => KindOf(next.pc) = "down"
    BY <1>1 DEF KindOf
  <2>2. at # "resync" /\ callers'["loop"].op = 0 => tracker'.status # "subscribed"
    BY <1>3, <2>1 DEF RunFacts
  \* a room that is out has nothing to leave
  <2>3. at = "removing" /\ Absent' => callers'["loop"].op = 0
    <3> SUFFICES ASSUME at = "removing", Absent' PROVE callers'["loop"].op = 0
      OBVIOUS
    <3>1. lastOp = 0 /\ tracker.status # "subscribed"
      BY QuietWhenOut DEF Absent
    <3>2. RunSteps("loop", "down", next)
      BY <1>1, <1>2, <2>1, RunsOn DEF OpsInv, Callers
    <3> QED BY <3>1, <3>2 DEF RunSteps, RunShared, RunQueued, RunBegun, Claimable, GoesOn
  <2>4. at = "removing" /\ callers["boot"].pc = "admitting" /\ Mine("boot")' /\ callers["boot"].op # 0
          => callers["boot"].op < callers'["loop"].op
    <3> SUFFICES ASSUME at = "removing", callers["boot"].pc = "admitting", Mine("boot"), callers["boot"].op # 0
                 PROVE  callers["boot"].op < callers'["loop"].op
      BY <1>8
    <3>1. PICK o \in ops : o.id = callers["boot"].op /\ o.epoch = subEpoch
      BY DEF CallInv, AdmitInv, OfSession, Admitters
    <3>2. PICK p \in ops : p.id = callers["boot"].op /\ p.kind = "up"
      BY DEF OpsInv, OwnInv, Callers
    <3>3. o = p
      BY <3>1, <3>2 DEF OpsInv, WellOrdered
    <3> QED BY <1>3, <2>1, <3>1, <3>2, <3>3 DEF RunFacts
  <2>5. at = "dropping" => roster'.state # "admitted" /\ ~Mine("boot")'
    BY DEF NoRoom, Mine
  <2> QED BY <1>4, <2>2, <2>3, <2>4, <2>5 DEF RaceInv
<1>11. AgreeInv'
  <2>1. at # "dropping" => runs = (roster.state = "admitted")
    BY <1>0 DEF CallInv, AgreeInv
  <2>2. tracker'.status = "subscribed" =>
          roster'.state = "admitted" \/ \E o \in ops' : o.kind = "down" /\ o.epoch = subEpoch'
    <3>1. CASE at = "resync"
      BY <3>1
    <3>2. CASE at # "resync"
      BY <1>1, <1>3, <3>2 DEF RunFacts, KindOf
    <3> QED BY <3>1, <3>2
  <2>3. roster'.state = "admitted" /\ spent'.failures = 0 /\ spent'.reconnects = 0 => at = "removing"
    BY DEF SpentGrows
  <2> QED BY <1>4, <2>1, <2>2, <2>3 DEF AgreeInv
<1> QED BY <1>3, <1>5, <1>6, <1>9, <1>10, <1>11 DEF CallInv

\* The loop is done with a room it has left, or found to be in.
LEMMA LoopEndsKeeps ==
  ASSUME TypeInv, OpsInv, CallInv, UNCHANGED <<phase, tickets, inFlight, reports, spent>>, UNCHANGED subVars,
         callers' = [callers EXCEPT !["loop"] = Idle], callers["loop"].op = 0,
         \/ callers["loop"].pc = "removing" /\ roster' = NoRoom /\ runs' = (runs /\ roster.state # "admitted")
         \/ callers["loop"].pc = "dropping" /\ roster' = roster /\ runs' = FALSE
         \/ callers["loop"].pc = "resync" /\ roster' = roster /\ runs' = runs
  PROVE  TypeInv' /\ OpsInv' /\ CallInv'
<1>0. /\ UNCHANGED <<tracker, needs, subEpoch, ops, lastOp, opCount, held, sweeps>>
      /\ callers'["loop"] = Idle /\ callers'["loop"].pc = "idle" /\ callers'["loop"].op = 0
      /\ callers'["boot"] = callers["boot"] /\ callers'["stop"] = callers["stop"]
      /\ callers["loop"].pc \notin {"idle", "admitting", "awaiting"}
      /\ callers' \in [Callers -> CallerRecords]
  <2>1. Idle \in CallerRecords
    BY DEF Idle, CallerRecords, CallerPcs
  <2> QED BY <2>1 DEF subVars, Idle, Callers, TypeInv
<1>1. phase # "off" /\ callers["stop"].pc # "tearing"
  BY <1>0 DEF CallInv, PhaseInv, Idle
<1>2. TypeInv'
  <2>1. runs' \in BOOLEAN
    BY DEF TypeInv
  <2>2. roster' \in [state : {"absent", "admitting", "admitted"}, ticket : Nat]
    BY DEF TypeInv, NoRoom
  <2> QED BY <1>0, <2>1, <2>2 DEF TypeInv
<1>3. OpsInv'
  BY <1>0, OpsStay DEF Callers
<1>4. ReconnectInv' /\ CallerInv' /\ PhaseInv'
  BY <1>0, <1>1 DEF CallInv, ReconnectInv, CallerInv, PhaseInv, Idle, Callers, TypeInv
\* A bootstrap's admission that the loop has removed the room from under has failed.
<1>5. callers["loop"].pc = "removing" /\ callers["boot"].pc = "admitting" /\ Mine("boot")
        => callers["boot"].op = 0 /\ ~callers["boot"].ok
  <2> SUFFICES ASSUME callers["loop"].pc = "removing", callers["boot"].pc = "admitting", Mine("boot")
               PROVE  callers["boot"].op = 0 /\ ~callers["boot"].ok
    OBVIOUS
  <2>1. callers["boot"].op \in Nat
    BY DEF TypeInv, CallerRecords, Callers
  <2>2. callers["boot"].op = 0
    BY <1>0, <2>1 DEF CallInv, RaceInv
  <2>3. tracker.status # "subscribed"
    BY DEF CallInv, RaceInv
  <2>4. tracker.status # "leaving"
    <3> SUFFICES ASSUME NEW o \in ops, o.pc = "leave", o.epoch = subEpoch PROVE FALSE
      BY DEF OpsInv, TrackFits
    <3>1. PICK c \in Callers : callers[c].op = o.id
      BY DEF OpsInv, OwnInv
    <3>2. o.id # 0
      BY DEF TypeInv, Operations
    <3>3. callers["stop"].op = 0
      BY <1>1 DEF CallInv, CallerInv, Callers
    <3> QED BY <2>2, <3>1, <3>2, <3>3 DEF Callers
  <2> QED BY <2>2, <2>3, <2>4 DEF CallInv, AdmitInv, Admitters
<1>6. OfSession("boot")' = OfSession("boot")
  BY <1>0 DEF OfSession
<1>7. AdmitInv'
  <2>1. CASE roster' = NoRoom /\ callers["loop"].pc = "removing"
    <3>1. \A c \in Admitters : ~Mine(c)'
      BY <2>1 DEF Mine, NoRoom
    <3>2. roster'.state = "absent"
      BY <2>1 DEF NoRoom
    <3> QED BY <1>0, <1>5, <1>6, <2>1, <3>1, <3>2 DEF CallInv, AdmitInv
  <2>2. CASE roster' = roster
    <3>1. Mine("boot")' = Mine("boot") /\ Unjudged' = Unjudged
      BY <1>0, <2>2 DEF Mine, Unjudged
    <3> QED BY <1>0, <1>6, <2>2, <3>1 DEF CallInv, AdmitInv, Admitters
  <2> QED BY <2>1, <2>2
<1>8. RaceInv'
  BY <1>0 DEF RaceInv
<1>9. AgreeInv'
  <2>1. runs' = (roster'.state = "admitted")
    <3>1. CASE callers["loop"].pc = "removing" /\ roster' = NoRoom /\ runs' = (runs /\ roster.state # "admitted")
      <4>1. runs = (roster.state = "admitted")
        BY <1>1, <3>1 DEF CallInv, AgreeInv
      <4> QED BY <3>1, <4>1 DEF NoRoom
    <3>2. CASE callers["loop"].pc = "dropping" /\ roster' = roster /\ runs' = FALSE
      BY <3>2 DEF CallInv, RaceInv
    <3>3. CASE callers["loop"].pc = "resync" /\ roster' = roster /\ runs' = runs
      BY <1>1, <3>3 DEF CallInv, AgreeInv
    <3> QED BY <3>1, <3>2, <3>3
  <2>2. tracker.status = "subscribed" =>
          \/ roster'.state = "admitted"
          \/ \E c \in Admitters : callers'[c].pc = "admitting" /\ callers'[c].op = 0 /\ callers'[c].ok
          \/ \E o \in ops : o.kind = "down" /\ o.epoch = subEpoch
    <3>1. callers["loop"].pc = "removing" => tracker.status # "subscribed"
      BY DEF CallInv, RaceInv
    <3> QED BY <1>0, <3>1 DEF CallInv, AgreeInv, Admitters
  <2>3. roster'.state = "admitted" => roster' = roster /\ callers["loop"].pc # "removing"
    BY DEF NoRoom
  <2> QED BY <1>0, <2>1, <2>2, <2>3 DEF CallInv, AgreeInv
<1> QED BY <1>2, <1>3, <1>4, <1>7, <1>8, <1>9 DEF CallInv

LEMMA ReconnectedKeeps ==
  ASSUME TypeInv, OpsInv, CallInv, NEW listed \in {"yes", "no", "failed"}, Reconnected(listed)
  PROVE  TypeInv' /\ OpsInv' /\ CallInv'
<1>0. /\ phase = "on" /\ UNCHANGED <<phase, spent>> /\ callers["loop"] = Idle /\ reports > 0 /\ reports' = reports - 1
      /\ reports' \in Nat /\ SpentGrows
  BY DEF Reconnected, TypeInv, SpentGrows
<1>1. spent.reconnects > 0
  BY <1>0 DEF CallInv, ReconnectInv
<1>2. CASE listed = "yes" /\ roster.state = "absent"
  <2>1. AdmitRoom("loop")
    BY <1>2 DEF Reconnected
  <2> QED BY <1>0, <2>1, AdmitRoomKeeps DEF Admitters
<1>3. CASE listed = "yes" /\ roster.state = "admitted"
  <2>1. /\ RunOperation("loop", "up", [Idle EXCEPT !.pc = "resync"])
        /\ UNCHANGED <<roster, tickets, inFlight, runs>> /\ UNCHANGED subSame
    BY <1>3 DEF Reconnected, subSame
  <2> QED BY <1>0, <1>1, <1>3, <2>1, LoopRunsKeeps DEF KindOf
<1>4. CASE listed = "no" /\ roster.state = "admitted"
  <2>1. /\ RunOperation("loop", "down", [Idle EXCEPT !.pc = "dropping"])
        /\ UNCHANGED <<tickets, inFlight, runs>> /\ UNCHANGED subSame /\ roster' = NoRoom
    BY <1>4 DEF Reconnected, subSame
  <2> QED BY <1>0, <1>1, <1>4, <2>1, LoopRunsKeeps DEF KindOf
<1>5. CASE ~(listed = "yes" /\ roster.state \in {"absent", "admitted"}) /\ ~(listed = "no" /\ roster.state = "admitted")
  <2>1. UNCHANGED <<roster, tickets, inFlight, callers, runs>> /\ UNCHANGED subVars
    BY <1>5 DEF Reconnected
  <2>2. UNCHANGED <<tracker, needs, subEpoch, ops, lastOp, opCount, held, sweeps>>
    BY <2>1 DEF subVars
  <2>3. /\ \A c \in Callers : Mine(c)' = Mine(c) /\ OfSession(c)' = OfSession(c)
        /\ OpIds' = OpIds /\ Unjudged' = Unjudged /\ Absent' = Absent
    BY <2>1, <2>2 DEF Mine, OfSession, OpIds, Unjudged, Absent
  <2>4. TypeInv' /\ OpsInv'
    BY <1>0, <2>1, <2>2, OpsStay DEF TypeInv
  <2>5. ReconnectInv' /\ CallerInv' /\ PhaseInv'
    BY <1>0, <1>1, <2>1, <2>2, <2>3 DEF CallInv, ReconnectInv, CallerInv, PhaseInv
  <2>6. AdmitInv' /\ RaceInv' /\ AgreeInv'
    BY <1>0, <2>1, <2>2, <2>3 DEF CallInv, AdmitInv, RaceInv, AgreeInv, Admitters, Callers
  <2> QED BY <2>4, <2>5, <2>6 DEF CallInv
<1> QED BY <1>2, <1>3, <1>4, <1>5

\* A phase begins: nothing but who may act is new.
LEMMA PhaseKeeps ==
  ASSUME TypeInv, OpsInv, CallInv, UNCHANGED <<roster, tickets, inFlight, callers, runs, reports>>, UNCHANGED subVars,
         SpentGrows, \/ phase = "off" /\ phase' = "on"
                     \/ phase = "on" /\ phase' = "stopping"
  PROVE  TypeInv' /\ OpsInv' /\ CallInv'
<1>1. UNCHANGED <<tracker, needs, subEpoch, ops, lastOp, opCount, held, sweeps>>
  BY DEF subVars
<1>2. /\ \A c \in Callers : Mine(c)' = Mine(c) /\ OfSession(c)' = OfSession(c)
      /\ OpIds' = OpIds /\ Unjudged' = Unjudged /\ Absent' = Absent
  BY <1>1 DEF Mine, OfSession, OpIds, Unjudged, Absent
<1>3. TypeInv' /\ OpsInv'
  BY <1>1, OpsStay DEF TypeInv, SpentGrows
<1>4. ReconnectInv' /\ CallerInv' /\ PhaseInv'
  BY <1>1, <1>2 DEF CallInv, ReconnectInv, CallerInv, PhaseInv, SpentGrows, Idle
<1>5. AdmitInv' /\ RaceInv' /\ AgreeInv'
  BY <1>1, <1>2 DEF CallInv, AdmitInv, RaceInv, AgreeInv, Admitters, Callers, SpentGrows
<1> QED BY <1>3, <1>4, <1>5 DEF CallInv

\* A stop leaves the room if it is in, and has nothing to do otherwise.
LEMMA StopLeavesKeeps ==
  ASSUME TypeInv, OpsInv, CallInv, StopLeaves
  PROVE  TypeInv' /\ OpsInv' /\ CallInv'
<1>0. /\ phase = "stopping" /\ Awaiting /\ callers["loop"] = Idle /\ callers["stop"] = Idle /\ roster' = NoRoom
      /\ UNCHANGED <<phase, tickets, inFlight, runs, reports, spent>> /\ UNCHANGED subSame
      /\ UNCHANGED <<needs, subEpoch, held, sweeps>>
      /\ callers["loop"].pc = "idle" /\ callers["stop"].op = 0 /\ roster'.state = "absent"
  BY DEF StopLeaves, subSame, Idle, NoRoom
<1>1. Idle \in CallerRecords
  BY DEF Idle, CallerRecords, CallerPcs
<1>2. PICK next : next = [Idle EXCEPT !.pc = "tearing"]
  OBVIOUS
<1>3. next \in CallerRecords /\ next.pc = "tearing" /\ next.op = 0 /\ next.ticket = 0 /\ KindOf(next.pc) = "down"
  <2>1. Idle.op = 0 /\ Idle.ticket = 0
    BY DEF Idle
  <2> QED BY <1>1, <1>2, <2>1 DEF CallerRecords, CallerPcs, KindOf
\* Either way the stop tears the room down, and it has no subscription that nobody leaves.
<1>4. /\ TypeInv' /\ OpsInv' /\ callers' \in [Callers -> CallerRecords]
      /\ callers'["stop"].pc = "tearing" /\ callers'["stop"].ticket = 0
      /\ callers'["loop"] = Idle /\ callers'["boot"] = callers["boot"]
      /\ tracker'.status = "subscribed" => \E o \in ops' : o.kind = "down" /\ o.epoch = subEpoch'
  <2>1. CASE roster.state = "admitted"
    <3>1. RunOperation("stop", "down", next)
      BY <1>2, <2>1 DEF StopLeaves
    <3>2. RunFacts("stop", next) /\ OpsInv'
      BY <1>0, <1>3, <3>1, Operating DEF Callers
    <3>3. TypeInv'
      BY <1>0, <3>2 DEF RunFacts, subTypes, TypeInv, NoRoom
    <3> QED BY <1>0, <1>3, <3>2, <3>3 DEF RunFacts, subTypes, Callers
  <2>2. CASE roster.state # "admitted"
    <3>1. callers' = [callers EXCEPT !["stop"] = next] /\ UNCHANGED <<ops, lastOp, opCount, tracker>>
      BY <1>0, <1>2, <2>2 DEF StopLeaves
    <3>2. UNCHANGED subVars
      BY <1>0, <3>1 DEF subVars
    <3>3. callers' \in [Callers -> CallerRecords] /\ callers'["stop"] = next
          /\ \A c \in Callers \ {"stop"} : callers'[c] = callers[c]
      BY <1>3, <3>1 DEF TypeInv, Callers
    <3>4. OpsInv'
      BY <1>0, <1>3, <3>2, <3>3, OpsStay
    <3>5. TypeInv'
      BY <1>0, <3>1, <3>3 DEF TypeInv, NoRoom
    <3>6. tracker.status = "subscribed" => \E o \in ops : o.kind = "down" /\ o.epoch = subEpoch
      <4>1. \A c \in Admitters : ~(callers[c].pc = "admitting" /\ callers[c].op = 0)
        BY <1>0, SettledInTime DEF CallInv
      <4> QED BY <2>2, <4>1 DEF CallInv, AgreeInv
    <3> QED BY <1>0, <1>3, <3>1, <3>3, <3>4, <3>5, <3>6 DEF Callers
  <2> QED BY <2>1, <2>2
<1>5. ReconnectInv' /\ CallerInv' /\ PhaseInv'
  <2>1. callers'["stop"].pc = "tearing" /\ Idle.pc = "idle" /\ tickets \in Nat
    BY <1>4 DEF Idle, TypeInv
  <2> QED BY <1>0, <1>4, <2>1 DEF CallInv, ReconnectInv, CallerInv, PhaseInv, Absent, Callers
<1>6. AdmitInv' /\ RaceInv' /\ AgreeInv'
  <2>1. \A c \in Admitters : ~Mine(c)'
    BY <1>0 DEF Mine
  <2> QED BY <1>0, <1>4, <2>1 DEF AdmitInv, RaceInv, AgreeInv, Idle
<1> QED BY <1>4, <1>5, <1>6 DEF CallInv

\* The session ends: what it leaves in flight is the bootstrap's, and no longer the room's.
LEMMA StopEndsKeeps ==
  ASSUME TypeInv, OpsInv, CallInv, StopEnds
  PROVE  TypeInv' /\ OpsInv' /\ CallInv'
<1>0. /\ callers["stop"].pc = "tearing" /\ callers["stop"].op = 0 /\ Awaiting
      /\ callers' = [callers EXCEPT !["stop"] = Idle] /\ phase' = "off" /\ runs' = FALSE
      /\ subEpoch' = subEpoch + 1 /\ tracker' = Untracked /\ needs' = FALSE /\ lastOp' = 0 /\ held' = {}
      /\ UNCHANGED <<roster, tickets, inFlight, ops, opCount, sweeps, reports, spent>>
      /\ Untracked.status = "none" /\ Untracked.ticket = 0 /\ Idle.op = 0 /\ Idle.pc = "idle" /\ Idle.ticket = 0
  BY DEF StopEnds, Untracked, Idle
<1>1. phase = "stopping" /\ Absent /\ callers["loop"] = Idle /\ callers["loop"].op = 0 /\ callers["loop"].pc = "idle"
  BY <1>0 DEF CallInv, PhaseInv
<1>2. /\ callers' \in [Callers -> CallerRecords] /\ callers'["stop"] = Idle
      /\ callers'["loop"] = Idle /\ callers'["boot"] = callers["boot"]
  <2>1. Idle \in CallerRecords
    BY DEF Idle, CallerRecords, CallerPcs
  <2> QED BY <1>0, <1>1, <2>1 DEF TypeInv, Callers
<1>3. \A o \in ops : o.id \in Nat \ {0} /\ o.after \in Nat /\ o.epoch \in Nat /\ o.epoch <= subEpoch /\ subEpoch \in Nat
  BY DEF TypeInv, Operations, OpsInv, WellOrdered
<1>4. \A o \in ops : o.id = callers["boot"].op
  BY <1>0, <1>1, <1>3 DEF OpsInv, OwnInv, Callers
<1>5. \A o \in ops : o.pc # "queued"
  <2> SUFFICES ASSUME NEW o \in ops, o.pc = "queued" PROVE FALSE
    OBVIOUS
  <2>1. o.after \in OpIds /\ o.after < o.id
    BY <1>0 DEF Awaiting, OpsInv, WellOrdered
  <2> QED BY <1>3, <1>4, <2>1 DEF OpIds
<1>6. \A o \in ops : o.epoch # subEpoch'
  BY <1>0, <1>3
<1>7. TypeInv'
  <2>1. tracker' \in [status : {"none", "joining", "subscribed", "leaving", "dirty"}, ticket : Nat]
    BY <1>0 DEF Untracked
  <2>2. subEpoch' \in Nat
    BY <1>0 DEF TypeInv
  <2> QED BY <1>0, <1>2, <2>1, <2>2 DEF TypeInv
<1>8. OpsInv'
  <2>1. WellOrdered'
    BY <1>0, <1>3, <1>5 DEF OpsInv, WellOrdered
  <2>2. Chained'
    BY <1>0, <1>5, <1>6 DEF Chained
  <2>3. OwnInv'
    BY <1>0, <1>1, <1>2, <1>3, <1>4 DEF OpsInv, OwnInv, Callers
  <2>4. HeldFits'
    BY <1>0 DEF HeldFits
  <2>5. TrackFits'
    BY <1>0, <1>3, <1>5, <1>6 DEF TrackFits, TypeInv
  <2>6. SweepInv'
    <3>1. \A i \in DOMAIN sweeps : sweeps[i].epoch <= subEpoch /\ sweeps[i].epoch \in Nat /\ subEpoch \in Nat
      <4>1. \A i \in DOMAIN sweeps : sweeps[i] \in Sweeps
        BY DEF TypeInv
      <4> QED BY <4>1 DEF OpsInv, SweepInv, Sweeps, TypeInv
    <3>2. \A i \in DOMAIN sweeps : sweeps[i].epoch <= subEpoch' /\ sweeps[i].epoch # subEpoch'
      BY <1>0, <3>1
    <3> QED BY <1>0, <3>2 DEF OpsInv, SweepInv
  <2> QED BY <2>1, <2>2, <2>3, <2>4, <2>5, <2>6 DEF OpsInv
<1>9. ReconnectInv' /\ CallerInv' /\ PhaseInv'
  BY <1>0, <1>1, <1>2 DEF CallInv, ReconnectInv, CallerInv, PhaseInv, Absent, Callers, TypeInv
<1>10. AdmitInv' /\ RaceInv' /\ AgreeInv'
  <2>1. \A c \in Admitters : ~Mine(c)'
    BY <1>0, <1>1 DEF Mine, Absent
  <2>2. ~OfSession("boot")'
    BY <1>0, <1>6 DEF OfSession
  <2>3. callers["boot"].pc = "admitting" => callers["boot"].op # 0
    BY <1>0, SettledInTime DEF CallInv, Admitters
  <2> QED BY <1>0, <1>1, <1>2, <2>1, <2>2, <2>3 DEF AdmitInv, RaceInv, AgreeInv, Absent
<1> QED BY <1>7, <1>8, <1>9, <1>10 DEF CallInv

----------------------------------------------------------------------------
(* The theorem.                                                            *)

LEMMA InitHolds ==
  ASSUME MembershipInit
  PROVE  TypeInv /\ OpsInv /\ CallInv
<1>0. /\ phase = "off" /\ roster = NoRoom /\ roster.state = "absent" /\ tickets = 0 /\ inFlight = "none"
      /\ callers = [c \in Callers |-> Idle] /\ runs = FALSE
      /\ tracker = Untracked /\ tracker.status = "none" /\ tracker.ticket = 0 /\ needs = FALSE /\ subEpoch = 0
      /\ ops = {} /\ lastOp = 0 /\ opCount = 0 /\ held = {} /\ sweeps = <<>> /\ reports = 0
      /\ spent = [events |-> 0, boots |-> 0, reconnects |-> 0, runs |-> 0, failures |-> 0]
  BY DEF MembershipInit, NoRoom, Untracked
<1>1. /\ \A c \in Callers : callers[c] = Idle
      /\ Idle.pc = "idle" /\ Idle.op = 0 /\ Idle.ticket = 0 /\ Idle \in CallerRecords
  BY <1>0 DEF Idle, CallerRecords, CallerPcs
<1>2. TypeInv
  <2>1. spent \in [{"events", "boots", "reconnects", "runs", "failures"} -> Nat]
    BY <1>0
  <2>2. roster \in [state : {"absent", "admitting", "admitted"}, ticket : Nat]
    BY <1>0 DEF NoRoom
  <2>3. tracker \in [status : {"none", "joining", "subscribed", "leaving", "dirty"}, ticket : Nat]
    BY <1>0 DEF Untracked
  <2>4. callers \in [Callers -> CallerRecords] /\ sweeps \in Seq(Sweeps)
    BY <1>0, <1>1
  <2> QED BY <1>0, <2>1, <2>2, <2>3, <2>4 DEF TypeInv
<1>3. OpsInv
  <2>1. WellOrdered /\ Chained /\ OwnInv
    BY <1>0, <1>1 DEF WellOrdered, Chained, OwnInv
  <2>2. HeldFits
    BY <1>0 DEF HeldFits
  <2>3. TrackFits
    BY <1>0 DEF TrackFits
  <2>4. SweepInv
    BY <1>0 DEF SweepInv
  <2> QED BY <2>1, <2>2, <2>3, <2>4 DEF OpsInv
<1>4. CallInv
  <2>1. ReconnectInv /\ CallerInv /\ PhaseInv
    BY <1>0, <1>1 DEF ReconnectInv, CallerInv, PhaseInv, Absent, Callers
  <2>2. AdmitInv
    BY <1>0, <1>1 DEF AdmitInv, Admitters, Callers
  <2>3. RaceInv /\ AgreeInv
    BY <1>0, <1>1 DEF RaceInv, AgreeInv, Callers
  <2> QED BY <2>1, <2>2, <2>3 DEF CallInv
<1> QED BY <1>2, <1>3, <1>4

LEMMA NextKeeps ==
  ASSUME TypeInv, OpsInv, CallInv, [MembershipNext]_membershipVars
  PROVE  TypeInv' /\ OpsInv' /\ CallInv'
<1>1. CASE Start
  <2>1. SpentGrows
    BY <1>1, Spending DEF Start
  <2> QED BY <1>1, <2>1, PhaseKeeps DEF Start
<1>2. CASE RoomAdded
  <2>1. SpentGrows /\ reports' = reports /\ reports \in Nat /\ phase' = phase
    BY <1>2, Spending DEF RoomAdded, TypeInv
  <2> QED BY <1>2, <2>1, AdmitRoomKeeps DEF RoomAdded, Admitters
<1>3. CASE Bootstrap
  <2>1. SpentGrows /\ reports' = reports /\ reports \in Nat /\ phase' = phase
    BY <1>3, Spending DEF Bootstrap, TypeInv
  <2> QED BY <1>3, <2>1, AdmitRoomKeeps DEF Bootstrap, Admitters
<1>4. CASE RoomRemoved
  <2>1. /\ SpentGrows /\ reports' = reports /\ reports \in Nat /\ phase = "on" /\ phase' = phase
        /\ UNCHANGED <<tickets, inFlight, runs>> /\ UNCHANGED subSame /\ roster' = roster /\ callers["loop"] = Idle
    BY <1>4, Spending DEF RoomRemoved, TypeInv
  <2>2. RunOperation("loop", KindOf("removing"), [Idle EXCEPT !.pc = "removing"])
    BY <1>4 DEF RoomRemoved, KindOf
  <2> QED BY <2>1, <2>2, LoopRunsKeeps
<1>5. CASE RemovalLeft
  BY <1>5, LoopEndsKeeps DEF RemovalLeft
<1>6. CASE ReconnectedRoom
  <2>1. runs' = (runs /\ callers["loop"].pc = "resync") /\ runs \in BOOLEAN
    BY <1>6 DEF ReconnectedRoom, TypeInv
  <2>2. \/ callers["loop"].pc = "dropping" /\ runs' = FALSE
        \/ callers["loop"].pc = "resync" /\ runs' = runs
    <3>1. CASE callers["loop"].pc = "dropping"
      BY <2>1, <3>1
    <3>2. CASE callers["loop"].pc = "resync"
      BY <2>1, <3>2
    <3> QED BY <1>6, <3>1, <3>2 DEF ReconnectedRoom
  <2> QED BY <1>6, <2>2, LoopEndsKeeps DEF ReconnectedRoom
<1>7. CASE Stop
  <2>1. SpentGrows
    BY <1>7 DEF Stop, SpentGrows, TypeInv
  <2> QED BY <1>7, <2>1, PhaseKeeps DEF Stop
<1>8. CASE StopLeaves
  BY <1>8, StopLeavesKeeps
<1>9. CASE StopEnds
  BY <1>9, StopEndsKeeps
<1>10. CASE \E c \in {"loop", "boot"} : AdmissionSubscribed(c) \/ AdmissionReleased(c)
  BY <1>10, AdmissionSubscribedKeeps, AdmissionReleasedKeeps DEF Admitters
<1>11. CASE \E listed \in {"yes", "no", "failed"} : Reconnected(listed)
  BY <1>11, ReconnectedKeeps
<1>12. CASE OpSteps
  BY <1>12, OpStepsKeep
<1>13. CASE \E joined \in SUBSET Topics2 : Reconnect(joined)
  BY <1>13, ReconnectKeeps
<1>14. CASE SweepStarts \/ \E left \in SUBSET Topics2 : SweepEnds(left)
  BY <1>14, SweepStartsKeeps, SweepEndsKeeps
<1>15. CASE UNCHANGED membershipVars
  <2>1. /\ UNCHANGED <<phase, roster, tickets, inFlight, callers, runs>> /\ UNCHANGED <<reports, spent>>
        /\ UNCHANGED <<tracker, needs, subEpoch, ops, lastOp, opCount, held, sweeps>> /\ UNCHANGED subVars
    BY <1>15 DEF membershipVars, presenceVars, subVars
  <2>2. TypeInv' /\ OpsInv'
    BY <2>1, OpsStay DEF TypeInv
  <2>3. CallInv'
    BY <2>1 DEF CallInv, ReconnectInv, CallerInv, PhaseInv, AdmitInv, RaceInv, AgreeInv, Mine, Absent, OfSession,
                OpIds, Unjudged
  <2> QED BY <2>2, <2>3
<1> QED BY <1>1, <1>2, <1>3, <1>4, <1>5, <1>6, <1>7, <1>8, <1>9, <1>10, <1>11, <1>12, <1>13, <1>14, <1>15
        DEF MembershipNext

LEMMA InvAgrees ==
  ASSUME MembershipInv
  PROVE  MembershipAgrees
<1> SUFFICES ASSUME AtRest
             PROVE  /\ runs = (roster.state = "admitted")
                    /\ roster.state # "admitting"
                    /\ held # {} => roster.state = "admitted" \/ needs
                    /\ tracker.status = "subscribed" => roster.state = "admitted" /\ held = Topics2
                    /\ roster.state = "admitted" /\ spent.failures = 0 /\ reports = 0
                         => tracker.status = "subscribed" \/ spent.reconnects > 0
                    /\ needs = (tracker.status = "dirty")
  BY DEF MembershipAgrees
<1>1. ops = {} /\ \A c \in Callers : callers[c].pc = "idle"
  BY DEF AtRest, Idle
<1>2. spent.reconnects \in Nat /\ tracker.status \in {"none", "joining", "subscribed", "leaving", "dirty"}
  BY DEF MembershipInv, TypeInv
<1>3. roster.state # "admitting" /\ runs = (roster.state = "admitted")
  BY <1>1 DEF MembershipInv, AdmitInv, AgreeInv, Admitters, Callers
<1>4. tracker.status \notin {"joining", "leaving"} /\ (tracker.status = "subscribed" => roster.state = "admitted")
  BY <1>1 DEF MembershipInv, TrackFits, AgreeInv, Admitters, Callers
<1>5. roster.state = "admitted" /\ spent.failures = 0 => tracker.status = "subscribed" \/ spent.reconnects > 0
  BY <1>1, <1>2 DEF MembershipInv, AgreeInv, Callers
<1> QED BY <1>2, <1>3, <1>4, <1>5 DEF MembershipInv, HeldFits

\* Whenever nobody is at work on a room, it is one thing to everyone (RoomPresence.ts,
\* SubscriptionManager.ts): the runtime runs it exactly if the roster has it, a room
\* that is out holds no topic but one whose leave has failed, and one that is in is
\* subscribed unless a join or a leave has failed.
THEOREM RoomsAgree == MembershipSpec => []MembershipAgrees
<1>1. MembershipInit => MembershipInv
  BY InitHolds DEF MembershipInv, OpsInv, CallInv
<1>2. MembershipInv /\ [MembershipNext]_membershipVars => MembershipInv'
  BY NextKeeps DEF MembershipInv, OpsInv, CallInv
<1>3. MembershipInv => MembershipAgrees
  BY InvAgrees
<1> QED BY <1>1, <1>2, <1>3, PTL DEF MembershipSpec
=============================================================================
