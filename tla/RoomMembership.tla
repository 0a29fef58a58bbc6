--------------------------- MODULE RoomMembership ---------------------------
(***************************************************************************)
(* One room's membership: what RoomPresence believes, what                 *)
(* SubscriptionManager has made of it, and what ReconciliationCoordinator  *)
(* cleans up after a reconnect.  Rooms share no state here                 *)
(* (RoomPresence.ts:231-233), so one room stands for all.  The roster and  *)
(* the tracker are the core library's, modelled from how the code uses     *)
(* them; the transport is modelled by what a join or a leave may come to.  *)
(***************************************************************************)
EXTENDS Integers, Sequences, FiniteSets

CONSTANTS
  MaxEvents,     \* bound: room events the server sends
  MaxBoots,      \* bound: bootstraps that ask for the room
  MaxReconnects, \* bound: reconnects
  MaxRuns,       \* bound: starts of RoomPresence
  MaxFailures    \* bound: joins and leaves that fail

ASSUME MembershipAssumption ==
  {MaxEvents, MaxBoots, MaxReconnects, MaxRuns, MaxFailures} \subseteq Nat

Topics2 == {"chat", "participants"}
Callers == {"loop", "boot", "stop"}

VARIABLES
  phase,      \* RoomPresence: off, on or stopping
  roster,     \* RoomRoster: the room's membership and the ticket of its admission
  tickets,    \* how many admission tickets were issued
  inFlight,   \* admissionInFlight: the caller performing it, or "none"
  callers,    \* each caller: what it does, the operation it awaits, its outcome
  runs,       \* does the runtime run the room: told it joined, and not that it left?
  tracker,    \* SubscriptionTracker: the room's status and its ticket
  needs,      \* roomsNeedingReconciliation
  subEpoch,   \* SubscriptionManager.epoch
  ops,        \* the operations in flight and queued; the ids say which came first
  lastOp,     \* the one `operations` holds, or 0
  opCount,    \* how many were started
  held,      \* the topics the transport holds for the room
  sweeps,     \* the reconciliations, one at a time
  reports,    \* reconnected events queued for the event loop
  spent       \* how much of each bound is used

presenceVars == <<phase, roster, tickets, inFlight, callers, runs>>
subVars      == <<tracker, needs, subEpoch, ops, lastOp, opCount, held, sweeps>>
membershipVars == <<presenceVars, subVars, reports, spent>>

Idle == [pc |-> "idle", op |-> 0, ok |-> FALSE, ticket |-> 0]
NoRoom == [state |-> "absent", ticket |-> 0]
Untracked == [status |-> "none", ticket |-> 0]

MembershipInit ==
  /\ phase = "off" /\ roster = NoRoom /\ tickets = 0 /\ inFlight = "none"
  /\ callers = [c \in Callers |-> Idle] /\ runs = FALSE
  /\ tracker = Untracked /\ needs = FALSE /\ subEpoch = 0
  /\ ops = {} /\ lastOp = 0 /\ opCount = 0 /\ held = {} /\ sweeps = <<>>
  /\ reports = 0
  /\ spent = [events |-> 0, boots |-> 0, reconnects |-> 0, runs |-> 0, failures |-> 0]

Spend(what, bound) == spent[what] < bound /\ spent' = [spent EXCEPT ![what] = @ + 1]

----------------------------------------------------------------------------
(* SubscriptionManager: operations on the room.                            *)

Operation(id, kind, at, behind) ==
  [id |-> id, kind |-> kind, after |-> behind, epoch |-> subEpoch, pc |-> at]

\* claimRoomSubscribe() and claimRoomUnsubscribe() to their first await: the
\* operation, the tracker after it, and whether it is over already and how.
Claim(kind, id) ==
  LET op == Operation(id, kind, IF kind = "up" THEN "chat" ELSE "leave", 0) IN
  IF kind = "up"
    THEN IF tracker.status = "none"
           THEN [op |-> op, tracker |-> [status |-> "joining", ticket |-> id], over |-> FALSE, ok |-> FALSE]
           ELSE [op |-> op, tracker |-> tracker, over |-> TRUE, ok |-> tracker.status = "subscribed"]
    ELSE IF tracker.status = "subscribed"
           THEN [op |-> op, tracker |-> [status |-> "leaving", ticket |-> id], over |-> FALSE, ok |-> FALSE]
           ELSE [op |-> op, tracker |-> tracker, over |-> TRUE, ok |-> TRUE]

OpOf(id) == CHOOSE o \in ops : o.id = id
OpIds == {o.id : o \in ops}

\* Broken variant: an operation does not wait for the opposite one in flight.
RunOperationAtOnce(c, kind, next) ==
  LET id == opCount + 1
      claim == Claim(kind, id)
  IN
  IF lastOp # 0 /\ OpOf(lastOp).kind = kind
    THEN /\ callers' = [callers EXCEPT ![c] = [next EXCEPT !.op = lastOp]]
         /\ UNCHANGED <<ops, lastOp, opCount, tracker>>
    ELSE /\ opCount' = id /\ tracker' = claim.tracker
         /\ IF claim.over
              THEN /\ callers' = [callers EXCEPT ![c] = [next EXCEPT !.ok = claim.ok]]
                   /\ UNCHANGED <<ops, lastOp>>
              ELSE /\ ops' = ops \cup {claim.op} /\ lastOp' = id
                   /\ callers' = [callers EXCEPT ![c] = [next EXCEPT !.op = id]]

\* runOperation(), called for caller c, which then awaits it as `next`.
RunOperation(c, kind, next) ==
  LET id == opCount + 1
      mine == [next EXCEPT !.op = id]
      claim == Claim(kind, id)
  IN
  IF lastOp # 0 /\ OpOf(lastOp).kind = kind
    THEN /\ callers' = [callers EXCEPT ![c] = [next EXCEPT !.op = lastOp]]
         /\ UNCHANGED <<ops, lastOp, opCount, tracker>>
    ELSE /\ opCount' = id
         /\ IF lastOp # 0
              THEN /\ ops' = ops \cup {Operation(id, kind, "queued", lastOp)}
                   /\ lastOp' = id /\ callers' = [callers EXCEPT ![c] = mine]
                   /\ UNCHANGED tracker
              ELSE /\ tracker' = claim.tracker
                   /\ IF claim.over
                        THEN /\ callers' = [callers EXCEPT ![c] = [next EXCEPT !.ok = claim.ok]]
                             /\ UNCHANGED <<ops, lastOp>>
                        ELSE /\ ops' = ops \cup {claim.op} /\ lastOp' = id
                             /\ callers' = [callers EXCEPT ![c] = mine]

Replace(op, new) == (ops \ {op}) \cup {new}

\* The operation settles: its callers go on, and its slot is freed.
Settled(op, ok) ==
  /\ ops' = ops \ {op}
  /\ lastOp' = IF lastOp = op.id THEN 0 ELSE lastOp
  /\ callers' = [c \in Callers |-> IF callers[c].op = op.id
                                     THEN [callers[c] EXCEPT !.op = 0, !.ok = ok] ELSE callers[c]]

\* Every promise that has settled has been acted on: only then do a reply, a caller
\* from outside or a reconnect come in.
Awaiting ==
  /\ \A c \in Callers \ {"stop"} : callers[c].op = 0 => callers[c].pc \in {"idle", "awaiting"}
  /\ \A o \in ops : o.pc = "queued" => o.after \in OpIds

Fails(op) == IF op.epoch = subEpoch THEN Spend("failures", MaxFailures) ELSE UNCHANGED spent
Fresh(op) == op.epoch = subEpoch

\* A queued operation's turn: it claims only now, whatever has happened since.
OpStarts(op) ==
  /\ op.pc = "queued" /\ op.after \notin OpIds
  /\ LET claim == Claim(op.kind, op.id) IN
     /\ tracker' = claim.tracker
     /\ IF claim.over THEN Settled(op, claim.ok)
                      ELSE ops' = Replace(op, claim.op) /\ UNCHANGED <<lastOp, callers>>
  /\ UNCHANGED <<phase, roster, tickets, inFlight, runs, needs, subEpoch, opCount, held,
                 sweeps, reports, spent>>

\* The chat topic's join.  A join of an ended session fails with it.
ChatJoins(op, ok) ==
  /\ op.pc = "chat" /\ (ok => Fresh(op))
  /\ IF ok
       THEN /\ held' = held \cup {"chat"}
            /\ ops' = Replace(op, [op EXCEPT !.pc = "participants"])
            /\ UNCHANGED <<tracker, lastOp, callers, spent>>
       ELSE /\ Fails(op) /\ Settled(op, FALSE)
            /\ tracker' = IF Fresh(op) /\ tracker.ticket = op.id THEN Untracked ELSE tracker
            /\ UNCHANGED held
  /\ UNCHANGED <<phase, roster, tickets, inFlight, runs, needs, subEpoch, opCount, sweeps, reports>>

\* The participants topic's; without it the chat topic is to be left again.
ParticipantsJoin(op, ok) ==
  /\ op.pc = "participants" /\ (ok => Fresh(op))
  /\ IF ok
       THEN /\ held' = held \cup {"participants"}
            /\ tracker' = IF tracker.ticket = op.id THEN [tracker EXCEPT !.status = "subscribed"] ELSE tracker
            /\ Settled(op, TRUE) /\ UNCHANGED spent
       ELSE /\ Fails(op)
            /\ IF Fresh(op) THEN ops' = Replace(op, [op EXCEPT !.pc = "rollback"])
                                 /\ UNCHANGED <<lastOp, callers>>
                            ELSE Settled(op, FALSE)
            /\ UNCHANGED <<held, tracker>>
  /\ UNCHANGED <<phase, roster, tickets, inFlight, runs, needs, subEpoch, opCount, sweeps, reports>>

RollsBack(op, ok) ==
  /\ op.pc = "rollback"
  /\ IF ok THEN held' = (IF Fresh(op) THEN held \ {"chat"} ELSE held) /\ UNCHANGED spent
           ELSE Fails(op) /\ UNCHANGED held
  /\ Settled(op, FALSE)
  /\ IF tracker.ticket = op.id
       THEN /\ tracker' = IF ok THEN Untracked ELSE [tracker EXCEPT !.status = "dirty"]
            /\ needs' = (needs \/ ~ok)
       ELSE UNCHANGED <<tracker, needs>>
  /\ UNCHANGED <<phase, roster, tickets, inFlight, runs, subEpoch, opCount, sweeps, reports>>

\* Both leaves of an unsubscribe have settled; `left` went through.
Leaves(op, left) ==
  /\ op.pc = "leave"
  /\ LET ok == left = Topics2
         outcome == IF ~Fresh(op) THEN "unknown" ELSE IF ok THEN "left" ELSE "failed" IN
     /\ IF ok THEN UNCHANGED spent ELSE Fails(op)
     /\ held' = IF Fresh(op) THEN held \ left ELSE held
     /\ Settled(op, ok)
     /\ IF tracker.ticket = op.id
          THEN /\ tracker' = IF outcome = "left" THEN Untracked ELSE [tracker EXCEPT !.status = "dirty"]
               /\ needs' = (needs \/ outcome # "left")
          ELSE UNCHANGED <<tracker, needs>>
  /\ UNCHANGED <<phase, roster, tickets, inFlight, runs, subEpoch, opCount, sweeps, reports>>

OpSteps ==
  \E op \in ops :
    \/ OpStarts(op)
    \/ /\ Awaiting
       /\ \/ \E ok \in BOOLEAN : ChatJoins(op, ok) \/ ParticipantsJoin(op, ok) \/ RollsBack(op, ok)
          \/ \E left \in SUBSET Topics2 : Leaves(op, left)

----------------------------------------------------------------------------
(* ReconciliationCoordinator.                                              *)

\* A reconnect: the rejoin candidates are read now, judged in turn.
Reconnect(joined) ==
  /\ phase # "off" /\ Awaiting /\ Spend("reconnects", MaxReconnects)
  /\ sweeps' = Append(sweeps, [epoch |-> subEpoch, stage |-> "queued",
                  lost |-> /\ tracker.status = "subscribed" /\ held = Topics2 /\ joined # Topics2,
                  ticket |-> tracker.ticket])
  /\ UNCHANGED <<presenceVars, tracker, needs, subEpoch, ops, lastOp, opCount, held, reports>>

\* markRoomRejoinFailed(): only the subscription the snapshot was of.
Judges(s) == s.lost /\ tracker = [status |-> "subscribed", ticket |-> s.ticket]

SweepStarts ==
  /\ sweeps # <<>> /\ Head(sweeps).stage = "queued"
  /\ LET s == Head(sweeps)
         dirty == needs \/ Judges(s) IN
     IF s.epoch # subEpoch
       THEN /\ sweeps' = Tail(sweeps) /\ UNCHANGED <<tracker, needs, reports>>
       ELSE /\ tracker' = IF Judges(s) THEN [tracker EXCEPT !.status = "dirty"] ELSE tracker
            /\ needs' = dirty
            /\ IF dirty THEN /\ sweeps' = <<[s EXCEPT !.stage = "leaving"]>> \o Tail(sweeps)
                             /\ UNCHANGED reports
                        ELSE sweeps' = Tail(sweeps) /\ reports' = reports + 1
  /\ UNCHANGED <<presenceVars, subEpoch, ops, lastOp, opCount, held, spent>>

\* drainReconciliation() and acknowledgeCleanup(); BandLink then queues the event,
\* unless the session ended.
SweepEnds(left) ==
  /\ sweeps # <<>> /\ Head(sweeps).stage = "leaving" /\ Awaiting
  /\ sweeps' = Tail(sweeps)
  /\ LET s == Head(sweeps) IN
     IF s.epoch # subEpoch
       THEN UNCHANGED <<tracker, needs, held, spent, reports>>
       ELSE /\ held' = held \ left
            /\ IF left = Topics2
                 THEN /\ needs' = (tracker.status # "dirty")
                      /\ tracker' = IF tracker.status = "dirty" THEN Untracked ELSE tracker
                      /\ UNCHANGED spent
                 ELSE Spend("failures", MaxFailures) /\ UNCHANGED <<tracker, needs>>
            /\ reports' = reports + 1
  /\ UNCHANGED <<presenceVars, subEpoch, ops, lastOp, opCount>>

----------------------------------------------------------------------------
(* RoomPresence.                                                           *)

subSame == <<needs, subEpoch, held, sweeps>>

\* performAdmission() is over: its caller and those that shared it go on, and tell
\* the runtime of a room that is in.
Admitted(c, result) ==
  /\ callers' = [d \in Callers |->
        IF d = c \/ (callers[d].pc = "awaiting" /\ callers[d].ticket = callers[c].ticket)
          THEN Idle ELSE callers[d]]
  /\ inFlight' = IF inFlight = c THEN "none" ELSE inFlight
  /\ runs' = (runs \/ result)

\* admitRoom(): the room's ticket is taken, or another's admission is shared.
AdmitRoom(c) ==
  /\ callers[c] = Idle
  /\ CASE roster.state = "absent" ->
            /\ tickets' = tickets + 1
            /\ roster' = [state |-> "admitting", ticket |-> tickets + 1]
            /\ inFlight' = c
            /\ RunOperation(c, "up", [Idle EXCEPT !.pc = "admitting", !.ticket = tickets + 1])
            /\ UNCHANGED runs
       [] roster.state # "absent" /\ inFlight # "none" ->
            /\ callers' = [callers EXCEPT ![c] = [Idle EXCEPT !.pc = "awaiting",
                                                    !.ticket = callers[inFlight].ticket]]
            /\ UNCHANGED <<tickets, roster, inFlight, runs, ops, lastOp, opCount, tracker>>
       [] OTHER ->
            /\ runs' = (runs \/ roster.state = "admitted")
            /\ UNCHANGED <<callers, tickets, roster, inFlight, ops, lastOp, opCount, tracker>>
  /\ UNCHANGED subSame

\* completeAdmission() after its subscribe.
AdmissionSubscribed(c) ==
  /\ callers[c].pc = "admitting" /\ callers[c].op = 0
  /\ LET mine == roster = [state |-> "admitting", ticket |-> callers[c].ticket]
         ok   == callers[c].ok IN
     /\ roster' = IF ~mine THEN roster
                  ELSE IF ok THEN [roster EXCEPT !.state = "admitted"] ELSE NoRoom
     /\ IF ok /\ roster'.state # "admitted"
          THEN /\ RunOperation(c, "down", [callers[c] EXCEPT !.pc = "releasing"])
               /\ UNCHANGED <<inFlight, runs>>
          ELSE /\ Admitted(c, roster'.state = "admitted")
               /\ UNCHANGED <<ops, lastOp, opCount, tracker>>
  /\ UNCHANGED <<phase, tickets, reports, spent, subSame>>

AdmissionReleased(c) ==
  /\ callers[c].pc = "releasing" /\ callers[c].op = 0
  /\ Admitted(c, FALSE)
  /\ UNCHANGED <<phase, roster, tickets, subVars, reports, spent>>

\* startBody(); the rooms it lists are admitted like rooms that are added.
Start ==
  /\ phase = "off" /\ Awaiting /\ callers["loop"] = Idle /\ callers["stop"] = Idle
  /\ Spend("runs", MaxRuns)
  /\ phase' = "on"
  /\ UNCHANGED <<roster, tickets, inFlight, callers, runs, subVars, reports>>

RoomAdded ==
  /\ phase = "on" /\ Spend("events", MaxEvents)
  /\ AdmitRoom("loop") /\ UNCHANGED <<phase, reports>>

\* AgentRuntime's bootstrap: admitRoomOrThrow(), outside the event loop.
Bootstrap ==
  /\ phase = "on" /\ Awaiting /\ Spend("boots", MaxBoots)
  /\ AdmitRoom("boot") /\ UNCHANGED <<phase, reports>>

\* handleRoomRemoved(): the topics first, the roster after.
RoomRemoved ==
  /\ phase = "on" /\ callers["loop"] = Idle /\ Spend("events", MaxEvents)
  /\ RunOperation("loop", "down", [Idle EXCEPT !.pc = "removing"])
  /\ UNCHANGED <<phase, roster, tickets, inFlight, runs, reports, subSame>>

RemovalLeft ==
  /\ callers["loop"].pc = "removing" /\ callers["loop"].op = 0
  /\ callers' = [callers EXCEPT !["loop"] = Idle]
  /\ roster' = NoRoom
  /\ runs' = (runs /\ roster.state # "admitted")
  /\ UNCHANGED <<phase, tickets, inFlight, subVars, reports, spent>>

\* handleReconnected() with the room listed, not listed, or the listing failed.
Reconnected(listed) ==
  /\ phase = "on" /\ callers["loop"] = Idle /\ reports > 0
  /\ reports' = reports - 1
  /\ CASE listed = "yes" /\ roster.state = "absent" ->
            AdmitRoom("loop")
       [] listed = "yes" /\ roster.state = "admitted" ->
            /\ RunOperation("loop", "up", [Idle EXCEPT !.pc = "resync"])
            /\ UNCHANGED <<roster, tickets, inFlight, runs, subSame>>
       [] listed = "no" /\ roster.state = "admitted" ->
            /\ roster' = NoRoom
            /\ RunOperation("loop", "down", [Idle EXCEPT !.pc = "dropping"])
            /\ UNCHANGED <<tickets, inFlight, runs, subSame>>
       [] OTHER -> UNCHANGED <<roster, tickets, inFlight, callers, runs, subVars>>
  /\ UNCHANGED <<phase, spent>>

ReconnectedRoom ==
  /\ callers["loop"].pc \in {"resync", "dropping"} /\ callers["loop"].op = 0
  /\ callers' = [callers EXCEPT !["loop"] = Idle]
  /\ runs' = (runs /\ callers["loop"].pc = "resync")
  /\ UNCHANGED <<phase, roster, tickets, inFlight, subVars, reports, spent>>

\* stopBody(): the event being handled is waited out, then the rooms are left.
Stop ==
  /\ phase = "on" /\ Awaiting /\ phase' = "stopping"
  /\ UNCHANGED <<roster, tickets, inFlight, callers, runs, subVars, reports, spent>>

StopLeaves ==
  /\ phase = "stopping" /\ Awaiting /\ callers["loop"] = Idle /\ callers["stop"] = Idle
  /\ roster' = NoRoom
  /\ IF roster.state = "admitted"
       THEN RunOperation("stop", "down", [Idle EXCEPT !.pc = "tearing"])
       ELSE /\ callers' = [callers EXCEPT !["stop"].pc = "tearing"]
            /\ UNCHANGED <<ops, lastOp, opCount, tracker>>
  /\ UNCHANGED <<phase, tickets, inFlight, runs, reports, spent, subSame>>

\* The runtime disconnects its link next: transport.disconnect() and endSession().
StopEnds ==
  /\ callers["stop"].pc = "tearing" /\ callers["stop"].op = 0 /\ Awaiting
  /\ callers' = [callers EXCEPT !["stop"] = Idle]
  /\ phase' = "off" /\ runs' = FALSE
  /\ subEpoch' = subEpoch + 1 /\ tracker' = Untracked /\ needs' = FALSE
  /\ lastOp' = 0 /\ held' = {}
  /\ UNCHANGED <<roster, tickets, inFlight, ops, opCount, sweeps, reports, spent>>

----------------------------------------------------------------------------
MembershipNext ==
  \/ Start \/ RoomAdded \/ RoomRemoved \/ RemovalLeft \/ Bootstrap \/ Stop \/ StopLeaves \/ StopEnds
  \/ \E c \in {"loop", "boot"} : AdmissionSubscribed(c) \/ AdmissionReleased(c)
  \/ \E listed \in {"yes", "no", "failed"} : Reconnected(listed)
  \/ ReconnectedRoom \/ OpSteps
  \/ \E joined \in SUBSET Topics2 : Reconnect(joined)
  \/ SweepStarts \/ \E left \in SUBSET Topics2 : SweepEnds(left)

MembershipSpec == MembershipInit /\ [][MembershipNext]_membershipVars

----------------------------------------------------------------------------
(* Properties.                                                             *)

\* Nobody is doing anything about the room.
AtRest == ops = {} /\ sweeps = <<>> /\ \A c \in Callers : callers[c] = Idle

\* When nobody is at work on a room, it is one thing to everyone: the runtime runs it
\* exactly if the roster has it; a room that is not in holds no topic, unless a
\* failed leave waits for the next reconnect; and one that is in is subscribed
\* unless a join or a leave has failed (RoomPresence.ts:137-143).
MembershipAgrees ==
  AtRest =>
    /\ runs = (roster.state = "admitted")
    /\ roster.state # "admitting"
    /\ held # {} => roster.state = "admitted" \/ needs
    /\ tracker.status = "subscribed" => roster.state = "admitted" /\ held = Topics2
    /\ roster.state = "admitted" /\ spent.failures = 0 /\ reports = 0
         => tracker.status = "subscribed" \/ spent.reconnects > 0
    /\ needs = (tracker.status = "dirty")
=============================================================================
