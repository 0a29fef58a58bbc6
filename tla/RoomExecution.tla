--------------------------- MODULE RoomExecution ---------------------------
(***************************************************************************)
(* One room of a Band agent: the Execution that serialises its turns       *)
(* (runtime/Execution.ts), the boundaries of its backlog scans             *)
(* (runtime/SyncBoundaryTracker.ts), the turn it runs for each message     *)
(* (PlatformRuntime.executeAdapter, DefaultPreprocessor) and the marks the *)
(* platform keeps on the room's messages (BandLink).                       *)
(*                                                                         *)
(* The process loop is one thread of control: `pc` names the await it is   *)
(* parked at.  Between two awaits JavaScript runs without interruption, so *)
(* an action is the code from one await to the next.  Around the loop run  *)
(* the socket (Post, Deliver, Reconnect), bootstrap callers, the held      *)
(* turn that outlived its handler, and one stop().                         *)
(***************************************************************************)
EXTENDS Integers, Sequences

CONSTANTS
  NumMessages,    \* the room's messages are 1..NumMessages, in creation order
  MaxReconnects,  \* bound: reconnected events the socket may deliver
  MaxDeliveries,  \* bound: live deliveries of one message
  MaxRetries,     \* sessionConfig.maxMessageRetries
  SeenWindow,     \* how many recorded ids ExecutionContext remembers
  Replies,        \* messages worded as an answer to an ask
  Echoes,         \* messages the agent itself sent
  Bootstraps,     \* messages a caller may hand to bootstrapMessage
  StopBudgets     \* the budgets stop() may be called with

ASSUME RoomAssumption ==
  /\ NumMessages \in Nat \ {0}
  /\ MaxReconnects \in Nat
  /\ MaxDeliveries \in Nat
  /\ MaxRetries \in Nat
  /\ SeenWindow \in Nat \ {0}
  /\ Replies \subseteq 1..NumMessages
  /\ Echoes \subseteq 1..NumMessages
  /\ Bootstraps \subseteq 1..NumMessages
  /\ StopBudgets \subseteq {"zero", "finite", "unlimited"}

Messages   == 1..NumMessages
Boundaries == 1..(MaxReconnects + 1)   \* boundary 1 is `initial`
None       == 0                        \* no message, or no boundary

VARIABLES
  mark,        \* the platform's status of each message
  delivered,   \* live deliveries so far (environment budget)
  queue,       \* eventQueue
  status,      \* lifecycle.state.status
  closed,
  hold,        \* the held turn whose end releases the room, or None
  heldTurns,   \* turns that returned from their handler and still run
  asking,      \* the held turn has an ask open
  inFlight,
  openBounds,  \* SyncBoundaryTracker.queue
  anchorOf,    \* SyncBoundary.messageId of each boundary
  begun,       \* boundaries begun so far
  executed,    \* executedMessageIds
  seenAt,      \* when ExecutionContext last recorded a message, or 0
  seenCount,
  primed,      \* context.isLlmInitialized
  attempts,    \* RetryTracker
  givenUp,
  pc,          \* the await the process loop is parked at
  cur,         \* the message the loop works on
  origin,      \* what made it do so
  control,     \* whether that message was let through a hold
  outcome,     \* how its turn ended
  scan,        \* the boundary of the running synchronizeWithNext
  sweeping,    \* inside catchUp
  staleLeft,   \* stale messages still to recover
  taken,       \* the event nextQueuedEvent just returned
  stopper,     \* where the caller of stop() is
  budget,
  waitResult,  \* waitForIdle's promise
  graceful,
  boot,        \* each bootstrap caller
  runs,        \* history: adapter runs of each message
  accepted     \* history: messages whose live event the queue took

platformVars == <<mark, delivered>>
trackerVars  == <<openBounds, anchorOf, begun, executed>>
contextVars  == <<seenAt, seenCount, primed, attempts, givenUp>>
holdVars     == <<hold, heldTurns, asking>>
turnVars     == <<cur, origin, control, outcome>>
loopVars     == <<scan, sweeping, staleLeft, taken>>
stopVars     == <<stopper, budget, graceful>>
vars == <<platformVars, queue, status, closed, holdVars, inFlight, trackerVars,
          contextVars, pc, turnVars, loopVars, stopVars, waitResult, boot,
          runs, accepted>>

Entry(kind, m, b) == [kind |-> kind, id |-> m, boundary |-> b,
                      control |-> "unseen", afterHold |-> FALSE]
NoEvent == Entry("none", None, None)

Marks   == {"unborn", "pending", "processing", "processed", "failed"}
Entries == [kind : {"message", "bootstrap"}, id : Messages, boundary : {None},
            control : {"unseen", "yes", "no"}, afterHold : {FALSE}]
           \cup [kind : {"reconnected"}, id : {None}, boundary : Boundaries \cup {None},
                 control : {"unseen"}, afterHold : BOOLEAN]
InTurn  == {"hydrate", "claim", "agent", "settle", "return"}
GivingUp == {"giveUpClaim", "giveUpMark"}
PCs     == InTurn \cup GivingUp \cup
           {"fetchStale", "stale", "sync", "read", "next", "parked", "dispatch",
            "failing", "crashing", "done", "crashed"}

----------------------------------------------------------------------------
(* The platform: its marks and what /messages/next serves.                 *)

Born == {m \in Messages : mark[m] # "unborn"}

\* Band serves the oldest message not yet processed, a failed one included.
Unprocessed == {m \in Born : mark[m] # "processed"}
Oldest(S) == CHOOSE m \in S : \A k \in S : m <= k

\* A processing mark claims the message; a verdict needs the claim.
Claimed(m) == IF mark[m] = "processed" THEN mark
              ELSE [mark EXCEPT ![m] = "processing"]
Settled(m, verdict) == IF mark[m] = "processing" THEN [mark EXCEPT ![m] = verdict]
                       ELSE mark

\* A mark is best effort: the request may fail, and then nothing changes.
Attempt(marked) == mark' \in {mark, marked}

----------------------------------------------------------------------------
(* The queue, holds and idleness.                                          *)

\* Broken variant: the queue's closing does not retire the loop.
ActiveByStatus == status \in {"running", "stopping"}

Active == ~closed /\ status \in {"running", "stopping"}

\* PlatformRuntime.isControlEvent: an answer counts only while an ask is open.
IsControl(m) == m \in Replies \ Echoes /\ asking

ControlOf(e) == IF e.control # "unseen" THEN e.control
                ELSE IF IsControl(e.id) THEN "yes" ELSE "no"

\* Broken variant: a bootstrap jumps the hold.
MayRunBootstraps(e, h) ==
  \/ h = None \/ e.kind = "bootstrap"
  \/ e.kind = "reconnected" /\ ~e.afterHold
  \/ e.kind # "reconnected" /\ ControlOf(e) = "yes"

MayRun(e, h) == \/ h = None
                \/ e.kind = "reconnected" /\ ~e.afterHold
                \/ e.kind # "reconnected" /\ ControlOf(e) = "yes"

Runnable(q, h) == {i \in DOMAIN q : MayRun(q[i], h)}

\* Looking for the first runnable event classifies every message up to it, once.
Sighted(q, h) ==
  IF h = None THEN q
  ELSE [i \in DOMAIN q |->
          IF q[i].kind # "reconnected" /\ \A j \in Runnable(q, h) : i <= j
          THEN [q[i] EXCEPT !.control = ControlOf(q[i])] ELSE q[i]]

IsIdle(q, open, n, h) == open = <<>> /\ n = 0 /\ Runnable(q, h) = {}

\* isIdle() reads the queue only once the counters allow it.
IdleSighted(q, open, n, h) == IF open = <<>> /\ n = 0 THEN Sighted(q, h) ELSE q

NotifyIfIdle(q, open, n, h) ==
  /\ queue' = IdleSighted(q, open, n, h)
  /\ waitResult' = IF /\ stopper = "waiting" /\ waitResult = "pending"
                      /\ IsIdle(q, open, n, h)
                   THEN "idle" ELSE waitResult

\* Broken variant: nobody wakes the parked loop.
NeverWoken(p) == p

Woken(p) == IF p = "parked" THEN "next" ELSE p

RemoveAt(q, i) == SubSeq(q, 1, i - 1) \o SubSeq(q, i + 1, Len(q))

\* Broken variant: the queue is discarded without telling anyone.
DroppedSilently == boot

\* What dropQueued tells the bootstrap callers still in the queue.
Dropped == [m \in Messages |->
              IF \E i \in DOMAIN queue : queue[i].kind = "bootstrap" /\ queue[i].id = m
              THEN "dropped" ELSE boot[m]]

\* The microtask that resumes stop() runs before the next timer, socket event
\* or REST answer, so those wait for it.
Settling == stopper = "waiting" /\ waitResult # "pending"

----------------------------------------------------------------------------
Init ==
  /\ mark \in [Messages -> Marks]
  /\ \A m, k \in Messages : m < k /\ mark[m] = "unborn" => mark[k] = "unborn"
  /\ delivered = [m \in Messages |-> 0]
  /\ queue = <<>> /\ status = "running" /\ closed = FALSE
  /\ hold = None /\ heldTurns = {} /\ asking = FALSE
  /\ inFlight = 0
  /\ openBounds = <<1>> /\ anchorOf = [b \in Boundaries |-> None] /\ begun = 1
  /\ executed = {}
  /\ seenAt = [m \in Messages |-> 0] /\ seenCount = 0 /\ primed = FALSE
  /\ attempts = [m \in Messages |-> 0] /\ givenUp = {}
  /\ pc = "fetchStale"
  /\ cur = None /\ origin = "none" /\ control = "unseen" /\ outcome = "ok"
  /\ scan = None /\ sweeping = FALSE /\ staleLeft = {} /\ taken = NoEvent
  /\ stopper = "none" /\ budget = "unset" /\ waitResult = "pending" /\ graceful = FALSE
  /\ boot = [m \in Messages |-> "none"]
  /\ runs = [m \in Messages |-> 0]
  /\ accepted = {}

----------------------------------------------------------------------------
(* The environment: new messages, live events, reconnects, bootstraps.     *)

Post(m) ==
  /\ mark[m] = "unborn" /\ \A k \in Messages : k < m => mark[k] # "unborn"
  /\ mark' = [mark EXCEPT ![m] = "pending"]
  /\ UNCHANGED <<delivered, queue, status, closed, holdVars, inFlight, trackerVars,
                 contextVars, pc, turnVars, loopVars, stopVars, waitResult, boot,
                 runs, accepted>>

\* A live message anchors the oldest open boundary that has no message yet.
Unanchored == {i \in DOMAIN openBounds : anchorOf[openBounds[i]] = None}
Anchored(m) ==
  IF Unanchored = {} THEN anchorOf
  ELSE [anchorOf EXCEPT ![openBounds[Oldest(Unanchored)]] = m]

Ended == closed \/ status \in {"stopped", "failed"}

\* push() refuses an event once the room ended; the boundary work precedes it.
Push(e) ==
  IF Ended THEN UNCHANGED <<queue, pc>>
  ELSE queue' = Append(queue, e) /\ pc' = Woken(pc)

\* Broken variant: the message that anchors a boundary is left to the scan.
DeliverUnlessAnchor(m) ==
  /\ m \in Born /\ delivered[m] < MaxDeliveries /\ ~Settling
  /\ delivered' = [delivered EXCEPT ![m] = @ + 1]
  /\ anchorOf' = Anchored(m)
  /\ IF Unanchored = {} THEN Push(Entry("message", m, None)) ELSE UNCHANGED <<queue, pc>>
  /\ accepted' = IF Ended THEN accepted ELSE accepted \cup {m}
  /\ UNCHANGED <<mark, status, closed, holdVars, inFlight, openBounds, begun, executed,
                 contextVars, turnVars, loopVars, stopVars, waitResult, boot, runs>>

Deliver(m) ==
  /\ m \in Born /\ delivered[m] < MaxDeliveries /\ ~Settling
  /\ delivered' = [delivered EXCEPT ![m] = @ + 1]
  /\ anchorOf' = Anchored(m)
  /\ Push(Entry("message", m, None))
  /\ accepted' = IF Ended THEN accepted ELSE accepted \cup {m}
  /\ UNCHANGED <<mark, status, closed, holdVars, inFlight, openBounds, begun, executed,
                 contextVars, turnVars, loopVars, stopVars, waitResult, boot, runs>>

Reconnect ==
  /\ begun <= MaxReconnects /\ ~Settling
  /\ begun' = begun + 1
  /\ openBounds' = Append(openBounds, begun + 1)
  /\ Push(Entry("reconnected", None, begun + 1))
  /\ UNCHANGED <<platformVars, status, closed, holdVars, inFlight, anchorOf, executed,
                 contextVars, turnVars, loopVars, stopVars, waitResult, boot, runs, accepted>>

BootstrapMessage(m) ==
  /\ m \in Bootstraps \cap Born /\ boot[m] = "none" /\ ~Settling
  /\ Push(Entry("bootstrap", m, None))
  /\ boot' = [boot EXCEPT ![m] = IF Ended THEN "refused" ELSE "waiting"]
  /\ UNCHANGED <<platformVars, status, closed, holdVars, inFlight, trackerVars,
                 contextVars, turnVars, loopVars, stopVars, waitResult, runs, accepted>>

----------------------------------------------------------------------------
(* Held turns.                                                             *)

\* holdRoomUntil's continuation: only the current hold's end releases the room.
HoldEnds(m) ==
  /\ m \in heldTurns /\ ~Settling
  /\ heldTurns' = heldTurns \ {m}
  /\ IF hold = m
     THEN /\ hold' = None /\ asking' = FALSE /\ pc' = Woken(pc)
          /\ NotifyIfIdle(queue, openBounds, inFlight, None)
     ELSE UNCHANGED <<hold, asking, pc, queue, waitResult>>
  /\ UNCHANGED <<platformVars, status, closed, inFlight, trackerVars, contextVars,
                 turnVars, loopVars, stopVars, boot, runs, accepted>>

\* The held turn opens an ask, or one expires; external to the room.
AskChanges ==
  /\ heldTurns # {}
  /\ asking' = ~asking
  /\ UNCHANGED <<platformVars, queue, status, closed, hold, heldTurns, inFlight,
                 trackerVars, contextVars, pc, turnVars, loopVars, stopVars,
                 waitResult, boot, runs, accepted>>

----------------------------------------------------------------------------
(* One turn: executeAdapter around the adapter.                            *)

\* Broken variant: only what ran outside live delivery is remembered.
HasMessageSynced(m) == m \in executed

HasMessage(m) == seenAt[m] > 0 /\ seenCount - seenAt[m] < SeenWindow

\* Recorded before the adapter runs; a message seen before is no turn at all.
BeginTurn(m, why, through) ==
  /\ inFlight' = inFlight + 1
  /\ cur' = m /\ origin' = why /\ control' = through /\ outcome' = "ok"
  /\ IF ~Active \/ m \in Echoes \/ HasMessage(m)
     THEN pc' = "return" /\ UNCHANGED <<seenAt, seenCount, primed>>
     ELSE /\ seenCount' = seenCount + 1
          /\ seenAt' = [seenAt EXCEPT ![m] = seenCount + 1]
          /\ primed' = TRUE
          /\ pc' = IF primed THEN "claim" ELSE "hydrate"

\* executeSyncMessage up to its first await: a turn, or giving up.
BeginSync(m, why, through) ==
  IF m \in givenUp \/ attempts[m] + 1 > MaxRetries
  THEN /\ givenUp' = givenUp \cup {m}
       /\ cur' = m /\ origin' = why /\ control' = through /\ outcome' = "ok"
       /\ pc' = "giveUpClaim"
       /\ UNCHANGED <<attempts, inFlight, seenAt, seenCount, primed>>
  ELSE /\ attempts' = [attempts EXCEPT ![m] = @ + 1]
       /\ BeginTurn(m, why, through)
       /\ UNCHANGED givenUp

\* The room's first turn hydrates its history over REST, which may fail.
Hydrated ==
  /\ pc = "hydrate" /\ ~Settling
  /\ \/ outcome' = "fatal" /\ pc' = "return"
     \/ outcome' = "ok" /\ pc' = IF Active THEN "claim" ELSE "return"
  /\ UNCHANGED <<platformVars, queue, status, closed, holdVars, inFlight, trackerVars,
                 contextVars, cur, origin, control, loopVars, stopVars, waitResult,
                 boot, runs, accepted>>

\* markProcessing, the working lease, then the adapter unless the room closed.
TurnClaimed ==
  /\ pc = "claim" /\ ~Settling
  /\ Attempt(Claimed(cur))
  /\ IF Active THEN pc' = "agent" /\ runs' = [runs EXCEPT ![cur] = @ + 1]
     ELSE pc' = "return" /\ UNCHANGED runs
  /\ UNCHANGED <<delivered, queue, status, closed, holdVars, inFlight, trackerVars,
                 contextVars, turnVars, loopVars, stopVars, waitResult, boot, accepted>>

\* adapter.onEvent ends; a turn may outlive it and hold the room.  A reply let
\* through a hold answers the ask, or is a turn of its own when the held turn and
\* its ask are gone by then: it detaches nothing while that turn runs.
AgentReturns ==
  /\ pc = "agent" /\ ~Settling
  /\ \E end \in {"ok", "recoverable", "fatal"}, detached \in BOOLEAN :
       /\ detached => end = "ok" /\ (control # "yes" \/ heldTurns = {})
       /\ IF detached
          THEN hold' = cur /\ heldTurns' = heldTurns \cup {cur} /\ asking' = TRUE
          ELSE /\ UNCHANGED <<hold, heldTurns>>
               /\ asking' = (asking /\ control # "yes")
       /\ IF Active THEN pc' = "settle" /\ outcome' = end
          ELSE pc' = "return" /\ outcome' = "ok"
  /\ UNCHANGED <<platformVars, queue, status, closed, inFlight, trackerVars, contextVars,
                 cur, origin, control, loopVars, stopVars, waitResult, boot, runs, accepted>>

TurnSettled ==
  /\ pc = "settle" /\ ~Settling
  /\ Attempt(Settled(cur, IF outcome = "ok" THEN "processed" ELSE "failed"))
  /\ pc' = "return"
  /\ UNCHANGED <<delivered, queue, status, closed, holdVars, inFlight, trackerVars,
                 contextVars, turnVars, loopVars, stopVars, waitResult, boot, runs, accepted>>

----------------------------------------------------------------------------
(* Backlog: stale recovery, the /next scan and giving up.                  *)

\* The turn's locals go out of scope.
TurnOver == cur' = None /\ origin' = "none" /\ control' = "unseen" /\ outcome' = "ok"

\* Broken variants of EndScan: it counts a catch-up out of every scan; it counts
\* none out; it dequeues the oldest boundary whoever's scan ended.
EndScanUncounts(q, n) ==
  /\ openBounds' = IF openBounds # <<>> /\ Head(openBounds) = scan
                   THEN Tail(openBounds) ELSE openBounds
  /\ inFlight' = n - 1
  /\ sweeping' = FALSE /\ scan' = None /\ pc' = "next"
  /\ NotifyIfIdle(q, openBounds', inFlight', hold)

EndScanStaysBusy(q, n) ==
  /\ openBounds' = IF openBounds # <<>> /\ Head(openBounds) = scan
                   THEN Tail(openBounds) ELSE openBounds
  /\ inFlight' = n
  /\ sweeping' = FALSE /\ scan' = None /\ pc' = "next"
  /\ NotifyIfIdle(q, openBounds', inFlight', hold)

EndScanShifts(q, n) ==
  /\ openBounds' = IF openBounds # <<>> THEN Tail(openBounds) ELSE openBounds
  /\ inFlight' = IF sweeping THEN n - 1 ELSE n
  /\ sweeping' = FALSE /\ scan' = None /\ pc' = "next"
  /\ NotifyIfIdle(q, openBounds', inFlight', hold)

\* completeBoundary, catchUp's finally, and the idle check both make.
EndScan(q, n) ==
  /\ openBounds' = IF openBounds # <<>> /\ Head(openBounds) = scan
                   THEN Tail(openBounds) ELSE openBounds
  /\ inFlight' = IF sweeping THEN n - 1 ELSE n
  /\ sweeping' = FALSE /\ scan' = None /\ pc' = "next"
  /\ NotifyIfIdle(q, openBounds', inFlight', hold)

\* runOnce returns: recorded whatever the outcome, then back to who asked.
AfterMessage(n) ==
  /\ executed' = executed \cup {cur}
  /\ TurnOver
  /\ IF origin = "sync" /\ scan # None /\ anchorOf[scan] = cur
     THEN EndScan(queue, n) /\ UNCHANGED boot
     ELSE /\ inFlight' = n
          /\ UNCHANGED <<openBounds, sweeping, scan>>
          /\ IF origin = "bootstrap"
             THEN /\ boot' = [boot EXCEPT ![cur] = "ran"]
                  /\ NotifyIfIdle(queue, openBounds, n, hold)
                  /\ pc' = "next"
             ELSE pc' = origin /\ UNCHANGED <<boot, queue, waitResult>>
  /\ UNCHANGED <<anchorOf, begun, staleLeft, taken>>

\* A sync message's failure is logged; the room goes on.
SyncTurnReturns ==
  /\ pc = "return" /\ origin # "live"
  /\ attempts' = IF outcome = "ok" THEN [attempts EXCEPT ![cur] = 0] ELSE attempts
  /\ AfterMessage(inFlight - 1)
  /\ UNCHANGED <<platformVars, status, closed, holdVars, seenAt, seenCount, primed, givenUp,
                 stopVars, runs, accepted>>

\* giveUp: markProcessing then markProcessed; a failed request ends it.
GiveUpClaimed ==
  /\ pc = "giveUpClaim" /\ ~Settling
  /\ \/ /\ mark' = Claimed(cur) /\ pc' = "giveUpMark"
        /\ UNCHANGED <<queue, waitResult, boot, inFlight, trackerVars, turnVars, loopVars>>
     \/ Attempt(Claimed(cur)) /\ AfterMessage(inFlight)
  /\ UNCHANGED <<delivered, status, closed, holdVars, contextVars, stopVars,
                 runs, accepted>>

GiveUpMarked ==
  /\ pc = "giveUpMark" /\ ~Settling
  /\ Attempt(Settled(cur, "processed"))
  /\ AfterMessage(inFlight)
  /\ UNCHANGED <<delivered, status, closed, holdVars, contextVars, stopVars,
                 runs, accepted>>

\* getStaleProcessingMessages answers, or fails and recovery is skipped.
StaleFetched ==
  /\ pc = "fetchStale" /\ ~Settling
  /\ staleLeft' \in {{}, {m \in Messages : mark[m] = "processing"}}
  /\ pc' = "stale"
  /\ UNCHANGED <<platformVars, queue, status, closed, holdVars, inFlight, trackerVars,
                 contextVars, turnVars, scan, sweeping, taken, stopVars, waitResult,
                 boot, runs, accepted>>

\* The recovery loop's head: the next stale message, or on to the first scan.
RecoverStale ==
  /\ pc = "stale"
  /\ LET left == staleLeft \ givenUp IN
     IF ~Active \/ hold # None \/ left = {}
     THEN /\ staleLeft' = {} /\ scan' = 1 /\ pc' = "sync"
          /\ UNCHANGED <<inFlight, contextVars, turnVars>>
     ELSE /\ staleLeft' = left \ {Oldest(left)}
          /\ BeginSync(Oldest(left), "stale", "unseen")
          /\ UNCHANGED scan
  /\ UNCHANGED <<platformVars, queue, status, closed, holdVars, trackerVars, sweeping, taken,
                 stopVars, waitResult, boot, runs, accepted>>

\* deferCatchUp: one sweep, without a boundary, ahead of what waits on the hold.
Deferred ==
  IF \E i \in DOMAIN queue : queue[i].afterHold THEN queue
  ELSE <<[Entry("reconnected", None, None) EXCEPT !.afterHold = TRUE]>> \o queue

\* Broken variant: the scan reads on through a hold.
SynchronizeThroughHold ==
  /\ pc = "sync"
  /\ IF ~Active THEN EndScan(queue, inFlight)
     ELSE pc' = "read" /\ UNCHANGED <<queue, inFlight, openBounds, sweeping, scan, waitResult>>
  /\ UNCHANGED <<platformVars, status, closed, holdVars, anchorOf, begun, executed,
                 contextVars, turnVars, staleLeft, taken, stopVars, boot, runs, accepted>>

\* The scan's head: closed, held, or one more read of /next.
SynchronizeWithNext ==
  /\ pc = "sync"
  /\ IF ~Active THEN EndScan(queue, inFlight)
     ELSE IF hold # None THEN EndScan(Deferred, inFlight)
     ELSE pc' = "read" /\ UNCHANGED <<queue, inFlight, openBounds, sweeping, scan, waitResult>>
  /\ UNCHANGED <<platformVars, status, closed, holdVars, anchorOf, begun, executed,
                 contextVars, turnVars, staleLeft, taken, stopVars, boot, runs, accepted>>

\* Broken variant: a head that was already given up on is given up on again.
ScanOverAtEmpty == ~Active \/ Unprocessed = {}

\* The answer ends the scan: closed meanwhile, nothing left, or a head already
\* given up on that the platform still serves.
ScanOver == \/ ~Active \/ Unprocessed = {}
            \/ Oldest(Unprocessed) \in executed \cap givenUp

\* /next answers.
NextRead ==
  /\ pc = "read" /\ ~Settling
  /\ IF ScanOver
     THEN EndScan(queue, inFlight) /\ UNCHANGED <<contextVars, turnVars>>
     ELSE LET m == Oldest(Unprocessed) IN
          /\ IF m \in executed
             THEN /\ givenUp' = givenUp \cup {m} /\ pc' = "giveUpClaim"
                  /\ cur' = m /\ origin' = "sync" /\ control' = "unseen" /\ outcome' = "ok"
                  /\ UNCHANGED <<inFlight, attempts, seenAt, seenCount, primed>>
             ELSE BeginSync(m, "sync", "unseen")
          /\ UNCHANGED <<queue, openBounds, sweeping, scan, waitResult>>
  /\ UNCHANGED <<platformVars, status, closed, holdVars, anchorOf, begun, executed,
                 staleLeft, taken, stopVars, boot, runs, accepted>>

\* /next fails: nothing catches it below runProcessLoop.  catchUp, on its way out, may
\* find the room idle and tell the stop that waits.
IdleBeforeCrash == sweeping /\ IsIdle(queue, openBounds, inFlight - 1, hold)
NextReadFails ==
  /\ pc = "read" /\ ~Settling
  /\ closed' = TRUE /\ queue' = <<>> /\ boot' = Dropped
  /\ inFlight' = IF sweeping THEN inFlight - 1 ELSE inFlight
  /\ waitResult' = IF stopper = "waiting" /\ waitResult = "pending" /\ IdleBeforeCrash
                   THEN "idle" ELSE waitResult
  /\ sweeping' = FALSE /\ pc' = "crashing"
  /\ UNCHANGED <<platformVars, status, holdVars, trackerVars, contextVars, turnVars, scan,
                 staleLeft, taken, stopVars, runs, accepted>>

----------------------------------------------------------------------------
(* The process loop between turns.                                         *)

\* nextQueuedEvent: the first event that may run, or park until woken.
NextQueuedEvent ==
  /\ pc = "next"
  /\ LET sighted  == Sighted(queue, hold)
         runnable == Runnable(queue, hold) IN
     IF ~Active THEN pc' = "done" /\ UNCHANGED <<queue, taken>>
     ELSE IF runnable = {} THEN pc' = "parked" /\ queue' = sighted /\ UNCHANGED taken
     ELSE /\ pc' = "dispatch"
          /\ taken' = sighted[Oldest(runnable)]
          /\ queue' = RemoveAt(sighted, Oldest(runnable))
  /\ UNCHANGED <<platformVars, status, closed, holdVars, inFlight, trackerVars, contextVars,
                 turnVars, scan, sweeping, staleLeft, stopVars, waitResult, boot, runs, accepted>>

\* A reply keeps its pass through the hold only while the hold lasts.
Through == IF hold # None THEN taken.control ELSE "unseen"

\* A message or bootstrap that already ran outside live delivery is skipped.
SkipExecuted ==
  /\ taken.kind # "reconnected" /\ taken.id \in executed
  /\ boot' = IF taken.kind = "bootstrap" THEN [boot EXCEPT ![taken.id] = "ran"] ELSE boot
  /\ NotifyIfIdle(queue, openBounds, inFlight, hold)
  /\ pc' = "next"
  /\ UNCHANGED <<inFlight, contextVars, turnVars, scan, sweeping>>

DispatchMessage ==
  /\ taken.kind # "reconnected" /\ taken.id \notin executed
  /\ IF taken.kind = "bootstrap" THEN BeginSync(taken.id, "bootstrap", Through)
     ELSE BeginTurn(taken.id, "live", Through) /\ UNCHANGED <<attempts, givenUp>>
  /\ UNCHANGED <<queue, scan, sweeping, waitResult, boot>>

CatchUp ==
  /\ taken.kind = "reconnected"
  /\ inFlight' = inFlight + 1 /\ sweeping' = TRUE
  /\ scan' = taken.boundary /\ pc' = "sync"
  /\ UNCHANGED <<queue, contextVars, turnVars, waitResult, boot>>

Dispatch ==
  /\ pc = "dispatch"
  /\ SkipExecuted \/ DispatchMessage \/ CatchUp
  /\ taken' = NoEvent
  /\ UNCHANGED <<platformVars, status, closed, holdVars, trackerVars, staleLeft, stopVars,
                 runs, accepted>>

\* A live turn's failure ends the room unless it is recoverable.
LiveTurnReturns ==
  /\ pc = "return" /\ origin = "live"
  /\ IF outcome = "fatal"
     THEN /\ closed' = TRUE /\ pc' = "failing"
          /\ UNCHANGED <<inFlight, queue, waitResult>>
     ELSE /\ inFlight' = inFlight - 1 /\ pc' = "next" /\ UNCHANGED closed
          /\ NotifyIfIdle(queue, openBounds, inFlight - 1, hold)
  /\ TurnOver
  /\ UNCHANGED <<platformVars, status, holdVars, trackerVars, contextVars, loopVars,
                 stopVars, boot, runs, accepted>>

Failed == IF status = "stopped" THEN status ELSE "failed"

\* executeEvent's failure path, once the working state is closed.
RoomFails ==
  /\ pc = "failing" /\ ~Settling
  /\ status' = Failed /\ boot' = Dropped
  /\ inFlight' = inFlight - 1
  /\ NotifyIfIdle(<<>>, openBounds, inFlight - 1, hold)
  /\ pc' = "crashing"
  /\ UNCHANGED <<platformVars, closed, holdVars, trackerVars, contextVars, turnVars, loopVars,
                 stopVars, runs, accepted>>

\* runProcessLoop's catch, once the working state is closed.
LoopCrashes ==
  /\ pc = "crashing" /\ ~Settling
  /\ status' = Failed /\ pc' = "crashed"
  /\ UNCHANGED <<platformVars, queue, closed, holdVars, inFlight, trackerVars, contextVars,
                 turnVars, loopVars, stopVars, waitResult, boot, runs, accepted>>

----------------------------------------------------------------------------
(* stop(): single-flight, so it is called once.                            *)

\* Broken variants of CloseQueue: it never waits for the loop; it always does.
CloseUndrained(q, isGraceful) ==
  /\ closed' = TRUE /\ pc' = Woken(pc) /\ graceful' = isGraceful
  /\ stopper' = "closing" /\ queue' = <<>> /\ boot' = Dropped

CloseAwaited(q, isGraceful) ==
  /\ closed' = TRUE /\ pc' = Woken(pc) /\ graceful' = isGraceful
  /\ stopper' = "draining" /\ queue' = q /\ UNCHANGED boot

\* What follows the wait: close the queue, then drain the loop or detach it.
CloseQueue(q, isGraceful) ==
  /\ closed' = TRUE /\ pc' = Woken(pc) /\ graceful' = isGraceful
  /\ IF isGraceful \/ budget' = "unlimited"
     THEN stopper' = "draining" /\ queue' = q /\ UNCHANGED boot
     ELSE stopper' = "closing" /\ queue' = <<>> /\ boot' = Dropped

Stop(b) ==
  /\ stopper = "none"
  /\ budget' = b
  /\ IF status = "failed"
     THEN /\ stopper' = "refusing"
          /\ UNCHANGED <<status, queue, closed, pc, graceful, waitResult, boot>>
     ELSE /\ status' = "stopping"
          /\ LET idle == IsIdle(queue, openBounds, inFlight, hold)
                 q    == IdleSighted(queue, openBounds, inFlight, hold) IN
             IF b = "zero"
             THEN CloseQueue(q, idle) /\ UNCHANGED waitResult
             ELSE /\ stopper' = "waiting" /\ queue' = q
                  /\ waitResult' = IF idle THEN "idle" ELSE "pending"
                  /\ UNCHANGED <<closed, pc, graceful, boot>>
  /\ UNCHANGED <<platformVars, holdVars, inFlight, trackerVars, contextVars, turnVars,
                 loopVars, runs, accepted>>

StopTimesOut ==
  /\ stopper = "waiting" /\ waitResult = "pending" /\ budget = "finite"
  /\ waitResult' = "timeout"
  /\ UNCHANGED <<platformVars, queue, status, closed, holdVars, inFlight, trackerVars,
                 contextVars, pc, turnVars, loopVars, stopVars, boot, runs, accepted>>

StopResumes ==
  /\ Settling
  /\ IF status = "failed"
     THEN stopper' = "refusing" /\ UNCHANGED <<queue, closed, pc, graceful, boot, budget>>
     ELSE UNCHANGED budget /\ CloseQueue(queue, waitResult = "idle")
  /\ UNCHANGED <<platformVars, status, holdVars, inFlight, trackerVars, contextVars,
                 turnVars, loopVars, waitResult, runs, accepted>>

\* The process task settles; its rejection is the stop's own.
StopDrained ==
  /\ stopper = "draining" /\ pc \in {"done", "crashed"}
  /\ IF pc = "crashed" THEN stopper' = "threw" /\ UNCHANGED <<queue, boot>>
     ELSE stopper' = "closing" /\ queue' = <<>> /\ boot' = Dropped
  /\ UNCHANGED <<platformVars, status, closed, holdVars, inFlight, trackerVars, contextVars,
                 pc, turnVars, loopVars, budget, graceful, waitResult, runs, accepted>>

\* closeWorkingState answers: a failure that came first is the outcome.
StopCloses ==
  /\ stopper \in {"closing", "refusing"}
  /\ IF status = "failed" THEN stopper' = "threw" /\ UNCHANGED status
     ELSE stopper' = "returned" /\ status' = "stopped"
  /\ UNCHANGED <<platformVars, queue, closed, holdVars, inFlight, trackerVars, contextVars,
                 pc, turnVars, loopVars, budget, graceful, waitResult, boot, runs, accepted>>

----------------------------------------------------------------------------
Loop == \/ StaleFetched \/ RecoverStale \/ SynchronizeWithNext \/ NextRead
        \/ Hydrated \/ TurnClaimed \/ TurnSettled \/ SyncTurnReturns \/ LiveTurnReturns
        \/ GiveUpClaimed \/ GiveUpMarked \/ NextQueuedEvent \/ Dispatch
        \/ RoomFails \/ LoopCrashes
Stopper == StopTimesOut \/ StopResumes \/ StopDrained \/ StopCloses
Socket  == \/ \E m \in Messages : Post(m) \/ Deliver(m) \/ BootstrapMessage(m)
           \/ Reconnect
Held    == AskChanges \/ \E m \in Messages : HoldEnds(m)

Next == \/ Loop \/ AgentReturns \/ NextReadFails
        \/ Stopper \/ Socket \/ Held
        \/ \E b \in StopBudgets : Stop(b)

Spec == Init /\ [][Next]_vars

\* REST requests carry timeouts and microtasks run, so the loop and the stop
\* keep moving; an adapter's turn is not promised to end.
FairSpec == Spec /\ WF_vars(Loop) /\ WF_vars(Stopper)

\* What an adapter that ends its turns and expires its asks adds to that.
TurnsEnd == WF_vars(AgentReturns) /\ \A m \in Messages : WF_vars(HoldEnds(m))

----------------------------------------------------------------------------
PlatformType == mark \in [Messages -> Marks] /\ delivered \in [Messages -> Nat]
HoldType     == /\ hold \in Messages \cup {None} /\ heldTurns \subseteq Messages
                /\ asking \in BOOLEAN
TrackerType  == /\ openBounds \in Seq(Boundaries) /\ begun \in Boundaries
                /\ anchorOf \in [Boundaries -> Messages \cup {None}]
                /\ executed \subseteq Messages
ContextType  == /\ seenAt \in [Messages -> Nat] /\ seenCount \in Nat /\ primed \in BOOLEAN
                /\ attempts \in [Messages -> Nat] /\ givenUp \subseteq Messages
TurnType     == /\ cur \in Messages \cup {None}
                /\ origin \in {"none", "stale", "sync", "bootstrap", "live"}
                /\ control \in {"unseen", "yes", "no"}
                /\ outcome \in {"ok", "recoverable", "fatal"}
LoopType     == /\ scan \in Boundaries \cup {None} /\ sweeping \in BOOLEAN
                /\ staleLeft \subseteq Messages /\ taken \in Entries \cup {NoEvent}
StopType     == /\ stopper \in {"none", "waiting", "draining", "closing", "refusing",
                                "returned", "threw"}
                /\ budget \in {"unset", "zero", "finite", "unlimited"}
                /\ graceful \in BOOLEAN
Answers      == {"none", "waiting", "ran", "dropped", "refused"}

\* Every variable keeps its type; the room never runs more than one turn and
\* one catch-up around it (Execution.ts:353-386).
TypeOK ==
  /\ PlatformType /\ HoldType /\ TrackerType /\ ContextType
  /\ TurnType /\ LoopType /\ StopType
  /\ queue \in Seq(Entries) /\ pc \in PCs /\ inFlight \in 0..2
  /\ status \in {"running", "stopping", "stopped", "failed"} /\ closed \in BOOLEAN
  /\ waitResult \in {"pending", "idle", "timeout"}
  /\ boot \in [Messages -> Answers]
  /\ runs \in [Messages -> Nat] /\ accepted \subseteq Messages

\* A message reaches the adapter at most once in this process, however often
\* stale recovery, a scan, a bootstrap or the socket bring it (Execution.ts:446).
RunsOnce == \A m \in Messages : runs[m] <= 1

\* At most one turn outlives its handler, and the room's hold is exactly that
\* turn, so its end and no other releases the room.
HoldTracksHeldTurn == heldTurns = IF hold = None THEN {} ELSE {hold}

\* While a held turn still runs, the adapter runs nothing but messages let
\* through as answers to its asks.
HoldIsExclusive ==
  pc = "agent" /\ heldTurns \ {cur} # {} => control = "yes"

\* Until the room ends every scan boundary still open belongs to a scan that
\* runs or will run: none is orphaned, so the room can become idle.
PendingBounds ==
  (IF pc \in {"fetchStale", "stale"} \/ (origin = "stale" /\ pc \in InTurn \cup GivingUp)
   THEN {1} ELSE {})
  \cup ({scan, taken.boundary} \ {None})
  \cup ({queue[i].boundary : i \in DOMAIN queue} \ {None})
BoundariesHaveOwners ==
  ~closed => {openBounds[i] : i \in DOMAIN openBounds} = PendingBounds

\* A live event the room accepted is still queued, being worked on, or was
\* seen; only the room's end loses it.
Pending(m) == \/ \E i \in DOMAIN queue : queue[i].id = m
              \/ taken.id = m
              \/ m \in executed \cup Echoes
              \/ seenAt[m] > 0
AcceptedIsKept == ~closed => \A m \in accepted : Pending(m)

\* A parked loop has nothing it could run: every arrival, hold end and close
\* wakes it.
NoLostWakeup == pc = "parked" => Active /\ Runnable(queue, hold) = {}

\* inFlight counts the turn the loop runs and the catch-up around it.
InFlightIsExact ==
  inFlight = (IF pc \in InTurn \cup {"failing"} THEN 1 ELSE 0) + (IF sweeping THEN 1 ELSE 0)

\* A stop reports graceful only over a loop that really finished.
GracefulStopDrained ==
  stopper = "returned" /\ graceful => pc = "done" /\ inFlight = 0 /\ queue = <<>>

\* Once the room is closed no turn enters the adapter and no turn writes its
\* verdict: what a retired turn does later stays its own.
RetiredRoomIsSilent ==
  [][closed => runs' = runs /\ (pc = "agent" => pc' # "settle")]_vars

\* A bootstrap caller is always told, even when the room fails or is stopped
\* first, as long as turns end.
BootstrapIsAnswered ==
  TurnsEnd => \A m \in Bootstraps : boot[m] = "waiting" ~> boot[m] # "waiting"

\* A stop with a budget settles however long a turn runs.
BudgetedStopSettles ==
  stopper # "none" /\ budget # "unlimited" ~> stopper \in {"returned", "threw"}

\* Execution.ts:580: a failure path may fail first, and then "its error, not
\* the stop, is the outcome" of the stop that shares it.
FailureIsStopOutcome ==
  stopper # "none" /\ status = "failed" ~> stopper \in {"returned", "threw"}

\* Execution.ts:43: a bootstrap message's caller is "told once it ran, or why it
\* never will".  A try that failed, or was given up on, counts as run.
BootstrapToldTheTruth ==
  \A m \in Bootstraps :
    boot[m] = "ran" => runs[m] > 0 \/ attempts[m] > 0 \/ m \in givenUp \cup Echoes

\* The loop neither spins on the head of /next nor forgets its queue: it ends
\* or parks with nothing left to run.
LoopComesToRest ==
  TurnsEnd => <>[](pc \in {"done", "crashed"} \/ (pc = "parked" /\ queue = <<>>))
=============================================================================
