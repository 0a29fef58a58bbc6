---------------------------- MODULE WorkingState ----------------------------
(***************************************************************************)
(* What a room tells the platform about its work: the serial report queue, *)
(* the leases of the turns that work and the keepalive of one              *)
(* WorkingStateReporter, with the tracker of provider-native work that     *)
(* feeds each lease (runtime/workingState.ts).                             *)
(*                                                                         *)
(* `tail` is the promise chain: the operations not yet started.  An        *)
(* operation that reports stays in `sending` until its request settles,    *)
(* and whether the request succeeded changes nothing here.                 *)
(***************************************************************************)
EXTENDS Integers, Sequences, FiniteSets

CONSTANTS
  NumLeases,   \* the leases are 1..NumLeases, in the order they are opened
  Tools,       \* the tool calls an observation may name
  Works,       \* ids a provider gives its own work and its decisions
  Retainers,   \* turns whose adapter outlives its handler (runUntilReleased)
  Providers,   \* turns whose adapter tracks its provider's own work
  MaxCalls,    \* bound: observations and decisions of all turns together
  MaxBeats,    \* bound: keepalive timers that fire
  Limited      \* is maxWorkingStateSeconds configured?

ASSUME WorkingAssumption ==
  /\ NumLeases \in Nat \ {0} /\ MaxCalls \in Nat /\ MaxBeats \in Nat
  /\ Limited \in BOOLEAN
  /\ Retainers \subseteq 1..NumLeases /\ Providers \subseteq 1..NumLeases
  /\ Tools \cap {"none", "idle", "reasoning", "memory", "permission"} = {}

Leases     == 1..NumLeases
Periods    == 1..NumLeases          \* at most one period per lease
None       == 0                     \* no period, or no lease
Activities == Tools \cup {"reasoning", "memory"}

VARIABLES
  leases,       \* keys of the leases map
  begun,        \* leases opened so far
  refs,         \* references of each lease
  ended,        \* leases whose end() was called
  retained,     \* where the one retain() of each lease is
  activity, order, permission,   \* what each lease contributes
  sequence,
  current,      \* the activity last selected
  period,       \* the current period, or None
  periods,      \* periods begun so far
  expired,      \* the current period is past maxWorkingStateSeconds
  readyOf,      \* the period whose opening a lease waits for, or None
  opened,       \* periods whose opening operation is over
  timer,        \* the period the keepalive timer would refresh, or None
  closing,      \* closePromise is set
  tail,
  sending,      \* the operation whose report is in flight, or NoOp
  nativeOpen, nativeWaits, nativeEnded,   \* the tracker of each lease
  reported,     \* history: the last report begun
  calls, beats  \* the bounds' counters

leaseVars  == <<leases, begun, refs, ended, retained>>
offerVars  == <<activity, order, permission, sequence>>
periodVars == <<current, period, periods, expired, readyOf, opened, timer>>
nativeVars == <<nativeOpen, nativeWaits, nativeEnded>>
queueVars  == <<tail, sending, reported>>
vars == <<leaseVars, offerVars, periodVars, closing, queueVars, nativeVars, calls, beats>>

Op(kind, of, value) == [kind |-> kind, of |-> of, value |-> value]
NoOp == Op("none", None, "none")

Ops == [kind : {"refresh"}, of : Periods, value : {"none"}]
       \cup [kind : {"publish", "idle"}, of : {None}, value : {"none"}]
       \cup [kind : {"observe"}, of : Leases, value : Activities]
       \cup [kind : {"permission"}, of : Leases, value : {"wait", "resume"}]

----------------------------------------------------------------------------
Init ==
  /\ leases = {} /\ begun = 0 /\ refs = [l \in Leases |-> 0] /\ ended = {}
  /\ retained = [l \in Leases |-> "no"]
  /\ activity = [l \in Leases |-> "reasoning"]
  /\ order = [l \in Leases |-> 0]
  /\ permission = [l \in Leases |-> FALSE]
  /\ sequence = 0
  /\ current = "reasoning" /\ period = None /\ periods = 0 /\ expired = FALSE
  /\ readyOf = [l \in Leases |-> None] /\ opened = {} /\ timer = None
  /\ closing = FALSE
  /\ tail = <<>> /\ sending = NoOp /\ reported = "none"
  /\ nativeOpen = [l \in Leases |-> [w \in Works |-> "none"]]
  /\ nativeWaits = [l \in Leases |-> {}]
  /\ nativeEnded = {}
  /\ calls = 0 /\ beats = 0

CanRefresh(p) == p = period /\ ~expired
ActiveLease(l) == l \in leases /\ period # None /\ ~expired
Ready(l) == l <= begun /\ readyOf[l] \in opened \cup {None}

\* What the reporter shows for these contributions: a wait outranks all work,
\* and of the work that is more than reasoning the latest wins.
Busy(act) == {l \in leases : act[l] # "reasoning"}
Selected(act, ord, perm) ==
  IF \E l \in leases : perm[l] THEN "permission"
  ELSE IF Busy(act) = {} THEN "reasoning"
  ELSE act[CHOOSE l \in Busy(act) : \A k \in Busy(act) : ord[k] <= ord[l]]

----------------------------------------------------------------------------
(* Leases.                                                                 *)

\* Broken variant: a lease that joins a period does not wait for its opening.
OpeningIfFirst == IF ~closing /\ period = None THEN period' ELSE None

\* What a new lease waits for: the opening of the period it works in.
Opening == IF closing THEN None ELSE period'

\* A turn opens its lease; the first one of a period queues the period's opening.
Open(l) ==
  /\ l = begun + 1 /\ begun' = l
  /\ refs' = [refs EXCEPT ![l] = 1]
  /\ leases' = IF closing THEN leases ELSE leases \cup {l}
  /\ IF ~closing /\ period = None
     THEN /\ periods' = periods + 1 /\ period' = periods + 1 /\ expired' = FALSE
          /\ current' = "reasoning"
          /\ tail' = Append(tail, Op("refresh", periods + 1, "none"))
     ELSE UNCHANGED <<periods, period, expired, current, tail>>
  /\ readyOf' = [readyOf EXCEPT ![l] = Opening]
  /\ UNCHANGED <<ended, retained, offerVars, opened, timer, closing, sending, reported,
                 nativeVars, calls, beats>>

\* A deleted lease takes what it contributed with it.
Delete(S) ==
  /\ leases' = leases \ S
  /\ activity' = [l \in Leases |-> IF l \in S THEN "reasoning" ELSE activity[l]]
  /\ order' = [l \in Leases |-> IF l \in S THEN 0 ELSE order[l]]
  /\ permission' = [l \in Leases |-> l \notin S /\ permission[l]]

\* Broken variants: the selection is not made anew; the period outlives its end.
Unselected == tail
RetireTimer == timer' = None /\ UNCHANGED period

Reselected == Append(tail, Op("publish", None, "none"))
Retire == timer' = None /\ period' = None

\* The last reference deletes the lease; the last lease retires the period.
Release(l) ==
  /\ refs' = [refs EXCEPT ![l] = @ - 1]
  /\ IF refs[l] > 1 \/ l \notin leases
     THEN UNCHANGED <<leases, activity, order, permission, period, timer, tail>>
     ELSE /\ Delete({l})
          /\ IF leases' # {}
             THEN tail' = Reselected /\ UNCHANGED <<period, timer>>
             ELSE Retire /\ tail' = Append(tail, Op("idle", None, "none"))

EndsOnce(l) == l \notin ended

End(l) ==
  /\ Ready(l) /\ EndsOnce(l)
  /\ ended' = ended \cup {l}
  /\ Release(l)
  /\ UNCHANGED <<begun, retained, sequence, current, periods, expired, readyOf, opened,
                 closing, sending, reported, nativeVars, calls, beats>>

\* retainWorkingCycleUntil, from inside the handler.
Retain(l) ==
  /\ l \in Retainers /\ Ready(l) /\ l \in leases \ ended /\ retained[l] = "no"
  /\ retained' = [retained EXCEPT ![l] = "held"]
  /\ refs' = [refs EXCEPT ![l] = @ + 1]
  /\ UNCHANGED <<leases, begun, ended, offerVars, periodVars, closing, queueVars,
                 nativeVars, calls, beats>>

RetainedWorkEnds(l) ==
  /\ retained[l] = "held"
  /\ retained' = [retained EXCEPT ![l] = "released"]
  /\ Release(l)
  /\ UNCHANGED <<begun, ended, sequence, current, periods, expired, readyOf, opened,
                 closing, sending, reported, nativeVars, calls, beats>>

Close ==
  /\ ~closing /\ closing' = TRUE
  /\ Delete(leases) /\ Retire
  /\ tail' = IF period # None THEN Append(tail, Op("idle", None, "none")) ELSE tail
  /\ UNCHANGED <<begun, refs, ended, retained, sequence, current, periods, expired,
                 readyOf, opened, sending, reported, nativeVars, calls, beats>>

----------------------------------------------------------------------------
(* What a turn observes: Band's own tools, and the tracker of the          *)
(* provider's work.  An observation of a lease that is over is dropped at  *)
(* once, a permission change when its turn in the queue comes.             *)

Observation(l, a) == IF ActiveLease(l) THEN <<Op("observe", l, a)>> ELSE <<>>
PermissionOp(l, w) == <<Op("permission", l, w)>>

Call(l) == Ready(l) /\ calls < MaxCalls /\ calls' = calls + 1

\* withToolActivity, reportMemoryActivity and what restores reasoning after them.
ToolActivity(l, a) ==
  /\ Call(l)
  /\ tail' = tail \o Observation(l, a)
  /\ UNCHANGED <<leaseVars, offerVars, periodVars, closing, sending, reported, nativeVars, beats>>

\* Work that already ended for good, or is shown already, reports nothing.
NativeBegins(l, w, a) ==
  /\ Call(l) /\ l \in Providers \ nativeEnded /\ nativeOpen[l][w] # a
  /\ nativeOpen' = [nativeOpen EXCEPT ![l][w] = a]
  /\ tail' = tail \o Observation(l, a)
  /\ UNCHANGED <<leaseVars, offerVars, periodVars, closing, sending, reported,
                 nativeWaits, nativeEnded, beats>>

NativeEnds(l, w) ==
  /\ Ready(l) /\ nativeOpen[l][w] # "none"
  /\ nativeOpen' = [nativeOpen EXCEPT ![l][w] = "none"]
  /\ tail' = tail \o Observation(l, "reasoning")
  /\ UNCHANGED <<leaseVars, offerVars, periodVars, closing, sending, reported,
                 nativeWaits, nativeEnded, calls, beats>>

WaitBegins(l, w) ==
  /\ Call(l) /\ l \in Providers \ nativeEnded /\ w \notin nativeWaits[l]
  /\ nativeWaits' = [nativeWaits EXCEPT ![l] = @ \cup {w}]
  /\ tail' = IF nativeWaits[l] = {} THEN tail \o PermissionOp(l, "wait") ELSE tail
  /\ UNCHANGED <<leaseVars, offerVars, periodVars, closing, sending, reported,
                 nativeOpen, nativeEnded, beats>>

\* Broken variant: the first decision that is answered ends the wait.
AnyWait(l, w) == w \in nativeWaits[l]

LastWait(l, w) == nativeWaits[l] = {w}

\* The wait holds while any decision is open.
WaitEnds(l, w) ==
  /\ Ready(l) /\ w \in nativeWaits[l]
  /\ nativeWaits' = [nativeWaits EXCEPT ![l] = @ \ {w}]
  /\ tail' = IF LastWait(l, w) THEN tail \o PermissionOp(l, "resume") ELSE tail
  /\ UNCHANGED <<leaseVars, offerVars, periodVars, closing, sending, reported,
                 nativeOpen, nativeEnded, calls, beats>>

EndAll(l) ==
  /\ Ready(l) /\ l \in Providers \ nativeEnded
  /\ nativeEnded' = nativeEnded \cup {l}
  /\ nativeOpen' = [nativeOpen EXCEPT ![l] = [w \in Works |-> "none"]]
  /\ nativeWaits' = [nativeWaits EXCEPT ![l] = {}]
  /\ tail' = tail \o (IF \E w \in Works : nativeOpen[l][w] # "none"
                      THEN Observation(l, "reasoning") ELSE <<>>)
                  \o (IF nativeWaits[l] # {} THEN PermissionOp(l, "resume") ELSE <<>>)
  /\ UNCHANGED <<leaseVars, offerVars, periodVars, closing, sending, reported, calls, beats>>

----------------------------------------------------------------------------
(* The queue runs one operation at a time, and an operation's report to    *)
(* its end.                                                                *)

Report(op, a) == sending' = op /\ reported' = a

\* publishSelection after the contributions became act, ord and perm.
Publish(op, act, ord, perm) ==
  LET selected == Selected(act, ord, perm) IN
  IF period # None /\ ~expired /\ selected # current
  THEN current' = selected /\ Report(op, selected)
  ELSE UNCHANGED <<current, sending, reported>>

\* Broken variant: an opening that finds its period over never settles.
Unsettled(p) == opened

Settled(p) == opened \cup {p}

RunRefresh(op) ==
  /\ op.kind = "refresh"
  /\ IF CanRefresh(op.of)
     THEN LET selected == Selected(activity, order, permission) IN
          current' = selected /\ Report(op, selected) /\ UNCHANGED opened
     ELSE opened' = Settled(op.of) /\ UNCHANGED <<current, sending, reported>>
  /\ UNCHANGED offerVars

RunPublish(op) ==
  /\ op.kind = "publish"
  /\ Publish(op, activity, order, permission)
  /\ UNCHANGED <<offerVars, opened>>

RunIdle(op) ==
  /\ op.kind = "idle"
  /\ Report(op, "idle")
  /\ UNCHANGED <<offerVars, current, opened>>

RunObserve(op) ==
  /\ op.kind = "observe"
  /\ IF ActiveLease(op.of) /\ activity[op.of] # op.value
     THEN /\ activity' = [activity EXCEPT ![op.of] = op.value]
          /\ order' = [order EXCEPT ![op.of] = sequence + 1]
          /\ sequence' = sequence + 1
          /\ Publish(op, activity', order', permission)
     ELSE UNCHANGED <<activity, order, sequence, current, sending, reported>>
  /\ UNCHANGED <<permission, opened>>

RunPermission(op) ==
  /\ op.kind = "permission"
  /\ LET waiting == op.value = "wait" IN
     IF ActiveLease(op.of) /\ permission[op.of] # waiting
     THEN /\ permission' = [permission EXCEPT ![op.of] = waiting]
          /\ Publish(op, activity, order, permission')
     ELSE UNCHANGED <<permission, current, sending, reported>>
  /\ UNCHANGED <<activity, order, sequence, opened>>

RunNext ==
  /\ sending = NoOp /\ tail # <<>>
  /\ tail' = Tail(tail)
  /\ LET op == Head(tail) IN
     \/ RunRefresh(op) \/ RunPublish(op) \/ RunIdle(op) \/ RunObserve(op) \/ RunPermission(op)
  /\ UNCHANGED <<leaseVars, period, periods, expired, readyOf, timer, closing, nativeVars,
                 calls, beats>>

\* Broken variant: the keepalive is armed whatever became of its period.
ArmedAnyway(p) == p

Armed(p) == IF CanRefresh(p) THEN p ELSE timer

\* The request answered, failed or hit its deadline; a refresh arms the keepalive.
SendReturns ==
  /\ sending # NoOp /\ sending' = NoOp
  /\ IF sending.kind = "refresh"
     THEN opened' = opened \cup {sending.of} /\ timer' = Armed(sending.of)
     ELSE UNCHANGED <<opened, timer>>
  /\ UNCHANGED <<leaseVars, offerVars, current, period, periods, expired, readyOf, closing,
                 tail, reported, nativeVars, calls, beats>>

KeepAlive ==
  /\ timer # None /\ beats < MaxBeats
  /\ beats' = beats + 1 /\ timer' = None
  /\ tail' = Append(tail, Op("refresh", timer, "none"))
  /\ UNCHANGED <<leaseVars, offerVars, current, period, periods, expired, readyOf, opened,
                 closing, sending, reported, nativeVars, calls>>

\* maxWorkingStateSeconds have passed since the period began.
Expire ==
  /\ Limited /\ period # None /\ ~expired
  /\ expired' = TRUE
  /\ UNCHANGED <<leaseVars, offerVars, current, period, periods, readyOf, opened, timer,
                 closing, queueVars, nativeVars, calls, beats>>

Turn(l) ==
  \/ Open(l) \/ End(l) \/ Retain(l) \/ RetainedWorkEnds(l) \/ EndAll(l)
  \/ \E a \in Activities : ToolActivity(l, a)
  \/ \E w \in Works : \/ \E a \in Activities \ {"reasoning"} : NativeBegins(l, w, a)
                      \/ NativeEnds(l, w) \/ WaitBegins(l, w) \/ WaitEnds(l, w)

Reporter == RunNext \/ SendReturns

Next == (\E l \in Leases : Turn(l)) \/ Reporter \/ Close \/ KeepAlive \/ Expire

Spec == Init /\ [][Next]_vars

\* The promise chain runs on its own, and every request has its deadline
\* (workingRequestTimeoutSeconds).
FairSpec == Spec /\ WF_vars(Reporter)

----------------------------------------------------------------------------
(* Properties.                                                             *)

Shown == Activities \cup {"permission"}

\* Once the queue is empty the room shows what its turns do: the selection
\* while one of them works, idle (or nothing yet) when none does.
ReportMatchesWork ==
  tail = <<>> =>
    IF leases = {} THEN reported \in {"none", "idle"}
    ELSE expired \/ reported = Selected(activity, order, permission)

\* A period within its limit has exactly one keepalive under way: its timer,
\* a queued refresh or the refresh in flight.  No other period ever has a timer.
Heartbeats(p) == {i \in DOMAIN tail : tail[i] = Op("refresh", p, "none")}
KeepAliveIsExact ==
  /\ timer \in {None, period}
  /\ period # None /\ ~expired =>
       \/ timer = period /\ Heartbeats(period) = {} /\ sending # Op("refresh", period, "none")
       \/ timer = None /\ Heartbeats(period) = {} /\ sending = Op("refresh", period, "none")
       \/ timer = None /\ sending # Op("refresh", period, "none")
          /\ \E i \in DOMAIN tail : Heartbeats(period) = {i}

\* A turn whose lease is ready runs only after the room was reported working,
\* the turn that joins another's period included.
ReadyTurnIsShown ==
  \A l \in leases : Ready(l) /\ ~expired => reported \in Shown

\* Once the queue is empty a live lease waits for permission exactly while a
\* decision of its turn is open, whatever was opened and answered in between.
WaitMatchesDecisions ==
  tail = <<>> /\ ~expired =>
    \A l \in leases : permission[l] = (nativeWaits[l] # {})

\* After close() no report of working begins, from any operation still queued.
SilentAfterClose ==
  [][closing /\ sending' # sending /\ sending' # NoOp => sending'.kind = "idle"]_vars

\* Every turn's lease becomes ready: the report endpoint delays a turn, never
\* stops it.
EveryTurnIsLetIn == \A l \in Leases : l <= begun ~> Ready(l)

\* A turn that is let in is shown to be at work, and the room waits for permission
\* exactly while one of its turns does.
TurnsAreShown == ReadyTurnIsShown /\ WaitMatchesDecisions
=============================================================================
