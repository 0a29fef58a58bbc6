----------------------------- MODULE AgentRooms -----------------------------
(***************************************************************************)
(* AgentRuntime (runtime/rooms/AgentRuntime.ts): the rooms of one agent,   *)
(* each with an Execution and a context, between a start and a stop.       *)
(*                                                                         *)
(* Four parties work on the two maps: the presence's event loop, one event *)
(* at a time; a start, which joins the existing rooms; a stop; and callers *)
(* from outside, who reset a room's session or run a message in it.  An    *)
(* Execution is reduced to what its stop() turns on: whether it is idle,   *)
(* and the stop's budget (RoomExecution.tla has the rest).  Presence is    *)
(* reduced to the rooms it tracks (RoomMembership.tla has the rest).       *)
(***************************************************************************)
EXTENDS Naturals, FiniteSets

CONSTANTS
  Rooms,
  MaxStarts,    \* bound: starts let through
  MaxExecs,     \* bound: executions created
  MaxCalls      \* bound: resets and bootstrap messages from outside

ASSUME AgentRoomsAssumption ==
  /\ Rooms # {} /\ IsFiniteSet(Rooms)
  /\ {MaxStarts, MaxExecs} \subseteq Nat \ {0} /\ MaxCalls \in Nat

Ids == 1..MaxExecs
None == 0
Budgets == {"none", "timed"}    \* a stop's timeoutMs: not given, or some time

VARIABLES
  status, startGate,     \* the runtime's tracker; is startGate latched?
  starting,              \* where runStart awaits, "none" with no start in flight
  midStart,              \* stopMidStart: "no", or the budget of the stop
  stopGate, stopping,    \* is stopGate latched?  where runStop awaits
  budget, fatal,         \* of the stop in flight: its timeoutMs, its fatalError
  sweep, errors, graceful,  \* executions it still awaits, errors, graceful
  outcome,               \* of the last stop
  presence,              \* the presence's start or stop in flight
  loop, aborted,         \* its event loop; is its signal aborted?
  tracked, linkUp,       \* the roster; is the link connected?
  exec,                  \* the executions, by number
  executions, contexts,  \* the two maps
  teardowns,             \* teardownExecution calls in flight
  counts, late           \* bounds; (history) executions beyond a stop's reach

ownerVars == <<status, startGate, starting, midStart, stopGate>>
stopVars == <<stopping, budget, fatal, sweep, errors, graceful, outcome>>
presVars == <<presence, loop, aborted, tracked, linkUp>>
roomVars == <<exec, executions, contexts, teardowns, late>>
roomsVars == <<ownerVars, stopVars, presVars, roomVars, counts>>

NoExec == [room |-> None, st |-> "none", busy |-> FALSE, budget |-> "none", graceful |-> FALSE]

AgentRoomsInit ==
  /\ status = "not_started" /\ startGate = FALSE /\ starting = "none"
  /\ midStart = "no" /\ stopGate = FALSE
  /\ stopping = "none" /\ budget = "none" /\ fatal = FALSE
  /\ sweep = {} /\ errors = FALSE /\ graceful = TRUE /\ outcome = "none"
  /\ presence = "idle" /\ loop = "none" /\ aborted = FALSE
  /\ tracked = {} /\ linkUp = FALSE
  /\ exec = [e \in Ids |-> NoExec]
  /\ executions = [r \in Rooms |-> None] /\ contexts = {}
  /\ teardowns = {} /\ late = {}
  /\ counts = [starts |-> 0, execs |-> 0, calls |-> 0]

----------------------------------------------------------------------------
(* Failing, and an execution's stop().                                     *)

\* markFailed, then abortEventLoop.
FailRuntime ==
  /\ status' = IF status \in {"starting", "running", "stopping"} THEN "failed" ELSE status
  /\ aborted' = (aborted \/ loop # "none")

\* Execution.stop: the first call decides, the others join it.
Stopped(x, b) ==
  IF x.st # "running" THEN x
  ELSE IF b = "zero" THEN [x EXCEPT !.st = "closing", !.graceful = ~x.busy]
  ELSE [x EXCEPT !.st = "stopping", !.budget = b]

Ended(e) == exec[e].st \in {"stopped", "failed"}
TakesWork(x) == x.st \in {"running", "stopping"}

\* getOrCreateExecution: the room's, or a new one whose catch-up has begun.
Got(r) == IF executions[r] # None THEN executions[r] ELSE counts.execs + 1
Fits(r) == executions[r] # None \/ counts.execs < MaxExecs
\* Broken variant: a room joined by a start that is being stopped is let run.
FreshExecRunning(r) == [NoExec EXCEPT !.room = r, !.st = "running", !.busy = TRUE]

\* A new execution; one made while a stop waits for the start is stopped with it.
FreshExec(r) == LET x == [NoExec EXCEPT !.room = r, !.st = "running", !.busy = TRUE]
            IN  IF midStart = "no" THEN x ELSE Stopped(x, midStart)

GetOrCreate(r) ==
  /\ Fits(r)
  /\ executions' = [executions EXCEPT ![r] = Got(r)]
  /\ contexts' = contexts \cup {r}
  /\ counts' = [counts EXCEPT !.execs = IF executions[r] = None THEN @ + 1 ELSE @]
  /\ late' = IF executions[r] = None
                /\ (status = "stopped" \/ stopping \in {"leaving", "cleanup", "link"})
               THEN late \cup {Got(r)} ELSE late

\* Its queue takes an event, or, once it closes, throws a RuntimeStateError.
Pushed(r) == LET x == IF executions[r] = None THEN FreshExec(r) ELSE exec[executions[r]]
             IN  IF TakesWork(x) THEN [x EXCEPT !.busy = TRUE] ELSE x
Refused(r) == executions[r] # None /\ ~TakesWork(exec[executions[r]])

\* The turns and the catch-up in flight end.
Settles(e) ==
  /\ exec[e].st # "none" /\ exec[e].busy
  /\ exec' = [exec EXCEPT ![e].busy = FALSE]
  /\ UNCHANGED <<ownerVars, stopVars, presVars, executions, contexts, teardowns, late, counts>>

\* A turn throws what is no RecoverableTurnError: a detached loop's too.
TurnFails(e) ==
  /\ exec[e].st # "none" /\ exec[e].busy
  /\ exec' = [exec EXCEPT ![e].busy = FALSE,
                          ![e].st = IF @ = "stopped" THEN @ ELSE "failed"]
  /\ FailRuntime
  /\ UNCHANGED <<startGate, starting, midStart, stopGate, stopVars, presence, loop,
                 tracked, linkUp, executions, contexts, teardowns, late, counts>>

\* waitForIdle ends, or its time does, and the queue closes.
Closes(e) ==
  /\ exec[e].st = "stopping"
  /\ ~exec[e].busy \/ exec[e].budget = "timed"
  /\ exec' = [exec EXCEPT ![e].st = "closing", ![e].graceful = ~exec[e].busy]
  /\ UNCHANGED <<ownerVars, stopVars, presVars, executions, contexts, teardowns, late, counts>>

Ends(e) ==
  /\ exec[e].st = "closing"
  /\ exec' = [exec EXCEPT ![e].st = "stopped"]
  /\ UNCHANGED <<ownerVars, stopVars, presVars, executions, contexts, teardowns, late, counts>>

----------------------------------------------------------------------------
(* teardownExecution                                                       *)

\* A room with no execution leaves both maps, and its cleanup begins, at once.
Teardown(by, r) ==
  [by |-> by, room |-> r, exec |-> executions[r],
   stage |-> IF executions[r] = None THEN "cleaning" ELSE "stopping"]

BeginTeardown(others, by, left, b) ==
  /\ teardowns' = others \cup {Teardown(by, r) : r \in left}
  /\ exec' = [e \in Ids |-> IF \E r \in left : executions[r] = e THEN Stopped(exec[e], b) ELSE exec[e]]
  /\ contexts' = contexts \ {r \in left : executions[r] = None}

AwaitedRooms(e) == {t \in teardowns : t.stage = "stopping" /\ t.exec = e}

Evict(e) ==
  /\ AwaitedRooms(e) # {} \/ e \in sweep
  /\ executions' = [executions EXCEPT ![exec[e].room] = None]
  /\ contexts' = IF AwaitedRooms(e) # {} THEN contexts \ {exec[e].room} ELSE contexts
  /\ teardowns' = (teardowns \ AwaitedRooms(e)) \cup {[t EXCEPT !.stage = "cleaning"] : t \in AwaitedRooms(e)}
  /\ sweep' = sweep \ {e}
  /\ errors' = (errors \/ (e \in sweep /\ exec[e].st = "failed"))
  /\ graceful' = (graceful /\ (e \in sweep => exec[e].graceful))
  /\ late' = late \cup ({executions[exec[e].room]} \ {e, None})
  /\ UNCHANGED <<ownerVars, stopping, budget, fatal, outcome, presVars, exec, counts>>

\* Broken variant: the room is evicted without waiting for its execution.
RoomStoppedAtOnce(e) == Evict(e)

\* An execution's stop settles.  Whoever awaits it, a teardown or performStop,
\* resumes in the same turn of the event loop: the room leaves the map, for a
\* teardown its context goes too, and onSessionCleanup begins.
RoomStopped(e) == Ended(e) /\ Evict(e)

\* The cleanup settles.  An error ends the event loop, or is one of the stop's;
\* presence.stop() rejects with the first, and the others go on with nobody to hear them.
Unheard(t) == IF t.by = "presence" THEN [t EXCEPT !.by = "nobody"] ELSE t
ExecTeardownEnds(t, ok) ==
  /\ t.stage = "cleaning"
  /\ LET threw == ~ok \/ (t.exec # None /\ exec[t.exec].st = "failed")
         others == teardowns \ {t} IN
       \/ /\ threw /\ t.by = "loop"
          /\ loop' = "rejected" /\ FailRuntime /\ teardowns' = others
          /\ UNCHANGED <<stopVars, presence>>
       \/ /\ threw /\ t.by = "presence"
          /\ errors' = TRUE /\ presence' = "idle" /\ stopping' = "cleanup"
          /\ teardowns' = {Unheard(u) : u \in others}
          /\ UNCHANGED <<status, loop, aborted, budget, fatal, sweep, graceful, outcome>>
       \/ /\ ~threw \/ t.by \in {"reset", "nobody"}
          /\ teardowns' = others
          /\ UNCHANGED <<stopVars, presence, status, loop, aborted>>
  /\ UNCHANGED <<startGate, starting, midStart, stopGate, tracked, linkUp,
                 exec, executions, contexts, late, counts>>

----------------------------------------------------------------------------
(* The presence's event loop, and the callers from outside.                *)

Listens == loop = "running" /\ ~aborted /\ (\A t \in teardowns : t.by # "loop")

\* onRoomJoined, of a room_added or of a reconnect's snapshot.
RoomJoins(r) ==
  /\ Listens /\ linkUp
  /\ GetOrCreate(r)
  /\ exec' = [exec EXCEPT ![Got(r)] = IF executions[r] = None THEN FreshExec(r) ELSE @]
  /\ tracked' = tracked \cup {r}
  /\ UNCHANGED <<ownerVars, stopVars, presence, loop, aborted, linkUp, teardowns>>

\* A room that is left: first its channel is let go.
Leaving(by, r) == [by |-> by, room |-> r, exec |-> None, stage |-> "unsubscribing"]

\* handleRoomRemoved, to that await.
RoomLeaves(r) ==
  /\ Listens
  /\ teardowns' = teardowns \cup {Leaving("loop", r)}
  /\ UNCHANGED <<ownerVars, stopVars, presVars, exec, executions, contexts, late, counts>>

\* The channel is let go, or could not be, and onRoomLeft follows: membership lost, with a
\* budget of zero.  The loop lets a room be that is not tracked by then.
Unsubscribed(t) ==
  /\ t.stage = "unsubscribing"
  /\ LET left == IF t.by = "loop" THEN {t.room} \cap tracked ELSE {t.room} IN
       BeginTeardown(teardowns \ {t}, t.by, left, "zero")
  /\ tracked' = IF t.by = "loop" THEN tracked \ {t.room} ELSE tracked
  /\ UNCHANGED <<ownerVars, stopVars, presence, loop, aborted, linkUp,
                 executions, late, counts>>

\* enqueueUnlessStopping: a refusal the stop explains is dropped, any other
\* ends the event loop and fails the runtime.
MessageArrives(r) ==
  /\ Listens /\ r \in tracked
  /\ GetOrCreate(r)
  /\ exec' = [exec EXCEPT ![Got(r)] = Pushed(r)]
  /\ IF Refused(r) /\ midStart = "no" /\ status # "stopping"
       THEN loop' = "rejected" /\ FailRuntime
       ELSE UNCHANGED <<status, loop, aborted>>
  /\ UNCHANGED <<startGate, starting, midStart, stopGate, stopVars, presence,
                 tracked, linkUp, teardowns>>

\* participant_added and _removed need the context alone.
ParticipantChanges(r) ==
  /\ Listens /\ r \in tracked /\ r \notin contexts
  /\ contexts' = contexts \cup {r}
  /\ UNCHANGED <<ownerVars, stopVars, presVars, exec, executions, teardowns, late, counts>>

\* nextEvent resolves with null once the signal is aborted.
LoopEnds ==
  /\ loop = "running" /\ aborted /\ (\A t \in teardowns : t.by # "loop")
  /\ loop' = "ended"
  /\ UNCHANGED <<ownerVars, stopVars, presence, aborted, tracked, linkUp, roomVars, counts>>

Call == counts.calls < MaxCalls

\* resetRoomSession
Reset(r, b) ==
  /\ Call /\ status # "not_started"
  /\ BeginTeardown(teardowns, "reset", {r}, b)
  /\ counts' = [counts EXCEPT !.calls = @ + 1]
  /\ UNCHANGED <<ownerVars, stopVars, presVars, executions, late>>

\* bootstrapRoomMessage, its room admitted; a refusal is its caller's.
BootstrapRoom(r) ==
  /\ Call /\ linkUp
  /\ Fits(r)
  /\ tracked' = tracked \cup {r}
  /\ executions' = [executions EXCEPT ![r] = Got(r)]
  /\ contexts' = contexts \cup {r}
  /\ exec' = [exec EXCEPT ![Got(r)] = Pushed(r)]
  /\ late' = IF executions[r] = None
                /\ (status = "stopped" \/ stopping \in {"leaving", "cleanup", "link"})
               THEN late \cup {Got(r)} ELSE late
  /\ counts' = [counts EXCEPT !.calls = @ + 1,
                  !.execs = IF executions[r] = None THEN @ + 1 ELSE @]
  /\ UNCHANGED <<ownerVars, stopVars, presence, loop, aborted, linkUp, teardowns>>

----------------------------------------------------------------------------
(* start()                                                                 *)

StartRuntime ==
  /\ counts.starts < MaxStarts
  /\ status \in {"not_started", "stopped", "failed"} /\ ~startGate
  /\ stopGate' = FALSE /\ status' = "starting" /\ startGate' = TRUE
  /\ starting' = "queued"
  /\ counts' = [counts EXCEPT !.starts = @ + 1]
  /\ UNCHANGED <<midStart, stopVars, presVars, roomVars>>

\* Presence serialises its starts and stops; with an event loop still there it refuses.
PresenceStarts ==
  /\ starting = "queued" /\ presence = "idle"
  /\ IF loop # "none" THEN starting' = "failing" /\ aborted' = TRUE /\ presence' = "idle"
     ELSE starting' = "presence" /\ presence' = "connecting" /\ UNCHANGED aborted
  /\ UNCHANGED <<status, startGate, midStart, stopGate, stopVars, loop, tracked, linkUp,
                 roomVars, counts>>

Connects ==
  /\ presence = "connecting"
  /\ presence' = "hydrating" /\ linkUp' = TRUE
  /\ UNCHANGED <<ownerVars, stopVars, loop, aborted, tracked, roomVars, counts>>

\* The connect gives up, or a stop aborts it: handleStartFailure.
ConnectFails ==
  /\ presence = "connecting"
  /\ presence' = "idle" /\ starting' = "failing"
  /\ UNCHANGED <<status, startGate, midStart, stopGate, stopVars, loop, aborted, tracked,
                 linkUp, roomVars, counts>>

StartFails ==
  /\ starting = "failing"
  /\ linkUp' = FALSE
  /\ status' = IF status = "starting" THEN "stopped" ELSE status
  /\ starting' = "none" /\ startGate' = FALSE
  /\ UNCHANGED <<midStart, stopGate, stopVars, presence, loop, aborted, tracked, roomVars, counts>>

\* The start joins a room the agent is in already.
Hydrates(r) ==
  /\ presence = "hydrating" /\ r \notin tracked
  /\ GetOrCreate(r)
  /\ exec' = [exec EXCEPT ![Got(r)] = IF executions[r] = None THEN FreshExec(r) ELSE @]
  /\ tracked' = tracked \cup {r}
  /\ UNCHANGED <<ownerVars, stopVars, presence, loop, aborted, linkUp, teardowns>>

PresenceStarted ==
  /\ presence = "hydrating"
  /\ presence' = "idle" /\ loop' = "running" /\ aborted' = FALSE
  /\ starting' = "none"
  /\ status' = IF status = "starting" THEN "running" ELSE status
  /\ UNCHANGED <<startGate, midStart, stopGate, stopVars, tracked, linkUp, roomVars, counts>>

----------------------------------------------------------------------------
(* stop()                                                                  *)

\* runStop once no start is in flight.
BeginStop(from) ==
  /\ fatal' = (from = "failed")
  /\ startGate' = FALSE /\ status' = "stopping"
  /\ aborted' = (aborted \/ loop # "none")
  /\ stopping' = "loop" /\ errors' = FALSE /\ graceful' = TRUE

\* A stop that lands mid-start.  (A second stop, of a start let through while the
\* first was in flight, is left out.)
StopMidStart(b) ==
  /\ ~stopGate /\ stopping = "none" /\ status = "starting" /\ starting # "none"
  /\ stopGate' = TRUE /\ stopping' = "start" /\ budget' = b /\ midStart' = b
  /\ exec' = [e \in Ids |-> IF e \in {executions[r] : r \in Rooms} THEN Stopped(exec[e], b)
                             ELSE exec[e]]
  /\ UNCHANGED <<status, startGate, starting, fatal, sweep, errors, graceful, outcome,
                 presVars, executions, contexts, teardowns, late, counts>>

StopAfterStart ==
  /\ stopping = "start" /\ starting = "none"
  /\ midStart' = "no"
  /\ IF status = "stopped"
       THEN /\ stopping' = "none" /\ outcome' = "graceful"
            /\ UNCHANGED <<status, startGate, fatal, errors, graceful, aborted>>
       ELSE BeginStop(status) /\ UNCHANGED outcome
  /\ UNCHANGED <<starting, stopGate, budget, sweep, presence, loop, tracked, linkUp,
                 roomVars, counts>>

StopRuntime(b) ==
  /\ ~stopGate /\ stopping = "none"
  /\ status = "running" \/ (status = "failed" /\ starting = "none")
  /\ stopGate' = TRUE /\ budget' = b
  /\ BeginStop(status)
  /\ UNCHANGED <<starting, midStart, sweep, outcome, presence, loop, tracked, linkUp,
                 roomVars, counts>>

\* The event loop has ended, and every room is stopped at once.
StopRooms ==
  /\ stopping = "loop" /\ loop # "running"
  /\ errors' = (errors \/ loop = "rejected")
  /\ sweep' = {executions[r] : r \in Rooms} \ {None}
  /\ exec' = [e \in Ids |-> IF e \in sweep' THEN Stopped(exec[e], budget) ELSE exec[e]]
  /\ stopping' = "rooms"
  /\ UNCHANGED <<ownerVars, budget, fatal, graceful, outcome, presVars,
                 executions, contexts, teardowns, late, counts>>

\* presence.stop(), once the event loop has ended and presence is free: the
\* roster is cleared, and every room it tracked is let go.
StopPresence ==
  /\ stopping = "rooms" /\ sweep = {}
  /\ presence = "idle" /\ loop # "running"
  /\ presence' = "stopping" /\ stopping' = "leaving"
  /\ loop' = "none" /\ tracked' = {}
  /\ teardowns' = teardowns \cup {Leaving("presence", r) : r \in tracked}
  /\ UNCHANGED <<ownerVars, budget, fatal, sweep, errors, graceful, outcome, aborted, linkUp,
                 exec, executions, contexts, late, counts>>

PresenceStopped ==
  /\ stopping = "leaving" /\ (\A t \in teardowns : t.by # "presence")
  /\ presence' = "idle" /\ stopping' = "cleanup"
  /\ UNCHANGED <<ownerVars, budget, fatal, sweep, errors, graceful, outcome, loop, aborted,
                 tracked, linkUp, roomVars, counts>>

\* onSessionCleanup of the contexts left, then the maps are cleared.
StopCleansUp(ok) ==
  /\ stopping = "cleanup"
  /\ errors' = (errors \/ (~ok /\ contexts # {}))
  /\ executions' = [r \in Rooms |-> None] /\ contexts' = {}
  /\ late' = IF errors \/ status # "stopping"
               THEN late \cup ({executions[r] : r \in Rooms} \ {None}) ELSE late
  /\ stopping' = "link"
  /\ UNCHANGED <<ownerVars, budget, fatal, sweep, graceful, outcome, presVars,
                 exec, teardowns, counts>>

\* link.disconnect(), and the outcome.  The last transition may be refused.
StopRuntimeEnds ==
  /\ stopping = "link"
  /\ linkUp' = FALSE /\ stopping' = "none"
  /\ LET failed == status = "failed" \/ fatal \/ errors
         refused == status # "stopping" IN
       /\ status' = IF status = "stopped" THEN "stopped"
                    ELSE IF failed \/ refused THEN "failed" ELSE "stopped"
       /\ outcome' = IF failed \/ refused THEN "threw"
                     ELSE IF graceful THEN "graceful" ELSE "forced"
  /\ UNCHANGED <<startGate, starting, midStart, stopGate, budget, fatal, sweep, errors,
                 graceful, presence, loop, aborted, tracked, roomVars, counts>>

----------------------------------------------------------------------------
AgentRoomsNext ==
  \/ \E e \in Ids : Settles(e) \/ TurnFails(e) \/ Closes(e) \/ Ends(e) \/ RoomStopped(e)
  \/ \E t \in teardowns : Unsubscribed(t) \/ \E ok \in BOOLEAN : ExecTeardownEnds(t, ok)
  \/ \E r \in Rooms : RoomJoins(r) \/ RoomLeaves(r) \/ MessageArrives(r)
                     \/ ParticipantChanges(r) \/ BootstrapRoom(r) \/ Hydrates(r)
  \/ \E r \in Rooms, b \in Budgets : Reset(r, b)
  \/ LoopEnds
  \/ StartRuntime \/ PresenceStarts \/ Connects \/ ConnectFails \/ StartFails \/ PresenceStarted
  \/ \E b \in Budgets : StopRuntime(b) \/ StopMidStart(b)
  \/ StopAfterStart \/ StopRooms \/ StopPresence \/ PresenceStopped
  \/ \E ok \in BOOLEAN : StopCleansUp(ok)
  \/ StopRuntimeEnds

AgentRoomsSpec == AgentRoomsInit /\ [][AgentRoomsNext]_roomsVars

----------------------------------------------------------------------------
\* Once the runtime has stopped no execution still takes work, whether the
\* start, an event, a reset or a caller made it and whichever of them was in
\* flight: performStop's comment at AgentRuntime.ts:286.  Excepted are the executions
\* beyond a stop's reach: one made once presence has let its rooms go; one whose place
\* in the map went when an older execution's teardown ended (teardownExecution); and
\* those that a stop that failed, or had a start let in beside it, dropped at work.
RoomsEndWithTheStop ==
  status = "stopped" /\ stopping = "none" =>
    \A e \in Ids : TakesWork(exec[e]) => e \in late

\* A stop that lands mid-start leaves no room taking turns as if nothing had
\* happened, neither one the start has joined nor one it or a caller still joins.
StopReachesJoiningRooms ==
  midStart # "no" => \A r \in Rooms : executions[r] # None => exec[executions[r]].st # "running"

\* start()'s contract (AgentRuntime.ts:152): no start is let through while a stop
\* is taking the runtime down.
NoStartDuringAStop ==
  [][starting = "none" /\ starting' = "queued" => stopping \in {"none", "start"}]_roomsVars
=============================================================================
