------------------------------ MODULE ClaudeQuery ------------------------------
(***************************************************************************)
(* ClaudeSDKAdapter in one room: its turns take the room one after         *)
(* another, each runs a query of the Claude Agent SDK with a bridge of     *)
(* Band's tools, and a reset of the room, or the runtime's stop, retires   *)
(* the turn in flight, which runs on detached from it.                     *)
(***************************************************************************)
EXTENDS Naturals, FiniteSets

CONSTANTS
  ClaudeTurns,    \* 1..n, in the order they come
  MaxRetirals     \* resets and stops

ASSUME ClaudeTurnsAssumption == ClaudeTurns \subseteq Nat \ {0}

VARIABLES
  owner,      \* roomTools: the turn whose tools they are, 0 for none
  active,     \* activeQueries
  tail,       \* roomTurns: the last turn of the lock, 0 once released
  sessionId,  \* sessionIds, and the reset it was learnt after
  marker,     \* the session the room was last told of
  life,       \* resets so far
  claude,     \* doMessage, by turn
  late        \* what a turn began to write once it was retired

claudeVars == <<owner, active, tail, sessionId, marker, life, claude, late>>

NoSessionId == [id |-> 0, life |-> 0]
NotBegun == [phase |-> "none", behind |-> 0, life |-> 0, resume |-> 0, aborted |-> FALSE,
             retired |-> FALSE, failure |-> FALSE]

ClaudeInit ==
  /\ owner = 0 /\ active = 0 /\ tail = 0 /\ sessionId = NoSessionId /\ marker = 0 /\ life = 0 /\ late = {}
  /\ claude = [t \in ClaudeTurns |-> NotBegun]

Phase(t) == claude[t].phase
Owns(t) == owner = t
Writes(t, what) == late' = late \cup IF claude[t].retired THEN {[turn |-> t, what |-> what]} ELSE {}
SeededFrom(t) == \A u \in ClaudeTurns : u < t => claude[u].life # life \/ Phase(u) = "none"

\* roomTurns.run: at once, or behind the lock's last turn.  The room's worker brings a turn
\* once the one before has ended, or was abandoned to a reset or a stop.
Free(u) == u \in {0} \cup {v \in ClaudeTurns : Phase(v) = "done"}
TurnComes(t) ==
  /\ Phase(t) = "none" /\ \A u \in ClaudeTurns : u < t => Phase(u) = "done" \/ claude[u].retired
  /\ tail' = t
  /\ claude' = [claude EXCEPT ![t] = [NotBegun EXCEPT !.phase = IF Free(tail) THEN "loading" ELSE "waiting",
                                                     !.behind = tail, !.life = life]]
  /\ owner' = IF Free(tail) THEN t ELSE owner
  /\ UNCHANGED <<active, sessionId, marker, life, late>>
TurnEnters(t) ==
  /\ Phase(t) = "waiting" /\ Free(claude[t].behind)
  /\ owner' = t /\ claude' = [claude EXCEPT ![t].phase = "loading"]
  /\ UNCHANGED <<active, tail, sessionId, marker, life, late>>

\* startQuery.  The SDK and the bridge load first; what follows to registerQuery is one step.
AdmitsAny(t) == TRUE
Admits(t) == Owns(t)
ResumedFrom(t) == IF sessionId.id # 0 THEN sessionId.id ELSE IF SeededFrom(t) THEN marker ELSE 0
QueryStarts(t) ==
  /\ Phase(t) = "loading" /\ Admits(t)
  /\ active' = t
  /\ claude' = [claude EXCEPT ![t].phase = "querying", ![t].resume = ResumedFrom(t)]
  /\ UNCHANGED <<owner, tail, sessionId, marker, life, late>>

\* A load that fails, a query function that throws, or a turn retired meanwhile.
QueryRefused(t) ==
  /\ Phase(t) = "loading"
  /\ claude' = [claude EXCEPT ![t].phase = "threw"]
  /\ UNCHANGED <<owner, active, tail, sessionId, marker, life, late>>

\* An event with a session id: the session resumed, or a new one, which the room is told of.
\* What the SDK buffered before an abort ends a retired turn.
ListensOn(t) == TRUE
Listens(t) == Owns(t)
QueryYields(t) ==
  /\ Phase(t) = "querying" /\ Listens(t)
  /\ \E id \in {t} \cup ({claude[t].resume} \ {0}) :
       /\ sessionId' = [id |-> id, life |-> IF claude[t].retired THEN claude[t].life ELSE life]
       /\ IF id = sessionId.id THEN UNCHANGED <<claude, late>>
          ELSE claude' = [claude EXCEPT ![t].phase = "marking"] /\ Writes(t, "marker")
  /\ UNCHANGED <<owner, active, tail, marker, life>>
MarkerPosts(t) ==
  /\ Phase(t) = "marking"
  /\ marker' \in {marker, sessionId.id}
  /\ claude' = [claude EXCEPT ![t].phase = "querying"]
  /\ UNCHANGED <<owner, active, tail, sessionId, life, late>>

\* A tool of the bridge resolves while the query is not aborted and its turn owns the room.
ResolvesAny(t) == TRUE
Resolves(t) == ~claude[t].aborted /\ Owns(t)
ToolRuns(t) ==
  /\ Phase(t) \in {"querying", "marking"} /\ Resolves(t)
  /\ Writes(t, "tool")
  /\ UNCHANGED <<owner, active, tail, sessionId, marker, life, claude>>

\* A tool_use_summary the SDK yields is reported, when execution reporting is on.
SummaryPosts(t) ==
  /\ Phase(t) = "querying" /\ Listens(t)
  /\ Writes(t, "summary")
  /\ UNCHANGED <<owner, active, tail, sessionId, marker, life, claude>>

\* The query's end, with a result or an error: closeAfter closes what is still tracked.
ClosedAny(t) == 0
Closed(t) == IF active = t THEN 0 ELSE active
QueryEnds(t) ==
  /\ Phase(t) = "querying"
  /\ active' = Closed(t)
  /\ \E next \in {"answered", "threw"}, failure \in BOOLEAN :
       claude' = [claude EXCEPT ![t].phase = next, ![t].aborted = TRUE, ![t].failure = failure /\ next = "answered"]
  /\ UNCHANGED <<owner, tail, sessionId, marker, life, late>>

\* settleIfRetired, before each thing the turn would say.  doMessage's finally gives the
\* room back.
SettlesNever(t) == FALSE
SettlesRetired(t) == ~Owns(t)
LeavesRoom(t) ==
  /\ owner' = IF Owns(t) THEN 0 ELSE owner
  /\ claude' = [claude EXCEPT ![t].phase = "done"]
  /\ UNCHANGED <<active, tail, sessionId, marker, life>>
Says(t, what, next) ==
  /\ ~SettlesRetired(t) /\ Writes(t, what)
  /\ claude' = [claude EXCEPT ![t].phase = next]
  /\ UNCHANGED <<owner, active, tail, sessionId, marker, life>>

Settled(t) == Phase(t) \in {"threw", "answered", "posted", "unposted"} /\ SettlesRetired(t) /\ LeavesRoom(t) /\ UNCHANGED late
Relays(t) == Phase(t) = "answered" /\ Says(t, "reply", "posting")
Reports(t) ==
  /\ \/ Phase(t) = "threw"
     \/ Phase(t) \in {"posted", "unposted"} /\ claude[t].failure
  /\ Says(t, "failure", "reporting")
ReplyPosts(t) ==
  /\ Phase(t) = "posting"
  /\ \E next \in {"posted", "unposted"} : claude' = [claude EXCEPT ![t].phase = next]
  /\ UNCHANGED <<owner, active, tail, sessionId, marker, life, late>>
TurnEnds(t) ==
  /\ \/ Phase(t) = "reporting"
     \/ Phase(t) \in {"posted", "unposted"} /\ ~claude[t].failure /\ ~SettlesRetired(t)
  /\ LeavesRoom(t) /\ UNCHANGED late

\* onCleanup: the query is closed, the session forgotten, the lock released.  (It comes, and
\* so does a stop, when no turn waits for the lock.)
NobodyWaits == \A t \in ClaudeTurns : Phase(t) # "waiting"
Aborts ==
  [t \in ClaudeTurns |-> [claude[t] EXCEPT !.aborted = @ \/ t = active,
                                           !.retired = @ \/ t = owner]]
Resets ==
  /\ NobodyWaits /\ life < MaxRetirals /\ life' = life + 1
  /\ claude' = Aborts /\ active' = 0
  /\ sessionId' = NoSessionId /\ tail' = 0 /\ owner' = 0
  /\ UNCHANGED <<marker, late>>

\* onRuntimeStop: every turn is retired, and every query closed.
Stops ==
  /\ NobodyWaits /\ (owner # 0 \/ active # 0)
  /\ claude' = Aborts /\ active' = 0 /\ owner' = 0
  /\ UNCHANGED <<sessionId, tail, marker, life, late>>

ClaudeNext ==
  \/ Resets \/ Stops
  \/ \E t \in ClaudeTurns :
       \/ TurnComes(t) \/ TurnEnters(t) \/ QueryStarts(t) \/ QueryRefused(t) \/ QueryYields(t) \/ MarkerPosts(t)
       \/ ToolRuns(t) \/ SummaryPosts(t) \/ QueryEnds(t) \/ Settled(t) \/ Relays(t) \/ Reports(t) \/ ReplyPosts(t) \/ TurnEnds(t)

ClaudeSpec == ClaudeInit /\ [][ClaudeNext]_claudeVars

-----------------------------------------------------------------------------

\* A turn that a reset or a stop retired begins no further reply, failure report, session
\* marker or Band tool call in the room, wherever it was when it was retired.
RetiredTurnsAreMute == late = {}

\* The room has one query at a time that is not aborted, the one a reset or a stop would
\* abort, and it is of the turn that owns the room.
QueriesAreTracked ==
  \A t \in ClaudeTurns : Phase(t) \in {"querying", "marking"} /\ ~claude[t].aborted => active = t /\ Owns(t)

\* The room resumes no session it was told before its last reset: a turn that runs on
\* detached does not bring the forgotten one back.
ForgottenSessionsStay == sessionId.id # 0 => sessionId.life = life

ClaudeIsContained == RetiredTurnsAreMute /\ QueriesAreTracked /\ ForgottenSessionsStay
=============================================================================
