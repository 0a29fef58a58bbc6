--------------------------- MODULE AdapterProofs ---------------------------
(***************************************************************************)
(* Theorems about the adapters of MCAdapters, for every number of turns,   *)
(* sessions, calls, resets and answers.  Each part has an inductive        *)
(* invariant of its own; a behaviour of AdaptersSpec is one of the part    *)
(* its initial state picks.                                                *)
(***************************************************************************)
EXTENDS MCAdapters, SequenceTheorems, FiniteSetTheorems, FunctionTheorems, TLAPS

----------------------------------------------------------------------------
(* ClaudeSDKAdapter.  A room that a turn owns has not retired it, and of   *)
(* two turns that came the earlier is over or retired.                     *)

ClaudePhases ==
  {"none", "waiting", "loading", "querying", "marking", "threw", "answered", "posting", "posted",
   "unposted", "reporting", "done"}
ClaudeIds == ClaudeTurns \cup {0}
ClaudeRecords ==
  [phase : ClaudePhases, behind : ClaudeIds, life : Nat, resume : ClaudeIds, aborted : BOOLEAN,
   retired : BOOLEAN, failure : BOOLEAN]

ClaudeType ==
  /\ owner \in ClaudeIds /\ active \in ClaudeIds /\ tail \in ClaudeIds /\ marker \in ClaudeIds
  /\ sessionId \in [id : ClaudeIds, life : Nat] /\ life \in Nat
  /\ claude \in [ClaudeTurns -> ClaudeRecords]

\* A retired turn has come to its turn, owns nothing, and runs no query that is not aborted.
RetiredInv ==
  \A t \in ClaudeTurns : claude[t].retired =>
    /\ Phase(t) \notin {"none", "waiting"} /\ owner # t
    /\ Phase(t) \in {"querying", "marking"} => claude[t].aborted
OwnerHasCome == \A t \in ClaudeTurns : owner = t => Phase(t) # "none"
TurnsInOrder ==
  \A t, u \in ClaudeTurns : u < t /\ Phase(t) # "none" => Phase(u) = "done" \/ claude[u].retired

ClaudeInv == ClaudeType /\ RetiredInv /\ OwnerHasCome /\ TurnsInOrder /\ ClaudeIsContained

LEMMA ClaudeStarts == ClaudeInit => ClaudeInv
BY ClaudeTurnsAssumption
DEF ClaudeInit, ClaudeInv, ClaudeType, ClaudeRecords, ClaudePhases, ClaudeIds, RetiredInv, OwnerHasCome, TurnsInOrder, ClaudeIsContained,
    RetiredTurnsAreMute, QueriesAreTracked, ForgottenSessionsStay, NotBegun, NoSessionId, Phase

\* What a reset or a stop does to a turn, and a query's end.
LEMMA ClaudeRecordSet ==
  ASSUME NEW r \in ClaudeRecords, NEW a \in BOOLEAN, NEW b \in BOOLEAN, NEW p \in ClaudePhases
  PROVE  /\ [r EXCEPT !.aborted = a, !.retired = b] \in ClaudeRecords
         /\ [r EXCEPT !.phase = p, !.aborted = a, !.failure = b] \in ClaudeRecords
BY DEF ClaudeRecords

LEMMA ClaudeTypeKept == ClaudeType /\ [ClaudeNext]_claudeVars => ClaudeType'
<1> SUFFICES ASSUME ClaudeType, [ClaudeNext]_claudeVars PROVE ClaudeType'
  OBVIOUS
<1> USE ClaudeTurnsAssumption DEF ClaudeType, ClaudeIds, ClaudePhases, ClaudeRecords
<1>1. CASE UNCHANGED claudeVars
  BY <1>1 DEF claudeVars
<1>2. CASE Resets \/ Stops
  <2>1. \A t \in ClaudeTurns :
          [claude[t] EXCEPT !.aborted = @ \/ t = active, !.retired = @ \/ t = owner] \in ClaudeRecords
    <3> TAKE t \in ClaudeTurns
    <3>1. (claude[t].aborted \/ t = active) \in BOOLEAN /\ (claude[t].retired \/ t = owner) \in BOOLEAN
      OBVIOUS
    <3> HIDE DEF ClaudeRecords
    <3>2. claude[t] \in ClaudeRecords
      OBVIOUS
    <3> QED BY Zenon, <3>1, <3>2, ClaudeRecordSet
  <2>2. claude' \in [ClaudeTurns -> ClaudeRecords]
    <3> HIDE DEF ClaudeRecords
    <3>1. claude' = Aborts
      BY <1>2 DEF Resets, Stops
    <3>2. Aborts \in [ClaudeTurns -> ClaudeRecords]
      BY <2>1, Zenon DEF Aborts
    <3> QED BY <3>1, <3>2
  <2> QED BY SMTT(40), <1>2, <2>2 DEF Resets, Stops, NoSessionId
<1>3. ASSUME NEW t \in ClaudeTurns, TurnComes(t) \/ TurnEnters(t) PROVE ClaudeType'
  <2>1. CASE TurnComes(t)
    <3> DEFINE new == [NotBegun EXCEPT !.phase = IF Free(tail) THEN "loading" ELSE "waiting",
                                       !.behind = tail, !.life = life]
    <3>1. new \in ClaudeRecords
      BY DEF NotBegun
    <3>2. claude' \in [ClaudeTurns -> ClaudeRecords]
      BY <2>1, <3>1 DEF TurnComes
    <3> QED BY <2>1, <3>2 DEF TurnComes
  <2>2. CASE TurnEnters(t)
    BY <2>2 DEF TurnEnters
  <2> QED BY <1>3, <2>1, <2>2
<1>4. ASSUME NEW t \in ClaudeTurns, QueryStarts(t) \/ QueryRefused(t) PROVE ClaudeType'
  BY <1>4 DEF QueryStarts, QueryRefused, ResumedFrom
<1>5. ASSUME NEW t \in ClaudeTurns, QueryYields(t) \/ MarkerPosts(t) PROVE ClaudeType'
  BY <1>5 DEF QueryYields, MarkerPosts
<1>6. ASSUME NEW t \in ClaudeTurns, ToolRuns(t) \/ SummaryPosts(t) PROVE ClaudeType'
  BY <1>6 DEF ToolRuns, SummaryPosts
<1>7. ASSUME NEW t \in ClaudeTurns, QueryEnds(t) PROVE ClaudeType'
  <2>1. active' \in ClaudeIds
    BY <1>7 DEF QueryEnds, Closed
  <2>2. claude' \in [ClaudeTurns -> ClaudeRecords]
    <3>1. PICK next \in {"answered", "threw"}, f \in BOOLEAN :
            claude' = [claude EXCEPT ![t].phase = next, ![t].aborted = TRUE, ![t].failure = f /\ next = "answered"]
      BY Zenon, <1>7 DEF QueryEnds
    <3>2. (f /\ next = "answered") \in BOOLEAN /\ TRUE \in BOOLEAN /\ next \in ClaudePhases
      BY <3>1
    <3> HIDE DEF ClaudeRecords, ClaudePhases
    <3>3. claude \in [ClaudeTurns -> ClaudeRecords]
      OBVIOUS
    <3>4. [claude[t] EXCEPT !.phase = next, !.aborted = TRUE, !.failure = f /\ next = "answered"] \in ClaudeRecords
      BY Zenon, <3>2, <3>3, ClaudeRecordSet
    <3> QED BY <3>1, <3>3, <3>4
  <2> QED BY <1>7, <2>1, <2>2 DEF QueryEnds
<1>8. ASSUME NEW t \in ClaudeTurns, Settled(t) \/ TurnEnds(t) PROVE ClaudeType'
  BY <1>8 DEF Settled, TurnEnds, LeavesRoom
<1>9. ASSUME NEW t \in ClaudeTurns, Relays(t) \/ Reports(t) \/ ReplyPosts(t) PROVE ClaudeType'
  BY <1>9 DEF Relays, Reports, ReplyPosts, Says
<1> QED BY <1>1, <1>2, <1>3, <1>4, <1>5, <1>6, <1>7, <1>8, <1>9 DEF ClaudeNext

LEMMA ClaudeKept == ClaudeInv /\ [ClaudeNext]_claudeVars => ClaudeInv'
<1> SUFFICES ASSUME ClaudeInv, [ClaudeNext]_claudeVars PROVE ClaudeInv'
  OBVIOUS
<1> DEFINE Rest == RetiredInv /\ OwnerHasCome /\ TurnsInOrder /\ ClaudeIsContained
<1>0. ClaudeType /\ ClaudeType'
  BY ClaudeTypeKept DEF ClaudeInv
<1>a. 0 \notin ClaudeTurns /\ \A t \in ClaudeTurns : t \in Nat
  BY ClaudeTurnsAssumption
<1>b. DOMAIN claude = ClaudeTurns /\ \A t \in ClaudeTurns : claude[t] \in ClaudeRecords
  BY <1>0 DEF ClaudeType
<1> USE <1>a, <1>b DEF Phase, Owns, RetiredInv, OwnerHasCome, TurnsInOrder, ClaudeIsContained,
    RetiredTurnsAreMute, QueriesAreTracked, ForgottenSessionsStay, ClaudeRecords
<1>1. CASE UNCHANGED claudeVars
  BY <1>0, <1>1 DEF claudeVars, ClaudeInv
<1>2. CASE Resets \/ Stops
  <2>1. \A t \in ClaudeTurns :
          /\ claude'[t].phase = claude[t].phase
          /\ claude'[t].aborted <=> claude[t].aborted \/ t = active
          /\ claude'[t].retired <=> claude[t].retired \/ t = owner
    <3> TAKE t \in ClaudeTurns
    <3>1. claude' = Aborts
      BY <1>2 DEF Resets, Stops
    <3>2. claude'[t] = [claude[t] EXCEPT !.aborted = @ \/ t = active, !.retired = @ \/ t = owner]
      BY <3>1, Zenon DEF Aborts
    <3> DEFINE a == claude[t].aborted \/ t = active
               b == claude[t].retired \/ t = owner
    <3>3. a \in BOOLEAN /\ b \in BOOLEAN
      OBVIOUS
    <3>4. claude'[t] = [claude[t] EXCEPT !.aborted = a, !.retired = b]
      BY <3>2, Zenon
    <3>5. claude'[t].phase = claude[t].phase /\ claude'[t].aborted = a /\ claude'[t].retired = b
      <4> HIDE DEF a, b
      <4> QED BY <3>3, <3>4
    <3> QED BY <3>3, <3>5
  <2>2. owner' = 0 /\ late' = late /\ (sessionId'.id # 0 => sessionId' = sessionId /\ life' = life)
    BY <1>2 DEF Resets, Stops, NoSessionId
  <2>3. \A t \in ClaudeTurns : claude[t].phase # "waiting"
    BY <1>2 DEF Resets, Stops, NobodyWaits
  <2>4. \A t \in ClaudeTurns : owner = t => claude[t].phase # "none"
    BY DEF ClaudeInv
  <2>5. Rest'
    BY <2>1, <2>2, <2>3, <2>4 DEF ClaudeInv
  <2> QED BY <2>5, <1>0 DEF ClaudeInv
<1>3. ASSUME NEW t \in ClaudeTurns, TurnComes(t) PROVE Rest'
  BY <1>3 DEF TurnComes, NotBegun, ClaudeInv
<1>4. ASSUME NEW t \in ClaudeTurns, TurnEnters(t) PROVE Rest'
  BY <1>4 DEF TurnEnters, ClaudeInv
<1>5. ASSUME NEW t \in ClaudeTurns, QueryStarts(t) \/ QueryRefused(t) PROVE Rest'
  BY <1>5 DEF QueryStarts, QueryRefused, Admits, ClaudeInv
<1>6. ASSUME NEW t \in ClaudeTurns, QueryYields(t) \/ MarkerPosts(t) PROVE Rest'
  BY <1>6 DEF QueryYields, MarkerPosts, Listens, Writes, ClaudeInv
<1>7. ASSUME NEW t \in ClaudeTurns, ToolRuns(t) \/ SummaryPosts(t) PROVE Rest'
  BY <1>7 DEF ToolRuns, SummaryPosts, Resolves, Listens, Writes, ClaudeInv
<1>8. ASSUME NEW t \in ClaudeTurns, QueryEnds(t) PROVE Rest'
  BY <1>8 DEF QueryEnds, Closed, ClaudeInv
<1>9. ASSUME NEW t \in ClaudeTurns, Settled(t) \/ TurnEnds(t) PROVE Rest'
  BY <1>9 DEF Settled, TurnEnds, LeavesRoom, SettlesRetired, ClaudeInv
<1>10. ASSUME NEW t \in ClaudeTurns, Relays(t) \/ Reports(t) \/ ReplyPosts(t) PROVE Rest'
  BY <1>10 DEF Relays, Reports, ReplyPosts, Says, SettlesRetired, Writes, ClaudeInv
<1> QED BY <1>0, <1>1, <1>2, <1>3, <1>4, <1>5, <1>6, <1>7, <1>8, <1>9, <1>10 DEF ClaudeNext, ClaudeInv

----------------------------------------------------------------------------
(* The rounds of a framework.  A valid roster tells the round's calls      *)
(* apart, so it is empty only once each of them was answered for.          *)

CallStates == {"none", "made", "landed", "declined", "failed"}
RoundStages == {"model", "tools", "answered", "declined", "failed"}
CallRecords == [id : CallIds, state : CallStates, told : BOOLEAN]

RoundsType ==
  /\ framework \in {"adk", "langgraph"} /\ rounds \in Nat /\ turnStage \in RoundStages
  /\ made \in [Slots -> CallRecords]
  /\ roster \in [pending : SUBSET CallIds, valid : BOOLEAN]
  /\ outcome \in [declined : BOOLEAN, failed : BOOLEAN]

OutcomeIsTheRounds ==
  /\ outcome.declined <=> \E s \in Slots : made[s].state = "declined"
  /\ outcome.failed <=> \E s \in Slots : made[s].state = "failed"
ToldAreOver == \A s \in Slots : made[s].told => made[s].state # "made"
RosterInv ==
  roster.valid =>
    /\ \A s \in Slots : made[s].state # "none" /\ ~made[s].told => made[s].id \in roster.pending
    /\ \A s, u \in Slots : made[s].state # "none" /\ made[u].state # "none" /\ made[s].id = made[u].id => s = u
    /\ framework = "adk" =>
         \A x \in roster.pending : \E s \in Slots : made[s].state # "none" /\ ~made[s].told /\ made[s].id = x

RoundsInv ==
  /\ RoundsType /\ OutcomeIsTheRounds /\ ToldAreOver /\ RosterInv
  /\ RoundsEndInTime

\* A roster as long as its round has a name for each call, and no two share one.
LEMMA NamedApart ==
  ASSUME NEW S \in SUBSET Slots, NEW ids \in [S -> CallIds], Cardinality(Named(ids)) = Cardinality(S)
  PROVE  /\ \A s \in S : ids[s] \in Named(ids)
         /\ \A s, u \in S : ids[s] = ids[u] => s = u
<1> DEFINE R == {ids[s] : s \in S}
<1>1. IsFiniteSet(S)
  BY FS_Subset, RoundsAssumption
<1>2. ids \in Surjection(S, R)
  BY Zenon DEF Surjection
<1>3. IsFiniteSet(R) /\ Cardinality(R) <= Cardinality(S) /\ (Cardinality(R) = Cardinality(S) <=> ids \in Injection(S, R))
  <2> HIDE DEF R
  <2> QED BY <1>1, <1>2, FS_Surjection
<1>4. Named(ids) = R \ {0}
  BY DEF Named
<1>5. Cardinality(R \ {0}) = IF 0 \in R THEN Cardinality(R) - 1 ELSE Cardinality(R)
  BY <1>3, FS_RemoveElement
<1>6. Cardinality(S) \in Nat /\ Cardinality(R) \in Nat
  BY <1>1, <1>3, FS_CardinalityType
<1>7. 0 \notin R /\ Cardinality(R) = Cardinality(S)
  <2> HIDE DEF R
  <2> QED BY <1>3, <1>4, <1>5, <1>6
<1>8. ids \in Injection(S, R)
  BY <1>3, <1>7
<1> QED BY <1>4, <1>7, <1>8 DEF Injection, IsInjective

LEMMA RoundsStart == RoundsInit => RoundsInv
BY RoundsAssumption
DEF RoundsInit, RoundsInv, RoundsType, RoundStages, CallRecords, CallStates, OutcomeIsTheRounds,
    ToldAreOver, RosterInv, RoundsEndInTime, DeclineIsOfTheRound, DeclineEndsTheTurn, RoundsAreLimited,
    NotMade, NewOutcome, Made

LEMMA RoundsKept == RoundsInv /\ [RoundsNext]_roundVars => RoundsInv'
<1> SUFFICES ASSUME RoundsInv, [RoundsNext]_roundVars PROVE RoundsInv'
  OBVIOUS
<1> USE RoundsAssumption DEF RoundsInv, RoundsEndInTime
<1>0. DOMAIN made = Slots /\ \A s \in Slots : made[s] \in CallRecords
  BY DEF RoundsType
<1>1. CASE UNCHANGED roundVars
  BY <1>1 DEF roundVars, RoundsType, OutcomeIsTheRounds, ToldAreOver, RosterInv, DeclineIsOfTheRound,
              DeclineEndsTheTurn, RoundsAreLimited, Made
<1>2. ASSUME NEW S \in SUBSET Slots \ {{}}, NEW ids \in [S -> CallIds], ModelCalls(ids) PROVE RoundsInv'
  <2>a. DOMAIN ids = S /\ S \in SUBSET Slots
    OBVIOUS
  <2>b. turnStage = "model" /\ rounds' = rounds + 1 /\ framework' = framework
    BY <1>2, Zenon DEF ModelCalls
  <2>0. DOMAIN ids = S /\ S \in SUBSET Slots /\ turnStage = "model" /\ rounds' = rounds + 1 /\ framework' = framework
    BY <2>a, <2>b
  <2>1. CASE rounds' > MaxRounds
    <3>1. turnStage' = "failed" /\ UNCHANGED <<made, seen, roster, outcome>>
      BY <1>2, <2>1, Zenon DEF ModelCalls
    <3> QED BY <2>0, <3>1 DEF RoundsType, RoundStages, OutcomeIsTheRounds, ToldAreOver, RosterInv, DeclineIsOfTheRound,
              DeclineEndsTheTurn, RoundsAreLimited, Made
  <2>2. CASE ~(rounds' > MaxRounds)
    <3>1. /\ turnStage' = "tools" /\ roster' = RosterOf(ids) /\ outcome' = NewOutcome
          /\ made' = [s \in Slots |-> IF s \in S THEN [id |-> ids[s], state |-> "made", told |-> FALSE] ELSE NotMade]
      BY <1>2, <2>0, <2>2 DEF ModelCalls, OutcomeStarted
    <3>2. RoundsType'
      <4>1. Named(ids) \in SUBSET CallIds
        BY <2>0 DEF Named
      <4>2. made' \in [Slots -> CallRecords]
        BY <3>1 DEF NotMade, CallRecords, CallStates
      <4>3. roster' \in [pending : SUBSET CallIds, valid : BOOLEAN]
        BY <3>1, <4>1 DEF RosterOf
      <4>4. outcome' \in [declined : BOOLEAN, failed : BOOLEAN]
        BY <3>1 DEF NewOutcome
      <4> QED BY <2>0, <3>1, <4>2, <4>3, <4>4 DEF RoundsType, RoundStages
    <3>3. OutcomeIsTheRounds' /\ ToldAreOver'
      BY <3>1 DEF OutcomeIsTheRounds, ToldAreOver, NewOutcome, NotMade
    <3>4. RosterInv'
      <4> SUFFICES ASSUME roster'.valid PROVE RosterInv'
        BY DEF RosterInv
      <4>1. Cardinality(Named(ids)) = Cardinality(S) /\ roster'.pending = Named(ids)
        BY <2>0, <3>1 DEF RosterOf
      <4>2. \A s \in S : ids[s] \in Named(ids)
        BY <4>1, NamedApart
      <4>3. \A s, u \in S : ids[s] = ids[u] => s = u
        BY <4>1, NamedApart
      <4>4. \A s \in Slots : made'[s].state # "none" => s \in S /\ made'[s].id = ids[s]
        BY <3>1 DEF NotMade
      <4>5. \A x \in Named(ids) : \E s \in S : ids[s] = x
        BY <2>0 DEF Named
      <4>6. \A s \in S : s \in Slots /\ made'[s] = [id |-> ids[s], state |-> "made", told |-> FALSE]
        BY <3>1
      <4>7. \A s, u \in Slots : made'[s].state # "none" /\ made'[u].state # "none" /\ made'[s].id = made'[u].id => s = u
        BY <4>3, <4>4
      <4>8. \A x \in Named(ids) : \E s \in Slots : made'[s].state # "none" /\ ~made'[s].told /\ made'[s].id = x
        <5> TAKE x \in Named(ids)
        <5>1. PICK s \in S : ids[s] = x
          BY <4>5
        <5>2. s \in Slots /\ made'[s].state = "made" /\ ~made'[s].told /\ made'[s].id = x
          <6>1. s \in Slots /\ made'[s] = [id |-> ids[s], state |-> "made", told |-> FALSE]
            BY <4>6, <5>1
          <6>2. made'[s].state = "made" /\ made'[s].told = FALSE /\ made'[s].id = ids[s]
            BY <6>1
          <6> QED BY <5>1, <6>1, <6>2
        <5> QED BY <5>2
      <4> HIDE DEF Named
      <4> QED BY <4>1, <4>2, <4>4, <4>7, <4>8 DEF RosterInv
    <3>5. RoundsEndInTime'
      BY <2>0, <2>2, <3>1 DEF RoundsType, DeclineIsOfTheRound, DeclineEndsTheTurn, RoundsAreLimited
    <3> QED BY <3>2, <3>3, <3>4, <3>5
  <2> QED BY <2>1, <2>2
<1>3. ASSUME NEW s \in Slots, NEW how \in {"landed", "declined", "failed"}, CallSettles(s, how) PROVE RoundsInv'
  <2>1. /\ turnStage = "tools" /\ made[s].state = "made" /\ made' = [made EXCEPT ![s].state = how]
        /\ outcome' = [declined |-> outcome.declined \/ how = "declined", failed |-> outcome.failed \/ how = "failed"]
        /\ UNCHANGED <<framework, rounds, seen, roster, turnStage>>
    BY <1>3 DEF CallSettles, Fails
  <2>2. made' \in [Slots -> CallRecords]
    BY <1>0, <2>1 DEF CallRecords, CallStates, RoundsType
  <2>3. outcome' \in [declined : BOOLEAN, failed : BOOLEAN]
    BY <2>1 DEF RoundsType
  <2>4. \A u \in Slots : /\ made'[u].id = made[u].id /\ made'[u].told = made[u].told
                         /\ made'[u].state = IF u = s THEN how ELSE made[u].state
    BY <1>0, <2>1 DEF CallRecords
  <2>5. OutcomeIsTheRounds'
    <3>1. outcome'.declined <=> outcome.declined \/ how = "declined"
      BY <2>1 DEF RoundsType
    <3>2. outcome'.failed <=> outcome.failed \/ how = "failed"
      BY <2>1 DEF RoundsType
    <3> QED BY <2>1, <2>4, <3>1, <3>2 DEF OutcomeIsTheRounds
  <2>6. ToldAreOver' /\ RosterInv'
    BY <2>1, <2>4 DEF ToldAreOver, RosterInv
  <2> QED BY <2>1, <2>2, <2>3, <2>5, <2>6 DEF RoundsType, DeclineIsOfTheRound, DeclineEndsTheTurn, RoundsAreLimited
<1>4. ASSUME NEW told \in SUBSET Slots, Responds(told) PROVE RoundsInv'
  <2> DEFINE pending == roster.pending \ {made[s].id : s \in told}
  <2>1. /\ framework = "adk" /\ turnStage = "tools" /\ told \subseteq {s \in Untold : made[s].state # "made"}
        /\ made' = [s \in Slots |-> [made[s] EXCEPT !.told = @ \/ s \in told]]
        /\ roster' = [roster EXCEPT !.pending = pending]
        /\ turnStage' = IF roster.valid /\ pending = {} /\ Declines THEN "declined"
                        ELSE IF Untold = told THEN "model" ELSE "tools"
        /\ UNCHANGED <<framework, rounds, seen, outcome>>
    BY <1>4 DEF Responds
  <2>2. \A s \in Slots : /\ made'[s].id = made[s].id /\ made'[s].state = made[s].state
                         /\ made'[s].told <=> made[s].told \/ s \in told
                         /\ made'[s] \in CallRecords
    <3> TAKE s \in Slots
    <3> DEFINE b == made[s].told \/ s \in told
    <3>1. b \in BOOLEAN
      BY <1>0 DEF CallRecords
    <3>2. made'[s] = [made[s] EXCEPT !.told = b]
      BY <2>1
    <3>3. made'[s] \in CallRecords /\ made'[s].told = b /\ made'[s].id = made[s].id /\ made'[s].state = made[s].state
      <4> HIDE DEF b
      <4> QED BY <1>0, <3>1, <3>2 DEF CallRecords
    <3> QED BY <3>3
  <2>3. roster' \in [pending : SUBSET CallIds, valid : BOOLEAN] /\ roster'.pending = pending /\ roster'.valid = roster.valid
    BY <2>1 DEF RoundsType
  <2>4. RoundsType'
    <3>1. made' \in [Slots -> CallRecords]
      BY <2>1, <2>2
    <3> QED BY <2>1, <2>3, <3>1 DEF RoundsType, RoundStages
  <2>5. OutcomeIsTheRounds' /\ ToldAreOver'
    <3>1. outcome' = outcome /\ \A s \in told : made[s].state # "made"
      BY <2>1
    <3> QED BY <2>2, <3>1 DEF OutcomeIsTheRounds, ToldAreOver
  <2>6. RosterInv'
    <3> SUFFICES ASSUME roster.valid PROVE RosterInv'
      BY <2>3 DEF RosterInv
    <3>1. \A s \in told : s \in Slots /\ made[s].state # "none"
      BY <2>1 DEF Untold, Made
    <3>2. \A s \in Slots : made'[s].state # "none" /\ ~made'[s].told => made'[s].id \in pending
      BY <2>2, <3>1 DEF RosterInv
    <3>3. framework = "adk" /\ framework' = "adk"
      BY <2>1
    <3>4. ASSUME NEW x \in pending
          PROVE  \E s \in Slots : made'[s].state # "none" /\ ~made'[s].told /\ made'[s].id = x
      <4>1. PICK s \in Slots : made[s].state # "none" /\ ~made[s].told /\ made[s].id = x
        BY <3>3 DEF RosterInv
      <4> QED BY <2>2, <4>1
    <3> QED BY <2>2, <2>3, <3>2, <3>3, <3>4 DEF RosterInv
  <2>7. DeclineIsOfTheRound'
    <3> SUFFICES ASSUME turnStage' = "declined" PROVE DeclineIsOfTheRound'
      BY DEF DeclineIsOfTheRound
    <3>1. roster.valid /\ pending = {} /\ outcome.declined /\ ~outcome.failed
      BY <2>1 DEF Declines
    <3>2. \A s \in Slots : made'[s].state # "none" => made'[s].told
      BY <2>3, <2>6, <3>1 DEF RosterInv
    <3>3. \A s \in Slots : made'[s].state \notin {"none", "made", "failed"} => made'[s].state \in {"landed", "declined"}
      BY <2>2 DEF CallRecords, CallStates
    <3> QED BY <2>1, <2>5, <3>1, <3>2, <3>3 DEF OutcomeIsTheRounds, ToldAreOver, DeclineIsOfTheRound, Made
  <2>8. DeclineEndsTheTurn'
    <3> SUFFICES ASSUME turnStage' = "model", roster.valid PROVE ~Declines
      BY <2>1, <2>3, <2>5 DEF DeclineEndsTheTurn, Declines, OutcomeIsTheRounds, Made
    <3>1. Untold = told
      BY <2>1
    <3>2. pending = {}
      <4> SUFFICES ASSUME NEW x \in pending PROVE FALSE
        OBVIOUS
      <4>1. PICK s \in Slots : made[s].state # "none" /\ ~made[s].told /\ made[s].id = x
        BY <2>1 DEF RosterInv
      <4> QED BY <3>1, <4>1 DEF Untold, Made
    <3> QED BY <2>1, <3>2
  <2> QED BY <2>1, <2>4, <2>5, <2>6, <2>7, <2>8 DEF RoundsAreLimited
<1>5. CASE StepEnds
  <2>1. /\ framework = "langgraph" /\ turnStage = "tools" /\ \A s \in Made : made[s].state # "made"
        /\ made' = [s \in Slots |-> [made[s] EXCEPT !.told = TRUE]]
        /\ IF Declines THEN turnStage' = "declined" ELSE turnStage' \in {"model", "failed"}
        /\ UNCHANGED <<framework, rounds, seen, roster, outcome>>
    BY <1>5 DEF StepEnds
  <2>2. \A s \in Slots : /\ made'[s].id = made[s].id /\ made'[s].state = made[s].state /\ made'[s].told
                         /\ made'[s] \in CallRecords
    BY <1>0, <2>1 DEF CallRecords
  <2>3. RoundsType'
    BY <2>1, <2>2 DEF RoundsType, RoundStages
  <2>4. OutcomeIsTheRounds' /\ ToldAreOver' /\ RosterInv'
    <3>1. outcome' = outcome /\ roster' = roster /\ framework' = "langgraph" /\ \A s \in Slots : made[s].state # "made"
      BY <2>1 DEF Made
    <3> QED BY <2>2, <3>1 DEF OutcomeIsTheRounds, ToldAreOver, RosterInv
  <2>5. \A s \in Slots : made'[s].state \notin {"none", "made", "failed"} => made'[s].state \in {"landed", "declined"}
    BY <2>2 DEF CallRecords, CallStates
  <2>6. DeclineIsOfTheRound' /\ DeclineEndsTheTurn' /\ RoundsAreLimited'
    <3>1. \A s \in Slots : made'[s].state # "made"
      BY <2>1, <2>2 DEF Made
    <3>2. outcome' = outcome /\ turnStage' # "tools" /\ (turnStage' = "declined" <=> Declines)
      BY <2>1
    <3> QED BY <2>4, <2>5, <3>1, <3>2 DEF Declines, OutcomeIsTheRounds, DeclineIsOfTheRound, DeclineEndsTheTurn, RoundsAreLimited, Made
  <2> QED BY <2>3, <2>4, <2>6
<1>6. CASE ModelAnswers \/ RunFails
  BY <1>6 DEF ModelAnswers, RunFails, RoundsType, RoundStages, OutcomeIsTheRounds, ToldAreOver, RosterInv, DeclineIsOfTheRound,
              DeclineEndsTheTurn, RoundsAreLimited, Made
<1> QED BY <1>1, <1>2, <1>3, <1>4, <1>5, <1>6 DEF RoundsNext

----------------------------------------------------------------------------
(* OpencodeAdapter.  A room's state holds the turn that is live in it, and *)
(* only that one; an end event that is still to come is of a turn of its   *)
(* session, and of one that has not been given up.                         *)

OcIds == OcSessions \cup {NoOc}
OcPcs == {"none", "setup", "settled", "prompting", "taken", "running", "reporting", "done"}
RoomRecords ==
  [in : BOOLEAN, life : Nat, session : OcIds, turn : OcTurns \cup {NoOc}, starting : BOOLEAN,
   force : BOOLEAN, named : OcIds, auto : BOOLEAN]
TurnRecords ==
  [pc : OcPcs, life : Nat, held : OcIds, named : OcIds, fresh : BOOLEAN, session : OcIds,
   lost : BOOLEAN, replays : BOOLEAN, ended : BOOLEAN, owes : BOOLEAN]
SessionRecords ==
  [st : {"none", "made", "gone"}, aborted : BOOLEAN, prompts : Seq(OcTurns), knows : BOOLEAN]
EventRecords ==
  [is : {"ask", "settled"}, session : OcIds, of : Asks] \cup [is : {"end"}, session : OcSessions, of : OcTurns]
AskRecords ==
  [on : {"none", "waiting", "unheard", "settled"}, session : OcIds, entry : {"none", "open", "claimed"},
   timer : BOOLEAN, replying : BOOLEAN, by : OcTurns \cup {NoOc}]
PostRecords == [ask : Asks \cup {NoOc}, turn : OcTurns \cup {NoOc}]
MemoryRecords ==
  [talked : BOOLEAN, amnesia : BOOLEAN, misled : BOOLEAN, strayed : BOOLEAN, unforced : BOOLEAN,
   spent : BOOLEAN, untold : BOOLEAN]

OpencodeType ==
  /\ oc \in RoomRecords /\ routes \subseteq OcSessions
  /\ ocTurns \in [OcTurns -> TurnRecords]
  /\ opened \in [OcSessions -> SessionRecords]
  /\ asks \in [Asks -> AskRecords]
  /\ events \in Seq(EventRecords) /\ posting \in PostRecords
  /\ memory \in MemoryRecords

LEMMA OpencodeConstants ==
  /\ MaxLives \in Nat /\ MaxOcTurns \in Nat /\ MaxOcSessions \in Nat
  /\ OcTurns \subseteq Nat /\ OcSessions \subseteq Nat /\ NoOc \notin OcTurns /\ NoOc \notin OcSessions
  /\ NoOc = 0
BY OpencodeAssumption DEF OcTurns, OcSessions, NoOc

LEMMA OpencodeStarts == OpencodeInit => OpencodeType
<1> SUFFICES ASSUME OpencodeInit PROVE OpencodeType
  OBVIOUS
<1>1. oc \in RoomRecords
  <2>1. oc \in [in : {FALSE}, life : {0}, session : {NoOc}, turn : {NoOc}, starting : {FALSE},
                 force : {FALSE}, named : {NoOc}, auto : BOOLEAN]
    BY DEF OpencodeInit
  <2>2. {FALSE} \subseteq BOOLEAN /\ {0} \subseteq Nat /\ {NoOc} \subseteq OcIds
    BY DEF OcIds
  <2> QED BY <2>1, <2>2 DEF RoomRecords
<1>2. ocTurns \in [OcTurns -> TurnRecords]
  BY DEF OpencodeInit, TurnRecords, OcIds, NoOcTurn, OcPcs
<1>3. opened \in [OcSessions -> SessionRecords]
  BY DEF OpencodeInit, SessionRecords
<1>4. asks \in [Asks -> AskRecords]
  BY DEF OpencodeInit, AskRecords, NoAsk, OcIds
<1>5. memory \in MemoryRecords /\ posting \in PostRecords /\ events \in Seq(EventRecords)
  BY DEF OpencodeInit, MemoryRecords, PostRecords, NoPost
<1> QED BY <1>1, <1>2, <1>3, <1>4, <1>5 DEF OpencodeInit, OpencodeType

LEMMA EndsTurnType ==
  ASSUME NEW ts \in [OcTurns -> TurnRecords], NEW t \in OcTurns \cup {NoOc}
  PROVE  EndsTurn(ts, t) \in [OcTurns -> TurnRecords]
BY DEF EndsTurn, TurnRecords

LEMMA OverType ==
  ASSUME OpencodeType, NEW t \in OcTurns
  PROVE  Over(t) \in [OcTurns -> TurnRecords]
<1>1. ocTurns \in [OcTurns -> TurnRecords]
  BY DEF OpencodeType
<1>2. [NoOcTurn EXCEPT !.pc = "done", !.life = ocTurns[t].life] \in TurnRecords
  BY <1>1 DEF NoOcTurn, TurnRecords, OcPcs, OcIds
<1> QED BY <1>1, <1>2 DEF Over

LEMMA UndecidedType ==
  ASSUME NEW as \in [Asks -> AskRecords]
  PROVE  Undecided(as) \in [Asks -> AskRecords]
BY Zenon DEF Undecided, AskRecords

LEMMA AbandonsType ==
  ASSUME OpencodeType, NEW s \in OcIds, Abandons(s)
  PROVE  opened' \in [OcSessions -> SessionRecords] /\ routes' \subseteq OcSessions
BY DEF Abandons, OpencodeType, SessionRecords, OcIds

LEMMA ForcesFreshType ==
  ASSUME NEW o \in RoomRecords
  PROVE  ForcesFresh(o) \in RoomRecords
BY Zenon DEF ForcesFresh, RoomRecords

\* The changes of several fields at once.
LEMMA AskChanges ==
  ASSUME NEW r \in AskRecords
  PROVE  /\ \A v \in {"none", "waiting", "unheard", "settled"}, s \in OcIds :
              [r EXCEPT !.on = v, !.session = s] \in AskRecords
         /\ \A e \in {"none", "open", "claimed"}, b \in BOOLEAN : [r EXCEPT !.entry = e, !.timer = b] \in AskRecords
         /\ \A e \in {"none", "open", "claimed"}, b \in BOOLEAN, c \in BOOLEAN, y \in OcTurns \cup {NoOc} :
              /\ [r EXCEPT !.entry = e, !.replying = b, !.by = y] \in AskRecords
              /\ [r EXCEPT !.entry = e, !.timer = c, !.replying = b, !.by = y] \in AskRecords
              /\ [r EXCEPT !.replying = b, !.by = y, !.entry = e] \in AskRecords
<1> USE DEF AskRecords
<1>1. \A v \in {"none", "waiting", "unheard", "settled"}, s \in OcIds :
        [r EXCEPT !.on = v, !.session = s] \in AskRecords
  OBVIOUS
<1>2. \A e \in {"none", "open", "claimed"}, b \in BOOLEAN : [r EXCEPT !.entry = e, !.timer = b] \in AskRecords
  OBVIOUS
<1>3. ASSUME NEW e \in {"none", "open", "claimed"}, NEW b \in BOOLEAN, NEW c \in BOOLEAN, NEW y \in OcTurns \cup {NoOc}
      PROVE  /\ [r EXCEPT !.entry = e, !.replying = b, !.by = y] \in AskRecords
             /\ [r EXCEPT !.entry = e, !.timer = c, !.replying = b, !.by = y] \in AskRecords
             /\ [r EXCEPT !.replying = b, !.by = y, !.entry = e] \in AskRecords
  OBVIOUS
<1> HIDE DEF AskRecords
<1> QED BY Zenon, <1>1, <1>2, <1>3

LEMMA TurnChanges ==
  ASSUME NEW r \in TurnRecords, NEW p \in OcPcs, NEW s \in OcIds, NEW b \in BOOLEAN, NEW c \in BOOLEAN
  PROVE  [r EXCEPT !.pc = p, !.session = s, !.lost = b, !.replays = c] \in TurnRecords
BY DEF TurnRecords

LEMMA NewTurnType ==
  ASSUME NEW l \in Nat, NEW h \in OcIds, NEW n \in OcIds, NEW f \in BOOLEAN, NEW o \in BOOLEAN
  PROVE  [NoOcTurn EXCEPT !.pc = "setup", !.life = l, !.held = h, !.fresh = f, !.named = n, !.owes = o] \in TurnRecords
BY DEF NoOcTurn, TurnRecords, OcPcs, OcIds

LEMMA SessionChanges ==
  ASSUME NEW r \in SessionRecords, NEW p \in Seq(OcTurns), NEW b \in BOOLEAN
  PROVE  [r EXCEPT !.prompts = p, !.knows = b] \in SessionRecords
BY DEF SessionRecords

LEMMA InteractionType ==
  ASSUME OpencodeType, NEW t \in OcTurns \cup {NoOc}, InteractionFails(t)
  PROVE  /\ oc' \in RoomRecords /\ routes' \subseteq OcSessions
         /\ ocTurns' \in [OcTurns -> TurnRecords] /\ opened' \in [OcSessions -> SessionRecords]
<1>1. oc.session \in OcIds
  BY DEF OpencodeType, RoomRecords
<1> QED BY <1>1, AbandonsType, ForcesFreshType, EndsTurnType DEF InteractionFails, OpencodeType

LEMMA OpencodeTypeKept == OpencodeType /\ [OpencodeNext]_ocVars => OpencodeType'
<1> SUFFICES ASSUME OpencodeType, [OpencodeNext]_ocVars PROVE OpencodeType'
  OBVIOUS
<1> USE OpencodeConstants
<1>a. oc \in RoomRecords /\ routes \subseteq OcSessions /\ ocTurns \in [OcTurns -> TurnRecords]
  BY DEF OpencodeType
<1>b. opened \in [OcSessions -> SessionRecords] /\ asks \in [Asks -> AskRecords]
  BY DEF OpencodeType
<1>c. events \in Seq(EventRecords) /\ posting \in PostRecords /\ memory \in MemoryRecords
  BY DEF OpencodeType
<1>d. oc.turn \in OcTurns \cup {NoOc} /\ oc.session \in OcIds
  BY <1>a DEF RoomRecords
<1>e. events # <<>> => Tail(events) \in Seq(EventRecords) /\ Head(events) \in EventRecords
  BY <1>c
<1>1. CASE UNCHANGED ocVars
  BY <1>1 DEF ocVars, OpencodeType
<1>2. ASSUME NEW t \in OcTurns, MessageComes(t) PROVE OpencodeType'
  <2>1. oc' \in RoomRecords
    <3>1. oc.life + 1 \in Nat /\ NoOc \in OcIds
      BY <1>a DEF RoomRecords, OcIds
    <3>2. CASE oc.in
      BY <1>2, <1>a, <3>2 DEF MessageComes, RoomRecords
    <3>3. CASE ~oc.in
      <4>1. oc' = [oc EXCEPT !.in = TRUE, !.life = oc.life + 1, !.session = NoOc, !.starting = TRUE, !.force = FALSE]
        BY <1>2, <3>3 DEF MessageComes
      <4> QED BY <1>a, <3>1, <4>1 DEF RoomRecords
    <3> QED BY <3>2, <3>3
  <2>2. memory' \in MemoryRecords
    BY <1>2, <1>c DEF MessageComes, MemoryRecords
  <2>3. ocTurns' \in [OcTurns -> TurnRecords]
    <3> DEFINE n == IF oc.in THEN NoOc ELSE oc.named
               new == [NoOcTurn EXCEPT !.pc = "setup", !.life = oc'.life, !.held = oc'.session, !.fresh = oc'.force,
                                       !.named = n, !.owes = memory.talked]
    <3>1. /\ oc'.life \in Nat /\ oc'.session \in OcIds /\ oc'.force \in BOOLEAN /\ memory.talked \in BOOLEAN
          /\ n \in OcIds
      BY <1>a, <1>c, <2>1 DEF RoomRecords, MemoryRecords, OcIds
    <3>2. new \in TurnRecords
      <4> HIDE DEF n
      <4> QED BY ZenonT(60), <3>1, NewTurnType
    <3>3. ocTurns' = [ocTurns EXCEPT ![t] = new]
      BY <1>2 DEF MessageComes
    <3> HIDE DEF new
    <3> QED BY <1>a, <3>2, <3>3
  <2> QED BY <1>2, <2>1, <2>2, <2>3 DEF MessageComes, OpencodeType
<1>3. ASSUME NEW t \in OcTurns, NEW s \in OcSessions, NEW l \in BOOLEAN, NEW r \in BOOLEAN, HasSession(t, s, l, r)
      PROVE  routes' \subseteq OcSessions /\ oc' \in RoomRecords /\ ocTurns' \in [OcTurns -> TurnRecords]
  <2>1. oc' \in RoomRecords
    BY <1>3, <1>a DEF HasSession, RoomRecords, OcIds
  <2>2. ocTurns' \in [OcTurns -> TurnRecords]
    <3>1. ocTurns' = [ocTurns EXCEPT ![t].pc = "settled", ![t].session = s, ![t].lost = l, ![t].replays = r]
      BY SMTT(40), <1>3 DEF HasSession
    <3>2. [ocTurns[t] EXCEPT !.pc = "settled", !.session = s, !.lost = l, !.replays = r] \in TurnRecords
      BY Zenon, <1>a, TurnChanges DEF OcPcs, OcIds
    <3> QED BY <1>a, <3>1, <3>2
  <2> QED BY <1>3, <1>a, <2>1, <2>2 DEF HasSession
<1>4. ASSUME NEW t \in OcTurns, SessionRestored(t) PROVE OpencodeType'
  <2>1. Restored(t) \in OcSessions
    BY <1>4, <1>a DEF SessionRestored, Restored, Prior, TurnRecords, OcIds
  <2>2. memory' \in MemoryRecords
    BY <1>4, <1>c DEF SessionRestored, MemoryRecords
  <2> QED BY <1>4, <2>1, <2>2, <1>3 DEF SessionRestored, OpencodeType
<1>5. ASSUME NEW t \in OcTurns, SessionCreated(t) PROVE OpencodeType'
  <2>1. PICK s \in OcSessions : HasSession(t, s, Restored(t) # NoOc, Replays(t)) /\ opened' = [opened EXCEPT ![s].st = "made"]
    BY <1>5 DEF SessionCreated
  <2>2. opened' \in [OcSessions -> SessionRecords]
    BY <1>b, <2>1 DEF SessionRecords
  <2>3. (Restored(t) # NoOc) \in BOOLEAN /\ Replays(t) \in BOOLEAN
    BY DEF Replays
  <2>4. UNCHANGED <<asks, events, posting, memory>>
    BY <1>5 DEF SessionCreated
  <2>5. routes' \subseteq OcSessions /\ oc' \in RoomRecords /\ ocTurns' \in [OcTurns -> TurnRecords]
    <3> DEFINE l == Restored(t) # NoOc
               r == Replays(t)
    <3>1. HasSession(t, s, l, r) /\ l \in BOOLEAN /\ r \in BOOLEAN
      BY <2>1, <2>3
    <3> HIDE DEF l, r
    <3> QED BY <3>1, <1>3
  <2> QED BY <2>2, <2>4, <2>5 DEF OpencodeType
<1>6. ASSUME NEW t \in OcTurns PROVE Forfeits(t) \in MemoryRecords
  BY <1>c DEF Forfeits, MemoryRecords
<1>7. ASSUME NEW t \in OcTurns, SetupFails(t) PROVE OpencodeType'
  <2>1. oc' \in RoomRecords
    BY <1>7, <1>a DEF SetupFails, RoomRecords
  <2> QED BY <1>7, <1>6, <2>1, OverType DEF SetupFails, OpencodeType
<1>8. ASSUME NEW t \in OcTurns, TurnStarts(t) PROVE OpencodeType'
  <2>1. oc' \in RoomRecords
    BY <1>8, <1>a DEF TurnStarts, RoomRecords, TurnRecords
  <2>2. ocTurns' \in [OcTurns -> TurnRecords]
    BY <1>8, <1>a DEF TurnStarts, TurnRecords, OcPcs
  <2> QED BY <1>8, <2>1, <2>2 DEF TurnStarts, OpencodeType
<1>9. ASSUME NEW t \in OcTurns, PromptTaken(t) PROVE OpencodeType'
  <2>1. ocTurns' \in [OcTurns -> TurnRecords]
    <3>1. ocTurns' = [ocTurns EXCEPT ![t].pc = "taken"]
      BY <1>9 DEF PromptTaken
    <3> QED BY <1>a, <3>1 DEF TurnRecords, OcPcs
  <2>2. memory' \in MemoryRecords
    BY <1>9, <1>c DEF PromptTaken, MemoryRecords
  <2>3. opened' \in [OcSessions -> SessionRecords]
    <3> DEFINE s == ocTurns[t].session
               k == Knowing(t) /\ (Mine(t) \/ opened[s].knows)
    <3>1. opened' = [opened EXCEPT ![s].prompts = Append(opened[s].prompts, t), ![s].knows = k]
      BY <1>9 DEF PromptTaken
    <3>2. k \in BOOLEAN
      OBVIOUS
    <3> HIDE DEF s, k
    <3>3. CASE s \in OcSessions
      <4>1. opened[s] \in SessionRecords /\ opened[s].prompts \in Seq(OcTurns)
        BY <1>b, <3>3 DEF SessionRecords
      <4>2. Append(opened[s].prompts, t) \in Seq(OcTurns)
        BY <4>1
      <4>3. [opened[s] EXCEPT !.prompts = Append(opened[s].prompts, t), !.knows = k] \in SessionRecords
        BY Zenon, <4>1, <4>2, <3>2, SessionChanges
      <4> QED BY <1>b, <3>1, <4>3
    <3>4. CASE s \notin OcSessions
      BY <1>b, <3>1, <3>4
    <3> QED BY <3>3, <3>4
  <2> QED BY <1>9, <2>1, <2>2, <2>3 DEF PromptTaken, OpencodeType
<1>10. ASSUME NEW t \in OcTurns, PromptAnswered(t) PROVE OpencodeType'
  <2>1. ocTurns' \in [OcTurns -> TurnRecords]
    BY <1>10, <1>a DEF PromptAnswered, TurnRecords, OcPcs
  <2>2. memory' \in MemoryRecords
    BY <1>10, <1>c DEF PromptAnswered, MemoryRecords
  <2>3. oc' \in RoomRecords
    BY <1>10, <1>a DEF PromptAnswered, RoomRecords
  <2> QED BY <1>10, <2>1, <2>2, <2>3 DEF PromptAnswered, OpencodeType
<1>11. ASSUME NEW t \in OcTurns, TurnCleared(t) PROVE oc' \in RoomRecords /\ asks' \in [Asks -> AskRecords]
  <2>1. oc' \in RoomRecords
    BY <1>11, <1>a DEF TurnCleared, RoomRecords
  <2> QED BY <1>11, <1>b, <2>1, UndecidedType DEF TurnCleared
<1>12. ASSUME NEW t \in OcTurns, PromptFails(t) \/ TurnCloses(t) PROVE OpencodeType'
  BY <1>12, <1>11, <1>6, OverType DEF PromptFails, TurnCloses, OpencodeType
<1>13. ASSUME NEW t \in OcTurns, WatchdogFires(t) PROVE OpencodeType'
  <2>1. ocTurns[t].session \in OcIds /\ Abandons(ocTurns[t].session)
    BY <1>13, <1>a DEF WatchdogFires, TurnRecords
  <2>2. ocTurns' \in [OcTurns -> TurnRecords]
    BY <1>13, <1>a DEF WatchdogFires, TurnRecords, OcPcs
  <2>3. oc' \in RoomRecords
    BY <1>13, <1>a, ForcesFreshType DEF WatchdogFires
  <2> QED BY <1>13, <2>1, <2>2, <2>3, AbandonsType DEF WatchdogFires, OpencodeType
<1>14. ASSUME NEW a \in Asks, AskOpens(a) PROVE OpencodeType'
  <2>1. PICK s \in OcSessions :
          /\ asks' = [asks EXCEPT ![a].on = "waiting", ![a].session = s]
          /\ events' = Append(events, [is |-> "ask", session |-> s, of |-> a])
    BY <1>14 DEF AskOpens
  <2>2. asks' \in [Asks -> AskRecords]
    <3>1. [asks[a] EXCEPT !.on = "waiting", !.session = s] \in AskRecords
      BY Zenon, <1>b, AskChanges DEF OcIds
    <3> QED BY <1>b, <2>1, <3>1
  <2>3. [is |-> "ask", session |-> s, of |-> a] \in EventRecords
    BY DEF EventRecords, OcIds
  <2> QED BY <1>14, <1>c, <2>1, <2>2, <2>3 DEF AskOpens, OpencodeType
<1>15. ASSUME NEW a \in Asks, AskSettles(a) PROVE OpencodeType'
  <2>1. asks' \in [Asks -> AskRecords]
    <3>1. [asks[a] EXCEPT !.on = "settled", !.session = NoOc] \in AskRecords
      BY Zenon, <1>b, AskChanges DEF OcIds
    <3>2. asks' = [asks EXCEPT ![a].on = "settled", ![a].session = NoOc]
      BY <1>15 DEF AskSettles
    <3> QED BY SMTT(40), <1>b, <3>1, <3>2
  <2>2. [is |-> "settled", session |-> asks[a].session, of |-> a] \in EventRecords
    BY <1>b DEF EventRecords, AskRecords
  <2> QED BY <1>15, <1>c, <2>1, <2>2 DEF AskSettles, OpencodeType
<1>16. ASSUME NEW a \in Asks, RoomReplies(a) \/ AskExpires(a) PROVE OpencodeType'
  <2>1. asks' \in [Asks -> AskRecords]
    <3>1. [asks[a] EXCEPT !.entry = "claimed", !.timer = FALSE, !.replying = TRUE, !.by = oc.turn] \in AskRecords
      <4>1. /\ asks[a] \in AskRecords /\ "claimed" \in {"none", "open", "claimed"} /\ TRUE \in BOOLEAN
            /\ FALSE \in BOOLEAN /\ oc.turn \in OcTurns \cup {NoOc}
        BY <1>b, <1>d
      <4> QED BY <4>1, AskChanges, Zenon
    <3>2. asks' = [asks EXCEPT ![a].entry = "claimed", ![a].timer = FALSE, ![a].replying = TRUE, ![a].by = oc.turn]
      BY <1>16 DEF RoomReplies, AskExpires, Claims
    <3> QED BY <1>b, <3>1, <3>2
  <2> QED BY <1>16, <2>1 DEF RoomReplies, AskExpires, Claims, OpencodeType
<1>17. ASSUME LoopGoesOn PROVE posting' \in PostRecords
  BY <1>17, <1>c DEF LoopGoesOn, PostRecords, NoPost
<1>18. ASSUME NEW a \in Asks, NEW as \in [Asks -> AskRecords] PROVE Unanswered(a, as) \in [Asks -> AskRecords]
  <2> DEFINE e == IF as[a].entry = "claimed" THEN "none" ELSE as[a].entry
  <2>1. as[a] \in AskRecords /\ e \in {"none", "open", "claimed"} /\ NoOc \in OcTurns \cup {NoOc}
    BY DEF AskRecords
  <2>2. Unanswered(a, as) = [as EXCEPT ![a].replying = FALSE, ![a].by = NoOc, ![a].entry = e]
    BY DEF Unanswered
  <2> HIDE DEF e
  <2>3. [as[a] EXCEPT !.replying = FALSE, !.by = NoOc, !.entry = e] \in AskRecords
    <3>1. FALSE \in BOOLEAN
      OBVIOUS
    <3> QED BY <2>1, <3>1, AskChanges, Zenon
  <2> QED BY <2>2, <2>3
<1>19. ASSUME NEW a \in Asks, ReplyLands(a) PROVE OpencodeType'
  <2>1. asks' \in [Asks -> AskRecords]
    BY <1>19, <1>b DEF ReplyLands, Answered, AskRecords, OcIds
  <2> QED BY <1>19, <1>17, <2>1 DEF ReplyLands, OpencodeType
<1>20. ASSUME NEW a \in Asks, ReplyFails(a) PROVE OpencodeType'
  <2>1. posting' \in PostRecords /\ events' = events /\ memory' = memory
    BY <1>20, <1>17 DEF ReplyFails
  <2>2. CASE InteractionFails(oc.turn) /\ asks' = Unanswered(a, Undecided(asks))
    <3>1. asks' \in [Asks -> AskRecords]
      BY <1>b, <1>18, <2>2, UndecidedType
    <3> QED BY <1>c, <1>d, <2>1, <2>2, <3>1, InteractionType DEF OpencodeType
  <2>3. CASE asks' = Unanswered(a, asks) /\ UNCHANGED <<oc, routes, ocTurns, opened>>
    <3>1. asks' \in [Asks -> AskRecords]
      BY <1>b, <1>18, <2>3
    <3> QED BY <1>a, <1>b, <1>c, <2>1, <2>3, <3>1 DEF OpencodeType
  <2> QED BY <1>20, <2>2, <2>3 DEF ReplyFails
<1>21. ASSUME NEW s \in OcSessions, PromptEnds(s) PROVE OpencodeType'
  <2>1. opened[s].prompts \in Seq(OcTurns) /\ opened[s].prompts # <<>>
    BY <1>21, <1>b DEF PromptEnds, Running, SessionRecords
  <2>2. Tail(opened[s].prompts) \in Seq(OcTurns) /\ Head(opened[s].prompts) \in OcTurns
    BY <2>1
  <2>3. opened' \in [OcSessions -> SessionRecords]
    BY <1>21, <1>b, <2>2 DEF PromptEnds, SessionRecords
  <2>4. [is |-> "end", session |-> s, of |-> Head(opened[s].prompts)] \in EventRecords
    BY <2>2 DEF EventRecords, OcIds
  <2> QED BY <1>21, <1>c, <2>3, <2>4 DEF PromptEnds, OpencodeType
<1>22. ASSUME NEW s \in OcSessions, SessionGoes(s) PROVE OpencodeType'
  <2>1. opened' \in [OcSessions -> SessionRecords]
    BY <1>22, <1>b DEF SessionGoes, SessionRecords
  <2> QED BY <1>22, <2>1 DEF SessionGoes, OpencodeType
<1>23. CASE EventsLost
  <2>1. \A a \in Asks : [asks[a] EXCEPT !.on = "unheard"] \in AskRecords
    BY <1>b DEF AskRecords
  <2>2. asks' \in [Asks -> AskRecords]
    BY SMTT(40), <1>23, <1>b, <2>1 DEF EventsLost
  <2> QED BY <1>23, <2>2 DEF EventsLost, OpencodeType
<1>24. CASE AskHeard
  <2> DEFINE a == Head(events).of
  <2>1. events' = Tail(events) /\ Head(events) \in EventRecords /\ Head(events).is = "ask" /\ events # <<>>
    BY <1>24, <1>e DEF AskHeard, Heard
  <2>2. a \in Asks /\ events' \in Seq(EventRecords)
    BY SMTT(40), <1>e, <2>1 DEF EventRecords
  <2>3. posting' \in PostRecords
    BY SMTT(40), <1>24, <1>c, <1>d, <2>2 DEF AskHeard, PostRecords
  <2>4. asks' \in [Asks -> AskRecords]
    <3> HIDE DEF a
    <3>1. [asks EXCEPT ![a].on = IF @ = "waiting" THEN "unheard" ELSE @] \in [Asks -> AskRecords]
      <4>1. [asks[a] EXCEPT !.on = IF @ = "waiting" THEN "unheard" ELSE @] \in AskRecords
        BY <1>b, <2>2 DEF AskRecords
      <4> QED BY <1>b, <2>2, <4>1
    <3>2. [asks EXCEPT ![a].entry = "claimed", ![a].replying = TRUE, ![a].by = oc.turn] \in [Asks -> AskRecords]
      <4>1. [asks[a] EXCEPT !.entry = "claimed", !.replying = TRUE, !.by = oc.turn] \in AskRecords
        <5>1. /\ asks[a] \in AskRecords /\ "claimed" \in {"none", "open", "claimed"} /\ TRUE \in BOOLEAN
              /\ oc.turn \in OcTurns \cup {NoOc}
          BY <1>b, <1>d, <2>2
        <5> QED BY <5>1, AskChanges, Zenon
      <4> QED BY <1>b, <2>2, <4>1
    <3>3. [asks EXCEPT ![a].entry = "open", ![a].timer = TRUE] \in [Asks -> AskRecords]
      <4>1. [asks[a] EXCEPT !.entry = "open", !.timer = TRUE] \in AskRecords
        BY Zenon, <1>b, <2>2, AskChanges
      <4> QED BY SMTT(40), <1>b, <2>2, <4>1
    <3> QED BY <1>24, <3>1, <3>2, <3>3 DEF AskHeard, a
  <2> QED BY SMTT(40), <1>24, <2>2, <2>3, <2>4 DEF AskHeard, OpencodeType
<1>25. CASE SettledHeard
  <2>1. events' \in Seq(EventRecords)
    BY <1>25, <1>e DEF SettledHeard, Heard
  <2>2. \A a \in Asks : [asks[a] EXCEPT !.entry = "none", !.timer = FALSE] \in AskRecords
    BY ZenonT(60), <1>b DEF AskRecords
  <2>3. asks' \in [Asks -> AskRecords]
    BY Zenon, <1>25, <1>b, <2>2 DEF SettledHeard
  <2> QED BY <1>25, <2>1, <2>3 DEF SettledHeard, OpencodeType
<1>26. CASE EndHeard
  <2>1. events' \in Seq(EventRecords)
    BY <1>26, <1>e DEF EndHeard, Heard
  <2>2. ocTurns' \in [OcTurns -> TurnRecords]
    BY <1>26, <1>a, <1>d, EndsTurnType DEF EndHeard
  <2>3. memory' \in MemoryRecords
    BY <1>26, <1>c DEF EndHeard, MemoryRecords
  <2> QED BY <1>26, <2>1, <2>2, <2>3 DEF EndHeard, OpencodeType
<1>27. CASE AskPosted
  BY <1>27, <1>c DEF AskPosted, PostRecords, NoPost, OpencodeType
<1>28. CASE AskPostFails
  <2>1. posting' \in PostRecords
    BY <1>28 DEF AskPostFails, PostRecords, NoPost
  <2> QED BY <1>28, <1>b, <1>d, <2>1, UndecidedType, InteractionType DEF AskPostFails, OpencodeType
<1>29. CASE RoomLeft
  <2>1. oc' \in RoomRecords
    BY <1>29, <1>a DEF RoomLeft, RoomRecords, OcIds
  <2> QED BY <1>29, <1>a, <1>b, <1>d, <2>1, UndecidedType, EndsTurnType DEF RoomLeft, OpencodeType
<1> QED
  BY <1>1, <1>2, <1>4, <1>5, <1>7, <1>8, <1>9, <1>10, <1>12, <1>13, <1>14, <1>15, <1>16, <1>19, <1>20, <1>21, <1>22,
     <1>23, <1>24, <1>25, <1>26, <1>27, <1>28, <1>29
  DEF OpencodeNext, TurnMoves, AskMoves, LoopMoves

----------------------------------------------------------------------------
(* The turns of the RoomState the room has now.                            *)

OcStarting == {"setup", "settled"}
OcLive == {"prompting", "taken", "running", "reporting"}

TurnIsLive == oc.turn # NoOc => Mine(oc.turn) /\ ocTurns[oc.turn].pc \in OcLive
LiveIsTurn == \A t \in OcTurns : Mine(t) /\ ocTurns[t].pc \in OcLive => oc.turn = t
StartsAlone ==
  \A t \in OcTurns : Mine(t) /\ ocTurns[t].pc \in OcStarting =>
    /\ oc.starting /\ oc.turn = NoOc
    /\ \A u \in OcTurns : Mine(u) /\ ocTurns[u].pc \in OcStarting => u = t
SessionIsHeld ==
  \A t \in OcTurns : Mine(t) /\ ocTurns[t].pc \in OcLive \cup {"settled"} => oc.session = ocTurns[t].session
NamedIsFirst ==
  \A t, u \in OcTurns :
    Mine(t) /\ ocTurns[t].pc = "setup" /\ ocTurns[t].named # NoOc /\ ocTurns[u].life = ocTurns[t].life => u = t
RoomTurns == TurnIsLive /\ LiveIsTurn /\ StartsAlone /\ SessionIsHeld /\ NamedIsFirst
TurnsAreRecorded ==
  \A t \in OcTurns :
    /\ ocTurns[t].life <= oc.life
    /\ ocTurns[t].pc \in OcLive \cup {"settled"} =>
         ocTurns[t].session \in OcSessions /\ opened[ocTurns[t].session].st # "none"

\* What an end does to a turn, and what a turn that is over is.
LEMMA EndsTurnFields ==
  ASSUME OpencodeType, NEW t \in OcTurns \cup {NoOc}, ocTurns' = EndsTurn(ocTurns, t)
  PROVE  \A u \in OcTurns :
           /\ ocTurns'[u].pc = ocTurns[u].pc /\ ocTurns'[u].life = ocTurns[u].life
           /\ ocTurns'[u].session = ocTurns[u].session /\ ocTurns'[u].held = ocTurns[u].held
           /\ ocTurns'[u].named = ocTurns[u].named /\ ocTurns'[u].fresh = ocTurns[u].fresh
           /\ ocTurns'[u].ended <=> ocTurns[u].ended \/ u = t
<1>1. ocTurns \in [OcTurns -> TurnRecords]
  BY DEF OpencodeType
<1>2. CASE t = NoOc
  BY <1>1, <1>2, OpencodeConstants DEF EndsTurn, TurnRecords
<1>3. CASE t # NoOc
  BY <1>1, <1>3 DEF EndsTurn, TurnRecords
<1> QED BY <1>2, <1>3

LEMMA OverFields ==
  ASSUME OpencodeType, NEW t \in OcTurns, ocTurns' = Over(t)
  PROVE  /\ \A u \in OcTurns \ {t} : ocTurns'[u] = ocTurns[u]
         /\ ocTurns'[t].pc = "done" /\ ocTurns'[t].life = ocTurns[t].life /\ ocTurns'[t].session = NoOc
         /\ ~ocTurns'[t].ended
BY DEF OpencodeType, Over, NoOcTurn

\* What one change of pc does.
LEMMA PcFields ==
  ASSUME OpencodeType, NEW t \in OcTurns, NEW p, ocTurns' = [ocTurns EXCEPT ![t].pc = p]
  PROVE  /\ \A u \in OcTurns \ {t} : ocTurns'[u] = ocTurns[u]
         /\ ocTurns'[t].pc = p /\ ocTurns'[t].life = ocTurns[t].life /\ ocTurns'[t].session = ocTurns[t].session
         /\ ocTurns'[t].held = ocTurns[t].held /\ ocTurns'[t].named = ocTurns[t].named
         /\ ocTurns'[t].fresh = ocTurns[t].fresh /\ ocTurns'[t].ended = ocTurns[t].ended
BY DEF OpencodeType, TurnRecords

\* An aborted interaction, as RoomTurns sees it.
LEMMA InteractionFields ==
  ASSUME OpencodeType, NEW t \in OcTurns \cup {NoOc}, InteractionFails(t)
  PROVE  /\ oc'.in = oc.in /\ oc'.life = oc.life /\ oc'.session = oc.session /\ oc'.turn = oc.turn
         /\ oc'.starting = oc.starting /\ oc'.named = oc.named /\ oc'.auto = oc.auto
         /\ oc'.force <=> oc.force \/ oc.session # NoOc
         /\ routes' = routes \ {oc.session}
         /\ \A s \in OcSessions :
              /\ opened'[s].st = opened[s].st /\ opened'[s].prompts = opened[s].prompts
              /\ opened'[s].knows = opened[s].knows
              /\ opened'[s].aborted <=> opened[s].aborted \/ s = oc.session
<1>1. oc' = ForcesFresh(oc) /\ Abandons(oc.session)
  BY DEF InteractionFails
<1>2. oc \in RoomRecords /\ opened \in [OcSessions -> SessionRecords]
  BY DEF OpencodeType
<1>3. oc.session \in OcSessions \cup {NoOc}
  BY <1>2 DEF RoomRecords, OcIds
<1>4. CASE oc.session = NoOc
  BY <1>1, <1>2, <1>4, OpencodeConstants DEF Abandons, ForcesFresh, RoomRecords
<1>5. CASE oc.session # NoOc
  <2>1. oc' = [oc EXCEPT !.force = TRUE] /\ opened' = [opened EXCEPT ![oc.session].aborted = TRUE]
        /\ routes' = routes \ {oc.session}
    BY <1>1, <1>5 DEF Abandons, ForcesFresh
  <2>2. \A s \in OcSessions :
              /\ opened'[s].st = opened[s].st /\ opened'[s].prompts = opened[s].prompts
              /\ opened'[s].knows = opened[s].knows
              /\ opened'[s].aborted <=> opened[s].aborted \/ s = oc.session
    BY <1>2, <2>1 DEF SessionRecords
  <2> QED BY <1>2, <1>5, <2>1, <2>2 DEF RoomRecords
<1> QED BY <1>4, <1>5

\* The steps that leave the room's turns alone.
TurnsRestStep ==
  /\ UNCHANGED <<oc, ocTurns>>
  /\ \A s \in OcSessions : opened[s].st # "none" => opened'[s].st # "none"

LEMMA TurnsRestSteps ==
  ASSUME OpencodeType,
         \/ UNCHANGED ocVars
         \/ \E a \in Asks : AskOpens(a) \/ AskSettles(a) \/ RoomReplies(a) \/ AskExpires(a) \/ ReplyLands(a)
         \/ \E s \in OcSessions : PromptEnds(s) \/ SessionGoes(s)
         \/ EventsLost \/ AskHeard \/ SettledHeard \/ AskPosted
  PROVE  TurnsRestStep
<1>1. CASE \E s \in OcSessions : PromptEnds(s) \/ SessionGoes(s)
  BY ZenonT(60), <1>1 DEF PromptEnds, SessionGoes, TurnsRestStep, OpencodeType, SessionRecords
<1>2. CASE \/ UNCHANGED ocVars
           \/ \E a \in Asks : AskOpens(a) \/ AskSettles(a) \/ RoomReplies(a) \/ AskExpires(a) \/ ReplyLands(a)
           \/ EventsLost \/ AskHeard \/ SettledHeard \/ AskPosted
  BY Zenon, <1>2 DEF ocVars, AskOpens, AskSettles, RoomReplies, AskExpires, Claims, ReplyLands, EventsLost, AskHeard,
              SettledHeard, AskPosted, TurnsRestStep
<1> QED BY <1>1, <1>2

LEMMA RoomTurnsStart == OpencodeInit => RoomTurns /\ TurnsAreRecorded
<1> SUFFICES ASSUME OpencodeInit PROVE RoomTurns /\ TurnsAreRecorded
  OBVIOUS
<1>1. ~oc.in /\ oc.turn = NoOc /\ oc.life = 0
  BY DEF OpencodeInit
<1>2. \A t \in OcTurns : ocTurns[t].pc = "none" /\ ocTurns[t].life = 0
  BY DEF OpencodeInit, NoOcTurn
<1> QED BY <1>1, <1>2 DEF RoomTurns, TurnIsLive, LiveIsTurn, StartsAlone, SessionIsHeld, NamedIsFirst, TurnsAreRecorded, Mine, OcLive

LEMMA RoomTurnsKept ==
  OpencodeType /\ RoomTurns /\ TurnsAreRecorded /\ [OpencodeNext]_ocVars => RoomTurns' /\ TurnsAreRecorded'
<1> SUFFICES ASSUME OpencodeType, RoomTurns, TurnsAreRecorded, [OpencodeNext]_ocVars
             PROVE  RoomTurns' /\ TurnsAreRecorded'
  OBVIOUS
<1> USE OpencodeConstants DEF OcStarting, OcLive, Mine
<1>a. oc \in RoomRecords /\ ocTurns \in [OcTurns -> TurnRecords] /\ opened \in [OcSessions -> SessionRecords]
  BY DEF OpencodeType
<1>b. /\ oc.life \in Nat /\ oc.turn \in OcTurns \cup {NoOc} /\ oc.session \in OcIds
      /\ \A t \in OcTurns : ocTurns[t].life \in Nat /\ ocTurns[t].session \in OcIds
  BY <1>a DEF RoomRecords, TurnRecords
<1>r. TurnIsLive /\ LiveIsTurn /\ StartsAlone /\ SessionIsHeld /\ NamedIsFirst
  BY DEF RoomTurns
<1>1. CASE TurnsRestStep
  BY <1>1 DEF TurnsRestStep, RoomTurns, TurnIsLive, LiveIsTurn, StartsAlone, SessionIsHeld, NamedIsFirst,
    TurnsAreRecorded
<1>2. ASSUME NEW t \in OcTurns, MessageComes(t) PROVE RoomTurns' /\ TurnsAreRecorded'
  <2>1. /\ ocTurns[t].pc = "none" /\ opened' = opened
        /\ oc.in => oc.turn = NoOc /\ ~oc.starting
    BY <1>2 DEF MessageComes, FirstUnsent
  <2>2. /\ \A u \in OcTurns \ {t} : ocTurns'[u] = ocTurns[u]
        /\ ocTurns'[t].pc = "setup" /\ ocTurns'[t].life = oc'.life
        /\ ocTurns'[t].named = IF oc.in THEN NoOc ELSE oc.named
    BY <1>2, <1>a DEF MessageComes, NoOcTurn
  <2>3. CASE oc.in
    <3>1. oc' = [oc EXCEPT !.starting = TRUE]
      BY <1>2, <2>3 DEF MessageComes
    <3>2. /\ oc'.in /\ oc'.life = oc.life /\ oc'.session = oc.session /\ oc'.turn = NoOc /\ oc'.starting
      BY <3>1, <1>a, <2>1, <2>3 DEF RoomRecords
    <3>x. RoomTurns'
      <4>1. TurnIsLive'
        BY <1>b, <2>1, <2>2, <2>3, <3>2 DEF RoomTurns, TurnIsLive
      <4>2. LiveIsTurn'
        BY <1>r, <1>b, <2>1, <2>2, <2>3, <3>2 DEF TurnIsLive, LiveIsTurn, StartsAlone
      <4>3. StartsAlone'
        BY <1>r, <1>b, <2>1, <2>2, <2>3, <3>2 DEF TurnIsLive, LiveIsTurn, StartsAlone
      <4>4. SessionIsHeld'
        BY <1>r, <1>b, <2>1, <2>2, <2>3, <3>2 DEF LiveIsTurn, StartsAlone, SessionIsHeld
      <4>5. NamedIsFirst'
        BY <1>r, <1>b, <2>1, <2>2, <2>3, <3>2 DEF StartsAlone, NamedIsFirst
      <4> QED BY <4>1, <4>2, <4>3, <4>4, <4>5 DEF RoomTurns
    <3>y. TurnsAreRecorded'
      BY <1>b, <2>1, <2>2, <2>3, <3>2 DEF TurnsAreRecorded
    <3> QED BY <3>x, <3>y
  <2>4. CASE ~oc.in
    <3>1. oc' = [oc EXCEPT !.in = TRUE, !.life = @ + 1, !.session = NoOc, !.starting = TRUE, !.force = FALSE]
      BY <1>2, <2>4 DEF MessageComes
    <3>2. oc'.in /\ oc'.life = oc.life + 1 /\ oc'.starting /\ oc'.turn = oc.turn
      BY <3>1, <1>a DEF RoomRecords
    <3>3. oc.turn = NoOc
      BY <2>4 DEF RoomTurns, TurnIsLive, LiveIsTurn, StartsAlone, SessionIsHeld, NamedIsFirst
    <3>4. \A u \in OcTurns \ {t} : ocTurns'[u].life # oc'.life /\ ocTurns'[u].life <= oc'.life
      <4> SUFFICES ASSUME NEW u \in OcTurns \ {t} PROVE ocTurns'[u].life # oc'.life /\ ocTurns'[u].life <= oc'.life
        OBVIOUS
      <4>1. ocTurns'[u].life = ocTurns[u].life /\ ocTurns[u].life \in Nat
        BY <1>b, <2>2
      <4>2. ocTurns[u].life <= oc.life
        BY DEF TurnsAreRecorded
      <4> QED BY <1>b, <3>2, <4>1, <4>2
    <3>x. RoomTurns'
      <4>1. TurnIsLive'
        BY <1>b, <2>1, <2>2, <3>2, <3>3, <3>4 DEF RoomTurns, TurnIsLive
      <4>2. LiveIsTurn'
        BY <1>r, <1>b, <2>1, <2>2, <3>2, <3>3, <3>4 DEF TurnIsLive, LiveIsTurn, StartsAlone
      <4>3. StartsAlone'
        BY <1>r, <1>b, <2>1, <2>2, <3>2, <3>3, <3>4 DEF TurnIsLive, LiveIsTurn, StartsAlone
      <4>4. SessionIsHeld'
        BY <1>r, <1>b, <2>1, <2>2, <3>2, <3>3, <3>4 DEF LiveIsTurn, StartsAlone, SessionIsHeld
      <4>5. NamedIsFirst'
        BY <1>r, <1>b, <2>1, <2>2, <3>2, <3>3, <3>4 DEF NamedIsFirst
      <4> QED BY <4>1, <4>2, <4>3, <4>4, <4>5 DEF RoomTurns
    <3>y. TurnsAreRecorded'
      <4>1. \A u \in OcTurns : ocTurns'[u].life <= oc'.life
        BY <1>b, <2>2, <3>2, <3>4
      <4>2. \A u \in OcTurns : ocTurns'[u].pc \in OcLive \cup {"settled"} =>
              ocTurns'[u].session \in OcSessions /\ opened'[ocTurns'[u].session].st # "none"
        BY <2>1, <2>2 DEF TurnsAreRecorded
      <4> QED BY <4>1, <4>2 DEF TurnsAreRecorded
    <3> QED BY <3>x, <3>y
  <2> QED BY <2>3, <2>4
<1>3. ASSUME NEW t \in OcTurns, SessionRestored(t) \/ SessionCreated(t) PROVE RoomTurns' /\ TurnsAreRecorded'
  <2>1. PICK s \in OcSessions : \E l, r \in BOOLEAN :
          HasSession(t, s, l, r) /\ opened'[s].st # "none" /\ ocTurns[t].pc = "setup"
    <3>1. CASE SessionRestored(t)
      <4>1. Restored(t) \in OcSessions
        BY <3>1, <1>a DEF SessionRestored, Restored, Prior, TurnRecords, OcIds
      <4> QED BY <3>1, <4>1 DEF SessionRestored
    <3>2. CASE SessionCreated(t)
      <4>1. PICK s \in OcSessions : HasSession(t, s, Restored(t) # NoOc, Replays(t)) /\ opened' = [opened EXCEPT ![s].st = "made"]
        BY <3>2 DEF SessionCreated
      <4>2. opened'[s].st # "none"
        BY <1>a, <4>1 DEF SessionRecords
      <4>3. (Restored(t) # NoOc) \in BOOLEAN /\ Replays(t) \in BOOLEAN /\ ocTurns[t].pc = "setup"
        BY <3>2 DEF Replays, SessionCreated
      <4> QED BY <4>1, <4>2, <4>3
    <3> QED BY <1>3, <3>1, <3>2
  <2>2. \A x \in OcSessions : opened[x].st # "none" => opened'[x].st # "none"
    BY <1>3, <1>a DEF SessionRestored, SessionCreated, SessionRecords
  <2>3. PICK l, r \in BOOLEAN : HasSession(t, s, l, r)
    BY <2>1
  <2>4. /\ \A u \in OcTurns \ {t} : ocTurns'[u] = ocTurns[u]
        /\ ocTurns'[t].pc = "settled" /\ ocTurns'[t].life = ocTurns[t].life /\ ocTurns'[t].session = s
    BY <2>3, <1>a DEF HasSession, TurnRecords
  <2>5. /\ oc'.in = oc.in /\ oc'.life = oc.life /\ oc'.turn = oc.turn /\ oc'.starting = oc.starting
        /\ oc'.session = IF Mine(t) THEN s ELSE oc.session
    BY <2>3, <1>a DEF HasSession, RoomRecords
  <2>6. oc'.in /\ oc.in /\ ocTurns[t].life = oc.life =>
          /\ oc.turn = NoOc /\ oc.starting
          /\ \A u \in OcTurns : ocTurns[u].life = oc.life /\ ocTurns[u].pc \in OcStarting => u = t
          /\ \A u \in OcTurns : ocTurns[u].life = oc.life => ocTurns[u].pc \notin OcLive
    BY <2>1 DEF RoomTurns, TurnIsLive, LiveIsTurn, StartsAlone, SessionIsHeld, NamedIsFirst
  <2>x. RoomTurns'
    <3>1. TurnIsLive'
      BY <1>b, <2>1, <2>2, <2>4, <2>5, <2>6 DEF RoomTurns, TurnIsLive
    <3>2. LiveIsTurn'
      BY <1>r, <1>b, <2>1, <2>2, <2>4, <2>5, <2>6 DEF TurnIsLive, LiveIsTurn, StartsAlone
    <3>3. StartsAlone'
      BY <1>r, <1>b, <2>1, <2>2, <2>4, <2>5, <2>6 DEF TurnIsLive, LiveIsTurn, StartsAlone
    <3>4. SessionIsHeld'
      BY <1>r, <1>b, <2>1, <2>2, <2>4, <2>5, <2>6 DEF LiveIsTurn, StartsAlone, SessionIsHeld
    <3>5. NamedIsFirst'
      BY <1>r, <1>b, <2>1, <2>2, <2>4, <2>5, <2>6 DEF NamedIsFirst
    <3> QED BY <3>1, <3>2, <3>3, <3>4, <3>5 DEF RoomTurns
  <2>y. TurnsAreRecorded'
    BY ZenonT(60), <1>b, <2>1, <2>2, <2>4, <2>5, <2>6 DEF TurnsAreRecorded
  <2> QED BY <2>x, <2>y
<1>4. ASSUME NEW t \in OcTurns, SetupFails(t) PROVE RoomTurns' /\ TurnsAreRecorded'
  <2>1. /\ oc'.in = oc.in /\ oc'.life = oc.life /\ oc'.turn = oc.turn /\ oc'.session = oc.session
        /\ oc'.starting <=> oc.starting /\ ~Mine(t)
    BY <1>4, <1>a DEF SetupFails, RoomRecords
  <2>2. ocTurns[t].pc \in OcStarting /\ opened' = opened /\ ocTurns' = Over(t)
    BY <1>4 DEF SetupFails
  <2>3. /\ \A u \in OcTurns \ {t} : ocTurns'[u] = ocTurns[u]
        /\ ocTurns'[t].pc = "done" /\ ocTurns'[t].life = ocTurns[t].life
    BY <2>2, OverFields
  <2>4. RoomTurns'
    <3>1. TurnIsLive'
      BY ZenonT(60), <1>b, <2>1, <2>2, <2>3 DEF RoomTurns, TurnIsLive
    <3>2. LiveIsTurn'
      BY <1>r, <1>b, <2>1, <2>2, <2>3 DEF TurnIsLive, LiveIsTurn, StartsAlone
    <3>3. StartsAlone'
      BY <1>r, <1>b, <2>1, <2>2, <2>3 DEF TurnIsLive, LiveIsTurn, StartsAlone
    <3>4. SessionIsHeld'
      BY <1>r, <1>b, <2>1, <2>2, <2>3 DEF LiveIsTurn, StartsAlone, SessionIsHeld
    <3>5. NamedIsFirst'
      <4>1. \A u \in OcTurns : ocTurns'[u].life = ocTurns[u].life
        BY <2>3
      <4>2. \A u \in OcTurns : ocTurns'[u].pc = "setup" => ocTurns[u].pc = "setup" /\ ocTurns'[u].named = ocTurns[u].named
        BY <2>3
      <4> QED BY <2>1, <4>1, <4>2 DEF RoomTurns, NamedIsFirst
    <3> QED BY <3>1, <3>2, <3>3, <3>4, <3>5 DEF RoomTurns
  <2>5. TurnsAreRecorded'
    BY <1>b, <2>1, <2>2, <2>3 DEF TurnsAreRecorded
  <2> QED BY <2>4, <2>5
<1>5. ASSUME NEW t \in OcTurns, TurnStarts(t) PROVE RoomTurns' /\ TurnsAreRecorded'
  <2>1. /\ oc'.in = oc.in /\ oc'.life = oc.life /\ oc'.session = oc.session
        /\ oc'.turn = IF Mine(t) THEN t ELSE oc.turn
        /\ oc'.starting <=> oc.starting /\ ~Mine(t)
    BY <1>5, <1>a DEF TurnStarts, RoomRecords
  <2>2. ocTurns[t].pc = "settled" /\ opened' = opened /\ ocTurns' = [ocTurns EXCEPT ![t].pc = "prompting"]
    BY <1>5 DEF TurnStarts
  <2>3. /\ \A u \in OcTurns \ {t} : ocTurns'[u] = ocTurns[u]
        /\ ocTurns'[t].pc = "prompting" /\ ocTurns'[t].life = ocTurns[t].life /\ ocTurns'[t].session = ocTurns[t].session
    BY <2>2, PcFields
  <2>4. ocTurns[t].pc = "settled" /\ opened' = opened
    BY <2>2
  <2>x. RoomTurns'
    <3>1. TurnIsLive'
      BY <1>b, <2>1, <2>3, <2>4 DEF RoomTurns, TurnIsLive
    <3>2. LiveIsTurn'
      BY <1>r, <1>b, <2>1, <2>3, <2>4 DEF TurnIsLive, LiveIsTurn, StartsAlone
    <3>3. StartsAlone'
      BY <1>r, <1>b, <2>1, <2>3, <2>4 DEF TurnIsLive, LiveIsTurn, StartsAlone
    <3>4. SessionIsHeld'
      BY <1>r, <1>b, <2>1, <2>3, <2>4 DEF LiveIsTurn, StartsAlone, SessionIsHeld
    <3>5. NamedIsFirst'
      <4>1. \A u \in OcTurns : ocTurns'[u].life = ocTurns[u].life
        BY <2>3
      <4>2. \A u \in OcTurns : ocTurns'[u].pc = "setup" => ocTurns[u].pc = "setup" /\ ocTurns'[u].named = ocTurns[u].named
        BY <2>3
      <4> QED BY <2>1, <4>1, <4>2 DEF RoomTurns, NamedIsFirst
    <3> QED BY <3>1, <3>2, <3>3, <3>4, <3>5 DEF RoomTurns
  <2>y. TurnsAreRecorded'
    BY <1>b, <2>1, <2>3, <2>4 DEF TurnsAreRecorded
  <2> QED BY <2>x, <2>y
<1>6. ASSUME NEW t \in OcTurns, PromptTaken(t) PROVE RoomTurns' /\ TurnsAreRecorded'
  <2>1. oc' = oc /\ ocTurns[t].pc = "prompting" /\ ocTurns' = [ocTurns EXCEPT ![t].pc = "taken"]
    BY <1>6 DEF PromptTaken
  <2>2. \A s \in OcSessions : opened'[s].st = opened[s].st
    BY <1>6, <1>a DEF PromptTaken, SessionRecords
  <2>x. RoomTurns'
    <3>1. TurnIsLive'
      BY <1>b, <2>1, <2>2, PcFields DEF RoomTurns, TurnIsLive
    <3>2. LiveIsTurn'
      BY <1>r, <1>b, <2>1, <2>2, PcFields DEF TurnIsLive, LiveIsTurn, StartsAlone
    <3>3. StartsAlone'
      BY <1>r, <1>b, <2>1, <2>2, PcFields DEF TurnIsLive, LiveIsTurn, StartsAlone
    <3>4. SessionIsHeld'
      BY <1>r, <1>b, <2>1, <2>2, PcFields DEF LiveIsTurn, StartsAlone, SessionIsHeld
    <3>5. NamedIsFirst'
      BY <1>r, <1>b, <2>1, <2>2, PcFields DEF NamedIsFirst
    <3> QED BY <3>1, <3>2, <3>3, <3>4, <3>5 DEF RoomTurns
  <2>y. TurnsAreRecorded'
    BY <1>b, <2>1, <2>2, PcFields DEF TurnsAreRecorded
  <2> QED BY <2>x, <2>y
<1>7. ASSUME NEW t \in OcTurns, PromptAnswered(t) PROVE RoomTurns' /\ TurnsAreRecorded'
  <2>1. /\ oc'.in = oc.in /\ oc'.life = oc.life /\ oc'.turn = oc.turn /\ oc'.session = oc.session
        /\ oc'.starting = oc.starting
    BY <1>7, <1>a DEF PromptAnswered, RoomRecords
  <2>2. opened' = opened /\ ocTurns[t].pc = "taken" /\ ocTurns' = [ocTurns EXCEPT ![t].pc = "running"]
    BY <1>7 DEF PromptAnswered
  <2>x. RoomTurns'
    <3>1. TurnIsLive'
      BY <1>b, <2>1, <2>2, PcFields DEF RoomTurns, TurnIsLive
    <3>2. LiveIsTurn'
      BY <1>r, <1>b, <2>1, <2>2, PcFields DEF TurnIsLive, LiveIsTurn, StartsAlone
    <3>3. StartsAlone'
      BY <1>r, <1>b, <2>1, <2>2, PcFields DEF TurnIsLive, LiveIsTurn, StartsAlone
    <3>4. SessionIsHeld'
      BY <1>r, <1>b, <2>1, <2>2, PcFields DEF LiveIsTurn, StartsAlone, SessionIsHeld
    <3>5. NamedIsFirst'
      BY <1>r, <1>b, <2>1, <2>2, PcFields DEF NamedIsFirst
    <3> QED BY <3>1, <3>2, <3>3, <3>4, <3>5 DEF RoomTurns
  <2>y. TurnsAreRecorded'
    BY <1>b, <2>1, <2>2, PcFields DEF TurnsAreRecorded
  <2> QED BY <2>x, <2>y
<1>8. ASSUME NEW t \in OcTurns, PromptFails(t) \/ TurnCloses(t) PROVE RoomTurns' /\ TurnsAreRecorded'
  <2>1. TurnCleared(t) /\ opened' = opened /\ ocTurns' = Over(t) /\ ocTurns[t].pc \in OcLive
    BY <1>8 DEF PromptFails, TurnCloses
  <2>2. /\ oc'.in = oc.in /\ oc'.life = oc.life /\ oc'.session = oc.session /\ oc'.starting = oc.starting
        /\ oc'.turn = IF Mine(t) /\ oc.turn = t THEN NoOc ELSE oc.turn
    BY <2>1, <1>a DEF TurnCleared, RoomRecords
  <2>3. /\ \A u \in OcTurns \ {t} : ocTurns'[u] = ocTurns[u]
        /\ ocTurns'[t].pc = "done" /\ ocTurns'[t].life = ocTurns[t].life
    BY <2>1, OverFields
  <2>4. RoomTurns'
    <3>1. TurnIsLive'
      BY ZenonT(60), <1>b, <2>1, <2>2, <2>3 DEF RoomTurns, TurnIsLive
    <3>2. LiveIsTurn'
      BY <1>r, <1>b, <2>1, <2>2, <2>3 DEF TurnIsLive, LiveIsTurn, StartsAlone
    <3>3. StartsAlone'
      BY <1>r, <1>b, <2>1, <2>2, <2>3 DEF TurnIsLive, LiveIsTurn, StartsAlone
    <3>4. SessionIsHeld'
      BY <1>r, <1>b, <2>1, <2>2, <2>3 DEF LiveIsTurn, StartsAlone, SessionIsHeld
    <3>5. NamedIsFirst'
      BY <1>r, <1>b, <2>1, <2>2, <2>3 DEF NamedIsFirst
    <3> QED BY <3>1, <3>2, <3>3, <3>4, <3>5 DEF RoomTurns
  <2>5. TurnsAreRecorded'
    BY ZenonT(60), <1>b, <2>1, <2>2, <2>3 DEF TurnsAreRecorded
  <2> QED BY <2>4, <2>5
<1>9. ASSUME NEW t \in OcTurns, WatchdogFires(t) PROVE RoomTurns' /\ TurnsAreRecorded'
  <2>1. /\ oc'.in = oc.in /\ oc'.life = oc.life /\ oc'.turn = oc.turn /\ oc'.session = oc.session
        /\ oc'.starting = oc.starting
    BY <1>9, <1>a DEF WatchdogFires, ForcesFresh, RoomRecords
  <2>2. ocTurns[t].pc = "running" /\ ocTurns' = [ocTurns EXCEPT ![t].pc = "reporting"]
    BY <1>9 DEF WatchdogFires
  <2>3. \A s \in OcSessions : opened'[s].st = opened[s].st
    BY <1>9, <1>a DEF WatchdogFires, Abandons, SessionRecords
  <2>x. RoomTurns'
    <3>1. TurnIsLive'
      BY <1>b, <2>1, <2>2, <2>3, PcFields DEF RoomTurns, TurnIsLive
    <3>2. LiveIsTurn'
      BY <1>r, <1>b, <2>1, <2>2, <2>3, PcFields DEF TurnIsLive, LiveIsTurn, StartsAlone
    <3>3. StartsAlone'
      BY <1>r, <1>b, <2>1, <2>2, <2>3, PcFields DEF TurnIsLive, LiveIsTurn, StartsAlone
    <3>4. SessionIsHeld'
      BY <1>r, <1>b, <2>1, <2>2, <2>3, PcFields DEF LiveIsTurn, StartsAlone, SessionIsHeld
    <3>5. NamedIsFirst'
      BY <1>r, <1>b, <2>1, <2>2, <2>3, PcFields DEF NamedIsFirst
    <3> QED BY <3>1, <3>2, <3>3, <3>4, <3>5 DEF RoomTurns
  <2>y. TurnsAreRecorded'
    BY <1>b, <2>1, <2>2, <2>3, PcFields DEF TurnsAreRecorded
  <2> QED BY <2>x, <2>y
<1>c. ASSUME /\ oc'.in = oc.in /\ oc'.life = oc.life /\ oc'.turn = oc.turn /\ oc'.session = oc.session
             /\ oc'.starting = oc.starting,
             \A s \in OcSessions : opened'[s].st = opened[s].st,
             \A u \in OcTurns :
               /\ ocTurns'[u].pc = ocTurns[u].pc /\ ocTurns'[u].life = ocTurns[u].life
               /\ ocTurns'[u].session = ocTurns[u].session /\ ocTurns'[u].named = ocTurns[u].named
      PROVE  RoomTurns' /\ TurnsAreRecorded'
  <2>1. \A u \in OcTurns : Mine(u)' <=> Mine(u)
    BY <1>c
  <2>2. RoomTurns'
    <3>1. TurnIsLive'
      BY <1>b, <1>c, <2>1 DEF RoomTurns, TurnIsLive
    <3>2. LiveIsTurn'
      BY <1>r, <1>b, <1>c, <2>1 DEF TurnIsLive, LiveIsTurn, StartsAlone
    <3>3. StartsAlone'
      BY <1>r, <1>b, <1>c, <2>1 DEF TurnIsLive, LiveIsTurn, StartsAlone
    <3>4. SessionIsHeld'
      BY <1>r, <1>b, <1>c, <2>1 DEF LiveIsTurn, StartsAlone, SessionIsHeld
    <3>5. NamedIsFirst'
      BY <1>r, <1>b, <1>c, <2>1 DEF NamedIsFirst
    <3> QED BY <3>1, <3>2, <3>3, <3>4, <3>5 DEF RoomTurns
  <2>3. TurnsAreRecorded'
    BY <1>b, <1>c DEF TurnsAreRecorded
  <2> QED BY <2>2, <2>3
<1>10. ASSUME InteractionFails(oc.turn) PROVE RoomTurns' /\ TurnsAreRecorded'
  <2>1. ocTurns' = EndsTurn(ocTurns, oc.turn)
    BY <1>10 DEF InteractionFails
  <2>2. /\ oc'.in = oc.in /\ oc'.life = oc.life /\ oc'.turn = oc.turn /\ oc'.session = oc.session
        /\ oc'.starting = oc.starting /\ \A s \in OcSessions : opened'[s].st = opened[s].st
    BY <1>b, <1>10, InteractionFields
  <2>3. \A u \in OcTurns :
          /\ ocTurns'[u].pc = ocTurns[u].pc /\ ocTurns'[u].life = ocTurns[u].life
          /\ ocTurns'[u].session = ocTurns[u].session /\ ocTurns'[u].named = ocTurns[u].named
    BY <1>b, <2>1, EndsTurnFields
  <2> QED BY <1>c, <2>2, <2>3
<1>11. ASSUME NEW a \in Asks, ReplyFails(a) PROVE RoomTurns' /\ TurnsAreRecorded'
  <2>1. CASE UNCHANGED <<oc, routes, ocTurns, opened>>
    BY <1>1, <2>1 DEF TurnsRestStep
  <2> QED BY <1>10, <1>11, <2>1 DEF ReplyFails
<1>12. CASE AskPostFails
  <2>1. CASE UNCHANGED <<oc, routes, ocTurns, opened>>
    BY <1>1, <2>1 DEF TurnsRestStep
  <2> QED BY <1>10, <1>12, <2>1 DEF AskPostFails
<1>13. CASE EndHeard
  <2>1. oc' = oc /\ opened' = opened /\ (ocTurns' = EndsTurn(ocTurns, oc.turn) \/ ocTurns' = ocTurns)
    BY <1>13 DEF EndHeard
  <2>2. CASE ocTurns' = ocTurns
    BY <1>1, <2>1, <2>2 DEF TurnsRestStep
  <2>3. CASE ocTurns' = EndsTurn(ocTurns, oc.turn)
    <3>1. \A u \in OcTurns :
            /\ ocTurns'[u].pc = ocTurns[u].pc /\ ocTurns'[u].life = ocTurns[u].life
            /\ ocTurns'[u].session = ocTurns[u].session /\ ocTurns'[u].named = ocTurns[u].named
      BY <1>b, <2>3, EndsTurnFields
    <3> QED BY <1>c, <2>1, <3>1
  <2> QED BY <2>1, <2>2, <2>3
<1>14. CASE RoomLeft
  <2>1. ~oc'.in /\ oc'.turn = NoOc /\ oc'.life = oc.life /\ opened' = opened /\ ocTurns' = EndsTurn(ocTurns, oc.turn)
    BY <1>14, <1>a DEF RoomLeft, RoomRecords
  <2>2. \A u \in OcTurns :
          /\ ocTurns'[u].pc = ocTurns[u].pc /\ ocTurns'[u].life = ocTurns[u].life
          /\ ocTurns'[u].session = ocTurns[u].session
    BY <1>b, <2>1, EndsTurnFields
  <2>3. RoomTurns'
    <3>1. TurnIsLive'
      BY <2>1 DEF RoomTurns, TurnIsLive
    <3>2. LiveIsTurn'
      BY <1>r, <2>1 DEF TurnIsLive, LiveIsTurn, StartsAlone
    <3>3. StartsAlone'
      BY <1>r, <2>1 DEF TurnIsLive, LiveIsTurn, StartsAlone
    <3>4. SessionIsHeld'
      BY <1>r, <2>1 DEF LiveIsTurn, StartsAlone, SessionIsHeld
    <3>5. NamedIsFirst'
      BY <1>r, <2>1 DEF NamedIsFirst
    <3> QED BY <3>1, <3>2, <3>3, <3>4, <3>5 DEF RoomTurns
  <2>4. TurnsAreRecorded'
    BY <2>1, <2>2 DEF TurnsAreRecorded
  <2> QED BY <2>3, <2>4
<1> QED
  BY <1>1, <1>2, <1>3, <1>4, <1>5, <1>6, <1>7, <1>8, <1>9, <1>11, <1>12, <1>13, <1>14, TurnsRestSteps
  DEF OpencodeNext, TurnMoves, AskMoves, LoopMoves

----------------------------------------------------------------------------
(* Prompts, and the events that end them.  A turn prompts once, and until  *)
(* its end is heard it is a session's prompt or an end on its way.         *)

HasIn(q, u) == \E i \in DOMAIN q : q[i] = u
OnceIn(q) == \A i, j \in DOMAIN q : q[i] = q[j] => i = j
Prompted(t, s) == HasIn(opened[s].prompts, t)
EndsOnce(es) == \A i, j \in DOMAIN es : es[i].is = "end" /\ es[j].is = "end" /\ es[i].of = es[j].of => i = j
EndIn(es, t, s) == \E i \in DOMAIN es : es[i].is = "end" /\ es[i].session = s /\ es[i].of = t
EndComes(t, s) == EndIn(events, t, s)
OcSent == {"taken", "running", "reporting"}

QueuesOnce == \A s \in OcSessions : OnceIn(opened[s].prompts)
PromptsOnce ==
  \A t \in OcTurns, r, s \in OcSessions :
    /\ Prompted(t, r) /\ Prompted(t, s) => r = s
    /\ Prompted(t, r) => ~EndComes(t, s)
PromptsAreSent ==
  \A t \in OcTurns, s \in OcSessions : Prompted(t, s) \/ EndComes(t, s) =>
    /\ opened[s].st # "none" /\ ocTurns[t].pc \in OcSent \cup {"done"}
    /\ ocTurns[t].pc \in OcSent => ocTurns[t].session = s
PendingInv == QueuesOnce /\ EndsOnce(events) /\ PromptsOnce /\ PromptsAreSent

LEMMA TailFacts ==
  ASSUME NEW S, NEW q \in Seq(S), q # <<>>
  PROVE  /\ Tail(q) \in Seq(S) /\ Head(q) = q[1] /\ 1 \in DOMAIN q /\ DOMAIN q \subseteq Nat
         /\ \A i \in DOMAIN Tail(q) : i \in Nat /\ i + 1 \in DOMAIN q /\ i + 1 # 1 /\ Tail(q)[i] = q[i + 1]
         /\ \A i \in DOMAIN q : i # 1 => i - 1 \in DOMAIN Tail(q) /\ Tail(q)[i - 1] = q[i]
OBVIOUS

LEMMA AppendFacts ==
  ASSUME NEW S, NEW q \in Seq(S), NEW x \in S
  PROVE  /\ Append(q, x) \in Seq(S) /\ Len(q) + 1 \notin DOMAIN q
         /\ DOMAIN Append(q, x) = DOMAIN q \cup {Len(q) + 1}
         /\ Append(q, x)[Len(q) + 1] = x /\ \A i \in DOMAIN q : Append(q, x)[i] = q[i]
OBVIOUS

\* A queue without repetition loses its head, and one that has not x gains it.
LEMMA QueuePops ==
  ASSUME NEW q \in Seq(OcTurns), q # <<>>, OnceIn(q)
  PROVE  OnceIn(Tail(q)) /\ \A u : HasIn(Tail(q), u) <=> HasIn(q, u) /\ u # Head(q)
<1> USE DEF OnceIn, HasIn
<1>1. \A i, j \in DOMAIN Tail(q) : Tail(q)[i] = Tail(q)[j] => i = j
  <2> TAKE i, j \in DOMAIN Tail(q)
  <2>1. i \in Nat /\ j \in Nat /\ i + 1 \in DOMAIN q /\ j + 1 \in DOMAIN q
        /\ Tail(q)[i] = q[i + 1] /\ Tail(q)[j] = q[j + 1]
    BY TailFacts
  <2> QED BY <2>1
<1>2. ASSUME NEW u PROVE (\E i \in DOMAIN Tail(q) : Tail(q)[i] = u) <=> (\E i \in DOMAIN q : q[i] = u) /\ u # Head(q)
  <2>1. ASSUME NEW i \in DOMAIN Tail(q), Tail(q)[i] = u PROVE (\E j \in DOMAIN q : q[j] = u) /\ u # Head(q)
    <3>1. i + 1 \in DOMAIN q /\ i + 1 # 1 /\ q[i + 1] = u /\ Head(q) = q[1] /\ 1 \in DOMAIN q
      BY <2>1, TailFacts
    <3> QED BY <3>1
  <2>2. ASSUME NEW i \in DOMAIN q, q[i] = u, u # Head(q) PROVE \E j \in DOMAIN Tail(q) : Tail(q)[j] = u
    <3>1. i # 1 /\ i - 1 \in DOMAIN Tail(q) /\ Tail(q)[i - 1] = q[i]
      BY <2>2, TailFacts
    <3> QED BY <2>2, <3>1
  <2> QED BY <2>1, <2>2
<1> QED BY <1>1, <1>2

LEMMA QueuePushes ==
  ASSUME NEW q \in Seq(OcTurns), NEW x \in OcTurns, OnceIn(q), ~HasIn(q, x)
  PROVE  OnceIn(Append(q, x)) /\ \A u : HasIn(Append(q, x), u) <=> HasIn(q, u) \/ u = x
<1> USE DEF OnceIn, HasIn
<1> DEFINE a == Append(q, x)
<1>1. /\ DOMAIN a = DOMAIN q \cup {Len(q) + 1} /\ Len(q) + 1 \notin DOMAIN q
      /\ a[Len(q) + 1] = x /\ \A i \in DOMAIN q : a[i] = q[i]
  BY AppendFacts
<1> HIDE DEF a
<1>2. \A i, j \in DOMAIN a : a[i] = a[j] => i = j
  BY <1>1
<1>3. \A u : (\E i \in DOMAIN a : a[i] = u) <=> (\E i \in DOMAIN q : q[i] = u) \/ u = x
  BY <1>1
<1> QED BY <1>2, <1>3 DEF a

\* What hearing the head of the stream does to the ends on their way, and one event more.
LEMMA EventsPop ==
  ASSUME NEW q \in Seq(EventRecords), q # <<>>, EndsOnce(q)
  PROVE  /\ EndsOnce(Tail(q))
         /\ \A t, s : EndIn(Tail(q), t, s) => EndIn(q, t, s) /\ (Head(q).is = "end" => t # Head(q).of)
         /\ \A t, s : EndIn(q, t, s) => EndIn(Tail(q), t, s) \/ (Head(q).is = "end" /\ t = Head(q).of /\ s = Head(q).session)
         /\ Head(q).is = "end" => EndIn(q, Head(q).of, Head(q).session)
<1>1. EndsOnce(Tail(q))
  <2> SUFFICES ASSUME NEW i \in DOMAIN Tail(q), NEW j \in DOMAIN Tail(q), Tail(q)[i].is = "end", Tail(q)[j].is = "end",
                      Tail(q)[i].of = Tail(q)[j].of
               PROVE  i = j
    BY DEF EndsOnce
  <2>1. i \in Nat /\ j \in Nat /\ i + 1 \in DOMAIN q /\ j + 1 \in DOMAIN q
        /\ Tail(q)[i] = q[i + 1] /\ Tail(q)[j] = q[j + 1]
    BY TailFacts
  <2>2. i + 1 = j + 1
    BY <2>1 DEF EndsOnce
  <2> QED BY <2>1, <2>2
<1>2. ASSUME NEW t, NEW s, EndIn(Tail(q), t, s) PROVE EndIn(q, t, s) /\ (Head(q).is = "end" => t # Head(q).of)
  <2>1. PICK i \in DOMAIN Tail(q) : Tail(q)[i].is = "end" /\ Tail(q)[i].session = s /\ Tail(q)[i].of = t
    BY <1>2 DEF EndIn
  <2>2. i + 1 \in DOMAIN q /\ i + 1 # 1 /\ Tail(q)[i] = q[i + 1] /\ Head(q) = q[1] /\ 1 \in DOMAIN q
    BY TailFacts
  <2> QED BY <2>1, <2>2 DEF EndIn, EndsOnce
<1>3. ASSUME NEW t, NEW s, EndIn(q, t, s)
      PROVE  EndIn(Tail(q), t, s) \/ (Head(q).is = "end" /\ t = Head(q).of /\ s = Head(q).session)
  <2>1. PICK i \in DOMAIN q : q[i].is = "end" /\ q[i].session = s /\ q[i].of = t
    BY <1>3 DEF EndIn
  <2>2. CASE i = 1
    BY <2>1, <2>2, TailFacts
  <2>3. CASE i # 1
    <3>1. i - 1 \in DOMAIN Tail(q) /\ Tail(q)[i - 1] = q[i]
      BY <2>3, TailFacts
    <3> QED BY <2>1, <3>1 DEF EndIn
  <2> QED BY <2>2, <2>3
<1>4. Head(q).is = "end" => EndIn(q, Head(q).of, Head(q).session)
  BY TailFacts DEF EndIn
<1> QED BY <1>1, <1>2, <1>3, <1>4

LEMMA EventsPush ==
  ASSUME NEW q \in Seq(EventRecords), NEW e \in EventRecords, EndsOnce(q),
         e.is = "end" => \A s : ~EndIn(q, e.of, s)
  PROVE  /\ EndsOnce(Append(q, e))
         /\ \A t, s : EndIn(Append(q, e), t, s) <=> EndIn(q, t, s) \/ (e.is = "end" /\ t = e.of /\ s = e.session)
<1> DEFINE a == Append(q, e)
<1>1. /\ DOMAIN a = DOMAIN q \cup {Len(q) + 1} /\ Len(q) + 1 \notin DOMAIN q
      /\ a[Len(q) + 1] = e /\ \A i \in DOMAIN q : a[i] = q[i]
  BY AppendFacts
<1> HIDE DEF a
<1>2. EndsOnce(a)
  <2> SUFFICES ASSUME NEW i \in DOMAIN a, NEW j \in DOMAIN a, a[i].is = "end", a[j].is = "end", a[i].of = a[j].of
               PROVE  i = j
    BY DEF EndsOnce
  <2>1. CASE i \in DOMAIN q /\ j \in DOMAIN q
    BY <1>1, <2>1 DEF EndsOnce
  <2>2. CASE i \in DOMAIN q /\ j \notin DOMAIN q
    BY <1>1, <2>2 DEF EndIn
  <2>3. CASE i \notin DOMAIN q /\ j \in DOMAIN q
    BY <1>1, <2>3 DEF EndIn
  <2>4. CASE i \notin DOMAIN q /\ j \notin DOMAIN q
    BY <1>1, <2>4
  <2> QED BY <2>1, <2>2, <2>3, <2>4
<1>3. \A t, s : EndIn(a, t, s) <=> EndIn(q, t, s) \/ (e.is = "end" /\ t = e.of /\ s = e.session)
  BY <1>1 DEF EndIn
<1> QED BY <1>2, <1>3 DEF a

LEMMA PendingStarts == OpencodeInit => PendingInv
<1> SUFFICES ASSUME OpencodeInit PROVE PendingInv
  OBVIOUS
<1>1. events = <<>> /\ \A s \in OcSessions : opened[s].prompts = <<>>
  BY DEF OpencodeInit
<1>2. DOMAIN events = {} /\ \A s \in OcSessions : DOMAIN opened[s].prompts = {}
  BY <1>1
<1> QED BY <1>2 DEF PendingInv, QueuesOnce, OnceIn, HasIn, EndsOnce, EndIn, EndComes, PromptsOnce, PromptsAreSent, Prompted

\* A step that leaves prompts and events where they are.
PendingRest ==
  /\ events' = events
  /\ \A s \in OcSessions : opened'[s].prompts = opened[s].prompts /\ (opened[s].st # "none" => opened'[s].st # "none")
  /\ \A t \in OcTurns : ocTurns[t].pc \in OcSent \cup {"done"} =>
       /\ ocTurns'[t].pc \in OcSent \cup {"done"}
       /\ ocTurns'[t].pc \in OcSent => ocTurns[t].pc \in OcSent /\ ocTurns'[t].session = ocTurns[t].session

LEMMA PendingRests == PendingInv /\ PendingRest => PendingInv'
<1> SUFFICES ASSUME PendingInv, PendingRest PROVE PendingInv'
  OBVIOUS
<1>1. \A t \in OcTurns, s \in OcSessions : (Prompted(t, s)' <=> Prompted(t, s)) /\ (EndComes(t, s)' <=> EndComes(t, s))
  BY DEF PendingRest, Prompted, EndComes, EndIn
<1>2. QueuesOnce' /\ EndsOnce(events)'
  BY DEF PendingInv, PendingRest, QueuesOnce, EndsOnce
<1>3. PromptsOnce' /\ PromptsAreSent'
  BY <1>1 DEF PendingInv, PendingRest, PromptsOnce, PromptsAreSent
<1> QED BY <1>2, <1>3 DEF PendingInv

LEMMA PendingKept ==
  OpencodeType /\ TurnsAreRecorded /\ PendingInv /\ [OpencodeNext]_ocVars => PendingInv'
<1> SUFFICES ASSUME OpencodeType, TurnsAreRecorded, PendingInv, [OpencodeNext]_ocVars PROVE PendingInv'
  OBVIOUS
<1> USE OpencodeConstants DEF OcSent
<1>a. oc \in RoomRecords /\ ocTurns \in [OcTurns -> TurnRecords] /\ opened \in [OcSessions -> SessionRecords]
      /\ events \in Seq(EventRecords)
  BY DEF OpencodeType
<1>b. /\ oc.turn \in OcTurns \cup {NoOc}
      /\ \A s \in OcSessions : opened[s] \in SessionRecords /\ opened[s].prompts \in Seq(OcTurns)
  BY SMTT(40), <1>a DEF RoomRecords, SessionRecords
<1>1. CASE \/ UNCHANGED ocVars
           \/ AskPosted
           \/ \E a \in Asks : RoomReplies(a) \/ AskExpires(a) \/ ReplyLands(a)
  BY Zenon, <1>1, PendingRests DEF PendingRest, ocVars, AskPosted, RoomReplies, AskExpires, ReplyLands, Claims
<1>2. ASSUME NEW t \in OcTurns, MessageComes(t) PROVE PendingInv'
  <2>1. ocTurns[t].pc = "none" /\ opened' = opened /\ events' = events
    BY <1>2 DEF MessageComes, FirstUnsent
  <2>2. \A u \in OcTurns \ {t} : ocTurns'[u] = ocTurns[u]
    BY <1>2, <1>a DEF MessageComes
  <2> QED BY <2>1, <2>2, PendingRests DEF PendingRest
<1>3. ASSUME NEW t \in OcTurns, SessionRestored(t) \/ SessionCreated(t) PROVE PendingInv'
  <2>1. ocTurns[t].pc = "setup" /\ events' = events
    BY <1>3 DEF SessionRestored, SessionCreated
  <2>2. \A u \in OcTurns \ {t} : ocTurns'[u] = ocTurns[u]
    <3>1. PICK s, l, r : HasSession(t, s, l, r)
      BY <1>3 DEF SessionRestored, SessionCreated
    <3> QED BY <3>1, <1>a DEF HasSession
  <2>3. \A s \in OcSessions : opened'[s].prompts = opened[s].prompts /\ (opened[s].st # "none" => opened'[s].st # "none")
    <3>1. CASE opened' = opened
      BY <3>1
    <3>2. CASE \E x \in OcSessions : opened' = [opened EXCEPT ![x].st = "made"]
      BY <1>a, <3>2 DEF SessionRecords
    <3> QED BY <1>3, <3>1, <3>2 DEF SessionRestored, SessionCreated
  <2> QED BY <2>1, <2>2, <2>3, PendingRests DEF PendingRest
<1>4. ASSUME NEW t \in OcTurns, SetupFails(t) \/ PromptFails(t) \/ TurnCloses(t) PROVE PendingInv'
  <2>1. ocTurns' = Over(t) /\ opened' = opened /\ events' = events
    BY <1>4 DEF SetupFails, PromptFails, TurnCloses
  <2>2. (\A u \in OcTurns \ {t} : ocTurns'[u] = ocTurns[u]) /\ ocTurns'[t].pc = "done"
    BY <2>1, OverFields
  <2> QED BY <2>1, <2>2, PendingRests DEF PendingRest
<1>5. ASSUME NEW t \in OcTurns, TurnStarts(t) PROVE PendingInv'
  <2>1. ocTurns[t].pc = "settled" /\ opened' = opened /\ events' = events
    BY <1>5 DEF TurnStarts
  <2>2. \A u \in OcTurns \ {t} : ocTurns'[u] = ocTurns[u]
    BY <1>5, <1>a DEF TurnStarts
  <2> QED BY <2>1, <2>2, PendingRests DEF PendingRest
<1>6. ASSUME NEW t \in OcTurns, PromptTaken(t) PROVE PendingInv'
  <2> DEFINE s == ocTurns[t].session
  <2>1. /\ ocTurns[t].pc = "prompting" /\ events' = events /\ ocTurns' = [ocTurns EXCEPT ![t].pc = "taken"]
    BY <1>6 DEF PromptTaken
  <2>2. s \in OcSessions /\ opened[s].st # "none"
    BY <2>1 DEF TurnsAreRecorded, OcLive
  <2>3. /\ opened'[s].prompts = Append(opened[s].prompts, t)
        /\ \A r \in OcSessions : opened'[r].st = opened[r].st /\ (r # s => opened'[r].prompts = opened[r].prompts)
    BY SMTT(40), <1>6, <1>a, <2>2 DEF PromptTaken, SessionRecords
  <2>4. \A r \in OcSessions : ~Prompted(t, r) /\ ~EndComes(t, r)
    BY <2>1 DEF PendingInv, PromptsAreSent
  <2> HIDE DEF s
  <2>5. OnceIn(opened'[s].prompts) /\ \A u : HasIn(opened'[s].prompts, u) <=> HasIn(opened[s].prompts, u) \/ u = t
    <3>1. ~HasIn(opened[s].prompts, t) /\ OnceIn(opened[s].prompts) /\ opened[s].prompts \in Seq(OcTurns)
      BY <1>b, <2>2, <2>4 DEF Prompted, PendingInv, QueuesOnce
    <3>2. /\ OnceIn(Append(opened[s].prompts, t))
          /\ \A u : HasIn(Append(opened[s].prompts, t), u) <=> HasIn(opened[s].prompts, u) \/ u = t
      BY <3>1, QueuePushes
    <3> QED BY <2>3, <3>2
  <2>6. /\ \A u \in OcTurns, r \in OcSessions : Prompted(u, r)' <=> Prompted(u, r) \/ (u = t /\ r = s)
        /\ \A u \in OcTurns, r \in OcSessions : EndComes(u, r)' <=> EndComes(u, r)
    BY <2>1, <2>3, <2>5 DEF Prompted, EndComes
  <2>7. /\ \A u \in OcTurns \ {t} : ocTurns'[u] = ocTurns[u]
        /\ ocTurns'[t].pc = "taken" /\ ocTurns'[t].session = s
    BY <2>1, PcFields DEF s
  <2>8. QueuesOnce' /\ EndsOnce(events)'
    BY <2>1, <2>3, <2>5 DEF PendingInv, QueuesOnce, EndsOnce
  <2>9. PromptsOnce'
    BY <2>4, <2>6 DEF PendingInv, PromptsOnce
  <2>10. PromptsAreSent'
    BY <2>2, <2>3, <2>4, <2>6, <2>7 DEF PendingInv, PromptsAreSent
  <2> QED BY <2>8, <2>9, <2>10 DEF PendingInv
<1>7. ASSUME NEW t \in OcTurns, PromptAnswered(t) \/ WatchdogFires(t) PROVE PendingInv'
  <2>1. PICK p \in OcSent : ocTurns' = [ocTurns EXCEPT ![t].pc = p]
    BY <1>7 DEF PromptAnswered, WatchdogFires
  <2>2. ocTurns[t].pc \in OcSent /\ events' = events
    BY <1>7 DEF PromptAnswered, WatchdogFires
  <2>3. \A r \in OcSessions : opened'[r].st = opened[r].st /\ opened'[r].prompts = opened[r].prompts
    <3>1. CASE opened' = opened
      BY <3>1
    <3>2. CASE \E x : opened' = [opened EXCEPT ![x].aborted = TRUE]
      BY <1>a, <3>2 DEF SessionRecords
    <3> QED BY <1>7, <3>1, <3>2 DEF PromptAnswered, WatchdogFires, Abandons
  <2>4. (\A u \in OcTurns \ {t} : ocTurns'[u] = ocTurns[u]) /\ ocTurns'[t].pc = p /\ ocTurns'[t].session = ocTurns[t].session
    BY <2>1, PcFields
  <2> QED BY <2>2, <2>3, <2>4, PendingRests DEF PendingRest
<1>8. ASSUME InteractionFails(oc.turn), events' = events PROVE PendingInv'
  <2>1. ocTurns' = EndsTurn(ocTurns, oc.turn)
    BY <1>8 DEF InteractionFails
  <2>2. \A u \in OcTurns : ocTurns'[u].pc = ocTurns[u].pc /\ ocTurns'[u].session = ocTurns[u].session
    BY <1>b, <2>1, EndsTurnFields
  <2>3. \A s \in OcSessions : opened'[s].st = opened[s].st /\ opened'[s].prompts = opened[s].prompts
    BY <1>b, <1>8, InteractionFields
  <2> QED BY <1>8, <2>2, <2>3, PendingRests DEF PendingRest
<1>9. ASSUME NEW a \in Asks, ReplyFails(a) PROVE PendingInv'
  <2>1. CASE UNCHANGED <<oc, routes, ocTurns, opened>>
    BY <1>9, <2>1, PendingRests DEF PendingRest, ReplyFails
  <2> QED BY <1>8, <1>9, <2>1 DEF ReplyFails
<1>10. CASE AskPostFails
  <2>1. CASE UNCHANGED <<oc, routes, ocTurns, opened>>
    BY <1>10, <2>1, PendingRests DEF PendingRest, AskPostFails
  <2> QED BY <1>8, <1>10, <2>1 DEF AskPostFails
<1>11. CASE RoomLeft
  <2>1. opened' = opened /\ events' = events /\ ocTurns' = EndsTurn(ocTurns, oc.turn)
    BY <1>11 DEF RoomLeft
  <2>2. \A u \in OcTurns : ocTurns'[u].pc = ocTurns[u].pc /\ ocTurns'[u].session = ocTurns[u].session
    BY <1>b, <2>1, EndsTurnFields
  <2> QED BY <2>1, <2>2, PendingRests DEF PendingRest
<1>12. ASSUME NEW s \in OcSessions, SessionGoes(s) PROVE PendingInv'
  <2>1. ocTurns' = ocTurns /\ events' = events
    BY <1>12 DEF SessionGoes
  <2>2. \A r \in OcSessions : opened'[r].prompts = opened[r].prompts /\ (opened[r].st # "none" => opened'[r].st # "none")
    BY <1>12, <1>a DEF SessionGoes, SessionRecords
  <2> QED BY <2>1, <2>2, PendingRests DEF PendingRest
<1>13. ASSUME NEW e \in EventRecords, e.is # "end", events' = Append(events, e), opened' = opened, ocTurns' = ocTurns
       PROVE  PendingInv'
  <2>1. EndsOnce(events)' /\ \A t, s : EndIn(events, t, s)' <=> EndIn(events, t, s)
    <3>1. EndsOnce(events)
      BY DEF PendingInv
    <3>2. EndsOnce(Append(events, e)) /\ \A t, s : EndIn(Append(events, e), t, s) <=> EndIn(events, t, s)
      BY <1>a, <1>13, <3>1, EventsPush
    <3> QED BY <1>13, <3>2
  <2>2. \A t, s : (EndComes(t, s)' <=> EndComes(t, s)) /\ (Prompted(t, s)' <=> Prompted(t, s))
    BY <1>13, <2>1 DEF EndComes, Prompted
  <2>3. QueuesOnce'
    BY <1>13 DEF PendingInv, QueuesOnce
  <2>4. PromptsOnce' /\ PromptsAreSent'
    BY <1>13, <2>2 DEF PendingInv, PromptsOnce, PromptsAreSent
  <2> QED BY <2>1, <2>3, <2>4 DEF PendingInv
<1>14. ASSUME NEW a \in Asks, AskOpens(a) \/ AskSettles(a) PROVE PendingInv'
  <2>1. asks[a].session \in OcIds
    BY DEF OpencodeType, AskRecords
  <2>2. PICK e \in EventRecords : e.is # "end" /\ events' = Append(events, e)
    <3>1. CASE AskOpens(a)
      <4>1. PICK s \in OcSessions : events' = Append(events, [is |-> "ask", session |-> s, of |-> a])
        BY <3>1 DEF AskOpens
      <4>2. [is |-> "ask", session |-> s, of |-> a] \in EventRecords
        BY DEF EventRecords, OcIds
      <4> QED BY <4>1, <4>2
    <3>2. CASE AskSettles(a)
      <4>1. events' = Append(events, [is |-> "settled", session |-> asks[a].session, of |-> a])
        BY <3>2 DEF AskSettles
      <4>2. [is |-> "settled", session |-> asks[a].session, of |-> a] \in EventRecords
        BY <2>1 DEF EventRecords
      <4> QED BY <4>1, <4>2
    <3> QED BY <1>14, <3>1, <3>2
  <2>3. opened' = opened /\ ocTurns' = ocTurns
    BY <1>14 DEF AskOpens, AskSettles
  <2> QED BY <1>13, <2>2, <2>3
<1>15. ASSUME NEW s \in OcSessions, PromptEnds(s) PROVE PendingInv'
  <2> DEFINE q == opened[s].prompts
             h == Head(q)
             e == [is |-> "end", session |-> s, of |-> h]
  <2>1. q \in Seq(OcTurns) /\ q # <<>> /\ h \in OcTurns /\ ocTurns' = ocTurns
    BY <1>15, <1>b DEF PromptEnds, Running
  <2>2. /\ opened'[s].prompts = Tail(q)
        /\ \A r \in OcSessions : opened'[r].st = opened[r].st /\ (r # s => opened'[r].prompts = opened[r].prompts)
    BY <1>15, <1>a DEF PromptEnds, SessionRecords
  <2>3. events' = Append(events, e) /\ e \in EventRecords
    BY <1>15, <2>1 DEF PromptEnds, EventRecords
  <2>4. Prompted(h, s)
    BY <2>1, TailFacts DEF Prompted, HasIn
  <2>5. \A r \in OcSessions : ~EndComes(h, r)
    BY <2>1, <2>4 DEF PendingInv, PromptsOnce
  <2>6. OnceIn(opened'[s].prompts) /\ \A u : HasIn(opened'[s].prompts, u) <=> HasIn(opened[s].prompts, u) /\ u # h
    <3>1. OnceIn(q)
      BY DEF PendingInv, QueuesOnce
    <3> QED BY <2>1, <2>2, <3>1, QueuePops
  <2>7. \A r : ~EndIn(events, h, r)
    <3> SUFFICES ASSUME NEW r, EndIn(events, h, r) PROVE FALSE
      OBVIOUS
    <3>1. r \in OcSessions
      <4>1. PICK i \in DOMAIN events : events[i].is = "end" /\ events[i].session = r
        BY DEF EndIn
      <4>2. events[i] \in EventRecords
        BY <1>a
      <4> QED BY <4>1, <4>2 DEF EventRecords
    <3> QED BY <2>5, <3>1 DEF EndComes
  <2>8. EndsOnce(events)' /\ \A t, r : EndIn(events, t, r)' <=> EndIn(events, t, r) \/ (t = h /\ r = s)
    <3>1. EndsOnce(events) /\ e.is = "end" /\ e.of = h /\ e.session = s
      BY DEF PendingInv
    <3> HIDE DEF e, h, q
    <3> QED BY <1>a, <2>3, <2>7, <3>1, EventsPush
  <2>9. /\ \A u \in OcTurns, r \in OcSessions : Prompted(u, r)' <=> Prompted(u, r) /\ ~(u = h /\ r = s)
        /\ \A u \in OcTurns, r \in OcSessions : EndComes(u, r)' <=> EndComes(u, r) \/ (u = h /\ r = s)
    <3> HIDE DEF e, h, q
    <3> QED BY <2>2, <2>6, <2>8 DEF Prompted, EndComes
  <2> HIDE DEF e, h, q
  <2>10. QueuesOnce'
    BY <2>2, <2>6 DEF PendingInv, QueuesOnce
  <2>11. PromptsOnce'
    BY <2>4, <2>5, <2>9 DEF PendingInv, PromptsOnce
  <2>12. PromptsAreSent'
    BY ZenonT(60), <2>1, <2>2, <2>4, <2>9 DEF PendingInv, PromptsAreSent
  <2> QED BY <2>8, <2>10, <2>11, <2>12 DEF PendingInv
<1>16. CASE EventsLost
  <2>1. events' = <<>> /\ opened' = opened /\ ocTurns' = ocTurns
    BY <1>16 DEF EventsLost
  <2>2. EndsOnce(events)' /\ \A t, s : ~EndIn(events, t, s)'
    BY <2>1 DEF EndsOnce, EndIn
  <2>3. \A t, s : ~EndComes(t, s)' /\ (Prompted(t, s)' <=> Prompted(t, s))
    BY <2>1, <2>2 DEF EndComes, Prompted
  <2>4. QueuesOnce'
    BY <2>1 DEF PendingInv, QueuesOnce
  <2>5. PromptsOnce' /\ PromptsAreSent'
    BY <2>1, <2>3 DEF PendingInv, PromptsOnce, PromptsAreSent
  <2> QED BY <2>2, <2>4, <2>5 DEF PendingInv
<1>17. CASE AskHeard \/ SettledHeard \/ EndHeard
  <2>1. events # <<>> /\ events' = Tail(events) /\ opened' = opened
    BY Zenon, <1>17 DEF AskHeard, SettledHeard, EndHeard, Heard
  <2>2. \A u \in OcTurns : ocTurns'[u].pc = ocTurns[u].pc /\ ocTurns'[u].session = ocTurns[u].session
    <3>1. ocTurns' = ocTurns \/ ocTurns' = EndsTurn(ocTurns, oc.turn)
      BY <1>17 DEF AskHeard, SettledHeard, EndHeard
    <3>2. CASE ocTurns' = EndsTurn(ocTurns, oc.turn)
      BY <1>b, <3>2, EndsTurnFields
    <3> QED BY SMTT(40), <3>1, <3>2
  <2>3. EndsOnce(events)' /\ \A t, s : EndIn(events, t, s)' => EndIn(events, t, s)
    <3>1. EndsOnce(events)
      BY DEF PendingInv
    <3> QED BY <1>a, <2>1, <3>1, EventsPop
  <2>4. \A t, s : (EndComes(t, s)' => EndComes(t, s)) /\ (Prompted(t, s)' <=> Prompted(t, s))
    BY <2>1, <2>3 DEF EndComes, Prompted
  <2>5. QueuesOnce'
    BY <2>1 DEF PendingInv, QueuesOnce
  <2>6. PromptsOnce' /\ PromptsAreSent'
    BY <2>1, <2>2, <2>4 DEF PendingInv, PromptsOnce, PromptsAreSent
  <2> QED BY <2>3, <2>5, <2>6 DEF PendingInv
<1> QED
  BY <1>1, <1>2, <1>3, <1>4, <1>5, <1>6, <1>7, <1>9, <1>10, <1>11, <1>12, <1>14, <1>15, <1>16, <1>17
  DEF OpencodeNext, TurnMoves, AskMoves, LoopMoves

----------------------------------------------------------------------------
(* What is given up: a turn the adapter no longer waits for, whose prompt  *)
(* is still due an end, has left its session behind.                       *)

EndIsDue(t, s) == Prompted(t, s) \/ EndComes(t, s)
PromptDue(t, s) == EndIsDue(t, s) \/ (ocTurns[t].pc = "prompting" /\ ocTurns[t].session = s)
GivenUp(t) == ocTurns[t].pc \in {"reporting", "done"} \/ ocTurns[t].ended
LeftBehind(s) ==
  /\ s \notin routes /\ opened[s].aborted
  /\ oc.session = s => oc.force
  /\ \A u \in OcTurns : Mine(u) /\ ocTurns[u].pc = "setup" => Restored(u) # s

StartsOpen == \A t \in OcTurns : ocTurns[t].pc \in OcStarting => ~ocTurns[t].ended
GivenUpLeave ==
  ~memory.strayed /\ ~memory.unforced =>
    \A t \in OcTurns, s \in OcSessions : Mine(t) /\ PromptDue(t, s) /\ GivenUp(t) => LeftBehind(s)
OcInv ==
  /\ OpencodeType /\ RoomTurns /\ TurnsAreRecorded /\ PendingInv
  /\ StartsOpen /\ GivenUpLeave /\ EventsStayWithTheirTurn

LEMMA OcInvStarts == OpencodeInit => OcInv
<1> SUFFICES ASSUME OpencodeInit PROVE OcInv
  OBVIOUS
<1>1. OpencodeType /\ RoomTurns /\ TurnsAreRecorded /\ PendingInv
  BY OpencodeStarts, RoomTurnsStart, PendingStarts
<1>2. (\A t \in OcTurns : ~ocTurns[t].ended) /\ ~oc.in /\ ~memory.misled
  BY DEF OpencodeInit, NoOcTurn
<1> QED BY <1>1, <1>2 DEF OcInv, StartsOpen, GivenUpLeave, EventsStayWithTheirTurn, Mine

\* No step makes a prompt due but one that sends it.
LEMMA PendingFrom ==
  ASSUME OpencodeType, PendingInv, \A s \in OcSessions : opened'[s].prompts = opened[s].prompts,
         \/ events' = events \/ events' = <<>> \/ (events # <<>> /\ events' = Tail(events))
         \/ \E e \in EventRecords : e.is # "end" /\ events' = Append(events, e)
  PROVE  \A t \in OcTurns, s \in OcSessions : EndIsDue(t, s)' => EndIsDue(t, s)
<1>a. events \in Seq(EventRecords) /\ EndsOnce(events)
  BY DEF OpencodeType, PendingInv
<1>1. \A t \in OcTurns, s \in OcSessions : Prompted(t, s)' <=> Prompted(t, s)
  BY DEF Prompted
<1>2. \A t \in OcTurns, s \in OcSessions : EndComes(t, s)' => EndComes(t, s)
  <2>1. CASE events' = events
    BY <2>1 DEF EndComes
  <2>2. CASE events' = <<>>
    BY <2>2 DEF EndComes, EndIn
  <2>3. CASE events # <<>> /\ events' = Tail(events)
    <3>1. \A t, s : EndIn(Tail(events), t, s) => EndIn(events, t, s)
      BY <1>a, <2>3, EventsPop
    <3> QED BY <2>3, <3>1 DEF EndComes
  <2>4. ASSUME NEW e \in EventRecords, e.is # "end", events' = Append(events, e)
        PROVE  \A t \in OcTurns, s \in OcSessions : EndComes(t, s)' => EndComes(t, s)
    <3>1. \A t, s : EndIn(Append(events, e), t, s) <=> EndIn(events, t, s)
      BY <1>a, <2>4, EventsPush
    <3> QED BY <2>4, <3>1 DEF EndComes
  <2> QED BY <2>1, <2>2, <2>3, <2>4
<1> QED BY <1>1, <1>2 DEF EndIsDue

\* A step that gives nothing up, and takes back nothing that was.
GivenUpRest ==
  /\ \A t \in OcTurns, s \in OcSessions : (Mine(t) /\ PromptDue(t, s) /\ GivenUp(t))' => Mine(t) /\ PromptDue(t, s) /\ GivenUp(t)
  /\ \A s \in OcSessions : LeftBehind(s) => LeftBehind(s)'
  /\ memory.strayed => memory'.strayed
  /\ memory.unforced => memory'.unforced

LEMMA GivenUpRests == GivenUpLeave /\ GivenUpRest => GivenUpLeave'
BY DEF GivenUpLeave, GivenUpRest

\* Whose turns are whose, when a step leaves lives alone.
LEMMA MineKept ==
  ASSUME oc'.in = oc.in, oc'.life = oc.life, NEW t \in OcTurns, ocTurns'[t].life = ocTurns[t].life
  PROVE  Mine(t)' <=> Mine(t)
BY DEF Mine

\* What leaves a session behind, in the steps that change no turn's start.
LEMMA LeftBehindKept ==
  ASSUME NEW s \in OcSessions, LeftBehind(s), s \notin routes', opened'[s].aborted,
         oc'.session = s => oc.session = s /\ (oc.force => oc'.force),
         oc'.in = oc.in, oc'.life = oc.life,
         \A u \in OcTurns : ocTurns'[u].pc = "setup" =>
           /\ ocTurns[u].pc = "setup" /\ ocTurns'[u].life = ocTurns[u].life /\ ocTurns'[u].held = ocTurns[u].held
           /\ ocTurns'[u].named = ocTurns[u].named /\ ocTurns'[u].fresh = ocTurns[u].fresh
  PROVE  LeftBehind(s)'
<1>1. ASSUME NEW u \in OcTurns, Mine(u)', ocTurns'[u].pc = "setup" PROVE Restored(u)' # s
  <2>1. Mine(u) /\ ocTurns[u].pc = "setup"
    BY <1>1 DEF Mine
  <2>2. Restored(u)' = Restored(u)
    BY <1>1 DEF Restored, Prior
  <2> QED BY <2>1, <2>2 DEF LeftBehind
<1> QED BY <1>1 DEF LeftBehind

\* The room's turn is given up, and its session left behind, together.
LEMMA LeavesSession ==
  ASSUME OpencodeType, RoomTurns, TurnsAreRecorded, PendingInv, NEW t \in OcTurns, Mine(t), ocTurns[t].pc \in OcLive,
         NEW s \in OcSessions, PromptDue(t, s)
  PROVE  /\ oc.turn = t /\ oc.session = s /\ oc.session # NoOc
         /\ \A u \in OcTurns : Mine(u) => ocTurns[u].pc # "setup"
<1>1. oc.turn = t /\ oc.turn # NoOc
  BY OpencodeConstants DEF RoomTurns, LiveIsTurn
<1>2. ocTurns[t].session = s /\ oc.session = s
  BY DEF PendingInv, PromptsAreSent, PromptDue, EndIsDue, OcLive, OcSent, RoomTurns, SessionIsHeld
<1>3. \A u \in OcTurns : Mine(u) => ocTurns[u].pc # "setup"
  BY <1>1 DEF RoomTurns, StartsAlone, OcStarting
<1> QED BY <1>1, <1>2, <1>3, OpencodeConstants

\* A prompt that ends is due its event from then on.
LEMMA PromptEndsPending ==
  ASSUME OpencodeType, PendingInv, NEW s \in OcSessions, PromptEnds(s)
  PROVE  \A t \in OcTurns, r \in OcSessions : EndIsDue(t, r)' => EndIsDue(t, r)
<1> DEFINE q == opened[s].prompts
           h == Head(q)
           e == [is |-> "end", session |-> s, of |-> h]
<1>a. opened \in [OcSessions -> SessionRecords] /\ events \in Seq(EventRecords) /\ EndsOnce(events)
  BY DEF OpencodeType, PendingInv
<1>1. q \in Seq(OcTurns) /\ q # <<>>
  BY <1>a DEF PromptEnds, Running, SessionRecords
<1>2. h \in OcTurns /\ HasIn(q, h)
  BY <1>1, TailFacts DEF HasIn
<1>3. \A r \in OcSessions : opened'[r].prompts = IF r = s THEN Tail(q) ELSE opened[r].prompts
  BY <1>a DEF PromptEnds, SessionRecords
<1>4. events' = Append(events, e) /\ e \in EventRecords /\ e.is = "end" /\ e.of = h /\ e.session = s
  BY <1>2 DEF PromptEnds, EventRecords
<1>5. OnceIn(q)
  BY DEF PendingInv, QueuesOnce
<1>6. \A r : ~EndIn(events, h, r)
  <2> SUFFICES ASSUME NEW r, EndIn(events, h, r) PROVE FALSE
    OBVIOUS
  <2>1. PICK i \in DOMAIN events : events[i].is = "end" /\ events[i].session = r
    BY DEF EndIn
  <2>2. events[i] \in EventRecords
    BY <1>a
  <2>3. r \in OcSessions
    BY <2>1, <2>2 DEF EventRecords
  <2>4. EndComes(h, r) /\ Prompted(h, s)
    BY <1>2 DEF EndComes, Prompted
  <2> QED BY <1>2, <2>3, <2>4 DEF PendingInv, PromptsOnce
<1> HIDE DEF e, h, q
<1>7. \A u : HasIn(Tail(q), u) => HasIn(q, u)
  BY <1>1, <1>5, QueuePops
<1>8. \A t, r : EndIn(Append(events, e), t, r) <=> EndIn(events, t, r) \/ (t = h /\ r = s)
  BY <1>a, <1>4, <1>6, EventsPush
<1>9. \A t \in OcTurns, r \in OcSessions : Prompted(t, r)' => Prompted(t, r)
  BY <1>3, <1>7 DEF Prompted, q
<1>10. \A t \in OcTurns, r \in OcSessions : EndComes(t, r)' => EndComes(t, r) \/ (t = h /\ r = s)
  BY <1>4, <1>8 DEF EndComes
<1>11. Prompted(h, s)
  BY <1>2 DEF Prompted, q
<1> QED BY <1>9, <1>10, <1>11 DEF EndIsDue

\* A turn gets its session.
LEMMA GivenUpSettles ==
  ASSUME OcInv, NEW t \in OcTurns, SessionRestored(t) \/ SessionCreated(t)
  PROVE  GivenUpLeave' /\ StartsOpen' /\ EventsStayWithTheirTurn'
<1> USE OpencodeConstants
<1>a. OpencodeType /\ RoomTurns /\ TurnsAreRecorded /\ PendingInv /\ StartsOpen /\ GivenUpLeave
      /\ EventsStayWithTheirTurn
  BY DEF OcInv
<1>b. /\ oc \in RoomRecords /\ ocTurns \in [OcTurns -> TurnRecords] /\ opened \in [OcSessions -> SessionRecords]
      /\ memory \in MemoryRecords /\ routes \subseteq OcSessions
  BY <1>a DEF OpencodeType
<1>e. \A u \in OcTurns, s \in OcSessions : EndIsDue(u, s) => ocTurns[u].pc \in OcSent \cup {"done"} /\ opened[s].st # "none"
  BY <1>a DEF PendingInv, PromptsAreSent, EndIsDue
<1>1. events' = events /\ ocTurns[t].pc = "setup"
  BY DEF SessionRestored, SessionCreated
<1>2. \A s \in OcSessions : opened'[s].prompts = opened[s].prompts /\ opened'[s].aborted = opened[s].aborted
  <2>1. CASE opened' = opened
    BY <2>1
  <2>2. CASE \E x \in OcSessions : opened' = [opened EXCEPT ![x].st = "made"]
    BY <1>b, <2>2 DEF SessionRecords
  <2> QED BY <2>1, <2>2 DEF SessionRestored, SessionCreated
<1>3. \A u \in OcTurns, s \in OcSessions : EndIsDue(u, s)' => EndIsDue(u, s)
  BY <1>a, <1>1, <1>2, PendingFrom
<1>4. PICK n \in OcSessions :
        /\ \E l, r : HasSession(t, n, l, r)
        /\ \/ opened[n].st = "none" /\ memory' = memory
           \/ n = Restored(t) /\ memory' = [memory EXCEPT !.strayed = @ \/ (~Mine(t) /\ opened[Restored(t)].aborted)]
  <2>1. CASE SessionRestored(t)
    <3>1. Restored(t) \in OcSessions
      BY <2>1, <1>b DEF SessionRestored, Restored, Prior, TurnRecords, OcIds
    <3> QED BY <2>1, <3>1 DEF SessionRestored
  <2>2. CASE SessionCreated(t)
    BY <2>2 DEF SessionCreated
  <2> QED BY <2>1, <2>2
<1>5. /\ \A u \in OcTurns \ {t} : ocTurns'[u] = ocTurns[u]
      /\ ocTurns'[t].pc = "settled" /\ ocTurns'[t].life = ocTurns[t].life /\ ocTurns'[t].ended = ocTurns[t].ended
  BY <1>4, <1>b DEF HasSession, TurnRecords
<1>6. /\ oc'.in = oc.in /\ oc'.life = oc.life /\ oc'.force = oc.force
      /\ oc'.session = IF Mine(t) THEN n ELSE oc.session
  BY <1>4, <1>b DEF HasSession, RoomRecords
<1>7. routes' \subseteq routes \cup {n}
  BY <1>4 DEF HasSession
<1>8. /\ memory'.misled = memory.misled /\ memory'.unforced = memory.unforced
      /\ \/ opened[n].st = "none" /\ memory' = memory
         \/ n = Restored(t) /\ (memory'.strayed <=> memory.strayed \/ (~Mine(t) /\ opened[n].aborted))
  <2>1. CASE opened[n].st = "none" /\ memory' = memory
    BY <2>1
  <2>2. CASE n = Restored(t) /\ memory' = [memory EXCEPT !.strayed = @ \/ (~Mine(t) /\ opened[Restored(t)].aborted)]
    <3>1. memory'.misled = memory.misled /\ memory'.unforced = memory.unforced
      BY <1>b, <2>2 DEF MemoryRecords
    <3>2. memory'.strayed <=> memory.strayed \/ (~Mine(t) /\ opened[n].aborted)
      BY <1>b, <2>2 DEF MemoryRecords
    <3> QED BY <2>2, <3>1, <3>2
  <2> QED BY <1>4, <2>1, <2>2
<1>9. StartsOpen' /\ EventsStayWithTheirTurn'
  BY <1>a, <1>1, <1>5, <1>8 DEF StartsOpen, OcStarting, EventsStayWithTheirTurn
<1>10. ASSUME ~memory'.strayed, ~memory'.unforced,
              NEW u \in OcTurns, NEW s \in OcSessions, (Mine(u) /\ PromptDue(u, s) /\ GivenUp(u))'
       PROVE  LeftBehind(s)'
  <2>1. u # t
    BY <1>1, <1>3, <1>5, <1>10, <1>e DEF PromptDue, OcSent
  <2>2. Mine(u) /\ PromptDue(u, s) /\ GivenUp(u)
    BY <1>3, <1>5, <1>6, <1>10, <2>1 DEF Mine, PromptDue, GivenUp
  <2>3. LeftBehind(s)
    BY <1>a, <1>8, <1>10, <2>2 DEF GivenUpLeave
  <2>4. opened[s].st # "none"
    BY <1>a, <1>e, <2>2 DEF PromptDue, TurnsAreRecorded, OcLive
  <2>5. s # n
    BY <1>1, <1>8, <1>10, <2>3, <2>4 DEF LeftBehind
  <2>6. s \notin routes' /\ opened'[s].aborted
    BY <1>2, <1>7, <2>3, <2>5 DEF LeftBehind
  <2> QED BY <1>5, <1>6, <2>3, <2>5, <2>6, LeftBehindKept
<1> QED BY <1>9, <1>10 DEF GivenUpLeave

\* A prompt is taken, answered or refused.
LEMMA GivenUpPrompts ==
  ASSUME OcInv, NEW t \in OcTurns, PromptTaken(t) \/ PromptAnswered(t) \/ PromptFails(t)
  PROVE  GivenUpLeave' /\ StartsOpen' /\ EventsStayWithTheirTurn'
<1> USE OpencodeConstants
<1>a. OpencodeType /\ RoomTurns /\ TurnsAreRecorded /\ PendingInv /\ StartsOpen /\ GivenUpLeave
      /\ EventsStayWithTheirTurn
  BY DEF OcInv
<1>b. /\ oc \in RoomRecords /\ ocTurns \in [OcTurns -> TurnRecords] /\ opened \in [OcSessions -> SessionRecords]
      /\ memory \in MemoryRecords /\ routes \subseteq OcSessions
  BY <1>a DEF OpencodeType
<1>e. \A u \in OcTurns, s \in OcSessions : EndIsDue(u, s) => ocTurns[u].pc \in OcSent \cup {"done"} /\ opened[s].st # "none"
  BY <1>a DEF PendingInv, PromptsAreSent, EndIsDue
<1>1. CASE PromptTaken(t)
  <2> DEFINE s == ocTurns[t].session
  <2>1. /\ ocTurns[t].pc = "prompting" /\ oc' = oc /\ routes' = routes /\ events' = events
        /\ ocTurns' = [ocTurns EXCEPT ![t].pc = "taken"]
    BY <1>1 DEF PromptTaken
  <2>2. s \in OcSessions
    BY <1>a, <2>1 DEF TurnsAreRecorded, OcLive
  <2>3. \A r \in OcSessions : /\ opened'[r].aborted = opened[r].aborted
                              /\ opened'[r].prompts = IF r = s THEN Append(opened[s].prompts, t) ELSE opened[r].prompts
    BY <1>1, <1>b, <2>2 DEF PromptTaken, SessionRecords
  <2>4. /\ \A u \in OcTurns \ {t} : ocTurns'[u] = ocTurns[u]
        /\ ocTurns'[t].pc = "taken" /\ ocTurns'[t].life = ocTurns[t].life /\ ocTurns'[t].ended = ocTurns[t].ended
    BY <1>a, <2>1, PcFields
  <2>5. /\ memory'.misled = memory.misled /\ memory'.unforced = memory.unforced /\ memory'.strayed = memory.strayed
    BY <1>1, <1>b DEF PromptTaken, MemoryRecords
  <2>6. \A u \in OcTurns, r \in OcSessions : EndIsDue(u, r)' => EndIsDue(u, r) \/ (u = t /\ r = s)
    <3>1. OnceIn(opened[s].prompts) /\ opened[s].prompts \in Seq(OcTurns) /\ ~HasIn(opened[s].prompts, t)
      <4>1. ~Prompted(t, s)
        BY <1>e, <2>1, <2>2 DEF EndIsDue, OcSent
      <4> QED BY <1>a, <1>b, <2>2, <4>1 DEF PendingInv, QueuesOnce, SessionRecords, Prompted
    <3> HIDE DEF s
    <3>2. \A u : HasIn(Append(opened[s].prompts, t), u) <=> HasIn(opened[s].prompts, u) \/ u = t
      BY <3>1, QueuePushes
    <3>3. \A u \in OcTurns, r \in OcSessions : Prompted(u, r)' => Prompted(u, r) \/ (u = t /\ r = s)
      BY <2>3, <3>2 DEF Prompted
    <3>4. \A u \in OcTurns, r \in OcSessions : EndComes(u, r)' <=> EndComes(u, r)
      BY <2>1 DEF EndComes
    <3> QED BY <3>3, <3>4 DEF EndIsDue
  <2>7. \A u \in OcTurns, r \in OcSessions : (Mine(u) /\ PromptDue(u, r) /\ GivenUp(u))' => Mine(u) /\ PromptDue(u, r) /\ GivenUp(u)
    BY <2>1, <2>4, <2>6 DEF PromptDue, GivenUp, Mine
  <2>8. \A r \in OcSessions : LeftBehind(r) => LeftBehind(r)'
    BY <2>1, <2>3, <2>4 DEF LeftBehind, Restored, Prior, Mine
  <2>9. GivenUpLeave'
    BY <1>a, <2>5, <2>7, <2>8, GivenUpRests DEF GivenUpRest
  <2> QED BY <1>a, <2>4, <2>5, <2>9 DEF StartsOpen, EventsStayWithTheirTurn, OcStarting
<1>2. CASE PromptAnswered(t)
  <2>1. /\ ocTurns[t].pc = "taken" /\ routes' = routes /\ events' = events /\ opened' = opened
        /\ ocTurns' = [ocTurns EXCEPT ![t].pc = "running"]
    BY <1>2 DEF PromptAnswered
  <2>2. /\ oc'.in = oc.in /\ oc'.life = oc.life /\ oc'.session = oc.session
        /\ oc'.force <=> oc.force /\ ~Mine(t)
    BY <1>2, <1>b DEF PromptAnswered, RoomRecords
  <2>3. /\ memory'.misled = memory.misled /\ memory'.strayed = memory.strayed
        /\ memory'.unforced <=> memory.unforced \/ (Mine(t) /\ oc.force /\ opened[ocTurns[t].session].aborted)
    BY <1>2, <1>b DEF PromptAnswered, MemoryRecords
  <2>4. /\ \A u \in OcTurns \ {t} : ocTurns'[u] = ocTurns[u]
        /\ ocTurns'[t].pc = "running" /\ ocTurns'[t].life = ocTurns[t].life /\ ocTurns'[t].ended = ocTurns[t].ended
    BY <1>a, <2>1, PcFields
  <2>5. StartsOpen' /\ EventsStayWithTheirTurn'
    BY <1>a, <2>3, <2>4 DEF StartsOpen, EventsStayWithTheirTurn, OcStarting
  <2>6. \A u \in OcTurns, r \in OcSessions : EndIsDue(u, r)' => EndIsDue(u, r)
    BY <1>a, <2>1, PendingFrom
  <2>7. ASSUME ~memory'.strayed, ~memory'.unforced,
               NEW u \in OcTurns, NEW s \in OcSessions, (Mine(u) /\ PromptDue(u, s) /\ GivenUp(u))'
        PROVE  LeftBehind(s)'
    <3>1. Mine(u) /\ PromptDue(u, s) /\ GivenUp(u)
      BY <2>1, <2>2, <2>4, <2>6, <2>7 DEF Mine, PromptDue, GivenUp
    <3>2. LeftBehind(s)
      BY <1>a, <2>3, <2>7, <3>1 DEF GivenUpLeave
    <3>3. oc.session = s => ~Mine(t)
      <4> SUFFICES ASSUME oc.session = s, Mine(t) PROVE FALSE
        OBVIOUS
      <4>1. ocTurns[t].session = s
        BY <1>a, <2>1 DEF RoomTurns, SessionIsHeld, OcLive
      <4>2. oc.force /\ opened[s].aborted
        BY <3>2 DEF LeftBehind
      <4> QED BY <2>3, <2>7, <4>1, <4>2
    <3> QED BY <2>1, <2>2, <2>4, <3>2, <3>3, LeftBehindKept DEF LeftBehind
  <2> QED BY <2>5, <2>7 DEF GivenUpLeave
<1>3. CASE PromptFails(t)
  <2>1. /\ ocTurns[t].pc = "prompting" /\ routes' = routes /\ events' = events /\ opened' = opened
        /\ ocTurns' = Over(t) /\ TurnCleared(t) /\ memory' = Forfeits(t)
    BY <1>3 DEF PromptFails
  <2>2. /\ oc'.in = oc.in /\ oc'.life = oc.life /\ oc'.session = oc.session /\ oc'.force = oc.force
    BY <2>1, <1>b DEF TurnCleared, RoomRecords
  <2>3. /\ \A u \in OcTurns \ {t} : ocTurns'[u] = ocTurns[u]
        /\ ocTurns'[t].pc = "done" /\ ocTurns'[t].life = ocTurns[t].life
    BY <1>a, <2>1, OverFields
  <2>4. /\ memory'.misled = memory.misled /\ memory'.unforced = memory.unforced /\ memory'.strayed = memory.strayed
    BY <2>1, <1>b DEF Forfeits, MemoryRecords
  <2>5. \A u \in OcTurns, r \in OcSessions : EndIsDue(u, r)' => EndIsDue(u, r)
    BY <1>a, <2>1, PendingFrom
  <2>6. \A u \in OcTurns, s \in OcSessions : (Mine(u) /\ PromptDue(u, s) /\ GivenUp(u))' => Mine(u) /\ PromptDue(u, s) /\ GivenUp(u)
    BY <1>e, <2>1, <2>2, <2>3, <2>5 DEF PromptDue, GivenUp, Mine, OcSent
  <2>7. \A s \in OcSessions : LeftBehind(s) => LeftBehind(s)'
    BY <2>1, <2>2, <2>3 DEF LeftBehind, Restored, Prior, Mine
  <2>8. GivenUpLeave'
    BY <1>a, <2>4, <2>6, <2>7, GivenUpRests DEF GivenUpRest
  <2> QED BY <1>a, <2>3, <2>4, <2>8 DEF StartsOpen, EventsStayWithTheirTurn, OcStarting
<1> QED BY <1>1, <1>2, <1>3

\* A turn runs out of time, or is over.
LEMMA GivenUpEnds ==
  ASSUME OcInv, NEW t \in OcTurns, WatchdogFires(t) \/ TurnCloses(t)
  PROVE  GivenUpLeave' /\ StartsOpen' /\ EventsStayWithTheirTurn'
<1> USE OpencodeConstants
<1>a. OpencodeType /\ RoomTurns /\ TurnsAreRecorded /\ PendingInv /\ StartsOpen /\ GivenUpLeave
      /\ EventsStayWithTheirTurn
  BY DEF OcInv
<1>b. /\ oc \in RoomRecords /\ ocTurns \in [OcTurns -> TurnRecords] /\ opened \in [OcSessions -> SessionRecords]
      /\ memory \in MemoryRecords /\ routes \subseteq OcSessions
  BY <1>a DEF OpencodeType
<1>c. memory' = memory /\ events' = events
  BY DEF WatchdogFires, TurnCloses
<1>d. EventsStayWithTheirTurn'
  BY <1>a, <1>c DEF EventsStayWithTheirTurn
<1>1. CASE WatchdogFires(t)
  <2> DEFINE n == ocTurns[t].session
  <2>1. ocTurns[t].pc = "running" /\ Abandons(n) /\ ocTurns' = [ocTurns EXCEPT ![t].pc = "reporting"]
    BY <1>1 DEF WatchdogFires
  <2>2. n \in OcSessions
    BY <1>a, <2>1 DEF TurnsAreRecorded, OcLive
  <2>3. /\ routes' = routes \ {n}
        /\ \A s \in OcSessions : opened'[s].prompts = opened[s].prompts /\ (opened'[s].aborted <=> opened[s].aborted \/ s = n)
    BY <1>b, <2>1, <2>2 DEF Abandons, SessionRecords
  <2>4. /\ oc'.in = oc.in /\ oc'.life = oc.life /\ oc'.session = oc.session
        /\ oc'.force <=> oc.force \/ (Mine(t) /\ oc.session # NoOc)
    BY <1>1, <1>b DEF WatchdogFires, ForcesFresh, RoomRecords
  <2>5. /\ \A u \in OcTurns \ {t} : ocTurns'[u] = ocTurns[u]
        /\ ocTurns'[t].pc = "reporting" /\ ocTurns'[t].life = ocTurns[t].life /\ ocTurns'[t].ended = ocTurns[t].ended
    BY <1>a, <2>1, PcFields
  <2>6. \A u \in OcTurns, r \in OcSessions : EndIsDue(u, r)' => EndIsDue(u, r)
    BY <1>a, <1>c, <2>3, PendingFrom
  <2> HIDE DEF n
  <2>7. ASSUME ~memory.strayed, ~memory.unforced,
               NEW u \in OcTurns, NEW s \in OcSessions, (Mine(u) /\ PromptDue(u, s) /\ GivenUp(u))'
        PROVE  LeftBehind(s)'
    <3>1. Mine(u) /\ PromptDue(u, s) /\ (u # t => GivenUp(u))
      BY <2>4, <2>5, <2>6, <2>7 DEF Mine, PromptDue, GivenUp
    <3>2. CASE u # t
      <4>1. LeftBehind(s)
        BY <1>a, <2>7, <3>1, <3>2 DEF GivenUpLeave
      <4> QED BY <2>3, <2>4, <2>5, <4>1, LeftBehindKept DEF LeftBehind
    <3>3. CASE u = t
      <4>1. /\ oc.turn = t /\ oc.session = s /\ oc.session # NoOc
            /\ \A v \in OcTurns : Mine(v) => ocTurns[v].pc # "setup"
        BY <1>a, <2>1, <3>1, <3>3, LeavesSession DEF OcLive
      <4>2. s = n
        BY <1>a, <2>1, <3>1, <3>3, <4>1 DEF n, RoomTurns, SessionIsHeld, OcLive
      <4>3. s \notin routes' /\ opened'[s].aborted /\ oc'.force
        BY <2>3, <2>4, <3>1, <3>3, <4>1, <4>2
      <4>4. \A v \in OcTurns : Mine(v)' => ocTurns'[v].pc # "setup"
        BY <2>4, <2>5, <4>1 DEF Mine
      <4> QED BY <4>3, <4>4 DEF LeftBehind
    <3> QED BY <3>2, <3>3
  <2>8. StartsOpen'
    BY <1>a, <2>5 DEF StartsOpen, OcStarting
  <2> QED BY <1>c, <1>d, <2>7, <2>8 DEF GivenUpLeave
<1>2. CASE TurnCloses(t)
  <2>1. /\ ocTurns[t].pc = "reporting" \/ (ocTurns[t].pc = "running" /\ ocTurns[t].ended)
        /\ routes' = routes /\ opened' = opened /\ ocTurns' = Over(t) /\ TurnCleared(t)
    BY <1>2 DEF TurnCloses
  <2>2. /\ oc'.in = oc.in /\ oc'.life = oc.life /\ oc'.session = oc.session /\ oc'.force = oc.force
    BY <2>1, <1>b DEF TurnCleared, RoomRecords
  <2>3. /\ \A u \in OcTurns \ {t} : ocTurns'[u] = ocTurns[u]
        /\ ocTurns'[t].pc = "done" /\ ocTurns'[t].life = ocTurns[t].life
    BY <1>a, <2>1, OverFields
  <2>4. \A u \in OcTurns, r \in OcSessions : EndIsDue(u, r)' => EndIsDue(u, r)
    BY <1>a, <1>c, <2>1, PendingFrom
  <2>5. \A u \in OcTurns, s \in OcSessions : (Mine(u) /\ PromptDue(u, s) /\ GivenUp(u))' => Mine(u) /\ PromptDue(u, s) /\ GivenUp(u)
    BY <2>1, <2>2, <2>3, <2>4 DEF PromptDue, GivenUp, Mine
  <2>6. \A s \in OcSessions : LeftBehind(s) => LeftBehind(s)'
    BY <2>1, <2>2, <2>3 DEF LeftBehind, Restored, Prior, Mine
  <2>7. GivenUpLeave'
    BY <1>a, <1>c, <2>5, <2>6, GivenUpRests DEF GivenUpRest
  <2> QED BY <1>a, <1>d, <2>3, <2>7 DEF StartsOpen, OcStarting
<1> QED BY <1>1, <1>2

\* A failed interaction gives the room's turn up.
LEMMA GivenUpInteracts ==
  ASSUME OcInv, InteractionFails(oc.turn), events' = events, memory' = memory
  PROVE  GivenUpLeave' /\ StartsOpen' /\ EventsStayWithTheirTurn'
<1> USE OpencodeConstants
<1>a. OpencodeType /\ RoomTurns /\ TurnsAreRecorded /\ PendingInv /\ StartsOpen /\ GivenUpLeave
      /\ EventsStayWithTheirTurn
  BY DEF OcInv
<1>b. oc.turn \in OcTurns \cup {NoOc}
  BY <1>a DEF OpencodeType, RoomRecords
<1>1. /\ oc'.in = oc.in /\ oc'.life = oc.life /\ oc'.session = oc.session
      /\ oc'.force <=> oc.force \/ oc.session # NoOc
      /\ routes' = routes \ {oc.session}
      /\ \A s \in OcSessions : opened'[s].prompts = opened[s].prompts
                               /\ (opened'[s].aborted <=> opened[s].aborted \/ s = oc.session)
  BY <1>a, <1>b, InteractionFields
<1>2. ocTurns' = EndsTurn(ocTurns, oc.turn)
  BY DEF InteractionFails
<1>3. \A u \in OcTurns :
        /\ ocTurns'[u].pc = ocTurns[u].pc /\ ocTurns'[u].life = ocTurns[u].life
        /\ ocTurns'[u].session = ocTurns[u].session /\ ocTurns'[u].held = ocTurns[u].held
        /\ ocTurns'[u].named = ocTurns[u].named /\ ocTurns'[u].fresh = ocTurns[u].fresh
        /\ ocTurns'[u].ended <=> ocTurns[u].ended \/ u = oc.turn
  BY <1>a, <1>b, <1>2, EndsTurnFields
<1>4. oc.turn # NoOc => Mine(oc.turn) /\ ocTurns[oc.turn].pc \in OcLive
  BY <1>a DEF RoomTurns, TurnIsLive
<1>5. \A u \in OcTurns, r \in OcSessions : EndIsDue(u, r)' => EndIsDue(u, r)
  BY <1>a, <1>1, PendingFrom
<1>6. ASSUME ~memory.strayed, ~memory.unforced,
             NEW u \in OcTurns, NEW s \in OcSessions, (Mine(u) /\ PromptDue(u, s) /\ GivenUp(u))'
      PROVE  LeftBehind(s)'
  <2>1. Mine(u) /\ PromptDue(u, s) /\ (u # oc.turn => GivenUp(u))
    BY <1>1, <1>3, <1>5, <1>6 DEF Mine, PromptDue, GivenUp
  <2>2. CASE u # oc.turn
    <3>1. LeftBehind(s)
      BY <1>a, <1>6, <2>1, <2>2 DEF GivenUpLeave
    <3>2. s \notin routes' /\ opened'[s].aborted /\ (oc.force => oc'.force)
      BY <1>1, <3>1 DEF LeftBehind
    <3> QED BY <1>1, <1>3, <3>1, <3>2, LeftBehindKept
  <2>3. CASE u = oc.turn
    <3>1. /\ oc.session = s /\ oc.session # NoOc
          /\ \A v \in OcTurns : Mine(v) => ocTurns[v].pc # "setup"
      BY <1>a, <1>4, <2>1, <2>3, LeavesSession
    <3>2. s \notin routes' /\ opened'[s].aborted /\ oc'.force
      BY <1>1, <3>1
    <3>3. \A v \in OcTurns : Mine(v)' => ocTurns'[v].pc # "setup"
      BY <1>1, <1>3, <3>1 DEF Mine
    <3> QED BY <3>2, <3>3 DEF LeftBehind
  <2> QED BY <2>2, <2>3
<1>7. StartsOpen'
  BY <1>a, <1>3, <1>4 DEF StartsOpen, OcStarting, OcLive
<1>8. EventsStayWithTheirTurn'
  BY <1>a DEF EventsStayWithTheirTurn
<1> QED BY <1>6, <1>7, <1>8 DEF GivenUpLeave

\* An end is heard, and ends the room's turn.
LEMMA GivenUpHears ==
  ASSUME OcInv, EndHeard
  PROVE  GivenUpLeave' /\ StartsOpen' /\ EventsStayWithTheirTurn'
<1> USE OpencodeConstants
<1>a. OpencodeType /\ RoomTurns /\ TurnsAreRecorded /\ PendingInv /\ StartsOpen /\ GivenUpLeave
      /\ EventsStayWithTheirTurn
  BY DEF OcInv
<1>b. events \in Seq(EventRecords) /\ memory \in MemoryRecords /\ oc.turn \in OcTurns \cup {NoOc}
  BY <1>a DEF OpencodeType, RoomRecords
<1>1. /\ events # <<>> /\ Head(events).is = "end" /\ events' = Tail(events)
      /\ oc' = oc /\ routes' = routes /\ opened' = opened
  BY DEF EndHeard, Heard
<1>2. PICK t \in OcTurns, s \in OcSessions : Head(events).of = t /\ Head(events).session = s
  <2>1. Head(events) \in EventRecords
    BY <1>1, <1>b
  <2> QED BY <1>1, <2>1 DEF EventRecords
<1>3. EndComes(t, s)
  BY <1>a, <1>b, <1>1, <1>2, EventsPop DEF EndComes, PendingInv
<1>4. \A r \in OcSessions : ~EndComes(t, r)'
  <2>1. \A u, r : EndIn(Tail(events), u, r) => u # t
    BY <1>a, <1>b, <1>1, <1>2, EventsPop DEF PendingInv
  <2> QED BY <1>1, <2>1 DEF EndComes
<1>5. \A u \in OcTurns, r \in OcSessions : EndIsDue(u, r)' => EndIsDue(u, r)
  BY <1>a, <1>1, PendingFrom
<1>6. ocTurns[t].pc \in OcSent \cup {"done"} /\ \A r \in OcSessions : ~Prompted(t, r)
  BY <1>a, <1>2, <1>3 DEF PendingInv, PromptsAreSent, PromptsOnce
<1> DEFINE ends == Routed(Head(events)) /\ oc.turn # NoOc
<1>7. CASE ~ends
  <2>m. ocTurns' = ocTurns /\ memory' = memory
    BY <1>7 DEF EndHeard
  <2>1. \A r \in OcSessions : LeftBehind(r) => LeftBehind(r)'
    BY <1>1, <2>m DEF LeftBehind, Mine, Restored, Prior
  <2>2. \A u \in OcTurns, r \in OcSessions :
          (Mine(u) /\ PromptDue(u, r) /\ GivenUp(u))' => Mine(u) /\ PromptDue(u, r) /\ GivenUp(u)
    BY <1>1, <1>5, <2>m DEF Mine, PromptDue, GivenUp
  <2>3. GivenUpLeave'
    BY <1>a, <2>m, <2>1, <2>2, GivenUpRests DEF GivenUpRest
  <2> QED BY <1>a, <2>m, <2>3 DEF StartsOpen, EventsStayWithTheirTurn
<1>8. CASE ends
  <2>e. /\ oc.turn # NoOc /\ s \in routes /\ ocTurns' = EndsTurn(ocTurns, oc.turn)
        /\ memory' = [memory EXCEPT !.strayed = @ \/ ~Mine(t),
                                    !.misled = @ \/ (t # oc.turn /\ Mine(t) /\ ~memory.strayed)]
    BY <1>2, <1>8 DEF EndHeard, Routed
  <2>1. \A u \in OcTurns :
          /\ ocTurns'[u].pc = ocTurns[u].pc /\ ocTurns'[u].life = ocTurns[u].life
          /\ ocTurns'[u].session = ocTurns[u].session /\ ocTurns'[u].held = ocTurns[u].held
          /\ ocTurns'[u].named = ocTurns[u].named /\ ocTurns'[u].fresh = ocTurns[u].fresh
          /\ ocTurns'[u].ended <=> ocTurns[u].ended \/ u = oc.turn
    BY <1>a, <1>b, <2>e, EndsTurnFields
  <2>2. Mine(oc.turn) /\ ocTurns[oc.turn].pc \in OcLive
    BY <1>a, <2>e DEF RoomTurns, TurnIsLive
  <2>3. StartsOpen'
    BY <1>a, <2>1, <2>2 DEF StartsOpen, OcStarting, OcLive
  <2>4. /\ memory'.unforced = memory.unforced /\ (memory'.strayed <=> memory.strayed \/ ~Mine(t))
        /\ memory'.misled <=> memory.misled \/ (t # oc.turn /\ Mine(t) /\ ~memory.strayed)
    BY <1>b, <2>e DEF MemoryRecords
  <2>5. ASSUME ~memory.strayed, ~memory.unforced, Mine(t) PROVE t = oc.turn
    <3> SUFFICES ASSUME t # oc.turn PROVE FALSE
      OBVIOUS
    <3>1. ocTurns[t].pc = "done"
      BY <1>a, <1>2, <1>6, <2>5 DEF RoomTurns, LiveIsTurn, OcSent, OcLive
    <3>2. PromptDue(t, s) /\ GivenUp(t)
      BY <1>3, <3>1 DEF PromptDue, EndIsDue, GivenUp
    <3>3. LeftBehind(s)
      BY <1>a, <1>2, <2>5, <3>2 DEF GivenUpLeave
    <3> QED BY <2>e, <3>3 DEF LeftBehind
  <2>6. EventsStayWithTheirTurn'
    BY <1>a, <2>4, <2>5 DEF EventsStayWithTheirTurn
  <2>7. ASSUME ~memory'.strayed, ~memory'.unforced,
               NEW u \in OcTurns, NEW r \in OcSessions, (Mine(u) /\ PromptDue(u, r) /\ GivenUp(u))'
        PROVE  LeftBehind(r)'
    <3>1. t = oc.turn
      BY <2>4, <2>5, <2>7
    <3>2. u # t
      <4>1. ~PromptDue(t, r)'
        <5>1. ~Prompted(t, r)'
          BY <1>1, <1>6 DEF Prompted
        <5> QED BY <1>4, <1>6, <2>1, <5>1 DEF PromptDue, EndIsDue, OcSent
      <4> QED BY <2>7, <4>1
    <3>3. Mine(u) /\ PromptDue(u, r) /\ GivenUp(u)
      BY <1>1, <1>5, <2>1, <2>7, <3>1, <3>2 DEF Mine, PromptDue, GivenUp
    <3>4. LeftBehind(r)
      BY <1>a, <2>4, <2>7, <3>3 DEF GivenUpLeave
    <3>5. r \notin routes' /\ opened'[r].aborted
      BY <1>1, <3>4 DEF LeftBehind
    <3> QED BY <1>1, <2>1, <3>4, <3>5, LeftBehindKept
  <2> QED BY <2>3, <2>6, <2>7 DEF GivenUpLeave
<1> QED BY <1>7, <1>8

\* The steps of a turn that is not given up by them.
LEMMA GivenUpKept ==
  OcInv /\ [OpencodeNext]_ocVars => GivenUpLeave' /\ StartsOpen' /\ EventsStayWithTheirTurn'
<1> SUFFICES ASSUME OcInv, [OpencodeNext]_ocVars PROVE GivenUpLeave' /\ StartsOpen' /\ EventsStayWithTheirTurn'
  OBVIOUS
<1> USE OpencodeConstants
<1>a. OpencodeType /\ RoomTurns /\ TurnsAreRecorded /\ PendingInv /\ StartsOpen /\ GivenUpLeave
      /\ EventsStayWithTheirTurn
  BY DEF OcInv
<1>b. /\ oc \in RoomRecords /\ ocTurns \in [OcTurns -> TurnRecords] /\ opened \in [OcSessions -> SessionRecords]
      /\ memory \in MemoryRecords /\ routes \subseteq OcSessions
  BY <1>a DEF OpencodeType
<1>c. oc.turn \in OcTurns \cup {NoOc} /\ oc.session \in OcIds
  BY <1>b DEF RoomRecords
<1>d. oc.turn # NoOc => Mine(oc.turn) /\ ocTurns[oc.turn].pc \in OcLive
  BY <1>a DEF RoomTurns, TurnIsLive
<1>e. \A t \in OcTurns, s \in OcSessions : EndIsDue(t, s) => ocTurns[t].pc \in OcSent \cup {"done"} /\ opened[s].st # "none"
  BY <1>a DEF PendingInv, PromptsAreSent, EndIsDue
<1>1. ASSUME memory' = memory PROVE EventsStayWithTheirTurn'
  BY <1>a, <1>1 DEF EventsStayWithTheirTurn
\* What changes neither the room, nor its turns, nor what it has given up.
<1>2. ASSUME oc' = oc, routes' = routes, ocTurns' = ocTurns, memory' = memory,
             \A s \in OcSessions : opened'[s].aborted = opened[s].aborted,
             \A t \in OcTurns, s \in OcSessions : EndIsDue(t, s)' => EndIsDue(t, s)
      PROVE  GivenUpLeave' /\ StartsOpen' /\ EventsStayWithTheirTurn'
  <2>1. \A s \in OcSessions : LeftBehind(s) => LeftBehind(s)'
    BY <1>2 DEF LeftBehind, Mine, Restored, Prior
  <2>2. \A t \in OcTurns, s \in OcSessions :
          (Mine(t) /\ PromptDue(t, s) /\ GivenUp(t))' => Mine(t) /\ PromptDue(t, s) /\ GivenUp(t)
    BY <1>2 DEF Mine, PromptDue, GivenUp
  <2>3. GivenUpLeave'
    BY <1>2, <1>a, <2>1, <2>2, GivenUpRests DEF GivenUpRest
  <2>4. StartsOpen'
    BY <1>2, <1>a DEF StartsOpen
  <2> QED BY <1>1, <1>2, <2>3, <2>4
<1>3. CASE UNCHANGED ocVars
  <2>1. \A t \in OcTurns, s \in OcSessions : EndIsDue(t, s)' => EndIsDue(t, s)
    BY <1>3, <1>a, PendingFrom DEF ocVars
  <2> QED BY <1>2, <1>3, <2>1 DEF ocVars
<1>4. CASE \/ \E a \in Asks : AskOpens(a) \/ AskSettles(a) \/ RoomReplies(a) \/ AskExpires(a) \/ ReplyLands(a)
           \/ EventsLost \/ AskHeard \/ SettledHeard \/ AskPosted
  <2>1. oc' = oc /\ routes' = routes /\ ocTurns' = ocTurns /\ memory' = memory /\ opened' = opened
    <3>1. ASSUME NEW a \in Asks, AskOpens(a) \/ AskSettles(a) \/ RoomReplies(a) \/ AskExpires(a) \/ ReplyLands(a)
          PROVE  oc' = oc /\ routes' = routes /\ ocTurns' = ocTurns /\ memory' = memory /\ opened' = opened
      BY <3>1 DEF AskOpens, AskSettles, RoomReplies, AskExpires, Claims, ReplyLands
    <3>2. ASSUME EventsLost \/ AskHeard \/ SettledHeard \/ AskPosted
          PROVE  oc' = oc /\ routes' = routes /\ ocTurns' = ocTurns /\ memory' = memory /\ opened' = opened
      <4>1. CASE EventsLost
        BY <4>1 DEF EventsLost
      <4>2. CASE AskHeard
        BY <4>2 DEF AskHeard
      <4>3. CASE SettledHeard
        BY <4>3 DEF SettledHeard
      <4>4. CASE AskPosted
        BY <4>4 DEF AskPosted
      <4> QED BY <3>2, <4>1, <4>2, <4>3, <4>4
    <3> QED BY <1>4, <3>1, <3>2
  <2>2. \/ events' = events \/ events' = <<>> \/ (events # <<>> /\ events' = Tail(events))
        \/ \E e \in EventRecords : e.is # "end" /\ events' = Append(events, e)
    <3>1. ASSUME NEW a \in Asks, AskOpens(a) \/ AskSettles(a)
          PROVE  \E e \in EventRecords : e.is # "end" /\ events' = Append(events, e)
      <4>1. asks[a].session \in OcIds
        BY <1>a DEF OpencodeType, AskRecords
      <4>2. PICK k \in {"ask", "settled"}, x \in OcIds : events' = Append(events, [is |-> k, session |-> x, of |-> a])
        BY <3>1, <4>1 DEF AskOpens, AskSettles, OcIds
      <4>3. [is |-> k, session |-> x, of |-> a] \in EventRecords
        BY DEF EventRecords
      <4> QED BY <4>2, <4>3
    <3>2. ASSUME NEW a \in Asks, RoomReplies(a) \/ AskExpires(a) \/ ReplyLands(a) PROVE events' = events
      BY <3>2 DEF RoomReplies, AskExpires, Claims, ReplyLands
    <3>3. ASSUME EventsLost \/ AskHeard \/ SettledHeard \/ AskPosted
          PROVE  events' = events \/ events' = <<>> \/ (events # <<>> /\ events' = Tail(events))
      <4>1. CASE EventsLost
        BY <4>1 DEF EventsLost
      <4>2. CASE AskHeard
        BY <4>2 DEF AskHeard, Heard
      <4>3. CASE SettledHeard
        BY <4>3 DEF SettledHeard, Heard
      <4>4. CASE AskPosted
        BY <4>4 DEF AskPosted
      <4> QED BY <3>3, <4>1, <4>2, <4>3, <4>4
    <3> QED BY <1>4, <3>1, <3>2, <3>3
  <2>3. \A t \in OcTurns, s \in OcSessions : EndIsDue(t, s)' => EndIsDue(t, s)
    BY <1>a, <2>1, <2>2, PendingFrom
  <2> QED BY <1>2, <2>1, <2>3
<1>5. ASSUME NEW s \in OcSessions, SessionGoes(s) PROVE GivenUpLeave' /\ StartsOpen' /\ EventsStayWithTheirTurn'
  <2>1. oc' = oc /\ routes' = routes /\ ocTurns' = ocTurns /\ memory' = memory /\ events' = events
    BY <1>5 DEF SessionGoes
  <2>2. \A r \in OcSessions : opened'[r].aborted = opened[r].aborted /\ opened'[r].prompts = opened[r].prompts
    BY <1>5, <1>b DEF SessionGoes, SessionRecords
  <2>3. \A t \in OcTurns, r \in OcSessions : EndIsDue(t, r)' => EndIsDue(t, r)
    BY <1>a, <2>1, <2>2, PendingFrom
  <2> QED BY <1>2, <2>1, <2>2, <2>3
<1>6. ASSUME NEW s \in OcSessions, PromptEnds(s) PROVE GivenUpLeave' /\ StartsOpen' /\ EventsStayWithTheirTurn'
  <2>1. oc' = oc /\ routes' = routes /\ ocTurns' = ocTurns /\ memory' = memory
    BY <1>6 DEF PromptEnds
  <2>2. \A r \in OcSessions : opened'[r].aborted = opened[r].aborted
    BY <1>6, <1>b DEF PromptEnds, SessionRecords
  <2>3. \A t \in OcTurns, r \in OcSessions : EndIsDue(t, r)' => EndIsDue(t, r)
    BY <1>6, <1>a, PromptEndsPending
  <2> QED BY <1>2, <2>1, <2>2, <2>3
<1>7. ASSUME NEW t \in OcTurns, MessageComes(t) PROVE GivenUpLeave' /\ StartsOpen' /\ EventsStayWithTheirTurn'
  <2>1. ocTurns[t].pc = "none" /\ opened' = opened /\ events' = events /\ routes' = routes
    BY <1>7 DEF MessageComes, FirstUnsent
  <2>2. /\ \A u \in OcTurns \ {t} : ocTurns'[u] = ocTurns[u]
        /\ ocTurns'[t].pc = "setup" /\ ocTurns'[t].life = oc'.life /\ ~ocTurns'[t].ended
        /\ ocTurns'[t].held = oc'.session /\ ocTurns'[t].fresh = oc'.force
        /\ ocTurns'[t].named = IF oc.in THEN NoOc ELSE oc.named
    BY <1>7, <1>b DEF MessageComes, NoOcTurn
  <2>3. /\ memory'.misled = memory.misled /\ memory'.unforced = memory.unforced /\ memory'.strayed = memory.strayed
    BY <1>7, <1>b DEF MessageComes, MemoryRecords
  <2>4. StartsOpen' /\ EventsStayWithTheirTurn'
    BY <1>a, <2>2, <2>3 DEF StartsOpen, EventsStayWithTheirTurn
  <2>5. \A u \in OcTurns, s \in OcSessions : EndIsDue(u, s)' => EndIsDue(u, s)
    BY <1>a, <2>1, PendingFrom
  <2>6. \A u \in OcTurns, s \in OcSessions : (PromptDue(u, s) /\ GivenUp(u))' => u # t /\ PromptDue(u, s) /\ GivenUp(u)
    BY <1>e, <2>1, <2>2, <2>5 DEF PromptDue, GivenUp, OcSent
  <2>7. CASE oc.in
    <3>1. /\ oc'.in /\ oc'.life = oc.life /\ oc'.session = oc.session /\ oc'.force = oc.force
      <4>1. oc' = [oc EXCEPT !.starting = TRUE]
        BY <1>7, <2>7 DEF MessageComes
      <4> QED BY <4>1, <1>b, <2>7 DEF RoomRecords
    <3>2. \A u \in OcTurns : u # t => (Mine(u)' <=> Mine(u))
      BY <2>2, <2>7, <3>1 DEF Mine
    <3>3. ASSUME NEW s \in OcSessions, LeftBehind(s) PROVE LeftBehind(s)'
      <4>1. ASSUME NEW u \in OcTurns, Mine(u)', ocTurns'[u].pc = "setup" PROVE Restored(u)' # s
        <5>1. CASE u = t
          BY <2>2, <2>7, <3>1, <3>3, <5>1 DEF LeftBehind, Restored, Prior
        <5>2. CASE u # t
          <6>1. Mine(u) /\ ocTurns'[u] = ocTurns[u]
            BY <2>2, <3>2, <4>1, <5>2
          <6> QED BY <3>3, <4>1, <6>1 DEF LeftBehind, Restored, Prior
        <5> QED BY <5>1, <5>2
      <4> QED BY <2>1, <3>1, <3>3, <4>1 DEF LeftBehind
    <3> QED BY <1>a, <2>3, <2>4, <2>6, <3>2, <3>3, GivenUpRests DEF GivenUpRest
  <2>8. CASE ~oc.in
    <3>1. oc'.life = oc.life + 1 /\ oc.life \in Nat
      <4>1. oc' = [oc EXCEPT !.in = TRUE, !.life = @ + 1, !.session = NoOc, !.starting = TRUE, !.force = FALSE]
        BY <1>7, <2>8 DEF MessageComes
      <4> QED BY <4>1, <1>b DEF RoomRecords
    <3>2. \A u \in OcTurns : u # t => ~Mine(u)'
      <4>1. \A u \in OcTurns : ocTurns[u].life \in Nat /\ ocTurns[u].life <= oc.life
        BY <1>a, <1>b DEF TurnsAreRecorded, TurnRecords
      <4> QED BY <2>2, <3>1, <4>1 DEF Mine
    <3> QED BY <2>4, <2>6, <3>2 DEF GivenUpLeave
  <2> QED BY <2>7, <2>8
<1>8. ASSUME NEW t \in OcTurns, SessionRestored(t) \/ SessionCreated(t)
      PROVE  GivenUpLeave' /\ StartsOpen' /\ EventsStayWithTheirTurn'
  BY <1>8, <1>a, GivenUpSettles DEF OcInv
<1>9. ASSUME NEW t \in OcTurns, SetupFails(t) PROVE GivenUpLeave' /\ StartsOpen' /\ EventsStayWithTheirTurn'
  <2>1. /\ oc'.in = oc.in /\ oc'.life = oc.life /\ oc'.session = oc.session /\ oc'.force = oc.force
    BY <1>9, <1>b DEF SetupFails, RoomRecords
  <2>2. /\ ocTurns[t].pc \in OcStarting /\ opened' = opened /\ routes' = routes /\ events' = events /\ ocTurns' = Over(t)
        /\ memory' = Forfeits(t)
    BY <1>9 DEF SetupFails, OcStarting
  <2>3. /\ \A u \in OcTurns \ {t} : ocTurns'[u] = ocTurns[u]
        /\ ocTurns'[t].pc = "done" /\ ocTurns'[t].life = ocTurns[t].life
    BY <1>a, <2>2, OverFields
  <2>4. /\ memory'.misled = memory.misled /\ memory'.unforced = memory.unforced /\ memory'.strayed = memory.strayed
    BY <2>2, <1>b DEF Forfeits, MemoryRecords
  <2>5. \A u \in OcTurns, s \in OcSessions : EndIsDue(u, s)' => EndIsDue(u, s)
    BY <1>a, <2>2, PendingFrom
  <2>6. \A u \in OcTurns, s \in OcSessions : (Mine(u) /\ PromptDue(u, s) /\ GivenUp(u))' => Mine(u) /\ PromptDue(u, s) /\ GivenUp(u)
    BY <1>e, <2>1, <2>2, <2>3, <2>5 DEF PromptDue, GivenUp, Mine, OcStarting, OcSent
  <2>7. \A s \in OcSessions : LeftBehind(s) => LeftBehind(s)'
    BY <2>1, <2>2, <2>3 DEF LeftBehind, Restored, Prior, Mine
  <2>8. GivenUpLeave'
    BY <1>a, <2>4, <2>6, <2>7, GivenUpRests DEF GivenUpRest
  <2> QED BY <1>a, <2>3, <2>4, <2>8 DEF StartsOpen, EventsStayWithTheirTurn, OcStarting
<1>10. ASSUME NEW t \in OcTurns, TurnStarts(t) PROVE GivenUpLeave' /\ StartsOpen' /\ EventsStayWithTheirTurn'
  <2>1. /\ oc'.in = oc.in /\ oc'.life = oc.life /\ oc'.session = oc.session /\ oc'.force = oc.force
    BY <1>10, <1>b DEF TurnStarts, RoomRecords
  <2>2. /\ ocTurns[t].pc = "settled" /\ opened' = opened /\ routes' = routes /\ events' = events /\ memory' = memory
        /\ ocTurns' = [ocTurns EXCEPT ![t].pc = "prompting"]
    BY <1>10 DEF TurnStarts
  <2>3. /\ \A u \in OcTurns \ {t} : ocTurns'[u] = ocTurns[u]
        /\ ocTurns'[t].pc = "prompting" /\ ocTurns'[t].life = ocTurns[t].life /\ ocTurns'[t].ended = ocTurns[t].ended
    BY <1>a, <2>2, PcFields
  <2>4. ~ocTurns[t].ended
    BY <1>a, <2>2 DEF StartsOpen, OcStarting
  <2>5. \A u \in OcTurns, s \in OcSessions : EndIsDue(u, s)' => EndIsDue(u, s)
    BY <1>a, <2>2, PendingFrom
  <2>6. \A u \in OcTurns, s \in OcSessions : (Mine(u) /\ PromptDue(u, s) /\ GivenUp(u))' => Mine(u) /\ PromptDue(u, s) /\ GivenUp(u)
    BY <2>1, <2>3, <2>4, <2>5 DEF PromptDue, GivenUp, Mine
  <2>7. \A s \in OcSessions : LeftBehind(s) => LeftBehind(s)'
    BY <2>1, <2>2, <2>3 DEF LeftBehind, Restored, Prior, Mine
  <2>8. GivenUpLeave'
    BY <1>a, <2>2, <2>6, <2>7, GivenUpRests DEF GivenUpRest
  <2>9. StartsOpen'
    BY <1>a, <2>3 DEF StartsOpen, OcStarting
  <2> QED BY <1>1, <2>2, <2>8, <2>9
<1>11. ASSUME NEW t \in OcTurns, PromptTaken(t) \/ PromptAnswered(t) \/ PromptFails(t)
       PROVE  GivenUpLeave' /\ StartsOpen' /\ EventsStayWithTheirTurn'
  BY <1>11, <1>a, GivenUpPrompts DEF OcInv
<1>12. ASSUME NEW t \in OcTurns, WatchdogFires(t) \/ TurnCloses(t)
       PROVE  GivenUpLeave' /\ StartsOpen' /\ EventsStayWithTheirTurn'
  BY <1>12, <1>a, GivenUpEnds DEF OcInv
<1>13. ASSUME \/ InteractionFails(oc.turn) \/ UNCHANGED <<oc, routes, ocTurns, opened>>,
              events' = events, memory' = memory
       PROVE  GivenUpLeave' /\ StartsOpen' /\ EventsStayWithTheirTurn'
  <2>1. CASE UNCHANGED <<oc, routes, ocTurns, opened>>
    <3>1. \A t \in OcTurns, s \in OcSessions : EndIsDue(t, s)' => EndIsDue(t, s)
      BY <1>13, <1>a, <2>1, PendingFrom
    <3> QED BY <1>2, <1>13, <2>1, <3>1
  <2> QED BY <1>13, <1>a, <2>1, GivenUpInteracts DEF OcInv
<1>14. ASSUME AskPostFails \/ \E a \in Asks : ReplyFails(a) PROVE GivenUpLeave' /\ StartsOpen' /\ EventsStayWithTheirTurn'
  BY <1>13, <1>14 DEF AskPostFails, ReplyFails
<1>15. CASE EndHeard
  BY <1>15, <1>a, GivenUpHears DEF OcInv
<1>16. CASE RoomLeft
  <2>1. ~oc'.in /\ ocTurns' = EndsTurn(ocTurns, oc.turn) /\ memory' = memory
    BY <1>16, <1>b DEF RoomLeft, RoomRecords
  <2>2. \A u \in OcTurns : ocTurns'[u].pc = ocTurns[u].pc /\ (ocTurns'[u].ended <=> ocTurns[u].ended \/ u = oc.turn)
    BY <1>a, <1>c, <2>1, EndsTurnFields
  <2>3. StartsOpen'
    BY <1>a, <1>d, <2>2 DEF StartsOpen, OcStarting, OcLive
  <2>4. GivenUpLeave'
    BY <2>1 DEF GivenUpLeave, Mine
  <2> QED BY <1>1, <2>1, <2>3, <2>4
<1> QED
  BY <1>3, <1>4, <1>5, <1>6, <1>7, <1>8, <1>9, <1>10, <1>11, <1>12, <1>14, <1>15, <1>16
  DEF OpencodeNext, TurnMoves, AskMoves, LoopMoves

LEMMA OcInvKept == OcInv /\ [OpencodeNext]_ocVars => OcInv'
BY OpencodeTypeKept, RoomTurnsKept, PendingKept, GivenUpKept DEF OcInv

LEMMA OcInvShows == OcInv => EventsStayWithTheirTurn
BY DEF OcInv

----------------------------------------------------------------------------
(* BandACPClient and ACPRoomAgent.runTurn.  Prompts of a room are serial,  *)
(* sessions only grow, and a client that is heard remembers which prompt   *)
(* shows each call of its session.                                         *)

StreamIds == PromptsHeld \cup {0}
ClientShape(cl) ==
  /\ DOMAIN cl = {"live", "session", "chunks", "retired", "inFlight", "owners", "waits"}
  /\ cl.live \in BOOLEAN /\ cl.session \in Int /\ cl.retired \in BOOLEAN /\ cl.inFlight \in StreamIds
  /\ cl.owners \in [ToolCalls -> StreamIds] /\ cl.waits \in [Requests -> StreamIds]
PromptShape(p) ==
  /\ DOMAIN p = {"client", "session", "phase", "open", "ended", "local", "waits", "shown", "events", "told",
                 "texts", "relayed", "replied"}
  /\ p.client \in Clients \cup {0} /\ p.session \in Int /\ p.phase \in {"absent", "prompting", "flushing", "over"}
  /\ p.open \subseteq ToolCalls /\ p.waits \subseteq Requests /\ p.shown \subseteq ToolCalls
StreamType ==
  /\ client = [g \in Clients |-> client[g]] /\ \A g \in Clients : ClientShape(client[g])
  /\ prompts = [t \in PromptsHeld |-> prompts[t]] /\ \A t \in PromptsHeld : PromptShape(prompts[t])

LiveAreHeard == \A g \in Clients : client[g].live <=> ~client[g].retired
InFlightPrompts ==
  \A g \in Clients, t \in PromptsHeld :
    client[g].inFlight = t <=> prompts[t].phase = "prompting" /\ prompts[t].client = g
PromptsInOrder == \A t, u \in PromptsHeld : u < t /\ prompts[t].phase # "absent" => prompts[u].phase = "over"
SessionsGrow ==
  \A t \in PromptsHeld :
    /\ prompts[t].phase = "absent" => prompts[t].client = 0 /\ prompts[t].shown = {}
    /\ prompts[t].phase # "absent" =>
         LET now == client[prompts[t].client].session IN
         /\ prompts[t].client \in Clients
         /\ 0 < prompts[t].session /\ (prompts[t].session <= now \/ prompts[t].session <= -now)
         /\ prompts[t].phase = "prompting" => prompts[t].session = now \/ prompts[t].session = -now
CallsAreOwned ==
  \A t \in PromptsHeld : prompts[t].phase # "absent" =>
    LET cl == client[prompts[t].client] IN
    \A c \in prompts[t].shown : prompts[t].session = cl.session /\ ~cl.retired => cl.owners[c] = t
StreamInv ==
  /\ StreamType /\ LiveAreHeard /\ InFlightPrompts /\ PromptsInOrder /\ SessionsGrow /\ CallsAreOwned
  /\ ActivityEndsWithItsPrompt

LEMMA StreamConstants == PromptsHeld \subseteq Nat /\ Clients \subseteq Nat /\ 0 \notin PromptsHeld /\ 0 \notin Clients
BY StreamAssumption DEF PromptsHeld, Clients

\* What the operations on a client, and on a prompt, do to what the invariant reads.
LEMMA ClientSteps ==
  ASSUME NEW cl, ClientShape(cl)
  PROVE  /\ ClientShape(Released(cl)) /\ Released(cl).inFlight = 0 /\ Released(cl).live = cl.live
         /\ Released(cl).session = cl.session /\ Released(cl).retired = cl.retired /\ Released(cl).owners = cl.owners
         /\ ClientShape(Taken(cl)) /\ Taken(cl).inFlight = cl.inFlight /\ Taken(cl).live = cl.live
         /\ Taken(cl).session = cl.session /\ Taken(cl).retired = cl.retired /\ Taken(cl).owners = cl.owners
         /\ ClientShape(Left(cl)) /\ Left(cl).inFlight = cl.inFlight /\ ~Left(cl).live
         /\ Left(cl).session = cl.session /\ Left(cl).retired = cl.retired /\ Left(cl).owners = cl.owners
         /\ ClientShape(PromptRetired(cl)) /\ PromptRetired(cl).inFlight = cl.inFlight
         /\ PromptRetired(cl).live = cl.live /\ PromptRetired(cl).session = cl.session /\ PromptRetired(cl).retired
         /\ ClientShape(PromptForgotten(cl)) /\ PromptForgotten(cl).inFlight = cl.inFlight
         /\ PromptForgotten(cl).live = cl.live /\ PromptForgotten(cl).session = -cl.session
         /\ PromptForgotten(cl).retired = cl.retired
<1> USE DEF ClientShape, StreamIds
<1>1. /\ ClientShape(Released(cl)) /\ Released(cl).inFlight = 0 /\ Released(cl).live = cl.live
      /\ Released(cl).session = cl.session /\ Released(cl).retired = cl.retired /\ Released(cl).owners = cl.owners
  BY DEF Released
<1>2. /\ ClientShape(Taken(cl)) /\ Taken(cl).inFlight = cl.inFlight /\ Taken(cl).live = cl.live
      /\ Taken(cl).session = cl.session /\ Taken(cl).retired = cl.retired /\ Taken(cl).owners = cl.owners
  BY DEF Taken
<1>3. /\ ClientShape(Left(cl)) /\ Left(cl).inFlight = cl.inFlight /\ ~Left(cl).live
      /\ Left(cl).session = cl.session /\ Left(cl).retired = cl.retired /\ Left(cl).owners = cl.owners
  BY DEF Left
<1>4. /\ ClientShape(PromptRetired(cl)) /\ PromptRetired(cl).inFlight = cl.inFlight
      /\ PromptRetired(cl).live = cl.live /\ PromptRetired(cl).session = cl.session /\ PromptRetired(cl).retired
  BY DEF PromptRetired
<1>5. /\ ClientShape(PromptForgotten(cl)) /\ PromptForgotten(cl).inFlight = cl.inFlight
      /\ PromptForgotten(cl).live = cl.live /\ PromptForgotten(cl).session = -cl.session
      /\ PromptForgotten(cl).retired = cl.retired
  BY DEF PromptForgotten
<1> HIDE DEF ClientShape
<1> QED BY <1>1, <1>2, <1>3, <1>4, <1>5

LEMMA PromptSteps ==
  ASSUME NEW p, PromptShape(p)
  PROVE  /\ PromptShape(Quiet(p)) /\ Quiet(p).open = {} /\ Quiet(p).waits = {} /\ Quiet(p).client = p.client
         /\ Quiet(p).session = p.session /\ Quiet(p).phase = p.phase /\ Quiet(p).shown = p.shown
<1> USE DEF PromptShape
<1>1. /\ PromptShape(Quiet(p)) /\ Quiet(p).open = {} /\ Quiet(p).waits = {} /\ Quiet(p).client = p.client
      /\ Quiet(p).session = p.session /\ Quiet(p).phase = p.phase /\ Quiet(p).shown = p.shown
  BY DEF Quiet
<1> HIDE DEF PromptShape
<1> QED BY <1>1

\* What a turn's prompt is once it is flushed, and what it is while its posts go out.
SameTurn(f, p) ==
  /\ PromptShape(f) /\ f.client = p.client /\ f.session = p.session /\ f.shown = p.shown
LEMMA FlushSteps ==
  ASSUME NEW p, NEW cl, PromptShape(p)
  PROVE  /\ SameTurn(Flushing(p, cl), p) /\ Flushing(p, cl).open = {} /\ Flushing(p, cl).waits = {}
         /\ Flushing(p, cl).phase = "flushing"
<1> DEFINE q == Quiet(p)
<1>1. PICK e, x, r : Flushing(p, cl) = [q EXCEPT !.phase = "flushing", !.events = e, !.texts = x, !.replied = r]
  BY Zenon DEF Flushing
<1> HIDE DEF q
<1>2. /\ PromptShape(q) /\ q.open = {} /\ q.waits = {} /\ q.client = p.client
      /\ q.session = p.session /\ q.shown = p.shown
  BY PromptSteps DEF q
<1>3. /\ PromptShape(Flushing(p, cl)) /\ Flushing(p, cl).open = {} /\ Flushing(p, cl).waits = {}
      /\ Flushing(p, cl).client = q.client /\ Flushing(p, cl).session = q.session /\ Flushing(p, cl).shown = q.shown
      /\ Flushing(p, cl).phase = "flushing"
  BY <1>1, <1>2 DEF PromptShape
<1> QED BY SMTT(40), <1>2, <1>3 DEF SameTurn

LEMMA ToldSteps ==
  ASSUME NEW p, NEW k, PromptShape(p)
  PROVE  SameTurn(Told(p, k), p) /\ Told(p, k).open = p.open /\ Told(p, k).waits = p.waits /\ Told(p, k).phase = p.phase
<1>1. PICK e : Told(p, k) = [p EXCEPT !.told = e, !.events = <<>>, !.texts = <<>>]
  BY Zenon DEF Told
<1> QED BY <1>1 DEF SameTurn, PromptShape

LEMMA ObservedSteps ==
  ASSUME NEW p, PromptShape(p), NEW u, u.call \in ToolCalls
  PROVE  LET f == Observed(p, u) IN
           /\ PromptShape(f) /\ f.waits = p.waits /\ f.client = p.client /\ f.session = p.session /\ f.phase = p.phase
           /\ f.shown \subseteq p.shown \cup {u.call}
<1>1. CASE u.call \in p.ended
  BY <1>1 DEF Observed
<1>2. CASE u.call \notin p.ended
  <2> DEFINE l == IF bandLocal /\ u.band THEN p.local \cup {u.call} ELSE p.local
             shows == ~u.done /\ u.call \notin l
             e == IF u.done THEN p.ended \cup {u.call} ELSE p.ended
             o == IF shows THEN p.open \cup {u.call} ELSE p.open \ {u.call}
             h == IF shows THEN p.shown \cup {u.call} ELSE p.shown
  <2>1. Observed(p, u) = [p EXCEPT !.local = l, !.ended = e, !.open = o, !.shown = h]
    BY <1>2 DEF Observed
  <2>2. o \subseteq ToolCalls /\ h \subseteq ToolCalls /\ h \subseteq p.shown \cup {u.call}
    BY DEF PromptShape
  <2> HIDE DEF l, e, o, h
  <2> QED BY <2>1, <2>2 DEF PromptShape
<1> QED BY <1>1, <1>2

LEMMA StreamStarts == StreamInit => StreamInv
<1> SUFFICES ASSUME StreamInit PROVE StreamInv
  OBVIOUS
<1> USE StreamConstants
<1>1. /\ client = [g \in Clients |-> FreshClient] /\ prompts = [t \in PromptsHeld |-> NoPrompt]
  BY DEF StreamInit
<1>2. ClientShape(FreshClient) /\ FreshClient.live /\ ~FreshClient.retired /\ FreshClient.inFlight = 0
  BY DEF ClientShape, FreshClient, StreamIds
<1>3. /\ PromptShape(NoPrompt) /\ NoPrompt.phase = "absent" /\ NoPrompt.shown = {} /\ NoPrompt.open = {}
      /\ NoPrompt.waits = {} /\ NoPrompt.client = 0
  BY DEF PromptShape, NoPrompt
<1>4. (\A g \in Clients : client[g] = FreshClient) /\ \A t \in PromptsHeld : prompts[t] = NoPrompt
  BY <1>1
<1>5. StreamType
  BY <1>1, <1>2, <1>3, <1>4 DEF StreamType
<1>6. LiveAreHeard /\ InFlightPrompts
  BY <1>2, <1>3, <1>4 DEF LiveAreHeard, InFlightPrompts
<1>7. PromptsInOrder /\ SessionsGrow /\ CallsAreOwned
  BY <1>3, <1>4 DEF PromptsInOrder, SessionsGrow, CallsAreOwned
<1>8. ActivityEndsWithItsPrompt
  BY <1>3, <1>4 DEF ActivityEndsWithItsPrompt
<1> QED BY <1>5, <1>6, <1>7, <1>8 DEF StreamInv

\* Turns are serial: while one runs, no other is in flight.
LEMMA PromptsAreSerial ==
  ASSUME StreamInv, NEW t \in PromptsHeld, prompts[t].phase \in {"prompting", "flushing"}
  PROVE  /\ \A u \in PromptsHeld : u # t => prompts[u].phase \in {"absent", "over"}
         /\ prompts[t].client \in Clients
         /\ \A g \in Clients : client[g].inFlight = IF prompts[t].phase = "prompting" /\ prompts[t].client = g THEN t ELSE 0
<1> USE StreamConstants
<1>1. \A u \in PromptsHeld : u # t => prompts[u].phase \in {"absent", "over"}
  <2> SUFFICES ASSUME NEW u \in PromptsHeld, u # t PROVE prompts[u].phase \in {"absent", "over"}
    OBVIOUS
  <2>1. u < t \/ t < u
    OBVIOUS
  <2> QED BY <2>1 DEF StreamInv, PromptsInOrder
<1>2. prompts[t].client \in Clients
  BY DEF StreamInv, SessionsGrow
<1>3. ASSUME NEW g \in Clients
      PROVE  client[g].inFlight = IF prompts[t].phase = "prompting" /\ prompts[t].client = g THEN t ELSE 0
  <2>1. client[g].inFlight \in StreamIds
    BY DEF StreamInv, StreamType, ClientShape
  <2>2. \A u \in PromptsHeld : client[g].inFlight = u <=> prompts[u].phase = "prompting" /\ prompts[u].client = g
    BY DEF StreamInv, InFlightPrompts
  <2> QED BY <1>1, <2>1, <2>2 DEF StreamIds
<1> QED BY <1>1, <1>2, <1>3

\* A turn's prompt is over, or is flushed; its client forgets, retires or stays.
PromptIsOver(t, p, cl) ==
  LET now == client[prompts[t].client] IN
  /\ prompts[t].phase = "prompting" \/ prompts[t].phase = "flushing"
  /\ prompts' = [prompts EXCEPT ![t] = p] /\ client' = [client EXCEPT ![prompts[t].client] = cl]
  /\ SameTurn(p, prompts[t]) /\ (p.phase = "flushing" \/ p.phase = "over") /\ p.open = {} /\ p.waits = {}
  /\ ClientShape(cl) /\ cl.inFlight = 0 /\ (cl.live <=> ~cl.retired)
  /\ \/ cl.session = now.session /\ (cl.retired \/ (~now.retired /\ cl.owners = now.owners))
     \/ cl.session = -now.session /\ now.session > 0
LEMMA StreamEnds ==
  ASSUME StreamInv, NEW t \in PromptsHeld, NEW p, NEW cl, PromptIsOver(t, p, cl)
  PROVE  StreamInv'
<1> USE StreamConstants
<1>0. /\ prompts[t].phase \in {"prompting", "flushing"} /\ prompts' = [prompts EXCEPT ![t] = p]
      /\ client' = [client EXCEPT ![prompts[t].client] = cl]
      /\ PromptShape(p) /\ p.phase \in {"flushing", "over"} /\ p.open = {} /\ p.waits = {}
      /\ p.client = prompts[t].client /\ p.session = prompts[t].session /\ p.shown = prompts[t].shown
      /\ ClientShape(cl) /\ cl.inFlight = 0 /\ (cl.live <=> ~cl.retired)
      /\ \/ cl.session = client[prompts[t].client].session
            /\ (cl.retired \/ (~client[prompts[t].client].retired /\ cl.owners = client[prompts[t].client].owners))
         \/ cl.session = -client[prompts[t].client].session /\ client[prompts[t].client].session > 0
  BY DEF PromptIsOver, SameTurn
<1> DEFINE g == prompts[t].client
<1>1. /\ \A u \in PromptsHeld : u # t => prompts[u].phase \in {"absent", "over"}
      /\ g \in Clients /\ \A h \in Clients : h # g => client[h].inFlight = 0
  BY <1>0, PromptsAreSerial
<1>2. /\ DOMAIN prompts' = PromptsHeld /\ prompts'[t] = p /\ \A u \in PromptsHeld : u # t => prompts'[u] = prompts[u]
      /\ DOMAIN client' = Clients /\ client'[prompts[t].client] = cl
      /\ \A h \in Clients : h # prompts[t].client => client'[h] = client[h]
  BY <1>0, <1>1 DEF StreamInv, StreamType
<1>f. prompts' = [u \in PromptsHeld |-> prompts'[u]] /\ client' = [h \in Clients |-> client'[h]]
  BY <1>0 DEF StreamInv, StreamType
<1>3. PICK n \in Clients : prompts[t].client = n
  BY <1>1
<1> HIDE DEF g
<1>4. StreamType'
  BY <1>0, <1>2, <1>3, <1>f DEF StreamInv, StreamType
<1>5. LiveAreHeard'
  BY <1>0, <1>2, <1>3 DEF StreamInv, LiveAreHeard
<1>6. InFlightPrompts'
  <2>1. \A u \in PromptsHeld : prompts'[u].phase # "prompting"
    BY <1>0, <1>1, <1>2
  <2>2. \A h \in Clients : client'[h].inFlight = 0
    BY <1>0, <1>1, <1>2, <1>3 DEF g
  <2> QED BY <2>1, <2>2 DEF InFlightPrompts
<1>7. PromptsInOrder'
  <2> SUFFICES ASSUME NEW a \in PromptsHeld, NEW b \in PromptsHeld, b < a, prompts'[a].phase # "absent"
               PROVE  prompts'[b].phase = "over"
    BY DEF PromptsInOrder
  <2>1. prompts[a].phase # "absent" /\ prompts[b].phase = "over"
    BY <1>0, <1>2 DEF StreamInv, PromptsInOrder
  <2> QED BY <1>0, <1>2, <2>1
<1>8. \A h \in Clients : \/ client'[h].session = client[h].session
                         \/ client'[h].session = -client[h].session /\ client[h].session > 0
  BY <1>0, <1>2, <1>3
<1>9. \A u \in PromptsHeld :
        /\ prompts'[u].client = prompts[u].client /\ prompts'[u].session = prompts[u].session
        /\ prompts'[u].shown = prompts[u].shown /\ (prompts'[u].phase = "absent" <=> prompts[u].phase = "absent")
        /\ prompts'[u].phase # "prompting"
  BY <1>0, <1>1, <1>2
<1>s. \A u \in PromptsHeld : prompts[u].session \in Int
  BY DEF StreamInv, StreamType, PromptShape
<1>c. \A h \in Clients : client[h].session \in Int
  BY DEF StreamInv, StreamType, ClientShape
<1>10. SessionsGrow'
  <2> SUFFICES ASSUME NEW u \in PromptsHeld
               PROVE /\ prompts'[u].phase = "absent" => prompts'[u].client = 0 /\ prompts'[u].shown = {}
                     /\ prompts'[u].phase # "absent" =>
                          /\ prompts'[u].client \in Clients /\ 0 < prompts'[u].session
                          /\ \/ prompts'[u].session <= client'[prompts'[u].client].session
                             \/ prompts'[u].session <= -client'[prompts'[u].client].session
    BY <1>9 DEF SessionsGrow
  <2>1. CASE prompts[u].phase = "absent"
    BY <1>9, <2>1 DEF StreamInv, SessionsGrow
  <2>2. CASE prompts[u].phase # "absent"
    <3>1. /\ prompts[u].client \in Clients /\ 0 < prompts[u].session
          /\ \/ prompts[u].session <= client[prompts[u].client].session
             \/ prompts[u].session <= -client[prompts[u].client].session
      BY <2>2 DEF StreamInv, SessionsGrow
    <3>2. PICK h \in Clients : prompts[u].client = h
      BY <3>1
    <3>3. client'[h].session = client[h].session \/ client'[h].session = -client[h].session
      BY <1>8
    <3>4. prompts[u].session \in Int /\ client[h].session \in Int
      BY <1>s, <1>c
    <3>5. prompts[u].session <= client[h].session \/ prompts[u].session <= -client[h].session
      BY <3>1, <3>2
    <3>6. prompts[u].session <= client'[h].session \/ prompts[u].session <= -client'[h].session
      BY <3>3, <3>4, <3>5
    <3>7. prompts'[u].client = h /\ prompts'[u].session = prompts[u].session /\ prompts'[u].phase # "absent"
      BY <1>9, <2>2, <3>2
    <3> QED BY <3>1, <3>2, <3>6, <3>7
  <2> QED BY <2>1, <2>2
<1>11. CallsAreOwned'
  <2> SUFFICES ASSUME NEW u \in PromptsHeld, prompts'[u].phase # "absent", NEW c \in prompts'[u].shown,
                      prompts'[u].session = client'[prompts'[u].client].session, ~client'[prompts'[u].client].retired
               PROVE  client'[prompts'[u].client].owners[c] = u
    BY DEF CallsAreOwned
  <2>1. PICK h \in Clients : prompts[u].client = h /\ 0 < prompts[u].session
    BY <1>9 DEF StreamInv, SessionsGrow
  <2>2. prompts[u].session = client'[h].session /\ ~client'[h].retired /\ prompts'[u].client = h
    BY <1>9, <2>1
  <2>3. client'[h].session = client[h].session
    BY <1>8, <1>s, <1>c, <2>1, <2>2
  <2>4. ~client[h].retired /\ client'[h].owners = client[h].owners
    <3>1. CASE h = n
      <4>1. client[h].session \in Int /\ 0 < client[h].session
        BY <1>c, <2>1, <2>2, <2>3
      <4>2. client[h].session # -client[h].session
        BY <4>1
      <4>3. client'[h] = cl
        BY <1>0, <1>2, <1>3, <3>1
      <4> QED BY <1>0, <1>3, <2>2, <2>3, <3>1, <4>2, <4>3
    <3>2. CASE h # n
      BY <1>0, <1>2, <1>3, <2>2, <3>2
    <3> QED BY <3>1, <3>2
  <2>5. client[h].owners[c] = u
    <3>1. prompts[u].phase # "absent" /\ c \in prompts[u].shown
      BY <1>9
    <3>2. prompts[u].session = client[prompts[u].client].session /\ ~client[prompts[u].client].retired
      BY <2>1, <2>2, <2>3, <2>4
    <3>3. client[prompts[u].client].owners[c] = u
      BY <3>1, <3>2 DEF StreamInv, CallsAreOwned
    <3> QED BY <2>1, <3>3
  <2> QED BY <2>2, <2>4, <2>5
<1>12. ActivityEndsWithItsPrompt'
  <2>1. \A u \in PromptsHeld : prompts'[u].open = {} /\ prompts'[u].waits = {}
    <3> SUFFICES ASSUME NEW u \in PromptsHeld PROVE prompts'[u].open = {} /\ prompts'[u].waits = {}
      OBVIOUS
    <3>1. CASE u = t
      BY <1>0, <1>2, <3>1
    <3>2. CASE u # t
      BY <1>0, <1>1, <1>2, <3>2 DEF StreamInv, ActivityEndsWithItsPrompt
    <3> QED BY <3>1, <3>2
  <2>2. \A a, b \in PromptsHeld :
          a < b /\ prompts'[a].client = prompts'[b].client /\ prompts'[a].session = prompts'[b].session
            => prompts'[a].shown \cap prompts'[b].shown = {}
    BY <1>9 DEF StreamInv, ActivityEndsWithItsPrompt
  <2> QED BY <2>1, <2>2 DEF ActivityEndsWithItsPrompt
<1> QED BY <1>4, <1>5, <1>6, <1>7, <1>10, <1>11, <1>12 DEF StreamInv

\* The steps that leave every turn where it is.
StreamRest ==
  /\ \A g \in Clients :
       /\ client'[g].inFlight = client[g].inFlight
       /\ \/ client'[g].session = client[g].session
          \/ client'[g].session = -client[g].session /\ client[g].session > 0
  /\ \A u \in PromptsHeld :
       /\ prompts'[u].client = prompts[u].client /\ prompts'[u].session = prompts[u].session
       /\ prompts'[u].phase = prompts[u].phase /\ (prompts[u].phase = "absent" => prompts'[u].shown = {})

LEMMA StreamRests ==
  ASSUME StreamInv, StreamType', StreamRest
  PROVE  InFlightPrompts' /\ PromptsInOrder' /\ SessionsGrow'
<1> USE StreamConstants
<1>1. InFlightPrompts'
  <2> SUFFICES ASSUME NEW g \in Clients, NEW t \in PromptsHeld
               PROVE  client'[g].inFlight = t <=> prompts'[t].phase = "prompting" /\ prompts'[t].client = g
    BY DEF InFlightPrompts
  <2>1. client'[g].inFlight = client[g].inFlight /\ prompts'[t].phase = prompts[t].phase
        /\ prompts'[t].client = prompts[t].client
    BY DEF StreamRest
  <2>2. client[g].inFlight = t <=> prompts[t].phase = "prompting" /\ prompts[t].client = g
    BY DEF StreamInv, InFlightPrompts
  <2> QED BY <2>1, <2>2
<1>2. PromptsInOrder'
  BY DEF StreamInv, PromptsInOrder, StreamRest
<1>s. \A u \in PromptsHeld : prompts[u].session \in Int
  BY DEF StreamInv, StreamType, PromptShape
<1>c. \A h \in Clients : client[h].session \in Int
  BY DEF StreamInv, StreamType, ClientShape
<1>3. SessionsGrow'
  <2> SUFFICES ASSUME NEW u \in PromptsHeld
               PROVE /\ prompts'[u].phase = "absent" => prompts'[u].client = 0 /\ prompts'[u].shown = {}
                     /\ prompts'[u].phase # "absent" =>
                          /\ prompts'[u].client \in Clients /\ 0 < prompts'[u].session
                          /\ \/ prompts'[u].session <= client'[prompts'[u].client].session
                             \/ prompts'[u].session <= -client'[prompts'[u].client].session
                          /\ prompts'[u].phase = "prompting" =>
                               \/ prompts'[u].session = client'[prompts'[u].client].session
                               \/ prompts'[u].session = -client'[prompts'[u].client].session
    BY DEF SessionsGrow
  <2>0. /\ prompts'[u].client = prompts[u].client /\ prompts'[u].session = prompts[u].session
        /\ prompts'[u].phase = prompts[u].phase /\ (prompts[u].phase = "absent" => prompts'[u].shown = {})
    BY DEF StreamRest
  <2>1. CASE prompts[u].phase = "absent"
    BY <2>0, <2>1 DEF StreamInv, SessionsGrow
  <2>2. CASE prompts[u].phase # "absent"
    <3>1. /\ prompts[u].client \in Clients /\ 0 < prompts[u].session
          /\ \/ prompts[u].session <= client[prompts[u].client].session
             \/ prompts[u].session <= -client[prompts[u].client].session
          /\ prompts[u].phase = "prompting" =>
               \/ prompts[u].session = client[prompts[u].client].session
               \/ prompts[u].session = -client[prompts[u].client].session
      BY <2>2 DEF StreamInv, SessionsGrow
    <3>2. PICK h \in Clients : prompts[u].client = h
      BY <3>1
    <3>3. client'[h].session = client[h].session \/ client'[h].session = -client[h].session
      BY DEF StreamRest
    <3>4. prompts[u].session \in Int /\ client[h].session \in Int
      BY <1>s, <1>c
    <3>5. /\ \/ prompts[u].session <= client'[h].session \/ prompts[u].session <= -client'[h].session
          /\ prompts[u].phase = "prompting" =>
               prompts[u].session = client'[h].session \/ prompts[u].session = -client'[h].session
      BY <3>1, <3>2, <3>3, <3>4
    <3> QED BY <2>0, <2>2, <3>1, <3>2, <3>5
  <2> QED BY <2>1, <2>2
<1> QED BY <1>1, <1>2, <1>3

LEMMA PromptBeginsKept ==
  ASSUME StreamInv, NEW t \in PromptsHeld, NEW g \in Clients, PromptBegins(t, g)
  PROVE  StreamInv'
<1> USE StreamConstants
<1> DEFINE now == client[g].session
<1>a. /\ DOMAIN client = Clients /\ DOMAIN prompts = PromptsHeld
      /\ \A h \in Clients : ClientShape(client[h])
      /\ \A u \in PromptsHeld : PromptShape(prompts[u])
  BY DEF StreamInv, StreamType
<1>1. PICK s : /\ s = IF now > 0 THEN now ELSE 1 - now
               /\ client' = [client EXCEPT ![g] = [[client[g] EXCEPT !.chunks = <<>>] EXCEPT !.session = s, !.inFlight = t]]
               /\ prompts' = [prompts EXCEPT ![t] = [prompts[t] EXCEPT !.client = g, !.session = s, !.phase = "prompting"]]
  BY Zenon DEF PromptBegins, Collecting
<1>2. /\ prompts[t].phase = "absent" /\ client[g].live
      /\ \A u \in PromptsHeld : u < t => prompts[u].phase = "over"
  BY DEF PromptBegins, LivePrompt
<1>3. now \in Int /\ s \in Int /\ 0 < s /\ (now > 0 => s = now) /\ (now <= 0 => s = 1 - now)
  BY <1>1, <1>a DEF ClientShape
<1> DEFINE cl == client'[g]
           p == prompts'[t]
<1>4. /\ \A u \in PromptsHeld : u # t => prompts'[u] = prompts[u]
      /\ \A h \in Clients : h # g => client'[h] = client[h]
      /\ DOMAIN client' = Clients /\ DOMAIN prompts' = PromptsHeld
  BY <1>1, <1>a
<1>f. prompts' = [u \in PromptsHeld |-> prompts'[u]] /\ client' = [h \in Clients |-> client'[h]]
  BY <1>1 DEF StreamInv, StreamType
<1>5. /\ ClientShape(client'[g]) /\ client'[g].inFlight = t /\ client'[g].session = s
      /\ client'[g].live = client[g].live /\ client'[g].retired = client[g].retired
      /\ client'[g].owners = client[g].owners
  <2>1. ClientShape(client[g]) /\ t \in StreamIds
    BY <1>a DEF StreamIds
  <2>2. client'[g] = [[client[g] EXCEPT !.chunks = <<>>] EXCEPT !.session = s, !.inFlight = t]
    BY <1>1, <1>a
  <2> QED BY <1>3, <2>1, <2>2 DEF ClientShape
<1>6. /\ PromptShape(prompts'[t]) /\ prompts'[t].client = g /\ prompts'[t].session = s /\ prompts'[t].phase = "prompting"
      /\ prompts'[t].open = prompts[t].open /\ prompts'[t].waits = prompts[t].waits /\ prompts'[t].shown = prompts[t].shown
  <2>1. PromptShape(prompts[t])
    BY <1>a
  <2>2. prompts'[t] = [prompts[t] EXCEPT !.client = g, !.session = s, !.phase = "prompting"]
    BY <1>1, <1>a
  <2> QED BY <1>3, <2>1, <2>2 DEF PromptShape
<1>7. prompts[t].shown = {} /\ prompts[t].open = {} /\ prompts[t].waits = {}
  BY <1>2 DEF StreamInv, SessionsGrow, ActivityEndsWithItsPrompt
<1>8. \A u \in PromptsHeld : u # t => prompts[u].phase \in {"absent", "over"} /\ (t < u => prompts[u].phase = "absent")
  <2> SUFFICES ASSUME NEW u \in PromptsHeld, u # t
               PROVE  prompts[u].phase \in {"absent", "over"} /\ (t < u => prompts[u].phase = "absent")
    OBVIOUS
  <2>1. u < t \/ t < u
    OBVIOUS
  <2>2. t < u => prompts[u].phase = "absent"
    BY <1>2 DEF StreamInv, PromptsInOrder
  <2> QED BY <1>2, <2>1, <2>2
<1>9. \A h \in Clients : client[h].inFlight = 0
  <2> SUFFICES ASSUME NEW h \in Clients PROVE client[h].inFlight = 0
    OBVIOUS
  <2>1. client[h].inFlight \in StreamIds
    BY <1>a DEF ClientShape
  <2>2. \A u \in PromptsHeld : client[h].inFlight # u
    BY <1>2, <1>8 DEF StreamInv, InFlightPrompts
  <2> QED BY <2>1, <2>2 DEF StreamIds
<1> HIDE DEF now
<1>10. StreamType'
  BY <1>a, <1>4, <1>5, <1>6, <1>f DEF StreamType
<1>11. LiveAreHeard'
  BY <1>4, <1>5 DEF StreamInv, LiveAreHeard
<1>12. InFlightPrompts'
  <2> SUFFICES ASSUME NEW h \in Clients, NEW u \in PromptsHeld
               PROVE  client'[h].inFlight = u <=> prompts'[u].phase = "prompting" /\ prompts'[u].client = h
    BY DEF InFlightPrompts
  <2>1. client'[h].inFlight = IF h = g THEN t ELSE 0
    BY <1>4, <1>5, <1>9
  <2>2. prompts'[u].phase = "prompting" <=> u = t
    BY <1>4, <1>6, <1>8
  <2> QED BY <1>6, <2>1, <2>2
<1>13. PromptsInOrder'
  <2> SUFFICES ASSUME NEW a \in PromptsHeld, NEW b \in PromptsHeld, b < a, prompts'[a].phase # "absent"
               PROVE  prompts'[b].phase = "over"
    BY DEF PromptsInOrder
  <2>1. CASE a = t
    BY <1>2, <1>4, <2>1
  <2>2. CASE a # t
    <3>1. prompts[a].phase # "absent"
      BY <1>4, <2>2
    <3>2. prompts[b].phase = "over"
      BY <3>1 DEF StreamInv, PromptsInOrder
    <3>3. b # t
      BY <1>2, <3>2
    <3> QED BY <1>4, <3>2, <3>3
  <2> QED BY <2>1, <2>2
<1>s. \A u \in PromptsHeld : prompts[u].session \in Int
  BY <1>a DEF PromptShape
<1>14. \A u \in PromptsHeld : u # t /\ prompts[u].phase # "absent" /\ prompts[u].client = g =>
         prompts[u].session <= s /\ (prompts[u].session = s => client[g].session = s)
  BY <1>3, <1>s DEF StreamInv, SessionsGrow, now
<1>15. SessionsGrow'
  <2> SUFFICES ASSUME NEW u \in PromptsHeld
               PROVE /\ prompts'[u].phase = "absent" => prompts'[u].client = 0 /\ prompts'[u].shown = {}
                     /\ prompts'[u].phase # "absent" =>
                          /\ prompts'[u].client \in Clients /\ 0 < prompts'[u].session
                          /\ \/ prompts'[u].session <= client'[prompts'[u].client].session
                             \/ prompts'[u].session <= -client'[prompts'[u].client].session
                          /\ prompts'[u].phase = "prompting" =>
                               \/ prompts'[u].session = client'[prompts'[u].client].session
                               \/ prompts'[u].session = -client'[prompts'[u].client].session
    BY DEF SessionsGrow
  <2>1. CASE u = t
    BY <1>3, <1>5, <1>6, <2>1
  <2>2. CASE u # t
    <3>1. prompts'[u] = prompts[u] /\ prompts[u].phase # "prompting"
      BY <1>4, <1>8, <2>2
    <3>2. CASE prompts[u].phase = "absent"
      BY <3>1, <3>2 DEF StreamInv, SessionsGrow
    <3>3. CASE prompts[u].phase # "absent"
      <4>1. prompts[u].client \in Clients /\ 0 < prompts[u].session
        BY <3>3 DEF StreamInv, SessionsGrow
      <4>2. CASE prompts[u].client = g
        BY <1>5, <1>14, <2>2, <3>1, <3>3, <4>1, <4>2
      <4>3. CASE prompts[u].client # g
        BY ZenonT(60), <1>4, <3>1, <3>3, <4>1, <4>3 DEF StreamInv, SessionsGrow
      <4> QED BY <4>2, <4>3
    <3> QED BY <3>2, <3>3
  <2> QED BY <2>1, <2>2
<1>16. CallsAreOwned'
  <2> SUFFICES ASSUME NEW u \in PromptsHeld, prompts'[u].phase # "absent", NEW c \in prompts'[u].shown,
                      prompts'[u].session = client'[prompts'[u].client].session, ~client'[prompts'[u].client].retired
               PROVE  client'[prompts'[u].client].owners[c] = u
    BY DEF CallsAreOwned
  <2>1. u # t
    BY <1>6, <1>7
  <2>2. prompts'[u] = prompts[u]
    BY <1>4, <2>1
  <2>3. CASE prompts[u].client = g
    <3>1. prompts[u].session = client[g].session /\ ~client[g].retired
      BY <1>5, <1>14, <2>1, <2>2, <2>3
    <3>2. prompts[u].phase # "absent" /\ c \in prompts[u].shown
      BY <2>2
    <3>3. client[g].owners[c] = u
      BY <2>3, <3>1, <3>2 DEF StreamInv, CallsAreOwned
    <3> QED BY <1>5, <2>2, <2>3, <3>3
  <2>4. CASE prompts[u].client # g
    <3>1. prompts[u].client \in Clients
      BY <2>2 DEF StreamInv, SessionsGrow
    <3>2. client'[prompts[u].client] = client[prompts[u].client]
      BY <1>4, <2>4, <3>1
    <3>3. prompts[u].phase # "absent" /\ c \in prompts[u].shown
      BY <2>2
    <3>4. prompts[u].session = client[prompts[u].client].session /\ ~client[prompts[u].client].retired
      BY <2>2, <3>2
    <3>5. client[prompts[u].client].owners[c] = u
      BY <3>3, <3>4 DEF StreamInv, CallsAreOwned
    <3> QED BY <2>2, <3>2, <3>5
  <2> QED BY <2>3, <2>4
<1>17. ActivityEndsWithItsPrompt'
  <2>1. \A u \in PromptsHeld : prompts'[u].open = {} /\ prompts'[u].waits = {}
    BY <1>4, <1>6, <1>7, <1>8 DEF StreamInv, ActivityEndsWithItsPrompt
  <2>2. \A a, b \in PromptsHeld :
          a < b /\ prompts'[a].client = prompts'[b].client /\ prompts'[a].session = prompts'[b].session
            => prompts'[a].shown \cap prompts'[b].shown = {}
    BY <1>4, <1>6, <1>7 DEF StreamInv, ActivityEndsWithItsPrompt
  <2> QED BY <2>1, <2>2 DEF ActivityEndsWithItsPrompt
<1> QED BY <1>10, <1>11, <1>12, <1>13, <1>15, <1>16, <1>17 DEF StreamInv

LEMMA AgentSendsKept ==
  ASSUME StreamInv, NEW g \in Clients, AgentSends(g)
  PROVE  StreamInv'
<1> USE StreamConstants
<1>a. /\ DOMAIN client = Clients /\ DOMAIN prompts = PromptsHeld
      /\ \A h \in Clients : ClientShape(client[h])
      /\ \A u \in PromptsHeld : PromptShape(prompts[u])
  BY DEF StreamInv, StreamType
<1> DEFINE t == client[g].inFlight
<1>1. PICK u \in Updates(g) :
        LET claims == u.call # 0 /\ CallClaims(client[g], u.call) IN
        /\ sent' = Append(sent, u @@ [client |-> g, during |-> t, turn |-> Latest, live |-> client[g].live])
        /\ client' = [client EXCEPT ![g] =
             [client[g] EXCEPT !.chunks = Append(@, Len(sent) + 1),
                               !.owners = IF claims THEN [@ EXCEPT ![u.call] = t] ELSE @]]
        /\ prompts' = IF claims THEN [prompts EXCEPT ![t] = Observed(@, u)] ELSE prompts
  BY Zenon DEF AgentSends
<1>2. ~client[g].retired /\ client[g].session > 0 /\ client[g].live
  BY DEF AgentSends, StreamHeard, StreamInv, LiveAreHeard
<1>3. u.call # 0 => u.call \in ToolCalls
  BY DEF Updates
<1> DEFINE claims == u.call # 0 /\ CallClaims(client[g], u.call)
<1>4. claims => t \in PromptsHeld /\ prompts[t].phase = "prompting" /\ prompts[t].client = g
                /\ client[g].owners[u.call] \in {0, t}
  <2> SUFFICES ASSUME claims PROVE t \in PromptsHeld /\ prompts[t].phase = "prompting" /\ prompts[t].client = g
                                   /\ client[g].owners[u.call] \in {0, t}
    OBVIOUS
  <2>1. t \in StreamIds /\ t # 0
    BY <1>a DEF ClientShape, CallClaims
  <2>2. client[g].owners[u.call] \in {0, t}
    BY DEF CallClaims, Owner
  <2> QED BY <2>1, <2>2 DEF StreamInv, InFlightPrompts, StreamIds
<1>5. PICK x, w : /\ client' = [client EXCEPT ![g] = [client[g] EXCEPT !.chunks = x, !.owners = w]]
                  /\ w = IF claims THEN [client[g].owners EXCEPT ![u.call] = t] ELSE client[g].owners
  <2> DEFINE c == Append(client[g].chunks, Len(sent) + 1)
             o == IF claims THEN [client[g].owners EXCEPT ![u.call] = t] ELSE client[g].owners
  <2>1. client' = [client EXCEPT ![g] = [client[g] EXCEPT !.chunks = c, !.owners = o]]
    BY <1>1
  <2>2. o = IF claims THEN [client[g].owners EXCEPT ![u.call] = t] ELSE client[g].owners
    OBVIOUS
  <2> HIDE DEF c, o
  <2> QED BY Zenon, <2>1, <2>2
<1>6. prompts' = IF claims THEN [prompts EXCEPT ![t] = Observed(prompts[t], u)] ELSE prompts
  BY <1>1
<1>f. prompts' = [v \in PromptsHeld |-> prompts'[v]] /\ client' = [h \in Clients |-> client'[h]]
  BY <1>5, <1>6 DEF StreamInv, StreamType
<1> HIDE DEF claims
<1>7. client[g].owners \in [ToolCalls -> StreamIds] /\ w \in [ToolCalls -> StreamIds]
  <2>1. client[g].owners \in [ToolCalls -> StreamIds]
    BY <1>a DEF ClientShape
  <2> QED BY <1>4, <1>5, <2>1 DEF StreamIds
<1>8. /\ \A h \in Clients : h # g => client'[h] = client[h]
      /\ DOMAIN client' = Clients
      /\ ClientShape(client'[g]) /\ client'[g].inFlight = client[g].inFlight /\ client'[g].session = client[g].session
      /\ client'[g].live = client[g].live /\ client'[g].retired = client[g].retired /\ client'[g].owners = w
  <2>1. client'[g] = [client[g] EXCEPT !.chunks = x, !.owners = w]
    BY <1>a, <1>5
  <2>2. ClientShape(client[g])
    BY <1>a
  <2>3. /\ ClientShape(client'[g]) /\ client'[g].inFlight = client[g].inFlight /\ client'[g].session = client[g].session
        /\ client'[g].live = client[g].live /\ client'[g].retired = client[g].retired /\ client'[g].owners = w
    BY <1>7, <2>1, <2>2 DEF ClientShape
  <2> QED BY <1>a, <1>5, <2>3
<1>9. /\ \A v \in PromptsHeld : ~(claims /\ v = t) => prompts'[v] = prompts[v]
      /\ DOMAIN prompts' = PromptsHeld
      /\ claims => /\ PromptShape(prompts'[t]) /\ prompts'[t].client = g /\ prompts'[t].session = prompts[t].session
                   /\ prompts'[t].phase = "prompting" /\ prompts'[t].waits = prompts[t].waits
                   /\ prompts'[t].shown \subseteq prompts[t].shown \cup {u.call}
  <2>1. CASE claims
    <3>1. prompts'[t] = Observed(prompts[t], u) /\ u.call \in ToolCalls /\ PromptShape(prompts[t])
      BY <1>a, <1>3, <1>4, <1>6, <2>1 DEF claims
    <3>2. LET f == Observed(prompts[t], u) IN
           /\ PromptShape(f) /\ f.waits = prompts[t].waits /\ f.client = prompts[t].client
           /\ f.session = prompts[t].session /\ f.phase = prompts[t].phase
           /\ f.shown \subseteq prompts[t].shown \cup {u.call}
      BY <3>1, ObservedSteps
    <3>3. (\A v \in PromptsHeld : v # t => prompts'[v] = prompts[v]) /\ DOMAIN prompts' = PromptsHeld
      BY <1>a, <1>6, <2>1
    <3> QED BY <1>4, <2>1, <3>1, <3>2, <3>3
  <2>2. CASE ~claims
    BY <1>a, <1>6, <2>2
  <2> QED BY <2>1, <2>2
<1>10. PICK k : client[g].inFlight = k
  OBVIOUS
<1> HIDE DEF t
<1>t. t = k
  BY <1>10 DEF t
<1>11. StreamType'
  BY <1>a, <1>8, <1>9, <1>f DEF StreamType
<1>12. LiveAreHeard'
  BY <1>8 DEF StreamInv, LiveAreHeard
<1>13. InFlightPrompts' /\ PromptsInOrder' /\ SessionsGrow'
  <2>1. \A h \in Clients : client'[h].inFlight = client[h].inFlight /\ client'[h].session = client[h].session
    BY <1>8
  <2>2. \A v \in PromptsHeld :
       /\ prompts'[v].client = prompts[v].client /\ prompts'[v].session = prompts[v].session
       /\ prompts'[v].phase = prompts[v].phase /\ (prompts[v].phase = "absent" => prompts'[v].shown = {})
    BY <1>4, <1>9 DEF StreamInv, SessionsGrow
  <2> QED BY <1>11, <2>1, <2>2, StreamRests DEF StreamRest
<1>14. /\ \A v \in PromptsHeld : prompts'[v].client = prompts[v].client /\ prompts'[v].session = prompts[v].session
                                /\ prompts'[v].phase = prompts[v].phase /\ prompts'[v].waits = prompts[v].waits
       /\ \A v \in PromptsHeld : prompts'[v].shown \subseteq prompts[v].shown \cup (IF claims /\ v = k THEN {u.call} ELSE {})
  BY <1>4, <1>9, <1>t
<1>16. \A v \in PromptsHeld : prompts[v].phase # "absent" => prompts[v].client \in Clients
  BY DEF StreamInv, SessionsGrow
<1>17. CallsAreOwned'
  <2> SUFFICES ASSUME NEW v \in PromptsHeld, prompts'[v].phase # "absent", NEW c \in prompts'[v].shown,
                      prompts'[v].session = client'[prompts'[v].client].session, ~client'[prompts'[v].client].retired
               PROVE  client'[prompts'[v].client].owners[c] = v
    BY DEF CallsAreOwned
  <2>1. PICK h \in Clients : prompts[v].client = h /\ prompts'[v].client = h
    BY <1>14, <1>16
  <2>2. prompts[v].phase # "absent" /\ prompts[v].session = client[h].session /\ ~client[h].retired
    BY <1>8, <1>14, <2>1
  <2>3. c \in prompts[v].shown => client[h].owners[c] = v /\ c \in ToolCalls
    BY <1>a, <2>1, <2>2 DEF StreamInv, CallsAreOwned, PromptShape
  <2>4. CASE h # g
    <3>1. ~(claims /\ v = k)
      BY <1>4, <1>t, <2>1, <2>4
    <3> QED BY <1>8, <1>14, <2>1, <2>3, <2>4, <3>1
  <2>5. CASE h = g /\ claims /\ c = u.call
    <3>1. c \in prompts[v].shown => v = k
      <4>1. client[g].owners[c] \in {0, k}
        BY <1>4, <1>t, <2>5
      <4> QED BY <2>3, <2>5, <4>1
    <3>2. v = k
      BY <1>14, <3>1
    <3>3. w[c] = k
      BY <1>3, <1>5, <1>7, <1>t, <2>5 DEF claims
    <3> QED BY <1>8, <2>1, <2>5, <3>2, <3>3
  <2>6. CASE h = g /\ ~(claims /\ c = u.call)
    <3>1. c \in prompts[v].shown
      BY <1>14, <2>6
    <3>2. w[c] = client[g].owners[c]
      BY <1>5, <1>7, <2>6
    <3> QED BY <1>8, <2>1, <2>3, <2>6, <3>1, <3>2
  <2> QED BY <2>4, <2>5, <2>6
<1>18. ActivityEndsWithItsPrompt'
  <2>1. ASSUME NEW v \in PromptsHeld, prompts'[v].phase # "prompting" \/ ~client'[prompts'[v].client].live
        PROVE  prompts'[v].open = {} /\ prompts'[v].waits = {}
    <3>1. ~(claims /\ v = k)
      BY <1>2, <1>4, <1>8, <1>9, <1>t, <2>1
    <3>2. prompts'[v] = prompts[v]
      BY <1>9, <1>t, <3>1
    <3>3. prompts[v].phase # "prompting" \/ ~client[prompts[v].client].live
      BY <1>8, <1>16, <2>1, <3>2
    <3> QED BY <3>2, <3>3 DEF StreamInv, ActivityEndsWithItsPrompt
  <2>2. ASSUME NEW a \in PromptsHeld, NEW b \in PromptsHeld, a # b,
               prompts'[a].client = prompts'[b].client, prompts'[a].session = prompts'[b].session,
               NEW c \in prompts'[a].shown, c \in prompts'[b].shown
        PROVE  FALSE
    <3>1. prompts[a].client = prompts[b].client /\ prompts[a].session = prompts[b].session
      BY <1>14, <2>2
    <3>2. ASSUME NEW v \in {a, b}, NEW z \in {a, b}, v # z, claims, v = k, c = u.call, c \in prompts[z].shown PROVE FALSE
      <4>1. prompts[k].phase = "prompting" /\ prompts[k].client = g /\ client[g].owners[c] \in {0, k}
        BY <1>4, <1>t, <3>2
      <4>2. prompts[z].client = g /\ prompts[z].session = prompts[k].session
        BY <3>1, <3>2, <4>1
      <4>3. prompts[k].session = client[g].session
        <5>1. prompts[k].session = client[g].session \/ prompts[k].session = -client[g].session
          BY <3>2, <4>1 DEF StreamInv, SessionsGrow
        <5>2. 0 < prompts[k].session /\ prompts[k].session \in Int /\ client[g].session \in Int
          BY <1>a, <3>2, <4>1 DEF StreamInv, SessionsGrow, PromptShape, ClientShape
        <5> QED BY <1>2, <5>1, <5>2
      <4>4. prompts[z].phase # "absent"
        BY <3>2, <4>2 DEF StreamInv, SessionsGrow
      <4>5. client[g].owners[c] = z
        BY <1>2, <3>2, <4>2, <4>3, <4>4 DEF StreamInv, CallsAreOwned
      <4> QED BY <3>2, <4>1, <4>5
    <3>3. a < b \/ b < a
      <4>1. a \in Nat /\ b \in Nat /\ a # b
        BY <2>2
      <4> QED BY <4>1
    <3>4. ~(c \in prompts[a].shown /\ c \in prompts[b].shown)
      BY <3>1, <3>3 DEF StreamInv, ActivityEndsWithItsPrompt
    <3>5. \A v \in {a, b} : c \in prompts[v].shown \/ (claims /\ v = k /\ c = u.call)
      BY <1>14, <2>2
    <3> QED BY <2>2, <3>2, <3>4, <3>5
  <2>3. \A a, b \in PromptsHeld :
          a < b /\ prompts'[a].client = prompts'[b].client /\ prompts'[a].session = prompts'[b].session
            => prompts'[a].shown \cap prompts'[b].shown = {}
    <3> SUFFICES ASSUME NEW a \in PromptsHeld, NEW b \in PromptsHeld, a < b,
                        prompts'[a].client = prompts'[b].client, prompts'[a].session = prompts'[b].session
                 PROVE  prompts'[a].shown \cap prompts'[b].shown = {}
      OBVIOUS
    <3>1. a # b
      OBVIOUS
    <3>2. \A c \in prompts'[a].shown : c \notin prompts'[b].shown
      BY <2>2, <3>1
    <3> QED BY <3>2
  <2>4. \A v \in PromptsHeld :
          prompts'[v].phase # "prompting" \/ ~client'[prompts'[v].client].live
            => prompts'[v].open = {} /\ prompts'[v].waits = {}
    BY <2>1
  <2> QED BY <2>3, <2>4 DEF ActivityEndsWithItsPrompt
<1> QED BY <1>11, <1>12, <1>13, <1>17, <1>18 DEF StreamInv

ClientMoved(g, cl) ==
  /\ ClientShape(cl) /\ client' = [client EXCEPT ![g] = cl]
  /\ cl.inFlight = client[g].inFlight /\ (cl.live <=> ~cl.retired)
  /\ \/ cl.session = client[g].session /\ (cl.retired \/ (~client[g].retired /\ cl.owners = client[g].owners))
     \/ cl.session = -client[g].session /\ client[g].session > 0
TurnsStay ==
  /\ prompts' = [v \in PromptsHeld |-> prompts'[v]]
  /\ \A v \in PromptsHeld :
       /\ SameTurn(prompts'[v], prompts[v]) /\ prompts'[v].phase = prompts[v].phase
       /\ prompts[v].phase # "prompting" \/ ~client'[prompts[v].client].live
            => prompts'[v].open = {} /\ prompts'[v].waits = {}
LEMMA ClientMoves ==
  ASSUME StreamInv, NEW g \in Clients, NEW cl, ClientMoved(g, cl), TurnsStay
  PROVE  StreamInv'
<1> USE StreamConstants
<1>0. /\ ClientShape(cl) /\ client' = [client EXCEPT ![g] = cl]
      /\ cl.inFlight = client[g].inFlight /\ (cl.live <=> ~cl.retired)
      /\ \/ cl.session = client[g].session /\ (cl.retired \/ (~client[g].retired /\ cl.owners = client[g].owners))
         \/ cl.session = -client[g].session /\ client[g].session > 0
  BY DEF ClientMoved
<1>t. /\ prompts' = [v \in PromptsHeld |-> prompts'[v]]
      /\ \A v \in PromptsHeld :
           /\ PromptShape(prompts'[v]) /\ prompts'[v].client = prompts[v].client
           /\ prompts'[v].session = prompts[v].session
           /\ prompts'[v].phase = prompts[v].phase /\ prompts'[v].shown = prompts[v].shown
           /\ prompts[v].phase # "prompting" \/ ~client'[prompts[v].client].live
                => prompts'[v].open = {} /\ prompts'[v].waits = {}
  BY DEF TurnsStay, SameTurn
<1>1. DOMAIN client' = Clients /\ client'[g] = cl /\ \A h \in Clients : h # g => client'[h] = client[h]
  BY <1>0 DEF StreamInv, StreamType
<1>f. client' = [h \in Clients |-> client'[h]]
  BY <1>0 DEF StreamInv, StreamType
<1>2. StreamType'
  BY <1>0, <1>1, <1>t, <1>f DEF StreamInv, StreamType
<1>3. LiveAreHeard'
  BY <1>0, <1>1 DEF StreamInv, LiveAreHeard
<1>4. \A h \in Clients : /\ client'[h].inFlight = client[h].inFlight
                         /\ \/ client'[h].session = client[h].session
                            \/ client'[h].session = -client[h].session /\ client[h].session > 0
  BY <1>0, <1>1
<1>5. InFlightPrompts' /\ PromptsInOrder' /\ SessionsGrow'
  <2>1. \A v \in PromptsHeld : prompts[v].phase = "absent" => prompts[v].shown = {}
    BY DEF StreamInv, SessionsGrow
  <2> QED BY <1>2, <1>4, <1>t, <2>1, StreamRests DEF StreamRest
<1>6. CallsAreOwned'
  <2> SUFFICES ASSUME NEW v \in PromptsHeld, prompts'[v].phase # "absent", NEW c \in prompts'[v].shown,
                      prompts'[v].session = client'[prompts'[v].client].session, ~client'[prompts'[v].client].retired
               PROVE  client'[prompts'[v].client].owners[c] = v
    BY DEF CallsAreOwned
  <2>1. PICK h \in Clients : prompts[v].client = h /\ prompts'[v].client = h /\ 0 < prompts[v].session
    BY <1>t DEF StreamInv, SessionsGrow
  <2>2. prompts[v].session = client'[h].session /\ ~client'[h].retired /\ prompts[v].session \in Int
        /\ client[h].session \in Int
    BY <1>t, <2>1 DEF StreamInv, StreamType, PromptShape, ClientShape
  <2>3. client'[h].session = client[h].session /\ client[h].session # -client[h].session
    BY <1>4, <2>1, <2>2
  <2>4. ~client[h].retired /\ client'[h].owners = client[h].owners
    BY <1>0, <1>1, <2>2, <2>3
  <2>5. client[h].owners[c] = v
    BY <1>t, <2>1, <2>2, <2>3, <2>4 DEF StreamInv, CallsAreOwned
  <2> QED BY <2>1, <2>4, <2>5
<1>7. ActivityEndsWithItsPrompt'
  BY <1>t DEF StreamInv, ActivityEndsWithItsPrompt
<1> QED BY <1>2, <1>3, <1>5, <1>6, <1>7 DEF StreamInv

LEMMA ClientMovesKept ==
  ASSUME StreamInv, NEW g \in Clients,
         RoomLeaves(g) \/ ClientStops(g) \/ \E r \in Requests : RequestOpens(g, r) \/ AskAnswered(g, r)
  PROVE  StreamInv'
<1> USE StreamConstants
<1>a. /\ DOMAIN client = Clients /\ DOMAIN prompts = PromptsHeld
      /\ \A h \in Clients : ClientShape(client[h])
      /\ \A u \in PromptsHeld : PromptShape(prompts[u])
  BY DEF StreamInv, StreamType
<1>b. /\ client[g].live <=> ~client[g].retired
      /\ client[g].inFlight \in StreamIds /\ client[g].waits \in [Requests -> StreamIds] /\ client[g].session \in Int
  BY <1>a DEF StreamInv, LiveAreHeard, ClientShape
<1>q. \A v \in PromptsHeld : prompts[v].phase # "prompting" \/ ~client[prompts[v].client].live
                                => prompts[v].open = {} /\ prompts[v].waits = {}
  BY DEF StreamInv, ActivityEndsWithItsPrompt
<1>p. \A v \in PromptsHeld : prompts[v].phase = "prompting" => prompts[v].client \in Clients
  BY DEF StreamInv, SessionsGrow
<1>1. CASE RoomLeaves(g)
  <2> DEFINE f == PromptForgotten(client[g])
             cl == [f EXCEPT !.chunks = <<>>]
  <2>1. /\ client' = [client EXCEPT ![g] = cl] /\ prompts' = prompts /\ client[g].session > 0
    BY <1>1 DEF RoomLeaves
  <2>2. /\ ClientShape(f) /\ f.inFlight = client[g].inFlight /\ f.live = client[g].live
        /\ f.session = -client[g].session /\ f.retired = client[g].retired
    BY <1>a, ClientSteps
  <2> HIDE DEF f
  <2>3. /\ ClientShape(cl) /\ cl.inFlight = client[g].inFlight /\ cl.live = client[g].live
        /\ cl.session = -client[g].session /\ cl.retired = client[g].retired
    BY <2>2 DEF ClientShape
  <2> HIDE DEF cl
  <2>4. \A v \in PromptsHeld : prompts[v].phase # "prompting" \/ ~client'[prompts[v].client].live
                                => prompts'[v].open = {} /\ prompts'[v].waits = {}
    BY <1>a, <1>p, <1>q, <2>1, <2>3
  <2>5. \A v \in PromptsHeld :
           /\ PromptShape(prompts'[v]) /\ prompts'[v].client = prompts[v].client /\ prompts'[v].session = prompts[v].session
           /\ prompts'[v].phase = prompts[v].phase /\ prompts'[v].shown = prompts[v].shown
    BY <1>a, <2>1
  <2>6. prompts' = [v \in PromptsHeld |-> prompts'[v]]
    BY <2>1 DEF StreamInv, StreamType
  <2>7. TurnsStay
    BY <2>4, <2>5, <2>6 DEF TurnsStay, SameTurn
  <2>8. ClientMoved(g, cl)
    BY <1>b, <2>1, <2>3 DEF ClientMoved
  <2> QED BY <2>7, <2>8, ClientMoves
<1>2. CASE ClientStops(g)
  <2> DEFINE f == PromptRetired(client[g])
             cl == Left(f)
  <2>1. /\ client' = [client EXCEPT ![g] = cl]
        /\ prompts' = [t \in PromptsHeld |-> IF t = client[g].inFlight THEN Quiet(prompts[t]) ELSE prompts[t]]
    BY <1>2 DEF ClientStops
  <2>2. ClientShape(f) /\ f.inFlight = client[g].inFlight /\ f.session = client[g].session /\ f.retired
    BY <1>a, ClientSteps
  <2> HIDE DEF f
  <2>3. ClientShape(cl) /\ cl.inFlight = client[g].inFlight /\ cl.session = client[g].session /\ cl.retired /\ ~cl.live
    BY <2>2, ClientSteps
  <2> HIDE DEF cl
  <2>4. \A v \in PromptsHeld :
           /\ PromptShape(prompts'[v]) /\ prompts'[v].client = prompts[v].client /\ prompts'[v].session = prompts[v].session
           /\ prompts'[v].phase = prompts[v].phase /\ prompts'[v].shown = prompts[v].shown
           /\ IF v = client[g].inFlight THEN prompts'[v].open = {} /\ prompts'[v].waits = {} ELSE prompts'[v] = prompts[v]
    <3> SUFFICES ASSUME NEW v \in PromptsHeld
                 PROVE /\ PromptShape(prompts'[v]) /\ prompts'[v].client = prompts[v].client
                       /\ prompts'[v].session = prompts[v].session
                       /\ prompts'[v].phase = prompts[v].phase /\ prompts'[v].shown = prompts[v].shown
                       /\ IF v = client[g].inFlight THEN prompts'[v].open = {} /\ prompts'[v].waits = {}
                          ELSE prompts'[v] = prompts[v]
      OBVIOUS
    <3>1. prompts'[v] = IF v = client[g].inFlight THEN Quiet(prompts[v]) ELSE prompts[v]
      BY <2>1
    <3>2. PromptShape(prompts[v])
      BY <1>a
    <3> QED BY <3>1, <3>2, PromptSteps
  <2>5. ASSUME NEW v \in PromptsHeld, prompts[v].phase # "prompting" \/ ~client'[prompts[v].client].live
        PROVE  prompts'[v].open = {} /\ prompts'[v].waits = {}
    <3>1. CASE v = client[g].inFlight
      BY <2>4, <3>1
    <3>2. CASE v # client[g].inFlight
      <4>1. prompts[v].phase # "prompting" \/ prompts[v].client # g
        BY <3>2 DEF StreamInv, InFlightPrompts
      <4>2. prompts[v].phase # "prompting" \/ ~client[prompts[v].client].live
        BY <1>a, <1>p, <2>1, <2>5, <4>1
      <4> QED BY <1>q, <2>4, <3>2, <4>2
    <3> QED BY <3>1, <3>2
  <2>6. prompts' = [v \in PromptsHeld |-> prompts'[v]]
    BY <2>1
  <2>7. TurnsStay
    BY <2>4, <2>5, <2>6 DEF TurnsStay, SameTurn
  <2>8. ClientMoved(g, cl)
    BY <2>1, <2>3 DEF ClientMoved
  <2> QED BY <2>7, <2>8, ClientMoves
<1>3. ASSUME NEW v \in PromptsHeld, NEW W \in SUBSET Requests, NEW x \in [Requests -> StreamIds],
             client' = [client EXCEPT ![g] = [client[g] EXCEPT !.waits = x]],
             prompts' = [prompts EXCEPT ![v] = [prompts[v] EXCEPT !.waits = W]],
             W \subseteq prompts[v].waits \/ (prompts[v].phase = "prompting" /\ client[prompts[v].client].live)
      PROVE  StreamInv'
  <2> DEFINE d == [client[g] EXCEPT !.waits = x]
             p == [prompts[v] EXCEPT !.waits = W]
  <2>1. /\ ClientShape(d) /\ d.inFlight = client[g].inFlight /\ d.session = client[g].session /\ d.live = client[g].live
        /\ d.retired = client[g].retired /\ d.owners = client[g].owners
    <3>1. ClientShape(client[g])
      BY <1>a
    <3> QED BY <3>1 DEF ClientShape
  <2>2. /\ PromptShape(p) /\ p.client = prompts[v].client /\ p.session = prompts[v].session
        /\ p.phase = prompts[v].phase /\ p.shown = prompts[v].shown /\ p.open = prompts[v].open /\ p.waits = W
    <3>1. PromptShape(prompts[v])
      BY <1>a
    <3> QED BY <3>1 DEF PromptShape
  <2>3. client' = [client EXCEPT ![g] = d] /\ prompts' = [prompts EXCEPT ![v] = p]
    BY <1>3
  <2> HIDE DEF d, p
  <2>4. /\ DOMAIN prompts' = PromptsHeld /\ prompts'[v] = p /\ \A u \in PromptsHeld : u # v => prompts'[u] = prompts[u]
    BY <1>a, <2>3
  <2>f. prompts' = [u \in PromptsHeld |-> prompts'[u]]
    BY <2>3 DEF StreamInv, StreamType
  <2>5. \A h \in Clients : client'[h].live = client[h].live
    BY <1>a, <2>1, <2>3
  <2>6. \A u \in PromptsHeld :
           /\ PromptShape(prompts'[u]) /\ prompts'[u].client = prompts[u].client /\ prompts'[u].session = prompts[u].session
           /\ prompts'[u].phase = prompts[u].phase /\ prompts'[u].shown = prompts[u].shown
    BY <1>a, <2>2, <2>4
  <2>7. ASSUME NEW u \in PromptsHeld, prompts[u].phase # "prompting" \/ ~client'[prompts[u].client].live
        PROVE  prompts'[u].open = {} /\ prompts'[u].waits = {}
    <3>1. prompts[u].phase # "prompting" \/ ~client[prompts[u].client].live
      BY <1>p, <2>5, <2>7
    <3>2. prompts[u].open = {} /\ prompts[u].waits = {}
      BY <1>q, <3>1
    <3>3. CASE u = v
      BY <1>3, <2>2, <2>4, <3>1, <3>2, <3>3
    <3>4. CASE u # v
      BY <2>4, <3>2, <3>4
    <3> QED BY <3>3, <3>4
  <2>8. TurnsStay
    BY <2>f, <2>6, <2>7 DEF TurnsStay, SameTurn
  <2>9. ClientMoved(g, d)
    BY <1>b, <2>1, <2>3 DEF ClientMoved
  <2> QED BY <2>8, <2>9, ClientMoves
<1>4. ASSUME NEW r \in Requests, RequestOpens(g, r) PROVE StreamInv'
  <2> DEFINE v == client[g].inFlight
             x == [client[g].waits EXCEPT ![r] = v]
             W == prompts[v].waits \cup {r}
  <2>1. /\ v # 0 /\ ~client[g].retired
        /\ client' = [client EXCEPT ![g] = [client[g] EXCEPT !.waits = x]]
        /\ prompts' = [prompts EXCEPT ![v] = [prompts[v] EXCEPT !.waits = W]]
    BY <1>4 DEF RequestOpens
  <2>2. v \in PromptsHeld
    BY <1>b, <2>1 DEF StreamIds
  <2>3. prompts[v].phase = "prompting" /\ prompts[v].client = g /\ client[g].live
    BY <1>b, <2>1, <2>2 DEF StreamInv, InFlightPrompts
  <2>4. x \in [Requests -> StreamIds] /\ W \in SUBSET Requests
    BY <1>a, <1>b, <2>2 DEF PromptShape
  <2> HIDE DEF v, x, W
  <2> QED BY <1>3, <2>1, <2>2, <2>3, <2>4
<1>5. ASSUME NEW r \in Requests, AskAnswered(g, r) PROVE StreamInv'
  <2> DEFINE v == client[g].waits[r]
             x == [client[g].waits EXCEPT ![r] = 0]
             W == prompts[v].waits \ {r}
  <2>1. /\ v # 0
        /\ client' = [client EXCEPT ![g] = [client[g] EXCEPT !.waits = x]]
        /\ prompts' = [prompts EXCEPT ![v] = [prompts[v] EXCEPT !.waits = W]]
    BY Zenon, <1>5 DEF AskAnswered
  <2>2. v \in PromptsHeld
    BY <1>b, <2>1 DEF StreamIds
  <2>4. x \in [Requests -> StreamIds] /\ W \in SUBSET Requests /\ W \subseteq prompts[v].waits
    BY <1>a, <1>b, <2>2 DEF PromptShape, StreamIds
  <2> HIDE DEF v, x, W
  <2> QED BY <1>3, <2>1, <2>2, <2>4
<1> QED BY <1>1, <1>2, <1>4, <1>5

LEMMA StreamKept == StreamInv /\ [StreamNext]_streamVars => StreamInv'
<1> SUFFICES ASSUME StreamInv, [StreamNext]_streamVars PROVE StreamInv'
  OBVIOUS
<1> USE StreamConstants
<1>a. /\ DOMAIN client = Clients /\ DOMAIN prompts = PromptsHeld
      /\ \A g \in Clients : ClientShape(client[g])
      /\ \A t \in PromptsHeld : PromptShape(prompts[t])
  BY DEF StreamInv, StreamType
<1>b. \A g \in Clients : /\ client[g].live \in BOOLEAN /\ client[g].session \in Int /\ client[g].retired \in BOOLEAN
                         /\ client[g].inFlight \in StreamIds /\ client[g].owners \in [ToolCalls -> StreamIds]
                         /\ client[g].waits \in [Requests -> StreamIds]
                         /\ (client[g].live <=> ~client[g].retired)
  BY <1>a DEF ClientShape, StreamInv, LiveAreHeard
<1>1. CASE UNCHANGED streamVars
  BY <1>1 DEF streamVars, StreamInv, StreamType, LiveAreHeard, InFlightPrompts, PromptsInOrder, SessionsGrow, CallsAreOwned,
              ActivityEndsWithItsPrompt
<1>2. ASSUME NEW t \in PromptsHeld, NEW g \in Clients, PromptBegins(t, g) PROVE StreamInv'
  BY <1>2, PromptBeginsKept
<1>3. ASSUME NEW t \in PromptsHeld, PromptReturns(t) PROVE StreamInv'
  <2> DEFINE now == client[prompts[t].client]
             p == Flushing(prompts[t], now)
             rel == Released(now)
  <2>1. prompts[t].phase = "prompting" /\ prompts' = [prompts EXCEPT ![t] = p]
    BY <1>3 DEF PromptReturns
  <2>2. prompts[t].client \in Clients /\ PromptShape(prompts[t])
    BY <1>a, <2>1, PromptsAreSerial
  <2>3. PICK cl : /\ client' = [client EXCEPT ![prompts[t].client] = cl]
                  /\ \/ cl = Taken(PromptForgotten(rel)) /\ now.session > 0
                     \/ cl = Taken(rel)
    BY <1>3 DEF PromptReturns
  <2>4. SameTurn(p, prompts[t]) /\ p.open = {} /\ p.waits = {} /\ p.phase = "flushing"
    BY <2>2, FlushSteps
  <2>5. ClientShape(now) /\ (now.live <=> ~now.retired)
    BY <1>a, <1>b, <2>2
  <2> HIDE DEF now
  <2>6. /\ ClientShape(rel) /\ rel.inFlight = 0 /\ rel.live = now.live
        /\ rel.session = now.session /\ rel.retired = now.retired /\ rel.owners = now.owners
    BY <2>5, ClientSteps
  <2> HIDE DEF p, rel
  <2>7. /\ ClientShape(cl) /\ cl.inFlight = 0 /\ cl.live = now.live /\ cl.retired = now.retired
        /\ \/ cl.session = -now.session /\ now.session > 0
           \/ cl.session = now.session /\ cl.owners = now.owners
    <3>1. CASE cl = Taken(PromptForgotten(rel)) /\ now.session > 0
      <4>1. /\ ClientShape(PromptForgotten(rel)) /\ PromptForgotten(rel).inFlight = 0
            /\ PromptForgotten(rel).live = now.live /\ PromptForgotten(rel).session = -now.session
            /\ PromptForgotten(rel).retired = now.retired
        BY <2>6, ClientSteps
      <4> DEFINE q == PromptForgotten(rel)
      <4> HIDE DEF q
      <4>2. /\ ClientShape(Taken(q)) /\ Taken(q).inFlight = q.inFlight /\ Taken(q).live = q.live
            /\ Taken(q).session = q.session /\ Taken(q).retired = q.retired
        BY <4>1, ClientSteps DEF q
      <4> QED BY <3>1, <4>1, <4>2 DEF q
    <3>2. CASE cl = Taken(rel)
      BY <2>6, <3>2, ClientSteps
    <3> QED BY <2>3, <3>1, <3>2
  <2>8. PromptIsOver(t, p, cl)
    BY <2>1, <2>3, <2>4, <2>5, <2>7 DEF PromptIsOver, now
  <2> QED BY <2>8, StreamEnds
<1>4. ASSUME NEW t \in PromptsHeld, NEW p, prompts[t].phase = "prompting" \/ prompts[t].phase = "flushing",
             SameTurn(p, prompts[t]), p.phase = "flushing", p.open = {}, p.waits = {}, prompts' = [prompts EXCEPT ![t] = p],
             client' = [client EXCEPT ![prompts[t].client] = Taken(Left(PromptRetired(Released(client[prompts[t].client]))))]
      PROVE  StreamInv'
  <2> DEFINE now == client[prompts[t].client]
             a == Released(now)
             b == PromptRetired(a)
             c == Left(b)
             d == Taken(c)
  <2>1. ClientShape(now)
    BY <1>a, <1>4, PromptsAreSerial
  <2>7. client' = [client EXCEPT ![prompts[t].client] = d]
    BY <1>4
  <2> HIDE DEF now
  <2>2. ClientShape(a) /\ a.inFlight = 0 /\ a.session = now.session
    BY <2>1, ClientSteps
  <2> HIDE DEF a
  <2>3. ClientShape(b) /\ b.inFlight = 0 /\ b.session = now.session /\ b.retired
    BY <2>2, ClientSteps
  <2> HIDE DEF b
  <2>4. ClientShape(c) /\ c.inFlight = 0 /\ c.session = now.session /\ c.retired /\ ~c.live
    BY <2>3, ClientSteps
  <2> HIDE DEF c
  <2>5. ClientShape(d) /\ d.inFlight = 0 /\ d.session = now.session /\ d.retired /\ ~d.live
    BY <2>4, ClientSteps
  <2> HIDE DEF d
  <2>6. PromptIsOver(t, p, d)
    BY <1>4, <2>5, <2>7 DEF PromptIsOver, now
  <2> QED BY <2>6, StreamEnds
<1>5. ASSUME NEW t \in PromptsHeld, TurnGivenUp(t) PROVE StreamInv'
  <2> DEFINE p == Flushing(prompts[t], client[prompts[t].client])
  <2>1. /\ prompts[t].phase = "prompting" /\ prompts' = [prompts EXCEPT ![t] = p]
        /\ client' = [client EXCEPT ![prompts[t].client] = Taken(Left(PromptRetired(Released(client[prompts[t].client]))))]
    BY <1>5 DEF TurnGivenUp
  <2>2. SameTurn(p, prompts[t]) /\ p.open = {} /\ p.waits = {} /\ p.phase = "flushing"
    BY <1>a, FlushSteps
  <2> HIDE DEF p
  <2> QED BY <1>4, <2>1, <2>2
<1>6. ASSUME NEW t \in PromptsHeld, NEW p, prompts[t].phase = "flushing", SameTurn(p, prompts[t]),
             p.phase = "over", p.open = prompts[t].open, p.waits = prompts[t].waits,
             prompts' = [prompts EXCEPT ![t] = p], client' = client
      PROVE  StreamInv'
  <2> DEFINE cl == client[prompts[t].client]
  <2>1. prompts[t].client \in Clients /\ cl.inFlight = 0
    BY <1>6, PromptsAreSerial
  <2>2. ClientShape(cl) /\ (cl.live <=> ~cl.retired)
    BY <1>a, <1>b, <1>6, <2>1
  <2>3. client' = [client EXCEPT ![prompts[t].client] = cl]
    BY <1>6, <2>1 DEF StreamInv, StreamType
  <2>4. p.open = {} /\ p.waits = {}
    BY <1>6 DEF StreamInv, ActivityEndsWithItsPrompt
  <2> HIDE DEF cl
  <2>5. PromptIsOver(t, p, cl)
    BY <1>6, <2>1, <2>2, <2>3, <2>4 DEF PromptIsOver, cl
  <2> QED BY <2>5, StreamEnds
<1>7. ASSUME NEW t \in PromptsHeld, NEW q, NEW p, prompts[t].phase = "flushing",
             SameTurn(q, prompts[t]), q.open = prompts[t].open, q.waits = prompts[t].waits,
             p = [q EXCEPT !.phase = "over"] \/ (\E r : p = [q EXCEPT !.phase = "over", !.relayed = r]),
             prompts' = [prompts EXCEPT ![t] = p], client' = client
      PROVE  StreamInv'
  <2>2. /\ PromptShape(p) /\ p.open = q.open /\ p.waits = q.waits /\ p.client = q.client
        /\ p.session = q.session /\ p.shown = q.shown /\ p.phase = "over"
    <3>1. PromptShape(q)
      BY Zenon, <1>7 DEF SameTurn
    <3>2. CASE p = [q EXCEPT !.phase = "over"]
      BY <3>1, <3>2 DEF PromptShape
    <3>3. CASE \E r : p = [q EXCEPT !.phase = "over", !.relayed = r]
      BY <3>1, <3>3 DEF PromptShape
    <3> QED BY Zenon, <1>7, <3>2, <3>3
  <2>3. SameTurn(p, prompts[t]) /\ p.open = prompts[t].open /\ p.waits = prompts[t].waits
    BY Zenon, <1>7, <2>2 DEF SameTurn
  <2> QED BY Zenon, <1>6, <1>7, <2>2, <2>3
<1>8. ASSUME NEW t \in PromptsHeld, FlushPosts(t) PROVE StreamInv'
  <2> DEFINE q == Told(prompts[t], Len(prompts[t].events))
  <2>1. PICK r : /\ prompts[t].phase = "flushing" /\ client' = client
                 /\ prompts' = [prompts EXCEPT ![t] = [q EXCEPT !.phase = "over", !.relayed = r]]
    BY Zenon, <1>8 DEF FlushPosts
  <2>2. SameTurn(q, prompts[t]) /\ q.open = prompts[t].open /\ q.waits = prompts[t].waits
    BY <1>a, ToldSteps
  <2> HIDE DEF q
  <2>3. PICK p : p = [q EXCEPT !.phase = "over", !.relayed = r]
    OBVIOUS
  <2>4. prompts' = [prompts EXCEPT ![t] = p]
    BY <2>1, <2>3
  <2>5. \E z : p = [q EXCEPT !.phase = "over", !.relayed = z]
    BY Zenon, <2>3
  <2> QED BY Zenon, <1>7, <2>1, <2>2, <2>4, <2>5
<1>10. ASSUME NEW t \in PromptsHeld, PostFails(t) PROVE StreamInv'
  <2>1. PICK k \in 0..Len(prompts[t].events) :
       \/ prompts' = [prompts EXCEPT ![t] = [Told(prompts[t], k) EXCEPT !.phase = "over"]] /\ client' = client
       \/ /\ client' = [client EXCEPT ![prompts[t].client] = Taken(Left(PromptRetired(Released(client[prompts[t].client]))))]
          /\ prompts' = [prompts EXCEPT ![t] = Flushing(Told(prompts[t], k), client[prompts[t].client])]
    BY <1>10 DEF PostFails
  <2>0. prompts[t].phase = "flushing"
    BY <1>10 DEF PostFails
  <2> DEFINE q == Told(prompts[t], k)
  <2>2. SameTurn(q, prompts[t]) /\ q.open = prompts[t].open /\ q.waits = prompts[t].waits
    BY <1>a, ToldSteps
  <2>3. CASE prompts' = [prompts EXCEPT ![t] = [q EXCEPT !.phase = "over"]] /\ client' = client
    <3> HIDE DEF q
    <3>1. PICK p : p = [q EXCEPT !.phase = "over"]
      OBVIOUS
    <3>2. prompts' = [prompts EXCEPT ![t] = p]
      BY <2>3, <3>1
    <3> QED BY Zenon, <1>7, <2>0, <2>2, <2>3, <3>1, <3>2
  <2>4. CASE /\ client' = [client EXCEPT ![prompts[t].client] = Taken(Left(PromptRetired(Released(client[prompts[t].client]))))]
             /\ prompts' = [prompts EXCEPT ![t] = Flushing(q, client[prompts[t].client])]
    <3> DEFINE now == client[prompts[t].client]
               p == Flushing(q, now)
    <3> HIDE DEF q, now
    <3>1. SameTurn(p, q) /\ p.open = {} /\ p.waits = {} /\ p.phase = "flushing"
      BY <2>2, FlushSteps DEF SameTurn
    <3>2. prompts' = [prompts EXCEPT ![t] = p]
      BY <2>4 DEF now
    <3> HIDE DEF p
    <3>3. SameTurn(p, prompts[t])
      BY <2>2, <3>1 DEF SameTurn
    <3> QED BY <1>4, <2>0, <2>4, <3>1, <3>2, <3>3
  <2> QED BY <2>1, <2>3, <2>4
<1>9. ASSUME NEW g \in Clients,
             \/ AgentSends(g) \/ RoomLeaves(g) \/ ClientStops(g)
             \/ \E r \in Requests : RequestOpens(g, r) \/ AskAnswered(g, r)
      PROVE  StreamInv'
  BY <1>9, AgentSendsKept, ClientMovesKept
<1> QED BY <1>1, <1>2, <1>3, <1>5, <1>8, <1>9, <1>10 DEF StreamNext

----------------------------------------------------------------------------
(* A behaviour of AdaptersSpec is one of the part it began as.             *)

AdapterInv ==
  /\ adapter = "opencode" => OcInv
  /\ adapter = "stream" => StreamInv
  /\ adapter = "claude" => ClaudeInv
  /\ adapter = "rounds" => RoundsInv

LEMMA AdaptersStart == AdaptersInit => AdapterInv
<1> SUFFICES ASSUME AdaptersInit PROVE AdapterInv
  OBVIOUS
<1>1. /\ adapter = "opencode" => OpencodeInit
      /\ adapter = "stream" => StreamInit
      /\ adapter = "claude" => ClaudeInit
      /\ adapter = "rounds" => RoundsInit
  BY DEF AdaptersInit
<1> QED BY <1>1, OcInvStarts, StreamStarts, ClaudeStarts, RoundsStart DEF AdapterInv

\* A step of the part that runs is a step of that part, and leaves the others where they are.
LEMMA AdaptersKept == AdapterInv /\ [AdaptersNext]_adaptersVars => AdapterInv'
<1> SUFFICES ASSUME AdapterInv, [AdaptersNext]_adaptersVars PROVE AdapterInv'
  OBVIOUS
<1>1. adapter' = adapter
  BY DEF AdaptersNext, adaptersVars
<1>2. ASSUME adapter = "opencode" PROVE OcInv'
  <2>1. [OpencodeNext]_ocVars
    BY <1>2 DEF AdaptersNext, adaptersVars, EnginesPart, SessionsPart, TurnsPart, StreamsPart, SdksPart
  <2> QED BY <1>2, <2>1, OcInvKept DEF AdapterInv
<1>3. ASSUME adapter = "stream" PROVE StreamInv'
  <2>1. [StreamNext]_streamVars
    BY <1>3 DEF AdaptersNext, adaptersVars, EnginesPart, SessionsPart, TurnsPart, StreamsPart, SdksPart
  <2> QED BY <1>3, <2>1, StreamKept DEF AdapterInv
<1>4. ASSUME adapter = "claude" PROVE ClaudeInv'
  <2>1. [ClaudeNext]_claudeVars
    BY <1>4 DEF AdaptersNext, adaptersVars, EnginesPart, SessionsPart, TurnsPart, StreamsPart, SdksPart
  <2> QED BY <1>4, <2>1, ClaudeKept DEF AdapterInv
<1>5. ASSUME adapter = "rounds" PROVE RoundsInv'
  <2>1. [RoundsNext]_roundVars
    BY <1>5 DEF AdaptersNext, adaptersVars, EnginesPart, SessionsPart, TurnsPart, StreamsPart, SdksPart
  <2> QED BY <1>5, <2>1, RoundsKept DEF AdapterInv
<1> QED BY <1>1, <1>2, <1>3, <1>4, <1>5 DEF AdapterInv

\* No event of a turn ends a later one, no turn that was given up speaks, what a prompt
\* shows ends with it, and a round's end is its own: for every number of turns, sessions,
\* asks, processes, resets and rounds.
THEOREM TurnsKeepApart == AdaptersSpec => []TurnsStayApart
<1>1. AdapterInv => TurnsStayApart
  BY DEF AdapterInv, TurnsStayApart, OcInv, StreamInv, ClaudeInv, RoundsInv
<1> QED BY <1>1, AdaptersStart, AdaptersKept, PTL DEF AdaptersSpec
=============================================================================
