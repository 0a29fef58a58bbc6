------------------------------ MODULE GraphRounds ------------------------------
(***************************************************************************)
(* The tool rounds of a turn that a framework runs itself: Google ADK's    *)
(* runner, whose events the adapter follows, and LangGraph's built-in      *)
(* agent, which asks the adapter before each model call.  In both a turn   *)
(* that declines to answer ends once its round is over, unless a sibling   *)
(* call failed, and the rounds are limited.                                *)
(***************************************************************************)
EXTENDS Naturals, FiniteSets

CONSTANTS
  Slots,      \* the calls of one round
  CallIds,    \* the provider's call ids; 0 is a call without one
  MaxRounds   \* maxToolRounds, and LangGraph's recursion limit

ASSUME RoundsAssumption == 0 \in CallIds /\ IsFiniteSet(Slots) /\ MaxRounds \in Nat

VARIABLES
  framework,  \* "adk" or "langgraph"
  rounds,     \* RoundOutcome.rounds
  made,       \* the calls of the round, by slot
  seen,       \* seenCallIds
  roster,     \* ToolCallRoster
  outcome,    \* ToolRoundOutcome
  turnStage

roundVars == <<framework, rounds, made, seen, roster, outcome, turnStage>>

NotMade == [id |-> 0, state |-> "none", told |-> FALSE]
NewOutcome == [declined |-> FALSE, failed |-> FALSE]

RoundsInit ==
  /\ framework \in {"adk", "langgraph"} /\ rounds = 0 /\ made = [s \in Slots |-> NotMade] /\ seen = {}
  /\ roster = [pending |-> {}, valid |-> FALSE] /\ outcome = NewOutcome /\ turnStage = "model"

Made == {s \in Slots : made[s].state # "none"}
Untold == {s \in Made : ~made[s].told}

\* ToolCallRoster: valid when every call has an id, its own, and a new one.
Named(ids) == {ids[s] : s \in DOMAIN ids} \ {0}
RosterOfAny(ids) == [pending |-> Named(ids), valid |-> TRUE]
RosterOf(ids) ==
  [pending |-> Named(ids), valid |-> Cardinality(Named(ids)) = Cardinality(DOMAIN ids) /\ Named(ids) \cap seen = {}]

\* RoundOutcome.start, and the calls the model makes.  One round too many ends the turn
\* before they run.
OutcomeKept == outcome
OutcomeStarted == NewOutcome
ModelCalls(ids) ==
  /\ turnStage = "model" /\ rounds <= MaxRounds
  /\ rounds' = rounds + 1
  /\ IF rounds' > MaxRounds
     THEN turnStage' = "failed" /\ UNCHANGED <<made, seen, roster, outcome>>
     ELSE /\ turnStage' = "tools"
          /\ made' = [s \in Slots |-> IF s \in DOMAIN ids THEN [id |-> ids[s], state |-> "made", told |-> FALSE]
                                      ELSE NotMade]
          /\ roster' = RosterOf(ids) /\ seen' = seen \cup Named(ids)
          /\ outcome' = OutcomeStarted
  /\ UNCHANGED framework

ModelAnswers ==
  /\ turnStage = "model" /\ turnStage' = "answered"
  /\ UNCHANGED <<framework, rounds, made, seen, roster, outcome>>

\* ToolRoundOutcome.run: a call lands, declines or fails, and the round has the fact.
FailsNever(how) == FALSE
Fails(how) == how = "failed"
CallSettles(s, how) ==
  /\ turnStage = "tools" /\ made[s].state = "made"
  /\ made' = [made EXCEPT ![s].state = how]
  /\ outcome' = [declined |-> outcome.declined \/ how = "declined", failed |-> outcome.failed \/ Fails(how)]
  /\ UNCHANGED <<framework, rounds, seen, roster, turnStage>>

\* band-sdk-core's rule, for a round that is complete.
Declines == outcome.declined /\ ~outcome.failed

\* An event of the ADK's with responses: the turn is left when they complete the roster.
Responds(told) ==
  LET pending == roster.pending \ {made[s].id : s \in told}
      finishes == roster.valid /\ pending = {} /\ Declines
  IN /\ framework = "adk" /\ turnStage = "tools"
     /\ told # {} /\ told \subseteq {s \in Untold : made[s].state # "made"}
     /\ made' = [s \in Slots |-> [made[s] EXCEPT !.told = @ \/ s \in told]]
     /\ roster' = [roster EXCEPT !.pending = pending]
     /\ turnStage' = IF finishes THEN "declined" ELSE IF Untold = told THEN "model" ELSE "tools"
     /\ UNCHANGED <<framework, rounds, seen, outcome>>

\* LangGraph's preModelHook, once every call of the step is over: an interrupt ends the run.
\* The limit may refuse that step too, and leaves a declined turn declined.
StepEnds ==
  /\ framework = "langgraph" /\ turnStage = "tools" /\ \A s \in Made : made[s].state # "made"
  /\ made' = [s \in Slots |-> [made[s] EXCEPT !.told = TRUE]]
  /\ IF Declines THEN turnStage' = "declined" ELSE turnStage' \in {"model", "failed"}
  /\ UNCHANGED <<framework, rounds, seen, roster, outcome>>

\* The provider fails, or the model reports an error.
RunFails ==
  /\ turnStage \in {"model", "tools"}
  /\ turnStage' = "failed"
  /\ UNCHANGED <<framework, rounds, made, seen, roster, outcome>>

RoundsNext ==
  \/ \E S \in SUBSET Slots \ {{}} : \E ids \in [S -> CallIds] : ModelCalls(ids)
  \/ \E s \in Slots, how \in {"landed", "declined", "failed"} : CallSettles(s, how)
  \/ \E told \in SUBSET Slots : Responds(told)
  \/ ModelAnswers \/ StepEnds \/ RunFails

RoundsSpec == RoundsInit /\ [][RoundsNext]_roundVars

-----------------------------------------------------------------------------

\* A turn ends as declined only on its last round's own facts: every call of it is over, one
\* declined and none failed, whatever ids the calls came with and in whichever order they
\* were answered.
DeclineIsOfTheRound ==
  turnStage = "declined" => /\ \A s \in Made : made[s].state \in {"landed", "declined"}
                            /\ \E s \in Made : made[s].state = "declined"

\* And the model is asked no more once such a round is over, but where the ids leave it
\* open which calls it was answered for.
DeclineEndsTheTurn ==
  turnStage = "model" /\ Made # {} /\ (framework = "adk" => roster.valid)
    => (\E s \in Made : made[s].state = "failed") \/ \A s \in Made : made[s].state # "declined"

\* No call of a round past the limit is made.
RoundsAreLimited == turnStage = "tools" => rounds <= MaxRounds

RoundsEndInTime == DeclineIsOfTheRound /\ DeclineEndsTheTurn /\ RoundsAreLimited
=============================================================================
