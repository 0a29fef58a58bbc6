------------------------------ MODULE MCAgent ------------------------------
(***************************************************************************)
(* A PlatformRuntime and who owns it: an Agent, or a caller of its own     *)
(* that may start and stop it at any moment (`alone`).                     *)
(***************************************************************************)
EXTENDS Agent

VARIABLE alone

mcVars == <<alone, allVars>>

Alone(A) == alone /\ A /\ UNCHANGED <<alone, agentVars>>
Owned(A) == ~alone /\ A /\ UNCHANGED alone

MCInit == alone \in BOOLEAN /\ AgentInit

MCNext == Alone(Next) \/ Owned(AgentNext)

\* As FairSpec and AgentFairSpec; and an adapter whose onStarted hangs under an Agent
\* gives it up once its onRuntimeStop has run.
MCSpec ==
  /\ MCInit /\ [][MCNext]_mcVars
  /\ WF_mcVars(Alone(Continues))
  /\ WF_mcVars(Owned(RuntimeContinues)) /\ WF_mcVars(Owned(AgentContinues))
  /\ \A k \in Starts : WF_mcVars(Owned(hooks[k] > 0 /\ AdapterSettlesOf(k)))

----------------------------------------------------------------------------
\* An Agent and its runtime never drift into refusing each other.
OwnersAgree == alone \/ TrackersAgree

TopOwner == INSTANCE Lifecycle WITH
              Resources <- {"adapter", "runtime"} \X Starts,
              status <- IF alone THEN status ELSE agentStatus, held <- Held

\* Whoever owns the runtime sees the same promise kept: adapter and AgentRuntime are
\* taken only while the owner starts, and given back when it reports an end.
OwnersImplementLifecycle == TopOwner!Spec

\* Whoever stops is answered: the runtime's stop although the onStarted it superseded
\* never settles, and the Agent's.
StopsSettle == StopSettles /\ AgentStopSettles
=============================================================================
