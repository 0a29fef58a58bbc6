------------------------------- MODULE Agent -------------------------------
(***************************************************************************)
(* Agent (agent/Agent.ts) over its PlatformRuntime: two trackers and two   *)
(* pairs of gates, one above the other.  Agent is the only caller of its   *)
(* runtime's start() and stop() (Agent.ts:97-101), so start k of the agent *)
(* is start k of the runtime.                                              *)
(***************************************************************************)
EXTENDS PlatformRuntime

VARIABLES
  agentStatus,     \* Agent's tracker
  agentStartGate,  \* the start its startGate holds, or Nobody
  agentStopGate,   \* is its stopGate latched?
  agentPc,         \* each runStart of the agent
  shutdown,        \* the runStop in flight: what it awaits, and the start it found
  agentStops       \* the outcome of the agent's stop of each era

agentVars == <<agentStatus, agentStartGate, agentStopGate, agentPc, shutdown, agentStops>>
allVars   == <<vars, agentVars>>

NoShutdown == [awaits |-> "nothing", start |-> Nobody]

AgentInit ==
  /\ Init
  /\ agentStatus = "not_started"
  /\ agentStartGate = Nobody /\ agentStopGate = FALSE
  /\ agentPc = [k \in Starts |-> "none"]
  /\ shutdown = NoShutdown
  /\ agentStops = [e \in Eras |-> "none"]

AgentIsCurrent(k) == agentStatus = "starting" /\ era = k

----------------------------------------------------------------------------
\* start(): startWithGate, and runStart calls platformRuntime.start() at once.
AgentStart ==
  /\ agentStatus # "stopping" /\ agentStartGate = Nobody
  /\ Legal(agentStatus, "starting")
  /\ Start
  /\ agentStatus' = "starting"
  /\ agentStartGate' = era + 1 /\ agentStopGate' = FALSE
  /\ agentPc' = [agentPc EXCEPT ![era + 1] = "starting"]
  /\ UNCHANGED <<shutdown, agentStops>>

\* Broken variants: runStart reports on whatever start the tracker is at now.
AgentStartedAnyway(k) ==
  /\ agentPc[k] = "starting" /\ pc[k] = "resolved"
  /\ agentPc' = [agentPc EXCEPT ![k] = "resolved"]
  /\ agentStatus' = "running"
  /\ UNCHANGED <<vars, agentStartGate, agentStopGate, shutdown, agentStops>>

AgentStartFailsAnyway(k) ==
  /\ agentPc[k] = "starting" /\ pc[k] = "rejected"
  /\ agentPc' = [agentPc EXCEPT ![k] = "rejected"]
  /\ agentStatus' = "failed"
  /\ agentStartGate' = IF agentStartGate = k THEN Nobody ELSE agentStartGate
  /\ UNCHANGED <<vars, agentStopGate, shutdown, agentStops>>

\* runStart goes on: the runtime's start has resolved, or has rejected.
AgentStarted(k) ==
  /\ agentPc[k] = "starting" /\ pc[k] = "resolved"
  /\ agentPc' = [agentPc EXCEPT ![k] = "resolved"]
  /\ agentStatus' = IF AgentIsCurrent(k) THEN "running" ELSE agentStatus
  /\ UNCHANGED <<vars, agentStartGate, agentStopGate, shutdown, agentStops>>

AgentStartFails(k) ==
  /\ agentPc[k] = "starting" /\ pc[k] = "rejected"
  /\ agentPc' = [agentPc EXCEPT ![k] = "rejected"]
  /\ agentStatus' = IF AgentIsCurrent(k) THEN "failed" ELSE agentStatus
  /\ agentStartGate' = IF agentStartGate = k THEN Nobody ELSE agentStartGate
  /\ UNCHANGED <<vars, agentStopGate, shutdown, agentStops>>

----------------------------------------------------------------------------
\* stop() with nothing to stop: a failed start is thrown again.
AgentStopNothing ==
  /\ ~agentStopGate /\ agentStatus \notin {"starting", "running"}
  /\ agentStopGate' = TRUE
  /\ agentStops' = [agentStops EXCEPT ![era] =
                      IF agentStatus = "failed" THEN "failed" ELSE "graceful"]
  /\ UNCHANGED <<vars, agentStatus, agentStartGate, agentPc, shutdown>>

\* Broken variant: the start in flight is awaited with no stop of the runtime issued.
AgentStopQueued ==
  /\ ~agentStopGate /\ agentStatus \in {"starting", "running"}
  /\ agentStopGate' = TRUE /\ agentStartGate' = Nobody
  /\ agentStatus' = "stopping"
  /\ shutdown' = IF agentStatus = "starting"
                   THEN [awaits |-> "start", start |-> agentStartGate]
                   ELSE [awaits |-> "stop", start |-> Nobody]
  /\ agentStops' = [agentStops EXCEPT ![era] = "pending"]
  /\ UNCHANGED <<vars, agentPc>>

\* stop() of a start in flight or over: the runtime's stop is called before that
\* start is awaited.
AgentStop ==
  /\ ~agentStopGate /\ agentStatus \in {"starting", "running"}
  /\ agentStopGate' = TRUE /\ agentStartGate' = Nobody
  /\ agentStatus' = "stopping"
  /\ BeginStop /\ UNCHANGED <<era, initialized, pc, rt>>
  /\ shutdown' = IF agentStatus = "starting"
                   THEN [awaits |-> "start", start |-> agentStartGate]
                   ELSE [awaits |-> "stop", start |-> Nobody]
  /\ agentStops' = [agentStops EXCEPT ![era] = "pending"]
  /\ UNCHANGED agentPc

AgentStopAwaitedStart ==
  /\ shutdown.awaits = "start"
  /\ agentPc[shutdown.start] \in {"resolved", "rejected"}
  /\ shutdown' = [shutdown EXCEPT !.awaits = "stop"]
  /\ UNCHANGED <<vars, agentStatus, agentStartGate, agentStopGate, agentPc, agentStops>>

AgentStopped ==
  /\ shutdown.awaits = "stop" /\ stops[era] # "pending"
  /\ agentStatus' = IF stops[era] = "failed" THEN "failed" ELSE "stopped"
  /\ agentStops' = [agentStops EXCEPT ![era] = stops[era]]
  /\ shutdown' = NoShutdown
  /\ UNCHANGED <<vars, agentStartGate, agentStopGate, agentPc>>

----------------------------------------------------------------------------
AgentContinues ==
  \/ AgentStopAwaitedStart \/ AgentStopped
  \/ \E k \in Starts : AgentStarted(k) \/ AgentStartFails(k)

RuntimeContinues == Continues /\ UNCHANGED agentVars

AdapterSettlesOf(k) == AdapterSettles(k) /\ UNCHANGED agentVars

AgentNext ==
  \/ AgentStart \/ AgentStop \/ AgentStopNothing \/ AgentContinues
  \/ RuntimeContinues
  \/ \E k \in Starts : AdapterSettlesOf(k) \/ (RuntimeBreaks(k) /\ UNCHANGED agentVars)

AgentSpec == AgentInit /\ [][AgentNext]_allVars

\* As FairSpec: an onStarted may never settle.
AgentFairSpec ==
  AgentSpec /\ WF_allVars(AgentContinues) /\ WF_allVars(RuntimeContinues)

----------------------------------------------------------------------------
(* Properties.                                                             *)

\* The two trackers cannot drift into refusing each other: a start the agent lets
\* through is let through by its runtime too, and an agent that reports running or
\* an end has a runtime that agrees, a failed start apart, which the runtime may
\* have cleaned up (Agent.ts:97-101, 132).
TrackersAgree ==
  /\ agentStatus \in {"not_started", "running"} => status = agentStatus
  /\ agentStatus = "stopped" => status = "stopped"
  /\ agentStatus = "failed" => status \in {"stopped", "failed"}
  /\ agentStatus \in {"not_started", "stopped", "failed"} => startGate = Nobody

\* An agent's stop ends (Agent.ts:176-178).
AgentStopSettles ==
  \A e \in Eras : agentStops[e] = "pending" ~> agentStops[e] # "pending"
=============================================================================
