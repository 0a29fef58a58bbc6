-------------------------- MODULE PlatformRuntime --------------------------
(***************************************************************************)
(* PlatformRuntime's start and stop (runtime/PlatformRuntime.ts), with the *)
(* gates and the tracker of runtime/lifecycle.ts, the adapters handed to   *)
(* start() and the AgentRuntime each start builds.                         *)
(*                                                                         *)
(* A stop does not wait for a start in flight, it supersedes it, so several*)
(* starts may be awaiting something at once while only the last one, the   *)
(* one of the current era, owns the runtime.  Start k is the k-th that     *)
(* startWithGate lets through; a caller that joins one, or is refused,     *)
(* changes nothing and is not modelled.  Its adapter and its AgentRuntime  *)
(* are named by the same k.                                                *)
(***************************************************************************)
EXTENDS Naturals

CONSTANTS
  MaxStarts,   \* bound: starts let through in one behaviour
  Contacts     \* does the link support contacts?

ASSUME RuntimeAssumption == MaxStarts \in Nat \ {0} /\ Contacts \in BOOLEAN

Starts == 1..MaxStarts
Eras   == 0..MaxStarts       \* the era of start k begins when it is let through
Nobody == 0                  \* undefined, in place of a start

VARIABLES
  status, era,          \* the tracker; era tells one "starting" from another
  startGate,            \* the start startGate holds, or Nobody
  stopGate,             \* is stopGate latched? its stop is the era's only one
  initialized,          \* initPromise
  activeAdapter, runtime, contactsSubscribed,
  pc,                   \* where each start awaits, or how it ended
  claim, hooks,         \* each adapter: what it is owed, its onRuntimeStop calls
  rt,                   \* each AgentRuntime
  teardown,             \* the stop in flight
  stops                 \* the outcome of the stop of each era

ownerVars   == <<activeAdapter, runtime, contactsSubscribed>>
adapterVars == <<claim, hooks>>
stopVars    == <<teardown, stops>>
vars == <<status, era, startGate, stopGate, initialized, ownerVars, pc,
          adapterVars, rt, stopVars>>

NoTeardown == [stage |-> "none", runtime |-> Nobody, adapter |-> Nobody,
               graceful |-> TRUE, errors |-> FALSE]

\* What the starts have taken and no stop has given back: adapters whose
\* onRuntimeStop has not settled and AgentRuntimes not taken down.
Held ==
  {<<"adapter", k>> : k \in {j \in Starts : claim[j] \in {"claimed", "stopping"}}}
  \cup {<<"runtime", k>> : k \in {j \in Starts : rt[j] \in {"starting", "running", "broken"}}}

Owner == INSTANCE Lifecycle WITH
           Resources <- {"adapter", "runtime"} \X Starts, held <- Held

Legal(from, to) == Owner!Legal(from, to)

----------------------------------------------------------------------------
Init ==
  /\ status = "not_started" /\ era = 0
  /\ startGate = Nobody /\ stopGate = FALSE
  /\ initialized = "no"
  /\ activeAdapter = Nobody /\ runtime = Nobody /\ contactsSubscribed = FALSE
  /\ pc = [k \in Starts |-> "none"]
  /\ claim = [k \in Starts |-> "none"] /\ hooks = [k \in Starts |-> 0]
  /\ rt = [k \in Starts |-> "none"]
  /\ teardown = NoTeardown
  /\ stops = [e \in Eras |-> "none"]

\* lifecycle.isCurrent(startState)
IsCurrent(k) == status = "starting" /\ era = k

----------------------------------------------------------------------------
(* start(): startWithGate, then runStart and doStart up to their awaits.   *)

\* A start() that finds the gate held joins that start.
Start ==
  /\ era < MaxStarts
  /\ status # "stopping" /\ startGate = Nobody
  /\ Legal(status, "starting")
  /\ status' = "starting" /\ era' = era + 1
  /\ startGate' = era + 1 /\ stopGate' = FALSE
  /\ pc' = [pc EXCEPT ![era + 1] = "initializing"]
  /\ initialized' = IF initialized = "no" THEN "pending" ELSE initialized
  /\ UNCHANGED <<ownerVars, adapterVars, rt, stopVars>>

\* Broken variant: a start that rejects frees the gate whoever holds it.
RejectFreeing(k) ==
  /\ pc' = [pc EXCEPT ![k] = "rejected"]
  /\ status' = IF IsCurrent(k) THEN "failed" ELSE status
  /\ startGate' = Nobody

\* A start's promise rejects: runStart's catch, and runOrRetry unlatching its own.
Reject(k) ==
  /\ pc' = [pc EXCEPT ![k] = "rejected"]
  /\ status' = IF IsCurrent(k) THEN "failed" ELSE status
  /\ startGate' = IF startGate = k THEN Nobody ELSE startGate

InitializeResolves ==
  /\ initialized = "pending"
  /\ initialized' = "done"
  /\ UNCHANGED <<status, era, startGate, stopGate, ownerVars, pc, adapterVars, rt, stopVars>>

\* Every start that awaits the shared initPromise rejects with it.
InitializeRejects ==
  /\ initialized = "pending"
  /\ initialized' = "no"
  /\ LET waiting == {k \in Starts : pc[k] = "initializing"} IN
       /\ pc' = [k \in Starts |-> IF k \in waiting THEN "rejected" ELSE pc[k]]
       /\ status' = IF \E k \in waiting : IsCurrent(k) THEN "failed" ELSE status
       /\ startGate' = IF startGate \in waiting THEN Nobody ELSE startGate
  /\ UNCHANGED <<era, stopGate, ownerVars, adapterVars, rt, stopVars>>

\* The adapter is claimed before its onStarted, so a stop owes it onRuntimeStop.
ClaimAdapter(k) ==
  /\ pc[k] = "initializing" /\ initialized = "done"
  /\ IsCurrent(k)
  /\ activeAdapter' = k
  /\ claim' = [claim EXCEPT ![k] = "claimed"]
  /\ pc' = [pc EXCEPT ![k] = "adapterStarting"]
  /\ UNCHANGED <<status, era, startGate, stopGate, initialized, runtime,
                 contactsSubscribed, hooks, rt, stopVars>>

SupersededBeforeClaim(k) ==
  /\ pc[k] = "initializing" /\ initialized = "done"
  /\ ~IsCurrent(k)
  /\ Reject(k)
  /\ UNCHANGED <<era, stopGate, initialized, ownerVars, adapterVars, rt, stopVars>>

\* Broken variant: onStarted's await has no checkpoint behind it.
AdapterStartedAnyway(k) ==
  /\ pc[k] = "adapterStarting"
  /\ runtime' = k
  /\ rt' = [rt EXCEPT ![k] = "starting"]
  /\ pc' = [pc EXCEPT ![k] = "runtimeStarting"]
  /\ UNCHANGED <<status, era, startGate, stopGate, initialized, activeAdapter,
                 contactsSubscribed, adapterVars, stopVars>>

\* onStarted resolves, and a start that still is current builds its AgentRuntime;
\* one that was superseded throws.
AdapterStarted(k) ==
  /\ pc[k] = "adapterStarting"
  /\ IF IsCurrent(k)
       THEN /\ runtime' = k
            /\ rt' = [rt EXCEPT ![k] = "starting"]
            /\ pc' = [pc EXCEPT ![k] = "runtimeStarting"]
       ELSE /\ pc' = [pc EXCEPT ![k] = "threw"]
            /\ UNCHANGED <<runtime, rt>>
  /\ UNCHANGED <<status, era, startGate, stopGate, initialized, activeAdapter,
                 contactsSubscribed, adapterVars, stopVars>>

AdapterStartFails(k) ==
  /\ pc[k] = "adapterStarting"
  /\ pc' = [pc EXCEPT ![k] = "threw"]
  /\ UNCHANGED <<status, era, startGate, stopGate, initialized, ownerVars,
                 adapterVars, rt, stopVars>>

\* AgentRuntime.start() has resolved: the next checkpoint, then contacts.
Connect(k) ==
  /\ pc[k] = "runtimeStarted"
  /\ IF IsCurrent(k)
       THEN /\ contactsSubscribed' = Contacts
            /\ pc' = [pc EXCEPT ![k] = "connected"]
       ELSE /\ pc' = [pc EXCEPT ![k] = "threw"]
            /\ UNCHANGED contactsSubscribed
  /\ UNCHANGED <<status, era, startGate, stopGate, initialized, activeAdapter,
                 runtime, adapterVars, rt, stopVars>>

\* The end of runStart: a stop may have come between doStart and here.
Resolve(k) ==
  /\ pc[k] = "connected"
  /\ pc' = [pc EXCEPT ![k] = "resolved"]
  /\ status' = IF IsCurrent(k) THEN "running" ELSE status
  /\ UNCHANGED <<era, startGate, stopGate, initialized, ownerVars, adapterVars,
                 rt, stopVars>>

----------------------------------------------------------------------------
(* stop(): runStop up to its first await, for stop() and for the cleanup   *)
(* of a failed start.                                                      *)

NothingBuilt == runtime = Nobody /\ activeAdapter = Nobody

\* Broken variant: with nothing built there is nothing to report.
StopNothingGraceful ==
  /\ status' = IF status = "starting" THEN "stopped" ELSE status
  /\ stops' = [stops EXCEPT ![era] = "graceful"]
  /\ UNCHANGED <<ownerVars, adapterVars, teardown>>

\* A recorded failure is thrown again; otherwise there is nothing to do.
StopNothing ==
  /\ status' = IF status = "starting" THEN "stopped" ELSE status
  /\ stops' = [stops EXCEPT ![era] = IF status = "failed" THEN "failed" ELSE "graceful"]
  /\ UNCHANGED <<ownerVars, adapterVars, teardown>>

CallHook(a) ==
  /\ claim' = [claim EXCEPT ![a] = "stopping"]
  /\ hooks' = [hooks EXCEPT ![a] = @ + 1]

\* Broken variant: a stop keeps the adapter it stops as the active one.
StopBuiltKeeping ==
  /\ Legal(status, "stopping") /\ status' = "stopping"
  /\ runtime' = Nobody /\ contactsSubscribed' = FALSE
  /\ teardown' = [NoTeardown EXCEPT
                    !.stage = IF runtime = Nobody THEN "adapter" ELSE "runtime",
                    !.runtime = runtime, !.adapter = activeAdapter]
  /\ stops' = [stops EXCEPT ![era] = "pending"]
  /\ IF runtime = Nobody THEN CallHook(activeAdapter) ELSE UNCHANGED adapterVars
  /\ UNCHANGED activeAdapter

StopBuilt ==
  /\ Legal(status, "stopping") /\ status' = "stopping"
  /\ activeAdapter' = Nobody /\ runtime' = Nobody /\ contactsSubscribed' = FALSE
  /\ teardown' = [NoTeardown EXCEPT
                    !.stage = IF runtime = Nobody THEN "adapter" ELSE "runtime",
                    !.runtime = runtime, !.adapter = activeAdapter]
  /\ stops' = [stops EXCEPT ![era] = "pending"]
  /\ IF runtime = Nobody THEN CallHook(activeAdapter) ELSE UNCHANGED adapterVars

\* stopGate.run(): a latched stop is joined.
BeginStop ==
  IF stopGate
    THEN UNCHANGED <<status, startGate, stopGate, ownerVars, adapterVars, stopVars>>
    ELSE /\ stopGate' = TRUE /\ startGate' = Nobody
         /\ IF NothingBuilt THEN StopNothing ELSE StopBuilt

Stop ==
  /\ ~stopGate
  /\ BeginStop
  /\ UNCHANGED <<era, initialized, pc, rt>>

\* Broken variant: a superseded start cleans up too.
CleanUpAnyway(k) ==
  /\ pc[k] = "threw"
  /\ pc' = [pc EXCEPT ![k] = "cleaning"]
  /\ BeginStop
  /\ UNCHANGED <<era, initialized, rt>>

\* doStart's catch: a superseded start cleans nothing up.
CleanUp(k) ==
  /\ pc[k] = "threw" /\ IsCurrent(k)
  /\ pc' = [pc EXCEPT ![k] = "cleaning"]
  /\ BeginStop
  /\ UNCHANGED <<era, initialized, rt>>

Superseded(k) ==
  /\ pc[k] = "threw" /\ ~IsCurrent(k)
  /\ Reject(k)
  /\ UNCHANGED <<era, stopGate, initialized, ownerVars, adapterVars, rt, stopVars>>

CleanedUp(k) ==
  /\ pc[k] = "cleaning" /\ stops[k] # "pending"
  /\ Reject(k)
  /\ UNCHANGED <<era, stopGate, initialized, ownerVars, adapterVars, rt, stopVars>>

\* Broken variant: the AgentRuntime's failure ends the stop there and then.
RuntimeStoppedOrThrown ==
  /\ teardown.stage = "runtime" /\ rt[teardown.runtime] # "starting"
  /\ rt' = [rt EXCEPT ![teardown.runtime] = "released"]
  /\ \/ /\ teardown' = [teardown EXCEPT !.stage = "adapter"]
        /\ CallHook(teardown.adapter) /\ UNCHANGED <<status, stops>>
     \/ /\ teardown' = NoTeardown /\ status' = "failed"
        /\ stops' = [stops EXCEPT ![era] = "failed"] /\ UNCHANGED adapterVars
  /\ UNCHANGED <<era, startGate, stopGate, initialized, ownerVars, pc>>

\* AgentRuntime.stop() waits for its own start; then it takes everything down,
\* and its outcome, whatever it is, does not keep onRuntimeStop from being called.
RuntimeStopped ==
  /\ teardown.stage = "runtime"
  /\ LET r == teardown.runtime IN
       /\ rt[r] # "starting"
       /\ \E outcome \in IF rt[r] = "broken" THEN {"failed"}
                         ELSE IF rt[r] = "released" THEN {"graceful"}
                         ELSE {"graceful", "forced", "failed"} :
            teardown' = [teardown EXCEPT !.stage = "adapter",
                                         !.graceful = outcome # "forced",
                                         !.errors = outcome = "failed"]
       /\ rt' = [rt EXCEPT ![r] = "released"]
  /\ CallHook(teardown.adapter)
  /\ UNCHANGED <<status, era, startGate, stopGate, initialized, ownerVars, pc, stops>>

\* Broken variant: a stop ends only after the onStarted it superseded.
HookSettlesAfterStart(throws) ==
  /\ teardown.stage = "adapter" /\ pc[teardown.adapter] # "adapterStarting"
  /\ claim' = [claim EXCEPT ![teardown.adapter] = "released"]
  /\ status' = IF throws \/ teardown.errors THEN "failed" ELSE "stopped"
  /\ stops' = [stops EXCEPT ![era] = IF throws \/ teardown.errors THEN "failed" ELSE "graceful"]
  /\ teardown' = NoTeardown
  /\ UNCHANGED <<era, startGate, stopGate, initialized, ownerVars, pc, hooks, rt>>

\* onRuntimeStop settles, which ends the stop.
HookSettles(throws) ==
  /\ teardown.stage = "adapter"
  /\ claim' = [claim EXCEPT ![teardown.adapter] = "released"]
  /\ LET failed == throws \/ teardown.errors IN
       /\ status' = IF failed THEN "failed" ELSE "stopped"
       /\ stops' = [stops EXCEPT ![era] = IF failed THEN "failed"
                                          ELSE IF teardown.graceful THEN "graceful"
                                          ELSE "forced"]
  /\ teardown' = NoTeardown
  /\ UNCHANGED <<era, startGate, stopGate, initialized, ownerVars, pc, hooks, rt>>

----------------------------------------------------------------------------
(* The AgentRuntime of each start, as far as PlatformRuntime sees it.      *)

RuntimeStarts(k) ==
  /\ pc[k] = "runtimeStarting" /\ rt[k] = "starting"
  /\ rt' = [rt EXCEPT ![k] = "running"]
  /\ pc' = [pc EXCEPT ![k] = "runtimeStarted"]
  /\ UNCHANGED <<status, era, startGate, stopGate, initialized, ownerVars,
                 adapterVars, stopVars>>

\* It cleans up after itself; if even that fails it is left for a stop.
RuntimeStartFails(k) ==
  /\ pc[k] = "runtimeStarting" /\ rt[k] = "starting"
  /\ \E left \in {"released", "broken"} : rt' = [rt EXCEPT ![k] = left]
  /\ pc' = [pc EXCEPT ![k] = "threw"]
  /\ UNCHANGED <<status, era, startGate, stopGate, initialized, ownerVars,
                 adapterVars, stopVars>>

\* A fatal error of a room or of the event loop, which PlatformRuntime does not watch.
RuntimeBreaks(k) ==
  /\ rt[k] = "running"
  /\ rt' = [rt EXCEPT ![k] = "broken"]
  /\ UNCHANGED <<status, era, startGate, stopGate, initialized, ownerVars, pc,
                 adapterVars, stopVars>>

----------------------------------------------------------------------------
\* The steps that follow once what they wait for is there.
Continues ==
  \/ InitializeResolves \/ InitializeRejects
  \/ RuntimeStopped \/ (\E throws \in BOOLEAN : HookSettles(throws))
  \/ \E k \in Starts :
       \/ ClaimAdapter(k) \/ SupersededBeforeClaim(k) \/ Connect(k) \/ Resolve(k)
       \/ CleanUp(k) \/ Superseded(k) \/ CleanedUp(k)
       \/ RuntimeStarts(k) \/ RuntimeStartFails(k)

\* onStarted settles: an adapter may take for ever over it.
AdapterSettles(k) == AdapterStarted(k) \/ AdapterStartFails(k)

Internal == Continues \/ \E k \in Starts : AdapterSettles(k) \/ RuntimeBreaks(k)

Next == Start \/ Stop \/ Internal

Spec == Init /\ [][Next]_vars

\* REST, the link and onRuntimeStop settle; onStarted and the callers owe nothing.
FairSpec == Spec /\ WF_vars(Continues)

----------------------------------------------------------------------------
(* Properties.                                                             *)

Points ==   \* where a start may be
  {"none", "initializing", "adapterStarting", "runtimeStarting", "runtimeStarted",
   "connected", "threw", "cleaning", "resolved", "rejected"}
Outcomes == {"none", "pending", "graceful", "forced", "failed"}
Teardowns == [stage : {"none", "runtime", "adapter"}, runtime : Eras, adapter : Eras,
              graceful : BOOLEAN, errors : BOOLEAN]

\* The shape of the state; no adapter's onRuntimeStop is ever called twice.
TypeOK ==
  /\ status \in Owner!Statuses /\ era \in Eras
  /\ startGate \in Eras /\ stopGate \in BOOLEAN
  /\ initialized \in {"no", "pending", "done"}
  /\ activeAdapter \in Eras /\ runtime \in Eras /\ contactsSubscribed \in BOOLEAN
  /\ pc \in [Starts -> Points]
  /\ claim \in [Starts -> {"none", "claimed", "stopping", "released"}]
  /\ hooks \in [Starts -> 0..1]
  /\ rt \in [Starts -> {"none", "starting", "running", "broken", "released"}]
  /\ teardown \in Teardowns
  /\ stops \in [Eras -> Outcomes]

\* The runtime takes an adapter or builds an AgentRuntime only for the start that
\* owns it, and reports "stopped" or "failed" only with all of them given back,
\* however many superseded starts are still awaiting something.
ImplementsLifecycle == Owner!Spec

\* Every adapter whose onStarted was called gets onRuntimeStop exactly once, from
\* the stop that takes its start down: never from a superseded start's cleanup,
\* never twice from a cleanup and a stop() that race
\* (runtime-lifecycle.test.ts:562-583 and 645-697).
AdapterStoppedOnce ==
  \A k \in Starts :
    hooks[k] = IF \/ claim[k] = "none" \/ activeAdapter = k
                  \/ teardown.stage = "runtime" /\ teardown.adapter = k
                 THEN 0 ELSE 1

\* A start() is joined, refused or let through, and never runs into the transition
\* table: outside a stop the gate is free exactly when starting is legal.  A
\* superseded start that rejects late must not free the gate of the next one.
StartsAreJoined ==
  status # "stopping" => (startGate = Nobody <=> Legal(status, "starting"))

\* A start that is not current any more moves on without touching the tracker, the
\* gates, the current adapter and runtime, or a stop in flight.
SupersededStartsAreInert ==
  [][ /\ \E k \in Starts : pc[k] # "none" /\ pc'[k] # pc[k] /\ ~IsCurrent(k)
      /\ \A k \in Starts : IsCurrent(k) => pc'[k] = pc[k]
      => UNCHANGED <<status, startGate, stopGate, ownerVars, adapterVars, teardown>>
    ]_vars

\* What stop() answers, to its first caller and to those that join it, is a failure
\* exactly while `state` says "failed": no graceful answer hides one
\* (PlatformRuntime.ts:367-376).
StopTellsTheTruth ==
  stopGate /\ stops[era] # "pending" => (stops[era] = "failed" <=> status = "failed")

\* A stop ends although the onStarted it superseded never settles
\* (PlatformRuntime.ts:354-361).
StopSettles ==
  \A e \in Eras : stops[e] = "pending" ~> stops[e] # "pending"
=============================================================================
