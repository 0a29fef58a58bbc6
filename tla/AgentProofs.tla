---------------------------- MODULE AgentProofs ----------------------------
(***************************************************************************)
(* Theorems about PlatformRuntime, and about an Agent over it, for every   *)
(* number of starts.                                                       *)
(*                                                                         *)
(* One inductive invariant carries the runtime's: it ties the tracker's    *)
(* status to the gates, to where the current start is, and to who owes     *)
(* what to each adapter and AgentRuntime.                                  *)
(*                                                                         *)
(* An Agent that starts may have a runtime in any state, for a start that  *)
(* fails cleans up after itself.  The second invariant pairs the runtime's *)
(* status with where the Agent's start is; what a step of the runtime may  *)
(* do to the pair (RuntimeMoves) follows from the first.  So the two       *)
(* trackers agree, and the two together are one owner.                     *)
(***************************************************************************)
EXTENDS MCAgent, TLAPS

----------------------------------------------------------------------------
(* The inductive invariant.                                                *)

\* What each status says of the gates, of the current owner and of its start.
StatusInv ==
  /\ status = "not_started" <=> era = 0
  /\ status = "starting" =>
       /\ startGate = era /\ ~stopGate
       /\ pc[era] \in {"initializing", "adapterStarting", "runtimeStarting",
                       "runtimeStarted", "connected", "threw"}
       /\ pc[era] = "initializing" => activeAdapter = Nobody
       /\ pc[era] # "initializing" => activeAdapter = era
       /\ pc[era] \in {"initializing", "adapterStarting"} => runtime = Nobody
       /\ pc[era] \in {"runtimeStarting", "runtimeStarted", "connected"} => runtime = era
       /\ runtime \in {Nobody, era}
  /\ status = "running" =>
       /\ startGate = era /\ ~stopGate
       /\ pc[era] = "resolved"
       /\ activeAdapter = era /\ runtime = era
  /\ status \notin {"starting", "running"} =>
       startGate = Nobody /\ activeAdapter = Nobody /\ runtime = Nobody

\* A stop in flight belongs to the era.
TeardownInv ==
  /\ status = "stopping" <=> teardown.stage # "none"
  /\ teardown.stage # "none" => teardown.adapter = era
  /\ teardown.stage = "runtime" => teardown.runtime = era

\* The last stop of the era and the status tell the same.
OutcomeInv ==
  /\ status = "stopping" => stopGate
  /\ stopGate => /\ stops[era] = "pending" <=> status = "stopping"
                 /\ stops[era] = "failed" <=> status = "failed"

\* Only the current start's adapter, or the one being stopped, is still owed
\* anything, and an adapter's hook has been called exactly if it is past "claimed".
ClaimInv ==
  \A k \in Starts :
    /\ claim[k] = "claimed" <=>
         activeAdapter = k \/ (teardown.stage = "runtime" /\ era = k)
    /\ claim[k] = "stopping" <=> (teardown.stage = "adapter" /\ era = k)
    /\ hooks[k] = IF claim[k] \in {"none", "claimed"} THEN 0 ELSE 1

\* No AgentRuntime but the current one, or the one being stopped, is alive.
AliveInv ==
  \A k \in Starts :
    rt[k] \in {"starting", "running", "broken"} =>
      runtime = k \/ (teardown.stage = "runtime" /\ era = k)

\* Starts to come, and starts that have not claimed, have touched nothing.
FreshInv ==
  \A k \in Starts :
    /\ era < k => pc[k] = "none"
    /\ pc[k] \in {"none", "initializing"} => claim[k] = "none"

OwnerInv == StatusInv /\ TeardownInv /\ OutcomeInv /\ ClaimInv /\ AliveInv /\ FreshInv

IndInv == TypeOK /\ OwnerInv

----------------------------------------------------------------------------
(* A stop that begins.                                                     *)

\* What it does: it finds either nothing built, or the adapter of the era, whose
\* AgentRuntime, if there is one, goes first.
StopBegun ==
  /\ stopGate' = TRUE /\ startGate' = Nobody
  /\ activeAdapter' = Nobody /\ runtime' = Nobody
  /\ contactsSubscribed' \in BOOLEAN
  /\ \/ /\ status' = IF status = "starting" THEN "stopped" ELSE status
        /\ status \notin {"running", "stopping"} /\ activeAdapter = Nobody
        /\ runtime = Nobody
        /\ stops' = [stops EXCEPT ![era] = IF status = "failed" THEN "failed" ELSE "graceful"]
        /\ claim' = claim /\ hooks' = hooks /\ teardown' = teardown
     \/ /\ status' = "stopping" /\ era \in Starts /\ activeAdapter = era
        /\ teardown.stage = "none"
        /\ stops' = [stops EXCEPT ![era] = "pending"]
        /\ \/ /\ runtime = Nobody
              /\ teardown' = [stage |-> "adapter", runtime |-> Nobody, adapter |-> era,
                              graceful |-> TRUE, errors |-> FALSE]
              /\ claim' = [claim EXCEPT ![era] = "stopping"]
              /\ hooks' = [hooks EXCEPT ![era] = @ + 1]
           \/ /\ runtime = era
              /\ teardown' = [stage |-> "runtime", runtime |-> era, adapter |-> era,
                              graceful |-> TRUE, errors |-> FALSE]
              /\ claim' = claim /\ hooks' = hooks

LEMMA StopBegins ==
  ASSUME IndInv, ~stopGate, BeginStop
  PROVE  StopBegun
<1>0. TypeOK /\ StatusInv /\ TeardownInv /\ OutcomeInv
  BY DEF IndInv, OwnerInv
<1>1. stopGate' = TRUE /\ startGate' = Nobody
  BY DEF BeginStop
<1>2. CASE NothingBuilt
  <2>1. StopNothing
    BY <1>2 DEF BeginStop
  <2>2. status \notin {"running", "stopping"}
    BY <1>0, <1>2 DEF StatusInv, OutcomeInv, NothingBuilt, TypeOK, Nobody, Eras
  <2> QED BY <1>0, <1>1, <1>2, <2>1, <2>2
          DEF StopBegun, StopNothing, NothingBuilt, TypeOK, ownerVars, adapterVars
<1>3. CASE ~NothingBuilt
  <2>1. StopBuilt
    BY <1>3 DEF BeginStop
  <2>2. activeAdapter = era /\ era \in Starts /\ runtime \in {Nobody, era}
        /\ status \in {"starting", "running"}
    BY <1>0, <1>3, RuntimeAssumption DEF StatusInv, NothingBuilt, TypeOK, Nobody, Eras, Starts
  <2>3. teardown.stage = "none"
    BY <1>0, <2>2 DEF TeardownInv
  <2>4. CASE runtime = Nobody
    BY <1>1, <2>1, <2>2, <2>3, <2>4, Zenon DEF StopBegun, StopBuilt, CallHook, NoTeardown
  <2>5. CASE runtime # Nobody
    BY <1>1, <2>1, <2>2, <2>3, <2>5 DEF StopBegun, StopBuilt, NoTeardown, adapterVars
  <2> QED BY <2>4, <2>5
<1> QED BY <1>2, <1>3

----------------------------------------------------------------------------
(* Every step keeps the inductive invariant.                               *)

LEMMA NextIndInv ==
  ASSUME IndInv, [Next]_vars
  PROVE  IndInv'
<1>0. /\ TypeOK /\ StatusInv /\ TeardownInv /\ OutcomeInv
      /\ ClaimInv /\ AliveInv /\ FreshInv
  BY DEF IndInv, OwnerInv
<1>1. CASE Start
  <2>1. TypeOK'
    <3>1. era + 1 \in Starts /\ era' \in Eras /\ startGate' \in Eras
      BY <1>0, <1>1, RuntimeAssumption DEF TypeOK, Start, Starts, Eras
    <3>2. pc' \in [Starts -> Points]
      BY <1>0, <1>1 DEF TypeOK, Start, Points
    <3> QED BY <1>0, <1>1, <3>1, <3>2
            DEF TypeOK, Start, Owner!Statuses, ownerVars, adapterVars, stopVars
  <2>2. StatusInv'
    BY <1>0, <1>1, RuntimeAssumption
       DEF TypeOK, StatusInv, Start, Legal, Owner!Legal, Owner!Successors,
           ownerVars, adapterVars, stopVars, Starts, Eras, Nobody
  <2>3. TeardownInv'
    BY <1>0, <1>1
       DEF TeardownInv, Start, Legal, Owner!Legal, Owner!Successors, ownerVars,
           adapterVars, stopVars
  <2>4. OutcomeInv'
    BY <1>0, <1>1
       DEF OutcomeInv, Start, Legal, Owner!Legal, Owner!Successors, ownerVars,
           adapterVars, stopVars
  <2>5. ClaimInv'
    BY <1>0, <1>1, RuntimeAssumption
       DEF TypeOK, StatusInv, TeardownInv, ClaimInv, Start, Legal, Owner!Legal,
           Owner!Successors, ownerVars, adapterVars, stopVars, Starts, Eras, Nobody
  <2>6. AliveInv'
    BY <1>0, <1>1, RuntimeAssumption
       DEF TypeOK, StatusInv, TeardownInv, AliveInv, Start, Legal, Owner!Legal,
           Owner!Successors, ownerVars, adapterVars, stopVars, Starts, Eras, Nobody
  <2>7. FreshInv'
    BY <1>0, <1>1, RuntimeAssumption
       DEF TypeOK, FreshInv, Start, Legal, Owner!Legal, Owner!Successors, ownerVars,
           adapterVars, stopVars, Starts, Eras, Nobody
  <2> QED BY <2>1, <2>2, <2>3, <2>4, <2>5, <2>6, <2>7
          DEF IndInv, OwnerInv
<1>2. CASE Stop
  <2>1. StopBegun
    BY <1>2, StopBegins DEF Stop
  <2>2. TypeOK'
    <3>1. status' \in Owner!Statuses /\ hooks' \in [Starts -> 0..1]
      BY <1>0, <2>1 DEF TypeOK, ClaimInv, StopBegun, Owner!Statuses, Starts
    <3>2. /\ claim' \in [Starts -> {"none", "claimed", "stopping", "released"}]
          /\ stops' \in [Eras -> Outcomes]
      BY <1>0, <2>1 DEF TypeOK, StopBegun, Outcomes
    <3>3. teardown' \in Teardowns
      <4>1. Nobody \in Eras /\ Starts \subseteq Eras
        BY RuntimeAssumption DEF Nobody, Starts, Eras
      <4>2. teardown' = teardown \/
              \E stage \in {"runtime", "adapter"}, r \in {Nobody, era} :
                era \in Starts /\ teardown' = [stage |-> stage, runtime |-> r, adapter |-> era,
                                              graceful |-> TRUE, errors |-> FALSE]
        BY <2>1 DEF StopBegun
      <4>3. CASE teardown' = teardown
        BY <1>0, <4>3 DEF TypeOK
      <4>4. ASSUME NEW stage \in {"runtime", "adapter"}, NEW r \in {Nobody, era}, era \in Starts,
                   teardown' = [stage |-> stage, runtime |-> r, adapter |-> era,
                                graceful |-> TRUE, errors |-> FALSE]
            PROVE  teardown' \in Teardowns
        BY <4>1, <4>4 DEF Teardowns
      <4> QED BY <4>2, <4>3, <4>4
    <3>4. pc' \in [Starts -> Points] /\ era' = era /\ initialized' = initialized /\ rt' = rt
      BY <1>0, <1>2 DEF TypeOK, Stop, Points
    <3> QED BY <1>0, <2>1, <3>1, <3>2, <3>3, <3>4, RuntimeAssumption
            DEF TypeOK, StopBegun, Eras, Nobody
  <2>3. StatusInv'
    BY <1>0, <1>2, <2>1, <2>2, RuntimeAssumption
       DEF TypeOK, StatusInv, Stop, StopBegun, Starts, Eras, Nobody
  <2>4. TeardownInv'
    BY <1>0, <1>2, <2>1, <2>2 DEF TeardownInv, Stop, StopBegun
  <2>5. OutcomeInv'
    BY <1>0, <1>2, <2>1, <2>2 DEF TypeOK, OutcomeInv, Stop, StopBegun
  <2>6. ClaimInv'
    BY <1>0, <1>2, <2>1, <2>2, RuntimeAssumption
       DEF TypeOK, ClaimInv, Stop, StopBegun, Starts, Eras, Nobody
  <2>7. AliveInv'
    BY <1>0, <1>2, <2>1, <2>2 DEF AliveInv, Stop, StopBegun
  <2>8. FreshInv'
    BY <1>0, <1>2, <2>1, <2>2, RuntimeAssumption
       DEF TypeOK, StatusInv, FreshInv, Stop, StopBegun, Starts, Eras, Nobody
  <2> QED BY <2>2, <2>3, <2>4, <2>5, <2>6, <2>7, <2>8
          DEF IndInv, OwnerInv
<1>3. CASE InitializeResolves
  <2>1. TypeOK'
    BY <1>0, <1>3
       DEF TypeOK, InitializeResolves, ownerVars, adapterVars, stopVars,
           Owner!Statuses, Points, Outcomes
  <2>2. StatusInv'
    BY <1>0, <1>3
       DEF StatusInv, InitializeResolves, ownerVars, adapterVars, stopVars
  <2>3. TeardownInv'
    BY <1>0, <1>3
       DEF TeardownInv, InitializeResolves, ownerVars, adapterVars, stopVars
  <2>4. OutcomeInv'
    BY <1>0, <1>3
       DEF OutcomeInv, InitializeResolves, ownerVars, adapterVars, stopVars
  <2>5. ClaimInv'
    BY <1>0, <1>3 DEF ClaimInv, InitializeResolves, ownerVars, adapterVars, stopVars
  <2>6. AliveInv'
    BY <1>0, <1>3 DEF AliveInv, InitializeResolves, ownerVars, adapterVars, stopVars
  <2>7. FreshInv'
    BY <1>0, <1>3 DEF FreshInv, InitializeResolves, ownerVars, adapterVars, stopVars
  <2> QED BY <2>1, <2>2, <2>3, <2>4, <2>5, <2>6, <2>7
          DEF IndInv, OwnerInv
<1>4. CASE InitializeRejects
  <2>1. TypeOK'
    <3>1. pc' \in [Starts -> Points]
      BY <1>0, <1>4 DEF TypeOK, InitializeRejects, Points
    <3>2. startGate' \in Eras /\ status' \in Owner!Statuses
      BY <1>0, <1>4, RuntimeAssumption
         DEF TypeOK, InitializeRejects, Owner!Statuses, Eras, Nobody
    <3> QED BY <1>0, <1>4, <3>1, <3>2
            DEF TypeOK, InitializeRejects, ownerVars, adapterVars, stopVars
  <2>2. StatusInv'
    BY <1>0, <1>4, RuntimeAssumption
       DEF TypeOK, StatusInv, InitializeRejects, IsCurrent, ownerVars, adapterVars,
           stopVars, Starts, Eras, Nobody
  <2>3. TeardownInv'
    BY <1>0, <1>4
       DEF TeardownInv, InitializeRejects, IsCurrent, ownerVars, adapterVars,
           stopVars
  <2>4. OutcomeInv'
    BY <1>0, <1>4, RuntimeAssumption
       DEF TypeOK, StatusInv, OutcomeInv, InitializeRejects, IsCurrent, ownerVars,
           adapterVars, stopVars, Starts, Eras, Nobody
  <2>5. ClaimInv'
    BY <1>0, <1>4
       DEF ClaimInv, InitializeRejects, IsCurrent, ownerVars, adapterVars, stopVars
  <2>6. AliveInv'
    BY <1>0, <1>4
       DEF AliveInv, InitializeRejects, IsCurrent, ownerVars, adapterVars, stopVars
  <2>7. FreshInv'
    BY <1>0, <1>4
       DEF FreshInv, InitializeRejects, IsCurrent, ownerVars, adapterVars, stopVars
  <2> QED BY <2>1, <2>2, <2>3, <2>4, <2>5, <2>6, <2>7
          DEF IndInv, OwnerInv
<1>5. CASE RuntimeStopped
  <2>1. TypeOK'
    <3>1. teardown.adapter = era /\ teardown.runtime = era /\ era \in Starts
      BY <1>0, <1>5, RuntimeAssumption
         DEF TypeOK, RuntimeStopped, TeardownInv, StatusInv, Starts, Eras
    <3>2. hooks[era] = 0
      BY <1>0, <1>5, <3>1 DEF RuntimeStopped, ClaimInv
    <3>3. hooks' \in [Starts -> 0..1]
      BY <1>0, <1>5, <3>1, <3>2 DEF TypeOK, RuntimeStopped, CallHook
    <3>4. teardown' \in Teardowns
      BY <1>0, <1>5 DEF TypeOK, RuntimeStopped, Teardowns
    <3> QED BY <1>0, <1>5, <3>1, <3>3, <3>4
            DEF TypeOK, RuntimeStopped, CallHook, ownerVars
  <2>2. StatusInv'
    BY <1>0, <1>5 DEF StatusInv, RuntimeStopped, CallHook, ownerVars
  <2>3. TeardownInv'
    BY <1>0, <1>5 DEF TeardownInv, RuntimeStopped, CallHook, ownerVars
  <2>4. OutcomeInv'
    BY <1>0, <1>5 DEF OutcomeInv, RuntimeStopped, CallHook, ownerVars
  <2>5. ClaimInv'
    BY <1>0, <1>5, RuntimeAssumption
       DEF TypeOK, StatusInv, TeardownInv, ClaimInv, RuntimeStopped, CallHook,
           ownerVars, Starts, Eras, Nobody
  <2>6. AliveInv'
    BY <1>0, <1>5, RuntimeAssumption
       DEF TypeOK, StatusInv, TeardownInv, AliveInv, RuntimeStopped, CallHook,
           ownerVars, Starts, Eras, Nobody
  <2>7. FreshInv'
    BY <1>0, <1>5, RuntimeAssumption
       DEF TypeOK, StatusInv, TeardownInv, ClaimInv, FreshInv, RuntimeStopped,
           CallHook, ownerVars, Starts, Eras, Nobody
  <2> QED BY <2>1, <2>2, <2>3, <2>4, <2>5, <2>6, <2>7
          DEF IndInv, OwnerInv
<1>6. ASSUME NEW throws \in BOOLEAN, HookSettles(throws)
      PROVE  IndInv'
  <2>1. TypeOK'
    BY <1>0, <1>6, RuntimeAssumption
       DEF TypeOK, StatusInv, TeardownInv, OutcomeInv, ClaimInv, AliveInv, FreshInv,
           HookSettles, NoTeardown, ownerVars, Starts, Eras, Nobody, Points,
           Outcomes, Teardowns, Owner!Statuses
  <2>2. StatusInv'
    BY <1>0, <1>6, RuntimeAssumption
       DEF TypeOK, StatusInv, TeardownInv, HookSettles, NoTeardown, ownerVars,
           Starts, Eras, Nobody
  <2>3. TeardownInv'
    BY <1>0, <1>6 DEF TeardownInv, HookSettles, NoTeardown, ownerVars
  <2>4. OutcomeInv'
    BY <1>0, <1>6 DEF TypeOK, OutcomeInv, HookSettles, NoTeardown, ownerVars
  <2>5. ClaimInv'
    BY <1>0, <1>6, RuntimeAssumption
       DEF TypeOK, StatusInv, TeardownInv, ClaimInv, HookSettles, NoTeardown,
           ownerVars, Starts, Eras, Nobody
  <2>6. AliveInv'
    BY <1>0, <1>6 DEF AliveInv, HookSettles, NoTeardown, ownerVars
  <2>7. FreshInv'
    BY <1>0, <1>6, RuntimeAssumption
       DEF TypeOK, StatusInv, TeardownInv, ClaimInv, FreshInv, HookSettles,
           NoTeardown, ownerVars, Starts, Eras, Nobody
  <2> QED BY <2>1, <2>2, <2>3, <2>4, <2>5, <2>6, <2>7
          DEF IndInv, OwnerInv
<1>7. ASSUME NEW k \in Starts, ClaimAdapter(k)
      PROVE  IndInv'
  <2>1. TypeOK'
    BY <1>0, <1>7
       DEF TypeOK, ClaimAdapter, IsCurrent, stopVars, Owner!Statuses, Points,
           Outcomes
  <2>2. StatusInv'
    BY <1>0, <1>7 DEF TypeOK, StatusInv, ClaimAdapter, IsCurrent, stopVars
  <2>3. TeardownInv'
    BY <1>0, <1>7 DEF TeardownInv, ClaimAdapter, IsCurrent, stopVars
  <2>4. OutcomeInv'
    BY <1>0, <1>7 DEF OutcomeInv, ClaimAdapter, IsCurrent, stopVars
  <2>5. ClaimInv'
    BY <1>0, <1>7, RuntimeAssumption
       DEF TypeOK, StatusInv, TeardownInv, OutcomeInv, ClaimInv, AliveInv, FreshInv,
           ClaimAdapter, IsCurrent, stopVars, Starts, Eras, Nobody
  <2>6. AliveInv'
    BY <1>0, <1>7 DEF AliveInv, ClaimAdapter, IsCurrent, stopVars
  <2>7. FreshInv'
    BY <1>0, <1>7 DEF TypeOK, FreshInv, ClaimAdapter, IsCurrent, stopVars
  <2> QED BY <2>1, <2>2, <2>3, <2>4, <2>5, <2>6, <2>7
          DEF IndInv, OwnerInv
<1>8. ASSUME NEW k \in Starts, SupersededBeforeClaim(k)
      PROVE  IndInv'
  <2>1. TypeOK'
    BY <1>0, <1>8, RuntimeAssumption
       DEF TypeOK, SupersededBeforeClaim, Reject, IsCurrent, ownerVars, adapterVars,
           stopVars, Starts, Eras, Nobody, Owner!Statuses, Points, Outcomes
  <2>2. StatusInv'
    BY <1>0, <1>8
       DEF StatusInv, SupersededBeforeClaim, Reject, IsCurrent, ownerVars,
           adapterVars, stopVars
  <2>3. TeardownInv'
    BY <1>0, <1>8
       DEF TeardownInv, SupersededBeforeClaim, Reject, IsCurrent, ownerVars,
           adapterVars, stopVars
  <2>4. OutcomeInv'
    BY <1>0, <1>8
       DEF OutcomeInv, SupersededBeforeClaim, Reject, IsCurrent, ownerVars,
           adapterVars, stopVars
  <2>5. ClaimInv'
    BY <1>0, <1>8
       DEF ClaimInv, SupersededBeforeClaim, Reject, IsCurrent, ownerVars,
           adapterVars, stopVars
  <2>6. AliveInv'
    BY <1>0, <1>8
       DEF AliveInv, SupersededBeforeClaim, Reject, IsCurrent, ownerVars,
           adapterVars, stopVars
  <2>7. FreshInv'
    BY <1>0, <1>8
       DEF FreshInv, SupersededBeforeClaim, Reject, IsCurrent, ownerVars,
           adapterVars, stopVars
  <2> QED BY <2>1, <2>2, <2>3, <2>4, <2>5, <2>6, <2>7
          DEF IndInv, OwnerInv
<1>9. ASSUME NEW k \in Starts, Connect(k)
      PROVE  IndInv'
  <2>1. TypeOK'
    BY <1>0, <1>9, RuntimeAssumption
       DEF TypeOK, Connect, IsCurrent, adapterVars, stopVars, Starts, Eras, Nobody,
           Owner!Statuses, Points, Outcomes
  <2>2. StatusInv'
    BY <1>0, <1>9, RuntimeAssumption
       DEF TypeOK, StatusInv, Connect, IsCurrent, adapterVars, stopVars, Starts,
           Eras, Nobody
  <2>3. TeardownInv'
    BY <1>0, <1>9 DEF TeardownInv, Connect, IsCurrent, adapterVars, stopVars
  <2>4. OutcomeInv'
    BY <1>0, <1>9 DEF OutcomeInv, Connect, IsCurrent, adapterVars, stopVars
  <2>5. ClaimInv'
    BY <1>0, <1>9 DEF ClaimInv, Connect, IsCurrent, adapterVars, stopVars
  <2>6. AliveInv'
    BY <1>0, <1>9 DEF AliveInv, Connect, IsCurrent, adapterVars, stopVars
  <2>7. FreshInv'
    BY <1>0, <1>9 DEF TypeOK, FreshInv, Connect, IsCurrent, adapterVars, stopVars
  <2> QED BY <2>1, <2>2, <2>3, <2>4, <2>5, <2>6, <2>7
          DEF IndInv, OwnerInv
<1>10. ASSUME NEW k \in Starts, Resolve(k)
       PROVE  IndInv'
  <2>1. TypeOK'
    BY <1>0, <1>10
       DEF TypeOK, Resolve, IsCurrent, ownerVars, adapterVars, stopVars,
           Owner!Statuses, Points, Outcomes
  <2>2. StatusInv'
    BY <1>0, <1>10
       DEF TypeOK, StatusInv, Resolve, IsCurrent, ownerVars, adapterVars, stopVars
  <2>3. TeardownInv'
    BY <1>0, <1>10
       DEF TeardownInv, Resolve, IsCurrent, ownerVars, adapterVars, stopVars
  <2>4. OutcomeInv'
    BY <1>0, <1>10
       DEF OutcomeInv, Resolve, IsCurrent, ownerVars, adapterVars, stopVars
  <2>5. ClaimInv'
    BY <1>0, <1>10
       DEF ClaimInv, Resolve, IsCurrent, ownerVars, adapterVars, stopVars
  <2>6. AliveInv'
    BY <1>0, <1>10
       DEF AliveInv, Resolve, IsCurrent, ownerVars, adapterVars, stopVars
  <2>7. FreshInv'
    BY <1>0, <1>10
       DEF FreshInv, Resolve, IsCurrent, ownerVars, adapterVars, stopVars
  <2> QED BY <2>1, <2>2, <2>3, <2>4, <2>5, <2>6, <2>7
          DEF IndInv, OwnerInv
<1>11. ASSUME NEW k \in Starts, CleanUp(k)
       PROVE  IndInv'
  <2>0. ~stopGate
    BY <1>0, <1>11 DEF CleanUp, IsCurrent, StatusInv
  <2>1. StopBegun
    BY <1>11, <2>0, StopBegins DEF CleanUp
  <2>2. TypeOK'
    <3>1. status' \in Owner!Statuses /\ hooks' \in [Starts -> 0..1]
      BY <1>0, <2>1 DEF TypeOK, ClaimInv, StopBegun, Owner!Statuses, Starts
    <3>2. /\ claim' \in [Starts -> {"none", "claimed", "stopping", "released"}]
          /\ stops' \in [Eras -> Outcomes]
      BY <1>0, <2>1 DEF TypeOK, StopBegun, Outcomes
    <3>3. teardown' \in Teardowns
      <4>1. Nobody \in Eras /\ Starts \subseteq Eras
        BY RuntimeAssumption DEF Nobody, Starts, Eras
      <4>2. teardown' = teardown \/
              \E stage \in {"runtime", "adapter"}, r \in {Nobody, era} :
                era \in Starts /\ teardown' = [stage |-> stage, runtime |-> r, adapter |-> era,
                                              graceful |-> TRUE, errors |-> FALSE]
        BY <2>1 DEF StopBegun
      <4>3. CASE teardown' = teardown
        BY <1>0, <4>3 DEF TypeOK
      <4>4. ASSUME NEW stage \in {"runtime", "adapter"}, NEW r \in {Nobody, era}, era \in Starts,
                   teardown' = [stage |-> stage, runtime |-> r, adapter |-> era,
                                graceful |-> TRUE, errors |-> FALSE]
            PROVE  teardown' \in Teardowns
        BY <4>1, <4>4 DEF Teardowns
      <4> QED BY <4>2, <4>3, <4>4
    <3>4. pc' \in [Starts -> Points] /\ era' = era /\ initialized' = initialized /\ rt' = rt
      BY <1>0, <1>11 DEF TypeOK, CleanUp, Points
    <3> QED BY <1>0, <2>1, <3>1, <3>2, <3>3, <3>4, RuntimeAssumption
            DEF TypeOK, StopBegun, Eras, Nobody
  <2>3. StatusInv'
    BY <1>0, <1>11, <2>1, <2>2 DEF StatusInv, CleanUp, StopBegun, IsCurrent
  <2>4. TeardownInv'
    BY <1>0, <1>11, <2>1, <2>2 DEF TeardownInv, CleanUp, StopBegun, IsCurrent
  <2>5. OutcomeInv'
    BY <1>0, <1>11, <2>1, <2>2 DEF TypeOK, OutcomeInv, CleanUp, StopBegun, IsCurrent
  <2>6. ClaimInv'
    BY <1>0, <1>11, <2>1, <2>2, RuntimeAssumption
       DEF TypeOK, ClaimInv, CleanUp, StopBegun, IsCurrent, Starts, Eras, Nobody
  <2>7. AliveInv'
    BY <1>0, <1>11, <2>1, <2>2 DEF AliveInv, CleanUp, StopBegun, IsCurrent
  <2>8. FreshInv'
    BY <1>0, <1>11, <2>1, <2>2 DEF TypeOK, FreshInv, CleanUp, StopBegun, IsCurrent
  <2> QED BY <2>2, <2>3, <2>4, <2>5, <2>6, <2>7, <2>8
          DEF IndInv, OwnerInv
<1>12. ASSUME NEW k \in Starts, Superseded(k)
       PROVE  IndInv'
  <2>1. TypeOK'
    BY <1>0, <1>12, RuntimeAssumption
       DEF TypeOK, Superseded, Reject, IsCurrent, ownerVars, adapterVars, stopVars,
           Starts, Eras, Nobody, Owner!Statuses, Points, Outcomes
  <2>2. StatusInv'
    BY <1>0, <1>12
       DEF StatusInv, Superseded, Reject, IsCurrent, ownerVars, adapterVars,
           stopVars
  <2>3. TeardownInv'
    BY <1>0, <1>12
       DEF TeardownInv, Superseded, Reject, IsCurrent, ownerVars, adapterVars,
           stopVars
  <2>4. OutcomeInv'
    BY <1>0, <1>12
       DEF OutcomeInv, Superseded, Reject, IsCurrent, ownerVars, adapterVars,
           stopVars
  <2>5. ClaimInv'
    BY <1>0, <1>12
       DEF ClaimInv, Superseded, Reject, IsCurrent, ownerVars, adapterVars, stopVars
  <2>6. AliveInv'
    BY <1>0, <1>12
       DEF AliveInv, Superseded, Reject, IsCurrent, ownerVars, adapterVars, stopVars
  <2>7. FreshInv'
    BY <1>0, <1>12
       DEF FreshInv, Superseded, Reject, IsCurrent, ownerVars, adapterVars, stopVars
  <2> QED BY <2>1, <2>2, <2>3, <2>4, <2>5, <2>6, <2>7
          DEF IndInv, OwnerInv
<1>13. ASSUME NEW k \in Starts, CleanedUp(k)
       PROVE  IndInv'
  <2>1. TypeOK'
    BY <1>0, <1>13, RuntimeAssumption
       DEF TypeOK, CleanedUp, Reject, IsCurrent, ownerVars, adapterVars, stopVars,
           Starts, Eras, Nobody, Owner!Statuses, Points, Outcomes
  <2>2. StatusInv'
    BY <1>0, <1>13
       DEF StatusInv, CleanedUp, Reject, IsCurrent, ownerVars, adapterVars, stopVars
  <2>3. TeardownInv'
    BY <1>0, <1>13
       DEF TeardownInv, CleanedUp, Reject, IsCurrent, ownerVars, adapterVars,
           stopVars
  <2>4. OutcomeInv'
    BY <1>0, <1>13, RuntimeAssumption
       DEF TypeOK, StatusInv, OutcomeInv, CleanedUp, Reject, IsCurrent, ownerVars,
           adapterVars, stopVars, Starts, Eras, Nobody
  <2>5. ClaimInv'
    BY <1>0, <1>13
       DEF ClaimInv, CleanedUp, Reject, IsCurrent, ownerVars, adapterVars, stopVars
  <2>6. AliveInv'
    BY <1>0, <1>13
       DEF AliveInv, CleanedUp, Reject, IsCurrent, ownerVars, adapterVars, stopVars
  <2>7. FreshInv'
    BY <1>0, <1>13
       DEF FreshInv, CleanedUp, Reject, IsCurrent, ownerVars, adapterVars, stopVars
  <2> QED BY <2>1, <2>2, <2>3, <2>4, <2>5, <2>6, <2>7
          DEF IndInv, OwnerInv
<1>14. ASSUME NEW k \in Starts, RuntimeStarts(k)
       PROVE  IndInv'
  <2>1. TypeOK'
    BY <1>0, <1>14
       DEF TypeOK, RuntimeStarts, ownerVars, adapterVars, stopVars, Owner!Statuses,
           Points, Outcomes
  <2>2. StatusInv'
    BY <1>0, <1>14 DEF StatusInv, RuntimeStarts, ownerVars, adapterVars, stopVars
  <2>3. TeardownInv'
    BY <1>0, <1>14 DEF TeardownInv, RuntimeStarts, ownerVars, adapterVars, stopVars
  <2>4. OutcomeInv'
    BY <1>0, <1>14 DEF OutcomeInv, RuntimeStarts, ownerVars, adapterVars, stopVars
  <2>5. ClaimInv'
    BY <1>0, <1>14 DEF ClaimInv, RuntimeStarts, ownerVars, adapterVars, stopVars
  <2>6. AliveInv'
    BY <1>0, <1>14 DEF AliveInv, RuntimeStarts, ownerVars, adapterVars, stopVars
  <2>7. FreshInv'
    BY <1>0, <1>14 DEF FreshInv, RuntimeStarts, ownerVars, adapterVars, stopVars
  <2> QED BY <2>1, <2>2, <2>3, <2>4, <2>5, <2>6, <2>7
          DEF IndInv, OwnerInv
<1>15. ASSUME NEW k \in Starts, RuntimeStartFails(k)
       PROVE  IndInv'
  <2>1. TypeOK'
    BY <1>0, <1>15
       DEF TypeOK, RuntimeStartFails, ownerVars, adapterVars, stopVars,
           Owner!Statuses, Points, Outcomes
  <2>2. StatusInv'
    BY <1>0, <1>15
       DEF StatusInv, RuntimeStartFails, ownerVars, adapterVars, stopVars
  <2>3. TeardownInv'
    BY <1>0, <1>15
       DEF TeardownInv, RuntimeStartFails, ownerVars, adapterVars, stopVars
  <2>4. OutcomeInv'
    BY <1>0, <1>15
       DEF OutcomeInv, RuntimeStartFails, ownerVars, adapterVars, stopVars
  <2>5. ClaimInv'
    BY <1>0, <1>15 DEF ClaimInv, RuntimeStartFails, ownerVars, adapterVars, stopVars
  <2>6. AliveInv'
    BY <1>0, <1>15 DEF AliveInv, RuntimeStartFails, ownerVars, adapterVars, stopVars
  <2>7. FreshInv'
    BY <1>0, <1>15 DEF FreshInv, RuntimeStartFails, ownerVars, adapterVars, stopVars
  <2> QED BY <2>1, <2>2, <2>3, <2>4, <2>5, <2>6, <2>7
          DEF IndInv, OwnerInv
<1>16. ASSUME NEW k \in Starts, AdapterStarted(k)
       PROVE  IndInv'
  <2>1. TypeOK'
    BY <1>0, <1>16
       DEF TypeOK, AdapterStarted, IsCurrent, adapterVars, stopVars, Owner!Statuses,
           Points, Outcomes
  <2>2. StatusInv'
    BY <1>0, <1>16, RuntimeAssumption
       DEF TypeOK, StatusInv, AdapterStarted, IsCurrent, adapterVars, stopVars,
           Starts, Eras, Nobody
  <2>3. TeardownInv'
    BY <1>0, <1>16 DEF TeardownInv, AdapterStarted, IsCurrent, adapterVars, stopVars
  <2>4. OutcomeInv'
    BY <1>0, <1>16 DEF OutcomeInv, AdapterStarted, IsCurrent, adapterVars, stopVars
  <2>5. ClaimInv'
    BY <1>0, <1>16 DEF ClaimInv, AdapterStarted, IsCurrent, adapterVars, stopVars
  <2>6. AliveInv'
    BY <1>0, <1>16, RuntimeAssumption
       DEF TypeOK, StatusInv, AliveInv, AdapterStarted, IsCurrent, adapterVars,
           stopVars, Starts, Eras, Nobody
  <2>7. FreshInv'
    BY <1>0, <1>16
       DEF TypeOK, FreshInv, AdapterStarted, IsCurrent, adapterVars, stopVars
  <2> QED BY <2>1, <2>2, <2>3, <2>4, <2>5, <2>6, <2>7
          DEF IndInv, OwnerInv
<1>17. ASSUME NEW k \in Starts, AdapterStartFails(k)
       PROVE  IndInv'
  <2>1. TypeOK'
    BY <1>0, <1>17
       DEF TypeOK, AdapterStartFails, ownerVars, adapterVars, stopVars,
           Owner!Statuses, Points, Outcomes
  <2>2. StatusInv'
    BY <1>0, <1>17
       DEF StatusInv, AdapterStartFails, ownerVars, adapterVars, stopVars
  <2>3. TeardownInv'
    BY <1>0, <1>17
       DEF TeardownInv, AdapterStartFails, ownerVars, adapterVars, stopVars
  <2>4. OutcomeInv'
    BY <1>0, <1>17
       DEF OutcomeInv, AdapterStartFails, ownerVars, adapterVars, stopVars
  <2>5. ClaimInv'
    BY <1>0, <1>17 DEF ClaimInv, AdapterStartFails, ownerVars, adapterVars, stopVars
  <2>6. AliveInv'
    BY <1>0, <1>17 DEF AliveInv, AdapterStartFails, ownerVars, adapterVars, stopVars
  <2>7. FreshInv'
    BY <1>0, <1>17 DEF FreshInv, AdapterStartFails, ownerVars, adapterVars, stopVars
  <2> QED BY <2>1, <2>2, <2>3, <2>4, <2>5, <2>6, <2>7
          DEF IndInv, OwnerInv
<1>18. ASSUME NEW k \in Starts, RuntimeBreaks(k)
       PROVE  IndInv'
  <2>1. TypeOK'
    BY <1>0, <1>18
       DEF TypeOK, RuntimeBreaks, ownerVars, adapterVars, stopVars, Owner!Statuses,
           Points, Outcomes
  <2>2. StatusInv'
    BY <1>0, <1>18 DEF StatusInv, RuntimeBreaks, ownerVars, adapterVars, stopVars
  <2>3. TeardownInv'
    BY <1>0, <1>18 DEF TeardownInv, RuntimeBreaks, ownerVars, adapterVars, stopVars
  <2>4. OutcomeInv'
    BY <1>0, <1>18 DEF OutcomeInv, RuntimeBreaks, ownerVars, adapterVars, stopVars
  <2>5. ClaimInv'
    BY <1>0, <1>18 DEF ClaimInv, RuntimeBreaks, ownerVars, adapterVars, stopVars
  <2>6. AliveInv'
    BY <1>0, <1>18 DEF AliveInv, RuntimeBreaks, ownerVars, adapterVars, stopVars
  <2>7. FreshInv'
    BY <1>0, <1>18 DEF FreshInv, RuntimeBreaks, ownerVars, adapterVars, stopVars
  <2> QED BY <2>1, <2>2, <2>3, <2>4, <2>5, <2>6, <2>7
          DEF IndInv, OwnerInv
<1>19. CASE UNCHANGED vars
  BY <1>0, <1>19
     DEF vars, IndInv, OwnerInv, TypeOK, StatusInv, TeardownInv, OutcomeInv, ClaimInv,
         AliveInv, FreshInv, ownerVars, adapterVars, stopVars
<1> QED BY <1>1, <1>2, <1>3, <1>4, <1>5, <1>6, <1>7, <1>8, <1>9, <1>10, <1>11,
           <1>12, <1>13, <1>14, <1>15, <1>16, <1>17, <1>18, <1>19
        DEF Next, Internal, Continues, AdapterSettles

LEMMA InitIndInv == Init => IndInv
<1> SUFFICES ASSUME Init PROVE IndInv
  OBVIOUS
<1>1. 0 \in Eras /\ 0 \notin Starts
  BY RuntimeAssumption DEF Eras, Starts
<1>2. TypeOK
  <2>1. teardown \in Teardowns
    BY <1>1 DEF Init, NoTeardown, Teardowns, Nobody
  <2>2. /\ status \in Owner!Statuses /\ era \in Eras
        /\ startGate \in Eras /\ stopGate \in BOOLEAN
        /\ initialized \in {"no", "pending", "done"}
        /\ activeAdapter \in Eras /\ runtime \in Eras /\ contactsSubscribed \in BOOLEAN
    BY <1>1 DEF Init, Owner!Statuses, Nobody
  <2>3. pc \in [Starts -> Points] /\ stops \in [Eras -> Outcomes]
    BY DEF Init, Points, Outcomes
  <2>4. /\ claim \in [Starts -> {"none", "claimed", "stopping", "released"}]
        /\ rt \in [Starts -> {"none", "starting", "running", "broken", "released"}]
    BY DEF Init
  <2>5. hooks \in [Starts -> 0..1]
    BY DEF Init
  <2> QED BY <2>1, <2>2, <2>3, <2>4, <2>5 DEF TypeOK
<1>3. OwnerInv
  BY <1>1 DEF Init, OwnerInv, StatusInv, TeardownInv, OutcomeInv, ClaimInv, AliveInv,
              FreshInv, NoTeardown, Nobody
<1> QED BY <1>2, <1>3 DEF IndInv

LEMMA Inductive == Spec => []IndInv
<1>1. IndInv /\ [Next]_vars => IndInv'
  BY NextIndInv
<1> QED BY InitIndInv, <1>1, PTL DEF Spec

----------------------------------------------------------------------------
(* The invariants the runs check.                                          *)

\* Every reachable state is well formed, and no adapter's hook is called twice.
THEOREM TypeCorrect == Spec => []TypeOK
<1>1. IndInv => TypeOK
  BY DEF IndInv
<1> QED BY Inductive, <1>1, PTL

\* Each adapter whose onStarted was called gets onRuntimeStop exactly once, whatever
\* starts, stops and cleanups overlap (runStop, PlatformRuntime.ts:353-411).
THEOREM AdaptersStopOnce == Spec => []AdapterStoppedOnce
<1>1. IndInv => AdapterStoppedOnce
  <2> SUFFICES ASSUME IndInv, NEW k \in Starts
               PROVE  hooks[k] = IF \/ claim[k] = "none" \/ activeAdapter = k
                                    \/ teardown.stage = "runtime" /\ teardown.adapter = k
                                   THEN 0 ELSE 1
    BY DEF AdapterStoppedOnce
  <2>1. teardown.stage = "runtime" => teardown.adapter = era
    BY DEF IndInv, OwnerInv, TeardownInv
  <2>2. /\ claim[k] = "claimed" <=>
             activeAdapter = k \/ (teardown.stage = "runtime" /\ era = k)
        /\ hooks[k] = IF claim[k] \in {"none", "claimed"} THEN 0 ELSE 1
    BY DEF IndInv, OwnerInv, ClaimInv
  <2> QED BY <2>1, <2>2
<1> QED BY Inductive, <1>1, PTL

\* Outside a stop the start gate is free exactly when a start is legal: no start()
\* ever runs into the transition table (startWithGate, lifecycle.ts:330-352).
THEOREM StartsJoin == Spec => []StartsAreJoined
<1>1. IndInv => StartsAreJoined
  <2> SUFFICES ASSUME IndInv, status # "stopping"
               PROVE  startGate = Nobody <=> Legal(status, "starting")
    BY DEF StartsAreJoined
  <2>1. status \in Owner!Statuses /\ StatusInv
    BY DEF IndInv, OwnerInv, TypeOK
  <2>2. CASE status \in {"starting", "running"}
    BY <2>1, <2>2 DEF StatusInv, Nobody, Legal, Owner!Legal, Owner!Successors
  <2>3. CASE status \notin {"starting", "running"}
    BY <2>1, <2>3 DEF StatusInv, Legal, Owner!Legal, Owner!Successors, Owner!Statuses
  <2> QED BY <2>2, <2>3
<1> QED BY Inductive, <1>1, PTL

\* What the era's stop answers, to whoever joins it, is what `state` says
\* (PlatformRuntime.ts:367-376, 403-421).
THEOREM StopsTellTheTruth == Spec => []StopTellsTheTruth
<1>1. IndInv => StopTellsTheTruth
  BY DEF IndInv, OwnerInv, OutcomeInv, StopTellsTheTruth
<1> QED BY Inductive, <1>1, PTL

----------------------------------------------------------------------------
(* The refinement.                                                         *)

HeldOf(c, r) ==
  {<<"adapter", k>> : k \in {j \in Starts : c[j] \in {"claimed", "stopping"}}}
  \cup {<<"runtime", k>> : k \in {j \in Starts : r[j] \in {"starting", "running", "broken"}}}

Taken(c, k) == c[k] \in {"claimed", "stopping"}
Lives(r, k) == r[k] \in {"starting", "running", "broken"}

LEMMA HeldIs == Held = HeldOf(claim, rt) /\ Held' = HeldOf(claim', rt')
BY DEF Held, HeldOf

LEMMA HeldGrows ==
  ASSUME NEW c, NEW r, NEW d, NEW s,
         \A k \in Starts : (Taken(c, k) => Taken(d, k)) /\ (Lives(r, k) => Lives(s, k))
  PROVE  HeldOf(c, r) \subseteq HeldOf(d, s)
BY DEF HeldOf, Taken, Lives

LEMMA HeldBounds ==
  ASSUME NEW c, NEW r
  PROVE  /\ HeldOf(c, r) \subseteq {"adapter", "runtime"} \X Starts
         /\ (\A k \in Starts : ~Taken(c, k) /\ ~Lives(r, k)) => HeldOf(c, r) = {}
BY DEF HeldOf, Taken, Lives

\* An owner that has ended, or never started, holds nothing.
Emptied == status \notin {"starting", "running", "stopping"} => Held = {}

LEMMA EndedHoldsNothing == IndInv => Emptied
<1> SUFFICES ASSUME IndInv, status \notin {"starting", "running", "stopping"}
             PROVE  Held = {}
  BY DEF Emptied
<1>1. activeAdapter = Nobody /\ runtime = Nobody /\ teardown.stage = "none"
  BY DEF IndInv, OwnerInv, TypeOK, StatusInv, TeardownInv, Teardowns
<1>2. \A k \in Starts : k # Nobody
  BY DEF Starts, Nobody
<1>3. \A k \in Starts : ~Taken(claim, k) /\ ~Lives(rt, k)
  BY <1>1, <1>2 DEF IndInv, OwnerInv, ClaimInv, AliveInv, Taken, Lives
<1> QED BY <1>3, HeldIs, HeldBounds

\* Every step of the runtime is a step of the abstract owner, or none.
LEMMA StepRefines ==
  ASSUME IndInv, Emptied, Emptied', [Next]_vars
  PROVE  [Owner!Next]_(Owner!vars)
<1>0. /\ TypeOK /\ StatusInv /\ TeardownInv /\ OutcomeInv
      /\ ClaimInv /\ AliveInv /\ FreshInv
  BY DEF IndInv, OwnerInv
<1> DEFINE Same == \A j \in Starts : (Taken(claim, j) <=> Taken(claim', j))
                                     /\ (Lives(rt, j) <=> Lives(rt', j))
           Gone == \A j \in Starts : (Taken(claim', j) => Taken(claim, j))
                                     /\ (Lives(rt', j) => Lives(rt, j))
           More == \A j \in Starts : (Taken(claim, j) => Taken(claim', j))
                                     /\ (Lives(rt, j) => Lives(rt', j))
<1>a. ASSUME Same PROVE Held' = Held
  <2>1. HeldOf(claim, rt) \subseteq HeldOf(claim', rt')
    BY <1>a, HeldGrows
  <2>2. HeldOf(claim', rt') \subseteq HeldOf(claim, rt)
    BY <1>a, HeldGrows
  <2> QED BY <2>1, <2>2, HeldIs
<1>b. ASSUME Gone PROVE Held' \subseteq Held
  <2>1. HeldOf(claim', rt') \subseteq HeldOf(claim, rt)
    BY <1>b, HeldGrows
  <2> QED BY <2>1, HeldIs
<1>c. ASSUME More PROVE Held \subseteq Held' /\ Held' \subseteq {"adapter", "runtime"} \X Starts
  <2>1. HeldOf(claim, rt) \subseteq HeldOf(claim', rt')
    BY <1>c, HeldGrows
  <2>2. HeldOf(claim', rt') \subseteq {"adapter", "runtime"} \X Starts
    BY HeldBounds
  <2> QED BY <2>1, <2>2, HeldIs
<1>d. claim' = claim /\ rt' = rt => Held' = Held
  BY HeldIs
<1> HIDE DEF Same, Gone, More
<1>s. status' = status /\ Held' = Held => UNCHANGED Owner!vars
  BY DEF Owner!vars
\* The beginning of a stop, whoever calls it.
<1>t. ASSUME StopBegun, ~stopGate, rt' = rt
      PROVE  [Owner!Next]_(Owner!vars)
  <2>1. CASE /\ status' = IF status = "starting" THEN "stopped" ELSE status
             /\ claim' = claim
    <3>1. CASE status = "starting"
      <4>1. Held' = {}
        BY <2>1, <3>1 DEF Emptied
      <4> QED BY <2>1, <3>1, <4>1 DEF Owner!Next, Owner!Settle
    <3>2. CASE status # "starting"
      BY <1>d, <1>s, <1>t, <2>1, <3>2
    <3> QED BY <3>1, <3>2
  <2>2. CASE /\ status' = "stopping" /\ era \in Starts /\ activeAdapter = era
             /\ teardown.stage = "none"
             /\ claim' = claim \/ claim' = [claim EXCEPT ![era] = "stopping"]
    <3>1. claim[era] = "claimed" /\ claim \in [Starts -> {"none", "claimed", "stopping", "released"}]
      BY <1>0, <2>2 DEF ClaimInv, TypeOK
    <3>2. Held' = Held
      BY <1>a, <1>t, <2>2, <3>1 DEF Same, Taken
    <3>3. status \in {"starting", "running"}
      BY <1>0, <2>2, RuntimeAssumption DEF StatusInv, Nobody, Starts
    <3> QED BY <2>2, <3>2, <3>3
            DEF Owner!Next, Owner!Halt, Owner!Legal, Owner!Successors
  <2> QED BY <1>t, <2>1, <2>2 DEF StopBegun
<1>1. CASE Start
  <2>1. Held = {} /\ Held' = Held
    BY <1>0, <1>1, <1>d
       DEF Start, Emptied, Legal, Owner!Legal, Owner!Successors, TypeOK, Owner!Statuses,
           adapterVars
  <2> QED BY <1>1, <2>1 DEF Start, Legal, Owner!Next, Owner!Begin
<1>2. CASE Stop
  BY <1>2, <1>t, StopBegins DEF Stop
<1>3. CASE InitializeResolves
  BY <1>3, <1>d, <1>s DEF InitializeResolves, adapterVars
<1>4. CASE InitializeRejects
  <2>1. Held' = Held
    BY <1>4, <1>d DEF InitializeRejects, adapterVars
  <2>2. CASE status' = status
    BY <1>s, <2>1, <2>2
  <2>3. CASE status' # status
    <3>1. status = "starting" /\ status' = "failed"
      BY <1>4, <2>3 DEF InitializeRejects, IsCurrent
    <3> QED BY <3>1 DEF Emptied, Owner!Next, Owner!Settle
  <2> QED BY <2>2, <2>3
<1>5. CASE RuntimeStopped
  <2>1. status = "stopping" /\ status' = status
    BY <1>0, <1>5 DEF RuntimeStopped, TeardownInv
  <2>2. claim[teardown.adapter] = "claimed"
    BY <1>0, <1>5, <2>1, RuntimeAssumption
       DEF RuntimeStopped, TeardownInv, ClaimInv, StatusInv, TypeOK, Starts, Eras
  <2>3. Held' \subseteq Held
    BY <1>0, <1>5, <1>b, <2>2 DEF RuntimeStopped, CallHook, Gone, Taken, Lives, TypeOK
  <2> QED BY <2>1, <2>3 DEF Owner!Next, Owner!Release
<1>6. ASSUME NEW throws \in BOOLEAN, HookSettles(throws)
      PROVE  [Owner!Next]_(Owner!vars)
  <2>1. status = "stopping" /\ status' \in {"stopped", "failed"}
    BY <1>0, <1>6 DEF HookSettles, TeardownInv
  <2> QED BY <2>1 DEF Emptied, Owner!Next, Owner!Settle
<1>7. ASSUME NEW k \in Starts, ClaimAdapter(k)
      PROVE  [Owner!Next]_(Owner!vars)
  <2>1. More
    BY <1>0, <1>7 DEF ClaimAdapter, More, Taken, TypeOK
  <2> QED BY <1>7, <1>c, <2>1 DEF ClaimAdapter, IsCurrent, Owner!Next, Owner!Acquire
<1>8. ASSUME NEW k \in Starts, SupersededBeforeClaim(k)
      PROVE  [Owner!Next]_(Owner!vars)
  BY <1>8, <1>d, <1>s DEF SupersededBeforeClaim, Reject, adapterVars
<1>9. ASSUME NEW k \in Starts, Connect(k)
      PROVE  [Owner!Next]_(Owner!vars)
  BY <1>9, <1>d, <1>s DEF Connect, adapterVars
<1>10. ASSUME NEW k \in Starts, Resolve(k)
       PROVE  [Owner!Next]_(Owner!vars)
  <2>1. Held' = Held
    BY <1>10, <1>d DEF Resolve, adapterVars
  <2>2. CASE IsCurrent(k)
    BY <1>10, <2>1, <2>2
       DEF Resolve, IsCurrent, Owner!Next, Owner!Succeed, Owner!Legal, Owner!Successors
  <2>3. CASE ~IsCurrent(k)
    BY <1>10, <1>s, <2>1, <2>3 DEF Resolve
  <2> QED BY <2>2, <2>3
<1>11. ASSUME NEW k \in Starts, CleanUp(k)
       PROVE  [Owner!Next]_(Owner!vars)
  BY <1>0, <1>11, <1>t, StopBegins DEF CleanUp, IsCurrent, StatusInv
<1>12. ASSUME NEW k \in Starts, Superseded(k)
       PROVE  [Owner!Next]_(Owner!vars)
  BY <1>12, <1>d, <1>s DEF Superseded, Reject, adapterVars
<1>13. ASSUME NEW k \in Starts, CleanedUp(k)
       PROVE  [Owner!Next]_(Owner!vars)
  <2>1. ~IsCurrent(k)
    BY <1>0, <1>13 DEF CleanedUp, IsCurrent, StatusInv
  <2> QED BY <1>13, <1>d, <1>s, <2>1 DEF CleanedUp, Reject, adapterVars
<1>14. ASSUME NEW k \in Starts, RuntimeStarts(k)
       PROVE  [Owner!Next]_(Owner!vars)
  <2>1. Same
    BY <1>0, <1>14 DEF RuntimeStarts, Same, Taken, Lives, adapterVars, TypeOK
  <2> QED BY <1>14, <1>a, <1>s, <2>1 DEF RuntimeStarts
<1>15. ASSUME NEW k \in Starts, RuntimeStartFails(k)
       PROVE  [Owner!Next]_(Owner!vars)
  <2>1. Gone
    BY <1>0, <1>15 DEF RuntimeStartFails, Gone, Taken, Lives, adapterVars, TypeOK
  <2>2. status \in {"starting", "stopping"} /\ status' = status
    <3>1. rt[k] = "starting" /\ pc[k] = "runtimeStarting" /\ status' = status
      BY <1>15 DEF RuntimeStartFails
    <3>2. CASE teardown.stage = "runtime"
      BY <1>0, <3>1, <3>2 DEF TeardownInv
    <3>3. CASE runtime = k
      BY <1>0, <3>1, <3>3, RuntimeAssumption DEF StatusInv, Starts, Nobody
    <3> QED BY <1>0, <3>1, <3>2, <3>3 DEF AliveInv
  <2> QED BY <1>b, <2>1, <2>2 DEF Owner!Next, Owner!Release
<1>16. ASSUME NEW k \in Starts, AdapterStarted(k)
       PROVE  [Owner!Next]_(Owner!vars)
  <2>1. CASE IsCurrent(k)
    <3>1. More
      BY <1>0, <1>16, <2>1 DEF AdapterStarted, More, Taken, Lives, adapterVars, TypeOK
    <3> QED BY <1>16, <1>c, <2>1, <3>1
            DEF AdapterStarted, IsCurrent, Owner!Next, Owner!Acquire
  <2>2. CASE ~IsCurrent(k)
    BY <1>16, <1>d, <1>s, <2>2 DEF AdapterStarted, adapterVars
  <2> QED BY <2>1, <2>2
<1>17. ASSUME NEW k \in Starts, AdapterStartFails(k)
       PROVE  [Owner!Next]_(Owner!vars)
  BY <1>17, <1>d, <1>s DEF AdapterStartFails, adapterVars
<1>18. ASSUME NEW k \in Starts, RuntimeBreaks(k)
       PROVE  [Owner!Next]_(Owner!vars)
  <2>1. Same
    BY <1>0, <1>18 DEF RuntimeBreaks, Same, Taken, Lives, adapterVars, TypeOK
  <2> QED BY <1>18, <1>a, <1>s, <2>1 DEF RuntimeBreaks
<1>19. CASE UNCHANGED vars
  BY <1>19, <1>d, <1>s DEF vars, adapterVars
<1> QED BY <1>1, <1>2, <1>3, <1>4, <1>5, <1>6, <1>7, <1>8, <1>9, <1>10, <1>11, <1>12,
           <1>13, <1>14, <1>15, <1>16, <1>17, <1>18, <1>19
        DEF Next, Internal, Continues, AdapterSettles

\* PlatformRuntime implements the abstract owner: with any number of superseded starts
\* about, an adapter or an AgentRuntime is taken only by a start that owns the runtime,
\* and "stopped" and "failed" are reported only with all of them given back.
THEOREM RuntimeImplementsLifecycle == Spec => ImplementsLifecycle
<1>1. Init => Owner!Init
  BY HeldIs, HeldBounds DEF Init, Owner!Init, Taken, Lives
<1>2. IndInv /\ Emptied /\ Emptied' /\ [Next]_vars => [Owner!Next]_(Owner!vars)
  BY StepRefines
<1> QED BY Inductive, EndedHoldsNothing, <1>1, <1>2, PTL
        DEF Spec, ImplementsLifecycle, Owner!Spec

----------------------------------------------------------------------------
(* Superseded starts.                                                      *)

\* A superseded start that rejects frees no gate: it is not the one the gate holds.
LEMMA RejectsInertly ==
  ASSUME IndInv, NEW k \in Starts, ~IsCurrent(k), Reject(k),
         pc[k] \in {"initializing", "threw", "cleaning"}
  PROVE  status' = status /\ startGate' = startGate
<1>1. startGate # k
  <2> SUFFICES ASSUME startGate = k PROVE FALSE
    OBVIOUS
  <2>1. k # Nobody /\ StatusInv
    BY DEF IndInv, OwnerInv, Starts, Nobody
  <2>2. status \in {"starting", "running"} /\ k = era
    BY <2>1 DEF StatusInv
  <2> QED BY <2>1, <2>2 DEF StatusInv, IsCurrent
<1> QED BY <1>1 DEF Reject

\* A start that is not current any more changes nothing but its own place: not the
\* tracker, not a gate, not the owner, not a stop (PlatformRuntime.ts:242-246, 318-323).
THEOREM SupersededStartsStayInert == Spec => SupersededStartsAreInert
<1> DEFINE Moves(k)  == pc[k] # "none" /\ pc'[k] # pc[k] /\ ~IsCurrent(k)
           Kept      == UNCHANGED <<status, startGate, stopGate, ownerVars, adapterVars, teardown>>
<1>1. ASSUME IndInv, [Next]_vars, NEW m \in Starts, Moves(m),
             \A k \in Starts : IsCurrent(k) => pc'[k] = pc[k]
      PROVE  Kept
  <2>0. /\ TypeOK /\ StatusInv /\ FreshInv
        /\ pc \in [Starts -> Points]
    BY <1>1 DEF IndInv, OwnerInv, TypeOK
  <2>1. CASE Start
    <3>1. era + 1 \in Starts /\ pc[era + 1] = "none"
      BY <2>0, <2>1, RuntimeAssumption DEF TypeOK, Start, Starts, Eras, FreshInv
    <3> QED BY <1>1, <2>0, <2>1, <3>1 DEF Start
  <2>2. CASE Stop
    BY <1>1, <2>2 DEF Stop
  <2>3. CASE InitializeResolves
    BY <1>1, <2>3 DEF InitializeResolves
  <2>4. CASE InitializeRejects
    <3>1. \A k \in Starts : pc[k] = "initializing" => pc'[k] # pc[k]
      BY <2>4 DEF InitializeRejects
    <3>2. \A k \in Starts : pc[k] = "initializing" => ~IsCurrent(k)
      BY <1>1, <3>1
    <3>3. status' = status
      BY <2>4, <3>2 DEF InitializeRejects
    <3>4. ASSUME startGate \in Starts, pc[startGate] = "initializing" PROVE FALSE
      BY <2>0, <3>2, <3>4 DEF StatusInv, IsCurrent, Starts, Nobody
    <3>5. startGate' = startGate
      BY <2>4, <3>4 DEF InitializeRejects
    <3> QED BY <2>4, <3>3, <3>5 DEF InitializeRejects, stopVars
  <2>5. CASE RuntimeStopped
    BY <1>1, <2>5 DEF RuntimeStopped
  <2>6. ASSUME NEW throws \in BOOLEAN, HookSettles(throws) PROVE Kept
    BY <1>1, <2>6 DEF HookSettles
  <2>7. ASSUME NEW k \in Starts, ClaimAdapter(k) \/ CleanUp(k) PROVE Kept
    <3>1. IsCurrent(k) /\ pc'[k] # pc[k]
      BY <2>0, <2>7 DEF ClaimAdapter, CleanUp
    <3> QED BY <1>1, <3>1
  <2>8. ASSUME NEW k \in Starts, SupersededBeforeClaim(k) \/ Superseded(k) PROVE Kept
    <3>1. status' = status /\ startGate' = startGate
      BY <1>1, <2>8, RejectsInertly DEF SupersededBeforeClaim, Superseded
    <3> QED BY <2>8, <3>1 DEF SupersededBeforeClaim, Superseded, stopVars
  <2>9. ASSUME NEW k \in Starts, CleanedUp(k) PROVE Kept
    <3>1. ~IsCurrent(k)
      BY <2>0, <2>9 DEF CleanedUp, StatusInv, IsCurrent
    <3>2. status' = status /\ startGate' = startGate
      BY <1>1, <2>9, <3>1, RejectsInertly DEF CleanedUp
    <3> QED BY <2>9, <3>2 DEF CleanedUp, stopVars
  <2>10. ASSUME NEW k \in Starts, RuntimeStarts(k) \/ RuntimeStartFails(k) PROVE Kept
    BY <2>10 DEF RuntimeStarts, RuntimeStartFails, stopVars
  <2>11. ASSUME NEW k \in Starts, AdapterStarted(k) PROVE Kept
    <3>1. pc'[k] # pc[k]
      BY <2>0, <2>11 DEF AdapterStarted
    <3>2. ~IsCurrent(k)
      BY <1>1, <3>1
    <3> QED BY <2>11, <3>2 DEF AdapterStarted, ownerVars, stopVars
  <2>12. ASSUME NEW k \in Starts, AdapterStartFails(k) PROVE Kept
    BY <2>12 DEF AdapterStartFails, stopVars
  <2>13. ASSUME NEW k \in Starts, Connect(k) PROVE Kept
    <3>1. pc'[k] # pc[k]
      BY <2>0, <2>13 DEF Connect
    <3>2. ~IsCurrent(k)
      BY <1>1, <3>1
    <3> QED BY <2>13, <3>2 DEF Connect, ownerVars, stopVars
  <2>14. ASSUME NEW k \in Starts, Resolve(k) PROVE Kept
    <3>1. pc'[k] # pc[k]
      BY <2>0, <2>14 DEF Resolve
    <3>2. ~IsCurrent(k)
      BY <1>1, <3>1
    <3> QED BY <2>14, <3>2 DEF Resolve, stopVars
  <2>15. ASSUME NEW k \in Starts, RuntimeBreaks(k) PROVE Kept
    BY <2>15 DEF RuntimeBreaks, stopVars
  <2>16. CASE UNCHANGED vars
    BY <1>1, <2>16 DEF vars
  <2> QED BY <1>1, <2>1, <2>2, <2>3, <2>4, <2>5, <2>6, <2>7, <2>8, <2>9, <2>10, <2>11,
             <2>12, <2>13, <2>14, <2>15, <2>16
          DEF Next, Internal, Continues, AdapterSettles
<1>2. IndInv /\ [Next]_vars =>
        [ (\E k \in Starts : Moves(k)) /\ (\A k \in Starts : IsCurrent(k) => pc'[k] = pc[k])
          => Kept ]_vars
  BY <1>1
<1> QED BY Inductive, <1>2, PTL DEF Spec, SupersededStartsAreInert

----------------------------------------------------------------------------
(* The Agent over its runtime.                                             *)

AgentTypeInv ==
  /\ agentStatus \in Owner!Statuses
  /\ agentStartGate \in Eras /\ agentStopGate \in BOOLEAN
  /\ agentPc \in [Starts -> {"none", "starting", "resolved", "rejected"}]
  /\ shutdown \in [awaits : {"nothing", "start", "stop"}, start : Eras]
  /\ agentStops \in [Eras -> Outcomes]

\* Where the runtime is while its Agent starts: at work on the start, done with it, or
\* cleaning up after it.
MidStart ==
  \/ status = "starting"
  \/ status = "running" /\ pc[era] = "resolved"
  \/ status = "stopping" /\ pc[era] = "cleaning"
  \/ status \in {"stopped", "failed"} /\ pc[era] \in {"cleaning", "rejected"}

PairInv ==
  /\ agentStatus = "not_started" <=> era = 0
  /\ agentStatus = "starting" => MidStart
  /\ agentStatus = "running" => status = "running"
  /\ agentStatus = "stopping" => stopGate /\ status \in {"stopping", "stopped", "failed"}
  /\ agentStatus = "stopped" => status = "stopped"
  /\ agentStatus = "failed" => status \in {"stopped", "failed"}
  /\ shutdown.awaits # "nothing" <=> agentStatus = "stopping"

AgentInv == AgentTypeInv /\ PairInv

----------------------------------------------------------------------------
(* Steps of the runtime under its Agent.                                   *)

\* Every step of an Agent is a step of its runtime, or none: a stop that the runtime's
\* cleanup has already begun is joined.
LEMMA AgentSteps ==
  ASSUME IndInv, [AgentNext]_allVars
  PROVE  [Next]_vars
<1>1. CASE AgentStart
  BY <1>1 DEF AgentStart, Next
<1>2. CASE AgentStop
  <2>1. BeginStop /\ UNCHANGED <<era, initialized, pc, rt>>
    BY <1>2 DEF AgentStop
  <2>2. CASE stopGate
    BY <2>1, <2>2 DEF BeginStop, vars, adapterVars, ownerVars, stopVars
  <2>3. CASE ~stopGate
    BY <2>1, <2>3 DEF Stop, Next
  <2> QED BY <2>2, <2>3
<1>3. CASE AgentStopNothing \/ AgentContinues
  BY <1>3 DEF AgentStopNothing, AgentContinues, AgentStopAwaitedStart, AgentStopped, AgentStarted, AgentStartFails
<1>4. CASE RuntimeContinues \/ \E k \in Starts : AdapterSettlesOf(k) \/ (RuntimeBreaks(k) /\ UNCHANGED agentVars)
  BY <1>4 DEF RuntimeContinues, AdapterSettlesOf, Next, Internal
<1>5. CASE UNCHANGED allVars
  BY <1>5 DEF allVars
<1> QED BY <1>1, <1>2, <1>3, <1>4, <1>5 DEF AgentNext

\* What the runtime does of its own moves its status only on the start or the stop in
\* flight, and tells by the start's place where it has got.
RuntimeMoved ==
  /\ era' = era /\ (stopGate => stopGate')
  /\ status = "starting" =>
       \/ status' = "starting"
       \/ status' = "running" /\ pc'[era] = "resolved"
       \/ status' = "stopping" /\ pc'[era] = "cleaning"
       \/ status' = "failed" /\ pc'[era] = "rejected"
  /\ status = "stopping" =>
       /\ status' \in {"stopping", "stopped", "failed"}
       /\ pc[era] = "cleaning" => pc'[era] = "cleaning"
  /\ status \in {"running", "stopped", "failed"} =>
       /\ status' = status
       /\ pc[era] \in {"resolved", "rejected"} => pc'[era] = pc[era]
       /\ pc[era] = "cleaning" => pc'[era] \in {"cleaning", "rejected"}
  /\ status = "not_started" => status' = status

LEMMA RuntimeMoves ==
  ASSUME IndInv, Internal
  PROVE  RuntimeMoved
<1>0. /\ TypeOK /\ StatusInv /\ TeardownInv /\ OutcomeInv
      /\ pc \in [Starts -> Points] /\ (status # "not_started" => era \in Starts)
  BY RuntimeAssumption DEF IndInv, OwnerInv, TypeOK, StatusInv, Eras, Starts
<1>1. \A k \in Starts : pc[k] # "none" => k # 0
  BY DEF Starts
\* A place of no interest changes: not one where the start of the era has come to rest.
<1>2. ASSUME NEW k \in Starts, NEW to \in Points, pc' = [pc EXCEPT ![k] = to],
             UNCHANGED <<status, era, stopGate>>,
             pc[k] \notin {"cleaning", "resolved", "rejected"}
      PROVE  RuntimeMoved
  BY <1>0, <1>2 DEF RuntimeMoved
<1>3. ASSUME UNCHANGED <<status, era, stopGate, pc>> PROVE RuntimeMoved
  BY <1>0, <1>3 DEF RuntimeMoved
\* A start rejects.
<1>4. ASSUME NEW k \in Starts, Reject(k), UNCHANGED <<era, stopGate>>, pc[k] \in {"initializing", "threw", "cleaning"},
             pc[k] = "cleaning" => status # "starting" /\ (k = era => status # "stopping")
      PROVE  RuntimeMoved
  <2>1. CASE IsCurrent(k)
    BY <1>0, <1>4, <2>1 DEF RuntimeMoved, Reject, IsCurrent
  <2>2. CASE ~IsCurrent(k)
    BY <1>0, <1>4, <2>2 DEF RuntimeMoved, Reject, IsCurrent
  <2> QED BY <2>1, <2>2
<1>5. CASE InitializeResolves
  BY <1>3, <1>5 DEF InitializeResolves
<1>6. CASE InitializeRejects
  <2>1. /\ UNCHANGED <<era, stopGate>>
        /\ \A k \in Starts : pc'[k] = IF pc[k] = "initializing" THEN "rejected" ELSE pc[k]
        /\ status' = IF status = "starting" /\ era \in Starts /\ pc[era] = "initializing" THEN "failed" ELSE status
    BY <1>6 DEF InitializeRejects, IsCurrent
  <2>2. CASE status = "not_started"
    BY <2>1, <2>2 DEF RuntimeMoved
  <2>3. CASE status # "not_started"
    <3>1. era \in Starts /\ pc'[era] = IF pc[era] = "initializing" THEN "rejected" ELSE pc[era]
      BY <1>0, <2>1, <2>3
    <3> QED BY <1>0, <2>1, <2>3, <3>1 DEF RuntimeMoved, StatusInv
  <2> QED BY <2>2, <2>3
<1>7. CASE RuntimeStopped
  BY <1>3, <1>7 DEF RuntimeStopped
<1>8. ASSUME NEW throws \in BOOLEAN, HookSettles(throws) PROVE RuntimeMoved
  <2>1. status = "stopping" /\ status' \in {"stopped", "failed"} /\ UNCHANGED <<era, stopGate, pc>>
    BY <1>0, <1>8 DEF HookSettles, TeardownInv
  <2> QED BY <2>1 DEF RuntimeMoved
<1>9. ASSUME NEW k \in Starts, ClaimAdapter(k) \/ Connect(k) \/ RuntimeStarts(k) \/ RuntimeStartFails(k)
                                 \/ AdapterStarted(k) \/ AdapterStartFails(k)
      PROVE  RuntimeMoved
  <2>1. /\ UNCHANGED <<status, era, stopGate>> /\ pc[k] \notin {"cleaning", "resolved", "rejected"}
        /\ \E to \in Points : pc' = [pc EXCEPT ![k] = to]
    BY <1>9 DEF ClaimAdapter, Connect, RuntimeStarts, RuntimeStartFails, AdapterStarted, AdapterStartFails, Points
  <2> QED BY <1>2, <2>1
<1>10. ASSUME NEW k \in Starts, SupersededBeforeClaim(k) \/ Superseded(k) PROVE RuntimeMoved
  BY <1>4, <1>10 DEF SupersededBeforeClaim, Superseded
<1>11. ASSUME NEW k \in Starts, CleanedUp(k) PROVE RuntimeMoved
  <2>1. status = "starting" => k # era
    BY <1>0, <1>11 DEF CleanedUp, StatusInv
  <2>2. k = era => status # "stopping"
    BY <1>0, <1>11 DEF CleanedUp, OutcomeInv
  <2>3. CASE status = "starting"
    <3>1. status' = status /\ pc' = [pc EXCEPT ![k] = "rejected"] /\ UNCHANGED <<era, stopGate>>
      BY <1>11, <2>1, <2>3 DEF CleanedUp, Reject, IsCurrent
    <3> QED BY <2>3, <3>1 DEF RuntimeMoved
  <2>4. CASE status # "starting"
    BY <1>4, <1>11, <2>2, <2>4 DEF CleanedUp
  <2> QED BY <2>3, <2>4
<1>12. ASSUME NEW k \in Starts, Resolve(k) PROVE RuntimeMoved
  BY <1>0, <1>12 DEF Resolve, RuntimeMoved, IsCurrent
<1>13. ASSUME NEW k \in Starts, CleanUp(k) PROVE RuntimeMoved
  <2>1. k = era /\ status = "starting" /\ pc' = [pc EXCEPT ![k] = "cleaning"] /\ era' = era /\ BeginStop
    BY <1>13 DEF CleanUp, IsCurrent
  <2>2. ~stopGate /\ activeAdapter # Nobody
    BY <1>0, <1>13, <2>1 DEF StatusInv, CleanUp, Starts, Nobody
  <2>3. status' = "stopping"
    BY <2>1, <2>2 DEF BeginStop, NothingBuilt, StopBuilt
  <2> QED BY <1>0, <2>1, <2>2, <2>3 DEF RuntimeMoved
<1>14. ASSUME NEW k \in Starts, RuntimeBreaks(k) PROVE RuntimeMoved
  BY <1>3, <1>14 DEF RuntimeBreaks
<1> QED BY <1>5, <1>6, <1>7, <1>8, <1>9, <1>10, <1>11, <1>12, <1>13, <1>14
        DEF Internal, Continues, AdapterSettles

----------------------------------------------------------------------------
(* The trackers agree.                                                     *)

LEMMA InitAgentInv == AgentInit => AgentInv
<1> SUFFICES ASSUME AgentInit PROVE AgentInv
  OBVIOUS
<1>1. NoShutdown \in [awaits : {"nothing", "start", "stop"}, start : Eras] /\ NoShutdown.awaits = "nothing"
  BY RuntimeAssumption DEF NoShutdown, Nobody, Eras
<1>2. agentStatus \in Owner!Statuses /\ agentStartGate \in Eras /\ agentStopGate \in BOOLEAN
  <2>1. Nobody \in Eras
    BY RuntimeAssumption DEF Nobody, Eras
  <2> QED BY <2>1 DEF AgentInit, Owner!Statuses
<1>3. /\ agentPc \in [Starts -> {"none", "starting", "resolved", "rejected"}]
      /\ agentStops \in [Eras -> Outcomes]
  BY DEF AgentInit, Outcomes
<1>4. PairInv
  BY <1>1 DEF AgentInit, Init, PairInv
<1> QED BY <1>1, <1>2, <1>3, <1>4 DEF AgentInit, AgentInv, AgentTypeInv

\* Every step of an Agent, or of its runtime under it, keeps them in agreement.
LEMMA NextAgentInv ==
  ASSUME IndInv, AgentInv, [AgentNext]_allVars
  PROVE  AgentInv'
<1>0. /\ AgentTypeInv /\ PairInv /\ TypeOK /\ StatusInv /\ TeardownInv /\ OutcomeInv /\ era \in Eras
      /\ (era # 0 => era \in Starts)
  BY RuntimeAssumption DEF IndInv, OwnerInv, TypeOK, AgentInv, Eras, Starts
<1>1. CASE AgentStart
  <2>1. /\ era' = era + 1 /\ era + 1 \in Starts /\ status' = "starting" /\ agentStatus # "stopping"
        /\ era + 1 \in Eras
    BY <1>0, <1>1, RuntimeAssumption DEF AgentStart, Start, TypeOK, Eras, Starts
  <2>2. AgentTypeInv'
    BY <1>0, <1>1, <2>1 DEF AgentStart, AgentTypeInv, Owner!Statuses
  <2>3. PairInv'
    BY <1>0, <1>1, <2>1 DEF AgentStart, PairInv, MidStart, Starts
  <2> QED BY <2>2, <2>3 DEF AgentInv
<1>2. CASE AgentStop
  <2>1. era' = era /\ era \in Starts
    BY <1>0, <1>2 DEF AgentStop, PairInv
  <2>2. AgentTypeInv'
    <3>1. 0 \in Eras
      BY RuntimeAssumption DEF Eras
    <3>2. shutdown' \in [awaits : {"nothing", "start", "stop"}, start : Eras]
      BY <1>0, <1>2, <3>1 DEF AgentStop, AgentTypeInv, Nobody
    <3>3. agentStops' \in [Eras -> Outcomes]
      BY <1>0, <1>2 DEF AgentStop, AgentTypeInv, Outcomes
    <3> QED BY <1>0, <1>2, <3>1, <3>2, <3>3 DEF AgentStop, AgentTypeInv, Owner!Statuses, Nobody
  <2>3. stopGate' /\ status' \in {"stopping", "stopped", "failed"}
    <3>1. CASE stopGate
      <4>1. status' = status /\ stopGate' = stopGate
        BY <1>2, <3>1 DEF AgentStop, BeginStop
      <4>2. status \notin {"starting", "running"}
        BY <1>0, <3>1 DEF StatusInv
      <4> QED BY <1>0, <1>2, <3>1, <4>1, <4>2 DEF AgentStop, PairInv, MidStart
    <3>2. CASE ~stopGate
      <4>1. StopBegun
        BY <1>2, <3>2, StopBegins DEF AgentStop
      <4>2. status \in {"starting", "running", "stopping", "stopped", "failed"}
        BY <1>0, <1>2 DEF AgentStop, PairInv, MidStart
      <4> QED BY <4>1, <4>2 DEF StopBegun
    <3> QED BY <3>1, <3>2
  <2>4. agentStatus' = "stopping" /\ shutdown'.awaits # "nothing" /\ agentStatus # "not_started"
    BY <1>2 DEF AgentStop
  <2> QED BY <1>0, <2>1, <2>2, <2>3, <2>4 DEF AgentInv, PairInv
<1>3. CASE AgentStopNothing
  <2>1. AgentTypeInv'
    BY <1>0, <1>3 DEF AgentStopNothing, AgentTypeInv, Outcomes
  <2> QED BY <1>0, <1>3, <2>1 DEF AgentStopNothing, AgentInv, PairInv, MidStart, vars
<1>4. CASE AgentStopAwaitedStart
  <2>1. AgentTypeInv' /\ shutdown'.awaits = "stop"
    BY <1>0, <1>4 DEF AgentStopAwaitedStart, AgentTypeInv
  <2> QED BY <1>0, <1>4, <2>1 DEF AgentStopAwaitedStart, AgentInv, PairInv, MidStart, vars
<1>5. CASE AgentStopped
  <2>1. /\ agentStatus = "stopping" /\ stopGate /\ status \in {"stopped", "failed"}
        /\ (stops[era] = "failed" <=> status = "failed") /\ UNCHANGED vars
    BY <1>0, <1>5 DEF AgentStopped, PairInv, OutcomeInv
  <2>2. AgentTypeInv'
    <3>1. stops[era] \in Outcomes
      BY <1>0 DEF TypeOK
    <3>2. NoShutdown \in [awaits : {"nothing", "start", "stop"}, start : Eras]
      BY RuntimeAssumption DEF NoShutdown, Nobody, Eras
    <3> QED BY <1>0, <1>5, <3>1, <3>2 DEF AgentStopped, AgentTypeInv, Owner!Statuses
  <2>3. shutdown'.awaits = "nothing" /\ agentStatus' = status
    BY <1>5, <2>1 DEF AgentStopped, NoShutdown
  <2> QED BY <1>0, <2>1, <2>2, <2>3 DEF AgentInv, PairInv, vars
<1>6. ASSUME NEW k \in Starts, AgentStarted(k) PROVE AgentInv'
  <2>1. AgentTypeInv'
    BY <1>0, <1>6 DEF AgentStarted, AgentTypeInv, Owner!Statuses
  <2>2. AgentIsCurrent(k) => status = "running" /\ agentStatus' = "running"
    BY <1>0, <1>6 DEF AgentStarted, AgentIsCurrent, PairInv, MidStart, StatusInv
  <2>3. UNCHANGED <<vars, shutdown>> /\ (~AgentIsCurrent(k) => agentStatus' = agentStatus)
    BY <1>6 DEF AgentStarted
  <2> QED BY <1>0, <2>1, <2>2, <2>3 DEF AgentInv, PairInv, MidStart, AgentIsCurrent, vars
<1>7. ASSUME NEW k \in Starts, AgentStartFails(k) PROVE AgentInv'
  <2>1. AgentTypeInv'
    <3>1. agentStartGate' \in Eras
      BY <1>0, <1>7, RuntimeAssumption DEF AgentStartFails, AgentTypeInv, Nobody, Eras
    <3> QED BY <1>0, <1>7, <3>1 DEF AgentStartFails, AgentTypeInv, Owner!Statuses
  <2>2. AgentIsCurrent(k) => status \in {"stopped", "failed"} /\ agentStatus' = "failed"
    BY <1>0, <1>7 DEF AgentStartFails, AgentIsCurrent, PairInv, MidStart, StatusInv
  <2>3. UNCHANGED <<vars, shutdown>> /\ (~AgentIsCurrent(k) => agentStatus' = agentStatus)
    BY <1>7 DEF AgentStartFails
  <2> QED BY <1>0, <2>1, <2>2, <2>3 DEF AgentInv, PairInv, MidStart, AgentIsCurrent, vars
<1>8. ASSUME Internal, UNCHANGED agentVars PROVE AgentInv'
  <2>1. RuntimeMoved
    BY <1>8, RuntimeMoves
  <2>2. AgentTypeInv'
    BY <1>0, <1>8 DEF AgentTypeInv, agentVars
  <2>3. agentStatus = "starting" => MidStart'
    BY <1>0, <2>1 DEF RuntimeMoved, PairInv, MidStart
  <2> QED BY <1>0, <1>8, <2>1, <2>2, <2>3 DEF AgentInv, PairInv, RuntimeMoved, agentVars
<1>9. CASE UNCHANGED allVars
  BY <1>0, <1>9 DEF AgentInv, AgentTypeInv, PairInv, MidStart, allVars, agentVars, vars
<1> QED BY <1>1, <1>2, <1>3, <1>4, <1>5, <1>6, <1>7, <1>8, <1>9
        DEF AgentNext, AgentContinues, RuntimeContinues, AdapterSettlesOf, Internal

\* Under whoever owns it, the runtime keeps its invariant, and an Agent its own.
OwnedInv == IndInv /\ (alone \/ AgentInv)

LEMMA OwnersInductive == MCSpec => []OwnedInv
<1>1. MCInit => OwnedInv
  BY InitIndInv, InitAgentInv DEF MCInit, AgentInit, OwnedInv
<1>2. OwnedInv /\ [MCNext]_mcVars => OwnedInv'
  <2> SUFFICES ASSUME OwnedInv, [MCNext]_mcVars PROVE OwnedInv'
    OBVIOUS
  <2>1. CASE Alone(Next)
    BY <2>1, NextIndInv DEF Alone, OwnedInv
  <2>2. CASE Owned(AgentNext)
    BY <2>2, AgentSteps, NextIndInv, NextAgentInv DEF Owned, OwnedInv
  <2>3. CASE UNCHANGED mcVars
    <3>1. UNCHANGED vars /\ UNCHANGED allVars /\ UNCHANGED alone
      BY <2>3 DEF mcVars, allVars
    <3> QED BY <3>1, NextIndInv, NextAgentInv DEF OwnedInv
  <2> QED BY <2>1, <2>2, <2>3 DEF MCNext
<1> QED BY <1>1, <1>2, PTL DEF MCSpec

\* An Agent and its runtime never drift into refusing each other: what the Agent's tracker
\* says, its runtime's agrees with, whatever starts, stops and cleanups overlap
\* (Agent.ts:97-101, 132, 181).
THEOREM TrackersStayTogether == MCSpec => []OwnersAgree
<1>1. OwnedInv => OwnersAgree
  BY DEF OwnedInv, OwnersAgree, TrackersAgree, AgentInv, PairInv, IndInv, OwnerInv, StatusInv
<1> QED BY <1>1, OwnersInductive, PTL

\* An Agent drives its runtime only as a caller of its own could, so everything proved of
\* the runtime holds of it under an Agent (Agent.ts:111-120, 139-159).
THEOREM AgentsDriveTheirRuntime == MCSpec => Spec
<1>1. MCInit => Init
  BY DEF MCInit, AgentInit
<1>2. OwnedInv /\ [MCNext]_mcVars => [Next]_vars
  <2>1. ASSUME OwnedInv, Alone(Next) PROVE [Next]_vars
    BY <2>1 DEF Alone
  <2>2. ASSUME OwnedInv, Owned(AgentNext) PROVE [Next]_vars
    BY <2>2, AgentSteps DEF Owned, OwnedInv
  <2>3. ASSUME UNCHANGED mcVars PROVE [Next]_vars
    BY <2>3 DEF mcVars, allVars
  <2> QED BY <2>1, <2>2, <2>3 DEF MCNext
<1> QED BY <1>1, <1>2, OwnersInductive, PTL DEF MCSpec, Spec

----------------------------------------------------------------------------
(* The two are one owner.                                                  *)

\* What a step of the runtime's does to what is held, whoever looks at it.
LEMMA HeldMoves ==
  ASSUME IndInv, Emptied, Emptied', [Next]_vars
  PROVE  \/ Held' = Held
         \/ status = "starting" /\ Held \subseteq Held' /\ Held' \subseteq {"adapter", "runtime"} \X Starts
         \/ status \in {"starting", "stopping"} /\ Held' \subseteq Held
<1>1. [Owner!Next]_(Owner!vars)
  BY StepRefines
<1> QED BY <1>1 DEF Owner!Next, Owner!vars, Owner!Begin, Owner!Acquire, Owner!Succeed, Owner!Halt,
                    Owner!Release, Owner!Settle

\* A start of the runtime's is its Agent's, and so is a stop in flight.
LEMMA RuntimeIsOwned ==
  ASSUME AgentInv, IndInv
  PROVE  /\ status = "starting" => agentStatus = "starting"
         /\ status = "stopping" => agentStatus \in {"starting", "stopping"}
  BY DEF AgentInv, AgentTypeInv, PairInv, IndInv, OwnerInv, StatusInv, Owner!Statuses

\* A step of an Agent over its runtime is a step of the abstract owner.
LEMMA AgentRefines ==
  ASSUME IndInv, IndInv', Emptied, Emptied', AgentInv, [AgentNext]_allVars, ~alone, ~alone'
  PROVE  [TopOwner!Next]_(TopOwner!vars)
<1>0. AgentInv' /\ AgentTypeInv /\ PairInv /\ AgentTypeInv' /\ PairInv'
  BY NextAgentInv DEF AgentInv
<1>1. [Next]_vars
  BY AgentSteps
<1>2. (status \notin {"starting", "running", "stopping"} => Held = {})
      /\ (status' \notin {"starting", "running", "stopping"} => Held' = {})
  BY DEF Emptied
\* The runtime moves and its Agent's status does not.
<1>3. ASSUME agentStatus' = agentStatus PROVE [TopOwner!Next]_(TopOwner!vars)
  <2>1. CASE Held' = Held
    BY <1>3, <2>1 DEF TopOwner!vars
  <2>2. CASE status = "starting" /\ Held \subseteq Held' /\ Held' \subseteq {"adapter", "runtime"} \X Starts
    BY <1>3, <2>2, RuntimeIsOwned DEF TopOwner!Next, TopOwner!Acquire
  <2>3. CASE status \in {"starting", "stopping"} /\ Held' \subseteq Held
    BY <1>3, <2>3, RuntimeIsOwned DEF TopOwner!Next, TopOwner!Release
  <2> QED BY <1>1, <2>1, <2>2, <2>3, HeldMoves
<1>4. CASE AgentStart
  <2>1. Held = {}
    <3>1. agentStatus \in {"not_started", "stopped", "failed"}
      BY <1>0, <1>4 DEF AgentStart, AgentTypeInv, Legal, Owner!Legal, Owner!Successors, Owner!Statuses
    <3>2. status \in {"not_started", "stopped", "failed"}
      BY <1>0, <3>1 DEF PairInv, IndInv, OwnerInv, StatusInv
    <3> QED BY <1>2, <3>2
  <2>2. Held' = Held
    BY <1>4 DEF AgentStart, Start, Held, adapterVars
  <2> QED BY <1>4, <2>1, <2>2 DEF AgentStart, Legal, Owner!Legal, Owner!Successors, TopOwner!Next, TopOwner!Begin,
                                  TopOwner!Legal, TopOwner!Successors
<1>5. CASE AgentStop
  <2>1. Held' = Held
    <3>1. CASE stopGate
      BY <1>5, <3>1 DEF AgentStop, BeginStop, Held, adapterVars
    <3>2. CASE ~stopGate
      <4>1. StopBegun /\ rt' = rt
        BY <1>5, <3>2, StopBegins DEF AgentStop
      <4>2. \A k \in Starts : claim'[k] \in {"claimed", "stopping"} <=> claim[k] \in {"claimed", "stopping"}
        <5>1. claim' = claim \/ (era \in Starts /\ activeAdapter = era /\ claim' = [claim EXCEPT ![era] = "stopping"])
          BY <4>1 DEF StopBegun
        <5>2. activeAdapter = era /\ era \in Starts => claim[era] = "claimed"
          BY DEF IndInv, OwnerInv, ClaimInv
        <5>3. claim \in [Starts -> {"none", "claimed", "stopping", "released"}]
          BY DEF IndInv, TypeOK
        <5> QED BY <5>1, <5>2, <5>3
      <4> QED BY <4>1, <4>2 DEF Held
    <3> QED BY <3>1, <3>2
  <2> QED BY <1>5, <2>1 DEF AgentStop, TopOwner!Next, TopOwner!Halt, TopOwner!Legal, TopOwner!Successors
<1>6. CASE AgentStopped
  <2>1. agentStatus = "stopping" /\ agentStatus' \in {"stopped", "failed"}
    BY <1>0, <1>6 DEF AgentStopped, PairInv
  <2>2. status' \in {"stopped", "failed"}
    BY <1>0, <2>1 DEF PairInv
  <2> QED BY <1>2, <2>1, <2>2 DEF TopOwner!Next, TopOwner!Settle
<1>7. ASSUME NEW k \in Starts, AgentStarted(k) PROVE [TopOwner!Next]_(TopOwner!vars)
  <2>1. Held' = Held
    BY <1>7 DEF AgentStarted, vars, adapterVars, Held
  <2>2. CASE AgentIsCurrent(k)
    BY <1>7, <2>1, <2>2 DEF AgentStarted, AgentIsCurrent, TopOwner!Next, TopOwner!Succeed, TopOwner!Legal,
                            TopOwner!Successors
  <2>3. CASE ~AgentIsCurrent(k)
    BY <1>3, <1>7, <2>3 DEF AgentStarted
  <2> QED BY <2>2, <2>3
<1>8. ASSUME NEW k \in Starts, AgentStartFails(k) PROVE [TopOwner!Next]_(TopOwner!vars)
  <2>1. CASE AgentIsCurrent(k)
    <3>1. agentStatus = "starting" /\ agentStatus' = "failed"
      BY <1>8, <2>1 DEF AgentStartFails, AgentIsCurrent
    <3>2. Held' = {}
      BY <1>0, <1>2, <3>1 DEF PairInv
    <3> QED BY <3>1, <3>2 DEF TopOwner!Next, TopOwner!Settle
  <2>2. CASE ~AgentIsCurrent(k)
    BY <1>3, <1>8, <2>2 DEF AgentStartFails
  <2> QED BY <2>1, <2>2
<1>9. CASE \/ AgentStopNothing \/ AgentStopAwaitedStart \/ RuntimeContinues \/ UNCHANGED allVars
           \/ \E k \in Starts : AdapterSettlesOf(k) \/ (RuntimeBreaks(k) /\ UNCHANGED agentVars)
  BY <1>3, <1>9 DEF AgentStopNothing, AgentStopAwaitedStart, RuntimeContinues, AdapterSettlesOf, allVars, agentVars
<1> QED BY <1>4, <1>5, <1>6, <1>7, <1>8, <1>9 DEF AgentNext, AgentContinues

\* Whoever owns the runtime, an Agent or a caller of its own, keeps the promise of an
\* owner: adapters and AgentRuntimes are taken only while it starts, and an end is
\* reported only with all of them given back (Agent.ts:97-101, 176-197).
THEOREM OwnersAreOwners == MCSpec => OwnersImplementLifecycle
<1>1. MCInit => TopOwner!Init
  <2> SUFFICES ASSUME MCInit PROVE TopOwner!Init
    OBVIOUS
  <2>1. Held = {} /\ status = "not_started" /\ agentStatus = "not_started"
    BY DEF MCInit, AgentInit, Init, Held
  <2> QED BY <2>1 DEF TopOwner!Init
<1>2. OwnedInv /\ OwnedInv' /\ Emptied /\ Emptied' /\ [MCNext]_mcVars => [TopOwner!Next]_(TopOwner!vars)
  <2> SUFFICES ASSUME OwnedInv, OwnedInv', Emptied, Emptied', [MCNext]_mcVars PROVE [TopOwner!Next]_(TopOwner!vars)
    OBVIOUS
  <2>1. alone' = alone /\ IndInv /\ IndInv'
    BY DEF MCNext, Alone, Owned, mcVars, OwnedInv
  <2>2. CASE alone
    <3>1. [Next]_vars
      BY <2>2 DEF MCNext, Alone, Owned, mcVars, allVars
    <3>2. [Owner!Next]_(Owner!vars)
      BY <2>1, <3>1, StepRefines
    <3> QED BY <2>1, <2>2, <3>2
            DEF Owner!Next, Owner!vars, Owner!Begin, Owner!Acquire, Owner!Succeed, Owner!Halt, Owner!Release,
                Owner!Settle, Owner!Legal, Owner!Successors,
                TopOwner!Next, TopOwner!vars, TopOwner!Begin, TopOwner!Acquire, TopOwner!Succeed, TopOwner!Halt,
                TopOwner!Release, TopOwner!Settle, TopOwner!Legal, TopOwner!Successors
  <2>3. CASE ~alone
    <3>1. [AgentNext]_allVars /\ AgentInv
      BY <2>3 DEF MCNext, Alone, Owned, mcVars, OwnedInv
    <3> QED BY <2>1, <2>3, <3>1, AgentRefines
  <2> QED BY <2>2, <2>3
<1>3. OwnedInv => Emptied
  BY EndedHoldsNothing DEF OwnedInv
<1> QED BY <1>1, <1>2, <1>3, OwnersInductive, PTL DEF MCSpec, OwnersImplementLifecycle, TopOwner!Spec
=============================================================================
