----------------------------- MODULE Lifecycle -----------------------------
(***************************************************************************)
(* What every startable owner promises (runtime/lifecycle.ts:4-33, the     *)
(* table at 65-72): its status moves only along the transition table, it   *)
(* takes resources only while it starts, and it never reports that it      *)
(* ended while it still holds one.                                         *)
(*                                                                         *)
(* This is the abstract specification.  PlatformRuntime and Agent are      *)
(* shown to implement it.                                                  *)
(***************************************************************************)
CONSTANT Resources     \* what a start may take and a stop has to give back

VARIABLES
  status,   \* the status of the owner's LifecycleTracker
  held      \* the resources taken and not yet given back

vars == <<status, held>>

Statuses == {"not_started", "starting", "running", "stopping", "stopped", "failed"}

\* RUNTIME_LIFECYCLE_TRANSITIONS.
Successors ==
  [ not_started |-> {"starting"},
    starting    |-> {"running", "stopping", "stopped", "failed"},
    running     |-> {"stopping", "failed"},
    stopping    |-> {"stopped", "failed"},
    stopped     |-> {"starting"},
    failed      |-> {"starting", "stopping", "failed"} ]

Legal(from, to) == to \in Successors[from]

Init == status = "not_started" /\ held = {}

Begin ==
  /\ Legal(status, "starting") /\ held = {}
  /\ status' = "starting"
  /\ UNCHANGED held

Acquire ==
  /\ status = "starting"
  /\ held \subseteq held' /\ held' \subseteq Resources
  /\ UNCHANGED status

Succeed ==
  /\ Legal(status, "running")
  /\ status' = "running"
  /\ UNCHANGED held

Halt ==
  /\ Legal(status, "stopping")
  /\ status' = "stopping"
  /\ UNCHANGED held

\* A stop gives resources back, and so does a start that fails half way.
Release ==
  /\ status \in {"starting", "stopping"}
  /\ held' \subseteq held
  /\ UNCHANGED status

\* The end of a stop, or of a start that came to nothing.
Settle ==
  /\ status \in {"starting", "stopping"}
  /\ status' \in {"stopped", "failed"}
  /\ held' = {}

Next == Begin \/ Acquire \/ Succeed \/ Halt \/ Release \/ Settle

Spec == Init /\ [][Next]_vars
=============================================================================
