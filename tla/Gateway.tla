------------------------------ MODULE Gateway ------------------------------
(***************************************************************************)
(* The A2A gateway (adapters/a2a-gateway): each request of an outside      *)
(* client opens a task, posts into the Band room of its context and waits  *)
(* for a peer's answer, which is found by the task it names or, where no   *)
(* other request is in the room, by the peer that sent it.                 *)
(*                                                                         *)
(* Requests run beside each other and the room's messages; what one does   *)
(* between two calls to Band is a step.  A failed createChat has not been  *)
(* taken, a failed post may have been.  Whether a peer has to be added to  *)
(* a known room is left open, and a request for an unknown peer, which is  *)
(* answered at once, is left out.  A client may send a second message of a *)
(* task that is not over: the A2A library lets it through.                 *)
(***************************************************************************)
EXTENDS Naturals, FiniteSets, Sequences

CONSTANTS
  Peers,          \* the peers Band lists
  Contexts,       \* A2A contexts
  MaxRequests,    \* bound: requests
  MaxGwRooms,     \* bound: rooms created
  MaxAnswers,     \* bound: messages of the peers
  MaxGwUpsets     \* bound: rooms left, stops, rooms bootstrapped

ASSUME GatewayAssumption == {MaxRequests, MaxGwRooms, MaxAnswers, MaxGwUpsets} \subseteq Nat

Requests == 1..MaxRequests
GwRooms == 1..MaxGwRooms

VARIABLES
  requests,    \* the generator of each request, and its PendingTaskRecord
  contextRoom, \* contextToRoom
  gwRooms,     \* the rooms created, each for a context
  byTask,      \* pendingByTask
  byRoom,      \* pendingByRoom: a room's requests by task
  gwMemory     \* what the checks remember

gatewayVars == <<requests, contextRoom, gwRooms, byTask, byRoom, gwMemory>>

NoRequest ==
  [pc |-> "none", peer |-> "none", ctx |-> "none", task |-> 0, room |-> 0, strict |-> FALSE,
   require |-> FALSE, final |-> FALSE, cancelled |-> FALSE]

GatewayInit ==
  /\ requests = [r \in Requests |-> NoRequest]
  /\ contextRoom = [c \in Contexts |-> 0]
  /\ gwRooms = <<>>
  /\ byTask = [t \in Requests |-> 0]
  /\ byRoom = [x \in GwRooms |-> byTask]
  /\ gwMemory = [astray |-> {}, answers |-> 0, upsets |-> 0]

----------------------------------------------------------------------------
(* The pending tasks.                                                      *)

Listed(x) == {byRoom[x][t] : t \in Requests} \ {0}

\* Broken variant of Several: a request that joins another's room leaves it as it was.
SeveralNow(here) == FALSE
Several(here) == Cardinality(here) > 1

\* The task is listed, in place of an earlier request of the same task.  Where several
\* are in a room each needs answers that name its task.
Registers(r, entry, x) ==
  LET t == entry.task
      here == (Listed(x) \ {byRoom[x][t]}) \cup {r}
      mine == [entry EXCEPT !.pc = "posting", !.room = x, !.require = entry.strict \/ Listed(x) # {}]
      all == [requests EXCEPT ![r] = mine] IN
    /\ requests' = [q \in Requests |-> [all[q] EXCEPT !.require = @ \/ (q \in here /\ Several(here))]]
    /\ byRoom' = [byRoom EXCEPT ![x][t] = r]
    /\ byTask' = [byTask EXCEPT ![t] = r]
    /\ UNCHANGED gwMemory

\* removePending: the room's entry of the task goes, whosever it is by now, and
\* pendingByTask's if it is this request's.  Those left need what they needed alone.
Removes(r, after) ==
  LET t == requests[r].task
      x == requests[r].room
      left == Listed(x) \ {byRoom[x][t]} IN
    /\ requests' = [q \in Requests |-> IF q = r THEN after ELSE
                      [requests[q] EXCEPT !.require =
                         IF q \in left THEN requests[q].strict \/ Cardinality(left) > 1 ELSE @]]
    /\ byRoom' = [byRoom EXCEPT ![x][t] = 0]
    /\ byTask' = [byTask EXCEPT ![t] = IF @ = r THEN 0 ELSE @]

\* The last event has been published.
Over(r) == [NoRequest EXCEPT !.pc = "over", !.task = requests[r].task, !.peer = requests[r].peer, !.room = requests[r].room]
Stuck(r) == requests' = [requests EXCEPT ![r] = Over(r)] /\ UNCHANGED <<byTask, byRoom>>

\* An event reaches the queue: the generator that awaits it takes it at once.
Given(r) == IF requests[r].pc = "waiting" THEN Over(r) ELSE [requests[r] EXCEPT !.final = TRUE]

----------------------------------------------------------------------------
(* handleGatewayRequest.                                                   *)

\* A request for the room of its context, which the peer may have to join first, or for
\* a new one.
RequestArrives(r, p, c, t) ==
  /\ requests[r].pc = "none" /\ \A q \in 1..(r - 1) : requests[q].pc # "none"
  /\ \/ t = r
     \/ \E q \in 1..(r - 1) : /\ requests[q].pc \notin {"none", "over"} /\ requests[q].task = t
                              /\ requests[q].peer = p /\ requests[q].ctx = c
  /\ LET x == contextRoom[c]
         entry(pc) == [NoRequest EXCEPT !.pc = pc, !.peer = p, !.ctx = c, !.task = t, !.room = x, !.strict = x # 0] IN
       \/ /\ x # 0 /\ Registers(r, entry("posting"), x)
       \/ /\ requests' = [requests EXCEPT ![r] = entry(IF x # 0 THEN "adding" ELSE "creating")]
          /\ UNCHANGED <<byTask, byRoom, gwMemory>>
  /\ UNCHANGED <<contextRoom, gwRooms>>

PeerAdded(r) ==
  /\ requests[r].pc = "adding"
  /\ Registers(r, requests[r], requests[r].room)
  /\ UNCHANGED <<contextRoom, gwRooms>>

\* The context's last room is the one that counts: nobody else's creation is awaited.
RoomMade(r) ==
  /\ requests[r].pc = "creating" /\ Len(gwRooms) < MaxGwRooms
  /\ LET x == Len(gwRooms) + 1 IN
       /\ gwRooms' = Append(gwRooms, requests[r].ctx)
       /\ requests' = [requests EXCEPT ![r].pc = "inviting", ![r].room = x]
  /\ UNCHANGED <<contextRoom, byTask, byRoom, gwMemory>>
PeerInvited(r) ==
  /\ requests[r].pc = "inviting"
  /\ contextRoom' = [contextRoom EXCEPT ![requests[r].ctx] = requests[r].room]
  /\ Registers(r, requests[r], requests[r].room)
  /\ UNCHANGED gwRooms

\* The generator throws, and the executor publishes the failure.
RoomRefused(r) ==
  /\ requests[r].pc \in {"adding", "creating", "inviting"}
  /\ Stuck(r)
  /\ UNCHANGED <<contextRoom, gwRooms, gwMemory>>

PostTaken(r) ==
  /\ requests[r].pc = "posting"
  /\ requests' = [requests EXCEPT ![r].pc = "posted"]
  /\ UNCHANGED <<contextRoom, gwRooms, byTask, byRoom, gwMemory>>
PostFails(r) ==
  /\ requests[r].pc \in {"posting", "posted"}
  /\ Removes(r, Over(r))
  /\ UNCHANGED <<contextRoom, gwRooms, gwMemory>>

\* The post is answered.  The executor breaks off the generator at a final event, so
\* that who put it in the queue has removed the request.
PostAnswered(r) ==
  /\ requests[r].pc = "posted"
  /\ \/ requests[r].cancelled /\ Removes(r, Over(r))
     \/ ~requests[r].cancelled /\ requests[r].final /\ Stuck(r)
     \/ /\ ~requests[r].cancelled /\ ~requests[r].final
        /\ requests' = [requests EXCEPT ![r].pc = "waiting"] /\ UNCHANGED <<byTask, byRoom>>
  /\ UNCHANGED <<contextRoom, gwRooms, gwMemory>>

RequestTimesOut(r) ==
  /\ requests[r].pc = "waiting"
  /\ Removes(r, Over(r))
  /\ UNCHANGED <<contextRoom, gwRooms, gwMemory>>

\* onCancel
ClientCancels(t) ==
  /\ byTask[t] # 0
  /\ Removes(byTask[t], Given(byTask[t]))
  /\ UNCHANGED <<contextRoom, gwRooms, gwMemory>>

----------------------------------------------------------------------------
(* The room's messages, and what ends the room.                            *)

\* resolvePendingForMessage
Matching(x, p, t) ==
  IF t # 0 THEN {byRoom[x][t]} \ {0}
  ELSE {r \in Listed(x) : ~requests[r].require /\ requests[r].peer = p}

Reused(q) == \E b \in Requests \ {q} : requests[b].task = requests[q].task
Unanswered(q) == requests[q].pc # "over" /\ ~requests[q].final /\ ~requests[q].cancelled

\* A peer answers what was posted, naming its task or not, for good or while it works.
PeerAnswers(q) ==
  /\ requests[q].pc \in {"posted", "waiting", "over"} /\ requests[q].room # 0
  /\ gwMemory.answers < MaxAnswers
  /\ \E tagged, final \in BOOLEAN :
       LET found == Matching(requests[q].room, requests[q].peer, IF tagged THEN requests[q].task ELSE 0) IN
         \/ /\ Cardinality(found) # 1
            /\ gwMemory' = [gwMemory EXCEPT !.answers = @ + 1]
            /\ UNCHANGED <<requests, byTask, byRoom>>
         \/ \E r \in found :
              /\ Cardinality(found) = 1
              /\ gwMemory' = [gwMemory EXCEPT !.answers = @ + 1, !.astray =
                   IF ~Unanswered(q) \/ q = r \/ Reused(q) THEN @ ELSE @ \cup {<<q, r>>}]
              /\ IF final THEN Removes(r, Given(r)) ELSE UNCHANGED <<requests, byTask, byRoom>>
  /\ UNCHANGED <<contextRoom, gwRooms>>

GwUpset == gwMemory.upsets < MaxGwUpsets /\ gwMemory' = [gwMemory EXCEPT !.upsets = @ + 1]

\* Broken variant: the requests are dropped and their queues stay.
CancelledLater(r) == requests[r]
Cancelled(r) ==
  IF requests[r].pc = "waiting" THEN Over(r) ELSE [requests[r] EXCEPT !.cancelled = TRUE, !.final = FALSE]

\* onCleanup
GwRoomLeft(x) ==
  /\ GwUpset /\ x \in DOMAIN gwRooms
  /\ requests' = [r \in Requests |-> IF r \in Listed(x) THEN Cancelled(r) ELSE requests[r]]
  /\ byRoom' = [byRoom EXCEPT ![x] = [t \in Requests |-> 0]]
  /\ byTask' = [t \in Requests |-> IF byTask[t] # 0 /\ requests[byTask[t]].room = x THEN 0 ELSE byTask[t]]
  /\ contextRoom' = [c \in Contexts |-> IF contextRoom[c] = x THEN 0 ELSE contextRoom[c]]
  /\ UNCHANGED gwRooms

\* resetState; the runtime may be started again.
GwRuntimeStops ==
  /\ GwUpset
  /\ requests' = [r \in Requests |-> IF \E t \in Requests : byTask[t] = r THEN Cancelled(r) ELSE requests[r]]
  /\ byRoom' = [x \in GwRooms |-> [t \in Requests |-> 0]]
  /\ byTask' = [t \in Requests |-> 0]
  /\ contextRoom' = [c \in Contexts |-> 0]
  /\ UNCHANGED gwRooms

\* rehydrate: the room's history tells its context.
GwRoomBootstraps(x) ==
  /\ GwUpset /\ x \in DOMAIN gwRooms /\ contextRoom[gwRooms[x]] = 0
  /\ contextRoom' = [contextRoom EXCEPT ![gwRooms[x]] = x]
  /\ UNCHANGED <<requests, gwRooms, byTask, byRoom>>

GatewayNext ==
  \/ \E r \in Requests :
       \/ \E p \in Peers, c \in Contexts, t \in 1..r : RequestArrives(r, p, c, t)
       \/ PeerAdded(r) \/ RoomMade(r) \/ PeerInvited(r) \/ RoomRefused(r)
       \/ PostTaken(r) \/ PostFails(r) \/ PostAnswered(r) \/ RequestTimesOut(r)
       \/ ClientCancels(r) \/ PeerAnswers(r)
  \/ \E x \in GwRooms : GwRoomLeft(x) \/ GwRoomBootstraps(x)
  \/ GwRuntimeStops

GatewaySpec == GatewayInit /\ [][GatewayNext]_gatewayVars

----------------------------------------------------------------------------
(* What must hold.                                                         *)

\* While a request awaits its answer nobody else is given it, named or not, however the
\* requests of a room come, end, time out and are cancelled.  The late answer of one that
\* is over may be taken for another's.
AnswersReachTheirRequest == gwMemory.astray = {}

\* Who waits for an answer can be found by it, and what can be found waits or will: no
\* room left, stop or removal of one request strands or keeps another.  Not so of the
\* requests of one task, the second of which takes the first one's place.
RequestsAreFound ==
  /\ \A r \in Requests :
       requests[r].pc = "waiting" /\ ~Reused(r) => byRoom[requests[r].room][requests[r].task] = r /\ byTask[requests[r].task] = r
  /\ \A x \in GwRooms : \A r \in Listed(x) : requests[r].pc \in {"posting", "posted", "waiting"} /\ requests[r].room = x
  /\ \A t \in Requests : byTask[t] # 0 => requests[byTask[t]].pc \in {"posting", "posted", "waiting"}
=============================================================================
