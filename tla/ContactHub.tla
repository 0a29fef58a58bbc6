----------------------------- MODULE ContactHub -----------------------------
(***************************************************************************)
(* Contact changes (ContactEventHandler, with what PlatformRuntime wires   *)
(* to it): Band's contact events are handled one at a time, a change seen  *)
(* lately is skipped, an addition or a removal is noted in every room's    *)
(* context, and with the hub strategy each change is filed in a hub room,  *)
(* opened for the first one and told its purpose, and put to its turns.    *)
(* A context's notes go to its next turn.  A handler that throws forgets   *)
(* its change and fails the runtime.                                       *)
(***************************************************************************)
EXTENDS Integers, Sequences, FiniteSets, SequencesExt

CONSTANTS
  Changes,         \* the changes, told apart as buildDedupKey does
  Broadcast,       \* those every room is told of: additions and removals
  ContactRooms,    \* the rooms the agent is in, the hub aside
  Window,          \* LRU_MAX_SIZE
  MaxContactEvents,  \* how many contact events Band sends, repeats included
  MaxRoomTurns     \* turns, and rooms left, in all

ASSUME WindowAssumption == Window \in Nat \ {0}
\* What no context's notes can be, so that one that is gone is told from one that has notes.
ASSUME ClosedAssumption == "closed" \notin Changes

Hub == "hub"
Prompt == "prompt"
HubContexts == ContactRooms \cup {Hub}

VARIABLES
  strategy,   \* config.strategy
  arrived,    \* how many contact events the loop has taken
  handling,   \* the handler: its stage and its change
  dedup,      \* dedupOrder, oldest first; dedup is its set
  hubRoom,    \* whether hubRoomId is known
  notes,      \* _pendingSystemMessages by context; Closed without one
  turn,       \* the room's turn: what it took, and the hub event it is for
  primed,     \* contexts that had their first turn
  hubQueue,   \* hub events waiting for a turn
  roomTurns,
  contactsUp, \* the runtime has not failed
  \* what happened, for the properties
  owed,       \* by context: the notes it was given since it was made, but for those of
              \* a turn whose history could not be fetched
  told,       \* by context: the notes its turns gave the adapter
  hubTurns,   \* the changes the hub's turns were for, in order
  recorded,   \* every change let through, in order
  remade      \* the hub's context is not the one the prompt went to

contactVars == <<strategy, arrived, handling, dedup, hubRoom, notes, turn, primed, hubQueue, roomTurns,
                 contactsUp, owed, told, hubTurns, recorded, remade>>

Closed == <<"closed">>
Idle == [stage |-> "idle"]
NoRoomTurn == [notes |-> <<>>, of |-> "none", on |-> FALSE, backlog |-> FALSE]

ContactInit ==
  /\ strategy \in {"disabled", "callback", "hub_room"}
  /\ arrived = 0 /\ handling = Idle /\ dedup = <<>> /\ hubRoom = FALSE
  /\ notes = [r \in HubContexts |-> IF r = Hub THEN Closed ELSE <<>>]
  /\ turn = [r \in HubContexts |-> NoRoomTurn] /\ primed = {} /\ hubQueue = <<>>
  /\ roomTurns = 0 /\ contactsUp = TRUE
  /\ owed = [r \in HubContexts |-> <<>>] /\ told = [r \in HubContexts |-> <<>>]
  /\ hubTurns = <<>> /\ recorded = <<>> /\ remade = FALSE

Open(r) == notes[r] # Closed

\* injectSystemMessage, in each of the contexts.
Noted(note) ==
  /\ notes' = [r \in HubContexts |-> IF Open(r) THEN Append(notes[r], note) ELSE notes[r]]
  /\ owed' = [r \in HubContexts |-> IF Open(r) THEN Append(owed[r], note) ELSE owed[r]]

\* recordDedup.
EvictsEarly == Len(dedup) + 1 >= Window /\ dedup # <<>>
Evicts == Len(dedup) >= Window
Recorded(c) == IF Evicts THEN Append(Tail(dedup), c) ELSE Append(dedup, c)

\* rollbackDedup, of the change being handled, the last one recorded; what its recording
\* evicted stays out.
RolledBack(ok) == IF ok THEN dedup ELSE Front(dedup)

\* handle, to its first await, of a change Band reports or repeats.
Ignored == strategy = "disabled" /\ Broadcast = {}
Fresh(c) == c \notin ToSet(dedup) /\ ~Ignored
StageOf == CASE strategy = "disabled" -> "idle" [] strategy = "callback" -> "calling"
             [] OTHER -> IF hubRoom THEN "filing" ELSE "opening"
Handle(c) ==
  /\ contactsUp /\ handling = Idle /\ arrived < MaxContactEvents
  /\ arrived' = arrived + 1
  /\ IF Fresh(c)
     THEN /\ dedup' = Recorded(c) /\ recorded' = Append(recorded, c)
          /\ handling' = IF StageOf = "idle" THEN Idle ELSE [stage |-> StageOf, of |-> c]
          /\ IF c \in Broadcast THEN Noted(c) ELSE UNCHANGED <<notes, owed>>
     ELSE UNCHANGED <<dedup, recorded, handling, notes, owed>>
  /\ UNCHANGED <<strategy, hubRoom, turn, primed, hubQueue, roomTurns, contactsUp, told, hubTurns,
                 remade>>

\* handleCallback: a callback that throws fails the runtime as every handler does.
CallbackEnds(ok) ==
  /\ contactsUp /\ handling.stage = "calling"
  /\ handling' = Idle /\ contactsUp' = ok /\ dedup' = RolledBack(ok)
  /\ UNCHANGED <<strategy, arrived, hubRoom, notes, turn, primed, hubQueue, roomTurns, owed,
                 told, hubTurns, recorded, remade>>

NoPurpose == <<>>
Purpose == <<Prompt>>

\* initHubRoom: the room is created and its context is told what it is for.
HubOpens ==
  /\ contactsUp /\ handling.stage = "opening"
  /\ hubRoom' = TRUE
  /\ handling' = [handling EXCEPT !.stage = "filing"]
  /\ notes' = [notes EXCEPT ![Hub] = Purpose] /\ owed' = [owed EXCEPT ![Hub] = <<Prompt>>]
  /\ UNCHANGED <<strategy, arrived, dedup, turn, primed, hubQueue, roomTurns, contactsUp, told,
                 hubTurns, recorded, remade>>

\* createChat fails: the handler throws out of the presence loop.
HubFails ==
  /\ contactsUp /\ handling.stage = "opening"
  /\ contactsUp' = FALSE /\ handling' = Idle /\ dedup' = RolledBack(FALSE)
  /\ UNCHANGED <<strategy, arrived, hubRoom, notes, turn, primed, hubQueue, roomTurns, owed,
                 told, hubTurns, recorded, remade>>

\* handleHubRoom, once the room is there: the event is filed or cannot be, which fails the
\* runtime, and is put to the hub either way; enqueueEvent makes the context again if the room was left.
Files(ok) ==
  /\ contactsUp /\ handling.stage = "filing"
  /\ hubQueue' = Append(hubQueue, handling.of)
  /\ IF Open(Hub) THEN UNCHANGED <<notes, remade>>
     ELSE notes' = [notes EXCEPT ![Hub] = <<>>] /\ remade' = TRUE
  /\ contactsUp' = ok /\ handling' = Idle /\ dedup' = RolledBack(ok)
  /\ UNCHANGED <<strategy, arrived, hubRoom, turn, primed, roomTurns, owed, told, hubTurns,
                 recorded>>

\* DefaultPreprocessor.process: the notes are taken before the first turn's history is
\* awaited.  The hub's turns are for its events; another room's may be for its backlog.
Taken(r) == notes[r]
TurnTakes(r, backlog) ==
  /\ contactsUp /\ Open(r) /\ ~turn[r].on /\ roomTurns < MaxRoomTurns
  /\ r = Hub => hubQueue # <<>> /\ ~backlog
  /\ turn' = [turn EXCEPT ![r] = [notes |-> Taken(r), on |-> TRUE, backlog |-> backlog,
                                  of |-> IF r = Hub THEN Head(hubQueue) ELSE "message"]]
  /\ notes' = [notes EXCEPT ![r] = <<>>]
  /\ hubQueue' = IF r = Hub THEN Tail(hubQueue) ELSE hubQueue
  /\ roomTurns' = roomTurns + 1
  /\ UNCHANGED <<strategy, arrived, handling, dedup, hubRoom, primed, contactsUp, owed, told,
                 hubTurns, recorded, remade>>

NotesCleared(r) == <<>>
NotesLeft(r) == notes[r]

\* The first turn's history comes, or the turn needs none, and the adapter is called.
TurnTells(r) ==
  /\ contactsUp /\ turn[r].on
  /\ told' = [told EXCEPT ![r] = @ \o turn[r].notes]
  /\ notes' = [notes EXCEPT ![r] = NotesLeft(r)]
  /\ hubTurns' = IF r = Hub THEN Append(hubTurns, turn[r].of) ELSE hubTurns
  /\ primed' = primed \cup {r} /\ turn' = [turn EXCEPT ![r] = NoRoomTurn]
  /\ UNCHANGED <<strategy, arrived, handling, dedup, hubRoom, hubQueue, roomTurns,
                 contactsUp, owed, recorded, remade>>

\* It cannot be fetched: a live turn fails the runtime; a backlog turn is retried as a
\* message the context has already recorded, and its notes are gone.
HydrationFails(r) ==
  /\ contactsUp /\ turn[r].on /\ r \notin primed
  /\ owed' = [owed EXCEPT ![r] = told[r] \o notes[r]]
  /\ contactsUp' = turn[r].backlog
  /\ primed' = primed \cup {r} /\ turn' = [turn EXCEPT ![r] = NoRoomTurn]
  /\ UNCHANGED <<strategy, arrived, handling, dedup, hubRoom, notes, hubQueue, roomTurns, told,
                 hubTurns, recorded, remade>>

\* onRoomLeft, teardownExecution: the context goes, with its notes, its queue and its turn.
RoomGoes(r) ==
  /\ contactsUp /\ Open(r) /\ roomTurns < MaxRoomTurns
  /\ notes' = [notes EXCEPT ![r] = Closed] /\ turn' = [turn EXCEPT ![r] = NoRoomTurn]
  /\ primed' = primed \ {r} /\ hubQueue' = IF r = Hub THEN <<>> ELSE hubQueue
  /\ owed' = [owed EXCEPT ![r] = <<>>] /\ told' = [told EXCEPT ![r] = <<>>]
  /\ roomTurns' = roomTurns + 1
  /\ UNCHANGED <<strategy, arrived, handling, dedup, hubRoom, contactsUp, hubTurns, recorded,
                 remade>>

\* onRoomJoined, getOrCreateContext.  A hub that is left and joined again is not told
\* its purpose again.
RoomComes(r) ==
  /\ contactsUp /\ ~Open(r) /\ (r = Hub => hubRoom)
  /\ notes' = [notes EXCEPT ![r] = <<>>]
  /\ remade' = (remade \/ r = Hub)
  /\ UNCHANGED <<strategy, arrived, handling, dedup, hubRoom, turn, primed, hubQueue, roomTurns,
                 contactsUp, owed, told, hubTurns, recorded>>

ContactNext ==
  \/ \E c \in Changes : Handle(c)
  \/ HubOpens \/ HubFails
  \/ \E ok \in BOOLEAN : Files(ok) \/ CallbackEnds(ok)
  \/ \E r \in HubContexts : TurnTells(r) \/ HydrationFails(r) \/ RoomGoes(r) \/ RoomComes(r)
                          \/ \E b \in BOOLEAN : TurnTakes(r, b)

ContactSpec == ContactInit /\ [][ContactNext]_contactVars

-----------------------------------------------------------------------------

\* A context's notes reach its turns once each and in order: what it was given is what its
\* turns were told, what a turn under way holds and what still waits
\* (DefaultPreprocessor.process takes the notes before the first turn's history is awaited,
\* while changes go on being noted).
NotesAreTold ==
  \A r \in HubContexts : Open(r) => told[r] \o turn[r].notes \o notes[r] = owed[r]

\* The hub's model acts on no contact change before it has been told what the room is for,
\* as long as the context that was told is the one that runs (onHubInit, enqueueEvent).
HubKnowsItsPurpose ==
  hubTurns # <<>> /\ Open(Hub) /\ ~remade => Prompt \in ToSet(told[Hub])

\* A change Band repeats is filed once: it is let through again only when as many others
\* have been let through since as the window holds (recordDedup).
RepeatsAreSkipped ==
  \A i, j \in 1..Len(recorded) : i < j /\ recorded[i] = recorded[j] =>
    Cardinality({recorded[k] : k \in (i + 1)..(j - 1)}) >= Window

\* The hub's turns are for the changes let through, in the order they came, each once.
HubKeepsTheOrder ==
  \E place \in [1..Len(hubTurns) -> 1..Len(recorded)] :
    \A i, j \in 1..Len(hubTurns) :
      recorded[place[i]] = hubTurns[i] /\ (i < j => place[i] < place[j])

ContactsAreHandled == NotesAreTold /\ HubKnowsItsPurpose /\ RepeatsAreSkipped /\ HubKeepsTheOrder
=============================================================================
