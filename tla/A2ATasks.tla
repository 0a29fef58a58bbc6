------------------------------ MODULE A2ATasks ------------------------------
(***************************************************************************)
(* The A2A adapter (adapters/a2a): a room's messages go to a remote agent, *)
(* as messages of the room's context and of the task that is not over.     *)
(* A task's question and its end reach the room mentioning who opened it,  *)
(* and leave a task event in its history, from which a later life of the   *)
(* room takes up the task again; an artifact's text, and a plain message,  *)
(* mention the sender of the message they came in answer to.               *)
(*                                                                         *)
(* A turn may outlive its room's life: a stop whose budget ran out does    *)
(* not wait for it.  A remote refuses a message for a task that is over.   *)
(* A turn sees its task's state as it is: the states it was told late or   *)
(* never are those it did not look at.  The remote tells a turn of a       *)
(* question once, and of a task's end last of all.                         *)
(***************************************************************************)
EXTENDS Naturals, FiniteSets

CONSTANTS
  Senders,        \* the room's users
  MaxTasks,       \* bound: tasks the remote opens
  MaxA2ATurns,    \* bound: turns
  MaxA2ALives     \* bound: lives of the room

ASSUME A2AAssumption == {MaxTasks, MaxA2ATurns, MaxA2ALives} \subseteq Nat

Tasks == 1..MaxTasks
A2ATurns == 1..MaxA2ATurns

VARIABLES
  a2a,        \* contexts, tasks and taskSenders of the room
  a2aTurns,   \* onMessage, for each message
  remote,     \* the remote's tasks
  a2aRoom,    \* its lives, and the latest task event of its history
  a2aMemory   \* what the checks remember

a2aVars == <<a2a, a2aTurns, remote, a2aRoom, a2aMemory>>

Nobody == "nobody"
ASSUME SendersAssumption == Nobody \notin Senders
Forgotten == [context |-> 0, task |-> 0, senders |-> [t \in Tasks |-> Nobody]]
NoA2ATurn == [pc |-> "none", sender |-> Nobody, life |-> 0, task |-> 0, told |-> "none", to |-> Nobody]

A2AInit ==
  /\ a2a = Forgotten
  /\ a2aTurns = [i \in A2ATurns |-> NoA2ATurn]
  /\ remote = [t \in Tasks |-> [state |-> "none", context |-> 0, asker |-> Nobody, life |-> 0]]
  /\ a2aRoom = [life |-> 1, fresh |-> TRUE, task |-> 0, state |-> "none", context |-> 0]
  /\ a2aMemory = [ended |-> {}, disturbed |-> FALSE, lost |-> FALSE, joined |-> {}, astray |-> {}, stale |-> {}, dropped |-> {}]

OfThisLife(i) == a2aTurns[i].life = a2aRoom.life
Late(i) == a2aMemory' = [a2aMemory EXCEPT !.disturbed = @ \/ ~OfThisLife(i)]
TurnAt(i, pc) == a2aTurns' = [a2aTurns EXCEPT ![i].pc = pc]

----------------------------------------------------------------------------
(* A turn's request.                                                       *)

\* A room runs a turn at a time.  The first of a life takes the context of the room's
\* history, and asks for the task it names if that was not over.
A2ATurnStarts(i, s) ==
  /\ a2aTurns[i].pc = "none" /\ \A j \in 1..(i - 1) : a2aTurns[j].pc # "none"
  /\ \A j \in A2ATurns : OfThisLife(j) => a2aTurns[j].pc = "over"
  /\ a2aTurns' = [a2aTurns EXCEPT ![i] = [NoA2ATurn EXCEPT !.sender = s, !.life = a2aRoom.life, !.pc =
       IF a2aRoom.fresh /\ a2aRoom.task # 0 /\ a2aRoom.state # "over" THEN "rehydrating" ELSE "sending"]]
  /\ a2a' = [a2a EXCEPT !.context = IF a2aRoom.fresh /\ a2aRoom.context # 0 THEN a2aRoom.context ELSE @]
  /\ a2aRoom' = [a2aRoom EXCEPT !.fresh = FALSE]
  /\ UNCHANGED <<remote, a2aMemory>>

\* Broken variant of Resubscribed: a question counts as an end.
ResubscribedIfOpen(i) ==
  /\ a2aTurns[i].pc = "rehydrating"
  /\ LET t == a2aRoom.task IN
       a2a' = [a2a EXCEPT !.context = remote[t].context, !.task = IF remote[t].state = "open" THEN t ELSE @]
  /\ TurnAt(i, "sending") /\ Late(i)
  /\ UNCHANGED <<remote, a2aRoom>>
Resubscribed(i) ==
  /\ a2aTurns[i].pc = "rehydrating"
  /\ LET t == a2aRoom.task IN
       a2a' = [a2a EXCEPT !.context = remote[t].context, !.task = IF remote[t].state # "over" THEN t ELSE @]
  /\ TurnAt(i, "sending") /\ Late(i)
  /\ UNCHANGED <<remote, a2aRoom>>

\* The client cannot, the remote does not, or too many events come first.
ResubscribeFails(i) ==
  /\ a2aTurns[i].pc = "rehydrating"
  /\ TurnAt(i, "sending") /\ a2aMemory' = [a2aMemory EXCEPT !.lost = TRUE]
  /\ UNCHANGED <<a2a, remote, a2aRoom>>

\* The task whose question is the last the room heard of the remote.
Questioned == IF a2aRoom.state = "input" /\ remote[a2aRoom.task].state = "input" THEN a2aRoom.task ELSE 0
Reported(t) == \E j \in A2ATurns : a2aTurns[j].pc = "telling" /\ a2aTurns[j].task = t

RequestSent(i) ==
  LET t == a2a.task
      s == a2aTurns[i].sender IN
    /\ a2aTurns[i].pc = "sending"
    /\ \/ /\ t # 0 /\ remote[t].state # "over"
          /\ remote' = [remote EXCEPT ![t].state = "open"]
          /\ a2aTurns' = [a2aTurns EXCEPT ![i].pc = "streaming", ![i].task = t]
       \/ /\ t = 0
          /\ \E n \in Tasks :
               /\ remote[n].state = "none" /\ \A m \in 1..(n - 1) : remote[m].state # "none"
               /\ remote' = [remote EXCEPT ![n] = [state |-> "open", asker |-> s, life |-> a2aTurns[i].life,
                    context |-> IF a2a.context # 0 THEN a2a.context ELSE n]]
               /\ a2aTurns' = [a2aTurns EXCEPT ![i].pc = "streaming", ![i].task = n]
       \/ TurnAt(i, "over") /\ UNCHANGED remote
    /\ a2aMemory' = [a2aMemory EXCEPT
         !.stale = IF t \in a2aMemory.ended /\ ~Reported(t) THEN @ \cup {t} ELSE @,
         !.joined = IF t # 0 /\ s # remote[t].asker THEN @ \cup {t} ELSE @,
         !.dropped = IF Questioned \in {0, t} \/ a2aMemory.disturbed \/ a2aMemory.lost \/ ~OfThisLife(i) THEN @ ELSE @ \cup {Questioned}]
    /\ UNCHANGED <<a2a, a2aRoom>>

\* What the remote does, and when it is done.
RemoteMoves(t) ==
  /\ remote[t].state \in {"open", "input"}
  /\ \E st \in {"input", "over"} \ {remote[t].state} : remote' = [remote EXCEPT ![t].state = st]
  /\ UNCHANGED <<a2a, a2aTurns, a2aRoom, a2aMemory>>

----------------------------------------------------------------------------
(* A turn's events.                                                        *)

\* Broken variant of Addressee: the answer goes to whoever spoke last.
AddresseeNow(i, t) == a2aTurns[i].sender
\* Whom a question or an end mentions.
Addressee(i, t) == IF a2a.senders[t] # Nobody THEN a2a.senders[t] ELSE a2aTurns[i].sender

\* trackTask; a task at work has nothing to tell but its thoughts.
EventSeen(i) ==
  LET t == a2aTurns[i].task
      to == Addressee(i, t)
      st == remote[t].state IN
    /\ a2aTurns[i].pc = "streaming" /\ a2aTurns[i].told # st
    /\ a2a' = [context |-> remote[t].context, task |-> t, senders |-> [a2a.senders EXCEPT ![t] = to]]
    /\ IF st = "open" THEN UNCHANGED a2aTurns
       ELSE a2aTurns' = [a2aTurns EXCEPT ![i].pc = "telling", ![i].told = st, ![i].to = to]
    /\ a2aMemory' = [a2aMemory EXCEPT
         !.disturbed = @ \/ ~OfThisLife(i),
         !.astray = IF st # "open" /\ OfThisLife(i) /\ ~a2aMemory.disturbed /\ remote[t].life = a2aRoom.life /\ to # remote[t].asker
                    THEN @ \cup {t} ELSE @]
    /\ UNCHANGED <<remote, a2aRoom>>

\* The text of an artifact, or of a message, to the sender of the turn's own message; the
\* task is not tracked.  If the room refuses it, the turn is over.
ArtifactSeen(i) ==
  LET t == a2aTurns[i].task IN
    /\ a2aTurns[i].pc = "streaming"
    /\ UNCHANGED a2aTurns \/ TurnAt(i, "over")
    /\ a2aMemory' = [a2aMemory EXCEPT
         !.astray = IF a2aTurns[i].sender # remote[t].asker /\ t \notin a2aMemory.joined THEN @ \cup {t} ELSE @]
    /\ UNCHANGED <<a2a, remote, a2aRoom>>

LetsGo(i) == IF a2aTurns[i].told = "over"
             THEN [a2a EXCEPT !.task = 0, !.senders[a2aTurns[i].task] = Nobody] ELSE a2a
Ends(i) == a2aMemory' = [a2aMemory EXCEPT !.disturbed = @ \/ ~OfThisLife(i),
             !.ended = IF a2aTurns[i].told = "over" THEN @ \cup {a2aTurns[i].task} ELSE @]

\* The reply and the task event.
TaskTold(i) ==
  /\ a2aTurns[i].pc = "telling"
  /\ a2aRoom' = [a2aRoom EXCEPT !.task = a2aTurns[i].task, !.state = a2aTurns[i].told,
                                !.context = remote[a2aTurns[i].task].context]
  /\ a2a' = LetsGo(i) /\ Ends(i)
  /\ TurnAt(i, IF a2aTurns[i].told = "over" THEN "over" ELSE "streaming")
  /\ UNCHANGED remote

\* Broken variant of TellingFails: the task is let go once its answer was delivered.
TaskTellingFailsKeeping(i) ==
  /\ a2aTurns[i].pc = "telling"
  /\ TurnAt(i, "over") /\ Ends(i)
  /\ UNCHANGED <<a2a, remote, a2aRoom>>
TaskTellingFails(i) ==
  /\ a2aTurns[i].pc = "telling"
  /\ a2a' = LetsGo(i) /\ Ends(i)
  /\ TurnAt(i, "over")
  /\ UNCHANGED <<remote, a2aRoom>>

\* The remote closes the stream, it breaks, or it grew too long.
StreamEnds(i) ==
  /\ a2aTurns[i].pc = "streaming" /\ TurnAt(i, "over")
  /\ UNCHANGED <<a2a, remote, a2aRoom, a2aMemory>>

----------------------------------------------------------------------------
(* The room's lives.                                                       *)

NewLife ==
  /\ a2aRoom.life < MaxA2ALives
  /\ a2aRoom' = [a2aRoom EXCEPT !.life = @ + 1, !.fresh = TRUE]
  /\ a2a' = Forgotten
  /\ a2aMemory' = [a2aMemory EXCEPT !.disturbed = FALSE, !.lost = FALSE]
  /\ UNCHANGED remote

\* onCleanup, and the room joined again.
A2ARoomLeft == NewLife /\ UNCHANGED a2aTurns
A2AProcessEnds ==
  /\ NewLife
  /\ a2aTurns' = [i \in A2ATurns |-> IF a2aTurns[i].pc = "none" THEN NoA2ATurn ELSE [NoA2ATurn EXCEPT !.pc = "over"]]

A2ANext ==
  \/ \E i \in A2ATurns :
       \/ \E s \in Senders : A2ATurnStarts(i, s)
       \/ Resubscribed(i) \/ ResubscribeFails(i) \/ RequestSent(i)
       \/ EventSeen(i) \/ ArtifactSeen(i)
       \/ TaskTold(i) \/ TaskTellingFails(i) \/ StreamEnds(i)
  \/ \E t \in Tasks : RemoteMoves(t)
  \/ A2ARoomLeft \/ A2AProcessEnds

A2ASpec == A2AInit /\ [][A2ANext]_a2aVars

----------------------------------------------------------------------------
(* What must hold.                                                         *)

\* A task's question and its end mention who opened it, whoever's message it took up
\* since, for as long as the room's life lasts and no turn of an earlier one meddles.  Not
\* so the text of an artifact (A2AAdapter.ts:249-254): once another user's message took
\* the task up, it mentions whoever wrote the message it came in answer to.
AnswersMentionTheAsker == a2aMemory.astray = {}

\* Whoever answers a task's question answers that task, over a restart too, unless the
\* remote would not tell of it or a turn of an earlier life meddled.
QuestionsAreAnswered == a2aMemory.dropped = {}

\* No message is sent to a task whose end the adapter has handled, its answer delivered
\* or not.
FinishedTasksAreLetGo == a2aMemory.stale = {}
=============================================================================
