---------------------------- MODULE EditorServer ----------------------------
(***************************************************************************)
(* The ACP server (adapters/acp: ACPServer, BandACPServerAdapter): an      *)
(* editor opens sessions, each with a Band room of its own, and prompts    *)
(* them.  A prompt goes to the room as a message; what the room says then  *)
(* is the prompt's, until a failure, a text that nothing followed for a    *)
(* while, a deadline or a cancellation ends it.                            *)
(*                                                                         *)
(* The editor's calls and the room's messages overlap at every request to  *)
(* Band and at every update the editor is sent.  A session is known by the *)
(* number of its room.  How messages are converted, and a session's mode,  *)
(* directory and servers, are left out, and so are prompts of a session its *)
(* editor found listed before it was given it.  What a room says outside a  *)
(* prompt changes nothing here.                                            *)
(***************************************************************************)
EXTENDS Naturals, FiniteSets

CONSTANTS
  SessionLimit,      \* maxSessions
  MaxEsSessions,     \* bound: sessions opened
  MaxPrompts,        \* bound: prompts
  MaxEsUpsets        \* bound: rooms left, stops and restarts

ASSUME EditorAssumption == {SessionLimit, MaxEsSessions, MaxPrompts, MaxEsUpsets} \subseteq Nat

EsSessions == 1..MaxEsSessions
Prompts == 1..MaxPrompts

VARIABLES
  creations,   \* createSession, for each session
  known,       \* sessionToRoom and roomToSession
  inFlight,    \* sessionsInFlight
  prompts,     \* handlePrompt, for each prompt
  pending,     \* pendingPrompts
  updating,    \* the prompt whose update a room's message is sending, and whether it was text
  history,     \* rooms whose history names their session
  revived,     \* the sessions histories brought back
  esUpsets     \* counts what ends rooms and sessions

editorVars == <<creations, known, inFlight, prompts, pending, updating, history, revived, esUpsets>>

NoPrompt == [pc |-> "none", session |-> 0, sending |-> "none", armed |-> FALSE]
NoUpdate == [prompt |-> 0, text |-> FALSE]

EditorInit ==
  /\ creations = [s \in EsSessions |-> "none"]
  /\ known = {} /\ inFlight = 0
  /\ prompts = [i \in Prompts |-> NoPrompt]
  /\ pending = [s \in EsSessions |-> 0]
  /\ updating = [s \in EsSessions |-> NoUpdate]
  /\ history = {} /\ revived = {} /\ esUpsets = 0

----------------------------------------------------------------------------
(* Sessions.                                                               *)

Creating(s, pc) == creations' = [creations EXCEPT ![s] = pc]
SessionsKeep == UNCHANGED <<creations, known, inFlight, history, revived>>
PromptsKeep == UNCHANGED <<prompts, pending, updating, revived, esUpsets>>

\* Broken variant of Full: sessions whose room is being created do not count.
FullOfKnown == Cardinality(known) + 1 > SessionLimit
Full == Cardinality(known) + inFlight + 1 > SessionLimit

SessionAsked(s) ==
  /\ creations[s] = "none" /\ \A r \in 1..(s - 1) : creations[r] # "none"
  /\ IF Full THEN Creating(s, "failed") /\ UNCHANGED inFlight
             ELSE Creating(s, "creating") /\ inFlight' = inFlight + 1
  /\ UNCHANGED <<known, history>> /\ PromptsKeep

\* While its history is told the session counts twice.
ChatMade(s) ==
  /\ creations[s] = "creating"
  /\ Creating(s, "recording") /\ known' = known \cup {s}
  /\ UNCHANGED <<inFlight, history>> /\ PromptsKeep
SessionGiven(s) ==
  /\ creations[s] = "recording"
  /\ Creating(s, IF s \in known THEN "given" ELSE "closed")
  /\ inFlight' = inFlight - 1 /\ history' = history \cup {s}
  /\ UNCHANGED known /\ PromptsKeep

\* Broken variant of CreationFails: the room whose history was not told keeps its session.
CreationFailsKeeping(s) ==
  /\ creations[s] \in {"creating", "recording"}
  /\ Creating(s, "failed") /\ inFlight' = inFlight - 1
  /\ UNCHANGED <<known, history>> /\ PromptsKeep
SessionCreationFails(s) ==
  /\ creations[s] \in {"creating", "recording"}
  /\ Creating(s, "failed") /\ known' = known \ {s} /\ inFlight' = inFlight - 1
  /\ UNCHANGED history /\ PromptsKeep

----------------------------------------------------------------------------
(* Prompts.                                                                *)

\* Broken variant of Busy: a room takes a prompt whatever it is doing.
NeverBusy(s) == FALSE
Busy(s) == pending[s] # 0

\* An unknown session's or a busy room's prompt is refused.
PromptAsked(i, s) ==
  /\ prompts[i].pc = "none" /\ \A j \in 1..(i - 1) : prompts[j].pc # "none"
  /\ creations[s] \in {"given", "closed"}
  /\ IF s \notin known \/ Busy(s)
     THEN prompts' = [prompts EXCEPT ![i].pc = "refused"] /\ UNCHANGED pending
     ELSE /\ prompts' = [prompts EXCEPT ![i] = [pc |-> "active", session |-> s, sending |-> "listing", armed |-> FALSE]]
          /\ pending' = [pending EXCEPT ![s] = i]
  /\ UNCHANGED <<updating, esUpsets>> /\ SessionsKeep

\* The outcome is settled, its timer is cleared and the room is free.
Ended(i) == [prompts[i] EXCEPT !.pc = "over", !.armed = FALSE]
Freed(i) == [s \in EsSessions |-> IF pending[s] = i THEN 0 ELSE pending[s]]
PromptEnds(i) ==
  /\ prompts' = [prompts EXCEPT ![i] = Ended(i)] /\ pending' = Freed(i)
  /\ UNCHANGED <<updating, esUpsets>> /\ SessionsKeep

Sending(i, step) ==
  /\ prompts' = [prompts EXCEPT ![i].sending = step]
  /\ UNCHANGED <<pending, updating, esUpsets>> /\ SessionsKeep

\* sendPrompt: it goes on once its prompt has ended, but posts nothing it has not begun to.
ParticipantsListed(i) ==
  /\ prompts[i].sending = "listing"
  /\ Sending(i, IF prompts[i].pc = "active" THEN "posting" ELSE "none")
PromptPosted(i) == prompts[i].sending = "posting" /\ Sending(i, "posted")
SendFails(i) ==
  /\ prompts[i].sending \in {"listing", "posting"}
  /\ IF prompts[i].pc = "active"
     THEN /\ prompts' = [prompts EXCEPT ![i] = [Ended(i) EXCEPT !.sending = "none"]] /\ pending' = Freed(i)
          /\ UNCHANGED <<updating, esUpsets>> /\ SessionsKeep
     ELSE Sending(i, "none")

\* The deadline runs from the post on.
PromptTimesOut(i) == prompts[i].pc = "active" /\ prompts[i].sending = "posted" /\ PromptEnds(i)
GraceOver(i) == prompts[i].pc = "active" /\ prompts[i].armed /\ PromptEnds(i)

CancelAsked(s) == s \in known /\ pending[s] # 0 /\ PromptEnds(pending[s])

----------------------------------------------------------------------------
(* The room's messages, one at a time.                                     *)

\* A failure ends the prompt before the editor is told of it.
FailureHeard(s) == updating[s] = NoUpdate /\ pending[s] # 0 /\ PromptEnds(pending[s])
MessageHeard(s, text) ==
  /\ updating[s] = NoUpdate /\ pending[s] # 0
  /\ updating' = [updating EXCEPT ![s] = [prompt |-> pending[s], text |-> text]]
  /\ UNCHANGED <<prompts, pending, esUpsets>> /\ SessionsKeep

\* schedulePromptCompletion, unless the prompt ended meanwhile.
Updated(s) ==
  LET i == updating[s].prompt IN
    /\ i # 0
    /\ updating' = [updating EXCEPT ![s] = NoUpdate]
    /\ prompts' = IF updating[s].text /\ pending[s] = i THEN [prompts EXCEPT ![i].armed = TRUE] ELSE prompts
    /\ UNCHANGED <<pending, esUpsets>> /\ SessionsKeep

\* The editor could not be told: the room's turn fails.
UpdateFails(s) ==
  /\ updating[s] # NoUpdate
  /\ updating' = [updating EXCEPT ![s] = NoUpdate]
  /\ UNCHANGED <<prompts, pending, esUpsets>> /\ SessionsKeep

----------------------------------------------------------------------------
(* What ends a session.                                                    *)

\* Broken variant of Cleaned: a prompt under way is left to its deadline.
CleanedKeeping(gone) == UNCHANGED <<prompts, pending>>
\* onCleanup
Cleaned(gone) ==
  /\ prompts' = [i \in Prompts |-> IF \E s \in gone : pending[s] = i THEN Ended(i) ELSE prompts[i]]
  /\ pending' = [s \in EsSessions |-> IF s \in gone THEN 0 ELSE pending[s]]
Gone(gone) ==
  /\ known' = known \ gone
  /\ creations' = [s \in EsSessions |-> IF s \in gone /\ creations[s] = "given" THEN "closed" ELSE creations[s]]
  /\ UNCHANGED <<inFlight, updating, history, revived>>

SessionClosed(s) == s \in known /\ Gone({s}) /\ Cleaned({s}) /\ UNCHANGED esUpsets

EsUpset == esUpsets < MaxEsUpsets /\ esUpsets' = esUpsets + 1
EsRoomLeft(s) == EsUpset /\ creations[s] \notin {"none", "creating"} /\ Gone({s}) /\ Cleaned({s})
EsRuntimeStops == EsUpset /\ Gone(known) /\ Cleaned(known)
EsProcessEnds ==
  /\ EsUpset
  /\ known' = {} /\ inFlight' = 0
  /\ creations' = [s \in EsSessions |-> IF creations[s] \in {"none", "failed"} THEN creations[s]
                                        ELSE IF creations[s] = "creating" THEN "failed" ELSE "closed"]
  /\ prompts' = [i \in Prompts |-> IF prompts[i].pc = "none" THEN NoPrompt ELSE [NoPrompt EXCEPT !.pc = "over"]]
  /\ pending' = [s \in EsSessions |-> 0]
  /\ updating' = [s \in EsSessions |-> NoUpdate]
  /\ UNCHANGED <<history, revived>>

\* The first message of a room joined again: rehydrate.  A session its editor had closed
\* comes back too.
EsRoomBootstraps(s) ==
  /\ s \in history \ known /\ creations[s] = "closed"
  /\ known' = known \cup {s} /\ Creating(s, "given") /\ revived' = revived \cup {s}
  /\ UNCHANGED <<inFlight, history, prompts, pending, updating, esUpsets>>

EditorNext ==
  \/ \E s \in EsSessions :
       \/ SessionAsked(s) \/ ChatMade(s) \/ SessionGiven(s) \/ SessionCreationFails(s) \/ SessionClosed(s)
       \/ CancelAsked(s) \/ FailureHeard(s) \/ Updated(s) \/ UpdateFails(s) \/ EsRoomLeft(s) \/ EsRoomBootstraps(s)
       \/ \E i \in Prompts : PromptAsked(i, s)
       \/ \E text \in BOOLEAN : MessageHeard(s, text)
  \/ \E i \in Prompts :
       ParticipantsListed(i) \/ PromptPosted(i) \/ SendFails(i) \/ PromptTimesOut(i) \/ GraceOver(i)
  \/ EsRuntimeStops \/ EsProcessEnds

EditorSpec == EditorInit /\ [][EditorNext]_editorVars

----------------------------------------------------------------------------
(* What must hold.                                                         *)

\* A room has one prompt, which is the one its messages, its cancellation and its end
\* go to: none that is under way is out of their reach, and none that is over is in it.
PromptsHaveTheirRoom ==
  /\ \A i \in Prompts : prompts[i].pc = "active" => pending[prompts[i].session] = i
  /\ \A s \in EsSessions : pending[s] # 0 => prompts[pending[s]].pc = "active" /\ s \in known

\* However many sessions are asked for at once, no more are opened than the limit, those
\* the rooms' histories bring back apart, and a creation that fails leaves none behind.
SessionsAreBounded ==
  /\ Cardinality((known \cup {s \in EsSessions : creations[s] = "creating"}) \ revived) <= SessionLimit
  /\ \A s \in known : creations[s] \in {"recording", "given"}
=============================================================================
