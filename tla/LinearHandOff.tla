--------------------------- MODULE LinearHandOff ---------------------------
(***************************************************************************)
(* How the Linear webhook hands its deliveries on (integrations/linear:    *)
(* webhook.ts, store.ts): the two dispatchers that carry an event to its   *)
(* handler, and the table of requests that an embedding application reads; *)
(* and, below, the notifications of an issue.                              *)
(*                                                                         *)
(* One session, with its room.  What the event's handler does is           *)
(* LinearBridge's matter: here it posts its message, hands it off where it *)
(* may, saves its record, and may fail before each.  A failed request has  *)
(* not been taken.  A webhook that awaits its dispatch keeps its event     *)
(* both in the handler's inFlightEventKeys and in the dispatcher's queue,  *)
(* and lets go of both at once.                                            *)
(***************************************************************************)
EXTENDS Naturals, FiniteSets, Sequences, SequencesExt

CONSTANTS
  HandOffEvents,  \* events of the session
  HandOffRetries, \* DISPATCH_RETRY_LIMIT
  MaxHandOffs,    \* bound: deliveries of events
  MaxHandOffEnds  \* bound: restarts of the bridge

ASSUME HandOffAssumption ==
  {HandOffRetries, MaxHandOffs, MaxHandOffEnds} \subseteq Nat

HandOffSlots == {1, 2}
NoEvent == "no event"

VARIABLES
  inProcess,  \* the dispatcher is the in-process one, not the inline one
  sessionRow, \* SessionRoomStore: the session's status and last event
  handOffs,   \* the hand-off table: what is recorded of each event's request
  jobs,       \* the webhooks that carry an event, and how far each has come
  terminals,  \* terminalFailures
  idleWait,   \* waitForIdle: the dispatches it waits for, once it has looked
  hoMemory    \* what the checks remember

handOffVars == <<inProcess, sessionRow, handOffs, jobs, terminals, idleWait, hoMemory>>

NoJob == [ev |-> NoEvent, pc |-> "none", tries |-> 0]
NotWaiting == [on |-> FALSE, for |-> {}]

HandOffInit ==
  /\ inProcess \in BOOLEAN
  /\ sessionRow \in [st : {"none", "active"}, last : {NoEvent}]
  /\ handOffs = [e \in HandOffEvents |-> "none"]
  /\ jobs = [d \in HandOffSlots |-> NoJob]
  /\ terminals = <<>> /\ idleWait = NotWaiting
  /\ hoMemory = [posted |-> {}, settled |-> {}, left |-> {}, thrown |-> {}, early |-> FALSE,
                 failures |-> {}, begun |-> 0, ends |-> 0]

----------------------------------------------------------------------------
(* The webhook and its dispatcher.                                         *)

\* Broken variant: only the record tells a duplicate.
DuplicateOfTheRecord(e) == sessionRow.last = e
Duplicate(e) == sessionRow.last = e \/ \E d \in HandOffSlots : jobs[d].ev = e

\* The event has come to its end: recorded, marked as failed, or signalled as well as could be.
HandOffsSettled(d) == [hoMemory EXCEPT !.settled = @ \cup {jobs[d].ev}]

At(d, pc) == jobs' = [jobs EXCEPT ![d].pc = pc]

\* A duplicate is answered and changes nothing.  A session that has just been created is
\* first acknowledged to Linear, whether Linear takes it or not.
DeliveryArrives(d, e) ==
  /\ jobs[d] = NoJob /\ hoMemory.begun < MaxHandOffs
  /\ ~Duplicate(e)
  /\ \E pc \in {"acknowledging", "attempting"} : jobs' = [jobs EXCEPT ![d] = [NoJob EXCEPT !.ev = e, !.pc = pc]]
  /\ hoMemory' = [hoMemory EXCEPT !.begun = @ + 1]
  /\ UNCHANGED <<inProcess, sessionRow, handOffs, terminals, idleWait>>
Acknowledged(d) ==
  /\ jobs[d].pc = "acknowledging"
  /\ At(d, "attempting")
  /\ UNCHANGED <<inProcess, sessionRow, handOffs, terminals, idleWait, hoMemory>>

\* handleAgentSessionEvent, abridged: an event that its record names is done, any other is
\* posted to the room, handed off where the bridge may, and recorded.
Skipped(d) ==
  /\ jobs[d].pc = "attempting" /\ sessionRow.last = jobs[d].ev
  /\ At(d, "marking")
  /\ UNCHANGED <<inProcess, sessionRow, handOffs, terminals, idleWait, hoMemory>>
MessagePosted(d) ==
  /\ jobs[d].pc = "attempting" /\ sessionRow.last # jobs[d].ev
  /\ At(d, "posted")
  /\ hoMemory' = [hoMemory EXCEPT !.posted = @ \cup {jobs[d].ev}]
  /\ UNCHANGED <<inProcess, sessionRow, handOffs, terminals, idleWait>>
HandedOff(d) ==
  /\ jobs[d].pc = "posted"
  /\ \/ handOffs' = [handOffs EXCEPT ![jobs[d].ev] = "pending"]
     \/ UNCHANGED handOffs
  /\ At(d, "saving")
  /\ UNCHANGED <<inProcess, sessionRow, terminals, idleWait, hoMemory>>
RequestRecorded(d) ==
  /\ jobs[d].pc = "saving"
  /\ sessionRow' = [st |-> "active", last |-> jobs[d].ev]
  /\ hoMemory' = HandOffsSettled(d)
  /\ At(d, "marking")
  /\ UNCHANGED <<inProcess, handOffs, terminals, idleWait>>

\* The attempt fails: the record is marked, with the event, if that can be done.
HandlingFails(d) ==
  /\ jobs[d].pc \in {"attempting", "posted", "saving"}
  /\ jobs[d].pc = "attempting" => sessionRow.last # jobs[d].ev
  /\ \/ sessionRow' = [st |-> "errored", last |-> jobs[d].ev] /\ hoMemory' = HandOffsSettled(d)
     \/ UNCHANGED <<sessionRow, hoMemory>>
  /\ At(d, "thrown")
  /\ UNCHANGED <<inProcess, handOffs, terminals, idleWait>>

\* runDispatchAttempt: what the error calls retryable is tried again, ...
Attempted(d) ==
  /\ jobs[d].pc = "thrown" /\ jobs[d].tries < HandOffRetries
  /\ jobs' = [jobs EXCEPT ![d].pc = "attempting", ![d].tries = @ + 1]
  /\ UNCHANGED <<inProcess, sessionRow, handOffs, terminals, idleWait, hoMemory>>

\* ... any other error, and the last one, is terminal.  The in-process dispatcher keeps it
\* for whoever waits for it to be idle.
Terminal(d) ==
  /\ jobs[d].pc = "thrown"
  /\ terminals' = IF inProcess THEN Append(terminals, jobs[d].ev) ELSE terminals
  /\ hoMemory' = [hoMemory EXCEPT !.left = @ \cup {jobs[d].ev},
                                  !.failures = IF inProcess THEN @ \cup {jobs[d].ev} ELSE @]
  /\ At(d, "signalling")
  /\ UNCHANGED <<inProcess, sessionRow, handOffs, idleWait>>

JobOver(d) == jobs' = [jobs EXCEPT ![d] = NoJob]

\* Broken variant: a terminal failure is only logged.
FailureLogged(d) ==
  /\ jobs[d].pc = "signalling" /\ JobOver(d)
  /\ UNCHANGED <<inProcess, sessionRow, handOffs, terminals, idleWait, hoMemory>>
\* signalTerminalDispatchFailure: the record says so, or else Linear is told, or nobody
\* could be.
Signalled(d) ==
  /\ jobs[d].pc = "signalling"
  /\ \/ sessionRow.st # "none" /\ sessionRow' = [st |-> "errored", last |-> jobs[d].ev]
     \/ UNCHANGED sessionRow
  /\ hoMemory' = HandOffsSettled(d)
  /\ JobOver(d)
  /\ UNCHANGED <<inProcess, handOffs, terminals, idleWait>>

\* markBootstrapHandoffProcessed: the request, if there is one, needs nobody any more.
ProcessedIn(d) == [handOffs EXCEPT ![jobs[d].ev] = IF @ = "pending" THEN "processed" ELSE @]
\* Broken variant: the request is left to the application.
NeverMarked(d) ==
  /\ jobs[d].pc = "marking" /\ JobOver(d)
  /\ UNCHANGED <<inProcess, sessionRow, handOffs, terminals, idleWait, hoMemory>>
Marked(d) ==
  /\ jobs[d].pc = "marking"
  /\ \/ handOffs' = ProcessedIn(d) /\ UNCHANGED hoMemory
     \/ hoMemory' = [hoMemory EXCEPT !.left = @ \cup {jobs[d].ev}] /\ UNCHANGED handOffs
  /\ JobOver(d)
  /\ UNCHANGED <<inProcess, sessionRow, terminals, idleWait>>

\* waitForIdle looks at what is in flight, waits for all of it and looks again.  With
\* nothing left it ends, and throws every terminal failure since one last did.
TaskInFlight == {<<d, jobs[d].ev>> : d \in {c \in HandOffSlots : jobs[c].pc \notin {"none", "acknowledging"}}}
\* Broken variant: one look is enough.
IdleLooksOnce ==
  IF ~idleWait.on
  THEN idleWait' = [on |-> TRUE, for |-> TaskInFlight] /\ UNCHANGED <<terminals, hoMemory>>
  ELSE /\ idleWait' = NotWaiting /\ terminals' = <<>>
       /\ hoMemory' = [hoMemory EXCEPT !.thrown = @ \cup ToSet(terminals), !.early = @ \/ TaskInFlight # {}]
IdleLooks ==
  IF TaskInFlight # {}
  THEN idleWait' = [on |-> TRUE, for |-> TaskInFlight] /\ UNCHANGED <<terminals, hoMemory>>
  ELSE /\ idleWait' = NotWaiting /\ terminals' = <<>>
       /\ hoMemory' = [hoMemory EXCEPT !.thrown = @ \cup ToSet(terminals)]
IdleAwaited ==
  /\ inProcess /\ (idleWait.on => TaskInFlight \cap idleWait.for = {})
  /\ IdleLooks
  /\ UNCHANGED <<inProcess, sessionRow, handOffs, jobs>>

----------------------------------------------------------------------------

\* The bridge restarts: the store is what remains.
HandOffRestarts ==
  /\ hoMemory.ends < MaxHandOffEnds
  /\ jobs' = [d \in HandOffSlots |-> NoJob] /\ terminals' = <<>> /\ idleWait' = NotWaiting
  /\ hoMemory' = [hoMemory EXCEPT !.ends = @ + 1, !.failures = {},
       !.settled = @ \cup {jobs[d].ev : d \in HandOffSlots}, !.left = @ \cup {jobs[d].ev : d \in HandOffSlots}]
  /\ UNCHANGED <<inProcess, sessionRow, handOffs>>

HandOffNext ==
  \/ \E d \in HandOffSlots :
       \/ \E e \in HandOffEvents : DeliveryArrives(d, e)
       \/ Acknowledged(d) \/ Skipped(d) \/ MessagePosted(d) \/ HandedOff(d) \/ RequestRecorded(d)
       \/ HandlingFails(d) \/ Attempted(d) \/ Terminal(d) \/ Signalled(d) \/ Marked(d)
  \/ IdleAwaited \/ HandOffRestarts

----------------------------------------------------------------------------
(* Properties.                                                             *)

\* An event that was let in is on its way, or has come to an end that its session's record
\* or Linear was told of; and whoever waits for the in-process dispatcher to be idle hears of
\* every terminal failure, when nothing is in flight any more.
EventsAreAccounted ==
  /\ \A e \in hoMemory.posted : e \in hoMemory.settled \/ \E d \in HandOffSlots : jobs[d].ev = e
  /\ hoMemory.failures \subseteq ToSet(terminals) \cup hoMemory.thrown
  /\ ~hoMemory.early

\* No two webhooks carry the same event, and a request stays pending only while its event is
\* on its way, or because marking it failed, its dispatch was given up or the bridge went
\* down; only what the room was told is ever marked as processed.
RequestsAreSettled ==
  /\ \A c, d \in HandOffSlots : c # d /\ jobs[c].ev = jobs[d].ev => jobs[c] = NoJob
  /\ \A e \in HandOffEvents :
       /\ handOffs[e] = "pending" => e \in hoMemory.left \/ \E d \in HandOffSlots : jobs[d].ev = e
       /\ handOffs[e] = "processed" => e \in hoMemory.posted

HandOffsAreSound == EventsAreAccounted /\ RequestsAreSettled

----------------------------------------------------------------------------
(* The notifications of an issue that Linear sends its app user            *)
(* (webhook.ts, notification.ts): a new comment goes to the session's      *)
(* room, and an issue that is taken from the agent ends its session.       *)
(*                                                                         *)
(* One issue with one session, whose record the events' handlers change    *)
(* meanwhile.  Reactions, kinds with no handler and the agent's own        *)
(* comments only get logged and are left out.  A failed request has not    *)
(* been taken.                                                             *)
CONSTANTS
  Notifications,  \* notifications of the issue
  NoticeLimit,    \* processedNotificationIds holds no more (1000)
  MaxNotices,     \* bound: deliveries of notifications
  MaxNoticeUpsets \* bound: restarts of the bridge, and events of the session

ASSUME NoticesAssumption == {MaxNotices, MaxNoticeUpsets} \subseteq Nat /\ NoticeLimit \in Nat \ {0}

NoticeSlots == {1, 2}
NoNotice == "no notice"
ASSUME NoticeNamesAssumption == NoNotice \notin Notifications

VARIABLES
  sessionStatus, \* SessionRoomStore: the status of the issue's session
  unassigns,     \* the notifications that say the issue is taken from the agent
  noticed,       \* processedNotificationIds
  noticeJobs,    \* the webhooks that carry a notification, and how far each has come
  lnNotes        \* what the checks remember

noticesVars == <<sessionStatus, unassigns, noticed, noticeJobs, lnNotes>>

NoNoticeJob == [of |-> NoNotice, pc |-> "none"]

NoticesInit ==
  /\ sessionStatus \in {"none", "active"}
  /\ unassigns \in SUBSET Notifications
  /\ noticed = <<>> /\ noticeJobs = [d \in NoticeSlots |-> NoNoticeJob]
  /\ lnNotes = [forwarded |-> [n \in Notifications |-> 0], excused |-> {}, heard |-> 0, upsets |-> 0]

----------------------------------------------------------------------------

\* The set gives up its oldest entry for one too many.
Remembered(n) ==
  IF n \in ToSet(noticed) THEN noticed
  ELSE IF Len(noticed) < NoticeLimit THEN Append(noticed, n) ELSE Append(Tail(noticed), n)
NoticesForgotten(n) == ToSet(noticed) \ ToSet(Remembered(n))

\* A notification that is remembered is answered and changes nothing.  There is no set of
\* those under way.  With no session at work there is nothing to tell.
NoticeArrives(d, n) ==
  /\ noticeJobs[d] = NoNoticeJob /\ lnNotes.heard < MaxNotices
  /\ n \notin ToSet(noticed)
  /\ IF sessionStatus = "active"
     THEN /\ noticeJobs' = [noticeJobs EXCEPT ![d] = [of |-> n, pc |-> "telling"]]
          /\ lnNotes' = [lnNotes EXCEPT !.heard = @ + 1,
               !.excused = IF \E c \in NoticeSlots : noticeJobs[c].of = n THEN @ \cup {n} ELSE @]
          /\ UNCHANGED noticed
     ELSE /\ noticed' = Remembered(n)
          /\ lnNotes' = [lnNotes EXCEPT !.heard = @ + 1, !.excused = @ \cup NoticesForgotten(n) \cup {n}]
          /\ UNCHANGED noticeJobs
  /\ UNCHANGED <<sessionStatus, unassigns>>

NoticeOver(d) == noticeJobs' = [noticeJobs EXCEPT ![d] = NoNoticeJob]

\* The room is told, or Band refuses it.  A comment is then done; an issue that was taken
\* from the agent also cancels the session, after the room knows.
NoticeTold(d) ==
  /\ noticeJobs[d].pc = "telling"
  /\ LET n == noticeJobs[d].of
         said == [lnNotes EXCEPT !.forwarded[n] = @ + 1] IN
       IF n \in unassigns
       THEN /\ noticeJobs' = [noticeJobs EXCEPT ![d].pc = "canceling"]
            /\ lnNotes' = said /\ UNCHANGED noticed
       ELSE /\ NoticeOver(d) /\ noticed' = Remembered(n)
            /\ lnNotes' = [said EXCEPT !.excused = @ \cup NoticesForgotten(n)]
  /\ UNCHANGED <<sessionStatus, unassigns>>
SessionCanceled(d) ==
  /\ noticeJobs[d].pc = "canceling"
  /\ LET n == noticeJobs[d].of IN
       noticed' = Remembered(n) /\ lnNotes' = [lnNotes EXCEPT !.excused = @ \cup NoticesForgotten(n)]
  /\ sessionStatus' = "canceled"
  /\ NoticeOver(d)
  /\ UNCHANGED unassigns

\* Broken variant: the failed notification counts as dealt with.
NoticeFailsForGood(d) ==
  /\ noticeJobs[d].pc \in {"telling", "canceling"}
  /\ noticed' = Remembered(noticeJobs[d].of)
  /\ NoticeOver(d)
  /\ UNCHANGED <<sessionStatus, unassigns, lnNotes>>
\* A failure is logged, and the notification is answered like any other.
NoticeFails(d) ==
  /\ noticeJobs[d].pc \in {"telling", "canceling"}
  /\ lnNotes' = IF noticeJobs[d].pc = "canceling" THEN [lnNotes EXCEPT !.excused = @ \cup {noticeJobs[d].of}] ELSE lnNotes
  /\ NoticeOver(d)
  /\ UNCHANGED <<sessionStatus, unassigns, noticed>>

----------------------------------------------------------------------------
(* What happens meanwhile.                                                 *)

\* An event's handler saves the session's record, or a guard's or a tool's write does.
SessionSaved ==
  /\ lnNotes.upsets < MaxNoticeUpsets
  /\ sessionStatus' \in {"active", "errored"}
  /\ lnNotes' = [lnNotes EXCEPT !.upsets = @ + 1]
  /\ UNCHANGED <<unassigns, noticed, noticeJobs>>

\* The bridge restarts: the store is what remains.
NoticesLost ==
  /\ lnNotes.upsets < MaxNoticeUpsets
  /\ noticed' = <<>> /\ noticeJobs' = [d \in NoticeSlots |-> NoNoticeJob]
  /\ lnNotes' = [lnNotes EXCEPT !.upsets = @ + 1, !.excused = Notifications]
  /\ UNCHANGED <<sessionStatus, unassigns>>

NoticesNext ==
  \/ \E d \in NoticeSlots :
       \/ \E n \in Notifications : NoticeArrives(d, n)
       \/ NoticeTold(d) \/ SessionCanceled(d) \/ NoticeFails(d)
  \/ SessionSaved \/ NoticesLost

----------------------------------------------------------------------------

\* A notification is remembered only once its room was told, and then tells it no second
\* time; one that failed is let in again.  A session is canceled after its room was told.
\* Excused are notifications that found no session at work, ran beside themselves, were
\* pushed out, told the room and failed to cancel, or lived through a restart.
NoticesAreTold ==
  /\ \A n \in Notifications \ lnNotes.excused :
       lnNotes.forwarded[n] <= 1 /\ (n \in ToSet(noticed) => lnNotes.forwarded[n] = 1)
  /\ sessionStatus = "canceled" => \E n \in unassigns : lnNotes.forwarded[n] > 0
  /\ Len(noticed) <= NoticeLimit
=============================================================================
