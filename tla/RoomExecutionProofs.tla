------------------------ MODULE RoomExecutionProofs ------------------------
(***************************************************************************)
(* Theorems about RoomExecution, for every number of messages, reconnects, *)
(* deliveries and retries.                                                 *)
(***************************************************************************)
EXTENDS RoomExecution, FiniteSets, SequenceTheorems, NaturalsInduction,
        FiniteSetTheorems, WellFoundedInduction, TLAPS

----------------------------------------------------------------------------
(* Facts about the operators.                                              *)

\* Oldest picks the least element of a nonempty set of naturals.
LEMMA OldestProperties ==
  ASSUME NEW S \in SUBSET Nat, S # {}
  PROVE  Oldest(S) \in S /\ \A k \in S : Oldest(S) <= k
<1> DEFINE T == {0..m : m \in S}
           R == StrictSubsetOrdering(Nat)
<1>1. T \subseteq FiniteSubsetsOf(Nat) /\ T # {}
  <2>1. \A m \in S : 0..m \subseteq Nat /\ IsFiniteSet(0..m)
    BY FS_Interval
  <2> QED BY <2>1 DEF FiniteSubsetsOf
<1>2. IsWellFoundedOn(R, FiniteSubsetsOf(Nat))
  BY FS_StrictSubsetOrderingWellFounded
<1>3. PICK x \in T : \A y \in T : <<y, x>> \notin R
  BY <1>1, <1>2, WFMin
<1>4. PICK m \in S : x = 0..m
  BY <1>3
<1>5. ASSUME NEW k \in S PROVE m <= k
  <2> SUFFICES ASSUME k < m PROVE FALSE
    OBVIOUS
  <2>1. 0..k \subseteq 0..m /\ 0..k # 0..m
    BY m \in 0..m, m \notin 0..k
  <2>2. <<0..k, 0..m>> \in R
    BY <2>1 DEF StrictSubsetOrdering
  <2> QED BY <1>3, <1>4, <2>2
<1> QED BY <1>5 DEF Oldest

LEMMA MessagesAreNaturals == Messages \subseteq Nat /\ None \notin Messages
BY RoomAssumption DEF Messages, None

\* Classifying a queue keeps its length and its entries' kinds and ids.
LEMMA SightedType ==
  ASSUME NEW q \in Seq(Entries), NEW h
  PROVE  /\ Sighted(q, h) \in Seq(Entries)
         /\ Len(Sighted(q, h)) = Len(q)
<1>1. q \in [1..Len(q) -> Entries] /\ DOMAIN q = 1..Len(q) /\ Len(q) \in Nat
  BY LenProperties
<1>2. CASE h = None
  BY <1>2 DEF Sighted
<1>3. CASE h # None
  <2>1. Sighted(q, h) = [i \in 1..Len(q) |->
          IF q[i].kind # "reconnected" /\ \A j \in Runnable(q, h) : i <= j
          THEN [q[i] EXCEPT !.control = ControlOf(q[i])] ELSE q[i]]
    BY <1>1, <1>3 DEF Sighted
  <2>2. \A i \in 1..Len(q) :
          q[i].kind # "reconnected" => [q[i] EXCEPT !.control = ControlOf(q[i])] \in Entries
    <3> SUFFICES ASSUME NEW i \in 1..Len(q), q[i].kind # "reconnected"
                 PROVE  [q[i] EXCEPT !.control = ControlOf(q[i])] \in Entries
      OBVIOUS
    <3>1. q[i] \in Entries
      BY <1>1
    <3>2. ControlOf(q[i]) \in {"unseen", "yes", "no"}
      BY <3>1 DEF ControlOf, Entries
    <3> QED BY <3>1, <3>2 DEF Entries
  <2>3. Sighted(q, h) \in [1..Len(q) -> Entries]
    BY <1>1, <2>1, <2>2
  <2>4. Sighted(q, h) \in Seq(Entries)
    BY <1>1, <2>3, SeqDef
  <2> QED BY <1>1, <2>1, <2>4, LenProperties
<1> QED BY <1>2, <1>3

LEMMA RemoveAtType ==
  ASSUME NEW S, NEW q \in Seq(S), NEW i \in 1..Len(q)
  PROVE  RemoveAt(q, i) \in Seq(S)
<1>1. Len(q) \in Nat /\ \A j \in 1..Len(q) : q[j] \in S
  BY LenProperties, ElementOfSeq
<1>2. SubSeq(q, 1, i - 1) \in Seq(S)
  BY <1>1, SubSeqProperties
<1>3. SubSeq(q, i + 1, Len(q)) \in Seq(S)
  BY <1>1, SubSeqProperties
<1> QED BY <1>2, <1>3, ConcatProperties DEF RemoveAt

LEMMA NotifyType ==
  ASSUME NEW q \in Seq(Entries), NEW open, NEW n, NEW h,
         waitResult \in {"pending", "idle", "timeout"},
         NotifyIfIdle(q, open, n, h)
  PROVE  queue' \in Seq(Entries) /\ waitResult' \in {"pending", "idle", "timeout"}
<1>1. Sighted(q, h) \in Seq(Entries)
  BY SightedType
<1> QED BY <1>1 DEF NotifyIfIdle, IdleSighted


\* The entries push() is called with, and what it leaves behind.
LEMMA EntryType ==
  /\ \A m \in Messages : /\ Entry("message", m, None) \in Entries
                         /\ Entry("bootstrap", m, None) \in Entries
  /\ \A b \in Boundaries \cup {None} :
       /\ Entry("reconnected", None, b) \in Entries
       /\ [Entry("reconnected", None, b) EXCEPT !.afterHold = TRUE] \in Entries
BY DEF Entry, Entries

LEMMA PushType ==
  ASSUME queue \in Seq(Entries), NEW e \in Entries, Push(e)
  PROVE  queue' \in Seq(Entries) /\ (pc' = pc \/ pc' = Woken(pc))
BY AppendProperties DEF Push

\* Waking moves the loop only from the wait it is parked in.
LEMMA WokenType ==
  ASSUME pc \in PCs
  PROVE  /\ Woken(pc) \in PCs
         /\ Woken(pc) = pc \/ (pc = "parked" /\ Woken(pc) = "next")
BY DEF Woken, PCs

LEMMA MarkType ==
  ASSUME mark \in [Messages -> Marks], NEW m \in Messages,
         NEW v \in {"processed", "failed"}
  PROVE  Claimed(m) \in [Messages -> Marks] /\ Settled(m, v) \in [Messages -> Marks]
BY DEF Claimed, Settled, Marks

LEMMA DroppedType ==
  ASSUME boot \in [Messages -> Answers]
  PROVE  Dropped \in [Messages -> Answers]
BY DEF Dropped, Answers

LEMMA AnchoredType ==
  ASSUME TypeOK, NEW m \in Messages
  PROVE  Anchored(m) \in [Boundaries -> Messages \cup {None}]
<1>1. DOMAIN openBounds = 1..Len(openBounds) /\ Len(openBounds) \in Nat
  BY LenProperties DEF TypeOK, TrackerType
<1>2. ASSUME Unanchored # {}
      PROVE  openBounds[Oldest(Unanchored)] \in Boundaries
  <2>1. Unanchored \in SUBSET Nat
    BY <1>1 DEF Unanchored
  <2>2. Oldest(Unanchored) \in 1..Len(openBounds)
    BY <1>1, <1>2, <2>1, OldestProperties DEF Unanchored
  <2> QED BY <2>2, ElementOfSeq DEF TypeOK, TrackerType
<1> QED BY <1>2 DEF Anchored, TypeOK, TrackerType

\* What ending a scan, beginning a message's turn and settling it leave behind.
ScanEnded(n) ==
  /\ openBounds' \in Seq(Boundaries)
  /\ queue' \in Seq(Entries) /\ waitResult' \in {"pending", "idle", "timeout"}
  /\ inFlight' = IF sweeping THEN n - 1 ELSE n
  /\ sweeping' = FALSE /\ scan' = None /\ pc' = "next"

TurnBegun(m, why, through) ==
  /\ cur' = m /\ origin' = why /\ control' = through /\ outcome' = "ok"
  /\ seenAt' \in [Messages -> Nat] /\ seenCount' \in Nat /\ primed' \in BOOLEAN

SyncBegun(m, why, through) ==
  /\ TurnBegun(m, why, through)
  /\ \/ pc' = "giveUpClaim" /\ inFlight' = inFlight
     \/ pc' \in {"return", "claim", "hydrate"} /\ inFlight' = inFlight + 1
  /\ attempts' \in [Messages -> Nat] /\ givenUp' \subseteq Messages

MessageSettled ==
  /\ executed' \subseteq Messages
  /\ cur' = None /\ origin' = "none" /\ control' = "unseen" /\ outcome' = "ok"
  /\ openBounds' \in Seq(Boundaries)
  /\ anchorOf' = anchorOf /\ begun' = begun /\ staleLeft' = staleLeft /\ taken' = taken
  /\ queue' \in Seq(Entries) /\ waitResult' \in {"pending", "idle", "timeout"}
  /\ boot' \in [Messages -> Answers]
  /\ scan' \in Boundaries \cup {None} /\ sweeping' \in BOOLEAN
  /\ pc' \in {"next", "sync", "stale"} /\ (sweeping' => pc' = "sync")
  /\ inFlight' = (IF sweeping' THEN 1 ELSE 0)

\* Ending a scan leaves the boundaries typed and gives back a catch-up's count.
LEMMA EndScanType ==
  ASSUME TypeOK, NEW q \in Seq(Entries), NEW n, EndScan(q, n)
  PROVE  ScanEnded(n)
<1>1. openBounds' \in Seq(Boundaries)
  <2>1. CASE openBounds = <<>>
    BY <2>1 DEF EndScan, TypeOK, TrackerType
  <2>2. CASE openBounds # <<>>
    BY <2>2, HeadTailProperties DEF EndScan, TypeOK, TrackerType
  <2> QED BY <2>1, <2>2
<1>2. queue' \in Seq(Entries) /\ waitResult' \in {"pending", "idle", "timeout"}
  <2>1. NotifyIfIdle(q, openBounds', inFlight', hold)
    BY DEF EndScan
  <2> QED BY <2>1, NotifyType DEF TypeOK, TrackerType
<1> QED BY <1>1, <1>2 DEF EndScan, ScanEnded

Origins == {"stale", "sync", "bootstrap", "live"}

\* Beginning a turn counts it in and leaves the loop inside that turn.
LEMMA BeginTurnType ==
  ASSUME TypeOK, NEW m \in Messages, NEW why, NEW through, BeginTurn(m, why, through)
  PROVE  /\ TurnBegun(m, why, through)
         /\ pc' \in {"return", "claim", "hydrate"} /\ inFlight' = inFlight + 1
<1> USE DEF TurnBegun
<1>1. CASE ~Active \/ m \in Echoes \/ HasMessage(m)
  BY <1>1 DEF BeginTurn, TypeOK, ContextType
<1>2. CASE ~(~Active \/ m \in Echoes \/ HasMessage(m))
  <2>1. seenCount' \in Nat /\ seenAt' = [seenAt EXCEPT ![m] = seenCount + 1]
    BY <1>2 DEF BeginTurn, TypeOK, ContextType
  <2>2. seenAt' \in [Messages -> Nat]
    BY <2>1 DEF TypeOK, ContextType
  <2>3. pc' \in {"claim", "hydrate"} /\ primed' \in BOOLEAN
    BY <1>2 DEF BeginTurn
  <2> QED BY <2>1, <2>2, <2>3 DEF BeginTurn
<1> QED BY <1>1, <1>2

LEMMA BeginSyncType ==
  ASSUME TypeOK, NEW m \in Messages, NEW why, NEW through, BeginSync(m, why, through)
  PROVE  SyncBegun(m, why, through)
<1> USE DEF SyncBegun
<1>1. CASE m \in givenUp \/ attempts[m] + 1 > MaxRetries
  BY <1>1 DEF BeginSync, TurnBegun, TypeOK, ContextType
<1>2. CASE ~(m \in givenUp \/ attempts[m] + 1 > MaxRetries)
  <2>1. BeginTurn(m, why, through) /\ attempts' = [attempts EXCEPT ![m] = @ + 1]
        /\ givenUp' = givenUp
    BY <1>2 DEF BeginSync
  <2>2. attempts' \in [Messages -> Nat]
    BY <2>1 DEF TypeOK, ContextType
  <2> QED BY <2>1, <2>2, BeginTurnType DEF TypeOK, ContextType
<1> QED BY <1>1, <1>2

\* A message settled: the loop is back at whoever asked for it, counted out.
LEMMA AfterMessageType ==
  ASSUME TypeOK, cur \in Messages, origin \in Origins \ {"live"},
         sweeping => origin = "sync",
         NEW n, n = (IF sweeping THEN 1 ELSE 0), AfterMessage(n)
  PROVE  MessageSettled
<1> USE DEF AfterMessage, TurnOver, Origins, MessageSettled
<1>1. queue \in Seq(Entries)
  BY DEF TypeOK
<1>2. CASE origin = "sync" /\ scan # None /\ anchorOf[scan] = cur
  <2>1. EndScan(queue, n) /\ UNCHANGED boot
    BY <1>2
  <2>2. ScanEnded(n)
    BY <1>1, <2>1, EndScanType
  <2>3. inFlight' = 0
    BY <2>2 DEF TypeOK, LoopType, ScanEnded
  <2> QED BY <2>1, <2>2, <2>3 DEF TypeOK, TrackerType, ScanEnded
<1>3. CASE ~(origin = "sync" /\ scan # None /\ anchorOf[scan] = cur)
  <2>1. inFlight' = n /\ UNCHANGED <<openBounds, sweeping, scan>>
    BY <1>3
  <2>2. CASE origin = "bootstrap"
    <3>1. NotifyIfIdle(queue, openBounds, n, hold) /\ pc' = "next"
          /\ boot' = [boot EXCEPT ![cur] = "ran"]
      BY <1>3, <2>2
    <3>2. queue' \in Seq(Entries) /\ waitResult' \in {"pending", "idle", "timeout"}
      BY <1>1, <3>1, NotifyType DEF TypeOK
    <3>3. boot' \in [Messages -> Answers]
      BY <3>1 DEF TypeOK, Answers
    <3> QED BY <2>1, <2>2, <3>1, <3>2, <3>3 DEF TypeOK, TrackerType, LoopType, TurnType
  <2>3. CASE origin # "bootstrap"
    <3>1. pc' = origin /\ UNCHANGED <<boot, queue, waitResult>>
      BY <1>3, <2>3
    <3> QED BY <2>1, <2>3, <3>1 DEF TypeOK, TrackerType, LoopType, TurnType
  <2> QED BY <2>2, <2>3
<1> QED BY <1>2, <1>3

----------------------------------------------------------------------------
(* Type correctness, and inFlight counts exactly what runs.                *)

\* Where the loop is says whether it works on a message, and a catch-up
\* counts only around its own scan.
LoopShape ==
  /\ pc \in InTurn \cup GivingUp => cur \in Messages /\ origin \in Origins
  /\ pc \in GivingUp => origin # "live"
  /\ sweeping => \/ pc \in {"sync", "read"}
                 \/ pc \in InTurn \cup GivingUp /\ origin = "sync"
  /\ pc = "dispatch" => taken \in Entries

IndInv == TypeOK /\ InFlightIsExact /\ LoopShape

LEMMA InitIndInv == Init => IndInv
<1> SUFFICES ASSUME Init PROVE IndInv
  OBVIOUS
<1>1. queue \in Seq(Entries) /\ openBounds \in Seq(Boundaries)
  <2>1. 1 \in Boundaries
    BY RoomAssumption DEF Boundaries
  <2> QED BY <2>1 DEF Init
<1>2. TypeOK
  <2>1. begun \in Boundaries /\ inFlight \in 0..2
    BY RoomAssumption DEF Init, Boundaries
  <2>2. /\ delivered \in [Messages -> Nat] /\ seenAt \in [Messages -> Nat]
        /\ attempts \in [Messages -> Nat] /\ runs \in [Messages -> Nat]
    BY DEF Init
  <2>3. /\ anchorOf \in [Boundaries -> Messages \cup {None}]
        /\ boot \in [Messages -> Answers]
    BY DEF Init, Answers
  <2>4. PlatformType /\ TrackerType /\ ContextType
    BY <1>1, <2>1, <2>2, <2>3 DEF Init, PlatformType, TrackerType, ContextType
  <2>5. HoldType /\ TurnType /\ LoopType /\ StopType
    BY DEF Init, HoldType, TurnType, LoopType, StopType
  <2> QED BY <1>1, <2>1, <2>2, <2>3, <2>4, <2>5 DEF Init, TypeOK, PCs
<1>3. InFlightIsExact
  BY DEF Init, InFlightIsExact, InTurn
<1>4. LoopShape
  BY DEF Init, LoopShape, InTurn, GivingUp
<1> QED BY <1>2, <1>3, <1>4 DEF IndInv

\* Deferring a catch-up keeps the queue a queue.
LEMMA DeferredType ==
  ASSUME TypeOK
  PROVE  Deferred \in Seq(Entries)
<1> DEFINE sweep == [Entry("reconnected", None, None) EXCEPT !.afterHold = TRUE]
<1>1. sweep \in Entries
  BY EntryType
<1>2. <<sweep>> \in Seq(Entries)
  BY <1>1
<1>3. <<sweep>> \o queue \in Seq(Entries)
  BY <1>2, ConcatProperties DEF TypeOK
<1> QED BY <1>3 DEF Deferred, TypeOK

LEMMA EmptyQueue == <<>> \in Seq(Entries)
OBVIOUS

LEMMA NotifyEmptyType ==
  ASSUME NEW open, NEW n, NEW h, waitResult \in {"pending", "idle", "timeout"},
         NotifyIfIdle(<<>>, open, n, h)
  PROVE  queue' \in Seq(Entries) /\ waitResult' \in {"pending", "idle", "timeout"}
<1> DEFINE q == <<>>
<1>1. q \in Seq(Entries) /\ NotifyIfIdle(q, open, n, h)
  BY EmptyQueue
<1> HIDE DEF q
<1> QED BY <1>1, NotifyType

\* What closing the queue may leave behind.
LEMMA CloseQueueType ==
  ASSUME TypeOK, NEW q \in Seq(Entries), NEW isGraceful \in BOOLEAN, CloseQueue(q, isGraceful)
  PROVE  /\ pc' \in PCs /\ (pc' = pc \/ (pc = "parked" /\ pc' = "next"))
         /\ queue' \in Seq(Entries) /\ closed' \in BOOLEAN /\ graceful' \in BOOLEAN
         /\ stopper' \in {"draining", "closing"}
         /\ boot' \in [Messages -> Answers]
<1>1. pc' \in PCs /\ (pc' = pc \/ (pc = "parked" /\ pc' = "next"))
  BY WokenType DEF CloseQueue, TypeOK
<1>2. queue' \in Seq(Entries) /\ boot' \in [Messages -> Answers]
  BY EmptyQueue, DroppedType DEF CloseQueue, TypeOK
<1> QED BY <1>1, <1>2 DEF CloseQueue

\* A group of variables a step leaves alone keeps its type.
LEMMA TypeKept ==
  ASSUME TypeOK
  PROVE  /\ UNCHANGED platformVars => PlatformType'
         /\ UNCHANGED holdVars => HoldType'
         /\ UNCHANGED trackerVars => TrackerType'
         /\ UNCHANGED contextVars => ContextType'
         /\ UNCHANGED turnVars => TurnType'
         /\ UNCHANGED loopVars => LoopType'
         /\ UNCHANGED stopVars => StopType'
<1> USE DEF TypeOK
<1>1. UNCHANGED platformVars => PlatformType'
  BY DEF platformVars, PlatformType
<1>2. UNCHANGED holdVars => HoldType'
  BY DEF holdVars, HoldType
<1>3. UNCHANGED trackerVars => TrackerType'
  BY DEF trackerVars, TrackerType
<1>4. UNCHANGED contextVars => ContextType'
  BY DEF contextVars, ContextType
<1>5. UNCHANGED turnVars => TurnType'
  BY DEF turnVars, TurnType
<1>6. UNCHANGED loopVars => LoopType'
  BY DEF loopVars, LoopType
<1>7. UNCHANGED stopVars => StopType'
  BY DEF stopVars, StopType
<1> QED BY <1>1, <1>2, <1>3, <1>4, <1>5, <1>6, <1>7

\* Every step keeps the invariant, one action at a time.
LEMMA NextIndInv == IndInv /\ [Next]_vars => IndInv'
<1> SUFFICES ASSUME IndInv, [Next]_vars PROVE IndInv'
  OBVIOUS
<1>0. TypeOK /\ InFlightIsExact /\ LoopShape
  BY DEF IndInv
<1>1. ASSUME NEW m \in Messages, Post(m) PROVE IndInv'
  <2>8. TypeOK'
    <3>1. PlatformType'
      BY <1>0, <1>1, TypeKept DEF Post, TypeOK, PlatformType, Marks
    <3> QED BY <1>0, <1>1, TypeKept, <3>1 DEF Post, TypeOK, Marks
  <2>9. InFlightIsExact' /\ LoopShape'
    BY <1>0, <1>1 DEF Post, InFlightIsExact, LoopShape, InTurn, GivingUp, turnVars, loopVars
  <2> QED BY <2>8, <2>9 DEF IndInv
<1>2. ASSUME NEW m \in Messages, Deliver(m) PROVE IndInv'
  <2>1. anchorOf' \in [Boundaries -> Messages \cup {None}]
    BY <1>0, <1>2, AnchoredType DEF Deliver
  <2>2. queue' \in Seq(Entries) /\ pc' \in PCs
        /\ (pc' = pc \/ (pc = "parked" /\ pc' = "next"))
    BY <1>0, <1>2, EntryType, PushType, WokenType
    DEF Deliver, TypeOK, PlatformType, TrackerType
  <2>3. delivered' \in [Messages -> Nat]
    BY <1>0, <1>2 DEF Deliver, TypeOK, PlatformType, TrackerType
  <2>8. TypeOK'
    <3>1. PlatformType' /\ TrackerType'
      BY <1>0, <1>2, TypeKept, <2>1, <2>2, <2>3
      DEF Deliver, TypeOK, PlatformType, TrackerType
    <3> QED BY <1>0, <1>2, TypeKept, <2>1, <2>2, <2>3, <3>1 DEF Deliver, TypeOK
  <2>9. InFlightIsExact' /\ LoopShape'
    BY <1>0, <1>2, <2>2
    DEF Deliver, InFlightIsExact, LoopShape, InTurn, GivingUp, turnVars, loopVars
  <2> QED BY <2>8, <2>9 DEF IndInv
<1>3. CASE Reconnect
  <2>1. begun' \in Boundaries
    BY <1>0, <1>3, RoomAssumption DEF Reconnect, TypeOK, TrackerType, Boundaries
  <2>2. queue' \in Seq(Entries) /\ pc' \in PCs
        /\ (pc' = pc \/ (pc = "parked" /\ pc' = "next"))
    BY <1>0, <1>3, <2>1, EntryType, PushType, WokenType DEF Reconnect, TypeOK, TrackerType
  <2>3. openBounds' \in Seq(Boundaries)
    BY <1>0, <1>3, <2>1, AppendProperties DEF Reconnect, TypeOK, TrackerType
  <2>8. TypeOK'
    <3>1. TrackerType'
      BY <1>0, <1>3, TypeKept, <2>1, <2>2, <2>3 DEF Reconnect, TypeOK, TrackerType
    <3> QED BY <1>0, <1>3, TypeKept, <2>1, <2>2, <2>3, <3>1 DEF Reconnect, TypeOK
  <2>9. InFlightIsExact' /\ LoopShape'
    BY <1>0, <1>3, <2>2
    DEF Reconnect, InFlightIsExact, LoopShape, InTurn, GivingUp, turnVars, loopVars
  <2> QED BY <2>8, <2>9 DEF IndInv
<1>4. ASSUME NEW m \in Messages, BootstrapMessage(m) PROVE IndInv'
  <2>1. queue' \in Seq(Entries) /\ pc' \in PCs
        /\ (pc' = pc \/ (pc = "parked" /\ pc' = "next"))
    BY <1>0, <1>4, EntryType, PushType, WokenType DEF BootstrapMessage, TypeOK, Answers
  <2>2. boot' \in [Messages -> Answers]
    BY <1>0, <1>4 DEF BootstrapMessage, TypeOK, Answers
  <2>8. TypeOK'
    BY <1>0, <1>4, TypeKept, <2>1, <2>2 DEF BootstrapMessage, TypeOK, Answers
  <2>9. InFlightIsExact' /\ LoopShape'
    BY <1>0, <1>4, <2>1
    DEF BootstrapMessage, InFlightIsExact, LoopShape, InTurn, GivingUp, turnVars, loopVars
  <2> QED BY <2>8, <2>9 DEF IndInv
<1>5. ASSUME NEW m \in Messages, HoldEnds(m) PROVE IndInv'
  <2>1. queue' \in Seq(Entries) /\ waitResult' \in {"pending", "idle", "timeout"}
    BY <1>0, <1>5, NotifyType DEF HoldEnds, TypeOK, HoldType
  <2>2. pc' \in PCs /\ (pc' = pc \/ (pc = "parked" /\ pc' = "next"))
    BY <1>0, <1>5, WokenType DEF HoldEnds, TypeOK, HoldType
  <2>8. TypeOK'
    <3>1. HoldType'
      BY <1>0, <1>5, TypeKept, <2>1, <2>2 DEF HoldEnds, TypeOK, HoldType
    <3> QED BY <1>0, <1>5, TypeKept, <2>1, <2>2, <3>1 DEF HoldEnds, TypeOK
  <2>9. InFlightIsExact' /\ LoopShape'
    BY <1>0, <1>5, <2>2
    DEF HoldEnds, InFlightIsExact, LoopShape, InTurn, GivingUp, turnVars, loopVars
  <2> QED BY <2>8, <2>9 DEF IndInv
<1>6. CASE AskChanges
  <2>8. TypeOK'
    <3>1. HoldType'
      BY <1>0, <1>6, TypeKept DEF AskChanges, TypeOK, HoldType
    <3> QED BY <1>0, <1>6, TypeKept, <3>1 DEF AskChanges, TypeOK
  <2>9. InFlightIsExact' /\ LoopShape'
    BY <1>0, <1>6
    DEF AskChanges, InFlightIsExact, LoopShape, InTurn, GivingUp, turnVars, loopVars
  <2> QED BY <2>8, <2>9 DEF IndInv
<1>7. CASE Hydrated
  <2>8. TypeOK'
    <3>1. TurnType'
      BY <1>0, <1>7, TypeKept DEF Hydrated, TypeOK, TurnType, PCs, InTurn
    <3> QED BY <1>0, <1>7, TypeKept, <3>1 DEF Hydrated, TypeOK, PCs, InTurn
  <2>9. InFlightIsExact' /\ LoopShape'
    BY <1>0, <1>7
    DEF Hydrated, InFlightIsExact, LoopShape, InTurn, GivingUp, turnVars, loopVars
  <2> QED BY <2>8, <2>9 DEF IndInv
<1>8. CASE TurnClaimed
  <2>1. mark' \in [Messages -> Marks]
    BY <1>0, <1>8, MarkType
    DEF TurnClaimed, Attempt, TypeOK, PlatformType, LoopShape, InTurn
  <2>2. runs' \in [Messages -> Nat]
    <3>1. cur \in Messages /\ runs \in [Messages -> Nat]
      BY <1>0, <1>8 DEF TurnClaimed, TypeOK, PlatformType, LoopShape, InTurn
    <3>2. runs' = runs \/ runs' = [runs EXCEPT ![cur] = @ + 1]
      BY <1>8 DEF TurnClaimed
    <3> QED BY <3>1, <3>2
  <2>8. TypeOK'
    <3>1. PlatformType'
      BY <1>0, <1>8, TypeKept, <2>1, <2>2 DEF TurnClaimed, TypeOK, PlatformType, PCs, InTurn
    <3> QED BY <1>0, <1>8, TypeKept, <2>1, <2>2, <3>1 DEF TurnClaimed, TypeOK, PCs, InTurn
  <2>9. InFlightIsExact' /\ LoopShape'
    BY <1>0, <1>8
    DEF TurnClaimed, InFlightIsExact, LoopShape, InTurn, GivingUp, turnVars, loopVars
  <2> QED BY <2>8, <2>9 DEF IndInv
<1>9. CASE AgentReturns
  <2>8. TypeOK'
    <3>1. HoldType' /\ TurnType'
      BY <1>0, <1>9, TypeKept
      DEF AgentReturns, TypeOK, HoldType, TurnType, PCs, InTurn, LoopShape
    <3> QED BY <1>0, <1>9, TypeKept, <3>1 DEF AgentReturns, TypeOK, PCs, InTurn, LoopShape
  <2>9. InFlightIsExact' /\ LoopShape'
    BY <1>0, <1>9
    DEF AgentReturns, InFlightIsExact, LoopShape, InTurn, GivingUp, turnVars, loopVars
  <2> QED BY <2>8, <2>9 DEF IndInv
<1>10. CASE TurnSettled
  <2>1. mark' \in [Messages -> Marks]
    BY <1>0, <1>10, MarkType
    DEF TurnSettled, Attempt, TypeOK, PlatformType, TurnType, LoopShape, InTurn
  <2>8. TypeOK'
    <3>1. PlatformType' /\ TurnType'
      BY <1>0, <1>10, TypeKept, <2>1
      DEF TurnSettled, TypeOK, PlatformType, TurnType, PCs, InTurn
    <3> QED BY <1>0, <1>10, TypeKept, <2>1, <3>1 DEF TurnSettled, TypeOK, PCs, InTurn
  <2>9. InFlightIsExact' /\ LoopShape'
    BY <1>0, <1>10
    DEF TurnSettled, InFlightIsExact, LoopShape, InTurn, GivingUp, turnVars, loopVars
  <2> QED BY <2>8, <2>9 DEF IndInv
<1>11. CASE SyncTurnReturns
  <2>1. /\ cur \in Messages /\ origin \in Origins \ {"live"} /\ (sweeping => origin = "sync")
        /\ inFlight - 1 = (IF sweeping THEN 1 ELSE 0)
    BY <1>0, <1>11
    DEF SyncTurnReturns, TypeOK, TrackerType, TurnType, LoopType, ContextType,
          InFlightIsExact, LoopShape, InTurn, GivingUp, turnVars, loopVars
  <2>2. MessageSettled
    BY <1>0, <1>11, <2>1, AfterMessageType DEF SyncTurnReturns
  <2>3. attempts' \in [Messages -> Nat]
    BY <1>0, <1>11 DEF SyncTurnReturns, TypeOK, TrackerType, TurnType, LoopType, ContextType
  <2>8. TypeOK'
    <3>1. TrackerType' /\ TurnType' /\ LoopType' /\ ContextType'
      BY <1>0, <1>11, TypeKept, <2>2, <2>3
      DEF SyncTurnReturns, TypeOK, TrackerType, TurnType, LoopType, ContextType, PCs,
            MessageSettled
    <3> QED BY <1>0, <1>11, TypeKept, <2>2, <2>3, <3>1
          DEF SyncTurnReturns, TypeOK, PCs, MessageSettled
  <2>9. InFlightIsExact' /\ LoopShape'
    BY <1>0, <1>11, <2>2
    DEF SyncTurnReturns, InFlightIsExact, LoopShape, InTurn, GivingUp, turnVars, loopVars,
          MessageSettled
  <2> QED BY <2>8, <2>9 DEF IndInv
<1>12. CASE GiveUpClaimed
  <2>1. mark' \in [Messages -> Marks]
    BY <1>0, <1>12, MarkType
    DEF GiveUpClaimed, Attempt, TypeOK, PlatformType, TrackerType, TurnType, LoopType,
          LoopShape, GivingUp
  <2>2. CASE pc' = "giveUpMark" /\ UNCHANGED <<queue, waitResult, boot, inFlight, trackerVars,
                                              turnVars, loopVars>>
    <3>1. TypeOK'
      <4>1. PlatformType' /\ TrackerType' /\ TurnType' /\ LoopType'
        BY <1>0, TypeKept, <1>12, <2>1, <2>2
        DEF GiveUpClaimed, TypeOK, PlatformType, TrackerType, TurnType, LoopType, PCs,
              GivingUp
      <4> QED BY <1>0, TypeKept, <1>12, <2>1, <2>2, <4>1
            DEF GiveUpClaimed, TypeOK, PCs, GivingUp
    <3>2. InFlightIsExact' /\ LoopShape'
      BY <1>0, <1>12, <2>2
      DEF GiveUpClaimed, InFlightIsExact, LoopShape, InTurn, GivingUp, turnVars, loopVars
    <3> QED BY <3>1, <3>2 DEF IndInv
  <2>3. CASE AfterMessage(inFlight)
    <3>1. /\ cur \in Messages /\ origin \in Origins \ {"live"} /\ (sweeping => origin = "sync")
          /\ inFlight = (IF sweeping THEN 1 ELSE 0)
      BY <1>0, <1>12
      DEF GiveUpClaimed, TypeOK, PlatformType, TrackerType, TurnType, LoopType,
            InFlightIsExact, LoopShape, InTurn, GivingUp, turnVars, loopVars
    <3>2. MessageSettled
      BY <1>0, <2>3, <3>1, AfterMessageType
    <3>3. TypeOK'
      <4>1. PlatformType' /\ TrackerType' /\ TurnType' /\ LoopType'
        BY <1>0, TypeKept, <1>12, <2>1, <3>2
        DEF GiveUpClaimed, TypeOK, PlatformType, TrackerType, TurnType, LoopType, PCs,
              MessageSettled
      <4> QED BY <1>0, TypeKept, <1>12, <2>1, <3>2, <4>1
            DEF GiveUpClaimed, TypeOK, PCs, MessageSettled
    <3>4. InFlightIsExact' /\ LoopShape'
      BY <1>0, <1>12, <3>2
      DEF GiveUpClaimed, InFlightIsExact, LoopShape, InTurn, GivingUp, turnVars, loopVars,
            MessageSettled
    <3> QED BY <3>3, <3>4 DEF IndInv
  <2> QED BY <1>12, <2>2, <2>3 DEF GiveUpClaimed
<1>13. CASE GiveUpMarked
  <2>1. /\ cur \in Messages /\ origin \in Origins \ {"live"} /\ (sweeping => origin = "sync")
        /\ inFlight = (IF sweeping THEN 1 ELSE 0)
    BY <1>0, <1>13
    DEF GiveUpMarked, TypeOK, PlatformType, TrackerType, TurnType, LoopType,
          InFlightIsExact, LoopShape, InTurn, GivingUp, turnVars, loopVars
  <2>2. MessageSettled
    BY <1>0, <1>13, <2>1, AfterMessageType DEF GiveUpMarked
  <2>3. mark' \in [Messages -> Marks]
    BY <1>0, <1>13, <2>1, MarkType
    DEF GiveUpMarked, Attempt, TypeOK, PlatformType, TrackerType, TurnType, LoopType
  <2>8. TypeOK'
    <3>1. PlatformType' /\ TrackerType' /\ TurnType' /\ LoopType'
      BY <1>0, <1>13, TypeKept, <2>2, <2>3
      DEF GiveUpMarked, TypeOK, PlatformType, TrackerType, TurnType, LoopType, PCs,
            MessageSettled
    <3> QED BY <1>0, <1>13, TypeKept, <2>2, <2>3, <3>1 DEF GiveUpMarked, TypeOK, PCs, MessageSettled
  <2>9. InFlightIsExact' /\ LoopShape'
    BY <1>0, <1>13, <2>2
    DEF GiveUpMarked, InFlightIsExact, LoopShape, InTurn, GivingUp, turnVars, loopVars,
          MessageSettled
  <2> QED BY <2>8, <2>9 DEF IndInv
<1>14. CASE StaleFetched
  <2>8. TypeOK'
    <3>1. LoopType' /\ PlatformType'
      BY <1>0, <1>14, TypeKept DEF StaleFetched, TypeOK, LoopType, PlatformType, PCs
    <3> QED BY <1>0, <1>14, TypeKept, <3>1 DEF StaleFetched, TypeOK, PCs
  <2>9. InFlightIsExact' /\ LoopShape'
    BY <1>0, <1>14
    DEF StaleFetched, InFlightIsExact, LoopShape, InTurn, GivingUp, turnVars, loopVars
  <2> QED BY <2>8, <2>9 DEF IndInv
<1>15. CASE RecoverStale
  <2> DEFINE left == staleLeft \ givenUp
  <2>1. CASE ~Active \/ hold # None \/ left = {}
    <3>1. TypeOK'
      <4>1. 1 \in Boundaries
        BY RoomAssumption DEF Boundaries
      <4>2. LoopType' /\ TurnType' /\ ContextType'
        BY <1>0, <1>15, <2>1, <4>1
        DEF RecoverStale, TypeOK, LoopType, TurnType, ContextType, contextVars, turnVars
      <4> QED BY <1>0, <1>15, <2>1, TypeKept, <4>2 DEF RecoverStale, TypeOK, PCs
    <3>2. InFlightIsExact' /\ LoopShape'
      BY <1>0, <1>15, <2>1
      DEF RecoverStale, InFlightIsExact, LoopShape, InTurn, GivingUp, turnVars, loopVars
    <3> QED BY <3>1, <3>2 DEF IndInv
  <2>2. CASE ~(~Active \/ hold # None \/ left = {})
    <3>1. Oldest(left) \in left
      BY <1>0, <2>2, MessagesAreNaturals, OldestProperties
      DEF TypeOK, LoopType, TurnType, ContextType
    <3>2. Oldest(left) \in Messages
      BY <1>0, <3>1 DEF TypeOK, LoopType, TurnType, ContextType
    <3>3. BeginSync(Oldest(left), "stale", "unseen") /\ staleLeft' = left \ {Oldest(left)}
          /\ UNCHANGED scan
      BY <1>15, <2>2 DEF RecoverStale
    <3>4. SyncBegun(Oldest(left), "stale", "unseen")
      BY <1>0, <3>2, <3>3, BeginSyncType
    <3>5. InFlightIsExact' /\ LoopShape'
      BY <1>0, <1>15, <3>2, <3>4
      DEF RecoverStale, InFlightIsExact, LoopShape, InTurn, GivingUp, turnVars, loopVars,
            Origins, SyncBegun, TurnBegun
    <3>6. TypeOK'
      <4>1. inFlight = 0
        BY <1>0, <1>15
        DEF RecoverStale, TypeOK, LoopType, TurnType, ContextType, InFlightIsExact,
              LoopShape, InTurn, GivingUp, turnVars, loopVars
      <4>2. inFlight' \in 0..2
        BY <3>4, <4>1 DEF SyncBegun
      <4>3. LoopType' /\ TurnType' /\ ContextType'
        BY <1>0, <1>15, <3>2, <3>3, <3>4
        DEF RecoverStale, TypeOK, LoopType, TurnType, ContextType, SyncBegun, TurnBegun
      <4> QED BY <1>0, <1>15, TypeKept, <3>4, <4>2, <4>3
            DEF RecoverStale, SyncBegun, TypeOK, PCs, InTurn, GivingUp
    <3> QED BY <3>5, <3>6 DEF IndInv
  <2> QED BY <2>1, <2>2
<1>16. CASE SynchronizeWithNext
  <2>1. CASE ~Active \/ hold # None
    <3>1. queue \in Seq(Entries) /\ Deferred \in Seq(Entries)
      BY <1>0, DeferredType DEF TypeOK, TrackerType, LoopType
    <3>2. ScanEnded(inFlight)
      BY <1>0, <1>16, <2>1, <3>1, EndScanType DEF SynchronizeWithNext
    <3>3. inFlight' = 0
      BY <1>0, <1>16, <3>2
      DEF SynchronizeWithNext, TypeOK, TrackerType, LoopType, InFlightIsExact, LoopShape,
            InTurn, GivingUp, turnVars, loopVars, ScanEnded
    <3>4. TypeOK'
      <4>1. TrackerType' /\ LoopType'
        BY <1>0, TypeKept, <1>16, <3>2, <3>3
        DEF SynchronizeWithNext, TypeOK, TrackerType, LoopType, PCs, ScanEnded
      <4> QED BY <1>0, TypeKept, <1>16, <3>2, <3>3, <4>1
            DEF SynchronizeWithNext, TypeOK, PCs, ScanEnded
    <3>5. InFlightIsExact' /\ LoopShape'
      BY <1>0, <1>16, <3>2, <3>3
      DEF SynchronizeWithNext, InFlightIsExact, LoopShape, InTurn, GivingUp, turnVars,
            loopVars, ScanEnded
    <3> QED BY <3>4, <3>5 DEF IndInv
  <2>2. CASE ~(~Active \/ hold # None)
    <3>1. TypeOK'
      <4>1. TrackerType' /\ LoopType'
        BY <1>0, TypeKept, <1>16, <2>2
        DEF SynchronizeWithNext, TypeOK, TrackerType, LoopType, PCs
      <4> QED BY <1>0, TypeKept, <1>16, <2>2, <4>1 DEF SynchronizeWithNext, TypeOK, PCs
    <3>2. InFlightIsExact' /\ LoopShape'
      BY <1>0, <1>16, <2>2
      DEF SynchronizeWithNext, InFlightIsExact, LoopShape, InTurn, GivingUp, turnVars,
            loopVars
    <3> QED BY <3>1, <3>2 DEF IndInv
  <2> QED BY <2>1, <2>2
<1>17. CASE NextRead
  <2>0. inFlight = (IF sweeping THEN 1 ELSE 0)
    BY <1>0, <1>17
    DEF NextRead, TypeOK, TrackerType, LoopType, TurnType, ContextType, InFlightIsExact,
          LoopShape, InTurn, GivingUp, turnVars, loopVars
  <2>1. CASE ScanOver
    <3>1. queue \in Seq(Entries)
      BY <1>0 DEF TypeOK, TrackerType, LoopType, TurnType, ContextType
    <3>2. ScanEnded(inFlight)
      BY <1>0, <1>17, <2>1, <3>1, EndScanType DEF NextRead
    <3>3. inFlight' = 0
      BY <1>0, <2>0, <3>2
      DEF TypeOK, TrackerType, LoopType, TurnType, ContextType, ScanEnded
    <3>4. TypeOK'
      <4>1. TrackerType' /\ LoopType' /\ TurnType' /\ ContextType'
        BY <1>0, TypeKept, <1>17, <2>1, <3>2, <3>3
        DEF NextRead, TypeOK, TrackerType, LoopType, TurnType, ContextType, PCs, ScanEnded
      <4> QED BY <1>0, TypeKept, <1>17, <2>1, <3>2, <3>3, <4>1
            DEF NextRead, TypeOK, PCs, ScanEnded
    <3>5. InFlightIsExact' /\ LoopShape'
      BY <1>0, <1>17, <3>2, <3>3
      DEF NextRead, InFlightIsExact, LoopShape, InTurn, GivingUp, turnVars, loopVars,
            ScanEnded
    <3> QED BY <3>4, <3>5 DEF IndInv
  <2>2. CASE ~ScanOver
    <3> DEFINE m == Oldest(Unprocessed)
    <3>1. m \in Messages
      <4>1. Unprocessed \in SUBSET Nat /\ Unprocessed \subseteq Messages
        BY MessagesAreNaturals DEF Unprocessed, Born
      <4> QED BY <2>2, <4>1, OldestProperties DEF ScanOver
    <3>2. SyncBegun(m, "sync", "unseen")
      <4>1. CASE m \in executed
        BY <1>0, <1>17, <2>2, <3>1, <4>1
        DEF NextRead, TypeOK, TrackerType, LoopType, TurnType, ContextType, SyncBegun,
              TurnBegun
      <4>2. CASE m \notin executed
        <5>1. BeginSync(m, "sync", "unseen")
          BY <1>17, <2>2, <4>2 DEF NextRead
        <5> QED BY <1>0, <3>1, <5>1, BeginSyncType
      <4> QED BY <4>1, <4>2
    <3>3. UNCHANGED <<queue, openBounds, sweeping, scan, waitResult>>
      BY <1>17, <2>2 DEF NextRead
    <3>4. inFlight' \in 0..2
      BY <1>0, <2>0, <3>2
      DEF TypeOK, TrackerType, LoopType, TurnType, ContextType, SyncBegun
    <3>5. TypeOK'
      <4>1. TrackerType' /\ LoopType' /\ TurnType' /\ ContextType'
        BY <1>0, TypeKept, <1>17, <3>1, <3>2, <3>3, <3>4
        DEF NextRead, TypeOK, TrackerType, LoopType, TurnType, ContextType, PCs, InTurn,
              GivingUp, SyncBegun, TurnBegun
      <4> QED BY <1>0, TypeKept, <1>17, <3>1, <3>2, <3>3, <3>4, <4>1
            DEF NextRead, TypeOK, PCs, InTurn, GivingUp, SyncBegun, TurnBegun
    <3>6. InFlightIsExact' /\ LoopShape'
      BY <1>0, <1>17, <2>0, <3>1, <3>2, <3>3
      DEF NextRead, TypeOK, TrackerType, LoopType, TurnType, ContextType, InFlightIsExact,
            LoopShape, InTurn, GivingUp, turnVars, loopVars, Origins, SyncBegun, TurnBegun
    <3> QED BY <3>5, <3>6 DEF IndInv
  <2> QED BY <2>1, <2>2
<1>18. CASE NextReadFails
  <2>1. queue' \in Seq(Entries)
    BY <1>18 DEF NextReadFails
  <2>2. inFlight' = 0
    BY <1>0, <1>18
    DEF NextReadFails, TypeOK, LoopType, InFlightIsExact, LoopShape, InTurn, GivingUp,
          turnVars, loopVars
  <2>8. TypeOK'
    <3>1. LoopType'
      BY <1>0, <1>18, TypeKept, <2>1, <2>2, DroppedType
      DEF NextReadFails, TypeOK, LoopType, PCs
    <3> QED BY <1>0, <1>18, TypeKept, <2>1, <2>2, DroppedType, <3>1 DEF NextReadFails, TypeOK, PCs
  <2>9. InFlightIsExact' /\ LoopShape'
    BY <1>0, <1>18, <2>2
    DEF NextReadFails, InFlightIsExact, LoopShape, InTurn, GivingUp, turnVars, loopVars,
          TypeOK, LoopType
  <2> QED BY <2>8, <2>9 DEF IndInv
<1>19. CASE NextQueuedEvent
  <2> DEFINE sighted == Sighted(queue, hold)
             i == Oldest(Runnable(queue, hold))
  <2>1. sighted \in Seq(Entries) /\ Len(sighted) = Len(queue) /\ Len(queue) \in Nat
        /\ DOMAIN queue = 1..Len(queue)
    BY <1>0, SightedType, LenProperties DEF TypeOK, LoopType
  <2>2. ASSUME Runnable(queue, hold) # {} PROVE i \in 1..Len(sighted)
    <3>1. Runnable(queue, hold) \in SUBSET Nat /\ Runnable(queue, hold) \subseteq 1..Len(sighted)
      BY <2>1 DEF Runnable
    <3> QED BY <2>2, <3>1, OldestProperties
  <2>3. ASSUME Runnable(queue, hold) # {}
        PROVE  sighted[i] \in Entries /\ RemoveAt(sighted, i) \in Seq(Entries)
    BY <2>1, <2>2, <2>3, ElementOfSeq, RemoveAtType
  <2>4. /\ queue' \in Seq(Entries) /\ taken' \in Entries \cup {NoEvent}
        /\ pc = "next" /\ pc' \in {"done", "parked", "dispatch"}
        /\ (pc' = "dispatch" => taken' \in Entries)
    BY <1>0, <1>19, <2>1, <2>3 DEF NextQueuedEvent, TypeOK, LoopType
  <2>8. TypeOK'
    <3>1. LoopType'
      BY <1>0, <1>19, TypeKept, <2>4 DEF NextQueuedEvent, TypeOK, LoopType, PCs
    <3> QED BY <1>0, <1>19, TypeKept, <2>4, <3>1 DEF NextQueuedEvent, TypeOK, PCs
  <2>9. InFlightIsExact' /\ LoopShape'
    BY <1>0, <1>19, <2>4
    DEF NextQueuedEvent, InFlightIsExact, LoopShape, InTurn, GivingUp, turnVars, loopVars
  <2> QED BY <2>8, <2>9 DEF IndInv
<1>20. CASE Dispatch
  <2>0. taken \in Entries /\ pc = "dispatch" /\ taken' = NoEvent /\ ~sweeping /\ inFlight = 0
    BY <1>0, <1>20
    DEF Dispatch, TypeOK, LoopType, TurnType, ContextType, Answers, InFlightIsExact,
          LoopShape, InTurn, GivingUp, turnVars, loopVars
  <2>1. CASE SkipExecuted
    <3>1. queue' \in Seq(Entries) /\ waitResult' \in {"pending", "idle", "timeout"}
      BY <1>0, <2>1, NotifyType
      DEF SkipExecuted, TypeOK, LoopType, TurnType, ContextType, Answers
    <3>2. boot' \in [Messages -> Answers]
      BY <1>0, <2>1 DEF SkipExecuted, TypeOK, LoopType, TurnType, ContextType, Answers
    <3>3. TypeOK'
      <4>1. LoopType' /\ TurnType' /\ ContextType'
        BY <1>0, TypeKept, <1>20, <2>0, <2>1, <3>1, <3>2
        DEF Dispatch, SkipExecuted, TypeOK, LoopType, TurnType, ContextType, Answers, PCs
      <4> QED BY <1>0, TypeKept, <1>20, <2>0, <2>1, <3>1, <3>2, <4>1
            DEF Dispatch, SkipExecuted, TypeOK, Answers, PCs
    <3>4. InFlightIsExact' /\ LoopShape'
      BY <1>0, <1>20, <2>0, <2>1
      DEF Dispatch, SkipExecuted, InFlightIsExact, LoopShape, InTurn, GivingUp, turnVars,
            loopVars
    <3> QED BY <3>3, <3>4 DEF IndInv
  <2>2. CASE DispatchMessage
    <3>1. taken.id \in Messages /\ taken.control \in {"unseen", "yes", "no"}
      BY <2>0, <2>2 DEF DispatchMessage, Entries
    <3>2. Through \in {"unseen", "yes", "no"}
      BY <3>1 DEF Through
    <3>3. /\ \/ pc' = "giveUpClaim" /\ inFlight' = inFlight /\ origin' = "bootstrap"
             \/ pc' \in {"return", "claim", "hydrate"} /\ inFlight' = inFlight + 1
          /\ cur' = taken.id /\ origin' \in {"bootstrap", "live"}
          /\ control' = Through /\ outcome' = "ok"
          /\ seenAt' \in [Messages -> Nat] /\ seenCount' \in Nat /\ primed' \in BOOLEAN
          /\ attempts' \in [Messages -> Nat] /\ givenUp' \subseteq Messages
      <4>1. CASE taken.kind = "bootstrap"
        <5>1. BeginSync(taken.id, "bootstrap", Through)
          BY <2>2, <4>1 DEF DispatchMessage
        <5> QED BY <1>0, <3>1, <5>1, BeginSyncType DEF SyncBegun, TurnBegun
      <4>2. CASE taken.kind # "bootstrap"
        <5>1. BeginTurn(taken.id, "live", Through) /\ UNCHANGED <<attempts, givenUp>>
          BY <2>2, <4>2 DEF DispatchMessage
        <5> QED BY <1>0, <3>1, <5>1, BeginTurnType
              DEF TypeOK, LoopType, TurnType, ContextType, Answers, TurnBegun
      <4> QED BY <4>1, <4>2
    <3>4. inFlight' \in 0..2
      BY <2>0, <3>3
    <3>5. TypeOK'
      <4>1. LoopType' /\ TurnType' /\ ContextType'
        BY <1>0, TypeKept, <1>20, <2>0, <2>2, <3>1, <3>2, <3>3, <3>4
        DEF Dispatch, DispatchMessage, TypeOK, LoopType, TurnType, ContextType, Answers,
              PCs, InTurn, GivingUp
      <4> QED BY <1>0, TypeKept, <1>20, <2>0, <2>2, <3>1, <3>2, <3>3, <3>4, <4>1
            DEF Dispatch, DispatchMessage, TypeOK, Answers, PCs, InTurn, GivingUp
    <3>6. InFlightIsExact' /\ LoopShape'
      BY <1>0, <1>20, <2>0, <2>2, <3>1, <3>3
      DEF Dispatch, DispatchMessage, InFlightIsExact, LoopShape, InTurn, GivingUp,
            turnVars, loopVars, Origins
    <3> QED BY <3>5, <3>6 DEF IndInv
  <2>3. CASE CatchUp
    <3>1. taken.boundary \in Boundaries \cup {None}
      BY <2>0 DEF Entries
    <3>2. TypeOK'
      <4>1. LoopType' /\ TurnType' /\ ContextType'
        BY <1>0, TypeKept, <1>20, <2>0, <2>3, <3>1
        DEF Dispatch, CatchUp, TypeOK, LoopType, TurnType, ContextType, Answers, PCs
      <4> QED BY <1>0, TypeKept, <1>20, <2>0, <2>3, <3>1, <4>1
            DEF Dispatch, CatchUp, TypeOK, Answers, PCs
    <3>3. InFlightIsExact' /\ LoopShape'
      BY <1>0, <1>20, <2>0, <2>3
      DEF Dispatch, CatchUp, InFlightIsExact, LoopShape, InTurn, GivingUp, turnVars,
            loopVars
    <3> QED BY <3>2, <3>3 DEF IndInv
  <2> QED BY <1>20, <2>1, <2>2, <2>3 DEF Dispatch
<1>21. CASE LiveTurnReturns
  <2>1. /\ inFlight = 1 /\ ~sweeping
        /\ \/ pc' = "failing" /\ inFlight' = 1
           \/ pc' = "next" /\ inFlight' = 0
    BY <1>0, <1>21
    DEF LiveTurnReturns, TypeOK, TurnType, LoopType, InFlightIsExact, LoopShape, InTurn,
          GivingUp, turnVars, loopVars
  <2>2. queue' \in Seq(Entries) /\ waitResult' \in {"pending", "idle", "timeout"}
    BY <1>0, <1>21, NotifyType DEF LiveTurnReturns, TypeOK, TurnType, LoopType
  <2>3. closed' \in BOOLEAN /\ pc' \in PCs /\ inFlight' \in 0..2
    <3>1. closed' = TRUE \/ closed' = closed
      BY <1>21 DEF LiveTurnReturns
    <3>2. closed' \in BOOLEAN
      BY <1>0, <3>1 DEF TypeOK, TurnType, LoopType
    <3> QED BY <2>1, <3>2 DEF PCs
  <2>8. TypeOK'
    <3>1. TurnType' /\ LoopType'
      BY <1>0, <1>21, TypeKept, <2>1, <2>2, <2>3
      DEF LiveTurnReturns, TypeOK, TurnType, LoopType, PCs, TurnOver
    <3> QED BY <1>0, <1>21, TypeKept, <2>1, <2>2, <2>3, <3>1
          DEF LiveTurnReturns, TypeOK, PCs, TurnOver
  <2>9. InFlightIsExact' /\ LoopShape'
    BY <1>0, <1>21, <2>1
    DEF LiveTurnReturns, InFlightIsExact, LoopShape, InTurn, GivingUp, turnVars, loopVars,
          TurnOver, TypeOK, TurnType, LoopType
  <2> QED BY <2>8, <2>9 DEF IndInv
<1>22. CASE RoomFails
  <2>1. queue' \in Seq(Entries) /\ waitResult' \in {"pending", "idle", "timeout"}
    BY <1>0, <1>22, NotifyEmptyType DEF RoomFails, TypeOK, LoopType
  <2>2. inFlight' = 0 /\ ~sweeping
    BY <1>0, <1>22
    DEF RoomFails, TypeOK, LoopType, InFlightIsExact, LoopShape, InTurn, GivingUp,
          turnVars, loopVars
  <2>8. TypeOK'
    <3>1. LoopType'
      BY <1>0, <1>22, TypeKept, <2>1, <2>2, DroppedType
      DEF RoomFails, TypeOK, LoopType, PCs, Failed
    <3> QED BY <1>0, <1>22, TypeKept, <2>1, <2>2, DroppedType, <3>1
          DEF RoomFails, TypeOK, PCs, Failed
  <2>9. InFlightIsExact' /\ LoopShape'
    BY <1>0, <1>22, <2>2
    DEF RoomFails, InFlightIsExact, LoopShape, InTurn, GivingUp, turnVars, loopVars
  <2> QED BY <2>8, <2>9 DEF IndInv
<1>23. CASE LoopCrashes
  <2>8. TypeOK'
    BY <1>0, <1>23, TypeKept DEF LoopCrashes, TypeOK, PCs, Failed
  <2>9. InFlightIsExact' /\ LoopShape'
    BY <1>0, <1>23
    DEF LoopCrashes, InFlightIsExact, LoopShape, InTurn, GivingUp, turnVars, loopVars
  <2> QED BY <2>8, <2>9 DEF IndInv
<1>24. ASSUME NEW b \in StopBudgets, Stop(b) PROVE IndInv'
  <2> DEFINE idle == IsIdle(queue, openBounds, inFlight, hold)
             q == IdleSighted(queue, openBounds, inFlight, hold)
  <2>1. q \in Seq(Entries) /\ idle \in BOOLEAN
    BY <1>0, SightedType DEF IdleSighted, IsIdle, TypeOK, StopType
  <2>2. /\ pc' \in PCs /\ (pc' = pc \/ (pc = "parked" /\ pc' = "next"))
        /\ queue' \in Seq(Entries) /\ closed' \in BOOLEAN /\ graceful' \in BOOLEAN
        /\ stopper' \in {"waiting", "draining", "closing", "refusing"}
        /\ boot' \in [Messages -> Answers]
    <3>1. CASE status # "failed" /\ b = "zero"
      <4>1. CloseQueue(q, idle)
        BY <1>24, <3>1 DEF Stop
      <4> QED BY <1>0, <2>1, <4>1, CloseQueueType
    <3>2. CASE ~(status # "failed" /\ b = "zero")
      <4>1. UNCHANGED <<closed, pc, graceful, boot>> /\ queue' \in {queue, q}
            /\ stopper' \in {"waiting", "refusing"}
        BY <1>24, <3>2 DEF Stop
      <4> QED BY <1>0, <2>1, <4>1 DEF TypeOK, StopType, StopType
    <3> QED BY <3>1, <3>2
  <2>3. /\ status' \in {"running", "stopping", "stopped", "failed"}
        /\ waitResult' \in {"pending", "idle", "timeout"}
        /\ budget' \in {"zero", "finite", "unlimited"}
    BY <1>0, <1>24, RoomAssumption DEF Stop, TypeOK, StopType
  <2>8. TypeOK'
    <3>1. StopType'
      BY <1>0, <1>24, TypeKept, <2>2, <2>3 DEF Stop, TypeOK, StopType
    <3> QED BY <1>0, <1>24, TypeKept, <2>2, <2>3, <3>1 DEF Stop, TypeOK
  <2>9. InFlightIsExact' /\ LoopShape'
    BY <1>0, <1>24, <2>2
    DEF Stop, InFlightIsExact, LoopShape, InTurn, GivingUp, turnVars, loopVars
  <2> QED BY <2>8, <2>9 DEF IndInv
<1>25. CASE StopTimesOut
  <2>8. TypeOK'
    BY <1>0, <1>25, TypeKept DEF StopTimesOut, TypeOK
  <2>9. InFlightIsExact' /\ LoopShape'
    BY <1>0, <1>25
    DEF StopTimesOut, InFlightIsExact, LoopShape, InTurn, GivingUp, turnVars, loopVars
  <2> QED BY <2>8, <2>9 DEF IndInv
<1>26. CASE StopResumes
  <2>2. /\ pc' \in PCs /\ (pc' = pc \/ (pc = "parked" /\ pc' = "next"))
        /\ queue' \in Seq(Entries) /\ closed' \in BOOLEAN /\ graceful' \in BOOLEAN
        /\ stopper' \in {"waiting", "draining", "closing", "refusing"}
        /\ boot' \in [Messages -> Answers]
    <3>1. CASE status = "failed"
      BY <1>0, <1>26, <3>1 DEF StopResumes, TypeOK, StopType, StopType
    <3>2. CASE status # "failed"
      <4>1. CloseQueue(queue, waitResult = "idle")
        BY <1>26, <3>2 DEF StopResumes
      <4>2. queue \in Seq(Entries)
        BY <1>0 DEF TypeOK, StopType
      <4> QED BY <1>0, <4>1, <4>2, CloseQueueType
    <3> QED BY <3>1, <3>2
  <2>8. TypeOK'
    <3>1. StopType'
      BY <1>0, <1>26, TypeKept, <2>2 DEF StopResumes, TypeOK, StopType
    <3> QED BY <1>0, <1>26, TypeKept, <2>2, <3>1 DEF StopResumes, TypeOK
  <2>9. InFlightIsExact' /\ LoopShape'
    BY <1>0, <1>26, <2>2
    DEF StopResumes, InFlightIsExact, LoopShape, InTurn, GivingUp, turnVars, loopVars
  <2> QED BY <2>8, <2>9 DEF IndInv
<1>27. CASE StopDrained
  <2>1. queue' \in Seq(Entries)
    BY <1>0, <1>27, EmptyQueue DEF StopDrained, TypeOK, StopType
  <2>8. TypeOK'
    <3>1. StopType'
      BY <1>0, <1>27, TypeKept, <2>1, DroppedType DEF StopDrained, TypeOK, StopType
    <3> QED BY <1>0, <1>27, TypeKept, <2>1, DroppedType, <3>1 DEF StopDrained, TypeOK
  <2>9. InFlightIsExact' /\ LoopShape'
    BY <1>0, <1>27
    DEF StopDrained, InFlightIsExact, LoopShape, InTurn, GivingUp, turnVars, loopVars
  <2> QED BY <2>8, <2>9 DEF IndInv
<1>28. CASE StopCloses
  <2>8. TypeOK'
    <3>1. StopType'
      BY <1>0, <1>28, TypeKept DEF StopCloses, TypeOK, StopType
    <3> QED BY <1>0, <1>28, TypeKept, <3>1 DEF StopCloses, TypeOK
  <2>9. InFlightIsExact' /\ LoopShape'
    BY <1>0, <1>28
    DEF StopCloses, InFlightIsExact, LoopShape, InTurn, GivingUp, turnVars, loopVars
  <2> QED BY <2>8, <2>9 DEF IndInv
<1>29. CASE UNCHANGED vars
  <2>8. TypeOK'
    BY <1>0, <1>29, TypeKept DEF vars, TypeOK
  <2>9. InFlightIsExact' /\ LoopShape'
    BY <1>0, <1>29
    DEF vars, InFlightIsExact, LoopShape, InTurn, GivingUp, turnVars, loopVars
  <2> QED BY <2>8, <2>9 DEF IndInv
<1> QED BY <1>1, <1>2, <1>3, <1>4, <1>5, <1>6, <1>7, <1>8, <1>9, <1>10, <1>11, <1>12, <1>13,
   <1>14, <1>15, <1>16, <1>17, <1>18, <1>19, <1>20, <1>21, <1>22, <1>23, <1>24, <1>25,
   <1>26, <1>27, <1>28, <1>29, <1>0
      DEF Next, Loop, Stopper, Socket, Held


\* Every variable keeps its type, inFlight its range included: the counters of
\* the room never drift out of 0..2 (runOnce and catchUp, Execution.ts:353-386).
THEOREM TypeCorrect == Spec => []TypeOK
<1>1. IndInv /\ [Next]_vars => IndInv'
  BY NextIndInv
<1>2. IndInv => TypeOK
  BY DEF IndInv
<1> QED BY InitIndInv, <1>1, <1>2, PTL DEF Spec

\* inFlight is exactly the running turn plus the catch-up around it, whatever
\* failed, closed or returned early in between (Execution.ts:353-386, 519-556).
THEOREM InFlightCorrect == Spec => []InFlightIsExact
<1>1. IndInv /\ [Next]_vars => IndInv'
  BY NextIndInv
<1>2. IndInv => InFlightIsExact
  BY DEF IndInv
<1> QED BY InitIndInv, <1>1, <1>2, PTL DEF Spec

----------------------------------------------------------------------------
(* A closed room is silent.                                                *)

\* No step of a closed room runs the adapter or lets a turn write its verdict.
LEMMA ClosedStep ==
  ASSUME [Next]_vars, closed
  PROVE  runs' = runs /\ (pc = "agent" => pc' # "settle")
<1>0. [Next]_vars /\ closed /\ ~Active
  BY DEF Active
<1>1. ASSUME NEW m \in Messages, Post(m) PROVE runs' = runs /\ (pc = "agent" => pc' # "settle")
  BY <1>0, <1>1 DEF Post
<1>2. ASSUME NEW m \in Messages, Deliver(m) PROVE runs' = runs /\ (pc = "agent" => pc' # "settle")
  BY <1>0, <1>2 DEF Deliver, Push, Woken
<1>3. CASE Reconnect
  BY <1>0, <1>3 DEF Reconnect, Push, Woken
<1>4. ASSUME NEW m \in Messages, BootstrapMessage(m) PROVE runs' = runs /\ (pc = "agent" => pc' # "settle")
  BY <1>0, <1>4 DEF BootstrapMessage, Push, Woken
<1>5. ASSUME NEW m \in Messages, HoldEnds(m) PROVE runs' = runs /\ (pc = "agent" => pc' # "settle")
  BY <1>0, <1>5 DEF HoldEnds, Woken
<1>6. CASE AskChanges
  BY <1>0, <1>6 DEF AskChanges
<1>7. CASE Hydrated
  BY <1>0, <1>7 DEF Hydrated
<1>8. CASE TurnClaimed
  BY <1>0, <1>8 DEF TurnClaimed
<1>9. CASE AgentReturns
  BY <1>0, <1>9 DEF AgentReturns
<1>10. CASE TurnSettled
  BY <1>0, <1>10 DEF TurnSettled
<1>11. CASE SyncTurnReturns
  BY <1>0, <1>11 DEF SyncTurnReturns
<1>12. CASE GiveUpClaimed
  BY <1>0, <1>12 DEF GiveUpClaimed
<1>13. CASE GiveUpMarked
  BY <1>0, <1>13 DEF GiveUpMarked
<1>14. CASE StaleFetched
  BY <1>0, <1>14 DEF StaleFetched
<1>15. CASE RecoverStale
  BY <1>0, <1>15 DEF RecoverStale
<1>16. CASE SynchronizeWithNext
  BY <1>0, <1>16 DEF SynchronizeWithNext
<1>17. CASE NextRead
  BY <1>0, <1>17 DEF NextRead
<1>18. CASE NextReadFails
  BY <1>0, <1>18 DEF NextReadFails
<1>19. CASE NextQueuedEvent
  BY <1>0, <1>19 DEF NextQueuedEvent
<1>20. CASE Dispatch
  BY <1>0, <1>20 DEF Dispatch
<1>21. CASE LiveTurnReturns
  BY <1>0, <1>21 DEF LiveTurnReturns
<1>22. CASE RoomFails
  BY <1>0, <1>22 DEF RoomFails
<1>23. CASE LoopCrashes
  BY <1>0, <1>23 DEF LoopCrashes
<1>24. ASSUME NEW b \in StopBudgets, Stop(b) PROVE runs' = runs /\ (pc = "agent" => pc' # "settle")
  BY <1>0, <1>24 DEF Stop, CloseQueue, Woken
<1>25. CASE StopTimesOut
  BY <1>0, <1>25 DEF StopTimesOut
<1>26. CASE StopResumes
  BY <1>0, <1>26 DEF StopResumes, CloseQueue, Woken
<1>27. CASE StopDrained
  BY <1>0, <1>27 DEF StopDrained
<1>28. CASE StopCloses
  BY <1>0, <1>28 DEF StopCloses
<1>29. CASE UNCHANGED vars
  BY <1>0, <1>29 DEF vars
<1> QED BY <1>0, <1>1, <1>2, <1>3, <1>4, <1>5, <1>6, <1>7, <1>8, <1>9, <1>10, <1>11,
   <1>12, <1>13, <1>14, <1>15, <1>16, <1>17, <1>18, <1>19, <1>20, <1>21, <1>22, <1>23,
   <1>24, <1>25, <1>26, <1>27, <1>28, <1>29
      DEF Next, Loop, Stopper, Socket, Held

\* Once the queue is closed, by a stop or by a failure, no turn enters the
\* adapter and no turn marks its message (the isActive checks of executeAdapter).
THEOREM RetiredRoomStaysSilent == Spec => RetiredRoomIsSilent
<1>1. [Next]_vars => [closed => runs' = runs /\ (pc = "agent" => pc' # "settle")]_vars
  BY ClosedStep
<1> QED BY <1>1, PTL DEF Spec, RetiredRoomIsSilent

----------------------------------------------------------------------------
(* Each message runs at most once, if nothing is forgotten.                *)

\* Every recorded message has its own number up to seenCount, a message that
\* ran was recorded, and a turn on its way to the adapter is its message's first.
Recorded == {m \in Messages : seenAt[m] > 0}
OnceInv ==
  /\ seenCount <= Cardinality(Recorded)
  /\ \A m \in Messages : seenAt[m] <= seenCount
  /\ \A m \in Messages : runs[m] <= 1 /\ (runs[m] > 0 => seenAt[m] > 0)
  /\ pc \in {"hydrate", "claim"} => runs[cur] = 0 /\ seenAt[cur] > 0

LEMMA RecordedFinite ==
  ASSUME TypeOK
  PROVE  IsFiniteSet(Recorded) /\ Cardinality(Recorded) <= NumMessages
<1>1. IsFiniteSet(Messages) /\ Cardinality(Messages) = NumMessages
  BY RoomAssumption, FS_Interval DEF Messages
<1> QED BY <1>1, FS_Subset DEF Recorded

\* What was recorded is remembered while the window spans the room's messages.
LEMMA RecordedIsRemembered ==
  ASSUME SeenWindow >= NumMessages, TypeOK, OnceInv, NEW m \in Messages
  PROVE  HasMessage(m) <=> seenAt[m] > 0
<1>1. seenCount <= NumMessages /\ seenCount \in Nat /\ seenAt[m] \in Nat
  <2>1. Cardinality(Recorded) \in Nat /\ Cardinality(Recorded) <= NumMessages
    BY RecordedFinite, FS_CardinalityType
  <2> QED BY <2>1, RoomAssumption DEF OnceInv, TypeOK, ContextType
<1> QED BY <1>1, RoomAssumption DEF HasMessage

\* Beginning a turn records a message for the first time or runs nothing.
LEMMA BeginTurnOnce ==
  ASSUME SeenWindow >= NumMessages, TypeOK, OnceInv, runs' = runs,
         NEW m \in Messages, NEW why, NEW through, BeginTurn(m, why, through)
  PROVE  OnceInv'
<1>1. CASE ~Active \/ m \in Echoes \/ HasMessage(m)
  <2>1. UNCHANGED <<seenAt, seenCount>> /\ pc' = "return"
    BY <1>1 DEF BeginTurn
  <2>2. Recorded' = Recorded
    BY <2>1 DEF Recorded
  <2> QED BY <2>1, <2>2 DEF OnceInv
<1>2. CASE ~(~Active \/ m \in Echoes \/ HasMessage(m))
  <2>1. /\ seenCount' = seenCount + 1 /\ seenAt' = [seenAt EXCEPT ![m] = seenCount + 1]
        /\ cur' = m /\ seenCount \in Nat /\ seenAt \in [Messages -> Nat]
    BY <1>2 DEF BeginTurn, TypeOK, ContextType
  <2>2. m \notin Recorded /\ runs[m] = 0
    <3>1. ~(seenAt[m] > 0)
      BY <1>2, RecordedIsRemembered
    <3>2. runs[m] \in Nat
      BY DEF TypeOK
    <3> QED BY <3>1, <3>2 DEF Recorded, OnceInv
  <2>3. Recorded' = Recorded \cup {m}
    BY <2>1 DEF Recorded
  <2>4. Cardinality(Recorded') = Cardinality(Recorded) + 1 /\ Cardinality(Recorded) \in Nat
    BY <2>2, <2>3, RecordedFinite, FS_AddElement, FS_CardinalityType
  <2>5. seenCount' <= Cardinality(Recorded')
    BY <2>1, <2>4 DEF OnceInv
  <2>6. \A k \in Messages : seenAt'[k] <= seenCount' /\ (seenAt[k] > 0 => seenAt'[k] > 0)
    BY <2>1 DEF OnceInv
  <2>7. runs'[cur'] = 0 /\ seenAt'[cur'] > 0
    BY <2>1, <2>2
  <2> QED BY <2>5, <2>6, <2>7 DEF OnceInv
<1> QED BY <1>1, <1>2

LEMMA BeginSyncOnce ==
  ASSUME SeenWindow >= NumMessages, TypeOK, OnceInv, runs' = runs,
         NEW m \in Messages, NEW why, NEW through, BeginSync(m, why, through)
  PROVE  OnceInv'
<1>1. CASE m \in givenUp \/ attempts[m] + 1 > MaxRetries
  <2>1. UNCHANGED <<seenAt, seenCount>> /\ pc' = "giveUpClaim"
    BY <1>1 DEF BeginSync
  <2>2. Recorded' = Recorded
    BY <2>1 DEF Recorded
  <2> QED BY <2>1, <2>2 DEF OnceInv
<1>2. CASE ~(m \in givenUp \/ attempts[m] + 1 > MaxRetries)
  BY <1>2, BeginTurnOnce DEF BeginSync
<1> QED BY <1>1, <1>2

\* Steps that record nothing, run nothing and begin no turn.
LEMMA OnceKept ==
  ASSUME OnceInv, UNCHANGED <<seenAt, seenCount, runs>>,
         pc' \in {"hydrate", "claim"} => pc \in {"hydrate", "claim"} /\ cur' = cur
  PROVE  OnceInv'
<1>1. Recorded' = Recorded
  BY DEF Recorded
<1> QED BY <1>1 DEF OnceInv

LEMMA NextOnce ==
  ASSUME SeenWindow >= NumMessages, IndInv, OnceInv, [Next]_vars
  PROVE  OnceInv'
<1>0. TypeOK /\ LoopShape /\ OnceInv
  BY DEF IndInv
<1>1. ASSUME NEW m \in Messages, Post(m) PROVE OnceInv'
  BY <1>0, <1>1, OnceKept DEF Post, contextVars, turnVars
<1>2. ASSUME NEW m \in Messages, Deliver(m) PROVE OnceInv'
  BY <1>0, <1>2, OnceKept DEF Deliver, contextVars, turnVars, Push, Woken
<1>3. CASE Reconnect
  BY <1>0, <1>3, OnceKept DEF Reconnect, contextVars, turnVars, Push, Woken
<1>4. ASSUME NEW m \in Messages, BootstrapMessage(m) PROVE OnceInv'
  BY <1>0, <1>4, OnceKept DEF BootstrapMessage, contextVars, turnVars, Push, Woken
<1>5. ASSUME NEW m \in Messages, HoldEnds(m) PROVE OnceInv'
  BY <1>0, <1>5, OnceKept DEF HoldEnds, contextVars, turnVars, Woken
<1>6. CASE AskChanges
  BY <1>0, <1>6, OnceKept DEF AskChanges, contextVars, turnVars
<1>7. CASE Hydrated
  BY <1>0, <1>7, OnceKept DEF Hydrated, contextVars, turnVars
<1>8. CASE TurnClaimed
  <2>1. CASE Active
    <3>1. /\ UNCHANGED <<seenAt, seenCount>> /\ pc = "claim" /\ pc' = "agent"
          /\ runs' = [runs EXCEPT ![cur] = runs[cur] + 1]
      BY <1>8, <2>1 DEF TurnClaimed, contextVars
    <3>2. runs \in [Messages -> Nat] /\ cur \in Messages /\ runs[cur] = 0 /\ seenAt[cur] > 0
      BY <1>0, <3>1 DEF TypeOK, LoopShape, InTurn, OnceInv
    <3>3. Recorded' = Recorded
      BY <3>1 DEF Recorded
    <3>4. \A m \in Messages : runs'[m] <= 1 /\ (runs'[m] > 0 => seenAt[m] > 0)
      BY <1>0, <3>1, <3>2 DEF OnceInv
    <3> QED BY <1>0, <3>1, <3>3, <3>4 DEF OnceInv
  <2>2. CASE ~Active
    BY <1>0, <1>8, <2>2, OnceKept DEF TurnClaimed, contextVars
  <2> QED BY <2>1, <2>2
<1>9. CASE AgentReturns
  BY <1>0, <1>9, OnceKept DEF AgentReturns, contextVars, turnVars
<1>10. CASE TurnSettled
  BY <1>0, <1>10, OnceKept DEF TurnSettled, contextVars, turnVars
<1>11. CASE SyncTurnReturns
  BY <1>0, <1>11, OnceKept
  DEF SyncTurnReturns, AfterMessage, EndScan, TypeOK, TurnType, LoopShape, InTurn,
        Origins
<1>12. CASE GiveUpClaimed
  BY <1>0, <1>12, OnceKept
  DEF GiveUpClaimed, contextVars, turnVars, AfterMessage, EndScan, LoopShape, GivingUp,
        Origins
<1>13. CASE GiveUpMarked
  BY <1>0, <1>13, OnceKept
  DEF GiveUpMarked, contextVars, AfterMessage, EndScan, LoopShape, GivingUp, Origins
<1>14. CASE StaleFetched
  BY <1>0, <1>14, OnceKept DEF StaleFetched, contextVars, turnVars
<1>15. CASE RecoverStale
  <2> DEFINE left == staleLeft \ givenUp
  <2>1. CASE ~Active \/ hold # None \/ left = {}
    BY <1>0, <1>15, <2>1, OnceKept DEF RecoverStale, contextVars, turnVars
  <2>2. CASE ~(~Active \/ hold # None \/ left = {})
    <3>1. Oldest(left) \in Messages
      BY <1>0, <2>2, MessagesAreNaturals, OldestProperties DEF TypeOK, LoopType
    <3>2. BeginSync(Oldest(left), "stale", "unseen") /\ runs' = runs
      BY <1>15, <2>2 DEF RecoverStale
    <3> QED BY <1>0, <3>1, <3>2, BeginSyncOnce
  <2> QED BY <2>1, <2>2
<1>16. CASE SynchronizeWithNext
  BY <1>0, <1>16, OnceKept DEF SynchronizeWithNext, contextVars, turnVars, EndScan
<1>17. CASE NextRead
  <2> DEFINE m == Oldest(Unprocessed)
  <2>1. CASE ScanOver \/ m \in executed
    BY <1>0, <1>17, <2>1, OnceKept DEF NextRead, EndScan, contextVars, turnVars
  <2>2. CASE ~(ScanOver \/ m \in executed)
    <3>1. m \in Messages
      <4>1. Unprocessed \in SUBSET Nat /\ Unprocessed \subseteq Messages
        BY MessagesAreNaturals DEF Unprocessed, Born
      <4> QED BY <2>2, <4>1, OldestProperties DEF ScanOver
    <3>2. BeginSync(m, "sync", "unseen") /\ runs' = runs
      BY <1>17, <2>2 DEF NextRead
    <3> QED BY <1>0, <3>1, <3>2, BeginSyncOnce
  <2> QED BY <2>1, <2>2
<1>18. CASE NextReadFails
  BY <1>0, <1>18, OnceKept DEF NextReadFails, contextVars, turnVars
<1>19. CASE NextQueuedEvent
  BY <1>0, <1>19, OnceKept DEF NextQueuedEvent, contextVars, turnVars
<1>20. CASE Dispatch
  <2>1. CASE SkipExecuted \/ CatchUp
    BY <1>0, <1>20, <2>1, OnceKept DEF Dispatch, SkipExecuted, CatchUp, contextVars, turnVars
  <2>2. CASE DispatchMessage
    <3>1. taken.id \in Messages
      BY <1>0, <1>20, <2>2 DEF Dispatch, DispatchMessage, LoopShape, Entries
    <3>2. \/ BeginSync(taken.id, "bootstrap", Through)
          \/ BeginTurn(taken.id, "live", Through)
      BY <2>2 DEF DispatchMessage
    <3>3. runs' = runs
      BY <1>20 DEF Dispatch
    <3> QED BY <1>0, <3>1, <3>2, <3>3, BeginSyncOnce, BeginTurnOnce
  <2> QED BY <1>20, <2>1, <2>2 DEF Dispatch
<1>21. CASE LiveTurnReturns
  BY <1>0, <1>21, OnceKept DEF LiveTurnReturns, contextVars
<1>22. CASE RoomFails
  BY <1>0, <1>22, OnceKept DEF RoomFails, contextVars, turnVars
<1>23. CASE LoopCrashes
  BY <1>0, <1>23, OnceKept DEF LoopCrashes, contextVars, turnVars
<1>24. ASSUME NEW b \in StopBudgets, Stop(b) PROVE OnceInv'
  BY <1>0, <1>24, OnceKept DEF Stop, contextVars, turnVars, CloseQueue, Woken
<1>25. CASE StopTimesOut
  BY <1>0, <1>25, OnceKept DEF StopTimesOut, contextVars, turnVars
<1>26. CASE StopResumes
  BY <1>0, <1>26, OnceKept DEF StopResumes, contextVars, turnVars, CloseQueue, Woken
<1>27. CASE StopDrained
  BY <1>0, <1>27, OnceKept DEF StopDrained, contextVars, turnVars
<1>28. CASE StopCloses
  BY <1>0, <1>28, OnceKept DEF StopCloses, contextVars, turnVars
<1>29. CASE UNCHANGED vars
  BY <1>0, <1>29, OnceKept DEF vars, contextVars, turnVars
<1> QED BY <1>0, <1>1, <1>2, <1>3, <1>4, <1>5, <1>6, <1>7, <1>8, <1>9, <1>10, <1>11,
   <1>12, <1>13, <1>14, <1>15, <1>16, <1>17, <1>18, <1>19, <1>20, <1>21, <1>22, <1>23,
   <1>24, <1>25, <1>26, <1>27, <1>28, <1>29
      DEF Next, Loop, Stopper, Socket, Held

\* The code remembers a bounded number of recorded messages, so the guarantee
\* needs the assumption: a message runs once per process (Execution.ts:448)
\* as long as the room has no more messages than ExecutionContext remembers.
THEOREM MessagesRunOnce ==
  ASSUME SeenWindow >= NumMessages
  PROVE  Spec => []RunsOnce
<1>1. Init => OnceInv
  <2> SUFFICES ASSUME Init PROVE OnceInv
    OBVIOUS
  <2>1. \A m \in Messages : seenAt[m] = 0
    BY DEF Init
  <2>2. Recorded = {}
    BY <2>1 DEF Recorded
  <2>3. Cardinality(Recorded) = 0
    BY <2>2, FS_EmptySet
  <2> QED BY <2>1, <2>3 DEF Init, OnceInv
<1>2. IndInv /\ OnceInv /\ [Next]_vars => IndInv' /\ OnceInv'
  BY NextIndInv, NextOnce
<1>3. OnceInv => RunsOnce
  BY DEF OnceInv, RunsOnce
<1> QED BY InitIndInv, <1>1, <1>2, <1>3, PTL DEF Spec

----------------------------------------------------------------------------
(* Holds.                                                                  *)

\* The held turn is the hold, and while it lasts the loop is on its way to the
\* adapter only with a message the hold let through.
HoldInv ==
  /\ HoldTracksHeldTurn
  /\ pc \in {"hydrate", "claim", "agent"} /\ hold # None => control = "yes"
  /\ pc = "read" => hold = None
  /\ pc = "dispatch" /\ taken.kind # "reconnected" /\ hold # None => taken.control = "yes"

\* Steps that keep the hold and begin no turn.
LEMMA HoldKept ==
  ASSUME HoldInv, UNCHANGED <<hold, heldTurns>>,
         pc' \in {"hydrate", "claim", "agent"} =>
            pc \in {"hydrate", "claim", "agent"} /\ control' = control,
         pc' = "read" => pc = "read",
         pc' = "dispatch" => pc = "dispatch" /\ taken' = taken
  PROVE  HoldInv'
BY DEF HoldInv, HoldTracksHeldTurn

\* Beginning a turn with no hold, or with a pass through it.
LEMMA HoldKeptByTurn ==
  ASSUME HoldInv, UNCHANGED <<hold, heldTurns>>,
         pc' \notin {"read", "dispatch"}, hold # None => control' = "yes"
  PROVE  HoldInv'
BY DEF HoldInv, HoldTracksHeldTurn

\* Only an event the hold lets through is taken from the queue.
LEMMA SightedRunnable ==
  ASSUME queue \in Seq(Entries), hold # None, Runnable(queue, hold) # {}
  PROVE  LET e == Sighted(queue, hold)[Oldest(Runnable(queue, hold))]
         IN  e.kind # "reconnected" => e.control = "yes"
<1> DEFINE i == Oldest(Runnable(queue, hold))
           e == Sighted(queue, hold)[i]
<1>1. DOMAIN queue = 1..Len(queue) /\ Len(queue) \in Nat
  BY LenProperties
<1>2. i \in Runnable(queue, hold) /\ \A j \in Runnable(queue, hold) : i <= j
  <2>1. Runnable(queue, hold) \in SUBSET Nat
    BY <1>1 DEF Runnable
  <2> QED BY <2>1, OldestProperties
<1>3. i \in 1..Len(queue) /\ MayRun(queue[i], hold) /\ queue[i] \in Entries
  BY <1>1, <1>2, ElementOfSeq DEF Runnable
<1>4. CASE queue[i].kind = "reconnected"
  <2>1. e = queue[i]
    BY <1>1, <1>3, <1>4 DEF Sighted
  <2> QED BY <1>4, <2>1
<1>5. CASE queue[i].kind # "reconnected"
  <2>1. e = [queue[i] EXCEPT !.control = ControlOf(queue[i])]
    BY <1>1, <1>2, <1>3, <1>5 DEF Sighted
  <2>2. ControlOf(queue[i]) = "yes"
    BY <1>3, <1>5 DEF MayRun
  <2>3. queue[i] = [kind |-> queue[i].kind, id |-> queue[i].id, boundary |-> queue[i].boundary,
                    control |-> queue[i].control, afterHold |-> queue[i].afterHold]
    BY <1>3 DEF Entries
  <2> QED BY <2>1, <2>2, <2>3
<1> QED BY <1>4, <1>5

LEMMA NextHold ==
  ASSUME IndInv, HoldInv, [Next]_vars
  PROVE  HoldInv'
<1>0. TypeOK /\ LoopShape /\ HoldInv
  BY DEF IndInv
<1>1. ASSUME NEW m \in Messages, Post(m) PROVE HoldInv'
  BY <1>0, <1>1, HoldKept DEF Post, holdVars, turnVars, loopVars
<1>2. ASSUME NEW m \in Messages, Deliver(m) PROVE HoldInv'
  BY <1>0, <1>2, HoldKept DEF Deliver, holdVars, turnVars, loopVars, Push, Woken
<1>3. CASE Reconnect
  BY <1>0, <1>3, HoldKept DEF Reconnect, holdVars, turnVars, loopVars, Push, Woken
<1>4. ASSUME NEW m \in Messages, BootstrapMessage(m) PROVE HoldInv'
  BY <1>0, <1>4, HoldKept DEF BootstrapMessage, holdVars, turnVars, loopVars, Push, Woken
<1>5. ASSUME NEW m \in Messages, HoldEnds(m) PROVE HoldInv'
  <2>1. CASE hold = m
    BY <1>0, <1>5, <2>1 DEF HoldEnds, HoldInv, HoldTracksHeldTurn, None, Woken, turnVars, loopVars
  <2>2. CASE hold # m
    <3>1. heldTurns = IF hold = None THEN {} ELSE {hold}
      BY <1>0 DEF HoldInv, HoldTracksHeldTurn
    <3> QED BY <1>5, <2>2, <3>1 DEF HoldEnds
  <2> QED BY <2>1, <2>2
<1>6. CASE AskChanges
  BY <1>0, <1>6, HoldKept DEF AskChanges, holdVars, turnVars, loopVars
<1>7. CASE Hydrated
  BY <1>0, <1>7, HoldKept DEF Hydrated, holdVars, turnVars, loopVars
<1>8. CASE TurnClaimed
  BY <1>0, <1>8, HoldKept DEF TurnClaimed, holdVars, turnVars, loopVars
<1>9. CASE AgentReturns
  <2>1. CASE UNCHANGED <<hold, heldTurns>>
    BY <1>0, <1>9, <2>1, HoldKept DEF AgentReturns
  <2>2. CASE hold' = cur /\ heldTurns' = heldTurns \cup {cur} /\ (control # "yes" \/ heldTurns = {})
    <3>1. hold = None /\ heldTurns = {}
      BY <1>0, <1>9, <2>2 DEF AgentReturns, HoldInv, HoldTracksHeldTurn
    <3>2. cur # None /\ pc' \in {"settle", "return"}
      BY <1>0, <1>9, MessagesAreNaturals DEF AgentReturns, LoopShape, InTurn
    <3> QED BY <2>2, <3>1, <3>2 DEF HoldInv, HoldTracksHeldTurn
  <2> QED BY <1>9, <2>1, <2>2 DEF AgentReturns
<1>10. CASE TurnSettled
  BY <1>0, <1>10, HoldKept DEF TurnSettled, holdVars, turnVars, loopVars
<1>11. CASE SyncTurnReturns
  BY <1>0, <1>11, HoldKept
  DEF SyncTurnReturns, holdVars, AfterMessage, EndScan, TypeOK, TurnType, LoopShape,
        InTurn, Origins
<1>12. CASE GiveUpClaimed
  BY <1>0, <1>12, HoldKept
  DEF GiveUpClaimed, holdVars, loopVars, turnVars, AfterMessage, EndScan, LoopShape,
        GivingUp, Origins
<1>13. CASE GiveUpMarked
  BY <1>0, <1>13, HoldKept
  DEF GiveUpMarked, holdVars, AfterMessage, EndScan, LoopShape, GivingUp, Origins
<1>14. CASE StaleFetched
  BY <1>0, <1>14, HoldKept DEF StaleFetched, holdVars, turnVars, loopVars
<1>15. CASE RecoverStale
  <2>1. CASE pc' = "sync"
    BY <1>0, <1>15, <2>1, HoldKept DEF RecoverStale, holdVars
  <2>2. CASE pc' # "sync"
    <3>1. hold = None /\ UNCHANGED <<hold, heldTurns>>
      BY <1>15, <2>2 DEF RecoverStale, holdVars
    <3>2. pc' \notin {"read", "dispatch"}
      BY <1>15, <2>2 DEF RecoverStale, BeginSync, BeginTurn
    <3> QED BY <1>0, <3>1, <3>2, HoldKeptByTurn
  <2> QED BY <2>1, <2>2
<1>16. CASE SynchronizeWithNext
  <2>1. CASE pc' = "read"
    <3>1. hold = None
      BY <1>16, <2>1 DEF SynchronizeWithNext, EndScan
    <3> QED BY <1>0, <1>16, <2>1, <3>1
          DEF SynchronizeWithNext, HoldInv, HoldTracksHeldTurn, holdVars
  <2>2. CASE pc' # "read"
    BY <1>0, <1>16, <2>2, HoldKept DEF SynchronizeWithNext, EndScan, holdVars
  <2> QED BY <2>1, <2>2
<1>17. CASE NextRead
  <2>1. hold = None /\ UNCHANGED <<hold, heldTurns>>
    BY <1>0, <1>17 DEF NextRead, HoldInv, holdVars
  <2>2. pc' \notin {"read", "dispatch"}
    BY <1>17 DEF NextRead, EndScan, BeginSync, BeginTurn
  <2> QED BY <1>0, <2>1, <2>2, HoldKeptByTurn
<1>18. CASE NextReadFails
  BY <1>0, <1>18, HoldKept DEF NextReadFails, holdVars, turnVars
<1>19. CASE NextQueuedEvent
  <2>1. CASE pc' = "dispatch" /\ hold # None
    <3>1. /\ Runnable(queue, hold) # {} /\ UNCHANGED <<hold, heldTurns>>
          /\ taken' = Sighted(queue, hold)[Oldest(Runnable(queue, hold))]
      BY <1>19, <2>1 DEF NextQueuedEvent, holdVars
    <3>2. taken'.kind # "reconnected" => taken'.control = "yes"
      BY <1>0, <2>1, <3>1, SightedRunnable DEF TypeOK
    <3> QED BY <1>0, <2>1, <3>1, <3>2 DEF HoldInv, HoldTracksHeldTurn
  <2>2. CASE ~(pc' = "dispatch" /\ hold # None)
    <3>1. UNCHANGED <<hold, heldTurns>> /\ pc' \in {"done", "parked", "dispatch"}
      BY <1>19 DEF NextQueuedEvent, holdVars
    <3> QED BY <1>0, <2>2, <3>1 DEF HoldInv, HoldTracksHeldTurn
  <2> QED BY <2>1, <2>2
<1>20. CASE Dispatch
  <2>1. CASE SkipExecuted \/ CatchUp
    BY <1>0, <1>20, <2>1, HoldKept DEF Dispatch, SkipExecuted, CatchUp, holdVars
  <2>2. CASE DispatchMessage
    <3>1. UNCHANGED <<hold, heldTurns>> /\ (hold # None => taken.control = "yes")
      BY <1>0, <1>20, <2>2 DEF Dispatch, DispatchMessage, HoldInv, holdVars
    <3>2. control' = Through /\ pc' \notin {"read", "dispatch"}
      BY <2>2 DEF DispatchMessage, BeginSync, BeginTurn
    <3> QED BY <1>0, <3>1, <3>2, HoldKeptByTurn DEF Through
  <2> QED BY <1>20, <2>1, <2>2 DEF Dispatch
<1>21. CASE LiveTurnReturns
  BY <1>0, <1>21, HoldKept DEF LiveTurnReturns, holdVars, loopVars
<1>22. CASE RoomFails
  BY <1>0, <1>22, HoldKept DEF RoomFails, holdVars, turnVars, loopVars
<1>23. CASE LoopCrashes
  BY <1>0, <1>23, HoldKept DEF LoopCrashes, holdVars, turnVars, loopVars
<1>24. ASSUME NEW b \in StopBudgets, Stop(b) PROVE HoldInv'
  BY <1>0, <1>24, HoldKept DEF Stop, holdVars, turnVars, loopVars, CloseQueue, Woken
<1>25. CASE StopTimesOut
  BY <1>0, <1>25, HoldKept DEF StopTimesOut, holdVars, turnVars, loopVars
<1>26. CASE StopResumes
  BY <1>0, <1>26, HoldKept
  DEF StopResumes, holdVars, turnVars, loopVars, CloseQueue, Woken
<1>27. CASE StopDrained
  BY <1>0, <1>27, HoldKept DEF StopDrained, holdVars, turnVars, loopVars
<1>28. CASE StopCloses
  BY <1>0, <1>28, HoldKept DEF StopCloses, holdVars, turnVars, loopVars
<1>29. CASE UNCHANGED vars
  BY <1>0, <1>29, HoldKept DEF vars, holdVars, turnVars, loopVars
<1> QED BY <1>0, <1>1, <1>2, <1>3, <1>4, <1>5, <1>6, <1>7, <1>8, <1>9, <1>10, <1>11,
   <1>12, <1>13, <1>14, <1>15, <1>16, <1>17, <1>18, <1>19, <1>20, <1>21, <1>22, <1>23,
   <1>24, <1>25, <1>26, <1>27, <1>28, <1>29
      DEF Next, Loop, Stopper, Socket, Held

LEMMA HoldCorrect == Spec => []HoldInv
<1>1. Init => HoldInv
  BY DEF Init, HoldInv, HoldTracksHeldTurn
<1>2. IndInv /\ HoldInv /\ [Next]_vars => IndInv' /\ HoldInv'
  BY NextIndInv, NextHold
<1> QED BY InitIndInv, <1>1, <1>2, PTL DEF Spec

\* At most one turn outlives its handler, and the hold is that turn
\* (holdRoomUntil, Execution.ts:319-329).
THEOREM HoldTracksItsTurn == Spec => []HoldTracksHeldTurn
<1>1. HoldInv => HoldTracksHeldTurn
  BY DEF HoldInv
<1> QED BY HoldCorrect, <1>1, PTL

\* While a held turn runs, only messages let through it reach the adapter
\* (mayRun, Execution.ts:332-346, and the scan's deferral, 353-369, 426-470).
THEOREM HoldsAreExclusive == Spec => []HoldIsExclusive
<1>1. HoldInv => HoldIsExclusive
  BY DEF HoldInv, HoldTracksHeldTurn, HoldIsExclusive
<1> QED BY HoldCorrect, <1>1, PTL

----------------------------------------------------------------------------
(* Graceful stops.                                                         *)

\* A stop that promises a drained loop has closed the queue, and closes its
\* books only over a loop that ended by itself.
DrainInv ==
  /\ stopper \in {"none", "waiting", "refusing"} => ~graceful
  /\ stopper = "draining" => closed
  /\ stopper \in {"closing", "returned"} /\ graceful => closed /\ pc = "done" /\ queue = <<>>

\* Steps of others than stop(): a loop that is done stays done over an empty queue.
LEMMA DrainKept ==
  ASSUME DrainInv, UNCHANGED <<stopper, graceful>>, closed => closed',
         closed /\ pc = "done" /\ queue = <<>> => pc' = "done" /\ queue' = <<>>
  PROVE  DrainInv'
BY DEF DrainInv

LEMMA NextDrain ==
  ASSUME IndInv, DrainInv, [Next]_vars
  PROVE  DrainInv'
<1>0. TypeOK /\ LoopShape /\ DrainInv
  BY DEF IndInv
<1>1. ASSUME NEW m \in Messages, Post(m) PROVE DrainInv'
  BY <1>0, <1>1, DrainKept DEF Post, stopVars
<1>2. ASSUME NEW m \in Messages, Deliver(m) PROVE DrainInv'
  BY <1>0, <1>2, DrainKept DEF Deliver, stopVars, Push, Ended
<1>3. CASE Reconnect
  BY <1>0, <1>3, DrainKept DEF Reconnect, stopVars, Push, Ended
<1>4. ASSUME NEW m \in Messages, BootstrapMessage(m) PROVE DrainInv'
  BY <1>0, <1>4, DrainKept DEF BootstrapMessage, stopVars, Push, Ended
<1>5. ASSUME NEW m \in Messages, HoldEnds(m) PROVE DrainInv'
  BY <1>0, <1>5, DrainKept
  DEF HoldEnds, stopVars, NotifyIfIdle, IdleSighted, Sighted, Woken
<1>6. CASE AskChanges
  BY <1>0, <1>6, DrainKept DEF AskChanges, stopVars
<1>7. CASE Hydrated
  BY <1>0, <1>7, DrainKept DEF Hydrated, stopVars
<1>8. CASE TurnClaimed
  BY <1>0, <1>8, DrainKept DEF TurnClaimed, stopVars
<1>9. CASE AgentReturns
  BY <1>0, <1>9, DrainKept DEF AgentReturns, stopVars
<1>10. CASE TurnSettled
  BY <1>0, <1>10, DrainKept DEF TurnSettled, stopVars
<1>11. CASE SyncTurnReturns
  BY <1>0, <1>11, DrainKept DEF SyncTurnReturns, stopVars
<1>12. CASE GiveUpClaimed
  BY <1>0, <1>12, DrainKept DEF GiveUpClaimed, stopVars
<1>13. CASE GiveUpMarked
  BY <1>0, <1>13, DrainKept DEF GiveUpMarked, stopVars
<1>14. CASE StaleFetched
  BY <1>0, <1>14, DrainKept DEF StaleFetched, stopVars
<1>15. CASE RecoverStale
  BY <1>0, <1>15, DrainKept DEF RecoverStale, stopVars
<1>16. CASE SynchronizeWithNext
  BY <1>0, <1>16, DrainKept DEF SynchronizeWithNext, stopVars
<1>17. CASE NextRead
  BY <1>0, <1>17, DrainKept DEF NextRead, stopVars
<1>18. CASE NextReadFails
  BY <1>0, <1>18, DrainKept DEF NextReadFails, stopVars
<1>19. CASE NextQueuedEvent
  BY <1>0, <1>19, DrainKept DEF NextQueuedEvent, stopVars
<1>20. CASE Dispatch
  BY <1>0, <1>20, DrainKept DEF Dispatch, stopVars
<1>21. CASE LiveTurnReturns
  BY <1>0, <1>21, DrainKept DEF LiveTurnReturns, stopVars
<1>22. CASE RoomFails
  BY <1>0, <1>22, DrainKept DEF RoomFails, stopVars
<1>23. CASE LoopCrashes
  BY <1>0, <1>23, DrainKept DEF LoopCrashes, stopVars
<1>24. ASSUME NEW b \in StopBudgets, Stop(b) PROVE DrainInv'
  BY <1>0, <1>24 DEF Stop, DrainInv, CloseQueue, Settling
<1>25. CASE StopTimesOut
  BY <1>0, <1>25, DrainKept DEF StopTimesOut, stopVars
<1>26. CASE StopResumes
  BY <1>0, <1>26 DEF StopResumes, DrainInv, CloseQueue, Settling
<1>27. CASE StopDrained
  <2>1. stopper = "draining" /\ pc \in {"done", "crashed"} /\ closed /\ closed' = closed
        /\ pc' = pc /\ graceful' = graceful
    BY <1>0, <1>27 DEF StopDrained, DrainInv
  <2>2. \/ pc = "crashed" /\ stopper' = "threw"
        \/ pc = "done" /\ stopper' = "closing" /\ queue' = <<>>
    BY <1>27, <2>1 DEF StopDrained
  <2> QED BY <2>1, <2>2 DEF DrainInv
<1>28. CASE StopCloses
  BY <1>0, <1>28 DEF StopCloses, DrainInv
<1>29. CASE UNCHANGED vars
  BY <1>0, <1>29, DrainKept DEF vars, stopVars
<1> QED BY <1>0, <1>1, <1>2, <1>3, <1>4, <1>5, <1>6, <1>7, <1>8, <1>9, <1>10, <1>11,
   <1>12, <1>13, <1>14, <1>15, <1>16, <1>17, <1>18, <1>19, <1>20, <1>21, <1>22, <1>23,
   <1>24, <1>25, <1>26, <1>27, <1>28, <1>29
      DEF Next, Loop, Stopper, Socket, Held

\* A stop that reports a graceful end has drained the loop and the queue
\* (runStop, Execution.ts:224-260).
THEOREM GracefulStopsDrain == Spec => []GracefulStopDrained
<1>1. Init => DrainInv
  BY DEF Init, DrainInv
<1>2. IndInv /\ DrainInv /\ [Next]_vars => IndInv' /\ DrainInv'
  BY NextIndInv, NextDrain
<1>3. IndInv /\ DrainInv => GracefulStopDrained
  BY DEF IndInv, InFlightIsExact, LoopShape, InTurn, GivingUp, DrainInv, GracefulStopDrained,
         TypeOK, LoopType
<1> QED BY InitIndInv, <1>1, <1>2, <1>3, PTL DEF Spec


----------------------------------------------------------------------------
(* What a room owes to whoever waits for it: the messages it accepted, the  *)
(* boundaries it opened and the wake-ups of its loop.                       *)
----------------------------------------------------------------------------
(* The invariant.                                                          *)

\* A room that is not closed runs; a stop that goes on to its end has closed it.
ShutInv ==
  /\ stopper \in {"draining", "closing"} => closed
  /\ stopper = "refusing" => status = "failed"
  /\ pc \in {"failing", "crashing", "crashed"} => closed
  /\ ~closed => status \in {"running", "stopping"}

\* What a parked loop left in the queue was looked at, and waits for the hold's end.
Stuck(e) == IF e.kind = "reconnected" THEN e.afterHold ELSE e.control = "no"
ParkInv ==
  pc = "parked" =>
    /\ Active
    /\ hold = None => Len(queue) = 0
    /\ \A i \in 1..Len(queue) : Stuck(queue[i])

\* A live event is carried by an event of its own until its message was looked at.
Carried(m) ==
  \/ \E i \in 1..Len(queue) : queue[i].kind = "message" /\ queue[i].id = m
  \/ taken.kind = "message" /\ taken.id = m
  \/ m \in executed \cup Echoes \/ seenAt[m] > 0
KeptInv == ~closed => \A m \in accepted : Carried(m)

\* The boundaries the loop works for, one at most, and those it will, in order.
StalePhase == pc \in {"fetchStale", "stale"} \/ (origin = "stale" /\ pc \in InTurn \cup GivingUp)
LoopBounds == (IF StalePhase THEN {1} ELSE {}) \cup ({scan, taken.boundary} \ {None})
OpenInOrder(open, n) ==
  /\ open \in Seq(Nat \ {0}) /\ n \in Nat
  /\ \A i \in 1..Len(open) : open[i] <= n
  /\ \A i, j \in 1..Len(open) : i < j => open[i] < open[j]
WorkedFor(open, L) ==
  /\ L \subseteq Nat \ {0}
  /\ \A b, c \in L : b = c
  /\ \A b \in L : \E i \in 1..Len(open) : open[i] = b
QueuedAfter(q, L) ==
  \A i \in 1..Len(q) : q[i].boundary # None =>
    /\ q[i].boundary \in Nat /\ q[i].kind = "reconnected" /\ ~q[i].afterHold
    /\ \A b \in L : b < q[i].boundary
QueuedInOrder(q) ==
  \A i, j \in 1..Len(q) :
    i < j /\ q[i].boundary # None /\ q[j].boundary # None => q[i].boundary < q[j].boundary
OpenIsOwned(open, q, L) ==
  \A i \in 1..Len(open) : open[i] \in L \/ \E k \in 1..Len(q) : q[k].boundary = open[i]
QueuedIsOpen(open, q) ==
  \A k \in 1..Len(q) : q[k].boundary # None => \E i \in 1..Len(open) : open[i] = q[k].boundary
Owned(open, q, L, n) ==
  /\ OpenInOrder(open, n) /\ WorkedFor(open, L)
  /\ QueuedAfter(q, L) /\ QueuedInOrder(q)
  /\ OpenIsOwned(open, q, L) /\ QueuedIsOpen(open, q)
LoopRest == pc # "dispatch" => taken = NoEvent
Locals == scan # None => pc \in {"sync", "read"} \/ (pc \in InTurn \cup GivingUp /\ origin = "sync")
BoundInv == ~closed => Locals /\ Owned(openBounds, queue, LoopBounds, begun)

QueueInv == ShutInv /\ LoopRest /\ ParkInv /\ KeptInv /\ BoundInv

----------------------------------------------------------------------------
(* Facts about the operators.                                              *)

LEMMA SeqFacts ==
  /\ \A q \in Seq(Entries) : DOMAIN q = 1..Len(q) /\ Len(q) \in Nat /\ \A i \in 1..Len(q) : q[i] \in Entries
  /\ NoEvent.boundary = None /\ NoEvent.kind = "none" /\ NoEvent.id = None
  /\ \A e \in Entries : /\ e.boundary \in Nat /\ e.control \in {"unseen", "yes", "no"}
                        /\ e.kind \in {"message", "bootstrap", "reconnected"} /\ e.afterHold \in BOOLEAN
                        /\ e.kind # "reconnected" => e.boundary = None /\ e.id \in Messages
                        /\ e.kind = "reconnected" => e.id = None
<1>1. \A q \in Seq(Entries) : DOMAIN q = 1..Len(q) /\ Len(q) \in Nat /\ \A i \in 1..Len(q) : q[i] \in Entries
  BY LenProperties, ElementOfSeq
<1>2. NoEvent.boundary = None /\ NoEvent.kind = "none" /\ NoEvent.id = None
  BY DEF NoEvent, Entry
<1>3. Boundaries \cup {None} \subseteq Nat
  BY RoomAssumption DEF Boundaries, None
<1> QED BY <1>1, <1>2, <1>3 DEF Entries

\* Classifying a queue changes nothing but what was unseen.
LEMMA SightedSame ==
  ASSUME NEW q \in Seq(Entries), NEW h
  PROVE  /\ Len(Sighted(q, h)) = Len(q)
         /\ \A i \in 1..Len(q) : /\ Sighted(q, h)[i].kind = q[i].kind
                                 /\ Sighted(q, h)[i].id = q[i].id
                                 /\ Sighted(q, h)[i].boundary = q[i].boundary
                                 /\ Sighted(q, h)[i].afterHold = q[i].afterHold
                                 /\ q[i].control # "unseen" => Sighted(q, h)[i].control = q[i].control
                                 /\ h # None /\ Runnable(q, h) = {} /\ q[i].kind # "reconnected" =>
                                      Sighted(q, h)[i].control = ControlOf(q[i])
<1>1. Len(Sighted(q, h)) = Len(q)
  BY SightedType
<1>2. CASE h = None
  BY <1>1, <1>2 DEF Sighted
<1>3. CASE h # None
  <2>1. Sighted(q, h) = [i \in 1..Len(q) |->
          IF q[i].kind # "reconnected" /\ \A j \in Runnable(q, h) : i <= j
          THEN [q[i] EXCEPT !.control = ControlOf(q[i])] ELSE q[i]]
    BY <1>3, SeqFacts DEF Sighted
  <2> SUFFICES ASSUME NEW i \in 1..Len(q)
               PROVE  /\ Sighted(q, h)[i].kind = q[i].kind
                      /\ Sighted(q, h)[i].id = q[i].id
                      /\ Sighted(q, h)[i].boundary = q[i].boundary
                      /\ Sighted(q, h)[i].afterHold = q[i].afterHold
                      /\ q[i].control # "unseen" => Sighted(q, h)[i].control = q[i].control
                      /\ h # None /\ Runnable(q, h) = {} /\ q[i].kind # "reconnected" =>
                           Sighted(q, h)[i].control = ControlOf(q[i])
    BY <1>1
  <2>2. q[i] \in Entries
    BY SeqFacts
  <2>3. CASE q[i].kind # "reconnected" /\ \A j \in Runnable(q, h) : i <= j
    <3>1. Sighted(q, h)[i] = [q[i] EXCEPT !.control = ControlOf(q[i])]
      BY <2>1, <2>3
    <3> QED BY <2>2, <3>1 DEF ControlOf, Entries
  <2>4. CASE ~(q[i].kind # "reconnected" /\ \A j \in Runnable(q, h) : i <= j)
    <3>1. Sighted(q, h)[i] = q[i]
      BY <2>1, <2>4
    <3> QED BY <2>4, <3>1
  <2> QED BY <2>3, <2>4
<1> QED BY <1>2, <1>3

\* Two queues that carry the same events, whatever is known of them.
Alike(q, p) ==
  /\ Len(p) = Len(q)
  /\ \A i \in 1..Len(q) : /\ p[i].kind = q[i].kind /\ p[i].id = q[i].id
                          /\ p[i].boundary = q[i].boundary /\ p[i].afterHold = q[i].afterHold
                          /\ q[i].control # "unseen" => p[i].control = q[i].control

LEMMA SightedAlike ==
  ASSUME NEW q \in Seq(Entries), NEW h
  PROVE  Alike(q, Sighted(q, h))
BY SightedSame DEF Alike

LEMMA NotifyAlike ==
  ASSUME NEW q \in Seq(Entries), NEW open, NEW n, NEW h
  PROVE  /\ Alike(q, IdleSighted(q, open, n, h))
         /\ NotifyIfIdle(q, open, n, h) => Alike(q, queue')
<1>1. Alike(q, q) /\ Alike(q, Sighted(q, h))
  BY SightedAlike DEF Alike
<1> QED BY <1>1 DEF NotifyIfIdle, IdleSighted

LEMMA RemoveAtElements ==
  ASSUME NEW q \in Seq(Entries), NEW i \in 1..Len(q)
  PROVE  /\ Len(RemoveAt(q, i)) = Len(q) - 1
         /\ \A j \in 1..(Len(q) - 1) : RemoveAt(q, i)[j] = IF j < i THEN q[j] ELSE q[j + 1]
<1> DEFINE a == SubSeq(q, 1, i - 1)
           b == SubSeq(q, i + 1, Len(q))
<1>1. Len(q) \in Nat
  BY LenProperties
<1>2. a \in Seq(Entries) /\ Len(a) = i - 1 /\ \A j \in 1..(i - 1) : a[j] = q[j]
  BY <1>1, SubSeqProperties
<1>3. b \in Seq(Entries) /\ Len(b) = Len(q) - i /\ \A j \in 1..(Len(q) - i) : b[j] = q[i + j]
  BY <1>1, SubSeqProperties
<1>4. /\ Len(a \o b) = Len(q) - 1
      /\ \A j \in 1..(Len(q) - 1) : (a \o b)[j] = IF j <= i - 1 THEN a[j] ELSE b[j - (i - 1)]
  <2> HIDE DEF a, b
  <2>1. Len(a) + Len(b) = Len(q) - 1 /\ a \in Seq(Entries) /\ b \in Seq(Entries)
    <3>1. (i - 1) + (Len(q) - i) = Len(q) - 1
      BY <1>1
    <3> QED BY <1>2, <1>3, <3>1
  <2>2. /\ Len(a \o b) = Len(a) + Len(b)
        /\ \A j \in 1..(Len(a) + Len(b)) : (a \o b)[j] = IF j <= Len(a) THEN a[j] ELSE b[j - Len(a)]
    BY <2>1, ConcatProperties
  <2> QED BY <1>2, <2>1, <2>2
<1> HIDE DEF a, b
<1>5. ASSUME NEW j \in 1..(Len(q) - 1)
      PROVE  (a \o b)[j] = IF j < i THEN q[j] ELSE q[j + 1]
  <2>1. CASE j < i
    <3>1. j \in 1..(i - 1) /\ j <= i - 1
      BY <1>1, <2>1
    <3> QED BY <1>2, <1>4, <2>1, <3>1
  <2>2. CASE ~(j < i)
    <3>1. j - (i - 1) \in 1..(Len(q) - i) /\ i + (j - (i - 1)) = j + 1 /\ ~(j <= i - 1)
      BY <1>1, <2>2
    <3>2. (a \o b)[j] = b[j - (i - 1)]
      BY <1>4, <3>1
    <3>3. b[j - (i - 1)] = q[i + (j - (i - 1))]
      BY <1>3, <3>1
    <3> QED BY <2>2, <3>1, <3>2, <3>3
  <2> QED BY <2>1, <2>2
<1>6. RemoveAt(q, i) = a \o b
  BY DEF RemoveAt, a, b
<1> QED BY <1>4, <1>5, <1>6

LEMMA AppendElements ==
  ASSUME NEW S, NEW q \in Seq(S), NEW e \in S
  PROVE  /\ Append(q, e) \in Seq(S) /\ Len(Append(q, e)) = Len(q) + 1
         /\ \A i \in 1..Len(q) : Append(q, e)[i] = q[i]
         /\ Append(q, e)[Len(q) + 1] = e
BY AppendProperties, LenProperties

----------------------------------------------------------------------------
(* What each change of the queue and of the boundaries leaves owned.       *)

LEMMA OwnedAlike ==
  ASSUME NEW open, NEW q, NEW L, NEW n, NEW p, Owned(open, q, L, n), Alike(q, p)
  PROVE  Owned(open, p, L, n)
<1>1. Len(p) = Len(q) /\ \A i \in 1..Len(q) :
        p[i].boundary = q[i].boundary /\ p[i].kind = q[i].kind /\ p[i].afterHold = q[i].afterHold
  BY DEF Alike
<1>2. \A i \in 1..Len(open) : open[i] \in L \/ \E k \in 1..Len(p) : p[k].boundary = open[i]
  <2> SUFFICES ASSUME NEW i \in 1..Len(open), open[i] \notin L
               PROVE  \E k \in 1..Len(p) : p[k].boundary = open[i]
    OBVIOUS
  <2>1. PICK k \in 1..Len(q) : q[k].boundary = open[i]
    BY DEF Owned, OpenIsOwned
  <2> QED BY <1>1, <2>1
<1>3. \A k \in 1..Len(p) : p[k].boundary # None => \E i \in 1..Len(open) : open[i] = p[k].boundary
  BY <1>1 DEF Owned, QueuedIsOpen
<1>4. \A i \in 1..Len(p) : p[i].boundary # None =>
        /\ p[i].boundary \in Nat /\ p[i].kind = "reconnected" /\ ~p[i].afterHold
        /\ \A b \in L : b < p[i].boundary
  BY <1>1 DEF Owned, QueuedAfter
<1>5. \A i, j \in 1..Len(p) :
        i < j /\ p[i].boundary # None /\ p[j].boundary # None => p[i].boundary < p[j].boundary
  BY <1>1 DEF Owned, QueuedInOrder
<1> QED BY <1>2, <1>3, <1>4, <1>5
  DEF Owned, OpenInOrder, WorkedFor, QueuedAfter, QueuedInOrder, OpenIsOwned, QueuedIsOpen

\* An event without a boundary joins, or leaves, nothing owned.
LEMMA OwnedAppendNone ==
  ASSUME NEW open, NEW q \in Seq(Entries), NEW L, NEW n, NEW e \in Entries,
         Owned(open, q, L, n), e.boundary = None
  PROVE  Owned(open, Append(q, e), L, n)
<1> DEFINE p == Append(q, e)
<1>1. Len(q) \in Nat /\ Len(p) = Len(q) + 1 /\ p[Len(q) + 1] = e /\ \A i \in 1..Len(q) : p[i] = q[i]
  BY AppendElements, LenProperties
<1>2. \A i \in 1..Len(p) : p[i].boundary # None => i \in 1..Len(q) /\ p[i] = q[i]
  BY <1>1
<1>3. \A i \in 1..Len(q) : i \in 1..Len(p)
  BY <1>1
<1> HIDE DEF p
<1>4. Owned(open, p, L, n)
  <2>1. \A i \in 1..Len(open) : open[i] \in L \/ \E k \in 1..Len(p) : p[k].boundary = open[i]
    BY <1>1, <1>3 DEF Owned, OpenIsOwned
  <2>2. \A k \in 1..Len(p) : p[k].boundary # None => \E i \in 1..Len(open) : open[i] = p[k].boundary
    BY <1>2 DEF Owned, QueuedIsOpen
  <2>3. \A i \in 1..Len(p) : p[i].boundary # None =>
          /\ p[i].boundary \in Nat /\ p[i].kind = "reconnected" /\ ~p[i].afterHold
          /\ \A b \in L : b < p[i].boundary
    BY <1>2 DEF Owned, QueuedAfter
  <2>4. \A i, j \in 1..Len(p) :
          i < j /\ p[i].boundary # None /\ p[j].boundary # None => p[i].boundary < p[j].boundary
    BY <1>2 DEF Owned, QueuedInOrder
  <2> QED BY <2>1, <2>2, <2>3, <2>4
    DEF Owned, OpenInOrder, WorkedFor, QueuedAfter, QueuedInOrder, OpenIsOwned, QueuedIsOpen
<1> QED BY <1>4 DEF p

\* A reconnect opens its boundary and queues its catch-up.
LEMMA OwnedAppendNew ==
  ASSUME NEW open, NEW q \in Seq(Entries), NEW L, NEW n, NEW e \in Entries,
         Owned(open, q, L, n), e.boundary = n + 1, e.kind = "reconnected", ~e.afterHold
  PROVE  Owned(Append(open, n + 1), Append(q, e), L, n + 1)
<1> DEFINE p == Append(q, e)
           o == Append(open, n + 1)
<1>0. open \in Seq(Nat \ {0}) /\ n \in Nat /\ n + 1 \in Nat \ {0}
  BY DEF Owned, OpenInOrder
<1>1. Len(q) \in Nat /\ Len(p) = Len(q) + 1 /\ p[Len(q) + 1] = e /\ \A i \in 1..Len(q) : p[i] = q[i]
  BY AppendElements, LenProperties
<1>2. /\ o \in Seq(Nat \ {0}) /\ Len(open) \in Nat /\ Len(o) = Len(open) + 1 /\ o[Len(open) + 1] = n + 1
      /\ \A i \in 1..Len(open) : o[i] = open[i] /\ open[i] \in Nat
  BY <1>0, AppendElements, LenProperties, ElementOfSeq
<1>3. /\ \A i \in 1..Len(open) : open[i] <= n /\ i \in 1..Len(o)
      /\ Len(open) + 1 \in 1..Len(o) /\ Len(q) + 1 \in 1..Len(p)
      /\ \A i \in 1..Len(q) : i \in 1..Len(p)
      /\ \A i \in 1..Len(o) : i \in 1..Len(open) \/ i = Len(open) + 1
      /\ \A i \in 1..Len(p) : i \in 1..Len(q) \/ i = Len(q) + 1
  <2>1. \A i \in 1..Len(open) : open[i] <= n
    BY DEF Owned, OpenInOrder
  <2> HIDE DEF p, o
  <2> QED BY <1>1, <1>2, <2>1
<1>4. \A b \in L : b <= n /\ b \in Nat
  BY <1>2, <1>3 DEF Owned, WorkedFor
<1>5. \A i \in 1..Len(q) : q[i].boundary # None => q[i].boundary \in Nat /\ q[i].boundary <= n
  <2> SUFFICES ASSUME NEW i \in 1..Len(q), q[i].boundary # None
               PROVE  q[i].boundary \in Nat /\ q[i].boundary <= n
    OBVIOUS
  <2>1. PICK k \in 1..Len(open) : open[k] = q[i].boundary
    BY DEF Owned, QueuedIsOpen
  <2> QED BY <1>2, <1>3, <2>1
<1> HIDE DEF p, o
<1>6. ASSUME NEW i \in 1..Len(o) PROVE o[i] <= n + 1
  <2>1. CASE i \in 1..Len(open)
    <3>1. o[i] = open[i] /\ open[i] \in Nat /\ open[i] <= n
      BY <1>2, <1>3, <2>1
    <3> QED BY <1>0, <3>1
  <2>2. CASE i = Len(open) + 1
    BY <1>0, <1>2, <2>2
  <2> QED BY <1>3, <2>1, <2>2
<1>7. \A i, j \in 1..Len(o) : i < j => o[i] < o[j]
  <2> SUFFICES ASSUME NEW i \in 1..Len(o), NEW j \in 1..Len(o), i < j PROVE o[i] < o[j]
    OBVIOUS
  <2>1. i \in 1..Len(open)
    BY <1>2
  <2>2. CASE j \in 1..Len(open)
    BY <1>2, <2>1, <2>2 DEF Owned, OpenInOrder
  <2>3. CASE j = Len(open) + 1
    <3>1. o[i] = open[i] /\ open[i] \in Nat /\ open[i] <= n /\ o[j] = n + 1
      BY <1>2, <1>3, <2>1, <2>3
    <3> QED BY <1>0, <3>1
  <2> QED BY <1>3, <2>2, <2>3
<1>8. \A i \in 1..Len(p) : p[i].boundary # None =>
        /\ p[i].boundary \in Nat /\ p[i].kind = "reconnected" /\ ~p[i].afterHold
        /\ \A b \in L : b < p[i].boundary
  <2> SUFFICES ASSUME NEW i \in 1..Len(p), p[i].boundary # None
               PROVE  /\ p[i].boundary \in Nat /\ p[i].kind = "reconnected" /\ ~p[i].afterHold
                      /\ \A b \in L : b < p[i].boundary
    OBVIOUS
  <2>1. CASE i \in 1..Len(q)
    BY <1>1, <2>1 DEF Owned, QueuedAfter
  <2>2. CASE i = Len(q) + 1
    BY <1>0, <1>1, <1>4, <2>2
  <2> QED BY <1>3, <2>1, <2>2
<1>9. \A i, j \in 1..Len(p) :
        i < j /\ p[i].boundary # None /\ p[j].boundary # None => p[i].boundary < p[j].boundary
  <2> SUFFICES ASSUME NEW i \in 1..Len(p), NEW j \in 1..Len(p), i < j,
                      p[i].boundary # None, p[j].boundary # None
               PROVE  p[i].boundary < p[j].boundary
    OBVIOUS
  <2>1. i \in 1..Len(q)
    BY <1>1
  <2>2. CASE j \in 1..Len(q)
    BY <1>1, <2>1, <2>2 DEF Owned, QueuedInOrder
  <2>3. CASE j = Len(q) + 1
    <3>1. p[i] = q[i] /\ p[j] = e
      BY <1>1, <2>1, <2>3
    <3>2. p[i].boundary \in Nat /\ p[i].boundary <= n
      BY <1>5, <2>1, <3>1
    <3> QED BY <1>0, <3>1, <3>2
  <2> QED BY <1>3, <2>2, <2>3
<1>10. \A i \in 1..Len(o) : o[i] \in L \/ \E k \in 1..Len(p) : p[k].boundary = o[i]
  <2> SUFFICES ASSUME NEW i \in 1..Len(o)
               PROVE  o[i] \in L \/ \E k \in 1..Len(p) : p[k].boundary = o[i]
    OBVIOUS
  <2>1. CASE i \in 1..Len(open)
    <3>1. o[i] = open[i]
      BY <1>2, <2>1
    <3>2. open[i] \in L \/ \E k \in 1..Len(q) : q[k].boundary = open[i]
      BY <2>1 DEF Owned, OpenIsOwned
    <3>3. \A k \in 1..Len(q) : k \in 1..Len(p) /\ p[k] = q[k]
      BY <1>1, <1>3
    <3> QED BY <3>1, <3>2, <3>3
  <2>2. CASE i = Len(open) + 1
    BY <1>1, <1>2, <1>3, <2>2
  <2> QED BY <1>3, <2>1, <2>2
<1>11. \A b \in L : \E i \in 1..Len(o) : o[i] = b
  BY <1>2, <1>3 DEF Owned, WorkedFor
<1>12. \A k \in 1..Len(p) : p[k].boundary # None => \E i \in 1..Len(o) : o[i] = p[k].boundary
  <2> SUFFICES ASSUME NEW k \in 1..Len(p), p[k].boundary # None
               PROVE  \E i \in 1..Len(o) : o[i] = p[k].boundary
    OBVIOUS
  <2>1. CASE k \in 1..Len(q)
    <3>1. PICK i \in 1..Len(open) : open[i] = q[k].boundary
      BY <1>1, <2>1 DEF Owned, QueuedIsOpen
    <3> QED BY <1>1, <1>2, <1>3, <2>1, <3>1
  <2>2. CASE k = Len(q) + 1
    BY <1>1, <1>2, <1>3, <2>2
  <2> QED BY <1>3, <2>1, <2>2
<1>13. Owned(o, p, L, n + 1)
  <2>1. L \subseteq Nat \ {0} /\ \A b, c \in L : b = c
    BY DEF Owned, WorkedFor
  <2> QED BY <1>0, <1>2, <1>6, <1>7, <1>8, <1>9, <1>10, <1>11, <1>12, <2>1
    DEF Owned, OpenInOrder, WorkedFor, QueuedAfter, QueuedInOrder, OpenIsOwned, QueuedIsOpen
<1> QED BY <1>13 DEF p, o

\* The sweep a hold defers goes ahead of the queue and has no boundary.
LEMMA OwnedPrepend ==
  ASSUME NEW open, NEW q \in Seq(Entries), NEW L, NEW n, NEW e \in Entries,
         Owned(open, q, L, n), e.boundary = None
  PROVE  Owned(open, <<e>> \o q, L, n)
<1> DEFINE p == <<e>> \o q
<1>1. Len(q) \in Nat /\ Len(p) = Len(q) + 1 /\ p[1] = e
      /\ \A i \in 1..Len(p) : i # 1 => p[i] = q[i - 1] /\ i - 1 \in 1..Len(q)
  <2>1. <<e>> \in Seq(Entries) /\ Len(<<e>>) = 1 /\ <<e>>[1] = e /\ Len(q) \in Nat
    BY LenProperties
  <2> QED BY <2>1, ConcatProperties
<1>2. \A i \in 1..Len(q) : i + 1 \in 1..Len(p) /\ p[i + 1] = q[i]
  <2> SUFFICES ASSUME NEW i \in 1..Len(q) PROVE i + 1 \in 1..Len(p) /\ p[i + 1] = q[i]
    OBVIOUS
  <2>1. i + 1 \in 1..Len(p) /\ i + 1 # 1 /\ (i + 1) - 1 = i
    BY <1>1
  <2>2. p[i + 1] = q[(i + 1) - 1]
    BY <1>1, <2>1
  <2> QED BY <2>1, <2>2
<1>3. \A i \in 1..Len(p) : p[i].boundary # None => i # 1 /\ i - 1 \in 1..Len(q) /\ p[i] = q[i - 1]
  BY <1>1
<1> HIDE DEF p
<1>4. \A i \in 1..Len(open) : open[i] \in L \/ \E k \in 1..Len(p) : p[k].boundary = open[i]
  <2> SUFFICES ASSUME NEW i \in 1..Len(open), open[i] \notin L
               PROVE  \E k \in 1..Len(p) : p[k].boundary = open[i]
    OBVIOUS
  <2>1. PICK k \in 1..Len(q) : q[k].boundary = open[i]
    BY DEF Owned, OpenIsOwned
  <2> QED BY <1>2, <2>1
<1>5. \A i, j \in 1..Len(p) :
        i < j /\ p[i].boundary # None /\ p[j].boundary # None => p[i].boundary < p[j].boundary
  <2> SUFFICES ASSUME NEW i \in 1..Len(p), NEW j \in 1..Len(p), i < j,
                      p[i].boundary # None, p[j].boundary # None
               PROVE  p[i].boundary < p[j].boundary
    OBVIOUS
  <2>1. /\ i - 1 \in 1..Len(q) /\ p[i] = q[i - 1] /\ j - 1 \in 1..Len(q) /\ p[j] = q[j - 1]
        /\ i - 1 < j - 1
    BY <1>1, <1>3
  <2> QED BY <2>1 DEF Owned, QueuedInOrder
<1>6. \A i \in 1..Len(p) : p[i].boundary # None =>
        /\ p[i].boundary \in Nat /\ p[i].kind = "reconnected" /\ ~p[i].afterHold
        /\ \A b \in L : b < p[i].boundary
  BY <1>3 DEF Owned, QueuedAfter
<1>7. \A k \in 1..Len(p) : p[k].boundary # None => \E i \in 1..Len(open) : open[i] = p[k].boundary
  BY <1>3 DEF Owned, QueuedIsOpen
<1>8. Owned(open, p, L, n)
  BY <1>4, <1>5, <1>6, <1>7
    DEF Owned, OpenInOrder, WorkedFor, QueuedAfter, QueuedInOrder, OpenIsOwned, QueuedIsOpen
<1> QED BY <1>8 DEF p

\* The loop takes an event off the queue: its boundary, if it has one, was the queue's
\* first.
LEMMA OwnedTaken ==
  ASSUME NEW open, NEW q \in Seq(Entries), NEW n, NEW i \in 1..Len(q),
         Owned(open, q, {}, n), \A j \in 1..Len(q) : j < i => q[j].boundary = None
  PROVE  Owned(open, RemoveAt(q, i), {q[i].boundary} \ {None}, n)
<1> DEFINE p == RemoveAt(q, i)
           L == {q[i].boundary} \ {None}
<1>1. Len(q) \in Nat /\ q[i] \in Entries
  BY SeqFacts
<1>2. /\ Len(p) = Len(q) - 1
      /\ \A j \in 1..Len(p) : p[j] = IF j < i THEN q[j] ELSE q[j + 1]
  BY <1>1, RemoveAtElements
<1> HIDE DEF p
<1>3. \A j \in 1..Len(p) : p[j].boundary # None => i <= j /\ j + 1 \in 1..Len(q) /\ p[j] = q[j + 1]
  <2> SUFFICES ASSUME NEW j \in 1..Len(p), p[j].boundary # None
               PROVE  i <= j /\ j + 1 \in 1..Len(q) /\ p[j] = q[j + 1]
    OBVIOUS
  <2>1. j \in 1..Len(q) /\ j + 1 \in 1..Len(q)
    BY <1>1, <1>2
  <2> QED BY <1>1, <1>2, <2>1
<1>4. \A k \in 1..Len(q) : k # i /\ q[k].boundary # None => k - 1 \in 1..Len(p) /\ p[k - 1] = q[k]
  <2> SUFFICES ASSUME NEW k \in 1..Len(q), k # i, q[k].boundary # None
               PROVE  k - 1 \in 1..Len(p) /\ p[k - 1] = q[k]
    OBVIOUS
  <2>1. i < k
    BY <1>1
  <2>2. k - 1 \in 1..Len(p) /\ ~(k - 1 < i) /\ (k - 1) + 1 = k
    BY <1>1, <1>2, <2>1
  <2> QED BY <1>2, <2>2
<1>5. q[i].boundary # None => q[i].boundary \in Nat \ {0}
  BY DEF Owned, QueuedAfter, None
<1>6. \A j \in 1..Len(p) : p[j].boundary # None =>
        /\ p[j].boundary \in Nat /\ p[j].kind = "reconnected" /\ ~p[j].afterHold
        /\ \A b \in L : b < p[j].boundary
  <2> SUFFICES ASSUME NEW j \in 1..Len(p), p[j].boundary # None
               PROVE  /\ p[j].boundary \in Nat /\ p[j].kind = "reconnected" /\ ~p[j].afterHold
                      /\ \A b \in L : b < p[j].boundary
    OBVIOUS
  <2>1. i < j + 1 /\ j + 1 \in 1..Len(q) /\ p[j] = q[j + 1]
    BY <1>1, <1>3
  <2> QED BY <2>1 DEF Owned, QueuedAfter, QueuedInOrder
<1>7. \A j, k \in 1..Len(p) :
        j < k /\ p[j].boundary # None /\ p[k].boundary # None => p[j].boundary < p[k].boundary
  <2> SUFFICES ASSUME NEW j \in 1..Len(p), NEW k \in 1..Len(p), j < k,
                      p[j].boundary # None, p[k].boundary # None
               PROVE  p[j].boundary < p[k].boundary
    OBVIOUS
  <2>1. /\ j + 1 \in 1..Len(q) /\ p[j] = q[j + 1] /\ k + 1 \in 1..Len(q) /\ p[k] = q[k + 1]
        /\ j + 1 < k + 1
    BY <1>3
  <2> QED BY <2>1 DEF Owned, QueuedInOrder
<1>8. \A j \in 1..Len(open) : open[j] \in L \/ \E k \in 1..Len(p) : p[k].boundary = open[j]
  <2> SUFFICES ASSUME NEW j \in 1..Len(open), open[j] \notin L
               PROVE  \E k \in 1..Len(p) : p[k].boundary = open[j]
    OBVIOUS
  <2>1. open[j] # None
    BY ElementOfSeq DEF Owned, OpenInOrder, None
  <2>2. PICK k \in 1..Len(q) : q[k].boundary = open[j]
    BY DEF Owned, OpenIsOwned
  <2>3. k # i
    BY <2>1, <2>2
  <2> QED BY <1>4, <2>1, <2>2, <2>3
<1>9. \A b \in L : \E j \in 1..Len(open) : open[j] = b
  BY DEF Owned, QueuedIsOpen
<1>10. \A k \in 1..Len(p) : p[k].boundary # None => \E j \in 1..Len(open) : open[j] = p[k].boundary
  <2> SUFFICES ASSUME NEW k \in 1..Len(p), p[k].boundary # None
               PROVE  \E j \in 1..Len(open) : open[j] = p[k].boundary
    OBVIOUS
  <2>1. k + 1 \in 1..Len(q) /\ p[k] = q[k + 1]
    BY <1>3
  <2> QED BY <2>1 DEF Owned, QueuedIsOpen
<1>11. Owned(open, p, L, n)
  <2>1. L \subseteq Nat \ {0} /\ \A b, c \in L : b = c
    BY <1>5
  <2>2. /\ open \in Seq(Nat \ {0}) /\ n \in Nat /\ \A j \in 1..Len(open) : open[j] <= n
        /\ \A j, k \in 1..Len(open) : j < k => open[j] < open[k]
    BY DEF Owned, OpenInOrder
  <2> HIDE DEF L
  <2> QED BY <1>6, <1>7, <1>8, <1>9, <1>10, <2>1, <2>2
    DEF Owned, OpenInOrder, WorkedFor, QueuedAfter, QueuedInOrder, OpenIsOwned, QueuedIsOpen
<1> QED BY <1>11 DEF p

\* A scan that ends completes its boundary, which is the oldest one open.
LEMMA OwnedEnded ==
  ASSUME NEW open, NEW q, NEW n, NEW b \in Nat, Owned(open, q, {b} \ {None}, n)
  PROVE  Owned(IF open # <<>> /\ Head(open) = b THEN Tail(open) ELSE open, q, {}, n)
<1>0. open \in Seq(Nat \ {0}) /\ Len(open) \in Nat /\ n \in Nat /\ \A i \in 1..Len(open) : open[i] \in Nat \ {0}
  BY LenProperties, ElementOfSeq DEF Owned, OpenInOrder
<1>1. CASE b = None
  <2>1. ~(open # <<>> /\ Head(open) = b)
    BY <1>0, <1>1, HeadTailProperties DEF None
  <2> QED BY <1>1, <2>1
<1>2. CASE b # None
  <2>1. PICK i \in 1..Len(open) : open[i] = b
    BY <1>2 DEF Owned, WorkedFor
  <2>2. open # <<>> /\ 1 \in 1..Len(open) /\ Head(open) = open[1]
    BY <1>0, <2>1, HeadTailProperties
  <2>3. i = 1
    <3> SUFFICES ASSUME i # 1 PROVE FALSE
      OBVIOUS
    <3>1. open[1] < open[i]
      BY <1>0, <2>1, <2>2 DEF Owned, OpenInOrder
    <3>2. open[1] # b
      BY <1>0, <2>1, <2>2, <3>1
    <3>3. PICK k \in 1..Len(q) : q[k].boundary = open[1]
      BY <2>2, <3>2 DEF Owned, OpenIsOwned
    <3>4. q[k].boundary # None
      BY <1>0, <2>2, <3>3 DEF None
    <3>5. b < q[k].boundary
      BY <1>2, <3>3, <3>4 DEF Owned, QueuedAfter
    <3> QED BY <1>0, <2>1, <2>2, <3>1, <3>3, <3>5
  <2> DEFINE t == Tail(open)
  <2>4. t \in Seq(Nat \ {0}) /\ Len(t) = Len(open) - 1 /\ \A j \in 1..Len(t) : t[j] = open[j + 1]
    BY <1>0, <2>2, HeadTailProperties, LenProperties
  <2>5. \A j \in 1..Len(t) : j + 1 \in 1..Len(open)
    BY <1>0, <2>4
  <2> HIDE DEF t
  <2>6. \A j \in 1..Len(t) : t[j] <= n
    <3> SUFFICES ASSUME NEW j \in 1..Len(t) PROVE t[j] <= n
      OBVIOUS
    <3>1. t[j] = open[j + 1] /\ j + 1 \in 1..Len(open)
      BY <2>4, <2>5
    <3> QED BY <3>1 DEF Owned, OpenInOrder
  <2>7. \A j, k \in 1..Len(t) : j < k => t[j] < t[k]
    <3> SUFFICES ASSUME NEW j \in 1..Len(t), NEW k \in 1..Len(t), j < k PROVE t[j] < t[k]
      OBVIOUS
    <3>1. /\ t[j] = open[j + 1] /\ j + 1 \in 1..Len(open)
          /\ t[k] = open[k + 1] /\ k + 1 \in 1..Len(open)
      BY <2>4, <2>5
    <3>2. j + 1 < k + 1
      OBVIOUS
    <3> QED BY <3>1, <3>2 DEF Owned, OpenInOrder
  <2>8. \A j \in 1..Len(t) : \E k \in 1..Len(q) : q[k].boundary = t[j]
    <3> SUFFICES ASSUME NEW j \in 1..Len(t) PROVE \E k \in 1..Len(q) : q[k].boundary = t[j]
      OBVIOUS
    <3>1. open[1] < open[j + 1]
      BY <1>0, <2>2, <2>4, <2>5 DEF Owned, OpenInOrder
    <3>2. open[j + 1] # b
      BY <1>0, <2>1, <2>2, <2>3, <2>5, <3>1
    <3>3. t[j] = open[j + 1] /\ j + 1 \in 1..Len(open) /\ open[j + 1] \notin ({b} \ {None})
      BY <2>4, <2>5, <3>2
    <3> QED BY <3>3 DEF Owned, OpenIsOwned
  <2>9. \A k \in 1..Len(q) : q[k].boundary # None => \E j \in 1..Len(t) : t[j] = q[k].boundary
    <3> SUFFICES ASSUME NEW k \in 1..Len(q), q[k].boundary # None
                 PROVE  \E j \in 1..Len(t) : t[j] = q[k].boundary
      OBVIOUS
    <3>1. PICK j \in 1..Len(open) : open[j] = q[k].boundary
      BY DEF Owned, QueuedIsOpen
    <3>2. b < q[k].boundary /\ q[k].boundary \in Nat
      BY <1>2 DEF Owned, QueuedAfter
    <3>3. j # 1
      BY <2>1, <2>3, <3>1, <3>2
    <3>4. j - 1 \in 1..Len(t) /\ (j - 1) + 1 = j
      BY <1>0, <2>4, <3>3
    <3> QED BY <2>4, <3>1, <3>4
  <2>10. Owned(t, q, {}, n)
    <3>1. \A j \in 1..Len(q) : q[j].boundary # None =>
            /\ q[j].boundary \in Nat /\ q[j].kind = "reconnected" /\ ~q[j].afterHold
      BY DEF Owned, QueuedAfter
    <3>2. \A j, k \in 1..Len(q) :
            j < k /\ q[j].boundary # None /\ q[k].boundary # None => q[j].boundary < q[k].boundary
      BY DEF Owned, QueuedInOrder
    <3> QED BY <1>0, <2>4, <2>6, <2>7, <2>8, <2>9, <3>1, <3>2
      DEF Owned, OpenInOrder, WorkedFor, QueuedAfter, QueuedInOrder, OpenIsOwned, QueuedIsOpen
  <2> QED BY <2>1, <2>2, <2>3, <2>10 DEF t
<1> QED BY <1>1, <1>2

----------------------------------------------------------------------------
(* A room that is not closed runs.                                         *)

\* Steps that end neither the room nor its stop.
LEMMA ShutKept ==
  ASSUME ShutInv, UNCHANGED stopper, status' = status, closed => closed', closed' => closed,
         pc' \in {"failing", "crashing", "crashed"} => pc \in {"failing", "crashing", "crashed"}
  PROVE  ShutInv'
BY DEF ShutInv

LEMMA NextShut ==
  ASSUME IndInv, ShutInv, [Next]_vars
  PROVE  ShutInv'
<1>0. TypeOK /\ LoopShape /\ ShutInv
  BY DEF IndInv
<1>1. ASSUME NEW m \in Messages, Post(m) PROVE ShutInv'
  BY <1>0, <1>1, ShutKept DEF Post, stopVars
<1>2. ASSUME NEW m \in Messages, Deliver(m) PROVE ShutInv'
  BY <1>0, <1>2, ShutKept DEF Deliver, stopVars, Push, Woken
<1>3. CASE Reconnect
  BY <1>0, <1>3, ShutKept DEF Reconnect, stopVars, Push, Woken
<1>4. ASSUME NEW m \in Messages, BootstrapMessage(m) PROVE ShutInv'
  BY <1>0, <1>4, ShutKept DEF BootstrapMessage, stopVars, Push, Woken
<1>5. ASSUME NEW m \in Messages, HoldEnds(m) PROVE ShutInv'
  BY <1>0, <1>5, ShutKept DEF HoldEnds, stopVars, Woken
<1>6. CASE AskChanges
  BY <1>0, <1>6, ShutKept DEF AskChanges, stopVars
<1>7. CASE Hydrated
  BY <1>0, <1>7, ShutKept DEF Hydrated, stopVars
<1>8. CASE TurnClaimed
  BY <1>0, <1>8, ShutKept DEF TurnClaimed, stopVars
<1>9. CASE AgentReturns
  BY <1>0, <1>9, ShutKept DEF AgentReturns, stopVars
<1>10. CASE TurnSettled
  BY <1>0, <1>10, ShutKept DEF TurnSettled, stopVars
<1>11. CASE SyncTurnReturns
  BY <1>0, <1>11, ShutKept DEF SyncTurnReturns, stopVars, AfterMessage, EndScan, LoopShape, InTurn, Origins
<1>12. CASE GiveUpClaimed
  BY <1>0, <1>12, ShutKept DEF GiveUpClaimed, stopVars, AfterMessage, EndScan, LoopShape, GivingUp, Origins
<1>13. CASE GiveUpMarked
  BY <1>0, <1>13, ShutKept DEF GiveUpMarked, stopVars, AfterMessage, EndScan, LoopShape, GivingUp, Origins
<1>14. CASE StaleFetched
  BY <1>0, <1>14, ShutKept DEF StaleFetched, stopVars
<1>15. CASE RecoverStale
  BY <1>0, <1>15, ShutKept DEF RecoverStale, stopVars, BeginSync, BeginTurn
<1>16. CASE SynchronizeWithNext
  BY <1>0, <1>16, ShutKept DEF SynchronizeWithNext, stopVars, EndScan
<1>17. CASE NextRead
  BY <1>0, <1>17, ShutKept DEF NextRead, stopVars, EndScan, BeginSync, BeginTurn
<1>18. CASE NextReadFails
  BY <1>0, <1>18 DEF NextReadFails, ShutInv, stopVars
<1>19. CASE NextQueuedEvent
  BY <1>0, <1>19, ShutKept DEF NextQueuedEvent, stopVars
<1>20. CASE Dispatch
  BY <1>0, <1>20, ShutKept DEF Dispatch, stopVars, SkipExecuted, CatchUp, DispatchMessage, BeginSync, BeginTurn
<1>21. CASE LiveTurnReturns
  BY <1>0, <1>21 DEF LiveTurnReturns, ShutInv, stopVars
<1>22. CASE RoomFails
  BY <1>0, <1>22 DEF RoomFails, ShutInv, Failed, stopVars
<1>23. CASE LoopCrashes
  BY <1>0, <1>23 DEF LoopCrashes, ShutInv, Failed, stopVars
<1>24. ASSUME NEW b \in StopBudgets, Stop(b) PROVE ShutInv'
  BY <1>0, <1>24 DEF Stop, ShutInv, CloseQueue, Woken
<1>25. CASE StopTimesOut
  BY <1>0, <1>25, ShutKept DEF StopTimesOut, stopVars
<1>26. CASE StopResumes
  BY <1>0, <1>26 DEF StopResumes, ShutInv, CloseQueue, Woken, Settling
<1>27. CASE StopDrained
  BY <1>0, <1>27 DEF StopDrained, ShutInv
<1>28. CASE StopCloses
  BY <1>0, <1>28 DEF StopCloses, ShutInv
<1>29. CASE UNCHANGED vars
  BY <1>0, <1>29, ShutKept DEF vars, stopVars, turnVars, loopVars
<1> QED BY <1>0, <1>1, <1>2, <1>3, <1>4, <1>5, <1>6, <1>7, <1>8, <1>9, <1>10, <1>11,
   <1>12, <1>13, <1>14, <1>15, <1>16, <1>17, <1>18, <1>19, <1>20, <1>21, <1>22, <1>23,
   <1>24, <1>25, <1>26, <1>27, <1>28, <1>29
      DEF Next, Loop, Stopper, Socket, Held

----------------------------------------------------------------------------
(* The event in hand.                                                      *)

\* Between two events the loop holds none.
LEMMA NextRest ==
  ASSUME IndInv, LoopRest, [Next]_vars
  PROVE  LoopRest'
<1>0. TypeOK /\ LoopShape /\ LoopRest
  BY DEF IndInv
<1>1. ASSUME NEW m \in Messages, Post(m) PROVE LoopRest'
  BY <1>0, <1>1 DEF Post, loopVars, LoopRest
<1>2. ASSUME NEW m \in Messages, Deliver(m) PROVE LoopRest'
  BY <1>0, <1>2 DEF Deliver, loopVars, LoopRest, Push, Woken
<1>3. CASE Reconnect
  BY <1>0, <1>3 DEF Reconnect, loopVars, LoopRest, Push, Woken
<1>4. ASSUME NEW m \in Messages, BootstrapMessage(m) PROVE LoopRest'
  BY <1>0, <1>4 DEF BootstrapMessage, loopVars, LoopRest, Push, Woken
<1>5. ASSUME NEW m \in Messages, HoldEnds(m) PROVE LoopRest'
  BY <1>0, <1>5 DEF HoldEnds, loopVars, LoopRest, Woken
<1>6. CASE AskChanges
  BY <1>0, <1>6 DEF AskChanges, loopVars, LoopRest
<1>7. CASE Hydrated
  BY <1>0, <1>7 DEF Hydrated, loopVars, LoopRest
<1>8. CASE TurnClaimed
  BY <1>0, <1>8 DEF TurnClaimed, loopVars, LoopRest
<1>9. CASE AgentReturns
  BY <1>0, <1>9 DEF AgentReturns, loopVars, LoopRest
<1>10. CASE TurnSettled
  BY <1>0, <1>10 DEF TurnSettled, loopVars, LoopRest
<1>11. CASE SyncTurnReturns
  BY <1>0, <1>11 DEF SyncTurnReturns, loopVars, LoopRest, AfterMessage, EndScan, LoopShape, InTurn, GivingUp, Origins
<1>12. CASE GiveUpClaimed
  BY <1>0, <1>12 DEF GiveUpClaimed, loopVars, LoopRest, AfterMessage, EndScan, LoopShape, InTurn, GivingUp, Origins
<1>13. CASE GiveUpMarked
  BY <1>0, <1>13 DEF GiveUpMarked, loopVars, LoopRest, AfterMessage, EndScan, LoopShape, InTurn, GivingUp, Origins
<1>14. CASE StaleFetched
  BY <1>0, <1>14 DEF StaleFetched, loopVars, LoopRest
<1>15. CASE RecoverStale
  BY <1>0, <1>15 DEF RecoverStale, loopVars, LoopRest, EndScan, BeginSync, BeginTurn
<1>16. CASE SynchronizeWithNext
  BY <1>0, <1>16 DEF SynchronizeWithNext, loopVars, LoopRest, EndScan
<1>17. CASE NextRead
  BY <1>0, <1>17 DEF NextRead, loopVars, LoopRest, EndScan, BeginSync, BeginTurn
<1>18. CASE NextReadFails
  BY <1>0, <1>18 DEF NextReadFails, loopVars, LoopRest
<1>19. CASE NextQueuedEvent
  BY <1>0, <1>19 DEF NextQueuedEvent, loopVars, LoopRest
<1>20. CASE Dispatch
  BY <1>0, <1>20 DEF Dispatch, loopVars, LoopRest
<1>21. CASE LiveTurnReturns
  BY <1>0, <1>21 DEF LiveTurnReturns, loopVars, LoopRest
<1>22. CASE RoomFails
  BY <1>0, <1>22 DEF RoomFails, loopVars, LoopRest
<1>23. CASE LoopCrashes
  BY <1>0, <1>23 DEF LoopCrashes, loopVars, LoopRest
<1>24. ASSUME NEW b \in StopBudgets, Stop(b) PROVE LoopRest'
  BY <1>0, <1>24 DEF Stop, loopVars, LoopRest, CloseQueue, Woken
<1>25. CASE StopTimesOut
  BY <1>0, <1>25 DEF StopTimesOut, loopVars, LoopRest
<1>26. CASE StopResumes
  BY <1>0, <1>26 DEF StopResumes, loopVars, LoopRest, CloseQueue, Woken
<1>27. CASE StopDrained
  BY <1>0, <1>27 DEF StopDrained, loopVars, LoopRest
<1>28. CASE StopCloses
  BY <1>0, <1>28 DEF StopCloses, loopVars, LoopRest
<1>29. CASE UNCHANGED vars
  BY <1>0, <1>29 DEF vars, loopVars, LoopRest
<1> QED BY <1>0, <1>1, <1>2, <1>3, <1>4, <1>5, <1>6, <1>7, <1>8, <1>9, <1>10, <1>11,
   <1>12, <1>13, <1>14, <1>15, <1>16, <1>17, <1>18, <1>19, <1>20, <1>21, <1>22, <1>23,
   <1>24, <1>25, <1>26, <1>27, <1>28, <1>29
      DEF Next, Loop, Stopper, Socket, Held

----------------------------------------------------------------------------
(* The wake-ups of the loop.                                               *)

\* What is stuck cannot run, and stays so while the hold lasts.
LEMMA StuckAlike ==
  ASSUME NEW q \in Seq(Entries), NEW p, Alike(q, p), \A i \in 1..Len(q) : Stuck(q[i])
  PROVE  \A i \in 1..Len(p) : Stuck(p[i])
BY SeqFacts DEF Alike, Stuck

\* Steps after which the loop is not parked, or is where it was over the same queue.
LEMMA ParkKept ==
  ASSUME TypeOK, ParkInv,
         pc' = "parked" => /\ pc = "parked" /\ hold' = hold /\ (Active => Active')
                           /\ Alike(queue, queue')
  PROVE  ParkInv'
<1> SUFFICES ASSUME pc' = "parked"
             PROVE  Active' /\ (hold' = None => Len(queue') = 0) /\ \A i \in 1..Len(queue') : Stuck(queue'[i])
  BY DEF ParkInv
<1>1. Active /\ (hold = None => Len(queue) = 0) /\ \A i \in 1..Len(queue) : Stuck(queue[i])
  BY DEF ParkInv
<1>2. \A i \in 1..Len(queue') : Stuck(queue'[i])
  BY <1>1, StuckAlike DEF TypeOK
<1>3. hold = None => Len(queue') = 0
  BY <1>1 DEF Alike
<1> QED BY <1>1, <1>2, <1>3

LEMMA NextPark ==
  ASSUME IndInv, ShutInv, ParkInv, [Next]_vars
  PROVE  ParkInv'
<1>0. TypeOK /\ LoopShape /\ ShutInv /\ ParkInv /\ Alike(queue, queue)
  BY DEF IndInv, Alike
<1>1. ASSUME NEW m \in Messages, Post(m) PROVE ParkInv'
  BY <1>0, <1>1, ParkKept DEF Post, holdVars, Active
<1>2. ASSUME NEW m \in Messages, Deliver(m) PROVE ParkInv'
  BY <1>0, <1>2, ParkKept DEF Deliver, holdVars, Push, Woken, Active
<1>3. CASE Reconnect
  BY <1>0, <1>3, ParkKept DEF Reconnect, holdVars, Push, Woken, Active
<1>4. ASSUME NEW m \in Messages, BootstrapMessage(m) PROVE ParkInv'
  BY <1>0, <1>4, ParkKept DEF BootstrapMessage, holdVars, Push, Woken, Active
<1>5. ASSUME NEW m \in Messages, HoldEnds(m) PROVE ParkInv'
  BY <1>0, <1>5, ParkKept DEF HoldEnds, Woken, Active
<1>6. CASE AskChanges
  BY <1>0, <1>6, ParkKept DEF AskChanges, holdVars, Active
<1>7. CASE Hydrated
  BY <1>0, <1>7, ParkKept DEF Hydrated
<1>8. CASE TurnClaimed
  BY <1>0, <1>8, ParkKept DEF TurnClaimed
<1>9. CASE AgentReturns
  BY <1>0, <1>9, ParkKept DEF AgentReturns
<1>10. CASE TurnSettled
  BY <1>0, <1>10, ParkKept DEF TurnSettled
<1>11. CASE SyncTurnReturns
  BY <1>0, <1>11, ParkKept DEF SyncTurnReturns, AfterMessage, EndScan, LoopShape, InTurn, GivingUp, Origins
<1>12. CASE GiveUpClaimed
  BY <1>0, <1>12, ParkKept DEF GiveUpClaimed, AfterMessage, EndScan, LoopShape, InTurn, GivingUp, Origins
<1>13. CASE GiveUpMarked
  BY <1>0, <1>13, ParkKept DEF GiveUpMarked, AfterMessage, EndScan, LoopShape, InTurn, GivingUp, Origins
<1>14. CASE StaleFetched
  BY <1>0, <1>14, ParkKept DEF StaleFetched
<1>15. CASE RecoverStale
  BY <1>0, <1>15, ParkKept DEF RecoverStale, EndScan, BeginSync, BeginTurn
<1>16. CASE SynchronizeWithNext
  BY <1>0, <1>16, ParkKept DEF SynchronizeWithNext, EndScan
<1>17. CASE NextRead
  BY <1>0, <1>17, ParkKept DEF NextRead, EndScan, BeginSync, BeginTurn
<1>18. CASE NextReadFails
  BY <1>0, <1>18, ParkKept DEF NextReadFails
<1>19. CASE NextQueuedEvent
  <2>1. CASE pc' # "parked"
    BY <1>0, <2>1, ParkKept
  <2>2. CASE pc' = "parked"
    <3>1. /\ Active /\ Runnable(queue, hold) = {} /\ queue' = Sighted(queue, hold)
          /\ UNCHANGED <<status, closed, hold>>
      BY <1>19, <2>2 DEF NextQueuedEvent, holdVars
    <3>2. Len(queue') = Len(queue) /\ queue \in Seq(Entries)
      BY <1>0, <3>1, SightedSame DEF TypeOK
    <3>3. ASSUME hold = None PROVE Len(queue) = 0
      <4>1. Runnable(queue, hold) = 1..Len(queue) /\ Len(queue) \in Nat
        BY <3>2, <3>3, SeqFacts DEF Runnable, MayRun
      <4> QED BY <3>1, <4>1
    <3>4. ASSUME hold # None, NEW i \in 1..Len(queue) PROVE Stuck(queue'[i])
      <4>1. ~MayRun(queue[i], hold) /\ queue[i] \in Entries
        BY <3>1, <3>2, SeqFacts DEF Runnable
      <4>2. /\ queue'[i].kind = queue[i].kind /\ queue'[i].afterHold = queue[i].afterHold
            /\ queue[i].kind # "reconnected" => queue'[i].control = ControlOf(queue[i])
        BY <3>1, <3>2, <3>4, SightedSame
      <4>3. ControlOf(queue[i]) \in {"yes", "no"}
        BY <4>1, SeqFacts DEF ControlOf
      <4> QED BY <3>4, <4>1, <4>2, <4>3, SeqFacts DEF MayRun, Stuck
    <3>5. Active'
      BY <3>1 DEF Active
    <3> QED BY <3>1, <3>2, <3>3, <3>4, <3>5 DEF ParkInv
  <2> QED BY <2>1, <2>2
<1>20. CASE Dispatch
  BY <1>0, <1>20, ParkKept DEF Dispatch, SkipExecuted, CatchUp, DispatchMessage, BeginSync, BeginTurn
<1>21. CASE LiveTurnReturns
  BY <1>0, <1>21, ParkKept DEF LiveTurnReturns
<1>22. CASE RoomFails
  BY <1>0, <1>22, ParkKept DEF RoomFails
<1>23. CASE LoopCrashes
  BY <1>0, <1>23, ParkKept DEF LoopCrashes
<1>24. ASSUME NEW b \in StopBudgets, Stop(b) PROVE ParkInv'
  <2>1. CASE pc' # "parked"
    BY <1>0, <2>1, ParkKept
  <2>2. CASE pc' = "parked"
    <3>1. pc = "parked" /\ UNCHANGED <<hold, closed>>
      BY <1>24, <2>2 DEF Stop, CloseQueue, Woken, holdVars
    <3>2. UNCHANGED <<queue, status>> \/ (status' = "stopping" /\ queue' = IdleSighted(queue, openBounds, inFlight, hold))
      BY <1>24, <2>2 DEF Stop, CloseQueue, Woken
    <3>3. Alike(queue, queue')
      BY <1>0, <3>2, NotifyAlike DEF TypeOK
    <3> QED BY <1>0, <3>1, <3>2, <3>3, ParkKept DEF Active
  <2> QED BY <2>1, <2>2
<1>25. CASE StopTimesOut
  BY <1>0, <1>25, ParkKept DEF StopTimesOut, holdVars, Active
<1>26. CASE StopResumes
  BY <1>0, <1>26, ParkKept DEF StopResumes, CloseQueue, Woken, holdVars, Active
<1>27. CASE StopDrained
  BY <1>0, <1>27, ParkKept DEF StopDrained
<1>28. CASE StopCloses
  <2>1. CASE pc' # "parked"
    BY <1>0, <2>1, ParkKept
  <2>2. CASE pc' = "parked"
    <3>1. pc = "parked" /\ UNCHANGED <<hold, closed, queue>> /\ stopper \in {"closing", "refusing"}
      BY <1>28, <2>2 DEF StopCloses, holdVars
    <3>2. ~Active
      BY <1>0, <3>1 DEF ShutInv, Active
    <3> QED BY <1>0, <3>1, <3>2 DEF ParkInv
  <2> QED BY <2>1, <2>2
<1>29. CASE UNCHANGED vars
  BY <1>0, <1>29, ParkKept DEF vars, holdVars, Active
<1> QED BY <1>0, <1>1, <1>2, <1>3, <1>4, <1>5, <1>6, <1>7, <1>8, <1>9, <1>10, <1>11,
   <1>12, <1>13, <1>14, <1>15, <1>16, <1>17, <1>18, <1>19, <1>20, <1>21, <1>22, <1>23,
   <1>24, <1>25, <1>26, <1>27, <1>28, <1>29
      DEF Next, Loop, Stopper, Socket, Held

----------------------------------------------------------------------------
(* Accepted messages.                                                      *)

QueueKeeps ==
  \A i \in 1..Len(queue) : queue[i].kind = "message" =>
    \E j \in 1..Len(queue') : queue'[j].kind = "message" /\ queue'[j].id = queue[i].id
Grows == executed \subseteq executed' /\ \A k \in Messages : seenAt[k] > 0 => seenAt'[k] > 0

LEMMA AlikeKeeps ==
  ASSUME Alike(queue, queue')
  PROVE  QueueKeeps
BY DEF Alike, QueueKeeps

\* Steps that keep what is queued and what is in hand.
LEMMA CarriedKept ==
  ASSUME TypeOK, KeptInv, closed => closed',
         ~closed' => accepted' = accepted /\ QueueKeeps /\ Grows /\ (taken.kind = "message" => taken' = taken)
  PROVE  KeptInv'
BY DEF KeptInv, Carried, QueueKeeps, Grows, TypeOK

LEMMA BeginTurnGrows ==
  ASSUME TypeOK, NEW m \in Messages, NEW why, NEW through, BeginTurn(m, why, through), executed' = executed
  PROVE  Grows /\ (Active => m \in Echoes \/ seenAt'[m] > 0)
<1>1. CASE ~Active \/ m \in Echoes \/ HasMessage(m)
  BY <1>1 DEF Grows, BeginTurn, HasMessage
<1>2. CASE ~(~Active \/ m \in Echoes \/ HasMessage(m))
  <2>1. seenAt' = [seenAt EXCEPT ![m] = seenCount + 1]
    BY <1>2 DEF BeginTurn
  <2> QED BY <2>1 DEF Grows, TypeOK, ContextType
<1> QED BY <1>1, <1>2

LEMMA BeginSyncGrows ==
  ASSUME TypeOK, NEW m \in Messages, NEW why, NEW through, BeginSync(m, why, through), executed' = executed
  PROVE  Grows
<1>1. CASE UNCHANGED seenAt
  BY <1>1 DEF Grows
<1>2. CASE BeginTurn(m, why, through)
  BY <1>2, BeginTurnGrows
<1> QED BY <1>1, <1>2 DEF BeginSync

LEMMA AfterMessageGrows ==
  ASSUME TypeOK, NEW n, AfterMessage(n), seenAt' = seenAt
  PROVE  Alike(queue, queue') /\ Grows /\ taken' = taken
<1>1. Grows /\ taken' = taken
  BY DEF AfterMessage, Grows
<1>2. \/ queue' = queue
      \/ NotifyIfIdle(queue, openBounds, n, hold)
      \/ NotifyIfIdle(queue, openBounds', inFlight', hold)
  BY DEF AfterMessage, EndScan
<1> QED BY <1>1, <1>2, NotifyAlike DEF TypeOK, Alike

LEMMA PushKeeps ==
  ASSUME TypeOK, NEW e \in Entries, Push(e)
  PROVE  /\ QueueKeeps
         /\ Ended \/ \E j \in 1..Len(queue') : queue'[j] = e
<1>1. queue \in Seq(Entries) /\ Len(queue) \in Nat
  BY LenProperties DEF TypeOK
<1>2. CASE Ended
  BY <1>2 DEF Push, QueueKeeps
<1>3. CASE ~Ended
  <2>1. /\ Len(queue') = Len(queue) + 1 /\ queue'[Len(queue) + 1] = e
        /\ \A i \in 1..Len(queue) : queue'[i] = queue[i] /\ i \in 1..Len(queue')
    BY <1>1, <1>3, AppendElements DEF Push
  <2> QED BY <1>1, <2>1 DEF QueueKeeps
<1> QED BY <1>2, <1>3

\* Putting a sweep ahead of the queue loses nothing of it.
LEMMA DeferredElements ==
  ASSUME TypeOK
  PROVE  \/ Deferred = queue
         \/ \E e \in Entries : e.boundary = None /\ e.kind = "reconnected" /\ Deferred = <<e>> \o queue
<1> DEFINE e == [Entry("reconnected", None, None) EXCEPT !.afterHold = TRUE]
<1>1. e \in Entries /\ e.boundary = None /\ e.kind = "reconnected"
  BY EntryType DEF Entry
<1> QED BY <1>1 DEF Deferred

LEMMA DeferredKeeps ==
  ASSUME TypeOK, Alike(Deferred, queue')
  PROVE  QueueKeeps
<1>1. CASE Deferred = queue
  BY <1>1, AlikeKeeps
<1>2. ASSUME NEW e \in Entries, Deferred = <<e>> \o queue PROVE QueueKeeps
  <2>1. /\ <<e>> \in Seq(Entries) /\ Len(<<e>>) = 1 /\ queue \in Seq(Entries) /\ Len(queue) \in Nat
    BY LenProperties DEF TypeOK
  <2>2. Len(Deferred) = Len(queue) + 1 /\ \A i \in 1..(Len(queue) + 1) : i > 1 => Deferred[i] = queue[i - 1]
    BY <1>2, <2>1, ConcatProperties
  <2>3. \A i \in 1..Len(queue) : i + 1 \in 1..Len(Deferred) /\ Deferred[i + 1] = queue[i]
    <3> SUFFICES ASSUME NEW i \in 1..Len(queue)
                 PROVE  i + 1 \in 1..Len(Deferred) /\ Deferred[i + 1] = queue[i]
      OBVIOUS
    <3>1. i + 1 \in 1..(Len(queue) + 1) /\ i + 1 > 1 /\ (i + 1) - 1 = i
      BY <2>1
    <3>2. Deferred[i + 1] = queue[(i + 1) - 1]
      BY <2>2, <3>1
    <3> QED BY <2>2, <3>1, <3>2
  <2> QED BY <2>3 DEF Alike, QueueKeeps
<1> QED BY <1>1, <1>2, DeferredElements

LEMMA NextKept ==
  ASSUME IndInv, ShutInv, LoopRest, KeptInv, [Next]_vars
  PROVE  KeptInv'
<1>0. TypeOK /\ LoopShape /\ ShutInv /\ KeptInv /\ LoopRest /\ Alike(queue, queue)
      /\ (queue' = queue => QueueKeeps)
  BY DEF IndInv, QueueKeeps, Alike
<1>1. ASSUME NEW m \in Messages, Post(m) PROVE KeptInv'
  BY <1>0, <1>1, CarriedKept DEF Post, Grows, trackerVars, contextVars, loopVars
<1>2. ASSUME NEW m \in Messages, Deliver(m) PROVE KeptInv'
  <2>1. /\ QueueKeeps /\ UNCHANGED <<closed, taken, executed, seenAt>>
        /\ Ended \/ \E j \in 1..Len(queue') : queue'[j] = Entry("message", m, None)
        /\ accepted' = IF Ended THEN accepted ELSE accepted \cup {m}
    BY <1>0, <1>2, EntryType, PushKeeps DEF Deliver, contextVars, loopVars
  <2>2. CASE Ended
    BY <1>0, <2>1, <2>2, CarriedKept DEF Grows
  <2>3. CASE ~Ended
    <3>1. Entry("message", m, None).kind = "message" /\ Entry("message", m, None).id = m
      BY DEF Entry
    <3>2. ~closed' => Carried(m)'
      BY <2>1, <2>3, <3>1 DEF Carried
    <3>3. ~closed' => \A k \in accepted : Carried(k)'
      BY <1>0, <2>1 DEF KeptInv, Carried, QueueKeeps, TypeOK
    <3> QED BY <2>1, <3>2, <3>3 DEF KeptInv
  <2> QED BY <2>2, <2>3
<1>3. CASE Reconnect
  <2>0. begun + 1 \in Boundaries
    BY <1>0, <1>3, RoomAssumption DEF Reconnect, Boundaries, TypeOK, TrackerType
  <2>1. QueueKeeps
    BY <1>0, <1>3, <2>0, EntryType, PushKeeps DEF Reconnect
  <2> QED BY <1>0, <1>3, <2>1, CarriedKept DEF Reconnect, Grows, trackerVars, contextVars, loopVars
<1>4. ASSUME NEW m \in Messages, BootstrapMessage(m) PROVE KeptInv'
  <2>1. QueueKeeps
    BY <1>0, <1>4, EntryType, PushKeeps DEF BootstrapMessage
  <2> QED BY <1>0, <1>4, <2>1, CarriedKept DEF BootstrapMessage, Grows, trackerVars, contextVars, loopVars
<1>5. ASSUME NEW m \in Messages, HoldEnds(m) PROVE KeptInv'
  <2>1. Alike(queue, queue')
    BY <1>0, <1>5, NotifyAlike DEF HoldEnds, TypeOK
  <2> QED BY <1>0, <1>5, <2>1, AlikeKeeps, CarriedKept DEF HoldEnds, Grows, trackerVars, contextVars, loopVars
<1>6. CASE AskChanges
  BY <1>0, <1>6, CarriedKept DEF AskChanges, Grows, trackerVars, contextVars, loopVars
<1>7. CASE Hydrated
  BY <1>0, <1>7, CarriedKept DEF Hydrated, Grows, trackerVars, contextVars, loopVars
<1>8. CASE TurnClaimed
  BY <1>0, <1>8, CarriedKept DEF TurnClaimed, Grows, trackerVars, contextVars, loopVars
<1>9. CASE AgentReturns
  BY <1>0, <1>9, CarriedKept DEF AgentReturns, Grows, trackerVars, contextVars, loopVars
<1>10. CASE TurnSettled
  BY <1>0, <1>10, CarriedKept DEF TurnSettled, Grows, trackerVars, contextVars, loopVars
<1>11. CASE SyncTurnReturns
  <2>1. PICK k : AfterMessage(k)
    BY <1>11 DEF SyncTurnReturns
  <2>2. UNCHANGED <<closed, accepted, seenAt>>
    BY <1>11 DEF SyncTurnReturns, contextVars
  <2> QED BY <1>0, <2>1, <2>2, AfterMessageGrows, AlikeKeeps, CarriedKept
<1>12. CASE GiveUpClaimed
  <2>1. UNCHANGED <<closed, accepted, seenAt>>
    BY <1>12 DEF GiveUpClaimed, contextVars
  <2>2. CASE AfterMessage(inFlight)
    BY <1>0, <2>1, <2>2, AfterMessageGrows, AlikeKeeps, CarriedKept
  <2>3. CASE ~AfterMessage(inFlight)
    BY <1>0, <1>12, <2>1, <2>3, CarriedKept DEF GiveUpClaimed, Grows, trackerVars, loopVars
  <2> QED BY <2>2, <2>3
<1>13. CASE GiveUpMarked
  <2>1. PICK k : AfterMessage(k)
    BY <1>13 DEF GiveUpMarked
  <2>2. UNCHANGED <<closed, accepted, seenAt>>
    BY <1>13 DEF GiveUpMarked, contextVars
  <2> QED BY <1>0, <2>1, <2>2, AfterMessageGrows, AlikeKeeps, CarriedKept
<1>14. CASE StaleFetched
  BY <1>0, <1>14, CarriedKept DEF StaleFetched, Grows, trackerVars, contextVars, loopVars
<1>15. CASE RecoverStale
  <2>1. UNCHANGED <<closed, accepted, queue, executed, taken>>
    BY <1>15 DEF RecoverStale, trackerVars
  <2>2. CASE UNCHANGED seenAt
    BY <1>0, <2>1, <2>2, CarriedKept DEF Grows
  <2>3. CASE ~UNCHANGED seenAt
    <3>1. LET left == staleLeft \ givenUp IN left # {} /\ BeginSync(Oldest(left), "stale", "unseen")
      BY <1>15, <2>3 DEF RecoverStale, contextVars
    <3>2. Oldest(staleLeft \ givenUp) \in Messages
      BY <1>0, <3>1, OldestProperties, MessagesAreNaturals DEF TypeOK, LoopType
    <3>3. Grows
      BY <1>0, <2>1, <3>1, <3>2, BeginSyncGrows
    <3> QED BY <1>0, <2>1, <3>3, CarriedKept
  <2> QED BY <2>2, <2>3
<1>16. CASE SynchronizeWithNext
  <2>1. UNCHANGED <<closed, accepted, executed, seenAt, taken>>
    BY <1>16 DEF SynchronizeWithNext, contextVars
  <2>2. Alike(queue, queue') \/ Alike(Deferred, queue')
    BY <1>0, <1>16, NotifyAlike, DeferredType DEF SynchronizeWithNext, EndScan, TypeOK
  <2>3. QueueKeeps
    BY <1>0, <2>2, AlikeKeeps, DeferredKeeps
  <2> QED BY <1>0, <2>1, <2>3, CarriedKept DEF Grows
<1>17. CASE NextRead
  <2>1. UNCHANGED <<closed, accepted, executed, taken>>
    BY <1>17 DEF NextRead
  <2>2. Alike(queue, queue')
    BY <1>0, <1>17, NotifyAlike DEF NextRead, EndScan, TypeOK
  <2>3. CASE UNCHANGED seenAt
    BY <1>0, <2>1, <2>2, <2>3, AlikeKeeps, CarriedKept DEF Grows
  <2>4. CASE ~UNCHANGED seenAt
    <3>1. ~ScanOver /\ BeginSync(Oldest(Unprocessed), "sync", "unseen")
      BY <1>17, <2>4 DEF NextRead, contextVars
    <3>2. Oldest(Unprocessed) \in Messages
      BY <3>1, OldestProperties, MessagesAreNaturals DEF ScanOver, Unprocessed, Born
    <3>3. Grows
      BY <1>0, <2>1, <3>1, <3>2, BeginSyncGrows
    <3> QED BY <1>0, <2>1, <2>2, <3>3, AlikeKeeps, CarriedKept
  <2> QED BY <2>3, <2>4
<1>18. CASE NextReadFails
  BY <1>18 DEF NextReadFails, KeptInv
<1>19. CASE NextQueuedEvent
  <2>1. UNCHANGED <<closed, accepted, executed, seenAt>>
    BY <1>19 DEF NextQueuedEvent, trackerVars, contextVars
  <2>2. CASE pc' # "dispatch"
    <3>1. Alike(queue, queue') /\ taken' = taken
      BY <1>0, <1>19, <2>2, SightedAlike DEF NextQueuedEvent, TypeOK
    <3> QED BY <1>0, <2>1, <3>1, AlikeKeeps, CarriedKept DEF Grows
  <2>3. CASE pc' = "dispatch"
    <3> DEFINE s == Sighted(queue, hold)
               i == Oldest(Runnable(queue, hold))
    <3>1. taken' = s[i] /\ queue' = RemoveAt(s, i) /\ Runnable(queue, hold) # {} /\ pc # "dispatch"
      BY <1>19, <2>3 DEF NextQueuedEvent
    <3>2. s \in Seq(Entries) /\ Alike(queue, s) /\ Len(s) \in Nat
      BY <1>0, SightedType, SightedAlike, LenProperties DEF TypeOK
    <3>3. i \in 1..Len(s)
      <4>1. Runnable(queue, hold) \subseteq 1..Len(queue) /\ 1..Len(queue) \subseteq Nat
        BY <1>0, SeqFacts DEF Runnable, TypeOK
      <4>2. i \in Runnable(queue, hold)
        BY <3>1, <4>1, OldestProperties
      <4> QED BY <3>2, <4>1, <4>2 DEF Alike
    <3> HIDE DEF s, i
    <3>4. Len(queue') = Len(s) - 1 /\ \A j \in 1..(Len(s) - 1) : queue'[j] = IF j < i THEN s[j] ELSE s[j + 1]
      BY <3>1, <3>2, <3>3, RemoveAtElements
    <3>5. ASSUME NEW k \in 1..Len(queue), queue[k].kind = "message"
          PROVE  \/ taken'.kind = "message" /\ taken'.id = queue[k].id
                 \/ \E j \in 1..Len(queue') : queue'[j].kind = "message" /\ queue'[j].id = queue[k].id
      <4>1. k \in 1..Len(s) /\ s[k].kind = "message" /\ s[k].id = queue[k].id
        BY <3>2, <3>5 DEF Alike
      <4>2. CASE k = i
        BY <3>1, <4>1, <4>2
      <4>3. CASE k < i
        BY <3>2, <3>3, <3>4, <4>1, <4>3
      <4>4. CASE k > i
        <5>1. k - 1 \in 1..Len(queue') /\ ~(k - 1 < i) /\ (k - 1) + 1 = k
          BY <3>2, <3>3, <3>4, <4>1, <4>4
        <5>2. queue'[k - 1] = s[k]
          BY <3>4, <5>1
        <5> QED BY <4>1, <5>1, <5>2
      <4> QED BY <3>2, <3>3, <4>1, <4>2, <4>3, <4>4
    <3>6. taken.kind # "message"
      BY <1>0, <3>1, SeqFacts DEF LoopRest
    <3> QED BY <1>0, <2>1, <3>5, <3>6 DEF KeptInv, Carried
  <2> QED BY <2>2, <2>3
<1>20. CASE Dispatch
  <2>1. UNCHANGED <<closed, status, accepted, executed>> /\ pc = "dispatch" /\ taken \in Entries /\ taken' = NoEvent
    BY <1>0, <1>20 DEF Dispatch, trackerVars, LoopShape
  <2>2. CASE SkipExecuted
    <3>1. Alike(queue, queue') /\ UNCHANGED seenAt /\ taken.id \in executed
      BY <1>0, <2>2, NotifyAlike DEF SkipExecuted, contextVars, TypeOK
    <3>2. QueueKeeps
      BY <3>1, AlikeKeeps
    <3> QED BY <1>0, <2>1, <3>1, <3>2 DEF KeptInv, Carried, QueueKeeps, TypeOK
  <2>3. CASE CatchUp
    BY <1>0, <2>1, <2>3, CarriedKept DEF CatchUp, contextVars, Grows, QueueKeeps
  <2>4. CASE DispatchMessage
    <3>1. taken.id \in Messages /\ queue' = queue
      BY <2>1, <2>4, SeqFacts DEF DispatchMessage
    <3>2. CASE taken.kind = "bootstrap"
      <4>1. Grows
        BY <1>0, <2>1, <2>4, <3>1, <3>2, BeginSyncGrows DEF DispatchMessage
      <4> QED BY <1>0, <2>1, <3>1, <3>2, <4>1, CarriedKept DEF QueueKeeps
    <3>3. CASE taken.kind # "bootstrap"
      <4>1. Grows /\ (Active => taken.id \in Echoes \/ seenAt'[taken.id] > 0)
        BY <1>0, <2>1, <2>4, <3>1, <3>3, BeginTurnGrows DEF DispatchMessage
      <4>2. ~closed => Active
        BY <1>0 DEF ShutInv, Active
      <4> QED BY <1>0, <2>1, <3>1, <4>1, <4>2 DEF KeptInv, Carried, Grows, TypeOK
    <3> QED BY <3>2, <3>3
  <2> QED BY <1>20, <2>2, <2>3, <2>4 DEF Dispatch
<1>21. CASE LiveTurnReturns
  <2>1. UNCHANGED <<accepted, executed, seenAt, taken>> /\ (closed => closed')
    BY <1>21 DEF LiveTurnReturns, trackerVars, contextVars, loopVars
  <2>2. Alike(queue, queue')
    BY <1>0, <1>21, NotifyAlike DEF LiveTurnReturns, TypeOK
  <2> QED BY <1>0, <2>1, <2>2, AlikeKeeps, CarriedKept DEF Grows
<1>22. CASE RoomFails
  BY <1>0, <1>22 DEF RoomFails, ShutInv, KeptInv
<1>23. CASE LoopCrashes
  BY <1>0, <1>23, CarriedKept DEF LoopCrashes, Grows, trackerVars, contextVars, loopVars
<1>24. ASSUME NEW b \in StopBudgets, Stop(b) PROVE KeptInv'
  <2>1. UNCHANGED <<accepted, executed, seenAt, taken>> /\ (closed => closed')
    BY <1>24 DEF Stop, CloseQueue, trackerVars, contextVars, loopVars
  <2>2. ~closed' => Alike(queue, queue')
    BY <1>0, <1>24, NotifyAlike DEF Stop, CloseQueue, TypeOK
  <2> QED BY <1>0, <2>1, <2>2, AlikeKeeps, CarriedKept DEF Grows
<1>25. CASE StopTimesOut
  BY <1>0, <1>25, CarriedKept DEF StopTimesOut, Grows, trackerVars, contextVars, loopVars
<1>26. CASE StopResumes
  <2>1. UNCHANGED <<accepted, executed, seenAt, taken>> /\ (closed' \/ UNCHANGED <<closed, queue>>)
    BY <1>26 DEF StopResumes, CloseQueue, trackerVars, contextVars, loopVars
  <2> QED BY <1>0, <2>1, AlikeKeeps, CarriedKept DEF Grows
<1>27. CASE StopDrained
  BY <1>0, <1>27 DEF StopDrained, ShutInv, KeptInv
<1>28. CASE StopCloses
  BY <1>0, <1>28, CarriedKept DEF StopCloses, Grows, trackerVars, contextVars, loopVars
<1>29. CASE UNCHANGED vars
  BY <1>0, <1>29, CarriedKept DEF vars, Grows, trackerVars, contextVars, loopVars
<1> QED BY <1>0, <1>1, <1>2, <1>3, <1>4, <1>5, <1>6, <1>7, <1>8, <1>9, <1>10, <1>11,
   <1>12, <1>13, <1>14, <1>15, <1>16, <1>17, <1>18, <1>19, <1>20, <1>21, <1>22, <1>23,
   <1>24, <1>25, <1>26, <1>27, <1>28, <1>29
      DEF Next, Loop, Stopper, Socket, Held

----------------------------------------------------------------------------
(* Boundaries.                                                             *)

\* Steps that neither open nor complete a boundary, nor hand one on.
LEMMA BoundsKept ==
  ASSUME BoundInv, closed => closed',
         ~closed' => /\ UNCHANGED <<openBounds, begun>> /\ Alike(queue, queue')
                     /\ LoopBounds' = LoopBounds /\ Locals'
  PROVE  BoundInv'
<1> SUFFICES ASSUME ~closed' PROVE Locals' /\ Owned(openBounds', queue', LoopBounds', begun')
  BY DEF BoundInv
<1>1. Owned(openBounds, queue, LoopBounds, begun) /\ Alike(queue, queue')
  BY DEF BoundInv
<1>2. Owned(openBounds, queue', LoopBounds, begun)
  BY <1>1, OwnedAlike
<1> QED BY <1>2

\* What the loop works for, by where it is.
LEMMA LoopBoundsAre ==
  ASSUME LoopRest, Locals
  PROVE  /\ pc # "dispatch" => LoopBounds = (IF StalePhase THEN {1} ELSE {}) \cup ({scan} \ {None})
         /\ pc \in {"sync", "read"} => LoopBounds = {scan} \ {None}
         /\ pc \in {"next", "parked"} => LoopBounds = {}
         /\ pc = "dispatch" => LoopBounds = {taken.boundary} \ {None} /\ scan = None
         /\ pc \in {"fetchStale", "stale"} => LoopBounds = {1} /\ scan = None
         /\ pc \in InTurn \cup GivingUp /\ origin = "sync" => LoopBounds = {scan} \ {None}
         /\ pc \in InTurn \cup GivingUp /\ origin = "live" => LoopBounds = {} /\ scan = None
<1>1. NoEvent.boundary = None
  BY SeqFacts
<1>2. pc # "dispatch" => LoopBounds = (IF StalePhase THEN {1} ELSE {}) \cup ({scan} \ {None})
  BY <1>1 DEF LoopBounds, LoopRest
<1>3. pc \in {"fetchStale", "stale", "dispatch", "next", "parked"} => scan = None
  BY DEF Locals, InTurn, GivingUp
<1>4. pc \in InTurn \cup GivingUp => pc \notin {"dispatch", "sync", "read", "fetchStale", "stale"}
  BY DEF InTurn, GivingUp
<1>5. pc \in {"sync", "read", "dispatch", "next", "parked"} => ~StalePhase
  BY DEF StalePhase, InTurn, GivingUp
<1>6. pc \in InTurn \cup GivingUp => (StalePhase <=> origin = "stale") /\ (origin # "sync" => scan = None)
  BY <1>4 DEF StalePhase, Locals
<1>7. pc \in {"fetchStale", "stale"} => StalePhase
  BY DEF StalePhase
<1>8. pc \in InTurn \cup GivingUp /\ origin = "sync" => LoopBounds = {scan} \ {None}
  BY <1>2, <1>4, <1>6
<1>9. pc \in InTurn \cup GivingUp /\ origin = "live" => LoopBounds = {} /\ scan = None
  BY <1>2, <1>4, <1>6
<1>10. pc = "dispatch" => LoopBounds = {taken.boundary} \ {None}
  BY <1>3, <1>5 DEF LoopBounds
<1> QED BY <1>2, <1>3, <1>5, <1>7, <1>8, <1>9, <1>10

LEMMA LocalsWhenNone ==
  ASSUME scan' = None
  PROVE  Locals'
BY DEF Locals

\* A scan that ends hands on neither its own boundary nor another.
LEMMA EndScanBounds ==
  ASSUME NEW q \in Seq(Entries), NEW n, EndScan(q, n), TypeOK, begun' = begun,
         Owned(openBounds, q, {scan} \ {None}, begun), taken = NoEvent, taken' = taken
  PROVE  BoundInv'
<1>1. scan \in Nat
  BY RoomAssumption DEF TypeOK, LoopType, Boundaries, None
<1>2. Owned(openBounds', q, {}, begun)
  BY <1>1, OwnedEnded DEF EndScan
<1>3. Alike(q, queue')
  <2>1. PICK o, k : NotifyIfIdle(q, o, k, hold)
    BY DEF EndScan
  <2> QED BY <2>1, NotifyAlike
<1>4. Owned(openBounds', queue', {}, begun)
  BY <1>2, <1>3, OwnedAlike
<1>5. LoopRest' /\ Locals' /\ pc' = "next"
  BY LocalsWhenNone DEF EndScan, LoopRest
<1>6. LoopBounds' = {}
  <2>1. scan' = None /\ taken'.boundary = None
    BY SeqFacts DEF EndScan
  <2>2. ~StalePhase'
    BY <1>5 DEF StalePhase, InTurn, GivingUp
  <2> QED BY <2>1, <2>2 DEF LoopBounds
<1> QED BY <1>4, <1>5, <1>6 DEF BoundInv

\* A message's end completes the scan it anchors, or returns to who asked for it.
LEMMA AfterMessageBounds ==
  ASSUME TypeOK, LoopShape, LoopRest, BoundInv, closed' = closed, NEW n, AfterMessage(n),
         pc \in InTurn \cup GivingUp, origin # "live"
  PROVE  BoundInv'
<1> SUFFICES ASSUME ~closed PROVE BoundInv'
  BY DEF BoundInv
<1>1. /\ Locals /\ Owned(openBounds, queue, LoopBounds, begun) /\ pc # "dispatch" /\ taken = NoEvent
      /\ queue \in Seq(Entries) /\ origin \in {"stale", "sync", "bootstrap"}
  BY DEF BoundInv, LoopRest, LoopShape, Origins, InTurn, GivingUp, TypeOK
<1>2. taken' = taken /\ begun' = begun /\ origin' = "none"
  BY DEF AfterMessage, TurnOver
<1>3. CASE origin = "sync" /\ scan # None /\ anchorOf[scan] = cur
  <2>1. EndScan(queue, n)
    BY <1>3 DEF AfterMessage
  <2>2. LoopBounds = {scan} \ {None}
    <3>1. LoopRest /\ Locals /\ origin = "sync"
      BY <1>1, <1>3
    <3> QED BY <3>1, LoopBoundsAre
  <2> QED BY <1>1, <1>2, <2>1, <2>2, EndScanBounds
<1>4. CASE ~(origin = "sync" /\ scan # None /\ anchorOf[scan] = cur)
  <2>1. UNCHANGED <<openBounds, scan>>
    BY <1>4 DEF AfterMessage
  <2>2. Alike(queue, queue')
    <3>1. queue' = queue \/ NotifyIfIdle(queue, openBounds, n, hold)
      BY <1>4 DEF AfterMessage
    <3> QED BY <1>1, <3>1, NotifyAlike DEF Alike
  <2>3. pc' = IF origin = "bootstrap" THEN "next" ELSE origin
    BY <1>4 DEF AfterMessage
  <2>4. LoopRest' /\ Locals'
    BY <1>1, <1>2, <2>1, <2>3 DEF LoopRest, Locals, InTurn, GivingUp
  <2>5. LoopBounds' = LoopBounds
    <3>1. StalePhase' <=> StalePhase
      BY <1>1, <1>2, <2>3 DEF StalePhase, InTurn, GivingUp
    <3> QED BY <1>2, <2>1, <3>1 DEF LoopBounds
  <2> QED BY <1>2, <2>1, <2>2, <2>4, <2>5, BoundsKept
<1> QED BY <1>3, <1>4

LEMMA NextBounds ==
  ASSUME IndInv, ShutInv, LoopRest, BoundInv, [Next]_vars
  PROVE  BoundInv'
<1>0. TypeOK /\ LoopShape /\ ShutInv /\ LoopRest /\ BoundInv /\ Alike(queue, queue)
  BY DEF IndInv, Alike
<1>1. ASSUME NEW m \in Messages, Post(m) PROVE BoundInv'
  <2>1. UNCHANGED <<closed, openBounds, begun, scan, taken, origin, queue, pc>>
    BY <1>1 DEF Post, trackerVars, turnVars, loopVars
  <2> QED BY <1>0, <2>1, BoundsKept DEF BoundInv, LoopBounds, StalePhase, Locals, InTurn, GivingUp
<1>2. ASSUME NEW m \in Messages, Deliver(m) PROVE BoundInv'
  <2>1. /\ UNCHANGED <<closed, openBounds, begun, scan, taken, origin>> /\ Push(Entry("message", m, None))
    BY <1>2 DEF Deliver, trackerVars, loopVars, turnVars
  <2>2. CASE Ended
    BY <1>0, <2>1, <2>2, BoundsKept DEF Push, BoundInv, LoopBounds, StalePhase, Locals, InTurn, GivingUp
  <2>3. CASE ~Ended
    <3>1. queue' = Append(queue, Entry("message", m, None)) /\ pc' = Woken(pc)
      BY <2>1, <2>3 DEF Push
    <3>2. Entry("message", m, None) \in Entries /\ Entry("message", m, None).boundary = None
      BY EntryType DEF Entry
    <3>3. Locals' /\ LoopBounds' = LoopBounds
      <4>1. Locals
        BY <1>0, <2>3 DEF BoundInv, Ended
      <4> QED BY <2>1, <3>1, <4>1 DEF Woken, LoopBounds, StalePhase, Locals, InTurn, GivingUp
    <3>4. Owned(openBounds, queue', LoopBounds, begun)
      BY <1>0, <2>3, <3>1, <3>2, OwnedAppendNone DEF BoundInv, Ended, TypeOK
    <3> QED BY <2>1, <3>3, <3>4 DEF BoundInv
  <2> QED BY <2>2, <2>3
<1>3. CASE Reconnect
  <2> SUFFICES ASSUME ~closed PROVE BoundInv'
    BY <1>3 DEF Reconnect, BoundInv
  <2> DEFINE e == Entry("reconnected", None, begun + 1)
  <2>1. ~Ended /\ Locals /\ Owned(openBounds, queue, LoopBounds, begun)
    BY <1>0 DEF Ended, ShutInv, BoundInv
  <2>2. /\ begun' = begun + 1 /\ openBounds' = Append(openBounds, begun + 1)
        /\ queue' = Append(queue, e) /\ pc' = Woken(pc) /\ UNCHANGED <<scan, taken, origin>>
    BY <1>3, <2>1 DEF Reconnect, Push, loopVars, turnVars
  <2>3. begun + 1 \in Boundaries
    BY <1>0, <1>3, RoomAssumption DEF Reconnect, Boundaries, TypeOK, TrackerType
  <2>4. e \in Entries /\ e.boundary = begun + 1 /\ e.kind = "reconnected" /\ ~e.afterHold
    BY <2>3, EntryType DEF Entry
  <2>5. Locals' /\ LoopBounds' = LoopBounds
    BY <2>1, <2>2 DEF Woken, LoopBounds, StalePhase, Locals, InTurn, GivingUp
  <2> HIDE DEF e
  <2>6. Owned(Append(openBounds, begun + 1), Append(queue, e), LoopBounds, begun + 1)
    BY <1>0, <2>1, <2>4, OwnedAppendNew DEF TypeOK
  <2> QED BY <2>2, <2>5, <2>6 DEF BoundInv
<1>4. ASSUME NEW m \in Messages, BootstrapMessage(m) PROVE BoundInv'
  <2>1. /\ UNCHANGED <<closed, openBounds, begun, scan, taken, origin>> /\ Push(Entry("bootstrap", m, None))
    BY <1>4 DEF BootstrapMessage, trackerVars, loopVars, turnVars
  <2>2. CASE Ended
    BY <1>0, <2>1, <2>2, BoundsKept DEF Push, BoundInv, LoopBounds, StalePhase, Locals, InTurn, GivingUp
  <2>3. CASE ~Ended
    <3>1. queue' = Append(queue, Entry("bootstrap", m, None)) /\ pc' = Woken(pc)
      BY <2>1, <2>3 DEF Push
    <3>2. Entry("bootstrap", m, None) \in Entries /\ Entry("bootstrap", m, None).boundary = None
      BY EntryType DEF Entry
    <3>3. Locals' /\ LoopBounds' = LoopBounds
      <4>1. Locals
        BY <1>0, <2>3 DEF BoundInv, Ended
      <4> QED BY <2>1, <3>1, <4>1 DEF Woken, LoopBounds, StalePhase, Locals, InTurn, GivingUp
    <3>4. Owned(openBounds, queue', LoopBounds, begun)
      BY <1>0, <2>3, <3>1, <3>2, OwnedAppendNone DEF BoundInv, Ended, TypeOK
    <3> QED BY <2>1, <3>3, <3>4 DEF BoundInv
  <2> QED BY <2>2, <2>3
<1>5. ASSUME NEW m \in Messages, HoldEnds(m) PROVE BoundInv'
  <2>1. UNCHANGED <<closed, openBounds, begun, scan, taken, origin>> /\ pc' \in {pc, Woken(pc)}
    BY <1>5 DEF HoldEnds, trackerVars, loopVars, turnVars
  <2>2. Alike(queue, queue')
    BY <1>0, <1>5, NotifyAlike DEF HoldEnds, TypeOK
  <2>3. ~closed => Locals' /\ LoopBounds' = LoopBounds
    BY <1>0, <2>1 DEF Woken, BoundInv, LoopBounds, StalePhase, Locals, InTurn, GivingUp
  <2> QED BY <1>0, <2>1, <2>2, <2>3, BoundsKept
<1>6. CASE AskChanges
  <2>1. UNCHANGED <<closed, openBounds, begun, scan, taken, origin, queue, pc>>
    BY <1>6 DEF AskChanges, trackerVars, turnVars, loopVars
  <2> QED BY <1>0, <2>1, BoundsKept DEF BoundInv, LoopBounds, StalePhase, Locals, InTurn, GivingUp
<1>7. CASE Hydrated
  <2>1. /\ UNCHANGED <<closed, openBounds, begun, scan, taken, origin, queue>>
        /\ pc \in InTurn /\ pc' \in InTurn
    BY <1>7 DEF Hydrated, trackerVars, turnVars, loopVars, InTurn
  <2> QED BY <1>0, <2>1, BoundsKept DEF BoundInv, LoopBounds, StalePhase, Locals, InTurn, GivingUp
<1>8. CASE TurnClaimed
  <2>1. /\ UNCHANGED <<closed, openBounds, begun, scan, taken, origin, queue>>
        /\ pc \in InTurn /\ pc' \in InTurn
    BY <1>8 DEF TurnClaimed, trackerVars, turnVars, loopVars, InTurn
  <2> QED BY <1>0, <2>1, BoundsKept DEF BoundInv, LoopBounds, StalePhase, Locals, InTurn, GivingUp
<1>9. CASE AgentReturns
  <2>1. /\ UNCHANGED <<closed, openBounds, begun, scan, taken, origin, queue>>
        /\ pc \in InTurn /\ pc' \in InTurn
    BY <1>9 DEF AgentReturns, trackerVars, turnVars, loopVars, InTurn
  <2> QED BY <1>0, <2>1, BoundsKept DEF BoundInv, LoopBounds, StalePhase, Locals, InTurn, GivingUp
<1>10. CASE TurnSettled
  <2>1. /\ UNCHANGED <<closed, openBounds, begun, scan, taken, origin, queue>>
        /\ pc \in InTurn /\ pc' \in InTurn
    BY <1>10 DEF TurnSettled, trackerVars, turnVars, loopVars, InTurn
  <2> QED BY <1>0, <2>1, BoundsKept DEF BoundInv, LoopBounds, StalePhase, Locals, InTurn, GivingUp
<1>11. CASE SyncTurnReturns
  <2>1. PICK k : AfterMessage(k)
    BY <1>11 DEF SyncTurnReturns
  <2>2. closed' = closed /\ pc \in InTurn \cup GivingUp /\ origin # "live"
    BY <1>0, <1>11 DEF SyncTurnReturns, LoopShape, InTurn, GivingUp
  <2> QED BY <1>0, <2>1, <2>2, AfterMessageBounds
<1>12. CASE GiveUpClaimed
  <2>1. closed' = closed /\ pc \in InTurn \cup GivingUp /\ origin # "live"
    BY <1>0, <1>12 DEF GiveUpClaimed, LoopShape, InTurn, GivingUp
  <2>2. CASE AfterMessage(inFlight)
    BY <1>0, <2>1, <2>2, AfterMessageBounds
  <2>3. CASE ~AfterMessage(inFlight)
    <3>1. /\ pc = "giveUpClaim" /\ pc' = "giveUpMark"
          /\ UNCHANGED <<queue, openBounds, begun, scan, taken, origin>>
      BY <1>12, <2>3 DEF GiveUpClaimed, trackerVars, turnVars, loopVars
    <3> QED BY <1>0, <2>1, <3>1, BoundsKept DEF BoundInv, LoopBounds, StalePhase, Locals, InTurn, GivingUp
  <2> QED BY <2>2, <2>3
<1>13. CASE GiveUpMarked
  <2>1. PICK k : AfterMessage(k)
    BY <1>13 DEF GiveUpMarked
  <2>2. closed' = closed /\ pc \in InTurn \cup GivingUp /\ origin # "live"
    BY <1>0, <1>13 DEF GiveUpMarked, LoopShape, InTurn, GivingUp
  <2> QED BY <1>0, <2>1, <2>2, AfterMessageBounds
<1>14. CASE StaleFetched
  <2>1. /\ UNCHANGED <<closed, openBounds, begun, scan, taken, origin, queue>>
        /\ pc = "fetchStale" /\ pc' = "stale"
    BY <1>14 DEF StaleFetched, trackerVars, turnVars
  <2> QED BY <1>0, <2>1, BoundsKept DEF BoundInv, LoopBounds, StalePhase, Locals, InTurn, GivingUp
<1>15. CASE RecoverStale
  <2> SUFFICES ASSUME ~closed PROVE BoundInv'
    BY <1>15 DEF RecoverStale, BoundInv
  <2>1. UNCHANGED <<closed, openBounds, begun, queue, taken>> /\ pc = "stale"
    BY <1>15 DEF RecoverStale, trackerVars
  <2>2. Locals /\ LoopBounds = {1} /\ scan = None /\ taken = NoEvent
    BY <1>0, <2>1, LoopBoundsAre DEF BoundInv, LoopRest
  <2>3. CASE scan' = 1 /\ pc' = "sync"
    <3>1. LoopRest' /\ Locals'
      BY <2>1, <2>2, <2>3 DEF LoopRest, Locals
    <3>2. LoopBounds' = {1}
      <4>1. ~StalePhase' /\ taken'.boundary = None /\ 1 # None
        BY <2>1, <2>2, <2>3, SeqFacts DEF StalePhase, InTurn, GivingUp, None
      <4> QED BY <2>3, <4>1 DEF LoopBounds
    <3> QED BY <1>0, <2>1, <2>2, <3>1, <3>2, BoundsKept
  <2>4. CASE ~(scan' = 1 /\ pc' = "sync")
    <3>1. scan' = scan /\ \E k : BeginSync(k, "stale", "unseen")
      BY <1>15, <2>4 DEF RecoverStale
    <3>2. origin' = "stale" /\ pc' \in InTurn \cup GivingUp
      BY <3>1 DEF BeginSync, BeginTurn, InTurn, GivingUp
    <3>3. Locals'
      BY <2>2, <3>1, LocalsWhenNone
    <3>4. LoopBounds' = {1}
      <4>1. StalePhase' /\ taken'.boundary = None /\ scan' = None
        BY <2>1, <2>2, <3>1, <3>2, SeqFacts DEF StalePhase
      <4> QED BY <4>1 DEF LoopBounds
    <3> QED BY <1>0, <2>1, <2>2, <3>3, <3>4, BoundsKept
  <2> QED BY <2>3, <2>4
<1>16. CASE SynchronizeWithNext
  <2> SUFFICES ASSUME ~closed PROVE BoundInv'
    BY <1>16 DEF SynchronizeWithNext, BoundInv
  <2>1. UNCHANGED <<closed, begun, taken>> /\ pc \in {"sync", "read"}
    BY <1>16 DEF SynchronizeWithNext
  <2>2. /\ Locals /\ LoopBounds = {scan} \ {None} /\ taken = NoEvent /\ queue \in Seq(Entries)
        /\ Owned(openBounds, queue, {scan} \ {None}, begun)
    BY <1>0, <2>1, LoopBoundsAre DEF BoundInv, LoopRest, TypeOK
  <2>3. CASE EndScan(queue, inFlight)
    BY <1>0, <2>1, <2>2, <2>3, EndScanBounds
  <2>4. CASE EndScan(Deferred, inFlight)
    <3>1. Owned(openBounds, Deferred, {scan} \ {None}, begun) /\ Deferred \in Seq(Entries)
      BY <1>0, <2>2, DeferredElements, DeferredType, OwnedPrepend
    <3> QED BY <1>0, <2>1, <2>2, <2>4, <3>1, EndScanBounds
  <2>5. CASE pc' = "read" /\ UNCHANGED <<queue, openBounds, scan>>
    <3>1. LoopRest' /\ Locals'
      BY <2>1, <2>2, <2>5 DEF LoopRest, Locals
    <3>2. LoopBounds' = {scan} \ {None}
      <4>1. ~StalePhase' /\ taken'.boundary = None
        BY <2>1, <2>2, <2>5, SeqFacts DEF StalePhase, InTurn, GivingUp
      <4> QED BY <2>5, <4>1 DEF LoopBounds
    <3> QED BY <1>0, <2>1, <2>2, <2>5, <3>1, <3>2, BoundsKept
  <2> QED BY <1>16, <2>3, <2>4, <2>5 DEF SynchronizeWithNext
<1>17. CASE NextRead
  <2> SUFFICES ASSUME ~closed PROVE BoundInv'
    BY <1>17 DEF NextRead, BoundInv
  <2>1. UNCHANGED <<closed, begun, taken>> /\ pc \in {"sync", "read"}
    BY <1>17 DEF NextRead
  <2>2. /\ Locals /\ LoopBounds = {scan} \ {None} /\ taken = NoEvent /\ queue \in Seq(Entries)
        /\ Owned(openBounds, queue, {scan} \ {None}, begun)
    BY <1>0, <2>1, LoopBoundsAre DEF BoundInv, LoopRest, TypeOK
  <2>3. CASE ScanOver
    BY <1>0, <1>17, <2>1, <2>2, <2>3, EndScanBounds DEF NextRead
  <2>4. CASE ~ScanOver
    <3>1. UNCHANGED <<queue, openBounds, scan>>
      BY <1>17, <2>4 DEF NextRead
    <3>2. origin' = "sync" /\ pc' \in InTurn \cup GivingUp
      BY <1>17, <2>4 DEF NextRead, BeginSync, BeginTurn, InTurn, GivingUp
    <3>3. Locals'
      BY <3>2 DEF Locals
    <3>4. LoopBounds' = {scan} \ {None}
      <4>1. ~StalePhase' /\ taken'.boundary = None
        BY <2>1, <2>2, <3>2, SeqFacts DEF StalePhase, InTurn, GivingUp
      <4> QED BY <3>1, <4>1 DEF LoopBounds
    <3> QED BY <1>0, <2>1, <2>2, <3>1, <3>3, <3>4, BoundsKept
  <2> QED BY <2>3, <2>4
<1>18. CASE NextReadFails
  BY <1>18 DEF NextReadFails, BoundInv
<1>19. CASE NextQueuedEvent
  <2> SUFFICES ASSUME ~closed PROVE BoundInv'
    BY <1>19 DEF NextQueuedEvent, BoundInv
  <2>1. UNCHANGED <<closed, begun, openBounds, scan, origin>> /\ pc = "next" /\ Active
    BY <1>0, <1>19 DEF NextQueuedEvent, trackerVars, turnVars, ShutInv, Active
  <2>2. /\ Locals /\ LoopBounds = {} /\ scan = None /\ taken = NoEvent /\ queue \in Seq(Entries)
        /\ Owned(openBounds, queue, {}, begun)
    BY <1>0, <2>1, LoopBoundsAre DEF BoundInv, LoopRest, TypeOK, Locals, InTurn, GivingUp
  <2>3. Locals'
    BY <2>1, <2>2, LocalsWhenNone
  <2>4. CASE Runnable(queue, hold) = {}
    <3>1. pc' = "parked" /\ taken' = taken /\ Alike(queue, queue')
      BY <1>19, <2>1, <2>2, <2>4, SightedAlike DEF NextQueuedEvent
    <3>2. LoopBounds' = {}
      <4>1. ~StalePhase' /\ taken'.boundary = None /\ scan' = None
        BY <2>1, <2>2, <3>1, SeqFacts DEF StalePhase, InTurn, GivingUp
      <4> QED BY <4>1 DEF LoopBounds
    <3> QED BY <1>0, <2>1, <2>2, <2>3, <3>1, <3>2, BoundsKept
  <2>5. CASE Runnable(queue, hold) # {}
    <3> DEFINE s == Sighted(queue, hold)
               i == Oldest(Runnable(queue, hold))
    <3>1. pc' = "dispatch" /\ taken' = s[i] /\ queue' = RemoveAt(s, i)
      BY <1>19, <2>1, <2>5 DEF NextQueuedEvent
    <3>2. s \in Seq(Entries) /\ Alike(queue, s) /\ Len(s) = Len(queue)
      BY <2>2, SightedType, SightedAlike, SightedSame
    <3>3. /\ Runnable(queue, hold) \subseteq 1..Len(queue) /\ Runnable(queue, hold) \subseteq Nat
          /\ \A j \in 1..Len(queue) : MayRun(queue[j], hold) => j \in Runnable(queue, hold)
      BY <2>2, SeqFacts DEF Runnable
    <3>4. i \in 1..Len(queue) /\ \A j \in Runnable(queue, hold) : i <= j
      BY <2>5, <3>3, OldestProperties
    <3> HIDE DEF s, i
    <3>5. ASSUME NEW j \in 1..Len(s), j < i PROVE s[j].boundary = None
      <4>1. ~MayRun(queue[j], hold)
        BY <3>2, <3>3, <3>4, <3>5
      <4>2. queue[j].boundary # None => queue[j].kind = "reconnected" /\ ~queue[j].afterHold
        BY <2>2, <3>2 DEF Owned, QueuedAfter
      <4>3. queue[j].boundary = None
        BY <4>1, <4>2 DEF MayRun
      <4> QED BY <3>2, <4>3 DEF Alike
    <3>6. Owned(openBounds, s, {}, begun)
      BY <2>2, <3>2, OwnedAlike
    <3>7. Owned(openBounds, queue', {taken'.boundary} \ {None}, begun)
      BY <3>1, <3>2, <3>4, <3>5, <3>6, OwnedTaken
    <3>8. LoopBounds' = {taken'.boundary} \ {None}
      <4>1. ~StalePhase' /\ scan' = None
        BY <2>1, <2>2, <3>1 DEF StalePhase, InTurn, GivingUp
      <4> QED BY <4>1 DEF LoopBounds
    <3> QED BY <2>1, <2>3, <3>7, <3>8 DEF BoundInv
  <2> QED BY <2>4, <2>5
<1>20. CASE Dispatch
  <2> SUFFICES ASSUME ~closed PROVE BoundInv'
    BY <1>20 DEF Dispatch, BoundInv
  <2>1. /\ UNCHANGED <<closed, begun, openBounds>> /\ pc = "dispatch" /\ taken \in Entries
        /\ taken' = NoEvent /\ taken'.boundary = None
    BY <1>0, <1>20, SeqFacts DEF Dispatch, trackerVars, LoopShape
  <2>2. Locals /\ LoopBounds = {taken.boundary} \ {None} /\ scan = None
    BY <1>0, <2>1, LoopBoundsAre DEF BoundInv
  <2>3. CASE CatchUp
    <3>1. scan' = taken.boundary /\ pc' = "sync" /\ queue' = queue
      BY <2>3 DEF CatchUp
    <3>2. Locals' /\ ~StalePhase'
      BY <3>1 DEF Locals, StalePhase, InTurn, GivingUp
    <3>3. LoopBounds' = LoopBounds
      BY <2>1, <2>2, <3>1, <3>2 DEF LoopBounds
    <3> QED BY <1>0, <2>1, <3>1, <3>2, <3>3, BoundsKept
  <2>4. CASE SkipExecuted \/ DispatchMessage
    <3>1. taken.boundary = None /\ LoopBounds = {}
      BY <2>1, <2>2, <2>4, SeqFacts DEF SkipExecuted, DispatchMessage
    <3>2. scan' = None /\ Alike(queue, queue')
      BY <1>0, <2>2, <2>4, NotifyAlike DEF SkipExecuted, DispatchMessage, TypeOK
    <3>3. ~StalePhase'
      BY <2>4 DEF SkipExecuted, DispatchMessage, BeginSync, BeginTurn, StalePhase, InTurn, GivingUp
    <3>4. Locals' /\ LoopBounds' = {}
      BY <2>1, <3>2, <3>3, LocalsWhenNone DEF LoopBounds
    <3> QED BY <1>0, <2>1, <3>1, <3>2, <3>4, BoundsKept
  <2> QED BY <1>20, <2>3, <2>4 DEF Dispatch
<1>21. CASE LiveTurnReturns
  <2> SUFFICES ASSUME ~closed' PROVE BoundInv'
    BY DEF BoundInv
  <2>1. /\ UNCHANGED <<closed, begun, openBounds, scan, taken>> /\ pc = "return" /\ origin = "live"
        /\ pc' = "next" /\ pc \in InTurn
    BY <1>21 DEF LiveTurnReturns, trackerVars, loopVars, InTurn
  <2>2. Alike(queue, queue')
    BY <1>0, <1>21, <2>1, NotifyAlike DEF LiveTurnReturns, TypeOK
  <2>3. Locals /\ LoopBounds = {} /\ scan = None /\ taken = NoEvent
    <3>1. Locals /\ LoopRest /\ pc # "dispatch"
      BY <1>0, <2>1 DEF BoundInv, InTurn
    <3>2. pc \in InTurn \cup GivingUp
      BY <2>1
    <3> QED BY <2>1, <3>1, <3>2, LoopBoundsAre DEF LoopRest
  <2>4. LoopBounds' = {} /\ Locals'
    <3>1. ~StalePhase' /\ taken'.boundary = None /\ scan' = None
      BY <2>1, <2>3, SeqFacts DEF StalePhase, InTurn, GivingUp
    <3> QED BY <3>1, LocalsWhenNone DEF LoopBounds
  <2> QED BY <1>0, <2>1, <2>2, <2>3, <2>4, BoundsKept
<1>22. CASE RoomFails
  BY <1>0, <1>22 DEF RoomFails, ShutInv, BoundInv
<1>23. CASE LoopCrashes
  BY <1>0, <1>23 DEF LoopCrashes, ShutInv, BoundInv
<1>24. ASSUME NEW b \in StopBudgets, Stop(b) PROVE BoundInv'
  <2>1. UNCHANGED <<openBounds, begun, scan, taken, origin>> /\ (closed => closed') /\ (~closed' => pc' = pc)
    BY <1>24 DEF Stop, CloseQueue, trackerVars, turnVars, loopVars
  <2>2. ~closed' => Alike(queue, queue')
    BY <1>0, <1>24, NotifyAlike DEF Stop, CloseQueue, TypeOK
  <2> QED BY <1>0, <2>1, <2>2, BoundsKept DEF BoundInv, LoopBounds, StalePhase, Locals, InTurn, GivingUp
<1>25. CASE StopTimesOut
  <2>1. UNCHANGED <<closed, openBounds, begun, scan, taken, origin, queue, pc>>
    BY <1>25 DEF StopTimesOut, trackerVars, turnVars, loopVars
  <2> QED BY <1>0, <2>1, BoundsKept DEF BoundInv, LoopBounds, StalePhase, Locals, InTurn, GivingUp
<1>26. CASE StopResumes
  <2>1. /\ UNCHANGED <<openBounds, begun, scan, taken, origin>> /\ (closed => closed')
        /\ closed' \/ UNCHANGED <<closed, pc, queue>>
    BY <1>26 DEF StopResumes, CloseQueue, trackerVars, turnVars, loopVars
  <2> QED BY <1>0, <2>1, BoundsKept DEF BoundInv, LoopBounds, StalePhase, Locals, InTurn, GivingUp
<1>27. CASE StopDrained
  BY <1>0, <1>27 DEF StopDrained, ShutInv, BoundInv
<1>28. CASE StopCloses
  <2>1. UNCHANGED <<closed, openBounds, begun, scan, taken, origin, queue, pc>>
    BY <1>28 DEF StopCloses, trackerVars, turnVars, loopVars
  <2> QED BY <1>0, <2>1, BoundsKept DEF BoundInv, LoopBounds, StalePhase, Locals, InTurn, GivingUp
<1>29. CASE UNCHANGED vars
  <2>1. UNCHANGED <<closed, openBounds, begun, scan, taken, origin, queue, pc>>
    BY <1>29 DEF vars, trackerVars, turnVars, loopVars
  <2> QED BY <1>0, <2>1, BoundsKept DEF BoundInv, LoopBounds, StalePhase, Locals, InTurn, GivingUp
<1> QED BY <1>0, <1>1, <1>2, <1>3, <1>4, <1>5, <1>6, <1>7, <1>8, <1>9, <1>10, <1>11,
   <1>12, <1>13, <1>14, <1>15, <1>16, <1>17, <1>18, <1>19, <1>20, <1>21, <1>22, <1>23,
   <1>24, <1>25, <1>26, <1>27, <1>28, <1>29
      DEF Next, Loop, Stopper, Socket, Held

----------------------------------------------------------------------------
(* The theorems.                                                           *)

LEMMA InitQueueInv == Init => QueueInv
<1> SUFFICES ASSUME Init PROVE QueueInv
  OBVIOUS
<1>1. ShutInv /\ LoopRest /\ ParkInv /\ KeptInv
  BY DEF Init, ShutInv, LoopRest, ParkInv, KeptInv
<1>2. Locals /\ LoopBounds = {1}
  <2>1. scan = None /\ taken.boundary = None /\ StalePhase
    BY SeqFacts DEF Init, StalePhase
  <2> QED BY <2>1 DEF Locals, LoopBounds
<1>3. Owned(<<1>>, <<>>, {1}, 1)
  BY DEF Owned, OpenInOrder, WorkedFor, QueuedAfter, QueuedInOrder, OpenIsOwned, QueuedIsOpen
<1> QED BY <1>1, <1>2, <1>3 DEF Init, QueueInv, BoundInv

LEMMA QueueCorrect == Spec => [](IndInv /\ QueueInv)
<1>1. Init => IndInv /\ QueueInv
  BY InitIndInv, InitQueueInv
<1>2. IndInv /\ QueueInv /\ [Next]_vars => IndInv' /\ QueueInv'
  BY NextIndInv, NextShut, NextRest, NextPark, NextKept, NextBounds DEF QueueInv
<1> QED BY <1>1, <1>2, PTL DEF Spec

\* A parked loop has nothing it could run: the arrival of an event, the end of a hold and
\* the closing of the room each wake it (Execution.ts: push, nextQueuedEvent, onHoldEnd).
THEOREM ParkedLoopsAreDone == Spec => []NoLostWakeup
<1>1. IndInv /\ QueueInv => NoLostWakeup
  <2> SUFFICES ASSUME IndInv, QueueInv, pc = "parked" PROVE Active /\ Runnable(queue, hold) = {}
    BY DEF NoLostWakeup
  <2>1. /\ Active /\ (hold = None => Len(queue) = 0)
        /\ \A i \in 1..Len(queue) : Stuck(queue[i])
    BY DEF QueueInv, ParkInv
  <2>2. DOMAIN queue = 1..Len(queue) /\ \A i \in 1..Len(queue) : queue[i] \in Entries
    BY SeqFacts DEF IndInv, TypeOK
  <2>3. ASSUME NEW i \in DOMAIN queue, MayRun(queue[i], hold) PROVE FALSE
    <3>1. Stuck(queue[i]) /\ hold # None
      BY <2>1, <2>2, <2>3
    <3> QED BY <2>2, <2>3, <3>1 DEF MayRun, Stuck, ControlOf
  <2> QED BY <2>1, <2>3 DEF Runnable
<1> QED BY <1>1, QueueCorrect, PTL

\* Until the room ends, a live event it accepted is queued, in hand, or was looked at
\* (Execution.ts: push, nextQueuedEvent, executeEvent).
THEOREM AcceptedMessagesStay == Spec => []AcceptedIsKept
<1>1. IndInv /\ QueueInv => AcceptedIsKept
  <2> SUFFICES ASSUME IndInv, QueueInv, ~closed, NEW m \in accepted PROVE Pending(m)
    BY DEF AcceptedIsKept
  <2>1. Carried(m) /\ DOMAIN queue = 1..Len(queue)
    BY SeqFacts DEF QueueInv, KeptInv, IndInv, TypeOK
  <2> QED BY <2>1 DEF Carried, Pending
<1> QED BY <1>1, QueueCorrect, PTL

\* Until the room ends, the boundaries still open are exactly those of the scan that runs
\* and of the catch-ups queued, so none keeps the room from becoming idle
\* (SyncBoundaryTracker.ts; Execution.ts: synchronizeWithNext, completeBoundary).
THEOREM BoundariesStayOwned == Spec => []BoundariesHaveOwners
<1>1. IndInv /\ QueueInv => BoundariesHaveOwners
  <2> SUFFICES ASSUME IndInv, QueueInv, ~closed
               PROVE  {openBounds[i] : i \in DOMAIN openBounds} = PendingBounds
    BY DEF BoundariesHaveOwners
  <2>1. Owned(openBounds, queue, LoopBounds, begun)
    BY DEF QueueInv, BoundInv
  <2>2. /\ DOMAIN queue = 1..Len(queue) /\ DOMAIN openBounds = 1..Len(openBounds)
        /\ \A i \in 1..Len(openBounds) : openBounds[i] # None
    BY <2>1, SeqFacts, LenProperties, ElementOfSeq DEF IndInv, TypeOK, Owned, OpenInOrder, None
  <2>3. PendingBounds = LoopBounds \cup ({queue[i].boundary : i \in 1..Len(queue)} \ {None})
    BY <2>2 DEF PendingBounds, LoopBounds, StalePhase
  <2>4. ASSUME NEW i \in 1..Len(openBounds) PROVE openBounds[i] \in PendingBounds
    BY <2>1, <2>2, <2>3 DEF Owned, OpenIsOwned
  <2>5. ASSUME NEW b \in PendingBounds PROVE \E i \in 1..Len(openBounds) : openBounds[i] = b
    <3>1. CASE b \in LoopBounds
      BY <2>1, <3>1 DEF Owned, WorkedFor
    <3>2. CASE b \notin LoopBounds
      <4>1. PICK k \in 1..Len(queue) : queue[k].boundary = b /\ b # None
        BY <2>3, <3>2
      <4> QED BY <2>1, <4>1 DEF Owned, QueuedIsOpen
    <3> QED BY <3>1, <3>2
  <2> QED BY <2>2, <2>4, <2>5
<1> QED BY <1>1, QueueCorrect, PTL
=============================================================================
