------------------------- MODULE WorkingStateProofs -------------------------
(***************************************************************************)
(* Theorems about WorkingState, for every number of leases, tools,         *)
(* provider's works, observations and keepalives.                          *)
(***************************************************************************)
EXTENDS WorkingState, SequenceTheorems, FiniteSetTheorems, WellFoundedInduction, TLAPS

\* The operation that opens period p, or keeps it alive.
RefreshOf(p) == Op("refresh", p, "none")

TypeInv ==
  /\ begun \in 0..NumLeases /\ leases \subseteq 1..begun
  /\ periods \in 0..begun /\ period \in 0..periods /\ opened \subseteq 1..periods
  /\ activity \in [Leases -> Activities] /\ order \in [Leases -> Nat]
  /\ permission \in [Leases -> BOOLEAN] /\ sequence \in Nat /\ \A l \in Leases : order[l] <= sequence
  /\ current \in Shown /\ reported \in Shown \cup {"none", "idle"}
  /\ expired \in BOOLEAN /\ closing \in BOOLEAN
  /\ readyOf \in [Leases -> Nat]
  /\ nativeWaits \in [Leases -> SUBSET Works]
  /\ tail \in Seq(Ops) /\ sending \in Ops \cup {NoOp}
  /\ \A i \in 1..Len(tail) : tail[i].kind = "refresh" => tail[i].of <= periods
  /\ sending.kind = "refresh" => sending.of <= periods

\* There is a period exactly while there are leases, and all of them wait for its opening; a
\* lease that is over contributes nothing.
LeaseInv ==
  /\ (period = None) <=> (leases = {})
  /\ closing => period = None
  /\ \A l \in leases : readyOf[l] = period
  /\ \A l \in Leases \ leases : activity[l] = "reasoning" /\ ~permission[l]

\* Of a period within its limit one keepalive is under way.
NoBeat == \A i \in 1..Len(tail) : tail[i] # RefreshOf(period)
OneBeat == \E i \in 1..Len(tail) : /\ tail[i] = RefreshOf(period)
                                   /\ \A j \in 1..Len(tail) : tail[j] = RefreshOf(period) => j = i
BeatInv ==
  /\ timer \in {None, period}
  /\ period # None /\ ~expired =>
       \/ timer = period /\ NoBeat /\ sending # RefreshOf(period)
       \/ timer = None /\ NoBeat /\ sending = RefreshOf(period)
       \/ timer = None /\ OneBeat /\ sending # RefreshOf(period)

\* What the room was told: nothing is pending but, maybe, a new selection.
IdleQueued == \E i \in 1..Len(tail) : tail[i].kind = "idle"
Told ==
  /\ ~IdleQueued /\ reported = current
  /\ current = Selected(activity, order, permission) \/ \E i \in 1..Len(tail) : tail[i].kind = "publish"
\* The period's refresh is still queued, behind whatever ends the period before it.
ToOpen ==
  \E i \in 1..Len(tail) : /\ tail[i] = RefreshOf(period)
                          /\ \A j \in 1..Len(tail) : tail[j].kind = "idle" => j < i
ShowInv ==
  /\ period = None => reported \in {"none", "idle"} \/ IdleQueued
  /\ period # None /\ ~expired => Told \/ ToOpen
  /\ period # None /\ ~expired /\ (period \in opened \/ sending = RefreshOf(period)) => Told

\* The last permission operation of a lease, or else what it shows, is what its open
\* decisions ask for.
Asks(l) == nativeWaits[l] # {}
OfLease(i, l) == tail[i].kind = "permission" /\ tail[i].of = l
Decided(l) ==
  \/ permission[l] = Asks(l) /\ \A i \in 1..Len(tail) : ~OfLease(i, l)
  \/ \E i \in 1..Len(tail) : /\ OfLease(i, l) /\ (tail[i].value = "wait") = Asks(l)
                             /\ \A j \in 1..Len(tail) : OfLease(j, l) => j <= i
WaitInv ==
  /\ ~expired => \A l \in leases : Decided(l)
  /\ \A l \in Leases : l > begun => nativeWaits[l] = {} /\ \A i \in 1..Len(tail) : ~OfLease(i, l)

IInv == TypeInv /\ LeaseInv /\ BeatInv /\ ShowInv /\ WaitInv

----------------------------------------------------------------------------
(* Facts about the operators.                                              *)

LEMMA OpFacts ==
  /\ \A p \in Periods : RefreshOf(p) \in Ops
  /\ Op("publish", None, "none") \in Ops /\ Op("idle", None, "none") \in Ops
  /\ \A l \in Leases, a \in Activities : Op("observe", l, a) \in Ops
  /\ \A l \in Leases, w \in {"wait", "resume"} : Op("permission", l, w) \in Ops
  /\ \A o \in Ops :
       /\ o.kind \in {"refresh", "publish", "idle", "observe", "permission"}
       /\ o.kind = "refresh" => o.of \in Periods /\ o = RefreshOf(o.of)
       /\ o.kind = "observe" => o.of \in Leases /\ o.value \in Activities
       /\ o.kind = "permission" => o.of \in Leases /\ o.value \in {"wait", "resume"}
       /\ o # NoOp
  /\ \A p : RefreshOf(p).kind = "refresh" /\ RefreshOf(p).of = p /\ RefreshOf(p) # NoOp
  /\ NoOp.kind = "none"
BY DEF RefreshOf, Op, Ops, NoOp, None

LEMMA PeriodsAreLeases == NumLeases \in Nat /\ Periods = 1..NumLeases /\ Leases = 1..NumLeases /\ None = 0
BY WorkingAssumption DEF Periods, Leases, None

\* Appending, and taking the first, of a queue.
LEMMA AppendedTail ==
  ASSUME NEW q \in Seq(Ops), NEW o \in Ops
  PROVE  /\ Append(q, o) \in Seq(Ops) /\ Len(q) \in Nat /\ Len(Append(q, o)) = Len(q) + 1
         /\ Append(q, o)[Len(q) + 1] = o /\ \A i \in 1..Len(q) : Append(q, o)[i] = q[i]
         /\ q \o <<o>> = Append(q, o) /\ q \o <<>> = q
<1>1. q \o <<o>> = Append(q, o)
  BY AppendIsConcat
<1>2. q \o <<>> = q
  BY ConcatEmptySeq
<1> QED BY <1>1, <1>2, AppendProperties, LenProperties

LEMMA PoppedTail ==
  ASSUME NEW q \in Seq(Ops), q # <<>>
  PROVE  /\ Len(q) \in Nat /\ Len(q) >= 1 /\ Head(q) = q[1] /\ Head(q) \in Ops
         /\ Tail(q) \in Seq(Ops) /\ Len(Tail(q)) = Len(q) - 1
         /\ \A i \in 1..Len(Tail(q)) : Tail(q)[i] = q[i + 1]
<1>1. Len(q) \in Nat /\ Len(q) >= 1 /\ Tail(q) \in Seq(Ops) /\ Len(Tail(q)) = Len(q) - 1
  BY HeadTailProperties, LenProperties, EmptySeq
<1>2. Head(q) = q[1] /\ Head(q) \in Ops
  BY HeadTailProperties
<1>3. \A i \in 1..Len(Tail(q)) : Tail(q)[i] = q[i + 1]
  BY <1>1, HeadTailProperties
<1> QED BY <1>1, <1>2, <1>3

\* A nonempty set of leases has one whose offer is the latest.
LEMMA LatestExists ==
  ASSUME NEW ord \in [Leases -> Nat], NEW bound \in Nat, \A l \in Leases : ord[l] <= bound,
         NEW S \in SUBSET Leases, S # {}
  PROVE  \E l \in S : \A k \in S : ord[k] <= ord[l]
<1> DEFINE T == {0..(bound - ord[l]) : l \in S}
           R == StrictSubsetOrdering(Nat)
<1>1. T \subseteq FiniteSubsetsOf(Nat) /\ T # {}
  <2>1. \A l \in S : bound - ord[l] \in Nat
    OBVIOUS
  <2>2. \A n \in Nat : 0..n \subseteq Nat /\ IsFiniteSet(0..n)
    BY FS_Interval
  <2> QED BY <2>1, <2>2 DEF FiniteSubsetsOf
<1>2. IsWellFoundedOn(R, FiniteSubsetsOf(Nat))
  BY FS_StrictSubsetOrderingWellFounded
<1>3. PICK x \in T : \A y \in T : <<y, x>> \notin R
  BY <1>1, <1>2, WFMin
<1>4. PICK l \in S : x = 0..(bound - ord[l])
  BY <1>3
<1>5. ASSUME NEW k \in S PROVE ord[k] <= ord[l]
  <2> SUFFICES ASSUME ord[l] < ord[k] PROVE FALSE
    OBVIOUS
  <2> DEFINE lower == bound - ord[k]
             upper == bound - ord[l]
  <2>1. lower \in Nat /\ upper \in Nat /\ lower < upper
    OBVIOUS
  <2>2. 0..lower \subseteq 0..upper /\ 0..lower # 0..upper
    BY <2>1, upper \in 0..upper, upper \notin 0..lower
  <2>3. <<0..lower, x>> \in R
    BY <1>4, <2>1, <2>2 DEF StrictSubsetOrdering
  <2> QED BY <1>3, <2>3
<1> QED BY <1>5

LEMMA LeasesAreOpened == TypeInv => leases \subseteq Leases /\ \A l \in leases : l <= begun
<1> SUFFICES ASSUME TypeInv, NEW l \in leases PROVE l \in Leases /\ l <= begun
  OBVIOUS
<1>1. l \in 1..begun /\ begun \in 0..NumLeases /\ NumLeases \in Nat
  BY PeriodsAreLeases DEF TypeInv
<1> QED BY <1>1, PeriodsAreLeases

LEMMA SelectedIsShown ==
  ASSUME TypeInv, NEW act \in [Leases -> Activities], NEW ord \in [Leases -> Nat], NEW bound \in Nat,
         \A l \in Leases : ord[l] <= bound, NEW perm
  PROVE  Selected(act, ord, perm) \in Shown
<1>1. CASE \E l \in leases : perm[l]
  BY <1>1 DEF Selected, Shown
<1>2. CASE Busy(act) = {}
  BY <1>2 DEF Selected, Shown, Activities
<1>3. CASE Busy(act) # {}
  <2>1. Busy(act) \subseteq Leases
    BY LeasesAreOpened DEF Busy
  <2>2. \E l \in Busy(act) : \A k \in Busy(act) : ord[k] <= ord[l]
    BY <1>3, <2>1, LatestExists
  <2>3. (CHOOSE l \in Busy(act) : \A k \in Busy(act) : ord[k] <= ord[l]) \in Leases
    BY <2>1, <2>2
  <2>4. act[CHOOSE l \in Busy(act) : \A k \in Busy(act) : ord[k] <= ord[l]] \in Shown
    BY <2>3 DEF Shown
  <2> QED BY <1>3, <2>4 DEF Selected, Shown
<1> QED BY <1>1, <1>2, <1>3

----------------------------------------------------------------------------
(* Steps that only add to the queue.                                       *)

QueueGrows(kinds) ==
  /\ tail' \in Seq(Ops) /\ Len(tail) \in Nat /\ Len(tail') \in Nat /\ Len(tail) <= Len(tail')
  /\ \A i \in 1..Len(tail) : tail'[i] = tail[i]
  /\ \A i \in 1..Len(tail') : i > Len(tail) => tail'[i].kind \in kinds

LEMMA GrownByOne ==
  ASSUME tail \in Seq(Ops), NEW o \in Ops, tail' = Append(tail, o), NEW kinds, o.kind \in kinds
  PROVE  QueueGrows(kinds) /\ Len(tail') = Len(tail) + 1 /\ tail'[Len(tail')] = o
<1>1. Len(tail) \in Nat /\ Len(tail') = Len(tail) + 1 /\ tail' \in Seq(Ops)
  BY AppendedTail
<1>2. tail'[Len(tail) + 1] = o /\ \A i \in 1..Len(tail) : tail'[i] = tail[i]
  BY AppendedTail
<1>3. \A i \in 1..Len(tail') : i > Len(tail) => i = Len(tail) + 1
  BY <1>1
<1> QED BY <1>1, <1>2, <1>3 DEF QueueGrows

LEMMA NotGrown ==
  ASSUME tail \in Seq(Ops), tail' = tail, NEW kinds
  PROVE  QueueGrows(kinds)
BY LenProperties DEF QueueGrows

LEMMA BeatGrows ==
  ASSUME BeatInv, NEW kinds, QueueGrows(kinds), "refresh" \notin kinds,
         UNCHANGED <<period, timer, sending>>, ~expired' => ~expired
  PROVE  BeatInv'
<1>1. \A i \in 1..Len(tail) : i \in 1..Len(tail') /\ tail'[i] = tail[i]
  BY DEF QueueGrows
<1>2. \A i \in 1..Len(tail') : tail'[i] = RefreshOf(period) => i \in 1..Len(tail)
  BY OpFacts DEF QueueGrows
<1>3. NoBeat => NoBeat'
  BY <1>1, <1>2 DEF NoBeat
<1>4. OneBeat => OneBeat'
  BY <1>1, <1>2 DEF OneBeat
<1> QED BY <1>3, <1>4 DEF BeatInv

LEMMA ShowGrows ==
  ASSUME ShowInv, NEW kinds, QueueGrows(kinds), "idle" \notin kinds,
         UNCHANGED <<period, sending, opened, reported, current>>, ~expired' => ~expired,
         \/ Selected(activity, order, permission)' = Selected(activity, order, permission)
         \/ \E i \in 1..Len(tail') : tail'[i].kind = "publish"
  PROVE  ShowInv'
<1>1. \A i \in 1..Len(tail) : i \in 1..Len(tail') /\ tail'[i] = tail[i]
  BY DEF QueueGrows
<1>2. \A i \in 1..Len(tail') : tail'[i].kind = "idle" => i \in 1..Len(tail)
  BY DEF QueueGrows
<1>3. IdleQueued' = IdleQueued
  BY <1>1, <1>2 DEF IdleQueued
<1>4. Told => Told'
  BY <1>1, <1>3 DEF Told
<1>5. ToOpen => ToOpen'
  BY <1>1, <1>2 DEF ToOpen
<1> QED BY <1>3, <1>4, <1>5 DEF ShowInv

LEMMA WaitGrows ==
  ASSUME TypeInv, WaitInv, NEW kinds, QueueGrows(kinds), "permission" \notin kinds,
         nativeWaits' = nativeWaits, leases' \subseteq leases, begun' = begun,
         ~expired' => ~expired, \A l \in leases' : permission'[l] = permission[l]
  PROVE  WaitInv'
<1>1. \A i \in 1..Len(tail) : i \in 1..Len(tail') /\ tail'[i] = tail[i]
  BY DEF QueueGrows
<1>2. \A i \in 1..Len(tail') : tail'[i].kind = "permission" => i \in 1..Len(tail)
  BY DEF QueueGrows
<1>3. \A l : \A i \in 1..Len(tail') : OfLease(i, l)' <=> i \in 1..Len(tail) /\ OfLease(i, l)
  BY <1>1, <1>2 DEF OfLease
<1>4. ASSUME NEW l \in leases', Decided(l) PROVE Decided(l)'
  <2>1. CASE permission[l] = Asks(l) /\ \A i \in 1..Len(tail) : ~OfLease(i, l)
    BY <1>3, <2>1 DEF Decided, Asks
  <2>2. ASSUME NEW i \in 1..Len(tail), OfLease(i, l), (tail[i].value = "wait") = Asks(l),
               \A j \in 1..Len(tail) : OfLease(j, l) => j <= i
        PROVE  Decided(l)'
    <3>1. i \in 1..Len(tail') /\ OfLease(i, l)' /\ (tail'[i].value = "wait") = Asks(l)'
      BY <1>1, <1>3, <2>2 DEF Asks
    <3>2. \A j \in 1..Len(tail') : OfLease(j, l)' => j <= i
      BY <1>3, <2>2
    <3> QED BY <3>1, <3>2 DEF Decided
  <2> QED BY <1>4, <2>1, <2>2 DEF Decided
<1>5. ~expired' => \A l \in leases' : Decided(l)'
  BY <1>4 DEF WaitInv
<1>6. \A l \in Leases : l > begun' => nativeWaits'[l] = {} /\ \A i \in 1..Len(tail') : ~OfLease(i, l)'
  BY <1>3 DEF WaitInv
<1> QED BY <1>5, <1>6 DEF WaitInv

\* A step that leaves the reporter's own state alone, and queues no refresh.
LEMMA TypeGrows ==
  ASSUME TypeInv, NEW kinds, QueueGrows(kinds), "refresh" \notin kinds, UNCHANGED <<periods, sending>>
  PROVE  /\ \A i \in 1..Len(tail') : tail'[i].kind = "refresh" => tail'[i].of <= periods'
         /\ sending'.kind = "refresh" => sending'.of <= periods'
BY DEF QueueGrows, TypeInv

LEMMA ObservationGrows ==
  ASSUME TypeInv, NEW l \in Leases, NEW a \in Activities, tail' = tail \o Observation(l, a)
  PROVE  QueueGrows({"observe"})
<1>1. CASE ActiveLease(l)
  <2>1. Op("observe", l, a) \in Ops /\ Op("observe", l, a).kind = "observe"
    BY OpFacts DEF Op
  <2>2. tail' = Append(tail, Op("observe", l, a))
    BY <1>1, <2>1, AppendedTail DEF Observation, TypeInv
  <2> QED BY <2>1, <2>2, GrownByOne DEF TypeInv
<1>2. CASE ~ActiveLease(l)
  <2>1. tail' = tail
    BY <1>2, ConcatEmptySeq DEF Observation, TypeInv
  <2> QED BY <2>1, NotGrown DEF TypeInv
<1> QED BY <1>1, <1>2

\* The reporter's own state is left alone.
Unreported == UNCHANGED <<leases, begun, offerVars, periodVars, closing, sending, reported>>

LEMMA QuietStep ==
  ASSUME IInv, Unreported, QueueGrows({"observe", "permission"}),
         nativeWaits' \in [Leases -> SUBSET Works], WaitInv'
  PROVE  IInv'
<1> USE DEF IInv, Unreported, offerVars, periodVars
<1>1. TypeInv'
  <2>1. /\ \A i \in 1..Len(tail') : tail'[i].kind = "refresh" => tail'[i].of <= periods'
        /\ sending'.kind = "refresh" => sending'.of <= periods'
    BY TypeGrows
  <2>2. tail' \in Seq(Ops)
    BY DEF QueueGrows
  <2> QED BY <2>1, <2>2 DEF TypeInv
<1>2. LeaseInv'
  BY DEF LeaseInv
<1>3. BeatInv'
  BY BeatGrows
<1>4. ShowInv'
  <2>1. Selected(activity, order, permission)' = Selected(activity, order, permission)
    BY DEF Selected, Busy
  <2> QED BY <2>1, ShowGrows
<1> QED BY <1>1, <1>2, <1>3, <1>4

LEMMA ObservingStep ==
  ASSUME IInv, Unreported, NEW l \in Leases, NEW a \in Activities,
         tail' = tail \o Observation(l, a) \/ tail' = tail, nativeWaits' = nativeWaits
  PROVE  IInv'
<1>1. QueueGrows({"observe"})
  BY ObservationGrows, NotGrown DEF IInv, TypeInv
<1>2. QueueGrows({"observe", "permission"})
  BY <1>1 DEF QueueGrows
<1>3. WaitInv'
  BY <1>1, WaitGrows DEF IInv, Unreported, offerVars, periodVars
<1> QED BY <1>2, <1>3, QuietStep DEF IInv, TypeInv

\* The decisions of a lease change: whenever a wait begins or ends, that is queued last.
LEMMA DecidingStep ==
  ASSUME IInv, Unreported, NEW l \in Leases, l <= begun, NEW open \in SUBSET Works,
         nativeWaits' = [nativeWaits EXCEPT ![l] = open],
         QueueGrows({"observe", "permission"}),
         \A i \in 1..Len(tail') : i > Len(tail) /\ tail'[i].kind = "permission" => i = Len(tail') /\ tail'[i].of = l,
         \/ (open # {}) = Asks(l) /\ QueueGrows({"observe"})
         \/ /\ Len(tail') > Len(tail)
            /\ tail'[Len(tail')].kind = "permission" /\ tail'[Len(tail')].of = l
            /\ (tail'[Len(tail')].value = "wait") = (open # {})
  PROVE  IInv'
<1>1. nativeWaits \in [Leases -> SUBSET Works] /\ nativeWaits' \in [Leases -> SUBSET Works]
  BY DEF IInv, TypeInv
<1>2. nativeWaits'[l] = open /\ \A k \in Leases \ {l} : nativeWaits'[k] = nativeWaits[k]
  BY <1>1
<1>3. \A i \in 1..Len(tail) : i \in 1..Len(tail') /\ tail'[i] = tail[i]
  BY DEF QueueGrows
<1>4. \A k \in Leases \ {l} : \A i \in 1..Len(tail') : OfLease(i, k)' <=> i \in 1..Len(tail) /\ OfLease(i, k)
  BY <1>3 DEF OfLease, QueueGrows
<1>5. ASSUME NEW k \in leases, k # l, Decided(k) PROVE Decided(k)'
  <2>1. permission'[k] = permission[k] /\ Asks(k)' = Asks(k) /\ k \in Leases \ {l}
    BY <1>2, <1>5, LeasesAreOpened DEF Asks, Unreported, offerVars, IInv
  <2>2. CASE permission[k] = Asks(k) /\ \A i \in 1..Len(tail) : ~OfLease(i, k)
    BY <1>4, <2>1, <2>2 DEF Decided
  <2>3. ASSUME NEW i \in 1..Len(tail), OfLease(i, k), (tail[i].value = "wait") = Asks(k),
               \A j \in 1..Len(tail) : OfLease(j, k) => j <= i
        PROVE  Decided(k)'
    <3>1. i \in 1..Len(tail') /\ OfLease(i, k)' /\ (tail'[i].value = "wait") = Asks(k)'
      BY <1>3, <1>4, <2>1, <2>3
    <3>2. \A j \in 1..Len(tail') : OfLease(j, k)' => j <= i
      BY <1>4, <2>1, <2>3
    <3> QED BY <3>1, <3>2 DEF Decided
  <2> QED BY <1>5, <2>2, <2>3 DEF Decided
<1>6. ASSUME l \in leases, Decided(l) PROVE Decided(l)'
  <2>1. CASE (open # {}) = Asks(l) /\ QueueGrows({"observe"})
    <3>1. Asks(l)' = Asks(l) /\ permission'[l] = permission[l]
      BY <1>2, <2>1 DEF Asks, Unreported, offerVars
    <3>2. \A i \in 1..Len(tail') : OfLease(i, l)' <=> i \in 1..Len(tail) /\ OfLease(i, l)
      BY <1>3, <2>1 DEF OfLease, QueueGrows
    <3>3. CASE permission[l] = Asks(l) /\ \A i \in 1..Len(tail) : ~OfLease(i, l)
      BY <3>1, <3>2, <3>3 DEF Decided
    <3>4. ASSUME NEW i \in 1..Len(tail), OfLease(i, l), (tail[i].value = "wait") = Asks(l),
                 \A j \in 1..Len(tail) : OfLease(j, l) => j <= i
          PROVE  Decided(l)'
      <4>1. i \in 1..Len(tail') /\ OfLease(i, l)' /\ (tail'[i].value = "wait") = Asks(l)'
        BY <1>3, <3>1, <3>2, <3>4
      <4>2. \A j \in 1..Len(tail') : OfLease(j, l)' => j <= i
        BY <3>2, <3>4
      <4> QED BY <4>1, <4>2 DEF Decided
    <3> QED BY <1>6, <3>3, <3>4 DEF Decided
  <2>2. CASE /\ Len(tail') > Len(tail)
             /\ tail'[Len(tail')].kind = "permission" /\ tail'[Len(tail')].of = l
             /\ (tail'[Len(tail')].value = "wait") = (open # {})
    <3>1. PICK n \in 1..Len(tail') : n = Len(tail')
      BY <2>2 DEF QueueGrows
    <3>2. Asks(l)' = (open # {}) /\ \A j \in 1..Len(tail') : OfLease(j, l)' => j <= n
      BY <1>2, <3>1 DEF Asks, QueueGrows
    <3>3. OfLease(n, l)'
      BY <2>2, <3>1 DEF OfLease
    <3>4. (tail'[n].value = "wait") = Asks(l)'
      BY <2>2, <3>1, <3>2
    <3>5. \E i \in 1..Len(tail') : /\ OfLease(i, l)' /\ (tail'[i].value = "wait") = Asks(l)'
                                   /\ \A j \in 1..Len(tail') : OfLease(j, l)' => j <= i
      BY <3>2, <3>3, <3>4
    <3> QED BY <3>5 DEF Decided
  <2> QED BY <2>1, <2>2
<1>7. WaitInv'
  <2>1. ~expired' => \A k \in leases' : Decided(k)'
    BY <1>5, <1>6 DEF WaitInv, IInv, Unreported, periodVars
  <2>2. ASSUME NEW k \in Leases, k > begun' PROVE nativeWaits'[k] = {} /\ \A i \in 1..Len(tail') : ~OfLease(i, k)'
    <3>1. begun' = begun /\ k # l /\ begun \in Int
      BY <2>2, PeriodsAreLeases DEF Unreported, IInv, TypeInv
    <3> QED BY <1>2, <1>4, <2>2, <3>1 DEF WaitInv, IInv
  <2> QED BY <2>1, <2>2 DEF WaitInv
<1> QED BY <1>1, <1>7, QuietStep

----------------------------------------------------------------------------
(* The invariant is inductive: one lemma per action, the turns' first.      *)

LEMMA InitInv == Init => IInv
<1> SUFFICES ASSUME Init PROVE IInv
  OBVIOUS
<1> USE PeriodsAreLeases, OpFacts DEF Init
<1>1. TypeInv
  <2>1. tail \in Seq(Ops) /\ Len(tail) = 0
    BY EmptySeq
  <2>2. begun \in 0..NumLeases /\ periods \in 0..begun /\ period \in 0..periods /\ leases \subseteq 1..begun
        /\ opened \subseteq 1..periods
    OBVIOUS
  <2>3. activity \in [Leases -> Activities] /\ current \in Shown /\ reported \in Shown \cup {"none", "idle"}
    BY DEF Activities, Shown
  <2>4. order \in [Leases -> Nat] /\ permission \in [Leases -> BOOLEAN] /\ sequence \in Nat
        /\ (\A l \in Leases : order[l] <= sequence) /\ readyOf \in [Leases -> Nat]
        /\ nativeWaits \in [Leases -> SUBSET Works]
    OBVIOUS
  <2>5. expired \in BOOLEAN /\ closing \in BOOLEAN /\ sending = NoOp /\ sending.kind = "none"
    OBVIOUS
  <2>6. \A i \in 1..Len(tail) : FALSE
    BY <2>1
  <2> HIDE DEF Init
  <2> QED BY <2>1, <2>2, <2>3, <2>4, <2>5, <2>6 DEF TypeInv
<1>2. LeaseInv /\ BeatInv
  BY DEF LeaseInv, BeatInv
<1>3. ShowInv
  BY DEF ShowInv
<1>4. WaitInv
  <2>1. Len(tail) = 0
    BY EmptySeq
  <2> QED BY <2>1 DEF WaitInv
<1> QED BY <1>1, <1>2, <1>3, <1>4 DEF IInv

LEMMA ToolActivityInv ==
  ASSUME IInv, NEW l \in Leases, NEW a \in Activities, ToolActivity(l, a) PROVE IInv'
BY ObservingStep DEF ToolActivity, Unreported, leaseVars, nativeVars

LEMMA NativeInv ==
  ASSUME IInv, NEW l \in Leases, NEW w \in Works,
         NativeEnds(l, w) \/ \E a \in Activities \ {"reasoning"} : NativeBegins(l, w, a)
  PROVE  IInv'
<1>1. "reasoning" \in Activities
  BY DEF Activities
<1>2. CASE NativeEnds(l, w)
  BY <1>1, <1>2, ObservingStep DEF NativeEnds, Unreported, leaseVars
<1>3. ASSUME NEW a \in Activities \ {"reasoning"}, NativeBegins(l, w, a) PROVE IInv'
  BY <1>3, ObservingStep DEF NativeBegins, Unreported, leaseVars
<1> QED BY <1>2, <1>3

\* A permission operation queued last.
LEMMA PermissionGrows ==
  ASSUME TypeInv, NEW l \in Leases, NEW v \in {"wait", "resume"}, tail' = tail \o PermissionOp(l, v)
  PROVE  /\ QueueGrows({"observe", "permission"}) /\ Len(tail') > Len(tail)
         /\ tail'[Len(tail')].kind = "permission" /\ tail'[Len(tail')].of = l
         /\ (tail'[Len(tail')].value = "wait") = (v = "wait")
         /\ \A i \in 1..Len(tail') : i > Len(tail) /\ tail'[i].kind = "permission" => i = Len(tail') /\ tail'[i].of = l
<1>1. Op("permission", l, v) \in Ops /\ Op("permission", l, v).kind = "permission"
      /\ Op("permission", l, v).of = l /\ Op("permission", l, v).value = v
  BY OpFacts DEF Op
<1>2. tail' = Append(tail, Op("permission", l, v))
  BY <1>1, AppendedTail DEF PermissionOp, TypeInv
<1>3. QueueGrows({"observe", "permission"}) /\ Len(tail') = Len(tail) + 1 /\ tail'[Len(tail')] = Op("permission", l, v)
  BY <1>1, <1>2, GrownByOne DEF TypeInv
<1>4. Len(tail) \in Nat
  BY <1>3 DEF QueueGrows
<1> QED BY <1>1, <1>3, <1>4

LEMMA WaitBeginsInv ==
  ASSUME IInv, NEW l \in Leases, NEW w \in Works, WaitBegins(l, w) PROVE IInv'
<1>1. PICK open \in SUBSET Works : open = nativeWaits[l] \cup {w}
  BY DEF IInv, TypeInv
<1>2. Unreported /\ l <= begun /\ nativeWaits' = [nativeWaits EXCEPT ![l] = open]
  BY <1>1 DEF WaitBegins, Call, Ready, Unreported, leaseVars, IInv, TypeInv
<1>3. CASE nativeWaits[l] = {}
  <2>1. tail' = tail \o PermissionOp(l, "wait")
    BY <1>3 DEF WaitBegins
  <2>2. ("wait" = "wait") = (open # {})
    BY <1>1
  <2> QED BY <1>2, <2>1, <2>2, PermissionGrows, DecidingStep DEF IInv
<1>4. CASE nativeWaits[l] # {}
  <2>1. tail' = tail /\ (open # {}) = Asks(l)
    BY <1>1, <1>4 DEF WaitBegins, Asks
  <2>2. QueueGrows({"observe"}) /\ QueueGrows({"observe", "permission"})
    BY <2>1, NotGrown DEF IInv, TypeInv
  <2>3. \A i \in 1..Len(tail') : ~(i > Len(tail))
    BY <2>1, <2>2 DEF QueueGrows
  <2> QED BY <1>2, <2>1, <2>2, <2>3, DecidingStep
<1> QED BY <1>3, <1>4

LEMMA WaitEndsInv ==
  ASSUME IInv, NEW l \in Leases, NEW w \in Works, WaitEnds(l, w) PROVE IInv'
<1>1. PICK open \in SUBSET Works : open = nativeWaits[l] \ {w}
  BY DEF IInv, TypeInv
<1>2. Unreported /\ l <= begun /\ nativeWaits' = [nativeWaits EXCEPT ![l] = open]
  BY <1>1 DEF WaitEnds, Ready, Unreported, leaseVars, IInv, TypeInv
<1>3. CASE LastWait(l, w)
  <2>1. tail' = tail \o PermissionOp(l, "resume")
    BY <1>3 DEF WaitEnds
  <2>2. ("resume" = "wait") = (open # {})
    BY <1>1, <1>3 DEF LastWait
  <2> QED BY <1>2, <2>1, <2>2, PermissionGrows, DecidingStep DEF IInv
<1>4. CASE ~LastWait(l, w)
  <2>1. tail' = tail /\ (open # {}) = Asks(l)
    BY <1>1, <1>4 DEF WaitEnds, LastWait, Asks
  <2>2. QueueGrows({"observe"}) /\ QueueGrows({"observe", "permission"})
    BY <2>1, NotGrown DEF IInv, TypeInv
  <2>3. \A i \in 1..Len(tail') : ~(i > Len(tail))
    BY <2>1, <2>2 DEF QueueGrows
  <2> QED BY <1>2, <2>1, <2>2, <2>3, DecidingStep
<1> QED BY <1>3, <1>4

\* Two operations queued at once.
LEMMA TwiceAppended ==
  ASSUME NEW q \in Seq(Ops), NEW o \in Ops, NEW u \in Ops, NEW r, r = q \o <<o>> \o <<u>>
  PROVE  /\ r \in Seq(Ops) /\ Len(q) \in Nat /\ Len(r) = Len(q) + 2
         /\ r[Len(q) + 1] = o /\ r[Len(q) + 2] = u /\ \A i \in 1..Len(q) : r[i] = q[i]
<1>1. PICK m \in Seq(Ops) : m = Append(q, o) /\ r = Append(m, u)
  <2>1. q \o <<o>> = Append(q, o) /\ Append(q, o) \in Seq(Ops)
    BY AppendedTail
  <2>2. Append(q, o) \o <<u>> = Append(Append(q, o), u)
    BY <2>1, AppendedTail
  <2> QED BY <2>1, <2>2
<1>2. /\ Len(q) \in Nat /\ Len(m) = Len(q) + 1 /\ m[Len(q) + 1] = o /\ \A i \in 1..Len(q) : m[i] = q[i]
  BY <1>1, AppendedTail
<1>3. r \in Seq(Ops) /\ Len(r) = Len(m) + 1 /\ r[Len(m) + 1] = u /\ \A i \in 1..Len(m) : r[i] = m[i]
  BY <1>1, AppendedTail
<1>4. Len(m) + 1 = Len(q) + 2 /\ Len(q) + 1 \in 1..Len(m) /\ \A i \in 1..Len(q) : i \in 1..Len(m)
  BY <1>2
<1> QED BY <1>2, <1>3, <1>4

\* What a tracker that ends reports: the end of its work, then the end of its wait.
LEMMA EndAllInv ==
  ASSUME IInv, NEW l \in Leases, EndAll(l) PROVE IInv'
<1> DEFINE X == IF \E w \in Works : nativeOpen[l][w] # "none" THEN Observation(l, "reasoning") ELSE <<>>
           Y == IF nativeWaits[l] # {} THEN PermissionOp(l, "resume") ELSE <<>>
<1>0. PICK open \in SUBSET Works : open = {}
  OBVIOUS
<1>1. Unreported /\ l <= begun /\ nativeWaits' = [nativeWaits EXCEPT ![l] = open] /\ tail' = tail \o X \o Y
  BY <1>0 DEF EndAll, Ready, Unreported, leaseVars
<1>2. tail \in Seq(Ops) /\ TypeInv /\ "reasoning" \in Activities
  BY DEF IInv, TypeInv, Activities
<1>3. Op("observe", l, "reasoning") \in Ops /\ Op("observe", l, "reasoning").kind = "observe"
      /\ Op("permission", l, "resume") \in Ops /\ Op("permission", l, "resume").kind = "permission"
      /\ Op("permission", l, "resume").of = l /\ Op("permission", l, "resume").value = "resume"
  BY <1>2, OpFacts DEF Op
<1>4. CASE nativeWaits[l] = {}
  <2>1. tail' = tail \o Observation(l, "reasoning") \/ tail' = tail
    <3>1. Y = <<>> /\ Observation(l, "reasoning") \in Seq(Ops)
      BY <1>3, <1>4, EmptySeq DEF Observation
    <3>2. tail \o X \in Seq(Ops)
      BY <1>2, <3>1, ConcatProperties, EmptySeq
    <3>3. tail' = tail \o X
      BY <1>1, <3>1, <3>2, ConcatEmptySeq
    <3> QED BY <1>2, <3>3, ConcatEmptySeq
  <2>2. QueueGrows({"observe"})
    BY <1>2, <2>1, ObservationGrows, NotGrown
  <2>3. QueueGrows({"observe", "permission"}) /\ \A i \in 1..Len(tail') : i > Len(tail) => tail'[i].kind # "permission"
    BY <2>2 DEF QueueGrows
  <2>4. (open # {}) = Asks(l)
    BY <1>0, <1>4 DEF Asks
  <2> QED BY <1>1, <2>2, <2>3, <2>4, DecidingStep
<1>5. CASE nativeWaits[l] # {} /\ X = <<>>
  <2>1. tail' = tail \o PermissionOp(l, "resume")
    BY <1>1, <1>2, <1>5, ConcatEmptySeq
  <2>2. ("resume" = "wait") = (open # {})
    BY <1>0
  <2> QED BY <1>1, <1>2, <2>1, <2>2, PermissionGrows, DecidingStep
<1>6. CASE nativeWaits[l] # {} /\ X = <<Op("observe", l, "reasoning")>>
  <2>1. tail' = tail \o <<Op("observe", l, "reasoning")>> \o <<Op("permission", l, "resume")>>
    BY <1>1, <1>6 DEF PermissionOp
  <2>2. /\ tail' \in Seq(Ops) /\ Len(tail) \in Nat /\ Len(tail') = Len(tail) + 2
        /\ tail'[Len(tail) + 1] = Op("observe", l, "reasoning")
        /\ tail'[Len(tail) + 2] = Op("permission", l, "resume") /\ \A i \in 1..Len(tail) : tail'[i] = tail[i]
    BY <1>2, <1>3, <2>1, TwiceAppended
  <2>3. \A i \in 1..Len(tail') : i > Len(tail) => i = Len(tail) + 1 \/ i = Len(tail) + 2
    BY <2>2
  <2>4. QueueGrows({"observe", "permission"})
    BY <1>3, <2>2, <2>3 DEF QueueGrows
  <2>5. \A i \in 1..Len(tail') : i > Len(tail) /\ tail'[i].kind = "permission" => i = Len(tail') /\ tail'[i].of = l
    BY <1>3, <2>2, <2>3
  <2>6. Len(tail') > Len(tail) /\ tail'[Len(tail')].kind = "permission" /\ tail'[Len(tail')].of = l
        /\ (tail'[Len(tail')].value = "wait") = (open # {})
    BY <1>0, <1>3, <2>2
  <2> QED BY <1>1, <2>4, <2>5, <2>6, DecidingStep
<1> QED BY <1>4, <1>5, <1>6 DEF Observation

LEMMA RetainInv ==
  ASSUME IInv, NEW l \in Leases, Retain(l) PROVE IInv'
<1>1. Unreported /\ tail' = tail /\ nativeWaits' = nativeWaits
  BY DEF Retain, Unreported, queueVars, nativeVars
<1>2. tail' = tail \o Observation(l, "reasoning") \/ tail' = tail
  BY <1>1
<1> QED BY <1>1, <1>2, ObservingStep DEF Activities

\* A reference is released: a lease that is not the last leaves the selection to be made anew,
\* the last one ends the period.
LEMMA ReleaseInv ==
  ASSUME IInv, NEW l \in Leases, Release(l),
         UNCHANGED <<begun, sequence, current, periods, expired, readyOf, opened, closing, sending, reported,
                     nativeVars>>
  PROVE  IInv'
<1> USE DEF IInv
<1>1. CASE refs[l] > 1 \/ l \notin leases
  <2>1. Unreported /\ tail' = tail /\ nativeWaits' = nativeWaits
    BY <1>1 DEF Release, Unreported, offerVars, periodVars, nativeVars
  <2>2. tail' = tail \o Observation(l, "reasoning") \/ tail' = tail
    BY <2>1
  <2> QED BY <2>1, <2>2, ObservingStep DEF Activities
<1>2. CASE ~(refs[l] > 1 \/ l \notin leases)
  <2>1. /\ leases' = leases \ {l}
        /\ activity' = [k \in Leases |-> IF k = l THEN "reasoning" ELSE activity[k]]
        /\ order' = [k \in Leases |-> IF k = l THEN 0 ELSE order[k]]
        /\ permission' = [k \in Leases |-> k # l /\ permission[k]]
        /\ IF leases' # {}
           THEN tail' = Append(tail, Op("publish", None, "none")) /\ UNCHANGED <<period, timer>>
           ELSE timer' = None /\ period' = None /\ tail' = Append(tail, Op("idle", None, "none"))
    BY <1>2 DEF Release, Delete, Retire, Reselected
  <2>2. Op("publish", None, "none") \in Ops /\ Op("idle", None, "none") \in Ops
        /\ Op("publish", None, "none").kind = "publish" /\ Op("idle", None, "none").kind = "idle"
    BY OpFacts DEF Op
  <2>3. activity' \in [Leases -> Activities] /\ order' \in [Leases -> Nat] /\ permission' \in [Leases -> BOOLEAN]
        /\ \A k \in Leases : order'[k] <= sequence'
    BY <2>1 DEF TypeInv, Activities
  <2>4. \A k \in Leases \ leases' : activity'[k] = "reasoning" /\ ~permission'[k]
    BY <2>1 DEF LeaseInv
  <2>5. l \in leases /\ period # None
    BY <1>2 DEF LeaseInv
  <2>6. CASE leases' # {}
    <3>1. tail' = Append(tail, Op("publish", None, "none")) /\ UNCHANGED <<period, timer>>
      BY <2>1, <2>6
    <3>2. QueueGrows({"publish"}) /\ Len(tail') = Len(tail) + 1 /\ tail'[Len(tail')].kind = "publish"
      BY <2>2, <3>1, GrownByOne DEF TypeInv
    <3>3. TypeInv'
      <4>1. /\ \A i \in 1..Len(tail') : tail'[i].kind = "refresh" => tail'[i].of <= periods'
            /\ sending'.kind = "refresh" => sending'.of <= periods'
        BY <3>2, TypeGrows
      <4>2. tail' \in Seq(Ops) /\ leases' \subseteq 1..begun
        BY <2>1, <3>2 DEF QueueGrows, TypeInv
      <4> QED BY <2>3, <3>1, <4>1, <4>2 DEF TypeInv, nativeVars
    <3>4. LeaseInv'
      BY <2>1, <2>4, <2>5, <2>6, <3>1 DEF LeaseInv
    <3>5. BeatInv'
      BY <3>1, <3>2, BeatGrows
    <3>6. ShowInv'
      <4>1. Len(tail') \in 1..Len(tail')
        BY <3>2 DEF QueueGrows
      <4> QED BY <3>1, <3>2, <4>1, ShowGrows
    <3>7. WaitInv'
      <4>1. \A k \in leases' : permission'[k] = permission[k]
        BY <2>1, LeasesAreOpened DEF TypeInv
      <4> QED BY <2>1, <3>2, <4>1, WaitGrows DEF nativeVars
    <3> QED BY <3>3, <3>4, <3>5, <3>6, <3>7
  <2>7. CASE leases' = {}
    <3>1. tail' = Append(tail, Op("idle", None, "none")) /\ timer' = None /\ period' = None
      BY <2>1, <2>7
    <3>2. QueueGrows({"idle"}) /\ Len(tail') = Len(tail) + 1 /\ tail'[Len(tail')].kind = "idle"
      BY <2>2, <3>1, GrownByOne DEF TypeInv
    <3>3. TypeInv'
      <4>1. /\ \A i \in 1..Len(tail') : tail'[i].kind = "refresh" => tail'[i].of <= periods'
            /\ sending'.kind = "refresh" => sending'.of <= periods'
        BY <3>2, TypeGrows
      <4>2. tail' \in Seq(Ops) /\ period' \in 0..periods' /\ periods \in Int /\ begun \in Int /\ periods >= 0
        BY <3>1, <3>2, PeriodsAreLeases DEF QueueGrows, TypeInv
      <4> QED BY <2>3, <2>7, <3>1, <4>1, <4>2 DEF TypeInv, nativeVars
    <3>4. LeaseInv' /\ BeatInv'
      BY <2>4, <2>7, <3>1 DEF LeaseInv, BeatInv
    <3>5. ShowInv'
      <4>1. Len(tail') \in 1..Len(tail')
        BY <3>2 DEF QueueGrows
      <4> QED BY <3>1, <3>2, <4>1 DEF ShowInv, IdleQueued
    <3>6. WaitInv'
      BY <2>7, <3>2, WaitGrows DEF nativeVars
    <3> QED BY <3>3, <3>4, <3>5, <3>6
  <2> QED BY <2>6, <2>7
<1> QED BY <1>1, <1>2

LEMMA EndInv == ASSUME IInv, NEW l \in Leases, End(l) \/ RetainedWorkEnds(l) PROVE IInv'
BY ReleaseInv DEF End, RetainedWorkEnds

LEMMA CloseInv == ASSUME IInv, Close PROVE IInv'
<1> USE DEF IInv
<1>1. /\ leases' = {} /\ timer' = None /\ period' = None /\ closing' = TRUE
      /\ activity' = [k \in Leases |-> IF k \in leases THEN "reasoning" ELSE activity[k]]
      /\ order' = [k \in Leases |-> IF k \in leases THEN 0 ELSE order[k]]
      /\ permission' = [k \in Leases |-> k \notin leases /\ permission[k]]
      /\ tail' = IF period # None THEN Append(tail, Op("idle", None, "none")) ELSE tail
      /\ UNCHANGED <<begun, sequence, current, periods, expired, readyOf, opened, sending, reported, nativeWaits>>
  BY DEF Close, Delete, Retire, nativeVars
<1>2. Op("idle", None, "none") \in Ops /\ Op("idle", None, "none").kind = "idle"
  BY OpFacts DEF Op
<1>3. QueueGrows({"idle"}) /\ (period # None => Len(tail') = Len(tail) + 1 /\ tail'[Len(tail')].kind = "idle")
  <2>1. CASE period = None
    BY <1>1, <2>1, NotGrown DEF TypeInv
  <2>2. CASE period # None
    <3>1. tail' = Append(tail, Op("idle", None, "none"))
      BY <1>1, <2>2
    <3> QED BY <1>2, <3>1, GrownByOne DEF TypeInv
  <2> QED BY <2>1, <2>2
<1>4. TypeInv'
  <2>1. /\ \A i \in 1..Len(tail') : tail'[i].kind = "refresh" => tail'[i].of <= periods'
        /\ sending'.kind = "refresh" => sending'.of <= periods'
    BY <1>1, <1>3, TypeGrows
  <2>2. tail' \in Seq(Ops) /\ period' \in 0..periods' /\ periods \in Int /\ periods >= 0
    BY <1>1, <1>3, PeriodsAreLeases DEF QueueGrows, TypeInv
  <2>3. activity' \in [Leases -> Activities] /\ order' \in [Leases -> Nat] /\ permission' \in [Leases -> BOOLEAN]
        /\ \A k \in Leases : order'[k] <= sequence'
    BY <1>1 DEF TypeInv, Activities
  <2> QED BY <1>1, <2>1, <2>2, <2>3 DEF TypeInv
<1>5. LeaseInv' /\ BeatInv'
  BY <1>1 DEF LeaseInv, BeatInv
<1>6. ShowInv'
  <2>1. CASE period = None
    BY <1>1, <2>1 DEF ShowInv, IdleQueued
  <2>2. CASE period # None
    <3>1. Len(tail') \in 1..Len(tail')
      BY <1>3, <2>2 DEF QueueGrows
    <3> QED BY <1>1, <1>3, <2>2, <3>1 DEF ShowInv, IdleQueued
  <2> QED BY <2>1, <2>2
<1>7. WaitInv'
  BY <1>1, <1>3, WaitGrows
<1> QED BY <1>4, <1>5, <1>6, <1>7

\* A lease that joins a period, or opens with none, leaves the queue alone.
LEMMA JoinInv ==
  ASSUME IInv, NEW l \in Leases, Open(l), closing \/ period # None PROVE IInv'
<1> USE DEF IInv
<1>1. /\ l = begun + 1 /\ begun' = l
      /\ leases' = IF closing THEN leases ELSE leases \cup {l}
      /\ readyOf' = [readyOf EXCEPT ![l] = IF closing THEN None ELSE period]
      /\ UNCHANGED <<periods, period, expired, current, tail, activity, order, permission, sequence, opened, timer,
                     closing, sending, reported, nativeWaits>>
  BY DEF Open, Opening, offerVars, nativeVars
<1>2. begun \in Nat /\ l \notin leases /\ leases \subseteq Leases /\ NumLeases \in Nat
  BY <1>1, PeriodsAreLeases, LeasesAreOpened DEF TypeInv
<1>3. activity[l] = "reasoning" /\ ~permission[l]
  BY <1>2 DEF LeaseInv
<1>4. TypeInv'
  <2>1. begun' \in 0..NumLeases /\ leases' \subseteq 1..begun' /\ periods' \in 0..begun'
    <3>1. leases \subseteq 1..begun /\ periods \in 0..begun
      BY DEF TypeInv
    <3>2. begun' = l /\ l \in 1..NumLeases /\ l = begun + 1
      BY <1>1, PeriodsAreLeases
    <3>3. \A k \in leases' : k \in 1..l
      BY <1>1, <1>2, <3>1, <3>2
    <3> QED BY <1>1, <1>2, <3>1, <3>2, <3>3
  <2>2. readyOf' \in [Leases -> Nat] /\ periods \in Nat /\ period \in Nat
    BY <1>1, <1>2, PeriodsAreLeases DEF TypeInv
  <2> QED BY <1>1, <2>1, <2>2 DEF TypeInv
<1>5. LeaseInv'
  <2>1. \A k \in leases' : readyOf'[k] = period'
    BY <1>1, <1>2 DEF LeaseInv, TypeInv
  <2>2. (period' = None) <=> (leases' = {})
    BY <1>1 DEF LeaseInv
  <2> QED BY <1>1, <2>1, <2>2 DEF LeaseInv
<1>6. BeatInv'
  BY <1>1 DEF BeatInv, NoBeat, OneBeat
<1>7. ShowInv'
  <2>1. Busy(activity)' = Busy(activity) /\ (\E k \in leases' : permission'[k]) = (\E k \in leases : permission[k])
    BY <1>1, <1>3 DEF Busy
  <2>2. Selected(activity, order, permission)' = Selected(activity, order, permission)
    BY <1>1, <2>1 DEF Selected
  <2>3. QueueGrows({})
    BY <1>1, NotGrown DEF TypeInv
  <2> QED BY <1>1, <2>2, <2>3, ShowGrows
<1>8. WaitInv'
  <2>1. nativeWaits[l] = {} /\ \A i \in 1..Len(tail) : ~OfLease(i, l)
    BY <1>1, <1>2 DEF WaitInv
  <2>2. Decided(l)'
    <3>1. permission'[l] = Asks(l)'
      BY <1>1, <1>3, <2>1 DEF Asks, TypeInv
    <3> QED BY <1>1, <2>1, <3>1 DEF Decided, OfLease
  <2>3. \A k \in leases : Decided(k) => Decided(k)'
    BY <1>1 DEF Decided, Asks, OfLease
  <2>4. \A k \in Leases : k > begun' => k > begun
    BY <1>1, <1>2, PeriodsAreLeases
  <2> QED BY <1>1, <2>2, <2>3, <2>4 DEF WaitInv, OfLease
<1> QED BY <1>4, <1>5, <1>6, <1>7, <1>8

\* The first lease of a period queues its opening.
LEMMA PeriodInv ==
  ASSUME IInv, NEW l \in Leases, Open(l), ~closing, period = None PROVE IInv'
<1> USE DEF IInv
<1>1. /\ l = begun + 1 /\ begun' = l /\ leases' = leases \cup {l}
      /\ periods' = periods + 1 /\ period' = periods + 1 /\ expired' = FALSE /\ current' = "reasoning"
      /\ tail' = Append(tail, RefreshOf(periods + 1))
      /\ readyOf' = [readyOf EXCEPT ![l] = periods + 1]
      /\ UNCHANGED <<activity, order, permission, sequence, opened, timer, closing, sending, reported, nativeWaits>>
  BY DEF Open, Opening, offerVars, nativeVars, RefreshOf
<1>2. begun \in Nat /\ periods \in Nat /\ periods <= begun /\ NumLeases \in Nat /\ l <= NumLeases
      /\ leases = {} /\ leases' = {l} /\ periods + 1 \in Periods /\ periods + 1 # None /\ timer = None
  <2>1. begun \in 0..NumLeases /\ periods \in 0..begun /\ l \in 1..NumLeases
    BY PeriodsAreLeases DEF TypeInv
  <2>2. leases = {} /\ timer = None
    BY PeriodsAreLeases DEF LeaseInv, BeatInv
  <2> QED BY <1>1, <2>1, <2>2, PeriodsAreLeases
<1>3. RefreshOf(periods + 1) \in Ops /\ RefreshOf(periods + 1).kind = "refresh" /\ RefreshOf(periods + 1).of = periods + 1
  BY <1>2, OpFacts
<1>4. QueueGrows({"refresh"}) /\ Len(tail') = Len(tail) + 1 /\ tail'[Len(tail')] = RefreshOf(periods + 1)
  BY <1>1, <1>3, GrownByOne DEF TypeInv
<1>5. /\ Len(tail) \in Nat /\ tail' \in Seq(Ops) /\ Len(tail') \in 1..Len(tail')
      /\ \A i \in 1..Len(tail) : tail'[i] = tail[i]
      /\ \A i \in 1..Len(tail') : i \in 1..Len(tail) \/ i = Len(tail')
  BY <1>4 DEF QueueGrows
<1>6. \A i \in 1..Len(tail') : tail'[i].kind = "refresh" => tail'[i].of <= periods'
  <2>1. \A i \in 1..Len(tail) : tail[i].kind = "refresh" => tail[i].of \in Nat /\ tail[i].of <= periods
    <3>1. \A i \in 1..Len(tail) : tail[i] \in Ops
      BY DEF TypeInv
    <3> QED BY <3>1, OpFacts, PeriodsAreLeases DEF TypeInv
  <2>2. \A i \in 1..Len(tail) : tail'[i].kind = "refresh" => tail'[i].of <= periods + 1
    BY <1>2, <1>5, <2>1
  <2>3. tail'[Len(tail')].of <= periods + 1
    BY <1>2, <1>3, <1>4
  <2> QED BY <1>1, <1>5, <2>2, <2>3
<1>7. \A i \in 1..Len(tail) : tail[i] # RefreshOf(periods + 1)
  <2>1. \A i \in 1..Len(tail) : tail[i].kind = "refresh" => tail[i].of <= periods
    BY DEF TypeInv
  <2>2. ~(periods + 1 <= periods)
    BY <1>2
  <2> QED BY <1>3, <2>1, <2>2
<1>8. sending # RefreshOf(periods + 1)
  BY <1>2, <1>3 DEF TypeInv
<1>9. TypeInv'
  <2>1. begun' \in 0..NumLeases /\ leases' \subseteq 1..begun' /\ periods' \in 0..begun' /\ period' \in 0..periods'
    BY <1>1, <1>2 DEF TypeInv
  <2>2. opened' \subseteq 1..periods' /\ readyOf' \in [Leases -> Nat] /\ current' \in Shown
    BY <1>1, <1>2 DEF TypeInv, Shown, Activities
  <2>3. sending.kind = "refresh" => sending.of <= periods'
    <3>1. SUFFICES ASSUME sending.kind = "refresh" PROVE sending.of <= periods + 1
      BY <1>1
    <3>2. sending \in Ops /\ sending.of \in Periods /\ sending.of <= periods
      BY <3>1, OpFacts DEF TypeInv
    <3> QED BY <1>2, <3>2, PeriodsAreLeases
  <2> QED BY <1>1, <1>5, <1>6, <2>1, <2>2, <2>3 DEF TypeInv
<1>10. LeaseInv'
  BY <1>1, <1>2 DEF LeaseInv, TypeInv
<1>11. BeatInv'
  <2>1. OneBeat'
    BY <1>1, <1>4, <1>5, <1>7 DEF OneBeat
  <2> QED BY <1>1, <1>2, <1>8, <2>1 DEF BeatInv
<1>12. ShowInv'
  <2>1. ToOpen'
    <3>1. PICK n \in 1..Len(tail') : n = Len(tail')
      BY <1>5
    <3>2. tail'[n] = RefreshOf(period)' /\ tail'[n].kind # "idle"
      BY <1>1, <1>3, <1>4, <3>1
    <3>3. \A j \in 1..Len(tail') : tail'[j].kind = "idle" => j < n
      BY <1>5, <3>1, <3>2
    <3> QED BY <3>2, <3>3 DEF ToOpen
  <2>2. periods + 1 \notin opened
    BY <1>2 DEF TypeInv
  <2> QED BY <1>1, <1>2, <1>8, <2>1, <2>2 DEF ShowInv
<1>13. WaitInv'
  <2>1. \A k \in Leases : \A i \in 1..Len(tail') : OfLease(i, k)' => i \in 1..Len(tail) /\ OfLease(i, k)
    BY <1>3, <1>4, <1>5 DEF OfLease
  <2>2. nativeWaits[l] = {} /\ \A i \in 1..Len(tail) : ~OfLease(i, l)
    BY <1>1, <1>2 DEF WaitInv
  <2>3. permission'[l] = Asks(l)'
    BY <1>1, <1>2, <2>2 DEF LeaseInv, Asks, TypeInv
  <2>4. Decided(l)'
    BY <2>1, <2>2, <2>3 DEF Decided
  <2>5. \A k \in Leases : k > begun' => k > begun
    BY <1>1, <1>2, PeriodsAreLeases
  <2> QED BY <1>1, <1>2, <2>1, <2>4, <2>5 DEF WaitInv
<1> QED BY <1>9, <1>10, <1>11, <1>12, <1>13

LEMMA OpenInv == ASSUME IInv, NEW l \in Leases, Open(l) PROVE IInv'
BY JoinInv, PeriodInv

----------------------------------------------------------------------------
(* The reporter's own steps.                                               *)

LEMMA KeepAliveInv == ASSUME IInv, KeepAlive PROVE IInv'
<1> USE DEF IInv
<1>1. /\ timer # None /\ timer = period /\ timer' = None /\ tail' = Append(tail, RefreshOf(period))
      /\ UNCHANGED <<leases, begun, activity, order, permission, sequence, current, period, periods, expired,
                     readyOf, opened, closing, sending, reported, nativeWaits>>
  BY DEF KeepAlive, BeatInv, RefreshOf, leaseVars, offerVars, nativeVars
<1>2. period \in Periods /\ period <= periods
  BY <1>1, PeriodsAreLeases DEF TypeInv
<1>3. RefreshOf(period) \in Ops /\ RefreshOf(period).kind = "refresh" /\ RefreshOf(period).of = period
  BY <1>2, OpFacts
<1>4. QueueGrows({"refresh"}) /\ Len(tail') = Len(tail) + 1 /\ tail'[Len(tail')] = RefreshOf(period)
  BY <1>1, <1>3, GrownByOne DEF TypeInv
<1>5. /\ Len(tail) \in Nat /\ tail' \in Seq(Ops) /\ Len(tail') \in 1..Len(tail')
      /\ \A i \in 1..Len(tail) : i \in 1..Len(tail') /\ tail'[i] = tail[i]
      /\ \A i \in 1..Len(tail') : i \in 1..Len(tail) \/ i = Len(tail')
  BY <1>4 DEF QueueGrows
<1>6. TypeInv'
  <2>1. \A i \in 1..Len(tail) : tail'[i].kind = "refresh" => tail'[i].of <= periods
    BY <1>5 DEF TypeInv
  <2>2. \A i \in 1..Len(tail') : tail'[i].kind = "refresh" => tail'[i].of <= periods
    BY <1>2, <1>3, <1>4, <1>5, <2>1
  <2> QED BY <1>1, <1>5, <2>2 DEF TypeInv
<1>7. LeaseInv'
  BY <1>1 DEF LeaseInv
<1>8. BeatInv'
  <2>1. NoBeat => OneBeat'
    BY <1>1, <1>4, <1>5 DEF NoBeat, OneBeat
  <2> QED BY <1>1, <2>1 DEF BeatInv
<1>9. ShowInv'
  <2>1. Selected(activity, order, permission)' = Selected(activity, order, permission)
    BY <1>1 DEF Selected, Busy
  <2> QED BY <1>1, <1>4, <2>1, ShowGrows
<1>10. WaitInv'
  BY <1>1, <1>4, WaitGrows
<1> QED BY <1>6, <1>7, <1>8, <1>9, <1>10

LEMMA ExpireInv == ASSUME IInv, Expire PROVE IInv'
<1> USE DEF IInv
<1>1. /\ period # None /\ expired' = TRUE /\ tail' = tail
      /\ UNCHANGED <<leases, begun, activity, order, permission, sequence, current, period, periods,
                     readyOf, opened, timer, closing, sending, reported, nativeWaits>>
  BY DEF Expire, leaseVars, offerVars, nativeVars, queueVars
<1>2. TypeInv'
  BY <1>1 DEF TypeInv
<1>3. LeaseInv' /\ BeatInv' /\ ShowInv'
  BY <1>1 DEF LeaseInv, BeatInv, ShowInv
<1>4. WaitInv'
  BY <1>1 DEF WaitInv, OfLease
<1> QED BY <1>2, <1>3, <1>4

LEMMA SendReturnsInv == ASSUME IInv, SendReturns PROVE IInv'
<1> USE DEF IInv
<1>1. /\ sending # NoOp /\ sending' = NoOp
      /\ UNCHANGED <<leases, begun, activity, order, permission, sequence, current, period, periods, expired,
                     readyOf, closing, tail, reported, nativeWaits>>
  BY DEF SendReturns, leaseVars, offerVars, nativeVars
<1>2. Selected(activity, order, permission)' = Selected(activity, order, permission)
  BY <1>1 DEF Selected, Busy
<1>3. LeaseInv' /\ WaitInv' /\ (Told => Told') /\ (ToOpen => ToOpen') /\ (NoBeat => NoBeat') /\ (OneBeat => OneBeat')
      /\ IdleQueued' = IdleQueued
  <2>1. LeaseInv'
    BY <1>1 DEF LeaseInv
  <2>2. WaitInv'
    BY <1>1 DEF WaitInv, Decided, Asks, OfLease
  <2>3. (NoBeat => NoBeat') /\ (OneBeat => OneBeat') /\ (IdleQueued' = IdleQueued) /\ (ToOpen => ToOpen')
    BY <1>1 DEF NoBeat, OneBeat, IdleQueued, ToOpen
  <2>4. Told => Told'
    BY <1>1, <1>2, <2>3 DEF Told
  <2> QED BY <2>1, <2>2, <2>3, <2>4
<1>4. NoOp.kind = "none" /\ \A p : RefreshOf(p) # NoOp /\ RefreshOf(p).kind = "refresh" /\ RefreshOf(p).of = p
  BY OpFacts
<1>5. CASE sending.kind = "refresh"
  <2>1. sending.of \in Periods /\ sending = RefreshOf(sending.of) /\ sending.of <= periods
    BY <1>1, <1>5, OpFacts DEF TypeInv
  <2>2. opened' = opened \cup {sending.of} /\ timer' = Armed(sending.of)
    BY <1>5 DEF SendReturns
  <2>3. TypeInv'
    <3>1. opened' \subseteq 1..periods
      <4>1. opened \subseteq 1..periods /\ periods \in 0..begun /\ begun \in 0..NumLeases
        BY DEF TypeInv
      <4>2. sending.of \in 1..periods
        BY <2>1, <4>1, PeriodsAreLeases
      <4> QED BY <2>2, <4>1, <4>2
    <3> QED BY <1>1, <1>4, <3>1 DEF TypeInv
  <2>4. BeatInv'
    <3>1. CASE sending.of = period /\ ~expired
      <4>1. timer' = period /\ period # None /\ sending = RefreshOf(period)
        BY <2>1, <2>2, <3>1, PeriodsAreLeases DEF Armed, CanRefresh
      <4>2. NoBeat
        BY <3>1, <4>1 DEF BeatInv
      <4> QED BY <1>1, <1>3, <1>4, <4>1, <4>2 DEF BeatInv
    <3>2. CASE ~(sending.of = period /\ ~expired)
      <4>1. timer' = timer
        BY <2>2, <3>2 DEF Armed, CanRefresh
      <4>2. ~expired => sending # RefreshOf(period)
        BY <1>4, <2>1, <3>2
      <4> QED BY <1>1, <1>3, <1>4, <4>1, <4>2 DEF BeatInv
    <3> QED BY <3>1, <3>2
  <2>5. ShowInv'
    <3>1. period # None /\ ~expired /\ period \in opened' => Told
      BY <2>1, <2>2 DEF ShowInv
    <3> QED BY <1>1, <1>3, <1>4, <3>1 DEF ShowInv
  <2> QED BY <1>3, <2>3, <2>4, <2>5
<1>6. CASE sending.kind # "refresh"
  <2>1. UNCHANGED <<opened, timer>> /\ sending # RefreshOf(period)
    BY <1>4, <1>6 DEF SendReturns
  <2>2. TypeInv'
    BY <1>1, <1>4, <2>1 DEF TypeInv
  <2>3. BeatInv'
    BY <1>1, <1>3, <1>4, <2>1 DEF BeatInv
  <2>4. ShowInv'
    BY <1>1, <1>3, <1>4, <2>1 DEF ShowInv
  <2> QED BY <1>3, <2>2, <2>3, <2>4
<1> QED BY <1>5, <1>6

\* The queue without its first operation.
Shrinks ==
  /\ Len(tail) \in Nat /\ 1 \in 1..Len(tail) /\ tail[1] \in Ops
  /\ tail' \in Seq(Ops) /\ Len(tail') \in Nat
  /\ \A i \in 1..Len(tail') : i + 1 \in 1..Len(tail) /\ tail'[i] = tail[i + 1]
  /\ \A i \in 1..Len(tail) : i # 1 => i - 1 \in 1..Len(tail') /\ tail'[i - 1] = tail[i]

LEMMA QueueShrinks == ASSUME TypeInv, RunNext PROVE Shrinks /\ Head(tail) = tail[1]
<1>1. tail \in Seq(Ops) /\ tail # <<>> /\ tail' = Tail(tail)
  BY DEF RunNext, TypeInv
<1>2. Len(tail) \in Nat /\ Len(tail) >= 1 /\ Head(tail) = tail[1] /\ Head(tail) \in Ops /\ tail' \in Seq(Ops)
      /\ Len(tail') = Len(tail) - 1 /\ \A i \in 1..Len(tail') : tail'[i] = tail[i + 1]
  BY <1>1, PoppedTail
<1>3. \A i \in 1..Len(tail) : i # 1 => i - 1 \in 1..Len(tail') /\ (i - 1) + 1 = i
  BY <1>2
<1> QED BY <1>2, <1>3 DEF Shrinks

LEMMA BeatShrinks ==
  ASSUME Shrinks, BeatInv, UNCHANGED <<period, timer, expired>>, sending = NoOp,
         sending' # RefreshOf(period), tail[1] = RefreshOf(period) => expired \/ period = None
  PROVE  BeatInv'
<1>1. NoBeat => NoBeat'
  BY DEF NoBeat, Shrinks
<1>2. ASSUME OneBeat, tail[1] # RefreshOf(period) PROVE OneBeat'
  <2>1. PICK i \in 1..Len(tail) : tail[i] = RefreshOf(period) /\ \A j \in 1..Len(tail) : tail[j] = RefreshOf(period) => j = i
    BY <1>2 DEF OneBeat
  <2>2. i # 1 /\ i - 1 \in 1..Len(tail') /\ tail'[i - 1] = RefreshOf(period)
    BY <1>2, <2>1 DEF Shrinks
  <2>3. \A j \in 1..Len(tail') : tail'[j] = RefreshOf(period) => j = i - 1
    BY <2>1 DEF Shrinks
  <2> QED BY <2>2, <2>3 DEF OneBeat
<1>3. NoOp # RefreshOf(period)
  BY OpFacts
<1> QED BY <1>1, <1>2, <1>3 DEF BeatInv

LEMMA IdleShrinks ==
  ASSUME Shrinks
  PROVE  /\ IdleQueued' => IdleQueued
         /\ IdleQueued /\ tail[1].kind # "idle" => IdleQueued'
<1>1. IdleQueued' => IdleQueued
  BY DEF Shrinks, IdleQueued
<1>2. ASSUME IdleQueued, tail[1].kind # "idle" PROVE IdleQueued'
  <2>1. PICK i \in 1..Len(tail) : tail[i].kind = "idle"
    BY <1>2 DEF IdleQueued
  <2>2. i - 1 \in 1..Len(tail') /\ tail'[i - 1].kind = "idle"
    BY <1>2, <2>1 DEF Shrinks
  <2> QED BY <2>2 DEF IdleQueued
<1> QED BY <1>1, <1>2

LEMMA OpenShrinks ==
  ASSUME Shrinks, ToOpen, period' = period, tail[1] # RefreshOf(period) PROVE ToOpen'
<1>1. PICK i \in 1..Len(tail) : tail[i] = RefreshOf(period) /\ \A j \in 1..Len(tail) : tail[j].kind = "idle" => j < i
  BY DEF ToOpen
<1>2. i # 1 /\ i - 1 \in 1..Len(tail') /\ tail'[i - 1] = RefreshOf(period)
  BY <1>1 DEF Shrinks
<1>3. ASSUME NEW j \in 1..Len(tail'), tail'[j].kind = "idle" PROVE j < i - 1
  <2>1. j + 1 \in 1..Len(tail) /\ tail[j + 1].kind = "idle"
    BY <1>3 DEF Shrinks
  <2>2. j + 1 < i
    BY <1>1, <2>1
  <2> QED BY <2>2
<1> QED BY <1>2, <1>3 DEF ToOpen

\* An operation that neither ends a period nor opens the current one.
LEMMA ShowShrinks ==
  ASSUME Shrinks, ShowInv, UNCHANGED <<period, expired>>, tail[1].kind # "idle",
         period = None => reported' = reported,
         period # None /\ ~expired =>
           /\ sending' # RefreshOf(period) /\ tail[1] # RefreshOf(period)
           /\ period \in opened' => period \in opened
           /\ Told => /\ reported' = current'
                      /\ \/ current' = Selected(activity, order, permission)'
                         \/ /\ tail[1].kind # "publish" /\ current' = current
                            /\ Selected(activity, order, permission)' = Selected(activity, order, permission)
  PROVE  ShowInv'
<1>1. ASSUME period # None, ~expired, Told PROVE Told'
  <2>1. ~IdleQueued' /\ reported' = current'
    BY <1>1, IdleShrinks DEF Told
  <2>2. (\E i \in 1..Len(tail) : tail[i].kind = "publish") /\ tail[1].kind # "publish"
        => \E i \in 1..Len(tail') : tail'[i].kind = "publish"
    BY DEF Shrinks
  <2> QED BY <1>1, <2>1, <2>2 DEF Told
<1>2. ASSUME period # None, ~expired, ToOpen PROVE ToOpen'
  BY <1>2, OpenShrinks
<1> QED BY <1>1, <1>2, IdleShrinks DEF ShowInv

LEMMA WaitShrinks ==
  ASSUME Shrinks, TypeInv, WaitInv, UNCHANGED <<leases, begun, nativeWaits, expired>>,
         permission' \in [Leases -> BOOLEAN],
         ~expired => \A k \in leases : permission'[k] = IF OfLease(1, k) THEN tail[1].value = "wait" ELSE permission[k]
  PROVE  WaitInv'
<1>1. \A k : \A i \in 1..Len(tail') : OfLease(i, k)' <=> OfLease(i + 1, k)
  BY DEF Shrinks, OfLease
<1>2. ASSUME ~expired, NEW k \in leases PROVE Decided(k)'
  <2>1. Decided(k) /\ Asks(k)' = Asks(k) /\ permission'[k] = IF OfLease(1, k) THEN tail[1].value = "wait" ELSE permission[k]
    BY <1>2 DEF WaitInv, Asks
  <2>2. CASE permission[k] = Asks(k) /\ \A i \in 1..Len(tail) : ~OfLease(i, k)
    <3>1. permission'[k] = Asks(k)'
      BY <2>1, <2>2 DEF Shrinks
    <3>2. \A i \in 1..Len(tail') : ~OfLease(i, k)'
      BY <1>1, <2>2 DEF Shrinks
    <3> QED BY <3>1, <3>2 DEF Decided
  <2>3. ASSUME NEW i \in 1..Len(tail), OfLease(i, k), (tail[i].value = "wait") = Asks(k),
               \A j \in 1..Len(tail) : OfLease(j, k) => j <= i
        PROVE  Decided(k)'
    <3>1. CASE i = 1
      <4>1. permission'[k] = Asks(k)'
        BY <2>1, <2>3, <3>1
      <4>2. \A j \in 1..Len(tail') : ~OfLease(j, k)'
        BY <1>1, <2>3, <3>1 DEF Shrinks
      <4> QED BY <4>1, <4>2 DEF Decided
    <3>2. CASE i # 1
      <4>1. PICK h \in 1..Len(tail') : h = i - 1 /\ tail'[h] = tail[i] /\ h + 1 = i
        BY <3>2 DEF Shrinks
      <4>2. OfLease(h, k)' /\ (tail'[h].value = "wait") = Asks(k)'
        BY <1>1, <2>1, <2>3, <4>1
      <4>3. \A j \in 1..Len(tail') : OfLease(j, k)' => j <= h
        BY <1>1, <2>3, <4>1 DEF Shrinks
      <4> QED BY <4>2, <4>3 DEF Decided
    <3> QED BY <3>1, <3>2
  <2> QED BY <2>1, <2>2, <2>3 DEF Decided
<1>3. \A k \in Leases : k > begun' => nativeWaits'[k] = {} /\ \A i \in 1..Len(tail') : ~OfLease(i, k)'
  BY <1>1 DEF WaitInv, Shrinks
<1> QED BY <1>2, <1>3 DEF WaitInv

\* What the operation leaves alone, whatever it is.
Running == UNCHANGED <<leases, begun, period, periods, expired, readyOf, timer, closing, nativeWaits>>

LEMMA TypeShrinks ==
  ASSUME TypeInv, Shrinks, Running, opened' \subseteq 1..periods,
         activity' \in [Leases -> Activities], order' \in [Leases -> Nat], permission' \in [Leases -> BOOLEAN],
         sequence' \in Nat, \A l \in Leases : order'[l] <= sequence',
         current' \in Shown, reported' \in Shown \cup {"none", "idle"},
         sending' \in {sending, tail[1]}
  PROVE  TypeInv'
<1>1. ASSUME NEW i \in 1..Len(tail'), tail'[i].kind = "refresh" PROVE tail'[i].of <= periods
  <2>1. i + 1 \in 1..Len(tail) /\ tail'[i] = tail[i + 1]
    BY DEF Shrinks
  <2> QED BY <1>1, <2>1 DEF TypeInv
<1>2. tail[1].kind = "refresh" => tail[1].of <= periods
  BY DEF TypeInv, Shrinks
<1>3. sending' \in Ops \cup {NoOp} /\ (sending'.kind = "refresh" => sending'.of <= periods)
  BY <1>2 DEF TypeInv, Shrinks
<1>4. tail' \in Seq(Ops)
  BY DEF Shrinks
<1> QED BY <1>1, <1>3, <1>4 DEF TypeInv, Running

\* Publishing what was selected; an operation that changes an offer publishes at once.
LEMMA PublishFacts ==
  ASSUME TypeInv, NEW op, NEW act \in [Leases -> Activities], NEW ord \in [Leases -> Nat], NEW bound \in Nat,
         \A l \in Leases : ord[l] <= bound, NEW perm, Publish(op, act, ord, perm)
  PROVE  /\ current' \in Shown /\ reported' \in Shown \cup {"none", "idle"}
         /\ sending' = sending \/ sending' = op
         /\ period = None => reported' = reported
         /\ period # None /\ ~expired => current' = Selected(act, ord, perm) /\ (reported = current => reported' = current')
<1>1. Selected(act, ord, perm) \in Shown
  BY SelectedIsShown
<1> QED BY <1>1 DEF Publish, Report, TypeInv

LEMMA PublishInv == ASSUME IInv, RunNext, Running, RunPublish(tail[1]) PROVE IInv'
<1> USE DEF IInv
<1>1. Shrinks
  BY QueueShrinks
<1>2. tail[1] \in Ops /\ tail[1].kind = "publish" /\ tail[1] # RefreshOf(period) /\ sending = NoOp
      /\ UNCHANGED <<activity, order, permission, sequence, opened>>
  BY <1>1, OpFacts DEF RunPublish, offerVars, RunNext, Shrinks
<1>3. /\ current' \in Shown /\ reported' \in Shown \cup {"none", "idle"}
      /\ sending' = sending \/ sending' = tail[1]
      /\ period = None => reported' = reported
      /\ period # None /\ ~expired =>
           current' = Selected(activity, order, permission) /\ (reported = current => reported' = current')
  BY PublishFacts DEF RunPublish, TypeInv
<1>4. sending'.kind # "refresh" /\ sending' # RefreshOf(period) /\ sending' \in Ops \cup {NoOp}
  BY <1>2, <1>3, OpFacts
<1>5. TypeInv'
  BY <1>1, <1>2, <1>3, TypeShrinks DEF TypeInv
<1>6. LeaseInv'
  BY <1>2 DEF LeaseInv, Running
<1>7. BeatInv'
  BY <1>1, <1>2, <1>4, BeatShrinks DEF Running
<1>8. ShowInv'
  <2>1. Selected(activity, order, permission)' = Selected(activity, order, permission)
    BY <1>2 DEF Selected, Busy, Running
  <2>2. Told => reported = current
    BY DEF Told
  <2> QED BY <1>1, <1>2, <1>3, <1>4, <2>1, <2>2, ShowShrinks DEF Running
<1>9. WaitInv'
  BY <1>1, <1>2, WaitShrinks DEF Running, TypeInv, OfLease
<1> QED BY <1>5, <1>6, <1>7, <1>8, <1>9

LEMMA IdleInv == ASSUME IInv, RunNext, Running, RunIdle(tail[1]) PROVE IInv'
<1> USE DEF IInv
<1>1. Shrinks
  BY QueueShrinks
<1>2. tail[1] \in Ops /\ tail[1].kind = "idle" /\ tail[1] # RefreshOf(period) /\ sending = NoOp
      /\ sending' = tail[1] /\ reported' = "idle"
      /\ UNCHANGED <<activity, order, permission, sequence, current, opened>>
  BY <1>1, OpFacts DEF RunIdle, Report, offerVars, RunNext, Shrinks
<1>3. TypeInv'
  BY <1>1, <1>2, TypeShrinks DEF TypeInv
<1>4. LeaseInv'
  BY <1>2 DEF LeaseInv, Running
<1>5. BeatInv'
  BY <1>1, <1>2, BeatShrinks DEF Running
<1>6. ShowInv'
  <2>1. IdleQueued /\ ~Told
    BY <1>1, <1>2 DEF IdleQueued, Told, Shrinks
  <2>2. ToOpen => ToOpen'
    BY <1>1, <1>2, OpenShrinks DEF Running
  <2> QED BY <1>2, <2>1, <2>2 DEF ShowInv, Running
<1>7. WaitInv'
  BY <1>1, <1>2, WaitShrinks DEF Running, TypeInv, OfLease
<1> QED BY <1>3, <1>4, <1>5, <1>6, <1>7

LEMMA RefreshInv == ASSUME IInv, RunNext, Running, RunRefresh(tail[1]) PROVE IInv'
<1> USE DEF IInv
<1>1. Shrinks
  BY QueueShrinks
<1>2. tail[1] \in Ops /\ tail[1].kind = "refresh" /\ tail[1] = RefreshOf(tail[1].of) /\ sending = NoOp
      /\ tail[1].of \in Periods /\ tail[1].of <= periods /\ tail[1].of # None
      /\ UNCHANGED <<activity, order, permission, sequence>>
  <2>1. tail[1].kind = "refresh" /\ tail[1] \in Ops /\ tail[1].of <= periods
    BY <1>1 DEF RunRefresh, Shrinks, TypeInv
  <2> QED BY <2>1, OpFacts, PeriodsAreLeases DEF RunRefresh, offerVars, RunNext
<1>3. Selected(activity, order, permission)' = Selected(activity, order, permission)
  BY <1>2 DEF Selected, Busy, Running
<1>4. LeaseInv'
  BY <1>2 DEF LeaseInv, Running
<1>5. WaitInv'
  BY <1>1, <1>2, WaitShrinks DEF Running, TypeInv, OfLease
<1>6. CASE CanRefresh(tail[1].of)
  <2>1. /\ tail[1].of = period /\ ~expired /\ period # None /\ tail[1] = RefreshOf(period)
        /\ current' = Selected(activity, order, permission) /\ reported' = current' /\ sending' = tail[1]
        /\ opened' = opened
    BY <1>2, <1>6 DEF RunRefresh, CanRefresh, Report
  <2>2. current' \in Shown
    BY <2>1, SelectedIsShown DEF TypeInv
  <2>3. TypeInv'
    BY <1>1, <1>2, <2>1, <2>2, TypeShrinks DEF TypeInv
  <2>4. timer = None /\ \A j \in 1..Len(tail) : tail[j] = RefreshOf(period) => j = 1
    <3>1. ~NoBeat /\ sending # RefreshOf(period)
      BY <1>1, <1>2, <2>1, OpFacts DEF NoBeat, Shrinks
    <3>2. timer = None /\ OneBeat
      BY <2>1, <3>1 DEF BeatInv
    <3> QED BY <1>1, <2>1, <3>2 DEF OneBeat, Shrinks
  <2>5. BeatInv'
    <3>1. NoBeat'
      <4>1. ASSUME NEW i \in 1..Len(tail'), tail'[i] = RefreshOf(period) PROVE FALSE
        <5>1. i + 1 \in 1..Len(tail) /\ tail[i + 1] = RefreshOf(period) /\ i + 1 # 1
          BY <1>1, <4>1 DEF Shrinks
        <5> QED BY <2>4, <5>1
      <4> QED BY <4>1 DEF NoBeat, Running
    <3> QED BY <2>1, <2>4, <3>1 DEF BeatInv, Running
  <2>6. ShowInv'
    <3>1. ~IdleQueued
      <4>1. CASE ToOpen
        <5>1. PICK i \in 1..Len(tail) : tail[i] = RefreshOf(period) /\ \A j \in 1..Len(tail) : tail[j].kind = "idle" => j < i
          BY <4>1 DEF ToOpen
        <5>2. i = 1
          BY <2>4, <5>1
        <5> QED BY <5>1, <5>2 DEF IdleQueued
      <4> QED BY <2>1, <4>1 DEF ShowInv, Told
    <3>2. ~IdleQueued'
      BY <1>1, <3>1, IdleShrinks
    <3>3. Told'
      BY <1>3, <2>1, <3>2 DEF Told
    <3> QED BY <2>1, <3>3 DEF ShowInv, Running
  <2> QED BY <1>4, <1>5, <2>3, <2>5, <2>6
<1>7. CASE ~CanRefresh(tail[1].of)
  <2>1. opened' = opened \cup {tail[1].of} /\ UNCHANGED <<current, sending, reported>>
    BY <1>7 DEF RunRefresh, Settled
  <2>2. tail[1] = RefreshOf(period) => expired
    BY <1>2, <1>7, OpFacts DEF CanRefresh
  <2>3. sending' # RefreshOf(period) /\ sending' = NoOp /\ sending'.kind # "refresh"
    BY <1>2, <2>1, OpFacts
  <2>4. TypeInv'
    <3>1. opened' \subseteq 1..periods
      <4>1. opened \subseteq 1..periods /\ periods \in 0..begun /\ begun \in 0..NumLeases
        BY DEF TypeInv
      <4>2. tail[1].of \in 1..periods
        BY <1>2, <4>1, PeriodsAreLeases
      <4> QED BY <2>1, <4>1, <4>2
    <3> QED BY <1>1, <1>2, <2>1, <3>1, TypeShrinks DEF TypeInv
  <2>5. BeatInv'
    BY <1>1, <1>2, <2>2, <2>3, BeatShrinks DEF Running
  <2>6. ShowInv'
    <3>1. ~expired /\ period \in opened' => period \in opened
      BY <1>7, <2>1 DEF CanRefresh
    <3>2. Told => reported = current
      BY DEF Told
    <3> QED BY <1>1, <1>2, <1>3, <2>1, <2>2, <2>3, <3>1, <3>2, ShowShrinks DEF Running
  <2> QED BY <1>4, <1>5, <2>4, <2>5, <2>6
<1> QED BY <1>6, <1>7

LEMMA ObserveInv == ASSUME IInv, RunNext, Running, RunObserve(tail[1]) PROVE IInv'
<1> USE DEF IInv
<1>1. Shrinks
  BY QueueShrinks
<1>2. tail[1] \in Ops /\ tail[1].kind = "observe" /\ tail[1] # RefreshOf(period) /\ sending = NoOp
      /\ tail[1].of \in Leases /\ tail[1].value \in Activities /\ UNCHANGED <<permission, opened>>
  <2>1. tail[1] \in Ops /\ tail[1].kind = "observe"
    BY <1>1 DEF RunObserve, Shrinks
  <2> QED BY <2>1, OpFacts DEF RunObserve, RunNext
<1>3. WaitInv'
  BY <1>1, <1>2, WaitShrinks DEF Running, TypeInv, OfLease
<1>4. CASE ActiveLease(tail[1].of) /\ activity[tail[1].of] # tail[1].value
  <2>1. /\ activity' = [activity EXCEPT ![tail[1].of] = tail[1].value]
        /\ order' = [order EXCEPT ![tail[1].of] = sequence + 1] /\ sequence' = sequence + 1
        /\ Publish(tail[1], activity', order', permission)
    BY <1>4 DEF RunObserve
  <2>2. activity' \in [Leases -> Activities] /\ order' \in [Leases -> Nat] /\ sequence' \in Nat
        /\ \A l \in Leases : order'[l] <= sequence'
    BY <1>2, <2>1 DEF TypeInv
  <2>3. /\ current' \in Shown /\ reported' \in Shown \cup {"none", "idle"}
        /\ sending' = sending \/ sending' = tail[1]
        /\ period = None => reported' = reported
        /\ period # None /\ ~expired =>
             current' = Selected(activity', order', permission) /\ (reported = current => reported' = current')
    BY <2>1, <2>2, PublishFacts
  <2>4. TypeInv'
    BY <1>1, <1>2, <2>2, <2>3, TypeShrinks DEF TypeInv
  <2>5. LeaseInv'
    BY <1>2, <1>4, <2>1 DEF LeaseInv, ActiveLease, Running
  <2>6. sending' # RefreshOf(period)
    BY <1>2, <2>3, OpFacts
  <2>7. BeatInv'
    BY <1>1, <1>2, <2>6, BeatShrinks DEF Running
  <2>8. ShowInv'
    <3>1. Selected(activity, order, permission)' = Selected(activity', order', permission)
      BY <1>2 DEF Selected, Busy, Running
    <3>2. Told => reported = current
      BY DEF Told
    <3> QED BY <1>1, <1>2, <2>3, <2>6, <3>1, <3>2, ShowShrinks DEF Running
  <2> QED BY <1>3, <2>4, <2>5, <2>7, <2>8
<1>5. CASE ~(ActiveLease(tail[1].of) /\ activity[tail[1].of] # tail[1].value)
  <2>1. UNCHANGED <<activity, order, sequence, current, sending, reported>>
    BY <1>5 DEF RunObserve
  <2>2. TypeInv'
    BY <1>1, <1>2, <2>1, TypeShrinks DEF TypeInv
  <2>3. LeaseInv'
    BY <1>2, <2>1 DEF LeaseInv, Running
  <2>4. BeatInv'
    BY <1>1, <1>2, <2>1, OpFacts, BeatShrinks DEF Running
  <2>5. ShowInv'
    <3>1. Selected(activity, order, permission)' = Selected(activity, order, permission)
      BY <1>2, <2>1 DEF Selected, Busy, Running
    <3>2. (Told => reported = current) /\ sending' # RefreshOf(period)
      BY <1>2, <2>1, OpFacts DEF Told
    <3> QED BY <1>1, <1>2, <2>1, <3>1, <3>2, ShowShrinks DEF Running
  <2> QED BY <1>3, <2>2, <2>3, <2>4, <2>5
<1> QED BY <1>4, <1>5

LEMMA PermissionInv == ASSUME IInv, RunNext, Running, RunPermission(tail[1]) PROVE IInv'
<1> USE DEF IInv
<1>1. Shrinks
  BY QueueShrinks
<1>2. tail[1] \in Ops /\ tail[1].kind = "permission" /\ tail[1] # RefreshOf(period) /\ sending = NoOp
      /\ tail[1].of \in Leases /\ UNCHANGED <<activity, order, sequence, opened>>
  <2>1. tail[1] \in Ops /\ tail[1].kind = "permission"
    BY <1>1 DEF RunPermission, Shrinks
  <2> QED BY <2>1, OpFacts DEF RunPermission, RunNext
<1>3. PICK waiting \in BOOLEAN : waiting = (tail[1].value = "wait")
  OBVIOUS
<1>4. CASE ActiveLease(tail[1].of) /\ permission[tail[1].of] # waiting
  <2>1. /\ permission' = [permission EXCEPT ![tail[1].of] = waiting]
        /\ Publish(tail[1], activity, order, permission')
    BY <1>3, <1>4 DEF RunPermission
  <2>2. permission' \in [Leases -> BOOLEAN]
    BY <1>2, <2>1 DEF TypeInv
  <2>3. /\ current' \in Shown /\ reported' \in Shown \cup {"none", "idle"}
        /\ sending' = sending \/ sending' = tail[1]
        /\ period = None => reported' = reported
        /\ period # None /\ ~expired =>
             current' = Selected(activity, order, permission') /\ (reported = current => reported' = current')
    BY <2>1, PublishFacts DEF TypeInv
  <2>4. TypeInv'
    BY <1>1, <1>2, <2>2, <2>3, TypeShrinks DEF TypeInv
  <2>5. LeaseInv'
    BY <1>2, <1>4, <2>1 DEF LeaseInv, ActiveLease, Running
  <2>6. sending' # RefreshOf(period)
    BY <1>2, <2>3, OpFacts
  <2>7. BeatInv'
    BY <1>1, <1>2, <2>6, BeatShrinks DEF Running
  <2>8. ShowInv'
    <3>1. Selected(activity, order, permission)' = Selected(activity, order, permission')
      BY <1>2 DEF Selected, Busy, Running
    <3>2. Told => reported = current
      BY DEF Told
    <3> QED BY <1>1, <1>2, <2>3, <2>6, <3>1, <3>2, ShowShrinks DEF Running
  <2>9. WaitInv'
    <3>1. \A k \in leases : permission'[k] = IF OfLease(1, k) THEN tail[1].value = "wait" ELSE permission[k]
      BY <1>2, <1>3, <2>1, LeasesAreOpened DEF OfLease, TypeInv
    <3> QED BY <1>1, <2>2, <3>1, WaitShrinks DEF Running
  <2> QED BY <2>4, <2>5, <2>7, <2>8, <2>9
<1>5. CASE ~(ActiveLease(tail[1].of) /\ permission[tail[1].of] # waiting)
  <2>1. UNCHANGED <<permission, current, sending, reported>>
    BY <1>3, <1>5 DEF RunPermission
  <2>2. TypeInv'
    BY <1>1, <1>2, <2>1, TypeShrinks DEF TypeInv
  <2>3. LeaseInv'
    BY <1>2, <2>1 DEF LeaseInv, Running
  <2>4. BeatInv'
    BY <1>1, <1>2, <2>1, OpFacts, BeatShrinks DEF Running
  <2>5. ShowInv'
    <3>1. Selected(activity, order, permission)' = Selected(activity, order, permission)
      BY <1>2, <2>1 DEF Selected, Busy, Running
    <3>2. (Told => reported = current) /\ sending' # RefreshOf(period)
      BY <1>2, <2>1, OpFacts DEF Told
    <3> QED BY <1>1, <1>2, <2>1, <3>1, <3>2, ShowShrinks DEF Running
  <2>6. WaitInv'
    <3>1. ~expired => \A k \in leases : OfLease(1, k) => permission[k] = (tail[1].value = "wait")
      BY <1>3, <1>5 DEF OfLease, ActiveLease, LeaseInv
    <3> QED BY <1>1, <2>1, <3>1, WaitShrinks DEF Running, TypeInv
  <2> QED BY <2>2, <2>3, <2>4, <2>5, <2>6
<1> QED BY <1>4, <1>5

LEMMA RunNextInv == ASSUME IInv, RunNext PROVE IInv'
<1>1. Head(tail) = tail[1]
  BY QueueShrinks DEF IInv
<1>2. Running
  BY DEF RunNext, Running, leaseVars, nativeVars
<1>3. RunRefresh(tail[1]) \/ RunPublish(tail[1]) \/ RunIdle(tail[1]) \/ RunObserve(tail[1]) \/ RunPermission(tail[1])
  BY <1>1 DEF RunNext
<1> QED BY <1>2, <1>3, RefreshInv, PublishInv, IdleInv, ObserveInv, PermissionInv

LEMMA StutterInv == ASSUME IInv, UNCHANGED vars PROVE IInv'
<1>1. Unreported /\ tail' = tail /\ nativeWaits' = nativeWaits
  BY DEF vars, Unreported, leaseVars, nativeVars, queueVars
<1>2. QueueGrows({}) /\ QueueGrows({"observe", "permission"})
  BY <1>1, NotGrown DEF IInv, TypeInv
<1>3. WaitInv'
  BY <1>1, <1>2, WaitGrows DEF IInv, Unreported, offerVars, periodVars
<1> QED BY <1>1, <1>2, <1>3, QuietStep DEF IInv, TypeInv

LEMMA NextInv == ASSUME IInv, [Next]_vars PROVE IInv'
<1>1. ASSUME NEW l \in Leases, Turn(l) PROVE IInv'
  BY <1>1, OpenInv, EndInv, RetainInv, EndAllInv, ToolActivityInv, NativeInv, WaitBeginsInv, WaitEndsInv DEF Turn
<1> QED BY <1>1, RunNextInv, SendReturnsInv, CloseInv, KeepAliveInv, ExpireInv, StutterInv DEF Next, Reporter

\* The invariant holds of every behaviour of the reporter.
THEOREM InvariantHolds == Spec => []IInv
<1>1. IInv /\ [Next]_vars => IInv'
  BY NextInv
<1> QED BY <1>1, InitInv, PTL DEF Spec

----------------------------------------------------------------------------
(* What the runs check, for every value of the constants.                  *)

\* Once nothing is queued the room shows what its turns do (workingState.ts).
THEOREM ReportsMatchWork == Spec => []ReportMatchesWork
<1>1. ASSUME IInv PROVE ReportMatchesWork
  <2> SUFFICES ASSUME tail = <<>>
               PROVE  IF leases = {} THEN reported \in {"none", "idle"}
                      ELSE expired \/ reported = Selected(activity, order, permission)
    BY DEF ReportMatchesWork
  <2>1. \A i \in 1..Len(tail) : FALSE
    BY EmptySeq
  <2> QED BY <1>1, <2>1 DEF IInv, LeaseInv, ShowInv, Told, ToOpen, IdleQueued
<1> QED BY <1>1, InvariantHolds, PTL

\* The working period has exactly one keepalive under way, and no other period has any.
THEOREM KeepAlivesAreExact == Spec => []KeepAliveIsExact
<1>1. ASSUME IInv PROVE KeepAliveIsExact
  <2>1. DOMAIN tail = 1..Len(tail)
    BY <1>1, LenProperties DEF IInv, TypeInv
  <2>2. NoBeat => Heartbeats(period) = {}
    BY <2>1 DEF NoBeat, Heartbeats, RefreshOf
  <2>3. OneBeat => \E i \in DOMAIN tail : Heartbeats(period) = {i}
    BY <2>1 DEF OneBeat, Heartbeats, RefreshOf
  <2> QED BY <1>1, <2>2, <2>3 DEF IInv, BeatInv, KeepAliveIsExact, RefreshOf
<1> QED BY <1>1, InvariantHolds, PTL

\* A turn that was let in is shown to be at work, and the room waits for permission exactly
\* while one of its turns does.
THEOREM ReadyTurnsAreShown == Spec => []TurnsAreShown
<1>1. ASSUME IInv PROVE ReadyTurnIsShown
  <2> SUFFICES ASSUME NEW l \in leases, Ready(l), ~expired PROVE reported \in Shown
    BY DEF ReadyTurnIsShown
  <2>1. period # None /\ readyOf[l] = period
    BY <1>1 DEF IInv, LeaseInv
  <2>2. period \in opened
    BY <2>1 DEF Ready
  <2>3. Told
    BY <1>1, <2>1, <2>2 DEF IInv, ShowInv
  <2> QED BY <1>1, <2>3 DEF IInv, TypeInv, Told
<1>2. ASSUME IInv PROVE WaitMatchesDecisions
  <2> SUFFICES ASSUME tail = <<>>, ~expired, NEW l \in leases PROVE permission[l] = (nativeWaits[l] # {})
    BY DEF WaitMatchesDecisions
  <2>1. \A i \in 1..Len(tail) : FALSE
    BY EmptySeq
  <2> QED BY <1>2, <2>1 DEF IInv, WaitInv, Decided, Asks
<1>3. IInv => TurnsAreShown
  BY <1>1, <1>2 DEF TurnsAreShown
<1> QED BY <1>3, InvariantHolds, PTL

\* Once the reporter closes no report of work begins, whatever is still queued.
THEOREM ClosedReporterIsSilent == Spec => SilentAfterClose
<1>1. ASSUME IInv, [Next]_vars
      PROVE  closing /\ sending' # sending /\ sending' # NoOp => sending'.kind = "idle"
  <2> SUFFICES ASSUME closing, sending' # sending, sending' # NoOp PROVE sending'.kind = "idle"
    OBVIOUS
  <2>1. period = None
    BY <1>1 DEF IInv, LeaseInv
  <2>2. RunNext
    <3>1. ASSUME NEW l \in Leases, Turn(l) PROVE sending' = sending
      BY <3>1 DEF Turn, Open, End, Retain, RetainedWorkEnds, EndAll, ToolActivity, NativeBegins, NativeEnds,
                  WaitBegins, WaitEnds, queueVars
    <3>2. SendReturns => sending' = NoOp
      BY DEF SendReturns
    <3>3. Close \/ KeepAlive \/ Expire \/ UNCHANGED vars => sending' = sending
      BY DEF Close, KeepAlive, Expire, vars, queueVars
    <3> QED BY <1>1, <3>1, <3>2, <3>3 DEF Next, Reporter
  <2>3. tail[1] \in Ops /\ Head(tail) = tail[1]
    BY <1>1, <2>2, QueueShrinks DEF IInv, Shrinks
  <2>4. ~RunRefresh(tail[1])
    <3>1. tail[1].kind = "refresh" => tail[1].of # None
      BY <2>3, OpFacts, PeriodsAreLeases
    <3> QED BY <2>1, <3>1 DEF RunRefresh, CanRefresh
  <2>5. ~RunPublish(tail[1]) /\ ~RunObserve(tail[1]) /\ ~RunPermission(tail[1])
    BY <2>1 DEF RunPublish, RunObserve, RunPermission, Publish
  <2>6. RunIdle(tail[1])
    BY <2>2, <2>3, <2>4, <2>5 DEF RunNext
  <2> QED BY <2>6 DEF RunIdle, Report
<1> QED BY <1>1, InvariantHolds, PTL DEF Spec, SilentAfterClose

=============================================================================
