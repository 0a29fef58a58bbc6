----------------------------- MODULE PromptContext -----------------------------
(***************************************************************************)
(* The room contexts a Claude Agent SDK host prompts with:                 *)
(* getSystemPromptContextData builds one from what Band says of the room,  *)
(* and caches it for a while, for so many rooms, with requests for the     *)
(* same and other rooms overlapping, and time passing while one is built.  *)
(***************************************************************************)
EXTENDS Naturals, FiniteSets

CONSTANTS
  PromptRooms,   \* rooms asked about
  PromptAsks,    \* requests
  Ttl, MaxContexts, MaxClock

ASSUME PromptAssumption == IsFiniteSet(PromptRooms) /\ {Ttl, MaxContexts, MaxClock} \subseteq Nat

VARIABLES
  clock,       \* Date.now()
  contexts,    \* contextCache
  asks         \* getOrBuildSystemPromptContext, by request

promptVars == <<clock, contexts, asks>>

NoContext == [cached |-> FALSE, read |-> 0, expires |-> 0, used |-> 0]
NoAsk == [stage |-> "none", began |-> 0, read |-> 0, from |-> "none"]

PromptInit ==
  /\ clock = 0
  /\ contexts = [r \in PromptRooms |-> NoContext]
  /\ asks = [a \in PromptAsks |-> [r \in PromptRooms |-> NoAsk]]

Cached == {r \in PromptRooms : contexts[r].cached}
Unasked(a) == \A r \in PromptRooms : asks[a][r].stage = "none"

\* The lookup: a context that has not expired is the answer; one that has is dropped, and
\* a new one is built, unless the room has no tools.
FreshContext(r) == contexts[r].cached /\ contexts[r].expires > clock
RequestComes(a, r) ==
  /\ Unasked(a)
  /\ \/ /\ FreshContext(r)
        /\ contexts' = [contexts EXCEPT ![r].used = clock]
        /\ asks' = [asks EXCEPT ![a][r] = [stage |-> "answered", began |-> clock, read |-> contexts[r].read,
                                           from |-> "cache"]]
     \/ /\ ~FreshContext(r)
        /\ contexts' = [contexts EXCEPT ![r] = NoContext]
        /\ \E identified \in BOOLEAN :
             asks' = [asks EXCEPT ![a][r] = [stage |-> IF identified THEN "participants" ELSE "answered", began |-> clock,
                                             read |-> clock, from |-> IF identified THEN "build" ELSE "unavailable"]]
  /\ UNCHANGED clock

\* buildSystemPromptContext: the participants are read first, and then who the agent is,
\* and what the room is called, whose failures are only warnings.
Reads(a, r) ==
  /\ asks[a][r].stage = "participants"
  /\ asks' = [asks EXCEPT ![a][r].stage = "details", ![a][r].read = clock]
  /\ UNCHANGED <<clock, contexts>>
ReadFails(a, r) ==
  /\ asks[a][r].stage = "participants"
  /\ asks' = [asks EXCEPT ![a][r].stage = "failed"]
  /\ UNCHANGED <<clock, contexts>>

\* The entry counts from when its request began, not from when it was built; then one too
\* many is evicted, the one used longest ago.
ExpiresLate(a, r) == clock + Ttl
Expires(a, r) == asks[a][r].began + Ttl
Entered(a, r) == [contexts EXCEPT ![r] = [cached |-> TRUE, read |-> asks[a][r].read,
                                          expires |-> Expires(a, r), used |-> asks[a][r].began]]
KeptAll(held) == {held}
Evicted(held) ==
  LET full == {r \in PromptRooms : held[r].cached}
      oldest == {r \in full : \A q \in full : held[r].used <= held[q].used}
  IN IF Cardinality(full) <= MaxContexts THEN {held}
     ELSE {[held EXCEPT ![r] = NoContext] : r \in oldest}
Built(a, r) ==
  /\ asks[a][r].stage = "details"
  /\ contexts' \in Evicted(Entered(a, r))
  /\ asks' = [asks EXCEPT ![a][r].stage = "answered"]
  /\ UNCHANGED clock

Ticks == clock < MaxClock /\ clock' = clock + 1 /\ UNCHANGED <<contexts, asks>>

PromptNext ==
  \/ Ticks
  \/ \E a \in PromptAsks, r \in PromptRooms : RequestComes(a, r) \/ Reads(a, r) \/ ReadFails(a, r) \/ Built(a, r)

PromptSpec == PromptInit /\ [][PromptNext]_promptVars

-----------------------------------------------------------------------------

\* A context served from the cache says what Band said less than a TTL before, however
\* slowly it was built, whichever of two builds of a room came last.
CacheIsFresh ==
  \A a \in PromptAsks, r \in PromptRooms : asks[a][r].from = "cache" => asks[a][r].read + Ttl > asks[a][r].began

\* No more rooms are held than MAX_CONTEXT_CACHE_ENTRIES.
CacheIsBounded == Cardinality(Cached) <= MaxContexts

PromptsAreCurrent == CacheIsFresh /\ CacheIsBounded
=============================================================================
