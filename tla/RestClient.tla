---------------------------- MODULE RestClient -----------------------------
(***************************************************************************)
(* The calls the REST adapter makes: every one is retried a bounded number *)
(* of times, sends fewer times than the others, and an attempt whose       *)
(* answer is lost may have been taken.  A report that the agent works may  *)
(* carry what it is doing, where the platform accepts that: the endpoint's *)
(* version is looked up once, beside the reports, and a platform that      *)
(* rejects the detail settles it for good.                                 *)
(***************************************************************************)
EXTENDS Naturals, Sequences, SequencesExt, FiniteSets

CONSTANTS RestCallIds, SendRetries, OtherRetries, MaxLookups

ASSUME RetriesAssumption == SendRetries \in Nat /\ OtherRetries \in Nat

VARIABLES
  restCalls,    \* each call: what it is, how far, the retries left, how often the server took it
  support,      \* whether reports may carry detail: "unknown", "supported", "unsupported"
  lookups,      \* the health lookups in flight
  lookupsBegun, \* lookups begun
  platform      \* what the platform is: whether it takes detail, and what its health says

restVars == <<restCalls, support, lookups, lookupsBegun, platform>>

Ops == {"send", "other", "working", "idle"}
\* Every call has the same retries.
RetriesShared(op) == OtherRetries
RetriesOf(op) == IF op = "send" THEN SendRetries ELSE OtherRetries
NoRestCall == [op |-> "none", phase |-> "none", left |-> 0, taken |-> 0, detail |-> FALSE, rejected |-> FALSE]

RestInit ==
  /\ restCalls = [c \in RestCallIds |-> NoRestCall]
  /\ support = "unknown" /\ lookups = 0 /\ lookupsBegun = 0
  /\ platform \in [takes : BOOLEAN, says : {"supported", "unsupported"}]

OverCalls == UNCHANGED <<support, lookups, lookupsBegun, platform>>
CallIs(c, r) == restCalls' = [restCalls EXCEPT ![c] = r]

-----------------------------------------------------------------------------
\* Every report asks.
AskedAgain == IF support = "unknown" THEN 1 ELSE 0
\* One lookup at a time asks the endpoint's version; asking never delays the report.
Asked == IF support = "unknown" /\ lookups = 0 THEN 1 ELSE 0
CallBegins(c, op) ==
  LET looks == IF op = "working" /\ lookupsBegun < MaxLookups THEN Asked ELSE 0
  IN  /\ restCalls[c] = NoRestCall /\ \A d \in RestCallIds : d < c => restCalls[d] # NoRestCall
      /\ (op = "working" => lookupsBegun < MaxLookups \/ Asked = 0)
      /\ CallIs(c, [NoRestCall EXCEPT !.op = op, !.phase = "asking", !.left = RetriesOf(op),
                                   !.detail = (op = "working" /\ support = "supported")])
      /\ lookups' = lookups + looks /\ lookupsBegun' = lookupsBegun + looks
      /\ UNCHANGED <<support, platform>>

\* A failed lookup leaves the answer open.
LookupSettles(answer) ==
  /\ lookups > 0 /\ lookups' = lookups - 1
  /\ support' = IF support = "unknown" THEN answer ELSE support
  /\ UNCHANGED <<restCalls, lookupsBegun, platform>>
LookupAnswers == LookupSettles(platform.says)
LookupFails == LookupSettles("unknown")

-----------------------------------------------------------------------------
Asking(c) == restCalls[c].phase = "asking"
Rejects(c) == restCalls[c].detail /\ ~platform.takes
\* An attempt is taken and answered, taken and its answer lost, or fails; the client tries
\* again while it has retries left.
RequestTaken(c) ==
  /\ Asking(c) /\ ~Rejects(c)
  /\ CallIs(c, [restCalls[c] EXCEPT !.phase = "ok", !.taken = @ + 1]) /\ OverCalls
Retried(r) == IF r.left > 0 THEN [r EXCEPT !.left = @ - 1] ELSE [r EXCEPT !.phase = "failed"]
AnswerLost(c) ==
  /\ Asking(c) /\ ~Rejects(c)
  /\ CallIs(c, Retried([restCalls[c] EXCEPT !.taken = @ + 1])) /\ OverCalls
RequestFails(c) == Asking(c) /\ CallIs(c, Retried(restCalls[c])) /\ OverCalls
\* Refused for good, or the caller aborted.
CallEnds(c) == Asking(c) /\ CallIs(c, [restCalls[c] EXCEPT !.phase = "failed"]) /\ OverCalls
\* The detail is rejected: the report goes again without it, with its own retries.
DetailRejected(c) ==
  /\ Asking(c) /\ Rejects(c)
  /\ CallIs(c, [restCalls[c] EXCEPT !.detail = FALSE, !.rejected = TRUE, !.left = RetriesOf("working")])
  /\ support' = "unsupported"
  /\ UNCHANGED <<lookups, lookupsBegun, platform>>

RestNext ==
  \/ \E c \in RestCallIds :
       \/ \E op \in Ops : CallBegins(c, op)
       \/ RequestTaken(c) \/ AnswerLost(c) \/ RequestFails(c) \/ CallEnds(c) \/ DetailRejected(c)
  \/ LookupAnswers \/ LookupFails

RestSpec == RestInit /\ [][RestNext]_restVars

-----------------------------------------------------------------------------
\* A message is never in the room more often than its send has attempts, and one whose send
\* worked is there (MESSAGE_SEND_MAX_RETRIES, src/packages/sdk/src/client/rest).
SendsAreBounded ==
  \A c \in RestCallIds :
    /\ restCalls[c].op = "send" => restCalls[c].taken <= 1 + SendRetries
    /\ restCalls[c].phase = "ok" => restCalls[c].taken >= 1

\* Once a report's detail was rejected the answer stays no, so that no later report carries
\* any; yes is only what the platform's health said; and one lookup is in flight at a time,
\* none once the answer is known (ActivityCapability, reportActivity).
DetailIsWelcome ==
  /\ (\E c \in RestCallIds : restCalls[c].rejected) => support = "unsupported"
  /\ lookups <= IF support = "unknown" THEN 1 ELSE 0
  /\ support = "supported" => platform.says = "supported"

\* The calls made are bounded, and tell no platform more than it takes.
CallsAreSound == SendsAreBounded /\ DetailIsWelcome

----------------------------------------------------------------------------
(***************************************************************************)
(* The lists the adapter reads page by page while they change: the chats   *)
(* an agent is in and the peers it can reach, by page number, and the      *)
(* newest messages of a room's context, by cursor.  It drops the records   *)
(* it cannot use from each page.  The server lists in a stable order, new  *)
(* entries last, and may or may not say how many pages there are.          *)
(***************************************************************************)
CONSTANTS PageSize, MaxPages, MaxListed, MaxListMoves, Keep
ASSUME PagesAssumption == PageSize \in Nat \ {0} /\ MaxPages \in Nat \ {0} /\ Keep \in Nat \ {0}

VARIABLES
  listed,     \* the server's list: each entry, and whether the adapter can use it
  everListed, \* entries the server ever had
  pageMeta,   \* how the server describes a page: "totals", "nothing", or "nonsense"
  readBy,     \* the read: by "pages" or by "cursor", with its strategy
  readStep,   \* "reading", "returned" or "threw"
  pagesRead,  \* pages read
  pageCursor, \* the cursor: the last entry read
  readSoFar,  \* what the read holds
  atStart,    \* the list when the read began
  atEnd,      \* the list when the last page was read
  entryGone,  \* whether an entry went since
  blankPage,  \* whether the last page held only records that were dropped
  listMoves

pagesVars == <<listed, everListed, pageMeta, readBy, readStep, pagesRead, pageCursor, readSoFar, atStart, atEnd, entryGone, blankPage, listMoves>>

\* How a walk by page number ends: by the count of pages, at an empty page, or by whichever there is.
Strategies == {"auto", "total_pages", "until_empty"}

Usable(list) == SelectSeq(list, LAMBDA e : e.usable)
\* The data of a page: the records of its envelope that can be used.
PageData(raw) == Usable(raw)

PagesInit ==
  /\ \E n \in 0..MaxListed : \E usable \in [1..n -> BOOLEAN] :
       listed = [i \in 1..n |-> [id |-> i, usable |-> usable[i]]] /\ everListed = n
  /\ pageMeta \in {"totals", "nothing", "nonsense"}
  /\ readBy \in Strategies \cup {"cursor"}
  /\ readStep = "reading" /\ pagesRead = 0 /\ pageCursor = 0 /\ readSoFar = <<>>
  /\ atStart = listed /\ atEnd = listed /\ entryGone = FALSE /\ blankPage = FALSE /\ listMoves = 0

-----------------------------------------------------------------------------
\* What the server answers.
TotalPages == (Len(listed) + PageSize - 1) \div PageSize
Numbered(k) == SubSeq(listed, (k - 1) * PageSize + 1, IF k * PageSize < Len(listed) THEN k * PageSize ELSE Len(listed))
Left == SelectSeq(listed, LAMBDA e : e.id > pageCursor)
NextFew == SubSeq(Left, 1, IF PageSize < Len(Left) THEN PageSize ELSE Len(Left))

\* Only "until_empty" lets metadata pass that cannot be read as numbers.
MetadataMode == IF readBy = "until_empty" THEN "lossy" ELSE "strict"
Unreadable == pageMeta = "nonsense" /\ MetadataMode = "strict"
\* The count of pages the metadata gives; 0 also stands for none.
PageCount == IF pageMeta = "totals" THEN TotalPages ELSE 0

\* The cap ends a walk as an empty page does.
LastPageOrCap(data) == pagesRead + 1 = MaxPages \/ data = <<>>
\* A walk by number is over: the page was the last one the metadata counts, or, where the
\* strategy or the server leaves them out, it was empty.
LastPage(data) ==
  IF readBy = "total_pages" \/ (readBy = "auto" /\ PageCount > 0) THEN pagesRead + 1 >= PageCount ELSE data = <<>>
\* Metadata that cannot be read throws, and "total_pages" needs a positive count.
Refused == Unreadable \/ (readBy = "total_pages" /\ PageCount = 0)

PageRead ==
  LET raw == Numbered(pagesRead + 1)
      data == PageData(raw)
  IN  /\ readBy # "cursor" /\ readStep = "reading"
      /\ pagesRead' = pagesRead + 1 /\ atEnd' = listed /\ blankPage' = (raw # <<>> /\ data = <<>>)
      /\ readSoFar' = readSoFar \o data
      /\ readStep' = IF Refused THEN "threw"
                 ELSE IF LastPage(data) THEN "returned"
                 ELSE IF pagesRead + 1 = MaxPages THEN "threw" ELSE "reading"
      /\ UNCHANGED <<listed, everListed, pageMeta, readBy, pageCursor, atStart, entryGone, listMoves>>

\* Keeping the entries that came first.
FirstKept(s) == IF Len(s) > Keep THEN SubSeq(s, 1, Keep) ELSE s
\* A walk by cursor keeps the last entries of what it has read; cut short, by the cap or for
\* want of a next cursor, it says so, and getRecentMessages throws.
LastKept(s) == IF Len(s) > Keep THEN SubSeq(s, Len(s) - Keep + 1, Len(s)) ELSE s
TailRead(cursorless) ==
  LET more == Len(Left) > PageSize
  IN  /\ readBy = "cursor" /\ readStep = "reading"
      /\ pagesRead' = pagesRead + 1 /\ atEnd' = listed
      /\ readSoFar' = LastKept(readSoFar \o PageData(NextFew))
      /\ pageCursor' = IF NextFew = <<>> THEN pageCursor ELSE Last(NextFew).id
      /\ readStep' = IF ~more THEN "returned" ELSE IF cursorless \/ pagesRead + 1 = MaxPages THEN "threw" ELSE "reading"
      /\ UNCHANGED <<listed, everListed, pageMeta, readBy, atStart, entryGone, blankPage, listMoves>>

\* A page could not be read: the walk throws.
PageFails ==
  /\ readStep = "reading" /\ readStep' = "threw"
  /\ UNCHANGED <<listed, everListed, pageMeta, readBy, pagesRead, pageCursor, readSoFar, atStart, atEnd, entryGone, blankPage, listMoves>>

ListMoves == readStep = "reading" /\ listMoves < MaxListMoves /\ listMoves' = listMoves + 1
EntryAdded(usable) ==
  /\ ListMoves /\ everListed' = everListed + 1 /\ listed' = Append(listed, [id |-> everListed + 1, usable |-> usable])
  /\ UNCHANGED <<pageMeta, readBy, readStep, pagesRead, pageCursor, readSoFar, atStart, atEnd, entryGone, blankPage>>
EntryRemoved(i) ==
  /\ ListMoves /\ listed' = RemoveAt(listed, i) /\ entryGone' = TRUE
  /\ UNCHANGED <<everListed, pageMeta, readBy, readStep, pagesRead, pageCursor, readSoFar, atStart, atEnd, blankPage>>

PagesNext ==
  \/ PageRead \/ PageFails
  \/ \E flag \in BOOLEAN : TailRead(flag) \/ EntryAdded(flag)
  \/ \E i \in DOMAIN listed : EntryRemoved(i)

PagesSpec == PagesInit /\ [][PagesNext]_pagesVars

-----------------------------------------------------------------------------
\* A walk by page number that returns has every entry there was when it began that it can
\* use, each once, and nothing is cut off without an error: the rooms an agent does not find
\* in the list are rooms it leaves.  Two lists may come back short all the same: one an entry
\* went from meanwhile, the others having moved up a place, and, from a server that counts no
\* pages, one with a page of records that were all dropped, which ends the walk as an empty
\* page does (fetchPaginated, src/packages/sdk/src/client/rest/pagination.ts).
WalksAreWhole ==
  readBy # "cursor" /\ readStep = "returned" /\ ~entryGone =>
    IsPrefix(Usable(atStart), readSoFar) \/ (blankPage /\ (pageMeta # "totals" \/ readBy = "until_empty"))

\* Nothing comes twice or out of order, whatever happens to the list.
ReadsAreInOrder == \A i, j \in DOMAIN readSoFar : i < j => readSoFar[i].id < readSoFar[j].id

\* A walk by cursor that returns ends with the newest entries: of those there when its last
\* page was read none is missing that is newer than one it has (fetchCursorTail).
TailsAreNewest ==
  readBy = "cursor" /\ readStep = "returned" =>
    /\ ~entryGone => readSoFar = LastKept(Usable(atEnd))
    /\ \A e \in ToSet(Usable(atEnd)) \ ToSet(readSoFar) : Len(readSoFar) = Keep /\ e.id < readSoFar[1].id

\* Paged reads are whole.
ReadsAreWhole == WalksAreWhole /\ ReadsAreInOrder /\ TailsAreNewest
=============================================================================
