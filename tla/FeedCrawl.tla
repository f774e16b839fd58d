------------------------------- MODULE FeedCrawl -------------------------------
(***************************************************************************)
(* One crawl of the FireAnt feed: FireAntConnector._crawl_feed and the     *)
(* search for its first offset, _find_target_offset.  The feed shows the   *)
(* newest item at offset 0 and grows at that end while the crawl runs, so  *)
(* an item moves to a higher offset between two requests.                  *)
(*                                                                         *)
(* Items are numbered in the order of their publication: the feed is the   *)
(* number of items posted, the item at offset o is number posted - o, and  *)
(* the reversed page the code walks is an interval of numbers, ascending.  *)
(***************************************************************************)
EXTENDS Integers, FiniteSets

CONSTANTS
  MaxItems,    \* bound: items ever posted
  At,          \* [1..MaxItems -> dates]: publication dates
  Requests,    \* watermarks and windows a caller may ask for
  BatchSize,   \* items of a page (500 news, 1000 posts)
  Limit,       \* documents a crawl may return
  MaxFaults    \* bound: requests that fail

NoDate == 0
Items == 1..MaxItems
Dates == Nat \ {NoDate}

ASSUME FeedAssumption ==
  /\ MaxItems \in Nat
  /\ At \in [Items -> Dates]
  /\ \A i, j \in Items : i <= j => At[i] <= At[j]

(* fetch_latest gives a watermark or nothing, fetch_history a window.      *)
ASSUME RequestAssumption ==
  /\ Requests \subseteq [mark : Nat, start : Nat, end : Nat]
  /\ \A r \in Requests : r.mark = NoDate \/ (r.start = NoDate /\ r.end = NoDate)

ASSUME BoundsAssumption ==
  /\ BatchSize \in Nat \ {0}
  /\ Limit \in Nat \ {0}
  /\ MaxFaults \in Nat

VARIABLES
  posted,      \* number of items on the server
  shown,       \* history: that number when the crawl began
  request,     \* the crawl's bounds
  pc,          \* where the crawl is
  low, high,   \* bounds of the offset search
  result,      \* best offset the search has found
  offset,      \* offset of the next page
  page,        \* items of the last page, as received
  collected,   \* items in collected_docs
  count,       \* length of collected_docs, an item seen twice counting twice
  faults       \* failed requests so far

searchVars == <<low, high, result>>
pageVars == <<page, collected, count>>
vars == <<posted, shown, request, pc, searchVars, offset, pageVars, faults>>

TypeOK ==
  /\ posted \in 0..MaxItems
  /\ shown \in 0..posted
  /\ request \in Requests
  /\ pc \in {"first", "leap", "bisect", "page", "done"}
  /\ low \in Nat
  /\ high \in Int
  /\ result \in Nat
  /\ offset \in Nat
  /\ page \subseteq 1..posted
  /\ collected \subseteq 1..posted
  /\ count \in 0..Limit
  /\ faults \in 0..MaxFaults

Init ==
  /\ posted \in 0..MaxItems
  /\ shown = posted
  /\ request \in Requests
  /\ pc = IF request.end # NoDate THEN "first" ELSE "page"
  /\ low = 0
  /\ high = BatchSize
  /\ result = 0
  /\ offset = 0
  /\ page = {}
  /\ collected = {}
  /\ count = 0
  /\ faults = 0

-------------------------------------------------------------------------------
Post ==
  /\ posted < MaxItems
  /\ posted' = posted + 1
  /\ UNCHANGED <<shown, request, pc, searchVars, offset, pageVars, faults>>

(* _get answers with what the server has, or None after an error.          *)
Fault(n) == faults' = faults + n /\ faults' <= MaxFaults

Probe(o, date) ==
  \/ date = (IF o < posted THEN At[posted - o] ELSE NoDate) /\ UNCHANGED faults
  \/ date = NoDate /\ Fault(1)

TooNew(date) == date # NoDate /\ date > request.end

ProbedDates == {NoDate} \cup {At[i] : i \in Items}

-------------------------------------------------------------------------------
(* _find_target_offset.                                                    *)

ProbeNewest ==
  /\ pc = "first"
  /\ \E date \in ProbedDates :
       /\ Probe(0, date)
       /\ pc' = IF TooNew(date) THEN "leap" ELSE "page"
  /\ UNCHANGED <<posted, shown, request, searchVars, offset, pageVars>>

(* Double the offset until it is past the window's end, or past the feed.  *)
Leap ==
  /\ pc = "leap"
  /\ \E date \in ProbedDates :
       /\ Probe(high, date)
       /\ IF TooNew(date)
            THEN low' = high /\ high' = 2 * high /\ UNCHANGED <<result, pc>>
            ELSE result' = low /\ pc' = "bisect" /\ UNCHANGED <<low, high>>
  /\ UNCHANGED <<posted, shown, request, offset, pageVars>>

Middle == ((low + high) \div (2 * BatchSize)) * BatchSize

Bisect ==
  /\ pc = "bisect"
  /\ low <= high
  /\ \E date \in ProbedDates :
       /\ Probe(Middle, date)
       /\ IF TooNew(date)
            THEN low' = Middle + BatchSize /\ UNCHANGED <<high, result>>
            ELSE /\ high' = Middle - BatchSize
                 /\ result' = IF date = NoDate THEN result ELSE Middle
                 /\ UNCHANGED low
  /\ UNCHANGED <<posted, shown, request, pc, offset, pageVars>>

(* One page of margin before the first page known to reach the window.     *)
SafeStart_NoMargin == result

SafeStart == IF result > BatchSize THEN result - BatchSize ELSE 0

EndSearch ==
  /\ pc = "bisect"
  /\ low > high
  /\ offset' = SafeStart
  /\ pc' = "page"
  /\ UNCHANGED <<posted, shown, request, searchVars, pageVars, faults>>

-------------------------------------------------------------------------------
(* The pagination loop of _crawl_feed.                                     *)

(* At the watermark or behind the window the crawl terminates.             *)
Stops(i) == At[i] <= request.mark \/ At[i] < request.start

TooRecent(i) == request.end # NoDate /\ At[i] > request.end

(* The page is walked oldest first until an item stops the crawl.          *)
Walked_SkipsStops(received) == received

Walked(received) == {i \in received : \A j \in received : j <= i => ~Stops(j)}

(* The oldest items the limit leaves room for.                             *)
Taken_WholePage(items) == items

Taken(items) ==
  {i \in items : Cardinality({j \in items : j < i}) < Limit - count}

NextOffset_Stuck == offset

NextOffset == offset + BatchSize

(* A page of the feed; the detail request of each news article may fail,   *)
(* and such an article is left out of the page.                            *)
FetchPage ==
  /\ pc = "page"
  /\ LET listed == {i \in 1..posted : i \in (posted - offset - BatchSize + 1)..(posted - offset)}
     IN /\ listed # {}
        /\ \E failed \in SUBSET listed :
             LET received == listed \ failed
                 taken == Taken({i \in Walked(received) : ~TooRecent(i)})
             IN /\ Fault(Cardinality(failed))
                /\ page' = listed
                /\ collected' = collected \cup taken
                /\ count' = count + Cardinality(taken)
                /\ pc' = IF count' >= Limit \/ \E i \in received : Stops(i)
                           THEN "done" ELSE "page"
  /\ offset' = NextOffset
  /\ UNCHANGED <<posted, shown, request, searchVars>>

(* An empty page, or a request that failed.                                *)
FeedEnds ==
  /\ pc = "page"
  /\ \/ offset >= posted /\ UNCHANGED faults
     \/ Fault(1)
  /\ pc' = "done"
  /\ UNCHANGED <<posted, shown, request, searchVars, offset, pageVars>>

-------------------------------------------------------------------------------
Crawl == ProbeNewest \/ Leap \/ Bisect \/ EndSearch \/ FetchPage \/ FeedEnds

Next == Post \/ Crawl

Spec == Init /\ [][Next]_vars

(* Every request answers or times out, so the loop goes on.                *)
FairSpec == Spec /\ WF_vars(Crawl)

-------------------------------------------------------------------------------
(* Properties.                                                             *)

InWindow(i) == At[i] > request.mark /\ At[i] >= request.start /\ ~TooRecent(i)

(* A crawl never returns an item at or behind its watermark, or outside    *)
(* its window, although it pages past both ends of it.                     *)
CollectedInWindow == \A i \in collected : InWindow(i)

(* When no request failed and the limit left room, what a crawl misses of  *)
(* its window was on the last page it fetched: neither the offset search   *)
(* nor the pages shifting under a growing feed skip an item.               *)
MissesOnlyOnLastPage ==
  pc = "done" /\ faults = 0 /\ count < Limit =>
    \A i \in 1..shown : InWindow(i) => i \in collected \cup page

(* fetch_history is to "Fetch all posts and news published within a        *)
(* specific historical time window".                                       *)
HistoryIsComplete ==
  pc = "done" /\ faults = 0 /\ count < Limit /\ request.end # NoDate =>
    \A i \in 1..shown : InWindow(i) => i \in collected

(* The leaps, the bisection and the pagination all come to an end.         *)
CrawlEnds == <>(pc = "done")

================================================================================
