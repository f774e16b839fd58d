---------------------------- MODULE FeedCrawlProofs ----------------------------
(***************************************************************************)
(* Theorems about FeedCrawl, for any feed, dates, requests, page size and  *)
(* limit: what a crawl collects and skips, and that each of its requests   *)
(* brings it nearer to its end.                                            *)
(***************************************************************************)
EXTENDS FeedCrawl, SetsOfNaturals, FiniteSetTheorems, TLAPS

(* The middle of two multiples of a step, rounded down to a multiple of    *)
(* it, lies between them.                                                  *)
LEMMA MiddleIsNat ==
  ASSUME NEW l \in Nat, NEW h \in Int, l <= h, NEW B \in Nat \ {0}
  PROVE  /\ (l + h) \div (2 * B) \in Nat
         /\ ((l + h) \div (2 * B)) * B \in Nat
         /\ ((l + h) \div (2 * B)) * B <= h
         /\ ((l + h) \div (2 * B)) * B + B > l
<1> DEFINE q == (l + h) \div (2 * B)
<1>1. q \in Int
  OBVIOUS
<1>2. q * (2 * B) <= l + h /\ l + h < (q + 1) * (2 * B)
  OBVIOUS
<1>3. q >= 0
  <2>1. ASSUME q <= -1 PROVE FALSE
    <3>1. (q + 1) * (2 * B) <= 0
      BY <1>1, <2>1
    <3> QED BY <3>1, <1>1, <1>2
  <2> QED BY <2>1, <1>1
<1>4. q * B \in Nat
  BY <1>1, <1>3
<1>5. 2 * (q * B) <= l + h
  BY <1>1, <1>2
<1>6. 2 * (q * B + B) > l + h
  <2>1. (q + 1) * (2 * B) = 2 * (q * B + B)
    BY <1>1
  <2> QED BY <1>2, <2>1
<1> HIDE DEF q
<1>7. q * B + B > l
  BY <1>4, <1>6
<1> QED BY <1>1, <1>3, <1>4, <1>5, <1>7 DEF q

(* Two multiples of a step that differ are at least a step apart.          *)
LEMMA GridStep ==
  ASSUME NEW a \in Int, NEW b \in Int, NEW B \in Nat \ {0}, a * B > b * B - B
  PROVE  a * B >= b * B
<1>1. a > b - 1
  <2>1. ASSUME a <= b - 1 PROVE FALSE
    <3>1. a * B <= (b - 1) * B
      BY <2>1
    <3>2. (b - 1) * B = b * B - B
      OBVIOUS
    <3> QED BY <3>1, <3>2
  <2> QED BY <2>1
<1>2. a >= b
  BY <1>1
<1> QED BY <1>2

(* Taken: never more than the limit leaves room for, and all there is when *)
(* room is left.                                                           *)
LEMMA TakenFits ==
  ASSUME NEW items \in SUBSET Items, count \in 0..Limit
  PROVE  /\ Taken(items) \subseteq items
         /\ IsFiniteSet(Taken(items))
         /\ Cardinality(Taken(items)) \in 0..(Limit - count)
         /\ Cardinality(Taken(items)) < Limit - count => Taken(items) = items
<1> USE FeedAssumption, BoundsAssumption
<1> DEFINE before(i) == {j \in items : j < i}
<1>0. \A i \in items : i \in Nat /\ i \in 0..MaxItems
  BY DEF Items
<1>1. Taken(items) \subseteq items
  BY DEF Taken
<1>2. \A S \in SUBSET items : IsFiniteSet(S) /\ Cardinality(S) \in Nat
  <2>1. IsFiniteSet(Items)
    BY FS_Interval DEF Items
  <2>2. \A S \in SUBSET items : IsFiniteSet(S)
    BY <2>1, FS_Subset
  <2> QED BY <2>2, FS_CardinalityType
<1>3. \A i \in items : i \in Taken(items) <=> Cardinality(before(i)) < Limit - count
  BY DEF Taken
<1>4. Cardinality(Taken(items)) <= Limit - count
  <2>1. CASE Taken(items) = {}
    BY <2>1, FS_EmptySet
  <2>2. CASE Taken(items) # {}
    <3>1. Taken(items) \in SUBSET (0..MaxItems)
      BY <1>0, <1>1
    <3>2. PICK m \in Taken(items) : \A n \in Taken(items) : n <= m
      BY <2>2, <3>1, Greatest
    <3>3. m \in items /\ Cardinality(before(m)) < Limit - count
      BY <1>1, <1>3, <3>2
    <3>4. Taken(items) \subseteq before(m) \cup {m}
      BY <1>0, <1>1, <3>2
    <3>5. m \notin before(m) /\ before(m) \in SUBSET items
      BY <1>0, <3>3
    <3>6. /\ IsFiniteSet(before(m) \cup {m})
          /\ Cardinality(before(m) \cup {m}) = Cardinality(before(m)) + 1
      BY <1>2, <3>5, FS_AddElement
    <3>7. Cardinality(Taken(items)) <= Cardinality(before(m)) + 1
      BY <3>4, <3>6, FS_Subset
    <3>8. Cardinality(Taken(items)) \in Nat /\ Cardinality(before(m)) \in Nat
      BY <1>1, <1>2, <3>5
    <3> QED BY <3>3, <3>7, <3>8
  <2> QED BY <2>1, <2>2
<1>5. ASSUME Cardinality(Taken(items)) < Limit - count, Taken(items) # items
      PROVE  FALSE
  <2>1. items \ Taken(items) \in SUBSET Nat /\ items \ Taken(items) # {}
    BY <1>0, <1>1, <1>5
  <2>2. PICK m \in items \ Taken(items) : \A n \in items \ Taken(items) : m <= n
    BY <2>1, Least
  <2>3. before(m) \subseteq Taken(items)
    <3> SUFFICES ASSUME NEW j \in before(m), j \notin Taken(items) PROVE FALSE
      OBVIOUS
    <3>1. j \in Nat /\ m \in Nat /\ j < m
      BY <1>0, <2>2
    <3> QED BY <2>2, <3>1
  <2>4. Cardinality(before(m)) <= Cardinality(Taken(items))
    BY <1>1, <1>2, <2>3, FS_Subset
  <2>5. Cardinality(before(m)) \in Nat /\ Cardinality(Taken(items)) \in Nat
    BY <1>1, <1>2
  <2> QED BY <1>3, <1>5, <2>2, <2>4, <2>5
<1>6. Cardinality(Taken(items)) \in Nat
  BY <1>1, <1>2
<1> QED BY <1>1, <1>2, <1>4, <1>5, <1>6

-------------------------------------------------------------------------------
(* Every variable keeps its type.                                          *)

TypeInv == TypeOK /\ (pc \in {"first", "leap"} => high \in Nat \ {0})

LEMMA Dated == \A i \in Items : At[i] \in Nat /\ At[i] > 0
BY FeedAssumption DEF Dates, NoDate

LEMMA Bounded ==
  ASSUME TypeOK
  PROVE  /\ request.mark \in Nat /\ request.start \in Nat /\ request.end \in Nat
         /\ posted \in Nat /\ 1..posted \subseteq Items /\ shown \in Nat
BY FeedAssumption, RequestAssumption DEF TypeOK, Items

LEMMA FaultType ==
  ASSUME faults \in 0..MaxFaults, NEW n \in Nat, Fault(n)
  PROVE  faults' \in 0..MaxFaults
BY BoundsAssumption DEF Fault

LEMMA ProbeType ==
  ASSUME TypeOK, NEW o, NEW date, Probe(o, date)
  PROVE  faults' \in 0..MaxFaults
BY FaultType DEF Probe, TypeOK

(* The articles listed on the page that starts at the offset.              *)
Listed == {i \in 1..posted : i \in (posted - offset - BatchSize + 1)..(posted - offset)}

LEMMA FetchFacts ==
  ASSUME TypeInv, FetchPage
  PROVE  \E failed \in SUBSET Listed :
           LET received == Listed \ failed
               items == {i \in Walked(received) : ~TooRecent(i)}
               taken == Taken(items)
           IN /\ items \in SUBSET Items /\ items \subseteq Listed
              /\ Cardinality(failed) \in Nat
              /\ Cardinality(failed) = 0 => failed = {}
              /\ Fault(Cardinality(failed))
              /\ page' = Listed
              /\ collected' = collected \cup taken
              /\ count' = count + Cardinality(taken)
              /\ taken \subseteq items
              /\ Cardinality(taken) \in 0..(Limit - count)
              /\ count' < Limit => taken = items
              /\ pc' = IF count' >= Limit \/ \E i \in received : Stops(i) THEN "done" ELSE "page"
<1> USE DEF Listed
<1>1. PICK failed \in SUBSET Listed :
        LET received == Listed \ failed
            taken == Taken({i \in Walked(received) : ~TooRecent(i)})
        IN /\ Fault(Cardinality(failed))
           /\ page' = Listed
           /\ collected' = collected \cup taken
           /\ count' = count + Cardinality(taken)
           /\ pc' = IF count' >= Limit \/ \E i \in received : Stops(i) THEN "done" ELSE "page"
  BY DEF FetchPage
<1> DEFINE received == Listed \ failed
           items == {i \in Walked(received) : ~TooRecent(i)}
           taken == Taken(items)
<1>2. Listed \subseteq Items
  BY Bounded DEF TypeInv
<1>3. items \in SUBSET Items /\ items \subseteq Listed
  BY <1>2 DEF Walked
<1>4. IsFiniteSet(failed) /\ Cardinality(failed) \in Nat /\ (Cardinality(failed) = 0 => failed = {})
  <2>1. IsFiniteSet(1..MaxItems)
    BY FeedAssumption, FS_Interval
  <2>2. IsFiniteSet(failed)
    BY <1>2, <2>1, FS_Subset DEF Items
  <2> QED BY <2>2, FS_CardinalityType, FS_EmptySet
<1>5. count \in 0..Limit
  BY DEF TypeInv, TypeOK
<1> HIDE DEF items
<1>6. /\ taken \subseteq items
      /\ Cardinality(taken) \in 0..(Limit - count)
      /\ Cardinality(taken) < Limit - count => taken = items
  BY <1>3, <1>5, TakenFits
<1>7. count' = count + Cardinality(taken)
  BY <1>1 DEF items
<1>8. count' < Limit => taken = items
  BY <1>5, <1>6, <1>7, BoundsAssumption
<1> HIDE DEF taken
<1>9. WITNESS failed \in SUBSET Listed
<1> QED BY <1>1, <1>3, <1>4, <1>6, <1>7, <1>8 DEF items, taken

LEMMA TypeStep == TypeInv /\ [Next]_vars => TypeInv'
<1> SUFFICES ASSUME TypeInv, [Next]_vars PROVE TypeInv'
  OBVIOUS
<1> USE FeedAssumption, BoundsAssumption DEF TypeInv, TypeOK, searchVars, pageVars
<1>1. CASE Post
  BY <1>1 DEF Post
<1>2. CASE ProbeNewest
  <2>1. faults' \in 0..MaxFaults
    BY <1>2, ProbeType DEF ProbeNewest
  <2> QED BY <1>2, <2>1 DEF ProbeNewest
<1>3. CASE Leap
  <2>1. faults' \in 0..MaxFaults
    BY <1>3, ProbeType DEF Leap
  <2> QED BY <1>3, <2>1 DEF Leap
<1>4. CASE Bisect
  <2>1. faults' \in 0..MaxFaults
    BY <1>4, ProbeType DEF Bisect
  <2>2. Middle \in Nat
    BY <1>4, MiddleIsNat DEF Bisect, Middle
  <2> QED BY <1>4, <2>1, <2>2 DEF Bisect
<1>5. CASE EndSearch
  BY <1>5 DEF EndSearch, SafeStart
<1>6. CASE FetchPage
  <2>1. /\ \E n \in Nat : Fault(n)
        /\ \E n \in 0..(Limit - count) : count' = count + n
    BY <1>6, FetchFacts
  <2>2. faults' \in 0..MaxFaults
    BY <2>1, FaultType
  <2>3. count' \in 0..Limit
    BY <2>1
  <2>4. page' \subseteq 1..posted /\ collected' \subseteq 1..posted /\ pc' \in {"page", "done"}
    BY <1>6, FetchFacts DEF Listed
  <2> QED BY <1>6, <2>4, <2>2, <2>3 DEF FetchPage, NextOffset
<1>7. CASE FeedEnds
  <2>1. faults' \in 0..MaxFaults
    BY <1>7, FaultType DEF FeedEnds
  <2> QED BY <1>7, <2>1 DEF FeedEnds
<1>8. CASE UNCHANGED vars
  BY <1>8 DEF vars
<1> QED BY <1>1, <1>2, <1>3, <1>4, <1>5, <1>6, <1>7, <1>8 DEF Next, Crawl

LEMMA TypeInit == Init => TypeInv
BY FeedAssumption, BoundsAssumption DEF Init, TypeInv, TypeOK

(* The same with the bound of the search, which is set before it is used.  *)
THEOREM TypeInvariant == Spec => []TypeInv
BY TypeInit, TypeStep, PTL DEF Spec

(* Every variable of a crawl keeps its type: no offset is ever negative,   *)
(* and the limit is kept.                                                  *)
THEOREM TypeCorrect == Spec => []TypeOK
<1>1. TypeInv => TypeOK
  BY DEF TypeInv
<1> QED BY <1>1, TypeInvariant, PTL

-------------------------------------------------------------------------------
(* What is collected is inside the window, page by page.                   *)

LEMMA WalkedInWindow ==
  ASSUME TypeOK, NEW received, received \subseteq Items, NEW i \in Walked(received), ~TooRecent(i)
  PROVE  InWindow(i)
<1>1. i \in received /\ ~Stops(i)
  BY DEF Walked, Items
<1> QED BY <1>1, Dated, Bounded DEF Stops, InWindow

(* No item outside the requested window is collected, on whatever page of  *)
(* a feed that grows it was listed, and however many pages failed.         *)
THEOREM CollectsInWindow == Spec => []CollectedInWindow
<1>1. Init => CollectedInWindow
  BY DEF Init, CollectedInWindow
<1>2. TypeInv /\ CollectedInWindow /\ [Next]_vars => CollectedInWindow'
  <2> SUFFICES ASSUME TypeInv, CollectedInWindow, [Next]_vars
               PROVE  \A i \in collected' : InWindow(i)
    BY DEF CollectedInWindow, InWindow, TooRecent, Next, Crawl, Post, ProbeNewest, Leap, Bisect,
           EndSearch, FetchPage, FeedEnds, vars
  <2>1. CASE FetchPage
    <3>1. PICK received \in SUBSET Listed :
            collected' \subseteq collected \cup {i \in Walked(received) : ~TooRecent(i)}
      BY <2>1, FetchFacts
    <3>2. received \subseteq Items
      BY <3>1, Bounded DEF TypeInv, Listed
    <3> QED BY <3>1, <3>2, WalkedInWindow DEF CollectedInWindow, TypeInv
  <2>2. CASE ~FetchPage
    BY <2>2 DEF CollectedInWindow, Next, Crawl, Post, ProbeNewest, Leap, Bisect,
           EndSearch, FeedEnds, vars, pageVars
  <2> QED BY <2>1, <2>2
<1> QED BY <1>1, <1>2, TypeInvariant, PTL DEF Spec

-------------------------------------------------------------------------------
(* What a crawl may miss.  While no request has failed, every item beyond  *)
(* the start of the pagination is known to be too recent, and every item   *)
(* of the window the pagination has passed is collected.                   *)

Grid(o) == \E k \in Int : o = k * BatchSize

(* An item at this offset or a higher one is too recent.                   *)
NewerAt(o) == \E i \in 1..posted : i <= posted - o /\ TooRecent(i)

OnGrid == Grid(low) /\ Grid(high) /\ Grid(result)

Searched ==
  /\ pc = "first" => low = 0 /\ offset = 0
  /\ pc \in {"first", "leap", "bisect"} => request.end # NoDate
  /\ pc = "leap" => NewerAt(low)
  /\ pc = "bisect" =>
       /\ NewerAt(low - BatchSize)
       /\ NewerAt(result) \/ (high = result - BatchSize /\ result < posted)

Passed ==
  pc = "page" => \A i \in 1..shown : InWindow(i) => i \in collected \/ i <= posted - offset

CoverInv ==
  /\ OnGrid
  /\ faults = 0 => Searched /\ Passed /\ MissesOnlyOnLastPage

LEMMA GridFacts ==
  /\ Grid(0) /\ Grid(BatchSize)
  /\ \A o \in Int : Grid(o) => Grid(2 * o) /\ Grid(o + BatchSize) /\ Grid(o - BatchSize)
<1> USE BoundsAssumption
<1>1. Grid(0) /\ Grid(BatchSize)
  <2>1. 0 = 0 * BatchSize /\ BatchSize = 1 * BatchSize
    OBVIOUS
  <2> QED BY <2>1 DEF Grid
<1>2. ASSUME NEW k \in Int
      PROVE  /\ Grid(2 * (k * BatchSize))
             /\ Grid(k * BatchSize + BatchSize)
             /\ Grid(k * BatchSize - BatchSize)
  <2>1. 2 * (k * BatchSize) = (2 * k) * BatchSize /\ 2 * k \in Int
    OBVIOUS
  <2>2. k * BatchSize + BatchSize = (k + 1) * BatchSize /\ k + 1 \in Int
    OBVIOUS
  <2>3. k * BatchSize - BatchSize = (k - 1) * BatchSize /\ k - 1 \in Int
    OBVIOUS
  <2>4. Grid(2 * (k * BatchSize))
    BY <2>1, Zenon DEF Grid
  <2>5. Grid(k * BatchSize + BatchSize)
    BY <2>2, Zenon DEF Grid
  <2>6. Grid(k * BatchSize - BatchSize)
    BY <2>3, Zenon DEF Grid
  <2> QED BY <2>4, <2>5, <2>6
<1>3. ASSUME NEW o \in Int, Grid(o)
      PROVE  Grid(2 * o) /\ Grid(o + BatchSize) /\ Grid(o - BatchSize)
  <2>1. PICK k \in Int : o = k * BatchSize
    BY <1>3, Zenon DEF Grid
  <2> QED BY <1>2, <2>1, Zenon
<1> QED BY <1>1, <1>3

LEMMA MiddleFacts ==
  ASSUME TypeInv, low <= high
  PROVE  Middle \in Nat /\ Middle <= high /\ Grid(Middle)
<1>1. /\ (low + high) \div (2 * BatchSize) \in Nat
      /\ Middle \in Nat /\ Middle <= high
  BY MiddleIsNat, BoundsAssumption DEF Middle, TypeInv, TypeOK
<1> QED BY <1>1 DEF Grid, Middle

(* An item at a lower offset than one that is too recent is so too.        *)
LEMMA NewerBelow ==
  ASSUME TypeOK, NEW o \in Int, NEW n \in Int, n <= o, NewerAt(o)
  PROVE  NewerAt(n)
BY Bounded DEF NewerAt

LEMMA NewerSkips ==
  ASSUME TypeOK, NEW o \in Int, NewerAt(o), NEW i \in 1..posted, InWindow(i)
  PROVE  i <= posted - o
<1>1. PICK j \in 1..posted : j <= posted - o /\ TooRecent(j)
  BY DEF NewerAt
<1>2. ASSUME i > posted - o PROVE FALSE
  <2>1. i \in Items /\ j \in Items /\ j <= i /\ posted \in Nat
    BY <1>1, <1>2, Bounded
  <2>2. At[j] <= At[i]
    BY <2>1, FeedAssumption
  <2>3. At[i] \in Nat /\ At[j] \in Nat /\ request.end \in Nat
    BY <2>1, Dated, Bounded
  <2> QED BY <1>1, <2>2, <2>3 DEF TooRecent, InWindow
<1> QED BY <1>2, Bounded

(* What a probe that did not fail tells.                                   *)
LEMMA ProbeTells ==
  ASSUME TypeInv, NEW o \in Nat, NEW date, Probe(o, date), faults' = 0, request.end # NoDate
  PROVE  /\ TooNew(date) => NewerAt(o)
         /\ date = NoDate <=> posted <= o
<1>1. date = (IF o < posted THEN At[posted - o] ELSE NoDate)
  BY DEF Probe, Fault, TypeInv, TypeOK
<1>2. CASE o < posted
  <2>1. posted - o \in 1..posted /\ posted - o <= posted - o
    BY <1>2, Bounded DEF TypeInv
  <2>2. date = At[posted - o] /\ date \in Nat /\ date > 0
    BY <1>1, <1>2, <2>1, Bounded, Dated DEF TypeInv
  <2> QED BY <1>2, <2>1, <2>2, Bounded DEF TooNew, NewerAt, TooRecent, NoDate, TypeInv
<1>3. CASE ~(o < posted)
  BY <1>1, <1>3, Bounded DEF TooNew, TypeInv
<1> QED BY <1>2, <1>3

LEMMA GrowthCovers ==
  ASSUME TypeInv, CoverInv, Post
  PROVE  CoverInv'
<1>1. posted \in Nat /\ posted' = posted + 1
  BY Bounded DEF TypeInv, Post
<1>2. \A o \in Int : NewerAt(o) => NewerAt(o)'
  <2> SUFFICES ASSUME NEW o \in Int, NewerAt(o) PROVE NewerAt(o)'
    OBVIOUS
  <2>1. PICK i \in 1..posted : i <= posted - o /\ TooRecent(i)
    BY DEF NewerAt
  <2>2. i \in 1..posted' /\ i <= posted' - o
    BY <1>1, <2>1
  <2> QED BY <2>1, <2>2 DEF NewerAt, Post, TooRecent
<1>3. low \in Int /\ result \in Int /\ low - BatchSize \in Int /\ offset \in Int
  BY BoundsAssumption DEF TypeInv, TypeOK
<1>4. OnGrid'
  BY DEF CoverInv, OnGrid, Post, searchVars, Grid
<1>5. ASSUME faults' = 0 PROVE Searched' /\ Passed' /\ MissesOnlyOnLastPage'
  <2>1. Searched /\ Passed /\ MissesOnlyOnLastPage
    BY <1>5 DEF CoverInv, Post
  <2>2. Searched'
    BY <1>1, <1>2, <1>3, <2>1 DEF Searched, Post, searchVars
  <2>3. Passed'
    BY <1>1, <1>3, <2>1 DEF Passed, Post, searchVars, pageVars, InWindow, TooRecent
  <2>4. MissesOnlyOnLastPage'
    BY <2>1 DEF MissesOnlyOnLastPage, Post, pageVars, InWindow, TooRecent
  <2> QED BY <2>2, <2>3, <2>4
<1> QED BY <1>4, <1>5 DEF CoverInv

LEMMA SearchCovers ==
  ASSUME TypeInv, CoverInv, ProbeNewest \/ Leap \/ Bisect
  PROVE  CoverInv'
<1>1. /\ low \in Nat /\ high \in Int /\ result \in Nat /\ posted \in Nat /\ BatchSize \in Nat
      /\ faults \in Nat
  BY Bounded, BoundsAssumption DEF TypeInv, TypeOK
<1>2. /\ UNCHANGED <<posted, shown, request, offset, page, collected, count>>
      /\ pc \in {"first", "leap", "bisect"}
  BY DEF ProbeNewest, Leap, Bisect, pageVars
<1>3. /\ \A o : NewerAt(o)' <=> NewerAt(o)
      /\ \A i : InWindow(i)' <=> InWindow(i)
  BY <1>2 DEF NewerAt, InWindow, TooRecent
<1>4. OnGrid'
  <2>1. OnGrid
    BY DEF CoverInv
  <2>2. CASE ProbeNewest
    BY <2>1, <2>2 DEF ProbeNewest, searchVars, OnGrid, Grid
  <2>3. CASE Leap
    <3>1. Grid(2 * high)
      BY <1>1, <2>1, GridFacts DEF OnGrid
    <3> QED BY <2>1, <2>3, <3>1 DEF Leap, OnGrid, Grid
  <2>4. CASE Bisect
    <3>1. /\ Grid(Middle) /\ Grid(Middle + BatchSize) /\ Grid(Middle - BatchSize)
      BY <2>4, MiddleFacts, GridFacts DEF Bisect
    <3> QED BY <2>1, <2>4, <3>1 DEF Bisect, OnGrid, Grid
  <2> QED BY <2>2, <2>3, <2>4
<1>5. ASSUME faults' = 0 PROVE Searched' /\ Passed' /\ MissesOnlyOnLastPage'
  <2>1. faults = 0
    BY <1>1, <1>5 DEF ProbeNewest, Leap, Bisect, Probe, Fault
  <2>2. Searched /\ request.end # NoDate
    BY <1>2, <2>1 DEF CoverInv, Searched
  <2>3. CASE ProbeNewest
    <3>1. PICK date \in ProbedDates :
            Probe(0, date) /\ pc' = IF TooNew(date) THEN "leap" ELSE "page"
      BY <2>3 DEF ProbeNewest
    <3>2. TooNew(date) => NewerAt(0)
      BY <1>5, <2>2, <3>1, ProbeTells
    <3>3. low = 0 /\ offset = 0 /\ UNCHANGED low
      BY <2>2, <2>3 DEF ProbeNewest, Searched, searchVars
    <3>4. Searched'
      BY <1>2, <1>3, <2>2, <3>1, <3>2, <3>3 DEF Searched
    <3>5. Passed'
      <4> SUFFICES ASSUME NEW i \in 1..shown PROVE i <= posted - 0
        BY <1>2, <1>3, <3>3 DEF Passed
      <4>1. shown \in 0..posted
        BY DEF TypeInv, TypeOK
      <4> QED BY <1>1, <4>1
    <3>6. pc' # "done"
      BY <3>1
    <3> QED BY <3>4, <3>5, <3>6 DEF MissesOnlyOnLastPage
  <2>4. CASE Leap
    <3>1. high \in Nat /\ pc = "leap"
      BY <2>4 DEF Leap, TypeInv
    <3>2. PICK date \in ProbedDates :
            /\ Probe(high, date)
            /\ IF TooNew(date)
                 THEN low' = high /\ high' = 2 * high /\ UNCHANGED <<result, pc>>
                 ELSE result' = low /\ pc' = "bisect" /\ UNCHANGED <<low, high>>
      BY <2>4 DEF Leap
    <3>3. TooNew(date) => NewerAt(high)
      BY <1>5, <2>2, <3>1, <3>2, ProbeTells
    <3>4. NewerAt(low) /\ NewerAt(low - BatchSize)
      BY <1>1, <2>2, <3>1, NewerBelow DEF Searched, TypeInv
    <3>5. Searched'
      BY <1>2, <1>3, <2>2, <3>1, <3>2, <3>3, <3>4 DEF Searched
    <3>6. pc' \in {"leap", "bisect"}
      BY <3>1, <3>2
    <3> QED BY <3>5, <3>6 DEF Passed, MissesOnlyOnLastPage
  <2>5. CASE Bisect
    <3>1. Middle \in Nat /\ Middle <= high /\ pc = "bisect"
      BY <2>5, MiddleFacts DEF Bisect
    <3>2. PICK date \in ProbedDates :
            /\ Probe(Middle, date)
            /\ IF TooNew(date)
                 THEN low' = Middle + BatchSize /\ UNCHANGED <<high, result>>
                 ELSE /\ high' = Middle - BatchSize
                      /\ result' = IF date = NoDate THEN result ELSE Middle
                      /\ UNCHANGED low
      BY <2>5 DEF Bisect
    <3>3. /\ TooNew(date) => NewerAt(Middle)
          /\ date = NoDate <=> posted <= Middle
      BY <1>5, <2>2, <3>1, <3>2, ProbeTells
    <3>4. /\ NewerAt(low - BatchSize)
          /\ NewerAt(result) \/ (high = result - BatchSize /\ result < posted)
      BY <2>2, <3>1 DEF Searched
    <3> HIDE DEF Middle
    <3>5. NewerAt(low' - BatchSize)
      <4>1. CASE TooNew(date)
        <5>1. low' - BatchSize = Middle
          BY <1>1, <3>1, <3>2, <4>1
        <5> QED BY <3>3, <4>1, <5>1
      <4>2. CASE ~TooNew(date)
        BY <3>2, <3>4, <4>2
      <4> QED BY <4>1, <4>2
    <3>6. NewerAt(result') \/ (high' = result' - BatchSize /\ result' < posted)
      <4>1. CASE TooNew(date)
        BY <3>2, <3>4, <4>1
      <4>2. CASE ~TooNew(date) /\ date = NoDate
        <5>1. result' = result /\ posted <= Middle
          BY <3>2, <3>3, <4>2
        <5>2. ~(high = result - BatchSize /\ result < posted)
          BY <1>1, <3>1, <5>1
        <5> QED BY <3>4, <5>1, <5>2
      <4>3. CASE ~TooNew(date) /\ date # NoDate
        <5>1. result' = Middle /\ high' = Middle - BatchSize /\ ~(posted <= Middle)
          BY <3>2, <3>3, <4>3
        <5> QED BY <1>1, <3>1, <5>1
      <4> QED BY <4>1, <4>2, <4>3
    <3>7. pc' = "bisect"
      BY <2>5, <3>1 DEF Bisect
    <3>8. Searched'
      BY <1>2, <1>3, <2>2, <3>5, <3>6, <3>7 DEF Searched
    <3> QED BY <3>7, <3>8 DEF Passed, MissesOnlyOnLastPage
  <2> QED BY <2>3, <2>4, <2>5
<1> QED BY <1>4, <1>5 DEF CoverInv

LEMMA SearchEndCovers ==
  ASSUME TypeInv, CoverInv, EndSearch
  PROVE  CoverInv'
<1>1. /\ low \in Nat /\ high \in Int /\ result \in Nat /\ posted \in Nat
      /\ BatchSize \in Nat \ {0} /\ pc = "bisect" /\ low > high
  BY Bounded, BoundsAssumption DEF TypeInv, TypeOK, EndSearch
<1>2. OnGrid'
  BY DEF CoverInv, OnGrid, EndSearch, searchVars, Grid
<1>3. ASSUME faults = 0, result > BatchSize PROVE NewerAt(result - BatchSize)
  <2>1. Searched
    BY <1>3 DEF CoverInv
  <2>2. CASE NewerAt(result)
    BY <1>1, <2>2, NewerBelow DEF TypeInv
  <2>3. CASE high = result - BatchSize
    <3>1. PICK a \in Int, b \in Int : low = a * BatchSize /\ result = b * BatchSize
      BY DEF CoverInv, OnGrid, Grid
    <3>2. a * BatchSize > b * BatchSize - BatchSize
      BY <1>1, <2>3, <3>1
    <3>3. low >= result
      BY <1>1, <3>1, <3>2, GridStep
    <3>4. NewerAt(low - BatchSize)
      BY <1>1, <2>1 DEF Searched
    <3>5. result - BatchSize <= low - BatchSize
      BY <1>1, <3>3
    <3> QED BY <1>1, <3>4, <3>5, NewerBelow DEF TypeInv
  <2> QED BY <1>1, <2>1, <2>2, <2>3 DEF Searched
<1>4. ASSUME faults' = 0 PROVE Searched' /\ Passed' /\ MissesOnlyOnLastPage'
  <2>1. /\ pc' = "page" /\ faults = 0
        /\ offset' = IF result > BatchSize THEN result - BatchSize ELSE 0
        /\ UNCHANGED <<posted, shown, request, collected>>
    BY <1>4 DEF EndSearch, SafeStart, pageVars
  <2>2. ASSUME NEW i \in 1..shown, InWindow(i) PROVE i <= posted - offset'
    <3>1. i \in 1..posted
      BY Bounded DEF TypeInv, TypeOK
    <3>2. CASE result > BatchSize
      BY <1>1, <1>3, <2>1, <2>2, <3>1, <3>2, NewerSkips DEF TypeInv
    <3>3. CASE ~(result > BatchSize)
      BY <1>1, <2>1, <3>1, <3>3
    <3> QED BY <3>2, <3>3
  <2>3. Passed'
    BY <2>1, <2>2 DEF Passed, InWindow, TooRecent
  <2> QED BY <2>1, <2>3 DEF Searched, MissesOnlyOnLastPage
<1> QED BY <1>2, <1>4 DEF CoverInv

LEMMA PageCovers ==
  ASSUME TypeInv, CoverInv, FetchPage
  PROVE  CoverInv'
<1>1. /\ posted \in Nat /\ offset \in Nat /\ BatchSize \in Nat \ {0}
      /\ shown \in Nat /\ shown <= posted /\ faults \in Nat
  BY Bounded, BoundsAssumption DEF TypeInv, TypeOK
<1>2. /\ pc = "page" /\ offset' = offset + BatchSize
      /\ UNCHANGED <<posted, shown, request, low, high, result>>
  BY DEF FetchPage, NextOffset, searchVars
<1>3. OnGrid'
  BY <1>2 DEF CoverInv, OnGrid, Grid
<1>4. PICK failed \in SUBSET Listed :
           LET received == Listed \ failed
               items == {i \in Walked(received) : ~TooRecent(i)}
               taken == Taken(items)
           IN /\ Cardinality(failed) \in Nat
              /\ Cardinality(failed) = 0 => failed = {}
              /\ Fault(Cardinality(failed))
              /\ page' = Listed
              /\ collected' = collected \cup taken
              /\ count' < Limit => taken = items
              /\ pc' = IF count' >= Limit \/ \E i \in received : Stops(i) THEN "done" ELSE "page"
  BY FetchFacts
<1>5. count' \in Nat /\ Limit \in Nat
  BY BoundsAssumption, TypeStep DEF TypeInv, TypeOK, Next, Crawl
<1>6. ASSUME faults' = 0 PROVE Searched' /\ Passed' /\ MissesOnlyOnLastPage'
  <2>1. faults = 0 /\ failed = {}
    BY <1>1, <1>4, <1>6 DEF Fault
  <2> DEFINE items == {i \in Walked(Listed) : ~TooRecent(i)}
  <2>2. /\ page' = Listed
        /\ collected \subseteq collected'
        /\ count' < Limit => items \subseteq collected'
        /\ pc' = IF count' >= Limit \/ \E i \in Listed : Stops(i) THEN "done" ELSE "page"
    BY <1>4, <2>1
  <2>3. \A i \in 1..shown : InWindow(i) => i \in collected \/ i <= posted - offset
    BY <1>2, <2>1 DEF CoverInv, Passed
  <2>4. ASSUME NEW i \in 1..shown, InWindow(i), i \notin collected,
               ~(i <= posted - offset')
        PROVE  i \in Listed
    BY <1>1, <1>2, <2>3, <2>4 DEF Listed
  <2>5. ASSUME ~\E i \in Listed : Stops(i), count' < Limit, NEW i \in Listed, InWindow(i)
        PROVE  i \in collected'
    BY <2>2, <2>5 DEF Walked, InWindow
  <2>6. ASSUME NEW j \in Listed, Stops(j), NEW i \in 1..shown, InWindow(i),
               i <= posted - offset'
        PROVE  FALSE
    <3>1. i \in Items /\ j \in Items /\ i <= j
      BY <1>1, <1>2, <2>6, Bounded DEF Listed, TypeInv
    <3>2. At[i] <= At[j]
      BY <3>1, FeedAssumption
    <3> QED BY <2>6, <3>1, <3>2, Dated, Bounded DEF Stops, InWindow, TypeInv
  <2>7. Searched'
    BY <2>2 DEF Searched
  <2> HIDE DEF items
  <2>8. Passed'
    <3> SUFFICES ASSUME pc' = "page", NEW i \in 1..shown, InWindow(i)
                 PROVE  i \in collected' \/ i <= posted - offset'
      BY <1>2 DEF Passed, InWindow, TooRecent
    <3>1. count' < Limit /\ ~\E j \in Listed : Stops(j)
      BY <1>5, <2>2
    <3> QED BY <2>2, <2>4, <2>5, <3>1
  <2>9. MissesOnlyOnLastPage'
    <3> SUFFICES ASSUME pc' = "done", count' < Limit, NEW i \in 1..shown, InWindow(i)
                 PROVE  i \in collected' \cup page'
      BY <1>2 DEF MissesOnlyOnLastPage, InWindow, TooRecent
    <3>1. PICK j \in Listed : Stops(j)
      BY <1>5, <2>2
    <3> QED BY <2>2, <2>4, <2>6, <3>1
  <2> QED BY <2>7, <2>8, <2>9
<1> QED BY <1>3, <1>6 DEF CoverInv

LEMMA FeedEndCovers ==
  ASSUME TypeInv, CoverInv, FeedEnds
  PROVE  CoverInv'
<1>1. /\ posted \in Nat /\ offset \in Nat /\ faults \in Nat
  BY Bounded DEF TypeInv, TypeOK
<1>2. /\ pc = "page" /\ pc' = "done"
      /\ UNCHANGED <<posted, shown, request, low, high, result, offset, page, collected, count>>
  BY DEF FeedEnds, searchVars, pageVars
<1>3. OnGrid'
  BY <1>2 DEF CoverInv, OnGrid, Grid
<1>4. ASSUME faults' = 0 PROVE MissesOnlyOnLastPage'
  <2>1. faults = 0 /\ offset >= posted
    BY <1>1, <1>4 DEF FeedEnds, Fault
  <2>2. \A i \in 1..shown : InWindow(i) => i \in collected
    BY <1>1, <1>2, <2>1 DEF CoverInv, Passed, TypeInv, TypeOK
  <2> QED BY <1>2, <2>2 DEF MissesOnlyOnLastPage, InWindow, TooRecent
<1> QED BY <1>2, <1>3, <1>4 DEF CoverInv, Searched, Passed, FeedEnds, Fault

(* Neither the offset search nor the pages shifting under a growing feed   *)
(* skip an item of the window.                                             *)
THEOREM SkipsNothing == Spec => []MissesOnlyOnLastPage
<1>1. Init => CoverInv
  <2> SUFFICES ASSUME Init PROVE CoverInv
    OBVIOUS
  <2>1. OnGrid
    BY GridFacts DEF Init, OnGrid
  <2>2. Searched
    BY DEF Init, Searched
  <2>3. Passed
    <3> SUFFICES ASSUME NEW i \in 1..shown PROVE i <= posted - offset
      BY DEF Passed
    <3>1. shown = posted /\ offset = 0 /\ posted \in Nat
      BY FeedAssumption DEF Init
    <3> QED BY <3>1
  <2>4. MissesOnlyOnLastPage
    BY DEF Init, MissesOnlyOnLastPage
  <2> QED BY <2>1, <2>2, <2>3, <2>4 DEF CoverInv
<1>2. TypeInv /\ CoverInv /\ [Next]_vars => CoverInv'
  <2> SUFFICES ASSUME TypeInv, CoverInv, [Next]_vars PROVE CoverInv'
    OBVIOUS
  <2>1. CASE UNCHANGED vars
    BY <2>1 DEF vars, searchVars, pageVars, CoverInv, OnGrid, Grid, Searched, Passed, NewerAt,
                MissesOnlyOnLastPage, InWindow, TooRecent
  <2> QED
    BY <2>1, GrowthCovers, SearchCovers, SearchEndCovers, PageCovers, FeedEndCovers
    DEF Next, Crawl
<1>3. TypeInv /\ CoverInv => MissesOnlyOnLastPage
  BY DEF CoverInv, MissesOnlyOnLastPage
<1> QED BY <1>1, <1>2, <1>3, TypeInvariant, PTL DEF Spec

-------------------------------------------------------------------------------
(* How a crawl comes to its end: it never goes back to an earlier stage,   *)
(* and within a stage each step uses up some of the room that is left.     *)

Stage == [first |-> 4, leap |-> 3, bisect |-> 2, page |-> 1, done |-> 0][pc]

Room ==
  CASE pc = "leap" -> MaxItems - high
    [] pc = "bisect" -> high - low + 1
    [] OTHER -> MaxItems - offset

Advances == Stage' < Stage \/ (Stage' = Stage /\ Room > 0 /\ Room' < Room)

(* A date that is too new is that of an item on the server.                *)
LEMMA TooNewIsPosted ==
  ASSUME TypeOK, NEW o \in Nat, NEW date, Probe(o, date), TooNew(date)
  PROVE  o < MaxItems
<1>1. o < posted
  BY DEF Probe, TooNew
<1> QED BY <1>1, FeedAssumption DEF TypeOK

LEMMA CrawlStep ==
  ASSUME TypeInv, Crawl
  PROVE  Advances
<1>1. /\ MaxItems \in Nat /\ BatchSize \in Nat \ {0}
      /\ low \in Nat /\ high \in Int /\ offset \in Nat /\ posted \in 0..MaxItems
  BY FeedAssumption, BoundsAssumption DEF TypeInv, TypeOK
<1>2. CASE ProbeNewest
  BY <1>2 DEF ProbeNewest, Advances, Stage
<1>3. CASE Leap
  <2>1. pc = "leap" /\ high \in Nat \ {0}
    BY <1>3 DEF Leap, TypeInv
  <2>2. PICK date \in ProbedDates :
          /\ Probe(high, date)
          /\ IF TooNew(date) THEN high' = 2 * high /\ UNCHANGED pc ELSE pc' = "bisect"
    BY <1>3 DEF Leap
  <2>3. CASE TooNew(date)
    <3>1. high < MaxItems
      BY <2>1, <2>2, <2>3, TooNewIsPosted DEF TypeInv
    <3> QED BY <1>1, <2>1, <2>2, <2>3, <3>1 DEF Advances, Stage, Room
  <2>4. CASE ~TooNew(date)
    BY <2>1, <2>2, <2>4 DEF Advances, Stage
  <2> QED BY <2>3, <2>4
<1>4. CASE Bisect
  <2>1. /\ pc = "bisect" /\ pc' = "bisect" /\ low <= high
        /\ \/ low' = Middle + BatchSize /\ high' = high
           \/ low' = low /\ high' = Middle - BatchSize
    BY <1>4 DEF Bisect
  <2>2. Middle \in Nat /\ Middle <= high /\ Middle + BatchSize > low
    BY <1>1, <2>1, MiddleIsNat DEF Middle
  <2> QED BY <1>1, <2>1, <2>2 DEF Advances, Stage, Room
<1>5. CASE EndSearch
  BY <1>5 DEF EndSearch, Advances, Stage
<1>6. CASE FetchPage
  <2>1. pc = "page" /\ pc' \in {"page", "done"} /\ offset' = offset + BatchSize
    BY <1>6 DEF FetchPage, NextOffset
  <2>2. posted - offset >= 1
    <3>1. PICK i \in 1..posted : i \in (posted - offset - BatchSize + 1)..(posted - offset)
      BY <1>6 DEF FetchPage
    <3> QED BY <1>1, <3>1
  <2> QED BY <1>1, <2>1, <2>2 DEF Advances, Stage, Room
<1>7. CASE FeedEnds
  BY <1>7 DEF FeedEnds, Advances, Stage
<1> QED BY <1>2, <1>3, <1>4, <1>5, <1>6, <1>7 DEF Crawl

(* Every request brings a crawl nearer to its end, however the feed grows  *)
(* meanwhile: leaps and pages stay on the feed, and a bisection narrows    *)
(* the interval.  All that CrawlEnds needs besides is that requests return.*)
THEOREM CrawlAdvances == Spec => [][Crawl => Advances]_vars
<1>1. TypeInv /\ [Next]_vars => [Crawl => Advances]_vars
  BY CrawlStep
<1> QED BY <1>1, TypeInvariant, PTL DEF Spec

================================================================================
