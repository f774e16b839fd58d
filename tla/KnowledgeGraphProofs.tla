------------------------- MODULE KnowledgeGraphProofs -------------------------
(***************************************************************************)
(* Theorems about KnowledgeGraph, for any documents, entities, relations,  *)
(* results, batch size and number of faults: entities keep one node each   *)
(* (NodesUnique), a document's edges are what one merge of its result      *)
(* leaves (GraphMatches), what the stream worker has moved past is in the  *)
(* graph or known to be lost (ConsumedHydrated), and a backfill that ends  *)
(* has merged all it matched (BackfillHydratesAll).                        *)
(***************************************************************************)
EXTENDS KnowledgeGraph, SetsOfNaturals, SequenceTheorems, FiniteSetTheorems, TLAPS

-------------------------------------------------------------------------------
(* One node per entity.  The constraint is only made over a graph without  *)
(* copies and keeps it so, and until some process has failed to make it,   *)
(* nobody has begun to merge.                                              *)

CountsInv ==
  /\ nodes \in [Entities -> Nat]
  /\ constraint \in BOOLEAN
  /\ faults \in Nat

Idle == ~up /\ backfill = "off" /\ \A p \in Processes : work[p] = {} /\ missing[p] = None

Single == \A n \in Entities : nodes[n] <= 1

NodesInv ==
  /\ CountsInv
  /\ constraint => Single
  /\ faults = 0 /\ ~constraint => Idle /\ Single

LEMMA NodesInvImplies == NodesInv => OneNodePerId
<1> SUFFICES ASSUME NodesInv, NEW n \in Entities, nodes[n] > 1
             PROVE  ~constraint /\ faults > 0
  BY DEF OneNodePerId
<1>1. nodes[n] \in Nat /\ faults \in Nat
  BY DEF NodesInv, CountsInv
<1>2. ~Single
  BY <1>1 DEF Single
<1> QED BY <1>1, <1>2 DEF NodesInv

LEMMA NodesInvInit == Init => NodesInv
<1> SUFFICES ASSUME Init PROVE NodesInv
  OBVIOUS
<1>1. /\ nodes = [n \in Entities |-> 0] /\ constraint = FALSE /\ faults = 0
      /\ ~up /\ backfill = "off"
      /\ work = [p \in Processes |-> {}] /\ missing = [p \in Processes |-> None]
  BY DEF Init
<1>2. nodes \in [Entities -> Nat] /\ Single
  BY <1>1 DEF Single
<1>3. CountsInv
  BY <1>1, <1>2 DEF CountsInv
<1>4. Idle
  BY <1>1 DEF Idle
<1> QED BY <1>1, <1>2, <1>3, <1>4 DEF NodesInv

(* A fault is counted, and a step without one leaves the count alone.      *)
LEMMA FaultCounts ==
  ASSUME faults \in Nat, Fault(1)
  PROVE  faults' \in Nat /\ faults' > 0
BY DEF Fault

(* What a commit leaves, with the constraint or without it.                *)
LEMMA CommitsNodes ==
  ASSUME CountsInv, NEW p \in Processes, Commits(p)
  PROVE  /\ nodes' \in [Entities -> Nat]
         /\ constraint /\ Single => Single'
<1>1. nodes' \in [Entities -> Nat]
  BY DEF Commits, CountsInv
<1>2. ASSUME constraint, Single PROVE Single'
  <2> SUFFICES ASSUME NEW n \in Entities PROVE nodes'[n] <= 1
    BY DEF Single
  <2>1. nodes[n] \in Nat /\ nodes[n] <= 1
    BY <1>2 DEF CountsInv, Single
  <2>2. nodes'[n] = IF n \in Created(p) THEN nodes[n] + 1 ELSE nodes[n]
    BY DEF Commits
  <2>3. n \in Created(p) => nodes[n] = 0
    BY <1>2 DEF Created
  <2> QED BY <2>1, <2>2, <2>3
<1> QED BY <1>1, <1>2

(* Making the constraint.                                                  *)
LEMMA EnsuresConstraint ==
  ASSUME CountsInv, constraint => Single, EnsureConstraints, UNCHANGED nodes
  PROVE  /\ constraint' \in BOOLEAN /\ faults' \in Nat
         /\ constraint' => Single'
         /\ faults' = 0 /\ Single => constraint'
<1>1. Single' = Single
  BY DEF Single
<1>2. CASE /\ constraint' = (constraint \/ \A n \in Entities : nodes[n] <= 1)
           /\ UNCHANGED faults
  BY <1>1, <1>2 DEF CountsInv, Single
<1>3. CASE constraint' = constraint /\ Fault(1)
  BY <1>1, <1>3, FaultCounts DEF CountsInv
<1> QED BY <1>2, <1>3 DEF EnsureConstraints

(* A step of a process that is at work: its start has left the constraint  *)
(* or a fault behind, and it does not undo either.                         *)
LEMMA BusyStep ==
  ASSUME NodesInv, ~Idle, CountsInv', constraint' = constraint,
         faults' = faults \/ faults' > 0, constraint => Single'
  PROVE  NodesInv'
<1>1. constraint \/ faults > 0
  BY DEF NodesInv, CountsInv
<1> QED BY <1>1 DEF NodesInv, CountsInv

LEMMA FaultOrNot ==
  ASSUME faults \in Nat, Fault(1) \/ UNCHANGED faults
  PROVE  faults' \in Nat /\ (faults' = faults \/ faults' > 0)
BY FaultCounts

LEMMA QueryStep ==
  ASSUME NodesInv, NEW p \in Processes, Query(p)
  PROVE  NodesInv'
<1>1. CountsInv /\ (constraint => Single) /\ faults \in Nat
  BY DEF NodesInv, CountsInv
<1>2. CASE Begin(p)
  <2>1. ~Idle
    BY <1>2 DEF Begin, Idle
  <2>2. CountsInv'
    BY <1>1, <1>2 DEF Begin, CountsInv, graphVars
  <2> QED BY <1>1, <1>2, <2>1, <2>2, BusyStep DEF Begin, graphVars, Single
<1>3. CASE Skip(p)
  <2>1. ~Idle
    BY <1>3 DEF Skip, Idle
  <2>2. CountsInv'
    BY <1>1, <1>3 DEF Skip, CountsInv, graphVars
  <2> QED BY <1>1, <1>3, <2>1, <2>2, BusyStep DEF Skip, graphVars, Single
<1>4. CASE Commit(p)
  <2>1. ~Idle
    BY <1>4 DEF Commit, Idle, Open
  <2>2. CountsInv' /\ (constraint => Single')
    BY <1>1, <1>4, CommitsNodes DEF Commit, CountsInv
  <2> QED BY <1>4, <2>1, <2>2, BusyStep DEF Commit
<1>5. CASE Raise(p)
  <2>1. ~Idle
    BY <1>5 DEF Raise, Idle, Open
  <2>2. Commits(p) \/ RollsBack
    BY <1>5 DEF Raise
  <2>3. nodes' \in [Entities -> Nat] /\ (constraint => Single')
    BY <1>1, <2>2, CommitsNodes DEF RollsBack, CountsInv, Single
  <2>4. faults' \in Nat /\ (faults' = faults \/ faults' > 0)
    BY <1>1, <1>5, FaultOrNot DEF Raise
  <2>5. CountsInv'
    BY <1>1, <1>5, <2>3, <2>4 DEF Raise, CountsInv
  <2> QED BY <1>5, <2>1, <2>3, <2>4, <2>5, BusyStep DEF Raise
<1> QED BY <1>2, <1>3, <1>4, <1>5 DEF Query

LEMMA StartStep ==
  ASSUME NodesInv, Start \/ StartBackfill
  PROVE  NodesInv'
<1>1. CountsInv /\ (constraint => Single) /\ EnsureConstraints /\ UNCHANGED <<nodes, batchVars>>
  BY DEF NodesInv, Start, StartBackfill
<1>2. CountsInv' /\ (constraint' => Single')
  BY <1>1, EnsuresConstraint DEF CountsInv, batchVars
<1>3. ASSUME faults' = 0, ~constraint' PROVE FALSE
  <2>1. ~Fault(1)
    BY <1>1, <1>3, FaultCounts DEF CountsInv
  <2>2. faults' = faults /\ constraint' = (constraint \/ Single)
    BY <1>1, <2>1 DEF EnsureConstraints, Single
  <2> QED BY <1>3, <2>2, Zenon DEF NodesInv
<1> QED BY <1>2, <1>3 DEF NodesInv

LEMMA StreamStep ==
  ASSUME NodesInv, Poll \/ AutoCommit \/ Rejoin \/ Crash
  PROVE  NodesInv'
<1>1. CountsInv /\ (constraint => Single) /\ faults \in Nat
  BY DEF NodesInv, CountsInv
<1>2. up /\ ~Idle /\ constraint' = constraint
  BY DEF Poll, AutoCommit, Rejoin, Crash, Idle, graphVars
<1>3. faults' \in Nat /\ (faults' = faults \/ faults' > 0)
  BY <1>1, FaultOrNot DEF Poll, AutoCommit, Rejoin, Crash
<1>4. nodes' \in [Entities -> Nat] /\ (constraint => Single')
  <2>1. CASE Poll \/ AutoCommit \/ Rejoin
    BY <1>1, <2>1 DEF Poll, AutoCommit, Rejoin, graphVars, CountsInv, Single
  <2>2. CASE Crash
    <3>1. RollsBack \/ Commits("stream")
      BY <2>2 DEF Crash
    <3> QED BY <1>1, <3>1, CommitsNodes DEF RollsBack, CountsInv, Single, Processes
  <2> QED BY <2>1, <2>2
<1> QED BY <1>1, <1>2, <1>3, <1>4, BusyStep DEF CountsInv

LEMMA BackfillStep ==
  ASSUME NodesInv, NextBatch \/ FinishBackfill \/ BackfillCrash
  PROVE  NodesInv'
<1>1. CountsInv /\ (constraint => Single) /\ faults \in Nat
  BY DEF NodesInv, CountsInv
<1>2. backfill = "running" /\ ~Idle /\ constraint' = constraint
  BY DEF NextBatch, FinishBackfill, BackfillCrash, Idle, graphVars
<1>3. faults' \in Nat /\ (faults' = faults \/ faults' > 0)
  BY <1>1, FaultOrNot DEF NextBatch, FinishBackfill, BackfillCrash
<1>4. nodes' \in [Entities -> Nat] /\ (constraint => Single')
  <2>1. CASE NextBatch \/ FinishBackfill
    BY <1>1, <2>1 DEF NextBatch, FinishBackfill, graphVars, CountsInv, Single
  <2>2. CASE BackfillCrash
    <3>1. RollsBack \/ Commits("backfill")
      BY <2>2 DEF BackfillCrash
    <3> QED BY <1>1, <3>1, CommitsNodes DEF RollsBack, CountsInv, Single, Processes
  <2> QED BY <2>1, <2>2
<1> QED BY <1>1, <1>2, <1>3, <1>4, BusyStep DEF CountsInv

LEMMA NodesInvStep == NodesInv /\ [Next]_vars => NodesInv'
<1> SUFFICES ASSUME NodesInv, [Next]_vars PROVE NodesInv'
  OBVIOUS
<1>1. CASE ModuleTwo \/ UNCHANGED vars
  <2>1. UNCHANGED <<nodes, constraint, up, backfill, work, missing, faults>>
    BY <1>1 DEF ModuleTwo, vars, graphVars, streamVars, backfillVars, batchVars
  <2> QED BY <2>1 DEF NodesInv, CountsInv, Single, Idle
<1> QED
  BY <1>1, QueryStep, StartStep, StreamStep, BackfillStep DEF Next

(* Two nodes share an id only without the constraint and after a fault,    *)
(* however the two workers interleave.                                     *)
THEOREM NodesUnique == Spec => []OneNodePerId
<1>1. NodesInv => OneNodePerId
  BY NodesInvImplies
<1> QED BY <1>1, NodesInvInit, NodesInvStep, PTL DEF Spec

-------------------------------------------------------------------------------
(* What a merge makes of a document's edges: an edge that some kept        *)
(* relation has takes the confidence of the last such relation and, if it  *)
(* is new, the rest of the first.                                          *)

(* The places of the kept relations up to n that have the edge e.          *)
UpTo(list, n, e) == {i \in 1..n : Kept(list[i]) /\ EdgeId(list[i]) = e}

Extremes(first, last, places) ==
  /\ first \in places /\ last \in places
  /\ \A i \in places : first <= i /\ i <= last

EdgeMaps == [EdgeIds -> Attributes \cup {None}]

MergesTo(old, list, n, new) ==
  /\ new \in EdgeMaps
  /\ \A e \in EdgeIds :
       \/ UpTo(list, n, e) = {} /\ new[e] = old[e]
       \/ \E first, last \in 1..n :
            /\ Extremes(first, last, UpTo(list, n, e))
            /\ new[e] = [created |-> IF old[e] = None THEN list[first] ELSE old[e].created,
                         confidence |-> list[last]]

LEMMA MergeItemType ==
  ASSUME NEW r \in Relations, NEW m \in EdgeMaps
  PROVE  [m EXCEPT ![EdgeId(r)] = MergeItem(m[EdgeId(r)], r)] \in EdgeMaps
<1>1. EdgeId(r) \in EdgeIds
  BY DEF EdgeIds
<1>2. m[EdgeId(r)] \in Attributes \cup {None}
  BY <1>1 DEF EdgeMaps
<1>3. m[EdgeId(r)] # None => m[EdgeId(r)].created \in Relations
  BY <1>2 DEF Attributes
<1>4. MergeItem(m[EdgeId(r)], r) \in Attributes
  BY <1>3 DEF MergeItem, Attributes
<1> QED BY <1>4 DEF EdgeMaps

LEMMA MergeOne ==
  ASSUME NEW list \in Seq(Relations), NEW n \in 1..Len(list),
         NEW old \in EdgeMaps, NEW before, NEW new,
         MergesTo(old, list, n - 1, before),
         new = IF Kept(list[n])
                 THEN [before EXCEPT ![EdgeId(list[n])] = MergeItem(before[EdgeId(list[n])], list[n])]
                 ELSE before
  PROVE  MergesTo(old, list, n, new)
<1> DEFINE r == list[n]
<1>1. Len(list) \in Nat /\ r \in Relations /\ n \in Nat /\ n >= 1
  BY LenProperties, ElementOfSeq
<1>2. before \in EdgeMaps
  BY DEF MergesTo
<1>3. new \in EdgeMaps
  BY <1>1, <1>2, MergeItemType
<1>4. \A i \in 1..n : i \in 1..(n - 1) \/ i = n
  BY <1>1
<1>5. n \in 1..n /\ n \notin 1..(n - 1) /\ \A i \in 1..(n - 1) : i \in 1..n /\ i <= n
  BY <1>1
<1>6. ASSUME NEW e \in EdgeIds
      PROVE  \/ UpTo(list, n, e) = {} /\ new[e] = old[e]
             \/ \E first, last \in 1..n :
                  /\ Extremes(first, last, UpTo(list, n, e))
                  /\ new[e] = [created |-> IF old[e] = None THEN list[first] ELSE old[e].created,
                               confidence |-> list[last]]
  <2>1. \/ UpTo(list, n - 1, e) = {} /\ before[e] = old[e]
        \/ \E first, last \in 1..(n - 1) :
             /\ Extremes(first, last, UpTo(list, n - 1, e))
             /\ before[e] = [created |-> IF old[e] = None THEN list[first] ELSE old[e].created,
                             confidence |-> list[last]]
    BY DEF MergesTo
  <2>2. CASE ~(Kept(r) /\ EdgeId(r) = e)
    <3>1. UpTo(list, n, e) = UpTo(list, n - 1, e)
      BY <1>4, <1>5, <2>2 DEF UpTo
    <3>2. new[e] = before[e]
      BY <1>2, <2>2 DEF EdgeMaps
    <3> QED BY <1>5, <2>1, <3>1, <3>2
  <2>3. CASE Kept(r) /\ EdgeId(r) = e
    <3>1. UpTo(list, n, e) = UpTo(list, n - 1, e) \cup {n}
      BY <1>4, <1>5, <2>3 DEF UpTo
    <3>2. new[e] = MergeItem(before[e], r)
      BY <1>2, <2>3 DEF EdgeMaps
    <3>3. old[e] # None => old[e].created \in Relations
      BY DEF EdgeMaps, Attributes
    <3>4. CASE UpTo(list, n - 1, e) = {} /\ before[e] = old[e]
      <4>1. Extremes(n, n, UpTo(list, n, e))
        BY <1>1, <3>1, <3>4 DEF Extremes
      <4>2. new[e] = [created |-> IF old[e] = None THEN list[n] ELSE old[e].created,
                      confidence |-> list[n]]
        BY <3>2, <3>4 DEF MergeItem
      <4> QED BY <1>5, <4>1, <4>2
    <3>5. ASSUME NEW first \in 1..(n - 1), NEW last \in 1..(n - 1),
                 Extremes(first, last, UpTo(list, n - 1, e)),
                 before[e] = [created |-> IF old[e] = None THEN list[first] ELSE old[e].created,
                              confidence |-> list[last]]
          PROVE  \E f, l \in 1..n :
                   /\ Extremes(f, l, UpTo(list, n, e))
                   /\ new[e] = [created |-> IF old[e] = None THEN list[f] ELSE old[e].created,
                                confidence |-> list[l]]
      <4>1. UpTo(list, n - 1, e) \subseteq 1..(n - 1)
        BY DEF UpTo
      <4>2. Extremes(first, n, UpTo(list, n, e))
        BY <1>1, <1>5, <3>1, <3>5, <4>1 DEF Extremes
      <4>3. before[e] # None
        <5>1. list[first] \in Relations /\ list[last] \in Relations
          <6>1. first \in 1..Len(list) /\ last \in 1..Len(list)
            BY <1>1
          <6> QED BY <6>1, ElementOfSeq
        <5>2. before[e] \in Attributes
          BY <3>3, <3>5, <5>1 DEF Attributes
        <5> QED BY <5>2, RelationsAssumption
      <4>4. new[e] = [created |-> IF old[e] = None THEN list[first] ELSE old[e].created,
                      confidence |-> list[n]]
        BY <3>2, <3>5, <4>3 DEF MergeItem
      <4> QED BY <1>5, <4>2, <4>4
    <3> QED BY <2>1, <3>4, <3>5
  <2> QED BY <2>2, <2>3
<1> QED BY <1>3, <1>6 DEF MergesTo

LEMMA MergedFacts ==
  ASSUME NEW d, ledger[d] \in Seq(Relations), edges[d] \in EdgeMaps
  PROVE  MergesTo(edges[d], ledger[d], Len(ledger[d]), Merged(d))
<1> DEFINE list == ledger[d]
           old == edges[d]
           N == Len(list)
           One(n, m) == IF Kept(list[n])
                          THEN [m EXCEPT ![EdgeId(list[n])] = MergeItem(m[EdgeId(list[n])], list[n])]
                          ELSE m
           IsAfter(f) == f = [n \in 0..N |->
                               IF n = 0 THEN old
                               ELSE IF Kept(list[n])
                                 THEN [f[n - 1] EXCEPT ![EdgeId(list[n])] = MergeItem(@, list[n])]
                                 ELSE f[n - 1]]
           after == CHOOSE f : IsAfter(f)
<1>1. N \in Nat
  BY LenProperties
<1>2. Merged(d) = after[N]
  BY DEF Merged
<1>3. ASSUME NEW n \in 1..N, NEW m \in EdgeMaps PROVE One(n, m) \in EdgeMaps
  <2>1. list[n] \in Relations
    BY ElementOfSeq
  <2> QED BY <2>1, MergeItemType
<1>4. \E f : IsAfter(f)
  <2> DEFINE step == [n \in 1..N |-> [m \in EdgeMaps |-> One(n, m)]]
  <2>1. step \in [1..N -> [EdgeMaps -> EdgeMaps]]
    BY <1>3
  <2>2. \A n \in 1..N, m \in EdgeMaps : step[n][m] = One(n, m)
    OBVIOUS
  <2> HIDE DEF step, One, N
  <2>3. PICK f \in [0..N -> EdgeMaps] : Computes(f, N, old, step)
    BY <1>1, <2>1, RecursionUpTo
  <2>4. ASSUME NEW n \in 0..N, n # 0 PROVE f[n] = One(n, f[n - 1])
    <3>1. n \in 1..N /\ f[n - 1] \in EdgeMaps
      BY <1>1, <2>4
    <3> QED BY <2>2, <2>3, <3>1 DEF Computes
  <2>5. f = [n \in 0..N |-> IF n = 0 THEN old ELSE One(n, f[n - 1])]
    BY <2>3, <2>4 DEF Computes
  <2>6. IsAfter(f)
    BY <2>5 DEF One
  <2> QED BY <2>6
<1>5. IsAfter(after)
  BY <1>4
<1> HIDE DEF after, N
<1>6. after[0] = old /\ \A n \in 1..N : after[n] = One(n, after[n - 1])
  <2>1. 0 \in 0..N /\ \A n \in 1..N : n \in 0..N /\ n # 0
    BY <1>1
  <2> QED BY <1>5, <2>1
<1>7. \A n \in 0..N : MergesTo(old, list, n, after[n])
  <2> DEFINE T == {n \in 0..N : MergesTo(old, list, n, after[n])}
  <2>1. 0 \in T
    <3>1. 0 \in 0..N /\ \A e : UpTo(list, 0, e) = {}
      BY <1>1 DEF UpTo
    <3> QED BY <1>6, <3>1 DEF MergesTo
  <2>2. ASSUME NEW n \in 1..N, n - 1 \in T PROVE n \in T
    <3>1. n \in 0..N /\ n \in 1..Len(list) /\ MergesTo(old, list, n - 1, after[n - 1])
      BY <1>1, <2>2 DEF N
    <3>2. after[n] = One(n, after[n - 1])
      BY <1>6
    <3>3. MergesTo(old, list, n, after[n])
      BY <3>1, <3>2, MergeOne
    <3> QED BY <3>1, <3>3
  <2> HIDE DEF T
  <2>3. \A n \in 0..N : n \in T
    BY <1>1, <2>1, <2>2, InductionUpTo
  <2> QED BY <2>3 DEF T
<1>8. MergesTo(old, list, N, after[N])
  BY <1>1, <1>7
<1> QED BY <1>2, <1>8 DEF N

-------------------------------------------------------------------------------
(* What holds between the transactions and the graph.                      *)

(* A transaction misses a node that exists at most once, and two miss it   *)
(* only while it does not exist.                                           *)
Copies ==
  \A n \in Entities : \A p, q \in Processes :
    Open(p) /\ n \in missing[p] =>
      /\ nodes[n] <= 1
      /\ q # p /\ Open(q) /\ n \in missing[q] => nodes[n] = 0

(* What an open transaction has not missed is there.                       *)
EndsKnown ==
  \A p \in Processes : Open(p) => \A n \in NodesOf(work[p]) : nodes[n] > 0 \/ n \in missing[p]

(* Whatever is announced, matched or being merged has a result.            *)
InLedger ==
  /\ \A p \in Processes : \A d \in work[p] : ledger[d] # None
  /\ \A d \in target : ledger[d] # None
  /\ \A i \in 1..Len(log) : ledger[log[i].doc] # None

(* A document the backfill matched is merged, still in its cursor or in    *)
(* its batch, and the run ends when both are empty.                        *)
Covered ==
  /\ work["backfill"] # {} => backfill = "running"
  /\ backfill \in {"running", "finished"} =>
       \A d \in target : Hydrated(d) \/ d \in query \/ d \in work["backfill"]
  /\ backfill = "finished" => query = {}

GraphInv ==
  /\ TypeOK /\ Copies /\ EndsKnown /\ InLedger
  /\ committed <= position
  /\ GraphMatchesLedger /\ ConsumedIsHydrated /\ Covered

(* Results are only ever added.                                            *)
LedgerGrows == \A d \in Docs : ledger[d] # None => ledger'[d] = ledger[d]

NodesGrow == \A n \in Entities : nodes'[n] >= nodes[n]

LEMMA ListFacts ==
  ASSUME TypeOK, NEW d \in Docs, ledger[d] # None
  PROVE  /\ ledger[d] \in Seq(Relations)
         /\ DOMAIN ledger[d] = 1..Len(ledger[d]) /\ Len(ledger[d]) \in Nat
         /\ \A i \in DOMAIN ledger[d] : ledger[d][i] \in Relations
         /\ \A e \in EdgeIds : Sources(d, e) = UpTo(ledger[d], Len(ledger[d]), e)
<1>1. ledger[d] \in Lists
  BY DEF TypeOK
<1>2. ledger[d] \in Seq(Relations)
  BY <1>1, RelationsAssumption
<1>3. DOMAIN ledger[d] = 1..Len(ledger[d]) /\ Len(ledger[d]) \in Nat
  BY <1>2, LenProperties
<1>4. \A i \in DOMAIN ledger[d] : ledger[d][i] \in Relations
  BY <1>2, <1>3, ElementOfSeq
<1>5. ASSUME NEW e \in EdgeIds PROVE Sources(d, e) = UpTo(ledger[d], Len(ledger[d]), e)
  BY <1>3 DEF Sources, UpTo, Kept
<1> QED BY <1>2, <1>3, <1>4, <1>5

(* The ends of a source are nodes of the merge.                            *)
LEMMA SourceEnds ==
  ASSUME TypeOK, NEW docs, NEW d \in docs, d \in Docs, ledger[d] # None,
         NEW e \in EdgeIds, Sources(d, e) # {}
  PROVE  {e[1][1], e[1][2]} \subseteq NodesOf(docs)
<1>1. PICK i \in DOMAIN ledger[d] : Kept(ledger[d][i]) /\ EdgeId(ledger[d][i]) = e
  BY DEF Sources, Kept
<1> DEFINE r == ledger[d][i]
<1>2. r \in Relations
  BY ListFacts
<1>3. Ends[r] \in Entities \X Entities /\ e[1] = Ends[r]
  BY <1>1, <1>2, RelationsAssumption DEF EdgeId
<1>4. r \in KeptOf(d)
  BY <1>1 DEF KeptOf, ToSet
<1> QED BY <1>3, <1>4 DEF NodesOf

LEMMA EndsAreNodes ==
  ASSUME TypeOK, NEW d \in Docs, ledger[d] # None, NEW e \in EdgeIds, Sources(d, e) # {}
  PROVE  e[1][1] \in Entities /\ e[1][2] \in Entities
<1>1. {e[1][1], e[1][2]} \subseteq NodesOf({d})
  BY SourceEnds
<1> QED BY <1>1 DEF NodesOf

(* What is in the graph stays there when nodes are added and its edges are *)
(* left alone.                                                             *)
LEMMA HydratedStays ==
  ASSUME TypeOK, NEW d \in Docs, ledger[d] # None, ledger'[d] = ledger[d],
         edges'[d] = edges[d], nodes' \in [Entities -> Nat], NodesGrow, Hydrated(d)
  PROVE  Hydrated(d)'
<1>1. \A e \in EdgeIds : Sources(d, e)' = Sources(d, e)
  BY DEF Sources
<1> SUFFICES ASSUME NEW e \in EdgeIds, Sources(d, e) # {}, NEW n \in {e[1][1], e[1][2]}
             PROVE  nodes'[n] > 0
  BY <1>1 DEF Hydrated
<1>2. n \in Entities
  BY EndsAreNodes
<1>3. nodes[n] > 0 /\ nodes[n] \in Nat /\ nodes'[n] \in Nat /\ nodes'[n] >= nodes[n]
  BY <1>2 DEF Hydrated, TypeOK, NodesGrow
<1> QED BY <1>3

(* A merge puts a document into the graph, again or for the first time.    *)
LEMMA MergeHydrates ==
  ASSUME TypeOK, NEW d \in Docs, ledger[d] # None, ledger'[d] = ledger[d],
         edges[d] = NoEdges \/ Hydrated(d),
         edges'[d] = Merged(d), NEW docs, d \in docs, \A n \in NodesOf(docs) : nodes'[n] > 0
  PROVE  Hydrated(d)'
<1>1. MergesTo(edges[d], ledger[d], Len(ledger[d]), Merged(d))
  <2>1. edges[d] \in EdgeMaps
    BY DEF TypeOK, EdgeMaps
  <2> QED BY <2>1, ListFacts, MergedFacts
<1> SUFFICES ASSUME NEW e \in EdgeIds
             PROVE  IF Sources(d, e) = {} THEN edges'[d][e] = None
                    ELSE /\ \E first, last \in Sources(d, e) :
                              /\ \A i \in Sources(d, e) : first <= i /\ i <= last
                              /\ edges'[d][e] = [created |-> ledger[d][first],
                                                 confidence |-> ledger[d][last]]
                         /\ \A n \in {e[1][1], e[1][2]} : nodes'[n] > 0
  <2>1. \A e \in EdgeIds : Sources(d, e)' = Sources(d, e)
    BY DEF Sources
  <2> QED BY <2>1 DEF Hydrated
<1>2. Sources(d, e) = UpTo(ledger[d], Len(ledger[d]), e) /\ Sources(d, e) \subseteq Nat
  <2>1. Sources(d, e) \subseteq 1..Len(ledger[d])
    BY ListFacts DEF Sources
  <2> QED BY <2>1, ListFacts
<1>3. edges[d][e] = None \/ (Sources(d, e) # {} /\ Hydrated(d))
  BY DEF NoEdges, Hydrated
<1>4. CASE Sources(d, e) = {}
  <2>1. edges'[d][e] = edges[d][e]
    BY <1>1, <1>2, <1>4 DEF MergesTo, Extremes
  <2> QED BY <1>3, <1>4, <2>1
<1>5. CASE Sources(d, e) # {}
  <2>1. PICK first \in 1..Len(ledger[d]), last \in 1..Len(ledger[d]) :
          /\ Extremes(first, last, Sources(d, e))
          /\ edges'[d][e] = [created |-> IF edges[d][e] = None THEN ledger[d][first]
                                         ELSE edges[d][e].created,
                             confidence |-> ledger[d][last]]
    BY <1>1, <1>2, <1>5 DEF MergesTo
  <2>2. first \in Sources(d, e) /\ last \in Sources(d, e)
        /\ \A i \in Sources(d, e) : first <= i /\ i <= last
    BY <2>1 DEF Extremes
  <2>3. ASSUME edges[d][e] # None PROVE edges[d][e].created = ledger[d][first]
    <3>1. PICK f \in Sources(d, e), l \in Sources(d, e) :
            /\ \A i \in Sources(d, e) : f <= i /\ i <= l
            /\ edges[d][e] = [created |-> ledger[d][f], confidence |-> ledger[d][l]]
      BY <1>3, <1>5, <2>3 DEF Hydrated
    <3>2. f = first
      BY <1>2, <2>2, <3>1
    <3> QED BY <3>1, <3>2
  <2>4. edges'[d][e] = [created |-> ledger[d][first], confidence |-> ledger[d][last]]
    BY <2>1, <2>3
  <2>5. \A n \in {e[1][1], e[1][2]} : nodes'[n] > 0
    BY <1>5, SourceEnds
  <2> QED BY <1>5, <2>2, <2>4, <2>5
<1> QED BY <1>4, <1>5

(* A batch without a node to merge has nothing to put into the graph.      *)
LEMMA NothingToHydrate ==
  ASSUME TypeOK, NEW docs, NodesOf(docs) = {}, NEW d \in docs, d \in Docs, ledger[d] # None,
         edges[d] = NoEdges \/ Hydrated(d)
  PROVE  Hydrated(d)
<1>1. \A e \in EdgeIds : Sources(d, e) = {}
  BY SourceEnds
<1>2. CASE edges[d] = NoEdges
  BY <1>1, <1>2 DEF NoEdges, Hydrated
<1> QED BY <1>2

-------------------------------------------------------------------------------
(* What ends a transaction does to the graph.                              *)

LEMMA RollbackNodes ==
  ASSUME TypeOK, Copies, NEW p \in Processes, RollsBack, Forget(p)
  PROVE  /\ nodes' \in [Entities -> 0..2] /\ NodesGrow
         /\ Copies'
<1>1. nodes' = nodes /\ nodes \in [Entities -> 0..2]
  BY DEF RollsBack, TypeOK
<1>2. \A n \in Entities : nodes[n] >= nodes[n]
  BY <1>1
<1>3. \A q \in Processes : Open(q)' => Open(q) /\ missing'[q] = missing[q]
  BY DEF Forget, Open, TypeOK
<1> QED BY <1>1, <1>2, <1>3 DEF NodesGrow, Copies

LEMMA CommitNodes ==
  ASSUME TypeOK, Copies, EndsKnown, NEW p \in Processes, Open(p), Commits(p), Forget(p)
  PROVE  /\ nodes' \in [Entities -> 0..2] /\ NodesGrow
         /\ \A n \in NodesOf(work[p]) : nodes'[n] > 0
         /\ Copies'
<1>1. nodes \in [Entities -> 0..2]
  BY DEF TypeOK
<1>2. \A n \in Entities : nodes'[n] = IF n \in Created(p) THEN nodes[n] + 1 ELSE nodes[n]
  BY DEF Commits
<1>3. \A n \in Entities : n \in Created(p) => nodes[n] = 0 \/ (n \in missing[p] /\ nodes[n] <= 1)
  BY DEF Created, Copies
<1>4. \A n \in Entities : nodes'[n] \in 0..2 /\ nodes'[n] >= nodes[n]
  BY <1>1, <1>2, <1>3
<1>5. nodes' \in [Entities -> 0..2] /\ NodesGrow
  BY <1>4 DEF Commits, NodesGrow
<1>6. ASSUME NEW n \in NodesOf(work[p]) PROVE nodes'[n] > 0
  <2>1. n \in Entities /\ nodes[n] \in 0..2
    BY <1>1 DEF NodesOf
  <2>2. CASE nodes[n] > 0
    BY <1>4, <2>1, <2>2
  <2>3. CASE ~(nodes[n] > 0)
    <3>1. nodes[n] = 0 /\ n \in missing[p]
      BY <2>1, <2>3 DEF EndsKnown
    <3>2. n \in Created(p)
      BY <3>1 DEF Created
    <3> QED BY <1>2, <2>1, <3>1, <3>2
  <2> QED BY <2>2, <2>3
<1>7. \A q \in Processes : Open(q)' => q # p /\ Open(q) /\ missing'[q] = missing[q]
  BY DEF Forget, Open, TypeOK
<1>8. ASSUME NEW n \in Entities, NEW q \in Processes, NEW r \in Processes,
             Open(q)', n \in missing'[q]
      PROVE  nodes'[n] <= 1 /\ ~(r # q /\ Open(r)' /\ n \in missing'[r])
  <2>1. q # p /\ Open(q) /\ n \in missing[q] /\ nodes[n] <= 1
    BY <1>7, <1>8 DEF Copies
  <2>2. n \in missing[p] => nodes[n] = 0
    BY <2>1 DEF Copies
  <2>3. nodes'[n] <= 1
    BY <1>1, <1>2, <1>3, <2>1, <2>2
  <2>4. r = p \/ r = q
    BY <2>1 DEF Processes
  <2> QED BY <1>7, <2>3, <2>4
<1>9. Copies'
  BY <1>8 DEF Copies
<1> QED BY <1>5, <1>6, <1>9

LEMMA CommitEdges ==
  ASSUME TypeOK, InLedger, NEW p \in Processes, Commits(p)
  PROVE  /\ edges' \in [Docs -> EdgeMaps]
         /\ \A d \in Docs : edges'[d] = IF d \in work[p] THEN Merged(d) ELSE edges[d]
<1>1. \A d \in Docs : edges'[d] = IF d \in work[p] THEN Merged(d) ELSE edges[d]
  BY DEF Commits
<1>2. ASSUME NEW d \in Docs, d \in work[p] PROVE Merged(d) \in EdgeMaps
  <2>1. ledger[d] \in Seq(Relations)
    BY <1>2, ListFacts DEF InLedger
  <2>2. edges[d] \in EdgeMaps
    BY DEF TypeOK, EdgeMaps
  <2> QED BY <2>1, <2>2, MergedFacts DEF MergesTo
<1>3. \A d \in Docs : edges[d] \in EdgeMaps
  BY DEF TypeOK, EdgeMaps
<1>4. edges' \in [Docs -> EdgeMaps]
  BY <1>1, <1>2, <1>3 DEF Commits
<1> QED BY <1>1, <1>4

(* A step leaves the graph alone, or one transaction commits in it.        *)
Effect(p) == Open(p) /\ Commits(p) /\ Forget(p)

LEMMA GraphEffect ==
  ASSUME [Next]_vars
  PROVE  \/ UNCHANGED <<nodes, edges>>
         \/ UNCHANGED ledger /\ \E p \in Processes : Effect(p)
<1>1. CASE \E p \in Processes : Query(p)
  BY <1>1 DEF Query, Begin, Skip, Commit, Raise, RollsBack, Effect, graphVars, moduleTwo
<1>2. CASE Crash \/ BackfillCrash
  <2>1. "stream" \in Processes /\ "backfill" \in Processes
    BY DEF Processes
  <2> QED BY <1>2, <2>1 DEF Crash, BackfillCrash, RollsBack, Effect, moduleTwo
<1>3. CASE ModuleTwo \/ Start \/ Poll \/ AutoCommit \/ Rejoin \/ StartBackfill \/ NextBatch
           \/ FinishBackfill \/ UNCHANGED vars
  BY <1>3 DEF ModuleTwo, Start, Poll, AutoCommit, Rejoin, StartBackfill, NextBatch,
              FinishBackfill, graphVars, vars
<1> QED BY <1>1, <1>2, <1>3 DEF Next

LEMMA LedgerEffect ==
  ASSUME TypeOK, [Next]_vars
  PROVE  /\ LedgerGrows
         /\ ledger' \in [Docs -> Lists \cup {None}]
         /\ log' \in Seq([doc : Docs, result : Lists])
         /\ Len(log') \in Nat /\ Len(log') >= Len(log)
         /\ \A i \in 1..Len(log) : log'[i] = log[i]
         /\ \A i \in 1..Len(log') : i \in 1..Len(log) \/ ledger[log'[i].doc] # None
<1>1. log \in Seq([doc : Docs, result : Lists]) /\ Len(log) \in Nat
      /\ ledger \in [Docs -> Lists \cup {None}]
  BY LenProperties DEF TypeOK
<1>2. CASE UNCHANGED moduleTwo
  <2>1. ledger' = ledger /\ log' = log
    BY <1>2 DEF moduleTwo
  <2> QED BY <1>1, <2>1 DEF LedgerGrows
<1>3. CASE ModuleTwo
  <2>1. PICK d \in Docs : Ledger!Announce(d) \/ \E r \in Lists : Ledger!Stage(d, r)
    BY <1>3 DEF ModuleTwo, Ledger!LedgerNext
  <2>2. CASE Ledger!Announce(d)
    <3>1. /\ ledger[d] # None /\ ledger' = ledger
          /\ log' = Append(log, [doc |-> d, result |-> ledger[d]])
      BY <2>2 DEF Ledger!Announce
    <3>2. [doc |-> d, result |-> ledger[d]] \in [doc : Docs, result : Lists]
      BY <1>1, <3>1
    <3>3. /\ log' \in Seq([doc : Docs, result : Lists])
          /\ Len(log') = Len(log) + 1
          /\ \A i \in 1..Len(log) : log'[i] = log[i]
          /\ log'[Len(log) + 1] = [doc |-> d, result |-> ledger[d]]
      BY <1>1, <3>1, <3>2, AppendProperties
    <3>4. \A i \in 1..Len(log') : i \in 1..Len(log) \/ i = Len(log) + 1
      BY <1>1, <3>3
    <3>5. Len(log') \in Nat /\ Len(log') >= Len(log)
      BY <1>1, <3>3
    <3> QED BY <1>1, <3>1, <3>3, <3>4, <3>5 DEF LedgerGrows
  <2>3. ASSUME NEW r \in Lists, Ledger!Stage(d, r)
        PROVE  LedgerGrows /\ ledger' \in [Docs -> Lists \cup {None}] /\ log' = log
    BY <1>1, <2>3 DEF Ledger!Stage, LedgerGrows
  <2> QED BY <1>1, <2>1, <2>2, <2>3
<1> QED
  BY <1>2, <1>3
  DEF Next, Query, Begin, Skip, Commit, Raise, Start, Poll, AutoCommit, Rejoin, Crash,
      StartBackfill, NextBatch, FinishBackfill, BackfillCrash, vars

-------------------------------------------------------------------------------
(* The documents in the graph: GraphMatchesLedger, and what a step keeps.  *)

LEMMA NodesEffect ==
  ASSUME GraphInv, [Next]_vars
  PROVE  nodes' \in [Entities -> 0..2] /\ nodes' \in [Entities -> Nat] /\ NodesGrow
<1>1. TypeOK /\ Copies /\ EndsKnown /\ nodes \in [Entities -> 0..2]
  BY DEF GraphInv, TypeOK
<1>2. CASE UNCHANGED nodes
  <2>1. \A n \in Entities : nodes[n] >= nodes[n]
    BY <1>1
  <2> QED BY <1>1, <1>2, <2>1 DEF NodesGrow
<1>3. ASSUME NEW p \in Processes, Effect(p)
      PROVE  nodes' \in [Entities -> 0..2] /\ NodesGrow
  BY <1>1, <1>3, CommitNodes DEF Effect
<1>4. nodes' \in [Entities -> 0..2] /\ NodesGrow
  BY <1>2, <1>3, GraphEffect
<1>5. 0..2 \subseteq Nat
  OBVIOUS
<1> QED BY <1>4, <1>5

(* A transaction that commits has put its batch into the graph.            *)
LEMMA EffectHydrates ==
  ASSUME GraphInv, NEW p \in Processes, Effect(p), UNCHANGED ledger
  PROVE  /\ \A d \in work[p] : d \in Docs /\ Hydrated(d)'
         /\ edges' \in [Docs -> EdgeMaps]
         /\ \A d \in Docs \ work[p] : edges'[d] = edges[d]
<1>1. TypeOK /\ Copies /\ EndsKnown /\ InLedger /\ GraphMatchesLedger
  BY DEF GraphInv
<1>2. \A n \in NodesOf(work[p]) : nodes'[n] > 0
  BY <1>1, CommitNodes DEF Effect
<1>3. /\ edges' \in [Docs -> EdgeMaps]
      /\ \A d \in Docs : edges'[d] = IF d \in work[p] THEN Merged(d) ELSE edges[d]
  BY <1>1, CommitEdges DEF Effect
<1>4. ASSUME NEW d \in work[p] PROVE d \in Docs /\ Hydrated(d)'
  <2>1. d \in Docs /\ ledger[d] # None /\ ledger'[d] = ledger[d]
    BY <1>1 DEF TypeOK, InLedger
  <2>2. (edges[d] = NoEdges \/ Hydrated(d)) /\ edges'[d] = Merged(d)
    BY <1>1, <1>3, <2>1 DEF GraphMatchesLedger
  <2> QED BY <1>1, <1>2, <2>1, <2>2, MergeHydrates
<1> QED BY <1>3, <1>4

LEMMA HydratedKept ==
  ASSUME GraphInv, [Next]_vars, NEW d \in Docs, ledger[d] # None, Hydrated(d)
  PROVE  Hydrated(d)'
<1>1. TypeOK /\ ledger'[d] = ledger[d] /\ nodes' \in [Entities -> Nat] /\ NodesGrow
  BY LedgerEffect, NodesEffect DEF GraphInv, LedgerGrows
<1>2. CASE edges'[d] = edges[d]
  BY <1>1, <1>2, HydratedStays
<1>3. CASE edges'[d] # edges[d]
  <2>1. PICK p \in Processes : Effect(p) /\ UNCHANGED ledger
    BY <1>3, GraphEffect
  <2>2. d \in work[p]
    BY <1>3, <2>1, EffectHydrates
  <2> QED BY <2>1, <2>2, EffectHydrates
<1> QED BY <1>2, <1>3

LEMMA MatchesStep ==
  ASSUME GraphInv, [Next]_vars
  PROVE  GraphMatchesLedger' /\ edges' \in [Docs -> EdgeMaps]
<1>1. TypeOK /\ InLedger /\ GraphMatchesLedger /\ edges \in [Docs -> EdgeMaps]
  BY DEF GraphInv, TypeOK, EdgeMaps
<1>2. edges' \in [Docs -> EdgeMaps]
  BY <1>1, GraphEffect, EffectHydrates
<1>3. ASSUME NEW d \in Docs
      PROVE  edges'[d] = NoEdges \/ (ledger'[d] # None /\ Hydrated(d)')
  <2>1. CASE edges'[d] = edges[d]
    <3>1. CASE edges[d] = NoEdges
      BY <2>1, <3>1
    <3>2. CASE ledger[d] # None /\ Hydrated(d)
      BY <1>1, <3>2, HydratedKept, LedgerEffect DEF LedgerGrows
    <3> QED BY <1>1, <3>1, <3>2 DEF GraphMatchesLedger
  <2>2. CASE edges'[d] # edges[d]
    <3>1. PICK p \in Processes : Effect(p) /\ UNCHANGED ledger
      BY <2>2, GraphEffect
    <3>2. d \in work[p] /\ Hydrated(d)'
      BY <2>2, <3>1, EffectHydrates
    <3> QED BY <1>1, <3>1, <3>2 DEF InLedger
  <2> QED BY <2>1, <2>2
<1>4. GraphMatchesLedger'
  BY <1>3 DEF GraphMatchesLedger, NoEdges
<1> QED BY <1>2, <1>4

(* A batch that was skipped or whose query has succeeded is in the graph.  *)
LEMMA DoneIsHydrated ==
  ASSUME GraphInv, NEW p \in Processes, Skip(p) \/ Commit(p), NEW d \in work[p]
  PROVE  Hydrated(d)'
<1>1. TypeOK /\ d \in Docs /\ ledger[d] # None /\ (edges[d] = NoEdges \/ Hydrated(d))
  BY DEF GraphInv, TypeOK, InLedger, GraphMatchesLedger
<1>2. CASE Skip(p)
  <2>1. Hydrated(d)
    BY <1>1, <1>2, NothingToHydrate DEF Skip, NothingToMerge
  <2>2. UNCHANGED <<ledger, nodes, edges>>
    BY <1>2 DEF Skip, moduleTwo, graphVars
  <2> QED BY <2>1, <2>2 DEF Hydrated, Sources
<1>3. CASE Commit(p)
  <2>1. Effect(p) /\ UNCHANGED ledger
    BY <1>3 DEF Commit, Effect, moduleTwo
  <2> QED BY <2>1, EffectHydrates
<1> QED BY <1>2, <1>3

-------------------------------------------------------------------------------
(* The transactions: Copies and EndsKnown.                                 *)

LEMMA CopiesStep ==
  ASSUME GraphInv, [Next]_vars
  PROVE  Copies'
<1>1. TypeOK /\ Copies /\ EndsKnown
  BY DEF GraphInv
<1>2. ASSUME NEW p \in Processes, Forget(p), (Open(p) /\ Commits(p)) \/ RollsBack
      PROVE  Copies'
  BY <1>1, <1>2, CommitNodes, RollbackNodes
<1>3. ASSUME NEW p \in Processes, Query(p) PROVE Copies'
  <2>1. CASE Begin(p)
    <3>1. /\ nodes' = nodes
          /\ missing' = [missing EXCEPT ![p] = {n \in NodesOf(work[p]) : nodes[n] = 0}]
      BY <2>1 DEF Begin, graphVars
    <3>2. \A q \in Processes \ {p} : missing'[q] = missing[q]
      BY <3>1
    <3>3. \A n \in missing'[p] : nodes[n] = 0
      BY <1>1, <3>1 DEF TypeOK
    <3>4. ASSUME NEW n \in Entities, NEW q \in Processes, NEW r \in Processes,
                 Open(q)', n \in missing'[q]
          PROVE  /\ nodes'[n] <= 1
                 /\ r # q /\ Open(r)' /\ n \in missing'[r] => nodes'[n] = 0
      <4>1. CASE q = p
        BY <3>1, <3>3, <3>4, <4>1
      <4>2. CASE q # p
        <5>1. Open(q) /\ n \in missing[q] /\ nodes[n] <= 1
          BY <1>1, <3>2, <3>4, <4>2 DEF Open, Copies
        <5>2. CASE r = p
          BY <3>1, <3>3, <5>1, <5>2
        <5>3. CASE r # p
          BY <1>1, <3>1, <3>2, <5>1, <5>3 DEF Open, Copies
        <5> QED BY <5>2, <5>3
      <4> QED BY <4>1, <4>2
    <3> QED BY <3>4 DEF Copies
  <2>2. CASE Skip(p)
    BY <1>2, <2>2 DEF Skip, RollsBack, graphVars
  <2>3. CASE Commit(p)
    BY <1>2, <2>3 DEF Commit
  <2>4. CASE Raise(p)
    BY <1>2, <2>4 DEF Raise
  <2> QED BY <1>3, <2>1, <2>2, <2>3, <2>4 DEF Query
<1>4. CASE Crash \/ BackfillCrash
  <2>1. "stream" \in Processes /\ "backfill" \in Processes
    BY DEF Processes
  <2> QED BY <1>2, <1>4, <2>1 DEF Crash, BackfillCrash
<1>5. CASE UNCHANGED <<nodes, missing>>
  BY <1>1, <1>5 DEF Copies, Open
<1> QED
  BY <1>3, <1>4, <1>5
  DEF Next, ModuleTwo, Start, Poll, AutoCommit, Rejoin, StartBackfill, NextBatch,
      FinishBackfill, graphVars, batchVars, vars

(* A transaction's batch is that of its process, and its results are final.*)
LEMMA SameNodes ==
  ASSUME GraphInv, LedgerGrows, NEW p \in Processes, work'[p] = work[p]
  PROVE  NodesOf(work[p])' = NodesOf(work[p])
<1>1. \A d \in work[p] : ledger'[d] = ledger[d]
  BY DEF GraphInv, TypeOK, InLedger, LedgerGrows
<1>2. \A d \in work[p] : KeptOf(d)' = KeptOf(d)
  BY <1>1 DEF KeptOf
<1> QED BY <1>2 DEF NodesOf

LEMMA EndsKnownStep ==
  ASSUME GraphInv, [Next]_vars
  PROVE  EndsKnown'
<1>1. TypeOK /\ EndsKnown /\ LedgerGrows /\ NodesGrow
      /\ nodes \in [Entities -> Nat] /\ nodes' \in [Entities -> Nat]
  <2>1. nodes \in [Entities -> 0..2] /\ 0..2 \subseteq Nat
    BY DEF GraphInv, TypeOK
  <2> QED BY <2>1, LedgerEffect, NodesEffect DEF GraphInv
<1>2. ASSUME NEW p \in Processes, Open(p)'
      PROVE  /\ work'[p] = work[p]
             /\ \/ Open(p) /\ missing'[p] = missing[p]
                \/ nodes' = nodes /\ missing'[p] = {n \in NodesOf(work[p]) : nodes[n] = 0}
  <2>1. missing \in [Processes -> (SUBSET Entities) \cup {None}] /\ work \in [Processes -> SUBSET Docs]
        /\ \A q \in Processes : Open(q) => work[q] # {}
    BY <1>1 DEF TypeOK, Open
  <2>2. ASSUME NEW q \in Processes, Forget(q)
        PROVE  q # p /\ Open(p) /\ work'[p] = work[p] /\ missing'[p] = missing[p]
    BY <1>2, <2>1, <2>2 DEF Forget, Open
  <2>3. CASE \E q \in Processes : Skip(q) \/ Commit(q) \/ Raise(q) \/ Forget(q)
    BY <2>2, <2>3 DEF Skip, Commit, Raise
  <2>4. CASE Crash \/ BackfillCrash
    <3>1. "stream" \in Processes /\ "backfill" \in Processes
      BY DEF Processes
    <3> QED BY <2>3, <2>4, <3>1 DEF Crash, BackfillCrash
  <2>5. ASSUME NEW q \in Processes, Begin(q)
        PROVE  /\ work'[p] = work[p]
               /\ \/ Open(p) /\ missing'[p] = missing[p]
                  \/ nodes' = nodes /\ missing'[p] = {n \in NodesOf(work[p]) : nodes[n] = 0}
    <3>1. /\ nodes' = nodes /\ work' = work
          /\ missing' = [missing EXCEPT ![q] = {n \in NodesOf(work[q]) : nodes[n] = 0}]
      BY <2>5 DEF Begin, graphVars
    <3>2. CASE p = q
      BY <2>1, <3>1, <3>2
    <3>3. CASE p # q
      BY <1>2, <2>1, <3>1, <3>3 DEF Open
    <3> QED BY <3>2, <3>3
  <2>6. CASE Poll \/ NextBatch
    <3>1. /\ missing' = missing /\ Open(p)
          /\ \/ work["stream"] = {} /\ \E b : work' = [work EXCEPT !["stream"] = b]
             \/ work["backfill"] = {} /\ \E b : work' = [work EXCEPT !["backfill"] = b]
      BY <1>2, <2>6 DEF Poll, NextBatch, Open
    <3> QED BY <2>1, <3>1
  <2>7. CASE UNCHANGED batchVars
    BY <1>2, <2>7 DEF batchVars, Open
  <2> QED
    BY <2>3, <2>4, <2>5, <2>6, <2>7
    DEF Next, Query, ModuleTwo, Start, AutoCommit, Rejoin, StartBackfill, FinishBackfill, vars
<1>3. ASSUME NEW p \in Processes, Open(p)', NEW n \in NodesOf(work[p])'
      PROVE  nodes'[n] > 0 \/ n \in missing'[p]
  <2>1. n \in NodesOf(work[p]) /\ n \in Entities
    BY <1>1, <1>2, <1>3, SameNodes DEF NodesOf
  <2>2. nodes[n] \in Nat /\ nodes'[n] \in Nat /\ nodes'[n] >= nodes[n]
    BY <1>1, <2>1 DEF NodesGrow
  <2>3. CASE Open(p) /\ missing'[p] = missing[p]
    <3>1. nodes[n] > 0 \/ n \in missing[p]
      BY <1>1, <2>1, <2>3 DEF EndsKnown
    <3> QED BY <2>2, <2>3, <3>1
  <2>4. CASE nodes' = nodes /\ missing'[p] = {m \in NodesOf(work[p]) : nodes[m] = 0}
    BY <2>1, <2>2, <2>4
  <2> QED BY <1>2, <1>3, <2>3, <2>4
<1> QED BY <1>3 DEF EndsKnown

-------------------------------------------------------------------------------
(* Type correctness, one group of variables at a time.                     *)

LEMMA FaultsType ==
  ASSUME TypeOK, [Next]_vars
  PROVE  faults' \in 0..MaxFaults /\ constraint' \in BOOLEAN
<1>1. faults \in 0..MaxFaults /\ constraint \in BOOLEAN /\ MaxFaults \in Nat
  BY BoundsAssumption DEF TypeOK
<1>2. faults' = faults \/ Fault(1)
  BY DEF Next, ModuleTwo, Query, Begin, Skip, Commit, Raise, Start, EnsureConstraints, Poll,
         AutoCommit, Rejoin, Crash, StartBackfill, NextBatch, FinishBackfill, BackfillCrash, vars
<1>3. faults' \in 0..MaxFaults
  BY <1>1, <1>2 DEF Fault
<1>4. \/ constraint' = constraint
      \/ constraint' = (constraint \/ \A n \in Entities : nodes[n] <= 1)
  BY DEF Next, ModuleTwo, Query, Begin, Skip, Commit, Raise, Start, EnsureConstraints, Poll,
         AutoCommit, Rejoin, Crash, StartBackfill, NextBatch, FinishBackfill, BackfillCrash,
         graphVars, vars
<1>5. constraint' \in BOOLEAN
  BY <1>1, <1>4
<1> QED BY <1>3, <1>5

LEMMA StreamType ==
  ASSUME TypeOK, committed <= position, [Next]_vars
  PROVE  /\ up' \in BOOLEAN
         /\ position' \in 0..Len(log') /\ committed' \in 0..Len(log') /\ committed' <= position'
<1>1. /\ up \in BOOLEAN /\ Len(log) \in Nat
      /\ position \in 0..Len(log) /\ committed \in 0..Len(log)
  BY LenProperties DEF TypeOK
<1>2. Len(log') \in Nat /\ Len(log') >= Len(log)
  BY LedgerEffect
<1>3. /\ up' \in BOOLEAN
      /\ \/ committed' = committed /\ position' \in {position, committed}
         \/ committed' = committed /\ position < Len(log) /\ position' = position + 1
         \/ committed' = position /\ position' = position
  BY <1>1
  DEF Next, ModuleTwo, Query, Begin, Skip, Commit, Raise, Start, Poll, AutoCommit, Rejoin, Crash,
      StartBackfill, NextBatch, FinishBackfill, BackfillCrash, ResumeOffset, streamVars, vars
<1> QED BY <1>1, <1>2, <1>3

LEMMA BatchType ==
  ASSUME GraphInv, [Next]_vars
  PROVE  /\ work' \in [Processes -> SUBSET Docs]
         /\ missing' \in [Processes -> (SUBSET Entities) \cup {None}]
         /\ \A p \in Processes : missing'[p] # None => work'[p] # {}
<1>1. /\ work \in [Processes -> SUBSET Docs] /\ target \subseteq Docs /\ query \subseteq target
      /\ missing \in [Processes -> (SUBSET Entities) \cup {None}]
      /\ \A p \in Processes : missing[p] # None => work[p] # {}
      /\ log \in Seq([doc : Docs, result : Lists])
  BY DEF GraphInv, TypeOK
<1>2. "stream" \in Processes /\ "backfill" \in Processes
  BY DEF Processes
<1>3. CASE UNCHANGED batchVars
  BY <1>1, <1>3 DEF batchVars
<1>4. CASE \E p \in Processes : Forget(p)
  BY <1>1, <1>4 DEF Forget
<1>5. CASE \E p \in Processes : Begin(p)
  BY <1>1, <1>5 DEF Begin, NodesOf
<1>6. CASE Poll
  <2>1. log[position + 1].doc \in Docs
    <3>1. position + 1 \in 1..Len(log)
      BY <1>6, LenProperties DEF Poll, GraphInv, TypeOK
    <3>2. log[position + 1] \in [doc : Docs, result : Lists]
      BY <1>1, <3>1, ElementOfSeq
    <3> QED BY <3>2
  <2>2. missing' = missing /\ work' = [work EXCEPT !["stream"] = {log[position + 1].doc}]
    BY <1>6 DEF Poll
  <2> QED BY <1>1, <2>1, <2>2
<1>7. CASE NextBatch
  <2>1. PICK b \in Batches : work' = [work EXCEPT !["backfill"] = b]
    BY <1>7 DEF NextBatch
  <2>2. b \subseteq Docs /\ missing' = missing /\ work["backfill"] = {}
    BY <1>1, <1>7 DEF NextBatch, Batches
  <2> QED BY <1>1, <1>2, <2>1, <2>2
<1> QED
  BY <1>2, <1>3, <1>4, <1>5, <1>6, <1>7
  DEF Next, ModuleTwo, Query, Skip, Commit, Raise, Start, AutoCommit, Rejoin, Crash,
      StartBackfill, FinishBackfill, BackfillCrash, vars

LEMMA BackfillType ==
  ASSUME GraphInv, [Next]_vars
  PROVE  /\ backfill' \in {"off", "running", "finished", "raised"}
         /\ query' \subseteq target' /\ target' \subseteq Docs
         /\ dropped' \subseteq Docs
<1>1. /\ backfill \in {"off", "running", "finished", "raised"}
      /\ query \subseteq target /\ target \subseteq Docs
      /\ dropped \subseteq Docs /\ work \in [Processes -> SUBSET Docs]
  BY DEF GraphInv, TypeOK
<1>2. "stream" \in Processes
  BY DEF Processes
<1>3. dropped' \subseteq Docs
  <2>1. dropped' = dropped \/ dropped' = dropped \cup work["stream"]
    BY DEF Next, ModuleTwo, Query, Begin, Skip, Commit, Raise, Start, Poll, AutoCommit, Rejoin,
           Crash, StartBackfill, NextBatch, FinishBackfill, BackfillCrash, streamVars, vars
  <2> QED BY <1>1, <1>2, <2>1
<1>4. backfill' \in {backfill, "off", "running", "finished", "raised"}
  BY DEF Next, ModuleTwo, Query, Begin, Skip, Commit, Raise, Start, Poll, AutoCommit, Rejoin,
         Crash, StartBackfill, NextBatch, FinishBackfill, BackfillCrash, backfillVars, vars
<1>5. \/ target' = target /\ query' \subseteq query
      \/ target' = {d \in Docs : ledger[d] # None} /\ query' = target'
  BY DEF Next, ModuleTwo, Query, Begin, Skip, Commit, Raise, Start, Poll, AutoCommit, Rejoin,
         Crash, StartBackfill, NextBatch, FinishBackfill, BackfillCrash, backfillVars, vars
<1> QED BY <1>1, <1>3, <1>4, <1>5

LEMMA TypeStep ==
  ASSUME GraphInv, [Next]_vars
  PROVE  TypeOK' /\ committed' <= position'
<1>1. TypeOK /\ committed <= position
  BY DEF GraphInv
<1>2. edges' \in [Docs -> [EdgeIds -> Attributes \cup {None}]]
  BY MatchesStep DEF EdgeMaps
<1>3. ledger' \in [Docs -> Lists \cup {None}] /\ log' \in Seq([doc : Docs, result : Lists])
  BY <1>1, LedgerEffect
<1> QED
  BY <1>1, <1>2, <1>3, NodesEffect, FaultsType, StreamType, BatchType, BackfillType DEF TypeOK

-------------------------------------------------------------------------------
(* The batches: where they come from, and that one that ends is merged or  *)
(* its loss is known.                                                      *)

LEMMA BatchStep ==
  ASSUME TypeOK, [Next]_vars
  PROVE  /\ \/ work'["stream"] = work["stream"]
            \/ Poll
            \/ /\ work'["stream"] = {}
               /\ Skip("stream") \/ Commit("stream") \/ dropped' = dropped \cup work["stream"]
         /\ \/ work'["backfill"] = work["backfill"]
            \/ NextBatch
            \/ /\ work'["backfill"] = {}
               /\ Skip("backfill") \/ Commit("backfill") \/ backfill' \in {"off", "raised"}
<1>1. work \in [Processes -> SUBSET Docs] /\ "stream" # "backfill"
      /\ Processes = {"stream", "backfill"}
  BY DEF TypeOK, Processes
<1>2. \A p \in Processes : Forget(p) => /\ work'[p] = {}
                                        /\ \A q \in Processes \ {p} : work'[q] = work[q]
  BY <1>1 DEF Forget
<1>3. CASE UNCHANGED work
  BY <1>3
<1>4. ASSUME NEW p \in Processes, Query(p)
      PROVE  \/ UNCHANGED work
             \/ /\ Forget(p)
                /\ \/ Skip(p) \/ Commit(p)
                   \/ p = "stream" /\ dropped' = dropped \cup work["stream"]
                   \/ p = "backfill" /\ backfill' = "raised"
  BY <1>1, <1>4 DEF Query, Begin, Skip, Commit, Raise
<1>5. CASE \E p \in Processes : Query(p)
  BY <1>1, <1>2, <1>4, <1>5
<1>6. CASE Crash
  BY <1>1, <1>2, <1>6 DEF Crash
<1>7. CASE BackfillCrash
  BY <1>1, <1>2, <1>7 DEF BackfillCrash
<1>8. CASE Poll
  BY <1>1, <1>8 DEF Poll
<1>9. CASE NextBatch
  BY <1>1, <1>9 DEF NextBatch
<1> QED
  BY <1>3, <1>5, <1>6, <1>7, <1>8, <1>9
  DEF Next, ModuleTwo, Start, AutoCommit, Rejoin, StartBackfill, FinishBackfill, batchVars, vars

(* A message that is announced is about a document that has a result.      *)
LEMMA Announced ==
  ASSUME GraphInv, NEW i \in 1..Len(log)
  PROVE  log[i].doc \in Docs /\ ledger[log[i].doc] # None
<1>1. log[i] \in [doc : Docs, result : Lists]
  BY ElementOfSeq DEF GraphInv, TypeOK
<1> QED BY <1>1 DEF GraphInv, InLedger

LEMMA InLedgerStep ==
  ASSUME GraphInv, [Next]_vars
  PROVE  InLedger'
<1>1. TypeOK /\ InLedger /\ target \subseteq Docs /\ query \subseteq target
      /\ work \in [Processes -> SUBSET Docs] /\ position \in 0..Len(log) /\ Len(log) \in Nat
  BY LenProperties DEF GraphInv, TypeOK
<1>2. LedgerGrows
  BY <1>1, LedgerEffect
<1>3. ASSUME NEW d \in Docs, ledger[d] # None PROVE ledger'[d] # None
  BY <1>2, <1>3 DEF LedgerGrows
<1>4. ASSUME NEW p \in Processes, NEW d \in work'[p] PROVE ledger'[d] # None
  <2>1. CASE d \in work[p]
    BY <1>1, <1>3, <2>1 DEF InLedger
  <2>2. CASE Poll
    <3>1. position + 1 \in 1..Len(log)
      BY <1>1, <2>2 DEF Poll
    <3>2. d \in work[p] \/ d = log[position + 1].doc
      BY <1>1, <2>2 DEF Poll, Processes
    <3> QED BY <1>3, <2>1, <3>1, <3>2, Announced
  <2>3. CASE NextBatch
    <3>1. d \in work[p] \/ d \in query
      BY <1>1, <2>3 DEF NextBatch, Batches, Processes
    <3> QED BY <1>1, <1>3, <2>1, <3>1 DEF InLedger
  <2> QED BY <1>1, <2>1, <2>2, <2>3, BatchStep DEF Processes
<1>5. ASSUME NEW d \in target' PROVE ledger'[d] # None
  <2>1. target' = target \/ target' = {c \in Docs : ledger[c] # None}
    BY DEF Next, ModuleTwo, Query, Begin, Skip, Commit, Raise, Start, Poll, AutoCommit, Rejoin,
           Crash, StartBackfill, NextBatch, FinishBackfill, BackfillCrash, backfillVars, vars
  <2> QED BY <1>1, <1>3, <1>5, <2>1 DEF InLedger
<1>6. ASSUME NEW i \in 1..Len(log') PROVE ledger'[log'[i].doc] # None
  <2>1. log'[i].doc \in Docs
    <3>1. log' \in Seq([doc : Docs, result : Lists])
      BY <1>1, LedgerEffect
    <3>2. log'[i] \in [doc : Docs, result : Lists]
      BY <3>1, ElementOfSeq
    <3> QED BY <3>2
  <2>2. ledger[log'[i].doc] # None
    BY <1>1, LedgerEffect, Announced
  <2> QED BY <1>3, <2>1, <2>2
<1> QED BY <1>4, <1>5, <1>6 DEF InLedger

-------------------------------------------------------------------------------
(* ConsumedIsHydrated and Covered.                                         *)

LEMMA ConsumedStep ==
  ASSUME GraphInv, [Next]_vars
  PROVE  ConsumedIsHydrated'
<1>1. TypeOK /\ ConsumedIsHydrated /\ committed <= position /\ Len(log) \in Nat
      /\ position \in 0..Len(log) /\ committed \in 0..Len(log)
  BY LenProperties DEF GraphInv, TypeOK
<1>2. dropped \subseteq dropped'
  BY DEF Next, ModuleTwo, Query, Begin, Skip, Commit, Raise, Start, Poll, AutoCommit, Rejoin,
         Crash, StartBackfill, NextBatch, FinishBackfill, BackfillCrash, streamVars, vars
<1>3. ASSUME NEW i \in 1..position, NEW d, d = log[i].doc
      PROVE  /\ log'[i].doc = d
             /\ Hydrated(d)' \/ d \in work'["stream"] \/ d \in dropped'
  <2>1. i \in 1..Len(log) /\ log'[i] = log[i]
    BY <1>1, LedgerEffect
  <2>2. d \in Docs /\ ledger[d] # None
    BY <1>3, <2>1, Announced
  <2>3. CASE Hydrated(d)
    BY <1>3, <2>1, <2>2, <2>3, HydratedKept
  <2>4. CASE d \in work["stream"]
    <3>1. ASSUME Skip("stream") \/ Commit("stream") PROVE Hydrated(d)'
      <4>1. "stream" \in Processes
        BY DEF Processes
      <4> QED BY <2>4, <3>1, <4>1, DoneIsHydrated
    <3>2. ~Poll
      BY <2>4 DEF Poll
    <3>3. Hydrated(d)' \/ d \in work'["stream"] \/ d \in dropped'
      BY <1>1, <2>4, <3>1, <3>2, BatchStep
    <3> QED BY <1>3, <2>1, <3>3
  <2>5. Hydrated(d) \/ d \in work["stream"] \/ d \in dropped
    BY <1>1, <1>3 DEF ConsumedIsHydrated
  <2> QED BY <1>2, <1>3, <2>1, <2>3, <2>4, <2>5
<1>4. \/ position' \in {position, committed}
      \/ Poll /\ position' = position + 1
  BY DEF Next, ModuleTwo, Query, Begin, Skip, Commit, Raise, Start, Poll, AutoCommit, Rejoin,
         Crash, StartBackfill, NextBatch, FinishBackfill, BackfillCrash, ResumeOffset,
         streamVars, vars
<1>5. ASSUME NEW i \in 1..position', i \notin 1..position
      PROVE  log'[i].doc \in work'["stream"]
  <2>1. Poll /\ i = position + 1
    BY <1>1, <1>4, <1>5
  <2>2. log' = log /\ work'["stream"] = {log[position + 1].doc}
    BY <1>1, <2>1 DEF Poll, moduleTwo, TypeOK, Processes
  <2> QED BY <2>1, <2>2
<1>6. ASSUME NEW i \in 1..position', NEW d, d = log'[i].doc
      PROVE  Hydrated(d)' \/ d \in work'["stream"] \/ d \in dropped'
  BY <1>3, <1>5, <1>6
<1> QED BY <1>6 DEF ConsumedIsHydrated

(* The cursor of a run that finishes is exhausted: as long as it is not,   *)
(* there is a batch that is not empty.                                     *)
LEMMA FinishedCursor ==
  ASSUME TypeOK, FinishBackfill
  PROVE  query = {}
<1> SUFFICES ASSUME query # {} PROVE FALSE
  OBVIOUS
<1> DEFINE n == IF Cardinality(query) < BatchSize THEN Cardinality(query) ELSE BatchSize
<1>1. IsFiniteSet(query) /\ Cardinality(query) \in Nat /\ Cardinality(query) # 0
  <2>1. IsFiniteSet(query)
    BY DocsAssumption, FS_Subset DEF TypeOK
  <2> QED BY <2>1, FS_CardinalityType, FS_EmptySet
<1>2. n \in Nat /\ n # 0 /\ n <= Cardinality(query)
  BY <1>1, BoundsAssumption
<1>3. PICK b \in SUBSET query : Cardinality(b) = n
  BY <1>1, <1>2, SubsetOfSize
<1>4. b = {}
  BY <1>3 DEF FinishBackfill, Batches
<1> QED BY <1>2, <1>3, <1>4, FS_EmptySet

LEMMA CoveredStep ==
  ASSUME GraphInv, [Next]_vars
  PROVE  Covered'
<1>1. TypeOK /\ InLedger /\ Covered /\ target \subseteq Docs
      /\ work \in [Processes -> SUBSET Docs]
      /\ \A p \in Processes : Open(p) => work[p] # {}
  BY DEF GraphInv, TypeOK, Open
<1>2. CASE StartBackfill
  <2>1. /\ backfill' = "running" /\ query' = target'
    BY <1>2 DEF StartBackfill
  <2> QED BY <2>1 DEF Covered
<1>3. CASE ~StartBackfill
  <2>1. /\ target' = target
        /\ backfill' = backfill \/ backfill' \in {"off", "raised"} \/ FinishBackfill
        /\ query' = query \/ NextBatch
    BY <1>3
    DEF Next, ModuleTwo, Query, Begin, Skip, Commit, Raise, Start, Poll, AutoCommit, Rejoin,
        Crash, NextBatch, FinishBackfill, BackfillCrash, backfillVars, vars
  <2>2. ASSUME work'["backfill"] # {} PROVE backfill' = "running"
    <3>1. CASE NextBatch
      BY <3>1 DEF NextBatch
    <3>2. CASE ~NextBatch
      <4>1. work'["backfill"] = work["backfill"]
        BY <1>1, <2>2, <3>2, BatchStep
      <4>2. backfill = "running" /\ ~FinishBackfill
        BY <1>1, <2>2, <4>1 DEF Covered, FinishBackfill
      <4>3. ~Raise("backfill") /\ ~BackfillCrash
        BY <1>1, <2>2 DEF Raise, BackfillCrash, Forget, Processes
      <4>4. backfill' = backfill
        BY <1>3, <4>2, <4>3
        DEF Next, ModuleTwo, Query, Begin, Skip, Commit, Raise, Start, Poll, AutoCommit, Rejoin,
            Crash, NextBatch, backfillVars, vars, Processes
      <4> QED BY <4>2, <4>4
    <3> QED BY <3>1, <3>2
  <2>3. ASSUME backfill' \in {"running", "finished"}, NEW d \in target'
        PROVE  Hydrated(d)' \/ d \in query' \/ d \in work'["backfill"]
    <3>1. backfill \in {"running", "finished"} /\ d \in target
      BY <2>1, <2>3 DEF FinishBackfill
    <3>2. d \in Docs /\ ledger[d] # None
      BY <1>1, <3>1 DEF InLedger
    <3>3. CASE Hydrated(d)
      BY <3>2, <3>3, HydratedKept
    <3>4. CASE d \in query
      <4>1. CASE NextBatch
        <5>1. PICK b : work' = [work EXCEPT !["backfill"] = b] /\ query' = query \ b
          BY <4>1 DEF NextBatch
        <5>2. work'["backfill"] = b
          BY <1>1, <5>1 DEF Processes
        <5> QED BY <3>4, <5>1, <5>2
      <4> QED BY <2>1, <3>4, <4>1
    <3>5. CASE d \in work["backfill"]
      <4>1. ASSUME Skip("backfill") \/ Commit("backfill") PROVE Hydrated(d)'
        BY <3>5, <4>1, DoneIsHydrated DEF Processes
      <4>2. ~NextBatch
        BY <3>5 DEF NextBatch
      <4> QED BY <1>1, <2>3, <3>5, <4>1, <4>2, BatchStep
    <3> QED BY <1>1, <3>1, <3>3, <3>4, <3>5 DEF Covered
  <2>4. ASSUME backfill' = "finished" PROVE query' = {}
    <3>1. CASE FinishBackfill
      BY <1>1, <3>1, FinishedCursor DEF FinishBackfill
    <3>2. CASE ~FinishBackfill
      <4>1. backfill = "finished" /\ ~NextBatch
        BY <2>1, <2>4, <3>2 DEF NextBatch
      <4> QED BY <1>1, <2>1, <4>1 DEF Covered
    <3> QED BY <3>1, <3>2
  <2> QED BY <2>2, <2>3, <2>4 DEF Covered
<1> QED BY <1>2, <1>3

-------------------------------------------------------------------------------
(* The theorems.                                                           *)

LEMMA GraphInit == Init => GraphInv
<1> SUFFICES ASSUME Init PROVE GraphInv
  OBVIOUS
<1>1. /\ ledger = [d \in Docs |-> None] /\ log = << >>
      /\ nodes = [n \in Entities |-> 0] /\ edges = [d \in Docs |-> NoEdges]
      /\ constraint = FALSE /\ up = FALSE /\ position = 0 /\ committed = 0
      /\ backfill = "off" /\ target = {} /\ query = {} /\ dropped = {} /\ faults = 0
      /\ work = [p \in Processes |-> {}] /\ missing = [p \in Processes |-> None]
  BY DEF Init, Ledger!LedgerInit
<1>2. log \in Seq([doc : Docs, result : Lists]) /\ Len(log) = 0
  BY <1>1
<1>3. edges \in [Docs -> [EdgeIds -> Attributes \cup {None}]]
  BY <1>1 DEF NoEdges
<1>4. TypeOK
  <2>1. /\ nodes \in [Entities -> 0..2] /\ position \in 0..Len(log) /\ committed \in 0..Len(log)
        /\ faults \in 0..MaxFaults
    BY <1>1, <1>2, BoundsAssumption
  <2> QED BY <1>1, <1>2, <1>3, <2>1 DEF TypeOK
<1>5. Copies /\ EndsKnown /\ InLedger
  BY <1>1, <1>2 DEF Copies, EndsKnown, InLedger, Open
<1>6. GraphMatchesLedger /\ ConsumedIsHydrated /\ Covered
  BY <1>1 DEF GraphMatchesLedger, ConsumedIsHydrated, Covered, Processes
<1> QED BY <1>1, <1>4, <1>5, <1>6 DEF GraphInv

LEMMA GraphStep == GraphInv /\ [Next]_vars => GraphInv'
<1> SUFFICES ASSUME GraphInv, [Next]_vars PROVE GraphInv'
  OBVIOUS
<1>1. TypeOK' /\ committed' <= position'
  BY TypeStep
<1> QED
  BY <1>1, CopiesStep, EndsKnownStep, InLedgerStep, MatchesStep, ConsumedStep, CoveredStep
  DEF GraphInv

(* The invariant of the two workers, the transactions and the graph.       *)
THEOREM GraphInvariant == Spec => []GraphInv
BY GraphInit, GraphStep, PTL DEF Spec

(* Every variable keeps its type; in particular no more than two nodes ever*)
(* have one canonical id, and a transaction always has a batch.            *)
THEOREM TypeCorrect == Spec => []TypeOK
<1>1. GraphInv => TypeOK
  BY DEF GraphInv
<1> QED BY <1>1, GraphInvariant, PTL

(* A document is in the graph as a whole or not at all, and as one merge of*)
(* its staged result leaves it, however often and by whomever it is merged.*)
THEOREM GraphMatches == Spec => []GraphMatchesLedger
<1>1. GraphInv => GraphMatchesLedger
  BY DEF GraphInv
<1> QED BY <1>1, GraphInvariant, PTL

(* What the stream worker has moved past is in the graph, is being merged, *)
(* or was lost to an error or a crash.                                     *)
THEOREM ConsumedHydrated == Spec => []ConsumedIsHydrated
<1>1. GraphInv => ConsumedIsHydrated
  BY DEF GraphInv
<1> QED BY <1>1, GraphInvariant, PTL

(* A backfill that ends without an error has put every document its query  *)
(* matched into the graph.                                                 *)
THEOREM BackfillHydratesAll == Spec => []BackfillHydrates
<1>1. ASSUME GraphInv, backfill = "finished", NEW d \in target PROVE Hydrated(d)
  <2>1. query = {} /\ work["backfill"] = {}
    BY <1>1 DEF GraphInv, Covered
  <2> QED BY <1>1, <2>1 DEF GraphInv, Covered
<1>2. GraphInv => BackfillHydrates
  BY <1>1 DEF BackfillHydrates
<1> QED BY <1>2, GraphInvariant, PTL

(* Redelivery, replays and the other worker do no harm: a document that is *)
(* in the graph as its result says stays so in every step.                 *)
THEOREM HydratedForever ==
  ASSUME NEW d \in Docs
  PROVE  Spec => [][ledger[d] # None /\ Hydrated(d) => Hydrated(d)']_vars
<1>1. GraphInv /\ [Next]_vars => [ledger[d] # None /\ Hydrated(d) => Hydrated(d)']_vars
  BY HydratedKept
<1> QED BY <1>1, GraphInvariant, PTL DEF Spec

================================================================================
