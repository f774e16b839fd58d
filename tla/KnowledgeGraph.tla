----------------------------- MODULE KnowledgeGraph -----------------------------
(***************************************************************************)
(* Module 3: modules/graph.  Two operating-system processes run            *)
(* GraphService.process_batch against one Neo4j database:                  *)
(*                                                                         *)
(*   - the stream worker (graph_stream.py --mode continuous) merges each   *)
(*     message of extracted-knowledge-topic;                               *)
(*   - the backfill run (--mode backfill) merges the documents of          *)
(*     staged_graph_knowledge batch by batch.                              *)
(*                                                                         *)
(* Module 2 is ExtractionLedger, the abstract specification that           *)
(* Extraction is shown to implement; a result is here the list of the      *)
(* relations it holds, in order.                                           *)
(*                                                                         *)
(* A batch is one auto-commit query, so a transaction is open from the     *)
(* moment the server runs it until it ends as a whole.  The names of nodes *)
(* (the last spelling wins) and the copies of an edge between copies of a  *)
(* node are left out.                                                      *)
(***************************************************************************)
EXTENDS Naturals, Sequences, FiniteSets, SequencesExt

CONSTANTS
  Docs,        \* document ids
  Entities,    \* canonical node ids
  Relations,   \* relations a result may list
  Ends,        \* relation |-> its canonical <<subject, object>>
  Phrase,      \* relation |-> its normalised predicate
  Unsure,      \* relations below the confidence threshold
  Unnamed,     \* relations with an end whose name starts with no letter
  Lists,       \* the relation lists of results
  BatchSize,   \* --batch-size of the backfill
  None,
  MaxFaults    \* bound: crashes, rejoins, failed or unacknowledged queries

Processes == {"stream", "backfill"}

(* generate_edge_id hashes these together with the document's id.          *)
EdgeId(r) == <<Ends[r], Phrase[r]>>
EdgeIds == {EdgeId(r) : r \in Relations}

(* Relation text, impact and reasoning are those of the relation that      *)
(* created the edge; the confidence is that of the one merged last.        *)
Attributes == [created : Relations, confidence : Relations]

NoEdges == [e \in EdgeIds |-> None]

ASSUME RelationsAssumption ==
  /\ Ends \in [Relations -> Entities \X Entities]
  /\ Unsure \subseteq Relations
  /\ Unnamed \subseteq Relations
  /\ Lists \subseteq Seq(Relations)
  /\ None \notin Lists
  /\ None \notin Attributes

ASSUME DocsAssumption == IsFiniteSet(Docs)

ASSUME BoundsAssumption == BatchSize \in Nat \ {0} /\ MaxFaults \in Nat

VARIABLES
  ledger,      \* staged_graph_knowledge: each document's relation list
  log,         \* extracted-knowledge-topic
  nodes,       \* how many Entity nodes have each canonical id
  edges,       \* attributes of each document's IMPACTS relationships, or None
  constraint,  \* idx_entity_canonical_id exists
  up,          \* the stream worker is alive
  position,    \* offset it has polled up to
  committed,   \* offset the background auto-commit has committed
  backfill,    \* state of the backfill process
  target,      \* documents its query matched
  query,       \* those its cursor has not yielded yet
  work,        \* the batch a process is to merge
  missing,     \* the nodes its open transaction found absent, or None
  dropped,     \* history: documents the stream lost to an error or a crash
  faults       \* faults so far

moduleTwo == <<ledger, log>>
graphVars == <<nodes, edges, constraint>>
streamVars == <<up, position, committed, dropped>>
backfillVars == <<backfill, target, query>>
batchVars == <<work, missing>>
vars == <<moduleTwo, graphVars, streamVars, backfillVars, batchVars, faults>>

Ledger == INSTANCE ExtractionLedger WITH Results <- Lists

TypeOK ==
  /\ ledger \in [Docs -> Lists \cup {None}]
  /\ log \in Seq([doc : Docs, result : Lists])
  /\ nodes \in [Entities -> 0..2]
  /\ edges \in [Docs -> [EdgeIds -> Attributes \cup {None}]]
  /\ constraint \in BOOLEAN
  /\ up \in BOOLEAN
  /\ position \in 0..Len(log)
  /\ committed \in 0..Len(log)
  /\ backfill \in {"off", "running", "finished", "raised"}
  /\ query \subseteq target /\ target \subseteq Docs
  /\ work \in [Processes -> SUBSET Docs]
  /\ missing \in [Processes -> (SUBSET Entities) \cup {None}]
  /\ \A p \in Processes : missing[p] # None => work[p] # {}
  /\ dropped \subseteq Docs
  /\ faults \in 0..MaxFaults

Init ==
  /\ Ledger!LedgerInit
  /\ nodes = [n \in Entities |-> 0]
  /\ edges = [d \in Docs |-> NoEdges]
  /\ constraint = FALSE
  /\ up = FALSE
  /\ position = 0
  /\ committed = 0
  /\ backfill = "off"
  /\ target = {}
  /\ query = {}
  /\ work = [p \in Processes |-> {}]
  /\ missing = [p \in Processes |-> None]
  /\ dropped = {}
  /\ faults = 0

-------------------------------------------------------------------------------
Fault(n) == faults' = faults + n /\ faults' <= MaxFaults

Open(p) == missing[p] # None

(* ensure_constraints: an error is logged and the process goes on.  The    *)
(* server makes the constraint while no transaction is open, and refuses   *)
(* to when two nodes share an id.                                          *)
EnsureConstraints ==
  \/ /\ \A p \in Processes : ~Open(p)
     /\ constraint' = (constraint \/ \A n \in Entities : nodes[n] <= 1)
     /\ UNCHANGED faults
  \/ constraint' = constraint /\ Fault(1)

-------------------------------------------------------------------------------
(* process_batch.                                                          *)

(* The confidence threshold and is_valid_entity_name.                      *)
Kept_Unnamed(r) == r \notin Unsure

Kept(r) == r \notin Unsure \cup Unnamed

KeptOf(d) == {r \in ToSet(ledger[d]) : Kept(r)}

NodesOf(docs) == {n \in Entities : \E d \in docs : \E r \in KeptOf(d) : n \in {Ends[r][1], Ends[r][2]}}

(* One item of UNWIND: MERGE with ON CREATE SET and ON MATCH SET, which    *)
(* goes through the relations that are left of a document, in order.       *)
MergeItem_SetsAll(old, r) == [created |-> r, confidence |-> r]

MergeItem(old, r) ==
  [created |-> IF old = None THEN r ELSE old.created, confidence |-> r]

Merged(d) ==
  LET list == ledger[d]
      after[n \in 0..Len(list)] ==
        IF n = 0 THEN edges[d]
        ELSE IF Kept(list[n])
          THEN [after[n - 1] EXCEPT ![EdgeId(list[n])] = MergeItem(@, list[n])]
          ELSE after[n - 1]
  IN after[Len(list)]

(* Nothing is left of the batch: process_batch returns without a query.    *)
NothingToMerge(docs) == NodesOf(docs) = {}

(* With the constraint, MERGE locks the id, so it sees the nodes of a      *)
(* transaction that ends first; without it, it creates what it missed.     *)
Created_Unlocked(p) == missing[p]

Created(p) == IF constraint THEN {n \in NodesOf(work[p]) : nodes[n] = 0} ELSE missing[p]

Commits(p) ==
  /\ nodes' = [n \in Entities |-> IF n \in Created(p) THEN nodes[n] + 1 ELSE nodes[n]]
  /\ edges' = [d \in Docs |-> IF d \in work[p] THEN Merged(d) ELSE edges[d]]

RollsBack == UNCHANGED <<nodes, edges>>

Forget(p) ==
  /\ work' = [work EXCEPT ![p] = {}]
  /\ missing' = [missing EXCEPT ![p] = None]

(* save_edge_batch: the query starts.                                      *)
Begin(p) ==
  /\ work[p] # {}
  /\ ~Open(p)
  /\ ~NothingToMerge(work[p])
  /\ missing' = [missing EXCEPT ![p] = {n \in NodesOf(work[p]) : nodes[n] = 0}]
  /\ UNCHANGED <<moduleTwo, graphVars, streamVars, backfillVars, work, faults>>

Skip(p) ==
  /\ work[p] # {}
  /\ NothingToMerge(work[p])
  /\ Forget(p)
  /\ UNCHANGED <<moduleTwo, graphVars, streamVars, backfillVars, faults>>

Commit(p) ==
  /\ Open(p)
  /\ Commits(p)
  /\ Forget(p)
  /\ UNCHANGED <<moduleTwo, constraint, streamVars, backfillVars, faults>>

(* The query raises: the server broke a deadlock of two transactions that  *)
(* lock the same nodes, it is unreachable, or its answer was lost.  Nothing*)
(* retries it.  The stream worker logs it and goes on, the backfill ends.  *)
Deadlock ==
  /\ \A p \in Processes : Open(p)
  /\ NodesOf(work["stream"]) \cap NodesOf(work["backfill"]) # {}

Raise(p) ==
  /\ Open(p)
  /\ \/ Deadlock /\ RollsBack /\ UNCHANGED faults
     \/ (Commits(p) \/ RollsBack) /\ Fault(1)
  /\ Forget(p)
  /\ IF p = "stream" THEN dropped' = dropped \cup work[p] /\ UNCHANGED backfill
                     ELSE backfill' = "raised" /\ UNCHANGED dropped
  /\ UNCHANGED <<moduleTwo, constraint, up, position, committed, target, query>>

-------------------------------------------------------------------------------
(* The stream worker.                                                      *)

(* Without a committed offset it starts at the earliest message.           *)
ResumeOffset_Latest == Len(log)
ResumeOffset_Next == committed + 1

ResumeOffset == committed

Start ==
  /\ ~up
  /\ up' = TRUE
  /\ EnsureConstraints
  /\ position' = ResumeOffset
  /\ UNCHANGED <<moduleTwo, nodes, edges, committed, dropped, backfillVars, batchVars>>

Poll ==
  /\ up
  /\ work["stream"] = {}
  /\ position < Len(log)
  /\ position' = position + 1
  /\ work' = [work EXCEPT !["stream"] = {log[position + 1].doc}]
  /\ UNCHANGED <<moduleTwo, graphVars, up, committed, dropped, backfillVars, missing, faults>>

AutoCommit ==
  /\ up
  /\ committed # position
  /\ committed' = position
  /\ UNCHANGED <<moduleTwo, graphVars, up, position, dropped, backfillVars, batchVars, faults>>

(* A rebalance: the loop goes on from the committed offset.                *)
Rejoin ==
  /\ up
  /\ work["stream"] = {}
  /\ position # ResumeOffset
  /\ Fault(1)
  /\ position' = ResumeOffset
  /\ UNCHANGED <<moduleTwo, graphVars, up, committed, dropped, backfillVars, batchVars>>

(* The server may still finish the query of a process that was killed.     *)
Crash ==
  /\ up
  /\ Fault(1)
  /\ up' = FALSE
  /\ RollsBack \/ (Open("stream") /\ Commits("stream"))
  /\ dropped' = dropped \cup work["stream"]
  /\ Forget("stream")
  /\ UNCHANGED <<moduleTwo, constraint, position, committed, backfillVars>>

-------------------------------------------------------------------------------
(* The backfill run, which can be started again and again.                 *)

StartBackfill ==
  /\ backfill \in {"off", "raised"}
  /\ EnsureConstraints
  /\ backfill' = "running"
  /\ target' = {d \in Docs : ledger[d] # None}
  /\ query' = target'
  /\ UNCHANGED <<moduleTwo, nodes, edges, streamVars, batchVars>>

(* Batches of batch_size, and the remaining documents.                     *)
Batches_FullOnly == {b \in SUBSET query : Cardinality(b) = BatchSize}

Batches ==
  {b \in SUBSET query :
     Cardinality(b) = IF Cardinality(query) < BatchSize THEN Cardinality(query) ELSE BatchSize}

NextBatch ==
  /\ backfill = "running"
  /\ work["backfill"] = {}
  /\ query # {}
  /\ \E b \in Batches :
       /\ work' = [work EXCEPT !["backfill"] = b]
       /\ query' = query \ b
  /\ UNCHANGED <<moduleTwo, graphVars, streamVars, backfill, target, missing, faults>>

FinishBackfill ==
  /\ backfill = "running"
  /\ work["backfill"] = {}
  /\ \A b \in Batches : b = {}
  /\ backfill' = "finished"
  /\ UNCHANGED <<moduleTwo, graphVars, streamVars, target, query, batchVars, faults>>

BackfillCrash ==
  /\ backfill = "running"
  /\ Fault(1)
  /\ RollsBack \/ (Open("backfill") /\ Commits("backfill"))
  /\ backfill' = "off"
  /\ Forget("backfill")
  /\ UNCHANGED <<moduleTwo, constraint, streamVars, target, query>>

-------------------------------------------------------------------------------
ModuleTwo ==
  /\ Ledger!LedgerNext
  /\ UNCHANGED <<graphVars, streamVars, backfillVars, batchVars, faults>>

Query(p) == Begin(p) \/ Skip(p) \/ Commit(p) \/ Raise(p)

Next ==
  \/ ModuleTwo
  \/ \E p \in Processes : Query(p)
  \/ Start \/ Poll \/ AutoCommit \/ Rejoin \/ Crash
  \/ StartBackfill \/ NextBatch \/ FinishBackfill \/ BackfillCrash

Spec == Init /\ [][Next]_vars

-------------------------------------------------------------------------------
(* Properties.                                                             *)

(* "Guarantees idempotent node ... creation": two nodes share a canonical  *)
(* id only after a worker failed to make the constraint and went on, and   *)
(* never while the constraint exists, whatever the two workers interleave. *)
OneNodePerId ==
  (\E n \in Entities : nodes[n] > 1) => ~constraint /\ faults > 0

(* A document is in the graph as a whole or not at all, and as one merge of*)
(* its staged result leaves it, however often and by whomever it is merged *)
(* again: no refused relation, no second edge for one edge id, the first   *)
(* relation's text and the last one's confidence, and both ends are nodes. *)
Sources(d, e) ==
  {i \in DOMAIN ledger[d] :
     ledger[d][i] \notin Unsure \cup Unnamed /\ EdgeId(ledger[d][i]) = e}

Hydrated(d) ==
  \A e \in EdgeIds :
    IF Sources(d, e) = {} THEN edges[d][e] = None
    ELSE /\ \E first, last \in Sources(d, e) :
              /\ \A i \in Sources(d, e) : first <= i /\ i <= last
              /\ edges[d][e] = [created |-> ledger[d][first], confidence |-> ledger[d][last]]
         /\ \A n \in {e[1][1], e[1][2]} : nodes[n] > 0

GraphMatchesLedger ==
  \A d \in Docs : edges[d] = NoEdges \/ (ledger[d] # None /\ Hydrated(d))

(* Every document the stream worker has moved past is in the graph, is     *)
(* being merged, or was lost to an error or a crash that was not silent.   *)
ConsumedIsHydrated ==
  \A i \in 1..position :
    LET d == log[i].doc IN Hydrated(d) \/ d \in work["stream"] \/ d \in dropped

(* A backfill that ends without an error has put every document its query  *)
(* matched into the graph, announced or not.                               *)
BackfillHydrates == backfill = "finished" => \A d \in target : Hydrated(d)

================================================================================
