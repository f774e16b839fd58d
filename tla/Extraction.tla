------------------------------ MODULE Extraction ------------------------------
(***************************************************************************)
(* Module 2, document path: modules/extraction.  Two operating-system      *)
(* processes run ExtractionService.process_document against one MongoDB    *)
(* collection (staged_graph_knowledge) and one Kafka output topic:         *)
(*                                                                         *)
(*   - the stream worker (documents_stream.py --mode continuous) polls     *)
(*     financial-news and handles one message at a time;                   *)
(*   - the backfill run (--mode backfill) queries `documents` and gathers  *)
(*     one asyncio task per document of a batch.                           *)
(*                                                                         *)
(* An actor is the stream worker or the backfill task of one document; a   *)
(* step of an actor is one call on the database, the producer or the LLM,  *)
(* so every interleaving and every crash between two calls is explored.    *)
(* (Tasks of one event loop interleave here between a save and the publish *)
(* that follows it too, where the code has no await: a superset.)          *)
(*                                                                         *)
(* A relation is a model value with an edge key; a result's list of them is*)
(* a set (its order matters only to KnowledgeGraph).  The partitions of a  *)
(* topic are one sequence.  The Redis cache is left out:                   *)
(* LLMExtractionCache.set has no caller in the repository, so cache.get    *)
(* always answers None.                                                    *)
(***************************************************************************)
EXTENDS Naturals, Sequences, FiniteSets

CONSTANTS
  Docs,            \* document ids
  DocType,         \* [Docs -> {"news", "post"}]: the document_type field
  Content,         \* [Docs -> {"missing", "blank", "text"}]: the content field
  Relations,       \* relations an LLM can return
  EdgeKey,         \* Relations -> "subject->object" key
  Rejected,        \* self-loops, short/numeric names, banned super nodes
  TouchesStock,    \* relations with a STOCK entity at one end
  Replies,         \* relation lists one LLM pass may come back with
  Stream,          \* the stream worker, as an actor
  StreamConfig,    \* its (prompt_version, max_passes)
  BackfillConfig,  \* the backfill run's (prompt_version, max_passes)
  Passes,          \* configuration |-> max_passes
  MaxConcurrency,  \* size of the service's LLM semaphore
  BatchSize,       \* --batch-size of the backfill
  None,
  MaxTopic,        \* bound: messages ever put on financial-news
  MaxFaults        \* bound: crashes and group rejoins

Configs == {StreamConfig, BackfillConfig}
Actors == Docs \cup {Stream}
Processes == {"stream", "backfill"}

Results == [config : Configs, relations : SUBSET Relations]
Messages == [doc : Docs, result : Results]

ASSUME DocsAssumption ==
  /\ IsFiniteSet(Docs)
  /\ Stream \notin Docs
  /\ DocType \in [Docs -> {"news", "post"}]
  /\ Content \in [Docs -> {"missing", "blank", "text"}]

ASSUME RelationsAssumption ==
  /\ Rejected \subseteq Relations
  /\ TouchesStock \subseteq Relations
  /\ Replies \subseteq Seq(Relations)

ASSUME ConfigAssumption ==
  /\ Passes \in [Configs -> Nat \ {0}]
  /\ None \notin Results

ASSUME BoundsAssumption ==
  /\ MaxConcurrency \in Nat \ {0}
  /\ BatchSize \in Nat \ {0}
  /\ MaxTopic \in Nat
  /\ MaxFaults \in Nat

VARIABLES
  documents,   \* ids stored in `documents` by module 1
  inTopic,     \* financial-news, as the sequence of document ids
  position,    \* offset the stream worker has polled up to
  committed,   \* offset the background auto-commit has committed
  current,     \* document of the message the stream worker handles
  backfill,    \* state of the backfill process
  target,      \* documents the backfill's query matched
  query,       \* those of them its cursor has not yielded yet
  pc,          \* where each actor is in process_document
  pass,        \* pass_num of each actor
  found,       \* accumulated_relations of each actor
  staged,      \* staged_graph_knowledge
  outbox,      \* messages in each process's Kafka producer buffer
  outTopic,    \* extracted-knowledge-topic
  abandoned,   \* history: documents the stream dropped on an error or a crash
  faults       \* crashes and rejoins so far

feedVars == <<documents, inTopic>>
streamVars == <<position, committed, current, abandoned>>
backfillVars == <<backfill, target, query>>
taskVars == <<pc, pass, found>>
storeVars == <<staged, outbox, outTopic>>
vars == <<feedVars, streamVars, backfillVars, taskVars, storeVars, faults>>

ProcessOf(a) == IF a = Stream THEN "stream" ELSE "backfill"
DocOf(a) == IF a = Stream THEN current ELSE a
ConfigOf(a) == IF a = Stream THEN StreamConfig ELSE BackfillConfig

PcStates ==
  {"idle", "exists", "pass", "llm", "save", "publish", "done", "raised", "down"}
InFlight == {"exists", "pass", "llm", "save", "publish"}

TypeOK ==
  /\ documents \subseteq Docs
  /\ inTopic \in Seq(Docs)
  /\ position \in 0..Len(inTopic)
  /\ committed \in 0..Len(inTopic)
  /\ current \in Docs \cup {None}
  /\ backfill \in {"off", "running", "finished"}
  /\ target \subseteq Docs
  /\ query \subseteq target
  /\ pc \in [Actors -> PcStates]
  /\ pass \in [Actors -> Nat]
  /\ \A a \in Actors : pass[a] \in 1..Passes[ConfigOf(a)]
  /\ found \in [Actors -> SUBSET Relations]
  /\ staged \in [Docs -> Results \cup {None}]
  /\ outbox \in [Processes -> SUBSET Messages]
  /\ outTopic \in Seq(Messages)
  /\ abandoned \subseteq Docs
  /\ faults \in 0..MaxFaults

Init ==
  /\ documents = {}
  /\ inTopic = <<>>
  /\ position = 0
  /\ committed = 0
  /\ current = None
  /\ backfill = "off"
  /\ target = {}
  /\ query = {}
  /\ pc = [a \in Actors |-> "idle"]
  /\ pass = [a \in Actors |-> 1]
  /\ found = [a \in Actors |-> {}]
  /\ staged = [d \in Docs |-> None]
  /\ outbox = [p \in Processes |-> {}]
  /\ outTopic = <<>>
  /\ abandoned = {}
  /\ faults = 0

-------------------------------------------------------------------------------
(* What module 1 does to the two inputs of this one.                       *)

(* save_many, then publish_batch: a stored document may reach the topic,   *)
(* never reach it, or reach it several times.                              *)
Ingest(d) ==
  /\ documents' = documents \cup {d}
  /\ \/ inTopic' = inTopic
     \/ /\ Len(inTopic) < MaxTopic
        /\ inTopic' = Append(inTopic, d)
  /\ UNCHANGED <<streamVars, backfillVars, taskVars, storeVars, faults>>

-------------------------------------------------------------------------------
(* process_document, one step per call it makes.                           *)

ResultOf(a) == [config |-> ConfigOf(a), relations |-> found[a]]
MessageOf(a) == [doc |-> DocOf(a), result |-> ResultOf(a)]

Goto(a, label) == pc' = [pc EXCEPT ![a] = label]

(* The call ends, and its local variables with it.                         *)
Leave(a, label) ==
  /\ Goto(a, label)
  /\ pass' = [pass EXCEPT ![a] = 1]
  /\ found' = [found EXCEPT ![a] = {}]
  /\ current' = IF a = Stream THEN None ELSE current

(* process_document returns: the stream worker polls again, the gathered   *)
(* task is over.                                                           *)
Return(a) == Leave(a, IF a = Stream THEN "idle" ELSE "done") /\ UNCHANGED abandoned

(* An exception leaves process_document.  The consumer loop logs it and    *)
(* goes on with the next message; gather(return_exceptions=True) keeps it. *)
AfterError_EndsLoop(a) == "raised"

AfterError(a) == IF a = Stream THEN "idle" ELSE "raised"

Raise(a) ==
  /\ Leave(a, AfterError(a))
  /\ abandoned' = IF a = Stream THEN abandoned \cup {current} ELSE abandoned

(* exists(result_id): the id hashes the document, the prompt version and   *)
(* the pass depth, so a result staged under another configuration is       *)
(* not seen.                                                               *)
AlreadyStaged(a) ==
  /\ staged[DocOf(a)] # None
  /\ staged[DocOf(a)].config = ConfigOf(a)

CheckExists(a) ==
  /\ pc[a] = "exists"
  /\ IF AlreadyStaged(a) \/ Content[DocOf(a)] = "blank"
       THEN Return(a)
       ELSE Goto(a, "pass") /\ UNCHANGED <<pass, found, current, abandoned>>
  /\ UNCHANGED <<feedVars, position, committed, backfillVars, storeVars, faults>>

(* The semaphore is per process and held for the duration of the request.  *)
StartPass(a) ==
  /\ pc[a] = "pass"
  /\ Cardinality({b \in Actors : pc[b] = "llm" /\ ProcessOf(b) = ProcessOf(a)})
       < MaxConcurrency
  /\ Goto(a, "llm")
  /\ UNCHANGED <<feedVars, streamVars, backfillVars, pass, found, storeVars, faults>>

(* _filter_and_deduplicate: of the admissible relations with an edge key   *)
(* not seen in this or an earlier pass, the first one listed is kept.      *)
Sanitize_ForgetsPasses(reply, seen) ==
  {reply[i] : i \in {k \in DOMAIN reply :
     /\ reply[k] \notin Rejected
     /\ \A j \in 1..(k - 1) :
          reply[j] \notin Rejected => EdgeKey[reply[j]] # EdgeKey[reply[k]]}}

Sanitize(reply, seen) ==
  LET admissible(i) == reply[i] \notin Rejected
      fresh(i) == \A r \in seen : EdgeKey[r] # EdgeKey[reply[i]]
      first(i) == \A j \in 1..(i - 1) :
                    admissible(j) => EdgeKey[reply[j]] # EdgeKey[reply[i]]
  IN {reply[i] : i \in {k \in DOMAIN reply : admissible(k) /\ fresh(k) /\ first(k)}}

(* Early exit 1, early exit 2 and the end of range(1, max_passes + 1).      *)
ChainStops_OneMorePass(a, new, total) ==
  \/ pass[a] = 1 /\ total = {}
  \/ new \cap TouchesStock # {}
  \/ pass[a] > Passes[ConfigOf(a)]

ChainStops(a, new, total) ==
  \/ pass[a] = 1 /\ total = {}
  \/ new \cap TouchesStock # {}
  \/ pass[a] = Passes[ConfigOf(a)]

(* A failed inference and a reply that does not validate come back as an   *)
(* empty list, the same as a document without relations.                   *)
FinishPass(a) ==
  /\ pc[a] = "llm"
  /\ \E reply \in Replies \cup {<<>>} :
       LET new == Sanitize(reply, found[a])
           total == found[a] \cup new
           stop == ChainStops(a, new, total)
       IN /\ found' = [found EXCEPT ![a] = total]
          /\ pass' = [pass EXCEPT ![a] = IF stop THEN @ ELSE @ + 1]
          /\ Goto(a, IF stop THEN "save" ELSE "pass")
  /\ UNCHANGED <<feedVars, streamVars, backfillVars, storeVars, faults>>

(* The database is unreachable for exists, or the LLM answers with an      *)
(* error extract_structured does not catch.                                *)
CallRaises(a) ==
  /\ pc[a] \in {"exists", "llm"}
  /\ Raise(a)
  /\ UNCHANGED <<feedVars, position, committed, backfillVars, storeVars, faults>>

(* insert_one.  The collection has unique indexes on the result id and on  *)
(* document_id, so a second result about a document is a                   *)
(* DuplicateKeyError.  The second index is assumed: each start of either   *)
(* process creates it unless it is there, and only warns when that fails.  *)
Inserts_Always(d) == TRUE

Inserts(d) == staged[d] = None

Save(a) ==
  /\ pc[a] = "save"
  /\ IF Inserts(DocOf(a))
       THEN /\ staged' = [staged EXCEPT ![DocOf(a)] = ResultOf(a)]
            /\ Goto(a, "publish")
            /\ UNCHANGED <<pass, found, current, abandoned>>
       ELSE Raise(a) /\ UNCHANGED staged
  /\ UNCHANGED <<feedVars, position, committed, backfillVars, outbox, outTopic, faults>>

(* The connection to MongoDB breaks during insert_one: the write was       *)
(* applied or not, and the caller gets an exception in both cases.         *)
SaveBreaks(a) ==
  /\ pc[a] = "save"
  /\ \/ staged' = staged
     \/ /\ Inserts(DocOf(a))
        /\ staged' = [staged EXCEPT ![DocOf(a)] = ResultOf(a)]
  /\ Raise(a)
  /\ UNCHANGED <<feedVars, position, committed, backfillVars, outbox, outTopic, faults>>

(* publish only hands the message to the producer's buffer, and reports a  *)
(* full buffer by a False that process_document ignores.                   *)
Publish(a) ==
  /\ pc[a] = "publish"
  /\ \/ outbox' = [outbox EXCEPT ![ProcessOf(a)] = @ \cup {MessageOf(a)}]
     \/ outbox' = outbox
  /\ Return(a)
  /\ UNCHANGED <<feedVars, position, committed, backfillVars, staged, outTopic, faults>>

(* The producer's own thread: the broker acknowledges a message once       *)
(* (enable.idempotence), in no particular order between keys ...           *)
Unsent_RetryAfterAck(p, m) == {outbox[p], outbox[p] \ {m}}

Unsent(p, m) == {outbox[p] \ {m}}

Deliver(p, m) ==
  /\ m \in outbox[p]
  /\ \E rest \in Unsent(p, m) : outbox' = [outbox EXCEPT ![p] = rest]
  /\ outTopic' = Append(outTopic, m)
  /\ UNCHANGED <<feedVars, streamVars, backfillVars, taskVars, staged, faults>>

(* ... or gives up on it after its retries, which is only logged.          *)
DeliveryFails(p, m) ==
  /\ m \in outbox[p]
  /\ outbox' = [outbox EXCEPT ![p] = @ \ {m}]
  /\ UNCHANGED <<feedVars, streamVars, backfillVars, taskVars, staged, outTopic, faults>>

-------------------------------------------------------------------------------
(* The stream worker's consumer.                                           *)

(* The consumer needs a content, NewsOnlyServiceProxy a document_type that *)
(* says "news".                                                            *)
Wanted(d) == Content[d] # "missing" /\ DocType[d] = "news"

Poll ==
  /\ pc[Stream] = "idle"
  /\ position < Len(inTopic)
  /\ position' = position + 1
  /\ LET d == inTopic[position + 1] IN
       IF Wanted(d) THEN Goto(Stream, "exists") /\ current' = d
                    ELSE UNCHANGED <<pc, current>>
  /\ UNCHANGED <<feedVars, committed, abandoned, backfillVars, pass, found, storeVars, faults>>

(* enable.auto.commit: the client commits whatever poll has returned, also *)
(* while the message is still being processed.                             *)
AutoCommit ==
  /\ pc[Stream] # "down"
  /\ committed' = position
  /\ UNCHANGED <<feedVars, position, current, abandoned, backfillVars,
                 taskVars, storeVars, faults>>

ResumeOffset_Latest == Len(inTopic)

ResumeOffset == committed

(* After a group rebalance (a slow message exceeds max.poll.interval.ms)   *)
(* the worker fetches again from the committed offset.                     *)
Rejoin ==
  /\ pc[Stream] = "idle"
  /\ faults < MaxFaults
  /\ position' = ResumeOffset
  /\ faults' = faults + 1
  /\ UNCHANGED <<feedVars, committed, current, abandoned, backfillVars, taskVars, storeVars>>

StreamCrash ==
  /\ pc[Stream] # "down"
  /\ faults < MaxFaults
  /\ Leave(Stream, "down")
  /\ abandoned' = IF pc[Stream] \in InFlight
                    THEN abandoned \cup {current} ELSE abandoned
  /\ outbox' = [outbox EXCEPT !["stream"] = {}]
  /\ faults' = faults + 1
  /\ UNCHANGED <<feedVars, position, committed, backfillVars, staged, outTopic>>

StreamRestart ==
  /\ pc[Stream] = "down"
  /\ Goto(Stream, "idle")
  /\ position' = ResumeOffset
  /\ UNCHANGED <<feedVars, committed, current, abandoned, backfillVars,
                 pass, found, storeVars, faults>>

-------------------------------------------------------------------------------
(* The backfill run.                                                       *)

NoTasks == [a \in Actors |-> IF a = Stream THEN pc[a] ELSE "idle"]

(* Started by an operator; the query matches the news stored by then.      *)
StartBackfill ==
  /\ backfill # "running"
  /\ backfill' = "running"
  /\ target' = {d \in documents : DocType[d] = "news"}
  /\ query' = target'
  /\ pc' = NoTasks
  /\ UNCHANGED <<feedVars, streamVars, pass, found, storeVars, faults>>

BatchOver == \A d \in Docs : pc[d] \notin InFlight

(* The cursor fills a batch of BatchSize documents; what is left at the    *)
(* end is a last, smaller one.                                             *)
Batches_FullOnly(q) == {b \in SUBSET q : Cardinality(b) = BatchSize}

Batches(q) ==
  {b \in SUBSET q :
     \/ Cardinality(b) = BatchSize
     \/ b = q /\ b # {} /\ Cardinality(b) < BatchSize}

(* process_batch starts a task for each document that has a content.       *)
NextBatch ==
  /\ backfill = "running"
  /\ BatchOver
  /\ \E batch \in Batches(query) :
       /\ query' = query \ batch
       /\ pc' = [a \in Actors |->
                   IF a \in batch /\ Content[a] # "missing" THEN "exists" ELSE pc[a]]
  /\ UNCHANGED <<feedVars, streamVars, backfill, target, pass, found, storeVars, faults>>

(* publisher.close() flushes without a timeout before the process exits.   *)
FinishBackfill ==
  /\ backfill = "running"
  /\ BatchOver
  /\ Batches(query) = {}
  /\ outbox["backfill"] = {}
  /\ backfill' = "finished"
  /\ UNCHANGED <<feedVars, streamVars, target, query, taskVars, storeVars, faults>>

BackfillCrash ==
  /\ backfill = "running"
  /\ faults < MaxFaults
  /\ backfill' = "off"
  /\ pc' = NoTasks
  /\ outbox' = [outbox EXCEPT !["backfill"] = {}]
  /\ pass' = [a \in Actors |-> IF a = Stream THEN pass[a] ELSE 1]
  /\ found' = [a \in Actors |-> IF a = Stream THEN found[a] ELSE {}]
  /\ target' = {}
  /\ query' = {}
  /\ faults' = faults + 1
  /\ UNCHANGED <<feedVars, streamVars, staged, outTopic>>

-------------------------------------------------------------------------------
Task(a) ==
  \/ CheckExists(a)
  \/ StartPass(a)
  \/ FinishPass(a)
  \/ CallRaises(a)
  \/ Save(a)
  \/ SaveBreaks(a)
  \/ Publish(a)

Broker == \E p \in Processes : \E m \in outbox[p] : Deliver(p, m) \/ DeliveryFails(p, m)

Next ==
  \/ \E d \in Docs : Ingest(d)
  \/ \E a \in Actors : Task(a)
  \/ Broker
  \/ Poll
  \/ AutoCommit
  \/ Rejoin
  \/ StreamCrash
  \/ StreamRestart
  \/ StartBackfill
  \/ NextBatch
  \/ FinishBackfill
  \/ BackfillCrash

Spec == Init /\ [][Next]_vars

(* The worker's loop keeps running while the process lives, and an LLM     *)
(* request ends (it has an HTTP timeout).  Nothing restarts a worker: the  *)
(* compose file gives it no restart policy, so StreamRestart is not fair.  *)
Fairness == WF_vars(Poll \/ Task(Stream))

FairSpec == Spec /\ Fairness

-------------------------------------------------------------------------------
(* Properties.                                                             *)

(* A document's result is announced on extracted-knowledge-topic at most   *)
(* once, whatever the redeliveries, restarts and concurrent backfills: the *)
(* insert_one that precedes publish is the only gate (process_document).   *)
PublishedAtMostOnce ==
  \A i, j \in 1..Len(outTopic) : outTopic[i].doc = outTopic[j].doc => i = j

(* What module 3 reads from the topic is what the collection holds, so a   *)
(* graph rebuilt from the collection has the same edges.                   *)
PublishedIsStaged ==
  \A i \in 1..Len(outTopic) : staged[outTopic[i].doc] = outTopic[i].result

(* Two staged relations of one document never share an edge key, across    *)
(* passes too, none is one the sanitizer rejects, and only news with a     *)
(* content is staged, whichever of the two workers staged it.              *)
StagedIsSound ==
  \A d \in Docs : staged[d] # None =>
    /\ DocType[d] = "news" /\ Content[d] = "text"
    /\ staged[d].relations \cap Rejected = {}
    /\ \A r, s \in staged[d].relations : EdgeKey[r] = EdgeKey[s] => r = s

(* Every news message the stream worker has moved past was staged by some  *)
(* worker, is being handled, or was dropped on a logged error or a crash:  *)
(* committing before processing loses nothing silently.                    *)
ConsumedIsSettled ==
  \A i \in 1..position :
    LET d == inTopic[i] IN
    Wanted(d) /\ Content[d] = "text" =>
      \/ staged[d] # None
      \/ d \in abandoned
      \/ d = current /\ pc[Stream] \in InFlight

(* A backfill that ends has a result staged for every news document with a *)
(* content that its query matched, except those whose task raised.         *)
BackfillCoversTarget ==
  backfill = "finished" =>
    \A d \in target : Content[d] = "text" => staged[d] # None \/ pc[d] = "raised"

(* Every news message on the topic is staged in the end, unless its        *)
(* processing fails or the worker is down.                                 *)
StreamDrains ==
  \A d \in Docs :
    (Wanted(d) /\ Content[d] = "text" /\ \E i \in 1..Len(inTopic) : inTopic[i] = d)
      ~> (staged[d] # None \/ d \in abandoned \/ pc[Stream] = "down")

(* The whole service implements the ledger its consumers rely on.          *)
Ledger == INSTANCE ExtractionLedger WITH ledger <- staged, log <- outTopic
ImplementsLedger == Ledger!LedgerSpec

===============================================================================
