--------------------------- MODULE DocumentIngestion ---------------------------
(***************************************************************************)
(* Module 1, document path: modules/acquisition.  Operating-system         *)
(* processes run AcquisitionService._process_pipeline on what they crawl   *)
(* from the FireAnt server, against the MongoDB collections raw_documents  *)
(* and documents and the Kafka topic financial-news:                       *)
(*                                                                         *)
(*   - a poller (documents_stream.py --mode continuous) repeats cycles     *)
(*     that start from the newest published_at it finds in `documents`;    *)
(*   - a backfiller (--mode backfill) crawls a window of dates once.       *)
(*                                                                         *)
(* The workers share nothing but the database and the topic, so a step is  *)
(* one call on either and every interleaving is explored.  An item is one  *)
(* version of a news article or post: an edit on the server gives another  *)
(* item with the same id.  Which pages a crawl asks for, and what it       *)
(* therefore misses, is module FeedCrawl's matter: here a crawl collects   *)
(* any part of what its bounds admit.                                      *)
(***************************************************************************)
EXTENDS Naturals, FiniteSets

CONSTANTS
  Pollers,       \* processes in continuous mode
  Backfillers,   \* processes in backfill mode
  Ids,           \* ids the server gives to articles and posts
  Fingerprints,  \* hashes of (title, content, source)
  Items,         \* the versions the server may ever show
  Window,        \* dates the backfill asks for
  MaxAt,         \* bound: the latest publication date
  MaxFaults,     \* bound: workers that die, archive writes and sends that fail
  None

Workers == Pollers \cup Backfillers
Kinds == {"news", "post"}

(* `at` is published_at; `valid` says that map_document and the validator  *)
(* accept the item.                                                        *)
ItemRecords ==
  [id : Ids, fingerprint : Fingerprints, at : 1..MaxAt, kind : Kinds, valid : BOOLEAN]

ASSUME WorkersAssumption == Pollers \cap Backfillers = {}

ASSUME ItemsAssumption ==
  /\ Items \subseteq ItemRecords
  /\ IsFiniteSet(Items)
  /\ None \notin Items
  /\ MaxAt \in Nat
  /\ MaxFaults \in Nat
  /\ Window \subseteq 1..MaxAt

VARIABLES
  feed,        \* items the server shows now
  raw,         \* raw_documents: the archived items
  documents,   \* documents, by id
  topic,       \* items on financial-news (a set: see Deliver)
  pc,          \* where each worker is in its loop
  mark,        \* watermarks a worker has read, by kind; 0 stands for None
  todo,        \* items the loop a worker is in has yet to handle
  batch,       \* valid_docs of each worker
  buffer,      \* each worker's Kafka producer buffer
  sent,        \* history: items each worker has handed to its producer
  faults       \* deaths, failed archive writes and failed sends so far

storeVars == <<raw, documents>>
workVars == <<pc, mark, todo, batch>>
kafkaVars == <<topic, buffer, sent>>
vars == <<feed, storeVars, workVars, kafkaVars, faults>>

PcStates ==
  {"idle", "marks", "crawl", "archive", "check", "save", "publish", "flush", "done", "dead"}

TypeOK ==
  /\ feed \subseteq Items
  /\ raw \subseteq Items
  /\ documents \in [Ids -> Items \cup {None}]
  /\ \A d \in Ids : documents[d] # None => documents[d].id = d
  /\ topic \subseteq Items
  /\ pc \in [Workers -> PcStates]
  /\ mark \in [Workers -> [Kinds -> 0..MaxAt]]
  /\ todo \in [Workers -> SUBSET Items]
  /\ batch \in [Workers -> SUBSET Items]
  /\ buffer \in [Workers -> SUBSET Items]
  /\ sent \in [Workers -> SUBSET Items]
  /\ faults \in 0..MaxFaults

Init ==
  /\ feed = {}
  /\ raw = {}
  /\ documents = [d \in Ids |-> None]
  /\ topic = {}
  /\ pc = [w \in Workers |-> "idle"]
  /\ mark = [w \in Workers |-> [k \in Kinds |-> 0]]
  /\ todo = [w \in Workers |-> {}]
  /\ batch = [w \in Workers |-> {}]
  /\ buffer = [w \in Workers |-> {}]
  /\ sent = [w \in Workers |-> {}]
  /\ faults = 0

-------------------------------------------------------------------------------
(* The FireAnt server.                                                     *)

Post(i) ==
  /\ \A j \in feed : j.id # i.id
  /\ feed' = feed \cup {i}
  /\ UNCHANGED <<storeVars, workVars, kafkaVars, faults>>

(* An edit shows another version under the same id and date.               *)
Edit(i, j) ==
  /\ i \in feed
  /\ j # i /\ j.id = i.id /\ j.at = i.at /\ j.kind = i.kind
  /\ feed' = (feed \ {i}) \cup {j}
  /\ UNCHANGED <<storeVars, workVars, kafkaVars, faults>>

-------------------------------------------------------------------------------
(* One cycle of run_continuous, or the one of run_backfill.                *)

Goto(w, label) == pc' = [pc EXCEPT ![w] = label]

Fault(n) == faults' = faults + n /\ faults' <= MaxFaults

Stored == {documents[d] : d \in Ids} \ {None}

(* find_one sorted by published_at, newest first.                          *)
Latest_OldestFirst(k) ==
  LET dates == {i.at : i \in {j \in Stored : j.kind = k}}
  IN IF dates = {} THEN 0 ELSE CHOOSE t \in dates : \A s \in dates : t <= s

Latest(k) ==
  LET dates == {i.at : i \in {j \in Stored : j.kind = k}}
  IN IF dates = {} THEN 0 ELSE CHOOSE t \in dates : \A s \in dates : s <= t

(* The poller reads the two watermarks one after the other.                *)
ReadNewsMark(w) ==
  /\ pc[w] = "idle" /\ w \in Pollers
  /\ mark' = [mark EXCEPT ![w]["news"] = Latest("news")]
  /\ Goto(w, "marks")
  /\ UNCHANGED <<feed, storeVars, todo, batch, kafkaVars, faults>>

ReadPostsMark(w) ==
  /\ pc[w] = "marks"
  /\ mark' = [mark EXCEPT ![w]["post"] = Latest("post")]
  /\ Goto(w, "crawl")
  /\ UNCHANGED <<feed, storeVars, todo, batch, kafkaVars, faults>>

StartHistory(w) ==
  /\ pc[w] = "idle" /\ w \in Backfillers
  /\ Goto(w, "crawl")
  /\ UNCHANGED <<feed, storeVars, mark, todo, batch, kafkaVars, faults>>

InBounds(w, i) ==
  IF w \in Pollers THEN i.at > mark[w][i.kind] ELSE i.at \in Window

(* A page shows an item the crawl takes; the feed moves between two pages. *)
Collect(w, i) ==
  /\ pc[w] = "crawl"
  /\ i \in feed \ todo[w]
  /\ InBounds(w, i)
  /\ todo' = [todo EXCEPT ![w] = @ \cup {i}]
  /\ UNCHANGED <<feed, storeVars, pc, mark, batch, kafkaVars, faults>>

(* A poller sleeps until its next cycle, a backfill run ends.              *)
Rest(w) == Goto(w, IF w \in Pollers THEN "idle" ELSE "done")

EndCrawl(w) ==
  /\ pc[w] = "crawl"
  /\ IF todo[w] = {} THEN Rest(w) ELSE Goto(w, "archive")
  /\ UNCHANGED <<feed, storeVars, mark, todo, batch, kafkaVars, faults>>

(* Each item is upserted into raw_documents by id, where the version that  *)
(* came first stays; a failure is logged and the item is processed anyway. *)
Archived(w, failed) ==
  {i \in todo[w] \ failed : \A j \in raw : j.id # i.id}

Archive(w) ==
  /\ pc[w] = "archive"
  /\ \E failed \in SUBSET todo[w] :
       /\ Fault(Cardinality(failed))
       /\ \E new \in SUBSET Archived(w, failed) :
            /\ {i.id : i \in new} = {i.id : i \in Archived(w, failed)}
            /\ \A i, j \in new : i.id = j.id => i = j
            /\ raw' = raw \cup new
  /\ Goto(w, "check")
  /\ UNCHANGED <<feed, documents, mark, todo, batch, kafkaVars>>

(* seen_in_batch, then exists_by_fingerprint.                              *)
IsDuplicate_BatchOnly(w, i) == \E j \in batch[w] : j.fingerprint = i.fingerprint

IsDuplicate(w, i) ==
  \E j \in batch[w] \cup Stored : j.fingerprint = i.fingerprint

(* The worklist after one turn of the loop (every refusal is a continue).  *)
Remaining_Break(w, i) ==
  IF i.valid /\ ~IsDuplicate(w, i) THEN todo[w] \ {i} ELSE {}

Remaining(w, i) == todo[w] \ {i}

Check(w, i) ==
  /\ pc[w] = "check"
  /\ i \in todo[w]
  /\ todo' = [todo EXCEPT ![w] = Remaining(w, i)]
  /\ batch' = IF i.valid /\ ~IsDuplicate(w, i)
                THEN [batch EXCEPT ![w] = @ \cup {i}] ELSE batch
  /\ UNCHANGED <<feed, storeVars, pc, mark, kafkaVars, faults>>

EndChecks(w) ==
  /\ pc[w] = "check"
  /\ todo[w] = {}
  /\ IF batch[w] = {} THEN Rest(w) ELSE Goto(w, "save")
  /\ todo' = [todo EXCEPT ![w] = batch[w]]
  /\ UNCHANGED <<feed, storeVars, mark, batch, kafkaVars, faults>>

(* One operation of the unordered bulk_write: an upsert by id that writes  *)
(* nothing when the id is there ($setOnInsert), and a duplicate key error  *)
(* (code 11000, ignored) when another id has the fingerprint.              *)
Inserts_NoFingerprintIndex(i) == documents[i.id] = None

Inserts(i) ==
  /\ documents[i.id] = None
  /\ \A j \in Stored : j.fingerprint # i.fingerprint

AfterUpsert_Replaces(i) == [documents EXCEPT ![i.id] = i]

AfterUpsert_ByFingerprint(i) ==
  [d \in Ids |->
     IF d = i.id \/ (documents[d] # None /\ documents[d].fingerprint = i.fingerprint)
       THEN i ELSE documents[d]]

AfterUpsert(i) == IF Inserts(i) THEN [documents EXCEPT ![i.id] = i] ELSE documents

Save(w, i) ==
  /\ pc[w] = "save"
  /\ i \in todo[w]
  /\ documents' = AfterUpsert(i)
  /\ todo' = [todo EXCEPT ![w] = @ \ {i}]
  /\ UNCHANGED <<feed, raw, pc, mark, batch, kafkaVars, faults>>

SaveReturns_FireAndForget(w) == TRUE

SaveReturns(w) == todo[w] = {}

EndSaves(w) ==
  /\ pc[w] = "save"
  /\ SaveReturns(w)
  /\ Goto(w, "publish")
  /\ UNCHANGED <<feed, storeVars, mark, todo, batch, kafkaVars, faults>>

(* publish_batch gets every item of the batch, also those the save         *)
(* ignored; an exception of produce is logged and skips its item.          *)
Publish(w) ==
  /\ pc[w] = "publish"
  /\ \E refused \in SUBSET batch[w] :
       /\ Fault(Cardinality(refused))
       /\ buffer' = [buffer EXCEPT ![w] = @ \cup (batch[w] \ refused)]
       /\ sent' = [sent EXCEPT ![w] = @ \cup (batch[w] \ refused)]
  /\ Goto(w, "flush")
  /\ UNCHANGED <<feed, storeVars, mark, todo, batch, topic>>

(* flush waits for ten seconds at most: what is not acknowledged by then   *)
(* stays in the buffer of a poller, and is lost when a backfill exits.     *)
Flush(w) ==
  /\ pc[w] = "flush"
  /\ Rest(w)
  /\ todo' = [todo EXCEPT ![w] = {}]
  /\ batch' = [batch EXCEPT ![w] = {}]
  /\ buffer' = IF w \in Pollers THEN buffer ELSE [buffer EXCEPT ![w] = {}]
  /\ UNCHANGED <<feed, storeVars, mark, topic, sent, faults>>

(* The producer's own thread.  It retries without idempotence and two      *)
(* workers may send one item, so nothing bounds the copies of an item on   *)
(* the topic: the model only keeps which items are there.                  *)
Deliver(w, i) ==
  /\ i \in buffer[w]
  /\ topic' = topic \cup {i}
  /\ buffer' = [buffer EXCEPT ![w] = @ \ {i}]
  /\ UNCHANGED <<feed, storeVars, workVars, sent, faults>>

DeliveryFails(w, i) ==
  /\ i \in buffer[w]
  /\ buffer' = [buffer EXCEPT ![w] = @ \ {i}]
  /\ Fault(1)
  /\ UNCHANGED <<feed, storeVars, workVars, topic, sent>>

(* A kill, or an exception that leaves the pipeline: a watermark or a      *)
(* fingerprint query that fails, a bulk_write with another error than      *)
(* 11000.  Nothing in run_continuous catches it.                           *)
Dies(w) ==
  /\ pc[w] \notin {"done", "dead"}
  /\ Fault(1)
  /\ Goto(w, "dead")
  /\ todo' = [todo EXCEPT ![w] = {}]
  /\ batch' = [batch EXCEPT ![w] = {}]
  /\ buffer' = [buffer EXCEPT ![w] = {}]
  /\ UNCHANGED <<feed, storeVars, mark, topic, sent>>

(* An operator starts the process again.                                   *)
Restart(w) ==
  /\ pc[w] \in {"done", "dead"}
  /\ Goto(w, "idle")
  /\ mark' = [mark EXCEPT ![w] = [k \in Kinds |-> 0]]
  /\ UNCHANGED <<feed, storeVars, todo, batch, kafkaVars, faults>>

-------------------------------------------------------------------------------
Server == (\E i \in Items : Post(i)) \/ (\E i, j \in Items : Edit(i, j))

Work(w) ==
  \/ ReadNewsMark(w)
  \/ ReadPostsMark(w)
  \/ StartHistory(w)
  \/ \E i \in Items : Collect(w, i)
  \/ EndCrawl(w)
  \/ Archive(w)
  \/ \E i \in Items : Check(w, i)
  \/ EndChecks(w)
  \/ \E i \in Items : Save(w, i)
  \/ EndSaves(w)
  \/ Publish(w)
  \/ Flush(w)

Producer(w) == \E i \in Items : Deliver(w, i) \/ DeliveryFails(w, i)

Next ==
  \/ Server
  \/ \E w \in Workers : Work(w)
  \/ \E w \in Workers : Producer(w)
  \/ \E w \in Workers : Dies(w)
  \/ \E w \in Workers : Restart(w)

Spec == Init /\ [][Next]_vars

(* A worker that lives goes on: every call it makes returns or raises (the *)
(* HTTP session, pymongo and flush have timeouts).                         *)
Fairness == \A w \in Workers : WF_vars(Work(w))

FairSpec == Spec /\ Fairness

-------------------------------------------------------------------------------
(* Properties.                                                             *)

(* The id or the text of the item is in the collection.                    *)
Held(i) ==
  \/ documents[i.id] # None
  \/ \E j \in Stored : j.fingerprint = i.fingerprint

(* No text is stored twice, although two workers may both find it absent   *)
(* before either saves it (is_duplicate, then save_many).                  *)
UniqueFingerprint ==
  \A d, e \in Ids :
    documents[d] # None /\ documents[e] # None
      /\ documents[d].fingerprint = documents[e].fingerprint => d = e

(* What module 2 reads from the topic is in the database it backfills      *)
(* from, under the message's id or as the same text under another one,     *)
(* also when the worker that published it died.                            *)
PublishedIsStored == \A i \in topic : Held(i)

(* A stored document and an archived payload never change or disappear,    *)
(* whatever is edited on the server or crawled again ($setOnInsert).       *)
StoresAreFinal ==
  [][/\ raw \subseteq raw'
     /\ \A d \in Ids : documents[d] # None => documents'[d] = documents[d]]_vars

(* A worker publishes an item again only if the server edited it: the id   *)
(* is stored with another text, which hides the edit from the fingerprint  *)
(* check for ever (save_many writes nothing for it).                       *)
RepublishesOnlyEdits ==
  [][\A w \in Workers : \A i \in sent[w] \cap (buffer'[w] \ buffer[w]) :
       documents[i.id] # None /\ documents[i.id].fingerprint # i.fingerprint]_vars

(* While a poller lives its watermarks never move back, so a crawl never   *)
(* reaches behind what an earlier one of the process started from.         *)
WatermarksAdvance ==
  [][\A w \in Pollers, k \in Kinds :
       pc[w] # "dead" => mark'[w][k] >= mark[w][k]]_vars

(* A valid item that a worker has collected is stored in the end, unless   *)
(* the worker dies: by it, or because an id that has shown this very text  *)
(* is stored, then perhaps with a later edit of it.                        *)
ValidItems == {i \in Items : i.valid}

Settled(i) ==
  \E j \in Items : j.fingerprint = i.fingerprint /\ documents[j.id] # None

CollectedIsStored ==
  \A w \in Workers, i \in ValidItems :
    i \in todo[w] ~> (Settled(i) \/ pc[w] = "dead")

================================================================================
