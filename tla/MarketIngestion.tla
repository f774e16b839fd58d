---------------------------- MODULE MarketIngestion ----------------------------
(***************************************************************************)
(* Module 1, market path: modules/acquisition.  Operating-system processes *)
(* run MarketAcquisitionService against the collection                     *)
(* silver_market_quotes and the Kafka topic market-ohlcv:                  *)
(*                                                                         *)
(*   - a poller (market_stream.py --mode continuous) takes the last daily  *)
(*     bar of every symbol in each cycle, after a first history pull when  *)
(*     the collection is empty;                                            *)
(*   - a backfiller (--mode backfill) pulls the whole history once.        *)
(*                                                                         *)
(* The bar of a trading day changes while the day lasts: a bar is a        *)
(* symbol, a day and a version, version 0 standing for no bar.             *)
(***************************************************************************)
EXTENDS Naturals, Sequences

CONSTANTS
  Pollers,      \* processes in continuous mode
  Backfillers,  \* processes in backfill mode
  Watchlist,    \* the symbols whose bars are pulled
  LastDay,      \* bound: trading days
  MaxVersion,   \* bound: versions of one day's bar
  Malformed,    \* bars the cleaner or the validator refuses
  MaxLag,       \* bound: messages kept of a topic
  MaxFaults     \* bound: deaths, failed requests, writes, sends and handlers

Workers == Pollers \cup Backfillers
Days == 1..LastDay
Bars == [symbol : Watchlist, day : Days, version : 1..MaxVersion]

ConstantsAssumption ==  \* assumed by MarketPipeline
  /\ Pollers \cap Backfillers = {}
  /\ LastDay \in Nat
  /\ MaxVersion \in Nat
  /\ Malformed \subseteq Bars
  /\ MaxLag \in Nat
  /\ MaxFaults \in Nat

VARIABLES
  provider,  \* version of each bar the provider shows
  silver,    \* silver_market_quotes: version stored for each bar
  quotes,    \* market-ohlcv from the consumer's committed offset on
  job,       \* what each worker pulls
  pc,        \* where each worker is
  pending,   \* symbols a worker has yet to request
  batch,     \* its bars: raw_quotes, then silver_quotes
  unsaved,   \* those of them the bulk write has yet to upsert
  outbox,    \* its Kafka producer buffer
  faults     \* faults so far

marketVars == <<provider, job, pc, pending, batch, unsaved, outbox>>
vars == <<marketVars, silver, quotes, faults>>

Table == [Watchlist -> [Days -> 0..MaxVersion]]

TypeOK ==
  /\ provider \in Table
  /\ silver \in Table
  /\ quotes \in Seq(Bars) /\ Len(quotes) <= MaxLag
  /\ job \in [Workers -> {"history", "latest"}]
  /\ pc \in [Workers -> {"off", "idle", "fetch", "save", "publish", "closing"}]
  /\ pending \in [Workers -> SUBSET Watchlist]
  /\ \A w \in Workers :
       /\ unsaved[w] \subseteq batch[w] /\ batch[w] \subseteq Bars
       /\ outbox[w] \subseteq Bars
       /\ \A b, c \in batch[w] : b.symbol = c.symbol /\ b.day = c.day => b = c
  /\ faults \in 0..MaxFaults

NoBars == [s \in Watchlist |-> [d \in Days |-> 0]]

Init ==
  /\ provider = NoBars
  /\ silver = NoBars
  /\ quotes = <<>>
  /\ job = [w \in Workers |-> "history"]
  /\ pc = [w \in Workers |-> "off"]
  /\ pending = [w \in Workers |-> {}]
  /\ batch = [w \in Workers |-> {}]
  /\ unsaved = [w \in Workers |-> {}]
  /\ outbox = [w \in Workers |-> {}]
  /\ faults = 0

-------------------------------------------------------------------------------
Fault(n) == faults' = faults + n /\ faults' <= MaxFaults

Goto(w, label) == pc' = [pc EXCEPT ![w] = label]

Traded(s) == {d \in Days : provider[s][d] # 0}

Bar(s, d) == [symbol |-> s, day |-> d, version |-> provider[s][d]]

(* A trade changes the last day's bar, or makes the first one of a new day.*)
Trade(s, d) ==
  /\ provider[s][d] < MaxVersion
  /\ IF provider[s][d] # 0 THEN \A e \in Traded(s) : e <= d
                           ELSE Traded(s) = 1..(d - 1)
  /\ provider' = [provider EXCEPT ![s][d] = @ + 1]
  /\ UNCHANGED <<silver, quotes, job, pc, pending, batch, unsaved, outbox, faults>>

(* market_stream.py: a poller that finds the collection empty pulls the    *)
(* history before its first cycle.                                         *)
Start(w) ==
  /\ pc[w] = "off"
  /\ Goto(w, "fetch")
  /\ job' = [job EXCEPT ![w] =
       IF w \in Backfillers \/ silver = NoBars THEN "history" ELSE "latest"]
  /\ pending' = [pending EXCEPT ![w] = Watchlist]
  /\ UNCHANGED <<provider, silver, quotes, batch, unsaved, outbox, faults>>

NextCycle(w) ==
  /\ pc[w] = "idle"
  /\ Goto(w, "fetch")
  /\ job' = [job EXCEPT ![w] = "latest"]
  /\ pending' = [pending EXCEPT ![w] = Watchlist]
  /\ UNCHANGED <<provider, silver, quotes, batch, unsaved, outbox, faults>>

(* fetch_latest keeps the last bar of the reply, fetch_history all of it.  *)
Reply(w, s) ==
  {Bar(s, d) : d \in {e \in Traded(s) :
     job[w] = "latest" => \A f \in Traded(s) : f <= e}}

(* One request; an error other than a rate limit, or the third in a row,   *)
(* leaves the symbol out of this pull.                                     *)
Fetch(w, s) ==
  /\ pc[w] = "fetch"
  /\ s \in pending[w]
  /\ pending' = [pending EXCEPT ![w] = @ \ {s}]
  /\ \/ batch' = [batch EXCEPT ![w] = @ \cup Reply(w, s)] /\ UNCHANGED faults
     \/ batch' = batch /\ Fault(1)
  /\ UNCHANGED <<provider, silver, quotes, job, pc, unsaved, outbox>>

(* The pipeline is over: a poller sleeps, a backfill closes its publisher. *)
Rest(w) == Goto(w, IF w \in Pollers THEN "idle" ELSE "closing")

(* clean, validate and process_and_deduplicate.                            *)
Accepted_NotStored(w) ==
  {b \in batch[w] \ Malformed : silver[b.symbol][b.day] = 0}

Accepted(w) == batch[w] \ Malformed

Prepare(w) ==
  /\ pc[w] = "fetch"
  /\ pending[w] = {}
  /\ batch' = [batch EXCEPT ![w] = Accepted(w)]
  /\ unsaved' = [unsaved EXCEPT ![w] = Accepted(w)]
  /\ IF Accepted(w) = {} THEN Rest(w) ELSE Goto(w, "save")
  /\ UNCHANGED <<provider, silver, quotes, job, pending, outbox, faults>>

(* save_many: $setOnInsert keeps the version stored first.                 *)
Save(w, b) ==
  /\ pc[w] = "save"
  /\ b \in unsaved[w]
  /\ silver' = [silver EXCEPT ![b.symbol][b.day] = IF @ = 0 THEN b.version ELSE @]
  /\ unsaved' = [unsaved EXCEPT ![w] = @ \ {b}]
  /\ UNCHANGED <<provider, quotes, job, pc, pending, batch, outbox, faults>>

(* All is written, or the bulk write failed, which is logged: the bars are *)
(* published in both cases.                                                *)
EndSaves(w) ==
  /\ pc[w] = "save"
  /\ IF unsaved[w] = {} THEN UNCHANGED faults ELSE Fault(1)
  /\ unsaved' = [unsaved EXCEPT ![w] = {}]
  /\ Goto(w, "publish")
  /\ UNCHANGED <<provider, silver, quotes, job, pending, batch, outbox>>

(* produce for every bar, without a flush.                                 *)
Publish(w) ==
  /\ pc[w] = "publish"
  /\ outbox' = [outbox EXCEPT ![w] = @ \cup batch[w]]
  /\ batch' = [batch EXCEPT ![w] = {}]
  /\ Rest(w)
  /\ UNCHANGED <<provider, silver, quotes, job, pending, unsaved, faults>>

(* close flushes for five seconds: the rest of the buffer is lost.         *)
Close(w) ==
  /\ pc[w] = "closing"
  /\ Goto(w, "off")
  /\ outbox' = [outbox EXCEPT ![w] = {}]
  /\ UNCHANGED <<provider, silver, quotes, job, pending, batch, unsaved, faults>>

(* A kill, or the database unreachable when the process starts.            *)
Dies(w) ==
  /\ pc[w] # "off"
  /\ Fault(1)
  /\ Goto(w, "off")
  /\ pending' = [pending EXCEPT ![w] = {}]
  /\ batch' = [batch EXCEPT ![w] = {}]
  /\ unsaved' = [unsaved EXCEPT ![w] = {}]
  /\ outbox' = [outbox EXCEPT ![w] = {}]
  /\ UNCHANGED <<provider, silver, quotes, job>>

(* The producer's own thread.  Retries without idempotence may put two     *)
(* versions of a bar in any order, so the buffer is a set.                 *)
Deliver(w, b) ==
  /\ b \in outbox[w]
  /\ Len(quotes) < MaxLag
  /\ quotes' = Append(quotes, b)
  /\ outbox' = [outbox EXCEPT ![w] = @ \ {b}]
  /\ UNCHANGED <<provider, silver, job, pc, pending, batch, unsaved, faults>>

DeliveryFails(w, b) ==
  /\ b \in outbox[w]
  /\ outbox' = [outbox EXCEPT ![w] = @ \ {b}]
  /\ Fault(1)
  /\ UNCHANGED <<provider, silver, quotes, job, pc, pending, batch, unsaved>>

-------------------------------------------------------------------------------
Work(w) ==
  \/ NextCycle(w)
  \/ \E s \in Watchlist : Fetch(w, s)
  \/ Prepare(w)
  \/ \E b \in batch[w] : Save(w, b)
  \/ EndSaves(w)
  \/ Publish(w)
  \/ Close(w)

Next ==
  \/ \E s \in Watchlist, d \in Days : Trade(s, d)
  \/ \E w \in Workers :
       \/ Start(w)
       \/ Work(w)
       \/ \E b \in outbox[w] : Deliver(w, b) \/ DeliveryFails(w, b)
       \/ Dies(w)

Spec == Init /\ [][Next]_vars

(* A running worker goes on (requests, writes and close have timeouts), and*)
(* its producer sends its buffer in turn: no message waits for ever, though*)
(* the bound on the topic holds it up while the topic is full.             *)
Fairness ==
  \A w \in Workers :
    /\ WF_vars(Work(w))
    /\ \A b \in Bars : SF_vars(Deliver(w, b))

================================================================================
