# Financial AI Platform: TLA+ models, model checking and proofs

This directory is a verification development of the platform's own core logic: the
acquisition, extraction, feature and graph pipelines, the model server, and the gateway's
predictions and live stream.
The modules are TLA+ translations of the Python code, checked with TLC on small instances;
theorems about them hold for every value of the constants and are checked with TLAPS.

    tlc -workers 2 -config Extraction.cfg MCExtraction      # one run of the table below
    tlapm ExtractionProofs.tla                              # one proof module

`PROJECT.json` lists the components, the runs, the source lines each definition translates,
the hazards, the findings and the theorems.

## 1. The system

Five kinds of operating-system processes share MongoDB, Kafka, Neo4j and Redis
(`docker-compose.yml`, `run_pipeline.sh`). The workers have no restart policy; somebody
restarts them or they stay down. Any of them may also run a one-off backfill beside the
continuous worker, against the same stores.

    FireAnt feed --> documents_stream (M1) --> raw_documents, documents, financial-news
    vnstock      --> market_stream (M1)    --> silver_market_quotes, market-ohlcv
    financial-news --> documents_stream (M2) --> staged_graph_knowledge, extracted-knowledge-topic
    market-ohlcv, financial-news --> market_stream (M2) --> gold_market_features
    extracted-knowledge-topic --> graph_stream (M3) --> Neo4j
    gold_market_features --> mlops API (M4);  Neo4j + gold features --> reasoning API (M4)
    both APIs --> gateway (predictions_log, Redis cache) --> dashboard;  market-ohlcv --> WebSockets

### Inventory

| Component | State | Operations | What is hard | What makes it correct |
|---|---|---|---|---|
| Document acquisition (M1) | `raw_documents`, `documents`, topic `financial-news`, a producer buffer per process | read watermarks, crawl, archive, check for duplicates, bulk upsert, publish, flush | poller and backfiller interleave; edits and reposts; death between two stores; lost sends | no text stored twice; what is published is stored; a stored document is final; watermarks advance; nothing valid is lost from a batch |
| FireAnt crawler (M1) | offset, search bounds, collected items | probe, leap, bisect, fetch a page | the feed grows while it is paged; failed requests; stop rules on a reversed page | only items of the window; nothing of the window skipped except by the last page; it ends |
| Market acquisition (M1) | `silver_market_quotes`, topic `market-ohlcv`, producer buffers | pull history or the last bar, clean, validate, save, publish | a day's bar changes; backfill beside poller; write failures do not stop publishing | only accepted bars; the last bar always gets through in the end |
| Knowledge extraction (M2) | `staged_graph_knowledge`, topic `extracted-knowledge-topic`, LLM semaphore, consumer offsets | poll, existence check, passes of the LLM, sanitise, save, publish, backfill batches | stream worker and backfill extract one document; crash between save and publish; background commits; redelivery | one final result per document, announced at most once and as staged; nothing consumed is lost silently; a backfill covers its query |
| Feature engineering (M2) | `gold_market_features`, two consumers' offsets | merge a quote, merge a post symbol by symbol | two coroutines write one document; redelivery; partial merges; types of timestamps | each post tallied once; the streams keep apart; the divergence is fresh |
| Graph builder (M3) | Neo4j nodes, edges, constraint; consumer offsets | ensure constraints, filter, canonicalise, merge a batch, backfill | concurrent transactions with or without the constraint; deadlocks; lost acknowledgements; replays | one node per entity; a document is in the graph as one merge leaves it; a backfill covers its query |
| Live stream (gateway) | connection lists, the broadcast's loop | connect, disconnect, broadcast, consume | coroutines change the list a suspended broadcast iterates | order and uniqueness per client; nobody skipped; the task never stops |
| Predictions and actuals job (gateway) | `predictions_log`, Redis responses, the cache's initialisation | build a key, look up, ask two services at once, log a pair, answer, store; fill in outcomes daily | cache misses in parallel; a key that names an hour without its offset, from a clock read before the handler's; an answer cached but not logged, or the other way round; a failed inference cached; Redis or the model server gone; types of timestamps | an answer is of the symbol and hour that its key names, as the request that computed it meant them, complete and in the log; no hour computed twice without need; every request ends; outcomes are filled in |
| Model training and serving (M4) | MLflow registry, extracted dataset, loaded models | extract, train, evaluate and promote, load, predict | a kill between two promotions; features too few at the first start; a container created anew | a start without a failure serves every horizon after a bootstrap, and the promoted ones when it finds the first model |
| Reasoning (M4), sentiment and graph routers | none | read, prompt, answer | a failed inference answered as a neutral verdict | stateless |
| Dashboard | React state of one tab | select a symbol, receive answers and ticks | answers out of order | what is shown belongs to the selected symbol (not modelled) |

## 2. Modules

| Module | Models | Notes |
|---|---|---|
| `DocumentIngestion` | M1 documents: `AcquisitionService`, `MongoRepository`, `KafkaPublisher` | `MCDocumentIngestion` instantiates it, `DocumentIngestionProofs` proves |
| `FeedCrawl` | `FireAntConnector._crawl_feed`, `_find_target_offset` | `MCFeedCrawl`, `FeedCrawlProofs` |
| `MarketIngestion` | M1 market data: connector, preprocessing, service, CLI | a part of `MarketPipeline` |
| `FeatureStore` | M2 features: `FeatureEngineeringService`, its two consumers | a part of `MarketPipeline` |
| `MarketPipeline` | the composition of these two over `silver_market_quotes` and `market-ohlcv` | `MCMarketPipeline`, `MarketPipelineProofs` |
| `ExtractionLedger` | what M2 promises to M3: a final result per document, announced at most once | abstract specification |
| `Extraction` | M2 documents: service, consumer, proxy, backfill, repository, publisher | implements `ExtractionLedger`; `MCExtraction`, `ExtractionProofs` |
| `KnowledgeGraph` | M3: service, canonicaliser, consumer, backfill, Neo4j repository | composed with `ExtractionLedger`, not with `Extraction`; `MCKnowledgeGraph`, `KnowledgeGraphProofs` |
| `ModelServing` | M4 `mlops/serving/api.py` with the bootstrap it runs: `data_extractor.py`, `dataset.py`, `train.py`, `evaluate.py` | a part of `Forecasting` |
| `PredictionLog` | gateway `routers/predictions.py`, its response cache, `main.py`'s start, `jobs/populate_actuals.py` | a part of `Forecasting` |
| `Forecasting` | the composition of these two: the requests of one are answered by the other | `MCForecasting`, `ForecastingProofs` |
| `WebSocketFanout` | gateway `stream.py` | `MCWebSocketFanout`, `WebSocketFanoutProofs` |
| `SetsOfNaturals` | nothing: lemmas on sets and functions of natural numbers | used by four of the proof modules |

How they correspond to the code:

- **An actor is what the code runs concurrently**: a process (a worker, a backfill), an
  asyncio task, a coroutine, a Kafka producer's background thread. A step is one call on a
  store, the broker, the LLM or a socket, so two actors interleave wherever the code makes a
  call. Inside one event loop steps end where the code awaits (`WebSocketFanout`,
  `FeatureStore`, `PredictionLog`); `Extraction` also allows an interleaving between a task's save and its
  publish, a superset.
- **Stores are functions from ids to records**; unique indexes and upserts are what the
  server does with a write (`Inserts`, `AfterUpsert`, `Save`). A crash drops the process's
  memory and its producer's buffer and keeps the stores.
- **Topics** are sequences (or sets where no consumer is modelled). The partitions of a topic
  are one sequence: each partition has its own offset in the code, and no property relates
  two partitions. Offsets are committed by a background step at any time after the poll, which
  is what `enable.auto.commit` does with messages in progress.
- **Data** are model values: an item is an id, a text, a date and a verdict of the validator;
  a bar is a symbol, a day and a version; a relation is a value with an edge key; a vector's
  figures are the versions and posts they derive from. Wording, logging, metrics and retries
  inside one HTTP request are left out.
- **A model** of the registry is its place in the order of promotion, and an answer of the
  gateway is the request that computed it, so that an answer served from the cache can be
  compared with the question it was computed for. Time is counted in hours: the key names one
  (`HourNamed`), of the date as it is written or of the clock when the request comes in, and the
  handler predicts for one (`Begin`), of the date as it is meant or of the clock after Redis has
  answered. The two can differ.
- **History variables** are marked "history" at their declaration and guard nothing.

## 3. Runs

Times and sizes are those of TLC with two workers.

| Run | Instance and bounds | Shows | States |
|---|---|---|---|
| `ingestion` | a poller and a backfiller; an article, its edited version, an older twin of it under another id, an article the validator refuses; one fault; fair workers | `UniqueFingerprint`, `PublishedIsStored`, `StoresAreFinal`, `RepublishesOnlyEdits`, `WatermarksAdvance`, `CollectedIsStored` | 0.37 M |
| `feedcrawl` | nine items, two with one date, pages of two, sixteen requests, one failed request | `CollectedInWindow`, `MissesOnlyOnLastPage`, `CrawlEnds` | 0.16 M |
| `feedcrawl_history` | one window, no failure | **violation** of `HistoryIsComplete` | |
| `extraction` | a news item, a blank one and a post; two prompt configurations of one and two passes; replies with a duplicate, a banned relation and one that stops the chain early; one fault; fair worker | `PublishedAtMostOnce`, `PublishedIsStaged`, `ConsumedIsSettled`, `BackfillCoversTarget`, `StagedIsSound`, `StreamDrains`, refinement of `ExtractionLedger` | 0.54 M |
| `market` | a poller, two symbols with bars, two with vectors, two versions of a bar of which one is refused, a post about two symbols published any number of times, one fault | `TalliesMatchPosts`, `DivergenceIsFresh`, `PolledIsTallied`, `StreamsKeepApart` | 0.53 M |
| `market_live` | poller and backfiller, two versions of a bar, one fault, fair workers | `FeaturesCatchUp` | 36 k |
| `market_ratio` | two trading days, no fault | **violation** of `RatioUsesHistory` | |
| `graph` | two documents that share an entity, replies with a respelt, a doubtful and a badly named relation, batches of two, two faults | `OneNodePerId`, `GraphMatchesLedger`, `ConsumedIsHydrated`, `BackfillHydrates` | 0.18 M |
| `fanout` | three connections, two symbols, two messages, fair task | `SentInOrderOnce`, `UndisturbedReachesAll`, `LeftIsForgotten`, `TaskKeepsUp` | 0.48 M |
| `fanout_skip` | the same, one symbol | **violation** of `EveryActiveIsSent` | |
| `forecasting` | two requests about one symbol, one for now and one for a date whose offset puts it in the other of two hours, the two models of one horizon, a server that comes and goes, one fault; fair handlers | `CleanStartServes`, `AnsweredFromLog`, `ComputedOnce`, `RequestsEnd` | 1.39 M |
| `forecasting_actuals` | one request, no fault, a job that runs again and again | **violation** of `ActualsAreFilled` | |

`CollectedIsStored` allows for what the code gives up: an item whose worker died, and one whose
text is hidden by a stored id that has shown the same text, then perhaps with a later edit of it.

Why the bounds are enough: every hazard listed in `PROJECT.json` needs at most two actors of
a kind, two items that collide (one text under two ids, one id with two texts, two documents
with one entity), and one fault at the wrong moment; a third connection is needed for a list
to shift under a fourth party's loop. `MaxFaults` counts crashes, failed writes, failed
requests and rejoins together, so with one fault every single failure is explored at every
point; the graph takes two, because a duplicate node needs two failures. `forecasting` takes one
horizon, because its two models already fall on both sides of a kill and of a rejection (the
theorems of section 5 hold for any number). Its two requests differ in what their keys can get
wrong: the undated one may be keyed in one hour and predict for the next, the dated one is keyed
by another hour than the one it predicts for, and both may meet under one key (TLC reaches an
answer of the one served to the other, an answer of the hour after its key's, and a start without
a failure that serves no horizon). An orderly stop, a new container, a tick of the clock and
an expired answer are no faults, and happen as often as they can. `MaxLag`, `MaxTopic`
and `MaxMessages` bound the topics, `MaxAt` and `LastDay` the dates, `MaxVersion` the
changes of one bar. Deadlock checking is off where all feeds are exhausted or every process
may be down, which the bounds make possible.

Fairness, and why the code justifies it:

- a live worker goes on (`WF` of its steps): its loops have no exit but an exception, and every
  call it makes has a timeout (HTTP, pymongo, flush, the LLM client);
- nobody restarts a worker: no `Restart` action is fair, and each liveness property allows for
  a worker that stays down;
- a producer sends each buffered message in the end (`SF` per message in `MarketIngestion`,
  strong because the bound on the topic switches the step off while it is full); librdkafka
  serves its queue in order;
- the feature process resumes each of its two consumers again and again (`SF`, since the other
  one's handler switches it off);
- the gateway's event loop goes on while it lives (`WF` of the handlers' steps taken together):
  the calls to the model server and the reasoning engine have HTTP timeouts (httpx's default of
  5 s, and 120 s, `predictions.py:60`, `:67`), and a connection refused fails the request at
  once. The Redis client has no timeout (`main.py:39`): it is assumed to answer or to fail. Nothing
  the model server does is fair: it may stay down;
- the job is fair in `forecasting_actuals` only, where the scheduler runs it every day;
- the broadcast task is resumed after each send and the endpoint after its client has gone.

## 4. Findings

- `feedcrawl_history`: a history crawl loses items inside its window that share a page with
  an item older than the window, although nothing failed (`fireant.py:277`, `:307`).
- `fanout_skip`: a client that disconnects while a broadcast awaits a send shifts the live list
  and the next client misses the price (`stream.py:42`).
- `market_ratio`: the query for earlier bars compares stored strings with a datetime and finds
  nothing, so the volume ratio and the daily return never use history
  (`feature_service.py:57`). The reasoning engine's market query has the same mismatch.
- `forecasting_actuals`: the daily job compares the stored strings with the datetime of a log
  entry too, finds no later bar and never fills in an outcome (`populate_actuals.py:50-52`).

Observations without a run, met while reading:

- a model server started before there are enough features serves nothing and does not try again
  until somebody restarts it; compose gives it no restart policy;
- when only the first classifier was promoted, every later start takes the registry for
  complete (`serving/api.py:34`) and, without any failure of its own, serves only the horizons
  whose two models were promoted, perhaps none, so that every prediction fails.
  `CleanStartServes` says so: only a start that bootstraps serves every horizon, and only over
  enough features and without a rejection;
- a date with an offset shares its key with the same hour written with another one
  (`predictions.py:34`), and without a date the clock is read for the key and again by the handler
  (`:81`), so an answer for another hour may be served. `AnsweredFromLog` says what is left:
  it was computed for what some request with the same key meant;
- the newest vector of a day with posts and no bar has no price, and a request for its symbol is
  refused although quotes exist (`ReadGold`);
- a failed inference comes back as a neutral verdict, which is logged as a prediction and served
  from the cache for twelve hours (`Reason`);
- requests of one symbol and hour that overlap each log a pair: `ComputedOnce` is about requests
  that do not;
- both workers of module 2's document path go on without the unique index on `document_id` when
  creating it fails (`extraction/documents_stream.py:50-51`). It is created once and kept, so
  only a failure at the first start, or duplicates stored before it existed, leave it out; then
  two configurations could each stage and announce a result about one document. `Extraction`
  assumes the index (`Inserts`); module 1's fingerprint index does not depend on that call, the
  repository's constructor creates it and raises (`acquisition/repository/mongodb.py:36`);
- once an outcome were filled in after a first bar, the figures of the later days would never be
  revisited, and entries without a base price would stay among the thousand a run reads;
- the labels of the last days of a symbol become "sideways" (`dataset.py` fills the missing
  return with 0), and a fitted scaler is not used when serving.

## 5. Proofs

Eight modules hold the theorems. They assume only the named assumptions of the modules they
extend, which TLC evaluates in the runs, and range over all constants: any number of workers,
documents, relations, passes, requests, horizons, crashes. What they assume is that the
constants are of their kind (a reply is a list of relations, `BatchSize` is positive), that the
set of documents is finite, and that `None` is no value of the type it completes.

`SetsOfNaturals` holds the lemmas that several components need. Induction is stated there over
sets instead of predicates: a set that holds 0 and the successor of each of its elements up to N
holds them all (`InductionUpTo`, from `Least`), a step function can be iterated N times
(`RecursionUpTo`), and a finite set has a subset of every smaller size (`SubsetOfSize`). With these
a recursive function of a model is proved to compute what it should for every list; such
definitions are written as recursive functions over the indices of a list for this reason.

`ExtractionProofs`:

- `TypeCorrect` (`TypeOK`). `TypeOK` alone is not inductive: a stream worker in the middle of
  a message must have a news document in hand. `TypeInv` adds that (`HandlesNews`).
- `AnnouncedOnce` (`PublishedAtMostOnce`) and `AnnouncedAsStaged` (`PublishedIsStaged`), from
  the inductive invariant `PublicationInv`: whatever is announced, waits in a producer buffer
  or is about to be published is the staged result of its document, and no document is at two
  of these places. The argument is that only the actor whose insert succeeded reaches publish.
- `LedgerRefinement` (`ImplementsLedger`): with `staged` as the ledger and the output topic as
  the log, a successful insert is the ledger's `Stage`, a delivery its `Announce`, and every
  other step stutters. `PublicationInv` is what makes a delivery legal for the ledger.
- `ConsumedMessagesSettled` (`ConsumedIsSettled`), from `ConsumptionInv`: the property itself
  and that the committed offset never passes the position of a message not yet settled.
- `StagesSound` (`StagedIsSound`), from `SoundInv`: what an actor has accumulated is sound after
  every pass, the backfill's query holds news only, and a document past the existence check is
  news with a text. `SanitizeSound` is the step of one pass, for every reply.
- `BackfillCovers` (`BackfillCoversTarget`), from `CoverageInv`: a matched document with a text
  is staged, raised, still in the cursor or in the hands of a task. That the run ends only with
  an empty cursor is `CursorYields`: a finite set of at least `BatchSize` documents has a subset
  of exactly that size, and a smaller one is the last batch.

`DocumentIngestionProofs`:

- `TypeCorrect`, `StoresFinal`, `FingerprintsUnique`: `UniqueFingerprint` is inductive with
  `TypeOK`, because the unique index refuses what the earlier check let through.
- `PublishedStored` and `RepublishedEdits`, from `SendInv`: what a worker is to publish, has
  buffered or has sent is held by the collection, and what it sent before and sends again is
  held only under its id with another text.
- `MarksAdvance` (`WatermarksAdvance`), from `MarkInv`: a poller's marks are at most the newest
  stored date, which never decreases because documents are final.

`FeedCrawlProofs`:

- `TypeCorrect`, `CollectsInWindow` (`CollectedInWindow`): a page contributes what it lists in
  the window and no more than the limit leaves room for (`TakenFits`).
- `SkipsNothing` (`MissesOnlyOnLastPage`), from `CoverInv`, which holds without a failed request:
  every offset is a multiple of the page size, everything newer than the window lies below the
  search's lower bound, and all of the window on the pages already turned is collected or was
  dropped by the last one. A growing feed only pushes items towards higher offsets, so a bound
  that was safe stays safe.
- `CrawlAdvances`: every step of a crawl moves it to a later stage or uses up some of the room left
  in its stage (the offsets up to the end of the feed while it leaps and pages, the interval while
  it bisects). This is the part of `CrawlEnds` that does not need fairness, and it relies on
  `MaxItems`: new items are posted, but not without end.

`MarketPipelineProofs`:

- `TypeCorrect`, from the invariants of the two parts (`IngestionInv`, `FeaturesInv`).
- `TalliesMatch`, `DivergenceFresh`, `StreamsApart`, `PolledTallied`: a vector's tallies are
  those of the posts it names, each write refreshes the divergence, a stream touches its own
  fields only, and a post behind the position is tallied for a symbol unless that symbol is
  still to do, or an error or a crash dropped the post.

`ForecastingProofs`:

- `TypeCorrect`, and `StartsServe` (`CleanStartServes`) from `StartInv`, which follows one
  unhindered start through its phases, for any number of horizons: after a bootstrap the models
  before the current place are promoted, and in both cases those promoted are then loaded. What an
  earlier start left behind only counts when the first model is among it, and then the theorem
  promises no more than the promoted horizons.
- `AnswersAreLogged` (`AnsweredFromLog`) and `ComputedOnlyOnce` (`ComputedOnce`), from
  `AnswerInv`, for any dates and any length of time: a request's handler predicts for what the
  request means, a request about to store is complete and logged, what is cached was computed
  under its key by a request that is done, and while Redis keeps its answers the key of every
  answered request is cached. `DoneRest` and `ComputedStays` carry the argument: nothing touches a
  request that is done, and the log only grows.

`KnowledgeGraphProofs`:

- `NodesUnique` (`OneNodePerId`), from `NodesInv`: with the constraint every id has one node at
  most; without it and without a fault nobody has begun to merge.
- `TypeCorrect`, `GraphMatches` (`GraphMatchesLedger`), `ConsumedHydrated` (`ConsumedIsHydrated`)
  and `BackfillHydratesAll` (`BackfillHydrates`), all from `GraphInv`. It adds to the properties
  what holds between the transactions and the graph: a node that a transaction found absent has
  one copy at most by now, and none while two transactions miss it (`Copies`, without which
  `nodes` could exceed two); every node of an open transaction exists or is one it will create
  (`EndsKnown`); only documents with a result are announced, matched or merged (`InLedger`); a
  document the backfill matched is merged, in its cursor or in its batch (`Covered`).
- The heart of it is `MergedFacts`: for every list of relations and every state of a document's
  edges, the UNWIND of the list leaves at each edge id the text of the first kept relation, unless
  the edge was there, and the confidence of the last one. `MergeHydrates` follows: a merge is
  idempotent, which is why redelivery, replays and a backfill beside the stream do no harm
  (`HydratedForever`: no step ever spoils a document that is in the graph).

`WebSocketFanoutProofs`:

- `TypeCorrect`, `SendsInOrderOnce` (`SentInOrderOnce`), `ReachesAllUndisturbed`
  (`UndisturbedReachesAll`) and `ForgetsTheLeft` (`LeftIsForgotten`), all from `FanoutInv`. The
  loop's cursor is what its arguments turn on: whoever stands after it in the live list has not
  been sent the current message (`AheadUnsent`), because a removal only moves entries towards the
  front (`WithoutFacts`) and a connection enters only at the end; and while nobody was
  unregistered, everybody registered at the beginning has been sent the message or still stands
  after the cursor (`AudienceAhead`).
- `PrunedFacts` is about the calls of `disconnect` after the loop: they only remove
  connections, for every list and every list of failures, also when a `ValueError` cuts them short.

Only model-checked: the liveness properties (`CollectedIsStored`, `CrawlEnds`, `StreamDrains`,
`FeaturesCatchUp`, `TaskKeepsUp`, `RequestsEnd`), which are beyond the prover; of `CrawlEnds` it
has the variant. Every other property that a run checks and TLC confirms is a theorem; the four
that TLC refutes are the findings.

## 6. Not modelled

- What a model learns and predicts, and runs of the training scripts by hand. A model is
  promoted or rejected, which is all the server's start depends on.
- The two backtest lists of the gateway, which only read the log behind a cache of an hour, and
  the job's deletion of those cache entries.
- The minutes of a date, and a client's `Cache-Control: no-cache`, at which the cache decorator
  computes anew what is cached: `ComputedOnce` is about requests without it.
- The reasoning engine's two queries and its prompt: its answer is one step of a request. The
  sentiment and graph routers keep no state.
- The dashboard: its state is that of one browser tab and no other part reads it. What a reader
  should know of its races: answers for an earlier symbol that arrive late overwrite those of
  the selected one; the header keeps the last tick and prediction until new ones arrive; the
  history answer overwrites ticks that came before it; and the late close of an old socket marks
  the new one as disconnected. The live chart's component is unmounted by each selection, so it
  never mixes symbols.
- Prompts and the ontology are text. The LLM cache is never written to in the repository.
- `gold-market-features` has no reader in the repository.
- Abstracted inside the modelled parts: HTML cleaning, hashing, field mapping, HTTP retries
  within one request, the names of graph nodes (the last spelling wins), engagement counts.

## 7. Plan

1. The backtest lists and the job's deletion of their cache, as operations of `PredictionLog`: a
   list is stale by an hour at most, or until the deletion.
2. Composition of `DocumentIngestion` and `Extraction` over `documents` and `financial-news`:
   what is collected ends up staged or is accounted for.
3. `Dashboard`: answers of successive symbols, the history request beside live ticks.
