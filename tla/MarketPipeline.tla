----------------------------- MODULE MarketPipeline -----------------------------
(***************************************************************************)
(* The market data path end to end: the processes of MarketIngestion fill  *)
(* silver_market_quotes and market-ohlcv, which the process of             *)
(* FeatureStore reads while it also merges the posts of financial-news.    *)
(***************************************************************************)
EXTENDS Naturals, Sequences, FiniteSets

CONSTANTS
  Pollers, Backfillers, Watchlist, Targets, LastDay, MaxVersion, Malformed,
  Posts, PostDay, MaxLag, MaxFaults, None

VARIABLES
  provider, silver, quotes, job, pc, pending, batch, unsaved, outbox,
  quotesRead, posts, postsRead, running, post, left, vectors, polled, dropped,
  faults

Ingestion == INSTANCE MarketIngestion
Features == INSTANCE FeatureStore

ASSUME PipelineAssumption ==
  Ingestion!ConstantsAssumption /\ Features!PostsAssumption

ingestionOnly == <<provider, job, pc, pending, batch, unsaved, outbox>>
featuresOnly ==
  <<quotesRead, posts, postsRead, running, post, left, vectors, polled, dropped>>
vars == <<ingestionOnly, featuresOnly, silver, quotes, faults>>

Init == Ingestion!Init /\ Features!Init

Next ==
  \/ Ingestion!Next /\ UNCHANGED featuresOnly
  \/ Features!Next /\ UNCHANGED ingestionOnly

Spec == Init /\ [][Next]_vars

FairSpec == Spec /\ Ingestion!Fairness /\ Features!Fairness

-------------------------------------------------------------------------------
TypeOK == Ingestion!TypeOK /\ Features!TypeOK

(* A vector tallies exactly the posts merged into it, each of them once.   *)
TalliesMatchPosts == Features!TalliesMatchPosts

(* A vector's divergence derives from the bar and the posts it now holds.  *)
DivergenceIsFresh == Features!DivergenceIsFresh

(* A post that was polled is tallied, unless its handler was interrupted.  *)
PolledIsTallied == Features!PolledIsTallied

(* A step for one stream leaves the other stream's part of a vector alone. *)
StreamsKeepApart == Features!StreamsKeepApart

(* A vector's volume ratio uses the earlier bars stored at that moment.    *)
RatioUsesHistory == Features!RatioUsesHistory

(* The poller takes the last bar again in every cycle, so while it and the *)
(* feature process live, the vector of the last trading day ends up with   *)
(* the bar the provider shows, in spite of lost requests and messages, of  *)
(* failed writes and of a backfill that publishes an older version late.   *)
LastBar(s, d) == provider[s][d] # 0 /\ \A e \in (d + 1)..LastDay : provider[s][e] = 0

CaughtUp ==
  \A s \in Targets \cap Watchlist, d \in 1..LastDay :
    LET b == [symbol |-> s, day |-> d, version |-> provider[s][d]] IN
    LastBar(s, d) /\ b \notin Malformed => vectors[s][d].bar = b.version

FeaturesCatchUp ==
  <>[](running /\ \A w \in Pollers : pc[w] # "off") => <>[]CaughtUp

================================================================================
