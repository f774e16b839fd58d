------------------------------ MODULE FeatureStore ------------------------------
(***************************************************************************)
(* Module 2, feature path: modules/extraction/market_stream.py.  One       *)
(* process consumes market-ohlcv and financial-news and merges both into   *)
(* one vector per symbol and day in gold_market_features                   *)
(* (FeatureEngineeringService).                                            *)
(*                                                                         *)
(* The two consumers are coroutines of one event loop.  A handler awaits   *)
(* nothing, so no other handler runs between its reads and its writes; but *)
(* the process may die between the vectors a post is merged into, and the  *)
(* offsets are committed by a thread of their own.                         *)
(*                                                                         *)
(* A topic is kept from the committed offset on: committing drops its      *)
(* prefix, and a restarted consumer reads it again from the start.  The    *)
(* topic gold-market-features is left out: nothing in the repository reads *)
(* it.                                                                     *)
(***************************************************************************)
EXTENDS Naturals, Sequences, FiniteSets

CONSTANTS
  Watchlist,    \* symbols bars come for
  Targets,      \* TARGET_SYMBOLS, those that have feature vectors
  LastDay,      \* bound: trading days
  MaxVersion,   \* bound: versions of one day's bar
  Posts,        \* posts, as financial-news may show them
  PostDay,      \* the day they were published
  MaxLag,       \* bound: messages kept of a topic
  MaxFaults,    \* bound: see MarketIngestion
  None

Days == 1..LastDay
Bars == [symbol : Watchlist, day : Days, version : 1..MaxVersion]
PostIds == {p.id : p \in Posts}

(* An edited post comes again under its id with another sentiment.         *)
PostsAssumption ==  \* assumed by MarketPipeline
  /\ \A p \in Posts : p.sentiment \in {"up", "down", "flat"}
  /\ IsFiniteSet(Posts)
  /\ PostDay \in Days
  /\ None \notin Posts

VARIABLES
  silver,     \* silver_market_quotes: version stored for each bar, or 0
  quotes,     \* market-ohlcv from the committed offset on
  quotesRead, \* how many of them the market consumer has polled
  posts,      \* posts on financial-news from the committed offset on
  postsRead,  \* how many of them the post consumer has polled
  running,    \* the process is alive
  post,       \* the post being merged, or None
  left,       \* its symbols that are yet to be merged
  vectors,    \* gold_market_features
  polled,     \* history: posts ever polled
  dropped,    \* history: posts and symbols lost to an error or a crash
  faults      \* faults so far

handlerVars == <<quotesRead, postsRead, running, post, left>>
historyVars == <<polled, dropped>>
vars == <<silver, quotes, posts, handlerVars, vectors, historyVars, faults>>

(* The part of a vector the two streams own, and the divergence, which     *)
(* derives from both; None is the 0.0 of a vector without one of them.     *)
Blank ==
  [bar |-> 0, prior |-> {}, posts |-> {}, up |-> 0, down |-> 0, flat |-> 0,
   divergence |-> None]

TypeOK ==
  /\ silver \in [Watchlist -> [Days -> 0..MaxVersion]]
  /\ quotes \in Seq(Bars) /\ Len(quotes) <= MaxLag
  /\ quotesRead \in 0..Len(quotes)
  /\ posts \in Seq(Posts) /\ Len(posts) <= MaxLag
  /\ postsRead \in 0..Len(posts)
  /\ running \in BOOLEAN
  /\ post \in Posts \cup {None}
  /\ left \subseteq Targets
  /\ \A s \in Targets, d \in Days :
       LET v == vectors[s][d] IN
       /\ v.bar \in 0..MaxVersion
       /\ v.prior \subseteq 1..(d - 1)
       /\ v.posts \subseteq PostIds
       /\ v.up + v.down + v.flat \in Nat
  /\ polled \subseteq Posts
  /\ dropped \subseteq Posts \X Targets
  /\ faults \in 0..MaxFaults

NoBars == [s \in Watchlist |-> [d \in Days |-> 0]]

Init ==
  /\ silver = NoBars
  /\ quotes = <<>>
  /\ quotesRead = 0
  /\ posts = <<>>
  /\ postsRead = 0
  /\ running = TRUE
  /\ post = None
  /\ left = {}
  /\ vectors = [s \in Targets |-> [d \in Days |-> Blank]]
  /\ polled = {}
  /\ dropped = {}
  /\ faults = 0

-------------------------------------------------------------------------------
Fault(n) == faults' = faults + n /\ faults' <= MaxFaults

(* Module 1 publishes a post, perhaps again.                               *)
PublishPost(p) ==
  /\ Len(posts) < MaxLag
  /\ posts' = Append(posts, p)
  /\ UNCHANGED <<silver, quotes, handlerVars, vectors, historyVars, faults>>

(* No handler is in the middle of a post.                                  *)
Free == running /\ left = {}

-------------------------------------------------------------------------------
(* process_market_quote.                                                   *)

(* Module 1 stores a timestamp as the string model_dump(mode="json") makes *)
(* of it, and the query compares it with a datetime; the database's $lt    *)
(* only matches values of the operand's own type.                          *)
Stored(d) == [type |-> "string", day |-> d]
Asked(d) == [type |-> "date", day |-> d]
Before(stored, asked) == stored.type = asked.type /\ stored.day < asked.day

Prior_AnyDay(s, d) == {e \in Days : silver[s][e] # 0}

Prior(s, d) == {e \in Days : silver[s][e] # 0 /\ Before(Stored(e), Asked(d))}

Divergence(v) ==
  IF v.bar = 0 \/ v.posts = {} THEN None
  ELSE [bar |-> v.bar, up |-> v.up, down |-> v.down, posts |-> v.posts]

WithBar_StaleDivergence(v, b) ==
  [v EXCEPT !.bar = b.version, !.prior = Prior(b.symbol, b.day),
            !.divergence = Divergence(v)]

WithBar(v, b) ==
  LET w == [v EXCEPT !.bar = b.version, !.prior = Prior(b.symbol, b.day)]
  IN [w EXCEPT !.divergence = Divergence(w)]

(* find_one by "_id", and a new vector when there is none.                 *)
Existing_Never(s, d) == Blank

Existing(s, d) == vectors[s][d]

(* One message: it is merged, it is about a symbol without vectors, or the *)
(* handler raises, which is logged.                                        *)
HandleQuote ==
  /\ Free
  /\ quotesRead < Len(quotes)
  /\ quotesRead' = quotesRead + 1
  /\ LET b == quotes[quotesRead + 1] IN
       \/ /\ b.symbol \in Targets
          /\ vectors' = [vectors EXCEPT ![b.symbol][b.day] = WithBar(Existing(b.symbol, b.day), b)]
          /\ UNCHANGED faults
       \/ b.symbol \notin Targets /\ UNCHANGED <<vectors, faults>>
       \/ UNCHANGED vectors /\ Fault(1)
  /\ UNCHANGED <<silver, quotes, posts, postsRead, running, post, left, historyVars>>

-------------------------------------------------------------------------------
(* process_social_post.                                                    *)

PollPost ==
  /\ Free
  /\ postsRead < Len(posts)
  /\ postsRead' = postsRead + 1
  /\ LET p == posts[postsRead + 1] IN
       /\ post' = IF p.symbols \cap Targets = {} THEN None ELSE p
       /\ left' = p.symbols \cap Targets
       /\ polled' = polled \cup {p}
  /\ UNCHANGED <<silver, quotes, posts, quotesRead, running, vectors, dropped, faults>>

(* The idempotency check, and the tallies.                                 *)
Counted_Never(v, p) == FALSE

Counted(v, p) == p.id \in v.posts

WithPost(v, p) ==
  LET tally(polarity, n) == IF p.sentiment = polarity THEN n + 1 ELSE n
      w == [v EXCEPT !.posts = @ \cup {p.id}, !.up = tally("up", @),
                     !.down = tally("down", @), !.flat = tally("flat", @)]
  IN [w EXCEPT !.divergence = Divergence(w)]

Finish_Returns(s) == left' = {} /\ post' = None

Finish(s) ==
  /\ left' = left \ {s}
  /\ post' = IF left' = {} THEN None ELSE post

MergePost(s) ==
  /\ running
  /\ s \in left
  /\ LET v == Existing(s, PostDay) IN
       vectors' = IF Counted(v, post) THEN vectors
                  ELSE [vectors EXCEPT ![s][PostDay] = WithPost(v, post)]
  /\ Finish(s)
  /\ UNCHANGED <<silver, quotes, posts, quotesRead, postsRead, running, historyVars, faults>>

(* A call on the database raises: the rest of the symbols is dropped.      *)
MergeRaises ==
  /\ running
  /\ left # {}
  /\ Fault(1)
  /\ dropped' = dropped \cup {<<post, s>> : s \in left}
  /\ left' = {}
  /\ post' = None
  /\ UNCHANGED <<silver, quotes, posts, quotesRead, postsRead, running, vectors, polled>>

-------------------------------------------------------------------------------
(* The consumers' offsets, and the process.                                *)

CommitQuotes ==
  /\ running
  /\ quotesRead > 0
  /\ quotes' = SubSeq(quotes, quotesRead + 1, Len(quotes))
  /\ quotesRead' = 0
  /\ UNCHANGED <<silver, posts, postsRead, running, post, left, vectors, historyVars, faults>>

CommitPosts ==
  /\ running
  /\ postsRead > 0
  /\ posts' = SubSeq(posts, postsRead + 1, Len(posts))
  /\ postsRead' = 0
  /\ UNCHANGED <<silver, quotes, quotesRead, running, post, left, vectors, historyVars, faults>>

Crash ==
  /\ running
  /\ Fault(1)
  /\ running' = FALSE
  /\ quotesRead' = 0
  /\ postsRead' = 0
  /\ dropped' = dropped \cup {<<post, s>> : s \in left}
  /\ left' = {}
  /\ post' = None
  /\ UNCHANGED <<silver, quotes, posts, vectors, polled>>

Restart ==
  /\ ~running
  /\ running' = TRUE
  /\ UNCHANGED <<silver, quotes, posts, quotesRead, postsRead, post, left, vectors,
                 historyVars, faults>>

-------------------------------------------------------------------------------
Handle == HandleQuote \/ PollPost \/ (\E s \in Targets : MergePost(s)) \/ MergeRaises

Next ==
  \/ \E p \in Posts : PublishPost(p)
  \/ Handle
  \/ CommitQuotes
  \/ CommitPosts
  \/ Crash
  \/ Restart

Spec == Init /\ [][Next]_vars

(* The event loop resumes each consumer again and again, a post's handler  *)
(* runs to its end, and the clients commit in the background.              *)
Fairness ==
  /\ SF_vars(HandleQuote)
  /\ SF_vars(PollPost)
  /\ WF_vars((\E s \in Targets : MergePost(s)) \/ MergeRaises)
  /\ WF_vars(CommitQuotes)
  /\ WF_vars(CommitPosts)

-------------------------------------------------------------------------------
(* Properties.                                                             *)

(* However often a post is published or read again, it is tallied once per *)
(* vector: as many tallies as posts.                                       *)
TalliesMatchPosts ==
  \A s \in Targets, d \in Days :
    LET v == vectors[s][d] IN v.up + v.down + v.flat = Cardinality(v.posts)

(* The divergence of a stored vector is that of its own market data and    *)
(* tallies, whichever of the two streams wrote it last.                    *)
DivergenceIsFresh ==
  \A s \in Targets, d \in Days : vectors[s][d].divergence = Divergence(vectors[s][d])

(* Every post the consumer has polled is tallied for each of its symbols,  *)
(* is being merged, or was dropped by an error or a crash.                 *)
PolledIsTallied ==
  \A p \in polled : \A s \in p.symbols \cap Targets :
    \/ p.id \in vectors[s][PostDay].posts
    \/ <<p, s>> \in dropped
    \/ p = post /\ s \in left

(* Each stream only adds to a vector: what the other stream wrote into it  *)
(* survives (both write the whole document back).                          *)
StreamsKeepApart ==
  [][\A s \in Targets, d \in Days :
       LET v == vectors[s][d]
           w == vectors'[s][d]
       IN /\ v.posts \subseteq w.posts
          /\ w.bar # v.bar => w.posts = v.posts
          /\ w.posts # v.posts => w.bar = v.bar /\ w.prior = v.prior]_vars

(* "volume_ratio: Current volume vs. 20-day moving average": the ratio of  *)
(* a bar is computed from the bars of the earlier days that are stored.    *)
RatioUsesHistory ==
  [][\A s \in Targets, d \in Days :
       vectors'[s][d].bar # vectors[s][d].bar =>
         vectors'[s][d].prior = {e \in 1..(d - 1) : silver[s][e] # 0}]_vars

================================================================================
