-------------------------- MODULE MarketPipelineProofs --------------------------
(***************************************************************************)
(* Theorems about MarketPipeline, for every set of processes, symbols and  *)
(* posts and every bound.                                                  *)
(***************************************************************************)
EXTENDS MarketPipeline, TLAPS, FiniteSetTheorems, SequenceTheorems

-------------------------------------------------------------------------------
(* Market data: TypeOK is not inductive, since a worker must not hold bars *)
(* of a symbol it is still to request, nor any when it begins a pull.      *)
IngestionInv ==
  /\ Ingestion!TypeOK
  /\ batch \in [Ingestion!Workers -> SUBSET Ingestion!Bars]
  /\ unsaved \in [Ingestion!Workers -> SUBSET Ingestion!Bars]
  /\ outbox \in [Ingestion!Workers -> SUBSET Ingestion!Bars]
  /\ \A w \in Ingestion!Workers :
       /\ pc[w] \in {"off", "idle", "closing"} => batch[w] = {} /\ unsaved[w] = {}
       /\ pc[w] = "publish" => unsaved[w] = {}
       /\ pc[w] = "fetch" => unsaved[w] = {} /\ \A b \in batch[w] : b.symbol \notin pending[w]

(* A reply holds bars of its symbol, one for each day.                     *)
LEMMA Replies ==
  ASSUME provider \in Ingestion!Table, NEW w \in Ingestion!Workers, NEW s \in Watchlist
  PROVE  /\ Ingestion!Reply(w, s) \subseteq Ingestion!Bars
         /\ \A b \in Ingestion!Reply(w, s) : b.symbol = s
         /\ \A b, c \in Ingestion!Reply(w, s) : b.day = c.day => b = c
<1>1. \A d \in Ingestion!Traded(s) : Ingestion!Bar(s, d) \in Ingestion!Bars
  BY PipelineAssumption
  DEF Ingestion!ConstantsAssumption, Ingestion!Traded, Ingestion!Bar, Ingestion!Bars,
      Ingestion!Table, Ingestion!Days
<1>2. \A b \in Ingestion!Reply(w, s) :
        \E d \in Ingestion!Traded(s) : b = Ingestion!Bar(s, d)
  BY DEF Ingestion!Reply
<1> QED BY <1>1, <1>2 DEF Ingestion!Bar

LEMMA IngestionKeepsTypes ==
  ASSUME IngestionInv, Ingestion!Next
  PROVE  IngestionInv'
<1> USE PipelineAssumption DEF Ingestion!ConstantsAssumption
<1> USE DEF IngestionInv, Ingestion!TypeOK, Ingestion!Goto, Ingestion!Fault
<1>1. ASSUME NEW s \in Watchlist, NEW d \in Ingestion!Days, Ingestion!Trade(s, d)
      PROVE  IngestionInv'
  BY <1>1 DEF Ingestion!Trade, Ingestion!Table
<1>2. ASSUME NEW w \in Ingestion!Workers, Ingestion!Start(w) PROVE IngestionInv'
  BY <1>2 DEF Ingestion!Start
<1>3. ASSUME NEW w \in Ingestion!Workers, Ingestion!Work(w) PROVE IngestionInv'
  <2>1. CASE Ingestion!NextCycle(w)
    BY <2>1 DEF Ingestion!NextCycle
  <2>2. ASSUME NEW s \in Watchlist, Ingestion!Fetch(w, s) PROVE IngestionInv'
    <3>1. batch' = [batch EXCEPT ![w] = batch'[w]]
          /\ (batch'[w] = batch[w] \cup Ingestion!Reply(w, s) \/ batch'[w] = batch[w])
      BY <2>2 DEF Ingestion!Fetch
    <3>2. /\ pending' = [pending EXCEPT ![w] = @ \ {s}] /\ s \in pending[w]
          /\ pc[w] = "fetch" /\ faults' \in 0..MaxFaults
          /\ UNCHANGED <<provider, silver, quotes, job, pc, unsaved, outbox>>
      BY <2>2 DEF Ingestion!Fetch
    <3>3. /\ batch'[w] \subseteq Ingestion!Bars
          /\ \A b, c \in batch'[w] : b.symbol = c.symbol /\ b.day = c.day => b = c
          /\ \A b \in batch'[w] : b.symbol \notin pending'[w]
      BY <3>1, <3>2, Replies
    <3> QED BY <3>1, <3>2, <3>3
  <2>3. CASE Ingestion!Prepare(w)
    BY <2>3 DEF Ingestion!Prepare, Ingestion!Accepted, Ingestion!Rest
  <2>4. ASSUME NEW b \in batch[w], Ingestion!Save(w, b) PROVE IngestionInv'
    BY <2>4 DEF Ingestion!Save, Ingestion!Table, Ingestion!Bars
  <2>5. CASE Ingestion!EndSaves(w)
    BY <2>5 DEF Ingestion!EndSaves
  <2>6. CASE Ingestion!Publish(w)
    BY <2>6 DEF Ingestion!Publish, Ingestion!Rest
  <2>7. CASE Ingestion!Close(w)
    BY <2>7 DEF Ingestion!Close
  <2> QED BY <1>3, <2>1, <2>2, <2>3, <2>4, <2>5, <2>6, <2>7 DEF Ingestion!Work
<1>4. ASSUME NEW w \in Ingestion!Workers, NEW b \in outbox[w], Ingestion!Deliver(w, b)
      PROVE  IngestionInv'
  <2>1. /\ Append(quotes, b) \in Seq(Ingestion!Bars)
        /\ Len(Append(quotes, b)) = Len(quotes) + 1
    BY AppendProperties
  <2>2. Len(quotes) \in Nat
    BY LenProperties
  <2>3. quotes' \in Seq(Ingestion!Bars) /\ Len(quotes') <= MaxLag
    BY <1>4, <2>1, <2>2 DEF Ingestion!Deliver
  <2> QED BY <1>4, <2>3 DEF Ingestion!Deliver
<1>5. ASSUME NEW w \in Ingestion!Workers, NEW b \in outbox[w], Ingestion!DeliveryFails(w, b)
      PROVE  IngestionInv'
  BY <1>5 DEF Ingestion!DeliveryFails
<1>6. ASSUME NEW w \in Ingestion!Workers, Ingestion!Dies(w) PROVE IngestionInv'
  BY <1>6 DEF Ingestion!Dies
<1> QED BY <1>1, <1>2, <1>3, <1>4, <1>5, <1>6 DEF Ingestion!Next

-------------------------------------------------------------------------------
(* Features: a vector is one record for each target and day.               *)
Divergences ==
  [bar : 0..MaxVersion, up : Nat, down : Nat, posts : SUBSET Features!PostIds] \cup {None}

Vectors ==
  [bar : 0..MaxVersion, prior : SUBSET Nat, posts : SUBSET Features!PostIds,
   up : Nat, down : Nat, flat : Nat, divergence : Divergences]

FeaturesInv ==
  /\ Features!TypeOK
  /\ vectors \in [Targets -> [Features!Days -> Vectors]]
  /\ left # {} => post \in Posts /\ left \subseteq post.symbols

(* What the two streams make of a vector.                                  *)
LEMMA PostTypes ==
  ASSUME NEW p \in Posts
  PROVE  p.id \in Features!PostIds /\ p.sentiment \in {"up", "down", "flat"} /\ p # None
BY PipelineAssumption DEF Features!PostsAssumption, Features!PostIds

LEMMA NoPrior ==
  ASSUME NEW s, NEW d
  PROVE  Features!Prior(s, d) = {}
BY DEF Features!Prior, Features!Before, Features!Stored, Features!Asked

LEMMA WithDivergence ==
  ASSUME NEW v \in Vectors
  PROVE  LET w == [v EXCEPT !.divergence = Features!Divergence(v)] IN
         /\ w \in Vectors
         /\ w.bar = v.bar /\ w.prior = v.prior /\ w.posts = v.posts
         /\ w.up = v.up /\ w.down = v.down /\ w.flat = v.flat
         /\ w.divergence = Features!Divergence(w)
<1> DEFINE w == [v EXCEPT !.divergence = Features!Divergence(v)]
<1>1. Features!Divergence(v) \in Divergences
  BY DEF Features!Divergence, Divergences, Vectors
<1>2. w \in Vectors
  BY <1>1 DEF Vectors
<1>3. /\ w.bar = v.bar /\ w.prior = v.prior /\ w.posts = v.posts
      /\ w.up = v.up /\ w.down = v.down /\ w.flat = v.flat
      /\ w.divergence = Features!Divergence(v)
  BY DEF Vectors
<1> HIDE DEF w
<1>4. Features!Divergence(w) = Features!Divergence(v)
  BY <1>3 DEF Features!Divergence
<1> QED BY <1>2, <1>3, <1>4 DEF w

LEMMA BarMerged ==
  ASSUME NEW v \in Vectors, NEW b \in Features!Bars
  PROVE  LET w == Features!WithBar(v, b) IN
         /\ w \in Vectors
         /\ w.bar = b.version /\ w.prior = {} /\ w.posts = v.posts
         /\ w.up = v.up /\ w.down = v.down /\ w.flat = v.flat
         /\ w.divergence = Features!Divergence(w)
<1> DEFINE u == [v EXCEPT !.bar = b.version, !.prior = {}]
<1>1. b.version \in 0..MaxVersion
  BY DEF Features!Bars
<1>2. /\ u \in Vectors
      /\ u.bar = b.version /\ u.prior = {} /\ u.posts = v.posts
      /\ u.up = v.up /\ u.down = v.down /\ u.flat = v.flat
  BY <1>1 DEF Vectors
<1>3. Features!WithBar(v, b) = [u EXCEPT !.divergence = Features!Divergence(u)]
  BY NoPrior DEF Features!WithBar
<1> HIDE DEF u
<1> QED BY <1>2, <1>3, WithDivergence

LEMMA PostMerged ==
  ASSUME NEW v \in Vectors, NEW p \in Posts
  PROVE  LET w == Features!WithPost(v, p) IN
         /\ w \in Vectors
         /\ w.bar = v.bar /\ w.prior = v.prior /\ w.posts = v.posts \cup {p.id}
         /\ w.up + w.down + w.flat = v.up + v.down + v.flat + 1
         /\ w.divergence = Features!Divergence(w)
<1> DEFINE tally(polarity, n) == IF p.sentiment = polarity THEN n + 1 ELSE n
<1> DEFINE u == [v EXCEPT !.posts = @ \cup {p.id}, !.up = tally("up", @),
                          !.down = tally("down", @), !.flat = tally("flat", @)]
<1>1. v.up \in Nat /\ v.down \in Nat /\ v.flat \in Nat /\ v.posts \subseteq Features!PostIds
  BY DEF Vectors
<1>2. tally("up", v.up) \in Nat /\ tally("down", v.down) \in Nat /\ tally("flat", v.flat) \in Nat
  BY <1>1
<1>3. tally("up", v.up) + tally("down", v.down) + tally("flat", v.flat)
        = v.up + v.down + v.flat + 1
  BY <1>1, PostTypes
<1>4. Features!WithPost(v, p) = [u EXCEPT !.divergence = Features!Divergence(u)]
  BY DEF Features!WithPost
<1> HIDE DEF tally
<1>5. /\ u.bar = v.bar /\ u.prior = v.prior /\ u.posts = v.posts \cup {p.id}
      /\ u.up = tally("up", v.up) /\ u.down = tally("down", v.down)
      /\ u.flat = tally("flat", v.flat)
  BY DEF Vectors
<1>6. u \in Vectors
  BY <1>2, PostTypes DEF Vectors
<1> HIDE DEF u
<1> QED BY <1>3, <1>4, <1>5, <1>6, WithDivergence

(* A step writes one vector, if any: none, that of a bar or that of a post.*)
OneVector(s, d, w) ==
  vectors' = [vectors EXCEPT ![s][d] = w]

LEMMA FeatureWrites ==
  ASSUME FeaturesInv, Features!Next
  PROVE  \/ UNCHANGED vectors
         \/ \E b \in Features!Bars :
              /\ b.symbol \in Targets /\ b.day \in Features!Days
              /\ OneVector(b.symbol, b.day, Features!WithBar(vectors[b.symbol][b.day], b))
         \/ \E s \in left :
              /\ s \in Targets /\ post \in Posts /\ post.id \notin vectors[s][PostDay].posts
              /\ OneVector(s, PostDay, Features!WithPost(vectors[s][PostDay], post))
<1> USE DEF FeaturesInv, Features!TypeOK, OneVector, Features!Existing
<1>1. CASE Features!HandleQuote
  <2>1. quotes[quotesRead + 1] \in Features!Bars
    BY <1>1, ElementOfSeq, LenProperties DEF Features!HandleQuote
  <2> QED BY <1>1, <2>1 DEF Features!HandleQuote, Features!Bars
<1>2. ASSUME NEW s \in Targets, Features!MergePost(s)
      PROVE  \/ UNCHANGED vectors
             \/ /\ s \in left /\ post \in Posts /\ post.id \notin vectors[s][PostDay].posts
                /\ OneVector(s, PostDay, Features!WithPost(vectors[s][PostDay], post))
  BY <1>2 DEF Features!MergePost, Features!Counted
<1>3. CASE \/ \E p \in Posts : Features!PublishPost(p)
           \/ Features!PollPost \/ Features!MergeRaises
           \/ Features!CommitQuotes \/ Features!CommitPosts
           \/ Features!Crash \/ Features!Restart
  BY <1>3
  DEF Features!PublishPost, Features!PollPost, Features!MergeRaises, Features!CommitQuotes,
      Features!CommitPosts, Features!Crash, Features!Restart
<1> QED BY <1>1, <1>2, <1>3 DEF Features!Next, Features!Handle

LEMMA VectorsKeepTypes ==
  ASSUME FeaturesInv, Features!Next
  PROVE  /\ vectors' \in [Targets -> [Features!Days -> Vectors]]
         /\ \A s \in Targets, d \in Features!Days : vectors'[s][d].prior \subseteq 1..(d - 1)
<1> USE PipelineAssumption DEF Features!PostsAssumption, FeaturesInv, OneVector
<1>1. \A s \in Targets, d \in Features!Days : vectors[s][d].prior \subseteq 1..(d - 1)
  BY DEF Features!TypeOK
<1>2. ASSUME NEW s \in Targets, NEW d \in Features!Days, NEW w \in Vectors,
             w.prior \subseteq 1..(d - 1), OneVector(s, d, w)
      PROVE  /\ vectors' \in [Targets -> [Features!Days -> Vectors]]
             /\ \A t \in Targets, e \in Features!Days : vectors'[t][e].prior \subseteq 1..(e - 1)
  BY <1>1, <1>2
<1>3. CASE UNCHANGED vectors
  BY <1>1, <1>3
<1>4. ASSUME NEW b \in Features!Bars, b.symbol \in Targets, b.day \in Features!Days,
             OneVector(b.symbol, b.day, Features!WithBar(vectors[b.symbol][b.day], b))
      PROVE  /\ vectors' \in [Targets -> [Features!Days -> Vectors]]
             /\ \A t \in Targets, e \in Features!Days : vectors'[t][e].prior \subseteq 1..(e - 1)
  BY <1>2, <1>4, BarMerged
<1>5. ASSUME NEW s \in Targets, post \in Posts,
             OneVector(s, PostDay, Features!WithPost(vectors[s][PostDay], post))
      PROVE  /\ vectors' \in [Targets -> [Features!Days -> Vectors]]
             /\ \A t \in Targets, e \in Features!Days : vectors'[t][e].prior \subseteq 1..(e - 1)
  BY <1>1, <1>2, <1>5, PostMerged
<1> QED BY <1>3, <1>4, <1>5, FeatureWrites

LEMMA FeaturesKeepTypes ==
  ASSUME FeaturesInv, Features!Next
  PROVE  FeaturesInv'
<1> USE PipelineAssumption DEF Features!PostsAssumption, Ingestion!ConstantsAssumption
<1> DEFINE VectorsOK ==
      /\ vectors' \in [Targets -> [Features!Days -> Vectors]]
      /\ \A s \in Targets, d \in Features!Days :
           LET v == vectors'[s][d] IN
           /\ v.bar \in 0..MaxVersion
           /\ v.prior \subseteq 1..(d - 1)
           /\ v.posts \subseteq Features!PostIds
           /\ v.up + v.down + v.flat \in Nat
<1>1. VectorsOK
  BY VectorsKeepTypes DEF Vectors
<1> HIDE DEF VectorsOK
<1>2. Len(quotes) \in Nat /\ Len(posts) \in Nat
  BY LenProperties DEF FeaturesInv, Features!TypeOK
<1> DEFINE OthersOK ==
      /\ silver' \in [Watchlist -> [Features!Days -> 0..MaxVersion]]
      /\ quotes' \in Seq(Features!Bars) /\ Len(quotes') <= MaxLag
      /\ quotesRead' \in 0..Len(quotes')
      /\ posts' \in Seq(Posts) /\ Len(posts') <= MaxLag
      /\ postsRead' \in 0..Len(posts')
      /\ running' \in BOOLEAN
      /\ post' \in Posts \cup {None}
      /\ left' \subseteq Targets
      /\ polled' \subseteq Posts
      /\ dropped' \subseteq Posts \X Targets
      /\ faults' \in 0..MaxFaults
      /\ left' # {} => post' \in Posts /\ left' \subseteq post'.symbols
<1> USE DEF FeaturesInv, Features!TypeOK, Features!Fault, Features!handlerVars,
            Features!historyVars
<1>3. ASSUME NEW p \in Posts, Features!PublishPost(p) PROVE OthersOK
  <2>1. Append(posts, p) \in Seq(Posts) /\ Len(Append(posts, p)) = Len(posts) + 1
    BY AppendProperties
  <2> QED BY <1>2, <1>3, <2>1 DEF Features!PublishPost
<1>4. ASSUME Features!HandleQuote PROVE OthersOK
  <2>1. /\ quotesRead' = quotesRead + 1 /\ quotesRead < Len(quotes)
        /\ UNCHANGED <<silver, quotes, posts, postsRead, running, post, left, polled, dropped>>
        /\ faults' \in 0..MaxFaults
    BY <1>4 DEF Features!HandleQuote
  <2>2. quotesRead' \in 0..Len(quotes')
    BY <1>2, <2>1
  <2> QED BY <2>1, <2>2
<1>5. ASSUME Features!PollPost PROVE OthersOK
  <2>1. posts[postsRead + 1] \in Posts
    BY <1>2, <1>5, ElementOfSeq DEF Features!PollPost
  <2> QED BY <1>2, <1>5, <2>1 DEF Features!PollPost
<1>6. ASSUME NEW s \in Targets, Features!MergePost(s) PROVE OthersOK
  BY <1>6 DEF Features!MergePost, Features!Finish
<1>7. ASSUME Features!MergeRaises PROVE OthersOK
  BY <1>7 DEF Features!MergeRaises
<1>8. ASSUME Features!CommitQuotes PROVE OthersOK
  <2>1. /\ SubSeq(quotes, quotesRead + 1, Len(quotes)) \in Seq(Features!Bars)
        /\ Len(SubSeq(quotes, quotesRead + 1, Len(quotes))) \in 0..Len(quotes)
    BY <1>2, SubSeqProperties
  <2> QED BY <1>2, <1>8, <2>1 DEF Features!CommitQuotes
<1>9. ASSUME Features!CommitPosts PROVE OthersOK
  <2>1. /\ SubSeq(posts, postsRead + 1, Len(posts)) \in Seq(Posts)
        /\ Len(SubSeq(posts, postsRead + 1, Len(posts))) \in 0..Len(posts)
    BY <1>2, SubSeqProperties
  <2> QED BY <1>2, <1>9, <2>1 DEF Features!CommitPosts
<1>10. ASSUME Features!Crash PROVE OthersOK
  <2>1. /\ running' = FALSE /\ quotesRead' = 0 /\ postsRead' = 0 /\ left' = {} /\ post' = None
        /\ UNCHANGED <<silver, quotes, posts, polled>>
        /\ faults' \in 0..MaxFaults
    BY <1>10 DEF Features!Crash
  <2>2. dropped' = dropped \cup {<<post, s>> : s \in left}
    BY <1>10 DEF Features!Crash
  <2>3. dropped' \subseteq Posts \X Targets
    BY <2>2
  <2>4. 0 \in 0..Len(quotes') /\ 0 \in 0..Len(posts')
    BY <1>2, <2>1
  <2> QED BY <2>1, <2>3, <2>4
<1>11. ASSUME Features!Restart PROVE OthersOK
  BY <1>11 DEF Features!Restart
<1>12. OthersOK
  BY <1>3, <1>4, <1>5, <1>6, <1>7, <1>8, <1>9, <1>10, <1>11
  DEF Features!Next, Features!Handle
<1> HIDE DEF Features!Fault, Features!handlerVars, Features!historyVars
<1> QED BY <1>1, <1>12 DEF VectorsOK

-------------------------------------------------------------------------------
(* The composition.                                                        *)
TypeInv == IngestionInv /\ FeaturesInv

LEMMA SharedTypes ==
  /\ Ingestion!Days = Features!Days
  /\ Ingestion!Bars = Features!Bars
BY DEF Ingestion!Days, Features!Days, Ingestion!Bars, Features!Bars

LEMMA TypesInvariant == Spec => []TypeInv
<1>1. Init => TypeInv
  <2> SUFFICES ASSUME Init PROVE TypeInv
    OBVIOUS
  <2>1. 0 \in 0..MaxFaults /\ 0 \in 0..MaxVersion /\ 0 <= MaxLag
    BY PipelineAssumption DEF Ingestion!ConstantsAssumption
  <2>2. <<>> \in Seq(Ingestion!Bars) /\ <<>> \in Seq(Posts) /\ Len(<<>>) = 0
    OBVIOUS
  <2>3. IngestionInv
    BY <2>1, <2>2, EmptySeq
    DEF Init, Ingestion!Init, Ingestion!NoBars, IngestionInv, Ingestion!TypeOK, Ingestion!Table
  <2>4. Features!Blank \in Vectors
    BY <2>1 DEF Features!Blank, Vectors, Divergences
  <2>5. vectors \in [Targets -> [Features!Days -> Vectors]]
    BY <2>4 DEF Init, Features!Init
  <2>6. \A s \in Targets, d \in Features!Days :
          LET v == vectors[s][d] IN
          /\ v.bar \in 0..MaxVersion /\ v.prior \subseteq 1..(d - 1)
          /\ v.posts \subseteq Features!PostIds /\ v.up + v.down + v.flat \in Nat
    BY <2>1 DEF Init, Features!Init, Features!Blank
  <2>7. /\ quotes = <<>> /\ quotesRead = 0 /\ posts = <<>> /\ postsRead = 0
        /\ running = TRUE /\ post = None /\ left = {} /\ polled = {} /\ dropped = {}
        /\ faults = 0 /\ silver \in [Watchlist -> [Features!Days -> 0..MaxVersion]]
    BY <2>1 DEF Init, Features!Init, Features!NoBars
  <2>8. Features!TypeOK
    BY <2>1, <2>2, <2>6, <2>7, SharedTypes DEF Features!TypeOK
  <2> QED BY <2>3, <2>5, <2>7, <2>8 DEF TypeInv, FeaturesInv
<1>2. TypeInv /\ [Next]_vars => TypeInv'
  <2> SUFFICES ASSUME TypeInv, [Next]_vars PROVE TypeInv'
    OBVIOUS
  <2>1. CASE Ingestion!Next /\ UNCHANGED featuresOnly
    <3>1. IngestionInv'
      BY <2>1, IngestionKeepsTypes DEF TypeInv
    <3>2. FeaturesInv'
      <4>1. Len(quotes) \in Nat /\ Len(quotes') \in Nat /\ Len(quotes) <= Len(quotes')
        <5>1. quotes' = quotes \/ \E b \in Ingestion!Bars : quotes' = Append(quotes, b)
          BY <2>1
          DEF TypeInv, IngestionInv, Ingestion!Next, Ingestion!Work, Ingestion!Trade,
              Ingestion!Start, Ingestion!NextCycle, Ingestion!Fetch, Ingestion!Prepare,
              Ingestion!Save, Ingestion!EndSaves, Ingestion!Publish, Ingestion!Close,
              Ingestion!Deliver, Ingestion!DeliveryFails, Ingestion!Dies
        <5>2. quotes \in Seq(Ingestion!Bars)
          BY DEF TypeInv, IngestionInv, Ingestion!TypeOK
        <5> QED BY <5>1, <5>2, LenProperties, AppendProperties
      <4>2. quotesRead \in 0..Len(quotes')
        BY <4>1 DEF TypeInv, FeaturesInv, Features!TypeOK
      <4> QED
        BY <2>1, <3>1, <4>2, SharedTypes
        DEF TypeInv, FeaturesInv, Features!TypeOK, IngestionInv, Ingestion!TypeOK,
            Ingestion!Table, featuresOnly
    <3> QED BY <3>1, <3>2 DEF TypeInv
  <2>2. CASE Features!Next /\ UNCHANGED ingestionOnly
    <3>1. FeaturesInv'
      BY <2>2, FeaturesKeepTypes DEF TypeInv
    <3>2. IngestionInv'
      BY <2>2, <3>1, SharedTypes
      DEF TypeInv, FeaturesInv, Features!TypeOK, IngestionInv, Ingestion!TypeOK,
          Ingestion!Table, ingestionOnly
    <3> QED BY <3>1, <3>2 DEF TypeInv
  <2>3. CASE UNCHANGED vars
    <3>1. UNCHANGED <<ingestionOnly, featuresOnly, silver, quotes, faults>>
      BY <2>3 DEF vars
    <3>2. IngestionInv'
      BY <3>1 DEF TypeInv, IngestionInv, Ingestion!TypeOK, ingestionOnly
    <3>3. FeaturesInv'
      BY <3>1 DEF TypeInv, FeaturesInv, Features!TypeOK, featuresOnly
    <3> QED BY <3>2, <3>3 DEF TypeInv
  <2> QED BY <2>1, <2>2, <2>3 DEF Next
<1> QED BY <1>1, <1>2, PTL DEF Spec

(* Every variable of both parts keeps its type.                            *)
THEOREM TypeCorrect == Spec => []TypeOK
<1>1. TypeInv => TypeOK
  BY DEF TypeInv, TypeOK, IngestionInv, FeaturesInv
<1> QED BY <1>1, TypesInvariant, PTL

-------------------------------------------------------------------------------
(* The vectors.  A vector's ids are finitely many, so that a new one counts.*)
LEMMA SameFiniteSets ==
  ASSUME NEW S
  PROVE  /\ Features!IsFiniteSet(S) <=> IsFiniteSet(S)
         /\ Features!Cardinality(S) = Cardinality(S)
BY DEF Features!IsFiniteSet, IsFiniteSet, Features!Cardinality, Cardinality

LEMMA FiniteIds == \A ids \in SUBSET Features!PostIds : IsFiniteSet(ids)
<1>1. IsFiniteSet(Posts)
  BY PipelineAssumption, SameFiniteSets DEF Features!PostsAssumption
<1>2. [p \in Posts |-> p.id] \in Surjection(Posts, Features!PostIds)
  BY DEF Surjection, Features!PostIds
<1>3. IsFiniteSet(Features!PostIds)
  BY <1>1, <1>2, FS_Surjection
<1> QED BY <1>3, FS_Subset

(* What a step of the pipeline does to one vector.                         *)
LEMMA VectorSteps ==
  ASSUME TypeInv, [Next]_vars, NEW s \in Targets, NEW d \in Features!Days
  PROVE  LET v == vectors[s][d]
             w == vectors'[s][d]
         IN /\ v \in Vectors
            /\ \/ w = v
               \/ \E b \in Features!Bars : w = Features!WithBar(v, b)
               \/ \E p \in Posts : p.id \notin v.posts /\ w = Features!WithPost(v, p)
<1>1. vectors \in [Targets -> [Features!Days -> Vectors]]
  BY DEF TypeInv, FeaturesInv
<1>2. CASE UNCHANGED vectors
  BY <1>1, <1>2
<1>3. CASE Features!Next
  <2>1. ASSUME NEW t \in Targets, NEW e \in Features!Days, NEW w, OneVector(t, e, w)
        PROVE  vectors'[s][d] = IF t = s /\ e = d THEN w ELSE vectors[s][d]
    BY <1>1, <2>1 DEF OneVector
  <2>2. PostDay \in Features!Days
    BY PipelineAssumption DEF Features!PostsAssumption
  <2> QED BY <1>1, <1>2, <1>3, <2>1, <2>2, FeatureWrites DEF TypeInv
<1> QED BY <1>2, <1>3 DEF Next, vars, featuresOnly

(* As many tallies as posts, each counted once.                            *)
THEOREM TalliesMatch == Spec => []TalliesMatchPosts
<1>1. Init => TalliesMatchPosts
  <2>1. Features!Cardinality({}) = 0
    BY FS_EmptySet, SameFiniteSets
  <2> SUFFICES ASSUME Init, NEW s \in Targets, NEW d \in Features!Days
               PROVE  vectors[s][d].up + vectors[s][d].down + vectors[s][d].flat
                        = Features!Cardinality(vectors[s][d].posts)
    BY DEF TalliesMatchPosts, Features!TalliesMatchPosts
  <2>2. vectors[s][d] = Features!Blank
    BY DEF Init, Features!Init
  <2>3. /\ Features!Blank.posts = {}
        /\ Features!Blank.up = 0 /\ Features!Blank.down = 0 /\ Features!Blank.flat = 0
    BY DEF Features!Blank
  <2> HIDE DEF Features!Blank
  <2> QED BY <2>1, <2>2, <2>3
<1>2. TypeInv /\ TalliesMatchPosts /\ [Next]_vars => TalliesMatchPosts'
  <2> SUFFICES ASSUME TypeInv, TalliesMatchPosts, [Next]_vars,
                      NEW s \in Targets, NEW d \in Features!Days
               PROVE  LET w == vectors'[s][d] IN w.up + w.down + w.flat = Cardinality(w.posts)
    BY SameFiniteSets DEF TalliesMatchPosts, Features!TalliesMatchPosts
  <2> DEFINE v == vectors[s][d]
             w == vectors'[s][d]
  <2>1. v.up + v.down + v.flat = Cardinality(v.posts)
    BY SameFiniteSets DEF TalliesMatchPosts, Features!TalliesMatchPosts
  <2>2. v \in Vectors
    BY VectorSteps
  <2>3. CASE w = v
    BY <2>1, <2>3
  <2>4. ASSUME NEW b \in Features!Bars, w = Features!WithBar(v, b)
        PROVE  w.up + w.down + w.flat = Cardinality(w.posts)
    BY <2>1, <2>2, <2>4, BarMerged
  <2>5. ASSUME NEW p \in Posts, p.id \notin v.posts, w = Features!WithPost(v, p)
        PROVE  w.up + w.down + w.flat = Cardinality(w.posts)
    <3>1. IsFiniteSet(v.posts)
      BY <2>2, FiniteIds DEF Vectors
    <3>2. Cardinality(v.posts \cup {p.id}) = Cardinality(v.posts) + 1
      BY <2>5, <3>1, FS_AddElement
    <3>3. w.posts = v.posts \cup {p.id} /\ w.up + w.down + w.flat = v.up + v.down + v.flat + 1
      BY <2>2, <2>5, PostMerged
    <3> QED BY <2>1, <3>2, <3>3
  <2> QED BY <2>3, <2>4, <2>5, VectorSteps
<1> QED BY <1>1, <1>2, TypesInvariant, PTL DEF Spec

(* Whichever stream wrote a vector last, its divergence is its own.        *)
THEOREM DivergenceFresh == Spec => []DivergenceIsFresh
<1>1. Init => DivergenceIsFresh
  BY DEF Init, Features!Init, Features!Blank, DivergenceIsFresh, Features!DivergenceIsFresh,
         Features!Divergence
<1>2. TypeInv /\ DivergenceIsFresh /\ [Next]_vars => DivergenceIsFresh'
  <2> SUFFICES ASSUME TypeInv, DivergenceIsFresh, [Next]_vars,
                      NEW s \in Targets, NEW d \in Features!Days
               PROVE  vectors'[s][d].divergence = Features!Divergence(vectors'[s][d])
    BY DEF DivergenceIsFresh, Features!DivergenceIsFresh, Features!Divergence
  <2> DEFINE v == vectors[s][d]
             w == vectors'[s][d]
  <2>1. v.divergence = Features!Divergence(v)
    BY DEF DivergenceIsFresh, Features!DivergenceIsFresh
  <2> QED BY <2>1, VectorSteps, BarMerged, PostMerged
<1> QED BY <1>1, <1>2, TypesInvariant, PTL DEF Spec

(* What the other stream wrote into a vector survives.                     *)
THEOREM StreamsApart == Spec => StreamsKeepApart
<1> DEFINE Apart ==
      \A s \in Targets, d \in Features!Days :
        LET v == vectors[s][d]
            w == vectors'[s][d]
        IN /\ v.posts \subseteq w.posts
           /\ w.bar # v.bar => w.posts = v.posts
           /\ w.posts # v.posts => w.bar = v.bar /\ w.prior = v.prior
<1>1. TypeInv /\ [Next]_vars => Apart
  BY VectorSteps, BarMerged, PostMerged
<1>2. TypeInv /\ [Next]_vars => [Apart]_Features!vars
  BY <1>1
<1> QED BY <1>2, TypesInvariant, PTL DEF Spec, StreamsKeepApart, Features!StreamsKeepApart

(* A post that was polled is tallied, being merged or dropped.             *)
LEMMA FeaturesKeepPolled ==
  ASSUME FeaturesInv, PolledIsTallied, Features!Next,
         \A s \in Targets : vectors[s][PostDay].posts \subseteq vectors'[s][PostDay].posts
  PROVE  PolledIsTallied'
<1> USE DEF PolledIsTallied, Features!PolledIsTallied, FeaturesInv
<1>1. ASSUME UNCHANGED <<polled, dropped, post, left>> PROVE PolledIsTallied'
  BY <1>1
<1>2. CASE Features!HandleQuote \/ Features!CommitQuotes \/ Features!CommitPosts
           \/ Features!Restart \/ \E p \in Posts : Features!PublishPost(p)
  BY <1>1, <1>2
  DEF Features!HandleQuote, Features!CommitQuotes, Features!CommitPosts, Features!Restart,
      Features!PublishPost, Features!handlerVars, Features!historyVars
<1>3. CASE Features!PollPost
  BY <1>3 DEF Features!PollPost, Features!Free
<1>4. ASSUME NEW s \in Targets, Features!MergePost(s) PROVE PolledIsTallied'
  <2>1. post.id \in vectors'[s][PostDay].posts
    <3>1. PostDay \in Features!Days /\ post \in Posts /\ vectors[s][PostDay] \in Vectors
      BY <1>4, PipelineAssumption DEF Features!PostsAssumption, Features!MergePost
    <3> QED BY <1>4, <3>1, PostMerged DEF Features!MergePost, Features!Counted, Features!Existing
  <2>2. /\ left' = left \ {s} /\ (left' # {} => post' = post)
        /\ UNCHANGED <<polled, dropped>>
    BY <1>4 DEF Features!MergePost, Features!Finish, Features!historyVars
  <2> QED BY <2>1, <2>2
<1>5. CASE Features!MergeRaises \/ Features!Crash
  <2>1. dropped' = dropped \cup {<<post, s>> : s \in left} /\ polled' = polled
    BY <1>5 DEF Features!MergeRaises, Features!Crash
  <2> QED BY <2>1
<1> QED BY <1>2, <1>3, <1>4, <1>5 DEF Features!Next, Features!Handle

THEOREM PolledTallied == Spec => []PolledIsTallied
<1>1. Init => PolledIsTallied
  BY DEF Init, Features!Init, PolledIsTallied, Features!PolledIsTallied
<1>2. TypeInv /\ PolledIsTallied /\ [Next]_vars => PolledIsTallied'
  <2> SUFFICES ASSUME TypeInv, PolledIsTallied, [Next]_vars PROVE PolledIsTallied'
    OBVIOUS
  <2>1. \A s \in Targets : vectors[s][PostDay].posts \subseteq vectors'[s][PostDay].posts
    <3>1. PostDay \in Features!Days
      BY PipelineAssumption DEF Features!PostsAssumption
    <3> QED BY <3>1, VectorSteps, BarMerged, PostMerged
  <2>2. CASE Features!Next
    BY <2>1, <2>2, FeaturesKeepPolled DEF TypeInv
  <2>3. CASE UNCHANGED featuresOnly
    BY <2>3 DEF featuresOnly, PolledIsTallied, Features!PolledIsTallied
  <2> QED BY <2>2, <2>3 DEF Next, vars
<1> QED BY <1>1, <1>2, TypesInvariant, PTL DEF Spec

================================================================================
