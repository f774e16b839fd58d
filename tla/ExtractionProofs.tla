--------------------------- MODULE ExtractionProofs ---------------------------
(***************************************************************************)
(* Theorems about Extraction, for every set of documents, relations and    *)
(* replies, every configuration and every bound: results are announced     *)
(* once and as staged (AnnouncedOnce, AnnouncedAsStaged), the service      *)
(* implements ExtractionLedger (LedgerRefinement), no consumed message is  *)
(* lost silently (ConsumedMessagesSettled), what is staged is sound        *)
(* (StagesSound), and a backfill covers its query (BackfillCovers).        *)
(***************************************************************************)
EXTENDS Extraction, SetsOfNaturals, FiniteSetTheorems, TLAPS

-------------------------------------------------------------------------------
(* Type correctness.                                                       *)

LEMMA ConstantTypes ==
  /\ \A a \in Actors : ConfigOf(a) \in Configs /\ Passes[ConfigOf(a)] \in Nat \ {0}
  /\ \A a \in Actors : ProcessOf(a) \in Processes
  /\ \A d \in Docs : d \in Actors /\ d # Stream
  /\ Stream \in Actors
  BY DocsAssumption, ConfigAssumption DEF ConfigOf, Configs, ProcessOf, Processes, Actors

(* The relations the sanitizer keeps are relations of the reply.           *)
LEMMA SanitizeType ==
  ASSUME NEW reply \in Replies \cup {<<>>}, NEW seen
  PROVE  Sanitize(reply, seen) \subseteq Relations
<1>1. \A k \in DOMAIN reply : reply[k] \in Relations
  BY RelationsAssumption
<1> QED BY <1>1 DEF Sanitize

(* While the stream worker handles a message, `current` is a news document *)
(* of the topic; without this the type of `abandoned` is not inductive.    *)
HandlesNews ==
  pc[Stream] \in InFlight => current \in Docs /\ Wanted(current)

TypeInv == TypeOK /\ HandlesNews

LEMMA DocOfType ==
  ASSUME TypeInv, NEW a \in Actors, pc[a] \in InFlight
  PROVE  /\ DocOf(a) \in Docs
         /\ ResultOf(a) \in Results
         /\ MessageOf(a) \in Messages
<1>1. DocOf(a) \in Docs
  BY DEF DocOf, TypeInv, HandlesNews, Actors
<1>2. ResultOf(a) \in Results
  BY ConstantTypes DEF ResultOf, Results, TypeInv, TypeOK
<1> QED BY <1>1, <1>2 DEF MessageOf, Messages

(* A call that ends leaves the types intact, and the stream worker with no *)
(* message when it is the one that ends.                                   *)
LEMMA LeaveType ==
  ASSUME TypeInv, NEW a \in Actors, NEW label \in PcStates \ InFlight,
         Leave(a, label)
  PROVE  /\ pc' \in [Actors -> PcStates]
         /\ pass' \in [Actors -> Nat]
         /\ \A b \in Actors : pass'[b] \in 1..Passes[ConfigOf(b)]
         /\ found' \in [Actors -> SUBSET Relations]
         /\ current' \in Docs \cup {None}
         /\ HandlesNews'
<1>1. pc' \in [Actors -> PcStates] /\ current' \in Docs \cup {None}
  BY DEF TypeInv, TypeOK, Leave, Goto
<1>2. found' \in [Actors -> SUBSET Relations]
  BY DEF TypeInv, TypeOK, Leave
<1>3. pass' \in [Actors -> Nat] /\ \A b \in Actors : pass'[b] \in 1..Passes[ConfigOf(b)]
  BY ConstantTypes DEF TypeInv, TypeOK, Leave
<1>4. HandlesNews'
  <2>1. CASE a = Stream
    BY <2>1, ConstantTypes DEF TypeInv, TypeOK, Leave, Goto, HandlesNews
  <2>2. CASE a # Stream
    BY <2>2, ConstantTypes DEF TypeInv, TypeOK, Leave, Goto, HandlesNews, Wanted
  <2> QED BY <2>1, <2>2
<1> QED BY <1>1, <1>2, <1>3, <1>4

(* Moving an actor within process_document.                                *)
LEMMA GotoType ==
  ASSUME TypeInv, NEW a \in Actors, pc[a] \in InFlight,
         NEW label \in InFlight, Goto(a, label), current' = current
  PROVE  pc' \in [Actors -> PcStates] /\ HandlesNews'
<1>1. InFlight \subseteq PcStates
  BY DEF InFlight, PcStates
<1> QED BY <1>1, ConstantTypes DEF TypeInv, TypeOK, Goto, HandlesNews, Wanted

(* What an exception does to the types, whatever it does to the store.     *)
LEMMA RaiseType ==
  ASSUME TypeInv, NEW a \in Actors, pc[a] \in InFlight, Raise(a),
         UNCHANGED <<feedVars, position, committed, backfillVars, outbox, outTopic, faults>>,
         staged' \in [Docs -> Results \cup {None}]
  PROVE  TypeInv'
<1>1. AfterError(a) \in PcStates \ InFlight
  BY DEF AfterError, PcStates, InFlight
<1>2. abandoned' \subseteq Docs
  BY DEF TypeInv, TypeOK, HandlesNews, Raise
<1>3. Leave(a, AfterError(a))
  BY DEF Raise
<1>4. /\ pc' \in [Actors -> PcStates] /\ pass' \in [Actors -> Nat]
      /\ \A b \in Actors : pass'[b] \in 1..Passes[ConfigOf(b)]
      /\ found' \in [Actors -> SUBSET Relations]
      /\ current' \in Docs \cup {None}
      /\ HandlesNews'
  BY <1>1, <1>3, LeaveType
<1> QED BY <1>2, <1>4 DEF TypeInv, TypeOK, feedVars, backfillVars, ConfigOf

LEMMA ReturnType ==
  ASSUME TypeInv, NEW a \in Actors, Return(a),
         UNCHANGED <<feedVars, position, committed, backfillVars, staged, outTopic, faults>>,
         outbox' \in [Processes -> SUBSET Messages]
  PROVE  TypeInv'
<1> DEFINE label == IF a = Stream THEN "idle" ELSE "done"
<1>1. label \in PcStates \ InFlight
  BY DEF PcStates, InFlight
<1>2. Leave(a, label) /\ abandoned' = abandoned
  BY DEF Return
<1> HIDE DEF label
<1>3. /\ pc' \in [Actors -> PcStates] /\ pass' \in [Actors -> Nat]
      /\ \A b \in Actors : pass'[b] \in 1..Passes[ConfigOf(b)]
      /\ found' \in [Actors -> SUBSET Relations]
      /\ current' \in Docs \cup {None}
      /\ HandlesNews'
  BY <1>1, <1>2, LeaveType
<1> QED BY <1>2, <1>3 DEF TypeInv, TypeOK, feedVars, backfillVars, ConfigOf

LEMMA FinishPassType ==
  ASSUME TypeInv, NEW a \in Actors, FinishPass(a)
  PROVE  TypeInv'
<1> DEFINE total(reply) == found[a] \cup Sanitize(reply, found[a])
           stop(reply) == ChainStops(a, Sanitize(reply, found[a]), total(reply))
<1>1. PICK reply \in Replies \cup {<<>>} :
        /\ found' = [found EXCEPT ![a] = total(reply)]
        /\ pass' = [pass EXCEPT ![a] = IF stop(reply) THEN @ ELSE @ + 1]
        /\ Goto(a, IF stop(reply) THEN "save" ELSE "pass")
  BY DEF FinishPass
<1>2. total(reply) \subseteq Relations
  BY SanitizeType DEF TypeInv, TypeOK
<1>3. stop(reply) \/ pass[a] # Passes[ConfigOf(a)]
  BY DEF ChainStops
<1>4. pc[a] \in InFlight /\ UNCHANGED <<feedVars, streamVars, backfillVars, storeVars, faults>>
  BY DEF FinishPass, InFlight
<1> HIDE DEF total, stop
<1>5. found' \in [Actors -> SUBSET Relations]
  BY <1>1, <1>2 DEF TypeInv, TypeOK
<1>6. /\ pass' \in [Actors -> Nat]
      /\ \A b \in Actors : pass'[b] \in 1..Passes[ConfigOf(b)]
  BY <1>1, <1>3, ConstantTypes DEF TypeInv, TypeOK
<1>7. pc' \in [Actors -> PcStates] /\ HandlesNews'
  <2>1. (IF stop(reply) THEN "save" ELSE "pass") \in InFlight
    BY DEF InFlight
  <2> QED BY <1>1, <1>4, <2>1, GotoType DEF streamVars
<1> QED
  BY <1>4, <1>5, <1>6, <1>7
  DEF TypeInv, TypeOK, ConfigOf, feedVars, streamVars, backfillVars, storeVars

THEOREM TypeInvariant == Spec => []TypeInv
<1> USE DEF vars, feedVars, streamVars, backfillVars, taskVars, storeVars
<1>1. Init => TypeInv
  BY ConstantTypes, BoundsAssumption
  DEF Init, TypeInv, TypeOK, HandlesNews, PcStates, InFlight
<1>2. TypeInv /\ [Next]_vars => TypeInv'
  <2> SUFFICES ASSUME TypeInv, [Next]_vars PROVE TypeInv'
    OBVIOUS
  <2>1. ASSUME NEW d \in Docs, Ingest(d) PROVE TypeInv'
    <3>1. inTopic' \in Seq(Docs) /\ Len(inTopic') \in {Len(inTopic), Len(inTopic) + 1}
      <4>1. inTopic \in Seq(Docs)
        BY DEF TypeInv, TypeOK
      <4>2. inTopic' = inTopic \/ inTopic' = Append(inTopic, d)
        BY <2>1 DEF Ingest
      <4> QED BY <4>1, <4>2
    <3>2. position \in 0..Len(inTopic') /\ committed \in 0..Len(inTopic')
      BY <3>1 DEF TypeInv, TypeOK
    <3> QED BY <2>1, <3>1, <3>2 DEF TypeInv, TypeOK, HandlesNews, Wanted, Ingest, ConfigOf
  <2>2. ASSUME NEW a \in Actors, CheckExists(a) PROVE TypeInv'
    <3>1. CASE Return(a)
      BY <2>2, <3>1, ReturnType DEF CheckExists, TypeInv, TypeOK
    <3>2. CASE Goto(a, "pass") /\ UNCHANGED <<pass, found, current, abandoned>>
      <4>1. pc' \in [Actors -> PcStates] /\ HandlesNews'
        BY <2>2, <3>2, GotoType DEF CheckExists, InFlight
      <4> QED BY <2>2, <3>2, <4>1 DEF CheckExists, TypeInv, TypeOK, ConfigOf
    <3> QED BY <2>2, <3>1, <3>2 DEF CheckExists
  <2>3. ASSUME NEW a \in Actors, StartPass(a) PROVE TypeInv'
    <3>1. pc' \in [Actors -> PcStates] /\ HandlesNews'
      BY <2>3, GotoType DEF StartPass, InFlight
    <3> QED BY <2>3, <3>1 DEF StartPass, TypeInv, TypeOK, ConfigOf
  <2>4. ASSUME NEW a \in Actors, FinishPass(a) PROVE TypeInv'
    BY <2>4, FinishPassType
  <2>5. ASSUME NEW a \in Actors, CallRaises(a) PROVE TypeInv'
    BY <2>5, RaiseType DEF CallRaises, InFlight, TypeInv, TypeOK
  <2>6. ASSUME NEW a \in Actors, Save(a) PROVE TypeInv'
    <3>1. pc[a] \in InFlight
      BY <2>6 DEF Save, InFlight
    <3>2. CASE Inserts(DocOf(a))
      <4>1. staged' \in [Docs -> Results \cup {None}]
        BY <2>6, <3>1, <3>2, DocOfType DEF Save, TypeInv, TypeOK
      <4>2. pc' \in [Actors -> PcStates] /\ HandlesNews'
        BY <2>6, <3>1, <3>2, GotoType DEF Save, InFlight
      <4> QED BY <2>6, <3>2, <4>1, <4>2 DEF Save, TypeInv, TypeOK, ConfigOf
    <3>3. CASE ~Inserts(DocOf(a))
      BY <2>6, <3>1, <3>3, RaiseType DEF Save, TypeInv, TypeOK
    <3> QED BY <3>2, <3>3
  <2>7. ASSUME NEW a \in Actors, SaveBreaks(a) PROVE TypeInv'
    <3>1. pc[a] \in InFlight
      BY <2>7 DEF SaveBreaks, InFlight
    <3>2. staged' \in [Docs -> Results \cup {None}]
      BY <2>7, <3>1, DocOfType DEF SaveBreaks, TypeInv, TypeOK
    <3> QED BY <2>7, <3>1, <3>2, RaiseType DEF SaveBreaks
  <2>8. ASSUME NEW a \in Actors, Publish(a) PROVE TypeInv'
    <3>1. pc[a] \in InFlight
      BY <2>8 DEF Publish, InFlight
    <3>2. outbox' \in [Processes -> SUBSET Messages]
      <4>1. MessageOf(a) \in Messages /\ ProcessOf(a) \in Processes
        BY <3>1, DocOfType, ConstantTypes
      <4> QED BY <2>8, <4>1 DEF Publish, TypeInv, TypeOK
    <3> QED BY <2>8, <3>2, ReturnType DEF Publish
  <2>9. ASSUME NEW p \in Processes, NEW m \in outbox[p], Deliver(p, m) PROVE TypeInv'
    <3>1. m \in Messages /\ outbox' \in [Processes -> SUBSET Messages]
      BY <2>9 DEF Deliver, Unsent, TypeInv, TypeOK
    <3> QED BY <2>9, <3>1 DEF Deliver, TypeInv, TypeOK, HandlesNews, Wanted, ConfigOf
  <2>10. ASSUME NEW p \in Processes, NEW m \in outbox[p], DeliveryFails(p, m) PROVE TypeInv'
    BY <2>10 DEF DeliveryFails, TypeInv, TypeOK, HandlesNews, Wanted, ConfigOf
  <2>11. CASE Poll
    <3>1. inTopic[position + 1] \in Docs /\ position + 1 \in 0..Len(inTopic)
      BY <2>11 DEF Poll, TypeInv, TypeOK
    <3>2. pc' \in [Actors -> PcStates] /\ current' \in Docs \cup {None} /\ HandlesNews'
      <4>1. CASE Wanted(inTopic[position + 1])
        BY <2>11, <3>1, <4>1, ConstantTypes
        DEF Poll, Goto, TypeInv, TypeOK, HandlesNews, Wanted, PcStates
      <4>2. CASE ~Wanted(inTopic[position + 1])
        BY <2>11, <4>2 DEF Poll, TypeInv, TypeOK, HandlesNews, Wanted
      <4> QED BY <4>1, <4>2
    <3> QED BY <2>11, <3>1, <3>2 DEF Poll, TypeInv, TypeOK, ConfigOf
  <2>12. CASE AutoCommit
    BY <2>12 DEF AutoCommit, TypeInv, TypeOK, HandlesNews, Wanted, ConfigOf
  <2>13. CASE Rejoin
    BY <2>13, BoundsAssumption
    DEF Rejoin, ResumeOffset, TypeInv, TypeOK, HandlesNews, Wanted, ConfigOf
  <2>14. CASE StreamCrash
    <3>1. "down" \in PcStates \ InFlight
      BY DEF PcStates, InFlight
    <3>2. abandoned' \subseteq Docs /\ faults' \in 0..MaxFaults
      BY <2>14, BoundsAssumption DEF StreamCrash, TypeInv, TypeOK, HandlesNews
    <3>3. outbox' \in [Processes -> SUBSET Messages]
      BY <2>14 DEF StreamCrash, TypeInv, TypeOK
    <3>4. /\ pc' \in [Actors -> PcStates] /\ pass' \in [Actors -> Nat]
          /\ \A b \in Actors : pass'[b] \in 1..Passes[ConfigOf(b)]
          /\ found' \in [Actors -> SUBSET Relations]
          /\ current' \in Docs \cup {None}
          /\ HandlesNews'
      BY <2>14, <3>1, LeaveType, ConstantTypes DEF StreamCrash
    <3> QED BY <2>14, <3>2, <3>3, <3>4 DEF StreamCrash, TypeInv, TypeOK, ConfigOf
  <2>15. CASE StreamRestart
    BY <2>15, ConstantTypes
    DEF StreamRestart, ResumeOffset, Goto, TypeInv, TypeOK, HandlesNews, PcStates,
        InFlight, ConfigOf
  <2>16. CASE StartBackfill
    BY <2>16, ConstantTypes
    DEF StartBackfill, NoTasks, TypeInv, TypeOK, HandlesNews, Wanted, PcStates, ConfigOf
  <2>17. CASE NextBatch
    <3>1. PICK batch \in Batches(query) :
            /\ query' = query \ batch
            /\ pc' = [a \in Actors |->
                   IF a \in batch /\ Content[a] # "missing" THEN "exists" ELSE pc[a]]
      BY <2>17 DEF NextBatch
    <3>2. Stream \notin batch
      BY ConstantTypes DEF Batches, TypeInv, TypeOK
    <3>3. pc' \in [Actors -> PcStates] /\ pc'[Stream] = pc[Stream]
      BY <3>1, <3>2, ConstantTypes DEF TypeInv, TypeOK, PcStates
    <3> QED
      BY <2>17, <3>1, <3>3 DEF NextBatch, TypeInv, TypeOK, HandlesNews, Wanted, ConfigOf
  <2>18. CASE FinishBackfill
    BY <2>18 DEF FinishBackfill, TypeInv, TypeOK, HandlesNews, Wanted, ConfigOf
  <2>19. CASE BackfillCrash
    <3>1. pc' \in [Actors -> PcStates] /\ pc'[Stream] = pc[Stream]
      BY <2>19, ConstantTypes DEF BackfillCrash, NoTasks, TypeInv, TypeOK, PcStates
    <3>2. found' \in [Actors -> SUBSET Relations]
      BY <2>19 DEF BackfillCrash, TypeInv, TypeOK
    <3>3. /\ pass' \in [Actors -> Nat]
          /\ \A b \in Actors : pass'[b] \in 1..Passes[ConfigOf(b)]
      BY <2>19, ConstantTypes DEF BackfillCrash, TypeInv, TypeOK
    <3>4. outbox' \in [Processes -> SUBSET Messages]
      BY <2>19 DEF BackfillCrash, TypeInv, TypeOK
    <3> QED
      BY <2>19, <3>1, <3>2, <3>3, <3>4, BoundsAssumption
      DEF BackfillCrash, TypeInv, TypeOK, HandlesNews, Wanted, ConfigOf
  <2>20. CASE UNCHANGED vars
    BY <2>20 DEF TypeInv, TypeOK, HandlesNews, Wanted, ConfigOf
  <2> QED
    BY <2>1, <2>2, <2>3, <2>4, <2>5, <2>6, <2>7, <2>8, <2>9, <2>10, <2>11, <2>12,
       <2>13, <2>14, <2>15, <2>16, <2>17, <2>18, <2>19, <2>20
    DEF Next, Task, Broker
<1> QED BY <1>1, <1>2, PTL DEF Spec

(* TypeOK of Extraction.cfg, for every instance.                           *)
THEOREM TypeCorrect == Spec => []TypeOK
<1>1. TypeInv => TypeOK
  BY DEF TypeInv
<1> QED BY <1>1, TypeInvariant, PTL

-------------------------------------------------------------------------------
(* Publication: PublishedAtMostOnce and PublishedIsStaged.                 *)
(*                                                                         *)
(* The gate is the unique document_id: an actor reaches "publish" only     *)
(* through the insert that staged the document, so until that actor hands  *)
(* the result to a producer no other actor and no message speaks of the    *)
(* document.  PublicationInv says so of each place a result can be.        *)

Announced(d) ==
  \/ \E p \in Processes : \E m \in outbox[p] : m.doc = d
  \/ \E i \in 1..Len(outTopic) : outTopic[i].doc = d

PendingIsStaged ==
  \A p \in Processes : \A m \in outbox[p] : staged[m.doc] = m.result

PendingOnce ==
  \A p, q \in Processes : \A m \in outbox[p], n \in outbox[q] :
    m.doc = n.doc => p = q

PendingIsNew ==
  \A p \in Processes : \A m \in outbox[p] :
    \A i \in 1..Len(outTopic) : outTopic[i].doc # m.doc

PublisherIsFirst ==
  \A a \in Actors : pc[a] = "publish" =>
    staged[DocOf(a)] = ResultOf(a) /\ ~Announced(DocOf(a))

OnePublisher ==
  \A a, b \in Actors :
    pc[a] = "publish" /\ pc[b] = "publish" /\ DocOf(a) = DocOf(b) => a = b

PublicationInv ==
  /\ PendingIsStaged
  /\ PendingOnce
  /\ PendingIsNew
  /\ PublisherIsFirst
  /\ OnePublisher
  /\ PublishedAtMostOnce
  /\ PublishedIsStaged

LEMMA LoggedType ==
  ASSUME TypeInv, NEW i \in 1..Len(outTopic)
  PROVE  outTopic[i].doc \in Docs /\ outTopic[i].result \in Results
<1>1. outTopic[i] \in Messages
  BY DEF TypeInv, TypeOK
<1> QED BY <1>1 DEF Messages

(* What is announced, or about to be, is staged.                           *)
LEMMA AnnouncedIsStaged ==
  ASSUME TypeInv, PublicationInv, NEW d \in Docs,
         Announced(d) \/ \E a \in Actors : pc[a] = "publish" /\ DocOf(a) = d
  PROVE  staged[d] # None
<1>1. \A p \in Processes : \A m \in outbox[p] : m.result \in Results /\ m.result # None
  BY ConfigAssumption DEF TypeInv, TypeOK, Messages
<1>2. \A i \in 1..Len(outTopic) : outTopic[i].result \in Results /\ outTopic[i].result # None
  BY ConfigAssumption, LoggedType
<1>3. \A a \in Actors : pc[a] = "publish" => ResultOf(a) # None
  BY DocOfType, ConfigAssumption DEF InFlight
<1> QED
  BY <1>1, <1>2, <1>3
  DEF Announced, PublicationInv, PendingIsStaged, PublishedIsStaged, PublisherIsFirst

(* Steps that announce nothing, send nothing and start no publication:     *)
(* whatever else they do to the store, staged results stay.                *)
SilentStep ==
  /\ outTopic' = outTopic
  /\ \A p \in Processes : outbox'[p] \subseteq outbox[p]
  /\ \A d \in Docs : staged[d] # None => staged'[d] = staged[d]
  /\ \A a \in Actors : pc'[a] = "publish" =>
       pc[a] = "publish" /\ found'[a] = found[a] /\ (a = Stream => current' = current)

LEMMA SilentStepPublication ==
  ASSUME TypeInv, PublicationInv, SilentStep
  PROVE  PublicationInv'
<1> USE DEF SilentStep
<1>1. \A d \in Docs : Announced(d) => staged'[d] = staged[d]
  BY AnnouncedIsStaged
<1>2. \A p \in Processes : \A m \in outbox[p] : m.doc \in Docs /\ Announced(m.doc)
  BY DEF Announced, TypeInv, TypeOK, Messages
<1>3. \A i \in 1..Len(outTopic) : outTopic[i].doc \in Docs /\ Announced(outTopic[i].doc)
  BY LoggedType DEF Announced
<1>4. PendingIsStaged'
  BY <1>1, <1>2 DEF PublicationInv, PendingIsStaged
<1>5. PublishedIsStaged' /\ PublishedAtMostOnce'
  BY <1>1, <1>3 DEF PublicationInv, PublishedIsStaged, PublishedAtMostOnce
<1>6. PendingOnce' /\ PendingIsNew'
  BY DEF PublicationInv, PendingOnce, PendingIsNew
<1>7. \A d : Announced(d)' => Announced(d)
  BY DEF Announced
<1>8. ASSUME NEW a \in Actors, pc'[a] = "publish"
      PROVE  /\ pc[a] = "publish"
             /\ DocOf(a)' = DocOf(a)
             /\ ResultOf(a)' = ResultOf(a)
  BY <1>8 DEF DocOf, ResultOf, ConfigOf
<1>9. ASSUME NEW a \in Actors, pc'[a] = "publish"
      PROVE  (staged[DocOf(a)] = ResultOf(a) /\ ~Announced(DocOf(a)))'
  <2>1. DocOf(a) \in Docs
    BY <1>8, <1>9, DocOfType DEF InFlight
  <2>2. staged'[DocOf(a)] = staged[DocOf(a)]
    BY <1>8, <1>9, <2>1, AnnouncedIsStaged
  <2>3. staged[DocOf(a)] = ResultOf(a) /\ ~Announced(DocOf(a))
    BY <1>8, <1>9 DEF PublicationInv, PublisherIsFirst
  <2> QED BY <1>7, <1>8, <1>9, <2>2, <2>3
<1>10. PublisherIsFirst'
  BY <1>9 DEF PublisherIsFirst
<1>11. OnePublisher'
  BY <1>8 DEF PublicationInv, OnePublisher
<1> QED BY <1>4, <1>5, <1>6, <1>10, <1>11 DEF PublicationInv

(* The insert: nothing was said of the document before it.                 *)
LEMMA SavePublication ==
  ASSUME TypeInv, PublicationInv, NEW a \in Actors, Save(a), Inserts(DocOf(a))
  PROVE  PublicationInv'
<1> DEFINE d == DocOf(a)
<1>1. d \in Docs /\ ResultOf(a) \in Results
  BY DocOfType DEF Save, InFlight
<1>2. staged[d] = None /\ staged' = [staged EXCEPT ![d] = ResultOf(a)]
  BY DEF Save, Inserts
<1>3. pc' = [pc EXCEPT ![a] = "publish"]
  BY DEF Save, Goto
<1>4. UNCHANGED <<outbox, outTopic, found, current>>
  BY DEF Save
<1>5. ~Announced(d) /\ \A b \in Actors : pc[b] = "publish" => DocOf(b) # d
  BY <1>1, <1>2, AnnouncedIsStaged
<1>6. \A b \in Actors : DocOf(b)' = DocOf(b) /\ ResultOf(b)' = ResultOf(b)
  BY <1>4 DEF DocOf, ResultOf, ConfigOf
<1>7. \A e : Announced(e)' <=> Announced(e)
  BY <1>4 DEF Announced
<1>8. \A e \in Docs : e # d => staged'[e] = staged[e]
  BY <1>2 DEF TypeInv, TypeOK
<1>9. staged'[d] = ResultOf(a)
  BY <1>1, <1>2 DEF TypeInv, TypeOK
<1>10. \A b \in Actors : pc'[b] = "publish" => b = a \/ pc[b] = "publish"
  BY <1>3 DEF TypeInv, TypeOK
<1> HIDE DEF d
<1>11. PendingIsStaged'
  <2> SUFFICES ASSUME NEW p \in Processes, NEW m \in outbox[p]
               PROVE  staged'[m.doc] = m.result
    BY <1>4 DEF PendingIsStaged
  <2>1. m.doc \in Docs /\ m.doc # d
    BY <1>5 DEF Announced, TypeInv, TypeOK, Messages
  <2> QED BY <2>1, <1>8 DEF PublicationInv, PendingIsStaged
<1>12. PublishedIsStaged'
  <2> SUFFICES ASSUME NEW i \in 1..Len(outTopic)
               PROVE  staged'[outTopic[i].doc] = outTopic[i].result
    BY <1>4 DEF PublishedIsStaged
  <2>1. outTopic[i].doc \in Docs /\ outTopic[i].doc # d
    BY <1>5, LoggedType DEF Announced
  <2> QED BY <2>1, <1>8 DEF PublicationInv, PublishedIsStaged
<1>13. PendingOnce' /\ PendingIsNew' /\ PublishedAtMostOnce'
  BY <1>4 DEF PublicationInv, PendingOnce, PendingIsNew, PublishedAtMostOnce
<1>14. ASSUME NEW b \in Actors, pc'[b] = "publish"
       PROVE  (staged[DocOf(b)] = ResultOf(b) /\ ~Announced(DocOf(b)))'
  <2>1. CASE b = a
    BY <2>1, <1>5, <1>6, <1>7, <1>9 DEF d
  <2>2. CASE b # a
    <3>1. pc[b] = "publish" /\ DocOf(b) \in Docs /\ DocOf(b) # d
      BY <1>5, <1>10, <1>14, <2>2, DocOfType DEF InFlight
    <3> QED BY <3>1, <1>6, <1>7, <1>8 DEF PublicationInv, PublisherIsFirst
  <2> QED BY <2>1, <2>2
<1>15. PublisherIsFirst'
  BY <1>14 DEF PublisherIsFirst
<1>16. OnePublisher'
  <2> SUFFICES ASSUME NEW b \in Actors, NEW c \in Actors,
                      pc'[b] = "publish", pc'[c] = "publish", DocOf(b) = DocOf(c)
               PROVE  b = c
    BY <1>6 DEF OnePublisher
  <2> QED BY <1>5, <1>10 DEF d, PublicationInv, OnePublisher
<1> QED BY <1>11, <1>12, <1>13, <1>15, <1>16 DEF PublicationInv

(* publish moves the right to announce from the actor to the message.      *)
LEMMA PublishPublication ==
  ASSUME TypeInv, PublicationInv, NEW a \in Actors, Publish(a)
  PROVE  PublicationInv'
<1> DEFINE m == MessageOf(a)
           p == ProcessOf(a)
           d == DocOf(a)
<1>1. pc[a] = "publish" /\ UNCHANGED <<staged, outTopic>> /\ Return(a)
  BY DEF Publish
<1>2. pc'[a] # "publish" /\ \A b \in Actors : b # a =>
        pc'[b] = pc[b] /\ found'[b] = found[b] /\ (b = Stream => current' = current)
  BY <1>1 DEF Return, Leave, Goto, TypeInv, TypeOK
<1>3. CASE outbox' = outbox
  <2>1. SilentStep
    BY <1>1, <1>2, <1>3 DEF SilentStep
  <2> QED BY <2>1, SilentStepPublication
<1>4. CASE outbox' = [outbox EXCEPT ![p] = @ \cup {m}]
  <2>1. m.doc = d /\ m.result = ResultOf(a) /\ p \in Processes
    BY ConstantTypes DEF MessageOf
  <2>2. staged[d] = ResultOf(a) /\ ~Announced(d)
    BY <1>1 DEF PublicationInv, PublisherIsFirst
  <2>3. \A b \in Actors : pc[b] = "publish" /\ b # a => DocOf(b) # d
    BY <1>1 DEF PublicationInv, OnePublisher
  <2>4. /\ \A q \in Processes : q # p => outbox'[q] = outbox[q]
        /\ outbox'[p] = outbox[p] \cup {m}
    BY <1>4, <2>1 DEF TypeInv, TypeOK
  <2>5. \A b \in Actors : pc'[b] = "publish" =>
          pc[b] = "publish" /\ b # a /\ DocOf(b)' = DocOf(b) /\ ResultOf(b)' = ResultOf(b)
    BY <1>2 DEF DocOf, ResultOf, ConfigOf
  <2> HIDE DEF m, p, d
  <2>6. PendingIsStaged'
    BY <1>1, <2>1, <2>2, <2>4 DEF PublicationInv, PendingIsStaged
  <2>7. PendingOnce'
    <3> SUFFICES ASSUME NEW q \in Processes, NEW r \in Processes,
                        NEW x \in outbox'[q], NEW y \in outbox'[r], x.doc = y.doc
                 PROVE  q = r
      BY DEF PendingOnce
    <3>1. (x \in outbox[q] \/ (q = p /\ x = m)) /\ (y \in outbox[r] \/ (r = p /\ y = m))
      BY <2>4
    <3>2. CASE x \in outbox[q] /\ y \in outbox[r]
      BY <3>2 DEF PublicationInv, PendingOnce
    <3>3. CASE q = p /\ x = m
      BY <3>1, <3>3, <2>1, <2>2 DEF Announced
    <3>4. CASE r = p /\ y = m
      BY <3>1, <3>4, <2>1, <2>2 DEF Announced
    <3> QED BY <3>1, <3>2, <3>3, <3>4
  <2>8. PendingIsNew'
    BY <1>1, <2>1, <2>2, <2>4 DEF PublicationInv, PendingIsNew, Announced
  <2>9. \A e : e # d /\ Announced(e)' => Announced(e)
    BY <1>1, <2>1, <2>4 DEF Announced
  <2>10. PublisherIsFirst'
    <3> SUFFICES ASSUME NEW b \in Actors, pc'[b] = "publish"
                 PROVE  (staged[DocOf(b)] = ResultOf(b) /\ ~Announced(DocOf(b)))'
      BY DEF PublisherIsFirst
    <3>1. pc[b] = "publish" /\ DocOf(b) # d
      BY <2>3, <2>5
    <3>2. staged[DocOf(b)] = ResultOf(b) /\ ~Announced(DocOf(b))
      BY <3>1 DEF PublicationInv, PublisherIsFirst
    <3> QED BY <1>1, <2>5, <2>9, <3>1, <3>2
  <2>11. OnePublisher'
    BY <2>5 DEF PublicationInv, OnePublisher
  <2>12. PublishedAtMostOnce' /\ PublishedIsStaged'
    BY <1>1 DEF PublicationInv, PublishedAtMostOnce, PublishedIsStaged
  <2> QED BY <2>6, <2>7, <2>8, <2>10, <2>11, <2>12 DEF PublicationInv
<1> QED BY <1>3, <1>4 DEF Publish

(* The broker's acknowledgement moves the message to the topic.            *)
LEMMA DeliverPublication ==
  ASSUME TypeInv, PublicationInv, NEW p \in Processes, NEW m \in outbox[p],
         Deliver(p, m)
  PROVE  PublicationInv'
<1>1. /\ outTopic' = Append(outTopic, m)
      /\ UNCHANGED <<taskVars, staged, current>>
      /\ outbox' = [outbox EXCEPT ![p] = @ \ {m}]
  BY DEF Deliver, Unsent, streamVars
<1>2. m \in Messages /\ outTopic \in Seq(Messages)
  BY DEF TypeInv, TypeOK
<1>3. /\ Len(outTopic') = Len(outTopic) + 1
      /\ \A i \in 1..Len(outTopic) : outTopic'[i] = outTopic[i]
      /\ outTopic'[Len(outTopic) + 1] = m
      /\ Len(outTopic) \in Nat
  BY <1>1, <1>2
<1>4. \A i \in 1..Len(outTopic') : i \in 1..Len(outTopic) \/ outTopic'[i] = m
  BY <1>3
<1>5. \A q \in Processes : outbox'[q] \subseteq outbox[q]
  BY <1>1 DEF TypeInv, TypeOK
<1>6. \A x \in outbox'[p] : x.doc # m.doc
  <2> SUFFICES ASSUME NEW x \in outbox'[p], x.doc = m.doc PROVE FALSE
    OBVIOUS
  <2>1. x \in outbox[p] /\ x # m /\ x \in Messages
    BY <1>1 DEF TypeInv, TypeOK
  <2>2. x.result = m.result
    BY <2>1 DEF PublicationInv, PendingIsStaged
  <2> QED BY <1>2, <2>1, <2>2 DEF Messages
<1>7. PendingIsStaged' /\ PendingOnce'
  BY <1>1, <1>5 DEF PublicationInv, PendingIsStaged, PendingOnce
<1>8. PendingIsNew'
  <2> SUFFICES ASSUME NEW q \in Processes, NEW x \in outbox'[q],
                      NEW i \in 1..Len(outTopic')
               PROVE  outTopic'[i].doc # x.doc
    BY DEF PendingIsNew
  <2>1. x \in outbox[q]
    BY <1>5
  <2>2. CASE i \in 1..Len(outTopic)
    BY <1>3, <2>1, <2>2 DEF PublicationInv, PendingIsNew
  <2>3. CASE outTopic'[i] = m
    BY <1>6, <2>1, <2>3 DEF PublicationInv, PendingOnce
  <2> QED BY <1>4, <2>2, <2>3
<1>9. PublishedAtMostOnce'
  <2> SUFFICES ASSUME NEW i \in 1..Len(outTopic'), NEW j \in 1..Len(outTopic'),
                      outTopic'[i].doc = outTopic'[j].doc
               PROVE  i = j
    BY DEF PublishedAtMostOnce
  <2>1. \A k \in 1..Len(outTopic) : outTopic[k].doc # m.doc
    BY DEF PublicationInv, PendingIsNew
  <2>2. \A k \in 1..Len(outTopic') : k \in 1..Len(outTopic) \/ k = Len(outTopic) + 1
    BY <1>3
  <2>3. CASE i \in 1..Len(outTopic) /\ j \in 1..Len(outTopic)
    BY <1>3, <2>3 DEF PublicationInv, PublishedAtMostOnce
  <2> QED BY <1>3, <2>1, <2>2, <2>3
<1>10. PublishedIsStaged'
  BY <1>1, <1>3, <1>4
  DEF PublicationInv, PublishedIsStaged, PendingIsStaged
<1>11. \A e : Announced(e)' => Announced(e)
  <2> SUFFICES ASSUME NEW e, Announced(e)' PROVE Announced(e)
    OBVIOUS
  <2>1. CASE \E q \in Processes : \E x \in outbox'[q] : x.doc = e
    BY <1>5, <2>1 DEF Announced
  <2>2. CASE \E i \in 1..Len(outTopic') : outTopic'[i].doc = e
    BY <1>3, <1>4, <2>2 DEF Announced
  <2> QED BY <2>1, <2>2 DEF Announced
<1>12. \A b \in Actors : DocOf(b)' = DocOf(b) /\ ResultOf(b)' = ResultOf(b) /\ pc' = pc
  BY <1>1 DEF DocOf, ResultOf, ConfigOf, taskVars
<1>13. PublisherIsFirst' /\ OnePublisher'
  BY <1>1, <1>11, <1>12 DEF PublicationInv, PublisherIsFirst, OnePublisher
<1> QED BY <1>7, <1>8, <1>9, <1>10, <1>13 DEF PublicationInv

(* Every step keeps PublicationInv: three of them touch what it is about,  *)
(* the others are silent.                                                  *)
LEMMA PublicationStep ==
  ASSUME TypeInv, PublicationInv, [Next]_vars
  PROVE  PublicationInv'
<1> USE DEF vars, feedVars, streamVars, backfillVars, taskVars, storeVars
<1>1. ASSUME SilentStep PROVE PublicationInv'
  BY <1>1, SilentStepPublication
<1>2. ASSUME NEW a \in Actors, NEW label \in PcStates, Leave(a, label), label # "publish",
             UNCHANGED outTopic,
             \A p \in Processes : outbox'[p] \subseteq outbox[p],
             \A d \in Docs : staged[d] # None => staged'[d] = staged[d]
      PROVE  SilentStep
  BY <1>2 DEF SilentStep, Leave, Goto, TypeInv, TypeOK
<1>3. ASSUME NEW d \in Docs, Ingest(d) PROVE PublicationInv'
  BY <1>3, <1>1 DEF Ingest, SilentStep
<1>4. ASSUME NEW a \in Actors, CheckExists(a) PROVE PublicationInv'
  BY <1>4, <1>1, <1>2 DEF CheckExists, Return, Goto, SilentStep, TypeInv, TypeOK, PcStates
<1>5. ASSUME NEW a \in Actors, StartPass(a) PROVE PublicationInv'
  BY <1>5, <1>1 DEF StartPass, Goto, SilentStep, TypeInv, TypeOK
<1>6. ASSUME NEW a \in Actors, FinishPass(a) PROVE PublicationInv'
  <2>1. /\ pc'[a] # "publish"
        /\ \A b \in Actors \ {a} : pc'[b] = pc[b] /\ found'[b] = found[b]
    BY <1>6 DEF FinishPass, Goto, TypeInv, TypeOK
  <2>2. UNCHANGED <<streamVars, storeVars>>
    BY <1>6 DEF FinishPass
  <2> QED BY <1>1, <2>1, <2>2 DEF SilentStep
<1>7. ASSUME NEW a \in Actors, CallRaises(a) PROVE PublicationInv'
  BY <1>7, <1>1, <1>2 DEF CallRaises, Raise, AfterError, PcStates
<1>8. ASSUME NEW a \in Actors, Save(a) PROVE PublicationInv'
  <2>1. CASE Inserts(DocOf(a))
    BY <1>8, <2>1, SavePublication
  <2>2. CASE ~Inserts(DocOf(a))
    BY <1>8, <2>2, <1>1, <1>2 DEF Save, Raise, AfterError, PcStates
  <2> QED BY <2>1, <2>2
<1>9. ASSUME NEW a \in Actors, SaveBreaks(a) PROVE PublicationInv'
  <2>1. \A d \in Docs : staged[d] # None => staged'[d] = staged[d]
    BY <1>9 DEF SaveBreaks, Inserts, TypeInv, TypeOK
  <2> QED BY <1>9, <2>1, <1>1, <1>2 DEF SaveBreaks, Raise, AfterError, PcStates
<1>10. ASSUME NEW a \in Actors, Publish(a) PROVE PublicationInv'
  BY <1>10, PublishPublication
<1>11. ASSUME NEW p \in Processes, NEW m \in outbox[p], Deliver(p, m) PROVE PublicationInv'
  BY <1>11, DeliverPublication
<1>12. ASSUME NEW p \in Processes, NEW m \in outbox[p], DeliveryFails(p, m)
       PROVE  PublicationInv'
  BY <1>12, <1>1 DEF DeliveryFails, SilentStep, TypeInv, TypeOK
<1>13. CASE Poll
  BY <1>13, <1>1 DEF Poll, Goto, SilentStep, TypeInv, TypeOK
<1>14. CASE AutoCommit
  BY <1>14, <1>1 DEF AutoCommit, SilentStep
<1>15. CASE Rejoin
  BY <1>15, <1>1 DEF Rejoin, SilentStep
<1>16. CASE StreamCrash
  <2>1. \A p \in Processes : outbox'[p] \subseteq outbox[p]
    BY <1>16 DEF StreamCrash, TypeInv, TypeOK
  <2> QED BY <1>16, <2>1, <1>1, <1>2, ConstantTypes DEF StreamCrash, PcStates
<1>17. CASE StreamRestart
  BY <1>17, <1>1 DEF StreamRestart, Goto, SilentStep, TypeInv, TypeOK
<1>18. CASE StartBackfill
  BY <1>18, <1>1 DEF StartBackfill, NoTasks, SilentStep
<1>19. CASE NextBatch
  BY <1>19, <1>1 DEF NextBatch, SilentStep
<1>20. CASE FinishBackfill
  BY <1>20, <1>1 DEF FinishBackfill, SilentStep
<1>21. CASE BackfillCrash
  BY <1>21, <1>1, ConstantTypes DEF BackfillCrash, NoTasks, SilentStep, TypeInv, TypeOK
<1>22. CASE UNCHANGED vars
  BY <1>22, <1>1 DEF SilentStep
<1> QED
  BY <1>3, <1>4, <1>5, <1>6, <1>7, <1>8, <1>9, <1>10, <1>11, <1>12, <1>13, <1>14,
     <1>15, <1>16, <1>17, <1>18, <1>19, <1>20, <1>21, <1>22
  DEF Next, Task, Broker

THEOREM PublicationInvariant == Spec => []PublicationInv
<1>1. Init => PublicationInv
  BY DEF Init, PublicationInv, PendingIsStaged, PendingOnce, PendingIsNew,
         PublisherIsFirst, OnePublisher, PublishedAtMostOnce, PublishedIsStaged
<1>2. TypeInv /\ PublicationInv /\ [Next]_vars => PublicationInv'
  BY PublicationStep
<1> QED BY <1>1, <1>2, TypeInvariant, PTL DEF Spec

(* Every document is announced at most once, whatever the redeliveries,    *)
(* restarts and concurrent backfill runs.                                  *)
THEOREM AnnouncedOnce == Spec => []PublishedAtMostOnce
<1>1. PublicationInv => PublishedAtMostOnce
  BY DEF PublicationInv
<1> QED BY <1>1, PublicationInvariant, PTL

(* Every announced result is the one staged.                               *)
THEOREM AnnouncedAsStaged == Spec => []PublishedIsStaged
<1>1. PublicationInv => PublishedIsStaged
  BY DEF PublicationInv
<1> QED BY <1>1, PublicationInvariant, PTL

-------------------------------------------------------------------------------
(* Refinement.  Only Save and SaveBreaks write the ledger, only Deliver    *)
(* writes the log; every other action is a stutter of the ledger.          *)

LEMMA StageMaps ==
  ASSUME TypeInv, NEW a \in Actors, pc[a] \in InFlight, Inserts(DocOf(a)),
         staged' = [staged EXCEPT ![DocOf(a)] = ResultOf(a)], outTopic' = outTopic
  PROVE  Ledger!LedgerNext
<1>1. DocOf(a) \in Docs /\ ResultOf(a) \in Results
  BY DocOfType
<1>2. Ledger!Stage(DocOf(a), ResultOf(a))
  BY DEF Inserts, Ledger!Stage
<1> QED BY <1>1, <1>2 DEF Ledger!LedgerNext

LEMMA DeliverMaps ==
  ASSUME TypeInv, PublicationInv, NEW p \in Processes, NEW m \in outbox[p], Deliver(p, m)
  PROVE  Ledger!LedgerNext
<1>1. m \in Messages
  BY DEF TypeInv, TypeOK
<1>2. m.doc \in Docs /\ m.result \in Results /\ m = [doc |-> m.doc, result |-> m.result]
  BY <1>1 DEF Messages
<1>3. staged[m.doc] = m.result
  BY DEF PublicationInv, PendingIsStaged
<1>4. \A i \in 1..Len(outTopic) : outTopic[i].doc # m.doc
  BY DEF PublicationInv, PendingIsNew
<1>5. outTopic' = Append(outTopic, m) /\ staged' = staged
  BY DEF Deliver
<1>6. Ledger!Announce(m.doc)
  BY <1>2, <1>3, <1>4, <1>5, ConfigAssumption DEF Ledger!Announce
<1> QED BY <1>2, <1>6 DEF Ledger!LedgerNext

LEMMA StepMaps ==
  ASSUME TypeInv, PublicationInv, [Next]_vars
  PROVE  [Ledger!LedgerNext]_(Ledger!ledgerVars)
<1> USE DEF vars, feedVars, streamVars, backfillVars, taskVars, storeVars
<1>1. ASSUME UNCHANGED <<staged, outTopic>>
      PROVE  [Ledger!LedgerNext]_(Ledger!ledgerVars)
  BY <1>1 DEF Ledger!ledgerVars
<1>2. ASSUME NEW d \in Docs, Ingest(d) PROVE UNCHANGED <<staged, outTopic>>
  BY <1>2 DEF Ingest
<1>3. ASSUME NEW a \in Actors,
             CheckExists(a) \/ StartPass(a) \/ FinishPass(a) \/ CallRaises(a) \/ Publish(a)
      PROVE  UNCHANGED <<staged, outTopic>>
  BY <1>3 DEF CheckExists, StartPass, FinishPass, CallRaises, Publish
<1>4. ASSUME NEW a \in Actors, Save(a) PROVE [Ledger!LedgerNext]_(Ledger!ledgerVars)
  <2>1. CASE Inserts(DocOf(a))
    BY <1>4, <2>1, StageMaps DEF Save, InFlight
  <2>2. CASE ~Inserts(DocOf(a))
    BY <1>1, <1>4, <2>2 DEF Save
  <2> QED BY <2>1, <2>2
<1>5. ASSUME NEW a \in Actors, SaveBreaks(a) PROVE [Ledger!LedgerNext]_(Ledger!ledgerVars)
  <2>1. CASE staged' = staged
    BY <1>1, <1>5, <2>1 DEF SaveBreaks
  <2>2. CASE Inserts(DocOf(a)) /\ staged' = [staged EXCEPT ![DocOf(a)] = ResultOf(a)]
    BY <1>5, <2>2, StageMaps DEF SaveBreaks, InFlight
  <2> QED BY <1>5, <2>1, <2>2 DEF SaveBreaks
<1>6. ASSUME NEW p \in Processes, NEW m \in outbox[p], Deliver(p, m)
      PROVE  [Ledger!LedgerNext]_(Ledger!ledgerVars)
  BY <1>6, DeliverMaps
<1>7. ASSUME NEW p \in Processes, NEW m \in outbox[p], DeliveryFails(p, m)
      PROVE  UNCHANGED <<staged, outTopic>>
  BY <1>7 DEF DeliveryFails
<1>8. ASSUME Poll \/ AutoCommit \/ Rejoin \/ StreamCrash \/ StreamRestart
      PROVE  UNCHANGED <<staged, outTopic>>
  BY <1>8 DEF Poll, AutoCommit, Rejoin, StreamCrash, StreamRestart
<1>9. ASSUME StartBackfill \/ NextBatch \/ FinishBackfill \/ BackfillCrash
      PROVE  UNCHANGED <<staged, outTopic>>
  BY <1>9 DEF StartBackfill, NextBatch, FinishBackfill, BackfillCrash
<1>10. CASE UNCHANGED vars
  BY <1>1, <1>10
<1> QED
  BY <1>1, <1>2, <1>3, <1>4, <1>5, <1>6, <1>7, <1>8, <1>9, <1>10 DEF Next, Task, Broker

(* Two workers, a lossy producer and every crash implement the ledger: one *)
(* final result per document, announced at most once, after it is written. *)
THEOREM LedgerRefinement == Spec => ImplementsLedger
<1>1. Init => Ledger!LedgerInit
  BY DEF Init, Ledger!LedgerInit
<1>2. TypeInv /\ PublicationInv /\ [Next]_vars => [Ledger!LedgerNext]_(Ledger!ledgerVars)
  BY StepMaps
<1> QED
  BY <1>1, <1>2, TypeInvariant, PublicationInvariant, PTL
  DEF Spec, ImplementsLedger, Ledger!LedgerSpec

-------------------------------------------------------------------------------
(* Consumption: ConsumedIsSettled.  The committed offset never runs ahead  *)
(* of the position, so falling back to it re-reads only settled messages.  *)

Settled(d) ==
  \/ staged[d] # None
  \/ d \in abandoned
  \/ d = current /\ pc[Stream] \in InFlight

ConsumptionInv ==
  /\ committed <= position
  /\ ConsumedIsSettled

(* Steps that take no message: the offsets do not advance past position,   *)
(* and the document in hand stays in hand or is settled by the step.       *)
NoPollStep ==
  /\ position' <= position
  /\ committed' <= position'
  /\ \A i \in 1..Len(inTopic) : inTopic'[i] = inTopic[i]
  /\ \A d \in Docs : staged[d] # None => staged'[d] # None
  /\ abandoned \subseteq abandoned'
  /\ pc[Stream] \in InFlight /\ Content[current] = "text" =>
       \/ staged'[current] # None
       \/ current \in abandoned'
       \/ current' = current /\ pc'[Stream] \in InFlight

LEMMA NoPollConsumption ==
  ASSUME TypeInv, TypeInv', ConsumptionInv, NoPollStep
  PROVE  ConsumptionInv'
<1>1. \A i \in 1..position' : i \in 1..position /\ i \in 1..Len(inTopic)
  BY DEF NoPollStep, TypeInv, TypeOK
<1>2. ASSUME NEW i \in 1..position'
      PROVE  (Wanted(inTopic[i]) /\ Content[inTopic[i]] = "text" => Settled(inTopic[i]))'
  <2> DEFINE d == inTopic[i]
  <2>1. i \in 1..position /\ inTopic'[i] = d
    BY <1>1, <1>2 DEF NoPollStep
  <2>2. d \in Docs
    BY <1>1, <1>2 DEF TypeInv, TypeOK
  <2>3. Wanted(d) /\ Content[d] = "text" => Settled(d)
    BY <2>1 DEF ConsumptionInv, ConsumedIsSettled, Settled
  <2> HIDE DEF d
  <2> QED BY <2>1, <2>2, <2>3 DEF Settled, NoPollStep, Wanted
<1> QED BY <1>2 DEF ConsumptionInv, ConsumedIsSettled, Settled, NoPollStep

(* The message polled becomes the one in hand, or needs no result.         *)
LEMMA PollConsumption ==
  ASSUME TypeInv, ConsumptionInv, Poll
  PROVE  ConsumptionInv'
<1>1. pc[Stream] = "idle" /\ position' = position + 1 /\ committed' = committed
      /\ UNCHANGED <<inTopic, staged, abandoned>>
  BY DEF Poll, feedVars, storeVars
<1>2. ASSUME NEW i \in 1..position', i # position + 1,
             Wanted(inTopic[i]), Content[inTopic[i]] = "text"
      PROVE  staged[inTopic[i]] # None \/ inTopic[i] \in abandoned
  <2>1. i \in 1..position
    BY <1>1, <1>2 DEF TypeInv, TypeOK
  <2> QED BY <1>1, <1>2, <2>1 DEF ConsumptionInv, ConsumedIsSettled, InFlight
<1>3. Wanted(inTopic[position + 1]) =>
        current' = inTopic[position + 1] /\ pc'[Stream] \in InFlight
  BY ConstantTypes DEF Poll, Goto, InFlight, TypeInv, TypeOK
<1>4. committed' <= position'
  BY <1>1 DEF ConsumptionInv, TypeInv, TypeOK
<1> QED BY <1>1, <1>2, <1>3, <1>4 DEF ConsumptionInv, ConsumedIsSettled, Wanted

(* An actor that ends its call settles its document or owed it nothing.    *)
LEMMA LeaveConsumption ==
  ASSUME TypeInv, ConsumptionInv, NEW a \in Actors, NEW label, Leave(a, label),
         UNCHANGED <<inTopic, position, committed>>,
         abandoned \subseteq abandoned',
         \A d \in Docs : staged[d] # None => staged'[d] # None,
         a = Stream /\ Content[current] = "text" =>
           staged'[current] # None \/ current \in abandoned'
  PROVE  NoPollStep
<1>1. a # Stream => pc'[Stream] = pc[Stream] /\ current' = current
  BY ConstantTypes DEF Leave, Goto, TypeInv, TypeOK
<1>2. committed <= position /\ position \in Nat
  BY DEF ConsumptionInv, TypeInv, TypeOK
<1> QED BY <1>1, <1>2 DEF NoPollStep

LEMMA RaiseConsumption ==
  ASSUME TypeInv, ConsumptionInv, NEW a \in Actors, Raise(a),
         UNCHANGED <<inTopic, position, committed>>,
         \A d \in Docs : staged[d] # None => staged'[d] # None
  PROVE  NoPollStep
<1>1. Leave(a, AfterError(a)) /\ abandoned \subseteq abandoned'
      /\ (a = Stream => current \in abandoned')
  BY DEF Raise
<1> QED BY <1>1, LeaveConsumption

LEMMA ConsumptionStep ==
  ASSUME TypeInv, TypeInv', PublicationInv, ConsumptionInv, [Next]_vars
  PROVE  ConsumptionInv'
<1> USE DEF vars, feedVars, streamVars, backfillVars, taskVars, storeVars
<1>1. committed <= position /\ position \in Nat /\ committed \in Nat
  BY DEF ConsumptionInv, TypeInv, TypeOK
<1>2. ASSUME NoPollStep PROVE ConsumptionInv'
  BY <1>2, NoPollConsumption
<1>3. ASSUME UNCHANGED <<inTopic, position, committed, staged, abandoned, current>>,
             pc'[Stream] = pc[Stream] \/ (pc[Stream] \in InFlight => pc'[Stream] \in InFlight)
      PROVE  ConsumptionInv'
  BY <1>1, <1>2, <1>3 DEF NoPollStep
<1>4. ASSUME NEW d \in Docs, Ingest(d) PROVE ConsumptionInv'
  <2>1. inTopic \in Seq(Docs) /\ (inTopic' = inTopic \/ inTopic' = Append(inTopic, d))
    BY <1>4 DEF Ingest, TypeInv, TypeOK
  <2>2. \A i \in 1..Len(inTopic) : inTopic'[i] = inTopic[i]
    BY <2>1
  <2> QED BY <1>1, <1>2, <1>4, <2>2 DEF Ingest, NoPollStep
<1>5. ASSUME NEW a \in Actors, CheckExists(a) PROVE ConsumptionInv'
  <2>1. CASE Return(a) /\ (AlreadyStaged(a) \/ Content[DocOf(a)] = "blank")
    <3>1. UNCHANGED <<inTopic, position, committed, abandoned, staged>>
      BY <1>5, <2>1 DEF CheckExists, Return
    <3>2. a = Stream /\ Content[current] = "text" => staged[current] # None
      BY <2>1 DEF AlreadyStaged, DocOf
    <3>3. Leave(a, IF a = Stream THEN "idle" ELSE "done")
      BY <2>1 DEF Return
    <3>4. NoPollStep
      BY <3>1, <3>2, <3>3, LeaveConsumption
    <3> QED BY <1>2, <3>4
  <2>2. CASE Goto(a, "pass") /\ UNCHANGED <<pass, found, current, abandoned>>
    BY <1>3, <1>5, <2>2 DEF CheckExists, Goto, InFlight, TypeInv, TypeOK
  <2> QED BY <1>5, <2>1, <2>2 DEF CheckExists
<1>6. ASSUME NEW a \in Actors, StartPass(a) PROVE ConsumptionInv'
  BY <1>3, <1>6 DEF StartPass, Goto, InFlight, TypeInv, TypeOK
<1>7. ASSUME NEW a \in Actors, FinishPass(a) PROVE ConsumptionInv'
  <2>1. pc'[Stream] = pc[Stream] \/ pc'[Stream] \in InFlight
    BY <1>7, ConstantTypes DEF FinishPass, Goto, InFlight, TypeInv, TypeOK
  <2>2. UNCHANGED <<feedVars, streamVars, storeVars>>
    BY <1>7 DEF FinishPass
  <2> QED BY <1>3, <2>1, <2>2
<1>8. ASSUME NEW a \in Actors, CallRaises(a) PROVE ConsumptionInv'
  BY <1>2, <1>8, RaiseConsumption DEF CallRaises
<1>9. ASSUME NEW a \in Actors, Save(a) PROVE ConsumptionInv'
  <2>1. CASE Inserts(DocOf(a))
    <3>1. DocOf(a) \in Docs /\ ResultOf(a) # None
      BY <1>9, DocOfType, ConfigAssumption DEF Save, InFlight
    <3>2. \A d \in Docs : staged[d] # None => staged'[d] # None
      BY <1>9, <2>1, <3>1 DEF Save, TypeInv, TypeOK
    <3>3. pc'[Stream] = pc[Stream] \/ pc'[Stream] \in InFlight
      BY <1>9, <2>1, ConstantTypes DEF Save, Goto, InFlight, TypeInv, TypeOK
    <3> QED BY <1>1, <1>2, <1>9, <2>1, <3>2, <3>3 DEF Save, NoPollStep
  <2>2. CASE ~Inserts(DocOf(a))
    BY <1>2, <1>9, <2>2, RaiseConsumption DEF Save
  <2> QED BY <2>1, <2>2
<1>10. ASSUME NEW a \in Actors, SaveBreaks(a) PROVE ConsumptionInv'
  <2>1. DocOf(a) \in Docs /\ ResultOf(a) # None
    BY <1>10, DocOfType, ConfigAssumption DEF SaveBreaks, InFlight
  <2>2. \A d \in Docs : staged[d] # None => staged'[d] # None
    BY <1>10, <2>1 DEF SaveBreaks, TypeInv, TypeOK
  <2> QED BY <1>2, <1>10, <2>2, RaiseConsumption DEF SaveBreaks
<1>11. ASSUME NEW a \in Actors, Publish(a) PROVE ConsumptionInv'
  <2>1. UNCHANGED <<inTopic, position, committed, abandoned, staged>>
        /\ Leave(a, IF a = Stream THEN "idle" ELSE "done")
    BY <1>11 DEF Publish, Return
  <2>2. a = Stream => staged[current] # None
    BY <1>11, DocOfType, ConfigAssumption
    DEF Publish, PublicationInv, PublisherIsFirst, DocOf, InFlight
  <2>3. NoPollStep
    BY <2>1, <2>2, LeaveConsumption
  <2> QED BY <1>2, <2>3
<1>12. ASSUME NEW p \in Processes, NEW m \in outbox[p], Deliver(p, m) \/ DeliveryFails(p, m)
       PROVE  ConsumptionInv'
  BY <1>3, <1>12 DEF Deliver, DeliveryFails
<1>13. CASE Poll
  BY <1>13, PollConsumption
<1>14. CASE AutoCommit
  BY <1>1, <1>2, <1>14 DEF AutoCommit, NoPollStep
<1>15. CASE Rejoin
  BY <1>1, <1>2, <1>15 DEF Rejoin, ResumeOffset, NoPollStep, InFlight
<1>16. CASE StreamCrash
  <2>1. pc[Stream] \in InFlight => current \in abandoned'
    BY <1>16 DEF StreamCrash
  <2> QED BY <1>1, <1>2, <1>16, <2>1 DEF StreamCrash, NoPollStep
<1>17. CASE StreamRestart
  BY <1>1, <1>2, <1>17 DEF StreamRestart, ResumeOffset, NoPollStep, InFlight
<1>18. CASE StartBackfill
  BY <1>3, <1>18, ConstantTypes DEF StartBackfill, NoTasks
<1>19. CASE NextBatch
  <2>1. pc'[Stream] = pc[Stream]
    BY <1>19, ConstantTypes DEF NextBatch, Batches, TypeInv, TypeOK
  <2> QED BY <1>3, <1>19, <2>1 DEF NextBatch
<1>20. CASE FinishBackfill
  BY <1>3, <1>20 DEF FinishBackfill
<1>21. CASE BackfillCrash
  BY <1>3, <1>21, ConstantTypes DEF BackfillCrash, NoTasks
<1>22. CASE UNCHANGED vars
  BY <1>3, <1>22
<1> QED
  BY <1>4, <1>5, <1>6, <1>7, <1>8, <1>9, <1>10, <1>11, <1>12, <1>13, <1>14, <1>15,
     <1>16, <1>17, <1>18, <1>19, <1>20, <1>21, <1>22
  DEF Next, Task, Broker

(* Committing offsets before processing loses no message silently: every   *)
(* one the worker has moved past is staged, in hand, or was given up on a  *)
(* logged error or a crash.                                                *)
THEOREM ConsumedMessagesSettled == Spec => []ConsumedIsSettled
<1>1. Init => ConsumptionInv
  BY DEF Init, ConsumptionInv, ConsumedIsSettled
<1>2. TypeInv /\ TypeInv' /\ PublicationInv /\ ConsumptionInv /\ [Next]_vars
        => ConsumptionInv'
  BY ConsumptionStep
<1>3. ConsumptionInv => ConsumedIsSettled
  BY DEF ConsumptionInv
<1> QED BY <1>1, <1>2, <1>3, TypeInvariant, PublicationInvariant, PTL DEF Spec

-------------------------------------------------------------------------------
(* Soundness: StagedIsSound.  The relations an actor accumulates are sound *)
(* after every pass, and a document in hand is news with a content.        *)

SoundRelations(rels) ==
  /\ rels \cap Rejected = {}
  /\ \A r, s \in rels : EdgeKey[r] = EdgeKey[s] => r = s

FoundSound == \A a \in Actors : SoundRelations(found[a])

TargetsNews == \A d \in target : DocType[d] = "news"

InHand(d, label) ==
  label \in InFlight =>
    DocType[d] = "news" /\ Content[d] # "missing" /\ (label # "exists" => Content[d] = "text")

HandlesText == \A a \in Actors : InHand(DocOf(a), pc[a])

SoundInv == FoundSound /\ TargetsNews /\ HandlesText /\ StagedIsSound

LEMMA SanitizeSound ==
  ASSUME NEW reply \in Replies \cup {<<>>}, NEW seen, SoundRelations(seen)
  PROVE  SoundRelations(seen \cup Sanitize(reply, seen))
<1>1. /\ \A k \in DOMAIN reply : k \in Nat
      /\ DOMAIN reply = 1..Len(reply) /\ Len(reply) \in Nat
  BY RelationsAssumption
<1>2. \A r \in Sanitize(reply, seen) :
        \E k \in DOMAIN reply :
          /\ r = reply[k] /\ r \notin Rejected
          /\ \A s \in seen : EdgeKey[s] # EdgeKey[r]
          /\ \A j \in 1..(k - 1) : reply[j] \notin Rejected => EdgeKey[reply[j]] # EdgeKey[r]
  BY DEF Sanitize
<1>3. ASSUME NEW r \in Sanitize(reply, seen), NEW s \in Sanitize(reply, seen),
             EdgeKey[r] = EdgeKey[s]
      PROVE  r = s
  <2>1. PICK k \in DOMAIN reply :
          /\ r = reply[k] /\ r \notin Rejected
          /\ \A j \in 1..(k - 1) : reply[j] \notin Rejected => EdgeKey[reply[j]] # EdgeKey[r]
    BY <1>2
  <2>2. PICK l \in DOMAIN reply :
          /\ s = reply[l] /\ s \notin Rejected
          /\ \A j \in 1..(l - 1) : reply[j] \notin Rejected => EdgeKey[reply[j]] # EdgeKey[s]
    BY <1>2
  <2>3. k \in 1..Len(reply) /\ l \in 1..Len(reply)
    BY <1>1
  <2>4. ~(k < l) /\ ~(l < k)
    <3>1. ~(k \in 1..(l - 1)) /\ ~(l \in 1..(k - 1))
      BY <1>3, <2>1, <2>2
    <3> QED BY <1>1, <2>3, <3>1
  <2>5. k = l
    BY <1>1, <2>3, <2>4
  <2> QED BY <2>1, <2>2, <2>5
<1>4. ASSUME NEW r \in Sanitize(reply, seen), NEW s \in seen
      PROVE  EdgeKey[r] # EdgeKey[s] /\ r \notin Rejected
  BY <1>2
<1>5. \A r \in Sanitize(reply, seen) : r \notin Rejected
  BY <1>2
<1> QED BY <1>3, <1>4, <1>5 DEF SoundRelations

LEMMA FoundSoundStep ==
  ASSUME TypeInv, FoundSound, [Next]_vars
  PROVE  FoundSound'
<1> USE DEF vars, feedVars, streamVars, backfillVars, taskVars, storeVars
<1>1. SoundRelations({})
  BY DEF SoundRelations
<1>2. ASSUME \A a \in Actors : found'[a] = found[a] \/ found'[a] = {}
      PROVE  FoundSound'
  BY <1>1, <1>2 DEF FoundSound
<1>3. ASSUME NEW a \in Actors, NEW label, Leave(a, label) PROVE FoundSound'
  BY <1>2, <1>3 DEF Leave, TypeInv, TypeOK
<1>4. ASSUME NEW a \in Actors, FinishPass(a) PROVE FoundSound'
  <2>1. PICK reply \in Replies \cup {<<>>} :
          found' = [found EXCEPT ![a] = found[a] \cup Sanitize(reply, found[a])]
    BY <1>4 DEF FinishPass
  <2>2. SoundRelations(found[a] \cup Sanitize(reply, found[a]))
    BY SanitizeSound DEF FoundSound
  <2> QED BY <2>1, <2>2 DEF FoundSound, TypeInv, TypeOK
<1>5. ASSUME NEW a \in Actors, Task(a), ~FinishPass(a) PROVE FoundSound'
  <2>1. (\E label : Leave(a, label)) \/ UNCHANGED found
    BY <1>5 DEF Task, CheckExists, StartPass, CallRaises, Save, SaveBreaks, Publish, Return, Raise
  <2> QED BY <1>2, <1>3, <2>1
<1>6. CASE StreamCrash
  BY <1>3, <1>6, ConstantTypes DEF StreamCrash
<1>7. CASE BackfillCrash
  BY <1>2, <1>7 DEF BackfillCrash
<1>8. CASE UNCHANGED found
  BY <1>2, <1>8
<1> QED
  BY <1>4, <1>5, <1>6, <1>7, <1>8
  DEF Next, Ingest, Broker, Deliver, DeliveryFails, Poll, AutoCommit, Rejoin, StreamRestart,
      StartBackfill, NextBatch, FinishBackfill

LEMMA TargetsNewsStep ==
  ASSUME TypeInv, TargetsNews, [Next]_vars
  PROVE  TargetsNews'
<1>1. CASE UNCHANGED target
  BY <1>1 DEF TargetsNews
<1>2. CASE StartBackfill
  BY <1>2 DEF StartBackfill, TargetsNews
<1>3. CASE BackfillCrash
  BY <1>3 DEF BackfillCrash, TargetsNews
<1> QED
  BY <1>1, <1>2, <1>3
  DEF Next, Task, Ingest, Broker, Deliver, DeliveryFails, Poll, AutoCommit, Rejoin, StreamCrash,
      StreamRestart, NextBatch, FinishBackfill, CheckExists, StartPass, FinishPass, CallRaises,
      Save, SaveBreaks, Publish, vars, backfillVars

(* Steps that put nothing new in anybody's hands.                          *)
LEMMA SameHands ==
  ASSUME TypeInv, HandlesText, UNCHANGED current,
         \A a \in Actors : pc'[a] = pc[a] \/ pc'[a] \notin InFlight
                           \/ (pc[a] \in InFlight \ {"exists"})
  PROVE  HandlesText'
BY DEF HandlesText, InHand, DocOf

LEMMA LeavesHands ==
  ASSUME TypeInv, HandlesText, NEW a \in Actors, NEW label \in PcStates \ InFlight, Leave(a, label)
  PROVE  HandlesText'
<1>1. \A b \in Actors : IF b = a THEN pc'[b] \notin InFlight ELSE pc'[b] = pc[b]
  BY DEF Leave, Goto, TypeInv, TypeOK
<1>2. \A b \in Actors : b # a => DocOf(b)' = DocOf(b)
  BY DEF Leave, DocOf
<1> QED BY <1>1, <1>2 DEF HandlesText, InHand

LEMMA HandlesTextStep ==
  ASSUME TypeInv, TargetsNews, HandlesText, [Next]_vars
  PROVE  HandlesText'
<1> USE DEF vars, feedVars, streamVars, backfillVars, taskVars, storeVars
<1>0. \A label \in {"idle", "done", "raised", "down"} : label \in PcStates \ InFlight
  BY DEF PcStates, InFlight
<1>1. ASSUME NEW a \in Actors, Return(a) \/ Raise(a) PROVE HandlesText'
  BY <1>0, <1>1, LeavesHands DEF Return, Raise, AfterError
<1>2. ASSUME NEW a \in Actors, CheckExists(a) PROVE HandlesText'
  <2>1. CASE ~(AlreadyStaged(a) \/ Content[DocOf(a)] = "blank")
    <3>1. pc[a] = "exists" /\ pc' = [pc EXCEPT ![a] = "pass"] /\ current' = current
      BY <1>2, <2>1 DEF CheckExists, Goto
    <3>2. DocOf(a) \in Docs /\ Content[DocOf(a)] # "missing" /\ DocType[DocOf(a)] = "news"
      BY <3>1, DocOfType DEF HandlesText, InHand, InFlight
    <3>3. Content[DocOf(a)] = "text"
      BY <2>1, <3>2, DocsAssumption
    <3>4. \A b \in Actors : DocOf(b)' = DocOf(b)
      BY <3>1 DEF DocOf
    <3> QED BY <3>1, <3>2, <3>3, <3>4 DEF HandlesText, InHand, TypeInv, TypeOK
  <2> QED BY <1>1, <1>2, <2>1 DEF CheckExists
<1>3. ASSUME NEW a \in Actors, StartPass(a) \/ FinishPass(a) PROVE HandlesText'
  BY <1>3, SameHands DEF StartPass, FinishPass, Goto, InFlight, TypeInv, TypeOK
<1>4. ASSUME NEW a \in Actors, CallRaises(a) \/ SaveBreaks(a) \/ Publish(a) PROVE HandlesText'
  BY <1>1, <1>4 DEF CallRaises, SaveBreaks, Publish
<1>5. ASSUME NEW a \in Actors, Save(a) PROVE HandlesText'
  <2>1. CASE Inserts(DocOf(a))
    BY <1>5, <2>1, SameHands DEF Save, Goto, InFlight, TypeInv, TypeOK
  <2> QED BY <1>1, <1>5, <2>1 DEF Save
<1>6. CASE Poll
  <2>1. inTopic[position + 1] \in Docs
    BY <1>6 DEF Poll, TypeInv, TypeOK
  <2> QED
    BY <1>6, <2>1, ConstantTypes
    DEF Poll, Goto, HandlesText, InHand, DocOf, Wanted, InFlight, TypeInv, TypeOK
<1>7. CASE StreamCrash
  BY <1>0, <1>7, LeavesHands, ConstantTypes DEF StreamCrash
<1>8. CASE StreamRestart
  BY <1>8, SameHands, ConstantTypes DEF StreamRestart, Goto, InFlight, TypeInv, TypeOK
<1>9. CASE StartBackfill \/ BackfillCrash
  BY <1>9, SameHands DEF StartBackfill, BackfillCrash, NoTasks, InFlight
<1>10. CASE NextBatch
  <2>1. PICK batch \in Batches(query) :
          pc' = [a \in Actors |-> IF a \in batch /\ Content[a] # "missing" THEN "exists" ELSE pc[a]]
    BY <1>10 DEF NextBatch
  <2>2. batch \subseteq target /\ batch \subseteq Docs /\ current' = current
    BY <1>10 DEF NextBatch, Batches, TypeInv, TypeOK
  <2>3. \A a \in Actors : a \in batch => DocOf(a)' = a /\ DocType[a] = "news"
    BY <2>2, ConstantTypes DEF DocOf, TargetsNews
  <2>4. \A a \in Actors : DocOf(a)' = DocOf(a)
    BY <2>2 DEF DocOf
  <2> QED BY <2>1, <2>2, <2>3, <2>4 DEF HandlesText, InHand
<1>11. CASE UNCHANGED <<pc, current>>
  BY <1>11, SameHands
<1> QED
  BY <1>2, <1>3, <1>4, <1>5, <1>6, <1>7, <1>8, <1>9, <1>10, <1>11
  DEF Next, Task, Ingest, Broker, Deliver, DeliveryFails, AutoCommit, Rejoin, FinishBackfill

LEMMA StagedSoundStep ==
  ASSUME TypeInv, SoundInv, [Next]_vars
  PROVE  StagedIsSound'
<1>1. CASE UNCHANGED staged
  BY <1>1 DEF SoundInv, StagedIsSound
<1>2. ASSUME NEW a \in Actors, pc[a] = "save",
             staged' = [staged EXCEPT ![DocOf(a)] = ResultOf(a)]
      PROVE  StagedIsSound'
  <2>1. DocOf(a) \in Docs /\ DocType[DocOf(a)] = "news" /\ Content[DocOf(a)] = "text"
    BY <1>2, DocOfType DEF SoundInv, HandlesText, InHand, InFlight
  <2>2. ResultOf(a).relations = found[a] /\ SoundRelations(found[a])
    BY DEF ResultOf, SoundInv, FoundSound
  <2>3. \A d \in Docs : staged'[d] = IF d = DocOf(a) THEN ResultOf(a) ELSE staged[d]
    BY <1>2, <2>1 DEF TypeInv, TypeOK
  <2> QED BY <2>1, <2>2, <2>3 DEF StagedIsSound, SoundRelations, SoundInv
<1>3. ASSUME NEW a \in Actors, Save(a) \/ SaveBreaks(a) PROVE StagedIsSound'
  BY <1>1, <1>2, <1>3 DEF Save, SaveBreaks
<1> QED
  BY <1>1, <1>3
  DEF Next, Task, Ingest, Broker, Deliver, DeliveryFails, Poll, AutoCommit, Rejoin, StreamCrash,
      StreamRestart, StartBackfill, NextBatch, FinishBackfill, BackfillCrash, CheckExists,
      StartPass, FinishPass, CallRaises, Publish, vars, storeVars

(* Whatever a model replies in whatever pass, what is staged is sound: no  *)
(* relation the sanitizer rejects, one per edge, and only of news.         *)
THEOREM StagesSound == Spec => []StagedIsSound
<1>1. Init => SoundInv
  BY DEF Init, SoundInv, FoundSound, SoundRelations, TargetsNews, HandlesText, InHand, InFlight,
         StagedIsSound
<1>2. TypeInv /\ SoundInv /\ [Next]_vars => SoundInv'
  BY FoundSoundStep, TargetsNewsStep, HandlesTextStep, StagedSoundStep DEF SoundInv
<1>3. SoundInv => StagedIsSound
  BY DEF SoundInv
<1> QED BY <1>1, <1>2, <1>3, TypeInvariant, PTL DEF Spec

-------------------------------------------------------------------------------
(* Coverage: BackfillCoversTarget.  A matched document with a content is   *)
(* staged, raised, still in the cursor or in a task's hands, and the run   *)
(* ends only when the cursor is empty and no task is under way.            *)

(* As long as the cursor holds a document it yields a batch.               *)
LEMMA CursorYields ==
  ASSUME NEW q \in SUBSET Docs, Batches(q) = {}
  PROVE  q = {}
<1>1. IsFiniteSet(q) /\ Cardinality(q) \in Nat
  BY DocsAssumption, FS_Subset, FS_CardinalityType
<1>2. BatchSize \in Nat
  BY BoundsAssumption
<1>3. CASE BatchSize <= Cardinality(q)
  BY <1>1, <1>2, <1>3, SubsetOfSize DEF Batches
<1>4. CASE Cardinality(q) < BatchSize
  BY <1>4 DEF Batches
<1> QED BY <1>1, <1>2, <1>3, <1>4

Covered(d) ==
  Content[d] = "text" =>
    staged[d] # None \/ pc[d] = "raised" \/ d \in query \/ pc[d] \in InFlight

NothingLeft == query = {} /\ BatchOver

CoverageInv ==
  /\ backfill \in {"running", "finished"} => \A d \in target : Covered(d)
  /\ backfill = "finished" => NothingLeft
  /\ backfill # "running" => BatchOver

(* What a step may do to a task of the run: move it on, fail it, or end it *)
(* with a staged result or for want of a content.                          *)
Settles(d) ==
  /\ pc[d] \in InFlight
  /\ \/ pc'[d] \in InFlight \cup {"raised"}
     \/ staged'[d] # None
     \/ Content[d] # "text"

(* Steps that neither start a task of the run nor move its cursor.         *)
LEMMA QuietCoverage ==
  ASSUME TypeInv, CoverageInv, UNCHANGED backfillVars,
         \A d \in Docs : staged[d] # None => staged'[d] # None,
         \A d \in Docs : pc'[d] = pc[d] \/ Settles(d)
  PROVE  CoverageInv'
<1>1. \A d \in target : d \in Docs
  BY DEF TypeInv, TypeOK
<1>2. backfill' = backfill /\ target' = target /\ query' = query
  BY DEF backfillVars
<1>3. ASSUME NEW d \in target, Covered(d) PROVE Covered(d)'
  BY <1>1, <1>2, <1>3 DEF Covered, Settles, InFlight
<1>4. BatchOver => BatchOver'
  BY DEF BatchOver, Settles
<1> QED BY <1>2, <1>3, <1>4 DEF CoverageInv, NothingLeft

LEMMA TaskCoverage ==
  ASSUME TypeInv, PublicationInv, CoverageInv, NEW a \in Actors, Task(a)
  PROVE  CoverageInv'
<1>1. UNCHANGED backfillVars /\ pc[a] \in InFlight
  BY DEF Task, CheckExists, StartPass, FinishPass, CallRaises, Save, SaveBreaks, Publish, InFlight
<1>2. \A d \in Docs : staged[d] # None => staged'[d] # None
  <2>1. staged' = staged \/ staged' = [staged EXCEPT ![DocOf(a)] = ResultOf(a)]
    BY DEF Task, CheckExists, StartPass, FinishPass, CallRaises, Save, SaveBreaks, Publish,
           storeVars
  <2>2. ResultOf(a) # None
    BY <1>1, DocOfType, ConfigAssumption
  <2> QED BY <2>1, <2>2 DEF TypeInv, TypeOK
<1>3. \A d \in Docs : d # a => pc'[d] = pc[d]
  <2>1. \E label : pc' = [pc EXCEPT ![a] = label]
    BY DEF Task, CheckExists, StartPass, FinishPass, CallRaises, Save, SaveBreaks, Publish,
           Return, Raise, Leave, Goto
  <2> QED BY <2>1 DEF TypeInv, TypeOK, Actors
<1>4. ASSUME a \in Docs
      PROVE  pc'[a] \in InFlight \cup {"raised"} \/ staged'[a] # None \/ Content[a] # "text"
  <2> USE <1>4
  <2>1. DocOf(a) = a /\ a # Stream /\ AfterError(a) = "raised"
    BY DocsAssumption DEF DocOf, AfterError
  <2>2. ASSUME Raise(a) PROVE pc'[a] = "raised"
    BY <2>1, <2>2 DEF Raise, Leave, Goto, TypeInv, TypeOK
  <2>3. ASSUME NEW label \in InFlight, Goto(a, label) PROVE pc'[a] \in InFlight
    BY <2>3 DEF Goto, TypeInv, TypeOK
  <2>4. CASE CheckExists(a)
    <3>1. CASE AlreadyStaged(a)
      BY <1>2, <2>1, <3>1 DEF AlreadyStaged
    <3>2. CASE ~AlreadyStaged(a) /\ Content[DocOf(a)] # "blank"
      BY <2>3, <2>4, <3>2 DEF CheckExists, InFlight
    <3>3. CASE Content[DocOf(a)] = "blank"
      BY <2>1, <3>3
    <3> QED BY <3>1, <3>2, <3>3
  <2>5. CASE StartPass(a)
    BY <2>3, <2>5 DEF StartPass, InFlight
  <2>6. CASE FinishPass(a)
    <3>1. Goto(a, "save") \/ Goto(a, "pass")
      BY <2>6 DEF FinishPass
    <3> QED BY <2>3, <3>1 DEF InFlight
  <2>7. CASE CallRaises(a)
    BY <2>2, <2>7 DEF CallRaises
  <2>8. CASE Save(a)
    BY <2>2, <2>3, <2>8 DEF Save, InFlight
  <2>9. CASE SaveBreaks(a)
    BY <2>2, <2>9 DEF SaveBreaks
  <2>10. CASE Publish(a)
    <3>1. staged[a] = ResultOf(a) /\ ResultOf(a) # None
      BY <1>1, <2>1, <2>10, DocOfType, ConfigAssumption
      DEF Publish, PublicationInv, PublisherIsFirst
    <3> QED BY <1>2, <3>1
  <2> QED BY <2>4, <2>5, <2>6, <2>7, <2>8, <2>9, <2>10 DEF Task
<1>5. ASSUME NEW d \in Docs PROVE pc'[d] = pc[d] \/ Settles(d)
  BY <1>1, <1>3, <1>4 DEF Settles
<1> QED BY <1>1, <1>2, <1>5, QuietCoverage

LEMMA CoverageStep ==
  ASSUME TypeInv, PublicationInv, CoverageInv, [Next]_vars
  PROVE  CoverageInv'
<1> USE DEF vars, feedVars, streamVars, taskVars, storeVars
<1>1. ASSUME NEW a \in Actors, Task(a) PROVE CoverageInv'
  BY <1>1, TaskCoverage
<1>2. CASE UNCHANGED <<backfillVars, staged>> /\ \A d \in Docs : pc'[d] = pc[d]
  BY <1>2, QuietCoverage
<1>3. CASE Poll \/ StreamCrash \/ StreamRestart
  <2>1. UNCHANGED <<backfillVars, staged>> /\ \E label : pc' = [pc EXCEPT ![Stream] = label] \/ pc' = pc
    BY <1>3 DEF Poll, StreamCrash, StreamRestart, Leave, Goto
  <2> QED BY <1>2, <2>1, ConstantTypes DEF TypeInv, TypeOK
<1>4. CASE StartBackfill
  <2>1. \A d \in Docs : pc'[d] = "idle"
    BY <1>4, ConstantTypes DEF StartBackfill, NoTasks
  <2>2. backfill' = "running" /\ query' = target'
    BY <1>4 DEF StartBackfill
  <2> QED BY <2>1, <2>2 DEF CoverageInv, Covered, BatchOver, InFlight
<1>5. CASE NextBatch
  <2>1. PICK batch \in Batches(query) :
          /\ query' = query \ batch
          /\ pc' = [a \in Actors |-> IF a \in batch /\ Content[a] # "missing"
                                       THEN "exists" ELSE pc[a]]
    BY <1>5 DEF NextBatch
  <2>2. backfill = "running" /\ backfill' = backfill /\ target' = target /\ staged' = staged
    BY <1>5 DEF NextBatch
  <2>3. ASSUME NEW d \in target, Covered(d) PROVE Covered(d)'
    <3>1. d \in Actors /\ pc'[d] = IF d \in batch /\ Content[d] # "missing"
                                   THEN "exists" ELSE pc[d]
      BY <2>1, ConstantTypes DEF TypeInv, TypeOK
    <3> QED BY <2>1, <2>2, <2>3, <3>1 DEF Covered, InFlight
  <2> QED BY <2>2, <2>3 DEF CoverageInv
<1>6. CASE FinishBackfill
  <2>1. query = {}
    BY <1>6, CursorYields DEF FinishBackfill, TypeInv, TypeOK
  <2>2. UNCHANGED <<target, query, pc, staged>> /\ backfill = "running" /\ backfill' = "finished"
    BY <1>6 DEF FinishBackfill
  <2>3. BatchOver /\ BatchOver'
    BY <1>6, <2>2 DEF FinishBackfill, BatchOver
  <2>4. \A d \in target : Covered(d)'
    BY <2>2 DEF CoverageInv, Covered
  <2> QED BY <2>1, <2>2, <2>3, <2>4 DEF CoverageInv, NothingLeft
<1>7. CASE BackfillCrash
  <2>1. backfill' = "off" /\ \A d \in Docs : pc'[d] = "idle"
    BY <1>7, ConstantTypes DEF BackfillCrash, NoTasks
  <2> QED BY <2>1 DEF CoverageInv, BatchOver, InFlight
<1> QED
  BY <1>1, <1>2, <1>3, <1>4, <1>5, <1>6, <1>7
  DEF Next, Ingest, Broker, Deliver, DeliveryFails, AutoCommit, Rejoin

(* For every set of documents and every batch size, a backfill that ends   *)
(* has a staged result, its own or the stream worker's, for each news      *)
(* document with a content that its query matched, or a task that raised.  *)
THEOREM BackfillCovers == Spec => []BackfillCoversTarget
<1>1. Init => CoverageInv
  BY DEF Init, CoverageInv, BatchOver, InFlight, Actors
<1>2. TypeInv /\ PublicationInv /\ CoverageInv /\ [Next]_vars => CoverageInv'
  BY CoverageStep
<1>3. TypeInv /\ CoverageInv => BackfillCoversTarget
  BY DEF CoverageInv, Covered, NothingLeft, BatchOver, BackfillCoversTarget, TypeInv, TypeOK
<1> QED BY <1>1, <1>2, <1>3, TypeInvariant, PublicationInvariant, PTL DEF Spec

===============================================================================
