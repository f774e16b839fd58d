------------------------ MODULE DocumentIngestionProofs ------------------------
(***************************************************************************)
(* Theorems about DocumentIngestion, for every set of workers, ids and     *)
(* item versions and every bound.                                          *)
(***************************************************************************)
EXTENDS DocumentIngestion, TLAPS, FiniteSetTheorems, WellFoundedInduction

-------------------------------------------------------------------------------
(* Facts about items, the collection and its newest date.                  *)

LEMMA ItemTypes ==
  ASSUME NEW i \in Items
  PROVE  /\ i.id \in Ids /\ i.fingerprint \in Fingerprints
         /\ i.at \in 1..MaxAt /\ i.kind \in Kinds /\ i.valid \in BOOLEAN
         /\ i # None
BY ItemsAssumption DEF ItemRecords

LEMMA StoredTypes ==
  ASSUME TypeOK
  PROVE  /\ Stored \subseteq Items
         /\ \A d \in Ids : documents[d] # None => documents[d] \in Stored
         /\ \A j \in Stored : \E d \in Ids : documents[d] = j
BY DEF TypeOK, Stored

(* A non-empty set of dates has a latest one: mirrored at MaxAt it is a    *)
(* set of naturals, which has a least element.                             *)
LEMMA LatestDate ==
  ASSUME NEW dates \in SUBSET (1..MaxAt), dates # {}
  PROVE  \E t \in dates : \A s \in dates : s <= t
<1> DEFINE mirror == {MaxAt - t : t \in dates}
<1>1. mirror \subseteq Nat /\ mirror # {}
  <2>1. PICK t \in dates : TRUE
    OBVIOUS
  <2>2. MaxAt - t \in mirror
    OBVIOUS
  <2>3. \A s \in 1..MaxAt : MaxAt - s \in Nat
    BY ItemsAssumption
  <2> QED BY <2>2, <2>3
<1> DEFINE less == OpToRel(<, Nat)
<1>2. IsWellFoundedOn(less, Nat)
  BY NatLessThanWellFounded
<1>3. \A m, n \in Nat : m < n => <<m, n>> \in less
  BY DEF OpToRel
<1> HIDE DEF mirror, less
<1>4. PICK x \in mirror : \A y \in mirror : <<y, x>> \notin less
  BY <1>1, <1>2, WFMin
<1>5. ASSUME NEW y \in mirror PROVE x <= y
  <2>1. x \in Nat /\ y \in Nat
    BY <1>1
  <2>2. ~ (y < x)
    BY <1>3, <1>4, <2>1
  <2> QED BY <2>1, <2>2
<1>6. PICK t \in dates : x = MaxAt - t
  BY <1>4 DEF mirror
<1>7. ASSUME NEW s \in dates PROVE s <= t
  <2>1. MaxAt - s \in mirror
    BY DEF mirror
  <2>2. x <= MaxAt - s
    BY <1>5, <2>1
  <2> QED BY <1>6, <2>2, ItemsAssumption
<1> QED BY <1>7

DatesOf(k) == {i.at : i \in {j \in Stored : j.kind = k}}

LEMMA LatestType ==
  ASSUME TypeOK, NEW k \in Kinds
  PROVE  /\ Latest(k) \in 0..MaxAt
         /\ \A t \in DatesOf(k) : t <= Latest(k)
         /\ Latest(k) = 0 \/ Latest(k) \in DatesOf(k)
<1>1. DatesOf(k) \subseteq 1..MaxAt
  BY StoredTypes, ItemTypes DEF DatesOf
<1>2. Latest(k) = IF DatesOf(k) = {} THEN 0
                  ELSE CHOOSE t \in DatesOf(k) : \A s \in DatesOf(k) : s <= t
  BY DEF Latest, DatesOf
<1>3. CASE DatesOf(k) = {}
  BY <1>2, <1>3, ItemsAssumption
<1>4. CASE DatesOf(k) # {}
  <2>1. \E t \in DatesOf(k) : \A s \in DatesOf(k) : s <= t
    BY <1>1, <1>4, LatestDate
  <2> QED BY <1>1, <1>2, <1>4, <2>1
<1> QED BY <1>3, <1>4

-------------------------------------------------------------------------------
(* Type correctness.                                                       *)

LEMMA RestType ==
  ASSUME TypeOK, NEW w \in Workers, Rest(w)
  PROVE  pc' \in [Workers -> PcStates]
BY DEF TypeOK, Rest, Goto, PcStates

LEMMA FaultType ==
  ASSUME TypeOK, NEW n \in Nat, Fault(n)
  PROVE  faults' \in 0..MaxFaults
BY ItemsAssumption DEF TypeOK, Fault

LEMMA ItemSetSize ==
  ASSUME NEW s \in SUBSET Items
  PROVE  Cardinality(s) \in Nat
BY ItemsAssumption, FS_Subset, FS_CardinalityType

(* TypeOK of DocumentIngestion.cfg, for every instance.                    *)
THEOREM TypeCorrect == Spec => []TypeOK
<1> USE DEF vars, storeVars, workVars, kafkaVars
<1>1. Init => TypeOK
  BY ItemsAssumption DEF Init, TypeOK, PcStates
<1>2. TypeOK /\ [Next]_vars => TypeOK'
  <2> SUFFICES ASSUME TypeOK, [Next]_vars PROVE TypeOK'
    OBVIOUS
  <2>1. ASSUME NEW i \in Items, Post(i) PROVE TypeOK'
    BY <2>1 DEF Post, TypeOK
  <2>2. ASSUME NEW i \in Items, NEW j \in Items, Edit(i, j) PROVE TypeOK'
    BY <2>2 DEF Edit, TypeOK
  <2>3. ASSUME NEW w \in Workers, ReadNewsMark(w) PROVE TypeOK'
    <3>1. Latest("news") \in 0..MaxAt
      BY LatestType DEF Kinds
    <3> QED BY <2>3, <3>1 DEF ReadNewsMark, Goto, TypeOK, PcStates
  <2>4. ASSUME NEW w \in Workers, ReadPostsMark(w) PROVE TypeOK'
    <3>1. Latest("post") \in 0..MaxAt
      BY LatestType DEF Kinds
    <3> QED BY <2>4, <3>1 DEF ReadPostsMark, Goto, TypeOK, PcStates
  <2>5. ASSUME NEW w \in Workers, StartHistory(w) PROVE TypeOK'
    BY <2>5 DEF StartHistory, Goto, TypeOK, PcStates
  <2>6. ASSUME NEW w \in Workers, NEW i \in Items, Collect(w, i) PROVE TypeOK'
    BY <2>6 DEF Collect, TypeOK
  <2>7. ASSUME NEW w \in Workers, EndCrawl(w) PROVE TypeOK'
    BY <2>7, RestType DEF EndCrawl, Goto, TypeOK, PcStates
  <2>8. ASSUME NEW w \in Workers, Archive(w) PROVE TypeOK'
    <3>1. PICK failed \in SUBSET todo[w] :
            /\ Fault(Cardinality(failed))
            /\ \E new \in SUBSET Archived(w, failed) : raw' = raw \cup new
      BY <2>8 DEF Archive
    <3>2. faults' \in 0..MaxFaults
      BY <3>1, ItemSetSize, FaultType DEF TypeOK
    <3>3. raw' \subseteq Items
      BY <3>1 DEF Archived, TypeOK
    <3> QED BY <2>8, <3>2, <3>3 DEF Archive, Goto, TypeOK, PcStates
  <2>9. ASSUME NEW w \in Workers, NEW i \in Items, Check(w, i) PROVE TypeOK'
    BY <2>9 DEF Check, Remaining, TypeOK
  <2>10. ASSUME NEW w \in Workers, EndChecks(w) PROVE TypeOK'
    BY <2>10, RestType DEF EndChecks, Goto, TypeOK, PcStates
  <2>11. ASSUME NEW w \in Workers, NEW i \in Items, Save(w, i) PROVE TypeOK'
    <3>1. /\ documents' \in [Ids -> Items \cup {None}]
          /\ \A d \in Ids : documents'[d] # None => documents'[d].id = d
      BY <2>11, ItemTypes DEF Save, AfterUpsert, TypeOK
    <3> QED BY <2>11, <3>1 DEF Save, TypeOK
  <2>12. ASSUME NEW w \in Workers, EndSaves(w) PROVE TypeOK'
    BY <2>12 DEF EndSaves, Goto, TypeOK, PcStates
  <2>13. ASSUME NEW w \in Workers, Publish(w) PROVE TypeOK'
    <3>1. PICK refused \in SUBSET batch[w] :
            /\ Fault(Cardinality(refused))
            /\ buffer' = [buffer EXCEPT ![w] = @ \cup (batch[w] \ refused)]
            /\ sent' = [sent EXCEPT ![w] = @ \cup (batch[w] \ refused)]
      BY <2>13 DEF Publish
    <3>2. faults' \in 0..MaxFaults
      BY <3>1, ItemSetSize, FaultType DEF TypeOK
    <3> QED BY <2>13, <3>1, <3>2 DEF Publish, Goto, TypeOK, PcStates
  <2>14. ASSUME NEW w \in Workers, Flush(w) PROVE TypeOK'
    BY <2>14, RestType DEF Flush, TypeOK
  <2>15. ASSUME NEW w \in Workers, NEW i \in Items, Deliver(w, i) PROVE TypeOK'
    BY <2>15 DEF Deliver, TypeOK
  <2>16. ASSUME NEW w \in Workers, NEW i \in Items, DeliveryFails(w, i) PROVE TypeOK'
    BY <2>16, FaultType DEF DeliveryFails, TypeOK
  <2>17. ASSUME NEW w \in Workers, Dies(w) PROVE TypeOK'
    BY <2>17, FaultType DEF Dies, Goto, TypeOK, PcStates
  <2>18. ASSUME NEW w \in Workers, Restart(w) PROVE TypeOK'
    BY <2>18, ItemsAssumption DEF Restart, Goto, TypeOK, PcStates
  <2>19. CASE UNCHANGED vars
    BY <2>19 DEF TypeOK
  <2> QED
    BY <2>1, <2>2, <2>3, <2>4, <2>5, <2>6, <2>7, <2>8, <2>9, <2>10, <2>11, <2>12,
       <2>13, <2>14, <2>15, <2>16, <2>17, <2>18, <2>19
    DEF Next, Server, Work, Producer
<1> QED BY <1>1, <1>2, PTL DEF Spec

-------------------------------------------------------------------------------
(* The collections only grow, so what is held stays held.                  *)

Grows ==
  /\ raw \subseteq raw'
  /\ \A d \in Ids : documents[d] # None => documents'[d] = documents[d]

LEMMA SaveGrows ==
  ASSUME TypeOK, NEW i \in Items
  PROVE  /\ \A d \in Ids : documents[d] # None => AfterUpsert(i)[d] = documents[d]
         /\ \A d \in Ids : AfterUpsert(i)[d] # documents[d] =>
              d = i.id /\ Inserts(i) /\ AfterUpsert(i)[d] = i
BY ItemTypes DEF TypeOK, AfterUpsert, Inserts

LEMMA StepGrows ==
  ASSUME TypeOK, [Next]_vars
  PROVE  Grows
<1> USE DEF vars, storeVars, workVars, kafkaVars
<1>1. ASSUME UNCHANGED storeVars PROVE Grows
  BY <1>1 DEF Grows
<1>2. ASSUME Server PROVE Grows
  BY <1>1, <1>2 DEF Server, Post, Edit
<1>3. ASSUME NEW w \in Workers, NEW i \in Items, Save(w, i) PROVE Grows
  BY <1>3, SaveGrows DEF Save, Grows
<1>4. ASSUME NEW w \in Workers, Archive(w) PROVE Grows
  BY <1>4 DEF Archive, Grows
<1>5. ASSUME NEW w \in Workers, NEW i \in Items,
             Collect(w, i) \/ Check(w, i) \/ Deliver(w, i) \/ DeliveryFails(w, i)
      PROVE  Grows
  BY <1>1, <1>5 DEF Collect, Check, Deliver, DeliveryFails
<1>6. ASSUME NEW w \in Workers,
             \/ ReadNewsMark(w) \/ ReadPostsMark(w) \/ StartHistory(w) \/ EndCrawl(w)
             \/ EndChecks(w) \/ EndSaves(w) \/ Publish(w) \/ Flush(w)
             \/ Dies(w) \/ Restart(w)
      PROVE  Grows
  BY <1>1, <1>6
  DEF ReadNewsMark, ReadPostsMark, StartHistory, EndCrawl, EndChecks, EndSaves,
      Publish, Flush, Dies, Restart
<1>7. CASE UNCHANGED vars
  BY <1>1, <1>7
<1> QED
  BY <1>2, <1>3, <1>4, <1>5, <1>6, <1>7 DEF Next, Work, Producer

(* Nothing stored or archived is ever rewritten ($setOnInsert).            *)
THEOREM StoresFinal == Spec => StoresAreFinal
<1>1. TypeOK /\ [Next]_vars => Grows
  BY StepGrows
<1>2. TypeOK /\ [Next]_vars =>
        [/\ raw \subseteq raw'
         /\ \A d \in Ids : documents[d] # None => documents'[d] = documents[d]]_vars
  BY <1>1 DEF Grows
<1> QED BY <1>2, TypeCorrect, PTL DEF Spec, StoresAreFinal

(* Two workers may both miss a text and then both save it: the unique      *)
(* index keeps one.                                                        *)
THEOREM FingerprintsUnique == Spec => []UniqueFingerprint
<1>1. Init => UniqueFingerprint
  BY DEF Init, UniqueFingerprint
<1>2. TypeOK /\ UniqueFingerprint /\ [Next]_vars => UniqueFingerprint'
  <2> SUFFICES ASSUME TypeOK, UniqueFingerprint, [Next]_vars PROVE UniqueFingerprint'
    OBVIOUS
  <2> USE DEF vars, storeVars, workVars, kafkaVars
  <2>1. ASSUME documents' = documents PROVE UniqueFingerprint'
    BY <2>1 DEF UniqueFingerprint
  <2>2. ASSUME NEW w \in Workers, NEW i \in Items, Save(w, i) PROVE UniqueFingerprint'
    <3>1. CASE ~Inserts(i)
      BY <2>1, <2>2, <3>1 DEF Save, AfterUpsert
    <3>2. CASE Inserts(i)
      <4>1. \A d \in Ids : documents[d] # None => documents[d].fingerprint # i.fingerprint
        BY <3>2, StoredTypes DEF Inserts
      <4>2. documents' = [documents EXCEPT ![i.id] = i]
        BY <2>2, <3>2 DEF Save, AfterUpsert
      <4> QED BY <4>1, <4>2 DEF UniqueFingerprint, TypeOK
    <3> QED BY <3>1, <3>2
  <2>3. ASSUME Server \/ UNCHANGED vars PROVE documents' = documents
    BY <2>3 DEF Server, Post, Edit
  <2>4. ASSUME NEW w \in Workers, NEW i \in Items,
               Collect(w, i) \/ Check(w, i) \/ Deliver(w, i) \/ DeliveryFails(w, i)
        PROVE  documents' = documents
    BY <2>4 DEF Collect, Check, Deliver, DeliveryFails
  <2>5. ASSUME NEW w \in Workers,
               \/ ReadNewsMark(w) \/ ReadPostsMark(w) \/ StartHistory(w) \/ EndCrawl(w)
               \/ Archive(w) \/ EndChecks(w) \/ EndSaves(w) \/ Publish(w) \/ Flush(w)
               \/ Dies(w) \/ Restart(w)
        PROVE  documents' = documents
    BY <2>5
    DEF ReadNewsMark, ReadPostsMark, StartHistory, EndCrawl, Archive, EndChecks,
        EndSaves, Publish, Flush, Dies, Restart
  <2> QED BY <2>1, <2>2, <2>3, <2>4, <2>5 DEF Next, Work, Producer
<1> QED BY <1>1, <1>2, TypeCorrect, PTL DEF Spec

-------------------------------------------------------------------------------
(* Publication.  An item reaches a producer only after every upsert of its *)
(* batch, and an upsert leaves its item held whether it writes or not; an  *)
(* item sent before is then found by its fingerprint, unless its id holds  *)
(* another text.                                                           *)

Edited(i) ==
  documents[i.id] # None /\ documents[i.id].fingerprint # i.fingerprint

SentIsHeld ==
  /\ \A i \in topic : Held(i)
  /\ \A w \in Workers : \A i \in buffer[w] \cup sent[w] : Held(i)

SavedIsHeld ==
  \A w \in Workers :
    /\ pc[w] = "save" => \A i \in batch[w] \ todo[w] : Held(i)
    /\ pc[w] \in {"publish", "flush"} => \A i \in batch[w] : Held(i)

ResentIsEdited ==
  \A w \in Workers :
    /\ pc[w] \in {"check", "save", "publish"} =>
         \A i \in batch[w] \cap sent[w] : Edited(i)
    /\ pc[w] \notin {"check", "save", "publish", "flush"} => batch[w] = {}

SendInv == SentIsHeld /\ SavedIsHeld /\ ResentIsEdited

LEMMA HeldStays ==
  ASSUME TypeOK, Grows, NEW i \in Items
  PROVE  /\ Held(i) => Held(i)'
         /\ Edited(i) => Edited(i)'
<1>1. ASSUME Held(i) PROVE Held(i)'
  <2>1. CASE documents[i.id] # None
    BY <2>1, ItemTypes DEF Grows, Held
  <2>2. CASE \E j \in Stored : j.fingerprint = i.fingerprint
    <3>1. PICK d \in Ids : documents[d] # None /\ documents[d].fingerprint = i.fingerprint
      BY <2>2, StoredTypes DEF Stored
    <3>2. documents'[d] = documents[d]
      BY <3>1 DEF Grows
    <3>3. documents'[d] \in Stored'
      BY <3>1, <3>2 DEF Stored
    <3> QED BY <3>1, <3>2, <3>3 DEF Held
  <2> QED BY <1>1, <2>1, <2>2 DEF Held
<1>2. ASSUME Edited(i) PROVE Edited(i)'
  BY <1>2, ItemTypes DEF Grows, Edited
<1> QED BY <1>1, <1>2

LEMMA UpsertHolds ==
  ASSUME TypeOK, NEW w \in Workers, NEW i \in Items, Save(w, i)
  PROVE  Held(i)'
<1>1. CASE Inserts(i)
  BY <1>1, ItemTypes DEF Save, AfterUpsert, Held, TypeOK
<1>2. CASE ~Inserts(i)
  BY <1>2 DEF Save, AfterUpsert, Inserts, Held, Stored
<1> QED BY <1>1, <1>2

(* Steps of w that neither fill its batch nor send keep SendInv.           *)
LEMMA OtherStep ==
  ASSUME TypeOK, TypeOK', Grows, SendInv,
         topic' \subseteq topic \cup UNION {buffer[w] : w \in Workers},
         \A w \in Workers :
           /\ buffer'[w] \subseteq buffer[w]
           /\ sent'[w] = sent[w]
           /\ batch'[w] = batch[w] /\ pc'[w] = pc[w] /\ todo'[w] = todo[w]
  PROVE  SendInv'
<1>1. SentIsHeld'
  <2>1. \A i \in topic' : Held(i)
    BY DEF SendInv, SentIsHeld
  <2>2. \A w \in Workers : \A i \in buffer'[w] \cup sent'[w] : Held(i)
    BY DEF SendInv, SentIsHeld
  <2> QED BY <2>1, <2>2, HeldStays DEF SentIsHeld, TypeOK
<1>2. SavedIsHeld'
  BY HeldStays DEF SendInv, SavedIsHeld, TypeOK
<1>3. ResentIsEdited'
  BY HeldStays DEF SendInv, ResentIsEdited, TypeOK
<1> QED BY <1>1, <1>2, <1>3 DEF SendInv

(* Steps of w in which only its position, its worklist and its batch       *)
(* change, and its producer loses nothing but messages.                    *)
LEMMA WorkStep ==
  ASSUME TypeOK, TypeOK', Grows, SendInv, NEW w \in Workers,
         topic' = topic,
         \A v \in Workers : buffer'[v] \subseteq buffer[v] /\ sent'[v] = sent[v],
         \A v \in Workers \ {w} :
           batch'[v] = batch[v] /\ pc'[v] = pc[v] /\ todo'[v] = todo[v],
         pc'[w] = "save" => \A i \in batch'[w] \ todo'[w] : Held(i)',
         pc'[w] \in {"publish", "flush"} => \A i \in batch'[w] : Held(i)',
         pc'[w] \in {"check", "save", "publish"} =>
           \A i \in batch'[w] \cap sent[w] : Edited(i)',
         pc'[w] \notin {"check", "save", "publish", "flush"} => batch'[w] = {}
  PROVE  SendInv'
<1>1. SentIsHeld'
  <2>1. \A v \in Workers : \A i \in buffer'[v] \cup sent'[v] : Held(i)
    BY DEF SendInv, SentIsHeld
  <2> QED BY <2>1, HeldStays DEF SendInv, SentIsHeld, TypeOK
<1>2. SavedIsHeld'
  <2> SUFFICES ASSUME NEW v \in Workers
               PROVE  /\ pc'[v] = "save" => \A i \in batch'[v] \ todo'[v] : Held(i)'
                      /\ pc'[v] \in {"publish", "flush"} => \A i \in batch'[v] : Held(i)'
    BY DEF SavedIsHeld
  <2>1. CASE v = w
    BY <2>1
  <2>2. CASE v # w
    BY <2>2, HeldStays DEF SendInv, SavedIsHeld, TypeOK
  <2> QED BY <2>1, <2>2
<1>3. ResentIsEdited'
  <2> SUFFICES ASSUME NEW v \in Workers
               PROVE  /\ pc'[v] \in {"check", "save", "publish"} =>
                           \A i \in batch'[v] \cap sent'[v] : Edited(i)'
                      /\ pc'[v] \notin {"check", "save", "publish", "flush"} =>
                           batch'[v] = {}
    BY DEF ResentIsEdited
  <2>1. CASE v = w
    BY <2>1
  <2>2. CASE v # w
    BY <2>2, HeldStays DEF SendInv, ResentIsEdited, TypeOK
  <2> QED BY <2>1, <2>2
<1> QED BY <1>1, <1>2, <1>3 DEF SendInv

LEMMA CheckSend ==
  ASSUME TypeOK, TypeOK', Grows, SendInv, NEW w \in Workers, NEW i \in Items, Check(w, i)
  PROVE  SendInv'
<1>1. /\ pc' = pc /\ topic' = topic /\ buffer' = buffer /\ sent' = sent
      /\ documents' = documents /\ pc[w] = "check"
      /\ \A v \in Workers \ {w} : batch'[v] = batch[v] /\ todo'[v] = todo[v]
  BY DEF Check, Remaining, storeVars, kafkaVars, TypeOK
<1>2. batch'[w] \subseteq batch[w] \cup {i}
      /\ (i \in batch'[w] \ batch[w] => \A j \in Stored : j.fingerprint # i.fingerprint)
  BY DEF Check, IsDuplicate, TypeOK
<1>3. ASSUME i \in batch'[w] \ batch[w], i \in sent[w] PROVE Edited(i)'
  <2>1. Held(i) /\ \A j \in Stored : j.fingerprint # i.fingerprint
    BY <1>2, <1>3 DEF SendInv, SentIsHeld
  <2>2. documents[i.id] # None
    BY <2>1 DEF Held
  <2>3. documents[i.id] \in Stored
    BY <2>2, ItemTypes, StoredTypes
  <2> QED BY <1>1, <2>1, <2>2, <2>3 DEF Edited
<1>4. \A j \in batch[w] \cap sent[w] : Edited(j)'
  BY <1>1 DEF SendInv, ResentIsEdited, Edited
<1>5. \A j \in batch'[w] \cap sent[w] : Edited(j)'
  BY <1>2, <1>3, <1>4
<1> QED BY <1>1, <1>5, WorkStep

LEMMA SaveSend ==
  ASSUME TypeOK, TypeOK', Grows, SendInv, NEW w \in Workers, NEW i \in Items, Save(w, i)
  PROVE  SendInv'
<1>1. /\ pc' = pc /\ topic' = topic /\ buffer' = buffer /\ sent' = sent /\ batch' = batch
      /\ pc[w] = "save" /\ todo'[w] = todo[w] \ {i}
      /\ \A v \in Workers \ {w} : todo'[v] = todo[v]
  BY DEF Save, kafkaVars, TypeOK
<1>2. \A j \in batch[w] \ todo'[w] : Held(j)'
  BY <1>1, UpsertHolds, HeldStays DEF SendInv, SavedIsHeld, TypeOK
<1>3. \A j \in batch[w] \cap sent[w] : Edited(j)'
  BY <1>1, HeldStays DEF SendInv, ResentIsEdited, TypeOK
<1> QED BY <1>1, <1>2, <1>3, WorkStep

LEMMA PublishSend ==
  ASSUME TypeOK, TypeOK', Grows, SendInv, NEW w \in Workers, Publish(w)
  PROVE  SendInv'
<1>1. /\ pc[w] = "publish" /\ pc'[w] = "flush" /\ topic' = topic /\ batch' = batch
      /\ todo' = todo /\ documents' = documents
      /\ \A v \in Workers \ {w} : pc'[v] = pc[v]
  BY DEF Publish, Goto, storeVars, TypeOK
<1>2. /\ \A v \in Workers \ {w} : buffer'[v] = buffer[v] /\ sent'[v] = sent[v]
      /\ buffer'[w] \subseteq buffer[w] \cup batch[w]
      /\ sent'[w] \subseteq sent[w] \cup batch[w]
  BY DEF Publish, TypeOK
<1>3. \A i \in batch[w] : Held(i)
  BY <1>1 DEF SendInv, SavedIsHeld
<1>4. \A i \in Items : Held(i) => Held(i)'
  BY HeldStays
<1>5. SentIsHeld'
  <2>1. \A v \in Workers : \A i \in buffer'[v] \cup sent'[v] : Held(i)
    BY <1>2, <1>3 DEF SendInv, SentIsHeld
  <2> QED BY <1>1, <1>4, <2>1 DEF SendInv, SentIsHeld, TypeOK
<1>6. SavedIsHeld'
  BY <1>1, <1>3, <1>4 DEF SendInv, SavedIsHeld, TypeOK
<1>7. ResentIsEdited'
  BY <1>1, <1>2 DEF SendInv, ResentIsEdited, Edited
<1> QED BY <1>5, <1>6, <1>7 DEF SendInv

LEMMA SendStep ==
  ASSUME TypeOK, TypeOK', SendInv, [Next]_vars
  PROVE  SendInv'
<1> USE DEF vars, storeVars, workVars, kafkaVars
<1>1. Grows
  BY StepGrows
<1>2. ASSUME Server \/ UNCHANGED vars PROVE SendInv'
  BY <1>1, <1>2, OtherStep DEF Server, Post, Edit
<1>3. ASSUME NEW w \in Workers, NEW i \in Items, Deliver(w, i) \/ DeliveryFails(w, i)
      PROVE  SendInv'
  BY <1>1, <1>3, OtherStep DEF Deliver, DeliveryFails, TypeOK
<1>4. ASSUME NEW w \in Workers, NEW i \in Items, Check(w, i) PROVE SendInv'
  BY <1>1, <1>4, CheckSend
<1>5. ASSUME NEW w \in Workers, NEW i \in Items, Save(w, i) PROVE SendInv'
  BY <1>1, <1>5, SaveSend
<1>6. ASSUME NEW w \in Workers, Publish(w) PROVE SendInv'
  BY <1>1, <1>6, PublishSend
<1>7. ASSUME NEW w \in Workers,
             ReadNewsMark(w) \/ ReadPostsMark(w) \/ StartHistory(w) \/ EndCrawl(w) \/ Archive(w)
      PROVE  SendInv'
  <2>1. /\ topic' = topic /\ buffer' = buffer /\ sent' = sent /\ batch' = batch /\ todo' = todo
        /\ \A v \in Workers \ {w} : pc'[v] = pc[v]
    BY <1>7
    DEF ReadNewsMark, ReadPostsMark, StartHistory, EndCrawl, Archive, Rest, Goto, TypeOK
  <2>2. batch[w] = {} /\ pc'[w] \notin {"save", "publish", "flush"}
    BY <1>7
    DEF ReadNewsMark, ReadPostsMark, StartHistory, EndCrawl, Archive, Rest, Goto, TypeOK,
        SendInv, ResentIsEdited
  <2> QED BY <1>1, <2>1, <2>2, WorkStep
<1>8. ASSUME NEW w \in Workers, NEW i \in Items, Collect(w, i) PROVE SendInv'
  <2>1. /\ topic' = topic /\ buffer' = buffer /\ sent' = sent /\ batch' = batch /\ pc' = pc
        /\ \A v \in Workers \ {w} : todo'[v] = todo[v]
    BY <1>8 DEF Collect, TypeOK
  <2>2. pc[w] = "crawl" /\ batch[w] = {}
    BY <1>8 DEF Collect, SendInv, ResentIsEdited
  <2> QED BY <1>1, <2>1, <2>2, WorkStep
<1>9. ASSUME NEW w \in Workers, EndChecks(w) PROVE SendInv'
  <2>1. /\ topic' = topic /\ buffer' = buffer /\ sent' = sent /\ batch' = batch
        /\ \A v \in Workers \ {w} : pc'[v] = pc[v] /\ todo'[v] = todo[v]
        /\ todo'[w] = batch[w] /\ pc[w] = "check" /\ documents' = documents
    BY <1>9 DEF EndChecks, Rest, Goto, TypeOK
  <2>2. IF batch[w] = {} THEN pc'[w] \in {"idle", "done"} ELSE pc'[w] = "save"
    BY <1>9 DEF EndChecks, Rest, Goto, TypeOK
  <2>3. \A i \in batch[w] \cap sent[w] : Edited(i)'
    BY <2>1 DEF SendInv, ResentIsEdited, Edited
  <2> QED BY <1>1, <2>1, <2>2, <2>3, WorkStep
<1>10. ASSUME NEW w \in Workers, EndSaves(w) PROVE SendInv'
  <2>1. /\ topic' = topic /\ buffer' = buffer /\ sent' = sent /\ batch' = batch /\ todo' = todo
        /\ \A v \in Workers \ {w} : pc'[v] = pc[v]
        /\ pc[w] = "save" /\ pc'[w] = "publish" /\ todo[w] = {} /\ documents' = documents
    BY <1>10 DEF EndSaves, SaveReturns, Goto, TypeOK
  <2>2. \A i \in batch[w] : Held(i)'
    BY <1>1, <2>1, HeldStays DEF SendInv, SavedIsHeld, TypeOK
  <2>3. \A i \in batch[w] \cap sent[w] : Edited(i)'
    BY <2>1 DEF SendInv, ResentIsEdited, Edited
  <2> QED BY <1>1, <2>1, <2>2, <2>3, WorkStep
<1>11. ASSUME NEW w \in Workers, Flush(w) \/ Dies(w) PROVE SendInv'
  <2>1. /\ topic' = topic /\ sent' = sent
        /\ \A v \in Workers : buffer'[v] \subseteq buffer[v]
        /\ \A v \in Workers \ {w} : batch'[v] = batch[v] /\ pc'[v] = pc[v] /\ todo'[v] = todo[v]
        /\ batch'[w] = {}
    BY <1>11 DEF Flush, Dies, Rest, Goto, TypeOK
  <2>2. pc'[w] \in {"idle", "done", "dead"}
    BY <1>11 DEF Flush, Dies, Rest, Goto, TypeOK
  <2> QED BY <1>1, <2>1, <2>2, WorkStep
<1>12. ASSUME NEW w \in Workers, Restart(w) PROVE SendInv'
  <2>1. /\ topic' = topic /\ buffer' = buffer /\ sent' = sent /\ batch' = batch /\ todo' = todo
        /\ \A v \in Workers \ {w} : pc'[v] = pc[v]
        /\ pc'[w] = "idle"
    BY <1>12 DEF Restart, Goto, TypeOK
  <2>2. batch[w] = {}
    BY <1>12 DEF Restart, SendInv, ResentIsEdited
  <2> QED BY <1>1, <2>1, <2>2, WorkStep
<1> QED
  BY <1>2, <1>3, <1>4, <1>5, <1>6, <1>7, <1>8, <1>9, <1>10, <1>11, <1>12
  DEF Next, Work, Producer

THEOREM SendInvariant == Spec => []SendInv
<1>1. Init => SendInv
  BY DEF Init, SendInv, SentIsHeld, SavedIsHeld, ResentIsEdited
<1>2. TypeOK /\ TypeOK' /\ SendInv /\ [Next]_vars => SendInv'
  BY SendStep
<1> QED BY <1>1, <1>2, TypeCorrect, PTL DEF Spec

(* Nothing is on financial-news whose id and text are both absent from the *)
(* collection, whatever worker died when.                                  *)
THEOREM PublishedStored == Spec => []PublishedIsStored
<1>1. SendInv => PublishedIsStored
  BY DEF SendInv, SentIsHeld, PublishedIsStored
<1> QED BY <1>1, SendInvariant, PTL

(* A worker sends an item twice only when the server edited it.            *)
THEOREM RepublishedEdits == Spec => RepublishesOnlyEdits
<1>1. ASSUME TypeOK, SendInv, [Next]_vars
      PROVE  \A w \in Workers : \A i \in sent[w] \cap (buffer'[w] \ buffer[w]) :
               documents[i.id] # None /\ documents[i.id].fingerprint # i.fingerprint
  <2> SUFFICES ASSUME NEW w \in Workers, NEW i \in sent[w] \cap (buffer'[w] \ buffer[w])
               PROVE  Edited(i)
    BY DEF Edited
  <2> USE DEF vars, storeVars, workVars, kafkaVars
  <2>1. \E v \in Workers : Publish(v)
    <3>1. ASSUME Server \/ UNCHANGED vars PROVE FALSE
      BY <3>1 DEF Server, Post, Edit
    <3>2. ASSUME NEW v \in Workers, NEW j \in Items,
                 \/ Collect(v, j) \/ Check(v, j) \/ Save(v, j)
                 \/ Deliver(v, j) \/ DeliveryFails(v, j)
          PROVE  FALSE
      BY <1>1, <3>2 DEF Collect, Check, Save, Deliver, DeliveryFails, TypeOK
    <3>3. ASSUME NEW v \in Workers,
                 \/ ReadNewsMark(v) \/ ReadPostsMark(v) \/ StartHistory(v) \/ EndCrawl(v)
                 \/ Archive(v) \/ EndChecks(v) \/ EndSaves(v) \/ Flush(v)
                 \/ Dies(v) \/ Restart(v)
          PROVE  FALSE
      BY <1>1, <3>3
      DEF ReadNewsMark, ReadPostsMark, StartHistory, EndCrawl, Archive, EndChecks,
          EndSaves, Flush, Dies, Restart, TypeOK
    <3> QED BY <1>1, <3>1, <3>2, <3>3 DEF Next, Work, Producer
  <2>2. PICK v \in Workers : Publish(v)
    BY <2>1
  <2>3. v = w /\ i \in batch[w] /\ pc[w] = "publish"
    BY <1>1, <2>2 DEF Publish, TypeOK
  <2> QED BY <1>1, <2>3 DEF SendInv, ResentIsEdited
<1>2. TypeOK /\ SendInv /\ [Next]_vars =>
        [\A w \in Workers : \A i \in sent[w] \cap (buffer'[w] \ buffer[w]) :
           documents[i.id] # None /\ documents[i.id].fingerprint # i.fingerprint]_vars
  BY <1>1
<1> QED BY <1>2, TypeCorrect, SendInvariant, PTL DEF Spec, RepublishesOnlyEdits

-------------------------------------------------------------------------------
(* Watermarks.  A date a poller has read is at most the newest stored one, *)
(* which only advances as the collection grows.                            *)

MarkInv ==
  /\ \A w \in Workers, k \in Kinds : mark[w][k] <= Latest(k)
  /\ \A w \in Pollers : pc[w] # "done"

LatestBounds ==
  \A k \in Kinds : Latest(k) \in 0..MaxAt /\ \A t \in DatesOf(k) : t <= Latest(k)

(* LatestType in the state after a step.                                   *)
LEMMA LatestTypeNext == TypeOK' => LatestBounds'
<1>1. TypeOK => LatestBounds
  BY LatestType DEF LatestBounds
<1> QED BY <1>1, PTL

LEMMA LatestAdvances ==
  ASSUME TypeOK, TypeOK', Grows, NEW k \in Kinds
  PROVE  Latest(k) \in Nat /\ Latest(k)' \in Nat /\ Latest(k) <= Latest(k)'
<1>1. Latest(k) \in 0..MaxAt /\ (Latest(k) = 0 \/ Latest(k) \in DatesOf(k))
  BY LatestType
<1>2. Latest(k)' \in 0..MaxAt /\ \A t \in DatesOf(k)' : t <= Latest(k)'
  BY LatestTypeNext DEF LatestBounds
<1>3. DatesOf(k) \subseteq DatesOf(k)'
  <2>1. Stored \subseteq Stored'
    BY DEF Stored, Grows
  <2> QED BY <2>1 DEF DatesOf
<1> QED BY <1>1, <1>2, <1>3, ItemsAssumption

LEMMA MarkStep ==
  ASSUME TypeOK, TypeOK', MarkInv, [Next]_vars
  PROVE  /\ MarkInv'
         /\ \A w \in Pollers, k \in Kinds :
              pc[w] # "dead" => mark'[w][k] >= mark[w][k]
<1> USE DEF vars, storeVars, workVars, kafkaVars
<1>1. \A k \in Kinds : Latest(k) \in Nat /\ Latest(k)' \in Nat /\ Latest(k) <= Latest(k)'
  BY StepGrows, LatestAdvances
<1>2. \A w \in Workers, k \in Kinds : mark[w][k] \in Nat /\ mark'[w][k] \in Nat
  BY ItemsAssumption DEF TypeOK
<1>3. "news" \in Kinds /\ "post" \in Kinds /\ Pollers \subseteq Workers
  BY DEF Kinds, Workers
<1>4. ASSUME mark' = mark, \A w \in Pollers : pc'[w] # "done"
      PROVE  /\ MarkInv'
             /\ \A w \in Pollers, k \in Kinds : mark'[w][k] >= mark[w][k]
  BY <1>1, <1>2, <1>3, <1>4 DEF MarkInv
<1>5. ASSUME Server \/ UNCHANGED vars PROVE mark' = mark /\ pc' = pc
  BY <1>5 DEF Server, Post, Edit
<1>6. ASSUME NEW v \in Workers, NEW i \in Items,
             \/ Collect(v, i) \/ Check(v, i) \/ Save(v, i)
             \/ Deliver(v, i) \/ DeliveryFails(v, i)
      PROVE  mark' = mark /\ pc' = pc
  BY <1>6 DEF Collect, Check, Save, Deliver, DeliveryFails
<1>7. ASSUME NEW v \in Workers,
             \/ StartHistory(v) \/ EndCrawl(v) \/ Archive(v) \/ EndChecks(v)
             \/ EndSaves(v) \/ Publish(v) \/ Flush(v) \/ Dies(v)
      PROVE  mark' = mark /\ \A w \in Pollers : pc'[w] # "done"
  BY <1>3, <1>7
  DEF StartHistory, EndCrawl, Archive, EndChecks, EndSaves, Publish, Flush, Dies,
      Rest, Goto, TypeOK, MarkInv
<1>8. ASSUME NEW v \in Workers, NEW k \in Kinds,
             mark' = [mark EXCEPT ![v][k] = Latest(k)],
             \A w \in Pollers : pc'[w] # "done"
      PROVE  /\ MarkInv'
             /\ \A w \in Pollers, l \in Kinds : mark'[w][l] >= mark[w][l]
  <2>1. \A w \in Workers, l \in Kinds :
          mark'[w][l] = IF w = v /\ l = k THEN Latest(k) ELSE mark[w][l]
    BY <1>8 DEF TypeOK
  <2> QED BY <1>1, <1>2, <1>3, <1>8, <2>1 DEF MarkInv
<1>9. ASSUME NEW v \in Workers, ReadNewsMark(v) \/ ReadPostsMark(v)
      PROVE  /\ MarkInv'
             /\ \A w \in Pollers, k \in Kinds : mark'[w][k] >= mark[w][k]
  <2>1. \A w \in Pollers : pc'[w] # "done"
    BY <1>3, <1>9 DEF ReadNewsMark, ReadPostsMark, Goto, TypeOK, MarkInv
  <2>2. CASE ReadNewsMark(v)
    BY <1>3, <1>8, <2>1, <2>2 DEF ReadNewsMark
  <2>3. CASE ReadPostsMark(v)
    BY <1>3, <1>8, <2>1, <2>3 DEF ReadPostsMark
  <2> QED BY <1>9, <2>2, <2>3
<1>10. ASSUME NEW v \in Workers, Restart(v)
       PROVE  /\ MarkInv'
              /\ \A w \in Pollers, k \in Kinds :
                   pc[w] # "dead" => mark'[w][k] >= mark[w][k]
  <2>1. /\ pc[v] \in {"done", "dead"}
        /\ \A w \in Pollers : pc'[w] # "done"
        /\ \A w \in Workers, l \in Kinds :
             mark'[w][l] = IF w = v THEN 0 ELSE mark[w][l]
    BY <1>3, <1>10 DEF Restart, Goto, TypeOK, MarkInv
  <2> QED BY <1>1, <1>2, <1>3, <2>1 DEF MarkInv
<1> QED
  <2>1. \A w \in Pollers : pc[w] # "done"
    BY DEF MarkInv
  <2> QED BY <1>4, <1>5, <1>6, <1>7, <1>9, <1>10, <2>1 DEF Next, Work, Producer

(* The watermarks of a living poller never move back.                      *)
THEOREM MarksAdvance == Spec => WatermarksAdvance
<1>1. Init => MarkInv
  <2> SUFFICES ASSUME Init PROVE MarkInv
    OBVIOUS
  <2>1. TypeOK
    BY ItemsAssumption DEF Init, TypeOK, PcStates
  <2>2. \A k \in Kinds : Latest(k) >= 0
    BY <2>1, LatestType, ItemsAssumption
  <2> QED BY <2>2 DEF Init, MarkInv, Workers
<1>2. TypeOK /\ TypeOK' /\ MarkInv /\ [Next]_vars => MarkInv'
  BY MarkStep
<1>3. TypeOK /\ TypeOK' /\ MarkInv /\ [Next]_vars =>
        [\A w \in Pollers, k \in Kinds :
           pc[w] # "dead" => mark'[w][k] >= mark[w][k]]_vars
  BY MarkStep
<1> QED BY <1>1, <1>2, <1>3, TypeCorrect, PTL DEF Spec, WatermarksAdvance

================================================================================
