--------------------------- MODULE ForecastingProofs ---------------------------
(***************************************************************************)
(* Theorems about Forecasting, for every number of requests, symbols,      *)
(* dates, hours, horizons and faults.                                      *)
(***************************************************************************)
EXTENDS Forecasting, TLAPS

-------------------------------------------------------------------------------
(* The two parts of a step.                                                *)

Serves == Models!Next /\ UNCHANGED predictionsOnly
Predicts == Predictions!Next /\ VectorsComeFromGold /\ UNCHANGED modelsOnly

(* The places the model server goes through.                               *)
LEMMA Places ==
  /\ 1 \in 1..(2 * Horizons + 1)
  /\ \A m \in Models!Models : m + 1 \in 1..(2 * Horizons + 1)
BY ForecastingAssumption DEF Models!ServingAssumption, Models!Models

(* Every variable of both parts keeps its type: model serving.             *)
LEMMA ServesKeepsModelTypes ==
  ASSUME Models!TypeOK, Models!Next
  PROVE  Models!TypeOK'
<1> USE Places, ForecastingAssumption DEF Models!ServingAssumption
<1> USE DEF Models!TypeOK, Models!registryVars, Models!processVars, Models!historyVars,
            Models!FirstModel, Models!Fault, Models!Enter, Models!Exit
<1>1. CASE Models!FeaturesArrive
  BY <1>1 DEF Models!FeaturesArrive
<1>2. CASE Models!Start
  <2>1. CASE Models!Enter("load") /\ UNCHANGED <<bootstrapped, hindered, faults>>
    BY <1>2, <2>1 DEF Models!Start
  <2>2. CASE Models!Enter("extract") /\ bootstrapped' = TRUE /\ UNCHANGED <<hindered, faults>>
    BY <1>2, <2>2 DEF Models!Start
  <2>3. CASE Models!Enter("extract") /\ bootstrapped' = TRUE /\ hindered' = TRUE /\ Models!Fault
    BY <1>2, <2>3 DEF Models!Start
  <2> QED BY <1>2, <2>1, <2>2, <2>3 DEF Models!Start
<1>3. CASE Models!Extract
  BY <1>3 DEF Models!Extract, Models!Extracted
<1>4. CASE Models!Train
  BY <1>4 DEF Models!Train
<1>5. CASE Models!BootstrapFails
  BY <1>5 DEF Models!BootstrapFails
<1>6. CASE Models!Evaluate
  BY <1>6 DEF Models!Evaluate, Models!Accept, Models!Reject
<1>7. CASE Models!EndEvaluation
  BY <1>7 DEF Models!EndEvaluation
<1>8. CASE Models!Load
  BY <1>8 DEF Models!Load, Models!AfterLoad
<1>9. CASE Models!LoadFails
  BY <1>9 DEF Models!LoadFails
<1>10. CASE Models!EndLoading
  BY <1>10 DEF Models!EndLoading
<1>11. ASSUME Models!Exit, faults' \in 0..MaxFaults
       PROVE  Models!TypeOK'
  <2>1. /\ gold' = gold /\ dataset' = dataset /\ promoted' = promoted
        /\ loaded' = {} /\ server' = "down" /\ at' = 1
        /\ bootstrapped' = FALSE /\ hindered' = FALSE
    BY <1>11
  <2> QED BY <1>11, <2>1
<1>12. CASE Models!Shutdown \/ Models!Crash
  <2>1. faults' \in 0..MaxFaults
    BY <1>12 DEF Models!Shutdown, Models!Crash
  <2> QED BY <1>11, <1>12, <2>1 DEF Models!Shutdown, Models!Crash
<1>13. CASE Models!Recreate
  BY <1>13 DEF Models!Recreate
<1> QED
  BY <1>1, <1>2, <1>3, <1>4, <1>5, <1>6, <1>7, <1>8, <1>9, <1>10, <1>11, <1>12, <1>13
  DEF Models!Next, Models!Process

(* Predictions only share the count of faults with the model server.       *)
LEMMA PredictsKeepsModelTypes ==
  ASSUME Models!TypeOK, Predictions!TypeOK', UNCHANGED modelsOnly
  PROVE  Models!TypeOK'
BY DEF Models!TypeOK, Predictions!TypeOK, modelsOnly, Models!Models

LEMMA ServesKeepsPredictionTypes ==
  ASSUME Predictions!TypeOK, Models!TypeOK', UNCHANGED predictionsOnly
  PROVE  Predictions!TypeOK'
BY DEF Models!TypeOK, Predictions!TypeOK, predictionsOnly, Predictions!Keys, Predictions!Hours,
       Predictions!Entries, Predictions!Types, Predictions!Active

(* Every variable of both parts keeps its type: predictions.               *)
LEMMA PairsAreEntries ==
  \A r \in Requests : Predictions!Pair(r) \subseteq Predictions!Entries
BY ForecastingAssumption DEF Predictions!LogAssumption, Predictions!Pair, Predictions!Entries

LEMMA HoursAsked ==
  /\ 1 \in Predictions!Hours
  /\ \A r \in Requests :
       /\ SymbolOf[r] \in Symbols
       /\ DateOf[r] # None => /\ DateOf[r].written \in Predictions!Hours
                             /\ DateOf[r].meant \in Predictions!Hours
  /\ \A k \in Predictions!Keys : Predictions!KeyOf(k[1], k[2]) = k
<1> USE ForecastingAssumption DEF Predictions!LogAssumption
<1>1. 1 \in Predictions!Hours
  BY DEF Predictions!Hours
<1>2. ASSUME NEW r \in Requests, DateOf[r] # None
      PROVE  DateOf[r].written \in Predictions!Hours /\ DateOf[r].meant \in Predictions!Hours
  BY <1>2 DEF Predictions!Dates
<1>3. \A k \in Predictions!Keys : Predictions!KeyOf(k[1], k[2]) = k
  BY DEF Predictions!Keys, Predictions!KeyOf
<1> QED BY <1>1, <1>2, <1>3

LEMMA KeysAreKeys ==
  ASSUME clock \in Predictions!Hours, NEW r \in Requests
  PROVE  <<SymbolOf[r], Predictions!HourNamed(r)>> \in Predictions!Keys
BY HoursAsked DEF Predictions!HourNamed, Predictions!Keys

LEMMA PredictsKeepsTypes ==
  ASSUME Predictions!TypeOK, Predictions!Next
  PROVE  Predictions!TypeOK'
<1> USE ForecastingAssumption, PairsAreEntries DEF Models!ServingAssumption
<1> USE DEF Predictions!TypeOK, Predictions!worldVars, Predictions!questionVars,
            Predictions!requestVars, Predictions!logVars, Predictions!Fault, Predictions!Goto,
            Predictions!Proceed, Predictions!Answer, Predictions!Fail, Predictions!Forget,
            Predictions!Active
<1>1. ASSUME NEW s \in Symbols, NEW kinds \in SUBSET {"priced", "unpriced"},
             Predictions!VectorChanges(s, kinds)
      PROVE  Predictions!TypeOK'
  BY <1>1 DEF Predictions!VectorChanges
<1>2. ASSUME NEW s \in Symbols, Predictions!BarArrives(s) PROVE Predictions!TypeOK'
  BY <1>2 DEF Predictions!BarArrives
<1>3. ASSUME NEW k \in Predictions!Keys, Predictions!Expire(k) PROVE Predictions!TypeOK'
  BY <1>3 DEF Predictions!Expire
<1>4. CASE Predictions!GatewayStart
  BY <1>4 DEF Predictions!GatewayStart
<1>5. CASE Predictions!GatewayCrash
  BY <1>5 DEF Predictions!GatewayCrash
<1>6. ASSUME NEW r \in Requests, Predictions!Arrive(r) PROVE Predictions!TypeOK'
  <2>1. CASE Predictions!Ask(r)
    <3>1. <<SymbolOf[r], Predictions!HourNamed(r)>> \in Predictions!Keys \ {None}
      BY KeysAreKeys DEF Predictions!LogAssumption
    <3> QED BY <2>1, <3>1 DEF Predictions!Ask
  <2>2. CASE Predictions!AskUncached(r)
    BY <2>2 DEF Predictions!AskUncached
  <2> QED BY <1>6, <2>1, <2>2 DEF Predictions!Arrive
<1>7. ASSUME NEW r \in Requests, Predictions!Handle(r) PROVE Predictions!TypeOK'
  <2>1. CASE Predictions!ReadGold(r)
    BY <2>1 DEF Predictions!ReadGold
  <2>2. CASE Predictions!ReadSilver(r)
    BY <2>2 DEF Predictions!ReadSilver
  <2>3. ASSUME NEW h \in 1..Horizons, Predictions!Forecast(r, h) PROVE Predictions!TypeOK'
    BY <2>3 DEF Predictions!Forecast
  <2>4. CASE Predictions!Reason(r)
    BY <2>4 DEF Predictions!Reason
  <2>5. CASE Predictions!CallFails(r)
    BY <2>5 DEF Predictions!CallFails
  <2>6. CASE Predictions!Breaks(r)
    BY <2>6 DEF Predictions!Breaks
  <2>7. CASE Predictions!Insert(r)
    BY <2>7 DEF Predictions!Insert
  <2>8. CASE Predictions!InsertFails(r)
    BY <2>8 DEF Predictions!InsertFails
  <2>9. CASE Predictions!Store(r)
    BY <2>9 DEF Predictions!Store, Predictions!AfterStore
  <2>10. CASE Predictions!StoreFails(r)
    BY <2>10 DEF Predictions!StoreFails
  <2>11. CASE Predictions!LookUp(r)
    <3>1. Predictions!KeyOf(asked[r][1], asked[r][2]) \in Predictions!Keys
      BY <2>11, HoursAsked DEF Predictions!LookUp
    <3> QED BY <2>11, <3>1 DEF Predictions!LookUp
  <2>12. CASE Predictions!LookUpFails(r)
    BY <2>12 DEF Predictions!LookUpFails
  <2>13. CASE Predictions!Begin(r)
    BY <2>13, HoursAsked DEF Predictions!Begin
  <2> QED
    BY <1>7, <2>1, <2>2, <2>3, <2>4, <2>5, <2>6, <2>7, <2>8, <2>9, <2>10, <2>11, <2>12, <2>13
    DEF Predictions!Handle
<1>8. ASSUME NEW e \in log, Predictions!JobHandle(e) PROVE Predictions!TypeOK'
  BY <1>8 DEF Predictions!JobHandle
<1>9. CASE Predictions!Tick
  <2>1. clock' \in Predictions!Hours
    BY <1>9, ForecastingAssumption DEF Predictions!Tick, Predictions!Hours, Predictions!LogAssumption
  <2> QED BY <1>9, <2>1 DEF Predictions!Tick
<1> QED
  BY <1>1, <1>2, <1>3, <1>4, <1>5, <1>6, <1>7, <1>8, <1>9
  DEF Predictions!Next, Predictions!World, Predictions!Job

(* Every variable keeps its type, in every reachable state.                *)
THEOREM TypeCorrect == Spec => []TypeOK
<1>1. Init => TypeOK
  <2>1. 0 \in 0..MaxFaults
    BY ForecastingAssumption DEF Models!ServingAssumption
  <2>2. Models!Init => Models!TypeOK
    BY <2>1, Places DEF Models!Init, Models!TypeOK, Models!FirstModel
  <2>3. Predictions!Init => Predictions!TypeOK
    BY <2>1, HoursAsked DEF Predictions!Init, Predictions!TypeOK, Predictions!Active
  <2> QED BY <2>2, <2>3 DEF Init, TypeOK
<1>2. TypeOK /\ [Next]_vars => TypeOK'
  <2> SUFFICES ASSUME TypeOK, [Next]_vars PROVE TypeOK'
    OBVIOUS
  <2>1. CASE Serves
    BY <2>1, ServesKeepsModelTypes, ServesKeepsPredictionTypes DEF Serves, TypeOK
  <2>2. CASE Predicts
    BY <2>2, PredictsKeepsTypes, PredictsKeepsModelTypes DEF Predicts, TypeOK
  <2>3. CASE UNCHANGED vars
    BY <2>3
    DEF vars, modelsOnly, predictionsOnly, TypeOK, Models!TypeOK, Models!Models,
        Predictions!TypeOK, Predictions!Keys, Predictions!Hours, Predictions!Entries,
        Predictions!Types, Predictions!Active
  <2> QED BY <2>1, <2>2, <2>3 DEF Next, Serves, Predicts
<1> QED BY <1>1, <1>2, PTL DEF Spec

-------------------------------------------------------------------------------
(* Where a start stands that nothing has hindered: what each phase has     *)
(* reached, after a bootstrap and without one.                             *)
StartInv ==
  hindered \/
    /\ server = "down" => ~bootstrapped
    /\ server = "train" => dataset = "full"
    /\ server = "evaluate" => 1..(at - 1) \subseteq promoted
    /\ server \in {"load", "serving"} /\ bootstrapped => promoted = Models!Models
    /\ server = "load" => promoted \cap 1..(at - 1) \subseteq loaded
    /\ server = "serving" => loaded = promoted

(* The last place covers every model, and one place more covers one more.  *)
LEMMA PlacesCover ==
  /\ 1..(1 - 1) = {}
  /\ \A a \in 1..(2 * Horizons + 1) :
       /\ a \notin Models!Models => 1..(a - 1) = Models!Models
       /\ 1..((a + 1) - 1) = (1..(a - 1)) \cup {a}
BY ForecastingAssumption DEF Models!ServingAssumption, Models!Models

LEMMA ServesKeepsStart ==
  ASSUME Models!TypeOK, StartInv, Models!Next
  PROVE  StartInv'
<1> USE PlacesCover DEF StartInv, Models!TypeOK, Models!Enter, Models!FirstModel,
            Models!registryVars, Models!processVars, Models!historyVars
<1>1. CASE Models!FeaturesArrive
  BY <1>1 DEF Models!FeaturesArrive
<1>2. CASE Models!Start
  <2>1. CASE Models!Enter("load") /\ UNCHANGED <<bootstrapped, hindered, faults>>
    BY <1>2, <2>1 DEF Models!Start
  <2>2. CASE Models!Enter("extract") /\ bootstrapped' = TRUE /\ UNCHANGED <<hindered, faults>>
    BY <1>2, <2>2 DEF Models!Start
  <2>3. CASE Models!Enter("extract") /\ bootstrapped' = TRUE /\ hindered' = TRUE /\ Models!Fault
    BY <1>2, <2>3 DEF Models!Start
  <2> QED BY <1>2, <2>1, <2>2, <2>3 DEF Models!Start
<1>3. CASE Models!Extract
  BY <1>3 DEF Models!Extract, Models!Extracted
<1>4. CASE Models!Train
  BY <1>4 DEF Models!Train, Models!Trainable
<1>5. CASE Models!BootstrapFails
  BY <1>5 DEF Models!BootstrapFails
<1>6. CASE Models!Evaluate
  BY <1>6 DEF Models!Evaluate, Models!Accept, Models!Reject
<1>7. CASE Models!EndEvaluation
  BY <1>7 DEF Models!EndEvaluation
<1>8. CASE Models!Load
  BY <1>8 DEF Models!Load, Models!AfterLoad
<1>9. CASE Models!LoadFails
  BY <1>9 DEF Models!LoadFails
<1>10. CASE Models!EndLoading
  BY <1>10 DEF Models!EndLoading
<1>11. CASE Models!Shutdown \/ Models!Crash \/ Models!Recreate
  BY <1>11 DEF Models!Shutdown, Models!Crash, Models!Exit, Models!Recreate
<1> QED
  BY <1>1, <1>2, <1>3, <1>4, <1>5, <1>6, <1>7, <1>8, <1>9, <1>10, <1>11
  DEF Models!Next, Models!Process

(* A start of the model server that nothing hinders serves every horizon   *)
(* after a bootstrap, and the promoted ones when it finds the first model. *)
THEOREM StartsServe == Spec => []CleanStartServes
<1>1. Init => StartInv
  BY DEF Init, Models!Init, StartInv
<1>2. Models!TypeOK /\ StartInv /\ [Next]_vars => StartInv'
  <2> SUFFICES ASSUME Models!TypeOK, StartInv, [Next]_vars PROVE StartInv'
    OBVIOUS
  <2>1. CASE Serves
    BY <2>1, ServesKeepsStart DEF Serves
  <2>2. CASE UNCHANGED modelsOnly
    BY <2>2 DEF modelsOnly, StartInv, Models!Models
  <2> QED BY <2>1, <2>2 DEF Next, Serves, vars
<1>3. StartInv => CleanStartServes
  <2> SUFFICES ASSUME StartInv, server = "serving", ~hindered
               PROVE  Models!Served = IF bootstrapped THEN 1..Horizons ELSE Models!Whole(promoted)
    BY DEF CleanStartServes, Models!CleanStartServes
  <2>1. Models!Served = Models!Whole(promoted)
    BY DEF StartInv, Models!Served
  <2>2. CASE bootstrapped
    <3>1. promoted = 1..(2 * Horizons)
      BY <2>2 DEF StartInv, Models!Models
    <3>2. \A h \in 1..Horizons : {2 * h - 1, 2 * h} \subseteq 1..(2 * Horizons)
      BY ForecastingAssumption DEF Models!ServingAssumption
    <3> QED BY <2>1, <2>2, <3>1, <3>2 DEF Models!Whole
  <2> QED BY <2>1, <2>2
<1>4. TypeOK => Models!TypeOK
  BY DEF TypeOK
<1> QED BY <1>1, <1>2, <1>3, <1>4, TypeCorrect, PTL DEF Spec

-------------------------------------------------------------------------------
(* The inductive invariant of the answers.  A request that has a key can   *)
(* mean the hour it names, its handler predicts for what it means, and     *)
(* what it is about to store is complete and logged.  An answer in the     *)
(* cache was computed for its key by a request that is done, and so was    *)
(* each answer that was given.  As long as Redis has lost nothing, whoever *)
(* is done has its key in the cache.                                       *)
Finished(c) ==
  /\ Meant(c, target[c])
  /\ forecasts[c] = 1..Horizons /\ verdict[c] # None
  /\ Predictions!Pair(c) \subseteq log

Computed(c, k) == pc[c] = "done" /\ asked[c] = k /\ Finished(c)

RequestInv(r) ==
  /\ pc[r] \notin {"new", "failed"} =>
       /\ asked[r] \in Predictions!Keys
       /\ DateOf[r] = None => asked[r][2] <= clock
  /\ pc[r] \in {"gold", "silver", "infer"} => Meant(r, target[r])
  /\ pc[r] = "store" => Finished(r)
  /\ answer[r] # None => pc[r] = "done" /\ Computed(answer[r], asked[r])

CacheIsComputed ==
  \A k \in Predictions!Keys : cache[k] # None => Computed(cache[k], k)

DoneAreCached ==
  ~lossy => \A r \in Requests : pc[r] = "done" => cache[asked[r]] # None

AnswerInv ==
  /\ \A r \in Requests : RequestInv(r)
  /\ CacheIsComputed
  /\ DoneAreCached

(* What a step does to a request: it leaves the request alone, makes it    *)
(* fail, takes its handler from one call to the next, or is one of the     *)
(* steps that ask, look up, begin, log or store.                           *)
Rests(r) ==
  /\ pc'[r] = pc[r] /\ asked'[r] = asked[r] /\ target'[r] = target[r]
  /\ forecasts'[r] = forecasts[r] /\ verdict'[r] = verdict[r] /\ answer'[r] = answer[r]

Drops(r) ==
  /\ pc[r] # "done" /\ pc'[r] = "failed" /\ answer'[r] = answer[r]

Works(r) ==
  /\ pc[r] \in {"gold", "silver", "infer"} /\ pc'[r] \in {"silver", "infer"}
  /\ asked'[r] = asked[r] /\ target'[r] = target[r] /\ answer'[r] = answer[r]

Steps(r) ==
  \/ Predictions!Ask(r)
  \/ Predictions!LookUp(r)
  \/ Predictions!LookUpFails(r)
  \/ Predictions!Begin(r)
  \/ Predictions!Insert(r)
  \/ Predictions!Store(r)
  \/ Predictions!StoreFails(r)

(* The log only grows and the clock does not go back.                      *)
Onward == log \subseteq log' /\ clock \in Nat /\ clock' \in Nat /\ clock <= clock'

LEMMA StepsOfRequests ==
  ASSUME Predictions!TypeOK, Predictions!Next
  PROVE  /\ Onward
         /\ \/ \E q \in Requests : Steps(q) /\ \A r \in Requests \ {q} : Rests(r)
            \/ /\ UNCHANGED <<cache, lossy>>
               /\ \A r \in Requests : Rests(r) \/ Drops(r) \/ Works(r)
            \/ \E k \in Predictions!Keys : Predictions!Expire(k)
<1> USE DEF Predictions!TypeOK, Predictions!worldVars, Predictions!questionVars,
            Predictions!requestVars, Predictions!logVars, Predictions!Goto, Predictions!Proceed,
            Predictions!Answer, Predictions!Fail, Predictions!Forget, Predictions!Active,
            Rests, Drops, Works
<1> DEFINE Quiet == /\ UNCHANGED <<cache, lossy>>
                    /\ \A r \in Requests : Rests(r) \/ Drops(r) \/ Works(r)
           Alone(q) == \A r \in Requests \ {q} : Rests(r)
<1>1. Onward
  <2>1. clock \in Nat /\ clock' \in Nat /\ clock <= clock'
    <3>1. clock' = clock \/ clock' = clock + 1
      BY DEF Predictions!Next, Predictions!World, Predictions!Arrive, Predictions!Handle,
             Predictions!Job, Predictions!VectorChanges, Predictions!BarArrives,
             Predictions!Tick, Predictions!Expire, Predictions!GatewayStart,
             Predictions!GatewayCrash, Predictions!Ask, Predictions!AskUncached,
             Predictions!LookUp, Predictions!LookUpFails, Predictions!Begin,
             Predictions!ReadGold, Predictions!ReadSilver, Predictions!Forecast,
             Predictions!Reason, Predictions!CallFails, Predictions!Breaks,
             Predictions!Insert, Predictions!InsertFails, Predictions!Store,
             Predictions!StoreFails, Predictions!JobHandle
    <3>2. clock \in Nat
      BY ForecastingAssumption DEF Predictions!Hours, Predictions!LogAssumption
    <3> QED BY <3>1, <3>2
  <2>2. log \subseteq log'
    BY DEF Predictions!Next, Predictions!World, Predictions!Arrive, Predictions!Handle,
           Predictions!Job, Predictions!VectorChanges, Predictions!BarArrives,
           Predictions!Tick, Predictions!Expire, Predictions!GatewayStart,
           Predictions!GatewayCrash, Predictions!Ask, Predictions!AskUncached,
           Predictions!LookUp, Predictions!LookUpFails, Predictions!Begin,
           Predictions!ReadGold, Predictions!ReadSilver, Predictions!Forecast,
           Predictions!Reason, Predictions!CallFails, Predictions!Breaks,
           Predictions!Insert, Predictions!InsertFails, Predictions!Store,
           Predictions!StoreFails, Predictions!JobHandle
  <2> QED BY <2>1, <2>2 DEF Onward
<1>2. ASSUME NEW s \in Symbols, NEW kinds \in SUBSET {"priced", "unpriced"},
             Predictions!VectorChanges(s, kinds)
      PROVE  Quiet
  BY <1>2 DEF Predictions!VectorChanges
<1>3. ASSUME NEW s \in Symbols, Predictions!BarArrives(s) PROVE Quiet
  BY <1>3 DEF Predictions!BarArrives
<1>4. ASSUME \/ Predictions!Tick
             \/ Predictions!GatewayStart
             \/ Predictions!GatewayCrash
      PROVE  Quiet
  BY <1>4 DEF Predictions!Tick, Predictions!GatewayStart, Predictions!GatewayCrash
<1>5. ASSUME NEW q \in Requests,
             \/ Predictions!AskUncached(q)
             \/ Predictions!CallFails(q)
             \/ Predictions!Breaks(q)
             \/ Predictions!InsertFails(q)
      PROVE  Quiet
  BY <1>5 DEF Predictions!AskUncached, Predictions!CallFails, Predictions!Breaks,
              Predictions!InsertFails
<1>6. ASSUME NEW q \in Requests, Predictions!ReadGold(q) PROVE Quiet
  BY <1>6 DEF Predictions!ReadGold
<1>7. ASSUME NEW q \in Requests, Predictions!ReadSilver(q) PROVE Quiet
  BY <1>7 DEF Predictions!ReadSilver
<1>8. ASSUME NEW q \in Requests, NEW h \in 1..Horizons, Predictions!Forecast(q, h) PROVE Quiet
  BY <1>8 DEF Predictions!Forecast
<1>9. ASSUME NEW q \in Requests, Predictions!Reason(q) PROVE Quiet
  BY <1>9 DEF Predictions!Reason
<1>10. ASSUME NEW e \in log, Predictions!JobHandle(e) PROVE Quiet
  BY <1>10 DEF Predictions!JobHandle
<1>11. ASSUME NEW q \in Requests, Steps(q) PROVE Alone(q)
  BY <1>11 DEF Steps, Predictions!Ask, Predictions!LookUp, Predictions!LookUpFails,
               Predictions!Begin, Predictions!Insert, Predictions!Store, Predictions!StoreFails
<1> HIDE DEF Quiet, Alone
<1> DEFINE Goal == \/ Quiet
                   \/ \E q \in Requests : Steps(q)
                   \/ \E k \in Predictions!Keys : Predictions!Expire(k)
<1>12. ASSUME NEW q \in Requests, Predictions!Arrive(q) \/ Predictions!Handle(q) PROVE Goal
  BY <1>12, <1>5, <1>6, <1>7, <1>8, <1>9
  DEF Predictions!Arrive, Predictions!Handle, Steps
<1>13. ASSUME Predictions!World PROVE Goal
  BY <1>13, <1>2, <1>3, <1>4 DEF Predictions!World
<1>14. Goal
  BY <1>12, <1>13, <1>4, <1>10 DEF Predictions!Next, Predictions!Job
<1> QED BY <1>1, <1>11, <1>14 DEF Quiet, Alone

(* Whoever is done is left alone, so what was computed stays computed.     *)
LEMMA DoneRest ==
  ASSUME Predictions!TypeOK, Predictions!Next, NEW c \in Requests, pc[c] = "done"
  PROVE  Rests(c)
<1>1. ASSUME Steps(c) PROVE FALSE
  BY <1>1 DEF Steps, Predictions!Ask, Predictions!LookUp, Predictions!LookUpFails,
              Predictions!Begin, Predictions!Insert, Predictions!Store, Predictions!StoreFails
<1>2. ASSUME NEW k \in Predictions!Keys, Predictions!Expire(k) PROVE Rests(c)
  BY <1>2 DEF Predictions!Expire, Predictions!requestVars, Predictions!questionVars, Rests
<1> QED BY <1>1, <1>2, StepsOfRequests DEF Drops, Works

LEMMA FinishedStays ==
  ASSUME NEW c \in Requests, Onward, Rests(c), asked[c] \in Predictions!Keys, Finished(c)
  PROVE  Finished(c)'
<1>1. asked[c][2] \in Nat
  BY DEF Predictions!Keys, Predictions!Hours
<1>2. Meant(c, target[c])'
  BY <1>1 DEF Onward, Rests, Finished, Meant
<1>3. (Predictions!Pair(c) \subseteq log)'
  BY DEF Onward, Finished, Predictions!Pair
<1> QED BY <1>2, <1>3 DEF Rests, Finished

LEMMA ComputedStays ==
  ASSUME Predictions!TypeOK, Predictions!Next,
         NEW c \in Requests, NEW k \in Predictions!Keys, Computed(c, k)
  PROVE  Computed(c, k)'
<1>1. Rests(c) /\ Onward
  BY DoneRest, StepsOfRequests DEF Computed
<1>2. Finished(c)'
  BY <1>1, FinishedStays DEF Computed
<1> QED BY <1>1, <1>2 DEF Computed, Rests

(* An answer once given stays computed, and what a request means is not    *)
(* undone by time.                                                         *)
LEMMA GivenStays ==
  ASSUME Predictions!TypeOK, Predictions!Next, AnswerInv,
         NEW r \in Requests, answer[r] # None
  PROVE  /\ pc'[r] = "done" /\ answer'[r] = answer[r] /\ asked'[r] = asked[r]
         /\ Computed(answer[r], asked[r])'
<1>1. /\ pc[r] = "done" /\ Computed(answer[r], asked[r]) /\ asked[r] \in Predictions!Keys
      /\ answer[r] \in Requests
  BY DEF AnswerInv, RequestInv, Predictions!TypeOK
<1>2. Rests(r)
  BY <1>1, DoneRest
<1>3. PICK c \in Requests : c = answer[r]
  BY <1>1
<1>4. PICK k \in Predictions!Keys : k = asked[r]
  BY <1>1
<1>5. Computed(c, k)'
  BY <1>1, <1>3, <1>4, ComputedStays
<1> QED BY <1>1, <1>2, <1>3, <1>4, <1>5 DEF Rests, Computed, Finished

LEMMA MeantStays ==
  ASSUME Onward, NEW r \in Requests, asked[r] \in Predictions!Keys, NEW h, Meant(r, h),
         asked'[r] = asked[r]
  PROVE  Meant(r, h)'
<1>1. asked[r][2] \in Nat
  BY DEF Predictions!Keys, Predictions!Hours
<1> QED BY <1>1 DEF Onward, Meant

LEMMA RequestsKeepInv ==
  ASSUME Predictions!TypeOK, Predictions!Next, AnswerInv, NEW r \in Requests
  PROVE  RequestInv(r)'
<1>1. Onward
  BY StepsOfRequests
<1>2. RequestInv(r)
  BY DEF AnswerInv
<1>3. asked[r] \in Predictions!Keys => asked[r][2] \in Nat
  BY DEF Predictions!Keys, Predictions!Hours
<1> DEFINE Ready ==
      pc[r] \notin {"new", "failed"} =>
        /\ asked[r] \in Predictions!Keys
        /\ DateOf[r] = None => asked[r][2] <= clock
    Working == pc[r] \in {"gold", "silver", "infer"} => Meant(r, target[r])
    Storing == pc[r] = "store" => Finished(r)
    Given == answer[r] # None => pc[r] = "done" /\ Computed(answer[r], asked[r])
<1>4. ASSUME answer'[r] = answer[r] PROVE Given'
  BY <1>4, GivenStays
<1>5. ASSUME pc[r] \notin {"new", "failed"}, asked'[r] = asked[r] PROVE Ready'
  BY <1>1, <1>2, <1>3, <1>5 DEF Onward, RequestInv
<1>6. CASE Rests(r)
  <2>1. Given'
    BY <1>4, <1>6 DEF Rests
  <2>2. Ready'
    BY <1>1, <1>2, <1>3, <1>6 DEF Onward, RequestInv, Rests
  <2>3. Working'
    BY <1>1, <1>2, <1>6, MeantStays DEF RequestInv, Rests
  <2>4. Storing'
    BY <1>1, <1>2, <1>6, FinishedStays DEF RequestInv, Rests
  <2> QED BY <2>1, <2>2, <2>3, <2>4 DEF RequestInv
<1>7. CASE Drops(r)
  <2>1. Given'
    BY <1>4, <1>7 DEF Drops
  <2> QED BY <2>1, <1>7 DEF RequestInv, Drops
<1>8. CASE Works(r)
  <2>1. Given'
    BY <1>4, <1>8 DEF Works
  <2>2. Ready'
    BY <1>5, <1>8 DEF Works
  <2>3. Working'
    BY <1>1, <1>2, <1>8, MeantStays DEF RequestInv, Works
  <2> QED BY <2>1, <2>2, <2>3, <1>8 DEF RequestInv, Works
<1>9. CASE Steps(r)
  <2> USE DEF Predictions!TypeOK, Predictions!questionVars, Predictions!requestVars,
              Predictions!Goto, Predictions!Proceed, Predictions!Answer
  <2>1. CASE Predictions!Ask(r)
    <3>1. pc'[r] = "cache" /\ asked'[r] = <<SymbolOf[r], Predictions!HourNamed(r)>>
          /\ answer'[r] = answer[r] /\ clock' = clock
      BY <2>1 DEF Predictions!Ask, Predictions!worldVars
    <3>2. Ready'
      <4>1. asked'[r] \in Predictions!Keys
        BY <3>1, KeysAreKeys
      <4>2. DateOf[r] = None => asked'[r][2] = clock
        BY <3>1 DEF Predictions!HourNamed
      <4> QED BY <1>1, <3>1, <4>1, <4>2 DEF Onward
    <3> QED BY <1>4, <3>1, <3>2 DEF RequestInv
  <2>2. CASE Predictions!LookUp(r)
    <3> DEFINE k == asked[r]
    <3>1. k \in Predictions!Keys /\ Predictions!KeyOf(k[1], k[2]) = k
      BY <1>2, <2>2, HoursAsked DEF Predictions!LookUp, RequestInv
    <3>2. Ready'
      BY <1>5, <2>2 DEF Predictions!LookUp
    <3>3. CASE cache[k] # None
      <4>1. pc'[r] = "done" /\ answer'[r] = cache[k] /\ asked'[r] = asked[r]
        BY <2>2, <3>1, <3>3 DEF Predictions!LookUp
      <4>2. PICK c \in Requests : c = cache[k]
        BY <3>1, <3>3
      <4>3. Computed(c, k)
        BY <3>1, <3>3, <4>2 DEF AnswerInv, CacheIsComputed
      <4>4. PICK kk \in Predictions!Keys : kk = k
        BY <3>1
      <4>5. Computed(c, kk)'
        BY <4>3, <4>4, ComputedStays
      <4>6. Given'
        BY <4>1, <4>2, <4>4, <4>5 DEF Computed, Finished
      <4> QED BY <3>2, <4>1, <4>6 DEF RequestInv
    <3>4. CASE cache[k] = None
      <4>1. pc'[r] = "miss" /\ answer'[r] = answer[r]
        BY <2>2, <3>1, <3>4 DEF Predictions!LookUp
      <4> QED BY <1>4, <3>2, <4>1 DEF RequestInv
    <3> QED BY <3>3, <3>4
  <2>3. CASE Predictions!LookUpFails(r)
    <3>1. pc[r] = "cache" /\ pc'[r] = "miss" /\ answer'[r] = answer[r] /\ asked'[r] = asked[r]
      BY <2>3 DEF Predictions!LookUpFails
    <3> QED BY <1>4, <1>5, <3>1 DEF RequestInv
  <2>4. CASE Predictions!Begin(r)
    <3>1. /\ pc[r] = "miss" /\ pc'[r] = "gold"
          /\ answer'[r] = answer[r] /\ asked'[r] = asked[r] /\ clock' = clock
          /\ target'[r] = IF DateOf[r] = None THEN clock ELSE DateOf[r].meant
      BY <2>4 DEF Predictions!Begin, Predictions!worldVars
    <3>2. Working'
      BY <1>1, <1>2, <1>3, <3>1 DEF RequestInv, Meant, Onward
    <3> QED BY <1>4, <1>5, <3>1, <3>2 DEF RequestInv
  <2>5. CASE Predictions!Insert(r)
    <3>1. /\ pc[r] = "infer" /\ pc'[r] = "store" /\ Predictions!Pair(r) \subseteq log'
          /\ answer'[r] = answer[r] /\ asked'[r] = asked[r] /\ target'[r] = target[r]
          /\ forecasts'[r] = 1..Horizons /\ verdict'[r] # None
      BY <2>5 DEF Predictions!Insert, Predictions!Complete
    <3>2. Meant(r, target[r])'
      BY <1>1, <1>2, <3>1, MeantStays DEF RequestInv
    <3>3. Finished(r)'
      BY <3>1, <3>2 DEF Finished, Predictions!Pair
    <3> QED BY <1>4, <1>5, <3>1, <3>3 DEF RequestInv
  <2>6. CASE Predictions!Store(r) \/ Predictions!StoreFails(r)
    <3>1. /\ pc[r] = "store" /\ pc'[r] = "done" /\ answer'[r] = r
          /\ asked'[r] = asked[r] /\ target'[r] = target[r]
          /\ forecasts'[r] = forecasts[r] /\ verdict'[r] = verdict[r]
      BY <2>6 DEF Predictions!Store, Predictions!StoreFails
    <3>2. Meant(r, target[r])'
      BY <1>1, <1>2, <3>1, MeantStays DEF RequestInv, Finished
    <3>3. Finished(r)'
      BY <1>1, <1>2, <3>1, <3>2 DEF RequestInv, Finished, Onward, Predictions!Pair
    <3>4. Given'
      BY <3>1, <3>3 DEF Computed, Finished
    <3> QED BY <1>5, <3>1, <3>4 DEF RequestInv
  <2> QED BY <1>9, <2>1, <2>2, <2>3, <2>4, <2>5, <2>6 DEF Steps
<1>10. ASSUME NEW k \in Predictions!Keys, Predictions!Expire(k) PROVE Rests(r)
  BY <1>10 DEF Predictions!Expire, Predictions!requestVars, Predictions!questionVars, Rests
<1> QED BY <1>6, <1>7, <1>8, <1>9, <1>10, StepsOfRequests

LEMMA NextKeepsAnswers ==
  ASSUME Predictions!TypeOK, Predictions!Next, AnswerInv
  PROVE  AnswerInv'
<1>1. \A r \in Requests : RequestInv(r)'
  BY RequestsKeepInv
<1>2. ASSUME NEW r \in Requests, pc[r] = "store"
      PROVE  asked[r] \in Predictions!Keys /\ Predictions!KeyOf(asked[r][1], asked[r][2]) = asked[r]
  BY <1>2, HoursAsked DEF AnswerInv, RequestInv
<1>3. ASSUME NEW k \in Predictions!Keys, cache'[k] # None
      PROVE  Computed(cache[k], k)'
  <2>1. CASE cache'[k] = cache[k]
    <3>1. PICK c \in Requests : c = cache[k]
      BY <1>3, <2>1 DEF Predictions!TypeOK
    <3>2. Computed(c, k)'
      BY <1>3, <2>1, <3>1, ComputedStays DEF AnswerInv, CacheIsComputed
    <3> QED BY <2>1, <3>1, <3>2 DEF Computed, Finished
  <2>2. ASSUME NEW r \in Requests, Predictions!Store(r), cache'[k] # cache[k]
        PROVE  Computed(cache[k], k)'
    <3>1. pc[r] = "store" /\ cache' = [cache EXCEPT ![asked[r]] = r] /\ pc'[r] = "done"
          /\ answer'[r] = r /\ asked'[r] = asked[r]
      BY <1>2, <2>2
      DEF Predictions!Store, Predictions!AfterStore, Predictions!Answer, Predictions!Goto,
          Predictions!questionVars, Predictions!TypeOK
    <3>2. cache'[k] = r /\ k = asked[r]
      BY <1>2, <2>2, <3>1 DEF Predictions!TypeOK
    <3>3. r # None
      BY ForecastingAssumption DEF Predictions!LogAssumption
    <3>4. RequestInv(r)'
      BY <1>1
    <3> QED BY <3>1, <3>2, <3>3, <3>4 DEF RequestInv, Computed, Finished
  <2>3. ASSUME NEW r \in Requests, Steps(r), ~Predictions!Store(r) PROVE cache' = cache
    BY <2>3 DEF Steps, Predictions!Ask, Predictions!LookUp, Predictions!LookUpFails,
                Predictions!Begin, Predictions!Insert, Predictions!StoreFails
  <2>4. ASSUME NEW j \in Predictions!Keys, Predictions!Expire(j) PROVE cache'[k] = cache[k]
    BY <1>3, <2>4 DEF Predictions!Expire, Predictions!TypeOK
  <2> QED BY <2>1, <2>2, <2>3, <2>4, StepsOfRequests
<1>4. DoneAreCached'
  <2> SUFFICES ASSUME ~lossy', NEW r \in Requests, pc'[r] = "done"
               PROVE  cache'[asked'[r]] # None
    BY DEF DoneAreCached
  <2>1. ASSUME NEW k \in Predictions!Keys, Predictions!Expire(k) PROVE FALSE
    BY <2>1 DEF Predictions!Expire
  <2>2. ASSUME NEW q \in Requests, Predictions!LookUpFails(q) \/ Predictions!StoreFails(q)
        PROVE  FALSE
    BY <2>2 DEF Predictions!LookUpFails, Predictions!StoreFails
  <2>3. ~lossy
    <3>1. ASSUME NEW q \in Requests, Steps(q) PROVE lossy' = lossy
      BY <2>2, <3>1 DEF Steps, Predictions!Ask, Predictions!LookUp, Predictions!Begin,
                        Predictions!Insert, Predictions!Store
    <3> QED BY <2>1, <3>1, StepsOfRequests
  <2>4. ASSUME NEW k \in Predictions!Keys, cache[k] # None PROVE cache'[k] # None
    <3>1. ASSUME NEW q \in Requests, Predictions!Store(q) PROVE cache'[k] # None
      <4>1. cache' = [cache EXCEPT ![asked[q]] = q]
        BY <1>2, <3>1 DEF Predictions!Store, Predictions!AfterStore
      <4>2. q # None
        BY ForecastingAssumption DEF Predictions!LogAssumption
      <4> QED BY <2>4, <4>1, <4>2 DEF Predictions!TypeOK
    <3>2. ASSUME NEW q \in Requests, Steps(q), ~Predictions!Store(q) PROVE cache' = cache
      BY <3>2 DEF Steps, Predictions!Ask, Predictions!LookUp, Predictions!LookUpFails,
                  Predictions!Begin, Predictions!Insert, Predictions!StoreFails
    <3> QED BY <2>1, <2>4, <3>1, <3>2, StepsOfRequests
  <2>5. CASE pc[r] = "done"
    <3>1. Rests(r) /\ cache[asked[r]] # None /\ asked[r] \in Predictions!Keys
      BY <2>3, <2>5, DoneRest DEF AnswerInv, DoneAreCached, RequestInv
    <3> QED BY <2>4, <3>1 DEF Rests
  <2>6. CASE pc[r] # "done"
    <3>1. Steps(r)
      BY <2>1, <2>6, StepsOfRequests DEF Rests, Drops, Works
    <3>2. Predictions!LookUp(r) \/ Predictions!Store(r)
      BY <2>2, <3>1 DEF Steps, Predictions!Ask, Predictions!Begin, Predictions!Insert,
                        Predictions!Goto, Predictions!Proceed, Predictions!TypeOK
    <3>3. CASE Predictions!Store(r)
      <4>1. cache' = [cache EXCEPT ![asked[r]] = r] /\ asked'[r] = asked[r]
        BY <1>2, <3>3 DEF Predictions!Store, Predictions!AfterStore, Predictions!questionVars
      <4>2. r # None /\ asked[r] \in Predictions!Keys
        BY <1>2, <3>3, ForecastingAssumption DEF Predictions!LogAssumption, Predictions!Store
      <4> QED BY <4>1, <4>2 DEF Predictions!TypeOK
    <3>4. CASE Predictions!LookUp(r)
      <4>1. pc[r] = "cache" /\ asked'[r] = asked[r] /\ cache' = cache
        BY <3>4 DEF Predictions!LookUp, Predictions!questionVars
      <4>2. Predictions!KeyOf(asked[r][1], asked[r][2]) = asked[r]
        BY <4>1, HoursAsked DEF AnswerInv, RequestInv
      <4>3. cache[asked[r]] # None
        <5> SUFFICES ASSUME cache[asked[r]] = None PROVE FALSE
          OBVIOUS
        <5>1. pc'[r] = "miss"
          BY <3>4, <4>2 DEF Predictions!LookUp, Predictions!Goto, Predictions!TypeOK
        <5> QED BY <5>1
      <4> QED BY <4>1, <4>3
    <3> QED BY <3>2, <3>3, <3>4
  <2> QED BY <2>5, <2>6
<1> QED BY <1>1, <1>3, <1>4 DEF AnswerInv, CacheIsComputed

(* The model server leaves every request, and what is logged, as it is.    *)
LEMMA ServesKeepsAnswers ==
  ASSUME AnswerInv, UNCHANGED predictionsOnly
  PROVE  AnswerInv'
BY DEF predictionsOnly, AnswerInv, RequestInv, CacheIsComputed, DoneAreCached, Computed, Finished,
       Meant, Predictions!Pair

LEMMA AnswersInvariant == Spec => []AnswerInv
<1>1. Init => AnswerInv
  BY DEF Init, Predictions!Init, AnswerInv, RequestInv, CacheIsComputed, DoneAreCached
<1>2. TypeOK /\ AnswerInv /\ [Next]_vars => AnswerInv'
  <2> SUFFICES ASSUME TypeOK, AnswerInv, [Next]_vars PROVE AnswerInv'
    OBVIOUS
  <2>1. CASE Predicts
    BY <2>1, NextKeepsAnswers DEF Predicts, TypeOK
  <2>2. CASE UNCHANGED predictionsOnly
    BY <2>2, ServesKeepsAnswers
  <2> QED BY <2>1, <2>2 DEF Next, Predicts, vars
<1> QED BY <1>1, <1>2, TypeCorrect, PTL DEF Spec

(* Every answer was computed for a request whose key names the same symbol *)
(* and hour, for what that request meant, with every horizon and a verdict,*)
(* and its pair of predictions is in the log.                              *)
THEOREM AnswersAreLogged == Spec => []AnsweredFromLog
<1>1. AnswerInv => AnsweredFromLog
  BY DEF AnswerInv, RequestInv, AnsweredFromLog, Computed, Finished
<1> QED BY <1>1, AnswersInvariant, PTL

(* A prediction is computed again for one symbol and hour only by requests *)
(* that overlap, or when Redis has failed or dropped an answer.            *)
THEOREM ComputedOnlyOnce == Spec => ComputedOnce
<1>1. TypeOK /\ AnswerInv /\ [Next]_vars
        => [\A r, c \in Requests :
              pc[r] = "cache" /\ pc'[r] = "miss" /\ pc[c] = "done" /\ ~lossy'
                => asked[c] # asked[r]]_vars
  <2> SUFFICES ASSUME TypeOK, AnswerInv, Next, NEW r \in Requests, NEW c \in Requests,
                      pc[r] = "cache", pc'[r] = "miss", pc[c] = "done", ~lossy',
                      asked[c] = asked[r]
               PROVE  FALSE
    OBVIOUS
  <2>1. Predictions!Next /\ Predictions!TypeOK
    BY DEF Next, TypeOK, predictionsOnly
  <2>2. ASSUME NEW k \in Predictions!Keys, Predictions!Expire(k) PROVE FALSE
    BY <2>2 DEF Predictions!Expire
  <2>3. Steps(r)
    BY <2>1, <2>2, StepsOfRequests DEF Rests, Drops, Works
  <2>4. Predictions!LookUp(r)
    BY <2>3 DEF Steps, Predictions!Ask, Predictions!LookUpFails, Predictions!Begin,
                Predictions!Insert, Predictions!Store, Predictions!StoreFails
  <2>5. Predictions!KeyOf(asked[r][1], asked[r][2]) = asked[r]
    BY HoursAsked DEF AnswerInv, RequestInv
  <2>6. cache[asked[r]] = None /\ lossy' = lossy
    BY <2>1, <2>4, <2>5
    DEF Predictions!LookUp, Predictions!Answer, Predictions!Goto, Predictions!TypeOK
  <2> QED BY <2>6 DEF AnswerInv, DoneAreCached
<1> QED BY <1>1, TypeCorrect, AnswersInvariant, PTL DEF Spec, ComputedOnce

================================================================================
