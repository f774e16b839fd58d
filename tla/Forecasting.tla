------------------------------ MODULE Forecasting ------------------------------
(***************************************************************************)
(* A prediction end to end: the requests of PredictionLog are answered by  *)
(* the model server of ModelServing, which is stopped, killed, created     *)
(* anew and started again while they run and which learns from the feature *)
(* vectors that the requests also read.                                    *)
(***************************************************************************)
EXTENDS Naturals

CONSTANTS Requests, Symbols, SymbolOf, DateOf, Horizons, LastHour, MaxFaults, None

VARIABLES
  gold, dataset, promoted, loaded, server, at, bootstrapped, hindered,
  features, quotes, gateway, clock, cache, pc, asked, target, forecasts, verdict,
  answer, log, due, filled, lossy, faults

Models == INSTANCE ModelServing WITH pc <- server

Predictions == INSTANCE PredictionLog WITH served <- Models!Served

ASSUME ForecastingAssumption ==
  Models!ServingAssumption /\ Predictions!LogAssumption

modelsOnly == <<gold, dataset, promoted, loaded, server, at, bootstrapped, hindered>>
predictionsOnly ==
  <<features, quotes, gateway, clock, cache, pc, asked, target, forecasts, verdict,
    answer, log, due, filled, lossy>>
vars == <<modelsOnly, predictionsOnly, faults>>

Init == Models!Init /\ Predictions!Init

(* A symbol has no vector while the collection is empty.                   *)
VectorsComeFromGold == gold = "empty" => features' = features

Next ==
  \/ Models!Next /\ UNCHANGED predictionsOnly
  \/ Predictions!Next /\ VectorsComeFromGold /\ UNCHANGED modelsOnly

Spec == Init /\ [][Next]_vars

(* The event loop goes on while the gateway lives: each call of a handler  *)
(* returns or fails in the end.                                            *)
Fairness == WF_vars((\E r \in Requests : Predictions!Handle(r)) /\ UNCHANGED modelsOnly)

FairSpec == Spec /\ Fairness

(* The scheduler runs the job every day, and a run handles every entry     *)
(* without an outcome.                                                     *)
JobFairness ==
  \A e \in Predictions!Entries :
    WF_vars(Predictions!JobHandle(e) /\ UNCHANGED modelsOnly)

DailySpec == FairSpec /\ JobFairness

-------------------------------------------------------------------------------
TypeOK == Models!TypeOK /\ Predictions!TypeOK

(* What a start of the model server that meets no failure serves: every    *)
(* horizon after a bootstrap over enough features without a rejection,     *)
(* whatever earlier starts left behind; and after finding the first model  *)
(* promoted (ensure_models_trained) the promoted horizons, all or not.     *)
CleanStartServes == Models!CleanStartServes

(* Every answer, from the cache or not, was computed for a request whose   *)
(* key names the same symbol and hour, has every horizon and a verdict,    *)
(* and has its pair of predictions in the log, so what a client saw is     *)
(* what the backtest will judge.  It predicts for what that request meant: *)
(* the moment its date denotes, whose hour another client may have written *)
(* with another offset, or, without a date, the hour its key names or one  *)
(* that the clock had reached before its handler started.                  *)
Meant(c, h) ==
  IF DateOf[c] = None THEN h \in asked[c][2]..clock ELSE h = DateOf[c].meant

AnsweredFromLog ==
  \A r \in Requests : answer[r] # None =>
    LET c == answer[r] IN
      /\ asked[c] = asked[r]
      /\ Meant(c, target[c])
      /\ forecasts[c] = 1..Horizons /\ verdict[c] # None
      /\ Predictions!Pair(c) \subseteq log

(* A prediction is computed again for one symbol and hour only by requests *)
(* that overlap, or when Redis has failed or dropped an answer.            *)
ComputedOnce ==
  [][\A r, c \in Requests :
       pc[r] = "cache" /\ pc'[r] = "miss" /\ pc[c] = "done" /\ ~lossy'
         => asked[c] # asked[r]]_vars

(* No request is under way for ever, while the model server comes and      *)
(* goes: it ends in an answer or an error.                                 *)
RequestsEnd == \A r \in Requests : []<>(pc[r] \in {"new", "done", "failed"})

(* populate_actuals: "Finds unfulfilled prediction logs and fills in       *)
(* actual market prices/trends", which come as bars after the prediction.  *)
ActualsAreFilled ==
  \A e \in Predictions!Entries : e \in due ~> e \in filled

================================================================================
