------------------------------ MODULE ModelServing ------------------------------
(***************************************************************************)
(* The model serving API, modules/mlops: one process that on every start   *)
(* looks for a promoted model, bootstraps the registry when it finds none  *)
(* (extract the features, train, evaluate and promote), loads what is      *)
(* promoted and then answers for each horizon it has both models of.       *)
(*                                                                         *)
(* The registry and the extracted dataset outlive a process, the loaded    *)
(* models do not.  A model is its place in the order of promotion: the     *)
(* classifier and the regressor of horizon 1, those of horizon 2, ...      *)
(* What a model learns is left out; the features are as many as training   *)
(* needs ("full": rows in all of the three periods the splits cut the      *)
(* dataset into) or they are not.                                          *)
(***************************************************************************)
EXTENDS Naturals

CONSTANTS
  Horizons,   \* target_horizons are 1..Horizons
  MaxFaults   \* bound: kills and failures of a call, here and in PredictionLog

Models == 1..(2 * Horizons)
FirstModel == 1

ServingAssumption == Horizons \in Nat \ {0} /\ MaxFaults \in Nat

VARIABLES
  gold,         \* what gold_market_features holds
  dataset,      \* what the parquet file holds
  promoted,     \* models with the alias @production in the registry
  loaded,       \* production_cls_models and production_reg_models
  pc,           \* where the process is
  at,           \* the model that is evaluated or loaded next
  bootstrapped, \* history: this start went through the bootstrap
  hindered,     \* history: it met a failure, a rejection or too few features
  faults        \* kills and failed calls so far

registryVars == <<dataset, promoted>>
processVars == <<loaded, pc, at>>
historyVars == <<bootstrapped, hindered>>
vars == <<gold, registryVars, processVars, historyVars, faults>>

TypeOK ==
  /\ gold \in {"empty", "short", "full"}
  /\ dataset \in {"absent", "short", "full"}
  /\ promoted \subseteq Models
  /\ loaded \subseteq promoted
  /\ pc \in {"down", "extract", "train", "evaluate", "load", "serving"}
  /\ at \in 1..(2 * Horizons + 1)
  /\ pc = "down" => loaded = {}
  /\ bootstrapped \in BOOLEAN
  /\ hindered \in BOOLEAN
  /\ faults \in 0..MaxFaults

Init ==
  /\ gold = "empty"
  /\ dataset = "absent"
  /\ promoted = {}
  /\ loaded = {}
  /\ pc = "down"
  /\ at = FirstModel
  /\ bootstrapped = FALSE
  /\ hindered = FALSE
  /\ faults = 0

-------------------------------------------------------------------------------
(* Module 2 adds feature vectors and never removes one.                    *)
FeaturesArrive ==
  /\ gold # "full"
  /\ gold' = IF gold = "empty" THEN "short" ELSE "full"
  /\ UNCHANGED <<registryVars, processVars, historyVars, faults>>

Fault == faults' = faults + 1 /\ faults' <= MaxFaults

(* The process turns to the first model of the phase it enters.            *)
Enter(phase) == pc' = phase /\ at' = FirstModel

(* ensure_models_trained only asks for the first classifier, and takes a   *)
(* failing registry for an empty one.                                      *)
Detected == FirstModel \in promoted

Start ==
  /\ pc = "down"
  /\ \/ Detected /\ Enter("load") /\ UNCHANGED <<historyVars, faults>>
     \/ ~Detected /\ Enter("extract") /\ bootstrapped' = TRUE /\ UNCHANGED <<hindered, faults>>
     \/ Detected /\ Enter("extract") /\ bootstrapped' = TRUE /\ hindered' = TRUE /\ Fault
  /\ UNCHANGED <<gold, registryVars, loaded>>

(* Any exception on the way ends the bootstrap, and the process goes on to *)
(* load what is there.                                                     *)
BootstrapFails ==
  /\ pc \in {"extract", "train", "evaluate"}
  /\ Fault
  /\ Enter("load")
  /\ hindered' = TRUE
  /\ UNCHANGED <<gold, registryVars, loaded, bootstrapped>>

(* extract_gold_features writes nothing when the collection is empty.      *)
Extracted_Once == IF dataset = "absent" /\ gold # "empty" THEN gold ELSE dataset

Extracted == IF gold = "empty" THEN dataset ELSE gold

Extract ==
  /\ pc = "extract"
  /\ dataset' = Extracted
  /\ Enter("train")
  /\ hindered' = (hindered \/ gold # "full")
  /\ UNCHANGED <<gold, promoted, loaded, bootstrapped, faults>>

(* train_all_models raises when the file is missing or a split is empty.   *)
Trainable == dataset = "full"

Train ==
  /\ pc = "train"
  /\ Enter(IF Trainable THEN "evaluate" ELSE "load")
  /\ UNCHANGED <<gold, registryVars, loaded, historyVars, faults>>

(* evaluate_and_promote_all takes the candidates one after the other; one  *)
(* that misses its quality gate is left out.                               *)
Accept ==
  /\ promoted' = promoted \cup {at}
  /\ UNCHANGED hindered

Reject ==
  /\ hindered' = TRUE
  /\ UNCHANGED promoted

Evaluate ==
  /\ pc = "evaluate"
  /\ at \in Models
  /\ at' = at + 1
  /\ Accept \/ Reject
  /\ UNCHANGED <<gold, dataset, loaded, pc, bootstrapped, faults>>

EndEvaluation ==
  /\ pc = "evaluate"
  /\ at \notin Models
  /\ Enter("load")
  /\ UNCHANGED <<gold, registryVars, loaded, historyVars, faults>>

(* Each model is loaded by its alias in a try of its own.                  *)
AfterLoad_AnyVersion == loaded \cup {at}

AfterLoad == loaded \cup (promoted \cap {at})

Load ==
  /\ pc = "load"
  /\ at \in Models
  /\ at' = at + 1
  /\ loaded' = AfterLoad
  /\ UNCHANGED <<gold, registryVars, pc, historyVars, faults>>

LoadFails ==
  /\ pc = "load"
  /\ at \in promoted
  /\ Fault
  /\ at' = at + 1
  /\ hindered' = TRUE
  /\ UNCHANGED <<gold, registryVars, loaded, pc, bootstrapped>>

EndLoading ==
  /\ pc = "load"
  /\ at \notin Models
  /\ Enter("serving")
  /\ UNCHANGED <<gold, registryVars, loaded, historyVars, faults>>

(* The process is stopped in an orderly way, or killed at any point.       *)
Exit ==
  /\ Enter("down")
  /\ loaded' = {}
  /\ bootstrapped' = FALSE
  /\ hindered' = FALSE
  /\ UNCHANGED <<gold, registryVars>>

Shutdown == pc = "serving" /\ Exit /\ UNCHANGED faults

Crash == pc # "down" /\ Exit /\ Fault

(* The container is created anew: registry and dataset live inside it.     *)
Recreate ==
  /\ pc = "down"
  /\ dataset' = "absent"
  /\ promoted' = {}
  /\ UNCHANGED <<gold, processVars, historyVars, faults>>

Process ==
  \/ Start
  \/ Extract
  \/ Train
  \/ BootstrapFails
  \/ Evaluate
  \/ EndEvaluation
  \/ Load
  \/ LoadFails
  \/ EndLoading

Next == FeaturesArrive \/ Process \/ Shutdown \/ Crash \/ Recreate

(* What /predict answers for: a horizon with both of its models.           *)
Whole(models) == {h \in 1..Horizons : {2 * h - 1, 2 * h} \subseteq models}

Served == IF pc = "serving" THEN Whole(loaded) ELSE {}

-------------------------------------------------------------------------------
(* Properties.                                                             *)

(* A start that meets no failure serves every horizon when it bootstraps   *)
(* over enough features and no model is rejected, whatever dataset and     *)
(* promotions an earlier start left behind.  When it finds the first model *)
(* promoted it trains nothing, and serves the horizons whose two models    *)
(* are promoted, which are not all of them after a promotion cut short.    *)
CleanStartServes ==
  pc = "serving" /\ ~hindered =>
    Served = IF bootstrapped THEN 1..Horizons ELSE Whole(promoted)

================================================================================
