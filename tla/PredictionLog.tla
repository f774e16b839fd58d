----------------------------- MODULE PredictionLog -----------------------------
(***************************************************************************)
(* The predictions of the gateway: app/api/routers/predictions.py, its     *)
(* response cache in Redis and the daily job populate_actuals.             *)
(*                                                                         *)
(* A request is one coroutine: the cache decorator builds its key and asks *)
(* Redis; on a miss the handler settles the time it predicts for, reads    *)
(* the symbol's features, asks the model server for every horizon and the  *)
(* reasoning engine for a verdict, all at once, logs a pair of predictions *)
(* and answers, and the decorator stores the answer.  Requests interleave  *)
(* at every await, and nothing keeps two of them from computing the same   *)
(* answer side by side.                                                    *)
(*                                                                         *)
(* Time is counted in hours.  A request gives a date or none.  Its key     *)
(* names an hour: the date's as it is written, whatever its UTC offset, or *)
(* the clock's.  The handler predicts for the moment the date denotes, or  *)
(* for the clock's, which it reads after Redis has answered.  Minutes and  *)
(* the figures are left out, so an answer is the request that computed it. *)
(* So is a client's no-cache header, which has its request computed anew.  *)
(***************************************************************************)
EXTENDS Naturals

CONSTANTS
  Requests,   \* requests for a prediction
  Symbols,    \* symbols, in upper case
  Horizons,   \* the handler asks for the horizons 1..Horizons
  SymbolOf,   \* [Requests -> Symbols]
  DateOf,     \* Requests -> its date (the hour written, the hour meant) or None
  LastHour,   \* bound: the clock runs from hour 1 to LastHour
  MaxFaults,  \* bound: kills and failed calls, here and in ModelServing
  None

VARIABLES
  served,    \* horizons the model server answers for (ModelServing's)
  features,  \* kinds of feature vectors a symbol has: without a price or with
  quotes,    \* symbols with a bar in silver_market_quotes
  gateway,   \* "plain" when Redis did not answer at its start
  clock,     \* the current hour
  cache,     \* answers in Redis, by symbol and hour
  pc,        \* where each request is
  asked,     \* the symbol and the hour that each request's key names
  target,    \* the hour each request's handler predicts for
  forecasts, \* horizons the model server has answered a request for
  verdict,   \* what the reasoning engine has answered a request
  answer,    \* what a request was answered: the request that computed it
  log,       \* predictions_log
  due,       \* entries a bar has come after
  filled,    \* entries with their actual outcome
  lossy,     \* history: Redis has failed or dropped an answer
  faults     \* kills and failed calls so far

Hours == 1..LastHour
Keys == Symbols \X Hours
Dates == [written : Hours, meant : Hours]
Types == {"classification", "regression"}
Entries == [by : Requests, symbol : Symbols, type : Types]

LogAssumption ==
  /\ LastHour \in Nat \ {0}
  /\ SymbolOf \in [Requests -> Symbols]
  /\ DateOf \in [Requests -> Dates \cup {None}]
  /\ None \notin Requests \cup Keys \cup Dates \cup Hours

worldVars == <<features, quotes, clock>>
questionVars == <<asked, target>>
requestVars == <<pc, questionVars, forecasts, verdict, answer>>
logVars == <<log, due, filled>>

Active == {r \in Requests : pc[r] \notin {"new", "done", "failed"}}

TypeOK ==
  /\ features \in [Symbols -> SUBSET {"priced", "unpriced"}]
  /\ quotes \subseteq Symbols
  /\ gateway \in {"down", "plain", "cached"}
  /\ clock \in Hours
  /\ cache \in [Keys -> Requests \cup {None}]
  /\ pc \in [Requests -> {"new", "cache", "miss", "gold", "silver", "infer", "store",
                          "done", "failed"}]
  /\ asked \in [Requests -> Keys \cup {None}]
  /\ \A r \in Active : asked[r] # None
  /\ target \in [Requests -> Hours \cup {None}]
  /\ forecasts \in [Requests -> SUBSET (1..Horizons)]
  /\ verdict \in [Requests -> {"model", "fallback", None}]
  /\ answer \in [Requests -> Requests \cup {None}]
  /\ log \subseteq Entries
  /\ due \subseteq log
  /\ filled \subseteq log
  /\ lossy \in BOOLEAN
  /\ faults \in 0..MaxFaults

Init ==
  /\ features = [s \in Symbols |-> {}]
  /\ quotes = {}
  /\ gateway = "down"
  /\ clock = 1
  /\ cache = [k \in Keys |-> None]
  /\ pc = [r \in Requests |-> "new"]
  /\ asked = [r \in Requests |-> None]
  /\ target = [r \in Requests |-> None]
  /\ forecasts = [r \in Requests |-> {}]
  /\ verdict = [r \in Requests |-> None]
  /\ answer = [r \in Requests |-> None]
  /\ log = {}
  /\ due = {}
  /\ filled = {}
  /\ lossy = FALSE
  /\ faults = 0

Fault == faults' = faults + 1 /\ faults' <= MaxFaults

-------------------------------------------------------------------------------
(* Modules 1 and 2, the clock, and Redis, which drops an answer when it    *)
(* expires or memory is short.                                             *)

(* A post makes a vector without a price, a bar gives it one for good.     *)
VectorChanges(s, kinds) ==
  /\ kinds # {} /\ kinds # features[s]
  /\ "priced" \in features[s] => "priced" \in kinds
  /\ features' = [features EXCEPT ![s] = kinds]
  /\ UNCHANGED <<quotes, clock, gateway, cache, requestVars, logVars, lossy, faults>>

BarArrives(s) ==
  /\ quotes' = quotes \cup {s}
  /\ due' = due \cup {e \in log : e.symbol = s}
  /\ UNCHANGED <<features, clock, gateway, cache, requestVars, log, filled, lossy, faults>>

Tick ==
  /\ clock < LastHour
  /\ clock' = clock + 1
  /\ UNCHANGED <<features, quotes, gateway, cache, requestVars, logVars, lossy, faults>>

Expire(k) ==
  /\ cache[k] # None
  /\ cache' = [cache EXCEPT ![k] = None]
  /\ lossy' = TRUE
  /\ UNCHANGED <<worldVars, gateway, requestVars, logVars, faults>>

-------------------------------------------------------------------------------
(* The gateway's process.                                                  *)

(* Requests that fail are answered with an error, and nothing of them is   *)
(* left but what they may have logged.                                     *)
Forget(f, failing, v) == [r \in Requests |-> IF r \in failing THEN v ELSE f[r]]

Fail(failing) ==
  /\ pc' = Forget(pc, failing, "failed")
  /\ asked' = Forget(asked, failing, None)
  /\ target' = Forget(target, failing, None)
  /\ forecasts' = Forget(forecasts, failing, {})
  /\ verdict' = Forget(verdict, failing, None)
  /\ UNCHANGED answer

(* FastAPICache is only initialised when Redis answers the ping.           *)
GatewayStart ==
  /\ gateway = "down"
  /\ \/ gateway' = "cached" /\ UNCHANGED faults
     \/ gateway' = "plain" /\ Fault
  /\ UNCHANGED <<worldVars, cache, requestVars, logVars, lossy>>

GatewayCrash ==
  /\ gateway # "down"
  /\ gateway' = "down"
  /\ Fail(Active)
  /\ Fault
  /\ UNCHANGED <<worldVars, cache, logVars, lossy>>

-------------------------------------------------------------------------------
(* One request.                                                            *)

Goto(r, label) == pc' = [pc EXCEPT ![r] = label]

Proceed(r, label) == Goto(r, label) /\ UNCHANGED <<questionVars, forecasts, verdict, answer>>

Answer(r, c) ==
  /\ Goto(r, "done")
  /\ answer' = [answer EXCEPT ![r] = c]

(* prediction_key_builder: strftime writes a date's hour as the client     *)
(* did, without converting its offset, so that 10:00+07:00 and 10:00Z have *)
(* one key.  Its except clause is left out: no date makes it raise.        *)
HourNamed(r) == IF DateOf[r] = None THEN clock ELSE DateOf[r].written

KeyOf_AnyHour(s, h) == <<s, CHOOSE g \in Hours : TRUE>>

KeyOf(s, h) == <<s, h>>

(* The decorator builds the key and asks Redis for it ...                  *)
Ask(r) ==
  /\ pc[r] = "new" /\ gateway = "cached"
  /\ asked' = [asked EXCEPT ![r] = <<SymbolOf[r], HourNamed(r)>>]
  /\ Goto(r, "cache")
  /\ UNCHANGED <<worldVars, gateway, cache, target, forecasts, verdict, answer, logVars,
                 lossy, faults>>

(* ... which has an answer or not.                                         *)
LookUp(r) ==
  /\ pc[r] = "cache"
  /\ LET c == cache[KeyOf(asked[r][1], asked[r][2])] IN
       IF c # None THEN Answer(r, c) ELSE Goto(r, "miss") /\ UNCHANGED answer
  /\ UNCHANGED <<worldVars, gateway, cache, questionVars, forecasts, verdict, logVars,
                 lossy, faults>>

(* A Redis that does not answer is taken for a miss.                       *)
LookUpFails(r) ==
  /\ pc[r] = "cache"
  /\ Proceed(r, "miss")
  /\ lossy' = TRUE
  /\ Fault
  /\ UNCHANGED <<worldVars, gateway, cache, logVars>>

(* The handler starts, and reads the clock again when there is no date.    *)
Begin(r) ==
  /\ pc[r] = "miss"
  /\ Goto(r, "gold")
  /\ target' = [target EXCEPT ![r] = IF DateOf[r] = None THEN clock ELSE DateOf[r].meant]
  /\ UNCHANGED <<worldVars, gateway, cache, asked, forecasts, verdict, answer, logVars,
                 lossy, faults>>

(* Without an initialised cache the decorator itself raises.               *)
AskUncached(r) ==
  /\ pc[r] = "new" /\ gateway = "plain"
  /\ Fail({r})
  /\ UNCHANGED <<worldVars, gateway, cache, logVars, lossy, faults>>

(* The newest vector up to the asked date, or else the newest of all: one  *)
(* without a price refuses the request, and the quotes are only looked at  *)
(* when there is no vector.                                                *)
ReadGold(r) ==
  /\ pc[r] = "gold"
  /\ LET kinds == features[SymbolOf[r]] IN
       \/ kinds = {} /\ Proceed(r, "silver")
       \/ "priced" \in kinds /\ Proceed(r, "infer")
       \/ "unpriced" \in kinds /\ Fail({r})
  /\ UNCHANGED <<worldVars, gateway, cache, logVars, lossy, faults>>

ReadSilver(r) ==
  /\ pc[r] = "silver"
  /\ IF SymbolOf[r] \in quotes THEN Proceed(r, "infer") ELSE Fail({r})
  /\ UNCHANGED <<worldVars, gateway, cache, logVars, lossy, faults>>

Forecast(r, h) ==
  /\ pc[r] = "infer"
  /\ h \in served \ forecasts[r]
  /\ forecasts' = [forecasts EXCEPT ![r] = @ \cup {h}]
  /\ UNCHANGED <<worldVars, gateway, cache, pc, questionVars, verdict, answer, logVars, lossy, faults>>

(* The reasoning engine turns a failed inference into a neutral verdict,   *)
(* which the gateway cannot tell from another.                             *)
Reason(r) ==
  /\ pc[r] = "infer"
  /\ verdict[r] = None
  /\ \/ verdict' = [verdict EXCEPT ![r] = "model"] /\ UNCHANGED faults
     \/ verdict' = [verdict EXCEPT ![r] = "fallback"] /\ Fault
  /\ UNCHANGED <<worldVars, gateway, cache, pc, questionVars, forecasts, answer, logVars, lossy>>

(* A model server that is down or lacks a horizon's models fails the call, *)
(* and the first failure ends the gather.                                  *)
Refused_Never(r) == FALSE

Refused(r) == ~(1..Horizons \subseteq forecasts[r] \cup served)

CallFails(r) ==
  /\ pc[r] = "infer"
  /\ Refused(r)
  /\ Fail({r})
  /\ UNCHANGED <<worldVars, gateway, cache, logVars, lossy, faults>>

(* A query, a call that times out, or a file that cannot be read.          *)
Breaks(r) ==
  /\ pc[r] \in {"gold", "silver", "infer"}
  /\ Fail({r})
  /\ Fault
  /\ UNCHANGED <<worldVars, gateway, cache, logVars, lossy>>

Complete(r) == forecasts[r] = 1..Horizons /\ verdict[r] # None

Pair(r) == {[by |-> r, symbol |-> SymbolOf[r], type |-> t] : t \in Types}

Insert(r) ==
  /\ pc[r] = "infer"
  /\ Complete(r)
  /\ log' = log \cup Pair(r)
  /\ Proceed(r, "store")
  /\ UNCHANGED <<worldVars, gateway, cache, due, filled, lossy, faults>>

(* insert_many writes in order and may fail before, between or after.      *)
InsertFails(r) ==
  /\ pc[r] = "infer"
  /\ Complete(r)
  /\ \E part \in {{}, {e \in Pair(r) : e.type = "classification"}, Pair(r)} :
       log' = log \cup part
  /\ Fail({r})
  /\ Fault
  /\ UNCHANGED <<worldVars, gateway, cache, due, filled, lossy>>

(* The decorator stores what the handler returned under the key it built   *)
(* when the request came in.                                               *)
AfterStore_Lost(r) == cache

AfterStore(r) == [cache EXCEPT ![KeyOf(asked[r][1], asked[r][2])] = r]

Store(r) ==
  /\ pc[r] = "store"
  /\ cache' = AfterStore(r)
  /\ Answer(r, r)
  /\ UNCHANGED <<worldVars, gateway, questionVars, forecasts, verdict, logVars, lossy, faults>>

StoreFails(r) ==
  /\ pc[r] = "store"
  /\ Answer(r, r)
  /\ lossy' = TRUE
  /\ Fault
  /\ UNCHANGED <<worldVars, gateway, cache, questionVars, forecasts, verdict, logVars>>

-------------------------------------------------------------------------------
(* The daily job takes the entries without an outcome and handles one      *)
(* after the other, which nothing else changes meanwhile: a step is one    *)
(* entry's turn in one run.                                                *)
(*                                                                         *)
(* The quotes hold their timestamps as strings, the query compares them    *)
(* with the entry's datetime, and $gt only matches values of one type.     *)
StoredType == "string"
LoggedType == "date"

HasLaterBar(e) == e \in due /\ StoredType = LoggedType

JobHandle(e) ==
  /\ gateway # "down"
  /\ e \in log \ filled
  /\ filled' = IF HasLaterBar(e) THEN filled \cup {e} ELSE filled
  /\ UNCHANGED <<worldVars, gateway, cache, requestVars, log, due, lossy, faults>>

-------------------------------------------------------------------------------
World ==
  \/ \E s \in Symbols, kinds \in SUBSET {"priced", "unpriced"} : VectorChanges(s, kinds)
  \/ \E s \in Symbols : BarArrives(s)
  \/ Tick
  \/ \E k \in Keys : Expire(k)

Arrive(r) ==
  \/ Ask(r)
  \/ AskUncached(r)

Handle(r) ==
  \/ LookUp(r)
  \/ LookUpFails(r)
  \/ Begin(r)
  \/ ReadGold(r)
  \/ ReadSilver(r)
  \/ \E h \in 1..Horizons : Forecast(r, h)
  \/ Reason(r)
  \/ CallFails(r)
  \/ Breaks(r)
  \/ Insert(r)
  \/ InsertFails(r)
  \/ Store(r)
  \/ StoreFails(r)

Job == \E e \in log : JobHandle(e)

Next ==
  \/ World
  \/ GatewayStart
  \/ GatewayCrash
  \/ \E r \in Requests : Arrive(r) \/ Handle(r)
  \/ Job

================================================================================
