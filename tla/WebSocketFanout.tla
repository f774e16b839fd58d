---------------------------- MODULE WebSocketFanout ----------------------------
(***************************************************************************)
(* The gateway's live market stream: app/api/routers/stream.py.  One       *)
(* event loop runs the task consume_kafka_market_data, which broadcasts    *)
(* each message of market-ohlcv to the WebSockets registered for its       *)
(* symbol, and one websocket_endpoint coroutine per connection, which      *)
(* registers it and waits for it to close.  Coroutines interleave where    *)
(* they await: a broadcast only while it awaits a send.  It iterates over  *)
(* the very list that the endpoints append to and remove from.             *)
(*                                                                         *)
(* A list that becomes empty is deleted from the dictionary and the next   *)
(* connection makes another one, so a broadcast may go on with a list that *)
(* nobody sees any more; it is empty and stays so.                         *)
(***************************************************************************)
EXTENDS Naturals, Sequences, SequencesExt

CONSTANTS
  Sockets,      \* WebSocket connections
  Symbols,      \* symbols, in upper case
  None,         \* a message that is not JSON or has no symbol
  MaxMessages   \* bound: messages ever put on market-ohlcv

(* None stands for no connection and for no symbol.                        *)
ASSUME FanoutAssumption ==
  /\ None \notin Sockets
  /\ None \notin Symbols
  /\ MaxMessages \in Nat

VARIABLES
  topic,      \* market-ohlcv, as the sequence of its messages' symbols
  consumed,   \* messages the task has taken
  active,     \* active_connections, an absent key being the empty list
  state,      \* of each connection and its endpoint
  symbolOf,   \* the symbol in a connection's path
  sending,    \* the connection whose send the broadcast awaits, or None
  cursor,     \* its index in the list when it was picked
  attached,   \* the list the broadcast iterates over is the registered one
  dead,       \* dead_connections
  sent,       \* history: the messages each connection was sent, in order
  audience,   \* history: who was registered when the broadcast began
  disturbed   \* history: somebody was unregistered while it went on

taskVars == <<sending, cursor, attached, dead>>
historyVars == <<sent, audience, disturbed>>
vars == <<topic, consumed, active, state, symbolOf, taskVars, historyVars>>

(* "broken": the endpoint coroutine ended on another exception than        *)
(* WebSocketDisconnect (a binary frame, say) and unregistered nothing.     *)
States == {"new", "open", "closed", "left", "broken"}

Registered(s) == ToSet(active[s])
Broadcasting == sending # None

TypeOK ==
  /\ topic \in Seq(Symbols \cup {None}) /\ Len(topic) <= MaxMessages
  /\ consumed \in 0..Len(topic)
  /\ active \in [Symbols -> Seq(Sockets)]
  /\ \A s \in Symbols : IsInjective(active[s])
  /\ state \in [Sockets -> States]
  /\ symbolOf \in [Sockets -> Symbols \cup {None}]
  /\ \A s \in Symbols : \A c \in Registered(s) : symbolOf[c] = s
  /\ sending \in Sockets \cup {None}
  /\ cursor \in Nat
  /\ attached \in BOOLEAN
  /\ dead \in Seq(Sockets) /\ IsInjective(dead)
  /\ sent \in [Sockets -> Seq(1..consumed)]
  /\ audience \subseteq Sockets
  /\ disturbed \in BOOLEAN

Init ==
  /\ topic = <<>>
  /\ consumed = 0
  /\ active = [s \in Symbols |-> <<>>]
  /\ state = [c \in Sockets |-> "new"]
  /\ symbolOf = [c \in Sockets |-> None]
  /\ sending = None
  /\ cursor = 0
  /\ attached = TRUE
  /\ dead = <<>>
  /\ sent = [c \in Sockets |-> <<>>]
  /\ audience = {}
  /\ disturbed = FALSE

-------------------------------------------------------------------------------
(* Module 1 publishes a bar, or anybody something unreadable.              *)
Produce(s) ==
  /\ Len(topic) < MaxMessages
  /\ topic' = Append(topic, s)
  /\ UNCHANGED <<consumed, active, state, symbolOf, taskVars, historyVars>>

(* connect: after the handshake the connection is appended to its list.    *)
Enlist_First(list, c) == <<c>> \o list

Enlist(list, c) == Append(list, c)

Connect(c, s) ==
  /\ state[c] = "new"
  /\ state' = [state EXCEPT ![c] = "open"]
  /\ symbolOf' = [symbolOf EXCEPT ![c] = s]
  /\ active' = [active EXCEPT ![s] = Enlist(@, c)]
  /\ UNCHANGED <<topic, consumed, taskVars, historyVars>>

(* The browser goes away, or the network does.                             *)
Close(c) ==
  /\ state[c] = "open"
  /\ state' = [state EXCEPT ![c] = "closed"]
  /\ UNCHANGED <<topic, consumed, active, symbolOf, taskVars, historyVars>>

Breaks(c) ==
  /\ state[c] = "open"
  /\ state' = [state EXCEPT ![c] = "broken"]
  /\ UNCHANGED <<topic, consumed, active, symbolOf, taskVars, historyVars>>

(* list.remove, or its ValueError when the connection is not in the list.  *)
Without_FirstOne(list, c) == IF list = <<>> THEN list ELSE Tail(list)

Without(list, c) ==
  IF c \in ToSet(list) THEN RemoveAt(list, CHOOSE i \in DOMAIN list : list[i] = c) ELSE list

(* receive_text raises WebSocketDisconnect, and the endpoint disconnects.  *)
Leave(c) ==
  /\ state[c] = "closed"
  /\ state' = [state EXCEPT ![c] = "left"]
  /\ LET s == symbolOf[c] IN
       /\ active' = [active EXCEPT ![s] = Without(@, c)]
       /\ IF Broadcasting /\ attached /\ topic[consumed] = s /\ c \in Registered(s)
            THEN disturbed' = TRUE /\ attached' = (active'[s] # <<>>)
            ELSE UNCHANGED <<disturbed, attached>>
  /\ UNCHANGED <<topic, consumed, symbolOf, sending, cursor, dead, sent, audience>>

-------------------------------------------------------------------------------
(* consume_kafka_market_data and broadcast.                                *)

Pick(c, n) == sending' = c /\ sent' = [sent EXCEPT ![c] = Append(@, n)]

(* A message nobody listens to is dropped at once; otherwise the first     *)
(* send begins.                                                            *)
Take ==
  /\ ~Broadcasting
  /\ consumed < Len(topic)
  /\ consumed' = consumed + 1
  /\ LET s == topic[consumed + 1]
         list == IF s = None THEN <<>> ELSE active[s]
     IN /\ IF list = <<>> THEN UNCHANGED <<sending, sent>> ELSE Pick(list[1], consumed')
        /\ audience' = ToSet(list)
  /\ cursor' = 1
  /\ attached' = TRUE
  /\ dead' = <<>>
  /\ disturbed' = FALSE
  /\ UNCHANGED <<topic, active, state, symbolOf>>

(* The list after disconnect has been called for the connections that      *)
(* failed, in turn, until one of them raises ValueError because its own    *)
(* endpoint has already removed it.                                        *)
Pruned(list, failed) ==
  LET left[n \in 0..Len(failed)] ==
        IF n = 0 THEN list
        ELSE IF \A k \in 1..n : failed[k] \in ToSet(list)
          THEN Without(left[n - 1], failed[n])
          ELSE left[n - 1]
  IN left[Len(failed)]

(* A send to a connection that is not open may fail or go unnoticed.       *)
Outcomes_Uncaught(c) == {failed \in BOOLEAN : ~failed /\ state[c] \in {"open", "closed"}}

Outcomes(c) ==
  {failed \in BOOLEAN : IF failed THEN state[c] # "open" ELSE state[c] \in {"open", "closed"}}

(* The awaited send ends, and without another await the loop picks the     *)
(* next connection by its index, or ends and drops those that failed.      *)
NextIndex_Stays == cursor

NextIndex == cursor + 1

GoesOn_UntilFailure(list, failed) == ~failed /\ NextIndex <= Len(list)

GoesOn(list, failed) == NextIndex <= Len(list)

SendEnds ==
  /\ Broadcasting
  /\ \E failed \in Outcomes(sending) :
       LET s == topic[consumed]
           list == IF attached THEN active[s] ELSE <<>>
           lost == IF failed THEN Append(dead, sending) ELSE dead
       IN IF GoesOn(list, failed)
            THEN /\ Pick(list[NextIndex], consumed)
                 /\ cursor' = NextIndex
                 /\ dead' = lost
                 /\ UNCHANGED active
            ELSE /\ sending' = None
                 /\ dead' = <<>>
                 /\ active' = [active EXCEPT ![s] = Pruned(@, lost)]
                 /\ UNCHANGED <<sent, cursor>>
  /\ UNCHANGED <<topic, consumed, state, symbolOf, attached, audience, disturbed>>

-------------------------------------------------------------------------------
Endpoint(c) == (\E s \in Symbols : Connect(c, s)) \/ Leave(c)

Task == Take \/ SendEnds

Next ==
  \/ \E s \in Symbols \cup {None} : Produce(s)
  \/ \E c \in Sockets : Close(c) \/ Breaks(c) \/ Endpoint(c)
  \/ Task

Spec == Init /\ [][Next]_vars

(* The event loop resumes the task whenever a poll or a send has ended; a  *)
(* send ends because the server drops a connection that answers no ping.   *)
(* It also resumes an endpoint whose connection has closed.                *)
Fairness == WF_vars(Task) /\ \A c \in Sockets : WF_vars(Leave(c))

FairSpec == Spec /\ Fairness

-------------------------------------------------------------------------------
(* Properties.                                                             *)

(* No connection is sent a message twice, or after a later one, although   *)
(* the list shifts and grows under the loop that goes through it.          *)
SentInOrderOnce ==
  \A c \in Sockets : \A i, j \in DOMAIN sent[c] : i < j => sent[c][i] < sent[c][j]

(* A broadcast during which nobody was unregistered sent the message to    *)
(* every connection registered when it began, also when sends failed or    *)
(* others registered meanwhile.                                            *)
UndisturbedReachesAll ==
  ~Broadcasting /\ ~disturbed =>
    \A c \in audience : Contains(sent[c], consumed)

(* Once the endpoint has left, its connection is in no list, whichever of  *)
(* the endpoint and the broadcast removed it, so no later message picks it.*)
LeftIsForgotten ==
  \A c \in Sockets : state[c] = "left" => \A s \in Symbols : c \notin Registered(s)

(* The task works off the topic whatever clients do: neither a failed send *)
(* nor the ValueError of a connection removed twice ends it.               *)
TaskKeepsUp == \A n \in 1..MaxMessages : (Len(topic) >= n) ~> (consumed >= n)

(* "Background worker that listens to Kafka and broadcasts to active       *)
(* WebSockets": a connection that was open and registered throughout a     *)
(* broadcast was sent its message.                                         *)
EveryActiveIsSent ==
  ~Broadcasting =>
    \A c \in audience :
      state[c] = "open" /\ c \in Registered(symbolOf[c]) => Contains(sent[c], consumed)

================================================================================
