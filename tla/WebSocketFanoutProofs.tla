------------------------ MODULE WebSocketFanoutProofs ------------------------
(***************************************************************************)
(* Theorems about WebSocketFanout: what a broadcast may rely on while the  *)
(* list it iterates over changes under it.                                 *)
(***************************************************************************)
EXTENDS WebSocketFanout, SetsOfNaturals, SequenceTheorems, TLAPS

-------------------------------------------------------------------------------
(* Lists of connections.                                                   *)

LEMMA MembersOfSeq ==
  ASSUME NEW S, NEW list \in Seq(S)
  PROVE  ToSet(list) \subseteq S
BY LenProperties, ElementOfSeq DEF ToSet

LEMMA ContainsSet ==
  ASSUME NEW S, NEW list \in Seq(S), NEW e
  PROVE  Contains(list, e) <=> e \in ToSet(list)
BY LenProperties DEF Contains, ToSet

LEMMA AppendFacts ==
  ASSUME NEW S, NEW list \in Seq(S), NEW c \in S
  PROVE  /\ Append(list, c) \in Seq(S)
         /\ DOMAIN Append(list, c) = 1..(Len(list) + 1)
         /\ \A i \in DOMAIN list : i \in DOMAIN Append(list, c) /\ Append(list, c)[i] = list[i]
         /\ Append(list, c)[Len(list) + 1] = c
         /\ ToSet(Append(list, c)) = ToSet(list) \cup {c}
<1>1. /\ Len(list) \in Nat /\ DOMAIN list = 1..Len(list)
      /\ Append(list, c) \in Seq(S) /\ Len(Append(list, c)) = Len(list) + 1
      /\ \A i \in 1..Len(list) : Append(list, c)[i] = list[i]
      /\ Append(list, c)[Len(list) + 1] = c
  BY LenProperties, AppendProperties
<1>2. DOMAIN Append(list, c) = 1..(Len(list) + 1)
  BY <1>1, LenProperties
<1>3. \A i \in 1..(Len(list) + 1) : i \in 1..Len(list) \/ i = Len(list) + 1
  BY <1>1
<1>4. Len(list) + 1 \in 1..(Len(list) + 1) /\ \A i \in 1..Len(list) : i \in 1..(Len(list) + 1)
  BY <1>1
<1>5. ToSet(Append(list, c)) = ToSet(list) \cup {c}
  BY <1>1, <1>2, <1>3, <1>4 DEF ToSet
<1> QED BY <1>1, <1>2, <1>4, <1>5

LEMMA AppendKeepsInjective ==
  ASSUME NEW S, NEW list \in Seq(S), IsInjective(list), NEW c \in S, c \notin ToSet(list)
  PROVE  IsInjective(Append(list, c))
<1>1. \A i \in DOMAIN list : list[i] # c
  BY DEF ToSet
<1>2. \A i \in 1..(Len(list) + 1) : i \in DOMAIN list \/ i = Len(list) + 1
  BY LenProperties
<1>3. /\ DOMAIN Append(list, c) = 1..(Len(list) + 1)
      /\ \A i \in DOMAIN list : Append(list, c)[i] = list[i]
      /\ Append(list, c)[Len(list) + 1] = c
  BY AppendFacts
<1> DEFINE new == Append(list, c)
<1> HIDE DEF new
<1>4. ASSUME NEW i \in DOMAIN new, NEW j \in DOMAIN new, new[i] = new[j]
      PROVE  i = j
  BY <1>1, <1>2, <1>3, <1>4 DEF IsInjective, new
<1>5. IsInjective(new)
  BY <1>4 DEF IsInjective
<1> QED BY <1>5 DEF new

(* What list.remove does to a list without duplicates: no entry moves      *)
(* towards the end.                                                        *)
LEMMA WithoutFacts ==
  ASSUME NEW S, NEW list \in Seq(S), IsInjective(list), NEW c
  PROVE  /\ Without(list, c) \in Seq(S)
         /\ IsInjective(Without(list, c))
         /\ ToSet(Without(list, c)) = ToSet(list) \ {c}
         /\ \A i \in DOMAIN Without(list, c) :
              \E j \in DOMAIN list : j >= i /\ list[j] = Without(list, c)[i]
<1>1. Len(list) \in Nat /\ DOMAIN list = 1..Len(list) /\ \A i \in 1..Len(list) : list[i] \in S
  BY LenProperties, ElementOfSeq
<1>2. CASE c \notin ToSet(list)
  <2>1. Without(list, c) = list
    BY <1>2 DEF Without
  <2>2. \A i \in DOMAIN list : i >= i
    BY <1>1
  <2> QED BY <1>2, <2>1, <2>2
<1>3. CASE c \in ToSet(list)
  <2> DEFINE k == CHOOSE i \in DOMAIN list : list[i] = c
             front == SubSeq(list, 1, k - 1)
             back == SubSeq(list, k + 1, Len(list))
             rest == front \o back
  <2>1. k \in 1..Len(list) /\ list[k] = c
    BY <1>1, <1>3 DEF ToSet
  <2>2. Without(list, c) = rest
    BY <1>3 DEF Without, RemoveAt
  <2> HIDE DEF k
  <2>3. /\ k \in Nat /\ k >= 1 /\ k <= Len(list)
        /\ \A i \in 1..(k - 1) : i \in 1..Len(list)
        /\ \A i \in (k + 1)..Len(list) : i \in 1..Len(list)
    BY <1>1, <2>1
  <2>4. /\ front \in Seq(S) /\ Len(front) = k - 1
        /\ \A i \in 1..(k - 1) : front[i] = list[i]
    <3>1. /\ front \in Seq(S) /\ Len(front) = (IF 1 <= k - 1 THEN (k - 1) - 1 + 1 ELSE 0)
          /\ \A i \in 1..((k - 1) - 1 + 1) : front[i] = list[1 + i - 1]
      <4>1. 1 \in Int /\ k - 1 \in Int /\ \A i \in 1..(k - 1) : list[i] \in S
        BY <1>1, <2>3
      <4> QED BY <4>1, SubSeqProperties
    <3>2. (k - 1) - 1 + 1 = k - 1 /\ \A i \in 1..(k - 1) : 1 + i - 1 = i
      BY <2>3
    <3>3. (IF 1 <= k - 1 THEN (k - 1) - 1 + 1 ELSE 0) = k - 1
      BY <2>3
    <3> QED BY <3>1, <3>2, <3>3
  <2>5. /\ back \in Seq(S) /\ Len(back) = Len(list) - k
        /\ \A i \in 1..(Len(list) - k) : back[i] = list[k + i]
    <3>1. /\ back \in Seq(S)
          /\ Len(back) = (IF k + 1 <= Len(list) THEN Len(list) - (k + 1) + 1 ELSE 0)
          /\ \A i \in 1..(Len(list) - (k + 1) + 1) : back[i] = list[(k + 1) + i - 1]
      <4>1. k + 1 \in Int /\ Len(list) \in Int /\ \A i \in (k + 1)..Len(list) : list[i] \in S
        BY <1>1, <2>3
      <4> QED BY <4>1, SubSeqProperties
    <3>2. Len(list) - (k + 1) + 1 = Len(list) - k
          /\ \A i \in 1..(Len(list) - k) : (k + 1) + i - 1 = k + i
      BY <1>1, <2>3
    <3>3. CASE k + 1 <= Len(list)
      BY <3>1, <3>2, <3>3
    <3>4. CASE ~(k + 1 <= Len(list))
      <4>1. Len(list) - k = 0
        <5>1. Len(list) \in Nat /\ k \in Nat /\ k <= Len(list)
          BY <1>1, <2>3
        <5> QED BY <3>4, <5>1
      <4> QED BY <3>1, <3>2, <3>4, <4>1
    <3> QED BY <3>3, <3>4
  <2> HIDE DEF front, back
  <2>6. /\ rest \in Seq(S)
        /\ DOMAIN rest = 1..(Len(list) - 1)
        /\ \A i \in 1..(Len(list) - 1) : rest[i] = IF i < k THEN list[i] ELSE list[i + 1]
    <3>1. /\ rest \in Seq(S)
          /\ Len(rest) = Len(front) + Len(back)
          /\ \A i \in 1..(Len(front) + Len(back)) :
               rest[i] = IF i <= Len(front) THEN front[i] ELSE back[i - Len(front)]
      BY <2>4, <2>5, ConcatProperties
    <3>2. Len(front) + Len(back) = Len(list) - 1
      BY <1>1, <2>3, <2>4, <2>5
    <3>3. ASSUME NEW i \in 1..(Len(list) - 1)
          PROVE  rest[i] = IF i < k THEN list[i] ELSE list[i + 1]
      <4>1. CASE i < k
        <5>1. i <= k - 1 /\ i \in 1..(k - 1)
          BY <2>3, <4>1
        <5>2. rest[i] = front[i]
          BY <2>4, <3>1, <3>2, <5>1
        <5> QED BY <2>4, <4>1, <5>1, <5>2
      <4>2. CASE ~(i < k)
        <5>1. ~(i <= k - 1) /\ i - (k - 1) \in 1..(Len(list) - k) /\ k + (i - (k - 1)) = i + 1
          BY <1>1, <2>3, <4>2
        <5>2. rest[i] = back[i - (k - 1)]
          BY <2>4, <3>1, <3>2, <5>1
        <5> QED BY <2>5, <4>2, <5>1, <5>2
      <4> QED BY <4>1, <4>2
    <3>4. DOMAIN rest = 1..(Len(list) - 1)
      BY <3>1, <3>2, LenProperties
    <3> QED BY <3>1, <3>3, <3>4
  <2> HIDE DEF rest
  <2> DEFINE from(i) == IF i < k THEN i ELSE i + 1
  <2>7. \A i \in DOMAIN rest :
          from(i) \in DOMAIN list /\ from(i) >= i /\ from(i) # k /\ list[from(i)] = rest[i]
    BY <1>1, <2>3, <2>6
  <2>8. \A i, j \in DOMAIN rest : from(i) = from(j) => i = j
    BY <1>1, <2>3, <2>6
  <2>9. \A j \in DOMAIN list : j # k => \E i \in DOMAIN rest : from(i) = j
    <3>1. TAKE j \in DOMAIN list
    <3>2. HAVE j # k
    <3>3. CASE j < k
      <4>1. j \in DOMAIN rest /\ from(j) = j
        BY <1>1, <2>3, <2>6, <3>3
      <4> QED BY <4>1
    <3>4. CASE ~(j < k)
      <4>1. j - 1 \in DOMAIN rest /\ from(j - 1) = j
        BY <1>1, <2>3, <2>6, <3>2, <3>4
      <4> QED BY <4>1
    <3> QED BY <3>3, <3>4
  <2> HIDE DEF from
  <2>10. IsInjective(rest)
    BY <2>7, <2>8 DEF IsInjective
  <2>11. ToSet(rest) = ToSet(list) \ {c}
    <3>1. \A x \in ToSet(rest) : x \in ToSet(list) /\ x # c
      BY <1>1, <2>1, <2>7 DEF ToSet, IsInjective
    <3>2. \A x \in ToSet(list) : x # c => x \in ToSet(rest)
      BY <2>1, <2>7, <2>9 DEF ToSet
    <3> QED BY <3>1, <3>2
  <2> QED BY <2>2, <2>6, <2>7, <2>10, <2>11
<1> QED BY <1>2, <1>3

(* What is left of a list after a broadcast has dropped those that failed. *)
LEMMA PrunedFacts ==
  ASSUME NEW S, NEW list \in Seq(S), IsInjective(list), NEW failed \in Seq(S)
  PROVE  /\ Pruned(list, failed) \in Seq(S)
         /\ IsInjective(Pruned(list, failed))
         /\ ToSet(Pruned(list, failed)) \subseteq ToSet(list)
<1> DEFINE N == Len(failed)
           Lists == {l \in Seq(S) : IsInjective(l) /\ ToSet(l) \subseteq ToSet(list)}
           Removed(n) == \A k \in 1..n : failed[k] \in ToSet(list)
           IsLeft(f) == f = [n \in 0..N |-> IF n = 0 THEN list
                                            ELSE IF Removed(n) THEN Without(f[n - 1], failed[n])
                                            ELSE f[n - 1]]
           left == CHOOSE f : IsLeft(f)
<1>1. N \in Nat
  BY LenProperties
<1>2. Pruned(list, failed) = left[N]
  BY DEF Pruned
<1>3. list \in Lists
  OBVIOUS
<1>4. ASSUME NEW l \in Lists, NEW n \in 1..N
      PROVE  (IF Removed(n) THEN Without(l, failed[n]) ELSE l) \in Lists
  <2>1. Without(l, failed[n]) \in Lists
    BY WithoutFacts
  <2> QED BY <2>1
<1> HIDE DEF Lists, Removed, N
<1>5. \E f : IsLeft(f)
  <2> DEFINE step == [n \in 1..N |->
                       [l \in Lists |-> IF Removed(n) THEN Without(l, failed[n]) ELSE l]]
  <2>1. step \in [1..N -> [Lists -> Lists]]
    BY <1>4
  <2> HIDE DEF step
  <2>2. PICK f \in [0..N -> Lists] : Computes(f, N, list, step)
    BY <1>1, <1>3, <2>1, RecursionUpTo
  <2>3. ASSUME NEW n \in 0..N, n # 0
        PROVE  f[n] = IF Removed(n) THEN Without(f[n - 1], failed[n]) ELSE f[n - 1]
    <3>1. n \in 1..N /\ f[n - 1] \in Lists
      BY <1>1, <2>3
    <3> QED BY <2>2, <3>1 DEF step, Computes
  <2>4. IsLeft(f)
    BY <2>2, <2>3 DEF Computes
  <2> QED BY <2>4
<1>6. IsLeft(left)
  BY <1>5
<1> HIDE DEF left
<1>7. \A n \in 0..N : left[n] \in Lists
  <2> DEFINE T == {n \in 0..N : left[n] \in Lists}
  <2>1. 0 \in T
    BY <1>1, <1>3, <1>6
  <2>2. ASSUME NEW n \in 1..N, n - 1 \in T PROVE n \in T
    <3>1. n \in 0..N /\ n # 0 /\ left[n - 1] \in Lists
      BY <1>1, <2>2
    <3>2. left[n] = IF Removed(n) THEN Without(left[n - 1], failed[n]) ELSE left[n - 1]
      BY <1>6, <3>1
    <3> QED BY <1>4, <3>1, <3>2
  <2> HIDE DEF T
  <2>3. \A n \in 0..N : n \in T
    BY <1>1, <2>1, <2>2, InductionUpTo
  <2> QED BY <2>3 DEF T
<1>8. left[N] \in Lists
  BY <1>1, <1>7
<1> QED BY <1>2, <1>8 DEF Lists

-------------------------------------------------------------------------------
Listeners == active[topic[consumed]]

(* A connection that has not connected was sent nothing; any other one has *)
(* a symbol.                                                               *)
Known ==
  \A c \in Sockets :
    IF state[c] = "new"
      THEN sent[c] = <<>> /\ \A s \in Symbols : c \notin Registered(s)
      ELSE symbolOf[c] \in Symbols

(* While a send is awaited, the message is one of the topic and whoever    *)
(* the loop has dealt with has it.                                         *)
InFlight ==
  Broadcasting =>
    /\ consumed \in 1..Len(topic)
    /\ topic[consumed] \in Symbols
    /\ cursor > 0
    /\ consumed \in ToSet(sent[sending])
    /\ sending \notin ToSet(dead)
    /\ \A c \in ToSet(dead) : consumed \in ToSet(sent[c])

(* What the loop has not reached has not been sent the message: entries    *)
(* only ever move towards the front.                                       *)
AheadUnsent ==
  Broadcasting /\ attached =>
    \A i \in DOMAIN Listeners : i > cursor => consumed \notin ToSet(sent[Listeners[i]])

(* Unless somebody is unregistered, whom the loop has not reached stays    *)
(* ahead of it.                                                            *)
AudienceAhead ==
  Broadcasting /\ ~disturbed =>
    /\ attached
    /\ \A c \in audience :
         \/ consumed \in ToSet(sent[c])
         \/ \E i \in DOMAIN Listeners : i > cursor /\ Listeners[i] = c

FanoutInv ==
  /\ TypeOK /\ Known /\ InFlight /\ AheadUnsent /\ AudienceAhead
  /\ SentInOrderOnce /\ UndisturbedReachesAll /\ LeftIsForgotten

(* The parts that only say what a connection was sent.                     *)
LEMMA SentFacts ==
  ASSUME TypeOK
  PROVE  /\ \A c \in Sockets : ToSet(sent[c]) \subseteq 1..consumed
         /\ \A c \in Sockets, n \in Nat : Contains(sent[c], n) <=> n \in ToSet(sent[c])
<1>1. \A c \in Sockets : sent[c] \in Seq(1..consumed)
  BY DEF TypeOK
<1>2. ASSUME NEW c \in Sockets PROVE ToSet(sent[c]) \subseteq 1..consumed
  BY <1>1, MembersOfSeq
<1>3. ASSUME NEW c \in Sockets, NEW n \in Nat
      PROVE  Contains(sent[c], n) <=> n \in ToSet(sent[c])
  BY <1>1, ContainsSet
<1> QED BY <1>2, <1>3

LEMMA ProduceInv ==
  ASSUME FanoutInv, NEW s \in Symbols \cup {None}, Produce(s)
  PROVE  FanoutInv'
<1> USE DEF taskVars, historyVars
<1>1. /\ topic' \in Seq(Symbols \cup {None}) /\ Len(topic') = Len(topic) + 1
      /\ \A i \in 1..Len(topic) : topic'[i] = topic[i]
  <2>1. topic \in Seq(Symbols \cup {None}) /\ topic' = Append(topic, s)
    BY DEF FanoutInv, TypeOK, Produce
  <2> QED BY <2>1, AppendProperties
<1>2. Len(topic) \in Nat /\ Len(topic) < MaxMessages /\ consumed \in 0..Len(topic)
  BY LenProperties DEF FanoutInv, TypeOK, Produce
<1>3. TypeOK'
  <2>1. Len(topic') <= MaxMessages /\ consumed \in 0..Len(topic')
    BY <1>1, <1>2, FanoutAssumption
  <2> QED BY <1>1, <2>1 DEF FanoutInv, TypeOK, Produce, Registered
<1>4. Broadcasting => /\ consumed \in 1..Len(topic)
                      /\ consumed \in 1..Len(topic')
                      /\ topic'[consumed] = topic[consumed]
  BY <1>1, <1>2 DEF FanoutInv, InFlight
<1>5. InFlight' /\ AheadUnsent' /\ AudienceAhead'
  <2>1. /\ Broadcasting' = Broadcasting
        /\ Broadcasting => Listeners' = Listeners
    BY <1>4 DEF Produce, Broadcasting, Listeners
  <2> QED BY <1>4, <2>1 DEF FanoutInv, InFlight, AheadUnsent, AudienceAhead, Produce
<1>6. Known' /\ SentInOrderOnce' /\ UndisturbedReachesAll' /\ LeftIsForgotten'
  BY DEF FanoutInv, Known, SentInOrderOnce, UndisturbedReachesAll, LeftIsForgotten, Produce,
         Registered, Broadcasting
<1> QED BY <1>3, <1>5, <1>6 DEF FanoutInv

(* Closing and breaking change a state that no list depends on.            *)
LEMMA CloseInv ==
  ASSUME FanoutInv, NEW c \in Sockets, Close(c) \/ Breaks(c)
  PROVE  FanoutInv'
<1>1. /\ UNCHANGED <<topic, consumed, active, symbolOf, taskVars, historyVars>>
      /\ state \in [Sockets -> States] /\ state' \in [Sockets -> States]
      /\ \A d \in Sockets : (state'[d] = "new" <=> state[d] = "new")
                          /\ (state'[d] = "left" <=> state[d] = "left")
  BY DEF Close, Breaks, FanoutInv, TypeOK, States
<1>2. TypeOK' /\ Known' /\ LeftIsForgotten'
  BY <1>1 DEF FanoutInv, TypeOK, Known, LeftIsForgotten, Registered, taskVars, historyVars
<1>3. InFlight' /\ AheadUnsent' /\ AudienceAhead' /\ SentInOrderOnce' /\ UndisturbedReachesAll'
  BY <1>1 DEF FanoutInv, InFlight, AheadUnsent, AudienceAhead, SentInOrderOnce,
              UndisturbedReachesAll, Broadcasting, Listeners, taskVars, historyVars
<1> QED BY <1>2, <1>3 DEF FanoutInv

(* A connection joins its list at the end, ahead of the loop, and has been *)
(* sent nothing yet.                                                       *)
LEMMA ConnectInv ==
  ASSUME FanoutInv, NEW c \in Sockets, NEW s \in Symbols, Connect(c, s)
  PROVE  FanoutInv'
<1> DEFINE joined == Append(active[s], c)
<1>1. /\ UNCHANGED <<topic, consumed, taskVars, historyVars>>
      /\ state[c] = "new" /\ state' = [state EXCEPT ![c] = "open"]
      /\ symbolOf' = [symbolOf EXCEPT ![c] = s]
      /\ active' = [active EXCEPT ![s] = joined]
  BY DEF Connect, Enlist
<1>2. /\ active \in [Symbols -> Seq(Sockets)] /\ \A r \in Symbols : IsInjective(active[r])
      /\ state \in [Sockets -> States] /\ symbolOf \in [Sockets -> Symbols \cup {None}]
  BY DEF FanoutInv, TypeOK
<1>3. sent[c] = <<>> /\ \A r \in Symbols : c \notin ToSet(active[r])
  BY <1>1 DEF FanoutInv, Known, Registered
<1>4. /\ joined \in Seq(Sockets) /\ IsInjective(joined)
      /\ DOMAIN joined = 1..(Len(active[s]) + 1)
      /\ \A i \in DOMAIN active[s] : i \in DOMAIN joined /\ joined[i] = active[s][i]
      /\ joined[Len(active[s]) + 1] = c
      /\ ToSet(joined) = ToSet(active[s]) \cup {c}
  BY <1>2, <1>3, AppendFacts, AppendKeepsInjective
<1>5. \A i \in DOMAIN joined : (i \in DOMAIN active[s] /\ joined[i] = active[s][i]) \/ joined[i] = c
  <2>1. DOMAIN active[s] = 1..Len(active[s]) /\ Len(active[s]) \in Nat
    BY <1>2, LenProperties
  <2>2. \A i \in 1..(Len(active[s]) + 1) : i \in 1..Len(active[s]) \/ i = Len(active[s]) + 1
    BY <2>1
  <2> QED BY <1>4, <2>1, <2>2
<1> HIDE DEF joined
<1>6. /\ active' \in [Symbols -> Seq(Sockets)]
      /\ active'[s] = joined /\ \A r \in Symbols \ {s} : active'[r] = active[r]
  BY <1>1, <1>2, <1>4
<1>7. /\ \A r \in Symbols : IsInjective(active'[r])
      /\ \A r \in Symbols, d \in Sockets :
           d \in ToSet(active'[r]) <=> d \in ToSet(active[r]) \/ (r = s /\ d = c)
  BY <1>2, <1>4, <1>6
<1>8. TypeOK'
  <2>1. \A r \in Symbols : \A d \in ToSet(active[r]) : d \in Sockets /\ symbolOf[d] = r
    <3>1. \A r \in Symbols : ToSet(active[r]) \subseteq Sockets
      BY <1>2, MembersOfSeq
    <3> QED BY <3>1 DEF FanoutInv, TypeOK, Registered
  <2>2. \A r \in Symbols : \A d \in ToSet(active'[r]) : symbolOf'[d] = r
    <3>1. \A r \in Symbols : ToSet(active'[r]) \subseteq Sockets
      BY <1>6, MembersOfSeq
    <3>2. symbolOf'[c] = s /\ \A d \in Sockets \ {c} : symbolOf'[d] = symbolOf[d]
      BY <1>1, <1>2
    <3>3. \A r \in Symbols : \A d \in ToSet(active[r]) : d # c
      BY <1>3
    <3> QED BY <1>7, <2>1, <3>1, <3>2, <3>3
  <2>3. state' \in [Sockets -> States] /\ symbolOf' \in [Sockets -> Symbols \cup {None}]
    BY <1>1, <1>2 DEF States
  <2> QED BY <1>1, <1>6, <1>7, <2>2, <2>3 DEF FanoutInv, TypeOK, Registered, taskVars, historyVars
<1>9. Known'
  <2>1. state'[c] = "open" /\ symbolOf'[c] = s
    BY <1>1, <1>2
  <2>2. ASSUME NEW d \in Sockets, d # c
        PROVE  state'[d] = state[d] /\ symbolOf'[d] = symbolOf[d] /\ sent'[d] = sent[d]
    BY <1>1, <1>2, <2>2 DEF historyVars
  <2> QED BY <1>7, <2>1, <2>2 DEF FanoutInv, Known, Registered
<1>10. LeftIsForgotten'
  <2>1. state'[c] = "open" /\ \A d \in Sockets \ {c} : state'[d] = state[d]
    BY <1>1, <1>2
  <2> QED BY <1>7, <2>1 DEF FanoutInv, LeftIsForgotten, Registered
<1>11. InFlight' /\ SentInOrderOnce' /\ UndisturbedReachesAll'
  BY <1>1 DEF FanoutInv, InFlight, SentInOrderOnce, UndisturbedReachesAll, Broadcasting,
              taskVars, historyVars
<1>12. ASSUME Broadcasting
       PROVE  /\ \A i \in DOMAIN Listeners : i \in DOMAIN Listeners' /\ Listeners'[i] = Listeners[i]
              /\ \A i \in DOMAIN Listeners' :
                   (i \in DOMAIN Listeners /\ Listeners'[i] = Listeners[i]) \/ Listeners'[i] = c
  <2>1. topic' = topic /\ consumed' = consumed /\ topic[consumed] \in Symbols
    BY <1>1, <1>12 DEF FanoutInv, InFlight
  <2>2. CASE topic[consumed] = s
    BY <1>4, <1>5, <1>6, <2>1, <2>2 DEF Listeners
  <2>3. CASE topic[consumed] # s
    BY <1>6, <2>1, <2>3 DEF Listeners
  <2> QED BY <2>2, <2>3
<1>13. AheadUnsent'
  <2>1. consumed \notin ToSet(sent[c])
    BY <1>3 DEF ToSet
  <2> QED BY <1>1, <1>12, <2>1 DEF FanoutInv, AheadUnsent, Broadcasting, taskVars, historyVars
<1>14. AudienceAhead'
  BY <1>1, <1>12 DEF FanoutInv, AudienceAhead, Broadcasting, taskVars, historyVars
<1> QED BY <1>8, <1>9, <1>10, <1>11, <1>13, <1>14 DEF FanoutInv

(* A connection that leaves moves the entries behind it one place towards  *)
(* the loop, never ahead of it; it may lose one of them, and is recorded.  *)
LEMMA LeaveInv ==
  ASSUME FanoutInv, NEW c \in Sockets, Leave(c)
  PROVE  FanoutInv'
<1> DEFINE s == symbolOf[c]
           rest == Without(active[s], c)
           disturbs == Broadcasting /\ attached /\ topic[consumed] = s /\ c \in Registered(s)
<1>1. /\ UNCHANGED <<topic, consumed, symbolOf, sending, cursor, dead, sent, audience>>
      /\ state[c] = "closed" /\ state' = [state EXCEPT ![c] = "left"]
      /\ active' = [active EXCEPT ![s] = rest]
      /\ disturbs => disturbed' = TRUE /\ attached' = (active'[s] # <<>>)
      /\ ~disturbs => disturbed' = disturbed /\ attached' = attached
  BY DEF Leave
<1>2. /\ active \in [Symbols -> Seq(Sockets)] /\ \A r \in Symbols : IsInjective(active[r])
      /\ state \in [Sockets -> States] /\ symbolOf \in [Sockets -> Symbols \cup {None}]
      /\ disturbed \in BOOLEAN /\ attached \in BOOLEAN
  BY DEF FanoutInv, TypeOK
<1>3. s \in Symbols
  BY <1>1 DEF FanoutInv, Known
<1>4. /\ rest \in Seq(Sockets) /\ IsInjective(rest) /\ ToSet(rest) = ToSet(active[s]) \ {c}
      /\ \A i \in DOMAIN rest : \E j \in DOMAIN active[s] : j >= i /\ active[s][j] = rest[i]
  BY <1>2, <1>3, WithoutFacts
<1>5. c \notin Registered(s) => rest = active[s]
  BY DEF Without, Registered
<1> HIDE DEF rest, s
<1>6. /\ active' \in [Symbols -> Seq(Sockets)]
      /\ active'[s] = rest /\ \A r \in Symbols \ {s} : active'[r] = active[r]
  BY <1>1, <1>2, <1>3, <1>4
<1>7. /\ \A r \in Symbols : IsInjective(active'[r])
      /\ \A r \in Symbols : \A d \in ToSet(active'[r]) : d \in ToSet(active[r])
      /\ c \notin ToSet(active'[s])
  BY <1>2, <1>4, <1>6
<1>8. attached' \in BOOLEAN /\ disturbed' \in BOOLEAN /\ (attached' => attached)
  <2>1. CASE disturbs
    BY <1>1, <1>2, <2>1
  <2>2. CASE ~disturbs
    BY <1>1, <1>2, <2>2
  <2> QED BY <2>1, <2>2
<1>9. TypeOK'
  <2>1. state' \in [Sockets -> States]
    BY <1>1, <1>2 DEF States
  <2>2. \A r \in Symbols : \A d \in Registered(r)' : symbolOf'[d] = r
    BY <1>1, <1>7 DEF FanoutInv, TypeOK, Registered
  <2> QED BY <1>1, <1>6, <1>7, <1>8, <2>1, <2>2 DEF FanoutInv, TypeOK
<1>10. state'[c] = "left" /\ \A d \in Sockets \ {c} : state'[d] = state[d]
  BY <1>1, <1>2
<1>11. Known'
  BY <1>1, <1>3, <1>7, <1>10 DEF FanoutInv, Known, Registered, s
<1>12. LeftIsForgotten'
  <2>1. ASSUME NEW r \in Symbols PROVE c \notin ToSet(active'[r])
    <3>1. c \in ToSet(active[r]) => r = s
      BY DEF FanoutInv, TypeOK, Registered, s
    <3> QED BY <1>7, <3>1
  <2> QED BY <1>7, <1>10, <2>1 DEF FanoutInv, LeftIsForgotten, Registered
<1>13. InFlight' /\ SentInOrderOnce'
  BY <1>1 DEF FanoutInv, InFlight, SentInOrderOnce, Broadcasting
<1>14. UndisturbedReachesAll'
  BY <1>1 DEF FanoutInv, UndisturbedReachesAll, Broadcasting
<1>15. ASSUME Broadcasting PROVE topic[consumed] \in Symbols /\ cursor \in Nat
  BY <1>15 DEF FanoutInv, InFlight, TypeOK
<1>16. AheadUnsent'
  <2> SUFFICES ASSUME Broadcasting', attached', NEW i \in DOMAIN Listeners', i > cursor
               PROVE  consumed \notin ToSet(sent[Listeners'[i]])
    BY <1>1 DEF AheadUnsent, Broadcasting
  <2>1. Broadcasting /\ attached /\ Listeners' = active'[topic[consumed]]
    BY <1>1, <1>8 DEF Broadcasting, Listeners
  <2>2. PICK j \in DOMAIN Listeners : j > cursor /\ Listeners[j] = Listeners'[i]
    <3>1. CASE topic[consumed] = s
      <4>1. PICK j \in DOMAIN active[s] : j >= i /\ active[s][j] = rest[i]
        BY <1>4, <1>6, <2>1, <3>1
      <4>2. DOMAIN active[s] = 1..Len(active[s]) /\ DOMAIN rest = 1..Len(rest) /\ cursor \in Nat
            /\ Len(active[s]) \in Nat /\ Len(rest) \in Nat
        BY <1>2, <1>3, <1>4, <1>15, <2>1, LenProperties
      <4>3. i \in DOMAIN rest
        BY <1>6, <2>1, <3>1
      <4>4. j > cursor
        BY <4>1, <4>2, <4>3
      <4> QED BY <1>6, <2>1, <3>1, <4>1, <4>4 DEF Listeners
    <3>2. CASE topic[consumed] # s
      BY <1>6, <1>15, <2>1, <3>2 DEF Listeners
    <3> QED BY <3>1, <3>2
  <2> QED BY <2>1, <2>2 DEF FanoutInv, AheadUnsent
<1>17. AudienceAhead'
  <2> SUFFICES ASSUME Broadcasting', ~disturbed'
               PROVE  AudienceAhead'
    BY DEF AudienceAhead
  <2>1. Broadcasting /\ ~disturbs /\ disturbed' = disturbed /\ attached' = attached
    BY <1>1 DEF Broadcasting
  <2>2. attached
    BY <2>1 DEF FanoutInv, AudienceAhead
  <2>3. Listeners' = Listeners
    <3>1. CASE topic[consumed] = s
      BY <1>1, <1>5, <1>6, <2>1, <2>2, <3>1 DEF Listeners
    <3>2. CASE topic[consumed] # s
      BY <1>1, <1>6, <1>15, <2>1, <3>2 DEF Listeners
    <3> QED BY <3>1, <3>2
  <2> QED BY <1>1, <2>1, <2>3 DEF FanoutInv, AudienceAhead, Broadcasting
<1> QED BY <1>9, <1>11, <1>12, <1>13, <1>14, <1>16, <1>17 DEF FanoutInv

-------------------------------------------------------------------------------
(* The task.                                                               *)

(* A connection that is picked for a message it was not sent.              *)
LEMMA PickFacts ==
  ASSUME TypeOK, SentInOrderOnce, NEW c \in Sockets, NEW n \in Nat \ {0}, consumed <= n,
         n \notin ToSet(sent[c]), Pick(c, n)
  PROVE  /\ sending' = c
         /\ sent' \in [Sockets -> Seq(1..n)]
         /\ ToSet(sent'[c]) = ToSet(sent[c]) \cup {n}
         /\ \A d \in Sockets \ {c} : sent'[d] = sent[d]
         /\ SentInOrderOnce'
<1>1. sending' = c /\ sent' = [sent EXCEPT ![c] = Append(sent[c], n)]
  BY DEF Pick
<1>2. consumed \in Nat /\ sent \in [Sockets -> Seq(1..consumed)]
  <2>1. topic \in Seq(Symbols \cup {None}) /\ consumed \in 0..Len(topic)
    BY DEF TypeOK
  <2> QED BY <2>1, LenProperties DEF TypeOK
<1>3. \A d \in Sockets : sent[d] \in Seq(1..n) /\ ToSet(sent[d]) \subseteq 1..consumed
  <2>1. 1..consumed \subseteq 1..n
    BY <1>2
  <2>2. \A d \in Sockets : sent[d] \in Seq(1..consumed)
    BY <1>2
  <2>3. \A q \in Seq(1..consumed) : q \in Seq(1..n)
    BY <2>1, SeqMonotonic
  <2> QED BY <2>2, <2>3, MembersOfSeq
<1>4. /\ Append(sent[c], n) \in Seq(1..n)
      /\ DOMAIN Append(sent[c], n) = 1..(Len(sent[c]) + 1)
      /\ \A i \in DOMAIN sent[c] : Append(sent[c], n)[i] = sent[c][i]
      /\ Append(sent[c], n)[Len(sent[c]) + 1] = n
      /\ ToSet(Append(sent[c], n)) = ToSet(sent[c]) \cup {n}
  <2>1. n \in 1..n
    OBVIOUS
  <2> QED BY <1>3, <2>1, AppendFacts
<1>5. /\ sent' \in [Sockets -> Seq(1..n)]
      /\ sent'[c] = Append(sent[c], n)
      /\ \A d \in Sockets \ {c} : sent'[d] = sent[d]
  BY <1>1, <1>2, <1>3, <1>4
<1>6. ASSUME NEW i \in DOMAIN sent'[c], NEW j \in DOMAIN sent'[c], i < j
      PROVE  sent'[c][i] < sent'[c][j]
  <2>1. DOMAIN sent[c] = 1..Len(sent[c]) /\ Len(sent[c]) \in Nat
    BY <1>3, LenProperties
  <2>2. i \in DOMAIN sent[c]
    BY <1>4, <1>5, <1>6, <2>1
  <2>3. sent[c][i] \in 1..consumed /\ sent[c][i] # n
    BY <1>3, <2>2 DEF ToSet
  <2>4. CASE j \in DOMAIN sent[c]
    BY <1>4, <1>5, <1>6, <2>2, <2>4 DEF SentInOrderOnce
  <2>5. CASE j \notin DOMAIN sent[c]
    <3>1. j = Len(sent[c]) + 1
      BY <1>4, <1>5, <2>1, <2>5
    <3>2. sent'[c][i] = sent[c][i] /\ sent'[c][j] = n
      BY <1>4, <1>5, <2>2, <3>1
    <3> QED BY <1>2, <2>3, <3>2
  <2> QED BY <2>4, <2>5
<1>7. SentInOrderOnce'
  BY <1>5, <1>6 DEF SentInOrderOnce
<1> QED BY <1>1, <1>4, <1>5, <1>7

LEMMA TakeInv ==
  ASSUME FanoutInv, Take
  PROVE  FanoutInv'
<1> DEFINE n == consumed + 1
           s == topic[n]
           list == IF s = None THEN <<>> ELSE active[s]
<1>1. /\ ~Broadcasting /\ consumed < Len(topic) /\ consumed' = n
      /\ IF list = <<>> THEN sending' = sending /\ sent' = sent ELSE Pick(list[1], n)
      /\ audience' = ToSet(list)
      /\ cursor' = 1 /\ attached' = TRUE /\ dead' = <<>> /\ disturbed' = FALSE
      /\ UNCHANGED <<topic, active, state, symbolOf>>
  BY DEF Take
<1>2. /\ topic \in Seq(Symbols \cup {None}) /\ consumed \in 0..Len(topic)
      /\ active \in [Symbols -> Seq(Sockets)] /\ \A r \in Symbols : IsInjective(active[r])
      /\ sent \in [Sockets -> Seq(1..consumed)]
  BY DEF FanoutInv, TypeOK
<1>3. /\ consumed \in Nat /\ Len(topic) \in Nat /\ n \in Nat \ {0} /\ consumed <= n
      /\ n \in 1..Len(topic) /\ n \in 0..Len(topic) /\ n \notin 1..consumed
      /\ 1..consumed \subseteq 1..n
  BY <1>1, <1>2, LenProperties
<1>4. s \in Symbols \cup {None}
  BY <1>2, <1>3, ElementOfSeq
<1>5. list \in Seq(Sockets) /\ IsInjective(list) /\ ToSet(list) \subseteq Sockets
  <2>1. <<>> \in Seq(Sockets) /\ IsInjective(<<>>)
    BY DEF IsInjective
  <2> QED BY <1>2, <1>4, <2>1, MembersOfSeq
<1>6. list # <<>> => s \in Symbols /\ list = active[s]
  BY <1>4
<1> HIDE DEF n, s, list
<1>7. <<>> \in Seq(Sockets) /\ IsInjective(<<>>) /\ ToSet(<<>>) = {}
  BY DEF IsInjective, ToSet
<1>8. \A d \in Sockets : ToSet(sent[d]) \subseteq 1..consumed
  BY SentFacts DEF FanoutInv
<1>9. ASSUME sending' \in Sockets \cup {None}, sent' \in [Sockets -> Seq(1..n)]
      PROVE  TypeOK'
  BY <1>1, <1>3, <1>5, <1>7, <1>9 DEF FanoutInv, TypeOK, Registered
<1>10. LeftIsForgotten'
  BY <1>1 DEF FanoutInv, LeftIsForgotten, Registered
<1>11. CASE list = <<>>
  <2>1. sending' = sending /\ sent' = sent /\ sending = None
    BY <1>1, <1>11 DEF Broadcasting
  <2>2. sent \in [Sockets -> Seq(1..n)]
    <3>1. \A d \in Sockets : sent[d] \in Seq(1..n)
      BY <1>2, <1>3, SeqMonotonic
    <3> QED BY <1>2, <3>1
  <2>3. TypeOK'
    BY <1>9, <2>1, <2>2
  <2>4. ~Broadcasting' /\ audience' = {}
    BY <1>1, <1>7, <1>11, <2>1 DEF Broadcasting
  <2>5. InFlight' /\ AheadUnsent' /\ AudienceAhead' /\ UndisturbedReachesAll'
    BY <2>4 DEF InFlight, AheadUnsent, AudienceAhead, UndisturbedReachesAll
  <2>6. Known' /\ SentInOrderOnce'
    BY <1>1, <2>1 DEF FanoutInv, Known, SentInOrderOnce, Registered
  <2> QED BY <1>10, <2>3, <2>5, <2>6 DEF FanoutInv
<1>12. CASE list # <<>>
  <2> DEFINE c == list[1]
  <2>1. /\ s \in Symbols /\ list = active[s] /\ 1 \in DOMAIN list
        /\ DOMAIN list = 1..Len(list) /\ Len(list) \in Nat
    BY <1>5, <1>6, <1>12, EmptySeq, LenProperties
  <2>2. c \in Sockets /\ c \in ToSet(active[s])
    BY <1>5, <2>1 DEF ToSet
  <2>3. \A i \in DOMAIN list : i > 1 => list[i] # c /\ list[i] \in Sockets
    BY <1>5, <2>1 DEF IsInjective, ToSet
  <2>4. Pick(c, n)
    BY <1>1, <1>12
  <2> HIDE DEF c
  <2>5. /\ sending' = c /\ sent' \in [Sockets -> Seq(1..n)]
        /\ ToSet(sent'[c]) = ToSet(sent[c]) \cup {n}
        /\ \A d \in Sockets \ {c} : sent'[d] = sent[d]
        /\ SentInOrderOnce'
    <3>1. n \notin ToSet(sent[c])
      BY <1>3, <1>8, <2>2
    <3> QED BY <1>3, <2>2, <2>4, <3>1, PickFacts DEF FanoutInv
  <2>6. TypeOK'
    BY <1>9, <2>2, <2>5
  <2>7. Broadcasting' /\ UndisturbedReachesAll'
    BY <2>2, <2>5, FanoutAssumption DEF Broadcasting, UndisturbedReachesAll
  <2>8. Listeners' = list
    BY <1>1, <2>1 DEF Listeners, s
  <2>9. InFlight'
    BY <1>1, <1>3, <1>7, <2>1, <2>5 DEF InFlight, s
  <2>10. AheadUnsent'
    <3>1. \A i \in DOMAIN list : i > 1 => n \notin ToSet(sent'[list[i]])
      BY <1>3, <1>8, <2>3, <2>5
    <3> QED BY <1>1, <2>8, <3>1 DEF AheadUnsent
  <2>11. AudienceAhead'
    <3>1. ASSUME NEW d \in ToSet(list)
          PROVE  n \in ToSet(sent'[d]) \/ \E i \in DOMAIN list : i > 1 /\ list[i] = d
      <4>1. PICK i \in DOMAIN list : list[i] = d
        BY DEF ToSet
      <4>2. i = 1 \/ i > 1
        BY <2>1
      <4> QED BY <2>5, <4>1, <4>2 DEF c
    <3> QED BY <1>1, <2>8, <3>1 DEF AudienceAhead
  <2>12. Known'
    <3>1. \A d \in Sockets : state[d] = "new" => d # c
      BY <2>1, <2>2 DEF FanoutInv, Known, Registered
    <3> QED BY <1>1, <2>5, <3>1 DEF FanoutInv, Known, Registered
  <2> QED BY <1>10, <2>5, <2>6, <2>7, <2>9, <2>10, <2>11, <2>12 DEF FanoutInv
<1> QED BY <1>11, <1>12

(* The loop goes on to the connection at the next index.                   *)
LEMMA NextSendInv ==
  ASSUME FanoutInv, Broadcasting, attached, NextIndex <= Len(Listeners),
         NEW lost \in {dead, Append(dead, sending)},
         Pick(Listeners[NextIndex], consumed), cursor' = NextIndex, dead' = lost,
         UNCHANGED <<active, topic, consumed, state, symbolOf, attached, audience, disturbed>>
  PROVE  FanoutInv'
<1> USE DEF NextIndex
<1> DEFINE s == topic[consumed]
           c == Listeners[cursor + 1]
<1>1. /\ consumed \in 1..Len(topic) /\ s \in Symbols /\ cursor > 0
      /\ consumed \in ToSet(sent[sending]) /\ sending \notin ToSet(dead)
      /\ \A d \in ToSet(dead) : consumed \in ToSet(sent[d])
  BY DEF FanoutInv, InFlight
<1>2. /\ active \in [Symbols -> Seq(Sockets)] /\ \A r \in Symbols : IsInjective(active[r])
      /\ sending \in Sockets /\ cursor \in Nat /\ dead \in Seq(Sockets) /\ IsInjective(dead)
      /\ topic \in Seq(Symbols \cup {None})
  BY DEF FanoutInv, TypeOK, Broadcasting
<1>3. Listeners \in Seq(Sockets) /\ IsInjective(Listeners)
  BY <1>1, <1>2 DEF Listeners
<1>4. /\ DOMAIN Listeners = 1..Len(Listeners) /\ Len(Listeners) \in Nat
      /\ cursor + 1 \in DOMAIN Listeners
  <2>1. DOMAIN Listeners = 1..Len(Listeners) /\ Len(Listeners) \in Nat
    BY <1>3, LenProperties
  <2> QED BY <1>2, <2>1
<1>5. c \in Sockets /\ c \in ToSet(Listeners)
  BY <1>3, <1>4, MembersOfSeq DEF ToSet
<1>6. \A i \in DOMAIN Listeners : i > cursor + 1 => Listeners[i] # c /\ Listeners[i] \in Sockets
  BY <1>2, <1>3, <1>4 DEF IsInjective
<1>7. consumed \notin ToSet(sent[c])
  BY <1>2, <1>4 DEF FanoutInv, AheadUnsent
<1> HIDE DEF c
<1>8. /\ sending' = c /\ sent' \in [Sockets -> Seq(1..consumed)]
      /\ ToSet(sent'[c]) = ToSet(sent[c]) \cup {consumed}
      /\ \A d \in Sockets \ {c} : sent'[d] = sent[d]
      /\ SentInOrderOnce'
  <2>1. consumed \in Nat \ {0} /\ consumed <= consumed
    BY <1>1, <1>2, LenProperties
  <2>2. Pick(c, consumed)
    BY DEF c
  <2> QED BY <1>5, <1>7, <2>1, <2>2, PickFacts DEF FanoutInv
<1>9. /\ lost \in Seq(Sockets) /\ IsInjective(lost)
      /\ \A d \in ToSet(lost) : d \in Sockets /\ consumed \in ToSet(sent[d])
  <2>1. CASE lost = dead
    BY <1>1, <1>2, <2>1, MembersOfSeq
  <2>2. CASE lost = Append(dead, sending)
    <3>1. /\ Append(dead, sending) \in Seq(Sockets)
          /\ ToSet(Append(dead, sending)) = ToSet(dead) \cup {sending}
      BY <1>2, AppendFacts
    <3>2. IsInjective(Append(dead, sending))
      BY <1>1, <1>2, AppendKeepsInjective
    <3> QED BY <1>1, <1>2, <2>2, <3>1, <3>2, MembersOfSeq
  <2> QED BY <2>1, <2>2
<1>10. TypeOK'
  BY <1>2, <1>5, <1>8, <1>9 DEF FanoutInv, TypeOK, Registered
<1>11. /\ Broadcasting' /\ UndisturbedReachesAll'
       /\ Listeners' = Listeners
  BY <1>5, <1>8, FanoutAssumption DEF Broadcasting, UndisturbedReachesAll, Listeners
<1>12. InFlight'
  <2>1. c \notin ToSet(lost)
    BY <1>7, <1>9
  <2>2. \A d \in ToSet(lost) : consumed \in ToSet(sent'[d])
    BY <1>8, <1>9, <2>1
  <2>3. cursor + 1 > 0
    BY <1>2
  <2> QED BY <1>1, <1>8, <2>1, <2>2, <2>3 DEF InFlight
<1>13. AheadUnsent'
  <2>1. \A i \in DOMAIN Listeners : i > cursor + 1 => i > cursor
    BY <1>2, <1>4
  <2>2. \A i \in DOMAIN Listeners : i > cursor + 1 => consumed \notin ToSet(sent'[Listeners[i]])
    BY <1>6, <1>8, <2>1 DEF FanoutInv, AheadUnsent
  <2> QED BY <1>11, <2>2 DEF AheadUnsent
<1>14. AudienceAhead'
  <2>1. ASSUME ~disturbed, NEW d \in audience
        PROVE  \/ consumed \in ToSet(sent'[d])
               \/ \E i \in DOMAIN Listeners : i > cursor + 1 /\ Listeners[i] = d
    <3>1. d \in Sockets
      BY DEF FanoutInv, TypeOK
    <3>2. CASE consumed \in ToSet(sent[d])
      BY <1>8, <3>1, <3>2
    <3>3. CASE consumed \notin ToSet(sent[d])
      <4>1. PICK i \in DOMAIN Listeners : i > cursor /\ Listeners[i] = d
        BY <2>1, <3>3 DEF FanoutInv, AudienceAhead
      <4>2. i = cursor + 1 \/ i > cursor + 1
        BY <1>2, <1>4, <4>1
      <4> QED BY <1>8, <4>1, <4>2 DEF c
    <3> QED BY <3>2, <3>3
  <2> QED BY <1>11, <2>1 DEF AudienceAhead
<1>15. Known'
  <2>1. \A d \in Sockets : state[d] = "new" => d # c
    BY <1>1, <1>5 DEF FanoutInv, Known, Registered, Listeners
  <2> QED BY <1>8, <2>1 DEF FanoutInv, Known, Registered
<1>16. LeftIsForgotten'
  BY DEF FanoutInv, LeftIsForgotten, Registered
<1> QED BY <1>8, <1>10, <1>11, <1>12, <1>13, <1>14, <1>15, <1>16 DEF FanoutInv

(* The loop has passed the end of its list.                                *)
LEMMA LastSendInv ==
  ASSUME FanoutInv, Broadcasting, NEW lost \in {dead, Append(dead, sending)},
         ~(NextIndex <= Len(IF attached THEN Listeners ELSE <<>>)),
         sending' = None, dead' = <<>>,
         active' = [active EXCEPT ![topic[consumed]] = Pruned(Listeners, lost)],
         UNCHANGED <<sent, cursor, topic, consumed, state, symbolOf, attached, audience, disturbed>>
  PROVE  FanoutInv'
<1> USE DEF NextIndex
<1> DEFINE s == topic[consumed]
           rest == Pruned(Listeners, lost)
<1>1. /\ active \in [Symbols -> Seq(Sockets)] /\ \A r \in Symbols : IsInjective(active[r])
      /\ sending \in Sockets /\ cursor \in Nat /\ dead \in Seq(Sockets)
  BY DEF FanoutInv, TypeOK, Broadcasting
<1>2. s \in Symbols /\ Listeners = active[s]
  BY DEF FanoutInv, InFlight, Listeners
<1>3. rest \in Seq(Sockets) /\ IsInjective(rest) /\ ToSet(rest) \subseteq ToSet(active[s])
  <2>1. lost \in Seq(Sockets)
    BY <1>1, AppendProperties
  <2> QED BY <1>1, <1>2, <2>1, PrunedFacts
<1> HIDE DEF rest
<1>4. /\ active' \in [Symbols -> Seq(Sockets)]
      /\ \A r \in Symbols : IsInjective(active'[r]) /\ ToSet(active'[r]) \subseteq ToSet(active[r])
  BY <1>1, <1>2, <1>3 DEF rest
<1>5. TypeOK'
  <2>1. <<>> \in Seq(Sockets) /\ IsInjective(<<>>)
    BY DEF IsInjective
  <2> QED BY <1>4, <2>1 DEF FanoutInv, TypeOK, Registered
<1>6. Known' /\ LeftIsForgotten' /\ SentInOrderOnce'
  BY <1>4 DEF FanoutInv, Known, LeftIsForgotten, SentInOrderOnce, Registered
<1>7. InFlight' /\ AheadUnsent' /\ AudienceAhead'
  BY DEF InFlight, AheadUnsent, AudienceAhead, Broadcasting
<1>8. UndisturbedReachesAll'
  <2> SUFFICES ASSUME ~disturbed, NEW c \in audience
               PROVE  Contains(sent[c], consumed)
    BY DEF UndisturbedReachesAll
  <2>1. attached /\ \/ consumed \in ToSet(sent[c])
                    \/ \E i \in DOMAIN Listeners : i > cursor
    BY DEF FanoutInv, AudienceAhead
  <2>2. ~(\E i \in DOMAIN Listeners : i > cursor)
    <3>1. DOMAIN Listeners = 1..Len(Listeners) /\ Len(Listeners) \in Nat
      BY <1>1, <1>2, LenProperties
    <3>2. ~(cursor + 1 <= Len(Listeners))
      BY <2>1
    <3> QED BY <1>1, <3>1, <3>2
  <2>3. c \in Sockets /\ consumed \in Nat
    BY LenProperties DEF FanoutInv, TypeOK
  <2> QED BY <2>1, <2>2, <2>3, SentFacts DEF FanoutInv
<1> QED BY <1>5, <1>6, <1>7, <1>8 DEF FanoutInv

LEMMA SendEndsInv ==
  ASSUME FanoutInv, SendEnds
  PROVE  FanoutInv'
<1> DEFINE list == IF attached THEN Listeners ELSE <<>>
<1>1. PICK failed \in Outcomes(sending) :
        LET lost == IF failed THEN Append(dead, sending) ELSE dead
        IN IF GoesOn(list, failed)
             THEN /\ Pick(list[NextIndex], consumed)
                  /\ cursor' = NextIndex /\ dead' = lost /\ UNCHANGED active
             ELSE /\ sending' = None /\ dead' = <<>>
                  /\ active' = [active EXCEPT ![topic[consumed]] = Pruned(active[topic[consumed]], lost)]
                  /\ UNCHANGED <<sent, cursor>>
  BY DEF SendEnds, Listeners
<1>2. /\ Broadcasting
      /\ UNCHANGED <<topic, consumed, state, symbolOf, attached, audience, disturbed>>
  BY DEF SendEnds
<1> DEFINE lost == IF failed THEN Append(dead, sending) ELSE dead
<1>3. lost \in {dead, Append(dead, sending)}
  OBVIOUS
<1>4. CASE NextIndex <= Len(list)
  <2>1. attached
    <3>1. cursor \in Nat /\ cursor > 0
      BY <1>2 DEF FanoutInv, InFlight, TypeOK
    <3>2. Len(<<>>) = 0
      OBVIOUS
    <3> QED BY <1>4, <3>1, <3>2 DEF NextIndex
  <2>2. list = Listeners
    BY <2>1
  <2>3. Pick(Listeners[NextIndex], consumed) /\ cursor' = NextIndex /\ dead' = lost /\ UNCHANGED active
    BY <1>1, <1>4, <2>2 DEF GoesOn
  <2> HIDE DEF lost
  <2> QED BY <1>2, <1>3, <1>4, <2>1, <2>2, <2>3, NextSendInv
<1>5. CASE ~(NextIndex <= Len(list))
  <2>1. /\ sending' = None /\ dead' = <<>>
        /\ active' = [active EXCEPT ![topic[consumed]] = Pruned(Listeners, lost)]
        /\ UNCHANGED <<sent, cursor>>
    BY <1>1, <1>5 DEF GoesOn, Listeners
  <2> HIDE DEF lost
  <2> QED BY <1>2, <1>3, <1>5, <2>1, LastSendInv
<1> QED BY <1>4, <1>5

-------------------------------------------------------------------------------
(* The theorems.                                                           *)

LEMMA FanoutInit == Init => FanoutInv
<1> SUFFICES ASSUME Init PROVE FanoutInv
  OBVIOUS
<1>1. /\ <<>> \in Seq(Symbols \cup {None}) /\ <<>> \in Seq(Sockets) /\ <<>> \in Seq(1..0)
      /\ Len(<<>>) = 0 /\ 0 \in 0..0 /\ IsInjective(<<>>) /\ ToSet(<<>>) = {}
  BY DEF IsInjective, ToSet
<1>2. TypeOK
  <2>1. topic \in Seq(Symbols \cup {None}) /\ Len(topic) <= MaxMessages /\ consumed \in 0..Len(topic)
    BY <1>1, FanoutAssumption DEF Init
  <2>2. /\ active \in [Symbols -> Seq(Sockets)]
        /\ \A s \in Symbols : IsInjective(active[s]) /\ Registered(s) = {}
    BY <1>1 DEF Init, Registered
  <2>3. dead \in Seq(Sockets) /\ IsInjective(dead)
    BY <1>1 DEF Init
  <2>4. sent \in [Sockets -> Seq(1..consumed)]
    BY <1>1 DEF Init
  <2>5. /\ state \in [Sockets -> States] /\ symbolOf \in [Sockets -> Symbols \cup {None}]
        /\ sending \in Sockets \cup {None} /\ cursor \in Nat /\ attached \in BOOLEAN
        /\ audience \subseteq Sockets /\ disturbed \in BOOLEAN
    BY DEF Init, States
  <2> QED BY <2>1, <2>2, <2>3, <2>4, <2>5 DEF TypeOK
<1>3. SentInOrderOnce
  <2>1. \A c \in Sockets : sent[c] = <<>>
    BY DEF Init
  <2>2. DOMAIN <<>> = {}
    OBVIOUS
  <2> QED BY <2>1, <2>2 DEF SentInOrderOnce
<1>4. Known /\ UndisturbedReachesAll /\ LeftIsForgotten
  BY <1>1 DEF Init, Known, UndisturbedReachesAll, LeftIsForgotten, Registered
<1>5. InFlight /\ AheadUnsent /\ AudienceAhead
  BY DEF Init, InFlight, AheadUnsent, AudienceAhead, Broadcasting
<1> QED BY <1>2, <1>3, <1>4, <1>5 DEF FanoutInv

LEMMA FanoutStep == FanoutInv /\ [Next]_vars => FanoutInv'
<1> SUFFICES ASSUME FanoutInv, [Next]_vars PROVE FanoutInv'
  OBVIOUS
<1>1. ASSUME NEW s \in Symbols \cup {None}, Produce(s) PROVE FanoutInv'
  BY <1>1, ProduceInv
<1>2. ASSUME NEW c \in Sockets, Close(c) \/ Breaks(c) PROVE FanoutInv'
  BY <1>2, CloseInv
<1>3. ASSUME NEW c \in Sockets, Endpoint(c) PROVE FanoutInv'
  BY <1>3, ConnectInv, LeaveInv DEF Endpoint
<1>4. CASE Take
  BY <1>4, TakeInv
<1>5. CASE SendEnds
  BY <1>5, SendEndsInv
<1>6. CASE UNCHANGED vars
  BY <1>6 DEF vars, taskVars, historyVars, FanoutInv, TypeOK, Known, InFlight, AheadUnsent,
              AudienceAhead, SentInOrderOnce, UndisturbedReachesAll, LeftIsForgotten,
              Registered, Broadcasting, Listeners
<1> QED BY <1>1, <1>2, <1>3, <1>4, <1>5, <1>6 DEF Next, Task

(* What a broadcast may rely on, all of it.                                *)
THEOREM FanoutInvariant == Spec => []FanoutInv
BY FanoutInit, FanoutStep, PTL DEF Spec

(* The type invariant, which includes that no list of connections and no   *)
(* list of failures ever holds a connection twice.                         *)
THEOREM TypeCorrect == Spec => []TypeOK
<1>1. FanoutInv => TypeOK
  BY DEF FanoutInv
<1> QED BY <1>1, FanoutInvariant, PTL

(* Nobody is sent a message twice or out of order, whatever happens to the *)
(* list under the loop.                                                    *)
THEOREM SendsInOrderOnce == Spec => []SentInOrderOnce
<1>1. FanoutInv => SentInOrderOnce
  BY DEF FanoutInv
<1> QED BY <1>1, FanoutInvariant, PTL

(* A broadcast during which nobody was unregistered reached everybody who  *)
(* was registered when it began.                                           *)
THEOREM ReachesAllUndisturbed == Spec => []UndisturbedReachesAll
<1>1. FanoutInv => UndisturbedReachesAll
  BY DEF FanoutInv
<1> QED BY <1>1, FanoutInvariant, PTL

(* A connection whose endpoint has left is in no list.                     *)
THEOREM ForgetsTheLeft == Spec => []LeftIsForgotten
<1>1. FanoutInv => LeftIsForgotten
  BY DEF FanoutInv
<1> QED BY <1>1, FanoutInvariant, PTL

===============================================================================
