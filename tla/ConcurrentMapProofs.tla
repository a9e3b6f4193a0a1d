------------------------ MODULE ConcurrentMapProofs ------------------------
(***************************************************************************)
(* Proofs about ConcurrentMap, for any keys, values, shards, writers and   *)
(* calls.  The argument: an entry that a collector takes was in the map at *)
(* that moment, so it was there during the call; and a key that was there  *)
(* all the time is in its shard when the shard's collector gets there, and *)
(* goes from the collector to the channel to the result.  Keys, which does *)
(* not wait for its collectors, counts on its count: as long as no key     *)
(* comes or goes, the count is that of the keys, and each key is received  *)
(* once.                                                                   *)
(***************************************************************************)
EXTENDS ConcurrentMap, FiniteSetTheorems, TLAPS

\* The types of all but the numbers, whose bounds need the counting below.
MapType ==
  /\ items \in [Names -> Values \cup {None}]
  /\ pending \in [Writers -> Writes \cup {None}]
  /\ kind \in [Calls -> {"Count", "Keys", "Items"}]
  /\ stage \in [Calls -> {"idle", "count", "collect", "returned"}]
  /\ collector \in [Calls -> [Shards -> {"ready", "ranging", "done"}]]
  /\ todo \in [Calls -> SUBSET AllEntries]
  /\ channel \in [Calls -> SUBSET AllEntries]
  /\ got \in [Calls -> SUBSET AllEntries]
  /\ always \in [Calls -> SUBSET Names]
  /\ ever \in [Calls -> SUBSET AllEntries]

\* Before it collects, a call has no collectors and has received nothing.
NothingYet(c) ==
  stage[c] \in {"idle", "count"}
    => /\ collector[c] = NoCollectors
       /\ todo[c] = {} /\ channel[c] = {} /\ got[c] = {}

\* A collector that has not begun or is done has nothing to send.
NothingLeft(c) ==
  \A s \in Shards : collector[c][s] # "ranging" => TodoIn(c, s) = {}

\* The history of a call that is under way is that of the map so far.
HistoryHolds(c) ==
  UnderWay(c) => /\ always[c] \subseteq NamesOf(Entries(items))
                 /\ Entries(items) \subseteq ever[c]

\* What a call has collected was in the map during the call.
CollectedWasThere(c) ==
  /\ UnderWay(c) => todo[c] \subseteq ever[c] /\ channel[c] \subseteq ever[c]
  /\ got[c] \subseteq ever[c]

\* A key that was there throughout is collected, or its shard not yet.
NoneMissed(c) ==
  stage[c] = "collect"
    => \A n \in always[c] : \/ collector[c][ShardOf[n]] = "ready"
                            \/ n \in NamesOf(todo[c] \cup channel[c] \cup got[c])

\* What holds of a call while it runs.
CallInv(c) == /\ NothingYet(c) /\ NothingLeft(c) /\ HistoryHolds(c)
              /\ CollectedWasThere(c) /\ NoneMissed(c)

\* What a call of Items has returned.
ResultHolds(c) ==
  stage[c] = "returned" /\ kind[c] = "Items" => always[c] \subseteq NamesOf(got[c])

\* The inductive invariant behind what Items returns.
MapInv == MapType /\ \A c \in Calls : CallInv(c) /\ ResultHolds(c)

-----------------------------------------------------------------------------
(* Types *)

\* The entries of a map are pairs of a key and a value.
LEMMA EntriesType ==
  ASSUME NEW m \in [Names -> Values \cup {None}]
  PROVE  /\ Entries(m) \subseteq AllEntries
         /\ NamesOf(Entries(m)) = {n \in Names : m[n] # None}
<1>1. \A n \in Names : m[n] # None => m[n] \in Values
  OBVIOUS
<1>2. Entries(m) \subseteq AllEntries
  BY <1>1 DEF Entries, AllEntries
<1>3. ASSUME NEW n \in Names, m[n] # None
      PROVE  n \in NamesOf(Entries(m))
  <2>1. <<n, m[n]>> \in Entries(m) /\ <<n, m[n]>>[1] = n
    BY <1>3 DEF Entries
  <2>2. QED
    BY <2>1 DEF NamesOf
<1>4. ASSUME NEW n \in NamesOf(Entries(m))
      PROVE  n \in Names /\ m[n] # None
  BY <1>4 DEF Entries, NamesOf
<1>5. QED
  BY <1>2, <1>3, <1>4

\* No step takes a variable out of its type.
LEMMA MapTypeStep ==
  ASSUME MapType, Next
  PROVE  MapType'
<1> USE MapAssumption DEF MapType
<1>1. ASSUME NEW w \in Writers, NEW n \in Names,
             \/ Remove(w, n)
             \/ \E v \in Values, b \in BOOLEAN : SetTo(w, n, v, b)
      PROVE  MapType'
  <2>1. PICK v \in Values \cup {None}, b \in BOOLEAN :
          pending' = [pending EXCEPT ![w] = [name |-> n, value |-> v, absentOnly |-> b]]
    BY <1>1 DEF Remove, SetTo
  <2>2. [name |-> n, value |-> v, absentOnly |-> b] \in Writes
    BY DEF Writes
  <2>3. pending' \in [Writers -> Writes \cup {None}]
    BY <2>1, <2>2
  <2>4. UNCHANGED <<items, callVars>>
    BY <1>1 DEF Remove, SetTo
  <2>5. QED
    BY <2>3, <2>4 DEF callVars, collectVars
<1>2. ASSUME NEW w \in Writers, Apply(w)
      PROVE  MapType'
  <2>1. pending[w] \in Writes
    BY <1>2 DEF Apply
  <2>2. items' \in [Names -> Values \cup {None}]
    BY <1>2, <2>1 DEF Apply, Writes
  <2>3. always' \in [Calls -> SUBSET Names]
    BY <1>2 DEF Apply
  <2>4. Entries(items') \subseteq AllEntries
    BY <2>2, EntriesType
  <2>5. ever' \in [Calls -> SUBSET AllEntries]
    BY <1>2, <2>4 DEF Apply
  <2>6. /\ pending' = [pending EXCEPT ![w] = None]
        /\ UNCHANGED <<kind, stage, collectVars>>
    BY <1>2 DEF Apply
  <2>7. pending' \in [Writers -> Writes \cup {None}]
    BY <2>6
  <2>8. QED
    BY <2>2, <2>3, <2>5, <2>6, <2>7 DEF collectVars
<1>3. ASSUME NEW c \in Calls, NEW k \in {"Count", "Keys", "Items"}, Call(c, k)
      PROVE  MapType'
  <2>1. Entries(items) \subseteq AllEntries /\ NamesOf(Entries(items)) \subseteq Names
    BY EntriesType
  <2>2. QED
    BY <1>3, <2>1 DEF Call, collectVars
<1>4. ASSUME NEW c \in Calls, CountShard(c)
      PROVE  MapType'
  <2>1. \/ stage' = stage /\ collector' = collector
        \/ stage' = [stage EXCEPT ![c] = "returned"] /\ collector' = collector
        \/ /\ stage' = [stage EXCEPT ![c] = "collect"]
           /\ collector' = [collector EXCEPT ![c] = [s \in Shards |-> "ready"]]
    BY <1>4 DEF CountShard
  <2>2. UNCHANGED <<items, pending, kind, todo, channel, got, always, ever>>
    BY <1>4 DEF CountShard
  <2>3. stage' \in [Calls -> {"idle", "count", "collect", "returned"}]
    BY <2>1
  <2>4. collector' \in [Calls -> [Shards -> {"ready", "ranging", "done"}]]
    <3>1. [s \in Shards |-> "ready"] \in [Shards -> {"ready", "ranging", "done"}]
      OBVIOUS
    <3>2. QED
      BY <2>1, <3>1
  <2>5. QED
    BY <2>2, <2>3, <2>4
<1>5. ASSUME NEW c \in Calls, NEW s \in Shards, Collector(c, s)
      PROVE  MapType'
  <2>1. EntriesIn(s) \subseteq AllEntries
    BY EntriesType DEF EntriesIn
  <2>2. CASE StartRange(c, s)
    BY <2>1, <2>2 DEF StartRange, Moves
  <2>3. CASE Send(c, s)
    BY <2>3 DEF Send, TodoIn
  <2>4. CASE EndRange(c, s)
    BY <2>4 DEF EndRange, Moves
  <2>5. QED
    BY <1>5, <2>2, <2>3, <2>4 DEF Collector
<1>6. ASSUME NEW c \in Calls, Receive(c) \/ ReceiveEmpty(c)
      PROVE  MapType'
  <2>1. CASE Receive(c)
    <3>1. PICK e \in channel[c] : /\ channel' = [channel EXCEPT ![c] = @ \ {e}]
                                  /\ got' = [got EXCEPT ![c] = @ \cup {e}]
      BY <2>1 DEF Receive
    <3>2. e \in AllEntries
      OBVIOUS
    <3>3. UNCHANGED <<items, pending, kind, stage, collector, todo, always, ever>>
      BY <2>1 DEF Receive
    <3>4. QED
      BY <3>1, <3>2, <3>3
  <2>2. CASE ReceiveEmpty(c)
    BY <2>2 DEF ReceiveEmpty
  <2>3. QED
    BY <1>6, <2>1, <2>2
<1>7. ASSUME NEW c \in Calls, KeysReturns(c) \/ ItemsReturns(c)
      PROVE  MapType'
  BY <1>7 DEF KeysReturns, ItemsReturns, Returns, collectVars
<1>8. ASSUME NEW c \in Calls, Forget(c)
      PROVE  MapType'
  BY <1>8 DEF Forget, NoCollectors
<1>9. QED
  BY <1>1, <1>2, <1>3, <1>4, <1>5, <1>6, <1>7, <1>8 DEF Next, Caller

-----------------------------------------------------------------------------
(* One call *)

\* What a call is at and has collected, and the history of it.
Own(c) == <<kind[c], stage[c], collector[c], todo[c], channel[c], got[c],
            always[c], ever[c]>>

\* A write changes the map and the history of the calls under way.
LEMMA ApplyStep ==
  ASSUME MapType, MapType', NEW c \in Calls, CallInv(c), ResultHolds(c),
         NEW w \in Writers, Apply(w)
  PROVE  CallInv(c)' /\ ResultHolds(c)'
<1>1. UNCHANGED <<kind, stage, collector, todo, channel, got>>
  BY DEF Apply, collectVars
<1>2. CASE UnderWay(c)
  <2>1. /\ always'[c] = always[c] \cap NamesOf(Entries(items'))
        /\ ever'[c] = ever[c] \cup Entries(items')
    BY <1>2 DEF Apply, MapType
  <2>2. QED
    BY <1>1, <1>2, <2>1
       DEF CallInv, ResultHolds, NothingYet, NothingLeft, TodoIn, HistoryHolds,
           CollectedWasThere, NoneMissed, UnderWay
<1>3. CASE ~UnderWay(c)
  <2>1. always'[c] = always[c] /\ ever'[c] = ever[c]
    BY <1>3 DEF Apply, MapType
  <2>2. QED
    BY <1>1, <1>3, <2>1
       DEF CallInv, ResultHolds, NothingYet, NothingLeft, TodoIn, HistoryHolds,
           CollectedWasThere, NoneMissed, UnderWay
<1>4. QED
  BY <1>2, <1>3

\* A collector takes what its shard holds, sends it, and ends.
LEMMA CollectorStep ==
  ASSUME MapType, NEW c \in Calls, CallInv(c), ResultHolds(c),
         NEW s \in Shards, Collector(c, s)
  PROVE  CallInv(c)' /\ ResultHolds(c)'
<1> USE MapAssumption
<1>1. stage[c] \in {"collect", "returned"}
  BY DEF Collector, StartRange, Send, EndRange, CallInv, NothingYet, NoCollectors,
         MapType
<1>2. /\ UNCHANGED <<items, kind, stage, got, always, ever>>
      /\ \A t \in Shards \ {s} : /\ collector'[c][t] = collector[c][t]
                                 /\ TodoIn(c, t)' = TodoIn(c, t)
  BY DEF Collector, StartRange, Send, EndRange, Moves, TodoIn, EntriesIn, MapType
<1>3. NothingYet(c)' /\ HistoryHolds(c)' /\ ResultHolds(c)'
  BY <1>1, <1>2
     DEF CallInv, NothingYet, HistoryHolds, ResultHolds, UnderWay
<1>4. CASE StartRange(c, s)
  <2>1. /\ collector' = [collector EXCEPT ![c][s] = "ranging"]
        /\ todo'[c] = todo[c] \cup EntriesIn(s) /\ channel' = channel
    BY <1>4 DEF StartRange, Moves, MapType
  <2>2. NothingLeft(c)'
    BY <1>2, <2>1 DEF CallInv, NothingLeft, MapType
  <2>3. CollectedWasThere(c)'
    BY <1>2, <2>1 DEF CallInv, CollectedWasThere, HistoryHolds, EntriesIn, UnderWay
  <2>4. NoneMissed(c)'
    <3>1. SUFFICES ASSUME stage[c] = "collect", NEW n \in always[c]
                   PROVE  \/ collector'[c][ShardOf[n]] = "ready"
                          \/ n \in NamesOf(todo'[c] \cup channel[c] \cup got[c])
      BY <1>2, <2>1 DEF NoneMissed
    <3>2. n \in Names /\ ShardOf[n] \in Shards
      BY DEF MapType
    <3>3. CASE ShardOf[n] = s
      <4>1. n \in NamesOf(EntriesIn(s))
        BY <3>1, <3>3 DEF CallInv, HistoryHolds, UnderWay, NamesOf, EntriesIn
      <4>2. QED
        BY <2>1, <4>1 DEF NamesOf
    <3>4. CASE ShardOf[n] # s
      BY <1>2, <2>1, <3>1, <3>2, <3>4 DEF CallInv, NoneMissed, NamesOf
    <3>5. QED
      BY <3>3, <3>4
  <2>5. QED
    BY <1>3, <2>2, <2>3, <2>4 DEF CallInv
<1>5. CASE Send(c, s)
  <2>1. collector' = collector /\ collector[c][s] = "ranging"
    BY <1>5 DEF Send
  <2>2. PICK e \in TodoIn(c, s) : /\ todo' = [todo EXCEPT ![c] = @ \ {e}]
                                  /\ channel' = [channel EXCEPT ![c] = @ \cup {e}]
    BY <1>5 DEF Send
  <2>3. /\ todo'[c] = todo[c] \ {e} /\ channel'[c] = channel[c] \cup {e}
        /\ e \in todo[c]
    BY <2>2 DEF MapType, TodoIn
  <2>4. todo'[c] \cup channel'[c] \cup got'[c] = todo[c] \cup channel[c] \cup got[c]
    BY <1>2, <2>3
  <2>5. NothingLeft(c)'
    BY <1>2, <2>1 DEF CallInv, NothingLeft
  <2>6. CollectedWasThere(c)'
    BY <1>2, <2>3 DEF CallInv, CollectedWasThere, UnderWay
  <2>7. NoneMissed(c)'
    BY <1>2, <2>1, <2>4 DEF CallInv, NoneMissed
  <2>8. QED
    BY <1>3, <2>5, <2>6, <2>7 DEF CallInv
<1>6. CASE EndRange(c, s)
  <2>1. /\ collector' = [collector EXCEPT ![c][s] = "done"]
        /\ collector[c][s] = "ranging" /\ TodoIn(c, s) = {}
        /\ todo' = todo /\ channel' = channel
    BY <1>6 DEF EndRange, Moves
  <2>2. NothingLeft(c)'
    BY <1>2, <2>1 DEF CallInv, NothingLeft, TodoIn, MapType
  <2>3. CollectedWasThere(c)'
    BY <1>2, <2>1 DEF CallInv, CollectedWasThere, UnderWay
  <2>4. NoneMissed(c)'
    <3>1. \A t \in Shards : collector[c][t] = "ready" => collector'[c][t] = "ready"
      BY <1>2, <2>1
    <3>2. \A n \in always[c] : ShardOf[n] \in Shards
      BY DEF MapType
    <3>3. QED
      BY <1>2, <2>1, <3>1, <3>2 DEF CallInv, NoneMissed
  <2>5. QED
    BY <1>3, <2>2, <2>3, <2>4 DEF CallInv
<1>7. QED
  BY <1>4, <1>5, <1>6 DEF Collector

\* The caller counts, receives and returns.
LEMMA CallerStep ==
  ASSUME MapType, NEW c \in Calls, CallInv(c), ResultHolds(c),
         \/ Caller(c) \/ Forget(c)
         \/ \E k \in {"Count", "Keys", "Items"} : Call(c, k)
  PROVE  CallInv(c)' /\ ResultHolds(c)'
<1> USE MapAssumption
<1>1. CASE \E k \in {"Count", "Keys", "Items"} : Call(c, k)
  <2>1. /\ stage[c] = "idle" /\ stage'[c] = "count"
        /\ always'[c] = NamesOf(Entries(items)) /\ ever'[c] = Entries(items)
        /\ UNCHANGED <<items, collector, todo, channel, got>>
    BY <1>1 DEF Call, collectVars, MapType
  <2>2. QED
    BY <2>1 DEF CallInv, ResultHolds, NothingYet, NothingLeft, TodoIn, HistoryHolds,
                CollectedWasThere, NoneMissed, UnderWay
<1>2. CASE CountShard(c)
  <2>1. /\ stage[c] = "count"
        /\ UNCHANGED <<items, kind, todo, channel, got, always, ever>>
    BY <1>2 DEF CountShard
  <2>2. todo[c] = {} /\ channel[c] = {} /\ got[c] = {}
    BY <2>1 DEF CallInv, NothingYet
  <2>3. \/ stage'[c] = "count" /\ collector' = collector
        \/ stage'[c] = "returned" /\ kind[c] = "Count"
        \/ stage'[c] = "collect" /\ collector'[c] = [s \in Shards |-> "ready"]
    BY <1>2 DEF CountShard, MapType
  <2>4. NothingYet(c)' /\ NothingLeft(c)' /\ HistoryHolds(c)' /\ CollectedWasThere(c)'
    BY <2>1, <2>2, <2>3
       DEF CallInv, NothingYet, NothingLeft, TodoIn, HistoryHolds, CollectedWasThere,
           UnderWay
  <2>5. NoneMissed(c)'
    <3>1. \A n \in always[c] : ShardOf[n] \in Shards
      BY DEF MapType
    <3>2. QED
      BY <2>1, <2>3, <3>1 DEF NoneMissed
  <2>6. ResultHolds(c)'
    BY <2>1, <2>3 DEF ResultHolds
  <2>7. QED
    BY <2>4, <2>5, <2>6 DEF CallInv
<1>3. CASE Receive(c)
  <2>1. PICK e \in channel[c] : /\ channel' = [channel EXCEPT ![c] = @ \ {e}]
                                /\ got' = [got EXCEPT ![c] = @ \cup {e}]
    BY <1>3 DEF Receive
  <2>2. /\ channel'[c] = channel[c] \ {e} /\ got'[c] = got[c] \cup {e}
        /\ stage[c] = "collect"
        /\ UNCHANGED <<items, kind, stage, collector, todo, always, ever>>
    BY <1>3, <2>1 DEF Receive, Receiving, MapType
  <2>3. todo'[c] \cup channel'[c] \cup got'[c] = todo[c] \cup channel[c] \cup got[c]
    BY <2>2
  <2>4. CollectedWasThere(c)'
    BY <2>2 DEF CallInv, CollectedWasThere, UnderWay
  <2>5. NoneMissed(c)'
    BY <2>2, <2>3 DEF CallInv, NoneMissed
  <2>6. NothingYet(c)' /\ NothingLeft(c)' /\ HistoryHolds(c)' /\ ResultHolds(c)'
    BY <2>2 DEF CallInv, NothingYet, NothingLeft, TodoIn, HistoryHolds, ResultHolds,
                UnderWay
  <2>7. QED
    BY <2>4, <2>5, <2>6 DEF CallInv
<1>4. CASE ReceiveEmpty(c)
  BY <1>4 DEF ReceiveEmpty, CallInv, ResultHolds, NothingYet, NothingLeft, TodoIn,
              HistoryHolds, CollectedWasThere, NoneMissed, UnderWay
<1>5. CASE KeysReturns(c) \/ ItemsReturns(c)
  <2>1. /\ stage[c] = "collect" /\ stage'[c] = "returned"
        /\ UNCHANGED <<items, kind, collector, todo, channel, got, always, ever>>
    BY <1>5 DEF KeysReturns, ItemsReturns, Returns, collectVars, MapType
  <2>2. CallInv(c)'
    BY <2>1 DEF CallInv, NothingYet, NothingLeft, TodoIn, HistoryHolds,
                CollectedWasThere, NoneMissed, UnderWay
  <2>3. CASE kind[c] = "Items"
    <3>1. channel[c] = {} /\ AllDone(c)
      BY <1>5, <2>3 DEF KeysReturns, ItemsReturns
    <3>2. todo[c] = {}
      BY <3>1 DEF CallInv, NothingLeft, TodoIn, AllDone, MapType, AllEntries
    <3>3. \A n \in always[c] : ShardOf[n] \in Shards
      BY DEF MapType
    <3>4. always[c] \subseteq NamesOf(got[c])
      BY <2>1, <3>1, <3>2, <3>3 DEF CallInv, NoneMissed, AllDone
    <3>5. QED
      BY <2>1, <2>2, <3>4 DEF ResultHolds
  <2>4. CASE kind[c] # "Items"
    BY <2>1, <2>2, <2>4 DEF ResultHolds
  <2>5. QED
    BY <2>3, <2>4
<1>6. CASE Forget(c)
  <2>1. /\ stage'[c] = "idle" /\ collector'[c] = NoCollectors
        /\ todo'[c] = {} /\ channel'[c] = {} /\ got'[c] = {}
    BY <1>6 DEF Forget, MapType
  <2>2. QED
    BY <2>1 DEF CallInv, ResultHolds, NothingYet, NothingLeft, TodoIn, HistoryHolds,
                CollectedWasThere, NoneMissed, UnderWay
<1>7. QED
  BY <1>1, <1>2, <1>3, <1>4, <1>5, <1>6 DEF Caller

-----------------------------------------------------------------------------
(* All calls *)

\* A step that is neither a write nor of this call leaves the call alone.
LEMMA OthersStep ==
  ASSUME MapType, NEW c \in Calls, CallInv(c), ResultHolds(c),
         UNCHANGED items, UNCHANGED Own(c)
  PROVE  CallInv(c)' /\ ResultHolds(c)'
BY DEF Own, CallInv, ResultHolds, NothingYet, NothingLeft, TodoIn, HistoryHolds,
       CollectedWasThere, NoneMissed, UnderWay

\* Every step keeps the invariant of every call.
LEMMA CallInvStep ==
  ASSUME MapInv, Next, NEW c \in Calls
  PROVE  CallInv(c)' /\ ResultHolds(c)'
<1>1. MapType /\ MapType' /\ CallInv(c) /\ ResultHolds(c)
  BY MapTypeStep DEF MapInv
<1>2. CASE \E w \in Writers : Apply(w)
  BY <1>1, <1>2, ApplyStep
<1>3. CASE \E w \in Writers, n \in Names :
             Remove(w, n) \/ \E v \in Values, b \in BOOLEAN : SetTo(w, n, v, b)
  BY <1>1, <1>3, OthersStep DEF Remove, SetTo, callVars, collectVars, Own
<1>4. ASSUME NEW d \in Calls,
             \/ Caller(d) \/ Forget(d)
             \/ \E k \in {"Count", "Keys", "Items"} : Call(d, k)
             \/ \E s \in Shards : Collector(d, s)
      PROVE  CallInv(c)' /\ ResultHolds(c)'
  <2>1. CASE d = c
    BY <1>1, <1>4, <2>1, CallerStep, CollectorStep
  <2>2. CASE d # c
    <3>1. UNCHANGED items /\ UNCHANGED Own(c)
      <4>1. CASE \E k \in {"Count", "Keys", "Items"} : Call(d, k)
        BY <1>1, <2>2, <4>1 DEF Call, collectVars, Own, MapType
      <4>2. CASE CountShard(d)
        BY <1>1, <2>2, <4>2 DEF CountShard, Own, MapType
      <4>3. CASE Receive(d) \/ ReceiveEmpty(d)
        BY <1>1, <2>2, <4>3 DEF Receive, ReceiveEmpty, Own, MapType
      <4>4. CASE KeysReturns(d) \/ ItemsReturns(d)
        BY <1>1, <2>2, <4>4
           DEF KeysReturns, ItemsReturns, Returns, collectVars, Own, MapType
      <4>5. CASE Forget(d)
        BY <1>1, <2>2, <4>5 DEF Forget, Own, MapType
      <4>6. CASE \E s \in Shards : Collector(d, s)
        BY <1>1, <2>2, <4>6
           DEF Collector, StartRange, Send, EndRange, Moves, Own, MapType
      <4>7. QED
        BY <1>4, <4>1, <4>2, <4>3, <4>4, <4>5, <4>6 DEF Caller
    <3>2. QED
      BY <1>1, <3>1, OthersStep
  <2>3. QED
    BY <2>1, <2>2
<1>5. QED
  BY <1>2, <1>3, <1>4 DEF Next

-----------------------------------------------------------------------------
(* Theorems *)

\* The inductive invariant of the map's calls.
THEOREM Invariance == Spec => []MapInv
<1>1. ASSUME Init
      PROVE  MapInv
  <2>1. MapType
    BY <1>1 DEF Init, MapType, NoCollectors
  <2>2. ASSUME NEW c \in Calls
        PROVE  CallInv(c) /\ ResultHolds(c)
    BY <1>1 DEF Init, CallInv, ResultHolds, NothingYet, NothingLeft, TodoIn,
                HistoryHolds, CollectedWasThere, NoneMissed, UnderWay
  <2>3. QED
    BY <2>1, <2>2 DEF MapInv
<1>2. MapInv /\ Next => MapInv'
  BY MapTypeStep, CallInvStep DEF MapInv
<1>3. ASSUME MapInv, UNCHANGED vars
      PROVE  MapInv'
  <2>1. MapType'
    BY <1>3 DEF MapInv, MapType, vars, callVars, collectVars
  <2>2. ASSUME NEW c \in Calls
        PROVE  CallInv(c)' /\ ResultHolds(c)'
    BY <1>3, OthersStep DEF MapInv, vars, callVars, collectVars, Own
  <2>3. QED
    BY <2>1, <2>2 DEF MapInv
<1>4. QED
  BY <1>1, <1>2, <1>3, PTL DEF Spec

\* Items returns every key that was in the map throughout the call and only
\* entries that were in it at some time during the call.
THEOREM ItemsIsConsistent == Spec => []ItemsConsistent
<1>1. MapInv => ItemsConsistent
  BY DEF MapInv, CallInv, ResultHolds, CollectedWasThere, ItemsConsistent
<1>2. QED
  BY <1>1, Invariance, PTL

-----------------------------------------------------------------------------
(* Counting *)

\* The types of the numbers, and of the shards that stay locked.
NumberType == /\ leaked \subseteq Shards
              /\ at \in [Calls -> Shards \cup {ShardCount + 1}]
              /\ count \in [Calls -> Int]
              /\ taken \in [Calls -> Int]

\* All that a call has collected, wherever it is.
Collected(c) == todo[c] \cup channel[c] \cup got[c]

\* A key is collected once and is in one place; nothing is collected from a
\* shard whose collector has not begun.
CollectedOnce(c) ==
  /\ todo[c] \cap channel[c] = {} /\ todo[c] \cap got[c] = {} /\ channel[c] \cap got[c] = {}
  /\ \A d, e \in Collected(c) : d[1] = e[1] => d = e
  /\ \A e \in Collected(c) : collector[c][ShardOf[e[1]]] # "ready"

\* The keys of S in the shards before shard s.
Before(S, s) == {n \in S : ShardOf[n] < s}

\* Where a call is in the shards, and bounds of what it has counted.
Position(c) ==
  /\ stage[c] = "idle" => at[c] = 1
  /\ stage[c] = "count" => at[c] \in Shards
  /\ stage[c] = "collect" => at[c] = ShardCount + 1
  /\ stage[c] \in {"idle", "count"} => taken[c] = 0
  /\ 0 <= taken[c] /\ taken[c] <= count[c]
  /\ count[c] <= Cardinality(Before(Names, at[c]))

\* No key has come or gone during the call.
Undisturbed(c) == always[c] = NamesOf(ever[c])

\* An undisturbed call counts the keys that were there, and Keys receives
\* another of them each time.
CountsAlways(c) ==
  Undisturbed(c)
    => /\ UnderWay(c) => count[c] = Cardinality(Before(always[c], at[c]))
       /\ UnderWay(c) /\ kind[c] = "Keys" => taken[c] = Cardinality(got[c])
       /\ stage[c] = "returned" /\ kind[c] = "Keys" => NamesOf(got[c]) = always[c]

\* What holds of the numbers of a call.
CountInv(c) == CollectedOnce(c) /\ Position(c) /\ CountsAlways(c)

\* The inductive invariant behind what Count and Keys return.
CountsInv == NumberType /\ \A c \in Calls : CountInv(c)

-----------------------------------------------------------------------------
(* Sets of keys and of entries *)

\* Disjoint sets are counted one by one.
LEMMA DisjointCount ==
  ASSUME NEW S, NEW T, IsFiniteSet(S), IsFiniteSet(T), S \cap T = {}
  PROVE  Cardinality(S \cup T) = Cardinality(S) + Cardinality(T)
<1>1. Cardinality(S) \in Nat /\ Cardinality(T) \in Nat
  BY FS_CardinalityType
<1>2. Cardinality(S \cap T) = 0
  BY FS_EmptySet
<1>3. Cardinality(S \cup T) = Cardinality(S) + Cardinality(T) - Cardinality(S \cap T)
  BY FS_Union
<1>4. Cardinality(S \cup T) = Cardinality(S) + Cardinality(T) - 0
  BY <1>2, <1>3
<1>5. QED
  BY <1>1, <1>4

\* Counting shard by shard adds up.
LEMMA BeforeNext ==
  ASSUME NEW S \in SUBSET Names, NEW s \in Shards
  PROVE  /\ IsFiniteSet(S) /\ IsFiniteSet(Before(S, s))
         /\ Cardinality(Before(S, s)) \in Nat
         /\ Cardinality({n \in S : ShardOf[n] = s}) \in Nat
         /\ Cardinality(Before(S, s + 1))
              = Cardinality(Before(S, s)) + Cardinality({n \in S : ShardOf[n] = s})
<1> DEFINE T == {n \in S : ShardOf[n] = s}
<1>1. IsFiniteSet(Names)
  BY MapAssumption
<1>2. IsFiniteSet(S)
  BY <1>1, FS_Subset
<1>3. Before(S, s) \in SUBSET S /\ T \in SUBSET S
  BY DEF Before
<1>4. IsFiniteSet(Before(S, s)) /\ IsFiniteSet(T)
  BY <1>2, <1>3, FS_Subset
<1>5. Before(S, s + 1) = Before(S, s) \cup T
  BY MapAssumption DEF Before, Shards
<1>6. Before(S, s) \cap T = {}
  BY MapAssumption DEF Before, Shards
<1>7. QED
  BY <1>2, <1>4, <1>5, <1>6, DisjointCount, FS_CardinalityType

\* Nothing is before the first shard, and everything before the end.
LEMMA BeforeEnds ==
  ASSUME NEW S \in SUBSET Names
  PROVE  /\ Before(S, 1) = {} /\ Cardinality(Before(S, 1)) = 0
         /\ Before(S, ShardCount + 1) = S
<1>1. Before(S, 1) = {}
  BY MapAssumption DEF Before, Shards
<1>2. Before(S, ShardCount + 1) = S
  BY MapAssumption DEF Before, Shards
<1>3. QED
  BY <1>1, <1>2, FS_EmptySet

\* Entries of different keys are as many as their keys.
LEMMA OneNameEach ==
  ASSUME NEW E \in SUBSET AllEntries, \A d, e \in E : d[1] = e[1] => d = e
  PROVE  /\ IsFiniteSet(E) /\ NamesOf(E) \in SUBSET Names /\ IsFiniteSet(NamesOf(E))
         /\ Cardinality(NamesOf(E)) = Cardinality(E)
<1> DEFINE name == [e \in E |-> e[1]]
<1>1. NamesOf(E) \in SUBSET Names
  BY DEF NamesOf, AllEntries
<1>2. IsFiniteSet(NamesOf(E))
  BY <1>1, MapAssumption, FS_Subset
<1>3. name \in [E -> NamesOf(E)]
  BY DEF NamesOf
<1>4. name \in Injection(E, NamesOf(E))
  BY <1>3 DEF Injection, IsInjective
<1>5. \A n \in NamesOf(E) : \E e \in E : name[e] = n
  BY DEF NamesOf
<1>6. name \in Surjection(E, NamesOf(E))
  BY <1>3, <1>5 DEF Surjection
<1>7. IsFiniteSet(E) /\ Cardinality(E) = Cardinality(NamesOf(E))
  BY <1>2, <1>4, <1>6, FS_Injection
<1>8. QED
  BY <1>1, <1>2, <1>7

\* A map has one entry of each key.
LEMMA EntriesAlone ==
  ASSUME NEW m, NEW d \in Entries(m), NEW e \in Entries(m), d[1] = e[1]
  PROVE  d = e
BY DEF Entries

\* Count counts the keys of a shard.
LEMMA CountedKeys ==
  ASSUME MapType, NEW c \in Calls
  PROVE  /\ Counted(c) = Cardinality({n \in NamesOf(Entries(items)) : ShardOf[n] = at[c]})
         /\ NamesOf(Entries(items)) \in SUBSET Names
<1>1. Entries(items) \subseteq AllEntries /\ NamesOf(Entries(items)) \in SUBSET Names
  BY EntriesType DEF MapType
<1>2. EntriesIn(at[c]) \in SUBSET AllEntries
  BY <1>1 DEF EntriesIn
<1>3. \A d, e \in EntriesIn(at[c]) : d[1] = e[1] => d = e
  BY EntriesAlone DEF EntriesIn
<1>4. NamesOf(EntriesIn(at[c])) = {n \in NamesOf(Entries(items)) : ShardOf[n] = at[c]}
  BY DEF NamesOf, EntriesIn
<1>5. QED
  BY <1>1, <1>2, <1>3, <1>4, OneNameEach DEF Counted

-----------------------------------------------------------------------------
(* One call's count *)

\* What a call's count depends on, apart from Own.
OwnNumbers(c) == <<at[c], count[c], taken[c]>>

\* A key that comes or goes disturbs the calls under way.
LEMMA ApplyCount ==
  ASSUME MapType, MapType', NEW c \in Calls, CallInv(c), CountInv(c),
         NEW w \in Writers, Apply(w)
  PROVE  CountInv(c)'
<1>1. UNCHANGED <<kind, stage, collector, todo, channel, got, at, count, taken>>
  BY DEF Apply, collectVars
<1>2. CollectedOnce(c)' /\ Position(c)'
  BY <1>1 DEF CountInv, CollectedOnce, Collected, Position, Before
<1>3. CASE ~UnderWay(c)
  <2>1. always'[c] = always[c] /\ ever'[c] = ever[c]
    BY <1>3 DEF Apply, MapType
  <2>2. CountsAlways(c)'
    BY <1>1, <1>3, <2>1 DEF CountInv, CountsAlways, Undisturbed, UnderWay
  <2>3. QED
    BY <1>2, <2>2 DEF CountInv
<1>4. CASE UnderWay(c)
  <2>1. /\ always'[c] = always[c] \cap NamesOf(Entries(items'))
        /\ ever'[c] = ever[c] \cup Entries(items')
    BY <1>4 DEF Apply, MapType
  <2>2. SUFFICES ASSUME Undisturbed(c)'
                 PROVE  CountsAlways(c)'
    BY <1>2 DEF CountInv, CountsAlways
  <2>3. always[c] \subseteq NamesOf(Entries(items)) /\ Entries(items) \subseteq ever[c]
    BY <1>4 DEF CallInv, HistoryHolds
  <2>4. NamesOf(Entries(items)) \subseteq NamesOf(ever[c])
    BY <2>3 DEF NamesOf
  <2>5. NamesOf(ever[c]) \subseteq NamesOf(ever'[c])
    BY <2>1 DEF NamesOf
  <2>6. always'[c] = NamesOf(ever'[c])
    BY <2>2 DEF Undisturbed
  <2>7. always'[c] = always[c] /\ Undisturbed(c)
    BY <2>1, <2>3, <2>4, <2>5, <2>6 DEF Undisturbed
  <2>8. QED
    BY <1>1, <1>4, <2>7 DEF CountInv, CountsAlways, UnderWay, Before
<1>5. QED
  BY <1>3, <1>4

\* A collector adds only keys of its own shard, of which it had none.
LEMMA CollectorCount ==
  ASSUME MapType, NEW c \in Calls, CallInv(c), CountInv(c),
         NEW s \in Shards, Collector(c, s)
  PROVE  CountInv(c)'
<1> USE MapAssumption
<1>1. UNCHANGED <<items, kind, stage, got, always, ever, at, count, taken>>
  BY DEF Collector, StartRange, Send, EndRange
<1>2. Position(c)'
  BY <1>1 DEF CountInv, Position, Before
<1>3. CountsAlways(c)'
  BY <1>1 DEF CountInv, CountsAlways, Undisturbed, UnderWay, Before
<1>4. Entries(items) \subseteq AllEntries
  BY EntriesType DEF MapType
<1>5. \A e \in AllEntries : e[1] \in Names /\ ShardOf[e[1]] \in Shards
  BY DEF AllEntries
<1>6. CASE StartRange(c, s)
  <2>1. /\ collector[c][s] = "ready"
        /\ collector' = [collector EXCEPT ![c][s] = "ranging"]
        /\ todo'[c] = todo[c] \cup EntriesIn(s) /\ channel' = channel
    BY <1>6 DEF StartRange, Moves, MapType
  <2>2. \A e \in EntriesIn(s) : e \in Entries(items) /\ ShardOf[e[1]] = s
    BY DEF EntriesIn
  <2>3. \A e \in Collected(c) : e \in AllEntries /\ ShardOf[e[1]] # s
    BY <2>1 DEF CountInv, CollectedOnce, Collected, MapType
  <2>4. Collected(c)' = Collected(c) \cup EntriesIn(s)
    BY <1>1, <2>1 DEF Collected
  <2>5. /\ todo'[c] \cap channel'[c] = {} /\ todo'[c] \cap got'[c] = {}
        /\ channel'[c] \cap got'[c] = {}
    BY <1>1, <2>1, <2>2, <2>3 DEF CountInv, CollectedOnce, Collected
  <2>6. ASSUME NEW d \in Collected(c)', NEW e \in Collected(c)', d[1] = e[1]
        PROVE  d = e
    <3>1. CASE d \in EntriesIn(s) /\ e \in EntriesIn(s)
      BY <2>2, <2>6, <3>1, EntriesAlone
    <3>2. CASE d \in Collected(c) /\ e \in Collected(c)
      BY <2>6, <3>2 DEF CountInv, CollectedOnce
    <3>3. QED
      BY <2>2, <2>3, <2>4, <2>6, <3>1, <3>2
  <2>7. ASSUME NEW e \in Collected(c)'
        PROVE  collector'[c][ShardOf[e[1]]] # "ready"
    <3>1. CASE e \in EntriesIn(s)
      BY <2>1, <2>2, <3>1 DEF MapType
    <3>2. CASE e \in Collected(c)
      BY <1>5, <2>1, <2>3, <3>2 DEF MapType, CountInv, CollectedOnce
    <3>3. QED
      BY <2>4, <3>1, <3>2
  <2>8. CollectedOnce(c)'
    BY <2>5, <2>6, <2>7 DEF CollectedOnce
  <2>9. QED
    BY <1>2, <1>3, <2>8 DEF CountInv
<1>7. CASE Send(c, s)
  <2>1. PICK e \in TodoIn(c, s) : /\ todo' = [todo EXCEPT ![c] = @ \ {e}]
                                  /\ channel' = [channel EXCEPT ![c] = @ \cup {e}]
    BY <1>7 DEF Send
  <2>2. /\ todo'[c] = todo[c] \ {e} /\ channel'[c] = channel[c] \cup {e}
        /\ e \in todo[c] /\ collector' = collector
    BY <1>7, <2>1 DEF Send, MapType, TodoIn
  <2>3. Collected(c)' = Collected(c)
    BY <1>1, <2>2 DEF Collected
  <2>4. CollectedOnce(c)'
    BY <1>1, <2>2, <2>3 DEF CountInv, CollectedOnce
  <2>5. QED
    BY <1>2, <1>3, <2>4 DEF CountInv
<1>8. CASE EndRange(c, s)
  <2>1. /\ collector' = [collector EXCEPT ![c][s] = "done"]
        /\ todo' = todo /\ channel' = channel
    BY <1>8 DEF EndRange, Moves
  <2>2. \A t \in Shards : collector[c][t] # "ready" => collector'[c][t] # "ready"
    BY <2>1 DEF MapType
  <2>3. \A e \in Collected(c) : e \in AllEntries
    BY DEF Collected, MapType
  <2>4. CollectedOnce(c)'
    BY <1>1, <1>5, <2>1, <2>2, <2>3 DEF CountInv, CollectedOnce, Collected
  <2>5. QED
    BY <1>2, <1>3, <2>4 DEF CountInv
<1>9. QED
  BY <1>6, <1>7, <1>8 DEF Collector

\* A call of Keys that nobody disturbs receives keys that were there, and
\* knows how many there are.
LEMMA KeysReceived ==
  ASSUME MapType, NEW c \in Calls, CallInv(c), CountInv(c), Undisturbed(c),
         stage[c] = "collect", kind[c] = "Keys"
  PROVE  /\ IsFiniteSet(always[c]) /\ NamesOf(got[c]) \in SUBSET always[c]
         /\ count[c] = Cardinality(always[c])
         /\ taken[c] = Cardinality(NamesOf(got[c]))
<1>1. always[c] \in SUBSET Names /\ got[c] \in SUBSET AllEntries
  BY DEF MapType
<1>2. IsFiniteSet(always[c])
  BY <1>1, BeforeNext, MapAssumption, FS_Subset
<1>3. NamesOf(got[c]) \in SUBSET always[c]
  BY DEF CallInv, CollectedWasThere, Undisturbed, NamesOf
<1>4. \A d, e \in got[c] : d[1] = e[1] => d = e
  BY DEF CountInv, CollectedOnce, Collected
<1>5. Cardinality(NamesOf(got[c])) = Cardinality(got[c])
  BY <1>1, <1>4, OneNameEach
<1>6. Before(always[c], at[c]) = always[c]
  BY <1>1, BeforeEnds DEF CountInv, Position
<1>7. QED
  BY <1>2, <1>3, <1>5, <1>6 DEF CountInv, CountsAlways, UnderWay

\* When its collectors are done and their channel is empty, such a call has
\* received all keys.
LEMMA AllReceived ==
  ASSUME MapType, NEW c \in Calls, CallInv(c), CountInv(c), Undisturbed(c),
         stage[c] = "collect", kind[c] = "Keys", channel[c] = {}, AllDone(c)
  PROVE  taken[c] = count[c]
<1>1. todo[c] = {}
  BY MapAssumption DEF CallInv, NothingLeft, TodoIn, AllDone, MapType, AllEntries
<1>2. \A n \in always[c] : ShardOf[n] \in Shards
  BY MapAssumption DEF MapType
<1>3. always[c] \subseteq NamesOf(got[c])
  BY <1>1, <1>2 DEF CallInv, NoneMissed, AllDone
<1>4. NamesOf(got[c]) = always[c]
  BY <1>3, KeysReceived
<1>5. QED
  BY <1>4, KeysReceived

\* The caller counts as many as are there and receives as many as it counted.
LEMMA CallerCount ==
  ASSUME MapType, NumberType, NEW c \in Calls, CallInv(c), CountInv(c),
         \/ Caller(c) \/ Forget(c)
         \/ \E k \in {"Count", "Keys", "Items"} : Call(c, k)
  PROVE  CountInv(c)'
<1> USE MapAssumption
<1>1. CASE \E k \in {"Count", "Keys", "Items"} : Call(c, k)
  <2>1. /\ stage[c] = "idle" /\ stage'[c] = "count"
        /\ always'[c] = NamesOf(Entries(items)) /\ ever'[c] = Entries(items)
        /\ UNCHANGED <<collector, todo, channel, got, at, count, taken>>
    BY <1>1 DEF Call, collectVars, MapType
  <2>2. todo[c] = {} /\ channel[c] = {} /\ got[c] = {}
    BY <2>1 DEF CallInv, NothingYet
  <2>3. at[c] = 1 /\ 1 \in Shards /\ taken[c] = 0
    BY <2>1 DEF CountInv, Position, Shards
  <2>4. Cardinality(Before(Names, 1)) = 0 /\ Cardinality(Before(always'[c], 1)) = 0
    <3>1. always'[c] \in SUBSET Names
      BY <2>1, CountedKeys
    <3>2. QED
      BY <3>1, BeforeEnds
  <2>5. count[c] = 0
    BY <2>1, <2>3, <2>4 DEF CountInv, Position, NumberType
  <2>6. CollectedOnce(c)'
    BY <2>1, <2>2 DEF CollectedOnce, Collected
  <2>7. Position(c)'
    BY <2>1, <2>3, <2>4, <2>5 DEF Position, Before
  <2>8. CountsAlways(c)'
    BY <2>1, <2>2, <2>3, <2>4, <2>5, FS_EmptySet DEF CountsAlways, UnderWay, Before
  <2>9. QED
    BY <2>6, <2>7, <2>8 DEF CountInv
<1>2. CASE CountShard(c)
  <2>1. /\ stage[c] = "count"
        /\ count'[c] = count[c] + Counted(c) /\ at'[c] = at[c] + 1
        /\ UNCHANGED <<items, kind, todo, channel, got, taken, always, ever>>
    BY <1>2 DEF CountShard, MapType, NumberType
  <2>2. /\ at[c] < ShardCount => stage'[c] = "count"
        /\ ~(at[c] < ShardCount)
             => stage'[c] = IF kind[c] = "Count" THEN "returned" ELSE "collect"
    BY <1>2 DEF CountShard, MapType
  <2>3. todo[c] = {} /\ channel[c] = {} /\ got[c] = {}
    BY <2>1 DEF CallInv, NothingYet
  <2>4. at[c] \in Shards /\ taken[c] = 0
    BY <2>1 DEF CountInv, Position
  <2>5. count[c] \in Nat
    BY <2>4 DEF CountInv, Position, NumberType
  <2> DEFINE There == NamesOf(Entries(items))
             InShard(S) == {n \in S : ShardOf[n] = at[c]}
  <2>6. Counted(c) = Cardinality(InShard(There)) /\ There \in SUBSET Names
    BY CountedKeys
  <2>7. /\ Cardinality(Before(Names, at[c])) \in Nat
        /\ Cardinality(Before(Names, at[c] + 1))
             = Cardinality(Before(Names, at[c])) + Cardinality(InShard(Names))
    BY <2>4, BeforeNext
  <2>8. /\ Cardinality(InShard(There)) \in Nat
        /\ Cardinality(InShard(Names)) \in Nat
        /\ Cardinality(InShard(There)) <= Cardinality(InShard(Names))
    <3>1. InShard(Names) \in SUBSET Names /\ InShard(There) \in SUBSET InShard(Names)
      BY <2>6
    <3>2. IsFiniteSet(InShard(Names))
      BY <3>1, FS_Subset
    <3>3. IsFiniteSet(InShard(There))
      BY <3>1, <3>2, FS_Subset
    <3>4. QED
      BY <3>1, <3>2, <3>3, FS_Subset, FS_CardinalityType
  <2>9. CollectedOnce(c)'
    BY <2>1, <2>3 DEF CollectedOnce, Collected
  <2>10. Position(c)'
    <3>1. count'[c] <= Cardinality(Before(Names, at'[c]))
      BY <2>1, <2>5, <2>6, <2>7, <2>8 DEF CountInv, Position
    <3>2. 0 <= taken'[c] /\ taken'[c] <= count'[c] /\ taken'[c] = 0
      BY <2>1, <2>4, <2>5, <2>6, <2>8
    <3>3. /\ stage'[c] # "idle"
          /\ stage'[c] = "count" => at'[c] \in Shards
          /\ stage'[c] = "collect" => at'[c] = ShardCount + 1
      BY <2>1, <2>2, <2>4 DEF Shards
    <3>4. QED
      BY <3>1, <3>2, <3>3 DEF Position, Before
  <2>11. CountsAlways(c)'
    <3>1. SUFFICES ASSUME Undisturbed(c)
                   PROVE  CountsAlways(c)'
      BY <2>1 DEF CountsAlways, Undisturbed
    <3>2. always[c] \subseteq There /\ Entries(items) \subseteq ever[c]
      BY <2>1 DEF CallInv, HistoryHolds, UnderWay
    <3>3. There = always[c]
      BY <3>1, <3>2 DEF Undisturbed, NamesOf
    <3>4. /\ Cardinality(Before(always[c], at[c])) \in Nat
          /\ Cardinality(Before(always[c], at[c] + 1))
               = Cardinality(Before(always[c], at[c])) + Cardinality(InShard(always[c]))
      BY <2>4, <2>6, <3>3, BeforeNext
    <3>5. count[c] = Cardinality(Before(always[c], at[c]))
      BY <2>1, <3>1 DEF CountInv, CountsAlways, UnderWay
    <3>6. count'[c] = Cardinality(Before(always[c], at[c] + 1))
      BY <2>1, <2>6, <3>3, <3>4, <3>5
    <3>7. taken'[c] = Cardinality(got'[c])
      BY <2>1, <2>3, <2>4, FS_EmptySet
    <3>8. ~(stage'[c] = "returned" /\ kind'[c] = "Keys")
      BY <2>1, <2>2
    <3>9. QED
      BY <2>1, <3>6, <3>7, <3>8 DEF CountsAlways, UnderWay, Before
  <2>12. QED
    BY <2>9, <2>10, <2>11 DEF CountInv
<1>3. CASE Receive(c)
  <2>1. PICK e \in channel[c] : /\ channel' = [channel EXCEPT ![c] = @ \ {e}]
                                /\ got' = [got EXCEPT ![c] = @ \cup {e}]
    BY <1>3 DEF Receive
  <2>2. /\ channel'[c] = channel[c] \ {e} /\ got'[c] = got[c] \cup {e}
        /\ kind[c] = "Keys" => taken[c] < count[c]
        /\ taken'[c] = IF kind[c] = "Keys" THEN taken[c] + 1 ELSE taken[c]
        /\ UNCHANGED <<items, kind, stage, at, count, collector, todo, always, ever>>
    BY <1>3, <2>1 DEF Receive, Receiving, MapType, NumberType
  <2>3. Collected(c)' = Collected(c)
    BY <2>2 DEF Collected
  <2>4. CollectedOnce(c)'
    BY <2>2, <2>3 DEF CountInv, CollectedOnce
  <2>5. stage[c] = "collect"
    BY <1>3 DEF Receive, Receiving
  <2>6. Position(c)'
    BY <2>2, <2>5 DEF CountInv, Position, NumberType, Before
  <2>7. CountsAlways(c)'
    <3>1. IsFiniteSet(got[c])
      <4>1. \A d, f \in got[c] : d[1] = f[1] => d = f
        BY DEF CountInv, CollectedOnce, Collected
      <4>2. QED
        BY <4>1, OneNameEach DEF MapType
    <3>2. e \notin got[c]
      BY DEF CountInv, CollectedOnce
    <3>3. Cardinality(got'[c]) = Cardinality(got[c]) + 1
      BY <2>2, <3>1, <3>2, FS_AddElement
    <3>4. QED
      BY <2>2, <2>5, <3>3 DEF CountInv, CountsAlways, Undisturbed, UnderWay, Before
  <2>8. QED
    BY <2>4, <2>6, <2>7 DEF CountInv
<1>4. CASE ReceiveEmpty(c)
  <2>1. /\ stage[c] = "collect" /\ kind[c] = "Keys" /\ taken[c] < count[c]
        /\ channel[c] = {} /\ AllDone(c)
    BY <1>4 DEF ReceiveEmpty, Receiving
  <2>2. /\ taken'[c] = taken[c] + 1
        /\ UNCHANGED <<kind, stage, at, count, collector, todo, channel, got, always, ever>>
    BY <1>4 DEF ReceiveEmpty, NumberType
  <2>3. ~Undisturbed(c)
    BY <2>1, AllReceived DEF NumberType
  <2>4. CountsAlways(c)'
    BY <2>2, <2>3 DEF CountsAlways, Undisturbed
  <2>5. CollectedOnce(c)'
    BY <2>2 DEF CountInv, CollectedOnce, Collected
  <2>6. Position(c)'
    BY <2>1, <2>2 DEF CountInv, Position, NumberType, Before
  <2>7. QED
    BY <2>4, <2>5, <2>6 DEF CountInv
<1>5. CASE KeysReturns(c) \/ ItemsReturns(c)
  <2>1. /\ stage[c] = "collect" /\ stage'[c] = "returned"
        /\ UNCHANGED <<kind, at, count, taken, collector, todo, channel, got, always, ever>>
    BY <1>5 DEF KeysReturns, ItemsReturns, Returns, collectVars, MapType
  <2>2. CollectedOnce(c)' /\ Position(c)'
    BY <2>1 DEF CountInv, CollectedOnce, Collected, Position, Before
  <2>3. CountsAlways(c)'
    <3>1. SUFFICES ASSUME Undisturbed(c), kind[c] = "Keys"
                   PROVE  NamesOf(got[c]) = always[c]
      BY <2>1 DEF CountsAlways, Undisturbed, UnderWay
    <3>2. taken[c] = count[c]
      BY <1>5, <3>1 DEF KeysReturns, ItemsReturns
    <3>3. Cardinality(always[c]) = Cardinality(NamesOf(got[c]))
      BY <2>1, <3>1, <3>2, KeysReceived
    <3>4. IsFiniteSet(always[c]) /\ NamesOf(got[c]) \in SUBSET always[c]
      BY <2>1, <3>1, KeysReceived
    <3>5. QED
      BY <3>3, <3>4, FS_Subset
  <2>4. QED
    BY <2>2, <2>3 DEF CountInv
<1>6. CASE Forget(c)
  <2>1. /\ stage'[c] = "idle" /\ at'[c] = 1 /\ count'[c] = 0 /\ taken'[c] = 0
        /\ todo'[c] = {} /\ channel'[c] = {} /\ got'[c] = {}
    BY <1>6 DEF Forget, MapType, NumberType
  <2>2. CollectedOnce(c)'
    BY <2>1 DEF CollectedOnce, Collected
  <2>3. Cardinality(Before(Names, 1)) = 0
    BY BeforeEnds
  <2>4. Position(c)'
    BY <2>1, <2>3 DEF Position, Before
  <2>5. CountsAlways(c)'
    BY <2>1 DEF CountsAlways, UnderWay
  <2>6. QED
    BY <2>2, <2>4, <2>5 DEF CountInv
<1>7. QED
  BY <1>1, <1>2, <1>3, <1>4, <1>5, <1>6 DEF Caller

\* A step that is neither a write nor of this call leaves its count alone.
LEMMA OthersCount ==
  ASSUME NEW c \in Calls, CountInv(c), UNCHANGED Own(c), UNCHANGED OwnNumbers(c)
  PROVE  CountInv(c)'
BY DEF Own, OwnNumbers, CountInv, CollectedOnce, Collected, Position, CountsAlways,
       Undisturbed, UnderWay, Before

\* No step takes a number out of its type.
LEMMA NumberTypeStep ==
  ASSUME MapType, NumberType, \A c \in Calls : CountInv(c), Next
  PROVE  NumberType'
<1> USE MapAssumption DEF NumberType
<1>1. ASSUME NEW c \in Calls, CountShard(c)
      PROVE  NumberType'
  <2>1. at[c] \in Shards /\ at[c] + 1 \in Shards \cup {ShardCount + 1}
    BY <1>1 DEF CountShard, CountInv, Position, Shards
  <2>2. Counted(c) \in Int
    <3> DEFINE There == NamesOf(Entries(items))
    <3>1. Counted(c) = Cardinality({n \in There : ShardOf[n] = at[c]})
          /\ There \in SUBSET Names
      BY CountedKeys
    <3>2. Cardinality({n \in There : ShardOf[n] = at[c]}) \in Nat
      BY <2>1, <3>1, BeforeNext
    <3>3. QED
      BY <3>1, <3>2
  <2>3. QED
    BY <1>1, <2>1, <2>2 DEF CountShard
<1>2. ASSUME NEW c \in Calls,
             \/ Receive(c) \/ ReceiveEmpty(c) \/ KeysReturns(c) \/ ItemsReturns(c)
             \/ Forget(c) \/ \E k \in {"Count", "Keys", "Items"} : Call(c, k)
             \/ \E s \in Shards : Collector(c, s)
      PROVE  NumberType'
  <2>1. CASE Receive(c) \/ ReceiveEmpty(c)
    BY <2>1 DEF Receive, ReceiveEmpty
  <2>2. CASE KeysReturns(c) \/ ItemsReturns(c)
    BY <2>2 DEF KeysReturns, ItemsReturns, Returns, collectVars
  <2>3. CASE Forget(c)
    <3>1. /\ leaked' \subseteq Shards
          /\ at' = [at EXCEPT ![c] = 1] /\ count' = [count EXCEPT ![c] = 0]
          /\ taken' = [taken EXCEPT ![c] = 0]
      BY <2>3 DEF Forget
    <3>2. 1 \in Shards
      BY DEF Shards
    <3>3. QED
      BY <3>1, <3>2
  <2>4. CASE \E k \in {"Count", "Keys", "Items"} : Call(c, k)
    BY <2>4 DEF Call, collectVars
  <2>5. CASE \E s \in Shards : Collector(c, s)
    BY <2>5 DEF Collector, StartRange, Send, EndRange
  <2>6. QED
    BY <1>2, <2>1, <2>2, <2>3, <2>4, <2>5
<1>3. ASSUME \/ \E w \in Writers : Apply(w)
             \/ \E w \in Writers, n \in Names :
                  Remove(w, n) \/ \E v \in Values, b \in BOOLEAN : SetTo(w, n, v, b)
      PROVE  NumberType'
  BY <1>3 DEF Apply, Remove, SetTo, callVars, collectVars
<1>4. QED
  BY <1>1, <1>2, <1>3 DEF Next, Caller

\* The calls work on variables of their own.
LEMMA CallsApart ==
  ASSUME MapType, NumberType, NEW c \in Calls, NEW d \in Calls, d # c,
         \/ Caller(d) \/ Forget(d)
         \/ \E k \in {"Count", "Keys", "Items"} : Call(d, k)
         \/ \E s \in Shards : Collector(d, s)
  PROVE  UNCHANGED Own(c) /\ UNCHANGED OwnNumbers(c)
<1> USE DEF Own, OwnNumbers, MapType, NumberType
<1>1. CASE \E k \in {"Count", "Keys", "Items"} : Call(d, k)
  BY <1>1 DEF Call, collectVars
<1>2. CASE CountShard(d)
  BY <1>2 DEF CountShard
<1>3. CASE Receive(d) \/ ReceiveEmpty(d)
  BY <1>3 DEF Receive, ReceiveEmpty
<1>4. CASE KeysReturns(d) \/ ItemsReturns(d)
  BY <1>4 DEF KeysReturns, ItemsReturns, Returns, collectVars
<1>5. CASE Forget(d)
  BY <1>5 DEF Forget
<1>6. CASE \E s \in Shards : Collector(d, s)
  BY <1>6 DEF Collector, StartRange, Send, EndRange, Moves
<1>7. QED
  BY <1>1, <1>2, <1>3, <1>4, <1>5, <1>6 DEF Caller

\* Every step keeps the count of every call.
LEMMA CountInvStep ==
  ASSUME MapInv, CountsInv, Next, NEW c \in Calls
  PROVE  CountInv(c)'
<1>1. /\ MapType /\ MapType' /\ CallInv(c)
      /\ NumberType /\ CountInv(c)
  BY MapTypeStep DEF MapInv, CountsInv
<1>2. CASE \E w \in Writers : Apply(w)
  BY <1>1, <1>2, ApplyCount
<1>3. CASE \E w \in Writers, n \in Names :
             Remove(w, n) \/ \E v \in Values, b \in BOOLEAN : SetTo(w, n, v, b)
  BY <1>1, <1>3, OthersCount DEF Remove, SetTo, callVars, collectVars, Own, OwnNumbers
<1>4. ASSUME NEW d \in Calls,
             \/ Caller(d) \/ Forget(d)
             \/ \E k \in {"Count", "Keys", "Items"} : Call(d, k)
             \/ \E s \in Shards : Collector(d, s)
      PROVE  CountInv(c)'
  <2>1. CASE d = c
    BY <1>1, <1>4, <2>1, CallerCount, CollectorCount
  <2>2. CASE d # c
    <3>1. UNCHANGED Own(c) /\ UNCHANGED OwnNumbers(c)
      BY <1>1, <1>4, <2>2, CallsApart
    <3>2. QED
      BY <1>1, <3>1, OthersCount
  <2>3. QED
    BY <2>1, <2>2
<1>5. QED
  BY <1>2, <1>3, <1>4 DEF Next

\* The numbers of every call are right as long as the rest is.
THEOREM CountInvariance == Spec => []CountsInv
<1>1. ASSUME Init
      PROVE  CountsInv
  <2>1. NumberType
    BY <1>1, MapAssumption DEF Init, NumberType, Shards
  <2>2. ASSUME NEW c \in Calls
        PROVE  CountInv(c)
    <3>1. /\ stage[c] = "idle" /\ at[c] = 1 /\ count[c] = 0 /\ taken[c] = 0
          /\ todo[c] = {} /\ channel[c] = {} /\ got[c] = {}
      BY <1>1 DEF Init
    <3>2. Cardinality(Before(Names, 1)) = 0
      BY BeforeEnds
    <3>3. Position(c)
      BY <3>1, <3>2 DEF Position
    <3>4. QED
      BY <3>1, <3>3 DEF CountInv, CollectedOnce, Collected, CountsAlways, UnderWay
  <2>3. QED
    BY <2>1, <2>2 DEF CountsInv
<1>2. MapInv /\ CountsInv /\ Next => CountsInv'
  BY NumberTypeStep, CountInvStep DEF MapInv, CountsInv
<1>3. ASSUME CountsInv, UNCHANGED vars
      PROVE  CountsInv'
  <2>1. NumberType'
    BY <1>3 DEF CountsInv, NumberType, vars, callVars, collectVars
  <2>2. ASSUME NEW c \in Calls
        PROVE  CountInv(c)'
    BY <1>3, OthersCount DEF CountsInv, vars, callVars, collectVars, Own, OwnNumbers
  <2>3. QED
    BY <2>1, <2>2 DEF CountsInv
<1>4. QED
  BY <1>1, <1>2, <1>3, Invariance, PTL DEF Spec

\* Keys returns all keys, and no empty ones, if none comes or goes while it
\* runs; it never returns one that was not there.
THEOREM KeysIsConsistent == Spec => []KeysConsistent
<1>1. MapInv /\ CountsInv => KeysConsistent
  BY DEF MapInv, CountsInv, CallInv, CollectedWasThere, CountInv, CountsAlways, Undisturbed,
         KeysConsistent
<1>2. QED
  BY <1>1, Invariance, CountInvariance, PTL

\* Every variable keeps its type, and nothing counts or receives more keys
\* than there can be.
THEOREM TypeCorrect == Spec => []TypeOK
<1>1. ASSUME MapInv, CountsInv
      PROVE  TypeOK
  <2>1. ASSUME NEW c \in Calls
        PROVE  /\ at[c] \in 1 .. ShardCount + 1
               /\ count[c] \in 0 .. Cardinality(Names)
               /\ taken[c] \in 0 .. Cardinality(Names)
    <3>1. at[c] \in Shards \cup {ShardCount + 1} /\ Position(c)
          /\ count[c] \in Int /\ taken[c] \in Int
      BY <1>1 DEF CountsInv, NumberType, CountInv
    <3>2. at[c] \in 1 .. ShardCount + 1
      BY <3>1, MapAssumption DEF Shards
    <3>3. /\ Before(Names, at[c]) \in SUBSET Names
          /\ IsFiniteSet(Names) /\ Cardinality(Names) \in Nat
      BY MapAssumption, FS_CardinalityType DEF Before
    <3>4. /\ Cardinality(Before(Names, at[c])) \in Nat
          /\ Cardinality(Before(Names, at[c])) <= Cardinality(Names)
      BY <3>3, FS_Subset, FS_CardinalityType
    <3>5. QED
      BY <3>1, <3>2, <3>3, <3>4 DEF Position
  <2>2. MapType /\ NumberType
    BY <1>1 DEF MapInv, CountsInv
  <2>3. QED
    BY <2>1, <2>2 DEF TypeOK, MapType, NumberType
<1>2. QED
  BY <1>1, Invariance, CountInvariance, PTL

-----------------------------------------------------------------------------
(* What a result says about a map that changes meanwhile *)

\* Of the shards it has passed, a call has counted every key that was there
\* all the time, and none that never was (concurrent.go:94-103).
CountedBetween(c) ==
  /\ UnderWay(c) => /\ Cardinality(Before(always[c], at[c])) <= count[c]
                    /\ count[c] <= Cardinality(Before(NamesOf(ever[c]), at[c]))
  /\ stage[c] = "returned" => /\ Cardinality(always[c]) <= count[c]
                              /\ count[c] <= Cardinality(NamesOf(ever[c]))

\* What Count returns lies between the number of keys that were there all the
\* time and the number of those that were there at some time.
CountBetween == \A c \in Calls : CountedBetween(c)

\* The map does not change during a call if no key comes or goes, or has two
\* values.
Unchanged(c) == /\ Undisturbed(c)
                /\ \A d, e \in ever[c] : d[1] = e[1] => d = e

\* Items never gets two values of a key, of which its map would keep the one
\* received last; and of a map that does not change it returns all of it.
ItemsSnapshot ==
  \A c \in Calls : stage[c] = "returned" /\ kind[c] = "Items"
    => /\ \A d, e \in got[c] : d[1] = e[1] => d = e
       /\ Unchanged(c) => got[c] = ever[c]

\* More keys are no fewer, in all shards and in the first ones.
LEMMA MoreKeys ==
  ASSUME NEW S \in SUBSET Names, NEW T \in SUBSET S, NEW s
  PROVE  /\ Cardinality(T) \in Nat /\ Cardinality(S) \in Nat
         /\ Cardinality(T) <= Cardinality(S)
         /\ Cardinality(Before(T, s)) \in Nat /\ Cardinality(Before(S, s)) \in Nat
         /\ Cardinality(Before(T, s)) <= Cardinality(Before(S, s))
<1>1. IsFiniteSet(S)
  BY MapAssumption, FS_Subset
<1>2. Before(S, s) \in SUBSET S /\ Before(T, s) \in SUBSET Before(S, s)
  BY DEF Before
<1>3. IsFiniteSet(T) /\ IsFiniteSet(Before(S, s))
  BY <1>1, <1>2, FS_Subset
<1>4. IsFiniteSet(Before(T, s))
  BY <1>2, <1>3, FS_Subset
<1>5. Cardinality(T) <= Cardinality(S)
  BY <1>1, FS_Subset
<1>6. Cardinality(Before(T, s)) <= Cardinality(Before(S, s))
  BY <1>2, <1>3, FS_Subset
<1>7. QED
  BY <1>1, <1>3, <1>4, <1>5, <1>6, FS_CardinalityType

\* The histories of a call are about keys.
LEMMA HistoryKeys ==
  ASSUME MapType, NEW c \in Calls
  PROVE  always[c] \in SUBSET Names /\ NamesOf(ever[c]) \in SUBSET Names
BY DEF MapType, AllEntries, NamesOf

\* A write takes keys out of the one history and puts them into the other.
LEMMA ApplyBetween ==
  ASSUME MapType, MapType', NumberType, NEW c \in Calls, CountedBetween(c),
         NEW w \in Writers, Apply(w)
  PROVE  CountedBetween(c)'
<1>1. UNCHANGED <<stage, at, count>>
  BY DEF Apply, collectVars
<1>2. CASE ~UnderWay(c)
  <2>1. always'[c] = always[c] /\ ever'[c] = ever[c]
    BY <1>2 DEF Apply, MapType
  <2>2. QED
    BY <1>1, <1>2, <2>1 DEF CountedBetween, UnderWay
<1>3. CASE UnderWay(c)
  <2>1. /\ always'[c] = always[c] \cap NamesOf(Entries(items'))
        /\ ever'[c] = ever[c] \cup Entries(items')
    BY <1>3 DEF Apply, MapType
  <2>2. /\ always[c] \in SUBSET Names /\ always'[c] \in SUBSET always[c]
        /\ NamesOf(ever'[c]) \in SUBSET Names
        /\ NamesOf(ever[c]) \in SUBSET NamesOf(ever'[c])
    BY <2>1, HistoryKeys DEF MapType, AllEntries, NamesOf
  <2>3. /\ Cardinality(Before(always'[c], at[c])) \in Nat
        /\ Cardinality(Before(always[c], at[c])) \in Nat
        /\ Cardinality(Before(always'[c], at[c])) <= Cardinality(Before(always[c], at[c]))
    BY <2>2, MoreKeys
  <2>4. /\ Cardinality(Before(NamesOf(ever[c]), at[c])) \in Nat
        /\ Cardinality(Before(NamesOf(ever'[c]), at[c])) \in Nat
        /\ Cardinality(Before(NamesOf(ever[c]), at[c]))
             <= Cardinality(Before(NamesOf(ever'[c]), at[c]))
    BY <2>2, MoreKeys
  <2>5. /\ Cardinality(Before(always[c], at[c])) <= count[c]
        /\ count[c] <= Cardinality(Before(NamesOf(ever[c]), at[c]))
        /\ count[c] \in Int
    BY <1>3 DEF CountedBetween, NumberType
  <2>6. /\ Cardinality(Before(always'[c], at[c])) <= count[c]
        /\ count[c] <= Cardinality(Before(NamesOf(ever'[c]), at[c]))
    BY <2>3, <2>4, <2>5
  <2>7. stage'[c] # "returned" /\ at'[c] = at[c] /\ count'[c] = count[c]
    BY <1>1, <1>3 DEF UnderWay
  <2>8. Before(always[c], at[c])' = Before(always'[c], at[c])
        /\ Before(NamesOf(ever[c]), at[c])' = Before(NamesOf(ever'[c]), at[c])
    BY <2>7 DEF Before, NamesOf
  <2>9. QED
    BY <2>6, <2>7, <2>8 DEF CountedBetween
<1>4. QED
  BY <1>2, <1>3

\* What a shard holds is between what was there always and what was ever.
LEMMA CountShardBetween ==
  ASSUME MapType, NumberType, NEW c \in Calls, CallInv(c), CountInv(c),
         CountedBetween(c), CountShard(c)
  PROVE  CountedBetween(c)'
<1> USE MapAssumption
<1> DEFINE There == NamesOf(Entries(items))
           Ever == NamesOf(ever[c])
           InShard(S) == {n \in S : ShardOf[n] = at[c]}
<1>1. /\ stage[c] = "count" /\ at[c] \in Shards
      /\ count'[c] = count[c] + Counted(c) /\ at'[c] = at[c] + 1
      /\ UNCHANGED <<always, ever>>
  BY DEF CountShard, MapType, NumberType, CountInv, Position
<1>2. /\ at[c] < ShardCount => stage'[c] = "count"
      /\ ~(at[c] < ShardCount) => stage'[c] \in {"returned", "collect"}
  BY DEF CountShard, MapType
<1>3. /\ Counted(c) = Cardinality(InShard(There)) /\ There \in SUBSET Names
      /\ always[c] \in SUBSET Names /\ Ever \in SUBSET Names
  BY CountedKeys, HistoryKeys
<1>4. always[c] \subseteq There /\ There \subseteq Ever
  BY <1>1 DEF CallInv, HistoryHolds, UnderWay, NamesOf
<1>5. /\ InShard(Ever) \in SUBSET Names /\ InShard(There) \in SUBSET InShard(Ever)
      /\ InShard(There) \in SUBSET Names /\ InShard(always[c]) \in SUBSET InShard(There)
  BY <1>3, <1>4
<1>6. /\ Cardinality(InShard(always[c])) <= Cardinality(InShard(There))
      /\ Cardinality(InShard(There)) <= Cardinality(InShard(Ever))
      /\ Cardinality(InShard(There)) \in Nat
  BY <1>5, MoreKeys
<1>7. /\ Cardinality(Before(always[c], at[c])) \in Nat
      /\ Cardinality(InShard(always[c])) \in Nat
      /\ Cardinality(Before(always[c], at[c] + 1))
           = Cardinality(Before(always[c], at[c])) + Cardinality(InShard(always[c]))
  BY <1>1, <1>3, BeforeNext
<1>8. /\ Cardinality(Before(Ever, at[c])) \in Nat
      /\ Cardinality(InShard(Ever)) \in Nat
      /\ Cardinality(Before(Ever, at[c] + 1))
           = Cardinality(Before(Ever, at[c])) + Cardinality(InShard(Ever))
  BY <1>1, <1>3, BeforeNext
<1>9. /\ Cardinality(Before(always[c], at[c])) <= count[c]
      /\ count[c] <= Cardinality(Before(Ever, at[c]))
      /\ count[c] \in Int
  BY <1>1 DEF CountedBetween, UnderWay, NumberType
<1>10. /\ Cardinality(Before(always[c], at'[c])) <= count'[c]
       /\ count'[c] <= Cardinality(Before(Ever, at'[c]))
  <2> HIDE DEF There, Ever, InShard
  <2>1. QED
    BY <1>1, <1>3, <1>6, <1>7, <1>8, <1>9
<1>11. Before(always[c], at[c])' = Before(always[c], at'[c])
       /\ Before(NamesOf(ever[c]), at[c])' = Before(Ever, at'[c])
  BY <1>1 DEF Before, NamesOf
<1>12. CASE at[c] < ShardCount
  BY <1>2, <1>10, <1>11, <1>12 DEF CountedBetween
<1>13. CASE ~(at[c] < ShardCount)
  <2>1. at'[c] = ShardCount + 1
    BY <1>1, <1>13 DEF Shards
  <2>2. Before(always[c], at'[c]) = always[c] /\ Before(Ever, at'[c]) = Ever
    BY <1>3, <2>1, BeforeEnds
  <2>3. always'[c] = always[c] /\ NamesOf(ever'[c]) = Ever
    BY <1>1
  <2>4. /\ Cardinality(always'[c]) <= count'[c]
        /\ count'[c] <= Cardinality(NamesOf(ever'[c]))
    BY <1>10, <2>2, <2>3
  <2>5. QED
    BY <1>10, <1>11, <2>4 DEF CountedBetween
<1>14. QED
  BY <1>12, <1>13

\* After counting, a call's count stays and so do its histories.
LEMMA CallBetween ==
  ASSUME MapType, NumberType, NEW c \in Calls, CallInv(c), CountInv(c),
         CountedBetween(c),
         \/ Caller(c) \/ Forget(c)
         \/ \E k \in {"Count", "Keys", "Items"} : Call(c, k)
         \/ \E s \in Shards : Collector(c, s)
  PROVE  CountedBetween(c)'
<1>1. CASE \E k \in {"Count", "Keys", "Items"} : Call(c, k)
  <2>1. /\ stage[c] = "idle" /\ stage'[c] = "count"
        /\ always'[c] = NamesOf(Entries(items)) /\ ever'[c] = Entries(items)
        /\ UNCHANGED <<at, count>>
    BY <1>1 DEF Call, MapType
  <2>2. at[c] = 1 /\ count[c] = 0
    <3>1. at[c] = 1 /\ 0 <= count[c] /\ count[c] <= Cardinality(Before(Names, 1))
      BY <2>1 DEF CountInv, Position, NumberType
    <3>2. QED
      BY <3>1, BeforeEnds DEF NumberType
  <2>3. always'[c] \in SUBSET Names /\ NamesOf(ever'[c]) \in SUBSET Names
    BY <2>1, CountedKeys
  <2>4. /\ Cardinality(Before(always'[c], 1)) = 0
        /\ Cardinality(Before(NamesOf(ever'[c]), 1)) = 0
    BY <2>3, BeforeEnds
  <2>5. Before(always[c], at[c])' = Before(always'[c], 1)
        /\ Before(NamesOf(ever[c]), at[c])' = Before(NamesOf(ever'[c]), 1)
    BY <2>1, <2>2 DEF Before, NamesOf
  <2>6. QED
    BY <2>1, <2>2, <2>4, <2>5 DEF CountedBetween
<1>2. CASE CountShard(c)
  BY <1>2, CountShardBetween
<1>3. CASE \/ Receive(c) \/ ReceiveEmpty(c)
           \/ \E s \in Shards : Collector(c, s)
  <2>1. UNCHANGED <<stage, at, count, always, ever>>
    BY <1>3 DEF Receive, ReceiveEmpty, Collector, StartRange, Send, EndRange
  <2>2. QED
    BY <2>1 DEF CountedBetween, UnderWay, Before
<1>4. CASE KeysReturns(c) \/ ItemsReturns(c)
  <2>1. /\ stage[c] = "collect" /\ stage'[c] = "returned"
        /\ UNCHANGED <<at, count, always, ever>>
    BY <1>4 DEF KeysReturns, ItemsReturns, Returns, collectVars, MapType
  <2>2. at[c] = ShardCount + 1
    BY <2>1 DEF CountInv, Position
  <2>3. Before(always[c], at[c]) = always[c] /\ Before(NamesOf(ever[c]), at[c]) = NamesOf(ever[c])
    BY <2>2, HistoryKeys, BeforeEnds
  <2>4. QED
    BY <2>1, <2>3 DEF CountedBetween, UnderWay
<1>5. CASE Forget(c)
  BY <1>5 DEF Forget, CountedBetween, UnderWay, MapType
<1>6. QED
  BY <1>1, <1>2, <1>3, <1>4, <1>5 DEF Caller

\* Whatever is written meanwhile, Count returns no fewer keys than were in
\* the map from its beginning to its end, and no more than were in it at all
\* (so IsEmpty is false of a map that keeps a key, concurrent.go:137-139);
\* nor does the count that Keys and Items begin with.
THEOREM CountIsBetween == Spec => []CountBetween
<1>1. Init => CountBetween
  BY DEF Init, CountBetween, CountedBetween, UnderWay
<1>2. ASSUME MapInv, CountsInv, CountBetween, Next, NEW c \in Calls
      PROVE  CountedBetween(c)'
  <2>1. /\ MapType /\ MapType' /\ NumberType
        /\ CallInv(c) /\ CountInv(c) /\ CountedBetween(c)
    BY <1>2, MapTypeStep DEF MapInv, CountsInv, CountBetween
  <2>2. CASE \E w \in Writers : Apply(w)
    BY <2>1, <2>2, ApplyBetween
  <2>3. ASSUME UNCHANGED Own(c), UNCHANGED OwnNumbers(c)
        PROVE  CountedBetween(c)'
    BY <2>1, <2>3 DEF Own, OwnNumbers, CountedBetween, UnderWay, Before
  <2>4. CASE \E w \in Writers, n \in Names :
               Remove(w, n) \/ \E v \in Values, b \in BOOLEAN : SetTo(w, n, v, b)
    BY <2>3, <2>4 DEF Remove, SetTo, callVars, collectVars, Own, OwnNumbers
  <2>5. ASSUME NEW d \in Calls,
               \/ Caller(d) \/ Forget(d)
               \/ \E k \in {"Count", "Keys", "Items"} : Call(d, k)
               \/ \E s \in Shards : Collector(d, s)
        PROVE  CountedBetween(c)'
    <3>1. CASE d = c
      BY <2>1, <2>5, <3>1, CallBetween
    <3>2. CASE d # c
      BY <2>1, <2>3, <2>5, <3>2, CallsApart
    <3>3. QED
      BY <3>1, <3>2
  <2>6. QED
    BY <1>2, <2>2, <2>4, <2>5 DEF Next
<1>3. MapInv /\ CountsInv /\ CountBetween /\ [Next]_vars => CountBetween'
  <2>1. CASE Next
    BY <1>2, <2>1 DEF CountBetween
  <2>2. CASE UNCHANGED vars
    BY <2>2 DEF CountBetween, CountedBetween, UnderWay, Before, vars, callVars, collectVars
  <2>3. QED
    BY <2>1, <2>2
<1>4. QED
  BY <1>1, <1>3, Invariance, CountInvariance, PTL DEF Spec

\* Items returns one value of each key, and the whole map if nothing changes
\* while it runs.
THEOREM ItemsIsSnapshot == Spec => []ItemsSnapshot
<1>1. ASSUME MapInv, CountsInv
      PROVE  ItemsSnapshot
  <2>1. SUFFICES ASSUME NEW c \in Calls, stage[c] = "returned", kind[c] = "Items"
                 PROVE  /\ \A d, e \in got[c] : d[1] = e[1] => d = e
                        /\ Unchanged(c) => got[c] = ever[c]
    BY DEF ItemsSnapshot
  <2>2. \A d, e \in got[c] : d[1] = e[1] => d = e
    BY <1>1 DEF CountsInv, CountInv, CollectedOnce, Collected
  <2>3. always[c] \subseteq NamesOf(got[c]) /\ got[c] \subseteq ever[c]
    BY <1>1, <2>1 DEF MapInv, CallInv, CollectedWasThere, ResultHolds
  <2>4. ASSUME Unchanged(c), NEW e \in ever[c]
        PROVE  e \in got[c]
    <3>1. e[1] \in NamesOf(got[c])
      BY <2>3, <2>4 DEF Unchanged, Undisturbed, NamesOf
    <3>2. PICK d \in got[c] : d[1] = e[1]
      BY <3>1 DEF NamesOf
    <3>3. QED
      BY <2>3, <2>4, <3>2 DEF Unchanged
  <2>5. QED
    BY <2>2, <2>3, <2>4
<1>2. QED
  BY <1>1, Invariance, CountInvariance, PTL

-----------------------------------------------------------------------------
(* Nobody waits for ever *)

\* A call of Count or Items returns with its collectors gone and nothing left
\* in their channel (concurrent.go:174-207): only Keys leaves some behind.
LeavesNothing(c) ==
  stage[c] = "returned" /\ kind[c] # "Keys" => AllDone(c) /\ channel[c] = {}

\* No call of Count or Items leaves anything behind.
ItemsLeavesNothing == \A c \in Calls : LeavesNothing(c)

\* A write that waits and finds its shard free.
CanApply(w) == pending[w] # None /\ ~ReadLocked(ShardOf[pending[w].name])

\* A call that has a shard to count and no writer before it, an entry or the
\* end of the channel to receive, or all it returns.
CanCall(c) == \/ stage[c] = "count" /\ ~WriterWaits(at[c])
              \/ Receiving(c) /\ channel[c] # {}
              \/ Receiving(c) /\ channel[c] = {} /\ AllDone(c)
              \/ stage[c] = "collect" /\ kind[c] = "Keys" /\ taken[c] = count[c]

\* A collector that can lock its shard, send or end.
CanCollect(c, s) ==
  \/ collector[c][s] = "ready" /\ ~WriterWaits(s)
  \/ collector[c][s] = "ranging" /\ (TodoIn(c, s) = {} \/ Room(c))

\* Writers wait for collectors, collectors for writers and for room, and calls
\* for both, and yet they never all wait for each other, unless a call of
\* Keys has left a collector blocked behind (concurrent.go:228-254): what
\* CallsReturn says but for the fairness of locks and scheduler.
SomeoneGoesOn ==
  (\E w \in Writers : pending[w] # None) \/ (\E c \in Calls : UnderWay(c))
    => \/ \E w \in Writers : CanApply(w)
       \/ \E c \in Calls : CanCall(c) \/ \E s \in Shards : CanCollect(c, s)
       \/ SomeLeftBlocked

\* Collectors end before the call that waits for them returns.
LEMMA LeavesNothingStep ==
  ASSUME MapInv, CountsInv, ItemsLeavesNothing, [Next]_vars
  PROVE  ItemsLeavesNothing'
<1> SUFFICES ASSUME NEW c \in Calls
             PROVE  LeavesNothing(c)'
  BY DEF ItemsLeavesNothing
<1>1. MapType /\ NumberType /\ CallInv(c) /\ LeavesNothing(c)
  BY DEF MapInv, CountsInv, ItemsLeavesNothing
<1> USE DEF LeavesNothing, AllDone
<1>2. CASE UNCHANGED Own(c)
  BY <1>1, <1>2 DEF Own
<1>3. CASE CountShard(c)
  <2>1. /\ stage[c] = "count" /\ kind' = kind /\ channel' = channel
        /\ stage'[c] = "returned" => collector' = collector
    BY <1>1, <1>3 DEF CountShard, MapType
  <2>2. QED
    BY <1>1, <2>1 DEF CallInv, NothingYet, NoCollectors
<1>4. CASE KeysReturns(c) \/ ItemsReturns(c)
  BY <1>1, <1>4 DEF KeysReturns, ItemsReturns, Returns, collectVars, AllDone
<1>5. CASE Receive(c) \/ ReceiveEmpty(c)
  BY <1>5 DEF Receive, ReceiveEmpty, Receiving
<1>6. CASE Forget(c) \/ \E k \in {"Count", "Keys", "Items"} : Call(c, k)
  BY <1>1, <1>6 DEF Forget, Call, MapType
<1>7. CASE \E s \in Shards : Collector(c, s)
  BY <1>1, <1>7 DEF Collector, StartRange, Send, EndRange, Moves
<1>8. CASE \E w \in Writers : Apply(w)
  BY <1>1, <1>8 DEF Apply, collectVars
<1>9. CASE \E w \in Writers, n \in Names :
             Remove(w, n) \/ \E v \in Values, b \in BOOLEAN : SetTo(w, n, v, b)
  BY <1>2, <1>9 DEF Remove, SetTo, callVars, collectVars, Own
<1>10. CASE UNCHANGED vars
  BY <1>2, <1>10 DEF vars, callVars, collectVars, Own
<1>11. QED
  BY <1>1, <1>2, <1>3, <1>4, <1>5, <1>6, <1>7, <1>8, <1>9, <1>10, CallsApart
     DEF Next, Caller

\* Every call of Count and Items cleans up before it returns.
THEOREM CleanReturn == Spec => []ItemsLeavesNothing
<1>1. Init => ItemsLeavesNothing
  BY DEF Init, ItemsLeavesNothing, LeavesNothing
<1>2. QED
  BY <1>1, LeavesNothingStep, Invariance, CountInvariance, PTL DEF Spec

\* A collector that cannot go on waits for a caller that can, or is left
\* blocked.
LEMMA CollectorGoesOn ==
  ASSUME MapInv, CountsInv, ItemsLeavesNothing, ~SomeLeftBlocked,
         NEW c \in Calls, NEW s \in Shards, collector[c][s] = "ranging"
  PROVE  CanCall(c) \/ CanCollect(c, s)
<1>1. /\ MapType /\ CallInv(c) /\ Position(c) /\ LeavesNothing(c)
      /\ count[c] \in Int /\ taken[c] \in Int
  BY DEF MapInv, CountsInv, CountInv, NumberType, ItemsLeavesNothing
<1>2. SUFFICES ASSUME TodoIn(c, s) # {}, ~Room(c)
               PROVE  CanCall(c)
  BY DEF CanCollect
<1>3. stage[c] \in {"collect", "returned"}
  BY <1>1 DEF CallInv, NothingYet, NoCollectors, MapType
<1>4. stage[c] = "collect"
  BY <1>1, <1>2, <1>3 DEF SomeLeftBlocked, LeftBlocked, LeavesNothing, AllDone
<1>5. CASE kind[c] = "Keys" /\ taken[c] = count[c]
  BY <1>4, <1>5 DEF CanCall
<1>6. CASE Receiving(c)
  <2>1. channel[c] # {}
    BY <1>2, <1>6 DEF Room
  <2>2. QED
    BY <1>6, <2>1 DEF CanCall
<1>7. QED
  BY <1>1, <1>4, <1>5, <1>6 DEF Position, Receiving

\* The map never comes to a standstill before its writes are done and its
\* calls have returned.
THEOREM MapGoesOn == Spec => []SomeoneGoesOn
<1>1. ASSUME MapInv, CountsInv, ItemsLeavesNothing
      PROVE  SomeoneGoesOn
  <2> DEFINE Someone == \/ \E w \in Writers : CanApply(w)
                        \/ \E c \in Calls : CanCall(c) \/ \E s \in Shards : CanCollect(c, s)
  <2> SUFFICES ASSUME ~SomeLeftBlocked
               PROVE  (\E w \in Writers : pending[w] # None) \/ (\E c \in Calls : UnderWay(c))
                        => Someone
    BY DEF SomeoneGoesOn
  <2>1. ASSUME NEW w \in Writers, pending[w] # None
        PROVE  Someone
    <3>1. ShardOf[pending[w].name] \in Shards
      BY <1>1, <2>1, MapAssumption DEF MapInv, MapType, Writes
    <3>2. CASE ~ReadLocked(ShardOf[pending[w].name])
      BY <2>1, <3>2 DEF CanApply
    <3>3. CASE ReadLocked(ShardOf[pending[w].name])
      <4>1. PICK c \in Calls : collector[c][ShardOf[pending[w].name]] = "ranging"
        BY <3>3 DEF ReadLocked, SomeLeftBlocked
      <4>2. QED
        BY <1>1, <3>1, <4>1, CollectorGoesOn
    <3>4. QED
      BY <3>2, <3>3
  <2>2. ASSUME NEW c \in Calls, UnderWay(c), \A w \in Writers : pending[w] = None
        PROVE  Someone
    <3>1. \A s : ~WriterWaits(s)
      BY <2>2 DEF WriterWaits
    <3>2. CASE stage[c] = "count"
      BY <3>1, <3>2 DEF CanCall
    <3>3. ASSUME stage[c] = "collect", NEW s \in Shards, collector[c][s] # "done"
          PROVE  Someone
      <4>1. CASE collector[c][s] = "ready"
        BY <3>1, <4>1 DEF CanCollect
      <4>2. CASE collector[c][s] = "ranging"
        BY <1>1, <4>2, CollectorGoesOn
      <4>3. QED
        BY <1>1, <3>3, <4>1, <4>2 DEF MapInv, MapType
    <3>4. CASE stage[c] = "collect" /\ AllDone(c)
      <4>1. Position(c) /\ count[c] \in Int /\ taken[c] \in Int
        BY <1>1 DEF CountsInv, CountInv, NumberType
      <4>2. QED
        BY <3>4, <4>1 DEF CanCall, Receiving, Position
    <3>5. QED
      BY <2>2, <3>2, <3>3, <3>4 DEF UnderWay, AllDone
  <2>3. QED
    BY <2>1, <2>2
<1>2. QED
  BY <1>1, Invariance, CountInvariance, CleanReturn, PTL

-----------------------------------------------------------------------------
(* What a call has left to do *)

\* The shards whose collectors have not begun, and those being ranged over.
Ready(c) == {s \in Shards : collector[c][s] = "ready"}

Ranging(c) == {s \in Shards : collector[c][s] = "ranging"}

\* The keys that the collectors of a call may still find.
Ahead(c) == IF stage[c] = "count" THEN Names
                                  ELSE {n \in Names : collector[c][ShardOf[n]] = "ready"}

\* The shards to count, each collector twice, and to return.
StageEffort(c) == CASE stage[c] = "count"   -> 3 * ShardCount + 2 - at[c]
                    [] stage[c] = "collect" -> 1
                    [] OTHER                -> 0

\* A key can be found, sent and received; and Keys can receive the empty key
\* as often as it counted one.
Effort(c) == StageEffort(c) + 2 * Cardinality(Ready(c)) + Cardinality(Ranging(c))
               + 2 * Cardinality(Ahead(c)) + 2 * Cardinality(todo[c])
               + Cardinality(channel[c]) + (Cardinality(Names) - taken[c])

\* The most that a call has to do, when it has just begun.
MaxEffort == 3 * ShardCount + 1 + 3 * Cardinality(Names)

\* What a call has left to do is bounded by the shards and the keys there can
\* be, however often the map is written to in the meantime.
EffortBounded == \A c \in Calls : Effort(c) \in 0 .. MaxEffort

\* A step of the call or of one of its collectors.
Works(c) == Caller(c) \/ \E s \in Shards : Collector(c, s)

\* Nobody else gives a call more to do, and each step of its own or of its
\* collectors leaves it less.
EffortFalls ==
  [][\A c \in Calls : /\ Works(c) => Effort(c)' < Effort(c)
                      /\ UnderWay(c) => Effort(c)' <= Effort(c)]_vars

\* All that is counted in it is finite.
LEMMA EffortParts ==
  ASSUME MapType, NumberType, NEW c \in Calls, CountInv(c)
  PROVE  /\ IsFiniteSet(Ready(c)) /\ Cardinality(Ready(c)) \in Nat
         /\ IsFiniteSet(Ranging(c)) /\ Cardinality(Ranging(c)) \in Nat
         /\ IsFiniteSet(Ahead(c)) /\ Cardinality(Ahead(c)) \in Nat
         /\ IsFiniteSet(todo[c]) /\ Cardinality(todo[c]) \in Nat
         /\ IsFiniteSet(channel[c]) /\ Cardinality(channel[c]) \in Nat
         /\ StageEffort(c) \in Nat
         /\ Cardinality(Names) - taken[c] \in Nat
<1>1. IsFiniteSet(Shards)
  BY MapAssumption, FS_Interval DEF Shards
<1>2. IsFiniteSet(Ready(c)) /\ IsFiniteSet(Ranging(c))
  <2>1. Ready(c) \in SUBSET Shards /\ Ranging(c) \in SUBSET Shards
    BY DEF Ready, Ranging
  <2>2. QED
    BY <1>1, <2>1, FS_Subset
<1>3. IsFiniteSet(Ahead(c))
  <2>1. Ahead(c) \in SUBSET Names
    BY DEF Ahead
  <2>2. QED
    BY <2>1, MapAssumption, FS_Subset
<1>4. IsFiniteSet(todo[c]) /\ IsFiniteSet(channel[c])
  <2>1. /\ \A d, e \in todo[c] : d[1] = e[1] => d = e
        /\ \A d, e \in channel[c] : d[1] = e[1] => d = e
    BY DEF CountInv, CollectedOnce, Collected
  <2>2. QED
    BY <2>1, OneNameEach DEF MapType
<1>5. StageEffort(c) \in Nat
  <2>1. at[c] \in Int /\ (stage[c] = "count" => at[c] <= ShardCount) /\ ShardCount \in Nat
    BY MapAssumption DEF CountInv, Position, NumberType, Shards
  <2>2. QED
    BY <2>1 DEF StageEffort, MapType
<1>6. Cardinality(Names) - taken[c] \in Nat
  <2>1. Before(Names, at[c]) \in SUBSET Names
    BY DEF Before
  <2>2. /\ Cardinality(Before(Names, at[c])) \in Nat /\ Cardinality(Names) \in Nat
        /\ Cardinality(Before(Names, at[c])) <= Cardinality(Names)
    BY <2>1, MapAssumption, FS_Subset, FS_CardinalityType
  <2>3. /\ taken[c] \in Int /\ count[c] \in Int /\ taken[c] <= count[c]
        /\ count[c] <= Cardinality(Before(Names, at[c]))
    BY DEF CountInv, Position, NumberType
  <2>4. QED
    BY <2>2, <2>3
<1>7. QED
  BY <1>2, <1>3, <1>4, <1>5, <1>6, FS_CardinalityType

\* A call has no less than nothing to do.
LEMMA EffortType ==
  ASSUME MapType, NumberType, NEW c \in Calls, CountInv(c)
  PROVE  Effort(c) \in Nat
<1>1. \A a, b, d, e, f, g, h \in Nat : a + 2 * b + d + 2 * e + 2 * f + g + h \in Nat
  OBVIOUS
<1>2. QED
  BY <1>1, EffortParts DEF Effort

\* Counting the last shard makes the collectors, which had no part before.
LEMMA CountingFalls ==
  ASSUME MapType, NumberType, NEW c \in Calls, CallInv(c), CountInv(c), CountShard(c)
  PROVE  Effort(c)' < Effort(c)
<1>1. /\ stage[c] = "count" /\ at[c] \in Shards /\ at'[c] = at[c] + 1
      /\ UNCHANGED <<todo, channel, taken>>
  BY DEF CountShard, CountInv, Position, NumberType
<1>2. /\ ShardCount \in Nat /\ at[c] \in 1 .. ShardCount /\ taken[c] \in Int
      /\ Cardinality(Names) \in Nat
      /\ Cardinality(todo[c]) \in Nat /\ Cardinality(channel[c]) \in Nat
  BY <1>1, EffortParts, MapAssumption, FS_CardinalityType DEF Shards, NumberType
<1>3. /\ Ready(c) = {} /\ Ranging(c) = {} /\ Ahead(c) = Names
      /\ StageEffort(c) = 3 * ShardCount + 2 - at[c]
  BY <1>1 DEF CallInv, NothingYet, NoCollectors, Ready, Ranging, Ahead, StageEffort
<1>4. Cardinality({}) = 0
  BY FS_EmptySet
<1>5. Effort(c) = 3 * ShardCount + 2 - at[c] + 2 * Cardinality(Names)
                  + 2 * Cardinality(todo[c]) + Cardinality(channel[c])
                  + (Cardinality(Names) - taken[c])
  BY <1>2, <1>3, <1>4 DEF Effort
<1>6. CASE at[c] < ShardCount
  <2>1. stage'[c] = "count" /\ collector'[c] = collector[c]
    BY <1>1, <1>6 DEF CountShard
  <2>2. /\ Ready(c)' = {} /\ Ranging(c)' = {} /\ Ahead(c)' = Names
        /\ StageEffort(c)' = 3 * ShardCount + 2 - (at[c] + 1)
    BY <1>1, <1>3, <2>1 DEF Ready, Ranging, Ahead, StageEffort
  <2>3. QED
    BY <1>1, <1>2, <1>4, <1>5, <2>2 DEF Effort
<1>7. CASE at[c] = ShardCount /\ kind[c] = "Count"
  <2>1. stage'[c] = "returned" /\ collector'[c] = NoCollectors
    BY <1>1, <1>2, <1>7 DEF CountShard, CallInv, NothingYet, MapType
  <2>2. /\ Ready(c)' = {} /\ Ranging(c)' = {} /\ Ahead(c)' = {}
        /\ StageEffort(c)' = 0
    BY <2>1, MapAssumption DEF NoCollectors, Ready, Ranging, Ahead, StageEffort
  <2>3. QED
    BY <1>1, <1>2, <1>4, <1>5, <1>7, <2>2 DEF Effort
<1>8. CASE at[c] = ShardCount /\ kind[c] # "Count"
  <2>1. stage'[c] = "collect" /\ collector'[c] = [s \in Shards |-> "ready"]
    BY <1>1, <1>2, <1>8 DEF CountShard, MapType
  <2>2. /\ Ready(c)' = Shards /\ Ranging(c)' = {} /\ Ahead(c)' = Names
        /\ StageEffort(c)' = 1
    BY <2>1, MapAssumption DEF Ready, Ranging, Ahead, StageEffort
  <2>3. Cardinality(Shards) = ShardCount
    BY MapAssumption, FS_Interval DEF Shards
  <2>4. QED
    BY <1>1, <1>2, <1>4, <1>5, <1>8, <2>2, <2>3 DEF Effort
<1>9. QED
  BY <1>2, <1>6, <1>7, <1>8

\* A collector takes one entry for each key it finds at the most, and sends
\* each entry once.
LEMMA CollectingFalls ==
  ASSUME MapType, NumberType, NEW c \in Calls, CallInv(c), CountInv(c),
         NEW s \in Shards, Collector(c, s)
  PROVE  Effort(c)' < Effort(c)
<1>0. /\ IsFiniteSet(Ready(c)) /\ Cardinality(Ready(c)) \in Nat
      /\ IsFiniteSet(Ranging(c)) /\ Cardinality(Ranging(c)) \in Nat
      /\ Cardinality(Ahead(c)) \in Nat
      /\ IsFiniteSet(todo[c]) /\ Cardinality(todo[c]) \in Nat
      /\ IsFiniteSet(channel[c]) /\ Cardinality(channel[c]) \in Nat
      /\ StageEffort(c) \in Nat /\ Cardinality(Names) - taken[c] \in Nat
  BY EffortParts
<1>1. /\ stage[c] \in {"collect", "returned"}
      /\ UNCHANGED <<stage, at, taken>>
  BY DEF Collector, StartRange, Send, EndRange, CallInv, NothingYet, NoCollectors, MapType
<1>2. StageEffort(c)' = StageEffort(c)
  BY <1>1 DEF StageEffort
<1>3. Ahead(c) = {n \in Names : collector[c][ShardOf[n]] = "ready"}
      /\ Ahead(c)' = {n \in Names : collector'[c][ShardOf[n]] = "ready"}
  BY <1>1 DEF Ahead
<1>4. \A n \in Names : ShardOf[n] \in Shards
  BY MapAssumption
<1>5. CASE StartRange(c, s)
  <2> DEFINE InShard == {n \in Names : ShardOf[n] = s}
  <2>1. /\ collector[c][s] = "ready" /\ collector'[c] = [collector[c] EXCEPT ![s] = "ranging"]
        /\ todo'[c] = todo[c] \cup EntriesIn(s) /\ channel' = channel
        /\ collector[c] \in [Shards -> {"ready", "ranging", "done"}]
    BY <1>5 DEF StartRange, Moves, MapType
  <2>2. Cardinality(Ready(c)') = Cardinality(Ready(c)) - 1
    <3>1. Ready(c)' = Ready(c) \ {s} /\ s \in Ready(c)
      BY <2>1 DEF Ready
    <3>2. QED
      BY <1>0, <3>1, FS_RemoveElement
  <2>3. Cardinality(Ranging(c)') = Cardinality(Ranging(c)) + 1
    <3>1. Ranging(c)' = Ranging(c) \cup {s} /\ s \notin Ranging(c)
      BY <2>1 DEF Ranging
    <3>2. QED
      BY <1>0, <3>1, FS_AddElement
  <2>4. /\ Cardinality(Ahead(c)) = Cardinality(Ahead(c)') + Cardinality(InShard)
        /\ Cardinality(Ahead(c)') \in Nat /\ Cardinality(InShard) \in Nat
        /\ IsFiniteSet(InShard)
    <3>1. Ahead(c) = Ahead(c)' \cup InShard /\ Ahead(c)' \cap InShard = {}
      BY <1>3, <1>4, <2>1
    <3>2. Ahead(c)' \in SUBSET Names /\ InShard \in SUBSET Names
      BY <1>3
    <3>3. IsFiniteSet(Ahead(c)') /\ IsFiniteSet(InShard)
      BY <3>2, MapAssumption, FS_Subset
    <3>4. QED
      BY <3>1, <3>3, DisjointCount, FS_CardinalityType
  <2>5. /\ IsFiniteSet(EntriesIn(s)) /\ Cardinality(EntriesIn(s)) \in Nat
        /\ Cardinality(EntriesIn(s)) <= Cardinality(InShard)
    <3>1. EntriesIn(s) \in SUBSET AllEntries
      BY EntriesType DEF EntriesIn, MapType
    <3>2. \A d, e \in EntriesIn(s) : d[1] = e[1] => d = e
      BY EntriesAlone DEF EntriesIn
    <3>3. /\ IsFiniteSet(EntriesIn(s))
          /\ Cardinality(NamesOf(EntriesIn(s))) = Cardinality(EntriesIn(s))
      BY <3>1, <3>2, OneNameEach
    <3>4. NamesOf(EntriesIn(s)) \in SUBSET InShard
      BY <3>1 DEF NamesOf, EntriesIn, AllEntries
    <3>5. Cardinality(NamesOf(EntriesIn(s))) <= Cardinality(InShard)
      BY <2>4, <3>4, FS_Subset
    <3>6. QED
      BY <3>3, <3>5, FS_CardinalityType
  <2>6. Cardinality(todo'[c]) = Cardinality(todo[c]) + Cardinality(EntriesIn(s))
    <3>1. todo[c] \cap EntriesIn(s) = {}
      BY <2>1 DEF EntriesIn, CountInv, CollectedOnce, Collected
    <3>2. QED
      BY <2>1, <2>5, <1>0, <3>1, DisjointCount
  <2> HIDE DEF InShard
  <2>7. QED
    BY <1>1, <1>2, <2>1, <2>2, <2>3, <2>4, <2>5, <2>6, <1>0 DEF Effort
<1>6. CASE Send(c, s)
  <2>1. PICK e \in TodoIn(c, s) : /\ todo' = [todo EXCEPT ![c] = @ \ {e}]
                                  /\ channel' = [channel EXCEPT ![c] = @ \cup {e}]
    BY <1>6 DEF Send
  <2>2. /\ todo'[c] = todo[c] \ {e} /\ channel'[c] = channel[c] \cup {e}
        /\ e \in todo[c] /\ e \notin channel[c] /\ collector' = collector
    BY <1>6, <2>1 DEF Send, MapType, TodoIn, CountInv, CollectedOnce
  <2>3. Ready(c)' = Ready(c) /\ Ranging(c)' = Ranging(c) /\ Ahead(c)' = Ahead(c)
    BY <1>3, <2>2 DEF Ready, Ranging
  <2>4. Cardinality(todo'[c]) = Cardinality(todo[c]) - 1
    <3>1. Cardinality(todo[c] \ {e}) = Cardinality(todo[c]) - 1
      BY <1>0, <2>2, FS_RemoveElement
    <3>2. QED
      BY <2>2, <3>1
  <2>5. Cardinality(channel'[c]) = Cardinality(channel[c]) + 1
    BY <1>0, <2>2, FS_AddElement
  <2>6. QED
    BY <1>0, <1>1, <1>2, <2>3, <2>4, <2>5 DEF Effort
<1>7. CASE EndRange(c, s)
  <2>1. /\ collector[c][s] = "ranging" /\ collector'[c] = [collector[c] EXCEPT ![s] = "done"]
        /\ todo' = todo /\ channel' = channel
        /\ collector[c] \in [Shards -> {"ready", "ranging", "done"}]
    BY <1>7 DEF EndRange, Moves, MapType
  <2>2. Ready(c)' = Ready(c) /\ Ahead(c)' = Ahead(c)
    BY <1>3, <1>4, <2>1 DEF Ready
  <2>3. Ranging(c)' = Ranging(c) \ {s} /\ s \in Ranging(c)
    BY <2>1 DEF Ranging
  <2>4. Cardinality(Ranging(c)') = Cardinality(Ranging(c)) - 1
    BY <1>0, <2>3, FS_RemoveElement
  <2>5. QED
    BY <1>1, <1>2, <2>1, <2>2, <2>4, <1>0 DEF Effort
<1>8. QED
  BY <1>5, <1>6, <1>7 DEF Collector

\* Receiving takes an entry out of the channel, or is counted.
LEMMA ReceivingFalls ==
  ASSUME MapType, NumberType, NEW c \in Calls, CountInv(c),
         Receive(c) \/ ReceiveEmpty(c) \/ KeysReturns(c) \/ ItemsReturns(c)
  PROVE  Effort(c)' < Effort(c)
<1>1. stage[c] = "collect" /\ UNCHANGED <<collector, todo>>
  BY DEF Receive, ReceiveEmpty, Receiving, KeysReturns, ItemsReturns, Returns, collectVars
<1>2. stage'[c] # "count" /\ Ready(c)' = Ready(c) /\ Ranging(c)' = Ranging(c)
      /\ Ahead(c)' = Ahead(c)
  BY <1>1 DEF Receive, ReceiveEmpty, KeysReturns, ItemsReturns, Returns, MapType, Ready,
              Ranging, Ahead
<1>3. StageEffort(c) = 1 /\ taken[c] \in Int /\ Cardinality(Names) \in Nat
  BY <1>1, MapAssumption, FS_CardinalityType DEF StageEffort, NumberType
<1>4. CASE Receive(c)
  <2>1. PICK e \in channel[c] : channel' = [channel EXCEPT ![c] = @ \ {e}]
    BY <1>4 DEF Receive
  <2>2. /\ channel'[c] = channel[c] \ {e} /\ stage' = stage
        /\ taken'[c] = taken[c] \/ taken'[c] = taken[c] + 1
    BY <1>4, <2>1 DEF Receive, MapType, NumberType
  <2>3. Cardinality(channel'[c]) = Cardinality(channel[c]) - 1
    BY <2>2, EffortParts, FS_RemoveElement
  <2>4. StageEffort(c)' = 1
    BY <1>1, <2>2 DEF StageEffort
  <2>5. QED
    BY <1>1, <1>2, <1>3, <2>2, <2>3, <2>4, EffortParts DEF Effort
<1>5. CASE ReceiveEmpty(c)
  <2>1. channel' = channel /\ stage' = stage /\ taken'[c] = taken[c] + 1
    BY <1>5 DEF ReceiveEmpty, NumberType
  <2>2. StageEffort(c)' = 1
    BY <1>1, <2>1 DEF StageEffort
  <2>3. QED
    BY <1>1, <1>2, <1>3, <2>1, <2>2, EffortParts DEF Effort
<1>6. CASE KeysReturns(c) \/ ItemsReturns(c)
  <2>1. channel' = channel /\ stage'[c] = "returned" /\ taken' = taken
    BY <1>6 DEF KeysReturns, ItemsReturns, Returns, collectVars, MapType
  <2>2. StageEffort(c)' = 0
    BY <2>1 DEF StageEffort
  <2>3. QED
    BY <1>1, <1>2, <1>3, <2>1, <2>2, EffortParts DEF Effort
<1>7. QED
  BY <1>4, <1>5, <1>6

\* Nobody else, and no writer, changes what a call has to do.
LEMMA OthersEffort ==
  ASSUME NEW c \in Calls, UNCHANGED <<stage[c], collector[c], todo[c], channel[c]>>,
         UNCHANGED OwnNumbers(c)
  PROVE  Effort(c)' = Effort(c)
<1>1. Ready(c)' = Ready(c) /\ Ranging(c)' = Ranging(c) /\ Ahead(c)' = Ahead(c)
      /\ StageEffort(c)' = StageEffort(c)
  BY DEF Ready, Ranging, Ahead, StageEffort, OwnNumbers
<1>2. QED
  BY <1>1 DEF Effort, OwnNumbers

\* What a step of the map is to a call.
LEMMA EffortStep ==
  ASSUME MapInv, CountsInv, Next, NEW c \in Calls
  PROVE  \/ Works(c) /\ Effort(c)' < Effort(c)
         \/ ~Works(c) /\ Effort(c)' = Effort(c)
         \/ ~Works(c) /\ ~UnderWay(c) /\ Effort(c)' \in {Cardinality(Names), MaxEffort}
<1>1. MapType /\ NumberType /\ CallInv(c) /\ CountInv(c)
  BY DEF MapInv, CountsInv
<1>2. CASE Works(c)
  BY <1>1, <1>2, CountingFalls, CollectingFalls, ReceivingFalls DEF Works, Caller
<1>3. CASE Forget(c) \/ \E k \in {"Count", "Keys", "Items"} : Call(c, k)
  <2>1. Cardinality({}) = 0 /\ Cardinality(Names) \in Nat /\ ShardCount \in Nat
    BY FS_EmptySet, FS_CardinalityType, MapAssumption
  <2>2. /\ todo'[c] = {} /\ channel'[c] = {} /\ taken'[c] = 0
        /\ collector'[c] = NoCollectors /\ at'[c] = 1
        /\ stage'[c] \in {"idle", "count"} /\ stage[c] \in {"idle", "returned"}
    BY <1>1, <1>3 DEF Forget, Call, collectVars, MapType, NumberType, CallInv, NothingYet,
                      CountInv, Position
  <2>3. Ready(c)' = {} /\ Ranging(c)' = {}
    BY <2>2 DEF NoCollectors, Ready, Ranging
  <2>4. Effort(c)' \in {Cardinality(Names), MaxEffort}
    <3>1. CASE stage'[c] = "count"
      <4>1. Ahead(c)' = Names /\ StageEffort(c)' = 3 * ShardCount + 1
        BY <2>1, <2>2, <3>1 DEF Ahead, StageEffort
      <4>2. QED
        BY <2>1, <2>2, <2>3, <4>1 DEF Effort, MaxEffort
    <3>2. CASE stage'[c] = "idle"
      <4>1. Ahead(c)' = {} /\ StageEffort(c)' = 0
        BY <2>2, <3>2, MapAssumption DEF NoCollectors, Ahead, StageEffort
      <4>2. QED
        BY <2>1, <2>2, <2>3, <4>1 DEF Effort
    <3>3. QED
      BY <2>2, <3>1, <3>2
  <2>5. ~UnderWay(c)
    BY <2>2 DEF UnderWay
  <2>6. QED
    BY <1>2, <2>4, <2>5
<1>4. CASE UNCHANGED <<stage[c], collector[c], todo[c], channel[c]>> /\ UNCHANGED OwnNumbers(c)
  BY <1>2, <1>4, OthersEffort
<1>5. ASSUME NEW d \in Calls \ {c},
             \/ Caller(d) \/ Forget(d)
             \/ \E k \in {"Count", "Keys", "Items"} : Call(d, k)
             \/ \E s \in Shards : Collector(d, s)
      PROVE  UNCHANGED Own(c) /\ UNCHANGED OwnNumbers(c)
  BY <1>1, <1>5, CallsApart
<1>6. CASE \/ \E w \in Writers : Apply(w)
           \/ \E w \in Writers, n \in Names :
                Remove(w, n) \/ \E v \in Values, b \in BOOLEAN : SetTo(w, n, v, b)
  BY <1>4, <1>6 DEF Apply, Remove, SetTo, callVars, collectVars, OwnNumbers
<1>7. QED
  BY <1>2, <1>3, <1>4, <1>5, <1>6 DEF Next, Works, Own

\* However the map is written to, a call and its collectors take no more
\* steps than the shards and the keys there can be allow.
THEOREM CallsAreFinite == Spec => []EffortBounded /\ EffortFalls
<1> DEFINE Inv == MapInv /\ CountsInv
           EffortNat == \A c \in Calls : Effort(c) \in Nat
<1>0. Cardinality(Names) \in Nat /\ ShardCount \in Nat
  BY FS_CardinalityType, MapAssumption
<1>1. Inv => EffortNat
  BY EffortType DEF MapInv, CountsInv
<1>2. ASSUME Init
      PROVE  EffortBounded
  <2> SUFFICES ASSUME NEW c \in Calls
               PROVE  Effort(c) \in 0 .. MaxEffort
    BY DEF EffortBounded
  <2>1. Ready(c) = {} /\ Ranging(c) = {} /\ Ahead(c) = {} /\ StageEffort(c) = 0
    BY <1>2, MapAssumption DEF Init, NoCollectors, Ready, Ranging, Ahead, StageEffort
  <2>2. Effort(c) = Cardinality(Names)
    BY <1>0, <1>2, <2>1, FS_EmptySet DEF Init, Effort
  <2>3. QED
    BY <1>0, <2>2 DEF MaxEffort
<1>3. ASSUME Inv, EffortNat', EffortBounded, Next
      PROVE  EffortBounded'
  <2> SUFFICES ASSUME NEW c \in Calls
               PROVE  Effort(c)' \in 0 .. MaxEffort
    BY DEF EffortBounded
  <2>1. Effort(c)' \in Nat
    BY <1>3
  <2>2. MaxEffort \in Nat /\ Cardinality(Names) <= MaxEffort
    BY <1>0 DEF MaxEffort
  <2>3. Effort(c) \in 0 .. MaxEffort
    BY <1>3 DEF EffortBounded
  <2>4. QED
    BY <1>0, <1>3, <2>1, <2>2, <2>3, EffortStep
<1>4. ASSUME Inv, EffortBounded, EffortBounded', Next, NEW c \in Calls
      PROVE  (Works(c) => Effort(c)' < Effort(c)) /\ (UnderWay(c) => Effort(c)' <= Effort(c))
  <2>1. Effort(c) \in Int /\ Effort(c)' \in Int
    BY <1>4 DEF EffortBounded
  <2>2. QED
    BY <1>4, <2>1, EffortStep
<1>5. Inv /\ EffortBounded /\ EffortBounded' /\ [Next]_vars
        => [\A c \in Calls : /\ Works(c) => Effort(c)' < Effort(c)
                             /\ UnderWay(c) => Effort(c)' <= Effort(c)]_vars
  BY <1>4
<1>6. ASSUME EffortBounded, UNCHANGED vars
      PROVE  EffortBounded'
  <2>1. \A c \in Calls : Effort(c)' = Effort(c)
    BY <1>6, OthersEffort DEF vars, callVars, collectVars, OwnNumbers
  <2>2. QED
    BY <1>6, <2>1 DEF EffortBounded, MaxEffort
<1>7. QED
  BY <1>1, <1>2, <1>3, <1>5, <1>6, Invariance, CountInvariance, PTL DEF Spec, EffortFalls
=============================================================================
