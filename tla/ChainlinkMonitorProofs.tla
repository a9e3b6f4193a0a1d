------------------------ MODULE ChainlinkMonitorProofs ------------------------
(***************************************************************************)
(* Proofs about ChainlinkMonitor, for any networks, any finite number of   *)
(* feeds, any updaters, and any capacity of the semaphore and number of    *)
(* retries.  The argument has three parts:                                 *)
(*   - the channel and the WaitGroup of a round count its goroutines;      *)
(*   - a round begins only when no goroutine is left, so that all of them  *)
(*     are of one round and the round's limit is the monitor's;            *)
(*   - a fetch is stamped after its call, and nobody but the goroutine of  *)
(*     the feed stamps, so the price it carries is newer than all copies.  *)
(***************************************************************************)
EXTENDS ChainlinkMonitor, FiniteSetTheorems, TLAPS

-----------------------------------------------------------------------------
(* Sets of goroutines *)

\* A goroutine is known by its round and its feed.
LEMMA WorkerParts ==
  ASSUME NEW w \in Workers
  PROVE  w[1] \in {0, 1} /\ w[2] \in Feeds
BY DEF Workers

\* There are finitely many goroutines.
LEMMA WorkersFinite ==
  ASSUME NEW S \in SUBSET Workers
  PROVE  IsFiniteSet(S) /\ Cardinality(S) \in Nat
<1>1. IsFiniteSet({0, 1})
  <2>1. IsFiniteSet({0} \cup {1})
    BY FS_Singleton, FS_AddElement
  <2>2. QED
    BY <2>1, {0} \cup {1} = {0, 1}
<1>2. IsFiniteSet(Workers)
  BY <1>1, FS_Product, MonitorAssumption DEF Workers
<1>3. QED
  BY <1>2, FS_Subset, FS_CardinalityType

\* A round has one goroutine for each of its feeds.
LEMMA RoundMembers ==
  ASSUME NEW r \in {0, 1}, NEW S \in SUBSET Feeds
  PROVE  Cardinality({w \in Workers : w[1] = r /\ w[2] \in S}) = Cardinality(S)
<1> DEFINE T == {w \in Workers : w[1] = r /\ w[2] \in S}
           g == [f \in S |-> <<r, f>>]
<1>1. \A f \in S : g[f] \in T
  BY DEF Workers
<1>2. ASSUME NEW w \in T
      PROVE  w[2] \in S /\ g[w[2]] = w
  BY DEF Workers
<1>3. g \in Bijection(S, T)
  <2>1. g \in [S -> T]
    BY <1>1
  <2>2. \A e, f \in S : g[e] = g[f] => e = f
    OBVIOUS
  <2>3. \A w \in T : \E f \in S : g[f] = w
    BY <1>2
  <2>4. QED
    BY <2>1, <2>2, <2>3 DEF Bijection, Injection, Surjection, IsInjective
<1>4. IsFiniteSet(S)
  BY FS_Subset, MonitorAssumption
<1>5. ExistsBijection(S, T)
  BY <1>3 DEF ExistsBijection
<1>6. QED
  BY <1>4, <1>5, FS_Bijection

\* A round has at most one goroutine for each feed.
LEMMA RoundSize ==
  ASSUME NEW r \in {0, 1}, NEW S \in SUBSET Workers, \A w \in S : w[1] = r
  PROVE  Cardinality(S) <= Cardinality(Feeds)
<1> DEFINE T == {w \in Workers : w[1] = r /\ w[2] \in Feeds}
<1>1. S \in SUBSET T
  BY WorkerParts
<1>2. Cardinality(S) <= Cardinality(T)
  BY <1>1, WorkersFinite, FS_Subset
<1>3. QED
  BY <1>2, RoundMembers

\* The goroutines of a round that are counted can be counted.
LEMMA SetsOfWorkers ==
  ASSUME NEW r \in {0, 1}
  PROVE  /\ HoldingIn(r) \in SUBSET Workers /\ IsFiniteSet(HoldingIn(r))
         /\ BusyIn(r) \in SUBSET Workers /\ IsFiniteSet(BusyIn(r))
         /\ Cardinality(HoldingIn(r)) \in Nat /\ Cardinality(BusyIn(r)) \in Nat
BY WorkersFinite DEF HoldingIn, BusyIn

\* What one goroutine more or less does to a count.
LEMMA CountStep ==
  ASSUME NEW S, IsFiniteSet(S), NEW w
  PROVE  /\ w \notin S => /\ Cardinality(S \cup {w}) = Cardinality(S) + 1
                          /\ S \ {w} = S
         /\ w \in S => Cardinality(S \ {w}) = Cardinality(S) - 1
BY FS_AddElement, FS_RemoveElement

\* The goroutines with a token, and those not yet done, when one of them goes
\* from one stage to another.
LEMMA HoldingStep ==
  ASSUME stage \in [Workers -> Stages], NEW w \in Workers, NEW t \in Stages,
         stage' = [stage EXCEPT ![w] = t], NEW r \in {0, 1}
  PROVE  HoldingIn(r)' = IF w[1] = r /\ t \notin {"idle", "queued"}
                           THEN HoldingIn(r) \cup {w} ELSE HoldingIn(r) \ {w}
BY DEF HoldingIn, Holding

\* The same of the goroutines that are not done.
LEMMA BusyStep ==
  ASSUME stage \in [Workers -> Stages], NEW w \in Workers, NEW t \in Stages,
         stage' = [stage EXCEPT ![w] = t], NEW r \in {0, 1}
  PROVE  BusyIn(r)' = IF w[1] = r /\ t # "idle"
                        THEN BusyIn(r) \cup {w} ELSE BusyIn(r) \ {w}
BY DEF BusyIn, Busy

\* A goroutine with a token is counted by the channel, and one that is not
\* done by the WaitGroup.
LEMMA CountedIn ==
  ASSUME TokensCounted, NEW w \in Workers
  PROVE  /\ Holding(w) => semaphore[w[1]] > 0
         /\ Busy(w) => wg[w[1]] > 0
<1> DEFINE r == w[1]
<1>1. r \in {0, 1}
  BY WorkerParts
<1>2. Holding(w) => Cardinality(HoldingIn(r)) # 0
  BY <1>1, SetsOfWorkers, FS_EmptySet DEF HoldingIn
<1>3. Busy(w) => Cardinality(BusyIn(r)) # 0
  BY <1>1, SetsOfWorkers, FS_EmptySet DEF BusyIn
<1>4. QED
  BY <1>1, <1>2, <1>3, SetsOfWorkers DEF TokensCounted

-----------------------------------------------------------------------------
(* The invariant, one lemma for each of its parts *)

\* Steps of a goroutine that move it from one stage to another in which it
\* holds its token, and leave the counters alone.
Moves(w) == LET t == stage'[w]
            IN  /\ t \in Stages \ {"idle", "queued"}
                /\ stage' = [stage EXCEPT ![w] = t]
                /\ Holding(w)
                /\ UNCHANGED <<loopVars, semaphore, wg>>

\* Nearly every step of a goroutine is of that kind.
LEMMA MovesSteps ==
  ASSUME TypeOK, NEW w \in Workers,
         \/ Lookup(w) \/ RoundDataOk(w) \/ RoundDataFails(w) \/ RoundDataReverts(w)
         \/ SwitchOk(w) \/ SwitchFails(w) \/ DecimalsDone(w) \/ StorePrice(w)
  PROVE  Moves(w)
BY DEF TypeOK, Moves, Holding, Stages, At, Lookup, RoundDataOk, RoundDataFails,
       RoundDataReverts, SwitchOk, SwitchFails, DecimalsDone, StorePrice

\* The steps that change no stage.
Elsewhere ==
  \/ \E n \in Networks : AddClient(n) \/ \E u \in Updaters : TakePrices(u, n)
  \/ \E f \in Feeds : AddPriceFeed(f) \/ \E u \in Updaters : WriteBack(u, f)
  \/ Tick \/ Stop \/ Start \/ CopyClients \/ EndRound \/ SelectTick \/ SelectStop

\* What a step is: one of those, the start of a round, or a step of a
\* goroutine.
LEMMA Steps ==
  ASSUME TypeOK, Next
  PROVE  \/ Elsewhere \/ StartRound
         \/ \E w \in Workers : Acquire(w) \/ Finish(w) \/ Moves(w)
<1>1. ASSUME NEW w \in Workers, Work(w)
      PROVE  Acquire(w) \/ Finish(w) \/ Moves(w)
  BY <1>1, MovesSteps DEF Work, LocalWork, Answer
<1>2. QED
  BY <1>1 DEF Next, Environment, Loop, WriteBackLoop, Elsewhere

\* They leave the goroutines alone.
LEMMA ElsewhereKeeps ==
  ASSUME Elsewhere
  PROVE  UNCHANGED workerVars
BY DEF Elsewhere, AddClient, TakePrices, AddPriceFeed, WriteBack, Tick, Stop, Start,
       CopyClients, EndRound, SelectTick, SelectStop, Goto, workerVars

\* Nothing runs when a round starts.
LEMMA NothingRuns ==
  ASSUME OneRoundAtATime, loop # "wait", NEW r \in {0, 1}
  PROVE  HoldingIn(r) = {} /\ BusyIn(r) = {} /\ \A w \in Workers : stage[w] = "idle"
BY DEF OneRoundAtATime, HoldingIn, BusyIn, Holding, Busy

\* Every step counts the tokens and the goroutines right.
LEMMA TokensStep ==
  ASSUME TypeOK, TokensCounted, OneRoundAtATime, Next
  PROVE  TokensCounted'
<1> SUFFICES ASSUME NEW r \in {0, 1}
             PROVE  /\ semaphore'[r] = Cardinality(HoldingIn(r)')
                    /\ wg'[r] = Cardinality(BusyIn(r)')
  BY DEF TokensCounted
<1> USE DEF TokensCounted, TypeOK
<1>1. CASE Elsewhere
  BY <1>1, ElsewhereKeeps DEF workerVars, HoldingIn, BusyIn, Holding, Busy
<1>2. CASE StartRound
  <2> DEFINE S == {f \in feeds : NetOf[f] \in known}
  <2>1. loop = "spawn"
    BY <1>2 DEF StartRound
  <2>2. \A q \in {0, 1} : HoldingIn(q)' = {}
    BY <1>2, <2>1, NothingRuns DEF StartRound, HoldingIn, Holding
  <2>3. Cardinality({}) = 0
    BY FS_EmptySet
  <2>4. semaphore'[r] = 0
    BY <1>2, <2>1, <2>3, NothingRuns DEF StartRound
  <2>5. CASE r = 1 - round
    <3>1. BusyIn(r)' = {w \in Workers : w[1] = r /\ w[2] \in S}
      BY <1>2, <2>1, <2>5, NothingRuns DEF StartRound, BusyIn, Busy
    <3>2. S \in SUBSET Feeds
      OBVIOUS
    <3>3. wg'[r] = Cardinality(S)
      BY <1>2, <2>5 DEF StartRound, Added
    <3>4. Cardinality(BusyIn(r)') = Cardinality(S)
      BY <3>1, <3>2, RoundMembers
    <3>5. QED
      BY <2>2, <2>3, <2>4, <3>3, <3>4
  <2>6. CASE r # 1 - round
    <3>1. BusyIn(r)' = {}
      BY <1>2, <2>1, <2>6, NothingRuns DEF StartRound, BusyIn, Busy
    <3>2. wg'[r] = wg[r] /\ wg[r] = 0
      BY <1>2, <2>1, <2>3, <2>6, NothingRuns DEF StartRound
    <3>3. QED
      BY <2>2, <2>3, <2>4, <3>1, <3>2
  <2>7. QED
    BY <2>5, <2>6
<1>3. ASSUME NEW w \in Workers, Acquire(w)
      PROVE  /\ semaphore'[r] = Cardinality(HoldingIn(r)')
             /\ wg'[r] = Cardinality(BusyIn(r)')
  <2>1. stage[w] = "queued" /\ stage' = [stage EXCEPT ![w] = "lookup"]
    BY <1>3 DEF Acquire, At
  <2>2. HoldingIn(r)' = IF w[1] = r THEN HoldingIn(r) \cup {w} ELSE HoldingIn(r) \ {w}
    BY <2>1, HoldingStep DEF Stages
  <2>3. w \notin HoldingIn(r)
    BY <2>1 DEF HoldingIn, Holding
  <2>4. semaphore'[r] = IF w[1] = r THEN semaphore[r] + 1 ELSE semaphore[r]
    BY <1>3, WorkerParts DEF Acquire
  <2>5. Cardinality(HoldingIn(r)')
          = IF w[1] = r THEN Cardinality(HoldingIn(r)) + 1 ELSE Cardinality(HoldingIn(r))
    <3>1. CASE w[1] = r
      <4>1. Cardinality(HoldingIn(r) \cup {w}) = Cardinality(HoldingIn(r)) + 1
        BY <2>3, SetsOfWorkers, CountStep
      <4>2. QED
        BY <2>2, <3>1, <4>1
    <3>2. CASE w[1] # r
      <4>1. HoldingIn(r) \ {w} = HoldingIn(r)
        BY <2>3
      <4>2. QED
        BY <2>2, <3>2, <4>1
    <3>3. QED
      BY <3>1, <3>2
  <2>6. BusyIn(r)' = BusyIn(r) /\ wg' = wg
    BY <1>3, <2>1, BusyStep DEF Acquire, BusyIn, Busy, Stages
  <2>7. QED
    BY <2>4, <2>5, <2>6
<1>4. ASSUME NEW w \in Workers, Finish(w)
      PROVE  /\ semaphore'[r] = Cardinality(HoldingIn(r)')
             /\ wg'[r] = Cardinality(BusyIn(r)')
  <2>1. stage[w] = "finish" /\ stage' = [stage EXCEPT ![w] = "idle"]
    BY <1>4 DEF Finish, At
  <2>2. HoldingIn(r)' = HoldingIn(r) \ {w} /\ BusyIn(r)' = BusyIn(r) \ {w}
    BY <2>1, HoldingStep, BusyStep DEF Stages
  <2>3. /\ w[1] = r => w \in HoldingIn(r) /\ w \in BusyIn(r)
        /\ w[1] # r => w \notin HoldingIn(r) /\ w \notin BusyIn(r)
    BY <2>1 DEF HoldingIn, BusyIn, Holding, Busy
  <2>4. /\ semaphore'[r] = IF w[1] = r THEN semaphore[r] - 1 ELSE semaphore[r]
        /\ wg'[r] = IF w[1] = r THEN wg[r] - 1 ELSE wg[r]
    BY <1>4, WorkerParts DEF Finish
  <2>5. /\ Cardinality(HoldingIn(r)')
             = IF w[1] = r THEN Cardinality(HoldingIn(r)) - 1 ELSE Cardinality(HoldingIn(r))
        /\ Cardinality(BusyIn(r)')
             = IF w[1] = r THEN Cardinality(BusyIn(r)) - 1 ELSE Cardinality(BusyIn(r))
    <3>1. CASE w[1] = r
      <4>1. /\ Cardinality(HoldingIn(r) \ {w}) = Cardinality(HoldingIn(r)) - 1
            /\ Cardinality(BusyIn(r) \ {w}) = Cardinality(BusyIn(r)) - 1
        BY <2>3, <3>1, SetsOfWorkers, CountStep
      <4>2. QED
        BY <2>2, <3>1, <4>1
    <3>2. CASE w[1] # r
      <4>1. HoldingIn(r) \ {w} = HoldingIn(r) /\ BusyIn(r) \ {w} = BusyIn(r)
        BY <2>3, <3>2
      <4>2. QED
        BY <2>2, <3>2, <4>1
    <3>3. QED
      BY <3>1, <3>2
  <2>6. QED
    BY <2>4, <2>5
<1>5. ASSUME NEW w \in Workers, Moves(w)
      PROVE  /\ semaphore'[r] = Cardinality(HoldingIn(r)')
             /\ wg'[r] = Cardinality(BusyIn(r)')
  <2>1. HoldingIn(r)' = HoldingIn(r) /\ BusyIn(r)' = BusyIn(r)
    BY <1>5 DEF Moves, HoldingIn, BusyIn, Holding, Busy
  <2>2. QED
    BY <1>5, <2>1 DEF Moves
<1>6. QED
  BY <1>1, <1>2, <1>3, <1>4, <1>5, Steps

\* Goroutines only start when the loop begins to wait, and it waits until
\* the WaitGroup counts none of them.
LEMMA RoundStep ==
  ASSUME TypeOK, TokensCounted, OneRoundAtATime, Next
  PROVE  OneRoundAtATime'
<1> SUFFICES ASSUME NEW w \in Workers, Busy(w)'
             PROVE  loop' = "wait" /\ w[1] = round'
  BY DEF OneRoundAtATime
<1> USE DEF OneRoundAtATime, TypeOK, Busy
<1>1. CASE Elsewhere
  <2>1. Busy(w) /\ loop = "wait" /\ w[1] = round
    BY <1>1, ElsewhereKeeps DEF workerVars
  <2>2. wg[round] > 0
    BY <2>1, CountedIn
  <2>3. QED
    BY <1>1, <2>1, <2>2
       DEF Elsewhere, AddClient, TakePrices, AddPriceFeed, WriteBack, Tick, Stop, Start,
           CopyClients, EndRound, SelectTick, SelectStop, Goto, loopVars
<1>2. CASE StartRound
  <2>1. stage[w] = "idle"
    BY <1>2, NothingRuns DEF StartRound
  <2>2. QED
    BY <1>2, <2>1 DEF StartRound
<1>3. ASSUME NEW v \in Workers, Acquire(v) \/ Finish(v) \/ Moves(v)
      PROVE  loop' = "wait" /\ w[1] = round'
  <2>1. Busy(w)
    BY <1>3 DEF Acquire, Finish, Moves, At, Holding
  <2>2. loop' = loop /\ round' = round
    BY <1>3 DEF Acquire, Finish, Moves, loopVars
  <2>3. QED
    BY <2>1, <2>2
<1>4. QED
  BY <1>1, <1>2, <1>3, Steps

\* Who switches has an attempt left.
LEMMA AttemptStep ==
  ASSUME TypeOK, AttemptLeft, Next
  PROVE  AttemptLeft'
<1> SUFFICES ASSUME NEW w \in Workers, stage'[w] = "switch"
             PROVE  attempt'[w] <= MaxRetries
  BY DEF AttemptLeft
<1> USE DEF AttemptLeft, TypeOK
<1>1. CASE Elsewhere
  BY <1>1, ElsewhereKeeps DEF workerVars
<1>2. CASE StartRound
  BY <1>2 DEF StartRound
<1>3. ASSUME NEW v \in Workers, Work(v)
      PROVE  attempt'[w] <= MaxRetries
  BY <1>3 DEF Work, LocalWork, Answer, Acquire, Lookup, RoundDataOk, RoundDataFails,
              RoundDataReverts, SwitchOk, SwitchFails, DecimalsDone, StorePrice,
              Finish, At, Retries
<1>4. QED
  BY <1>1, <1>2, <1>3 DEF Next, Environment, Loop, WriteBackLoop, Elsewhere

\* What was fetched stays newer than every copy until it is stored.
LEMMA NewestStep ==
  ASSUME TypeOK, OneRoundAtATime, FetchedIsNewest, Next
  PROVE  FetchedIsNewest'
<1> USE DEF TypeOK, FetchedIsNewest
<1>1. ASSUME NEW w \in Workers, DecimalsDone(w)
      PROVE  FetchedIsNewest'
  <2> DEFINE f == w[2]
  <2>1. /\ f \in Feeds
        /\ clock' = [clock EXCEPT ![f] = @ + 1] /\ price' = [price EXCEPT ![w] = clock[f] + 1]
        /\ stage' = [stage EXCEPT ![w] = "store"] /\ stage[w] = "decimals"
        /\ cache' = cache /\ snapshot' = snapshot
    BY <1>1, WorkerParts DEF DecimalsDone, At
  <2>2. \A e \in Feeds : clock'[e] \in Nat /\ clock'[e] >= clock[e]
    BY <2>1
  <2>3. ASSUME NEW e \in Feeds
        PROVE  cache'[e] <= clock'[e] /\ \A u \in Updaters : snapshot'[u][e] <= clock'[e]
    BY <2>1, <2>2
  <2>4. ASSUME NEW v \in Workers, stage'[v] = "store"
        PROVE  /\ price'[v] <= clock'[v[2]]
               /\ price'[v] > cache'[v[2]]
               /\ \A u \in Updaters : price'[v] > snapshot'[u][v[2]]
    <3>1. v[2] \in Feeds
      BY WorkerParts
    <3>2. CASE v = w
      BY <2>1, <3>1, <3>2
    <3>3. CASE v # w
      <4>1. stage[v] = "store" /\ price'[v] = price[v] /\ price[v] \in Nat
        BY <2>1, <2>4, <3>3
      <4>2. clock[v[2]] \in Nat
        BY <3>1
      <4>3. QED
        BY <2>1, <2>2, <3>1, <4>1, <4>2
    <3>4. QED
      BY <3>2, <3>3
  <2>5. QED
    BY <2>3, <2>4
<1>2. ASSUME NEW w \in Workers, StorePrice(w)
      PROVE  FetchedIsNewest'
  <2>1. /\ w[2] \in Feeds /\ cache' = [cache EXCEPT ![w[2]] = price[w]]
        /\ stage[w] = "store" /\ stage' = [stage EXCEPT ![w] = "finish"]
        /\ UNCHANGED <<price, clock, snapshot>>
    BY <1>2, WorkerParts DEF StorePrice, At
  <2>2. ASSUME NEW v \in Workers, stage'[v] = "store"
        PROVE  v[2] # w[2] /\ stage[v] = "store" /\ v[2] \in Feeds
    <3>1. stage[v] = "store" /\ v # w
      BY <2>1, <2>2
    <3>2. v[1] = round /\ w[1] = round
      BY <2>1, <3>1 DEF OneRoundAtATime, Busy
    <3>3. v = <<v[1], v[2]>> /\ w = <<w[1], w[2]>>
      BY DEF Workers
    <3>4. QED
      BY <3>1, <3>2, <3>3, WorkerParts
  <2>3. QED
    BY <2>1, <2>2
<1>3. ASSUME NEW u \in Updaters, NEW n \in Networks, TakePrices(u, n)
      PROVE  FetchedIsNewest'
  <2>1. \A t \in Updaters : \A f \in Feeds : snapshot'[t][f] \in {snapshot[t][f], cache[f], 0}
    BY <1>3 DEF TakePrices
  <2>2. UNCHANGED <<stage, price, cache, clock>>
    BY <1>3 DEF TakePrices, workerVars, storeVars
  <2>3. ASSUME NEW v \in Workers, stage[v] = "store"
        PROVE  /\ price[v] <= clock[v[2]] /\ price[v] > cache[v[2]]
               /\ \A t \in Updaters : price[v] > snapshot'[t][v[2]]
    <3>1. v[2] \in Feeds /\ price[v] > cache[v[2]] /\ price[v] <= clock[v[2]]
      BY <2>3, WorkerParts
    <3>2. cache[v[2]] \in Nat /\ price[v] \in Nat
      BY <3>1
    <3>3. ASSUME NEW t \in Updaters
          PROVE  price[v] > snapshot'[t][v[2]]
      <4>1. price[v] > snapshot[t][v[2]]
        BY <2>3
      <4>2. snapshot'[t][v[2]] \in {snapshot[t][v[2]], cache[v[2]], 0}
        BY <2>1, <3>1
      <4>3. QED
        BY <3>1, <3>2, <4>1, <4>2
    <3>4. QED
      BY <3>1, <3>3
  <2>4. ASSUME NEW f \in Feeds
        PROVE  cache[f] <= clock[f] /\ \A t \in Updaters : snapshot'[t][f] <= clock[f]
    <3>1. cache[f] <= clock[f] /\ clock[f] \in Nat
      OBVIOUS
    <3>2. ASSUME NEW t \in Updaters
          PROVE  snapshot'[t][f] <= clock[f]
      <4>1. snapshot[t][f] <= clock[f]
        OBVIOUS
      <4>2. snapshot'[t][f] \in {snapshot[t][f], cache[f], 0}
        BY <2>1
      <4>3. QED
        BY <3>1, <4>1, <4>2
    <3>3. QED
      BY <3>1, <3>2
  <2>5. QED
    BY <2>2, <2>3, <2>4
<1>4. ASSUME NEW u \in Updaters, NEW f \in Feeds, WriteBack(u, f)
      PROVE  FetchedIsNewest'
  <2>1. UNCHANGED <<stage, price, clock>>
    BY <1>4 DEF WriteBack, workerVars
  <2>2. cache' = [cache EXCEPT ![f] = snapshot[u][f]]
    BY <1>4 DEF WriteBack
  <2>3. \A t \in Updaters : \A e \in Feeds : snapshot'[t][e] \in {snapshot[t][e], 0}
    BY <1>4 DEF WriteBack
  <2>4. ASSUME NEW v \in Workers, stage[v] = "store"
        PROVE  /\ price[v] <= clock[v[2]] /\ price[v] > cache'[v[2]]
               /\ \A t \in Updaters : price[v] > snapshot'[t][v[2]]
    <3>1. v[2] \in Feeds /\ price[v] > cache[v[2]] /\ price[v] <= clock[v[2]]
          /\ \A t \in Updaters : price[v] > snapshot[t][v[2]]
      BY <2>4, WorkerParts
    <3>2. cache[v[2]] \in Nat /\ price[v] \in Nat
      BY <3>1
    <3>3. cache'[v[2]] \in {cache[v[2]], snapshot[u][v[2]]}
      BY <2>2, <3>1
    <3>4. price[v] > cache'[v[2]]
      BY <3>1, <3>3
    <3>5. ASSUME NEW t \in Updaters
          PROVE  price[v] > snapshot'[t][v[2]]
      <4>1. snapshot'[t][v[2]] \in {snapshot[t][v[2]], 0}
        BY <2>3, <3>1
      <4>2. price[v] > snapshot[t][v[2]] /\ cache[v[2]] >= 0
        BY <3>1, <3>2
      <4>3. price[v] > cache[v[2]]
        BY <3>1
      <4>4. QED
        BY <3>2, <4>1, <4>2, <4>3
    <3>6. QED
      BY <3>1, <3>4, <3>5
  <2>5. ASSUME NEW e \in Feeds
        PROVE  cache'[e] <= clock[e] /\ \A t \in Updaters : snapshot'[t][e] <= clock[e]
    <3>1. cache'[e] \in {cache[e], snapshot[u][e]}
      BY <2>2
    <3>2. cache[e] <= clock[e] /\ \A t \in Updaters : snapshot[t][e] <= clock[e]
      OBVIOUS
    <3>3. cache'[e] <= clock[e]
      BY <3>1, <3>2
    <3>4. ASSUME NEW t \in Updaters
          PROVE  snapshot'[t][e] <= clock[e]
      <4>1. snapshot'[t][e] \in {snapshot[t][e], 0}
        BY <2>3
      <4>2. 0 <= clock[e] /\ snapshot[t][e] <= clock[e]
        BY <3>2
      <4>3. QED
        BY <4>1, <4>2
    <3>5. QED
      BY <3>3, <3>4
  <2>6. QED
    BY <2>1, <2>4, <2>5
<1>5. ASSUME UNCHANGED <<cache, clock, snapshot, price>>,
             \A w \in Workers : stage'[w] = "store" => stage[w] = "store"
      PROVE  FetchedIsNewest'
  BY <1>5
<1>6. CASE StartRound
  BY <1>6, <1>5 DEF StartRound, storeVars
<1>7. ASSUME NEW w \in Workers,
             \/ Acquire(w) \/ Lookup(w) \/ RoundDataOk(w) \/ RoundDataFails(w)
             \/ RoundDataReverts(w) \/ SwitchOk(w) \/ SwitchFails(w)
      PROVE  FetchedIsNewest'
  <2>1. UNCHANGED <<cache, clock, snapshot, price>>
    BY <1>7 DEF Acquire, Lookup, RoundDataOk, RoundDataFails, RoundDataReverts,
                SwitchOk, SwitchFails, storeVars
  <2>2. \A v \in Workers : stage'[v] = "store" => stage[v] = "store"
    BY <1>7 DEF Acquire, Lookup, RoundDataOk, RoundDataFails, RoundDataReverts,
                SwitchOk, SwitchFails, At, Retries
  <2>3. QED
    BY <1>5, <2>1, <2>2
<1>8. ASSUME NEW w \in Workers, Finish(w)
      PROVE  FetchedIsNewest'
  <2>1. \A v \in Workers : stage'[v] = "store" => stage[v] = "store" /\ price'[v] = price[v]
    BY <1>8 DEF Finish, At
  <2>2. UNCHANGED <<cache, clock, snapshot>>
    BY <1>8 DEF Finish, storeVars
  <2>3. QED
    BY <2>1, <2>2
<1>9. CASE UNCHANGED <<workerVars, cache, clock, snapshot>>
  BY <1>9 DEF workerVars
<1>10. QED
  BY <1>1, <1>2, <1>3, <1>4, <1>6, <1>7, <1>8, <1>9
     DEF Next, Environment, AddClient, AddPriceFeed, Tick, Stop, Start, Loop,
         CopyClients, EndRound, SelectTick, SelectStop, Goto, Work, LocalWork,
         Answer, WriteBackLoop, storeVars

\* No step takes a variable out of its type.
LEMMA TypeStep ==
  ASSUME TypeOK, TokensCounted, AttemptLeft, Next
  PROVE  TypeOK'
<1> USE MonitorAssumption DEF TypeOK
<1>1. ASSUME NEW n \in Networks, AddClient(n)
      PROVE  TypeOK'
  BY <1>1 DEF AddClient, loopVars, workerVars
<1>2. ASSUME NEW f \in Feeds, AddPriceFeed(f)
      PROVE  TypeOK'
  BY <1>2 DEF AddPriceFeed, loopVars, workerVars
<1>3. CASE Tick \/ Stop \/ Start \/ CopyClients \/ EndRound \/ SelectTick \/ SelectStop
  <2>1. UNCHANGED workerVars /\ UNCHANGED storeVars /\ snapshot' = snapshot
    BY <1>3 DEF Tick, Stop, Start, CopyClients, EndRound, SelectTick, SelectStop, Goto
  <2>2. /\ loop' \in {"new", "round", "spawn", "wait", "select", "done"}
        /\ known' \in {known, clients} /\ round' = round
        /\ tick' \in BOOLEAN /\ stopped' \in BOOLEAN
    BY <1>3 DEF Tick, Stop, Start, CopyClients, EndRound, SelectTick, SelectStop, Goto,
                storeVars
  <2>3. ticks' \in 0 .. MaxTicks
    BY <1>3 DEF Tick, Stop, Start, CopyClients, EndRound, SelectTick, SelectStop, Goto
  <2>4. QED
    BY <2>1, <2>2, <2>3 DEF workerVars, storeVars
<1>4. CASE StartRound
  <2> DEFINE S == {f \in feeds : NetOf[f] \in known}
  <2>1. Cardinality(S) \in 0 .. Cardinality(Feeds)
    <3>1. S \in SUBSET Feeds
      OBVIOUS
    <3>2. IsFiniteSet(S) /\ Cardinality(S) <= Cardinality(Feeds)
      BY <3>1, FS_Subset
    <3>3. QED
      BY <3>2, FS_CardinalityType
  <2>2. /\ wg' \in [{0, 1} -> 0 .. Cardinality(Feeds)]
        /\ semaphore' \in [{0, 1} -> 0 .. SemCap]
    BY <1>4, <2>1 DEF StartRound, Added
  <2>3. stage' \in [Workers -> Stages]
    BY <1>4 DEF StartRound, Stages
  <2>4. QED
    BY <1>4, <2>2, <2>3 DEF StartRound, storeVars
<1>5. ASSUME NEW w \in Workers, Acquire(w)
      PROVE  TypeOK'
  <2>1. semaphore' \in [{0, 1} -> 0 .. SemCap]
    BY <1>5, WorkerParts DEF Acquire
  <2>2. QED
    BY <1>5, <2>1 DEF Acquire, At, Stages, loopVars, storeVars
<1>6. ASSUME NEW w \in Workers, Finish(w)
      PROVE  TypeOK'
  <2>1. semaphore[w[1]] > 0 /\ wg[w[1]] > 0
    BY <1>6, CountedIn DEF Finish, At, Holding, Busy
  <2>2. /\ semaphore' \in [{0, 1} -> 0 .. SemCap]
        /\ wg' \in [{0, 1} -> 0 .. Cardinality(Feeds)]
    <3>1. w[1] \in {0, 1}
      BY WorkerParts
    <3>2. Cardinality(Feeds) \in Nat
      BY FS_CardinalityType
    <3>3. semaphore[w[1]] - 1 \in 0 .. SemCap /\ wg[w[1]] - 1 \in 0 .. Cardinality(Feeds)
      BY <2>1, <3>1, <3>2
    <3>4. /\ semaphore' = [semaphore EXCEPT ![w[1]] = semaphore[w[1]] - 1]
          /\ wg' = [wg EXCEPT ![w[1]] = wg[w[1]] - 1]
      BY <1>6 DEF Finish
    <3>5. QED
      BY <3>3, <3>4
  <2>3. attempt' \in [Workers -> 0 .. MaxRetries + 1] /\ price' \in [Workers -> Nat]
    BY <1>6 DEF Finish
  <2>4. QED
    BY <1>6, <2>2, <2>3 DEF Finish, At, Stages, loopVars, storeVars
<1>7. ASSUME NEW w \in Workers,
             Lookup(w) \/ RoundDataOk(w) \/ RoundDataFails(w) \/ RoundDataReverts(w)
             \/ SwitchFails(w)
      PROVE  TypeOK'
  <2>1. CASE Lookup(w)
    BY <2>1 DEF Lookup, At, Stages, loopVars, storeVars
  <2>2. CASE RoundDataOk(w)
    BY <2>2 DEF RoundDataOk, At, Stages, loopVars, storeVars
  <2>3. CASE RoundDataFails(w) \/ RoundDataReverts(w)
    BY <2>3 DEF RoundDataFails, RoundDataReverts, At, Stages, loopVars, storeVars
  <2>4. CASE SwitchFails(w)
    BY <2>4 DEF SwitchFails, At, Stages, loopVars, storeVars
  <2>5. QED
    BY <1>7, <2>1, <2>2, <2>3, <2>4
<1>8. ASSUME NEW w \in Workers, SwitchOk(w)
      PROVE  TypeOK'
  <2>1. NetOf[w[2]] \in Networks /\ attempt[w] + 1 \in 0 .. MaxRetries + 1
    BY <1>8, WorkerParts DEF SwitchOk, At, AttemptLeft
  <2>2. QED
    BY <1>8, <2>1 DEF SwitchOk, At, Stages, loopVars
<1>9. ASSUME NEW w \in Workers, DecimalsDone(w) \/ StorePrice(w)
      PROVE  TypeOK'
  <2>1. w[2] \in Feeds /\ clock[w[2]] + 1 \in Nat /\ price[w] \in Nat
    BY WorkerParts
  <2>2. clock' \in [Feeds -> Nat] /\ price' \in [Workers -> Nat] /\ cache' \in [Feeds -> Nat]
    BY <1>9, <2>1 DEF DecimalsDone, StorePrice
  <2>3. feeds' \in SUBSET Feeds /\ stage' \in [Workers -> Stages]
    BY <1>9, <2>1 DEF DecimalsDone, StorePrice, At, Stages
  <2>4. QED
    BY <1>9, <2>2, <2>3 DEF DecimalsDone, StorePrice, loopVars
<1>10. ASSUME NEW u \in Updaters, NEW n \in Networks, TakePrices(u, n)
       PROVE  TypeOK'
  BY <1>10 DEF TakePrices, loopVars, workerVars, storeVars
<1>11. ASSUME NEW u \in Updaters, NEW f \in Feeds, WriteBack(u, f)
       PROVE  TypeOK'
  BY <1>11 DEF WriteBack, loopVars, workerVars
<1>12. QED
  BY <1>1, <1>2, <1>3, <1>4, <1>5, <1>6, <1>7, <1>8, <1>9, <1>10, <1>11
     DEF Next, Environment, Loop, Work, LocalWork, Answer, WriteBackLoop

-----------------------------------------------------------------------------
(* Theorems *)

\* The inductive invariant holds in every reachable state.
THEOREM Invariance == Spec => []IInv
<1>1. Init => IInv
  <2> SUFFICES ASSUME Init
               PROVE  IInv
    OBVIOUS
  <2>1. \A w \in Workers : stage[w] = "idle"
    BY DEF Init
  <2>2. OneRoundAtATime /\ AttemptLeft /\ FetchedIsNewest
    BY <2>1 DEF Init, OneRoundAtATime, AttemptLeft, FetchedIsNewest, Busy, NoPrices
  <2>3. TypeOK
    <3>1. Cardinality(Feeds) \in Nat /\ 0 \in 0 .. MaxRetries + 1 /\ 0 \in 0 .. SemCap
      BY FS_CardinalityType, MonitorAssumption
    <3>2. /\ semaphore \in [{0, 1} -> 0 .. SemCap]
          /\ wg \in [{0, 1} -> 0 .. Cardinality(Feeds)]
          /\ attempt \in [Workers -> 0 .. MaxRetries + 1]
          /\ ticks \in 0 .. MaxTicks
      BY <3>1, MonitorAssumption DEF Init
    <3>3. /\ cache \in [Feeds -> Nat] /\ clock \in [Feeds -> Nat]
          /\ snapshot \in [Updaters -> [Feeds -> Nat]] /\ price \in [Workers -> Nat]
      BY DEF Init, NoPrices
    <3>4. QED
      BY <3>2, <3>3 DEF Init, TypeOK, Stages
  <2>4. TokensCounted
    <3>1. \A r \in {0, 1} : HoldingIn(r) = {} /\ BusyIn(r) = {}
      BY <2>1 DEF HoldingIn, BusyIn, Holding, Busy
    <3>2. QED
      BY <3>1, FS_EmptySet DEF Init, TokensCounted
  <2>5. QED
    BY <2>2, <2>3, <2>4 DEF IInv
<1>2. IInv /\ Next => IInv'
  BY TypeStep, TokensStep, RoundStep, AttemptStep, NewestStep DEF IInv
<1>3. IInv /\ UNCHANGED vars => IInv'
  BY DEF vars, loopVars, workerVars, storeVars, IInv, TypeOK, TokensCounted,
         OneRoundAtATime, AttemptLeft, FetchedIsNewest, HoldingIn, BusyIn, Holding, Busy
<1>4. QED
  BY <1>1, <1>2, <1>3, PTL DEF Spec

\* No counter of a round leaves its range: a token is given back only by a
\* goroutine that has one, and wg.Done is called once by each.
THEOREM TypeCorrect == Spec => []TypeOK
BY Invariance, PTL DEF IInv

\* The semaphore of one round limits the whole monitor, for any number of
\* feeds and any capacity.
THEOREM FetchesBounded == Spec => []InFlightBounded
<1>1. IInv => InFlightBounded
  <2> SUFFICES ASSUME IInv
               PROVE  InFlightBounded
    OBVIOUS
  <2>1. {w \in Workers : Holding(w)} = HoldingIn(round)
    BY DEF IInv, OneRoundAtATime, HoldingIn, Holding, Busy
  <2>2. Cardinality(HoldingIn(round)) <= SemCap
    BY MonitorAssumption DEF IInv, TypeOK, TokensCounted
  <2>3. QED
    BY <2>1, <2>2 DEF InFlightBounded
<1>2. QED
  BY <1>1, Invariance, PTL

\* Rounds never overlap: a feed has one goroutine at most, and none is left
\* when Start is not waiting.
THEOREM NoOverlap == Spec => []RoundsDoNotOverlap
<1>1. IInv => RoundsDoNotOverlap
  <2> SUFFICES ASSUME IInv
               PROVE  RoundsDoNotOverlap
    OBVIOUS
  <2>1. \A f \in Feeds : <<0, f>> \in Workers /\ <<1, f>> \in Workers
    BY DEF Workers
  <2>2. QED
    BY <2>1 DEF IInv, OneRoundAtATime, RoundsDoNotOverlap
<1>2. QED
  BY <1>1, Invariance, PTL

\* A fetch never stores a price that is older than, or the same as, the one
\* in the cache, whatever the write-back loops put there meanwhile.
THEOREM PricesAdvance == Spec => FetchesAdvance
<1>1. ASSUME IInv, Next, NEW w \in Workers, stage[w] = "store", stage'[w] = "finish"
      PROVE  cache'[w[2]] > cache[w[2]]
  <2>1. StorePrice(w)
    <3>1. stage' # stage
      BY <1>1
    <3>2. ~Elsewhere
      BY <3>1, ElsewhereKeeps DEF workerVars
    <3>3. ~StartRound
      BY <1>1 DEF StartRound, IInv, TypeOK
    <3>4. PICK v \in Workers : Work(v)
      BY <1>1, <3>2, <3>3 DEF Next, Environment, Loop, WriteBackLoop, Elsewhere
    <3>5. v = w
      BY <1>1, <3>4 DEF IInv, TypeOK, Work, LocalWork, Answer, Acquire, Lookup, RoundDataOk,
         RoundDataFails, RoundDataReverts, SwitchOk, SwitchFails, DecimalsDone,
         StorePrice, Finish, At
    <3>6. QED
      BY <1>1, <3>4, <3>5 DEF Work, LocalWork, Answer, Acquire, Lookup, RoundDataOk,
         RoundDataFails, RoundDataReverts, SwitchOk, SwitchFails, DecimalsDone,
         StorePrice, Finish, At
  <2>2. cache'[w[2]] = price[w]
    <3>1. w[2] \in Feeds /\ cache \in [Feeds -> Nat]
      BY <1>1, WorkerParts DEF IInv, TypeOK
    <3>2. QED
      BY <2>1, <3>1 DEF StorePrice
  <2>3. QED
    BY <1>1, <2>2 DEF IInv, FetchedIsNewest
<1>2. IInv /\ [Next]_vars => [\A w \in Workers : stage[w] = "store" /\ stage'[w] = "finish"
                                => cache'[w[2]] > cache[w[2]]]_vars
  BY <1>1
<1>3. QED
  BY <1>2, Invariance, PTL DEF Spec, FetchesAdvance

-----------------------------------------------------------------------------
(* What the monitor and the write-back loops do to the cache *)

\* Who writes the cache, and how.
LEMMA CacheSteps ==
  ASSUME Next
  PROVE  \/ UNCHANGED <<cache, feeds>>
         \/ \E f \in Feeds : AddPriceFeed(f)
         \/ \E w \in Workers : StorePrice(w)
         \/ \E u \in Updaters : \E f \in Feeds : WriteBack(u, f)
<1>1. ASSUME NEW w \in Workers, Work(w)
      PROVE  StorePrice(w) \/ UNCHANGED <<cache, feeds>>
  BY <1>1 DEF Work, LocalWork, Answer, Acquire, Lookup, RoundDataOk, RoundDataFails,
              RoundDataReverts, SwitchOk, SwitchFails, DecimalsDone, Finish, storeVars
<1>2. ASSUME NEW u \in Updaters, WriteBackLoop(u)
      PROVE  UNCHANGED <<cache, feeds>> \/ \E f \in Feeds : WriteBack(u, f)
  BY <1>2 DEF WriteBackLoop, TakePrices, storeVars
<1>3. Loop => UNCHANGED <<cache, feeds>>
  BY DEF Loop, CopyClients, StartRound, EndRound, SelectTick, SelectStop, storeVars
<1>4. Environment => UNCHANGED <<cache, feeds>> \/ \E f \in Feeds : AddPriceFeed(f)
  BY DEF Environment, AddClient, Tick, Stop, Start, storeVars
<1>5. QED
  BY <1>1, <1>2, <1>3, <1>4 DEF Next

\* A price that is stored is one: 0 stands for none.
LEMMA StoredPrice ==
  ASSUME IInv, NEW w \in Workers, StorePrice(w)
  PROVE  w[2] \in Feeds /\ price[w] \in Nat \ {0} /\ price[w] > cache[w[2]]
<1>1. w[2] \in Feeds
  BY WorkerParts
<1>2. price[w] \in Nat /\ cache[w[2]] \in Nat
  BY <1>1 DEF IInv, TypeOK
<1>3. price[w] > cache[w[2]]
  BY DEF StorePrice, At, IInv, FetchedIsNewest
<1>4. QED
  BY <1>1, <1>2, <1>3

\* The cache as the store that PriceCache implements: a feed is known by its
\* network and its key, and has a price or none.
AllFeeds == Networks \X Feeds
OfNetwork(e) == e[1] = NetOf[e[2]]
Latest == [e \in AllFeeds |-> IF OfNetwork(e) THEN cache[e[2]] ELSE 0]
Monitored == {e \in AllFeeds : OfNetwork(e) /\ e[2] \in feeds}

Store == INSTANCE AtomicPriceStore
           WITH Keys <- Feeds, Times <- Nat \ {0}, NoPrice <- 0,
                latest <- Latest, monitored <- Monitored

\* A feed has one place in the store, that of its network.
LEMMA FeedOfNetwork ==
  ASSUME NEW f \in Feeds
  PROVE  /\ <<NetOf[f], f>> \in AllFeeds
         /\ \A e \in AllFeeds : OfNetwork(e) /\ e[2] = f <=> e = <<NetOf[f], f>>
BY MonitorAssumption DEF AllFeeds, OfNetwork

\* A feed that is added is monitored in its place, and no other.
LEMMA OneAdded ==
  ASSUME NEW f \in Feeds, feeds' = feeds \cup {f}
  PROVE  Monitored' = Monitored \cup {<<NetOf[f], f>>}
<1>1. ASSUME NEW e \in AllFeeds
      PROVE  e \in Monitored' <=> e \in Monitored \/ e = <<NetOf[f], f>>
  BY FeedOfNetwork DEF Monitored, OfNetwork
<1>2. <<NetOf[f], f>> \in AllFeeds
  BY FeedOfNetwork
<1>3. Monitored' \subseteq AllFeeds /\ Monitored \subseteq AllFeeds
  BY DEF Monitored, AllFeeds
<1>4. QED
  BY <1>1, <1>2, <1>3

\* A price that is written is the latest of its place, and no other.
LEMMA OneWritten ==
  ASSUME TypeOK, NEW f \in Feeds, NEW t, cache' = [cache EXCEPT ![f] = t]
  PROVE  Latest' = [Latest EXCEPT ![<<NetOf[f], f>>] = t]
<1>1. ASSUME NEW e \in AllFeeds
      PROVE  Latest'[e] = IF e = <<NetOf[f], f>> THEN t ELSE Latest[e]
  <2>1. e[2] \in Feeds
    BY DEF AllFeeds
  <2>2. cache'[e[2]] = IF e[2] = f THEN t ELSE cache[e[2]]
    BY <2>1 DEF TypeOK
  <2>3. QED
    BY <2>2, FeedOfNetwork DEF Latest, OfNetwork, AllFeeds
<1>2. Latest = [e \in AllFeeds |-> Latest[e]] /\ Latest' = [e \in AllFeeds |-> Latest'[e]]
  BY DEF Latest, AllFeeds
<1>3. QED
  BY <1>1, <1>2

-----------------------------------------------------------------------------
(* Theorems about the cache *)

\* The monitor and the write-back loops use the cache only as the atomic
\* store that PriceCache implements allows: they add feeds and write prices,
\* no step loses a price, and a feed that has one is monitored.
THEOREM MonitorUsesStore == Spec => Store!Spec
<1>1. Init => Store!Init
  BY DEF Init, NoPrices, Store!Init, Store!Feeds, Latest, Monitored, AllFeeds, OfNetwork
<1>2. ASSUME IInv, [Next]_vars
      PROVE  [Store!Next]_(Store!storeVars)
  <2>1. CASE UNCHANGED <<cache, feeds>>
    BY <2>1 DEF Store!storeVars, Latest, Monitored, OfNetwork
  <2>2. ASSUME NEW f \in Feeds, AddPriceFeed(f)
        PROVE  Store!AddFeed(<<NetOf[f], f>>)
    <3>1. feeds' = feeds \cup {f} /\ cache' = cache
      BY <2>2 DEF AddPriceFeed
    <3>2. Latest' = Latest
      BY <3>1 DEF Latest, OfNetwork
    <3>3. QED
      BY <3>1, <3>2, OneAdded DEF Store!AddFeed
  <2>3. ASSUME NEW w \in Workers, StorePrice(w)
        PROVE  Store!UpdatePrice(<<NetOf[w[2]], w[2]>>, price[w])
    <3>1. /\ w[2] \in Feeds /\ feeds' = feeds \cup {w[2]}
          /\ cache' = [cache EXCEPT ![w[2]] = price[w]]
      BY <2>3, WorkerParts DEF StorePrice
    <3>2. QED
      BY <1>2, <3>1, OneAdded, OneWritten DEF Store!UpdatePrice, IInv
  <2>4. ASSUME NEW u \in Updaters, NEW f \in Feeds, WriteBack(u, f)
        PROVE  Store!UpdatePrice(<<NetOf[f], f>>, snapshot[u][f])
    <3>1. feeds' = feeds \cup {f} /\ cache' = [cache EXCEPT ![f] = snapshot[u][f]]
      BY <2>4 DEF WriteBack
    <3>2. QED
      BY <1>2, <3>1, OneAdded, OneWritten DEF Store!UpdatePrice, IInv
  <2>5. \A f \in Feeds : <<NetOf[f], f>> \in Store!Feeds
    BY FeedOfNetwork DEF Store!Feeds, AllFeeds
  <2>6. \A w \in Workers : StorePrice(w) => w[2] \in Feeds /\ price[w] \in Nat \ {0}
    BY <1>2, StoredPrice
  <2>7. \A u \in Updaters : \A f \in Feeds : WriteBack(u, f) => snapshot[u][f] \in Nat \ {0}
    BY <1>2 DEF WriteBack, IInv, TypeOK
  <2>8. CASE Next
    BY <2>1, <2>2, <2>3, <2>4, <2>5, <2>6, <2>7, <2>8, CacheSteps DEF Store!Next
  <2>9. CASE UNCHANGED vars
    BY <2>1, <2>9 DEF vars, storeVars
  <2>10. QED
    BY <1>2, <2>8, <2>9
<1>3. QED
  BY <1>1, <1>2, Invariance, PTL DEF Spec, Store!Spec

\* The only step that makes a cached price older is that of the write-back
\* loop: what the run monitor_write_back finds has no other cause.
THEOREM OnlyWriteBackGoesBack ==
  Spec => [][\A f \in Feeds : cache'[f] < cache[f]
                               => \E u \in Updaters : WriteBack(u, f)]_vars
<1>1. ASSUME IInv, Next, NEW f \in Feeds, cache'[f] < cache[f]
      PROVE  \E u \in Updaters : WriteBack(u, f)
  <2>1. cache \in [Feeds -> Nat]
    BY <1>1 DEF IInv, TypeOK
  <2>2. cache' # cache
    BY <1>1, <2>1
  <2>3. ASSUME NEW w \in Workers, StorePrice(w)
        PROVE  FALSE
    <3>1. cache' = [cache EXCEPT ![w[2]] = price[w]]
      BY <2>3 DEF StorePrice
    <3>2. price[w] > cache[w[2]] /\ price[w] \in Nat
      BY <1>1, <2>3, StoredPrice
    <3>3. QED
      BY <1>1, <2>1, <3>1, <3>2
  <2>4. PICK u \in Updaters : \E e \in Feeds : WriteBack(u, e)
    BY <1>1, <2>2, <2>3, CacheSteps DEF AddPriceFeed
  <2>5. PICK e \in Feeds : WriteBack(u, e)
    BY <2>4
  <2>6. e = f
    BY <1>1, <2>1, <2>5 DEF WriteBack
  <2>7. QED
    BY <2>5, <2>6
<1>2. IInv /\ [Next]_vars => [\A f \in Feeds : cache'[f] < cache[f]
                                => \E u \in Updaters : WriteBack(u, f)]_vars
  BY <1>1
<1>3. QED
  BY <1>2, Invariance, PTL DEF Spec

\* Without the write-back loops the price of a feed never goes back, however
\* slow the endpoints are and however often they are switched.
THEOREM NeverBackWithoutWriteBack ==
  ASSUME Updaters = {}
  PROVE  Spec => PricesNeverGoBack
<1>1. ASSUME IInv, [Next]_vars,
             [\A f \in Feeds : cache'[f] < cache[f]
                                => \E u \in Updaters : WriteBack(u, f)]_vars
      PROVE  [\A f \in Feeds : cache'[f] >= cache[f]]_vars
  <2>1. cache \in [Feeds -> Nat]
    BY <1>1 DEF IInv, TypeOK
  <2>2. ASSUME Next
        PROVE  cache' \in [Feeds -> Nat]
    BY <1>1, <2>2, TypeStep DEF IInv, TypeOK
  <2>3. QED
    BY <1>1, <2>1, <2>2
<1>2. QED
  BY <1>1, Invariance, OnlyWriteBackGoesBack, PTL DEF Spec, PricesNeverGoBack

-----------------------------------------------------------------------------
(* Why a round ends, so far as it does not depend on fairness: some        *)
(* goroutine of it can go on, and none can go on for ever.                 *)

\* While Start waits, one of the goroutines it waits for has its token or
\* can take one, so that not all of them wait for each other.  With a token
\* only the answer of an endpoint can hold it up.
SomeoneGoesOn ==
  loop = "wait" /\ wg[round] # 0
    => \E w \in Workers : /\ w[1] = round /\ Busy(w)
                          /\ stage[w] = "queued" => semaphore[round] < SemCap

\* The attempts of a goroutine that are left, this one included.
TriesLeft(w) == MaxRetries + 1 - attempt[w]

\* How many steps a goroutine can still take.
Effort(w) == CASE stage[w] = "idle"     -> 0
               [] stage[w] = "finish"   -> 1
               [] stage[w] = "store"    -> 2
               [] stage[w] = "decimals" -> 3
               [] stage[w] = "switch"   -> 3 + 2 * TriesLeft(w)
               [] stage[w] = "call"     -> 4 + 2 * TriesLeft(w)
               [] stage[w] = "lookup"   -> 5 + 2 * MaxRetries
               [] stage[w] = "queued"   -> 6 + 2 * MaxRetries

\* It is bounded by the number of retries.
EffortBounded == \A w \in Workers : Effort(w) \in 0 .. 6 + 2 * MaxRetries

\* During a round no step gives a goroutine more to do, and each of its own
\* steps leaves it less.
EffortFalls ==
  [][loop = "wait" => \A w \in Workers : /\ Effort(w)' <= Effort(w)
                                         /\ Work(w) => Effort(w)' < Effort(w)]_vars

\* A goroutine that has looked its client up is in its first attempt or in a
\* later one.
Attempting == \A w \in Workers : stage[w] \in {"call", "switch"} => attempt[w] >= 1

\* Attempts are counted from 1.
LEMMA AttemptingStep ==
  ASSUME TypeOK, Attempting, [Next]_vars
  PROVE  Attempting'
<1> SUFFICES ASSUME NEW w \in Workers, stage'[w] \in {"call", "switch"}
             PROVE  attempt'[w] >= 1
  BY DEF Attempting
<1> USE DEF Attempting, TypeOK
<1>1. CASE Elsewhere
  BY <1>1, ElsewhereKeeps DEF workerVars
<1>2. CASE StartRound
  BY <1>2 DEF StartRound
<1>3. ASSUME NEW v \in Workers, Work(v)
      PROVE  attempt'[w] >= 1
  <2>1. CASE Lookup(v)
    BY <2>1 DEF Lookup, At
  <2>2. CASE SwitchOk(v)
    BY <2>2 DEF SwitchOk, At
  <2>3. CASE Finish(v)
    BY <2>3 DEF Finish, At
  <2>4. QED
    BY <1>3, <2>1, <2>2, <2>3
       DEF Work, LocalWork, Answer, Acquire, RoundDataOk, RoundDataFails,
           RoundDataReverts, SwitchFails, DecimalsDone, StorePrice, At, Retries
<1>4. CASE UNCHANGED vars
  BY <1>4 DEF vars, workerVars
<1>5. QED
  BY <1>1, <1>2, <1>3, <1>4 DEF Next, Environment, Loop, WriteBackLoop, Elsewhere

\* The effort of a goroutine is a number within the bound.
LEMMA EffortType ==
  ASSUME TypeOK, Attempting, NEW w \in Workers
  PROVE  Effort(w) \in 0 .. 6 + 2 * MaxRetries
<1>1. stage[w] \in Stages /\ attempt[w] \in 0 .. MaxRetries + 1 /\ MaxRetries \in Nat
  BY MonitorAssumption DEF TypeOK
<1>2. stage[w] \in {"call", "switch"} => attempt[w] >= 1
  BY DEF Attempting
<1>3. QED
  BY <1>1, <1>2 DEF Stages, Effort, TriesLeft

\* The steps of a goroutine leave it less to do.
LEMMA WorkStep ==
  ASSUME TypeOK, AttemptLeft, Attempting, NEW w \in Workers, Work(w)
  PROVE  Effort(w)' < Effort(w)
<1>1. stage[w] \in Stages /\ attempt[w] \in 0 .. MaxRetries + 1 /\ MaxRetries \in Nat
  BY MonitorAssumption DEF TypeOK
<1>2. stage[w] \in {"call", "switch"} => attempt[w] >= 1
  BY DEF Attempting
<1> USE DEF TypeOK, Effort, TriesLeft
<1>3. CASE Acquire(w)
  BY <1>1, <1>3 DEF Acquire, At
<1>4. CASE Lookup(w)
  <2>1. stage[w] = "lookup" /\ stage'[w] \in {"call", "finish"} /\ attempt'[w] = 1
    BY <1>4 DEF Lookup, At
  <2>2. QED
    BY <1>1, <2>1
<1>5. CASE RoundDataOk(w) \/ RoundDataFails(w) \/ RoundDataReverts(w)
  <2>1. /\ stage[w] = "call" /\ stage'[w] \in {"decimals", "finish", "switch"}
        /\ attempt' = attempt
    BY <1>5 DEF RoundDataOk, RoundDataFails, RoundDataReverts, At
  <2>2. QED
    BY <1>1, <1>2, <2>1
<1>6. CASE SwitchOk(w)
  <2>1. stage[w] = "switch" /\ stage'[w] = "call" /\ attempt'[w] = attempt[w] + 1
    BY <1>6 DEF SwitchOk, At
  <2>2. attempt[w] <= MaxRetries
    BY <2>1 DEF AttemptLeft
  <2>3. QED
    BY <1>1, <2>1, <2>2
<1>7. CASE SwitchFails(w)
  <2>1. stage[w] = "switch" /\ stage'[w] = "finish" /\ attempt[w] <= MaxRetries
    BY <1>7 DEF SwitchFails, At, AttemptLeft
  <2>2. QED
    BY <1>1, <2>1
<1>8. CASE DecimalsDone(w) \/ StorePrice(w) \/ Finish(w)
  BY <1>8 DEF DecimalsDone, StorePrice, Finish, At
<1>9. QED
  BY <1>3, <1>4, <1>5, <1>6, <1>7, <1>8 DEF Work, LocalWork, Answer

\* The steps of one goroutine are not those of another.
LEMMA OthersWork ==
  ASSUME NEW v \in Workers, Work(v), NEW w \in Workers, w # v, TypeOK
  PROVE  stage'[w] = stage[w] /\ attempt'[w] = attempt[w]
BY DEF TypeOK, Work, LocalWork, Answer, Acquire, Lookup, RoundDataOk, RoundDataFails,
       RoundDataReverts, SwitchOk, SwitchFails, DecimalsDone, StorePrice, Finish, At

\* The goroutines of a round never all wait: a token that was taken is given
\* back, and there is at least one.
THEOREM RoundCanGoOn == Spec => []SomeoneGoesOn
<1>1. IInv => SomeoneGoesOn
  <2> SUFFICES ASSUME IInv, loop = "wait", wg[round] # 0
               PROVE  \E w \in Workers : /\ w[1] = round /\ Busy(w)
                                         /\ stage[w] = "queued" => semaphore[round] < SemCap
    BY DEF SomeoneGoesOn
  <2>1. round \in {0, 1} /\ wg[round] = Cardinality(BusyIn(round))
        /\ semaphore[round] = Cardinality(HoldingIn(round))
    BY DEF IInv, TypeOK, TokensCounted
  <2>2. BusyIn(round) # {}
    BY <2>1, FS_EmptySet
  <2>3. PICK w \in Workers : w[1] = round /\ Busy(w)
    BY <2>2 DEF BusyIn
  <2>4. CASE HoldingIn(round) = {}
    <3>1. semaphore[round] = 0
      BY <2>1, <2>4, FS_EmptySet
    <3>2. QED
      BY <2>3, <3>1, MonitorAssumption
  <2>5. CASE HoldingIn(round) # {}
    BY <2>5 DEF HoldingIn, Holding, Busy
  <2>6. QED
    BY <2>4, <2>5
<1>2. QED
  BY <1>1, Invariance, PTL

\* And none of them goes on for ever: a goroutine takes at most
\* 6 + 2 * MaxRetries steps in a round, whatever its endpoints answer.
THEOREM RoundsAreFinite == Spec => []EffortBounded /\ EffortFalls
<1>1. Init => Attempting
  BY DEF Init, Attempting
<1>2. Attempting /\ TypeOK /\ [Next]_vars => Attempting'
  BY AttemptingStep
<1>3. TypeOK /\ Attempting => EffortBounded
  BY EffortType DEF EffortBounded
<1>4. ASSUME IInv, Attempting, EffortBounded, EffortBounded', Next, loop = "wait",
             NEW w \in Workers
      PROVE  Effort(w)' <= Effort(w) /\ (Work(w) => Effort(w)' < Effort(w))
  <2>1. Work(w) => Effort(w)' < Effort(w)
    BY <1>4, WorkStep DEF IInv
  <2>2. Effort(w) \in Int /\ Effort(w)' \in Int
    BY <1>4, MonitorAssumption DEF EffortBounded
  <2>3. (stage'[w] = stage[w] /\ attempt'[w] = attempt[w]) \/ Work(w)
    <3>1. ~StartRound
      BY <1>4 DEF StartRound
    <3>2. Elsewhere => UNCHANGED workerVars
      BY ElsewhereKeeps
    <3>3. Elsewhere \/ \E v \in Workers : Work(v)
      BY <1>4, <3>1 DEF Next, Environment, Loop, WriteBackLoop, Elsewhere
    <3>4. QED
      BY <1>4, <3>2, <3>3, OthersWork DEF workerVars, IInv
  <2>4. stage'[w] = stage[w] /\ attempt'[w] = attempt[w] => Effort(w)' = Effort(w)
    BY DEF Effort, TriesLeft
  <2>5. QED
    BY <2>1, <2>2, <2>3, <2>4
<1>5. IInv /\ Attempting /\ EffortBounded /\ EffortBounded' /\ [Next]_vars
        => [loop = "wait" => \A w \in Workers : /\ Effort(w)' <= Effort(w)
                                                /\ Work(w) => Effort(w)' < Effort(w)]_vars
  BY <1>4
<1>6. IInv => TypeOK
  BY DEF IInv
<1>7. QED
  BY <1>1, <1>2, <1>3, <1>5, <1>6, Invariance, PTL DEF Spec, EffortFalls
=============================================================================
