-------------------------- MODULE ChainlinkMonitor --------------------------
(***************************************************************************)
(* The Chainlink price monitor of pricefeed/chainlink_monitor.go with the  *)
(* fetch of chainlink/client.go and the write-back loop of main.go.        *)
(*                                                                         *)
(* The monitor's goroutine runs rounds: it copies the clients and the      *)
(* feeds, starts one goroutine for each feed of a network it has a client  *)
(* for, and waits for all of them.  A semaphore local to the round limits  *)
(* how many of them talk to an RPC endpoint at the same time.  A call that *)
(* reverts makes its goroutine switch the endpoint and try again.  The     *)
(* cache is the one of PriceCache at the level of AtomicPriceStore.        *)
(*                                                                         *)
(* A price is its timestamp, the instant its fetch completed.  Only the    *)
(* prices of one feed are ever compared, so each feed counts its own.      *)
(***************************************************************************)
EXTENDS Integers, FiniteSets

CONSTANTS Networks,
          Feeds,        \* the Chainlink feeds anyone may ask to monitor
          NetOf,        \* the network of each feed
          Updaters,     \* the goroutines of main.go that write prices back
          HasSwitcher,  \* whether SetNetworkConfig was called
          SemCap,       \* capacity of the semaphore channel (10)
          MaxRetries,   \* retries of a fetch (1)
          MaxTicks      \* bound of the model: ticks of the ticker

ASSUME MonitorAssumption == /\ NetOf \in [Feeds -> Networks]
                            /\ IsFiniteSet(Feeds)
                            /\ HasSwitcher \in BOOLEAN
                            /\ SemCap \in Nat \ {0}
                            /\ MaxRetries \in Nat
                            /\ MaxTicks \in Nat

\* The goroutines of a round, one for each feed.  A round numbered 0 or 1
\* has goroutines of its own, so that rounds could overlap in the model.
Workers == {0, 1} \X Feeds

VARIABLES clients,    \* networks in pm.clients
          feeds,      \* feeds in the cache's lists
          cache,      \* the cached price of each feed, 0 for none
          clock,      \* the last timestamp taken for each feed
          loop,       \* where the goroutine of Start is
          known,      \* networks in the round's copy of pm.clients
          round,      \* the parity of the current round
          ticks,      \* ticks so far
          tick,       \* a tick is in the ticker's channel
          stopped,    \* stopChan is closed
          stage,      \* where each goroutine of a round is
          attempt,    \* which attempt of its fetch it is in
          price,      \* the price it fetched
          semaphore,  \* tokens in each round's semaphore channel
          wg,         \* each round's WaitGroup counter
          snapshot    \* the prices each updater still has to write back

loopVars == <<loop, known, round, ticks, tick, stopped>>
workerVars == <<stage, attempt, price, semaphore, wg>>
storeVars == <<clients, feeds, cache, clock>>
vars == <<loopVars, workerVars, storeVars, snapshot>>

NoPrices == [f \in Feeds |-> 0]

Init == /\ clients = {} /\ feeds = {}
        /\ cache = NoPrices /\ clock = NoPrices
        /\ loop = "new" /\ known = {} /\ round = 0
        /\ ticks = 0 /\ tick = FALSE /\ stopped = FALSE
        /\ stage = [w \in Workers |-> "idle"]
        /\ attempt = [w \in Workers |-> 0]
        /\ price = [w \in Workers |-> 0]
        /\ semaphore = [r \in {0, 1} |-> 0]
        /\ wg = [r \in {0, 1} |-> 0]
        /\ snapshot = [u \in Updaters |-> NoPrices]

-----------------------------------------------------------------------------
(* The environment of the monitor *)

\* AddClient and UpdateClient: main.go at startup and its refresh loop.
AddClient(n) == /\ n \notin clients
                /\ clients' = clients \cup {n}
                /\ UNCHANGED <<loopVars, workerVars, feeds, cache, clock, snapshot>>

AddPriceFeed(f) == /\ f \notin feeds
                   /\ feeds' = feeds \cup {f}
                   /\ UNCHANGED <<loopVars, workerVars, clients, cache, clock, snapshot>>

\* The ticker drops a tick while the one before was not received.
Tick == /\ loop \notin {"new", "done"}
        /\ ticks < MaxTicks
        /\ ticks' = ticks + 1
        /\ tick' = TRUE
        /\ UNCHANGED <<loop, known, round, stopped, workerVars, storeVars, snapshot>>

Stop == /\ ~stopped
        /\ stopped' = TRUE
        /\ UNCHANGED <<loop, known, round, ticks, tick, workerVars, storeVars, snapshot>>

-----------------------------------------------------------------------------
(* The goroutine of Start and its rounds *)

Goto(l) == /\ loop' = l
           /\ UNCHANGED <<known, round, ticks, tick, stopped>>

Start == /\ loop = "new"
         /\ Goto("round")
         /\ UNCHANGED <<workerVars, storeVars, snapshot>>

CopyClients == /\ loop = "round"
               /\ loop' = "spawn"
               /\ known' = clients
               /\ UNCHANGED <<round, ticks, tick, stopped, workerVars, storeVars, snapshot>>

MutAddedTooFew(S) == IF S = {} THEN 0 ELSE Cardinality(S) - 1

\* wg.Add, once for each goroutine started.
Added(S) == Cardinality(S)

StartRound ==
  LET r == 1 - round
      S == {f \in feeds : NetOf[f] \in known}
  IN /\ loop = "spawn"
     /\ loop' = "wait"
     /\ round' = r
     /\ stage' = [w \in Workers |-> IF w[1] = r /\ w[2] \in S THEN "queued"
                                                              ELSE stage[w]]
     /\ wg' = [wg EXCEPT ![r] = Added(S)]
     /\ semaphore' = [semaphore EXCEPT ![r] = 0]
     /\ UNCHANGED <<known, ticks, tick, stopped, attempt, price, storeVars, snapshot>>

EndRound == /\ loop = "wait"
            /\ wg[round] = 0
            /\ Goto("select")
            /\ UNCHANGED <<workerVars, storeVars, snapshot>>

SelectTick == /\ loop = "select"
              /\ tick
              /\ tick' = FALSE
              /\ loop' = "round"
              /\ UNCHANGED <<known, round, ticks, stopped, workerVars, storeVars, snapshot>>

SelectStop == /\ loop = "select"
              /\ stopped
              /\ Goto("done")
              /\ UNCHANGED <<workerVars, storeVars, snapshot>>

-----------------------------------------------------------------------------
(* The goroutine of one feed: w[1] is its round, w[2] the feed. *)

At(w, from, to) == stage[w] = from /\ stage' = [stage EXCEPT ![w] = to]

MutAcquireUnbounded(w) ==
  /\ At(w, "queued", "lookup")
  /\ semaphore' = [semaphore EXCEPT ![w[1]] = @ + 1]
  /\ UNCHANGED <<loopVars, attempt, price, wg, storeVars, snapshot>>

Acquire(w) == /\ At(w, "queued", "lookup")
              /\ semaphore[w[1]] < SemCap
              /\ semaphore' = [semaphore EXCEPT ![w[1]] = @ + 1]
              /\ UNCHANGED <<loopVars, attempt, price, wg, storeVars, snapshot>>

\* fetchPriceData: the client is looked up when the fetch begins.
Lookup(w) == /\ At(w, "lookup", IF NetOf[w[2]] \in clients THEN "call" ELSE "finish")
             /\ attempt' = [attempt EXCEPT ![w] = 1]
             /\ UNCHANGED <<loopVars, price, semaphore, wg, storeVars, snapshot>>

RoundDataOk(w) == /\ At(w, "call", "decimals")
                  /\ UNCHANGED <<loopVars, attempt, price, semaphore, wg, storeVars, snapshot>>

RoundDataFails(w) == /\ At(w, "call", "finish")
                     /\ UNCHANGED <<loopVars, attempt, price, semaphore, wg, storeVars, snapshot>>

Retries(w) == HasSwitcher /\ attempt[w] <= MaxRetries

\* The error that IsErrorCode32097 recognises.
RoundDataReverts(w) == /\ At(w, "call", IF Retries(w) THEN "switch" ELSE "finish")
                       /\ UNCHANGED <<loopVars, attempt, price, semaphore, wg, storeVars, snapshot>>

MutSwitchKeepsAttempt(w) ==
  /\ At(w, "switch", "call")
  /\ clients' = clients \cup {NetOf[w[2]]}
  /\ UNCHANGED <<loopVars, attempt, price, semaphore, wg, feeds, cache, clock, snapshot>>

\* SwitchRPCEndpointImmediately, GetBestClient with its UpdateClient, and
\* the recursive call with the new client.
SwitchOk(w) == /\ At(w, "switch", "call")
               /\ attempt' = [attempt EXCEPT ![w] = @ + 1]
               /\ clients' = clients \cup {NetOf[w[2]]}
               /\ UNCHANGED <<loopVars, price, semaphore, wg, feeds, cache, clock, snapshot>>

SwitchFails(w) == /\ At(w, "switch", "finish")
                  /\ UNCHANGED <<loopVars, attempt, price, semaphore, wg, storeVars, snapshot>>

\* Whether Decimals answers or fails, the price is stamped with time.Now().
DecimalsDone(w) == /\ At(w, "decimals", "store")
                   /\ clock' = [clock EXCEPT ![w[2]] = @ + 1]
                   /\ price' = [price EXCEPT ![w] = clock[w[2]] + 1]
                   /\ UNCHANGED <<loopVars, attempt, semaphore, wg, clients, feeds, cache, snapshot>>

StorePrice(w) == /\ At(w, "store", "finish")
                 /\ cache' = [cache EXCEPT ![w[2]] = price[w]]
                 /\ feeds' = feeds \cup {w[2]}
                 /\ UNCHANGED <<loopVars, attempt, price, semaphore, wg, clients, clock, snapshot>>

MutFinishKeepsToken(w) ==
  /\ At(w, "finish", "idle")
  /\ wg' = [wg EXCEPT ![w[1]] = @ - 1]
  /\ attempt' = [attempt EXCEPT ![w] = 0]
  /\ price' = [price EXCEPT ![w] = 0]
  /\ UNCHANGED <<loopVars, semaphore, storeVars, snapshot>>

\* The deferred functions: the token goes back, then wg.Done.
Finish(w) == /\ At(w, "finish", "idle")
             /\ semaphore' = [semaphore EXCEPT ![w[1]] = @ - 1]
             /\ wg' = [wg EXCEPT ![w[1]] = @ - 1]
             /\ attempt' = [attempt EXCEPT ![w] = 0]
             /\ price' = [price EXCEPT ![w] = 0]
             /\ UNCHANGED <<loopVars, storeVars, snapshot>>

-----------------------------------------------------------------------------
(* The write-back loop of main.go: it copies the prices of a network out   *)
(* of the cache and writes them back into the same cache one by one.       *)

TakePrices(u, n) ==
  /\ snapshot[u] = NoPrices
  /\ snapshot' = [snapshot EXCEPT ![u] = [f \in Feeds |-> IF NetOf[f] = n THEN cache[f] ELSE 0]]
  /\ UNCHANGED <<loopVars, workerVars, storeVars>>

WriteBack(u, f) == /\ snapshot[u][f] # 0
                   /\ cache' = [cache EXCEPT ![f] = snapshot[u][f]]
                   /\ feeds' = feeds \cup {f}
                   /\ snapshot' = [snapshot EXCEPT ![u][f] = 0]
                   /\ UNCHANGED <<loopVars, workerVars, clients, clock>>

-----------------------------------------------------------------------------
\* Steps that wait for an answer from an RPC endpoint.
Answer(w) == \/ RoundDataOk(w) \/ RoundDataFails(w) \/ RoundDataReverts(w)
             \/ SwitchOk(w) \/ SwitchFails(w)
             \/ DecimalsDone(w)

LocalWork(w) == Acquire(w) \/ Lookup(w) \/ StorePrice(w) \/ Finish(w)

Work(w) == LocalWork(w) \/ Answer(w)

Loop == \/ CopyClients \/ StartRound \/ EndRound \/ SelectTick \/ SelectStop

Environment == \/ \E n \in Networks : AddClient(n)
               \/ \E f \in Feeds : AddPriceFeed(f)
               \/ Tick \/ Stop \/ Start

WriteBackLoop(u) == \/ \E n \in Networks : TakePrices(u, n)
                    \/ \E f \in Feeds : WriteBack(u, f)

Next == \/ Environment
        \/ Loop
        \/ \E w \in Workers : Work(w)
        \/ \E u \in Updaters : WriteBackLoop(u)

Spec == Init /\ [][Next]_vars

\* The goroutine of Start is scheduled, and select picks among the ready
\* cases at random, so a case that is ready again and again is taken.
LoopFairness == WF_vars(Loop) /\ SF_vars(SelectStop)

\* The goroutines are scheduled.  The code sets no timeout on the calls of a
\* fetch or a switch, so nothing in it makes an answer arrive: that every
\* endpoint answers, or refuses, every call in the end is an assumption.
FairSpec ==
  /\ Spec /\ LoopFairness
  /\ \A f \in Feeds : WF_vars(\E r \in {0, 1} : Work(<<r, f>>))

-----------------------------------------------------------------------------
(* Properties *)

Stages == {"idle", "queued", "lookup", "call", "switch", "decimals", "store", "finish"}

TypeOK == /\ clients \subseteq Networks /\ known \subseteq clients
          /\ feeds \subseteq Feeds
          /\ cache \in [Feeds -> Nat] /\ clock \in [Feeds -> Nat]
          /\ loop \in {"new", "round", "spawn", "wait", "select", "done"}
          /\ round \in {0, 1}
          /\ ticks \in 0 .. MaxTicks /\ tick \in BOOLEAN /\ stopped \in BOOLEAN
          /\ stage \in [Workers -> Stages]
          /\ attempt \in [Workers -> 0 .. MaxRetries + 1]
          /\ price \in [Workers -> Nat]
          /\ semaphore \in [{0, 1} -> 0 .. SemCap]
          /\ wg \in [{0, 1} -> 0 .. Cardinality(Feeds)]
          /\ snapshot \in [Updaters -> [Feeds -> Nat]]

Busy(w) == stage[w] # "idle"

\* A goroutine between taking its token and giving it back.
Holding(w) == stage[w] \notin {"idle", "queued"}

\* At most SemCap fetches are in progress, of all rounds together: the limit
\* of the round's semaphore is one of the monitor, because a round begins
\* when the one before has given back all its tokens
\* (chainlink_monitor.go:158-170 and 194).
InFlightBounded == Cardinality({w \in Workers : Holding(w)}) <= SemCap

\* A feed is never fetched by two goroutines at a time, and nothing of a
\* round is left when the loop waits for the next tick or has returned: no
\* goroutine writes to the cache after Start returned
\* (chainlink_monitor.go:194 and 243-252).
RoundsDoNotOverlap ==
  /\ \A f \in Feeds : ~(Busy(<<0, f>>) /\ Busy(<<1, f>>))
  /\ loop # "wait" => \A w \in Workers : ~Busy(w)

\* The goroutines of round r that hold a token, and those not yet done.
HoldingIn(r) == {w \in Workers : w[1] = r /\ Holding(w)}
BusyIn(r) == {w \in Workers : w[1] = r /\ Busy(w)}

\* The channel and the WaitGroup of a round count its goroutines.
TokensCounted == \A r \in {0, 1} : /\ semaphore[r] = Cardinality(HoldingIn(r))
                                   /\ wg[r] = Cardinality(BusyIn(r))

\* Goroutines run while Start waits for them, and are all of its round.
OneRoundAtATime == \A w \in Workers : Busy(w) => loop = "wait" /\ w[1] = round

\* A goroutine that switches endpoints has a retry left.
AttemptLeft == \A w \in Workers : stage[w] = "switch" => attempt[w] <= MaxRetries

\* No timestamp is from the future, and a fetched price is newer than all
\* copies of its feed's price, those of the updaters included.
FetchedIsNewest ==
  /\ \A f \in Feeds : /\ cache[f] <= clock[f]
                      /\ \A u \in Updaters : snapshot[u][f] <= clock[f]
  /\ \A w \in Workers :
       stage[w] = "store" => /\ price[w] <= clock[w[2]]
                             /\ price[w] > cache[w[2]]
                             /\ \A u \in Updaters : price[w] > snapshot[u][w[2]]

\* The inductive invariant behind the safety properties.
IInv == TypeOK /\ TokensCounted /\ OneRoundAtATime /\ AttemptLeft /\ FetchedIsNewest

\* A fetch never puts a price into the cache that is older than, or the same
\* as, the one there, even while the write-back loop puts old prices back:
\* it stamps its price after its call, and no fetch of an earlier round is
\* left to be overtaken by (chainlink_monitor.go:182, chainlink/client.go:111).
FetchesAdvance ==
  [][\A w \in Workers : stage[w] = "store" /\ stage'[w] = "finish"
                        => cache'[w[2]] > cache[w[2]]]_vars

\* Every round ends when the endpoints answer: no goroutine waits for ever
\* for a token, and a fetch that reverts does not retry for ever
\* (chainlink/client.go:68).
RoundsEnd == loop = "wait" ~> loop = "select"

\* Stop stops the monitor, although a tick may be served first
\* (chainlink_monitor.go:243-258).
StopTakesEffect == stopped /\ loop # "new" ~> loop = "done"

\* "GetPrice retrieves the latest price for a specific feed"
\* (price_cache.go:63): the price of a feed never goes back to an older one.
PricesNeverGoBack == [][\A f \in Feeds : cache'[f] >= cache[f]]_vars
=============================================================================
