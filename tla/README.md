# pricefeeding in TLA+

TLA+ specifications of the price feeding service in this repository, TLC
configurations that model-check them on small instances, and TLAPS proofs of
their safety for every instance.

The program has two modes. In *Chainlink mode* a monitor polls aggregator
contracts over JSON-RPC every few minutes, switching RPC endpoints when one
reverts, and stores the prices in a shared cache. In *Pyth mode* a monitor
polls the Hermes service over HTTP. Clients for the WebSocket and the event
stream of the same service are part of the library. The hard part of the code is its
concurrency: a dozen goroutines, several mutexes, several ways to replace a client
that is in use, and no deadline on most calls.

1. [Inventory](#1-inventory)
2. [Modules and how they correspond to the code](#2-modules-and-how-they-correspond-to-the-code)
3. [Runs](#3-runs)
4. [Fairness](#4-fairness)
5. [Proofs](#5-proofs)
6. [Disagreements between the code and its documentation](#6-disagreements-between-the-code-and-its-documentation)
7. [What is not modelled](#7-what-is-not-modelled)
8. [Plan](#8-plan)

## 1. Inventory

| Component | Source | State | Operations | Modelled by |
|---|---|---|---|---|
| Price cache | `pricefeed/price_cache.go` | `data` (network, prefixed identifier → price), `feeds` (network → list), `mu` | `AddFeed`, `UpdatePrice`, `prune`/`PruneCache`, reads | `PriceCache`, `AtomicPriceStore` |
| Size estimator | `pricefeed/price_size_estimator.go` | registry of estimators | `EstimatePriceInfoSize` | `PriceCache` (`InfoBytes`) |
| Chainlink monitor | `pricefeed/chainlink_monitor.go` | `clients`, the round's `wg` and `semaphore`, `stopChan` | `AddClient`, `AddPriceFeed`, `Start`, `updateAllPrices`, `Stop` | `ChainlinkMonitor` |
| Chainlink fetch | `chainlink/client.go` | attempt number | `FetchPriceData` with its retry | `ChainlinkMonitor`, `RpcSwitcher` |
| Endpoint switching | `rpcscan/rpcswitcher.go` | `ClientUse`, `mu`, `stopChan` | prober, immediate switch, look-ups | `RpcSwitcher` |
| Chainlink mode | `main.go:40-310` | – | startup, write-back loop, refresh loop, shutdown | `ChainlinkStartup`; the write-back loop in `ChainlinkMonitor` |
| WebSocket client | `pyth/pythwebsocket.go` | `conn`, `connected`, `gaveUp`, `reconnectCount`, context, subscriptions | `Connect`, `Start`, `readMessages`, `handleReconnect`, `Reset`, `Disconnect`, `Subscribe`, `Unsubscribe` | `PythWebSocket`, `PythSubscription` |
| Hermes HTTP client | `pyth/client.go`, `pyth/types.go` | none between calls | request with timeout, retry and backoff | `HermesClient` |
| Event stream | `pyth/streaming.go` | `conn`, `closed`, context, handlers | `Start`, `readEvents`, `Close` | not modelled |
| Pyth monitor, Pyth mode | `pricefeed/pyth_monitor.go`, `main.go:312-465` | symbols, `stopChan`, signal channel | `Start`, fetch, `Stop`, signals | `PythMonitor` |
| Price types | `types/morpher.go` | – | conversions to satoshi, `big.Int`, `uint64` | `SatoshiPrice` |
| Concurrent map | `shared/patterns/concurrent.go` | 32 locked shards | `Set`, `Upsert`, `Remove`, `Count`, `Keys`, `Items` | `ConcurrentMap` |
| Configuration | `rpcscan/config.go` and others | – | file reading, merging of networks | left out |
| Contract binding, data, example | `aggregatorv3`, `constants`, `conf`, `pyth/example` | – | – | left out |

**Interactions.** The Chainlink monitor writes the cache from up to ten
goroutines at a time. Each may call the endpoint switcher in the middle of its
fetch, which writes `ClientUse` under the network configuration's lock and then
`pm.clients` under the monitor's. Meanwhile the prober writes `ClientUse`, one
loop of `main.go` copies `ClientUse` to `pm.clients`, and another copies prices
out of the cache and back into it. The channel `stopChan` and the cancelled
contexts are the only ways to stop. In Pyth mode one goroutine polls, calls and
writes a cache of its own, while the main function and a goroutine that prints the
status wait for the same signal channel.

**What is hard, and what would make each component correct:**

- *Cache.* `UpdatePrice` gives up its mutex in the middle so that `prune` can take
  it, with an `Unlock` deferred all the same. Correct: the mutex is never unlocked
  by another than its holder and never kept; a write still looks atomic; no price
  is lost or unmonitored; `AddFeed`, which resets the list of a network without an
  inner map, never forgets a feed.
- *Monitor.* Rounds, each with its own semaphore and wait group, of goroutines that
  retry. Correct: rounds do not overlap, the limit is one of the whole monitor,
  prices go forward, rounds and the monitor end.
- *Switching.* Three writers of two tables, and a lock of all networks that is held while
  endpoints are tested, without a timeout. Correct: a fetch that switches finds a client, gets
  its turn, and the monitor's clients follow the table. The last two can only hold while the
  tests end.
- *Pyth mode.* Attempts with a timeout each, sleeps that do not watch the context,
  a ticker that drops ticks, and two receivers of one signal. Correct: a call is over
  in time, polling keeps its pace, a signal ends the program.
- *Satoshis.* Exponents are negative, and integer arithmetic must divide.
- *WebSocket.* A failed reconnect leaves two goroutines that reconnect. Correct:
  the fields agree, a live connection is read, a lost one is replaced or given up,
  and everything ends after `Disconnect`.
- *Subscriptions.* A call checks for a connection, stores the identifiers, then looks which
  connection there is by now, and writes to that one; a reconnect makes a connection and then
  reads the identifiers. Correct: no working connection is left without the stored
  subscription.
- *Startup and shutdown.* The table of clients is read twice while the prober writes it,
  and three different channels stop the parts. Correct: the monitor starts with clients
  or the program gives up, and everything ends.
- *Concurrent map.* `Count`, `Keys` and `Items` visit shards one by one, through a channel
  of the size of an earlier count. Correct: what they return was there, nothing that
  stayed there is missing, and they return.

The hazards behind these are listed in `PROJECT.json`, with their lines and the
properties about them.

## 2. Modules and how they correspond to the code

The granularity is the same everywhere: what the code does between two operations
of a mutex, a channel or the network is one action, and several such stretches are one where
no other party could come between them to any effect. `PROJECT.json` maps every definition to
its lines.

**`AtomicPriceStore`** is what the cache promises: a price per feed and a set of
monitored feeds, each call at one instant, nothing ever lost.

**`PriceCache`** is the cache as written. `mu` names the holder of `pc.mu` (write
lock); reads hold the read lock for an instant and change nothing, so `GetPrice`,
`GetAllPrices` and `EstimateSize` are state functions. `UpdatePrice` is the stretch
from `Lock` to the stored price; `CheckSize` measures and unlocks; `PruneAfterUpdate`
is `prune` with its own lock; `Relock` and `DeferredUnlock` follow it. A price is its
timestamp. A prefixed identifier `source:id` is the pair of its parts, which the
string determines because no source name contains a colon. `prune` sorts entries by
timestamp with an unstable sort over a map's random order, so any order of equal
timestamps is possible: `PruneChoices` is the set of outcomes. Sizes are counted as
the code counts them, with small weights. `PriceCache` implements
`AtomicPriceStore` under the mapping in `Store_`.

**`ChainlinkMonitor`** is the monitor with the fetch it runs. `loop` is the program
counter of `Start`; a worker is a pair of a round (its parity) and a feed, with
`stage` its place. `CopyClients` and `StartRound` are separate because the code
takes two locks; a worker looks its client up later still (`Lookup`). The endpoints
are the environment: a call succeeds, fails or reverts as it likes. The cache is used
at the level of `AtomicPriceStore`, which is justified by the refinement above. Each
feed has a clock of its own that counts completed fetches. `TakePrices` and
`WriteBack` are the updater of `main.go`.

**`RpcSwitcher`** has the two tables `clientUse` and `clients`. The prober chooses
for all networks (`Probe`) and installs one by one (`Install`); a fetcher locks,
scans, installs, unlocks, looks the client up, and adopts it, each a step; the
refresher copies the table and writes it one network at a time. The results of the
latency tests are any endpoint or none, and the tests of a switch may also never end: nothing
makes a fetcher leave `"scan"`, where it holds the lock. A client is the endpoint it was dialled
for.

**`PythWebSocket`** has the client's fields, the state of each connection, and
goroutines that are readers (`readMessages`) or chains (the goroutine that a failed
reconnect starts). Everything under `connMutex` is one action; the increment of
`reconnectCount`, which no mutex protects, is a read and a write. A connection
object is reused when no variable refers to it.

**`PythSubscription`** extends `PythWebSocket` by superposition: each of its actions is an
action of the connection, with what it does to the subscriptions, or a step of
`Subscribe` that leaves the connection alone. `call` is the place of each caller in
`Subscribe`: the user's goroutine, the one that calls `Start`, and every goroutine that
reconnects. `Take` locks `writeMutex` and reads `conn` under a read lock that it gives back; the
message is written afterwards (`Write`, `WriteFails`), and one caller at a time is between the two.
A caller whose connection is replaced meanwhile (`ConnectedBy`) is `"lost"`: it writes to the old
one, which may even still be open (`WriteIsLost`). `told` is what the current connection was told
last. A write to a connection whose peer is gone may succeed, as it is only buffered. `PeerGone`, by which a
connection dies unnoticed until it is read or written, is an action of `PythWebSocket`.

**`ChainlinkStartup`** extends `RpcSwitcher` in the same way with `chainlink_start`:
`phase` is the place of the main goroutine. The look that ends the wait and the copy that
is handed over are two readings of the table, as in the code; the copy and its delivery
use the refresher's variable, since the refresher does not run yet. Only network 42161
has feeds in the configuration, which is `FeedNetwork`. The free composition of
`RpcSwitcher` lets every party act at all times; here the monitor's rounds, the refresher
and the prober run only from their start to their stop.

**`ConcurrentMap`** is the sharded map. A write waits in `pending` for its shard's lock and
keeps new readers out, as Go's `RWMutex` does. A call of `Keys` or `Items` has a collector
for each shard, which holds the read lock from `StartRange` to `EndRange`, and blocks
in `Send` when its channel is full. `always` and `ever` are histories: the keys that were
there throughout the call, and the entries that were there at some time. A call of `Keys`
that has returned may leave collectors behind that nobody receives from: `Forget` frees the
call's place, and `leaked` keeps their shards locked.

**`HermesClient`** is one call of `httpRequest`. Its time is counted in ticks: `timer` is
what is left of the attempt's timeout or of the sleep, `ctxLeft` of the caller's context.
The call waits only while a timer runs (`MayWait`), so that an attempt ends when its time
is up, and an answer may come at any tick before. The random first backoff is any member
of `FirstBackoffs`, none of them above `MaxBackoff`, and `Sleeps[n]` is the longest that `n`
sleeps can take, given by its recurrence. It has no specification of its own.

**`PythMonitor`** extends it with its caller: the loop of `Start`, a ticker that
keeps one tick, and `pyth_start` with its signal channel. `TimePasses` advances all timers
together, and only when the loop has nothing to do; local work takes no time. `Signal`
does not wait for room in the channel, as `signal.Notify` does not. A price that is not a
decimal number makes printing panic, which ends the process (`ProcessPanics`).

**`SatoshiPrice`** is the conversion that the three price types share, on integers with a
smaller scale and a smaller word, which TLC can compute.

The modules whose names end in **`Proofs`** hold the theorems and their lemmas. The `MC*` modules
hold the values of constants.

Operators whose names begin with `Mut` are plausible bugs in the definition that
follows them. They are not part of any specification: a property is only worth
stating if one of them breaks it, and `PROJECT.json` says which breaks which.

## 3. Runs

| Run | Configuration | Instance and bounds | Shows |
|---|---|---|---|
| `cache` | `MCPriceCache.cfg` | 2 callers, 2 networks, 2 sources, 1 identifier, 2 timestamps, limit of 6 bytes | type, mutex, lists and their completeness; lists only grow; every write returns; the cache implements the atomic store |
| `cache_prune` | `MCPriceCachePrune.cfg` | the same | **violated**: pruning does not enforce the limit |
| `monitor` | `MCChainlinkMonitor.cfg` | 3 feeds on 2 networks, 2 tokens, 1 retry, 1 tick | bounded fetches, no overlap, prices advance, rounds end, `Stop` works |
| `monitor_write_back` | `MCMonitorWriteBack.cfg` | 2 feeds, 1 token | **violated**: a price goes back |
| `switcher` | `MCRpcSwitcher.cfg` | 1 network, 2 endpoints, 2 fetchers, 1 retry | a switch finds a client; while the tests of switches end, switches get their turn, the prober stops, the clients settle |
| `startup` | `MCChainlinkStartup.cfg` | 2 networks with an endpoint each, 1 fetcher, 2 looks | the monitor starts with a client; the program starts or gives up; the shutdown completes |
| `websocket` | `MCPythWebSocket.cfg` | 2 goroutines, 4 connections, 2 reconnects | fields agree, a connection is read, recovery or giving up, goroutines end |
| `subscription` | `MCPythSubscription.cfg` | 1 goroutine, 3 connections, 1 reconnect, 2 lists of identifiers | no working connection is forgotten; stored and told agree after calls that were alone; a connection is told in the end |
| `pyth` | `MCPythMonitor.cfg` | timeout 3, context and interval 6, 3 retries, first backoff up to 2, 3 signals | calls are over in time, polling keeps its pace, fetches end, two received signals stop the program |
| `pyth_signal` | `MCPythSignal.cfg` | the same with 1 retry | **violated**: a signal does not stop the program |
| `satoshi` | `MCSatoshiPrice.cfg` | scale 100, words of 10 bits, exponents -3 to 2 | **violated**: the conversion does not divide |
| `concurrent_map` | `MCConcurrentMap.cfg` | 3 keys in 2 shards, 1 value, 1 writer, 1 call at a time | what `Items` and `Keys` return agrees with the map so far as it can; calls return unless a `Keys` left a collector blocked |

**Why the bounds are enough to be interesting.**

- *Cache.* With 2 or 3 bytes for a price, 1 for a key and 1 for each map, two prices
  already exceed the limit of 6 and one does not, so writes take both branches; two
  callers are enough for one to run in the other's unlock window; two networks and
  two sources make keys that agree in one part only; two timestamps make writes that
  are older than what is there, and ties.
- *Monitor.* Three feeds for two tokens make a worker wait; two of them share a
  network and one has a network that may have no client; one retry is the code's own
  constant (`maxRetries`); one tick makes two rounds, which is what overlapping
  takes, and a tick that is ready together with `Stop`, once; that `select` may prefer the
  tick again and again is left to the fairness. `MaxTicks` is the only bound on behaviours. Because timestamps are per feed and grow with fetches, it bounds
  them too.
- *Switching.* One network suffices for the contention of two fetchers, the prober
  and the refresher, because networks only share the lock. The proofs cover any
  number. There is no bound on the length of behaviours: fetchers, prober and
  refresher go on for ever.
- *Startup.* Two networks are one with feeds and one without; with an endpoint each, either
  may be up or down, found late or never, and the wait may end for the wrong network. Two
  looks are one that fails and one that is the last. Switching among endpoints is the
  subject of `switcher`.
- *WebSocket.* A reader and a chain, or two readers, is what it takes to interleave
  two reconnects; four connections are one more than can be in use, which is the
  module's assumption. `Goroutines` bounds those alive at a time: where the code would
  start one more, a reader that finds no free place goes on alone, and a chain is
  replaced by its successor. `reconnectCount` is only incremented and compared with the limit,
  so counting to the limit (`AtMostMax`) loses nothing.
- *Subscriptions.* One goroutine that reconnects, the user who calls `Start` and the user who
  subscribes are three callers; two lists tell an old subscription from a new one, and the
  empty list is `Unsubscribe`.
- *Map.* Two keys share a shard and one has its own. With one writer and one call at a time
  a key can be added and another removed between the count and the collection, which fills the
  channel or leaves it short; a leaked collector meets the next writer and the next call.
  The proof covers any number of each.
- *Pyth.* The number of retries is the program's. The timeout is half the context, and
  the context as long as the interval, as in the program (5, 10 and 10 seconds); sleeps
  are longer in proportion, so that the context ends in every stage of a call, also in
  the middle of a sleep, and calls overrun one and two ticks of the ticker. Three
  signals are one for each receiver and one that may be lost.
- *Satoshis.* A scale of 100 with exponents down to -3 has the documented examples in
  small: exponents that the scale cancels, exceeds, and that are positive.

Deadlock is checked in `cache`, `switcher`, and their companions. It is not where the
program ends: in the monitor after `Stop`, in the WebSocket client after `Disconnect`,
after the startup gave up, in Pyth mode when the process exits, and in the map, where
blocked collectors can block everyone. A conversion is over after it.

## 4. Fairness

- *Goroutines are scheduled* (weak fairness of a goroutine that can run).
- *A contended mutex is obtained in the end* (strong fairness of the steps that
  lock): a Go mutex hands itself to a waiter that waited for a millisecond, and a
  waiting writer of an `RWMutex` holds back new readers and lets those that waited in before the
  next writer. Used in `PriceCache`, `RpcSwitcher`, `ChainlinkStartup`, `PythSubscription` (the
  write lock) and `ConcurrentMap`.
- *`select` picks its ready cases at random*, so a case that is ready again and again
  is taken (strong fairness of `SelectStop`, `ProberStops`, `MonitorEnds` and `RefresherEnds`).
- *Endpoints answer or refuse*. This is an assumption, which the code does nothing to secure:
  neither the calls of a fetch (`chainlink/client.go:62`) nor the tests of a switch
  (`rpcswitcher.go:436`, `checkLatencyCon` at 96-123) have a context or a timeout; the 5 seconds of
  line 274 are those of the prober's tests only, and `StartupEnds` relies on them. So the
  assumption is made in the open, in two ways. `Fairness` of `RpcSwitcher` does not have it:
  `SwitchesEnd`, `ProbingStops` and `ClientsConverge` have it as a hypothesis, `TestsEnd`, that no
  fetcher stays in the tests of a switch for ever, and say what holds then in spite of the
  contention; the calls of a fetch may hang. `FairSpec` of `ChainlinkMonitor` and `StartupFairSpec`
  have it as fairness, that calls and tests end one way or another: `RoundsEnd`,
  `StopTakesEffect` and `ShutdownCompletes` depend on it. What happens without it are the
  disagreements 5 and 6.
- *A read of the WebSocket ends* by its deadline of 60 seconds and a dial by the
  dialer's handshake timeout; a write is buffered or fails. Nothing says how: no fairness
  prefers success.
- *Time passes* in Pyth mode, and its goroutines are scheduled: the monitor, the main
  function and the status goroutine each. How Hermes answers is not fair.
- Users and the environment (`AddFeed`, `Tick`, `Stop`, `CloseStopChan`, `Start`,
  `Cancel`, which endpoint answers) are never assumed to act.

## 5. Proofs

The proofs use only the assumptions named in the modules: names that stand for "none"
are not values, sizes and timestamps are natural numbers, the retry limit is a natural
number, feeds and endpoints belong to networks, and for the WebSocket client that
goroutines are finitely many and there are more connections than can be in use at once.
The monitor has finitely many feeds, the map finitely many keys. `SleepsAssumption` gives
the sum of the sleeps by its recurrence. The libraries' theorems on finite sets and on
well-founded relations are used; nothing else is assumed.

**`PriceCacheProofs`**: for any callers, networks, sources, timestamps and limit.
The invariants are not inductive one by one. `AddFeed` resets a list whenever the
inner map is missing, so that `FeedsCoverData`, `NoDuplicateFeeds` and even the growth of
the lists need `FeedsNeedMap` (no map, no feeds), which in turn needs pruning
never to remove a map of a network with feeds. That follows from
`NothingRemovable`: the entry of a feed is always its own newest, so pruning removes nothing
(`PruneRemovesNothing`). `IInv` is the conjunction; `Invariance` proves it from one
lemma per conjunct. `FeedsOnlyGrow` and the refinement `CacheImplementsStore` are step
by step: in terms of the store every action is a write, an addition or a stutter.
`PruneIsVoid` states what this means for the caller of `prune`. For progress, see below.

**`RpcSwitcherProofs`**: for any networks, endpoints, fetchers and number of retries.
No one ever removes a client from a table (`ClientsStay`), so what a fetcher found or
installed is still there, perhaps replaced, when it looks the client up; and its attempt number
stays in range because it only switches while it has a retry left (`AttemptLeft`), which is
the strengthening that `TypeOK` needs. `RetryHasClient` is `SwitchFindsClient`.
`MutexCorrect` ties the lock to the one fetcher that tests endpoints, and with it
`TableWrittenLocked` says who may write the table when: nothing changes it during a switch.

**`PythWebSocketProofs`**: for any number of goroutines and any limit of reconnects.
`ConnectionConsistent` holds because only a dial, `TearDown` and `Disconnect` touch the
fields, all of them together. `TypeOK` depends on it: a reader that peeks at a
client that gave up keeps no connection because there is none. `ConnectionIsRead` is the
argument about successors: whoever dials is at `resub`, then starts a reader or goes back to
its own loop; a goroutine that does anything else while another attends to the
connection leaves that one alone (`OthersAttend`); and a reader only ends for a
cancelled context, which `CancelClosesLast` excludes while the client runs, or when
the client gave up, and then there is no connection. `NewConnType` is
a counting argument: there is always an unused connection object. `ClientIsAttended` adds that a
running client which has not given up has a goroutine at all, connected or not: a goroutine only
leaves when the context is cancelled or the client gave up, or it leaves another behind.

**`ChainlinkMonitorProofs`**: for any networks, finitely many feeds, any tokens, retries and
updaters. `InFlightBounded` speaks of all rounds, the semaphore only of one. So `TokensCounted` says
that the semaphore and the wait group of a round count its goroutines, by cardinalities of
finite sets, and `OneRoundAtATime` that goroutines run only while `Start` waits for them and
all belong to its round: the wait group is zero exactly when none is left (`EndRound`).
`FetchesAdvance` needs `FetchedIsNewest`: the price a goroutine is about to store was stamped
after its call, so it is newer than what is in the cache and in every updater's copy, however
often the updaters put old prices back. `MonitorUsesStore` is a refinement: a feed with its network
is a key of `AtomicPriceStore`, and every step of the monitor is a write, an addition or a
stutter of it. `PriceCache` implements the same store, so the store is what one module may
assume and the other provides. `OnlyWriteBackGoesBack` and
`NeverBackWithoutWriteBack` turn disagreement 2 round: nothing else takes a price back.

**`PythMonitorProofs`**: for any timeouts, interval, retries and backoffs. `CallBudget` is an
account: each tick of a call is taken from the context or from a sleep, and what it slept is
at most `Sleeps` of the sleeps begun. That all sleeps together are no longer than the last value
of `Sleeps` would be an induction, which the prover cannot cite; it follows from the least-number
principle instead (`AllSleeps`). `PollsInTime` follows with `Pace`: until the ticker fires
again the interval is not over, and a fetch lasts as long as its call. `SignalsReachMain` counts
which of the two receivers took a signal (`SignalsHandled`).

**`PythSubscriptionProofs`**: the client with subscriptions implements the client without
(`ImplementsConnection`: `SubSpec => Spec`), so all that is proved of the connection holds
with subscriptions (`ConnectionStaysSound`, `SubscriberIsAttended`). `NoConnectionForgotten` is the argument of two
parties of which each writes first and then looks: a user stores and then looks for a
connection, a reconnect makes a connection and then looks for identifiers. Every step that
ends a call has told the connection, or found no working one, or found nothing to say; or it
wrote to an earlier connection, and then it does not count, since whoever made the later one
has a call of its own (`Tells`).
`AloneStaysCurrent` adds that what is stored is what the connection was told last, if no two calls
overlapped on it: without an overlap one call is under way at a time (`OneCaller`), what it
writes is what it has stored, and it writes it to the connection that is current.

**`ChainlinkStartupProofs`**: the program implements the free composition of its parties
(`ImplementsSwitching`), so that `RpcSwitcherProofs` applies to it. `StartsWithClient` needs
`TableStaysUsable`: nobody removes a client from the table, so that the copy has one if the look
before it had, and delivering the copy loses none. The shutdown has an invariant of its own
(`ShutdownInv`): the phase of the main goroutine tells which loops may have ended, and outside the
monitor's loop no fetch is under way. From it follow `MonitorLeavesNothing` (the prober never
waits for a lock that a stopped monitor left behind), `ClientsFrozen` and `ShutdownIsFinal`.

**`ConcurrentMapProofs`**: for any finite set of keys and any shards, writers and calls.
`ItemsIsConsistent` rests on two facts about each call. An entry that was collected was in the map during
the call (`CollectedWasThere`). A key that was there throughout is with a collector, in the
channel or in the result, unless its shard's collector has not begun (`NoneMissed`): then it
is still in the map when that collector begins. When `Items` returns, all collectors are done
and have nothing left to send (`NothingLeft`). `KeysIsConsistent` and `TypeCorrect` need counting
(`CountInv`): an entry is collected once and is in one place, and while no key comes or goes the
count after some shards is that of the keys in them (`Before`, summed by `BeforeNext`). `Keys`
has then received as many different keys as it counted, so all of them, and cannot have seen the
channel closed before that (`AllReceived`). `CountIsBetween` is the same sum for a map that changes:
a shard that is counted holds at least the keys that were always there and at most those
that ever were, so the count lies between the two, although it is the count of no state.
`ItemsIsSnapshot` combines `CollectedOnce` with `ItemsConsistent`.

**Progress, without fairness.** That something happens in the end needs fairness and stays with TLC,
but two facts that it rests on are safety, and are proved for every instance:

- *someone can go on* (`WritersGoOn`, `RoundCanGoOn`, `MapGoesOn`): whoever waits for a lock, a
  token or the channel, some other goroutine of the activity does not. What can go on is
  written out as the guards of the actions, since the prover knows nothing of `ENABLED`. `MapGoesOn`
  has the one exception that `CallsReturn` has, a collector left blocked by `Keys`;
- *nobody goes on for ever* (`UpdatesAreFinite`, `RoundsAreFinite`, both `FetchesAreFinite`,
  `CallsAreFinite`): a number, `Effort`, bounds the steps left, each step of the activity lowers it, and
  no step of another raises it: retries do not start over, whatever the others write in between.
  The bounds need the attempts (`Attempting`, `AttemptLeft`), the budget of a call or, for the
  map, the count of the entries still to be sent.

**Only model-checked**: all liveness (`UpdatesReturn`, `RoundsEnd`, `StopTakesEffect`,
`SwitchesEnd`, `ProbingStops`, `ClientsConverge`, `StartupEnds`, `ShutdownCompletes`,
`RecoversOrGivesUp`, `GoroutinesStop`, `ToldInTheEnd`, `FetchesEnd`, `TwoSignalsStop`,
`CallsReturn`), which is out of the prover's reach under fairness; of most of these the theorems
above prove the part that needs none. Every safety property of a passing run is proved. The four
refuted properties are TLC's, and so is `SatoshiPrice`, whose one property is refuted.

## 6. Disagreements between the code and its documentation

The first four are runs that TLC refutes; their quotes and lines are in `PROJECT.json`.

1. *Pruning removes nothing* (`cache_prune`). The newest entry of each feed is kept,
   and there is no other, so `MaxCacheSizeBytes` is never enforced and every write
   beyond it pays for a full sort. `PruneIsVoid` proves it for every instance.
2. *Prices go back* (`monitor_write_back`). The updater of `main.go` copies prices out of
   the cache and writes them back into it; a fetch in between is overwritten until the
   next round. Without these loops the property holds (`NeverBackWithoutWriteBack`).
3. *A signal may not stop the program* (`pyth_signal`). The goroutine that prints the
   status receives from the same channel and returns.
4. *Prices in satoshis are not divided* (`satoshi`). `big.Int.Exp` without a modulus is 1
   for a negative exponent, and all exponents of both sources are negative.

The models show these too, without a run of their own:

5. *`Stop` may have no effect.* `chainlink_monitor.go:255` says that it stops the monitor. The
   calls of a fetch carry no context (`chainlink/client.go:62`), so one silent endpoint blocks
   the round, and with it the loop that listens to `stopChan`: without the assumption that
   endpoints answer, `StopTakesEffect` fails.
6. *A silent endpoint stops all look-ups.* "The program can select any RPC by networkID at
   anytime" (`rpcswitcher.go:93`), and endpoints are tested "in parallel with timeout protection"
   (`README.md:64` of the repository). A switch tests them one by one and without a timeout
   (`rpcswitcher.go:436`), with the lock of all networks. Under `FairSpec` of `RpcSwitcher`, with
   a network for each of two fetchers, `fpc[f] = "best" ~> fpc[f] # "best"` fails: one fetcher
   has switched, the other locks the table and waits for its endpoint, and `GetBestClient` of the
   first waits for ever. So do the prober, also for `stopChan`, and every refresh: `SwitchesEnd`,
   `ProbingStops` and `ClientsConverge` fail without `TestsEnd`.
7. *A switch may pick the endpoint that failed.* `rpcswitcher.go:399` promises "a different RPC
   endpoint"; `currentEndpoint` is declared, compared and never assigned (418-431), so
   `Switch` may install any endpoint.
8. *Giving up is not permanent*, as `pythwebsocket.go:40-41` says. A chain that is dialling
   while a reader gives up connects, and `DialOk` clears `gaveUp`.
9. *`Disconnect` does not close for good* (`pythwebsocket.go:127`). A goroutine that sleeps or
   dials in `handleReconnect` does not look at the context: it connects and subscribes after
   `Disconnect`, starts a reader that ends at once, and nobody closes that connection.
   `GoroutinesStop` only promises that the goroutines end.
10. *What is stored may not be what the peer was told.* `GetSubscribedIDs` "returns the currently
   subscribed price feed IDs" (`pythwebsocket.go:427`). When the user's `Subscribe` runs while a
   reconnect subscribes again, either may store last and either may write last;
   `AloneIsCurrent` therefore excludes calls that overlapped on the connection.
11. *`Keys` does not "return all keys"* (`concurrent.go:228`) when the map changes during the call:
    a removal fills the result up with empty keys, and an addition leaves out a key and
    blocks a collector for good, with its shard's read lock, and so every later writer
    of the shard. `CallsReturn` excludes just that case.
12. *The timeout of a request is one of each attempt*, where `pyth/types.go:166` says that it
    holds for all together; `CallBounded` states what bounds a call instead. And the
    comment of `GetUint64SatoshiPrice` says that it panics on overflow; `big.Int.Uint64` keeps the low bits.

Not a disagreement, but worth knowing: only the networks whose client is in the table when the
wait ends are given feeds (`main.go:126`), and the wait ends as soon as any network has one. If
the first endpoint to be found is not of the network with feeds, that network is refreshed
later and never monitored: `StartedWithClient` holds with `feeds` false.

## 7. What is not modelled

- Formatting, logging, metrics and printing: no decision depends on them.
- File reading, YAML and JSON parsing, the contract binding: pure I/O or generated.
- The memory of prices: a price is its timestamp wherever only its age matters.
- The latency tests themselves (`checkLatencyCon`, and the channels and the timeout of the
  prober's tests): their result is any endpoint or none.
- Data races on fields other than `reconnectCount` (for instance `symbols` of the
  monitors), which nothing else reads concurrently in this program.
- `lastSaved` and the deprecated wrappers of the cache, which only delegate.
- The WebSocket client's handlers and the conversion of messages; `ReadJSON`, `WriteJSON` and
  `SetReadDeadline`, which nothing in the program calls: a model would have to invent how.
- The event stream (`pyth/streaming.go`). Nothing in the program opens one, and its `Start` is
  over before anyone else has it: what is left is one reader, one `Close`, and handlers that
  can only be set after reading has begun.
- Of the concurrent map, the deprecated `Iter`, and `IterCb`, which visits the shards as `Count`
  does.
- The configuration: its files are read once, before any goroutine runs.
- The JavaScript of the repository (`constants/`), which is by far most of its lines: the list
  of chains and their endpoints. The program reads it as text (`rpcscan/jsfilescan.go`); it
  has no state and no operations to model. The program itself is in Go.

## 8. Plan

Done: the cache, the monitor, the switcher, the startup and shutdown, the WebSocket client with its
subscriptions, the Pyth monitor with its HTTP client and the concurrent map, each with
proofs of its safety; the conversion to satoshis. What could follow, in this order:

1. `ChainlinkMonitor` over `PriceCache` itself instead of its abstraction: the write of a
   worker against the window in `UpdatePrice`. That both implement `AtomicPriceStore` is proved;
   the composition of the two is not written down.
2. `EventSource`: what arrives before a handler is set, the messages after `Close`, the end
   of the reader.
3. `NetworkConfig`, the merging of networks and endpoints, as pure operators.

No module that is proved about uses a recursive operator.
