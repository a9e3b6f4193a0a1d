-------------------------- MODULE ChainlinkStartup --------------------------
(***************************************************************************)
(* The Chainlink mode of the program from its start to its shutdown        *)
(* (chainlink_start in main.go), around the parties of RpcSwitcher.        *)
(*                                                                         *)
(* The prober starts first.  The main goroutine then looks at the table of *)
(* clients until it holds any, for a limited number of times, copies it in *)
(* a second look, gives the monitor each client of that copy, and gives it *)
(* the feeds when it gets to the one network that has feeds.  After that   *)
(* nothing adds a feed: a network that gets its client later is refreshed, *)
(* but not monitored.  On a signal the main goroutine cancels the context, *)
(* stops the monitor and closes stopChan, and the goroutines end when they *)
(* notice.                                                                 *)
(*                                                                         *)
(* The copy and its delivery are those of the refresher, which does not    *)
(* run yet.  How long the main goroutine sleeps between its looks is left  *)
(* out: the prober may do anything or nothing in the meantime.  So is the  *)
(* end of the process, by a signal before the monitor is started or two    *)
(* seconds after the shutdown: the model gives the goroutines their time.  *)
(***************************************************************************)
EXTENDS RpcSwitcher

CONSTANTS FeedNetwork,  \* the network that has price feeds (42161)
          MaxLooks      \* maxRetries of chainlink_start (10)

ASSUME StartupAssumption == /\ FeedNetwork \in Networks
                            /\ \A f \in Fetchers : NetOf[f] = FeedNetwork
                            /\ MaxLooks \in Nat \ {0}

VARIABLES phase,       \* where the main goroutine is
          looks,       \* retryCount
          feeds,       \* the feeds are in the cache and in the monitor
          monitoring,  \* the loop of CLPriceMonitor.Start: "off", "on" or "done"
          refreshing,  \* the refresh loop: "off", "on" or "done"
          due          \* the fetchers that the round still has to start

mainVars == <<phase, looks, feeds, monitoring, refreshing>>
progVars == <<vars, mainVars, due>>

StartupInit == /\ Init
               /\ phase = "wait" /\ looks = 0 /\ feeds = FALSE
               /\ monitoring = "off" /\ refreshing = "off"
               /\ due = {}

-----------------------------------------------------------------------------
(* The start *)

HaveClient == \E n \in Networks : clientUse[n] # None

MutLookForFeedNetwork == /\ phase = "wait"
                         /\ mu = Free
                         /\ phase' = IF clientUse[FeedNetwork] # None THEN "copy" ELSE "wait"
                         /\ UNCHANGED <<vars, looks, feeds, monitoring, refreshing, due>>

MutOneLookTooMany ==
  /\ phase = "wait"
  /\ mu = Free
  /\ IF HaveClient
       THEN phase' = "copy" /\ UNCHANGED looks
       ELSE /\ looks' = looks + 1
            /\ phase' = IF looks' > MaxLooks THEN "dead" ELSE "wait"
  /\ UNCHANGED <<vars, feeds, monitoring, refreshing, due>>

\* The last look without a client is log.Fatalf.
LookForClients ==
  /\ phase = "wait"
  /\ mu = Free
  /\ IF HaveClient
       THEN phase' = "copy" /\ UNCHANGED looks
       ELSE /\ looks' = looks + 1
            /\ phase' = IF looks' >= MaxLooks THEN "dead" ELSE "wait"
  /\ UNCHANGED <<vars, feeds, monitoring, refreshing, due>>

CopyForMonitor == /\ phase = "copy"
                  /\ CopyClients
                  /\ phase' = "add"
                  /\ UNCHANGED <<looks, feeds, monitoring, refreshing, due>>

MutAddFeedsFirst(n) == /\ phase = "add"
                       /\ Refresh(n)
                       /\ feeds' = TRUE
                       /\ UNCHANGED <<phase, looks, monitoring, refreshing, due>>

\* AddClient, and AddPriceFeedWithSymbol for each feed of the network.
AddNetwork(n) == /\ phase = "add"
                 /\ Refresh(n)
                 /\ feeds' = (feeds \/ n = FeedNetwork)
                 /\ UNCHANGED <<phase, looks, monitoring, refreshing, due>>

\* The monitor and the loops of main.go are started.
StartMonitor == /\ phase = "add"
                /\ copy = NoChoice
                /\ phase' = "running"
                /\ monitoring' = "on" /\ refreshing' = "on"
                /\ UNCHANGED <<vars, looks, feeds, due>>

-----------------------------------------------------------------------------
(* The shutdown *)

CancelContext == /\ phase = "running"
                 /\ phase' = "cancelled"
                 /\ UNCHANGED <<vars, looks, feeds, monitoring, refreshing, due>>

StopMonitor == /\ phase = "cancelled"
               /\ phase' = "halted"
               /\ UNCHANGED <<vars, looks, feeds, monitoring, refreshing, due>>

MutStopProberForgets == /\ phase = "halted"
                        /\ phase' = "closed"
                        /\ UNCHANGED <<vars, looks, feeds, monitoring, refreshing, due>>

StopProber == /\ phase = "halted"
              /\ CloseStopChan
              /\ phase' = "closed"
              /\ UNCHANGED <<looks, feeds, monitoring, refreshing, due>>

\* A round waits for its fetches, so between two of them there are none.
BetweenRounds == due = {} /\ \A f \in Fetchers : fpc[f] = "idle"

MonitorEnds == /\ monitoring = "on"
               /\ phase \in {"halted", "closed"}
               /\ BetweenRounds
               /\ monitoring' = "done"
               /\ UNCHANGED <<vars, phase, looks, feeds, refreshing, due>>

RefresherEnds == /\ refreshing = "on"
                 /\ phase \in {"cancelled", "halted", "closed"}
                 /\ copy = NoChoice
                 /\ refreshing' = "done"
                 /\ UNCHANGED <<vars, phase, looks, feeds, monitoring, due>>

-----------------------------------------------------------------------------
(* The parties of RpcSwitcher, as long as they run *)

ProberRuns == Prober /\ phase # "dead" /\ UNCHANGED <<mainVars, due>>

\* updateAllPrices: a fetch for each feed there is.
StartRound == /\ monitoring = "on"
              /\ feeds
              /\ BetweenRounds
              /\ due' = Fetchers
              /\ UNCHANGED <<vars, mainVars>>

BeginFeed(f) == /\ f \in due
                /\ BeginFetch(f)
                /\ due' = due \ {f}
                /\ UNCHANGED mainVars

Fetches(f) == \/ CallEnds(f) \/ CallReverts(f)
              \/ LockForSwitch(f) \/ SwitchAnswered(f)
              \/ GetBestClient(f) \/ Adopt(f)

FetchGoesOn(f) == Fetches(f) /\ UNCHANGED <<mainVars, due>>

RefresherRuns == Refresher /\ refreshing = "on" /\ UNCHANGED <<mainVars, due>>

Starting == \/ LookForClients \/ CopyForMonitor
            \/ (\E n \in Networks : AddNetwork(n))
            \/ StartMonitor

Stopping == StopMonitor \/ StopProber

StartupNext == \/ Starting \/ CancelContext \/ Stopping
               \/ MonitorEnds \/ RefresherEnds
               \/ ProberRuns \/ RefresherRuns \/ StartRound
               \/ \E f \in Fetchers : BeginFeed(f) \/ FetchGoesOn(f)

StartupSpec == StartupInit /\ [][StartupNext]_progVars

\* As in RpcSwitcher.  In addition the main goroutine goes on, except that
\* the signal need not come, and the select of each loop picks the case that
\* ends it at some time.  That a fetch goes on also when it waits for an
\* endpoint is an assumption: the endpoints answer or refuse each call and
\* each test of a switch in the end, for which the code sets no timeout.
StartupFairSpec ==
  /\ StartupSpec
  /\ SF_progVars(Starting) /\ WF_progVars(Stopping)
  /\ SF_progVars(MonitorEnds) /\ SF_progVars(RefresherEnds)
  /\ SF_progVars((\E n \in Networks : Install(n)) /\ UNCHANGED <<mainVars, due>>)
  /\ SF_progVars((\E n \in Networks : Refresh(n)) /\ RefresherRuns)
  /\ WF_progVars(ProbeEnds /\ UNCHANGED <<mainVars, due>>)
  /\ SF_progVars(ProberStops /\ UNCHANGED <<mainVars, due>>)
  /\ \A f \in Fetchers : /\ SF_progVars(LockForSwitch(f) /\ UNCHANGED <<mainVars, due>>)
                         /\ SF_progVars(GetBestClient(f) /\ UNCHANGED <<mainVars, due>>)
                         /\ WF_progVars(BeginFeed(f) \/ FetchGoesOn(f))

-----------------------------------------------------------------------------
(* Properties *)

Phases == {"wait", "copy", "add", "running", "cancelled", "halted", "closed", "dead"}

StartupTypeOK == /\ TypeOK
                 /\ phase \in Phases
                 /\ looks \in 0 .. MaxLooks
                 /\ feeds \in BOOLEAN
                 /\ monitoring \in {"off", "on", "done"}
                 /\ refreshing \in {"off", "on", "done"}
                 /\ due \subseteq Fetchers

\* A monitor that was started has a client, although the table in which one
\* was seen is read a second time before it is used (main.go:105, 125); and
\* feeds are only monitored with a client of their network, so that no fetch
\* fails for want of one (chainlink_monitor.go:112-114).
StartedWithClient ==
  /\ monitoring # "off" => \E n \in Networks : clients[n] # None
  /\ feeds => clients[FeedNetwork] # None

\* What the startup relies on between its two looks and its deliveries: the
\* inductive invariant behind StartedWithClient.
TableStaysUsable ==
  /\ phase = "copy" => HaveClient
  /\ phase = "add" => \E n \in Networks : copy[n] # None \/ clients[n] # None

\* The program does not wait for ever: it is started or it gives up, also
\* when the prober finds no endpoint or hangs (main.go:101-116).
StartupEnds == phase = "wait" ~> phase \in {"running", "dead"}

\* After the signal the monitor, the refresh loop and the prober all end,
\* although ticks go on and rounds may still be switching (main.go:303-308).
ShutdownCompletes ==
  phase = "cancelled" ~> /\ monitoring = "done"
                         /\ refreshing = "done"
                         /\ probing = "done"
=============================================================================
