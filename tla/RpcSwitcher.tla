---------------------------- MODULE RpcSwitcher ----------------------------
(***************************************************************************)
(* Which RPC client each network uses (rpcscan/rpcswitcher.go) and how the *)
(* Chainlink monitor gets to use it.  Three parties write the two tables,  *)
(* netconf.ClientUse and pm.clients:                                       *)
(*   - the prober, MonitorAllRPCEndpoints, which tests all endpoints and   *)
(*     then installs its choices one network at a time;                    *)
(*   - the fetchers, goroutines of an update round whose call reverted:    *)
(*     SwitchRPCEndpointImmediately tests the endpoints of the network and *)
(*     installs one, all under netconf.mu, and GetBestClient then copies   *)
(*     ClientUse into pm.clients;                                          *)
(*   - the refresher, the loop of main.go that copies the whole of         *)
(*     ClientUse and then writes it to pm.clients one network at a time.   *)
(*                                                                         *)
(* A client is the endpoint it was dialled for.  Which endpoints answer a  *)
(* test and which of them is fastest is up to the network, so a test may   *)
(* choose any endpoint or none.                                            *)
(***************************************************************************)
EXTENDS Integers

CONSTANTS Networks, Endpoints,
          EndpointsOf,   \* the configured endpoints of each network
          Fetchers,      \* goroutines fetching a feed
          NetOf,         \* the network of each fetcher
          MaxRetries,    \* retries of a fetch (1)
          None, Free

ASSUME SwitcherAssumption == /\ EndpointsOf \in [Networks -> SUBSET Endpoints]
                             /\ NetOf \in [Fetchers -> Networks]
                             /\ MaxRetries \in Nat
                             /\ None \notin Endpoints
                             /\ Free \notin Fetchers

VARIABLES mu,         \* the fetcher that holds netconf.mu for writing, or Free
          clientUse,  \* netconf.ClientUse
          clients,    \* pm.clients
          probing,    \* where the prober is: "select", "install" or "done"
          best,       \* the prober's choices that are not installed yet
          stopped,    \* stopChan is closed
          fpc,        \* where each fetcher is
          client,     \* the client each fetcher uses
          attempt,    \* the attempt each fetcher is in
          copy        \* what the refresher still has to write

proberVars == <<probing, best, stopped>>
fetchVars == <<fpc, client, attempt>>
vars == <<mu, clientUse, clients, proberVars, fetchVars, copy>>

NoChoice == [n \in Networks |-> None]

Init == /\ mu = Free
        /\ clientUse = NoChoice /\ clients = NoChoice
        /\ probing = "select" /\ best = NoChoice /\ stopped = FALSE
        /\ fpc = [f \in Fetchers |-> "idle"]
        /\ client = [f \in Fetchers |-> None]
        /\ attempt = [f \in Fetchers |-> 0]
        /\ copy = NoChoice

-----------------------------------------------------------------------------
(* The prober *)

\* getBestRPCEndpointsParallel: at most one endpoint for each network.
Probe == /\ probing = "select"
         /\ probing' = "install"
         /\ best' \in {b \in [Networks -> Endpoints \cup {None}] :
                         \A n \in Networks : b[n] \in EndpointsOf[n] \cup {None}}
         /\ UNCHANGED <<mu, clientUse, clients, stopped, fetchVars, copy>>

\* NewEthereumClient fails: the network keeps the client it has.
DialFails(n) == /\ probing = "install"
                /\ best[n] # None
                /\ best' = [best EXCEPT ![n] = None]
                /\ UNCHANGED <<mu, clientUse, clients, probing, stopped, fetchVars, copy>>

Install(n) == /\ probing = "install"
              /\ best[n] # None
              /\ mu = Free
              /\ clientUse' = [clientUse EXCEPT ![n] = best[n]]
              /\ best' = [best EXCEPT ![n] = None]
              /\ UNCHANGED <<mu, clients, probing, stopped, fetchVars, copy>>

MutProbeEndsClearing ==
  /\ probing = "install"
  /\ best = NoChoice
  /\ probing' = "select"
  /\ \E n \in Networks : clientUse' = [clientUse EXCEPT ![n] = None]
  /\ UNCHANGED <<mu, clients, best, stopped, fetchVars, copy>>

ProbeEnds == /\ probing = "install"
             /\ best = NoChoice
             /\ probing' = "select"
             /\ UNCHANGED <<mu, clientUse, clients, best, stopped, fetchVars, copy>>

ProberStops == /\ probing = "select"
               /\ stopped
               /\ probing' = "done"
               /\ UNCHANGED <<mu, clientUse, clients, best, stopped, fetchVars, copy>>

CloseStopChan == /\ ~stopped
                 /\ stopped' = TRUE
                 /\ UNCHANGED <<mu, clientUse, clients, probing, best, fetchVars, copy>>

-----------------------------------------------------------------------------
(* The fetchers *)

Goto(f, from, to) == fpc[f] = from /\ fpc' = [fpc EXCEPT ![f] = to]

\* fetchPriceData takes the monitor's client for the network.
BeginFetch(f) == /\ clients[NetOf[f]] # None
                 /\ Goto(f, "idle", "call")
                 /\ client' = [client EXCEPT ![f] = clients[NetOf[f]]]
                 /\ attempt' = [attempt EXCEPT ![f] = 1]
                 /\ UNCHANGED <<mu, clientUse, clients, proberVars, copy>>

\* The fetch is over: with a price, or with an error that is not retried.
Reset(f) == /\ client' = [client EXCEPT ![f] = None]
            /\ attempt' = [attempt EXCEPT ![f] = 0]

CallEnds(f) == /\ Goto(f, "call", "idle")
               /\ Reset(f)
               /\ UNCHANGED <<mu, clientUse, clients, proberVars, copy>>

MutCallRevertsAlways(f) ==
  /\ Goto(f, "call", "lock")
  /\ UNCHANGED <<mu, clientUse, clients, proberVars, client, attempt, copy>>

CallReverts(f) == /\ attempt[f] <= MaxRetries
                  /\ Goto(f, "call", "lock")
                  /\ UNCHANGED <<mu, clientUse, clients, proberVars, client, attempt, copy>>

\* SwitchRPCEndpointImmediately, to the deferred Unlock.
LockForSwitch(f) == /\ mu = Free
                    /\ Goto(f, "lock", "scan")
                    /\ mu' = f
                    /\ UNCHANGED <<clientUse, clients, proberVars, client, attempt, copy>>

Switch(f, e) == /\ Goto(f, "scan", "best")
                /\ e \in EndpointsOf[NetOf[f]]
                /\ clientUse' = [clientUse EXCEPT ![NetOf[f]] = e]
                /\ mu' = Free
                /\ UNCHANGED <<clients, proberVars, client, attempt, copy>>

MutSwitchFailsLocked(f) ==
  /\ Goto(f, "scan", "idle")
  /\ Reset(f)
  /\ UNCHANGED <<mu, clientUse, clients, proberVars, copy>>

\* No endpoint answered the test, or the one that did cannot be dialled.
SwitchFails(f) == /\ Goto(f, "scan", "idle")
                  /\ Reset(f)
                  /\ mu' = Free
                  /\ UNCHANGED <<clientUse, clients, proberVars, copy>>

\* GetBestClient of the network configuration: another party may have
\* replaced what this fetcher installed.
GetBestClient(f) ==
  /\ mu = Free
  /\ IF clientUse[NetOf[f]] # None
       THEN /\ Goto(f, "best", "adopt")
            /\ client' = [client EXCEPT ![f] = clientUse[NetOf[f]]]
            /\ UNCHANGED attempt
       ELSE /\ Goto(f, "best", "idle")
            /\ Reset(f)
  /\ UNCHANGED <<mu, clientUse, clients, proberVars, copy>>

\* UpdateClient of the adapter, then the recursive call.
Adopt(f) == /\ Goto(f, "adopt", "call")
            /\ clients' = [clients EXCEPT ![NetOf[f]] = client[f]]
            /\ attempt' = [attempt EXCEPT ![f] = @ + 1]
            /\ UNCHANGED <<mu, clientUse, proberVars, client, copy>>

-----------------------------------------------------------------------------
(* The refresher (and, with the same code, the startup of main.go) *)

CopyClients == /\ copy = NoChoice
               /\ mu = Free
               /\ copy' = clientUse
               /\ UNCHANGED <<mu, clientUse, clients, proberVars, fetchVars>>

MutRefreshMissing(n) ==
  /\ copy[n] # None
  /\ clients' = [clients EXCEPT ![n] = IF @ = None THEN copy[n] ELSE @]
  /\ copy' = [copy EXCEPT ![n] = None]
  /\ UNCHANGED <<mu, clientUse, proberVars, fetchVars>>

Refresh(n) == /\ copy[n] # None
              /\ clients' = [clients EXCEPT ![n] = copy[n]]
              /\ copy' = [copy EXCEPT ![n] = None]
              /\ UNCHANGED <<mu, clientUse, proberVars, fetchVars>>

-----------------------------------------------------------------------------
Prober == \/ Probe \/ ProbeEnds \/ ProberStops
          \/ \E n \in Networks : DialFails(n) \/ Install(n)

\* What ends the tests of a switch.  They have no timeout (rpcswitcher.go:436;
\* the 5 seconds of line 201 are the prober's), so an endpoint that accepts the
\* call and stays silent keeps the fetcher at "scan", with netconf.mu.
SwitchAnswered(f) == \/ \E e \in Endpoints : Switch(f, e)
                     \/ SwitchFails(f)

Fetcher(f) == \/ BeginFetch(f) \/ CallEnds(f) \/ CallReverts(f)
              \/ LockForSwitch(f) \/ SwitchAnswered(f)
              \/ GetBestClient(f) \/ Adopt(f)

Refresher == CopyClients \/ \E n \in Networks : Refresh(n)

Next == \/ Prober \/ CloseStopChan
        \/ \E f \in Fetchers : Fetcher(f)
        \/ Refresher

Spec == Init /\ [][Next]_vars

\* Goroutines are scheduled, the ticker of the refresher ticks for ever, a
\* contended mutex is obtained in the end (Go's mutex hands itself to a
\* starving waiter, and a waiting writer keeps new readers out), and select
\* picks its ready cases at random.  Nothing here makes an endpoint answer: the
\* call of a fetch and the tests of a switch may last for ever.
Fairness ==
  /\ \A n \in Networks : SF_vars(Install(n)) /\ SF_vars(Refresh(n))
  /\ WF_vars(ProbeEnds) /\ SF_vars(ProberStops)
  /\ SF_vars(CopyClients)
  /\ \A f \in Fetchers : /\ SF_vars(LockForSwitch(f))
                         /\ SF_vars(GetBestClient(f))
                         /\ WF_vars(Adopt(f))

FairSpec == Spec /\ Fairness

-----------------------------------------------------------------------------
(* Properties *)

Choices == {b \in [Networks -> Endpoints \cup {None}] :
              \A n \in Networks : b[n] \in EndpointsOf[n] \cup {None}}

TypeOK == /\ mu \in Fetchers \cup {Free}
          /\ clientUse \in Choices /\ clients \in Choices
          /\ best \in Choices /\ copy \in Choices
          /\ probing \in {"select", "install", "done"}
          /\ stopped \in BOOLEAN
          /\ fpc \in [Fetchers -> {"idle", "call", "lock", "scan", "best", "adopt"}]
          /\ client \in [Fetchers -> Endpoints \cup {None}]
          /\ attempt \in [Fetchers -> 0 .. MaxRetries + 1]

\* After a switch there is a client to retry with, whatever the prober and
\* the other fetchers do to the table between the switch and the look-up:
\* the error path of chainlink/client.go:79-83 is never taken, and a fetch
\* always has the client of its network (client.go:88).
SwitchFindsClient ==
  \A f \in Fetchers : /\ fpc[f] = "best" => clientUse[NetOf[f]] # None
                      /\ fpc[f] # "idle" => client[f] \in EndpointsOf[NetOf[f]]

\* A fetcher that switches has an attempt left to use the new client for.
AttemptLeft ==
  \A f \in Fetchers : fpc[f] \in {"lock", "scan", "best", "adopt"}
                       => attempt[f] <= MaxRetries

\* The inductive invariant behind the two.
IInv == TypeOK /\ AttemptLeft /\ SwitchFindsClient

\* An assumption about the endpoints, which the code does nothing to secure:
\* the tests of a switch end, with an answer or an error.
TestsEnd == \A f \in Fetchers : []<>(fpc[f] # "scan")

\* As long as the tests of every switch end, a fetcher that wants to switch
\* gets through, although each switch holds the lock of all networks during
\* its tests (rpcswitcher.go:401-402): it is not kept out by the others.
SwitchesEnd ==
  TestsEnd => \A f \in Fetchers : fpc[f] = "lock" ~> fpc[f] \in {"idle", "call"}

\* As long as the tests of every switch end, closing stopChan ends the prober
\* even if ticks keep coming and switches keep the lock busy
\* (rpcswitcher.go:265-269).
ProbingStops == TestsEnd => (stopped ~> probing = "done")

\* When the table of clients settles, the monitor ends up using it: a
\* fetcher or the refresher that wrote a client it had read earlier is
\* corrected by a later refresh (main.go:188-191), which needs the lock and
\* therefore that the tests of every switch end.
ClientsConverge ==
  TestsEnd /\ <>[][UNCHANGED clientUse]_vars
    => <>[](\A n \in Networks : clientUse[n] # None => clients[n] = clientUse[n])
=============================================================================
