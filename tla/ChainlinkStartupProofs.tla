----------------------- MODULE ChainlinkStartupProofs -----------------------
(***************************************************************************)
(* Proofs about ChainlinkStartup, for any networks, endpoints and fetchers *)
(* and any number of looks.  The argument: neither the table of clients    *)
(* nor the monitor's ever loses a network, so what the first look saw is   *)
(* there for the second, and one of the clients copied is delivered before *)
(* the monitor starts.                                                     *)
(***************************************************************************)
EXTENDS ChainlinkStartup, RpcSwitcherProofs

-----------------------------------------------------------------------------
(* The parties of RpcSwitcher *)

\* The start and the shutdown only decide when the prober, the fetchers and
\* the refresher act: every step is one of theirs or leaves them alone.
LEMMA StartupStep == [StartupNext]_progVars => [Next]_vars
<1>1. ASSUME StartupNext
      PROVE  Next \/ UNCHANGED vars
  <2>1. Starting => Refresher \/ UNCHANGED vars
    BY DEF Starting, LookForClients, CopyForMonitor, AddNetwork, StartMonitor, Refresher
  <2>2. CancelContext \/ MonitorEnds \/ RefresherEnds \/ StartRound => UNCHANGED vars
    BY DEF CancelContext, MonitorEnds, RefresherEnds, StartRound
  <2>3. Stopping => CloseStopChan \/ UNCHANGED vars
    BY DEF Stopping, StopMonitor, StopProber
  <2>4. ASSUME NEW f \in Fetchers, BeginFeed(f) \/ FetchGoesOn(f)
        PROVE  Fetcher(f)
    BY <2>4 DEF BeginFeed, FetchGoesOn, Fetches, Fetcher
  <2>5. QED
    BY <1>1, <2>1, <2>2, <2>3, <2>4 DEF StartupNext, ProberRuns, RefresherRuns, Next
<1>2. QED
  BY <1>1 DEF progVars

\* The program does to the tables of clients what RpcSwitcher does.
THEOREM ImplementsSwitching == StartupSpec => Spec
<1>1. StartupInit => Init
  BY DEF StartupInit
<1>2. QED
  BY <1>1, StartupStep, PTL DEF StartupSpec, Spec

\* What holds of the switching holds in the program from its start on.
THEOREM SwitchingStaysSound == StartupSpec => []IInv
BY ImplementsSwitching, Invariance, PTL

-----------------------------------------------------------------------------
(* The startup *)

\* No step takes a client from the monitor.
LEMMA MonitorKeepsClients ==
  ASSUME IInv, [Next]_vars, NEW n \in Networks, clients[n] # None
  PROVE  clients'[n] # None
<1> USE SwitcherAssumption DEF IInv, TypeOK
<1>1. ASSUME NEW f \in Fetchers, Adopt(f)
      PROVE  clients'[n] # None
  <2>1. client[f] \in EndpointsOf[NetOf[f]] /\ EndpointsOf[NetOf[f]] \subseteq Endpoints
    BY <1>1 DEF Adopt, Goto, SwitchFindsClient
  <2>2. QED
    BY <1>1, <2>1 DEF Adopt, Choices
<1>2. ASSUME NEW m \in Networks, Refresh(m)
      PROVE  clients'[n] # None
  BY <1>2 DEF Refresh, Choices
<1>3. CASE clients' = clients
  BY <1>3
<1>4. QED
  BY <1>1, <1>2, <1>3
     DEF Next, Prober, Probe, ProbeEnds, ProberStops, DialFails, Install, CloseStopChan,
         Fetcher, BeginFetch, CallEnds, CallReverts, LockForSwitch, SwitchAnswered,
         Switch, SwitchFails, GetBestClient, Refresher, CopyClients, vars

\* The variables of the main goroutine and its loops keep their types.
MainType == /\ phase \in Phases
            /\ looks \in 0 .. MaxLooks
            /\ phase = "wait" => looks < MaxLooks
            /\ feeds \in BOOLEAN
            /\ monitoring \in {"off", "on", "done"}
            /\ refreshing \in {"off", "on", "done"}
            /\ due \subseteq Fetchers

\* No step takes the variables of the main goroutine out of their types.
LEMMA MainTypeStep ==
  ASSUME MainType, [StartupNext]_progVars
  PROVE  MainType'
<1> USE StartupAssumption DEF MainType, Phases
<1>1. CASE LookForClients
  BY <1>1 DEF LookForClients
<1>2. CASE CopyForMonitor \/ StartMonitor
  BY <1>2 DEF CopyForMonitor, StartMonitor
<1>3. ASSUME NEW n \in Networks, AddNetwork(n)
      PROVE  MainType'
  BY <1>3 DEF AddNetwork
<1>4. CASE CancelContext \/ Stopping
  BY <1>4 DEF CancelContext, Stopping, StopMonitor, StopProber
<1>5. CASE MonitorEnds \/ RefresherEnds
  BY <1>5 DEF MonitorEnds, RefresherEnds
<1>6. CASE StartRound \/ \E f \in Fetchers : BeginFeed(f)
  BY <1>6 DEF StartRound, BeginFeed, mainVars
<1>7. CASE UNCHANGED <<mainVars, due>>
  BY <1>7 DEF mainVars
<1>8. QED
  BY <1>1, <1>2, <1>3, <1>4, <1>5, <1>6, <1>7
     DEF StartupNext, Starting, ProberRuns, RefresherRuns, FetchGoesOn, progVars

\* They have these types.
LEMMA MainTyped == StartupSpec => []MainType
<1>1. ASSUME StartupInit
      PROVE  MainType
  <2>1. 0 \in 0 .. MaxLooks /\ 0 < MaxLooks
    BY StartupAssumption
  <2>2. looks \in 0 .. MaxLooks /\ looks < MaxLooks /\ due \subseteq Fetchers
    BY <1>1, <2>1 DEF StartupInit
  <2>3. QED
    BY <1>1, <2>2, Zenon DEF StartupInit, MainType, Phases
<1>2. MainType /\ [StartupNext]_progVars => MainType'
  BY MainTypeStep
<1>3. QED
  BY <1>1, <1>2, PTL DEF StartupSpec

\* Neither a look nor a delivery loses the client that the first look saw.
LEMMA StartedStep ==
  ASSUME IInv, StartedWithClient, TableStaysUsable, [StartupNext]_progVars
  PROVE  StartedWithClient' /\ TableStaysUsable'
<1> USE StartupAssumption DEF StartedWithClient, TableStaysUsable
<1>1. [Next]_vars
  BY StartupStep
<1>2. \A n \in Networks : clients[n] # None => clients'[n] # None
  BY <1>1, MonitorKeepsClients
<1>3. HaveClient => HaveClient'
  BY <1>1, ClientsStay DEF HaveClient, IInv, vars
<1>4. CASE LookForClients
  BY <1>2, <1>3, <1>4 DEF LookForClients
<1>5. CASE CopyForMonitor
  BY <1>2, <1>5 DEF CopyForMonitor, CopyClients, HaveClient
<1>6. ASSUME NEW n \in Networks, AddNetwork(n)
      PROVE  StartedWithClient' /\ TableStaysUsable'
  <2>1. clients'[n] # None
    BY <1>6 DEF AddNetwork, Refresh, IInv, TypeOK, Choices
  <2>2. QED
    BY <1>2, <1>6, <2>1 DEF AddNetwork
<1>7. CASE StartMonitor
  <2>1. \A n \in Networks : copy[n] = None
    BY <1>7 DEF StartMonitor, NoChoice
  <2>2. QED
    BY <1>2, <1>7, <2>1 DEF StartMonitor
<1>8. CASE CancelContext \/ Stopping \/ MonitorEnds \/ RefresherEnds
  BY <1>2, <1>8
     DEF CancelContext, Stopping, StopMonitor, StopProber, MonitorEnds, RefresherEnds
<1>9. CASE UNCHANGED mainVars
  <2>1. StartedWithClient'
    BY <1>2, <1>9 DEF mainVars
  <2>2. (phase = "copy" => HaveClient)'
    BY <1>3, <1>9 DEF mainVars
  <2>3. ASSUME phase = "add"
        PROVE  \E n \in Networks : copy'[n] # None \/ clients'[n] # None
    <3>1. PICK n \in Networks : copy[n] # None \/ clients[n] # None
      BY <2>3
    <3>2. CASE clients[n] # None
      BY <1>2, <3>2
    <3>3. CASE copy' = copy
      BY <1>2, <3>1, <3>3
    <3>4. ASSUME NEW m \in Networks, Refresh(m)
          PROVE  clients'[m] # None
      BY <3>4 DEF Refresh, IInv, TypeOK, Choices
    <3>5. CASE CopyClients
      BY <1>2, <3>1, <3>5 DEF CopyClients, NoChoice
    <3>6. QED
      BY <1>1, <3>2, <3>3, <3>4, <3>5
         DEF Next, Prober, Probe, ProbeEnds, ProberStops, DialFails, Install,
             CloseStopChan, Fetcher, BeginFetch, CallEnds, CallReverts, LockForSwitch,
             SwitchAnswered, Switch, SwitchFails, GetBestClient, Adopt, Refresher, vars
  <2>4. QED
    BY <1>9, <2>1, <2>2, <2>3 DEF mainVars
<1>10. QED
  BY <1>4, <1>5, <1>6, <1>7, <1>8, <1>9
     DEF StartupNext, Starting, ProberRuns, RefresherRuns, StartRound, BeginFeed,
         FetchGoesOn, progVars

-----------------------------------------------------------------------------
(* Theorems *)

\* The tables and the main goroutine keep their types; the main goroutine
\* never looks more often than it may.
THEOREM StartupTypeCorrect == StartupSpec => []StartupTypeOK
<1>1. IInv /\ MainType => StartupTypeOK
  BY DEF IInv, MainType, StartupTypeOK
<1>2. QED
  BY <1>1, MainTyped, SwitchingStaysSound, PTL

\* A monitor that was started has a client, and feeds have the client of
\* their network.
THEOREM StartsWithClient == StartupSpec => []StartedWithClient
<1>1. StartupInit => StartedWithClient /\ TableStaysUsable
  BY Zenon DEF StartupInit, StartedWithClient, TableStaysUsable
<1>2. IInv /\ StartedWithClient /\ TableStaysUsable /\ [StartupNext]_progVars
        => StartedWithClient' /\ TableStaysUsable'
  BY StartedStep
<1>3. QED
  BY <1>1, <1>2, SwitchingStaysSound, PTL DEF StartupSpec

-----------------------------------------------------------------------------
(* The shutdown *)

\* The main goroutine has not yet started the monitor.
NotStarted == phase \in {"wait", "copy", "add", "dead"}

\* What the phase of the main goroutine says of the loops.
LoopsFollow ==
  /\ (monitoring = "off") <=> NotStarted
  /\ (refreshing = "off") <=> NotStarted
  /\ monitoring = "done" => phase \in {"halted", "closed"}
  /\ refreshing = "done" => phase \in {"cancelled", "halted", "closed"}
  /\ stopped <=> (phase = "closed")
  /\ probing = "done" => stopped
  /\ phase # "add" /\ refreshing # "on" => copy = NoChoice

\* The inductive invariant behind what holds after the shutdown.
ShutdownInv == LoopsFollow /\ (monitoring # "on" => BetweenRounds)

\* Outside the monitor's loop no fetch is under way: none was before Start,
\* and when Start has returned none is left that talks to an endpoint or
\* holds the lock of the clients (chainlink_monitor.go:194 and 243-252).
NoFetchLeft == monitoring # "on" => BetweenRounds /\ mu = Free

\* The monitor, the refresh loop and the prober have ended.
AllEnded == monitoring = "done" /\ refreshing = "done" /\ probing = "done"

\* A fetch that is under way is one of a round.
LEMMA FetchNeedsRound ==
  ASSUME ShutdownInv, NEW f \in Fetchers, BeginFeed(f) \/ FetchGoesOn(f)
  PROVE  monitoring = "on"
<1>1. CASE BeginFeed(f)
  BY <1>1 DEF BeginFeed, ShutdownInv, BetweenRounds
<1>2. CASE FetchGoesOn(f)
  <2>1. fpc[f] # "idle"
    BY <1>2 DEF FetchGoesOn, Fetches, CallEnds, CallReverts, LockForSwitch, SwitchAnswered,
                Switch, SwitchFails, GetBestClient, Adopt, Goto
  <2>2. QED
    BY <2>1 DEF ShutdownInv, BetweenRounds
<1>3. QED
  BY <1>1, <1>2

\* Every step keeps the loops and the main goroutine together.
LEMMA ShutdownStep ==
  ASSUME ShutdownInv, MainType, TypeOK, [StartupNext]_progVars
  PROVE  ShutdownInv'
<1> USE DEF ShutdownInv, LoopsFollow, NotStarted, BetweenRounds, MainType, Phases
<1>1. CASE LookForClients
  BY <1>1 DEF LookForClients, vars, proberVars, fetchVars
<1>2. CASE CopyForMonitor
  BY <1>2 DEF CopyForMonitor, CopyClients, proberVars, fetchVars
<1>3. ASSUME NEW n \in Networks, AddNetwork(n)
      PROVE  ShutdownInv'
  BY <1>3 DEF AddNetwork, Refresh, proberVars, fetchVars
<1>4. CASE StartMonitor
  BY <1>4 DEF StartMonitor, vars, proberVars, fetchVars
<1>5. CASE CancelContext \/ StopMonitor \/ MonitorEnds \/ RefresherEnds
  BY <1>5 DEF CancelContext, StopMonitor, MonitorEnds, RefresherEnds,
              vars, proberVars, fetchVars
<1>6. CASE StopProber
  BY <1>6 DEF StopProber, CloseStopChan, fetchVars
<1>7. CASE ProberRuns
  <2>1. UNCHANGED <<mainVars, due, stopped, fpc, copy>> /\ (probing' = "done" => stopped)
    BY <1>7 DEF ProberRuns, Prober, Probe, ProbeEnds, ProberStops, DialFails, Install,
                fetchVars
  <2>2. QED
    BY <2>1 DEF mainVars, NoChoice
<1>8. CASE RefresherRuns
  <2>1. /\ UNCHANGED <<mainVars, due, stopped, probing, fpc>>
        /\ refreshing = "on"
    BY <1>8 DEF RefresherRuns, Refresher, CopyClients, Refresh, proberVars, fetchVars
  <2>2. QED
    BY <2>1 DEF mainVars
<1>9. CASE StartRound
  BY <1>9 DEF StartRound, mainVars, vars, proberVars, fetchVars
<1>10. ASSUME NEW f \in Fetchers, BeginFeed(f) \/ FetchGoesOn(f)
       PROVE  ShutdownInv'
  <2>1. monitoring = "on"
    BY <1>10, FetchNeedsRound
  <2>2. UNCHANGED <<mainVars, stopped, probing, copy>>
    BY <1>10 DEF BeginFeed, FetchGoesOn, Fetches, BeginFetch, CallEnds, CallReverts,
                 LockForSwitch, SwitchAnswered, Switch, SwitchFails, GetBestClient, Adopt,
                 proberVars
  <2>3. QED
    BY <2>1, <2>2 DEF mainVars, NoChoice
<1>11. CASE UNCHANGED progVars
  BY <1>11 DEF progVars, mainVars, vars, proberVars, fetchVars, NoChoice
<1>12. QED
  BY <1>1, <1>2, <1>3, <1>4, <1>5, <1>6, <1>7, <1>8, <1>9, <1>10, <1>11
     DEF StartupNext, Starting, Stopping

\* They are together from the start to the end.
LEMMA ShutdownInvariant == StartupSpec => []ShutdownInv
<1>1. StartupInit => ShutdownInv
  BY DEF StartupInit, Init, ShutdownInv, LoopsFollow, NotStarted, BetweenRounds
<1>2. ShutdownInv /\ MainType /\ TypeOK /\ [StartupNext]_progVars => ShutdownInv'
  BY ShutdownStep
<1>3. IInv => TypeOK
  BY DEF IInv
<1>4. QED
  BY <1>1, <1>2, <1>3, MainTyped, SwitchingStaysSound, PTL DEF StartupSpec

\* When the monitor's loop has returned, none of its fetches is left behind,
\* neither with an endpoint nor with the lock that the prober needs to end.
THEOREM MonitorLeavesNothing == StartupSpec => []NoFetchLeft
<1>1. ShutdownInv /\ TypeOK /\ MutexHeld => NoFetchLeft
  BY DEF ShutdownInv, NoFetchLeft, BetweenRounds, MutexHeld, TypeOK
<1>2. IInv => TypeOK
  BY DEF IInv
<1>3. StartupSpec => []MutexHeld
  BY ImplementsSwitching, MutexCorrect, PTL
<1>4. QED
  BY <1>1, <1>2, <1>3, ShutdownInvariant, SwitchingStaysSound, PTL

\* Once the monitor and the refresh loop have ended, the monitor's clients
\* never change again, although the prober may still install what it found.
THEOREM ClientsFrozen ==
  StartupSpec => [][monitoring = "done" /\ refreshing = "done" => UNCHANGED clients]_progVars
<1>1. ASSUME ShutdownInv, StartupNext, monitoring = "done", refreshing = "done"
      PROVE  UNCHANGED clients
  <2>1. phase \in {"halted", "closed"}
    BY <1>1 DEF ShutdownInv, LoopsFollow
  <2>2. ~Starting
    BY <2>1 DEF Starting, LookForClients, CopyForMonitor, AddNetwork, StartMonitor
  <2>3. \A f \in Fetchers : ~(BeginFeed(f) \/ FetchGoesOn(f))
    BY <1>1, FetchNeedsRound
  <2>4. ~RefresherRuns
    BY <1>1 DEF RefresherRuns
  <2>5. QED
    BY <1>1, <2>2, <2>3, <2>4
       DEF StartupNext, CancelContext, Stopping, StopMonitor, StopProber, CloseStopChan,
           MonitorEnds, RefresherEnds, ProberRuns, Prober, Probe, ProbeEnds, ProberStops,
           DialFails, Install, StartRound, vars
<1>2. ShutdownInv /\ [StartupNext]_progVars
        => [monitoring = "done" /\ refreshing = "done" => UNCHANGED clients]_progVars
  BY <1>1
<1>3. QED
  BY <1>2, ShutdownInvariant, PTL DEF StartupSpec

\* The shutdown is final: when its three parties have ended, nothing of the
\* program takes a step any more (main.go:303-308).
THEOREM ShutdownIsFinal == StartupSpec => [][~AllEnded]_progVars
<1>1. ASSUME ShutdownInv, StartupNext, AllEnded
      PROVE  FALSE
  <2>1. phase = "closed" /\ stopped /\ probing = "done"
        /\ monitoring = "done" /\ refreshing = "done"
    BY <1>1 DEF AllEnded, ShutdownInv, LoopsFollow
  <2>2. ~Starting /\ ~CancelContext /\ ~Stopping
    BY <2>1 DEF Starting, LookForClients, CopyForMonitor, AddNetwork, StartMonitor,
                CancelContext, Stopping, StopMonitor, StopProber
  <2>3. \A f \in Fetchers : ~(BeginFeed(f) \/ FetchGoesOn(f))
    BY <1>1, <2>1, FetchNeedsRound
  <2>4. ~MonitorEnds /\ ~RefresherEnds /\ ~RefresherRuns /\ ~StartRound
    BY <2>1 DEF MonitorEnds, RefresherEnds, RefresherRuns, StartRound
  <2>5. ~ProberRuns
    BY <2>1 DEF ProberRuns, Prober, Probe, ProbeEnds, ProberStops, DialFails, Install
  <2>6. QED
    BY <1>1, <2>2, <2>3, <2>4, <2>5 DEF StartupNext
<1>2. ShutdownInv /\ [StartupNext]_progVars => [~AllEnded]_progVars
  BY <1>1
<1>3. QED
  BY <1>2, ShutdownInvariant, PTL DEF StartupSpec
=============================================================================
