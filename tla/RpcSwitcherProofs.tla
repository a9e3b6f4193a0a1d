-------------------------- MODULE RpcSwitcherProofs --------------------------
(***************************************************************************)
(* Proofs about RpcSwitcher, for any number of networks, endpoints and     *)
(* fetchers and any number of retries.  The argument: a network that has a *)
(* client once always has one, because every write to ClientUse installs   *)
(* an endpoint of the network; so what a fetcher finds after its switch is *)
(* a client, whoever wrote it last.                                        *)
(***************************************************************************)
EXTENDS RpcSwitcher, TLAPS

-----------------------------------------------------------------------------
(* The tables *)

\* An entry of a table is an endpoint of its network or nothing.
LEMMA ChoiceType ==
  ASSUME NEW b \in Choices, NEW n \in Networks
  PROVE  b[n] \in EndpointsOf[n] \cup {None} /\ b[n] \in Endpoints \cup {None}
BY DEF Choices

\* Writing an endpoint of the network, or nothing, keeps a table a table.
LEMMA ChoiceWrite ==
  ASSUME NEW b \in Choices, NEW n \in Networks,
         NEW e \in EndpointsOf[n] \cup {None}
  PROVE  [b EXCEPT ![n] = e] \in Choices
<1>1. e \in Endpoints \cup {None}
  BY SwitcherAssumption
<1>2. QED
  BY <1>1 DEF Choices

-----------------------------------------------------------------------------
(* The invariant *)

\* No step takes a variable out of its type.
LEMMA TypeStep ==
  ASSUME IInv, Next
  PROVE  TypeOK'
<1> USE SwitcherAssumption DEF IInv, TypeOK
<1>1. CASE Probe
  BY <1>1 DEF Probe, Choices, fetchVars
<1>2. ASSUME NEW n \in Networks, DialFails(n)
      PROVE  TypeOK'
  BY <1>2, ChoiceWrite DEF DialFails, fetchVars
<1>3. ASSUME NEW n \in Networks, Install(n)
      PROVE  TypeOK'
  <2>1. best[n] \in EndpointsOf[n]
    BY <1>3, ChoiceType DEF Install
  <2>2. clientUse' \in Choices /\ best' \in Choices
    BY <1>3, <2>1, ChoiceWrite DEF Install
  <2>3. QED
    BY <1>3, <2>2 DEF Install, fetchVars
<1>4. CASE ProbeEnds \/ ProberStops \/ CloseStopChan
  BY <1>4 DEF ProbeEnds, ProberStops, CloseStopChan, fetchVars
<1>5. ASSUME NEW f \in Fetchers, BeginFetch(f)
      PROVE  TypeOK'
  BY <1>5, ChoiceType DEF BeginFetch, Goto, proberVars
<1>6. ASSUME NEW f \in Fetchers,
             CallEnds(f) \/ CallReverts(f) \/ LockForSwitch(f) \/ SwitchFails(f)
      PROVE  TypeOK'
  BY <1>6 DEF CallEnds, CallReverts, LockForSwitch, SwitchFails, Reset, Goto,
              proberVars
<1>7. ASSUME NEW f \in Fetchers, NEW e \in Endpoints, Switch(f, e)
      PROVE  TypeOK'
  <2>1. clientUse' \in Choices
    BY <1>7, ChoiceWrite DEF Switch
  <2>2. QED
    BY <1>7, <2>1 DEF Switch, Goto, proberVars
<1>8. ASSUME NEW f \in Fetchers, GetBestClient(f)
      PROVE  TypeOK'
  <2>1. clientUse[NetOf[f]] \in Endpoints \cup {None}
    BY ChoiceType
  <2>2. QED
    BY <1>8, <2>1 DEF GetBestClient, Reset, Goto, proberVars
<1>9. ASSUME NEW f \in Fetchers, Adopt(f)
      PROVE  TypeOK'
  <2>1. client[f] \in EndpointsOf[NetOf[f]] /\ attempt[f] <= MaxRetries
    BY <1>9 DEF Adopt, Goto, SwitchFindsClient, AttemptLeft
  <2>2. clients' \in Choices
    BY <1>9, <2>1, ChoiceWrite DEF Adopt
  <2>3. QED
    BY <1>9, <2>1, <2>2 DEF Adopt, Goto, proberVars
<1>10. CASE CopyClients
  BY <1>10 DEF CopyClients, proberVars, fetchVars
<1>11. ASSUME NEW n \in Networks, Refresh(n)
       PROVE  TypeOK'
  <2>1. copy[n] \in EndpointsOf[n] \cup {None}
    BY ChoiceType
  <2>2. clients' \in Choices /\ copy' \in Choices
    BY <1>11, <2>1, ChoiceWrite DEF Refresh
  <2>3. QED
    BY <1>11, <2>2 DEF Refresh, proberVars, fetchVars
<1>12. QED
  BY <1>1, <1>2, <1>3, <1>4, <1>5, <1>6, <1>7, <1>8, <1>9, <1>10, <1>11
     DEF Next, Prober, Fetcher, SwitchAnswered, Refresher

\* No step leaves a network without a client once it has one.
LEMMA ClientsStay ==
  ASSUME TypeOK, Next, NEW n \in Networks, clientUse[n] # None
  PROVE  clientUse'[n] # None
<1> USE SwitcherAssumption DEF TypeOK
<1>1. CASE Prober
  BY <1>1 DEF Prober, Probe, ProbeEnds, ProberStops, DialFails, Install, Choices
<1>2. ASSUME NEW f \in Fetchers, NEW e \in Endpoints, Switch(f, e)
      PROVE  clientUse'[n] # None
  BY <1>2 DEF Switch, Choices
<1>3. CASE clientUse' = clientUse
  BY <1>3
<1>4. QED
  BY <1>1, <1>2, <1>3
     DEF Next, CloseStopChan, Fetcher, BeginFetch, CallEnds, CallReverts,
         LockForSwitch, SwitchAnswered, SwitchFails, GetBestClient, Adopt,
         Refresher, CopyClients, Refresh

\* What a step does to one fetcher: nothing, or a step of that fetcher.
LEMMA FetcherSteps ==
  ASSUME TypeOK, Next, NEW f \in Fetchers
  PROVE  \/ fpc'[f] = fpc[f] /\ client'[f] = client[f] /\ attempt'[f] = attempt[f]
         \/ Fetcher(f)
<1>1. ASSUME NEW g \in Fetchers, g # f, Fetcher(g)
      PROVE  fpc'[f] = fpc[f] /\ client'[f] = client[f] /\ attempt'[f] = attempt[f]
  BY <1>1 DEF TypeOK, Fetcher, BeginFetch, CallEnds, CallReverts, LockForSwitch,
              SwitchAnswered, Switch, SwitchFails, GetBestClient, Adopt, Reset, Goto
<1>2. CASE UNCHANGED fetchVars
  BY <1>2 DEF fetchVars
<1>3. QED
  BY <1>1, <1>2
     DEF Next, Prober, Probe, ProbeEnds, ProberStops, DialFails, Install,
         CloseStopChan, Refresher, CopyClients, Refresh

\* A fetcher enters the switch only with an attempt left, and uses it up
\* when it leaves.
LEMMA AttemptStep ==
  ASSUME IInv, Next
  PROVE  AttemptLeft'
<1> SUFFICES ASSUME NEW f \in Fetchers,
                    fpc'[f] \in {"lock", "scan", "best", "adopt"}
             PROVE  attempt'[f] <= MaxRetries
  BY DEF AttemptLeft
<1> USE DEF IInv, TypeOK, AttemptLeft
<1>1. CASE fpc'[f] = fpc[f] /\ client'[f] = client[f] /\ attempt'[f] = attempt[f]
  BY <1>1
<1>2. CASE Fetcher(f)
  BY <1>2 DEF Fetcher, BeginFetch, CallEnds, CallReverts, LockForSwitch,
              SwitchAnswered, Switch, SwitchFails, GetBestClient, Adopt, Reset, Goto
<1>3. QED
  BY <1>1, <1>2, FetcherSteps

\* After a switch its network has a client, and keeps it until the fetcher
\* looks it up.
LEMMA FindsStep ==
  ASSUME IInv, Next
  PROVE  SwitchFindsClient'
<1> SUFFICES ASSUME NEW f \in Fetchers
             PROVE  /\ fpc'[f] = "best" => clientUse'[NetOf[f]] # None
                    /\ fpc'[f] # "idle" => client'[f] \in EndpointsOf[NetOf[f]]
  BY DEF SwitchFindsClient
<1> USE SwitcherAssumption DEF IInv, TypeOK, SwitchFindsClient
<1>1. CASE fpc'[f] = fpc[f] /\ client'[f] = client[f] /\ attempt'[f] = attempt[f]
  BY <1>1, ClientsStay
<1>2. CASE Fetcher(f)
  <2>1. CASE BeginFetch(f) \/ GetBestClient(f)
    BY <2>1, ChoiceType DEF BeginFetch, GetBestClient, Reset, Goto
  <2>2. ASSUME NEW e \in Endpoints, Switch(f, e)
        PROVE  /\ fpc'[f] = "best" => clientUse'[NetOf[f]] # None
               /\ fpc'[f] # "idle" => client'[f] \in EndpointsOf[NetOf[f]]
    BY <2>2 DEF Switch, Goto, Choices
  <2>3. CASE CallEnds(f) \/ CallReverts(f) \/ LockForSwitch(f) \/ SwitchFails(f)
               \/ Adopt(f)
    BY <2>3 DEF CallEnds, CallReverts, LockForSwitch, SwitchFails, Adopt, Reset, Goto
  <2>4. QED
    BY <1>2, <2>1, <2>2, <2>3 DEF Fetcher, SwitchAnswered
<1>3. QED
  BY <1>1, <1>2, FetcherSteps

-----------------------------------------------------------------------------
(* Theorems *)

\* The inductive invariant holds in every reachable state.
THEOREM Invariance == Spec => []IInv
<1>1. Init => IInv
  <2>1. NoChoice \in Choices
    BY DEF NoChoice, Choices
  <2>2. ASSUME Init
        PROVE  TypeOK
    <3>1. 0 \in 0 .. MaxRetries + 1
      BY SwitcherAssumption
    <3>2. attempt \in [Fetchers -> 0 .. MaxRetries + 1]
      BY <2>2, <3>1 DEF Init
    <3>3. QED
      BY <2>1, <2>2, <3>2 DEF Init, TypeOK
  <2>3. Init => AttemptLeft /\ SwitchFindsClient
    BY DEF Init, AttemptLeft, SwitchFindsClient
  <2>4. QED
    BY <2>2, <2>3 DEF IInv
<1>2. IInv /\ Next => IInv'
  BY TypeStep, AttemptStep, FindsStep DEF IInv
<1>3. IInv /\ UNCHANGED vars => IInv'
  BY DEF vars, proberVars, fetchVars, IInv, TypeOK, AttemptLeft, SwitchFindsClient
<1>4. QED
  BY <1>1, <1>2, <1>3, PTL DEF Spec

\* The tables of clients hold endpoints of their networks, and no fetch makes
\* more attempts than the first one and its retries.
THEOREM TypeCorrect == Spec => []TypeOK
BY Invariance, PTL DEF IInv

\* After a switch there is a client to retry with, for any number of networks
\* and fetchers, whatever the prober installs in between.
THEOREM RetryHasClient == Spec => []SwitchFindsClient
BY Invariance, PTL DEF IInv

-----------------------------------------------------------------------------
(* The lock *)

\* netconf.mu is held by the fetcher that tests endpoints, and by no other:
\* a switch that ends, in whichever way, gives it back, and two switches
\* never test at a time (rpcswitcher.go:401-402).
MutexHeld == \A f \in Fetchers : mu = f <=> fpc[f] = "scan"

\* Every step takes or gives back the lock as it should.
LEMMA MutexStep ==
  ASSUME TypeOK, MutexHeld, [Next]_vars
  PROVE  MutexHeld'
<1> USE SwitcherAssumption DEF TypeOK, MutexHeld
<1>1. ASSUME NEW f \in Fetchers, LockForSwitch(f)
      PROVE  MutexHeld'
  BY <1>1 DEF LockForSwitch, Goto
<1>2. ASSUME NEW f \in Fetchers, SwitchAnswered(f)
      PROVE  MutexHeld'
  <2>1. fpc[f] = "scan" /\ mu' = Free /\ \E s \in {"best", "idle"} : fpc' = [fpc EXCEPT ![f] = s]
    BY <1>2 DEF SwitchAnswered, Switch, SwitchFails, Goto
  <2>2. QED
    BY <2>1
<1>3. ASSUME NEW f \in Fetchers,
             BeginFetch(f) \/ CallEnds(f) \/ CallReverts(f) \/ GetBestClient(f) \/ Adopt(f)
      PROVE  MutexHeld'
  <2>1. /\ mu' = mu /\ fpc[f] # "scan"
        /\ \E s \in {"call", "idle", "lock", "adopt"} : fpc' = [fpc EXCEPT ![f] = s]
    BY <1>3 DEF BeginFetch, CallEnds, CallReverts, GetBestClient, Adopt, Goto
  <2>2. QED
    BY <2>1
<1>4. CASE UNCHANGED <<mu, fpc>>
  BY <1>4
<1>5. QED
  BY <1>1, <1>2, <1>3, <1>4
     DEF Next, Prober, Probe, ProbeEnds, ProberStops, DialFails, Install, CloseStopChan,
         Fetcher, Refresher, CopyClients, Refresh, fetchVars, vars

\* At most one switch tests endpoints at a time, and it is the one that
\* holds the lock; no way to end a switch keeps it.
THEOREM MutexCorrect == Spec => []MutexHeld
<1>1. Init => MutexHeld
  BY SwitcherAssumption DEF Init, MutexHeld
<1>2. TypeOK /\ MutexHeld /\ [Next]_vars => MutexHeld'
  BY MutexStep
<1>3. QED
  BY <1>1, <1>2, TypeCorrect, PTL DEF Spec

\* The table is written by the prober while nobody holds the lock, or by the
\* switch that holds it: nothing changes it while a switch tests endpoints.
THEOREM TableWrittenLocked ==
  Spec => [][clientUse' # clientUse
               => \/ mu = Free /\ \E n \in Networks : Install(n)
                  \/ mu \in Fetchers /\ \E e \in Endpoints : Switch(mu, e)]_vars
<1>1. ASSUME MutexHeld, Next, clientUse' # clientUse
      PROVE  \/ mu = Free /\ \E n \in Networks : Install(n)
             \/ mu \in Fetchers /\ \E e \in Endpoints : Switch(mu, e)
  <2>1. ASSUME NEW f \in Fetchers, NEW e \in Endpoints, Switch(f, e)
        PROVE  mu = f
    BY <1>1, <2>1 DEF Switch, Goto, MutexHeld
  <2>2. ASSUME NEW f \in Fetchers, Fetcher(f)
        PROVE  \E e \in Endpoints : Switch(f, e)
    BY <1>1, <2>2 DEF Fetcher, BeginFetch, CallEnds, CallReverts, LockForSwitch,
                      SwitchAnswered, SwitchFails, GetBestClient, Adopt
  <2>3. Prober => \E n \in Networks : Install(n)
    BY <1>1 DEF Prober, Probe, ProbeEnds, ProberStops, DialFails
  <2>4. ~CloseStopChan /\ ~Refresher
    BY <1>1 DEF CloseStopChan, Refresher, CopyClients, Refresh
  <2>5. CASE Prober
    BY <2>3, <2>5 DEF Install
  <2>6. CASE \E f \in Fetchers : Fetcher(f)
    BY <2>1, <2>2, <2>6
  <2>7. QED
    BY <1>1, <2>4, <2>5, <2>6 DEF Next
<1>2. MutexHeld /\ [Next]_vars
        => [clientUse' # clientUse
              => \/ mu = Free /\ \E n \in Networks : Install(n)
                 \/ mu \in Fetchers /\ \E e \in Endpoints : Switch(mu, e)]_vars
  BY <1>1
<1>3. QED
  BY <1>2, MutexCorrect, PTL DEF Spec

-----------------------------------------------------------------------------
(* Why a fetch ends, so far as it does not depend on fairness *)

\* The attempts of a fetch that are left, this one included.
TriesLeft(f) == MaxRetries + 1 - attempt[f]

\* How many steps a fetch can still take.
Effort(f) == CASE fpc[f] = "idle"  -> 0
               [] fpc[f] = "call"  -> 5 * TriesLeft(f) + 1
               [] fpc[f] = "lock"  -> 5 * TriesLeft(f)
               [] fpc[f] = "scan"  -> 5 * TriesLeft(f) - 1
               [] fpc[f] = "best"  -> 5 * TriesLeft(f) - 2
               [] fpc[f] = "adopt" -> 5 * TriesLeft(f) - 3

\* It is bounded by the number of retries.
EffortBounded == \A f \in Fetchers : Effort(f) \in 0 .. 5 * MaxRetries + 1

\* Whoever else writes the tables, no step gives a fetch more to do, and each
\* of its own leaves it less.
EffortFalls ==
  [][\A f \in Fetchers : fpc[f] # "idle" => /\ Effort(f)' <= Effort(f)
                                            /\ Fetcher(f) => Effort(f)' < Effort(f)]_vars

\* A fetch that goes on is in its first attempt or in a later one.
Attempting == \A f \in Fetchers : fpc[f] # "idle" => attempt[f] >= 1

\* Attempts are counted from 1.
LEMMA AttemptingStep ==
  ASSUME TypeOK, Attempting, [Next]_vars
  PROVE  Attempting'
<1> SUFFICES ASSUME NEW f \in Fetchers, fpc'[f] # "idle"
             PROVE  attempt'[f] >= 1
  BY DEF Attempting
<1> USE DEF Attempting, TypeOK
<1>1. CASE fpc'[f] = fpc[f] /\ client'[f] = client[f] /\ attempt'[f] = attempt[f]
  BY <1>1
<1>2. CASE Fetcher(f)
  BY <1>2 DEF Fetcher, BeginFetch, CallEnds, CallReverts, LockForSwitch,
              SwitchAnswered, Switch, SwitchFails, GetBestClient, Adopt, Reset, Goto
<1>3. CASE UNCHANGED vars
  BY <1>3 DEF vars, fetchVars
<1>4. QED
  BY <1>1, <1>2, <1>3, FetcherSteps

\* The effort of a fetch is a number within the bound.
LEMMA EffortType ==
  ASSUME TypeOK, AttemptLeft, Attempting
  PROVE  EffortBounded
<1> SUFFICES ASSUME NEW f \in Fetchers
             PROVE  Effort(f) \in 0 .. 5 * MaxRetries + 1
  BY DEF EffortBounded
<1>1. /\ fpc[f] \in {"idle", "call", "lock", "scan", "best", "adopt"}
      /\ attempt[f] \in 0 .. MaxRetries + 1 /\ MaxRetries \in Nat
  BY SwitcherAssumption DEF TypeOK
<1>2. /\ fpc[f] # "idle" => attempt[f] >= 1
      /\ fpc[f] \in {"lock", "scan", "best", "adopt"} => attempt[f] <= MaxRetries
  BY DEF Attempting, AttemptLeft
<1>3. QED
  BY <1>1, <1>2 DEF Effort, TriesLeft

\* The steps of a fetch leave it less to do.
LEMMA FetchStep ==
  ASSUME TypeOK, AttemptLeft, Attempting, NEW f \in Fetchers, fpc[f] # "idle", Fetcher(f)
  PROVE  Effort(f)' < Effort(f)
<1>1. attempt[f] \in 1 .. MaxRetries + 1 /\ MaxRetries \in Nat
  BY SwitcherAssumption DEF TypeOK, Attempting
<1>2. fpc[f] \in {"lock", "scan", "best", "adopt"} => attempt[f] <= MaxRetries
  BY DEF AttemptLeft
<1> USE DEF TypeOK, Effort, TriesLeft
<1>3. CASE fpc'[f] = "idle"
  <2>1. fpc[f] \in {"call", "scan", "best"}
    BY <1>3 DEF Fetcher, BeginFetch, CallEnds, CallReverts, LockForSwitch,
                SwitchAnswered, Switch, SwitchFails, GetBestClient, Adopt, Goto
  <2>2. QED
    BY <1>1, <1>2, <1>3, <2>1
<1>4. CASE /\ attempt'[f] = attempt[f]
           /\ <<fpc[f], fpc'[f]>> \in {<<"call", "lock">>, <<"lock", "scan">>,
                                       <<"scan", "best">>, <<"best", "adopt">>}
  BY <1>1, <1>4
<1>5. CASE Adopt(f)
  <2>1. fpc[f] = "adopt" /\ fpc'[f] = "call" /\ attempt'[f] = attempt[f] + 1
    BY <1>5 DEF Adopt, Goto
  <2>2. QED
    BY <1>1, <1>2, <2>1
<1>6. QED
  BY <1>3, <1>4, <1>5
     DEF Fetcher, BeginFetch, CallEnds, CallReverts, LockForSwitch, SwitchAnswered,
         Switch, SwitchFails, GetBestClient, Goto

\* A fetch never switches for ever: it takes at most 5 * MaxRetries + 1 steps
\* after its client was looked up, whatever the prober, the refresher and the
\* other fetchers do to the tables meanwhile.
THEOREM FetchesAreFinite == Spec => []EffortBounded /\ EffortFalls
<1>1. Init => Attempting
  BY DEF Init, Attempting
<1>2. TypeOK /\ Attempting /\ [Next]_vars => Attempting'
  BY AttemptingStep
<1>3. IInv => TypeOK /\ AttemptLeft
  BY DEF IInv
<1>4. TypeOK /\ AttemptLeft /\ Attempting => EffortBounded
  BY EffortType
<1>5. ASSUME TypeOK, AttemptLeft, Attempting, EffortBounded, EffortBounded', Next,
             NEW f \in Fetchers, fpc[f] # "idle"
      PROVE  Effort(f)' <= Effort(f) /\ (Fetcher(f) => Effort(f)' < Effort(f))
  <2>1. Effort(f) \in Int /\ Effort(f)' \in Int
    BY <1>5, SwitcherAssumption DEF EffortBounded
  <2>2. CASE ~Fetcher(f)
    <3>1. Effort(f)' = Effort(f)
      BY <1>5, <2>2, FetcherSteps DEF Effort, TriesLeft
    <3>2. QED
      BY <2>1, <2>2, <3>1
  <2>3. CASE Fetcher(f)
    <3>1. Effort(f)' < Effort(f)
      BY <1>5, <2>3, FetchStep
    <3>2. QED
      BY <2>1, <3>1
  <2>4. QED
    BY <2>2, <2>3
<1>6. TypeOK /\ AttemptLeft /\ Attempting /\ EffortBounded /\ EffortBounded' /\ [Next]_vars
        => [\A f \in Fetchers : fpc[f] # "idle" => /\ Effort(f)' <= Effort(f)
                                                   /\ Fetcher(f) => Effort(f)' < Effort(f)]_vars
  BY <1>5
<1>7. QED
  BY <1>1, <1>2, <1>3, <1>4, <1>6, Invariance, PTL DEF Spec, EffortFalls
=============================================================================
