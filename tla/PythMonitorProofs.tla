-------------------------- MODULE PythMonitorProofs --------------------------
(***************************************************************************)
(* Proofs about HermesClient and PythMonitor, for any timeouts, number of  *)
(* retries, first backoffs and interval.  The argument is an account: each *)
(* tick that passes during a call is taken from the context or from a      *)
(* sleep, and the sleeps of a call grow as Sleeps does.                    *)
(***************************************************************************)
EXTENDS PythMonitor, WellFoundedInduction, TLAPS

-----------------------------------------------------------------------------
(* The sleeps *)

\* The next sleep comes on top of those before.
LEMMA NextSleep ==
  ASSUME NEW n \in 0 .. HttpRetries, n < HttpRetries
  PROVE  /\ n + 1 \in 0 .. HttpRetries
         /\ Sleeps[n] \in Nat /\ Sleeps[n + 1] \in Nat
         /\ Sleeps[n + 1] = 2 * Sleeps[n] + MaxBackoff
<1>1. n + 1 \in 1 .. HttpRetries /\ (n + 1) - 1 = n
  BY HermesAssumption
<1>2. QED
  BY <1>1, HermesAssumption, SleepsAssumption

\* More sleeps are not shorter.  Among the numbers of sleeps longer than
\* all the retries can make, the largest would have a successor.
LEMMA AllSleeps ==
  ASSUME NEW n \in 0 .. HttpRetries
  PROVE  Sleeps[n] <= Sleeps[HttpRetries]
<1> DEFINE T == {j \in 0 .. HttpRetries : Sleeps[HttpRetries - j] > Sleeps[HttpRetries]}
<1>1. SUFFICES ASSUME Sleeps[n] > Sleeps[HttpRetries]
               PROVE  FALSE
  BY HermesAssumption, SleepsAssumption
<1>2. HttpRetries - n \in 0 .. HttpRetries /\ HttpRetries - (HttpRetries - n) = n
  BY HermesAssumption
<1>3. T # {} /\ T \subseteq Nat
  <2>1. HttpRetries - n \in T
    BY <1>1, <1>2
  <2>2. \A j \in 0 .. HttpRetries : j \in Nat
    BY HermesAssumption
  <2>3. QED
    BY <2>1, <2>2
<1> DEFINE R == {ss \in Nat \X Nat : ss[1] < ss[2]}
<1>0. IsWellFoundedOn(R, Nat)
  BY NatLessThanWellFounded DEF OpToRel
<1>4. PICK j \in T : \A i \in T : ~(<<i, j>> \in R)
  BY <1>0, <1>3, WFMin
<1>5. j \in 0 .. HttpRetries /\ j # 0
  BY <1>4, HermesAssumption, SleepsAssumption
<1>6. /\ j - 1 \in 0 .. HttpRetries /\ HttpRetries - (j - 1) = HttpRetries - j + 1
      /\ HttpRetries - j \in 0 .. HttpRetries /\ HttpRetries - j < HttpRetries
  BY <1>5, HermesAssumption
<1>7. Sleeps[HttpRetries - (j - 1)] = 2 * Sleeps[HttpRetries - j] + MaxBackoff
      /\ Sleeps[HttpRetries - j] \in Nat
  BY <1>6, NextSleep
<1>8. j - 1 \in T
  BY <1>4, <1>6, <1>7, HermesAssumption, SleepsAssumption
<1>9. <<j - 1, j>> \in R
  BY <1>5
<1>10. QED
  BY <1>4, <1>8, <1>9

-----------------------------------------------------------------------------
(* The account of a call *)

\* The steps of a call, the passage of time among them, keep its types.
LEMMA CallTypeStep ==
  ASSUME CallTypeOK, CallBudget,
         Begin \/ Request \/ (request # "idle" /\ Return) \/ Wait \/ UNCHANGED callVars
  PROVE  CallTypeOK'
<1> USE HermesAssumption DEF CallTypeOK
<1>1. CASE Begin
  BY <1>1 DEF Begin
<1>2. CASE SendFails \/ RefusalRead
  BY <1>2 DEF SendFails, RefusalRead, GiveUpOrSleep
<1>3. CASE Accepted \/ Refused \/ Decoded \/ DecodeFails
  BY <1>3 DEF Accepted, Refused, Decoded, DecodeFails, Step
<1>4. CASE Retry
  BY <1>4 DEF Retry, CallBudget, Slept
<1>5. CASE Return
  BY <1>5 DEF Return
<1>6. CASE Wait
  BY <1>6 DEF Wait, OneLess
<1>7. CASE UNCHANGED callVars
  BY <1>7 DEF callVars
<1>8. QED
  BY <1>1, <1>2, <1>3, <1>4, <1>5, <1>6, <1>7 DEF Request

\* A call has slept a number of times, each for some time.
LEMMA SleptType ==
  ASSUME CallTypeOK, CallBudget, request # "idle"
  PROVE  Slept \in 0 .. HttpRetries /\ Sleeps[Slept] \in Nat
BY SleepsAssumption DEF CallBudget

\* And they keep within its budget.
LEMMA CallBudgetStep ==
  ASSUME CallTypeOK, CallBudget,
         Begin \/ Request \/ (request # "idle" /\ Return) \/ Wait \/ UNCHANGED callVars
  PROVE  CallBudget'
<1> USE HermesAssumption DEF CallTypeOK
<1>1. CASE Begin
  <2>1. /\ request' = "send" /\ attempt' = 0 /\ timer' = Timeout
        /\ ctxLeft' = CtxTimeout /\ backoff' \in 0 .. MaxBackoff /\ elapsed' = 0
    BY <1>1 DEF Begin
  <2>2. Slept' = 0 /\ SleepLeft' = 0 /\ Sleeps[0] = 0
    BY <2>1, SleepsAssumption DEF Slept, SleepLeft
  <2>3. QED
    BY <2>1, <2>2 DEF CallBudget
<1>2. CASE GiveUpOrSleep /\ request \in {"send", "refusal"}
  <2>1. Slept = attempt /\ SleepLeft = 0 /\ attempt \in 0 .. HttpRetries
    BY <1>2 DEF Slept, SleepLeft
  <2>2. CASE attempt < HttpRetries
    <3>1. /\ request' = "sleep" /\ timer' = backoff /\ backoff' = 2 * backoff
          /\ attempt' = attempt /\ ctxLeft' = ctxLeft /\ elapsed' = elapsed
      BY <1>2, <2>2 DEF GiveUpOrSleep
    <3>2. Slept' = attempt + 1 /\ SleepLeft' = backoff
      BY <3>1 DEF Slept, SleepLeft
    <3>3. /\ attempt + 1 \in 0 .. HttpRetries
          /\ Sleeps[attempt] \in Nat
          /\ Sleeps[attempt + 1] = 2 * Sleeps[attempt] + MaxBackoff
      BY <2>1, <2>2, NextSleep
    <3>4. /\ backoff <= Sleeps[attempt] + MaxBackoff
          /\ elapsed + ctxLeft <= CtxTimeout + Sleeps[attempt]
          /\ elapsed + timer <= (attempt + 1) * Timeout + Sleeps[attempt]
      BY <1>2, <2>1 DEF CallBudget
    <3>5. (attempt + 1) * Timeout \in Nat
      BY <2>1
    <3>6. QED
      BY <3>1, <3>2, <3>3, <3>4, <3>5 DEF CallBudget
  <2>3. CASE ~(attempt < HttpRetries)
    <3>1. /\ request' = "failed"
          /\ UNCHANGED <<attempt, timer, ctxLeft, backoff, elapsed>>
      BY <1>2, <2>3 DEF GiveUpOrSleep
    <3>2. Slept' = Slept /\ SleepLeft' = SleepLeft
      BY <2>1, <3>1 DEF Slept, SleepLeft
    <3>3. QED
      BY <1>2, <3>1, <3>2 DEF CallBudget
  <2>4. QED
    BY <2>2, <2>3
<1>3. CASE Accepted \/ Refused \/ Decoded \/ DecodeFails
  <2>1. /\ request \in {"send", "body"} /\ request' \in {"body", "refusal", "ok", "failed"}
        /\ UNCHANGED <<attempt, timer, ctxLeft, backoff, elapsed>>
    BY <1>3 DEF Accepted, Refused, Decoded, DecodeFails, Step
  <2>2. Slept' = Slept /\ SleepLeft' = SleepLeft
    BY <2>1 DEF Slept, SleepLeft
  <2>3. QED
    BY <2>1, <2>2 DEF CallBudget
<1>4. CASE Retry
  <2>1. /\ request = "sleep" /\ timer = 0 /\ request' = "send"
        /\ attempt' = attempt + 1 /\ timer' = Timeout
        /\ UNCHANGED <<ctxLeft, backoff, elapsed>>
    BY <1>4 DEF Retry
  <2>2. Slept' = Slept /\ SleepLeft' = 0 /\ SleepLeft = 0
    BY <2>1 DEF Slept, SleepLeft
  <2>3. Slept \in 0 .. HttpRetries /\ Sleeps[Slept] \in Nat
    BY <2>1, SleptType
  <2>4. (attempt + 1 + 1) * Timeout = (attempt + 1) * Timeout + Timeout
        /\ (attempt + 1) * Timeout \in Nat
    OBVIOUS
  <2>5. elapsed <= (attempt + 1) * Timeout + Sleeps[Slept]
    BY <2>1 DEF CallBudget
  <2>6. elapsed' + timer' <= (attempt' + 1) * Timeout + Sleeps[Slept]
    BY <2>1, <2>3, <2>4, <2>5
  <2>7. QED
    BY <2>1, <2>2, <2>6 DEF CallBudget
<1>5. CASE Return
  BY <1>5 DEF Return, CallBudget
<1>6. CASE Wait
  <2>1. CASE request = "idle"
    BY <1>6, <2>1 DEF Wait, CallBudget
  <2>2. CASE request # "idle"
    <3>1. /\ UNCHANGED <<request, attempt, backoff>> /\ timer' = OneLess(timer)
          /\ ctxLeft' = OneLess(ctxLeft) /\ elapsed' = elapsed + 1 /\ timer > 0
          /\ request # "sleep" => ctxLeft > 0
      BY <1>6, <2>2 DEF Wait, MayWait, InTime
    <3>2. Slept' = Slept
      BY <3>1 DEF Slept
    <3>3. Slept \in 0 .. HttpRetries /\ Sleeps[Slept] \in Nat
      BY <2>2, SleptType
    <3>4. elapsed' + timer' = elapsed + timer
      BY <3>1 DEF OneLess
    <3>5. elapsed' + SleepLeft' + ctxLeft' <= elapsed + SleepLeft + ctxLeft
      BY <3>1 DEF OneLess, SleepLeft
    <3>6. SleepLeft \in Nat /\ SleepLeft' \in Nat /\ ctxLeft' \in Nat /\ elapsed' \in Nat
      BY <3>1 DEF OneLess, SleepLeft
    <3>7. QED
      BY <2>2, <3>1, <3>2, <3>3, <3>4, <3>5, <3>6 DEF CallBudget
  <2>3. QED
    BY <2>1, <2>2
<1>7. CASE UNCHANGED callVars
  BY <1>7 DEF callVars, CallBudget, Slept, SleepLeft
<1>8. QED
  BY <1>1, <1>2, <1>3, <1>4, <1>5, <1>6, <1>7 DEF Request, SendFails, RefusalRead

\* What the account says about the time of a call.
LEMMA BudgetBounds == CallTypeOK /\ CallBudget /\ request # "idle" => CallBounded
<1> SUFFICES ASSUME CallTypeOK, CallBudget, request # "idle"
             PROVE  CallBounded
  OBVIOUS
<1>1. /\ Slept \in 0 .. HttpRetries /\ Sleeps[Slept] \in Nat
      /\ Sleeps[Slept] <= Sleeps[HttpRetries] /\ Sleeps[HttpRetries] \in Nat
  BY SleptType, AllSleeps, HermesAssumption, SleepsAssumption
<1>2. SleepLeft \in Nat
  BY DEF SleepLeft, CallTypeOK
<1>3. elapsed <= CtxTimeout + Sleeps[HttpRetries]
  BY <1>1, <1>2, HermesAssumption DEF CallBudget, CallTypeOK
<1>4. attempt + 1 <= HttpRetries + 1
  BY HermesAssumption DEF CallTypeOK
<1>5. (attempt + 1) * Timeout <= (HttpRetries + 1) * Timeout
  <2>1. HttpRetries - attempt \in Nat
    BY HermesAssumption DEF CallTypeOK
  <2>2. (HttpRetries + 1) * Timeout
          = (attempt + 1) * Timeout + (HttpRetries - attempt) * Timeout
    BY HermesAssumption DEF CallTypeOK
  <2>3. (HttpRetries - attempt) * Timeout >= 0
    BY <2>1, HermesAssumption
  <2>4. (attempt + 1) * Timeout \in Int /\ (HttpRetries - attempt) * Timeout \in Int
    BY HermesAssumption DEF CallTypeOK
  <2>5. QED
    BY <2>2, <2>3, <2>4
<1>6. (attempt + 1) * Timeout \in Int /\ (HttpRetries + 1) * Timeout \in Int
  BY HermesAssumption DEF CallTypeOK
<1>7. elapsed <= (HttpRetries + 1) * Timeout + Sleeps[HttpRetries]
  BY <1>1, <1>5, <1>6 DEF CallBudget, CallTypeOK
<1>8. QED
  BY <1>3, <1>7 DEF CallBounded, MaxCall, MaxSleep

\* The bound of a call holds after the step as well.
LEMMA BudgetNext ==
  ASSUME CallTypeOK', CallBudget', (request # "idle")'
  PROVE  CallBounded'
BY BudgetBounds, PTL

\* No call is between two others.
LEMMA IdleBounded ==
  ASSUME CallTypeOK, IdleCall, request = "idle"
  PROVE  CallBounded
<1>1. Sleeps[HttpRetries] \in Nat
  BY HermesAssumption, SleepsAssumption
<1>2. (HttpRetries + 1) * Timeout \in Nat
  BY HermesAssumption
<1>3. QED
  BY <1>1, <1>2, HermesAssumption DEF IdleCall, CallBounded, MaxCall, MaxSleep

-----------------------------------------------------------------------------
(* The monitor *)

\* A fetch begins a call when there are feeds, and does nothing else.
LEMMA FetchStep ==
  ASSUME Fetch
  PROVE  /\ sinceFetch' = 0
         /\ \/ loop' = "select" /\ UNCHANGED callVars
            \/ loop' = "fetch" /\ Begin
BY DEF Fetch

\* What a step is to the call.
LEMMA CallSteps ==
  ASSUME TypeOK, Next
  PROVE  Begin \/ Request \/ (request # "idle" /\ Return) \/ Wait \/ UNCHANGED callVars
BY DEF TypeOK, Next, Monitor, Start, Fetch, FetchReturns, Process, ProcessPanics,
       SelectTick, SelectStop, TimePasses, Main, MainReceives, MonitorStop, Exit,
       StatusReceives, Signal, Return

\* Requests happen in the middle of a call.
LEMMA RequestStep ==
  ASSUME Request
  PROVE  request # "idle" /\ request' # "idle" /\ elapsed' = elapsed
BY DEF Request, SendFails, Accepted, Refused, RefusalRead, Decoded, DecodeFails, Retry,
       GiveUpOrSleep, Step

\* No step takes a variable out of its type.
LEMMA TypeStep ==
  ASSUME TypeOK, CallBudget, SignalsCounted, Next
  PROVE  TypeOK'
<1> USE PythAssumption DEF TypeOK
<1>1. CallTypeOK'
  BY CallSteps, CallTypeStep
<1>2. CASE Start \/ SelectTick
  <2>1. /\ loop' \in {"select", "fetch"} /\ request = "idle" /\ sinceFetch' = 0
        /\ request' # "idle" <=> loop' = "fetch"
    BY <1>2, FetchStep DEF Start, SelectTick, Begin, callVars
  <2>2. tickIn' \in {tickIn, Interval} /\ tick' \in {tick, FALSE}
    BY <1>2 DEF Start, SelectTick
  <2>3. UNCHANGED signalVars
    BY <1>2 DEF Start, SelectTick
  <2>4. tickIn' \in 1 .. Interval
    BY <2>2
  <2>5. tick' \in BOOLEAN
    BY <2>2
  <2>6. QED
    BY <1>1, <2>1, <2>3, <2>4, <2>5 DEF signalVars
<1>3. CASE FetchReturns
  BY <1>1, <1>3 DEF FetchReturns, Return, tickerVars, signalVars
<1>4. CASE Process \/ ProcessPanics \/ SelectStop
  BY <1>1, <1>4 DEF Process, ProcessPanics, SelectStop, callVars, tickerVars, signalVars
<1>5. CASE Request /\ UNCHANGED <<loop, tickerVars, signalVars>>
  BY <1>1, <1>5, RequestStep DEF tickerVars, signalVars
<1>6. CASE TimePasses
  <2>1. request' = request /\ loop' = loop /\ UNCHANGED signalVars
    BY <1>6 DEF TimePasses, Wait
  <2>2. tickIn' \in 1 .. Interval /\ tick' \in BOOLEAN /\ sinceFetch' \in Nat
    BY <1>6 DEF TimePasses
  <2>3. QED
    BY <1>1, <2>1, <2>2 DEF signalVars
<1>7. CASE Main \/ StatusReceives \/ Signal
  <2>1. /\ UNCHANGED <<callVars, loop, tickerVars>>
        /\ main' \in {"wait", "stop", "return", "exited", "crashed"}
        /\ status' \in {"wait", "done"} /\ stopped' \in BOOLEAN
    BY <1>7 DEF Main, MainReceives, MonitorStop, Exit, StatusReceives, Signal, Receive
  <2>2. sigChan' \in {0, 1} /\ signals' \in 0 .. MaxSignals /\ received' \in 0 .. MaxSignals
    BY <1>7 DEF Main, MainReceives, MonitorStop, Exit, StatusReceives, Signal, Receive,
                SignalsCounted
  <2>3. QED
    BY <1>1, <2>1, <2>2 DEF callVars, tickerVars
<1>8. QED
  BY <1>2, <1>3, <1>4, <1>5, <1>6, <1>7 DEF Next, Monitor

\* Between two calls nothing is left of the first.
LEMMA IdleStep ==
  ASSUME TypeOK, IdleCall, Next
  PROVE  IdleCall'
<1>1. CASE Begin \/ Return
  BY <1>1 DEF Begin, Return, IdleCall
<1>2. CASE Wait
  BY <1>2 DEF Wait, IdleCall
<1>3. QED
  BY <1>1, <1>2, CallSteps, RequestStep DEF IdleCall, callVars

\* Every step counts the signals right.
LEMMA SignalStep ==
  ASSUME TypeOK, SignalsCounted, Next
  PROVE  SignalsCounted'
BY DEF TypeOK, SignalsCounted, Next, Monitor, Start, FetchReturns, Process,
       ProcessPanics, SelectTick, SelectStop, TimePasses, Main, MainReceives,
       MonitorStop, Exit, StatusReceives, Signal, Receive, signalVars

\* The ticker and the call run at the same time as sinceFetch.
LEMMA PaceStep ==
  ASSUME TypeOK, CallBudget, Pace, PollsInTime, Next
  PROVE  Pace' /\ PollsInTime'
<1> USE PythAssumption
<1>0. MaxCall \in Nat
  BY HermesAssumption, SleepsAssumption DEF MaxCall, MaxSleep
<1>1. CASE Start \/ SelectTick
  <2>1. /\ sinceFetch' = 0 /\ tickIn' \in 1 .. Interval
        /\ loop' = "fetch" => elapsed' = 0
    BY <1>1, FetchStep DEF Start, SelectTick, Begin, TypeOK
  <2>2. Pace'
    <3>1. tickIn' = tickIn \/ tickIn' = Interval
      BY <1>1 DEF Start, SelectTick
    <3>2. sinceFetch' + tickIn' <= Interval
      <4>1. CASE tickIn' = tickIn
        BY <2>1, <4>1 DEF TypeOK
      <4>2. CASE tickIn' = Interval
        BY <2>1, <4>2
      <4>3. QED
        BY <3>1, <4>1, <4>2
    <3>3. loop' = "fetch" => sinceFetch' = elapsed'
      BY <2>1
    <3>4. QED
      BY <3>2, <3>3 DEF Pace
  <2>3. PollsInTime'
    BY <2>1 DEF PollsInTime
  <2>4. QED
    BY <2>2, <2>3
<1>2. CASE FetchReturns
  BY <1>2 DEF FetchReturns, tickerVars, Pace, PollsInTime
<1>3. CASE Process \/ ProcessPanics \/ SelectStop
  BY <1>3 DEF Process, ProcessPanics, SelectStop, callVars, tickerVars, Pace, PollsInTime
<1>4. CASE Request /\ UNCHANGED <<loop, tickerVars, signalVars>>
  BY <1>4, RequestStep DEF tickerVars, Pace, PollsInTime
<1>5. CASE TimePasses
  <2>1. /\ sinceFetch' = sinceFetch + 1 /\ loop' = loop
        /\ tickIn' = IF tickIn = 1 THEN Interval ELSE tickIn - 1
        /\ tick' = (tick \/ tickIn = 1)
        /\ elapsed' = IF request = "idle" THEN elapsed ELSE elapsed + 1
    BY <1>5 DEF TimePasses, Wait
  <2>2. Pace'
    <3>1. ~tick' => ~tick /\ tickIn # 1
      BY <2>1
    <3>2. ~tick' => sinceFetch' + tickIn' <= Interval
      BY <2>1, <3>1 DEF TypeOK, Pace
    <3>3. loop' = "fetch" => sinceFetch' = elapsed'
      BY <2>1 DEF TypeOK, Pace
    <3>4. QED
      BY <3>2, <3>3 DEF Pace
  <2>3. CASE loop = "fetch"
    <3>1. CallTypeOK' /\ CallBudget' /\ request' # "idle"
      BY <1>5, <2>3, CallTypeStep, CallBudgetStep DEF TimePasses, Wait, TypeOK
    <3>2. CallBounded'
      BY <3>1, BudgetNext
    <3>3. QED
      BY <2>1, <2>2, <2>3, <3>2 DEF CallBounded, Pace, PollsInTime
  <2>4. CASE loop # "fetch"
    BY <1>5, <2>1, <2>2, <2>4 DEF TimePasses, TypeOK, Pace, PollsInTime
  <2>5. QED
    BY <2>2, <2>3, <2>4
<1>6. CASE Main \/ StatusReceives \/ Signal
  BY <1>6 DEF Main, MainReceives, MonitorStop, Exit, StatusReceives, Signal,
              callVars, tickerVars, Pace, PollsInTime
<1>7. QED
  BY <1>1, <1>2, <1>3, <1>4, <1>5, <1>6 DEF Next, Monitor

-----------------------------------------------------------------------------
(* Theorems *)

\* The inductive invariant holds in every reachable state.
THEOREM Invariance == Spec => []IInv
<1>1. Init => IInv
  <2> SUFFICES ASSUME Init
               PROVE  IInv
    OBVIOUS
  <2>1. CallTypeOK /\ IdleCall /\ CallBudget
    BY HermesAssumption DEF Init, NoCall, CallTypeOK, IdleCall, CallBudget
  <2>2. TypeOK
    <3>1. tickIn \in 1 .. Interval /\ 0 \in 0 .. MaxSignals
      BY PythAssumption DEF Init
    <3>2. QED
      BY <2>1, <3>1 DEF Init, NoCall, TypeOK
  <2>3. Pace /\ PollsInTime /\ SignalsCounted
    BY PythAssumption DEF Init, NoCall, Pace, PollsInTime, SignalsCounted
  <2>4. QED
    BY <2>1, <2>2, <2>3 DEF IInv
<1>2. IInv /\ Next => IInv'
  BY TypeStep, IdleStep, CallSteps, CallBudgetStep, PaceStep, SignalStep DEF IInv, TypeOK
<1>3. IInv /\ UNCHANGED vars => IInv'
  BY DEF vars, callVars, tickerVars, signalVars, IInv, TypeOK, CallTypeOK, IdleCall, CallBudget,
         Slept, SleepLeft, Pace, PollsInTime, SignalsCounted
<1>4. QED
  BY <1>1, <1>2, <1>3, PTL DEF Spec

\* No attempt is made beyond the retries, a call is under way exactly while the
\* monitor fetches, and no more signals are received than were sent.
THEOREM TypeCorrect == Spec => []TypeOK
BY Invariance, PTL DEF IInv

\* A call is over after its context and its sleeps, and after its attempts and
\* their sleeps, for any timeouts and any number of retries.
THEOREM CallsAreBounded == Spec => []CallBounded
<1>1. IInv => CallBounded
  BY BudgetBounds, IdleBounded DEF IInv, TypeOK
<1>2. QED
  BY <1>1, Invariance, PTL

\* Polling keeps its pace: the time from one fetch to the next is an interval
\* or the time of a call.
THEOREM PollingInTime == Spec => []PollsInTime
BY Invariance, PTL DEF IInv

-----------------------------------------------------------------------------
(* What a fetch has left to do *)

\* The steps of a call that its present attempt and the retries leave: an
\* attempt is sent, answered, followed by a sleep, and repeated.
StepsLeft == LET left == HttpRetries - attempt IN
  CASE request = "send"                -> 4 * left + 4
    [] request \in {"body", "refusal"} -> 4 * left + 3
    [] request = "sleep"               -> 4 * left + 2
    [] request \in {"ok", "failed"}    -> 1
    [] request = "idle"                -> 0

\* The time the call may still take counts as well.
Effort == (MaxCall - elapsed) + StepsLeft

\* What a fetch has left to do is bounded.
EffortBounded == Effort \in 0 .. MaxCall + 4 * (HttpRetries + 1)

\* Whatever its call does or waits for leaves it less: what FetchesEnd says of
\* every fetch, but for the fairness of the scheduler.
EffortFalls ==
  [][loop = "fetch" /\ loop' = "fetch" => UNCHANGED callVars \/ Effort' < Effort]_vars

\* The steps left are a number within the bound.
LEMMA StepsType ==
  ASSUME CallTypeOK
  PROVE  StepsLeft \in 0 .. 4 * (HttpRetries + 1)
<1>1. HttpRetries - attempt \in 0 .. HttpRetries
  BY HermesAssumption DEF CallTypeOK
<1>2. QED
  BY <1>1, HermesAssumption DEF CallTypeOK, StepsLeft

\* And so is the effort.
LEMMA EffortType ==
  ASSUME CallTypeOK, CallBounded
  PROVE  EffortBounded
<1>1. MaxCall \in Nat /\ elapsed \in Nat /\ elapsed <= MaxCall
  BY HermesAssumption, SleepsAssumption DEF MaxCall, MaxSleep, CallTypeOK, CallBounded
<1>2. QED
  BY <1>1, StepsType, HermesAssumption DEF Effort, EffortBounded

\* A step of the call leaves fewer steps and takes no time.
LEMMA RequestEffort ==
  ASSUME CallTypeOK, CallTypeOK', CallBudget, Request
  PROVE  StepsLeft' < StepsLeft /\ elapsed' = elapsed
<1>1. /\ HttpRetries \in Nat /\ attempt \in 0 .. HttpRetries
      /\ attempt' \in 0 .. HttpRetries
  BY HermesAssumption DEF CallTypeOK
<1>2. CASE GiveUpOrSleep /\ request \in {"send", "refusal"}
  BY <1>1, <1>2 DEF GiveUpOrSleep, StepsLeft
<1>3. CASE Accepted \/ Refused \/ Decoded \/ DecodeFails
  BY <1>1, <1>3 DEF Accepted, Refused, Decoded, DecodeFails, Step, StepsLeft
<1>4. CASE Retry
  BY <1>1, <1>4 DEF Retry, StepsLeft
<1>5. QED
  BY <1>2, <1>3, <1>4, RequestStep DEF Request, SendFails, RefusalRead

\* And a step of anybody else that changes the call is a tick of its time.
LEMMA FetchEffort ==
  ASSUME IInv, TypeOK', CallBounded, CallBounded', Next, loop = "fetch", loop' = "fetch"
  PROVE  UNCHANGED callVars \/ Effort' < Effort
<1>1. CallTypeOK /\ CallTypeOK' /\ request # "idle" /\ request' # "idle"
  BY DEF IInv, TypeOK
<1>2. /\ StepsLeft \in Nat /\ StepsLeft' \in Nat /\ elapsed \in Nat /\ elapsed' \in Nat
      /\ MaxCall \in Nat /\ MaxCall' = MaxCall
  <2>1. StepsLeft \in 0 .. 4 * (HttpRetries + 1)
    BY <1>1, StepsType
  <2>2. (CallTypeOK => StepsLeft \in 0 .. 4 * (HttpRetries + 1))'
    BY StepsType, PTL
  <2>3. QED
    BY <1>1, <2>1, <2>2, HermesAssumption, SleepsAssumption DEF MaxCall, MaxSleep, CallTypeOK
<1>3. CASE Request
  <2>1. StepsLeft' < StepsLeft /\ elapsed' = elapsed
    BY <1>1, <1>3, RequestEffort DEF IInv
  <2>2. Effort' = (MaxCall - elapsed) + StepsLeft'
    BY <1>2, <2>1 DEF Effort
  <2>3. Effort = (MaxCall - elapsed) + StepsLeft
    BY DEF Effort
  <2>4. (MaxCall - elapsed) \in Int /\ StepsLeft \in Int /\ StepsLeft' \in Int
    BY <1>2
  <2>5. QED
    BY <2>1, <2>2, <2>3, <2>4
<1>4. CASE Wait
  <2>1. /\ elapsed' = elapsed + 1 /\ request' = request /\ attempt' = attempt
    BY <1>1, <1>4 DEF Wait
  <2>2. StepsLeft' = StepsLeft
    BY <2>1 DEF StepsLeft
  <2>3. Effort' < Effort
    BY <1>2, <2>1, <2>2 DEF Effort
  <2>4. QED
    BY <2>3
<1>5. CASE Begin \/ Return
  BY <1>1, <1>5 DEF Begin, Return
<1>6. QED
  BY <1>3, <1>4, <1>5, CallSteps DEF IInv

\* A fetch is over after its retries and the time of its call, however
\* Hermes answers.
THEOREM FetchesAreFinite == Spec => []EffortBounded /\ EffortFalls
<1>1. IInv => TypeOK /\ CallTypeOK /\ CallBounded
  BY BudgetBounds, IdleBounded DEF IInv, TypeOK
<1>2. CallTypeOK /\ CallBounded => EffortBounded
  BY EffortType
<1>3. IInv /\ TypeOK' /\ CallBounded /\ CallBounded' /\ [Next]_vars
        => [loop = "fetch" /\ loop' = "fetch" => UNCHANGED callVars \/ Effort' < Effort]_vars
  BY FetchEffort
<1>4. QED
  BY <1>1, <1>2, <1>3, Invariance, PTL DEF Spec, EffortFalls

-----------------------------------------------------------------------------
(* The signals *)

\* Each of the two that listen takes one signal, and then no more.
SignalsHandled ==
  main # "crashed" => received = (IF main = "wait" THEN 0 ELSE 1)
                                 + (IF status = "wait" THEN 0 ELSE 1)

\* Of two signals received one reached the goroutine that stops the monitor,
\* although the status goroutine listens to the same channel (main.go:414 and
\* 461): what TwoSignalsStop rests on.
TwoReachMain == received >= 2 => main # "wait"

\* The program does not return before the monitor was told to stop.
StoppedFirst == main \in {"return", "exited"} => stopped

\* Every step counts the signals taken, and none returns too early.
LEMMA HandledStep ==
  ASSUME TypeOK, SignalsHandled, StoppedFirst, Next
  PROVE  SignalsHandled' /\ StoppedFirst'
<1> USE DEF SignalsHandled, StoppedFirst
<1>1. CASE UNCHANGED <<stopped, main, status, received>>
  BY <1>1
<1>2. CASE ProcessPanics
  BY <1>2 DEF ProcessPanics
<1>3. CASE MainReceives \/ StatusReceives
  BY <1>3 DEF MainReceives, StatusReceives, Receive, TypeOK
<1>4. CASE MonitorStop \/ Exit
  BY <1>4 DEF MonitorStop, Exit
<1>5. QED
  BY <1>1, <1>2, <1>3, <1>4 DEF Next, Monitor, Start, FetchReturns, Process,
     SelectTick, SelectStop, TimePasses, Main, Signal, signalVars

\* Two signals that were received have reached the goroutine that stops the
\* monitor, and the program returns only after it told the monitor to stop.
THEOREM SignalsReachMain == Spec => [](TwoReachMain /\ StoppedFirst)
<1>1. Init => SignalsHandled /\ StoppedFirst
  BY DEF Init, SignalsHandled, StoppedFirst
<1>2. TypeOK /\ SignalsHandled /\ StoppedFirst /\ [Next]_vars
        => (SignalsHandled /\ StoppedFirst)'
  BY HandledStep DEF vars, signalVars, SignalsHandled, StoppedFirst
<1>3. TypeOK /\ SignalsHandled => TwoReachMain
  BY DEF TypeOK, SignalsHandled, TwoReachMain
<1>4. QED
  BY <1>1, <1>2, <1>3, TypeCorrect, PTL DEF Spec
=============================================================================
