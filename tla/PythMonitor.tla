---------------------------- MODULE PythMonitor ----------------------------
(***************************************************************************)
(* The Pyth mode of the program: the monitor of pricefeed/pyth_monitor.go, *)
(* which polls Hermes with a ticker, and the goroutines of pyth_start in   *)
(* main.go that wait for a signal.  The call to Hermes is HermesClient's.  *)
(*                                                                         *)
(* Local work takes no time: time passes while the monitor waits for the   *)
(* call or for its ticker.  Prices go into a cache of their own, whose     *)
(* only writer is this monitor; what matters here is whether they can be   *)
(* printed.                                                                *)
(***************************************************************************)
EXTENDS HermesClient

CONSTANTS Feeds,       \* the price feeds of the configuration
          Interval,    \* of the ticker
          MaxSignals   \* bound of the model: signals sent to the process

ASSUME PythAssumption == Interval \in Nat \ {0} /\ MaxSignals \in Nat

VARIABLES loop,        \* where Start is
          tickIn,      \* ticks until the ticker fires
          tick,        \* a tick of the ticker waits in its channel
          sinceFetch,  \* ticks since the last fetch began
          stopped,     \* stopChan is closed
          main,        \* where pyth_start is; "crashed" is the end by a panic
          status,      \* where the status goroutine is
          sigChan,     \* signals in the channel, which has room for one
          signals,     \* signals sent to the process
          received     \* signals taken out of the channel, by anyone

tickerVars == <<tickIn, tick, sinceFetch>>
signalVars == <<stopped, main, status, sigChan, signals, received>>
vars == <<callVars, loop, tickerVars, signalVars>>

Init == /\ NoCall
        /\ loop = "new"
        /\ tickIn = Interval /\ tick = FALSE /\ sinceFetch = 0
        /\ stopped = FALSE /\ main = "wait" /\ status = "wait"
        /\ sigChan = 0 /\ signals = 0 /\ received = 0

Ended == main \in {"exited", "crashed"}

-----------------------------------------------------------------------------
(* The monitor *)

\* fetchPriceData, to the call of Hermes: without feeds it is an error.
Fetch == /\ sinceFetch' = 0
         /\ IF Feeds = {} THEN loop' = "select" /\ UNCHANGED callVars
                          ELSE loop' = "fetch" /\ Begin

Start == /\ loop = "new"
         /\ tickIn' = Interval
         /\ Fetch
         /\ UNCHANGED <<tick, signalVars>>

MutFetchRestartsTicker ==
  /\ loop = "fetch"
  /\ loop' = IF request = "ok" THEN "process" ELSE "select"
  /\ tickIn' = Interval /\ tick' = FALSE
  /\ Return
  /\ UNCHANGED <<sinceFetch, signalVars>>

FetchReturns == /\ loop = "fetch"
                /\ loop' = IF request = "ok" THEN "process" ELSE "select"
                /\ Return
                /\ UNCHANGED <<tickerVars, signalVars>>

\* Every price of the response is stored and printed.
Process == /\ loop = "process"
           /\ loop' = "select"
           /\ UNCHANGED <<callVars, tickerVars, signalVars>>

\* One of them is not a decimal number: its *big.Int is nil, and printing it
\* panics.  Nothing recovers.
ProcessPanics == /\ loop = "process"
                 /\ main' = "crashed"
                 /\ UNCHANGED <<callVars, loop, tickerVars, stopped, status,
                                sigChan, signals, received>>

SelectTick == /\ loop = "select"
              /\ tick
              /\ tick' = FALSE
              /\ Fetch
              /\ UNCHANGED <<tickIn, signalVars>>

SelectStop == /\ loop = "select"
              /\ stopped
              /\ loop' = "done"
              /\ UNCHANGED <<callVars, tickerVars, signalVars>>

\* A tick that nobody received makes the ticker drop the next.
TimePasses == /\ \/ loop = "fetch"
                 \/ loop = "select" /\ ~tick /\ ~stopped
              /\ Wait
              /\ tickIn' = IF tickIn = 1 THEN Interval ELSE tickIn - 1
              /\ tick' = (tick \/ tickIn = 1)
              /\ sinceFetch' = sinceFetch + 1
              /\ UNCHANGED <<loop, signalVars>>

-----------------------------------------------------------------------------
(* Signals *)

\* signal.Notify does not wait: with a signal in the channel the next is lost.
Signal == /\ signals < MaxSignals
          /\ signals' = signals + 1
          /\ sigChan' = 1
          /\ UNCHANGED <<callVars, loop, tickerVars, stopped, main, status, received>>

Receive == /\ sigChan = 1
           /\ sigChan' = 0
           /\ received' = received + 1

MainReceives == /\ main = "wait"
                /\ main' = "stop"
                /\ Receive
                /\ UNCHANGED <<callVars, loop, tickerVars, stopped, status, signals>>

MutStatusListens == /\ status = "wait"
                    /\ Receive
                    /\ UNCHANGED <<callVars, loop, tickerVars, stopped, main,
                                   status, signals>>

\* The goroutine that prints the status waits for the same channel, and ends.
StatusReceives == /\ status = "wait"
                  /\ status' = "done"
                  /\ Receive
                  /\ UNCHANGED <<callVars, loop, tickerVars, stopped, main, signals>>

MonitorStop == /\ main = "stop"
               /\ main' = "return"
               /\ stopped' = TRUE
               /\ UNCHANGED <<callVars, loop, tickerVars, status, sigChan, signals, received>>

Exit == /\ main = "return"
        /\ main' = "exited"
        /\ UNCHANGED <<callVars, loop, tickerVars, stopped, status, sigChan,
                       signals, received>>

-----------------------------------------------------------------------------
Monitor == \/ Start \/ FetchReturns \/ Process \/ ProcessPanics
           \/ SelectTick \/ SelectStop
           \/ Request /\ UNCHANGED <<loop, tickerVars, signalVars>>

Main == MainReceives \/ MonitorStop \/ Exit

Next == /\ ~Ended
        /\ Monitor \/ TimePasses \/ Main \/ StatusReceives \/ Signal

Spec == Init /\ [][Next]_vars

\* Goroutines are scheduled and time passes; nobody is bound to send a signal.
FairSpec == /\ Spec
            /\ WF_vars(~Ended /\ Monitor) /\ WF_vars(~Ended /\ TimePasses)
            /\ WF_vars(~Ended /\ Main) /\ WF_vars(~Ended /\ StatusReceives)

-----------------------------------------------------------------------------
(* Properties *)

TypeOK == /\ CallTypeOK
          /\ loop \in {"new", "fetch", "process", "select", "done"}
          /\ request # "idle" <=> loop = "fetch"
          /\ tickIn \in 1 .. Interval /\ tick \in BOOLEAN /\ stopped \in BOOLEAN
          /\ sinceFetch \in Nat
          /\ main \in {"wait", "stop", "return", "exited", "crashed"}
          /\ status \in {"wait", "done"}
          /\ sigChan \in {0, 1}
          /\ signals \in 0 .. MaxSignals /\ received \in 0 .. MaxSignals

\* Polling keeps its pace: a new fetch begins an interval after the one
\* before, or as soon as that one is over, so that a slow Hermes never costs
\* more than the time of one call ("Polling every %v", main.go:453).
PollsInTime == sinceFetch <= Interval \/ sinceFetch <= MaxCall

\* Until the ticker fires again the interval is not over, and a fetch lasts as
\* long as its call.
Pace == /\ ~tick => sinceFetch + tickIn <= Interval
        /\ loop = "fetch" => sinceFetch = elapsed

\* Every signal received was sent, and one in the channel is another one.
SignalsCounted == received + sigChan <= signals

\* The inductive invariant behind the safety properties.
IInv == TypeOK /\ IdleCall /\ CallBudget /\ Pace /\ PollsInTime /\ SignalsCounted

\* The monitor always gets back to its ticker, however Hermes answers.
FetchesEnd == loop = "fetch" ~> loop = "select" \/ Ended

\* Two signals that were received end the program: the status goroutine
\* takes at most one of them (main.go:414 and 461).
TwoSignalsStop == received = 2 ~> Ended

\* "Graceful shutdown handling ... Press Ctrl+C to stop" (main.go:457-458):
\* a signal ends the program.
SignalStops == signals > 0 ~> Ended
=============================================================================
