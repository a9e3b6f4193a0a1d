---------------------------- MODULE HermesClient ----------------------------
(***************************************************************************)
(* One call of httpRequest (pyth/client.go): a request with a timeout of   *)
(* its own, repeated after a sleep that doubles each time, all of it under *)
(* the caller's context.  Its user is PythMonitor, which also lets time    *)
(* pass.                                                                   *)
(*                                                                         *)
(* Time is counted in ticks.  A timer that ends and an answer that arrives *)
(* in the same tick count as the timer's: the answer was late.             *)
(***************************************************************************)
EXTENDS Integers

CONSTANTS Timeout,        \* http.Client.Timeout, of each attempt
          CtxTimeout,     \* the caller's context.WithTimeout
          HttpRetries,    \* httpRetries
          FirstBackoffs,  \* the values the random first backoff can have
          MaxBackoff,     \* the largest of them, or more
          Sleeps          \* Sleeps[n]: n sleeps of a call together, at the most

ASSUME HermesAssumption == /\ Timeout \in Nat \ {0}
                           /\ CtxTimeout \in Nat \ {0}
                           /\ HttpRetries \in Nat
                           /\ MaxBackoff \in Nat
                           /\ FirstBackoffs \subseteq 0 .. MaxBackoff
                           /\ FirstBackoffs # {}

\* Each sleep is twice as long as the one before: Sleeps[n] is 2^n - 1 times
\* MaxBackoff.  It is given by its recurrence.
ASSUME SleepsAssumption ==
  /\ Sleeps \in [0 .. HttpRetries -> Nat]
  /\ Sleeps[0] = 0
  /\ \A n \in 1 .. HttpRetries : Sleeps[n] = 2 * Sleeps[n - 1] + MaxBackoff

VARIABLES request,  \* where the call is
          attempt,
          timer,    \* what is left of the attempt's timeout, or of the sleep
          ctxLeft,  \* what is left of the context's
          backoff,
          elapsed   \* ticks since the call began

callVars == <<request, attempt, timer, ctxLeft, backoff, elapsed>>

NoCall == /\ request = "idle" /\ attempt = 0 /\ timer = 0
          /\ ctxLeft = 0 /\ backoff = 0 /\ elapsed = 0

-----------------------------------------------------------------------------
Begin == /\ request = "idle"
         /\ request' = "send"
         /\ attempt' = 0
         /\ timer' = Timeout
         /\ ctxLeft' = CtxTimeout
         /\ backoff' \in FirstBackoffs
         /\ elapsed' = 0

\* Neither the attempt nor the context has run out of time.
InTime == timer > 0 /\ ctxLeft > 0

Step(from, to) == /\ request = from
                  /\ request' = to
                  /\ UNCHANGED <<attempt, timer, ctxLeft, backoff, elapsed>>

MutGiveUpOrSleep == /\ request' = "sleep"
                    /\ timer' = backoff
                    /\ backoff' = 2 * backoff
                    /\ UNCHANGED <<attempt, ctxLeft, elapsed>>

\* The attempt failed: sleep, without regard to the context, or give up.
GiveUpOrSleep == /\ IF attempt < HttpRetries
                      THEN /\ request' = "sleep"
                           /\ timer' = backoff
                           /\ backoff' = 2 * backoff
                      ELSE /\ request' = "failed"
                           /\ UNCHANGED <<timer, backoff>>
                 /\ UNCHANGED <<attempt, ctxLeft, elapsed>>

\* Do returns an error: at once when the context is already done.
SendFails == request = "send" /\ GiveUpOrSleep

Accepted == InTime /\ Step("send", "body")

Refused == InTime /\ Step("send", "refusal")

\* The body of a refusal is read for the error text; if that fails the text
\* is shorter.
RefusalRead == request = "refusal" /\ GiveUpOrSleep

Decoded == InTime /\ Step("body", "ok")

\* The body is not the JSON it should be or does not arrive in time: this
\* is not retried.
DecodeFails == Step("body", "failed")

MutRetryInContext == /\ request = "sleep"
                     /\ timer = 0 /\ ctxLeft > 0
                     /\ request' = "send"
                     /\ attempt' = attempt + 1
                     /\ timer' = Timeout
                     /\ UNCHANGED <<ctxLeft, backoff, elapsed>>

\* The context is not looked at before the next request is sent.
Retry == /\ request = "sleep"
         /\ timer = 0
         /\ request' = "send"
         /\ attempt' = attempt + 1
         /\ timer' = Timeout
         /\ UNCHANGED <<ctxLeft, backoff, elapsed>>

\* The caller takes the result.
Return == /\ request \in {"ok", "failed"}
          /\ request' = "idle"
          /\ attempt' = 0 /\ timer' = 0 /\ ctxLeft' = 0 /\ backoff' = 0 /\ elapsed' = 0

Request == \/ SendFails \/ Accepted \/ Refused \/ RefusalRead
           \/ Decoded \/ DecodeFails \/ Retry

-----------------------------------------------------------------------------
(* Time: it passes while the call waits for the peer or sleeps. *)

MayWait == \/ request = "idle"
           \/ request = "sleep" /\ timer > 0
           \/ request \in {"send", "body", "refusal"} /\ InTime

OneLess(n) == IF n > 0 THEN n - 1 ELSE 0

Wait == /\ MayWait
        /\ timer' = OneLess(timer)
        /\ ctxLeft' = OneLess(ctxLeft)
        /\ elapsed' = IF request = "idle" THEN elapsed ELSE elapsed + 1
        /\ UNCHANGED <<request, attempt, backoff>>

-----------------------------------------------------------------------------
\* A call lasts as long as its context and all its sleeps, at the most.
MaxSleep == Sleeps[HttpRetries]

MaxCall == CtxTimeout + MaxSleep

CallTypeOK ==
  /\ request \in {"idle", "send", "body", "refusal", "sleep", "ok", "failed"}
  /\ attempt \in 0 .. HttpRetries
  /\ timer \in Nat /\ backoff \in Nat
  /\ ctxLeft \in 0 .. CtxTimeout
  /\ elapsed \in Nat

\* A call is over in time: the sleeps do not watch the context, so they may
\* come on top of it, but nothing else does, and there are no more of them
\* than retries (client.go:62-96).
CallBounded == elapsed <= MaxCall /\ elapsed <= (HttpRetries + 1) * Timeout + MaxSleep

\* Between two calls the clock of the call stands still.
IdleCall == request = "idle" => elapsed = 0

\* The sleeps of the call that have begun.
Slept == IF request = "sleep" THEN attempt + 1 ELSE attempt

\* What is left of the sleep, or of the attempt when it has not ended.
SleepLeft == IF request = "sleep" THEN timer ELSE 0

\* Why a call is bounded: time that passes is taken from the context or from
\* a sleep, and from an attempt's timeout or from a sleep; a sleep begins
\* only while there are retries left, and the next one is twice as long.
CallBudget ==
  request # "idle" =>
    /\ Slept \in 0 .. HttpRetries
    /\ backoff <= Sleeps[Slept] + MaxBackoff
    /\ elapsed + SleepLeft + ctxLeft <= CtxTimeout + Sleeps[Slept]
    /\ elapsed + timer <= (attempt + 1) * Timeout + Sleeps[Slept]
=============================================================================
