--------------------------- MODULE PythWebSocket ---------------------------
(***************************************************************************)
(* The life of the WebSocket client's connection (pyth/pythwebsocket.go).  *)
(*                                                                         *)
(* A user starts the client, may reset and start it again after it has     *)
(* given up, and disconnects it.  Start leaves a reader behind, the        *)
(* goroutine of readMessages.  A reader that loses its connection calls    *)
(* handleReconnect, which closes whatever connection is current, sleeps,   *)
(* and dials.  When the dial fails it starts a goroutine that does the     *)
(* same again (a chain) and returns; when it succeeds it starts a new      *)
(* reader and returns; and in both cases a calling reader goes on with its *)
(* own loop.                                                               *)
(*                                                                         *)
(* What is done under connMutex in one go is one action, and the counter   *)
(* of attempts, which is touched without the mutex, is read and written    *)
(* in two.  Subscriptions are the subject of PythSubscription; what the    *)
(* messages contain is left out.                                           *)
(***************************************************************************)
EXTENDS Integers, FiniteSets

CONSTANTS Goroutines,     \* bound: goroutines of the client alive at a time
          Conns,          \* connections; more than can be in use at a time
          MaxReconnects,  \* maxReconnects
          None            \* no connection

ASSUME WebSocketAssumption == /\ IsFiniteSet(Goroutines) /\ IsFiniteSet(Conns)
                              /\ Cardinality(Conns) > Cardinality(Goroutines) + 1
                              /\ MaxReconnects \in Nat
                              /\ None \notin Conns

VARIABLES conn, connected, gaveUp, reconnectCount, ctxDone,  \* the client
          status,  \* each connection: "ok", "dead" (failed) or "closed" (by us)
          user,    \* where the user of the client is
          role,    \* "none", "reader" or "chain"
          stage,   \* where each goroutine is
          mine,    \* the connection a reader reads from
          seen     \* the counter as a goroutine about to increment it read it

clientVars == <<conn, connected, gaveUp, reconnectCount, ctxDone, status>>
goVars == <<role, stage, mine, seen>>
vars == <<clientVars, user, goVars>>

Init == /\ conn = None /\ connected = FALSE /\ gaveUp = FALSE
        /\ reconnectCount = 0 /\ ctxDone = FALSE
        /\ status = [c \in Conns |-> "closed"]
        /\ user = "new"
        /\ role = [g \in Goroutines |-> "none"]
        /\ stage = [g \in Goroutines |-> "idle"]
        /\ mine = [g \in Goroutines |-> None]
        /\ seen = [g \in Goroutines |-> 0]

-----------------------------------------------------------------------------
(* Parts of the actions *)

\* The counter is only compared with maxReconnects and incremented, so all
\* values from there on are one.  Stale increments make it pass any bound.
AtMostMax(n) == IF n < MaxReconnects THEN n ELSE MaxReconnects

Idle == {g \in Goroutines : role[g] = "none"}

\* The connections a variable of the program refers to.
InUse == {conn} \cup {mine[g] : g \in Goroutines}

NewConn == CHOOSE c \in Conns : c \notin InUse

MutDialKeepsGaveUp == /\ conn' = NewConn
                      /\ status' = [status EXCEPT ![NewConn] = "ok"]
                      /\ connected' = TRUE
                      /\ reconnectCount' = 0
                      /\ UNCHANGED <<gaveUp, ctxDone>>

\* Connect, when the dial succeeds: the connection it replaces stays open.
DialOk == /\ conn' = NewConn
          /\ status' = [status EXCEPT ![NewConn] = "ok"]
          /\ connected' = TRUE
          /\ reconnectCount' = 0
          /\ gaveUp' = FALSE
          /\ UNCHANGED ctxDone

Closed(c) == IF c = None THEN status ELSE [status EXCEPT ![c] = "closed"]

\* Goroutine g returns to its loop, or ends if it is a chain, and leaves a
\* goroutine behind.  A chain's place is taken by its successor.  A reader
\* whose successor finds no place is followed alone: it is as good a reader.
ThenSpawn(g, r, s) ==
  IF role[g] = "chain"
    THEN /\ role' = [role EXCEPT ![g] = r]
         /\ stage' = [stage EXCEPT ![g] = s]
    ELSE IF Idle = {}
    THEN /\ stage' = [stage EXCEPT ![g] = "loop"]
         /\ UNCHANGED role
    ELSE \E h \in Idle :
           /\ role' = [role EXCEPT ![h] = r]
           /\ stage' = [stage EXCEPT ![g] = "loop", ![h] = s]

Return(g) == IF role[g] = "chain"
               THEN /\ role' = [role EXCEPT ![g] = "none"]
                    /\ stage' = [stage EXCEPT ![g] = "idle"]
               ELSE /\ stage' = [stage EXCEPT ![g] = "loop"]
                    /\ UNCHANGED role

Exit(g) == /\ role' = [role EXCEPT ![g] = "none"]
           /\ stage' = [stage EXCEPT ![g] = "idle"]

Goto(g, s) == stage' = [stage EXCEPT ![g] = s] /\ UNCHANGED role

-----------------------------------------------------------------------------
(* readMessages *)

MutIgnoreCtx(g) == /\ stage[g] = "loop"
                   /\ Goto(g, "peek")
                   /\ UNCHANGED <<clientVars, user, mine, seen>>

CheckContext(g) == /\ stage[g] = "loop"
                   /\ IF ctxDone THEN Exit(g) ELSE Goto(g, "peek")
                   /\ UNCHANGED <<clientVars, user, mine, seen>>

Peek(g) == /\ stage[g] = "peek"
           /\ IF gaveUp THEN Exit(g)
              ELSE IF conn = None THEN Goto(g, "down")
              ELSE Goto(g, "read")
           /\ mine' = [mine EXCEPT ![g] = conn]
           /\ UNCHANGED <<clientVars, user, seen>>

\* A message arrives and is handed to its handler.
Receive(g) == /\ stage[g] = "read"
              /\ status[mine[g]] = "ok"
              /\ Goto(g, "loop")
              /\ mine' = [mine EXCEPT ![g] = None]
              /\ UNCHANGED <<clientVars, user, seen>>

\* The peer is gone, the deadline of 60 seconds passes, or this side closed
\* the connection.  A connection that failed once keeps failing.
ReadFails(g) == /\ stage[g] = "read"
                /\ Goto(g, "down")
                /\ status' = [status EXCEPT ![mine[g]] = IF @ = "ok" THEN "dead" ELSE @]
                /\ mine' = [mine EXCEPT ![g] = None]
                /\ UNCHANGED <<conn, connected, gaveUp, reconnectCount, ctxDone, user, seen>>

\* The current connection fails before anyone notices.
PeerGone == /\ conn # None
            /\ status[conn] = "ok"
            /\ status' = [status EXCEPT ![conn] = "dead"]
            /\ UNCHANGED <<conn, connected, gaveUp, reconnectCount, ctxDone, user, goVars>>

-----------------------------------------------------------------------------
(* handleReconnect *)

MutTearDownKeepsConn(g) ==
  /\ stage[g] = "down"
  /\ status' = Closed(conn)
  /\ connected' = FALSE
  /\ IF gaveUp THEN Return(g) /\ UNCHANGED gaveUp
     ELSE IF reconnectCount >= MaxReconnects THEN Return(g) /\ gaveUp' = TRUE
     ELSE Goto(g, "bump") /\ UNCHANGED gaveUp
  /\ UNCHANGED <<conn, reconnectCount, ctxDone, user, mine, seen>>

MutTearDownNoLimit(g) ==
  /\ stage[g] = "down"
  /\ conn' = None /\ connected' = FALSE /\ status' = Closed(conn)
  /\ IF gaveUp THEN Return(g) ELSE Goto(g, "bump")
  /\ UNCHANGED <<gaveUp, reconnectCount, ctxDone, user, mine, seen>>

\* The part under connMutex: the current connection is closed, whichever
\* goroutine is using it.
TearDown(g) ==
  /\ stage[g] = "down"
  /\ conn' = None /\ connected' = FALSE /\ status' = Closed(conn)
  /\ IF gaveUp THEN Return(g) /\ UNCHANGED gaveUp
     ELSE IF reconnectCount >= MaxReconnects THEN Return(g) /\ gaveUp' = TRUE
     ELSE Goto(g, "bump") /\ UNCHANGED gaveUp
  /\ UNCHANGED <<reconnectCount, ctxDone, user, mine, seen>>

ReadCount(g) == /\ stage[g] = "bump"
                /\ Goto(g, "bumped")
                /\ seen' = [seen EXCEPT ![g] = reconnectCount]
                /\ UNCHANGED <<clientVars, user, mine>>

WriteCount(g) == /\ stage[g] = "bumped"
                 /\ Goto(g, "dial")
                 /\ reconnectCount' = AtMostMax(seen[g] + 1)
                 /\ seen' = [seen EXCEPT ![g] = 0]
                 /\ UNCHANGED <<conn, connected, gaveUp, ctxDone, status, user, mine>>

Redial(g) == /\ stage[g] = "dial"
             /\ DialOk
             /\ Goto(g, "resub")
             /\ UNCHANGED <<user, mine, seen>>

RedialFails(g) == /\ stage[g] = "dial"
                  /\ ThenSpawn(g, "chain", "down")
                  /\ UNCHANGED <<clientVars, user, mine, seen>>

MutResumeStartsNone(g) ==
  /\ stage[g] = "resub"
  /\ reconnectCount' = 0
  /\ Return(g)
  /\ UNCHANGED <<conn, connected, gaveUp, ctxDone, status, user, mine, seen>>

\* After resubscribing: the counter is reset and a new reader started.
Resume(g) == /\ stage[g] = "resub"
             /\ reconnectCount' = 0
             /\ ThenSpawn(g, "reader", "loop")
             /\ UNCHANGED <<conn, connected, gaveUp, ctxDone, status, user, mine, seen>>

-----------------------------------------------------------------------------
(* The user *)

Start == /\ user = "new"
         /\ user' = IF connected THEN "spawn" ELSE "dial"
         /\ UNCHANGED <<clientVars, goVars>>

StartDial == /\ user = "dial"
             /\ user' = "spawn"
             /\ DialOk
             /\ UNCHANGED goVars

StartDialFails == /\ user = "dial"
                  /\ user' = "new"
                  /\ UNCHANGED <<clientVars, goVars>>

StartReader == /\ user = "spawn"
               /\ user' = "running"
               /\ \E g \in Idle : /\ role' = [role EXCEPT ![g] = "reader"]
                                  /\ stage' = [stage EXCEPT ![g] = "loop"]
               /\ UNCHANGED <<clientVars, mine, seen>>

\* Resubscribing fails: Start reports an error and leaves the connection
\* without a reader; called again, it finds the client connected.
StartSubscribeFails == /\ user = "spawn"
                       /\ user' = "new"
                       /\ UNCHANGED <<clientVars, goVars>>

Reset == /\ user = "running"
         /\ gaveUp
         /\ user' = "new"
         /\ gaveUp' = FALSE
         /\ reconnectCount' = 0
         /\ UNCHANGED <<conn, connected, ctxDone, status, goVars>>

Cancel == /\ user \in {"new", "running"}
          /\ user' = "closing"
          /\ ctxDone' = TRUE
          /\ UNCHANGED <<conn, connected, gaveUp, reconnectCount, status, goVars>>

Disconnect == /\ user = "closing"
              /\ user' = "closed"
              /\ conn' = None
              /\ connected' = FALSE
              /\ status' = Closed(conn)
              /\ UNCHANGED <<gaveUp, reconnectCount, ctxDone, goVars>>

-----------------------------------------------------------------------------
Reader(g) == CheckContext(g) \/ Peek(g) \/ Receive(g) \/ ReadFails(g)

Reconnect(g) == \/ TearDown(g) \/ ReadCount(g) \/ WriteCount(g)
                \/ Redial(g) \/ RedialFails(g) \/ Resume(g)

User == \/ Start \/ StartDial \/ StartDialFails
        \/ StartReader \/ StartSubscribeFails
        \/ Reset \/ Cancel \/ Disconnect

Next == User \/ PeerGone \/ \E g \in Goroutines : Reader(g) \/ Reconnect(g)

Spec == Init /\ [][Next]_vars

\* Goroutines are scheduled; a read ends within its deadline and a dial
\* within the dialer's handshake timeout, one way or the other.  What the
\* user does is not fair, and neither outcome of a read or a dial is.
FairSpec == Spec /\ \A g \in Goroutines : WF_vars(Reader(g) \/ Reconnect(g))

-----------------------------------------------------------------------------
(* Properties *)

Stages == {"idle", "loop", "peek", "read", "down", "bump", "bumped", "dial", "resub"}

TypeOK ==
  /\ conn \in Conns \cup {None}
  /\ connected \in BOOLEAN /\ gaveUp \in BOOLEAN /\ ctxDone \in BOOLEAN
  /\ reconnectCount \in 0 .. MaxReconnects
  /\ status \in [Conns -> {"ok", "dead", "closed"}]
  /\ user \in {"new", "dial", "spawn", "running", "closing", "closed"}
  /\ role \in [Goroutines -> {"none", "reader", "chain"}]
  /\ stage \in [Goroutines -> Stages]
  /\ mine \in [Goroutines -> Conns \cup {None}]
  /\ seen \in [Goroutines -> 0 .. MaxReconnects]
  /\ \A g \in Goroutines : /\ role[g] = "none" <=> stage[g] = "idle"
                           /\ stage[g] = "read" <=> mine[g] # None

\* The three fields that describe the connection agree whenever connMutex is
\* free, however many readers and chains work on them: connected says
\* whether there is a connection, the connection is not one this side has
\* closed, and a client that gave up has none (pythwebsocket.go:365-387).
ConnectionConsistent == /\ connected <=> conn # None
                        /\ conn # None => status[conn] # "closed"
                        /\ gaveUp => conn = None

\* While the client is running someone reads the current connection, or is
\* about to read it or to take it down: prices do not stop coming in
\* silently while IsConnected says yes (pythwebsocket.go:413-417).
ConnectionHasReader ==
  user = "running" /\ conn # None =>
    \E g \in Goroutines : \/ stage[g] \in {"loop", "peek", "resub", "down"}
                          \/ stage[g] = "read" /\ mine[g] = conn

\* A client that runs has not been cancelled.
CancelClosesLast == ctxDone => user \in {"closing", "closed"}

\* The inductive invariant behind the safety properties.
IInv == /\ TypeOK
        /\ ConnectionConsistent
        /\ CancelClosesLast
        /\ ConnectionHasReader

\* A lost connection is replaced, or the client gives up: the readers and
\* chains do not fail and retry for ever, although they increment the
\* counter of attempts without a lock (pythwebsocket.go:379-390).
RecoversOrGivesUp ==
  user = "running" /\ conn = None
    ~> conn # None \/ gaveUp \/ user # "running"

\* After Disconnect every goroutine of the client ends, also those that were
\* dialling or sleeping (pythwebsocket.go:257-261).
GoroutinesStop == ctxDone ~> \A g \in Goroutines : role[g] = "none"
=============================================================================
