-------------------------- MODULE PythSubscription --------------------------
(***************************************************************************)
(* The subscriptions of the WebSocket client (pyth/pythwebsocket.go), on   *)
(* top of its connection: Subscribe and Unsubscribe, called by a user at   *)
(* any time, and the subscription that Start and every reconnect repeat.   *)
(*                                                                         *)
(* A call of Subscribe looks whether there is a connection, stores the     *)
(* identifiers, takes the write lock and the connection of that moment,    *)
(* and writes to it; these are four steps, between which the connection    *)
(* may be replaced and other calls may store.  Unsubscribe is the same     *)
(* with no identifiers.  A list of identifiers is a member of IdLists.     *)
(***************************************************************************)
EXTENDS PythWebSocket

CONSTANTS Subscriber,   \* the user's goroutine that subscribes
          Starter,      \* the user's goroutine that calls Start
          IdLists,      \* lists of identifiers, none of them empty
          NoIds,        \* the empty list
          Nothing       \* nothing was written to a connection yet

ASSUME SubscriptionAssumption == /\ Subscriber # Starter
                                 /\ {Subscriber, Starter} \cap Goroutines = {}
                                 /\ NoIds \notin IdLists
                                 /\ Nothing \notin IdLists \cup {NoIds}

VARIABLES subscribedIDs,  \* what GetSubscribedIDs returns
          told,           \* the last subscription written to the connection
          call,           \* where each call of Subscribe is
          ids,            \* the identifiers it was called with
          overlapped      \* history: two calls overlapped on this connection

subVars == <<subscribedIDs, told, call, ids, overlapped>>
allVars == <<vars, subVars>>

Callers == Goroutines \cup {Subscriber, Starter}

SubInit == /\ Init
           /\ subscribedIDs = NoIds /\ told = Nothing
           /\ call = [c \in Callers |-> "idle"]
           /\ ids = [c \in Callers |-> NoIds]
           /\ overlapped = FALSE

-----------------------------------------------------------------------------
(* Subscribe *)

\* The call will write to the connection that is current.
Tells(c) == call[c] \in {"read", "check", "store", "write", "send"}

Calling(c) == Tells(c) \/ call[c] = "lost"

OthersCall(c) == \E d \in Callers \ {c} : Calling(d)

To(c, s) == call' = [call EXCEPT ![c] = s]

\* The call is over: what it was called with is forgotten.
Returns(c, s) == To(c, s) /\ ids' = [ids EXCEPT ![c] = NoIds]

\* The user calls Subscribe, or Unsubscribe when s is empty.
Subscribe(s) == /\ call[Subscriber] = "idle"
                /\ To(Subscriber, "check")
                /\ ids' = [ids EXCEPT ![Subscriber] = s]
                /\ overlapped' = (overlapped \/ OthersCall(Subscriber))
                /\ UNCHANGED <<vars, subscribedIDs, told>>

\* Start and handleReconnect subscribe with the list stored, if there is one.
ReadSubscribed(c) ==
  /\ call[c] = "read"
  /\ IF subscribedIDs = NoIds
       THEN Returns(c, "idle")
       ELSE To(c, "check") /\ ids' = [ids EXCEPT ![c] = subscribedIDs]
  /\ UNCHANGED <<vars, subscribedIDs, told, overlapped>>

CheckConnected(c) == /\ call[c] = "check"
                     /\ IF connected THEN To(c, "store") /\ UNCHANGED ids
                                     ELSE Returns(c, "failed")
                     /\ UNCHANGED <<vars, subscribedIDs, told, overlapped>>

MutUnsubscribeKeeps(c) ==
  /\ call[c] = "store"
  /\ To(c, "write")
  /\ subscribedIDs' = IF ids[c] = NoIds THEN subscribedIDs ELSE ids[c]
  /\ UNCHANGED <<vars, told, ids, overlapped>>

MutStoreOnly(c) == /\ call[c] = "store"
                   /\ Returns(c, "idle")
                   /\ subscribedIDs' = ids[c]
                   /\ UNCHANGED <<vars, told, overlapped>>

Store(c) == /\ call[c] = "store"
            /\ To(c, "write")
            /\ subscribedIDs' = ids[c]
            /\ UNCHANGED <<vars, told, ids, overlapped>>

\* writeMutex is held until the call returns, connMutex only to read conn.
Take(c) == /\ call[c] = "write"
           /\ \A d \in Callers : call[d] \notin {"send", "lost"}
           /\ IF conn = None THEN Returns(c, "failed")
                             ELSE To(c, "send") /\ UNCHANGED ids
           /\ UNCHANGED <<vars, subscribedIDs, told, overlapped>>

Works == conn # None /\ status[conn] = "ok"

\* The connection that was taken is the current one, or was closed and there
\* is none.  When the peer is gone the message may still be buffered.
Write(c) == /\ call[c] = "send"
            /\ conn # None /\ status[conn] # "closed"
            /\ Returns(c, "idle")
            /\ told' = ids[c]
            /\ UNCHANGED <<vars, subscribedIDs, overlapped>>

MutWriteToOldConnection(c) == /\ call[c] = "send"
                              /\ Returns(c, "failed")
                              /\ UNCHANGED <<vars, subscribedIDs, told, overlapped>>

WriteFails(c) == /\ call[c] = "send"
                 /\ ~Works
                 /\ Returns(c, "failed")
                 /\ UNCHANGED <<vars, subscribedIDs, told, overlapped>>

\* The connection that was taken has been replaced: the message goes to the
\* old one, which may still be open, and the new one is told nothing by it.
WriteIsLost(c) == /\ call[c] = "lost"
                  /\ Returns(c, "idle") \/ Returns(c, "failed")
                  /\ UNCHANGED <<vars, subscribedIDs, told, overlapped>>

\* Whether it succeeded or not, the user's call is over.
SubscribeReturns == /\ call[Subscriber] = "failed"
                    /\ To(Subscriber, "idle")
                    /\ UNCHANGED <<vars, subscribedIDs, told, ids, overlapped>>

Subscribing(c) == \/ ReadSubscribed(c) \/ CheckConnected(c) \/ Store(c)
                  \/ Take(c) \/ Write(c) \/ WriteFails(c) \/ WriteIsLost(c)

-----------------------------------------------------------------------------
(* The connection: a new one has been told nothing, and whoever made it or *)
(* found it starts to subscribe.                                           *)

\* A caller that has taken the connection before will write to the old one.
ConnectedBy(g) ==
  /\ told' = Nothing
  /\ call' = [c \in Callers |-> IF c = g THEN "read"
                               ELSE IF call[c] = "send" THEN "lost" ELSE call[c]]
  /\ overlapped' = OthersCall(g)
  /\ UNCHANGED <<subscribedIDs, ids>>

RedialSub(g) == Redial(g) /\ ConnectedBy(g)

\* An error of the subscription is only reported.
ResumeSub(g) == /\ Resume(g)
                /\ call[g] \in {"idle", "failed"}
                /\ To(g, "idle")
                /\ UNCHANGED <<subscribedIDs, told, ids, overlapped>>

ReconnectSub(g) ==
  \/ /\ TearDown(g) \/ ReadCount(g) \/ WriteCount(g) \/ RedialFails(g)
     /\ UNCHANGED subVars
  \/ RedialSub(g) \/ ResumeSub(g)

StartSub == /\ Start
            /\ IF connected
                 THEN /\ To(Starter, "read")
                      /\ overlapped' = (overlapped \/ OthersCall(Starter))
                 ELSE UNCHANGED <<call, overlapped>>
            /\ UNCHANGED <<subscribedIDs, told, ids>>

StartDialSub == StartDial /\ ConnectedBy(Starter)

StartReaderSub == /\ StartReader
                  /\ call[Starter] = "idle"
                  /\ UNCHANGED subVars

StartSubscribeFailsSub == /\ StartSubscribeFails
                          /\ call[Starter] = "failed"
                          /\ To(Starter, "idle")
                          /\ UNCHANGED <<subscribedIDs, told, ids, overlapped>>

UserSub == \/ StartSub \/ StartDialSub \/ StartReaderSub \/ StartSubscribeFailsSub
           \/ (StartDialFails \/ Reset \/ Cancel \/ Disconnect) /\ UNCHANGED subVars

-----------------------------------------------------------------------------
GoStep(g) == \/ Reader(g) /\ UNCHANGED subVars
             \/ ReconnectSub(g) \/ Subscribing(g)

SubNext == \/ UserSub \/ Subscribing(Starter)
           \/ \E s \in IdLists \cup {NoIds} : Subscribe(s)
           \/ Subscribing(Subscriber) \/ SubscribeReturns
           \/ \E g \in Goroutines : GoStep(g)
           \/ PeerGone /\ UNCHANGED subVars

SubSpec == SubInit /\ [][SubNext]_allVars

\* The goroutines are scheduled, their reads and dials end, and a write ends:
\* it is buffered or it fails.  Which subscriptions the user asks for is not
\* fair, but a call that was made goes on, and gets the write lock in the end
\* although others want it too: Go's mutex hands itself to a starving waiter.
SubFairSpec == /\ SubSpec
               /\ \A g \in Goroutines : WF_allVars(GoStep(g))
               /\ \A c \in Callers : SF_allVars(Subscribing(c))

-----------------------------------------------------------------------------
(* Properties *)

SubTypeOK == /\ TypeOK
             /\ subscribedIDs \in IdLists \cup {NoIds}
             /\ told \in IdLists \cup {NoIds, Nothing}
             /\ call \in [Callers -> {"idle", "read", "check", "store", "write", "send",
                                   "lost", "failed"}]
             /\ ids \in [Callers -> IdLists \cup {NoIds}]
             /\ overlapped \in BOOLEAN

\* No connection is forgotten: one that works, while the client has stored
\* identifiers, has been told of a subscription, or someone is about to tell
\* it; a call that writes to an earlier connection does not count.  The user
\* stores and then looks for the connection, a reconnect makes the connection
\* and then looks for identifiers, so one of them sees the other
\* (pythwebsocket.go:151-172 and 395-412).
ConnectionIsTold ==
  Works /\ subscribedIDs # NoIds
    => told # Nothing \/ \E c \in Callers : Tells(c)

\* And it is told in the end, unless it is lost or nothing is wanted any more.
ToldInTheEnd ==
  Works /\ subscribedIDs # NoIds /\ told = Nothing
    ~> told # Nothing \/ subscribedIDs = NoIds \/ ~Works

\* "GetSubscribedIDs returns the currently subscribed price feed IDs"
\* (pythwebsocket.go:427) of every connection on which no two calls of
\* Subscribe were under way together.  When they were, either may have stored
\* last and either may have written last.
AloneIsCurrent ==
  Works /\ ~overlapped /\ (\A c \in Callers : ~Calling(c)) /\ subscribedIDs # NoIds
    => told = subscribedIDs
=============================================================================
