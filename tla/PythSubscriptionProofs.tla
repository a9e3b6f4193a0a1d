----------------------- MODULE PythSubscriptionProofs -----------------------
(***************************************************************************)
(* Proofs about PythSubscription, for any goroutines and any lists of      *)
(* identifiers.  Subscribing adds to the connection and never changes what *)
(* it does, so every theorem about the connection holds here too; on top   *)
(* of that, a connection that works is not forgotten: whoever makes it     *)
(* looks for identifiers afterwards, and whoever stores identifiers looks  *)
(* for a connection afterwards.                                            *)
(***************************************************************************)
EXTENDS PythSubscription, PythWebSocketProofs

\* The variables that subscribing has of its own keep their types.
OwnType == /\ subscribedIDs \in IdLists \cup {NoIds}
           /\ told \in IdLists \cup {NoIds, Nothing}
           /\ call \in [Callers -> {"idle", "read", "check", "store", "write", "send",
                                "lost", "failed"}]
           /\ ids \in [Callers -> IdLists \cup {NoIds}]
           /\ overlapped \in BOOLEAN

-----------------------------------------------------------------------------
(* The connection underneath *)

\* The client with subscriptions does to its connection what the client
\* without them does: every step is a step of PythWebSocket or none.
THEOREM ImplementsConnection == SubSpec => Spec
<1>1. SubInit => Init
  BY DEF SubInit
<1>2. [SubNext]_allVars => [Next]_vars
  <2>1. ASSUME SubNext
        PROVE  Next \/ UNCHANGED vars
    <3>1. ASSUME NEW c \in Callers, Subscribing(c)
          PROVE  UNCHANGED vars
      BY <3>1 DEF Subscribing, ReadSubscribed, CheckConnected, Store, Take,
                  Write, WriteFails, WriteIsLost
    <3>2. ASSUME NEW g \in Goroutines, GoStep(g)
          PROVE  Reader(g) \/ Reconnect(g) \/ UNCHANGED vars
      BY <3>1, <3>2 DEF GoStep, ReconnectSub, RedialSub, ResumeSub, Reconnect, Callers
    <3>3. UserSub => User
      BY DEF UserSub, StartSub, StartDialSub, StartReaderSub, StartSubscribeFailsSub, User
    <3>4. (\E s \in IdLists \cup {NoIds} : Subscribe(s)) \/ SubscribeReturns
            => UNCHANGED vars
      BY DEF Subscribe, SubscribeReturns
    <3>5. QED
      BY <2>1, <3>1, <3>2, <3>3, <3>4 DEF SubNext, Next, Callers
  <2>2. QED
    BY <2>1 DEF allVars
<1>3. QED
  BY <1>1, <1>2, PTL DEF SubSpec, Spec

\* What holds of the connection holds here: its fields agree, and it is read.
THEOREM ConnectionStaysSound ==
  SubSpec => [](TypeOK /\ ConnectionConsistent /\ ConnectionHasReader)
BY ImplementsConnection, Invariance, PTL DEF IInv

\* Calls of Subscribe, whenever the user makes them, do not leave a
\* running client without a goroutine.
THEOREM SubscriberIsAttended == SubSpec => []NotAbandoned
BY ImplementsConnection, ClientIsAttended, PTL

-----------------------------------------------------------------------------
(* Types *)

\* No step takes the variables of subscribing out of their types.
LEMMA OwnTypeStep ==
  ASSUME OwnType, [SubNext]_allVars
  PROVE  OwnType'
<1> USE DEF OwnType
<1>1. ASSUME NEW c \in Callers, Subscribing(c)
      PROVE  OwnType'
  BY <1>1 DEF Subscribing, ReadSubscribed, CheckConnected, Store, Take,
              Write, WriteFails, WriteIsLost, Returns, To
<1>2. ASSUME NEW s \in IdLists \cup {NoIds}, Subscribe(s)
      PROVE  OwnType'
  BY <1>2 DEF Subscribe, To, OthersCall
<1>3. CASE SubscribeReturns
  BY <1>3 DEF SubscribeReturns, To
<1>4. ASSUME NEW g \in Goroutines, RedialSub(g) \/ ResumeSub(g)
      PROVE  OwnType'
  BY <1>4 DEF RedialSub, ConnectedBy, ResumeSub, To, OthersCall
<1>5. CASE StartSub \/ StartDialSub \/ StartSubscribeFailsSub
  BY <1>5 DEF StartSub, StartDialSub, ConnectedBy, StartSubscribeFailsSub, To, OthersCall
<1>6. CASE UNCHANGED subVars
  BY <1>6 DEF subVars
<1>7. Goroutines \subseteq Callers /\ Starter \in Callers /\ Subscriber \in Callers
  BY DEF Callers
<1>8. QED
  BY <1>1, <1>2, <1>3, <1>4, <1>5, <1>6, <1>7
     DEF SubNext, GoStep, ReconnectSub, UserSub, StartReaderSub, allVars

\* Only a dial makes a connection that works.
LEMMA NoneRevives ==
  ASSUME TypeOK,
         \/ \E g \in Goroutines : \/ Reader(g) \/ TearDown(g) \/ ReadCount(g)
                                  \/ WriteCount(g) \/ RedialFails(g)
         \/ StartReader \/ StartDialFails \/ Reset \/ Cancel \/ Disconnect
         \/ PeerGone \/ UNCHANGED vars
  PROVE  Works' => Works
BY DEF Reader, CheckContext, Peek, Receive, ReadFails, TearDown, ReadCount,
       WriteCount, RedialFails, StartReader, StartDialFails, Reset, Cancel,
       Disconnect, PeerGone, Works, TypeOK, vars, clientVars

-----------------------------------------------------------------------------
(* No connection is forgotten *)

\* Every step that ends a call has told the connection, or there is none that
\* works, or nothing is wanted; and whoever makes a connection begins a call.
LEMMA ToldStep ==
  ASSUME OwnType, TypeOK, ConnectionConsistent, ConnectionIsTold, [SubNext]_allVars
  PROVE  ConnectionIsTold'
<1> DEFINE Owes == Works /\ subscribedIDs # NoIds /\ told = Nothing
           SomeCall == \E c \in Callers : Tells(c)
<1>1. ConnectionIsTold <=> (Owes => SomeCall)
  BY DEF ConnectionIsTold
<1>2. ConnectionIsTold' <=> (Owes' => SomeCall')
  BY DEF ConnectionIsTold
<1> SUFFICES ASSUME Owes'
             PROVE  SomeCall'
  BY <1>2
<1>3. ASSUME NEW c \in Callers, Subscribing(c)
      PROVE  SomeCall'
  <2>1. Works' <=> Works
    BY <1>3 DEF Subscribing, ReadSubscribed, CheckConnected, Store, Take,
                Write, WriteFails, WriteIsLost, Works, vars, clientVars
  <2>2. CASE ReadSubscribed(c)
    BY <2>2 DEF ReadSubscribed, To, Tells, OwnType
  <2>3. CASE CheckConnected(c)
    BY <2>1, <2>3 DEF CheckConnected, ConnectionConsistent, Works, To, Tells, OwnType
  <2>4. CASE Store(c)
    BY <2>4 DEF Store, To, Tells, OwnType
  <2>5. CASE Take(c)
    BY <2>1, <2>5 DEF Take, Works, To, Tells, OwnType
  <2>6. CASE Write(c)
    BY <2>6, SubscriptionAssumption DEF Write, OwnType
  <2>7. CASE WriteFails(c)
    BY <2>1, <2>7 DEF WriteFails
  <2>8. CASE WriteIsLost(c)
    <3>1. PICK d \in Callers : Tells(d)
      BY <1>1, <2>1, <2>8 DEF WriteIsLost
    <3>2. Tells(d)'
      BY <2>8, <3>1 DEF WriteIsLost, Returns, To, Tells, OwnType
    <3>3. QED
      BY <3>2
  <2>9. QED
    BY <1>3, <2>2, <2>3, <2>4, <2>5, <2>6, <2>7, <2>8 DEF Subscribing
<1>4. ASSUME NEW g \in Goroutines, RedialSub(g)
      PROVE  SomeCall'
  BY <1>4 DEF RedialSub, ConnectedBy, Tells, Callers
<1>5. CASE StartDialSub
  BY <1>5 DEF StartDialSub, ConnectedBy, Tells, Callers
<1>6. ASSUME \/ \E s \in IdLists \cup {NoIds} : Subscribe(s)
             \/ SubscribeReturns
             \/ StartSub
             \/ StartSubscribeFailsSub
             \/ \E g \in Goroutines : ResumeSub(g)
      PROVE  SomeCall'
  <2>1. Owes
    BY <1>6 DEF Subscribe, SubscribeReturns, StartSub, Start, StartSubscribeFailsSub,
                StartSubscribeFails, ResumeSub, Resume, Works, vars, clientVars
  <2>2. PICK c \in Callers : Tells(c)
    BY <1>1, <2>1
  <2>3. Tells(c)'
    BY <1>6, <2>2 DEF Subscribe, SubscribeReturns, StartSub, StartSubscribeFailsSub,
                      ResumeSub, To, Tells, OwnType
  <2>4. QED
    BY <2>3
<1>7. ASSUME UNCHANGED subVars, Works' => Works
      PROVE  SomeCall'
  BY <1>1, <1>7 DEF subVars, Tells
<1>8. Goroutines \subseteq Callers /\ Starter \in Callers /\ Subscriber \in Callers
  BY DEF Callers
<1>9. QED
  BY <1>3, <1>4, <1>5, <1>6, <1>7, <1>8, NoneRevives
     DEF SubNext, GoStep, ReconnectSub, UserSub, StartReaderSub, allVars

-----------------------------------------------------------------------------
(* A call that had the connection to itself *)

\* On a connection without overlapping calls one call is under way at a time,
\* it writes what it has stored, and it writes it to this connection.
OneCaller ==
  ~overlapped => /\ \A c, d \in Callers : Calling(c) /\ Calling(d) => c = d
                 /\ \A c \in Callers : /\ call[c] \in {"write", "send"}
                                             => ids[c] = subscribedIDs
                                       /\ call[c] # "lost"

\* The inductive invariant behind AloneIsCurrent.
AloneInv == OneCaller /\ AloneIsCurrent

\* A caller that begins makes the call overlap, or is the only one.
LEMMA BeginsAlone ==
  ASSUME NEW c \in Callers, call'[c] \in {"read", "check"},
         \A d \in Callers \ {c} : Calling(d) \/ call'[d] = call[d],
         overlapped' \in {OthersCall(c), (overlapped \/ OthersCall(c))}
  PROVE  AloneInv'
<1>1. Calling(c)' /\ call'[c] \notin {"write", "send", "lost"}
  BY DEF Calling, Tells
<1>2. SUFFICES ASSUME ~overlapped'
               PROVE  AloneInv'
  BY <1>1 DEF AloneInv, OneCaller, AloneIsCurrent
<1>3. \A d \in Callers \ {c} : ~Calling(d)
  BY <1>2 DEF OthersCall
<1>4. \A d \in Callers \ {c} : ~Calling(d)' /\ call'[d] \notin {"write", "send", "lost"}
  BY <1>3 DEF Calling, Tells
<1>5. QED
  BY <1>1, <1>4 DEF AloneInv, OneCaller, AloneIsCurrent

\* Every step keeps what was stored and what was told together.
LEMMA AloneStep ==
  ASSUME OwnType, TypeOK, ConnectionConsistent, AloneInv, [SubNext]_allVars
  PROVE  AloneInv'
<1>1. Goroutines \subseteq Callers /\ Starter \in Callers /\ Subscriber \in Callers
  BY DEF Callers
<1>2. ASSUME NEW c \in Callers, Subscribing(c)
      PROVE  AloneInv'
  <2>1. /\ Works' <=> Works
        /\ overlapped' = overlapped /\ Calling(c)
    BY <1>2 DEF Subscribing, ReadSubscribed, CheckConnected, Store, Take,
                Write, WriteFails, WriteIsLost, Works, Calling, Tells, vars, clientVars
  <2>2. \A d \in Callers \ {c} : call'[d] = call[d]
    BY <1>2 DEF Subscribing, ReadSubscribed, CheckConnected, Store, Take,
                Write, WriteFails, WriteIsLost, Returns, To, OwnType
  <2>3. SUFFICES ASSUME ~overlapped
                 PROVE  AloneInv'
    BY <2>1 DEF AloneInv, OneCaller, AloneIsCurrent
  <2>4. \A d \in Callers \ {c} :
          ~Calling(d)' /\ call'[d] \notin {"write", "send", "lost"}
    BY <2>1, <2>2, <2>3 DEF AloneInv, OneCaller, Calling, Tells
  <2>5. SUFFICES /\ call'[c] \in {"write", "send"} => ids'[c] = subscribedIDs'
                 /\ call'[c] # "lost"
                 /\ Works' /\ ~Calling(c)' /\ subscribedIDs' # NoIds
                      => told' = subscribedIDs'
    BY <2>4 DEF AloneInv, OneCaller, AloneIsCurrent
  <2>6. CASE ReadSubscribed(c)
    BY <2>6 DEF ReadSubscribed, Returns, To, Calling, Tells, OwnType
  <2>7. CASE CheckConnected(c)
    BY <2>1, <2>7 DEF CheckConnected, ConnectionConsistent, Works, Returns, To,
                      Calling, Tells, OwnType
  <2>8. CASE Store(c)
    BY <2>8 DEF Store, To, Calling, Tells, OwnType
  <2>9. CASE Take(c)
    BY <2>1, <2>3, <2>9 DEF Take, Works, Returns, To, Calling, Tells, OwnType,
                            AloneInv, OneCaller
  <2>10. CASE Write(c)
    BY <2>3, <2>10 DEF Write, Returns, To, OwnType, AloneInv, OneCaller
  <2>11. CASE WriteFails(c)
    BY <2>1, <2>11 DEF WriteFails, Returns, To, OwnType
  <2>12. CASE WriteIsLost(c)
    BY <2>3, <2>12 DEF WriteIsLost, AloneInv, OneCaller
  <2>13. QED
    BY <1>2, <2>6, <2>7, <2>8, <2>9, <2>10, <2>11, <2>12 DEF Subscribing
<1>3. ASSUME NEW c \in Callers, ConnectedBy(c)
      PROVE  AloneInv'
  BY <1>3, BeginsAlone DEF ConnectedBy, Calling, Tells
<1>4. ASSUME NEW c \in Callers, NEW s \in {"read", "check"}, To(c, s),
             overlapped' = (overlapped \/ OthersCall(c))
      PROVE  AloneInv'
  BY <1>4, BeginsAlone DEF To, OwnType
<1>5. ASSUME \/ \E s \in IdLists \cup {NoIds} : Subscribe(s)
             \/ StartSub /\ connected
      PROVE  AloneInv'
  BY <1>1, <1>4, <1>5 DEF Subscribe, StartSub
<1>6. ASSUME \/ SubscribeReturns
             \/ StartSubscribeFailsSub
             \/ \E g \in Goroutines : ResumeSub(g)
             \/ StartSub /\ ~connected
      PROVE  AloneInv'
  <2>1. Works' <=> Works
    BY <1>6 DEF SubscribeReturns, StartSubscribeFailsSub, StartSubscribeFails, ResumeSub,
                Resume, StartSub, Start, Works, vars, clientVars
  <2>2. UNCHANGED <<subscribedIDs, told, overlapped>> /\ UNCHANGED ids
    BY <1>6 DEF SubscribeReturns, StartSubscribeFailsSub, ResumeSub, StartSub
  <2>3. \A c \in Callers : \/ call'[c] = call[c]
                           \/ call'[c] = "idle" /\ ~Calling(c)
    BY <1>6 DEF SubscribeReturns, StartSubscribeFailsSub, ResumeSub, StartSub, To,
                Calling, Tells, OwnType
  <2>4. QED
    BY <2>1, <2>2, <2>3 DEF AloneInv, OneCaller, AloneIsCurrent, Calling, Tells
<1>7. ASSUME UNCHANGED subVars, Works' => Works
      PROVE  AloneInv'
  BY <1>7 DEF subVars, Calling, Tells, AloneInv, OneCaller, AloneIsCurrent
<1>8. QED
  BY <1>1, <1>2, <1>3, <1>5, <1>6, <1>7, NoneRevives
     DEF SubNext, GoStep, ReconnectSub, RedialSub, UserSub, StartDialSub, StartReaderSub,
         allVars

-----------------------------------------------------------------------------
(* Theorems *)

\* The subscriptions, the calls and the connection keep their types.
THEOREM SubTypeCorrect == SubSpec => []SubTypeOK
<1>1. SubInit => OwnType
  BY DEF SubInit, OwnType
<1>2. OwnType /\ [SubNext]_allVars => OwnType'
  BY OwnTypeStep
<1>3. TypeOK /\ OwnType => SubTypeOK
  BY DEF OwnType, SubTypeOK
<1>4. QED
  BY <1>1, <1>2, <1>3, ConnectionStaysSound, PTL DEF SubSpec

\* No connection that works is left without a subscription while the client
\* has identifiers, unless a call that will tell it is under way.
THEOREM NoConnectionForgotten == SubSpec => []ConnectionIsTold
<1>1. SubInit => ConnectionIsTold /\ OwnType
  BY DEF SubInit, ConnectionIsTold, OwnType
<1>2. OwnType /\ [SubNext]_allVars => OwnType'
  BY OwnTypeStep
<1>3. OwnType /\ TypeOK /\ ConnectionConsistent /\ ConnectionIsTold /\ [SubNext]_allVars
        => ConnectionIsTold'
  BY ToldStep
<1>4. QED
  BY <1>1, <1>2, <1>3, ConnectionStaysSound, PTL DEF SubSpec

\* What is stored is what the connection was told, once the calls are over, if
\* no two of them overlapped on it.
THEOREM AloneStaysCurrent == SubSpec => []AloneIsCurrent
<1>1. SubInit => AloneInv /\ OwnType
  BY DEF SubInit, AloneInv, OneCaller, AloneIsCurrent, OwnType, Calling, Tells
<1>2. OwnType /\ [SubNext]_allVars => OwnType'
  BY OwnTypeStep
<1>3. OwnType /\ TypeOK /\ ConnectionConsistent /\ AloneInv /\ [SubNext]_allVars
        => AloneInv'
  BY AloneStep
<1>4. AloneInv => AloneIsCurrent
  BY DEF AloneInv
<1>5. QED
  BY <1>1, <1>2, <1>3, <1>4, ConnectionStaysSound, PTL DEF SubSpec
=============================================================================
