------------------------ MODULE PythWebSocketProofs ------------------------
(***************************************************************************)
(* Proofs about PythWebSocket, for any number of goroutines and any limit  *)
(* of reconnects.  The argument: a connection is current from a dial on,   *)
(* the goroutine that dialled is about to start a reader or to go back to  *)
(* its own loop, and from then on there is always a goroutine that reads   *)
(* that connection or takes it down.                                       *)
(***************************************************************************)
EXTENDS PythWebSocket, FiniteSetTheorems, TLAPS

-----------------------------------------------------------------------------
(* Helpers *)

\* There is a connection object for a dial: the goroutines use at most one
\* each, and the client one more.
LEMMA NewConnType ==
  ASSUME TypeOK
  PROVE  NewConn \in Conns
<1> DEFINE T == {mine[g] : g \in Goroutines}
<1>1. IsFiniteSet(T) /\ Cardinality(T) <= Cardinality(Goroutines)
  <2>1. mine \in Surjection(Goroutines, T)
    BY DEF TypeOK, Surjection
  <2>2. QED
    BY <2>1, FS_Surjection, WebSocketAssumption
<1>2. IsFiniteSet(InUse) /\ Cardinality(InUse) <= Cardinality(T) + 1
  <2>1. InUse = T \cup {conn}
    BY DEF InUse
  <2> HIDE DEF T
  <2>2. Cardinality(T) \in Nat
    BY <1>1, FS_CardinalityType
  <2>3. /\ IsFiniteSet(T \cup {conn})
        /\ \/ Cardinality(T \cup {conn}) = Cardinality(T)
           \/ Cardinality(T \cup {conn}) = Cardinality(T) + 1
    BY <1>1, FS_AddElement
  <2>4. QED
    BY <2>1, <2>2, <2>3
<1>3. ~(Conns \subseteq InUse)
  <2>1. SUFFICES ASSUME Conns \in SUBSET InUse
                 PROVE  FALSE
    OBVIOUS
  <2>2. Cardinality(Conns) <= Cardinality(InUse)
    BY <1>2, <2>1, FS_Subset
  <2>3. /\ Cardinality(Conns) \in Nat /\ Cardinality(InUse) \in Nat
        /\ Cardinality(T) \in Nat /\ Cardinality(Goroutines) \in Nat
    BY <1>1, <1>2, FS_CardinalityType, WebSocketAssumption
  <2>4. QED
    BY <1>1, <1>2, <2>2, <2>3, WebSocketAssumption
<1>4. QED
  BY <1>3 DEF NewConn

\* Closing a connection changes the state of no other.
LEMMA ClosedType ==
  ASSUME TypeOK, NEW c \in Conns \cup {None}
  PROVE  Closed(c) \in [Conns -> {"ok", "dead", "closed"}]
BY DEF TypeOK, Closed

\* The two halves of the type invariant: the goroutines and the client.
GoType == /\ role \in [Goroutines -> {"none", "reader", "chain"}]
          /\ stage \in [Goroutines -> Stages]
          /\ mine \in [Goroutines -> Conns \cup {None}]
          /\ \A g \in Goroutines : /\ role[g] = "none" <=> stage[g] = "idle"
                                   /\ stage[g] = "read" <=> mine[g] # None

ClientType ==
  /\ conn \in Conns \cup {None}
  /\ connected \in BOOLEAN /\ gaveUp \in BOOLEAN /\ ctxDone \in BOOLEAN
  /\ reconnectCount \in 0 .. MaxReconnects
  /\ status \in [Conns -> {"ok", "dead", "closed"}]
  /\ seen \in [Goroutines -> 0 .. MaxReconnects]

UserType == user \in {"new", "dial", "spawn", "running", "closing", "closed"}

\* They make up the type invariant.
LEMMA Halves == TypeOK <=> GoType /\ ClientType /\ UserType
BY DEF TypeOK, GoType, ClientType, UserType

\* Going to another stage, ending and returning keep roles, stages and
\* connections of the goroutines together.
LEMMA MoveType ==
  ASSUME GoType, NEW g \in Goroutines, stage[g] \notin {"idle", "read"}, mine' = mine,
         \/ Exit(g)
         \/ Return(g)
         \/ \E s \in Stages \ {"idle", "read"} : Goto(g, s)
         \/ \E r \in {"reader", "chain"}, s \in {"loop", "down"} : ThenSpawn(g, r, s)
  PROVE  GoType'
<1>1. CASE Exit(g) \/ Return(g)
  BY <1>1 DEF GoType, Exit, Return, Stages
<1>2. ASSUME NEW s \in Stages \ {"idle", "read"}, Goto(g, s)
      PROVE  GoType'
  BY <1>2 DEF GoType, Goto
<1>3. ASSUME NEW r \in {"reader", "chain"}, NEW s \in {"loop", "down"},
             ThenSpawn(g, r, s)
      PROVE  GoType'
  BY <1>3 DEF GoType, ThenSpawn, Idle, Stages
<1>4. QED
  BY <1>1, <1>2, <1>3

-----------------------------------------------------------------------------
(* The invariant *)

\* No step takes the variables of the goroutines out of their types: a reader
\* that stops because the client gave up has no connection.
LEMMA GoTypeStep ==
  ASSUME TypeOK, ConnectionConsistent, Next
  PROVE  GoType'
<1> USE Halves
<1>1. ASSUME NEW g \in Goroutines, CheckContext(g)
      PROVE  GoType'
  BY <1>1, MoveType DEF CheckContext, Stages
<1>2. ASSUME NEW g \in Goroutines, Peek(g)
      PROVE  GoType'
  <2>1. conn \in Conns \cup {None} /\ mine' = [mine EXCEPT ![g] = conn]
    BY <1>2 DEF Peek, ClientType
  <2>2. CASE gaveUp
    <3>1. mine' = [mine EXCEPT ![g] = None]
      BY <2>1, <2>2 DEF ConnectionConsistent
    <3>2. QED
      BY <1>2, <2>2, <3>1 DEF Peek, Exit, GoType, Stages
  <2>3. CASE ~gaveUp /\ conn = None
    BY <1>2, <2>1, <2>3, SMTT(30) DEF Peek, Goto, GoType, Stages
  <2>4. CASE ~gaveUp /\ conn # None
    BY <1>2, <2>1, <2>4, SMTT(30) DEF Peek, Goto, GoType, Stages
  <2>5. QED
    BY <2>2, <2>3, <2>4
<1>3. ASSUME NEW g \in Goroutines, Receive(g) \/ ReadFails(g)
      PROVE  GoType'
  BY <1>3 DEF Receive, ReadFails, Goto, GoType, Stages
<1>4. ASSUME NEW g \in Goroutines,
             \/ TearDown(g) \/ ReadCount(g) \/ WriteCount(g)
             \/ Redial(g) \/ RedialFails(g) \/ Resume(g)
      PROVE  GoType'
  BY <1>4, MoveType
     DEF TearDown, ReadCount, WriteCount, Redial, RedialFails, Resume, Stages
<1>5. CASE StartReader
  BY <1>5 DEF StartReader, Idle, GoType, Stages
<1>6. CASE UNCHANGED goVars
  BY <1>6 DEF goVars, GoType
<1>7. QED
  BY <1>1, <1>2, <1>3, <1>4, <1>5, <1>6
     DEF Next, User, PeerGone, Reader, Reconnect, Start, StartDial, StartDialFails,
         StartSubscribeFails, Reset, Cancel, Disconnect

\* No step takes the fields of the client out of their types.
LEMMA ClientTypeStep ==
  ASSUME TypeOK, Next
  PROVE  ClientType' /\ UserType'
<1>1. ClientType /\ UserType /\ 0 \in 0 .. MaxReconnects
  BY Halves, WebSocketAssumption
<1> DEFINE Data == /\ conn' \in Conns \cup {None}
                   /\ reconnectCount' \in 0 .. MaxReconnects
                   /\ status' \in [Conns -> {"ok", "dead", "closed"}]
                   /\ seen' \in [Goroutines -> 0 .. MaxReconnects]
           Flags == connected' \in BOOLEAN /\ gaveUp' \in BOOLEAN /\ ctxDone' \in BOOLEAN
<1>2. ASSUME DialOk, seen' = seen
      PROVE  Data /\ Flags
  <2>1. Data
    BY <1>1, <1>2, NewConnType DEF DialOk, ClientType
  <2>2. Flags
    BY <1>1, <1>2 DEF DialOk, ClientType
  <2>3. QED
    BY <2>1, <2>2
<1>3. ASSUME PeerGone \/ \E g \in Goroutines : ReadFails(g)
      PROVE  Data /\ Flags
  <2>1. Data
    BY <1>1, <1>3 DEF ReadFails, PeerGone, ClientType, goVars
  <2>2. Flags
    BY <1>1, <1>3, Zenon DEF ReadFails, PeerGone, ClientType
  <2>3. QED
    BY <2>1, <2>2
<1>4. ASSUME NEW g \in Goroutines, TearDown(g)
      PROVE  Data /\ Flags
  <2>1. status' \in [Conns -> {"ok", "dead", "closed"}]
    BY <1>4, ClosedType DEF TearDown, TypeOK
  <2>2. QED
    BY <1>1, <1>4, <2>1 DEF TearDown, ClientType
<1>5. ASSUME NEW g \in Goroutines, ReadCount(g)
      PROVE  Data /\ Flags
  BY <1>1, <1>5 DEF ReadCount, ClientType, clientVars
<1>6. ASSUME NEW g \in Goroutines, WriteCount(g)
      PROVE  Data /\ Flags
  <2>1. AtMostMax(seen[g] + 1) \in 0 .. MaxReconnects
    BY <1>1, WebSocketAssumption DEF AtMostMax, ClientType
  <2>2. QED
    BY <1>1, <1>6, <2>1 DEF WriteCount, ClientType
<1>7. ASSUME NEW g \in Goroutines, Resume(g)
      PROVE  Data /\ Flags
  BY <1>1, <1>7 DEF Resume, ClientType
<1>8. ASSUME Reset \/ Cancel
      PROVE  Data /\ Flags
  <2>1. Data
    BY <1>1, <1>8 DEF Reset, Cancel, ClientType, goVars
  <2>2. Flags
    BY <1>1, <1>8, Zenon DEF Reset, Cancel, ClientType
  <2>3. QED
    BY <2>1, <2>2
<1>9. ASSUME Disconnect
      PROVE  Data /\ Flags
  <2>1. status' \in [Conns -> {"ok", "dead", "closed"}]
    BY <1>9, ClosedType DEF Disconnect, TypeOK
  <2>2. Data
    BY <1>1, <1>9, <2>1 DEF Disconnect, ClientType, goVars
  <2>3. Flags
    BY <1>1, <1>9, Zenon DEF Disconnect, ClientType
  <2>4. QED
    BY <2>2, <2>3
<1>10. ASSUME UNCHANGED <<clientVars, seen>>
      PROVE  Data /\ Flags
  <2>1. Data
    BY <1>1, <1>10 DEF clientVars, ClientType
  <2>2. Flags
    BY <1>1, <1>10, Zenon DEF clientVars, ClientType
  <2>3. QED
    BY <2>1, <2>2
<1> HIDE DEF Data, Flags
<1>11. Data /\ Flags
  BY <1>2, <1>3, <1>4, <1>5, <1>6, <1>7, <1>8, <1>9, <1>10
     DEF Next, User, Reader, Reconnect, CheckContext, Peek, Receive, Redial,
         RedialFails, Start, StartDial, StartDialFails, StartReader,
         StartSubscribeFails, goVars
<1>12. UserType'
  BY <1>1 DEF UserType, Next, User, Reader, Reconnect, CheckContext, Peek, Receive,
       ReadFails, TearDown, ReadCount, WriteCount, Redial, RedialFails, Resume,
       Start, StartDial, StartDialFails, StartReader, StartSubscribeFails,
       Reset, Cancel, Disconnect, PeerGone
<1>13. QED
  BY <1>11, <1>12 DEF ClientType, Data, Flags

\* Dialling, tearing down and disconnecting change the fields together, and
\* nothing else changes them.
LEMMA ConsistentStep ==
  ASSUME TypeOK, ConnectionConsistent, Next
  PROVE  ConnectionConsistent'
<1> USE WebSocketAssumption DEF ConnectionConsistent
<1>1. CASE DialOk
  <2>1. NewConn \in Conns /\ conn' = NewConn /\ status'[NewConn] = "ok"
    BY <1>1, NewConnType DEF DialOk, TypeOK
  <2>2. QED
    BY <1>1, <2>1 DEF DialOk
<1>2. ASSUME NEW g \in Goroutines, TearDown(g)
      PROVE  ConnectionConsistent'
  BY <1>2 DEF TearDown
<1>3. ASSUME PeerGone \/ \E g \in Goroutines : ReadFails(g)
      PROVE  ConnectionConsistent'
  BY <1>3 DEF ReadFails, PeerGone, TypeOK
<1>4. CASE Reset \/ Disconnect
  BY <1>4 DEF Reset, Disconnect
<1>5. CASE UNCHANGED <<conn, connected, gaveUp, status>>
  BY <1>5
<1>6. QED
  BY <1>1, <1>2, <1>3, <1>4, <1>5
     DEF Next, User, Reader, Reconnect, CheckContext, Peek, Receive, ReadCount,
         WriteCount, Redial, RedialFails, Resume, Start, StartDial, StartDialFails,
         StartReader, StartSubscribeFails, Cancel, clientVars

\* Only Cancel cancels, and what follows it is Disconnect.
LEMMA CancelStep ==
  ASSUME CancelClosesLast, Next
  PROVE  CancelClosesLast'
BY DEF CancelClosesLast, Next, User, Reader, Reconnect, CheckContext, Peek, Receive,
       ReadFails, TearDown, ReadCount, WriteCount, Redial, RedialFails, Resume,
       DialOk, Start, StartDial, StartDialFails, StartReader, StartSubscribeFails,
       Reset, Cancel, Disconnect, PeerGone, clientVars

\* A goroutine that attends to connection c: it reads it, or will read or
\* take down whatever connection is current when it gets there.
Attends(g, c) == \/ stage[g] \in {"loop", "peek", "resub", "down"}
                 \/ stage[g] = "read" /\ mine[g] = c

\* The steps of one goroutine leave the others attending.
LEMMA OthersAttend ==
  ASSUME TypeOK, NEW g \in Goroutines, Reader(g) \/ Reconnect(g),
         NEW h \in Goroutines \ {g}, NEW c \in Conns, Attends(h, c)
  PROVE  Attends(h, c)'
BY DEF TypeOK, Reader, Reconnect, CheckContext, Peek, Receive, ReadFails, TearDown,
       ReadCount, WriteCount, Redial, RedialFails, Resume, Exit, Goto, Return,
       ThenSpawn, Idle, Attends

\* Whichever goroutine attends to the current connection, after its step
\* one does, or the connection is gone.
LEMMA ReaderStep ==
  ASSUME IInv, Next
  PROVE  ConnectionHasReader'
<1> DEFINE Attended == \E g \in Goroutines : Attends(g, conn)
<1>a. ConnectionHasReader <=> (user = "running" /\ conn # None => Attended)
  BY DEF ConnectionHasReader, Attends
<1>b. ConnectionHasReader' <=> (user' = "running" /\ conn' # None => Attended')
  BY DEF ConnectionHasReader, Attends
<1> SUFFICES ASSUME user' = "running", conn' # None
             PROVE  Attended'
  BY <1>b
<1> USE DEF IInv
<1>1. ASSUME NEW g \in Goroutines, Redial(g)
      PROVE  Attended'
  BY <1>1 DEF Redial, Goto, TypeOK, Attends
<1>2. ASSUME NEW g \in Goroutines, TearDown(g)
      PROVE  Attended'
  BY <1>2 DEF TearDown
<1>3. ASSUME NEW g \in Goroutines, Reader(g) \/ Reconnect(g),
             ~Redial(g), ~TearDown(g)
      PROVE  Attended'
  <2>1. user' = user /\ conn' = conn
    BY <1>3 DEF Reader, Reconnect, CheckContext, Peek, Receive, ReadFails,
                ReadCount, WriteCount, RedialFails, Resume, clientVars
  <2>2. PICK h \in Goroutines : Attends(h, conn)
    BY <1>a, <2>1
  <2>3. CASE h # g
    BY <1>3, <2>1, <2>2, <2>3, OthersAttend DEF TypeOK
  <2>4. CASE h = g
    <3>1. CASE CheckContext(g)
      BY <2>1, <2>4, <3>1 DEF CheckContext, CancelClosesLast, Goto, Exit, TypeOK, Attends
    <3>2. CASE Peek(g)
      BY <2>1, <2>4, <3>2 DEF Peek, ConnectionConsistent, Goto, Exit, TypeOK, Attends
    <3>3. CASE Receive(g) \/ ReadFails(g)
      BY <2>1, <2>4, <3>3 DEF Receive, ReadFails, Goto, TypeOK, Attends
    <3>4. CASE Resume(g)
      BY <2>1, <2>4, <3>4 DEF Resume, ThenSpawn, Idle, TypeOK, Attends
    <3>5. CASE ReadCount(g) \/ WriteCount(g) \/ RedialFails(g)
      BY <2>2, <2>4, <3>5 DEF ReadCount, WriteCount, RedialFails, Attends
    <3>6. QED
      BY <1>3, <3>1, <3>2, <3>3, <3>4, <3>5 DEF Reader, Reconnect
  <2>5. QED
    BY <2>3, <2>4
<1>4. CASE StartReader
  BY <1>4 DEF StartReader, Idle, TypeOK, Attends
<1>5. CASE Start \/ StartDial \/ StartDialFails \/ StartSubscribeFails
             \/ Reset \/ Cancel \/ Disconnect
  BY <1>5 DEF Start, StartDial, StartDialFails, StartSubscribeFails, Reset, Cancel,
              Disconnect
<1>6. CASE PeerGone
  BY <1>a, <1>6 DEF PeerGone, goVars, Attends
<1>7. QED
  BY <1>1, <1>2, <1>3, <1>4, <1>5, <1>6 DEF Next, User

-----------------------------------------------------------------------------
(* Theorems *)

\* The inductive invariant holds in every reachable state.
THEOREM Invariance == Spec => []IInv
<1>1. Init => IInv
  <2>1. ASSUME Init
        PROVE  TypeOK
    <3>1. 0 \in 0 .. MaxReconnects
      BY WebSocketAssumption
    <3>2. ClientType /\ UserType
      BY <2>1, <3>1 DEF Init, ClientType, UserType
    <3>3. GoType
      BY <2>1 DEF Init, GoType, Stages
    <3>4. QED
      BY <3>2, <3>3, Halves
  <2>2. Init => ConnectionConsistent /\ CancelClosesLast /\ ConnectionHasReader
    BY DEF Init, ConnectionConsistent, CancelClosesLast, ConnectionHasReader
  <2>3. QED
    BY <2>1, <2>2 DEF IInv
<1>2. ASSUME IInv, Next
      PROVE  IInv'
  <2>1. GoType' /\ ClientType' /\ UserType'
    BY <1>2, GoTypeStep, ClientTypeStep DEF IInv
  <2>2. TypeOK'
    BY <2>1 DEF TypeOK, GoType, ClientType, UserType
  <2>3. QED
    BY <1>2, <2>2, ConsistentStep, CancelStep, ReaderStep DEF IInv
<1>3. IInv /\ UNCHANGED vars => IInv'
  BY DEF vars, clientVars, goVars, IInv, TypeOK, ConnectionConsistent,
         CancelClosesLast, ConnectionHasReader
<1>4. QED
  BY <1>1, <1>2, <1>3, PTL DEF Spec

\* The fields of the client and of its goroutines keep their types.
THEOREM TypeCorrect == Spec => []TypeOK
BY Invariance, PTL DEF IInv

\* The fields that describe the connection agree, however many goroutines
\* connect, tear down and give up.
THEOREM FieldsAgree == Spec => []ConnectionConsistent
BY Invariance, PTL DEF IInv

\* A running client never has a connection that nobody reads.
THEOREM ConnectionIsRead == Spec => []ConnectionHasReader
BY Invariance, PTL DEF IInv

-----------------------------------------------------------------------------
(* Nobody is left alone *)

\* A running client that has not given up has a goroutine, whether it has a
\* connection or not: a reader ends only with the client, and a chain only
\* when it gives up or leaves another goroutine behind (pythwebsocket.go:
\* 365-441).  It is what RecoversOrGivesUp rests on.
NotAbandoned == user = "running" /\ ~gaveUp => \E g \in Goroutines : role[g] # "none"

\* A goroutine leaves its place to nobody only when the context is done or
\* the client gave up.
LEMMA PlaceKept ==
  ASSUME TypeOK, NEW g \in Goroutines, Reader(g) \/ Reconnect(g), ~ctxDone, ~gaveUp',
         NEW h \in Goroutines, role[h] # "none"
  PROVE  role'[h] # "none"
BY DEF TypeOK, Reader, Reconnect, CheckContext, Peek, Receive, ReadFails, TearDown,
       ReadCount, WriteCount, Redial, RedialFails, Resume, DialOk, Exit, Goto, Return,
       ThenSpawn, Idle, clientVars

\* The counter of attempts and the flags are shared without order, and yet
\* no interleaving of readers and chains leaves a client that runs, and has
\* not given up, without a goroutine.
THEOREM ClientIsAttended == Spec => []NotAbandoned
<1>1. Init => NotAbandoned
  BY DEF Init, NotAbandoned
<1>2. ASSUME IInv, NotAbandoned, Next
      PROVE  NotAbandoned'
  <2> SUFFICES ASSUME user' = "running", ~gaveUp'
               PROVE  \E g \in Goroutines : role'[g] # "none"
    BY DEF NotAbandoned
  <2> USE <1>2 DEF IInv
  <2>1. ASSUME NEW g \in Goroutines, Reader(g) \/ Reconnect(g)
        PROVE  \E h \in Goroutines : role'[h] # "none"
    <3>1. user = "running"
      BY <2>1 DEF Reader, Reconnect, CheckContext, Peek, Receive, ReadFails, TearDown,
                  ReadCount, WriteCount, Redial, RedialFails, Resume
    <3>2. ~ctxDone /\ role[g] # "none"
      BY <2>1, <3>1 DEF CancelClosesLast, TypeOK, Reader, Reconnect, CheckContext, Peek,
         Receive, ReadFails, TearDown, ReadCount, WriteCount, Redial, RedialFails, Resume
    <3>3. QED
      BY <2>1, <3>2, PlaceKept
  <2>2. CASE StartReader
    BY <2>2 DEF StartReader, Idle, TypeOK
  <2>3. CASE PeerGone
    BY <2>3 DEF PeerGone, goVars, NotAbandoned
  <2>4. CASE \/ Start \/ StartDial \/ StartDialFails \/ StartSubscribeFails
             \/ Reset \/ Cancel \/ Disconnect
    BY <2>4 DEF Start, StartDial, StartDialFails, StartSubscribeFails, Reset, Cancel,
                Disconnect
  <2>5. QED
    BY <2>1, <2>2, <2>3, <2>4 DEF Next, User
<1>3. IInv /\ NotAbandoned /\ [Next]_vars => NotAbandoned'
  BY <1>2 DEF vars, goVars, clientVars, NotAbandoned
<1>4. QED
  BY <1>1, <1>3, Invariance, PTL DEF Spec
=============================================================================
