-------------------------- MODULE HttpServerProofs --------------------------
(***************************************************************************)
(* QuietWhenDown holds for any number of connections, size of the pool and *)
(* number of starts.                                                       *)
(***************************************************************************)
EXTENDS HttpServer, FiniteSetTheorems, TLAPS

(* What follows from what, backwards along listen(): a connection waits on *)
(* an open socket, the socket belongs to a thread between bind and the end *)
(* of the loop, tasks belong to one between the begin of the loop and the  *)
(* shutdown of the task queue.                                             *)
WaitingNeedsSocket == \A c \in Conn : conn[c] = "waiting" => sock

TasksNeedQueue ==
  \A c \in Conn :
    conn[c] \in {"queued", "served"} => thread \in {"listening", "draining"}

ThreadOwns ==
  /\ sock => thread \in {"bound", "listening"}
  /\ running => thread \in {"listening", "draining"}
  /\ user \in {"launch", "deleted"} => thread = "none"

(* A Start that has begun has a launch left.                               *)
StartBounded ==
  user = "launch" \/ (user \in {"stop", "stopping", "join"} /\ after = "launch")
    => starts < MaxStarts

IInv ==
  Types /\ StartBounded /\ WaitingNeedsSocket /\ TasksNeedQueue /\ ThreadOwns

(* A closed socket leaves no waiting connection, and no other trace.       *)
LEMMA CloseSocketDrops ==
  ASSUME Types, CloseSocket
  PROVE  /\ conn' \in [Conn -> ConnState]
         /\ \A c \in Conn : conn'[c] # "waiting"
         /\ \A c \in Conn : conn'[c] \in {"queued", "served"} => conn'[c] = conn[c]
  BY DEF Types, CloseSocket, ConnState

LEMMA InitHolds == Init => IInv
<1> SUFFICES ASSUME Init PROVE IInv
  OBVIOUS
<1>1. starts \in 0 .. MaxStarts
  BY HttpServerAssumption DEF Init, HttpServerAssumption
<1>2. conn \in [Conn -> ConnState]
  BY DEF Init, ConnState
<1>. QED
  BY <1>1, <1>2
  DEF Init, IInv, Types, StartBounded, WaitingNeedsSocket, TasksNeedQueue,
      ThreadOwns, UserState, ThreadState

(* The steps of the user thread: only StopListening touches a connection.  *)
LEMMA UserStep == IInv /\ User => IInv'
<1> SUFFICES ASSUME IInv, User PROVE IInv'
  OBVIOUS
<1> USE DEF IInv, Types, StartBounded, WaitingNeedsSocket, TasksNeedQueue,
            ThreadOwns, UserState, ThreadState, userVars, serverVars
<1>1. CASE Start
  BY <1>1 DEF Start
<1>2. CASE Launch
  BY <1>2, HttpServerAssumption DEF Launch, HttpServerAssumption
<1>3. CASE StartReturn
  BY <1>3 DEF StartReturn
<1>4. CASE \E next \in {"return", "delete"} : Stop(next)
  BY <1>4 DEF Stop
<1>5. CASE StopListening
  <2>1. CASE running
    BY <1>5, <2>1, CloseSocketDrops DEF StopListening, CloseSocket
  <2>2. CASE ~running
    BY <1>5, <2>2 DEF StopListening
  <2>. QED BY <2>1, <2>2
<1>6. CASE StopPolled
  BY <1>6 DEF StopPolled
<1>7. CASE StopJoin
  BY <1>7 DEF StopJoin
<1>. QED BY <1>1, <1>2, <1>3, <1>4, <1>5, <1>6, <1>7 DEF User

(* The steps of listen().                                                  *)
LEMMA ThreadStep == IInv /\ ServerThread => IInv'
<1> SUFFICES ASSUME IInv, ServerThread PROVE IInv'
  OBVIOUS
<1> USE DEF IInv, Types, StartBounded, WaitingNeedsSocket, TasksNeedQueue,
            ThreadOwns,
            ThreadState, userVars, serverVars
<1>1. CASE Bind
  BY <1>1 DEF Bind
<1>2. CASE BindFails
  BY <1>2 DEF BindFails
<1>3. CASE Listen
  BY <1>3 DEF Listen
<1>4. CASE \E c \in Conn : Accept(c)
  BY <1>4 DEF Accept, ConnState
<1>5. CASE AcceptFails
  BY <1>5, CloseSocketDrops DEF AcceptFails, CloseSocket
<1>6. CASE LeaveLoop
  BY <1>6 DEF LeaveLoop
<1>7. CASE Shutdown
  <2>1. \A c \in Conn : conn[c] \notin {"queued", "served"}
    BY <1>7 DEF Shutdown, ConnIn
  <2>. QED BY <1>7, <2>1 DEF Shutdown
<1>. QED BY <1>1, <1>2, <1>3, <1>4, <1>5, <1>6, <1>7 DEF ServerThread

LEMMA ConnStep ==
  ASSUME IInv, NEW c \in Conn, Take(c) \/ Serve(c) \/ Connect(c)
  PROVE  IInv'
<1> USE DEF IInv, Types, StartBounded, WaitingNeedsSocket, TasksNeedQueue,
            ThreadOwns,
            ConnState, userVars, serverVars
<1>1. CASE Take(c)
  BY <1>1 DEF Take
<1>2. CASE Serve(c)
  BY <1>2 DEF Serve
<1>3. CASE Connect(c)
  BY <1>3 DEF Connect
<1>. QED BY <1>1, <1>2, <1>3

(* IInv holds in every reachable state.                                    *)
LEMMA Invariance == Spec => []IInv
<1>1. IInv /\ UNCHANGED vars => IInv'
  BY DEF IInv, Types, StartBounded, WaitingNeedsSocket, TasksNeedQueue,
            ThreadOwns, vars,
         userVars, serverVars
<1>2. IInv /\ [Next]_vars => IInv'
  BY <1>1, UserStep, ThreadStep, ConnStep DEF Next
<1>. QED BY InitHolds, <1>2, PTL DEF Spec

(* Sets of connections are finite.                                         *)
LEMMA ConnInFinite ==
  ASSUME NEW S
  PROVE  IsFiniteSet(ConnIn(S)) /\ Cardinality(ConnIn(S)) \in Nat
<1>1. ConnIn(S) \in SUBSET Conn
  BY DEF ConnIn
<1>2. IsFiniteSet(ConnIn(S))
  BY <1>1, HttpServerAssumption, FS_Subset DEF HttpServerAssumption
<1>. QED BY <1>2, FS_CardinalityType

(* A set with one element more has one more, at most.                      *)
LEMMA OneMore ==
  ASSUME NEW A, IsFiniteSet(A), NEW x, NEW B \in SUBSET (A \cup {x})
  PROVE  Cardinality(B) <= Cardinality(A) + 1
<1>1. Cardinality(A) \in Nat
  BY FS_CardinalityType
<1>2. IsFiniteSet(A \cup {x})
  BY FS_AddElement
<1>3. Cardinality(A \cup {x}) = IF x \in A THEN Cardinality(A) ELSE Cardinality(A) + 1
  BY FS_AddElement
<1>4. IsFiniteSet(B) /\ Cardinality(B) <= Cardinality(A \cup {x})
  BY <1>2, FS_Subset
<1>5. Cardinality(B) \in Nat
  BY <1>4, FS_CardinalityType
<1>. QED BY <1>1, <1>3, <1>4, <1>5

(* A connection that moves adds at most itself to the set it comes to, and *)
(* nothing to another.                                                     *)
LEMMA ConnMoves ==
  ASSUME NEW s, NEW c \in Conn, NEW t, Types, conn' = [conn EXCEPT ![c] = t]
  PROVE  /\ ConnIn({s})' \in SUBSET (ConnIn({s}) \cup {c})
         /\ t # s => ConnIn({s})' \in SUBSET ConnIn({s})
  BY DEF ConnIn, Types

(* The limits of the pool hold in every step.                              *)
LEMMA PoolStep == Types /\ PoolBounded /\ [Next]_vars => PoolBounded'
<1> SUFFICES ASSUME Types, PoolBounded, [Next]_vars PROVE PoolBounded'
  OBVIOUS
<1> DEFINE Q == Cardinality(ConnIn({"queued"}))
           S == Cardinality(ConnIn({"served"}))
<1>1. Q \in Nat /\ S \in Nat
  BY ConnInFinite
<1>2. CASE UNCHANGED conn
  BY <1>2 DEF PoolBounded, ConnIn
<1>3. CASE CloseSocket
  <2>1. ConnIn({"queued"})' = ConnIn({"queued"})
    BY <1>3 DEF CloseSocket, ConnIn
  <2>2. ConnIn({"served"})' = ConnIn({"served"})
    BY <1>3 DEF CloseSocket, ConnIn
  <2>. QED BY <2>1, <2>2 DEF PoolBounded
<1>4. ASSUME NEW c \in Conn, NEW t \in ConnState, conn' = [conn EXCEPT ![c] = t],
             t = "queued" => MaxQueued = 0 \/ Q < MaxQueued,
             t = "served" => S < PoolSize
      PROVE  PoolBounded'
  <2> DEFINE Queued == ConnIn({"queued"})
             Served == ConnIn({"served"})
  <2>0. IsFiniteSet(Queued) /\ IsFiniteSet(Served)
    BY ConnInFinite
  <2>1. Q' <= Q + 1 /\ (t # "queued" => Q' <= Q)
    <3>1. /\ Queued' \in SUBSET (Queued \cup {c})
          /\ t # "queued" => Queued' \in SUBSET Queued
      BY <1>4, ConnMoves
    <3>. QED BY <2>0, <3>1, OneMore, FS_Subset
  <2>2. S' <= S + 1 /\ (t # "served" => S' <= S)
    <3>1. /\ Served' \in SUBSET (Served \cup {c})
          /\ t # "served" => Served' \in SUBSET Served
      BY <1>4, ConnMoves
    <3>. QED BY <2>0, <3>1, OneMore, FS_Subset
  <2>3. conn' \in [Conn -> ConnState]
    BY <1>4 DEF Types
  <2>4. IsFiniteSet(ConnIn({"queued"})') /\ IsFiniteSet(ConnIn({"served"})')
    <3>1. ConnIn({"queued"})' \in SUBSET Conn /\ ConnIn({"served"})' \in SUBSET Conn
      BY DEF ConnIn
    <3>. QED BY <3>1, HttpServerAssumption, FS_Subset DEF HttpServerAssumption
  <2>5. Q' \in Nat /\ S' \in Nat
    BY <2>4, FS_CardinalityType
  <2>6. MaxQueued \in Nat /\ PoolSize \in Nat
    BY HttpServerAssumption DEF HttpServerAssumption, MaxQueued
  <2>. QED BY <1>1, <1>4, <2>1, <2>2, <2>5, <2>6 DEF PoolBounded, MaxQueued
<1>5. CASE \E c \in Conn : Accept(c)
  BY <1>4, <1>5 DEF Accept, ConnState
<1>6. CASE \E c \in Conn : Take(c)
  BY <1>4, <1>6 DEF Take, ConnState
<1>7. CASE \E c \in Conn : Serve(c) \/ Connect(c)
  BY <1>4, <1>7 DEF Serve, Connect, ConnState
<1>8. CASE StopListening \/ AcceptFails
  BY <1>2, <1>3, <1>8 DEF StopListening, AcceptFails
<1>9. CASE UNCHANGED vars \/ (User /\ ~StopListening)
  BY <1>2, <1>9
  DEF vars, User, Start, Launch, StartReturn, Stop, StopPolled, StopJoin
<1>10. CASE Bind \/ BindFails \/ Listen \/ LeaveLoop \/ Shutdown
  BY <1>2, <1>10 DEF Bind, BindFails, Listen, LeaveLoop, Shutdown
<1>. QED
  BY <1>5, <1>6, <1>7, <1>8, <1>9, <1>10 DEF Next, ServerThread

(* Every variable of the server keeps its type, and the pool its limits:   *)
(* no more requests at a time than threads, no longer a queue than         *)
(* MaxQueuedRequests_U32.                                                  *)
THEOREM HttpTypeCorrect == Spec => []TypeOK
<1>1. IInv => Types
  BY DEF IInv
<1>2. Init => PoolBounded
  <2> SUFFICES ASSUME Init PROVE PoolBounded
    OBVIOUS
  <2>1. ConnIn({"served"}) = {} /\ ConnIn({"queued"}) = {}
    BY DEF Init, ConnIn
  <2>2. Cardinality(ConnIn({"served"})) = 0 /\ Cardinality(ConnIn({"queued"})) = 0
    BY <2>1, FS_EmptySet
  <2>. QED BY <2>2, HttpServerAssumption
           DEF PoolBounded, HttpServerAssumption, MaxQueued
<1>3. TypeOK <=> Types /\ PoolBounded
  BY DEF TypeOK
<1>. QED BY <1>1, <1>2, <1>3, PoolStep, Invariance, PTL DEF Spec

(* A thread is launched, the object deleted and a Stop returned only when  *)
(* no thread, socket or task of an earlier Start is left.                  *)
THEOREM StoppedIsQuiet == Spec => []QuietWhenDown
<1>1. IInv => QuietWhenDown
  BY DEF IInv, WaitingNeedsSocket, TasksNeedQueue, ThreadOwns, QuietWhenDown,
         ConnIn
<1>. QED BY <1>1, Invariance, PTL
=============================================================================
