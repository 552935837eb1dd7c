----------------------------- MODULE HttpServer -----------------------------
(***************************************************************************)
(* The life cycle of BofWebServer.  One user thread calls Start, Stop and  *)
(* the destructor; mServerThread runs listen() of cpp-httplib, which binds *)
(* the socket, accepts connections and hands each of them to the           *)
(* BofWebServerTaskQueue, a pool of PoolSize threads behind a bounded      *)
(* queue; when the socket is closed listen() shuts the task queue down and *)
(* returns.  Start and Stop poll is_running() up to a deadline, which may  *)
(* pass at any moment.                                                     *)
(*                                                                         *)
(* cpp-httplib is external: is_running_ holds from the moment the socket   *)
(* is bound until the task queue is shut down, and stop() does nothing     *)
(* while it does not hold.  A handler does not call Stop.                  *)
(***************************************************************************)
EXTENDS Integers, FiniteSets

CONSTANTS
  Conn,      \* the connections that clients make, each one once
  PoolSize,  \* ThreadPoolSize_U32
  MaxStarts  \* bound: how often Start launches the thread

ASSUME HttpServerAssumption ==
  /\ IsFiniteSet(Conn)
  /\ PoolSize \in Nat \ {0}
  /\ MaxStarts \in Nat

VARIABLES
  user,    \* where the user thread is
  after,   \* what follows the Stop it is in: a return, a launch, a delete
  started, \* what the last Start has returned
  starts,  \* how often the thread was launched
  thread,  \* where mServerThread is; "none" if it is not joinable
  sock,    \* svr_sock_ is valid
  running, \* is_running_
  conn     \* the state of each connection

userVars   == <<user, after, started, starts>>
serverVars == <<thread, sock, running>>
vars       == <<userVars, serverVars, conn>>

-----------------------------------------------------------------------------
UserState   == {"ready", "launch", "starting", "stop", "stopping", "join",
                "deleted"}
ThreadState == {"none", "launched", "bound", "listening", "draining", "ended"}
ConnState   == {"idle", "waiting", "queued", "served", "closed", "dropped"}

ConnIn(S) == {c \in Conn : conn[c] \in S}

Types ==
  /\ user \in UserState
  /\ after \in {"return", "launch", "delete"}
  /\ started \in BOOLEAN
  /\ starts \in 0 .. MaxStarts
  /\ thread \in ThreadState
  /\ sock \in BOOLEAN /\ running \in BOOLEAN
  /\ conn \in [Conn -> ConnState]

(* The limits of the pool; of a limit 0 nothing is known.                  *)
MaxQueued == PoolSize \div 2

PoolBounded ==
  /\ Cardinality(ConnIn({"served"})) <= PoolSize
  /\ MaxQueued > 0 => Cardinality(ConnIn({"queued"})) <= MaxQueued

TypeOK == Types /\ PoolBounded

Init ==
  /\ user = "ready"
  /\ after = "return"
  /\ started = FALSE
  /\ starts = 0
  /\ thread = "none"
  /\ sock = FALSE
  /\ running = FALSE
  /\ conn = [c \in Conn |-> "idle"]

(* A closed socket resets the connections that nobody has accepted.        *)
CloseSocket ==
  /\ sock' = FALSE
  /\ conn' = [c \in Conn |-> IF conn[c] = "waiting" THEN "dropped" ELSE conn[c]]

-----------------------------------------------------------------------------
(* The user thread.                                                        *)

(* Start stops what is running first: a joinable thread must not be        *)
(* replaced.                                                               *)
Start ==
  /\ user = "ready"
  /\ starts < MaxStarts
  /\ user' = IF thread # "none" THEN "stop" ELSE "launch"
  /\ after' = "launch"
  /\ UNCHANGED <<started, starts, serverVars, conn>>

Launch ==
  /\ user = "launch"
  /\ thread' = "launched"
  /\ starts' = starts + 1
  /\ user' = "starting"
  /\ UNCHANGED <<after, started, sock, running, conn>>

(* The poll ends when the server runs or its time is over, whatever the    *)
(* thread is doing by then.                                                *)
StartReturn ==
  /\ user = "starting"
  /\ started' = running
  /\ user' = "ready"
  /\ UNCHANGED <<after, starts, serverVars, conn>>

(* Stop of the user, and of the destructor.                                *)
Stop(next) ==
  /\ user = "ready"
  /\ user' = "stop"
  /\ after' = next
  /\ UNCHANGED <<started, starts, serverVars, conn>>

(* Mutant: the request is left in a flag which nobody reads.               *)
StopListeningFlag ==
  /\ user = "stop"
  /\ user' = "stopping"
  /\ UNCHANGED <<after, started, starts, serverVars, conn>>

(* stop() of cpp-httplib: without is_running_ it does nothing.             *)
StopListening ==
  /\ user = "stop"
  /\ user' = "stopping"
  /\ IF running THEN CloseSocket ELSE UNCHANGED <<sock, conn>>
  /\ UNCHANGED <<after, started, starts, thread, running>>

StopPolled ==
  /\ user = "stopping"
  /\ user' = "join"
  /\ UNCHANGED <<after, started, starts, serverVars, conn>>

(* Mutant: a thread that did not stop in time is let go.                   *)
StopJoinInTime ==
  /\ user = "join"
  /\ thread' = "none"
  /\ started' = FALSE
  /\ user' = CASE after = "return" -> "ready"
               [] after = "launch" -> "launch"
               [] after = "delete" -> "deleted"
  /\ UNCHANGED <<after, starts, sock, running, conn>>

(* The join has no deadline.                                               *)
StopJoin ==
  /\ user = "join"
  /\ thread \in {"none", "ended"}
  /\ thread' = "none"
  /\ started' = FALSE
  /\ user' = CASE after = "return" -> "ready"
               [] after = "launch" -> "launch"
               [] after = "delete" -> "deleted"
  /\ UNCHANGED <<after, starts, sock, running, conn>>

User ==
  \/ Start
  \/ Launch
  \/ StartReturn
  \/ \E next \in {"return", "delete"} : Stop(next)
  \/ StopListening
  \/ StopPolled
  \/ StopJoin

-----------------------------------------------------------------------------
(* listen() on mServerThread.                                              *)

(* From here on the kernel queues connections.                             *)
Bind ==
  /\ thread = "launched"
  /\ thread' = "bound"
  /\ sock' = TRUE
  /\ UNCHANGED <<userVars, running, conn>>

BindFails ==
  /\ thread = "launched"
  /\ thread' = "ended"
  /\ UNCHANGED <<userVars, sock, running, conn>>

(* The loop begins with a task queue of its own.                           *)
Listen ==
  /\ thread = "bound"
  /\ thread' = "listening"
  /\ running' = TRUE
  /\ UNCHANGED <<userVars, sock, conn>>

(* Mutant: the limit of the queue is left out of the parameters.           *)
AcceptUnlimited(c) ==
  /\ thread = "listening"
  /\ sock
  /\ conn[c] = "waiting"
  /\ conn' = [conn EXCEPT ![c] = "queued"]
  /\ UNCHANGED <<userVars, serverVars>>

(* enqueue: a connection for which the pool has no room is dropped.  If    *)
(* the limit is 0 (a pool of one thread) either may happen.                *)
Accept(c) ==
  /\ thread = "listening"
  /\ sock
  /\ conn[c] = "waiting"
  /\ \/ /\ MaxQueued = 0 \/ Cardinality(ConnIn({"queued"})) < MaxQueued
        /\ conn' = [conn EXCEPT ![c] = "queued"]
     \/ /\ Cardinality(ConnIn({"queued"})) >= MaxQueued
        /\ conn' = [conn EXCEPT ![c] = "dropped"]
  /\ UNCHANGED <<userVars, serverVars>>

(* accept() fails for a reason of its own.                                 *)
AcceptFails ==
  /\ thread = "listening"
  /\ CloseSocket
  /\ UNCHANGED <<userVars, thread, running>>

LeaveLoop ==
  /\ thread = "listening"
  /\ ~sock
  /\ thread' = "draining"
  /\ UNCHANGED <<userVars, sock, running, conn>>

(* shutdown: the pool is destroyed when its tasks have ended.              *)
Shutdown ==
  /\ thread = "draining"
  /\ ConnIn({"queued", "served"}) = {}
  /\ thread' = "ended"
  /\ running' = FALSE
  /\ UNCHANGED <<userVars, sock, conn>>

ServerThread ==
  \/ Bind
  \/ BindFails
  \/ Listen
  \/ \E c \in Conn : Accept(c)
  \/ AcceptFails
  \/ LeaveLoop
  \/ Shutdown

-----------------------------------------------------------------------------
(* The threads of the pool, and the clients.                               *)

(* Mutant: the pool is destroyed with the tasks that wait in it.           *)
TakeUntilShutdown(c) ==
  /\ thread = "listening"
  /\ conn[c] = "queued"
  /\ Cardinality(ConnIn({"served"})) < PoolSize
  /\ conn' = [conn EXCEPT ![c] = "served"]
  /\ UNCHANGED <<userVars, serverVars>>

Take(c) ==
  /\ conn[c] = "queued"
  /\ Cardinality(ConnIn({"served"})) < PoolSize
  /\ conn' = [conn EXCEPT ![c] = "served"]
  /\ UNCHANGED <<userVars, serverVars>>

(* The requests of the connection have been handled and it is closed.      *)
Serve(c) ==
  /\ conn[c] = "served"
  /\ conn' = [conn EXCEPT ![c] = "closed"]
  /\ UNCHANGED <<userVars, serverVars>>

Connect(c) ==
  /\ sock
  /\ conn[c] = "idle"
  /\ conn' = [conn EXCEPT ![c] = "waiting"]
  /\ UNCHANGED <<userVars, serverVars>>

Next ==
  \/ User
  \/ ServerThread
  \/ \E c \in Conn : Take(c) \/ Serve(c) \/ Connect(c)

Spec == Init /\ [][Next]_vars

(* Every thread goes on with what it has begun; cpp-httplib ends a request *)
(* by its timeouts and a kept connection by its count and timeout.         *)
(* Whether the user calls, a client connects or accept fails is open.      *)
Fairness ==
  /\ WF_vars(Launch \/ StartReturn \/ StopListening \/ StopPolled \/ StopJoin)
  /\ WF_vars(Bind \/ BindFails \/ Listen \/ LeaveLoop \/ Shutdown)
  /\ \A c \in Conn : WF_vars(Accept(c)) /\ WF_vars(Take(c)) /\ WF_vars(Serve(c))

FairSpec == Spec /\ Fairness

-----------------------------------------------------------------------------
(* Properties.                                                             *)

(* When a new thread is launched over mServerThread, when the object is    *)
(* deleted, and after every Stop, no thread is left, no socket is open and *)
(* no task of the pool works for a connection: std::thread would terminate *)
(* the program in the first case, a handler would use a deleted object in  *)
(* the second.                                                             *)
QuietWhenDown ==
  /\ user \in {"launch", "deleted"} => thread = "none"
  /\ thread = "none" =>
       ~sock /\ ~running /\ ConnIn({"waiting", "queued", "served"}) = {}

(* The Stop of a server which Start has reported as running returns,       *)
(* although its join has no deadline, and whatever the server is doing:    *)
(* requests in progress, a backlog, an accept that has failed meanwhile.   *)
(* Without the condition it need not: a Start whose time is over leaves a  *)
(* thread that binds later, stop() of the next Stop or Start finds no      *)
(* running server, and the join waits for ever.                            *)
StartedStopReturns ==
  (started /\ user = "stop") ~> user \in {"ready", "launch", "deleted"}

(* A connection that the kernel has queued or the server has accepted is   *)
(* answered or closed, also when Stop comes between any two of its steps   *)
(* or the pool has no room for it (comment of enqueue).                    *)
ConnectionEnds ==
  \A c \in Conn : conn[c] \in {"waiting", "queued", "served"}
                    ~> conn[c] \in {"closed", "dropped"}
=============================================================================
