-------------------------- MODULE GrpcServerProofs --------------------------
(***************************************************************************)
(* QuietWhenDown and ShutdownHasServer hold for any set of calls and any   *)
(* number of runs.                                                         *)
(***************************************************************************)
EXTENDS GrpcServer, TLAPS

(* Handlers run only between the build of the server and the return of     *)
(* Wait.                                                                   *)
ThreadServes ==
  /\ \A r \in Rpc : rpc[r] = "active" => thread \in {"built", "waiting"}
  /\ user = "deleted" => thread = "none"

(* What mpuServer can hold, by the run and by where the thread is.         *)
PointerOwner ==
  /\ server = "current" => thread \notin {"building", "built"}
  /\ server # "null" \/ thread # "none" => runs > 0
  /\ server = "old" => runs > 1

(* What Stop has found: the server of this run stays, one of a run before  *)
(* needs that run.                                                         *)
StopFound ==
  user = "shutdown" =>
    /\ stopServer # "null"
    /\ stopServer = "current" => server = "current"
    /\ stopServer = "old" => runs > 1

IInv == TypeOK /\ ThreadServes /\ PointerOwner /\ StopFound

LEMMA InitHolds == Init => IInv
<1> SUFFICES ASSUME Init PROVE IInv
  OBVIOUS
<1>1. runs \in 0 .. MaxRuns
  BY GrpcServerAssumption DEF Init, GrpcServerAssumption
<1>2. rpc \in [Rpc -> {"idle", "active", "done"}]
  BY DEF Init
<1>. QED
  BY <1>1, <1>2
  DEF Init, IInv, TypeOK, ThreadServes, PointerOwner, StopFound, Pointer

(* The steps of the user thread: Run makes the server an old one, the      *)
(* others only move, refuse calls or give up the thread.                   *)
LEMMA UserStep == IInv /\ User => IInv'
<1> SUFFICES ASSUME IInv, User PROVE IInv'
  OBVIOUS
<1> USE GrpcServerAssumption
    DEF IInv, TypeOK, ThreadServes, PointerOwner, StopFound, Pointer,
        threadVars, GrpcServerAssumption
<1>1. CASE Run
  BY <1>1 DEF Run
<1>2. CASE \E delete \in BOOLEAN : Stop(delete)
  BY <1>2 DEF Stop
<1>3. CASE StopTest
  <2>1. TypeOK' BY <1>3 DEF StopTest
  <2>2. ThreadServes' BY <1>3 DEF StopTest
  <2>3. PointerOwner' /\ StopFound' BY <1>3 DEF StopTest
  <2>. QED BY <2>1, <2>2, <2>3
<1>4. CASE StopShutdown
  <2>1. TypeOK' BY <1>4 DEF StopShutdown
  <2>2. ThreadServes' BY <1>4 DEF StopShutdown
  <2>3. PointerOwner' /\ StopFound' BY <1>4 DEF StopShutdown
  <2>. QED BY <2>1, <2>2, <2>3
<1>5. CASE StopDrained
  BY <1>5 DEF StopDrained
<1>6. CASE StopJoin
  BY <1>6 DEF StopJoin
<1>. QED BY <1>1, <1>2, <1>3, <1>4, <1>5, <1>6 DEF User

(* The steps of V_OnProcessing.                                            *)
LEMMA ThreadStep == IInv /\ Thread => IInv'
<1> SUFFICES ASSUME IInv, Thread PROVE IInv'
  OBVIOUS
<1> USE GrpcServerAssumption
    DEF IInv, TypeOK, ThreadServes, PointerOwner, StopFound, Pointer,
        userVars, GrpcServerAssumption
<1>1. CASE Build
  BY <1>1 DEF Build
<1>2. CASE BuildFails
  BY <1>2 DEF BuildFails
<1>3. CASE Assign
  BY <1>3 DEF Assign
<1>4. CASE WaitReturns
  BY <1>4 DEF WaitReturns, Idle
<1>. QED BY <1>1, <1>2, <1>3, <1>4 DEF Thread

LEMMA RpcStep ==
  ASSUME IInv, NEW r \in Rpc, Call(r) \/ Reply(r)
  PROVE  IInv'
<1> USE DEF IInv, TypeOK, ThreadServes, PointerOwner, StopFound, userVars,
            threadVars
<1>1. CASE Call(r)
  BY <1>1 DEF Call
<1>2. CASE Reply(r)
  BY <1>2 DEF Reply
<1>. QED BY <1>1, <1>2

LEMMA Invariance == Spec => []IInv
<1>1. IInv /\ UNCHANGED vars => IInv'
  BY DEF IInv, TypeOK, ThreadServes, PointerOwner, StopFound, vars, userVars,
         threadVars
<1>2. IInv /\ [Next]_vars => IInv'
  BY <1>1, UserStep, ThreadStep, RpcStep DEF Next
<1>. QED BY InitHolds, <1>2, PTL DEF Spec

(* Every variable keeps its type, and a server takes calls only while the  *)
(* thread holds it.                                                        *)
THEOREM GrpcTypeCorrect == Spec => []TypeOK
<1>1. IInv => TypeOK
  BY DEF IInv
<1>. QED BY <1>1, Invariance, PTL

(* After Stop, and before the members are destroyed, no thread, no open    *)
(* server and no handler is left.                                          *)
THEOREM GrpcStoppedIsQuiet == Spec => []QuietWhenDown
<1>1. IInv => QuietWhenDown
  BY DEF IInv, TypeOK, ThreadServes, QuietWhenDown, Idle
<1>. QED BY <1>1, Invariance, PTL

(* Shutdown is called on a server, in the first run on the one that is     *)
(* still there.                                                            *)
THEOREM GrpcShutdownSafe == Spec => []ShutdownHasServer
<1>1. IInv => ShutdownHasServer
  BY GrpcServerAssumption
  DEF IInv, TypeOK, Pointer, PointerOwner, StopFound, ShutdownHasServer,
      GrpcServerAssumption
<1>. QED BY <1>1, Invariance, PTL
=============================================================================
