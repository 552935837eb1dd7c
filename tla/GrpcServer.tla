----------------------------- MODULE GrpcServer -----------------------------
(***************************************************************************)
(* The life cycle of GrpcServer.  Run launches a thread whose V_OnProcess- *)
(* ing builds and starts the gRPC server, keeps it in mpuServer and waits  *)
(* in Wait() until somebody shuts the server down; Stop, which the         *)
(* destructor calls too, is that somebody.  No lock guards mpuServer: Stop *)
(* may come before the thread has assigned it, and after a restart it may  *)
(* still hold the server of the run before.                                *)
(*                                                                         *)
(* gRPC is external: the server takes calls as soon as it is built;        *)
(* Shutdown refuses new ones and returns, as Wait does, when the last of   *)
(* them has ended.  bofstd is external: DestroyBofProcessingThread waits   *)
(* for the end of the thread, and Run is not called while there is one.    *)
(* This is the synchronous server, the one that is compiled.               *)
(***************************************************************************)
EXTENDS Integers

CONSTANTS
  Rpc,     \* the calls of clients, each one made once
  MaxRuns  \* bound: how often Run is called

ASSUME GrpcServerAssumption == MaxRuns \in Nat

VARIABLES
  user,       \* where the user thread is
  deleting,   \* the Stop it is in belongs to the destructor
  stopServer, \* the server which that Stop has found in mpuServer
  runs,       \* how often Run was called
  thread,     \* where V_OnProcessing is
  server,     \* what mpuServer holds
  live,       \* the server of this run takes calls
  rpc,        \* the state of each call
  failedAsserts \* history: the lines whose BOF_ASSERT has failed

userVars   == <<user, deleting, stopServer, runs>>
threadVars == <<thread, server, failedAsserts>>
vars       == <<userVars, threadVars, live, rpc>>

-----------------------------------------------------------------------------
(* A server is of this run ("current") or of one before, shut down ("old").*)
Pointer == {"null", "old", "current"}

TypeOK ==
  /\ user \in {"ready", "stop", "shutdown", "drain", "join", "deleted"}
  /\ deleting \in BOOLEAN
  /\ stopServer \in Pointer
  /\ runs \in 0 .. MaxRuns
  /\ thread \in {"none", "building", "built", "waiting", "ended"}
  /\ server \in Pointer
  /\ live \in BOOLEAN /\ (live => thread \in {"built", "waiting"})
  /\ rpc \in [Rpc -> {"idle", "active", "done"}]
  /\ failedAsserts \subseteq {246}

Init ==
  /\ user = "ready"
  /\ deleting = FALSE
  /\ stopServer = "null"
  /\ runs = 0
  /\ thread = "none"
  /\ server = "null"
  /\ live = FALSE
  /\ rpc = [r \in Rpc |-> "idle"]
  /\ failedAsserts = {}

Idle == \A r \in Rpc : rpc[r] # "active"

-----------------------------------------------------------------------------
(* The user thread.                                                        *)

(* Run returns when the thread has started, wherever it is by then.        *)
Run ==
  /\ user = "ready"
  /\ thread = "none"
  /\ runs < MaxRuns
  /\ runs' = runs + 1
  /\ thread' = "building"
  /\ server' = IF server = "null" THEN "null" ELSE "old"
  /\ UNCHANGED <<user, deleting, stopServer, live, rpc, failedAsserts>>

(* Stop of the user, and of the destructor.                                *)
Stop(delete) ==
  /\ user = "ready"
  /\ user' = "stop"
  /\ deleting' = delete
  /\ UNCHANGED <<stopServer, runs, threadVars, live, rpc>>

(* Mutant: the pointer is not tested.                                      *)
StopUntested ==
  /\ user = "stop"
  /\ stopServer' = server
  /\ user' = "shutdown"
  /\ UNCHANGED <<deleting, runs, threadVars, live, rpc>>

(* Mutant: the destructor leaves the shut down to the members.             *)
StopTestNotDeleting ==
  /\ user = "stop"
  /\ stopServer' = server
  /\ user' = IF server = "null" \/ deleting THEN "join" ELSE "shutdown"
  /\ UNCHANGED <<deleting, runs, threadVars, live, rpc>>

(* if (mpuServer): without a server there is nothing to shut down.         *)
StopTest ==
  /\ user = "stop"
  /\ stopServer' = server
  /\ user' = IF server = "null" THEN "join" ELSE "shutdown"
  /\ UNCHANGED <<deleting, runs, threadVars, live, rpc>>

(* mpuServer->Shutdown() of the server that was found.  The one of an      *)
(* earlier run is shut down already, or destroyed if the thread has        *)
(* assigned a new one meanwhile: this run is not touched.                  *)
StopShutdown ==
  /\ user = "shutdown"
  /\ IF stopServer = "current"
       THEN live' = FALSE /\ user' = "drain"
       ELSE user' = "join" /\ UNCHANGED live
  /\ UNCHANGED <<deleting, stopServer, runs, threadVars, rpc>>

(* Mutant: nobody waits for the calls in progress, nor for the thread.     *)
StopJoinUndrained ==
  /\ user = "drain" \/ (user = "join" /\ thread \in {"none", "ended"})
  /\ thread' = "none"
  /\ user' = IF deleting THEN "deleted" ELSE "ready"
  /\ UNCHANGED <<deleting, stopServer, runs, server, live, rpc, failedAsserts>>

StopDrained ==
  /\ user = "drain"
  /\ Idle
  /\ user' = "join"
  /\ UNCHANGED <<deleting, stopServer, runs, threadVars, live, rpc>>

StopJoin ==
  /\ user = "join"
  /\ thread \in {"none", "ended"}
  /\ thread' = "none"
  /\ user' = IF deleting THEN "deleted" ELSE "ready"
  /\ UNCHANGED <<deleting, stopServer, runs, server, live, rpc, failedAsserts>>

User ==
  \/ Run
  \/ \E delete \in BOOLEAN : Stop(delete)
  \/ StopTest
  \/ StopShutdown
  \/ StopDrained
  \/ StopJoin

-----------------------------------------------------------------------------
(* V_OnProcessing.                                                         *)

Build ==
  /\ thread = "building"
  /\ thread' = "built"
  /\ live' = TRUE
  /\ UNCHANGED <<userVars, server, rpc, failedAsserts>>

(* The port is not free: mpuServer becomes null and the thread ends,       *)
(* against the BOF_ASSERT of line 246.  The macro comes from bofstd, and   *)
(* the thread goes on behind it, as in a build without assertions and as   *)
(* the test that follows it in the code expects.                           *)
BuildFails ==
  /\ thread = "building"
  /\ thread' = "ended"
  /\ server' = "null"
  /\ failedAsserts' = failedAsserts \cup {246}
  /\ UNCHANGED <<userVars, live, rpc>>

(* The assignment of mpuServer destroys the one of the run before.         *)
Assign ==
  /\ thread = "built"
  /\ server' = "current"
  /\ thread' = "waiting"
  /\ UNCHANGED <<userVars, live, rpc, failedAsserts>>

(* Mutant: the thread does not wait for the shut down.                     *)
WaitReturnsIdle ==
  /\ thread = "waiting"
  /\ Idle
  /\ thread' = "ended"
  /\ UNCHANGED <<userVars, server, live, rpc, failedAsserts>>

(* Wait returns after the shut down, when the last call has ended.         *)
WaitReturns ==
  /\ thread = "waiting"
  /\ ~live
  /\ Idle
  /\ thread' = "ended"
  /\ UNCHANGED <<userVars, server, live, rpc, failedAsserts>>

Thread == Build \/ BuildFails \/ Assign \/ WaitReturns

-----------------------------------------------------------------------------
(* The clients and the handlers.                                           *)

Call(r) ==
  /\ live
  /\ rpc[r] = "idle"
  /\ rpc' = [rpc EXCEPT ![r] = "active"]
  /\ UNCHANGED <<userVars, threadVars, live>>

Reply(r) ==
  /\ rpc[r] = "active"
  /\ rpc' = [rpc EXCEPT ![r] = "done"]
  /\ UNCHANGED <<userVars, threadVars, live>>

Next ==
  \/ User
  \/ Thread
  \/ \E r \in Rpc : Call(r) \/ Reply(r)

Spec == Init /\ [][Next]_vars

(* The thread and the calls of the user go on, and every handler of a call *)
(* ends; Run, Stop and the calls of clients need not happen.               *)
Fairness ==
  /\ WF_vars(StopTest \/ StopShutdown \/ StopDrained \/ StopJoin)
  /\ WF_vars(Thread)
  /\ \A r \in Rpc : WF_vars(Reply(r))

FairSpec == Spec /\ Fairness

-----------------------------------------------------------------------------
(* Properties.                                                             *)

(* After Stop, and before the members of the object are destroyed, no      *)
(* thread is left, no server takes calls and no handler runs, however Run, *)
(* Stop, the thread and the clients have been interleaved.                 *)
QuietWhenDown ==
  /\ user = "deleted" => thread = "none"
  /\ thread = "none" => ~live /\ Idle

(* The server which Stop shuts down exists: Stop has found one, and in the *)
(* first run it is the one that mpuServer still holds.  Only after a       *)
(* restart the thread can destroy it between the test and the call.        *)
ShutdownHasServer ==
  user = "shutdown" =>
    /\ stopServer # "null"
    /\ runs = 1 => stopServer = server

(* "BOF_ASSERT(mpuServer != nullptr)" (bofgrpc.h 246): the server could be *)
(* built.  A port that is in use (BuildFails) breaks it.                   *)
BuildAssert == failedAsserts = {}

(* Stop returns if the thread is in Wait, has ended because the server     *)
(* could not be built, or was never there, with calls in progress or not.  *)
(* A Stop that comes while the server is being built need not return: it   *)
(* finds null, or the server of an earlier run, shuts nothing down that    *)
(* Wait waits for, and waits for the thread.                               *)
BuiltStopReturns ==
  (user = "stop" /\ thread \in {"none", "waiting", "ended"})
    ~> user \in {"ready", "deleted"}
=============================================================================
