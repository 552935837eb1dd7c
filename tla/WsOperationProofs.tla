------------------------- MODULE WsOperationProofs -------------------------
(***************************************************************************)
(* Type correctness of WsOperation, the theorem that a BofWebSocket        *)
(* without a context holds nothing of a session, and the one about the     *)
(* registry of a server, for every value of the constants.  Boolean        *)
(* variables and those with arithmetic are typed in steps of their own.    *)
(***************************************************************************)
EXTENDS WsOperation, TLAPS, SequenceTheorems, FiniteSetTheorems

(* A push into the result queue, which is refused when the queue is full,  *)
(* keeps its type and its capacity (V_OnProcessing and LwsCallback).       *)
LEMMA TypePushResult ==
  ASSUME TypeOKResults, NEW r \in Result, PushResult(r)
  PROVE  TypeOKResults'
<1> USE DEF TypeOKResults
<1>0. ResultCapacity \in Nat BY ConnectionAssumption DEF ResultCapacity
<1>1. CASE Len(results) < ResultCapacity
  <2>1. results' = Append(results, r) BY <1>1 DEF PushResult
  <2>2. results' \in Seq(Result) /\ Len(results') = Len(results) + 1
    BY <2>1, AppendProperties
  <2>3. answers' \in [Ticket -> 0 .. 2] BY <1>1 DEF PushResult
  <2>4. Len(results) \in Nat BY LenProperties
  <2> QED BY <1>0, <1>1, <2>2, <2>3, <2>4
<1>2. CASE ~(Len(results) < ResultCapacity)
  BY <1>2 DEF PushResult, resultVars
<1> QED BY <1>1, <1>2

(* So does the pop of GetWebSocketOperationResult.                         *)
LEMMA TypePopResult ==
  ASSUME TypeOKResults, results # <<>>, results' = Tail(results),
         UNCHANGED answers
  PROVE  TypeOKResults'
<1>1. results' \in Seq(Result) /\ Len(results') = Len(results) - 1
  BY HeadTailProperties DEF TypeOKResults
<1>2. Len(results) \in Nat /\ ResultCapacity \in Nat
  BY LenProperties, ConnectionAssumption DEF TypeOKResults, ResultCapacity
<1> QED BY <1>1, <1>2 DEF TypeOKResults

(* So does the reset of the queue by ResetWebSocketOperation or a cancel.  *)
LEMMA TypeFlushResults ==
  ASSUME TypeOKResults, results' = <<>>, UNCHANGED answers
  PROVE  TypeOKResults'
BY EmptySeq, ConnectionAssumption DEF TypeOKResults, ResultCapacity

(* BOF_LWS_CLIENT_DISCONNECT leaves a typed connection.                    *)
LEMMA TypeClientDisconnect ==
  ASSUME ClientDisconnect
  PROVE  TypeOKLink' /\ ctx' \in BOOLEAN /\ connectDone' \in BOOLEAN
<1>1. TypeOKLink'
  BY ConnectionAssumption DEF ClientDisconnect, TypeOKLink, WsiState
<1>2. ctx' \in BOOLEAN /\ connectDone' \in BOOLEAN
  BY DEF ClientDisconnect
<1> QED BY <1>1, <1>2

(* The constructor leaves a typed object.                                  *)
LEMMA TypeInit == Init => TypeOK
<1> SUFFICES ASSUME Init PROVE TypeOK OBVIOUS
<1>1. TypeOKLink
  BY ConnectionAssumption DEF Init, InitConnection, TypeOKLink, WsiState
<1>2. TypeOKResults
  BY ConnectionAssumption, EmptySeq
     DEF Init, InitConnection, TypeOKResults, ResultCapacity
<1>3. writeOps \in Seq(Ticket) /\ Len(writeOps) <= WriteOpCapacity
  BY ConnectionAssumption, EmptySeq DEF Init, InitConnection, WriteOpCapacity
<1>4. TypeOKConnection
  <2>1. ctx = FALSE /\ connectDone = FALSE /\ failedAsserts = {}
    BY DEF Init, InitConnection
  <2>2. ctx \in BOOLEAN /\ connectDone \in BOOLEAN BY <2>1
  <2>3. failedAsserts \in SUBSET {964, 997} BY <2>1
  <2> QED BY <1>1, <1>2, <1>3, <2>2, <2>3 DEF TypeOKConnection
<1>5. TypeOKFlags
  BY DEF Init, TypeOKFlags
<1>6. params \in Seq(Param) /\ Len(params) <= NbMaxOperationPending
  BY ConnectionAssumption, EmptySeq DEF Init
<1>7. TypeOKWorker
  BY <1>6 DEF Init, TypeOKWorker, Result, Status, WorkerState
<1>8. TypeOKThreads
  BY ConnectionAssumption DEF Init, TypeOKThreads, UserState, NoCall, Ticket
<1> QED BY <1>4, <1>5, <1>7, <1>8 DEF TypeOK

(* Programming an operation keeps the types: a ticket that is drawn is one *)
(* of the tickets, and the operation queue does not exceed its capacity.   *)
LEMMA TypePushParam ==
  ASSUME TypeOK, NEW op \in Operation, NEW kind \in {"async", "sync", "stop"},
         NEW full \in UserState, PushParam(op, kind, full)
  PROVE  TypeOK'
<1>1. TypeOKConnection'
  BY DEF TypeOK, PushParam, connVars, linkVars, resultVars, TypeOKConnection,
         TypeOKLink, TypeOKResults
<1>2. TypeOKFlags'
  BY DEF TypeOK, TypeOKFlags, PushParam, workerVars, cancelVars
<1>3. mTicket \in Ticket
  BY ConnectionAssumption DEF TypeOK, TypeOKThreads, PushParam, Ticket
<1>4. params' \in Seq(Param) /\ Len(params') <= NbMaxOperationPending
  <2>1. [op |-> op, ticket |-> mTicket] \in Param BY <1>3 DEF Param
  <2>2. params \in Seq(Param) /\ Len(params) \in Nat /\ Len(params) <= NbMaxOperationPending
    BY LenProperties DEF TypeOK, TypeOKWorker
  <2>3. CASE Len(params) < NbMaxOperationPending
    <3>1. params' = Append(params, [op |-> op, ticket |-> mTicket])
      BY <2>3 DEF PushParam
    <3>2. params' \in Seq(Param) /\ Len(params') = Len(params) + 1
      BY <2>1, <2>2, <3>1, AppendProperties
    <3> QED BY <2>2, <2>3, <3>2, ConnectionAssumption
  <2>4. CASE ~(Len(params) < NbMaxOperationPending)
    BY <2>2, <2>4 DEF PushParam
  <2> QED BY <2>3, <2>4
<1>5. TypeOKWorker'
  BY <1>4 DEF TypeOK, TypeOKWorker, PushParam, workerVars
<1>6. programmed' \in [Ticket -> Operation \cup {"none"}]
  BY <1>3 DEF TypeOK, TypeOKThreads, PushParam
<1>7. userCall' \in [kind : {"async", "sync", "stop"}, ticket : Ticket \cup {0}]
  BY <1>3 DEF TypeOK, TypeOKThreads, PushParam
<1>8. TypeOKThreads'
  BY <1>3, <1>6, <1>7, ConnectionAssumption
     DEF TypeOK, TypeOKThreads, PushParam, UserState, Ticket
<1> QED BY <1>1, <1>2, <1>5, <1>8 DEF TypeOK

(* Every step of the user thread (Run, the operations, the wrappers that   *)
(* wait, Stop) keeps the types.                                            *)
LEMMA TypeUser ==
  ASSUME TypeOK, User PROVE TypeOK'
<1> USE DEF TypeOK
<1>1. CASE Run
  <2>1. TypeOKConnection'
    BY <1>1 DEF Run, TypeOKConnection, TypeOKLink, TypeOKResults, connVars, linkVars, resultVars
  <2>2. TypeOKFlags'
    BY <1>1 DEF Run, TypeOKFlags, workerVars, cancelVars, userVars
  <2>3. TypeOKWorker'
    BY <1>1 DEF Run, TypeOKWorker, workerVars, WorkerState
  <2>4. TypeOKThreads'
    BY <1>1 DEF Run, TypeOKThreads, cancelVars, userVars, ghostVars, UserState, NoCall
  <2> QED BY <2>1, <2>2, <2>3, <2>4 DEF TypeOK
<1>2. CASE MarkPending
  <2>1. TypeOKConnection'
    BY <1>2 DEF MarkPending, TypeOKConnection, TypeOKLink, TypeOKResults, connVars, linkVars, resultVars
  <2>2. TypeOKFlags'
    BY <1>2 DEF MarkPending, TypeOKFlags, workerVars, cancelVars, userVars
  <2>3. TypeOKWorker'
    BY <1>2 DEF MarkPending, TypeOKWorker, workerVars, WorkerState
  <2>4. TypeOKThreads'
    BY <1>2 DEF MarkPending, TypeOKThreads, cancelVars, userVars, ghostVars, UserState, NoCall
  <2> QED BY <2>1, <2>2, <2>3, <2>4 DEF TypeOK
<1>3. CASE GetResult
  <2>1. TypeOKConnection'
    <3>1. TypeOKResults' BY <1>3, TypePopResult DEF GetResult, TypeOKConnection
    <3> QED BY <1>3, <3>1 DEF GetResult, TypeOKConnection, TypeOKLink, linkVars
  <2>2. TypeOKFlags'
    BY <1>3 DEF GetResult, opVars, TypeOKFlags, workerVars, cancelVars, userVars
  <2>3. TypeOKWorker'
    BY <1>3 DEF GetResult, opVars, TypeOKWorker, workerVars, WorkerState
  <2>4. TypeOKThreads'
    BY <1>3 DEF GetResult, opVars, TypeOKThreads, cancelVars, userVars, ghostVars, UserState, NoCall
  <2> QED BY <2>1, <2>2, <2>3, <2>4 DEF TypeOK
<1>4. CASE SyncGetResult
  <2>1. TypeOKConnection'
    <3>1. TypeOKResults' BY <1>4, TypePopResult DEF SyncGetResult, TypeOKConnection
    <3> QED BY <1>4, <3>1 DEF SyncGetResult, TypeOKConnection, TypeOKLink, linkVars
  <2>2. TypeOKFlags'
    BY <1>4 DEF SyncGetResult, TypeOKFlags, workerVars, cancelVars, userVars
  <2>3. TypeOKWorker'
    BY <1>4 DEF SyncGetResult, TypeOKWorker, workerVars, WorkerState
  <2>4. TypeOKThreads'
    BY <1>4 DEF SyncGetResult, TypeOKThreads, cancelVars, userVars, ghostVars, UserState, NoCall
  <2> QED BY <2>1, <2>2, <2>3, <2>4 DEF TypeOK
<1>5. CASE SyncTimeout
  <2>1. TypeOKConnection'
    BY <1>5 DEF SyncTimeout, TypeOKConnection, TypeOKLink, TypeOKResults, connVars, linkVars, resultVars
  <2>2. TypeOKFlags'
    BY <1>5 DEF SyncTimeout, TypeOKFlags, workerVars, cancelVars, userVars
  <2>3. TypeOKWorker'
    BY <1>5 DEF SyncTimeout, TypeOKWorker, workerVars, WorkerState
  <2>4. TypeOKThreads'
    BY <1>5 DEF SyncTimeout, TypeOKThreads, cancelVars, userVars, ghostVars, UserState, NoCall
  <2> QED BY <2>1, <2>2, <2>3, <2>4 DEF TypeOK
<1>6. CASE StopThread
  <2>1. TypeOKConnection'
    BY <1>6 DEF StopThread, TypeOKConnection, TypeOKLink, TypeOKResults, connVars, linkVars, resultVars
  <2>2. TypeOKFlags'
    BY <1>6 DEF StopThread, TypeOKFlags, workerVars, cancelVars, userVars
  <2>3. TypeOKWorker'
    BY <1>6 DEF StopThread, TypeOKWorker, workerVars, WorkerState
  <2>4. TypeOKThreads'
    BY <1>6 DEF StopThread, TypeOKThreads, cancelVars, userVars, ghostVars, UserState, NoCall
  <2> QED BY <2>1, <2>2, <2>3, <2>4 DEF TypeOK
<1>7. CASE StopJoin
  <2>1. TypeOKConnection'
    BY <1>7, TypeClientDisconnect DEF StopJoin, TypeOKConnection, TypeOKLink, TypeOKResults, connVars, linkVars, resultVars
  <2>2. TypeOKFlags'
    BY <1>7 DEF StopJoin, TypeOKFlags, workerVars, cancelVars, userVars
  <2>3. TypeOKWorker'
    BY <1>7 DEF StopJoin, TypeOKWorker, workerVars, WorkerState
  <2>4. TypeOKThreads'
    BY <1>7 DEF StopJoin, TypeOKThreads, cancelVars, userVars, ghostVars, UserState, NoCall
  <2> QED BY <2>1, <2>2, <2>3, <2>4 DEF TypeOK
<1>8. CASE RunListen
  BY <1>8, TypePushParam DEF RunListen, Operation, UserState
<1>9. CASE Stop
  BY <1>9, TypePushParam DEF Stop, Operation, UserState
<1>10. ASSUME NEW op \in UserOps, NEW kind \in UserKinds(op), Program(op, kind)
       PROVE TypeOK'
  <2>1. op \in Operation /\ kind \in {"async", "sync", "stop"}
    BY OperationAssumption DEF UserKinds
  <2> QED BY <1>10, <2>1, TypePushParam DEF Program, UserState
<1> QED BY <1>1, <1>2, <1>3, <1>4, <1>5, <1>6, <1>7, <1>8, <1>9, <1>10 DEF User

(* Every step of Cancel, Clear and Reset keeps the types.                  *)
LEMMA TypeControl ==
  ASSUME TypeOK, Control PROVE TypeOK'
<1> USE DEF TypeOK
<1>1. ASSUME NEW wait \in BOOLEAN, CancelWebSocketOperation(wait)
     PROVE  TypeOK'
  <2>1. TypeOKConnection'
    BY <1>1 DEF CancelWebSocketOperation, TypeOKConnection, TypeOKLink, TypeOKResults, connVars, linkVars, resultVars
  <2>2. TypeOKFlags'
    BY <1>1 DEF CancelWebSocketOperation, TypeOKFlags, workerVars, cancelVars, userVars
  <2>3. TypeOKWorker'
    BY <1>1 DEF CancelWebSocketOperation, TypeOKWorker, workerVars, WorkerState
  <2>4. TypeOKThreads'
    BY <1>1 DEF CancelWebSocketOperation, TypeOKThreads, cancelVars, userVars, ghostVars, UserState, NoCall
  <2> QED BY <2>1, <2>2, <2>3, <2>4 DEF TypeOK
<1>2. CASE CancelNoWait
  <2>1. TypeOKConnection'
    BY <1>2 DEF CancelNoWait, TypeOKConnection, TypeOKLink, TypeOKResults, connVars, linkVars, resultVars
  <2>2. TypeOKFlags'
    BY <1>2 DEF CancelNoWait, TypeOKFlags, workerVars, cancelVars, userVars
  <2>3. TypeOKWorker'
    BY <1>2 DEF CancelNoWait, TypeOKWorker, workerVars, WorkerState
  <2>4. TypeOKThreads'
    BY <1>2 DEF CancelNoWait, TypeOKThreads, cancelVars, userVars, ghostVars, UserState, NoCall
  <2> QED BY <2>1, <2>2, <2>3, <2>4 DEF TypeOK
<1>3. CASE CancelSignalled
  <2>1. TypeOKConnection'
    BY <1>3 DEF CancelSignalled, TypeOKConnection, TypeOKLink, TypeOKResults, connVars, linkVars, resultVars
  <2>2. TypeOKFlags'
    BY <1>3 DEF CancelSignalled, TypeOKFlags, workerVars, cancelVars, userVars
  <2>3. TypeOKWorker'
    BY <1>3 DEF CancelSignalled, TypeOKWorker, workerVars, WorkerState
  <2>4. TypeOKThreads'
    BY <1>3 DEF CancelSignalled, TypeOKThreads, cancelVars, userVars, ghostVars, UserState, NoCall
  <2> QED BY <2>1, <2>2, <2>3, <2>4 DEF TypeOK
<1>4. CASE CancelTimeout
  <2>1. TypeOKConnection'
    BY <1>4 DEF CancelTimeout, TypeOKConnection, TypeOKLink, TypeOKResults, connVars, linkVars, resultVars
  <2>2. TypeOKFlags'
    BY <1>4 DEF CancelTimeout, TypeOKFlags, workerVars, cancelVars, userVars
  <2>3. TypeOKWorker'
    BY <1>4 DEF CancelTimeout, TypeOKWorker, workerVars, WorkerState
  <2>4. TypeOKThreads'
    BY <1>4 DEF CancelTimeout, TypeOKThreads, cancelVars, userVars, ghostVars, UserState, NoCall
  <2> QED BY <2>1, <2>2, <2>3, <2>4 DEF TypeOK
<1>5. CASE ClearWebSocketOperation
  <2>1. TypeOKConnection'
    BY <1>5 DEF ClearWebSocketOperation, TypeOKConnection, TypeOKLink, TypeOKResults, connVars, linkVars, resultVars
  <2>2. TypeOKFlags'
    BY <1>5 DEF ClearWebSocketOperation, TypeOKFlags, workerVars, cancelVars, userVars
  <2>3. TypeOKWorker'
    BY <1>5 DEF ClearWebSocketOperation, TypeOKWorker, workerVars, WorkerState
  <2>4. TypeOKThreads'
    BY <1>5 DEF ClearWebSocketOperation, TypeOKThreads, cancelVars, userVars, ghostVars, UserState, NoCall
  <2> QED BY <2>1, <2>2, <2>3, <2>4 DEF TypeOK
<1>6. CASE ResetWebSocketOperation
  <2>1. TypeOKConnection'
    <3>1. TypeOKResults' BY <1>6, TypeFlushResults DEF ResetWebSocketOperation, TypeOKConnection
    <3> QED BY <1>6, <3>1 DEF ResetWebSocketOperation, TypeOKConnection, TypeOKLink, linkVars
  <2>2. TypeOKFlags'
    BY <1>6 DEF ResetWebSocketOperation, TypeOKFlags, workerVars, cancelVars, userVars
  <2>3. TypeOKWorker'
    BY <1>6, EmptySeq, ConnectionAssumption DEF ResetWebSocketOperation, TypeOKWorker, workerVars, WorkerState
  <2>4. TypeOKThreads'
    <3>1. TicketsOf(params) \subseteq Ticket
      <4>1. params \in Seq(Param) BY DEF TypeOK, TypeOKWorker
      <4>2. \A i \in DOMAIN params : params[i] \in Param BY <4>1
      <4>3. \A p \in Param : p.ticket \in Ticket BY DEF Param
      <4> QED BY <4>2, <4>3 DEF TicketsOf
    <3> QED BY <1>6, <3>1 DEF ResetWebSocketOperation, TypeOKThreads, userVars
  <2> QED BY <2>1, <2>2, <2>3, <2>4 DEF TypeOK
<1> QED BY <1>1, <1>2, <1>3, <1>4, <1>5, <1>6 DEF Control

(* A flag that is set, cleared or left alone.                              *)
LEMMA FlagType ==
  ASSUME NEW a \in BOOLEAN, NEW b, b = a \/ b = TRUE \/ b = FALSE
  PROVE  b \in BOOLEAN
OBVIOUS

LEMMA FlagsOfCallback ==
  ASSUME ctx \in BOOLEAN, connectDone \in BOOLEAN, NEW w \in Wsi,
         (\E k \in Key : Established(w, k)) \/ Closed(w) \/ ClientClosed(w)
  PROVE  ctx' \in BOOLEAN /\ connectDone' \in BOOLEAN
<1>1. ctx' = ctx BY DEF Established, Closed, ClientClosed
<1>2. connectDone' = connectDone \/ connectDone' = TRUE \/ connectDone' = FALSE
  BY DEF Established, AddClient, Closed, ClientClosed
<1> QED BY <1>1, <1>2, FlagType

(* Every callback that LwsCallback handles keeps the types.                *)
LEMMA TypeCallback ==
  ASSUME TypeOKConnection, LwsCallback PROVE TypeOKConnection'
<1> USE DEF TypeOKConnection, TypeOKLink, TypeOKResults, linkVars, resultVars
<1>1. ASSUME NEW w \in Wsi, NEW k \in Key, HttpBindProtocol(w, k)
      PROVE  TypeOKConnection'
  BY <1>1 DEF HttpBindProtocol, WsiState
<1>2. ASSUME NEW w \in Wsi, AddHeaders(w) PROVE TypeOKConnection'
  BY <1>2 DEF AddHeaders, WsiState
<1>3. ASSUME NEW w \in Wsi, NEW k \in Key, Established(w, k)
      PROVE  TypeOKConnection'
  <2>1. \/ /\ clients' = [clients EXCEPT ![k] = w]
           /\ wsi' = [wsi EXCEPT ![w] = "open"]
           /\ connectDone' = TRUE
        \/ /\ wsi' = [wsi EXCEPT ![w] = "rejected"]
           /\ UNCHANGED <<clients, connectDone>>
    BY <1>3 DEF Established, AddClient
  <2>2. ctx' \in BOOLEAN /\ connectDone' \in BOOLEAN
    BY <1>3, FlagsOfCallback
  <2>3. clients' \in [Key -> Wsi \cup {NoWsi}] BY <2>1
  <2>4. wsi' \in [Wsi -> WsiState]
    <3>1. "open" \in WsiState /\ "rejected" \in WsiState BY DEF WsiState
    <3>2. wsi \in [Wsi -> WsiState] OBVIOUS
    <3> QED BY <2>1, <3>1, <3>2
  <2>5. TypeOKLink' BY <1>3, <2>3, <2>4 DEF Established
  <2>6. failedAsserts' \in SUBSET {964, 997} BY <1>3 DEF Established
  <2> QED BY <1>3, <2>2, <2>5, <2>6 DEF Established
<1>4. ASSUME NEW w \in Wsi, EstablishedFails(w) PROVE TypeOKConnection'
  BY <1>4 DEF EstablishedFails, WsiState
<1>5. ASSUME NEW w \in Wsi, Closed(w) PROVE TypeOKConnection'
  <2>1. ctx' \in BOOLEAN /\ connectDone' \in BOOLEAN
    BY <1>5, FlagsOfCallback
  <2>2. clients' \in [Key -> Wsi \cup {NoWsi}] BY <1>5 DEF Closed
  <2>3. TypeOKLink' BY <1>5, <2>2 DEF Closed, WsiState
  <2> QED BY <1>5, <2>1, <2>3 DEF Closed
<1>6. ASSUME NEW w \in Wsi, ClientEstablished(w) PROVE TypeOKConnection'
  <2>1. ctx' \in BOOLEAN /\ connectDone' \in BOOLEAN
    BY <1>6 DEF ClientEstablished
  <2>2. TypeOKLink' /\ failedAsserts' \in SUBSET {964, 997}
    BY <1>6 DEF ClientEstablished, WsiState
  <2> QED BY <1>6, <2>1, <2>2 DEF ClientEstablished
<1>7. ASSUME NEW w \in Wsi, ClientEstablishedFails(w) PROVE TypeOKConnection'
  BY <1>7 DEF ClientEstablishedFails, WsiState
<1>8. ASSUME NEW w \in Wsi, ClientClosed(w) PROVE TypeOKConnection'
  <2>1. ctx' \in BOOLEAN /\ connectDone' \in BOOLEAN
    BY <1>8, FlagsOfCallback
  <2>2. TypeOKLink' BY <1>8 DEF ClientClosed, WsiState
  <2> QED BY <1>8, <2>1, <2>2 DEF ClientClosed
<1>9. ASSUME NEW w \in Wsi, ClientConnectionError(w) PROVE TypeOKConnection'
  BY <1>9, TypeClientDisconnect DEF ClientConnectionError
<1>10. ASSUME NEW w \in Wsi, WriteableIdle(w) PROVE TypeOKConnection'
  BY <1>10 DEF WriteableIdle
<1>11. ASSUME NEW w \in Wsi, NEW sts \in {"NO_ERROR", "WRITE_ERROR", "ETIMEDOUT"},
              WriteableDone(w, sts)
       PROVE  TypeOKConnection'
  <2>1. writeOps # <<>> /\ writeOps' = Tail(writeOps) BY <1>11 DEF WriteableDone
  <2>2. Head(writeOps) \in Ticket /\ writeOps' \in Seq(Ticket)
        /\ Len(writeOps') = Len(writeOps) - 1
    BY <2>1, HeadTailProperties
  <2>3. Len(writeOps) \in Nat /\ WriteOpCapacity \in Nat
    BY LenProperties, ConnectionAssumption DEF WriteOpCapacity
  <2>4. Len(writeOps') <= WriteOpCapacity BY <2>2, <2>3
  <2>5. [op |-> "WRITE", ticket |-> Head(writeOps), sts |-> sts] \in Result
    BY <2>2 DEF Result, Operation, Status
  <2>6. TypeOKResults' BY <1>11, <2>5, TypePushResult DEF WriteableDone
  <2>7. TypeOKLink' BY <1>11 DEF WriteableDone
  <2> QED BY <1>11, <2>2, <2>4, <2>6, <2>7 DEF WriteableDone
<1>12. ASSUME NEW w \in Wsi, WriteablePartial(w) PROVE TypeOKConnection'
  <2>1. wantWrite' \in SUBSET Wsi
    BY <1>12 DEF WriteablePartial, RequestWriteable
  <2> QED BY <1>12, <2>1 DEF WriteablePartial
<1>13. ASSUME NEW w \in Wsi, NEW handled \in BOOLEAN, Receive(w, handled)
       PROVE  TypeOKConnection'
  <2>1. rx' \in 0 .. MaxRx BY <1>13, ConnectionAssumption DEF Receive
  <2> QED BY <1>13, <2>1 DEF Receive
<1> QED
  BY <1>1, <1>2, <1>3, <1>4, <1>5, <1>6, <1>7, <1>8, <1>9, <1>10, <1>11, <1>12,
     <1>13 DEF LwsCallback

(* So does lws_service, which makes one of these callbacks.                *)
LEMMA TypeService ==
  ASSUME TypeOK, Service PROVE TypeOK'
<1>1. TypeOKConnection' BY TypeCallback DEF Service, TypeOK
<1>2. TypeOKFlags' BY DEF Service, TypeOK, opVars, TypeOKFlags, workerVars, cancelVars, userVars
<1>3. TypeOKWorker' BY DEF Service, TypeOK, opVars, TypeOKWorker, workerVars, WorkerState
<1>4. TypeOKThreads' BY DEF Service, TypeOK, opVars, TypeOKThreads, cancelVars, userVars, ghostVars, UserState, NoCall
<1> QED BY <1>1, <1>2, <1>3, <1>4 DEF TypeOK

(* The command at the head of the operation queue is an operation with a   *)
(* ticket, and what is left of the queue is typed.                         *)
LEMMA TypeTakeParam ==
  ASSUME TypeOK, params # <<>>, params' = Tail(params)
  PROVE  /\ Head(params) \in Param
         /\ params' \in Seq(Param)
         /\ Len(params') <= NbMaxOperationPending
<1>1. params \in Seq(Param) /\ Len(params) <= NbMaxOperationPending
  BY DEF TypeOK, TypeOKWorker
<1>2. Head(params) \in Param /\ params' \in Seq(Param)
      /\ Len(params') = Len(params) - 1
  BY <1>1, HeadTailProperties
<1>3. Len(params) \in Nat BY <1>1, LenProperties
<1> QED BY <1>1, <1>2, <1>3, ConnectionAssumption

(* What the start of any command does to the processing thread keeps the   *)
(* types if what its own case does to the connection does.                 *)
LEMMA TypeStartCommand ==
  ASSUME TypeOK, NEW op \in Operation, NEW sts \in Status, StartCommand(op, sts),
         TypeOKConnection',
         listening' \in BOOLEAN, exiting' \in BOOLEAN,
         listenTicket' \in Ticket \cup {0}, failedWrites' \in SUBSET Ticket
  PROVE  TypeOK'
<1> USE DEF TypeOK
<1>1. /\ Head(params) \in Param
      /\ params' \in Seq(Param)
      /\ Len(params') <= NbMaxOperationPending
  BY TypeTakeParam DEF StartCommand
<1>2. TypeOKFlags'
  <2>1. overdue' \in BOOLEAN /\ sendResult' \in BOOLEAN
        /\ mOperationPending' \in BOOLEAN
    BY DEF StartCommand
  <2>2. ioPending' \in BOOLEAN BY DEF StartCommand, TypeOKFlags
  <2> QED BY <2>1, <2>2 DEF StartCommand, TypeOKFlags, cancelVars, userVars
<1>3. TypeOKWorker'
  <2>1. res' \in Result BY <1>1 DEF StartCommand, Result, Param
  <2>2. pc' \in WorkerState BY DEF StartCommand, WorkerState
  <2>3. cur' \in Param BY <1>1 DEF StartCommand
  <2> QED BY <1>1, <2>1, <2>2, <2>3 DEF TypeOKWorker
<1>4. TypeOKThreads'
  BY DEF StartCommand, TypeOKThreads, userVars
<1> QED BY <1>2, <1>3, <1>4 DEF TypeOK

(* Every case of the start of a command keeps the types.                   *)
LEMMA TypeStart ==
  ASSUME TypeOK, Start PROVE TypeOK'
<1>0. /\ TypeOKConnection /\ TypeOKLink /\ TypeOKResults
      /\ listening \in BOOLEAN /\ exiting \in BOOLEAN
      /\ listenTicket \in Ticket \cup {0} /\ failedWrites \in SUBSET Ticket
  BY DEF TypeOK, TypeOKConnection, TypeOKFlags, TypeOKWorker, TypeOKThreads
<1>1. UNCHANGED connVars => TypeOKConnection'
  BY <1>0 DEF connVars, linkVars, resultVars, TypeOKConnection, TypeOKLink,
              TypeOKResults
<1>2. ClientDisconnect /\ UNCHANGED <<writeOps, resultVars, failedAsserts>>
        => TypeOKConnection'
  <2> SUFFICES ASSUME ClientDisconnect, UNCHANGED <<writeOps, resultVars, failedAsserts>>
               PROVE  TypeOKConnection'
    OBVIOUS
  <2>1. TypeOKResults' BY <1>0 DEF TypeOKResults, resultVars
  <2> QED BY <1>0, <2>1, TypeClientDisconnect DEF TypeOKConnection
<1>3. ASSUME NEW created \in BOOLEAN, StartListen(created) PROVE TypeOK'
  <2> DEFINE opens == NbMaxClient # 0 /\ ~listening /\ ~ctx
             sts   == IF NbMaxClient = 0 THEN "WRONG_MODE"
                      ELSE IF ~opens THEN "INVALID_STATE"
                      ELSE IF ~created THEN "INIT" ELSE "NO_ERROR"
  <2>1. StartCommand("LISTEN", sts) BY <1>3 DEF StartListen
  <2>2. sts \in Status /\ "LISTEN" \in Operation BY DEF Status, Operation
  <2> HIDE DEF sts
  <2>3. exiting' \in BOOLEAN /\ failedWrites' \in SUBSET Ticket
    BY <1>0, <1>3 DEF StartListen
  <2>4. CASE opens /\ created
    <3>1. ctx' \in BOOLEAN /\ connectDone' \in BOOLEAN /\ listening' \in BOOLEAN
      BY <1>3, <2>4 DEF StartListen
    <3>2. Head(params) \in Param BY <2>1, TypeTakeParam DEF StartCommand
    <3>3. listenTicket' \in Ticket \cup {0}
      BY <1>3, <2>4, <3>2 DEF StartListen, Param
    <3>4. TypeOKLink' BY <1>0, <1>3, <2>4 DEF StartListen, TypeOKLink
    <3>5. TypeOKResults' BY <1>0, <1>3 DEF StartListen, TypeOKResults, resultVars
    <3>6. TypeOKConnection'
      BY <1>0, <1>3, <3>1, <3>4, <3>5 DEF StartListen, TypeOKConnection
    <3> QED BY <2>1, <2>2, <2>3, <3>1, <3>3, <3>6, TypeStartCommand
  <2>5. CASE opens /\ ~created
    <3>1. ClientDisconnect /\ UNCHANGED <<writeOps, resultVars, failedAsserts>>
          /\ UNCHANGED <<listening, listenTicket>>
      BY <1>3, <2>5 DEF StartListen
    <3> QED BY <1>0, <1>2, <2>1, <2>2, <2>3, <3>1, TypeStartCommand
  <2>6. CASE ~opens
    <3>1. UNCHANGED connVars /\ UNCHANGED <<listening, listenTicket>>
      BY <1>3, <2>6 DEF StartListen, connVars
    <3> QED BY <1>0, <1>1, <2>1, <2>2, <2>3, <3>1, TypeStartCommand
  <2> QED BY <2>4, <2>5, <2>6
<1>4. CASE StartConnectRefused
  BY <1>0, <1>1, <1>4, TypeStartCommand DEF StartConnectRefused, Status, Operation
<1>5. CASE \E sts \in {"INIT", "ENOTCONN"} : StartConnectNoContext(sts)
  BY <1>0, <1>2, <1>5, TypeStartCommand DEF StartConnectNoContext, Status, Operation
<1>6. ASSUME NEW w \in Wsi \cup {NoWsi}, StartConnect(w) PROVE TypeOK'
  <2> DEFINE sts == IF w = NoWsi THEN "ENOTCONN" ELSE "NO_ERROR"
  <2>1. StartCommand("CONNECT", sts) BY <1>6 DEF StartConnect
  <2>2. sts \in Status /\ "CONNECT" \in Operation BY DEF Status, Operation
  <2> HIDE DEF sts
  <2>3. ctx' \in BOOLEAN /\ connectDone' \in BOOLEAN
    BY <1>0, <1>6 DEF StartConnect, TypeOKConnection
  <2>4. TypeOKLink' BY <1>0, <1>6 DEF StartConnect, TypeOKLink, WsiState
  <2>5. TypeOKResults' BY <1>0, <1>6 DEF StartConnect, TypeOKResults, resultVars
  <2>6. TypeOKConnection'
    BY <1>0, <1>6, <2>3, <2>4, <2>5 DEF StartConnect, TypeOKConnection
  <2>7. /\ listening' \in BOOLEAN /\ exiting' \in BOOLEAN
        /\ listenTicket' \in Ticket \cup {0} /\ failedWrites' \in SUBSET Ticket
    BY <1>0, <1>6 DEF StartConnect
  <2> QED BY <2>1, <2>2, <2>6, <2>7, TypeStartCommand
<1>7. CASE StartDisconnect
  <2> DEFINE closes == NbMaxClient = 0 /\ (connectDone \/ ctx)
             sts    == IF NbMaxClient # 0 THEN "WRONG_MODE"
                       ELSE IF ~closes THEN "INVALID_STATE" ELSE "NO_ERROR"
  <2>1. StartCommand("DISCONNECT", sts) BY <1>7 DEF StartDisconnect
  <2>2. sts \in Status /\ "DISCONNECT" \in Operation BY DEF Status, Operation
  <2>3. (IF closes THEN ClientDisconnect ELSE UNCHANGED linkVars)
        /\ UNCHANGED <<writeOps, resultVars, failedAsserts>>
    BY <1>7 DEF StartDisconnect
  <2>4. /\ listening' \in BOOLEAN /\ exiting' \in BOOLEAN
        /\ listenTicket' \in Ticket \cup {0} /\ failedWrites' \in SUBSET Ticket
    BY <1>0, <1>7 DEF StartDisconnect
  <2> HIDE DEF closes, sts
  <2>5. TypeOKConnection'
    BY <1>1, <1>2, <2>3 DEF connVars
  <2> QED BY <2>1, <2>2, <2>4, <2>5, TypeStartCommand
<1>8. CASE StartExit
  BY <1>0, <1>1, <1>8, TypeStartCommand DEF StartExit, Status, Operation
<1>9. ASSUME NEW valid \in BOOLEAN, StartRead(valid) PROVE TypeOK'
  <2>1. PICK sts \in Status : StartCommand("READ", sts)
    BY <1>9 DEF StartRead, Status
  <2> QED BY <1>0, <1>1, <1>9, <2>1, TypeStartCommand DEF StartRead, Operation
<1>10. ASSUME NEW valid \in BOOLEAN, StartWriteRefused(valid) PROVE TypeOK'
  <2>1. PICK sts \in Status : StartCommand("WRITE", sts)
    BY <1>10 DEF StartWriteRefused, Status
  <2>2. UNCHANGED <<connVars, listening, listenTicket, exiting, failedWrites>>
    BY <1>10 DEF StartWriteRefused
  <2> QED BY <1>0, <1>1, <2>1, <2>2, TypeStartCommand DEF Operation
<1>11. ASSUME NEW granted \in BOOLEAN, StartWrite(granted) PROVE TypeOK'
  <2>1. PICK sts \in Status : StartCommand("WRITE", sts)
    BY <1>11 DEF StartWrite, Status
  <2>2. Head(params) \in Param BY <2>1, TypeTakeParam DEF StartCommand
  <2>3. Head(params).ticket \in Ticket BY <2>2 DEF Param
  <2>4. writeOps' \in Seq(Ticket) /\ Len(writeOps') <= WriteOpCapacity
    <3>1. writeOps \in Seq(Ticket) /\ Len(writeOps) \in Nat
      BY <1>0, LenProperties DEF TypeOKConnection
    <3>2. Len(writeOps) < WriteOpCapacity
          /\ writeOps' = Append(writeOps, Head(params).ticket)
      BY <1>11 DEF StartWrite
    <3>3. writeOps' \in Seq(Ticket) /\ Len(writeOps') = Len(writeOps) + 1
      BY <2>3, <3>1, <3>2, AppendProperties
    <3> QED BY <3>1, <3>2, <3>3, ConnectionAssumption DEF WriteOpCapacity
  <2>5. wantWrite' \in SUBSET Wsi
    BY <1>0, <1>11 DEF StartWrite, RequestWriteable, TypeOKLink
  <2>6. TypeOKLink' BY <1>0, <1>11, <2>5 DEF StartWrite, TypeOKLink
  <2>7. TypeOKResults' BY <1>0, <1>11 DEF StartWrite, TypeOKResults, resultVars
  <2>8. ctx' \in BOOLEAN /\ connectDone' \in BOOLEAN
    BY <1>0, <1>11 DEF StartWrite, TypeOKConnection
  <2>9. TypeOKConnection'
    BY <1>0, <1>11, <2>4, <2>6, <2>7, <2>8 DEF StartWrite, TypeOKConnection
  <2>10. failedWrites' \in SUBSET Ticket BY <1>0, <1>11, <2>3 DEF StartWrite
  <2>11. /\ listening' \in BOOLEAN /\ exiting' \in BOOLEAN
         /\ listenTicket' \in Ticket \cup {0}
    BY <1>0, <1>11 DEF StartWrite
  <2> QED BY <2>1, <2>9, <2>10, <2>11, TypeStartCommand DEF Operation
<1> QED
  BY <1>3, <1>4, <1>5, <1>6, <1>7, <1>8, <1>9, <1>10, <1>11 DEF Start

(* What the poll of any operation does to the processing thread keeps the  *)
(* types if what its own case does to the connection does.                 *)
LEMMA TypePoll ==
  ASSUME TypeOK, NEW op, NEW late \in BOOLEAN, NEW r \in Result,
         NEW send \in BOOLEAN, NEW stays \in BOOLEAN,
         Poll(op, late, r, send, stays), TypeOKLink', ctx' \in BOOLEAN,
         connectDone' \in BOOLEAN, overdue' \in BOOLEAN
  PROVE  TypeOK'
<1>1. TypeOKConnection'
  <2>1. TypeOKResults' BY DEF Poll, TypeOK, TypeOKConnection, TypeOKResults, resultVars
  <2> QED BY <2>1 DEF Poll, TypeOK, TypeOKConnection
<1>2. TypeOKFlags'
  <2>1. TimedOut(late) \in BOOLEAN BY DEF TimedOut
  <2>2. sendResult' \in BOOLEAN /\ ioPending' \in BOOLEAN BY <2>1 DEF Poll
  <2> QED BY <2>2 DEF Poll, TypeOK, TypeOKFlags, cancelVars, userVars
<1>3. TypeOKWorker'
  <2>1. [r EXCEPT !.sts = "ETIMEDOUT"] \in Result BY DEF Result, Status
  <2>2. res' \in Result BY <2>1 DEF Poll
  <2> QED BY <2>2 DEF Poll, TypeOK, TypeOKWorker, WorkerState
<1>4. TypeOKThreads'
  BY DEF Poll, TypeOK, TypeOKThreads, userVars, ghostVars
<1> QED BY <1>1, <1>2, <1>3, <1>4 DEF TypeOK

(* Every case of the poll keeps the types.                                 *)
LEMMA TypePending ==
  ASSUME TypeOK, Pending PROVE TypeOK'
<1>1. /\ TypeOKLink /\ res \in Result /\ overdue \in BOOLEAN
      /\ ctx \in BOOLEAN /\ connectDone \in BOOLEAN
      /\ listenTicket \in Ticket \cup {0}
  BY DEF TypeOK, TypeOKConnection, TypeOKFlags, TypeOKWorker
<1>2. \A s \in {"NO_ERROR", "PENDING", "BAD_ID"} : [res EXCEPT !.sts = s] \in Result
  BY <1>1 DEF Result, Status
<1>3. UNCHANGED linkVars =>
        TypeOKLink' /\ ctx' \in BOOLEAN /\ connectDone' \in BOOLEAN
  <2> SUFFICES ASSUME UNCHANGED linkVars
               PROVE  TypeOKLink' /\ ctx' \in BOOLEAN /\ connectDone' \in BOOLEAN
    OBVIOUS
  <2>1. TypeOKLink' BY <1>1 DEF TypeOKLink, linkVars
  <2>2. ctx' = ctx /\ connectDone' = connectDone BY DEF linkVars
  <2> QED BY <1>1, <2>1, <2>2
<1>4. CASE PollListen
  <2>1. TypeOKLink' BY <1>1, <1>4 DEF PollListen, TypeOKLink
  <2>2. ctx' \in BOOLEAN /\ connectDone' \in BOOLEAN BY <1>1, <1>4 DEF PollListen
  <2>3. CASE connectDone
    <3>1. [op |-> "CONNECT", ticket |-> listenTicket, sts |-> "NO_ERROR"] \in Result
      BY <1>1 DEF Result, Operation, Status
    <3>2. overdue' \in BOOLEAN BY <1>4, <2>3 DEF PollListen
    <3> QED BY <1>4, <2>1, <2>2, <2>3, <3>1, <3>2, TypePoll DEF PollListen
  <2>4. CASE ~connectDone
    <3>1. overdue' \in BOOLEAN BY <1>1, <1>4, <2>4 DEF PollListen
    <3> QED BY <1>1, <1>4, <2>1, <2>2, <2>4, <3>1, TypePoll DEF PollListen
  <2> QED BY <2>3, <2>4
<1>5. CASE PollConnect
  <2>1. TypeOKLink' /\ ctx' \in BOOLEAN /\ connectDone' \in BOOLEAN
    BY <1>3, <1>5, TypeClientDisconnect DEF PollConnect
  <2>2. overdue' \in BOOLEAN BY <1>1, <1>5 DEF PollConnect
  <2>3. (~connectDone) \in BOOLEAN OBVIOUS
  <2>4. CASE connectDone
    <3>1. Poll("CONNECT", overdue, [res EXCEPT !.sts = "NO_ERROR"], connectDone,
               ~connectDone)
      BY <1>5, <2>4 DEF PollConnect
    <3> QED BY <1>1, <1>2, <2>1, <2>2, <2>3, <3>1, TypePoll
  <2>5. CASE ~connectDone
    <3>1. Poll("CONNECT", overdue, res, connectDone, ~connectDone)
      BY <1>5, <2>5 DEF PollConnect
    <3> QED BY <1>1, <2>1, <2>2, <2>3, <3>1, TypePoll
  <2> QED BY <2>4, <2>5
<1>6. CASE PollDisconnect
  <2>1. overdue' \in BOOLEAN BY <1>1, <1>6 DEF PollDisconnect
  <2> QED BY <1>1, <1>3, <1>6, <2>1, TypePoll DEF PollDisconnect
<1>7. CASE PollRead
  <2>1. rx' \in 0 .. MaxRx
    BY <1>1, <1>7, ConnectionAssumption DEF PollRead, TypeOKLink
  <2>2. TypeOKLink' BY <1>1, <1>7, <2>1 DEF PollRead, TypeOKLink
  <2>3. /\ ctx' \in BOOLEAN /\ connectDone' \in BOOLEAN
        /\ overdue' \in BOOLEAN
    BY <1>1, <1>7 DEF PollRead
  <2> DEFINE send  == rx > 0
             stays == rx = 0
  <2>4. PICK s \in {"NO_ERROR", "PENDING"} :
          Poll("READ", overdue, [res EXCEPT !.sts = s], send, stays)
    BY <1>7 DEF PollRead
  <2>5. send \in BOOLEAN /\ stays \in BOOLEAN OBVIOUS
  <2>6. [res EXCEPT !.sts = s] \in Result BY <1>2
  <2> HIDE DEF send, stays
  <2> QED BY <1>1, <2>2, <2>3, <2>4, <2>5, <2>6, TypePoll
<1>8. CASE PollWrite
  <2>1. overdue' \in BOOLEAN BY <1>1, <1>8 DEF PollWrite
  <2> QED BY <1>1, <1>2, <1>3, <1>8, <2>1, TypePoll DEF PollWrite
<1>9. CASE PollOther
  <2>1. overdue' \in BOOLEAN BY <1>1, <1>9 DEF PollOther
  <2> QED BY <1>1, <1>2, <1>3, <1>9, <2>1, TypePoll DEF PollOther
<1> QED BY <1>4, <1>5, <1>6, <1>7, <1>8, <1>9 DEF Pending

(* Every other step of a turn of V_OnProcessing keeps the types.           *)
LEMMA TypeTurn ==
  ASSUME TypeOK,
         \/ ServiceReturn \/ PopNone \/ PopOverCommand
         \/ NoCancel \/ CancelTake \/ CancelFlush \/ CancelSignal
         \/ Send \/ Loop \/ LoopNoContext \/ Exit \/ TimePasses
  PROVE  TypeOK'
<1> USE DEF TypeOK
<1>1. CASE ServiceReturn
  <2>1. TypeOKConnection'
    BY <1>1 DEF ServiceReturn, TypeOKConnection, TypeOKLink, TypeOKResults, connVars, linkVars, resultVars
  <2>2. TypeOKFlags'
    BY <1>1 DEF ServiceReturn, TypeOKFlags, workerVars, cancelVars, userVars
  <2>3. TypeOKWorker'
    BY <1>1 DEF ServiceReturn, TypeOKWorker, workerVars, WorkerState
  <2>4. TypeOKThreads'
    BY <1>1 DEF ServiceReturn, TypeOKThreads, cancelVars, userVars, ghostVars, UserState, NoCall
  <2> QED BY <2>1, <2>2, <2>3, <2>4 DEF TypeOK
<1>2. CASE PopNone
  <2>1. TypeOKConnection'
    BY <1>2 DEF PopNone, TypeOKConnection, TypeOKLink, TypeOKResults, connVars, linkVars, resultVars
  <2>2. TypeOKFlags'
    BY <1>2 DEF PopNone, TypeOKFlags, workerVars, cancelVars, userVars
  <2>3. TypeOKWorker'
    BY <1>2 DEF PopNone, TypeOKWorker, workerVars, WorkerState
  <2>4. TypeOKThreads'
    BY <1>2 DEF PopNone, TypeOKThreads, cancelVars, userVars, ghostVars, UserState, NoCall
  <2> QED BY <2>1, <2>2, <2>3, <2>4 DEF TypeOK
<1>3. CASE PopOverCommand
  <2>1. TypeOKConnection'
    BY <1>3 DEF PopOverCommand, TypeOKConnection, TypeOKLink, TypeOKResults, connVars, linkVars, resultVars
  <2>2. TypeOKFlags'
    BY <1>3 DEF PopOverCommand, TypeOKFlags, workerVars, cancelVars, userVars
  <2>3. TypeOKWorker'
    <3>1. /\ Head(params) \in Param
          /\ params' \in Seq(Param)
          /\ Len(params') <= NbMaxOperationPending
      BY <1>3, TypeTakeParam DEF PopOverCommand
    <3> QED BY <1>3, <3>1 DEF PopOverCommand, TypeOKWorker, WorkerState
  <2>4. TypeOKThreads'
    BY <1>3 DEF PopOverCommand, TypeOKThreads, cancelVars, userVars, ghostVars, UserState, NoCall
  <2> QED BY <2>1, <2>2, <2>3, <2>4 DEF TypeOK
<1>4. CASE NoCancel
  <2>1. TypeOKConnection'
    BY <1>4 DEF NoCancel, TypeOKConnection, TypeOKLink, TypeOKResults, connVars, linkVars, resultVars
  <2>2. TypeOKFlags'
    BY <1>4 DEF NoCancel, TypeOKFlags, workerVars, cancelVars, userVars
  <2>3. TypeOKWorker'
    BY <1>4 DEF NoCancel, TypeOKWorker, workerVars, WorkerState
  <2>4. TypeOKThreads'
    BY <1>4 DEF NoCancel, TypeOKThreads, cancelVars, userVars, ghostVars, UserState, NoCall
  <2> QED BY <2>1, <2>2, <2>3, <2>4 DEF TypeOK
<1>5. CASE CancelTake
  <2>1. TypeOKConnection'
    BY <1>5 DEF CancelTake, TypeOKConnection, TypeOKLink, TypeOKResults, connVars, linkVars, resultVars
  <2>2. TypeOKFlags'
    BY <1>5 DEF CancelTake, TypeOKFlags, workerVars, cancelVars, userVars
  <2>3. TypeOKWorker'
    BY <1>5, EmptySeq, ConnectionAssumption DEF CancelTake, TypeOKWorker, workerVars, WorkerState
  <2>4. TypeOKThreads'
    BY <1>5 DEF CancelTake, TypeOKThreads, cancelVars, userVars, ghostVars, UserState, NoCall, Accepted
  <2> QED BY <2>1, <2>2, <2>3, <2>4 DEF TypeOK
<1>6. CASE CancelFlush
  <2>1. TypeOKConnection'
    <3>1. TypeOKResults' BY <1>6, TypeFlushResults DEF CancelFlush, TypeOKConnection
    <3>2. writeOps' \in Seq(Ticket) /\ Len(writeOps') <= WriteOpCapacity
      BY <1>6, EmptySeq, ConnectionAssumption DEF CancelFlush, WriteOpCapacity
    <3>3. TypeOKLink'
      BY <1>6, ConnectionAssumption DEF CancelFlush, TypeOKConnection, TypeOKLink
    <3>4. ctx' \in BOOLEAN /\ connectDone' \in BOOLEAN
      <4>1. /\ ctx' = ctx \/ ctx' = TRUE \/ ctx' = FALSE
            /\ connectDone' = connectDone \/ connectDone' = TRUE \/ connectDone' = FALSE
        BY <1>6 DEF CancelFlush
      <4>2. ctx \in BOOLEAN /\ connectDone \in BOOLEAN BY DEF TypeOKConnection
      <4> QED BY <4>1, <4>2, FlagType
    <3> QED BY <1>6, <3>1, <3>2, <3>3, <3>4 DEF CancelFlush, TypeOKConnection
  <2>2. TypeOKFlags'
    BY <1>6 DEF CancelFlush, TypeOKFlags, workerVars, cancelVars, userVars
  <2>3. TypeOKWorker'
    BY <1>6 DEF CancelFlush, TypeOKWorker, workerVars, WorkerState
  <2>4. TypeOKThreads'
    BY <1>6 DEF CancelFlush, TypeOKThreads, cancelVars, userVars, ghostVars, UserState, NoCall
  <2> QED BY <2>1, <2>2, <2>3, <2>4 DEF TypeOK
<1>7. CASE CancelSignal
  <2>1. TypeOKConnection'
    BY <1>7 DEF CancelSignal, TypeOKConnection, TypeOKLink, TypeOKResults, connVars, linkVars, resultVars
  <2>2. TypeOKFlags'
    BY <1>7 DEF CancelSignal, TypeOKFlags, workerVars, cancelVars, userVars
  <2>3. TypeOKWorker'
    BY <1>7 DEF CancelSignal, TypeOKWorker, workerVars, WorkerState
  <2>4. TypeOKThreads'
    BY <1>7 DEF CancelSignal, TypeOKThreads, cancelVars, userVars, ghostVars, UserState, NoCall
  <2> QED BY <2>1, <2>2, <2>3, <2>4 DEF TypeOK
<1>8. CASE Send
  <2>1. TypeOKConnection'
    <3>1. TypeOKResults'
      BY <1>8, TypePushResult DEF Send, TypeOKConnection, TypeOKWorker
    <3> QED BY <1>8, <3>1 DEF Send, TypeOKConnection, TypeOKLink, linkVars
  <2>2. TypeOKFlags'
    BY <1>8 DEF Send, TypeOKFlags, workerVars, cancelVars, userVars
  <2>3. TypeOKWorker'
    BY <1>8 DEF Send, TypeOKWorker, workerVars, WorkerState
  <2>4. TypeOKThreads'
    BY <1>8 DEF Send, TypeOKThreads, cancelVars, userVars, ghostVars, UserState, NoCall
  <2> QED BY <2>1, <2>2, <2>3, <2>4 DEF TypeOK
<1>9. CASE Loop
  <2>1. TypeOKConnection'
    BY <1>9 DEF Loop, TypeOKConnection, TypeOKLink, TypeOKResults, connVars, linkVars, resultVars
  <2>2. TypeOKFlags'
    BY <1>9 DEF Loop, TypeOKFlags, workerVars, cancelVars, userVars
  <2>3. TypeOKWorker'
    BY <1>9 DEF Loop, TypeOKWorker, workerVars, WorkerState
  <2>4. TypeOKThreads'
    BY <1>9 DEF Loop, TypeOKThreads, cancelVars, userVars, ghostVars, UserState, NoCall
  <2> QED BY <2>1, <2>2, <2>3, <2>4 DEF TypeOK
<1>10. CASE LoopNoContext
  <2>1. TypeOKConnection'
    BY <1>10 DEF LoopNoContext, TypeOKConnection, TypeOKLink, TypeOKResults, connVars, linkVars, resultVars
  <2>2. TypeOKFlags'
    BY <1>10 DEF LoopNoContext, TypeOKFlags, workerVars, cancelVars, userVars
  <2>3. TypeOKWorker'
    BY <1>10 DEF LoopNoContext, TypeOKWorker, workerVars, WorkerState
  <2>4. TypeOKThreads'
    BY <1>10 DEF LoopNoContext, TypeOKThreads, cancelVars, userVars, ghostVars, UserState, NoCall
  <2> QED BY <2>1, <2>2, <2>3, <2>4 DEF TypeOK
<1>11. CASE Exit
  <2>1. TypeOKConnection'
    <3>1. TypeOKResults' BY <1>11 DEF Exit, TypeOKConnection, TypeOKResults, resultVars
    <3> QED BY <1>11, <3>1, TypeClientDisconnect DEF Exit, TypeOKConnection
  <2>2. TypeOKFlags'
    BY <1>11 DEF Exit, TypeOKFlags, workerVars, cancelVars, userVars
  <2>3. TypeOKWorker'
    BY <1>11 DEF Exit, TypeOKWorker, workerVars, WorkerState
  <2>4. TypeOKThreads'
    BY <1>11 DEF Exit, TypeOKThreads, cancelVars, userVars, ghostVars, UserState, NoCall
  <2> QED BY <2>1, <2>2, <2>3, <2>4 DEF TypeOK
<1>12. CASE TimePasses
  <2>1. TypeOKConnection'
    BY <1>12 DEF TimePasses, TypeOKConnection, TypeOKLink, TypeOKResults, connVars, linkVars, resultVars
  <2>2. TypeOKFlags'
    BY <1>12 DEF TimePasses, TypeOKFlags, workerVars, cancelVars, userVars
  <2>3. TypeOKWorker'
    BY <1>12 DEF TimePasses, TypeOKWorker, workerVars, WorkerState
  <2>4. TypeOKThreads'
    BY <1>12 DEF TimePasses, TypeOKThreads, cancelVars, userVars, ghostVars, UserState, NoCall
  <2> QED BY <2>1, <2>2, <2>3, <2>4 DEF TypeOK
<1> QED BY <1>1, <1>2, <1>3, <1>4, <1>5, <1>6, <1>7, <1>8, <1>9, <1>10, <1>11, <1>12

(* Type correctness: every variable of BofWebSocket has its type in every  *)
(* reachable state, and no queue exceeds its capacity.                     *)
THEOREM TypeCorrect == Spec => []TypeOK
<1>1. TypeOK /\ [Next]_vars => TypeOK'
  <2> SUFFICES ASSUME TypeOK, [Next]_vars PROVE TypeOK'
    OBVIOUS
  <2>1. CASE Next
    BY <2>1, TypeUser, TypeControl, TypeService, TypeStart, TypePending, TypeTurn
       DEF Next, Worker
  <2>2. CASE UNCHANGED vars
    <3>1. TypeOKConnection'
      BY <2>2 DEF TypeOK, vars, TypeOKConnection, TypeOKLink, TypeOKResults, connVars, linkVars, resultVars
    <3>2. TypeOKFlags' BY <2>2 DEF TypeOK, vars, opVars, TypeOKFlags, workerVars, cancelVars, userVars
    <3>3. TypeOKWorker' BY <2>2 DEF TypeOK, vars, opVars, TypeOKWorker, workerVars, WorkerState
    <3>4. TypeOKThreads' BY <2>2 DEF TypeOK, vars, opVars, TypeOKThreads, cancelVars, userVars, ghostVars, UserState, NoCall
    <3> QED BY <3>1, <3>2, <3>3, <3>4 DEF TypeOK
  <2> QED BY <2>1, <2>2
<1> QED BY TypeInit, <1>1, PTL DEF Spec

(* SessionNeedsContext is inductive under TypeOK: all ways to lose the     *)
(* context go through BOF_LWS_CLIENT_DISCONNECT, and nothing touches the   *)
(* session without a context: callbacks need one, and WRITE needs a pointer. *)
LEMMA SessionStep ==
  ASSUME TypeOK, SessionNeedsContext, [Next]_vars
  PROVE  SessionNeedsContext'
<1>1. UNCHANGED linkVars => SessionNeedsContext'
  BY DEF linkVars, SessionNeedsContext, Registered
<1>2. ClientDisconnect => SessionNeedsContext'
  BY DEF ClientDisconnect, SessionNeedsContext, Registered
<1>3. ctx' = TRUE => SessionNeedsContext'
  BY DEF SessionNeedsContext
<1>4. CASE User
  <2>1. CASE StopJoin BY <1>2, <2>1 DEF StopJoin
  <2>2. CASE UNCHANGED linkVars BY <1>1, <2>2
  <2> QED
    BY <1>4, <2>1, <2>2
       DEF User, Run, RunListen, Program, MarkPending, GetResult, SyncGetResult,
           SyncTimeout, Stop, StopThread, PushParam, connVars
<1>5. CASE Control
  BY <1>1, <1>5
     DEF Control, CancelWebSocketOperation, CancelNoWait, CancelSignalled,
         CancelTimeout, ClearWebSocketOperation, ResetWebSocketOperation, connVars
<1>6. CASE Service
  <2>1. PICK w \in Wsi : LwsCallback!(w) BY <1>6 DEF Service, LwsCallback
  <2>2. CASE ClientConnectionError(w)
    BY <1>2, <2>2 DEF ClientConnectionError
  <2>3. CASE ctx' = TRUE BY <1>3, <2>3
  <2>4. ctx = TRUE BY <1>6 DEF Service, TypeOK, TypeOKConnection
  <2> QED
    BY <2>1, <2>2, <2>3, <2>4
       DEF HttpBindProtocol, AddHeaders, Established, EstablishedFails, Closed,
           ClientEstablished, ClientEstablishedFails, ClientClosed,
           WriteableIdle, WriteableDone, WriteablePartial, Receive
<1>7. CASE Start
  <2>1. ASSUME NEW created \in BOOLEAN, StartListen(created)
        PROVE  SessionNeedsContext'
    BY <1>1, <1>2, <1>3, <2>1 DEF StartListen
  <2>2. CASE \E sts \in {"INIT", "ENOTCONN"} : StartConnectNoContext(sts)
    BY <1>2, <2>2 DEF StartConnectNoContext
  <2>3. ASSUME NEW w \in Wsi \cup {NoWsi}, StartConnect(w)
        PROVE  SessionNeedsContext'
    BY <1>3, <2>3 DEF StartConnect
  <2>4. CASE StartDisconnect BY <1>1, <1>2, <2>4 DEF StartDisconnect
  <2>5. CASE UNCHANGED linkVars BY <1>1, <2>5
  <2>6. ASSUME NEW granted \in BOOLEAN, StartWrite(granted)
        PROVE  SessionNeedsContext'
    <3>1. pWebSocket # NoWsi BY <2>6 DEF StartWrite, CanTransfer
    <3>2. ctx = TRUE
      BY <3>1 DEF SessionNeedsContext, TypeOK, TypeOKConnection
    <3> QED BY <1>3, <2>6, <3>2 DEF StartWrite
  <2> QED
    BY <1>7, <2>1, <2>2, <2>3, <2>4, <2>5, <2>6
       DEF Start, StartConnectRefused, StartExit, StartRead, StartWriteRefused,
           connVars
<1>8. CASE Pending
  <2>1. CASE PollListen
    BY <2>1 DEF PollListen, SessionNeedsContext, Registered
  <2>2. CASE PollRead
    <3>1. CASE ctx = TRUE BY <1>3, <2>2, <3>1 DEF PollRead
    <3>2. CASE ctx = FALSE
      <4>1. rx = 0 BY <3>2 DEF SessionNeedsContext
      <4>2. UNCHANGED linkVars BY <2>2, <4>1 DEF PollRead, linkVars
      <4> QED BY <1>1, <4>2
    <3>3. ctx \in BOOLEAN BY DEF TypeOK, TypeOKConnection
    <3> QED BY <3>1, <3>2, <3>3
  <2>3. CASE PollConnect BY <1>1, <1>2, <2>3 DEF PollConnect
  <2>4. CASE UNCHANGED linkVars BY <1>1, <2>4
  <2> QED
    BY <1>8, <2>1, <2>2, <2>3, <2>4
       DEF Pending, PollDisconnect, PollWrite, PollOther
<1>9. CASE CancelFlush
  BY <1>9 DEF CancelFlush, SessionNeedsContext, Registered
<1>10. CASE Exit BY <1>2, <1>10 DEF Exit
<1>11. CASE UNCHANGED linkVars BY <1>1, <1>11
<1> QED
  BY <1>4, <1>5, <1>6, <1>7, <1>8, <1>9, <1>10, <1>11
     DEF Next, Worker, ServiceReturn, PopNone, PopOverCommand, NoCancel,
         CancelTake, CancelSignal, Send, Loop, LoopNoContext, TimePasses, vars,
         connVars

(* A BofWebSocket whose mpLwsContext_X is null is not connected, points to *)
(* no connection, has no registered client and no received message.        *)
THEOREM SessionCorrect == Spec => []SessionNeedsContext
<1>1. Init => SessionNeedsContext
  BY DEF Init, InitConnection, SessionNeedsContext, Registered
<1>2. TypeOK /\ SessionNeedsContext /\ [Next]_vars => SessionNeedsContext'
  BY SessionStep
<1> QED BY TypeCorrect, <1>1, <1>2, PTL DEF Spec

-----------------------------------------------------------------------------
(* The registry of clients of a server, for any number of connections and  *)
(* keys and any NbMaxClient.                                               *)

(* Every open connection of a server has a key, no two keys have the same  *)
(* connection.                                                             *)
OneKeyEach ==
  /\ \A k \in Registered : wsi[clients[k]] = "open"
  /\ NbMaxClient # 0 =>
       \A w \in Wsi : wsi[w] = "open" => \E k \in Key : clients[k] = w
  /\ \A j, k \in Registered : clients[j] = clients[k] => j = k

WithinLimit ==
  IsFiniteSet(Registered) /\ Cardinality(Registered) <= NbMaxClient

(* Only a server registers: a client makes no handshake of a peer.         *)
HandshakeOfServer ==
  NbMaxClient = 0 => \A w \in Wsi : wsi[w] \notin {"bound", "accepted"}

Registry == OneKeyEach /\ WithinLimit /\ HandshakeOfServer

LEMMA RegistryEmpty ==
  ASSUME Registered = {}, \A w \in Wsi : wsi[w] = "none"
  PROVE  Registry
<1>1. WithinLimit
  BY FS_EmptySet, ConnectionAssumption DEF WithinLimit
<1> QED BY <1>1 DEF Registry, OneKeyEach, HandshakeOfServer

LEMMA RegistryInit == Init => Registry
<1>1. Init => Registered = {} /\ \A w \in Wsi : wsi[w] = "none"
  BY DEF Init, InitConnection, Registered
<1> QED BY <1>1, RegistryEmpty

(* BOF_LWS_CLIENT_DISCONNECT unregisters all.                              *)
LEMMA RegistryDisconnect ==
  ASSUME ClientDisconnect PROVE Registry'
<1>1. Registered' = {} /\ \A w \in Wsi : wsi'[w] = "none"
  BY DEF ClientDisconnect, Registered
<1>2. WithinLimit'
  BY <1>1, FS_EmptySet, ConnectionAssumption DEF WithinLimit
<1> QED BY <1>1, <1>2 DEF Registry, OneKeyEach, HandshakeOfServer

(* A client has nobody registered.                                         *)
LEMMA ClientHasNone ==
  ASSUME Registry, NbMaxClient = 0 PROVE Registered = {}
<1>1. Cardinality(Registered) \in Nat BY FS_CardinalityType DEF Registry, WithinLimit
<1>2. Cardinality(Registered) = 0 BY <1>1 DEF Registry, WithinLimit
<1> QED BY <1>2, FS_EmptySet DEF Registry, WithinLimit

(* A step that opens and closes no connection.                             *)
LEMMA RegistryKept ==
  ASSUME Registry, UNCHANGED clients,
         \A w \in Wsi \cup {NoWsi} : wsi'[w] = "open" <=> wsi[w] = "open",
         clients \in [Key -> Wsi \cup {NoWsi}],
         HandshakeOfServer'
  PROVE  Registry'
<1>1. Registered' = Registered BY DEF Registered
<1> QED BY <1>1 DEF Registry, OneKeyEach, WithinLimit, Registered

(* A step of a client.                                                     *)
LEMMA RegistryOfClient ==
  ASSUME Registry, UNCHANGED clients, NbMaxClient = 0, HandshakeOfServer'
  PROVE  Registry'
<1>1. Registered = {} /\ Registered' = {} BY ClientHasNone DEF Registered
<1> QED BY <1>1 DEF Registry, OneKeyEach, WithinLimit

LEMMA RegistryAddClient ==
  ASSUME TypeOK, Registry, NEW w \in Wsi, NEW k \in Key, Established(w, k)
  PROVE  Registry'
<1>1. /\ clients \in [Key -> Wsi \cup {NoWsi}] /\ wsi \in [Wsi -> WsiState]
      /\ wsi[w] = "accepted" /\ NbMaxClient # 0 /\ NoWsi \notin Wsi
  BY ConnectionAssumption
     DEF TypeOK, TypeOKConnection, TypeOKLink, Established, Registry, HandshakeOfServer
<1>2. HandshakeOfServer' BY <1>1 DEF HandshakeOfServer
<1>3. CASE Cardinality(Registered) < NbMaxClient /\ k \notin Registered
  <2>1. /\ clients' = [clients EXCEPT ![k] = w]
        /\ wsi' = [wsi EXCEPT ![w] = "open"]
    BY <1>3 DEF Established, AddClient
  <2>2. Registered' = Registered \cup {k} BY <1>1, <2>1 DEF Registered
  <2>3. WithinLimit'
    <3>1. /\ IsFiniteSet(Registered \cup {k})
          /\ Cardinality(Registered \cup {k}) = Cardinality(Registered) + 1
      BY <1>3, FS_AddElement DEF Registry, WithinLimit
    <3>2. Cardinality(Registered) \in Nat
      BY FS_CardinalityType DEF Registry, WithinLimit
    <3> QED BY <1>3, <2>2, <3>1, <3>2, ConnectionAssumption DEF WithinLimit
  <2>4. \A j \in Registered : j # k /\ clients[j] # w /\ clients[j] \in Wsi
    BY <1>1, <1>3 DEF Registry, OneKeyEach, Registered
  <2>5. \A j \in Registered : clients'[j] = clients[j] BY <1>1, <2>1, <2>4
  <2>6. clients'[k] = w BY <1>1, <2>1
  <2>7. \A j \in Registered' : wsi'[clients'[j]] = "open"
    BY <1>1, <2>1, <2>2, <2>4, <2>5, <2>6 DEF Registry, OneKeyEach
  <2>8. \A v \in Wsi : wsi'[v] = "open" => \E j \in Key : clients'[j] = v
    <3> SUFFICES ASSUME NEW v \in Wsi, wsi'[v] = "open", v # w
                 PROVE  \E j \in Key : clients'[j] = v
      BY <2>6
    <3>1. PICK j \in Key : clients[j] = v
      BY <1>1, <2>1 DEF Registry, OneKeyEach
    <3>2. j \in Registered BY <1>1, <3>1 DEF Registered
    <3> QED BY <2>5, <3>1, <3>2
  <2>9. \A i, j \in Registered' : clients'[i] = clients'[j] => i = j
    BY <2>2, <2>4, <2>5, <2>6 DEF Registry, OneKeyEach
  <2> QED BY <1>2, <2>3, <2>7, <2>8, <2>9 DEF Registry, OneKeyEach
<1>4. CASE ~(Cardinality(Registered) < NbMaxClient /\ k \notin Registered)
  <2>1. clients' = clients /\ wsi' = [wsi EXCEPT ![w] = "rejected"]
    BY <1>4 DEF Established, AddClient
  <2>2. Registered' = Registered BY <2>1 DEF Registered
  <2>3. \A j \in Registered : clients[j] # w /\ clients[j] \in Wsi
    BY <1>1 DEF Registry, OneKeyEach, Registered
  <2>4. OneKeyEach' BY <1>1, <2>1, <2>2, <2>3 DEF Registry, OneKeyEach
  <2> QED BY <1>2, <2>2, <2>4 DEF Registry, WithinLimit
<1> QED BY <1>3, <1>4

LEMMA RegistryClosed ==
  ASSUME TypeOK, Registry, NEW w \in Wsi, Closed(w)
  PROVE  Registry'
<1>1. /\ clients \in [Key -> Wsi \cup {NoWsi}] /\ wsi \in [Wsi -> WsiState]
      /\ NbMaxClient # 0 /\ NoWsi \notin Wsi
      /\ wsi' = [wsi EXCEPT ![w] = "none"]
      /\ clients' = [k \in Key |-> IF clients[k] = w THEN NoWsi ELSE clients[k]]
  BY ConnectionAssumption DEF TypeOK, TypeOKConnection, TypeOKLink, Closed
<1>2. Registered' = {k \in Registered : clients[k] # w}
  BY <1>1 DEF Registered
<1>3. WithinLimit'
  <2>1. Registered' \subseteq Registered BY <1>2
  <2>2. IsFiniteSet(Registered') /\ Cardinality(Registered') <= Cardinality(Registered)
    BY <2>1, FS_Subset DEF Registry, WithinLimit
  <2>3. Cardinality(Registered) \in Nat /\ Cardinality(Registered') \in Nat
    BY <2>2, FS_CardinalityType DEF Registry, WithinLimit
  <2> QED BY <2>2, <2>3, ConnectionAssumption DEF Registry, WithinLimit
<1>4. OneKeyEach'
  <2>1. \A k \in Registered' : k \in Registered /\ clients'[k] = clients[k]
                               /\ clients[k] # w /\ clients[k] \in Wsi
    BY <1>1, <1>2 DEF Registered
  <2>2. \A v \in Wsi : wsi'[v] = "open" => \E k \in Key : clients'[k] = v
    BY <1>1 DEF Registry, OneKeyEach
  <2> QED BY <1>1, <2>1, <2>2 DEF Registry, OneKeyEach
<1> QED BY <1>1, <1>3, <1>4 DEF Registry, HandshakeOfServer

LEMMA RegistryCallback ==
  ASSUME TypeOK, Registry, LwsCallback PROVE Registry'
<1>1. PICK w \in Wsi : LwsCallback!(w) BY DEF LwsCallback
<1>2. /\ clients \in [Key -> Wsi \cup {NoWsi}] /\ wsi \in [Wsi -> WsiState]
      /\ NoWsi \notin Wsi
  BY ConnectionAssumption DEF TypeOK, TypeOKConnection, TypeOKLink
<1>3. ASSUME NEW s \in WsiState \ {"open"}, wsi[w] # "open",
             wsi' = [wsi EXCEPT ![w] = s], UNCHANGED clients,
             s \in {"bound", "accepted"} => NbMaxClient # 0
      PROVE  Registry'
  <2>1. HandshakeOfServer' BY <1>2, <1>3 DEF Registry, HandshakeOfServer
  <2>2. \A v \in Wsi : wsi'[v] = "open" <=> wsi[v] = "open" BY <1>2, <1>3
  <2>3. Registered' = Registered /\ \A k \in Registered : clients[k] \in Wsi
    BY <1>2, <1>3 DEF Registered
  <2>4. OneKeyEach' BY <1>3, <2>2, <2>3 DEF Registry, OneKeyEach
  <2> QED BY <2>1, <2>3, <2>4 DEF Registry, WithinLimit
<1>4. CASE \E k \in Key : HttpBindProtocol(w, k)
  BY <1>3, <1>4 DEF HttpBindProtocol, WsiState
<1>5. CASE AddHeaders(w)
  <2>1. NbMaxClient # 0 BY <1>5 DEF AddHeaders, Registry, HandshakeOfServer
  <2> QED BY <1>3, <1>5, <2>1 DEF AddHeaders, WsiState
<1>6. CASE \E k \in Key : Established(w, k) BY <1>6, RegistryAddClient
<1>7. CASE EstablishedFails(w) BY <1>3, <1>7 DEF EstablishedFails, WsiState
<1>8. CASE Closed(w) BY <1>8, RegistryClosed
<1>9. CASE ClientEstablished(w) \/ ClientEstablishedFails(w) \/ ClientClosed(w)
  <2>1. /\ NbMaxClient = 0 /\ clients' = clients
        /\ \E s \in {"open", "rejected", "none"} : wsi' = [wsi EXCEPT ![w] = s]
    BY <1>9 DEF ClientEstablished, ClientEstablishedFails, ClientClosed
  <2>2. HandshakeOfServer' BY <1>2, <2>1 DEF Registry, HandshakeOfServer
  <2> QED BY <2>1, <2>2, RegistryOfClient
<1>10. CASE ClientConnectionError(w)
  BY <1>10, RegistryDisconnect DEF ClientConnectionError
<1>11. CASE UNCHANGED <<wsi, clients>>
  BY <1>2, <1>11, RegistryKept DEF Registry, HandshakeOfServer
<1> QED
  BY <1>1, <1>4, <1>5, <1>6, <1>7, <1>8, <1>9, <1>10, <1>11
     DEF WriteableIdle, WriteableDone, WriteablePartial, Receive

(* Outside the callbacks a connection is only opened by the CONNECT of a   *)
(* client, and closed with its context.                                    *)
LEMMA RegistryStep ==
  ASSUME TypeOK, Registry, [Next]_vars
  PROVE  Registry'
<1>1. clients \in [Key -> Wsi \cup {NoWsi}] /\ wsi \in [Wsi -> WsiState]
  BY DEF TypeOK, TypeOKConnection, TypeOKLink
<1>2. CASE UNCHANGED <<wsi, clients>>
  BY <1>1, <1>2, RegistryKept DEF Registry, HandshakeOfServer
<1>3. CASE ClientDisconnect BY <1>3, RegistryDisconnect
<1>4. CASE Service BY <1>4, RegistryCallback DEF Service
<1>5. CASE \E w \in Wsi \cup {NoWsi} : StartConnect(w)
  <2>1. PICK w \in Wsi \cup {NoWsi} : StartConnect(w) BY <1>5
  <2>2. HandshakeOfServer'
    BY <1>1, <2>1 DEF StartConnect, Registry, HandshakeOfServer
  <2> QED BY <2>1, <2>2, RegistryOfClient DEF StartConnect
<1>6. CASE User
  BY <1>2, <1>3, <1>6
     DEF User, Run, RunListen, Program, MarkPending, GetResult, SyncGetResult,
         SyncTimeout, Stop, StopThread, StopJoin, PushParam, connVars, linkVars
<1>7. CASE Control
  BY <1>2, <1>7
     DEF Control, CancelWebSocketOperation, CancelNoWait, CancelSignalled,
         CancelTimeout, ClearWebSocketOperation, ResetWebSocketOperation, connVars,
         linkVars
<1>8. CASE Start
  BY <1>2, <1>3, <1>5, <1>8
     DEF Start, StartListen, StartConnectRefused, StartConnectNoContext,
         StartDisconnect, StartExit, StartRead, StartWriteRefused, StartWrite,
         connVars, linkVars
<1>9. CASE Pending
  BY <1>2, <1>3, <1>9
     DEF Pending, PollListen, PollConnect, PollDisconnect, PollRead, PollWrite,
         PollOther, linkVars
<1>10. CASE CancelFlush \/ Exit
  BY <1>2, <1>3, <1>10 DEF CancelFlush, Exit
<1> QED
  BY <1>2, <1>4, <1>6, <1>7, <1>8, <1>9, <1>10
     DEF Next, Worker, ServiceReturn, PopNone, PopOverCommand, NoCancel,
         CancelTake, CancelSignal, Send, Loop, LoopNoContext, TimePasses, vars,
         connVars, linkVars

(* The registry holds the open connections of a server, each under one     *)
(* key, and never more than NbMaxClient_U32, however handshakes, refusals, *)
(* failures and closes of any number of peers are interleaved.             *)
THEOREM RegistryCorrect == Spec => []RegistryIsLive
<1>1. TypeOK /\ Registry /\ [Next]_vars => Registry'
  BY RegistryStep
<1>2. TypeOK /\ Registry => RegistryIsLive
  <2> SUFFICES ASSUME TypeOK, Registry,
                      NEW w \in Wsi, wsi[w] = "open", NbMaxClient # 0
               PROVE  Cardinality({k \in Key : clients[k] = w}) = 1
    BY DEF Registry, OneKeyEach, WithinLimit, RegistryIsLive
  <2>1. PICK k \in Key : clients[k] = w BY DEF Registry, OneKeyEach
  <2>2. \A j \in Key : clients[j] = w => j \in Registered
    BY ConnectionAssumption DEF Registered
  <2>3. {j \in Key : clients[j] = w} = {k}
    BY <2>1, <2>2 DEF Registry, OneKeyEach
  <2> QED BY <2>3, FS_Singleton
<1> QED BY RegistryInit, <1>1, <1>2, TypeCorrect, PTL DEF Spec
=============================================================================
