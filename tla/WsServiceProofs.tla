-------------------------- MODULE WsServiceProofs --------------------------
(***************************************************************************)
(* What WsOperation is to its user, for every value of the constants: a    *)
(* patient client loses no result, and the tickets are an                  *)
(* OperationService.                                                       *)
(***************************************************************************)
EXTENDS WsAnswerProofs

-----------------------------------------------------------------------------
(* A patient client loses no result.                                       *)

PatientClient == Patient /\ Controls = {} /\ NbMaxClient = 0

(* Nobody cancels.                                                         *)
Calm == ~mCancel /\ pc \notin {"flush", "signal"}

(* A client has one connection, and callbacks are asked for that one.      *)
OneConnection ==
  /\ \A v, w \in Wsi : wsi[v] # "none" /\ wsi[w] # "none" => v = w
  /\ \A w \in wantWrite : wsi[w] = "open"

(* V_OnProcessing deals with one operation at a time, that of the call the *)
(* user waits in, and with none between two calls.                         *)
OneCall ==
  /\ user = "ready" => params = <<>> /\ ~ioPending /\ ~sendResult
  /\ user = "pushed" => userCall.kind \in {"sync", "stop"}
  /\ user \in {"pushed", "waiting"} =>
       CommandTickets \cup InFlight \subseteq {userCall.ticket}
  /\ Len(params) <= 1
  /\ params # <<>> => ~ioPending /\ ~sendResult

(* The poll acts on the operation in flight, or on none when the context   *)
(* is gone, and then its time is over; so it always answers, except for a  *)
(* WRITE, whose data are queued.                                           *)
OwnPoll ==
  /\ cur.op = "MAX" => overdue
  /\ ioPending => cur.op \in {res.op, "MAX"} /\ res.op \notin {"LISTEN", "EXIT"}
  /\ ioPending /\ res.op = "WRITE" =>
       pc = "pending" /\ cur.op = "WRITE" /\ res.ticket \in Elements(writeOps)
  /\ pc \in {"cancel", "send"} /\ sendResult => ~ioPending

Answered ==
  /\ \A r \in Elements(results) : answers[r.ticket] > 0
  /\ Sending => answers[res.ticket] = 0

(* The results still to come without another call: the one that the next   *)
(* writeable callback makes, however many writes are queued, and the one   *)
(* of the operation at hand, unless that is a WRITE whose data are queued. *)
Asked == IF wantWrite = {} THEN 0 ELSE 1

Owed == IF params # <<>> \/ (ioPending /\ res.op # "WRITE") \/ (sendResult /\ ~ioPending)
        THEN 1 ELSE 0

Room == Len(results) + Asked + Owed <= IF user = "ready" THEN 1 ELSE 2

NoneLost ==
  \A t \in Accepted :
    t \in CommandTickets \cup InFlight \cup Elements(writeOps) \/ answers[t] > 0

Waits ==
  Calm /\ OneConnection /\ OneCall /\ OwnPoll /\ Answered /\ Room /\ NoneLost

LEMMA WaitsInit == Init => Waits
<1> SUFFICES ASSUME Init PROVE Waits OBVIOUS
<1>1. /\ params = <<>> /\ results = <<>> /\ writeOps = <<>> /\ Len(<<>>) = 0
      /\ ~ioPending /\ ~sendResult /\ user = "ready" /\ pc = "idle" /\ wantWrite = {}
  BY DEF Init, InitConnection
<1>2. Elements(<<>>) = {} BY ElementsEmpty
<1>3. Calm /\ OneConnection BY <1>1 DEF Calm, OneConnection, Init, InitConnection
<1>4. OneCall BY <1>1 DEF OneCall
<1>5. OwnPoll BY <1>1 DEF OwnPoll, Init
<1>6. Answered BY <1>1, <1>2 DEF Answered, Sending
<1>7. Room BY <1>1 DEF Room, Asked, Owed
<1>8. NoneLost BY DEF NoneLost, Accepted, Init
<1> QED BY <1>3, <1>4, <1>5, <1>6, <1>7, <1>8 DEF Waits

(* A step that makes, takes and drops no result.                           *)
LEMMA WaitsFrame ==
  ASSUME Waits,
         UNCHANGED <<params, res, ioPending, sendResult, writeOps, results, answers,
                     programmed>>,
         Calm', OneConnection', wantWrite = {} => wantWrite' = {},
         OneCall', OwnPoll', Sending' => Sending,
         user' = user \/ user' # "ready", TypeOK
  PROVE  Waits'
<1>1. CommandTickets' = CommandTickets /\ InFlight' = InFlight /\ Accepted' = Accepted
  BY DEF CommandTickets, InFlight, Accepted
<1>2. Answered' BY DEF Waits, Answered
<1>3. Room'
  <2>1. Len(results) \in Nat
    BY LenProperties DEF TypeOK, TypeOKConnection, TypeOKResults
  <2>2. Owed' = Owed BY DEF Owed
  <2>3. Owed \in {0, 1} BY DEF Owed
  <2> QED BY <2>1, <2>2, <2>3 DEF Waits, Room, Asked
<1>4. NoneLost' BY <1>1 DEF Waits, NoneLost
<1> QED BY <1>2, <1>3, <1>4 DEF Waits

(* Between two calls the queue of commands is empty, so that it takes the  *)
(* next one.                                                               *)
LEMMA WaitsPushParam ==
  ASSUME TypeOK, Names, Once, Waits, NEW op \in Operation, NEW kind \in {"sync", "stop"},
         NEW full, user = "ready", PushParam(op, kind, full)
  PROVE  Waits'
<1> DEFINE e == [op |-> op, ticket |-> mTicket]
<1>1. params = <<>> /\ Len(params) = 0 /\ ~ioPending /\ ~sendResult
  BY DEF Waits, OneCall
<1>2. /\ params' = Append(params, e)
      /\ programmed' = [programmed EXCEPT ![mTicket] = op]
      /\ userCall' = [kind |-> kind, ticket |-> mTicket]
      /\ user' = "pushed"
      /\ UNCHANGED <<connVars, workerVars, pc, mCancel>>
  BY <1>1, ConnectionAssumption DEF PushParam, cancelVars
<1>3. mTicket \in Ticket
  BY ConnectionAssumption DEF PushParam, TypeOK, TypeOKThreads, Ticket
<1>4. e \in Param /\ params \in Seq(Param) /\ e.ticket = mTicket
  BY <1>3 DEF Param, TypeOK, TypeOKWorker
<1> HIDE DEF e
<1>5. Elements(params') = {e} /\ Len(params') = 1
  <2>1. Elements(params') = Elements(params) \cup {e}
    BY <1>2, <1>4, ElementsAppend
  <2>2. Elements(params) = {} BY <1>1, ElementsEmpty
  <2>3. Len(params') = Len(params) + 1 BY <1>2, <1>4, AppendProperties
  <2> QED BY <1>1, <2>1, <2>2, <2>3
<1>6. CommandTickets' = {mTicket} BY <1>4, <1>5 DEF CommandTickets
<1>7. /\ UNCHANGED <<wsi, wantWrite, writeOps, results, answers, cur, overdue, res,
                     ioPending, sendResult>>
      /\ InFlight' = {} /\ InFlight = {}
  BY <1>1, <1>2 DEF connVars, linkVars, resultVars, workerVars, InFlight
<1>8. Calm' BY <1>2 DEF Waits, Calm
<1>9. OneConnection' BY <1>7 DEF Waits, OneConnection
<1>10. OneCall' BY <1>1, <1>2, <1>5, <1>6, <1>7 DEF OneCall
<1>11. OwnPoll' BY <1>2, <1>7 DEF Waits, OwnPoll
<1>12. Answered' BY <1>2, <1>7 DEF Waits, Answered, Sending
<1>13. Room'
  <2>1. Len(results) \in Nat
    BY LenProperties DEF TypeOK, TypeOKConnection, TypeOKResults
  <2>2. Owed = 0 /\ Asked' = Asked /\ Asked \in {0, 1} /\ Owed' \in {0, 1}
    BY <1>1, <1>7 DEF Owed, Asked
  <2> QED BY <1>2, <1>7, <2>1, <2>2 DEF Waits, Room
<1>14. NoneLost'
  <2>1. \A t \in Ticket : t # mTicket => programmed'[t] = programmed[t]
    BY <1>2, <1>3 DEF TypeOK, TypeOKThreads
  <2>2. CommandTickets = {} BY <1>1, ElementsEmpty DEF CommandTickets
  <2>3. ASSUME NEW t \in Accepted'
        PROVE  t \in CommandTickets' \cup InFlight' \cup Elements(writeOps') \/ answers'[t] > 0
    <3>1. t \in Ticket BY DEF Accepted
    <3>2. CASE t = mTicket BY <1>6, <3>2
    <3>3. CASE t # mTicket
      <4>1. t \in Accepted BY <2>1, <3>1, <3>3 DEF Accepted
      <4> QED BY <1>7, <2>2, <4>1 DEF Waits, NoneLost
    <3> QED BY <3>2, <3>3
  <2> QED BY <2>3 DEF NoneLost
<1> QED BY <1>8, <1>9, <1>10, <1>11, <1>12, <1>13, <1>14 DEF Waits

(* The user thread.  A call that returns with its answer returns after     *)
(* V_OnProcessing is done with its operation.                              *)
LEMMA WaitsSyncGetResult ==
  ASSUME TypeOK, Once, PatientClient, Waits, GetResult \/ SyncGetResult
  PROVE  Waits'
<1>1. /\ results \in Seq(Result) /\ results # <<>> /\ results' = Tail(results)
      /\ UNCHANGED <<wsi, wantWrite, params, cur, overdue, res, ioPending, sendResult,
                     pc, mCancel, writeOps, answers, programmed>>
  BY DEF GetResult, SyncGetResult, linkVars, opVars, workerVars, cancelVars, ghostVars,
         TypeOK, TypeOKConnection, TypeOKResults
<1>2. /\ Head(results) \in Elements(results)
      /\ Elements(results') \subseteq Elements(results)
      /\ Len(results) \in Nat /\ Len(results') = Len(results) - 1
  BY <1>1, ElementsTail, HeadTailProperties, LenProperties
<1>3. CommandTickets' = CommandTickets /\ InFlight' = InFlight /\ Accepted' = Accepted
      /\ Asked' = Asked /\ Owed' = Owed /\ Asked \in {0, 1} /\ Owed \in {0, 1}
  BY <1>1 DEF CommandTickets, InFlight, Accepted, Asked, Owed
<1>4. Calm' /\ OneConnection' /\ OwnPoll'
  BY <1>1 DEF Waits, Calm, OneConnection, OwnPoll
<1>5. Answered' BY <1>1, <1>2 DEF Waits, Answered, Sending
<1>6. NoneLost' BY <1>1, <1>3 DEF Waits, NoneLost
<1>7. CASE UNCHANGED <<user, userCall>>
  <2>1. OneCall' BY <1>1, <1>3, <1>7 DEF Waits, OneCall
  <2>2. Room' BY <1>2, <1>3, <1>7 DEF Waits, Room
  <2> QED BY <1>4, <1>5, <1>6, <2>1, <2>2 DEF Waits
<1>8. CASE /\ user = "waiting" /\ user' = "ready"
           /\ Head(results).ticket = userCall.ticket
  <2>1. answers[userCall.ticket] > 0 BY <1>2, <1>8 DEF Waits, Answered
  <2>2. userCall.ticket \notin CommandTickets
    BY <2>1 DEF Once, NotStarted
  <2>3. userCall.ticket \notin InFlight
    BY <2>1 DEF Waits, Answered, InFlight, Sending
  <2>4. CommandTickets = {} /\ InFlight = {}
    BY <1>8, <2>2, <2>3 DEF Waits, OneCall
  <2>5. ~ioPending /\ ~sendResult BY <2>4 DEF InFlight
  <2>6. params = <<>>
    <3>1. params \in Seq(Param) BY DEF TypeOK, TypeOKWorker
    <3>2. params # <<>> => Head(params) \in Elements(params) BY <3>1, ElementsTail
    <3> QED BY <2>4, <3>2 DEF CommandTickets
  <2>7. OneCall' BY <1>1, <1>3, <1>8, <2>5, <2>6 DEF Waits, OneCall
  <2>8. Room'
    <3>1. Len(results) + Asked + Owed <= 2 BY <1>8 DEF Waits, Room
    <3> QED BY <1>2, <1>3, <1>8, <3>1 DEF Room
  <2> QED BY <1>4, <1>5, <1>6, <2>7, <2>8 DEF Waits
<1> QED BY <1>7, <1>8 DEF GetResult, SyncGetResult, opVars, userVars

(* One that returns without has let V_OnProcessing finish.                 *)
LEMMA WaitsSyncTimeout ==
  ASSUME TypeOK, PatientClient, Waits, SyncTimeout
  PROVE  Waits'
<1>1. /\ UNCHANGED <<wsi, wantWrite, params, cur, overdue, res, ioPending, sendResult,
                     pc, mCancel, writeOps, results, answers, programmed>>
      /\ user = "waiting" /\ user' = "ready" /\ results = <<>>
      /\ userCall.ticket \notin TicketsOf(params) \cup InFlight
  BY DEF SyncTimeout, PatientClient, connVars, linkVars, resultVars, workerVars,
         cancelVars, ghostVars
<1>2. TicketsOf(params) = CommandTickets
  BY DEF TicketsOf, CommandTickets, Elements
<1>3. CommandTickets = {} /\ InFlight = {} BY <1>1, <1>2 DEF Waits, OneCall
<1>4. ~ioPending /\ ~sendResult BY <1>3 DEF InFlight
<1>5. params = <<>>
  <2>1. params \in Seq(Param) BY DEF TypeOK, TypeOKWorker
  <2>2. params # <<>> => Head(params) \in Elements(params) BY <2>1, ElementsTail
  <2> QED BY <1>3, <2>2 DEF CommandTickets
<1>6. Calm' /\ OneConnection' /\ OwnPoll'
  BY <1>1 DEF Waits, Calm, OneConnection, OwnPoll
<1>7. Answered' BY <1>1 DEF Waits, Answered, Sending
<1>8. OneCall' BY <1>1, <1>4, <1>5 DEF Waits, OneCall
<1>9. Room'
  <2>1. Owed' = 0 /\ (Asked' = 0 \/ Asked' = 1) /\ Len(results') = 0 /\ user' = "ready"
    BY <1>1, <1>4, <1>5 DEF Owed, Asked
  <2>2. Len(results') + Asked' + Owed' <= 1
    BY <2>1
  <2> QED BY <2>1, <2>2 DEF Room
<1>10. NoneLost'
  BY <1>1 DEF Waits, NoneLost, CommandTickets, InFlight, Accepted
<1> QED BY <1>6, <1>7, <1>8, <1>9, <1>10 DEF Waits

(* BOF_LWS_CLIENT_DISCONNECT leaves no connection.                         *)
LEMMA NoConnection ==
  ASSUME ClientDisconnect PROVE OneConnection' /\ wantWrite' = {}
BY DEF ClientDisconnect, OneConnection

LEMMA WaitsUser ==
  ASSUME TypeOK, Names, Once, PatientClient, Waits, User
  PROVE  Waits'
<1>1. user # "listen" /\ NbMaxClient = 0
  BY DEF PatientClient, Names, ListenMode
<1>2. ASSUME NEW op \in UserOps, NEW kind \in UserKinds(op), Program(op, kind)
      PROVE  Waits'
  <2>1. kind \in {"sync", "stop"} BY DEF UserKinds, PatientClient
  <2>2. op \in Operation BY OperationAssumption
  <2> QED BY <1>2, <2>1, <2>2, WaitsPushParam DEF Program
<1>3. CASE Stop BY <1>3, WaitsPushParam DEF Stop, Operation
<1>4. CASE Run \/ MarkPending \/ StopThread
  <2>1. /\ UNCHANGED <<wsi, wantWrite, params, cur, overdue, res, ioPending, sendResult,
                       mCancel, writeOps, results, answers, programmed>>
        /\ pc' = pc \/ (pc = "idle" /\ pc' = "pop")
    BY <1>4
       DEF Run, MarkPending, StopThread, connVars, linkVars, resultVars, workerVars,
           cancelVars, ghostVars
  <2>2. Calm' BY <2>1 DEF Waits, Calm
  <2>3. OneConnection' BY <2>1 DEF Waits, OneConnection
  <2>4. OneCall'
    <3>1. CommandTickets' = CommandTickets /\ InFlight' = InFlight
      BY <2>1 DEF CommandTickets, InFlight
    <3>2. CASE Run
      BY <1>1, <2>1, <3>2 DEF Run, Waits, OneCall
    <3>3. CASE MarkPending
      <4>1. user = "pushed" /\ userCall.kind \in {"sync", "stop"}
        BY <3>3 DEF MarkPending, Waits, OneCall
      <4>2. \/ user' = "waiting" /\ userCall' = userCall
            \/ user' = "stopping"
        BY <3>3, <4>1 DEF MarkPending
      <4> QED BY <2>1, <3>1, <4>1, <4>2 DEF Waits, OneCall
    <3>4. CASE StopThread
      BY <2>1, <3>4 DEF StopThread, Waits, OneCall
    <3> QED BY <1>4, <3>2, <3>3, <3>4
  <2>5. OwnPoll' BY <2>1 DEF Waits, OwnPoll
  <2>6. user' = user \/ user' # "ready"
    <3>1. MarkPending => user' # "ready"
      BY DEF MarkPending, Waits, OneCall
    <3> QED BY <1>1, <1>4, <3>1 DEF Run, StopThread
  <2>7. Sending' => Sending BY <2>1 DEF Sending
  <2> QED BY <2>1, <2>2, <2>3, <2>4, <2>5, <2>6, <2>7, WaitsFrame
<1>5. CASE StopJoin
  <2>1. /\ UNCHANGED <<params, cur, overdue, res, ioPending, sendResult, pc, mCancel,
                       writeOps, results, answers, programmed>>
        /\ ClientDisconnect /\ user' = "done"
    BY <1>5 DEF StopJoin, resultVars, workerVars, cancelVars, ghostVars
  <2>2. OneConnection' /\ wantWrite' = {} BY <2>1, NoConnection
  <2>3. Calm' /\ OwnPoll' BY <2>1 DEF Waits, Calm, OwnPoll
  <2>4. OneCall' BY <2>1 DEF Waits, OneCall
  <2>5. Sending' => Sending BY <2>1 DEF Sending
  <2> QED BY <2>1, <2>2, <2>3, <2>4, <2>5, WaitsFrame
<1> QED
  BY <1>1, <1>2, <1>3, <1>4, <1>5, WaitsSyncGetResult, WaitsSyncTimeout
     DEF User, RunListen

(* Without a cancel the control thread changes nothing that matters here.  *)
LEMMA WaitsStutter ==
  ASSUME TypeOK, Waits,
         UNCHANGED <<connVars, params, workerVars, pc, mCancel, user, userCall, programmed>>
  PROVE  Waits'
<1>1. UNCHANGED <<wsi, wantWrite, params, cur, overdue, res, ioPending, sendResult, pc,
                  mCancel, writeOps, results, answers, programmed, user, userCall>>
  BY DEF connVars, linkVars, resultVars, workerVars
<1>2. Calm' /\ OneConnection' /\ OwnPoll'
  BY <1>1 DEF Waits, Calm, OneConnection, OwnPoll
<1>3. OneCall' BY <1>1 DEF Waits, OneCall, CommandTickets, InFlight
<1>4. Sending' => Sending BY <1>1 DEF Sending
<1> QED BY <1>1, <1>2, <1>3, <1>4, WaitsFrame

LEMMA WaitsControl ==
  ASSUME TypeOK, PatientClient, Waits, Control
  PROVE  Waits'
<1>1. UNCHANGED <<connVars, params, workerVars, pc, mCancel, user, userCall, programmed>>
  BY DEF PatientClient, Control, CancelWebSocketOperation, CancelNoWait, CancelSignalled,
         CancelTimeout, ClearWebSocketOperation, ResetWebSocketOperation, cancelVars,
         userVars, ghostVars
<1> QED BY <1>1, WaitsStutter

(* With room a result that is pushed answers its ticket.                   *)
LEMMA PushedWithRoom ==
  ASSUME TypeOK, NEW r \in Result, r.ticket \in Ticket, PushResult(r), Len(results) <= 1
  PROVE  /\ Len(results') = Len(results) + 1
         /\ Elements(results') = Elements(results) \cup {r}
         /\ answers'[r.ticket] > 0
         /\ \A t \in Ticket : /\ answers[t] > 0 => answers'[t] > 0
                              /\ t # r.ticket => answers'[t] = answers[t]
<1>1. results \in Seq(Result) /\ answers \in [Ticket -> 0 .. 2] /\ Len(results) \in Nat
  BY LenProperties DEF TypeOK, TypeOKConnection, TypeOKResults
<1>2. Len(results) < ResultCapacity
  BY <1>1, ConnectionAssumption DEF ResultCapacity
<1>3. /\ results' = Append(results, r)
      /\ answers' = [t \in Ticket |-> IF t = r.ticket /\ answers[t] < 2
                                        THEN answers[t] + 1 ELSE answers[t]]
  BY <1>2 DEF PushResult
<1>4. Len(results') = Len(results) + 1 /\ Elements(results') = Elements(results) \cup {r}
  BY <1>1, <1>3, ElementsAppend, AppendProperties
<1>5. \A t \in Ticket : /\ answers[t] \in 0 .. 2
                        /\ answers'[t] = IF t = r.ticket /\ answers[t] < 2
                                           THEN answers[t] + 1 ELSE answers[t]
  BY <1>1, <1>3
<1> QED BY <1>4, <1>5

(* A callback that answers nothing.                                        *)
LEMMA OneConnectionCallback ==
  ASSUME TypeOK, PatientClient, OneConnection, LwsCallback
  PROVE  OneConnection'
<1>1. wsi \in [Wsi -> WsiState] /\ wantWrite \subseteq Wsi
  BY DEF TypeOK, TypeOKConnection, TypeOKLink
<1>2. PICK w \in Wsi : LwsCallback!(w) BY DEF LwsCallback
<1>3. CASE /\ wsi[w] # "none" /\ wsi[w] # "open"
           /\ \E s \in WsiState : wsi' = [wsi EXCEPT ![w] = s]
           /\ wantWrite' = wantWrite
  <2>1. \A v \in Wsi : v # w => wsi'[v] = wsi[v] BY <1>1, <1>3
  <2>2. w \notin wantWrite BY <1>3 DEF OneConnection
  <2> QED BY <1>1, <1>3, <2>1, <2>2 DEF OneConnection
<1>4. CASE ClientClosed(w)
  <2>1. \A v \in Wsi : wsi'[v] = IF v = w THEN "none" ELSE wsi[v]
    BY <1>1, <1>4 DEF ClientClosed
  <2>2. wantWrite' = wantWrite \ {w} BY <1>4 DEF ClientClosed
  <2> QED BY <1>1, <2>1, <2>2 DEF OneConnection
<1>5. CASE ClientConnectionError(w)
  BY <1>5, NoConnection DEF ClientConnectionError
<1>6. CASE WriteablePartial(w)
  <2>1. wsi' = wsi BY <1>6 DEF WriteablePartial
  <2>2. PICK granted \in BOOLEAN : RequestWriteable(wantWrite \ {w}, granted)
    BY <1>6 DEF WriteablePartial
  <2> QED BY <2>1, <2>2 DEF RequestWriteable, OneConnection
<1>7. CASE wsi' = wsi /\ wantWrite' \subseteq wantWrite
  BY <1>7 DEF OneConnection
<1>8. ASSUME NEW k \in Key, Established(w, k) PROVE OneConnection'
  <2>1. /\ wsi[w] = "accepted" /\ wantWrite' = wantWrite
        /\ \E s \in WsiState : wsi' = [wsi EXCEPT ![w] = s]
    BY <1>8 DEF Established, AddClient, WsiState
  <2> QED BY <1>3, <2>1
<1>9. CASE AddHeaders(w) \/ EstablishedFails(w)
  <2>1. /\ wsi[w] \in {"bound", "accepted"} /\ wantWrite' = wantWrite
        /\ \E s \in WsiState : wsi' = [wsi EXCEPT ![w] = s]
    BY <1>9 DEF AddHeaders, EstablishedFails, WsiState
  <2> QED BY <1>3, <2>1
<1>10. CASE ClientEstablished(w) \/ ClientEstablishedFails(w)
  <2>1. /\ wsi[w] = "opening" /\ wantWrite' = wantWrite
        /\ \E s \in WsiState : wsi' = [wsi EXCEPT ![w] = s]
    BY <1>10 DEF ClientEstablished, ClientEstablishedFails, WsiState
  <2> QED BY <1>3, <2>1
<1> QED
  BY <1>2, <1>4, <1>5, <1>6, <1>7, <1>8, <1>9, <1>10
     DEF PatientClient, HttpBindProtocol, Closed, WriteableIdle, WriteableDone, Receive

(* The writeable callback answers the write at the head of its queue, and  *)
(* asks for no other one.                                                  *)
LEMMA WaitsService ==
  ASSUME TypeOK, Names, Once, PatientClient, Waits, Service
  PROVE  Waits'
<1>1. UNCHANGED opVars /\ LwsCallback /\ pc = "service" BY DEF Service
<1>2. UNCHANGED <<params, cur, overdue, res, ioPending, sendResult, pc, mCancel, user,
                  userCall, programmed>>
  BY <1>1 DEF opVars, workerVars, cancelVars, userVars, ghostVars
<1>3. OneConnection' BY <1>1, OneConnectionCallback DEF Waits
<1>4. Calm' BY <1>2 DEF Waits, Calm
<1>5. CommandTickets' = CommandTickets /\ InFlight' = InFlight /\ Accepted' = Accepted
  BY <1>2 DEF CommandTickets, InFlight, Accepted
<1>6. OneCall' BY <1>2, <1>5 DEF Waits, OneCall
<1>7. ioPending => res.op # "WRITE" BY <1>1 DEF Waits, OwnPoll
<1>8. OwnPoll' BY <1>2, <1>7 DEF Waits, OwnPoll
<1>9. CASE UNCHANGED <<writeOps, results, answers>> /\ (wantWrite = {} => wantWrite' = {})
  <2>1. Sending' => Sending BY <1>2 DEF Sending
  <2> QED BY <1>2, <1>3, <1>4, <1>6, <1>8, <1>9, <2>1, WaitsFrame
<1>10. ASSUME NEW w \in Wsi, NEW sts \in {"NO_ERROR", "WRITE_ERROR", "ETIMEDOUT"},
              WriteableDone(w, sts)
       PROVE  Waits'
  <2> DEFINE h == Head(writeOps)
             r == [op |-> "WRITE", ticket |-> h, sts |-> sts]
  <2>1. /\ writeOps \in Seq(Ticket) /\ writeOps # <<>> /\ writeOps' = Tail(writeOps)
        /\ w \in wantWrite /\ wantWrite' = wantWrite \ {w} /\ PushResult(r)
    BY <1>10 DEF WriteableDone, TypeOK, TypeOKConnection
  <2>2. h \in Ticket /\ h \in Elements(writeOps) BY <2>1, HeadTailProperties, ElementsTail
  <2>3. r \in Result /\ r.ticket = h BY <2>2 DEF Result, Operation, Status
  <2>4. wantWrite' = {} /\ Asked = 1 /\ Asked' = 0
    <3>1. wantWrite \subseteq Wsi BY DEF TypeOK, TypeOKConnection, TypeOKLink
    <3>2. \A v \in wantWrite : v = w
      BY <2>1, <3>1 DEF Waits, OneConnection
    <3> QED BY <2>1, <3>2 DEF Asked
  <2>5. Len(results) \in Nat /\ Owed' = Owed /\ Owed \in {0, 1}
    BY <1>2, LenProperties DEF TypeOK, TypeOKConnection, TypeOKResults, Owed
  <2>6. Len(results) <= 1 BY <2>4, <2>5 DEF Waits, Room
  <2>7. programmed[h] = "WRITE" BY <2>2 DEF Names, AnswersNamed
  <2>8. \A t \in Elements(writeOps) : t = h \/ t \in Elements(writeOps')
    <3>1. /\ Len(writeOps) \in Nat \ {0} /\ DOMAIN writeOps = 1 .. Len(writeOps)
          /\ h = writeOps[1]
          /\ DOMAIN writeOps' = 1 .. Len(writeOps) - 1
          /\ \A i \in 1 .. Len(writeOps) - 1 : writeOps'[i] = writeOps[i + 1]
      BY <2>1, HeadTailProperties, LenProperties, EmptySeq
    <3>2. ASSUME NEW i \in DOMAIN writeOps, i # 1
          PROVE  i - 1 \in DOMAIN writeOps' /\ writeOps[i] = writeOps'[i - 1]
      BY <3>1, <3>2
    <3> HIDE DEF h
    <3> QED BY <3>1, <3>2 DEF Elements
  <2> HIDE DEF h, r
  <2>9. /\ Len(results') = Len(results) + 1
        /\ Elements(results') = Elements(results) \cup {r}
        /\ answers'[h] > 0
        /\ \A t \in Ticket : /\ answers[t] > 0 => answers'[t] > 0
                             /\ t # h => answers'[t] = answers[t]
    BY <2>1, <2>2, <2>3, <2>6, PushedWithRoom
  <2>10. Answered'
    <3>1. \A q \in Elements(results) : q.ticket \in Ticket
      BY DEF Names, AnswersNamed, Named
    <3>2. Sending => res.ticket \in Ticket /\ res.ticket # h
      <4>1. ASSUME Sending PROVE Named(res) /\ res.op # "WRITE"
        <5>1. ~sendResult BY <1>1 DEF Once, TurnFlags
        <5> QED BY <1>1, <1>7, <4>1, <5>1 DEF Sending, Names, AnswersNamed
      <4> QED BY <2>7, <4>1 DEF Named
    <3>3. Sending' <=> Sending BY <1>2 DEF Sending
    <3> QED BY <1>2, <2>3, <2>9, <3>1, <3>2, <3>3 DEF Waits, Answered
  <2>11. Room' BY <1>2, <2>4, <2>5, <2>9 DEF Waits, Room
  <2>12. NoneLost'
    <3>1. Accepted \subseteq Ticket BY DEF Accepted
    <3> QED BY <1>5, <2>8, <2>9, <3>1 DEF Waits, NoneLost
  <2> QED BY <1>3, <1>4, <1>6, <1>8, <2>10, <2>11, <2>12 DEF Waits
<1> QED
  BY <1>1, <1>9, <1>10
     DEF LwsCallback, HttpBindProtocol, AddHeaders, Established, EstablishedFails,
         Closed, ClientEstablished, ClientEstablishedFails, ClientClosed,
         ClientConnectionError, ClientDisconnect, WriteableIdle, WriteablePartial,
         Receive, resultVars

(* What is started leaves the queue of commands and is in flight, answered *)
(* at the end of the turn, or, if it is a WRITE, in the queue of writes.   *)
LEMMA WaitsStartCommand ==
  ASSUME TypeOK, Names, Once, Waits, NEW op \in Operation, NEW sts \in Status,
         StartCommand(op, sts), UNCHANGED resultVars, OneConnection',
         op \in {"LISTEN", "EXIT"} => sts # "NO_ERROR",
         \/ /\ UNCHANGED writeOps
            /\ op = "WRITE" => sts # "NO_ERROR"
            /\ wantWrite = {} => wantWrite' = {}
         \/ /\ op = "WRITE"
            /\ writeOps' = Append(writeOps, Head(params).ticket)
            /\ sts = "NO_ERROR" \/ (wantWrite = {} => wantWrite' = {})
  PROVE  Waits'
<1> DEFINE h == Head(params).ticket
<1>1. /\ params \in Seq(Param) /\ params # <<>> /\ params' = Tail(params)
      /\ Head(params).op = op /\ cur' = Head(params) /\ overdue' = FALSE
      /\ res' = [op |-> op, ticket |-> h, sts |-> sts]
      /\ sendResult' = TRUE
      /\ ioPending' = (ioPending \/ sts = "NO_ERROR")
      /\ pc' = IF ioPending' THEN "pending" ELSE "cancel"
      /\ UNCHANGED <<mCancel, user, userCall, programmed, results, answers>>
  BY DEF StartCommand, TypeOK, TypeOKWorker, cancelVars, userVars, resultVars
<1>2. ~ioPending /\ ~sendResult /\ Len(params) <= 1
  BY <1>1 DEF Waits, OneCall
<1>3. h \in Ticket BY <1>1, TypeTakeParam DEF Param
<1>4. /\ params' = <<>> /\ CommandTickets' = {}
      /\ CommandTickets = {h}
  <2>1. /\ Len(params) \in Nat \ {0} /\ DOMAIN params = 1 .. Len(params)
        /\ Head(params) = params[1]
        /\ params' \in Seq(Param) /\ Len(params') = Len(params) - 1
    BY <1>1, HeadTailProperties, LenProperties, EmptySeq
  <2>2. Len(params) = 1 BY <1>2, <2>1
  <2>3. params' = <<>>
    <3>1. \A s \in Seq(Param) : Len(s) = 0 => s = <<>> BY EmptySeq
    <3> QED BY <2>1, <2>2, <3>1
  <2>4. Elements(params) = {Head(params)} BY <2>1, <2>2 DEF Elements
  <2> QED BY <1>1, <2>3, <2>4, ElementsEmpty DEF CommandTickets
<1>5. /\ ioPending' <=> sts = "NO_ERROR"
      /\ InFlight' = {h} /\ InFlight = {}
  BY <1>1, <1>2 DEF InFlight
<1>6. /\ Elements(writeOps) \subseteq Elements(writeOps')
      /\ op = "WRITE" /\ sts = "NO_ERROR" => h \in Elements(writeOps')
  <2>1. writeOps \in Seq(Ticket) BY DEF TypeOK, TypeOKConnection
  <2>2. CASE writeOps' = Append(writeOps, h)
    BY <1>3, <2>1, <2>2, ElementsAppend
  <2>3. CASE writeOps' = writeOps /\ (op = "WRITE" => sts # "NO_ERROR") BY <2>3
  <2> QED BY <2>2, <2>3
<1>7. cur'.op = op /\ res'.op = op /\ res'.ticket = h /\ op # "MAX"
  BY <1>1 DEF Operation
<1> HIDE DEF h
<1>8. Calm' BY <1>1 DEF Waits, Calm
<1>9. OneCall' BY <1>1, <1>4, <1>5 DEF Waits, OneCall
<1>10. OwnPoll' BY <1>1, <1>5, <1>6, <1>7 DEF OwnPoll
<1>11. Answered'
  <2>1. answers[h] = 0 BY <1>4 DEF Once, NotStarted
  <2> QED BY <1>1, <1>7, <2>1 DEF Waits, Answered
<1>12. Room'
  <2>1. Len(results) \in Nat
    BY LenProperties DEF TypeOK, TypeOKConnection, TypeOKResults
  <2>2. Owed = 1 BY <1>1 DEF Owed
  <2>3. Owed' = IF op = "WRITE" /\ sts = "NO_ERROR" THEN 0 ELSE 1
    BY <1>1, <1>4, <1>5, <1>7 DEF Owed
  <2>4. \/ Asked' \in {0, 1} /\ Asked \in {0, 1} /\ op = "WRITE" /\ sts = "NO_ERROR"
        \/ Asked' <= Asked /\ Asked' \in {0, 1} /\ Asked \in {0, 1}
    BY DEF Asked
  <2>5. Len(results) + Asked + 1 <= IF user = "ready" THEN 1 ELSE 2
    BY <2>2 DEF Waits, Room
  <2> QED BY <1>1, <2>1, <2>3, <2>4, <2>5 DEF Room
<1>13. NoneLost'
  <2>1. Accepted' = Accepted BY <1>1 DEF Accepted
  <2> QED BY <1>1, <1>4, <1>5, <1>6, <2>1 DEF Waits, NoneLost
<1> QED BY <1>8, <1>9, <1>10, <1>11, <1>12, <1>13 DEF Waits

LEMMA WaitsStart ==
  ASSUME TypeOK, SessionNeedsContext, Names, Once, PatientClient, Waits, Start
  PROVE  Waits'
<1>1. NbMaxClient = 0 /\ OneConnection BY DEF PatientClient, Waits
<1>2. UNCHANGED linkVars => OneConnection' /\ wantWrite' = wantWrite
  BY <1>1 DEF linkVars, OneConnection
<1>3. ASSUME NEW created \in BOOLEAN, StartListen(created) PROVE Waits'
  <2>1. StartCommand("LISTEN", "WRONG_MODE") /\ UNCHANGED <<linkVars, writeOps, resultVars>>
    BY <1>1, <1>3 DEF StartListen
  <2> QED BY <1>2, <2>1, WaitsStartCommand DEF Operation, Status
<1>4. CASE StartConnectRefused
  <2>1. StartCommand("CONNECT", "INVALID_STATE") /\ UNCHANGED connVars
    BY <1>1, <1>4 DEF StartConnectRefused
  <2> QED BY <1>2, <2>1, WaitsStartCommand DEF connVars, Operation, Status
<1>5. CASE \E sts \in {"INIT", "ENOTCONN"} : StartConnectNoContext(sts)
  BY <1>5, NoConnection, WaitsStartCommand DEF StartConnectNoContext, Operation, Status
<1>6. ASSUME NEW w \in Wsi \cup {NoWsi}, StartConnect(w) PROVE Waits'
  <2> DEFINE sts == IF w = NoWsi THEN "ENOTCONN" ELSE "NO_ERROR"
  <2>1. StartCommand("CONNECT", sts) /\ UNCHANGED <<writeOps, resultVars>>
        /\ wantWrite' = wantWrite
    BY <1>6 DEF StartConnect
  <2>2. sts \in Status BY DEF Status
  <2>3. OneConnection'
    <3>1. wantWrite = {} /\ \A v \in Wsi : wsi[v] = "none"
      BY <1>6 DEF StartConnect, SessionNeedsContext
    <3>2. \A v \in Wsi : wsi'[v] = IF v = w THEN "opening" ELSE wsi[v]
      BY <1>6 DEF StartConnect
    <3> QED BY <2>1, <3>1, <3>2 DEF OneConnection
  <2> HIDE DEF sts
  <2> QED BY <2>1, <2>2, <2>3, WaitsStartCommand DEF Operation
<1>7. CASE StartDisconnect
  <2> DEFINE closes == NbMaxClient = 0 /\ (connectDone \/ ctx)
             sts    == IF NbMaxClient # 0 THEN "WRONG_MODE"
                       ELSE IF ~closes THEN "INVALID_STATE" ELSE "NO_ERROR"
  <2>1. StartCommand("DISCONNECT", sts) /\ UNCHANGED <<writeOps, resultVars>>
        /\ (ClientDisconnect \/ UNCHANGED linkVars)
    BY <1>7 DEF StartDisconnect
  <2>2. sts \in Status BY DEF Status
  <2>3. OneConnection' /\ (wantWrite = {} => wantWrite' = {})
    BY <1>2, <2>1, NoConnection
  <2> HIDE DEF sts
  <2> QED BY <2>1, <2>2, <2>3, WaitsStartCommand DEF Operation
<1>8. CASE StartExit
  BY <1>2, <1>8, WaitsStartCommand DEF StartExit, connVars, Operation, Status
<1>9. ASSUME NEW valid \in BOOLEAN, StartRead(valid) PROVE Waits'
  <2> DEFINE sts == IF ~CanTransfer THEN "ENOTCONN"
                    ELSE IF ~valid THEN "EINVAL" ELSE "NO_ERROR"
  <2>1. StartCommand("READ", sts) /\ UNCHANGED connVars BY <1>9 DEF StartRead
  <2>2. sts \in Status BY DEF Status
  <2> HIDE DEF sts
  <2> QED BY <1>2, <2>1, <2>2, WaitsStartCommand DEF connVars, Operation
<1>10. ASSUME NEW valid \in BOOLEAN, StartWriteRefused(valid) PROVE Waits'
  <2> DEFINE sts == IF ~CanTransfer THEN "ENOTCONN"
                    ELSE IF ~valid THEN "EINVAL" ELSE "FULL"
  <2>1. StartCommand("WRITE", sts) /\ UNCHANGED connVars BY <1>10 DEF StartWriteRefused
  <2>2. sts \in Status /\ sts # "NO_ERROR" BY DEF Status
  <2> HIDE DEF sts
  <2> QED BY <1>2, <2>1, <2>2, WaitsStartCommand DEF connVars, Operation
<1>11. ASSUME NEW granted \in BOOLEAN, StartWrite(granted) PROVE Waits'
  <2> DEFINE sts == IF granted THEN "NO_ERROR" ELSE "OPERATION_FAILED"
  <2>1. /\ StartCommand("WRITE", sts) /\ UNCHANGED <<wsi, resultVars>>
        /\ writeOps' = Append(writeOps, Head(params).ticket)
        /\ RequestWriteable(wantWrite, granted)
    BY <1>11 DEF StartWrite
  <2>2. sts \in Status /\ (granted => sts = "NO_ERROR") BY DEF Status
  <2>3. ~granted => wantWrite' = wantWrite BY <2>1 DEF RequestWriteable
  <2>4. OneConnection' BY <1>1, <2>1 DEF RequestWriteable, OneConnection
  <2> HIDE DEF sts
  <2> QED BY <2>1, <2>2, <2>3, <2>4, WaitsStartCommand DEF Operation
<1> QED BY <1>3, <1>4, <1>5, <1>6, <1>7, <1>8, <1>9, <1>10, <1>11 DEF Start

(* A poll keeps the operation in flight or makes its result due; that of a *)
(* WRITE does neither, as its data are in the queue of writes.             *)
LEMMA WaitsPoll ==
  ASSUME TypeOK, Names, Waits, NEW op, op # "LISTEN", NEW r \in Result,
         NEW send \in BOOLEAN, NEW stays \in BOOLEAN,
         Poll(op, overdue, r, send, stays), UNCHANGED overdue,
         r.ticket = res.ticket, r.op = res.op,
         ~(send /\ stays), op = "WRITE" => ~send /\ ~stays,
         send \/ stays \/ op = "WRITE" \/ TimedOut(overdue),
         OneConnection', wantWrite = {} => wantWrite' = {}
  PROVE  Waits'
<1>1. /\ pc = "pending" /\ cur.op = op /\ pc' = "cancel" /\ ioPending
      /\ UNCHANGED <<writeOps, results, answers, params, cur, mCancel, user, userCall,
                     programmed>>
      /\ sendResult' = (send \/ TimedOut(overdue))
      /\ ioPending' = (stays /\ ~TimedOut(overdue))
      /\ TimedOut(overdue) => op # "WRITE"
  BY DEF Poll, TimedOut, Names, ListenMode, resultVars, cancelVars, userVars, ghostVars
<1>2. res'.ticket = res.ticket /\ res'.op = res.op
  BY DEF Poll, Result
<1>3. /\ op # "WRITE" => (ioPending' \/ sendResult') /\ ~(ioPending' /\ sendResult')
      /\ op = "WRITE" => ~ioPending' /\ ~sendResult'
  BY <1>1
<1>4. /\ op = res.op \/ op = "MAX"
      /\ res.op = "WRITE" => op = "WRITE" /\ res.ticket \in Elements(writeOps)
      /\ op = "WRITE" => res.op = "WRITE"
  BY <1>1 DEF Waits, OwnPoll
<1>5. /\ CommandTickets' = CommandTickets /\ InFlight = {res.ticket}
      /\ InFlight' = IF op = "WRITE" THEN {} ELSE {res.ticket}
  BY <1>1, <1>2, <1>3 DEF CommandTickets, InFlight
<1>6. Calm' BY <1>1 DEF Waits, Calm
<1>7. params = <<>> /\ user # "ready" BY <1>1 DEF Waits, OneCall
<1>8. OneCall' BY <1>1, <1>5, <1>7 DEF Waits, OneCall
<1>9. OwnPoll'
  <2>1. cur'.op = "MAX" => overdue' BY <1>1 DEF Waits, OwnPoll
  <2>2. ioPending' => cur'.op \in {res'.op, "MAX"} /\ res'.op \notin {"LISTEN", "EXIT"}
    BY <1>1, <1>2 DEF Waits, OwnPoll
  <2>3. ioPending' => res'.op # "WRITE" BY <1>2, <1>3, <1>4
  <2>4. sendResult' => ~ioPending' BY <1>3
  <2> QED BY <2>1, <2>2, <2>3, <2>4 DEF OwnPoll
<1>10. Answered' BY <1>1, <1>2 DEF Waits, Answered, Sending
<1>11. Room'
  <2>1. Len(results) \in Nat
    BY LenProperties DEF TypeOK, TypeOKConnection, TypeOKResults
  <2>2. Owed = (IF res.op = "WRITE" THEN 0 ELSE 1)
    BY <1>1, <1>7 DEF Owed
  <2>3. Owed' = (IF res.op = "WRITE" THEN 0 ELSE 1)
    BY <1>1, <1>2, <1>3, <1>4, <1>7 DEF Owed
  <2>4. Asked' <= Asked /\ Asked' \in {0, 1} /\ Asked \in {0, 1} BY DEF Asked
  <2> QED BY <1>1, <1>7, <2>1, <2>2, <2>3, <2>4 DEF Waits, Room
<1>12. NoneLost'
  <2>1. Accepted' = Accepted BY <1>1 DEF Accepted
  <2> QED BY <1>1, <1>4, <1>5, <2>1 DEF Waits, NoneLost
<1> QED BY <1>6, <1>8, <1>9, <1>10, <1>11, <1>12 DEF Waits

LEMMA WaitsPending ==
  ASSUME TypeOK, Names, PatientClient, Waits, Pending
  PROVE  Waits'
<1>1. res \in Result BY DEF TypeOK, TypeOKWorker
<1>2. \A t \in Status : /\ [res EXCEPT !.sts = t] \in Result
                        /\ [res EXCEPT !.sts = t].ticket = res.ticket
                        /\ [res EXCEPT !.sts = t].op = res.op
  BY <1>1 DEF Result
<1>3. {"NO_ERROR", "PENDING", "BAD_ID"} \subseteq Status BY DEF Status
<1>4. ~listening BY DEF PatientClient, Names, ListenMode
<1>5. UNCHANGED linkVars => OneConnection' /\ wantWrite' = wantWrite
  BY DEF linkVars, Waits, OneConnection
<1>6. CASE PollListen
  <2>1. pc = "pending" /\ cur.op = "LISTEN" BY <1>6 DEF PollListen, Poll
  <2> QED BY <2>1 DEF Names, ListenMode, Waits, OwnPoll
<1>7. CASE PollConnect
  <2> DEFINE r == IF connectDone THEN [res EXCEPT !.sts = "NO_ERROR"] ELSE res
             send == connectDone
             stays == ~connectDone
  <2>1. Poll("CONNECT", overdue, r, send, stays) /\ overdue' = overdue
    BY <1>7 DEF PollConnect
  <2>2. r \in Result /\ r.ticket = res.ticket /\ r.op = res.op BY <1>1, <1>2, <1>3
  <2>3. OneConnection' /\ (wantWrite = {} => wantWrite' = {})
    BY <1>5, <1>7, NoConnection DEF PollConnect
  <2>4. send \in BOOLEAN /\ stays \in BOOLEAN /\ (send \/ stays) /\ ~(send /\ stays)
    BY DEF TypeOK, TypeOKConnection
  <2> HIDE DEF r, send, stays
  <2> QED BY <2>1, <2>2, <2>3, <2>4, WaitsPoll
<1>8. CASE PollDisconnect
  <2>1. Poll("DISCONNECT", overdue, res, TRUE, FALSE) /\ UNCHANGED <<linkVars, overdue>>
    BY <1>8 DEF PollDisconnect
  <2> QED BY <1>1, <1>5, <2>1, WaitsPoll
<1>9. CASE PollRead
  <2> DEFINE t == IF rx > 0 THEN "NO_ERROR" ELSE "PENDING"
             r == [res EXCEPT !.sts = t]
             send == rx > 0
             stays == rx = 0
  <2>1. Poll("READ", overdue, r, send, stays) /\ UNCHANGED <<wsi, wantWrite, overdue>>
    BY <1>9 DEF PollRead
  <2>2. r \in Result /\ r.ticket = res.ticket /\ r.op = res.op
    <3>1. t \in Status BY <1>3
    <3> HIDE DEF t
    <3> QED BY <1>2, <3>1
  <2>3. rx \in Nat
    BY ConnectionAssumption DEF TypeOK, TypeOKConnection, TypeOKLink
  <2>4. send \in BOOLEAN /\ stays \in BOOLEAN /\ (send \/ stays) /\ ~(send /\ stays)
    BY <2>3
  <2>5. OneConnection' BY <2>1 DEF Waits, OneConnection
  <2> HIDE DEF r, send, stays
  <2> QED BY <2>1, <2>2, <2>4, <2>5, WaitsPoll
<1>10. CASE PollWrite
  <2>1. Poll("WRITE", overdue, [res EXCEPT !.sts = "NO_ERROR"], FALSE, FALSE)
        /\ UNCHANGED <<linkVars, overdue>>
    BY <1>10 DEF PollWrite
  <2> QED BY <1>2, <1>3, <1>5, <2>1, WaitsPoll
<1>11. CASE PollOther
  <2>1. PICK op \in {"EXIT", "MAX"} :
          Poll(op, overdue, [res EXCEPT !.sts = "BAD_ID"], FALSE, FALSE)
    BY <1>11 DEF PollOther
  <2>2. pc = "pending" /\ cur.op = op BY <2>1 DEF Poll
  <2>3. op = "MAX" BY <2>2 DEF Names, ListenMode, Waits, OwnPoll
  <2>4. TimedOut(overdue) BY <1>4, <2>2, <2>3 DEF Waits, OwnPoll, TimedOut
  <2>5. UNCHANGED <<linkVars, overdue>> BY <1>11 DEF PollOther
  <2> QED BY <1>2, <1>3, <1>5, <2>1, <2>3, <2>4, <2>5, WaitsPoll
<1> QED BY <1>6, <1>7, <1>8, <1>9, <1>10, <1>11 DEF Pending

(* The result of V_OnProcessing is pushed while there is room for it.      *)
LEMMA WaitsSend ==
  ASSUME TypeOK, Names, Once, Waits, Send
  PROVE  Waits'
<1>1. /\ pc = "send" /\ pc' = "loop" /\ sendResult' = FALSE /\ PushResult(res)
      /\ UNCHANGED <<wsi, wantWrite, writeOps, params, cur, overdue, res, ioPending,
                     mCancel, user, userCall, programmed>>
  BY DEF Send, linkVars, cancelVars, userVars, ghostVars
<1>2. sendResult BY <1>1 DEF Once, TurnFlags
<1>3. ~ioPending /\ params = <<>> /\ user # "ready"
  BY <1>1, <1>2 DEF Waits, OwnPoll, OneCall
<1>4. res \in Result /\ res.ticket \in Ticket
  BY <1>2 DEF TypeOK, TypeOKWorker, Names, AnswersNamed, Sending, Named
<1>5. /\ Len(results) \in Nat
      /\ Owed = 1 /\ Owed' = 0 /\ Asked' = Asked /\ Asked \in {0, 1}
  BY <1>1, <1>2, <1>3, LenProperties
     DEF TypeOK, TypeOKConnection, TypeOKResults, Owed, Asked
<1>6. Len(results) + Asked + 1 <= 2 BY <1>3, <1>5 DEF Waits, Room
<1>7. /\ Len(results') = Len(results) + 1
      /\ Elements(results') = Elements(results) \cup {res}
      /\ answers'[res.ticket] > 0
      /\ \A t \in Ticket : answers[t] > 0 => answers'[t] > 0
  BY <1>1, <1>4, <1>5, <1>6, PushedWithRoom
<1>8. /\ CommandTickets' = CommandTickets /\ Accepted' = Accepted
      /\ InFlight = {res.ticket} /\ InFlight' = {}
  BY <1>1, <1>2, <1>3 DEF CommandTickets, InFlight, Accepted
<1>9. Calm' /\ OneConnection' BY <1>1 DEF Waits, Calm, OneConnection
<1>10. OneCall' BY <1>1, <1>3, <1>8 DEF Waits, OneCall
<1>11. OwnPoll' BY <1>1, <1>3 DEF Waits, OwnPoll
<1>12. Answered'
  <2>1. \A q \in Elements(results) : q.ticket \in Ticket
    BY DEF Names, AnswersNamed, Named
  <2>2. ~Sending' BY <1>1, <1>3 DEF Sending
  <2> QED BY <1>7, <2>1, <2>2 DEF Waits, Answered
<1>13. Room' BY <1>1, <1>3, <1>5, <1>6, <1>7 DEF Room
<1>14. NoneLost'
  <2>1. Accepted \subseteq Ticket BY DEF Accepted
  <2> QED BY <1>1, <1>7, <1>8, <2>1 DEF Waits, NoneLost
<1> QED BY <1>9, <1>10, <1>11, <1>12, <1>13, <1>14 DEF Waits

(* The other steps of a turn.                                              *)
LEMMA WaitsTurn ==
  ASSUME TypeOK, Names, Once, PatientClient, Waits,
         \/ ServiceReturn \/ PopNone \/ PopOverCommand
         \/ NoCancel \/ CancelTake \/ CancelFlush \/ CancelSignal
         \/ Send \/ Loop \/ LoopNoContext \/ Exit \/ TimePasses
  PROVE  Waits'
<1>1. ~mCancel /\ pc \notin {"flush", "signal"} BY DEF Waits, Calm
<1>2. ASSUME UNCHANGED <<params, res, ioPending, sendResult, writeOps, results, answers,
                         programmed, mCancel, user, userCall>>,
             pc' \notin {"flush", "signal"}, OneConnection',
             wantWrite = {} => wantWrite' = {}, OwnPoll', Sending' => Sending
      PROVE  Waits'
  <2>1. Calm' BY <1>1, <1>2 DEF Calm
  <2>2. OneCall' BY <1>2 DEF Waits, OneCall, CommandTickets, InFlight
  <2> QED BY <1>2, <2>1, <2>2, WaitsFrame
<1>3. UNCHANGED <<wsi, wantWrite>> => OneConnection' /\ (wantWrite = {} => wantWrite' = {})
  BY DEF Waits, OneConnection
<1>4. CASE ServiceReturn \/ PopNone \/ NoCancel \/ Loop
  <2>1. /\ UNCHANGED <<params, cur, overdue, res, ioPending, sendResult, writeOps, results,
                       answers, programmed, mCancel, user, userCall, wsi, wantWrite>>
        /\ \/ pc = "service" /\ pc' = "pop"
           \/ pc = "pop" /\ pc' = IF ioPending THEN "pending" ELSE "cancel"
           \/ pc = "cancel" /\ pc' = IF sendResult THEN "send" ELSE "loop"
           \/ pc = "loop" /\ pc' = "service"
    BY <1>4
       DEF ServiceReturn, PopNone, NoCancel, Loop, connVars, linkVars, resultVars,
           workerVars, cancelVars, userVars, ghostVars
  <2>2. OwnPoll'
    <3>1. ioPending => res.op # "WRITE" \/ pc = "pending" BY DEF Waits, OwnPoll
    <3>2. pc = "pop" => ~sendResult BY DEF Once, TurnFlags
    <3>3. pc' \in {"cancel", "send"} /\ sendResult => ~ioPending
      BY <2>1, <3>2 DEF Waits, OwnPoll
    <3> QED BY <2>1, <3>1, <3>3 DEF Waits, OwnPoll
  <2>3. Sending' => Sending BY <2>1 DEF Sending
  <2>4. pc' \notin {"flush", "signal"} BY <2>1
  <2> QED BY <1>2, <1>3, <2>1, <2>2, <2>3, <2>4
<1>5. CASE PopOverCommand
  BY <1>5 DEF PopOverCommand, Waits, OneCall
<1>6. CASE Send BY <1>6, WaitsSend
<1>7. CASE LoopNoContext
  <2>1. /\ UNCHANGED <<params, res, ioPending, sendResult, writeOps, results,
                       answers, programmed, mCancel, user, userCall, wsi, wantWrite>>
        /\ pc = "loop" /\ pc' = "pop" /\ cur' = NoOp /\ overdue' = TRUE
    BY <1>7
       DEF LoopNoContext, connVars, linkVars, resultVars, cancelVars, userVars, ghostVars
  <2>2. OwnPoll' BY <2>1 DEF Waits, OwnPoll, NoOp
  <2>3. Sending' => Sending BY <2>1 DEF Sending
  <2> QED BY <1>2, <1>3, <2>1, <2>2, <2>3
<1>8. CASE Exit
  <2>1. /\ UNCHANGED <<params, cur, overdue, res, ioPending, sendResult, writeOps, results,
                       answers, programmed, mCancel, user, userCall>>
        /\ pc = "loop" /\ pc' = "stopped" /\ ClientDisconnect
    BY <1>8 DEF Exit, resultVars, workerVars, cancelVars, userVars, ghostVars
  <2>2. OwnPoll' BY <2>1 DEF Waits, OwnPoll
  <2>3. Sending' => Sending BY <2>1 DEF Sending
  <2> QED BY <1>2, <2>1, <2>2, <2>3, NoConnection
<1>9. CASE TimePasses
  <2>1. /\ UNCHANGED <<params, cur, res, ioPending, sendResult, writeOps, results,
                       answers, programmed, mCancel, user, userCall, wsi, wantWrite, pc>>
        /\ overdue' = TRUE
    BY <1>9 DEF TimePasses, connVars, linkVars, resultVars, cancelVars, userVars, ghostVars
  <2>2. OwnPoll' BY <2>1 DEF Waits, OwnPoll
  <2>3. Sending' => Sending BY <2>1 DEF Sending
  <2> QED BY <1>1, <1>2, <1>3, <2>1, <2>2, <2>3
<1> QED
  BY <1>1, <1>4, <1>5, <1>6, <1>7, <1>8, <1>9 DEF CancelTake, CancelFlush, CancelSignal

LEMMA WaitsStep ==
  ASSUME TypeOK, SessionNeedsContext, Names, Once, PatientClient, Waits, [Next]_vars
  PROVE  Waits'
<1>1. CASE Next
  BY <1>1, WaitsUser, WaitsControl, WaitsService, WaitsStart, WaitsPending, WaitsTurn
     DEF Next, Worker
<1>2. CASE UNCHANGED vars
  <2>1. UNCHANGED <<connVars, params, workerVars, pc, mCancel, user, userCall, programmed>>
    BY <1>2 DEF vars, opVars, cancelVars, userVars, ghostVars
  <2> QED BY <2>1, WaitsStutter
<1> QED BY <1>1, <1>2

(* A client whose user waits for each answer, and whom nobody cancels,     *)
(* loses no accepted operation: it is queued, in flight, in the queue of   *)
(* writes, or answered, however many writes the connection has left in     *)
(* that queue.  PushResult never meets a full queue.                       *)
THEOREM PatientLosesNothing == Spec => []NoSilentLoss
<1> DEFINE I == PatientClient => Waits
<1>1. Init => I BY WaitsInit
<1>2. TypeOK /\ SessionNeedsContext /\ Names /\ Once /\ I /\ [Next]_vars => I'
  BY WaitsStep DEF PatientClient
<1>3. I => NoSilentLoss
  <2> SUFFICES ASSUME PatientClient, Waits PROVE NoSilentLoss
    BY DEF NoSilentLoss, PatientClient
  <2>1. TicketsOf(params) = CommandTickets /\ TicketsIn(writeOps) = Elements(writeOps)
    BY DEF TicketsOf, CommandTickets, TicketsIn, Elements
  <2> QED BY <2>1 DEF Waits, NoneLost, NoSilentLoss
<1> HIDE DEF I
<1> QED
  BY <1>1, <1>2, <1>3, TypeCorrect, SessionCorrect, NamesCorrect, OnceCorrect, PTL DEF Spec

-----------------------------------------------------------------------------
(* The tickets are an OperationService.                                    *)

(* A WRITE that is in the queue of writes and will be answered by the      *)
(* processing thread too has not been answered yet: its start is not       *)
(* polled yet, or it was refused, with nothing in flight.                  *)
Queued ==
  \A t \in Elements(writeOps) : InAnswer(t) =>
    /\ answers[t] = 0
    /\ \/ pc = "pending" /\ cur.op = "WRITE"
       \/ pc \in {"cancel", "flush", "send"} /\ ~ioPending

LEMMA QueuedInit == Init => Queued
BY ElementsEmpty DEF Init, InitConnection, Queued

(* A step that queues no write and puts none of the queued in flight.      *)
LEMMA QueuedKept ==
  ASSUME Queued, UNCHANGED answers, Elements(writeOps') \subseteq Elements(writeOps),
         Sending' => Sending /\ res' = res,
         \/ UNCHANGED <<pc, cur, ioPending>>
         \/ pc' \in {"cancel", "flush", "send"} /\ ~ioPending'
         \/ pc \notin {"pending", "cancel", "flush", "send"}
         \/ ~Sending'
  PROVE  Queued'
BY DEF Queued, InAnswer

LEMMA QueuedThreads ==
  ASSUME Queued, User \/ Control PROVE Queued'
<1>1. /\ UNCHANGED <<writeOps, answers, cur, res, ioPending, sendResult>>
      /\ pc' = pc \/ (pc = "idle" /\ pc' = "pop")
  BY DEF User, Run, RunListen, Program, PushParam, Stop, MarkPending, GetResult,
         SyncGetResult, SyncTimeout, StopThread, StopJoin, Control,
         CancelWebSocketOperation, CancelNoWait, CancelSignalled, CancelTimeout,
         ClearWebSocketOperation, ResetWebSocketOperation, connVars, resultVars, opVars,
         workerVars
<1>2. Sending' => Sending BY <1>1 DEF Sending
<1> QED BY <1>1, <1>2, QueuedKept

(* The callbacks run between two turns.                                    *)
LEMMA QueuedService ==
  ASSUME TypeOK, Names, Once, Queued, Service PROVE Queued'
<1>1. /\ UNCHANGED <<pc, cur, res, ioPending, sendResult>> /\ pc = "service" /\ LwsCallback
  BY DEF Service, opVars, workerVars
<1>2. \A t \in Elements(writeOps) : ~InAnswer(t) BY <1>1 DEF Queued
<1>3. Elements(writeOps') \subseteq Elements(writeOps)
  <2>1. writeOps \in Seq(Ticket) BY DEF TypeOK, TypeOKConnection
  <2>2. writeOps' = writeOps \/ (writeOps # <<>> /\ writeOps' = Tail(writeOps))
    BY <1>1
       DEF LwsCallback, HttpBindProtocol, AddHeaders, Established, EstablishedFails,
           Closed, ClientEstablished, ClientEstablishedFails, ClientClosed,
           ClientConnectionError, WriteableIdle, WriteablePartial, WriteableDone, Receive
  <2> QED BY <2>1, <2>2, ElementsTail
<1> QED BY <1>1, <1>2, <1>3 DEF Queued, InAnswer, Sending

LEMMA QueuedStart ==
  ASSUME TypeOK, Names, Once, Queued, Start PROVE Queued'
<1>1. ASSUME NEW op, NEW sts, StartCommand(op, sts), UNCHANGED answers,
             \/ UNCHANGED writeOps
             \/ /\ op = "WRITE" /\ writeOps' = Append(writeOps, Head(params).ticket)
      PROVE  Queued'
  <2> DEFINE h == Head(params).ticket
  <2>1. /\ params \in Seq(Param) /\ params # <<>> /\ params' = Tail(params)
        /\ writeOps \in Seq(Ticket)
    BY <1>1 DEF StartCommand, TypeOK, TypeOKWorker, TypeOKConnection
  <2>2. h \in Ticket BY <2>1, TypeTakeParam DEF Param
  <2>3. h \in CommandTickets BY <2>1, TakenDiffers DEF Once
  <2>4. answers[h] = 0 /\ h \notin Elements(writeOps) BY <2>3 DEF Once, NotStarted
  <2>5. /\ cur'.op = op /\ res'.ticket = h
        /\ pc' = IF ioPending' THEN "pending" ELSE "cancel"
    BY <1>1 DEF StartCommand
  <2>6. \A t \in Elements(writeOps') : t = h => op = "WRITE"
    BY <1>1, <2>4
  <2> HIDE DEF h
  <2> QED BY <1>1, <2>4, <2>5, <2>6 DEF Queued, InAnswer
<1> QED
  BY <1>1
     DEF Start, StartListen, StartConnectRefused, StartConnectNoContext, StartConnect,
         StartDisconnect, StartExit, StartRead, StartWriteRefused, StartWrite,
         connVars, resultVars

(* What a poll does to the tickets: the one in flight stays, unless it is  *)
(* replaced by that of LISTEN, and a WRITE leaves nothing in flight.       *)
Polled ==
  /\ pc = "pending" /\ pc' = "cancel" /\ ioPending
  /\ UNCHANGED <<params, writeOps, resultVars, cur, listening, listenTicket,
                 programmed, failedWrites>>
  /\ Sending' => cur.op # "WRITE"
  /\ \/ res'.ticket = res.ticket
     \/ listening /\ res'.ticket = listenTicket

LEMMA PolledOne ==
  ASSUME TypeOK, Names, NEW op, NEW late, NEW r, NEW send, NEW stays,
         Poll(op, late, r, send, stays),
         [r EXCEPT !.sts = "ETIMEDOUT"].ticket = r.ticket,
         r.ticket = res.ticket \/ (op = "LISTEN" /\ r.ticket = listenTicket),
         op = "WRITE" => ~send /\ ~stays
  PROVE  Polled
<1>1. /\ pc = "pending" /\ pc' = "cancel" /\ cur.op = op
      /\ UNCHANGED <<params, writeOps, resultVars, cur, listening, listenTicket,
                     programmed, failedWrites>>
      /\ res'.ticket = r.ticket
  BY DEF Poll, ghostVars
<1>2. ioPending BY <1>1 DEF Names, ListenMode
<1>3. op = "WRITE" => ~Sending' BY <1>1 DEF Poll, TimedOut, Sending
<1>4. op = "LISTEN" => listening
  <2> SUFFICES ASSUME op = "LISTEN" PROVE listening OBVIOUS
  <2>1. cur \in Param BY <1>1 DEF NoOp, TypeOK, TypeOKWorker
  <2>2. programmed[cur.ticket] = "LISTEN" /\ cur.ticket \in Ticket
    BY <1>1, <2>1 DEF Names, CommandsNamed, NoOp, Param
  <2> QED BY <1>2, <2>2 DEF Names, ListenMode
<1> QED BY <1>1, <1>2, <1>3, <1>4 DEF Polled

LEMMA PolledTicket ==
  ASSUME TypeOK, Names, Pending PROVE Polled
<1>1. res \in Result BY DEF TypeOK, TypeOKWorker
<1>2. \A s : /\ [res EXCEPT !.sts = s].ticket = res.ticket
             /\ [[res EXCEPT !.sts = s] EXCEPT !.sts = "ETIMEDOUT"].ticket = res.ticket
  BY <1>1 DEF Result
<1>3. CASE PollListen
  <2> DEFINE r == [op |-> "CONNECT", ticket |-> listenTicket, sts |-> "NO_ERROR"]
  <2>1. r.ticket = listenTicket /\ [r EXCEPT !.sts = "ETIMEDOUT"].ticket = r.ticket
    OBVIOUS
  <2>2. CASE connectDone
    <3>1. Poll("LISTEN", FALSE, r, TRUE, TRUE) BY <1>3, <2>2 DEF PollListen
    <3> HIDE DEF r
    <3> QED BY <2>1, <3>1, PolledOne
  <2>3. CASE ~connectDone
    <3>1. Poll("LISTEN", overdue, res, FALSE, TRUE) BY <1>3, <2>3 DEF PollListen
    <3> QED BY <1>2, <3>1, PolledOne
  <2> QED BY <2>2, <2>3
<1>4. CASE PollConnect
  <2>1. CASE connectDone
    <3>1. Poll("CONNECT", overdue, [res EXCEPT !.sts = "NO_ERROR"], connectDone, ~connectDone)
      BY <1>4, <2>1 DEF PollConnect
    <3> QED BY <1>2, <3>1, PolledOne
  <2>2. CASE ~connectDone
    <3>1. Poll("CONNECT", overdue, res, connectDone, ~connectDone)
      BY <1>4, <2>2 DEF PollConnect
    <3> QED BY <1>2, <3>1, PolledOne
  <2> QED BY <2>1, <2>2
<1>5. CASE PollDisconnect
  BY <1>2, <1>5, PolledOne DEF PollDisconnect
<1>6. CASE PollRead
  <2> DEFINE s == IF rx > 0 THEN "NO_ERROR" ELSE "PENDING"
             send == rx > 0
             stays == rx = 0
  <2>1. Poll("READ", overdue, [res EXCEPT !.sts = s], send, stays)
    BY <1>6 DEF PollRead
  <2> HIDE DEF s, send, stays
  <2> QED BY <1>2, <2>1, PolledOne
<1>7. CASE PollWrite
  BY <1>2, <1>7, PolledOne DEF PollWrite
<1>8. CASE PollOther
  BY <1>2, <1>8, PolledOne DEF PollOther
<1> QED BY <1>3, <1>4, <1>5, <1>6, <1>7, <1>8 DEF Pending

LEMMA QueuedPending ==
  ASSUME TypeOK, Names, Queued, Pending PROVE Queued'
<1>1. /\ pc = "pending" /\ ioPending /\ UNCHANGED <<writeOps, answers>>
      /\ Sending' => cur.op # "WRITE"
      /\ res'.ticket = res.ticket \/ (listening /\ res'.ticket = listenTicket)
  BY PolledTicket DEF Polled, resultVars
<1>2. \A t \in Elements(writeOps) : ~(listening /\ listenTicket = t)
  BY DEF Names, ListenMode, AnswersNamed
<1> QED BY <1>1, <1>2 DEF Queued, InAnswer, Sending

LEMMA QueuedTurn ==
  ASSUME TypeOK, Names, Once, Queued,
         \/ ServiceReturn \/ PopNone \/ PopOverCommand
         \/ NoCancel \/ CancelTake \/ CancelFlush \/ CancelSignal
         \/ Send \/ Loop \/ LoopNoContext \/ Exit \/ TimePasses
  PROVE  Queued'
<1>1. CASE ServiceReturn \/ PopNone \/ PopOverCommand \/ CancelSignal \/ Loop \/ LoopNoContext
           \/ Exit
  <2>1. /\ UNCHANGED <<writeOps, answers, res, ioPending, sendResult>>
        /\ pc \in {"service", "pop", "signal", "loop"}
    BY <1>1
       DEF ServiceReturn, PopNone, PopOverCommand, CancelSignal, Loop, LoopNoContext, Exit,
           connVars, resultVars, workerVars
  <2>2. Sending' => Sending
    BY <1>1, <2>1
       DEF ServiceReturn, PopNone, PopOverCommand, CancelSignal, Loop, LoopNoContext, Exit,
           Sending
  <2> QED BY <2>1, <2>2, QueuedKept
<1>2. CASE NoCancel \/ CancelTake
  <2>1. /\ UNCHANGED <<writeOps, answers, cur, res, ioPending, sendResult>>
        /\ pc = "cancel"
        /\ \/ pc' = "flush"
           \/ pc' = "send" /\ sendResult
           \/ pc' = "loop" /\ ~sendResult
    BY <1>2 DEF NoCancel, CancelTake, connVars, resultVars, workerVars
  <2>2. \A t \in Elements(writeOps) : InAnswer(t) => answers[t] = 0 /\ ~ioPending
    BY <2>1 DEF Queued
  <2>3. Sending' => Sending BY <2>1 DEF Sending
  <2>4. \A t : InAnswer(t)' => InAnswer(t) BY <2>1, <2>3 DEF InAnswer
  <2>5. CASE pc' \in {"send", "flush"}
    BY <2>1, <2>2, <2>4, <2>5 DEF Queued
  <2>6. CASE pc' = "loop" /\ ~sendResult
    <3>1. Sending' => ioPending BY <2>1, <2>6 DEF Sending
    <3>2. \A t \in Elements(writeOps') : ~InAnswer(t)'
      BY <2>1, <2>2, <2>4, <3>1 DEF InAnswer
    <3> QED BY <3>2 DEF Queued
  <2> QED BY <2>1, <2>5, <2>6
<1>3. CASE CancelFlush
  BY <1>3, ElementsEmpty DEF CancelFlush, Queued
<1>4. CASE TimePasses
  BY <1>4 DEF TimePasses, connVars, resultVars, Queued, InAnswer, Sending
<1>5. CASE Send
  <2>1. /\ pc = "send" /\ pc' = "loop" /\ ~sendResult'
        /\ UNCHANGED <<writeOps, res, ioPending>>
    BY <1>5 DEF Send
  <2>2. \A t \in Elements(writeOps) : InAnswer(t) => ~ioPending BY <2>1 DEF Queued
  <2>3. Sending' => Sending /\ ioPending BY <2>1 DEF Sending
  <2>4. \A t \in Elements(writeOps') : ~InAnswer(t)'
    BY <2>1, <2>2, <2>3 DEF InAnswer
  <2> QED BY <2>4 DEF Queued
<1> QED BY <1>1, <1>2, <1>3, <1>4, <1>5

LEMMA QueuedStep ==
  ASSUME TypeOK, Names, Once, Queued, [Next]_vars
  PROVE  Queued'
<1>1. CASE Next
  BY <1>1, QueuedThreads, QueuedService, QueuedStart, QueuedPending, QueuedTurn
     DEF Next, Worker
<1>2. CASE UNCHANGED vars
  BY <1>2 DEF vars, opVars, connVars, resultVars, workerVars, Queued, InAnswer, Sending
<1> QED BY <1>1, <1>2

LEMMA QueuedCorrect == Spec => []Queued
<1>1. TypeOK /\ Names /\ Once /\ Queued /\ [Next]_vars => Queued'
  BY QueuedStep
<1> QED BY QueuedInit, <1>1, TypeCorrect, NamesCorrect, OnceCorrect, PTL DEF Spec

LEMMA OutstandingIs ==
  /\ Outstanding = CommandTickets \cup Elements(writeOps) \cup InFlight
                     \cup (IF listening THEN {listenTicket} ELSE {})
  /\ Outstanding' = CommandTickets' \cup Elements(writeOps') \cup InFlight'
                      \cup (IF listening' THEN {listenTicket'} ELSE {})
<1>1. TicketsOf(params) = CommandTickets /\ TicketsIn(writeOps) = Elements(writeOps)
  BY DEF TicketsOf, CommandTickets, TicketsIn, Elements
<1>2. TicketsOf(params)' = CommandTickets' /\ TicketsIn(writeOps)' = Elements(writeOps')
  BY DEF TicketsOf, CommandTickets, TicketsIn, Elements
<1>3. Outstanding = CommandTickets \cup Elements(writeOps) \cup InFlight
                      \cup (IF listening THEN {listenTicket} ELSE {})
  BY <1>1 DEF Outstanding
<1>4. Outstanding' = CommandTickets' \cup Elements(writeOps') \cup InFlight'
                       \cup (IF listening' THEN {listenTicket'} ELSE {})
  BY <1>2 DEF Outstanding
<1> QED BY <1>3, <1>4

(* A step that answers nothing and takes what it holds from what was held. *)
LEMMA Withdrawn ==
  ASSUME UNCHANGED <<programmed, answers, failedWrites>>,
         CommandTickets' \subseteq CommandTickets,
         Elements(writeOps') \subseteq Outstanding,
         ioPending' \/ sendResult' => res'.ticket \in Outstanding,
         listening' => listenTicket' \in Outstanding
  PROVE  OS!Withdraw
<1>1. InFlight' \subseteq Outstanding BY DEF InFlight
<1>2. CommandTickets' \subseteq Outstanding BY OutstandingIs
<1>3. Outstanding' = CommandTickets' \cup Elements(writeOps') \cup InFlight'
                       \cup (IF listening' THEN {listenTicket'} ELSE {})
  BY OutstandingIs
<1>4. Outstanding' \subseteq Outstanding BY <1>1, <1>2, <1>3
<1> QED BY <1>4 DEF OS!Withdraw

(* Such as one that only empties queues.                                   *)
LEMMA WithdrawnQueues ==
  ASSUME UNCHANGED <<programmed, answers, failedWrites, listening, listenTicket>>,
         params' \in {params, <<>>}, writeOps' \in {writeOps, <<>>},
         ioPending' \/ sendResult' => (ioPending \/ sendResult) /\ res' = res
  PROVE  OS!Withdraw
<1>1. CommandTickets' \subseteq CommandTickets
  BY ElementsEmpty DEF CommandTickets
<1>2. Elements(writeOps') \subseteq Outstanding
  BY ElementsEmpty, OutstandingIs
<1>3. ioPending' \/ sendResult' => res'.ticket \in Outstanding
  BY OutstandingIs DEF InFlight
<1>4. listening' => listenTicket' \in Outstanding BY OutstandingIs
<1> QED BY <1>1, <1>2, <1>3, <1>4, Withdrawn

LEMMA AnswerCounted ==
  ASSUME TypeOKResults, NEW r \in Result, PushResult(r)
  PROVE  \/ answers' = answers
         \/ answers' = [answers EXCEPT ![r.ticket] =
                          IF answers[r.ticket] < 2 THEN answers[r.ticket] + 1
                                                   ELSE answers[r.ticket]]
BY DEF PushResult, resultVars, TypeOKResults

(* Programming an operation that finds room is the one that accepts it.    *)
LEMMA ServicePushParam ==
  ASSUME TypeOK, Names, NEW op \in Operation, NEW kind, NEW full,
         PushParam(op, kind, full)
  PROVE  OS!Next
<1>1. mTicket \in Ticket /\ programmed[mTicket] = "none"
  BY ConnectionAssumption
     DEF PushParam, TypeOK, TypeOKThreads, Names, TicketsDrawn, Ticket
<1>2. UNCHANGED <<writeOps, answers, failedWrites, listening, listenTicket, res,
                  ioPending, sendResult>>
  BY DEF PushParam, connVars, resultVars, workerVars
<1>3. CASE params' = params /\ programmed' = programmed
  <2>1. OS!Withdraw BY <1>2, <1>3, WithdrawnQueues
  <2> QED BY <2>1 DEF OS!Next
<1>4. CASE /\ params' = Append(params, [op |-> op, ticket |-> mTicket])
           /\ programmed' = [programmed EXCEPT ![mTicket] = op]
  <2> DEFINE e == [op |-> op, ticket |-> mTicket]
  <2>1. params \in Seq(Param) /\ e \in Param /\ e.ticket = mTicket
    BY <1>1 DEF TypeOK, TypeOKWorker, Param
  <2>2. Elements(params') = Elements(params) \cup {e}
    BY <1>4, <2>1, ElementsAppend
  <2> HIDE DEF e
  <2>3. CommandTickets' = CommandTickets \cup {mTicket}
    BY <2>1, <2>2 DEF CommandTickets
  <2>4. InFlight' = InFlight BY <1>2 DEF InFlight
  <2>5. Outstanding' = CommandTickets' \cup Elements(writeOps') \cup InFlight'
                         \cup (IF listening' THEN {listenTicket'} ELSE {})
    BY OutstandingIs
  <2>6. Outstanding' = Outstanding \cup {mTicket}
    BY <1>2, <2>3, <2>4, <2>5, OutstandingIs
  <2>7. OS!Accept(mTicket, op) BY <1>1, <1>2, <1>4, <2>6 DEF OS!Accept
  <2> QED BY <1>1, <2>7 DEF OS!Next
<1> QED BY <1>3, <1>4 DEF PushParam

LEMMA ServiceThreads ==
  ASSUME TypeOK, Names, User \/ Control PROVE OS!Next
<1>1. CASE \E op, kind, full : op \in Operation /\ PushParam(op, kind, full)
  BY <1>1, ServicePushParam
<1>2. CASE /\ UNCHANGED <<writeOps, answers, workerVars, programmed, failedWrites>>
           /\ params' \in {params, <<>>}
  <2>1. OS!Withdraw BY <1>2, WithdrawnQueues DEF workerVars
  <2> QED BY <2>1 DEF OS!Next
<1>3. CASE Control
  BY <1>2, <1>3
     DEF Control, CancelWebSocketOperation, CancelNoWait, CancelSignalled, CancelTimeout,
         ClearWebSocketOperation, ResetWebSocketOperation, connVars, resultVars, ghostVars
<1> QED
  BY <1>1, <1>2, <1>3, OperationAssumption
     DEF User, Run, RunListen, Program, Stop, MarkPending, GetResult, SyncGetResult,
         SyncTimeout, StopThread, StopJoin, connVars, resultVars, opVars, ghostVars,
         Operation

(* The writeable callback answers a write that nothing else holds.         *)
LEMMA ServiceService ==
  ASSUME TypeOK, Names, Once, Queued, Service PROVE OS!Next
<1>1. UNCHANGED opVars /\ LwsCallback /\ pc = "service" BY DEF Service
<1>2. UNCHANGED <<params, programmed, failedWrites, listening, listenTicket, res,
                  ioPending, sendResult>>
  BY <1>1 DEF opVars, workerVars, ghostVars
<1>3. CASE UNCHANGED <<writeOps, answers>>
  <2>1. OS!Withdraw BY <1>2, <1>3, WithdrawnQueues
  <2> QED BY <2>1 DEF OS!Next
<1>4. ASSUME NEW w \in Wsi, NEW sts \in {"NO_ERROR", "WRITE_ERROR", "ETIMEDOUT"},
             WriteableDone(w, sts)
      PROVE  OS!Next
  <2> DEFINE h == Head(writeOps)
             r == [op |-> "WRITE", ticket |-> h, sts |-> sts]
  <2>1. writeOps \in Seq(Ticket) /\ writeOps # <<>> /\ TypeOKResults
        /\ writeOps' = Tail(writeOps) /\ PushResult(r)
    BY <1>4 DEF WriteableDone, TypeOK, TypeOKConnection
  <2>2. h \in Ticket /\ h \in Elements(writeOps) BY <2>1, HeadTailProperties, ElementsTail
  <2>3. r \in Result /\ r.ticket = h BY <2>2 DEF Result, Operation, Status
  <2>4. Elements(writeOps') = Elements(writeOps) \ {h}
    <3>1. h \notin Elements(writeOps') /\ Elements(writeOps') \subseteq Elements(writeOps)
      BY <2>1, TailDiffers, ElementsTail DEF Once, TicketsDiffer
    <3>2. Elements(writeOps) \subseteq Elements(writeOps') \cup {h}
      <4>1. /\ Len(writeOps) \in Nat \ {0} /\ DOMAIN writeOps = 1 .. Len(writeOps)
            /\ h = writeOps[1]
            /\ DOMAIN writeOps' = 1 .. Len(writeOps) - 1
            /\ \A i \in 1 .. Len(writeOps) - 1 : writeOps'[i] = writeOps[i + 1]
        BY <2>1, HeadTailProperties, LenProperties, EmptySeq
      <4> HIDE DEF h
      <4>2. ASSUME NEW i \in DOMAIN writeOps, writeOps[i] # h
            PROVE  writeOps[i] \in Elements(writeOps')
        <5>1. i - 1 \in 1 .. Len(writeOps) - 1 BY <4>1, <4>2
        <5>2. writeOps'[i - 1] = writeOps[i] BY <4>1, <5>1
        <5> QED BY <4>1, <5>1, <5>2 DEF Elements
      <4> QED BY <4>2 DEF Elements
    <3> QED BY <3>1, <3>2
  <2>5. ~InAnswer(h) /\ h \notin CommandTickets /\ ~(listening /\ listenTicket = h)
    <3>1. ~InAnswer(h) BY <1>1, <2>2 DEF Queued
    <3>2. h \notin CommandTickets BY <2>2 DEF Once, NotStarted
    <3>3. ~(listening /\ listenTicket = h)
      BY <2>2 DEF Names, ListenMode, AnswersNamed
    <3> QED BY <3>1, <3>2, <3>3
  <2>6. \/ answers' = answers
        \/ answers' = [answers EXCEPT ![h] = IF answers[h] < 2 THEN answers[h] + 1
                                                              ELSE answers[h]]
    <3> HIDE DEF r
    <3> QED BY <2>1, <2>3, AnswerCounted
  <2> HIDE DEF h, r
  <2>7. Outstanding' = Outstanding \ {h}
    <3>1. InFlight' = InFlight /\ CommandTickets' = CommandTickets
      BY <1>2 DEF InFlight, CommandTickets
    <3>2. h \notin InFlight BY <2>5 DEF InFlight, InAnswer, Sending
    <3>3. Outstanding' = CommandTickets' \cup Elements(writeOps') \cup InFlight'
                           \cup (IF listening' THEN {listenTicket'} ELSE {})
      BY OutstandingIs
    <3> QED BY <1>2, <2>4, <2>5, <3>1, <3>2, <3>3, OutstandingIs
  <2>8. CASE answers' = answers
    <3>1. OS!Withdraw BY <1>2, <2>7, <2>8 DEF OS!Withdraw
    <3> QED BY <3>1 DEF OS!Next
  <2>9. CASE answers' # answers
    <3>1. h \in Outstanding BY <2>2, OutstandingIs
    <3>2. OS!Answer(h) BY <1>2, <2>6, <2>7, <2>9, <3>1 DEF OS!Answer
    <3> QED BY <2>2, <3>2 DEF OS!Next
  <2> QED BY <2>8, <2>9
<1> QED
  BY <1>1, <1>3, <1>4
     DEF LwsCallback, HttpBindProtocol, AddHeaders, Established, EstablishedFails,
         Closed, ClientEstablished, ClientEstablishedFails, ClientClosed,
         ClientConnectionError, WriteableIdle, WriteablePartial, Receive, resultVars

(* What a command holds when it is started is its own ticket.              *)
LEMMA StartHolds ==
  ASSUME TypeOK, Once, NEW op, NEW sts, StartCommand(op, sts),
         \/ UNCHANGED writeOps
         \/ writeOps' = Append(writeOps, Head(params).ticket)
  PROVE  /\ Head(params).ticket \in Ticket /\ Head(params).ticket \in CommandTickets
         /\ CommandTickets' \subseteq CommandTickets
         /\ Elements(writeOps') \subseteq Elements(writeOps) \cup {Head(params).ticket}
         /\ res'.ticket = Head(params).ticket /\ sendResult'
         /\ programmed' = programmed
<1> DEFINE h == Head(params).ticket
<1>1. /\ params \in Seq(Param) /\ params # <<>> /\ params' = Tail(params)
      /\ writeOps \in Seq(Ticket)
  BY DEF StartCommand, TypeOK, TypeOKWorker, TypeOKConnection
<1>2. h \in Ticket BY <1>1, TypeTakeParam DEF Param
<1>3. h \in CommandTickets /\ CommandTickets' \subseteq CommandTickets
  BY <1>1, TakenDiffers DEF Once
<1>4. Elements(writeOps') \subseteq Elements(writeOps) \cup {h}
  <2>1. CASE writeOps' = Append(writeOps, h) BY <1>1, <1>2, <2>1, ElementsAppend
  <2>2. CASE writeOps' = writeOps BY <2>2
  <2> QED BY <2>1, <2>2
<1>5. res'.ticket = h /\ sendResult' /\ programmed' = programmed BY DEF StartCommand
<1> QED BY <1>2, <1>3, <1>4, <1>5

LEMMA ServiceStartCommand ==
  ASSUME TypeOK, Once, NEW op, NEW sts, StartCommand(op, sts),
         UNCHANGED <<answers, failedWrites>>,
         \/ UNCHANGED writeOps
         \/ writeOps' = Append(writeOps, Head(params).ticket),
         \/ UNCHANGED <<listening, listenTicket>>
         \/ listenTicket' = Head(params).ticket
  PROVE  OS!Next
<1>1. /\ Head(params).ticket \in CommandTickets
      /\ CommandTickets' \subseteq CommandTickets
      /\ Elements(writeOps') \subseteq Elements(writeOps) \cup {Head(params).ticket}
      /\ res'.ticket = Head(params).ticket /\ programmed' = programmed
  BY StartHolds
<1>2. Elements(writeOps') \subseteq Outstanding /\ res'.ticket \in Outstanding
  BY <1>1, OutstandingIs
<1>3. listening' => listenTicket' \in Outstanding
  BY <1>1, OutstandingIs
<1>4. OS!Withdraw BY <1>1, <1>2, <1>3, Withdrawn
<1> QED BY <1>4 DEF OS!Next

(* A WRITE that is refused after its data have been queued.                *)
LEMMA ServiceRefused ==
  ASSUME TypeOK, Names, Once, StartWrite(FALSE) PROVE OS!Next
<1> DEFINE h == Head(params).ticket
<1>1. StartCommand("WRITE", "OPERATION_FAILED") BY DEF StartWrite
<1>2. /\ UNCHANGED <<answers, listening, listenTicket>>
      /\ writeOps' = Append(writeOps, h) /\ failedWrites' = failedWrites \cup {h}
  BY DEF StartWrite, resultVars
<1>3. /\ h \in Ticket /\ h \in CommandTickets
      /\ CommandTickets' \subseteq CommandTickets
      /\ Elements(writeOps') \subseteq Elements(writeOps) \cup {h}
      /\ res'.ticket = h /\ sendResult' /\ programmed' = programmed
  BY <1>1, <1>2, StartHolds
<1>4. programmed[h] = "WRITE"
  <2>1. params \in Seq(Param) /\ params # <<>> /\ Head(params).op = "WRITE"
    BY <1>1 DEF StartCommand, TypeOK, TypeOKWorker
  <2> QED BY <2>1, ElementsTail DEF Names, CommandsNamed
<1>5. answers[h] = 0 BY <1>3 DEF Once, NotStarted
<1> HIDE DEF h
<1>6. InFlight' = {h} BY <1>3 DEF InFlight
<1>7. Outstanding' \subseteq Outstanding /\ h \in Outstanding'
  BY <1>2, <1>3, <1>6, OutstandingIs
<1>8. h \in Outstanding BY <1>3, OutstandingIs
<1>9. OS!Refuse(h) BY <1>2, <1>3, <1>4, <1>5, <1>7, <1>8 DEF OS!Refuse
<1> QED BY <1>3, <1>9 DEF OS!Next

LEMMA ServiceStart ==
  ASSUME TypeOK, Names, Once, Start PROVE OS!Next
<1>1. ASSUME NEW created \in BOOLEAN, StartListen(created) PROVE OS!Next
  <2>1. PICK sts : StartCommand("LISTEN", sts) BY <1>1 DEF StartListen
  <2>2. /\ UNCHANGED <<answers, writeOps, failedWrites>>
        /\ \/ UNCHANGED <<listening, listenTicket>>
           \/ listenTicket' = Head(params).ticket
    BY <1>1 DEF StartListen, resultVars
  <2> QED BY <2>1, <2>2, ServiceStartCommand
<1>2. CASE StartWrite(TRUE)
  <2>1. StartCommand("WRITE", "NO_ERROR") BY <1>2 DEF StartWrite
  <2>2. /\ UNCHANGED <<answers, listening, listenTicket, failedWrites>>
        /\ writeOps' = Append(writeOps, Head(params).ticket)
    BY <1>2 DEF StartWrite, resultVars
  <2> QED BY <2>1, <2>2, ServiceStartCommand
<1>3. ASSUME NEW op, NEW sts, StartCommand(op, sts),
             UNCHANGED <<answers, writeOps, failedWrites, listening, listenTicket>>
      PROVE  OS!Next
  BY <1>3, ServiceStartCommand
<1>4. ASSUME NEW granted \in BOOLEAN, StartWrite(granted) PROVE OS!Next
  BY <1>2, <1>4, ServiceRefused
<1> QED
  BY <1>1, <1>3, <1>4
     DEF Start, StartConnectRefused, StartConnectNoContext, StartConnect,
         StartDisconnect, StartExit, StartRead, StartWriteRefused, connVars, resultVars

LEMMA ServicePending ==
  ASSUME TypeOK, Names, Pending PROVE OS!Next
<1>1. Polled BY PolledTicket
<1>2. /\ UNCHANGED <<programmed, answers, failedWrites>>
      /\ CommandTickets' = CommandTickets /\ Elements(writeOps') = Elements(writeOps)
  BY <1>1 DEF Polled, resultVars, CommandTickets
<1>3. res'.ticket \in Outstanding
  BY <1>1, OutstandingIs DEF Polled, InFlight
<1>4. listening' => listenTicket' \in Outstanding
  BY <1>1, OutstandingIs DEF Polled
<1>5. Elements(writeOps') \subseteq Outstanding BY <1>2, OutstandingIs
<1>6. OS!Withdraw BY <1>2, <1>3, <1>4, <1>5, Withdrawn
<1> QED BY <1>6 DEF OS!Next

(* Send answers the operation at hand.  What it still holds of it then is  *)
(* the listening mode, or the data of a WRITE that was refused.            *)
LEMMA ServiceSend ==
  ASSUME TypeOK, Names, Once, Queued, Send PROVE OS!Next
<1> DEFINE h == res.ticket
<1>1. /\ pc = "send" /\ PushResult(res) /\ ~sendResult'
      /\ UNCHANGED <<params, writeOps, res, ioPending, listening, listenTicket,
                     programmed, failedWrites>>
  BY DEF Send, ghostVars
<1>2. res \in Result /\ TypeOKResults BY DEF TypeOK, TypeOKWorker, TypeOKConnection
<1>3. sendResult /\ InAnswer(h) BY <1>1 DEF Once, TurnFlags, InAnswer, Sending
<1>4. h \in Ticket BY <1>3 DEF InAnswer, Names, AnswersNamed, Named
<1>5. \/ answers' = answers
      \/ answers' = [answers EXCEPT ![h] = IF answers[h] < 2 THEN answers[h] + 1
                                                            ELSE answers[h]]
  BY <1>1, <1>2, AnswerCounted
<1>6. InFlight = {h} /\ InFlight' = IF ioPending THEN {h} ELSE {}
  BY <1>1, <1>3 DEF InFlight
<1>7. h \notin CommandTickets BY <1>3 DEF Once, NotStarted
<1>8. listening /\ listenTicket = h => programmed[h] = "LISTEN"
  BY DEF Names, ListenMode
<1>9. ioPending => programmed[h] = "LISTEN" BY <1>1, <1>3 DEF Once, TurnFlags
<1>10. h \in Elements(writeOps) => h \in failedWrites /\ answers[h] = 0
  <2> SUFFICES ASSUME h \in Elements(writeOps) PROVE h \in failedWrites /\ answers[h] = 0
    OBVIOUS
  <2>1. answers[h] = 0 BY <1>3 DEF Queued
  <2>2. h \notin Single BY <1>1, <1>3 DEF Once, NotWritten
  <2>3. programmed[h] = "WRITE" BY DEF Names, AnswersNamed
  <2> QED BY <1>4, <2>1, <2>2, <2>3 DEF Single
<1> HIDE DEF h
<1>11. CommandTickets' = CommandTickets BY <1>1 DEF CommandTickets
<1>12. \/ Outstanding' = Outstanding \ {h}
       \/ Outstanding' = Outstanding /\ OS!AnsweredAgain(h)
  <2>1. CASE ioPending \/ h \in Elements(writeOps) \/ (listening /\ listenTicket = h)
    <3>1. Outstanding' = Outstanding
      BY <1>1, <1>6, <1>11, <2>1, OutstandingIs
    <3>2. OS!AnsweredAgain(h) BY <1>8, <1>9, <1>10, <2>1 DEF OS!AnsweredAgain
    <3> QED BY <3>1, <3>2
  <2>2. CASE ~(ioPending \/ h \in Elements(writeOps) \/ (listening /\ listenTicket = h))
    BY <1>1, <1>6, <1>7, <1>11, <2>2, OutstandingIs
  <2> QED BY <2>1, <2>2
<1>13. CASE answers' = answers
  <2>1. OS!Withdraw BY <1>1, <1>12, <1>13 DEF OS!Withdraw
  <2> QED BY <2>1 DEF OS!Next
<1>14. CASE answers' # answers
  <2>1. h \in Outstanding BY <1>6, OutstandingIs
  <2>2. OS!Answer(h) BY <1>1, <1>5, <1>12, <1>14, <2>1 DEF OS!Answer
  <2> QED BY <1>4, <2>2 DEF OS!Next
<1> QED BY <1>13, <1>14

LEMMA ServiceTurn ==
  ASSUME TypeOK, Names, Once, Queued,
         \/ ServiceReturn \/ PopNone \/ PopOverCommand
         \/ NoCancel \/ CancelTake \/ CancelFlush \/ CancelSignal
         \/ Send \/ Loop \/ LoopNoContext \/ Exit \/ TimePasses
  PROVE  OS!Next
<1>1. CASE \/ ServiceReturn \/ PopNone \/ NoCancel \/ CancelTake \/ CancelFlush
           \/ CancelSignal \/ Loop \/ LoopNoContext \/ Exit \/ TimePasses
  <2>1. /\ UNCHANGED <<programmed, answers, failedWrites, listening, listenTicket>>
        /\ params' \in {params, <<>>} /\ writeOps' \in {writeOps, <<>>}
        /\ ioPending' \/ sendResult' => (ioPending \/ sendResult) /\ res' = res
    BY <1>1
       DEF ServiceReturn, PopNone, NoCancel, CancelTake, CancelFlush, CancelSignal, Loop,
           LoopNoContext, Exit, TimePasses, connVars, resultVars, workerVars, ghostVars
  <2>2. OS!Withdraw BY <2>1, WithdrawnQueues
  <2> QED BY <2>2 DEF OS!Next
<1>2. CASE PopOverCommand
  <2>1. /\ params \in Seq(Param) /\ params # <<>> /\ params' = Tail(params)
        /\ UNCHANGED <<programmed, answers, failedWrites, listening, listenTicket,
                       writeOps, res, ioPending, sendResult>>
    BY <1>2
       DEF PopOverCommand, TypeOK, TypeOKWorker, connVars, resultVars, ghostVars
  <2>2. CommandTickets' \subseteq CommandTickets BY <2>1, TakenDiffers DEF Once
  <2>3. /\ Elements(writeOps') \subseteq Outstanding
        /\ listening' => listenTicket' \in Outstanding
        /\ ioPending' \/ sendResult' => res'.ticket \in Outstanding
    BY <2>1, OutstandingIs DEF InFlight
  <2>4. OS!Withdraw BY <2>1, <2>2, <2>3, Withdrawn
  <2> QED BY <2>4 DEF OS!Next
<1> QED BY <1>1, <1>2, ServiceSend

(* Each step of the threads, of the callbacks and of a turn is one step of *)
(* the service or none: Accept is the push of ProgramWebSocketOperation,   *)
(* Answer a result that found room, Refuse the WRITE whose writeable       *)
(* callback is not granted, and all others withdraw what they drop.        *)
THEOREM ServiceImplemented == Spec => ImplementsService
<1>1. Init => OS!Init
  <2> SUFFICES ASSUME Init PROVE OS!Init OBVIOUS
  <2>1. params = <<>> /\ writeOps = <<>> /\ InFlight = {} /\ ~listening
    BY DEF Init, InitConnection, InFlight
  <2>2. CommandTickets = {} /\ Elements(writeOps) = {}
    BY <2>1, ElementsEmpty DEF CommandTickets
  <2>3. Outstanding = {} BY <2>1, <2>2, OutstandingIs
  <2> QED BY <2>3 DEF Init, InitConnection, OS!Init
<1>2. TypeOK /\ Names /\ Once /\ Queued /\ [Next]_vars => [OS!Next]_(OS!vars)
  <2> SUFFICES ASSUME TypeOK, Names, Once, Queued, [Next]_vars
               PROVE  [OS!Next]_(OS!vars)
    OBVIOUS
  <2>1. CASE Next
    BY <2>1, ServiceThreads, ServiceService, ServiceStart, ServicePending, ServiceTurn
       DEF Next, Worker
  <2>2. CASE UNCHANGED vars
    <3>1. UNCHANGED <<programmed, answers, failedWrites, params, writeOps, res, ioPending,
                      sendResult, listening, listenTicket>>
      BY <2>2 DEF vars, opVars, connVars, resultVars, workerVars, ghostVars
    <3>2. Outstanding' = Outstanding
      BY <3>1 DEF Outstanding, TicketsOf, TicketsIn, InFlight
    <3> QED BY <3>1, <3>2 DEF OS!vars
  <2> QED BY <2>1, <2>2
<1> QED
  BY <1>1, <1>2, TypeCorrect, NamesCorrect, OnceCorrect, QueuedCorrect, PTL
     DEF Spec, ImplementsService, OS!Spec
=============================================================================
