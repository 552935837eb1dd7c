----------------------------- MODULE WsOperation -----------------------------
(***************************************************************************)
(* The operation half of BofWebSocket.  A user thread programs operations, *)
(* each of which gets a ticket and is queued; the processing thread        *)
(* V_OnProcessing serves lws (WsConnection), takes one operation per turn, *)
(* starts it, polls the one in flight, and queues a result that carries    *)
(* the ticket; a control thread cancels, clears or resets.                 *)
(*                                                                         *)
(* mTicket_U32 is a plain integer, so operations are programmed from one   *)
(* thread; Cancel, Clear and Reset may come from any other.                *)
(*                                                                         *)
(* A timeout is a nondeterministic choice: overdue says that the time of   *)
(* mCurrentOp_X has run out, and TimePasses may set it at any moment.      *)
(***************************************************************************)
EXTENDS WsConnection

CONSTANTS
  UserOps,   \* operations the user programs
  Controls,  \* what the control thread does
  Patient    \* the user waits for each answer longer than the worker needs

ASSUME OperationAssumption ==
  /\ UserOps \subseteq Operation
  /\ NbMaxClient = 0 => "LISTEN" \notin UserOps
  /\ Controls \subseteq {"cancel", "clear", "reset"}
  /\ Patient \in BOOLEAN

VARIABLES
  params,       \* mpuSocketOperationParamCollection
  cur,          \* mCurrentOp_X
  overdue,      \* the elapsed time of mCurrentOp_X is beyond its TimeOut_U32
  res,          \* Result_X
  ioPending,    \* IoPending_B
  sendResult,   \* SendResult_B
  listening,    \* ListeningMode_B
  listenTicket, \* ListenTicketId_U32
  exiting,      \* Rts_E # BOF_ERR_NO_ERROR
  pc,           \* where V_OnProcessing is
  mTicket,      \* mTicket_U32
  mCancel,      \* mCancel_B
  cancelEvent,  \* mCancelEvent_X is signalled
  mOperationPending, \* mOperationPending_B
  mustExit,     \* IsThreadLoopMustExit()
  user,         \* what the user thread is in
  userCall,     \* the call it makes: its kind and its ticket
  ctl,          \* what the control thread is in
  programmed,   \* history: the operation accepted under a ticket
  failedWrites, \* history: WRITE refused after its data were queued
  cancelled     \* history: tickets accepted before a cancel took effect, or
                \* dropped from the queue by a reset

workerVars == <<cur, overdue, res, ioPending, sendResult, listening,
                listenTicket, exiting>>
cancelVars == <<mCancel, cancelEvent>>
userVars   == <<mTicket, mustExit, user, userCall>>
ghostVars  == <<programmed, failedWrites, cancelled>>
opVars     == <<params, workerVars, pc, cancelVars, mOperationPending,
                userVars, ctl, ghostVars>>
vars       == <<connVars, opVars>>

-----------------------------------------------------------------------------
NoOp   == [op |-> "MAX", ticket |-> 0]
NoCall == [kind |-> "async", ticket |-> 0]

Param == [op : Operation, ticket : Ticket]

WorkerState == {"idle", "service", "pop", "pending", "cancel", "flush",
                "signal", "send", "loop", "stopped"}

UserState == {"ready", "listen", "pushed", "waiting", "stopping", "joining",
              "done"}

TicketsOf(queue) == {queue[i].ticket : i \in DOMAIN queue}
TicketsIn(seq)   == {seq[i] : i \in DOMAIN seq}

(* The ticket the next result of the processing thread will carry.         *)
InFlight == IF ioPending \/ sendResult THEN {res.ticket} ELSE {}

Accepted == {t \in Ticket : programmed[t] # "none"}

TypeOKFlags ==
  /\ overdue \in BOOLEAN
  /\ ioPending \in BOOLEAN /\ sendResult \in BOOLEAN
  /\ listening \in BOOLEAN
  /\ exiting \in BOOLEAN /\ mustExit \in BOOLEAN
  /\ mCancel \in BOOLEAN /\ cancelEvent \in BOOLEAN
  /\ mOperationPending \in BOOLEAN

TypeOKWorker ==
  /\ params \in Seq(Param) /\ Len(params) <= NbMaxOperationPending
  /\ cur \in Param \cup {NoOp}
  /\ res \in Result
  /\ listenTicket \in Ticket \cup {0}
  /\ pc \in WorkerState

TypeOKThreads ==
  /\ mTicket \in 1 .. MaxTicket + 1
  /\ user \in UserState
  /\ userCall \in [kind : {"async", "sync", "stop"}, ticket : Ticket \cup {0}]
  /\ ctl \in {"ready", "raised", "waiting"}
  /\ programmed \in [Ticket -> Operation \cup {"none"}]
  /\ failedWrites \in SUBSET Ticket
  /\ cancelled \in SUBSET Ticket

TypeOK == TypeOKConnection /\ TypeOKFlags /\ TypeOKWorker /\ TypeOKThreads

Init ==
  /\ InitConnection
  /\ params = <<>>
  /\ cur = NoOp
  /\ overdue = TRUE
  /\ res = [op |-> "MAX", ticket |-> 0, sts |-> "SOFT_INIT"]
  /\ ioPending = FALSE
  /\ sendResult = FALSE
  /\ listening = FALSE
  /\ listenTicket = 0
  /\ exiting = FALSE
  /\ pc = "idle"
  /\ mTicket = 1
  /\ mCancel = FALSE
  /\ cancelEvent = FALSE
  /\ mOperationPending = FALSE
  /\ mustExit = FALSE
  /\ user = "ready"
  /\ userCall = NoCall
  /\ ctl = "ready"
  /\ programmed = [t \in Ticket |-> "none"]
  /\ failedWrites = {}
  /\ cancelled = {}

-----------------------------------------------------------------------------
(* The user thread.                                                        *)

(* ProgramWebSocketOperation: draw a ticket, which is used up even if the  *)
(* queue stays full for PUSH_POP_TIMEOUT; ok is where an accepted          *)
(* operation leads, full where a refused one does.                         *)
PushParam(op, kind, full) ==
  /\ mTicket <= MaxTicket
  /\ mTicket' = mTicket + 1
  /\ IF Len(params) < NbMaxOperationPending
       THEN /\ params' = Append(params, [op |-> op, ticket |-> mTicket])
            /\ programmed' = [programmed EXCEPT ![mTicket] = op]
            /\ userCall' = [kind |-> kind, ticket |-> mTicket]
            /\ user' = "pushed"
       ELSE /\ user' = full
            /\ UNCHANGED <<params, programmed, userCall>>
  /\ UNCHANGED <<connVars, workerVars, pc, cancelVars, mOperationPending,
                 mustExit, ctl, failedWrites, cancelled>>

(* Run: start the processing thread, whose first turn finds no context,    *)
(* then program LISTEN on a server.                                        *)
Run ==
  /\ user = "ready"
  /\ pc = "idle"
  /\ pc' = "pop"
  /\ user' = IF NbMaxClient # 0 THEN "listen" ELSE "ready"
  /\ UNCHANGED <<connVars, params, workerVars, cancelVars, mOperationPending,
                 mTicket, mustExit, userCall, ctl, ghostVars>>

RunListen ==
  /\ user = "listen"
  /\ PushParam("LISTEN", "async", "ready")

Program(op, kind) ==
  /\ user = "ready"
  /\ pc # "idle"
  /\ PushParam(op, kind, "ready")

(* The end of ProgramWebSocketOperation: the flag is raised only now, when *)
(* the processing thread may be done with the operation already.           *)
MarkPending ==
  /\ user = "pushed"
  /\ mOperationPending' = TRUE
  /\ user' = CASE userCall.kind = "async" -> "ready"
               [] userCall.kind = "sync"  -> "waiting"
               [] userCall.kind = "stop"  -> "stopping"
  /\ userCall' = IF userCall.kind = "sync" THEN userCall ELSE NoCall
  /\ UNCHANGED <<connVars, params, workerVars, pc, cancelVars, mTicket,
                 mustExit, ctl, ghostVars>>

(* GetWebSocketOperationResult of a caller that programs and polls.        *)
GetResult ==
  /\ user = "ready"
  /\ results # <<>>
  /\ results' = Tail(results)
  /\ UNCHANGED <<linkVars, writeOps, answers, failedAsserts, opVars>>

(* Connect, Read, Write, Disconnect: results are popped until the one with *)
(* the caller's ticket comes; the others are dropped, and so is its        *)
(* status.                                                                 *)
SyncGetResult ==
  /\ user = "waiting"
  /\ results # <<>>
  /\ results' = Tail(results)
  /\ IF Head(results).ticket = userCall.ticket
       THEN user' = "ready" /\ userCall' = NoCall
       ELSE UNCHANGED <<user, userCall>>
  /\ UNCHANGED <<linkVars, writeOps, answers, failedAsserts, params,
                 workerVars, pc, cancelVars, mOperationPending, mTicket,
                 mustExit, ctl, ghostVars>>

(* The wait for a result ended without one.  A patient user has given the  *)
(* processing thread the time to deal with the operation.                  *)
SyncTimeout ==
  /\ user = "waiting"
  /\ results = <<>>
  /\ Patient => userCall.ticket \notin TicketsOf(params) \cup InFlight
  /\ user' = "ready"
  /\ userCall' = NoCall
  /\ UNCHANGED <<connVars, params, workerVars, pc, cancelVars,
                 mOperationPending, mTicket, mustExit, ctl, ghostVars>>

(* Stop: program EXIT, whether it is accepted or not ask the thread to     *)
(* leave its loop, wait for its end.                                       *)
Stop ==
  /\ user = "ready"
  /\ pc # "idle"
  /\ PushParam("EXIT", "stop", "stopping")

StopThread ==
  /\ user = "stopping"
  /\ mustExit' = TRUE
  /\ user' = "joining"
  /\ UNCHANGED <<connVars, params, workerVars, pc, cancelVars,
                 mOperationPending, mTicket, userCall, ctl, ghostVars>>

StopJoin ==
  /\ user = "joining"
  /\ pc = "stopped"
  /\ ClientDisconnect
  /\ user' = "done"
  /\ UNCHANGED <<writeOps, resultVars, failedAsserts, params, workerVars, pc,
                 cancelVars, mOperationPending, mTicket, mustExit, userCall,
                 ctl, ghostVars>>

(* Four operations have a wrapper that waits for the answer; a patient     *)
(* user has no other way to program.                                       *)
UserKinds(op) ==
  (IF op \in {"CONNECT", "DISCONNECT", "READ", "WRITE"} THEN {"sync"} ELSE {})
    \cup (IF Patient THEN {} ELSE {"async"})

User ==
  \/ Run
  \/ RunListen
  \/ \E op \in UserOps : \E kind \in UserKinds(op) : Program(op, kind)
  \/ MarkPending
  \/ GetResult
  \/ SyncGetResult
  \/ SyncTimeout
  \/ Stop
  \/ StopThread
  \/ StopJoin

-----------------------------------------------------------------------------
(* The control thread.                                                     *)

(* A cancel that is not refused because another one is still raised.       *)
CancelWebSocketOperation(wait) ==
  /\ "cancel" \in Controls
  /\ ctl = "ready"
  /\ ~mCancel
  /\ mCancel' = TRUE
  /\ ctl' = IF wait THEN "waiting" ELSE "raised"
  /\ UNCHANGED <<connVars, params, workerVars, pc, cancelEvent,
                 mOperationPending, userVars, ghostVars>>

(* With a null timeout the caller does not wait for the event.             *)
CancelNoWait ==
  /\ ctl = "raised"
  /\ mOperationPending' = FALSE
  /\ ctl' = "ready"
  /\ UNCHANGED <<connVars, params, workerVars, pc, cancelVars, userVars,
                 ghostVars>>

(* The event may still be signalled from an earlier cancel.                *)
CancelSignalled ==
  /\ ctl = "waiting"
  /\ cancelEvent
  /\ cancelEvent' = FALSE
  /\ mOperationPending' = FALSE
  /\ ctl' = "ready"
  /\ UNCHANGED <<connVars, params, workerVars, pc, mCancel, userVars,
                 ghostVars>>

CancelTimeout ==
  /\ ctl = "waiting"
  /\ ~cancelEvent
  /\ ctl' = "ready"
  /\ UNCHANGED <<connVars, params, workerVars, pc, cancelVars,
                 mOperationPending, userVars, ghostVars>>

ClearWebSocketOperation ==
  /\ "clear" \in Controls
  /\ ctl = "ready"
  /\ mOperationPending' = FALSE
  /\ mCancel' = FALSE
  /\ cancelEvent' = FALSE
  /\ UNCHANGED <<connVars, params, workerVars, pc, userVars, ctl, ghostVars>>

ResetWebSocketOperation ==
  /\ "reset" \in Controls
  /\ ctl = "ready"
  /\ params' = <<>>
  /\ results' = <<>>
  /\ mOperationPending' = FALSE
  /\ mCancel' = FALSE
  /\ cancelEvent' = FALSE
  /\ cancelled' = cancelled \cup TicketsOf(params)
  /\ UNCHANGED <<linkVars, writeOps, answers, failedAsserts, workerVars,
                 pc, userVars, ctl, programmed, failedWrites>>

Control ==
  \/ \E wait \in BOOLEAN : CancelWebSocketOperation(wait)
  \/ CancelNoWait
  \/ CancelSignalled
  \/ CancelTimeout
  \/ ClearWebSocketOperation
  \/ ResetWebSocketOperation

-----------------------------------------------------------------------------
(* The processing thread.                                                  *)

(* lws_service with any of its callbacks, and its return.                  *)
Service ==
  /\ pc = "service"
  /\ ctx
  /\ LwsCallback
  /\ UNCHANGED opVars

ServiceReturn ==
  /\ pc = "service"
  /\ pc' = "pop"
  /\ UNCHANGED <<connVars, params, workerVars, cancelVars, mOperationPending,
                 userVars, ctl, ghostVars>>

(* Without a command mCurrentOp_X keeps what it had.                       *)
PopNone ==
  /\ pc = "pop"
  /\ params = <<>>
  /\ pc' = IF ioPending THEN "pending" ELSE "cancel"
  /\ UNCHANGED <<connVars, params, workerVars, cancelVars, mOperationPending,
                 userVars, ctl, ghostVars>>

(* Mutant: the command taken over another one gives its ticket to the      *)
(* result of that one.                                                     *)
PopOverCommandRenames ==
  /\ pc = "pop"
  /\ params # <<>>
  /\ ioPending /\ ~listening
  /\ cur' = Head(params)
  /\ params' = Tail(params)
  /\ res' = [res EXCEPT !.ticket = Head(params).ticket]
  /\ overdue' \in BOOLEAN
  /\ pc' = "pending"
  /\ UNCHANGED <<connVars, ioPending, sendResult, listening, listenTicket,
                 exiting, cancelVars, mOperationPending, userVars, ctl,
                 ghostVars>>

(* A command that comes while another one is in flight takes the place of  *)
(* that one in mCurrentOp_X and is not started: the poll which follows     *)
(* acts on its operation and on its timer, with the result of the other.   *)
PopOverCommand ==
  /\ pc = "pop"
  /\ params # <<>>
  /\ ioPending /\ ~listening
  /\ cur' = Head(params)
  /\ params' = Tail(params)
  /\ overdue' \in BOOLEAN
  /\ pc' = "pending"
  /\ UNCHANGED <<connVars, res, ioPending, sendResult, listening,
                 listenTicket, exiting, cancelVars, mOperationPending,
                 userVars, ctl, ghostVars>>

(* The common part of starting a command: sts is what its case leaves in   *)
(* Result_X.Sts_E.  In listening mode IoPending_B may be true already.     *)
StartCommand(op, sts) ==
  /\ pc = "pop"
  /\ params # <<>>
  /\ ~ioPending \/ listening
  /\ Head(params).op = op
  /\ cur' = Head(params)
  /\ params' = Tail(params)
  /\ res' = [op |-> op, ticket |-> Head(params).ticket, sts |-> sts]
  /\ overdue' = FALSE
  /\ mOperationPending' = TRUE
  /\ sendResult' = TRUE
  /\ ioPending' = (ioPending \/ sts = "NO_ERROR")
  /\ pc' = IF ioPending' THEN "pending" ELSE "cancel"
  /\ UNCHANGED <<cancelVars, userVars, ctl, programmed, cancelled>>

StartListen(created) ==
  LET opens == NbMaxClient # 0 /\ ~listening /\ ~ctx
      sts   == IF NbMaxClient = 0 THEN "WRONG_MODE"
               ELSE IF ~opens THEN "INVALID_STATE"
               ELSE IF ~created THEN "INIT" ELSE "NO_ERROR"
  IN /\ StartCommand("LISTEN", sts)
     /\ IF opens /\ created
          THEN /\ connectDone' = FALSE
               /\ ctx' = TRUE
               /\ listening' = TRUE
               /\ listenTicket' = Head(params).ticket
               /\ UNCHANGED <<pWebSocket, wsi, wantWrite, urlKey, clients, rx>>
          ELSE /\ IF opens THEN ClientDisconnect ELSE UNCHANGED linkVars
               /\ UNCHANGED <<listening, listenTicket>>
     /\ UNCHANGED <<writeOps, resultVars, failedAsserts, exiting, failedWrites>>

(* Refused: a server, or a client that has a context or no valid key.      *)
StartConnectRefused ==
  /\ StartCommand("CONNECT",
                  IF NbMaxClient # 0 THEN "WRONG_MODE" ELSE "INVALID_STATE")
  /\ UNCHANGED <<connVars, listening, listenTicket, exiting, failedWrites>>

(* No context could be created, or the connection failed at once: lws calls *)
(* CLIENT_CONNECTION_ERROR inside lws_client_connect_via_info, and the     *)
(* context is torn down before it has returned null.                       *)
StartConnectNoContext(sts) ==
  /\ NbMaxClient = 0 /\ ~connectDone /\ ~ctx
  /\ StartCommand("CONNECT", sts)
  /\ ClientDisconnect
  /\ UNCHANGED <<writeOps, resultVars, failedAsserts, listening, listenTicket,
                 exiting, failedWrites>>

(* lws_client_connect_via_info returned a connection, or null: then the    *)
(* context stays without one.                                              *)
StartConnect(w) ==
  /\ NbMaxClient = 0 /\ ~connectDone /\ ~ctx
  /\ StartCommand("CONNECT", IF w = NoWsi THEN "ENOTCONN" ELSE "NO_ERROR")
  /\ ctx' = TRUE
  /\ pWebSocket' = w
  /\ wsi' = [v \in Wsi |-> IF v = w THEN "opening" ELSE wsi[v]]
  /\ UNCHANGED <<connectDone, wantWrite, urlKey, clients, rx, writeOps,
                 resultVars, failedAsserts, listening, listenTicket, exiting,
                 failedWrites>>

StartDisconnect ==
  LET closes == NbMaxClient = 0 /\ (connectDone \/ ctx)
      sts    == IF NbMaxClient # 0 THEN "WRONG_MODE"
                ELSE IF ~closes THEN "INVALID_STATE" ELSE "NO_ERROR"
  IN /\ StartCommand("DISCONNECT", sts)
     /\ IF closes THEN ClientDisconnect ELSE UNCHANGED linkVars
     /\ UNCHANGED <<writeOps, resultVars, failedAsserts, listening,
                    listenTicket, exiting, failedWrites>>

StartExit ==
  /\ StartCommand("EXIT", "CANCEL")
  /\ exiting' = TRUE
  /\ UNCHANGED <<connVars, listening, listenTicket, failedWrites>>

(* A client needs its connection, a server only a pointer to one.          *)
CanTransfer == pWebSocket # NoWsi /\ (NbMaxClient = 0 => connectDone)

(* valid: the caller gave a buffer and a size.                             *)
StartRead(valid) ==
  /\ StartCommand("READ", IF ~CanTransfer THEN "ENOTCONN"
                          ELSE IF ~valid THEN "EINVAL" ELSE "NO_ERROR")
  /\ UNCHANGED <<connVars, listening, listenTicket, exiting, failedWrites>>

StartWriteRefused(valid) ==
  /\ ~CanTransfer \/ ~valid \/ Len(writeOps) = WriteOpCapacity
  /\ StartCommand("WRITE", IF ~CanTransfer THEN "ENOTCONN"
                           ELSE IF ~valid THEN "EINVAL" ELSE "FULL")
  /\ UNCHANGED <<connVars, listening, listenTicket, exiting, failedWrites>>

(* The data are queued, then a writeable callback is asked for; if lws     *)
(* does not grant it the user is told of a failure and the data stay.      *)
StartWrite(granted) ==
  /\ CanTransfer
  /\ Len(writeOps) < WriteOpCapacity
  /\ StartCommand("WRITE", IF granted THEN "NO_ERROR" ELSE "OPERATION_FAILED")
  /\ writeOps' = Append(writeOps, Head(params).ticket)
  /\ RequestWriteable(wantWrite, granted)
  /\ failedWrites' = IF granted THEN failedWrites
                     ELSE failedWrites \cup {Head(params).ticket}
  /\ UNCHANGED <<ctx, connectDone, pWebSocket, wsi, urlKey, clients, rx,
                 resultVars, failedAsserts, listening, listenTicket, exiting>>

Start ==
  \/ \E created \in BOOLEAN : StartListen(created)
  \/ StartConnectRefused
  \/ \E sts \in {"INIT", "ENOTCONN"} : StartConnectNoContext(sts)
  \/ \E w \in Wsi \cup {NoWsi} : StartConnect(w)
  \/ StartDisconnect
  \/ StartExit
  \/ \E valid \in BOOLEAN : StartRead(valid)
  \/ \E valid \in BOOLEAN : StartWriteRefused(valid)
  \/ \E granted \in BOOLEAN : StartWrite(granted)

-----------------------------------------------------------------------------
(* Mutants: an operation that the time check forgets.                      *)
TimedOutNotReset(late)   == ~listening /\ cur.op \notin {"WRITE", "MAX"} /\ late
TimedOutNotRead(late)    == ~listening /\ cur.op \notin {"WRITE", "READ"} /\ late
TimedOutNotConnect(late) == ~listening /\ cur.op \notin {"WRITE", "CONNECT"} /\ late

(* The poll of the operation in flight: the case of the operation found in *)
(* mCurrentOp_X sets the status, says whether a result is due and whether  *)
(* the operation stays in flight; the time check that ends it may overrule *)
(* all three.                                                              *)
TimedOut(late) == ~listening /\ cur.op # "WRITE" /\ late

Poll(op, late, r, send, stays) ==
  /\ pc = "pending"
  /\ cur.op = op
  /\ res' = IF TimedOut(late) THEN [r EXCEPT !.sts = "ETIMEDOUT"] ELSE r
  /\ sendResult' = (send \/ TimedOut(late))
  /\ ioPending' = (stays /\ ~TimedOut(late))
  /\ pc' = "cancel"
  /\ UNCHANGED <<writeOps, resultVars, failedAsserts, params, cur, listening,
                 listenTicket, exiting, cancelVars, mOperationPending,
                 userVars, ctl, ghostVars>>

(* Mutant: each client is announced under a ticket of its own.             *)
PollListenNextTicket ==
  /\ IF connectDone
       THEN /\ overdue' = FALSE
            /\ Poll("LISTEN", FALSE,
                    [op |-> "CONNECT", ticket |-> 1 + (listenTicket % MaxTicket),
                     sts |-> "NO_ERROR"], TRUE, TRUE)
       ELSE /\ overdue' = overdue
            /\ Poll("LISTEN", overdue, res, FALSE, TRUE)
  /\ connectDone' = FALSE
  /\ UNCHANGED <<ctx, pWebSocket, wsi, wantWrite, urlKey, clients, rx>>

(* A client has arrived: it is announced under the ticket of LISTEN, and   *)
(* the timer starts again.                                                 *)
PollListen ==
  /\ IF connectDone
       THEN /\ overdue' = FALSE
            /\ Poll("LISTEN", FALSE, [op |-> "CONNECT", ticket |-> listenTicket,
                                      sts |-> "NO_ERROR"], TRUE, TRUE)
       ELSE /\ overdue' = overdue
            /\ Poll("LISTEN", overdue, res, FALSE, TRUE)
  /\ connectDone' = FALSE
  /\ UNCHANGED <<ctx, pWebSocket, wsi, wantWrite, urlKey, clients, rx>>

(* A connection that does not come in time is torn down.                   *)
PollConnect ==
  /\ Poll("CONNECT", overdue,
          IF connectDone THEN [res EXCEPT !.sts = "NO_ERROR"] ELSE res,
          connectDone, ~connectDone)
  /\ IF TimedOut(overdue) THEN ClientDisconnect ELSE UNCHANGED linkVars
  /\ UNCHANGED overdue

PollDisconnect ==
  /\ Poll("DISCONNECT", overdue, res, TRUE, FALSE)
  /\ UNCHANGED <<linkVars, overdue>>

(* A message is consumed even when the time check then reports a timeout.  *)
PollRead ==
  /\ Poll("READ", overdue,
          [res EXCEPT !.sts = IF rx > 0 THEN "NO_ERROR" ELSE "PENDING"],
          rx > 0, rx = 0)
  /\ rx' = IF rx > 0 THEN rx - 1 ELSE rx
  /\ UNCHANGED <<ctx, connectDone, pWebSocket, wsi, wantWrite, urlKey, clients,
                 overdue>>

(* Mutant: a WRITE is answered when it has been queued, too.               *)
PollWriteAnswers ==
  /\ Poll("WRITE", overdue, [res EXCEPT !.sts = "NO_ERROR"], TRUE, FALSE)
  /\ UNCHANGED <<linkVars, overdue>>

(* The writeable callback answers a WRITE.                                 *)
PollWrite ==
  /\ Poll("WRITE", overdue, [res EXCEPT !.sts = "NO_ERROR"], FALSE, FALSE)
  /\ UNCHANGED <<linkVars, overdue>>

(* EXIT taken over another operation, or the operation reset because the   *)
(* context is gone.                                                        *)
PollOther ==
  /\ \E op \in {"EXIT", "MAX"} :
       Poll(op, overdue, [res EXCEPT !.sts = "BAD_ID"], FALSE, FALSE)
  /\ UNCHANGED <<linkVars, overdue>>

Pending ==
  \/ PollListen
  \/ PollConnect
  \/ PollDisconnect
  \/ PollRead
  \/ PollWrite
  \/ PollOther

-----------------------------------------------------------------------------
NoCancel ==
  /\ pc = "cancel"
  /\ ~mCancel
  /\ pc' = IF sendResult THEN "send" ELSE "loop"
  /\ UNCHANGED <<connVars, params, workerVars, cancelVars, mOperationPending,
                 userVars, ctl, ghostVars>>

(* Mutant: the cancel stays raised.                                        *)
CancelTakeStaysRaised ==
  /\ pc = "cancel"
  /\ mCancel
  /\ params' = <<>>
  /\ cancelled' = Accepted
  /\ pc' = "flush"
  /\ UNCHANGED <<connVars, workerVars, cancelVars, mOperationPending,
                 userVars, ctl, programmed, failedWrites>>

(* A raised cancel is taken in steps which the other threads interleave.   *)
CancelTake ==
  /\ pc = "cancel"
  /\ mCancel
  /\ mCancel' = FALSE
  /\ params' = <<>>
  /\ cancelled' = Accepted
  /\ pc' = "flush"
  /\ UNCHANGED <<connVars, workerVars, cancelEvent, mOperationPending,
                 userVars, ctl, programmed, failedWrites>>

(* Mutant: the queued writes are not flushed.                              *)
CancelFlushKeepsWrites ==
  /\ pc = "flush"
  /\ results' = <<>>
  /\ rx' = 0
  /\ cur' = NoOp
  /\ overdue' = TRUE
  /\ connectDone' = FALSE
  /\ pWebSocket' = NoWsi
  /\ sendResult' = FALSE
  /\ ioPending' = FALSE
  /\ pc' = "signal"
  /\ UNCHANGED <<ctx, wsi, wantWrite, urlKey, clients, writeOps, answers,
                 failedAsserts, params, res, listening, listenTicket, exiting,
                 cancelVars, mOperationPending, userVars, ctl, ghostVars>>

(* The context and the listening mode stay.                                *)
CancelFlush ==
  /\ pc = "flush"
  /\ results' = <<>>
  /\ writeOps' = <<>>
  /\ rx' = 0
  /\ cur' = NoOp
  /\ overdue' = TRUE
  /\ connectDone' = FALSE
  /\ pWebSocket' = NoWsi
  /\ sendResult' = FALSE
  /\ ioPending' = FALSE
  /\ pc' = "signal"
  /\ UNCHANGED <<ctx, wsi, wantWrite, urlKey, clients, answers, failedAsserts,
                 params, res, listening, listenTicket, exiting, cancelVars,
                 mOperationPending, userVars, ctl, ghostVars>>

CancelSignal ==
  /\ pc = "signal"
  /\ mOperationPending' = FALSE
  /\ cancelEvent' = TRUE
  /\ pc' = "loop"
  /\ UNCHANGED <<connVars, params, workerVars, mCancel, userVars, ctl,
                 ghostVars>>

Send ==
  /\ pc = "send"
  /\ sendResult' = FALSE
  /\ PushResult(res)
  /\ pc' = "loop"
  /\ UNCHANGED <<linkVars, writeOps, failedAsserts, params, cur, overdue,
                 res, ioPending, listening, listenTicket, exiting, cancelVars,
                 mOperationPending, userVars, ctl, ghostVars>>

(* Mutant: the loop only ends with EXIT.                                   *)
MayLoopUntilExit == ~exiting

(* The condition of the loop of V_OnProcessing.                            *)
MayLoop == ~mustExit /\ ~exiting

Loop ==
  /\ pc = "loop"
  /\ MayLoop
  /\ ctx
  /\ pc' = "service"
  /\ UNCHANGED <<connVars, params, workerVars, cancelVars, mOperationPending,
                 userVars, ctl, ghostVars>>

(* Without a context mCurrentOp_X is reset before the queue is read.       *)
LoopNoContext ==
  /\ pc = "loop"
  /\ MayLoop
  /\ ~ctx
  /\ cur' = NoOp
  /\ overdue' = TRUE
  /\ pc' = "pop"
  /\ UNCHANGED <<connVars, params, res, ioPending, sendResult, listening,
                 listenTicket, exiting, cancelVars, mOperationPending,
                 userVars, ctl, ghostVars>>

Exit ==
  /\ pc = "loop"
  /\ ~MayLoop
  /\ ClientDisconnect
  /\ pc' = "stopped"
  /\ UNCHANGED <<writeOps, resultVars, failedAsserts, params, workerVars,
                 cancelVars, mOperationPending, userVars, ctl, ghostVars>>

TimePasses ==
  /\ ioPending
  /\ ~overdue
  /\ overdue' = TRUE
  /\ UNCHANGED <<connVars, params, cur, res, ioPending, sendResult, listening,
                 listenTicket, exiting, pc, cancelVars, mOperationPending,
                 userVars, ctl, ghostVars>>

Worker ==
  \/ ServiceReturn
  \/ PopNone
  \/ PopOverCommand
  \/ Start
  \/ Pending
  \/ NoCancel
  \/ CancelTake
  \/ CancelFlush
  \/ CancelSignal
  \/ Send
  \/ Loop
  \/ LoopNoContext
  \/ Exit

Next == User \/ Control \/ Service \/ Worker \/ TimePasses

Spec == Init /\ [][Next]_vars

-----------------------------------------------------------------------------
(* Fairness.  The processing thread is never blocked for ever: every wait  *)
(* it makes has a deadline, lws_service included, and time passes.  The    *)
(* user thread ends the calls it has begun.                                *)
UserReturns ==
  RunListen \/ MarkPending \/ SyncGetResult \/ SyncTimeout \/ StopThread \/ StopJoin

Fairness == WF_vars(Worker) /\ WF_vars(TimePasses) /\ WF_vars(UserReturns)

FairSpec == Spec /\ Fairness

(* In addition lws keeps its promise of a writeable callback: a connection *)
(* that has been served time and again gets it.                            *)
ServeWriteable ==
  /\ pc = "service"
  /\ ctx
  /\ \E w \in Wsi : \/ WriteableIdle(w)
                     \/ \E sts \in {"NO_ERROR", "WRITE_ERROR", "ETIMEDOUT"} :
                          WriteableDone(w, sts)
  /\ UNCHANGED opVars

(* It also grants every request for one; a granted partial write changes   *)
(* nothing, so that only the refused ones have to be left out.             *)
LwsGrants ==
  /\ failedWrites' = failedWrites
  /\ wantWrite' # wantWrite => ~\E w \in Wsi : WriteablePartial(w)

WriteFairSpec ==
  Init /\ [][Next /\ LwsGrants]_vars /\ Fairness /\ SF_vars(ServeWriteable)

-----------------------------------------------------------------------------
(* Properties.                                                             *)

(* Without a context nothing of a session is left: not connected, no       *)
(* pointer to a connection, no client registered and no received message   *)
(* that a READ on the next connection could return, however the context    *)
(* went (DISCONNECT, a timed out CONNECT, an error callback, the end of    *)
(* the thread) and whatever a cancel has reset in between.                 *)
SessionNeedsContext ==
  ~ctx => /\ ~connectDone
          /\ pWebSocket = NoWsi
          /\ \A w \in Wsi : wsi[w] = "none"
          /\ wantWrite = {}
          /\ Registered = {}
          /\ rx = 0

(* A cancel is a barrier: once V_OnProcessing has flushed, no operation    *)
(* accepted before is in a queue or in flight any more, so that it can     *)
(* neither be executed nor be answered later.  LISTEN is the exception:    *)
(* the listening mode and its ticket survive.  Nor does an operation that  *)
(* a reset has dropped from the queue turn up again; a reset leaves alone  *)
(* what is in flight or in the write queue.                                *)
CancelledStaysDead ==
  LET dead == {t \in cancelled : programmed[t] # "LISTEN"}
  IN /\ TicketsOf(params) \cap dead = {}
     /\ pc # "flush" =>
          (TicketsOf(results) \cup TicketsIn(writeOps) \cup InFlight) \cap dead = {}

(* An operation gets at most one result, from V_OnProcessing or from the   *)
(* writeable callback, except LISTEN, which gets one per client, and a     *)
(* WRITE that was refused after its data had been queued.                  *)
AtMostOneAnswer ==
  \A t \in Ticket : answers[t] = 2 => programmed[t] = "LISTEN" \/ t \in failedWrites

(* The tickets that the object still holds.  The listening mode ends with  *)
(* the object, so that its ticket stays.                                   *)
Outstanding ==
  TicketsOf(params) \cup TicketsIn(writeOps) \cup InFlight
    \cup (IF listening THEN {listenTicket} ELSE {})

(* To the user the queues, the turns of the processing thread and the      *)
(* callbacks are a service that takes operations and answers or drops each *)
(* one: no ticket is given, answered or brought back out of turn, by a     *)
(* cancel, a reset, a command taken over another one, a full queue or the  *)
(* listening mode.                                                         *)
OS == INSTANCE OperationService
        WITH outstanding <- Outstanding, refused <- failedWrites

ImplementsService == OS!Spec

(* A result names the operation that was programmed under its ticket, even *)
(* if another command has taken the place of mCurrentOp_X meanwhile; only  *)
(* the CONNECT of a client carries the ticket of LISTEN.                   *)
AnswerNamesItsOperation ==
  \A i \in DOMAIN results :
    \/ programmed[results[i].ticket] = results[i].op
    \/ programmed[results[i].ticket] = "LISTEN" /\ results[i].op = "CONNECT"

(* A client that waits for each answer before it programs the next         *)
(* operation loses none: an accepted one is queued, in flight, in the      *)
(* write queue, or answered.                                               *)
NoSilentLoss ==
  Patient /\ Controls = {} /\ NbMaxClient = 0 =>
    \A t \in Accepted :
      \/ t \in TicketsOf(params) \cup InFlight \cup TicketsIn(writeOps)
      \/ answers[t] > 0

(* The registry of a server: a registered connection is open, has one key, *)
(* and there are no more than NbMaxClient_U32 of them.                     *)
RegistryIsLive ==
  /\ \A k \in Registered : wsi[clients[k]] = "open"
  /\ \A w \in Wsi : wsi[w] = "open" /\ NbMaxClient # 0 =>
       Cardinality({k \in Key : clients[k] = w}) = 1
  /\ Cardinality(Registered) <= NbMaxClient

(* Stop returns, even if EXIT found no room in the queue, was flushed by a *)
(* cancel, or was taken over an operation in flight and never started.     *)
StopReturns == user = "joining" ~> user = "done"

(* The operation in flight on a client ends, by its own outcome or by the  *)
(* timer of the command in mCurrentOp_X, be that its own or one taken over *)
(* it, unless a further command comes.  Each command taken over it brings  *)
(* a new timer (bofwebsocket.cpp 1317 and 1631): a caller who never stops  *)
(* to program may keep IoPending_B for ever.                               *)
FlightEnds ==
  (ioPending /\ ~listening /\ params = <<>>)
    ~> (~ioPending \/ params # <<>> \/ pc = "stopped")

(* A cancel raised while the processing thread runs is taken or withdrawn. *)
CancelIsTaken == (mCancel /\ pc # "idle") ~> (~mCancel \/ pc = "stopped")

(* A patient client is answered whatever the network does, if only with a  *)
(* timeout; a WRITE may stay in the write queue of a dead connection.      *)
PatientIsAnswered ==
  \A t \in Ticket :
    (user = "waiting" /\ userCall.ticket = t /\ programmed[t] # "WRITE")
      ~> answers[t] > 0

-----------------------------------------------------------------------------
(* What assertions and comments of the source say, and the code breaks.    *)

(* bofwebsocket.cpp:997 BOF_ASSERT(mWebSocketState_X.pWebSocket_X == _pWsi_X) *)
ClientEstablishedAssert == 997 \notin failedAsserts

(* bofwebsocket.cpp:964 BOF_ASSERT(mWebSocketState_X.pWebSocket_X == _pWsi_X) *)
EstablishedAssert == 964 \notin failedAsserts

(* bofwebsocket.h:128 the key of CONNECT is "the name of the client which  *)
(* will be created on the server".                                         *)
ClientHasItsName == \A k \in Registered : urlKey[clients[k]] = k

(* bofwebsocket.cpp:1617 the result of a WRITE is "Made by" the writeable  *)
(* callback: a WRITE of a user who waits is on its way or answered.        *)
WriteIsOnItsWay ==
  \A t \in Accepted : programmed[t] = "WRITE" =>
    \/ t \in TicketsOf(params) \cup InFlight \cup TicketsIn(writeOps)
    \/ answers[t] > 0

(* bofwebsocket.cpp:1617 again: a WRITE queued on a connection that stays  *)
(* open is answered.                                                       *)
QueuedWriteIsAnswered ==
  \A t \in Ticket :
    t \in TicketsIn(writeOps)
      ~> (t \notin TicketsIn(writeOps) \/ ~connectDone \/ pc = "stopped")
=============================================================================
