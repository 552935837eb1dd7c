--------------------------- MODULE WsAnswerProofs ---------------------------
(***************************************************************************)
(* What a ticket of WsOperation stands for, for every value of the         *)
(* constants: results name the operation of their ticket, no operation is  *)
(* answered twice, and a cancel is a barrier.                              *)
(***************************************************************************)
EXTENDS WsOperationProofs

Elements(s) == {s[i] : i \in DOMAIN s}

-----------------------------------------------------------------------------
(* Elements of a queue, and what a push and a pop make of them.            *)

LEMMA ElementsEmpty == Elements(<<>>) = {}
BY DEF Elements

LEMMA ElementsType ==
  ASSUME NEW S, NEW s \in Seq(S)
  PROVE  Elements(s) \subseteq S
BY ElementOfSeq DEF Elements

LEMMA ElementsAppend ==
  ASSUME NEW S, NEW s \in Seq(S), NEW e \in S
  PROVE  Elements(Append(s, e)) = Elements(s) \cup {e}
<1>1. /\ Len(s) \in Nat /\ DOMAIN s = 1 .. Len(s)
      /\ DOMAIN Append(s, e) = 1 .. Len(s) + 1
      /\ \A i \in 1 .. Len(s) : Append(s, e)[i] = s[i]
      /\ Append(s, e)[Len(s) + 1] = e
  BY AppendProperties, LenProperties
<1> QED BY <1>1 DEF Elements

LEMMA ElementsTail ==
  ASSUME NEW S, NEW s \in Seq(S), s # <<>>
  PROVE  Head(s) \in Elements(s) /\ Elements(Tail(s)) \subseteq Elements(s)
<1>1. /\ Len(s) \in Nat \ {0} /\ DOMAIN s = 1 .. Len(s) /\ Head(s) = s[1]
      /\ DOMAIN Tail(s) = 1 .. Len(s) - 1
      /\ \A i \in 1 .. Len(s) - 1 : Tail(s)[i] = s[i + 1]
  BY HeadTailProperties, LenProperties, EmptySeq
<1> QED BY <1>1 DEF Elements

-----------------------------------------------------------------------------
(* Names.                                                                  *)

(* What a result may say: the operation of its ticket, or the CONNECT of a *)
(* client under the ticket of LISTEN.                                      *)
Named(r) ==
  /\ r.ticket \in Ticket
  /\ \/ programmed[r.ticket] = r.op
     \/ programmed[r.ticket] = "LISTEN" /\ r.op = "CONNECT"

TicketsDrawn == \A t \in Ticket : programmed[t] # "none" => t < mTicket

CommandsNamed ==
  /\ \A p \in Elements(params) : programmed[p.ticket] = p.op
  /\ cur # NoOp => programmed[cur.ticket] = cur.op

(* LISTEN belongs to a server, which has no context and nothing in flight  *)
(* before it listens; its ticket is kept.                                  *)
ListenMode ==
  /\ \A t \in Ticket : programmed[t] = "LISTEN" => NbMaxClient # 0
  /\ user = "listen" => NbMaxClient # 0
  /\ listening => listenTicket \in Ticket /\ programmed[listenTicket] = "LISTEN"
  /\ NbMaxClient # 0 /\ ~listening => ~ctx /\ ~ioPending
  /\ pc = "pending" => ioPending

Sending == ioPending \/ sendResult \/ pc = "send"

AnswersNamed ==
  /\ \A t \in Elements(writeOps) : programmed[t] = "WRITE"
  /\ \A r \in Elements(results) : Named(r)
  /\ Sending => Named(res)

Names == TicketsDrawn /\ CommandsNamed /\ ListenMode /\ AnswersNamed

LEMMA NamesInit == Init => Names
BY ElementsEmpty
   DEF Init, InitConnection, Names, TicketsDrawn, CommandsNamed, ListenMode,
       AnswersNamed, Sending

(* A step that programs nothing keeps the names if what it puts into the   *)
(* queues, and what it leaves in flight, is named.                         *)
LEMMA NamesKept ==
  ASSUME Names, UNCHANGED <<programmed, mTicket>>,
         Elements(params') \subseteq Elements(params),
         cur' \in Elements(params) \cup {cur, NoOp},
         \A t \in Elements(writeOps') : t \in Elements(writeOps) \/ programmed[t] = "WRITE",
         \A r \in Elements(results') : r \in Elements(results) \/ Named(r),
         Sending' => Named(res'),
         ListenMode'
  PROVE  Names'
<1>1. TicketsDrawn' BY DEF Names, TicketsDrawn
<1>2. CommandsNamed' BY DEF Names, CommandsNamed
<1>3. AnswersNamed' BY DEF Names, AnswersNamed, Named, Sending
<1> QED BY <1>1, <1>2, <1>3 DEF Names

(* A result that is pushed is the only new one.                            *)
LEMMA PushedElements ==
  ASSUME TypeOKResults, NEW r \in Result, PushResult(r)
  PROVE  \A q \in Elements(results') : q \in Elements(results) \/ q = r
<1>1. CASE results' = Append(results, r)
  BY <1>1, ElementsAppend DEF TypeOKResults
<1>2. CASE results' = results BY <1>2
<1> QED BY <1>1, <1>2 DEF PushResult, resultVars

(* ProgramWebSocketOperation draws a ticket that nothing else carries.     *)
LEMMA NamesPushParam ==
  ASSUME TypeOK, Names, NEW op \in Operation, NEW kind, NEW full,
         PushParam(op, kind, full), full # "listen",
         op = "LISTEN" => NbMaxClient # 0
  PROVE  Names'
<1>1. /\ mTicket \in Ticket /\ mTicket' = mTicket + 1
      /\ programmed[mTicket] = "none"
      /\ mTicket \in Nat
  BY ConnectionAssumption
     DEF PushParam, TypeOK, TypeOKThreads, Names, TicketsDrawn, Ticket
<1>2. \A t \in Ticket : programmed'[t] = IF t = mTicket /\ programmed' # programmed
                                           THEN op ELSE programmed[t]
  BY <1>1 DEF PushParam, TypeOK, TypeOKThreads
<1>3. "none" \notin Operation \cup {"MAX"} BY DEF Operation
<1>4. /\ params \in Seq(Param) /\ cur \in Param \cup {NoOp} /\ res \in Result
      /\ results \in Seq(Result) /\ writeOps \in Seq(Ticket)
  BY DEF TypeOK, TypeOKWorker, TypeOKConnection, TypeOKResults
<1>5. \A t \in Ticket : programmed[t] # "none" => programmed'[t] = programmed[t]
  BY <1>1, <1>2
<1>6. \A r \in Result : Named(r) => Named(r)'
  BY <1>3, <1>5 DEF Result, Named
<1>7. TicketsDrawn'
  BY <1>1, <1>2, ConnectionAssumption DEF Names, TicketsDrawn, TypeOK, TypeOKThreads, Ticket
<1>8. CommandsNamed'
  <2>1. \A p \in Param : programmed[p.ticket] = p.op => programmed'[p.ticket] = p.op
    BY <1>3, <1>5 DEF Param
  <2>2. cur # NoOp => programmed[cur.ticket] = cur.op /\ cur \in Param
    BY <1>4 DEF Names, CommandsNamed
  <2>3. \A p \in Elements(params) : programmed[p.ticket] = p.op /\ p \in Param
    BY <1>4, ElementsType DEF Names, CommandsNamed
  <2>4. CASE params' = params
    BY <2>1, <2>2, <2>3, <2>4 DEF PushParam, CommandsNamed, workerVars
  <2>5. CASE params' # params
    <3>1. params' = Append(params, [op |-> op, ticket |-> mTicket])
          /\ programmed' = [programmed EXCEPT ![mTicket] = op]
      BY <2>5 DEF PushParam
    <3>2. programmed'[mTicket] = op
      BY <1>1, <3>1 DEF TypeOK, TypeOKThreads
    <3>3. [op |-> op, ticket |-> mTicket] \in Param BY <1>1 DEF Param
    <3>4. Elements(params') = Elements(params) \cup {[op |-> op, ticket |-> mTicket]}
      BY <1>4, <3>1, <3>3, ElementsAppend
    <3> QED BY <2>1, <2>2, <2>3, <3>2, <3>4 DEF PushParam, CommandsNamed, workerVars
  <2> QED BY <2>4, <2>5
<1>9. ListenMode'
  <2>1. listening => programmed'[listenTicket] = "LISTEN"
    BY <1>5 DEF Names, ListenMode
  <2>2. user' # "listen" BY DEF PushParam
  <2>3. ctx' = ctx BY DEF PushParam, connVars, linkVars
  <2> QED
    BY <1>2, <2>1, <2>2, <2>3 DEF PushParam, Names, ListenMode, workerVars
<1>10. AnswersNamed'
  <2>1. \A t \in Elements(writeOps) : t \in Ticket /\ programmed[t] = "WRITE"
    BY <1>4, ElementsType DEF Names, AnswersNamed
  <2>2. \A r \in Elements(results) : r \in Result /\ Named(r)
    BY <1>4, ElementsType DEF Names, AnswersNamed
  <2>3. writeOps' = writeOps /\ results' = results /\ res' = res
        /\ (Sending' <=> Sending)
    BY DEF PushParam, connVars, resultVars, workerVars, Sending
  <2>4. Sending => Named(res)' BY <1>4, <1>6, <2>3 DEF Names, AnswersNamed
  <2>5. \A r \in Elements(results) : Named(r)' BY <1>6, <2>2
  <2> QED BY <1>5, <2>1, <2>3, <2>4, <2>5 DEF AnswersNamed, Named
<1> QED BY <1>7, <1>8, <1>9, <1>10 DEF Names

(* A step that leaves the queues and the operation in flight, or drops     *)
(* them, keeps the names.                                                  *)
LEMMA NamesDropped ==
  ASSUME TypeOK, Names, UNCHANGED <<programmed, mTicket>>,
         params' \in {params, <<>>}, cur' \in {cur, NoOp},
         writeOps' \in {writeOps, <<>>},
         \/ results' \in {results, <<>>}
         \/ results # <<>> /\ results' = Tail(results),
         Sending' => Sending /\ res' = res,
         ListenMode'
  PROVE  Names'
<1>1. Elements(params') \subseteq Elements(params) BY ElementsEmpty
<1>2. Elements(writeOps') \subseteq Elements(writeOps) BY ElementsEmpty
<1>3. Elements(results') \subseteq Elements(results)
  <2>1. results \in Seq(Result) BY DEF TypeOK, TypeOKConnection, TypeOKResults
  <2>2. CASE results # <<>> /\ results' = Tail(results)
    BY <2>1, <2>2, ElementsTail
  <2> QED BY <2>2, ElementsEmpty
<1>4. Sending' => Named(res') BY DEF Names, AnswersNamed
<1> QED BY <1>1, <1>2, <1>3, <1>4, NamesKept

(* The steps of the user thread.                                           *)
LEMMA NamesUser ==
  ASSUME TypeOK, Names, User PROVE Names'
<1>1. CASE RunListen
  <2>1. NbMaxClient # 0 BY <1>1 DEF RunListen, Names, ListenMode
  <2> QED BY <1>1, <2>1, NamesPushParam DEF RunListen, Operation
<1>2. ASSUME NEW op \in UserOps, NEW kind \in UserKinds(op), Program(op, kind)
      PROVE  Names'
  <2>1. op \in Operation /\ (op = "LISTEN" => NbMaxClient # 0)
    BY OperationAssumption
  <2> QED BY <1>2, <2>1, NamesPushParam DEF Program
<1>3. CASE Stop
  BY <1>3, NamesPushParam DEF Stop, Operation
<1>4. CASE Run
  <2>1. ListenMode' BY <1>4 DEF Run, Names, ListenMode, connVars, linkVars, workerVars, ghostVars
  <2> QED
    BY <1>4, <2>1, NamesDropped
       DEF Run, connVars, resultVars, workerVars, ghostVars, Sending
<1>5. CASE MarkPending
  <2>1. user' # "listen" BY <1>5 DEF MarkPending, TypeOK, TypeOKThreads
  <2>2. ListenMode'
    BY <1>5, <2>1 DEF MarkPending, Names, ListenMode, connVars, linkVars, workerVars, ghostVars
  <2> QED
    BY <1>5, <2>2, NamesDropped
       DEF MarkPending, connVars, resultVars, workerVars, ghostVars, Sending
<1>6. CASE GetResult
  <2>1. ListenMode'
    BY <1>6 DEF GetResult, Names, ListenMode, linkVars, opVars, workerVars, userVars, ghostVars
  <2> QED
    BY <1>6, <2>1, NamesDropped
       DEF GetResult, opVars, workerVars, userVars, ghostVars, Sending
<1>7. CASE SyncGetResult
  <2>1. ListenMode'
    BY <1>7 DEF SyncGetResult, Names, ListenMode, linkVars, workerVars, ghostVars
  <2> QED
    BY <1>7, <2>1, NamesDropped DEF SyncGetResult, workerVars, ghostVars, Sending
<1>8. CASE SyncTimeout
  <2>1. ListenMode'
    BY <1>8 DEF SyncTimeout, Names, ListenMode, connVars, linkVars, workerVars, ghostVars
  <2> QED
    BY <1>8, <2>1, NamesDropped
       DEF SyncTimeout, connVars, resultVars, workerVars, ghostVars, Sending
<1>9. CASE StopThread
  <2>1. ListenMode'
    BY <1>9 DEF StopThread, Names, ListenMode, connVars, linkVars, workerVars, ghostVars
  <2> QED
    BY <1>9, <2>1, NamesDropped
       DEF StopThread, connVars, resultVars, workerVars, ghostVars, Sending
<1>10. CASE StopJoin
  <2>1. ListenMode'
    BY <1>10 DEF StopJoin, ClientDisconnect, Names, ListenMode, workerVars, ghostVars
  <2> QED
    BY <1>10, <2>1, NamesDropped DEF StopJoin, resultVars, workerVars, ghostVars, Sending
<1> QED
  BY <1>1, <1>2, <1>3, <1>4, <1>5, <1>6, <1>7, <1>8, <1>9, <1>10 DEF User

(* The steps of the control thread.                                        *)
LEMMA NamesControl ==
  ASSUME TypeOK, Names, Control PROVE Names'
<1>1. CASE ResetWebSocketOperation
  <2>1. ListenMode'
    BY <1>1 DEF ResetWebSocketOperation, Names, ListenMode, linkVars, workerVars,
                userVars
  <2> QED
    BY <1>1, <2>1, NamesDropped
       DEF ResetWebSocketOperation, workerVars, userVars, Sending
<1>2. CASE UNCHANGED <<connVars, params, workerVars, pc, userVars, ghostVars>>
  <2>1. ListenMode'
    BY <1>2 DEF Names, ListenMode, connVars, linkVars, workerVars, userVars, ghostVars
  <2> QED
    BY <1>2, <2>1, NamesDropped
       DEF connVars, resultVars, workerVars, userVars, ghostVars, Sending
<1> QED
  BY <1>1, <1>2
     DEF Control, CancelWebSocketOperation, CancelNoWait, CancelSignalled,
         CancelTimeout, ClearWebSocketOperation

(* A callback can only push the result of a queued WRITE.                  *)
LEMMA NamesService ==
  ASSUME TypeOK, Names, Service PROVE Names'
<1>1. UNCHANGED opVars /\ LwsCallback /\ ctx BY DEF Service
<1>2. ListenMode'
  BY <1>1 DEF Names, ListenMode, opVars, workerVars, userVars, ghostVars
<1>3. CASE UNCHANGED <<writeOps, results>>
  BY <1>1, <1>2, <1>3, NamesDropped
     DEF opVars, workerVars, userVars, ghostVars, Sending
<1>4. ASSUME NEW w \in Wsi, NEW sts \in {"NO_ERROR", "WRITE_ERROR", "ETIMEDOUT"},
             WriteableDone(w, sts)
      PROVE  Names'
  <2>1. writeOps \in Seq(Ticket) /\ writeOps # <<>> /\ TypeOKResults
    BY <1>4 DEF WriteableDone, TypeOK, TypeOKConnection
  <2>2. Head(writeOps) \in Ticket BY <2>1, HeadTailProperties
  <2>3. programmed[Head(writeOps)] = "WRITE"
    BY <2>1, ElementsTail DEF Names, AnswersNamed
  <2> DEFINE r == [op |-> "WRITE", ticket |-> Head(writeOps), sts |-> sts]
  <2>4. r \in Result /\ Named(r) BY <2>2, <2>3 DEF Result, Operation, Status, Named
  <2>5. PushResult(r) BY <1>4 DEF WriteableDone
  <2> HIDE DEF r
  <2>6. \A q \in Elements(results') : q \in Elements(results) \/ Named(q)
    BY <2>1, <2>4, <2>5, PushedElements
  <2>7. Elements(writeOps') \subseteq Elements(writeOps)
    BY <1>4, <2>1, ElementsTail DEF WriteableDone
  <2>8. /\ UNCHANGED <<programmed, mTicket, params, cur, res>>
        /\ Sending' = Sending
    BY <1>1 DEF opVars, workerVars, userVars, ghostVars, Sending
  <2>9. Sending' => Named(res') BY <2>8 DEF Names, AnswersNamed
  <2> QED BY <1>2, <2>6, <2>7, <2>8, <2>9, NamesKept
<1> QED
  BY <1>1, <1>3, <1>4
     DEF LwsCallback, HttpBindProtocol, AddHeaders, Established, EstablishedFails,
         Closed, ClientEstablished, ClientEstablishedFails, ClientClosed,
         ClientConnectionError, WriteableIdle, WriteablePartial, Receive, resultVars

(* A command that is started gives its result its own name.                *)
LEMMA NamesStartCommand ==
  ASSUME TypeOK, Names, NEW op \in Operation, NEW sts \in Status,
         StartCommand(op, sts), UNCHANGED results,
         \A t \in Elements(writeOps') :
           t \in Elements(writeOps) \/ (op = "WRITE" /\ t = Head(params).ticket),
         \/ UNCHANGED <<listening, listenTicket>>
            /\ (NbMaxClient # 0 /\ ~listening => ~ctx' /\ sts # "NO_ERROR")
         \/ listening' /\ listenTicket' = Head(params).ticket /\ op = "LISTEN"
  PROVE  Names'
<1>1. /\ params \in Seq(Param) /\ params # <<>> /\ params' = Tail(params)
      /\ cur' = Head(params) /\ Head(params).op = op
      /\ res' = [op |-> op, ticket |-> Head(params).ticket, sts |-> sts]
      /\ UNCHANGED <<programmed, mTicket>>
  BY DEF StartCommand, TypeOK, TypeOKWorker, userVars
<1>2. /\ Head(params) \in Elements(params)
      /\ Elements(params') \subseteq Elements(params)
  BY <1>1, ElementsTail
<1>3. Head(params).ticket \in Ticket BY <1>1, TypeTakeParam DEF Param
<1>4. programmed[Head(params).ticket] = op
  BY <1>1, <1>2 DEF Names, CommandsNamed
<1>5. Named(res') BY <1>1, <1>3, <1>4 DEF Named
<1>6. ListenMode'
  <2>1. pc' = "pending" => ioPending' BY DEF StartCommand
  <2>2. user' = user BY DEF StartCommand, userVars
  <2>3. NbMaxClient # 0 /\ ~listening' => ~ctx' /\ ~ioPending'
    BY DEF StartCommand, Names, ListenMode
  <2>4. listening' => listenTicket' \in Ticket /\ programmed[listenTicket'] = "LISTEN"
    BY <1>3, <1>4 DEF Names, ListenMode
  <2> QED BY <1>1, <2>1, <2>2, <2>3, <2>4 DEF Names, ListenMode
<1> QED BY <1>1, <1>2, <1>4, <1>5, <1>6, NamesKept

LEMMA NamesStart ==
  ASSUME TypeOK, SessionNeedsContext, Names, Start PROVE Names'
<1>1. ListenMode BY DEF Names
<1>2. NbMaxClient # 0 /\ ~listening => ~ctx /\ pWebSocket = NoWsi
  BY <1>1 DEF ListenMode, SessionNeedsContext
<1>3. ASSUME NEW created \in BOOLEAN, StartListen(created) PROVE Names'
  <2> DEFINE opens == NbMaxClient # 0 /\ ~listening /\ ~ctx
             sts   == IF NbMaxClient = 0 THEN "WRONG_MODE"
                      ELSE IF ~opens THEN "INVALID_STATE"
                      ELSE IF ~created THEN "INIT" ELSE "NO_ERROR"
  <2>1. StartCommand("LISTEN", sts) BY <1>3 DEF StartListen
  <2>2. sts \in Status BY DEF Status
  <2>3. UNCHANGED <<results, writeOps>> BY <1>3 DEF StartListen, resultVars
  <2>4. \/ UNCHANGED <<listening, listenTicket>>
            /\ (NbMaxClient # 0 /\ ~listening => ~ctx' /\ sts # "NO_ERROR")
        \/ listening' /\ listenTicket' = Head(params).ticket
    BY <1>2, <1>3 DEF StartListen, ClientDisconnect
  <2> HIDE DEF sts
  <2> QED BY <2>1, <2>2, <2>3, <2>4, NamesStartCommand DEF Operation
<1>4. CASE StartConnectRefused
  <2> DEFINE sts == IF NbMaxClient # 0 THEN "WRONG_MODE" ELSE "INVALID_STATE"
  <2>1. StartCommand("CONNECT", sts) BY <1>4 DEF StartConnectRefused
  <2>2. sts \in Status /\ sts # "NO_ERROR" BY DEF Status
  <2> HIDE DEF sts
  <2> QED BY <1>2, <1>4, <2>1, <2>2, NamesStartCommand
          DEF StartConnectRefused, connVars, linkVars, resultVars, Operation
<1>5. CASE \E sts \in {"INIT", "ENOTCONN"} : StartConnectNoContext(sts)
  BY <1>5, NamesStartCommand DEF StartConnectNoContext, resultVars, Operation, Status
<1>6. ASSUME NEW w \in Wsi \cup {NoWsi}, StartConnect(w) PROVE Names'
  <2> DEFINE sts == IF w = NoWsi THEN "ENOTCONN" ELSE "NO_ERROR"
  <2>1. StartCommand("CONNECT", sts) BY <1>6 DEF StartConnect
  <2>2. sts \in Status BY DEF Status
  <2> HIDE DEF sts
  <2> QED BY <1>6, <2>1, <2>2, NamesStartCommand DEF StartConnect, resultVars, Operation
<1>7. CASE StartDisconnect
  <2> DEFINE closes == NbMaxClient = 0 /\ (connectDone \/ ctx)
             sts    == IF NbMaxClient # 0 THEN "WRONG_MODE"
                       ELSE IF ~closes THEN "INVALID_STATE" ELSE "NO_ERROR"
  <2>1. StartCommand("DISCONNECT", sts) BY <1>7 DEF StartDisconnect
  <2>2. sts \in Status /\ (NbMaxClient # 0 => sts # "NO_ERROR") BY DEF Status
  <2>3. NbMaxClient # 0 => ctx' = ctx BY <1>7 DEF StartDisconnect, linkVars
  <2> HIDE DEF sts
  <2> QED BY <1>2, <1>7, <2>1, <2>2, <2>3, NamesStartCommand
          DEF StartDisconnect, resultVars, Operation
<1>8. CASE StartExit
  BY <1>2, <1>8, NamesStartCommand
     DEF StartExit, connVars, linkVars, resultVars, Operation, Status
<1>9. ASSUME NEW valid \in BOOLEAN, StartRead(valid) PROVE Names'
  <2> DEFINE sts == IF ~CanTransfer THEN "ENOTCONN"
                    ELSE IF ~valid THEN "EINVAL" ELSE "NO_ERROR"
  <2>1. StartCommand("READ", sts) BY <1>9 DEF StartRead
  <2>2. sts \in Status /\ (pWebSocket = NoWsi => sts # "NO_ERROR")
    BY DEF Status, CanTransfer
  <2> HIDE DEF sts
  <2> QED BY <1>2, <1>9, <2>1, <2>2, NamesStartCommand
          DEF StartRead, connVars, linkVars, resultVars, Operation
<1>10. ASSUME NEW valid \in BOOLEAN, StartWriteRefused(valid) PROVE Names'
  <2> DEFINE sts == IF ~CanTransfer THEN "ENOTCONN"
                    ELSE IF ~valid THEN "EINVAL" ELSE "FULL"
  <2>1. StartCommand("WRITE", sts) BY <1>10 DEF StartWriteRefused
  <2>2. sts \in Status /\ sts # "NO_ERROR" BY DEF Status
  <2> HIDE DEF sts
  <2> QED BY <1>2, <1>10, <2>1, <2>2, NamesStartCommand
          DEF StartWriteRefused, connVars, linkVars, resultVars, Operation
<1>11. ASSUME NEW granted \in BOOLEAN, StartWrite(granted) PROVE Names'
  <2> DEFINE sts == IF granted THEN "NO_ERROR" ELSE "OPERATION_FAILED"
  <2>1. StartCommand("WRITE", sts) BY <1>11 DEF StartWrite
  <2>2. sts \in Status BY DEF Status
  <2>3. pWebSocket # NoWsi BY <1>11 DEF StartWrite, CanTransfer
  <2>4. /\ writeOps \in Seq(Ticket) /\ params # <<>> /\ params' = Tail(params)
        /\ writeOps' = Append(writeOps, Head(params).ticket)
    BY <1>11 DEF StartWrite, StartCommand, TypeOK, TypeOKConnection
  <2>5. Head(params).ticket \in Ticket BY <2>4, TypeTakeParam DEF Param
  <2>6. Elements(writeOps') = Elements(writeOps) \cup {Head(params).ticket}
    BY <2>4, <2>5, ElementsAppend
  <2> HIDE DEF sts
  <2> QED BY <1>2, <1>11, <2>1, <2>2, <2>3, <2>6, NamesStartCommand
          DEF StartWrite, resultVars, Operation
<1> QED
  BY <1>3, <1>4, <1>5, <1>6, <1>7, <1>8, <1>9, <1>10, <1>11 DEF Start

(* A poll changes the status of the result in flight, or makes the one of  *)
(* a client that has arrived.                                              *)
LEMMA NamesPoll ==
  ASSUME TypeOK, Names, NEW op, NEW late, NEW r, NEW send, NEW stays,
         Poll(op, late, r, send, stays), Named(r), ctx' = ctx \/ ctx' = FALSE,
         [r EXCEPT !.sts = "ETIMEDOUT"].op = r.op,
         [r EXCEPT !.sts = "ETIMEDOUT"].ticket = r.ticket,
         stays => ioPending
  PROVE  Names'
<1>1. Named(res') BY DEF Poll, Named
<1>2. ListenMode'
  BY DEF Poll, Names, ListenMode, TypeOK, TypeOKConnection, userVars, ghostVars
<1>3. UNCHANGED <<programmed, mTicket, params, cur, writeOps, results>>
  BY DEF Poll, resultVars, userVars, ghostVars
<1> QED BY <1>1, <1>2, <1>3, NamesKept

LEMMA NamesPending ==
  ASSUME TypeOK, Names, Pending PROVE Names'
<1>1. pc = "pending" /\ ioPending
  BY DEF Pending, PollListen, PollConnect, PollDisconnect, PollRead, PollWrite,
         PollOther, Poll, Names, ListenMode
<1>2. Named(res) /\ res \in Result
  BY <1>1 DEF Names, AnswersNamed, Sending, TypeOK, TypeOKWorker
<1>3. \A s : /\ [res EXCEPT !.sts = s].op = res.op
             /\ [res EXCEPT !.sts = s].ticket = res.ticket
             /\ Named([res EXCEPT !.sts = s])
             /\ [[res EXCEPT !.sts = s] EXCEPT !.sts = "ETIMEDOUT"].op = res.op
             /\ [[res EXCEPT !.sts = s] EXCEPT !.sts = "ETIMEDOUT"].ticket = res.ticket
  BY <1>2 DEF Result, Named
<1>4. CASE PollListen
  <2>1. ctx' = ctx BY <1>4 DEF PollListen
  <2>2. cur.op = "LISTEN" BY <1>4 DEF PollListen, Poll
  <2>3. listening
    <3>1. cur \in Param BY <2>2 DEF NoOp, TypeOK, TypeOKWorker
    <3>2. programmed[cur.ticket] = "LISTEN" /\ cur.ticket \in Ticket
      BY <2>2, <3>1 DEF Names, CommandsNamed, NoOp, Param
    <3> QED BY <1>1, <3>2 DEF Names, ListenMode
  <2> DEFINE r == [op |-> "CONNECT", ticket |-> listenTicket, sts |-> "NO_ERROR"]
  <2>4. /\ Named(r)
        /\ [r EXCEPT !.sts = "ETIMEDOUT"].op = r.op
        /\ [r EXCEPT !.sts = "ETIMEDOUT"].ticket = r.ticket
    BY <2>3 DEF Names, ListenMode, Named
  <2>5. CASE connectDone
    <3>1. Poll("LISTEN", FALSE, r, TRUE, TRUE) BY <1>4, <2>5 DEF PollListen
    <3> HIDE DEF r
    <3> QED BY <1>1, <2>1, <2>4, <3>1, NamesPoll
  <2>6. CASE ~connectDone
    <3>1. Poll("LISTEN", overdue, res, FALSE, TRUE) BY <1>4, <2>6 DEF PollListen
    <3> QED BY <1>1, <1>2, <1>3, <2>1, <3>1, NamesPoll
  <2> QED BY <2>5, <2>6
<1>5. CASE PollConnect
  <2>1. ctx' = ctx \/ ctx' = FALSE BY <1>5 DEF PollConnect, ClientDisconnect, linkVars
  <2>2. CASE connectDone
    <3>1. Poll("CONNECT", overdue, [res EXCEPT !.sts = "NO_ERROR"], connectDone, ~connectDone)
      BY <1>5, <2>2 DEF PollConnect
    <3> QED BY <1>1, <1>3, <2>1, <3>1, NamesPoll
  <2>3. CASE ~connectDone
    <3>1. Poll("CONNECT", overdue, res, connectDone, ~connectDone)
      BY <1>5, <2>3 DEF PollConnect
    <3> QED BY <1>1, <1>2, <1>3, <2>1, <3>1, NamesPoll
  <2> QED BY <2>2, <2>3
<1>6. CASE PollDisconnect
  <2>1. ctx' = ctx /\ Poll("DISCONNECT", overdue, res, TRUE, FALSE)
    BY <1>6 DEF PollDisconnect, linkVars
  <2> QED BY <1>1, <1>2, <1>3, <2>1, NamesPoll
<1>7. CASE PollRead
  <2> DEFINE s == IF rx > 0 THEN "NO_ERROR" ELSE "PENDING"
             send == rx > 0
             stays == rx = 0
  <2>1. ctx' = ctx /\ Poll("READ", overdue, [res EXCEPT !.sts = s], send, stays)
    BY <1>7 DEF PollRead
  <2> HIDE DEF s, send, stays
  <2> QED BY <1>1, <1>3, <2>1, NamesPoll
<1>8. CASE PollWrite
  <2>1. ctx' = ctx /\ Poll("WRITE", overdue, [res EXCEPT !.sts = "NO_ERROR"], FALSE, FALSE)
    BY <1>8 DEF PollWrite, linkVars
  <2> QED BY <1>1, <1>3, <2>1, NamesPoll
<1>9. CASE PollOther
  <2>1. ctx' = ctx BY <1>9 DEF PollOther, linkVars
  <2>2. PICK op \in {"EXIT", "MAX"} :
          Poll(op, overdue, [res EXCEPT !.sts = "BAD_ID"], FALSE, FALSE)
    BY <1>9 DEF PollOther
  <2> QED BY <1>1, <1>3, <2>1, <2>2, NamesPoll
<1> QED BY <1>4, <1>5, <1>6, <1>7, <1>8, <1>9 DEF Pending

(* The other steps of a turn.  Only Send pushes, the result in flight.     *)
LEMMA NamesTurn ==
  ASSUME TypeOK, Names,
         \/ ServiceReturn \/ PopNone \/ PopOverCommand
         \/ NoCancel \/ CancelTake \/ CancelFlush \/ CancelSignal
         \/ Send \/ Loop \/ LoopNoContext \/ Exit \/ TimePasses
  PROVE  Names'
<1>0. ListenMode BY DEF Names
<1>1. CASE \/ ServiceReturn \/ PopNone \/ NoCancel \/ CancelSignal \/ Loop \/ TimePasses
  <2>1. ListenMode'
    BY <1>0, <1>1
       DEF ServiceReturn, PopNone, NoCancel, CancelSignal, Loop, TimePasses, ListenMode,
           connVars, linkVars, workerVars, userVars, ghostVars
  <2>2. /\ UNCHANGED <<programmed, mTicket, params, cur, writeOps, results, res>>
        /\ Sending' => Sending
    BY <1>1
       DEF ServiceReturn, PopNone, NoCancel, CancelSignal, Loop, TimePasses, Sending,
           connVars, resultVars, workerVars, userVars, ghostVars
  <2> QED BY <2>1, <2>2, NamesDropped
<1>2. CASE CancelTake
  <2>1. ListenMode'
    BY <1>0, <1>2 DEF CancelTake, ListenMode, connVars, linkVars, workerVars, userVars
  <2> QED
    BY <1>2, <2>1, NamesDropped
       DEF CancelTake, Sending, connVars, resultVars, workerVars, userVars
<1>3. CASE CancelFlush
  <2>1. ListenMode' BY <1>0, <1>3 DEF CancelFlush, ListenMode, userVars, ghostVars
  <2> QED BY <1>3, <2>1, NamesDropped DEF CancelFlush, Sending, userVars, ghostVars
<1>4. CASE LoopNoContext
  <2>1. ListenMode'
    BY <1>0, <1>4 DEF LoopNoContext, ListenMode, connVars, linkVars, userVars, ghostVars
  <2> QED
    BY <1>4, <2>1, NamesDropped
       DEF LoopNoContext, Sending, connVars, resultVars, userVars, ghostVars
<1>5. CASE Exit
  <2>1. ListenMode'
    BY <1>0, <1>5 DEF Exit, ClientDisconnect, ListenMode, workerVars, userVars, ghostVars
  <2> QED
    BY <1>5, <2>1, NamesDropped
       DEF Exit, Sending, resultVars, workerVars, userVars, ghostVars
<1>6. CASE PopOverCommand
  <2>1. ListenMode'
    BY <1>0, <1>6
       DEF PopOverCommand, ListenMode, connVars, linkVars, userVars, ghostVars
  <2>2. /\ params \in Seq(Param) /\ params # <<>>
        /\ params' = Tail(params) /\ cur' = Head(params)
        /\ UNCHANGED <<programmed, mTicket, writeOps, results, res>>
        /\ Sending' => Sending
    BY <1>6
       DEF PopOverCommand, TypeOK, TypeOKWorker, Sending, connVars, resultVars,
           userVars, ghostVars
  <2>3. Head(params) \in Elements(params) /\ Elements(params') \subseteq Elements(params)
    BY <2>2, ElementsTail
  <2>4. Sending' => Named(res') BY <2>2 DEF Names, AnswersNamed
  <2> QED BY <2>1, <2>2, <2>3, <2>4, NamesKept
<1>7. CASE Send
  <2>1. ListenMode'
    BY <1>0, <1>7 DEF Send, ListenMode, linkVars, userVars, ghostVars
  <2>2. Named(res) BY <1>7 DEF Send, Sending, Names, AnswersNamed
  <2>3. res \in Result /\ TypeOKResults BY DEF TypeOK, TypeOKWorker, TypeOKConnection
  <2>4. \A r \in Elements(results') : r \in Elements(results) \/ Named(r)
    BY <1>7, <2>2, <2>3, PushedElements DEF Send
  <2>5. UNCHANGED <<programmed, mTicket, params, cur, writeOps, res>>
    BY <1>7 DEF Send, userVars, ghostVars
  <2>6. Named(res') BY <2>2, <2>5
  <2> QED BY <2>1, <2>4, <2>5, <2>6, NamesKept
<1> QED BY <1>1, <1>2, <1>3, <1>4, <1>5, <1>6, <1>7

LEMMA NamesStep ==
  ASSUME TypeOK, SessionNeedsContext, Names, [Next]_vars
  PROVE  Names'
<1>1. CASE Next
  BY <1>1, NamesUser, NamesControl, NamesService, NamesStart, NamesPending, NamesTurn
     DEF Next, Worker
<1>2. CASE UNCHANGED vars
  <2>1. ListenMode'
    BY <1>2 DEF Names, ListenMode, vars, opVars, connVars, linkVars, workerVars,
                userVars, ghostVars
  <2> QED
    BY <1>2, <2>1, NamesDropped
       DEF vars, opVars, connVars, resultVars, workerVars, userVars, ghostVars, Sending
<1> QED BY <1>1, <1>2

LEMMA NamesCorrect == Spec => []Names
<1>1. TypeOK /\ SessionNeedsContext /\ Names /\ [Next]_vars => Names'
  BY NamesStep
<1> QED BY NamesInit, <1>1, TypeCorrect, SessionCorrect, PTL DEF Spec

(* Every result in the queue of results names the operation that was       *)
(* accepted under its ticket, or a client that has arrived at a server,    *)
(* whatever command V_OnProcessing has taken over it, and whatever was     *)
(* cancelled, lost or timed out.                                           *)
THEOREM AnswersCorrect == Spec => []AnswerNamesItsOperation
<1>1. TypeOK /\ Names => AnswerNamesItsOperation
  BY DEF Names, AnswersNamed, Elements, Named, AnswerNamesItsOperation
<1> QED BY <1>1, TypeCorrect, NamesCorrect, PTL

-----------------------------------------------------------------------------
(* At most one answer.                                                     *)

CommandTickets == {p.ticket : p \in Elements(params)}

(* The tickets that get one answer.                                        *)
Single == {t \in Ticket : programmed[t] # "LISTEN" /\ t \notin failedWrites}

(* The next result of V_OnProcessing will carry t.                         *)
InAnswer(t) == Sending /\ res.ticket = t

TicketsDiffer ==
  /\ \A i, j \in DOMAIN params : params[i].ticket = params[j].ticket => i = j
  /\ \A i, j \in DOMAIN writeOps : writeOps[i] = writeOps[j] => i = j

(* A command in the queue has left no trace yet.                           *)
NotStarted ==
  \A t \in CommandTickets :
    /\ answers[t] = 0
    /\ t \notin Elements(writeOps)
    /\ ~InAnswer(t)
    /\ ~(listening /\ listenTicket = t)

(* The result of a queued write is made by the writeable callback: the     *)
(* poll that follows its start withdraws the one of V_OnProcessing.        *)
NotWritten ==
  \A t \in Elements(writeOps) : t \in Single =>
    /\ answers[t] = 0
    /\ InAnswer(t) => pc = "pending" /\ cur.op = "WRITE"

NotAnswered ==
  /\ \A t \in Ticket : answers[t] > 0 => programmed[t] # "none"
  /\ \A t \in Single : answers[t] <= 1 /\ (InAnswer(t) => answers[t] = 0)

(* SendResult_B is false outside the part of the turn that sets and reads  *)
(* it, and when it is true there, nothing but LISTEN stays in flight.      *)
TurnFlags ==
  /\ pc \in {"idle", "service", "pop", "signal", "loop", "stopped"} => ~sendResult
  /\ pc = "send" => sendResult
  /\ pc \in {"cancel", "send"} /\ sendResult /\ ioPending => programmed[res.ticket] = "LISTEN"

Once == TicketsDiffer /\ NotStarted /\ NotWritten /\ NotAnswered /\ TurnFlags

LEMMA OnceInit == Init => Once
BY ElementsEmpty
   DEF Init, InitConnection, Once, TicketsDiffer, NotStarted, NotWritten,
       NotAnswered, TurnFlags, CommandTickets, Single, InAnswer, Sending

(* A step that answers and starts nothing.                                 *)
LEMMA OnceDropped ==
  ASSUME Once, UNCHANGED <<programmed, answers, failedWrites, listening, listenTicket>>,
         params' \in {params, <<>>}, writeOps' \in {writeOps, <<>>},
         Sending' => /\ Sending /\ res' = res
                     /\ pc = "pending" => pc' = pc /\ cur' = cur,
         TurnFlags'
  PROVE  Once'
<1>1. TicketsDiffer' BY DEF Once, TicketsDiffer
<1>2. /\ Elements(params') \subseteq Elements(params)
      /\ Elements(writeOps') \subseteq Elements(writeOps)
  BY ElementsEmpty
<1>3. Single' = Single BY DEF Single
<1>4. \A t : InAnswer(t)' => InAnswer(t) BY DEF InAnswer
<1>5. NotStarted' BY <1>2, <1>4 DEF Once, NotStarted, CommandTickets
<1>6. NotWritten' BY <1>2, <1>3, <1>4 DEF Once, NotWritten, InAnswer
<1>7. NotAnswered' BY <1>3, <1>4 DEF Once, NotAnswered
<1> QED BY <1>1, <1>5, <1>6, <1>7 DEF Once

LEMMA AppendDiffers ==
  ASSUME NEW S, NEW s \in Seq(S), NEW e \in S, e \notin Elements(s),
         \A i, j \in DOMAIN s : s[i] = s[j] => i = j
  PROVE  \A i, j \in DOMAIN Append(s, e) : Append(s, e)[i] = Append(s, e)[j] => i = j
<1>1. /\ Len(s) \in Nat /\ DOMAIN s = 1 .. Len(s)
      /\ DOMAIN Append(s, e) = 1 .. Len(s) + 1
      /\ \A i \in 1 .. Len(s) : Append(s, e)[i] = s[i]
      /\ Append(s, e)[Len(s) + 1] = e
  BY AppendProperties, LenProperties
<1> QED BY <1>1 DEF Elements

(* The head of a queue without repetitions is not in its tail.             *)
LEMMA TailDiffers ==
  ASSUME NEW S, NEW s \in Seq(S), s # <<>>,
         \A i, j \in DOMAIN s : s[i] = s[j] => i = j
  PROVE  /\ \A i, j \in DOMAIN Tail(s) : Tail(s)[i] = Tail(s)[j] => i = j
         /\ Head(s) \notin Elements(Tail(s))
<1>1. /\ Len(s) \in Nat \ {0} /\ DOMAIN s = 1 .. Len(s) /\ Head(s) = s[1]
      /\ DOMAIN Tail(s) = 1 .. Len(s) - 1
      /\ \A i \in 1 .. Len(s) - 1 : Tail(s)[i] = s[i + 1]
  BY HeadTailProperties, LenProperties, EmptySeq
<1> QED BY <1>1 DEF Elements

(* The same of the tickets of the operation queue.                         *)
LEMMA TakenDiffers ==
  ASSUME params \in Seq(Param), params # <<>>, params' = Tail(params), TicketsDiffer
  PROVE  /\ \A i, j \in DOMAIN params' : params'[i].ticket = params'[j].ticket => i = j
         /\ Head(params).ticket \in CommandTickets
         /\ CommandTickets' \subseteq CommandTickets \ {Head(params).ticket}
<1>1. /\ Len(params) \in Nat \ {0} /\ DOMAIN params = 1 .. Len(params)
      /\ Head(params) = params[1]
      /\ DOMAIN params' = 1 .. Len(params) - 1
      /\ \A i \in 1 .. Len(params) - 1 : params'[i] = params[i + 1]
  BY HeadTailProperties, LenProperties, EmptySeq
<1> QED BY <1>1 DEF TicketsDiffer, CommandTickets, Elements

(* A new ticket is in no queue, not in flight and not answered.            *)
LEMMA OncePushParam ==
  ASSUME TypeOK, Names, Once, NEW op \in Operation, NEW kind, NEW full,
         PushParam(op, kind, full)
  PROVE  Once'
<1>1. /\ mTicket \in Ticket /\ programmed[mTicket] = "none"
  BY ConnectionAssumption
     DEF PushParam, TypeOK, TypeOKThreads, Names, TicketsDrawn, Ticket
<1>2. UNCHANGED <<writeOps, answers, failedWrites, listening, listenTicket, res,
                  ioPending, sendResult, pc, cur>>
  BY DEF PushParam, connVars, resultVars, workerVars
<1>3. CASE params' = params /\ programmed' = programmed
  <2>1. TurnFlags' BY <1>2, <1>3 DEF Once, TurnFlags, Single
  <2> QED BY <1>2, <1>3, <2>1, OnceDropped DEF Sending
<1>4. CASE /\ params' = Append(params, [op |-> op, ticket |-> mTicket])
           /\ programmed' = [programmed EXCEPT ![mTicket] = op]
  <2> DEFINE e == [op |-> op, ticket |-> mTicket]
  <2>1. params \in Seq(Param) /\ e \in Param
    BY <1>1 DEF TypeOK, TypeOKWorker, Param
  <2>2. /\ Len(params) \in Nat /\ DOMAIN params = 1 .. Len(params)
        /\ DOMAIN params' = 1 .. Len(params) + 1
        /\ \A i \in 1 .. Len(params) : params'[i] = params[i]
        /\ params'[Len(params) + 1] = e
    BY <1>4, <2>1, AppendProperties, LenProperties
  <2>3. Elements(params') = Elements(params) \cup {e}
    BY <1>4, <2>1, ElementsAppend
  <2>4. CommandTickets' = CommandTickets \cup {mTicket}
    <3>1. e.ticket = mTicket OBVIOUS
    <3> HIDE DEF e
    <3> QED BY <2>3, <3>1 DEF CommandTickets
  <2>5. mTicket \notin CommandTickets
    <3>1. \A p \in Elements(params) : p \in Param /\ programmed[p.ticket] = p.op
      BY <2>1, ElementsType DEF Names, CommandsNamed
    <3> QED BY <1>1, <3>1 DEF CommandTickets, Param, Operation
  <2>6. /\ answers[mTicket] = 0 /\ mTicket \notin Elements(writeOps)
        /\ ~InAnswer(mTicket) /\ ~(listening /\ listenTicket = mTicket)
    <3>1. answers[mTicket] = 0
      BY <1>1 DEF Once, NotAnswered, TypeOK, TypeOKConnection, TypeOKResults
    <3>2. mTicket \notin Elements(writeOps) BY <1>1 DEF Names, AnswersNamed
    <3>3. ~InAnswer(mTicket)
      BY <1>1 DEF Names, AnswersNamed, InAnswer, Named, TypeOK, TypeOKWorker, Result, Operation
    <3>4. ~(listening /\ listenTicket = mTicket) BY <1>1 DEF Names, ListenMode
    <3> QED BY <3>1, <3>2, <3>3, <3>4
  <2>7. \A t : InAnswer(t)' <=> InAnswer(t) BY <1>2 DEF InAnswer, Sending
  <2>8. Single' \subseteq Single /\ Single \subseteq Single' \cup {mTicket}
    BY <1>1, <1>2, <1>4 DEF Single, TypeOK, TypeOKThreads
  <2>9. TicketsDiffer'
    BY <1>2, <2>2, <2>5 DEF Once, TicketsDiffer, CommandTickets, Elements
  <2>10. NotStarted' BY <1>2, <2>4, <2>6, <2>7 DEF Once, NotStarted
  <2>11. NotWritten' BY <1>2, <2>7, <2>8 DEF Once, NotWritten
  <2>12. NotAnswered'
    <3>1. \A t \in Ticket : programmed[t] # "none" => programmed'[t] # "none"
      BY <1>1, <1>4 DEF TypeOK, TypeOKThreads
    <3> QED BY <1>2, <2>7, <2>8, <3>1 DEF Once, NotAnswered
  <2>13. TurnFlags'
    <3>1. programmed[res.ticket] = "LISTEN" => programmed'[res.ticket] = "LISTEN"
      BY <1>1, <1>4 DEF TypeOK, TypeOKThreads, TypeOKWorker, Result
    <3> QED BY <1>2, <3>1 DEF Once, TurnFlags
  <2> QED BY <2>9, <2>10, <2>11, <2>12, <2>13 DEF Once
<1> QED BY <1>3, <1>4 DEF PushParam

LEMMA OnceUser ==
  ASSUME TypeOK, Names, Once, User PROVE Once'
<1>1. CASE \E op, kind, full : op \in Operation /\ PushParam(op, kind, full)
  BY <1>1, OncePushParam
<1>2. CASE Run
  <2>1. TurnFlags' BY <1>2 DEF Run, Once, TurnFlags, Single, workerVars, ghostVars
  <2> QED
    BY <1>2, <2>1, OnceDropped
       DEF Run, Sending, connVars, resultVars, workerVars, ghostVars
<1>3. CASE UNCHANGED <<params, writeOps, answers, workerVars, pc, ghostVars>>
  <2>1. TurnFlags' BY <1>3 DEF Once, TurnFlags, Single, workerVars, ghostVars
  <2> QED BY <1>3, <2>1, OnceDropped DEF Sending, workerVars, ghostVars
<1> QED
  BY <1>1, <1>2, <1>3, OperationAssumption
     DEF User, RunListen, Program, Stop, MarkPending, GetResult, SyncGetResult,
         SyncTimeout, StopThread, StopJoin, connVars, resultVars, opVars, Operation

LEMMA OnceControl ==
  ASSUME Once, Control PROVE Once'
<1>1. /\ UNCHANGED <<writeOps, answers, workerVars, pc, programmed, failedWrites>>
      /\ params' \in {params, <<>>}
  BY DEF Control, CancelWebSocketOperation, CancelNoWait, CancelSignalled,
         CancelTimeout, ClearWebSocketOperation, ResetWebSocketOperation,
         connVars, resultVars, ghostVars
<1>2. TurnFlags' BY <1>1 DEF Once, TurnFlags, Single, workerVars
<1> QED BY <1>1, <1>2, OnceDropped DEF Sending, workerVars

(* A result that is pushed counts for its ticket only.                     *)
LEMMA PushedAnswers ==
  ASSUME TypeOKResults, NEW r \in Result, PushResult(r)
  PROVE  /\ \A t \in Ticket : t # r.ticket => answers'[t] = answers[t]
         /\ r.ticket \in Ticket /\ answers[r.ticket] = 0 => answers'[r.ticket] <= 1
<1>1. CASE UNCHANGED answers BY <1>1 DEF TypeOKResults
<1>2. CASE answers' = [t \in Ticket |-> IF t = r.ticket /\ answers[t] < 2
                                          THEN answers[t] + 1 ELSE answers[t]]
  BY <1>2 DEF TypeOKResults
<1> QED BY <1>1, <1>2 DEF PushResult, resultVars

(* The writeable callback answers the WRITE at the head of its queue,      *)
(* which nobody has answered and V_OnProcessing will not answer.           *)
LEMMA OnceService ==
  ASSUME TypeOK, Names, Once, Service PROVE Once'
<1>1. UNCHANGED opVars /\ LwsCallback /\ pc = "service" BY DEF Service
<1>2. TurnFlags' BY <1>1 DEF Once, TurnFlags, Single, opVars, workerVars, ghostVars
<1>3. CASE UNCHANGED <<writeOps, answers>>
  BY <1>1, <1>2, <1>3, OnceDropped DEF Sending, opVars, workerVars, ghostVars
<1>4. ASSUME NEW w \in Wsi, NEW sts \in {"NO_ERROR", "WRITE_ERROR", "ETIMEDOUT"},
             WriteableDone(w, sts)
      PROVE  Once'
  <2> DEFINE h == Head(writeOps)
  <2>1. writeOps \in Seq(Ticket) /\ writeOps # <<>> /\ TypeOKResults
        /\ writeOps' = Tail(writeOps)
    BY <1>4 DEF WriteableDone, TypeOK, TypeOKConnection
  <2>2. h \in Ticket /\ h \in Elements(writeOps) BY <2>1, HeadTailProperties, ElementsTail
  <2>3. /\ \A t \in Ticket : t # h => answers'[t] = answers[t]
        /\ answers[h] = 0 => answers'[h] <= 1
    <3> DEFINE r == [op |-> "WRITE", ticket |-> h, sts |-> sts]
    <3>1. r \in Result /\ r.ticket = h BY <2>2 DEF Result, Operation, Status
    <3>2. PushResult(r) BY <1>4 DEF WriteableDone
    <3> HIDE DEF r, h
    <3> QED BY <2>1, <2>2, <3>1, <3>2, PushedAnswers
  <2>4. /\ \A i, j \in DOMAIN writeOps' : writeOps'[i] = writeOps'[j] => i = j
        /\ h \notin Elements(writeOps')
        /\ Elements(writeOps') \subseteq Elements(writeOps)
    BY <2>1, TailDiffers, ElementsTail DEF Once, TicketsDiffer
  <2>5. /\ UNCHANGED <<params, programmed, failedWrites, listening, listenTicket, pc, cur>>
        /\ \A t : InAnswer(t)' <=> InAnswer(t)
    BY <1>1 DEF opVars, workerVars, ghostVars, InAnswer, Sending
  <2>6. Single' = Single /\ CommandTickets' = CommandTickets
    BY <2>5 DEF Single, CommandTickets
  <2>7. programmed[h] = "WRITE" BY <2>2 DEF Names, AnswersNamed
  <2>8. h \notin CommandTickets BY <2>2 DEF Once, NotStarted
  <2> HIDE DEF h
  <2>9. CommandTickets \subseteq Ticket /\ Elements(writeOps) \subseteq Ticket
    <3>1. params \in Seq(Param) BY DEF TypeOK, TypeOKWorker
    <3> QED BY <2>1, <3>1, ElementsType DEF CommandTickets, Param
  <2>10. TicketsDiffer' BY <2>4, <2>5 DEF Once, TicketsDiffer
  <2>11. NotStarted' BY <2>3, <2>4, <2>5, <2>6, <2>8, <2>9 DEF Once, NotStarted
  <2>12. NotWritten' BY <2>3, <2>4, <2>5, <2>6, <2>9 DEF Once, NotWritten
  <2>13. NotAnswered'
    <3>1. h \in Single => answers[h] = 0 /\ ~InAnswer(h)
      BY <1>1, <2>2 DEF Once, NotWritten
    <3> QED BY <2>2, <2>3, <2>5, <2>6, <2>7, <3>1 DEF Once, NotAnswered, Single
  <2> QED BY <1>2, <2>10, <2>11, <2>12, <2>13 DEF Once
<1> QED
  BY <1>1, <1>3, <1>4
     DEF LwsCallback, HttpBindProtocol, AddHeaders, Established, EstablishedFails,
         Closed, ClientEstablished, ClientEstablishedFails, ClientClosed,
         ClientConnectionError, WriteableIdle, WriteablePartial, Receive, resultVars

(* The command that is started leaves the queue and is in flight, and in   *)
(* the queue of writes if it is a WRITE that was accepted.                 *)
LEMMA OnceStartCommand ==
  ASSUME TypeOK, Names, Once, NEW op, NEW sts, StartCommand(op, sts),
         UNCHANGED answers,
         \/ UNCHANGED <<writeOps, failedWrites>>
         \/ /\ op = "WRITE"
            /\ writeOps' = Append(writeOps, Head(params).ticket)
            /\ \/ sts = "NO_ERROR" /\ failedWrites' = failedWrites
               \/ failedWrites' = failedWrites \cup {Head(params).ticket},
         \/ UNCHANGED <<listening, listenTicket>>
         \/ listenTicket' = Head(params).ticket
  PROVE  Once'
<1> DEFINE h == Head(params).ticket
<1>1. /\ params \in Seq(Param) /\ params # <<>> /\ params' = Tail(params)
      /\ writeOps \in Seq(Ticket)
  BY DEF StartCommand, TypeOK, TypeOKWorker, TypeOKConnection
<1>2. /\ \A i, j \in DOMAIN params' : params'[i].ticket = params'[j].ticket => i = j
      /\ h \in CommandTickets
      /\ CommandTickets' \subseteq CommandTickets \ {h}
  BY <1>1, TakenDiffers DEF Once
<1>3. h \in Ticket BY <1>1, TypeTakeParam DEF Param
<1>4. answers[h] = 0 /\ h \notin Elements(writeOps) /\ ~InAnswer(h)
  BY <1>2 DEF Once, NotStarted
<1>5. /\ programmed' = programmed /\ cur'.op = op /\ sendResult'
      /\ res'.ticket = h /\ pc' = IF ioPending' THEN "pending" ELSE "cancel"
      /\ sts = "NO_ERROR" => ioPending'
  BY DEF StartCommand
<1>6. /\ Elements(writeOps') \subseteq Elements(writeOps) \cup {h}
      /\ \A i, j \in DOMAIN writeOps' : writeOps'[i] = writeOps'[j] => i = j
      /\ h \in Elements(writeOps') /\ h \notin failedWrites'
           => op = "WRITE" /\ pc' = "pending"
  <2>1. CASE UNCHANGED <<writeOps, failedWrites>>
    BY <1>4, <2>1 DEF Once, TicketsDiffer
  <2>2. CASE /\ op = "WRITE" /\ writeOps' = Append(writeOps, h)
             /\ \/ sts = "NO_ERROR" /\ failedWrites' = failedWrites
                \/ failedWrites' = failedWrites \cup {h}
    <3>1. Elements(writeOps') = Elements(writeOps) \cup {h}
      BY <1>1, <1>3, <2>2, ElementsAppend
    <3>2. \A i, j \in DOMAIN writeOps : writeOps[i] = writeOps[j] => i = j
      BY DEF Once, TicketsDiffer
    <3>3. writeOps' = Append(writeOps, h) BY <2>2
    <3>4. \A i, j \in DOMAIN writeOps' : writeOps'[i] = writeOps'[j] => i = j
      <4> HIDE DEF h
      <4>1. \A i, j \in DOMAIN Append(writeOps, h) :
              Append(writeOps, h)[i] = Append(writeOps, h)[j] => i = j
        BY <1>1, <1>3, <1>4, <3>2, AppendDiffers
      <4> QED BY <3>3, <4>1
    <3> QED BY <1>5, <2>2, <3>1, <3>4
  <2> QED BY <2>1, <2>2
<1>7. failedWrites \subseteq failedWrites' OBVIOUS
<1>8. \/ UNCHANGED <<listening, listenTicket>>
      \/ listenTicket' = h
  OBVIOUS
<1> HIDE DEF h
<1>9. Single' \subseteq Single BY <1>5, <1>7 DEF Single
<1>10. \A t : InAnswer(t)' => t = h BY <1>5 DEF InAnswer
<1>11. TicketsDiffer' BY <1>2, <1>6 DEF TicketsDiffer
<1>12. NotStarted'
  BY <1>2, <1>6, <1>8, <1>10 DEF Once, NotStarted
<1>13. NotWritten'
  <2>1. \A t \in Single' : t \notin failedWrites' BY DEF Single
  <2> QED BY <1>4, <1>5, <1>6, <1>9, <1>10, <2>1 DEF Once, NotWritten
<1>14. NotAnswered'
  BY <1>4, <1>5, <1>9, <1>10 DEF Once, NotAnswered
<1>15. TurnFlags' BY <1>5 DEF TurnFlags
<1> QED BY <1>11, <1>12, <1>13, <1>14, <1>15 DEF Once

LEMMA OnceStart ==
  ASSUME TypeOK, Names, Once, Start PROVE Once'
<1>1. ASSUME NEW created \in BOOLEAN, StartListen(created) PROVE Once'
  <2>1. PICK sts : StartCommand("LISTEN", sts) BY <1>1 DEF StartListen
  <2>2. /\ UNCHANGED <<answers, writeOps, failedWrites>>
        /\ \/ UNCHANGED <<listening, listenTicket>>
           \/ listenTicket' = Head(params).ticket
    BY <1>1 DEF StartListen, resultVars
  <2> QED BY <2>1, <2>2, OnceStartCommand
<1>2. ASSUME NEW granted \in BOOLEAN, StartWrite(granted) PROVE Once'
  <2> DEFINE sts == IF granted THEN "NO_ERROR" ELSE "OPERATION_FAILED"
  <2>1. StartCommand("WRITE", sts) BY <1>2 DEF StartWrite
  <2>2. /\ UNCHANGED <<answers, listening, listenTicket>>
        /\ writeOps' = Append(writeOps, Head(params).ticket)
        /\ \/ sts = "NO_ERROR" /\ failedWrites' = failedWrites
           \/ failedWrites' = failedWrites \cup {Head(params).ticket}
    BY <1>2 DEF StartWrite, resultVars
  <2> HIDE DEF sts
  <2> QED BY <2>1, <2>2, OnceStartCommand
<1>3. ASSUME NEW op, NEW sts, StartCommand(op, sts),
             UNCHANGED <<answers, writeOps, failedWrites, listening, listenTicket>>
      PROVE  Once'
  BY <1>3, OnceStartCommand
<1> QED
  BY <1>1, <1>2, <1>3
     DEF Start, StartConnectRefused, StartConnectNoContext, StartConnect,
         StartDisconnect, StartExit, StartRead, StartWriteRefused, connVars, resultVars

(* A poll keeps at most the answer that was due, and withdraws the one of  *)
(* a WRITE.                                                                *)
LEMMA OncePoll ==
  ASSUME TypeOK, Names, Once, NEW op, NEW late, NEW r, NEW send, NEW stays,
         Poll(op, late, r, send, stays),
         [r EXCEPT !.sts = "ETIMEDOUT"].ticket = r.ticket,
         r.ticket \in {res.ticket, listenTicket}, r.ticket # res.ticket => listening,
         op = "WRITE" => ~send /\ ~stays,
         send /\ stays => listening /\ r.ticket = listenTicket
  PROVE  Once'
<1>1. /\ UNCHANGED <<params, writeOps, answers, cur, listening, listenTicket,
                     programmed, failedWrites>>
      /\ pc = "pending" /\ pc' = "cancel" /\ cur.op = op
      /\ res'.ticket = r.ticket
  BY DEF Poll, resultVars, ghostVars
<1>2. /\ Sending' => op # "WRITE"
      /\ sendResult' /\ ioPending' => listening /\ r.ticket = listenTicket
  BY DEF Poll, TimedOut, Sending
<1>3. ioPending /\ Sending BY <1>1 DEF Names, ListenMode, Sending
<1>4. listening => programmed[listenTicket] = "LISTEN" /\ listenTicket \notin Single
  BY DEF Names, ListenMode, Single
<1>5. Single' = Single /\ CommandTickets' = CommandTickets
  BY <1>1 DEF Single, CommandTickets
<1>6. \A t : InAnswer(t)' =>
               /\ InAnswer(t) \/ (listening /\ listenTicket = t)
               /\ cur.op # "WRITE"
  BY <1>1, <1>2, <1>3 DEF InAnswer
<1>7. TicketsDiffer' BY <1>1 DEF Once, TicketsDiffer
<1>8. NotStarted' BY <1>1, <1>5, <1>6 DEF Once, NotStarted
<1>9. NotWritten' BY <1>1, <1>4, <1>5, <1>6 DEF Once, NotWritten
<1>10. NotAnswered' BY <1>1, <1>4, <1>5, <1>6 DEF Once, NotAnswered
<1>11. TurnFlags' BY <1>1, <1>2, <1>4, <1>5 DEF TurnFlags
<1> QED BY <1>7, <1>8, <1>9, <1>10, <1>11 DEF Once

LEMMA OncePending ==
  ASSUME TypeOK, Names, Once, Pending PROVE Once'
<1>1. res \in Result BY DEF TypeOK, TypeOKWorker
<1>2. \A s : /\ [res EXCEPT !.sts = s].ticket = res.ticket
             /\ [[res EXCEPT !.sts = s] EXCEPT !.sts = "ETIMEDOUT"].ticket = res.ticket
  BY <1>1 DEF Result
<1>3. CASE PollListen
  <2>1. pc = "pending" /\ cur.op = "LISTEN" BY <1>3 DEF PollListen, Poll
  <2>2. listening
    <3>1. cur \in Param BY <2>1 DEF NoOp, TypeOK, TypeOKWorker
    <3>2. programmed[cur.ticket] = "LISTEN" /\ cur.ticket \in Ticket
      BY <2>1, <3>1 DEF Names, CommandsNamed, NoOp, Param
    <3> QED BY <2>1, <3>2 DEF Names, ListenMode
  <2> DEFINE r == [op |-> "CONNECT", ticket |-> listenTicket, sts |-> "NO_ERROR"]
  <2>3. r.ticket = listenTicket /\ [r EXCEPT !.sts = "ETIMEDOUT"].ticket = r.ticket
    OBVIOUS
  <2>4. CASE connectDone
    <3>1. Poll("LISTEN", FALSE, r, TRUE, TRUE) BY <1>3, <2>4 DEF PollListen
    <3> HIDE DEF r
    <3> QED BY <2>2, <2>3, <3>1, OncePoll
  <2>5. CASE ~connectDone
    <3>1. Poll("LISTEN", overdue, res, FALSE, TRUE) BY <1>3, <2>5 DEF PollListen
    <3> QED BY <1>2, <3>1, OncePoll
  <2> QED BY <2>4, <2>5
<1>4. CASE PollConnect
  <2>1. CASE connectDone
    <3>1. Poll("CONNECT", overdue, [res EXCEPT !.sts = "NO_ERROR"], connectDone, ~connectDone)
      BY <1>4, <2>1 DEF PollConnect
    <3> QED BY <1>2, <3>1, OncePoll
  <2>2. CASE ~connectDone
    <3>1. Poll("CONNECT", overdue, res, connectDone, ~connectDone)
      BY <1>4, <2>2 DEF PollConnect
    <3> QED BY <1>2, <3>1, OncePoll
  <2> QED BY <2>1, <2>2
<1>5. CASE PollDisconnect
  BY <1>2, <1>5, OncePoll DEF PollDisconnect
<1>6. CASE PollRead
  <2> DEFINE s == IF rx > 0 THEN "NO_ERROR" ELSE "PENDING"
             send == rx > 0
             stays == rx = 0
  <2>1. Poll("READ", overdue, [res EXCEPT !.sts = s], send, stays)
    BY <1>6 DEF PollRead
  <2>2. ~(send /\ stays) OBVIOUS
  <2> HIDE DEF s, send, stays
  <2> QED BY <1>2, <2>1, <2>2, OncePoll
<1>7. CASE PollWrite
  BY <1>2, <1>7, OncePoll DEF PollWrite
<1>8. CASE PollOther
  BY <1>2, <1>8, OncePoll DEF PollOther
<1> QED BY <1>3, <1>4, <1>5, <1>6, <1>7, <1>8 DEF Pending

(* The other steps of a turn: a command that is taken over another one is  *)
(* forgotten, and Send gives the answer that was due.                      *)
LEMMA OnceTurn ==
  ASSUME TypeOK, Names, Once,
         \/ ServiceReturn \/ PopNone \/ PopOverCommand
         \/ NoCancel \/ CancelTake \/ CancelFlush \/ CancelSignal
         \/ Send \/ Loop \/ LoopNoContext \/ Exit \/ TimePasses
  PROVE  Once'
<1>0. TurnFlags BY DEF Once
<1>1. CASE ServiceReturn \/ PopNone \/ NoCancel \/ CancelSignal \/ Loop \/ LoopNoContext
           \/ TimePasses \/ Exit
  <2>1. TurnFlags'
    BY <1>0, <1>1
       DEF ServiceReturn, PopNone, NoCancel, CancelSignal, Loop, LoopNoContext, TimePasses,
           Exit, TurnFlags, Single, workerVars, ghostVars
  <2>2. /\ UNCHANGED <<programmed, answers, failedWrites, listening, listenTicket,
                       params, writeOps>>
        /\ Sending' => /\ Sending /\ res' = res
                       /\ pc = "pending" => pc' = pc /\ cur' = cur
    BY <1>1
       DEF ServiceReturn, PopNone, NoCancel, CancelSignal, Loop, LoopNoContext, TimePasses,
           Exit, Sending, connVars, resultVars, workerVars, userVars, ghostVars
  <2> QED BY <2>1, <2>2, OnceDropped
<1>2. CASE CancelTake
  <2>1. TurnFlags' BY <1>0, <1>2 DEF CancelTake, TurnFlags
  <2> QED
    BY <1>2, <2>1, OnceDropped DEF CancelTake, Sending, connVars, resultVars, workerVars
<1>3. CASE CancelFlush
  <2>1. TurnFlags' BY <1>3 DEF CancelFlush, TurnFlags
  <2> QED BY <1>3, <2>1, OnceDropped DEF CancelFlush, Sending, ghostVars
<1>4. CASE PopOverCommand
  <2>1. /\ params \in Seq(Param) /\ params # <<>> /\ params' = Tail(params)
        /\ UNCHANGED <<writeOps, answers, programmed, failedWrites, listening, listenTicket>>
        /\ \A t : InAnswer(t)' <=> InAnswer(t)
        /\ pc = "pop" /\ pc' = "pending"
    BY <1>4
       DEF PopOverCommand, TypeOK, TypeOKWorker, InAnswer, Sending, connVars, resultVars,
           ghostVars
  <2>2. /\ \A i, j \in DOMAIN params' : params'[i].ticket = params'[j].ticket => i = j
        /\ CommandTickets' \subseteq CommandTickets
    BY <2>1, TakenDiffers DEF Once
  <2>3. Single' = Single BY <2>1 DEF Single
  <2>4. TicketsDiffer' BY <2>1, <2>2 DEF Once, TicketsDiffer
  <2>5. NotStarted' BY <2>1, <2>2 DEF Once, NotStarted
  <2>6. NotWritten' BY <2>1, <2>3 DEF Once, NotWritten
  <2>7. NotAnswered' BY <2>1, <2>3 DEF Once, NotAnswered
  <2>8. TurnFlags' BY <2>1 DEF TurnFlags
  <2> QED BY <2>4, <2>5, <2>6, <2>7, <2>8 DEF Once
<1>5. CASE Send
  <2>1. /\ pc = "send" /\ pc' = "loop" /\ ~sendResult' /\ PushResult(res)
        /\ UNCHANGED <<params, writeOps, res, ioPending, cur, listening, listenTicket,
                       programmed, failedWrites>>
    BY <1>5 DEF Send, ghostVars
  <2>2. res \in Result /\ TypeOKResults BY DEF TypeOK, TypeOKWorker, TypeOKConnection
  <2>3. InAnswer(res.ticket) /\ sendResult
    BY <1>0, <2>1 DEF InAnswer, Sending, TurnFlags
  <2>4. Named(res) BY <2>3 DEF InAnswer, Names, AnswersNamed
  <2>5. /\ \A t \in Ticket : t # res.ticket => answers'[t] = answers[t]
        /\ answers[res.ticket] = 0 => answers'[res.ticket] <= 1
    BY <2>1, <2>2, <2>4, PushedAnswers DEF Named
  <2>6. Single' = Single /\ CommandTickets' = CommandTickets
    BY <2>1 DEF Single, CommandTickets
  <2>7. \A t : InAnswer(t)' => ioPending /\ t = res.ticket
    BY <2>1 DEF InAnswer, Sending
  <2>8. res.ticket \in Single => ~ioPending
    BY <1>0, <2>1, <2>3 DEF TurnFlags, Single
  <2>9. CommandTickets \subseteq Ticket /\ Elements(writeOps) \subseteq Ticket
    <3>1. params \in Seq(Param) /\ writeOps \in Seq(Ticket)
      BY DEF TypeOK, TypeOKWorker, TypeOKConnection
    <3> QED BY <3>1, ElementsType DEF CommandTickets, Param
  <2>10. TicketsDiffer' BY <2>1 DEF Once, TicketsDiffer
  <2>11. NotStarted'
    BY <2>1, <2>3, <2>5, <2>6, <2>7, <2>9 DEF Once, NotStarted
  <2>12. NotWritten'
    BY <2>1, <2>3, <2>5, <2>6, <2>7, <2>8, <2>9 DEF Once, NotWritten
  <2>13. NotAnswered'
    <3>1. programmed[res.ticket] # "none"
      BY <2>2, <2>4 DEF Named, Result, Operation
    <3> QED
      BY <2>1, <2>3, <2>5, <2>6, <2>7, <2>8, <3>1 DEF Once, NotAnswered, Single
  <2>14. TurnFlags' BY <2>1 DEF TurnFlags
  <2> QED BY <2>10, <2>11, <2>12, <2>13, <2>14 DEF Once
<1> QED BY <1>1, <1>2, <1>3, <1>4, <1>5

LEMMA OnceStep ==
  ASSUME TypeOK, Names, Once, [Next]_vars
  PROVE  Once'
<1>1. CASE Next
  BY <1>1, OnceUser, OnceControl, OnceService, OnceStart, OncePending, OnceTurn
     DEF Next, Worker
<1>2. CASE UNCHANGED vars
  <2>1. TurnFlags'
    BY <1>2 DEF Once, TurnFlags, Single, vars, opVars, workerVars, ghostVars
  <2> QED
    BY <1>2, <2>1, OnceDropped
       DEF vars, opVars, connVars, resultVars, workerVars, ghostVars, Sending
<1> QED BY <1>1, <1>2

LEMMA OnceCorrect == Spec => []Once
<1>1. TypeOK /\ Names /\ Once /\ [Next]_vars => Once'
  BY OnceStep
<1> QED BY OnceInit, <1>1, TypeCorrect, NamesCorrect, PTL DEF Spec

(* No operation gets a second result, neither from V_OnProcessing nor from *)
(* the writeable callback, but LISTEN, and a WRITE that was refused after  *)
(* its data had been queued.                                               *)
THEOREM AnsweredOnce == Spec => []AtMostOneAnswer
<1>1. Once => AtMostOneAnswer
  BY DEF Once, NotAnswered, Single, AtMostOneAnswer
<1> QED BY <1>1, OnceCorrect, PTL

-----------------------------------------------------------------------------
(* The barrier of a cancel.                                                *)

Dead == {t \in cancelled : programmed[t] # "LISTEN"}

(* Between the take and the flush of a cancel the queues and the operation *)
(* in flight may still hold what was cancelled; the queue of commands has  *)
(* been flushed first, and what comes later has a later ticket.            *)
Barrier ==
  /\ \A t \in cancelled : t \in Ticket /\ programmed[t] # "none"
  /\ CommandTickets \cap cancelled = {}
  /\ pc # "flush" =>
       \A t \in Dead : /\ t \notin Elements(writeOps)
                       /\ ~InAnswer(t)
                       /\ \A r \in Elements(results) : r.ticket # t

LEMMA BarrierInit == Init => Barrier
BY ElementsEmpty DEF Init, Barrier, CommandTickets, Dead

(* A step that brings nothing back from the dead.                          *)
LEMMA BarrierKept ==
  ASSUME Barrier, UNCHANGED <<programmed, cancelled>>,
         Elements(params') \subseteq Elements(params),
         pc' # "flush" =>
           /\ pc # "flush"
           /\ \A t \in Elements(writeOps') : t \in Elements(writeOps) \/ t \notin Dead
           /\ Sending' => InAnswer(res'.ticket) \/ res'.ticket \notin Dead
           /\ \A r \in Elements(results') : r \in Elements(results) \/ r.ticket \notin Dead
  PROVE  Barrier'
<1>1. Dead' = Dead /\ CommandTickets' \subseteq CommandTickets
  BY DEF Dead, CommandTickets
<1> QED BY <1>1 DEF Barrier, InAnswer

LEMMA BarrierDropped ==
  ASSUME TypeOK, Barrier, UNCHANGED <<programmed, cancelled>>,
         params' \in {params, <<>>}, UNCHANGED writeOps,
         \/ results' \in {results, <<>>}
         \/ results # <<>> /\ results' = Tail(results),
         pc' = "flush" \/ (pc # "flush" /\ (Sending' => Sending /\ res' = res))
  PROVE  Barrier'
<1>1. Elements(params') \subseteq Elements(params) BY ElementsEmpty
<1>2. Elements(results') \subseteq Elements(results)
  <2>1. results \in Seq(Result) BY DEF TypeOK, TypeOKConnection, TypeOKResults
  <2>2. CASE results # <<>> /\ results' = Tail(results)
    BY <2>1, <2>2, ElementsTail
  <2> QED BY <2>2, ElementsEmpty
<1> QED BY <1>1, <1>2, BarrierKept DEF InAnswer

(* The ticket that ProgramWebSocketOperation draws was not cancelled.      *)
LEMMA BarrierPushParam ==
  ASSUME TypeOK, Names, Barrier, NEW op \in Operation, NEW kind, NEW full,
         PushParam(op, kind, full)
  PROVE  Barrier'
<1>1. /\ mTicket \in Ticket /\ programmed[mTicket] = "none"
  BY ConnectionAssumption
     DEF PushParam, TypeOK, TypeOKThreads, Names, TicketsDrawn, Ticket
<1>2. UNCHANGED <<writeOps, results, res, ioPending, sendResult, pc, cancelled>>
  BY DEF PushParam, connVars, resultVars, workerVars
<1>3. CASE params' = params /\ programmed' = programmed
  BY <1>2, <1>3, BarrierKept DEF Sending, InAnswer
<1>4. CASE /\ params' = Append(params, [op |-> op, ticket |-> mTicket])
           /\ programmed' = [programmed EXCEPT ![mTicket] = op]
  <2> DEFINE e == [op |-> op, ticket |-> mTicket]
  <2>1. params \in Seq(Param) /\ e \in Param /\ e.ticket = mTicket
    BY <1>1 DEF TypeOK, TypeOKWorker, Param
  <2>2. Elements(params') = Elements(params) \cup {e}
    BY <1>4, <2>1, ElementsAppend
  <2> HIDE DEF e
  <2>3. CommandTickets' = CommandTickets \cup {mTicket}
    BY <2>1, <2>2 DEF CommandTickets
  <2>4. mTicket \notin cancelled BY <1>1 DEF Barrier
  <2>5. \A t \in cancelled : t \in Ticket /\ programmed'[t] = programmed[t]
    BY <1>1, <1>4, <2>4 DEF Barrier, TypeOK, TypeOKThreads
  <2>6. Dead' = Dead BY <1>2, <2>5 DEF Dead
  <2>7. \A t : InAnswer(t)' <=> InAnswer(t) BY <1>2 DEF InAnswer, Sending
  <2> QED BY <1>2, <2>3, <2>4, <2>5, <2>6, <2>7 DEF Barrier
<1> QED BY <1>3, <1>4 DEF PushParam

(* A reset drops commands of which nothing has been started, and every     *)
(* result with them.                                                       *)
LEMMA BarrierReset ==
  ASSUME TypeOK, Names, Once, Barrier, ResetWebSocketOperation
  PROVE  Barrier'
<1>1. /\ UNCHANGED <<programmed, writeOps, res, ioPending, sendResult, pc>>
      /\ params' = <<>> /\ results' = <<>>
      /\ cancelled' = cancelled \cup CommandTickets
  BY DEF ResetWebSocketOperation, workerVars, CommandTickets, TicketsOf, Elements
<1>2. CommandTickets' = {} /\ Elements(results') = {}
  BY <1>1, ElementsEmpty DEF CommandTickets
<1>3. \A p \in Elements(params) : p \in Param
  BY DEF Elements, TypeOK, TypeOKWorker
<1>4. \A t \in CommandTickets : t \in Ticket /\ programmed[t] # "none"
  BY <1>3 DEF CommandTickets, Names, CommandsNamed, Param, Operation
<1>5. \A t \in CommandTickets : t \notin Elements(writeOps) /\ ~InAnswer(t)
  BY DEF Once, NotStarted
<1>6. \A t \in Dead' : t \in Dead \/ t \in CommandTickets
  BY <1>1 DEF Dead
<1>7. \A t : InAnswer(t)' <=> InAnswer(t) BY <1>1 DEF InAnswer, Sending
<1>8. \A t \in cancelled' : t \in Ticket /\ programmed'[t] # "none"
  BY <1>1, <1>4 DEF Barrier
<1> QED BY <1>1, <1>2, <1>5, <1>6, <1>7, <1>8 DEF Barrier

LEMMA BarrierThreads ==
  ASSUME TypeOK, Names, Once, Barrier, User \/ Control PROVE Barrier'
<1>1. CASE \E op, kind, full : op \in Operation /\ PushParam(op, kind, full)
  BY <1>1, BarrierPushParam
<1>2. CASE Run
  BY <1>2, BarrierDropped
     DEF Run, Sending, connVars, resultVars, workerVars, ghostVars
<1>3. CASE /\ UNCHANGED <<writeOps, workerVars, pc, ghostVars>>
           /\ params' \in {params, <<>>}
           /\ \/ results' \in {results, <<>>}
              \/ results # <<>> /\ results' = Tail(results)
  <2>1. /\ UNCHANGED <<programmed, cancelled>>
        /\ Sending' => Sending /\ res' = res
    BY <1>3 DEF Sending, workerVars, ghostVars
  <2>2. CASE pc = "flush" BY <1>3, <2>1, <2>2, BarrierDropped
  <2>3. CASE pc # "flush" BY <1>3, <2>1, <2>3, BarrierDropped
  <2> QED BY <2>2, <2>3
<1>4. CASE Control
  BY <1>3, <1>4, BarrierReset
     DEF Control, CancelWebSocketOperation, CancelNoWait, CancelSignalled,
         CancelTimeout, ClearWebSocketOperation, connVars, resultVars
<1> QED
  BY <1>1, <1>2, <1>3, <1>4, OperationAssumption
     DEF User, RunListen, Program, Stop, MarkPending, GetResult, SyncGetResult,
         SyncTimeout, StopThread, StopJoin, connVars, resultVars, opVars, Operation

(* The callback that sends a queued write sends one that is not dead.      *)
LEMMA BarrierService ==
  ASSUME TypeOK, Barrier, Service PROVE Barrier'
<1>1. UNCHANGED opVars /\ LwsCallback /\ pc = "service" BY DEF Service
<1>2. CASE UNCHANGED <<writeOps, results>>
  BY <1>1, <1>2, BarrierDropped DEF Sending, opVars, workerVars, ghostVars
<1>3. ASSUME NEW w \in Wsi, NEW sts \in {"NO_ERROR", "WRITE_ERROR", "ETIMEDOUT"},
             WriteableDone(w, sts)
      PROVE  Barrier'
  <2> DEFINE r == [op |-> "WRITE", ticket |-> Head(writeOps), sts |-> sts]
  <2>1. writeOps \in Seq(Ticket) /\ writeOps # <<>> /\ TypeOKResults
        /\ writeOps' = Tail(writeOps) /\ PushResult(r)
    BY <1>3 DEF WriteableDone, TypeOK, TypeOKConnection
  <2>2. /\ Head(writeOps) \in Ticket /\ Head(writeOps) \in Elements(writeOps)
        /\ Elements(writeOps') \subseteq Elements(writeOps)
    BY <2>1, HeadTailProperties, ElementsTail
  <2>3. r \in Result /\ r.ticket \in Elements(writeOps)
    BY <2>2 DEF Result, Operation, Status
  <2>4. r.ticket \notin Dead BY <1>1, <2>3 DEF Barrier
  <2> HIDE DEF r
  <2>5. \A q \in Elements(results') : q \in Elements(results) \/ q.ticket \notin Dead
    BY <2>1, <2>3, <2>4, PushedElements
  <2>6. /\ UNCHANGED <<programmed, cancelled, params, pc>>
        /\ Sending' => InAnswer(res'.ticket)
    BY <1>1 DEF opVars, workerVars, ghostVars, InAnswer, Sending
  <2> QED BY <1>1, <2>2, <2>5, <2>6, BarrierKept
<1> QED
  BY <1>1, <1>2, <1>3
     DEF LwsCallback, HttpBindProtocol, AddHeaders, Established, EstablishedFails,
         Closed, ClientEstablished, ClientEstablishedFails, ClientClosed,
         ClientConnectionError, WriteableIdle, WriteablePartial, Receive, resultVars

(* What is started comes from the queue of commands.                       *)
LEMMA BarrierStart ==
  ASSUME TypeOK, Barrier, Start PROVE Barrier'
<1>1. ASSUME NEW op, NEW sts, StartCommand(op, sts), UNCHANGED results,
             \/ UNCHANGED writeOps
             \/ writeOps' = Append(writeOps, Head(params).ticket)
      PROVE  Barrier'
  <2>1. /\ params \in Seq(Param) /\ params # <<>> /\ params' = Tail(params)
        /\ writeOps \in Seq(Ticket) /\ pc = "pop"
        /\ res'.ticket = Head(params).ticket
        /\ UNCHANGED <<programmed, cancelled>>
    BY <1>1 DEF StartCommand, TypeOK, TypeOKWorker, TypeOKConnection
  <2>2. Head(params) \in Elements(params) /\ Elements(params') \subseteq Elements(params)
    BY <2>1, ElementsTail
  <2>3. Head(params).ticket \in Ticket BY <2>1, TypeTakeParam DEF Param
  <2>4. Head(params).ticket \notin Dead
    BY <2>2 DEF Barrier, CommandTickets, Dead
  <2>5. Elements(writeOps') \subseteq Elements(writeOps) \cup {Head(params).ticket}
    <3>1. CASE writeOps' = Append(writeOps, Head(params).ticket)
      BY <2>1, <2>3, <3>1, ElementsAppend
    <3>2. CASE writeOps' = writeOps BY <3>2
    <3> QED BY <1>1, <3>1, <3>2
  <2> QED BY <1>1, <2>1, <2>2, <2>4, <2>5, BarrierKept
<1> QED
  BY <1>1
     DEF Start, StartListen, StartConnectRefused, StartConnectNoContext, StartConnect,
         StartDisconnect, StartExit, StartRead, StartWriteRefused, StartWrite,
         connVars, resultVars

(* A poll keeps the ticket of the operation in flight, or takes the one of *)
(* LISTEN.                                                                 *)
LEMMA BarrierPending ==
  ASSUME TypeOK, Names, Barrier, Pending PROVE Barrier'
<1>1. res \in Result BY DEF TypeOK, TypeOKWorker
<1>2. \A s : /\ [res EXCEPT !.sts = s].ticket = res.ticket
             /\ [[res EXCEPT !.sts = s] EXCEPT !.sts = "ETIMEDOUT"].ticket = res.ticket
  BY <1>1 DEF Result
<1>3. ASSUME NEW op, NEW late, NEW r, NEW send, NEW stays,
             Poll(op, late, r, send, stays),
             [r EXCEPT !.sts = "ETIMEDOUT"].ticket = r.ticket,
             r.ticket = res.ticket \/ (op = "LISTEN" /\ r.ticket = listenTicket)
      PROVE  Barrier'
  <2>1. /\ UNCHANGED <<programmed, cancelled, params, writeOps, results>>
        /\ pc = "pending" /\ cur.op = op /\ res'.ticket = r.ticket
    BY <1>3 DEF Poll, resultVars, ghostVars
  <2>2. ioPending /\ InAnswer(res.ticket)
    BY <2>1 DEF Names, ListenMode, InAnswer, Sending
  <2>3. CASE op = "LISTEN"
    <3>1. cur \in Param BY <2>1, <2>3 DEF NoOp, TypeOK, TypeOKWorker
    <3>2. programmed[cur.ticket] = "LISTEN" /\ cur.ticket \in Ticket
      BY <2>1, <2>3, <3>1 DEF Names, CommandsNamed, NoOp, Param
    <3>3. programmed[listenTicket] = "LISTEN"
      BY <2>2, <3>2 DEF Names, ListenMode
    <3> QED BY <1>3, <2>1, <2>2, <3>3, BarrierKept DEF Dead
  <2>4. CASE op # "LISTEN"
    BY <1>3, <2>1, <2>2, <2>4, BarrierKept
  <2> QED BY <2>3, <2>4
<1>4. CASE PollListen
  <2> DEFINE r == [op |-> "CONNECT", ticket |-> listenTicket, sts |-> "NO_ERROR"]
  <2>1. r.ticket = listenTicket /\ [r EXCEPT !.sts = "ETIMEDOUT"].ticket = r.ticket
    OBVIOUS
  <2>2. CASE connectDone
    <3>1. Poll("LISTEN", FALSE, r, TRUE, TRUE) BY <1>4, <2>2 DEF PollListen
    <3> HIDE DEF r
    <3> QED BY <1>3, <2>1, <3>1
  <2>3. CASE ~connectDone
    <3>1. Poll("LISTEN", overdue, res, FALSE, TRUE) BY <1>4, <2>3 DEF PollListen
    <3> QED BY <1>2, <1>3, <3>1
  <2> QED BY <2>2, <2>3
<1>5. CASE PollConnect
  <2>1. CASE connectDone
    <3>1. Poll("CONNECT", overdue, [res EXCEPT !.sts = "NO_ERROR"], connectDone, ~connectDone)
      BY <1>5, <2>1 DEF PollConnect
    <3> QED BY <1>2, <1>3, <3>1
  <2>2. CASE ~connectDone
    <3>1. Poll("CONNECT", overdue, res, connectDone, ~connectDone)
      BY <1>5, <2>2 DEF PollConnect
    <3> QED BY <1>2, <1>3, <3>1
  <2> QED BY <2>1, <2>2
<1>6. CASE PollDisconnect BY <1>2, <1>3, <1>6 DEF PollDisconnect
<1>7. CASE PollRead
  <2> DEFINE s == IF rx > 0 THEN "NO_ERROR" ELSE "PENDING"
             send == rx > 0
             stays == rx = 0
  <2>1. Poll("READ", overdue, [res EXCEPT !.sts = s], send, stays)
    BY <1>7 DEF PollRead
  <2> HIDE DEF s, send, stays
  <2> QED BY <1>2, <1>3, <2>1
<1>8. CASE PollWrite BY <1>2, <1>3, <1>8 DEF PollWrite
<1>9. CASE PollOther BY <1>2, <1>3, <1>9 DEF PollOther
<1> QED BY <1>4, <1>5, <1>6, <1>7, <1>8, <1>9 DEF Pending

(* The other steps of a turn: the take of a cancel flushes the commands    *)
(* and remembers what was accepted, the flush the rest.                    *)
LEMMA BarrierTurn ==
  ASSUME TypeOK, Names, Barrier,
         \/ ServiceReturn \/ PopNone \/ PopOverCommand
         \/ NoCancel \/ CancelTake \/ CancelFlush \/ CancelSignal
         \/ Send \/ Loop \/ LoopNoContext \/ Exit \/ TimePasses
  PROVE  Barrier'
<1>1. CASE ServiceReturn \/ PopNone \/ NoCancel \/ CancelSignal \/ Loop \/ LoopNoContext
           \/ Exit
  BY <1>1, BarrierDropped
     DEF ServiceReturn, PopNone, NoCancel, CancelSignal, Loop, LoopNoContext, Exit,
         Sending, connVars, resultVars, workerVars, userVars, ghostVars
<1>2. CASE TimePasses
  <2>1. /\ UNCHANGED <<programmed, cancelled, params, writeOps, results, pc>>
        /\ Sending' => Sending /\ res' = res
    BY <1>2 DEF TimePasses, Sending, connVars, resultVars, ghostVars
  <2>2. CASE pc = "flush" BY <2>1, <2>2, BarrierDropped
  <2>3. CASE pc # "flush" BY <2>1, <2>3, BarrierDropped
  <2> QED BY <2>2, <2>3
<1>3. CASE CancelTake
  <2>1. params' = <<>> /\ pc' = "flush" /\ programmed' = programmed
        /\ cancelled' = Accepted
    BY <1>3 DEF CancelTake
  <2>2. CommandTickets' = {} BY <2>1, ElementsEmpty DEF CommandTickets
  <2> QED BY <2>1, <2>2 DEF Barrier, Accepted
<1>4. CASE CancelFlush
  <2>1. /\ UNCHANGED <<programmed, cancelled, params>>
        /\ writeOps' = <<>> /\ results' = <<>> /\ ~Sending'
    BY <1>4 DEF CancelFlush, Sending, ghostVars
  <2>2. CommandTickets' = CommandTickets BY <2>1 DEF CommandTickets
  <2>3. Elements(writeOps') = {} /\ Elements(results') = {} BY <2>1, ElementsEmpty
  <2> QED BY <2>1, <2>2, <2>3 DEF Barrier, InAnswer
<1>5. CASE PopOverCommand
  <2>1. /\ params \in Seq(Param) /\ params # <<>> /\ params' = Tail(params)
        /\ UNCHANGED <<programmed, cancelled, writeOps, results>>
        /\ pc = "pop" /\ (Sending' => InAnswer(res'.ticket))
    BY <1>5
       DEF PopOverCommand, TypeOK, TypeOKWorker, InAnswer, Sending, connVars, resultVars,
           ghostVars
  <2>2. Elements(params') \subseteq Elements(params) BY <2>1, ElementsTail
  <2> QED BY <2>1, <2>2, BarrierKept
<1>6. CASE Send
  <2>1. /\ UNCHANGED <<programmed, cancelled, params, writeOps, res>>
        /\ pc = "send" /\ PushResult(res)
    BY <1>6 DEF Send, ghostVars
  <2>2. res \in Result /\ TypeOKResults BY DEF TypeOK, TypeOKWorker, TypeOKConnection
  <2>3. InAnswer(res.ticket) BY <2>1 DEF InAnswer, Sending
  <2>4. res.ticket \notin Dead BY <2>1, <2>3 DEF Barrier
  <2>5. \A r \in Elements(results') : r \in Elements(results) \/ r.ticket \notin Dead
    BY <2>1, <2>2, <2>4, PushedElements
  <2> QED BY <2>1, <2>3, <2>5, BarrierKept
<1> QED BY <1>1, <1>2, <1>3, <1>4, <1>5, <1>6

LEMMA BarrierStep ==
  ASSUME TypeOK, Names, Once, Barrier, [Next]_vars
  PROVE  Barrier'
<1>1. CASE Next
  BY <1>1, BarrierThreads, BarrierService, BarrierStart, BarrierPending, BarrierTurn
     DEF Next, Worker
<1>2. CASE UNCHANGED vars
  <2>1. /\ UNCHANGED <<programmed, cancelled, params, writeOps, results, pc>>
        /\ Sending' => Sending /\ res' = res
    BY <1>2
       DEF vars, opVars, connVars, resultVars, workerVars, ghostVars, Sending
  <2>2. CASE pc = "flush" BY <2>1, <2>2, BarrierDropped
  <2>3. CASE pc # "flush" BY <2>1, <2>3, BarrierDropped
  <2> QED BY <2>2, <2>3
<1> QED BY <1>1, <1>2

(* After V_OnProcessing has taken a cancel, no operation accepted before   *)
(* is queued; after it has flushed, none is in flight, in the queue of     *)
(* writes or answered any more, whatever the threads do meanwhile.  LISTEN *)
(* is the exception.  The same holds of every command that a reset drops   *)
(* from the queue: as nothing of it had been started (Once), it never      *)
(* turns up again.  A reset says nothing of what is in flight, and a clear *)
(* drops nothing.                                                          *)
THEOREM CancelIsBarrier == Spec => []CancelledStaysDead
<1>1. TypeOK /\ Names /\ Once /\ Barrier /\ [Next]_vars => Barrier'
  BY BarrierStep
<1>2. Barrier => CancelledStaysDead
  <2> SUFFICES ASSUME Barrier PROVE CancelledStaysDead
    OBVIOUS
  <2>1. TicketsOf(params) = CommandTickets
    BY DEF TicketsOf, CommandTickets, Elements
  <2>2. /\ TicketsOf(results) = {r.ticket : r \in Elements(results)}
        /\ TicketsIn(writeOps) = Elements(writeOps)
    BY DEF TicketsOf, TicketsIn, Elements
  <2>3. \A t \in InFlight : InAnswer(t)
    BY DEF InFlight, InAnswer, Sending
  <2> QED BY <2>1, <2>2, <2>3 DEF Barrier, Dead, CancelledStaysDead
<1> QED BY BarrierInit, <1>1, <1>2, TypeCorrect, NamesCorrect, OnceCorrect, PTL DEF Spec
=============================================================================
