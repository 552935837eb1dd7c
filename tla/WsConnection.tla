---------------------------- MODULE WsConnection ----------------------------
(***************************************************************************)
(* The connection half of BofWebSocket: the lws context, the session state *)
(* mWebSocketState_X, the registry of clients of a server and the queues   *)
(* which the libwebsockets callback LwsCallback reads and writes.  One     *)
(* action per callback reason that has an effect on that state.  Every     *)
(* callback runs inside lws_service, on the processing thread of           *)
(* WsOperation, which composes these actions with the rest of the object.  *)
(*                                                                         *)
(* libwebsockets itself is external: wsi, wantWrite and urlKey say what    *)
(* src/ relies on, which connections exist, how far their handshake went   *)
(* and for which of them a writeable callback has been asked.              *)
(***************************************************************************)
EXTENDS Integers, Sequences, FiniteSets

CONSTANTS
  NbMaxOperationPending, \* capacity of the operation queue
  NbMaxClient,           \* 0: a client socket, otherwise a server
  Wsi,                   \* the lws connections
  NoWsi,                 \* nullptr
  Key,                   \* the client keys
  NoKey,
  MaxTicket,             \* bound: tickets the user draws
  MaxRx                  \* messages the receive buffer has room for

ASSUME ConnectionAssumption ==
  /\ NbMaxOperationPending \in Nat \ {0}
  /\ NbMaxClient \in Nat
  /\ NoWsi \notin Wsi
  /\ NoKey \notin Key
  /\ MaxTicket \in Nat
  /\ MaxRx \in Nat \ {0}

VARIABLES
  ctx,         \* mpLwsContext_X # nullptr
  connectDone, \* mWebSocketState_X.ConnectDone_B
  pWebSocket,  \* mWebSocketState_X.pWebSocket_X
  wsi,         \* lws: state of every connection
  wantWrite,   \* lws: connections with a requested writeable callback
  urlKey,      \* lws: the key in the URL of a connection
  clients,     \* mClientCollection: the connection registered for a key
  rx,          \* messages in mpuRxBufferCollection
  writeOps,    \* tickets in mpuSocketOperationWriteOpCollection
  results,     \* mpuSocketOperationResultCollection
  answers,     \* history: results queued for a ticket, counted up to 2
  failedAsserts\* history: lines of the BOF_ASSERT that failed

linkVars   == <<ctx, connectDone, pWebSocket, wsi, wantWrite, urlKey, clients,
                rx>>
resultVars == <<results, answers>>
connVars   == <<linkVars, writeOps, resultVars, failedAsserts>>

-----------------------------------------------------------------------------
Ticket == 1 .. MaxTicket

Operation == {"LISTEN", "CONNECT", "DISCONNECT", "READ", "WRITE", "EXIT"}

Status == {"NO_ERROR", "WRONG_MODE", "INVALID_STATE", "INIT", "ENOTCONN",
           "EINVAL", "FULL", "OPERATION_FAILED", "CANCEL", "PENDING",
           "BAD_ID", "ETIMEDOUT", "WRITE_ERROR", "SOFT_INIT"}

(* A reset result has the operation MAX and the ticket 0.                  *)
Result == [op : Operation \cup {"MAX"}, ticket : Ticket \cup {0}, sts : Status]

WriteOpCapacity == NbMaxOperationPending + 1
ResultCapacity  == NbMaxOperationPending + 1

WsiState == {"none", "opening", "bound", "accepted", "rejected", "open"}

TypeOKLink ==
  /\ pWebSocket \in Wsi \cup {NoWsi}
  /\ wsi \in [Wsi -> WsiState]
  /\ wantWrite \in SUBSET Wsi
  /\ urlKey \in [Wsi -> Key \cup {NoKey}]
  /\ clients \in [Key -> Wsi \cup {NoWsi}]
  /\ rx \in 0 .. MaxRx

TypeOKResults ==
  /\ results \in Seq(Result) /\ Len(results) <= ResultCapacity
  /\ answers \in [Ticket -> 0 .. 2]

TypeOKConnection ==
  /\ ctx \in BOOLEAN /\ connectDone \in BOOLEAN
  /\ TypeOKLink
  /\ writeOps \in Seq(Ticket) /\ Len(writeOps) <= WriteOpCapacity
  /\ TypeOKResults
  /\ failedAsserts \in SUBSET {964, 997}

InitConnection ==
  /\ ctx = FALSE
  /\ connectDone = FALSE
  /\ pWebSocket = NoWsi
  /\ wsi = [w \in Wsi |-> "none"]
  /\ wantWrite = {}
  /\ urlKey = [w \in Wsi |-> NoKey]
  /\ clients = [k \in Key |-> NoWsi]
  /\ rx = 0
  /\ writeOps = <<>>
  /\ results = <<>>
  /\ answers = [t \in Ticket |-> 0]
  /\ failedAsserts = {}

-----------------------------------------------------------------------------
(* Mutant: the result is queued whatever the capacity is.                  *)
PushResultUnbounded(r) ==
  /\ results' = Append(results, r)
  /\ answers' = [t \in Ticket |-> IF t = r.ticket /\ answers[t] < 2
                                    THEN answers[t] + 1 ELSE answers[t]]

(* Push of a result, which waits for room and gives up after               *)
(* PUSH_POP_TIMEOUT: with a full queue the result is gone.                 *)
PushResult(r) ==
  IF Len(results) < ResultCapacity
    THEN /\ results' = Append(results, r)
         /\ answers' = [t \in Ticket |-> IF t = r.ticket /\ answers[t] < 2
                                           THEN answers[t] + 1 ELSE answers[t]]
    ELSE UNCHANGED resultVars

(* Mutant: the messages received are left in the buffer.                   *)
ClientDisconnectKeepsRx ==
  /\ ctx' = FALSE
  /\ connectDone' = FALSE
  /\ pWebSocket' = NoWsi
  /\ wsi' = [w \in Wsi |-> "none"]
  /\ wantWrite' = {}
  /\ urlKey' = [w \in Wsi |-> NoKey]
  /\ clients' = [k \in Key |-> NoWsi]
  /\ rx' = rx

(* BOF_LWS_CLIENT_DISCONNECT: destroy the context, which closes its        *)
(* connections and unregisters them, forget the session and what it has    *)
(* received.  The queue of writes is left alone.                           *)
ClientDisconnect ==
  /\ ctx' = FALSE
  /\ connectDone' = FALSE
  /\ pWebSocket' = NoWsi
  /\ wsi' = [w \in Wsi |-> "none"]
  /\ wantWrite' = {}
  /\ urlKey' = [w \in Wsi |-> NoKey]
  /\ clients' = [k \in Key |-> NoWsi]
  /\ rx' = 0

(* What the next wantWrite is, base being what is left of it, after        *)
(* lws_callback_on_writable(pWebSocket) has returned more than 0 or not.   *)
(* pWebSocket may be a connection that is gone.                            *)
RequestWriteable(base, granted) ==
  /\ granted => pWebSocket \in Wsi
  /\ wantWrite' = IF granted /\ wsi[pWebSocket] = "open"
                    THEN base \cup {pWebSocket} ELSE base

Registered == {k \in Key : clients[k] # NoWsi}

-----------------------------------------------------------------------------
(* Callbacks of a server.                                                  *)

(* A peer connects: the newest one becomes the socket of the object.       *)
HttpBindProtocol(w, k) ==
  /\ NbMaxClient # 0
  /\ wsi[w] = "none"
  /\ wsi' = [wsi EXCEPT ![w] = "bound"]
  /\ urlKey' = [urlKey EXCEPT ![w] = k]
  /\ pWebSocket' = w
  /\ UNCHANGED <<ctx, connectDone, wantWrite, clients, rx, writeOps,
                 resultVars, failedAsserts>>

(* The handshake is refused if the server is full or has the key already.  *)
(* A refused peer never was established and is closed without a callback   *)
(* that src/ handles.                                                      *)
AddHeaders(w) ==
  LET accept == /\ Cardinality(Registered) < NbMaxClient
                /\ urlKey[w] \notin Registered
  IN /\ wsi[w] = "bound"
     /\ wsi' = [wsi EXCEPT ![w] = IF accept THEN "accepted" ELSE "none"]
     /\ UNCHANGED <<ctx, connectDone, pWebSocket, wantWrite, urlKey, clients,
                    rx, writeOps, resultVars, failedAsserts>>

(* The key given to AddClient is a local buffer which only the callback of *)
(* AddHeaders has filled, in an earlier call: it holds any key.            *)
AddClient(k, w) ==
  IF Cardinality(Registered) < NbMaxClient /\ k \notin Registered
    THEN /\ clients' = [clients EXCEPT ![k] = w]
         /\ wsi' = [wsi EXCEPT ![w] = "open"]
         /\ connectDone' = TRUE
    ELSE /\ wsi' = [wsi EXCEPT ![w] = "rejected"]
         /\ UNCHANGED <<clients, connectDone>>

Established(w, k) ==
  /\ wsi[w] = "accepted"
  /\ failedAsserts' = IF pWebSocket \notin {NoWsi, w}
                        THEN failedAsserts \cup {964} ELSE failedAsserts
  /\ pWebSocket' = w
  /\ AddClient(k, w)
  /\ UNCHANGED <<ctx, wantWrite, urlKey, rx, writeOps, resultVars>>

(* SetSocketBufferSize failed: lws closes the connection.                  *)
EstablishedFails(w) ==
  /\ wsi[w] = "accepted"
  /\ wsi' = [wsi EXCEPT ![w] = "rejected"]
  /\ UNCHANGED <<ctx, connectDone, pWebSocket, wantWrite, urlKey, clients,
                 rx, writeOps, resultVars, failedAsserts>>

(* Mutant: the client stays in the registry.                               *)
ClosedKeepsClient(w) ==
  /\ NbMaxClient # 0
  /\ wsi[w] \in {"open", "rejected"}
  /\ wsi' = [wsi EXCEPT ![w] = "none"]
  /\ wantWrite' = wantWrite \ {w}
  /\ connectDone' = FALSE
  /\ UNCHANGED <<ctx, pWebSocket, urlKey, clients, rx, writeOps, resultVars,
                 failedAsserts>>

(* Any closed connection ends the pending connect notification; the        *)
(* registry drops the key of that very connection.                         *)
Closed(w) ==
  /\ NbMaxClient # 0
  /\ wsi[w] \in {"open", "rejected"}
  /\ wsi' = [wsi EXCEPT ![w] = "none"]
  /\ wantWrite' = wantWrite \ {w}
  /\ connectDone' = FALSE
  /\ clients' = [k \in Key |-> IF clients[k] = w THEN NoWsi ELSE clients[k]]
  /\ UNCHANGED <<ctx, pWebSocket, urlKey, rx, writeOps, resultVars,
                 failedAsserts>>

-----------------------------------------------------------------------------
(* Callbacks of a client.                                                  *)

ClientEstablished(w) ==
  /\ NbMaxClient = 0
  /\ wsi[w] = "opening"
  /\ wsi' = [wsi EXCEPT ![w] = "open"]
  /\ failedAsserts' = IF pWebSocket # w
                        THEN failedAsserts \cup {997} ELSE failedAsserts
  /\ connectDone' = TRUE
  /\ UNCHANGED <<ctx, pWebSocket, wantWrite, urlKey, clients, rx, writeOps,
                 resultVars>>

(* SetSocketBufferSize failed: lws closes the connection.                  *)
ClientEstablishedFails(w) ==
  /\ NbMaxClient = 0
  /\ wsi[w] = "opening"
  /\ wsi' = [wsi EXCEPT ![w] = "rejected"]
  /\ UNCHANGED <<ctx, connectDone, pWebSocket, wantWrite, urlKey, clients,
                 rx, writeOps, resultVars, failedAsserts>>

(* The session pointer survives the connection it points to.               *)
ClientClosed(w) ==
  /\ NbMaxClient = 0
  /\ wsi[w] \in {"open", "rejected"}
  /\ wsi' = [wsi EXCEPT ![w] = "none"]
  /\ wantWrite' = wantWrite \ {w}
  /\ connectDone' = FALSE
  /\ UNCHANGED <<ctx, pWebSocket, urlKey, clients, rx, writeOps, resultVars,
                 failedAsserts>>

(* The context is destroyed from inside its own callback.                  *)
ClientConnectionError(w) ==
  /\ NbMaxClient = 0
  /\ wsi[w] = "opening"
  /\ ClientDisconnect
  /\ UNCHANGED <<writeOps, resultVars, failedAsserts>>

-----------------------------------------------------------------------------
(* Callbacks of both.                                                      *)

(* One writeable callback sends at most the head of the write queue, and   *)
(* asks for another callback only when that write was partial.             *)
WriteableIdle(w) ==
  /\ w \in wantWrite
  /\ writeOps = <<>>
  /\ wantWrite' = wantWrite \ {w}
  /\ UNCHANGED <<ctx, connectDone, pWebSocket, wsi, urlKey, clients, rx,
                 writeOps, resultVars, failedAsserts>>

(* lws_write sent everything, failed, or sent a part after the deadline.   *)
WriteableDone(w, sts) ==
  /\ w \in wantWrite
  /\ writeOps # <<>>
  /\ wantWrite' = wantWrite \ {w}
  /\ PushResult([op |-> "WRITE", ticket |-> Head(writeOps), sts |-> sts])
  /\ writeOps' = Tail(writeOps)
  /\ UNCHANGED <<ctx, connectDone, pWebSocket, wsi, urlKey, clients, rx,
                 failedAsserts>>

(* lws_write sent a part before the deadline: the head stays.              *)
WriteablePartial(w) ==
  /\ w \in wantWrite
  /\ writeOps # <<>>
  /\ \E granted \in BOOLEAN : RequestWriteable(wantWrite \ {w}, granted)
  /\ UNCHANGED <<ctx, connectDone, pWebSocket, wsi, urlKey, clients, rx,
                 writeOps, resultVars, failedAsserts>>

(* The final fragment of a message: it is appended if there is room, then  *)
(* the oldest message is skipped if a handler took this one.               *)
Receive(w, handled) ==
  LET pushed == IF rx < MaxRx THEN rx + 1 ELSE rx
  IN /\ wsi[w] = "open"
     /\ rx' = IF handled /\ pushed > 0 THEN pushed - 1 ELSE pushed
     /\ UNCHANGED <<ctx, connectDone, pWebSocket, wsi, wantWrite, urlKey,
                    clients, writeOps, resultVars, failedAsserts>>

LwsCallback ==
  \E w \in Wsi :
    \/ \E k \in Key : HttpBindProtocol(w, k)
    \/ AddHeaders(w)
    \/ \E k \in Key : Established(w, k)
    \/ EstablishedFails(w)
    \/ Closed(w)
    \/ ClientEstablished(w)
    \/ ClientEstablishedFails(w)
    \/ ClientClosed(w)
    \/ ClientConnectionError(w)
    \/ WriteableIdle(w)
    \/ \E sts \in {"NO_ERROR", "WRITE_ERROR", "ETIMEDOUT"} : WriteableDone(w, sts)
    \/ WriteablePartial(w)
    \/ \E handled \in BOOLEAN : Receive(w, handled)
=============================================================================
