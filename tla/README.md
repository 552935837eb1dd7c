# A TLA+ model of bofwebrpc

bofwebrpc is a C++ library on top of libwebsockets, cpp-httplib, gRPC and bofstd.
Its own logic is the asynchronous operation engine of the web socket; the HTTP
and gRPC parts are thinner. This directory models that engine, the receive buffer
behind it, the transfer of files over HTTP and the life cycles of the HTTP and the
gRPC server, checks them with TLC and proves theorems about five of the
modules with TLAPS. All line numbers are those of `src/src/bofwebsocket.cpp` unless
another file is named.

## The system

| component | code | state | operations |
|---|---|---|---|
| WebSocketOperation | `bofwebsocket.cpp/.h`: `ProgramWebSocketOperation`, `V_OnProcessing`, `Run`, `Stop`, `Cancel..`, the wrappers `Connect/Read/Write/Disconnect` | the operation queue, the result queue, the current operation, `IoPending_B`, `ListeningMode_B`, tickets, the cancel flag and event | program, get a result, cancel, clear, reset, run, stop; the turns of the processing thread |
| WebSocketConnection | the same files: `LwsCallback`, `AddClient`, `RemoveClient`, `IsClientExist` | the lws context, `mWebSocketState_X`, `mClientCollection`, the write queue, the receive buffer | one per callback reason |
| WebSocketReceive | `LwsCallback` 1115-1201 and the READ poll 1596-1613 | `mpuRxBufferCollection` and its append mode | a fragment arrives, a handler takes a message, READ pops one |
| HttpClient | `bofwebclient.cpp/.h` | the options of a request; ranges of an upload or a download | `Get`, `Post`, ..., `Upload`, `Download` |
| UploadDownloadSessions | `tests/src/ut_webapp.cpp` | `mUpDownTaskCollection` | the handlers of the server that the tests write for `Upload` and `Download` |
| HttpServer | `bofwebserver.cpp/.h` | the server thread, the task queue | `Start`, `Stop`, enqueue, shut down |
| WebApp | `bofwebapp.cpp/.h` | none of its own | headers, ranges, URIs, error codes |
| GrpcServer, GrpcClient | `bofgrpc.h/.cpp` | the server and its thread, a channel | `Run`, `Stop`, `V_OnProcessing` |
| libwebsockets, bofstd, cpp-httplib, gRPC | external | | |

How the web socket works. A user thread programs an operation: it gets a ticket and
is pushed on a bounded queue, and the thread inside `lws_service` is woken. The
processing thread turns in one loop: serve lws (all callbacks run in there), pop one
command, start it if nothing is in flight (a listening server starts it anyway), poll
the operation in flight, take a raised cancel, push a result that carries the ticket.
A WRITE is different: its data go to a third queue, from which the writeable callback
sends them and pushes the result. `Connect`, `Read`, `Write` and `Disconnect` program
and then pop results until the one with their ticket comes, or their time is over. A
server is the same object with `NbMaxClient_U32` not 0: `Run` programs LISTEN, and
every client that arrives is announced by a CONNECT result under the ticket of LISTEN.

What is hard in it, and what makes each part correct:

* **Operation engine.** Three threads share queues and flags without a common lock;
  a command can be popped over the one in flight; the waiting wrappers time out at the
  same time as the processing thread; a cancel resets seven pieces of state one after
  the other; a full queue drops results. Correct means: at most one answer per ticket,
  under the right operation; no accepted operation is lost without an answer; a cancel
  is a barrier; Stop returns; whatever is in flight ends.
* **Connection.** The context can go in six ways, the session pointer survives the
  connection it points to, peers of a server share one pointer and one flag. Correct
  means: nothing of a session is left without a context; the registry of clients is the
  set of open connections and respects its limit.
* **Receive.** Fragments are appended, messages are released by three different
  parties. Correct means: a message is handed over once, whole and in order.
* **HttpClient and sessions.** Correct means: what has been transferred is the file,
  for every size and chunk, and an abandoned transfer leaves nothing behind.
* **HttpServer, GrpcServer.** Correct means: Start and Stop end, in any order, and
  after Stop no thread and no task is left.

## The modules

| module | what it is |
|---|---|
| `WsConnection` | the connection half of `BofWebSocket`; one action per callback |
| `WsOperation` | extends it with the user thread, the control thread and the processing thread; the specification; the properties; implements `OperationService` |
| `OperationService` | abstract: a ticket is given once, and answered while it is outstanding |
| `MCWsOperation` | the sets of operations and the symmetry for TLC |
| `WsOperationProofs` | types, sessions and the registry of clients of `WsOperation` |
| `WsAnswerProofs` | its tickets: answers name their operation, come once, and stop at a cancel |
| `WsServiceProofs` | what it is to its user: a patient client loses nothing, and the refinement of `OperationService` |
| `MessageQueue` | abstract: the messages that the handlers have left, first in, first out |
| `WsReceive` | the receive buffer in detail: fragments, append mode, commit, release, READ; implements `MessageQueue` |
| `MCWsReceive` | the users of the object for TLC |
| `WsReceiveProofs` | theorems about `WsReceive`, the refinement among them |
| `FileCopy` | abstract: a file is copied from its first byte on, and a call that returns true has copied all of it |
| `RangeTransfer` | `Upload` and `Download` with the two handlers of the server of the tests; implements `FileCopy` |
| `MCRangeTransfer` | the sizes and chunks for TLC |
| `RangeTransferProofs` | theorems about the sessions and the ranges of `RangeTransfer` |
| `RangeCopyProofs` | its types and the refinement of `FileCopy` |
| `HttpServer` | `Start`, `Stop` and the destructor of `BofWebServer`, its thread in `listen()`, the pool and the clients |
| `HttpServerProofs` | theorems about `HttpServer` |
| `GrpcServer` | `Run`, `Stop` and the destructor of the gRPC server, its thread, the calls |
| `GrpcServerProofs` | theorems about `GrpcServer` |

Variables have the names of the source where there is one. What the code keeps in the
local variables of `V_OnProcessing` is `res` (`Result_X`), `ioPending`, `sendResult`,
`listening`, `listenTicket`, `exiting` and the program counter `pc`:

    idle -Run-> pop -> (Start | Pop...) -> pending -> cancel -> send -> loop -> service -> pop
                                                       \-> flush -> signal -> loop       \-> stopped

* `Service` is `lws_service` with one callback of `LwsCallback`, any number of times;
  `ServiceReturn` leaves it. `PopNone`, `PopOverCommand` and the nine `Start...`
  actions are lines 1308-1561, `Poll...` lines 1563-1645, `NoCancel`, `CancelTake`,
  `CancelFlush`, `CancelSignal` lines 1647-1667, `Send` lines 1669-1680.
* The places where the code runs without a lock between two accesses that another
  thread can interleave are separate steps: the push of a command and the raising of
  `mOperationPending_B`; the raise of a cancel and the wait for its event; the take,
  the flush and the signal of a cancel; EXIT, the request to leave the loop, and the
  join. What only the processing thread touches is one step.
* A message is only counted (`rx`; `WsReceive` is its detail), data and sizes are abstracted; a parameter that the
  code checks (`valid`, a key of the right length) is a nondeterministic choice.
* Time: `overdue` says that the time of the current operation has run out. It may become
  true at any moment while an operation is in flight, and an operation that is popped
  over another may be overdue at once.
* libwebsockets (external): `wsi` is how far a connection is (`opening`, `bound`,
  `accepted`, `rejected`, `open`), `wantWrite` the connections with a requested
  writeable callback, `urlKey` the key in the URL of a peer. Destroying the context
  closes all connections and unregisters the clients.
* `BOF_ASSERT` is a check whose failure is recorded in `failedAsserts`; the
  program goes on, as it does in a release build.
* History variables: `answers` (results pushed per ticket, up to 2), `programmed` (the
  operation accepted under a ticket), `failedWrites`, `cancelled`.

Assumptions of these modules, each taken from how the code is used: operations are
programmed by one thread (`mTicket_U32` is a plain integer), cancel, clear and reset by
one other; nothing is programmed before `Run`; a client does not program LISTEN
(only `Run` of a server does); after `Stop` the object is not used again.

`RangeTransfer` has one record `client[t]` per call of `Upload` or `Download`, with the
local variables of the loop (`min`, `max`, `data` are `RangeMin`, `RangeMax`, `DataSize`),
and `tasks`, the collection of the server by session id.

    new -Create-> idle -Begin..-> send -Send..-> wait -Receive..-> send | done
                                       \-SendUploadCrashes-> crashed

* A turn of the loop is `Send..` (read the block, send the request), `Serve` (the whole
  handler of the server) and `Receive..` (check the response, write the block, compute the
  next range). The network may `Lose` either message; `GiveUp` is the timeout of
  cpp-httplib, after which a request may still be served.
* Every file can fail to open, to be read or to be written, and a write that fails has
  stored any part of the block.
* When the first block of an `Upload` cannot be read, which is the case of every empty file,
  the message of the failure takes `Res->body` of a response that does not exist
  (`bofwebclient.cpp:324-325`). That is undefined: without a logger the arguments may never be
  used and the call returns false (`SendUploadFails`), with one the process ends
  (`SendUploadCrashes`, after which no client does anything more).
* A byte is `<<t, i>>`, so that a byte of another file, a gap or a repetition shows. Sizes
  wrap: `Sz` is arithmetic on `size_t`, `U` on `uint32_t`. `HasRange` is all that is left
  of the parse of `Content-Range`: whether the response has one.
* `rand` is the state of `rand()`: the second of the last `srand` and the number of ids
  drawn since, and an id is that state. Every `BofWebApp` calls `srand` with the time
  (`bofwebapp.cpp:39`), so that two clients created in the same second draw the same ids
  unless the generator has moved on in between. All clients are in one process; the same
  collision arises between two. `DistinctIds` says that it has not happened.
* Each transfer stores under a name of its own: two uploads to one file are not modelled.
  A handler is one step: its data race on the collection is not modelled.

`WsReceive` is the buffer that `rx` of `WsConnection` counts. `stored` and `appended` are the
committed messages and the one in append mode, `used` the room both take, in fragments
(`BufferSize` is `RxBufferSize_U32`, `NbMaxBufferEntry` the number of entries).

* `ReceivePart` and `ReceiveFinal` are the callback of a fragment (1115-1201): a push that
  finds no room stores nothing and nobody looks at it, and the final fragment commits what
  there is, calls the handlers and releases the oldest message if one of them took this
  one. `ReceiveNothing` is the final fragment of a message of which nothing was
  stored: `pRawBuffer_X` is uninitialised (`garbage`).
* Contexts and connections (`CreateContext`, `Established`, `Closed`, `ClientDisconnect`) are
  in it as far as they decide which fragments can follow each other.
* A handler (`app.handler`) takes all messages, leaves all to READ, or decides for each.
* `disturbed` is history: the messages that met a full buffer, a fragment of another
  message in append mode, or a cancel.

`HttpServer` has the user thread (`user`), `mServerThread` (`thread`) and the connections:

    user    ready -Start/Stop-> stop -StopListening-> stopping -> join -StopJoin-> ready | launch | deleted
            launch -Launch-> starting -StartReturn-> ready
    thread  none -Launch-> launched -Bind-> bound -Listen-> listening -> draining -Shutdown-> ended
    conn    idle -Connect-> waiting -Accept-> queued | dropped, queued -Take-> served -Serve-> closed

* `Start` stops first if the thread is joinable. Both poll `is_running()` with a deadline,
  so that `StartReturn` and `StopPolled` can come at any moment; the join cannot be
  left but by the end of the thread.
* cpp-httplib is external: `is_running_` holds from `Listen` to `Shutdown`, and `stop()` does
  nothing without it. The queue of tasks is the one of `BofWebServerTaskQueue`: `PoolSize`
  threads and `PoolSize / 2` places (`MaxQueued`); with a limit of 0 either answer of the
  bofstd pool is allowed.

`GrpcServer` has the user thread, the thread of `V_OnProcessing` and the calls:

    user    ready -Stop-> stop -StopTest-> shutdown -StopShutdown-> drain -> join -StopJoin-> ready | deleted
    thread  none -Run-> building -Build-> built -Assign-> waiting -WaitReturns-> ended

* The test of `mpuServer` in `Stop`, the call of `Shutdown`, the building of the server and
  the assignment of `mpuServer` are separate steps, as no lock holds them together. `server`
  is what `mpuServer` holds, the server of this run or an `old` one, `stopServer` what the
  test of `Stop` has found.
* The assertion of line 246 fails when the port is not free; `failedAsserts` records it, and
  the thread goes on and ends, as the test that follows it in the code expects.

## What the runs check

The `Ws` runs use `MCWsOperation`. `NbMaxOperationPending` is 1, so
that the queues of 1, 2 and 2 entries are full in many states; `MaxRx` is 1.
`MaxTicket` bounds the operations a user programs: two are enough to have one
in flight and one taken over it, or the results of both in the full queue of results; a
patient user, who has one at a time, gets four, so that the writes of earlier calls can
be left in the queues. A client has one connection at a time, so
one `Wsi` is enough; a server gets two peers, two keys and room for one client, so that
both limits (full, key taken) are met. Deadlock is not checked: after
`Stop`, or when the tickets are used up, the system does stop.

| run | instance | properties |
|---|---|---|
| `WsClientPatient` | a user who waits for CONNECT, READ, WRITE and DISCONNECT, 4 tickets, fair | `SessionNeedsContext`, `NoSilentLoss`, `PatientIsAnswered` |
| `WsClientStop` | cancel, clear and reset against Stop; CONNECT, READ and WRITE, both kinds of call; 2 tickets, fair | `SessionNeedsContext`, `CancelledStaysDead`, `AtMostOneAnswer`, `AnswerNamesItsOperation`, `StopReturns`, `FlightEnds`, `CancelIsTaken`, `ImplementsService` |
| `WsServer` | server, symmetric peers and keys; CONNECT, READ and WRITE besides its LISTEN; 2 tickets | `TypeOK`, `RegistryIsLive`, `AnswerNamesItsOperation`, `ImplementsService` |
| `WsReceive` | a client and a server with two peers, handlers that take or leave; messages of 1 or 2 fragments, 2 per peer; room for 3 fragments and 2 messages | `TypeOK`, `WholeUnlessDisturbed`, `TakenNeedsRoomForOne`, `ImplementsQueue` |
| `RangeTransfers` | two transfers, twelve jobs, clients created in the same or in different seconds; `uint32_t` of 3 bits, `size_t` of 6; fair | `TypeOK`, `UploadLockstep`, `FinishedSessionReleased`, `OnlySharedIdsAbort`, `ImplementsCopy`, `TransferEnds` |
| `HttpServer` | three connections, a pool of 2 threads and 1 place, three launches, fair | `TypeOK`, `QuietWhenDown`, `StartedStopReturns`, `ConnectionEnds` |
| `GrpcServer` | two calls, three runs, fair | `TypeOK`, `QuietWhenDown`, `ShutdownHasServer`, `BuiltStopReturns` |

* The jobs of `RangeTransfers` (`EdgeJobs`) are files of no byte, one byte, less than a
  chunk, whole chunks, a rest of one byte, and files with 2^32 bytes or more to go (`U32` is
  8). The chunk of 0 is the default of `Upload` and wraps in `Download`. Every pair of jobs
  runs in every interleaving; two transfers are enough for one to meet the task of another.
* The clients of `RangeTransfers` may be created in the same second. `OnlySharedIdsAbort` says
  that the asserts of the handlers then fail for that reason only; `UploadLockstep`,
  `FinishedSessionReleased` and `ImplementsCopy` are about the runs in which no two calls share
  an id (`DistinctIds`), since two calls that do write through one task. That the
  asserts do fail is the finding of `RangeAsserts`.
* `ImplementsCopy` is about what is stored and when a call may return true; that a
  download of several blocks never does return true is the finding of `RangeDownload`.
* `TransferEnds` assumes weak fairness of the turns of the loop: the thread of the caller
  runs, and cpp-httplib ends every request, with a response or a timeout (`ReadTimeoutInMs`).
  Its one exception is the end of the process in `SendUploadCrashes`.
* Cancels are in `WsClientStop` only, and DISCONNECT in `WsClientPatient` only. Three tickets
  would let a third command wait in the queue while a second is taken over the first; the
  invariants of `WsClientStop` and `TypeOK` are theorems for any number of tickets, any
  operations and controls.
* `FlightEnds` has its condition for a reason. Every command that is taken over the one in
  flight brings a timer of its own (1317, 1631): a caller who repeats `Connect()` over a
  handshake that hangs, each time before the last timer has run out, keeps `IoPending_B`
  for ever. The property says that the operation in flight ends once the queue of commands
  is empty and stays so.
* `StartConnectNoContext`: without a context, or with a connection that fails inside
  `lws_client_connect_via_info` (1427), whose error callback destroys the context before null
  is returned. A null without that callback is `StartConnect(NoWsi)`, which leaves the context.
* `WsReceive`: the buffer is smaller than two messages, so that it is full with one
  message in append mode and another stored; two messages per peer let the rest of a
  message that was cut off by a close, a cancel or a disconnection meet the next one. With
  `leaves` READ empties the buffer, with `takes` the release does.
* `HttpServer`: three connections are one in service, one queued and one dropped; three
  launches are a first one, one over a thread that has not ended, and one after a clean
  Stop. `GrpcServer`: the second run is the first with an old server, the third the
  first after a run whose Stop has found one.
* `AtMostOneAnswer` and `AnswerNamesItsOperation` are about the confusion of
  `mCurrentOp_X` and `Result_X` when a command is popped over another one: the result
  still has the ticket and the operation it was started with.
* `NoSilentLoss` and `PatientIsAnswered` need a patient user. Without patience an
  operation popped over another one is never executed nor answered: that is how the
  code works, and why a caller of the wrappers who has been timed out should not program
  the next operation at once.
* `ImplementsService` says in one formula that a ticket is given once, answered only while the
  object still holds it (`Outstanding`: queued, in flight, in the write queue, or that of
  the listening mode), and never held again once it is gone. Two things stay outstanding after an
  answer: LISTEN, and a WRITE that was refused with its data queued. The run with the
  control thread has the cancels and the writes, the one of the server LISTEN.
* `CancelledStaysDead`: LISTEN is the exception, the listening mode survives a cancel. A
  reset drops the commands that wait and the results, and the property says of those
  commands that they never turn up again; what is in flight or in the write queue a reset
  leaves alone. A clear drops nothing.
* Fairness (`FairSpec`): weak fairness of the processing thread, of time and of the
  returns of the user's calls. The processing thread never waits without a deadline: the
  pop of a command, the push of a result and the pop of a message wait 150 ms at most,
  and `lws_service` 30 s at most (comment at line 1307). Nothing is assumed about the
  user's will to call, about the network or about callbacks.
* Fairness of `HttpServer` and `GrpcServer`: the two threads, once they are in a call, go on
  (a deadline passes, a bind succeeds or fails, a poll ends), the pool takes what is
  queued, and every request and every handler ends: cpp-httplib ends a request by its
  timeouts, a kept connection by its count. Each `Accept(c)` is fair on its own: the
  kernel queues connections in order. Nothing is assumed about the user, the clients and
  the failures.
* `StartedStopReturns` has its condition for a reason. A `Start` whose time is over leaves a
  thread that binds later; the `stop()` of the next `Stop` (or of the `Start` that follows)
  comes before `is_running_` holds, does nothing, and the join waits for a server that
  nobody will stop. `BuiltStopReturns` leaves out the time in which the gRPC server is being
  built for the same reason: `Stop` finds no server, or the old one, and waits for a
  thread that will be in `Wait` for ever. The repository promises neither, so they are
  recorded as hazards and not as findings.
* `ShutdownHasServer`: in the first run the server that `Stop` has found cannot go before its
  `Shutdown` is called. After a restart it can: the thread assigns `mpuServer` and destroys
  the old server between the test of `Stop` and its call.

Where the code does not do what its assertions and comments say (each run finds
the counterexample):

| run | what the source says | what happens |
|---|---|---|
| `WsClientEstablished` | assertion at 997 | a cancel during CONNECT resets the session pointer (1655) and leaves the handshake going |
| `WsServerKey` | `bofwebsocket.h:128`: the key names the client on the server | ESTABLISHED registers the client under an uninitialised buffer (972) |
| `WsReceiveRelease` | 1197: a message which a handler has processed is released | the oldest one is, which is another one if an earlier message was left to READ |
| `RangeAsserts` | asserts at `ut_webapp.cpp:338` and 453: the task of a session is of the kind of its requests | two clients created in the same second draw the same session id (`bofwebapp.cpp:39`), and a download finds the task of an upload or the reverse |
| `RangeDownload` | test at `ut_webapp.cpp:802`: a file of more than one chunk is downloaded | the last range starts one byte too early (`bofwebclient.cpp:424`) and is refused with 406 |

Further statements of the source that TLC finds broken; their definitions are kept in
`WsOperation` and `GrpcServer`, without a run of their own. To see a counterexample check the
property with the constants named here and the other ones as in `WsServer.cfg`,
`WsClientStop.cfg` or `GrpcServer.cfg`:

* `EstablishedAssert` (assertion at 964; server, two peers, one ticket): a second peer
  overwrites the session pointer (848) during the handshake of the first.
* `WriteIsOnItsWay` (comment at 1617; server for one client, patient, two tickets): a WRITE
  that fails in listening mode gets no result, it is cleared at 1565.
* `QueuedWriteIsAnswered` (the same comment; client, CONNECT and WRITE, no controls,
  `NbMaxOperationPending` 2, three tickets, under `WriteFairSpec`): of two queued WRITEs one callback sends the first, and no
  callback is asked for the second. `WriteFairSpec` adds to `FairSpec` that lws grants and
  makes the callbacks it is asked for, which shows that this is not the fault of lws.
* `BuildAssert` (assertion at `bofgrpc.h:246`): a port that is in use leaves no server.

Every property of a passing run comes with a mutant, a definition of the same module
with a plausible mistake (marked `Mutant` there) that violates it.

## What is proved

Every theorem is of the form `Spec => []P`, or `Spec => Abstract!Spec`, for every value of
the constants that satisfies the assumption of the module; the sets of connections, keys,
peers and transfers are arbitrary unless the assumption says otherwise. No theorem needs
fairness.

**WsOperation**, under `ConnectionAssumption` and `OperationAssumption` (capacities at least
1, `NbMaxClient` any natural number, a client does not program LISTEN):

* `TypeCorrect` (`TypeOK`): types, the capacities of the three queues and of the receive
  buffer. `TypeOK` is inductive. There is a lemma per thread and, for the processing
  thread, one for the part that all starts (`TypeStartCommand`) and all polls
  (`TypePoll`) share.
* `SessionCorrect` (`SessionNeedsContext`): without a context nothing of a session is
  left. Inductive under `TypeOK`: all ways to lose the context end in
  `BOF_LWS_CLIENT_DISCONNECT`; without a context no callback runs, and WRITE, the only
  start that touches a connection, needs a session pointer, which the invariant says is
  null.
* `AnswersCorrect` (`AnswerNamesItsOperation`). The results alone are not inductive: the
  invariant `Names` says of every place where a ticket travels (queued commands, the
  current operation, queued writes, results, the result in flight) that it goes with the
  operation that was programmed under it. A server that listens re-arms the ticket of
  LISTEN and answers CONNECT under it, so `ListenMode` has to say who listens, since when,
  and that nothing is in flight before.
* `AnsweredOnce` (`AtMostOneAnswer`). The invariant `Once` says which tickets cannot have
  been answered yet: those of queued commands, those of queued writes, the one in flight;
  and that these differ. The hard case is a WRITE in flight whose data the writeable
  callback sends: it answers for itself, and the poll has to withdraw its own result
  (`TurnFlags`).
* `CancelIsBarrier` (`CancelledStaysDead`), for a cancel and for what a reset drops. `Barrier`
  adds where a cancelled ticket may still be between the take of the cancel and the flush.
  It uses `Names`: what is programmed later draws a ticket that nothing has carried before.
  For a reset, which can come at any moment, it uses `Once`: a command that still waits is
  in no other place.
* `RegistryCorrect` (`RegistryIsLive`). `Registry` adds that no connection has two keys,
  that every open one has a key, and that only a server makes a handshake; finiteness of
  the registered keys is part of the invariant, so that keys and connections need not be
  finite sets.
* `PatientLosesNothing` (`NoSilentLoss`), for a client whose user waits for each answer and
  whom nobody cancels. A result is lost only at a full queue of results, so the invariant
  `Waits` counts: what is in that queue, what the operation at hand still owes (`Owed`) and
  what a requested writeable callback will push (`Asked`) are at most one while the user is
  ready and at most two while he waits (`Room`). A callback sends one write and asks for no
  other, so that the writes left in the write queue by earlier calls do not add up, and the
  queue has `NbMaxOperationPending + 1`, at least two, places. That the count is right needs
  that one operation is dealt with at a time (`OneCall`), that the poll acts on that
  operation or, with the context gone, times it out (`OwnPoll`), and that callbacks are
  requested for one connection only (`OneConnection`).
* `ServiceImplemented` (`ImplementsService`). `Names` and `Once` give that a drawn ticket is
  new, and that an answer leaves nothing of its ticket behind. For a WRITE that was refused
  with its data queued `Queued` adds that nothing has answered it before the processing
  thread does: no callback runs between its start and its result. Of the steps, `PushParam`
  is `Accept`, `Send` and the writeable callback are `Answer`, or `Withdraw` when the queue of
  results is full, `StartWrite` is `Refuse` when no callback is granted, and all others only
  give up tickets (`Withdrawn`).

**WsReceive**, under `ReceiveAssumption`:

* `TakenFits` (`TakenNeedsRoomForOne`), and `ReceiveIsQueue`: for users whose handlers take
  every message or leave every one, the buffer implements `MessageQueue`. For handlers
  that take some it does not, which is the finding of `WsReceiveRelease`.
* `ReceiveTypes` (`TypeOK`). The bounds need the counters of the code to be what they
  count: `TInv` says that the pending size is the size of what is held, the message in
  append mode included, counted from its end.
* `MessagesAreWhole` (`WholeUnlessDisturbed`). A message handed over says nothing of the one
  still being built: `WInv` adds that, as long as nothing has disturbed it, what is
  appended is a beginning of the message that lws is delivering (`Continues`) and that
  what was delivered before is not touched again (`Past`).

**RangeTransfer**, under `TransferAssumption`; clients are created at any time. Two calls that
have drawn the same id keep it, so that every theorem carries an invariant of the form
`DistinctIds => ..`:

* `OnlySharedIds` (`OnlySharedIdsAbort`) and `SessionsReleased`
  (`FinishedSessionReleased`). The invariant: a call has an id from the first turn of its loop on
  and none before (`Drawing`), so that an id which differs from all others is new to the
  server; a task belongs to the transfer that drew its id (`Owned`); an answer that ends a transfer
  finds the task gone, and only a client without an answer leaves a request behind, which
  may be served late (`Session`). A step that makes two ids equal makes the condition
  false; every other step has the condition before it too.
* `UploadsStayInStep` (`UploadLockstep`). Client and server compute the next range on
  their own, on unsigned words. `NextRange` shows that for a file of at most
  2^64 - 2^32 - 1 bytes neither wraps and both get the same range; `UploadsInStep` carries
  it through the request, the response and their loss.
* `TransfersCopy` (`ImplementsCopy`, in `RangeCopyProofs`): a transfer implements `FileCopy`.
  `CopyInv` joins the two invariants above with one on contents: what is stored is a
  beginning of the file, and what the server is about to read, or the client to send,
  continues it. For a download it also says that a task that waits for its last range
  is never asked for one the client does not expect, so that a status 200 never comes with
  less than the file. Each step of the code then is `Extend`, `Succeed` or `Fail` of one
  transfer, or a stutter, and leaves the others alone (`OthersKept`).
* `TransferTypes` (`TypeOK`, in `RangeCopyProofs`), for finitely many transfers: `SessionId`
  numbers the ids by the draws made, so their range is bounded only if the number of
  transfers is (`Bounded`). The words and the tasks have their types with shared ids too; that no
  position and no file goes beyond the end of the source needs `DistinctIds`.

**HttpServer**, under `HttpServerAssumption`: `HttpTypeCorrect` (`TypeOK` with the bounds of
the pool) and `StoppedIsQuiet` (`QuietWhenDown`). **GrpcServer**, under
`GrpcServerAssumption`: `GrpcTypeCorrect`, `GrpcStoppedIsQuiet` and `GrpcShutdownSafe`. The
strengthening says in both which thread owns the server or the socket at each step of
`Stop` and of the start that may race with it.

Only model-checked: everything under fairness (`PatientIsAnswered`, `StopReturns`,
`FlightEnds`, `CancelIsTaken`, `TransferEnds`, `StartedStopReturns`, `ConnectionEnds`,
`BuiltStopReturns`), which is out of the reach of the prover. Every invariant and every
refinement that a passing run checks is a theorem, that of `MessageQueue` for handlers that
are not mixed.

## What is not modelled

* WebSocketConnection: the byte offset of a write that lws takes in part, and the
  statistics `mNbRx..`, `mNbTx..`. The receive buffer is a count in `WsConnection` and
  modelled in `WsReceive`, with sizes in fragments; the two are not composed.
* The user callbacks `OnOpen`, `OnClose`, `OnError`, `OnOperation`: they do not change the
  object; `OnMessage` and `OnEvent` only as whether they handle a message. Calls from
  inside a callback are not modelled.
* A data race: two programming threads, or the test of `mpLwsContext_X` at line 67 while
  the processing thread destroys the context.
* A connection that lws has freed is dereferenced through `pWebSocket` (line 1533 on a
  server): the model lets the request be granted or not, without an effect.
* HttpClient: the verbs other than `Get` and `Post`, which forward in the same way, and
  `Benchmark`. A transfer that is abandoned after a 206 leaves its task on the server: the
  model shows it, and nothing in the code says otherwise.
* HttpServer: the registration of routes and mount points, which forwards to cpp-httplib
  before the start, and the log. GrpcServer: the asynchronous variant, which is compiled
  with `ASYNC` only, and the interceptors, which log.
* GrpcClient: a channel and a stub, no state of its own. WebApp: the log of a request,
  the split of a command line, the configuration. Generated, vendored and build files.

## The plan

1. `WsConnection`, `WsOperation` (done): the core.
2. `WsReceive` and `MessageQueue` (done): fragments, append mode, the release of messages,
   READ and cancel.
3. `OperationService` (done): what a ticket promises, with `WsOperation` shown to implement it.
4. `FileCopy`, `RangeTransfer` (done).
5. `HttpServer` (done): the life cycle of the server, its thread and its pool.
6. `GrpcServer` (done): Run, Stop and the thread.
7. Proofs (done): every invariant of the passing runs, and the refinements of `MessageQueue`,
   `FileCopy` and `OperationService`.
8. Left: `WsReceive` composed with `WsOperation`, so that `rx` is shown to be the number of the
   messages in the buffer.
