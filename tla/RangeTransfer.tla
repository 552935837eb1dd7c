--------------------------- MODULE RangeTransfer ----------------------------
(***************************************************************************)
(* Upload and Download of BofWebClient, which move a file in ranges of one *)
(* chunk, and the handlers PostUpload and GetDownload which the server of  *)
(* the tests writes for them.  The client keeps its ranges in local        *)
(* variables of the loop, the server keeps a task per session in           *)
(* mUpDownTaskCollection; both compute the next range on their own, and a  *)
(* request has to name exactly the range which the server expects.         *)
(*                                                                         *)
(* HTTP is external: a request and its response travel one at a time per   *)
(* client; either may be lost, and a request that the client has given up  *)
(* may still be served.  A byte is <<t, i>>, the i-th byte of the file of  *)
(* transfer t.  Every transfer stores under a name of its own.             *)
(***************************************************************************)
EXTENDS Integers, Sequences, FiniteSets

CONSTANTS
  Transfer,           \* calls of Upload and Download, each by its own client
  Job,                \* what they are called for: kind, size of the file, chunk
  DefaultChunk,       \* 64 * 1024
  U32,                \* 2^32
  SizeT,              \* 2^64
  MaxSecond           \* bound: seconds that pass

ASSUME TransferAssumption ==
  /\ U32 \in Nat \ {0}
  /\ SizeT \in Nat \ {0}
  /\ U32 < SizeT
  /\ Job \subseteq [kind : {"upload", "download"}, size : 0 .. SizeT - U32 - 1,
                    chunk : 0 .. U32 - 1]
  /\ DefaultChunk \in 1 .. U32 - 1
  /\ MaxSecond \in Nat \ {0}

VARIABLES
  job,     \* the parameters of a transfer: never change
  clock,   \* time(nullptr)
  rand,    \* state of rand(): the seed and the numbers of ids drawn since
  client,  \* the local variables of Upload or Download
  net,     \* the request or the response on its way
  tasks,   \* mUpDownTaskCollection of the server
  store,   \* the bytes in the file a transfer writes
  aborted  \* an assert of the server has failed

vars == <<job, clock, rand, client, net, tasks, store, aborted>>

-----------------------------------------------------------------------------
\* Mutant: no wrap.
SzUnbounded(n) == n

\* Arithmetic on size_t and uint32_t.
Sz(n)  == n % SizeT
U(n)   == n % U32
Least(a, b) == IF a <= b THEN a ELSE b
Last(size) == Sz(size - 1)

Source(t) == [i \in 1 .. job[t].size |-> <<t, i>>]

\* fread of n bytes at an offset of the file of t, as one element.
Bytes(t, pos, n) == SubSeq(Source(t), pos + 1, pos + n)
CanRead(t, pos, n) == n > 0 /\ pos + n <= job[t].size

\* An id is the seed and the number of ids drawn from it before.
SessionId == (0 .. MaxSecond) \X (0 .. Cardinality(Transfer))
NoSid == <<0, 0>>

NoMsg == [dir |-> "none"]

\* Mutant: the id of the session is left out.
RequestWithoutId(c, min, max, size, body) ==
  [dir |-> "request", sid |-> NoSid, min |-> min, max |-> max, size |-> size,
   body |-> body]

Request(c, min, max, size, body) ==
  [dir |-> "request", sid |-> c.sid, min |-> min, max |-> max, size |-> size,
   body |-> body]
Response(status, range, body) ==
  [dir |-> "response", status |-> status, range |-> range, body |-> body]
Accepted == {200, 206}

NewClient ==
  [pc |-> "new", connected |-> FALSE, sid |-> NoSid, min |-> 0, max |-> 0,
   data |-> 0, pos |-> 0, status |-> 0, result |-> FALSE]

Init ==
  /\ job \in [Transfer -> Job]
  /\ clock = 1
  /\ rand = <<0, 0>>
  /\ client = [t \in Transfer |-> NewClient]
  /\ net = [t \in Transfer |-> NoMsg]
  /\ tasks = <<>>
  /\ store = [t \in Transfer |-> <<>>]
  /\ aborted = FALSE

-----------------------------------------------------------------------------
(* The client.                                                             *)

Return(t, status, result) ==
  client' = [client EXCEPT ![t].pc = "done", ![t].status = status,
                           ![t].result = result]

\* The constructor: every BofWebApp seeds the generator with the time.
Create(t) ==
  /\ client[t].pc = "new"
  /\ rand' = <<clock, 0>>
  /\ client' = [client EXCEPT ![t].pc = "idle"]
  /\ UNCHANGED <<job, clock, net, tasks, store, aborted>>

Connect(t) ==
  /\ client[t].pc = "idle"
  /\ client' = [client EXCEPT ![t].connected = TRUE]
  /\ UNCHANGED <<job, clock, rand, net, tasks, store, aborted>>

Disconnect(t) ==
  /\ client[t].pc = "idle"
  /\ client[t].connected
  /\ client' = [client EXCEPT ![t].connected = FALSE]
  /\ UNCHANGED <<job, clock, rand, net, tasks, store, aborted>>

GenerateSessionId == rand' = <<rand[1], rand[2] + 1>>

UploadChunk(t) == IF job[t].chunk = 0 THEN DefaultChunk ELSE job[t].chunk

BeginUpload(t) ==
  /\ client[t].pc = "idle"
  /\ client[t].connected
  /\ job[t].kind = "upload"
  /\ GenerateSessionId
  /\ LET size == job[t].size
         max  == IF size <= UploadChunk(t) THEN Last(size)
                                           ELSE UploadChunk(t) - 1
     IN client' = [client EXCEPT ![t].pc = "send", ![t].sid = rand,
                                 ![t].data = size, ![t].max = max]
  /\ UNCHANGED <<job, clock, net, tasks, store, aborted>>

\* The first range is asked for without knowing the size.  A chunk of zero
\* bytes wraps: _ChunkSizeInByte_U32 - 1 is computed on 32 bits.
BeginDownload(t) ==
  /\ client[t].pc = "idle"
  /\ client[t].connected
  /\ job[t].kind = "download"
  /\ GenerateSessionId
  /\ client' = [client EXCEPT ![t].pc = "send", ![t].sid = rand,
                              ![t].max = U(job[t].chunk - 1)]
  /\ store' = [store EXCEPT ![t] = <<>>]
  /\ UNCHANGED <<job, clock, net, tasks, aborted>>

\* Not connected, or the local file cannot be opened.
BeginRefused(t) ==
  /\ client[t].pc = "idle"
  /\ Return(t, 0, FALSE)
  /\ UNCHANGED <<job, clock, rand, net, tasks, store, aborted>>

ReadSize(c) == Sz(c.max - c.min + 1)

\* A chunk is read from the local file and posted.
SendUpload(t) ==
  LET c == client[t]
      n == ReadSize(c)
  IN /\ c.pc = "send"
     /\ job[t].kind = "upload"
     /\ CanRead(t, c.pos, n)
     /\ client' = [client EXCEPT ![t].pc = "wait", ![t].pos = c.pos + n]
     /\ net' = [net EXCEPT ![t] =
                  Request(c, c.min, c.max, c.data, Bytes(t, c.pos, n))]
     /\ UNCHANGED <<job, clock, rand, tasks, store, aborted>>

\* The local file cannot be read: an input error, or nothing to read.
SendUploadFails(t) ==
  /\ client[t].pc = "send"
  /\ job[t].kind = "upload"
  /\ Return(t, client[t].status, FALSE)
  /\ UNCHANGED <<job, clock, rand, net, tasks, store, aborted>>

\* The message of the failure takes the size of the body of the last response.
\* In the first turn there is none: what the null pointer does is undefined,
\* and the process may end here.
SendUploadCrashes(t) ==
  /\ client[t].pc = "send"
  /\ job[t].kind = "upload"
  /\ client[t].status = 0
  /\ client' = [client EXCEPT ![t].pc = "crashed"]
  /\ UNCHANGED <<job, clock, rand, net, tasks, store, aborted>>

Crashed == \E t \in Transfer : client[t].pc = "crashed"

SendDownload(t) ==
  LET c == client[t]
  IN /\ c.pc = "send"
     /\ job[t].kind = "download"
     /\ client' = [client EXCEPT ![t].pc = "wait"]
     /\ net' = [net EXCEPT ![t] = Request(c, c.min, c.max, c.data, <<>>)]
     /\ UNCHANGED <<job, clock, rand, tasks, store, aborted>>

\* The connection breaks or a timeout ends: no response.  A request may still
\* be on its way.
GiveUp(t) ==
  /\ client[t].pc = "wait"
  /\ Return(t, 0, FALSE)
  /\ net' = [net EXCEPT ![t] = IF @.dir = "request" THEN @ ELSE NoMsg]
  /\ UNCHANGED <<job, clock, rand, tasks, store, aborted>>

\* The range that follows on a 206.
UploadAgain(t) ==
  LET c   == client[t]
      min == Sz(c.max + 1)
      max == Sz(min + ReadSize(c) - 1)
  IN client' = [client EXCEPT ![t].pc = "send", ![t].status = 206,
                              ![t].min = min,
                              ![t].max = Least(max, Last(c.data))]

\* Mutant: a 206 ends the upload like a 200.
UploadAnsweredOnce(t, r) ==
  LET c == client[t]
  IN Return(t, r.status, /\ r.status \in Accepted
                         /\ r.range = <<c.min, c.max, c.data>>)

UploadAnswered(t, r) ==
  LET c == client[t]
  IN IF r.status \in Accepted /\ r.range = <<c.min, c.max, c.data>>
     THEN IF r.status = 200 THEN Return(t, 200, c.max >= Last(c.data))
                            ELSE UploadAgain(t)
     ELSE Return(t, r.status, FALSE)

ReceiveUpload(t) ==
  /\ client[t].pc = "wait"
  /\ job[t].kind = "upload"
  /\ net[t].dir = "response"
  /\ UploadAnswered(t, net[t])
  /\ net' = [net EXCEPT ![t] = NoMsg]
  /\ UNCHANGED <<job, clock, rand, tasks, store, aborted>>

\* What S_ParseContentRangeRequest finds in the header of a response.
HasRange(r) == Len(r.range) = 3

\* The size of the file and the end of the only range are taken from the
\* first response.
Sized(c, r) ==
  IF c.data # 0 THEN c
  ELSE [c EXCEPT !.data = r.range[3],
                 !.max = IF Sz(r.range[2] + 1) >= r.range[3]
                         THEN Last(r.range[3]) ELSE @]

DownloadOk(c, r) ==
  /\ r.status \in Accepted
  /\ r.body # <<>>
  /\ HasRange(r) /\ r.range[3] # 0
  /\ r.range = <<Sized(c, r).min, Sized(c, r).max, Sized(c, r).data>>
  /\ U(ReadSize(Sized(c, r))) = Len(r.body)

\* The range that follows.  The last one is asked for from NewRangeMax.
DownloadNext(c, r) ==
  LET s   == Sized(c, r)
      min == Sz(s.max + 1)
      max == Sz(min + U(ReadSize(s)) - 1)
  IN IF max >= Last(s.data)
     THEN [s EXCEPT !.min = r.range[2], !.max = Last(s.data)]
     ELSE [s EXCEPT !.min = min, !.max = max]

DownloadAgain(t, n) ==
  client' = [client EXCEPT ![t] = [n EXCEPT !.pc = "send", !.status = 206]]

\* The body is accepted and written.
ReceiveDownload(t) ==
  LET c == client[t]
      r == net[t]
      n == DownloadNext(c, r)
  IN /\ c.pc = "wait"
     /\ job[t].kind = "download"
     /\ r.dir = "response"
     /\ DownloadOk(c, r)
     /\ store' = [store EXCEPT ![t] = @ \o r.body]
     /\ IF r.status = 200
        THEN client' = [client EXCEPT ![t] =
               [n EXCEPT !.pc = "done", !.status = 200,
                         !.result = (n.max >= Last(n.data))]]
        ELSE DownloadAgain(t, n)
     /\ net' = [net EXCEPT ![t] = NoMsg]
     /\ UNCHANGED <<job, clock, rand, tasks, aborted>>

\* Mutant: the request is sent again.
DownloadRetried(t, status) ==
  client' = [client EXCEPT ![t].pc = "send", ![t].status = status]

DownloadRefused(t, status) == Return(t, status, FALSE)

\* The response is an error or does not fit, or the local file cannot be
\* written in full.
ReceiveDownloadFails(t) ==
  LET c == client[t]
      r == net[t]
  IN /\ c.pc = "wait"
     /\ job[t].kind = "download"
     /\ r.dir = "response"
     /\ IF DownloadOk(c, r)
        THEN \E n \in 0 .. Len(r.body) - 1 :
               store' = [store EXCEPT ![t] = @ \o SubSeq(r.body, 1, n)]
        ELSE UNCHANGED store
     /\ DownloadRefused(t, r.status)
     /\ net' = [net EXCEPT ![t] = NoMsg]
     /\ UNCHANGED <<job, clock, rand, tasks, aborted>>

-----------------------------------------------------------------------------
(* The server.                                                             *)

Known(sid) == sid \in DOMAIN tasks

Keep(sid, task) ==
  tasks' = [s \in DOMAIN tasks \cup {sid} |->
              IF s = sid THEN task ELSE tasks[s]]

\* Mutant: the task is closed and stays in the collection.
TerminateKeeps(sid) == UNCHANGED tasks

\* The task of the session, if there is one, is closed and erased.
Terminate(sid) == tasks' = [s \in DOMAIN tasks \ {sid} |-> tasks[s]]

Reply(t, status, range, body) ==
  /\ net' = [net EXCEPT ![t] = Response(status, range, body)]
  /\ UNCHANGED aborted

Refuse(t, status) ==
  /\ Terminate(net[t].sid)
  /\ Reply(t, status, <<>>, <<>>)

\* A request has to name the range which the server expects.
Expected(task, r) ==
  /\ r.min = task.min
  /\ r.max = task.max
  /\ r.max <= task.size
  /\ r.size = task.size

\* Mutant: the last range is not cut at the end of the file.
AdvancedUncut(task, n) ==
  [task EXCEPT !.min = Sz(task.max + 1), !.max = Sz(task.max + n), !.pos = @ + n]

\* The task after a range of n bytes.
Advanced(task, n) ==
  LET max == Sz(task.max + n)
  IN [task EXCEPT !.min = Sz(task.max + 1),
                  !.max = Least(max, Last(task.size)), !.pos = @ + n]

\* The answer to a range of n bytes that was read or written.
Proceed(t, task, n, body) ==
  LET r     == net[t]
      range == <<task.min, task.max, task.size>>
  IN IF r.max >= Last(task.size)
     THEN Terminate(r.sid) /\ Reply(t, 200, range, body)
     ELSE Keep(r.sid, Advanced(task, n)) /\ Reply(t, 206, range, body)

\* assert: the session belongs to the other kind of transfer.
Abort(t) ==
  /\ aborted' = TRUE
  /\ UNCHANGED <<net, tasks, store>>

PostUpload(t) ==
  LET r     == net[t]
      old   == Known(r.sid)
      task  == IF old THEN tasks[r.sid]
               ELSE [of |-> t, buffer |-> FALSE, min |-> r.min,
                     max |-> r.max, size |-> r.size, chunk |-> U(r.max + 1),
                     pos |-> 0]
      first == r.min = 0 /\ r.max # 0 /\ r.size # 0 /\ r.max < r.size
      n     == IF old THEN Least(task.chunk, U(task.size - task.min))
                      ELSE Least(task.chunk, task.size)
      file  == IF old THEN store[task.of] ELSE <<>>
  IN IF old /\ task.buffer THEN Abort(t)
     ELSE IF ~(IF old THEN Expected(task, r) ELSE first)
     THEN Refuse(t, 406) /\ UNCHANGED store
     ELSE \/ ~old /\ Refuse(t, 401) /\ UNCHANGED store
          \/ /\ n # Len(r.body)
             /\ Refuse(t, 500)
             /\ store' = [store EXCEPT ![task.of] = file]
          \/ /\ n = Len(r.body)
             /\ \E k \in 0 .. n - 1 :
                  store' = [store EXCEPT ![task.of] =
                              file \o SubSeq(r.body, 1, k)]
             /\ Refuse(t, 507)
          \/ /\ n = Len(r.body)
             /\ store' = [store EXCEPT ![task.of] = file \o r.body]
             /\ Proceed(t, task, n, <<>>)

GetDownload(t) ==
  LET r     == net[t]
      old   == Known(r.sid)
      size  == job[t].size
      fits  == size <= U(r.max + 1)
      task  == IF old THEN tasks[r.sid]
               ELSE [of |-> t, buffer |-> TRUE, min |-> r.min,
                     max |-> IF fits THEN Last(size) ELSE r.max,
                     size |-> size, chunk |-> U(r.max + 1), pos |-> 0]
      first == r.min = 0 /\ r.max # 0 /\ r.size = 0
      n     == IF old THEN Least(task.chunk, U(task.size - task.min))
               ELSE IF fits THEN size ELSE task.chunk
  IN IF old /\ ~task.buffer THEN Abort(t)
     ELSE /\ UNCHANGED store
          /\ IF ~(IF old THEN Expected(task, r) ELSE first)
             THEN Refuse(t, 406)
             ELSE \/ ~old /\ Refuse(t, 401)
                  \/ Refuse(t, 500)
                  \/ /\ CanRead(task.of, task.pos, n)
                     /\ Proceed(t, task, n, Bytes(task.of, task.pos, n))

\* The handler runs, also when the client no longer waits.
Serve(t) ==
  /\ ~aborted
  /\ net[t].dir = "request"
  /\ IF job[t].kind = "upload" THEN PostUpload(t) ELSE GetDownload(t)
  /\ UNCHANGED <<job, clock, rand, client>>

-----------------------------------------------------------------------------
(* HTTP loses a request or a response.                                     *)
Lose(t) ==
  /\ net[t].dir # "none"
  /\ net' = [net EXCEPT ![t] = NoMsg]
  /\ UNCHANGED <<job, clock, rand, client, tasks, store, aborted>>

Tick ==
  /\ clock < MaxSecond
  /\ clock' = clock + 1
  /\ UNCHANGED <<job, rand, client, net, tasks, store, aborted>>

\* The turns of the loop of Upload or Download.
Loop(t) ==
  /\ ~Crashed
  /\ \/ SendUpload(t) \/ SendUploadFails(t) \/ SendUploadCrashes(t)
     \/ SendDownload(t) \/ GiveUp(t) \/ ReceiveUpload(t)
     \/ ReceiveDownload(t) \/ ReceiveDownloadFails(t)

\* The clients are in one process.
Start(t) ==
  /\ ~Crashed
  /\ \/ Create(t) \/ Connect(t) \/ Disconnect(t)
     \/ BeginUpload(t) \/ BeginDownload(t) \/ BeginRefused(t)

Next == Tick \/ \E t \in Transfer : Start(t) \/ Loop(t) \/ Serve(t) \/ Lose(t)

Spec == Init /\ [][Next]_vars

\* The thread that has called Upload or Download runs, and a request ends with
\* a response or a timeout.
FairSpec == Spec /\ \A t \in Transfer : WF_vars(Loop(t))

-----------------------------------------------------------------------------
(* Properties.                                                             *)

\* No two calls have drawn the same id.  Once two have, they keep it.
DistinctIds ==
  \A t, u \in Transfer : client[t].sid = client[u].sid => t = u \/ client[t].sid = NoSid

Word == 0 .. SizeT - 1

\* Types: every range fits a size_t, also where the code subtracts one from a
\* size or a chunk of zero (bofwebclient.cpp 268-275 and 375); if no two calls
\* share an id, no position and no copy goes beyond the end of a file.
TypeOK ==
  /\ job \in [Transfer -> Job]
  /\ clock \in 1 .. MaxSecond
  /\ rand \in SessionId
  /\ client \in [Transfer ->
       [pc : {"new", "idle", "send", "wait", "done", "crashed"},
        connected : BOOLEAN, sid : SessionId, min : Word, max : Word,
        data : Word, pos : Word, status : {0, 200, 206, 401, 406, 500, 507},
        result : BOOLEAN]]
  /\ \A t \in Transfer : net[t].dir \in {"none", "request", "response"}
  /\ DOMAIN tasks \subseteq SessionId
  /\ \A s \in DOMAIN tasks :
       tasks[s] \in [of : Transfer, buffer : BOOLEAN, min : Word, max : Word,
                     size : Word, chunk : 0 .. U32 - 1, pos : Nat]
  /\ aborted \in BOOLEAN
  /\ DistinctIds => /\ \A s \in DOMAIN tasks : tasks[s].pos \in Word
                    /\ \A t \in Transfer : Len(store[t]) <= job[t].size

\* Between two ranges of an upload whose id nobody else has drawn the server has
\* a task for the session which writes to the file of that upload and waits for
\* the range that the client sends next: both sides advance their ranges on
\* their own (bofwebclient.cpp 305-313, ut_webapp.cpp 478-488).
UploadLockstep ==
  DistinctIds =>
    \A t \in Transfer :
      LET c == client[t]
      IN job[t].kind = "upload" /\ c.pc = "send" /\ c.status = 206
           => /\ Known(c.sid)
              /\ tasks[c.sid].of = t
              /\ <<tasks[c.sid].min, tasks[c.sid].max, tasks[c.sid].size>> =
                   <<c.min, c.max, c.data>>

\* A transfer that ended with the last range or with an error answer has left
\* no task, no open file and no buffer on the server (TerminateUpDownTask).
FinishedSessionReleased ==
  DistinctIds =>
    \A t \in Transfer :
      client[t].pc = "done" /\ client[t].status \notin {0, 206}
        => ~Known(client[t].sid)

\* "assert(UpDownTask_X.pBuffer_U8 != nullptr)" (ut_webapp.cpp 338) and
\* "assert(UpDownTask_X.pBuffer_U8 == nullptr)" (ut_webapp.cpp 453): the task
\* of a session is of the kind of its requests.
AssertsHold == ~aborted

\* These asserts fail for one reason only: two calls have drawn the same id
\* (bofwebapp.cpp 39), never because a request came late or was lost.
OnlySharedIdsAbort == aborted => ~DistinctIds

\* "EXPECT_TRUE(mpuWebClient->Download(..more_than_one_chunk_size.log..))"
\* (ut_webapp.cpp 802): the ranges that Download asks for are those which the
\* server expects.
DownloadNotRefused ==
  \A t \in Transfer :
    job[t].kind = "download" /\ job[t].chunk >= 2 => client[t].status # 406

\* Upload and Download implement the copy of a file, as long as no two calls
\* share an id: what is stored is always a prefix of the file, and a call that
\* returns true has stored all of it.
Outcome(t) ==
  IF client[t].pc # "done" THEN "none"
  ELSE IF client[t].result THEN "true" ELSE "false"

Copy == INSTANCE FileCopy WITH
          source  <- [t \in Transfer |-> Source(t)],
          dest    <- store,
          outcome <- [t \in Transfer |-> Outcome(t)]

ImplementsCopy ==
  Copy!Init /\ [][DistinctIds' => Copy!Next]_(Copy!copyVars)

\* Every Upload and every Download returns: each turn of while (1) moves on or
\* leaves the loop (bofwebclient.cpp 276-328 and 378-463), unless the process
\* has ended at an Upload whose first block could not be read.
TransferEnds ==
  \A t \in Transfer : client[t].pc = "send" ~> (client[t].pc = "done" \/ Crashed)
=============================================================================
