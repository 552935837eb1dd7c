------------------------ MODULE RangeTransferProofs -------------------------
(***************************************************************************)
(* The sessions of uploads and downloads, for any transfers, sizes and     *)
(* chunks.  As long as no two calls share an id, a task of the server      *)
(* belongs to one transfer, it is released with an answer that ends the    *)
(* transfer, and the ranges of both sides of an upload stay in step; an    *)
(* assert fails for no other reason than a shared id.                      *)
(***************************************************************************)
EXTENDS RangeTransfer, SequenceTheorems, TLAPS

-----------------------------------------------------------------------------
(* Arithmetic on words.                                                    *)

LEMMA SzIsWord == ASSUME NEW n \in Int PROVE Sz(n) \in Word
BY TransferAssumption DEF TransferAssumption, Sz, Word

LEMMA SzOfSmall == ASSUME NEW n \in 0 .. SizeT - 1 PROVE Sz(n) = n
BY TransferAssumption DEF TransferAssumption, Sz

LEMMA UIsSmall == ASSUME NEW n \in Int PROVE U(n) \in 0 .. U32 - 1
BY TransferAssumption DEF TransferAssumption, U

LEMMA LastOfFile ==
  ASSUME NEW size \in Word
  PROVE  /\ Last(size) \in Word
         /\ size > 0 => Last(size) = size - 1
<1>1. size \in Int /\ size - 1 \in Int BY TransferAssumption DEF TransferAssumption, Word
<1>2. size > 0 => size - 1 \in 0 .. SizeT - 1
  BY <1>1, TransferAssumption DEF TransferAssumption, Word
<1> QED BY <1>1, <1>2, SzIsWord, SzOfSmall DEF Last

-----------------------------------------------------------------------------
(* Types.                                                                  *)

Id == Nat \X Nat

Byte == Transfer \X Nat

Status == {0, 200, 206, 401, 406, 500, 507}

ClientRecord ==
  [pc : {"new", "idle", "send", "wait", "done", "crashed"}, connected : BOOLEAN,
   sid : Id, min : Word, max : Word, data : Word, pos : Word,
   status : Status, result : BOOLEAN]

TaskRecord ==
  [of : Transfer, buffer : BOOLEAN, min : Word, max : Word, size : Word,
   chunk : 0 .. U32 - 1, pos : Nat]

RequestRecord ==
  [dir : {"request"}, sid : Id, min : Word, max : Word, size : Word,
   body : Seq(Byte)]

ResponseRecord ==
  [dir : {"response"}, status : Status,
   range : {<<>>} \cup (Word \X Word \X Word), body : Seq(Byte)]

Message == {NoMsg} \cup RequestRecord \cup ResponseRecord

Types ==
  /\ job \in [Transfer -> Job]
  /\ clock \in Nat
  /\ rand \in Id
  /\ client \in [Transfer -> ClientRecord]
  /\ net \in [Transfer -> Message]
  /\ \A s \in DOMAIN tasks : tasks[s] \in TaskRecord

LEMMA JobType ==
  ASSUME Types, NEW t \in Transfer
  PROVE  /\ job[t].size \in Word /\ job[t].size <= SizeT - U32 - 1
         /\ job[t].chunk \in 0 .. U32 - 1
         /\ job[t].kind \in {"upload", "download"}
BY TransferAssumption DEF TransferAssumption, Types, Word

(* What is read from a file.                                               *)
LEMMA BytesRead ==
  ASSUME Types, NEW t \in Transfer, NEW pos \in Nat, NEW n \in Int,
         CanRead(t, pos, n)
  PROVE  Bytes(t, pos, n) \in Seq(Byte) /\ Len(Bytes(t, pos, n)) = n
<1>1. job[t].size \in Nat
  BY JobType, TransferAssumption DEF TransferAssumption, Word
<1>2. Source(t) \in Seq(Byte) /\ Len(Source(t)) = job[t].size
  BY <1>1 DEF Source, Byte
<1>3. pos + 1 \in 1 .. Len(Source(t)) + 1 /\ pos + n \in pos .. Len(Source(t))
  BY <1>1, <1>2 DEF CanRead
<1> QED BY <1>2, <1>3, SubSeqProperties DEF Bytes, CanRead

LEMMA TypesInit == Init => Types
<1>1. 0 \in Word BY TransferAssumption DEF TransferAssumption, Word
<1>2. NewClient \in ClientRecord BY <1>1 DEF NewClient, NoSid, ClientRecord, Id, Status
<1> QED BY <1>2 DEF Init, Types, Message, Id

LEMMA AcceptedStatus == {0, 200, 206} \subseteq Status
BY DEF Status

(* A step of the client of t.                                              *)
LEMMA TypesOfClient ==
  ASSUME Types, NEW t \in Transfer,
         NEW c \in ClientRecord, client' = [client EXCEPT ![t] = c],
         NEW m \in Message, net' = [net EXCEPT ![t] = m],
         clock' \in Nat, rand' \in Id, UNCHANGED <<job, tasks>>
  PROVE  Types'
BY DEF Types

LEMMA TypesReturn ==
  ASSUME Types, NEW t \in Transfer, NEW status \in Status, NEW result \in BOOLEAN,
         Return(t, status, result),
         NEW m \in Message, net' = [net EXCEPT ![t] = m],
         UNCHANGED <<job, clock, rand, tasks>>
  PROVE  Types'
<1>1. client[t] \in ClientRecord BY DEF Types
<1>2. [client[t] EXCEPT !.pc = "done", !.status = status, !.result = result]
        \in ClientRecord
  BY <1>1 DEF ClientRecord
<1>3. client' = [client EXCEPT ![t] =
        [client[t] EXCEPT !.pc = "done", !.status = status, !.result = result]]
  BY DEF Return, Types
<1>4. clock' \in Nat /\ rand' \in Id BY DEF Types
<1> QED BY <1>2, <1>3, <1>4, TypesOfClient

LEMMA TypesCreate ==
  ASSUME Types, NEW t \in Transfer, Create(t) \/ Connect(t) \/ Disconnect(t)
  PROVE  Types'
<1>1. client[t] \in ClientRecord BY DEF Types
<1>2. [client[t] EXCEPT !.pc = "idle"] \in ClientRecord BY <1>1 DEF ClientRecord
<1>3. \A b \in BOOLEAN : [client[t] EXCEPT !.connected = b] \in ClientRecord
  BY <1>1 DEF ClientRecord
<1>4. <<clock, 0>> \in Id BY DEF Types, Id
<1> QED BY <1>2, <1>3, <1>4 DEF Types, Create, Connect, Disconnect

LEMMA TypesBegin ==
  ASSUME Types, NEW t \in Transfer, BeginUpload(t) \/ BeginDownload(t)
  PROVE  Types'
<1>1. client[t] \in ClientRecord /\ rand \in Id BY DEF Types
<1>2. <<rand[1], rand[2] + 1>> \in Id BY DEF Types, Id
<1>3. CASE BeginUpload(t)
  <2> DEFINE max == IF job[t].size <= UploadChunk(t) THEN Last(job[t].size)
                                                     ELSE UploadChunk(t) - 1
             c == [client[t] EXCEPT !.pc = "send", !.sid = rand,
                                    !.data = job[t].size, !.max = max]
  <2>1. UploadChunk(t) - 1 \in Word
    BY JobType, TransferAssumption DEF TransferAssumption, Word, UploadChunk
  <2>2. max \in Word BY <2>1, JobType, LastOfFile
  <2>3. c \in ClientRecord BY <1>1, <2>2, JobType DEF ClientRecord
  <2>4. client' = [client EXCEPT ![t] = c] BY <1>3 DEF BeginUpload, Types
  <2> HIDE DEF c
  <2>5. UNCHANGED <<job, clock, net, tasks>> /\ rand' \in Id
    BY <1>2, <1>3 DEF BeginUpload, GenerateSessionId
  <2> QED BY <2>3, <2>4, <2>5 DEF Types
<1>4. CASE BeginDownload(t)
  <2> DEFINE c == [client[t] EXCEPT !.pc = "send", !.sid = rand,
                                    !.max = U(job[t].chunk - 1)]
  <2>1. U(job[t].chunk - 1) \in Word
    <3>1. job[t].chunk - 1 \in Int BY JobType, TransferAssumption DEF TransferAssumption
    <3> QED BY <3>1, UIsSmall, TransferAssumption DEF TransferAssumption, Word
  <2>3. c \in ClientRecord BY <1>1, <2>1 DEF ClientRecord
  <2>4. client' = [client EXCEPT ![t] = c] BY <1>4 DEF BeginDownload, Types
  <2> HIDE DEF c
  <2>5. UNCHANGED <<job, clock, net, tasks>> /\ rand' \in Id
    BY <1>2, <1>4 DEF BeginDownload, GenerateSessionId
  <2> QED BY <2>3, <2>4, <2>5 DEF Types
<1> QED BY <1>3, <1>4

LEMMA SizeRead ==
  ASSUME NEW c \in ClientRecord PROVE ReadSize(c) \in Word
<1>1. c.max - c.min + 1 \in Int
  BY TransferAssumption DEF TransferAssumption, ClientRecord, Word
<1> QED BY <1>1, SzIsWord DEF ReadSize

LEMMA TypesSend ==
  ASSUME Types, NEW t \in Transfer, SendUpload(t) \/ SendDownload(t)
  PROVE  Types'
<1>1. client[t] \in ClientRecord BY DEF Types
<1>2. CASE SendUpload(t)
  <2> DEFINE n == ReadSize(client[t])
             b == Bytes(t, client[t].pos, n)
             c == [client[t] EXCEPT !.pc = "wait", !.pos = client[t].pos + n]
             m == Request(client[t], client[t].min, client[t].max,
                          client[t].data, b)
  <2>1. n \in Nat /\ n \in Int /\ client[t].pos \in Nat
    BY <1>1, SizeRead, TransferAssumption
       DEF TransferAssumption, ClientRecord, Word
  <2>2. b \in Seq(Byte) BY <1>2, <2>1, BytesRead DEF SendUpload
  <2>3. c \in ClientRecord
    <3>1. client[t].pos + n <= job[t].size /\ job[t].size \in Word
      BY <1>2, JobType DEF SendUpload, CanRead
    <3>2. client[t].pos + n \in Word
      BY <2>1, <3>1, TransferAssumption DEF TransferAssumption, Word
    <3> QED BY <1>1, <3>2 DEF ClientRecord
  <2>4. m \in Message
    BY <1>1, <2>2 DEF Message, Request, RequestRecord, ClientRecord
  <2>5. client' = [client EXCEPT ![t] = c] /\ net' = [net EXCEPT ![t] = m]
        /\ UNCHANGED <<job, clock, rand, tasks>>
    BY <1>2 DEF SendUpload, Types
  <2> HIDE DEF c, m
  <2> QED BY <2>3, <2>4, <2>5 DEF Types
<1>3. CASE SendDownload(t)
  <2> DEFINE c == [client[t] EXCEPT !.pc = "wait"]
             m == Request(client[t], client[t].min, client[t].max,
                          client[t].data, <<>>)
  <2>3. c \in ClientRecord BY <1>1 DEF ClientRecord
  <2>4. m \in Message
    BY <1>1 DEF Message, Request, RequestRecord, ClientRecord
  <2>5. client' = [client EXCEPT ![t] = c] /\ net' = [net EXCEPT ![t] = m]
        /\ UNCHANGED <<job, clock, rand, tasks>>
    BY <1>3 DEF SendDownload, Types
  <2> HIDE DEF c, m
  <2> QED BY <2>3, <2>4, <2>5 DEF Types
<1> QED BY <1>2, <1>3

LEMMA TypesCrash ==
  ASSUME Types, NEW t \in Transfer, SendUploadCrashes(t)
  PROVE  Types'
<1>1. client[t] \in ClientRecord BY DEF Types
<1>2. [client[t] EXCEPT !.pc = "crashed"] \in ClientRecord BY <1>1 DEF ClientRecord
<1> QED BY <1>2 DEF Types, SendUploadCrashes

(* A call that ends without a response.                                    *)
LEMMA TypesEnd ==
  ASSUME Types, NEW t \in Transfer,
         BeginRefused(t) \/ SendUploadFails(t) \/ GiveUp(t)
  PROVE  Types'
<1>1. client[t].status \in Status /\ 0 \in Status
  BY DEF Types, ClientRecord, Status
<1>2. net = [net EXCEPT ![t] = net[t]] /\ net[t] \in Message /\ NoMsg \in Message
  BY DEF Types, Message
<1>3. CASE BeginRefused(t)
  BY <1>1, <1>2, <1>3, TypesReturn DEF BeginRefused
<1>4. CASE SendUploadFails(t)
  BY <1>1, <1>2, <1>4, TypesReturn DEF SendUploadFails
<1>5. CASE GiveUp(t)
  <2> DEFINE m == IF net[t].dir = "request" THEN net[t] ELSE NoMsg
  <2>1. m \in Message /\ net' = [net EXCEPT ![t] = m] BY <1>2, <1>5 DEF GiveUp, Types
  <2> HIDE DEF m
  <2> QED BY <1>1, <1>5, <2>1, TypesReturn DEF GiveUp
<1> QED BY <1>3, <1>4, <1>5

(* A response.                                                             *)
LEMMA IsResponse ==
  ASSUME Types, NEW t \in Transfer, net[t].dir = "response"
  PROVE  net[t] \in ResponseRecord
BY DEF Types, Message, NoMsg, RequestRecord

LEMMA IsRequest ==
  ASSUME Types, NEW t \in Transfer, net[t].dir = "request"
  PROVE  net[t] \in RequestRecord
BY DEF Types, Message, NoMsg, ResponseRecord

(* What an answer makes of the local variables.                            *)
LEMMA RecordEnds ==
  ASSUME NEW c \in ClientRecord, NEW status \in Status, NEW result \in BOOLEAN
  PROVE  [c EXCEPT !.pc = "done", !.status = status, !.result = result] \in ClientRecord
BY DEF ClientRecord

LEMMA RecordGoesOn ==
  ASSUME NEW c \in ClientRecord, NEW status \in Status
  PROVE  [c EXCEPT !.pc = "send", !.status = status] \in ClientRecord
BY DEF ClientRecord

LEMMA RecordRepeats ==
  ASSUME NEW c \in ClientRecord, NEW status \in Status, NEW min \in Word, NEW max \in Word
  PROVE  [c EXCEPT !.pc = "send", !.status = status, !.min = min, !.max = max]
           \in ClientRecord
BY DEF ClientRecord

LEMMA RecordMoves ==
  ASSUME NEW c \in ClientRecord, NEW min \in Word, NEW max \in Word
  PROVE  [c EXCEPT !.min = min, !.max = max] \in ClientRecord
BY DEF ClientRecord

LEMMA TypesReceiveUpload ==
  ASSUME Types, NEW t \in Transfer, ReceiveUpload(t)
  PROVE  Types'
<1>1. client[t] \in ClientRecord /\ net[t] \in ResponseRecord
  BY IsResponse DEF Types, ReceiveUpload
<1>2. /\ net' = [net EXCEPT ![t] = NoMsg] /\ NoMsg \in Message
      /\ UNCHANGED <<job, clock, rand, tasks>>
  BY DEF ReceiveUpload, Message
<1>3. CASE UploadAgain(t)
  <2> DEFINE min == Sz(client[t].max + 1)
             max == Least(Sz(min + ReadSize(client[t]) - 1), Last(client[t].data))
             c == [client[t] EXCEPT !.pc = "send", !.status = 206, !.min = min,
                                    !.max = max]
  <2>1. min \in Word
    <3>1. client[t].max + 1 \in Int
      BY <1>1, TransferAssumption DEF TransferAssumption, ClientRecord, Word
    <3> QED BY <3>1, SzIsWord
  <2>2. max \in Word
    <3>1. min + ReadSize(client[t]) - 1 \in Int
      BY <1>1, <2>1, SizeRead, TransferAssumption DEF TransferAssumption, Word
    <3>2. Last(client[t].data) \in Word BY <1>1, LastOfFile DEF ClientRecord
    <3> QED BY <3>1, <3>2, SzIsWord DEF Least
  <2>3. c \in ClientRecord
    <3> HIDE DEF min, max
    <3>1. 206 \in Status BY AcceptedStatus
    <3> QED BY <1>1, <2>1, <2>2, <3>1, RecordRepeats
  <2>4. client' = [client EXCEPT ![t] = c] BY <1>3 DEF UploadAgain, Types
  <2> HIDE DEF c
  <2> QED BY <1>2, <2>3, <2>4 DEF Types
<1>4. CASE \E result \in BOOLEAN : Return(t, net[t].status, result)
  BY <1>1, <1>2, <1>4, TypesReturn DEF ResponseRecord
<1>5. UploadAgain(t) \/ \E result \in BOOLEAN : Return(t, net[t].status, result)
  <2> DEFINE whole == client[t].max >= Last(client[t].data)
  <2>1. UploadAnswered(t, net[t]) BY DEF ReceiveUpload
  <2>2. CASE UploadAgain(t) BY <2>2
  <2>3. CASE net[t].status = 200 /\ Return(t, 200, whole)
    <3>1. whole \in BOOLEAN OBVIOUS
    <3> HIDE DEF whole
    <3> QED BY <2>3, <3>1
  <2>4. CASE Return(t, net[t].status, FALSE) BY <2>4
  <2> QED BY <2>1, <2>2, <2>3, <2>4 DEF UploadAnswered
<1> QED BY <1>3, <1>4, <1>5

LEMMA SizedType ==
  ASSUME NEW c \in ClientRecord, NEW r \in ResponseRecord, DownloadOk(c, r)
  PROVE  Sized(c, r) \in ClientRecord /\ r.range \in Word \X Word \X Word
<1>1. r.range \in Word \X Word \X Word
  <2>1. r.range # <<>>
    <3>1. Len(<<>>) = 0 OBVIOUS
    <3> QED BY <3>1 DEF DownloadOk, HasRange
  <2> QED BY <2>1 DEF ResponseRecord
<1>2. Last(r.range[3]) \in Word BY <1>1, LastOfFile
<1> QED BY <1>1, <1>2 DEF Sized, ClientRecord

LEMMA DownloadNextType ==
  ASSUME NEW c \in ClientRecord, NEW r \in ResponseRecord, DownloadOk(c, r)
  PROVE  DownloadNext(c, r) \in ClientRecord
<1> DEFINE s   == Sized(c, r)
           min == Sz(s.max + 1)
           max == Sz(min + U(ReadSize(s)) - 1)
<1>1. s \in ClientRecord /\ r.range[2] \in Word BY SizedType
<1>2. min \in Word
  <2>1. s.max + 1 \in Int
    BY <1>1, TransferAssumption DEF TransferAssumption, ClientRecord, Word
  <2> QED BY <2>1, SzIsWord
<1>3. max \in Word
  <2>1. ReadSize(s) \in Int
    BY <1>1, SizeRead, TransferAssumption DEF TransferAssumption, Word
  <2>2. min + U(ReadSize(s)) - 1 \in Int
    BY <1>2, <2>1, UIsSmall, TransferAssumption DEF TransferAssumption, Word
  <2> QED BY <2>2, SzIsWord
<1>4. Last(s.data) \in Word BY <1>1, LastOfFile DEF ClientRecord
<1> HIDE DEF s, min, max
<1>5. /\ [s EXCEPT !.min = r.range[2], !.max = Last(s.data)] \in ClientRecord
      /\ [s EXCEPT !.min = min, !.max = max] \in ClientRecord
  BY <1>1, <1>2, <1>3, <1>4, RecordMoves
<1> QED BY <1>5 DEF DownloadNext, s, min, max

LEMMA TypesReceiveDownload ==
  ASSUME Types, NEW t \in Transfer, ReceiveDownload(t)
  PROVE  Types'
<1> DEFINE n  == DownloadNext(client[t], net[t])
           c1 == [n EXCEPT !.pc = "done", !.status = 200,
                           !.result = (n.max >= Last(n.data))]
           c2 == [n EXCEPT !.pc = "send", !.status = 206]
<1>1. n \in ClientRecord
  BY IsResponse, DownloadNextType DEF Types, ReceiveDownload
<1>2. c1 \in ClientRecord /\ c2 \in ClientRecord
  <2> DEFINE whole == n.max >= Last(n.data)
  <2>4. 200 \in Status /\ 206 \in Status BY AcceptedStatus
  <2>1. whole \in BOOLEAN OBVIOUS
  <2> HIDE DEF n, whole
  <2>2. [n EXCEPT !.pc = "done", !.status = 200, !.result = whole] \in ClientRecord
    BY <1>1, <2>1, RecordEnds, <2>4
  <2>3. c2 \in ClientRecord BY <1>1, <2>4, RecordGoesOn
  <2> QED BY <2>2, <2>3 DEF whole
<1>3. PICK c \in {c1, c2} : client' = [client EXCEPT ![t] = c]
  BY DEF ReceiveDownload, DownloadAgain
<1>4. net' = [net EXCEPT ![t] = NoMsg] /\ UNCHANGED <<job, clock, rand, tasks>>
  BY DEF ReceiveDownload
<1>5. c \in ClientRecord BY <1>2, <1>3
<1> HIDE DEF n, c1, c2
<1> QED BY <1>3, <1>4, <1>5 DEF Types, Message

LEMMA TypesReceiveDownloadFails ==
  ASSUME Types, NEW t \in Transfer, ReceiveDownloadFails(t)
  PROVE  Types'
<1>1. net[t] \in ResponseRecord /\ net[t].status \in Status /\ NoMsg \in Message
  BY IsResponse DEF ReceiveDownloadFails, ResponseRecord, Message
<1> QED BY <1>1, TypesReturn DEF ReceiveDownloadFails, DownloadRefused

-----------------------------------------------------------------------------
(* What a handler does: it aborts, refuses, or goes on with a task.        *)

Errors == {401, 406, 500, 507}

\* The task which PostUpload or GetDownload finds or makes.
TaskOf(t, task) ==
  LET r == net[t]
  IN /\ Known(r.sid) => task = tasks[r.sid]
     /\ ~Known(r.sid) =>
          /\ task.of = t /\ task.min = 0 /\ task.pos = 0
          /\ task.buffer <=> job[t].kind = "download"

\* The range of an upload that is stored.
StoredRange(t, task, n) ==
  LET r == net[t]
  IN /\ n = Len(r.body)
     /\ task.min = r.min /\ task.max = r.max /\ task.size = r.size

WrongKind(t) ==
  /\ Known(net[t].sid)
  /\ tasks[net[t].sid].buffer <=> job[t].kind = "upload"

Served(t) ==
  \/ WrongKind(t) /\ UNCHANGED <<net, tasks>>
  \/ UNCHANGED aborted /\ \E status \in Errors : Refuse(t, status)
  \/ UNCHANGED aborted /\
     \E task \in TaskRecord, n \in Nat, body \in Seq(Byte) :
       /\ TaskOf(t, task)
       /\ job[t].kind = "upload" => StoredRange(t, task, n)
       /\ job[t].kind = "download" => CanRead(task.of, task.pos, n)
       /\ Proceed(t, task, n, body)

LEMMA UploadServed ==
  ASSUME Types, NEW t \in Transfer, Serve(t), job[t].kind = "upload"
  PROVE  Served(t)
<1> DEFINE r    == net[t]
           old  == Known(r.sid)
           task == IF old THEN tasks[r.sid]
                   ELSE [of |-> t, buffer |-> FALSE, min |-> r.min,
                         max |-> r.max, size |-> r.size, chunk |-> U(r.max + 1),
                         pos |-> 0]
<1>1. r \in RequestRecord BY IsRequest DEF Serve
<1>2. task \in TaskRecord
  <2>1. U(r.max + 1) \in 0 .. U32 - 1
    <3>1. r.max + 1 \in Int
      BY <1>1, TransferAssumption DEF TransferAssumption, RequestRecord, Word
    <3> QED BY <3>1, UIsSmall
  <2>2. CASE old BY <2>2 DEF Types, Known
  <2>3. CASE ~old BY <1>1, <2>1, <2>3 DEF TaskRecord, RequestRecord
  <2> QED BY <2>2, <2>3
<1>3. old \/ r.min = 0 => TaskOf(t, task) BY DEF TaskOf
<1>4. <<>> \in Seq(Byte) /\ Len(r.body) \in Nat BY <1>1 DEF RequestRecord
<1>5. CASE old /\ task.buffer
  BY <1>5 DEF Serve, PostUpload, Abort, Served, WrongKind
<1>6. CASE \E status \in Errors : Refuse(t, status)
  BY <1>6 DEF Served, Refuse, Reply
<1>7. CASE /\ IF old THEN Expected(task, r) ELSE r.min = 0
           /\ Proceed(t, task, Len(r.body), <<>>)
  <2>1. StoredRange(t, task, Len(r.body)) BY <1>7 DEF StoredRange, Expected
  <2>2. UNCHANGED aborted BY <1>7 DEF Proceed, Reply
  <2>3. job[t].kind # "download" OBVIOUS
  <2>4. TaskOf(t, task) BY <1>3, <1>7
  <2> HIDE DEF task
  <2> QED BY <1>2, <1>4, <1>7, <2>1, <2>2, <2>3, <2>4 DEF Served
<1>8. ~(old /\ task.buffer) /\ ~(\E status \in Errors : Refuse(t, status)) =>
        /\ IF old THEN Expected(task, r) ELSE r.min = 0
        /\ Proceed(t, task, Len(r.body), <<>>)
  <2> SUFFICES ASSUME ~(old /\ task.buffer), \A status \in Errors : ~Refuse(t, status)
               PROVE  /\ IF old THEN Expected(task, r) ELSE r.min = 0
                      /\ Proceed(t, task, Len(r.body), <<>>)
    OBVIOUS
  <2>1. PostUpload(t) BY DEF Serve
  <2>2. ~Refuse(t, 406) /\ ~Refuse(t, 401) /\ ~Refuse(t, 500) /\ ~Refuse(t, 507)
    BY DEF Errors
  <2> QED BY <2>1, <2>2 DEF PostUpload
<1> QED BY <1>5, <1>6, <1>7, <1>8

LEMMA DownloadServed ==
  ASSUME Types, NEW t \in Transfer, Serve(t), job[t].kind # "upload"
  PROVE  Served(t)
<1> DEFINE r    == net[t]
           old  == Known(r.sid)
           size == job[t].size
           fits == size <= U(r.max + 1)
           task == IF old THEN tasks[r.sid]
                   ELSE [of |-> t, buffer |-> TRUE, min |-> r.min,
                         max |-> IF fits THEN Last(size) ELSE r.max,
                         size |-> size, chunk |-> U(r.max + 1), pos |-> 0]
           n    == IF old THEN Least(task.chunk, U(task.size - task.min))
                   ELSE IF fits THEN size ELSE task.chunk
           body == Bytes(task.of, task.pos, n)
<1>1. r \in RequestRecord /\ job[t].kind = "download"
  BY IsRequest, JobType DEF Serve
<1>2. U(r.max + 1) \in 0 .. U32 - 1
  <2>1. r.max + 1 \in Int
    BY <1>1, TransferAssumption DEF TransferAssumption, RequestRecord, Word
  <2> QED BY <2>1, UIsSmall
<1>3. task \in TaskRecord
  <2>1. Last(size) \in Word /\ size \in Word BY JobType, LastOfFile
  <2>2. CASE old BY <2>2 DEF Types, Known
  <2>3. CASE ~old
    <3>1. (IF fits THEN Last(size) ELSE r.max) \in Word
      BY <1>1, <2>1 DEF RequestRecord
    <3> QED BY <1>1, <1>2, <2>1, <2>3, <3>1 DEF TaskRecord, RequestRecord
  <2> QED BY <2>2, <2>3
<1>4. n \in Nat
  <2>1. size \in Nat /\ task.chunk \in Nat /\ task.size - task.min \in Int
    BY <1>3, JobType, TransferAssumption DEF TransferAssumption, TaskRecord, Word
  <2>2. U(task.size - task.min) \in Nat
    BY <2>1, UIsSmall, TransferAssumption DEF TransferAssumption
  <2> HIDE DEF task, size, fits, old
  <2> QED BY <2>1, <2>2 DEF Least
<1>5. old \/ r.min = 0 => TaskOf(t, task) BY <1>1 DEF TaskOf
<1>6. CASE old /\ ~task.buffer
  BY <1>1, <1>6 DEF Serve, GetDownload, Abort, Served, WrongKind
<1>7. CASE \E status \in Errors : Refuse(t, status)
  BY <1>7 DEF Served, Refuse, Reply
<1>8. CASE /\ old \/ r.min = 0
           /\ CanRead(task.of, task.pos, n) /\ Proceed(t, task, n, body)
  <2>1. UNCHANGED aborted BY <1>8 DEF Proceed, Reply
  <2>2. body \in Seq(Byte)
    <3>1. task.of \in Transfer /\ task.pos \in Nat /\ n \in Int
      BY <1>3, <1>4 DEF TaskRecord
    <3> HIDE DEF task, n
    <3> QED BY <1>8, <3>1, BytesRead
  <2>3. TaskOf(t, task) BY <1>5, <1>8
  <2> HIDE DEF task, n, body
  <2> QED BY <1>1, <1>3, <1>4, <1>8, <2>1, <2>2, <2>3 DEF Served
<1>9. ~(old /\ ~task.buffer) /\ ~(\E status \in Errors : Refuse(t, status)) =>
        /\ old \/ r.min = 0
        /\ CanRead(task.of, task.pos, n) /\ Proceed(t, task, n, body)
  <2> SUFFICES ASSUME ~(old /\ ~task.buffer),
                      \A status \in Errors : ~Refuse(t, status)
               PROVE  /\ old \/ r.min = 0
                      /\ CanRead(task.of, task.pos, n) /\ Proceed(t, task, n, body)
    OBVIOUS
  <2>1. GetDownload(t) BY <1>1 DEF Serve
  <2>2. ~Refuse(t, 406) /\ ~Refuse(t, 401) /\ ~Refuse(t, 500)
    BY DEF Errors
  <2> QED BY <2>1, <2>2 DEF GetDownload
<1> QED BY <1>6, <1>7, <1>8, <1>9

LEMMA ServeServes ==
  ASSUME Types, NEW t \in Transfer, Serve(t)
  PROVE  /\ net[t] \in RequestRecord
         /\ UNCHANGED <<job, clock, rand, client>>
         /\ Served(t)
BY IsRequest, UploadServed, DownloadServed DEF Serve

LEMMA ResponseType ==
  ASSUME NEW status \in Status, NEW body \in Seq(Byte),
         NEW range \in {<<>>} \cup (Word \X Word \X Word)
  PROVE  Response(status, range, body) \in Message
BY DEF Response, ResponseRecord, Message

LEMMA AdvancedType ==
  ASSUME NEW task \in TaskRecord, NEW n \in Nat
  PROVE  Advanced(task, n) \in TaskRecord
<1> DEFINE min == Sz(task.max + 1)
           max == Least(Sz(task.max + n), Last(task.size))
<1>1. min \in Word /\ max \in Word
  <2>1. task.max + 1 \in Int /\ task.max + n \in Int
    BY TransferAssumption DEF TransferAssumption, TaskRecord, Word
  <2>2. Last(task.size) \in Word BY LastOfFile DEF TaskRecord
  <2> QED BY <2>1, <2>2, SzIsWord DEF Least
<1>2. task.pos + n \in Nat BY DEF TaskRecord
<1> HIDE DEF min, max
<1>3. [task EXCEPT !.min = min, !.max = max, !.pos = task.pos + n] \in TaskRecord
  BY <1>1, <1>2 DEF TaskRecord
<1> QED BY <1>3 DEF Advanced, min, max

LEMMA TypesServe ==
  ASSUME Types, NEW t \in Transfer, Serve(t)
  PROVE  Types'
<1>1. UNCHANGED <<job, clock, rand, client>> BY ServeServes
<1>2. CASE UNCHANGED <<net, tasks>> BY <1>1, <1>2 DEF Types
<1>3. ASSUME NEW status \in Errors, Refuse(t, status) PROVE Types'
  <2>1. /\ tasks' = [s \in DOMAIN tasks \ {net[t].sid} |-> tasks[s]]
        /\ net' = [net EXCEPT ![t] = Response(status, <<>>, <<>>)]
    BY <1>3 DEF Refuse, Terminate, Reply
  <2>2. Response(status, <<>>, <<>>) \in Message
    <3>1. status \in Status /\ <<>> \in Seq(Byte) BY DEF Errors, Status
    <3> QED BY <3>1, ResponseType
  <2> QED BY <1>1, <2>1, <2>2 DEF Types
<1>4. ASSUME NEW task \in TaskRecord, NEW n \in Nat, NEW body \in Seq(Byte),
             Proceed(t, task, n, body)
      PROVE  Types'
  <2> DEFINE range == <<task.min, task.max, task.size>>
  <2>1. range \in Word \X Word \X Word BY DEF TaskRecord
  <2>2. PICK m \in {Response(200, range, body), Response(206, range, body)} :
          net' = [net EXCEPT ![t] = m]
    BY <1>4 DEF Proceed, Reply
  <2>3. m \in Message BY <2>1, ResponseType, AcceptedStatus
  <2>4. CASE Terminate(net[t].sid)
    BY <1>1, <2>2, <2>3, <2>4 DEF Types, Terminate
  <2>5. CASE Keep(net[t].sid, Advanced(task, n))
    <3>1. \A s \in DOMAIN tasks' : tasks'[s] \in TaskRecord
      BY <2>5, AdvancedType DEF Types, Keep
    <3> QED BY <1>1, <2>2, <2>3, <3>1 DEF Types
  <2> QED BY <1>4, <2>4, <2>5 DEF Proceed
<1> QED BY <1>2, <1>3, <1>4, ServeServes DEF Served

LEMMA TypesNext == Types /\ [Next]_vars => Types'
<1> SUFFICES ASSUME Types, [Next]_vars PROVE Types'
  OBVIOUS
<1>1. CASE UNCHANGED vars BY <1>1 DEF Types, vars
<1>2. CASE Tick BY <1>2, TransferAssumption DEF TransferAssumption, Types, Tick
<1>3. ASSUME NEW t \in Transfer,
             Create(t) \/ Connect(t) \/ Disconnect(t)
      PROVE  Types'
  BY <1>3, TypesCreate
<1>4. ASSUME NEW t \in Transfer, BeginUpload(t) \/ BeginDownload(t) PROVE Types'
  BY <1>4, TypesBegin
<1>5. ASSUME NEW t \in Transfer,
             BeginRefused(t) \/ SendUploadFails(t) \/ GiveUp(t)
      PROVE  Types'
  BY <1>5, TypesEnd
<1>6. ASSUME NEW t \in Transfer, SendUpload(t) \/ SendDownload(t) PROVE Types'
  BY <1>6, TypesSend
<1>7. ASSUME NEW t \in Transfer, Lose(t) PROVE Types'
  BY <1>7 DEF Types, Lose, Message
<1>8. ASSUME NEW t \in Transfer, Start(t) PROVE Types'
  BY <1>3, <1>4, <1>5, <1>8 DEF Start
<1>9. ASSUME NEW t \in Transfer, Loop(t) PROVE Types'
  BY <1>5, <1>6, <1>9, TypesCrash, TypesReceiveUpload, TypesReceiveDownload,
     TypesReceiveDownloadFails DEF Loop
<1> QED
  BY <1>1, <1>2, <1>7, <1>8, <1>9, TypesServe DEF Next

-----------------------------------------------------------------------------
(* Session ids.                                                            *)

\* A call in its loop has an id, which a generator with a seed has drawn.
Drawing ==
  /\ rand[1] <= clock /\ clock > 0
  /\ \A t \in Transfer :
       /\ client[t].pc \in {"new", "idle"} => client[t].sid = NoSid
       /\ client[t].pc \in {"send", "wait"} => client[t].sid # NoSid
       /\ client[t].pc = "idle" => rand[1] > 0

\* Ids that nobody shares.
Ids == Drawing /\ DistinctIds

LEMMA IdsInit == Init => Ids
BY DEF Init, Ids, Drawing, DistinctIds, NewClient, NoSid

LEMMA DrawingKept ==
  ASSUME Types, Drawing, UNCHANGED rand, clock' \in Nat, clock' >= clock,
         \A t \in Transfer :
           /\ client'[t].sid = client[t].sid
           /\ client'[t].pc \in {"new", "idle"} => client'[t].pc = client[t].pc
           /\ client'[t].pc \in {"send", "wait"} => client[t].pc \in {"send", "wait"}
  PROVE  Drawing'
<1>1. rand[1] \in Nat /\ clock \in Nat BY DEF Types, Id
<1> QED BY <1>1 DEF Drawing

LEMMA DrawingCreate ==
  ASSUME Types, Drawing, NEW t \in Transfer, Create(t)
  PROVE  Drawing'
<1>1. rand[1] \in Nat /\ clock \in Nat /\ client[t] \in ClientRecord
  BY DEF Types, Id
<1>2. rand' = <<clock, 0>> /\ clock' = clock BY DEF Create
<1>3. /\ client'[t].sid = client[t].sid /\ client'[t].pc = "idle"
      /\ client[t].pc = "new"
      /\ \A u \in Transfer \ {t} : client'[u] = client[u]
  BY <1>1 DEF Create, Types, ClientRecord
<1> QED BY <1>1, <1>2, <1>3 DEF Drawing

LEMMA DrawingBegin ==
  ASSUME Types, Drawing, NEW t \in Transfer, BeginUpload(t) \/ BeginDownload(t)
  PROVE  /\ Drawing'
         /\ client[t].sid = NoSid /\ rand # NoSid
<1>1. rand \in Id /\ clock \in Nat /\ client[t] \in ClientRecord
      /\ client[t].pc = "idle"
  BY DEF Types, BeginUpload, BeginDownload
<1>2. rand' = <<rand[1], rand[2] + 1>> /\ clock' = clock
  BY DEF BeginUpload, BeginDownload, GenerateSessionId
<1>3. /\ client'[t].sid = rand /\ client'[t].pc = "send"
      /\ \A u \in Transfer \ {t} : client'[u] = client[u]
  BY <1>1 DEF BeginUpload, BeginDownload, Types, ClientRecord
<1>4. rand[1] > 0 /\ rand[1] \in Nat BY <1>1 DEF Drawing, Id
<1>5. rand # NoSid BY <1>4 DEF NoSid
<1>6. rand'[1] = rand[1] BY <1>2
<1> QED BY <1>1, <1>2, <1>3, <1>5, <1>6 DEF Drawing

\* If the id that a call has drawn is shared by no other call, none had it.
LEMMA IdsBegin ==
  ASSUME Types, Drawing, NEW t \in Transfer, BeginUpload(t) \/ BeginDownload(t),
         DistinctIds'
  PROVE  \A u \in Transfer : client[u].sid # rand
<1>1. client[t].sid = NoSid /\ rand # NoSid BY DrawingBegin
<1>2. /\ client'[t].sid = rand
      /\ \A u \in Transfer \ {t} : client'[u] = client[u]
  <2>1. client[t] \in ClientRecord BY DEF Types
  <2> QED BY <2>1 DEF BeginUpload, BeginDownload, Types, ClientRecord
<1> QED BY <1>1, <1>2 DEF DistinctIds

-----------------------------------------------------------------------------
(* What the steps of a client do to pc, status and net, the first range    *)
(* apart.                                                                  *)

SameRange(t) ==
  /\ client'[t].min = client[t].min
  /\ client'[t].max = client[t].max
  /\ client'[t].data = client[t].data

Stays(t) ==
  /\ client[t].pc \in {"new", "idle"} /\ client'[t].pc = "idle"
  /\ client'[t].status = client[t].status /\ net'[t] = net[t]
  /\ SameRange(t)

Ends(t) ==
  /\ client'[t].pc = "done" \/ (client'[t].pc = "crashed" /\ client[t].pc = "send")
  /\ job[t].kind = "upload" => SameRange(t)
  /\ \/ client[t].pc = "idle" /\ client'[t].status = 0 /\ net'[t] = net[t]
     \/ /\ client[t].pc = "send" /\ client'[t].status = client[t].status
        /\ net'[t] = net[t]
     \/ /\ client[t].pc = "wait" /\ client'[t].status = 0
        /\ net'[t] = NoMsg \/ (net[t].dir = "request" /\ net'[t] = net[t])
     \/ /\ client[t].pc = "wait" /\ net[t].dir = "response"
        /\ client'[t].status = net[t].status /\ net'[t] = NoMsg

Sends(t) ==
  LET c == client[t]
  IN /\ c.pc = "send" /\ client'[t].pc = "wait"
     /\ client'[t].status = c.status /\ SameRange(t)
     /\ \E body \in Seq(Byte) :
          /\ net'[t] = Request(c, c.min, c.max, c.data, body)
          /\ job[t].kind = "upload" =>
               Len(body) = ReadSize(c) /\ CanRead(t, c.pos, ReadSize(c))

Repeats(t) ==
  /\ client[t].pc = "wait" /\ net[t].dir = "response" /\ net[t].status = 206
  /\ client'[t].pc = "send" /\ client'[t].status = 206 /\ net'[t] = NoMsg
  /\ job[t].kind = "upload" => UploadAgain(t)

Loses(t) == client'[t] = client[t] /\ net'[t] = NoMsg

ClientStep(t) ==
  /\ UNCHANGED <<job, tasks, aborted>>
  /\ \A u \in Transfer \ {t} : client'[u] = client[u] /\ net'[u] = net[u]
  /\ client'[t].sid = client[t].sid
  /\ Stays(t) \/ Ends(t) \/ Sends(t) \/ Repeats(t) \/ Loses(t)

LEMMA ReturnStep ==
  ASSUME Types, NEW t \in Transfer, NEW status, NEW result,
         Return(t, status, result)
  PROVE  /\ client'[t].pc = "done" /\ client'[t].status = status
         /\ client'[t].sid = client[t].sid
         /\ SameRange(t)
         /\ \A u \in Transfer \ {t} : client'[u] = client[u]
<1>1. client[t] \in ClientRecord BY DEF Types
<1> QED BY <1>1 DEF Return, Types, ClientRecord, SameRange

LEMMA StaysStep ==
  ASSUME Types, NEW t \in Transfer, Create(t) \/ Connect(t) \/ Disconnect(t)
  PROVE  ClientStep(t)
<1>1. client[t] \in ClientRecord BY DEF Types
<1> QED BY <1>1 DEF Types, ClientRecord, Create, Connect, Disconnect, ClientStep, Stays,
       SameRange

LEMMA EndsStep ==
  ASSUME Types, NEW t \in Transfer,
         \/ BeginRefused(t) \/ SendUploadFails(t) \/ SendUploadCrashes(t)
         \/ GiveUp(t) \/ ReceiveDownloadFails(t)
  PROVE  ClientStep(t)
<1>1. CASE BeginRefused(t) BY <1>1, ReturnStep DEF BeginRefused, ClientStep, Ends
<1>2. CASE SendUploadFails(t)
  BY <1>2, ReturnStep DEF SendUploadFails, ClientStep, Ends
<1>3. CASE GiveUp(t)
  BY <1>3, ReturnStep DEF GiveUp, ClientStep, Ends, Types
<1>4. CASE ReceiveDownloadFails(t)
  BY <1>4, ReturnStep
     DEF ReceiveDownloadFails, DownloadRefused, ClientStep, Ends, Types
<1>5. CASE SendUploadCrashes(t)
  <2>1. client[t] \in ClientRecord BY DEF Types
  <2> QED BY <1>5, <2>1
          DEF SendUploadCrashes, ClientStep, Ends, Types, ClientRecord, SameRange
<1> QED BY <1>1, <1>2, <1>3, <1>4, <1>5

LEMMA SendsStep ==
  ASSUME Types, NEW t \in Transfer, SendUpload(t) \/ SendDownload(t)
  PROVE  ClientStep(t)
<1> DEFINE c == client[t]
           b == IF job[t].kind = "upload" THEN Bytes(t, c.pos, ReadSize(c)) ELSE <<>>
<1>1. c \in ClientRecord BY DEF Types
<1>2. /\ b \in Seq(Byte)
      /\ job[t].kind = "upload" =>
           Len(b) = ReadSize(c) /\ CanRead(t, c.pos, ReadSize(c))
  <2>1. CASE job[t].kind = "upload"
    <3>1. ReadSize(c) \in Int /\ c.pos \in Nat
      BY <1>1, SizeRead, TransferAssumption DEF TransferAssumption, Word, ClientRecord
    <3>2. CanRead(t, c.pos, ReadSize(c)) BY <2>1 DEF SendUpload, SendDownload
    <3> QED BY <2>1, <3>1, <3>2, BytesRead
  <2>2. CASE job[t].kind # "upload" BY <2>2
  <2> QED BY <2>1, <2>2
<1>3. /\ net' = [net EXCEPT ![t] = Request(c, c.min, c.max, c.data, b)]
      /\ UNCHANGED <<job, tasks, aborted>>
  BY DEF SendUpload, SendDownload
<1>4. net'[t] = Request(c, c.min, c.max, c.data, b)
      /\ \A u \in Transfer \ {t} : net'[u] = net[u]
  BY <1>3 DEF Types
<1>5. /\ c.pc = "send" /\ client'[t].pc = "wait" /\ client'[t].status = c.status
      /\ client'[t].sid = c.sid /\ SameRange(t)
      /\ \A u \in Transfer \ {t} : client'[u] = client[u]
  BY <1>1 DEF SendUpload, SendDownload, Types, ClientRecord, SameRange
<1> HIDE DEF b
<1>6. Sends(t) BY <1>2, <1>4, <1>5 DEF Sends
<1> QED BY <1>3, <1>4, <1>5, <1>6 DEF ClientStep

LEMMA UploadAgainStep ==
  ASSUME Types, NEW t \in Transfer, UploadAgain(t)
  PROVE  /\ client'[t].pc = "send" /\ client'[t].status = 206
         /\ client'[t].sid = client[t].sid
         /\ client'[t].data = client[t].data
         /\ client'[t].min = Sz(client[t].max + 1)
         /\ client'[t].max =
              Least(Sz(Sz(client[t].max + 1) + ReadSize(client[t]) - 1),
                    Last(client[t].data))
         /\ \A u \in Transfer \ {t} : client'[u] = client[u]
<1>1. client[t] \in ClientRecord BY DEF Types
<1> QED BY <1>1 DEF UploadAgain, Types, ClientRecord

LEMMA ReceiveUploadStep ==
  ASSUME Types, NEW t \in Transfer, ReceiveUpload(t)
  PROVE  ClientStep(t)
<1>1. /\ client[t].pc = "wait" /\ net[t].dir = "response"
      /\ net' = [net EXCEPT ![t] = NoMsg]
      /\ UNCHANGED <<job, tasks, aborted>>
  BY DEF ReceiveUpload
<1>2. net'[t] = NoMsg /\ \A u \in Transfer \ {t} : net'[u] = net[u]
  BY <1>1 DEF Types
<1>3. CASE net[t].status \in Accepted /\ net[t].status # 200 /\ UploadAgain(t)
  <2>1. net[t].status = 206 BY <1>3 DEF Accepted
  <2> QED BY <1>1, <1>2, <1>3, <2>1, UploadAgainStep DEF ClientStep, Repeats
<1>4. CASE \E result : Return(t, net[t].status, result)
  BY <1>1, <1>2, <1>4, ReturnStep DEF ClientStep, Ends
<1> QED BY <1>3, <1>4 DEF ReceiveUpload, UploadAnswered

LEMMA ReceiveDownloadStep ==
  ASSUME Types, NEW t \in Transfer, ReceiveDownload(t)
  PROVE  ClientStep(t)
<1> DEFINE n  == DownloadNext(client[t], net[t])
           whole == n.max >= Last(n.data)
<1>1. n \in ClientRecord /\ net[t] \in ResponseRecord /\ client[t] \in ClientRecord
  BY IsResponse, DownloadNextType DEF Types, ReceiveDownload
<1>2. n.sid = client[t].sid
  BY <1>1 DEF DownloadNext, Sized, ClientRecord
<1>3. /\ client[t].pc = "wait" /\ net[t].dir = "response"
      /\ job[t].kind = "download" /\ net[t].status \in {200, 206}
      /\ net' = [net EXCEPT ![t] = NoMsg]
      /\ UNCHANGED <<job, tasks, aborted>>
  BY DEF ReceiveDownload, DownloadOk, Accepted
<1>4. net'[t] = NoMsg /\ \A u \in Transfer \ {t} : net'[u] = net[u]
  BY <1>3 DEF Types
<1>5. CASE net[t].status = 200
  <2>1. client' = [client EXCEPT ![t] =
               [n EXCEPT !.pc = "done", !.status = 200, !.result = whole]]
    BY <1>5 DEF ReceiveDownload
  <2> HIDE DEF n, whole
  <2>2. /\ client'[t].pc = "done" /\ client'[t].status = 200
        /\ client'[t].sid = client[t].sid
        /\ \A u \in Transfer \ {t} : client'[u] = client[u]
    BY <1>1, <1>2, <2>1 DEF Types, ClientRecord
  <2> QED BY <1>3, <1>4, <1>5, <2>2 DEF ClientStep, Ends
<1>6. CASE net[t].status # 200
  <2>1. client' = [client EXCEPT ![t] = [n EXCEPT !.pc = "send", !.status = 206]]
    BY <1>6 DEF ReceiveDownload, DownloadAgain
  <2> HIDE DEF n, whole
  <2>2. /\ client'[t].pc = "send" /\ client'[t].status = 206
        /\ client'[t].sid = client[t].sid
        /\ \A u \in Transfer \ {t} : client'[u] = client[u]
    BY <1>1, <1>2, <2>1 DEF Types, ClientRecord
  <2> QED BY <1>3, <1>4, <1>6, <2>2 DEF ClientStep, Repeats
<1> QED BY <1>5, <1>6

LEMMA LoseStep ==
  ASSUME Types, NEW t \in Transfer, Lose(t)
  PROVE  ClientStep(t)
BY DEF Types, Lose, ClientStep, Loses

\* The steps of a client that is told what to transfer already.
ClientNext(t) ==
  \/ Create(t) \/ Connect(t) \/ Disconnect(t) \/ BeginRefused(t) \/ Lose(t)
  \/ SendUpload(t) \/ SendUploadFails(t) \/ SendUploadCrashes(t)
  \/ SendDownload(t) \/ GiveUp(t) \/ ReceiveUpload(t)
  \/ ReceiveDownload(t) \/ ReceiveDownloadFails(t)

LEMMA ClientSteps ==
  ASSUME Types, NEW t \in Transfer, ClientNext(t)
  PROVE  ClientStep(t)
BY StaysStep, EndsStep, SendsStep, ReceiveUploadStep, ReceiveDownloadStep, LoseStep
   DEF ClientNext

LEMMA DrawingClient ==
  ASSUME Types, Drawing, NEW t \in Transfer, ClientNext(t)
  PROVE  Drawing'
<1>1. CASE Create(t) BY <1>1, DrawingCreate
<1>2. CASE ~Create(t)
  <2>1. UNCHANGED <<rand, clock>> /\ clock \in Nat
    BY <1>2 DEF ClientNext, Connect, Disconnect, BeginRefused, SendUpload,
       SendUploadFails, SendUploadCrashes, SendDownload, GiveUp, ReceiveUpload,
       ReceiveDownload, ReceiveDownloadFails, Lose, Types
  <2>2. ClientStep(t) BY ClientSteps
  <2>3. Stays(t) => client[t].pc = "idle"
    BY <1>2 DEF ClientNext, Stays, Connect, Disconnect, BeginRefused, SendUpload,
       SendUploadFails, SendUploadCrashes, SendDownload, GiveUp, ReceiveUpload,
       ReceiveDownload, ReceiveDownloadFails, Lose, Types, ClientRecord
  <2>4. /\ client'[t].pc \in {"new", "idle"} => client'[t].pc = client[t].pc
        /\ client'[t].pc \in {"send", "wait"} => client[t].pc \in {"send", "wait"}
    BY <2>2, <2>3 DEF ClientStep, Stays, Ends, Sends, Repeats, Loses
  <2> QED BY <2>1, <2>2, <2>4, DrawingKept DEF ClientStep
<1> QED BY <1>1, <1>2

LEMMA DrawingServe ==
  ASSUME Types, Drawing, NEW t \in Transfer, Serve(t)
  PROVE  Drawing'
BY DEF Serve, Drawing

\* Ids once shared stay shared.
LEMMA IdsNext ==
  ASSUME Types, Drawing, [Next]_vars
  PROVE  Drawing' /\ (DistinctIds' => DistinctIds)
<1>1. CASE UNCHANGED vars BY <1>1 DEF vars, Drawing, DistinctIds
<1>2. CASE Tick
  <2>1. UNCHANGED <<rand, client>> /\ clock' \in Nat /\ clock' >= clock
    BY <1>2 DEF Tick, Types
  <2> QED BY <2>1, DrawingKept DEF DistinctIds
<1>3. ASSUME NEW t \in Transfer, ClientNext(t)
      PROVE  Drawing' /\ (DistinctIds' => DistinctIds)
  <2>1. \A u \in Transfer : client'[u].sid = client[u].sid
    BY <1>3, ClientSteps DEF ClientStep
  <2> QED BY <1>3, <2>1, DrawingClient DEF DistinctIds
<1>4. ASSUME NEW t \in Transfer, BeginUpload(t) \/ BeginDownload(t)
      PROVE  Drawing' /\ (DistinctIds' => DistinctIds)
  <2>1. client[t].sid = NoSid /\ Drawing' BY <1>4, DrawingBegin
  <2>2. \A u \in Transfer \ {t} : client'[u] = client[u]
    BY <1>4 DEF BeginUpload, BeginDownload, Types
  <2> QED BY <2>1, <2>2 DEF DistinctIds
<1>5. ASSUME NEW t \in Transfer, Serve(t)
      PROVE  Drawing' /\ (DistinctIds' => DistinctIds)
  <2>1. UNCHANGED client BY <1>5 DEF Serve
  <2> QED BY <1>5, <2>1, DrawingServe DEF DistinctIds
<1> QED BY <1>1, <1>2, <1>3, <1>4, <1>5 DEF Next, Start, Loop, ClientNext

-----------------------------------------------------------------------------
(* Sessions: who owns a task, and when it is gone.                         *)

Owned ==
  \A s \in DOMAIN tasks :
    /\ s # NoSid /\ client[tasks[s].of].sid = s
    /\ tasks[s].buffer <=> job[tasks[s].of].kind = "download"

\* The responses that end a transfer release its task.  Only a client that got
\* no answer leaves a request behind.
Session(t) ==
  LET c == client[t]
      m == net[t]
  IN /\ m.dir = "request" => m.sid = c.sid /\ c.sid # NoSid
     /\ c.pc \in {"new", "idle", "send", "crashed"} => m.dir = "none"
     /\ c.pc \in {"new", "idle"} => c.status = 0
     /\ c.pc \in {"send", "wait"} => c.status \in {0, 206}
     /\ m.dir = "response" /\ m.status # 206 => ~Known(c.sid)
     /\ c.pc = "done" /\ c.status \notin {0, 206} =>
          m.dir = "none" /\ ~Known(c.sid)

Sessions == Owned /\ \A t \in Transfer : Session(t)

LEMMA SessionsInit == Init => Sessions
BY DEF Init, Sessions, Owned, Session, NewClient, NoMsg, Known

LEMMA NoTaskWithoutId == ASSUME Owned PROVE ~Known(NoSid)
BY DEF Owned, Known

LEMMA SessionsClient ==
  ASSUME Types, Ids, Sessions, NEW t \in Transfer, ClientStep(t)
  PROVE  Sessions'
<1>1. UNCHANGED tasks /\ UNCHANGED job
      /\ \A u \in Transfer : client'[u].sid = client[u].sid
  BY DEF ClientStep
<1>2. Owned' BY <1>1 DEF Sessions, Owned, Types, TaskRecord
<1>3. \A u \in Transfer \ {t} : Session(u)'
  BY <1>1 DEF ClientStep, Sessions, Session, Known
<1>4. Session(t) /\ client'[t].sid = client[t].sid /\ NoMsg.dir = "none"
  BY <1>1 DEF Sessions, NoMsg
<1>5. Session(t)'
  <2>1. CASE Stays(t) BY <1>1, <1>4, <2>1 DEF Session, Stays, Known
  <2>2. CASE Ends(t) BY <1>1, <1>4, <2>2 DEF Session, Ends, Known
  <2>3. CASE Sends(t)
    <3>1. net'[t].dir = "request" /\ net'[t].sid = client[t].sid
      BY <2>3 DEF Sends, Request
    <3>2. client[t].sid # NoSid BY <2>3 DEF Sends, Ids, Drawing
    <3> QED BY <1>1, <1>4, <2>3, <3>1, <3>2 DEF Session, Sends, Known
  <2>4. CASE Repeats(t) BY <1>1, <1>4, <2>4 DEF Session, Repeats, Known
  <2>5. CASE Loses(t) BY <1>1, <1>4, <2>5 DEF Session, Loses, Known
  <2> QED BY <2>1, <2>2, <2>3, <2>4, <2>5 DEF ClientStep
<1> QED BY <1>2, <1>3, <1>5 DEF Sessions

LEMMA BeginStep ==
  ASSUME Types, NEW t \in Transfer, BeginUpload(t) \/ BeginDownload(t)
  PROVE  /\ client[t].pc = "idle" /\ client'[t].pc = "send"
         /\ client'[t].sid = rand /\ client'[t].status = client[t].status
         /\ \A u \in Transfer \ {t} : client'[u] = client[u]
         /\ UNCHANGED <<job, net, tasks, aborted>>
<1>1. client[t] \in ClientRecord BY DEF Types
<1> QED BY <1>1 DEF BeginUpload, BeginDownload, Types, ClientRecord

LEMMA SessionsBegin ==
  ASSUME Types, Ids, Sessions, NEW t \in Transfer,
         BeginUpload(t) \/ BeginDownload(t), DistinctIds'
  PROVE  Sessions' /\ ~Known(rand)
<1>1. client[t].sid = NoSid /\ \A u \in Transfer : client[u].sid # rand
  BY IdsBegin, DrawingBegin DEF Ids
<1>2. ~Known(rand) BY <1>1 DEF Sessions, Owned, Known, Types, TaskRecord
<1>3. Owned'
  BY <1>1, BeginStep DEF Sessions, Owned, Types, TaskRecord
<1>4. Session(t)' BY <1>1, <1>2, BeginStep DEF Sessions, Session, Known
<1>5. \A u \in Transfer \ {t} : Session(u)'
  BY BeginStep DEF Sessions, Session, Known
<1> QED BY <1>2, <1>3, <1>4, <1>5 DEF Sessions

LEMMA NoAbort ==
  ASSUME Types, Ids, Sessions, NEW t \in Transfer, Serve(t)
  PROVE  ~WrongKind(t)
<1>1. net[t].sid = client[t].sid /\ client[t].sid # NoSid
  BY DEF Serve, Sessions, Session
<1>2. SUFFICES ASSUME WrongKind(t) PROVE FALSE
  OBVIOUS
<1> DEFINE u == tasks[net[t].sid].of
<1>3. u \in Transfer /\ client[u].sid = net[t].sid
      /\ (tasks[net[t].sid].buffer <=> job[u].kind = "download")
  BY <1>2 DEF WrongKind, Known, Types, TaskRecord, Sessions, Owned
<1>4. u = t BY <1>1, <1>3 DEF Ids, DistinctIds
<1>5. job[t].kind = "upload" <=> job[t].kind = "download"
  BY <1>2, <1>3, <1>4 DEF WrongKind
<1> QED BY <1>5, JobType

LEMMA SessionsServe ==
  ASSUME Types, Ids, Sessions, NEW t \in Transfer, Serve(t)
  PROVE  Sessions' /\ UNCHANGED aborted
<1> DEFINE sid == net[t].sid
<1>1. /\ sid = client[t].sid /\ sid # NoSid /\ net[t].dir = "request"
      /\ UNCHANGED <<job, client>> /\ Served(t) /\ ~WrongKind(t)
  BY NoAbort, ServeServes DEF Serve, Sessions, Session
<1>2. \A u \in Transfer \ {t} : client[u].sid # sid BY <1>1 DEF Ids, DistinctIds
<1>3. Session(t) BY DEF Sessions
<1>4. client[t].pc \in {"wait", "done"}
      /\ (client[t].pc = "done" => client[t].status \in {0, 206})
  BY <1>1, <1>3 DEF Session, Types, ClientRecord
<1>5. ASSUME NEW status \in Errors, Refuse(t, status) PROVE Sessions'
  <2>1. /\ tasks' = [s \in DOMAIN tasks \ {sid} |-> tasks[s]]
        /\ net' = [net EXCEPT ![t] = Response(status, <<>>, <<>>)]
    BY <1>5 DEF Refuse, Terminate, Reply
  <2>2. net'[t].dir = "response" /\ (\A u \in Transfer \ {t} : net'[u] = net[u])
    BY <2>1 DEF Types, Response
  <2>3. Owned' BY <1>1, <2>1 DEF Sessions, Owned
  <2>4. \A s : Known(s)' => Known(s) BY <2>1 DEF Known
  <2>5. ~Known(client[t].sid)' BY <1>1, <2>1 DEF Known
  <2>6. \A u \in Transfer \ {t} : Session(u)'
    BY <1>1, <2>2, <2>4 DEF Sessions, Session
  <2>7. Session(t)' BY <1>1, <1>3, <1>4, <2>2, <2>5 DEF Session
  <2> QED BY <2>3, <2>6, <2>7 DEF Sessions
<1>6. ASSUME NEW task \in TaskRecord, NEW n \in Nat, NEW body \in Seq(Byte),
             TaskOf(t, task), Proceed(t, task, n, body)
      PROVE  Sessions'
  <2> DEFINE range == <<task.min, task.max, task.size>>
  <2>1. /\ client[task.of].sid = sid
        /\ task.buffer <=> job[task.of].kind = "download"
    BY <1>1, <1>6 DEF TaskOf, Known, Sessions, Owned, TaskRecord
  <2>2. \A s \in DOMAIN tasks : tasks[s].of \in Transfer BY DEF Types, TaskRecord
  <2>3. CASE Terminate(sid) /\ Reply(t, 200, range, body)
    <3>1. /\ tasks' = [s \in DOMAIN tasks \ {sid} |-> tasks[s]]
          /\ net' = [net EXCEPT ![t] = Response(200, range, body)]
      BY <2>3 DEF Terminate, Reply
    <3>2. net'[t].dir = "response" /\ (\A u \in Transfer \ {t} : net'[u] = net[u])
      BY <3>1 DEF Types, Response
    <3>3. Owned' BY <1>1, <3>1 DEF Sessions, Owned
    <3>4. \A s : Known(s)' => Known(s) BY <3>1 DEF Known
    <3>5. ~Known(client[t].sid)' BY <1>1, <3>1 DEF Known
    <3>6. \A u \in Transfer \ {t} : Session(u)'
      BY <1>1, <3>2, <3>4 DEF Sessions, Session
    <3>7. Session(t)' BY <1>1, <1>3, <1>4, <3>2, <3>5 DEF Session
    <3> QED BY <3>3, <3>6, <3>7 DEF Sessions
  <2>4. CASE Keep(sid, Advanced(task, n)) /\ Reply(t, 206, range, body)
    <3>1. /\ DOMAIN tasks' = DOMAIN tasks \cup {sid}
          /\ tasks'[sid] = Advanced(task, n)
          /\ \A s \in DOMAIN tasks \ {sid} : tasks'[s] = tasks[s]
          /\ net' = [net EXCEPT ![t] = Response(206, range, body)]
      BY <2>4 DEF Keep, Reply
    <3>2. /\ net'[t].dir = "response" /\ net'[t].status = 206
          /\ \A u \in Transfer \ {t} : net'[u] = net[u]
      BY <3>1 DEF Types, Response
    <3>3. Advanced(task, n).of = task.of /\ Advanced(task, n).buffer = task.buffer
      BY DEF Advanced, TaskRecord
    <3>4. Owned' BY <1>1, <2>1, <3>1, <3>3 DEF Sessions, Owned
    <3>5. \A u \in Transfer \ {t} : Known(client[u].sid)' => Known(client[u].sid)
      BY <1>1, <1>2, <3>1 DEF Known
    <3>6. \A u \in Transfer \ {t} : Session(u)'
      BY <1>1, <3>2, <3>5 DEF Sessions, Session, Known
    <3>7. Session(t)' BY <1>1, <1>3, <1>4, <3>2 DEF Session
    <3> QED BY <3>4, <3>6, <3>7 DEF Sessions
  <2> QED BY <1>6, <2>3, <2>4 DEF Proceed
<1> QED BY <1>1, <1>5, <1>6 DEF Served

-----------------------------------------------------------------------------
(* The invariant of the sessions and its consequences.                     *)

SessionInv == Types /\ Ids /\ Sessions /\ AssertsHold

LEMMA SessionNext ==
  ASSUME SessionInv, [Next]_vars, DistinctIds'
  PROVE  SessionInv'
<1>1. Types /\ Ids /\ Sessions /\ AssertsHold /\ Types' /\ Ids'
  BY TypesNext, IdsNext DEF SessionInv, Ids
<1>2. CASE UNCHANGED vars
  BY <1>1, <1>2
     DEF vars, SessionInv, Sessions, Owned, Session, Known, AssertsHold
<1>3. CASE Tick
  <2>1. UNCHANGED <<job, rand, client, net, tasks, aborted>>
    BY <1>3 DEF Tick
  <2> QED BY <1>1, <2>1
          DEF SessionInv, Sessions, Owned, Session, Known, AssertsHold
<1>4. ASSUME NEW t \in Transfer, ClientNext(t) PROVE SessionInv'
  <2>1. ClientStep(t) BY <1>1, <1>4, ClientSteps
  <2> QED BY <1>1, <2>1, SessionsClient DEF SessionInv, AssertsHold, ClientStep
<1>5. ASSUME NEW t \in Transfer, BeginUpload(t) \/ BeginDownload(t)
      PROVE  SessionInv'
  <2>1. Sessions' /\ UNCHANGED aborted
    BY <1>1, <1>5, SessionsBegin, BeginStep
  <2> QED BY <1>1, <2>1 DEF SessionInv, AssertsHold
<1>6. ASSUME NEW t \in Transfer, Serve(t) PROVE SessionInv'
  <2>1. Sessions' /\ UNCHANGED aborted BY <1>1, <1>6, SessionsServe
  <2> QED BY <1>1, <2>1 DEF SessionInv, AssertsHold
<1> QED BY <1>2, <1>3, <1>4, <1>5, <1>6 DEF Next, Start, Loop, ClientNext

\* What holds always, and what holds until two calls share an id.
SessionsHold == Types /\ Drawing /\ (DistinctIds => SessionInv)

LEMMA SessionInvariance == Spec => []SessionsHold
<1>1. Init => SessionsHold
  BY TypesInit, IdsInit, SessionsInit
     DEF SessionsHold, SessionInv, Ids, Init, AssertsHold
<1>2. SessionsHold /\ [Next]_vars => SessionsHold'
  BY TypesNext, IdsNext, SessionNext DEF SessionsHold
<1> QED BY <1>1, <1>2, PTL DEF Spec

(* The asserts of the two handlers (ut_webapp.cpp 338 and 453) can fail    *)
(* for one reason only, two calls that have drawn the same id              *)
(* (bofwebapp.cpp 39): otherwise a session is asked only by the transfer   *)
(* that drew its id, so the task is of the kind of the request, however    *)
(* requests are delayed, lost or served after their client has given up.   *)
THEOREM OnlySharedIds == Spec => []OnlySharedIdsAbort
<1>1. SessionsHold => OnlySharedIdsAbort
  BY DEF SessionsHold, SessionInv, AssertsHold, OnlySharedIdsAbort
<1> QED BY <1>1, SessionInvariance, PTL

(* A transfer that got its last answer, good or bad, has left nothing on   *)
(* the server, and no late request makes a new task for its session.       *)
THEOREM SessionsReleased == Spec => []FinishedSessionReleased
<1>1. SessionsHold => FinishedSessionReleased
  BY DEF SessionsHold, SessionInv, Sessions, Session, FinishedSessionReleased
<1> QED BY <1>1, SessionInvariance, PTL

-----------------------------------------------------------------------------
(* The ranges of an upload.                                                *)

NextMin(c) == Sz(c.max + 1)
NextMax(c) == Least(Sz(Sz(c.max + 1) + ReadSize(c) - 1), Last(c.data))

\* A range of a file, short enough for the 32 bits of a chunk.
Fits(c) == c.min <= c.max /\ c.max < c.data /\ c.max - c.min + 1 < U32

\* The server has a task which waits for this range of t.
Awaits(t, min, max) ==
  LET sid == client[t].sid
  IN /\ Known(sid)
     /\ tasks[sid].of = t
     /\ <<tasks[sid].min, tasks[sid].max, tasks[sid].size>> =
          <<min, max, client[t].data>>

\* The request is for the range of the client.
AsksForRange(t) ==
  LET c == client[t]
      m == net[t]
  IN /\ m.min = c.min /\ m.max = c.max /\ m.size = c.data
     /\ Len(m.body) = ReadSize(c)

\* The range of the client was not served yet.
Unserved(t) ==
  client[t].pc = "send" \/ (client[t].pc = "wait" /\ net[t].dir = "request")

InStep(t) ==
  LET c == client[t]
  IN /\ c.pc \in {"new", "idle"} => c.min = 0
     /\ c.pc \in {"send", "wait"} /\ c.data > 0 => Fits(c)
     /\ c.pc \in {"send", "wait"} => c.data = job[t].size
     /\ c.pc = "wait" => c.data > 0
     /\ net[t].dir = "request" => AsksForRange(t)
     /\ Unserved(t) /\ c.status = 0 => ~Known(c.sid)
     /\ Unserved(t) /\ c.status = 206 => c.data > 0 /\ Awaits(t, c.min, c.max)
     /\ c.pc = "wait" /\ net[t].dir = "response" /\ net[t].status = 206 =>
          c.max < c.data - 1 /\ Awaits(t, NextMin(c), NextMax(c))

UploadsInStep == \A t \in Transfer : job[t].kind = "upload" => InStep(t)

LEMMA InStepInit == Init => UploadsInStep
BY DEF Init, UploadsInStep, InStep, NewClient, NoMsg, Unserved

LEMMA NumbersOf ==
  ASSUME NEW c \in ClientRecord
  PROVE  /\ c.min \in Nat /\ c.max \in Nat /\ c.data \in Nat
         /\ c.min < SizeT /\ c.max < SizeT /\ c.data < SizeT
BY TransferAssumption DEF TransferAssumption, ClientRecord, Word

LEMMA SizeOfRange ==
  ASSUME NEW c \in ClientRecord, Fits(c)
  PROVE  ReadSize(c) = c.max - c.min + 1
<1>1. c.max - c.min + 1 \in 0 .. SizeT - 1
  BY NumbersOf, TransferAssumption DEF TransferAssumption, Fits
<1> QED BY <1>1, SzOfSmall DEF ReadSize

(* The range that follows is one of the file.                              *)
LEMMA NextRange ==
  ASSUME NEW c \in ClientRecord, Fits(c), c.max < c.data - 1,
         c.data <= SizeT - U32 - 1
  PROVE  /\ NextMin(c) = c.max + 1
         /\ NextMax(c) = Least(Sz(c.max + ReadSize(c)), Last(c.data))
         /\ NextMin(c) <= NextMax(c) /\ NextMax(c) < c.data
         /\ NextMax(c) - NextMin(c) + 1 < U32
<1> DEFINE n == ReadSize(c)
<1>1. /\ c.min \in Nat /\ c.max \in Nat /\ c.data \in Nat /\ c.data < SizeT
      /\ U32 \in Nat /\ SizeT \in Nat
  BY NumbersOf, TransferAssumption DEF TransferAssumption
<1>2. n = c.max - c.min + 1 BY SizeOfRange
<1>3. n \in Nat /\ n >= 1 /\ n < U32 BY <1>1, <1>2 DEF Fits
<1> HIDE DEF n
<1>4. NextMin(c) = c.max + 1
  <2>1. c.max + 1 \in 0 .. SizeT - 1 BY <1>1
  <2> QED BY <2>1, SzOfSmall DEF NextMin
<1>5. Sz(c.max + n) = c.max + n
  <2>1. c.max + n \in 0 .. SizeT - 1 BY <1>1, <1>3
  <2> QED BY <2>1, SzOfSmall
<1>6. Last(c.data) = c.data - 1
  BY <1>1, LastOfFile DEF ClientRecord
<1>7. NextMax(c) = Least(Sz(c.max + n), Last(c.data))
  <2>1. Sz(c.max + 1) + n - 1 = c.max + n BY <1>1, <1>3, <1>4 DEF NextMin
  <2> QED BY <2>1 DEF NextMax, n
<1>8. NextMax(c) = IF c.max + n <= c.data - 1 THEN c.max + n ELSE c.data - 1
  BY <1>5, <1>6, <1>7 DEF Least
<1> QED BY <1>1, <1>3, <1>4, <1>7, <1>8 DEF n

LEMMA InStepClient ==
  ASSUME Types, Ids, Sessions, UploadsInStep, NEW t \in Transfer, ClientStep(t)
  PROVE  UploadsInStep'
<1>1. UNCHANGED <<tasks, job>> BY DEF ClientStep
<1>2. ASSUME NEW u \in Transfer \ {t}, job[u].kind = "upload"
      PROVE  InStep(u)'
  <2>1. client'[u] = client[u] /\ net'[u] = net[u] BY DEF ClientStep
  <2> QED BY <1>1, <1>2, <2>1
          DEF UploadsInStep, InStep, Unserved, Awaits, AsksForRange, Known
<1>3. ASSUME job[t].kind = "upload" PROVE InStep(t)'
  <2> DEFINE c == client[t]
  <2>1. InStep(t) /\ Session(t) /\ c \in ClientRecord /\ client'[t].sid = c.sid
    BY <1>3 DEF UploadsInStep, Sessions, Types, ClientStep
  <2>2. NoMsg.dir = "none" BY DEF NoMsg
  <2>3. CASE Stays(t)
    <3>1. c.pc = "new" \/ c.pc = "idle" BY <2>3 DEF Stays
    <3>2. net'[t].dir = "none" BY <2>1, <2>3, <3>1 DEF Session, Stays
    <3>3. client'[t].min = c.min
      BY <2>3 DEF Stays, SameRange
    <3> QED BY <2>1, <2>3, <3>1, <3>2, <3>3 DEF InStep, Stays, Unserved
  <2>4. CASE Ends(t)
    <3>1. SameRange(t) /\ client'[t].pc \in {"done", "crashed"}
      BY <1>3, <2>4 DEF Ends
    <3>2. net'[t].dir = "request" => net'[t] = net[t]
      BY <2>2, <2>4 DEF Ends
    <3> QED BY <2>1, <3>1, <3>2
            DEF InStep, Unserved, AsksForRange, SameRange, ReadSize
  <2>5. CASE Sends(t)
    <3>1. PICK body \in Seq(Byte) :
            /\ net'[t] = Request(c, c.min, c.max, c.data, body)
            /\ Len(body) = ReadSize(c) /\ CanRead(t, c.pos, ReadSize(c))
      BY <1>3, <2>5 DEF Sends
    <3>2. /\ net'[t].dir = "request" /\ net'[t].min = c.min
          /\ net'[t].max = c.max /\ net'[t].size = c.data /\ net'[t].body = body
      BY <3>1 DEF Request
    <3>3. /\ client'[t].min = c.min /\ client'[t].max = c.max
          /\ client'[t].data = c.data /\ client'[t].status = c.status
          /\ c.pc = "send" /\ client'[t].pc = "wait"
      BY <2>5 DEF Sends, SameRange
    <3>4. AsksForRange(t)' BY <3>1, <3>2, <3>3 DEF AsksForRange, ReadSize
    <3>5. c.data > 0
      <4>1. c.data = job[t].size BY <2>1, <3>3 DEF InStep
      <4>2. c.pos \in Nat /\ ReadSize(c) \in Int /\ c.data \in Nat
        BY <2>1, SizeRead, NumbersOf, TransferAssumption
           DEF TransferAssumption, ClientRecord, Word
      <4> QED BY <3>1, <4>1, <4>2 DEF CanRead
    <3>6. Fits(c) /\ c.data = job[t].size BY <2>1, <3>3, <3>5 DEF InStep
    <3>7. Fits(client'[t]) BY <3>3, <3>6 DEF Fits
    <3>8. /\ c.status = 0 => ~Known(c.sid)'
          /\ c.status = 206 => Awaits(t, c.min, c.max)'
      BY <1>1, <2>1, <3>3 DEF InStep, Unserved, Awaits, Known
    <3> QED BY <1>1, <2>1, <3>2, <3>3, <3>4, <3>5, <3>6, <3>7, <3>8 DEF InStep, Unserved
  <2>6. CASE Repeats(t)
    <3>1. /\ c.pc = "wait" /\ net[t].dir = "response" /\ net[t].status = 206
          /\ net'[t].dir = "none" /\ UploadAgain(t)
      BY <1>3, <2>2, <2>6 DEF Repeats
    <3>2. /\ client'[t].pc = "send" /\ client'[t].status = 206
          /\ client'[t].data = c.data /\ client'[t].min = NextMin(c)
          /\ client'[t].max = NextMax(c)
      BY <3>1, UploadAgainStep DEF NextMin, NextMax
    <3>3. /\ c.data > 0 /\ Fits(c) /\ c.max < c.data - 1
          /\ c.data = job[t].size /\ Awaits(t, NextMin(c), NextMax(c))
      BY <2>1, <3>1 DEF InStep
    <3>4. c.data <= SizeT - U32 - 1 BY <3>3, JobType
    <3>5. Fits(client'[t]) BY <2>1, <3>2, <3>3, <3>4, NextRange DEF Fits
    <3>6. Awaits(t, client[t].min, client[t].max)'
      BY <1>1, <2>1, <3>2, <3>3 DEF Awaits, Known
    <3> QED BY <1>1, <2>1, <3>1, <3>2, <3>3, <3>5, <3>6 DEF InStep, Unserved
  <2>7. CASE Loses(t)
    <3>1. client'[t] = c /\ net'[t].dir = "none" BY <2>2, <2>7 DEF Loses
    <3> QED BY <1>1, <2>1, <3>1 DEF InStep, Unserved, Awaits, Known
  <2> QED BY <2>3, <2>4, <2>5, <2>6, <2>7 DEF ClientStep
<1> QED BY <1>1, <1>2, <1>3 DEF UploadsInStep

LEMMA InStepBegin ==
  ASSUME Types, Ids, Sessions, UploadsInStep, NEW t \in Transfer,
         BeginUpload(t) \/ BeginDownload(t), DistinctIds'
  PROVE  UploadsInStep'
<1>1. /\ UNCHANGED <<tasks, job, net>> /\ ~Known(rand)
      /\ \A u \in Transfer \ {t} : client'[u] = client[u]
  BY BeginStep, SessionsBegin
<1>2. ASSUME NEW u \in Transfer \ {t}, job[u].kind = "upload"
      PROVE  InStep(u)'
  BY <1>1, <1>2 DEF UploadsInStep, InStep, Unserved, Awaits, AsksForRange, Known
<1>3. ASSUME job[t].kind = "upload" PROVE InStep(t)'
  <2> DEFINE c == client[t]
             size == job[t].size
             max == IF size <= UploadChunk(t) THEN Last(size) ELSE UploadChunk(t) - 1
  <2>1. BeginUpload(t) /\ InStep(t) /\ Session(t) /\ c \in ClientRecord
    BY <1>3 DEF UploadsInStep, Sessions, Types, BeginDownload
  <2>2. c.pc = "idle" /\ c.min = 0 /\ c.status = 0 /\ net'[t].dir = "none"
    BY <1>1, <2>1 DEF BeginUpload, InStep, Session
  <2>3. /\ client'[t].pc = "send" /\ client'[t].status = 0
        /\ client'[t].sid = rand /\ client'[t].min = 0
        /\ client'[t].data = size /\ client'[t].max = max
    <3> HIDE DEF max
    <3>1. client' = [client EXCEPT ![t].pc = "send", ![t].sid = rand,
                                   ![t].data = size, ![t].max = max]
      BY <2>1 DEF BeginUpload, max
    <3> QED BY <2>1, <2>2, <3>1 DEF Types, ClientRecord
  <2>4. ASSUME size > 0 PROVE Fits(client'[t])
    <3>1. /\ UploadChunk(t) \in Nat /\ UploadChunk(t) >= 1 /\ UploadChunk(t) < U32
          /\ size \in Nat /\ U32 \in Nat
      BY JobType, TransferAssumption DEF TransferAssumption, UploadChunk, Word
    <3>2. Last(size) = size - 1 BY <2>4, JobType, LastOfFile
    <3>3. max \in Nat /\ max < size /\ max + 1 < U32 BY <2>4, <3>1, <3>2
    <3> HIDE DEF max
    <3> QED BY <2>3, <3>1, <3>3 DEF Fits
  <2> HIDE DEF max
  <2> QED BY <1>1, <2>2, <2>3, <2>4 DEF InStep, Unserved, Known
<1> QED BY <1>1, <1>2, <1>3 DEF UploadsInStep

LEMMA ServeAnswers ==
  ASSUME Types, Ids, Sessions, NEW t \in Transfer, Serve(t)
  PROVE  /\ net[t].sid = client[t].sid /\ net[t].sid # NoSid
         /\ net[t].dir = "request" /\ net'[t].dir = "response"
         /\ UNCHANGED <<job, client>> /\ Served(t) /\ ~WrongKind(t)
         /\ \A u \in Transfer \ {t} : net'[u] = net[u]
         /\ \A s : s # net[t].sid => (Known(s)' <=> Known(s))
         /\ \A s \in DOMAIN tasks : s # net[t].sid => tasks'[s] = tasks[s]
<1> DEFINE sid == net[t].sid
<1>1. /\ sid = client[t].sid /\ sid # NoSid /\ net[t].dir = "request"
      /\ UNCHANGED <<job, client>> /\ Served(t) /\ ~WrongKind(t)
  BY NoAbort, ServeServes DEF Serve, Sessions, Session
<1>2. /\ net'[t].dir = "response"
      /\ \A u \in Transfer \ {t} : net'[u] = net[u]
      /\ \A s : s # sid => (Known(s)' <=> Known(s))
      /\ \A s \in DOMAIN tasks : s # sid => tasks'[s] = tasks[s]
  <2>1. ASSUME NEW status \in Errors, Refuse(t, status)
        PROVE  /\ net' = [net EXCEPT ![t] = Response(status, <<>>, <<>>)]
               /\ tasks' = [s \in DOMAIN tasks \ {sid} |-> tasks[s]]
    BY <2>1 DEF Refuse, Terminate, Reply
  <2>2. ASSUME NEW status \in Errors, Refuse(t, status)
        PROVE  <1>2!:
    BY <2>1, <2>2 DEF Types, Response, Known
  <2>3. ASSUME NEW task, NEW n, NEW body, Proceed(t, task, n, body)
        PROVE  <1>2!:
    <3>1. PICK status \in {200, 206} :
            net' = [net EXCEPT ![t] =
                      Response(status, <<task.min, task.max, task.size>>, body)]
      BY <2>3 DEF Proceed, Reply
    <3>2. net'[t].dir = "response" /\ \A u \in Transfer \ {t} : net'[u] = net[u]
      BY <3>1 DEF Types, Response
    <3>3. CASE Terminate(sid) BY <3>2, <3>3 DEF Terminate, Known
    <3>4. CASE Keep(sid, Advanced(task, n)) BY <3>2, <3>4 DEF Keep, Known
    <3> QED BY <2>3, <3>3, <3>4 DEF Proceed
  <2> QED BY <1>1, <2>2, <2>3 DEF Served
<1> QED BY <1>1, <1>2

LEMMA InStepServe ==
  ASSUME Types, Ids, Sessions, UploadsInStep, NEW t \in Transfer, Serve(t)
  PROVE  UploadsInStep'
<1> DEFINE c == client[t]
           sid == net[t].sid
<1>1. /\ sid = c.sid /\ sid # NoSid /\ net[t].dir = "request"
      /\ UNCHANGED <<job, client>> /\ Served(t) /\ ~WrongKind(t)
  BY ServeAnswers
<1>2. /\ net'[t].dir = "response"
      /\ \A u \in Transfer \ {t} : net'[u] = net[u]
      /\ \A s : s # sid => (Known(s)' <=> Known(s))
      /\ \A s \in DOMAIN tasks : s # sid => tasks'[s] = tasks[s]
  BY ServeAnswers
<1>3. ASSUME NEW u \in Transfer \ {t}, job[u].kind = "upload"
      PROVE  InStep(u)'
  <2>1. client[u].sid # sid BY <1>1 DEF Ids, DistinctIds
  <2> QED BY <1>1, <1>2, <1>3, <2>1
          DEF UploadsInStep, InStep, Unserved, Awaits, AsksForRange, Known
<1>4. ASSUME job[t].kind = "upload" PROVE InStep(t)'
  <2>1. InStep(t) /\ AsksForRange(t) /\ c \in ClientRecord
    BY <1>1, <1>4 DEF UploadsInStep, InStep, Types
  <2>2. c.pc # "send" BY <1>1 DEF Sessions, Session
  <2>3. ASSUME c.pc = "wait", net'[t].status = 206
        PROVE  c.max < c.data - 1 /\ Awaits(t, NextMin(c), NextMax(c))'
    <3>1. \A status \in Errors : ~Refuse(t, status)
      <4> SUFFICES ASSUME NEW status \in Errors, Refuse(t, status) PROVE FALSE
        OBVIOUS
      <4>1. net' = [net EXCEPT ![t] = Response(status, <<>>, <<>>)]
        BY DEF Refuse, Reply
      <4>2. net'[t].status = status BY <4>1 DEF Types, Response
      <4> QED BY <2>3, <4>2 DEF Errors
    <3>2. PICK task \in TaskRecord, n \in Nat, body \in Seq(Byte) :
            /\ TaskOf(t, task) /\ StoredRange(t, task, n)
            /\ Proceed(t, task, n, body)
      BY <1>1, <1>4, <3>1 DEF Served
    <3>3. /\ task.min = c.min /\ task.max = c.max /\ task.size = c.data
          /\ n = ReadSize(c) /\ net[t].max = c.max
      BY <2>1, <3>2 DEF StoredRange, AsksForRange
    <3>4. task.of = t
      <4>1. CASE Known(sid)
        <5>1. task.of \in Transfer /\ client[task.of].sid = sid
          BY <3>2, <4>1 DEF TaskOf, Known, Sessions, Owned, TaskRecord
        <5> QED BY <1>1, <5>1 DEF Ids, DistinctIds
      <4>2. CASE ~Known(sid) BY <3>2, <4>2 DEF TaskOf
      <4> QED BY <4>1, <4>2
    <3>5. Fits(c) /\ c.data > 0 /\ c.data = job[t].size
      BY <2>1, <2>3 DEF InStep
    <3>6. c.data \in Nat /\ c.max \in Nat /\ Last(c.data) = c.data - 1
          /\ c.data <= SizeT - U32 - 1
      BY <2>1, <3>5, NumbersOf, LastOfFile, JobType DEF ClientRecord
    <3>7. /\ ~(c.max >= Last(c.data))
          /\ Keep(sid, Advanced(task, n))
      <4>1. CASE Reply(t, 200, <<task.min, task.max, task.size>>, body)
        <5>1. net'[t].status = 200 BY <4>1 DEF Reply, Types, Response
        <5> QED BY <2>3, <5>1
      <4> QED BY <3>2, <3>3, <4>1 DEF Proceed
    <3>8. c.max < c.data - 1 BY <3>6, <3>7
    <3>9. /\ NextMin(c) = Sz(c.max + 1)
          /\ NextMax(c) = Least(Sz(c.max + n), Last(c.data))
      BY <2>1, <3>3, <3>5, <3>6, <3>8, NextRange DEF NextMin
    <3>10. /\ Advanced(task, n).of = t
           /\ Advanced(task, n).min = NextMin(c)
           /\ Advanced(task, n).max = NextMax(c)
           /\ Advanced(task, n).size = c.data
      BY <3>3, <3>4, <3>9 DEF Advanced, TaskRecord
    <3>11. c.sid \in DOMAIN tasks' /\ tasks'[c.sid] = Advanced(task, n)
      BY <1>1, <3>7 DEF Keep
    <3>12. client' = client BY <1>1
    <3> HIDE DEF sid
    <3>13. Awaits(t, NextMin(client[t]), NextMax(client[t]))'
      BY <3>10, <3>11, <3>12 DEF Awaits, Known, NextMin, NextMax, ReadSize
    <3> QED BY <3>8, <3>13
  <2> QED BY <1>1, <1>2, <2>1, <2>2, <2>3
          DEF InStep, Unserved, NextMin, NextMax, ReadSize
<1> QED BY <1>1, <1>3, <1>4 DEF UploadsInStep

LEMMA InStepNext ==
  ASSUME SessionInv, UploadsInStep, [Next]_vars, DistinctIds'
  PROVE  UploadsInStep'
<1> USE DEF SessionInv
<1>1. CASE UNCHANGED vars \/ Tick
  BY <1>1 DEF vars, Tick, UploadsInStep, InStep, Unserved, Awaits, AsksForRange,
              Known
<1>2. ASSUME NEW t \in Transfer, ClientNext(t) PROVE UploadsInStep'
  BY <1>2, ClientSteps, InStepClient
<1>3. ASSUME NEW t \in Transfer, BeginUpload(t) \/ BeginDownload(t)
      PROVE  UploadsInStep'
  BY <1>3, InStepBegin
<1>4. ASSUME NEW t \in Transfer, Serve(t) PROVE UploadsInStep'
  BY <1>4, InStepServe
<1> QED BY <1>1, <1>2, <1>3, <1>4 DEF Next, Start, Loop, ClientNext

(* Until two calls share an id, the task of the session of an upload       *)
(* writes to its file and waits, between two ranges, for exactly the range *)
(* that the client sends next: the next range of Upload (bofwebclient.cpp  *)
(* 305-313) and the one of PostUpload (ut_webapp.cpp 478-488) are the same *)
(* for every size and chunk, without a wrap of their arithmetic.           *)
THEOREM UploadsStayInStep == Spec => []UploadLockstep
<1> DEFINE Inv == DistinctIds => UploadsInStep
<1>1. Init => Inv BY InStepInit
<1>2. SessionsHold /\ Inv /\ [Next]_vars => Inv'
  BY IdsNext, InStepNext DEF SessionsHold
<1>3. Inv => UploadLockstep
  BY DEF UploadsInStep, InStep, UploadLockstep, Unserved, Awaits
<1> HIDE DEF Inv
<1> QED BY <1>1, <1>2, <1>3, SessionInvariance, PTL DEF Spec
=============================================================================
