--------------------------- MODULE RangeCopyProofs ---------------------------
(***************************************************************************)
(* What is copied: for any transfers, sizes and chunks, and as long as no  *)
(* two calls share an id, the file that a transfer writes is a prefix of   *)
(* the file it reads, whatever is lost, refused or cut off, and all of it  *)
(* when the call returns true.  So RangeTransfer implements FileCopy, and  *)
(* its numbers stay in their types.                                        *)
(***************************************************************************)
EXTENDS RangeTransferProofs, FiniteSetTheorems

-----------------------------------------------------------------------------
(* Bytes of a file.                                                        *)

LEMMA SizeOfFile ==
  ASSUME Types, NEW t \in Transfer
  PROVE  /\ job[t].size \in Nat /\ job[t].size < SizeT
         /\ job[t].size \in Word /\ job[t].size <= SizeT - U32 - 1
BY JobType, TransferAssumption DEF TransferAssumption, Word

LEMMA SourceOf ==
  ASSUME Types, NEW t \in Transfer
  PROVE  Source(t) \in Seq(Byte) /\ Len(Source(t)) = job[t].size
BY SizeOfFile DEF Source, Byte

LEMMA BytesOf ==
  ASSUME Types, NEW t \in Transfer, NEW pos \in Nat, NEW n \in Nat,
         pos + n <= job[t].size
  PROVE  Bytes(t, pos, n) \in Seq(Byte) /\ Len(Bytes(t, pos, n)) = n
<1>1. \A i \in pos + 1 .. pos + n : Source(t)[i] \in Byte
  BY SourceOf, SizeOfFile, ElementOfSeq
<1> QED BY <1>1, SubSeqProperties DEF Bytes

LEMMA BytesNone ==
  ASSUME NEW t \in Transfer, NEW pos \in Nat PROVE Bytes(t, pos, 0) = <<>>
<1>1. pos + 1 \in Int /\ pos + 0 \in Int /\ pos + 0 < pos + 1 OBVIOUS
<1> QED BY <1>1, SubSeqEmpty DEF Bytes

LEMMA BytesAll ==
  ASSUME Types, NEW t \in Transfer
  PROVE  Bytes(t, 0, job[t].size) = Source(t)
<1>1. 0 + 1 = 1 /\ 0 + job[t].size = job[t].size BY SizeOfFile
<1> QED BY <1>1, SourceOf, SubSeqFull DEF Bytes

LEMMA BytesJoined ==
  ASSUME Types, NEW t \in Transfer, NEW pos \in Nat, NEW n \in Nat,
         pos + n <= job[t].size
  PROVE  Bytes(t, 0, pos) \o Bytes(t, pos, n) = Bytes(t, 0, pos + n)
<1> DEFINE s == Source(t)
<1>1. s \in Seq(Byte) /\ Len(s) = job[t].size /\ job[t].size \in Nat
  BY SourceOf, SizeOfFile
<1> HIDE DEF s
<1>2. 1 \in 1 .. Len(s) + 1 /\ pos \in 1 - 1 .. Len(s) /\ pos + n \in pos .. Len(s)
  BY <1>1
<1>3. SubSeq(s, 1, pos) \o SubSeq(s, pos + 1, pos + n) = SubSeq(s, 1, pos + n)
  BY <1>1, <1>2, ConcatAdjacentSubSeq
<1>4. 0 + 1 = 1 /\ 0 + pos = pos /\ 0 + (pos + n) = pos + n OBVIOUS
<1> QED BY <1>3, <1>4 DEF Bytes, s

\* What was sent is cut off.
LEMMA BytesCut ==
  ASSUME Types, NEW t \in Transfer, NEW pos \in Nat, NEW n \in Nat,
         pos + n <= job[t].size, NEW k \in 0 .. n
  PROVE  SubSeq(Bytes(t, pos, n), 1, k) = Bytes(t, pos, k)
<1>1. job[t].size \in Nat /\ pos + k <= job[t].size BY SizeOfFile
<1> DEFINE b == Bytes(t, pos, n)
           d == Bytes(t, pos, k)
<1>2. b \in Seq(Byte) /\ Len(b) = n /\ d \in Seq(Byte) /\ Len(d) = k
  BY <1>1, BytesOf
<1>3. /\ \A i \in 1 .. n : b[i] = Source(t)[pos + i]
      /\ \A i \in 1 .. k : d[i] = Source(t)[pos + i]
  <2>1. \A i \in pos + 1 .. pos + n : Source(t)[i] \in Byte
    BY <1>1, SourceOf, ElementOfSeq
  <2>2. \A i \in 1 .. n : b[i] = Source(t)[(pos + 1) + i - 1]
    BY <2>1, SubSeqProperties DEF Bytes
  <2>3. \A i \in pos + 1 .. pos + k : Source(t)[i] \in Byte
    BY <2>1
  <2>4. \A i \in 1 .. k : d[i] = Source(t)[(pos + 1) + i - 1]
    BY <2>3, SubSeqProperties DEF Bytes
  <2>5. \A i \in Int : (pos + 1) + i - 1 = pos + i OBVIOUS
  <2> QED BY <2>2, <2>4, <2>5
<1> HIDE DEF b, d
<1>4. /\ SubSeq(b, 1, k) \in Seq(Byte) /\ Len(SubSeq(b, 1, k)) = k
      /\ \A i \in 1 .. k : SubSeq(b, 1, k)[i] = b[i]
  BY <1>2, SubSeqProperties
<1>5. \A i \in 1 .. k : SubSeq(b, 1, k)[i] = d[i] BY <1>3, <1>4
<1>6. SubSeq(b, 1, k) = d BY <1>2, <1>4, <1>5, SeqEqual
<1> QED BY <1>6 DEF b, d

-----------------------------------------------------------------------------
(* A copy of the first bytes.                                              *)

Copied(t, s) ==
  /\ Len(s) \in Nat /\ Len(s) <= job[t].size
  /\ s = Bytes(t, 0, Len(s))

LEMMA CopiedNothing ==
  ASSUME Types, NEW t \in Transfer PROVE Copied(t, <<>>) /\ Len(<<>>) = 0
<1>1. Len(<<>>) = 0 OBVIOUS
<1>2. 0 \in Nat /\ Bytes(t, 0, 0) = <<>> BY BytesNone
<1> QED BY <1>1, <1>2, SizeOfFile DEF Copied

LEMMA CopiedType ==
  ASSUME Types, NEW t \in Transfer, NEW s, Copied(t, s)
  PROVE  s \in Seq(Byte) /\ Len(s) \in 0 .. job[t].size
<1>1. 0 \in Nat /\ Len(s) \in Nat /\ 0 + Len(s) <= job[t].size
  BY DEF Copied
<1>2. Bytes(t, 0, Len(s)) \in Seq(Byte) BY <1>1, BytesOf
<1> QED BY <1>1, <1>2, SizeOfFile DEF Copied

\* A piece that continues the copy, or the beginning of one, is appended.
LEMMA CopiedMore ==
  ASSUME Types, NEW t \in Transfer, NEW s, Copied(t, s), NEW n \in Nat,
         Len(s) + n <= job[t].size, NEW k \in 0 .. n
  PROVE  LET more == s \o SubSeq(Bytes(t, Len(s), n), 1, k)
         IN Copied(t, more) /\ Len(more) = Len(s) + k
<1> DEFINE pos == Len(s)
           more == s \o SubSeq(Bytes(t, pos, n), 1, k)
<1>1. pos \in Nat /\ s = Bytes(t, 0, pos) BY DEF Copied
<1> HIDE DEF pos
<1>2. job[t].size \in Nat /\ pos + k \in Nat /\ pos + k <= job[t].size
  BY <1>1, SizeOfFile DEF pos
<1>3. pos + n <= job[t].size BY DEF pos
<1>4. SubSeq(Bytes(t, pos, n), 1, k) = Bytes(t, pos, k)
  BY <1>1, <1>3, BytesCut
<1>5. more = Bytes(t, 0, pos + k)
  <2>1. k \in Nat OBVIOUS
  <2>2. Bytes(t, 0, pos) \o Bytes(t, pos, k) = Bytes(t, 0, pos + k)
    BY <1>1, <1>2, <2>1, BytesJoined
  <2> QED BY <1>1, <1>4, <2>2
<1> HIDE DEF more
<1>6. Len(more) = pos + k
  <2>1. 0 \in Nat /\ 0 + (pos + k) <= job[t].size BY <1>2
  <2>2. Len(Bytes(t, 0, pos + k)) = pos + k BY <1>2, <2>1, BytesOf
  <2> QED BY <1>5, <2>2
<1> QED BY <1>2, <1>5, <1>6 DEF Copied, pos, more

LEMMA CopiedWholly ==
  ASSUME Types, NEW t \in Transfer, NEW s, Copied(t, s), NEW n \in Nat,
         Len(s) + n <= job[t].size
  PROVE  LET more == s \o Bytes(t, Len(s), n)
         IN Copied(t, more) /\ Len(more) = Len(s) + n
<1>1. Len(s) \in Nat BY DEF Copied
<1>2. Bytes(t, Len(s), n) \in Seq(Byte) /\ Len(Bytes(t, Len(s), n)) = n
  BY <1>1, BytesOf
<1>3. SubSeq(Bytes(t, Len(s), n), 1, n) = Bytes(t, Len(s), n)
  BY <1>2, SubSeqFull
<1>4. n \in 0 .. n OBVIOUS
<1> QED BY <1>3, <1>4, CopiedMore

-----------------------------------------------------------------------------
(* The invariant.                                                          *)

\* The client of an upload reads on from where its range begins, and so much
\* is stored; a session that is not known begins a file.
UploadCopy(t) ==
  LET c == client[t]
      m == net[t]
  IN /\ c.pc \in {"new", "idle"} => c.pos = 0 /\ store[t] = <<>>
     /\ c.pc = "send" => c.pos = c.min
     /\ c.pc = "wait" => c.pos = c.max + 1
     /\ m.dir = "request" =>
          /\ c.data = job[t].size /\ Fits(c)
          /\ m.body = Bytes(t, c.min, ReadSize(c))
     /\ c.pc = "send" \/ m.dir = "request" =>
          IF c.min = 0 THEN ~Known(c.sid) /\ store[t] = <<>>
                       ELSE Known(c.sid) => Len(store[t]) = c.min
     /\ c.pc = "wait" /\ m.dir = "response" =>
          /\ m.status = 206 => Len(store[t]) = c.max + 1
          /\ m.status = 200 => Len(store[t]) = job[t].size

\* What an answer with a body carries of the file.
AnswersNext(t) ==
  LET sid == client[t].sid
      m   == net[t]
      n   == Len(store[t])
      k   == Len(m.body)
  IN /\ n + k <= job[t].size
     /\ m.body = Bytes(t, n, k)
     /\ m.status = 200 => n + k = job[t].size
     /\ m.range[3] = job[t].size
     /\ Known(sid) => /\ tasks[sid].pos = n + k
                      /\ tasks[sid].size = job[t].size
                      /\ tasks[sid].min = Sz(m.range[2] + 1)

\* The server reads on from where the copy of a download ends.  It has no task
\* before the first range, and a task that waits for its last range does not
\* wait for the one that Download asks for.
DownloadCopy(t) ==
  LET c    == client[t]
      m    == net[t]
      task == tasks[c.sid]
  IN /\ c.pc \in {"new", "idle"} => c.min = 0 /\ c.data = 0 /\ store[t] = <<>>
     /\ c.pc \in {"send", "wait"} =>
          IF c.status = 0
          THEN c.min = 0 /\ c.data = 0 /\ c.max < U32 /\ store[t] = <<>>
          ELSE c.data = job[t].size
     /\ c.pc = "wait" /\ m.dir = "request" =>
          m.min = c.min /\ m.max = c.max /\ m.size = c.data
     /\ Unserved(t) /\ Known(c.sid) =>
          /\ c.status = 206
          /\ task.pos = Len(store[t]) /\ task.size = job[t].size
          /\ c.max < Last(c.data) \/ c.min # task.min
     /\ c.pc = "wait" /\ m.dir = "response" /\ m.status \in Accepted =>
          AnswersNext(t)

CopyOf(t) ==
  /\ Copied(t, store[t])
  /\ client[t].pc # "done" \/ net[t].dir = "request" => ~client[t].result
  /\ job[t].kind = "upload" => UploadCopy(t)
  /\ job[t].kind = "download" => DownloadCopy(t)

Stores == store \in [Transfer -> Seq(Byte)]

Copies == Stores /\ \A t \in Transfer : CopyOf(t)

CopyInv == SessionInv /\ UploadsInStep /\ Copies

LEMMA CopyInit == Init => Copies
<1>6. Init => Stores BY DEF Init, Stores
<1> SUFFICES ASSUME Init, NEW t \in Transfer PROVE CopyOf(t)
  BY <1>6 DEF Copies
<1>1. Types BY TypesInit
<1>2. store[t] = <<>> /\ client[t] = NewClient /\ net[t] = NoMsg
      /\ ~Known(client[t].sid)
  BY DEF Init, Known
<1>3. Copied(t, store[t]) BY <1>1, <1>2, CopiedNothing
<1>4. NoMsg.dir = "none" /\ NewClient.pc = "new" /\ ~NewClient.result
      /\ NewClient.min = 0 /\ NewClient.data = 0 /\ NewClient.pos = 0
  BY DEF NoMsg, NewClient
<1>5. UploadCopy(t) /\ DownloadCopy(t)
  BY <1>2, <1>4 DEF UploadCopy, DownloadCopy, Unserved
<1> QED BY <1>2, <1>3, <1>4, <1>5 DEF CopyOf

\* A step of another transfer.
LEMMA CopyKept ==
  ASSUME NEW u \in Transfer, CopyOf(u), job' = job,
         client'[u] = client[u], net'[u] = net[u], store'[u] = store[u],
         Known(client[u].sid)' <=> Known(client[u].sid),
         Known(client[u].sid) => tasks'[client[u].sid] = tasks[client[u].sid]
  PROVE  CopyOf(u)'
<1> DEFINE sid == client[u].sid
<1>1. Copied(u, store[u])'
  BY DEF CopyOf, Copied, Bytes, Source
<1>2. ASSUME job[u].kind = "upload" PROVE UploadCopy(u)'
  BY <1>2 DEF CopyOf, UploadCopy, Bytes, Source, Fits, ReadSize
<1>3. ASSUME job[u].kind = "download" PROVE DownloadCopy(u)'
  <2>1. AnswersNext(u) => AnswersNext(u)'
    BY DEF AnswersNext, Bytes, Source
  <2> QED BY <1>3, <2>1 DEF CopyOf, DownloadCopy, Unserved
<1> QED BY <1>1, <1>2, <1>3 DEF CopyOf

-----------------------------------------------------------------------------
(* PostUpload.                                                             *)

LEMMA RefusedStatus ==
  ASSUME Types, NEW t \in Transfer, NEW status \in Errors, Refuse(t, status)
  PROVE  net'[t].dir = "response" /\ net'[t].status \notin {200, 206}
<1>1. net'[t] = Response(status, <<>>, <<>>) BY DEF Refuse, Reply, Types
<1> QED BY <1>1 DEF Response, Errors

LEMMA ProceedStatus ==
  ASSUME Types, NEW t \in Transfer, NEW task, NEW n, NEW body,
         Proceed(t, task, n, body)
  PROVE  /\ net'[t].dir = "response" /\ net'[t].body = body
         /\ net'[t].range = <<task.min, task.max, task.size>>
         /\ net'[t].status \in {200, 206}
         /\ net'[t].status = 200 <=> net[t].max >= Last(task.size)
         /\ net'[t].status = 200 => Terminate(net[t].sid)
         /\ net'[t].status = 206 => Keep(net[t].sid, Advanced(task, n))
<1> DEFINE range == <<task.min, task.max, task.size>>
<1>1. CASE net[t].max >= Last(task.size)
  <2>1. net'[t] = Response(200, range, body) /\ Terminate(net[t].sid)
    BY <1>1 DEF Proceed, Reply, Types
  <2> QED BY <1>1, <2>1 DEF Response
<1>2. CASE ~(net[t].max >= Last(task.size))
  <2>1. net'[t] = Response(206, range, body) /\ Keep(net[t].sid, Advanced(task, n))
    BY <1>2 DEF Proceed, Reply, Types
  <2> QED BY <1>2, <2>1 DEF Response
<1> QED BY <1>1, <1>2

\* The task of the session of t is its own.
LEMMA TaskIsOwn ==
  ASSUME Types, Ids, Sessions, NEW t \in Transfer, net[t].dir = "request",
         Known(net[t].sid)
  PROVE  /\ net[t].sid = client[t].sid
         /\ tasks[net[t].sid].of = t
         /\ tasks[net[t].sid].buffer <=> job[t].kind = "download"
<1>1. net[t].sid = client[t].sid /\ client[t].sid # NoSid
  BY DEF Sessions, Session
<1>2. tasks[net[t].sid].of \in Transfer BY DEF Known, Types, TaskRecord
<1>3. /\ client[tasks[net[t].sid].of].sid = net[t].sid
      /\ tasks[net[t].sid].buffer <=> job[tasks[net[t].sid].of].kind = "download"
  BY DEF Sessions, Owned, Known
<1>4. tasks[net[t].sid].of = t BY <1>1, <1>2, <1>3 DEF Ids, DistinctIds
<1> QED BY <1>1, <1>3, <1>4

\* The ways PostUpload can go, by what it stores of the body.
LEMMA UploadStores ==
  ASSUME Types, Ids, Sessions, NEW t \in Transfer, Serve(t),
         job[t].kind = "upload", UploadsInStep, CopyOf(t)
  PROVE  \/ /\ UNCHANGED store
            /\ net'[t].dir = "response" /\ net'[t].status \notin {200, 206}
         \/ /\ Len(store[t]) = client[t].min
            /\ \E k \in 0 .. Len(net[t].body) :
                 store' = [store EXCEPT ![t] =
                             store[t] \o SubSeq(net[t].body, 1, k)]
            /\ net'[t].dir = "response" /\ net'[t].status \notin {200, 206}
         \/ /\ Len(store[t]) = client[t].min
            /\ store' = [store EXCEPT ![t] = store[t] \o net[t].body]
            /\ net'[t].dir = "response" /\ net'[t].status \in {200, 206}
            /\ net'[t].status = 200 <=> client[t].max >= Last(client[t].data)
<1> DEFINE r    == net[t]
           c    == client[t]
           old  == Known(r.sid)
           task == IF old THEN tasks[r.sid]
                   ELSE [of |-> t, buffer |-> FALSE, min |-> r.min,
                         max |-> r.max, size |-> r.size, chunk |-> U(r.max + 1),
                         pos |-> 0]
           file == IF old THEN store[task.of] ELSE <<>>
           first == r.min = 0 /\ r.max # 0 /\ r.size # 0 /\ r.max < r.size
<1>1. /\ r.dir = "request" /\ r.sid = c.sid /\ r \in RequestRecord
      /\ r.min = c.min /\ r.max = c.max /\ r.size = c.data
  BY IsRequest
  DEF Serve, Sessions, Session, UploadsInStep, InStep, AsksForRange
<1>2. /\ task.of = t /\ ~(old /\ task.buffer)
      /\ ~old => task.size = r.size
  BY <1>1, TaskIsOwn
<1>3. UploadCopy(t) BY DEF CopyOf
<1>4. ASSUME IF old THEN Expected(task, r) ELSE first
      PROVE  /\ file = store[t] /\ Len(store[t]) = c.min
             /\ task.size = c.data
  <2>1. CASE old
    <3>1. c.min # 0 /\ Len(store[t]) = c.min
      BY <1>1, <1>3, <2>1 DEF UploadCopy
    <3>2. r.size = task.size BY <1>4, <2>1 DEF Expected
    <3> QED BY <1>1, <1>2, <2>1, <3>1, <3>2
  <2>2. CASE ~old
    <3>1. c.min = 0 BY <1>1, <1>4, <2>2
    <3>2. store[t] = <<>> BY <1>1, <1>3, <3>1 DEF UploadCopy
    <3>3. Len(<<>>) = 0 OBVIOUS
    <3> QED BY <1>1, <1>2, <2>2, <3>1, <3>2, <3>3
  <2> QED BY <2>1, <2>2
<1>5. PostUpload(t) BY DEF Serve
<1>6. r.body \in Seq(Byte) BY <1>1 DEF RequestRecord
<1>7. \/ \E status \in Errors : Refuse(t, status) /\ UNCHANGED store
      \/ /\ IF old THEN Expected(task, r) ELSE first
         /\ \/ /\ Refuse(t, 500)
               /\ store' = [store EXCEPT ![task.of] = file]
            \/ /\ \E k \in 0 .. Len(r.body) - 1 :
                    store' = [store EXCEPT ![task.of] =
                                file \o SubSeq(r.body, 1, k)]
               /\ Refuse(t, 507)
            \/ /\ store' = [store EXCEPT ![task.of] = file \o r.body]
               /\ Proceed(t, task, Len(r.body), <<>>)
  <2> DEFINE good == IF old THEN Expected(task, r) ELSE first
             n == IF old THEN Least(task.chunk, U(task.size - task.min))
                         ELSE Least(task.chunk, task.size)
  <2>1. IF ~good THEN Refuse(t, 406) /\ UNCHANGED store
        ELSE \/ ~old /\ Refuse(t, 401) /\ UNCHANGED store
             \/ /\ n # Len(r.body)
                /\ Refuse(t, 500)
                /\ store' = [store EXCEPT ![task.of] = file]
             \/ /\ n = Len(r.body)
                /\ \E k \in 0 .. n - 1 :
                     store' = [store EXCEPT ![task.of] =
                                 file \o SubSeq(r.body, 1, k)]
                /\ Refuse(t, 507)
             \/ /\ n = Len(r.body)
                /\ store' = [store EXCEPT ![task.of] = file \o r.body]
                /\ Proceed(t, task, n, <<>>)
    BY <1>2, <1>5, Zenon DEF PostUpload
  <2> HIDE DEF good, n, task, file, first, old
  <2>2. 401 \in Errors /\ 406 \in Errors BY DEF Errors
  <2>3. CASE ~good BY <2>1, <2>2, <2>3
  <2>4. CASE good
    <3>1. \/ Refuse(t, 401) /\ UNCHANGED store
          \/ Refuse(t, 500) /\ store' = [store EXCEPT ![task.of] = file]
          \/ /\ \E k \in 0 .. Len(r.body) - 1 :
                  store' = [store EXCEPT ![task.of] =
                              file \o SubSeq(r.body, 1, k)]
             /\ Refuse(t, 507)
          \/ /\ store' = [store EXCEPT ![task.of] = file \o r.body]
             /\ Proceed(t, task, Len(r.body), <<>>)
      BY <2>1, <2>4, Zenon
    <3>2. IF old THEN Expected(task, r) ELSE first BY <2>4 DEF good
    <3>3. CASE Refuse(t, 401) /\ UNCHANGED store BY <2>2, <3>3
    <3> QED BY <3>1, <3>2, <3>3
  <2> QED BY <2>3, <2>4
<1> HIDE DEF task, file, first, old
<1>8. CASE \E status \in Errors : Refuse(t, status) /\ UNCHANGED store
  BY <1>8, RefusedStatus
<1>9. CASE /\ IF old THEN Expected(task, r) ELSE first
           /\ Refuse(t, 500) /\ store' = [store EXCEPT ![task.of] = file]
  <2>1. store' = [store EXCEPT ![t] = store[t] \o SubSeq(r.body, 1, 0)]
    <3>1. SubSeq(r.body, 1, 0) = <<>>
      <4>1. 1 \in Int /\ 0 \in Int /\ 0 < 1 OBVIOUS
      <4> QED BY <4>1, SubSeqEmpty
    <3>2. store[t] \o <<>> = store[t]
      <4>1. store[t] \in Seq(Byte) BY CopiedType DEF CopyOf
      <4> QED BY <4>1, ConcatEmptySeq
    <3> QED BY <1>2, <1>4, <1>9, <3>1, <3>2
  <2>2. 0 \in 0 .. Len(r.body) BY <1>6
  <2>3. \E j \in 0 .. Len(r.body) :
          store' = [store EXCEPT ![t] = store[t] \o SubSeq(r.body, 1, j)]
    BY <2>1, <2>2
  <2>4. Len(store[t]) = c.min BY <1>4, <1>9
  <2>5. 500 \in Errors BY DEF Errors
  <2>6. net'[t].dir = "response" /\ net'[t].status \notin {200, 206}
    BY <1>9, <2>5, RefusedStatus
  <2> QED BY <2>3, <2>4, <2>6
<1>10. CASE /\ IF old THEN Expected(task, r) ELSE first
            /\ \E k \in 0 .. Len(r.body) - 1 :
                 store' = [store EXCEPT ![task.of] = file \o SubSeq(r.body, 1, k)]
            /\ Refuse(t, 507)
  <2>1. PICK k \in 0 .. Len(r.body) - 1 :
          store' = [store EXCEPT ![t] = store[t] \o SubSeq(r.body, 1, k)]
    BY <1>2, <1>4, <1>10
  <2>2. k \in 0 .. Len(r.body) BY <1>6
  <2>3. \E j \in 0 .. Len(r.body) :
          store' = [store EXCEPT ![t] = store[t] \o SubSeq(r.body, 1, j)]
    BY <2>1, <2>2
  <2>4. Len(store[t]) = c.min BY <1>4, <1>10
  <2>5. 507 \in Errors BY DEF Errors
  <2>6. net'[t].dir = "response" /\ net'[t].status \notin {200, 206}
    BY <1>10, <2>5, RefusedStatus
  <2> QED BY <2>3, <2>4, <2>6
<1>11. CASE /\ IF old THEN Expected(task, r) ELSE first
            /\ store' = [store EXCEPT ![task.of] = file \o r.body]
            /\ Proceed(t, task, Len(r.body), <<>>)
  <2>1. store' = [store EXCEPT ![t] = store[t] \o r.body]
    BY <1>2, <1>4, <1>11
  <2>2. /\ net'[t].dir = "response" /\ net'[t].status \in {200, 206}
        /\ net'[t].status = 200 <=> r.max >= Last(task.size)
    BY <1>11, ProceedStatus
  <2> QED BY <1>1, <1>4, <1>11, <2>1, <2>2
<1> QED BY <1>7, <1>8, <1>9, <1>10, <1>11

\* The copy of t grows to s, and is a copy.
GrowsTo(t, s) ==
  /\ Copied(t, s) /\ Len(store[t]) <= Len(s)
  /\ store' = [store EXCEPT ![t] = s]

LEMMA GrowsNot ==
  ASSUME Types, Stores, NEW t \in Transfer, CopyOf(t), UNCHANGED store
  PROVE  GrowsTo(t, store[t])
<1>1. Copied(t, store[t]) /\ Len(store[t]) \in Nat BY DEF CopyOf, Copied
<1>2. store' = [store EXCEPT ![t] = store[t]] BY DEF Stores
<1>3. Len(store[t]) <= Len(store[t]) BY <1>1
<1> QED BY <1>1, <1>2, <1>3, Zenon DEF GrowsTo

LEMMA UploadGrows ==
  ASSUME Types, Ids, Sessions, Stores, NEW t \in Transfer, Serve(t),
         job[t].kind = "upload", UploadsInStep, CopyOf(t)
  PROVE  \E s :
           /\ GrowsTo(t, s) /\ net'[t].dir = "response"
           /\ net'[t].status = 206 => Len(s) = client[t].max + 1
           /\ net'[t].status = 200 => Len(s) = job[t].size
<1> DEFINE c == client[t]
           b == net[t].body
           n == ReadSize(c)
<1>1. /\ Copied(t, store[t]) /\ Len(store[t]) \in Nat
      /\ c.data = job[t].size /\ Fits(c) /\ b = Bytes(t, c.min, n)
      /\ c \in ClientRecord
  BY DEF Serve, CopyOf, Copied, UploadCopy, Types
<1>2. n = c.max - c.min + 1 /\ c.min \in Nat /\ c.max \in Nat /\ c.data \in Nat
  BY <1>1, SizeOfRange, NumbersOf
<1>3. n \in Nat /\ c.min + n = c.max + 1 /\ c.min + n <= job[t].size
  BY <1>1, <1>2 DEF Fits
<1>4. Len(b) = n BY <1>1, <1>2, <1>3, BytesOf
<1>5. Last(c.data) = c.data - 1
  BY <1>1, <1>2, LastOfFile DEF Fits, ClientRecord
<1>6. \/ /\ UNCHANGED store
         /\ net'[t].dir = "response" /\ net'[t].status \notin {200, 206}
      \/ /\ Len(store[t]) = c.min
         /\ \E k \in 0 .. Len(b) :
              store' = [store EXCEPT ![t] = store[t] \o SubSeq(b, 1, k)]
         /\ net'[t].dir = "response" /\ net'[t].status \notin {200, 206}
      \/ /\ Len(store[t]) = c.min
         /\ store' = [store EXCEPT ![t] = store[t] \o b]
         /\ net'[t].dir = "response" /\ net'[t].status \in {200, 206}
         /\ net'[t].status = 200 <=> c.max >= Last(c.data)
  BY UploadStores
<1>7. c.max + 1 <= job[t].size /\ (c.max >= Last(c.data) => c.max + 1 = job[t].size)
  BY <1>1, <1>2, <1>3, <1>5
<1> HIDE DEF n, b
<1>8. CASE UNCHANGED store /\ net'[t].dir = "response" /\ net'[t].status \notin {200, 206}
  BY <1>8, GrowsNot
<1>9. CASE /\ Len(store[t]) = c.min
           /\ \E k \in 0 .. Len(b) :
                store' = [store EXCEPT ![t] = store[t] \o SubSeq(b, 1, k)]
           /\ net'[t].dir = "response" /\ net'[t].status \notin {200, 206}
  <2>1. PICK k \in 0 .. n :
          store' = [store EXCEPT ![t] = store[t] \o SubSeq(b, 1, k)]
    BY <1>4, <1>9
  <2> DEFINE more == store[t] \o SubSeq(b, 1, k)
  <2>2. Copied(t, more) /\ Len(more) = Len(store[t]) + k
    <3>1. Len(store[t]) + n <= job[t].size BY <1>3, <1>9
    <3>2. b = Bytes(t, Len(store[t]), n) BY <1>1, <1>9
    <3> DEFINE d == store[t] \o SubSeq(Bytes(t, Len(store[t]), n), 1, k)
    <3>3. Copied(t, d) /\ Len(d) = Len(store[t]) + k
      BY <1>1, <1>3, <3>1, CopiedMore
    <3>4. d = more BY <3>2
    <3> QED BY <3>3, <3>4
  <2>3. store' = [store EXCEPT ![t] = more] BY <2>1
  <2> HIDE DEF more
  <2>4. GrowsTo(t, more) BY <1>1, <2>2, <2>3 DEF GrowsTo
  <2> QED BY <1>9, <2>4
<1>10. CASE /\ Len(store[t]) = c.min
            /\ store' = [store EXCEPT ![t] = store[t] \o b]
            /\ net'[t].dir = "response" /\ net'[t].status \in {200, 206}
            /\ net'[t].status = 200 <=> c.max >= Last(c.data)
  <2> DEFINE more == store[t] \o b
  <2>1. Copied(t, more) /\ Len(more) = Len(store[t]) + n
    <3>1. Len(store[t]) + n <= job[t].size BY <1>3, <1>10
    <3>2. b = Bytes(t, Len(store[t]), n) BY <1>1, <1>10
    <3> DEFINE d == store[t] \o Bytes(t, Len(store[t]), n)
    <3>3. Copied(t, d) /\ Len(d) = Len(store[t]) + n
      BY <1>1, <1>3, <3>1, CopiedWholly
    <3>4. d = more BY <3>2
    <3> QED BY <3>3, <3>4
  <2>2. store' = [store EXCEPT ![t] = more] BY <1>10
  <2> HIDE DEF more
  <2>3. GrowsTo(t, more) BY <1>1, <1>3, <2>1, <2>2 DEF GrowsTo
  <2>4. Len(more) = c.max + 1 BY <1>3, <1>10, <2>1
  <2> QED BY <1>7, <1>10, <2>3, <2>4
<1> QED BY <1>6, <1>8, <1>9, <1>10

LEMMA CopyServeUpload ==
  ASSUME Types, Ids, Sessions, Stores, NEW t \in Transfer, Serve(t),
         job[t].kind = "upload", UploadsInStep, CopyOf(t)
  PROVE  CopyOf(t)'
<1>1. PICK s : /\ GrowsTo(t, s) /\ net'[t].dir = "response"
               /\ net'[t].status = 206 => Len(s) = client[t].max + 1
               /\ net'[t].status = 200 => Len(s) = job[t].size
  BY UploadGrows
<1>2. UNCHANGED <<job, client>> BY DEF Serve
<1>3. store'[t] = s /\ Copied(t, s) BY <1>1 DEF GrowsTo, Stores
<1>4. client[t].pc \in {"wait", "done"}
  BY DEF Serve, Sessions, Session, Types, ClientRecord
<1>5. Copied(t, store[t])'
  BY <1>2, <1>3 DEF Copied, Bytes, Source
<1>6. UploadCopy(t)'
  BY <1>1, <1>2, <1>3, <1>4 DEF CopyOf, UploadCopy
<1> QED BY <1>1, <1>2, <1>4, <1>5, <1>6 DEF CopyOf

-----------------------------------------------------------------------------
(* GetDownload.                                                            *)

LEMMA DownloadTask ==
  ASSUME Types, Ids, Sessions, NEW t \in Transfer, Serve(t),
         job[t].kind = "download"
  PROVE  \/ \E status \in Errors : Refuse(t, status)
         \/ \E task \in TaskRecord, n \in Nat :
              /\ CanRead(t, task.pos, n)
              /\ Proceed(t, task, n, Bytes(t, task.pos, n))
              /\ Known(net[t].sid) =>
                   task = tasks[net[t].sid] /\ Expected(task, net[t])
              /\ ~Known(net[t].sid) =>
                   /\ task.pos = 0 /\ task.size = job[t].size /\ net[t].size = 0
                   /\ n = IF job[t].size <= U(net[t].max + 1) THEN job[t].size
                                                             ELSE U(net[t].max + 1)
<1> DEFINE r    == net[t]
           old  == Known(r.sid)
           size == job[t].size
           fits == size <= U(r.max + 1)
           task == IF old THEN tasks[r.sid]
                   ELSE [of |-> t, buffer |-> TRUE, min |-> r.min,
                         max |-> IF fits THEN Last(size) ELSE r.max,
                         size |-> size, chunk |-> U(r.max + 1), pos |-> 0]
           first == r.min = 0 /\ r.max # 0 /\ r.size = 0
           n    == IF old THEN Least(task.chunk, U(task.size - task.min))
                   ELSE IF fits THEN size ELSE task.chunk
           good == IF old THEN Expected(task, r) ELSE first
<1>1. r \in RequestRecord BY IsRequest DEF Serve
<1>2. U(r.max + 1) \in 0 .. U32 - 1
  <2>1. r.max + 1 \in Int
    BY <1>1, TransferAssumption DEF TransferAssumption, RequestRecord, Word
  <2> QED BY <2>1, UIsSmall
<1>3. task \in TaskRecord
  <2>1. Last(size) \in Word /\ size \in Word BY JobType, LastOfFile
  <2>2. CASE old BY <2>2 DEF Types, Known
  <2>3. CASE ~old
    <3>1. (IF fits THEN Last(size) ELSE r.max) \in Word
      BY <1>1, <2>1 DEF RequestRecord
    <3> QED BY <1>1, <1>2, <2>1, <2>3, <3>1 DEF TaskRecord, RequestRecord
  <2> QED BY <2>2, <2>3
<1>4. n \in Nat
  <2>1. size \in Nat /\ task.chunk \in Nat /\ task.size - task.min \in Int
    BY <1>3, JobType, TransferAssumption DEF TransferAssumption, TaskRecord, Word
  <2>2. U(task.size - task.min) \in Nat
    BY <2>1, UIsSmall, TransferAssumption DEF TransferAssumption
  <2> HIDE DEF task, size, fits, old
  <2> QED BY <2>1, <2>2 DEF Least
<1>5. ~(old /\ ~task.buffer) /\ task.of = t
  BY TaskIsOwn DEF Serve
<1>6. GetDownload(t) BY DEF Serve
<1>7. IF ~good THEN Refuse(t, 406)
      ELSE \/ ~old /\ Refuse(t, 401)
           \/ Refuse(t, 500)
           \/ /\ CanRead(task.of, task.pos, n)
              /\ Proceed(t, task, n, Bytes(task.of, task.pos, n))
  BY <1>5, <1>6, Zenon DEF GetDownload
<1>8. ~old => task.pos = 0 /\ task.size = size
              /\ n = IF size <= U(r.max + 1) THEN size ELSE U(r.max + 1)
  OBVIOUS
<1>9. (old => task = tasks[r.sid]) /\ (good /\ old => Expected(task, r))
      /\ (good /\ ~old => r.size = 0)
  OBVIOUS
<1> HIDE DEF task, n, good, first, fits, old, size
<1>10. 401 \in Errors /\ 406 \in Errors /\ 500 \in Errors BY DEF Errors
<1>11. CASE ~good BY <1>7, <1>10, <1>11
<1>12. CASE good /\ (Refuse(t, 401) \/ Refuse(t, 500))
  BY <1>10, <1>12
<1>13. CASE /\ good /\ CanRead(t, task.pos, n)
            /\ Proceed(t, task, n, Bytes(t, task.pos, n))
  BY <1>3, <1>4, <1>8, <1>9, <1>13 DEF old, size
<1> QED BY <1>5, <1>7, <1>11, <1>12, <1>13

LEMMA DownloadAnswers ==
  ASSUME Types, Ids, Sessions, NEW t \in Transfer, Serve(t),
         job[t].kind = "download", CopyOf(t), client[t].pc = "wait",
         net'[t].status \in Accepted
  PROVE  AnswersNext(t)'
<1> DEFINE c    == client[t]
           r    == net[t]
           size == job[t].size
           s    == store[t]
<1>1. /\ UNCHANGED <<job, client, store>> /\ r.dir = "request" /\ r.sid = c.sid
      /\ r \in RequestRecord
  <2>1. UNCHANGED <<job, client>> /\ r.dir = "request" /\ r.sid = c.sid
        /\ r \in RequestRecord
    BY IsRequest DEF Serve, Sessions, Session
  <2>2. GetDownload(t) BY DEF Serve
  <2>3. UNCHANGED store BY <2>2 DEF GetDownload, Abort
  <2> QED BY <2>1, <2>3
<1>2. DownloadCopy(t) /\ Copied(t, s) BY DEF CopyOf
<1>3. /\ r.min = c.min /\ r.max = c.max /\ r.size = c.data
      /\ IF c.status = 0
         THEN c.min = 0 /\ c.data = 0 /\ c.max < U32 /\ s = <<>>
         ELSE c.data = size
      /\ Known(c.sid) =>
           /\ c.status = 206
           /\ tasks[c.sid].pos = Len(s) /\ tasks[c.sid].size = size
           /\ c.max < Last(c.data) \/ c.min # tasks[c.sid].min
  BY <1>1, <1>2 DEF DownloadCopy, Unserved
<1>4. c.max \in Nat /\ size \in Nat /\ size \in Word
  BY NumbersOf, SizeOfFile DEF Types
<1>5. PICK task \in TaskRecord, n \in Nat :
        /\ CanRead(t, task.pos, n)
        /\ Proceed(t, task, n, Bytes(t, task.pos, n))
        /\ Known(r.sid) => task = tasks[r.sid] /\ Expected(task, r)
        /\ ~Known(r.sid) =>
             /\ task.pos = 0 /\ task.size = size /\ r.size = 0
             /\ n = IF size <= U(r.max + 1) THEN size ELSE U(r.max + 1)
  <2>1. ASSUME NEW status \in Errors, Refuse(t, status) PROVE FALSE
    <3>1. net'[t].status \notin {200, 206} BY <2>1, RefusedStatus
    <3> QED BY <3>1 DEF Accepted
  <2> QED BY <2>1, DownloadTask
<1>6. task.pos \in Nat /\ task.max \in Int
  BY TransferAssumption DEF TaskRecord, Word, TransferAssumption
<1>7. n > 0 /\ task.pos + n <= size /\ size > 0 /\ Last(size) = size - 1
  <2>1. n > 0 /\ task.pos + n <= size BY <1>5 DEF CanRead
  <2>2. size > 0 BY <1>4, <1>6, <2>1
  <2> QED BY <1>4, <2>1, <2>2, LastOfFile
<1>8. task.pos = Len(s) /\ task.size = size
  <2>1. CASE Known(r.sid) BY <1>1, <1>3, <1>5, <2>1
  <2>2. CASE ~Known(r.sid)
    <3>1. c.status = 0 BY <1>3, <1>5, <1>7, <2>2
    <3>2. Len(<<>>) = 0 OBVIOUS
    <3> QED BY <1>3, <1>5, <2>2, <3>1, <3>2
  <2> QED BY <2>1, <2>2
<1> DEFINE b == Bytes(t, task.pos, n)
<1>9. Len(b) = n BY <1>6, <1>7, BytesOf
<1>10. /\ net'[t].body = b
       /\ net'[t].range = <<task.min, task.max, task.size>>
       /\ net'[t].status \in {200, 206}
       /\ net'[t].status = 200 <=> r.max >= Last(task.size)
       /\ net'[t].status = 200 => Terminate(r.sid)
       /\ net'[t].status = 206 => Keep(r.sid, Advanced(task, n))
  BY <1>5, ProceedStatus
<1> HIDE DEF b
<1>11. ASSUME net'[t].status = 200 PROVE Len(s) + n = size
  <2>1. c.max >= size - 1 BY <1>3, <1>7, <1>8, <1>10, <1>11
  <2>2. ~Known(r.sid)
    <3> SUFFICES ASSUME Known(r.sid) PROVE FALSE OBVIOUS
    <3>1. c.status = 206 /\ c.data = size BY <1>1, <1>3
    <3>2. c.min = tasks[c.sid].min BY <1>1, <1>3, <1>5 DEF Expected
    <3> QED BY <1>1, <1>3, <1>4, <1>7, <2>1, <3>1, <3>2
  <2>3. c.status = 0 /\ c.max < U32 BY <1>3, <1>5, <1>7, <2>2
  <2>4. n = (IF size <= U(c.max + 1) THEN size ELSE U(c.max + 1)) /\ task.pos = 0
    BY <1>3, <1>5, <2>2
  <2>5. U(c.max + 1) = c.max + 1 \/ U(c.max + 1) = 0
    BY <1>4, <2>3, TransferAssumption DEF TransferAssumption, U
  <2> QED BY <1>4, <1>7, <1>8, <2>1, <2>4, <2>5
<1>12. ASSUME Known(c.sid)'
       PROVE  /\ tasks'[c.sid].pos = Len(s) + n /\ tasks'[c.sid].size = size
              /\ tasks'[c.sid].min = Sz(task.max + 1)
  <2>1. net'[t].status = 206
    <3> SUFFICES ASSUME net'[t].status = 200 PROVE FALSE BY <1>10
    <3>1. Terminate(r.sid) BY <1>10
    <3> QED BY <1>1, <1>12, <3>1 DEF Terminate, Known
  <2>2. tasks'[r.sid] = Advanced(task, n) BY <1>10, <2>1 DEF Keep
  <2>3. /\ Advanced(task, n).pos = task.pos + n
        /\ Advanced(task, n).size = task.size
        /\ Advanced(task, n).min = Sz(task.max + 1)
    BY DEF Advanced, TaskRecord
  <2> QED BY <1>1, <1>8, <2>2, <2>3
<1>13. /\ net'[t].range[3] = size /\ net'[t].range[2] = task.max
       /\ net'[t].body = Bytes(t, Len(s), n) /\ Len(net'[t].body) = n
       /\ Len(s) + n <= size
  BY <1>7, <1>8, <1>9, <1>10 DEF b
<1> QED BY <1>1, <1>11, <1>12, <1>13 DEF AnswersNext, Bytes, Source

LEMMA CopyServeDownload ==
  ASSUME Types, Ids, Sessions, NEW t \in Transfer, Serve(t),
         job[t].kind = "download", CopyOf(t)
  PROVE  CopyOf(t)' /\ UNCHANGED store
<1>1. UNCHANGED <<job, client>> BY DEF Serve
<1>2. GetDownload(t) BY DEF Serve
<1>3. UNCHANGED store BY <1>2 DEF GetDownload, Abort
<1>4. net'[t].dir = "response"
  <2>1. CASE \E status \in Errors : Refuse(t, status) BY <2>1, RefusedStatus
  <2>2. ASSUME NEW task, NEW n, NEW body, Proceed(t, task, n, body)
        PROVE  net'[t].dir = "response"
    BY <2>2, ProceedStatus
  <2> QED BY <2>1, <2>2, DownloadTask
<1>5. client[t].pc \in {"wait", "done"}
  BY DEF Serve, Sessions, Session, Types, ClientRecord
<1>6. Copied(t, store[t])'
  BY <1>1, <1>3 DEF CopyOf, Copied, Bytes, Source
<1>7. client[t].pc = "wait" /\ net'[t].status \in Accepted => AnswersNext(t)'
  BY DownloadAnswers
<1>8. DownloadCopy(t)'
  BY <1>1, <1>3, <1>4, <1>5, <1>7
  DEF CopyOf, DownloadCopy, Unserved
<1> QED BY <1>1, <1>3, <1>4, <1>5, <1>6, <1>8 DEF CopyOf

-----------------------------------------------------------------------------
(* The client.                                                             *)

\* All that CopyOf looks at of the local variables, pc and result apart.
SameLocals(t) ==
  /\ client'[t].min = client[t].min /\ client'[t].max = client[t].max
  /\ client'[t].data = client[t].data /\ client'[t].pos = client[t].pos
  /\ client'[t].sid = client[t].sid

LEMMA CopiedStays ==
  ASSUME NEW t \in Transfer, CopyOf(t), job' = job, store'[t] = store[t]
  PROVE  Copied(t, store[t])'
BY DEF CopyOf, Copied, Bytes, Source

LEMMA CopyStays ==
  ASSUME Types, Sessions, NEW t \in Transfer, CopyOf(t),
         Create(t) \/ Connect(t) \/ Disconnect(t)
  PROVE  CopyOf(t)' /\ UNCHANGED store
<1>1. client[t] \in ClientRecord BY DEF Types
<1>2. /\ client[t].pc \in {"new", "idle"} /\ client'[t].pc = "idle"
      /\ SameLocals(t) /\ client'[t].result = client[t].result
      /\ UNCHANGED <<job, net, tasks, store>>
  BY <1>1 DEF Create, Connect, Disconnect, Types, ClientRecord, SameLocals
<1>3. net[t].dir = "none" BY <1>2 DEF Sessions, Session
<1>4. Copied(t, store[t])' BY <1>2, CopiedStays
<1>5. job[t].kind = "upload" => UploadCopy(t)'
  BY <1>2, <1>3 DEF CopyOf, UploadCopy, SameLocals
<1>6. job[t].kind = "download" => DownloadCopy(t)'
  BY <1>2, <1>3 DEF CopyOf, DownloadCopy, SameLocals, Unserved
<1> QED BY <1>2, <1>4, <1>5, <1>6 DEF CopyOf

LEMMA CopyBegin ==
  ASSUME Types, Ids, Sessions, UploadsInStep, Stores, NEW t \in Transfer,
         CopyOf(t), BeginUpload(t) \/ BeginDownload(t), DistinctIds'
  PROVE  CopyOf(t)' /\ UNCHANGED store
<1> DEFINE c == client[t]
<1>1. c \in ClientRecord /\ client' = [client EXCEPT ![t] = client'[t]]
      /\ c.pc = "idle" /\ c.status = 0 /\ net[t].dir = "none"
  BY DEF BeginUpload, BeginDownload, Types, Sessions, Session
<1>2. /\ UNCHANGED <<job, net, tasks>> /\ ~Known(rand)
      /\ client'[t].pc = "send" /\ client'[t].sid = rand
      /\ client'[t].status = c.status
  BY BeginStep, SessionsBegin
<1>3. store[t] = <<>> /\ c.min = 0
  <2>1. CASE BeginUpload(t)
    BY <1>1, <2>1
    DEF BeginUpload, CopyOf, UploadCopy, UploadsInStep, InStep
  <2>2. CASE BeginDownload(t)
    BY <1>1, <2>2 DEF BeginDownload, CopyOf, DownloadCopy
  <2> QED BY <2>1, <2>2
<1>4. UNCHANGED store
  <2>1. CASE BeginUpload(t) BY <2>1 DEF BeginUpload
  <2>2. CASE BeginDownload(t)
    <3>1. store' = [store EXCEPT ![t] = <<>>] BY <2>2 DEF BeginDownload
    <3> QED BY <1>3, <3>1 DEF Stores
  <2> QED BY <2>1, <2>2
<1>5. /\ client'[t].min = c.min /\ client'[t].pos = c.pos
      /\ client'[t].result = c.result
      /\ BeginDownload(t) => client'[t].data = c.data
                             /\ client'[t].max = U(job[t].chunk - 1)
  BY <1>1 DEF BeginUpload, BeginDownload, Types, ClientRecord
<1>6. Copied(t, store[t])' BY <1>2, <1>4, CopiedStays
<1>7. ASSUME job[t].kind = "upload" PROVE UploadCopy(t)'
  <2>1. c.pos = 0 BY <1>1, <1>7 DEF CopyOf, UploadCopy
  <2> QED BY <1>1, <1>2, <1>3, <1>4, <1>5, <2>1 DEF UploadCopy, Known
<1>8. ASSUME job[t].kind = "download" PROVE DownloadCopy(t)'
  <2>1. BeginDownload(t) /\ c.data = 0
    BY <1>1, <1>8 DEF BeginUpload, CopyOf, DownloadCopy
  <2>2. U(job[t].chunk - 1) < U32
    <3>1. job[t].chunk - 1 \in Int
      BY JobType, TransferAssumption DEF TransferAssumption
    <3> QED BY <3>1, UIsSmall, TransferAssumption DEF TransferAssumption
  <2> QED BY <1>1, <1>2, <1>3, <1>4, <1>5, <2>1, <2>2 DEF DownloadCopy, Known
<1> QED BY <1>1, <1>2, <1>4, <1>5, <1>6, <1>7, <1>8 DEF CopyOf

LEMMA CopySendsUpload ==
  ASSUME Types, Sessions, UploadsInStep, NEW t \in Transfer, CopyOf(t),
         SendUpload(t)
  PROVE  CopyOf(t)' /\ UNCHANGED store
<1> DEFINE c == client[t]
           n == ReadSize(c)
           b == Bytes(t, c.pos, n)
<1>1. /\ c \in ClientRecord /\ c.pc = "send" /\ job[t].kind = "upload"
      /\ client'[t].pc = "wait" /\ client'[t].pos = c.pos + n
      /\ client'[t].min = c.min /\ client'[t].max = c.max
      /\ client'[t].data = c.data /\ client'[t].sid = c.sid
      /\ client'[t].result = c.result /\ CanRead(t, c.pos, n)
      /\ UNCHANGED <<job, tasks, store>>
  BY DEF SendUpload, Types, ClientRecord
<1>2. net'[t] = Request(c, c.min, c.max, c.data, b)
  BY DEF SendUpload, Types
<1>3. /\ c.pos = c.min /\ c.data = job[t].size /\ ~c.result
      /\ IF c.min = 0 THEN ~Known(c.sid) /\ store[t] = <<>>
                      ELSE Known(c.sid) => Len(store[t]) = c.min
      /\ c.data > 0 => Fits(c)
  BY <1>1 DEF CopyOf, UploadCopy, UploadsInStep, InStep
<1>4. c.pos \in Nat /\ n \in Int /\ c.data \in Nat
  BY <1>1, SizeRead, NumbersOf, TransferAssumption
  DEF TransferAssumption, ClientRecord, Word
<1>5. Fits(c) BY <1>1, <1>3, <1>4 DEF CanRead
<1>6. c.pos + n = c.max + 1
  BY <1>1, <1>3, <1>5, SizeOfRange, NumbersOf
<1>7. net'[t].dir = "request" /\ net'[t].body = Bytes(t, c.min, n)
  BY <1>2, <1>3 DEF Request
<1>8. Copied(t, store[t])' BY <1>1, CopiedStays
<1>9. UploadCopy(t)'
  <2>1. Fits(client'[t]) BY <1>1, <1>5 DEF Fits
  <2>2. ReadSize(client'[t]) = n BY <1>1 DEF ReadSize
  <2>3. client'[t].pos = client'[t].max + 1 BY <1>1, <1>6
  <2>4. net'[t].body = Bytes(t, client'[t].min, ReadSize(client'[t]))
    BY <1>1, <1>7, <2>2
  <2>5. (net'[t].body = Bytes(t, client[t].min, ReadSize(client[t]))')
    BY <1>1, <2>4 DEF Bytes, Source
  <2> QED BY <1>1, <1>3, <1>7, <2>1, <2>3, <2>5 DEF UploadCopy, Known
<1> QED BY <1>1, <1>3, <1>8, <1>9 DEF CopyOf

LEMMA CopySendsDownload ==
  ASSUME Types, Sessions, NEW t \in Transfer, CopyOf(t), SendDownload(t)
  PROVE  CopyOf(t)' /\ UNCHANGED store
<1> DEFINE c == client[t]
<1>1. /\ c \in ClientRecord /\ c.pc = "send" /\ job[t].kind = "download"
      /\ client'[t].pc = "wait" /\ SameLocals(t)
      /\ client'[t].result = c.result /\ client'[t].status = c.status
      /\ UNCHANGED <<job, tasks, store>>
  BY DEF SendDownload, Types, ClientRecord, SameLocals
<1>2. net'[t] = Request(c, c.min, c.max, c.data, <<>>)
  BY DEF SendDownload, Types
<1>3. /\ net'[t].dir = "request" /\ net'[t].min = c.min /\ net'[t].max = c.max
      /\ net'[t].size = c.data
  BY <1>2 DEF Request
<1>4. Copied(t, store[t])' BY <1>1, CopiedStays
<1>5. DownloadCopy(t)'
  BY <1>1, <1>3 DEF CopyOf, DownloadCopy, SameLocals, Unserved, Known
<1> QED BY <1>1, <1>4, <1>5 DEF CopyOf

\* What Return makes of the locals.
LEMMA ReturnLocals ==
  ASSUME Types, NEW t \in Transfer, NEW status, NEW result,
         Return(t, status, result)
  PROVE  SameLocals(t) /\ client'[t].pc = "done" /\ client'[t].result = result
<1>1. client[t] \in ClientRecord BY DEF Types
<1> QED BY <1>1 DEF Return, Types, ClientRecord, SameLocals

\* A call ends: nothing is in the way any more, or a request that was sent.
LEMMA CopyReturn ==
  ASSUME Types, NEW t \in Transfer, CopyOf(t), NEW status, NEW result \in BOOLEAN,
         Return(t, status, result), UNCHANGED <<job, tasks>>,
         Copied(t, store[t])',
         \/ net'[t].dir = "none"
         \/ net'[t] = net[t] /\ net[t].dir = "request" /\ ~result /\ store'[t] = store[t]
  PROVE  CopyOf(t)'
<1>1. SameLocals(t) /\ client'[t].pc = "done" /\ client'[t].result = result
  BY ReturnLocals
<1>2. job[t].kind = "upload" => UploadCopy(t)'
  BY <1>1
  DEF CopyOf, UploadCopy, SameLocals, Fits, ReadSize, Bytes, Source, Known
<1>3. job[t].kind = "download" => DownloadCopy(t)'
  BY <1>1 DEF DownloadCopy, Unserved
<1> QED BY <1>1, <1>2, <1>3 DEF CopyOf

LEMMA CopyEnds ==
  ASSUME Types, Sessions, NEW t \in Transfer, CopyOf(t),
         BeginRefused(t) \/ SendUploadFails(t) \/ GiveUp(t)
  PROVE  CopyOf(t)' /\ UNCHANGED store
<1>1. UNCHANGED <<job, tasks, store>>
      /\ \E status : Return(t, status, FALSE)
  BY DEF BeginRefused, SendUploadFails, GiveUp
<1>2. Copied(t, store[t])' BY <1>1, CopiedStays
<1>3. net'[t].dir = "none" \/ (net'[t] = net[t] /\ net[t].dir = "request")
  <2>1. NoMsg.dir = "none" BY DEF NoMsg
  <2>2. CASE BeginRefused(t) \/ SendUploadFails(t)
    BY <2>2 DEF BeginRefused, SendUploadFails, Sessions, Session
  <2>3. CASE GiveUp(t) BY <2>1, <2>3 DEF GiveUp, Types
  <2> QED BY <2>2, <2>3
<1>4. FALSE \in BOOLEAN OBVIOUS
<1> QED BY <1>1, <1>2, <1>3, <1>4, CopyReturn

\* The process has ended in the call.
LEMMA CopyCrash ==
  ASSUME Types, Sessions, NEW t \in Transfer, CopyOf(t), SendUploadCrashes(t)
  PROVE  CopyOf(t)' /\ UNCHANGED store /\ client'[t].pc # "done"
<1>1. /\ client[t] \in ClientRecord /\ client[t].pc = "send"
      /\ job[t].kind = "upload" /\ UNCHANGED <<job, tasks, store, net>>
      /\ client' = [client EXCEPT ![t].pc = "crashed"]
  BY DEF SendUploadCrashes, Types
<1>2. client'[t].pc = "crashed" /\ client'[t].result = client[t].result
  BY <1>1 DEF Types, ClientRecord
<1>3. net[t].dir = "none" BY <1>1 DEF Sessions, Session
<1>4. Copied(t, store[t])' BY <1>1, CopiedStays
<1>5. UploadCopy(t)' BY <1>1, <1>2, <1>3 DEF UploadCopy
<1> QED BY <1>1, <1>2, <1>4, <1>5 DEF CopyOf

LEMMA CopyLost ==
  ASSUME Types, NEW t \in Transfer, CopyOf(t), Lose(t)
  PROVE  CopyOf(t)' /\ UNCHANGED store
<1>1. UNCHANGED <<job, client, tasks, store>> /\ net'[t].dir = "none"
  BY DEF Lose, Types, NoMsg
<1>2. Copied(t, store[t])' BY <1>1, CopiedStays
<1>3. job[t].kind = "upload" => UploadCopy(t)'
  BY <1>1 DEF CopyOf, UploadCopy, Known
<1>4. job[t].kind = "download" => DownloadCopy(t)'
  BY <1>1 DEF CopyOf, DownloadCopy, Unserved, Known
<1> QED BY <1>1, <1>2, <1>3, <1>4 DEF CopyOf

LEMMA CopyReceiveUpload ==
  ASSUME Types, Sessions, UploadsInStep, NEW t \in Transfer, CopyOf(t),
         ReceiveUpload(t)
  PROVE  /\ CopyOf(t)' /\ UNCHANGED store
         /\ client'[t].pc = "done" /\ client'[t].result =>
              Len(store[t]) = job[t].size
<1> DEFINE c     == client[t]
           r     == net[t]
           whole == c.max >= Last(c.data)
<1>1. /\ c \in ClientRecord /\ c.pc = "wait" /\ job[t].kind = "upload"
      /\ r.dir = "response" /\ net'[t].dir = "none"
      /\ UNCHANGED <<job, tasks, store>>
  BY DEF ReceiveUpload, Types, NoMsg
<1>2. UploadCopy(t) /\ InStep(t) /\ ~c.result
  BY <1>1 DEF CopyOf, UploadsInStep
<1>3. Copied(t, store[t])' BY <1>1, CopiedStays
<1>4. \/ r.status = 206 /\ UploadAgain(t)
      \/ r.status = 200 /\ Return(t, 200, whole)
      \/ Return(t, r.status, FALSE)
  BY DEF ReceiveUpload, UploadAnswered, Accepted
<1>5. CASE r.status = 206 /\ UploadAgain(t)
  <2>1. c.max < c.data - 1 /\ Fits(c) /\ c.pos = c.max + 1
        /\ Len(store[t]) = c.max + 1 /\ c.data = job[t].size
    <3>1. c.data > 0 BY <1>1, <1>2 DEF InStep
    <3> QED BY <1>1, <1>2, <1>5, <3>1 DEF InStep, UploadCopy
  <2>2. NextMin(c) = c.max + 1 /\ c.max \in Nat
    BY <1>1, <2>1, JobType, NextRange, NumbersOf
  <2>3. client'[t].pc = "send" /\ client'[t].sid = c.sid
        /\ client'[t].min = c.max + 1
    BY <1>5, <2>2, UploadAgainStep DEF NextMin
  <2>4. client'[t].pos = c.pos /\ client'[t].result = c.result
    BY <1>1, <1>5 DEF UploadAgain, Types, ClientRecord
  <2>5. client'[t].min # 0 BY <2>2, <2>3
  <2>6. UploadCopy(t)'
    BY <1>1, <2>1, <2>3, <2>4, <2>5 DEF UploadCopy, Known
  <2> QED BY <1>1, <1>2, <1>3, <2>3, <2>4, <2>6 DEF CopyOf
<1>6. CASE r.status = 200 /\ Return(t, 200, whole)
  <2>1. whole \in BOOLEAN OBVIOUS
  <2> HIDE DEF whole
  <2>2. CopyOf(t)' BY <1>1, <1>3, <1>6, <2>1, CopyReturn
  <2>3. Len(store[t]) = job[t].size BY <1>1, <1>2, <1>6 DEF UploadCopy
  <2> QED BY <1>1, <2>2, <2>3
<1>7. CASE Return(t, r.status, FALSE)
  <2>1. FALSE \in BOOLEAN OBVIOUS
  <2>2. CopyOf(t)' BY <1>1, <1>3, <1>7, <2>1, CopyReturn
  <2>3. ~client'[t].result BY <1>7, ReturnLocals
  <2> QED BY <1>1, <2>2, <2>3
<1> QED BY <1>4, <1>5, <1>6, <1>7

\* The body of an answer that is accepted continues the copy.
LEMMA BodyContinues ==
  ASSUME Types, Stores, Sessions, NEW t \in Transfer, CopyOf(t),
         job[t].kind = "download", client[t].pc = "wait",
         net[t].dir = "response", DownloadOk(client[t], net[t]),
         NEW k \in 0 .. Len(net[t].body),
         store' = [store EXCEPT ![t] = store[t] \o SubSeq(net[t].body, 1, k)]
  PROVE  /\ GrowsTo(t, store[t] \o SubSeq(net[t].body, 1, k))
         /\ Len(store[t] \o SubSeq(net[t].body, 1, k)) = Len(store[t]) + k
<1> DEFINE b    == net[t].body
           more == store[t] \o SubSeq(b, 1, k)
<1>1. AnswersNext(t) /\ Copied(t, store[t])
  BY DEF CopyOf, DownloadCopy, DownloadOk
<1>2. Len(b) \in Nat
  BY IsResponse DEF ResponseRecord
<1>3. Len(store[t]) + Len(b) <= job[t].size
      /\ b = Bytes(t, Len(store[t]), Len(b)) /\ Len(store[t]) \in Nat
  BY <1>1 DEF AnswersNext, Copied
<1>4. Copied(t, more) /\ Len(more) = Len(store[t]) + k
  <2> DEFINE n == Len(b)
             d == store[t] \o SubSeq(Bytes(t, Len(store[t]), n), 1, k)
  <2>1. n \in Nat /\ k \in 0 .. n /\ Len(store[t]) + n <= job[t].size
    BY <1>2, <1>3
  <2>2. d = more BY <1>3
  <2> HIDE DEF n
  <2>3. Copied(t, d) /\ Len(d) = Len(store[t]) + k
    BY <1>1, <2>1, CopiedMore
  <2> QED BY <2>2, <2>3
<1>5. Len(store[t]) <= Len(more)
  <2> HIDE DEF more
  <2> QED BY <1>2, <1>3, <1>4
<1>6. store' = [store EXCEPT ![t] = more] OBVIOUS
<1> HIDE DEF more
<1>7. GrowsTo(t, more) BY <1>4, <1>5, <1>6 DEF GrowsTo
<1> QED BY <1>4, <1>7 DEF more

\* A copy that has grown is the copy of the next state.
LEMMA GrownIsCopied ==
  ASSUME Stores, NEW t \in Transfer, NEW s, GrowsTo(t, s), job' = job
  PROVE  Copied(t, store[t])' /\ store'[t] = s
<1>1. store'[t] = s BY DEF GrowsTo, Stores
<1> QED BY <1>1 DEF GrowsTo, Copied, Bytes, Source

LEMMA SizedRange ==
  ASSUME Types, Sessions, NEW t \in Transfer, CopyOf(t),
         job[t].kind = "download", client[t].pc = "wait",
         net[t].dir = "response", DownloadOk(client[t], net[t]),
         Known(client[t].sid)
  PROVE  LET n == DownloadNext(client[t], net[t])
         IN n.max < Last(n.data) \/ n.min # tasks[client[t].sid].min
<1> DEFINE c   == client[t]
           r   == net[t]
           s   == Sized(c, r)
           n   == DownloadNext(c, r)
           min == Sz(s.max + 1)
           max == Sz(min + U(ReadSize(s)) - 1)
<1>1. c \in ClientRecord /\ r \in ResponseRecord
  BY IsResponse DEF Types
<1>2. s \in ClientRecord /\ r.range \in Word \X Word \X Word
  BY <1>1, SizedType
<1>3. tasks[c.sid].min = Sz(r.range[2] + 1)
  BY DEF CopyOf, DownloadCopy, DownloadOk, AnswersNext
<1>4. r.range[2] # Sz(r.range[2] + 1)
  <2> DEFINE e == r.range[2]
  <2>1. e \in Nat /\ e < SizeT /\ SizeT \in Nat /\ 1 < SizeT
    BY <1>2, TransferAssumption DEF TransferAssumption, Word
  <2> HIDE DEF e
  <2>2. CASE e + 1 < SizeT
    <3>1. e + 1 \in 0 .. SizeT - 1 BY <2>1, <2>2
    <3>2. Sz(e + 1) = e + 1 BY <3>1, SzOfSmall
    <3> QED BY <2>1, <3>2 DEF e
  <2>3. CASE e + 1 = SizeT
    <3>1. Sz(e + 1) = 0 BY <2>1, <2>3 DEF Sz
    <3>2. e # 0 BY <2>1, <2>3
    <3> QED BY <3>1, <3>2 DEF e
  <2> QED BY <2>1, <2>2, <2>3
<1>5. min \in Int /\ max \in Int /\ Last(s.data) \in Int
  <2>1. Last(s.data) \in Word BY <1>2, LastOfFile DEF ClientRecord
  <2>2. s.max + 1 \in Int
    BY <1>2, TransferAssumption DEF TransferAssumption, ClientRecord, Word
  <2>3. min \in Word BY <2>2, SzIsWord
  <2>4. ReadSize(s) \in Int
    BY <1>2, SizeRead, TransferAssumption DEF TransferAssumption, Word
  <2>5. U(ReadSize(s)) \in Int
    BY <2>4, UIsSmall, TransferAssumption DEF TransferAssumption
  <2> HIDE DEF min, s
  <2>6. min + U(ReadSize(s)) - 1 \in Int
    BY <2>3, <2>5, TransferAssumption DEF TransferAssumption, Word
  <2>7. max \in Word BY <2>6, SzIsWord
  <2> QED BY <2>1, <2>3, <2>7, TransferAssumption DEF TransferAssumption, Word
<1>6. CASE max >= Last(s.data)
  <2>1. n = [s EXCEPT !.min = r.range[2], !.max = Last(s.data)]
    BY <1>6 DEF DownloadNext
  <2> HIDE DEF s, n
  <2>2. n.min = r.range[2] BY <1>2, <2>1 DEF ClientRecord
  <2> QED BY <1>3, <1>4, <2>2 DEF n
<1>7. CASE ~(max >= Last(s.data))
  <2>1. n = [s EXCEPT !.min = min, !.max = max]
    BY <1>7 DEF DownloadNext
  <2> HIDE DEF s, n, min, max
  <2>2. n.max = max /\ n.data = s.data BY <1>2, <2>1 DEF ClientRecord
  <2>3. max < Last(s.data) BY <1>5, <1>7
  <2> QED BY <2>2, <2>3 DEF n
<1> QED BY <1>6, <1>7

\* The copy of t grows to s, and is whole if the call has returned.
GrowsToEnd(t, s) ==
  GrowsTo(t, s) /\ (client'[t].pc = "done" => Len(s) = job[t].size)

LEMMA CopyReceiveDownload ==
  ASSUME Types, Stores, Sessions, NEW t \in Transfer, CopyOf(t),
         ReceiveDownload(t)
  PROVE  CopyOf(t)' /\ \E s : GrowsToEnd(t, s)
<1> DEFINE c == client[t]
           r == net[t]
           n == DownloadNext(c, r)
           k == Len(r.body)
<1>1. /\ c \in ClientRecord /\ r \in ResponseRecord /\ c.pc = "wait"
      /\ job[t].kind = "download" /\ r.dir = "response" /\ DownloadOk(c, r)
      /\ UNCHANGED <<job, tasks>> /\ net'[t].dir = "none"
  BY IsResponse DEF ReceiveDownload, Types, NoMsg
<1>2. /\ n \in ClientRecord /\ n.sid = c.sid /\ n.result = c.result
      /\ n.data = r.range[3]
  <2>1. n \in ClientRecord /\ Sized(c, r) \in ClientRecord
    BY <1>1, DownloadNextType, SizedType
  <2>2. n.sid = c.sid /\ n.result = c.result
    BY <1>1 DEF DownloadNext, Sized, ClientRecord
  <2>3. Sized(c, r).data = r.range[3] BY <1>1 DEF DownloadOk
  <2>4. n.data = Sized(c, r).data BY <2>1 DEF DownloadNext, ClientRecord
  <2> QED BY <2>1, <2>2, <2>3, <2>4
<1>3. AnswersNext(t) /\ ~c.result
  BY <1>1 DEF CopyOf, DownloadCopy, DownloadOk
<1>4. PICK s : GrowsTo(t, s) /\ Len(s) = Len(store[t]) + k
  <2>1. r.body \in Seq(Byte) /\ k \in 0 .. k BY <1>1 DEF ResponseRecord
  <2>2. SubSeq(r.body, 1, k) = r.body BY <2>1, SubSeqFull
  <2>3. store' = [store EXCEPT ![t] = store[t] \o r.body]
    BY DEF ReceiveDownload
  <2> QED BY <1>1, <2>1, <2>2, <2>3, BodyContinues
<1>5. Copied(t, store[t])' /\ store'[t] = s
  BY <1>1, <1>4, GrownIsCopied
<1>6. CASE r.status = 200
  <2> DEFINE whole == n.max >= Last(n.data)
  <2>1. client' = [client EXCEPT ![t] =
          [n EXCEPT !.pc = "done", !.status = 200, !.result = whole]]
    BY <1>6 DEF ReceiveDownload
  <2> HIDE DEF n, whole
  <2>2. client'[t].pc = "done" BY <1>2, <2>1 DEF Types, ClientRecord
  <2>3. DownloadCopy(t)' BY <1>1, <2>2 DEF DownloadCopy, Unserved
  <2>4. Len(s) = job[t].size BY <1>3, <1>4, <1>6 DEF AnswersNext
  <2> QED BY <1>1, <1>4, <1>5, <2>2, <2>3, <2>4 DEF CopyOf, GrowsToEnd
<1>7. CASE r.status # 200
  <2>1. client' = [client EXCEPT ![t] = [n EXCEPT !.pc = "send", !.status = 206]]
    BY <1>7 DEF ReceiveDownload, DownloadAgain
  <2>2. Known(c.sid) => n.max < Last(n.data) \/ n.min # tasks[c.sid].min
    BY <1>1, SizedRange
  <2> HIDE DEF n
  <2>3. /\ client'[t].pc = "send" /\ client'[t].status = 206
        /\ client'[t].sid = c.sid /\ client'[t].result = c.result
        /\ client'[t].data = n.data /\ client'[t].min = n.min
        /\ client'[t].max = n.max
    BY <1>2, <2>1 DEF Types, ClientRecord
  <2>4. n.data = job[t].size BY <1>2, <1>3 DEF AnswersNext
  <2>5. Known(c.sid) => /\ tasks[c.sid].pos = Len(s)
                        /\ tasks[c.sid].size = job[t].size
    BY <1>3, <1>4 DEF AnswersNext
  <2>6. DownloadCopy(t)'
    BY <1>1, <1>5, <2>2, <2>3, <2>4, <2>5 DEF DownloadCopy, Unserved, Known
  <2> QED BY <1>1, <1>3, <1>4, <1>5, <2>3, <2>6 DEF CopyOf, GrowsToEnd
<1> QED BY <1>6, <1>7

LEMMA CopyReceiveDownloadFails ==
  ASSUME Types, Stores, Sessions, NEW t \in Transfer, CopyOf(t),
         ReceiveDownloadFails(t)
  PROVE  /\ CopyOf(t)' /\ \E s : GrowsTo(t, s)
         /\ ~client'[t].result
<1> DEFINE r == net[t]
<1>1. /\ client[t].pc = "wait" /\ job[t].kind = "download"
      /\ r.dir = "response" /\ Return(t, r.status, FALSE)
      /\ UNCHANGED <<job, tasks>> /\ net'[t].dir = "none"
  BY DEF ReceiveDownloadFails, DownloadRefused, Types, NoMsg
<1>2. PICK s : GrowsTo(t, s)
  <2>1. CASE DownloadOk(client[t], r)
    <3>1. PICK k \in 0 .. Len(r.body) - 1 :
            store' = [store EXCEPT ![t] = store[t] \o SubSeq(r.body, 1, k)]
      BY <2>1 DEF ReceiveDownloadFails
    <3>2. k \in 0 .. Len(r.body)
      <4>1. r.body \in Seq(Byte) BY <1>1, IsResponse DEF ResponseRecord
      <4> QED BY <4>1
    <3> QED BY <1>1, <2>1, <3>1, <3>2, BodyContinues
  <2>2. CASE ~DownloadOk(client[t], r)
    BY <2>2, GrowsNot DEF ReceiveDownloadFails
  <2> QED BY <2>1, <2>2
<1>3. Copied(t, store[t])' BY <1>1, <1>2, GrownIsCopied
<1>4. FALSE \in BOOLEAN OBVIOUS
<1>5. CopyOf(t)' BY <1>1, <1>3, <1>4, CopyReturn
<1>6. ~client'[t].result BY <1>1, ReturnLocals
<1> QED BY <1>2, <1>5, <1>6

-----------------------------------------------------------------------------
(* Every step lets at most one copy grow, and ends at most its call.       *)

Ended(t) ==
  /\ Outcome(t) = "none"
  /\ Outcome(t)' = "true" \/ Outcome(t)' = "false"

\* What a step of t makes of its copy.
CopyStep(t) ==
  /\ CopyOf(t)'
  /\ \E s : /\ GrowsTo(t, s)
           /\ \/ Outcome(t)' = Outcome(t) /\ (Outcome(t) # "true" \/ UNCHANGED store)
              \/ Ended(t) /\ (Outcome(t)' = "true" => Len(s) = job[t].size)

\* The steps that belong to t.
StepOf(t) == ClientNext(t) \/ BeginUpload(t) \/ BeginDownload(t) \/ Serve(t)

LEMMA ClientOutcome ==
  ASSUME Types, NEW t \in Transfer, ClientNext(t)
  PROVE  /\ Outcome(t)' = Outcome(t) \/ Ended(t)
         /\ Outcome(t)' # Outcome(t) /\ Outcome(t)' = "true" =>
              client'[t].pc = "done" /\ client'[t].result
         /\ client[t].pc # "done" => Outcome(t) = "none"
<1>1. ClientStep(t) BY ClientSteps
<1>2. CASE Stays(t) BY <1>2 DEF Stays, Outcome, Ended
<1>3. CASE Ends(t) BY <1>3 DEF Ends, Outcome, Ended
<1>4. CASE Sends(t) BY <1>4 DEF Sends, Outcome, Ended
<1>5. CASE Repeats(t) BY <1>5 DEF Repeats, Outcome, Ended
<1>6. CASE Loses(t) BY <1>6 DEF Loses, Outcome, Ended
<1> QED BY <1>1, <1>2, <1>3, <1>4, <1>5, <1>6 DEF ClientStep

\* A step of the client which stores nothing.
LEMMA CopyStepStores ==
  ASSUME Types, Stores, NEW t \in Transfer, CopyOf(t), CopyOf(t)',
         ClientNext(t), UNCHANGED store,
         client'[t].pc = "done" /\ client'[t].result /\ Outcome(t) = "none" =>
           Len(store[t]) = job[t].size
  PROVE  CopyStep(t)
<1>1. GrowsTo(t, store[t]) BY GrowsNot
<1>2. \/ Outcome(t)' = Outcome(t)
      \/ Ended(t) /\ (Outcome(t)' = "true" => Len(store[t]) = job[t].size)
  BY ClientOutcome DEF Ended
<1> QED BY <1>1, <1>2 DEF CopyStep

LEMMA CopySteps ==
  ASSUME Types, Ids, Sessions, UploadsInStep, Stores,
         NEW t \in Transfer, CopyOf(t), StepOf(t), DistinctIds'
  PROVE  CopyStep(t)
<1>1. CASE Create(t) \/ Connect(t) \/ Disconnect(t)
  <2>1. CopyOf(t)' /\ UNCHANGED store BY <1>1, CopyStays
  <2>2. client'[t].pc # "done"
    BY <1>1 DEF Create, Connect, Disconnect, Types, ClientRecord
  <2> QED BY <1>1, <2>1, <2>2, CopyStepStores DEF ClientNext
<1>2. CASE BeginRefused(t) \/ SendUploadFails(t) \/ GiveUp(t)
  <2>1. CopyOf(t)' /\ UNCHANGED store BY <1>2, CopyEnds
  <2>2. ~client'[t].result
    BY <1>2, ReturnLocals DEF BeginRefused, SendUploadFails, GiveUp
  <2> QED BY <1>2, <2>1, <2>2, CopyStepStores DEF ClientNext
<1>3. CASE SendUpload(t) \/ SendDownload(t)
  <2>1. CopyOf(t)' /\ UNCHANGED store
    BY <1>3, CopySendsUpload, CopySendsDownload
  <2>2. client'[t].pc # "done"
    BY <1>3 DEF SendUpload, SendDownload, Types, ClientRecord
  <2> QED BY <1>3, <2>1, <2>2, CopyStepStores DEF ClientNext
<1>4. CASE ReceiveUpload(t)
  <2>1. CopyOf(t)' /\ UNCHANGED store
        /\ (client'[t].pc = "done" /\ client'[t].result =>
              Len(store[t]) = job[t].size)
    BY <1>4, CopyReceiveUpload
  <2> QED BY <1>4, <2>1, CopyStepStores DEF ClientNext
<1>5. CASE Lose(t)
  <2>1. CopyOf(t)' /\ UNCHANGED <<store, client>>
    BY <1>5, CopyLost DEF Lose
  <2>2. ~(client'[t].pc = "done" /\ client'[t].result /\ Outcome(t) = "none")
    BY <2>1 DEF Outcome
  <2> QED BY <1>5, <2>1, <2>2, CopyStepStores DEF ClientNext
<1>6. CASE ReceiveDownload(t)
  <2>1. PICK s : GrowsToEnd(t, s)
    BY <1>6, CopyReceiveDownload
  <2>2. ClientNext(t) /\ client[t].pc # "done"
    BY <1>6 DEF ClientNext, ReceiveDownload
  <2>3. /\ Outcome(t)' = Outcome(t) \/ Ended(t)
        /\ Outcome(t)' # Outcome(t) /\ Outcome(t)' = "true" =>
             client'[t].pc = "done"
        /\ Outcome(t) = "none"
    BY <2>2, ClientOutcome
  <2>4. \/ Outcome(t)' = Outcome(t) /\ Outcome(t) # "true"
        \/ Ended(t) /\ (Outcome(t)' = "true" => Len(s) = job[t].size)
    BY <2>1, <2>3 DEF GrowsToEnd
  <2>5. CopyOf(t)' BY <1>6, CopyReceiveDownload
  <2> QED BY <2>1, <2>4, <2>5 DEF CopyStep, GrowsToEnd
<1>7. CASE ReceiveDownloadFails(t)
  <2>1. PICK s : CopyOf(t)' /\ GrowsTo(t, s) /\ ~client'[t].result
    BY <1>7, CopyReceiveDownloadFails
  <2>2. ClientNext(t) /\ client[t].pc # "done"
    BY <1>7 DEF ClientNext, ReceiveDownloadFails
  <2>3. /\ Outcome(t)' = Outcome(t) \/ Ended(t)
        /\ Outcome(t)' # Outcome(t) /\ Outcome(t)' = "true" => client'[t].result
        /\ Outcome(t) = "none"
    BY <2>2, ClientOutcome
  <2>4. \/ Outcome(t)' = Outcome(t) /\ Outcome(t) # "true"
        \/ Ended(t) /\ (Outcome(t)' = "true" => Len(s) = job[t].size)
    BY <2>1, <2>3
  <2> QED BY <2>1, <2>4 DEF CopyStep
<1>8. CASE BeginUpload(t) \/ BeginDownload(t)
  <2>1. CopyOf(t)' /\ UNCHANGED store BY <1>8, CopyBegin
  <2>2. Outcome(t)' = Outcome(t)
    BY <1>8, BeginStep DEF Outcome
  <2> QED BY <2>1, <2>2, GrowsNot DEF CopyStep
<1>10. CASE SendUploadCrashes(t)
  BY <1>10, CopyCrash, CopyStepStores DEF ClientNext
<1>9. CASE Serve(t)
  <2>1. Outcome(t)' = Outcome(t) /\ Outcome(t) # "true"
    <3>1. UNCHANGED client /\ net[t].dir = "request" BY <1>9 DEF Serve
    <3> QED BY <3>1 DEF CopyOf, Outcome
  <2>2. CASE job[t].kind = "upload"
    <3>1. CopyOf(t)' BY <1>9, <2>2, CopyServeUpload
    <3>2. \E s : GrowsTo(t, s) BY <1>9, <2>2, UploadGrows
    <3> QED BY <2>1, <3>1, <3>2 DEF CopyStep
  <2>3. CASE job[t].kind = "download"
    <3>1. CopyOf(t)' /\ UNCHANGED store BY <1>9, <2>3, CopyServeDownload
    <3> QED BY <2>1, <3>1, GrowsNot DEF CopyStep
  <2> QED BY <2>2, <2>3, JobType
<1> QED
  BY <1>1, <1>2, <1>3, <1>4, <1>5, <1>6, <1>7, <1>8, <1>9, <1>10
     DEF StepOf, ClientNext

\* The other transfers see nothing of it.
LEMMA OthersKept ==
  ASSUME Types, Ids, Sessions, NEW t \in Transfer, StepOf(t),
         NEW u \in Transfer \ {t}
  PROVE  /\ client'[u] = client[u] /\ net'[u] = net[u] /\ job' = job
         /\ Known(client[u].sid)' <=> Known(client[u].sid)
         /\ Known(client[u].sid) => tasks'[client[u].sid] = tasks[client[u].sid]
<1>1. CASE ClientNext(t)
  <2>1. UNCHANGED <<job, tasks>> /\ client'[u] = client[u] /\ net'[u] = net[u]
    BY <1>1, ClientSteps DEF ClientStep
  <2> QED BY <2>1 DEF Known
<1>2. CASE BeginUpload(t) \/ BeginDownload(t)
  <2>1. UNCHANGED <<job, net, tasks>> /\ client'[u] = client[u]
    BY <1>2, BeginStep
  <2> QED BY <2>1 DEF Known
<1>3. CASE Serve(t)
  <2>1. /\ net[t].sid = client[t].sid /\ net[t].sid # NoSid
        /\ UNCHANGED <<job, client>> /\ net'[u] = net[u]
        /\ \A s : s # net[t].sid => (Known(s)' <=> Known(s))
        /\ \A s \in DOMAIN tasks : s # net[t].sid => tasks'[s] = tasks[s]
    BY <1>3, ServeAnswers
  <2>2. client[u].sid # net[t].sid BY <2>1 DEF Ids, DistinctIds
  <2>3. Known(client[u].sid)' <=> Known(client[u].sid)
    BY <2>1, <2>2 DEF Known
  <2> QED BY <2>1, <2>2, <2>3 DEF Known
<1> QED BY <1>1, <1>2, <1>3 DEF StepOf

LEMMA CopyNext ==
  ASSUME CopyInv, [Next]_vars, DistinctIds'
  PROVE  /\ CopyInv'
         /\ \/ UNCHANGED <<job, client, store>>
            \/ \E t \in Transfer : StepOf(t) /\ CopyStep(t) /\ UNCHANGED job
<1>1. /\ Types /\ Ids /\ Sessions /\ UploadsInStep /\ Stores
      /\ \A t \in Transfer : CopyOf(t)
  BY DEF CopyInv, SessionInv, Copies
<1>2. SessionInv' /\ UploadsInStep' BY SessionNext, InStepNext DEF CopyInv
<1>3. CASE UNCHANGED vars \/ Tick
  <2>1. UNCHANGED <<job, client, net, tasks, store>>
    BY <1>3 DEF vars, Tick
  <2>2. \A t \in Transfer : CopyOf(t)' BY <1>1, <2>1, CopyKept DEF Known
  <2>3. Stores' BY <1>1, <2>1 DEF Stores
  <2> QED BY <1>2, <2>1, <2>2, <2>3 DEF CopyInv, Copies
<1>4. ASSUME NEW t \in Transfer, StepOf(t)
      PROVE  CopyInv' /\ StepOf(t) /\ CopyStep(t) /\ UNCHANGED job
  <2>1. CopyStep(t) BY <1>1, <1>4, CopySteps
  <2>2. PICK s : GrowsTo(t, s) BY <2>1 DEF CopyStep
  <2>3. s \in Seq(Byte) BY <1>1, <2>2, CopiedType DEF GrowsTo
  <2>4. store' = [store EXCEPT ![t] = s] BY <2>2 DEF GrowsTo
  <2>5. Stores' /\ \A u \in Transfer \ {t} : store'[u] = store[u]
    BY <1>1, <2>3, <2>4 DEF Stores
  <2>6. \A u \in Transfer \ {t} : CopyOf(u)'
    BY <1>1, <1>4, <2>5, OthersKept, CopyKept
  <2>7. CopyOf(t)' BY <2>1 DEF CopyStep
  <2>8. UNCHANGED job
    BY <1>1, <1>4, ClientSteps, BeginStep, ServeAnswers DEF StepOf, ClientStep
  <2> QED BY <1>2, <1>4, <2>1, <2>5, <2>6, <2>7, <2>8 DEF CopyInv, Copies
<1> QED BY <1>3, <1>4 DEF Next, Start, Loop, StepOf, ClientNext

\* What holds until two calls share an id.
CopiesHold == DistinctIds => CopyInv

LEMMA CopyInvariance == Spec => [](SessionsHold /\ CopiesHold)
<1>1. Init => CopiesHold
  BY TypesInit, IdsInit, SessionsInit, InStepInit, CopyInit
     DEF CopiesHold, CopyInv, SessionInv, Init, AssertsHold
<1>2. SessionsHold /\ CopiesHold /\ [Next]_vars => CopiesHold'
  BY IdsNext, CopyNext DEF SessionsHold, CopiesHold
<1> QED BY <1>1, <1>2, SessionInvariance, PTL DEF Spec

-----------------------------------------------------------------------------
(* The refinement.                                                         *)

LEMMA PrefixOf ==
  ASSUME Types, NEW t \in Transfer, NEW s, Copied(t, s)
  PROVE  s = SubSeq(Source(t), 1, Len(s))
<1>1. 0 + 1 = 1 /\ 0 + Len(s) = Len(s) BY DEF Copied
<1> QED BY <1>1 DEF Copied, Bytes

LEMMA GrowsIsGrow ==
  ASSUME Types, NEW t \in Transfer, NEW s, GrowsTo(t, s),
         Len(store[t]) \in Nat
  PROVE  Copy!Grow(t)
<1>1. s = SubSeq(Source(t), 1, Len(s)) /\ Len(s) \in Nat
      /\ Len(s) <= job[t].size /\ Len(store[t]) <= Len(s)
  BY PrefixOf DEF GrowsTo, Copied
<1>2. Len(Source(t)) = job[t].size BY SourceOf
<1>3. Len(s) \in Len(store[t]) .. Len(Source(t)) BY <1>1, <1>2, SizeOfFile
<1>4. store' = [store EXCEPT ![t] = SubSeq(Source(t), 1, Len(s))]
  BY <1>1 DEF GrowsTo
<1> QED BY <1>3, <1>4 DEF Copy!Grow, Copy!Prefix

LEMMA GrownWhole ==
  ASSUME Types, NEW t \in Transfer, NEW s, GrowsTo(t, s), Len(s) = job[t].size
  PROVE  store' = [store EXCEPT ![t] = Source(t)]
<1>1. s = Source(t) BY BytesAll DEF GrowsTo, Copied
<1> QED BY <1>1 DEF GrowsTo

\* Only t has another outcome.
LEMMA OutcomeOf ==
  ASSUME Types, Ids, Sessions, NEW t \in Transfer, StepOf(t)
  PROVE  [u \in Transfer |-> Outcome(u)]' =
           [[u \in Transfer |-> Outcome(u)] EXCEPT ![t] = Outcome(t)']
<1>1. \A u \in Transfer \ {t} : Outcome(u)' = Outcome(u)
  BY OthersKept DEF Outcome
<1> QED BY <1>1

LEMMA SourcesStay ==
  ASSUME UNCHANGED job
  PROVE  [u \in Transfer |-> Source(u)]' = [u \in Transfer |-> Source(u)]
BY DEF Source

LEMMA StepCopies ==
  ASSUME Types, Ids, Sessions, Stores, NEW t \in Transfer, CopyOf(t),
         StepOf(t), CopyStep(t), UNCHANGED job
  PROVE  [Copy!Next]_(Copy!copyVars)
<1>1. PICK s :
        /\ GrowsTo(t, s)
        /\ \/ Outcome(t)' = Outcome(t) /\ (Outcome(t) # "true" \/ UNCHANGED store)
           \/ Ended(t) /\ (Outcome(t)' = "true" => Len(s) = job[t].size)
  BY DEF CopyStep
<1>2. [u \in Transfer |-> Outcome(u)]' =
        [[u \in Transfer |-> Outcome(u)] EXCEPT ![t] = Outcome(t)']
  BY OutcomeOf
<1>3. UNCHANGED [u \in Transfer |-> Source(u)] BY SourcesStay
<1>4. Copy!Grow(t)
  <2>1. Len(store[t]) \in Nat BY DEF CopyOf, Copied
  <2> QED BY <1>1, <2>1, GrowsIsGrow
<1>5. CASE Outcome(t)' = Outcome(t)
  <2>1. UNCHANGED [u \in Transfer |-> Outcome(u)] BY <1>2, <1>5
  <2>2. CASE Outcome(t) # "true"
    <3>1. Copy!Extend(t) BY <1>3, <1>4, <2>1, <2>2 DEF Copy!Extend
    <3> QED BY <3>1 DEF Copy!Next
  <2>3. CASE UNCHANGED store
    BY <1>3, <2>1, <2>3 DEF Copy!copyVars
  <2> QED BY <1>1, <1>5, <2>2, <2>3 DEF Ended
<1>6. CASE Ended(t) /\ Outcome(t)' = "true" /\ Len(s) = job[t].size
  <2>1. store' = [store EXCEPT ![t] = Source(t)] BY <1>1, <1>6, GrownWhole
  <2>2. Copy!Succeed(t)
    BY <1>2, <1>3, <1>6, <2>1 DEF Copy!Succeed, Ended
  <2> QED BY <2>2 DEF Copy!Next
<1>7. CASE Ended(t) /\ Outcome(t)' = "false"
  <2>1. Copy!Fail(t) BY <1>2, <1>3, <1>4, <1>7 DEF Copy!Fail, Ended
  <2> QED BY <2>1 DEF Copy!Next
<1> QED BY <1>1, <1>5, <1>6, <1>7 DEF Ended

(* Upload and Download implement the copy of a file, for any transfers,    *)
(* sizes and chunks and until two calls share an id: what is stored is at  *)
(* any time a prefix of the file, and a call that returns true             *)
(* (bofwebclient.cpp 302 and 457) has stored all of it.  A request that is *)
(* served after its call has given up continues the prefix or is refused:  *)
(* no byte is skipped or stored twice.                                     *)
THEOREM TransfersCopy == Spec => ImplementsCopy
<1>1. Init => Copy!Init
  BY DEF Init, Copy!Init, Outcome, NewClient
<1>2. SessionsHold /\ CopiesHold /\ [Next]_vars =>
        [DistinctIds' => Copy!Next]_(Copy!copyVars)
  <2> SUFFICES ASSUME SessionsHold, CopiesHold, [Next]_vars, DistinctIds'
               PROVE  [Copy!Next]_(Copy!copyVars)
    OBVIOUS
  <2>4. CopyInv BY IdsNext DEF SessionsHold, CopiesHold
  <2>1. Types /\ Ids /\ Sessions /\ Stores /\ \A t \in Transfer : CopyOf(t)
    BY <2>4 DEF CopyInv, SessionInv, Copies
  <2>2. CASE UNCHANGED <<job, client, store>>
    <3>1. UNCHANGED [t \in Transfer |-> Source(t)] BY <2>2, SourcesStay
    <3>2. UNCHANGED [t \in Transfer |-> Outcome(t)] BY <2>2 DEF Outcome
    <3> QED BY <2>2, <3>1, <3>2 DEF Copy!copyVars
  <2>3. CASE \E t \in Transfer : StepOf(t) /\ CopyStep(t) /\ UNCHANGED job
    BY <2>1, <2>3, StepCopies
  <2> QED BY <2>2, <2>3, <2>4, CopyNext
<1> QED BY <1>1, <1>2, CopyInvariance, PTL DEF Spec, ImplementsCopy

-----------------------------------------------------------------------------
(* The types of the numbers.                                               *)

\* The transfers that have drawn an id.
Drawn == {t \in Transfer : client[t].sid # NoSid}

\* A generator that was seeded has drawn no more ids than there are transfers.
Bounded ==
  /\ clock <= MaxSecond /\ aborted \in BOOLEAN
  /\ rand[2] <= Cardinality(Drawn)
  /\ \A t \in Transfer :
       /\ client[t].sid \in SessionId
       /\ net[t].dir = "request" => net[t].sid \in SessionId
  /\ DOMAIN tasks \subseteq SessionId

\* A task stands at the first byte of its range, in an upload, or within the
\* file.
Stand(task) == IF task.buffer THEN task.pos \in Word ELSE task.pos = task.min

TasksStand == \A s \in DOMAIN tasks : Stand(tasks[s])

LEMMA DrawnIsFinite ==
  ASSUME IsFiniteSet(Transfer)
  PROVE  /\ IsFiniteSet(Drawn) /\ Cardinality(Drawn) \in Nat
         /\ Cardinality(Transfer) \in Nat
         /\ Cardinality(Drawn) <= Cardinality(Transfer)
<1>1. Drawn \subseteq Transfer BY DEF Drawn
<1> QED BY <1>1, FS_Subset, FS_CardinalityType

LEMMA BoundedInit ==
  ASSUME IsFiniteSet(Transfer) PROVE Init => Bounded /\ TasksStand
<1> SUFFICES ASSUME Init PROVE Bounded /\ TasksStand OBVIOUS
<1>1. Drawn = {} BY DEF Init, Drawn, NewClient
<1>2. Cardinality(Drawn) = 0 BY <1>1, FS_EmptySet
<1>3. NoSid \in SessionId
  BY FS_CardinalityType, TransferAssumption DEF TransferAssumption, SessionId, NoSid
<1>4. 1 <= MaxSecond BY TransferAssumption DEF TransferAssumption
<1>5. rand[2] = 0 /\ clock = 1 /\ aborted = FALSE /\ DOMAIN tasks = {}
      /\ \A t \in Transfer : client[t].sid = NoSid /\ net[t].dir = "none"
  BY DEF Init, NewClient, NoMsg
<1>6. rand[2] <= Cardinality(Drawn) BY <1>2, <1>5
<1>7. clock <= MaxSecond /\ aborted \in BOOLEAN BY <1>4, <1>5
<1>8. \A t \in Transfer : client[t].sid \in SessionId BY <1>3, <1>5
<1> QED BY <1>5, <1>6, <1>7, <1>8 DEF Bounded, TasksStand

LEMMA IdDrawn ==
  ASSUME IsFiniteSet(Transfer), Types, Drawing, Bounded
  PROVE  rand \in SessionId
<1>1. rand \in Id /\ clock \in Nat /\ rand[1] <= clock /\ clock <= MaxSecond
      /\ rand[2] <= Cardinality(Drawn)
  BY DEF Types, Drawing, Bounded
<1>2. rand = <<rand[1], rand[2]>> /\ rand[1] \in Nat /\ rand[2] \in Nat
  BY <1>1 DEF Id
<1>3. rand[1] \in 0 .. MaxSecond /\ rand[2] \in 0 .. Cardinality(Transfer)
  BY <1>1, <1>2, DrawnIsFinite, TransferAssumption DEF TransferAssumption
<1> QED BY <1>2, <1>3 DEF SessionId

LEMMA BoundedClient ==
  ASSUME IsFiniteSet(Transfer), Types, Bounded, NEW t \in Transfer, ClientNext(t)
  PROVE  Bounded'
<1>1. /\ UNCHANGED <<tasks, aborted>>
      /\ \A u \in Transfer : client'[u].sid = client[u].sid
      /\ \A u \in Transfer \ {t} : net'[u] = net[u]
  BY ClientSteps DEF ClientStep
<1>2. Drawn' = Drawn BY <1>1 DEF Drawn
<1>3. UNCHANGED clock /\ (UNCHANGED rand \/ rand' = <<clock, 0>>)
  BY DEF ClientNext, Create, Connect, Disconnect, BeginRefused, SendUpload,
     SendUploadFails, SendUploadCrashes, SendDownload, GiveUp, ReceiveUpload,
     ReceiveDownload, ReceiveDownloadFails, Lose
<1>4. rand'[2] <= Cardinality(Drawn')
  <2>1. CASE UNCHANGED rand BY <1>2, <2>1 DEF Bounded
  <2>2. CASE rand' = <<clock, 0>>
    <3>1. rand'[2] = 0 BY <2>2
    <3> QED BY <1>2, <3>1, DrawnIsFinite
  <2> QED BY <1>3, <2>1, <2>2
<1>5. net'[t].dir = "request" => net'[t].sid \in SessionId
  <2>1. NoMsg.dir = "none" BY DEF NoMsg
  <2>2. CASE Sends(t)
    <3>1. net'[t].sid = client[t].sid BY <2>2 DEF Sends, Request
    <3> QED BY <3>1 DEF Bounded
  <2>3. CASE ~Sends(t)
    <3>1. Stays(t) \/ Ends(t) \/ Repeats(t) \/ Loses(t)
      BY <2>3, ClientSteps DEF ClientStep
    <3>2. net'[t] = net[t] \/ net'[t] = NoMsg
      BY <3>1 DEF Stays, Ends, Repeats, Loses
    <3> QED BY <2>1, <3>2 DEF Bounded
  <2> QED BY <2>2, <2>3
<1>6. SessionId' = SessionId BY DEF SessionId
<1>7. \A u \in Transfer :
        /\ client'[u].sid \in SessionId
        /\ net'[u].dir = "request" => net'[u].sid \in SessionId
  BY <1>1, <1>5 DEF Bounded
<1> QED BY <1>1, <1>3, <1>4, <1>6, <1>7 DEF Bounded

LEMMA BoundedBegin ==
  ASSUME IsFiniteSet(Transfer), Types, Drawing, Bounded, NEW t \in Transfer,
         BeginUpload(t) \/ BeginDownload(t)
  PROVE  Bounded'
<1>1. /\ UNCHANGED <<tasks, aborted, clock, net>> /\ rand' = <<rand[1], rand[2] + 1>>
      /\ client'[t].sid = rand
      /\ \A u \in Transfer \ {t} : client'[u] = client[u]
  BY BeginStep DEF BeginUpload, BeginDownload, GenerateSessionId
<1>2. client[t].sid = NoSid /\ rand # NoSid BY DrawingBegin
<1>3. Drawn' = Drawn \cup {t} /\ t \notin Drawn BY <1>1, <1>2 DEF Drawn
<1>4. Cardinality(Drawn') = Cardinality(Drawn) + 1
  BY <1>3, DrawnIsFinite, FS_AddElement
<1>5. rand'[2] <= Cardinality(Drawn')
  <2>1. rand[2] \in Nat /\ rand[2] <= Cardinality(Drawn) /\ rand'[2] = rand[2] + 1
    BY <1>1 DEF Types, Id, Bounded
  <2> QED BY <1>4, <2>1, DrawnIsFinite
<1>6. rand \in SessionId BY IdDrawn
<1>7. \A u \in Transfer : client'[u].sid \in SessionId
  BY <1>1, <1>6 DEF Bounded
<1> QED BY <1>1, <1>5, <1>7 DEF Bounded, SessionId

LEMMA BoundedServe ==
  ASSUME Types, Bounded, NEW t \in Transfer, Serve(t)
  PROVE  Bounded'
<1>1. UNCHANGED <<clock, rand, client>> /\ Served(t) /\ net[t].dir = "request"
  BY ServeServes DEF Serve
<1>2. Drawn' = Drawn BY <1>1 DEF Drawn
<1>3. net[t].sid \in SessionId BY <1>1 DEF Bounded
<1>4. aborted' \in BOOLEAN
  BY DEF Serve, PostUpload, GetDownload, Abort, Refuse, Proceed, Reply, Bounded
<1>5. /\ \A u \in Transfer \ {t} : net'[u] = net[u]
      /\ net'[t] = net[t] \/ net'[t].dir = "response"
      /\ \A s \in DOMAIN tasks' : s \in DOMAIN tasks \/ s = net[t].sid
  <2>1. CASE UNCHANGED <<net, tasks>> BY <2>1
  <2>2. ASSUME NEW status, Refuse(t, status) PROVE <1>5!:
    BY <2>2 DEF Refuse, Terminate, Reply, Response, Types
  <2>3. ASSUME NEW task, NEW n, NEW body, Proceed(t, task, n, body) PROVE <1>5!:
    BY <2>3 DEF Proceed, Terminate, Keep, Reply, Response, Types
  <2> QED BY <1>1, <2>1, <2>2, <2>3 DEF Served
<1> QED BY <1>1, <1>2, <1>3, <1>4, <1>5 DEF Bounded, SessionId

LEMMA BoundedNext ==
  ASSUME IsFiniteSet(Transfer), SessionsHold, Bounded, [Next]_vars
  PROVE  Bounded'
<1>1. Types /\ Drawing BY DEF SessionsHold
<1>2. CASE UNCHANGED vars BY <1>2 DEF vars, Bounded, Drawn, SessionId
<1>3. CASE Tick
  <2>1. UNCHANGED <<rand, client, net, tasks, aborted>> /\ clock' <= MaxSecond
    BY <1>1, <1>3, TransferAssumption DEF Tick, Types, TransferAssumption
  <2> QED BY <2>1 DEF Bounded, Drawn, SessionId
<1>4. ASSUME NEW t \in Transfer, StepOf(t) PROVE Bounded'
  BY <1>1, <1>4, BoundedClient, BoundedBegin, BoundedServe DEF StepOf
<1> QED BY <1>2, <1>3, <1>4 DEF Next, Start, Loop, StepOf, ClientNext

\* The task after a range.
LEMMA TaskBounded ==
  ASSUME Types, Ids, Sessions, UploadsInStep, TasksStand, NEW t \in Transfer,
         CopyOf(t), Serve(t), NEW task \in TaskRecord, NEW n \in Nat,
         TaskOf(t, task),
         job[t].kind = "upload" => StoredRange(t, task, n),
         job[t].kind = "download" => CanRead(task.of, task.pos, n)
  PROVE  Stand(Advanced(task, n))
<1> DEFINE c    == client[t]
           next == Advanced(task, n)
<1>1. /\ next.buffer = task.buffer /\ next.pos = task.pos + n
      /\ next.min = Sz(task.max + 1)
  BY DEF Advanced, TaskRecord
<1>2. /\ task.of = t /\ (task.buffer <=> job[t].kind = "download")
      /\ ~task.buffer => task.pos = task.min
      /\ net[t].dir = "request" /\ task.pos \in Nat
  BY TaskIsOwn DEF TaskOf, Serve, TasksStand, Stand, Known, TaskRecord
<1> HIDE DEF next
<1>3. CASE job[t].kind = "upload"
  <2>1. /\ InStep(t) /\ UploadCopy(t) /\ c \in ClientRecord
    BY <1>3 DEF UploadsInStep, CopyOf, Types
  <2>2. /\ task.min = c.min /\ task.max = c.max /\ n = ReadSize(c)
        /\ Fits(c) /\ c.data = job[t].size
    BY <1>2, <1>3, <2>1 DEF StoredRange, InStep, AsksForRange, UploadCopy
  <2>3. n = c.max - c.min + 1 /\ c.min \in Nat /\ c.max \in Nat
        /\ c.max + 1 <= c.data /\ c.data \in Nat /\ c.data < SizeT
    BY <2>1, <2>2, SizeOfRange, NumbersOf DEF Fits
  <2>4. Sz(c.max + 1) = c.max + 1
    <3>1. c.max + 1 \in 0 .. SizeT - 1
      BY <2>3, TransferAssumption DEF TransferAssumption
    <3> QED BY <3>1, SzOfSmall
  <2>5. ~task.buffer /\ task.pos = c.min BY <1>2, <1>3, <2>2
  <2> QED BY <1>1, <2>2, <2>3, <2>4, <2>5 DEF next, Stand
<1>4. CASE job[t].kind = "download"
  <2>1. task.pos + n <= job[t].size BY <1>2, <1>4 DEF CanRead
  <2>2. task.pos + n \in Word
    BY <1>2, <2>1, SizeOfFile, TransferAssumption DEF TransferAssumption, Word
  <2> QED BY <1>1, <1>2, <1>4, <2>2 DEF next, Stand
<1> QED BY <1>3, <1>4, JobType

LEMMA StandServe ==
  ASSUME Types, Ids, Sessions, UploadsInStep, TasksStand, NEW t \in Transfer,
         CopyOf(t), Serve(t)
  PROVE  TasksStand'
<1>1. Served(t) /\ ~WrongKind(t) BY ServeServes, NoAbort
<1>2. CASE Terminate(net[t].sid) BY <1>2 DEF Terminate, TasksStand, Stand
<1>3. CASE \E status \in Errors : Refuse(t, status)
  BY <1>2, <1>3 DEF Refuse
<1>4. ASSUME NEW task \in TaskRecord, NEW n \in Nat, NEW body \in Seq(Byte),
             TaskOf(t, task), Proceed(t, task, n, body),
             job[t].kind = "upload" => StoredRange(t, task, n),
             job[t].kind = "download" => CanRead(task.of, task.pos, n)
      PROVE  TasksStand'
  <2>1. Stand(Advanced(task, n)) BY <1>4, TaskBounded
  <2>2. CASE Keep(net[t].sid, Advanced(task, n))
    <3>1. \A s \in DOMAIN tasks' : Stand(tasks'[s])
      BY <2>1, <2>2 DEF Keep, TasksStand
    <3> QED BY <3>1 DEF TasksStand, Stand
  <2> QED BY <1>2, <1>4, <2>2 DEF Proceed
<1> QED BY <1>1, <1>3, <1>4 DEF Served

LEMMA StandNext ==
  ASSUME CopyInv, TasksStand, [Next]_vars
  PROVE  TasksStand'
<1>1. /\ Types /\ Ids /\ Sessions /\ UploadsInStep
      /\ \A t \in Transfer : CopyOf(t)
  BY DEF CopyInv, SessionInv, Copies
<1>2. CASE UNCHANGED tasks BY <1>2 DEF TasksStand, Stand
<1>3. CASE UNCHANGED vars \/ Tick BY <1>2, <1>3 DEF vars, Tick
<1>4. ASSUME NEW t \in Transfer, ClientNext(t) PROVE TasksStand'
  BY <1>1, <1>2, <1>4, ClientSteps DEF ClientStep
<1>5. ASSUME NEW t \in Transfer, BeginUpload(t) \/ BeginDownload(t)
      PROVE  TasksStand'
  BY <1>1, <1>2, <1>5, BeginStep
<1>6. ASSUME NEW t \in Transfer, Serve(t) PROVE TasksStand'
  BY <1>1, <1>6, StandServe
<1> QED BY <1>3, <1>4, <1>5, <1>6 DEF Next, Start, Loop, ClientNext

LEMMA BoundedTypes ==
  ASSUME IsFiniteSet(Transfer), SessionsHold, CopiesHold, Bounded,
         DistinctIds => TasksStand
  PROVE  TypeOK
<1>1. Types /\ Drawing BY DEF SessionsHold
<1>2. clock \in 1 .. MaxSecond
  BY <1>1, TransferAssumption DEF Types, Drawing, Bounded, TransferAssumption
<1>3. rand \in SessionId BY <1>1, IdDrawn
<1>4. ASSUME NEW t \in Transfer
      PROVE  client[t] \in
        [pc : {"new", "idle", "send", "wait", "done", "crashed"},
         connected : BOOLEAN, sid : SessionId, min : Word, max : Word,
         data : Word, pos : Word, status : {0, 200, 206, 401, 406, 500, 507},
         result : BOOLEAN]
  <2>1. client[t] \in ClientRecord /\ client[t].sid \in SessionId
    BY <1>1 DEF Types, Bounded
  <2> QED BY <2>1 DEF ClientRecord, Status
<1>5. client = [t \in Transfer |-> client[t]] BY <1>1 DEF Types
<1>6. \A t \in Transfer : net[t].dir \in {"none", "request", "response"}
  BY <1>1 DEF Types, Message, NoMsg, RequestRecord, ResponseRecord
<1>7. \A s \in DOMAIN tasks : tasks[s] \in TaskRecord BY <1>1 DEF Types
<1>8. ASSUME DistinctIds
      PROVE  /\ \A s \in DOMAIN tasks : tasks[s].pos \in Word
             /\ \A t \in Transfer : Len(store[t]) <= job[t].size
  <2>1. \A t \in Transfer : CopyOf(t) BY <1>8 DEF CopiesHold, CopyInv, Copies
  <2>2. \A s \in DOMAIN tasks : tasks[s].pos \in Word
    BY <1>7, <1>8 DEF TasksStand, Stand, TaskRecord
  <2> QED BY <2>1, <2>2 DEF CopyOf, Copied
<1>9. job \in [Transfer -> Job] /\ aborted \in BOOLEAN
  BY <1>1 DEF Types, Bounded
<1>10. DOMAIN tasks \subseteq SessionId BY DEF Bounded
<1> QED BY <1>2, <1>3, <1>4, <1>5, <1>6, <1>7, <1>8, <1>9, <1>10
        DEF TypeOK, TaskRecord

(* Every number that the two sides keep fits its type, for any sizes and   *)
(* chunks that leave room for one chunk below 2^64: the subtractions from  *)
(* a size or a chunk of zero wrap, but what is stored of them is a range.  *)
(* A second is never used for more ids than there are transfers, which is  *)
(* what SessionId bounds ids by if the calls are finitely many, and no     *)
(* file grows beyond the one it copies until two calls share an id.        *)
THEOREM TransferTypes ==
  ASSUME IsFiniteSet(Transfer) PROVE Spec => []TypeOK
<1> DEFINE StandsInv == DistinctIds => TasksStand
<1>1. Init => Bounded /\ StandsInv BY BoundedInit
<1>2. SessionsHold /\ Bounded /\ [Next]_vars => Bounded' BY BoundedNext
<1>3. SessionsHold /\ CopiesHold /\ StandsInv /\ [Next]_vars => StandsInv'
  BY IdsNext, StandNext DEF SessionsHold, CopiesHold
<1>4. SessionsHold /\ CopiesHold /\ Bounded /\ StandsInv => TypeOK
  BY BoundedTypes
<1> HIDE DEF StandsInv
<1> QED BY <1>1, <1>2, <1>3, <1>4, CopyInvariance, PTL DEF Spec
=============================================================================
