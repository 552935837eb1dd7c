-------------------------- MODULE WsReceiveProofs ---------------------------
(***************************************************************************)
(* The receive path for any number of peers and sizes of the buffer: its   *)
(* types, TakenNeedsRoomForOne, the refinement of MessageQueue for users   *)
(* whose handlers take all messages or none, and that a message of more    *)
(* than one part is delivered whole unless something disturbed it.         *)
(***************************************************************************)
EXTENDS WsReceive, SequenceTheorems, TLAPS

(* What the proofs need of the types: numbers, and sequences of anything.  *)
Piece == [peer : Peer, msg : Nat, part : Nat, final : BOOLEAN]

Types ==
  /\ app \in App
  /\ open \in SUBSET Peer
  /\ sent \in [Peer -> [msg : Nat, part : Nat]]
  /\ stored \in Seq(Seq(Piece))
  /\ appended \in Seq(Piece)
  /\ used \in Int

(* A taken message leaves at once: nothing but the message in append mode  *)
(* uses the buffer, and that one always finds an entry.                    *)
NothingStays ==
  app.handler = "takes" => /\ stored = <<>>
                           /\ used = Len(appended)
                           /\ ~garbage

(* A client has one connection per context, and resets the buffer with it. *)
OneConnection ==
  ~app.server => /\ ctx # "used" => open = {}
                 /\ \A p, q \in open : p = q

PartFits ==
  app.handler = "takes" /\ ~app.server =>
    /\ ctx # "used" => used = 0
    /\ \A p \in open : used <= sent[p].part

IInv == Types /\ NothingStays /\ OneConnection /\ PartFits

LEMMA InitHolds == Init => IInv
  BY DEF Init, IInv, Types, NothingStays, OneConnection, PartFits

(* A cancel, or the end of a context.                                      *)
LEMMA ConnectionStep ==
  ASSUME IInv,
         \/ CreateContext
         \/ ClientDisconnect
         \/ Cancel
         \/ \E p \in Peer : Established(p) \/ Closed(p)
  PROVE  IInv'
<1> USE DEF IInv, Types, NothingStays, OneConnection, PartFits, ResetBuffer,
            buffer, handlings
<1>1. CASE CreateContext
  BY <1>1 DEF CreateContext
<1>2. CASE ClientDisconnect
  <2>1. \A p \in Peer : [sent[p] EXCEPT !.part = 0] \in [msg : Nat, part : Nat]
    OBVIOUS
  <2>2. sent' \in [Peer -> [msg : Nat, part : Nat]]
    BY <1>2, <2>1 DEF ClientDisconnect
  <2>. QED BY <1>2, <2>2 DEF ClientDisconnect
<1>3. CASE Cancel
  BY <1>3 DEF Cancel
<1>4. CASE \E p \in Peer : Established(p)
  BY <1>4 DEF Established
<1>5. ASSUME NEW p \in Peer, Closed(p) PROVE IInv'
  <2>1. sent' \in [Peer -> [msg : Nat, part : Nat]]
    <3>1. [sent[p] EXCEPT !.part = 0] \in [msg : Nat, part : Nat]
      OBVIOUS
    <3>2. sent' = [sent EXCEPT ![p] = [sent[p] EXCEPT !.part = 0]]
      BY <1>5 DEF Closed
    <3>. QED BY <3>1, <3>2
  <2>2. ~app.server => open' = {}
    BY <1>5 DEF Closed
  <2>. QED BY <1>5, <2>1, <2>2 DEF Closed
<1>. QED BY <1>1, <1>2, <1>3, <1>4, <1>5

(* The next fragment, and what a push makes of the message: it grows by    *)
(* the fragment or not at all, and if nothing is stored it is not empty.   *)
LEMMA PushedMessage ==
  ASSUME IInv, NEW p \in Peer, NEW final \in BOOLEAN
  PROVE  LET f == NextFragment(p, final)
         IN /\ f \in Piece /\ f.msg \in Nat
            /\ f.part = sent[p].part + 1
            /\ f.final = final
            /\ Pushed(f) \in Seq(Piece)
            /\ Len(Pushed(f)) \in Len(appended) .. Len(appended) + 1
            /\ app.handler = "takes" => Pushed(f) # <<>>
<1> DEFINE f == NextFragment(p, final)
<1>1. f \in Piece /\ f.msg \in Nat /\ f.part = sent[p].part + 1 /\ f.final = final
  BY DEF NextFragment, Piece, IInv, Types
<1>2. appended \in Seq(Piece) /\ Len(appended) \in Nat
  BY DEF IInv, Types
<1>3. /\ Pushed(f) \in Seq(Piece)
      /\ Len(Pushed(f)) \in Len(appended) .. Len(appended) + 1
  <2>1. CASE HasRoom
    <3>1. /\ Append(appended, f) \in Seq(Piece)
          /\ Len(Append(appended, f)) = Len(appended) + 1
      BY <1>1, <1>2
    <3>. QED BY <1>2, <2>1, <3>1 DEF Pushed
  <2>2. CASE ~HasRoom
    BY <1>2, <2>2 DEF Pushed
  <2>. QED BY <2>1, <2>2
<1>4. ASSUME app.handler = "takes" PROVE Pushed(f) # <<>>
  <2>1. stored = <<>> /\ used = Len(appended)
    BY <1>4 DEF IInv, NothingStays
  <2>2. CASE appended = <<>>
    <3>1. HasRoom
      BY <2>1, <2>2, ReceiveAssumption DEF HasRoom, ReceiveAssumption
    <3>2. Len(Append(appended, f)) = Len(appended) + 1
      BY <1>1, <1>2
    <3>. QED BY <1>2, <3>1, <3>2 DEF Pushed
  <2>3. CASE appended # <<>>
    <3>1. Len(appended) # 0
      BY <1>2, <2>3
    <3>2. Len(Pushed(f)) # 0
      BY <1>2, <1>3, <3>1
    <3>. QED BY <3>2
  <2>. QED BY <2>2, <2>3
<1>. QED BY <1>1, <1>3, <1>4

LEMMA PartStep ==
  ASSUME IInv, NEW p \in Peer, ReceivePart(p)
  PROVE  IInv'
<1> DEFINE f == NextFragment(p, FALSE)
<1>1. /\ p \in open
      /\ sent' = [sent EXCEPT ![p] = [msg |-> f.msg, part |-> f.part]]
      /\ appended' = Pushed(f)
      /\ used' = used + Len(Pushed(f)) - Len(appended)
      /\ UNCHANGED <<app, ctx, open, stored, handed, took, garbage>>
  BY PushedMessage DEF ReceivePart, Arrive, handlings
<1>2. /\ f.msg \in Nat /\ f.part = sent[p].part + 1
      /\ Pushed(f) \in Seq(Piece)
      /\ Len(Pushed(f)) \in Len(appended) .. Len(appended) + 1
  BY PushedMessage
<1>3. appended \in Seq(Piece) /\ Len(appended) \in Nat /\ used \in Int
      /\ sent[p].part \in Nat
  BY DEF IInv, Types
<1> HIDE DEF f
<1>4. Types'
  <2>1. sent' \in [Peer -> [msg : Nat, part : Nat]]
    BY <1>1, <1>2, <1>3 DEF IInv, Types
  <2>2. used' \in Int
    BY <1>1, <1>2, <1>3
  <2>. QED BY <1>1, <1>2, <2>1, <2>2 DEF IInv, Types
<1>5. NothingStays'
  BY <1>1, <1>2, <1>3 DEF IInv, NothingStays
<1>6. OneConnection'
  BY <1>1 DEF IInv, OneConnection
<1>7. PartFits'
  <2> SUFFICES ASSUME app.handler = "takes", ~app.server
               PROVE  /\ ctx = "used"
                      /\ \A q \in open : used' <= sent'[q].part
    BY <1>1 DEF PartFits
  <2>1. ctx = "used" /\ \A q \in open : q = p
    BY <1>1 DEF IInv, OneConnection
  <2>2. used <= sent[p].part
    BY <1>1 DEF IInv, PartFits
  <2>3. sent'[p].part = sent[p].part + 1
    BY <1>1, <1>2 DEF IInv, Types
  <2>4. used' <= used + 1
    BY <1>1, <1>2, <1>3
  <2>5. sent'[p].part \in Nat /\ used' \in Int
    BY <1>3, <1>4, <2>3 DEF Types
  <2>6. used' <= sent'[p].part
    BY <1>3, <2>2, <2>3, <2>4, <2>5
  <2>. QED BY <2>1, <2>6
<1>. QED BY <1>4, <1>5, <1>6, <1>7 DEF IInv

(* The release of a message that was taken leaves what was there before.   *)
LEMMA AppendTail ==
  ASSUME NEW message
  PROVE  /\ Tail(Append(<<>>, message)) = <<>>
         /\ Head(Append(<<>>, message)) = message
  OBVIOUS

LEMMA CommittedType ==
  ASSUME NEW S, NEW messages \in Seq(Seq(S)), NEW message \in Seq(S)
  PROVE  /\ Append(messages, message) \in Seq(Seq(S))
         /\ Tail(Append(messages, message)) \in Seq(Seq(S))
         /\ Len(Head(Append(messages, message))) \in Nat
<1> DEFINE T == Seq(S)
           c == Append(messages, message)
<1>1. c \in Seq(T) /\ c # <<>>
  <2> HIDE DEF T
  <2>1. messages \in Seq(T) /\ message \in T
    BY DEF T
  <2>. QED BY <2>1, AppendProperties
<1>2. Tail(c) \in Seq(T) /\ Head(c) \in T
  <2> HIDE DEF T, c
  <2>. QED BY <1>1, HeadTailProperties
<1>3. Len(Head(c)) \in Nat
  BY <1>2
<1>. QED BY <1>1, <1>2, <1>3

LEMMA FinalStep ==
  ASSUME IInv, NEW p \in Peer, NEW answer \in Answers, ReceiveFinal(p, answer)
  PROVE  IInv'
<1> DEFINE f == NextFragment(p, TRUE)
           message == Pushed(f)
<1>1. /\ p \in open
      /\ sent' = [sent EXCEPT ![p] = [msg |-> f.msg, part |-> 0]]
      /\ Commit(message, answer)
      /\ appended' = <<>>
      /\ UNCHANGED <<app, ctx, open, garbage>>
  BY PushedMessage DEF ReceiveFinal, Arrive
<1>2. /\ f.msg \in Nat
      /\ message \in Seq(Piece)
  BY PushedMessage
<1>3. /\ appended \in Seq(Piece) /\ used \in Int /\ stored \in Seq(Seq(Piece))
      /\ Len(appended) \in Nat /\ Len(message) \in Nat
  <2> HIDE DEF f, message
  <2>. QED BY <1>2 DEF IInv, Types
<1> HIDE DEF f, message
<1>4. Types'
  <2>1. sent' \in [Peer -> [msg : Nat, part : Nat]]
    BY <1>1, <1>2 DEF IInv, Types
  <2> DEFINE committed == Append(stored, message)
  <2>2. /\ committed \in Seq(Seq(Piece))
        /\ Tail(committed) \in Seq(Seq(Piece))
        /\ Len(Head(committed)) \in Nat
    BY <1>2, <1>3, CommittedType
  <2>3. answer = TRUE \/ answer = FALSE
    BY ReceiveAssumption DEF ReceiveAssumption, Answers, Handling, IInv, Types
  <2>4. \/ /\ stored' = Tail(committed)
           /\ used' = (used + Len(message) - Len(appended)) - Len(Head(committed))
        \/ stored' = committed /\ used' = used + Len(message) - Len(appended)
    BY <1>1, <2>3 DEF Commit
  <2> HIDE DEF committed
  <2>5. stored' \in Seq(Seq(Piece))
    BY <2>2, <2>4, Zenon
  <2>6. used' \in Int
    <3>1. Len(Head(committed)) \in Nat
      BY <2>2
    <3>2. used + Len(message) - Len(appended) \in Int
      BY <1>3
    <3>3. (used + Len(message) - Len(appended)) - Len(Head(committed)) \in Int
      BY <3>1, <3>2
    <3>. QED BY <2>4, <3>2, <3>3, Zenon
  <2>. QED BY <1>1, <2>1, <2>5, <2>6 DEF IInv, Types
<1>5. app.handler = "takes" => stored' = <<>> /\ used' = 0 /\ ~garbage'
  <2> SUFFICES ASSUME app.handler = "takes"
               PROVE  stored' = <<>> /\ used' = 0 /\ ~garbage'
    OBVIOUS
  <2>1. answer = TRUE
    BY DEF Answers
  <2>2. stored = <<>> /\ used = Len(appended) /\ ~garbage
    BY DEF IInv, NothingStays
  <2>. QED BY <1>1, <1>3, <2>1, <2>2, AppendTail DEF Commit
<1>6. NothingStays'
  BY <1>1, <1>5 DEF NothingStays
<1>7. OneConnection'
  BY <1>1 DEF IInv, OneConnection
<1>8. PartFits'
  <2>1. \A q \in open : 0 <= sent'[q].part
    BY <1>1, <1>4 DEF Types
  <2>. QED BY <1>1, <1>5, <2>1 DEF PartFits
<1>. QED BY <1>4, <1>6, <1>7, <1>8 DEF IInv

(* No fragment found room, so the handlers are not of the kind that takes. *)
LEMMA NothingStep ==
  ASSUME IInv, NEW p \in Peer, NEW answer \in Answers, ReceiveNothing(p, answer)
  PROVE  IInv'
<1> DEFINE f == NextFragment(p, TRUE)
<1>1. /\ app.handler # "takes"
      /\ sent' = [sent EXCEPT ![p] = [msg |-> f.msg, part |-> 0]]
      /\ UNCHANGED <<app, ctx, open, appended>>
      /\ \/ UNCHANGED <<stored, used>>
         \/ /\ stored # <<>>
            /\ stored' = Tail(stored)
            /\ used' = used - Len(Head(stored))
  BY PushedMessage DEF ReceiveNothing, Arrive
<1>2. f.msg \in Nat
  BY PushedMessage
<1> HIDE DEF f
<1>3. stored # <<>> =>
        Tail(stored) \in Seq(Seq(Piece)) /\ Len(Head(stored)) \in Nat
  <2> SUFFICES ASSUME stored # <<>>
               PROVE  Tail(stored) \in Seq(Seq(Piece)) /\ Len(Head(stored)) \in Nat
    OBVIOUS
  <2>1. Tail(stored) \in Seq(Seq(Piece)) /\ Head(stored) \in Seq(Piece)
    BY DEF IInv, Types
  <2>. QED BY <2>1
<1>4. sent' \in [Peer -> [msg : Nat, part : Nat]]
  BY <1>1, <1>2 DEF IInv, Types
<1>5. Types'
  <2>1. stored \in Seq(Seq(Piece)) /\ used \in Int
    BY DEF IInv, Types
  <2>2. stored' \in Seq(Seq(Piece))
    BY <1>1, <1>3, <2>1, Zenon
  <2>3. used' \in Int
    BY <1>1, <1>3, <2>1
  <2>. QED BY <1>1, <1>4, <2>2, <2>3 DEF IInv, Types
<1>6. OneConnection'
  BY <1>1 DEF IInv, OneConnection
<1>. QED BY <1>1, <1>5, <1>6 DEF IInv, NothingStays, PartFits

LEMMA ReadStep == IInv /\ Read => IInv'
<1> SUFFICES ASSUME IInv, Read PROVE IInv'
  OBVIOUS
<1>1. Tail(stored) \in Seq(Seq(Piece)) /\ Head(stored) \in Seq(Piece)
  BY DEF Read, IInv, Types
<1>2. Len(Head(stored)) \in Nat
  BY <1>1
<1>. QED
  BY <1>1, <1>2
  DEF Read, handlings, IInv, Types, NothingStays, OneConnection, PartFits

LEMMA NextStep == IInv /\ [Next]_vars => IInv'
<1> SUFFICES ASSUME IInv, [Next]_vars PROVE IInv'
  OBVIOUS
<1>1. CASE UNCHANGED vars
  BY <1>1 DEF vars, buffer, handlings, IInv, Types, NothingStays, OneConnection,
              PartFits
<1>2. CASE Next
  BY <1>2, ConnectionStep, PartStep, FinalStep, NothingStep, ReadStep DEF Next
<1>. QED BY <1>1, <1>2

LEMMA Invariance == Spec => []IInv
  BY InitHolds, NextStep, PTL DEF Spec

(* Handlers that take every message need room for one: after any sequence  *)
(* of connections, cancels and fragments no message is kept, and the rest  *)
(* of the one in reception fits the buffer of a client.                    *)
THEOREM TakenFits == Spec => []TakenNeedsRoomForOne
<1>1. IInv => TakenNeedsRoomForOne
  BY DEF IInv, NothingStays, PartFits, TakenNeedsRoomForOne
<1>. QED BY <1>1, Invariance, PTL

-----------------------------------------------------------------------------
(* The refinement.  A receive either leaves its message or leaves the      *)
(* queue alone.                                                            *)
LEMMA FinalIsQueue ==
  ASSUME IInv, app.handler \in {"takes", "leaves"},
         NEW p \in Peer, NEW answer \in Answers, ReceiveFinal(p, answer)
  PROVE  [MQ!Next]_stored
<1>1. PICK message : message \in Seq(Piece) /\ Commit(message, answer)
  BY PushedMessage DEF ReceiveFinal
<1>2. CASE app.handler = "takes"
  <2>1. answer = TRUE /\ stored = <<>>
    BY <1>2 DEF Answers, IInv, NothingStays
  <2>. QED BY <1>1, <2>1, AppendTail DEF Commit
<1>3. CASE app.handler = "leaves"
  <2>1. answer = FALSE
    BY <1>3 DEF Answers
  <2>2. stored' = Append(stored, message)
    BY <1>1, <2>1 DEF Commit
  <2>3. stored \in Seq(Seq(Piece))
    BY DEF IInv, Types
  <2>4. /\ Len(stored') = Len(stored) + 1
        /\ stored'[Len(stored) + 1] = message
    BY <1>1, <2>2, <2>3
  <2>5. stored' # <<>> /\ stored' = Append(stored, stored'[Len(stored')])
    BY <2>2, <2>3, <2>4
  <2>. QED BY <2>5 DEF MQ!Next, MQ!Leave
<1>. QED BY <1>2, <1>3

LEMMA NothingIsQueue ==
  ASSUME IInv, app.handler \in {"takes", "leaves"},
         NEW p \in Peer, NEW answer \in Answers, ReceiveNothing(p, answer)
  PROVE  [MQ!Next]_stored
<1>1. stored' = stored \/ (stored # <<>> /\ stored' = Tail(stored))
  BY DEF ReceiveNothing
<1>. QED BY <1>1 DEF MQ!Next, MQ!Read

LEMMA QueueStep ==
  ASSUME IInv, app.handler \in {"takes", "leaves"}, [Next]_vars
  PROVE  [MQ!Next]_stored
<1>1. CASE UNCHANGED vars
  BY <1>1 DEF vars, buffer
<1>2. CASE CreateContext \/ \E p \in Peer : Established(p) \/ Closed(p) \/ ReceivePart(p)
  BY <1>2 DEF CreateContext, Established, Closed, ReceivePart, buffer
<1>3. CASE ClientDisconnect \/ Cancel
  BY <1>3 DEF ClientDisconnect, Cancel, ResetBuffer, MQ!Next, MQ!Reset
<1>4. CASE Read
  BY <1>4 DEF Read, MQ!Next, MQ!Read
<1>. QED BY <1>1, <1>2, <1>3, <1>4, FinalIsQueue, NothingIsQueue DEF Next

(* For a user whose handlers take all messages or none the receive buffer  *)
(* implements the queue, with any number of peers, messages and entries.   *)
THEOREM ReceiveIsQueue ==
  ASSUME \A a \in App : a.handler # "mixed"
  PROVE  Spec => ImplementsQueue
<1> DEFINE Plain == app \in App
<1>1. Init => MQ!Init /\ Plain
  BY DEF Init, MQ!Init
<1>2. Plain /\ [Next]_vars => Plain'
  BY DEF Next, vars, buffer, handlings, CreateContext, Established, Closed,
         ClientDisconnect, Cancel, Read, ReceivePart, ReceiveFinal,
         ReceiveNothing, Arrive
<1>3. Plain => app.handler \in {"takes", "leaves"}
  BY ReceiveAssumption DEF ReceiveAssumption, Handling
<1>4. IInv /\ Plain /\ [Next]_vars => [MQ!Next]_stored
  BY <1>3, QueueStep
<1> HIDE DEF Plain
<1>. QED BY <1>1, <1>2, <1>4, Invariance, PTL DEF Spec, ImplementsQueue, MQ!Spec

-----------------------------------------------------------------------------
(* The size of the buffer.  rest[i] is the size of the messages from the   *)
(* i-th on: counted from the end, it is a number also after the oldest     *)
(* message has left, without an induction over the queue.                  *)
Sizes(messages, rest) ==
  /\ rest \in [1 .. Len(messages) + 1 -> Nat]
  /\ rest[Len(messages) + 1] = 0
  /\ \A i \in 1 .. Len(messages) : rest[i] = rest[i + 1] + Len(messages[i])

LEMMA SizesEmpty == \E rest : Sizes(<<>>, rest) /\ rest[1] = 0
<1> DEFINE rest == [i \in 1 .. 1 |-> 0]
<1>1. Sizes(<<>>, rest) /\ rest[1] = 0 BY DEF Sizes
<1> QED BY <1>1

LEMMA SizesAppend ==
  ASSUME NEW S, NEW messages \in Seq(Seq(S)), NEW message \in Seq(S),
         NEW rest, Sizes(messages, rest)
  PROVE  \E more : /\ Sizes(Append(messages, message), more)
                   /\ more[1] = rest[1] + Len(message)
<1> DEFINE n == Len(messages)
           s == Append(messages, message)
           more == [i \in 1 .. n + 2 |->
                      IF i = n + 2 THEN 0 ELSE rest[i] + Len(message)]
<1>1. /\ n \in Nat /\ Len(message) \in Nat
      /\ rest \in [1 .. n + 1 -> Nat] /\ rest[n + 1] = 0
      /\ \A i \in 1 .. n : /\ rest[i] = rest[i + 1] + Len(messages[i])
                           /\ Len(messages[i]) \in Nat
  BY DEF Sizes
<1>2. /\ Len(s) = n + 1 /\ s[n + 1] = message
      /\ \A i \in 1 .. n : s[i] = messages[i]
  <2> DEFINE T == Seq(S)
  <2>1. messages \in Seq(T) /\ message \in T
    OBVIOUS
  <2> HIDE DEF T
  <2>. QED BY <2>1, AppendProperties
<1> HIDE DEF n, s
<1>3. /\ more \in [1 .. n + 2 -> Nat] /\ more[n + 2] = 0
      /\ more[1] = rest[1] + Len(message)
      /\ \A i \in 1 .. n + 1 : more[i] = rest[i] + Len(message)
  BY <1>1
<1> HIDE DEF more
<1>4. ASSUME NEW i \in 1 .. n + 1
      PROVE  more[i] = more[i + 1] + Len(s[i])
  <2>1. CASE i = n + 1
    BY <1>1, <1>2, <1>3, <2>1
  <2>2. CASE i \in 1 .. n
    <3>1. i + 1 \in 1 .. n + 1 /\ i \in 1 .. n + 1
      BY <1>1, <2>2
    <3>2. more[i] = rest[i] + Len(message) /\ more[i + 1] = rest[i + 1] + Len(message)
      BY <1>3, <3>1
    <3>3. rest[i] = rest[i + 1] + Len(s[i]) /\ Len(s[i]) \in Nat
      BY <1>1, <1>2, <2>2
    <3>4. rest[i + 1] \in Nat
      BY <1>1, <3>1
    <3>. QED BY <1>1, <3>2, <3>3, <3>4
  <2>. QED BY <1>1, <2>1, <2>2
<1>5. Len(s) + 1 = n + 2
  BY <1>1, <1>2
<1>6. Sizes(s, more)
  BY <1>2, <1>3, <1>4, <1>5 DEF Sizes
<1>. QED BY <1>3, <1>6 DEF s

LEMMA SizesTail ==
  ASSUME NEW S, NEW messages \in Seq(Seq(S)), messages # <<>>,
         NEW rest, Sizes(messages, rest)
  PROVE  \E less : /\ Sizes(Tail(messages), less)
                   /\ less[1] = rest[1] - Len(Head(messages))
<1> DEFINE n == Len(messages)
           s == Tail(messages)
           less == [i \in 1 .. n |-> rest[i + 1]]
<1>1. /\ n \in Nat /\ n > 0
      /\ rest \in [1 .. n + 1 -> Nat] /\ rest[n + 1] = 0
      /\ \A i \in 1 .. n : /\ rest[i] = rest[i + 1] + Len(messages[i])
                           /\ Len(messages[i]) \in Nat
  BY DEF Sizes
<1>2. /\ Len(s) = n - 1
      /\ Head(messages) = messages[1]
      /\ \A i \in 1 .. n - 1 : s[i] = messages[i + 1]
  <2> DEFINE T == Seq(S)
  <2>1. messages \in Seq(T)
    OBVIOUS
  <2> HIDE DEF T
  <2>. QED BY <2>1, HeadTailProperties
<1> HIDE DEF n, s
<1>3. /\ less \in [1 .. n -> Nat] /\ less[n] = 0
      /\ \A i \in 1 .. n : less[i] = rest[i + 1]
  BY <1>1
<1> HIDE DEF less
<1>4. less[1] = rest[1] - Len(Head(messages))
  <2>1. rest[1] = rest[2] + Len(messages[1]) /\ Len(messages[1]) \in Nat
    BY <1>1
  <2>2. less[1] = rest[2] /\ rest[2] \in Nat
    BY <1>1, <1>3
  <2>. QED BY <1>2, <2>1, <2>2
<1>5. ASSUME NEW i \in 1 .. n - 1
      PROVE  less[i] = less[i + 1] + Len(s[i])
  <2>1. i + 1 \in 1 .. n /\ i \in 1 .. n
    BY <1>1
  <2>2. less[i] = rest[i + 1] /\ less[i + 1] = rest[(i + 1) + 1]
    BY <1>3, <2>1
  <2>3. rest[i + 1] = rest[(i + 1) + 1] + Len(messages[i + 1])
    BY <1>1, <2>1
  <2>. QED BY <1>2, <2>2, <2>3
<1>6. Len(s) + 1 = n
  BY <1>1, <1>2
<1>7. Sizes(s, less)
  BY <1>2, <1>3, <1>5, <1>6 DEF Sizes
<1>. QED BY <1>4, <1>7 DEF s

Accounted ==
  \E rest : Sizes(stored, rest) /\ used = rest[1] + Len(appended)

(* Fragments are sent of messages that have begun.                         *)
Started == \A p \in Peer : sent[p].part > 0 => sent[p].msg > 0

TInv == TypeOK /\ Started /\ Accounted

LEMMA AccountedNothing ==
  ASSUME stored = <<>>, appended = <<>>, used = 0 PROVE Accounted
<1>1. Len(appended) = 0
  OBVIOUS
<1>2. PICK rest : Sizes(stored, rest) /\ rest[1] = 0
  BY SizesEmpty
<1>. QED BY <1>1, <1>2 DEF Accounted

LEMMA TInvInit == Init => TInv
<1> SUFFICES ASSUME Init PROVE TInv
  OBVIOUS
<1>1. Accounted
  BY AccountedNothing DEF Init
<1>2. [msg |-> 0, part |-> 0] \in [msg : 0 .. MaxMessage, part : 0 .. MaxFragment - 1]
  BY ReceiveAssumption DEF ReceiveAssumption
<1>3. 0 \in 0 .. BufferSize
  BY ReceiveAssumption DEF ReceiveAssumption
<1>4. sent \in [Peer -> [msg : 0 .. MaxMessage, part : 0 .. MaxFragment - 1]]
  BY <1>2 DEF Init
<1>5. Started
  BY DEF Init, Started
<1>6. /\ <<>> \in Seq(Fragment) /\ <<>> \in Seq(Seq(Fragment))
      /\ {} \in SUBSET Peer /\ {} \in SUBSET (Peer \X (1 .. MaxMessage))
      /\ ctx \in {"none", "fresh", "used"} /\ FALSE \in BOOLEAN
  BY DEF Init
<1>7. TypeOK
  BY <1>3, <1>4, <1>6, Zenon DEF Init, TypeOK
<1>. QED BY <1>1, <1>5, <1>7 DEF TInv

LEMMA BufferReset ==
  ASSUME ResetBuffer
  PROVE  /\ stored' = <<>> /\ appended' = <<>> /\ used' = 0
         /\ Accounted' /\ used' \in 0 .. BufferSize
<1>1. Accounted'
  <2>1. ASSUME NEW s, NEW a, NEW u, s = <<>>, a = <<>>, u = 0
        PROVE  \E rest : Sizes(s, rest) /\ u = rest[1] + Len(a)
    BY <2>1, SizesEmpty
  <2>. QED BY <2>1 DEF Accounted, ResetBuffer
<1>. QED BY <1>1, ReceiveAssumption DEF ResetBuffer, ReceiveAssumption

(* The next fragment of a peer that may send it, and what a push makes of  *)
(* the message in append mode.                                             *)
LEMMA NextFragmentType ==
  ASSUME TInv, NEW p \in Peer, NEW final \in BOOLEAN,
         NextFragment(p, final).msg <= MaxMessage
  PROVE  LET f == NextFragment(p, final)
         IN /\ f \in Fragment /\ Id(f) \in Peer \X (1 .. MaxMessage)
            /\ f.peer = p /\ f.final = final /\ f.part = sent[p].part + 1
            /\ f.msg = IF sent[p].part = 0 THEN sent[p].msg + 1 ELSE sent[p].msg
<1> DEFINE f == NextFragment(p, final)
<1>1. /\ f.peer = p /\ f.final = final /\ f.part = sent[p].part + 1
      /\ f.msg = IF sent[p].part = 0 THEN sent[p].msg + 1 ELSE sent[p].msg
      /\ f = [peer |-> f.peer, final |-> f.final, part |-> f.part, msg |-> f.msg]
  BY DEF NextFragment
<1>2. sent[p].msg \in 0 .. MaxMessage /\ sent[p].part \in 0 .. MaxFragment - 1
  BY DEF TInv, TypeOK
<1>3. f.msg \in 1 .. MaxMessage
  BY <1>1, <1>2, ReceiveAssumption DEF TInv, Started, ReceiveAssumption
<1>4. f.part \in 1 .. MaxFragment
  BY <1>1, <1>2, ReceiveAssumption DEF ReceiveAssumption
<1>. QED BY <1>1, <1>3, <1>4 DEF Fragment, Id

LEMMA PushedType ==
  ASSUME TypeOK, NEW f \in Fragment
  PROVE  /\ Pushed(f) \in Seq(Fragment)
         /\ used + Len(Pushed(f)) - Len(appended) \in used .. BufferSize
         /\ Len(appended) \in Nat /\ Len(Pushed(f)) \in Nat
<1>1. appended \in Seq(Fragment) /\ used \in 0 .. BufferSize
  BY DEF TypeOK
<1>2. CASE HasRoom
  <2>1. Pushed(f) \in Seq(Fragment) /\ Len(Pushed(f)) = Len(appended) + 1
    BY <1>1, <1>2 DEF Pushed
  <2>2. used < BufferSize
    BY <1>2 DEF HasRoom
  <2>. QED BY <1>1, <2>1, <2>2, ReceiveAssumption DEF ReceiveAssumption
<1>3. CASE ~HasRoom
  BY <1>1, <1>3, ReceiveAssumption DEF Pushed, ReceiveAssumption
<1>. QED BY <1>2, <1>3

LEMMA IdsType ==
  ASSUME NEW message \in Seq(Fragment)
  PROVE  Ids(message) \in SUBSET (Peer \X (1 .. MaxMessage))
<1>1. ASSUME NEW i \in DOMAIN message
      PROVE  Id(message[i]) \in Peer \X (1 .. MaxMessage)
  <2>1. message[i] \in Fragment
    OBVIOUS
  <2>. QED BY <2>1 DEF Fragment, Id
<1>. QED BY <1>1 DEF Ids

(* What the arrival of a fragment makes of sent and disturbed.             *)
LEMMA ArriveType ==
  ASSUME TInv, NEW p \in Peer, NEW final \in BOOLEAN,
         Arrive(p, NextFragment(p, final)),
         final \/ NextFragment(p, final).part < MaxFragment
  PROVE  /\ NextFragment(p, final) \in Fragment
         /\ sent' \in [Peer -> [msg : 0 .. MaxMessage, part : 0 .. MaxFragment - 1]]
         /\ Started'
         /\ disturbed' \in SUBSET (Peer \X (1 .. MaxMessage))
         /\ UNCHANGED <<app, ctx, open>>
<1> DEFINE f == NextFragment(p, final)
           now == [msg |-> f.msg, part |-> IF f.final THEN 0 ELSE f.part]
<1>1. /\ f \in Fragment /\ Id(f) \in Peer \X (1 .. MaxMessage)
      /\ f.final = final
  BY NextFragmentType DEF Arrive
<1>2. /\ sent' = [sent EXCEPT ![p] = now]
      /\ disturbed' = disturbed \cup Disturbs(f)
      /\ UNCHANGED <<app, ctx, open>>
  BY DEF Arrive
<1>3. now \in [msg : 0 .. MaxMessage, part : 0 .. MaxFragment - 1] /\ now.msg > 0
  <2> HIDE DEF f
  <2>1. f.msg \in 1 .. MaxMessage /\ f.part \in 1 .. MaxFragment
    BY <1>1 DEF Fragment
  <2>2. f.final \/ f.part < MaxFragment
    BY <1>1 DEF f
  <2>. QED BY <2>1, <2>2, ReceiveAssumption DEF ReceiveAssumption
<1> HIDE DEF f, now
<1>4. sent \in [Peer -> [msg : 0 .. MaxMessage, part : 0 .. MaxFragment - 1]]
      /\ disturbed \in SUBSET (Peer \X (1 .. MaxMessage))
      /\ Ids(appended) \in SUBSET (Peer \X (1 .. MaxMessage))
  BY IdsType DEF TInv, TypeOK
<1>5. Started'
  BY <1>2, <1>3, <1>4 DEF TInv, Started
<1>6. sent' \in [Peer -> [msg : 0 .. MaxMessage, part : 0 .. MaxFragment - 1]]
  BY <1>2, <1>3, <1>4
<1>7. disturbed' \in SUBSET (Peer \X (1 .. MaxMessage))
  BY <1>1, <1>2, <1>4 DEF Disturbs
<1>. QED BY <1>1, <1>2, <1>5, <1>6, <1>7 DEF f

LEMMA TInvConnection ==
  ASSUME TInv,
         \/ CreateContext
         \/ ClientDisconnect
         \/ Cancel
         \/ \E p \in Peer : Established(p) \/ Closed(p)
  PROVE  TInv'
<1> DEFINE Progress == [msg : 0 .. MaxMessage, part : 0 .. MaxFragment - 1]
<1>1. sent \in [Peer -> Progress]
  BY DEF TInv, TypeOK
<1>2. \A p \in Peer : /\ [sent[p] EXCEPT !.part = 0] \in Progress
                      /\ [sent[p] EXCEPT !.part = 0].part = 0
  <2> SUFFICES ASSUME NEW p \in Peer
               PROVE  /\ [sent[p] EXCEPT !.part = 0] \in Progress
                      /\ [sent[p] EXCEPT !.part = 0].part = 0
    OBVIOUS
  <2>1. sent[p] \in Progress /\ 0 \in 0 .. MaxFragment - 1
    BY <1>1, ReceiveAssumption DEF ReceiveAssumption
  <2>. QED BY <2>1
<1> HIDE DEF Progress
<1>3. CASE CreateContext
  <2>1. UNCHANGED <<app, open, sent, stored, appended, used, handed, took,
                    garbage, disturbed>>
        /\ ctx' \in {"none", "fresh", "used"}
    BY <1>3 DEF CreateContext, buffer, handlings
  <2>. QED BY <2>1 DEF TInv, TypeOK, Started, Accounted
<1>4. CASE ClientDisconnect
  <2>1. /\ ResetBuffer /\ open' = {} /\ ctx' \in {"none", "fresh", "used"}
        /\ sent' = [p \in Peer |-> [sent[p] EXCEPT !.part = 0]]
        /\ UNCHANGED <<app, handed, took, garbage, disturbed>>
    BY <1>4 DEF ClientDisconnect, handlings
  <2>2. sent' \in [Peer -> Progress]
    BY <1>2, <2>1
  <2>4. Started'
    <3>1. \A q \in Peer : sent'[q].part = 0
      BY <1>2, <2>1
    <3>. QED BY <3>1 DEF Started
  <2>3. stored' \in Seq(Seq(Fragment)) /\ appended' \in Seq(Fragment)
    BY <2>1, BufferReset
  <2>. QED BY <2>1, <2>2, <2>3, <2>4, BufferReset DEF TInv, TypeOK, Progress
<1>5. CASE Cancel
  <2>1. /\ ResetBuffer /\ UNCHANGED <<app, ctx, open, sent, handed, took, garbage>>
        /\ disturbed' = disturbed \cup {<<p, sent[p].msg>> : p \in MidMessage}
    BY <1>5 DEF Cancel, handlings
  <2>2. disturbed' \in SUBSET (Peer \X (1 .. MaxMessage))
    <3>1. ASSUME NEW p \in MidMessage
          PROVE  <<p, sent[p].msg>> \in Peer \X (1 .. MaxMessage)
      <4>1. p \in Peer /\ sent[p].msg \in 0 .. MaxMessage /\ sent[p].msg > 0
        BY <1>1 DEF MidMessage, TInv, Started, Progress
      <4>. QED BY <4>1, ReceiveAssumption DEF ReceiveAssumption
    <3>. QED BY <2>1, <3>1 DEF TInv, TypeOK
  <2>3. stored' \in Seq(Seq(Fragment)) /\ appended' \in Seq(Fragment)
    BY <2>1, BufferReset
  <2>. QED BY <2>1, <2>2, <2>3, BufferReset DEF TInv, TypeOK, Started
<1>6. ASSUME NEW p \in Peer, Established(p) PROVE TInv'
  <2>1. /\ UNCHANGED <<app, sent, stored, appended, used, handed, took, garbage,
                       disturbed>>
        /\ ctx' \in {"none", "fresh", "used"} /\ open' = open \cup {p}
    BY <1>6 DEF Established, buffer, handlings
  <2>2. open' \in SUBSET Peer
    BY <2>1 DEF TInv, TypeOK
  <2>. QED BY <2>1, <2>2 DEF TInv, TypeOK, Started, Accounted
<1>7. ASSUME NEW p \in Peer, Closed(p) PROVE TInv'
  <2>1. /\ UNCHANGED <<app, ctx, stored, appended, used, handed, took, garbage,
                       disturbed>>
        /\ open' = open \ {p}
        /\ sent' = [sent EXCEPT ![p] = [sent[p] EXCEPT !.part = 0]]
    BY <1>7 DEF Closed, buffer, handlings
  <2>2. open' \in SUBSET Peer
    BY <2>1 DEF TInv, TypeOK
  <2>3. sent' \in [Peer -> Progress]
    BY <1>1, <1>2, <2>1
  <2>4. Started'
    <3>1. \A q \in Peer : q # p => sent'[q] = sent[q]
      BY <1>1, <2>1
    <3>2. sent'[p].part = 0
      BY <1>1, <1>2, <2>1
    <3>. QED BY <3>1, <3>2 DEF Started, TInv
  <2>. QED BY <2>1, <2>2, <2>3, <2>4 DEF TInv, TypeOK, Accounted, Progress
<1>. QED BY <1>3, <1>4, <1>5, <1>6, <1>7

LEMMA TInvPart ==
  ASSUME TInv, NEW p \in Peer, ReceivePart(p)
  PROVE  TInv'
<1> DEFINE f == NextFragment(p, FALSE)
<1>1. /\ Arrive(p, f) /\ f.part < MaxFragment /\ appended' = Pushed(f)
      /\ used' = used + Len(Pushed(f)) - Len(appended)
      /\ UNCHANGED <<stored, handed, took, garbage>>
  BY DEF ReceivePart, handlings
<1>2. f \in Fragment /\ sent' \in [Peer -> [msg : 0 .. MaxMessage, part : 0 .. MaxFragment - 1]]
      /\ Started' /\ disturbed' \in SUBSET (Peer \X (1 .. MaxMessage))
      /\ UNCHANGED <<app, ctx, open>>
  BY <1>1, ArriveType
<1> HIDE DEF f
<1>3. TypeOK
  BY DEF TInv
<1>4. used' \in 0 .. BufferSize /\ appended' \in Seq(Fragment)
      /\ Len(appended) \in Nat /\ Len(appended') \in Nat /\ used \in 0 .. BufferSize
  BY <1>1, <1>2, <1>3, PushedType DEF TypeOK
<1>5. TypeOK'
  BY <1>1, <1>2, <1>3, <1>4 DEF TypeOK
<1>6. Accounted'
  <2>1. PICK rest : Sizes(stored, rest) /\ used = rest[1] + Len(appended)
    BY DEF TInv, Accounted
  <2>2. rest[1] \in Nat
    <3>1. Len(stored) \in Nat
      BY <1>3 DEF TypeOK
    <3>. QED BY <2>1, <3>1 DEF Sizes
  <2>3. used' = rest[1] + Len(appended')
    BY <1>1, <1>4, <2>1, <2>2
  <2>. QED BY <1>1, <2>1, <2>3 DEF Accounted
<1>. QED BY <1>2, <1>5, <1>6 DEF TInv

(* The oldest message leaves: its size was counted.                        *)
LEMMA Released ==
  ASSUME NEW messages \in Seq(Seq(Fragment)), messages # <<>>, NEW size \in Nat,
         NEW rest, Sizes(messages, rest), NEW more \in Nat, size = rest[1] + more
  PROVE  /\ Tail(messages) \in Seq(Seq(Fragment))
         /\ size - Len(Head(messages)) \in more .. size
         /\ \E less : /\ Sizes(Tail(messages), less)
                      /\ size - Len(Head(messages)) = less[1] + more
<1>1. Tail(messages) \in Seq(Seq(Fragment)) /\ Head(messages) \in Seq(Fragment)
  <2> DEFINE T == Seq(Fragment)
  <2>1. messages \in Seq(T)
    OBVIOUS
  <2> HIDE DEF T
  <2>2. Tail(messages) \in Seq(T) /\ Head(messages) \in T
    BY <2>1, HeadTailProperties
  <2>. QED BY <2>2 DEF T
<1>2. Len(Head(messages)) \in Nat
  BY <1>1
<1>3. PICK less : /\ Sizes(Tail(messages), less)
                  /\ less[1] = rest[1] - Len(Head(messages))
  BY SizesTail
<1>4. less[1] \in Nat /\ rest[1] \in Nat
  <2>1. Len(Tail(messages)) \in Nat /\ Len(messages) \in Nat
    BY <1>1
  <2>. QED BY <1>3, <2>1 DEF Sizes
<1>5. size - Len(Head(messages)) = less[1] + more
  BY <1>2, <1>3, <1>4
<1>. QED BY <1>1, <1>2, <1>3, <1>4, <1>5

LEMMA TInvFinal ==
  ASSUME TInv, NEW p \in Peer, NEW answer \in Answers, ReceiveFinal(p, answer)
  PROVE  TInv'
<1> DEFINE f         == NextFragment(p, TRUE)
           message   == Pushed(f)
           committed == Append(stored, message)
           pushed    == used + Len(message) - Len(appended)
<1>1. /\ Arrive(p, f) /\ Commit(message, answer) /\ appended' = <<>>
      /\ handed' = message /\ took' = answer /\ UNCHANGED garbage
  BY DEF ReceiveFinal
<1>2. f \in Fragment /\ sent' \in [Peer -> [msg : 0 .. MaxMessage, part : 0 .. MaxFragment - 1]]
      /\ Started' /\ disturbed' \in SUBSET (Peer \X (1 .. MaxMessage))
      /\ UNCHANGED <<app, ctx, open>>
  BY <1>1, ArriveType
<1>3. answer \in BOOLEAN
  BY ReceiveAssumption DEF ReceiveAssumption, Answers, Handling, TInv, TypeOK
<1>4. TypeOK
  BY DEF TInv
<1> HIDE DEF f
<1>5. message \in Seq(Fragment) /\ pushed \in used .. BufferSize
      /\ Len(appended) \in Nat /\ Len(message) \in Nat
  BY <1>2, <1>4, PushedType
<1>6. used \in 0 .. BufferSize /\ stored \in Seq(Seq(Fragment))
  BY <1>4 DEF TypeOK
<1>7. pushed \in Nat /\ pushed <= BufferSize
  BY <1>5, <1>6, ReceiveAssumption DEF ReceiveAssumption
<1>8. \/ /\ stored' = Tail(committed) /\ used' = pushed - Len(Head(committed))
      \/ stored' = committed /\ used' = pushed
  BY <1>1 DEF Commit
<1> HIDE DEF message
<1>9. committed \in Seq(Seq(Fragment)) /\ committed # <<>>
  <2> DEFINE T == Seq(Fragment)
  <2>1. stored \in Seq(T) /\ message \in T
    BY <1>5, <1>6
  <2> HIDE DEF T
  <2>2. committed \in Seq(T) /\ committed # <<>>
    BY <2>1, AppendProperties
  <2>. QED BY <2>2 DEF T
<1>10. \E rest : Sizes(committed, rest) /\ pushed = rest[1] + 0
  <2>1. PICK rest : Sizes(stored, rest) /\ used = rest[1] + Len(appended)
    BY DEF TInv, Accounted
  <2>2. PICK more : Sizes(committed, more) /\ more[1] = rest[1] + Len(message)
    BY <1>5, <1>6, <2>1, SizesAppend
  <2>3. rest[1] \in Nat
    <3>1. Len(stored) \in Nat
      BY <1>6
    <3>. QED BY <2>1, <3>1 DEF Sizes
  <2>4. pushed = more[1] + 0
    BY <1>5, <2>1, <2>2, <2>3
  <2>. QED BY <2>2, <2>4
<1> HIDE DEF committed, pushed
<1>11. /\ stored' \in Seq(Seq(Fragment)) /\ used' \in 0 .. BufferSize
       /\ \E rest : Sizes(stored', rest) /\ used' = rest[1] + 0
  <2>1. CASE stored' = committed /\ used' = pushed
    BY <1>7, <1>9, <1>10, <2>1
  <2>2. CASE stored' = Tail(committed) /\ used' = pushed - Len(Head(committed))
    <3>1. /\ Tail(committed) \in Seq(Seq(Fragment))
          /\ pushed - Len(Head(committed)) \in 0 .. pushed
          /\ \E less : /\ Sizes(Tail(committed), less)
                       /\ pushed - Len(Head(committed)) = less[1] + 0
      BY <1>7, <1>9, <1>10, Released
    <3>2. used' \in 0 .. BufferSize
      BY <1>7, <2>2, <3>1, ReceiveAssumption DEF ReceiveAssumption
    <3>. QED BY <2>2, <3>1, <3>2
  <2>. QED BY <1>8, <2>1, <2>2
<1>12. Accounted'
  <2>1. Len(appended') = 0
    BY <1>1
  <2>. QED BY <1>11, <2>1 DEF Accounted
<1>13. TypeOK'
  <2>1. appended' \in Seq(Fragment)
    BY <1>1
  <2>. QED BY <1>1, <1>2, <1>3, <1>4, <1>5, <1>11, <2>1 DEF TypeOK
<1>. QED BY <1>2, <1>12, <1>13 DEF TInv

(* READ, and the release by a message of which nothing was stored.         *)
LEMMA OldestReleased ==
  ASSUME TInv, stored # <<>>, stored' = Tail(stored),
         used' = used - Len(Head(stored)), UNCHANGED appended
  PROVE  stored' \in Seq(Seq(Fragment)) /\ used' \in 0 .. BufferSize /\ Accounted'
<1>1. /\ stored \in Seq(Seq(Fragment)) /\ used \in 0 .. BufferSize
      /\ Len(appended) \in Nat
  BY DEF TInv, TypeOK
<1>2. PICK rest : Sizes(stored, rest) /\ used = rest[1] + Len(appended)
  BY DEF TInv, Accounted
<1>3. /\ Tail(stored) \in Seq(Seq(Fragment))
      /\ used - Len(Head(stored)) \in Len(appended) .. used
      /\ \E less : /\ Sizes(Tail(stored), less)
                   /\ used - Len(Head(stored)) = less[1] + Len(appended)
  <2>1. used \in Nat
    BY <1>1
  <2>. QED BY <1>1, <1>2, <2>1, Released
<1>4. used' \in 0 .. BufferSize
  BY <1>1, <1>3, ReceiveAssumption DEF ReceiveAssumption
<1>. QED BY <1>3, <1>4 DEF Accounted

LEMMA TInvNothing ==
  ASSUME TInv, NEW p \in Peer, NEW answer \in Answers, ReceiveNothing(p, answer)
  PROVE  TInv'
<1> DEFINE f == NextFragment(p, TRUE)
<1>1. /\ Arrive(p, f) /\ garbage' = TRUE /\ UNCHANGED <<appended, handed, took>>
      /\ \/ UNCHANGED <<stored, used>>
         \/ /\ stored # <<>> /\ stored' = Tail(stored)
            /\ used' = used - Len(Head(stored))
  BY DEF ReceiveNothing
<1>2. sent' \in [Peer -> [msg : 0 .. MaxMessage, part : 0 .. MaxFragment - 1]]
      /\ Started' /\ disturbed' \in SUBSET (Peer \X (1 .. MaxMessage))
      /\ UNCHANGED <<app, ctx, open>>
  BY <1>1, ArriveType
<1> HIDE DEF f
<1>3. stored' \in Seq(Seq(Fragment)) /\ used' \in 0 .. BufferSize /\ Accounted'
  <2>1. CASE UNCHANGED <<stored, used>>
    BY <1>1, <2>1 DEF TInv, TypeOK, Accounted
  <2>. QED BY <1>1, <2>1, OldestReleased
<1>. QED BY <1>1, <1>2, <1>3 DEF TInv, TypeOK

LEMMA TInvRead == TInv /\ Read => TInv'
<1> SUFFICES ASSUME TInv, Read PROVE TInv'
  OBVIOUS
<1>1. /\ stored # <<>> /\ stored' = Tail(stored) /\ used' = used - Len(Head(stored))
      /\ UNCHANGED <<app, ctx, open, sent, appended, handed, took, garbage, disturbed>>
  BY DEF Read, handlings
<1>2. stored' \in Seq(Seq(Fragment)) /\ used' \in 0 .. BufferSize /\ Accounted'
  BY <1>1, OldestReleased
<1>. QED BY <1>1, <1>2 DEF TInv, TypeOK, Started

LEMMA TInvNext == TInv /\ [Next]_vars => TInv'
<1> SUFFICES ASSUME TInv, [Next]_vars PROVE TInv'
  OBVIOUS
<1>1. CASE UNCHANGED vars
  BY <1>1 DEF vars, buffer, handlings, TInv, TypeOK, Started, Accounted
<1>. QED
  BY <1>1, TInvConnection, TInvPart, TInvFinal, TInvNothing, TInvRead DEF Next

LEMMA TInvInvariance == Spec => []TInv
  BY TInvInit, TInvNext, PTL DEF Spec

(* The buffer never holds more than its size, and what it counts as in use *)
(* is never less than what is released: the counters neither overflow nor  *)
(* wrap below zero, whatever is cancelled, refused or released.            *)
THEOREM ReceiveTypes == Spec => []TypeOK
<1>1. TInv => TypeOK
  BY DEF TInv
<1>. QED BY <1>1, TInvInvariance, PTL

-----------------------------------------------------------------------------
(* Whole messages.  A message in reception is either disturbed already, or *)
(* exactly its fragments so far are in append mode.                        *)
BegunBy(p, msg, message) ==
  \A i \in DOMAIN message :
    message[i] = [peer |-> p, msg |-> msg, part |-> i, final |-> FALSE]

Continues ==
  \A p \in Peer :
    sent[p].part > 0 =>
      \/ <<p, sent[p].msg>> \in disturbed
      \/ Len(appended) = sent[p].part /\ BegunBy(p, sent[p].msg, appended)

(* No fragment is from the future: a new message starts with an empty      *)
(* buffer, or it finds another one there.                                  *)
Past == \A i \in DOMAIN appended : appended[i].msg <= sent[appended[i].peer].msg

Fine(message, d) == message = <<>> \/ Whole(message) \/ Ids(message) \cap d # {}

WInv == TInv /\ Continues /\ Past /\ WholeUnlessDisturbed

LEMMA WholeIsFine ==
  WholeUnlessDisturbed <=>
    /\ \A i \in DOMAIN stored : Fine(stored[i], disturbed)
    /\ Fine(handed, disturbed)
  BY DEF WholeUnlessDisturbed, Fine

LEMMA FineStays ==
  ASSUME NEW message, NEW d, NEW more, d \subseteq more, Fine(message, d)
  PROVE  Fine(message, more)
  BY DEF Fine

LEMMA EmptyDomain == DOMAIN <<>> = {}
<1>1. Len(<<>>) = 0 /\ <<>> \in Seq({})
  OBVIOUS
<1>. QED BY <1>1

LEMMA WInvInit == Init => WInv
<1> SUFFICES ASSUME Init PROVE WInv
  OBVIOUS
<1>1. stored = <<>> /\ appended = <<>> /\ handed = <<>>
      /\ \A p \in Peer : sent[p].part = 0
  BY DEF Init
<1>2. WholeUnlessDisturbed
  BY <1>1, EmptyDomain, WholeIsFine DEF Fine
<1>. QED BY <1>1, <1>2, EmptyDomain, TInvInit DEF WInv, Continues, Past

(* What has been stored is no worse than before, and only more messages    *)
(* may have been disturbed.                                                *)
LEMMA StoredStaysFine ==
  ASSUME WholeUnlessDisturbed, disturbed \subseteq disturbed',
         \A j \in DOMAIN stored' : \E i \in DOMAIN stored : stored'[j] = stored[i],
         UNCHANGED handed
  PROVE  WholeUnlessDisturbed'
<1>1. \A j \in DOMAIN stored' : Fine(stored'[j], disturbed')
  BY WholeIsFine, FineStays
<1>2. Fine(handed', disturbed')
  BY WholeIsFine, FineStays
<1>. QED BY <1>1, <1>2 DEF WholeUnlessDisturbed, Fine

LEMMA TailOfStored ==
  ASSUME NEW S, NEW s \in Seq(S), s # <<>>
  PROVE  \A j \in DOMAIN Tail(s) : j + 1 \in DOMAIN s /\ Tail(s)[j] = s[j + 1]
  BY HeadTailProperties

LEMMA WInvConnection ==
  ASSUME WInv,
         \/ CreateContext
         \/ ClientDisconnect
         \/ Cancel
         \/ \E p \in Peer : Established(p) \/ Closed(p)
  PROVE  WInv'
<1> USE DEF WInv
<1>1. TInv'
  BY TInvConnection
<1>2. CASE CreateContext \/ \E p \in Peer : Established(p)
  <2>1. UNCHANGED <<sent, stored, appended, handed, disturbed>>
    BY <1>2 DEF CreateContext, Established, buffer, handlings
  <2>. QED BY <1>1, <2>1 DEF Continues, Past, WholeUnlessDisturbed
<1>3. ASSUME NEW p \in Peer, Closed(p) PROVE WInv'
  <2>1. /\ UNCHANGED <<stored, appended, handed, disturbed>>
        /\ sent' = [sent EXCEPT ![p] = [sent[p] EXCEPT !.part = 0]]
    BY <1>3 DEF Closed, buffer, handlings
  <2>2. sent \in [Peer -> [msg : 0 .. MaxMessage, part : 0 .. MaxFragment - 1]]
    BY DEF TInv, TypeOK
  <2>3. \A q \in Peer : /\ sent'[q].msg = sent[q].msg
                        /\ sent'[q].part = IF q = p THEN 0 ELSE sent[q].part
    <3>1. \A q \in Peer : q # p => sent'[q] = sent[q]
      BY <2>1, <2>2
    <3>2. sent'[p] = [sent[p] EXCEPT !.part = 0]
      BY <2>1, <2>2
    <3>3. sent'[p].part = 0 /\ sent'[p].msg = sent[p].msg
      BY <2>2, <3>2
    <3>. QED BY <3>1, <3>3
  <2>4. \A i \in DOMAIN appended : appended[i].peer \in Peer
    <3>1. \A i \in DOMAIN appended : appended[i] \in Fragment
      BY DEF TInv, TypeOK
    <3>. QED BY <3>1 DEF Fragment
  <2>5. Past'
    BY <2>1, <2>3, <2>4 DEF Past
  <2>6. Continues'
    BY <2>1, <2>3 DEF Continues
  <2>. QED BY <1>1, <2>1, <2>5, <2>6 DEF WholeUnlessDisturbed
<1>4. CASE ClientDisconnect
  <2>1. /\ stored' = <<>> /\ appended' = <<>> /\ UNCHANGED <<handed, disturbed>>
        /\ sent' = [p \in Peer |-> [sent[p] EXCEPT !.part = 0]]
    BY <1>4 DEF ClientDisconnect, ResetBuffer, handlings
  <2>2. \A p \in Peer : sent'[p].part = 0
    <3> SUFFICES ASSUME NEW p \in Peer PROVE sent'[p].part = 0
      OBVIOUS
    <3>1. sent[p] \in [msg : 0 .. MaxMessage, part : 0 .. MaxFragment - 1]
      BY DEF TInv, TypeOK
    <3>. QED BY <2>1, <3>1
  <2>3. WholeUnlessDisturbed'
    BY <2>1, EmptyDomain, StoredStaysFine
  <2>. QED BY <1>1, <2>1, <2>2, <2>3, EmptyDomain DEF Continues, Past
<1>5. CASE Cancel
  <2>1. /\ stored' = <<>> /\ appended' = <<>> /\ UNCHANGED <<sent, handed>>
        /\ disturbed' = disturbed \cup {<<p, sent[p].msg>> : p \in MidMessage}
    BY <1>5 DEF Cancel, ResetBuffer, handlings
  <2>2. Continues'
    BY <2>1 DEF Continues, MidMessage
  <2>3. WholeUnlessDisturbed'
    BY <2>1, EmptyDomain, StoredStaysFine
  <2>. QED BY <1>1, <2>1, <2>2, <2>3, EmptyDomain DEF Past
<1>. QED BY <1>2, <1>3, <1>4, <1>5

-----------------------------------------------------------------------------
(* A fragment arrives.                                                     *)

(* A fragment that finds room and nothing of another message continues its *)
(* own message.                                                            *)
LEMMA ContinuesOwn ==
  ASSUME WInv, NEW p \in Peer, NEW final \in BOOLEAN,
         NextFragment(p, final).msg <= MaxMessage,
         Ids(appended) \subseteq {Id(NextFragment(p, final))}
  PROVE  LET f == NextFragment(p, final)
         IN \/ Id(f) \in disturbed
            \/ Len(appended) = f.part - 1 /\ BegunBy(p, f.msg, appended)
<1> DEFINE f == NextFragment(p, final)
<1>1. /\ f.peer = p /\ f.part = sent[p].part + 1
      /\ f.msg = IF sent[p].part = 0 THEN sent[p].msg + 1 ELSE sent[p].msg
  BY NextFragmentType DEF WInv
<1>2. sent[p].part \in Nat /\ sent[p].msg \in Nat /\ appended \in Seq(Fragment)
  BY ReceiveAssumption DEF WInv, TInv, TypeOK, ReceiveAssumption
<1>3. Ids(appended) \subseteq {Id(f)}
  OBVIOUS
<1> HIDE DEF f
<1>4. CASE sent[p].part = 0
  <2>1. ASSUME NEW i \in DOMAIN appended PROVE FALSE
    <3>1. Id(appended[i]) = Id(f)
      BY <1>3 DEF Ids
    <3>2. appended[i].peer = p /\ appended[i].msg = sent[p].msg + 1
      BY <1>1, <1>4, <3>1 DEF Id
    <3>3. appended[i].msg <= sent[p].msg
      BY <3>2 DEF WInv, Past
    <3>. QED BY <1>2, <3>2, <3>3
  <2>2. DOMAIN appended = {}
    BY <2>1
  <2>3. Len(appended) = 0
    BY <1>2, <2>2
  <2>. QED BY <1>1, <1>2, <1>4, <2>2, <2>3 DEF BegunBy, f
<1>5. CASE sent[p].part > 0
  BY <1>1, <1>2, <1>5 DEF WInv, Continues, Id, f
<1>. QED BY <1>2, <1>4, <1>5

(* A fragment of p disturbs the messages that others have begun.           *)
LEMMA OthersDisturbed ==
  ASSUME WInv, NEW p \in Peer, NEW f, f.peer = p, Arrive(p, f),
         NEW q \in Peer, q # p, sent[q].part > 0
  PROVE  <<q, sent[q].msg>> \in disturbed'
<1>1. disturbed' = disturbed \cup Disturbs(f)
  BY DEF Arrive
<1>2. CASE <<q, sent[q].msg>> \in disturbed
  BY <1>1, <1>2
<1>3. CASE Len(appended) = sent[q].part /\ BegunBy(q, sent[q].msg, appended)
  <2>1. 1 \in DOMAIN appended
    BY <1>3, ReceiveAssumption DEF WInv, TInv, TypeOK, ReceiveAssumption
  <2>2. appended[1].peer = q /\ appended[1].msg = sent[q].msg
    BY <1>3, <2>1 DEF BegunBy
  <2>3. <<q, sent[q].msg>> \in Ids(appended)
    BY <2>1, <2>2 DEF Ids, Id
  <2>4. <<q, sent[q].msg>> # Id(f)
    BY DEF Id
  <2>. QED BY <1>1, <2>3, <2>4 DEF Disturbs
<1>. QED BY <1>2, <1>3 DEF WInv, Continues

LEMMA WInvPart ==
  ASSUME WInv, NEW p \in Peer, ReceivePart(p)
  PROVE  WInv'
<1> DEFINE f == NextFragment(p, FALSE)
<1>1. /\ Arrive(p, f) /\ f.msg <= MaxMessage /\ appended' = Pushed(f)
      /\ UNCHANGED <<stored, handed>>
      /\ sent' = [sent EXCEPT ![p] = [msg  |-> f.msg,
                                      part |-> IF f.final THEN 0 ELSE f.part]]
      /\ disturbed' = disturbed \cup Disturbs(f)
  BY DEF ReceivePart, Arrive, handlings
<1>2. /\ f \in Fragment /\ f.peer = p /\ f.final = FALSE
      /\ f.part = sent[p].part + 1
      /\ f.msg = IF sent[p].part = 0 THEN sent[p].msg + 1 ELSE sent[p].msg
  BY <1>1, NextFragmentType DEF WInv
<1>3. \/ ~(Ids(appended) \subseteq {Id(f)})
      \/ Id(f) \in disturbed
      \/ Len(appended) = f.part - 1 /\ BegunBy(p, f.msg, appended)
  BY <1>1, ContinuesOwn
<1> HIDE DEF f
<1>4. /\ sent \in [Peer -> [msg : 0 .. MaxMessage, part : 0 .. MaxFragment - 1]]
      /\ appended \in Seq(Fragment) /\ f.part \in Nat /\ f.msg \in Nat
  BY <1>2, ReceiveAssumption
  DEF WInv, TInv, TypeOK, Fragment, ReceiveAssumption
<1>5. /\ sent'[p].msg = f.msg /\ sent'[p].part = f.part
      /\ \A q \in Peer : q # p => sent'[q] = sent[q]
  BY <1>1, <1>2, <1>4
<1>6. TInv'
  BY TInvPart DEF WInv
<1>7. WholeUnlessDisturbed'
  BY <1>1, StoredStaysFine DEF WInv
<1>8. Past'
  <2>1. ASSUME NEW i \in DOMAIN appended
        PROVE  appended[i].msg <= sent'[appended[i].peer].msg
    <3>1. appended[i] \in Fragment /\ appended[i].msg <= sent[appended[i].peer].msg
      BY <1>4 DEF WInv, Past
    <3>2. appended[i].peer \in Peer /\ appended[i].msg \in Nat
      BY <3>1, ReceiveAssumption DEF Fragment, ReceiveAssumption
    <3>3. CASE appended[i].peer = p
      <4>1. sent[p].msg \in Nat /\ sent[p].msg <= f.msg
        BY <1>2, <1>4, ReceiveAssumption DEF ReceiveAssumption
      <4>. QED BY <1>4, <1>5, <3>1, <3>2, <3>3, <4>1
    <3>. QED BY <1>5, <3>1, <3>2, <3>3
  <2>2. CASE HasRoom
    <3>1. appended' = Append(appended, f)
      BY <1>1, <2>2 DEF Pushed
    <3>2. \A i \in DOMAIN appended' : i \in DOMAIN appended \/ appended'[i] = f
      BY <1>2, <1>4, <3>1
    <3>3. \A i \in DOMAIN appended : appended'[i] = appended[i]
      BY <1>2, <1>4, <3>1
    <3>4. f.msg <= sent'[f.peer].msg
      BY <1>2, <1>4, <1>5
    <3>. QED BY <2>1, <3>2, <3>3, <3>4 DEF Past
  <2>3. CASE ~HasRoom
    BY <1>1, <2>1, <2>3 DEF Pushed, Past
  <2>. QED BY <2>2, <2>3
<1>9. Continues'
  <2>1. ASSUME NEW q \in Peer, q # p, sent[q].part > 0
        PROVE  <<q, sent[q].msg>> \in disturbed'
    BY <1>1, <1>2, <2>1, OthersDisturbed
  <2>2. \/ Id(f) \in disturbed'
        \/ Len(appended') = f.part /\ BegunBy(p, f.msg, appended')
    <3>1. CASE ~HasRoom \/ ~(Ids(appended) \subseteq {Id(f)})
      BY <1>1, <3>1 DEF Disturbs
    <3>2. CASE Id(f) \in disturbed
      BY <1>1, <3>2
    <3>3. CASE HasRoom /\ Len(appended) = f.part - 1 /\ BegunBy(p, f.msg, appended)
      <4>1. appended' = Append(appended, f)
        BY <1>1, <3>3 DEF Pushed
      <4>2. Len(appended') = f.part /\ appended'[f.part] = f
            /\ \A i \in DOMAIN appended : appended'[i] = appended[i]
        BY <1>2, <1>4, <3>3, <4>1
      <4>3. \A i \in DOMAIN appended' : i \in DOMAIN appended \/ i = f.part
        BY <1>2, <1>4, <3>3, <4>1
      <4>4. f = [peer |-> p, msg |-> f.msg, part |-> f.part, final |-> FALSE]
        BY <1>2 DEF Fragment
      <4>. QED BY <3>3, <4>2, <4>3, <4>4 DEF BegunBy
    <3>. QED BY <1>3, <3>1, <3>2, <3>3
  <2>3. Id(f) = <<p, sent'[p].msg>>
    BY <1>2, <1>5 DEF Id
  <2>. QED BY <1>5, <2>1, <2>2, <2>3 DEF Continues
<1>. QED BY <1>6, <1>7, <1>8, <1>9 DEF WInv

(* With its final fragment the message that is committed is whole, or one  *)
(* of those it is made of was disturbed.                                   *)
LEMMA FinalIsFine ==
  ASSUME WInv, NEW p \in Peer, Arrive(p, NextFragment(p, TRUE)),
         Pushed(NextFragment(p, TRUE)) # <<>>
  PROVE  Fine(Pushed(NextFragment(p, TRUE)), disturbed')
<1> DEFINE f       == NextFragment(p, TRUE)
           message == Pushed(f)
<1>1. disturbed' = disturbed \cup Disturbs(f) /\ f.msg <= MaxMessage
  BY DEF Arrive
<1>2. f \in Fragment /\ f.peer = p /\ f.final = TRUE
  BY <1>1, NextFragmentType DEF WInv
<1>3. \/ ~(Ids(appended) \subseteq {Id(f)})
      \/ Id(f) \in disturbed
      \/ Len(appended) = f.part - 1 /\ BegunBy(p, f.msg, appended)
  BY <1>1, ContinuesOwn
<1>4. appended \in Seq(Fragment)
  BY DEF WInv, TInv, TypeOK
<1> HIDE DEF f
<1>5. CASE HasRoom
  <2>1. message = Append(appended, f)
    BY <1>5 DEF Pushed
  <2>2. /\ Len(message) = Len(appended) + 1 /\ message[Len(appended) + 1] = f
        /\ \A i \in DOMAIN appended : message[i] = appended[i]
        /\ DOMAIN message = DOMAIN appended \cup {Len(appended) + 1}
        /\ Len(appended) \in Nat
    BY <1>2, <1>4, <2>1
  <2> HIDE DEF message
  <2>3. Id(f) \in Ids(message)
    BY <2>2 DEF Ids
  <2>4. CASE ~(Ids(appended) \subseteq {Id(f)})
    <3>1. Id(f) \in disturbed'
      BY <1>1, <2>4 DEF Disturbs
    <3>. QED BY <2>3, <3>1 DEF Fine, message, f
  <2>5. CASE Id(f) \in disturbed
    BY <1>1, <2>3, <2>5 DEF Fine, message, f
  <2>6. CASE Len(appended) = f.part - 1 /\ BegunBy(p, f.msg, appended)
    <3>1. f.part \in Nat
      BY <1>2, ReceiveAssumption DEF Fragment, ReceiveAssumption
    <3>2. ASSUME NEW i \in DOMAIN message
          PROVE  /\ Id(message[i]) = <<p, f.msg>> /\ message[i].part = i
                 /\ message[i].final <=> i = Len(message)
      <4>1. CASE i \in DOMAIN appended
        <5>1. message[i] = [peer |-> p, msg |-> f.msg, part |-> i, final |-> FALSE]
          BY <2>2, <2>6, <4>1 DEF BegunBy
        <5>2. i # Len(message)
          BY <1>4, <2>2, <4>1
        <5>. QED BY <5>1, <5>2 DEF Id
      <4>2. CASE i = Len(appended) + 1
        BY <1>2, <2>2, <2>6, <3>1, <4>2 DEF Id
      <4>. QED BY <2>2, <4>1, <4>2
    <3>3. 1 \in DOMAIN message
      BY <1>4, <2>2
    <3>4. Id(message[1]) = <<p, f.msg>>
      BY <3>2, <3>3
    <3>5. Whole(message)
      BY <3>2, <3>3, <3>4, EmptyDomain DEF Whole
    <3>. QED BY <3>5 DEF Fine, message, f
  <2>. QED BY <1>3, <2>4, <2>5, <2>6
<1>6. CASE ~HasRoom
  <2>1. message = appended /\ appended # <<>>
    BY <1>6 DEF Pushed, f
  <2>2. 1 \in DOMAIN appended
    BY <1>4, <2>1
  <2>3. Id(appended[1]) \in Ids(appended)
    BY <2>2 DEF Ids
  <2>4. Id(appended[1]) \in disturbed'
    BY <1>1, <1>6, <2>3 DEF Disturbs
  <2>. QED BY <2>1, <2>3, <2>4 DEF Fine, f
<1>. QED BY <1>5, <1>6 DEF f

LEMMA WInvFinal ==
  ASSUME WInv, NEW p \in Peer, NEW answer \in Answers, ReceiveFinal(p, answer)
  PROVE  WInv'
<1> DEFINE f       == NextFragment(p, TRUE)
           message == Pushed(f)
<1>1. /\ Arrive(p, f) /\ Commit(message, answer) /\ message # <<>>
      /\ appended' = <<>> /\ handed' = message
  BY DEF ReceiveFinal
<1>2. /\ disturbed \subseteq disturbed' /\ f.peer = p /\ f.final = TRUE
      /\ sent' = [sent EXCEPT ![p] = [msg |-> f.msg, part |-> 0]]
  BY <1>1, NextFragmentType DEF WInv, Arrive
<1>3. TInv' /\ Fine(message, disturbed')
  BY <1>1, FinalIsFine, TInvFinal DEF WInv
<1>4. message \in Seq(Fragment) /\ stored \in Seq(Seq(Fragment))
  BY <1>1, ArriveType, PushedType DEF WInv, TInv, TypeOK
<1>5. sent \in [Peer -> [msg : 0 .. MaxMessage, part : 0 .. MaxFragment - 1]]
  BY DEF WInv, TInv, TypeOK
<1>6. Continues'
  <2>1. ASSUME NEW q \in Peer, q # p, sent[q].part > 0
        PROVE  <<q, sent[q].msg>> \in disturbed'
    <3> HIDE DEF f
    <3>. QED BY <1>1, <1>2, <2>1, OthersDisturbed
  <2>2. /\ sent'[p].part = 0
        /\ \A q \in Peer : q # p => sent'[q] = sent[q]
    BY <1>2, <1>5
  <2>. QED BY <2>1, <2>2 DEF Continues
<1>7. Past'
  BY <1>1, EmptyDomain DEF Past
<1> HIDE DEF f, message
<1>8. WholeUnlessDisturbed'
  <2> DEFINE committed == Append(stored, message)
             T == Seq(Fragment)
  <2>1. stored \in Seq(T) /\ message \in T
    BY <1>4
  <2> HIDE DEF T
  <2>2. /\ committed \in Seq(T) /\ committed # <<>>
        /\ \A i \in DOMAIN committed :
             (i \in DOMAIN stored /\ committed[i] = stored[i]) \/ committed[i] = message
    BY <2>1, AppendProperties
  <2>3. \A i \in DOMAIN committed : Fine(committed[i], disturbed')
    <3>1. \A i \in DOMAIN stored : Fine(stored[i], disturbed')
      BY <1>2, WholeIsFine, FineStays DEF WInv
    <3> HIDE DEF committed
    <3>. QED BY <1>3, <2>2, <3>1
  <2>4. stored' = committed \/ stored' = Tail(committed)
    BY <1>1 DEF Commit
  <2> HIDE DEF committed
  <2>5. \A j \in DOMAIN Tail(committed) : Fine(Tail(committed)[j], disturbed')
    BY <2>2, <2>3, TailOfStored
  <2>6. \A j \in DOMAIN stored' : Fine(stored'[j], disturbed')
    BY <2>3, <2>4, <2>5
  <2>. QED BY <1>1, <1>3, <2>6 DEF WholeUnlessDisturbed, Fine
<1>. QED BY <1>3, <1>6, <1>7, <1>8 DEF WInv

LEMMA OldestLeaves ==
  ASSUME TypeOK, UNCHANGED stored \/ (stored # <<>> /\ stored' = Tail(stored))
  PROVE  \A j \in DOMAIN stored' : \E i \in DOMAIN stored : stored'[j] = stored[i]
<1>1. stored \in Seq(Seq(Fragment))
  BY DEF TypeOK
<1>2. ASSUME stored # <<>>
      PROVE  \A j \in DOMAIN Tail(stored) :
               \E i \in DOMAIN stored : Tail(stored)[j] = stored[i]
  BY <1>1, <1>2, TailOfStored
<1>. QED BY <1>2

LEMMA WInvNothing ==
  ASSUME WInv, NEW p \in Peer, NEW answer \in Answers, ReceiveNothing(p, answer)
  PROVE  WInv'
<1> DEFINE f == NextFragment(p, TRUE)
<1>1. /\ Arrive(p, f) /\ Pushed(f) = <<>> /\ UNCHANGED <<appended, handed>>
      /\ UNCHANGED stored \/ (stored # <<>> /\ stored' = Tail(stored))
  BY DEF ReceiveNothing
<1>2. /\ disturbed \subseteq disturbed' /\ f \in Fragment /\ f.peer = p
      /\ sent' = [sent EXCEPT ![p] = [msg |-> f.msg, part |-> 0]]
  BY <1>1, NextFragmentType DEF WInv, Arrive
<1> HIDE DEF f
<1>3. TInv' /\ WholeUnlessDisturbed'
  BY <1>1, <1>2, TInvNothing, OldestLeaves, StoredStaysFine DEF WInv, TInv
<1>4. appended = <<>>
  <2>1. appended \in Seq(Fragment)
    BY DEF WInv, TInv, TypeOK
  <2>2. Append(appended, f) # <<>>
    BY <1>2, <2>1
  <2>. QED BY <1>1, <2>2 DEF Pushed
<1>5. sent \in [Peer -> [msg : 0 .. MaxMessage, part : 0 .. MaxFragment - 1]]
  BY DEF WInv, TInv, TypeOK
<1>6. Continues'
  <2>1. ASSUME NEW q \in Peer, q # p, sent[q].part > 0
        PROVE  <<q, sent[q].msg>> \in disturbed'
    BY <1>1, <1>2, <2>1, OthersDisturbed
  <2>2. /\ sent'[p].part = 0
        /\ \A q \in Peer : q # p => sent'[q] = sent[q]
    BY <1>2, <1>5
  <2>. QED BY <2>1, <2>2 DEF Continues
<1>. QED BY <1>1, <1>3, <1>4, <1>6, EmptyDomain DEF WInv, Past

LEMMA WInvRead == WInv /\ Read => WInv'
<1> SUFFICES ASSUME WInv, Read PROVE WInv'
  OBVIOUS
<1>1. /\ stored # <<>> /\ stored' = Tail(stored)
      /\ UNCHANGED <<sent, appended, handed, disturbed>>
  BY DEF Read, handlings
<1>2. TInv' /\ WholeUnlessDisturbed'
  BY <1>1, TInvRead, OldestLeaves, StoredStaysFine DEF WInv, TInv
<1>. QED BY <1>1, <1>2 DEF WInv, Continues, Past

LEMMA WInvNext == WInv /\ [Next]_vars => WInv'
<1> SUFFICES ASSUME WInv, [Next]_vars PROVE WInv'
  OBVIOUS
<1>1. CASE UNCHANGED vars
  <2>1. UNCHANGED <<sent, stored, appended, handed, disturbed>>
    BY <1>1 DEF vars, buffer, handlings
  <2>2. TInv'
    BY TInvNext DEF WInv
  <2>. QED BY <2>1, <2>2 DEF WInv, Continues, Past, WholeUnlessDisturbed
<1>. QED
  BY <1>1, WInvConnection, WInvPart, WInvFinal, WInvNothing, WInvRead DEF Next

(* Every message that the handlers or a READ get is all fragments of one   *)
(* message of one peer in their order, or one of those it is made of met   *)
(* a full buffer, fragments of another message, or a cancel: with any      *)
(* number of peers and after any sequence of closes and reconnections.     *)
THEOREM MessagesAreWhole == Spec => []WholeUnlessDisturbed
<1>1. WInv => WholeUnlessDisturbed
  BY DEF WInv
<1>. QED BY <1>1, WInvInit, WInvNext, PTL DEF Spec
=============================================================================
