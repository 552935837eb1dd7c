----------------------------- MODULE WsReceive ------------------------------
(***************************************************************************)
(* The receive buffer of BofWebSocket: the detail behind the number rx of  *)
(* WsConnection.  Peers send messages in fragments; the receive callback   *)
(* appends each fragment to one buffer for all peers, commits the message  *)
(* with the final one, hands it to OnMessage and OnEvent, and releases the *)
(* oldest message if one of them has handled this one.  READ pops the      *)
(* oldest message; a cancel and BOF_LWS_CLIENT_DISCONNECT reset the        *)
(* buffer.  All of this runs on the processing thread.                     *)
(*                                                                         *)
(* BofRawCircularBuffer (bofstd) is external: a push without room fails    *)
(* and stores nothing.  Sizes are counted in fragments.                    *)
(***************************************************************************)
EXTENDS Integers, Sequences

CONSTANTS
  Peer,
  App,               \* what the user of the object may be: a server or a
                     \* client, and what its handlers do with messages
  BufferSize,        \* RxBufferSize_U32
  NbMaxBufferEntry,  \* NbMaxBufferEntry_U32
  MaxFragment,       \* the largest message a peer sends, it fits the buffer
  MaxMessage         \* bound: the messages that each peer sends

Handling == {"takes", "leaves", "mixed"}

ASSUME ReceiveAssumption ==
  /\ App \subseteq [server : BOOLEAN, handler : Handling]
  /\ BufferSize \in Nat /\ MaxFragment \in 1 .. BufferSize
  /\ NbMaxBufferEntry \in Nat \ {0}
  /\ MaxMessage \in Nat

VARIABLES
  app,       \* the user of the object, chosen when it is made
  ctx,       \* mpLwsContext_X: "none", "fresh", or "used" by a connection
  open,      \* the peers with an established connection
  sent,      \* how far each of them is with its messages
  stored,    \* mpuRxBufferCollection: the committed messages
  appended,  \* mpuRxBufferCollection: the message in append mode
  used,      \* how much of mpuRxBufferCollection is in use
  handed,    \* the last message given to the handlers
  took,      \* a handler has returned BOF_ERR_NO_ERROR for it
  garbage,   \* pRawBuffer_X was used without a message to point to
  disturbed  \* history: messages whose fragments met another event

buffer    == <<stored, appended, used>>
handlings == <<handed, took, garbage>>
vars      == <<app, ctx, open, sent, buffer, handlings, disturbed>>

-----------------------------------------------------------------------------
Fragment == [peer : Peer, msg : 1 .. MaxMessage, part : 1 .. MaxFragment,
             final : BOOLEAN]

Id(fragment) == <<fragment.peer, fragment.msg>>

Ids(message) == {Id(message[i]) : i \in DOMAIN message}

(* All fragments of one message, in order, and nothing else.               *)
Whole(message) ==
  /\ message # <<>>
  /\ \A i \in DOMAIN message :
       /\ Id(message[i]) = Id(message[1])
       /\ message[i].part = i
       /\ message[i].final <=> i = Len(message)

TypeOK ==
  /\ app \in App
  /\ ctx \in {"none", "fresh", "used"}
  /\ open \in SUBSET Peer
  /\ sent \in [Peer -> [msg : 0 .. MaxMessage, part : 0 .. MaxFragment - 1]]
  /\ stored \in Seq(Seq(Fragment))
  /\ appended \in Seq(Fragment)
  /\ used \in 0 .. BufferSize
  /\ handed \in Seq(Fragment)
  /\ took \in BOOLEAN /\ garbage \in BOOLEAN
  /\ disturbed \in SUBSET (Peer \X (1 .. MaxMessage))

Init ==
  /\ app \in App
  /\ ctx = "none"
  /\ open = {}
  /\ sent = [p \in Peer |-> [msg |-> 0, part |-> 0]]
  /\ stored = <<>>
  /\ appended = <<>>
  /\ used = 0
  /\ handed = <<>>
  /\ took = FALSE
  /\ garbage = FALSE
  /\ disturbed = {}

(* What a handler may answer to a message.                                 *)
Answers ==
  CASE app.handler = "takes"  -> {TRUE}
    [] app.handler = "leaves" -> {FALSE}
    [] app.handler = "mixed"  -> BOOLEAN

MidMessage == {p \in Peer : sent[p].part > 0}

-----------------------------------------------------------------------------
(* Connections.                                                            *)

(* LISTEN, and a CONNECT.                                                  *)
CreateContext ==
  /\ ctx = "none"
  /\ ctx' = "fresh"
  /\ UNCHANGED <<app, open, sent, buffer, handlings, disturbed>>

(* A client has one connection per context.                                *)
Established(p) ==
  /\ ctx = "fresh" \/ (ctx = "used" /\ app.server)
  /\ p \notin open
  /\ ctx' = "used"
  /\ open' = open \cup {p}
  /\ UNCHANGED <<app, sent, buffer, handlings, disturbed>>

(* The peer goes, maybe in the middle of a message: what has been appended *)
(* stays in append mode.                                                   *)
Closed(p) ==
  /\ p \in open
  /\ open' = open \ {p}
  /\ sent' = [sent EXCEPT ![p].part = 0]
  /\ UNCHANGED <<app, ctx, buffer, handlings, disturbed>>

ResetBuffer ==
  /\ stored' = <<>>
  /\ appended' = <<>>
  /\ used' = 0

(* BOF_LWS_CLIENT_DISCONNECT.                                              *)
ClientDisconnect ==
  /\ ctx # "none"
  /\ ctx' = "none"
  /\ open' = {}
  /\ sent' = [p \in Peer |-> [sent[p] EXCEPT !.part = 0]]
  /\ ResetBuffer
  /\ UNCHANGED <<app, handlings, disturbed>>

(* A cancel resets the buffer and leaves the connections.                  *)
Cancel ==
  /\ ResetBuffer
  /\ disturbed' = disturbed \cup {<<p, sent[p].msg>> : p \in MidMessage}
  /\ UNCHANGED <<app, ctx, open, sent, handlings>>

-----------------------------------------------------------------------------
(* The receive callback.                                                   *)

HasRoom ==
  /\ used < BufferSize
  /\ appended = <<>> => Len(stored) < NbMaxBufferEntry

(* The next fragment of p.                                                 *)
NextFragment(p, final) ==
  [peer |-> p, final |-> final, part |-> sent[p].part + 1,
   msg |-> IF sent[p].part = 0 THEN sent[p].msg + 1 ELSE sent[p].msg]

(* Mutant: the buffer overwrites what it holds.                            *)
PushedAnyway(f) == Append(appended, f)

(* PushBuffer in append mode: its failure is not looked at.                *)
Pushed(f) == IF HasRoom THEN Append(appended, f) ELSE appended

(* What happens to message f, and to the ones in append mode, when they    *)
(* meet or when f finds no room.                                           *)
Disturbs(f) ==
  IF HasRoom /\ Ids(appended) \subseteq {Id(f)} THEN {}
  ELSE Ids(appended) \cup {Id(f)}

Arrive(p, f) ==
  /\ p \in open
  /\ f.msg <= MaxMessage
  /\ sent' = [sent EXCEPT ![p] = [msg  |-> f.msg,
                                  part |-> IF f.final THEN 0 ELSE f.part]]
  /\ disturbed' = disturbed \cup Disturbs(f)
  /\ UNCHANGED <<app, ctx, open>>

(* Mutant: a message is committed with any fragment.                       *)
ReceivePartCommits(p) ==
  LET f == NextFragment(p, FALSE)
  IN /\ f.part < MaxFragment
     /\ Arrive(p, f)
     /\ appended' = <<>>
     /\ stored' = IF Pushed(f) # <<>> THEN Append(stored, Pushed(f)) ELSE stored
     /\ used' = used + Len(Pushed(f)) - Len(appended)
     /\ UNCHANGED handlings

ReceivePart(p) ==
  LET f == NextFragment(p, FALSE)
  IN /\ f.part < MaxFragment
     /\ Arrive(p, f)
     /\ appended' = Pushed(f)
     /\ used' = used + Len(Pushed(f)) - Len(appended)
     /\ UNCHANGED <<stored, handlings>>

(* Mutant: a message that was handled is not released.                     *)
CommitKeeps(message, answer) ==
  /\ stored' = Append(stored, message)
  /\ used' = used + Len(message) - Len(appended)

(* The message is committed; if a handler has taken it, the oldest message *)
(* of the buffer is released.                                              *)
Commit(message, answer) ==
  LET committed == Append(stored, message)
      pushed    == used + Len(message) - Len(appended)
  IN IF answer THEN /\ stored' = Tail(committed)
                    /\ used' = pushed - Len(Head(committed))
               ELSE /\ stored' = committed
                    /\ used' = pushed

(* The final fragment: SetAppendMode commits what there is, without the    *)
(* fragment if that found no room, and the handlers get it.                *)
ReceiveFinal(p, answer) ==
  LET f       == NextFragment(p, TRUE)
      message == Pushed(f)
  IN /\ message # <<>>
     /\ Arrive(p, f)
     /\ Commit(message, answer)
     /\ appended' = <<>>
     /\ handed' = message
     /\ took' = answer
     /\ UNCHANGED garbage

(* No fragment of the message found room: nobody has set pRawBuffer_X, and *)
(* what the handlers get is anything.                                      *)
ReceiveNothing(p, answer) ==
  LET f        == NextFragment(p, TRUE)
      released == answer /\ stored # <<>>
  IN /\ Pushed(f) = <<>>
     /\ Arrive(p, f)
     /\ stored' = IF released THEN Tail(stored) ELSE stored
     /\ used' = IF released THEN used - Len(Head(stored)) ELSE used
     /\ garbage' = TRUE
     /\ UNCHANGED <<appended, handed, took>>

(* Mutant: a READ gets the newest message.                                 *)
ReadNewest ==
  /\ stored # <<>>
  /\ used' = used - Len(stored[Len(stored)])
  /\ stored' = SubSeq(stored, 1, Len(stored) - 1)
  /\ UNCHANGED <<app, ctx, open, sent, appended, handlings, disturbed>>

(* The poll of a READ pops the oldest message, whether the READ is then    *)
(* answered with it or with a timeout.                                     *)
Read ==
  /\ stored # <<>>
  /\ used' = used - Len(Head(stored))
  /\ stored' = Tail(stored)
  /\ UNCHANGED <<app, ctx, open, sent, appended, handlings, disturbed>>

Next ==
  \/ CreateContext
  \/ ClientDisconnect
  \/ Cancel
  \/ Read
  \/ \E p \in Peer :
       \/ Established(p)
       \/ Closed(p)
       \/ ReceivePart(p)
       \/ \E answer \in Answers : ReceiveFinal(p, answer) \/ ReceiveNothing(p, answer)

Spec == Init /\ [][Next]_vars

-----------------------------------------------------------------------------
(* Properties.                                                             *)

(* What the handlers get and what a READ will get is a whole message of    *)
(* one peer in its order, unless its reception was disturbed: the buffer   *)
(* was full, fragments of another message were in append mode (of a second *)
(* peer, or of one that has gone in the middle of a message), or a cancel  *)
(* came in between.  So with one connection, room and no cancel all are    *)
(* whole, also after any number of reconnections of a client.              *)
WholeUnlessDisturbed ==
  \A message \in {stored[i] : i \in DOMAIN stored} \cup {handed} :
    message = <<>> \/ Whole(message) \/ Ids(message) \cap disturbed # {}

(* Handlers which take every message never meet a full buffer of messages, *)
(* even with room for one message only, and a client has room for the rest *)
(* of the message it is receiving: whatever a cancel, a close or a discon- *)
(* nection has cut off takes no room from the next connection.             *)
TakenNeedsRoomForOne ==
  app.handler = "takes" =>
    /\ ~garbage /\ stored = <<>>
    /\ ~app.server => \A p \in open : used <= sent[p].part

(* The buffer is a queue for READ, in which the oldest message leaves and  *)
(* a new one comes last, if the handlers take all messages or none (App    *)
(* without "mixed"): a message that was handled never enters it, and none  *)
(* that was left is released for it.                                       *)
MQ == INSTANCE MessageQueue WITH queue <- stored

ImplementsQueue == MQ!Spec

(* bofwebsocket.cpp:1197 "If the OnMessage or OnMessage functions have     *)
(* successfully processed the info, we realese the buffer otherwize it     *)
(* will be relesed in V_OnProcessing by case ..OPERATION_READ": a message  *)
(* that a handler took is not in the buffer any more.                      *)
HandledIsReleased ==
  took => \A i \in DOMAIN stored : stored[i] # handed

=============================================================================
