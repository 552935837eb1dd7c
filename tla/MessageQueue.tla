---------------------------- MODULE MessageQueue ----------------------------
(***************************************************************************)
(* What the receive buffer of BofWebSocket is to its user: a queue of the  *)
(* messages which OnMessage and OnEvent have left.  A message that was     *)
(* handled never enters it, READ gets the oldest one, and a cancel or the  *)
(* end of the context empties it.                                          *)
(***************************************************************************)
EXTENDS Naturals, Sequences

VARIABLE queue

Init == queue = <<>>

\* The new message comes last and moves none of the others.
Leave ==
  /\ queue' # <<>>
  /\ queue' = Append(queue, queue'[Len(queue')])

Read ==
  /\ queue # <<>>
  /\ queue' = Tail(queue)

Reset == queue' = <<>>

Next == Leave \/ Read \/ Reset

Spec == Init /\ [][Next]_queue
=============================================================================
