-------------------------- MODULE OperationService --------------------------
(***************************************************************************)
(* What a ticket of BofWebSocket is to its user.  An accepted operation is *)
(* outstanding until it is answered, or withdrawn by a cancel, a reset, a  *)
(* full queue or a command that takes its place; from then on nothing of   *)
(* it comes back.  Two kinds of operations may be answered again: LISTEN,  *)
(* once per client, and a WRITE whose refusal comes after its data have    *)
(* been queued.                                                            *)
(***************************************************************************)
EXTENDS Naturals

CONSTANTS Ticket, Operation

VARIABLES
  programmed,  \* the operation accepted under a ticket, or "none"
  outstanding, \* the tickets that something may still be done for
  refused,     \* the WRITE operations that are refused and yet queued
  answers      \* the answers of a ticket, counted up to 2

vars == <<programmed, outstanding, refused, answers>>

Init ==
  /\ programmed = [t \in Ticket |-> "none"]
  /\ outstanding = {}
  /\ refused = {}
  /\ answers = [t \in Ticket |-> 0]

\* A ticket is given once.
Accept(t, op) ==
  /\ programmed[t] = "none"
  /\ programmed' = [programmed EXCEPT ![t] = op]
  /\ outstanding' = outstanding \cup {t}
  /\ UNCHANGED <<refused, answers>>

\* What stays outstanding after an answer may be answered again.
AnsweredAgain(t) ==
  programmed[t] = "LISTEN" \/ (t \in refused /\ answers[t] = 0)

Answer(t) ==
  /\ t \in outstanding
  /\ answers' = [answers EXCEPT ![t] = IF answers[t] < 2 THEN answers[t] + 1 ELSE answers[t]]
  /\ \/ outstanding' = outstanding \ {t}
     \/ AnsweredAgain(t) /\ outstanding' = outstanding
  /\ UNCHANGED <<programmed, refused>>

Withdraw ==
  /\ outstanding' \subseteq outstanding
  /\ UNCHANGED <<programmed, refused, answers>>

\* The write stays outstanding; what was in flight may end with it.
Refuse(t) ==
  /\ t \in outstanding
  /\ programmed[t] = "WRITE"
  /\ answers[t] = 0
  /\ refused' = refused \cup {t}
  /\ outstanding' \subseteq outstanding
  /\ t \in outstanding'
  /\ UNCHANGED <<programmed, answers>>

Next ==
  \/ \E t \in Ticket, op \in Operation : Accept(t, op)
  \/ \E t \in Ticket : Answer(t) \/ Refuse(t)
  \/ Withdraw

Spec == Init /\ [][Next]_vars
=============================================================================
