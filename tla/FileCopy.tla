------------------------------ MODULE FileCopy ------------------------------
(***************************************************************************)
(* What Upload and Download of BofWebClient promise: a file is copied from *)
(* its first byte on, and the call that returns true leaves a whole copy.  *)
(* A call that returns false says nothing: what is there by then, or comes *)
(* later because a request was on its way, is a prefix of the source.      *)
(***************************************************************************)
EXTENDS Integers, Sequences

CONSTANT Transfer \* the calls of Upload and Download

VARIABLES
  source,  \* the bytes of the file to copy
  dest,    \* the bytes of the copy
  outcome  \* what the call has returned: "none" while it runs

copyVars == <<source, dest, outcome>>

Prefix(t, n) == SubSeq(source[t], 1, n)

\* The copy of t grows, or not, and is a prefix of the source afterwards.
Grow(t) ==
  \E n \in Len(dest[t]) .. Len(source[t]) :
    dest' = [dest EXCEPT ![t] = Prefix(t, n)]

Init ==
  /\ dest = [t \in Transfer |-> <<>>]
  /\ outcome = [t \in Transfer |-> "none"]

Extend(t) ==
  /\ outcome[t] # "true"
  /\ Grow(t)
  /\ UNCHANGED <<source, outcome>>

Succeed(t) ==
  /\ outcome[t] = "none"
  /\ dest' = [dest EXCEPT ![t] = source[t]]
  /\ outcome' = [outcome EXCEPT ![t] = "true"]
  /\ UNCHANGED source

Fail(t) ==
  /\ outcome[t] = "none"
  /\ Grow(t)
  /\ outcome' = [outcome EXCEPT ![t] = "false"]
  /\ UNCHANGED source

Next == \E t \in Transfer : Extend(t) \/ Succeed(t) \/ Fail(t)

Spec == Init /\ [][Next]_copyVars
=============================================================================
