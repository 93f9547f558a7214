----------------------------- MODULE BoundedFifo -----------------------------
(***************************************************************************)
(* What one inter-core ring promises its two users: a first-in first-out   *)
(* queue of at most N PDUs.  A push is refused only when the queue holds N *)
(* PDUs, a pop reports "nothing" only when the queue holds none, and a     *)
(* successful pop hands over the oldest PDU exactly as it was pushed.      *)
(***************************************************************************)
EXTENDS Naturals, Sequences

CONSTANTS
  N,       \* capacity of the queue
  PDU,     \* the PDUs that can be queued
  ZeroPdu, \* the zeroed PDU
  NoPdu    \* "no PDU": the pop found nothing

VARIABLES
  q,         \* the queued PDUs, oldest first
  pending,   \* a push has been admitted and has not returned
  sending,   \* the PDU handed to the last admitted push
  accepted,  \* result of the last completed push
  popped     \* result of the last completed pop

vars == <<q, pending, sending, accepted, popped>>

Init ==
  /\ q = <<>> /\ popped = NoPdu
  /\ pending = FALSE /\ sending = ZeroPdu /\ accepted = TRUE

Offer(v) ==
  /\ ~pending /\ Len(q) < N
  /\ pending' = TRUE /\ sending' = v
  /\ UNCHANGED <<q, accepted, popped>>

Enqueue ==
  /\ pending /\ Len(q) < N
  /\ q' = Append(q, sending)
  /\ pending' = FALSE /\ accepted' = TRUE
  /\ UNCHANGED <<sending, popped>>

Refuse ==
  /\ ~pending /\ Len(q) = N
  /\ accepted' = FALSE
  /\ UNCHANGED <<q, pending, sending, popped>>

Dequeue ==
  /\ q # <<>>
  /\ popped' = Head(q)
  /\ q' = Tail(q)
  /\ UNCHANGED <<pending, sending, accepted>>

FindNothing ==
  /\ q = <<>>
  /\ popped' = NoPdu
  /\ UNCHANGED <<q, pending, sending, accepted>>

Next == (\E v \in PDU : Offer(v)) \/ Enqueue \/ Refuse \/ Dequeue \/ FindNothing

Spec == Init /\ [][Next]_vars
=============================================================================
