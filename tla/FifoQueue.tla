------------------------------- MODULE FifoQueue -------------------------------
(***************************************************************************)
(* What oConcurrency's concurrent queues promise: elements leave in the    *)
(* order in which they entered, each exactly once, and a thread is told    *)
(* that the queue is empty only if it was at some instant of the call.     *)
(***************************************************************************)
EXTENDS Sequences

CONSTANTS Threads, Values, None

VARIABLES
  q,    \* the elements, oldest first
  got,  \* got[p]: the element p has taken and not yet returned
  told  \* the threads whose try_pop() is about to return false

vars == <<q, got, told>>

Init == q = <<>> /\ got = [p \in Threads |-> None] /\ told = {}

(* Who has not returned yet may look again when the queue has changed. *)
LookAgain == told' \in SUBSET told

Push(v) == q' = Append(q, v) /\ LookAgain /\ UNCHANGED got

Pop(p) ==
  /\ q # <<>> /\ got[p] = None
  /\ got' = [got EXCEPT ![p] = Head(q)] /\ q' = Tail(q)
  /\ LookAgain

Return(p) ==
  /\ got[p] # None
  /\ got' = [got EXCEPT ![p] = None]
  /\ UNCHANGED <<q, told>>

Tell(p) ==
  /\ q = <<>>
  /\ told' = told \cup {p}
  /\ UNCHANGED <<q, got>>

ReturnEmpty(p) ==
  /\ p \in told
  /\ told' = told \ {p}
  /\ UNCHANGED <<q, got>>

Next ==
  \/ \E v \in Values : Push(v)
  \/ \E p \in Threads : Pop(p) \/ Return(p) \/ Tell(p) \/ ReturnEmpty(p)

Spec == Init /\ [][Next]_vars
=============================================================================
