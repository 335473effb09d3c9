----------------------------- MODULE ConcurrentStack -----------------------------
(***************************************************************************)
(* ouro::concurrent_stack (include/oConcurrency/concurrent_stack.h): a     *)
(* stack linked through the next member of its elements, which the program *)
(* owns.  Its one client that runs, the growable pool, pushes from any     *)
(* thread and never pops beside others, so that an exchange which compares *)
(* addresses only (the tag of the 64-bit build is 0) is not deceived.      *)
(***************************************************************************)
EXTENDS Naturals, Sequences, FiniteSets

CONSTANTS Elements, None

VARIABLES head, next

(* Every turn of the loop of push(e) stores the link before the exchange. *)
PushLoad(e, o) == o = head /\ next' = [next EXCEPT ![e] = o] /\ UNCHANGED head

Exchange(o, n) == head' = IF head = o THEN n ELSE head

(* push(e) where no other thread can come between *)
Push(e) == next' = [next EXCEPT ![e] = head] /\ head' = e

(* Where the links lead from head, one turn of a walk at a time *)
Walk[k \in 0..Cardinality(Elements)] ==
  IF k = 0 THEN head ELSE IF Walk[k - 1] = None THEN None ELSE next[Walk[k - 1]]

Size ==
  CHOOSE k \in 0..Cardinality(Elements) :
    /\ k < Cardinality(Elements) => Walk[k] = None
    /\ \A j \in 0..(k - 1) : Walk[j] # None

(* Who follows the links from head passes these, in a stack that is intact. *)
Chain == [k \in 1..Size |-> Walk[k - 1]]

(* The links of a stack that holds the elements of s, its top first *)
Linked(s) ==
  [e \in Elements |->
    IF \E k \in 1..Len(s) - 1 : s[k] = e
    THEN s[1 + CHOOSE k \in 1..Len(s) - 1 : s[k] = e] ELSE None]
=============================================================================
