------------------------------- MODULE IndexPool -------------------------------
(***************************************************************************)
(* What a concurrent_pool promises to the threads that share it: a block   *)
(* is free, held by the program or on its way back, and a thread is told   *)
(* that the pool is empty only when no block is free.                      *)
(***************************************************************************)
CONSTANTS Threads, Index

VARIABLES
  free, held, returning, \* the blocks
  told                   \* the threads whose allocation is about to fail

vars == <<free, held, returning, told>>

Init == free = Index /\ held = {} /\ returning = {} /\ told = {}

Take(i) ==
  /\ i \in free
  /\ free' = free \ {i} /\ held' = held \cup {i}
  /\ UNCHANGED <<returning, told>>

Tell(p) ==
  /\ free = {}
  /\ told' = told \cup {p}
  /\ UNCHANGED <<free, held, returning>>

Fail(p) ==
  /\ p \in told
  /\ told' = told \ {p}
  /\ UNCHANGED <<free, held, returning>>

Return(i) ==
  /\ i \in held
  /\ held' = held \ {i} /\ returning' = returning \cup {i}
  /\ UNCHANGED <<free, told>>

Give(i) ==
  /\ i \in returning
  /\ returning' = returning \ {i} /\ free' = free \cup {i}
  /\ UNCHANGED <<held, told>>

Next ==
  \/ \E i \in Index : Take(i) \/ Return(i) \/ Give(i)
  \/ \E p \in Threads : Tell(p) \/ Fail(p)

Spec == Init /\ [][Next]_vars
=============================================================================
