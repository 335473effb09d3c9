---------------------------- MODULE MCThreadPool ----------------------------
(* A small instance of ThreadPool for TLC. *)
EXTENDS ThreadPool

CONSTANTS w1, w2, c1, c2, a, b, c

MCWorkers == {w1, w2}
MCClients == {c1, c2}

(* a dispatches b; c is independent. *)
NestedTasks == {a, b, c}
NestedChildren == [t \in NestedTasks |-> IF t = a THEN {b} ELSE {}]
=============================================================================
