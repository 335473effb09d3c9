---------------------------- MODULE MCProcessHeap ----------------------------
(* A singleton whose constructor asks for the error context of its thread,  *)
(* and another name that every thread has an object of its own for.         *)
EXTENDS ProcessHeap

CONSTANTS reporting, context, com, t1, t2

MCMembers == [n \in Names |-> IF n = reporting THEN {context} ELSE {}]
=============================================================================
