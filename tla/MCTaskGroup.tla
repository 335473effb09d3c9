------------------------------ MODULE MCTaskGroup ------------------------------
(* Small instances of TaskGroup for TLC. *)
EXTENDS TaskGroup, TLC

CONSTANTS w1, w2, c1, c2, a, b, c, d, e

(* One client runs a, which forks b and e in a group of its own, into which b
   runs d; another client runs c. *)
By == a :> c1 @@ b :> a @@ c :> c2 @@ d :> b @@ e :> a
Of == a :> c1 @@ b :> a @@ c :> c2 @@ d :> a @@ e :> a

MCRunBy == [t \in Tasks |-> By[t]]
MCInto  == [t \in Tasks |-> Of[t]]
=============================================================================
