-------------------------------- MODULE MCFuture --------------------------------
(* Small instances of Future for TLC. *)
EXTENDS Future

CONSTANTS client, job, s1, s2

AllKinds == {"promise", "promise_void", "async", "async_void"}
=============================================================================
