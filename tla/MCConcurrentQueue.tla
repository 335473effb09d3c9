--------------------------- MODULE MCConcurrentQueue ---------------------------
(* A small instance of ConcurrentQueue for TLC. *)
EXTENDS ConcurrentQueue
=============================================================================
