--------------------------- MODULE MCConcurrentPool ---------------------------
(* A small instance of ConcurrentPool for TLC. *)
EXTENDS ConcurrentPool, TLC

CONSTANTS t1, t2, t3

MCSymmetry == Permutations({t1, t2, t3})
=============================================================================
