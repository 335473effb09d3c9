---------------------------- MODULE MCGrowablePool -----------------------------
(* A small instance of GrowablePool for TLC. *)
EXTENDS GrowablePool
=============================================================================
