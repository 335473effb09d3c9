-------------------------------- MODULE MCEvent --------------------------------
(* Small instances of Event for TLC. *)
EXTENDS Event

CONSTANTS s1, s2, r1, w1, w2, x, y
=============================================================================
