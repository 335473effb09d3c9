------------------------- MODULE MCConcurrentHashMap -------------------------
(* A small table whose clusters wrap around its end, with one key more than *)
(* it has slots.                                                            *)
EXTENDS ConcurrentHashMap

CONSTANTS t1, k1, k2, k3, k4, k5

\* k1 and k2 collide at the last slot, so the second of them wraps to slot
\* 0, the home of k3; k4 and k5 are pushed out of slot 1 in turn.
MCHome == [key \in Key |-> CASE key \in {k1, k2} -> NSlots - 1
                             [] key = k3 -> 0
                             [] OTHER -> 1]

\* One thread uses every key; the others meet it on k2.
MCKeysOf == [t \in Thread |-> IF t = t1 THEN Key ELSE {k2}]
=============================================================================
