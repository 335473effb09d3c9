------------------------------ MODULE AtomicMap ------------------------------
(***************************************************************************)
(* What oConcurrency's concurrent_hash_map promises the threads that share *)
(* it: a total map from keys to values, nullidx standing for "no entry",   *)
(* on which every set and every get takes effect at one instant between    *)
(* its call and its return.  A set answers the value it replaces; a set    *)
(* may also fail and change nothing (the table is full).  When no call is  *)
(* under way the owner may empty the map.                                  *)
(***************************************************************************)

CONSTANTS Thread, Key, Value, nullidx, NoOp, Pending, Full

VARIABLES map,   \* the value every key is associated with
          op,    \* the call each thread is in, NoOp between two calls
          ret    \* what the call answers, Pending until it took effect

vars == <<map, op, ret>>

Ops == [kind : {"set"}, key : Key, value : Value \cup {nullidx}]
         \cup [kind : {"get"}, key : Key]

Init == /\ map = [k \in Key |-> nullidx]
        /\ op = [t \in Thread |-> NoOp]
        /\ ret = [t \in Thread |-> Pending]

Call(t) == /\ op[t] = NoOp
           /\ \E o \in Ops : op' = [op EXCEPT ![t] = o]
           /\ UNCHANGED <<map, ret>>

Active(t, kind) == op[t] # NoOp /\ op[t].kind = kind /\ ret[t] = Pending

Set(t) == /\ Active(t, "set")
          /\ ret' = [ret EXCEPT ![t] = map[op[t].key]]
          /\ map' = [map EXCEPT ![op[t].key] = op[t].value]
          /\ UNCHANGED op

Fail(t) == /\ Active(t, "set")
           /\ ret' = [ret EXCEPT ![t] = Full]
           /\ UNCHANGED <<map, op>>

Get(t) == /\ Active(t, "get")
          /\ ret' = [ret EXCEPT ![t] = map[op[t].key]]
          /\ UNCHANGED <<map, op>>

Return(t) == /\ op[t] # NoOp /\ ret[t] # Pending
             /\ op' = [op EXCEPT ![t] = NoOp]
             /\ ret' = [ret EXCEPT ![t] = Pending]
             /\ UNCHANGED map

Clear == /\ \A t \in Thread : op[t] = NoOp
         /\ map' = [k \in Key |-> nullidx]
         /\ UNCHANGED <<op, ret>>

Next == \/ \E t \in Thread : Call(t) \/ Set(t) \/ Fail(t) \/ Get(t) \/ Return(t)
        \/ Clear

Spec == Init /\ [][Next]_vars
=============================================================================
