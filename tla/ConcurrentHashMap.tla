-------------------------- MODULE ConcurrentHashMap --------------------------
(***************************************************************************)
(* oConcurrency's concurrent_hash_map: an open-addressing table of NSlots  *)
(* slots probed linearly.  A slot holds a key, claimed once by             *)
(* compare-and-swap, and a value, replaced by an atomic exchange.  remove  *)
(* only stores nullidx, so the slot stays claimed (a tombstone) until the  *)
(* owner, with no other call under way, runs reclaim or clear.             *)
(*                                                                         *)
(* A key is a member of Key; Home[k] is "key & modulo_mask".  One action   *)
(* is one atomic access; reclaim is one action per iteration of its loops. *)
(* The memory order is relaxed in the code: every access is to one         *)
(* location, whose accesses are totally ordered, and the model orders the  *)
(* accesses to different locations too, as the x86 target does.            *)
(***************************************************************************)
EXTENDS Naturals, FiniteSets, FiniteSetsExt

CONSTANTS Thread, Key, Value, nullkey, nullidx, NoOp, Pending, Full,
          NSlots,   \* n of initialize(): a power of two
          Home,     \* the slot a key is probed from
          KeysOf    \* the keys each thread uses (a bound on its calls)

ASSUME HashMapAssumption ==
  /\ NSlots \in Nat \ {0}
  /\ Home \in [Key -> 0 .. NSlots - 1]
  /\ KeysOf \in [Thread -> SUBSET Key]
  /\ nullkey \notin Key
  /\ nullidx \notin Value
  /\ Pending # Full /\ {Pending, Full} \cap (Value \cup {nullidx}) = {}

VARIABLES
  keys, values,    \* the two arrays of the table
  pc,              \* where each thread is in its call
  op,              \* the call it makes
  k, j,            \* the slot it probes, and how many it has passed
  ret,             \* what its call answers
  rc, i, ii        \* reclaim: the loop it is in and its two indices

table   == <<keys, values>>
threads == <<pc, op, k, j, ret>>
owner   == <<rc, i, ii>>
vars    == <<table, threads, owner>>

Slot == 0 .. NSlots - 1
(* Definitions named Bug... are seeded bugs: the definition that follows them
   with one plausible mistake. No specification uses them. *)

Wrap(s) == s % NSlots                       \* s & modulo_mask

Ops == [kind : {"set"}, key : Key, value : Value \cup {nullidx}]
         \cup [kind : {"get"}, key : Key]

\* "No call" is none of the calls.
ASSUME NoOpAssumption == NoOp \notin Ops

Init ==
  /\ keys = [s \in Slot |-> nullkey]
  /\ values = [s \in Slot |-> nullidx]
  /\ pc = [t \in Thread |-> "idle"]
  /\ op = [t \in Thread |-> NoOp]
  /\ k = [t \in Thread |-> 0]
  /\ j = [t \in Thread |-> 0]
  /\ ret = [t \in Thread |-> Pending]
  /\ rc = "idle" /\ i = 0 /\ ii = 0

-----------------------------------------------------------------------------
(* The concurrent interface: set, remove (a set of nullidx) and get.       *)

\* A thread calls set, remove or get; never while the owner is reclaiming.
Call(t) ==
  /\ pc[t] = "idle" /\ rc = "idle"
  /\ \E o \in Ops :
       /\ o.key \in KeysOf[t]
       /\ op' = [op EXCEPT ![t] = o]
       /\ k' = [k EXCEPT ![t] = Home[o.key]]
  /\ pc' = [pc EXCEPT ![t] = "load"]
  /\ UNCHANGED <<table, j, ret, owner>>

At(t, label) == pc[t] = label
Setting(t) == op[t] # NoOp /\ op[t].kind = "set"
Getting(t) == op[t] # NoOp /\ op[t].kind = "get"
Goto(t, label) == pc' = [pc EXCEPT ![t] = label]
Answer(t, r) == ret' = [ret EXCEPT ![t] = r] /\ Goto(t, "done")
Advance(t) == k' = [k EXCEPT ![t] = Wrap(@ + 1)]

\* Bug: one probe too few.
BugSetFull(t) ==
  /\ At(t, "load") /\ Setting(t) /\ j[t] > NSlots - 2
  /\ Answer(t, Full)
  /\ UNCHANGED <<table, op, k, j, owner>>

\* set gives up once it has probed every slot: it throws length_error.
SetFull(t) ==
  /\ At(t, "load") /\ Setting(t) /\ j[t] > NSlots - 1
  /\ Answer(t, Full)
  /\ UNCHANGED <<table, op, k, j, owner>>

\* The relaxed load: the key itself, a free slot to claim, or another key.
SetLoad(t) ==
  /\ At(t, "load") /\ Setting(t) /\ j[t] <= NSlots - 1
  /\ \/ keys[k[t]] = op[t].key /\ Goto(t, "exchange") /\ UNCHANGED <<k, j>>
     \/ keys[k[t]] = nullkey /\ Goto(t, "cas") /\ UNCHANGED <<k, j>>
     \/ /\ keys[k[t]] \notin {op[t].key, nullkey}
        /\ Advance(t) /\ j' = [j EXCEPT ![t] = @ + 1]
        /\ UNCHANGED pc
  /\ UNCHANGED <<table, op, ret, owner>>

\* Bugs: the key that won the slot is not compared with ours; or the loser
\* of the race goes on as if it had won.
BugClaimDuplicate(t) ==
  /\ At(t, "cas")
  /\ \/ /\ keys[k[t]] = nullkey
        /\ keys' = [keys EXCEPT ![k[t]] = op[t].key]
        /\ Goto(t, "exchange") /\ UNCHANGED <<k, j>>
     \/ /\ keys[k[t]] # nullkey
        /\ Goto(t, "load") /\ Advance(t) /\ j' = [j EXCEPT ![t] = @ + 1]
        /\ UNCHANGED keys
  /\ UNCHANGED <<values, op, ret, owner>>

BugClaimIgnored(t) ==
  /\ At(t, "cas")
  /\ keys' = [keys EXCEPT ![k[t]] = IF @ = nullkey THEN op[t].key ELSE @]
  /\ Goto(t, "exchange")
  /\ UNCHANGED <<values, op, k, j, ret, owner>>

\* The slot was free when it was loaded; it may have been claimed since, by
\* this very key (then it is used) or by another (then the probe goes on).
SetClaim(t) ==
  /\ At(t, "cas")
  /\ \/ /\ keys[k[t]] = nullkey
        /\ keys' = [keys EXCEPT ![k[t]] = op[t].key]
        /\ Goto(t, "exchange") /\ UNCHANGED <<k, j>>
     \/ /\ keys[k[t]] = op[t].key
        /\ Goto(t, "exchange") /\ UNCHANGED <<keys, k, j>>
     \/ /\ keys[k[t]] \notin {op[t].key, nullkey}
        /\ Goto(t, "load") /\ Advance(t) /\ j' = [j EXCEPT ![t] = @ + 1]
        /\ UNCHANGED keys
  /\ UNCHANGED <<values, op, ret, owner>>

SetExchange(t) ==
  /\ At(t, "exchange")
  /\ values' = [values EXCEPT ![k[t]] = op[t].value]
  /\ Answer(t, values[k[t]])
  /\ UNCHANGED <<keys, op, k, j, owner>>

\* get has no bound on its probe: it stops at the key or at a free slot.
GetLoad(t) ==
  /\ At(t, "load") /\ Getting(t)
  /\ \/ keys[k[t]] = op[t].key /\ Goto(t, "value") /\ UNCHANGED <<k, ret>>
     \/ keys[k[t]] = nullkey /\ Answer(t, nullidx) /\ UNCHANGED k
     \/ keys[k[t]] \notin {op[t].key, nullkey} /\ Advance(t) /\ UNCHANGED <<pc, ret>>
  /\ UNCHANGED <<table, op, j, owner>>

GetValue(t) ==
  /\ At(t, "value")
  /\ Answer(t, values[k[t]])
  /\ UNCHANGED <<table, op, k, j, owner>>

Return(t) ==
  /\ At(t, "done")
  /\ Goto(t, "idle")
  /\ op' = [op EXCEPT ![t] = NoOp]
  /\ ret' = [ret EXCEPT ![t] = Pending]
  /\ k' = [k EXCEPT ![t] = 0]
  /\ j' = [j EXCEPT ![t] = 0]
  /\ UNCHANGED <<table, owner>>

-----------------------------------------------------------------------------
(* The owner's interface, which the header puts under "non-concurrent api".*)

Quiet == rc = "idle" /\ \A t \in Thread : pc[t] = "idle"

Clear ==
  /\ Quiet
  /\ keys' = [s \in Slot |-> nullkey]
  /\ values' = [s \in Slot |-> nullidx]
  /\ UNCHANGED <<threads, owner>>

ReclaimBegin ==
  /\ Quiet
  /\ rc' = "outer" /\ i' = 0 /\ ii' = 0
  /\ UNCHANGED <<table, threads>>

Dead(s) == keys[s] # nullkey /\ values[s] = nullidx

\* One turn of the outer loop: a tombstone starts a scan of what follows it.
ReclaimOuter ==
  /\ rc = "outer" /\ i \in Slot
  /\ \/ /\ Dead(i)
        /\ keys' = [keys EXCEPT ![i] = nullkey]
        /\ ii' = Wrap(i + 1) /\ rc' = "inner" /\ UNCHANGED i
     \/ ~Dead(i) /\ i' = i + 1 /\ UNCHANGED <<keys, ii, rc>>
  /\ UNCHANGED <<values, threads>>

ReclaimEnd ==
  /\ rc = "outer" /\ i \notin Slot
  /\ rc' = "idle" /\ i' = 0 /\ ii' = 0
  /\ UNCHANGED <<table, threads>>

Greater(a, b) == IF a > b THEN a ELSE b

\* Bug: ii is not advanced.
BugScanOn == i' = Greater(i, ii) /\ UNCHANGED <<ii, rc>>

ScanOn == i' = Greater(i, ii) /\ ii' = Wrap(ii + 1) /\ UNCHANGED rc

\* Where set() puts key in the array ks: the first slot from its home that
\* is free or holds it.
Probe(ks, key) ==
  LET free(d) == ks[Wrap(Home[key] + d)] \in {nullkey, key}
  IN  Wrap(Home[key] + Min({d \in Slot : free(d)}))

\* Bugs: keys are left where a collision put them; or a tombstone the scan
\* meets is left for the outer loop, which has moved past it.
BugInnerNoMove ==
  /\ rc = "inner"
  /\ \/ keys[ii] = nullkey /\ rc' = "outer" /\ UNCHANGED <<table, i, ii>>
     \/ Dead(ii) /\ keys' = [keys EXCEPT ![ii] = nullkey] /\ ScanOn /\ UNCHANGED values
     \/ keys[ii] # nullkey /\ ~Dead(ii) /\ ScanOn /\ UNCHANGED table
  /\ UNCHANGED threads

BugInnerSkipsDead ==
  /\ rc = "inner"
  /\ \/ keys[ii] = nullkey /\ rc' = "outer" /\ UNCHANGED <<table, i, ii>>
     \/ /\ keys[ii] # nullkey /\ ~Dead(ii) /\ Home[keys[ii]] # ii
        /\ LET out == [keys EXCEPT ![ii] = nullkey]
               s   == Probe(out, keys[ii])
           IN  /\ keys' = [out EXCEPT ![s] = keys[ii]]
               /\ values' = [[values EXCEPT ![ii] = nullidx] EXCEPT ![s] = values[ii]]
        /\ ScanOn
     \/ Dead(ii) /\ ScanOn /\ UNCHANGED table
     \/ keys[ii] # nullkey /\ ~Dead(ii) /\ Home[keys[ii]] = ii /\ ScanOn /\ UNCHANGED table
  /\ UNCHANGED threads

\* One turn of the inner loop, up to the next free slot: a tombstone is
\* freed, a key away from its home is taken out and set again.
ReclaimInner ==
  /\ rc = "inner"
  /\ \/ keys[ii] = nullkey /\ rc' = "outer" /\ UNCHANGED <<table, i, ii>>
     \/ Dead(ii) /\ keys' = [keys EXCEPT ![ii] = nullkey] /\ ScanOn /\ UNCHANGED values
     \/ /\ keys[ii] # nullkey /\ ~Dead(ii) /\ Home[keys[ii]] # ii
        /\ LET out == [keys EXCEPT ![ii] = nullkey]
               s   == Probe(out, keys[ii])
           IN  /\ keys' = [out EXCEPT ![s] = keys[ii]]
               /\ values' = [[values EXCEPT ![ii] = nullidx] EXCEPT ![s] = values[ii]]
        /\ ScanOn
     \/ keys[ii] # nullkey /\ ~Dead(ii) /\ Home[keys[ii]] = ii /\ ScanOn /\ UNCHANGED table
  /\ UNCHANGED threads

Step(t) == \/ SetFull(t) \/ SetLoad(t) \/ SetClaim(t) \/ SetExchange(t)
           \/ GetLoad(t) \/ GetValue(t) \/ Return(t)
Reclaim == ReclaimOuter \/ ReclaimInner \/ ReclaimEnd

Next == \/ \E t \in Thread : Call(t) \/ Step(t)
        \/ Clear \/ ReclaimBegin \/ Reclaim

Spec == Init /\ [][Next]_vars

\* A thread inside a call keeps running, and so does a reclaim once begun;
\* nobody is obliged to make another call.
FairSpec == Spec /\ (\A t \in Thread : WF_vars(Step(t))) /\ WF_vars(Reclaim)

-----------------------------------------------------------------------------
(* Safety                                                                  *)

\* The variables keep their types.
TypeOK ==
  /\ keys \in [Slot -> Key \cup {nullkey}]
  /\ values \in [Slot -> Value \cup {nullidx}]
  /\ pc \in [Thread -> {"idle", "load", "cas", "exchange", "value", "done"}]
  /\ op \in [Thread -> Ops \cup {NoOp}]
  /\ k \in [Thread -> Slot] /\ j \in [Thread -> 0 .. NSlots]
  /\ ret \in [Thread -> Value \cup {nullidx, Pending, Full}]
  /\ rc \in {"idle", "outer", "inner"} /\ i \in 0 .. NSlots /\ ii \in Slot

\* However the sets of several threads race for the slots, and whatever
\* reclaim moves, no key ever owns two slots.
OneSlotPerKey ==
  \A s, r \in Slot : keys[s] # nullkey /\ keys[s] = keys[r] => s = r

\* The slots a probe for the key of slot s passes before it reaches s.
Passed(s) == {Wrap(Home[keys[s]] + d) : d \in {e \in Slot :
                \A c \in 0 .. e : Wrap(Home[keys[s]] + c) # s}}

\* What makes get stop at the right place: outside a reclaim no free slot
\* lies between a key's home and the slot it is in.
NoGapBeforeKey ==
  rc = "idle" => \A s \in Slot : keys[s] # nullkey =>
                    \A r \in Passed(s) : keys[r] # nullkey

\* set throws only when every slot is claimed by some other key: a racing
\* claim, or a probe that wraps around, never makes it give up early.
ThrowsOnlyWhenFull ==
  [][\A t \in Thread : ret[t] = Pending /\ ret'[t] = Full =>
       \A s \in Slot : keys[s] \notin {nullkey, op[t].key}]_vars

\* reclaim leaves no tombstone behind, wherever it met them in a cluster and
\* whichever cluster wraps around the end of the table.
ReclaimIsComplete ==
  [][rc # "idle" /\ rc' = "idle" => \A s \in Slot : ~Dead(s)]_vars

\* The table implements the atomic map: every set and get answers what the
\* map holds at one instant of the call, and reclaim changes nothing.
SlotOf(key) == CHOOSE s \in Slot : keys[s] = key
Contents == [key \in Key |-> IF \E s \in Slot : keys[s] = key
                             THEN values[SlotOf(key)] ELSE nullidx]
Map == INSTANCE AtomicMap WITH map <- Contents
ImplementsMap == Map!Spec

-----------------------------------------------------------------------------
(* Liveness                                                                *)

\* reclaim ends: its scan, which wraps and moves keys ahead of itself,
\* always meets a free slot.
ReclaimReturns == rc # "idle" ~> rc = "idle"
=============================================================================
