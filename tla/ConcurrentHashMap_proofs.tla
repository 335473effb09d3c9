----------------------- MODULE ConcurrentHashMap_proofs -----------------------
(***************************************************************************)
(* For any number of threads, slots and keys and any hash: the table keeps *)
(* its types, set() throws only when every slot is claimed by other keys,  *)
(* no key owns two slots, none is cut off from its home, reclaim leaves no *)
(* tombstone, and the table implements the atomic map.                     *)
(*                                                                         *)
(* IInv says what the calls know of the slots they have passed; TableInv   *)
(* says where free slots may lie, in the middle of a reclaim too (GapInv). *)
(***************************************************************************)
EXTENDS ConcurrentHashMap, WellFoundedInduction, TLAPS

USE HashMapAssumption DEF Slot

(* A call has its arguments, and reclaim meets no call. *)
CallInv ==
  /\ \A t \in Thread : /\ pc[t] # "idle" => op[t] \in Ops
                       /\ pc[t] = "idle" => j[t] = 0
                       /\ pc[t] \in {"cas", "exchange"} => op[t].kind = "set"
                       /\ pc[t] = "cas" => j[t] < NSlots
  /\ rc # "idle" => \A t \in Thread : pc[t] = "idle"

(* The slots a set has passed are claimed by other keys, and stay so as long
   as the call is under way. *)
PassedInv ==
  \A t \in Thread : pc[t] \in {"load", "cas"} /\ Setting(t) =>
    /\ k[t] = Wrap(Home[op[t].key] + j[t])
    /\ \A d \in 0 .. j[t] - 1 :
         keys[Wrap(Home[op[t].key] + d)] \notin {nullkey, op[t].key}

IInv == TypeOK /\ CallInv /\ PassedInv

LEMMA WrapType == \A n \in Nat : Wrap(n) \in Slot
  BY DEF Wrap

(* The slots from any home on are all the slots. *)
LEMMA WrapCovers ==
  ASSUME NEW h \in Slot, NEW s \in Slot
  PROVE  \E d \in Slot : Wrap(h + d) = s
<1>1. CASE s >= h
  <2>1. s - h \in Slot /\ h + (s - h) = s /\ s % NSlots = s
    BY <1>1
  <2>2. QED
    BY <2>1 DEF Wrap
<1>2. CASE s < h
  <2>1. s + NSlots - h \in Slot /\ h + (s + NSlots - h) = s + NSlots
    BY <1>2
  <2>2. (s + NSlots) % NSlots = s
    OBVIOUS
  <2>3. Wrap(h + (s + NSlots - h)) = s
    BY <2>1, <2>2 DEF Wrap
  <2>4. QED
    BY <2>1, <2>3
<1>3. QED
  BY <1>1, <1>2

LEMMA NextInTable ==
  ASSUME TypeOK, NEW t \in Thread
  PROVE  Wrap(k[t] + 1) \in Slot /\ j[t] \in Nat
<1>1. k[t] \in Slot /\ j[t] \in 0 .. NSlots
  BY DEF TypeOK
<1>2. k[t] + 1 \in Nat
  BY <1>1
<1>3. QED
  BY <1>1, <1>2, WrapType

LEMMA WrapOnce ==
  ASSUME NEW n \in 0 .. 2 * NSlots - 1
  PROVE  Wrap(n) = IF n < NSlots THEN n ELSE n - NSlots
<1>1. CASE n < NSlots
  BY <1>1 DEF Wrap
<1>2. CASE n >= NSlots
  <2> DEFINE s == n - NSlots
  <2>1. s \in Slot /\ n = s + NSlots
    BY <1>2
  <2> HIDE DEF s
  <2>2. (s + NSlots) % NSlots = s
    BY <2>1
  <2>3. QED
    BY <1>2, <2>1, <2>2 DEF Wrap, s
<1>3. QED
  BY <1>1, <1>2

LEMMA WrapNext ==
  ASSUME NEW n \in 0 .. 2 * NSlots - 2
  PROVE  Wrap(Wrap(n) + 1) = Wrap(n + 1)
<1>1. Wrap(n) \in Slot /\ Wrap(n) + 1 \in 0 .. 2 * NSlots - 1 /\ n + 1 \in 0 .. 2 * NSlots - 1
  BY WrapOnce
<1>2. QED
  BY <1>1, WrapOnce

(* Every set of numbers with a member has a least one. *)
LEMMA LeastNumber ==
  ASSUME NEW S, S \subseteq Nat, S # {}
  PROVE  Min(S) \in S /\ \A n \in S : Min(S) <= n
<1>1. PICK m \in S : \A n \in S : <<n, m>> \notin OpToRel(<, Nat)
  BY NatLessThanWellFounded, WFMin
<1>2. ASSUME NEW n \in S PROVE m <= n
  <2>1. m \in Nat /\ n \in Nat
    OBVIOUS
  <2>2. n < m => <<n, m>> \in OpToRel(<, Nat)
    BY <2>1 DEF OpToRel
  <2>3. ~(n < m)
    BY <1>1, <2>2
  <2>4. QED
    BY <2>1, <2>3
<1>3. QED
  BY <1>2 DEF Min

LEMMA ProbeType ==
  ASSUME NEW ks \in [Slot -> Key \cup {nullkey}], NEW key \in Key,
         \E s \in Slot : ks[s] = nullkey
  PROVE  Probe(ks, key) \in Slot
<1> DEFINE F == {d \in Slot : ks[Wrap(Home[key] + d)] \in {nullkey, key}}
<1>1. F # {}
  BY WrapCovers
<1>2. Min(F) \in F
  <2>1. F \subseteq Nat
    OBVIOUS
  <2>2. QED
    BY <1>1, <2>1, LeastNumber
<1>3. Home[key] + Min(F) \in Nat /\ Probe(ks, key) = Wrap(Home[key] + Min(F))
  BY <1>2 DEF Probe
<1>4. QED
  BY <1>3, WrapType

LEMMA InitInv == Init => IInv
<1> SUFFICES ASSUME Init PROVE IInv
  OBVIOUS
<1>1. TypeOK
  BY DEF Init, TypeOK
<1>2. CallInv /\ PassedInv
  BY DEF Init, CallInv, PassedInv
<1>3. QED
  BY <1>1, <1>2 DEF IInv

(* What a call preserves: claims only fill free slots. *)
LEMMA CallingInv ==
  ASSUME IInv, NEW t \in Thread, Call(t) \/ Step(t)
  PROVE  IInv'
<1> USE DEF IInv, table, threads, owner, At, Goto
<1>1. TypeOK'
  <2>1. CASE Call(t)
    BY <2>1 DEF Call, TypeOK, Ops
  <2>2. CASE SetFull(t)
    BY <2>2 DEF SetFull, Answer, TypeOK
  <2>3. CASE SetLoad(t)
    <3>1. CASE UNCHANGED <<k, j>>
      BY <2>3, <3>1 DEF SetLoad, TypeOK
    <3>2. CASE Advance(t) /\ j' = [j EXCEPT ![t] = @ + 1] /\ UNCHANGED pc
      <4>1. j[t] + 1 \in 0 .. NSlots /\ Wrap(k[t] + 1) \in Slot
        BY <2>3, NextInTable DEF SetLoad
      <4>2. QED
        BY <2>3, <3>2, <4>1 DEF SetLoad, Advance, TypeOK
    <3>3. QED
      BY <2>3, <3>1, <3>2 DEF SetLoad
  <2>4. CASE SetClaim(t)
    <3>1. op[t].key \in Key /\ j[t] < NSlots
      BY <2>4 DEF SetClaim, CallInv, Ops
    <3>2. CASE keys' = [keys EXCEPT ![k[t]] = op[t].key] /\ UNCHANGED <<k, j>>
      BY <2>4, <3>1, <3>2 DEF SetClaim, TypeOK
    <3>3. CASE UNCHANGED <<keys, k, j>>
      BY <2>4, <3>3 DEF SetClaim, TypeOK
    <3>4. CASE Advance(t) /\ j' = [j EXCEPT ![t] = @ + 1] /\ UNCHANGED keys
      <4>1. j[t] + 1 \in 0 .. NSlots /\ Wrap(k[t] + 1) \in Slot
        BY <3>1, NextInTable
      <4>2. QED
        BY <2>4, <3>4, <4>1 DEF SetClaim, Advance, TypeOK
    <3>5. QED
      BY <2>4, <3>2, <3>3, <3>4 DEF SetClaim
  <2>5. CASE SetExchange(t)
    BY <2>5 DEF SetExchange, Answer, TypeOK, CallInv, Ops
  <2>6. CASE GetLoad(t)
    <3>1. CASE UNCHANGED k
      <4>1. CASE UNCHANGED ret
        BY <2>6, <3>1, <4>1 DEF GetLoad, Answer, TypeOK
      <4>2. CASE Answer(t, nullidx)
        BY <2>6, <3>1, <4>2 DEF GetLoad, Answer, TypeOK
      <4>3. QED
        BY <2>6, <4>1, <4>2 DEF GetLoad
    <3>2. CASE Advance(t) /\ UNCHANGED <<pc, ret>>
      <4>1. Wrap(k[t] + 1) \in Slot
        BY NextInTable
      <4>2. QED
        BY <2>6, <3>2, <4>1 DEF GetLoad, Advance, TypeOK
    <3>3. QED
      BY <2>6, <3>1, <3>2 DEF GetLoad
  <2>7. CASE GetValue(t)
    BY <2>7 DEF GetValue, Answer, TypeOK
  <2>8. CASE Return(t)
    BY <2>8 DEF Return, TypeOK
  <2>9. QED
    BY <2>1, <2>2, <2>3, <2>4, <2>5, <2>6, <2>7, <2>8 DEF Step
<1>2. CallInv'
  <2>1. CASE Call(t) \/ Return(t)
    BY <2>1 DEF Call, Return, TypeOK, CallInv
  <2>2. CASE SetFull(t) \/ SetExchange(t) \/ GetLoad(t) \/ GetValue(t)
    BY <2>2 DEF SetFull, SetExchange, GetLoad, GetValue, Answer, Advance, TypeOK, CallInv
  <2>3. CASE SetLoad(t) \/ SetClaim(t)
    BY <2>3 DEF SetLoad, SetClaim, Advance, Setting, TypeOK, CallInv
  <2>4. QED
    BY <2>1, <2>2, <2>3 DEF Step
<1>3. \A s \in Slot : keys[s] # nullkey => keys'[s] = keys[s]
  BY DEF Call, Step, SetFull, SetLoad, SetClaim, SetExchange, GetLoad, GetValue, Return, TypeOK
<1>4. \A u \in Thread \ {t} : /\ pc'[u] = pc[u] /\ op'[u] = op[u]
                              /\ k'[u] = k[u] /\ j'[u] = j[u]
  BY DEF Call, Step, SetFull, SetLoad, SetClaim, SetExchange, GetLoad, GetValue, Return,
         Answer, Advance, TypeOK
<1>5. PassedInv'
  <2>1. SUFFICES ASSUME NEW u \in Thread, pc'[u] \in {"load", "cas"}, Setting(u)'
                 PROVE  /\ k'[u] = Wrap(Home[op'[u].key] + j'[u])
                        /\ \A d \in 0 .. j'[u] - 1 :
                             keys'[Wrap(Home[op'[u].key] + d)] \notin {nullkey, op'[u].key}
    BY DEF PassedInv
  <2>2. op'[u] \in Ops /\ op'[u].key \in Key /\ j'[u] \in Nat
    BY <1>1, <1>2, <2>1 DEF CallInv, TypeOK, Ops
  <2>3. \A d \in 0 .. j'[u] - 1 : Wrap(Home[op'[u].key] + d) \in Slot
    BY <2>2, WrapType
  <2>4. CASE u # t
    BY <1>3, <1>4, <2>1, <2>2, <2>3, <2>4 DEF PassedInv, Setting
  <2>5. CASE u = t /\ Call(t)
    <3>1. j'[t] = 0 /\ k'[t] = Home[op'[t].key]
      BY <2>5 DEF Call, CallInv, TypeOK
    <3>2. Home[op'[t].key] \in Slot
      BY <2>2, <2>5
    <3>3. Wrap(Home[op'[t].key] + 0) = Home[op'[t].key]
      BY <3>2 DEF Wrap
    <3>4. QED
      BY <2>5, <3>1, <3>3
  <2>6. CASE u = t /\ (SetLoad(t) \/ SetClaim(t))
    <3>1. op' = op /\ Setting(t)
      BY <2>1, <2>6 DEF SetLoad, SetClaim, Setting
    <3>2. k[t] = Wrap(Home[op[t].key] + j[t]) /\ k[t] \in Slot /\ j[t] \in Nat
      BY <2>6, <3>1 DEF SetLoad, SetClaim, PassedInv, TypeOK
    <3>3. \A d \in 0 .. j[t] - 1 :
            keys[Wrap(Home[op[t].key] + d)] \notin {nullkey, op[t].key}
      BY <2>6, <3>1 DEF SetLoad, SetClaim, PassedInv
    <3>4. \/ k'[t] = k[t] /\ j'[t] = j[t]
          \/ /\ k'[t] = Wrap(k[t] + 1) /\ j'[t] = j[t] + 1
             /\ keys[k[t]] \notin {nullkey, op[t].key}
      BY <2>6 DEF SetLoad, SetClaim, Advance, TypeOK
    <3>5. k'[t] = Wrap(Home[op[t].key] + j'[t])
      <4>1. Home[op[t].key] \in Slot /\ j'[t] \in 0 .. NSlots
        BY <1>1, <2>2, <2>6, <3>1 DEF TypeOK
      <4>2. j'[t] = j[t] + 1 => Wrap(Wrap(Home[op[t].key] + j[t]) + 1) = Wrap(Home[op[t].key] + j'[t])
        BY <3>2, <4>1, WrapNext
      <4>3. QED
        BY <3>2, <3>4, <4>2
    <3>6. \A d \in 0 .. j'[t] - 1 :
            keys[Wrap(Home[op[t].key] + d)] \notin {nullkey, op[t].key}
      BY <3>2, <3>3, <3>4
    <3>7. QED
      BY <1>3, <2>3, <2>6, <3>1, <3>5, <3>6
  <2>7. CASE u = t /\ (SetFull(t) \/ SetExchange(t) \/ GetValue(t) \/ Return(t))
    BY <2>1, <2>7 DEF SetFull, SetExchange, GetValue, Return, Answer, TypeOK
  <2>8. CASE u = t /\ GetLoad(t)
    BY <2>1, <2>8 DEF GetLoad, Setting, Getting
  <2>9. QED
    BY <2>4, <2>5, <2>6, <2>7, <2>8 DEF Step
<1>6. QED
  BY <1>1, <1>2, <1>5

(* What the owner preserves: no call is under way. *)
LEMMA OwnerInv ==
  ASSUME IInv, Clear \/ ReclaimBegin \/ Reclaim
  PROVE  IInv'
<1> USE DEF IInv, table, threads, owner
<1>1. \A t \in Thread : pc'[t] = "idle" /\ pc[t] = "idle" /\ j'[t] = j[t]
  BY DEF Clear, ReclaimBegin, Reclaim, ReclaimOuter, ReclaimInner, ReclaimEnd, Quiet, CallInv
<1>2. CallInv' /\ PassedInv'
  BY <1>1 DEF CallInv, PassedInv
<1>3. TypeOK'
  <2>1. CASE Clear \/ ReclaimBegin \/ ReclaimEnd
    BY <2>1 DEF Clear, ReclaimBegin, ReclaimEnd, TypeOK
  <2>2. CASE ReclaimOuter
    <3>1. i \in Slot /\ Wrap(i + 1) \in Slot
      BY <2>2, WrapType DEF ReclaimOuter
    <3>2. CASE Dead(i)
      BY <2>2, <3>1, <3>2 DEF ReclaimOuter, TypeOK
    <3>3. CASE ~Dead(i)
      BY <2>2, <3>1, <3>3 DEF ReclaimOuter, TypeOK
    <3>4. QED
      BY <3>2, <3>3
  <2>3. CASE ReclaimInner
    <3>1. CASE ScanOn
      <4>1. i' \in 0 .. NSlots /\ ii' \in Slot /\ rc' = rc
        BY <3>1, WrapType DEF ScanOn, Greater, TypeOK
      <4>2. CASE keys' = [keys EXCEPT ![ii] = nullkey] /\ UNCHANGED values
        BY <2>3, <4>1, <4>2 DEF ReclaimInner, TypeOK
      <4>3. CASE UNCHANGED <<keys, values>>
        BY <2>3, <4>1, <4>3 DEF ReclaimInner, TypeOK
      <4>4. CASE /\ keys[ii] # nullkey
                 /\ LET out == [keys EXCEPT ![ii] = nullkey]
                        s   == Probe(out, keys[ii])
                    IN  /\ keys' = [out EXCEPT ![s] = keys[ii]]
                        /\ values' = [[values EXCEPT ![ii] = nullidx] EXCEPT ![s] = values[ii]]
        <5> DEFINE out == [keys EXCEPT ![ii] = nullkey]
                   s == Probe(out, keys[ii])
        <5>1. out \in [Slot -> Key \cup {nullkey}] /\ out[ii] = nullkey /\ keys[ii] \in Key
          BY <4>4 DEF TypeOK
        <5>2. s \in Slot
          BY <5>1, ProbeType DEF TypeOK
        <5>3. keys' = [out EXCEPT ![s] = keys[ii]]
          BY <4>4
        <5>4. values' = [[values EXCEPT ![ii] = nullidx] EXCEPT ![s] = values[ii]]
          BY <4>4
        <5> HIDE DEF s
        <5>5. keys' \in [Slot -> Key \cup {nullkey}]
          BY <5>1, <5>3
        <5>6. values' \in [Slot -> Value \cup {nullidx}]
          BY <5>4 DEF TypeOK
        <5>7. QED
          BY <2>3, <4>1, <5>5, <5>6 DEF ReclaimInner, TypeOK
      <4>5. QED
        BY <2>3, <4>2, <4>3, <4>4 DEF ReclaimInner, Dead, ScanOn
    <3>2. CASE ~ScanOn
      BY <2>3, <3>2 DEF ReclaimInner, TypeOK
    <3>3. QED
      BY <3>1, <3>2
  <2>4. QED
    BY <2>1, <2>2, <2>3 DEF Reclaim
<1>4. QED
  BY <1>2, <1>3

LEMMA StepInv == IInv /\ [Next]_vars => IInv'
<1> SUFFICES ASSUME IInv, [Next]_vars PROVE IInv'
  OBVIOUS
<1>1. CASE Next
  BY <1>1, CallingInv, OwnerInv DEF Next
<1>2. CASE UNCHANGED vars
  BY <1>2 DEF vars, table, threads, owner, IInv, TypeOK, CallInv, PassedInv, Setting
<1>3. QED
  BY <1>1, <1>2

(* The calls know what they have passed in every state. *)
THEOREM TableInvariant == Spec => []IInv
<1>1. QED
  BY InitInv, StepInv, PTL DEF Spec

(* The variables keep their types: no probe leaves the table, no set passes
   more slots than there are. *)
THEOREM TableTypeCorrect == Spec => []TypeOK
<1>1. IInv => TypeOK
  BY DEF IInv
<1>2. QED
  BY <1>1, TableInvariant, PTL

(* set() throws only when every slot is claimed by some other key, whatever
   other threads claim while it probes. *)
THEOREM ThrowMeansFull == Spec => ThrowsOnlyWhenFull
<1>1. ASSUME IInv, Next, NEW t \in Thread, ret[t] = Pending, ret'[t] = Full
      PROVE  \A s \in Slot : keys[s] \notin {nullkey, op[t].key}
  <2>1. SetFull(t)
    <3>1. SUFFICES ASSUME NEW u \in Thread, Call(u) \/ Step(u) PROVE SetFull(t)
      BY <1>1 DEF Next, Clear, ReclaimBegin, Reclaim, ReclaimOuter, ReclaimInner, ReclaimEnd, threads
    <3>2. u = t
      BY <1>1, <3>1 DEF Call, Step, SetFull, SetLoad, SetClaim, SetExchange, GetLoad, GetValue,
                        Return, Answer, IInv, TypeOK
    <3>3. ~(Call(t) \/ SetLoad(t) \/ SetClaim(t) \/ Return(t))
      BY <1>1 DEF Call, SetLoad, SetClaim, Return, IInv, TypeOK
    <3>4. ~(SetExchange(t) \/ GetLoad(t) \/ GetValue(t))
      BY <1>1 DEF SetExchange, GetLoad, GetValue, Answer, IInv, TypeOK
    <3>5. QED
      BY <3>1, <3>2, <3>3, <3>4 DEF Step
  <2>2. op[t].key \in Key /\ j[t] = NSlots /\ pc[t] = "load" /\ Setting(t)
    BY <1>1, <2>1 DEF SetFull, At, IInv, TypeOK, CallInv, Ops
  <2>3. TAKE s \in Slot
  <2>4. PICK d \in Slot : Wrap(Home[op[t].key] + d) = s
    BY <2>2, WrapCovers
  <2>5. QED
    BY <1>1, <2>2, <2>4 DEF IInv, PassedInv
<1>2. IInv /\ [Next]_vars =>
        [\A t \in Thread : ret[t] = Pending /\ ret'[t] = Full =>
           \A s \in Slot : keys[s] \notin {nullkey, op[t].key}]_vars
  BY <1>1
<1>3. QED
  BY <1>2, TableInvariant, PTL DEF Spec, ThrowsOnlyWhenFull

-----------------------------------------------------------------------------
(* How far slot b is ahead of slot a, around the end of the table. *)
Dist(a, b) == IF a <= b THEN b - a ELSE b + NSlots - a

(* While reclaim scans, a free slot may lie between a key and its home: then
   every slot from the scan to the key is claimed, so the scan will meet it. *)
GapInv ==
  \A s, r \in Slot :
    /\ keys[s] # nullkey /\ keys[r] = nullkey
    /\ Dist(Home[keys[s]], r) < Dist(Home[keys[s]], s)
    => /\ rc = "inner"
       /\ \A q \in Slot : Dist(ii, q) <= Dist(ii, s) => keys[q] # nullkey

(* A free slot holds no value. *)
FreeIsEmpty == \A s \in Slot : keys[s] = nullkey => values[s] = nullidx

(* What reclaim has behind it: the slots up to i, the scan ahead by at most
   one or around the end. *)
ReclaimInv ==
  /\ rc = "outer" => \A s \in Slot : s < i => ~Dead(s)
  /\ rc = "inner" => i \in Slot /\ ii <= i + 1 /\ \A s \in Slot : s <= i => ~Dead(s)

(* A call that found its slot keeps it; a get has passed other keys only. *)
AnswerInv ==
  \A t \in Thread :
    /\ pc[t] = "idle" => op[t] = NoOp
    /\ pc[t] = "done" <=> ret[t] # Pending
    /\ pc[t] \in {"exchange", "value"} => keys[k[t]] = op[t].key
    /\ pc[t] = "value" => op[t].kind = "get"
    /\ pc[t] = "load" /\ Getting(t) =>
         \A r \in Slot : Dist(Home[op[t].key], r) < Dist(Home[op[t].key], k[t])
                           => keys[r] \notin {nullkey, op[t].key}

SlotsInv == OneSlotPerKey /\ GapInv /\ FreeIsEmpty

TableInv == SlotsInv /\ ReclaimInv /\ AnswerInv

LEMMA DistType ==
  ASSUME NEW a \in Slot, NEW b \in Slot
  PROVE  Dist(a, b) \in Slot /\ Wrap(a + Dist(a, b)) = b
<1>1. /\ Dist(a, b) \in Slot /\ a + Dist(a, b) \in 0 .. 2 * NSlots - 1
      /\ a + Dist(a, b) = (IF a <= b THEN b ELSE b + NSlots)
  BY DEF Dist
<1>2. QED
  BY <1>1, WrapOnce

LEMMA DistWrap ==
  ASSUME NEW a \in Slot, NEW d \in Slot
  PROVE  Wrap(a + d) \in Slot /\ Dist(a, Wrap(a + d)) = d
<1>1. a + d \in 0 .. 2 * NSlots - 1
  OBVIOUS
<1>2. Wrap(a + d) = IF a + d < NSlots THEN a + d ELSE a + d - NSlots
  BY <1>1, WrapOnce
<1>3. QED
  BY <1>2 DEF Dist

LEMMA NextSlot ==
  ASSUME NEW a \in Slot
  PROVE  Wrap(a + 1) = IF a + 1 < NSlots THEN a + 1 ELSE 0
<1>1. a + 1 \in 0 .. 2 * NSlots - 1
  OBVIOUS
<1>2. QED
  BY <1>1, WrapOnce

(* A slot other than a is one nearer from the slot after a. *)
LEMMA DistNext ==
  ASSUME NEW a \in Slot, NEW b \in Slot
  PROVE  /\ Wrap(a + 1) \in Slot
         /\ Dist(Wrap(a + 1), b) = IF b = a THEN NSlots - 1 ELSE Dist(a, b) - 1
  BY NextSlot DEF Dist

(* The slot after b is one farther from a, unless it is a. *)
LEMMA DistAdvance ==
  ASSUME NEW a \in Slot, NEW b \in Slot
  PROVE  Dist(a, Wrap(b + 1)) \in {0, Dist(a, b) + 1}
  BY NextSlot DEF Dist

(* What follows a slot r on the way from h to s is on that way too. *)
LEMMA DistPast ==
  ASSUME NEW h \in Slot, NEW r \in Slot, NEW s \in Slot, NEW q \in Slot,
         Dist(h, r) < Dist(h, s), Dist(r, q) <= Dist(r, s)
  PROVE  Dist(h, q) <= Dist(h, s) /\ Dist(h, r) <= Dist(h, q)
  BY DEF Dist

LEMMA DistSame ==
  ASSUME NEW a \in Slot, NEW b \in Slot, NEW c \in Slot
  PROVE  /\ Dist(a, a) = 0
         /\ Dist(a, b) = Dist(a, c) => b = c
  BY DEF Dist

(* The slots a probe passes are those nearer to the home. *)
LEMMA PassedIsNearer ==
  ASSUME TypeOK, NEW s \in Slot, keys[s] # nullkey, NEW r \in Slot
  PROVE  r \in Passed(s) <=> Dist(Home[keys[s]], r) < Dist(Home[keys[s]], s)
<1> DEFINE h == Home[keys[s]]
<1>1. h \in Slot
  BY DEF TypeOK
<1> HIDE DEF h
<1>2. \A d \in Slot : Wrap(h + d) = s <=> d = Dist(h, s)
  BY <1>1, DistType, DistWrap
<1>3. Dist(h, s) \in Slot /\ Dist(h, r) \in Slot
  BY <1>1, DistType
<1>4. \A e \in Slot : 0 .. e \subseteq Slot
  OBVIOUS
<1>5. \A e \in Slot : (\A c \in 0 .. e : Wrap(h + c) # s) <=> e < Dist(h, s)
  BY <1>2, <1>3, <1>4
<1>6. \A e \in Slot : Wrap(h + e) = r <=> e = Dist(h, r)
  BY <1>1, DistType, DistWrap
<1>7. r \in Passed(s) <=> \E e \in Slot : (\A c \in 0 .. e : Wrap(h + c) # s) /\ Wrap(h + e) = r
  BY DEF Passed, h
<1>8. QED
  BY <1>3, <1>5, <1>6, <1>7 DEF h

(* Where set() puts a key the table does not hold: a free slot, every slot
   on the way there being claimed. *)
LEMMA ProbeFinds ==
  ASSUME NEW ks \in [Slot -> Key \cup {nullkey}], NEW key \in Key,
         \A s \in Slot : ks[s] # key,
         NEW f \in Slot, ks[f] = nullkey
  PROVE  /\ Probe(ks, key) \in Slot
         /\ ks[Probe(ks, key)] = nullkey
         /\ \A r \in Slot : Dist(Home[key], r) < Dist(Home[key], Probe(ks, key))
                              => ks[r] # nullkey
<1> DEFINE h == Home[key]
           F == {d \in Slot : ks[Wrap(h + d)] \in {nullkey, key}}
<1>1. h \in Slot /\ Dist(h, f) \in F
  BY DistType
<1>2. Min(F) \in F /\ \A y \in F : Min(F) <= y
  <2>1. F # {} /\ F \subseteq Nat
    BY <1>1
  <2>2. QED
    BY <2>1, LeastNumber
<1>3. Probe(ks, key) = Wrap(h + Min(F))
  BY DEF Probe
<1> DEFINE m == Min(F)
<1> HIDE DEF m
<1>4. m \in Slot /\ ks[Wrap(h + m)] \in {nullkey, key} /\ \A y \in F : m <= y
  BY <1>2 DEF m
<1>5. Wrap(h + m) \in Slot /\ Dist(h, Wrap(h + m)) = m
  BY <1>1, <1>4, DistWrap
<1>6. ASSUME NEW r \in Slot, Dist(h, r) < m PROVE ks[r] # nullkey
  <2>1. Dist(h, r) \in Slot /\ Wrap(h + Dist(h, r)) = r
    BY <1>1, DistType
  <2>2. Dist(h, r) \notin F
    BY <1>4, <1>6, <2>1
  <2>3. QED
    BY <2>1, <2>2
<1>7. QED
  BY <1>3, <1>4, <1>5, <1>6 DEF m

-----------------------------------------------------------------------------
(* The calls *)

LEMMA CallIsAlone == ASSUME IInv, NEW t \in Thread, Call(t) \/ Step(t)
                     PROVE  rc = "idle" /\ UNCHANGED owner
  BY DEF IInv, CallInv, Call, Step, SetFull, SetLoad, SetClaim, SetExchange, GetLoad, GetValue,
         Return, At, owner

(* A set that finds its slot free is the only one to hold its key. *)
LEMMA ClaimIsFirst ==
  ASSUME IInv, SlotsInv, NEW t \in Thread, pc[t] = "cas", keys[k[t]] = nullkey
  PROVE  /\ k[t] \in Slot /\ op[t] \in Ops /\ op[t].key \in Key
         /\ \A r \in Slot : keys[r] # op[t].key
         /\ \A r \in Slot : Dist(Home[op[t].key], r) < Dist(Home[op[t].key], k[t])
                              => keys[r] # nullkey
<1> DEFINE key == op[t].key
           h == Home[key]
<1>1. /\ op[t] \in Ops /\ key \in Key /\ h \in Slot /\ j[t] \in Slot /\ Setting(t) /\ rc = "idle"
      /\ k[t] \in Slot
  BY NoOpAssumption DEF IInv, TypeOK, CallInv, Ops, Setting
<1>2. /\ k[t] = Wrap(h + j[t])
      /\ \A d \in 0 .. j[t] - 1 : keys[Wrap(h + d)] \notin {nullkey, key}
  BY <1>1 DEF IInv, PassedInv
<1> HIDE DEF h, key
<1>3. k[t] \in Slot /\ Dist(h, k[t]) = j[t]
  BY <1>1, <1>2, DistWrap
<1>4. ASSUME NEW r \in Slot, Dist(h, r) < Dist(h, k[t])
      PROVE  keys[r] \notin {nullkey, key}
  <2>1. Dist(h, r) \in Slot /\ Wrap(h + Dist(h, r)) = r
    BY <1>1, DistType
  <2>2. Dist(h, r) \in 0 .. j[t] - 1
    BY <1>1, <1>3, <1>4, <2>1
  <2>3. QED
    BY <1>2, <2>1, <2>2
<1>5. ASSUME NEW r \in Slot, keys[r] = key PROVE FALSE
  <2>1. key # nullkey /\ r # k[t] /\ Home[keys[r]] = h
    BY <1>1, <1>5 DEF h
  <2>2. Dist(h, r) # Dist(h, k[t]) /\ Dist(h, r) \in Slot /\ Dist(h, k[t]) \in Slot
    BY <1>1, <1>3, <2>1, DistSame, DistType
  <2>3. CASE Dist(h, r) < Dist(h, k[t])
    BY <1>4, <1>5, <2>3
  <2>4. CASE Dist(h, k[t]) < Dist(h, r)
    BY <1>1, <1>3, <1>5, <2>1, <2>4 DEF SlotsInv, GapInv
  <2>5. QED
    BY <2>2, <2>3, <2>4
<1>6. QED
  BY <1>1, <1>3, <1>4, <1>5 DEF h, key

LEMMA CallSlots ==
  ASSUME IInv, SlotsInv, AnswerInv, NEW t \in Thread, Call(t) \/ Step(t)
  PROVE  SlotsInv'
<1> USE DEF SlotsInv, OneSlotPerKey, GapInv, FreeIsEmpty
<1>1. rc = "idle" /\ rc' = rc
  BY CallIsAlone DEF owner
<1>2. CASE keys' = keys /\ values' = values
  BY <1>1, <1>2
<1>3. CASE SetExchange(t)
  <2>1. keys[k[t]] # nullkey /\ keys' = keys /\ k[t] \in Slot
    <3>1. pc[t] = "exchange" /\ keys' = keys
      BY <1>3 DEF SetExchange, At
    <3>2. keys[k[t]] = op[t].key /\ op[t] \in Ops /\ k[t] \in Slot
      BY <3>1 DEF AnswerInv, IInv, TypeOK, CallInv
    <3>3. op[t].key \in Key
      BY <3>2 DEF Ops
    <3>4. QED
      BY <3>1, <3>2, <3>3
  <2>2. FreeIsEmpty'
    BY <1>3, <2>1 DEF SetExchange, IInv, TypeOK
  <2>3. QED
    BY <1>1, <2>1, <2>2
<1>4. CASE SetClaim(t) /\ keys[k[t]] = nullkey
  <2>1. keys' = [keys EXCEPT ![k[t]] = op[t].key] /\ values' = values /\ pc[t] = "cas"
    BY <1>4 DEF SetClaim, At, IInv, CallInv, Ops
  <2>2. /\ k[t] \in Slot /\ op[t].key \in Key
        /\ \A r \in Slot : keys[r] # op[t].key
        /\ \A r \in Slot : Dist(Home[op[t].key], r) < Dist(Home[op[t].key], k[t])
                             => keys[r] # nullkey
    BY <1>4, <2>1, ClaimIsFirst
  <2>3. /\ keys \in [Slot -> Key \cup {nullkey}] /\ keys'[k[t]] = op[t].key
        /\ \A r \in Slot : r # k[t] => keys'[r] = keys[r]
    BY <2>1, <2>2 DEF IInv, TypeOK
  <2>4. OneSlotPerKey'
    BY <2>2, <2>3
  <2>5. ASSUME NEW s \in Slot, NEW r \in Slot, keys'[s] # nullkey, keys'[r] = nullkey,
               Dist(Home[keys'[s]], r) < Dist(Home[keys'[s]], s)
        PROVE  FALSE
    <3>1. r # k[t] /\ keys[r] = nullkey
      BY <2>2, <2>3, <2>5
    <3>2. CASE s = k[t]
      BY <2>2, <2>3, <2>5, <3>1, <3>2
    <3>3. CASE s # k[t]
      BY <1>1, <2>3, <2>5, <3>1, <3>3
    <3>4. QED
      BY <3>2, <3>3
  <2>6. GapInv'
    BY <2>5 DEF Dist
  <2>7. FreeIsEmpty'
    BY <2>1, <2>2, <2>3
  <2>8. QED
    BY <2>4, <2>6, <2>7
<1>5. QED
  <2>1. SetClaim(t) /\ keys[k[t]] # nullkey => keys' = keys /\ values' = values
    BY DEF SetClaim
  <2>2. Call(t) \/ SetFull(t) \/ SetLoad(t) \/ GetLoad(t) \/ GetValue(t) \/ Return(t)
          => keys' = keys /\ values' = values
    BY DEF Call, SetFull, SetLoad, GetLoad, GetValue, Return, table
  <2>3. QED
    BY <1>2, <1>3, <1>4, <2>1, <2>2 DEF Step

(* No claim disturbs the slot another call has found or passed. *)
LEMMA CallAnswers ==
  ASSUME IInv, IInv', AnswerInv, NEW t \in Thread, Call(t) \/ Step(t)
  PROVE  AnswerInv'
<1> DEFINE passed(u) ==
      pc[u] = "load" /\ Getting(u) =>
        \A r \in Slot : Dist(Home[op[u].key], r) < Dist(Home[op[u].key], k[u])
                           => keys[r] \notin {nullkey, op[u].key}
    inv(u) ==
      /\ pc[u] = "idle" => op[u] = NoOp
      /\ pc[u] = "done" <=> ret[u] # Pending
      /\ pc[u] \in {"exchange", "value"} => keys[k[u]] = op[u].key
      /\ pc[u] = "value" => op[u].kind = "get"
<1>1. \A u \in Thread : inv(u) /\ passed(u)
  BY DEF AnswerInv
<1> USE DEF table, threads, owner, At, Goto
<1>2. \A s \in Slot : keys[s] # nullkey => keys'[s] = keys[s]
  BY DEF Call, Step, SetFull, SetLoad, SetClaim, SetExchange, GetLoad, GetValue, Return, IInv, TypeOK
<1>3. \A u \in Thread \ {t} : /\ pc'[u] = pc[u] /\ op'[u] = op[u]
                              /\ k'[u] = k[u] /\ ret'[u] = ret[u]
  BY DEF Call, Step, SetFull, SetLoad, SetClaim, SetExchange, GetLoad, GetValue, Return,
         Answer, Advance, IInv, TypeOK
<1>4. \A u \in Thread : /\ k[u] \in Slot
                        /\ pc[u] # "idle" => op[u] \in Ops /\ op[u].key \in Key
  BY DEF IInv, TypeOK, CallInv, Ops
<1>5. ASSUME NEW u \in Thread, u # t PROVE inv(u)' /\ passed(u)'
  <2>1. pc'[u] = pc[u] /\ op'[u] = op[u] /\ k'[u] = k[u] /\ ret'[u] = ret[u]
    BY <1>3, <1>5
  <2>2. inv(u)'
    BY <1>1, <1>2, <1>4, <2>1
  <2>3. passed(u)'
    BY <1>1, <1>2, <2>1 DEF Getting
  <2>4. QED
    BY <2>2, <2>3
<1>6. inv(t)'
  <2>1. CASE Call(t)
    BY <1>1, <2>1, NoOpAssumption DEF Call, IInv, TypeOK
  <2>2. CASE SetFull(t)
    BY <2>2 DEF SetFull, Answer, IInv, TypeOK
  <2>3. CASE SetLoad(t)
    BY <1>1, <2>3 DEF SetLoad, IInv, TypeOK
  <2>4. CASE SetClaim(t)
    BY <1>1, <1>4, <2>4 DEF SetClaim, IInv, TypeOK
  <2>5. CASE SetExchange(t) \/ GetValue(t)
    <3>1. values[k[t]] # Pending
      BY DEF IInv, TypeOK
    <3>2. QED
      BY <2>5, <3>1 DEF SetExchange, GetValue, Answer, IInv, TypeOK
  <2>6. CASE GetLoad(t)
    BY <1>1, <2>6 DEF GetLoad, Getting, Answer, IInv, TypeOK
  <2>7. CASE Return(t)
    BY <2>7 DEF Return, IInv, TypeOK
  <2>8. QED
    BY <2>1, <2>2, <2>3, <2>4, <2>5, <2>6, <2>7 DEF Step
<1>7. passed(t)'
  <2>1. SUFFICES ASSUME pc'[t] = "load", Getting(t)', NEW r \in Slot,
                        Dist(Home[op'[t].key], r) < Dist(Home[op'[t].key], k'[t])
                 PROVE  keys'[r] \notin {nullkey, op'[t].key}
    BY DEF Dist
  <2>2. Home[op'[t].key] \in Slot
    BY <2>1 DEF Getting, IInv, TypeOK, Ops
  <2>3. CASE Call(t)
    <3>1. k'[t] = Home[op'[t].key]
      BY <2>3 DEF Call, IInv, TypeOK
    <3>2. QED
      BY <2>1, <2>2, <3>1, DistType, DistSame
  <2>4. CASE GetLoad(t)
    <3> DEFINE h == Home[op[t].key]
    <3>1. /\ op' = op /\ keys' = keys /\ Getting(t) /\ pc[t] = "load"
          /\ k'[t] = Wrap(k[t] + 1) /\ keys[k[t]] \notin {op[t].key, nullkey}
      BY <2>1, <2>4 DEF GetLoad, Advance, Answer, IInv, TypeOK
    <3>2. Dist(h, r) \in Slot /\ Dist(h, k[t]) \in Slot /\ Dist(h, k'[t]) \in {0, Dist(h, k[t]) + 1}
      BY <1>4, <2>2, <3>1, DistType, DistAdvance
    <3>3. Dist(h, r) < Dist(h, k[t]) \/ Dist(h, r) = Dist(h, k[t])
      BY <2>1, <3>1, <3>2
    <3>4. Dist(h, r) = Dist(h, k[t]) => r = k[t]
      BY <1>4, <2>2, <3>1, DistSame
    <3>5. QED
      BY <1>1, <3>1, <3>3, <3>4
  <2>5. ~(SetFull(t) \/ SetLoad(t) \/ SetClaim(t) \/ SetExchange(t) \/ GetValue(t) \/ Return(t))
    <3>1. SetLoad(t) => op[t].kind = "set" /\ op' = op
      BY DEF SetLoad, Setting
    <3>2. SetClaim(t) => op[t].kind = "set" /\ op' = op
      BY DEF SetClaim, IInv, CallInv
    <3>3. QED
      BY <2>1, <3>1, <3>2
         DEF Getting, SetFull, SetExchange, GetValue, Return, Answer, IInv, TypeOK
  <2>6. QED
    BY <2>3, <2>4, <2>5 DEF Step
<1>8. QED
  BY <1>5, <1>6, <1>7 DEF AnswerInv

-----------------------------------------------------------------------------
(* The owner *)

(* Where a scan stands once it has dealt with slot x: whatever it has freed
   so far, it will meet every key that lies behind a free slot. *)
LEMMA ScanMeets ==
  ASSUME IInv, SlotsInv, NEW x \in Slot, rc = "inner" => ii = x,
         NEW s \in Slot \ {x}, keys[s] # nullkey,
         NEW r \in Slot, keys[r] = nullkey \/ r = x,
         Dist(Home[keys[s]], r) < Dist(Home[keys[s]], s),
         NEW q \in Slot, Dist(Wrap(x + 1), q) <= Dist(Wrap(x + 1), s)
  PROVE  q # x /\ keys[q] # nullkey
<1> DEFINE h == Home[keys[s]]
<1>1. h \in Slot
  BY DEF IInv, TypeOK
<1>2. q # x /\ Dist(x, q) <= Dist(x, s)
  <2>1. Dist(x, q) \in Slot /\ Dist(x, s) \in Slot
    BY DistType
  <2>2. QED
    BY <2>1, DistNext
<1>3. CASE keys[r] = nullkey
  BY <1>2, <1>3 DEF SlotsInv, GapInv
<1>4. CASE r = x
  <2>1. Dist(h, q) <= Dist(h, s)
    BY <1>1, <1>2, <1>4, DistPast
  <2>2. q # s => Dist(h, q) < Dist(h, s)
    <3>1. Dist(h, q) \in Slot /\ Dist(h, s) \in Slot
      BY <1>1, DistType
    <3>2. QED
      BY <1>1, <2>1, <3>1, DistSame
  <2>3. SUFFICES ASSUME keys[q] = nullkey PROVE FALSE
    BY <1>2
  <2>4. rc = "inner" /\ \A p \in Slot : Dist(ii, p) <= Dist(ii, s) => keys[p] # nullkey
    BY <2>2, <2>3 DEF SlotsInv, GapInv
  <2>5. QED
    BY <1>2, <2>3, <2>4
<1>5. QED
  BY <1>3, <1>4

(* The scan takes the key of slot ii to the first free slot from its home. *)
LEMMA MoveFinds ==
  ASSUME IInv, SlotsInv, keys[ii] # nullkey
  PROVE  LET out == [keys EXCEPT ![ii] = nullkey]
             s   == Probe(out, keys[ii])
         IN  /\ ii \in Slot /\ s \in Slot /\ keys[ii] \in Key /\ out[s] = nullkey
             /\ s = ii \/ keys[s] = nullkey
             /\ \A r \in Slot : r # ii => keys[r] # keys[ii] /\ out[r] = keys[r]
             /\ \A r \in Slot : Dist(Home[keys[ii]], r) < Dist(Home[keys[ii]], s)
                                  => out[r] # nullkey
<1> DEFINE out == [keys EXCEPT ![ii] = nullkey]
           s   == Probe(out, keys[ii])
<1>1. /\ ii \in Slot /\ keys[ii] \in Key /\ out \in [Slot -> Key \cup {nullkey}]
      /\ out[ii] = nullkey /\ \A r \in Slot : r # ii => out[r] = keys[r]
  BY DEF IInv, TypeOK
<1>2. \A r \in Slot : r # ii => keys[r] # keys[ii]
  BY <1>1 DEF SlotsInv, OneSlotPerKey
<1>3. \A r \in Slot : out[r] # keys[ii]
  BY <1>1, <1>2
<1> HIDE DEF out
<1>4. /\ s \in Slot /\ out[s] = nullkey
      /\ \A r \in Slot : Dist(Home[keys[ii]], r) < Dist(Home[keys[ii]], s) => out[r] # nullkey
  BY <1>1, <1>3, ProbeFinds
<1> HIDE DEF s
<1>5. QED
  BY <1>1, <1>2, <1>4 DEF out, s

LEMMA OwnerSlots ==
  ASSUME IInv, SlotsInv, Clear \/ ReclaimBegin \/ Reclaim
  PROVE  SlotsInv'
<1> USE DEF SlotsInv, OneSlotPerKey, GapInv, FreeIsEmpty
<1>1. CASE Clear
  BY <1>1 DEF Clear
<1>2. CASE ReclaimBegin \/ ReclaimEnd
  <2>1. rc # "inner" /\ rc' # "inner" /\ keys' = keys /\ values' = values
    BY <1>2 DEF ReclaimBegin, ReclaimEnd, Quiet, table
  <2>2. QED
    BY <2>1
<1>3. ASSUME NEW x \in Slot, rc = "inner" => ii = x, rc' = "inner", ii' = Wrap(x + 1),
             keys' = [keys EXCEPT ![x] = nullkey], values' = values, Dead(x)
      PROVE  SlotsInv'
  <2>1. /\ keys \in [Slot -> Key \cup {nullkey}]
        /\ keys'[x] = nullkey /\ \A r \in Slot \ {x} : keys'[r] = keys[r]
    BY <1>3 DEF IInv, TypeOK
  <2>2. OneSlotPerKey'
    BY <2>1
  <2>3. FreeIsEmpty'
    BY <1>3, <2>1 DEF Dead
  <2>4. ASSUME NEW s \in Slot, NEW r \in Slot, keys'[s] # nullkey, keys'[r] = nullkey,
               Dist(Home[keys'[s]], r) < Dist(Home[keys'[s]], s),
               NEW q \in Slot, Dist(ii', q) <= Dist(ii', s)
        PROVE  keys'[q] # nullkey
    <3>1. s # x /\ keys'[s] = keys[s] /\ (keys[r] = nullkey \/ r = x)
      BY <2>1, <2>4
    <3>2. q # x /\ keys[q] # nullkey
      BY <1>3, <2>4, <3>1, ScanMeets
    <3>3. QED
      BY <2>1, <3>2
  <2>5. QED
    BY <1>3, <2>2, <2>3, <2>4 DEF Dist
<1>4. CASE ReclaimOuter
  <2>1. CASE Dead(i)
    BY <1>3, <1>4, <2>1 DEF ReclaimOuter
  <2>2. CASE ~Dead(i)
    BY <1>4, <2>2 DEF ReclaimOuter
  <2>3. QED
    BY <2>1, <2>2
<1>5. CASE ReclaimInner
  <2>1. rc = "inner" /\ ii \in Slot
    BY <1>5 DEF ReclaimInner, IInv, TypeOK
  <2>2. CASE keys[ii] = nullkey
    <3>1. rc' = "outer" /\ keys' = keys /\ values' = values /\ ii' = ii
      BY <1>5, <2>2 DEF ReclaimInner, Dead, table
    <3>2. \A s \in Slot : Dist(ii, ii) <= Dist(ii, s)
      <4>1. \A s \in Slot : Dist(ii, s) \in Slot /\ Dist(ii, ii) = 0
        BY <2>1, DistType, DistSame
      <4>2. QED
        BY <4>1
    <3>3. QED
      BY <2>1, <2>2, <3>1, <3>2
  <2>3. CASE Dead(ii)
    BY <1>3, <1>5, <2>1, <2>3 DEF ReclaimInner, ScanOn, Dead
  <2>4. CASE keys[ii] # nullkey /\ ~Dead(ii) /\ Home[keys[ii]] = ii
    <3>1. rc' = "inner" /\ keys' = keys /\ values' = values /\ ii' = Wrap(ii + 1)
      BY <1>5, <2>1, <2>4 DEF ReclaimInner, ScanOn, table
    <3>2. ASSUME NEW s \in Slot, NEW r \in Slot, keys[s] # nullkey, keys[r] = nullkey,
                 Dist(Home[keys[s]], r) < Dist(Home[keys[s]], s),
                 NEW q \in Slot, Dist(ii', q) <= Dist(ii', s)
          PROVE  keys[q] # nullkey
      <4>1. s # ii
        <5>1. Dist(ii, ii) = 0 /\ Dist(ii, r) \in Slot
          BY <2>1, DistSame, DistType
        <5>2. QED
          BY <2>4, <3>2, <5>1
      <4>2. QED
        BY <2>1, <3>1, <3>2, <4>1, ScanMeets
    <3>3. QED
      BY <3>1, <3>2
  <2>5. CASE keys[ii] # nullkey /\ ~Dead(ii) /\ Home[keys[ii]] # ii
    <3> DEFINE out == [keys EXCEPT ![ii] = nullkey]
               t   == Probe(out, keys[ii])
    <3>1. /\ t \in Slot /\ keys[ii] \in Key /\ out[t] = nullkey /\ (t = ii \/ keys[t] = nullkey)
          /\ \A r \in Slot : r # ii => keys[r] # keys[ii] /\ out[r] = keys[r]
          /\ \A r \in Slot : Dist(Home[keys[ii]], r) < Dist(Home[keys[ii]], t) => out[r] # nullkey
      BY <2>5, MoveFinds
    <3>2. /\ keys' = [out EXCEPT ![t] = keys[ii]]
          /\ values' = [[values EXCEPT ![ii] = nullidx] EXCEPT ![t] = values[ii]]
          /\ rc' = "inner" /\ ii' = Wrap(ii + 1)
      BY <1>5, <2>1, <2>5 DEF ReclaimInner, ScanOn
    <3>3. out \in [Slot -> Key \cup {nullkey}] /\ out[ii] = nullkey
      BY <2>1 DEF IInv, TypeOK
    <3> HIDE DEF out, t
    <3>4. keys'[t] = keys[ii] /\ \A r \in Slot : r # t => keys'[r] = out[r]
      BY <3>1, <3>2, <3>3
    <3>5. \A r \in Slot : r # t => values'[r] = IF r = ii THEN nullidx ELSE values[r]
      BY <2>1, <3>1, <3>2 DEF IInv, TypeOK
    <3>6. OneSlotPerKey'
      BY <2>1, <3>1, <3>3, <3>4
    <3>7. FreeIsEmpty'
      BY <2>5, <3>1, <3>3, <3>4, <3>5
    <3>8. ASSUME NEW s \in Slot, NEW r \in Slot, keys'[s] # nullkey, keys'[r] = nullkey,
                 Dist(Home[keys'[s]], r) < Dist(Home[keys'[s]], s),
                 NEW q \in Slot, Dist(ii', q) <= Dist(ii', s)
          PROVE  keys'[q] # nullkey
      <4>1. r # t /\ out[r] = nullkey
        BY <2>5, <3>1, <3>4, <3>8
      <4>2. s # t
        BY <3>1, <3>4, <3>8, <4>1
      <4>3. s # ii /\ keys'[s] = keys[s] /\ (keys[r] = nullkey \/ r = ii)
        BY <3>1, <3>3, <3>4, <3>8, <4>1, <4>2
      <4>4. q # ii /\ keys[q] # nullkey
        BY <2>1, <3>2, <3>8, <4>3, ScanMeets
      <4>5. QED
        BY <2>5, <3>1, <3>4, <4>4
    <3>9. QED
      BY <3>2, <3>6, <3>7, <3>8 DEF Dist
  <2>6. QED
    BY <2>2, <2>3, <2>4, <2>5
<1>6. QED
  BY <1>1, <1>2, <1>4, <1>5 DEF Reclaim

LEMMA OwnerReclaims ==
  ASSUME IInv, SlotsInv, ReclaimInv, Clear \/ ReclaimBegin \/ Reclaim
  PROVE  ReclaimInv'
<1>1. CASE Clear \/ ReclaimBegin
  <2>1. rc' # "inner" /\ (rc' = "outer" => i' = 0)
    BY <1>1 DEF Clear, ReclaimBegin, Quiet, owner
  <2>2. QED
    BY <2>1 DEF ReclaimInv
<1>2. CASE ReclaimEnd
  BY <1>2 DEF ReclaimEnd, ReclaimInv
<1>3. CASE ReclaimOuter
  <2>1. /\ i \in Slot /\ values' = values /\ \A s \in Slot : s < i => ~Dead(s)
        /\ keys \in [Slot -> Key \cup {nullkey}]
    BY <1>3 DEF ReclaimOuter, ReclaimInv, IInv, TypeOK
  <2>2. CASE Dead(i)
    <3>1. rc' = "inner" /\ i' = i /\ ii' = Wrap(i + 1) /\ keys' = [keys EXCEPT ![i] = nullkey]
      BY <1>3, <2>2 DEF ReclaimOuter
    <3>2. Wrap(i + 1) <= i + 1
      BY <2>1, NextSlot
    <3>3. \A s \in Slot : s <= i => ~Dead(s)'
      BY <2>1, <3>1 DEF Dead
    <3>4. QED
      BY <2>1, <3>1, <3>2, <3>3 DEF ReclaimInv
  <2>3. CASE ~Dead(i)
    <3>1. rc' = "outer" /\ i' = i + 1 /\ keys' = keys
      BY <1>3, <2>3 DEF ReclaimOuter
    <3>2. QED
      BY <2>1, <2>3, <3>1 DEF ReclaimInv, Dead
  <2>4. QED
    BY <2>2, <2>3
<1>4. CASE ReclaimInner
  <2>1. /\ rc = "inner" /\ i \in Slot /\ ii \in Slot /\ ii <= i + 1
        /\ \A s \in Slot : s <= i => ~Dead(s)
        /\ keys \in [Slot -> Key \cup {nullkey}] /\ values \in [Slot -> Value \cup {nullidx}]
    BY <1>4 DEF ReclaimInner, ReclaimInv, IInv, TypeOK
  <2>2. CASE keys[ii] = nullkey
    <3>1. rc' = "outer" /\ keys' = keys /\ values' = values /\ i' = i
      BY <1>4, <2>2 DEF ReclaimInner, Dead, table
    <3>2. QED
      BY <2>1, <3>1 DEF ReclaimInv, Dead
  <2>3. ASSUME ScanOn, \A s \in Slot : s = ii \/ ~Dead(s) => ~Dead(s)'
        PROVE  ReclaimInv'
    <3>1. rc' = "inner" /\ i' = (IF i > ii THEN i ELSE ii) /\ ii' = Wrap(ii + 1)
      BY <2>1, <2>3 DEF ScanOn, Greater
    <3>2. i' \in Slot /\ ii' <= i' + 1
      BY <2>1, <3>1, NextSlot
    <3>3. ASSUME NEW s \in Slot, s <= i' PROVE ~Dead(s)'
      <4>1. s <= i \/ s = ii
        BY <2>1, <3>1, <3>3
      <4>2. QED
        BY <2>1, <2>3, <4>1
    <3>4. QED
      BY <3>1, <3>2, <3>3 DEF ReclaimInv
  <2>4. CASE Dead(ii)
    <3>1. ScanOn /\ keys' = [keys EXCEPT ![ii] = nullkey] /\ values' = values
      BY <1>4, <2>4 DEF ReclaimInner, Dead
    <3>2. \A s \in Slot : s = ii \/ ~Dead(s) => ~Dead(s)'
      BY <2>1, <3>1 DEF Dead
    <3>3. QED
      BY <2>3, <3>1, <3>2
  <2>5. CASE keys[ii] # nullkey /\ ~Dead(ii) /\ Home[keys[ii]] = ii
    <3>1. ScanOn /\ keys' = keys /\ values' = values
      BY <1>4, <2>5 DEF ReclaimInner, table
    <3>2. \A s \in Slot : s = ii \/ ~Dead(s) => ~Dead(s)'
      BY <2>5, <3>1 DEF Dead
    <3>3. QED
      BY <2>3, <3>1, <3>2
  <2>6. CASE keys[ii] # nullkey /\ ~Dead(ii) /\ Home[keys[ii]] # ii
    <3> DEFINE out == [keys EXCEPT ![ii] = nullkey]
               t   == Probe(out, keys[ii])
    <3>1. t \in Slot
      BY <2>6, MoveFinds
    <3>2. /\ keys' = [out EXCEPT ![t] = keys[ii]]
          /\ values' = [[values EXCEPT ![ii] = nullidx] EXCEPT ![t] = values[ii]]
          /\ ScanOn
      BY <1>4, <2>6 DEF ReclaimInner
    <3> HIDE DEF t
    <3>3. \A s \in Slot : s = ii \/ ~Dead(s) => ~Dead(s)'
      BY <2>1, <2>6, <3>1, <3>2 DEF Dead
    <3>4. QED
      BY <2>3, <3>2, <3>3
  <2>7. QED
    BY <2>2, <2>4, <2>5, <2>6
<1>5. QED
  BY <1>1, <1>2, <1>3, <1>4 DEF Reclaim

LEMMA TInit == Init => TableInv
<1> SUFFICES ASSUME Init PROVE TableInv
  OBVIOUS
<1>1. SlotsInv /\ ReclaimInv
  BY DEF Init, SlotsInv, OneSlotPerKey, GapInv, FreeIsEmpty, ReclaimInv
<1>2. AnswerInv
  BY DEF Init, AnswerInv
<1>3. QED
  BY <1>1, <1>2 DEF TableInv

LEMMA TStep == IInv /\ IInv' /\ TableInv /\ [Next]_vars => TableInv'
<1> SUFFICES ASSUME IInv, IInv', TableInv, [Next]_vars PROVE TableInv'
  OBVIOUS
<1> USE DEF TableInv
<1>1. CASE UNCHANGED vars
  BY <1>1 DEF vars, table, threads, owner, SlotsInv, OneSlotPerKey, GapInv, FreeIsEmpty,
              ReclaimInv, Dead, AnswerInv, Getting
<1>2. ASSUME NEW t \in Thread, Call(t) \/ Step(t) PROVE TableInv'
  <2>1. ReclaimInv'
    BY <1>2, CallIsAlone DEF owner, ReclaimInv
  <2>2. QED
    BY <1>2, <2>1, CallSlots, CallAnswers
<1>3. CASE Clear \/ ReclaimBegin \/ Reclaim
  <2>1. (\A t \in Thread : pc[t] = "idle") /\ UNCHANGED threads
    BY <1>3 DEF Clear, ReclaimBegin, Reclaim, ReclaimOuter, ReclaimInner, ReclaimEnd, Quiet,
                IInv, CallInv
  <2>2. AnswerInv'
    BY <2>1 DEF threads, AnswerInv
  <2>3. QED
    BY <1>3, <2>2, OwnerSlots, OwnerReclaims
<1>4. QED
  BY <1>1, <1>2, <1>3 DEF Next

LEMMA TableSound == Spec => [](IInv /\ TableInv)
<1>1. Init => IInv /\ TableInv
  BY InitInv, TInit
<1>2. IInv /\ TableInv /\ [Next]_vars => (IInv /\ TableInv)'
  BY StepInv, TStep
<1>3. QED
  BY <1>1, <1>2, PTL DEF Spec

(* No key ever owns two slots, however many threads set it at once and
   whatever reclaim moves. *)
THEOREM KeysAreUnique == Spec => []OneSlotPerKey
<1>1. TableInv => OneSlotPerKey
  BY DEF TableInv, SlotsInv
<1>2. QED
  BY <1>1, TableSound, PTL

(* Outside a reclaim no free slot lies between a key's home and its slot:
   get, which stops at a free slot, never misses a key. *)
THEOREM KeysAreReachable == Spec => []NoGapBeforeKey
<1>1. ASSUME IInv, TableInv PROVE NoGapBeforeKey
  <2>1. SUFFICES ASSUME rc = "idle", NEW s \in Slot, keys[s] # nullkey, NEW r \in Passed(s)
                 PROVE  keys[r] # nullkey
    BY DEF NoGapBeforeKey
  <2>2. r \in Slot
    <3>1. \A d \in Slot : Wrap(Home[keys[s]] + d) \in Slot
      BY <1>1, <2>1, DistWrap DEF IInv, TypeOK
    <3>2. QED
      BY <2>1, <3>1 DEF Passed
  <2>3. Dist(Home[keys[s]], r) < Dist(Home[keys[s]], s)
    BY <1>1, <2>1, <2>2, PassedIsNearer DEF IInv
  <2>4. QED
    BY <1>1, <2>1, <2>2, <2>3 DEF TableInv, SlotsInv, GapInv
<1>2. QED
  BY <1>1, TableSound, PTL

(* When reclaim ends no tombstone is left anywhere in the table. *)
THEOREM ReclaimLeavesNoTombstone == Spec => ReclaimIsComplete
<1>1. ASSUME IInv, TableInv, [Next]_vars, rc # "idle", rc' = "idle"
      PROVE  \A s \in Slot : ~Dead(s)
  <2>1. ReclaimEnd
    <3>1. \A t \in Thread : pc[t] = "idle"
      BY <1>1 DEF IInv, CallInv
    <3>2. ~UNCHANGED vars /\ rc # rc'
      BY <1>1 DEF vars, owner
    <3>3. QED
      BY <1>1, <3>2, CallIsAlone DEF Next, owner, Clear, ReclaimBegin, Reclaim, Quiet,
         ReclaimOuter, ReclaimInner, ScanOn
  <2>2. rc = "outer" /\ i \notin Slot /\ i \in 0 .. NSlots
    BY <1>1, <2>1 DEF ReclaimEnd, IInv, TypeOK
  <2>3. \A s \in Slot : s < i
    BY <2>2
  <2>4. QED
    BY <1>1, <2>2, <2>3 DEF TableInv, ReclaimInv
<1>2. IInv /\ TableInv /\ [Next]_vars =>
        [rc # "idle" /\ rc' = "idle" => \A s \in Slot : ~Dead(s)]_vars
  BY <1>1
<1>3. QED
  BY <1>2, TableSound, PTL DEF Spec, ReclaimIsComplete

-----------------------------------------------------------------------------
(* The table implements the atomic map *)

(* What the table answers for a key is the value of its slot. *)
LEMMA ContentsOf ==
  ASSUME SlotsInv, NEW key \in Key
  PROVE  /\ \A s \in Slot : keys[s] = key => Contents[key] = values[s]
         /\ (\A s \in Slot : keys[s] # key) => Contents[key] = nullidx
<1>1. ASSUME NEW s \in Slot, keys[s] = key PROVE Contents[key] = values[s]
  <2>1. SlotOf(key) \in Slot /\ keys[SlotOf(key)] = key
    BY <1>1 DEF SlotOf
  <2>2. key # nullkey
    OBVIOUS
  <2>3. SlotOf(key) = s
    BY <1>1, <2>1, <2>2 DEF SlotsInv, OneSlotPerKey
  <2>4. QED
    BY <1>1, <2>3 DEF Contents
<1>2. QED
  BY <1>1 DEF Contents

Reads ==
  \A key \in Key : /\ \A s \in Slot : keys[s] = key => Contents[key] = values[s]
                   /\ (\A s \in Slot : keys[s] # key) => Contents[key] = nullidx

LEMMA ReadsPrime == SlotsInv' => Reads'
<1>1. SlotsInv => Reads
  BY ContentsOf DEF Reads
<1>2. QED
  BY <1>1, PTL

LEMMA ContentsPrime ==
  ASSUME SlotsInv', NEW key \in Key
  PROVE  /\ \A s \in Slot : keys'[s] = key => Contents'[key] = values'[s]
         /\ (\A s \in Slot : keys'[s] # key) => Contents'[key] = nullidx
  BY ReadsPrime DEF Reads

LEMMA ContentsEqual ==
  ASSUME \A key \in Key : Contents'[key] = Contents[key]
  PROVE  Contents' = Contents
<1>1. /\ Contents = [key \in Key |-> Contents[key]]
      /\ Contents' = [key \in Key |-> Contents'[key]]
  BY DEF Contents
<1>2. QED
  BY <1>1

(* A slot that is claimed, or freed, while it holds no value changes nothing. *)
LEMMA EmptySlot ==
  ASSUME SlotsInv, SlotsInv', NEW x \in Slot, values[x] = nullidx, values' = values,
         \A s \in Slot : s # x => keys'[s] = keys[s],
         keys[x] = nullkey \/ keys'[x] = nullkey
  PROVE  Contents' = Contents
<1>1. ASSUME NEW key \in Key PROVE Contents'[key] = Contents[key]
  <2>1. key # nullkey
    OBVIOUS
  <2>2. CASE \E s \in Slot : s # x /\ keys[s] = key
    BY <2>2, ContentsOf, ContentsPrime
  <2>3. CASE \A s \in Slot : s # x => keys[s] # key
    <3>1. Contents[key] = nullidx
      BY <2>3, ContentsOf
    <3>2. Contents'[key] = nullidx
      BY <2>3, ContentsPrime
    <3>3. QED
      BY <3>1, <3>2
  <2>4. QED
    BY <2>2, <2>3
<1>2. QED
  BY <1>1, ContentsEqual

(* A set that answers has replaced the value of its key, and no other. *)
LEMMA ExchangeSets ==
  ASSUME IInv, TableInv, SlotsInv', NEW t \in Thread, SetExchange(t)
  PROVE  Map!Set(t)
<1> DEFINE key == op[t].key
<1>1. /\ pc[t] = "exchange" /\ op[t] \in Ops /\ op[t].kind = "set" /\ key \in Key /\ k[t] \in Slot
      /\ keys[k[t]] = key /\ ret[t] = Pending /\ op[t] # NoOp
  <2>1. pc[t] = "exchange"
    BY DEF SetExchange, At
  <2>2. op[t] \in Ops /\ op[t].kind = "set" /\ k[t] \in Slot
    BY <2>1 DEF IInv, TypeOK, CallInv
  <2>3. keys[k[t]] = key /\ ret[t] = Pending
    BY <2>1 DEF TableInv, AnswerInv
  <2>4. QED
    BY <2>1, <2>2, <2>3, NoOpAssumption DEF Ops
<1>2. /\ keys' = keys /\ op' = op /\ values' = [values EXCEPT ![k[t]] = op[t].value]
      /\ ret' = [ret EXCEPT ![t] = values[k[t]]] /\ values \in [Slot -> Value \cup {nullidx}]
  BY DEF SetExchange, Answer, IInv, TypeOK
<1>3. Contents[key] = values[k[t]] /\ Contents'[key] = op[t].value
  BY <1>1, <1>2, ContentsOf, ContentsPrime DEF TableInv
<1>4. ASSUME NEW other \in Key, other # key PROVE Contents'[other] = Contents[other]
  <2>1. CASE \E s \in Slot : keys[s] = other
    <3>1. PICK s \in Slot : keys[s] = other
      BY <2>1
    <3>2. s # k[t]
      BY <1>1, <1>4, <3>1
    <3>3. Contents[other] = values[s] /\ Contents'[other] = values'[s]
      BY <1>2, <3>1, ContentsOf, ContentsPrime DEF TableInv
    <3>4. QED
      BY <1>2, <3>2, <3>3
  <2>2. CASE \A s \in Slot : keys[s] # other
    BY <1>2, <2>2, ContentsOf, ContentsPrime DEF TableInv
  <2>3. QED
    BY <2>1, <2>2
<1>5. Contents' = [Contents EXCEPT ![key] = op[t].value]
  <2>1. /\ Contents = [q \in Key |-> Contents[q]]
        /\ Contents' = [q \in Key |-> Contents'[q]]
    BY DEF Contents
  <2>2. QED
    BY <1>1, <1>3, <1>4, <2>1
<1>6. QED
  BY <1>1, <1>2, <1>3, <1>5 DEF Map!Set, Map!Active

(* A get that meets a free slot has looked wherever its key could be. *)
LEMMA MissIsAbsent ==
  ASSUME IInv, TableInv, NEW t \in Thread, pc[t] = "load", Getting(t), keys[k[t]] = nullkey
  PROVE  \A s \in Slot : keys[s] # op[t].key
<1> DEFINE key == op[t].key
           h == Home[key]
<1>1. op[t] \in Ops /\ key \in Key /\ h \in Slot /\ k[t] \in Slot /\ rc = "idle" /\ key # nullkey
  BY DEF IInv, TypeOK, CallInv, Ops
<1>2. \A r \in Slot : Dist(h, r) < Dist(h, k[t]) => keys[r] \notin {nullkey, key}
  BY DEF TableInv, AnswerInv
<1> SUFFICES ASSUME NEW s \in Slot, keys[s] = key PROVE FALSE
  OBVIOUS
<1>3. s # k[t] /\ ~(Dist(h, s) < Dist(h, k[t]))
  BY <1>1, <1>2
<1>4. Dist(h, k[t]) < Dist(h, s)
  <2>1. Dist(h, s) # Dist(h, k[t]) /\ Dist(h, s) \in Slot /\ Dist(h, k[t]) \in Slot
    BY <1>1, <1>3, DistSame, DistType
  <2> HIDE DEF h
  <2>2. QED
    BY <1>3, <2>1
<1>5. QED
  BY <1>1, <1>4 DEF TableInv, SlotsInv, GapInv

LEMMA CallRefines ==
  ASSUME IInv, TableInv, IInv', TableInv', NEW t \in Thread, Call(t) \/ Step(t)
  PROVE  [Map!Next]_(Map!vars)
<1>1. SlotsInv /\ SlotsInv'
  BY DEF TableInv
<1>2. keys' = keys /\ values' = values => Contents' = Contents
  BY <1>1, ContentsOf, ContentsPrime, ContentsEqual
<1> USE DEF table, threads, At, Goto
<1>3. pc[t] # "idle" => op[t] \in Ops /\ op[t] # NoOp /\ op[t].key \in Key
  BY NoOpAssumption DEF IInv, TypeOK, CallInv, Ops
<1>4. CASE Call(t)
  <2>1. op[t] = NoOp /\ ret' = ret /\ Contents' = Contents
    BY <1>2, <1>4 DEF Call, TableInv, AnswerInv
  <2>2. Map!Call(t)
    BY <1>4, <2>1 DEF Call, Map!Call, Map!Ops, Ops
  <2>3. QED
    BY <2>2 DEF Map!Next
<1>5. CASE SetFull(t)
  <2>1. ret[t] = Pending /\ op[t] # NoOp /\ op[t].kind = "set" /\ Contents' = Contents
    BY <1>2, <1>5 DEF SetFull, Setting, TableInv, AnswerInv
  <2>2. Map!Fail(t)
    BY <1>5, <2>1 DEF SetFull, Answer, Map!Fail, Map!Active
  <2>3. QED
    BY <2>2 DEF Map!Next
<1>6. CASE SetLoad(t)
  BY <1>2, <1>6 DEF SetLoad, Map!vars
<1>7. CASE SetClaim(t)
  <2>1. keys[k[t]] # nullkey => keys' = keys
    BY <1>7 DEF SetClaim
  <2>2. keys[k[t]] = nullkey => keys' = [keys EXCEPT ![k[t]] = op[t].key]
    BY <1>7 DEF SetClaim, IInv, CallInv, Ops
  <2>3. keys[k[t]] = nullkey => Contents' = Contents
    <3>1. SUFFICES ASSUME keys[k[t]] = nullkey PROVE Contents' = Contents
      OBVIOUS
    <3>2. k[t] \in Slot /\ values' = values /\ values[k[t]] = nullidx
      BY <1>1, <1>7, <3>1 DEF SetClaim, IInv, TypeOK, SlotsInv, FreeIsEmpty
    <3>3. \A s \in Slot : s # k[t] => keys'[s] = keys[s]
      BY <2>2, <3>1 DEF IInv, TypeOK
    <3>4. QED
      BY <1>1, <3>1, <3>2, <3>3, EmptySlot
  <2>4. QED
    BY <1>2, <1>7, <2>1, <2>3 DEF SetClaim, Map!vars
<1>8. CASE SetExchange(t)
  BY <1>1, <1>8, ExchangeSets DEF Map!Next
<1>9. CASE GetLoad(t)
  <2>1. CASE keys[k[t]] = nullkey
    <3>1. ret' = [ret EXCEPT ![t] = nullidx] /\ op' = op /\ Contents' = Contents
      BY <1>2, <1>3, <1>9, <2>1 DEF GetLoad, Answer
    <3>2. Contents[op[t].key] = nullidx /\ ret[t] = Pending
      BY <1>1, <1>3, <1>9, <2>1, MissIsAbsent, ContentsOf DEF GetLoad, TableInv, AnswerInv
    <3>3. Map!Get(t)
      BY <1>9, <3>1, <3>2 DEF GetLoad, Getting, Map!Get, Map!Active
    <3>4. QED
      BY <3>3 DEF Map!Next
  <2>2. CASE keys[k[t]] # nullkey
    BY <1>2, <1>9, <2>2 DEF GetLoad, Map!vars
  <2>3. QED
    BY <2>1, <2>2
<1>10. CASE GetValue(t)
  <2>1. ret' = [ret EXCEPT ![t] = values[k[t]]] /\ op' = op /\ Contents' = Contents /\ pc[t] = "value"
    BY <1>2, <1>10 DEF GetValue, Answer
  <2>2. /\ keys[k[t]] = op[t].key /\ op[t].kind = "get" /\ ret[t] = Pending /\ k[t] \in Slot
    BY <2>1 DEF TableInv, AnswerInv, IInv, TypeOK
  <2>3. Contents[op[t].key] = values[k[t]]
    BY <1>1, <1>3, <2>1, <2>2, ContentsOf
  <2>4. Map!Get(t)
    BY <1>3, <2>1, <2>2, <2>3 DEF Map!Get, Map!Active
  <2>5. QED
    BY <2>4 DEF Map!Next
<1>11. CASE Return(t)
  <2>1. ret[t] # Pending /\ op[t] # NoOp /\ Contents' = Contents
    BY <1>2, <1>3, <1>11 DEF Return, TableInv, AnswerInv
  <2>2. Map!Return(t)
    BY <1>11, <2>1 DEF Return, Map!Return
  <2>3. QED
    BY <2>2 DEF Map!Next
<1>12. QED
  BY <1>4, <1>5, <1>6, <1>7, <1>8, <1>9, <1>10, <1>11 DEF Step

LEMMA OwnerRefines ==
  ASSUME IInv, TableInv, TableInv', Clear \/ ReclaimBegin \/ Reclaim
  PROVE  [Map!Next]_(Map!vars)
<1>1. SlotsInv /\ SlotsInv'
  BY DEF TableInv
<1>2. keys' = keys /\ values' = values => Contents' = Contents
  BY <1>1, ContentsOf, ContentsPrime, ContentsEqual
<1>3. op' = op /\ ret' = ret
  BY DEF Clear, ReclaimBegin, Reclaim, ReclaimOuter, ReclaimInner, ReclaimEnd, threads
<1>4. CASE Clear
  <2>1. \A t \in Thread : op[t] = NoOp
    BY <1>4 DEF Clear, Quiet, TableInv, AnswerInv
  <2>2. \A key \in Key : Contents'[key] = nullidx
    BY <1>1, <1>4, ContentsPrime DEF Clear
  <2>3. Contents' = [key \in Key |-> Contents'[key]]
    BY DEF Contents
  <2>4. Map!Clear
    BY <1>3, <2>1, <2>2, <2>3 DEF Map!Clear
  <2>5. QED
    BY <2>4 DEF Map!Next
<1>5. ASSUME NEW x \in Slot, Dead(x), keys' = [keys EXCEPT ![x] = nullkey], values' = values
      PROVE  Contents' = Contents
  <2>1. keys'[x] = nullkey /\ \A s \in Slot : s # x => keys'[s] = keys[s]
    BY <1>5 DEF IInv, TypeOK
  <2>2. QED
    BY <1>1, <1>5, <2>1, EmptySlot DEF Dead
<1>6. CASE ReclaimInner
  <2>1. ii \in Slot
    BY DEF IInv, TypeOK
  <2>2. CASE Dead(ii) \/ keys[ii] = nullkey \/ Home[keys[ii]] = ii
    <3>1. CASE Dead(ii)
      <4>1. keys' = [keys EXCEPT ![ii] = nullkey] /\ values' = values
        BY <1>6, <3>1 DEF ReclaimInner, Dead
      <4>2. QED
        BY <1>3, <1>5, <2>1, <3>1, <4>1 DEF Map!vars
    <3>2. CASE ~Dead(ii)
      <4>1. keys' = keys /\ values' = values
        BY <1>6, <2>2, <3>2 DEF ReclaimInner, table
      <4>2. QED
        BY <1>2, <1>3, <4>1 DEF Map!vars
    <3>3. QED
      BY <3>1, <3>2
  <2>3. CASE ~(Dead(ii) \/ keys[ii] = nullkey \/ Home[keys[ii]] = ii)
    <3> DEFINE out == [keys EXCEPT ![ii] = nullkey]
               t   == Probe(out, keys[ii])
    <3>1. /\ t \in Slot /\ keys[ii] \in Key /\ out[t] = nullkey /\ (t = ii \/ keys[t] = nullkey)
          /\ \A r \in Slot : r # ii => keys[r] # keys[ii] /\ out[r] = keys[r]
      BY <1>1, <2>3, MoveFinds
    <3>2. /\ keys' = [out EXCEPT ![t] = keys[ii]]
          /\ values' = [[values EXCEPT ![ii] = nullidx] EXCEPT ![t] = values[ii]]
      BY <1>6, <2>3 DEF ReclaimInner, Dead
    <3>3. out \in [Slot -> Key \cup {nullkey}] /\ out[ii] = nullkey
      BY <2>1 DEF IInv, TypeOK
    <3> HIDE DEF out, t
    <3>4. keys'[t] = keys[ii] /\ \A r \in Slot : r # t => keys'[r] = out[r]
      BY <3>1, <3>2, <3>3
    <3>5. values'[t] = values[ii] /\ \A r \in Slot : r # t /\ r # ii => values'[r] = values[r]
      BY <2>1, <3>1, <3>2 DEF IInv, TypeOK
    <3>6. ASSUME NEW key \in Key PROVE Contents'[key] = Contents[key]
      <4>1. CASE key = keys[ii]
        BY <1>1, <2>1, <3>1, <3>4, <3>5, <4>1, ContentsOf, ContentsPrime
      <4>2. CASE key # keys[ii] /\ \E s \in Slot : keys[s] = key
        <5>1. PICK s \in Slot : keys[s] = key
          BY <4>2
        <5>2. s # ii /\ s # t
          BY <3>1, <4>2, <5>1
        <5>3. keys'[s] = key /\ values'[s] = values[s]
          BY <3>1, <3>4, <3>5, <5>1, <5>2
        <5>4. QED
          BY <1>1, <5>1, <5>3, ContentsOf, ContentsPrime
      <4>3. CASE key # keys[ii] /\ \A s \in Slot : keys[s] # key
        <5>1. \A s \in Slot : keys'[s] # key
          BY <3>1, <3>3, <3>4, <4>3
        <5>2. QED
          BY <1>1, <4>3, <5>1, ContentsOf, ContentsPrime
      <4>4. QED
        BY <4>1, <4>2, <4>3
    <3>7. QED
      BY <1>3, <3>6, ContentsEqual DEF Map!vars
  <2>4. QED
    BY <2>2, <2>3, <1>3 DEF Map!vars
<1>7. CASE ReclaimBegin \/ ReclaimOuter \/ ReclaimEnd
  BY <1>2, <1>3, <1>5, <1>7 DEF ReclaimBegin, ReclaimOuter, ReclaimEnd, table, Map!vars
<1>8. QED
  BY <1>4, <1>6, <1>7 DEF Reclaim

LEMMA InitRefines == Init => Map!Init
<1> SUFFICES ASSUME Init PROVE Map!Init
  OBVIOUS
<1>1. \A s \in Slot : keys[s] = nullkey
  BY DEF Init
<1>2. Contents = [key \in Key |-> nullidx]
  BY <1>1 DEF Contents
<1>3. QED
  BY <1>2 DEF Init, Map!Init

LEMMA StepRefines ==
  IInv /\ TableInv /\ IInv' /\ TableInv' /\ [Next]_vars => [Map!Next]_(Map!vars)
<1> SUFFICES ASSUME IInv, TableInv, IInv', TableInv', [Next]_vars PROVE [Map!Next]_(Map!vars)
  OBVIOUS
<1>1. CASE Next
  BY <1>1, CallRefines, OwnerRefines DEF Next
<1>2. CASE UNCHANGED vars
  <2>1. keys' = keys /\ values' = values /\ op' = op /\ ret' = ret
    BY <1>2 DEF vars, table, threads
  <2>2. Contents' = Contents
    BY <2>1, ContentsOf, ContentsPrime, ContentsEqual DEF TableInv
  <2>3. QED
    BY <2>1, <2>2 DEF Map!vars
<1>3. QED
  BY <1>1, <1>2

(* Every set and every get takes effect at one instant of its call on a map
   from keys to values, and reclaim changes nothing. *)
THEOREM TableImplementsMap == Spec => ImplementsMap
<1>1. QED
  BY InitRefines, StepRefines, TableSound, PTL DEF Spec, ImplementsMap, Map!Spec

=============================================================================
