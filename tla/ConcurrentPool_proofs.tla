------------------------- MODULE ConcurrentPool_proofs -------------------------
(***************************************************************************)
(* Proofs about ConcurrentPool, for any threads, any number of blocks and  *)
(* any range of the tag. IInv is inductive: a thread whose exchange        *)
(* succeeds has seen no other exchange (CurrentHead), so head is the first *)
(* block of the list and what the thread read from it is still its link.   *)
(***************************************************************************)
EXTENDS ConcurrentPool, SequenceTheorems, WellFoundedInduction, TLAPS

---------------------------------------------------------------------------
(* Sequences *)

LEMMA RestOfSequence ==
  ASSUME NEW S, NEW f \in Seq(S), f # <<>>
  PROVE  LET g == SubSeq(f, 2, Len(f)) IN
           /\ g \in Seq(S) /\ Len(g) = Len(f) - 1
           /\ \A k \in 1..Len(g) : g[k] = f[k + 1]
  BY HeadTailProperties, TailIsSubSeq

LEMMA FrontOfSequence ==
  ASSUME NEW S, NEW f \in Seq(S), NEW i \in S
  PROVE  LET g == <<i>> \o f IN
           /\ g \in Seq(S) /\ Len(g) = Len(f) + 1
           /\ g[1] = i
           /\ \A k \in 1..Len(f) : g[k + 1] = f[k]
  OBVIOUS

LEMMA EmptySequence ==
  ASSUME NEW S, NEW f \in Seq(S)
  PROVE  /\ Len(f) \in Nat
         /\ Len(f) # 0 => f # <<>>
  OBVIOUS

---------------------------------------------------------------------------
(* The free list *)

(* The list loses its first block, to which no other block links. *)
LEMMA PopFront ==
  ASSUME TypeOK, ListIntact, Len(free) # 0,
         free' = SubSeq(free, 2, Len(free)), next' = next,
         head'.index = next[free[1]]
  PROVE  /\ ListIntact'
         /\ free' \in Seq(Index)
         /\ FreeSet' = FreeSet \ {free[1]} /\ free[1] \in FreeSet
<1>1. /\ free' \in Seq(Index) /\ Len(free') = Len(free) - 1
      /\ \A k \in 1..Len(free') : free'[k] = free[k + 1]
  BY RestOfSequence, EmptySequence DEF TypeOK
<1>2. Len(free) \in Nat \ {0} /\ Len(free') \in Nat
  BY <1>1, EmptySequence DEF TypeOK
<1>3. \A k \in 1..Len(free') : k + 1 \in 1..Len(free)
  BY <1>1, <1>2
<1>4. head'.index = IF Len(free') = 0 THEN nullidx ELSE free'[1]
  <2>1. CASE Len(free) = 1
    BY <2>1, <1>1, <1>2 DEF ListIntact
  <2>2. CASE Len(free) # 1
    <3>1. next[free[1]] = free[2] BY <2>2, <1>2 DEF ListIntact
    <3>2. 1 \in 1..Len(free') BY <2>2, <1>1, <1>2
    <3>3. free'[1] = free[2] BY <3>2, <1>1
    <3>4. QED BY <3>1, <3>2, <3>3, <1>2
  <2>3. QED BY <2>1, <2>2
<1>5. \A k \in 1..Len(free') :
        next[free'[k]] = IF k = Len(free') THEN nullidx ELSE free'[k + 1]
  <2>1. TAKE k \in 1..Len(free')
  <2>2. next[free[k + 1]] = IF k + 1 = Len(free) THEN nullidx ELSE free[k + 2]
    BY <1>2, <1>3 DEF ListIntact
  <2>3. CASE k = Len(free') BY <2>2, <2>3, <1>1, <1>2
  <2>4. CASE k # Len(free')
    <3>1. k + 1 \in 1..Len(free') BY <2>4, <1>2
    <3>2. free'[k + 1] = free[k + 2] BY <3>1, <1>1, <1>2
    <3>3. QED BY <2>2, <2>4, <3>2, <1>1, <1>2
  <2>5. QED BY <2>3, <2>4
<1>6. \A j, k \in 1..Len(free') : free'[j] = free'[k] => j = k
  BY <1>1, <1>2, <1>3 DEF ListIntact
<1>7. FreeSet' = FreeSet \ {free[1]} /\ free[1] \in FreeSet
  <2>1. 1 \in 1..Len(free) BY <1>2
  <2>2. \A k \in 1..Len(free) : k # 1 => k - 1 \in 1..Len(free') /\ free'[k - 1] = free[k]
    BY <1>1, <1>2
  <2>3. \A k \in 1..Len(free) : k # 1 => free[k] # free[1]
    BY <2>1 DEF ListIntact
  <2>4. \A k \in 1..Len(free') : free'[k] = free[k + 1] /\ k + 1 \in 1..Len(free) /\ k + 1 # 1
    BY <1>1, <1>2, <1>3
  <2>5. ASSUME NEW i \in FreeSet' PROVE i \in FreeSet \ {free[1]}
    <3>1. PICK k \in 1..Len(free') : i = free'[k] BY DEF FreeSet
    <3>2. k + 1 \in 1..Len(free) /\ i = free[k + 1] /\ k + 1 # 1 BY <3>1, <2>4
    <3>3. QED BY <3>2, <2>3 DEF FreeSet
  <2>6. ASSUME NEW i \in FreeSet \ {free[1]} PROVE i \in FreeSet'
    <3>1. PICK k \in 1..Len(free) : i = free[k] BY DEF FreeSet
    <3>2. QED BY <3>1, <2>2 DEF FreeSet
  <2>7. QED BY <2>1, <2>5, <2>6 DEF FreeSet
<1>8. QED BY <1>1, <1>4, <1>5, <1>6, <1>7 DEF ListIntact

(* The list gains a first block that links to the one before. *)
LEMMA PushFront ==
  ASSUME TypeOK, ListIntact, NEW i \in Index \ FreeSet, next[i] = head.index,
         free' = <<i>> \o free, next' = next, head'.index = i
  PROVE  /\ ListIntact'
         /\ free' \in Seq(Index)
         /\ FreeSet' = FreeSet \cup {i}
<1>1. /\ free' \in Seq(Index) /\ Len(free') = Len(free) + 1 /\ free'[1] = i
      /\ \A k \in 1..Len(free) : free'[k + 1] = free[k]
  BY FrontOfSequence DEF TypeOK
<1>2. Len(free) \in Nat /\ Len(free') \in Nat
  BY <1>1, EmptySequence DEF TypeOK
<1>3. \A k \in 1..Len(free') : k # 1 => k - 1 \in 1..Len(free) /\ free'[k] = free[k - 1]
  <2>1. TAKE k \in 1..Len(free')
  <2>2. SUFFICES ASSUME k # 1 PROVE k - 1 \in 1..Len(free) /\ free'[k] = free[k - 1]
    OBVIOUS
  <2>3. k - 1 \in 1..Len(free) BY <1>1, <1>2, <2>2
  <2>4. free'[(k - 1) + 1] = free[k - 1] BY <1>1, <2>3
  <2>5. QED BY <2>3, <2>4, <1>2
<1>4. Len(free') # 0 BY <1>1, <1>2
<1>5. \A k \in 1..Len(free') :
        next[free'[k]] = IF k = Len(free') THEN nullidx ELSE free'[k + 1]
  <2>1. TAKE k \in 1..Len(free')
  <2>2. CASE k = 1
    <3>1. CASE Len(free) = 0
      BY <2>2, <3>1, <1>1, <1>2 DEF ListIntact
    <3>2. CASE Len(free) # 0
      <4>1. 1 \in 1..Len(free) /\ Len(free') # 1
        BY <3>2, <1>1, <1>2
      <4>2. free'[2] = free[1] BY <4>1, <1>1
      <4>3. QED BY <2>2, <3>2, <4>1, <4>2, <1>1 DEF ListIntact
    <3>3. QED BY <3>1, <3>2
  <2>3. CASE k # 1
    <3>1. k - 1 \in 1..Len(free) /\ free'[k] = free[k - 1] BY <2>3, <1>3
    <3>2. next[free[k - 1]] = IF k - 1 = Len(free) THEN nullidx ELSE free[k]
      BY <3>1, <1>2 DEF ListIntact
    <3>3. CASE k = Len(free') BY <3>1, <3>2, <3>3, <1>1, <1>2
    <3>4. CASE k # Len(free')
      <4>1. k \in 1..Len(free) BY <3>4, <1>1, <1>2
      <4>2. free'[k + 1] = free[k] BY <4>1, <1>1
      <4>3. QED BY <3>1, <3>2, <3>4, <4>2, <1>1, <1>2
    <3>5. QED BY <3>3, <3>4
  <2>4. QED BY <2>2, <2>3
<1>6. \A j, k \in 1..Len(free') : free'[j] = free'[k] => j = k
  <2>1. \A k \in 1..Len(free) : free[k] # i BY DEF FreeSet
  <2>2. TAKE j, k \in 1..Len(free')
  <2>3. CASE j = 1 \/ k = 1 BY <2>1, <2>3, <1>1, <1>3
  <2>4. CASE j # 1 /\ k # 1
    <3>1. free'[j] = free'[k] => j - 1 = k - 1 BY <2>4, <1>3 DEF ListIntact
    <3>2. QED BY <3>1, <1>2
  <2>5. QED BY <2>3, <2>4
<1>7. FreeSet' = FreeSet \cup {i}
  <2>1. \A k \in 1..Len(free) : k + 1 \in 1..Len(free') BY <1>1, <1>2
  <2>2. 1 \in 1..Len(free') BY <1>1, <1>2
  <2>3. QED BY <1>1, <1>3, <2>1, <2>2 DEF FreeSet
<1>8. QED BY <1>1, <1>4, <1>5, <1>6, <1>7 DEF ListIntact

---------------------------------------------------------------------------
(* A thread whose exchange succeeds made its load after the last exchange. *)
LEMMA CurrentHead ==
  ASSUME IInv, NEW p \in Threads, pc[p] # "idle", head = o[p]
  PROVE  behind[p] = 0
<1>1. /\ o[p] \in Heads /\ behind[p] \in Nat /\ behind[p] < Tags
      /\ head.tag = IF o[p].tag + behind[p] < Tags THEN o[p].tag + behind[p]
                    ELSE o[p].tag + behind[p] - Tags
  BY DEF IInv, TypeOK, Current
<1>2. o[p].tag \in 0..Tags - 1 BY <1>1 DEF Heads
<1>3. head.tag = o[p].tag OBVIOUS
<1>4. QED BY <1>1, <1>2, <1>3, PoolAssumption

LEMMA ReturningIs ==
  \A i : i \in Returning <=>
           \E p \in Threads : pc[p] \in {"dealloc", "dealloc_cas"} /\ index[p] = i
  BY DEF Returning

(* Steps of p that leave head, the blocks and their owners alone *)
LEMMA LocalStep ==
  ASSUME IInv, NEW p \in Threads, NEW label \in Labels,
         pc' = [pc EXCEPT ![p] = label],
         pc[p] \in {"dealloc", "dealloc_cas"} <=> label \in {"dealloc", "dealloc_cas"},
         UNCHANGED <<head, next, index, held, free>>
  PROVE  ListIntact' /\ BlocksInv'
<1>1. FreeSet' = FreeSet BY DEF FreeSet
<1>2. \A q \in Threads : pc'[q] \in {"dealloc", "dealloc_cas"}
                           <=> pc[q] \in {"dealloc", "dealloc_cas"}
  BY DEF IInv, TypeOK
<1>3. Returning' = Returning BY <1>2 DEF Returning
<1>4. ListIntact' BY DEF IInv, ListIntact
<1>5. BlocksInv' BY <1>1, <1>2, <1>3 DEF IInv, BlocksInv
<1>6. QED BY <1>4, <1>5

LEMMA InitInv == Init => IInv
<1> SUFFICES ASSUME Init PROVE IInv
  OBVIOUS
<1> USE PoolAssumption DEF Init, Index, nullidx
<1>1. /\ Len(free) = nblocks /\ free \in Seq(Index)
      /\ \A k \in 1..nblocks : free[k] = k - 1
  OBVIOUS
<1>2. TypeOK BY <1>1 DEF TypeOK, Heads, NoHead, Labels
<1>3. ListIntact BY <1>1 DEF ListIntact
<1>4. FreeSet = Index
  <2>1. \A i \in Index : i + 1 \in 1..Len(free) /\ free[i + 1] = i BY <1>1
  <2>2. QED BY <1>1, <2>1 DEF FreeSet
<1>5. Returning = {} BY DEF Returning
<1>6. BlocksInv BY <1>4, <1>5 DEF BlocksInv
<1>7. \A p \in Threads : Current(p) BY DEF Current
<1>8. QED BY <1>2, <1>3, <1>6, <1>7 DEF IInv

(* The thread that loads head is up to date, the others are not concerned. *)
LEMMA LoadStep ==
  ASSUME IInv, NEW p \in Threads, LoadHead(p), NEW label \in {"alloc", "dealloc"},
         pc' = [pc EXCEPT ![p] = label],
         UNCHANGED <<head, next>>, \A q \in Threads \ {p} : index'[q] = index[q]
  PROVE  \A q \in Threads : Current(q)'
<1>1. TAKE q \in Threads
<1>2. CASE q = p
  BY <1>2, PoolAssumption DEF IInv, TypeOK, LoadHead, Current, Heads
<1>3. CASE q # p
  BY <1>3 DEF IInv, TypeOK, LoadHead, Current
<1>4. QED BY <1>2, <1>3

LEMMA AllocCallInv ==
  ASSUME IInv, NEW p \in Threads, AllocCall(p) PROVE IInv'
<1> USE DEF AllocCall, Goto
<1>0. nullidx \in 0..nblocks BY PoolAssumption DEF nullidx
<1>1. TypeOK' BY <1>0 DEF IInv, TypeOK, LoadHead, Labels
<1>2. ListIntact' /\ BlocksInv' BY LocalStep DEF Labels
<1>3. \A q \in Threads : Current(q)' BY LoadStep
<1>4. QED BY <1>1, <1>2, <1>3 DEF IInv

LEMMA AllocRetryInv ==
  ASSUME IInv, NEW p \in Threads, AllocRetry(p) PROVE IInv'
<1> USE DEF AllocRetry, Retry, Goto
<1>0. nullidx \in 0..nblocks BY PoolAssumption DEF nullidx
<1>1. TypeOK' BY <1>0 DEF IInv, TypeOK, LoadHead, Labels
<1>2. ListIntact' /\ BlocksInv' BY LocalStep DEF Labels
<1>3. \A q \in Threads : Current(q)' BY LoadStep
<1>4. QED BY <1>1, <1>2, <1>3 DEF IInv

LEMMA DeallocRetryInv ==
  ASSUME IInv, NEW p \in Threads, DeallocRetry(p) PROVE IInv'
<1> USE DEF DeallocRetry, Retry, Goto
<1>0. nullidx \in 0..nblocks BY PoolAssumption DEF nullidx
<1>1. TypeOK' BY <1>0 DEF IInv, TypeOK, LoadHead, Labels
<1>2. ListIntact' /\ BlocksInv' BY LocalStep DEF Labels
<1>3. \A q \in Threads : Current(q)' BY LoadStep
<1>4. QED BY <1>1, <1>2, <1>3 DEF IInv

LEMMA AllocEmptyInv ==
  ASSUME IInv, NEW p \in Threads, AllocEmpty(p) PROVE IInv'
<1> USE DEF AllocEmpty, Goto
<1>0. NoHead \in Heads BY PoolAssumption DEF NoHead, Heads
<1>1. TypeOK' BY <1>0 DEF IInv, TypeOK, Labels
<1>2. ListIntact' /\ BlocksInv' BY LocalStep DEF Labels
<1>3. \A q \in Threads : Current(q)' BY DEF IInv, TypeOK, Current
<1>4. QED BY <1>1, <1>2, <1>3 DEF IInv

LEMMA AllocNextInv ==
  ASSUME IInv, NEW p \in Threads, AllocNext(p) PROVE IInv'
<1> USE DEF AllocNext, Goto
<1>1. o[p].index \in Index BY PoolAssumption DEF IInv, TypeOK, Heads, Index, nullidx
<1>2. TypeOK' BY <1>1 DEF IInv, TypeOK, Labels
<1>3. ListIntact' /\ BlocksInv' BY LocalStep DEF Labels
<1>4. \A q \in Threads : Current(q)' BY DEF IInv, TypeOK, Current
<1>5. QED BY <1>2, <1>3, <1>4 DEF IInv

(* After an exchange every other thread in an operation is one behind. *)
LEMMA ExchangeStep ==
  ASSUME IInv, NEW p \in Threads, NEW i \in 0..nblocks, Exchange(p, i), pc[p] # "idle",
         next' = next, \A q \in Threads \ {p} : index'[q] = index[q]
  PROVE  /\ \A q \in Threads : Current(q)'
         /\ head' \in Heads /\ o' \in [Threads -> Heads] /\ n' \in [Threads -> 0..nblocks]
         /\ pc' \in [Threads -> Labels] /\ behind' \in [Threads -> Nat]
<1> USE DEF Exchange, Goto
<1>1. head = o[p] /\ o[p].tag \in 0..Tags - 1 BY DEF IInv, TypeOK, Heads
<1>2. head'.tag = Inc(head.tag) /\ Inc(head.tag) \in 0..Tags - 1
  BY <1>1, PoolAssumption DEF Inc
<1>3. ASSUME NEW q \in Threads PROVE Current(q)'
  <2>1. CASE q = p BY <2>1 DEF IInv, TypeOK, Current
  <2>2. CASE q # p /\ pc[q] = "idle" BY <2>2 DEF IInv, TypeOK, Current
  <2>3. CASE q # p /\ pc[q] # "idle"
    <3>1. /\ behind[q] \in Nat /\ behind[q] < Tags - 1 /\ behind'[q] = behind[q] + 1
          /\ pc'[q] = pc[q] /\ o'[q] = o[q] /\ n'[q] = n[q] /\ index'[q] = index[q]
      BY <2>3 DEF IInv, TypeOK, NoWrap
    <3>2. o[q].tag \in 0..Tags - 1 BY DEF IInv, TypeOK, Heads
    <3>3. Current(q) BY DEF IInv
    <3>4. head'.tag = IF o[q].tag + behind'[q] < Tags THEN o[q].tag + behind'[q]
                      ELSE o[q].tag + behind'[q] - Tags
      BY <2>3, <3>1, <3>2, <3>3, <1>2, PoolAssumption DEF Current, Inc
    <3>5. QED BY <2>3, <3>1, <3>3, <3>4, PoolAssumption DEF Current
  <2>4. QED BY <2>1, <2>2, <2>3
<1>4. head' \in Heads BY <1>2 DEF Heads
<1>5. o' \in [Threads -> Heads] /\ n' \in [Threads -> 0..nblocks]
  <2>1. NoHead \in Heads /\ nullidx \in 0..nblocks
    BY PoolAssumption DEF NoHead, Heads, nullidx
  <2>2. QED BY <2>1 DEF IInv, TypeOK
<1>6. pc' \in [Threads -> Labels] /\ behind' \in [Threads -> Nat]
  BY DEF IInv, TypeOK, Labels
<1>7. QED BY <1>3, <1>4, <1>5, <1>6

LEMMA AllocExchangeInv ==
  ASSUME IInv, NEW p \in Threads, AllocExchange(p)
  PROVE  IInv' /\ o[p].index \in FreeSet
<1> USE DEF AllocExchange
<1>1. behind[p] = 0 /\ head = o[p] BY CurrentHead DEF Exchange
<1>2. n[p] = next[o[p].index] /\ o[p].index # nullidx BY <1>1 DEF IInv, Current
<1>3. Len(free) # 0 /\ free[1] = o[p].index BY <1>1, <1>2 DEF IInv, ListIntact
<1>4. n[p] \in 0..nblocks BY DEF IInv, TypeOK
<1>5. head'.index = next[free[1]] BY <1>2, <1>3 DEF Exchange
<1>6. /\ ListIntact' /\ free' \in Seq(Index)
      /\ FreeSet' = FreeSet \ {o[p].index} /\ o[p].index \in FreeSet
  BY <1>3, <1>5, PopFront DEF IInv
<1>7. Returning' = Returning
  <2>1. \A q \in Threads : pc'[q] \in {"dealloc", "dealloc_cas"}
                             <=> pc[q] \in {"dealloc", "dealloc_cas"}
    BY DEF IInv, TypeOK, Exchange, Goto
  <2>2. QED BY <2>1 DEF Returning
<1>8. FreeSet \subseteq Index BY DEF IInv, BlocksInv
<1>9. BlocksInv'
  <2>1. held' = held \cup {o[p].index} OBVIOUS
  <2>2. \A q \in Threads : pc'[q] \in {"dealloc", "dealloc_cas"}
                             => pc[q] \in {"dealloc", "dealloc_cas"} /\ index'[q] = index[q]
    BY DEF IInv, TypeOK, Exchange, Goto
  <2>3. QED BY <2>1, <2>2, <1>6, <1>7, <1>8 DEF IInv, BlocksInv
<1>10. /\ \A q \in Threads : Current(q)'
       /\ head' \in Heads /\ o' \in [Threads -> Heads] /\ n' \in [Threads -> 0..nblocks]
       /\ pc' \in [Threads -> Labels] /\ behind' \in [Threads -> Nat]
  BY <1>4, ExchangeStep
<1>11. TypeOK' BY <1>6, <1>8, <1>10 DEF IInv, TypeOK
<1>12. QED BY <1>6, <1>9, <1>10, <1>11 DEF IInv

LEMMA DeallocExchangeInv ==
  ASSUME IInv, NEW p \in Threads, DeallocExchange(p) PROVE IInv'
<1> USE DEF DeallocExchange
<1>1. head = o[p] /\ next[index[p]] = head.index
  BY DEF IInv, Current, Exchange
<1>2. index[p] \in Index /\ index[p] \in Returning
  BY DEF IInv, TypeOK, Returning
<1>3. index[p] \in 0..nblocks BY <1>2, PoolAssumption DEF Index
<1>4. index[p] \notin FreeSet BY <1>2 DEF IInv, BlocksInv
<1>5. ListIntact' /\ free' \in Seq(Index) /\ FreeSet' = FreeSet \cup {index[p]}
  BY <1>1, <1>2, <1>4, PushFront DEF IInv, Exchange
<1>6. \A q \in Threads : pc'[q] \in {"dealloc", "dealloc_cas"}
        <=> q # p /\ pc[q] \in {"dealloc", "dealloc_cas"}
  BY DEF IInv, TypeOK, Exchange, Goto
<1>7. \A q \in Threads : q # p => index'[q] = index[q] BY DEF IInv, TypeOK
<1>8. Returning' = Returning \ {index[p]}
  <2>1. ASSUME NEW q \in Threads, pc'[q] \in {"dealloc", "dealloc_cas"}
        PROVE  index'[q] \in Returning \ {index[p]}
    BY <2>1, <1>6, <1>7 DEF IInv, BlocksInv, Returning
  <2>2. ASSUME NEW q \in Threads, pc[q] \in {"dealloc", "dealloc_cas"}, index[q] # index[p]
        PROVE  index[q] \in Returning'
    BY <2>2, <1>6, <1>7 DEF Returning
  <2>3. Returning' \subseteq Returning \ {index[p]} BY <2>1 DEF Returning
  <2>4. Returning \ {index[p]} \subseteq Returning' BY <2>2 DEF Returning
  <2>5. QED BY <2>3, <2>4
<1>9. BlocksInv' BY <1>2, <1>5, <1>6, <1>7, <1>8 DEF IInv, BlocksInv
<1>10. /\ \A q \in Threads : Current(q)'
       /\ head' \in Heads /\ o' \in [Threads -> Heads] /\ n' \in [Threads -> 0..nblocks]
       /\ pc' \in [Threads -> Labels] /\ behind' \in [Threads -> Nat]
  BY <1>3, <1>7, ExchangeStep
<1>11. TypeOK'
  <2>1. 0 \in Index BY PoolAssumption DEF Index
  <2>2. index' \in [Threads -> Index] BY <2>1 DEF IInv, TypeOK
  <2>3. QED BY <2>2, <1>5, <1>10 DEF IInv, TypeOK
<1>12. QED BY <1>5, <1>9, <1>10, <1>11 DEF IInv

LEMMA DeallocCallInv ==
  ASSUME IInv, NEW p \in Threads, NEW i \in Index, DeallocCall(p, i) PROVE IInv'
<1> USE DEF DeallocCall, Goto
<1>0. nullidx \in 0..nblocks BY PoolAssumption DEF nullidx
<1>1. TypeOK' BY <1>0 DEF IInv, TypeOK, LoadHead, Labels
<1>2. FreeSet' = FreeSet BY DEF FreeSet
<1>3. \A q \in Threads : pc'[q] \in {"dealloc", "dealloc_cas"}
        <=> q = p \/ pc[q] \in {"dealloc", "dealloc_cas"}
  BY DEF IInv, TypeOK
<1>4. index'[p] = i /\ \A q \in Threads : q # p => index'[q] = index[q]
  BY DEF IInv, TypeOK
<1>5. pc[p] = "idle" /\ i \in held OBVIOUS
<1>6. Returning' = Returning \cup {i}
  <2>1. Returning' \subseteq Returning \cup {i} BY <1>3, <1>4 DEF Returning
  <2>2. i \in Returning' BY <1>3, <1>4 DEF Returning
  <2>3. ASSUME NEW q \in Threads, pc[q] \in {"dealloc", "dealloc_cas"}
        PROVE  index[q] \in Returning'
    BY <2>3, <1>3, <1>4, <1>5 DEF Returning
  <2>4. Returning \subseteq Returning' BY <2>3 DEF Returning
  <2>5. QED BY <2>1, <2>2, <2>4
<1>7. BlocksInv'
  <2>1. \A q \in Threads : pc[q] \in {"dealloc", "dealloc_cas"} => index[q] # i
    BY <1>5 DEF IInv, BlocksInv, Returning
  <2>2. held' = held \ {i} OBVIOUS
  <2>3. QED BY <2>1, <2>2, <1>2, <1>3, <1>4, <1>5, <1>6 DEF IInv, BlocksInv
<1>8. ListIntact' BY DEF IInv, ListIntact
<1>9. \A q \in Threads : Current(q)' BY <1>4, LoadStep
<1>10. QED BY <1>1, <1>7, <1>8, <1>9 DEF IInv

(* A write to a block that is not in the list leaves the list alone. *)
LEMMA OutsideWrite ==
  ASSUME IInv, NEW i \in Index \ FreeSet, NEW data, next' = [next EXCEPT ![i] = data],
         UNCHANGED <<head, free>>
  PROVE  ListIntact'
<1>1. \A k \in 1..Len(free) : free[k] \in FreeSet BY DEF FreeSet
<1>2. \A k \in 1..Len(free) : next'[free[k]] = next[free[k]]
  BY <1>1 DEF IInv, TypeOK
<1>3. QED BY <1>2 DEF IInv, ListIntact

(* An up-to-date thread has read the link of a free block. *)
LEMMA ReadIsFree ==
  ASSUME IInv, NEW q \in Threads, pc[q] = "alloc_cas", behind[q] = 0
  PROVE  o[q].index \in FreeSet
<1>1. head.index = o[q].index /\ o[q].index # nullidx BY DEF IInv, Current
<1>2. Len(free) \in Nat BY EmptySequence DEF IInv, TypeOK
<1>3. Len(free) # 0 /\ free[1] = o[q].index BY <1>1 DEF IInv, ListIntact
<1>4. QED BY <1>2, <1>3 DEF FreeSet

LEMMA DeallocLinkInv ==
  ASSUME IInv, NEW p \in Threads, DeallocLink(p) PROVE IInv'
<1> USE DEF DeallocLink, Goto
<1>0. o[p].index \in 0..nblocks BY DEF IInv, TypeOK, Heads
<1>1. TypeOK' BY <1>0 DEF IInv, TypeOK, Labels
<1>2. index[p] \in Index /\ index[p] \in Returning
  BY DEF IInv, TypeOK, Returning
<1>3. index[p] \notin FreeSet BY <1>2 DEF IInv, BlocksInv
<1>4. ListIntact' BY <1>2, <1>3, OutsideWrite
<1>5. \A q \in Threads : pc'[q] \in {"dealloc", "dealloc_cas"}
                           <=> pc[q] \in {"dealloc", "dealloc_cas"}
  BY DEF IInv, TypeOK
<1>6. FreeSet' = FreeSet /\ Returning' = Returning BY <1>5 DEF FreeSet, Returning
<1>7. BlocksInv' BY <1>5, <1>6 DEF IInv, BlocksInv
<1>8. ASSUME NEW q \in Threads PROVE Current(q)'
  <2>1. CASE q = p BY <2>1, <1>2 DEF IInv, TypeOK, Current
  <2>2. CASE q # p
    <3>1. pc'[q] = pc[q] BY <2>2 DEF IInv, TypeOK
    <3>2. pc[q] = "alloc_cas" /\ behind[q] = 0 => next'[o[q].index] = next[o[q].index]
      BY <1>2, <1>3, ReadIsFree DEF IInv, TypeOK
    <3>3. pc[q] = "dealloc_cas" => next'[index[q]] = next[index[q]]
      BY <2>2, <1>2 DEF IInv, TypeOK, BlocksInv
    <3>4. QED BY <3>1, <3>2, <3>3 DEF IInv, Current
  <2>3. QED BY <2>1, <2>2
<1>9. QED BY <1>1, <1>4, <1>7, <1>8 DEF IInv

LEMMA UserWriteInv ==
  ASSUME IInv, NEW i \in Index, NEW data \in 0..nblocks, UserWrite(i, data) PROVE IInv'
<1> USE DEF UserWrite
<1>1. TypeOK' BY DEF IInv, TypeOK
<1>2. i \notin FreeSet /\ i \notin Returning BY DEF IInv, BlocksInv
<1>3. ListIntact' BY <1>2, OutsideWrite
<1>4. FreeSet' = FreeSet /\ Returning' = Returning BY DEF FreeSet, Returning
<1>5. BlocksInv' BY <1>4 DEF IInv, BlocksInv
<1>6. ASSUME NEW q \in Threads PROVE Current(q)'
  <2>1. pc[q] = "alloc_cas" /\ behind[q] = 0 => next'[o[q].index] = next[o[q].index]
    BY <1>2, ReadIsFree DEF IInv, TypeOK
  <2>2. pc[q] = "dealloc_cas" => next'[index[q]] = next[index[q]]
    BY <1>2 DEF IInv, TypeOK, Returning
  <2>3. QED BY <2>1, <2>2 DEF IInv, Current
<1>7. QED BY <1>1, <1>3, <1>5, <1>6 DEF IInv

---------------------------------------------------------------------------
LEMMA NextInv == IInv /\ [Next]_vars => IInv'
<1> SUFFICES ASSUME IInv, [Next]_vars PROVE IInv'
  OBVIOUS
<1>1. CASE UNCHANGED vars
  <2> USE <1>1 DEF vars
  <2>1. TypeOK' BY DEF IInv, TypeOK
  <2>2. ListIntact' BY DEF IInv, ListIntact
  <2>3. FreeSet' = FreeSet /\ Returning' = Returning BY DEF FreeSet, Returning
  <2>4. BlocksInv' BY <2>3 DEF IInv, BlocksInv
  <2>5. \A q \in Threads : Current(q)' BY DEF IInv, Current
  <2>6. QED BY <2>1, <2>2, <2>4, <2>5 DEF IInv
<1>2. ASSUME NEW p \in Threads, AllocCall(p) PROVE IInv' BY <1>2, AllocCallInv
<1>3. ASSUME NEW p \in Threads, AllocEmpty(p) PROVE IInv' BY <1>3, AllocEmptyInv
<1>4. ASSUME NEW p \in Threads, AllocNext(p) PROVE IInv' BY <1>4, AllocNextInv
<1>5. ASSUME NEW p \in Threads, AllocExchange(p) PROVE IInv' BY <1>5, AllocExchangeInv
<1>6. ASSUME NEW p \in Threads, AllocRetry(p) PROVE IInv' BY <1>6, AllocRetryInv
<1>7. ASSUME NEW p \in Threads, NEW i \in Index, DeallocCall(p, i) PROVE IInv'
  BY <1>7, DeallocCallInv
<1>8. ASSUME NEW p \in Threads, DeallocLink(p) PROVE IInv' BY <1>8, DeallocLinkInv
<1>9. ASSUME NEW p \in Threads, DeallocExchange(p) PROVE IInv' BY <1>9, DeallocExchangeInv
<1>10. ASSUME NEW p \in Threads, DeallocRetry(p) PROVE IInv' BY <1>10, DeallocRetryInv
<1>11. ASSUME NEW i \in Index, NEW data \in 0..nblocks, UserWrite(i, data) PROVE IInv'
  BY <1>11, UserWriteInv
<1>12. QED
  BY <1>1, <1>2, <1>3, <1>4, <1>5, <1>6, <1>7, <1>8, <1>9, <1>10, <1>11 DEF Next

(* concurrent_pool: memory, blocks and threads agree in every reachable
   state, as long as the tag does not wrap within one operation. *)
THEOREM PoolInvariant == Spec => []IInv
<1>1. QED BY InitInv, NextInv, PTL DEF Spec

(* Types, the tag within its bits included *)
THEOREM PoolTypeCorrect == Spec => []TypeOK
<1>1. IInv => TypeOK BY DEF IInv
<1>2. QED BY <1>1, PoolInvariant, PTL

(* The free list in memory is never corrupted. *)
THEOREM FreeListIntact == Spec => []ListIntact
<1>1. IInv => ListIntact BY DEF IInv
<1>2. QED BY <1>1, PoolInvariant, PTL

(* allocate_index() hands out blocks that nobody has: no ABA. *)
THEOREM OnlyFreeBlocks == Spec => AllocatesFreeBlock
<1> DEFINE Allocates ==
      \A p \in Threads : pc[p] = "alloc_cas" /\ pc'[p] = "idle" =>
        o[p].index \notin held \cup Returning
<1>1. IInv /\ [Next]_vars => [Allocates]_vars
  <2> SUFFICES ASSUME IInv, Next, NEW p \in Threads, pc[p] = "alloc_cas", pc'[p] = "idle"
               PROVE  o[p].index \notin held \cup Returning
    OBVIOUS
  <2>1. AllocExchange(p)
    <3>1. pc \in [Threads -> Labels]
      BY DEF IInv, TypeOK
    <3>2. pc' # pc
      OBVIOUS
    <3>3. ASSUME NEW q \in Threads,
                 \/ AllocCall(q) \/ AllocEmpty(q) \/ AllocNext(q) \/ DeallocLink(q)
                 \/ \E i \in Index : DeallocCall(q, i)
          PROVE  FALSE
      <4>1. PICK l \in Labels : pc' = [pc EXCEPT ![q] = l] /\ pc[q] # "alloc_cas"
        BY <3>3 DEF AllocCall, AllocEmpty, AllocNext, DeallocCall, DeallocLink, Goto, Labels
      <4>2. QED
        BY <3>1, <4>1
    <3>4. ASSUME NEW q \in Threads, AllocRetry(q) \/ DeallocRetry(q)
          PROVE  FALSE
      <4>1. PICK l \in Labels : pc' = [pc EXCEPT ![q] = l] /\ l # "idle"
        BY <3>4 DEF AllocRetry, DeallocRetry, Retry, Goto, Labels
      <4>2. QED
        BY <3>1, <4>1
    <3>5. ASSUME NEW q \in Threads, DeallocExchange(q)
          PROVE  FALSE
      <4>1. pc' = [pc EXCEPT ![q] = "idle"] /\ pc[q] = "dealloc_cas"
        BY <3>5 DEF DeallocExchange, Exchange, Goto
      <4>2. QED
        BY <3>1, <4>1
    <3>6. ASSUME NEW q \in Threads, AllocExchange(q)
          PROVE  AllocExchange(p)
      <4>1. pc' = [pc EXCEPT ![q] = "idle"]
        BY <3>6 DEF AllocExchange, Exchange, Goto
      <4>2. q = p
        BY <3>1, <4>1
      <4>3. QED
        BY <3>6, <4>2
    <3>7. CASE \E i \in Index, data \in 0..nblocks : UserWrite(i, data)
      BY <3>2, <3>7 DEF UserWrite
    <3>8. QED
      BY <3>3, <3>4, <3>5, <3>6, <3>7 DEF Next
  <2>2. o[p].index \in FreeSet BY <2>1, AllocExchangeInv
  <2>3. QED BY <2>2 DEF IInv, BlocksInv
<1>2. QED BY <1>1, PoolInvariant, PTL DEF Spec, AllocatesFreeBlock

(* A failed exchange means that another one has succeeded: lock freedom. *)
THEOREM FailureIsProgress == Spec => RetryMeansProgress
<1> DEFINE Progress ==
      \A p \in Threads :
        \/ pc[p] = "alloc_cas" /\ pc'[p] = "alloc"
        \/ pc[p] = "dealloc_cas" /\ pc'[p] = "dealloc"
        => behind[p] > 0
<1>1. IInv /\ [Next]_vars => [Progress]_vars
  <2> SUFFICES ASSUME IInv, Next, NEW p \in Threads,
                      \/ pc[p] = "alloc_cas" /\ pc'[p] = "alloc"
                      \/ pc[p] = "dealloc_cas" /\ pc'[p] = "dealloc"
               PROVE  behind[p] > 0
    OBVIOUS
  <2>1. head # o[p]
    <3>1. CASE \E q \in Threads : AllocRetry(q) \/ DeallocRetry(q)
      BY <3>1 DEF AllocRetry, DeallocRetry, Retry, Goto, IInv, TypeOK
    <3>2. CASE ~\E q \in Threads : AllocRetry(q) \/ DeallocRetry(q)
      BY <3>2 DEF Next, AllocCall, AllocEmpty, AllocNext, AllocExchange, DeallocCall,
                  DeallocLink, DeallocExchange, Exchange, UserWrite, Goto, IInv, TypeOK
    <3>3. QED BY <3>1, <3>2
  <2>2. behind[p] \in Nat /\ behind[p] # 0
    BY <2>1 DEF IInv, TypeOK, Current
  <2>3. QED BY <2>2
<1>2. QED BY <1>1, PoolInvariant, PTL DEF Spec, RetryMeansProgress

---------------------------------------------------------------------------
(* The refinement of IndexPool *)

(* The least-number principle *)
LEMMA LeastNumber ==
  ASSUME NEW S, S \subseteq Nat, S # {}
  PROVE  \E m \in S : \A k \in S : m <= k
<1>1. PICK m \in S : \A k \in S : <<k, m>> \notin OpToRel(<, Nat)
  BY NatLessThanWellFounded, WFMin
<1>2. ASSUME NEW k \in S PROVE m <= k
  <2>1. m \in Nat /\ k \in Nat
    OBVIOUS
  <2>2. k < m => <<k, m>> \in OpToRel(<, Nat)
    BY <2>1 DEF OpToRel
  <2>3. ~(k < m)
    BY <1>1, <2>2
  <2>4. QED
    BY <2>1, <2>3
<1>3. QED
  BY <1>2

(* What head leads to is the free list. *)
LEMMA LinkedIsFree == ASSUME IInv PROVE Linked = FreeSet
<1> DEFINE closed(S) ==
      \A j \in Index : j = head.index \/ (\E k \in S : next[k] = j) => j \in S
<1>1. Len(free) \in Nat /\ nullidx \notin Index /\ \A k \in 1..Len(free) : free[k] \in Index
  BY PoolAssumption, EmptySequence DEF IInv, TypeOK, Index, nullidx
<1>2. FreeSet \in SUBSET Index
  BY <1>1 DEF FreeSet
<1>3. closed(FreeSet)
  <2>1. ASSUME NEW j \in Index, j = head.index PROVE j \in FreeSet
    BY <1>1, <2>1 DEF IInv, ListIntact, FreeSet
  <2>2. ASSUME NEW j \in Index, NEW k \in 1..Len(free), next[free[k]] = j PROVE j \in FreeSet
    <3>1. k # Len(free) /\ j = free[k + 1]
      BY <1>1, <2>2 DEF IInv, ListIntact
    <3>2. k + 1 \in 1..Len(free)
      BY <1>1, <3>1
    <3>3. QED
      BY <3>1, <3>2 DEF FreeSet
  <2>3. QED
    BY <2>1, <2>2 DEF FreeSet
<1>4. ASSUME NEW S \in SUBSET Index, closed(S) PROVE FreeSet \subseteq S
  <2> DEFINE Outside == {k \in 1..Len(free) : free[k] \notin S}
  <2>1. CASE Outside = {}
    BY <2>1 DEF FreeSet
  <2>2. CASE Outside # {}
    <3>1. PICK m \in Outside : \A k \in Outside : m <= k
      <4>1. Outside \subseteq Nat
        BY <1>1
      <4>2. QED
        BY <2>2, <4>1, LeastNumber
    <3>2. m \in 1..Len(free) /\ free[m] \in Index /\ free[m] \notin S
      BY <1>1
    <3>3. CASE m = 1
      BY <1>1, <1>4, <3>2, <3>3 DEF IInv, ListIntact
    <3>4. CASE m # 1
      <4>1. m - 1 \in 1..Len(free) /\ m - 1 # Len(free) /\ (m - 1) + 1 = m
        BY <1>1, <3>2, <3>4
      <4>2. free[m - 1] \in S
        BY <3>1, <4>1
      <4>3. next[free[m - 1]] = free[m]
        BY <4>1 DEF IInv, ListIntact
      <4>4. QED
        BY <1>4, <3>2, <4>2, <4>3
    <3>5. QED
      BY <3>3, <3>4
  <2>3. QED
    BY <2>1, <2>2
<1>5. \A i : i \in Linked <=> i \in Index /\ \A S \in SUBSET Index : closed(S) => i \in S
  BY DEF Linked
<1> HIDE DEF closed
<1>6. QED
  BY <1>2, <1>3, <1>4, <1>5

(* Every block is free unless it is held or on its way back. *)
LEMMA FreeIsTheRest == ASSUME IInv PROVE Linked = Index \ (held \cup Returning)
  BY LinkedIsFree DEF IInv, BlocksInv

LEMMA FreeIsTheRestNext == IInv' => Linked' = Index \ (held' \cup Returning')
<1>1. IInv => Linked = Index \ (held \cup Returning)
  BY FreeIsTheRest
<1>2. IInv' => (Linked = Index \ (held \cup Returning))'
  BY <1>1, PTL
<1>3. QED
  BY <1>2

(* The threads that are about to be told the pool is empty *)
Told == {p \in Threads : pc[p] = "alloc" /\ o[p].index = nullidx}

LEMMA InitRefines == Init => Abstract!Init
<1> SUFFICES ASSUME Init PROVE Abstract!Init
  OBVIOUS
<1>1. held = {} /\ Returning = {} /\ Told = {}
  BY DEF Init, Returning, Told
<1>2. Linked = Index
  BY <1>1, InitInv, FreeIsTheRest
<1>3. QED
  BY <1>1, <1>2 DEF Abstract!Init, Told

(* A thread that loads a head without a block sees the empty pool. *)
LEMMA LoadRefines ==
  ASSUME IInv, IInv', NEW p \in Threads, pc[p] \in {"idle", "alloc_cas"},
         LoadHead(p), Goto(p, "alloc"), UNCHANGED <<head, next, index, held, free>>
  PROVE  [Abstract!Next]_(Abstract!vars)
<1>1. Returning' = Returning
  BY DEF Returning, Goto, IInv, TypeOK
<1>2. Linked' = Linked
  BY <1>1, FreeIsTheRest, FreeIsTheRestNext
<1>3. CASE head.index = nullidx
  <2>1. Told' = Told \cup {p}
    BY <1>3 DEF Told, LoadHead, Goto, IInv, TypeOK
  <2>2. Linked = {}
    <3>1. Len(free) \in Nat /\ \A k \in 1..Len(free) : free[k] \in Index
      BY EmptySequence DEF IInv, TypeOK
    <3>2. Len(free) = 0
      <4>1. nullidx \notin Index
        BY PoolAssumption DEF Index, nullidx
      <4>2. QED
        BY <1>3, <3>1, <4>1 DEF IInv, ListIntact
    <3>3. QED
      BY <3>2, LinkedIsFree DEF FreeSet
  <2>3. Abstract!Tell(p)
    BY <1>1, <1>2, <2>1, <2>2 DEF Abstract!Tell, Told
  <2>4. QED
    BY <2>3 DEF Abstract!Next
<1>4. CASE head.index # nullidx
  <2>1. Told' = Told
    BY <1>4 DEF Told, LoadHead, Goto, IInv, TypeOK
  <2>2. QED
    BY <1>1, <1>2, <2>1 DEF Abstract!vars, Told
<1>5. QED
  BY <1>3, <1>4

LEMMA StepRefines ==
  ASSUME IInv, IInv', [Next]_vars
  PROVE  [Abstract!Next]_(Abstract!vars)
<1> USE DEF Goto
<1>1. ASSUME Returning' = Returning, held' = held, Told' = Told
      PROVE  UNCHANGED (Abstract!vars)
  BY <1>1, FreeIsTheRest, FreeIsTheRestNext DEF Abstract!vars, Told
<1>2. pc \in [Threads -> Labels] /\ o \in [Threads -> Heads] /\ index \in [Threads -> Index] /\ held \subseteq Index
  BY DEF IInv, TypeOK
<1>3. CASE UNCHANGED vars
  BY <1>1, <1>3 DEF vars, Returning, Told
<1>4. ASSUME NEW p \in Threads, AllocCall(p) \/ AllocRetry(p)
      PROVE  [Abstract!Next]_(Abstract!vars)
  BY <1>4, LoadRefines DEF AllocCall, AllocRetry, Retry
<1>5. ASSUME NEW p \in Threads, AllocEmpty(p)
      PROVE  [Abstract!Next]_(Abstract!vars)
  <2>1. Returning' = Returning
    BY <1>2, <1>5 DEF AllocEmpty, Returning
  <2>2. Told' = Told \ {p} /\ p \in Told
    BY <1>2, <1>5 DEF AllocEmpty, Told
  <2>3. Abstract!Fail(p)
    BY <1>5, <2>1, <2>2, FreeIsTheRest, FreeIsTheRestNext DEF AllocEmpty, Abstract!Fail, Told
  <2>4. QED
    BY <2>3 DEF Abstract!Next
<1>6. ASSUME NEW p \in Threads, AllocNext(p) \/ DeallocRetry(p) \/ DeallocLink(p)
      PROVE  [Abstract!Next]_(Abstract!vars)
  <2>1. Returning' = Returning /\ held' = held
    BY <1>2, <1>6 DEF AllocNext, DeallocRetry, Retry, DeallocLink, Returning
  <2>2. Told' = Told
    BY <1>2, <1>6 DEF AllocNext, DeallocRetry, Retry, LoadHead, DeallocLink, Told
  <2>3. QED
    BY <1>1, <2>1, <2>2
<1>7. ASSUME NEW p \in Threads, AllocExchange(p)
      PROVE  [Abstract!Next]_(Abstract!vars)
  <2> DEFINE i == o[p].index
  <2>1. i \in Linked
    BY <1>7, AllocExchangeInv, LinkedIsFree
  <2>2. held' = held \cup {i} /\ Returning' = Returning
    BY <1>2, <1>7 DEF AllocExchange, Exchange, Returning
  <2>3. Told' = Told
    BY <1>2, <1>7 DEF AllocExchange, Exchange, Told
  <2>4. i \in Index /\ Linked' = Linked \ {i}
    BY <2>1, <2>2, FreeIsTheRest, FreeIsTheRestNext
  <2>5. Abstract!Take(i)
    BY <2>1, <2>2, <2>3, <2>4 DEF Abstract!Take, Told
  <2>6. QED
    BY <2>4, <2>5 DEF Abstract!Next
<1>8. ASSUME NEW p \in Threads, NEW i \in Index, DeallocCall(p, i)
      PROVE  [Abstract!Next]_(Abstract!vars)
  <2>1. held' = held \ {i} /\ i \in held
    BY <1>8 DEF DeallocCall
  <2>2. Returning' = Returning \cup {i}
    BY <1>2, <1>8 DEF DeallocCall, Returning
  <2>3. Told' = Told
    BY <1>2, <1>8 DEF DeallocCall, LoadHead, Told
  <2>4. Linked' = Linked
    BY <2>1, <2>2, FreeIsTheRest, FreeIsTheRestNext
  <2>5. Abstract!Return(i)
    BY <2>1, <2>2, <2>3, <2>4 DEF Abstract!Return, Told
  <2>6. QED
    BY <2>5 DEF Abstract!Next
<1>9. ASSUME NEW p \in Threads, DeallocExchange(p)
      PROVE  [Abstract!Next]_(Abstract!vars)
  <2> DEFINE i == index[p]
  <2>1. held' = held /\ i \in Returning /\ i \in Index
    BY <1>2, <1>9 DEF DeallocExchange, Returning
  <2>2. Returning' = Returning \ {i}
    <3>1. \A q \in Threads \ {p} : pc'[q] = pc[q] /\ index'[q] = index[q]
      BY <1>2, <1>9 DEF DeallocExchange, Exchange
    <3>2. pc'[p] = "idle" /\ pc[p] = "dealloc_cas"
      BY <1>2, <1>9 DEF DeallocExchange, Exchange
    <3>3. \A q \in Threads \ {p} : pc[q] \in {"dealloc", "dealloc_cas"} => index[q] # i
      BY <3>2 DEF IInv, BlocksInv
    <3>4. QED
      BY <3>1, <3>2, <3>3 DEF Returning
  <2>3. Told' = Told
    BY <1>2, <1>9 DEF DeallocExchange, Exchange, Told
  <2>4. Linked' = Linked \cup {i}
    BY <2>1, <2>2, FreeIsTheRest, FreeIsTheRestNext DEF IInv, BlocksInv
  <2>5. Abstract!Give(i)
    BY <2>1, <2>2, <2>3, <2>4 DEF Abstract!Give, Told
  <2>6. QED
    BY <2>1, <2>5 DEF Abstract!Next
<1>10. ASSUME NEW i \in Index, NEW data \in 0..nblocks, UserWrite(i, data)
       PROVE  [Abstract!Next]_(Abstract!vars)
  <2>1. Returning' = Returning /\ held' = held /\ Told' = Told
    BY <1>10 DEF UserWrite, Returning, Told
  <2>2. QED
    BY <1>1, <2>1
<1>11. QED
  BY <1>3, <1>4, <1>5, <1>6, <1>7, <1>8, <1>9, <1>10 DEF Next

(* The pool implements IndexPool: each of its steps takes, returns or gives
   back one block, tells a thread that nothing is free when that is so, or
   changes nothing the program can see. *)
THEOREM PoolImplementsIndexPool == Spec => ImplementsIndexPool
<1>1. QED
  BY InitRefines, StepRefines, PoolInvariant, PTL DEF Spec, ImplementsIndexPool, Abstract!Spec
=============================================================================
