------------------------- MODULE ConcurrentQueue_proofs --------------------------
(***************************************************************************)
(* Proofs about ConcurrentQueue, for any threads, nodes, values and number *)
(* of pushes.  Under two hypotheses none is lost or freed twice and the    *)
(* queue is a FifoQueue: SafeReuse, and ~LowMemory, so that no link of the *)
(* pool's free list is null.  The code ensures neither.                    *)
(***************************************************************************)
EXTENDS ConcurrentQueue, SequenceTheorems, FiniteSetTheorems, WellFoundedInduction, TLAPS

---------------------------------------------------------------------------
(* The queue *)

(* The nodes of s are the queue, the dummy first. *)
Intact(s) ==
  /\ s \in Seq(Nodes)
  /\ \A j, k \in 1..Len(s) : s[j] = s[k] => j = k
  /\ Len(s) # 0 /\ head = s[1]
  /\ \A k \in 1..Len(s) : next[s[k]] = IF k = Len(s) THEN None ELSE s[k + 1]

Most == Cardinality(Nodes)

(* How many nodes a walk from head passes, and which *)
Size ==
  CHOOSE k \in 0..Most : /\ k < Most => Walk[k] = None
                         /\ \A j \in 0..(k - 1) : Walk[j] # None

Chain == [k \in 1..Size |-> Walk[k - 1]]

LEMMA MostType == Most \in Nat
  BY QueueAssumption, FS_CardinalityType DEF Most

(* Every set of numbers with a member has a least one. *)
LEMMA LeastNumber ==
  ASSUME NEW S, S \subseteq Nat, S # {}
  PROVE  \E m \in S : \A n \in S : m <= n
<1>1. PICK m \in S : \A n \in S : <<n, m>> \notin OpToRel(<, Nat)
  BY NatLessThanWellFounded, WFMin
<1>2. ASSUME NEW n \in S PROVE m <= n
  <2>1. m \in Nat /\ n \in Nat
    OBVIOUS
  <2>2. n < m => <<n, m>> \in OpToRel(<, Nat)
    BY <2>1 DEF OpToRel
  <2>3. ~(n < m)
    BY <1>1, <2>2
  <2>4. QED
    BY <2>1, <2>3
<1>3. QED
  BY <1>2

LEMMA WalkTurns ==
  ASSUME \E W : W = [k \in 0..Most |-> IF k = 0 THEN head
                         ELSE IF W[k - 1] \notin Nodes THEN None ELSE next[W[k - 1]]]
  PROVE  Walk = [k \in 0..Most |->
           IF k = 0 THEN head
           ELSE IF Walk[k - 1] \notin Nodes THEN None ELSE next[Walk[k - 1]]]
  BY MostType DEF Walk, Most

(* Who walks a queue that is intact passes its nodes. *)
LEMMA WalkPasses ==
  ASSUME NEW s, Intact(s)
  PROVE  /\ Len(s) \in 0..Most
         /\ DOMAIN Walk = 0..Most
         /\ \A k \in 0..Most : Walk[k] = IF k < Len(s) THEN s[k + 1] ELSE None
<1> DEFINE n == Len(s)
           W == [k \in 0..Most |-> IF k < n THEN s[k + 1] ELSE None]
<1>1. n \in Nat /\ s \in [1..n -> Nodes] /\ Most \in Nat
  BY MostType, LenProperties DEF Intact
<1>2. n <= Most
  <2>1. s \in Injection(1..n, Nodes)
    BY <1>1 DEF Intact, Injection, IsInjective
  <2>2. Cardinality(1..n) = n
    BY <1>1, FS_Interval
  <2>3. QED
    BY <2>1, <2>2, QueueAssumption, FS_Injection DEF Most
<1>3. \A k \in 0..Most : W[k] = IF k < n THEN s[k + 1] ELSE None
  OBVIOUS
<1> HIDE DEF W
<1>4. ASSUME NEW k \in 0..Most
      PROVE  W[k] = IF k = 0 THEN head ELSE IF W[k - 1] \notin Nodes THEN None ELSE next[W[k - 1]]
  <2>1. CASE k = 0
    <3>1. head = s[1] /\ 0 < n
      <4>1. head = s[1] /\ n # 0
        BY DEF Intact
      <4>2. n \in Nat
        BY <1>1
      <4>3. QED
        BY <4>1, <4>2
    <3>2. W[0] = IF 0 < n THEN s[1] ELSE None
      BY <1>1, <1>3
    <3>3. QED
      BY <2>1, <3>1, <3>2
  <2>2. CASE k # 0 /\ k - 1 < n
    <3>1. k \in 1..n /\ k - 1 \in 0..Most /\ W[k - 1] = s[k] /\ s[k] # None /\ (k = n \/ k < n)
      <4>1. k \in 1..n /\ k - 1 \in 0..Most /\ (k - 1) + 1 = k
        BY <1>1, <2>2
      <4>2. k = n \/ k < n
        <5>1. n \in Nat
          BY <1>1
        <5>2. k \in 1..n
          BY <4>1
        <5>3. QED
          BY <5>1, <5>2
      <4>3. QED
        BY <1>1, <1>3, <2>2, <4>1, <4>2, QueueAssumption
    <3>2. next[s[k]] = IF k = n THEN None ELSE s[k + 1]
      BY <3>1 DEF Intact
    <3>3. W[k] = next[s[k]]
      <4>1. W[k] = IF k < n THEN s[k + 1] ELSE None
        BY <1>3
      <4>2. k = n \/ k # n
        OBVIOUS
      <4>3. k = n => W[k] = None /\ next[s[k]] = None
        BY <1>1, <3>2, <4>1
      <4>4. k # n => W[k] = s[k + 1] /\ next[s[k]] = s[k + 1]
        BY <3>1, <3>2, <4>1
      <4>5. QED
        BY <4>2, <4>3, <4>4
    <3>4. s[k] \in Nodes
      BY <1>1, <3>1
    <3>5. QED
      BY <2>2, <3>1, <3>3, <3>4
  <2>3. CASE k # 0 /\ ~(k - 1 < n)
    <3>1. k - 1 \in 0..Most /\ ~(k < n)
      BY <1>1, <2>3
    <3>2. QED
      BY <1>3, <2>3, <3>1, QueueAssumption
  <2>4. QED
    BY <2>1, <2>2, <2>3
<1>5. W = [k \in 0..Most |-> IF k = 0 THEN head
                             ELSE IF W[k - 1] \notin Nodes THEN None ELSE next[W[k - 1]]]
  BY <1>4 DEF W
<1> DEFINE V == Walk
<1>6. V = [k \in 0..Most |-> IF k = 0 THEN head
                             ELSE IF V[k - 1] \notin Nodes THEN None ELSE next[V[k - 1]]]
  <2>1. \E w : w = [k \in 0..Most |-> IF k = 0 THEN head
                                      ELSE IF w[k - 1] \notin Nodes THEN None ELSE next[w[k - 1]]]
    BY <1>5
  <2>2. QED
    BY <2>1, WalkTurns
<1> HIDE DEF V
<1>7. ASSUME NEW k \in 0..Most
      PROVE  V[k] = IF k = 0 THEN head ELSE IF V[k - 1] \notin Nodes THEN None ELSE next[V[k - 1]]
  BY <1>6
<1>8. \A k \in 0..Most : V[k] = W[k]
  <2> DEFINE Off == {k \in 0..Most : V[k] # W[k]}
  <2>1. SUFFICES ASSUME Off # {} PROVE FALSE
    OBVIOUS
  <2>2. PICK k \in Off : \A l \in Off : k <= l
    <3>1. Off \subseteq Nat
      BY <1>1
    <3>2. QED
      BY <2>1, <3>1, LeastNumber
  <2>3. k = 0 \/ (k - 1 \in 0..Most /\ V[k - 1] = W[k - 1])
    BY <1>1, <2>2
  <2>4. QED
    BY <1>4, <1>7, <2>2, <2>3
<1>9. QED
  BY <1>1, <1>2, <1>3, <1>6, <1>8 DEF V

LEMMA ChainIs == ASSUME NEW s, Intact(s) PROVE Chain = s
<1> DEFINE n == Len(s)
<1>1. /\ n \in 0..Most /\ Most \in Nat /\ s \in [1..n -> Nodes]
      /\ \A k \in 0..Most : Walk[k] = IF k < n THEN s[k + 1] ELSE None
  BY WalkPasses, MostType, LenProperties DEF Intact
<1>2. \A k \in 1..n : s[k] # None
  BY <1>1, QueueAssumption
<1>3. \A k \in 0..Most : Walk[k] = None <=> k >= n
  BY <1>1, <1>2
<1>4. Size = n
  <2> DEFINE size(k) == /\ k < Most => Walk[k] = None
                        /\ \A j \in 0..(k - 1) : Walk[j] # None
  <2>1. size(n)
    BY <1>1, <1>3
  <2>2. ASSUME NEW k \in 0..Most, size(k) PROVE k = n
    <3>1. ~(k < n)
      BY <1>1, <1>3, <2>2
    <3>2. ~(n < k)
      <4>1. n < k => n \in 0..(k - 1) /\ n \in 0..Most
        BY <1>1
      <4>2. QED
        BY <1>3, <2>2, <4>1
    <3>3. k \in Nat /\ n \in Nat
      BY <1>1
    <3>4. QED
      BY <3>1, <3>2, <3>3
  <2>3. Size = CHOOSE k \in 0..Most : size(k)
    BY MostType DEF Size
  <2> HIDE DEF size
  <2>4. QED
    BY <1>1, <2>1, <2>2, <2>3
<1>5. Chain = [k \in 1..n |-> Walk[k - 1]]
  BY <1>4 DEF Chain
<1>6. \A k \in 1..n : k - 1 \in 0..Most /\ Walk[k - 1] = s[k]
  BY <1>1
<1>7. QED
  BY <1>1, <1>5, <1>6

LEMMA ChainIsNext == \A s : Intact(s)' => Chain' = s
<1>1. \A s : Intact(s) => Chain = s
  BY ChainIs
<1>2. (\A s : Intact(s) => Chain = s)'
  BY <1>1, PTL
<1>3. QED
  BY <1>2

LEMMA ReachedIs ==
  ASSUME NEW s, Intact(s)
  PROVE  \A x : x \in Reached <=> \E k \in 1..Len(s) : s[k] = x
<1> DEFINE n == Len(s)
<1>1. /\ n \in 0..Most /\ Most \in Nat /\ s \in [1..n -> Nodes]
      /\ \A k \in 0..Most : Walk[k] = IF k < n THEN s[k + 1] ELSE None
  BY WalkPasses, MostType, LenProperties DEF Intact
<1>2. n # 0 /\ None \notin Nodes
  BY QueueAssumption DEF Intact
<1>3. DOMAIN Walk = 0..Most
  BY WalkPasses
<1>4. ASSUME NEW x, x \in Reached PROVE \E k \in 1..n : s[k] = x
  <2>1. PICK k \in 0..Most : Walk[k] = x /\ x # None
    BY <1>2, <1>3, <1>4 DEF Reached
  <2>2. k < n /\ s[k + 1] = x
    BY <1>1, <2>1
  <2>3. k + 1 \in 1..n
    BY <1>1, <2>2
  <2>4. QED
    BY <2>2, <2>3
<1>5. ASSUME NEW k \in 1..n PROVE s[k] \in Reached
  <2>1. k - 1 \in 0..Most /\ k - 1 < n /\ (k - 1) + 1 = k
    BY <1>1
  <2>2. Walk[k - 1] = s[k] /\ s[k] \in Nodes
    BY <1>1, <2>1
  <2>3. QED
    BY <1>3, <2>1, <2>2 DEF Reached
<1>6. QED
  BY <1>4, <1>5

LEMMA ElementsAre ==
  ASSUME NEW s, Intact(s)
  PROVE  Elements = [k \in 1..(Len(s) - 1) |-> value[s[k + 1]]]
<1> DEFINE n == Len(s)
           last == CHOOSE k \in DOMAIN Walk :
                     Walk[k] \in Nodes /\ \A j \in DOMAIN Walk : Walk[j] \in Nodes => j <= k
<1>1. /\ n \in 0..Most /\ Most \in Nat /\ s \in [1..n -> Nodes]
      /\ \A k \in 0..Most : Walk[k] = IF k < n THEN s[k + 1] ELSE None
  BY WalkPasses, MostType, LenProperties DEF Intact
<1>2. n # 0 /\ None \notin Nodes
  BY QueueAssumption DEF Intact
<1>3. DOMAIN Walk = 0..Most
  BY WalkPasses
<1>4. \A k \in 0..Most : Walk[k] \in Nodes <=> k < n
  <2>1. \A k \in 0..Most : k < n => k + 1 \in 1..n
    BY <1>1
  <2>2. QED
    BY <1>1, <1>2, <2>1
<1>5. n - 1 \in 0..Most /\ n - 1 < n /\ \A j \in 0..Most : j < n <=> j <= n - 1
  BY <1>1, <1>2
<1>6. last = n - 1
  <2>1. \A k \in 0..Most : (Walk[k] \in Nodes /\ \A j \in 0..Most : Walk[j] \in Nodes => j <= k)
                             <=> k = n - 1
    BY <1>4, <1>5
  <2>2. QED
    BY <1>3, <1>5, <2>1
<1>7. Elements = [k \in 1..(n - 1) |-> value[Walk[k]]]
  BY <1>6 DEF Elements
<1>8. \A k \in 1..(n - 1) : k \in 0..Most /\ k < n
  BY <1>1
<1>9. QED
  BY <1>1, <1>7, <1>8
---------------------------------------------------------------------------
(* The inductive invariant *)

Words == Nodes \cup {None, FreeLink}

Regs == [n : Nodes \cup {None}, h : Nodes \cup {None}, t : Nodes \cup {None},
         next : Words, last : Nodes \cup {None}, val : Values \cup {None}]

Labels == {"idle", "push", "push_next", "push_check", "push_last", "push_link", "push_help",
           "push_swing", "pop", "pop_tail", "pop_next", "pop_check", "pop_help", "pop_copy",
           "pop_cas", "pop_free", "pop_move", "pop_flag_next", "pop_flag_head"}

TypeOK ==
  /\ trivial_dtor \in BOOLEAN
  /\ head \in Nodes /\ tail \in Nodes
  /\ next \in [Nodes -> Words]
  /\ value \in [Nodes -> Values \cup {None}]
  /\ flag \in [Nodes -> BOOLEAN]
  /\ free \subseteq Nodes
  /\ pc \in [Threads -> Labels]
  /\ reg \in [Threads -> Regs]

(* x leads to y along the queue. *)
Leads(x, y) == \E j, k \in 1..Len(Chain) : j <= k /\ Chain[j] = x /\ Chain[k] = y

(* The queue ends in None, and tail is its last node or the one before. *)
QueueInv ==
  /\ Intact(Chain)
  /\ tail \in Reached
  /\ next[tail] # None => next[next[tail]] = None

(* p is about to link n; has n to give back or to mark, the former head; has
   the element of n and has n to mark. *)
Pushes(p, n) == Pushing(p) /\ reg[p].n = n
Gives(p, n) == pc[p] \in {"pop_free", "pop_move", "pop_flag_next", "pop_flag_head"} /\ reg[p].h = n
Marks(p, n) == pc[p] \in {"pop_move", "pop_flag_next"} /\ reg[p].next = n

Fresh(n) == \E p \in Threads : Pushes(p, n)

(* A node is in one place, and in some. *)
PlaceInv ==
  /\ \A p \in Threads : \A n \in Nodes :
       /\ Pushes(p, n) => n \notin free /\ n \notin Reached /\ next[n] = None
       /\ Gives(p, n) => n \notin free /\ n \notin Reached
       /\ Marks(p, n) => n \notin free /\ ~Fresh(n) /\ (n \in Reached => n = head)
       /\ \A q \in Threads : (Pushes(p, n) /\ Pushes(q, n)) \/ (Gives(p, n) /\ Gives(q, n))
                               \/ (Marks(p, n) /\ Marks(q, n)) => p = q
  /\ \A n \in Nodes : n \in free => n \notin Reached
  /\ \A n \in Nodes : n \in free \/ n \in Reached \/ Fresh(n)
                        \/ \E p \in Threads : Gives(p, n) \/ Marks(p, n)

(* The flag of a node is set by the first of the two that are done with it. *)
FlagInv ==
  ~trivial_dtor =>
    \A n \in Nodes :
      /\ Fresh(n) => ~flag[n]
      /\ n \in Reached /\ n # head => ~flag[n]
      /\ \A p \in Threads : Marks(p, n) /\ n = head => ~flag[n]
      /\ \A p, q \in Threads : Marks(p, n) /\ Gives(q, n) => ~flag[n]
      /\ ~flag[n] /\ n = head => \E p \in Threads : Marks(p, n)
      /\ \A p \in Threads : Gives(p, n) /\ ~flag[n] => \E q \in Threads : Marks(q, n)
      /\ \A p \in Threads : Marks(p, n) /\ ~flag[n] => n = head \/ \E q \in Threads : Gives(q, n)

(* As nothing is created anew that a thread refers to, a node it has read from
   head or tail is not being pushed, and if no link leaves it, it is the last. *)
Seen(x) == x # None => ~Fresh(x) /\ (next[x] = None => x \in Reached)

Past(x) == x \in Reached => Leads(x, tail)

(* What a thread knows at l with the local variables r *)
Knows(l, r) ==
  /\ Seen(r.h) /\ Seen(r.t) /\ Seen(r.last)
  /\ r.h \in Reached => r.h = head
  /\ Past(r.t) /\ Past(r.last)
  /\ l \in {"push", "push_next", "push_check", "push_last", "push_link", "push_help", "push_swing"}
       => r.n # None
  /\ l \in {"pop_tail", "pop_next", "pop_check", "pop_help", "pop_copy", "pop_cas", "pop_free",
            "pop_move", "pop_flag_next", "pop_flag_head"} => r.h # None
  /\ l \in {"push_next", "push_check", "push_last", "push_link", "push_help", "push_swing"}
       => r.t # None
  /\ l \in {"push_check", "push_help"} /\ r.next # None /\ r.t \in Reached
       => next[r.t] = r.next
  /\ l = "push_help" => r.next # None
  /\ l \in {"push_last", "push_link"} => r.next = None
  /\ l = "push_link" => r.last # None /\ (r.last # r.t => tail # r.t)
  /\ l = "push_swing" /\ tail = r.t => next[r.t] = r.n
  /\ l \in {"pop_check", "pop_help", "pop_copy", "pop_cas"} /\ r.next # None /\ r.h = head
       => next[r.h] = r.next
  /\ l \in {"pop_next", "pop_check", "pop_copy", "pop_cas"} /\ r.h = head /\ r.h # r.t
       => tail # head
  /\ l = "pop_check" /\ r.h = head /\ r.h # r.t => r.next # None
  /\ l = "pop_help" => r.t = r.h /\ r.next # None
  /\ l \in {"pop_copy", "pop_cas"} => r.next \in Nodes /\ r.h # r.t
  /\ l \in {"pop_move", "pop_flag_next", "pop_flag_head"} => r.next \in Nodes /\ ~trivial_dtor
  /\ l \in {"pop_copy", "pop_free"} => trivial_dtor

KnownInv == \A p \in Threads : \A l \in {pc[p]}, r \in {reg[p]} : Knows(l, r)

(* An element stays in its node until the thread that takes it has it. *)
Holds(l, r) ==
  /\ l = "pop_move" => value[r.next] \in Values
  /\ l \in {"pop_free", "pop_flag_next", "pop_flag_head"} => r.val \in Values
  /\ l = "pop_cas" /\ trivial_dtor /\ r.h = head => r.val = value[r.next]

ValueInv ==
  /\ \A n \in Nodes : Fresh(n) \/ (n \in Reached /\ n # head) => value[n] \in Values
  /\ \A p \in Threads : \A l \in {pc[p]}, r \in {reg[p]} : Holds(l, r)

IInv == TypeOK /\ QueueInv /\ PlaceInv /\ FlagInv /\ KnownInv /\ ValueInv

---------------------------------------------------------------------------
(* The steps of the queue *)

LEMMA ReachedIsNext ==
  \A s : Intact(s)' => \A x : x \in Reached' <=> \E k \in 1..Len(s) : s[k] = x
<1>1. \A s : Intact(s) => \A x : x \in Reached <=> \E k \in 1..Len(s) : s[k] = x
  BY ReachedIs
<1>2. (\A s : Intact(s) => \A x : x \in Reached <=> \E k \in 1..Len(s) : s[k] = x)'
  BY <1>1, PTL
<1>3. QED
  BY <1>2

LEMMA ElementsAreNext ==
  \A s : Intact(s)' => Elements' = [k \in 1..(Len(s) - 1) |-> value'[s[k + 1]]]
<1>1. \A s : Intact(s) => Elements = [k \in 1..(Len(s) - 1) |-> value[s[k + 1]]]
  BY ElementsAre
<1>2. (\A s : Intact(s) => Elements = [k \in 1..(Len(s) - 1) |-> value[s[k + 1]]])'
  BY <1>1, PTL
<1>3. QED
  BY <1>2

LEMMA QueueFacts ==
  ASSUME Intact(Chain)
  PROVE  /\ Chain \in Seq(Nodes) /\ Len(Chain) \in Nat /\ 1 \in 1..Len(Chain) /\ head = Chain[1]
         /\ \A x : x \in Reached <=> \E k \in 1..Len(Chain) : Chain[k] = x
         /\ head \in Reached /\ Reached \subseteq Nodes /\ None \notin Reached
         /\ \A x \in Reached :
              next[x] # None => next[x] \in Reached /\ next[x] # head /\ next[x] # x
<1> DEFINE s == Chain
           n == Len(s)
<1>1. s \in Seq(Nodes) /\ n \in Nat /\ n # 0 /\ head = s[1] /\ s \in [1..n -> Nodes]
  BY LenProperties DEF Intact
<1>2. 1 \in 1..n
  BY <1>1
<1>3. \A x : x \in Reached <=> \E k \in 1..n : s[k] = x
  BY ReachedIs
<1>4. head \in Reached /\ Reached \subseteq Nodes /\ None \notin Reached
  BY <1>1, <1>2, <1>3, QueueAssumption
<1>5. ASSUME NEW x \in Reached, next[x] # None
      PROVE  next[x] \in Reached /\ next[x] # head /\ next[x] # x
  <2>1. PICK k \in 1..n : s[k] = x
    BY <1>3
  <2>2. k # n /\ next[x] = s[k + 1]
    BY <1>5, <2>1 DEF Intact
  <2>3. n \in Nat /\ k # n
    BY <1>1, <2>2
  <2> HIDE DEF s, n
  <2>3a. k + 1 \in 1..n /\ k + 1 # 1 /\ k + 1 # k
    BY <2>3
  <2> USE DEF s, n
  <2>4. QED
    BY <1>1, <1>2, <1>3, <2>1, <2>2, <2>3a DEF Intact
<1>6. QED
  BY <1>1, <1>2, <1>3, <1>4, <1>5

(* A step that leaves head and the links of the queue alone *)
LEMMA QueueKept ==
  ASSUME Intact(Chain), head' = head, \A x \in Reached : next'[x] = next[x]
  PROVE  /\ Intact(Chain)' /\ Chain' = Chain /\ Reached' = Reached
         /\ \A x, y : Leads(x, y) => Leads(x, y)'
         /\ (\A x \in Reached : x # head => value'[x] = value[x]) => Elements' = Elements
<1>1. PICK s : s = Chain
  OBVIOUS
<1>2. /\ Intact(s) /\ \A k \in 1..Len(s) : s[k] \in Reached
      /\ \A x : x \in Reached <=> \E k \in 1..Len(s) : s[k] = x
  BY <1>1, QueueFacts
<1>3. Intact(s)'
  BY <1>2 DEF Intact
<1>4. Chain' = s
  BY <1>3, ChainIsNext
<1>5. Intact(Chain)'
  BY <1>3, <1>4 DEF Intact
<1>6. Reached' = Reached
  BY <1>2, <1>3, ReachedIsNext
<1>7. ASSUME \A x \in Reached : x # head => value'[x] = value[x] PROVE Elements' = Elements
  <2>1. \A k \in 1..(Len(s) - 1) : k + 1 \in 1..Len(s) /\ k + 1 # 1 /\ 1 \in 1..Len(s)
    BY <1>1, QueueFacts
  <2>2. \A k \in 1..(Len(s) - 1) : s[k + 1] \in Reached /\ s[k + 1] # head
    BY <1>2, <2>1 DEF Intact
  <2>3. \A k \in 1..(Len(s) - 1) : value'[s[k + 1]] = value[s[k + 1]]
    BY <1>7, <2>2
  <2>4. Elements = [k \in 1..(Len(s) - 1) |-> value[s[k + 1]]]
    BY <1>2, ElementsAre
  <2>5. Elements' = [k \in 1..(Len(s) - 1) |-> value'[s[k + 1]]]
    BY <1>3, ElementsAreNext
  <2>6. QED
    BY <2>3, <2>4, <2>5
<1>8. QED
  BY <1>1, <1>4, <1>5, <1>6, <1>7 DEF Leads

(* push() links a node behind the last one. *)
LEMMA QueueLinked ==
  ASSUME Intact(Chain), NEW l \in Reached, next[l] = None, NEW n \in Nodes \ Reached,
         head' = head, next'[l] = n, next'[n] = None, \A x \in Reached : x # l => next'[x] = next[x]
  PROVE  /\ Intact(Chain)' /\ Reached' = Reached \cup {n}
         /\ \A x, y : Leads(x, y) => Leads(x, y)'
         /\ value' = value => Elements' = Append(Elements, value[n])
<1>1. PICK s : s = Chain
  OBVIOUS
<1> DEFINE m == Len(s)
           g == Append(s, n)
<1>2. /\ Intact(s) /\ s \in Seq(Nodes) /\ m \in Nat /\ 1 \in 1..m
      /\ \A x : x \in Reached <=> \E k \in 1..m : s[k] = x
  BY <1>1, QueueFacts
<1>3. m \in 1..m
  BY <1>2
<1>4. l = s[m] /\ \A k \in 1..m : k # m => s[k] # l
  <2>1. PICK k \in 1..m : s[k] = l
    BY <1>2
  <2>2. k = m
    <3>1. k # m => next[l] = s[k + 1] /\ k + 1 \in 1..m
      BY <1>2, <2>1 DEF Intact
    <3>2. k # m => next[l] \in Nodes
      BY <1>2, <3>1, QueueFacts
    <3>3. QED
      BY <3>2, QueueAssumption
  <2>3. QED
    BY <1>2, <1>3, <2>1, <2>2 DEF Intact
<1>5. /\ g \in Seq(Nodes) /\ Len(g) = m + 1 /\ g[m + 1] = n
      /\ \A k \in 1..m : g[k] = s[k]
  BY <1>2
<1> HIDE DEF g
<1>6. \A k \in 1..(m + 1) : k \in 1..m \/ k = m + 1
  BY <1>2
<1>7. \A j, k \in 1..(m + 1) : g[j] = g[k] => j = k
  <2>1. \A k \in 1..m : s[k] # n
    BY <1>2
  <2>2. \A j, k \in 1..m : s[j] = s[k] => j = k
    BY <1>2 DEF Intact
  <2>3. ASSUME NEW j \in 1..(m + 1), NEW k \in 1..(m + 1), g[j] = g[k] PROVE j = k
    <3>1. CASE j \in 1..m /\ k \in 1..m
      BY <1>5, <2>2, <2>3, <3>1
    <3>2. CASE j \in 1..m /\ k = m + 1
      BY <1>5, <2>1, <2>3, <3>2
    <3>3. CASE j = m + 1 /\ k \in 1..m
      BY <1>5, <2>1, <2>3, <3>3
    <3>4. QED
      BY <1>6, <3>1, <3>2, <3>3
  <2>4. QED
    BY <2>3
<1>8. \A k \in 1..(m + 1) : next'[g[k]] = IF k = m + 1 THEN None ELSE g[k + 1]
  <2>1. ASSUME NEW k \in 1..m PROVE next'[g[k]] = g[k + 1]
    <3>1. CASE k = m
      BY <1>3, <1>4, <1>5, <3>1
    <3>2. CASE k # m
      <4>1. k + 1 \in 1..m
        BY <1>2, <3>2
      <4>2. next[s[k]] = s[k + 1]
        BY <1>2, <3>2 DEF Intact
      <4>3. next'[s[k]] = next[s[k]]
        BY <1>2, <1>4, <3>2
      <4>4. QED
        BY <1>5, <4>1, <4>2, <4>3
    <3>3. QED
      BY <3>1, <3>2
  <2>2. \A k \in 1..m : k # m + 1
    BY <1>2
  <2>3. QED
    BY <1>5, <1>6, <2>1, <2>2
<1>9. Intact(g)'
  <2>1. Len(g) # 0 /\ head' = g[1]
    BY <1>2, <1>5 DEF Intact
  <2>2. QED
    BY <1>5, <1>7, <1>8, <2>1 DEF Intact
<1>10. Chain' = g
  <2>1. PICK u : u = g
    OBVIOUS
  <2>2. Intact(u)'
    BY <1>9, <2>1 DEF Intact
  <2>3. QED
    BY <2>1, <2>2, ChainIsNext
<1>11. PICK u : u = g
  OBVIOUS
<1>12. Intact(u)'
  BY <1>9, <1>11 DEF Intact
<1>13. Chain' = u /\ Intact(Chain)'
  <2>1. Chain' = u
    BY <1>12, ChainIsNext
  <2>2. QED
    BY <1>12, <2>1 DEF Intact
<1>14. Reached' = Reached \cup {n}
  <2>1. \A x : x \in Reached' <=> \E k \in 1..(m + 1) : g[k] = x
    BY <1>5, <1>11, <1>12, ReachedIsNext
  <2>2. m + 1 \in 1..(m + 1) /\ \A k \in 1..m : k \in 1..(m + 1)
    BY <1>2
  <2>3. QED
    BY <1>2, <1>5, <1>6, <2>1, <2>2
<1>15. ASSUME NEW x, NEW y, Leads(x, y) PROVE Leads(x, y)'
  <2>1. PICK j, k \in 1..m : j <= k /\ s[j] = x /\ s[k] = y
    BY <1>1, <1>15 DEF Leads
  <2>2. j \in 1..Len(u) /\ k \in 1..Len(u) /\ u[j] = x /\ u[k] = y
    BY <1>2, <1>5, <1>11, <2>1
  <2>3. QED
    BY <1>13, <2>1, <2>2 DEF Leads
<1>16. ASSUME value' = value PROVE Elements' = Append(Elements, value[n])
  <2>1. PICK i \in Nat : m = i + 1 /\ m - 1 = i
    <3>1. m - 1 \in Nat /\ m = (m - 1) + 1
      BY <1>2
    <3>2. QED
      BY <3>1
  <2>2. Elements = [k \in 1..i |-> value[s[k + 1]]]
    BY <1>2, <2>1, ElementsAre
  <2>3. Elements' = [k \in 1..m |-> value[g[k + 1]]]
    <3>1. Len(u) - 1 = m
      BY <1>2, <1>5, <1>11
    <3>2. Elements' = [k \in 1..(Len(u) - 1) |-> value'[u[k + 1]]]
      BY <1>12, ElementsAreNext
    <3>3. QED
      BY <1>11, <1>16, <3>1, <3>2
  <2>4. Len(Elements) = i
    BY <2>1, <2>2
  <2>5. Append(Elements, value[n]) = [k \in 1..m |-> IF k = m THEN value[n] ELSE Elements[k]]
    BY <2>1, <2>4 DEF Append
  <2>6. ASSUME NEW k \in 1..m PROVE value[g[k + 1]] = IF k = m THEN value[n] ELSE Elements[k]
    <3>1. k = m => g[k + 1] = n
      BY <1>5
    <3>2. k # m => k \in 1..i /\ k + 1 \in 1..m
      BY <1>2, <2>1
    <3>3. k # m => Elements[k] = value[g[k + 1]]
      BY <1>5, <2>2, <3>2
    <3>4. QED
      BY <3>1, <3>3
  <2>7. QED
    BY <2>3, <2>5, <2>6
<1>17. QED
  BY <1>13, <1>14, <1>15, <1>16

(* try_pop() makes the node behind the dummy the dummy. *)
LEMMA QueuePopped ==
  ASSUME Intact(Chain), next[head] # None, head' = next[head], next' = next
  PROVE  /\ Intact(Chain)' /\ Reached' = Reached \ {head}
         /\ \A x, y : Leads(x, y) /\ x # head => Leads(x, y)'
         /\ value' = value => /\ Elements # <<>> /\ Head(Elements) = value[next[head]]
                              /\ Elements' = Tail(Elements)
<1>1. PICK s : s = Chain
  OBVIOUS
<1> DEFINE m == Len(s)
           g == Tail(s)
<1>2. /\ Intact(s) /\ s \in Seq(Nodes) /\ m \in Nat /\ 1 \in 1..m /\ head = s[1]
      /\ \A x : x \in Reached <=> \E k \in 1..m : s[k] = x
  BY <1>1, QueueFacts
<1>3. 1 # m /\ next[head] = s[1 + 1]
  BY <1>2 DEF Intact
<1>4. PICK i \in Nat : m = i + 1 /\ m - 1 = i /\ i # 0
  <2>1. m - 1 \in Nat /\ m = (m - 1) + 1 /\ m - 1 # 0
    BY <1>2, <1>3
  <2>2. QED
    BY <2>1
<1>5. g \in Seq(Nodes) /\ Len(g) = i /\ \A k \in 1..i : g[k] = s[k + 1]
  <2>1. s # <<>>
    BY <1>2
  <2>2. QED
    BY <1>2, <1>4, <2>1
<1> HIDE DEF g
<1>6. \A k \in 1..i : k + 1 \in 1..m /\ k + 1 # 1 /\ (k = i <=> k + 1 = m)
  BY <1>4
<1>7. 1 \in 1..i /\ g[1] = s[1 + 1]
  BY <1>4, <1>5
<1>8. \A j, k \in 1..i : g[j] = g[k] => j = k
  <2>1. ASSUME NEW j \in 1..i, NEW k \in 1..i, g[j] = g[k] PROVE j = k
    <3>1. s[j + 1] = s[k + 1]
      BY <1>5, <2>1
    <3>2. j + 1 = k + 1
      BY <1>2, <1>6, <3>1 DEF Intact
    <3>3. j \in Nat /\ k \in Nat
      OBVIOUS
    <3>4. QED
      BY <3>2, <3>3
  <2>2. QED
    BY <2>1
<1>9. \A k \in 1..i : next'[g[k]] = IF k = i THEN None ELSE g[k + 1]
  <2>1. ASSUME NEW k \in 1..i PROVE next'[g[k]] = IF k = i THEN None ELSE g[k + 1]
    <3>1. next'[g[k]] = IF k + 1 = m THEN None ELSE s[(k + 1) + 1]
      BY <1>2, <1>5, <1>6 DEF Intact
    <3>2. k # i => k + 1 \in 1..i
      BY <1>4
    <3>3. k # i => g[k + 1] = s[(k + 1) + 1]
      BY <1>5, <3>2
    <3>4. QED
      BY <1>6, <3>1, <3>3
  <2>2. QED
    BY <2>1
<1>10. PICK u : u = g
  OBVIOUS
<1>11. Intact(u)'
  <2>1. Len(u) = i /\ Len(u) # 0 /\ head' = u[1]
    BY <1>3, <1>4, <1>5, <1>7, <1>10
  <2>2. QED
    BY <1>5, <1>8, <1>9, <1>10, <2>1 DEF Intact
<1>12. Chain' = u /\ Intact(Chain)'
  <2>1. Chain' = u
    BY <1>11, ChainIsNext
  <2>2. QED
    BY <1>11, <2>1 DEF Intact
<1>13. \A k \in 1..m : k = 1 \/ (k - 1 \in 1..i /\ (k - 1) + 1 = k)
  BY <1>4
<1>14. Reached' = Reached \ {head}
  <2>1. \A x : x \in Reached' <=> \E k \in 1..i : g[k] = x
    BY <1>5, <1>10, <1>11, ReachedIsNext
  <2>2. ASSUME NEW x, x \in Reached' PROVE x \in Reached /\ x # head
    <3>1. PICK k \in 1..i : g[k] = x
      BY <2>1, <2>2
    <3>2. x = s[k + 1] /\ k + 1 \in 1..m /\ k + 1 # 1
      BY <1>5, <1>6, <3>1
    <3>3. QED
      BY <1>2, <3>2 DEF Intact
  <2>3. ASSUME NEW x, x \in Reached, x # head PROVE x \in Reached'
    <3>1. PICK k \in 1..m : s[k] = x
      BY <1>2, <2>3
    <3>2. k - 1 \in 1..i /\ (k - 1) + 1 = k
      BY <1>2, <1>13, <2>3, <3>1
    <3>3. g[k - 1] = x
      BY <1>5, <3>1, <3>2
    <3>4. QED
      BY <2>1, <3>2, <3>3
  <2>4. QED
    BY <2>2, <2>3
<1>15. ASSUME NEW x, NEW y, Leads(x, y), x # head PROVE Leads(x, y)'
  <2>1. PICK j, k \in 1..m : j <= k /\ s[j] = x /\ s[k] = y
    BY <1>1, <1>15 DEF Leads
  <2>2. j # 1 /\ k # 1
    <3>1. j # 1
      BY <1>2, <1>15, <2>1
    <3>2. QED
      BY <2>1, <3>1
  <2>3. j - 1 \in 1..i /\ k - 1 \in 1..i /\ (j - 1) + 1 = j /\ (k - 1) + 1 = k /\ j - 1 <= k - 1
    BY <1>13, <2>1, <2>2
  <2>4. u[j - 1] = x /\ u[k - 1] = y /\ Len(u) = i
    BY <1>5, <1>10, <2>1, <2>3
  <2>5. QED
    BY <1>12, <2>3, <2>4 DEF Leads
<1>16. ASSUME value' = value
       PROVE  /\ Elements # <<>> /\ Head(Elements) = value[next[head]]
              /\ Elements' = Tail(Elements)
  <2>1. Elements = [k \in 1..i |-> value[s[k + 1]]]
    BY <1>2, <1>4, ElementsAre
  <2>2. PICK z : z = i - 1 /\ z \in Nat /\ Len(u) - 1 = z
    <3>1. i - 1 \in Nat /\ Len(u) - 1 = i - 1
      BY <1>4, <1>5, <1>10
    <3>2. QED
      BY <3>1
  <2>3. Elements' = [k \in 1..z |-> value[g[k + 1]]]
    <3>1. Elements' = [k \in 1..(Len(u) - 1) |-> value'[u[k + 1]]]
      BY <1>11, ElementsAreNext
    <3>2. QED
      BY <1>10, <1>16, <2>2, <3>1
  <2>4. Len(Elements) = i /\ Elements[1] = value[s[1 + 1]]
    BY <1>7, <2>1
  <2>5. Head(Elements) = Elements[1] /\ Elements # <<>>
    <3>1. Head(Elements) = Elements[1]
      BY DEF Head
    <3>2. Elements # <<>>
      BY <1>4, <2>4
    <3>3. QED
      BY <3>1, <3>2
  <2>6. Tail(Elements) = [k \in 1..z |-> Elements[k + 1]]
    <3> DEFINE S == {value[x] : x \in Nodes}
    <3>1. \A k \in 1..i : value[s[k + 1]] \in S
      BY <1>2, <1>6
    <3>2. Elements \in Seq(S)
      BY <2>1, <3>1, IsASeq
    <3>3. /\ Tail(Elements) \in Seq(S) /\ Len(Tail(Elements)) = Len(Elements) - 1
          /\ \A k \in 1..Len(Tail(Elements)) : Tail(Elements)[k] = Elements[k + 1]
      BY <2>5, <3>2, HeadTailProperties
    <3>4. Len(Elements) - 1 = z
      BY <2>2, <2>4, <1>5, <1>10
    <3>5. Tail(Elements) \in [1..z -> S]
      <4>1. Tail(Elements) \in [1..Len(Tail(Elements)) -> S]
        BY <3>3, LenProperties
      <4>2. Len(Tail(Elements)) = z
        BY <3>3, <3>4
      <4>3. QED
        BY <4>1, <4>2
    <3>6. QED
      BY <3>3, <3>4, <3>5
  <2>7. ASSUME NEW k \in 1..z PROVE value[g[k + 1]] = Elements[k + 1]
    <3>1. k + 1 \in 1..i
      BY <2>2
    <3>2. QED
      BY <1>5, <2>1, <3>1
  <2>8. QED
    BY <1>3, <2>3, <2>4, <2>5, <2>6, <2>7
<1>17. QED
  BY <1>12, <1>14, <1>15, <1>16

(* Who is before y in the queue stays before what follows y. *)
LEMMA LeadsFacts ==
  ASSUME Intact(Chain), NEW x \in Reached, NEW y, Leads(x, y)
  PROVE  /\ y \in Reached
         /\ next[x] = None => x = y
         /\ next[y] # None => Leads(x, next[y]) /\ x # next[y]
<1> DEFINE s == Chain
           n == Len(s)
<1>1. PICK j, k \in 1..n : j <= k /\ s[j] = x /\ s[k] = y
  BY DEF Leads
<1>2. n \in Nat
  BY QueueFacts
<1>3. y \in Reached
  BY <1>1, QueueFacts
<1>4. next[x] = None => x = y
  <2>1. j # n => next[x] = s[j + 1] /\ j + 1 \in 1..n
    BY <1>1, <1>2 DEF Intact
  <2>2. j # n => next[x] \in Reached
    BY <2>1, QueueFacts
  <2>3. j = n => j = k
    BY <1>1, <1>2
  <2>4. QED
    BY <1>1, <2>2, <2>3, QueueFacts
<1>5. ASSUME next[y] # None PROVE Leads(x, next[y]) /\ x # next[y]
  <2>1. k # n /\ next[y] = s[k + 1]
    BY <1>1, <1>5 DEF Intact
  <2>2. k + 1 \in 1..n /\ j <= k + 1 /\ j # k + 1
    BY <1>1, <1>2, <2>1
  <2>3. QED
    BY <1>1, <2>1, <2>2 DEF Leads, Intact
<1>6. QED
  BY <1>3, <1>4, <1>5

LEMMA LeadsSelf == ASSUME Intact(Chain), NEW x \in Reached PROVE Leads(x, x)
<1>1. PICK k \in 1..Len(Chain) : Chain[k] = x
  BY QueueFacts
<1>2. k <= k
  BY QueueFacts
<1>3. QED
  BY <1>1, <1>2 DEF Leads

LEMMA HeadLeads ==
  ASSUME Intact(Chain), NEW x \in Reached
  PROVE  Leads(head, x) /\ (x # head => next[head] # None)
<1>1. PICK k \in 1..Len(Chain) : Chain[k] = x
  BY QueueFacts
<1>2. 1 \in 1..Len(Chain) /\ head = Chain[1] /\ 1 <= k /\ head \in Reached
  BY QueueFacts
<1>3. Leads(head, x)
  BY <1>1, <1>2 DEF Leads
<1>4. QED
  BY <1>2, <1>3, LeadsFacts

---------------------------------------------------------------------------
(* What a step leaves of what the threads know *)

(* The queue grows at its end, shrinks at its head, and tail follows. *)
Onward ==
  /\ \A x \in Reached : next[x] = None => x \in Reached'
  /\ \A x \in Reached' : x \in Reached \/ Fresh(x)
  /\ \A x \in Reached : x \in Reached' /\ Leads(x, tail) => Leads(x, tail)'
  /\ head' \in Reached' /\ (head' = head \/ head \notin Reached')
  /\ \/ tail' = tail
     \/ next[tail] # None /\ tail' = next[tail] /\ Reached' = Reached
  /\ trivial_dtor' = trivial_dtor

(* The middle conjunct, where no node leaves the queue *)
LEMMA LeadsKept ==
  ASSUME tail' = tail, \A x, y : Leads(x, y) => Leads(x, y)'
  PROVE  \A x : Leads(x, tail) => Leads(x, tail)'
<1>1. PICK y : y = tail
  OBVIOUS
<1>2. ASSUME NEW x, Leads(x, tail) PROVE Leads(x, tail)'
  <2>1. Leads(x, y)'
    BY <1>1, <1>2
  <2>2. QED
    BY <1>1, <2>1 DEF Leads
<1>3. QED
  BY <1>2

(* A node that a thread refers to is not created anew, and keeps its link while
   it is in the queue.  The pool's link, that follows it, is not null either. *)
Spared(x) ==
  x # None =>
    /\ Fresh(x)' => Fresh(x)
    /\ next[x] # None => next'[x] # None /\ (x \in Reached => next'[x] = next[x])

LEMMA StillSeen ==
  ASSUME Onward, NEW x, Seen(x), Spared(x)
  PROVE  Seen(x)'
BY DEF Onward, Spared, Seen

LEMMA StillPast ==
  ASSUME Onward, NEW x, Past(x), Seen(x), x # None
  PROVE  Past(x)'
<1>1. SUFFICES ASSUME x \in Reached' PROVE Leads(x, tail)'
  BY DEF Past
<1>2. x \in Reached
  BY <1>1 DEF Onward, Seen
<1>3. QED
  BY <1>1, <1>2 DEF Onward, Past

LEMMA KnownKept ==
  ASSUME IInv, Onward, Reached' \subseteq Nodes, NEW l, NEW r \in Regs, Knows(l, r),
         Spared(r.h), Spared(r.t), Spared(r.last)
  PROVE  Knows(l, r)'
<1> USE QueueAssumption
<1>1. /\ r.h \in Nodes \cup {None} /\ r.t \in Nodes \cup {None} /\ r.last \in Nodes \cup {None}
      /\ None \notin Nodes
  BY DEF Regs
<1>2. /\ head \in Reached /\ tail \in Reached
      /\ \A x \in Reached : next[x] # None => next[x] \in Reached /\ next[x] # head /\ next[x] # x
  BY QueueFacts DEF IInv, QueueInv
<1>3. Seen(r.h)' /\ Seen(r.t)' /\ Seen(r.last)'
  BY StillSeen DEF Knows
<1>4. Past(r.t)' /\ Past(r.last)'
  <2>1. r.t = None => Past(r.t)'
    BY <1>1 DEF Past
  <2>2. r.last = None => Past(r.last)'
    BY <1>1 DEF Past
  <2>3. QED
    BY <2>1, <2>2, StillPast DEF Knows
<1>5. r.h \in Reached' => r.h = head /\ r.h = head'
  <2>1. ASSUME r.h \in Reached' PROVE r.h \in Reached
    BY <1>1, <2>1 DEF Onward, Knows, Seen
  <2>2. QED
    BY <2>1 DEF Onward, Knows
<1>6. r.h = head' => head' = head
  BY <1>5 DEF Onward
<1>7. r.t # None /\ tail' = r.t => tail' = tail
  <2>1. ASSUME r.t # None, tail' = r.t, tail' # tail PROVE FALSE
    <3>1. next[tail] # None /\ next[tail] = r.t /\ r.t \in Reached
      BY <1>2, <2>1 DEF Onward
    <3>2. Leads(r.t, tail)
      BY <3>1 DEF Knows, Past
    <3>3. QED
      BY <3>1, <3>2, LeadsFacts DEF IInv, QueueInv
  <2>2. QED
    BY <2>1
<1>8. tail # head /\ head' = head => tail' # head'
  BY <1>2 DEF Onward
<1>9. /\ r.h # None /\ next[r.h] # None /\ r.h \in Reached => next'[r.h] = next[r.h]
      /\ r.t # None /\ next[r.t] # None /\ r.t \in Reached => next'[r.t] = next[r.t]
  BY DEF Spared
<1>10. r.t # None /\ r.t \in Reached' => r.t \in Reached
  BY DEF Onward, Knows, Seen
<1>11. /\ l \in {"push_check", "push_help"} /\ r.next # None /\ r.t \in Reached'
           => next'[r.t] = r.next
       /\ l = "push_swing" /\ tail' = r.t => next'[r.t] = r.n
  BY <1>2, <1>7, <1>9, <1>10 DEF Knows
<1>12. l \in {"pop_check", "pop_help", "pop_copy", "pop_cas"} /\ r.next # None /\ r.h = head'
         => next'[r.h] = r.next
  BY <1>2, <1>6, <1>9 DEF Knows
<1>13. QED
  BY <1>3, <1>4, <1>5, <1>6, <1>7, <1>8, <1>11, <1>12 DEF Knows, Onward
LEMMA AllKnown ==
  ASSUME IInv, TypeOK', Onward, Reached' \subseteq Nodes,
         \A q \in Threads : \A l \in {pc'[q]}, r \in {reg'[q]} :
           Knows(l, r) /\ Spared(r.h) /\ Spared(r.t) /\ Spared(r.last)
  PROVE  KnownInv'
<1>1. SUFFICES ASSUME NEW q \in Threads, NEW l, NEW r, l = pc'[q], r = reg'[q] PROVE Knows(l, r)'
  BY DEF KnownInv
<1>2. r \in Regs
  BY <1>1 DEF TypeOK
<1>3. QED
  BY <1>1, <1>2, KnownKept

---------------------------------------------------------------------------
(* The steps that read, and those that move tail *)

PushLabels == {"push", "push_next", "push_check", "push_last", "push_link", "push_help"}
GiveLabels == {"pop_free", "pop_move", "pop_flag_next", "pop_flag_head"}
MarkLabels == {"pop_move", "pop_flag_next"}

(* A step of p that takes no node over and gives none away *)
LEMMA Reading ==
  ASSUME IInv, NEW p \in Threads, NEW l \in Labels, NEW r \in Regs,
         Go(p, l, r), mem' = mem, head' = head,
         tail' = tail \/ (next[tail] # None /\ tail' = next[tail]),
         Knows(l, r), Holds(l, r),
         l \in PushLabels <=> Pushing(p), Pushing(p) => r.n = reg[p].n,
         pc[p] \notin GiveLabels, l \notin GiveLabels
  PROVE  IInv' /\ Elements' = Elements
<1> USE QueueAssumption
<1>1. /\ trivial_dtor' = trivial_dtor /\ next' = next /\ value' = value /\ flag' = flag
      /\ free' = free
  BY DEF mem
<1>2. /\ head \in Reached /\ tail \in Reached /\ Reached \subseteq Nodes /\ None \notin Reached
      /\ \A x \in Reached : next[x] # None => next[x] \in Reached /\ next[x] # head /\ next[x] # x
  BY QueueFacts DEF IInv, QueueInv
<1>3. /\ Intact(Chain)' /\ Reached' = Reached /\ \A x, y : Leads(x, y) => Leads(x, y)'
      /\ Elements' = Elements
  BY <1>1, QueueKept DEF IInv, QueueInv
<1>4. pc' = [pc EXCEPT ![p] = l] /\ reg' = [reg EXCEPT ![p] = r]
  BY DEF Go
<1>5. TypeOK'
  BY <1>1, <1>2, <1>4 DEF IInv, TypeOK
<1>6. QueueInv'
  BY <1>1, <1>2, <1>3 DEF IInv, QueueInv
<1>7. ASSUME NEW q \in Threads
      PROVE  /\ q # p => pc'[q] = pc[q] /\ reg'[q] = reg[q]
             /\ q = p => pc'[q] = l /\ reg'[q] = r
  BY <1>4 DEF IInv, TypeOK
<1>8. ASSUME NEW q \in Threads, NEW n
      PROVE  (Pushes(q, n)' <=> Pushes(q, n)) /\ (Gives(q, n)' <=> Gives(q, n))
               /\ (Marks(q, n)' <=> Marks(q, n))
  <2>1. Pushing(q)' <=> pc'[q] \in PushLabels
    BY DEF Pushing, PushLabels
  <2>2. CASE q = p
    BY <1>7, <2>1, <2>2 DEF Pushes, Gives, Marks, GiveLabels
  <2>3. CASE q # p
    BY <1>7, <2>3 DEF Pushes, Gives, Marks, Pushing
  <2>4. QED
    BY <2>2, <2>3
<1>9. \A n : Fresh(n)' <=> Fresh(n)
  BY <1>8 DEF Fresh
<1>10. Onward
  <2>1. \A x \in Reached : Leads(x, tail) => Leads(x, tail)'
    <3>1. PICK y : y = tail
      OBVIOUS
    <3>2. ASSUME NEW x \in Reached, Leads(x, tail) PROVE Leads(x, tail)'
      <4>1. PICK z : z = tail'
        OBVIOUS
      <4>2. Leads(x, y)
        BY <3>1, <3>2
      <4>3. Leads(x, z)
        BY <1>3, <3>1, <3>2, <4>1, <4>2, LeadsFacts DEF IInv, QueueInv
      <4>4. Leads(x, z)'
        BY <1>3, <4>3
      <4>5. QED
        BY <4>1, <4>4 DEF Leads
    <3>3. QED
      BY <3>2
  <2>2. QED
    BY <1>1, <1>2, <1>3, <2>1 DEF Onward
<1>11. KnownInv'
  <2>1. \A x : Spared(x)
    BY <1>1, <1>9 DEF Spared
  <2>2. \A q \in Threads : \A k \in {pc'[q]}, s \in {reg'[q]} : Knows(k, s)
    BY <1>7 DEF IInv, KnownInv
  <2>3. QED
    BY <1>2, <1>3, <1>5, <1>10, <2>1, <2>2, AllKnown
<1>12. PlaceInv'
  BY <1>1, <1>3, <1>8, <1>9 DEF IInv, PlaceInv
<1>13. FlagInv'
  BY <1>1, <1>3, <1>8, <1>9 DEF IInv, FlagInv
<1>14. ValueInv'
  <2>1. \A q \in Threads : \A k \in {pc'[q]}, s \in {reg'[q]} : Holds(k, s)
    BY <1>7 DEF IInv, ValueInv
  <2>2. \A k, s : Holds(k, s)' <=> Holds(k, s)
    BY <1>1 DEF Holds
  <2>3. QED
    BY <1>1, <1>3, <1>9, <2>1, <2>2 DEF IInv, ValueInv
<1>15. QED
  BY <1>3, <1>5, <1>6, <1>11, <1>12, <1>13, <1>14 DEF IInv
LEMMA RegFacts ==
  ASSUME IInv, NEW p \in Threads
  PROVE  /\ reg[p] \in Regs /\ pc[p] \in Labels /\ Knows(pc[p], reg[p]) /\ Holds(pc[p], reg[p])
         /\ \A x \in {reg[p].n, reg[p].h, reg[p].t, reg[p].last} :
              x # None => x \in Nodes
BY DEF IInv, TypeOK, KnownInv, ValueInv, Regs

LEMMA NoneKnown ==
  ASSUME IInv
  PROVE  /\ NoReg \in Regs /\ Knows("idle", NoReg) /\ Knows("pop", NoReg)
         /\ Seen(None) /\ Past(None) /\ None \notin Reached
         /\ Seen(head) /\ Seen(tail) /\ Past(tail) /\ head \in Reached /\ tail \in Reached
<1> USE QueueAssumption
<1>1. /\ head \in Reached /\ tail \in Reached /\ None \notin Reached /\ Reached \subseteq Nodes
  BY QueueFacts DEF IInv, QueueInv
<1>2. \A x \in Reached : ~Fresh(x)
  BY <1>1 DEF IInv, PlaceInv, Fresh
<1>3. Seen(head) /\ Seen(tail) /\ Seen(None)
  BY <1>1, <1>2 DEF Seen
<1>4. Past(None) /\ Past(tail)
  BY <1>1, LeadsSelf DEF Past, IInv, QueueInv
<1>5. NoReg \in Regs
  BY DEF NoReg, Regs, Words
<1>6. Knows("idle", NoReg) /\ Knows("pop", NoReg)
  BY <1>1, <1>3, <1>4 DEF NoReg, Knows
<1>7. QED
  BY <1>1, <1>3, <1>4, <1>5, <1>6

LEMMA PushReads ==
  ASSUME IInv, NEW p \in Threads,
         PushLoadTail(p) \/ PushLoadNext(p) \/ PushCheck(p) \/ PushLoadLast(p)
  PROVE  IInv' /\ Elements' = Elements
<1> USE QueueAssumption
<1> DEFINE s == reg[p]
<1>1. /\ s \in Regs /\ Knows(pc[p], s) /\ Seen(None) /\ Past(None) /\ None \notin Reached
      /\ Seen(tail) /\ Past(tail) /\ tail \in Nodes /\ next \in [Nodes -> Words]
  BY RegFacts, NoneKnown DEF IInv, TypeOK
<1>2. CASE PushLoadTail(p)
  <2> DEFINE r == [NoReg EXCEPT !.n = s.n, !.t = tail]
  <2>1. r \in Regs /\ r.n = s.n /\ r.h = None /\ r.t = tail /\ r.next = None /\ r.last = None
    BY <1>1 DEF Regs, Words, NoReg
  <2>2. Go(p, "push_next", r) /\ At(p, "push") /\ mem' = mem /\ head' = head /\ tail' = tail
    BY <1>2 DEF PushLoadTail, mem
  <2> HIDE DEF r
  <2>3. Knows("push_next", r) /\ Holds("push_next", r)
    BY <1>1, <2>1, <2>2 DEF Knows, Holds, At
  <2>4. QED
    BY <2>1, <2>2, <2>3, Reading DEF At, Pushing, PushLabels, GiveLabels, Labels
<1>3. CASE PushLoadNext(p)
  <2> DEFINE r == [s EXCEPT !.next = next[s.t]]
  <2>1. At(p, "push_next") /\ s.t \in Nodes
    BY <1>1, <1>3 DEF PushLoadNext, Knows, Regs, At
  <2>2. r \in Regs /\ r.n = s.n /\ r.h = s.h /\ r.t = s.t /\ r.next = next[s.t] /\ r.last = s.last
    BY <1>1, <2>1 DEF Regs
  <2>3. Go(p, "push_check", r) /\ mem' = mem /\ head' = head /\ tail' = tail
    BY <1>3 DEF PushLoadNext, mem
  <2> HIDE DEF r
  <2>4. Knows("push_check", r) /\ Holds("push_check", r)
    BY <1>1, <2>1, <2>2 DEF Knows, Holds, At
  <2>5. QED
    BY <2>1, <2>2, <2>3, <2>4, Reading DEF At, Pushing, PushLabels, GiveLabels, Labels
<1>4. CASE PushCheck(p)
  <2> DEFINE l == CASE s.t # tail -> "push"
                    [] s.t = tail /\ s.next = None -> "push_last"
                    [] OTHER -> "push_help"
  <2>1. At(p, "push_check") /\ Go(p, l, s) /\ mem' = mem /\ head' = head /\ tail' = tail
    BY <1>4 DEF PushCheck, mem
  <2>2. \/ l = "push" \/ (l = "push_last" /\ s.next = None) \/ (l = "push_help" /\ s.next # None)
    OBVIOUS
  <2> HIDE DEF l
  <2>3. Knows(l, s) /\ Holds(l, s)
    BY <1>1, <2>1, <2>2 DEF Knows, Holds, At
  <2>4. QED
    BY <1>1, <2>1, <2>2, <2>3, Reading DEF At, Pushing, PushLabels, GiveLabels, Labels
<1>5. CASE PushLoadLast(p)
  <2> DEFINE r == [s EXCEPT !.last = tail]
  <2>1. r \in Regs /\ r.n = s.n /\ r.h = s.h /\ r.t = s.t /\ r.next = s.next /\ r.last = tail
    BY <1>1 DEF Regs
  <2>2. Go(p, "push_link", r) /\ At(p, "push_last") /\ mem' = mem /\ head' = head /\ tail' = tail
    BY <1>5 DEF PushLoadLast, mem
  <2> HIDE DEF r
  <2>3. Knows("push_link", r) /\ Holds("push_link", r)
    BY <1>1, <2>1, <2>2 DEF Knows, Holds, At
  <2>4. QED
    BY <2>1, <2>2, <2>3, Reading DEF At, Pushing, PushLabels, GiveLabels, Labels
<1>6. QED
  BY <1>2, <1>3, <1>4, <1>5
LEMMA PopReads ==
  ASSUME IInv, NEW p \in Threads,
         PopLoadHead(p) \/ PopLoadTail(p) \/ PopLoadNext(p) \/ PopCheck(p) \/ PopCopy(p)
  PROVE  IInv' /\ Elements' = Elements
<1> USE QueueAssumption
<1> DEFINE s == reg[p]
<1>1. /\ s \in Regs /\ Knows(pc[p], s) /\ Seen(None) /\ Past(None) /\ None \notin Reached
      /\ Seen(tail) /\ Past(tail) /\ Seen(head) /\ tail \in Nodes /\ head \in Nodes
      /\ next \in [Nodes -> Words] /\ value \in [Nodes -> Values \cup {None}]
      /\ next[head] # None => next[head] \in Nodes
  BY RegFacts, NoneKnown, QueueFacts DEF IInv, QueueInv, TypeOK
<1>2. CASE PopLoadHead(p)
  <2> DEFINE r == [NoReg EXCEPT !.h = head]
  <2>1. r \in Regs /\ r.h = head /\ r.t = None /\ r.next = None /\ r.last = None
    BY <1>1 DEF Regs, Words, NoReg
  <2>2. /\ Go(p, "pop_tail", r) /\ pc[p] \in {"idle", "pop"}
        /\ mem' = mem /\ head' = head /\ tail' = tail
    BY <1>2 DEF PopLoadHead, mem
  <2> HIDE DEF r
  <2>3. Knows("pop_tail", r) /\ Holds("pop_tail", r)
    BY <1>1, <2>1 DEF Knows, Holds
  <2>4. QED
    BY <2>1, <2>2, <2>3, Reading DEF Pushing, PushLabels, GiveLabels, Labels
<1>3. CASE PopLoadTail(p)
  <2> DEFINE r == [s EXCEPT !.t = tail]
  <2>1. r \in Regs /\ r.h = s.h /\ r.t = tail /\ r.next = s.next /\ r.last = s.last
    BY <1>1 DEF Regs
  <2>2. Go(p, "pop_next", r) /\ At(p, "pop_tail") /\ mem' = mem /\ head' = head /\ tail' = tail
    BY <1>3 DEF PopLoadTail, mem
  <2> HIDE DEF r
  <2>3. Knows("pop_next", r) /\ Holds("pop_next", r)
    BY <1>1, <2>1, <2>2 DEF Knows, Holds, At
  <2>4. QED
    BY <2>1, <2>2, <2>3, Reading DEF At, Pushing, PushLabels, GiveLabels, Labels
<1>4. CASE PopLoadNext(p)
  <2> DEFINE r == [s EXCEPT !.next = next[s.h]]
  <2>1. At(p, "pop_next") /\ s.h \in Nodes
    BY <1>1, <1>4 DEF PopLoadNext, Knows, Regs, At
  <2>2. r \in Regs /\ r.h = s.h /\ r.t = s.t /\ r.next = next[s.h] /\ r.last = s.last
    BY <1>1, <2>1 DEF Regs
  <2>3. Go(p, "pop_check", r) /\ mem' = mem /\ head' = head /\ tail' = tail
    BY <1>4 DEF PopLoadNext, mem
  <2> HIDE DEF r
  <2>4. tail # head => next[head] # None
    BY HeadLeads DEF IInv, QueueInv
  <2>5. Knows("pop_check", r) /\ Holds("pop_check", r)
    BY <1>1, <2>1, <2>2, <2>4 DEF Knows, Holds, At
  <2>6. QED
    BY <2>1, <2>2, <2>3, <2>5, Reading DEF At, Pushing, PushLabels, GiveLabels, Labels
<1>5. CASE PopCheck(p)
  <2>1. At(p, "pop_check") /\ mem' = mem /\ head' = head /\ tail' = tail
    BY <1>5 DEF PopCheck, mem
  <2>2. \/ Go(p, "pop", NoReg) \/ Go(p, "idle", NoReg)
        \/ s.h = s.t /\ s.next # None /\ Go(p, "pop_help", s)
        \/ s.h = head /\ s.h # s.t /\ trivial_dtor /\ Go(p, "pop_copy", s)
        \/ s.h = head /\ s.h # s.t /\ ~trivial_dtor /\ Go(p, "pop_cas", s)
    BY <1>5 DEF PopCheck, HeadIs
  <2>3. CASE Go(p, "pop", NoReg) \/ Go(p, "idle", NoReg)
    <3>1. NoReg \in Regs /\ Knows("idle", NoReg) /\ Knows("pop", NoReg)
      BY NoneKnown
    <3>2. Holds("idle", NoReg) /\ Holds("pop", NoReg)
      BY DEF Holds
    <3>3. QED
      BY <2>1, <2>3, <3>1, <3>2, Reading DEF At, Pushing, PushLabels, GiveLabels, Labels
  <2>4. CASE s.h = s.t /\ s.next # None /\ Go(p, "pop_help", s)
    <3>1. Knows("pop_help", s) /\ Holds("pop_help", s)
      BY <1>1, <2>1, <2>4 DEF Knows, Holds, At
    <3>2. QED
      BY <1>1, <2>1, <2>4, <3>1, Reading DEF At, Pushing, PushLabels, GiveLabels, Labels
  <2>5. CASE s.h = head /\ s.h # s.t /\ trivial_dtor /\ Go(p, "pop_copy", s)
    <3>1. Knows("pop_copy", s) /\ Holds("pop_copy", s)
      BY <1>1, <2>1, <2>5 DEF Knows, Holds, At
    <3>2. QED
      BY <1>1, <2>1, <2>5, <3>1, Reading DEF At, Pushing, PushLabels, GiveLabels, Labels
  <2>6. CASE s.h = head /\ s.h # s.t /\ ~trivial_dtor /\ Go(p, "pop_cas", s)
    <3>1. Knows("pop_cas", s) /\ Holds("pop_cas", s)
      BY <1>1, <2>1, <2>6 DEF Knows, Holds, At
    <3>2. QED
      BY <1>1, <2>1, <2>6, <3>1, Reading DEF At, Pushing, PushLabels, GiveLabels, Labels
  <2>7. QED
    BY <2>2, <2>3, <2>4, <2>5, <2>6
<1>6. CASE PopCopy(p)
  <2> DEFINE r == [s EXCEPT !.val = value[s.next]]
  <2>1. At(p, "pop_copy") /\ s.next \in Nodes
    BY <1>1, <1>6 DEF PopCopy, Regs
  <2>2. /\ r \in Regs /\ r.h = s.h /\ r.t = s.t /\ r.next = s.next /\ r.last = s.last
        /\ r.val = value[s.next]
    BY <1>1, <2>1 DEF Regs
  <2>3. Go(p, "pop_cas", r) /\ mem' = mem /\ head' = head /\ tail' = tail
    BY <1>6 DEF PopCopy, mem
  <2> HIDE DEF r
  <2>4. Knows("pop_cas", r) /\ Holds("pop_cas", r)
    BY <1>1, <2>1, <2>2 DEF Knows, Holds, At
  <2>5. QED
    BY <2>1, <2>2, <2>3, <2>4, Reading DEF At, Pushing, PushLabels, GiveLabels, Labels
<1>7. QED
  BY <1>2, <1>3, <1>4, <1>5, <1>6

LEMMA Swings ==
  ASSUME IInv, NEW p \in Threads, PushHelp(p) \/ PushReturn(p) \/ PopHelp(p)
  PROVE  IInv' /\ Elements' = Elements
<1> USE QueueAssumption
<1> DEFINE s == reg[p]
<1>1. /\ s \in Regs /\ Knows(pc[p], s) /\ Seen(None) /\ Past(None) /\ None \notin Reached
      /\ NoReg \in Regs /\ Knows("idle", NoReg) /\ Knows("pop", NoReg) /\ tail \in Reached
  BY RegFacts, NoneKnown
<1>2. Holds("idle", NoReg) /\ Holds("pop", NoReg)
  BY DEF Holds
<1>3. CASE PushHelp(p)
  <2> DEFINE r == [NoReg EXCEPT !.n = s.n]
  <2>1. r \in Regs /\ r.n = s.n /\ r.h = None /\ r.t = None /\ r.next = None /\ r.last = None
    BY <1>1 DEF Regs, Words, NoReg
  <2>2. /\ Go(p, "push", r) /\ At(p, "push_help") /\ mem' = mem /\ head' = head
        /\ tail' = IF tail = s.t THEN s.next ELSE tail
    BY <1>3 DEF PushHelp, SwingTail, Word, mem
  <2> HIDE DEF r
  <2>3. tail' = tail \/ (next[tail] # None /\ tail' = next[tail])
    BY <1>1, <2>2 DEF Knows, At
  <2>4. Knows("push", r) /\ Holds("push", r)
    BY <1>1, <2>1, <2>2 DEF Knows, Holds, At
  <2>5. QED
    BY <2>1, <2>2, <2>3, <2>4, Reading DEF At, Pushing, PushLabels, GiveLabels, Labels
<1>4. CASE PushReturn(p)
  <2>1. /\ Go(p, "idle", NoReg) /\ At(p, "push_swing") /\ mem' = mem /\ head' = head
        /\ tail' = IF tail = s.t THEN s.n ELSE tail
    BY <1>4 DEF PushReturn, SwingTail, Word, mem
  <2>2. tail' = tail \/ (next[tail] # None /\ tail' = next[tail])
    BY <1>1, <2>1 DEF Knows, At
  <2>3. QED
    BY <1>1, <1>2, <2>1, <2>2, Reading DEF At, Pushing, PushLabels, GiveLabels, Labels
<1>5. CASE PopHelp(p)
  <2>1. /\ Go(p, "pop", NoReg) /\ At(p, "pop_help") /\ mem' = mem /\ head' = head
        /\ tail' = IF tail = s.t THEN s.next ELSE tail
    BY <1>5 DEF PopHelp, SwingTail, Word, mem
  <2>2. tail' = tail \/ (next[tail] # None /\ tail' = next[tail])
    BY <1>1, <2>1 DEF Knows, At
  <2>3. QED
    BY <1>1, <1>2, <2>1, <2>2, Reading DEF At, Pushing, PushLabels, GiveLabels, Labels
<1>6. QED
  BY <1>3, <1>4, <1>5
---------------------------------------------------------------------------
(* The steps that move a node *)

LEMMA Others ==
  ASSUME IInv, NEW p \in Threads, NEW l \in Labels, NEW r \in Regs, Go(p, l, r)
  PROVE  /\ pc' \in [Threads -> Labels] /\ reg' \in [Threads -> Regs]
         /\ pc'[p] = l /\ reg'[p] = r
         /\ \A q \in Threads : q # p => pc'[q] = pc[q] /\ reg'[q] = reg[q]
BY DEF Go, IInv, TypeOK

LEMMA CallStep ==
  ASSUME SafeReuse, IInv, NEW p \in Threads, NEW v \in Values, PushCall(p, v)
  PROVE  IInv' /\ Elements' = Elements
<1> USE QueueAssumption
<1>1. PICK n \in free :
        /\ \A q \in Threads : n \notin RefersTo(q)
        /\ free' = free \ {n}
        /\ next' = [next EXCEPT ![n] = None]
        /\ value' = [value EXCEPT ![n] = v]
        /\ flag' = [flag EXCEPT ![n] = FALSE]
        /\ Go(p, "push", [NoReg EXCEPT !.n = n])
  BY DEF PushCall, Word
<1>2. At(p, "idle") /\ head' = head /\ tail' = tail /\ trivial_dtor' = trivial_dtor
  BY DEF PushCall
<1> DEFINE r == [NoReg EXCEPT !.n = n]
<1>3. n \in Nodes /\ n \notin Reached /\ n # None /\ ~Fresh(n)
  BY <1>1 DEF IInv, TypeOK, PlaceInv, Fresh
<1>4. /\ r \in Regs /\ r.n = n /\ r.h = None /\ r.t = None /\ r.next = None /\ r.last = None
  BY <1>3 DEF Regs, Words, NoReg
<1>5. Go(p, "push", r)
  BY <1>1
<1> HIDE DEF r
<1>6. /\ head \in Reached /\ tail \in Reached /\ Reached \subseteq Nodes /\ None \notin Reached
      /\ \A x \in Reached : next[x] # None => next[x] \in Reached
  BY QueueFacts DEF IInv, QueueInv
<1>7. /\ n \in free /\ n # head
      /\ \A x \in Nodes : x # n => next'[x] = next[x] /\ value'[x] = value[x] /\ flag'[x] = flag[x]
      /\ next'[n] = None /\ value'[n] = v /\ flag'[n] = FALSE
  BY <1>1, <1>3, <1>6 DEF IInv, TypeOK
<1>8. /\ Intact(Chain)' /\ Reached' = Reached /\ \A x, y : Leads(x, y) => Leads(x, y)'
      /\ Elements' = Elements
  BY <1>2, <1>3, <1>6, <1>7, QueueKept DEF IInv, QueueInv
<1>9. /\ pc' \in [Threads -> Labels] /\ reg' \in [Threads -> Regs]
      /\ pc'[p] = "push" /\ reg'[p] = r
      /\ \A q \in Threads : q # p => pc'[q] = pc[q] /\ reg'[q] = reg[q]
  BY <1>4, <1>5, Others DEF Labels
<1>10. TypeOK'
  BY <1>1, <1>2, <1>3, <1>9 DEF IInv, TypeOK, Words
<1>11. QueueInv'
  BY <1>2, <1>3, <1>6, <1>7, <1>8 DEF IInv, QueueInv
<1>12. /\ \A q \in Threads : \A x : (Gives(q, x)' <=> Gives(q, x)) /\ (Marks(q, x)' <=> Marks(q, x))
       /\ \A q \in Threads : \A x : Pushes(q, x)' <=> Pushes(q, x) \/ (q = p /\ x = n)
  BY <1>2, <1>4, <1>9 DEF Gives, Marks, Pushes, Pushing, At
<1>13. \A x : Fresh(x)' <=> Fresh(x) \/ x = n
  BY <1>12 DEF Fresh
<1>14. Onward
  BY <1>2, <1>6, <1>8, LeadsKept DEF Onward
<1>15. KnownInv'
  <2>1. \A x : x # n /\ x \in Nodes \cup {None} => Spared(x)
    BY <1>7, <1>13 DEF Spared
  <2>2. ASSUME NEW q \in Threads, NEW s, q # p, s = reg[q]
        PROVE  Knows(pc[q], s) /\ Spared(s.h) /\ Spared(s.t) /\ Spared(s.last)
    BY <1>1, <2>1, <2>2, RegFacts DEF RefersTo, Regs
  <2>3. Knows("push", r) /\ Spared(r.h) /\ Spared(r.t) /\ Spared(r.last)
    BY <1>3, <1>4, <2>1, NoneKnown DEF Knows
  <2>4. \A q \in Threads : \A k \in {pc'[q]}, s \in {reg'[q]} :
          Knows(k, s) /\ Spared(s.h) /\ Spared(s.t) /\ Spared(s.last)
    BY <1>9, <2>2, <2>3
  <2>5. QED
    BY <1>6, <1>8, <1>10, <1>14, <2>4, AllKnown
<1>16. PlaceInv'
  BY <1>1, <1>2, <1>3, <1>7, <1>8, <1>12, <1>13 DEF IInv, PlaceInv
<1>17. FlagInv'
  BY <1>2, <1>3, <1>7, <1>8, <1>12, <1>13 DEF IInv, FlagInv, PlaceInv
<1>18. ValueInv'
  <2>1. \A x \in Nodes : Fresh(x)' \/ (x \in Reached' /\ x # head') => value'[x] \in Values
    BY <1>2, <1>7, <1>8, <1>13 DEF IInv, ValueInv
  <2>2. ASSUME NEW q \in Threads, NEW k, NEW s, k = pc'[q], s = reg'[q] PROVE Holds(k, s)'
    <3>1. CASE q = p
      BY <1>9, <2>2, <3>1 DEF Holds
    <3>2. CASE q # p
      <4>1. Holds(k, s) /\ Knows(k, s) /\ s \in Regs /\ s.next # n
        BY <1>1, <1>9, <2>2, <3>2, RegFacts DEF RefersTo
      <4>2. k \in {"pop_move", "pop_cas"} => s.next \in Nodes /\ value'[s.next] = value[s.next]
        BY <1>7, <4>1 DEF Knows, Regs
      <4>3. QED
        BY <1>2, <4>1, <4>2 DEF Holds
    <3>3. QED
      BY <3>1, <3>2
  <2>3. QED
    BY <2>1, <2>2 DEF ValueInv
<1>19. QED
  BY <1>8, <1>10, <1>11, <1>15, <1>16, <1>17, <1>18 DEF IInv

LEMMA LinkStep ==
  ASSUME IInv, NEW p \in Threads, PushLink(p)
  PROVE  /\ IInv'
         /\ \/ Elements' = Elements
            \/ \E v \in Values : Elements' = Append(Elements, v)
<1> USE QueueAssumption
<1> DEFINE s == reg[p]
           l == s.last
           n == s.n
<1>1. /\ s \in Regs /\ Knows("push_link", s) /\ At(p, "push_link")
      /\ trivial_dtor' = trivial_dtor /\ head' = head /\ tail' = tail /\ value' = value
      /\ flag' = flag /\ free' = free
  BY RegFacts DEF PushLink, At
<1>2. l \in Nodes /\ s.next = None /\ n \in Nodes /\ s.t \in Nodes
  BY <1>1 DEF Knows, Regs
<1>3. CASE next[l] # None
  <2> DEFINE r == [NoReg EXCEPT !.n = n]
  <2>1. r \in Regs /\ r.n = n /\ r.h = None /\ r.t = None /\ r.next = None /\ r.last = None
    BY <1>1 DEF Regs, Words, NoReg
  <2>2. Go(p, "push", r) /\ mem' = mem
    BY <1>1, <1>2, <1>3 DEF PushLink, mem
  <2> HIDE DEF r
  <2>3. Knows("push", r) /\ Holds("push", r)
    BY <1>1, <1>2, <2>1, NoneKnown DEF Knows, Holds
  <2>4. QED
    BY <1>1, <2>1, <2>2, <2>3, Reading DEF At, Pushing, PushLabels, GiveLabels, Labels
<1>4. CASE next[l] = None
  <2>1. next' = [next EXCEPT ![l] = n] /\ Go(p, "push_swing", s)
    BY <1>1, <1>2, <1>4 DEF PushLink, Word
  <2>2. /\ head \in Reached /\ tail \in Reached /\ Reached \subseteq Nodes /\ None \notin Reached
        /\ \A x \in Reached : next[x] # None => next[x] \in Reached
    BY QueueFacts DEF IInv, QueueInv
  <2>3. Pushes(p, n) /\ Fresh(n)
    BY <1>1 DEF Pushes, Pushing, At, Fresh
  <2>4. n \notin free /\ n \notin Reached /\ next[n] = None
    BY <1>2, <2>3 DEF IInv, PlaceInv
  <2>5. l \in Reached /\ ~Fresh(l) /\ l # n
    BY <1>1, <1>2, <1>4, <2>3 DEF Knows, Seen
  <2>6. l = tail
    <3>1. Leads(l, tail)
      BY <1>1, <2>5 DEF Knows, Past
    <3>2. QED
      BY <1>4, <2>5, <3>1, LeadsFacts DEF IInv, QueueInv
  <2>7. /\ next \in [Nodes -> Words] /\ next'[l] = n /\ next'[n] = None
        /\ \A x \in Nodes : x # l => next'[x] = next[x]
    BY <1>2, <2>1, <2>4, <2>5 DEF IInv, TypeOK
  <2>8. /\ Intact(Chain)' /\ Reached' = Reached \cup {n} /\ \A x, y : Leads(x, y) => Leads(x, y)'
        /\ Elements' = Append(Elements, value[n])
    BY <1>1, <1>2, <1>4, <2>2, <2>4, <2>5, <2>7, QueueLinked DEF IInv, QueueInv
  <2>9. /\ pc' \in [Threads -> Labels] /\ reg' \in [Threads -> Regs]
        /\ pc'[p] = "push_swing" /\ reg'[p] = s
        /\ \A q \in Threads : q # p => pc'[q] = pc[q] /\ reg'[q] = reg[q]
    BY <1>1, <2>1, Others DEF Labels
  <2>10. TypeOK'
    BY <1>1, <1>2, <2>1, <2>9 DEF IInv, TypeOK, Words
  <2>11. QueueInv'
    BY <1>1, <2>2, <2>6, <2>7, <2>8 DEF QueueInv
  <2>12. /\ \A q \in Threads : \A x : /\ Gives(q, x)' <=> Gives(q, x)
                                      /\ Marks(q, x)' <=> Marks(q, x)
         /\ \A q \in Threads : \A x : Pushes(q, x)' <=> Pushes(q, x) /\ q # p
    BY <1>1, <2>9 DEF Gives, Marks, Pushes, Pushing, At
  <2>13. \A x \in Nodes : Fresh(x)' <=> Fresh(x) /\ x # n
    <3>1. \A q \in Threads : Pushes(q, n) => q = p
      BY <1>2, <2>3 DEF IInv, PlaceInv
    <3>2. \A x : Pushes(p, x) => x = n
      BY DEF Pushes
    <3>3. QED
      BY <2>12, <3>1, <3>2 DEF Fresh
  <2>14. Onward
    BY <1>1, <2>2, <2>3, <2>8, LeadsKept DEF Onward
  <2>15. KnownInv'
    <3>1. \A x \in Nodes \cup {None} : Spared(x)
      BY <1>4, <2>7, <2>13 DEF Spared
    <3>2. ASSUME NEW q \in Threads, NEW u, u = reg[q]
          PROVE  /\ Knows(pc[q], u) /\ Spared(u.h) /\ Spared(u.t) /\ Spared(u.last) /\ u \in Regs
      BY <3>1, <3>2, RegFacts DEF Regs
    <3>3. Reached' \subseteq Nodes
      BY <1>2, <2>2, <2>8
    <3>4. ASSUME NEW q \in Threads, NEW k, NEW u, k = pc[q], u = reg[q] PROVE Knows(k, u)'
      BY <2>14, <3>2, <3>3, <3>4, KnownKept
    <3>5. ASSUME NEW k, NEW u, k = pc'[p], u = reg'[p] PROVE Knows(k, u)'
      <4>1. u = s /\ Knows("push_link", u)' /\ k = "push_swing"
        BY <1>1, <2>9, <3>4, <3>5 DEF At
      <4>2. tail' = u.t => next'[u.t] = u.n
        BY <1>1, <1>2, <2>6, <2>7, <4>1 DEF Knows
      <4>3. QED
        BY <4>1, <4>2 DEF Knows
    <3>6. QED
      BY <2>9, <3>4, <3>5 DEF KnownInv
  <2>16. PlaceInv'
    <3>1. \A q \in Threads : ~Gives(q, n) /\ ~Marks(q, n)
      <4>1. ASSUME NEW q \in Threads, Gives(q, n) PROVE FALSE
        <5>1. Knows(pc[q], reg[q])
          BY RegFacts
        <5>2. reg[q].h = n
          BY <4>1 DEF Gives
        <5>3. Seen(n)
          BY <5>1, <5>2 DEF Knows
        <5>4. QED
          BY <1>2, <2>3, <5>3 DEF Seen
      <4>2. QED
        BY <1>2, <2>3, <4>1 DEF IInv, PlaceInv
    <3>2. ASSUME NEW q \in Threads, NEW x \in Nodes
          PROVE  /\ Pushes(q, x)' => x \notin free' /\ x \notin Reached' /\ next'[x] = None
                 /\ Gives(q, x)' => x \notin free' /\ x \notin Reached'
                 /\ Marks(q, x)' => x \notin free' /\ ~Fresh(x)' /\ (x \in Reached' => x = head')
      <4>1. x = n => ~Pushes(q, x)'
        BY <1>2, <2>3, <2>12 DEF IInv, PlaceInv
      <4>2. Pushes(q, x)' => next'[x] = None
        BY <2>5, <2>7, <2>12 DEF IInv, PlaceInv
      <4>3. QED
        BY <1>1, <2>4, <2>8, <2>12, <2>13, <3>1, <4>1, <4>2 DEF IInv, PlaceInv
    <3>3. ASSUME NEW q \in Threads, NEW x \in Nodes, NEW u \in Threads,
                 \/ Pushes(q, x)' /\ Pushes(u, x)'
                 \/ Gives(q, x)' /\ Gives(u, x)'
                 \/ Marks(q, x)' /\ Marks(u, x)'
          PROVE  q = u
      BY <2>12, <3>3 DEF IInv, PlaceInv
    <3>4a. \A x \in Nodes : x \in free' => x \notin Reached'
      BY <1>1, <2>4, <2>8 DEF IInv, PlaceInv
    <3>4. ASSUME NEW x \in Nodes
          PROVE  x \in free' \/ x \in Reached' \/ Fresh(x)'
                   \/ \E q \in Threads : Gives(q, x)' \/ Marks(q, x)'
      BY <1>1, <2>8, <2>12, <2>13 DEF IInv, PlaceInv
    <3>5. QED
      BY <3>2, <3>3, <3>4a, <3>4 DEF PlaceInv
  <2>17. FlagInv'
    BY <1>1, <1>2, <2>3, <2>8, <2>12, <2>13 DEF IInv, FlagInv
  <2>18. ValueInv'
    <3>1. \A x \in Nodes : Fresh(x)' \/ (x \in Reached' /\ x # head') => value'[x] \in Values
      BY <1>1, <1>2, <2>3, <2>8, <2>13 DEF IInv, ValueInv
    <3>2. ASSUME NEW q \in Threads, NEW k, NEW u, k = pc'[q], u = reg'[q] PROVE Holds(k, u)'
      <4>1. k = "push_swing" \/ Holds(k, u)
        BY <2>9, <3>2, RegFacts
      <4>2. QED
        BY <1>1, <4>1 DEF Holds
    <3>3. QED
      BY <3>1, <3>2 DEF ValueInv
  <2>19. value[n] \in Values
    BY <1>2, <2>3 DEF IInv, ValueInv
  <2>20. QED
    BY <2>8, <2>10, <2>11, <2>15, <2>16, <2>17, <2>18, <2>19 DEF IInv
<1>5. QED
  BY <1>3, <1>4

LEMMA ExchangeStep ==
  ASSUME IInv, NEW p \in Threads, PopExchange(p)
  PROVE  /\ IInv'
         /\ \/ Elements' = Elements /\ Go(p, "pop", NoReg)
            \/ /\ Elements # <<>> /\ Elements' = Tail(Elements)
               /\ head = reg[p].h /\ Head(Elements) = value[reg[p].next]
               /\ trivial_dtor => Head(Elements) = reg[p].val
               /\ Go(p, IF trivial_dtor THEN "pop_free" ELSE "pop_move", reg[p])
<1> USE QueueAssumption
<1> DEFINE s == reg[p]
           d == s.next
           l == IF trivial_dtor THEN "pop_free" ELSE "pop_move"
<1>1. /\ s \in Regs /\ Knows("pop_cas", s) /\ Holds("pop_cas", s) /\ At(p, "pop_cas")
      /\ mem' = mem /\ tail' = tail
  BY RegFacts DEF PopExchange, At
<1>2. d \in Nodes /\ s.h \in Nodes
  BY <1>1 DEF Knows, Regs
<1>3. CASE head # s.h
  <2>1. Go(p, "pop", NoReg) /\ head' = head
    BY <1>3 DEF PopExchange, HeadIs
  <2>2. NoReg \in Regs /\ Knows("pop", NoReg) /\ Holds("pop", NoReg)
    BY NoneKnown DEF Holds
  <2>3. QED
    BY <1>1, <2>1, <2>2, Reading DEF At, Pushing, PushLabels, GiveLabels, Labels
<1>4. CASE head = s.h
  <2>1. /\ head' = d /\ Go(p, l, s) /\ trivial_dtor' = trivial_dtor /\ next' = next
        /\ value' = value /\ flag' = flag /\ free' = free
    BY <1>1, <1>4 DEF PopExchange, HeadIs, Word, mem
  <2>2. next[head] = d /\ d # None
    BY <1>1, <1>2, <1>4 DEF Knows
  <2>3. /\ head \in Reached /\ tail \in Reached /\ Reached \subseteq Nodes /\ None \notin Reached
        /\ d \in Reached /\ d # head
        /\ \A x \in Reached : next[x] # None => next[x] \in Reached
    BY <2>2, QueueFacts DEF IInv, QueueInv
  <2>4. /\ Intact(Chain)' /\ Reached' = Reached \ {head}
        /\ \A x, y : Leads(x, y) /\ x # head => Leads(x, y)'
        /\ Elements # <<>> /\ Head(Elements) = value[d] /\ Elements' = Tail(Elements)
    BY <2>1, <2>2, QueuePopped DEF IInv, QueueInv
  <2>5. tail # head
    BY <1>1, <1>4 DEF Knows
  <2>6. /\ pc' \in [Threads -> Labels] /\ reg' \in [Threads -> Regs]
        /\ pc'[p] = l /\ reg'[p] = s
        /\ \A q \in Threads : q # p => pc'[q] = pc[q] /\ reg'[q] = reg[q]
    <3>1. l \in Labels
      BY DEF Labels
    <3>2. QED
      BY <1>1, <2>1, <3>1, Others
  <2>7. TypeOK'
    BY <1>1, <1>2, <2>1, <2>6 DEF IInv, TypeOK
  <2>8. QueueInv'
    BY <1>1, <2>1, <2>3, <2>4, <2>5 DEF IInv, QueueInv
  <2>9. /\ \A q \in Threads : \A x : Gives(q, x)' <=> Gives(q, x) \/ (q = p /\ x = head)
        /\ \A q \in Threads : \A x :
             Marks(q, x)' <=> Marks(q, x) \/ (q = p /\ x = d /\ ~trivial_dtor)
        /\ \A q \in Threads : \A x : Pushes(q, x)' <=> Pushes(q, x)
    BY <1>1, <1>4, <2>6 DEF Gives, Marks, Pushes, Pushing, At
  <2>10. \A x : Fresh(x)' <=> Fresh(x)
    BY <2>9 DEF Fresh
  <2>11. Onward
    <3>1. ASSUME NEW x \in Reached, x # head, Leads(x, tail) PROVE Leads(x, tail)'
      <4>1. PICK y : y = tail
        OBVIOUS
      <4>2. Leads(x, y)'
        BY <2>4, <3>1, <4>1
      <4>3. QED
        BY <1>1, <4>1, <4>2 DEF Leads
    <3>2. QED
      BY <1>1, <2>1, <2>2, <2>3, <2>4, <3>1 DEF Onward
  <2>12. KnownInv'
    <3>1. \A x : Spared(x)
      BY <2>1, <2>10 DEF Spared
    <3>2. Knows(l, s)
      BY <1>1, <2>2 DEF Knows
    <3>3. \A q \in Threads : \A k \in {pc'[q]}, u \in {reg'[q]} : Knows(k, u)
      BY <2>6, <3>2, RegFacts
    <3>4. Reached' \subseteq Nodes
      BY <2>3, <2>4
    <3>5. QED
      BY <2>7, <2>11, <3>1, <3>3, <3>4, AllKnown
  <2>13. head \in Nodes /\ head \notin free /\ d \notin free /\ ~Fresh(d) /\ ~Fresh(head)
    BY <1>2, <2>3 DEF IInv, PlaceInv, Fresh
  <2>14. \A q \in Threads : ~Gives(q, head) /\ ~Gives(q, d) /\ ~Marks(q, d)
    BY <1>2, <2>3, <2>13 DEF IInv, PlaceInv
  <2>15. PlaceInv'
    <3>1. ASSUME NEW q \in Threads, NEW x \in Nodes
          PROVE  /\ Pushes(q, x)' => x \notin free' /\ x \notin Reached' /\ next'[x] = None
                 /\ Gives(q, x)' => x \notin free' /\ x \notin Reached'
                 /\ Marks(q, x)' => x \notin free' /\ ~Fresh(x)' /\ (x \in Reached' => x = head')
      BY <2>1, <2>4, <2>9, <2>10, <2>13 DEF IInv, PlaceInv
    <3>2. ASSUME NEW q \in Threads, NEW x \in Nodes, NEW u \in Threads,
                 \/ Pushes(q, x)' /\ Pushes(u, x)'
                 \/ Gives(q, x)' /\ Gives(u, x)'
                 \/ Marks(q, x)' /\ Marks(u, x)'
          PROVE  q = u
      BY <2>9, <2>14, <3>2 DEF IInv, PlaceInv
    <3>3a. \A x \in Nodes : x \in free' => x \notin Reached'
      BY <2>1, <2>4 DEF IInv, PlaceInv
    <3>3. ASSUME NEW x \in Nodes
          PROVE  x \in free' \/ x \in Reached' \/ Fresh(x)'
                   \/ \E q \in Threads : Gives(q, x)' \/ Marks(q, x)'
      <4>2. x \in free \/ x \in Reached \/ Fresh(x) \/ \E q \in Threads : Gives(q, x) \/ Marks(q, x)
        BY DEF IInv, PlaceInv
      <4>3. x # head /\ x \in Reached => x \in Reached'
        BY <2>4
      <4>4. \A q \in Threads : (Gives(q, x) => Gives(q, x)') /\ (Marks(q, x) => Marks(q, x)')
        BY <2>9
      <4>5. x = head => \E q \in Threads : Gives(q, x)'
        BY <2>9
      <4>6. QED
        BY <2>1, <2>10, <4>2, <4>3, <4>4, <4>5
    <3>4. QED
      BY <3>1, <3>2, <3>3a, <3>3 DEF PlaceInv
  <2>16. FlagInv'
    <3>1. SUFFICES ASSUME ~trivial_dtor, NEW x \in Nodes
          PROVE  /\ Fresh(x)' => ~flag[x]
                 /\ x \in Reached' /\ x # d => ~flag[x]
                 /\ \A q \in Threads : Marks(q, x)' /\ x = d => ~flag[x]
                 /\ \A q, u \in Threads : Marks(q, x)' /\ Gives(u, x)' => ~flag[x]
                 /\ ~flag[x] /\ x = d => \E q \in Threads : Marks(q, x)'
                 /\ \A q \in Threads : Gives(q, x)' /\ ~flag[x] => \E u \in Threads : Marks(u, x)'
                 /\ \A q \in Threads : Marks(q, x)' /\ ~flag[x]
                                         => x = d \/ \E u \in Threads : Gives(u, x)'
      BY <2>1 DEF FlagInv
    <3>2. ~flag[d]
      BY <1>2, <2>3, <3>1 DEF IInv, FlagInv
    <3>3. (x = d => Marks(p, x)') /\ (x = head => Gives(p, x)')
      BY <2>9, <3>1
    <3>4. \A q \in Threads : (Gives(q, x) => Gives(q, x)') /\ (Marks(q, x) => Marks(q, x)')
      BY <2>9
    <3>5. \A q \in Threads : Gives(q, x)' => Gives(q, x) \/ x = head
      BY <2>9
    <3>6. \A q \in Threads : Marks(q, x)' => Marks(q, x) \/ x = d
      BY <2>9
    <3>7. /\ Fresh(x)' => ~flag[x]
          /\ x \in Reached' /\ x # d => ~flag[x]
          /\ \A q \in Threads : Marks(q, x)' /\ x = d => ~flag[x]
      BY <2>4, <2>10, <3>1, <3>2 DEF IInv, FlagInv
    <3>8. \A q, u \in Threads : Marks(q, x)' /\ Gives(u, x)' => ~flag[x]
      BY <3>1, <3>2, <3>5, <3>6 DEF IInv, FlagInv
    <3>9. ~flag[x] /\ x = d => \E q \in Threads : Marks(q, x)'
      BY <3>3
    <3>10. ASSUME NEW q \in Threads, Gives(q, x)', ~flag[x] PROVE \E u \in Threads : Marks(u, x)'
      <4>1. \E u \in Threads : Marks(u, x)
        BY <3>1, <3>5, <3>10 DEF IInv, FlagInv
      <4>2. QED
        BY <3>4, <4>1
    <3>11. ASSUME NEW q \in Threads, Marks(q, x)', ~flag[x], x # d
           PROVE  \E u \in Threads : Gives(u, x)'
      <4>1. x = head \/ \E u \in Threads : Gives(u, x)
        BY <3>1, <3>6, <3>11 DEF IInv, FlagInv
      <4>2. QED
        BY <3>3, <3>4, <4>1
    <3>12. QED
      BY <3>7, <3>8, <3>9, <3>10, <3>11
  <2>17. value[d] \in Values /\ (trivial_dtor => s.val = value[d])
    BY <1>1, <1>2, <1>4, <2>3 DEF IInv, ValueInv, Holds
  <2>18. ValueInv'
    <3>1. \A x \in Nodes : Fresh(x)' \/ (x \in Reached' /\ x # head') => value'[x] \in Values
      BY <2>1, <2>4, <2>10 DEF IInv, ValueInv
    <3>2. ASSUME NEW q \in Threads, NEW k, NEW u, k = pc'[q], u = reg'[q] PROVE Holds(k, u)'
      <4>1. CASE q = p
        BY <2>1, <2>6, <2>17, <3>2, <4>1 DEF Holds
      <4>2. CASE q # p
        <5>1. Holds(k, u) /\ Knows(k, u)
          BY <2>6, <3>2, <4>2, RegFacts
        <5>2. u.h # d
          BY <2>3, <5>1 DEF Knows
        <5>3. QED
          BY <2>1, <5>1, <5>2 DEF Holds
      <4>3. QED
        BY <4>1, <4>2
    <3>3. QED
      BY <3>1, <3>2 DEF ValueInv
  <2>19. QED
    BY <1>4, <2>1, <2>4, <2>7, <2>8, <2>12, <2>15, <2>16, <2>17, <2>18 DEF IInv
<1>5. QED
  BY <1>3, <1>4

(* A step of p that leaves the queue alone, p having no node to push *)
LEMMA Settling ==
  ASSUME IInv, NEW p \in Threads, NEW l \in Labels, NEW r \in Regs, Go(p, l, r),
         pc[p] \in GiveLabels, l \in GiveLabels \cup {"idle"}, Knows(l, r),
         head' = head, tail' = tail, trivial_dtor' = trivial_dtor, next' \in [Nodes -> Words],
         value' \in [Nodes -> Values \cup {None}], flag' \in [Nodes -> BOOLEAN],
         free' \subseteq Nodes, \A x \in Reached : x # head => value'[x] = value[x],
         \A x \in Nodes : next'[x] = next[x]
                           \/ (x \notin Reached /\ ~Fresh(x) /\ next'[x] # None)
  PROVE  /\ TypeOK' /\ QueueInv' /\ KnownInv' /\ Reached' = Reached /\ Elements' = Elements
         /\ \A q \in Threads : \A x : Pushes(q, x)' <=> Pushes(q, x)
         /\ \A x : Fresh(x)' <=> Fresh(x)
         /\ \A x \in Nodes : Fresh(x) => next'[x] = next[x]
         /\ pc'[p] = l /\ reg'[p] = r
         /\ \A q \in Threads : q # p => pc'[q] = pc[q] /\ reg'[q] = reg[q]
<1> USE QueueAssumption
<1>1. /\ head \in Reached /\ tail \in Reached /\ Reached \subseteq Nodes
      /\ \A x \in Reached : next'[x] = next[x]
      /\ \A x \in Reached : next[x] # None => next[x] \in Reached
  BY QueueFacts DEF IInv, QueueInv
<1>2. /\ Intact(Chain)' /\ Reached' = Reached /\ \A x, y : Leads(x, y) => Leads(x, y)'
      /\ Elements' = Elements
  BY <1>1, QueueKept DEF IInv, QueueInv
<1>3. /\ pc' \in [Threads -> Labels] /\ reg' \in [Threads -> Regs]
      /\ pc'[p] = l /\ reg'[p] = r
      /\ \A q \in Threads : q # p => pc'[q] = pc[q] /\ reg'[q] = reg[q]
  BY Others
<1>4. TypeOK'
  BY <1>3 DEF IInv, TypeOK
<1>5. QueueInv'
  BY <1>1, <1>2 DEF IInv, QueueInv
<1>6. \A q \in Threads : \A x : Pushes(q, x)' <=> Pushes(q, x)
  BY <1>3 DEF Pushes, Pushing, GiveLabels
<1>7. \A x : Fresh(x)' <=> Fresh(x)
  BY <1>6 DEF Fresh
<1>8. Onward
  BY <1>1, <1>2, LeadsKept DEF Onward
<1>9. KnownInv'
  <2>1. \A x \in Nodes \cup {None} : Spared(x)
    BY <1>1, <1>7 DEF Spared
  <2>2. \A q \in Threads : \A k \in {pc'[q]}, s \in {reg'[q]} : Knows(k, s) /\ s \in Regs
    BY <1>3, RegFacts
  <2>3. \A q \in Threads : \A k \in {pc'[q]}, s \in {reg'[q]} :
          Knows(k, s) /\ Spared(s.h) /\ Spared(s.t) /\ Spared(s.last)
    BY <2>1, <2>2 DEF Regs
  <2>4. QED
    BY <1>1, <1>2, <1>4, <1>8, <2>3, AllKnown
<1>10. QED
  BY <1>2, <1>3, <1>4, <1>5, <1>6, <1>7, <1>9

(* A node that goes back to the pool is linked there, by a word that is not null,
   and loses its element unless its type is trivial. *)
LEMMA Destroying ==
  ASSUME ~LowMemory, IInv, NEW d \in Nodes, Destroy(d)
  PROVE  /\ free' = free \cup {d}
         /\ next' \in [Nodes -> Words] /\ next'[d] # None
         /\ \A x \in Nodes : x # d => next'[x] = next[x]
         /\ trivial_dtor => value' = value
         /\ value' \in [Nodes -> Values \cup {None}]
         /\ \A x \in Nodes : x # d => value'[x] = value[x]
<1> USE QueueAssumption
<1>1. next \in [Nodes -> Words] /\ value \in [Nodes -> Values \cup {None}]
  BY DEF IInv, TypeOK
<1>2. next' = [next EXCEPT ![d] = FreeLink]
  BY DEF Destroy, FreeWord
<1>3. value' = value \/ value' = [value EXCEPT ![d] = None]
  BY DEF Destroy
<1>4. free' = free \cup {d} /\ (trivial_dtor => value' = value)
  BY DEF Destroy
<1>5. QED
  BY <1>1, <1>2, <1>3, <1>4 DEF Words

LEMMA Deallocating ==
  ASSUME ~LowMemory, IInv, NEW d \in Nodes, Deallocate(d)
  PROVE  /\ flag' = [flag EXCEPT ![d] = TRUE]
         /\ free' = IF flag[d] THEN free \cup {d} ELSE free
         /\ next' \in [Nodes -> Words] /\ value' \in [Nodes -> Values \cup {None}]
         /\ flag[d] => next'[d] # None
         /\ ~flag[d] => next'[d] = next[d] /\ value'[d] = value[d]
         /\ \A x \in Nodes : x # d => next'[x] = next[x] /\ value'[x] = value[x]
<1>1. CASE flag[d]
  BY <1>1, Destroying DEF Deallocate
<1>2. CASE ~flag[d]
  BY <1>2 DEF Deallocate, IInv, TypeOK
<1>3. QED
  BY <1>1, <1>2

(* The element is taken out of its node, or the node that the queue has left
   is marked or goes back to the pool. *)
LEMMA FreeStep ==
  ASSUME ~LowMemory, IInv, NEW p \in Threads, PopFree(p)
  PROVE  IInv' /\ Elements' = Elements
<1> USE QueueAssumption
<1> DEFINE s == reg[p]
           d == s.h
<1>1. /\ s \in Regs /\ Knows("pop_free", s) /\ At(p, "pop_free") /\ NoReg \in Regs
      /\ Knows("idle", NoReg) /\ trivial_dtor /\ Go(p, "idle", NoReg) /\ Destroy(d)
      /\ UNCHANGED <<trivial_dtor, head, tail, flag, pushes>>
  BY RegFacts, NoneKnown DEF PopFree, At, Knows
<1>2. d \in Nodes /\ Gives(p, d)
  BY <1>1 DEF Knows, Regs, Gives, At
<1>2a. /\ free' = free \cup {d} /\ value' = value
       /\ next' \in [Nodes -> Words] /\ next'[d] # None
       /\ \A x \in Nodes : x # d => next'[x] = next[x]
  BY <1>1, <1>2, Destroying
<1>2b. d \notin Reached /\ ~Fresh(d) /\ \A q \in Threads : Gives(q, d) => q = p
  BY <1>1, <1>2 DEF IInv, PlaceInv, Knows, Seen
<1>3. /\ TypeOK' /\ QueueInv' /\ KnownInv' /\ Reached' = Reached /\ Elements' = Elements
      /\ \A q \in Threads : \A x : Pushes(q, x)' <=> Pushes(q, x)
      /\ \A x : Fresh(x)' <=> Fresh(x)
      /\ \A x \in Nodes : Fresh(x) => next'[x] = next[x]
      /\ pc'[p] = "idle" /\ reg'[p] = NoReg
      /\ \A q \in Threads : q # p => pc'[q] = pc[q] /\ reg'[q] = reg[q]
  BY <1>1, <1>2, <1>2a, <1>2b, Settling DEF IInv, TypeOK, At, GiveLabels, Labels
<1>4. /\ \A q \in Threads : \A x : Gives(q, x)' <=> Gives(q, x) /\ q # p
      /\ \A q \in Threads : \A x : Marks(q, x)' <=> Marks(q, x)
  BY <1>1, <1>3 DEF Gives, Marks, At
<1>6. \A q \in Threads : \A x : ~Marks(q, x)
  <2>1. ASSUME NEW q \in Threads, NEW x, Marks(q, x) PROVE FALSE
    <3>1. Knows(pc[q], reg[q])
      BY RegFacts
    <3>2. ~trivial_dtor
      BY <2>1, <3>1 DEF Knows, Marks
    <3>3. QED
      BY <1>1, <3>2
  <2>2. QED
    BY <2>1
<1>7. PlaceInv'
  <2>1. \A x : Gives(p, x) => x = d
    BY DEF Gives
  <2>2. \A q \in Threads : ~Pushes(q, d)
    BY <1>2b DEF Fresh
  <2>3. \A q \in Threads : \A x \in Nodes : Pushes(q, x) => next'[x] = next[x]
    BY <1>3 DEF Fresh
  <2>4. QED
    BY <1>1, <1>2, <1>2a, <1>2b, <1>3, <1>4, <1>6, <2>3, <2>1, <2>2 DEF IInv, PlaceInv
<1>8. FlagInv'
  BY <1>1 DEF FlagInv
<1>9. ValueInv'
  <2>1. \A x \in Nodes : Fresh(x)' \/ (x \in Reached' /\ x # head') => value'[x] \in Values
    BY <1>1, <1>2a, <1>3 DEF IInv, ValueInv
  <2>2. ASSUME NEW q \in Threads, NEW k, NEW u, k = pc'[q], u = reg'[q] PROVE Holds(k, u)'
    <3>1. k = "idle" \/ Holds(k, u)
      BY <1>3, <2>2, RegFacts
    <3>2. QED
      BY <1>1, <1>2a, <3>1 DEF Holds
  <2>3. QED
    BY <2>1, <2>2 DEF ValueInv
<1>10. QED
  BY <1>3, <1>7, <1>8, <1>9 DEF IInv

LEMMA MoveStep ==
  ASSUME IInv, NEW p \in Threads, PopMove(p)
  PROVE  IInv' /\ Elements' = Elements /\ value[reg[p].next] \in Values
<1> USE QueueAssumption
<1> DEFINE s == reg[p]
           d == s.next
           r == [s EXCEPT !.val = value[d]]
<1>1. /\ s \in Regs /\ Knows("pop_move", s) /\ Holds("pop_move", s) /\ At(p, "pop_move")
      /\ d \in Nodes /\ Go(p, "pop_flag_next", r) /\ value' = [value EXCEPT ![d] = None]
      /\ UNCHANGED <<trivial_dtor, head, tail, next, flag, free, pushes>>
  BY RegFacts DEF PopMove, At
<1>2. d \in Nodes /\ Marks(p, d) /\ value[d] \in Values
  BY <1>1 DEF Regs, Marks, At, Holds
<1>3. /\ r \in Regs /\ r.n = s.n /\ r.h = s.h /\ r.t = s.t /\ r.next = d /\ r.last = s.last
      /\ r.val = value[d]
  BY <1>1, <1>2 DEF Regs
<1> HIDE DEF r
<1>4. Knows("pop_flag_next", r)
  BY <1>1, <1>3 DEF Knows
<1>5. ~Fresh(d) /\ (d \in Reached => d = head) /\ \A q \in Threads : Marks(q, d) => q = p
  BY <1>2 DEF IInv, PlaceInv
<1>6. /\ value \in [Nodes -> Values \cup {None}] /\ value' \in [Nodes -> Values \cup {None}]
      /\ \A x \in Nodes : x # d => value'[x] = value[x]
  BY <1>1, <1>2 DEF IInv, TypeOK
<1>7. Reached \subseteq Nodes
  BY QueueFacts DEF IInv, QueueInv
<1>8. /\ TypeOK' /\ QueueInv' /\ KnownInv' /\ Reached' = Reached /\ Elements' = Elements
      /\ \A q \in Threads : \A x : Pushes(q, x)' <=> Pushes(q, x)
      /\ \A x : Fresh(x)' <=> Fresh(x)
      /\ pc'[p] = "pop_flag_next" /\ reg'[p] = r
      /\ \A q \in Threads : q # p => pc'[q] = pc[q] /\ reg'[q] = reg[q]
  BY <1>1, <1>3, <1>4, <1>5, <1>6, <1>7, Settling DEF IInv, TypeOK, At, GiveLabels, Labels
<1>9. /\ \A q \in Threads : \A x : Gives(q, x)' <=> Gives(q, x)
      /\ \A q \in Threads : \A x : Marks(q, x)' <=> Marks(q, x)
  BY <1>1, <1>3, <1>8 DEF Gives, Marks, At
<1>10. PlaceInv'
  BY <1>1, <1>8, <1>9 DEF IInv, PlaceInv
<1>11. FlagInv'
  BY <1>1, <1>8, <1>9 DEF IInv, FlagInv
<1>12. ValueInv'
  <2>1. \A x \in Nodes : Fresh(x)' \/ (x \in Reached' /\ x # head') => value'[x] \in Values
    BY <1>1, <1>5, <1>6, <1>8 DEF IInv, ValueInv
  <2>2. ASSUME NEW q \in Threads, NEW k, NEW u, k = pc'[q], u = reg'[q] PROVE Holds(k, u)'
    <3>1. CASE q = p
      BY <1>2, <1>3, <1>8, <2>2, <3>1 DEF Holds
    <3>2. CASE q # p
      <4>1. Holds(k, u) /\ u \in Regs /\ Knows(k, u) /\ k = pc[q] /\ u = reg[q]
        BY <1>8, <2>2, <3>2, RegFacts
      <4>2. k = "pop_move" => u.next # d /\ u.next \in Nodes
        BY <1>5, <3>2, <4>1 DEF Marks, Knows, Regs
      <4>3. ~trivial_dtor
        BY <1>1 DEF Knows
      <4>4. QED
        BY <1>1, <1>6, <4>1, <4>2, <4>3 DEF Holds
    <3>3. QED
      BY <3>1, <3>2
  <2>3. QED
    BY <2>1, <2>2 DEF ValueInv
<1>13. QED
  BY <1>2, <1>8, <1>10, <1>11, <1>12 DEF IInv

LEMMA FlagNextStep ==
  ASSUME ~LowMemory, IInv, NEW p \in Threads, PopFlagNext(p)
  PROVE  IInv' /\ Elements' = Elements
<1> USE QueueAssumption
<1> DEFINE s == reg[p]
           d == s.next
<1>1. /\ s \in Regs /\ Knows("pop_flag_next", s) /\ Holds("pop_flag_next", s)
      /\ At(p, "pop_flag_next") /\ Go(p, "pop_flag_head", s) /\ Deallocate(d)
      /\ UNCHANGED <<trivial_dtor, head, tail, pushes>>
  BY RegFacts DEF PopFlagNext, At
<1>2. d \in Nodes /\ Marks(p, d) /\ ~trivial_dtor
  BY <1>1 DEF Marks, At, Knows
<1>2a. /\ flag' = [flag EXCEPT ![d] = TRUE]
       /\ free' = IF flag[d] THEN free \cup {d} ELSE free
       /\ next' \in [Nodes -> Words] /\ value' \in [Nodes -> Values \cup {None}]
       /\ flag[d] => next'[d] # None
       /\ ~flag[d] => next'[d] = next[d] /\ value'[d] = value[d]
       /\ \A x \in Nodes : x # d => next'[x] = next[x] /\ value'[x] = value[x]
  BY <1>1, <1>2, Deallocating
<1>2b. ~Fresh(d) /\ (d \in Reached => d = head) /\ \A q \in Threads : Marks(q, d) => q = p
  BY <1>2 DEF IInv, PlaceInv
<1>2c. /\ flag[d] => d # head /\ d \notin Reached /\ \A q \in Threads : ~Gives(q, d)
       /\ ~flag[d] => d = head \/ \E q \in Threads : Gives(q, d)
  BY <1>2, <1>2b DEF IInv, FlagInv
<1>2d. /\ \A x \in Nodes : next'[x] = next[x]
                             \/ (x \notin Reached /\ ~Fresh(x) /\ next'[x] # None)
       /\ \A x \in Reached : x # head => value'[x] = value[x]
  <2>1. Reached \subseteq Nodes
    BY QueueFacts DEF IInv, QueueInv
  <2>2. QED
    BY <1>2, <1>2a, <1>2b, <1>2c, <2>1
<1>3. Knows("pop_flag_head", s)
  BY <1>1 DEF Knows
<1>4. /\ flag \in [Nodes -> BOOLEAN] /\ flag' \in [Nodes -> BOOLEAN] /\ free' \subseteq Nodes
      /\ \A x \in Nodes : flag'[x] <=> flag[x] \/ x = d
      /\ \A x : x \in free' <=> x \in free \/ (x = d /\ flag[d])
  BY <1>1, <1>2, <1>2a DEF IInv, TypeOK
<1>5. /\ TypeOK' /\ QueueInv' /\ KnownInv' /\ Reached' = Reached /\ Elements' = Elements
      /\ \A q \in Threads : \A x : Pushes(q, x)' <=> Pushes(q, x)
      /\ \A x : Fresh(x)' <=> Fresh(x)
      /\ \A x \in Nodes : Fresh(x) => next'[x] = next[x]
      /\ pc'[p] = "pop_flag_head" /\ reg'[p] = s
      /\ \A q \in Threads : q # p => pc'[q] = pc[q] /\ reg'[q] = reg[q]
  BY <1>1, <1>2a, <1>2d, <1>3, <1>4, Settling DEF IInv, TypeOK, At, GiveLabels, Labels
<1>6. /\ \A q \in Threads : \A x : Gives(q, x)' <=> Gives(q, x)
      /\ \A q \in Threads : \A x : Marks(q, x)' <=> Marks(q, x) /\ q # p
  BY <1>1, <1>5 DEF Gives, Marks, At
<1>9. \A x : Marks(p, x) => x = d
  BY DEF Marks
<1>10. head \in Reached
  BY NoneKnown
<1>11. PlaceInv'
  <2>1. ASSUME NEW q \in Threads, NEW x \in Nodes
        PROVE  /\ Pushes(q, x)' => x \notin free' /\ x \notin Reached' /\ next'[x] = None
               /\ Gives(q, x)' => x \notin free' /\ x \notin Reached'
               /\ Marks(q, x)' => x \notin free' /\ ~Fresh(x)' /\ (x \in Reached' => x = head')
    BY <1>1, <1>4, <1>5, <1>6, <1>2b, <1>2c DEF IInv, PlaceInv, Fresh
  <2>2. ASSUME NEW q \in Threads, NEW x \in Nodes, NEW u \in Threads,
               \/ Pushes(q, x)' /\ Pushes(u, x)'
               \/ Gives(q, x)' /\ Gives(u, x)'
               \/ Marks(q, x)' /\ Marks(u, x)'
        PROVE  q = u
    BY <1>5, <1>6, <2>2 DEF IInv, PlaceInv
  <2>3a. \A x \in Nodes : x \in free' => x \notin Reached'
    BY <1>4, <1>5, <1>2c DEF IInv, PlaceInv
  <2>3. ASSUME NEW x \in Nodes
        PROVE  x \in free' \/ x \in Reached' \/ Fresh(x)'
                 \/ \E q \in Threads : Gives(q, x)' \/ Marks(q, x)'
    <3>1. x \in free \/ x \in Reached \/ Fresh(x) \/ \E q \in Threads : Gives(q, x) \/ Marks(q, x)
      BY DEF IInv, PlaceInv
    <3>2. x = d => x \in free' \/ x \in Reached' \/ \E q \in Threads : Gives(q, x)'
      BY <1>4, <1>5, <1>6, <1>2c, <1>10
    <3>3. x # d => \A q \in Threads : Marks(q, x) => Marks(q, x)'
      BY <1>6, <1>9
    <3>4. QED
      BY <1>4, <1>5, <1>6, <3>1, <3>2, <3>3
  <2>4. QED
    BY <2>1, <2>2, <2>3a, <2>3 DEF PlaceInv
<1>12. FlagInv'
  <2>1. SUFFICES ASSUME NEW x \in Nodes
        PROVE  /\ Fresh(x)' => ~flag'[x]
               /\ x \in Reached' /\ x # head' => ~flag'[x]
               /\ \A q \in Threads : Marks(q, x)' /\ x = head' => ~flag'[x]
               /\ \A q, u \in Threads : Marks(q, x)' /\ Gives(u, x)' => ~flag'[x]
               /\ ~flag'[x] /\ x = head' => \E q \in Threads : Marks(q, x)'
               /\ \A q \in Threads : Gives(q, x)' /\ ~flag'[x] => \E u \in Threads : Marks(u, x)'
               /\ \A q \in Threads : Marks(q, x)' /\ ~flag'[x]
                                       => x = head' \/ \E u \in Threads : Gives(u, x)'
    BY DEF FlagInv
  <2>2. /\ Fresh(x)' => ~flag'[x]
        /\ x \in Reached' /\ x # head' => ~flag'[x]
        /\ \A q \in Threads : Marks(q, x)' /\ x = head' => ~flag'[x]
        /\ \A q, u \in Threads : Marks(q, x)' /\ Gives(u, x)' => ~flag'[x]
    BY <1>1, <1>2, <1>4, <1>5, <1>6, <1>2b DEF IInv, FlagInv
  <2>3. x # d => \A q \in Threads : Marks(q, x) => Marks(q, x)'
    BY <1>6, <1>9
  <2>4. /\ ~flag'[x] /\ x = head' => \E q \in Threads : Marks(q, x)'
        /\ \A q \in Threads : Gives(q, x)' /\ ~flag'[x] => \E u \in Threads : Marks(u, x)'
    <3>1. ~flag'[x] => x # d /\ ~flag[x]
      BY <1>4
    <3>2. /\ ~flag[x] /\ x = head => \E q \in Threads : Marks(q, x)
          /\ \A q \in Threads : Gives(q, x) /\ ~flag[x] => \E u \in Threads : Marks(u, x)
      BY <1>2 DEF IInv, FlagInv
    <3>3. QED
      BY <1>1, <1>6, <2>3, <3>1, <3>2
  <2>5. \A q \in Threads : Marks(q, x)' /\ ~flag'[x]
                             => x = head' \/ \E u \in Threads : Gives(u, x)'
    BY <1>1, <1>2, <1>4, <1>6 DEF IInv, FlagInv
  <2>6. QED
    BY <2>2, <2>4, <2>5
<1>13. ValueInv'
  <2>1. \A x \in Nodes : Fresh(x)' \/ (x \in Reached' /\ x # head') => value'[x] \in Values
    BY <1>1, <1>2a, <1>2b, <1>2d, <1>5 DEF IInv, ValueInv
  <2>2. ASSUME NEW q \in Threads, NEW k, NEW u, k = pc'[q], u = reg'[q] PROVE Holds(k, u)'
    <3>1. Holds(k, u)
      <4>1. Holds("pop_flag_head", s)
        BY <1>1 DEF Holds
      <4>2. QED
        BY <1>5, <2>2, <4>1, RegFacts
    <3>2. k = "pop_move" => q # p /\ u.next \in Nodes /\ u.next # d
      <4>1. k = "pop_move" => q # p /\ k = pc[q] /\ u = reg[q]
        BY <1>5, <2>2
      <4>2. k = "pop_move" => u.next \in Nodes /\ Marks(q, u.next)
        BY <4>1, RegFacts DEF Knows, Marks
      <4>3. QED
        BY <1>2b, <4>1, <4>2
    <3>3. QED
      BY <1>1, <1>2, <1>2a, <3>1, <3>2 DEF Holds
  <2>3. QED
    BY <2>1, <2>2 DEF ValueInv
<1>14. QED
  BY <1>5, <1>11, <1>12, <1>13 DEF IInv

LEMMA FlagHeadStep ==
  ASSUME ~LowMemory, IInv, NEW p \in Threads, PopFlagHead(p)
  PROVE  IInv' /\ Elements' = Elements
<1> USE QueueAssumption
<1> DEFINE s == reg[p]
           d == s.h
<1>1. /\ s \in Regs /\ Knows("pop_flag_head", s) /\ At(p, "pop_flag_head")
      /\ Go(p, "idle", NoReg) /\ NoReg \in Regs /\ Knows("idle", NoReg)
      /\ Deallocate(d) /\ UNCHANGED <<trivial_dtor, head, tail, pushes>>
  BY RegFacts, NoneKnown DEF PopFlagHead, At
<1>2. d \in Nodes /\ Gives(p, d) /\ ~trivial_dtor
  BY <1>1 DEF Regs, Gives, At, Knows
<1>2a. /\ flag' = [flag EXCEPT ![d] = TRUE]
       /\ free' = IF flag[d] THEN free \cup {d} ELSE free
       /\ next' \in [Nodes -> Words] /\ value' \in [Nodes -> Values \cup {None}]
       /\ flag[d] => next'[d] # None
       /\ ~flag[d] => next'[d] = next[d] /\ value'[d] = value[d]
       /\ \A x \in Nodes : x # d => next'[x] = next[x] /\ value'[x] = value[x]
  BY <1>1, <1>2, Deallocating
<1>2b. d \notin Reached /\ ~Fresh(d) /\ \A q \in Threads : Gives(q, d) => q = p
  BY <1>1, <1>2 DEF IInv, PlaceInv, Knows, Seen
<1>2c. /\ flag[d] => \A q \in Threads : ~Marks(q, d)
       /\ ~flag[d] => \E q \in Threads : Marks(q, d)
  BY <1>2 DEF IInv, FlagInv
<1>2d. /\ \A x \in Nodes : next'[x] = next[x]
                             \/ (x \notin Reached /\ ~Fresh(x) /\ next'[x] # None)
       /\ \A x \in Reached : x # head => value'[x] = value[x]
  <2>1. Reached \subseteq Nodes
    BY QueueFacts DEF IInv, QueueInv
  <2>2. QED
    BY <1>2, <1>2a, <1>2b, <2>1
<1>3. /\ flag \in [Nodes -> BOOLEAN] /\ flag' \in [Nodes -> BOOLEAN] /\ free' \subseteq Nodes
      /\ \A x \in Nodes : flag'[x] <=> flag[x] \/ x = d
      /\ \A x : x \in free' <=> x \in free \/ (x = d /\ flag[d])
  BY <1>1, <1>2, <1>2a DEF IInv, TypeOK
<1>4. /\ TypeOK' /\ QueueInv' /\ KnownInv' /\ Reached' = Reached /\ Elements' = Elements
      /\ \A q \in Threads : \A x : Pushes(q, x)' <=> Pushes(q, x)
      /\ \A x : Fresh(x)' <=> Fresh(x)
      /\ \A x \in Nodes : Fresh(x) => next'[x] = next[x]
      /\ pc'[p] = "idle" /\ reg'[p] = NoReg
      /\ \A q \in Threads : q # p => pc'[q] = pc[q] /\ reg'[q] = reg[q]
  BY <1>1, <1>2a, <1>2d, <1>3, Settling DEF IInv, TypeOK, At, GiveLabels, Labels
<1>5. /\ \A q \in Threads : \A x : Gives(q, x)' <=> Gives(q, x) /\ q # p
      /\ \A q \in Threads : \A x : Marks(q, x)' <=> Marks(q, x)
  BY <1>1, <1>4 DEF Gives, Marks, At
<1>8. \A x : Gives(p, x) => x = d
  BY DEF Gives
<1>9. head \in Reached
  BY NoneKnown
<1>10. PlaceInv'
  <2>1. ASSUME NEW q \in Threads, NEW x \in Nodes
        PROVE  /\ Pushes(q, x)' => x \notin free' /\ x \notin Reached' /\ next'[x] = None
               /\ Gives(q, x)' => x \notin free' /\ x \notin Reached'
               /\ Marks(q, x)' => x \notin free' /\ ~Fresh(x)' /\ (x \in Reached' => x = head')
    BY <1>1, <1>3, <1>4, <1>5, <1>2b, <1>2c DEF IInv, PlaceInv, Fresh
  <2>2. ASSUME NEW q \in Threads, NEW x \in Nodes, NEW u \in Threads,
               \/ Pushes(q, x)' /\ Pushes(u, x)'
               \/ Gives(q, x)' /\ Gives(u, x)'
               \/ Marks(q, x)' /\ Marks(u, x)'
        PROVE  q = u
    BY <1>4, <1>5, <2>2 DEF IInv, PlaceInv
  <2>3a. \A x \in Nodes : x \in free' => x \notin Reached'
    BY <1>3, <1>4, <1>2b DEF IInv, PlaceInv
  <2>3. ASSUME NEW x \in Nodes
        PROVE  x \in free' \/ x \in Reached' \/ Fresh(x)'
                 \/ \E q \in Threads : Gives(q, x)' \/ Marks(q, x)'
    <3>1. x \in free \/ x \in Reached \/ Fresh(x) \/ \E q \in Threads : Gives(q, x) \/ Marks(q, x)
      BY DEF IInv, PlaceInv
    <3>2. x = d => x \in free' \/ \E q \in Threads : Marks(q, x)'
      BY <1>3, <1>5, <1>2c
    <3>3. x # d => \A q \in Threads : Gives(q, x) => Gives(q, x)'
      BY <1>5, <1>8
    <3>4. QED
      BY <1>3, <1>4, <1>5, <3>1, <3>2, <3>3
  <2>4. QED
    BY <2>1, <2>2, <2>3a, <2>3 DEF PlaceInv
<1>11. FlagInv'
  <2>1. SUFFICES ASSUME NEW x \in Nodes
        PROVE  /\ Fresh(x)' => ~flag'[x]
               /\ x \in Reached' /\ x # head' => ~flag'[x]
               /\ \A q \in Threads : Marks(q, x)' /\ x = head' => ~flag'[x]
               /\ \A q, u \in Threads : Marks(q, x)' /\ Gives(u, x)' => ~flag'[x]
               /\ ~flag'[x] /\ x = head' => \E q \in Threads : Marks(q, x)'
               /\ \A q \in Threads : Gives(q, x)' /\ ~flag'[x] => \E u \in Threads : Marks(u, x)'
               /\ \A q \in Threads : Marks(q, x)' /\ ~flag'[x]
                                       => x = head' \/ \E u \in Threads : Gives(u, x)'
    BY DEF FlagInv
  <2>2. /\ Fresh(x)' => ~flag'[x]
        /\ x \in Reached' /\ x # head' => ~flag'[x]
        /\ \A q \in Threads : Marks(q, x)' /\ x = head' => ~flag'[x]
        /\ \A q, u \in Threads : Marks(q, x)' /\ Gives(u, x)' => ~flag'[x]
    BY <1>1, <1>2, <1>3, <1>4, <1>5, <1>2b, <1>9 DEF IInv, FlagInv
  <2>3. x # d => \A q \in Threads : Gives(q, x) => Gives(q, x)'
    BY <1>5, <1>8
  <2>4. ~flag'[x] => x # d /\ ~flag[x]
    BY <1>3
  <2>5. /\ ~flag'[x] /\ x = head' => \E q \in Threads : Marks(q, x)'
        /\ \A q \in Threads : Gives(q, x)' /\ ~flag'[x] => \E u \in Threads : Marks(u, x)'
    BY <1>1, <1>2, <1>5, <2>4 DEF IInv, FlagInv
  <2>6. \A q \in Threads : Marks(q, x)' /\ ~flag'[x]
                             => x = head' \/ \E u \in Threads : Gives(u, x)'
    <3>1. \A q \in Threads : Marks(q, x) /\ ~flag[x] => x = head \/ \E u \in Threads : Gives(u, x)
      BY <1>2 DEF IInv, FlagInv
    <3>2. QED
      BY <1>1, <1>5, <2>3, <2>4, <3>1
  <2>7. QED
    BY <2>2, <2>5, <2>6
<1>12. ValueInv'
  <2>1. \A x \in Nodes : Fresh(x)' \/ (x \in Reached' /\ x # head') => value'[x] \in Values
    BY <1>1, <1>2a, <1>2b, <1>2d, <1>4 DEF IInv, ValueInv
  <2>2. ASSUME NEW q \in Threads, NEW k, NEW u, k = pc'[q], u = reg'[q] PROVE Holds(k, u)'
    <3>1. k = "idle" \/ Holds(k, u)
      BY <1>4, <2>2, RegFacts
    <3>2. k = "pop_move" => q # p /\ u.next \in Nodes /\ (flag[d] => u.next # d)
      <4>1. k = "pop_move" => q # p /\ k = pc[q] /\ u = reg[q]
        BY <1>4, <2>2
      <4>2. k = "pop_move" => u.next \in Nodes /\ Marks(q, u.next)
        BY <4>1, RegFacts DEF Knows, Marks
      <4>3. QED
        BY <1>2c, <4>1, <4>2
    <3>3. QED
      BY <1>1, <1>2, <1>2a, <3>1, <3>2 DEF Holds
  <2>3. QED
    BY <2>1, <2>2 DEF ValueInv
<1>13. QED
  BY <1>4, <1>10, <1>11, <1>12 DEF IInv

---------------------------------------------------------------------------
(* The inductive invariant holds. *)

LEMMA InitInv == Init => IInv
<1> USE QueueAssumption
<1>1. SUFFICES ASSUME Init PROVE IInv
  OBVIOUS
<1>2. PICK s \in Nodes : /\ head = s /\ tail = s /\ free = Nodes \ {s}
                         /\ flag = [n \in Nodes |-> n = s]
                         /\ next = [n \in Nodes |-> IF n = s THEN None ELSE FreeLink]
                         /\ \E v \in Values : value = [n \in Nodes |-> IF n = s THEN v ELSE None]
  BY <1>1 DEF Init
<1>3. PICK u : u = <<s>>
  OBVIOUS
<1>4. Intact(u) /\ Len(u) = 1 /\ u[1] = s
  BY <1>1, <1>2, <1>3 DEF Init, Intact
<1>5. Chain = u
  BY <1>4, ChainIs
<1>6. Intact(Chain)
  BY <1>4, <1>5
<1>7. \A x : x \in Reached <=> x = s
  <2>1. 1 \in 1..1 /\ \A k \in 1..1 : k = 1
    OBVIOUS
  <2>2. QED
    BY <1>4, <2>1, ReachedIs
<1>8. \A p \in Threads : pc[p] = "idle" /\ reg[p] = NoReg
  BY <1>1 DEF Init
<1>9. TypeOK
  BY <1>1, <1>2 DEF Init, TypeOK, Labels, Words, Regs, NoReg
<1>10. QueueInv
  BY <1>1, <1>2, <1>6, <1>7 DEF QueueInv, Init
<1>11. \A p \in Threads : \A n : ~Pushes(p, n) /\ ~Gives(p, n) /\ ~Marks(p, n)
  BY <1>8 DEF Pushes, Pushing, Gives, Marks
<1>12. \A n : ~Fresh(n)
  BY <1>11 DEF Fresh
<1>13. PlaceInv
  BY <1>2, <1>7, <1>11, <1>12 DEF PlaceInv
<1>14. FlagInv
  BY <1>2, <1>7, <1>11, <1>12 DEF FlagInv
<1>15. KnownInv
  <2>1. Knows("idle", NoReg)
    BY <1>2, <1>7 DEF Knows, NoReg, Seen, Past
  <2>2. QED
    BY <1>8, <2>1 DEF KnownInv
<1>16. ValueInv
  BY <1>2, <1>7, <1>8, <1>12 DEF ValueInv, Holds
<1>17. QED
  BY <1>9, <1>10, <1>13, <1>14, <1>15, <1>16 DEF IInv

LEMMA StutterInv == IInv /\ UNCHANGED vars => IInv'
<1>1. SUFFICES ASSUME IInv, UNCHANGED vars PROVE IInv'
  OBVIOUS
<1> USE DEF vars
<1>2. /\ Intact(Chain)' /\ Chain' = Chain /\ Reached' = Reached
      /\ \A x, y : Leads(x, y) => Leads(x, y)'
  BY <1>1, QueueKept DEF IInv, QueueInv
<1>3. \A q, x : (Pushes(q, x)' <=> Pushes(q, x)) /\ (Gives(q, x)' <=> Gives(q, x))
                  /\ (Marks(q, x)' <=> Marks(q, x))
  BY <1>1 DEF Pushes, Pushing, Gives, Marks
<1>4. \A x : Fresh(x)' <=> Fresh(x)
  BY <1>3 DEF Fresh
<1>5. TypeOK' /\ QueueInv'
  BY <1>1, <1>2 DEF IInv, TypeOK, QueueInv
<1>6. PlaceInv' /\ FlagInv'
  BY <1>1, <1>2, <1>3, <1>4 DEF IInv, PlaceInv, FlagInv
<1>7. ValueInv'
  BY <1>1, <1>2, <1>4 DEF IInv, ValueInv, Holds
<1>8. KnownInv'
  <2>1. Onward
    BY <1>1, <1>2, LeadsKept, NoneKnown DEF Onward
  <2>2. \A x : Spared(x)
    BY <1>1, <1>4 DEF Spared
  <2>3. Reached' \subseteq Nodes
    BY <1>1, <1>2, QueueFacts DEF IInv, QueueInv
  <2>4. \A q \in Threads : \A k \in {pc'[q]}, s \in {reg'[q]} : Knows(k, s)
    BY <1>1, RegFacts
  <2>5. QED
    BY <1>1, <1>5, <2>1, <2>2, <2>3, <2>4, AllKnown
<1>9. QED
  BY <1>5, <1>6, <1>7, <1>8 DEF IInv

LEMMA NextInv == SafeReuse /\ ~LowMemory /\ IInv /\ [Next]_vars => IInv'
<1>1. SUFFICES ASSUME SafeReuse, ~LowMemory, IInv, [Next]_vars PROVE IInv'
  OBVIOUS
<1>2. CASE UNCHANGED vars
  BY <1>1, <1>2, StutterInv
<1>3. ASSUME NEW p \in Threads, NEW v \in Values, PushCall(p, v) PROVE IInv'
  BY <1>1, <1>3, CallStep
<1>4. ASSUME NEW p \in Threads, PushThrow(p) PROVE IInv'
  BY <1>1, <1>4, StutterInv DEF PushThrow
<1>5. ASSUME NEW p \in Threads, PopLoadHead(p) PROVE IInv'
  BY <1>1, <1>5, PopReads
<1>6. ASSUME NEW p \in Threads, Step(p) PROVE IInv'
  <2>1. CASE PushLoadTail(p) \/ PushLoadNext(p) \/ PushCheck(p) \/ PushLoadLast(p)
    BY <1>1, <2>1, PushReads
  <2>2. CASE PopLoadTail(p) \/ PopLoadNext(p) \/ PopCheck(p) \/ PopCopy(p)
    BY <1>1, <2>2, PopReads
  <2>3. CASE PushHelp(p) \/ PushReturn(p) \/ PopHelp(p)
    BY <1>1, <2>3, Swings
  <2>4. CASE PushLink(p)
    BY <1>1, <2>4, LinkStep
  <2>5. CASE PopExchange(p)
    BY <1>1, <2>5, ExchangeStep
  <2>6. CASE PopFree(p)
    BY <1>1, <2>6, FreeStep
  <2>7. CASE PopMove(p)
    BY <1>1, <2>7, MoveStep
  <2>8. CASE PopFlagNext(p)
    BY <1>1, <2>8, FlagNextStep
  <2>9. CASE PopFlagHead(p)
    BY <1>1, <2>9, FlagHeadStep
  <2>10. QED
    BY <1>6, <2>1, <2>2, <2>3, <2>4, <2>5, <2>6, <2>7, <2>8, <2>9 DEF Step
<1>7. QED
  BY <1>1, <1>2, <1>3, <1>4, <1>5, <1>6 DEF Next

(* As long as no node is reused under a call that refers to it, and no link of
   the pool's free list is null, every reachable state is one of a queue whose
   nodes are linked and owned as the algorithm needs it (concurrent_queue.h). *)
THEOREM Invariant == SafeReuse /\ ~LowMemory => (Spec => []IInv)
<1>1. SUFFICES ASSUME SafeReuse, ~LowMemory PROVE Spec => []IInv
  OBVIOUS
<1>2. IInv /\ [Next]_vars => IInv'
  BY <1>1, NextInv
<1>3. QED
  BY <1>2, InitInv, PTL DEF Spec

(* A node is in the pool, in the queue, about to be linked by one push(), or
   in the hands of the try_pop() calls that are done with its element: none is
   lost and none is returned twice, under the same two hypotheses. *)
THEOREM NoNodeIsLost == SafeReuse /\ ~LowMemory => (Spec => []NodesAccounted)
<1> USE QueueAssumption
<1>1. ASSUME IInv PROVE NodesAccounted
  <2>1. /\ \A p \in Threads : Pushing(p) => reg[p].n \in Nodes /\ Pushes(p, reg[p].n)
        /\ \A p \in Threads : pc[p] \in GiveLabels => reg[p].h \in Nodes /\ Gives(p, reg[p].h)
        /\ \A p \in Threads : pc[p] \in MarkLabels => reg[p].next \in Nodes /\ Marks(p, reg[p].next)
    BY <1>1, RegFacts DEF Knows, Pushing, Pushes, Gives, Marks, GiveLabels, MarkLabels
  <2>2. \A p \in Threads : \A x \in Leaving(p) : x \in Nodes /\ (Gives(p, x) \/ Marks(p, x))
    BY <2>1 DEF Leaving, GiveLabels, MarkLabels
  <2>3. \A p \in Threads : \A x : Gives(p, x) \/ Marks(p, x) => x \in Leaving(p)
    BY DEF Gives, Marks, Leaving
  <2>4. Reached \subseteq Nodes /\ free \subseteq Nodes
    BY <1>1, QueueFacts DEF IInv, QueueInv, TypeOK
  <2>5. NothingLost
    <3>1. ASSUME NEW x \in Nodes
          PROVE  \/ x \in free \/ x \in Reached
                 \/ x \in {reg[p].n : p \in {q \in Threads : Pushing(q)}}
                 \/ x \in UNION {Leaving(p) : p \in Threads}
      BY <1>1, <2>3 DEF IInv, PlaceInv, Fresh, Pushes
    <3>2. UNION {Leaving(p) : p \in Threads} \subseteq Nodes
      BY <2>2
    <3>3. {reg[p].n : p \in {q \in Threads : Pushing(q)}} \subseteq Nodes
      BY <2>1
    <3>4. QED
      BY <2>4, <3>1, <3>2, <3>3 DEF NothingLost
  <2>6. ASSUME NEW p \in Threads
        PROVE  /\ Leaving(p) \cap free = {}
               /\ Pushing(p) => reg[p].n \notin free \cup Reached
               /\ \A q \in Threads \ {p} : Pushing(p) /\ Pushing(q) => reg[p].n # reg[q].n
    <3>1. Leaving(p) \cap free = {}
      BY <1>1, <2>2 DEF IInv, PlaceInv
    <3>2. Pushing(p) => reg[p].n \notin free \cup Reached
      BY <1>1, <2>1 DEF IInv, PlaceInv
    <3>3. ASSUME NEW q \in Threads \ {p}, Pushing(p), Pushing(q), reg[p].n = reg[q].n PROVE FALSE
      <4>1. PICK x \in Nodes : x = reg[p].n
        BY <2>1, <3>3
      <4>2. Pushes(p, x) /\ Pushes(q, x)
        BY <3>3, <4>1 DEF Pushes
      <4>3. QED
        BY <1>1, <4>2 DEF IInv, PlaceInv
    <3>4. QED
      BY <3>1, <3>2, <3>3
  <2>7. free \cap Reached = {}
    BY <1>1, <2>4 DEF IInv, PlaceInv
  <2>8. QED
    BY <1>1, <2>5, <2>6, <2>7 DEF NodesAccounted, IInv, QueueInv
<1>2. QED
  BY <1>1, Invariant, PTL

---------------------------------------------------------------------------
(* The queue implements FifoQueue. *)

(* What a thread at l with the local variables r has taken, and whether it is
   about to return false *)
Taken(l, r) == IF l = "pop_move" THEN value[r.next]
               ELSE IF l \in {"pop_free", "pop_flag_next", "pop_flag_head"} THEN r.val ELSE None

Empty(l, r) == l = "pop_check" /\ r.next = None /\ r.h = r.t /\ r.h = head

Got == [p \in Threads |-> IF pc[p] = "pop_move" THEN value[reg[p].next]
                          ELSE IF pc[p] \in {"pop_free", "pop_flag_next", "pop_flag_head"}
                               THEN reg[p].val ELSE None]

Told == {p \in Threads : pc[p] = "pop_check" /\ reg[p].next = None
                           /\ reg[p].h = reg[p].t /\ reg[p].h = head}

LEMMA GotIs ==
  /\ \A p \in Threads : \A l \in {pc[p]}, r \in {reg[p]} :
       Got[p] = Taken(l, r) /\ (p \in Told <=> Empty(l, r))
  /\ DOMAIN Got = Threads /\ Told \subseteq Threads /\ Got = [p \in Threads |-> Got[p]]
BY DEF Got, Told, Taken, Empty

LEMMA GotIsNext ==
  /\ \A p \in Threads : \A l \in {pc'[p]}, r \in {reg'[p]} :
       Got'[p] = Taken(l, r)' /\ (p \in Told' <=> Empty(l, r)')
  /\ DOMAIN Got' = Threads /\ Told' \subseteq Threads /\ Got' = [p \in Threads |-> Got'[p]]
BY DEF Got, Told, Taken, Empty

(* A step of p with what the others have taken left alone *)
LEMMA OthersKeep ==
  ASSUME IInv, NEW p \in Threads, NEW l \in Labels, NEW r \in Regs, Go(p, l, r),
         \A q \in Threads : \A x \in Nodes : q # p /\ Marks(q, x) => value'[x] = value[x],
         head' = head \/ head' \in Reached \ {head}
  PROVE  /\ Got[p] = Taken(pc[p], reg[p]) /\ (p \in Told <=> Empty(pc[p], reg[p]))
         /\ Got'[p] = Taken(l, r)' /\ (p \in Told' <=> Empty(l, r)')
         /\ Got' = [Got EXCEPT ![p] = Got'[p]]
         /\ Told' \subseteq Told \cup {p}
         /\ head' = head => Told' \ {p} = Told \ {p}
<1>1. /\ pc'[p] = l /\ reg'[p] = r
      /\ \A q \in Threads : q # p => pc'[q] = pc[q] /\ reg'[q] = reg[q]
  BY Others
<1>2. ASSUME NEW q \in Threads, q # p, NEW k, NEW s, k = pc[q], s = reg[q]
      PROVE  Taken(k, s)' = Taken(k, s) /\ (Empty(k, s)' => Empty(k, s))
               /\ (head' = head => (Empty(k, s)' <=> Empty(k, s)))
  <2>1. Knows(k, s) /\ s \in Regs
    BY <1>2, RegFacts
  <2>2. k = "pop_move" => s.next \in Nodes /\ value'[s.next] = value[s.next]
    <3>1. k = "pop_move" => s.next \in Nodes /\ Marks(q, s.next)
      BY <1>2, <2>1 DEF Knows, Regs, Marks
    <3>2. QED
      BY <1>2, <3>1
  <2>3. s.h = head' => head' = head
    BY <2>1 DEF Knows
  <2>4. QED
    BY <2>2, <2>3 DEF Taken, Empty
<1>3. ASSUME NEW q \in Threads, q # p
      PROVE  Got'[q] = Got[q] /\ (q \in Told' => q \in Told)
               /\ (head' = head => (q \in Told' <=> q \in Told))
  <2>1. PICK k, s : k = pc[q] /\ s = reg[q]
    OBVIOUS
  <2>2. k = pc'[q] /\ s = reg'[q]
    BY <1>1, <1>3, <2>1
  <2>3. Got[q] = Taken(k, s) /\ (q \in Told <=> Empty(k, s))
    BY <2>1, GotIs
  <2>4. Got'[q] = Taken(k, s)' /\ (q \in Told' <=> Empty(k, s)')
    BY <2>2, GotIsNext
  <2>5. QED
    BY <1>2, <1>3, <2>1, <2>3, <2>4
<1>4. Got' = [Got EXCEPT ![p] = Got'[p]]
  BY <1>3, GotIs, GotIsNext
<1>5. QED
  BY <1>1, <1>3, <1>4, GotIs, GotIsNext

(* The actions of FifoQueue, in the names above *)
LEMMA MapPush ==
  ASSUME NEW v \in Values, Elements' = Append(Elements, v), Got' = Got, Told' \subseteq Told
  PROVE  [Abstract!Next]_Abstract!vars
BY DEF Abstract!Next, Abstract!Push, Abstract!LookAgain, Got, Told

LEMMA MapPop ==
  ASSUME NEW p \in Threads, Elements # <<>>, Elements' = Tail(Elements), Got[p] = None,
         Got' = [Got EXCEPT ![p] = Head(Elements)], Told' \subseteq Told
  PROVE  [Abstract!Next]_Abstract!vars
<1>1. Abstract!Pop(p)
  BY DEF Abstract!Pop, Abstract!LookAgain, Got, Told
<1>2. QED
  BY <1>1 DEF Abstract!Next

LEMMA MapReturn ==
  ASSUME NEW p \in Threads, Elements' = Elements, Got[p] # None,
         Got' = [Got EXCEPT ![p] = None], Told' = Told
  PROVE  [Abstract!Next]_Abstract!vars
<1>1. Abstract!Return(p)
  BY DEF Abstract!Return, Got, Told
<1>2. QED
  BY <1>1 DEF Abstract!Next

LEMMA MapTell ==
  ASSUME NEW p \in Threads, Elements' = Elements, Elements = <<>>, Got' = Got,
         Told' = Told \cup {p}
  PROVE  [Abstract!Next]_Abstract!vars
<1>1. Abstract!Tell(p)
  BY DEF Abstract!Tell, Got, Told
<1>2. QED
  BY <1>1 DEF Abstract!Next

LEMMA MapReturnEmpty ==
  ASSUME NEW p \in Threads, Elements' = Elements, p \in Told, Got' = Got, Told' = Told \ {p}
  PROVE  [Abstract!Next]_Abstract!vars
<1>1. Abstract!ReturnEmpty(p)
  BY DEF Abstract!ReturnEmpty, Got, Told
<1>2. QED
  BY <1>1 DEF Abstract!Next

LEMMA MapStutter ==
  ASSUME Elements' = Elements, Got' = Got, Told' = Told
  PROVE  [Abstract!Next]_Abstract!vars
BY DEF Abstract!vars, Got, Told

(* A step of p by which it neither takes an element nor learns anything *)
LEMMA Unseen ==
  ASSUME IInv, NEW p \in Threads, NEW l \in Labels, NEW r \in Regs, Go(p, l, r),
         \A q \in Threads : \A x \in Nodes : q # p /\ Marks(q, x) => value'[x] = value[x],
         head' = head, Elements' = Elements, Taken(l, r)' = Taken(pc[p], reg[p]),
         ~Empty(l, r)', ~Empty(pc[p], reg[p])
  PROVE  [Abstract!Next]_Abstract!vars
<1>1. /\ Got[p] = Taken(pc[p], reg[p]) /\ Got'[p] = Taken(l, r)' /\ p \notin Told /\ p \notin Told'
      /\ Got' = [Got EXCEPT ![p] = Got'[p]] /\ Told' \ {p} = Told \ {p}
  BY OthersKeep
<1>2. Got' = Got /\ Told' = Told
  BY <1>1, GotIs
<1>3. QED
  BY <1>2, MapStutter

LEMMA PushStepMaps ==
  ASSUME IInv, IInv', Elements' = Elements, NEW p \in Threads,
         \/ PushLoadTail(p) \/ PushLoadNext(p) \/ PushCheck(p) \/ PushLoadLast(p)
         \/ PushHelp(p) \/ PushReturn(p)
  PROVE  [Abstract!Next]_Abstract!vars
<1>1. PICK l, r : Go(p, l, r) /\ l \in PushLabels \cup {"idle"}
  BY DEF PushLoadTail, PushLoadNext, PushCheck, PushLoadLast, PushHelp, PushReturn, PushLabels
<1>2. /\ mem' = mem /\ head' = head /\ pc[p] \in PushLabels \cup {"push_swing"}
  BY DEF PushLoadTail, PushLoadNext, PushCheck, PushLoadLast, PushHelp, PushReturn, PushLabels, At
<1>3. l \in Labels /\ r \in Regs
  <2>1. pc'[p] = l /\ reg'[p] = r
    BY <1>1 DEF Go, IInv, TypeOK
  <2>2. QED
    BY <2>1 DEF IInv, TypeOK
<1>4. value' = value
  BY <1>2 DEF mem
<1>5. /\ Taken(l, r)' = Taken(pc[p], reg[p]) /\ ~Empty(l, r)' /\ ~Empty(pc[p], reg[p])
  BY <1>1, <1>2 DEF Taken, Empty, PushLabels
<1>6. QED
  BY <1>1, <1>2, <1>3, <1>4, <1>5, Unseen

LEMMA CallMaps ==
  ASSUME SafeReuse, IInv, NEW p \in Threads, NEW v \in Values, PushCall(p, v)
  PROVE  [Abstract!Next]_Abstract!vars
<1>1. PICK n \in free :
        /\ value' = [value EXCEPT ![n] = v]
        /\ Go(p, "push", [NoReg EXCEPT !.n = n])
  BY DEF PushCall
<1>2. At(p, "idle") /\ head' = head /\ n \in Nodes
  BY DEF PushCall, IInv, TypeOK
<1>3. PICK r : r = [NoReg EXCEPT !.n = n]
  OBVIOUS
<1>4. r \in Regs
  BY <1>2, <1>3 DEF NoReg, Regs, Words
<1>5. \A q \in Threads : \A x \in Nodes : Marks(q, x) => value'[x] = value[x]
  BY <1>1, <1>2 DEF IInv, PlaceInv, TypeOK
<1>6. Elements' = Elements
  BY CallStep
<1>7. /\ Taken("push", r)' = Taken(pc[p], reg[p]) /\ ~Empty("push", r)' /\ ~Empty(pc[p], reg[p])
  BY <1>2 DEF Taken, Empty, At
<1>8. QED
  BY <1>1, <1>2, <1>3, <1>4, <1>5, <1>6, <1>7, Unseen DEF Labels

LEMMA LinkMaps ==
  ASSUME IInv, NEW p \in Threads, PushLink(p)
  PROVE  [Abstract!Next]_Abstract!vars
<1>1. /\ At(p, "push_link") /\ value' = value /\ head' = head
  BY DEF PushLink
<1>2. PICK l, r : Go(p, l, r) /\ l \in {"push", "push_swing"}
  BY DEF PushLink
<1>3. IInv'
  BY LinkStep
<1>4. l \in Labels /\ r \in Regs
  <2>1. pc'[p] = l /\ reg'[p] = r
    BY <1>2 DEF Go, IInv, TypeOK
  <2>2. QED
    BY <1>3, <2>1 DEF IInv, TypeOK
<1>5. /\ Taken(l, r)' = None /\ Taken(pc[p], reg[p]) = None
      /\ ~Empty(l, r)' /\ ~Empty(pc[p], reg[p])
  BY <1>1, <1>2 DEF Taken, Empty, At
<1>6. CASE Elements' = Elements
  BY <1>1, <1>2, <1>4, <1>5, <1>6, Unseen
<1>7. ASSUME NEW v \in Values, Elements' = Append(Elements, v) PROVE [Abstract!Next]_Abstract!vars
  <2>1. /\ Got[p] = None /\ Got'[p] = None /\ Got' = [Got EXCEPT ![p] = Got'[p]]
        /\ Told' \subseteq Told
    BY <1>1, <1>2, <1>4, <1>5, OthersKeep
  <2>2. Got' = Got
    BY <2>1, GotIs
  <2>3. QED
    BY <1>7, <2>1, <2>2, MapPush
<1>8. QED
  BY <1>6, <1>7, LinkStep

(* Nothing follows the dummy of an empty queue. *)
LEMMA EmptyQueue == ASSUME IInv, next[head] = None PROVE Elements = <<>>
<1>1. /\ Intact(Chain) /\ Len(Chain) \in Nat /\ 1 \in 1..Len(Chain) /\ head = Chain[1]
      /\ None \notin Reached /\ \A k \in 1..Len(Chain) : Chain[k] \in Reached
  BY QueueFacts DEF IInv, QueueInv
<1>2. Len(Chain) = 1
  <2>1. ASSUME Len(Chain) # 1 PROVE next[head] = Chain[1 + 1]
    BY <1>1, <2>1 DEF Intact
  <2>2. Len(Chain) # 1 => 1 + 1 \in 1..Len(Chain)
    <3>1. PICK n \in Nat : n = Len(Chain) /\ 1 \in 1..n
      BY <1>1
    <3>2. n # 1 => 1 + 1 \in 1..n
      BY <3>1
    <3>3. QED
      BY <3>1, <3>2
  <2>3. QED
    BY <1>1, <2>1, <2>2
<1>3. PICK s : s = Chain
  OBVIOUS
<1>4. Elements = [k \in 1..(Len(s) - 1) |-> value[s[k + 1]]]
  BY <1>1, <1>3, ElementsAre
<1>5. Len(s) - 1 = 0
  BY <1>2, <1>3
<1>6. Elements = [k \in 1..0 |-> value[s[k + 1]]]
  BY <1>4, <1>5
<1>7. 1..0 = {} /\ Len(Elements) = 0
  BY <1>6
<1>8. Elements \in Seq({})
  BY <1>6, <1>7, IsASeq
<1>9. QED
  BY <1>7, <1>8, EmptySeq

LEMMA PopReadMaps ==
  ASSUME IInv, IInv', Elements' = Elements, NEW p \in Threads,
         \/ PopLoadHead(p) \/ PopLoadTail(p) \/ PopCopy(p) \/ PopHelp(p)
  PROVE  [Abstract!Next]_Abstract!vars
<1> DEFINE L == {"pop", "pop_tail", "pop_next", "pop_cas"}
<1>1. PICK l, r : Go(p, l, r) /\ l \in L
  BY DEF PopLoadHead, PopLoadTail, PopCopy, PopHelp
<1>2. /\ mem' = mem /\ head' = head /\ pc[p] \in {"idle", "pop", "pop_tail", "pop_copy", "pop_help"}
  BY DEF PopLoadHead, PopLoadTail, PopCopy, PopHelp, At
<1>3. l \in Labels /\ r \in Regs
  <2>1. pc'[p] = l /\ reg'[p] = r
    BY <1>1 DEF Go, IInv, TypeOK
  <2>2. QED
    BY <2>1 DEF IInv, TypeOK
<1>4. value' = value
  BY <1>2 DEF mem
<1>5. /\ Taken(l, r)' = Taken(pc[p], reg[p]) /\ ~Empty(l, r)' /\ ~Empty(pc[p], reg[p])
  BY <1>1, <1>2 DEF Taken, Empty
<1>6. QED
  BY <1>1, <1>2, <1>3, <1>4, <1>5, Unseen

LEMMA LoadNextMaps ==
  ASSUME IInv, IInv', Elements' = Elements, NEW p \in Threads, PopLoadNext(p)
  PROVE  [Abstract!Next]_Abstract!vars
<1> DEFINE s == reg[p]
<1>1. PICK r : r = [s EXCEPT !.next = next[s.h]] /\ Go(p, "pop_check", r)
  BY DEF PopLoadNext
<1>2. /\ mem' = mem /\ head' = head /\ At(p, "pop_next") /\ s \in Regs
  BY RegFacts DEF PopLoadNext
<1>3. /\ "pop_check" \in Labels /\ r \in Regs
  <2>1. reg'[p] = r
    BY <1>1 DEF Go, IInv, TypeOK
  <2>2. QED
    BY <2>1 DEF IInv, TypeOK, Labels
<1>4. value' = value
  BY <1>2 DEF mem
<1>5. /\ Taken("pop_check", r)' = None /\ Taken(pc[p], reg[p]) = None /\ ~Empty(pc[p], reg[p])
  BY <1>2 DEF Taken, Empty, At
<1>6. CASE ~Empty("pop_check", r)'
  BY <1>1, <1>2, <1>3, <1>4, <1>5, <1>6, Unseen
<1>7. CASE Empty("pop_check", r)'
  <2>1. /\ Got[p] = None /\ Got'[p] = None /\ p \in Told' /\ p \notin Told
        /\ Got' = [Got EXCEPT ![p] = Got'[p]] /\ Told' \ {p} = Told \ {p}
    BY <1>1, <1>2, <1>3, <1>4, <1>5, <1>7, OthersKeep
  <2>2. Got' = Got /\ Told' = Told \cup {p}
    BY <2>1, GotIs
  <2>3. next[head] = None
    BY <1>1, <1>2, <1>7 DEF Empty, Regs
  <2>4. QED
    BY <2>2, <2>3, EmptyQueue, MapTell
<1>8. QED
  BY <1>6, <1>7

LEMMA CheckMaps ==
  ASSUME IInv, IInv', Elements' = Elements, NEW p \in Threads, PopCheck(p)
  PROVE  [Abstract!Next]_Abstract!vars
<1> DEFINE s == reg[p]
<1>1. /\ mem' = mem /\ head' = head /\ At(p, "pop_check")
  BY DEF PopCheck
<1>2. PICK l, r : /\ Go(p, l, r) /\ l \in {"pop", "idle", "pop_help", "pop_copy", "pop_cas"}
                  /\ s.h = s.t /\ s.next = None /\ s.h = head => l = "idle"
  BY DEF PopCheck, HeadIs
<1>3. l \in Labels /\ r \in Regs
  <2>1. pc'[p] = l /\ reg'[p] = r
    BY <1>2 DEF Go, IInv, TypeOK
  <2>2. QED
    BY <2>1 DEF IInv, TypeOK
<1>4. value' = value
  BY <1>1 DEF mem
<1>5. /\ Taken(l, r)' = None /\ Taken(pc[p], reg[p]) = None /\ ~Empty(l, r)'
  BY <1>1, <1>2 DEF Taken, Empty, At
<1>6. CASE ~Empty(pc[p], reg[p])
  BY <1>1, <1>2, <1>3, <1>4, <1>5, <1>6, Unseen
<1>7. CASE Empty(pc[p], reg[p])
  <2>1. /\ Got[p] = None /\ Got'[p] = None /\ p \in Told /\ p \notin Told'
        /\ Got' = [Got EXCEPT ![p] = Got'[p]] /\ Told' \ {p} = Told \ {p}
    BY <1>1, <1>2, <1>3, <1>4, <1>5, <1>7, OthersKeep
  <2>2. Got' = Got /\ Told' = Told \ {p}
    BY <2>1, GotIs
  <2>3. QED
    BY <2>1, <2>2, MapReturnEmpty
<1>8. QED
  BY <1>6, <1>7

LEMMA ExchangeMaps ==
  ASSUME IInv, NEW p \in Threads, PopExchange(p)
  PROVE  [Abstract!Next]_Abstract!vars
<1> DEFINE s == reg[p]
           d == s.next
           l == IF trivial_dtor THEN "pop_free" ELSE "pop_move"
<1>1. /\ At(p, "pop_cas") /\ mem' = mem /\ s \in Regs /\ Knows("pop_cas", s)
  BY RegFacts DEF PopExchange, At
<1>2. value' = value /\ trivial_dtor' = trivial_dtor
  BY <1>1 DEF mem
<1>3. Taken(pc[p], reg[p]) = None /\ ~Empty(pc[p], reg[p])
  BY <1>1 DEF Taken, Empty, At
<1>4. CASE Elements' = Elements /\ Go(p, "pop", NoReg)
  <2>1. head' = head
    <3>1. pc'[p] = "pop"
      BY <1>4 DEF Go, IInv, TypeOK
    <3>2. HeadIs(s.h) => pc'[p] \in {"pop_free", "pop_move"}
      BY DEF PopExchange, Go, IInv, TypeOK
    <3>3. QED
      BY <3>1, <3>2 DEF PopExchange
  <2>2. Taken("pop", NoReg)' = None /\ ~Empty("pop", NoReg)'
    BY DEF Taken, Empty
  <2>3. QED
    BY <1>2, <1>3, <1>4, <2>1, <2>2, NoneKnown, Unseen DEF Labels
<1>5. CASE /\ Elements # <<>> /\ Elements' = Tail(Elements)
           /\ head = s.h /\ Head(Elements) = value[d]
           /\ trivial_dtor => Head(Elements) = s.val
           /\ Go(p, l, s)
  <2>1. head' = d /\ d \in Reached \ {head}
    <3>1. head' = d /\ next[head] = d /\ d # None
      BY <1>1, <1>5, QueueAssumption DEF PopExchange, HeadIs, Word, Knows
    <3>2. QED
      BY <3>1, QueueFacts DEF IInv, QueueInv
  <2>2. PICK k, u : k = l /\ u = s
    OBVIOUS
  <2>3. k \in Labels /\ u \in Regs /\ Go(p, k, u)
    BY <1>1, <1>5, <2>2 DEF Labels
  <2>4. Taken(k, u)' = Head(Elements) /\ ~Empty(k, u)'
    BY <1>2, <1>5, <2>2 DEF Taken, Empty
  <2>5. /\ Got[p] = None /\ Got'[p] = Head(Elements) /\ p \notin Told /\ p \notin Told'
        /\ Got' = [Got EXCEPT ![p] = Got'[p]] /\ Told' \subseteq Told \cup {p}
    BY <1>2, <1>3, <2>1, <2>3, <2>4, OthersKeep
  <2>6. Got' = [Got EXCEPT ![p] = Head(Elements)] /\ Told' \subseteq Told
    BY <2>5
  <2>7. QED
    BY <1>5, <2>5, <2>6, MapPop
<1>6. QED
  BY <1>4, <1>5, ExchangeStep

LEMMA MoveMaps ==
  ASSUME ~LowMemory, IInv, NEW p \in Threads, PopMove(p) \/ PopFlagNext(p)
  PROVE  [Abstract!Next]_Abstract!vars
<1> DEFINE s == reg[p]
           d == s.next
<1>1. s \in Regs /\ Knows(pc[p], s) /\ head' = head /\ Elements' = Elements
  BY RegFacts, MoveStep, FlagNextStep DEF PopMove, PopFlagNext
<1>2. d \in Nodes /\ Marks(p, d)
  BY <1>1 DEF PopMove, PopFlagNext, At, Knows, Marks
<1>3. \A q \in Threads : \A x \in Nodes : q # p /\ Marks(q, x) => value'[x] = value[x]
  <2>1. \A x \in Nodes : x # d => value'[x] = value[x]
    BY <1>2, Deallocating DEF PopMove, PopFlagNext, IInv, TypeOK
  <2>2. \A q \in Threads : Marks(q, d) => q = p
    BY <1>2 DEF IInv, PlaceInv
  <2>3. QED
    BY <2>1, <2>2
<1>4. PICK l, r : /\ Go(p, l, r) /\ l \in {"pop_flag_next", "pop_flag_head"}
                  /\ r.val = Taken(pc[p], s) /\ r \in Regs
  <2>1. CASE PopMove(p)
    <3>1. [s EXCEPT !.val = value[d]] \in Regs /\ [s EXCEPT !.val = value[d]].val = value[d]
      BY <1>1, <1>2 DEF Regs, IInv, TypeOK
    <3>2. Taken(pc[p], s) = value[d] /\ Go(p, "pop_flag_next", [s EXCEPT !.val = value[d]])
      BY <2>1 DEF PopMove, Taken, At
    <3>3. QED
      BY <3>1, <3>2
  <2>2. CASE PopFlagNext(p)
    BY <1>1, <2>2 DEF PopFlagNext, Taken, At
  <2>3. QED
    BY <2>1, <2>2
<1>5. Taken(l, r)' = Taken(pc[p], s) /\ ~Empty(l, r)' /\ ~Empty(pc[p], s)
  BY <1>4 DEF Taken, Empty, PopMove, PopFlagNext, At
<1>6. QED
  BY <1>1, <1>3, <1>4, <1>5, Unseen DEF Labels

LEMMA ReturnMaps ==
  ASSUME ~LowMemory, IInv, NEW p \in Threads, PopFree(p) \/ PopFlagHead(p)
  PROVE  [Abstract!Next]_Abstract!vars
<1>1. /\ head' = head /\ Elements' = Elements /\ Go(p, "idle", NoReg)
      /\ pc[p] \in {"pop_free", "pop_flag_head"} /\ NoReg \in Regs
  BY FreeStep, FlagHeadStep, NoneKnown DEF PopFree, PopFlagHead, At
<1>1a. \A q \in Threads : \A x \in Nodes : q # p /\ Marks(q, x) => value'[x] = value[x]
  <2> DEFINE d == reg[p].h
  <2>1. Knows(pc[p], reg[p]) /\ d \in Nodes /\ Gives(p, d)
    BY <1>1, RegFacts DEF Knows, Gives
  <2>2. CASE PopFree(p)
    BY <2>1, <2>2, Destroying DEF PopFree, Knows, At
  <2>3. CASE PopFlagHead(p)
    <3>1. ~trivial_dtor
      BY <2>1, <2>3 DEF PopFlagHead, Knows, At
    <3>2. flag[d] => \A q \in Threads : ~Marks(q, d)
      BY <2>1, <3>1 DEF IInv, FlagInv
    <3>3. QED
      BY <2>1, <2>3, <3>2, Deallocating DEF PopFlagHead
  <2>4. QED
    BY <2>2, <2>3
<1>2. Taken(pc[p], reg[p]) \in Values /\ ~Empty(pc[p], reg[p])
  BY <1>1, RegFacts DEF Taken, Empty, Holds
<1>3. Taken("idle", NoReg)' = None /\ ~Empty("idle", NoReg)'
  BY DEF Taken, Empty
<1>4. /\ Got[p] # None /\ Got'[p] = None /\ p \notin Told /\ p \notin Told'
      /\ Got' = [Got EXCEPT ![p] = Got'[p]] /\ Told' \ {p} = Told \ {p}
  BY <1>1, <1>1a, <1>2, <1>3, OthersKeep, QueueAssumption DEF Labels
<1>5. Got' = [Got EXCEPT ![p] = None] /\ Told' = Told
  BY <1>4
<1>6. QED
  BY <1>1, <1>4, <1>5, MapReturn

LEMMA InitMaps == Init => Abstract!Init
<1>1. SUFFICES ASSUME Init PROVE Abstract!Init
  OBVIOUS
<1>2. Elements = <<>>
  BY <1>1, InitInv, EmptyQueue DEF Init, IInv, TypeOK
<1>3. Got = [p \in Threads |-> None] /\ Told = {}
  BY <1>1 DEF Init, Got, Told
<1>4. QED
  BY <1>2, <1>3 DEF Abstract!Init, Got, Told

LEMMA StepMaps ==
  SafeReuse /\ ~LowMemory /\ IInv /\ IInv' /\ [Next]_vars => [Abstract!Next]_Abstract!vars
<1>1. SUFFICES ASSUME SafeReuse, ~LowMemory, IInv, IInv', [Next]_vars PROVE [Abstract!Next]_Abstract!vars
  OBVIOUS
<1>2. UNCHANGED vars => [Abstract!Next]_Abstract!vars
  <2>1. ASSUME UNCHANGED vars PROVE Elements' = Elements /\ Got' = Got /\ Told' = Told
    <3>1. Elements' = Elements
      BY <1>1, <2>1, QueueKept DEF vars, IInv, QueueInv
    <3>2. QED
      BY <2>1, <3>1 DEF vars, Got, Told
  <2>2. QED
    BY <2>1, MapStutter
<1>3. ASSUME NEW p \in Threads, NEW v \in Values, PushCall(p, v)
      PROVE  [Abstract!Next]_Abstract!vars
  BY <1>1, <1>3, CallMaps
<1>4. ASSUME NEW p \in Threads, PopLoadHead(p) PROVE [Abstract!Next]_Abstract!vars
  BY <1>1, <1>4, PopReads, PopReadMaps
<1>5. ASSUME NEW p \in Threads, Step(p) PROVE [Abstract!Next]_Abstract!vars
  <2>1. CASE PushLoadTail(p) \/ PushLoadNext(p) \/ PushCheck(p) \/ PushLoadLast(p)
    BY <1>1, <2>1, PushReads, PushStepMaps
  <2>2. CASE PushHelp(p) \/ PushReturn(p)
    BY <1>1, <2>2, Swings, PushStepMaps
  <2>3. CASE PopLoadTail(p) \/ PopCopy(p)
    BY <1>1, <2>3, PopReads, PopReadMaps
  <2>4. CASE PopHelp(p)
    BY <1>1, <2>4, Swings, PopReadMaps
  <2>5. CASE PopLoadNext(p)
    BY <1>1, <2>5, PopReads, LoadNextMaps
  <2>6. CASE PopCheck(p)
    BY <1>1, <2>6, PopReads, CheckMaps
  <2>7. CASE PushLink(p)
    BY <1>1, <2>7, LinkMaps
  <2>8. CASE PopExchange(p)
    BY <1>1, <2>8, ExchangeMaps
  <2>9. CASE PopMove(p) \/ PopFlagNext(p)
    BY <1>1, <2>9, MoveMaps
  <2>10. CASE PopFree(p) \/ PopFlagHead(p)
    BY <1>1, <2>10, ReturnMaps
  <2>11. QED
    BY <1>5, <2>1, <2>2, <2>3, <2>4, <2>5, <2>6, <2>7, <2>8, <2>9, <2>10 DEF Step
<1>6. QED
  BY <1>1, <1>2, <1>3, <1>4, <1>5 DEF Next, PushThrow

(* First in, first out: a push() takes effect when it links its node, a
   try_pop() when it moves head, or, if it returns false, when it read that
   nothing follows the dummy.  The hypotheses are those of Invariant. *)
THEOREM QueueImplements == SafeReuse /\ ~LowMemory => (Spec => ImplementsQueue)
<1>1. SUFFICES ASSUME SafeReuse, ~LowMemory PROVE Spec => ImplementsQueue
  OBVIOUS
<1>2. IInv /\ IInv' /\ [Next]_vars => [Abstract!Next]_Abstract!vars
  BY <1>1, StepMaps
<1>3. Spec => []IInv
  BY <1>1, Invariant
<1>4. QED
  BY <1>2, <1>3, InitMaps, PTL DEF Spec, ImplementsQueue, Abstract!Spec
==============================================================================
