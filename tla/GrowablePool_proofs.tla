--------------------------- MODULE GrowablePool_proofs ---------------------------
(***************************************************************************)
(* Proofs about GrowablePool, for any threads, chunks and blocks.          *)
(***************************************************************************)
EXTENDS GrowablePool, SequenceTheorems, FiniteSetTheorems, WellFoundedInduction, TLAPS

---------------------------------------------------------------------------
(* The stack *)

(* The elements of s are the stack, its top first. *)
Intact(s) ==
  /\ s \in Seq(Chunks)
  /\ \A j, k \in 1..Len(s) : s[j] = s[k] => j = k
  /\ head = IF Len(s) = 0 THEN None ELSE s[1]
  /\ \A k \in 1..Len(s) : next[s[k]] = IF k = Len(s) THEN None ELSE s[k + 1]

Most == Cardinality(Chunks)

LEMMA MostType == Most \in Nat /\ chunks!Cardinality(Chunks) = Most
<1>1. chunks!Cardinality(Chunks) = Cardinality(Chunks)
  BY DEF chunks!Cardinality, Cardinality
<1>2. QED
  BY <1>1, GrowableAssumption, FS_CardinalityType DEF Most

(* Every set of numbers with a member has a least one. *)
LEMMA LeastNumber ==
  ASSUME NEW S, S \subseteq Nat, S # {}
  PROVE  \E m \in S : \A n \in S : m <= n
<1>1. PICK m \in S : \A n \in S : <<n, m>> \notin OpToRel(<, Nat)
  BY NatLessThanWellFounded, WFMin
<1>2. ASSUME NEW n \in S PROVE m <= n
  <2>1. m \in Nat /\ n \in Nat
    OBVIOUS
  <2>2. n < m => <<n, m>> \in OpToRel(<, Nat)
    BY <2>1 DEF OpToRel
  <2>3. ~(n < m)
    BY <1>1, <2>2
  <2>4. QED
    BY <2>1, <2>3
<1>3. QED
  BY <1>2

LEMMA WalkTurns ==
  ASSUME \E W : W = [k \in 0..Most |-> IF k = 0 THEN head
                         ELSE IF W[k - 1] = None THEN None ELSE next[W[k - 1]]]
  PROVE  chunks!Walk = [k \in 0..Most |->
           IF k = 0 THEN head
           ELSE IF chunks!Walk[k - 1] = None THEN None ELSE next[chunks!Walk[k - 1]]]
  BY MostType DEF chunks!Walk

(* Who walks a stack that is intact passes its elements. *)
LEMMA WalkPasses ==
  ASSUME NEW s, Intact(s)
  PROVE  /\ Len(s) \in 0..Most
         /\ \A k \in 0..Most : chunks!Walk[k] = IF k < Len(s) THEN s[k + 1] ELSE None
<1> DEFINE n == Len(s)
           W == [k \in 0..Most |-> IF k < n THEN s[k + 1] ELSE None]
<1>1. n \in Nat /\ s \in [1..n -> Chunks] /\ Most \in Nat
  BY MostType, LenProperties DEF Intact
<1>2. n <= Most
  <2>1. s \in Injection(1..n, Chunks)
    BY <1>1 DEF Intact, Injection, IsInjective
  <2>2. Cardinality(1..n) = n
    BY <1>1, FS_Interval
  <2>3. QED
    BY <2>1, <2>2, GrowableAssumption, FS_Injection DEF Most
<1>3. \A k \in 0..Most : W[k] = IF k < n THEN s[k + 1] ELSE None
  OBVIOUS
<1> HIDE DEF W
<1>4. ASSUME NEW k \in 0..Most
      PROVE  W[k] = IF k = 0 THEN head ELSE IF W[k - 1] = None THEN None ELSE next[W[k - 1]]
  <2>1. CASE k = 0
    <3>1. head = IF n = 0 THEN None ELSE s[1]
      BY DEF Intact
    <3>2. W[0] = IF 0 < n THEN s[1] ELSE None
      BY <1>1, <1>3
    <3>3. W[0] = head
      BY <1>1, <3>1, <3>2
    <3>4. QED
      BY <2>1, <3>3
  <2>2. CASE k # 0 /\ k - 1 < n
    <3>1. k \in 1..n /\ k - 1 \in 0..Most /\ W[k - 1] = s[k] /\ s[k] # None /\ (k = n \/ k < n)
      <4>1. k \in 1..n /\ k - 1 \in 0..Most /\ (k - 1) + 1 = k
        BY <1>1, <2>2
      <4>2. k = n \/ k < n
        <5>1. n \in Nat
          BY <1>1
        <5>2. k \in 1..n
          BY <4>1
        <5>3. QED
          BY <5>1, <5>2
      <4>3. QED
        BY <1>1, <1>3, <2>2, <4>1, <4>2, GrowableAssumption
    <3>2. next[s[k]] = IF k = n THEN None ELSE s[k + 1]
      BY <3>1 DEF Intact
    <3>3. W[k] = next[s[k]]
      <4>1. W[k] = IF k < n THEN s[k + 1] ELSE None
        BY <1>3
      <4>2. k = n \/ k # n
        OBVIOUS
      <4>3. k = n => W[k] = None /\ next[s[k]] = None
        BY <1>1, <3>2, <4>1
      <4>4. k # n => W[k] = s[k + 1] /\ next[s[k]] = s[k + 1]
        BY <3>1, <3>2, <4>1
      <4>5. QED
        BY <4>2, <4>3, <4>4
    <3>4. QED
      BY <2>2, <3>1, <3>3
  <2>3. CASE k # 0 /\ ~(k - 1 < n)
    <3>1. k - 1 \in 0..Most /\ ~(k < n)
      BY <1>1, <2>3
    <3>2. QED
      BY <1>3, <2>3, <3>1
  <2>4. QED
    BY <2>1, <2>2, <2>3
<1>5. W = [k \in 0..Most |-> IF k = 0 THEN head
                             ELSE IF W[k - 1] = None THEN None ELSE next[W[k - 1]]]
  BY <1>4 DEF W
<1> DEFINE V == chunks!Walk
<1>6. V = [k \in 0..Most |-> IF k = 0 THEN head
                             ELSE IF V[k - 1] = None THEN None ELSE next[V[k - 1]]]
  <2>1. \E w : w = [k \in 0..Most |-> IF k = 0 THEN head
                                      ELSE IF w[k - 1] = None THEN None ELSE next[w[k - 1]]]
    BY <1>5
  <2>2. QED
    BY <2>1, WalkTurns
<1> HIDE DEF V
<1>7. ASSUME NEW k \in 0..Most
      PROVE  V[k] = IF k = 0 THEN head ELSE IF V[k - 1] = None THEN None ELSE next[V[k - 1]]
  BY <1>6
<1>8. \A k \in 0..Most : V[k] = W[k]
  <2> DEFINE Off == {k \in 0..Most : V[k] # W[k]}
  <2>1. SUFFICES ASSUME Off # {} PROVE FALSE
    OBVIOUS
  <2>2. PICK k \in Off : \A l \in Off : k <= l
    <3>1. Off \subseteq Nat
      BY <1>1
    <3>2. QED
      BY <2>1, <3>1, LeastNumber
  <2>3. k = 0 \/ (k - 1 \in 0..Most /\ V[k - 1] = W[k - 1])
    BY <1>1, <2>2
  <2>4. QED
    BY <1>4, <1>7, <2>2, <2>3
<1>9. QED
  BY <1>1, <1>2, <1>3, <1>8 DEF V

LEMMA ChainIs == ASSUME NEW s, Intact(s) PROVE chunks!Chain = s
<1> DEFINE n == Len(s)
<1>1. /\ n \in 0..Most /\ Most \in Nat /\ s \in [1..n -> Chunks]
      /\ \A k \in 0..Most : chunks!Walk[k] = IF k < n THEN s[k + 1] ELSE None
  BY WalkPasses, MostType, LenProperties DEF Intact
<1>2. \A k \in 1..n : s[k] # None
  BY <1>1, GrowableAssumption
<1>3. \A k \in 0..Most : chunks!Walk[k] = None <=> k >= n
  BY <1>1, <1>2
<1>4. chunks!Size = n
  <2> DEFINE size(k) == /\ k < Most => chunks!Walk[k] = None
                        /\ \A j \in 0..(k - 1) : chunks!Walk[j] # None
  <2>1. size(n)
    BY <1>1, <1>3
  <2>2. ASSUME NEW k \in 0..Most, size(k) PROVE k = n
    <3>1. ~(k < n)
      BY <1>1, <1>3, <2>2
    <3>2. ~(n < k)
      <4>1. n < k => n \in 0..(k - 1) /\ n \in 0..Most
        BY <1>1
      <4>2. QED
        BY <1>3, <2>2, <4>1
    <3>3. k \in Nat /\ n \in Nat
      BY <1>1
    <3>4. QED
      BY <3>1, <3>2, <3>3
  <2>3. chunks!Size = CHOOSE k \in 0..Most : size(k)
    BY MostType DEF chunks!Size
  <2> HIDE DEF size
  <2>4. QED
    BY <1>1, <2>1, <2>2, <2>3
<1>5. chunks!Chain = [k \in 1..n |-> chunks!Walk[k - 1]]
  BY <1>4 DEF chunks!Chain
<1>6. \A k \in 1..n : k - 1 \in 0..Most /\ chunks!Walk[k - 1] = s[k]
  BY <1>1
<1>7. QED
  BY <1>1, <1>5, <1>6

LEMMA ChainIsNext == \A s : Intact(s)' => chunks!Chain' = s
<1>1. \A s : Intact(s) => chunks!Chain = s
  BY ChainIs
<1>2. (\A s : Intact(s) => chunks!Chain = s)'
  BY <1>1, PTL
<1>3. QED
  BY <1>2

(* A step that leaves head and the links of the stack alone *)
LEMMA IntactKept ==
  ASSUME NEW s, Intact(s), head' = head, \A k \in 1..Len(s) : next'[s[k]] = next[s[k]]
  PROVE  Intact(s)'
  BY DEF Intact

LEMMA IntactPushed ==
  ASSUME NEW s, Intact(s), NEW c \in Chunks, \A k \in 1..Len(s) : s[k] # c,
         head' = c, next'[c] = head, \A k \in 1..Len(s) : next'[s[k]] = next[s[k]]
  PROVE  Intact(<<c>> \o s)'
<1> DEFINE n == Len(s)
           g == <<c>> \o s
<1>1. n \in Nat /\ s \in Seq(Chunks)
  BY LenProperties DEF Intact
<1>2. /\ g \in Seq(Chunks) /\ Len(g) = n + 1 /\ g[1] = c
      /\ \A k \in 1..n : g[k + 1] = s[k]
  BY <1>1
<1> HIDE DEF g
<1>3. \A k \in 1..(n + 1) : k # 1 => k - 1 \in 1..n /\ g[k] = s[k - 1]
  <2>1. TAKE k \in 1..(n + 1)
  <2>2. SUFFICES ASSUME k # 1 PROVE k - 1 \in 1..n /\ g[k] = s[k - 1]
    OBVIOUS
  <2>3. k - 1 \in 1..n /\ (k - 1) + 1 = k
    BY <1>1, <2>2
  <2>4. QED
    BY <1>2, <2>3
<1>4. \A j, k \in 1..(n + 1) : g[j] = g[k] => j = k
  <2>1. TAKE j, k \in 1..(n + 1)
  <2>2. CASE j = 1 \/ k = 1
    BY <1>2, <1>3, <2>2
  <2>3. CASE j # 1 /\ k # 1
    <3>1. g[j] = g[k] => j - 1 = k - 1
      BY <1>3, <2>3 DEF Intact
    <3>2. QED
      BY <1>1, <3>1
  <2>4. QED
    BY <2>2, <2>3
<1>5. ASSUME NEW k \in 1..(n + 1)
      PROVE  next'[g[k]] = IF k = n + 1 THEN None ELSE g[k + 1]
  <2>1. CASE k = 1
    <3>1. CASE n = 0
      BY <1>1, <1>2, <2>1, <3>1 DEF Intact
    <3>2. CASE n # 0
      <4>1. 1 \in 1..n /\ 1 # n + 1
        BY <1>1, <3>2
      <4>2. head = s[1] /\ g[1 + 1] = s[1]
        BY <1>2, <3>2, <4>1 DEF Intact
      <4>3. QED
        BY <1>2, <2>1, <4>1, <4>2
    <3>3. QED
      BY <3>1, <3>2
  <2>2. CASE k # 1
    <3>1. k - 1 \in 1..n /\ g[k] = s[k - 1]
      BY <1>3, <2>2
    <3>2. next'[g[k]] = IF k - 1 = n THEN None ELSE s[(k - 1) + 1]
      BY <3>1 DEF Intact
    <3>3. CASE k = n + 1
      <4>1. k - 1 = n
        BY <1>1, <3>3
      <4>2. QED
        BY <3>2, <3>3, <4>1
    <3>4. CASE k # n + 1
      <4>1. k \in 1..n /\ k - 1 # n /\ (k - 1) + 1 = k
        BY <1>1, <3>4
      <4>2. g[k + 1] = s[k]
        BY <1>2, <4>1
      <4>3. QED
        BY <3>2, <3>4, <4>1, <4>2
    <3>5. QED
      BY <3>3, <3>4
  <2>3. QED
    BY <2>1, <2>2
<1>6. Len(g) # 0 /\ head' = g[1]
  BY <1>1, <1>2
<1>7. QED
  BY <1>2, <1>4, <1>5, <1>6 DEF Intact, g

LEMMA ToSetIs ==
  ASSUME NEW S, NEW s \in Seq(S)
  PROVE  /\ ToSet(s) \subseteq S
         /\ \A x : x \in ToSet(s) <=> \E k \in 1..Len(s) : s[k] = x
  BY LenProperties DEF ToSet

---------------------------------------------------------------------------
(* shrink() *)

Distinct(s) == \A j, k \in 1..Len(s) : s[j] = s[k] => j = k

LEMMA Prefixed ==
  ASSUME NEW S, NEW s \in Seq(S), Distinct(s), NEW c \in S, c \notin ToSet(s)
  PROVE  LET g == <<c>> \o s
         IN  /\ g \in Seq(S) /\ Distinct(g)
             /\ \A x : x \in ToSet(g) <=> x = c \/ x \in ToSet(s)
<1> DEFINE n == Len(s)
           g == <<c>> \o s
<1>1. n \in Nat /\ \A k \in 1..n : s[k] # c
  BY LenProperties, ToSetIs
<1>2. /\ g \in Seq(S) /\ Len(g) = n + 1 /\ g[1] = c
      /\ \A k \in 1..n : g[k + 1] = s[k]
  BY <1>1
<1> HIDE DEF g
<1>3. \A k \in 1..(n + 1) : k # 1 => k - 1 \in 1..n /\ g[k] = s[k - 1]
  <2>1. TAKE k \in 1..(n + 1)
  <2>2. SUFFICES ASSUME k # 1 PROVE k - 1 \in 1..n /\ g[k] = s[k - 1]
    OBVIOUS
  <2>3. k - 1 \in 1..n /\ (k - 1) + 1 = k
    BY <1>1, <2>2
  <2>4. QED
    BY <1>2, <2>3
<1>4. ASSUME NEW j \in 1..(n + 1), NEW k \in 1..(n + 1), g[j] = g[k] PROVE j = k
  <2>1. CASE j = 1 \/ k = 1
    BY <1>1, <1>2, <1>3, <1>4, <2>1
  <2>2. CASE j # 1 /\ k # 1
    <3>1. j - 1 = k - 1
      BY <1>3, <1>4, <2>2 DEF Distinct
    <3>2. QED
      BY <1>1, <3>1
  <2>3. QED
    BY <2>1, <2>2
<1>5. ASSUME NEW x PROVE x \in ToSet(g) <=> x = c \/ x \in ToSet(s)
  <2>1. x \in ToSet(g) <=> \E k \in 1..(n + 1) : g[k] = x
    BY <1>2, ToSetIs
  <2>2. x \in ToSet(s) <=> \E k \in 1..n : s[k] = x
    BY ToSetIs
  <2>3. ASSUME NEW k \in 1..(n + 1), g[k] = x PROVE x = c \/ x \in ToSet(s)
    BY <1>2, <1>3, <2>2, <2>3
  <2>4. \A k \in 1..n : k + 1 \in 1..(n + 1)
    BY <1>1
  <2>5. 1 \in 1..(n + 1)
    BY <1>1
  <2>6. QED
    BY <1>2, <2>1, <2>2, <2>3, <2>4, <2>5
<1>6. Distinct(g)
  BY <1>2, <1>4 DEF Distinct
<1>7. QED
  BY <1>2, <1>5, <1>6 DEF g

LEMMA ReversedTail ==
  ASSUME NEW S, NEW s \in Seq(S), Distinct(s), NEW e \in Nat
  PROVE  LET g == Reverse(SubSeq(s, e + 1, Len(s)))
         IN  g \in Seq(S) /\ Distinct(g) /\ ToSet(g) \subseteq ToSet(s)
<1> DEFINE n == Len(s)
           f == SubSeq(s, e + 1, n)
           g == Reverse(f)
<1>1. n \in Nat /\ s \in [1..n -> S]
  BY LenProperties
<1>2. /\ f \in Seq(S) /\ Len(f) = (IF e + 1 <= n THEN n - e ELSE 0)
      /\ \A i \in 1..(n - e) : f[i] = s[e + i]
  <2>1. \A i \in (e + 1)..n : s[i] \in S
    BY <1>1
  <2>2. /\ f \in Seq(S) /\ Len(f) = (IF e + 1 <= n THEN n - (e + 1) + 1 ELSE 0)
        /\ \A i \in 1..(n - (e + 1) + 1) : f[i] = s[(e + 1) + i - 1]
    <3>1. e + 1 \in Int /\ n \in Int
      BY <1>1
    <3>2. QED
      BY <2>1, <3>1, SubSeqProperties
  <2>3. n - (e + 1) + 1 = n - e /\ \A i \in 1..(n - e) : (e + 1) + i - 1 = e + i
    BY <1>1
  <2>4. QED
    BY <2>2, <2>3
<1> DEFINE m == Len(f)
<1>3. m \in Nat /\ \A i \in 1..m : f[i] \in S /\ e + i \in 1..n /\ f[i] = s[e + i]
  <2>1. m \in Nat /\ \A i \in 1..m : f[i] \in S
    BY <1>2, LenProperties
  <2>2. \A i \in 1..m : e + i \in 1..n /\ i \in 1..(n - e)
    BY <1>1, <1>2
  <2>3. QED
    BY <1>2, <2>1, <2>2
<1> HIDE DEF m, f
<1>4. g = [i \in 1..m |-> f[(m - i) + 1]]
  BY DEF Reverse, m
<1>5. \A i \in 1..m : (m - i) + 1 \in 1..m
  BY <1>3
<1>6. g \in Seq(S) /\ Len(g) = m /\ \A i \in 1..m : g[i] = s[e + ((m - i) + 1)]
  <2>1. g \in [1..m -> S]
    BY <1>3, <1>4, <1>5
  <2> HIDE DEF g
  <2>2. g \in Seq(S)
    BY <1>3, <2>1, SeqDef
  <2>3. DOMAIN g = 1..m /\ DOMAIN g = 1..Len(g) /\ Len(g) \in Nat
    BY <2>1, <2>2, LenProperties
  <2>4. Len(g) = m
    BY <1>3, <2>3
  <2>5. QED
    BY <1>3, <1>4, <1>5, <2>2, <2>4
<1> HIDE DEF g
<1>7. \A i \in 1..m : e + ((m - i) + 1) \in 1..n
  BY <1>3, <1>5
<1>8. ASSUME NEW j \in 1..m, NEW k \in 1..m, g[j] = g[k] PROVE j = k
  <2> DEFINE a == e + ((m - j) + 1)
             b == e + ((m - k) + 1)
  <2>1. a \in 1..n /\ b \in 1..n /\ s[a] = s[b]
    BY <1>6, <1>7, <1>8
  <2> HIDE DEF a, b
  <2>2. a = b
    BY <2>1 DEF Distinct
  <2>3. QED
    BY <1>3, <2>2 DEF a, b
<1>9. ASSUME NEW x \in ToSet(g) PROVE x \in ToSet(s)
  <2>1. PICK i \in 1..m : g[i] = x
    BY <1>6, ToSetIs
  <2>2. s[e + ((m - i) + 1)] = x /\ e + ((m - i) + 1) \in 1..n
    BY <1>6, <1>7, <2>1
  <2>3. QED
    BY <2>2, ToSetIs
<1>10. Distinct(g)
  BY <1>6, <1>8 DEF Distinct
<1>11. QED
  BY <1>6, <1>9, <1>10 DEF g, f

LEMMA Joined ==
  ASSUME NEW S, NEW s \in Seq(S), NEW t \in Seq(S), Distinct(s), Distinct(t),
         ToSet(s) \cap ToSet(t) = {}
  PROVE  /\ s \o t \in Seq(S) /\ Distinct(s \o t)
         /\ ToSet(s \o t) = ToSet(s) \cup ToSet(t)
<1> DEFINE g == s \o t
           m == Len(s)
           n == Len(t)
<1>1. m \in Nat /\ n \in Nat
  BY LenProperties
<1>2. /\ g \in Seq(S) /\ Len(g) = m + n
      /\ \A i \in 1..(m + n) : g[i] = IF i <= m THEN s[i] ELSE t[i - m]
  BY ConcatProperties
<1> HIDE DEF g
<1>3. \A i \in 1..(m + n) : \/ i <= m /\ i \in 1..m /\ g[i] = s[i]
                            \/ i > m /\ i - m \in 1..n /\ g[i] = t[i - m]
  <2>1. TAKE i \in 1..(m + n)
  <2>2. i <= m => i \in 1..m
    BY <1>1
  <2>3. ~(i <= m) => i > m /\ i - m \in 1..n
    BY <1>1
  <2>4. QED
    BY <1>2, <2>2, <2>3
<1>4. ToSet(g) = ToSet(s) \cup ToSet(t)
  <2>1. ASSUME NEW x \in ToSet(g) PROVE x \in ToSet(s) \cup ToSet(t)
    <3>1. PICK i \in 1..(m + n) : g[i] = x
      BY <1>2, ToSetIs
    <3>2. QED
      BY <1>3, <3>1, ToSetIs
  <2>2. ASSUME NEW x \in ToSet(s) PROVE x \in ToSet(g)
    <3>1. PICK i \in 1..m : s[i] = x
      BY ToSetIs
    <3>2. i \in 1..(m + n) /\ i <= m
      BY <1>1
    <3>3. g[i] = x
      BY <1>2, <3>1, <3>2
    <3>4. QED
      BY <1>2, <3>2, <3>3, ToSetIs
  <2>3. ASSUME NEW x \in ToSet(t) PROVE x \in ToSet(g)
    <3>1. PICK i \in 1..n : t[i] = x
      BY ToSetIs
    <3>2. m + i \in 1..(m + n) /\ ~(m + i <= m) /\ (m + i) - m = i
      BY <1>1
    <3>3. g[m + i] = x
      BY <1>2, <3>1, <3>2
    <3>4. QED
      BY <1>2, <3>2, <3>3, ToSetIs
  <2>4. QED
    BY <2>1, <2>2, <2>3
<1>5. ASSUME NEW j \in 1..(m + n), NEW k \in 1..(m + n), g[j] = g[k] PROVE j = k
  <2>1. CASE j <= m /\ k <= m
    <3>1. j \in 1..m /\ k \in 1..m /\ s[j] = s[k]
      BY <1>2, <1>5, <1>1, <2>1
    <3>2. QED
      BY <3>1 DEF Distinct
  <2>2. CASE ~(j <= m) /\ ~(k <= m)
    <3>1. j - m \in 1..n /\ k - m \in 1..n /\ t[j - m] = t[k - m]
      BY <1>2, <1>3, <1>5, <2>2
    <3>2. j - m = k - m
      BY <3>1 DEF Distinct
    <3>3. QED
      BY <1>1, <3>2
  <2>3. ASSUME NEW a \in 1..(m + n), NEW b \in 1..(m + n), a <= m, ~(b <= m), g[a] = g[b]
        PROVE  FALSE
    <3>1. g[a] \in ToSet(s) /\ g[b] \in ToSet(t)
      <4>1. a \in 1..m /\ g[a] = s[a]
        BY <1>1, <1>2, <2>3
      <4>2. b - m \in 1..n /\ g[b] = t[b - m]
        BY <1>2, <1>3, <2>3
      <4>3. QED
        BY <4>1, <4>2, ToSetIs
    <3>2. QED
      BY <2>3, <3>1
  <2>4. QED
    BY <1>5, <2>1, <2>2, <2>3
<1>6. Distinct(g)
  BY <1>2, <1>5 DEF Distinct
<1>7. QED
  BY <1>2, <1>4, <1>6 DEF g

(* One turn of the first loop of shrink() *)
Sift(r, c) == IF Full(c) THEN [r EXCEPT !.to_free = <<c>> \o @]
                         ELSE [r EXCEPT !.pushed = <<c>> \o @]

Start == [to_free |-> <<>>, pushed |-> <<>>]

LEMMA SiftTurns ==
  ASSUME \E W : W = [k \in 0..Len(chunks!Chain) |->
                       IF k = 0 THEN Start ELSE Sift(W[k - 1], chunks!Chain[k])]
  PROVE  Sifted = [k \in 0..Len(chunks!Chain) |->
                     IF k = 0 THEN Start ELSE Sift(Sifted[k - 1], chunks!Chain[k])]
  BY DEF Sifted, Sift, Start

LEMMA SiftDefined ==
  ASSUME NEW s \in Seq(Chunks)
  PROVE  \E W : W = [k \in 0..Len(s) |-> IF k = 0 THEN Start ELSE Sift(W[k - 1], s[k])]
<1> DEFINE n == Len(s)
           to(W, m) == W = [k \in 0..m |-> IF k = 0 THEN Start ELSE Sift(W[k - 1], s[k])]
           Off == {m \in 0..n : ~\E W : to(W, m)}
<1>1. n \in Nat
  BY LenProperties
<1>2. SUFFICES ASSUME Off # {} PROVE FALSE
  <2>1. n \notin Off => \E W : to(W, n)
    BY <1>1
  <2>2. QED
    BY <2>1
<1>3. PICK m \in Off : \A l \in Off : m <= l
  <2>1. Off \subseteq Nat
    BY <1>1
  <2>2. QED
    BY <1>2, <2>1, LeastNumber
<1>4. m \in 0..n /\ m \in Nat /\ \A W : ~to(W, m)
  BY <1>1, <1>3
<1>5. CASE m = 0
  <2> DEFINE W == [k \in 0..0 |-> Start]
  <2>1. W = [k \in 0..0 |-> IF k = 0 THEN Start ELSE Sift(W[k - 1], s[k])]
    <3>1. \A k \in 0..0 : k = 0
      OBVIOUS
    <3>2. QED
      BY <3>1
  <2> HIDE DEF W
  <2>2. to(W, m)
    BY <1>5, <2>1
  <2>3. QED
    BY <1>4, <2>2
<1>6. CASE m # 0
  <2>1. m - 1 \in 0..n /\ m - 1 \in Nat /\ ~(m <= m - 1)
    BY <1>1, <1>4, <1>6
  <2>2. PICK V : to(V, m - 1)
    BY <1>3, <2>1
  <2> HIDE DEF Off
  <2> DEFINE W == [k \in 0..m |-> IF k = m THEN Sift(V[m - 1], s[m]) ELSE V[k]]
  <2>3. \A k \in 0..m : W[k] = IF k = m THEN Sift(V[m - 1], s[m]) ELSE V[k]
    OBVIOUS
  <2>4. W = [k \in 0..m |-> W[k]]
    OBVIOUS
  <2> HIDE DEF W
  <2>5. \A k \in 0..(m - 1) : V[k] = IF k = 0 THEN Start ELSE Sift(V[k - 1], s[k])
    BY <2>2
  <2>6. ASSUME NEW k \in 0..m
        PROVE  W[k] = IF k = 0 THEN Start ELSE Sift(W[k - 1], s[k])
    <3>1. CASE k = m
      <4>1. m - 1 \in 0..m /\ m - 1 # m
        BY <1>4, <2>1
      <4>2. W[m - 1] = V[m - 1]
        BY <2>3, <4>1
      <4>3. W[k] = Sift(V[m - 1], s[m])
        BY <2>3, <3>1
      <4>4. QED
        BY <1>6, <3>1, <4>2, <4>3
    <3>2. CASE k = 0
      <4>1. 0 \in 0..(m - 1)
        BY <2>1
      <4>2. W[0] = V[0] /\ V[0] = Start
        BY <1>6, <2>3, <2>5, <3>2, <4>1
      <4>3. QED
        BY <3>2, <4>2
    <3>3. CASE k # m /\ k # 0
      <4>1. k \in 0..(m - 1) /\ k - 1 \in 0..m /\ k - 1 # m
        BY <1>4, <3>3
      <4>2. W[k] = V[k] /\ W[k - 1] = V[k - 1]
        BY <2>3, <3>3, <4>1
      <4>3. V[k] = Sift(V[k - 1], s[k])
        BY <2>5, <3>3, <4>1
      <4>4. QED
        BY <3>3, <4>2, <4>3
    <3>4. QED
      BY <3>1, <3>2, <3>3
  <2>7. to(W, m)
    BY <2>4, <2>6
  <2>8. QED
    BY <1>4, <2>7
<1>7. QED
  BY <1>5, <1>6

(* What the loop has made of the first k chunks of s *)
SiftedTo(r, s, k) ==
  /\ r \in [to_free : Seq(Chunks), pushed : Seq(Chunks)]
  /\ Distinct(r.to_free) /\ Distinct(r.pushed)
  /\ \A c \in Chunks : c \in ToSet(r.to_free) <=> Full(c) /\ \E j \in 1..k : s[j] = c
  /\ \A c \in Chunks : c \in ToSet(r.pushed) <=> ~Full(c) /\ \E j \in 1..k : s[j] = c

LEMMA SiftStarts == ASSUME NEW s \in Seq(Chunks) PROVE SiftedTo(Start, s, 0)
<1>1. <<>> \in Seq(Chunks) /\ Len(<<>>) = 0
  BY EmptySeq
<1>2. \A j \in 1..0 : FALSE
  OBVIOUS
<1>3. Distinct(<<>>)
  BY <1>1, <1>2 DEF Distinct
<1>4. \A c : c \notin ToSet(<<>>)
  <2>1. \A c : c \in ToSet(<<>>) <=> \E k \in 1..Len(<<>>) : <<>>[k] = c
    BY <1>1, ToSetIs
  <2>2. QED
    BY <1>1, <1>2, <2>1
<1>5. QED
  BY <1>1, <1>2, <1>3, <1>4 DEF Start, SiftedTo

LEMMA SiftStep ==
  ASSUME NEW s \in Seq(Chunks), Distinct(s), NEW k \in 1..Len(s), NEW r, SiftedTo(r, s, k - 1)
  PROVE  SiftedTo(Sift(r, s[k]), s, k)
<1> DEFINE c == s[k]
<1>1. c \in Chunks /\ Len(s) \in Nat /\ k \in Nat
  BY LenProperties
<1>2. \A j \in 1..(k - 1) : j \in 1..Len(s) /\ j # k /\ s[j] # c
  <2>1. \A j \in 1..(k - 1) : j \in 1..Len(s) /\ j # k
    BY <1>1
  <2>2. QED
    BY <2>1 DEF Distinct
<1>3. \A x : (\E j \in 1..k : s[j] = x) <=> x = c \/ \E j \in 1..(k - 1) : s[j] = x
  <2>1. \A j : j \in 1..k <=> j = k \/ j \in 1..(k - 1)
    BY <1>1
  <2>2. QED
    BY <2>1
<1> HIDE DEF c
<1>4. /\ r \in [to_free : Seq(Chunks), pushed : Seq(Chunks)]
      /\ r.to_free \in Seq(Chunks) /\ r.pushed \in Seq(Chunks)
      /\ Distinct(r.to_free) /\ Distinct(r.pushed)
      /\ c \notin ToSet(r.to_free) /\ c \notin ToSet(r.pushed)
  BY <1>1, <1>2 DEF SiftedTo
<1>5. CASE Full(c)
  <2> DEFINE g == <<c>> \o r.to_free
  <2>1. /\ g \in Seq(Chunks) /\ Distinct(g)
        /\ \A x : x \in ToSet(g) <=> x = c \/ x \in ToSet(r.to_free)
    BY <1>1, <1>4, Prefixed
  <2>2. Sift(r, c) = [r EXCEPT !.to_free = g]
    BY <1>5 DEF Sift
  <2> HIDE DEF g
  <2>3. /\ Sift(r, c) \in [to_free : Seq(Chunks), pushed : Seq(Chunks)]
        /\ Sift(r, c).to_free = g /\ Sift(r, c).pushed = r.pushed
    BY <1>4, <2>1, <2>2
  <2>4. \A x \in Chunks : x \in ToSet(g) <=> Full(x) /\ \E j \in 1..k : s[j] = x
    BY <1>3, <1>5, <2>1 DEF SiftedTo
  <2>5. \A x \in Chunks : x \in ToSet(r.pushed) <=> ~Full(x) /\ \E j \in 1..k : s[j] = x
    BY <1>3, <1>5 DEF SiftedTo
  <2>6. QED
    BY <1>4, <2>1, <2>3, <2>4, <2>5 DEF SiftedTo, c
<1>6. CASE ~Full(c)
  <2> DEFINE g == <<c>> \o r.pushed
  <2>1. /\ g \in Seq(Chunks) /\ Distinct(g)
        /\ \A x : x \in ToSet(g) <=> x = c \/ x \in ToSet(r.pushed)
    BY <1>1, <1>4, Prefixed
  <2>2. Sift(r, c) = [r EXCEPT !.pushed = g]
    BY <1>6 DEF Sift
  <2> HIDE DEF g
  <2>3. /\ Sift(r, c) \in [to_free : Seq(Chunks), pushed : Seq(Chunks)]
        /\ Sift(r, c).pushed = g /\ Sift(r, c).to_free = r.to_free
    BY <1>4, <2>1, <2>2
  <2>4. \A x \in Chunks : x \in ToSet(g) <=> ~Full(x) /\ \E j \in 1..k : s[j] = x
    BY <1>3, <1>6, <2>1 DEF SiftedTo
  <2>5. \A x \in Chunks : x \in ToSet(r.to_free) <=> Full(x) /\ \E j \in 1..k : s[j] = x
    BY <1>3, <1>6 DEF SiftedTo
  <2>6. QED
    BY <1>4, <2>1, <2>3, <2>4, <2>5 DEF SiftedTo, c
<1>7. QED
  BY <1>5, <1>6

(* The loop parts the stack into the full chunks and the others. *)
LEMMA SiftParts ==
  ASSUME chunks!Chain \in Seq(Chunks), Distinct(chunks!Chain)
  PROVE  SiftedTo(Sifted[Len(chunks!Chain)], chunks!Chain, Len(chunks!Chain))
<1> DEFINE s == chunks!Chain
           n == Len(s)
           f == Sifted
<1>1. n \in Nat
  BY LenProperties
<1>2. f = [k \in 0..n |-> IF k = 0 THEN Start ELSE Sift(f[k - 1], s[k])]
  BY SiftTurns, SiftDefined
<1> HIDE DEF f
<1>3. \A k \in 0..n : f[k] = IF k = 0 THEN Start ELSE Sift(f[k - 1], s[k])
  BY <1>2
<1> DEFINE Off == {k \in 0..n : ~SiftedTo(f[k], s, k)}
<1>4. SUFFICES ASSUME Off # {} PROVE FALSE
  <2>1. n \in 0..n
    BY <1>1
  <2>2. QED
    BY <2>1 DEF f
<1>5. PICK k \in Off : \A l \in Off : k <= l
  <2>1. Off \subseteq Nat
    BY <1>1
  <2>2. QED
    BY <1>4, <2>1, LeastNumber
<1>6. CASE k = 0
  <2>1. f[0] = Start /\ ~SiftedTo(f[0], s, 0)
    BY <1>1, <1>3, <1>5, <1>6
  <2>2. QED
    BY <2>1, SiftStarts
<1>7. CASE k # 0
  <2>1. k \in 1..n /\ k - 1 \in 0..n /\ ~(k <= k - 1)
    BY <1>1, <1>5, <1>7
  <2>2. SiftedTo(f[k - 1], s, k - 1) /\ ~SiftedTo(f[k], s, k)
    BY <1>5, <2>1
  <2>3. f[k] = Sift(f[k - 1], s[k])
    BY <1>3, <1>7, <2>1
  <2>4. QED
    BY <2>1, <2>2, <2>3, SiftStep
<1>8. QED
  BY <1>6, <1>7

LEMMA LinkedIs ==
  ASSUME NEW s \in Seq(Chunks), Distinct(s), NEW k \in 1..Len(s)
  PROVE  chunks!Linked(s)[s[k]] = IF k = Len(s) THEN None ELSE s[k + 1]
<1> DEFINE n == Len(s)
           at(j) == j \in 1..(n - 1) /\ s[j] = s[k]
<1>1. n \in Nat /\ s[k] \in Chunks
  BY LenProperties
<1>2. chunks!Linked(s)[s[k]] = IF \E j \in 1..n - 1 : s[j] = s[k]
                               THEN s[1 + CHOOSE j \in 1..n - 1 : s[j] = s[k]] ELSE None
  BY <1>1 DEF chunks!Linked
<1>3. \A j \in 1..n - 1 : j \in 1..n
  BY <1>1
<1>4. CASE k = n
  <2>1. \A j \in 1..n - 1 : j # n
    BY <1>1
  <2>2. ~\E j \in 1..n - 1 : s[j] = s[k]
    BY <1>3, <1>4, <2>1 DEF Distinct
  <2>3. QED
    BY <1>2, <1>4, <2>2
<1>5. CASE k # n
  <2>1. k \in 1..n - 1
    BY <1>1, <1>5
  <2> DEFINE j == CHOOSE i \in 1..n - 1 : s[i] = s[k]
  <2>2. j \in 1..n - 1 /\ s[j] = s[k]
    BY <2>1
  <2>3. chunks!Linked(s)[s[k]] = s[1 + j]
    BY <1>2, <2>1
  <2> HIDE DEF j
  <2>4. j = k
    BY <1>3, <2>2 DEF Distinct
  <2>5. 1 + k = k + 1
    BY <1>1
  <2>6. QED
    BY <1>5, <2>3, <2>4, <2>5
<1>6. QED
  BY <1>4, <1>5

LEMMA LinkedType ==
  ASSUME NEW s \in Seq(Chunks)
  PROVE  chunks!Linked(s) \in [Chunks -> Chunks \cup {None}]
<1> DEFINE n == Len(s)
<1>1. n \in Nat /\ s \in [1..n -> Chunks]
  BY LenProperties
<1>2. ASSUME NEW e \in Chunks, \E k \in 1..n - 1 : s[k] = e
      PROVE  s[1 + CHOOSE k \in 1..n - 1 : s[k] = e] \in Chunks
  <2> DEFINE j == CHOOSE k \in 1..n - 1 : s[k] = e
  <2>1. j \in 1..n - 1
    BY <1>2
  <2> HIDE DEF j
  <2>2. 1 + j \in 1..n
    BY <1>1, <2>1
  <2>3. s[1 + j] \in Chunks
    BY <1>1, <2>2
  <2>4. QED
    BY <2>3 DEF j
<1>3. \A e \in Chunks : (IF \E k \in 1..n - 1 : s[k] = e
                         THEN s[1 + CHOOSE k \in 1..n - 1 : s[k] = e] ELSE None)
                          \in Chunks \cup {None}
  BY <1>2
<1>4. QED
  BY <1>3 DEF chunks!Linked

(* What shrink() leaves on the stack are chunks that were there, every one
   with a block in use among them. *)
LEMMA ShrinkKeeps ==
  ASSUME NEW s, Intact(s), NEW target \in Nat, Shrink(target)
  PROVE  \E keep \in Seq(Chunks) :
           /\ Intact(keep)' /\ made' = ToSet(keep) /\ ToSet(keep) \subseteq ToSet(s)
           /\ \A c \in ToSet(s) : Full(c) \/ c \in ToSet(keep)
           /\ free' = [c \in Chunks |-> IF c \in ToSet(keep) THEN free[c] ELSE {}]
           /\ next' \in [Chunks -> Chunks \cup {None}]
<1>1. chunks!Chain = s /\ s \in Seq(Chunks) /\ Distinct(s)
  BY ChainIs DEF Intact, Distinct
<1> DEFINE n == Len(s)
           r == Sifted[n]
           excess == IF n > target THEN n - target ELSE 0
           back == Reverse(SubSeq(r.to_free, excess + 1, Len(r.to_free)))
           keep == back \o r.pushed
<1>2. /\ head' = IF keep = <<>> THEN None ELSE keep[1]
      /\ next' = chunks!Linked(keep) /\ made' = ToSet(keep)
      /\ free' = [c \in Chunks |-> IF c \in ToSet(keep) THEN free[c] ELSE {}]
  BY <1>1 DEF Shrink
<1>3. SiftedTo(r, s, n)
  BY <1>1, SiftParts
<1>4. n \in Nat /\ excess \in Nat
  BY <1>1, LenProperties
<1> HIDE DEF r, excess
<1>5. /\ r.to_free \in Seq(Chunks) /\ r.pushed \in Seq(Chunks)
      /\ Distinct(r.to_free) /\ Distinct(r.pushed)
      /\ ToSet(r.to_free) \subseteq Chunks /\ ToSet(r.pushed) \subseteq Chunks
  <2>1. r.to_free \in Seq(Chunks) /\ r.pushed \in Seq(Chunks)
    BY <1>3 DEF SiftedTo
  <2>2. QED
    BY <1>3, <2>1, ToSetIs DEF SiftedTo
<1>6. back \in Seq(Chunks) /\ Distinct(back) /\ ToSet(back) \subseteq ToSet(r.to_free)
  BY <1>4, <1>5, ReversedTail
<1> HIDE DEF back
<1>7. ToSet(back) \cap ToSet(r.pushed) = {}
  BY <1>3, <1>5, <1>6 DEF SiftedTo
<1>8. /\ keep \in Seq(Chunks) /\ Distinct(keep)
      /\ ToSet(keep) = ToSet(back) \cup ToSet(r.pushed)
  BY <1>5, <1>6, <1>7, Joined
<1> HIDE DEF keep
<1>9. \A c \in Chunks : c \in ToSet(s) <=> \E j \in 1..n : s[j] = c
  BY <1>1, ToSetIs
<1>10. ToSet(s) \subseteq Chunks
  BY <1>1, ToSetIs
<1>11. ToSet(keep) \subseteq ToSet(s) /\ \A c \in ToSet(s) : Full(c) \/ c \in ToSet(keep)
  BY <1>3, <1>5, <1>6, <1>8, <1>9, <1>10 DEF SiftedTo
<1>12. PICK t : t = keep
  OBVIOUS
<1>13. Intact(t)'
  <2>1. t \in Seq(Chunks) /\ Distinct(t)
    BY <1>8, <1>12
  <2>2. t = <<>> <=> Len(t) = 0
    BY <2>1
  <2>3. \A k \in 1..Len(t) : next'[t[k]] = IF k = Len(t) THEN None ELSE t[k + 1]
    BY <1>2, <1>12, <2>1, LinkedIs
  <2>4. head' = IF Len(t) = 0 THEN None ELSE t[1]
    BY <1>2, <1>12, <2>2
  <2>5. QED
    BY <2>1, <2>3, <2>4 DEF Intact, Distinct
<1>14. next' \in [Chunks -> Chunks \cup {None}]
  BY <1>2, <1>8, LinkedType
<1>15. QED
  BY <1>2, <1>8, <1>11, <1>12, <1>13, <1>14

---------------------------------------------------------------------------
(* The inductive invariant *)

TypeOK ==
  /\ head \in Chunks \cup {None} /\ next \in [Chunks -> Chunks \cup {None}]
  /\ free \in [Chunks -> SUBSET Blocks]
  /\ made \subseteq Chunks /\ held \subseteq Chunks \X Blocks
  /\ pc \in [Threads -> {"idle", "try", "peek", "walk", "new", "push", "exchange", "pushed", "hint",
                         "find", "find_walk", "found", "give"}]
  /\ reg \in [Threads -> [c : Chunks \cup {None}, o : Chunks \cup {None}, b : Blocks \cup {None}]]

Pushing(p) == pc[p] \in {"push", "exchange"}

(* The stack is intact while chunks are pushed: no two threads push the same,
   and a link that has been stored is to the head that was read. *)
StackInv ==
  /\ Intact(chunks!Chain)
  /\ ChunksAccounted
  /\ \A p \in Threads : Pushing(p) => reg[p].c \in Chunks
  /\ \A p, q \in Threads : Pushing(p) /\ Pushing(q) /\ reg[p].c = reg[q].c => p = q
  /\ \A p \in Threads : At(p, "exchange") => next[reg[p].c] = reg[p].o

(* x leads to y along the stack. *)
Leads(x, y) == \E j, k \in 1..Len(chunks!Chain) :
                 j <= k /\ chunks!Chain[j] = x /\ chunks!Chain[k] = y

(* Every chunk a thread, a hint or a block in use names is on the stack, but
   for one that is being pushed; who looks for a chunk has not passed it. *)
Known(p) ==
  /\ At(p, "idle") => reg[p] = NoReg
  /\ ~Pushing(p) => reg[p].c \in Stacked \cup {None}
  /\ pc[p] \notin {"idle", "peek", "new"} => reg[p].c # None
  /\ reg[p].o \in Stacked \cup {None}
  /\ At(p, "find_walk") => Leads(reg[p].o, reg[p].c)

KnownInv ==
  /\ {last_allocate, last_deallocate} \subseteq Stacked \cup {None}
  /\ \A x \in held : x[1] \in Stacked
  /\ \A p \in Threads : Known(p)

Carrying(p) == pc[p] \in {"push", "exchange", "pushed", "find", "find_walk", "found", "give"}
Carried(p) == <<reg[p].c, reg[p].b>>

(* A block is in one place: in its pool, with the program or with one thread. *)
BlockInv ==
  /\ \A c \in Chunks : \A b \in free[c] : <<c, b>> \notin held
  /\ \A p \in Threads : Carrying(p) => /\ reg[p].c \in Chunks /\ reg[p].b \in Blocks
                                       /\ reg[p].b \notin free[reg[p].c]
                                       /\ Carried(p) \notin held
  /\ \A p, q \in Threads : Carrying(p) /\ Carrying(q) /\ Carried(p) = Carried(q) => p = q

IInv == TypeOK /\ StackInv /\ KnownInv /\ BlockInv

LEMMA StackFacts ==
  ASSUME StackInv
  PROVE  /\ chunks!Chain \in Seq(Chunks) /\ Len(chunks!Chain) \in Nat
         /\ \A x : x \in Stacked <=> \E k \in 1..Len(chunks!Chain) : chunks!Chain[k] = x
         /\ Stacked \subseteq Chunks /\ Stacked \subseteq made /\ None \notin Stacked
         /\ head \in Stacked \cup {None}
         /\ \A x \in Stacked : next[x] \in Stacked \cup {None}
<1> DEFINE s == chunks!Chain
           n == Len(s)
<1>1. s \in Seq(Chunks) /\ n \in Nat
  BY LenProperties DEF StackInv, Intact
<1>2. /\ \A x : x \in Stacked <=> \E k \in 1..n : s[k] = x
      /\ Stacked \subseteq Chunks
  BY <1>1, ToSetIs DEF Stacked
<1>3. Stacked \subseteq made /\ None \notin Stacked
  BY <1>2, GrowableAssumption DEF StackInv, ChunksAccounted
<1>4. head \in Stacked \cup {None}
  <2>1. head = IF n = 0 THEN None ELSE s[1]
    BY DEF StackInv, Intact
  <2>2. n # 0 => 1 \in 1..n
    BY <1>1
  <2>3. QED
    BY <1>2, <2>1, <2>2
<1>5. ASSUME NEW x \in Stacked PROVE next[x] \in Stacked \cup {None}
  <2>1. PICK k \in 1..n : s[k] = x
    BY <1>2
  <2>2. next[x] = IF k = n THEN None ELSE s[k + 1]
    BY <2>1 DEF StackInv, Intact
  <2>3. k # n => k + 1 \in 1..n
    BY <1>1
  <2>4. QED
    BY <1>2, <2>2, <2>3
<1>6. QED
  BY <1>1, <1>2, <1>3, <1>4, <1>5

LEMMA StackKept ==
  ASSUME StackInv, head' = head, \A x \in Stacked : next'[x] = next[x]
  PROVE  /\ chunks!Chain' = chunks!Chain /\ Intact(chunks!Chain)' /\ Stacked' = Stacked
         /\ \A x, y : Leads(x, y) => Leads(x, y)'
<1>1. PICK s : s = chunks!Chain
  OBVIOUS
<1>2. Intact(s) /\ \A k \in 1..Len(s) : s[k] \in Stacked
  BY <1>1, StackFacts DEF StackInv
<1>3. Intact(s)'
  BY <1>2, IntactKept
<1>4. chunks!Chain' = s
  BY <1>3, ChainIsNext
<1>5. Intact(chunks!Chain)'
  BY <1>3, <1>4 DEF Intact
<1>6. QED
  BY <1>1, <1>4, <1>5 DEF Stacked, Leads

LEMMA StackPushed ==
  ASSUME StackInv, NEW c \in Chunks, c \notin Stacked,
         head' = c, next'[c] = head, \A x \in Stacked : next'[x] = next[x]
  PROVE  /\ Intact(chunks!Chain)' /\ Stacked' = Stacked \cup {c}
         /\ \A x, y : Leads(x, y) => Leads(x, y)'
<1>1. PICK s : s = chunks!Chain
  OBVIOUS
<1> DEFINE g == <<c>> \o s
<1>2. /\ Intact(s) /\ s \in Seq(Chunks) /\ Len(s) \in Nat
      /\ \A k \in 1..Len(s) : s[k] \in Stacked
  BY <1>1, StackFacts DEF StackInv
<1>3. Intact(g)'
  BY <1>2, IntactPushed
<1>4. g \in Seq(Chunks) /\ Len(g) = Len(s) + 1 /\ \A k \in 1..Len(s) : g[k + 1] = s[k]
  BY <1>2
<1>5. \A x : x \in ToSet(g) <=> x = c \/ x \in ToSet(s)
  <2>1. Distinct(s) /\ c \notin ToSet(s)
    BY <1>1, <1>2 DEF Stacked, Intact, Distinct
  <2>2. QED
    BY <1>2, <2>1, Prefixed
<1> HIDE DEF g
<1>6. chunks!Chain' = g
  BY <1>3, ChainIsNext
<1>7. Intact(chunks!Chain)'
  BY <1>3, <1>6 DEF Intact
<1>8. Stacked' = Stacked \cup {c}
  BY <1>1, <1>5, <1>6 DEF Stacked
<1>9. ASSUME NEW x, NEW y, Leads(x, y) PROVE Leads(x, y)'
  <2>1. PICK j, k \in 1..Len(s) : j <= k /\ s[j] = x /\ s[k] = y
    BY <1>1, <1>9 DEF Leads
  <2>2. j + 1 \in 1..Len(g) /\ k + 1 \in 1..Len(g) /\ j + 1 <= k + 1
    BY <1>2, <1>4, <2>1
  <2>3. g[j + 1] = x /\ g[k + 1] = y
    BY <1>4, <2>1
  <2>4. QED
    BY <1>6, <2>2, <2>3 DEF Leads
<1>10. QED
  BY <1>7, <1>8, <1>9

(* Who follows a link towards a chunk reaches it or is nearer to it. *)
LEMMA LeadsOn ==
  ASSUME StackInv, NEW x, NEW y, Leads(x, y)
  PROVE  x \in Stacked /\ y \in Stacked /\ (x # y => next[x] \in Stacked /\ Leads(next[x], y))
<1> DEFINE s == chunks!Chain
           n == Len(s)
<1>1. PICK j, k \in 1..n : j <= k /\ s[j] = x /\ s[k] = y
  BY DEF Leads
<1>2. n \in Nat /\ x \in Stacked /\ y \in Stacked
  BY <1>1, StackFacts
<1>3. SUFFICES ASSUME x # y PROVE next[x] \in Stacked /\ Leads(next[x], y)
  BY <1>2
<1>4. j # k
  BY <1>1, <1>3
<1>5. j + 1 \in 1..n /\ j + 1 <= k /\ j # n
  BY <1>1, <1>2, <1>4
<1>6. next[x] = s[j + 1]
  BY <1>1, <1>5 DEF StackInv, Intact
<1>7. QED
  BY <1>1, <1>5, <1>6, StackFacts DEF Leads

LEMMA LeadsFromHead ==
  ASSUME StackInv, NEW y \in Stacked
  PROVE  head \in Stacked /\ Leads(head, y)
<1> DEFINE s == chunks!Chain
           n == Len(s)
<1>1. PICK k \in 1..n : s[k] = y
  BY StackFacts
<1>2. n \in Nat
  BY StackFacts
<1>3. 1 \in 1..n /\ 1 <= k /\ n # 0
  BY <1>1, <1>2
<1>4. head = s[1]
  BY <1>3 DEF StackInv, Intact
<1>5. QED
  BY <1>1, <1>3, <1>4, StackFacts DEF Leads

---------------------------------------------------------------------------
(* The calls *)

Call(p) == AllocCall(p) \/ Step(p) \/ \E x \in held : DeallocCall(p, x)

LEMMA RegType ==
  ASSUME TypeOK, NEW p \in Threads
  PROVE  /\ reg[p] \in [c : Chunks \cup {None}, o : Chunks \cup {None}, b : Blocks \cup {None}]
         /\ NoReg \in [c : Chunks \cup {None}, o : Chunks \cup {None}, b : Blocks \cup {None}]
  BY DEF TypeOK, NoReg

LEMMA Unmoved ==
  ASSUME TypeOK, NEW p \in Threads, Call(p), NEW q \in Threads, q # p
  PROVE  pc'[q] = pc[q] /\ reg'[q] = reg[q]
  BY DEF Call, Step, AllocCall, AllocFromHint, Peek, Look, AllocFromChunk, NewChunk, PushLoad,
         PushExchange, Exchanged, AllocReturn, DeallocCall, FindPeek, FindWalk, StoreHint, Give,
         Go, TypeOK

LEMMA CallType ==
  ASSUME IInv, NEW p \in Threads, Call(p)
  PROVE  TypeOK'
<1> USE DEF Go, At, IInv
<1>1. CASE AllocCall(p)
  <2>1. last_allocate \in Chunks \cup {None}
    BY StackFacts DEF KnownInv
  <2>2. [NoReg EXCEPT !.c = last_allocate] \in [c : Chunks \cup {None}, o : Chunks \cup {None},
                                              b : Blocks \cup {None}]
    BY <2>1 DEF NoReg
  <2>3. QED
    BY <1>1, <2>2 DEF AllocCall, TypeOK
<1>2. CASE AllocFromHint(p) \/ AllocFromChunk(p)
  <2>1. reg[p].c \in Chunks /\ pc[p] \in {"try", "walk"}
    BY <1>2, RegType DEF AllocFromHint, AllocFromChunk, KnownInv, Known
  <2>2. free' \in [Chunks -> SUBSET Blocks] /\ held' \subseteq Chunks \X Blocks
    <3>1. CASE UNCHANGED <<free, held>>
      BY <3>1 DEF TypeOK
    <3>2. CASE TakeFrom(reg[p].c)
      BY <2>1, <3>2 DEF TakeFrom, TypeOK
    <3>3. QED
      BY <1>2, <3>1, <3>2 DEF AllocFromHint, AllocFromChunk
  <2>3. next[reg[p].c] \in Chunks \cup {None}
    BY <2>1 DEF TypeOK
  <2>4. /\ pc' \in [Threads -> {"idle", "try", "peek", "walk", "new", "push", "exchange", "pushed",
                                "hint", "find", "find_walk", "found", "give"}]
        /\ reg' \in [Threads -> [c : Chunks \cup {None}, o : Chunks \cup {None},
                                 b : Blocks \cup {None}]]
    BY <1>2, <2>3 DEF AllocFromHint, AllocFromChunk, Look, NoReg, TypeOK
  <2>5. QED
    BY <1>2, <2>2, <2>4 DEF AllocFromHint, AllocFromChunk, TypeOK
<1>3. CASE Peek(p)
  BY <1>3 DEF Peek, Look, TypeOK, NoReg
<1>4. CASE NewChunk(p)
  <2>1. PICK c \in Chunks \ made, b \in Blocks :
          /\ made' = made \cup {c} /\ free' = [free EXCEPT ![c] = Blocks \ {b}]
          /\ next' = [next EXCEPT ![c] = None]
          /\ Go(p, "push", [NoReg EXCEPT !.c = c, !.b = b])
    BY <1>4 DEF NewChunk
  <2>2. [NoReg EXCEPT !.c = c, !.b = b] \in [c : Chunks \cup {None}, o : Chunks \cup {None},
                                             b : Blocks \cup {None}]
    BY <2>1 DEF NoReg
  <2>3. pc' \in [Threads -> {"idle", "try", "peek", "walk", "new", "push", "exchange", "pushed",
                             "hint", "find", "find_walk", "found", "give"}]
        /\ reg' \in [Threads -> [c : Chunks \cup {None}, o : Chunks \cup {None},
                                 b : Blocks \cup {None}]]
    BY <2>1, <2>2 DEF TypeOK
  <2>4. QED
    BY <1>4, <2>1, <2>3 DEF NewChunk, TypeOK
<1>5. CASE PushLoad(p)
  <2>1. /\ head \in Chunks \cup {None} /\ next' \in [Chunks -> Chunks \cup {None}] /\ head' = head
        /\ Go(p, "exchange", [reg[p] EXCEPT !.o = head])
    BY <1>5 DEF PushLoad, chunks!PushLoad, TypeOK
  <2>2. [reg[p] EXCEPT !.o = head] \in [c : Chunks \cup {None}, o : Chunks \cup {None},
                                        b : Blocks \cup {None}]
    BY <2>1, RegType
  <2>3. QED
    BY <1>5, <2>1, <2>2 DEF PushLoad, TypeOK
<1>6. CASE PushExchange(p)
  <2>1. reg[p].c \in Chunks
    BY <1>6 DEF PushExchange, StackInv, Pushing
  <2>2. head' \in Chunks \cup {None}
    BY <1>6, <2>1 DEF PushExchange, Exchanged, chunks!Exchange, TypeOK
  <2>3. QED
    BY <1>6, <2>2, RegType DEF PushExchange, Exchanged, TypeOK
<1>7. CASE AllocReturn(p)
  <2>1. reg[p].c \in Chunks \cup {None} /\ (At(p, "pushed") => reg[p].c \in Chunks /\ reg[p].b \in Blocks)
    BY RegType DEF BlockInv, Carrying
  <2>2. held' \subseteq Chunks \X Blocks
    BY <1>7, <2>1 DEF AllocReturn, TypeOK
  <2>3. QED
    BY <1>7, <2>1, <2>2 DEF AllocReturn, TypeOK, NoReg
<1>8. ASSUME NEW x \in held, DeallocCall(p, x) PROVE TypeOK'
  <2>1. x[1] \in Chunks /\ x[2] \in Blocks /\ held' \subseteq held
    BY <1>8 DEF TypeOK, DeallocCall
  <2>2. QED
    BY <1>8, <2>1 DEF DeallocCall, TypeOK, NoReg
<1>9. CASE FindPeek(p)
  BY <1>9, RegType DEF FindPeek, TypeOK
<1>10. CASE FindWalk(p)
  <2>1. reg[p].o \in Chunks
    BY <1>10, LeadsOn, StackFacts DEF FindWalk, KnownInv, Known
  <2>2. next[reg[p].o] \in Chunks \cup {None}
    BY <2>1 DEF TypeOK
  <2>3. reg[p].o # None
    BY <2>1, GrowableAssumption
  <2>4. \/ Go(p, "found", reg[p])
        \/ Go(p, "find_walk", [reg[p] EXCEPT !.o = next[reg[p].o]])
    BY <1>10, <2>3 DEF FindWalk
  <2>5. QED
    BY <1>10, <2>2, <2>4, RegType DEF FindWalk, TypeOK
<1>11. CASE StoreHint(p)
  BY <1>11, RegType DEF StoreHint, TypeOK
<1>12. CASE Give(p)
  <2>1. reg[p].c \in Chunks /\ reg[p].b \in Blocks
    BY <1>12 DEF Give, BlockInv, Carrying
  <2>2. QED
    BY <1>12, <2>1 DEF Give, TypeOK, NoReg
<1>13. QED
  BY <1>1, <1>2, <1>3, <1>4, <1>5, <1>6, <1>7, <1>8, <1>9, <1>10, <1>11, <1>12 DEF Call, Step

(* The stack grows on top of what the walks follow. *)
Grown == /\ Stacked \subseteq Stacked'
         /\ \A x, y : Leads(x, y) => Leads(x, y)'

LEMMA CallStack ==
  ASSUME IInv, NEW p \in Threads, Call(p)
  PROVE  StackInv' /\ Grown
<1> USE DEF Go, At, IInv
<1>1. ASSUME head' = head, made' = made, \A x \in Stacked : next'[x] = next[x],
             \A q \in Threads : Pushing(q)' <=> Pushing(q),
             \A q \in Threads : Pushing(q) => reg'[q].c = reg[q].c,
             \A q \in Threads : pc'[q] = "exchange" => next'[reg'[q].c] = reg'[q].o
      PROVE  StackInv' /\ Grown
  <2>1. /\ Stacked' = Stacked /\ Intact(chunks!Chain)'
        /\ \A x, y : Leads(x, y) => Leads(x, y)'
    BY <1>1, StackKept
  <2>2. {reg'[q].c : q \in {u \in Threads : pc'[u] \in {"push", "exchange"}}}
          = {reg[q].c : q \in {u \in Threads : pc[u] \in {"push", "exchange"}}}
    BY <1>1 DEF Pushing
  <2>3. ChunksAccounted'
    BY <1>1, <2>1, <2>2 DEF StackInv, ChunksAccounted, Pushing
  <2>4. QED
    BY <1>1, <2>1, <2>3 DEF StackInv, Grown
<1>2. \A q \in Threads : q # p => pc'[q] = pc[q] /\ reg'[q] = reg[q]
  BY Unmoved
<1>3. ASSUME UNCHANGED <<head, next, made>>, ~Pushing(p), ~Pushing(p)' PROVE StackInv' /\ Grown
  <2>1. \A q \in Threads : Pushing(q)' <=> Pushing(q)
    BY <1>2, <1>3 DEF Pushing
  <2>2. \A q \in Threads : Pushing(q) => q # p
    BY <1>3
  <2>3. \A q \in Threads : pc'[q] = "exchange" => Pushing(q)'
    BY DEF Pushing
  <2>4. QED
    BY <1>1, <1>2, <1>3, <2>1, <2>2, <2>3 DEF StackInv
<1>4. CASE AllocCall(p) \/ Peek(p) \/ AllocFromHint(p) \/ AllocFromChunk(p) \/ AllocReturn(p)
  <2>1. UNCHANGED <<head, next, made>> /\ ~Pushing(p)
    BY <1>4 DEF AllocCall, Peek, AllocFromHint, AllocFromChunk, AllocReturn, Pushing
  <2>2. pc'[p] \in {"idle", "try", "peek", "new", "walk", "hint"}
    BY <1>4 DEF AllocCall, Peek, Look, AllocFromHint, AllocFromChunk, AllocReturn, TypeOK
  <2>3. QED
    BY <1>3, <2>1, <2>2 DEF Pushing
<1>5. CASE (\E x \in held : DeallocCall(p, x)) \/ FindPeek(p) \/ FindWalk(p) \/ StoreHint(p) \/ Give(p)
  <2>1. UNCHANGED <<head, next, made>> /\ ~Pushing(p)
    BY <1>5 DEF DeallocCall, FindPeek, FindWalk, StoreHint, Give, Pushing
  <2>2. pc'[p] \in {"found", "find", "find_walk", "dangling", "give", "idle"}
    BY <1>5 DEF DeallocCall, FindPeek, FindWalk, StoreHint, Give, TypeOK
  <2>3. QED
    BY <1>3, <2>1, <2>2 DEF Pushing
<1>6. CASE NewChunk(p)
  <2>1. PICK c \in Chunks \ made : /\ made' = made \cup {c} /\ next' = [next EXCEPT ![c] = None]
                                   /\ pc'[p] = "push" /\ reg'[p].c = c
    <3>1. PICK c \in Chunks \ made, b \in Blocks :
            /\ made' = made \cup {c} /\ next' = [next EXCEPT ![c] = None]
            /\ Go(p, "push", [NoReg EXCEPT !.c = c, !.b = b])
      BY <1>6 DEF NewChunk
    <3>2. pc'[p] = "push" /\ reg'[p] = [NoReg EXCEPT !.c = c, !.b = b]
      BY <3>1 DEF TypeOK
    <3>3. [NoReg EXCEPT !.c = c, !.b = b].c = c
      BY DEF NoReg
    <3>4. QED
      BY <3>1, <3>2, <3>3
  <2>2. head' = head /\ ~Pushing(p) /\ Pushing(p)'
    BY <1>6, <2>1 DEF NewChunk, Pushing
  <2>3. c \notin Stacked
    BY <2>1, StackFacts
  <2>4. \A x \in Chunks : x # c => next'[x] = next[x]
    BY <2>1 DEF TypeOK
  <2>5. /\ Stacked' = Stacked /\ Intact(chunks!Chain)'
        /\ \A x, y : Leads(x, y) => Leads(x, y)'
    <3>1. \A x \in Stacked : next'[x] = next[x]
      BY <2>3, <2>4, StackFacts
    <3>2. QED
      BY <2>2, <3>1, StackKept
  <2>6. \A q \in Threads : Pushing(q) => q # p /\ reg[q].c \in made
    BY <2>2 DEF StackInv, ChunksAccounted, Pushing
  <2>7. \A q \in Threads : Pushing(q)' <=> Pushing(q) \/ q = p
    BY <1>2, <2>2 DEF Pushing
  <2>8. {reg'[q].c : q \in {u \in Threads : pc'[u] \in {"push", "exchange"}}}
          = {c} \cup {reg[q].c : q \in {u \in Threads : pc[u] \in {"push", "exchange"}}}
    BY <1>2, <2>1, <2>2, <2>6, <2>7 DEF Pushing
  <2>9. \A q \in Threads : Pushing(q)' => reg'[q].c \notin Stacked /\ reg'[q].c \in Chunks
    BY <1>2, <2>1, <2>3, <2>6, <2>7 DEF StackInv, ChunksAccounted, Pushing
  <2>10. ChunksAccounted'
    BY <2>1, <2>5, <2>8, <2>9 DEF StackInv, ChunksAccounted, Pushing
  <2>11. \A q, u \in Threads : Pushing(q)' /\ Pushing(u)' /\ reg'[q].c = reg'[u].c => q = u
    BY <1>2, <2>1, <2>6, <2>7 DEF StackInv
  <2>12. ASSUME NEW q \in Threads, pc'[q] = "exchange" PROVE next'[reg'[q].c] = reg'[q].o
    <3>1. q # p /\ Pushing(q) /\ pc[q] = "exchange" /\ reg'[q] = reg[q]
      BY <1>2, <2>1, <2>12 DEF Pushing
    <3>2. reg[q].c \in Chunks /\ reg[q].c # c
      BY <2>1, <2>6, <3>1 DEF StackInv
    <3>3. QED
      BY <2>4, <3>1, <3>2 DEF StackInv
  <2>13. QED
    BY <2>5, <2>9, <2>10, <2>11, <2>12 DEF StackInv, Grown
<1>7. CASE PushLoad(p)
  <2>1. /\ next' = [next EXCEPT ![reg[p].c] = head] /\ head' = head /\ made' = made
        /\ pc[p] = "push" /\ pc'[p] = "exchange" /\ reg'[p].c = reg[p].c /\ reg'[p].o = head
    BY <1>7, RegType DEF PushLoad, chunks!PushLoad, TypeOK
  <2>2. reg[p].c \in Chunks /\ reg[p].c \notin Stacked
    BY <2>1 DEF StackInv, ChunksAccounted, Pushing
  <2>3. /\ next'[reg[p].c] = head
        /\ \A x \in Chunks : x # reg[p].c => next'[x] = next[x]
    BY <2>1, <2>2 DEF TypeOK
  <2>4. \A x \in Stacked : next'[x] = next[x]
    BY <2>2, <2>3, StackFacts
  <2>5. \A q \in Threads : Pushing(q)' <=> Pushing(q)
    BY <1>2, <2>1 DEF Pushing
  <2>6. \A q \in Threads : Pushing(q) => reg'[q].c = reg[q].c
    BY <1>2, <2>1
  <2>7. ASSUME NEW q \in Threads, pc'[q] = "exchange" PROVE next'[reg'[q].c] = reg'[q].o
    <3>1. CASE q = p
      BY <2>1, <2>3, <3>1
    <3>2. CASE q # p
      <4>1. pc[q] = "exchange" /\ Pushing(q) /\ Pushing(p) /\ reg'[q] = reg[q]
        BY <1>2, <2>1, <2>7, <3>2 DEF Pushing
      <4>2. reg[q].c # reg[p].c /\ reg[q].c \in Chunks /\ next[reg[q].c] = reg[q].o
        BY <3>2, <4>1 DEF StackInv
      <4>3. QED
        BY <2>3, <4>1, <4>2
    <3>3. QED
      BY <3>1, <3>2
  <2>8. QED
    BY <1>1, <2>1, <2>4, <2>5, <2>6, <2>7
<1>8. CASE PushExchange(p)
  <2>1. /\ pc[p] = "exchange" /\ next' = next /\ made' = made /\ reg'[p] = reg[p]
        /\ head = reg[p].o => head' = reg[p].c /\ pc'[p] = "pushed"
        /\ head # reg[p].o => head' = head /\ pc'[p] = "push"
    BY <1>8 DEF PushExchange, Exchanged, chunks!Exchange, TypeOK
  <2>2. CASE head # reg[p].o
    <3>1. \A q \in Threads : (Pushing(q)' <=> Pushing(q)) /\ reg'[q] = reg[q]
                             /\ (pc'[q] = "exchange" => pc[q] = "exchange")
      BY <1>2, <2>1, <2>2 DEF Pushing
    <3>2. QED
      BY <1>1, <2>1, <2>2, <3>1 DEF StackInv
  <2>3. CASE head = reg[p].o
    <3> DEFINE c == reg[p].c
    <3>1. c \in Chunks /\ c \notin Stacked /\ next[c] = head /\ Pushing(p) /\ ~Pushing(p)'
      BY <2>1, <2>3 DEF StackInv, ChunksAccounted, Pushing
    <3>2. /\ Stacked' = Stacked \cup {c} /\ Intact(chunks!Chain)'
          /\ \A x, y : Leads(x, y) => Leads(x, y)'
      BY <2>1, <2>3, <3>1, StackPushed
    <3>3. \A q \in Threads : Pushing(q)' <=> Pushing(q) /\ q # p
      BY <1>2, <3>1 DEF Pushing
    <3>4. {reg[q].c : q \in {u \in Threads : pc[u] \in {"push", "exchange"}}}
            = {c} \cup {reg'[q].c : q \in {u \in Threads : pc'[u] \in {"push", "exchange"}}}
      BY <1>2, <3>1, <3>3 DEF Pushing
    <3>5. \A q \in Threads : Pushing(q)' => reg'[q].c \notin Stacked' /\ reg'[q].c \in Chunks
      <4>1. \A q \in Threads : Pushing(q)' => Pushing(q) /\ q # p /\ reg'[q] = reg[q]
        BY <1>2, <3>3
      <4>2. \A q \in Threads : Pushing(q) /\ q # p => reg[q].c # c /\ reg[q].c \notin Stacked
                                                      /\ reg[q].c \in Chunks
        BY <3>1 DEF StackInv, ChunksAccounted, Pushing
      <4>3. QED
        BY <3>2, <4>1, <4>2
    <3>6. ChunksAccounted'
      BY <2>1, <3>2, <3>4, <3>5 DEF StackInv, ChunksAccounted, Pushing
    <3>7. \A q, u \in Threads : Pushing(q)' /\ Pushing(u)' /\ reg'[q].c = reg'[u].c => q = u
      BY <1>2, <3>3 DEF StackInv
    <3>8. \A q \in Threads : pc'[q] = "exchange" => next'[reg'[q].c] = reg'[q].o
      <4>1. \A q \in Threads : pc'[q] = "exchange" => q # p
        BY <2>1, <2>3
      <4>2. QED
        BY <1>2, <2>1, <4>1 DEF StackInv
    <3>9. QED
      BY <3>2, <3>5, <3>6, <3>7, <3>8 DEF StackInv, Grown
  <2>4. QED
    BY <2>2, <2>3
<1>9. QED
  BY <1>4, <1>5, <1>6, <1>7, <1>8 DEF Call, Step


LEMMA Moved ==
  ASSUME TypeOK, NEW p \in Threads, NEW l, NEW r, Go(p, l, r)
  PROVE  pc'[p] = l /\ reg'[p] = r
  BY DEF Go, TypeOK

LEMMA PrimedFacts ==
  StackInv' => (/\ Stacked \subseteq Chunks /\ Stacked \subseteq made /\ None \notin Stacked
                /\ head \in Stacked \cup {None})'
<1>1. StackInv => /\ Stacked \subseteq Chunks /\ Stacked \subseteq made /\ None \notin Stacked
                  /\ head \in Stacked \cup {None}
  BY StackFacts
<1>2. QED
  BY <1>1, PTL

LEMMA StillLeads ==
  ASSUME Grown, NEW q \in Threads, NEW x, NEW y, Leads(x, y), reg'[q].o = x, reg'[q].c = y
  PROVE  Leads(reg[q].o, reg[q].c)'
<1>1. Leads(x, y)'
  BY DEF Grown
<1>2. QED
  BY <1>1 DEF Leads

LEMMA CallKnown ==
  ASSUME IInv, NEW p \in Threads, Call(p)
  PROVE  KnownInv'
<1> DEFINE Hints == last_allocate' \in Stacked' \cup {None} /\ last_deallocate' \in Stacked' \cup {None}
           HeldKnown == \A x \in held' : x[1] \in Stacked'
<1> USE DEF At, IInv
<1>1. StackInv' /\ Stacked \subseteq Stacked'
  BY CallStack DEF Grown
<1>2. ASSUME NEW q \in Threads, q # p PROVE Known(q)'
  <2>1. pc'[q] = pc[q] /\ reg'[q] = reg[q] /\ Known(q)
    BY <1>2, Unmoved DEF KnownInv
  <2>2. At(q, "find_walk") => Leads(reg[q].o, reg[q].c)'
    BY <2>1, CallStack, StillLeads DEF Known
  <2>3. QED
    BY <1>1, <2>1, <2>2 DEF Known, Pushing
<1>3. SUFFICES Known(p)' /\ Hints /\ HeldKnown
  BY <1>2 DEF KnownInv
<1>4. Known(p) /\ TypeOK /\ {last_allocate, last_deallocate} \subseteq Stacked' \cup {None}
      /\ \A x \in held : x[1] \in Stacked'
  BY <1>1 DEF KnownInv
<1>5. UNCHANGED <<last_allocate, last_deallocate>> => Hints
  BY <1>4
<1>6. held' \subseteq held => HeldKnown
  BY <1>4
<1>7. NoReg.c = None /\ NoReg.o = None
  BY DEF NoReg
<1>8. ASSUME pc'[p] = "idle", reg'[p] = NoReg PROVE Known(p)'
  BY <1>7, <1>8 DEF Known, Pushing
<1>9. ASSUME NEW c \in Stacked', TakeFrom(c) PROVE HeldKnown
  BY <1>4, <1>9 DEF TakeFrom
<1>10. ASSUME NEW c, c \in Stacked' \cup {None}, Look(p, c) PROVE Known(p)'
  <2>1. pc'[p] = (IF c = None THEN "new" ELSE "walk") /\ reg'[p] = [NoReg EXCEPT !.c = c]
    BY <1>4, <1>10, Moved DEF Look
  <2>2. reg'[p].c = c /\ reg'[p].o = None
    BY <2>1 DEF NoReg
  <2>3. QED
    BY <1>10, <2>1, <2>2 DEF Known, Pushing
<1>11. CASE AllocCall(p)
  <2>1. /\ pc'[p] = (IF last_allocate = None THEN "peek" ELSE "try")
        /\ reg'[p] = [NoReg EXCEPT !.c = last_allocate]
    BY <1>4, <1>11, Moved DEF AllocCall
  <2>2. reg'[p].c = last_allocate /\ reg'[p].o = None
    BY <2>1 DEF NoReg
  <2>3. Known(p)'
    BY <1>4, <2>1, <2>2 DEF Known, Pushing
  <2>4. QED
    BY <1>5, <1>6, <1>11, <2>3 DEF AllocCall
<1>12. CASE AllocFromHint(p)
  <2>1. reg[p].c \in Stacked'
    BY <1>1, <1>4, <1>12 DEF AllocFromHint, Known, Pushing
  <2>2. CASE TakeFrom(reg[p].c) /\ Go(p, "idle", NoReg)
    <3>1. Known(p)'
      BY <1>4, <1>8, <2>2, Moved
    <3>2. QED
      BY <1>5, <1>9, <1>12, <2>1, <2>2, <3>1 DEF AllocFromHint
  <2>3. CASE Go(p, "peek", NoReg) /\ UNCHANGED <<free, held>>
    <3>1. pc'[p] = "peek" /\ reg'[p] = NoReg
      BY <1>4, <2>3, Moved
    <3>2. Known(p)'
      BY <1>7, <3>1 DEF Known, Pushing
    <3>3. QED
      BY <1>5, <1>6, <1>12, <2>3, <3>2 DEF AllocFromHint
  <2>4. QED
    BY <1>12, <2>2, <2>3 DEF AllocFromHint
<1>13. CASE Peek(p)
  <2>1. head \in Stacked' \cup {None}
    BY <1>1, StackFacts
  <2>2. QED
    BY <1>5, <1>6, <1>10, <1>13, <2>1 DEF Peek
<1>14. CASE AllocFromChunk(p)
  <2>1. reg[p].c \in Stacked
    BY <1>4, <1>14 DEF AllocFromChunk, Known, Pushing
  <2>2. CASE TakeFrom(reg[p].c) /\ Go(p, "hint", reg[p])
    <3>1. pc'[p] = "hint" /\ reg'[p] = reg[p]
      BY <1>4, <2>2, Moved
    <3>2. Known(p)'
      BY <1>1, <1>4, <2>1, <3>1, PrimedFacts DEF Known, Pushing
    <3>3. QED
      BY <1>1, <1>5, <1>9, <1>14, <2>1, <2>2, <3>2 DEF AllocFromChunk
  <2>3. CASE Look(p, next[reg[p].c]) /\ UNCHANGED <<free, held>>
    <3>1. next[reg[p].c] \in Stacked' \cup {None}
      BY <1>1, <2>1, StackFacts
    <3>2. QED
      BY <1>5, <1>6, <1>10, <1>14, <2>3, <3>1 DEF AllocFromChunk
  <2>4. QED
    BY <1>14, <2>2, <2>3 DEF AllocFromChunk
<1>15. CASE NewChunk(p)
  <2>1. PICK c \in Chunks, b \in Blocks : Go(p, "push", [NoReg EXCEPT !.c = c, !.b = b])
    BY <1>15 DEF NewChunk
  <2>2. pc'[p] = "push" /\ reg'[p] = [NoReg EXCEPT !.c = c, !.b = b]
    BY <1>4, <2>1, Moved
  <2>3. reg'[p].c = c /\ reg'[p].o = None /\ c # None
    BY <2>2, GrowableAssumption DEF NoReg
  <2>4. Known(p)'
    BY <2>2, <2>3 DEF Known, Pushing
  <2>5. QED
    BY <1>5, <1>6, <1>15, <2>4 DEF NewChunk
<1>16. CASE PushLoad(p)
  <2>1. Go(p, "exchange", [reg[p] EXCEPT !.o = head]) /\ pc[p] = "push"
    BY <1>16 DEF PushLoad, chunks!PushLoad
  <2>2. pc'[p] = "exchange" /\ reg'[p] = [reg[p] EXCEPT !.o = head]
    BY <1>4, <2>1, Moved
  <2>3. reg'[p].c = reg[p].c /\ reg'[p].o = head
    BY <1>4, <2>2, RegType
  <2>4. head \in Stacked' \cup {None}
    BY <1>1, StackFacts
  <2>5. Known(p)'
    BY <1>4, <2>1, <2>2, <2>3, <2>4 DEF Known, Pushing
  <2>6. QED
    BY <1>5, <1>6, <1>16, <2>5 DEF PushLoad
<1>17. CASE PushExchange(p)
  <2>1. /\ pc[p] = "exchange" /\ reg'[p] = reg[p]
        /\ head = reg[p].o => head' = reg[p].c /\ pc'[p] = "pushed"
        /\ head # reg[p].o => pc'[p] = "push"
    BY <1>4, <1>17, Moved DEF PushExchange, Exchanged, chunks!Exchange
  <2>2. head = reg[p].o => reg[p].c \in Stacked'
    BY <1>1, <1>4, <2>1, PrimedFacts DEF Known
  <2>3. Known(p)'
    BY <1>1, <1>4, <2>1, <2>2 DEF Known, Pushing
  <2>4. QED
    BY <1>5, <1>6, <1>17, <2>3 DEF PushExchange
<1>18. CASE AllocReturn(p)
  <2>1. reg[p].c \in Stacked'
    BY <1>1, <1>4, <1>18 DEF AllocReturn, Known, Pushing
  <2>2. HeldKnown
    BY <1>4, <1>18, <2>1 DEF AllocReturn
  <2>3. Hints
    BY <1>4, <1>18, <2>1 DEF AllocReturn
  <2>4. Known(p)'
    BY <1>4, <1>8, <1>18, Moved DEF AllocReturn
  <2>5. QED
    BY <2>2, <2>3, <2>4
<1>19. ASSUME NEW x \in held, DeallocCall(p, x) PROVE Known(p)' /\ Hints /\ HeldKnown
  <2>1. /\ pc'[p] = (IF last_deallocate = x[1] THEN "found" ELSE "find")
        /\ reg'[p] = [NoReg EXCEPT !.c = x[1], !.b = x[2]]
    BY <1>4, <1>19, Moved DEF DeallocCall
  <2>2. reg'[p].c = x[1] /\ reg'[p].o = None
    BY <2>1 DEF NoReg
  <2>3. x[1] \in Stacked' /\ x[1] # None
    BY <1>1, <1>4, PrimedFacts
  <2>4. Known(p)'
    BY <2>1, <2>2, <2>3 DEF Known, Pushing
  <2>5. QED
    BY <1>5, <1>6, <1>19, <2>4 DEF DeallocCall
<1>20. CASE FindPeek(p)
  <2>1. pc[p] = "find" /\ pc'[p] = "find_walk" /\ reg'[p] = [reg[p] EXCEPT !.o = head]
    BY <1>4, <1>20, Moved DEF FindPeek
  <2>2. reg'[p].c = reg[p].c /\ reg'[p].o = head
    BY <1>4, <2>1, RegType
  <2>3. reg[p].c \in Stacked
    BY <1>4, <2>1 DEF Known, Pushing
  <2>4. head \in Stacked' /\ Leads(head, reg[p].c)
    BY <1>1, <2>3, LeadsFromHead
  <2>5. Leads(reg[p].o, reg[p].c)'
    BY <2>2, <2>4, CallStack, StillLeads
  <2>6. Known(p)'
    BY <1>1, <2>1, <2>2, <2>3, <2>4, <2>5, PrimedFacts DEF Known, Pushing
  <2>7. QED
    BY <1>5, <1>6, <1>20, <2>6 DEF FindPeek
<1>21. CASE FindWalk(p)
  <2>1. pc[p] = "find_walk" /\ Leads(reg[p].o, reg[p].c)
    BY <1>4, <1>21 DEF FindWalk, Known
  <2>2. /\ reg[p].o \in Stacked /\ reg[p].c \in Stacked /\ reg[p].c # None /\ reg[p].o # None
        /\ reg[p].o # reg[p].c => next[reg[p].o] \in Stacked /\ Leads(next[reg[p].o], reg[p].c)
    BY <2>1, LeadsOn, StackFacts
  <2>3. CASE reg[p].o = reg[p].c
    <3>1. pc'[p] = "found" /\ reg'[p] = reg[p]
      BY <1>4, <1>21, <2>2, <2>3, Moved DEF FindWalk
    <3>2. QED
      BY <1>1, <1>5, <1>6, <1>21, <2>2, <3>1 DEF FindWalk, Known, Pushing
  <2>4. CASE reg[p].o # reg[p].c
    <3>1. pc'[p] = "find_walk" /\ reg'[p] = [reg[p] EXCEPT !.o = next[reg[p].o]]
      BY <1>4, <1>21, <2>2, <2>4, Moved DEF FindWalk
    <3>2. reg'[p].c = reg[p].c /\ reg'[p].o = next[reg[p].o]
      BY <1>4, <3>1, RegType
    <3>3. Leads(reg[p].o, reg[p].c)'
      BY <2>2, <2>4, <3>2, CallStack, StillLeads
    <3>4. Known(p)'
      BY <1>1, <2>2, <2>4, <3>1, <3>2, <3>3 DEF Known, Pushing
    <3>5. QED
      BY <1>5, <1>6, <1>21, <3>4 DEF FindWalk
  <2>5. QED
    BY <2>3, <2>4
<1>22. CASE StoreHint(p)
  <2>1. pc[p] = "found" /\ pc'[p] = "give" /\ reg'[p] = reg[p] /\ last_deallocate' = reg[p].c
    BY <1>4, <1>22, Moved DEF StoreHint
  <2>2. Known(p)'
    BY <1>1, <1>4, <2>1 DEF Known, Pushing
  <2>3. reg[p].c \in Stacked'
    BY <1>1, <1>4, <2>1 DEF Known, Pushing
  <2>4. QED
    BY <1>4, <1>6, <1>22, <2>1, <2>2, <2>3 DEF StoreHint
<1>23. CASE Give(p)
  <2>1. Known(p)'
    BY <1>4, <1>8, <1>23, Moved DEF Give
  <2>2. QED
    BY <1>5, <1>6, <1>23, <2>1 DEF Give
<1>24. QED
  BY <1>11, <1>12, <1>13, <1>14, <1>15, <1>16, <1>17, <1>18, <1>19, <1>20, <1>21, <1>22, <1>23
  DEF Call, Step

(* Blocks that nobody moves stay where they are. *)
LEMMA BlocksKept ==
  ASSUME BlockInv, \A c \in Chunks : free'[c] \subseteq free[c], held' \subseteq held,
         \A q \in Threads : Carrying(q)' => Carrying(q) /\ reg'[q].c = reg[q].c /\ reg'[q].b = reg[q].b
  PROVE  BlockInv'
  BY DEF BlockInv, Carried

LEMMA CallBlocks ==
  ASSUME IInv, NEW p \in Threads, Call(p)
  PROVE  BlockInv'
<1> USE DEF At, IInv
<1>1. /\ TypeOK /\ BlockInv /\ Known(p)
      /\ \A q \in Threads : q # p => (Carrying(q)' <=> Carrying(q)) /\ reg'[q] = reg[q]
  BY Unmoved DEF KnownInv, Carrying
<1>2. ASSUME UNCHANGED <<free, held>>,
             Carrying(p)' => Carrying(p) /\ reg'[p].c = reg[p].c /\ reg'[p].b = reg[p].b
      PROVE  BlockInv'
  BY <1>1, <1>2, BlocksKept
<1>3. ASSUME NEW c \in Chunks, TakeFrom(c), ~Carrying(p)' PROVE BlockInv'
  <2>1. PICK b \in free[c] : free' = [free EXCEPT ![c] = @ \ {b}] /\ held' = held \cup {<<c, b>>}
    BY <1>3 DEF TakeFrom
  <2>2. \A d \in Chunks : free'[d] = IF d = c THEN free[c] \ {b} ELSE free[d]
    BY <1>1, <2>1 DEF TypeOK
  <2>3. \A q \in Threads : Carrying(q)' => /\ q # p /\ Carrying(q) /\ reg'[q] = reg[q]
                                           /\ Carried(q) # <<c, b>>
    BY <1>1, <1>3, <2>1 DEF BlockInv, Carried
  <2>4. ASSUME NEW d \in Chunks, NEW i \in free'[d] PROVE <<d, i>> \notin held'
    <3>1. i \in free[d] /\ (d # c \/ i # b)
      BY <2>2
    <3>2. <<d, i>> \notin held /\ <<d, i>> # <<c, b>>
      BY <1>1, <3>1 DEF BlockInv
    <3>3. QED
      BY <2>1, <3>2
  <2>5. \A q \in Threads : Carrying(q)' =>
          /\ reg'[q].c \in Chunks /\ reg'[q].b \in Blocks
          /\ reg'[q].b \notin free'[reg'[q].c] /\ Carried(q)' \notin held'
    BY <1>1, <2>1, <2>2, <2>3 DEF BlockInv, Carried
  <2>6. \A q, u \in Threads : Carrying(q)' /\ Carrying(u)' /\ Carried(q)' = Carried(u)' => q = u
    BY <1>1, <2>3 DEF BlockInv, Carried
  <2>7. QED
    BY <2>4, <2>5, <2>6 DEF BlockInv
<1>4. CASE AllocCall(p) \/ Peek(p)
  <2>1. UNCHANGED <<free, held>> /\ pc'[p] \in {"peek", "try", "new", "walk"}
    BY <1>1, <1>4, Moved DEF AllocCall, Peek, Look
  <2>2. QED
    BY <1>2, <2>1 DEF Carrying
<1>5. CASE AllocFromHint(p) \/ AllocFromChunk(p)
  <2>1. reg[p].c \in Chunks
    BY <1>1, <1>5, StackFacts DEF AllocFromHint, AllocFromChunk, Known, Pushing
  <2>2. pc'[p] \in {"idle", "peek", "hint", "new", "walk"}
    BY <1>1, <1>5, Moved DEF AllocFromHint, AllocFromChunk, Look
  <2>3. TakeFrom(reg[p].c) \/ UNCHANGED <<free, held>>
    BY <1>5 DEF AllocFromHint, AllocFromChunk
  <2>4. QED
    BY <1>2, <1>3, <2>1, <2>2, <2>3 DEF Carrying
<1>6. CASE NewChunk(p)
  <2>1. PICK c \in Chunks \ made, b \in Blocks :
          /\ free' = [free EXCEPT ![c] = Blocks \ {b}] /\ held' = held
          /\ Go(p, "push", [NoReg EXCEPT !.c = c, !.b = b])
    BY <1>6 DEF NewChunk
  <2>2. pc'[p] = "push" /\ reg'[p].c = c /\ reg'[p].b = b
    <3>1. pc'[p] = "push" /\ reg'[p] = [NoReg EXCEPT !.c = c, !.b = b]
      BY <1>1, <2>1, Moved
    <3>2. QED
      BY <3>1 DEF NoReg
  <2>3. \A d \in Chunks : free'[d] = IF d = c THEN Blocks \ {b} ELSE free[d]
    BY <1>1, <2>1 DEF TypeOK
  <2>4. \A i : <<c, i>> \notin held
    BY <2>1, StackFacts DEF KnownInv
  <2>5. ASSUME NEW q \in Threads, Carrying(q) PROVE reg[q].c \in made
    <3>1. CASE Pushing(q)
      BY <3>1 DEF StackInv, ChunksAccounted, Pushing
    <3>2. CASE ~Pushing(q)
      <4>1. Known(q) /\ pc[q] \notin {"idle", "peek", "new"}
        BY <2>5 DEF KnownInv, Carrying
      <4>2. reg[q].c \in Stacked
        BY <3>2, <4>1 DEF Known
      <4>3. QED
        BY <4>2, StackFacts
    <3>3. QED
      BY <3>1, <3>2
  <2>6. \A q \in Threads : q # p /\ Carrying(q)' => Carrying(q) /\ reg'[q] = reg[q] /\ reg[q].c # c
    BY <1>1, <2>1, <2>5
  <2>7. \A d \in Chunks : \A i \in free'[d] : <<d, i>> \notin held'
    BY <1>1, <2>1, <2>3, <2>4 DEF BlockInv
  <2>8. \A q \in Threads : q # p /\ Carrying(q)' =>
          /\ reg'[q].c \in Chunks /\ reg'[q].b \in Blocks
          /\ reg'[q].b \notin free'[reg'[q].c] /\ Carried(q)' \notin held'
    BY <1>1, <2>1, <2>3, <2>6 DEF BlockInv, Carried
  <2>9. /\ reg'[p].c \in Chunks /\ reg'[p].b \in Blocks
        /\ reg'[p].b \notin free'[reg'[p].c] /\ Carried(p)' \notin held'
    BY <2>1, <2>2, <2>3, <2>4 DEF Carried
  <2>10. ASSUME NEW q \in Threads, NEW u \in Threads, Carrying(q)', Carrying(u)',
                Carried(q)' = Carried(u)'
         PROVE  q = u
    <3>1. reg'[q].c = reg'[u].c /\ reg'[q].b = reg'[u].b
      BY <2>10 DEF Carried
    <3>2. (q = p) <=> (u = p)
      BY <2>2, <2>6, <2>10, <3>1
    <3>3. QED
      BY <1>1, <2>6, <2>10, <3>1, <3>2 DEF BlockInv, Carried
  <2>11. QED
    BY <2>7, <2>8, <2>9, <2>10 DEF BlockInv
<1>7. CASE PushLoad(p)
  <2>1. UNCHANGED <<free, held>> /\ pc[p] = "push" /\ \E o : reg'[p] = [reg[p] EXCEPT !.o = o]
    BY <1>1, <1>7, Moved DEF PushLoad
  <2>2. reg'[p].c = reg[p].c /\ reg'[p].b = reg[p].b
    BY <1>1, <2>1, RegType
  <2>3. QED
    BY <1>2, <2>1, <2>2 DEF Carrying
<1>8. CASE PushExchange(p)
  <2>1. UNCHANGED <<free, held>> /\ pc[p] = "exchange" /\ reg'[p] = reg[p]
    BY <1>1, <1>8, Moved DEF PushExchange, Exchanged
  <2>2. QED
    BY <1>2, <2>1 DEF Carrying
<1>9. CASE AllocReturn(p)
  <2>1. free' = free /\ pc'[p] = "idle" /\ pc[p] \in {"hint", "pushed"}
        /\ held' = IF pc[p] = "pushed" THEN held \cup {Carried(p)} ELSE held
    BY <1>1, <1>9, Moved DEF AllocReturn, Carried
  <2>2. CASE pc[p] = "hint"
    BY <1>2, <2>1, <2>2 DEF Carrying
  <2>3. CASE pc[p] = "pushed"
    <3>1. Carrying(p) /\ ~Carrying(p)' /\ held' = held \cup {Carried(p)}
      BY <2>1, <2>3 DEF Carrying
    <3>2. /\ reg[p].c \in Chunks /\ reg[p].b \in Blocks /\ reg[p].b \notin free[reg[p].c]
          /\ \A q \in Threads : q # p /\ Carrying(q) => Carried(q) # Carried(p)
      BY <1>1, <3>1 DEF BlockInv
    <3>3. \A q \in Threads : Carrying(q)' => Carrying(q) /\ reg'[q] = reg[q] /\ q # p
      BY <1>1, <3>1
    <3>4. \A c \in Chunks : \A b \in free[c] : <<c, b>> # Carried(p)
      BY <3>2 DEF Carried
    <3>5. \A q \in Threads : Carrying(q)' => Carried(q)' = Carried(q)
      BY <3>3 DEF Carried
    <3>6. QED
      BY <1>1, <2>1, <3>1, <3>2, <3>3, <3>4, <3>5 DEF BlockInv
  <2>4. QED
    BY <2>1, <2>2, <2>3
<1>10. ASSUME NEW x \in held, DeallocCall(p, x) PROVE BlockInv'
  <2>1. /\ free' = free /\ held' = held \ {x} /\ pc[p] = "idle" /\ Carrying(p)'
        /\ reg'[p].c = x[1] /\ reg'[p].b = x[2]
    <3>1. /\ free' = free /\ held' = held \ {x} /\ pc[p] = "idle" /\ pc'[p] \in {"found", "find"}
          /\ reg'[p] = [NoReg EXCEPT !.c = x[1], !.b = x[2]]
      BY <1>1, <1>10, Moved DEF DeallocCall
    <3>2. QED
      BY <3>1 DEF NoReg, Carrying
  <2>2. x[1] \in Chunks /\ x[2] \in Blocks /\ x = <<x[1], x[2]>>
    BY <1>1 DEF TypeOK
  <2>3. Carried(p)' = x
    BY <2>1, <2>2 DEF Carried
  <2>4. x[2] \notin free[x[1]]
    BY <1>1, <2>2 DEF BlockInv
  <2>5. \A q \in Threads : q # p /\ Carrying(q)' => /\ Carrying(q) /\ reg'[q] = reg[q]
                                                    /\ Carried(q)' = Carried(q) /\ Carried(q) # x
    BY <1>1 DEF BlockInv, Carried
  <2>6. QED
    BY <1>1, <2>1, <2>2, <2>3, <2>4, <2>5 DEF BlockInv
<1>11. CASE FindPeek(p) \/ FindWalk(p) \/ StoreHint(p)
  <2>1. UNCHANGED <<free, held>> /\ pc[p] \in {"find", "find_walk", "found"}
    BY <1>11 DEF FindPeek, FindWalk, StoreHint
  <2>2. \E o : reg'[p] = [reg[p] EXCEPT !.o = o] \/ reg'[p] = reg[p]
    <3>1. \/ \E l : Go(p, l, reg[p])
          \/ \E l, o : Go(p, l, [reg[p] EXCEPT !.o = o])
      BY <1>11 DEF FindPeek, FindWalk, StoreHint
    <3>2. QED
      BY <1>1, <3>1, Moved
  <2>3. reg'[p].c = reg[p].c /\ reg'[p].b = reg[p].b
    BY <1>1, <2>2, RegType
  <2>4. QED
    BY <1>2, <2>1, <2>3 DEF Carrying
<1>12. CASE Give(p)
  <2>1. /\ free' = [free EXCEPT ![reg[p].c] = @ \cup {reg[p].b}] /\ held' = held
        /\ Carrying(p) /\ ~Carrying(p)'
    <3>1. pc'[p] = "idle"
      BY <1>1, <1>12, Moved DEF Give
    <3>2. QED
      BY <1>12, <3>1 DEF Give, Carrying
  <2>2. /\ reg[p].c \in Chunks /\ reg[p].b \in Blocks /\ <<reg[p].c, reg[p].b>> \notin held
        /\ \A q \in Threads : q # p /\ Carrying(q) => <<reg[q].c, reg[q].b>> # <<reg[p].c, reg[p].b>>
    BY <1>1, <2>1 DEF BlockInv, Carried
  <2>3. \A d \in Chunks : free'[d] = IF d = reg[p].c THEN free[d] \cup {reg[p].b} ELSE free[d]
    BY <1>1, <2>1, <2>2 DEF TypeOK
  <2>4. \A q \in Threads : Carrying(q)' => Carrying(q) /\ reg'[q] = reg[q] /\ q # p
    BY <1>1, <2>1
  <2>5. ASSUME NEW c \in Chunks, NEW b \in free'[c] PROVE <<c, b>> \notin held'
    <3>1. b \in free[c] \/ (c = reg[p].c /\ b = reg[p].b)
      BY <2>3
    <3>2. b \in free[c] => <<c, b>> \notin held
      BY <1>1 DEF BlockInv
    <3>3. QED
      BY <2>1, <2>2, <3>1, <3>2
  <2>6. \A q \in Threads : Carrying(q)' =>
          /\ reg'[q].c \in Chunks /\ reg'[q].b \in Blocks
          /\ reg'[q].b \notin free'[reg'[q].c] /\ Carried(q)' \notin held'
    BY <1>1, <2>1, <2>2, <2>3, <2>4 DEF BlockInv, Carried
  <2>7. \A q, u \in Threads : Carrying(q)' /\ Carrying(u)' /\ Carried(q)' = Carried(u)' => q = u
    BY <1>1, <2>4 DEF BlockInv, Carried
  <2>8. QED
    BY <2>5, <2>6, <2>7 DEF BlockInv
<1>13. QED
  BY <1>4, <1>5, <1>6, <1>7, <1>8, <1>9, <1>10, <1>11, <1>12 DEF Call, Step

---------------------------------------------------------------------------
(* grow(), shrink() and initialize(), while no call is under way *)

LEMMA QuietFacts ==
  ASSUME IInv, Quiet
  PROVE  /\ \A p \in Threads : pc[p] = "idle" /\ reg[p] = NoReg
         /\ Stacked = made
<1>1. \A p \in Threads : pc[p] = "idle" /\ reg[p] = NoReg
  BY DEF Quiet, At, IInv, KnownInv, Known
<1>2. {reg[p].c : p \in {q \in Threads : pc[q] \in {"push", "exchange"}}} = {}
  BY <1>1
<1>3. QED
  BY <1>1, <1>2 DEF IInv, StackInv, ChunksAccounted

(* With every thread idle the invariant is about the stack, the hints and the
   blocks in use. *)
LEMMA QuietInv ==
  ASSUME TypeOK', \A p \in Threads : pc'[p] = "idle" /\ reg'[p] = NoReg,
         Intact(chunks!Chain)', made' = Stacked', \A x \in held' : x[1] \in Stacked',
         {last_allocate', last_deallocate'} \subseteq Stacked' \cup {None},
         \A c \in Chunks : \A b \in free'[c] : <<c, b>> \notin held'
  PROVE  IInv'
<1> USE DEF Pushing, At
<1>1. {reg'[p].c : p \in {q \in Threads : pc'[q] \in {"push", "exchange"}}} = {}
  OBVIOUS
<1>2. StackInv'
  BY <1>1 DEF StackInv, ChunksAccounted
<1>3. \A p \in Threads : Known(p)'
  BY DEF Known, NoReg
<1>4. KnownInv'
  BY <1>3 DEF KnownInv
<1>5. BlockInv'
  BY DEF BlockInv, Carrying
<1>6. QED
  BY <1>2, <1>4, <1>5 DEF IInv

LEMMA GrowInv ==
  ASSUME IInv, NEW t \in 0..MaxTarget, Grow(t)
  PROVE  IInv'
<1>1. PICK c \in Chunks \ made :
        /\ made' = made \cup {c} /\ free' = [free EXCEPT ![c] = Blocks] /\ last_allocate' = c
        /\ next' = [next EXCEPT ![c] = head] /\ head' = c
  BY DEF Grow, chunks!Push
<1>2. Quiet /\ UNCHANGED <<last_deallocate, held, pc, reg>> /\ TypeOK /\ StackInv
  BY DEF Grow, IInv
<1>3. /\ \A p \in Threads : pc'[p] = "idle" /\ reg'[p] = NoReg
      /\ Stacked = made
  BY <1>2, QuietFacts
<1>4. next'[c] = head /\ \A x \in Stacked : next'[x] = next[x]
  BY <1>1, <1>2, <1>3, StackFacts DEF TypeOK
<1>5. Intact(chunks!Chain)' /\ Stacked' = Stacked \cup {c}
  BY <1>1, <1>2, <1>3, <1>4, StackPushed
<1>6. TypeOK'
  <2>1. head' \in Chunks /\ next' \in [Chunks -> Chunks \cup {None}] /\ made' \subseteq Chunks
    BY <1>1, <1>2 DEF TypeOK
  <2>2. free' \in [Chunks -> SUBSET Blocks]
    BY <1>1, <1>2 DEF TypeOK
  <2>3. QED
    BY <1>2, <2>1, <2>2 DEF TypeOK
<1>7. (\A x \in held' : x[1] \in Stacked) /\ last_deallocate' \in Stacked \cup {None}
  BY <1>2 DEF IInv, KnownInv
<1>8. ASSUME NEW d \in Chunks, NEW b \in free'[d] PROVE <<d, b>> \notin held'
  <2>1. CASE d = c
    BY <1>1, <1>3, <1>7, <2>1
  <2>2. CASE d # c
    <3>1. b \in free[d]
      BY <1>1, <1>2, <1>8, <2>2 DEF TypeOK
    <3>2. QED
      BY <1>2, <3>1 DEF IInv, BlockInv
  <2>3. QED
    BY <2>1, <2>2
<1>9. QED
  BY <1>1, <1>3, <1>5, <1>6, <1>7, <1>8, QuietInv

LEMMA ShrinkInv ==
  ASSUME IInv, NEW t \in 0..MaxTarget, Shrink(t)
  PROVE  IInv'
<1>1. PICK s : s = chunks!Chain
  OBVIOUS
<1>2. Intact(s) /\ Stacked = ToSet(s) /\ TypeOK
  BY <1>1 DEF IInv, StackInv, Stacked
<1>3. t \in Nat
  BY GrowableAssumption
<1>4. PICK keep \in Seq(Chunks) :
        /\ Intact(keep)' /\ made' = ToSet(keep) /\ ToSet(keep) \subseteq ToSet(s)
        /\ \A c \in ToSet(s) : Full(c) \/ c \in ToSet(keep)
        /\ free' = [c \in Chunks |-> IF c \in ToSet(keep) THEN free[c] ELSE {}]
        /\ next' \in [Chunks -> Chunks \cup {None}]
  BY <1>2, <1>3, ShrinkKeeps
<1>5. Quiet /\ UNCHANGED <<held, pc, reg>> /\ last_allocate' = None /\ last_deallocate' = None
  BY DEF Shrink, ResetHints
<1>6. \A p \in Threads : pc'[p] = "idle" /\ reg'[p] = NoReg
  BY <1>5, QuietFacts
<1>7. chunks!Chain' = keep
  BY <1>4, ChainIsNext
<1>8. Intact(chunks!Chain)' /\ Stacked' = ToSet(keep)
  BY <1>4, <1>7 DEF Intact, Stacked
<1>9. TypeOK'
  <2>1. head' \in Chunks \cup {None}
    <3>1. head' = (IF Len(keep) = 0 THEN None ELSE keep[1])
      BY <1>4 DEF Intact
    <3>2. Len(keep) # 0 => 1 \in 1..Len(keep)
      BY LenProperties
    <3>3. QED
      BY <3>1, <3>2, ElementOfSeq
  <2>2. made' \subseteq Chunks
    BY <1>4, ToSetIs
  <2>3. free' \in [Chunks -> SUBSET Blocks]
    BY <1>2, <1>4 DEF TypeOK
  <2>4. QED
    BY <1>2, <1>4, <1>5, <2>1, <2>2, <2>3 DEF TypeOK
<1>10. ASSUME NEW x \in held' PROVE x[1] \in ToSet(keep)
  <2>1. x \in held /\ x[1] \in ToSet(s)
    BY <1>2, <1>5, <1>10 DEF IInv, KnownInv
  <2>2. x[1] \in Chunks /\ x[2] \in Blocks /\ x = <<x[1], x[2]>>
    BY <1>2, <2>1 DEF TypeOK
  <2>3. x[2] \notin free[x[1]]
    BY <2>1, <2>2 DEF IInv, BlockInv
  <2>4. QED
    BY <1>4, <2>1, <2>2, <2>3 DEF Full
<1>11. ASSUME NEW c \in Chunks, NEW b \in free'[c] PROVE <<c, b>> \notin held'
  <2>1. b \in free[c]
    BY <1>4, <1>11
  <2>2. QED
    BY <1>5, <2>1 DEF IInv, BlockInv
<1>12. QED
  BY <1>4, <1>5, <1>6, <1>8, <1>9, <1>10, <1>11, QuietInv

LEMMA InitInv == ASSUME Init PROVE IInv
<1>1. PICK c \in Chunks :
        /\ head = c /\ last_allocate = c /\ made = {c} /\ last_deallocate = None
        /\ next = [x \in Chunks |-> None]
        /\ free = [x \in Chunks |-> IF x = c THEN Blocks ELSE {}]
        /\ held = {} /\ pc = [p \in Threads |-> "idle"] /\ reg = [p \in Threads |-> NoReg]
  BY DEF Init
<1> DEFINE s == <<c>>
<1>2. s \in Seq(Chunks) /\ Len(s) = 1 /\ s[1] = c
  OBVIOUS
<1>3. Intact(s)
  <2>1. \A k \in 1..Len(s) : k = 1
    BY <1>2
  <2>2. QED
    BY <1>1, <1>2, <2>1 DEF Intact
<1> HIDE DEF s
<1>4. chunks!Chain = s /\ Intact(chunks!Chain)
  BY <1>3, ChainIs
<1>5. Stacked = {c}
  <2>1. \A x : x \in ToSet(s) <=> x = c
    <3>1. \A k \in 1..Len(s) : k = 1
      BY <1>2
    <3>2. QED
      BY <1>2, <3>1, ToSetIs
  <2>2. QED
    BY <1>4, <2>1 DEF Stacked
<1>6. {reg[p].c : p \in {q \in Threads : pc[q] \in {"push", "exchange"}}} = {}
  BY <1>1
<1>7. StackInv
  BY <1>1, <1>4, <1>5, <1>6 DEF StackInv, ChunksAccounted, Pushing, At
<1>8. TypeOK
  <2>1. NoReg \in [c : Chunks \cup {None}, o : Chunks \cup {None}, b : Blocks \cup {None}]
    BY DEF NoReg
  <2>2. QED
    BY <1>1, <2>1 DEF TypeOK
<1>9. KnownInv
  <2>1. \A p \in Threads : Known(p)
    BY <1>1 DEF Known, NoReg, Pushing, At
  <2>2. QED
    BY <1>1, <1>5, <2>1 DEF KnownInv
<1>10. BlockInv
  BY <1>1 DEF BlockInv, Carrying
<1>11. QED
  BY <1>7, <1>8, <1>9, <1>10 DEF IInv

LEMMA StepInv == ASSUME IInv, [Next]_vars PROVE IInv'
<1>1. CASE \E t \in 0..MaxTarget : Grow(t) \/ Shrink(t)
  BY <1>1, GrowInv, ShrinkInv
<1>2. CASE \E p \in Threads : Call(p)
  BY <1>2, CallType, CallStack, CallKnown, CallBlocks DEF IInv
<1>3. CASE UNCHANGED vars
  <2>1. UNCHANGED <<chunks!Chain, Stacked>>
    BY <1>3 DEF vars, Stacked, chunks!Chain, chunks!Size, chunks!Walk
  <2>2. QED
    BY <1>3, <2>1 DEF vars, IInv, TypeOK, StackInv, KnownInv, BlockInv, Intact, ChunksAccounted,
                      Pushing, Known, Leads, Carrying, Carried, At
<1>4. QED
  BY <1>1, <1>2, <1>3 DEF Next, Call

---------------------------------------------------------------------------
(* The theorems *)

(* The inductive invariant holds for any threads, chunks and blocks. *)
THEOREM Invariant == Spec => []IInv
<1>1. Init => IInv
  BY InitInv
<1>2. IInv /\ [Next]_vars => IInv'
  BY StepInv
<1>3. QED
  BY <1>1, <1>2, PTL DEF Spec

(* Neither concurrent push()es nor shrink() lose a chunk. *)
THEOREM NoChunkIsLost == Spec => []ChunksAccounted
<1>1. IInv => ChunksAccounted
  BY DEF IInv, StackInv
<1>2. QED
  BY <1>1, Invariant, PTL

(* No hint and no thread's pointer outlives its chunk, and deallocate() never
   misses the chunk of a block in use. *)
THEOREM NothingEverDangles == Spec => []NothingDangles
<1>1. ASSUME IInv PROVE NothingDangles
  <2>1. {last_allocate, last_deallocate} \subseteq made \cup {None}
    BY <1>1, StackFacts DEF IInv, KnownInv
  <2>2. ASSUME NEW p \in Threads PROVE {reg[p].c, reg[p].o} \subseteq made \cup {None}
    <3>1. Known(p) /\ Stacked \subseteq made
      BY <1>1, StackFacts DEF IInv, KnownInv
    <3>2. Pushing(p) => reg[p].c \in made
      BY <1>1 DEF IInv, StackInv, ChunksAccounted, Pushing
    <3>3. QED
      BY <3>1, <3>2 DEF Known
  <2>3. \A p \in Threads : ~At(p, "dangling")
    BY <1>1 DEF IInv, TypeOK, At
  <2>4. QED
    BY <2>1, <2>2, <2>3 DEF NothingDangles
<1>2. QED
  BY <1>1, Invariant, PTL

---------------------------------------------------------------------------
(* The refinement of IndexPool *)

Comes(p) == pc[p] \in {"push", "exchange", "pushed"}
Returns(p) == pc[p] \in {"find", "find_walk", "found", "give"}

(* What the threads other than p carry *)
OthersComing(p) == {Carried(q) : q \in {u \in Threads \ {p} : Comes(u)}}
OthersReturning(p) == {Carried(q) : q \in {u \in Threads \ {p} : Returns(u)}}

LEMMA CarriedParts ==
  ASSUME NEW p \in Threads
  PROVE  /\ Coming = OthersComing(p) \cup IF Comes(p) THEN {Carried(p)} ELSE {}
         /\ Returning = OthersReturning(p) \cup IF Returns(p) THEN {Carried(p)} ELSE {}
  BY DEF Coming, Returning, OthersComing, OthersReturning, Comes, Returns, Carried

LEMMA CarriedPartsNext ==
  ASSUME NEW p \in Threads
  PROVE  /\ Coming' = OthersComing(p)' \cup IF Comes(p)' THEN {Carried(p)'} ELSE {}
         /\ Returning' = OthersReturning(p)' \cup IF Returns(p)' THEN {Carried(p)'} ELSE {}
  BY DEF Coming, Returning, OthersComing, OthersReturning, Comes, Returns, Carried

LEMMA OthersCarryOn ==
  ASSUME TypeOK, NEW p \in Threads, Call(p)
  PROVE  OthersComing(p)' = OthersComing(p) /\ OthersReturning(p)' = OthersReturning(p)
<1>1. \A q \in Threads \ {p} : (Comes(q)' <=> Comes(q)) /\ (Returns(q)' <=> Returns(q))
  BY Unmoved DEF Comes, Returns
<1>2. \A q \in Threads \ {p} : Carried(q)' = Carried(q)
  BY Unmoved DEF Carried
<1>3. /\ {u \in Threads \ {p} : Comes(u)'} = {u \in Threads \ {p} : Comes(u)}
      /\ {u \in Threads \ {p} : Returns(u)'} = {u \in Threads \ {p} : Returns(u)}
  BY <1>1
<1>4. QED
  BY <1>2, <1>3 DEF OthersComing, OthersReturning

(* A block that p carries is nowhere else, and a block that an allocation
   finds is nowhere at all. *)
LEMMA CarriedApart ==
  ASSUME BlockInv, NEW p \in Threads
  PROVE  /\ Carrying(p) => /\ Carried(p) \in Chunks \X Blocks
                           /\ Carried(p) \notin held \cup OthersComing(p) \cup OthersReturning(p)
         /\ \A c \in Chunks : \A b \in free[c] :
              <<c, b>> \notin held \cup OthersComing(p) \cup OthersReturning(p)
         /\ \A x \in held : x \notin OthersComing(p) \cup OthersReturning(p)
<1>1. \A q \in Threads : Comes(q) \/ Returns(q) => Carrying(q)
  BY DEF Comes, Returns, Carrying
<1>2. \A x \in OthersComing(p) \cup OthersReturning(p) :
        \E q \in Threads : q # p /\ Carrying(q) /\ Carried(q) = x
  BY <1>1 DEF OthersComing, OthersReturning
<1>3. ASSUME Carrying(p)
      PROVE  /\ Carried(p) \in Chunks \X Blocks
             /\ Carried(p) \notin held \cup OthersComing(p) \cup OthersReturning(p)
  <2>1. Carried(p) \in Chunks \X Blocks /\ Carried(p) \notin held
    BY <1>3 DEF BlockInv, Carried
  <2>2. \A q \in Threads : q # p /\ Carrying(q) => Carried(q) # Carried(p)
    BY <1>3 DEF BlockInv
  <2>3. QED
    BY <1>2, <2>1, <2>2
<1>4. ASSUME NEW c \in Chunks, NEW b \in free[c]
      PROVE  <<c, b>> \notin held \cup OthersComing(p) \cup OthersReturning(p)
  <2>1. <<c, b>> \notin held
    BY DEF BlockInv
  <2>2. \A q \in Threads : Carrying(q) => Carried(q) # <<c, b>>
    BY DEF BlockInv, Carried
  <2>3. QED
    BY <1>2, <2>1, <2>2
<1>5. \A x \in held : x \notin OthersComing(p) \cup OthersReturning(p)
  BY <1>2 DEF BlockInv
<1>6. QED
  BY <1>3, <1>4, <1>5

LEMMA PoolInit == ASSUME Init PROVE Abstract!Init
<1>1. Coming = {} /\ Returning = {} /\ held = {}
  BY DEF Init, Coming, Returning
<1>2. QED
  BY <1>1 DEF Abstract!Init

LEMMA PoolStutter ==
  ASSUME held' \cup Coming' = held \cup Coming, Returning' = Returning
  PROVE  UNCHANGED Abstract!vars
  BY DEF Abstract!vars

LEMMA PoolStep == ASSUME IInv, IInv', [Next]_vars PROVE [Abstract!Next]_Abstract!vars
<1>1. CASE \E t \in 0..MaxTarget : Grow(t) \/ Shrink(t)
  <2>1. UNCHANGED <<held, pc, reg>>
    BY <1>1 DEF Grow, Shrink
  <2>2. QED
    BY <2>1, PoolStutter DEF Coming, Returning
<1>2. ASSUME NEW p \in Threads, Call(p) PROVE [Abstract!Next]_Abstract!vars
  <2> DEFINE OC == OthersComing(p)
             OR == OthersReturning(p)
             x == Carried(p)
             y == Carried(p)'
  <2> USE DEF At
  <2>1. /\ Coming = OC \cup IF Comes(p) THEN {x} ELSE {}
        /\ Returning = OR \cup IF Returns(p) THEN {x} ELSE {}
        /\ Coming' = OC \cup IF Comes(p)' THEN {y} ELSE {}
        /\ Returning' = OR \cup IF Returns(p)' THEN {y} ELSE {}
    BY <1>2, CarriedParts, CarriedPartsNext, OthersCarryOn DEF IInv
  <2>2. /\ Carrying(p) => x \in Chunks \X Blocks /\ x \notin held \cup OC \cup OR
        /\ \A c \in Chunks : \A b \in free[c] : <<c, b>> \notin held \cup OC \cup OR
        /\ \A z \in held : z \notin OC \cup OR
    BY CarriedApart DEF IInv
  <2>3. Carrying(p)' => y \in Chunks \X Blocks /\ y \notin held' \cup OC \cup OR
    <3>1. \A q \in Threads : q # p => (Carrying(q)' <=> Carrying(q)) /\ Carried(q)' = Carried(q)
      BY <1>2, Unmoved DEF IInv, Carrying, Carried
    <3>2. \A z \in OC \cup OR : \E q \in Threads : q # p /\ Carrying(q) /\ Carried(q) = z
      BY DEF OthersComing, OthersReturning, Comes, Returns, Carrying
    <3>3. ASSUME Carrying(p)'
          PROVE  /\ y \in Chunks \X Blocks /\ y \notin held'
                 /\ \A q \in Threads : q # p /\ Carrying(q)' => Carried(q)' # y
      BY <3>3 DEF IInv, BlockInv, Carried
    <3>4. QED
      BY <3>1, <3>2, <3>3
  <2>4. TypeOK /\ Known(p) /\ StackInv
    BY DEF IInv, KnownInv
  <2> HIDE DEF OC, OR, x, y
  <2>5. ASSUME NEW z \in Chunks \X Blocks, z \notin held \cup Coming \cup Returning,
               held' \cup Coming' = held \cup Coming \cup {z}, Returning' = Returning
        PROVE  [Abstract!Next]_Abstract!vars
    <3>1. Abstract!Take(z)
      BY <2>5 DEF Abstract!Take
    <3>2. QED
      BY <3>1 DEF Abstract!Next
  <2>6. CASE AllocCall(p) \/ Peek(p)
    <3>1. held' = held /\ pc[p] \in {"idle", "peek"} /\ pc'[p] \in {"peek", "try", "new", "walk"}
      BY <2>4, <2>6, Moved DEF AllocCall, Peek, Look
    <3>2. QED
      BY <2>1, <3>1, PoolStutter DEF Comes, Returns
  <2>7. CASE AllocFromHint(p) \/ AllocFromChunk(p)
    <3>1. /\ reg[p].c \in Chunks /\ pc[p] \in {"try", "walk"}
          /\ pc'[p] \in {"idle", "peek", "hint", "new", "walk"}
      BY <2>4, <2>7, Moved, StackFacts DEF AllocFromHint, AllocFromChunk, Known, Pushing, Look
    <3>2. Coming = OC /\ Returning = OR /\ Coming' = OC /\ Returning' = OR
      BY <2>1, <3>1 DEF Comes, Returns
    <3>3. CASE UNCHANGED held
      BY <3>2, <3>3, PoolStutter
    <3>4. CASE TakeFrom(reg[p].c)
      <4>1. PICK b \in free[reg[p].c] : held' = held \cup {<<reg[p].c, b>>}
        BY <3>4 DEF TakeFrom
      <4>2. <<reg[p].c, b>> \in Chunks \X Blocks /\ <<reg[p].c, b>> \notin held \cup OC \cup OR
        BY <2>2, <2>4, <3>1, <4>1 DEF TypeOK
      <4>3. QED
        BY <2>5, <3>2, <4>1, <4>2
    <3>5. QED
      BY <2>7, <3>3, <3>4 DEF AllocFromHint, AllocFromChunk
  <2>8. CASE NewChunk(p)
    <3>1. held' = held /\ pc[p] = "new" /\ pc'[p] = "push"
      BY <2>4, <2>8, Moved DEF NewChunk
    <3>2. Coming = OC /\ Returning = OR /\ Coming' = OC \cup {y} /\ Returning' = OR
      BY <2>1, <3>1 DEF Comes, Returns
    <3>3. y \in Chunks \X Blocks /\ y \notin held \cup OC \cup OR
      BY <2>3, <3>1 DEF Carrying
    <3>4. QED
      BY <2>5, <3>1, <3>2, <3>3
  <2>9. CASE PushLoad(p) \/ PushExchange(p)
    <3>1. /\ held' = held /\ pc[p] \in {"push", "exchange"}
          /\ pc'[p] \in {"push", "exchange", "pushed"}
          /\ \E o : reg'[p] = [reg[p] EXCEPT !.o = o] \/ reg'[p] = reg[p]
      BY <2>4, <2>9, Moved DEF PushLoad, PushExchange, Exchanged
    <3>2. x = y
      BY <2>4, <3>1, RegType DEF x, y, Carried
    <3>3. QED
      BY <2>1, <3>1, <3>2, PoolStutter DEF Comes, Returns
  <2>10. CASE AllocReturn(p)
    <3>1. /\ pc[p] \in {"hint", "pushed"} /\ pc'[p] = "idle"
          /\ held' = IF pc[p] = "pushed" THEN held \cup {x} ELSE held
      BY <2>4, <2>10, Moved DEF AllocReturn, x, Carried
    <3>2. QED
      BY <2>1, <3>1, PoolStutter DEF Comes, Returns
  <2>11. ASSUME NEW z \in held, DeallocCall(p, z) PROVE [Abstract!Next]_Abstract!vars
    <3>1. /\ held' = held \ {z} /\ pc[p] = "idle" /\ pc'[p] \in {"found", "find"}
          /\ reg'[p] = [NoReg EXCEPT !.c = z[1], !.b = z[2]]
      BY <2>4, <2>11, Moved DEF DeallocCall
    <3>2. z \in Chunks \X Blocks /\ z = <<z[1], z[2]>>
      BY <2>4 DEF TypeOK
    <3>3. y = z
      BY <3>1, <3>2 DEF NoReg, y, Carried
    <3>4. Coming = OC /\ Returning = OR /\ Coming' = OC /\ Returning' = OR \cup {z}
      BY <2>1, <3>1, <3>3 DEF Comes, Returns
    <3>5. z \notin OC \cup OR
      BY <2>2
    <3>6. Abstract!Return(z)
      BY <3>1, <3>2, <3>4, <3>5 DEF Abstract!Return
    <3>7. QED
      BY <3>2, <3>6 DEF Abstract!Next
  <2>12. CASE FindPeek(p) \/ FindWalk(p) \/ StoreHint(p)
    <3>1. /\ held' = held /\ pc[p] \in {"find", "find_walk", "found"}
          /\ \E l, o : Go(p, l, reg[p]) \/ Go(p, l, [reg[p] EXCEPT !.o = o])
      BY <2>12 DEF FindPeek, FindWalk, StoreHint
    <3>2. \E o : reg'[p] = [reg[p] EXCEPT !.o = o] \/ reg'[p] = reg[p]
      BY <2>4, <3>1, Moved
    <3>3. x = y
      BY <2>4, <3>2, RegType DEF x, y, Carried
    <3>4. pc'[p] \in {"find_walk", "found", "give"}
      <4>1. pc'[p] \in {"find_walk", "found", "give", "dangling"}
        BY <2>4, <2>12, Moved DEF FindPeek, FindWalk, StoreHint
      <4>2. pc'[p] # "dangling"
        BY DEF IInv, TypeOK
      <4>3. QED
        BY <4>1, <4>2
    <3>5. QED
      BY <2>1, <3>1, <3>3, <3>4, PoolStutter DEF Comes, Returns
  <2>13. CASE Give(p)
    <3>1. held' = held /\ pc[p] = "give" /\ pc'[p] = "idle"
      BY <2>4, <2>13, Moved DEF Give
    <3>2. Coming = OC /\ Returning = OR \cup {x} /\ Coming' = OC /\ Returning' = OR
      BY <2>1, <3>1 DEF Comes, Returns
    <3>3. x \in Chunks \X Blocks /\ x \notin held \cup OC \cup OR
      BY <2>2, <3>1 DEF Carrying
    <3>4. Abstract!Give(x)
      BY <3>1, <3>2, <3>3 DEF Abstract!Give
    <3>5. QED
      BY <3>3, <3>4 DEF Abstract!Next
  <2>14. QED
    BY <1>2, <2>6, <2>7, <2>8, <2>9, <2>10, <2>11, <2>12, <2>13 DEF Call, Step
<1>3. CASE UNCHANGED vars
  BY <1>3, PoolStutter DEF vars, Coming, Returning
<1>4. QED
  BY <1>1, <1>2, <1>3 DEF Next, Call

(* The growable pool keeps the promise of a pool: every block is free, with
   one caller or on its way back, whatever grows and shrinks meanwhile. *)
THEOREM PoolImplements == Spec => ImplementsPool
<1>1. Init => Abstract!Init
  BY PoolInit
<1>2. IInv /\ IInv' /\ [Next]_vars => [Abstract!Next]_Abstract!vars
  BY PoolStep
<1>3. Spec => []IInv
  BY Invariant
<1>4. QED
  BY <1>1, <1>2, <1>3, PTL DEF Spec, ImplementsPool, Abstract!Spec
==============================================================================
