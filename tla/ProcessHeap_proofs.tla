--------------------------- MODULE ProcessHeap_proofs ---------------------------
(***************************************************************************)
(* Safety of the process heap for any threads, names and constructors: a   *)
(* name has one object, find_or_allocate() returns none that is not built, *)
(* and an exit_thread() that returns leaves none of the thread's objects.  *)
(***************************************************************************)
EXTENDS ProcessHeap, SequenceTheorems, TLAPS

USE ProcessHeapAssumption

Known(h) == Pointers[h] # None

(* The objects and the entries are the same, one to one. *)
EntryInv ==
  /\ \A h \in Hashes : Known(h) => object[Pointers[h].pointer] \in {"allocated", "built"}
  /\ \A h, g \in Hashes : Known(h) /\ Known(g) /\ Pointers[h].pointer = Pointers[g].pointer
                            => h = g
  /\ \A p \in Objects : object[p] \in {"allocated", "built"} =>
       \E h \in Hashes : Known(h) /\ Pointers[h].pointer = p
  /\ \A h \in Hashes : Known(h) /\ Pointers[h].mutex = None =>
       object[Pointers[h].pointer] = "built"

(* A thread has calls exactly when it is in one. *)
CallInv ==
  \A t \in Threads :
    /\ stack[t] = <<>> <=> pc[t] \in {"idle", "exit", "exited", "threw"}
    /\ \A c \in 1..Len(stack[t]) : stack[t][c].singleton => stack[t][c].name \notin PerThread

(* The calls whose object is entered and not yet unlocked *)
Open(t, c) == c < Len(stack[t]) \/ pc[t] \in {"construct", "relock"}
HashOf(t, c) == Hash(stack[t][c].name, t)

(* Such a call holds the lock of its entry, nobody else holds one, and only
   the object that it constructs is missing. *)
LockInv ==
  /\ \A t \in Threads : \A c \in 1..Len(stack[t]) : Open(t, c) =>
       /\ Known(HashOf(t, c)) /\ Pointers[HashOf(t, c)].mutex = t
       /\ Pointers[HashOf(t, c)].pointer = stack[t][c].pointer
  /\ \A h \in Hashes, t \in Threads : Known(h) /\ Pointers[h].mutex = t =>
       \E c \in 1..Len(stack[t]) : HashOf(t, c) = h
  /\ \A t \in Threads : \A c, d \in 1..Len(stack[t]) :
       Open(t, c) /\ Open(t, d) /\ HashOf(t, c) = HashOf(t, d) => c = d
  /\ \A t \in Threads : pc[t] = "relock" => object[stack[t][Len(stack[t])].pointer] = "built"

(* A thread that waits for an entry holds Mutex, so the entry stays. *)
MutexInv ==
  \A t \in Threads : pc[t] = "shared" =>
    Mutex = t /\ Known(HashOf(t, Len(stack[t])))

(* The static pointer of a singleton is that of its entry, for good. *)
SingletonInv ==
  \A n \in Names : sInstance[n] # None =>
    /\ n \notin PerThread /\ <<n>> \in Hashes
    /\ Known(<<n>>) /\ Pointers[<<n>>].pointer = sInstance[n]

(* Nobody locks this object any more. *)
Unlocked(p) ==
  /\ object[p] # "unallocated"
  /\ \A h \in Hashes : Known(h) /\ Pointers[h].pointer = p => Pointers[h].mutex = None

(* What the program may free, and what an exiting thread frees: all of its
   objects and no other. *)
GotInv ==
  \A t \in Threads : \A p \in got[t] :
    Unlocked(p) \/ \E n \in Names : sInstance[n] = p

ExitInv ==
  /\ \A t \in Threads : pc[t] = "exit" => \A p \in doomed[t] :
       /\ Unlocked(p)
       /\ \A h \in Hashes : Known(h) /\ Pointers[h].pointer = p =>
            \E n \in PerThread : h = Hash(n, t)
  /\ \A t \in Threads : pc[t] = "exit" => \A n \in PerThread :
       Known(Hash(n, t)) => Pointers[Hash(n, t)].pointer \in doomed[t]
  /\ ExitLeavesNothing

IInv == /\ TypeOK /\ EntryInv /\ CallInv /\ LockInv /\ MutexInv
        /\ SingletonInv /\ GotInv /\ ExitInv

-----------------------------------------------------------------------------
(* Names, hashes and the stacks of calls                                   *)

(* Two names, or two threads with objects of their own, share no hash. *)
LEMMA HashIsOne ==
  ASSUME NEW n \in Names, NEW m \in Names, NEW t \in Threads, NEW u \in Threads,
         Hash(n, t) = Hash(m, u)
  PROVE  n = m /\ (n \in PerThread => t = u)
<1>1. CASE n \in PerThread /\ m \in PerThread
  BY <1>1 DEF Hash
<1>2. CASE n \notin PerThread /\ m \notin PerThread
  BY <1>2 DEF Hash
<1>3. <<n>> # <<m, u>> /\ <<n, t>> # <<m>>
  <2>1. Len(<<n>>) = 1 /\ Len(<<m, u>>) = 2 /\ Len(<<n, t>>) = 2 /\ Len(<<m>>) = 1
    OBVIOUS
  <2> QED BY <2>1
<1>4. CASE n \in PerThread /\ m \notin PerThread
  BY <1>3, <1>4 DEF Hash
<1>5. CASE n \notin PerThread /\ m \in PerThread
  BY <1>3, <1>5 DEF Hash
<1> QED BY <1>1, <1>2, <1>4, <1>5

LEMMA HashIsHash == \A n \in Names, t \in Threads : Hash(n, t) \in Hashes
BY DEF Hashes

(* The hash of a shared name does not depend on the thread. *)
LEMMA SharedHash ==
  /\ \A n \in Names \ PerThread, t \in Threads : Hash(n, t) = <<n>>
  /\ \A n \in PerThread, m \in Names, t \in Threads : Hash(n, t) # <<m>>
<1>1. \A n \in Names \ PerThread, t \in Threads : Hash(n, t) = <<n>>
  BY DEF Hash
<1>2. ASSUME NEW n \in PerThread, NEW m \in Names, NEW t \in Threads
      PROVE  Hash(n, t) # <<m>>
  <2>1. Len(<<n, t>>) = 2 /\ Len(<<m>>) = 1
    OBVIOUS
  <2> QED BY <2>1 DEF Hash
<1> QED BY <1>1, <1>2

LEMMA Pushed ==
  ASSUME NEW s \in Seq(Frame), NEW f \in Frame
  PROVE  /\ Append(s, f) \in Seq(Frame)
         /\ Len(Append(s, f)) = Len(s) + 1 /\ Append(s, f)[Len(s) + 1] = f
         /\ \A c \in 1..Len(s) : Append(s, f)[c] = s[c]
BY AppendProperties

(* The calls of a stack are the same but for what they still have to do. *)
Alike(r, s) ==
  /\ Len(r) = Len(s)
  /\ \A c \in 1..Len(s) : /\ r[c].name = s[c].name /\ r[c].pointer = s[c].pointer
                          /\ r[c].singleton = s[c].singleton

LEMMA ObtainedAlike ==
  ASSUME NEW s \in Seq(Frame), NEW n \in Names
  PROVE  Obtained(s, n) \in Seq(Frame) /\ Alike(Obtained(s, n), s)
<1>1. CASE s = <<>>
  BY <1>1 DEF Obtained, Alike
<1>2. CASE s # <<>>
  <2> DEFINE f == [s[Len(s)] EXCEPT !.todo = @ \ {n}]
  <2>1. Len(s) \in 1..Len(s) /\ s[Len(s)] \in Frame
    BY <1>2, EmptySeq, LenProperties, ElementOfSeq
  <2>2. f \in Frame /\ f.name = s[Len(s)].name /\ f.pointer = s[Len(s)].pointer
        /\ f.singleton = s[Len(s)].singleton
    BY <2>1 DEF Frame
  <2>3. Obtained(s, n) = [s EXCEPT ![Len(s)] = f]
    BY <1>2 DEF Obtained
  <2> HIDE DEF f
  <2>4. [s EXCEPT ![Len(s)] = f] \in Seq(Frame) /\ Len([s EXCEPT ![Len(s)] = f]) = Len(s)
        /\ \A c \in 1..Len(s) : [s EXCEPT ![Len(s)] = f][c] = IF c = Len(s) THEN f ELSE s[c]
    BY <2>1, <2>2, ExceptSeq
  <2> QED BY <2>2, <2>3, <2>4 DEF Alike
<1> QED BY <1>1, <1>2

LEMMA Prefix ==
  ASSUME NEW s \in Seq(Frame), NEW k \in Nat, k < Len(s)
  PROVE  /\ SubSeq(s, 1, k) \in Seq(Frame) /\ Len(SubSeq(s, 1, k)) = k
         /\ \A i \in 1..k : SubSeq(s, 1, k)[i] = s[i]
<1>1. SubSeq(s, 1, k) \in Seq(Frame)
  BY SMT
<1>2. Len(SubSeq(s, 1, k)) = k
  BY SMT
<1>3. \A i \in 1..k : SubSeq(s, 1, k)[i] = s[i]
  BY SMT
<1> QED BY <1>1, <1>2, <1>3

LEMMA Popped ==
  ASSUME NEW s \in Seq(Frame), s # <<>>, NEW n \in Names
  PROVE  /\ Obtained(Front(s), n) \in Seq(Frame)
         /\ Len(s) \in Nat \ {0} /\ s[Len(s)] \in Frame /\ Last(s) = s[Len(s)]
         /\ Len(Obtained(Front(s), n)) = Len(s) - 1
         /\ \A c \in 1..(Len(s) - 1) :
              /\ Obtained(Front(s), n)[c].name = s[c].name
              /\ Obtained(Front(s), n)[c].pointer = s[c].pointer
              /\ Obtained(Front(s), n)[c].singleton = s[c].singleton
<1>1. Len(s) \in Nat \ {0} /\ s[Len(s)] \in Frame
  BY EmptySeq, LenProperties, ElementOfSeq
<1>2. Front(s) \in Seq(Frame) /\ Len(Front(s)) = Len(s) - 1
      /\ \A c \in 1..(Len(s) - 1) : Front(s)[c] = s[c]
  <2>1. Len(s) - 1 \in Nat /\ Len(s) - 1 < Len(s)
    BY <1>1
  <2> QED BY <2>1, Prefix DEF Front
<1>3. Obtained(Front(s), n) \in Seq(Frame) /\ Alike(Obtained(Front(s), n), Front(s))
  BY <1>2, ObtainedAlike
<1> QED BY <1>1, <1>2, <1>3 DEF Alike, Last

Wrote(s, p, T) == [s EXCEPT ![Len(s)] = [@ EXCEPT !.pointer = p, !.todo = T]]

LEMMA Written ==
  ASSUME NEW s \in Seq(Frame), s # <<>>, NEW p \in Objects, NEW T \in SUBSET Names
  PROVE  /\ Wrote(s, p, T) \in Seq(Frame)
         /\ Len(Wrote(s, p, T)) = Len(s) /\ Len(s) \in Nat \ {0}
         /\ Wrote(s, p, T)[Len(s)].pointer = p
         /\ \A c \in 1..Len(s) : /\ Wrote(s, p, T)[c].name = s[c].name
                                /\ Wrote(s, p, T)[c].singleton = s[c].singleton
         /\ \A c \in 1..Len(s) : c # Len(s) => Wrote(s, p, T)[c].pointer = s[c].pointer
<1> DEFINE f == [s[Len(s)] EXCEPT !.pointer = p, !.todo = T]
<1>1. Len(s) \in 1..Len(s) /\ Len(s) \in Nat \ {0} /\ s[Len(s)] \in Frame
  BY EmptySeq, LenProperties, ElementOfSeq
<1>2. f \in Frame /\ f.name = s[Len(s)].name /\ f.pointer = p
      /\ f.singleton = s[Len(s)].singleton
  BY <1>1 DEF Frame
<1>3. Wrote(s, p, T) = [s EXCEPT ![Len(s)] = f]
  BY DEF Wrote
<1> HIDE DEF f
<1>4. Wrote(s, p, T) \in Seq(Frame) /\ Len(Wrote(s, p, T)) = Len(s)
      /\ \A c \in 1..Len(s) : Wrote(s, p, T)[c] = IF c = Len(s) THEN f ELSE s[c]
  BY <1>1, <1>2, <1>3, ExceptSeq
<1> QED BY <1>1, <1>2, <1>4

-----------------------------------------------------------------------------
(* What the steps have in common                                           *)

LEMMA TopFacts ==
  ASSUME TypeOK, CallInv, NEW t \in Threads,
         pc[t] \in {"lock", "shared", "construct", "relock"}
  PROVE  /\ stack[t] \in Seq(Frame) /\ stack[t] # <<>> /\ Len(stack[t]) \in Nat \ {0}
         /\ Top(t) = stack[t][Len(stack[t])] /\ Top(t) \in Frame
         /\ Top(t).name \in Names /\ HashOf(t, Len(stack[t])) \in Hashes
         /\ HashOf(t, Len(stack[t])) = Hash(Top(t).name, t)
         /\ Top(t).singleton => Top(t).name \notin PerThread
<1>1. stack[t] \in Seq(Frame) /\ stack[t] # <<>>
  BY DEF TypeOK, CallInv
<1>2. Len(stack[t]) \in Nat \ {0} /\ stack[t][Len(stack[t])] \in Frame
  BY <1>1, EmptySeq, LenProperties, ElementOfSeq
<1>3. Top(t) = stack[t][Len(stack[t])]
  BY DEF Top, Last
<1>4. Top(t).name \in Names
  BY <1>2, <1>3 DEF Frame
<1>5. Top(t).singleton => Top(t).name \notin PerThread
  BY <1>2, <1>3 DEF CallInv
<1> QED BY <1>1, <1>2, <1>3, <1>4, <1>5, HashIsHash DEF HashOf

LEMMA FrameFacts ==
  ASSUME TypeOK, NEW t \in Threads, NEW c \in 1..Len(stack[t])
  PROVE  /\ Len(stack[t]) \in Nat /\ stack[t][c] \in Frame
         /\ stack[t][c].name \in Names /\ HashOf(t, c) \in Hashes
<1>1. stack[t] \in Seq(Frame) /\ Len(stack[t]) \in Nat
  BY LenProperties DEF TypeOK
<1>2. stack[t][c] \in Frame
  BY <1>1, ElementOfSeq
<1> QED BY <1>1, <1>2, HashIsHash DEF Frame, HashOf

(* The entries and their locks stay, and no call is opened. *)
LEMMA LockKept ==
  ASSUME LockInv, Pointers' = Pointers,
         \A u \in Threads : \A c \in 1..Len(stack'[u]) : Open(u, c)' =>
           /\ c \in 1..Len(stack[u]) /\ Open(u, c)
           /\ stack'[u][c].name = stack[u][c].name
           /\ stack'[u][c].pointer = stack[u][c].pointer,
         \A u \in Threads : \A c \in 1..Len(stack[u]) :
           c \in 1..Len(stack'[u]) /\ stack'[u][c].name = stack[u][c].name,
         TypeOK,
         \A u \in Threads : pc'[u] = "relock" =>
           object'[stack'[u][Len(stack'[u])].pointer] = "built"
  PROVE  LockInv'
<1>1. \A u \in Threads : \A c \in 1..Len(stack'[u]) : Open(u, c)' =>
        HashOf(u, c)' = HashOf(u, c)
  BY DEF HashOf
<1>2. \A u \in Threads : \A c \in 1..Len(stack[u]) : HashOf(u, c)' = HashOf(u, c)
  BY DEF HashOf
<1>3. \A u \in Threads : \A c \in 1..Len(stack'[u]) : Open(u, c)' =>
        /\ Known(HashOf(u, c))' /\ Pointers'[HashOf(u, c)'].mutex = u
        /\ Pointers'[HashOf(u, c)'].pointer = stack'[u][c].pointer
  BY <1>1 DEF LockInv, Known
<1>4. ASSUME NEW h \in Hashes, NEW u \in Threads, Known(h)', Pointers'[h].mutex = u
      PROVE  \E c \in 1..Len(stack'[u]) : HashOf(u, c)' = h
  <2>1. PICK c \in 1..Len(stack[u]) : HashOf(u, c) = h
    BY <1>4 DEF LockInv, Known
  <2> QED BY <1>2, <2>1
<1>5. \A u \in Threads : \A c, d \in 1..Len(stack'[u]) :
        Open(u, c)' /\ Open(u, d)' /\ HashOf(u, c)' = HashOf(u, d)' => c = d
  BY <1>1 DEF LockInv
<1>6. \A u \in Threads : pc'[u] = "relock" =>
        object'[stack'[u][Len(stack'[u])].pointer] = "built"
  OBVIOUS
<1> QED BY <1>3, <1>4, <1>5, <1>6, Zenon DEF LockInv

(* An open call has locked its entry, so another thread's entry is not its own. *)
LEMMA OpenKnown ==
  ASSUME TypeOK, LockInv, NEW t \in Threads, NEW c \in 1..Len(stack[t]), Open(t, c)
  PROVE  /\ HashOf(t, c) \in Hashes /\ Known(HashOf(t, c))
         /\ Pointers[HashOf(t, c)].mutex = t /\ t # None
         /\ Pointers[HashOf(t, c)].pointer = stack[t][c].pointer
BY FrameFacts DEF LockInv

-----------------------------------------------------------------------------
(* find_or_allocate()                                                      *)

LEMMA EnterStep ==
  ASSUME IInv, NEW t \in Threads, NEW name \in Names, NEW singleton \in BOOLEAN,
         singleton => name \notin PerThread, Calls(t, name), Enter(t, name, singleton)
  PROVE  IInv'
<1> DEFINE f == [name |-> name, pointer |-> None, todo |-> {}, singleton |-> singleton]
           n == Len(stack[t])
<1>a. TypeOK /\ EntryInv /\ CallInv /\ LockInv /\ MutexInv /\ SingletonInv /\ GotInv /\ ExitInv
  BY DEF IInv
<1>1. f \in Frame /\ f.name = name /\ f.singleton = singleton
  BY DEF Frame
<1>2. stack[t] \in Seq(Frame) /\ n \in Nat /\ stack' = [stack EXCEPT ![t] = Append(@, f)]
  BY <1>a, LenProperties DEF TypeOK, Enter
<1> HIDE DEF f
<1>3. /\ Append(stack[t], f) \in Seq(Frame)
      /\ Len(Append(stack[t], f)) = n + 1 /\ Append(stack[t], f)[n + 1] = f
      /\ \A c \in 1..n : Append(stack[t], f)[c] = stack[t][c]
  BY <1>1, <1>2, Pushed
<1>4. stack' \in [Threads -> Seq(Frame)] /\ stack'[t] = Append(stack[t], f)
      /\ \A u \in Threads : u # t => stack'[u] = stack[u]
  BY <1>a, <1>2, <1>3 DEF TypeOK
<1>5. pc' = [pc EXCEPT ![t] = "lock"] /\ UNCHANGED <<heap, doomed, object, got>>
  BY DEF Enter, Goto
<1>6. pc' \in [Threads -> Labels] /\ pc'[t] = "lock" /\ \A u \in Threads : u # t => pc'[u] = pc[u]
  BY <1>a, <1>5 DEF TypeOK, Labels
<1>7. pc[t] \in {"idle", "construct"} /\ (pc[t] = "idle" => n = 0)
  BY <1>a, EmptySeq DEF Calls, At, CallInv
<1>8. TypeOK'
  BY <1>a, <1>4, <1>5, <1>6 DEF TypeOK, heap
<1>9. EntryInv'
  BY <1>a, <1>5 DEF EntryInv, Known, heap
<1>10. CallInv'
  <2>1. Append(stack[t], f) # <<>>
    BY <1>2, <1>3, EmptySeq
  <2>2. \A c \in 1..(n + 1) : Append(stack[t], f)[c].singleton =>
          Append(stack[t], f)[c].name \notin PerThread
    <3> TAKE c \in 1..(n + 1)
    <3>1. CASE c = n + 1
      BY <1>1, <1>3, <3>1
    <3>2. CASE c # n + 1
      BY <1>a, <1>2, <1>3, <3>2 DEF CallInv
    <3> QED BY <3>1, <3>2
  <2>3. ASSUME NEW u \in Threads
        PROVE  /\ stack'[u] = <<>> <=> pc'[u] \in {"idle", "exit", "exited", "threw"}
               /\ \A c \in 1..Len(stack'[u]) : stack'[u][c].singleton =>
                    stack'[u][c].name \notin PerThread
    <3>1. CASE u = t
      BY <1>3, <1>4, <1>6, <2>1, <2>2, <3>1
    <3>2. CASE u # t
      BY <1>a, <1>4, <1>6, <3>2 DEF CallInv
    <3> QED BY <3>1, <3>2
  <2> QED BY <2>3 DEF CallInv
<1>11. LockInv'
  <2>1. ASSUME NEW u \in Threads, NEW c \in 1..Len(stack'[u]), Open(u, c)'
        PROVE  c \in 1..Len(stack[u]) /\ Open(u, c) /\ stack'[u][c] = stack[u][c]
    <3>1. CASE u = t
      BY <1>2, <1>3, <1>4, <1>6, <1>7, <2>1, <3>1 DEF Open
    <3>2. CASE u # t
      BY <1>4, <1>6, <2>1, <3>2 DEF Open
    <3> QED BY <3>1, <3>2
  <2>2. ASSUME NEW u \in Threads, NEW c \in 1..Len(stack[u])
        PROVE  c \in 1..Len(stack'[u]) /\ stack'[u][c] = stack[u][c]
    BY <1>2, <1>3, <1>4
  <2>3. \A u \in Threads : pc'[u] = "relock" =>
          object'[stack'[u][Len(stack'[u])].pointer] = "built"
    BY <1>a, <1>4, <1>5, <1>6 DEF LockInv
  <2>4. Pointers' = Pointers
    BY <1>5 DEF heap
  <2> QED BY <1>a, <2>1, <2>2, <2>3, <2>4, LockKept
<1>12. MutexInv'
  BY <1>a, <1>4, <1>5, <1>6 DEF MutexInv, Known, HashOf, heap
<1>13. SingletonInv'
  BY <1>a, <1>5 DEF SingletonInv, Known, heap
<1>14. GotInv'
  BY <1>a, <1>5 DEF GotInv, Unlocked, Known, heap
<1>15. ExitInv'
  BY <1>a, <1>5, <1>6 DEF ExitInv, ExitLeavesNothing, At, Unlocked, Known, heap
<1> QED BY <1>8, <1>9, <1>10, <1>11, <1>12, <1>13, <1>14, <1>15 DEF IInv

LEMMA AllocateStep ==
  ASSUME IInv, NEW t \in Threads, Allocate(t)
  PROVE  IInv'
<1>a. TypeOK /\ EntryInv /\ CallInv /\ LockInv /\ MutexInv /\ SingletonInv /\ GotInv /\ ExitInv
  BY DEF IInv
<1>t. pc[t] \in {"lock", "shared", "construct", "relock"}
  BY DEF Allocate, At
<1>p. PICK n \in Nat \ {0}, name \in Names, h \in Hashes :
        n = Len(stack[t]) /\ name = Top(t).name /\ h = HashOf(t, n)
  BY <1>a, <1>t, TopFacts
<1>b. /\ stack[t] \in Seq(Frame) /\ stack[t] # <<>> /\ n = Len(stack[t]) /\ h = HashOf(t, n)
      /\ Top(t) = stack[t][n] /\ Top(t) \in Frame /\ name = Top(t).name
      /\ h = Hash(name, t) /\ (Top(t).singleton => name \notin PerThread)
  BY <1>a, <1>t, <1>p, TopFacts
<1>c. pc[t] = "lock" /\ ~Known(h) /\ Mutex = None
  BY <1>b DEF Allocate, At, Entry, Known
<1>d. PICK p \in Objects : Fresh(p) /\ NewEntry(t, p)
  BY DEF Allocate
<1>e. object[p] = "unallocated" /\ p # None
  BY <1>d DEF Fresh
<1> DEFINE e == [pointer |-> p, init |-> t, mutex |-> t]
<1>f. e \in Entries /\ e # None /\ e.pointer = p /\ e.mutex = t
  BY DEF Entries
<1>g. Pointers' = [Pointers EXCEPT ![h] = e]
  BY <1>b, <1>d DEF NewEntry
<1> HIDE DEF e
<1>1. /\ Pointers' \in [Hashes -> {None} \cup Entries] /\ Pointers'[h] = e /\ Known(h)'
      /\ \A g \in Hashes : g # h => Pointers'[g] = Pointers[g] /\ (Known(g)' <=> Known(g))
  BY <1>a, <1>b, <1>f, <1>g DEF TypeOK, Known
<1>2. /\ object' = [object EXCEPT ![p] = "allocated"] /\ object'[p] = "allocated"
      /\ \A q \in Objects : q # p => object'[q] = object[q]
      /\ object' \in [Objects -> {"unallocated", "allocated", "built", "destroyed"}]
  BY <1>a, <1>d DEF NewEntry, TypeOK
<1>3. /\ stack' \in [Threads -> Seq(Frame)]
      /\ \A u \in Threads : u # t => stack'[u] = stack[u]
      /\ Len(stack'[t]) = n /\ stack'[t][n].pointer = p
      /\ \A c \in 1..n : /\ stack'[t][c].name = stack[t][c].name
                         /\ stack'[t][c].singleton = stack[t][c].singleton
      /\ \A c \in 1..n : c # n => stack'[t][c].pointer = stack[t][c].pointer
  <2>1. stack' = [stack EXCEPT ![t] = Wrote(stack[t], p, Members[name])]
    BY <1>b, <1>d DEF NewEntry, Wrote
  <2>2. Members[name] \in SUBSET Names
    OBVIOUS
  <2>3. PICK r \in Seq(Frame) :
          /\ r = Wrote(stack[t], p, Members[name]) /\ Len(r) = n /\ r[n].pointer = p
          /\ \A c \in 1..n : r[c].name = stack[t][c].name /\ r[c].singleton = stack[t][c].singleton
          /\ \A c \in 1..n : c # n => r[c].pointer = stack[t][c].pointer
    BY <1>b, <2>2, Written
  <2> QED BY <1>a, <2>1, <2>3 DEF TypeOK
<1>4. /\ pc' = [pc EXCEPT ![t] = "construct"] /\ UNCHANGED <<Mutex, doomed, got>>
      /\ pc' \in [Threads -> Labels] /\ pc'[t] = "construct"
      /\ \A u \in Threads : u # t => pc'[u] = pc[u]
  BY <1>a DEF Allocate, Goto, TypeOK, Labels
<1>5. /\ sInstance' \in [Names -> Objects \cup {None}]
      /\ \A m \in Names : sInstance'[m] # sInstance[m] =>
           m = name /\ Top(t).singleton /\ sInstance'[m] = p
  <2>1. CASE Top(t).singleton
    <3>1. sInstance' = [sInstance EXCEPT ![name] = p]
      BY <1>b, <1>d, <2>1 DEF NewEntry
    <3> QED BY <1>a, <2>1, <3>1 DEF TypeOK
  <2>2. CASE ~Top(t).singleton
    <3>1. sInstance' = sInstance
      BY <1>d, <2>2 DEF NewEntry
    <3> QED BY <1>a, <3>1 DEF TypeOK
  <2> QED BY <2>1, <2>2
<1>6. TypeOK'
  BY <1>a, <1>1, <1>2, <1>3, <1>4, <1>5 DEF TypeOK
<1>7. EntryInv'
  <2>1. \A g \in Hashes : g # h /\ Known(g) => Pointers[g].pointer \in Objects /\ Pointers[g].pointer # p
    BY <1>a, <1>e DEF EntryInv, TypeOK, Known, Entries
  <2>2. \A g \in Hashes : Known(g)' => object'[Pointers'[g].pointer] \in {"allocated", "built"}
    <3> TAKE g \in Hashes
    <3>1. CASE g = h
      BY <1>1, <1>2, <1>f, <3>1
    <3>2. CASE g # h
      BY <1>a, <1>1, <1>2, <2>1, <3>2 DEF EntryInv
    <3> QED BY <3>1, <3>2
  <2>3. \A g, k \in Hashes : Known(g)' /\ Known(k)' /\ Pointers'[g].pointer = Pointers'[k].pointer
          => g = k
    BY <1>a, <1>1, <1>f, <2>1 DEF EntryInv
  <2>4. ASSUME NEW q \in Objects, object'[q] \in {"allocated", "built"}
        PROVE  \E g \in Hashes : Known(g)' /\ Pointers'[g].pointer = q
    <3>1. CASE q = p
      BY <1>1, <1>b, <1>f, <3>1
    <3>2. CASE q # p
      <4>1. PICK g \in Hashes : Known(g) /\ Pointers[g].pointer = q
        BY <1>a, <1>2, <2>4, <3>2 DEF EntryInv
      <4>2. g # h
        BY <1>c, <4>1
      <4> QED BY <1>1, <4>1, <4>2
    <3> QED BY <3>1, <3>2
  <2>5. \A g \in Hashes : Known(g)' /\ Pointers'[g].mutex = None =>
          object'[Pointers'[g].pointer] = "built"
    <3> TAKE g \in Hashes
    <3>1. CASE g = h
      BY <1>1, <1>f, <3>1
    <3>2. CASE g # h
      BY <1>a, <1>1, <1>2, <2>1, <3>2 DEF EntryInv
    <3> QED BY <3>1, <3>2
  <2> QED BY <2>2, <2>3, <2>4, <2>5 DEF EntryInv
<1>8. CallInv'
  <2>1. ASSUME NEW u \in Threads
        PROVE  /\ stack'[u] = <<>> <=> pc'[u] \in {"idle", "exit", "exited", "threw"}
               /\ \A c \in 1..Len(stack'[u]) : stack'[u][c].singleton =>
                    stack'[u][c].name \notin PerThread
    <3>1. CASE u = t
      <4>1. stack'[t] # <<>>
        BY <1>3, <1>b, EmptySeq
      <4>2. \A c \in 1..n : stack[t][c].singleton => stack[t][c].name \notin PerThread
        BY <1>a, <1>b DEF CallInv
      <4> QED BY <1>3, <1>4, <3>1, <4>1, <4>2
    <3>2. CASE u # t
      BY <1>a, <1>3, <1>4, <3>2 DEF CallInv
    <3> QED BY <3>1, <3>2
  <2> QED BY <2>1 DEF CallInv
<1>9. LockInv'
  <2>1. \A u \in Threads : \A c \in 1..Len(stack[u]) :
          c \in 1..Len(stack'[u]) /\ HashOf(u, c)' = HashOf(u, c)
    BY <1>3, <1>b DEF HashOf
  <2>2. \A u \in Threads : \A c \in 1..Len(stack'[u]) :
          c \in 1..Len(stack[u]) /\ HashOf(u, c)' = HashOf(u, c)
    BY <1>3, <1>b DEF HashOf
  <2>3. ASSUME NEW u \in Threads, NEW c \in 1..Len(stack'[u]), Open(u, c)', ~(u = t /\ c = n)
        PROVE  /\ Open(u, c) /\ HashOf(u, c) # h /\ c \in 1..Len(stack[u])
               /\ HashOf(u, c) \in Hashes /\ Known(HashOf(u, c))
               /\ Pointers[HashOf(u, c)].mutex = u
               /\ Pointers[HashOf(u, c)].pointer = stack'[u][c].pointer
    <3>1. c \in 1..Len(stack[u])
      BY <2>2
    <3>2. Open(u, c)
      <4>1. CASE u = t
        BY <1>3, <1>b, <2>3, <3>1, <4>1 DEF Open
      <4>2. CASE u # t
        BY <1>3, <1>4, <2>3, <4>2 DEF Open
      <4> QED BY <4>1, <4>2
    <3>3. stack'[u][c].pointer = stack[u][c].pointer
      BY <1>3, <1>b, <2>3, <3>1
    <3> QED BY <1>a, <1>c, <3>1, <3>2, <3>3, OpenKnown
  <2>4. h = HashOf(t, n) /\ n \in 1..Len(stack[t])
    BY <1>b
  <2>5. ASSUME NEW u \in Threads, NEW c \in 1..Len(stack'[u]), Open(u, c)'
        PROVE  /\ Known(HashOf(u, c))' /\ Pointers'[HashOf(u, c)'].mutex = u
               /\ Pointers'[HashOf(u, c)'].pointer = stack'[u][c].pointer
    <3>1. CASE u = t /\ c = n
      <4>1. HashOf(u, c)' = h
        BY <2>1, <2>4, <3>1
      <4>2. Pointers'[h] # None /\ Pointers'[h].mutex = t /\ Pointers'[h].pointer = stack'[t][n].pointer
        BY <1>1, <1>3, <1>f DEF Known
      <4> QED BY <3>1, <4>1, <4>2 DEF Known
    <3>2. CASE ~(u = t /\ c = n)
      <4>1. HashOf(u, c)' = HashOf(u, c) /\ Pointers'[HashOf(u, c)] = Pointers[HashOf(u, c)]
        BY <1>1, <2>2, <2>3, <2>5, <3>2
      <4> QED BY <2>3, <2>5, <3>2, <4>1 DEF Known
    <3> QED BY <3>1, <3>2
  <2>6. ASSUME NEW g \in Hashes, NEW u \in Threads, Known(g)', Pointers'[g].mutex = u
        PROVE  \E c \in 1..Len(stack'[u]) : HashOf(u, c)' = g
    <3>1. CASE g = h
      <4>1. u = t /\ HashOf(t, n)' = h /\ n \in 1..Len(stack'[t])
        BY <1>1, <1>f, <2>1, <2>4, <2>6, <3>1
      <4> QED BY <3>1, <4>1
    <3>2. CASE g # h
      <4>1. PICK c \in 1..Len(stack[u]) : HashOf(u, c) = g
        BY <1>a, <1>1, <2>6, <3>2 DEF LockInv
      <4> QED BY <2>1, <4>1
    <3> QED BY <3>1, <3>2
  <2>7. ASSUME NEW u \in Threads, NEW c \in 1..Len(stack'[u]), NEW d \in 1..Len(stack'[u]),
               Open(u, c)', Open(u, d)', HashOf(u, c)' = HashOf(u, d)'
        PROVE  c = d
    <3>1. HashOf(u, c) = HashOf(u, d) /\ c \in 1..Len(stack[u]) /\ d \in 1..Len(stack[u])
      BY <2>2, <2>7
    <3>2. CASE u = t /\ (c = n \/ d = n)
      BY <2>3, <2>4, <2>7, <3>1, <3>2
    <3>3. CASE ~(u = t /\ (c = n \/ d = n))
      <4>1. Open(u, c) /\ Open(u, d)
        BY <2>3, <2>7, <3>3
      <4> QED BY <1>a, <3>1, <4>1 DEF LockInv
    <3> QED BY <3>2, <3>3
  <2>8. ASSUME NEW u \in Threads, pc'[u] = "relock"
        PROVE  object'[stack'[u][Len(stack'[u])].pointer] = "built"
    <3>1. u # t /\ pc[u] = "relock" /\ stack'[u] = stack[u]
      BY <1>3, <1>4, <2>8
    <3>2. object[stack[u][Len(stack[u])].pointer] = "built"
      BY <1>a, <3>1 DEF LockInv
    <3> QED BY <1>2, <1>e, <3>1, <3>2
  <2> QED BY <2>5, <2>6, <2>7, <2>8 DEF LockInv
<1>10. MutexInv'
  BY <1>a, <1>c, <1>4 DEF MutexInv
<1>11. SingletonInv'
  <2>1. ASSUME NEW m \in Names, sInstance'[m] # None
        PROVE  m \notin PerThread /\ <<m>> \in Hashes /\ Known(<<m>>)'
               /\ Pointers'[<<m>>].pointer = sInstance'[m]
    <3>1. CASE sInstance'[m] = sInstance[m]
      <4>1. m \notin PerThread /\ <<m>> \in Hashes /\ Known(<<m>>) /\ Pointers[<<m>>].pointer = sInstance[m]
        BY <1>a, <2>1, <3>1 DEF SingletonInv
      <4>2. <<m>> # h
        BY <1>c, <4>1
      <4> QED BY <1>1, <3>1, <4>1, <4>2
    <3>2. CASE sInstance'[m] # sInstance[m]
      <4>1. m = name /\ m \notin PerThread /\ sInstance'[m] = p
        BY <1>5, <1>b, <3>2
      <4>2. <<m>> = h
        BY <1>b, <4>1, SharedHash
      <4> QED BY <1>1, <1>b, <1>f, <4>1, <4>2
    <3> QED BY <3>1, <3>2
  <2> QED BY <2>1 DEF SingletonInv
<1>12. ASSUME NEW q \in Objects, Unlocked(q)
       PROVE  Unlocked(q)'
  <2>1. q # p /\ object'[q] # "unallocated"
    BY <1>2, <1>12, <1>e DEF Unlocked
  <2>2. \A g \in Hashes : Known(g)' /\ Pointers'[g].pointer = q => Pointers'[g].mutex = None
    BY <1>1, <1>12, <1>f, <2>1 DEF Unlocked
  <2> QED BY <2>1, <2>2 DEF Unlocked
<1>13. GotInv'
  <2>1. ASSUME NEW u \in Threads, NEW q \in got'[u]
        PROVE  Unlocked(q)' \/ \E m \in Names : sInstance'[m] = q
    <3>1. q \in got[u] /\ q \in Objects
      BY <1>a, <1>4 DEF TypeOK
    <3>2. CASE Unlocked(q)
      BY <1>12, <3>1, <3>2
    <3>3. ASSUME NEW m \in Names, sInstance[m] = q
          PROVE  sInstance'[m] = q
      <4>1. Known(<<m>>) /\ m \notin PerThread
        BY <1>a, <3>1, <3>3 DEF SingletonInv
      <4>2. <<m>> # h
        BY <1>c, <4>1
      <4>3. m # name
        BY <1>b, <4>1, <4>2, SharedHash
      <4> QED BY <1>5, <3>3, <4>3
    <3> QED BY <1>a, <3>1, <3>2, <3>3 DEF GotInv
  <2> QED BY <2>1 DEF GotInv
<1>14. ExitInv'
  <2>1. ASSUME NEW u \in Threads, NEW m \in PerThread, u # t
        PROVE  Hash(m, u) # h /\ Hash(m, u) \in Hashes
    BY <1>b, <2>1, HashIsOne, HashIsHash
  <2>2. ASSUME NEW u \in Threads, pc'[u] = "exit", NEW q \in doomed'[u]
        PROVE  /\ Unlocked(q)'
               /\ \A g \in Hashes : Known(g)' /\ Pointers'[g].pointer = q =>
                    \E m \in PerThread : g = Hash(m, u)
    <3>1. u # t /\ pc[u] = "exit" /\ q \in doomed[u] /\ q \in Objects
      BY <1>a, <1>4, <2>2 DEF TypeOK
    <3>2. Unlocked(q) /\ \A g \in Hashes : Known(g) /\ Pointers[g].pointer = q =>
                           \E m \in PerThread : g = Hash(m, u)
      BY <1>a, <3>1 DEF ExitInv
    <3>3. q # p
      BY <1>e, <3>2 DEF Unlocked
    <3> QED BY <1>1, <1>12, <1>f, <3>1, <3>2, <3>3
  <2>3. ASSUME NEW u \in Threads, pc'[u] = "exit", NEW m \in PerThread, Known(Hash(m, u))'
        PROVE  Pointers'[Hash(m, u)].pointer \in doomed'[u]
    <3>1. u # t /\ pc[u] = "exit" /\ doomed'[u] = doomed[u]
      BY <1>4, <2>3
    <3>2. Pointers'[Hash(m, u)] = Pointers[Hash(m, u)] /\ Known(Hash(m, u))
      BY <1>1, <2>1, <2>3, <3>1 DEF Known
    <3> QED BY <1>a, <3>1, <3>2 DEF ExitInv
  <2>4. ASSUME NEW u \in Threads, pc'[u] = "exited", NEW m \in PerThread
        PROVE  Pointers'[Hash(m, u)] = None
    <3>1. u # t /\ pc[u] = "exited"
      BY <1>4, <2>4
    <3> QED BY <1>a, <1>1, <2>1, <3>1 DEF ExitInv, ExitLeavesNothing, At
  <2> QED BY <2>2, <2>3, <2>4 DEF ExitInv, ExitLeavesNothing, At
<1> QED BY <1>6, <1>7, <1>8, <1>9, <1>10, <1>11, <1>13, <1>14 DEF IInv

LEMMA LocateStep ==
  ASSUME IInv, NEW t \in Threads, Locate(t)
  PROVE  IInv'
<1>a. TypeOK /\ EntryInv /\ CallInv /\ LockInv /\ MutexInv /\ SingletonInv /\ GotInv /\ ExitInv
  BY DEF IInv
<1>1. /\ pc[t] = "lock" /\ Mutex = None /\ Mutex' = t /\ pc' = [pc EXCEPT ![t] = "shared"]
      /\ UNCHANGED <<Pointers, sInstance, stack, doomed, object, got>>
  BY DEF Locate, At, Goto
<1>2. pc' \in [Threads -> Labels] /\ pc'[t] = "shared"
      /\ \A u \in Threads : u # t => pc'[u] = pc[u]
  BY <1>a, <1>1 DEF TypeOK, Labels
<1>3. Known(HashOf(t, Len(stack[t])))
  BY <1>a, <1>1, TopFacts DEF Locate, Entry, Known
<1>4. TypeOK'
  BY <1>a, <1>1, <1>2 DEF TypeOK
<1>5. EntryInv'
  BY <1>a, <1>1 DEF EntryInv, Known
<1>6. CallInv'
  <2>1. ASSUME NEW u \in Threads
        PROVE  /\ stack'[u] = <<>> <=> pc'[u] \in {"idle", "exit", "exited", "threw"}
               /\ \A c \in 1..Len(stack'[u]) : stack'[u][c].singleton =>
                    stack'[u][c].name \notin PerThread
    <3>1. CASE u = t
      BY <1>a, <1>1, <1>2, <3>1 DEF CallInv
    <3>2. CASE u # t
      BY <1>a, <1>1, <1>2, <3>2 DEF CallInv
    <3> QED BY <3>1, <3>2
  <2> QED BY <2>1 DEF CallInv
<1>7. LockInv'
  <2>1. \A u \in Threads : \A c \in 1..Len(stack'[u]) : Open(u, c)' => Open(u, c)
    BY <1>1, <1>2 DEF Open
  <2>2. \A u \in Threads : pc'[u] = "relock" =>
          object'[stack'[u][Len(stack'[u])].pointer] = "built"
    BY <1>a, <1>1, <1>2 DEF LockInv
  <2> QED BY <1>a, <1>1, <2>1, <2>2, LockKept
<1>8. MutexInv'
  <2>1. ASSUME NEW u \in Threads, pc'[u] = "shared"
        PROVE  u = t
    BY <1>a, <1>1, <1>2, <2>1 DEF MutexInv
  <2> QED BY <1>1, <1>3, <2>1 DEF MutexInv, Known, HashOf
<1>9. SingletonInv'
  BY <1>a, <1>1 DEF SingletonInv, Known
<1>10. GotInv'
  BY <1>a, <1>1 DEF GotInv, Unlocked, Known
<1>11. ExitInv'
  BY <1>a, <1>1, <1>2 DEF ExitInv, ExitLeavesNothing, At, Unlocked, Known
<1> QED BY <1>4, <1>5, <1>6, <1>7, <1>8, <1>9, <1>10, <1>11 DEF IInv

LEMMA LeaveFacts ==
  ASSUME TypeOK, CallInv, NEW t \in Threads, pc[t] \in {"shared", "relock"},
         NEW p \in Objects, Leave(t, p), NEW n, n = Len(stack[t])
  PROVE  /\ n \in Nat \ {0} /\ stack' \in [Threads -> Seq(Frame)] /\ Len(stack'[t]) = n - 1
         /\ \A u \in Threads : u # t => stack'[u] = stack[u] /\ pc'[u] = pc[u] /\ got'[u] = got[u]
         /\ \A c \in 1..(n - 1) : /\ stack'[t][c].name = stack[t][c].name
                                  /\ stack'[t][c].pointer = stack[t][c].pointer
                                  /\ stack'[t][c].singleton = stack[t][c].singleton
         /\ pc' \in [Threads -> Labels] /\ pc'[t] = IF n = 1 THEN "idle" ELSE "construct"
         /\ got' \in [Threads -> SUBSET Objects] /\ got'[t] = got[t] \cup {p}
         /\ doomed' = doomed
         /\ CallInv'
<1>1. /\ stack[t] \in Seq(Frame) /\ stack[t] # <<>> /\ Top(t).name \in Names
  BY TopFacts
<1>2. PICK r \in Seq(Frame) :
         /\ r = Obtained(Front(stack[t]), Top(t).name)
         /\ n \in Nat \ {0} /\ Len(r) = n - 1
         /\ \A c \in 1..(n - 1) :
              /\ r[c].name = stack[t][c].name
              /\ r[c].pointer = stack[t][c].pointer
              /\ r[c].singleton = stack[t][c].singleton
  <2>1. /\ Obtained(Front(stack[t]), Top(t).name) \in Seq(Frame)
        /\ Len(stack[t]) \in Nat \ {0}
        /\ Len(Obtained(Front(stack[t]), Top(t).name)) = Len(stack[t]) - 1
        /\ \A c \in 1..(Len(stack[t]) - 1) :
             /\ Obtained(Front(stack[t]), Top(t).name)[c].name = stack[t][c].name
             /\ Obtained(Front(stack[t]), Top(t).name)[c].pointer = stack[t][c].pointer
             /\ Obtained(Front(stack[t]), Top(t).name)[c].singleton = stack[t][c].singleton
    BY <1>1, Popped, Zenon
  <2> QED BY <2>1
<1>3. stack' = [stack EXCEPT ![t] = r]
  BY <1>2 DEF Leave
<1>4. /\ stack' \in [Threads -> Seq(Frame)] /\ stack'[t] = r
      /\ \A u \in Threads : u # t => stack'[u] = stack[u]
  BY <1>2, <1>3 DEF TypeOK
<1>5. /\ pc' \in [Threads -> Labels] /\ pc'[t] = IF n = 1 THEN "idle" ELSE "construct"
      /\ \A u \in Threads : u # t => pc'[u] = pc[u]
  <2>1. (IF n = 1 THEN "idle" ELSE "construct") \in Labels
    BY DEF Labels
  <2>2. pc' = [pc EXCEPT ![t] = IF n = 1 THEN "idle" ELSE "construct"]
    BY DEF Leave, Goto
  <2> QED BY <2>1, <2>2 DEF TypeOK
<1>6. /\ got' \in [Threads -> SUBSET Objects] /\ got'[t] = got[t] \cup {p}
      /\ \A u \in Threads : u # t => got'[u] = got[u]
      /\ doomed' = doomed
  BY DEF Leave, Receive, TypeOK
<1>7. ASSUME NEW u \in Threads
      PROVE  /\ stack'[u] = <<>> <=> pc'[u] \in {"idle", "exit", "exited", "threw"}
             /\ \A c \in 1..Len(stack'[u]) : stack'[u][c].singleton =>
                  stack'[u][c].name \notin PerThread
  <2>1. CASE u = t
    <3>1. r = <<>> <=> n = 1
      <4>1. Len(r) = 0 <=> n = 1
        BY <1>2
      <4> QED BY <4>1, EmptySeq
    <3>2. pc'[t] \in {"idle", "exit", "exited", "threw"} <=> n = 1
      BY <1>5
    <3>3. \A c \in 1..(n - 1) : r[c].singleton => r[c].name \notin PerThread
      BY <1>2 DEF CallInv
    <3> QED BY <1>2, <1>4, <2>1, <3>1, <3>2, <3>3
  <2>2. CASE u # t
    BY <1>4, <1>5, <2>2 DEF CallInv
  <2> QED BY <2>1, <2>2
<1>8. CallInv'
  BY <1>7 DEF CallInv
<1> QED BY <1>2, <1>4, <1>5, <1>6, <1>8

LEMMA FoundStep ==
  ASSUME IInv, NEW t \in Threads, Found(t)
  PROVE  /\ IInv'
         /\ \A p \in got'[t] \ got[t] : object'[p] = "built"
<1>a. TypeOK /\ EntryInv /\ CallInv /\ LockInv /\ MutexInv /\ SingletonInv /\ GotInv /\ ExitInv
  BY DEF IInv
<1>t. pc[t] = "shared"
  BY DEF Found, At
<1>p. PICK n \in Nat \ {0}, name \in Names, h \in Hashes :
        n = Len(stack[t]) /\ name = Top(t).name /\ h = HashOf(t, n)
  BY <1>a, <1>t, TopFacts
<1>b. /\ h = Hash(name, t) /\ (Top(t).singleton => name \notin PerThread)
  BY <1>a, <1>t, <1>p, TopFacts
<1>c. Known(h) /\ Mutex = t
  BY <1>a, <1>p, <1>t DEF MutexInv
<1>d. Pointers[h] \in Entries
  BY <1>a, <1>c DEF TypeOK, Known
<1>e. PICK p \in Objects : p = Pointers[h].pointer
  BY <1>d DEF Entries
<1>f. /\ Pointers[h].mutex = None /\ Mutex' = None /\ Leave(t, p)
      /\ sInstance' = IF Top(t).singleton THEN [sInstance EXCEPT ![name] = p] ELSE sInstance
      /\ UNCHANGED <<Pointers, object>>
  BY <1>b, <1>e, <1>p DEF Found, Entry
<1>g. object[p] = "built" /\ p # None
  BY <1>a, <1>c, <1>e, <1>f DEF EntryInv
<1>1. /\ stack' \in [Threads -> Seq(Frame)] /\ Len(stack'[t]) = n - 1
      /\ \A u \in Threads : u # t => stack'[u] = stack[u] /\ pc'[u] = pc[u] /\ got'[u] = got[u]
      /\ \A c \in 1..(n - 1) : /\ stack'[t][c].name = stack[t][c].name
                               /\ stack'[t][c].pointer = stack[t][c].pointer
      /\ pc' \in [Threads -> Labels] /\ pc'[t] = IF n = 1 THEN "idle" ELSE "construct"
      /\ got' \in [Threads -> SUBSET Objects] /\ got'[t] = got[t] \cup {p}
      /\ doomed' = doomed
      /\ CallInv'
  BY <1>a, <1>f, <1>p, <1>t, LeaveFacts
<1>2. \A q \in got'[t] \ got[t] : object'[q] = "built"
  BY <1>1, <1>f, <1>g
<1>3. /\ sInstance' \in [Names -> Objects \cup {None}]
      /\ \A m \in Names : sInstance'[m] # sInstance[m] =>
           m = name /\ Top(t).singleton /\ sInstance'[m] = p
  <2>1. CASE Top(t).singleton
    BY <1>a, <1>f, <2>1 DEF TypeOK
  <2>2. CASE ~Top(t).singleton
    BY <1>a, <1>f, <2>2 DEF TypeOK
  <2> QED BY <2>1, <2>2
<1>4. TypeOK'
  BY <1>a, <1>1, <1>3, <1>f DEF TypeOK
<1>5. EntryInv'
  BY <1>a, <1>f DEF EntryInv, Known
<1>6. LockInv'
  <2>1. ASSUME NEW u \in Threads, NEW c \in 1..Len(stack'[u]), Open(u, c)'
        PROVE  /\ c \in 1..Len(stack[u]) /\ Open(u, c)
               /\ stack'[u][c].name = stack[u][c].name
               /\ stack'[u][c].pointer = stack[u][c].pointer
    <3>1. CASE u = t
      BY <1>1, <1>p, <2>1, <3>1 DEF Open
    <3>2. CASE u # t
      BY <1>1, <2>1, <3>2 DEF Open
    <3> QED BY <3>1, <3>2
  <2>2. \A u \in Threads : \A c \in 1..Len(stack'[u]) : HashOf(u, c)' = HashOf(u, c)
    <3>1. \A u \in Threads : \A c \in 1..Len(stack'[u]) : stack'[u][c].name = stack[u][c].name
      BY <1>1
    <3> QED BY <3>1 DEF HashOf
  <2>3. ASSUME NEW u \in Threads, NEW c \in 1..Len(stack'[u]), Open(u, c)'
        PROVE  /\ Known(HashOf(u, c))' /\ Pointers'[HashOf(u, c)'].mutex = u
               /\ Pointers'[HashOf(u, c)'].pointer = stack'[u][c].pointer
    <3>1. Pointers'[HashOf(u, c)'] = Pointers[HashOf(u, c)]
      BY <1>f, <2>2
    <3>2. Known(HashOf(u, c)) /\ Pointers[HashOf(u, c)].mutex = u
          /\ Pointers[HashOf(u, c)].pointer = stack[u][c].pointer
      BY <1>a, <2>1, <2>3, OpenKnown
    <3> QED BY <2>1, <2>3, <3>1, <3>2 DEF Known
  <2>4. ASSUME NEW g \in Hashes, NEW u \in Threads, Known(g)', Pointers'[g].mutex = u
        PROVE  \E c \in 1..Len(stack'[u]) : HashOf(u, c)' = g
    <3>1. Known(g) /\ Pointers[g].mutex = u
      BY <1>f, <2>4 DEF Known
    <3>2. PICK c \in 1..Len(stack[u]) : HashOf(u, c) = g
      BY <1>a, <3>1 DEF LockInv
    <3>3. ~(u = t /\ c = n)
      BY <1>f, <1>p, <3>1, <3>2
    <3>4. c \in 1..Len(stack'[u])
      BY <1>1, <1>p, <3>2, <3>3
    <3> QED BY <2>2, <3>2, <3>4
  <2>5. \A u \in Threads : \A c, d \in 1..Len(stack'[u]) :
          Open(u, c)' /\ Open(u, d)' /\ HashOf(u, c)' = HashOf(u, d)' => c = d
    <3> SUFFICES ASSUME NEW u \in Threads, NEW c \in 1..Len(stack'[u]),
                        NEW d \in 1..Len(stack'[u]),
                        Open(u, c)', Open(u, d)', HashOf(u, c)' = HashOf(u, d)'
                 PROVE  c = d
      OBVIOUS
    <3>1. HashOf(u, c) = HashOf(u, d)
      BY <2>2
    <3> QED BY <1>a, <2>1, <3>1 DEF LockInv
  <2>6. ASSUME NEW u \in Threads, pc'[u] = "relock"
        PROVE  object'[stack'[u][Len(stack'[u])].pointer] = "built"
    <3>1. u # t
      BY <1>1, <2>6
    <3> QED BY <1>a, <1>1, <1>f, <2>6, <3>1 DEF LockInv
  <2> QED BY <2>3, <2>4, <2>5, <2>6 DEF LockInv
<1>7. MutexInv'
  <2>1. ASSUME NEW u \in Threads PROVE pc'[u] # "shared"
    BY <1>a, <1>1, <1>c DEF MutexInv
  <2> QED BY <2>1 DEF MutexInv
<1>8. SingletonInv'
  <2>1. ASSUME NEW m \in Names, sInstance'[m] # None
        PROVE  m \notin PerThread /\ <<m>> \in Hashes /\ Known(<<m>>)'
               /\ Pointers'[<<m>>].pointer = sInstance'[m]
    <3>1. CASE sInstance'[m] = sInstance[m]
      BY <1>a, <1>f, <2>1, <3>1 DEF SingletonInv, Known
    <3>2. CASE sInstance'[m] # sInstance[m]
      <4>1. m = name /\ m \notin PerThread /\ sInstance'[m] = p
        BY <1>3, <1>b, <3>2
      <4>2. <<m>> = h
        BY <1>b, <4>1, SharedHash
      <4> QED BY <1>c, <1>e, <1>f, <4>1, <4>2 DEF Known
    <3> QED BY <3>1, <3>2
  <2> QED BY <2>1 DEF SingletonInv
<1>9. \A q \in Objects : Unlocked(q)' <=> Unlocked(q)
  BY <1>f DEF Unlocked, Known
<1>10. GotInv'
  <2>1. Unlocked(p)
    BY <1>a, <1>c, <1>e, <1>f, <1>g DEF Unlocked, EntryInv
  <2>2. ASSUME NEW m \in Names, sInstance[m] # None
        PROVE  sInstance'[m] = sInstance[m]
    <3>1. CASE m = name /\ Top(t).singleton
      <4>1. <<m>> = h /\ Pointers[<<m>>].pointer = sInstance[m]
        BY <1>a, <1>b, <2>2, <3>1, SharedHash DEF SingletonInv
      <4> QED BY <1>3, <1>e, <4>1
    <3>2. CASE ~(m = name /\ Top(t).singleton)
      BY <1>3, <3>2
    <3> QED BY <3>1, <3>2
  <2>3. ASSUME NEW u \in Threads, NEW q \in got'[u]
        PROVE  Unlocked(q)' \/ \E m \in Names : sInstance'[m] = q
    <3>1. q \in Objects /\ q # None /\ (q = p \/ q \in got[u])
      BY <1>1, <2>3
    <3>2. CASE q = p
      BY <1>9, <2>1, <3>2
    <3>3. CASE q \in got[u]
      BY <1>9, <1>a, <2>2, <3>1, <3>3 DEF GotInv
    <3> QED BY <3>1, <3>2, <3>3
  <2> QED BY <2>3 DEF GotInv
<1>11. ExitInv'
  <2>1. \A u \in Threads : (pc'[u] = "exit" => pc[u] = "exit") /\ (pc'[u] = "exited" => pc[u] = "exited")
    BY <1>1
  <2>2. \A g \in Hashes : Known(g)' <=> Known(g)
    BY <1>f DEF Known
  <2>3. \A u \in Threads : \A q \in doomed[u] : q \in Objects
    BY <1>a DEF TypeOK
  <2>4. ASSUME NEW u \in Threads, pc'[u] = "exit", NEW q \in doomed'[u]
        PROVE  /\ Unlocked(q)'
               /\ \A g \in Hashes : Known(g)' /\ Pointers'[g].pointer = q =>
                    \E m \in PerThread : g = Hash(m, u)
    BY <1>1, <1>9, <1>a, <1>f, <2>1, <2>2, <2>3, <2>4 DEF ExitInv
  <2>5. ASSUME NEW u \in Threads, pc'[u] = "exit", NEW m \in PerThread, Known(Hash(m, u))'
        PROVE  Pointers'[Hash(m, u)].pointer \in doomed'[u]
    <3>1. Hash(m, u) \in Hashes
      BY HashIsHash
    <3> QED BY <1>1, <1>a, <1>f, <2>1, <2>5, <3>1 DEF ExitInv, Known
  <2>6. ExitLeavesNothing'
    BY <1>a, <1>f, <2>1 DEF ExitInv, ExitLeavesNothing, At
  <2> QED BY <2>4, <2>5, <2>6 DEF ExitInv
<1> QED BY <1>1, <1>2, <1>4, <1>5, <1>6, <1>7, <1>8, <1>10, <1>11 DEF IInv

LEMMA ConstructStep ==
  ASSUME IInv, NEW t \in Threads, Construct(t)
  PROVE  IInv'
<1>a. TypeOK /\ EntryInv /\ CallInv /\ LockInv /\ MutexInv /\ SingletonInv /\ GotInv /\ ExitInv
  BY DEF IInv
<1>t. pc[t] = "construct"
  BY DEF Construct, At
<1>p. PICK n \in Nat \ {0}, h \in Hashes : n = Len(stack[t]) /\ h = HashOf(t, n)
  BY <1>a, <1>t, TopFacts
<1>b. Known(h) /\ Pointers[h].pointer = stack[t][n].pointer /\ stack[t][n] = Top(t)
  <2>1. n \in 1..Len(stack[t]) /\ Open(t, n)
    BY <1>p, <1>t DEF Open
  <2> QED BY <1>a, <1>p, <1>t, <2>1, TopFacts DEF LockInv
<1>c. PICK p \in Objects : p = Pointers[h].pointer
  BY <1>a, <1>b DEF TypeOK, Known, Entries
<1>1. /\ object' = [object EXCEPT ![p] = "built"] /\ pc' = [pc EXCEPT ![t] = "relock"]
      /\ UNCHANGED <<Mutex, Pointers, sInstance, stack, doomed, got>>
  BY <1>b, <1>c DEF Construct, Goto, heap
<1>2. /\ object' \in [Objects -> {"unallocated", "allocated", "built", "destroyed"}]
      /\ object'[p] = "built" /\ \A q \in Objects : q # p => object'[q] = object[q]
      /\ pc' \in [Threads -> Labels] /\ pc'[t] = "relock"
      /\ \A u \in Threads : u # t => pc'[u] = pc[u]
  BY <1>a, <1>1 DEF TypeOK, Labels
<1>3. object[p] \in {"allocated", "built"}
  BY <1>a, <1>b, <1>c DEF EntryInv
<1>4. TypeOK'
  BY <1>a, <1>1, <1>2 DEF TypeOK
<1>5. EntryInv'
  <2>1. \A g \in Hashes : Known(g) => Pointers[g].pointer \in Objects
    BY <1>a DEF TypeOK, Known, Entries
  <2>2. \A q \in Objects : object'[q] \in {"allocated", "built"} <=> object[q] \in {"allocated", "built"}
    BY <1>2, <1>3
  <2>3. \A q \in Objects : object[q] = "built" => object'[q] = "built"
    BY <1>2
  <2> QED BY <1>a, <1>1, <2>1, <2>2, <2>3 DEF EntryInv, Known
<1>6. CallInv'
  <2>1. ASSUME NEW u \in Threads
        PROVE  /\ stack'[u] = <<>> <=> pc'[u] \in {"idle", "exit", "exited", "threw"}
               /\ \A c \in 1..Len(stack'[u]) : stack'[u][c].singleton =>
                    stack'[u][c].name \notin PerThread
    <3>1. CASE u = t
      BY <1>a, <1>1, <1>2, <1>t, <3>1 DEF CallInv
    <3>2. CASE u # t
      BY <1>a, <1>1, <1>2, <3>2 DEF CallInv
    <3> QED BY <3>1, <3>2
  <2> QED BY <2>1 DEF CallInv
<1>7. LockInv'
  <2>1. \A u \in Threads : \A c \in 1..Len(stack'[u]) : Open(u, c)' => Open(u, c)
    BY <1>1, <1>2, <1>t DEF Open
  <2>2. ASSUME NEW u \in Threads, pc'[u] = "relock"
        PROVE  object'[stack'[u][Len(stack'[u])].pointer] = "built"
    <3>1. CASE u = t
      BY <1>1, <1>2, <1>b, <1>c, <1>p, <3>1
    <3>2. CASE u # t
      <4>1. pc[u] = "relock" /\ object[stack[u][Len(stack[u])].pointer] = "built"
        BY <1>a, <1>2, <2>2, <3>2 DEF LockInv
      <4>2. stack[u][Len(stack[u])].pointer \in Objects
        <5>1. Len(stack[u]) \in 1..Len(stack[u]) /\ Open(u, Len(stack[u]))
          BY <1>a, <4>1, TopFacts DEF Open
        <5>2. /\ HashOf(u, Len(stack[u])) \in Hashes /\ Known(HashOf(u, Len(stack[u])))
              /\ Pointers[HashOf(u, Len(stack[u]))].pointer = stack[u][Len(stack[u])].pointer
          BY <1>a, <5>1, OpenKnown
        <5> QED BY <1>a, <5>2 DEF TypeOK, Known, Entries
      <4> QED BY <1>1, <1>2, <4>1, <4>2
    <3> QED BY <3>1, <3>2
  <2> QED BY <1>a, <1>1, <2>1, <2>2, LockKept
<1>8. MutexInv'
  BY <1>a, <1>1, <1>2 DEF MutexInv, Known, HashOf
<1>9. SingletonInv'
  BY <1>a, <1>1 DEF SingletonInv, Known
<1>10. \A q \in Objects : Unlocked(q) => Unlocked(q)'
  BY <1>1, <1>2 DEF Unlocked, Known
<1>11. GotInv'
  BY <1>a, <1>1, <1>10 DEF GotInv, TypeOK
<1>12. ExitInv'
  <2>1. \A u \in Threads : (pc'[u] = "exit" => pc[u] = "exit") /\ (pc'[u] = "exited" => pc[u] = "exited")
    BY <1>2
  <2>2. \A g \in Hashes : Known(g)' <=> Known(g)
    BY <1>1 DEF Known
  <2>3. \A u \in Threads : \A q \in doomed[u] : q \in Objects
    BY <1>a DEF TypeOK
  <2>4. ASSUME NEW u \in Threads, pc'[u] = "exit", NEW q \in doomed'[u]
        PROVE  /\ Unlocked(q)'
               /\ \A g \in Hashes : Known(g)' /\ Pointers'[g].pointer = q =>
                    \E m \in PerThread : g = Hash(m, u)
    BY <1>1, <1>10, <1>a, <2>1, <2>2, <2>3, <2>4 DEF ExitInv
  <2>5. ASSUME NEW u \in Threads, pc'[u] = "exit", NEW m \in PerThread, Known(Hash(m, u))'
        PROVE  Pointers'[Hash(m, u)].pointer \in doomed'[u]
    BY <1>1, <1>a, <2>1, <2>5 DEF ExitInv, Known
  <2>6. ExitLeavesNothing'
    BY <1>a, <1>1, <2>1 DEF ExitInv, ExitLeavesNothing, At
  <2> QED BY <2>4, <2>5, <2>6 DEF ExitInv
<1> QED BY <1>4, <1>5, <1>6, <1>7, <1>8, <1>9, <1>11, <1>12 DEF IInv

LEMMA UnlockStep ==
  ASSUME IInv, NEW t \in Threads, Unlock(t)
  PROVE  /\ IInv'
         /\ \A p \in got'[t] \ got[t] : object'[p] = "built"
<1>a. TypeOK /\ EntryInv /\ CallInv /\ LockInv /\ MutexInv /\ SingletonInv /\ GotInv /\ ExitInv
  BY DEF IInv
<1>t. pc[t] = "relock" /\ Mutex = None
  BY DEF Unlock, At
<1>p. PICK n \in Nat \ {0}, h \in Hashes : n = Len(stack[t]) /\ h = HashOf(t, n)
  BY <1>a, <1>t, TopFacts
<1>b. /\ h = Hash(Top(t).name, t) /\ Top(t) = stack[t][n] /\ Open(t, n)
      /\ Known(h) /\ Pointers[h].mutex = t /\ Pointers[h].pointer = Top(t).pointer
  <2>1. n \in 1..Len(stack[t]) /\ Open(t, n)
    BY <1>p, <1>t DEF Open
  <2> QED BY <1>a, <1>p, <1>t, <2>1, TopFacts DEF LockInv
<1>d. Pointers[h] \in Entries
  BY <1>a, <1>b DEF TypeOK, Known
<1>e. PICK p \in Objects : p = Pointers[h].pointer
  BY <1>d DEF Entries
<1>f. /\ Pointers' = [Pointers EXCEPT ![h].mutex = None] /\ Leave(t, p)
      /\ UNCHANGED <<Mutex, sInstance, object>>
  BY <1>b, <1>e DEF Unlock
<1>g. object[p] = "built"
  BY <1>a, <1>b, <1>e, <1>p, <1>t DEF LockInv
<1>1. /\ stack' \in [Threads -> Seq(Frame)] /\ Len(stack'[t]) = n - 1
      /\ \A u \in Threads : u # t => stack'[u] = stack[u] /\ pc'[u] = pc[u] /\ got'[u] = got[u]
      /\ \A c \in 1..(n - 1) : /\ stack'[t][c].name = stack[t][c].name
                               /\ stack'[t][c].pointer = stack[t][c].pointer
      /\ pc' \in [Threads -> Labels] /\ pc'[t] = IF n = 1 THEN "idle" ELSE "construct"
      /\ got' \in [Threads -> SUBSET Objects] /\ got'[t] = got[t] \cup {p}
      /\ doomed' = doomed
      /\ CallInv'
  BY <1>a, <1>f, <1>p, <1>t, LeaveFacts
<1>2. \A q \in got'[t] \ got[t] : object'[q] = "built"
  BY <1>1, <1>f, <1>g
<1>3. /\ Pointers' \in [Hashes -> {None} \cup Entries]
      /\ Known(h)' = TRUE /\ Pointers'[h].mutex = None /\ Pointers'[h].pointer = p
      /\ \A g \in Hashes : g # h => Pointers'[g] = Pointers[g]
  <2> DEFINE e == [Pointers[h] EXCEPT !.mutex = None]
  <2>1. e \in Entries /\ e # None /\ e.mutex = None /\ e.pointer = p
    BY <1>d, <1>e DEF Entries
  <2>2. Pointers' = [Pointers EXCEPT ![h] = e]
    BY <1>f
  <2> HIDE DEF e
  <2> QED BY <1>a, <2>1, <2>2 DEF TypeOK, Known
<1>4. /\ \A g \in Hashes : Known(g)' <=> Known(g)
      /\ \A g \in Hashes : Known(g) => Pointers'[g].pointer = Pointers[g].pointer
  BY <1>3, <1>b, <1>e DEF Known
<1>5. TypeOK'
  BY <1>a, <1>1, <1>3, <1>f DEF TypeOK
<1>6. EntryInv'
  <2>1. ASSUME NEW g \in Hashes, Known(g)', Pointers'[g].mutex = None
        PROVE  object'[Pointers'[g].pointer] = "built"
    BY <1>a, <1>3, <1>4, <1>f, <1>g, <2>1 DEF EntryInv
  <2>2. \A g \in Hashes : Known(g)' => object'[Pointers'[g].pointer] \in {"allocated", "built"}
    BY <1>a, <1>4, <1>f DEF EntryInv
  <2>3. \A g, k \in Hashes : Known(g)' /\ Known(k)' /\ Pointers'[g].pointer = Pointers'[k].pointer
          => g = k
    BY <1>a, <1>4 DEF EntryInv
  <2>4. ASSUME NEW q \in Objects, object'[q] \in {"allocated", "built"}
        PROVE  \E g \in Hashes : Known(g)' /\ Pointers'[g].pointer = q
    <3>1. PICK g \in Hashes : Known(g) /\ Pointers[g].pointer = q
      BY <1>a, <1>f, <2>4 DEF EntryInv
    <3> QED BY <1>4, <3>1
  <2> QED BY <2>1, <2>2, <2>3, <2>4 DEF EntryInv
<1>7. LockInv'
  <2>1. ASSUME NEW u \in Threads, NEW c \in 1..Len(stack'[u]), Open(u, c)'
        PROVE  /\ c \in 1..Len(stack[u]) /\ Open(u, c) /\ ~(u = t /\ c = n)
               /\ stack'[u][c].name = stack[u][c].name
               /\ stack'[u][c].pointer = stack[u][c].pointer
    <3>1. CASE u = t
      BY <1>1, <1>p, <2>1, <3>1 DEF Open
    <3>2. CASE u # t
      BY <1>1, <2>1, <3>2 DEF Open
    <3> QED BY <3>1, <3>2
  <2>2. \A u \in Threads : \A c \in 1..Len(stack'[u]) : HashOf(u, c)' = HashOf(u, c)
    <3>1. \A u \in Threads : \A c \in 1..Len(stack'[u]) : stack'[u][c].name = stack[u][c].name
      BY <1>1
    <3> QED BY <3>1 DEF HashOf
  <2>3. ASSUME NEW u \in Threads, NEW c \in 1..Len(stack'[u]), Open(u, c)'
        PROVE  /\ Known(HashOf(u, c))' /\ Pointers'[HashOf(u, c)'].mutex = u
               /\ Pointers'[HashOf(u, c)'].pointer = stack'[u][c].pointer
    <3>1. HashOf(u, c) \in Hashes /\ Known(HashOf(u, c)) /\ Pointers[HashOf(u, c)].mutex = u
          /\ Pointers[HashOf(u, c)].pointer = stack[u][c].pointer
      BY <1>a, <2>1, <2>3, OpenKnown
    <3>2. HashOf(u, c) # h
      <4>1. CASE u = t
        <5>1. n \in 1..Len(stack[t]) /\ c # n /\ c \in 1..Len(stack[t]) /\ Open(t, c)
          BY <1>p, <2>1, <2>3, <4>1
        <5> QED BY <1>a, <1>b, <1>p, <4>1, <5>1 DEF LockInv
      <4>2. CASE u # t
        BY <1>b, <3>1, <4>2
      <4> QED BY <4>1, <4>2
    <3>3. Pointers'[HashOf(u, c)'] = Pointers[HashOf(u, c)]
      BY <1>3, <2>2, <3>1, <3>2
    <3> QED BY <2>1, <2>3, <3>1, <3>3 DEF Known
  <2>4. ASSUME NEW g \in Hashes, NEW u \in Threads, Known(g)', Pointers'[g].mutex = u
        PROVE  \E c \in 1..Len(stack'[u]) : HashOf(u, c)' = g
    <3>1. g # h /\ Known(g) /\ Pointers[g].mutex = u
      BY <1>3, <1>4, <2>4
    <3>2. PICK c \in 1..Len(stack[u]) : HashOf(u, c) = g
      BY <1>a, <3>1 DEF LockInv
    <3>3. ~(u = t /\ c = n)
      BY <1>p, <3>1, <3>2
    <3>4. c \in 1..Len(stack'[u])
      BY <1>1, <1>p, <3>2, <3>3
    <3> QED BY <2>2, <3>2, <3>4
  <2>5. \A u \in Threads : \A c, d \in 1..Len(stack'[u]) :
          Open(u, c)' /\ Open(u, d)' /\ HashOf(u, c)' = HashOf(u, d)' => c = d
    <3> SUFFICES ASSUME NEW u \in Threads, NEW c \in 1..Len(stack'[u]),
                        NEW d \in 1..Len(stack'[u]),
                        Open(u, c)', Open(u, d)', HashOf(u, c)' = HashOf(u, d)'
                 PROVE  c = d
      OBVIOUS
    <3>1. HashOf(u, c) = HashOf(u, d)
      BY <2>2
    <3> QED BY <1>a, <2>1, <3>1 DEF LockInv
  <2>6. ASSUME NEW u \in Threads, pc'[u] = "relock"
        PROVE  object'[stack'[u][Len(stack'[u])].pointer] = "built"
    <3>1. u # t
      BY <1>1, <2>6
    <3> QED BY <1>a, <1>1, <1>f, <2>6, <3>1 DEF LockInv
  <2> QED BY <2>3, <2>4, <2>5, <2>6 DEF LockInv
<1>8. MutexInv'
  <2>1. ASSUME NEW u \in Threads PROVE pc'[u] # "shared"
    BY <1>a, <1>1, <1>t DEF MutexInv
  <2> QED BY <2>1 DEF MutexInv
<1>9. SingletonInv'
  BY <1>a, <1>4, <1>f DEF SingletonInv
<1>10. ASSUME NEW q \in Objects, Unlocked(q)
       PROVE  Unlocked(q)'
  BY <1>3, <1>4, <1>f, <1>10 DEF Unlocked
<1>11. GotInv'
  <2>1. Unlocked(p)'
    <3>1. \A g \in Hashes : Known(g)' /\ Pointers'[g].pointer = p => Pointers'[g].mutex = None
      BY <1>a, <1>3, <1>4, <1>b, <1>e DEF EntryInv
    <3> QED BY <1>f, <1>g, <3>1 DEF Unlocked
  <2>2. ASSUME NEW u \in Threads, NEW q \in got'[u]
        PROVE  Unlocked(q)' \/ \E m \in Names : sInstance'[m] = q
    <3>1. q \in Objects /\ (q = p \/ q \in got[u])
      BY <1>1, <2>2
    <3>2. CASE q = p
      BY <2>1, <3>2
    <3>3. CASE q \in got[u]
      BY <1>10, <1>a, <1>f, <3>1, <3>3 DEF GotInv
    <3> QED BY <3>1, <3>2, <3>3
  <2> QED BY <2>2 DEF GotInv
<1>12. ExitInv'
  <2>1. \A u \in Threads : (pc'[u] = "exit" => pc[u] = "exit") /\ (pc'[u] = "exited" => pc[u] = "exited")
    BY <1>1
  <2>2. \A u \in Threads : \A q \in doomed[u] : q \in Objects
    BY <1>a DEF TypeOK
  <2>3. ASSUME NEW u \in Threads, pc'[u] = "exit", NEW q \in doomed'[u]
        PROVE  /\ Unlocked(q)'
               /\ \A g \in Hashes : Known(g)' /\ Pointers'[g].pointer = q =>
                    \E m \in PerThread : g = Hash(m, u)
    <3>1. /\ q \in Objects /\ Unlocked(q)
          /\ \A g \in Hashes : Known(g) /\ Pointers[g].pointer = q =>
               \E m \in PerThread : g = Hash(m, u)
      BY <1>1, <1>a, <2>1, <2>2, <2>3 DEF ExitInv
    <3> QED BY <1>4, <1>10, <3>1
  <2>4. ASSUME NEW u \in Threads, pc'[u] = "exit", NEW m \in PerThread, Known(Hash(m, u))'
        PROVE  Pointers'[Hash(m, u)].pointer \in doomed'[u]
    <3>1. Hash(m, u) \in Hashes
      BY HashIsHash
    <3> QED BY <1>1, <1>4, <1>a, <2>1, <2>4, <3>1 DEF ExitInv
  <2>5. ASSUME NEW u \in Threads, pc'[u] = "exited", NEW m \in PerThread
        PROVE  Pointers'[Hash(m, u)] = None
    <3>1. Hash(m, u) \in Hashes
      BY HashIsHash
    <3>2. ~Known(Hash(m, u))
      BY <1>a, <2>1, <2>5 DEF ExitInv, ExitLeavesNothing, At, Known
    <3> QED BY <1>4, <3>1, <3>2 DEF Known
  <2> QED BY <2>3, <2>4, <2>5 DEF ExitInv, ExitLeavesNothing, At
<1> QED BY <1>1, <1>2, <1>5, <1>6, <1>7, <1>8, <1>9, <1>11, <1>12 DEF IInv

-----------------------------------------------------------------------------
(* singleton(), deallocate() and exit_thread()                             *)

LEMMA SingletonCachedStep ==
  ASSUME IInv, NEW t \in Threads, NEW name \in Names, SingletonCached(t, name)
  PROVE  IInv'
<1>a. TypeOK /\ EntryInv /\ CallInv /\ LockInv /\ MutexInv /\ SingletonInv /\ GotInv /\ ExitInv
  BY DEF IInv
<1>b. PICK r \in Seq(Frame) : r = Obtained(stack[t], name) /\ Alike(r, stack[t])
  BY <1>a, ObtainedAlike DEF TypeOK
<1>1. /\ stack' = [stack EXCEPT ![t] = r] /\ sInstance[name] \in Objects
      /\ got' = [got EXCEPT ![t] = @ \cup {sInstance[name]}]
      /\ UNCHANGED <<Mutex, Pointers, sInstance, pc, doomed, object>>
  BY <1>a, <1>b DEF SingletonCached, Receive, heap, TypeOK
<1>2. stack' \in [Threads -> Seq(Frame)] /\ \A u \in Threads : Alike(stack'[u], stack[u])
  BY <1>a, <1>1, <1>b DEF TypeOK, Alike
<1>3. got' \in [Threads -> SUBSET Objects]
      /\ \A u \in Threads : \A q \in got'[u] : q \in got[u] \/ q = sInstance[name]
  BY <1>a, <1>1 DEF TypeOK
<1>4. TypeOK'
  BY <1>a, <1>1, <1>2, <1>3 DEF TypeOK
<1>5. EntryInv'
  BY <1>a, <1>1 DEF EntryInv, Known
<1>6. CallInv'
  <2>1. \A u \in Threads : stack'[u] = <<>> <=> stack[u] = <<>>
    <3>1. \A s \in Seq(Frame) : s = <<>> <=> Len(s) = 0
      BY EmptySeq
    <3> QED BY <1>2, <1>a, <3>1 DEF Alike, TypeOK
  <2>2. \A u \in Threads : \A c \in 1..Len(stack'[u]) : stack'[u][c].singleton =>
          stack'[u][c].name \notin PerThread
    <3> TAKE u \in Threads
    <3> TAKE c \in 1..Len(stack'[u])
    <3>1. /\ c \in 1..Len(stack[u]) /\ stack'[u][c].singleton = stack[u][c].singleton
          /\ stack'[u][c].name = stack[u][c].name
      BY <1>2 DEF Alike
    <3>2. stack[u][c].singleton => stack[u][c].name \notin PerThread
      BY <1>a, <3>1 DEF CallInv
    <3> QED BY <3>1, <3>2
  <2> QED BY <1>1, <1>a, <2>1, <2>2 DEF CallInv
<1>7. LockInv'
  <2>1. ASSUME NEW u \in Threads, NEW c \in 1..Len(stack'[u]), Open(u, c)'
        PROVE  /\ c \in 1..Len(stack[u]) /\ Open(u, c)
               /\ stack'[u][c].name = stack[u][c].name
               /\ stack'[u][c].pointer = stack[u][c].pointer
    BY <1>1, <1>2, <2>1 DEF Open, Alike
  <2>2. ASSUME NEW u \in Threads, NEW c \in 1..Len(stack[u])
        PROVE  c \in 1..Len(stack'[u]) /\ stack'[u][c].name = stack[u][c].name
    BY <1>2 DEF Alike
  <2>3. ASSUME NEW u \in Threads, pc'[u] = "relock"
        PROVE  object'[stack'[u][Len(stack'[u])].pointer] = "built"
    <3>1. pc[u] = "relock" /\ object[stack[u][Len(stack[u])].pointer] = "built"
      BY <1>1, <1>a, <2>3 DEF LockInv
    <3>2. Len(stack[u]) \in 1..Len(stack[u])
      BY <1>a, <3>1, TopFacts
    <3> QED BY <1>1, <1>2, <3>1, <3>2 DEF Alike
  <2> QED BY <1>a, <1>1, <2>1, <2>2, <2>3, LockKept
<1>8. MutexInv'
  <2>1. ASSUME NEW u \in Threads, pc'[u] = "shared"
        PROVE  Mutex' = u /\ Known(HashOf(u, Len(stack[u])))'
    <3>1. pc[u] = "shared" /\ Mutex = u /\ Known(HashOf(u, Len(stack[u])))
      BY <1>1, <1>a, <2>1 DEF MutexInv
    <3>2. Len(stack[u]) \in 1..Len(stack[u])
      BY <1>a, <3>1, TopFacts
    <3>3. HashOf(u, Len(stack[u]))' = HashOf(u, Len(stack[u]))
      BY <1>2, <3>2 DEF Alike, HashOf
    <3> QED BY <1>1, <3>1, <3>3 DEF Known
  <2> QED BY <1>2, <2>1 DEF MutexInv, Alike
<1>9. SingletonInv'
  BY <1>a, <1>1 DEF SingletonInv, Known
<1>10. \A q \in Objects : Unlocked(q)' <=> Unlocked(q)
  BY <1>1 DEF Unlocked, Known
<1>11. GotInv'
  <2>1. ASSUME NEW u \in Threads, NEW q \in got'[u]
        PROVE  Unlocked(q)' \/ \E m \in Names : sInstance'[m] = q
    BY <1>1, <1>3, <1>10, <1>a DEF GotInv
  <2> QED BY <2>1 DEF GotInv
<1>12. ExitInv'
  BY <1>a, <1>1 DEF ExitInv, ExitLeavesNothing, At, Unlocked, Known
<1> QED BY <1>4, <1>5, <1>6, <1>7, <1>8, <1>9, <1>11, <1>12 DEF IInv

(* Freeing an object that nobody locks and that is no singleton *)
LEMMA FreeStep ==
  ASSUME IInv, NEW p \in Objects, Free(p), Unlocked(p), \A n \in Names : sInstance[n] # p,
         pc' = pc, doomed' \in [Threads -> SUBSET Objects],
         \A t \in Threads : doomed[t] \ {p} \subseteq doomed'[t] /\ doomed'[t] \subseteq doomed[t]
  PROVE  IInv'
<1>a. TypeOK /\ EntryInv /\ CallInv /\ LockInv /\ MutexInv /\ SingletonInv /\ GotInv /\ ExitInv
  BY DEF IInv
<1>1. /\ Mutex = None /\ object' = [object EXCEPT ![p] = "destroyed"]
      /\ Pointers' = [h \in Hashes |->
           IF Pointers[h] # None /\ Pointers[h].pointer = p THEN None ELSE Pointers[h]]
      /\ got' = [t \in Threads |-> got[t] \ {p}]
      /\ UNCHANGED <<Mutex, sInstance, stack>>
  BY DEF Free
<1>2. /\ object' \in [Objects -> {"unallocated", "allocated", "built", "destroyed"}]
      /\ object'[p] = "destroyed" /\ \A q \in Objects : q # p => object'[q] = object[q]
  BY <1>a, <1>1 DEF TypeOK
<1>3. /\ Pointers' \in [Hashes -> {None} \cup Entries]
      /\ \A h \in Hashes : Known(h)' <=> (Known(h) /\ Pointers[h].pointer # p)
      /\ \A h \in Hashes : Known(h)' => Pointers'[h] = Pointers[h]
  BY <1>a, <1>1 DEF TypeOK, Known
<1>4. \A h \in Hashes : Known(h) => Pointers[h].pointer \in Objects
  BY <1>a DEF TypeOK, Known, Entries
<1>5. \A h \in Hashes : Known(h) /\ Pointers[h].mutex # None => Known(h)'
  BY <1>3 DEF Unlocked
<1>6. TypeOK'
  BY <1>a, <1>1, <1>2, <1>3 DEF TypeOK
<1>7. EntryInv'
  BY <1>a, <1>2, <1>3, <1>4 DEF EntryInv
<1>8. CallInv'
  BY <1>a, <1>1 DEF CallInv
<1>9. LockInv'
  <2>1. ASSUME NEW u \in Threads, NEW c \in 1..Len(stack[u]), Open(u, c)
        PROVE  /\ HashOf(u, c) \in Hashes /\ Known(HashOf(u, c)) /\ Pointers'[HashOf(u, c)] # None
               /\ Pointers'[HashOf(u, c)].mutex = u /\ stack[u][c].pointer # p
               /\ Pointers'[HashOf(u, c)].pointer = stack[u][c].pointer
               /\ stack[u][c].pointer \in Objects
    <3>1. /\ HashOf(u, c) \in Hashes /\ Known(HashOf(u, c))
          /\ Pointers[HashOf(u, c)].mutex = u /\ u # None
          /\ Pointers[HashOf(u, c)].pointer = stack[u][c].pointer
      BY <1>a, <2>1, OpenKnown
    <3>2. Pointers[HashOf(u, c)].pointer # p
      BY <3>1 DEF Unlocked
    <3>3. Pointers'[HashOf(u, c)] = Pointers[HashOf(u, c)]
      BY <1>1, <3>1, <3>2
    <3> QED BY <1>4, <3>1, <3>2, <3>3 DEF Known
  <2>2. \A u \in Threads : \A c \in 1..Len(stack[u]) :
          (Open(u, c)' <=> Open(u, c)) /\ HashOf(u, c)' = HashOf(u, c)
    BY <1>1 DEF Open, HashOf
  <2>3. ASSUME NEW u \in Threads, NEW c \in 1..Len(stack'[u]), Open(u, c)'
        PROVE  /\ Known(HashOf(u, c))' /\ Pointers'[HashOf(u, c)'].mutex = u
               /\ Pointers'[HashOf(u, c)'].pointer = stack'[u][c].pointer
    <3>1. c \in 1..Len(stack[u]) /\ Open(u, c) /\ HashOf(u, c)' = HashOf(u, c)
      BY <1>1, <2>2, <2>3
    <3>2. /\ Pointers'[HashOf(u, c)] # None /\ Pointers'[HashOf(u, c)].mutex = u
          /\ Pointers'[HashOf(u, c)].pointer = stack[u][c].pointer
      BY <2>1, <3>1
    <3>3. Pointers'[HashOf(u, c)'] # None /\ Pointers'[HashOf(u, c)'].mutex = u
          /\ Pointers'[HashOf(u, c)'].pointer = stack'[u][c].pointer
      BY <1>1, <3>1, <3>2
    <3> QED BY <3>3 DEF Known
  <2>4. ASSUME NEW g \in Hashes, NEW u \in Threads, Known(g)', Pointers'[g].mutex = u
        PROVE  \E c \in 1..Len(stack'[u]) : HashOf(u, c)' = g
    BY <1>a, <1>1, <1>3, <2>2, <2>4 DEF LockInv
  <2>5. \A u \in Threads : \A c, d \in 1..Len(stack'[u]) :
          Open(u, c)' /\ Open(u, d)' /\ HashOf(u, c)' = HashOf(u, d)' => c = d
    BY <1>a, <1>1, <2>2 DEF LockInv
  <2>6. ASSUME NEW u \in Threads, pc'[u] = "relock"
        PROVE  object'[stack'[u][Len(stack'[u])].pointer] = "built"
    <3>1. pc[u] = "relock" /\ object[stack[u][Len(stack[u])].pointer] = "built"
      BY <1>a, <2>6 DEF LockInv
    <3>2. Len(stack[u]) \in 1..Len(stack[u]) /\ Open(u, Len(stack[u]))
      BY <1>a, <3>1, TopFacts DEF Open
    <3> QED BY <1>1, <1>2, <2>1, <3>1, <3>2
  <2> QED BY <2>3, <2>4, <2>5, <2>6 DEF LockInv
<1>10. MutexInv'
  <2>1. ASSUME NEW u \in Threads PROVE pc'[u] # "shared"
    BY <1>a, <1>1 DEF MutexInv
  <2> QED BY <2>1 DEF MutexInv
<1>11. SingletonInv'
  BY <1>a, <1>1, <1>3 DEF SingletonInv
<1>12. ASSUME NEW q \in Objects, Unlocked(q)
       PROVE  Unlocked(q)'
  BY <1>2, <1>3, <1>12 DEF Unlocked
<1>13. GotInv'
  BY <1>a, <1>1, <1>12 DEF GotInv, TypeOK
<1>14. ExitInv'
  <2>1. ASSUME NEW u \in Threads, pc'[u] = "exit", NEW q \in doomed'[u]
        PROVE  /\ Unlocked(q)'
               /\ \A g \in Hashes : Known(g)' /\ Pointers'[g].pointer = q =>
                    \E m \in PerThread : g = Hash(m, u)
    <3>1. /\ q \in Objects /\ Unlocked(q)
          /\ \A g \in Hashes : Known(g) /\ Pointers[g].pointer = q =>
               \E m \in PerThread : g = Hash(m, u)
      BY <1>a, <2>1 DEF ExitInv, TypeOK
    <3> QED BY <1>3, <1>12, <3>1
  <2>2. ASSUME NEW u \in Threads, pc'[u] = "exit", NEW m \in PerThread, Known(Hash(m, u))'
        PROVE  Pointers'[Hash(m, u)].pointer \in doomed'[u]
    <3>1. Hash(m, u) \in Hashes
      BY HashIsHash
    <3>2. /\ Known(Hash(m, u)) /\ Pointers[Hash(m, u)].pointer # p
          /\ Pointers'[Hash(m, u)] = Pointers[Hash(m, u)]
      BY <1>1, <2>2, <3>1 DEF Known
    <3>3. Pointers[Hash(m, u)].pointer \in doomed[u]
      BY <1>a, <2>2, <3>2 DEF ExitInv
    <3> QED BY <3>2, <3>3
  <2>3. ASSUME NEW u \in Threads, pc'[u] = "exited", NEW m \in PerThread
        PROVE  Pointers'[Hash(m, u)] = None
    <3>1. Hash(m, u) \in Hashes
      BY HashIsHash
    <3> QED BY <1>1, <1>a, <2>3, <3>1 DEF ExitInv, ExitLeavesNothing, At
  <2> QED BY <2>1, <2>2, <2>3 DEF ExitInv, ExitLeavesNothing, At
<1> QED BY <1>6, <1>7, <1>8, <1>9, <1>10, <1>11, <1>13, <1>14 DEF IInv

LEMMA DeallocateStep ==
  ASSUME IInv, NEW t \in Threads, NEW p \in Objects, Deallocate(t, p)
  PROVE  IInv'
<1>1. Free(p) /\ pc' = pc /\ doomed' = doomed /\ p \in got[t] /\ \A n \in Names : sInstance[n] # p
  BY DEF Deallocate
<1>2. Unlocked(p)
  BY <1>1 DEF IInv, GotInv
<1>3. doomed' \in [Threads -> SUBSET Objects]
  BY <1>1 DEF IInv, TypeOK
<1> QED BY <1>1, <1>2, <1>3, FreeStep

LEMMA ExitFreeStep ==
  ASSUME IInv, NEW t \in Threads, ExitFree(t)
  PROVE  IInv'
<1>a. TypeOK /\ EntryInv /\ SingletonInv /\ ExitInv
  BY DEF IInv
<1>1. PICK p \in doomed[t] : Free(p) /\ doomed' = [doomed EXCEPT ![t] = @ \ {p}]
  BY DEF ExitFree
<1>2. pc[t] = "exit" /\ pc' = pc /\ p \in Objects
  BY <1>a DEF ExitFree, At, TypeOK
<1>3. Unlocked(p) /\ \A h \in Hashes : Known(h) /\ Pointers[h].pointer = p =>
                       \E n \in PerThread : h = Hash(n, t)
  BY <1>a, <1>2 DEF ExitInv
<1>4. ASSUME NEW n \in Names, sInstance[n] = p
      PROVE  FALSE
  <2>1. <<n>> \in Hashes /\ Known(<<n>>) /\ Pointers[<<n>>].pointer = p
    BY <1>2, <1>4, <1>a DEF SingletonInv
  <2>2. PICK m \in PerThread : <<n>> = Hash(m, t)
    BY <1>3, <2>1
  <2> QED BY <2>2, SharedHash
<1>5. /\ doomed' \in [Threads -> SUBSET Objects]
      /\ \A u \in Threads : doomed[u] \ {p} \subseteq doomed'[u] /\ doomed'[u] \subseteq doomed[u]
  BY <1>a, <1>1 DEF TypeOK
<1> QED BY <1>1, <1>2, <1>3, <1>4, <1>5, FreeStep

(* What an exiting thread finds is unlocked: only a call of its own, and it
   has none, locks an entry of its own. *)
LEMMA ExitThreadStep ==
  ASSUME IInv, NEW t \in Threads, ExitThread(t)
  PROVE  IInv'
<1>a. TypeOK /\ EntryInv /\ CallInv /\ LockInv /\ MutexInv /\ SingletonInv /\ GotInv /\ ExitInv
  BY DEF IInv
<1> DEFINE D == {Pointers[Hash(n, t)].pointer :
                   n \in {m \in PerThread : Pointers[Hash(m, t)] # None}}
<1>0. D = Allocs(t)
  BY DEF Allocs
<1>1. /\ pc[t] = "idle" /\ pc' = [pc EXCEPT ![t] = "exit"] /\ doomed' = [doomed EXCEPT ![t] = D]
      /\ UNCHANGED <<Mutex, Pointers, sInstance, stack, object, got>>
  BY <1>0 DEF ExitThread, At, Goto, heap
<1>2. /\ pc' \in [Threads -> Labels] /\ pc'[t] = "exit"
      /\ \A u \in Threads : u # t => pc'[u] = pc[u]
  BY <1>a, <1>1 DEF TypeOK, Labels
<1>3. \A n \in PerThread : Hash(n, t) \in Hashes
  BY HashIsHash
<1>4. D \in SUBSET Objects
  BY <1>a, <1>3 DEF TypeOK, Entries
<1>5. /\ doomed' \in [Threads -> SUBSET Objects] /\ doomed'[t] = D
      /\ \A u \in Threads : u # t => doomed'[u] = doomed[u]
  BY <1>a, <1>1, <1>4 DEF TypeOK
<1>6. ASSUME NEW n \in PerThread, Known(Hash(n, t))
      PROVE  Pointers[Hash(n, t)].mutex = None
  <2>1. SUFFICES ASSUME Pointers[Hash(n, t)].mutex # None PROVE FALSE
    OBVIOUS
  <2>2. PICK u \in Threads : Pointers[Hash(n, t)].mutex = u
    BY <1>3, <1>6, <1>a, <2>1 DEF TypeOK, Known, Entries
  <2>3. PICK c \in 1..Len(stack[u]) : HashOf(u, c) = Hash(n, t)
    BY <1>3, <1>6, <1>a, <2>2 DEF LockInv
  <2>4. stack[u][c].name \in Names
    BY <1>a, FrameFacts
  <2>5. u = t
    BY <2>3, <2>4, HashIsOne DEF HashOf
  <2>6. Len(stack[t]) = 0
    BY <1>1, <1>a, EmptySeq DEF CallInv
  <2> QED BY <2>3, <2>5, <2>6
<1>7. ASSUME NEW q \in D
      PROVE  /\ Unlocked(q)
             /\ \A h \in Hashes : Known(h) /\ Pointers[h].pointer = q =>
                  \E n \in PerThread : h = Hash(n, t)
  <2>1. PICK n \in PerThread : Known(Hash(n, t)) /\ q = Pointers[Hash(n, t)].pointer
    BY DEF Known
  <2>2. \A h \in Hashes : Known(h) /\ Pointers[h].pointer = q => h = Hash(n, t)
    BY <1>3, <1>a, <2>1 DEF EntryInv
  <2>3. object[q] # "unallocated"
    BY <1>3, <1>a, <2>1 DEF EntryInv
  <2> QED BY <1>6, <2>1, <2>2, <2>3 DEF Unlocked
<1>8. \A n \in PerThread : Known(Hash(n, t)) => Pointers[Hash(n, t)].pointer \in D
  BY DEF Known
<1> HIDE DEF D
<1>9. TypeOK'
  BY <1>a, <1>1, <1>2, <1>5 DEF TypeOK
<1>10. EntryInv'
  BY <1>a, <1>1 DEF EntryInv, Known
<1>11. CallInv'
  <2>1. ASSUME NEW u \in Threads
        PROVE  /\ stack'[u] = <<>> <=> pc'[u] \in {"idle", "exit", "exited", "threw"}
               /\ \A c \in 1..Len(stack'[u]) : stack'[u][c].singleton =>
                    stack'[u][c].name \notin PerThread
    <3>1. CASE u = t
      BY <1>a, <1>1, <1>2, <3>1 DEF CallInv
    <3>2. CASE u # t
      BY <1>a, <1>1, <1>2, <3>2 DEF CallInv
    <3> QED BY <3>1, <3>2
  <2> QED BY <2>1 DEF CallInv
<1>12. LockInv'
  <2>1. \A u \in Threads : \A c \in 1..Len(stack'[u]) : Open(u, c)' => Open(u, c)
    BY <1>1, <1>2 DEF Open
  <2>2. \A u \in Threads : pc'[u] = "relock" =>
          object'[stack'[u][Len(stack'[u])].pointer] = "built"
    BY <1>a, <1>1, <1>2 DEF LockInv
  <2> QED BY <1>a, <1>1, <2>1, <2>2, LockKept
<1>13. MutexInv'
  BY <1>a, <1>1, <1>2 DEF MutexInv, Known, HashOf
<1>14. SingletonInv'
  BY <1>a, <1>1 DEF SingletonInv, Known
<1>15. GotInv'
  BY <1>a, <1>1 DEF GotInv, Unlocked, Known
<1>16. \A h : (Known(h)' <=> Known(h)) /\ (Unlocked(h)' <=> Unlocked(h))
  BY <1>1 DEF Known, Unlocked
<1>17. ExitInv'
  <2>1. ASSUME NEW u \in Threads, pc'[u] = "exit", NEW q \in doomed'[u]
        PROVE  /\ Unlocked(q)'
               /\ \A g \in Hashes : Known(g)' /\ Pointers'[g].pointer = q =>
                    \E m \in PerThread : g = Hash(m, u)
    <3>1. CASE u = t
      BY <1>1, <1>5, <1>7, <1>16, <2>1, <3>1
    <3>2. CASE u # t
      BY <1>1, <1>2, <1>5, <1>16, <1>a, <2>1, <3>2 DEF ExitInv
    <3> QED BY <3>1, <3>2
  <2>2. ASSUME NEW u \in Threads, pc'[u] = "exit", NEW m \in PerThread, Known(Hash(m, u))'
        PROVE  Pointers'[Hash(m, u)].pointer \in doomed'[u]
    <3>1. CASE u = t
      BY <1>1, <1>5, <1>8, <1>16, <2>2, <3>1
    <3>2. CASE u # t
      BY <1>1, <1>2, <1>5, <1>16, <1>a, <2>2, <3>2 DEF ExitInv
    <3> QED BY <3>1, <3>2
  <2>3. ASSUME NEW u \in Threads, pc'[u] = "exited", NEW m \in PerThread
        PROVE  Pointers'[Hash(m, u)] = None
    BY <1>1, <1>2, <1>a, <2>3 DEF ExitInv, ExitLeavesNothing, At
  <2> QED BY <2>1, <2>2, <2>3 DEF ExitInv, ExitLeavesNothing, At
<1> QED BY <1>9, <1>10, <1>11, <1>12, <1>13, <1>14, <1>15, <1>17 DEF IInv

LEMMA ExitDoneStep ==
  ASSUME IInv, NEW t \in Threads, ExitDone(t)
  PROVE  IInv'
<1>a. TypeOK /\ EntryInv /\ CallInv /\ LockInv /\ MutexInv /\ SingletonInv /\ GotInv /\ ExitInv
  BY DEF IInv
<1>1. /\ pc[t] = "exit" /\ doomed[t] = {} /\ pc' = [pc EXCEPT ![t] = "exited"]
      /\ UNCHANGED <<Mutex, Pointers, sInstance, stack, doomed, object, got>>
  BY DEF ExitDone, At, Goto, heap
<1>2. /\ pc' \in [Threads -> Labels] /\ pc'[t] = "exited"
      /\ \A u \in Threads : u # t => pc'[u] = pc[u]
  BY <1>a, <1>1 DEF TypeOK, Labels
<1>3. TypeOK'
  BY <1>a, <1>1, <1>2 DEF TypeOK
<1>4. EntryInv'
  BY <1>a, <1>1 DEF EntryInv, Known
<1>5. CallInv'
  <2>1. ASSUME NEW u \in Threads
        PROVE  /\ stack'[u] = <<>> <=> pc'[u] \in {"idle", "exit", "exited", "threw"}
               /\ \A c \in 1..Len(stack'[u]) : stack'[u][c].singleton =>
                    stack'[u][c].name \notin PerThread
    <3>1. CASE u = t
      BY <1>a, <1>1, <1>2, <3>1 DEF CallInv
    <3>2. CASE u # t
      BY <1>a, <1>1, <1>2, <3>2 DEF CallInv
    <3> QED BY <3>1, <3>2
  <2> QED BY <2>1 DEF CallInv
<1>6. LockInv'
  <2>1. \A u \in Threads : \A c \in 1..Len(stack'[u]) : Open(u, c)' => Open(u, c)
    BY <1>1, <1>2 DEF Open
  <2>2. \A u \in Threads : pc'[u] = "relock" =>
          object'[stack'[u][Len(stack'[u])].pointer] = "built"
    BY <1>a, <1>1, <1>2 DEF LockInv
  <2> QED BY <1>a, <1>1, <2>1, <2>2, LockKept
<1>7. MutexInv'
  BY <1>a, <1>1, <1>2 DEF MutexInv, Known, HashOf
<1>8. SingletonInv'
  BY <1>a, <1>1 DEF SingletonInv, Known
<1>9. GotInv'
  BY <1>a, <1>1 DEF GotInv, Unlocked, Known
<1>10. \A h : (Known(h)' <=> Known(h)) /\ (Unlocked(h)' <=> Unlocked(h))
  BY <1>1 DEF Known, Unlocked
<1>11. ExitInv'
  <2>1. \A u \in Threads : pc'[u] = "exit" => u # t /\ pc[u] = "exit"
    BY <1>2
  <2>2. ASSUME NEW u \in Threads, pc'[u] = "exit", NEW q \in doomed'[u]
        PROVE  /\ Unlocked(q)'
               /\ \A g \in Hashes : Known(g)' /\ Pointers'[g].pointer = q =>
                    \E m \in PerThread : g = Hash(m, u)
    BY <1>1, <1>10, <1>a, <2>1, <2>2 DEF ExitInv
  <2>3. ASSUME NEW u \in Threads, pc'[u] = "exit", NEW m \in PerThread, Known(Hash(m, u))'
        PROVE  Pointers'[Hash(m, u)].pointer \in doomed'[u]
    BY <1>1, <1>10, <1>a, <2>1, <2>3 DEF ExitInv
  <2>4. ASSUME NEW u \in Threads, pc'[u] = "exited", NEW m \in PerThread
        PROVE  Pointers'[Hash(m, u)] = None
    <3>1. CASE u = t
      BY <1>1, <1>a, <3>1 DEF ExitInv, Known
    <3>2. CASE u # t
      BY <1>1, <1>2, <1>a, <2>4, <3>2 DEF ExitInv, ExitLeavesNothing, At
    <3> QED BY <3>1, <3>2
  <2> QED BY <2>2, <2>3, <2>4 DEF ExitInv, ExitLeavesNothing, At
<1> QED BY <1>3, <1>4, <1>5, <1>6, <1>7, <1>8, <1>9, <1>11 DEF IInv

(* An exit_thread() that throws has changed nothing. *)
LEMMA ExitThrowStep ==
  ASSUME IInv, NEW t \in Threads, ExitThrow(t)
  PROVE  IInv'
<1>a. TypeOK /\ EntryInv /\ CallInv /\ LockInv /\ MutexInv /\ SingletonInv /\ GotInv /\ ExitInv
  BY DEF IInv
<1>1. /\ pc[t] = "idle" /\ pc' = [pc EXCEPT ![t] = "threw"]
      /\ UNCHANGED <<Mutex, Pointers, sInstance, stack, doomed, object, got>>
  BY DEF ExitThrow, At, Goto, heap
<1>2. /\ pc' \in [Threads -> Labels] /\ pc'[t] = "threw"
      /\ \A u \in Threads : u # t => pc'[u] = pc[u]
  BY <1>a, <1>1 DEF TypeOK, Labels
<1>3. TypeOK'
  BY <1>a, <1>1, <1>2 DEF TypeOK
<1>4. EntryInv'
  BY <1>a, <1>1 DEF EntryInv, Known
<1>5. CallInv'
  <2>1. ASSUME NEW u \in Threads
        PROVE  /\ stack'[u] = <<>> <=> pc'[u] \in {"idle", "exit", "exited", "threw"}
               /\ \A c \in 1..Len(stack'[u]) : stack'[u][c].singleton =>
                    stack'[u][c].name \notin PerThread
    <3>1. CASE u = t
      BY <1>a, <1>1, <1>2, <3>1 DEF CallInv
    <3>2. CASE u # t
      BY <1>a, <1>1, <1>2, <3>2 DEF CallInv
    <3> QED BY <3>1, <3>2
  <2> QED BY <2>1 DEF CallInv
<1>6. LockInv'
  <2>1. \A u \in Threads : \A c \in 1..Len(stack'[u]) : Open(u, c)' => Open(u, c)
    BY <1>1, <1>2 DEF Open
  <2>2. \A u \in Threads : pc'[u] = "relock" =>
          object'[stack'[u][Len(stack'[u])].pointer] = "built"
    BY <1>a, <1>1, <1>2 DEF LockInv
  <2> QED BY <1>a, <1>1, <2>1, <2>2, LockKept
<1>7. MutexInv'
  BY <1>a, <1>1, <1>2 DEF MutexInv, Known, HashOf
<1>8. SingletonInv'
  BY <1>a, <1>1 DEF SingletonInv, Known
<1>9. GotInv'
  BY <1>a, <1>1 DEF GotInv, Unlocked, Known
<1>10. \A h : (Known(h)' <=> Known(h)) /\ (Unlocked(h)' <=> Unlocked(h))
  BY <1>1 DEF Known, Unlocked
<1>11. ExitInv'
  <2>1. \A u \in Threads : pc'[u] = "exit" => u # t /\ pc[u] = "exit"
    BY <1>2
  <2>2. ASSUME NEW u \in Threads, pc'[u] = "exit", NEW q \in doomed'[u]
        PROVE  /\ Unlocked(q)'
               /\ \A g \in Hashes : Known(g)' /\ Pointers'[g].pointer = q =>
                    \E m \in PerThread : g = Hash(m, u)
    BY <1>1, <1>10, <1>a, <2>1, <2>2 DEF ExitInv
  <2>3. ASSUME NEW u \in Threads, pc'[u] = "exit", NEW m \in PerThread, Known(Hash(m, u))'
        PROVE  Pointers'[Hash(m, u)].pointer \in doomed'[u]
    BY <1>1, <1>10, <1>a, <2>1, <2>3 DEF ExitInv
  <2>4. ASSUME NEW u \in Threads, pc'[u] = "exited", NEW m \in PerThread
        PROVE  Pointers'[Hash(m, u)] = None
    BY <1>1, <1>2, <1>a, <2>4 DEF ExitInv, ExitLeavesNothing, At
  <2> QED BY <2>2, <2>3, <2>4 DEF ExitInv, ExitLeavesNothing, At
<1> QED BY <1>3, <1>4, <1>5, <1>6, <1>7, <1>8, <1>9, <1>11 DEF IInv

-----------------------------------------------------------------------------
(* The theorems                                                            *)

LEMMA InitInv == Init => IInv
<1> SUFFICES ASSUME Init PROVE IInv
  OBVIOUS
<1>1. TypeOK
  BY EmptySeq DEF Init, TypeOK, Labels
<1>2. \A h \in Hashes : ~Known(h)
  BY DEF Init, Known
<1>3. \A t \in Threads : pc[t] = "idle" /\ stack[t] = <<>> /\ got[t] = {}
  BY DEF Init
<1>4. EntryInv
  BY <1>2 DEF EntryInv, Init
<1>5. CallInv
  BY <1>3, EmptySeq DEF CallInv
<1>6. LockInv
  <2>1. \A t \in Threads : Len(stack[t]) = 0
    BY <1>3
  <2> QED BY <1>2, <1>3, <2>1 DEF LockInv
<1>7. MutexInv /\ GotInv
  BY <1>3 DEF MutexInv, GotInv
<1>8. SingletonInv
  BY DEF Init, SingletonInv
<1>9. ExitInv
  BY <1>3 DEF ExitInv, ExitLeavesNothing, At
<1> QED BY <1>1, <1>4, <1>5, <1>6, <1>7, <1>8, <1>9 DEF IInv

(* What a step of a thread must show: the invariant, and that a thread that
   leaves find_or_allocate() is given nothing but objects that are built. *)
NewIsBuilt == \A t \in Threads : pc[t] \in {"shared", "relock"} =>
                \A p \in got'[t] \ got[t] : object'[p] = "built"

LEMMA NextInv == ASSUME IInv, [Next]_vars PROVE IInv' /\ NewIsBuilt
<1>1. CASE UNCHANGED vars
  <2>1. IInv'
    BY <1>1 DEF IInv, TypeOK, EntryInv, CallInv, LockInv, MutexInv, SingletonInv, GotInv,
                ExitInv, ExitLeavesNothing, At, Unlocked, Known, Open, HashOf, vars, heap
  <2>2. NewIsBuilt
    BY <1>1 DEF NewIsBuilt, vars
  <2> QED BY <2>1, <2>2
<1>2. ASSUME NEW t \in Threads, Ask(t) PROVE IInv' /\ NewIsBuilt
  <2>1. PICK n \in Names : \/ FindOrAllocate(t, n) \/ SingletonMissing(t, n)
                           \/ SingletonCached(t, n)
    BY <1>2 DEF Ask
  <2>2. pc[t] \in {"idle", "construct"} /\ \A u \in Threads : u # t => got'[u] = got[u]
    BY <2>1 DEF FindOrAllocate, SingletonMissing, SingletonCached, Calls, At, Enter, Receive,
                IInv, TypeOK
  <2>3. NewIsBuilt
    BY <2>2 DEF NewIsBuilt
  <2>4. CASE FindOrAllocate(t, n)
    BY <2>3, <2>4, EnterStep DEF FindOrAllocate
  <2>5. CASE SingletonMissing(t, n)
    BY <2>3, <2>5, EnterStep DEF SingletonMissing
  <2>6. CASE SingletonCached(t, n)
    BY <2>3, <2>6, SingletonCachedStep
  <2> QED BY <2>1, <2>4, <2>5, <2>6
<1>3. ASSUME NEW t \in Threads, \/ Allocate(t) \/ Locate(t) \/ Construct(t) \/ ExitDone(t)
                                \/ ExitThread(t) \/ ExitThrow(t) \/ ExitFree(t)
                                \/ \E p \in Objects : Deallocate(t, p)
      PROVE  IInv' /\ NewIsBuilt
  <2>1. \A u \in Threads : got'[u] \subseteq got[u]
    <3>1. CASE \/ Allocate(t) \/ Locate(t) \/ Construct(t) \/ ExitDone(t) \/ ExitThread(t)
               \/ ExitThrow(t)
      BY <3>1 DEF Allocate, Locate, Construct, ExitDone, ExitThread, ExitThrow
    <3>2. CASE \E p \in Objects : Free(p)
      BY <3>2 DEF Free
    <3>3. CASE ExitFree(t) \/ \E p \in Objects : Deallocate(t, p)
      BY <3>2, <3>3 DEF ExitFree, Deallocate, IInv, TypeOK
    <3> QED BY <1>3, <3>1, <3>3
  <2>2. NewIsBuilt
    BY <2>1 DEF NewIsBuilt
  <2>3. IInv'
    BY <1>3, AllocateStep, LocateStep, ConstructStep, ExitDoneStep, ExitThreadStep, ExitThrowStep,
       ExitFreeStep, DeallocateStep
  <2> QED BY <2>2, <2>3
<1>4. ASSUME NEW t \in Threads, Found(t) \/ Unlock(t)
      PROVE  IInv' /\ NewIsBuilt
  <2>1. IInv' /\ \A p \in got'[t] \ got[t] : object'[p] = "built"
    BY <1>4, FoundStep, UnlockStep
  <2>2. \A u \in Threads : u # t => got'[u] = got[u]
    BY <1>4 DEF Found, Unlock, Leave, Receive, IInv, TypeOK
  <2> QED BY <2>1, <2>2 DEF NewIsBuilt
<1> QED BY <1>1, <1>2, <1>3, <1>4 DEF Next, Acquire, Run

(* The inductive invariant holds in every state. *)
THEOREM HeapInvariant == Spec => []IInv
<1> QED BY InitInv, NextInv, PTL DEF Spec

(* The variables of the heap keep their types: find_or_allocate() always has
   an entry to give when it does not make one. *)
THEOREM HeapTypeCorrect == Spec => []TypeOK
<1>1. IInv => TypeOK
  BY DEF IInv
<1> QED BY <1>1, HeapInvariant, PTL

(* process_heap's promise "singular throughout the entire process": a live
   object is the object of exactly one name. *)
THEOREM NamesAreSingular == Spec => []OneObjectPerName
<1>1. IInv => OneObjectPerName
  <2> SUFFICES ASSUME EntryInv, NEW p \in Objects, object[p] \in {"allocated", "built"}
               PROVE  \E h \in Hashes : /\ Pointers[h] # None /\ Pointers[h].pointer = p
                                        /\ \A g \in Hashes \ {h} :
                                             Pointers[g] # None => Pointers[g].pointer # p
    BY DEF IInv, OneObjectPerName
  <2>1. PICK h \in Hashes : Known(h) /\ Pointers[h].pointer = p
    BY DEF EntryInv
  <2>2. \A g \in Hashes \ {h} : Known(g) => Pointers[g].pointer # p
    BY <2>1 DEF EntryInv
  <2> QED BY <2>1, <2>2 DEF Known
<1> QED BY <1>1, HeapInvariant, PTL

(* find_or_allocate() returns no object that another thread constructs. *)
THEOREM FoundIsComplete == Spec => FoundIsBuilt
<1>1. IInv /\ [Next]_vars => NewIsBuilt
  BY NextInv
<1>2. NewIsBuilt => [\A t \in Threads : pc[t] \in {"shared", "relock"} =>
                       \A p \in got'[t] \ got[t] : object'[p] = "built"]_vars
  BY DEF NewIsBuilt
<1> QED BY <1>1, <1>2, HeapInvariant, PTL DEF Spec, FoundIsBuilt

(* An exit_thread() that returns has freed every object of the thread, whatever
   others free and however many there are: one that cannot list all throws. *)
THEOREM ExitIsClean == Spec => []ExitLeavesNothing
<1>1. IInv => ExitLeavesNothing
  BY DEF IInv, ExitInv
<1> QED BY <1>1, HeapInvariant, PTL

=============================================================================
