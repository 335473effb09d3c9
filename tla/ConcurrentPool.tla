---------------------------- MODULE ConcurrentPool ----------------------------
(***************************************************************************)
(* ouro::concurrent_pool (source/oMemory/concurrent_pool.cpp): a free list *)
(* of blocks threaded through the blocks themselves. head holds the index  *)
(* of the first free block and a tag of eight bits that every exchange     *)
(* increments, so that a thread notices that the list has changed between  *)
(* its load of head and its compare_exchange.                              *)
(***************************************************************************)
EXTENDS Integers, Sequences

CONSTANTS
  Threads,
  nblocks,
  Tags     \* the number of values of the tag: 2^8

Index == 0..nblocks - 1
nullidx == nblocks \* stands for 0x00ffffff, which is no index

ASSUME PoolAssumption == nblocks \in Nat \ {0} /\ Tags \in Nat \ {0, 1}

VARIABLES
  head,   \* [index, tag]
  next,   \* next[i]: what the first bytes of block i hold
  pc,
  o, n,   \* o[p]: the head p has loaded; n[p]: the index it read from the block
  index,  \* index[p]: the block p deallocates
  held,   \* the blocks the program holds
  free,   \* the free list, first block first (history)
  behind  \* behind[p]: the exchanges since p loaded head (history)

vars == <<head, next, pc, o, n, index, held, free, behind>>

Goto(p, label) == pc' = [pc EXCEPT ![p] = label]
NoHead == [index |-> 0, tag |-> 0] \* o[p] when p is in no operation
(* Definitions named Bug... are seeded bugs: the definition that follows them
   with one plausible mistake. No specification uses them. *)

(* Bug: the tag stays as it is. *)
BugInc(tag) == tag

(* n.tag = o.tag + 1 in a bit-field *)
Inc(tag) == IF tag + 1 = Tags THEN 0 ELSE tag + 1

(* the blocks in deallocate() *)
Returning == {index[p] : p \in {q \in Threads : pc[q] \in {"dealloc", "dealloc_cas"}}}

(* initialize() *)
Init ==
  /\ head = [index |-> 0, tag |-> 0]
  /\ next = [i \in Index |-> i + 1] \* the last one has nullidx
  /\ pc = [p \in Threads |-> "idle"]
  /\ o = [p \in Threads |-> NoHead] /\ n = [p \in Threads |-> nullidx]
  /\ index = [p \in Threads |-> 0]
  /\ held = {}
  /\ free = [k \in 1..nblocks |-> k - 1]
  /\ behind = [p \in Threads |-> 0]

(* The value of head that p goes on with *)
LoadHead(p) ==
  /\ o' = [o EXCEPT ![p] = head] /\ n' = [n EXCEPT ![p] = nullidx]
  /\ behind' = [behind EXCEPT ![p] = 0]

(* The assumption the eight bits rest on: while a thread is between its load
   and its exchange, the others do not make Tags - 1 exchanges. *)
NoWrap == \A p \in Threads : pc[p] # "idle" => behind[p] < Tags - 1

(* A successful compare_exchange_strong() *)
Exchange(p, i) ==
  /\ head = o[p] /\ NoWrap
  /\ head' = [index |-> i, tag |-> Inc(o[p].tag)]
  /\ behind' = [q \in Threads |-> IF pc[q] = "idle" \/ q = p THEN 0 ELSE behind[q] + 1]
  /\ o' = [o EXCEPT ![p] = NoHead] /\ n' = [n EXCEPT ![p] = nullidx]
  /\ Goto(p, "idle")

---------------------------------------------------------------------------
(* allocate_index() *)

AllocCall(p) ==
  /\ pc[p] = "idle"
  /\ LoadHead(p)
  /\ Goto(p, "alloc")
  /\ UNCHANGED <<head, next, index, held, free>>

(* nullidx is returned. *)
AllocEmpty(p) ==
  /\ pc[p] = "alloc" /\ o[p].index = nullidx
  /\ o' = [o EXCEPT ![p] = NoHead] /\ behind' = [behind EXCEPT ![p] = 0]
  /\ Goto(p, "idle")
  /\ UNCHANGED <<head, next, n, index, held, free>>

(* The block is read whether or not it is still free. *)
AllocNext(p) ==
  /\ pc[p] = "alloc" /\ o[p].index # nullidx
  /\ n' = [n EXCEPT ![p] = next[o[p].index]]
  /\ Goto(p, "alloc_cas")
  /\ UNCHANGED <<head, next, o, index, held, free, behind>>

AllocExchange(p) ==
  /\ pc[p] = "alloc_cas"
  /\ Exchange(p, n[p])
  /\ held' = held \cup {o[p].index}
  /\ free' = SubSeq(free, 2, Len(free))
  /\ UNCHANGED <<next, index>>

(* A failed compare_exchange_strong() loads head again. *)
Retry(p, from, to) ==
  /\ pc[p] = from /\ head # o[p]
  /\ LoadHead(p)
  /\ Goto(p, to)
  /\ UNCHANGED <<head, next, index, held, free>>

AllocRetry(p) == Retry(p, "alloc_cas", "alloc")

---------------------------------------------------------------------------
(* deallocate(index) of a block the program holds, by any thread *)

DeallocCall(p, i) ==
  /\ pc[p] = "idle" /\ i \in held
  /\ LoadHead(p)
  /\ index' = [index EXCEPT ![p] = i]
  /\ held' = held \ {i}
  /\ Goto(p, "dealloc")
  /\ UNCHANGED <<head, next, free>>

(* Bug: the block is made the end of the list, not linked to the head that the
   exchange compares with. *)
BugDeallocLink(p) ==
  /\ pc[p] = "dealloc"
  /\ next' = [next EXCEPT ![index[p]] = nullidx]
  /\ Goto(p, "dealloc_cas")
  /\ UNCHANGED <<head, o, n, index, held, free, behind>>

DeallocLink(p) ==
  /\ pc[p] = "dealloc"
  /\ next' = [next EXCEPT ![index[p]] = o[p].index]
  /\ Goto(p, "dealloc_cas")
  /\ UNCHANGED <<head, o, n, index, held, free, behind>>

DeallocExchange(p) ==
  /\ pc[p] = "dealloc_cas"
  /\ Exchange(p, index[p])
  /\ free' = <<index[p]>> \o free
  /\ index' = [index EXCEPT ![p] = 0]
  /\ UNCHANGED <<next, held>>

DeallocRetry(p) == Retry(p, "dealloc_cas", "dealloc")

(* The program writes to a block it holds, its first bytes included. *)
UserWrite(i, data) ==
  /\ i \in held
  /\ next' = [next EXCEPT ![i] = data]
  /\ UNCHANGED <<head, pc, o, n, index, held, free, behind>>

---------------------------------------------------------------------------
Next ==
  \/ \E p \in Threads :
       \/ AllocCall(p) \/ AllocEmpty(p) \/ AllocNext(p) \/ AllocExchange(p) \/ AllocRetry(p)
       \/ \E i \in Index : DeallocCall(p, i)
       \/ DeallocLink(p) \/ DeallocExchange(p) \/ DeallocRetry(p)
  \/ \E i \in Index, data \in 0..nblocks : UserWrite(i, data)

Spec == Init /\ [][Next]_vars

---------------------------------------------------------------------------
Heads == [index : 0..nblocks, tag : 0..Tags - 1]
Labels == {"idle", "alloc", "alloc_cas", "dealloc", "dealloc_cas"}

TypeOK ==
  /\ head \in Heads
  /\ next \in [Index -> 0..nblocks]
  /\ pc \in [Threads -> Labels]
  /\ o \in [Threads -> Heads] /\ n \in [Threads -> 0..nblocks]
  /\ index \in [Threads -> Index]
  /\ held \in SUBSET Index
  /\ free \in Seq(Index)
  /\ behind \in [Threads -> Nat]

FreeSet == {free[k] : k \in 1..Len(free)}

(* head and the blocks link exactly the free blocks, in order, whatever the
   program writes to the blocks it holds and whatever allocations read. *)
ListIntact ==
  /\ head.index = IF Len(free) = 0 THEN nullidx ELSE free[1]
  /\ \A k \in 1..Len(free) :
       next[free[k]] = IF k = Len(free) THEN nullidx ELSE free[k + 1]
  /\ \A j, k \in 1..Len(free) : free[j] = free[k] => j = k

(* allocate_index() never hands out a block the program holds or is giving
   back, although it may have read the links of blocks that were not free. *)
AllocatesFreeBlock ==
  [][\A p \in Threads : pc[p] = "alloc_cas" /\ pc'[p] = "idle" =>
       o[p].index \notin held \cup Returning]_vars

(* Lock freedom: an exchange fails only when another thread's has succeeded
   since head was loaded. *)
RetryMeansProgress ==
  [][\A p \in Threads :
       \/ pc[p] = "alloc_cas" /\ pc'[p] = "alloc"
       \/ pc[p] = "dealloc_cas" /\ pc'[p] = "dealloc"
       => behind[p] > 0]_vars

(* The blocks that head leads to: the least set that is closed under next *)
Linked ==
  {i \in Index : \A S \in SUBSET Index :
     (\A j \in Index : j = head.index \/ (\E k \in S : next[k] = j) => j \in S) => i \in S}

(* The pool implements IndexPool: each block is free, held or on its way back,
   and allocate_index() fails only if no block was free when it loaded head. *)
Abstract == INSTANCE IndexPool WITH
  free <- Linked, returning <- Returning,
  told <- {p \in Threads : pc[p] = "alloc" /\ o[p].index = nullidx}

ImplementsIndexPool == Abstract!Spec

---------------------------------------------------------------------------
(* The inductive invariant *)

(* Every block is in exactly one place. *)
BlocksInv ==
  /\ FreeSet \cup held \cup Returning = Index
  /\ FreeSet \cap held = {} /\ FreeSet \cap Returning = {} /\ held \cap Returning = {}
  /\ \A p, q \in Threads :
       p # q /\ pc[p] \in {"dealloc", "dealloc_cas"} /\ pc[q] \in {"dealloc", "dealloc_cas"}
         => index[p] # index[q]

(* While no exchange came between, the head p has loaded is the head, and
   what p read from the first block is its link. *)
Current(p) ==
  pc[p] # "idle" =>
    /\ behind[p] < Tags
    /\ head.tag = IF o[p].tag + behind[p] < Tags THEN o[p].tag + behind[p]
                  ELSE o[p].tag + behind[p] - Tags
    /\ behind[p] = 0 => head = o[p]
    /\ pc[p] = "alloc_cas" => o[p].index # nullidx
    /\ pc[p] = "alloc_cas" /\ behind[p] = 0 => n[p] = next[o[p].index]
    /\ pc[p] = "dealloc_cas" => next[index[p]] = o[p].index

(* Memory, blocks and threads: what every step preserves, and what makes the
   other properties hold *)
IInv == TypeOK /\ ListIntact /\ BlocksInv /\ \A p \in Threads : Current(p)
=============================================================================
