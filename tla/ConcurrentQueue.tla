---------------------------- MODULE ConcurrentQueue ----------------------------
(***************************************************************************)
(* ouro::concurrent_queue (include/oConcurrency/concurrent_queue.h): the   *)
(* queue of Michael and Scott with its nodes in a concurrent_object_pool.  *)
(* head is a dummy node, the first element is in the node behind it; tail  *)
(* is the last node or the one before it.  The 64-bit build is modelled,   *)
(* in which the tag that should tell two uses of a node apart is always 0  *)
(* (tagged_pointer.h:34 and 52): an exchange compares addresses only.  A   *)
(* node in the pool is a link of the pool's free list: its block begins    *)
(* with next, whose lower half then is the index of the block below it.    *)
(***************************************************************************)
EXTENDS Naturals, Sequences, FiniteSets

CONSTANTS
  Threads,
  Nodes,      \* the blocks of pool
  First,      \* the one with index 0
  Values,
  None,       \* nullptr, no value
  MaxPushes,  \* bound: how often push() is called
  SafeReuse,  \* TRUE: create() gives no node that a call under way still refers to
  LowMemory,  \* TRUE: the pool lies where the upper half of an address is 0
  FreeLink    \* a word with the upper half of an address and an index below, not 0

ASSUME QueueAssumption ==
  /\ First \in Nodes /\ IsFiniteSet(Nodes) /\ None \notin Nodes \cup Values
  /\ FreeLink # None /\ LowMemory \in BOOLEAN
  /\ MaxPushes \in Nat /\ SafeReuse \in BOOLEAN

VARIABLES
  trivial_dtor, \* which of the two versions of internal_try_pop() T selects
  head, tail,
  next, value, flag, \* the members of the nodes
  free,         \* the nodes in pool
  pc,
  reg,          \* the local variables of each thread
  pushes        \* the number of calls of push() so far

vars == <<trivial_dtor, head, tail, next, value, flag, free, pc, reg, pushes>>

(* n: the node p pushes; h, t, next as in the code; last: the second reading
   of tail in internal_push(); val: what trivial try_pop() has copied *)
NoReg == [n |-> None, h |-> None, t |-> None, next |-> None, last |-> None, val |-> None]

At(p, label) == pc[p] = label
Go(p, label, r) == pc' = [pc EXCEPT ![p] = label] /\ reg' = [reg EXCEPT ![p] = r]

(* tagged_pointer(ptr, tag): the mask is shifted already, no tag survives *)
Word(ptr, tag) == ptr

RefersTo(p) == {reg[p].h, reg[p].t, reg[p].next, reg[p].last}

(* Definitions named Bug... are seeded bugs: the definition that follows them
   with one plausible mistake. No specification uses them. *)

---------------------------------------------------------------------------
(* initialize(): the first block becomes the sentinel, a node with a value_type()
   whose flag is set since it is never popped. *)
Init ==
  /\ trivial_dtor \in BOOLEAN
  /\ head = First /\ tail = First
  /\ free = Nodes \ {First}
  /\ next = [n \in Nodes |-> IF n = First THEN None ELSE FreeLink]
  /\ \E v \in Values : value = [n \in Nodes |-> IF n = First THEN v ELSE None]
  /\ flag = [n \in Nodes |-> n = First]
  /\ pc = [p \in Threads |-> "idle"]
  /\ reg = [p \in Threads |-> NoReg]
  /\ pushes = 0

---------------------------------------------------------------------------
(* A call that follows a word that is no address has no defined behaviour: in
   the model it stops there. *)

(* push(): the node is created, ... *)
PushCall(p, v) ==
  /\ At(p, "idle") /\ pushes < MaxPushes
  /\ pushes' = pushes + 1
  /\ \E n \in free :
       /\ SafeReuse => \A q \in Threads : n \notin RefersTo(q)
       /\ free' = free \ {n}
       /\ next' = [next EXCEPT ![n] = Word(None, 0)]
       /\ value' = [value EXCEPT ![n] = v]
       /\ flag' = [flag EXCEPT ![n] = FALSE]
       /\ Go(p, "push", [NoReg EXCEPT !.n = n])
  /\ UNCHANGED <<trivial_dtor, head, tail>>

(* ... or bad_alloc is thrown, and the queue is as it was. *)
PushThrow(p) == At(p, "idle") /\ free = {} /\ UNCHANGED vars

mem == <<trivial_dtor, next, value, flag, free, pushes>>

PushLoadTail(p) ==
  /\ At(p, "push")
  /\ Go(p, "push_next", [NoReg EXCEPT !.n = reg[p].n, !.t = tail])
  /\ UNCHANGED <<mem, head, tail>>

PushLoadNext(p) ==
  /\ At(p, "push_next") /\ reg[p].t \in Nodes
  /\ Go(p, "push_check", [reg[p] EXCEPT !.next = next[reg[p].t]])
  /\ UNCHANGED <<mem, head, tail>>

(* if (t == tail), if (!next.ptr()) *)
PushCheck(p) ==
  /\ At(p, "push_check")
  /\ Go(p, CASE reg[p].t # tail -> "push"
             [] reg[p].t = tail /\ reg[p].next = None -> "push_last"
             [] OTHER -> "push_help", reg[p])
  /\ UNCHANGED <<mem, head, tail>>

(* tail is read again for the node that the exchange links to. *)
PushLoadLast(p) ==
  /\ At(p, "push_last")
  /\ Go(p, "push_link", [reg[p] EXCEPT !.last = tail])
  /\ UNCHANGED <<mem, head, tail>>

PushLink(p) ==
  LET l == reg[p].last IN
  /\ At(p, "push_link") /\ l \in Nodes
  /\ IF next[l] = reg[p].next
     THEN next' = [next EXCEPT ![l] = Word(reg[p].n, 1)] /\ Go(p, "push_swing", reg[p])
     ELSE UNCHANGED next /\ Go(p, "push", [NoReg EXCEPT !.n = reg[p].n])
  /\ UNCHANGED <<trivial_dtor, head, tail, value, flag, free, pushes>>

(* Bug: tail is left where it is. *)
BugSwingTail(p, to) == tail' = tail

(* tail.cas(t, to) *)
SwingTail(p, to) == tail' = IF tail = reg[p].t THEN Word(to, 1) ELSE tail

(* A tail that lags behind is moved on. *)
PushHelp(p) ==
  /\ At(p, "push_help")
  /\ SwingTail(p, reg[p].next)
  /\ Go(p, "push", [NoReg EXCEPT !.n = reg[p].n])
  /\ UNCHANGED <<mem, head>>

PushReturn(p) ==
  /\ At(p, "push_swing")
  /\ SwingTail(p, reg[p].n)
  /\ Go(p, "idle", NoReg)
  /\ UNCHANGED <<mem, head>>

---------------------------------------------------------------------------
(* try_pop(), both versions *)

(* Bug: the exchange of head is a store. *)
BugHeadIs(h) == TRUE

(* What head.cas(h, ...) and if (h == head) compare *)
HeadIs(h) == head = h

PopLoadHead(p) ==
  /\ pc[p] \in {"idle", "pop"}
  /\ Go(p, "pop_tail", [NoReg EXCEPT !.h = head])
  /\ UNCHANGED <<mem, head, tail>>

PopLoadTail(p) ==
  /\ At(p, "pop_tail")
  /\ Go(p, "pop_next", [reg[p] EXCEPT !.t = tail])
  /\ UNCHANGED <<mem, head, tail>>

PopLoadNext(p) ==
  /\ At(p, "pop_next") /\ reg[p].h \in Nodes
  /\ Go(p, "pop_check", [reg[p] EXCEPT !.next = next[reg[p].h]])
  /\ UNCHANGED <<mem, head, tail>>

(* if (h == head), if (h.ptr() == t.ptr()), if (!nptr) *)
PopCheck(p) ==
  LET r == reg[p] IN
  /\ At(p, "pop_check")
  /\ \/ r.h # head /\ Go(p, "pop", NoReg)
     \/ HeadIs(r.h) /\ r.h = r.t /\ r.next = None /\ Go(p, "idle", NoReg)
     \/ HeadIs(r.h) /\ r.h = r.t /\ r.next # None /\ Go(p, "pop_help", r)
     \/ HeadIs(r.h) /\ r.h # r.t /\ Go(p, IF trivial_dtor THEN "pop_copy" ELSE "pop_cas", r)
  /\ UNCHANGED <<mem, head, tail>>

PopHelp(p) ==
  /\ At(p, "pop_help")
  /\ SwingTail(p, reg[p].next)
  /\ Go(p, "pop", NoReg)
  /\ UNCHANGED <<mem, head>>

(* T with a trivial destructor is copied before the exchange, whoever the
   node belongs to by now. *)
PopCopy(p) ==
  /\ At(p, "pop_copy") /\ reg[p].next \in Nodes
  /\ Go(p, "pop_cas", [reg[p] EXCEPT !.val = value[reg[p].next]])
  /\ UNCHANGED <<mem, head, tail>>

PopExchange(p) ==
  /\ At(p, "pop_cas")
  /\ IF HeadIs(reg[p].h)
     THEN head' = Word(reg[p].next, 1) /\ Go(p, IF trivial_dtor THEN "pop_free" ELSE "pop_move", reg[p])
     ELSE UNCHANGED head /\ Go(p, "pop", NoReg)
  /\ UNCHANGED <<mem, tail>>

(* What the lower half of next, set to the index of block i, makes of it *)
FreeWord(i) == IF LowMemory /\ i = First THEN None ELSE FreeLink

(* pool.destroy(n): ~node(), with it ~T(), then deallocate(), which writes the
   index of the block on top of the free list, or nullidx, over the block.  Its
   loop is one step here, and any free block may be on top. *)
Destroy(n) ==
  /\ free' = free \cup {n}
  /\ \E i \in IF free = {} THEN {None} ELSE free : next' = [next EXCEPT ![n] = FreeWord(i)]
  /\ value' = IF trivial_dtor THEN value ELSE [value EXCEPT ![n] = None]

PopFree(p) ==
  /\ At(p, "pop_free")
  /\ Destroy(reg[p].h)
  /\ Go(p, "idle", NoReg)
  /\ UNCHANGED <<trivial_dtor, head, tail, flag, pushes>>

(* Any other T is moved out of the new dummy and destroyed. *)
PopMove(p) ==
  LET d == reg[p].next IN
  /\ At(p, "pop_move") /\ d \in Nodes
  /\ value' = [value EXCEPT ![d] = None]
  /\ Go(p, "pop_flag_next", [reg[p] EXCEPT !.val = value[d]])
  /\ UNCHANGED <<trivial_dtor, head, tail, next, flag, free, pushes>>

(* Bug: the first of the two threads returns the node. *)
BugDeallocate(n) ==
  /\ flag' = [flag EXCEPT ![n] = TRUE]
  /\ IF flag[n] THEN UNCHANGED <<free, next, value>> ELSE Destroy(n)

(* if (n->should_deallocate()) pool.destroy(n): the second of the two threads
   that are done with the node returns it to the pool.  Its element has been
   destroyed in pop_move, and is destroyed again. *)
Deallocate(n) ==
  /\ flag' = [flag EXCEPT ![n] = TRUE]
  /\ IF flag[n] THEN Destroy(n) ELSE UNCHANGED <<free, next, value>>

PopFlagNext(p) ==
  /\ At(p, "pop_flag_next")
  /\ Deallocate(reg[p].next)
  /\ Go(p, "pop_flag_head", reg[p])
  /\ UNCHANGED <<trivial_dtor, head, tail, pushes>>

PopFlagHead(p) ==
  /\ At(p, "pop_flag_head")
  /\ Deallocate(reg[p].h)
  /\ Go(p, "idle", NoReg)
  /\ UNCHANGED <<trivial_dtor, head, tail, pushes>>

---------------------------------------------------------------------------
Step(p) ==
  \/ PushLoadTail(p) \/ PushLoadNext(p) \/ PushCheck(p) \/ PushLoadLast(p)
  \/ PushLink(p) \/ PushHelp(p) \/ PushReturn(p)
  \/ PopLoadTail(p) \/ PopLoadNext(p) \/ PopCheck(p) \/ PopHelp(p) \/ PopCopy(p)
  \/ PopExchange(p) \/ PopFree(p) \/ PopMove(p) \/ PopFlagNext(p) \/ PopFlagHead(p)

Next ==
  \E p \in Threads :
    \/ \E v \in Values : PushCall(p, v)
    \/ PushThrow(p) \/ PopLoadHead(p) \/ Step(p)

Spec == Init /\ [][Next]_vars

(* A thread in a call goes on; nobody has to call. *)
FairSpec ==
  Spec /\ \A p \in Threads : WF_vars(Step(p) \/ (pc[p] = "pop" /\ PopLoadHead(p)))

---------------------------------------------------------------------------
(* The nodes from head on: Walk[k] is what k links lead to. *)
Walk[k \in 0..Cardinality(Nodes)] ==
  IF k = 0 THEN head ELSE IF Walk[k - 1] \notin Nodes THEN None ELSE next[Walk[k - 1]]

Reached == {Walk[k] : k \in DOMAIN Walk} \cap Nodes

(* The elements, oldest first. *)
Elements ==
  LET last == CHOOSE k \in DOMAIN Walk : Walk[k] \in Nodes /\ \A j \in DOMAIN Walk : Walk[j] \in Nodes => j <= k
  IN  [k \in 1..last |-> value[Walk[k]]]

Pushing(p) == pc[p] \in {"push", "push_next", "push_check", "push_last", "push_link", "push_help"}

(* The nodes a popping thread has yet to give back or to mark. *)
Leaving(p) ==
  IF pc[p] \in {"pop_free", "pop_flag_head"} THEN {reg[p].h}
  ELSE IF pc[p] \in {"pop_move", "pop_flag_next"} THEN {reg[p].h, reg[p].next}
  ELSE {}

(* No node is lost: it is in the pool or in the queue, or a thread is about to
   link it or not yet done with it.  In particular the element of a push()
   that has returned is there for the next try_pop(). *)
NothingLost ==
  free \cup Reached \cup {reg[p].n : p \in {q \in Threads : Pushing(q)}}
    \cup UNION {Leaving(p) : p \in Threads} = Nodes

(* And none is given back twice or too early: of the two threads that are done
   with the node of a type with a destructor, the second returns it.  tail
   never falls out of the queue, and is at most one node behind its end. *)
NodesAccounted ==
  /\ NothingLost
  /\ free \cap Reached = {}
  /\ \A p \in Threads :
       /\ Leaving(p) \cap free = {}
       /\ Pushing(p) => reg[p].n \notin free \cup Reached
       /\ \A q \in Threads \ {p} : Pushing(p) /\ Pushing(q) => reg[p].n # reg[q].n
  /\ tail \in Reached
  /\ next[tail] # None => next[next[tail]] = None

(* What is left of it when no call is under way: every node is in the queue or
   in the pool, and none in both. *)
AtRestNothingLost ==
  (\A p \in Threads : At(p, "idle")) => free \cup Reached = Nodes /\ free \cap Reached = {}

(* The queue implements FifoQueue: first in, first out, every element taken by
   one thread and unchanged until it has it, and false only from a queue that
   was empty when next was read. *)
Abstract == INSTANCE FifoQueue WITH
  q <- Elements,
  got <- [p \in Threads |->
            IF pc[p] = "pop_move" THEN value[reg[p].next]
            ELSE IF pc[p] \in {"pop_free", "pop_flag_next", "pop_flag_head"} THEN reg[p].val
            ELSE None],
  told <- {p \in Threads : pc[p] = "pop_check" /\ reg[p].next = None
                              /\ reg[p].h = reg[p].t /\ reg[p].h = head}

ImplementsQueue == Abstract!Spec

(* Every push() and every try_pop() returns: a turn of a loop is repeated only
   because another call has got further. *)
CallsReturn == \A p \in Threads : pc[p] # "idle" ~> pc[p] = "idle"
=============================================================================
