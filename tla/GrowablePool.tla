----------------------------- MODULE GrowablePool ------------------------------
(***************************************************************************)
(* ouro::concurrent_growable_pool (include/oBase/concurrent_growable_pool.h *)
(* and source/oBase/concurrent_growable_pool.cpp): a stack of chunks, each *)
(* with a concurrent_pool of its own.  allocate_pointer() and deallocate() *)
(* walk the stack without a lock while other threads put chunks on top of  *)
(* it; the last chunk used is remembered in two unsynchronized hints.      *)
(* grow() and shrink() are called while no other call is under way, as the *)
(* header asks.  Of each chunk's pool this model uses what IndexPool says. *)
(***************************************************************************)
EXTENDS Naturals, Sequences, FiniteSets, SequencesExt

CONSTANTS
  Threads,
  Chunks,     \* bound: the chunks that can exist at one time
  Blocks,     \* the blocks of a chunk, capacity_per_chunk of them
  MaxTarget,  \* bound: the chunks grow() and shrink() are asked for
  None        \* nullptr

ASSUME GrowableAssumption ==
  /\ Blocks # {} /\ None \notin Chunks \cup Blocks
  /\ IsFiniteSet(Chunks) /\ MaxTarget \in Nat /\ MaxTarget < Cardinality(Chunks)

VARIABLES
  head, next,      \* chunks, the stack
  free,            \* free[c]: what the pool of c can give
  last_allocate, last_deallocate, \* the chunk whose pool the hint is
  made,            \* the chunks in memory
  held,            \* (history) the blocks the program holds
  pc, reg

vars == <<head, next, free, last_allocate, last_deallocate, made, held, pc, reg>>

chunks == INSTANCE ConcurrentStack WITH Elements <- Chunks

(* c: the chunk looked at; o: the head that push() has read; b: the block *)
NoReg == [c |-> None, o |-> None, b |-> None]

At(p, label) == pc[p] = label
Go(p, label, r) == pc' = [pc EXCEPT ![p] = label] /\ reg' = [reg EXCEPT ![p] = r]

Quiet == \A p \in Threads : At(p, "idle")

(* Bound: a call of allocate_pointer() finds a chunk to make. *)
Room == Cardinality(Chunks \ made) > Cardinality({p \in Threads : ~At(p, "idle")})

(* Definitions named Bug... are seeded bugs: the definition that follows them
   with one plausible mistake. No specification uses them. *)

---------------------------------------------------------------------------
(* initialize(): grow(capacity_per_chunk) *)
Init ==
  \E c \in Chunks :
    /\ head = c /\ last_allocate = c /\ made = {c}
    /\ last_deallocate = None
    /\ next = [x \in Chunks |-> None]
    /\ free = [x \in Chunks |-> IF x = c THEN Blocks ELSE {}]
    /\ held = {}
    /\ pc = [p \in Threads |-> "idle"]
    /\ reg = [p \in Threads |-> NoReg]

(* num_chunks() < target_nchunks: one more *)
Grow(target) ==
  /\ Quiet /\ Len(chunks!Chain) < target
  /\ \E c \in Chunks \ made :
       /\ made' = made \cup {c}
       /\ free' = [free EXCEPT ![c] = Blocks]
       /\ last_allocate' = c
       /\ chunks!Push(c)
  /\ UNCHANGED <<last_deallocate, held, pc, reg>>

(* Bug: the hints survive. *)
BugResetHints == UNCHANGED <<last_allocate, last_deallocate>>

ResetHints == last_allocate' = None /\ last_deallocate' = None

(* Bug: a chunk with a free block passes for a full pool. *)
BugFull(c) == free[c] # {}

(* concurrent_pool::full(): nothing is allocated *)
Full(c) == free[c] = Blocks

(* Once shrink() has taken k chunks off the stack: those in which nothing is
   allocated are put aside, the others are pushed again. *)
Sifted[k \in 0..Len(chunks!Chain)] ==
  IF k = 0 THEN [to_free |-> <<>>, pushed |-> <<>>]
  ELSE LET c == chunks!Chain[k]
       IN  IF Full(c) THEN [Sifted[k - 1] EXCEPT !.to_free = <<c>> \o @]
                      ELSE [Sifted[k - 1] EXCEPT !.pushed = <<c>> \o @]

(* Those put aside are pushed last, unless there are too many chunks. *)
Shrink(target) ==
  LET nchunks == Len(chunks!Chain)
      sifted  == Sifted[nchunks]
      excess  == IF nchunks > target THEN nchunks - target ELSE 0
      keep    == Reverse(SubSeq(sifted.to_free, excess + 1, Len(sifted.to_free)))
                   \o sifted.pushed
  IN  /\ Quiet
      /\ head' = IF keep = <<>> THEN None ELSE keep[1]
      /\ next' = chunks!Linked(keep)
      /\ made' = ToSet(keep)
      /\ free' = [c \in Chunks |-> IF c \in ToSet(keep) THEN free[c] ELSE {}]
      /\ ResetHints
      /\ UNCHANGED <<held, pc, reg>>

---------------------------------------------------------------------------
(* allocate_pointer() *)
AllocCall(p) ==
  /\ At(p, "idle") /\ Room
  /\ Go(p, IF last_allocate = None THEN "peek" ELSE "try", [NoReg EXCEPT !.c = last_allocate])
  /\ UNCHANGED <<head, next, free, last_allocate, last_deallocate, made, held>>

(* concurrent_pool::allocate() of the chunk that p looks at *)
TakeFrom(c) ==
  \E b \in free[c] :
    /\ free' = [free EXCEPT ![c] = @ \ {b}]
    /\ held' = held \cup {<<c, b>>}

AllocFromHint(p) ==
  /\ At(p, "try")
  /\ \/ TakeFrom(reg[p].c) /\ Go(p, "idle", NoReg)
     \/ free[reg[p].c] = {} /\ Go(p, "peek", NoReg) /\ UNCHANGED <<free, held>>
  /\ UNCHANGED <<head, next, last_allocate, last_deallocate, made>>

(* while (c): the walk is over at a nullptr *)
Look(p, c) == Go(p, IF c = None THEN "new" ELSE "walk", [NoReg EXCEPT !.c = c])

Peek(p) ==
  /\ At(p, "peek")
  /\ Look(p, head)
  /\ UNCHANGED <<head, next, free, last_allocate, last_deallocate, made, held>>

AllocFromChunk(p) ==
  /\ At(p, "walk")
  /\ \/ TakeFrom(reg[p].c) /\ Go(p, "hint", reg[p])
     \/ free[reg[p].c] = {} /\ Look(p, next[reg[p].c]) /\ UNCHANGED <<free, held>>
  /\ UNCHANGED <<head, next, last_allocate, last_deallocate, made>>

(* allocate_chunk() and the allocation from it: no other thread knows it yet. *)
NewChunk(p) ==
  /\ At(p, "new")
  /\ \E c \in Chunks \ made, b \in Blocks :
       /\ made' = made \cup {c}
       /\ free' = [free EXCEPT ![c] = Blocks \ {b}]
       /\ next' = [next EXCEPT ![c] = None]
       /\ Go(p, "push", [NoReg EXCEPT !.c = c, !.b = b])
  /\ UNCHANGED <<head, last_allocate, last_deallocate, held>>

PushLoad(p) ==
  /\ At(p, "push")
  /\ \E o \in Chunks \cup {None} :
       chunks!PushLoad(reg[p].c, o) /\ Go(p, "exchange", [reg[p] EXCEPT !.o = o])
  /\ UNCHANGED <<free, last_allocate, last_deallocate, made, held>>

(* Bug: a store. *)
BugExchanged(p) == head' = reg[p].c /\ Go(p, "pushed", reg[p])

(* Bug: the loop exchanges again without reading head again. *)
BugExchangedStale(p) ==
  /\ chunks!Exchange(reg[p].o, reg[p].c)
  /\ Go(p, IF head = reg[p].o THEN "pushed" ELSE "exchange", reg[p])

Exchanged(p) ==
  /\ chunks!Exchange(reg[p].o, reg[p].c)
  /\ Go(p, IF head = reg[p].o THEN "pushed" ELSE "push", reg[p])

PushExchange(p) ==
  /\ At(p, "exchange")
  /\ Exchanged(p)
  /\ UNCHANGED <<next, free, last_allocate, last_deallocate, made, held>>

(* The hint is stored, and the block is the caller's. *)
AllocReturn(p) ==
  /\ pc[p] \in {"hint", "pushed"}
  /\ last_allocate' = reg[p].c
  /\ held' = IF At(p, "pushed") THEN held \cup {<<reg[p].c, reg[p].b>>} ELSE held
  /\ Go(p, "idle", NoReg)
  /\ UNCHANGED <<head, next, free, last_deallocate, made>>

---------------------------------------------------------------------------
(* deallocate(): find_pool() tries the hint, ... *)
DeallocCall(p, x) ==
  /\ At(p, "idle") /\ x \in held
  /\ held' = held \ {x}
  /\ Go(p, IF last_deallocate = x[1] THEN "found" ELSE "find", [NoReg EXCEPT !.c = x[1], !.b = x[2]])
  /\ UNCHANGED <<head, next, free, last_allocate, last_deallocate, made>>

(* ... then the stack: what is pushed meanwhile is above the links it follows.
   A block of no chunk is an exception ("dangling"). *)
FindPeek(p) ==
  /\ At(p, "find")
  /\ Go(p, "find_walk", [reg[p] EXCEPT !.o = head])
  /\ UNCHANGED <<head, next, free, last_allocate, last_deallocate, made, held>>

FindWalk(p) ==
  LET r == reg[p] IN
  /\ At(p, "find_walk")
  /\ CASE r.o = None -> Go(p, "dangling", r)
       [] r.o = r.c  -> Go(p, "found", r)
       [] OTHER      -> Go(p, "find_walk", [r EXCEPT !.o = next[r.o]])
  /\ UNCHANGED <<head, next, free, last_allocate, last_deallocate, made, held>>

StoreHint(p) ==
  /\ At(p, "found")
  /\ last_deallocate' = reg[p].c
  /\ Go(p, "give", reg[p])
  /\ UNCHANGED <<head, next, free, last_allocate, made, held>>

Give(p) ==
  /\ At(p, "give")
  /\ free' = [free EXCEPT ![reg[p].c] = @ \cup {reg[p].b}]
  /\ Go(p, "idle", NoReg)
  /\ UNCHANGED <<head, next, last_allocate, last_deallocate, made, held>>

---------------------------------------------------------------------------
Step(p) ==
  \/ AllocFromHint(p) \/ Peek(p) \/ AllocFromChunk(p) \/ NewChunk(p)
  \/ PushLoad(p) \/ PushExchange(p) \/ AllocReturn(p)
  \/ FindPeek(p) \/ FindWalk(p) \/ StoreHint(p) \/ Give(p)

Next ==
  \/ \E t \in 0..MaxTarget : Grow(t) \/ Shrink(t)
  \/ \E p \in Threads :
       \/ AllocCall(p) \/ Step(p)
       \/ \E x \in held : DeallocCall(p, x)

Spec == Init /\ [][Next]_vars

(* A thread in a call goes on; nobody has to call. *)
FairSpec == Spec /\ \A p \in Threads : WF_vars(Step(p))

---------------------------------------------------------------------------
(* The blocks on their way to a caller or back *)
Coming == {<<reg[p].c, reg[p].b>> : p \in {q \in Threads : pc[q] \in {"push", "exchange", "pushed"}}}
Returning ==
  {<<reg[p].c, reg[p].b>> : p \in {q \in Threads : pc[q] \in {"find", "find_walk", "found", "give"}}}

Stacked == ToSet(chunks!Chain)

(* No chunk is lost when two threads push at once or shrink() restacks them:
   each is on the stack or about to be, and no link leaves the stack. *)
ChunksAccounted ==
  /\ made = Stacked \cup {reg[p].c : p \in {q \in Threads : pc[q] \in {"push", "exchange"}}}
  /\ \A p \in Threads : pc[p] \in {"push", "exchange"} => reg[p].c \notin Stacked

(* Neither a hint nor a thread's pointer outlives its chunk, and deallocate()
   finds the chunk of every block that the program was given. *)
NothingDangles ==
  /\ {last_allocate, last_deallocate} \subseteq made \cup {None}
  /\ \A p \in Threads : {reg[p].c, reg[p].o} \subseteq made \cup {None}
  /\ \A p \in Threads : ~At(p, "dangling")

(* The growable pool is a pool that never runs out: no block is given to two
   callers, and what it has given survives growing and shrinking. *)
Abstract == INSTANCE IndexPool WITH
  Index <- Chunks \X Blocks,
  held <- held \cup Coming,
  returning <- Returning,
  free <- (Chunks \X Blocks) \ (held \cup Coming \cup Returning),
  told <- {}

ImplementsPool == Abstract!Spec

(* Every allocate_pointer() and deallocate() returns. *)
CallsReturn == \A p \in Threads : ~At(p, "idle") ~> At(p, "idle")
=============================================================================
