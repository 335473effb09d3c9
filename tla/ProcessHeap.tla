----------------------------- MODULE ProcessHeap -----------------------------
(***************************************************************************)
(* oCore's process_heap: the map of named objects that all modules of the  *)
(* process share.  find_or_allocate() finds the object of a name or makes  *)
(* it: it enters the name under Mutex, leaves Mutex and constructs the     *)
(* object under a reader-writer lock of the entry alone, so that the       *)
(* constructor can ask for other objects, and takes Mutex again to release *)
(* that lock.  Singletons keep a static pointer in front of it.            *)
(*                                                                         *)
(* A section of the code under Mutex is one action, unless the thread can  *)
(* block inside it.  A constructor is the set of named objects it obtains, *)
(* a destructor runs within deallocate().  Left out: the reference count   *)
(* of the heap, the reports, and the end of the process.                   *)
(***************************************************************************)
EXTENDS Naturals, Sequences, FiniteSets, SequencesExt

CONSTANTS Threads, Names,
          PerThread,     \* the names whose scope is per_thread
          Members,       \* what the constructor of a name's object obtains
          MaxAllocs,     \* the capacity of exit_thread()'s list, 32 in the code
          MaxObjects,    \* bound: how many objects are ever allocated
          None

Objects == 1 .. MaxObjects
Entries == [pointer : Objects, init : Threads, mutex : Threads \cup {None}]

ASSUME ProcessHeapAssumption ==
  /\ None \notin Threads \cup Objects \cup Entries
  /\ PerThread \subseteq Names
  /\ Members \in [Names -> SUBSET Names]
  /\ MaxObjects \in Nat /\ MaxAllocs \in Nat

(* Definitions named Bug... are seeded bugs: the definition that follows them
   with one plausible mistake. No specification uses them. *)

BugHash(name, t) == <<name>>                \* one object for all threads
\* hash(): the thread is part of the hash of a per_thread name.
Hash(name, t) == IF name \in PerThread THEN <<name, t>> ELSE <<name>>
Hashes == {Hash(n, t) : n \in Names, t \in Threads}

VARIABLES
  Mutex,       \* the thread that holds the heap's mutex
  Pointers,    \* the entries: pointer, creating thread, holder of the lock
  sInstance,   \* the static pointer of each singleton
  stack,       \* the calls of find_or_allocate() each thread is in
  pc,          \* where it is in the innermost one
  doomed,      \* what exit_thread() still has to free
  object,      \* the life of each object
  got          \* the pointers each thread has been given

heap == <<Mutex, Pointers, sInstance>>
vars == <<heap, stack, pc, doomed, object, got>>

Init ==
  /\ Mutex = None
  /\ Pointers = [h \in Hashes |-> None]
  /\ sInstance = [n \in Names |-> None]
  /\ stack = [t \in Threads |-> <<>>]
  /\ pc = [t \in Threads |-> "idle"]
  /\ doomed = [t \in Threads |-> {}]
  /\ object = [p \in Objects |-> "unallocated"]
  /\ got = [t \in Threads |-> {}]

At(t, label) == pc[t] = label
Top(t) == Last(stack[t])
Entry(t) == Pointers[Hash(Top(t).name, t)]
Goto(t, label) == pc' = [pc EXCEPT ![t] = label]
Receive(t, p) == got' = [got EXCEPT ![t] = @ \cup {p}]

\* A call of the program, or of the constructor the thread is running.
Calls(t, name) == \/ At(t, "idle")
                  \/ At(t, "construct") /\ name \in Top(t).todo

\* The end of a constructor's call: that member is no longer to do.
Obtained(frames, name) ==
  IF frames = <<>> THEN frames
  ELSE [frames EXCEPT ![Len(frames)].todo = @ \ {name}]

-----------------------------------------------------------------------------
(* find_or_allocate()                                                      *)

Enter(t, name, singleton) ==
  /\ stack' = [stack EXCEPT ![t] =
       Append(@, [name |-> name, pointer |-> None, todo |-> {}, singleton |-> singleton])]
  /\ Goto(t, "lock")
  /\ UNCHANGED <<heap, doomed, object, got>>

FindOrAllocate(t, name) == Calls(t, name) /\ Enter(t, name, FALSE)

\* The entry is made and locked, and the caller's pointer is written.
NewEntry(t, p) ==
  /\ Pointers' = [Pointers EXCEPT ![Hash(Top(t).name, t)] =
                    [pointer |-> p, init |-> t, mutex |-> t]]
  /\ object' = [object EXCEPT ![p] = "allocated"]
  /\ sInstance' = IF Top(t).singleton
                  THEN [sInstance EXCEPT ![Top(t).name] = p] ELSE sInstance
  /\ stack' = [stack EXCEPT ![t][Len(stack[t])] =
                 [@ EXCEPT !.pointer = p, !.todo = Members[Top(t).name]]]

Fresh(p) == /\ object[p] = "unallocated"
            /\ \A q \in Objects : object[q] = "unallocated" => p <= q

\* Bug: the name is not looked up again under Mutex.
BugAllocate(t) ==
  /\ At(t, "lock") /\ Mutex = None
  /\ \E p \in Objects : Fresh(p) /\ NewEntry(t, p)
  /\ Goto(t, "construct")
  /\ UNCHANGED <<Mutex, doomed, got>>

\* The name is new: it is entered and Mutex is left for the constructor.
Allocate(t) ==
  /\ At(t, "lock") /\ Mutex = None /\ Entry(t) = None
  /\ \E p \in Objects : Fresh(p) /\ NewEntry(t, p)
  /\ Goto(t, "construct")
  /\ UNCHANGED <<Mutex, doomed, got>>

\* The name is known: the thread keeps Mutex and asks for the entry's lock.
Locate(t) ==
  /\ At(t, "lock") /\ Mutex = None /\ Entry(t) # None
  /\ Mutex' = t
  /\ Goto(t, "shared")
  /\ UNCHANGED <<Pointers, sInstance, stack, doomed, object, got>>

\* The innermost call returns p, to the program or to a constructor.
Leave(t, p) ==
  /\ stack' = [stack EXCEPT ![t] = Obtained(Front(@), Top(t).name)]
  /\ Goto(t, IF Len(stack[t]) = 1 THEN "idle" ELSE "construct")
  /\ Receive(t, p)
  /\ UNCHANGED <<doomed>>

\* Bugs: the entry's lock is not taken; or Mutex is not left.
BugFound(t) ==
  /\ At(t, "shared")
  /\ Mutex' = None
  /\ sInstance' = IF Top(t).singleton
                  THEN [sInstance EXCEPT ![Top(t).name] = Entry(t).pointer] ELSE sInstance
  /\ Leave(t, Entry(t).pointer)
  /\ UNCHANGED <<Pointers, object>>

BugFoundLocked(t) ==
  /\ At(t, "shared") /\ Entry(t).mutex = None
  /\ sInstance' = IF Top(t).singleton
                  THEN [sInstance EXCEPT ![Top(t).name] = Entry(t).pointer] ELSE sInstance
  /\ Leave(t, Entry(t).pointer)
  /\ UNCHANGED <<Mutex, Pointers, object>>

\* The entry's lock is shared, so nobody constructs the object any more.
Found(t) ==
  /\ At(t, "shared") /\ Entry(t).mutex = None
  /\ Mutex' = None
  /\ sInstance' = IF Top(t).singleton
                  THEN [sInstance EXCEPT ![Top(t).name] = Entry(t).pointer] ELSE sInstance
  /\ Leave(t, Entry(t).pointer)
  /\ UNCHANGED <<Pointers, object>>

Construct(t) ==
  /\ At(t, "construct") /\ Top(t).todo = {}
  /\ object' = [object EXCEPT ![Top(t).pointer] = "built"]
  /\ Goto(t, "relock")
  /\ UNCHANGED <<heap, stack, doomed, got>>

\* Mutex is taken again to find the entry and release its lock.
Unlock(t) ==
  /\ At(t, "relock") /\ Mutex = None
  /\ Pointers' = [Pointers EXCEPT ![Hash(Top(t).name, t)].mutex = None]
  /\ Leave(t, Top(t).pointer)
  /\ UNCHANGED <<Mutex, sInstance, object>>

-----------------------------------------------------------------------------
(* singleton(): the function oDEFINE_PROCESS_SINGLETON defines.            *)

SingletonMissing(t, name) ==
  /\ name \notin PerThread /\ Calls(t, name)
  /\ sInstance[name] = None
  /\ Enter(t, name, TRUE)

SingletonCached(t, name) ==
  /\ name \notin PerThread /\ Calls(t, name)
  /\ sInstance[name] # None
  /\ stack' = [stack EXCEPT ![t] = Obtained(@, name)]
  /\ Receive(t, sInstance[name])
  /\ UNCHANGED <<heap, pc, doomed, object>>

-----------------------------------------------------------------------------
(* deallocate() and exit_thread()                                          *)

\* The entry whose pointer is p goes, and with it every use of p.
Free(p) ==
  /\ Mutex = None
  /\ object' = [object EXCEPT ![p] = "destroyed"]
  /\ Pointers' = [h \in Hashes |->
       IF Pointers[h] # None /\ Pointers[h].pointer = p THEN None ELSE Pointers[h]]
  /\ got' = [t \in Threads |-> got[t] \ {p}]
  /\ UNCHANGED <<Mutex, sInstance, stack>>

\* The program frees what it was given, once, and never a singleton.
Deallocate(t, p) ==
  /\ At(t, "idle") /\ p \in got[t]
  /\ \A n \in Names : sInstance[n] # p
  /\ Free(p)
  /\ UNCHANGED <<pc, doomed>>

\* The objects that t has made for itself
Allocs(t) == {Pointers[Hash(n, t)].pointer :
                n \in {m \in PerThread : Pointers[Hash(m, t)] # None}}

\* They are listed under Mutex, to be freed one by one after it.
ExitThread(t) ==
  /\ At(t, "idle") /\ Mutex = None
  /\ Cardinality(Allocs(t)) <= MaxAllocs
  /\ doomed' = [doomed EXCEPT ![t] = Allocs(t)]
  /\ Goto(t, "exit")
  /\ UNCHANGED <<heap, stack, object, got>>

\* The list is full: push_back() throws before anything is freed.
ExitThrow(t) ==
  /\ At(t, "idle") /\ Mutex = None
  /\ Cardinality(Allocs(t)) > MaxAllocs
  /\ Goto(t, "threw")
  /\ UNCHANGED <<heap, stack, doomed, object, got>>

ExitFree(t) ==
  /\ At(t, "exit")
  /\ \E p \in doomed[t] : Free(p) /\ doomed' = [doomed EXCEPT ![t] = @ \ {p}]
  /\ UNCHANGED pc

ExitDone(t) ==
  /\ At(t, "exit") /\ doomed[t] = {}
  /\ Goto(t, "exited")
  /\ UNCHANGED <<heap, stack, doomed, object, got>>

-----------------------------------------------------------------------------
Ask(t) == \E n \in Names : \/ FindOrAllocate(t, n)
                           \/ SingletonMissing(t, n)
                           \/ SingletonCached(t, n)
Acquire(t) == Allocate(t) \/ Locate(t) \/ Unlock(t) \/ ExitFree(t)
Run(t) == Found(t) \/ Construct(t) \/ ExitDone(t)

Next == \E t \in Threads :
          \/ Ask(t) \/ Acquire(t) \/ Run(t)
          \/ ExitThread(t) \/ ExitThrow(t)
          \/ \E p \in Objects : Deallocate(t, p)

Spec == Init /\ [][Next]_vars

\* A thread inside the heap goes on, a constructor makes its calls, and a
\* thread that asks for Mutex again and again while it is free gets it.
FairSpec ==
  /\ Spec
  /\ \A t \in Threads : /\ WF_vars(Run(t))
                        /\ WF_vars(At(t, "construct") /\ Ask(t))
                        /\ SF_vars(Acquire(t))

-----------------------------------------------------------------------------
Frame == [name : Names, pointer : Objects \cup {None}, todo : SUBSET Names,
          singleton : BOOLEAN]
Labels == {"idle", "lock", "shared", "construct", "relock", "exit", "exited", "threw"}

\* The variables keep their types.
TypeOK ==
  /\ Mutex \in Threads \cup {None}
  /\ Pointers \in [Hashes -> {None} \cup Entries]
  /\ sInstance \in [Names -> Objects \cup {None}]
  /\ stack \in [Threads -> Seq(Frame)]
  /\ pc \in [Threads -> Labels]
  /\ doomed \in [Threads -> SUBSET Objects]
  /\ object \in [Objects -> {"unallocated", "allocated", "built", "destroyed"}]
  /\ got \in [Threads -> SUBSET Objects]

\* "Singular throughout the entire process": every live object is the one of
\* exactly one name, though threads race to make it and constructors run
\* outside the heap's mutex.
OneObjectPerName ==
  \A p \in Objects : object[p] \in {"allocated", "built"} =>
    \E h \in Hashes : /\ Pointers[h] # None /\ Pointers[h].pointer = p
                      /\ \A g \in Hashes \ {h} :
                           Pointers[g] # None => Pointers[g].pointer # p

\* find_or_allocate() never returns an object that another thread is still
\* constructing, nor one that was destroyed meanwhile.
FoundIsBuilt ==
  [][\A t \in Threads : pc[t] \in {"shared", "relock"} =>
       \A p \in got'[t] \ got[t] : object'[p] = "built"]_vars

\* An exit_thread() that returns leaves none of the thread's objects behind,
\* though it frees them one at a time beside other threads.
ExitLeavesNothing ==
  \A t \in Threads : At(t, "exited") =>
    \A n \in PerThread : Pointers[Hash(n, t)] = None

\* A thread holds Mutex and waits for the lock of an entry whose constructor
\* waits for Mutex, or is further up its own stack.
Deadlocked ==
  \E t \in Threads : /\ At(t, "shared") /\ Entry(t).mutex # None
                     /\ pc[Entry(t).mutex] \in {"lock", "relock", "shared"}

InCall(t) == stack[t] # <<>> \/ At(t, "exit")

\* A call needs one object more than the bound allows.
OutOfObjects ==
  \E t \in Threads : /\ At(t, "lock") /\ Entry(t) = None
                     /\ \A p \in Objects : object[p] # "unallocated"

\* A deadlock between Mutex and the lock of an entry is the only way for a
\* call not to return, whichever threads race and whatever constructors ask.
ReturnsUnlessDeadlocked ==
  \/ \A t \in Threads : InCall(t) ~> ~InCall(t)
  \/ <>[]Deadlocked
  \/ <>[]OutOfObjects

=============================================================================
