# Ouroboros: TLA+ models, checks and proofs

This directory holds a TLA+ development of the concurrent core of the Ouroboros
libraries: the thread pool and what stands on it, the event and the future, the
lock-free pool, queue, stack and hash map, the growable pool on them, and the heap of
singletons all modules of a process share.
Paths below are relative to `src/Ouroboros/`.

To repeat everything, in this directory:

    tlc -workers 2 -config ThreadPool.cfg MCThreadPool    # one line per run of section 4
    for m in *_proofs.tla; do tlapm $m; done              # section 6

`PROJECT.json` lists the runs, the source lines of every definition, a seeded bug for
every property (the definitions named `Bug...`), the hazards and the theorems.

## 1. Inventory

Ouroboros is a set of C++ libraries for Windows and MSVC: oMemory and oString at the
bottom, oConcurrency on them, then oBase, oCore (the operating system's services) and
the graphics libraries oSurface, oMesh, oGPU, oGUI and oGfx, beside the older oBasis and
oPlatform. `External/` is vendored. What is concurrent is in oConcurrency, in a few
files of oMemory, oBase and oCore, and in oBasis' dispatch queues; the rest is
sequential conversion of data or calls of the system.

| Component | State | Operations | What is hard | What makes it correct | Status |
|---|---|---|---|---|---|
| threadpool (`Include/oConcurrency/threadpool.h`) | `mtx`, `work_available`, `global_queue`, `num_working`, `running`, the workers | construct, dispatch, the worker loop, flush, join | flush polls without the mutex; dispatch tests `running` before the mutex and notifies only when nobody works; spurious wakeups | flush is exact, no task lost or run twice, no wakeup lost, join drains | modelled, proved |
| task_group (`threadpool.h`), on threadpool and countdown_latch | a latch, `canceling` | run, wait (runs queued tasks meanwhile), cancel, destruction | the latch's count is read without its lock; tasks run tasks in their own group; reuse after wait | wait is exact, the group outlives its tasks, a wait ends unless the pool starves | modelled, proved |
| countdown_latch (`Include/oConcurrency/countdown_latch.h`) | `num_outstanding`, mutex, condition variable | reset, reference, release, wait | reference versus the last release | a wait ends only at zero and then does | within TaskGroup |
| event (`Include/oConcurrency/event.h`) | `set_mask`, mutex, condition variable | set, reset, the waits | unlocked test in set, timed waits, autoreset | set releases who sleeps, no time is cut short | modelled, proved |
| future, promise, packaged_task (`Include/oConcurrency/future.h`, `Source/oConcurrency/future.cpp`) | commitment: flags, value, exception, task group | set, get, wait, async, every destructor | flags that share a byte, unlocked reads, the last reference may be the job's | the first set wins, get sees all of it and returns, a promise breaks only when every owner left | modelled, proved |
| concurrent_pool (`Source/oMemory/concurrent_pool.cpp`) | tagged head, links in the free blocks | allocate, deallocate | reads of blocks that are no longer free, ABA | a block has one owner, the list stays whole | modelled, proved |
| concurrent_hash_map (`Source/oConcurrency/concurrent_hash_map.cpp`) | arrays of keys and values | set, remove, get; clear, reclaim, migrate by the owner alone | racing claims, tombstones, clusters that wrap | linearizable | modelled but for migrate, proved |
| process_heap (`Source/oCore/process_heap.cpp`) | map of named objects, mutex, a lock per entry, static pointers | find_or_allocate, singleton, deallocate, exit_thread; reference, release, collect_garbage | constructors that ask for other objects, two kinds of locks, a list of fixed size in exit_thread | one object per name, given out when built | modelled but for the end of the process, proved |
| concurrent_queue (`Include/oConcurrency/concurrent_queue.h`) | head, tail, nodes in a pool, tagged words | push, the two versions of try_pop | ABA: the tag that is stored is always 0 (`tagged_pointer.h:52`); the pool keeps its free list in `next`; a node is freed by the second of two threads that are done with it | first in, first out; no node lost or freed twice | modelled, proved under two hypotheses the code does not ensure |
| concurrent_stack (`Include/oConcurrency/concurrent_stack.h`) | tagged head, links in the elements | push, pop, pop_all | elements in two stacks, a tag that is always 0 | a linearizable stack | modelled as the growable pool uses it |
| concurrent_growable_pool (`Source/oBase/concurrent_growable_pool.cpp`) | chunks on a concurrent_stack, two hints | allocate, deallocate, grow, shrink | two threads add a chunk at once, hints without any order, a chunk goes | a block has one owner, no chunk is lost or used when freed | modelled, proved |
| concurrent_registry (`Source/oBase/concurrent_registry.cpp`) | lookup, pool, entry states, two intrusive stacks | make, unmake, flush, unmake_all | a state machine under races, entries in both stacks | what is asked for is made or unmade | not modelled (section 8) |
| leak_tracker (`Source/oBase/leak_tracker.cpp`) | a concurrent_hash_map to entries of a concurrent_pool | on_allocate, on_deallocate | the two together | an allocation has one entry | not modelled |
| iocp (`Source/oCore/win_iocp.cpp`) | count of associations, workers | associate, post_completion, join | join while completions are under way | each completion handled once | planned |
| everything else (allocators, strings, surfaces, meshes, GPU, GUI, files, parsers, tools, `External/`) | | | sequential, numeric, or a device's | | not modelled (section 8) |

How they interact:

- **calls**: a future made by `async()` owns a task_group, a task_group runs its tasks
  on the threadpool and counts them in a countdown_latch, `parallel_for` is tasks that
  run tasks in one group; the growable pool and the registry keep their chunks and
  entries on concurrent_stacks and take blocks from concurrent_pools, leak_tracker maps
  allocations in a concurrent_hash_map to entries of a concurrent_pool; iocp, reporting
  and the thread pool itself are process_heap singletons;
- **callbacks**: a task is a function that calls back into the pool that runs it; a
  constructor passed to process_heap calls back into the heap;
- **shared state without its lock**: `global_queue.empty()`, `num_working` and `running`
  in flush() and dispatch(), the latch's count in task_group::wait(), the mask in
  event::set(), the ready flag in future::wait(), the static pointer of a singleton, the
  hints of the growable pool.

## 2. Plan

Modules, in the order of the importance of what they model, and what they compose:

1. `ThreadPool`: every step of the pool. Done, with its inductive invariant proved.
2. `TaskGroup`: the pool at the granularity of its critical sections (justified by
   `CountInv` and the other parts of `ThreadPool!IInv`) and, on it, groups and latches.
   Done, safety proved.
3. `Event`, `Future`: condition variables and flags; `Future` takes from TaskGroup that
   a job given to a group is executed. Done, safety proved (both in `Future_proofs`).
4. `ConcurrentPool`, which implements the abstract `IndexPool`. Done, safety and the
   refinement proved.
5. `ConcurrentHashMap`, which implements the abstract `AtomicMap`. Done, safety and the
   refinement proved.
6. `ProcessHeap`: names, entries and locks. Done, safety proved.
7. `ConcurrentQueue`, which implements the abstract `FifoQueue`. Done, safety and the
   refinement proved under `SafeReuse` and `~LowMemory`.
8. `ConcurrentStack` and, on instances of it, `GrowablePool`, which implements the same
   `IndexPool` as its chunks do. Done; safety and the refinement of `GrowablePool`
   proved.
9. Open: `Iocp`; `migrate()` of the hash map; the reference count and
   `collect_garbage()` of the heap; leak_tracker on `AtomicMap` and `IndexPool`.

Theorems: the accounting of the thread pool and what follows from it, the free list,
the counting of the latches, the flags of a commitment, the entries of the heap, the
probes of the hash map, the stack of chunks, the nodes of the queue, and the refinements
of `IndexPool` (twice), `AtomicMap` and `FifoQueue` (done). Open: those of the components
in item 9.

Bounds stay small (two or three threads): each run's are in section 4.

## 3. The modules

Each module has the state of one component as variables. A thread has a label in `pc` that
says between which two accesses to shared state it is, and one action takes it to the
next; a section of the code that holds a mutex from its start to its end and cannot block
inside is one action. Variables that the code does not have, marked "(history)" where they
are declared, record what happened so that properties can speak of it; no guard reads
them, but for what is named below as a bound or an assumption (`OrderlyJoin`, `NoWrap`,
`SafeReuse`, `LowMemory`, `Room`) and `requested`, which makes each task be dispatched
once.

**ThreadPool** (`threadpool.h`). `mtx`, `global_queue`, `num_working` and `running` are
the fields; `work_available` is the set of threads in its wait. The worker loop is
BeginThread, Lock, then Sleep / Pop / Exit according to what it finds; a notified or
spuriously woken worker is "woken" until Rewake takes the mutex and counts it again.
dispatch() is DispatchCall (the unlocked test of `running`) or DispatchThrow, then
DispatchPush (lock, push_back, notify_one if `num_working` is 0). flush() is three
separate unlocked reads: FlushRunning, FlushEmpty, FlushIdle. join() is JoinCall and
JoinReturn. A task body is what it does to the pool: it dispatches the members of
`Children[t]`. An exception out of a worker ends the process (`alive`). With
`OrderlyJoin` TRUE join() is called when no more dispatches are to come, as the
repository's clients call it.

**TaskGroup** (`threadpool.h`, `countdown_latch.h`). A *frame* is the activation of a
client's code or of a task; `stack[p]` is the real stack of thread p, since wait()
executes stolen tasks on top of the frame that waits. Each frame owns at most one group,
which is the latch `num_outstanding`, `latch_mtx`, the flag `canceling`, and `alive`.
run() is Run (reference) and Push (dispatch); wait() is WaitRelease, then Test
(unlocked), Steal / StealNothing, LatchWait, and at last Reset and Uncancel; the wrapped
task is Lambda, its body, Release (under the latch's mutex) and Unlock, its last access
to the group. `Into` and `RunBy` describe who runs what in which group, which covers
nested groups and `thread_local_parallel_for`, whose tasks run tasks in their own group.
A worker that blocks in LatchWait stays in `num_working`, as in the code; `Starved` is the
state in which that keeps queued tasks from being taken.

**Event** (`event.h`). SetCall is the unlocked test, Or the locked write, SetNotifyAll
comes after the unlock; with autoreset only SetNotifyOne is reached. A waiter tests and
sleeps in two steps with the mutex held, wakes spuriously, by a notification or by time
(`now`, bounded by `MaxTime`), and a timed wait starts its time again at every wakeup.
The names it shares with Future are prefixed (`EventSpec`, `event_pc`), so that one module
of proofs can extend both.

**Future** (`future.h`, `future.cpp`, `concurrency_ouro.cpp`). One commitment of each kind
(`promise<T>`, `promise<void>`, async with and without a result). The flags are bit-fields
of one byte: a write that does not hold the mutex is a load (LoadVoid) and a store
(StoreVoid) that other writes can come between. SetExceptionAtThreadExit stores the
exception and makes nothing ready (ThrowAtThreadExit when something is); its owner goes on
to Leave or to set the promise. `left` records who left without making it ready. `Drop` is
the release of a shared_ptr by client, setter or job, with what the destructors do: the
task group of the commitment is freed with it, without waiting for it.

**ConcurrentPool** and **IndexPool** (`concurrent_pool.cpp`). `head` is the index and
tag in one word, `next` the first bytes of every block, which the program may overwrite
while it holds the block (UserWrite). allocate_index() is AllocCall (load), AllocNext
(read of the block, free or not), AllocExchange or AllocRetry; deallocate() likewise.
IndexPool is what the program may rely on: a block is free, held or on its way back, and
failure is reported only when nothing was free at one instant of the call. The
refinement takes the free blocks to be those reachable from `head`.

**ConcurrentHashMap** and **AtomicMap** (`concurrent_hash_map.cpp`). One action is one
atomic access to `keys` or `values`: load, compare-and-exchange, exchange. remove() is
set() of `nullidx`. reclaim(), which the owner runs alone, has one action per iteration
of its loops, with the set() it calls inside it. AtomicMap is a map on which each call
takes effect at one instant between call and return.

**ProcessHeap** (`process_heap.h`, `process_heap.cpp`). `Pointers` maps the hash of a name
(and of the thread, for thread scope) to an entry with its lock. Locate keeps `Mutex`
while it asks for an entry's lock, as the code does; Allocate leaves it for the
constructor, whose calls (`Members`) are made on top of the frame, and Unlock takes it
again. SingletonCached / SingletonMissing are the test of the static pointer that the
macro puts in front, and NewEntry writes that pointer before the object is constructed.
exit_thread() lists the thread's objects (ExitThread), `MaxAllocs` at most, and frees them
one by one (ExitFree); with one more the list throws and nothing is freed (ExitThrow). In
the code `MaxAllocs` is 32.

**ConcurrentQueue** and **FifoQueue** (`concurrent_queue.h`, `tagged_pointer.h`). The
queue of Michael and Scott, one action per atomic access to `head`, `tail` or a node's
`next`. `trivial_dtor` chooses between the two versions of internal_try_pop(): one copies
the element before the exchange of `head`, the other moves it out after and sets the
node's `flag`, and who finds the flag set gives the node back. `Word` is what the
constructor of tagged_pointer makes of a pointer and a tag in a 64-bit build: the pointer
with tag 0. destroy() of the pool is `Destroy`: the element's destructor and, over the
lower half of `next`, the index of the block that was on top of the free list
(`FreeWord`). Which block that is the model leaves open; `First` is the block with index
0. Two hypotheses are constants. `SafeReuse` TRUE: create() gives no node which a call
under way still refers to. A tag that worked would be to that effect for the exchanges; FALSE
is the code. `LowMemory` FALSE: the pool lies above 4 GB, so the word the free list leaves
in `next` is never null; the code allows both. A call that follows a word which is no
address has no defined behaviour and stops in the model. FifoQueue is a queue on
which each call takes effect at one instant; the refinement maps its queue to the
elements behind the dummy.

**ConcurrentStack** (`concurrent_stack.h`) holds the operators over `head` and `next`
that GrowablePool instantiates: PushLoad and Exchange for the two accesses of push(), Push
for both at once.

**GrowablePool** (`concurrent_growable_pool.cpp`). `chunks` is an instance of the stack.
Of a chunk's own pool the model takes what IndexPool says (`free[c]`). allocate_pointer()
tries the hint, walks the chunks, and at last makes a chunk of its own and pushes it in
two steps; deallocate() tries its hint and walks. Grow and Shrink happen only while no
call is under way (`Quiet`), as the header asks. `Room`, a bound, leaves each call that
finds all chunks full one to make. The refinement to IndexPool takes the blocks of the
made chunks for the indices.

## 4. The runs

| Run | Instance | Shows |
|---|---|---|
| `threadpool` | 2 workers, 2 clients, 3 tasks of which one dispatches another | FlushComplete, ConstructorSettles, NoLostWakeup, JoinDrains, the inductive IInv; EveryTaskRuns and CallsReturn under fairness |
| `taskgroup` | a worker, 2 clients, 5 tasks: one forks two in a group of its own, with a wait() in between or not, and one of these runs another into that group; one may cancel | WaitComplete, GroupOutlivesTasks, CancelEnds; ReturnsUnlessStarved under fairness |
| `event` | 2 setters, a resetter, a waiter, 2 flags, both kinds of event, time 0..1 | NoLostWakeup, NeverEarly; SetReleases under fairness |
| `future` | the 4 kinds, 2 setters | GetSeesResult, BrokenWhenAllLeft, JoinOutlivesJob, FirstSetWins; GetReturns under fairness |
| `concurrent_pool` | 3 threads, 2 blocks, 4 tags | ListIntact, IInv, AllocatesFreeBlock, ImplementsIndexPool |
| `concurrent_hash_map` | 4 slots, 5 keys, 2 threads, one of them confined to a key they share | OneSlotPerKey, NoGapBeforeKey, ThrowsOnlyWhenFull, ReclaimIsComplete, ImplementsMap; ReclaimReturns under fairness |
| `process_heap` | 2 threads, a singleton whose constructor obtains an object of the thread, another name with thread scope, room for 1 in exit_thread()'s list, 4 objects | OneObjectPerName, FoundIsBuilt, ExitLeavesNothing; ReturnsUnlessDeadlocked under fairness |
| `concurrent_queue` | 2 threads, 3 nodes, 2 values, 3 pushes, both kinds of element, SafeReuse, ~LowMemory | NodesAccounted, ImplementsQueue; CallsReturn under fairness |
| `growable_pool` | 2 threads, 3 chunks of 2 blocks, grow and shrink up to 2 chunks | ChunksAccounted, NothingDangles, ImplementsPool; CallsReturn under fairness |
| `taskgroup_starved` | as `taskgroup`, with 2 workers, without the second task in the forked group, and nobody cancels | a counterexample to WaitingSteals, section 7 |
| `future_lifetime` | one async() | a counterexample to GroupOutlivesJob, section 7 |
| `concurrent_queue_aba` | as `concurrent_queue`, nodes reused as the pool does it | a counterexample to AtRestNothingLost, section 7 |

Why the bounds are enough for the interesting cases:

- **threadpool**: two workers are what it takes for one to be counted while the other
  sleeps, the case in which dispatch() does not notify; a task that dispatches another
  makes the queue fill between the two reads of flush(), and a second client dispatches
  while the first flushes. What is checked here is also proved for all sizes, but for
  liveness.
- **taskgroup**: three threads with stacks; more tasks than there are threads, so that
  tasks are queued while everybody waits and a wait must steal a task of another group. Two
  clients are what it takes to starve: a thread that queues a task looks at the queue again
  before it blocks, unless it is a client that leaves. Two larger instances, which take
  longer than a run here should or add nothing to it, were checked by hand with the same
  result: two clients with two workers and four of the tasks (278412 states), and a client
  alone with two workers, where `Starved` is impossible, so that every wait returns (65012).
- **event**: two flags make waits for all and waits for any differ; two setters with
  overlapping masks make one skip because the other has written and not yet notified.
- **concurrent_pool**: two blocks and three threads are what ABA needs (take both, give
  back the first, while the third is between load and exchange). `NoWrap`, an assumption
  of the model and named as such, says that no thread sleeps through `Tags - 1`
  exchanges; in the code `Tags` is 256 and nothing enforces it. The guard of Exchange
  stops the model there, and only there. Threads are symmetric, and no liveness is
  checked with symmetry.
- **concurrent_hash_map**: keys collide at the last slot, so clusters wrap around the
  end; there is one key more than slots, so the table fills up. `KeysOf` bounds which
  thread uses which key.
- **process_heap**: `MaxObjects` bounds how many objects are ever made;
  ReturnsUnlessDeadlocked excepts the calls that need one more. The list of
  exit_thread() has room for one object and a thread can have two, so that it is full as
  it is in the code with 33.
- **concurrent_queue**: three nodes are the dummy, an element and one under way; with
  `MaxPushes` 3 a node is used for the second time while the other thread is inside a
  call. Two values tell the order of elements.
- **growable_pool**: with one chunk both threads find it full and add two at once; with
  two, hints can name different chunks and Shrink frees the one or the other.

Deadlock is checked in all runs except those of `Future`, where every thread comes to
its end or (a defect, section 7) sleeps for good, and that of `ProcessHeap`, where
threads exit and where the code itself deadlocks; there the liveness properties say
which calls must return. `Halted` steps mark the regular end in ThreadPool and
TaskGroup.

## 5. Fairness

Weak fairness of a thread's steps is what a preemptive scheduler gives: a thread that
can go on does so some time. What is not assumed: that anybody calls an operation,
cancels, or wakes spuriously. Beyond it:

- `ThreadPool!SpuriousWakeupsEnd`: spurious wakeups are finitely many. flush() polls,
  and a worker woken for nothing is counted in `num_working` each time; if that happened
  for ever, always when flush() looks, it would never return.
- `TaskGroup`: strong fairness of Run, so that the code of every frame runs all its tasks; wait()
  of a frame that still has tasks to run is possible before each of them.
- `Event`: strong fairness of Relock and of a setter's locked write, and `ProcessHeap`:
  of Acquire. A mutex that is released again and again is obtained at last by each
  thread that asks for it; SRW locks and the critical sections behind std::mutex promise
  no order, but do not starve a thread in practice, and without this assumption no call
  that takes a contended mutex could be said to return.
- `ConcurrentHashMap`: set() is bounded by itself; a reclaim, once begun, is executed.
- `ConcurrentQueue`, `GrowablePool`: weak fairness of a thread's next step inside a call
  is enough. A loop in either repeats only because another call got further, and the
  bounds on pushes and chunks let that happen finitely often.
  (The first step of try_pop() is fair only when it is a repetition: nobody has to call.)
- `TaskGroup!ReturnsUnlessStarved` excepts the state `Starved` (section 7): no fairness of
  threads helps there, because none is enabled.
- `Future`: fairness of the job, which TaskGroup justifies with the same exception: a task
  of a group that is waited for is executed by a worker or by the waiting thread.

## 6. What is proved

The proof modules extend the components' modules, so what is proved and what is
model-checked are the same definitions. The assumptions are the ASSUMEs of the components:
finite sets of workers, tasks, chunks and nodes, threads of different kinds disjoint,
`None` no thread, task, name, object, entry, chunk, node or link of a free list, `NoOp` no
operation of the map; at least one block, one slot and two values of the tag; TLC
evaluates them in every run.

**ThreadPool_proofs**, for any number of workers, clients and tasks:

- `PoolAccounting`: `Spec => []IInv`. FlushComplete is not inductive. flush() reads the
  queue and then the count; to conclude that all tasks are done one needs, at
  "flush_idle", that whatever flush() has to wait for and is not done is in the hands of
  a worker (`FlushInv`), which needs that every pushed task has a place (`PlaceInv`),
  and that a worker with a task is among those `num_working` counts (`CountInv`, with
  `SyncInv` tying labels, mutex and waiting set together). The first read gives the
  place, the second the emptiness, and no dispatched task can move back from a worker to
  the queue. `StartInv` is the same argument for the constructor's flush().
- `FlushIsComplete`, `ConstructorIsSettled`, `TypeCorrect` follow from it.
- `WakeupNeverLost`: NoLostWakeup is inductive relative to IInv: a push with
  `num_working` at 0 either wakes a worker or finds one that was woken already.
- `JoinIsDrained`, under `OrderlyJoin`: with `ExitInv` (a worker leaves only an empty
  queue, and nobody refills it).

**ConcurrentPool_proofs**, for any number of threads and blocks and any width of the
tag:

- `PoolInvariant`: `Spec => []IInv`. The heart is `Current(p)`: the tag of `head` is the
  one p has loaded plus the number of exchanges since, modulo `Tags`. With `NoWrap` an
  equal head therefore means no exchange in between (`CurrentHead`), and then the link p
  has read is still the block's link.
- `FreeListIntact`, `OnlyFreeBlocks` (no ABA), `FailureIsProgress` (lock freedom),
  `PoolTypeCorrect` follow from it.
- `PoolImplementsIndexPool`: every step maps to a step of IndexPool or a stutter. The
  exchange of allocate_index() is the abstract Take, since `Current` makes the link it
  installs the one behind the block it takes; the exchange of deallocate() is Give. What
  is free is what a walk from `head` passes, which takes an argument about walks of any
  length: of the numbers of steps after which the walk would leave the list, take the
  least. This replaces the induction over data that the provers do not have.

**TaskGroup_proofs**, for any workers, clients, tasks, nesting and cancellers:

- `TaskGroupTypeCorrect`, `WaitIsExact`, `GroupIsAlive`, `CancelIsOver`. WaitComplete
  says nothing of how a latch comes to its count, so it cannot be inductive. `CountInv`
  is: the count of each latch is the owner's own reference plus the number of tasks that
  hold one, a cardinality that changes by one in Run and Release. With it, zero means that
  nobody is left (`LatchInv`), a task that refers to a group keeps it alive
  (`AliveInv`), and what a batch did is over when wait() resets the latch
  (`SettledInv`).

**Future_proofs**, for any setters and kinds:

- `ResultIsComplete`, `PromiseIsKept`, `JoinedGroupOutlivesJob`, `FirstSetIsKept`,
  `CommitmentTypeCorrect`. The invariant says which kind of commitment each label belongs
  to (`KindInv`), who holds the mutex (`MutexInv`), who still owns the promise and who
  left without making it ready (`OwnerInv`), what the flags say of value and exception
  (`ResultInv`, `ReadyInv`) and that the latch counts the client and the job (`LatchInv`).
  The void kinds make it long: a flag byte that was loaded earlier may be stored over a
  newer one, so what holds of the others is claimed of them only where it survives that.

and, in its last section, of `Event`, which it extends too, for any threads, flags and
times:

- `WakeupIsNotLost`, with `SleepInv` (between its test and its sleep a waiter's flags
  are unset, because it has the mutex); `TimeoutIsNotEarly`, with `TimeInv` (a deadline
  was computed after the call); `EventTypeCorrect`.

**ConcurrentHashMap_proofs**, for any threads, keys, homes and size of the table:

- `TableTypeCorrect`: the table and what every call has in hand keep their types;
  `reclaim()` puts back only what it took.
- `KeysAreUnique`, `KeysAreReachable`, `ReclaimLeavesNoTombstone`. A claimed slot stays
  claimed while any threads probe, so uniqueness follows once no free slot lies in front of
  a key's slot (`SlotsInv`). reclaim() breaks exactly that for a while, and alone. `GapInv`
  says what is left of it: a free slot may lie between a key's home and its slot only while
  the scan of a cluster is under way, and only if every slot from the scan to the key is
  claimed, so that the scan will come to the key. Order in a cluster that wraps around the
  end is the distance `Dist` modulo the number of slots. `ReclaimInv` says that no tombstone
  is left up to the slot that the outer loop has reached, and that the scan is at most one
  ahead of it or has gone around.
- `TableImplementsMap`: the abstract map holds for a key what the slot with that key holds.
  An exchange of a value is the abstract Set, the load of it or of a free slot the abstract
  Get (`AnswerInv` says what a thread has in hand between that and its return), a set() that
  throws the abstract Fail, and a turn of reclaim() a stutter.
- `ThrowMeansFull`: with `PassedInv`, that the slots a set() has passed are claimed by
  other keys and stay so while the call runs, and `WrapCovers`, that as many slots from
  any home on are all slots.

**ProcessHeap_proofs**, for any threads, names, constructors and number of objects:

- `HeapInvariant`: the invariant is about who may touch an entry. Objects and entries
  are one to one (`EntryInv`), an open call holds the lock of the entry it works on and
  nobody else does (`LockInv`), the mutex is held at exactly the labels between its lock
  and unlock (`MutexInv`), so an entry whose lock is free is in nobody's hands.
- `NamesAreSingular`, `FoundIsComplete`, `ExitIsClean`, `HeapTypeCorrect` follow from it
  (ExitIsClean is about an exit_thread() that returns; the one that throws is in section 7)
  and from `GotInv` and `ExitInv`, which say what a call has been given and what
  exit_thread() has still to free.

**GrowablePool_proofs**, for any threads, blocks and finitely many chunks:

- `Invariant`: the walk from `head` is a list without repetition (`Intact`); each chunk a
  thread pushes is off the list and pushed by no other, and between its two accesses its
  link is the head it read (`StackInv`). `Grown` is what a step of the calls does to the
  list: whoever is followed by y stays so, because chunks only come on top. So a walk of
  deallocate() that has its chunk before it (`Leads`) keeps it before it until it is there
  (`KnownInv`). `BlockInv` is that a block is in one place.
- `NoChunkIsLost`, `NothingEverDangles` follow from it; `ShrinkKeeps` computes what
  shrink()'s loops leave on the stack, by the least number for which they would not.
- `PoolImplements`: the allocation from a chunk or of a new one is the abstract Take, the
  call of deallocate() Return, the end of it Give; grow(), shrink() and all else stutter.

**ConcurrentQueue_proofs**, for any threads and values, finitely many nodes and both kinds
of element, with the hypotheses `SafeReuse` and `~LowMemory`:

- `SafeReuse` says that push() creates no node which a call under way still refers to.
  The code does not ensure it, since every tag is 0; without it `concurrent_queue_aba` is a
  counterexample. It is not enough: a node may be back in the pool while a call refers to
  it, and the pool's link is then in the word that this call compares with null.
  `~LowMemory` says that this link is never null; without it the theorems are false too
  (section 7). What is proved is that of the reuse of nodes the algorithm needs these two.
  They say nothing of elements that are destroyed twice.
- `Invariant`: `Spec => []IInv`. Beside the types it has five parts. `QueueInv`: the walk
  from `head` passes no node twice, ends, and `tail` is on it, at its end or one before.
  `PlaceInv`: a node is in the pool, on the walk, in one push() (`Pushes`), or in the
  hands of the try_pop() that made it the former head (`Gives`) or the dummy (`Marks`).
  `FlagInv`: the flag of a node is set by the first of those two, so the second one frees
  it. `KnownInv`: what a call may conclude from what it has read (`Knows`). A node read
  from `head` or `tail` is not one that is being pushed (`Seen`), and does not lie behind
  `tail` (`Past`); so a node that still has no link is the last of the queue, and the
  exchange of its link appends. `ValueInv`: an element stays in its node until it was
  taken.
- The lemmas are about two relations between a state and the next: `Onward`, what every
  step does to the walk (nodes join at the end, leave at the front, in order), and
  `Spared`, that the link of a node a call holds is not reset to null under it: push()
  creates another, and what destroy() writes over it is not null. Whatever a
  thread knows survives the steps of the others that are `Onward` and spare its nodes.
- `NoNodeIsLost` follows. `QueueImplements`: the exchange of a link is the abstract Push,
  the exchange of `head` the abstract Pop, the load of the dummy's null link the instant
  at which a try_pop() that fails found the queue empty, all else stutters. That the
  elements change as a sequence does follows from the walk being the same but for its last
  or its first node.

**Only model-checked**: liveness (`EveryTaskRuns`, `CallsReturn`, `ReturnsUnlessStarved`,
`SetReleases`, `GetReturns`, `ReclaimReturns`, `ReturnsUnlessDeadlocked`), which under
fairness is out of this prover's reach, and of course the counterexamples of section 7.
Every invariant, action property and refinement of the other runs is a theorem.

## 7. Where the code departs from what it says

Three runs end in a counterexample on purpose:

- `future_lifetime`: when the client is gone, or saw the result early, the job drops the
  last reference to the commitment, which frees the task group (`future.h:78`) whose
  latch the job's lambda then releases (`threadpool.h:270`).
- `taskgroup_starved`: a runs b in its own group and b runs d in that group. Client c2 steals
  b; the worker with a and the client c1 that waits for a find the queue empty and block in
  `latch.wait()` (`threadpool.h:290`). b queues d, but since the blocked worker is still in
  `num_working`, dispatch() (180) notifies nobody; c2 finds its own group done and leaves. d
  stays in the queue, with a second worker asleep.
- `concurrent_queue_aba`: every tag is 0 (`tagged_pointer.h:34` and 52). A try_pop() that is
  stopped before its exchange (`concurrent_queue.h:317`) finds `head` equal to what it has
  read although that node was popped, freed, created anew and became `head` again; it
  sets `head` to the successor it has read, which is in the pool by then, and returns an
  element that was returned before. When both threads are out of their calls, `head` names
  a node of the free list.

Behaviours the models have, or the reading found, and that no property claims or
forbids:

- set() of an autoreset event sets no flag and only notifies (`event.h:99`); the waiter
  tests the mask again and sleeps again, though `event.h:28` says set() unblocks the
  threads that wait. SetReleases is stated for the other kind.
- `internal_set_value()` (`future.h:204`) does not notify, so who sleeps in wait() on a
  `promise<T>`'s future sleeps on. GetReturns is stated for async().
- set_exception_at_thread_exit() stores the exception and leaves the rest to nobody
  (`future.h:137`): unlike set_value_at_thread_exit() it registers nothing that makes the
  commitment ready, and when the owners are gone the promise is broken (82, 393).
  BrokenWhenAllLeft counts such an owner among those that left without setting it.
- exit_thread() lists what it is to free in a `fixed_vector` of 32
  (`process_heap.cpp:250`); the 33rd object makes push_back() throw (256), and nothing is
  freed. ExitLeavesNothing is about an exit_thread() that returns.
- with the queue's pool below 4 GB, destroy() makes a node's `next` null when block 0 was on
  top of the free list. A push() that had read this node from `tail` then links its own
  behind it (`concurrent_queue.h:225`), in the pool: it returns and its element is in no
  queue. (`LowMemory` TRUE and a fourth node make TLC find it: AtRestNothingLost is
  violated.)
- try_pop() destroys the element of a type with a destructor (280), and pool.destroy() of
  the node does it again (282, 291), where a comment says "just deallocate".
- a lookup of an object under construction waits for the entry's lock with `Mutex` held
  (`process_heap.cpp:306`), and the constructing thread needs `Mutex` at 319: the
  deadlock that ReturnsUnlessDeadlocked excepts.
- a second caller of singleton() gets the object while its constructor runs
  (`process_heap.h:102`, `process_heap.cpp:287`). FoundIsBuilt is about
  find_or_allocate().
- dispatch() tests `running` without the mutex (`threadpool.h:176`): with `OrderlyJoin`
  FALSE a task can be queued on a pool that was joined. A task that dispatches while
  join() drains throws out of its worker (185).
- notify_one() is skipped while any worker is counted (180): a busy pool of many workers
  may run its queue on one of them. NoLostWakeup and EveryTaskRuns hold regardless, as
  long as task bodies end.
- the void kinds of commitment write a flag without the mutex (`future.h:173`) and can
  lose its neighbour; BrokenWhenAllLeft and FirstSetWins are stated for the others.
- get() of an absent key never returns on a full table (`concurrent_hash_map.cpp:196`),
  so only reclaim() has a liveness property.
- read, and not modelled: the unlocked decrement of the heap's RefCount
  (`process_heap.cpp:198`), collect_garbage() in the order of addresses (185), the move of
  a growable pool, which moves its chunks to themselves
  (`concurrent_growable_pool.cpp:54`), post_completion() that releases its operation
  (`win_iocp.cpp:332`).

## 8. What is not modelled, and why

- Memory order weaker than sequential consistency: the containers use relaxed
  operations, on x86 targets; the models order all accesses.
- `wait_until` of event, `set_value_at_thread_exit` and `promise<T&>`, and
  `lock_free_queue`: these templates do not compile when used, so there is no program.
- `wait_for` and `wait_until` of a future, the move of a pool, map or latch, and
  `countdown_latch::wait_for`.
- task_group::wait() on a pool that was joined, which throws (`threadpool.h:285`):
  groups are used while the pool runs.
- `concurrent_queue_opt`, which only tests use, and `oDispatchQueueGlobalT`, which
  nothing instantiates.
- concurrent_registry: initialize() computes the size of its pool and never initializes it
  (`concurrent_registry.cpp:85-115`; 98 takes it for done), so create() returns nullptr,
  every make() returns `&missing` (310, 320), and nothing gets into its queues: there is no
  behaviour to check.
- leak_tracker: its map and its pool are modelled, their combination is not.
- iocp, `migrate()` of the hash map and the end of the process heap (RefCount,
  `collect_garbage()`): section 2 has them as open.
- Racing pops of a concurrent_stack, and `pop_all()` while others push: no client has
  them (shrink() takes all chunks off while nobody else is in a call).
- Sequential code: linear, small-block and tlsf allocators, hashes and copies, strings,
  parsers, reflection.
- Numeric code and devices: surfaces, meshes, shaders, compression, GPU, GUI, sockets,
  files. Their correctness is about data or about the system behind them.
