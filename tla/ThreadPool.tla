------------------------------ MODULE ThreadPool ------------------------------
(***************************************************************************)
(* ouro::threadpool (include/oConcurrency/threadpool.h): a fixed set of    *)
(* worker threads that take tasks from one global queue under one mutex,   *)
(* sleep on one condition variable when there is nothing to do, and are    *)
(* counted by num_working, which flush() polls without taking the mutex.   *)
(*                                                                         *)
(* A task body is abstracted to what it does to the pool: it dispatches    *)
(* the tasks of Children[t] and returns.                                   *)
(***************************************************************************)
EXTENDS Naturals, Sequences, FiniteSets

CONSTANTS
  Workers,      \* the threads of threadpool_base::workers
  Clients,      \* the other threads that use the pool
  Owner,        \* the client that constructs the pool and joins it
  Tasks,        \* every task that is ever dispatched
  Children,     \* Children[t]: the tasks that the body of t dispatches
  OrderlyJoin,  \* TRUE: join() is called when no dispatch is to come
  None          \* no task, no thread

ASSUME WorkersAssumption == IsFiniteSet(Workers) /\ Workers # {}
ASSUME ThreadsAssumption == Workers \cap Clients = {} /\ Owner \in Clients
ASSUME NoneAssumption == None \notin Tasks /\ None \notin Workers \cup Clients
ASSUME TasksAssumption == /\ Children \in [Tasks -> SUBSET Tasks]
                          /\ OrderlyJoin \in BOOLEAN

VARIABLES
  mtx,            \* the thread that holds mtx, or None
  work_available, \* the workers blocked in work_available.wait()
  global_queue,
  num_working,
  running,
  pc,             \* where each thread is
  task,           \* task[w]: the task whose body worker w is executing
  arg,            \* arg[p]: the argument of the dispatch() p is in
  flushed,        \* flushed[c]: what c's flush() has to wait for (history)
  requested,      \* tasks for which dispatch() was called (history)
  pushed,         \* tasks that entered the queue (history)
  done,           \* tasks whose body has returned (history)
  alive           \* FALSE once std::terminate() has ended the process

vars == <<mtx, work_available, global_queue, num_working, running, pc, task,
          arg, flushed, requested, pushed, done, alive>>

history == <<requested, pushed, done>>
state == <<mtx, work_available, global_queue, num_working, running>>

Threads == Workers \cup Clients

WorkerLabels == {"start", "lock", "locked", "asleep", "woken", "body",
                 "push", "exit"}
ClientLabels == {"uninit", "idle", "push", "flush", "flush_empty",
                 "flush_idle", "flushed", "joining", "joined"}

(* Roots are the tasks that clients dispatch; the others are dispatched by
   the body of their parent. *)
Roots == {t \in Tasks : \A u \in Tasks : t \notin Children[u]}

(* No thread moves once the process has been terminated. *)
At(p, label) == alive /\ pc[p] = label
Goto(p, label) == pc' = [pc EXCEPT ![p] = label]

(* Definitions named Bug... are seeded bugs: each is the definition that
   follows it with one plausible mistake. No specification uses them; they
   show that the properties can fail. *)

---------------------------------------------------------------------------
(* Bug: the workers are not counted before they are started. *)
BugInit ==
  /\ mtx = None
  /\ work_available = {}
  /\ global_queue = <<>>
  /\ num_working = 0
  /\ running = TRUE
  /\ pc = [p \in Threads |-> IF p \in Workers THEN "start"
                             ELSE IF p = Owner THEN "flush" ELSE "uninit"]
  /\ task = [w \in Workers |-> None]
  /\ arg = [p \in Threads |-> None]
  /\ flushed = [c \in Clients |-> {}]
  /\ requested = {} /\ pushed = {} /\ done = {}
  /\ alive = TRUE

(* threadpool_base() then construct_workers(): num_working counts every     *)
(* worker before any of them runs, and the constructor ends in a flush().   *)
Init ==
  /\ mtx = None
  /\ work_available = {}
  /\ global_queue = <<>>
  /\ num_working = Cardinality(Workers)
  /\ running = TRUE
  /\ pc = [p \in Threads |-> IF p \in Workers THEN "start"
                             ELSE IF p = Owner THEN "flush" ELSE "uninit"]
  /\ task = [w \in Workers |-> None]
  /\ arg = [p \in Threads |-> None]
  /\ flushed = [c \in Clients |-> {}]
  /\ requested = {} /\ pushed = {} /\ done = {}
  /\ alive = TRUE

(* The pool is handed to the other threads once its constructor returned. *)
Publish(c) ==
  /\ At(c, "uninit") /\ pc[Owner] \notin {"flush", "flush_empty", "flush_idle"}
  /\ Goto(c, "idle")
  /\ UNCHANGED <<state, task, arg, flushed, history, alive>>

---------------------------------------------------------------------------
(* work(): the main loop of a worker. *)

BeginThread(w) ==
  /\ At(w, "start")
  /\ Goto(w, "lock")
  /\ UNCHANGED <<state, task, arg, flushed, history, alive>>

Lock(w) ==
  /\ At(w, "lock") /\ mtx = None
  /\ mtx' = w
  /\ Goto(w, "locked")
  /\ UNCHANGED <<work_available, global_queue, num_working, running, task,
                 arg, flushed, history, alive>>

(* while (running && global_queue.empty()) num_working--, wait(lock). *)
Sleep(w) ==
  /\ At(w, "locked") /\ running /\ global_queue = <<>>
  /\ num_working' = num_working - 1
  /\ work_available' = work_available \cup {w}
  /\ mtx' = None
  /\ Goto(w, "asleep")
  /\ UNCHANGED <<global_queue, running, task, arg, flushed, history, alive>>

(* A condition variable may wake a thread that nobody notified. *)
SpuriousWakeup(w) ==
  /\ At(w, "asleep")
  /\ work_available' = work_available \ {w}
  /\ Goto(w, "woken")
  /\ UNCHANGED <<mtx, global_queue, num_working, running, task, arg, flushed,
                 history, alive>>

(* Bug: num_working++ forgotten after the wait. *)
BugRewake(w) ==
  /\ At(w, "woken") /\ mtx = None
  /\ mtx' = w
  /\ Goto(w, "locked")
  /\ UNCHANGED <<work_available, global_queue, num_working, running, task,
                 arg, flushed, history, alive>>

(* The return of wait(lock): the mutex is held again, num_working++. *)
Rewake(w) ==
  /\ At(w, "woken") /\ mtx = None
  /\ mtx' = w
  /\ num_working' = num_working + 1
  /\ Goto(w, "locked")
  /\ UNCHANGED <<work_available, global_queue, running, task, arg, flushed,
                 history, alive>>

Pop(w) ==
  /\ At(w, "locked") /\ global_queue # <<>>
  /\ task' = [task EXCEPT ![w] = Head(global_queue)]
  /\ global_queue' = Tail(global_queue)
  /\ mtx' = None
  /\ Goto(w, "body")
  /\ UNCHANGED <<work_available, num_working, running, arg, flushed, history,
                 alive>>

(* Bug: the loop is left as soon as the pool does not run. *)
BugExit(w) ==
  /\ At(w, "locked") /\ ~running
  /\ mtx' = None
  /\ Goto(w, "exit")
  /\ UNCHANGED <<work_available, global_queue, num_working, running, task,
                 arg, flushed, history, alive>>

(* The loop is left with work drained; num_working keeps counting w. *)
Exit(w) ==
  /\ At(w, "locked") /\ ~running /\ global_queue = <<>>
  /\ mtx' = None
  /\ Goto(w, "exit")
  /\ UNCHANGED <<work_available, global_queue, num_working, running, task,
                 arg, flushed, history, alive>>

(* task() returns: its children were dispatched. *)
FinishTask(w) ==
  /\ At(w, "body")
  /\ Children[task[w]] \subseteq requested
  /\ done' = done \cup {task[w]}
  /\ task' = [task EXCEPT ![w] = None]
  /\ Goto(w, "lock")
  /\ UNCHANGED <<state, arg, flushed, requested, pushed, alive>>

---------------------------------------------------------------------------
(* dispatch(): called by a client, or by a worker from the body of a task.  *)

MayDispatch(p, t) ==
  /\ t \notin requested
  /\ \/ p \in Clients /\ pc[p] = "idle" /\ t \in Roots
     \/ p \in Workers /\ At(p, "body") /\ t \in Children[task[p]]

(* if (running) is evaluated before the mutex is taken. *)
DispatchCall(p, t) ==
  /\ MayDispatch(p, t) /\ running
  /\ requested' = requested \cup {t}
  /\ arg' = [arg EXCEPT ![p] = t]
  /\ Goto(p, "push")
  /\ UNCHANGED <<state, task, flushed, pushed, done, alive>>

(* else throw: a client gets the exception; thrown in a task body it leaves
   the thread function of the worker, which is std::terminate(). *)
DispatchThrow(p, t) ==
  /\ MayDispatch(p, t) /\ ~running
  /\ requested' = requested \cup {t}
  /\ alive' = (p \in Clients)
  /\ UNCHANGED <<state, pc, task, arg, flushed, pushed, done>>

(* notify_one() wakes one waiter, whichever, and is lost without waiters. *)
NotifyOne ==
  \/ /\ work_available = {}
     /\ UNCHANGED work_available
  \/ \E w \in work_available : work_available' = work_available \ {w}

(* The threads a notification takes out of wait(). *)
Woken(p, label) ==
  pc' = [q \in Threads |-> IF q = p THEN label
                           ELSE IF q \in work_available \ work_available'
                                THEN "woken" ELSE pc[q]]

(* Bug: the test of num_working is inverted. *)
BugDispatchPush(p) ==
  /\ At(p, "push") /\ mtx = None
  /\ global_queue' = Append(global_queue, arg[p])
  /\ IF num_working # 0 THEN NotifyOne ELSE UNCHANGED work_available
  /\ Woken(p, IF p \in Workers THEN "body" ELSE "idle")
  /\ pushed' = pushed \cup {arg[p]}
  /\ arg' = [arg EXCEPT ![p] = None]
  /\ UNCHANGED <<mtx, num_working, running, task, flushed, requested, done,
                 alive>>

(* Under the lock: push_back, and notify_one() only if nobody is working. *)
DispatchPush(p) ==
  /\ At(p, "push") /\ mtx = None
  /\ global_queue' = Append(global_queue, arg[p])
  /\ IF num_working = 0 THEN NotifyOne ELSE UNCHANGED work_available
  /\ Woken(p, IF p \in Workers THEN "body" ELSE "idle")
  /\ pushed' = pushed \cup {arg[p]}
  /\ arg' = [arg EXCEPT ![p] = None]
  /\ UNCHANGED <<mtx, num_working, running, task, flushed, requested, done,
                 alive>>

---------------------------------------------------------------------------
(* flush(): three unlocked reads in a polling loop. *)

FlushCall(c) ==
  /\ At(c, "idle")
  /\ flushed' = [flushed EXCEPT ![c] = pushed]
  /\ Goto(c, "flush")
  /\ UNCHANGED <<state, task, arg, history, alive>>

(* while (running) *)
FlushRunning(c) ==
  /\ At(c, "flush")
  /\ IF running THEN Goto(c, "flush_empty") /\ UNCHANGED flushed
     ELSE Goto(c, "idle") /\ flushed' = [flushed EXCEPT ![c] = {}]
  /\ UNCHANGED <<state, task, arg, history, alive>>

(* global_queue.empty() && ... *)
FlushEmpty(c) ==
  /\ At(c, "flush_empty")
  /\ Goto(c, IF global_queue = <<>> THEN "flush_idle" ELSE "flush")
  /\ UNCHANGED <<state, task, arg, flushed, history, alive>>

(* Bug: an empty queue is taken for a flushed pool. *)
BugFlushIdle(c) ==
  /\ At(c, "flush_idle")
  /\ Goto(c, "flushed")
  /\ UNCHANGED <<state, task, arg, flushed, history, alive>>

(* ... num_working == 0 *)
FlushIdle(c) ==
  /\ At(c, "flush_idle")
  /\ Goto(c, IF num_working = 0 THEN "flushed" ELSE "flush")
  /\ UNCHANGED <<state, task, arg, flushed, history, alive>>

FlushReturn(c) ==
  /\ At(c, "flushed")
  /\ Goto(c, "idle")
  /\ flushed' = [flushed EXCEPT ![c] = {}]
  /\ UNCHANGED <<state, task, arg, history, alive>>

---------------------------------------------------------------------------
(* join() *)

NoDispatchToCome ==
  /\ \A p \in Threads : pc[p] # "push"
  /\ \A t \in pushed : Children[t] \subseteq requested

(* Bug: notify_one() where every worker has to be woken. *)
BugJoinCall ==
  /\ At(Owner, "idle") /\ mtx = None
  /\ OrderlyJoin => NoDispatchToCome
  /\ running' = FALSE
  /\ NotifyOne
  /\ Woken(Owner, "joining")
  /\ UNCHANGED <<mtx, global_queue, num_working, task, arg, flushed, history,
                 alive>>

(* Under the lock: running = false, notify_all(). *)
JoinCall ==
  /\ At(Owner, "idle") /\ mtx = None
  /\ OrderlyJoin => NoDispatchToCome
  /\ running' = FALSE
  /\ work_available' = {}
  /\ Woken(Owner, "joining")
  /\ UNCHANGED <<mtx, global_queue, num_working, task, arg, flushed, history,
                 alive>>

JoinReturn ==
  /\ At(Owner, "joining")
  /\ \A w \in Workers : pc[w] = "exit"
  /\ Goto(Owner, "joined")
  /\ UNCHANGED <<state, task, arg, flushed, history, alive>>

---------------------------------------------------------------------------
(* The pool was joined and every client has left it. *)
Finished ==
  /\ pc[Owner] = "joined"
  /\ \A c \in Clients \ {Owner} : pc[c] = "idle"

WorkerStep(w) ==
  \/ BeginThread(w) \/ Lock(w) \/ Sleep(w) \/ SpuriousWakeup(w)
  \/ Rewake(w) \/ Pop(w) \/ Exit(w) \/ FinishTask(w)

ClientStep(c) ==
  \/ Publish(c) \/ FlushCall(c) \/ FlushRunning(c) \/ FlushEmpty(c)
  \/ FlushIdle(c) \/ FlushReturn(c)

DispatchStep(p) ==
  \/ \E t \in Tasks : DispatchCall(p, t) \/ DispatchThrow(p, t)
  \/ DispatchPush(p)

Step ==
  \/ \E w \in Workers : WorkerStep(w)
  \/ \E c \in Clients : ClientStep(c)
  \/ \E p \in Threads : DispatchStep(p)
  \/ JoinCall
  \/ JoinReturn

(* std::terminate() ends every thread; a joined pool is not used again. *)
Halted == (~alive \/ Finished) /\ UNCHANGED vars

Next == Step \/ Halted

Spec == Init /\ [][Next]_vars

(* The scheduler runs every thread that can go on. Nothing obliges a client
   to call dispatch(), flush() or join(); the body of a task does dispatch
   its children. *)
FairWorker(w) ==
  /\ WF_vars(BeginThread(w) \/ Lock(w) \/ Sleep(w) \/ Rewake(w) \/ Pop(w)
             \/ Exit(w) \/ FinishTask(w))
  /\ WF_vars(\E t \in Tasks : DispatchCall(w, t) \/ DispatchThrow(w, t))

FairClient(c) ==
  WF_vars(FlushRunning(c) \/ FlushEmpty(c) \/ FlushIdle(c) \/ FlushReturn(c))

(* Spurious wakeups do not go on for ever: a flush() that polls just when a
   worker has been woken for nothing would never see the pool idle. *)
SpuriousWakeupsEnd == <>[][\A w \in Workers : ~SpuriousWakeup(w)]_vars

Fairness ==
  /\ \A w \in Workers : FairWorker(w)
  /\ \A c \in Clients : FairClient(c)
  /\ \A p \in Threads : WF_vars(DispatchPush(p))
  /\ WF_vars(JoinReturn)
  /\ SpuriousWakeupsEnd

FairSpec == Spec /\ Fairness

---------------------------------------------------------------------------
Queued == {global_queue[i] : i \in 1..Len(global_queue)}

(* The workers that num_working does not count. *)
Resting == {w \in Workers : pc[w] \in {"asleep", "woken"}}
Busy == Workers \ Resting

TypeOK ==
  /\ mtx \in Workers \cup {None}
  /\ work_available \in SUBSET Workers
  /\ global_queue \in Seq(Tasks)
  /\ num_working \in Nat
  /\ running \in BOOLEAN
  /\ pc \in [Threads -> WorkerLabels \cup ClientLabels]
  /\ \A w \in Workers : pc[w] \in WorkerLabels
  /\ \A c \in Clients : pc[c] \in ClientLabels
  /\ task \in [Workers -> Tasks \cup {None}]
  /\ arg \in [Threads -> Tasks \cup {None}]
  /\ flushed \in [Clients -> SUBSET Tasks]
  /\ requested \in SUBSET Tasks
  /\ pushed \in SUBSET requested
  /\ done \in SUBSET pushed
  /\ alive \in BOOLEAN

(* flush() blocks "until all workers are idle" (threadpool.h:49), and the
   test of the pool relies on it: when flush() returns because it saw an
   empty queue and no working worker, every task that had been dispatched
   when flush() was called has finished, whoever dispatched it, although the
   two reads are made at different times and without the mutex. *)
FlushComplete ==
  \A c \in Clients : pc[c] = "flushed" => flushed[c] \subseteq done

(* The constructor returns only when every worker has started: "wait until
   all have settled and thus ensure all have initialized" (threadpool.h:94),
   which the flush() in construct_workers() must guarantee. *)
ConstructorSettles ==
  (\E c \in Clients : pc[c] = "idle") => \A w \in Workers : pc[w] # "start"

(* notify_one() is called only when num_working is 0, so a push made while
   some worker is counted relies on that worker to come back to the queue:
   the queue is never left non-empty with every worker asleep. *)
NoLostWakeup ==
  global_queue # <<>> => work_available # Workers

(* join() drains: when it returns, everything that was ever queued has run. *)
JoinDrains == pc[Owner] = "joined" => pushed = done

(* Every task that was queued is executed. *)
EveryTaskRuns == \A t \in Tasks : t \in pushed ~> t \in done

(* flush() and join() return. *)
CallsReturn ==
  /\ \A c \in Clients : pc[c] = "flush" ~> pc[c] \in {"idle", "joining"}
  /\ pc[Owner] = "joining" ~> pc[Owner] = "joined"

---------------------------------------------------------------------------
(* The inductive invariant behind FlushComplete and ConstructorSettles. *)

(* Threads and the synchronisation objects agree on who holds and who waits. *)
SyncInv ==
  /\ \A w \in Workers : pc[w] = "locked" <=> mtx = w
  /\ \A w \in Workers : pc[w] = "asleep" <=> w \in work_available
  /\ \A w \in Workers : task[w] # None <=> pc[w] \in {"body", "push"}
  /\ \A p \in Threads : pc[p] = "push" => arg[p] \in requested

CountInv == num_working = Cardinality(Busy)

Executing == {task[w] : w \in Workers}

(* Wherever a pushed task is, it is not lost; nothing else is in the pool. *)
PlaceInv ==
  /\ pushed \subseteq done \cup Queued \cup Executing
  /\ Queued \cup Executing \subseteq pushed \cup {None}

(* What a flush() that has seen an empty queue still has to wait for is
   executed by a worker. *)
FlushInv ==
  /\ \A c \in Clients : flushed[c] \subseteq pushed
  /\ \A c \in Clients :
       pc[c] = "flush_idle" => flushed[c] \subseteq done \cup Executing

(* A worker that has not started holds back the constructor. *)
StartInv ==
  (\E w \in Workers : pc[w] = "start") =>
    /\ running
    /\ pc[Owner] \in {"flush", "flush_empty", "flush_idle"}
    /\ \A c \in Clients \ {Owner} : pc[c] = "uninit"

(* Every worker that num_working does not count rests, every task that was
   pushed has a place, and every flush() knows enough to return only when its
   tasks are done: the accounting of the pool holds in every state. *)
IInv ==
  /\ TypeOK /\ SyncInv /\ CountInv /\ PlaceInv /\ FlushInv /\ StartInv
  /\ FlushComplete

(* The shutdown: a worker leaves an empty queue behind, and when join() is
   called in an orderly way nobody refills it. *)
ExitInv ==
  /\ \A w \in Workers : pc[w] = "exit" => ~running
  /\ ~running => \A p \in Threads : pc[p] # "push"
  /\ (\E w \in Workers : pc[w] = "exit") => global_queue = <<>>
  /\ pc[Owner] = "joined" => \A w \in Workers : pc[w] = "exit"
=============================================================================
