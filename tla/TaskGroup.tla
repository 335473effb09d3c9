------------------------------- MODULE TaskGroup -------------------------------
(***************************************************************************)
(* ouro::detail::task_group (include/oConcurrency/threadpool.h) on top of  *)
(* countdown_latch (include/oConcurrency/countdown_latch.h): fork and join *)
(* on the thread pool. A thread that waits for its group executes queued   *)
(* tasks meanwhile, whatever group they belong to, on its own stack.       *)
(*                                                                         *)
(* A frame is one activation: the code of a client or the body of a task.  *)
(* Each frame owns at most one group, named after it. The pool is seen at  *)
(* the granularity of its critical sections; ThreadPool.tla has its steps, *)
(* and its invariant CountInv is what num_working means here.              *)
(***************************************************************************)
EXTENDS Integers, Sequences, FiniteSets

CONSTANTS
  Workers,    \* the threads of the pool
  Clients,    \* the other threads, each the frame of its own code
  Tasks,      \* the tasks given to run()
  RunBy,      \* RunBy[t]: the frame that calls run() with t
  Into,       \* Into[t]: the frame that owns the group t is run in
  Cancellers, \* the frames that may call cancel() on the group they belong to
  None

Frames == Clients \cup Tasks
Threads == Workers \cup Clients

ASSUME SetsAssumption == /\ IsFiniteSet(Workers) /\ IsFiniteSet(Tasks)
                         /\ Workers \cap Frames = {} /\ Clients \cap Tasks = {}
                         /\ None \notin Workers \cup Frames
                         /\ Cancellers \subseteq Tasks

(* A frame runs tasks in its own group or in the group it belongs to, as
   thread_local_parallel_for() does. *)
ASSUME ForkAssumption ==
  /\ RunBy \in [Tasks -> Frames] /\ Into \in [Tasks -> Frames]
  /\ \A t \in Tasks : \/ Into[t] = RunBy[t]
                      \/ RunBy[t] \in Tasks /\ Into[t] = Into[RunBy[t]]

VARIABLES
  global_queue,
  asleep,          \* the workers blocked in work_available.wait()
  woken,           \* the workers that have left it and are not counted yet
  stack,           \* stack[p]: the frames on the stack of thread p
  pc,              \* where each frame is
  arg,             \* arg[f]: the task f has referenced and not yet queued
  num_outstanding, \* the latch of each group,
  latch_mtx,       \* the frame that holds its mutex,
  canceling,       \* the flag of the group,
  alive,           \* and whether the group object exists
  destroying,      \* the frames whose wait() is that of ~task_group()
  late             \* reference() has thrown

vars == <<global_queue, asleep, woken, stack, pc, arg, num_outstanding,
          latch_mtx, canceling, alive, destroying, late>>
pool == <<global_queue, asleep, woken>>
group == <<num_outstanding, latch_mtx, canceling, alive, destroying, late>>

Labels == {"new", "queued", "dropped", "lambda", "body", "push", "wait",
           "test", "steal", "latchwait", "latchsleep", "reset", "uncancel",
           "waited", "exit", "release", "unlock", "done"}

Owned(f) == {t \in Tasks : Into[t] = f}
Asked(t) == pc[t] # "new"
AllAsked(f) == \A t \in Tasks : RunBy[t] = f => Asked(t)

Top(p) == stack[p][Len(stack[p])]
OnTop(p, f, label) == stack[p] # <<>> /\ Top(p) = f /\ pc[f] = label
Goto(f, label) == pc' = [pc EXCEPT ![f] = label]

num_working == Cardinality(Workers \ (asleep \cup woken))

(* Definitions named Bug... are seeded bugs: the definition that follows them
   with one plausible mistake. No specification uses them. *)

---------------------------------------------------------------------------
(* The pool is constructed and settled; each client has made its group. *)
Init ==
  /\ global_queue = <<>> /\ asleep = Workers /\ woken = {}
  /\ stack = [p \in Threads |-> IF p \in Clients THEN <<p>> ELSE <<>>]
  /\ pc = [f \in Frames |-> IF f \in Clients THEN "body" ELSE "new"]
  /\ arg = [f \in Frames |-> None]
  /\ num_outstanding = [f \in Frames |-> 1]
  /\ latch_mtx = [f \in Frames |-> None]
  /\ canceling = [f \in Frames |-> FALSE]
  /\ alive = [f \in Frames |-> f \in Clients]
  /\ destroying = {} /\ late = FALSE

---------------------------------------------------------------------------
(* The worker loop of the pool. *)

(* A task starts with the lambda that run() wraps around it. *)
Start(p, t) ==
  /\ stack' = [stack EXCEPT ![p] = Append(@, t)]
  /\ global_queue' = Tail(global_queue)

Take(w) ==
  /\ stack[w] = <<>> /\ w \notin asleep \cup woken /\ global_queue # <<>>
  /\ Start(w, Head(global_queue))
  /\ Goto(Head(global_queue), "lambda")
  /\ UNCHANGED <<asleep, woken, arg, group>>

Sleep(w) ==
  /\ stack[w] = <<>> /\ w \notin asleep \cup woken /\ global_queue = <<>>
  /\ asleep' = asleep \cup {w}
  /\ UNCHANGED <<global_queue, woken, stack, pc, arg, group>>

SpuriousWakeup(w) ==
  /\ w \in asleep
  /\ asleep' = asleep \ {w} /\ woken' = woken \cup {w}
  /\ UNCHANGED <<global_queue, stack, pc, arg, group>>

Rewake(w) ==
  /\ w \in woken
  /\ woken' = woken \ {w}
  /\ UNCHANGED <<global_queue, asleep, stack, pc, arg, group>>

---------------------------------------------------------------------------
(* run() *)

(* Bug: the task is dispatched without a reference to the latch. *)
BugRun(p, f, t) ==
  /\ OnTop(p, f, "body") /\ RunBy[t] = f /\ ~Asked(t)
  /\ IF canceling[Into[t]]
     THEN Goto(t, "dropped") /\ UNCHANGED arg
     ELSE /\ arg' = [arg EXCEPT ![f] = t]
          /\ pc' = [pc EXCEPT ![f] = "push", ![t] = "queued"]
  /\ UNCHANGED <<pool, stack, num_outstanding, latch_mtx, canceling, alive,
                 destroying, late>>

(* Unless the group is canceling, latch.reference(), which throws when the
   count has already come down to zero; then tp.dispatch(). *)
Run(p, f, t) ==
  LET g == Into[t] IN
  /\ OnTop(p, f, "body") /\ RunBy[t] = f /\ ~Asked(t)
  /\ IF canceling[g]
     THEN Goto(t, "dropped") /\ UNCHANGED <<arg, num_outstanding, late>>
     ELSE /\ latch_mtx[g] = None
          /\ IF num_outstanding[g] <= 0
             THEN late' = TRUE /\ UNCHANGED <<pc, arg, num_outstanding>>
             ELSE /\ num_outstanding' = [num_outstanding EXCEPT ![g] = @ + 1]
                  /\ arg' = [arg EXCEPT ![f] = t]
                  /\ pc' = [pc EXCEPT ![f] = "push", ![t] = "queued"]
                  /\ UNCHANGED late
  /\ UNCHANGED <<pool, stack, latch_mtx, canceling, alive, destroying>>

NotifyOne ==
  \/ asleep = {} /\ UNCHANGED <<asleep, woken>>
  \/ \E w \in asleep : asleep' = asleep \ {w} /\ woken' = woken \cup {w}

Push(p, f) ==
  /\ OnTop(p, f, "push")
  /\ global_queue' = Append(global_queue, arg[f])
  /\ IF num_working = 0 THEN NotifyOne ELSE UNCHANGED <<asleep, woken>>
  /\ arg' = [arg EXCEPT ![f] = None]
  /\ Goto(f, "body")
  /\ UNCHANGED <<stack, group>>

(* cancel(), called from a task of the group. *)
Cancel(p, t) ==
  /\ OnTop(p, t, "body") /\ t \in Cancellers /\ ~canceling[Into[t]]
  /\ canceling' = [canceling EXCEPT ![Into[t]] = TRUE]
  /\ UNCHANGED <<pool, stack, pc, arg, num_outstanding, latch_mtx, alive,
                 destroying, late>>

---------------------------------------------------------------------------
(* wait() of the group that frame f owns. *)

(* A frame may wait and go on to use its group again; the destructor, called
   when the frame has no more to run, waits too. *)
WaitCall(p, f) ==
  /\ OnTop(p, f, "body") /\ alive[f] /\ Owned(f) # {}
  /\ \/ /\ \E t \in Owned(f) : Asked(t)
        /\ ~AllAsked(f) /\ UNCHANGED destroying
     \/ AllAsked(f) /\ destroying' = destroying \cup {f}
  /\ Goto(f, "wait")
  /\ UNCHANGED <<pool, stack, arg, num_outstanding, latch_mtx, canceling,
                 alive, late>>

(* A frame with nothing to fork owns no group. *)
NoGroup(p, f) ==
  /\ OnTop(p, f, "body") /\ Owned(f) = {} /\ AllAsked(f)
  /\ Goto(f, "exit")
  /\ UNCHANGED <<pool, stack, arg, group>>

(* latch.release() of the reference taken by the constructor. The owner is
   the only thread that waits on this latch, so nobody is to be notified. *)
WaitRelease(p, f) ==
  /\ OnTop(p, f, "wait") /\ latch_mtx[f] = None
  /\ num_outstanding' = [num_outstanding EXCEPT ![f] = @ - 1]
  /\ Goto(f, "test")
  /\ UNCHANGED <<pool, stack, arg, latch_mtx, canceling, alive, destroying, late>>

(* while (latch.outstanding()), read without the mutex of the latch *)
Test(p, f) ==
  /\ OnTop(p, f, "test")
  /\ Goto(f, IF num_outstanding[f] # 0 THEN "steal" ELSE "reset")
  /\ UNCHANGED <<pool, stack, arg, group>>

(* Under the mutex of the pool: nothing is queued, so wait on the latch... *)
StealNothing(p, f) ==
  /\ OnTop(p, f, "steal") /\ global_queue = <<>>
  /\ Goto(f, "latchwait")
  /\ UNCHANGED <<pool, stack, arg, group>>

(* ... or the first task is executed here, before the loop goes on. *)
Steal(p, f) ==
  /\ OnTop(p, f, "steal") /\ global_queue # <<>>
  /\ Start(p, Head(global_queue))
  /\ pc' = [pc EXCEPT ![f] = "test", ![Head(global_queue)] = "lambda"]
  /\ UNCHANGED <<asleep, woken, arg, group>>

(* latch.wait(): while (num_outstanding > 0) zero_references.wait(Lock) *)
LatchWait(p, f) ==
  /\ OnTop(p, f, "latchwait") /\ latch_mtx[f] = None
  /\ Goto(f, IF num_outstanding[f] > 0 THEN "latchsleep" ELSE "test")
  /\ UNCHANGED <<pool, stack, arg, group>>

LatchSpuriousWakeup(p, f) ==
  /\ OnTop(p, f, "latchsleep")
  /\ Goto(f, "latchwait")
  /\ UNCHANGED <<pool, stack, arg, group>>

(* Bug: the count is written without the mutex of the latch. *)
BugReset(p, f) ==
  /\ OnTop(p, f, "reset")
  /\ num_outstanding' = [num_outstanding EXCEPT ![f] = 1]
  /\ Goto(f, "uncancel")
  /\ UNCHANGED <<pool, stack, arg, latch_mtx, canceling, alive, destroying, late>>

(* latch.reset(1): the mutex is taken twice, for the count plus one and for
   the release() that brings it down to one; nobody else uses the latch now. *)
Reset(p, f) ==
  /\ OnTop(p, f, "reset") /\ latch_mtx[f] = None
  /\ num_outstanding' = [num_outstanding EXCEPT ![f] = 1]
  /\ Goto(f, "uncancel")
  /\ UNCHANGED <<pool, stack, arg, latch_mtx, canceling, alive, destroying, late>>

(* Bug: the flag is left as it is. *)
BugUncancel(p, f) ==
  /\ OnTop(p, f, "uncancel")
  /\ IF f \in destroying
     THEN alive' = [alive EXCEPT ![f] = FALSE] /\ Goto(f, "exit")
     ELSE UNCHANGED alive /\ Goto(f, "waited")
  /\ UNCHANGED <<pool, stack, arg, num_outstanding, latch_mtx, canceling,
                 destroying, late>>

(* canceling.store(false), the end of wait(); after the destructor's wait
   the group is gone. *)
Uncancel(p, f) ==
  /\ OnTop(p, f, "uncancel")
  /\ canceling' = [canceling EXCEPT ![f] = FALSE]
  /\ IF f \in destroying
     THEN alive' = [alive EXCEPT ![f] = FALSE] /\ Goto(f, "exit")
     ELSE UNCHANGED alive /\ Goto(f, "waited")
  /\ UNCHANGED <<pool, stack, arg, num_outstanding, latch_mtx, destroying, late>>

(* The frame goes on to use its group again. *)
WaitReturn(p, f) ==
  /\ OnTop(p, f, "waited")
  /\ Goto(f, "body")
  /\ UNCHANGED <<pool, stack, arg, group>>

---------------------------------------------------------------------------
(* The lambda: if (!canceling) task(); latch.release(). *)

(* The body of a task that forks makes its group. *)
Lambda(p, t) ==
  /\ OnTop(p, t, "lambda")
  /\ IF canceling[Into[t]]
     THEN Goto(t, "release") /\ UNCHANGED alive
     ELSE /\ Goto(t, "body")
          /\ IF Owned(t) = {} THEN UNCHANGED alive
             ELSE alive' = [alive EXCEPT ![t] = TRUE]
  /\ UNCHANGED <<pool, stack, arg, num_outstanding, latch_mtx, canceling,
                 destroying, late>>

TaskReturns(p, t) ==
  /\ OnTop(p, t, "exit") /\ t \in Tasks
  /\ Goto(t, "release")
  /\ UNCHANGED <<pool, stack, arg, group>>

(* Bug: notify_all() only when the count was one before a reference, i.e.
   the comparison is made before the decrement. *)
BugRelease(p, t) ==
  LET g == Into[t] IN
  /\ OnTop(p, t, "release") /\ latch_mtx[g] = None
  /\ latch_mtx' = [latch_mtx EXCEPT ![g] = t]
  /\ num_outstanding' = [num_outstanding EXCEPT ![g] = @ - 1]
  /\ pc' = [pc EXCEPT ![t] = "unlock",
                      ![g] = IF num_outstanding[g] <= 0 /\ @ = "latchsleep"
                             THEN "latchwait" ELSE @]
  /\ UNCHANGED <<pool, stack, arg, canceling, alive, destroying, late>>

(* latch.release() under the mutex of the latch: --num_outstanding <= 0 wakes
   the thread that waits. *)
Release(p, t) ==
  LET g == Into[t] IN
  /\ OnTop(p, t, "release") /\ latch_mtx[g] = None
  /\ latch_mtx' = [latch_mtx EXCEPT ![g] = t]
  /\ num_outstanding' = [num_outstanding EXCEPT ![g] = @ - 1]
  /\ pc' = [pc EXCEPT ![t] = "unlock",
                      ![g] = IF num_outstanding[g] <= 1 /\ @ = "latchsleep"
                             THEN "latchwait" ELSE @]
  /\ UNCHANGED <<pool, stack, arg, canceling, alive, destroying, late>>

(* ~lock_guard() of release(): the last access of the task to its group. *)
Unlock(p, t) ==
  /\ OnTop(p, t, "unlock")
  /\ latch_mtx' = [latch_mtx EXCEPT ![Into[t]] = None]
  /\ stack' = [stack EXCEPT ![p] = SubSeq(@, 1, Len(@) - 1)]
  /\ Goto(t, "done")
  /\ UNCHANGED <<pool, arg, num_outstanding, canceling, alive, destroying, late>>

---------------------------------------------------------------------------
Finished == \A c \in Clients : pc[c] = "exit"

(* Nothing is left to do: the clients are through with their groups. *)
Halted == Finished /\ asleep = Workers /\ UNCHANGED vars

WorkerStep(w) == Take(w) \/ Sleep(w) \/ Rewake(w)

FrameStep(p, f) ==
  \/ Push(p, f) \/ WaitCall(p, f) \/ NoGroup(p, f) \/ WaitRelease(p, f)
  \/ Test(p, f) \/ StealNothing(p, f) \/ Steal(p, f) \/ LatchWait(p, f)
  \/ Reset(p, f) \/ Uncancel(p, f) \/ WaitReturn(p, f)
  \/ \E t \in Tasks : Run(p, f, t)

TaskStep(p, t) ==
  Lambda(p, t) \/ TaskReturns(p, t) \/ Release(p, t) \/ Unlock(p, t)

(* A thread executes the frame on top of its stack; it may be woken for
   nothing or cancel its group, but need not. *)
ThreadStep(p) ==
  /\ stack[p] # <<>>
  /\ LET f == Top(p) IN FrameStep(p, f) \/ (f \in Tasks /\ TaskStep(p, f))

ThreadMay(p) ==
  /\ stack[p] # <<>>
  /\ LET f == Top(p) IN LatchSpuriousWakeup(p, f) \/ Cancel(p, f)

Next ==
  \/ \E w \in Workers : WorkerStep(w) \/ SpuriousWakeup(w)
  \/ \E p \in Threads : ThreadStep(p) \/ ThreadMay(p)
  \/ Halted

Spec == Init /\ [][Next]_vars

(* Every thread that can go on does, and the code of a frame does not call
   wait() for ever instead of running its tasks; nobody is obliged to cancel. *)
Fairness ==
  /\ \A w \in Workers : WF_vars(WorkerStep(w))
  /\ SF_vars(\E p \in Threads, t \in Tasks : Run(p, RunBy[t], t))
  /\ \A p \in Threads : WF_vars(ThreadStep(p))

FairSpec == Spec /\ Fairness

---------------------------------------------------------------------------
TypeOK ==
  /\ global_queue \in Seq(Tasks)
  /\ asleep \in SUBSET Workers /\ woken \in SUBSET Workers
  /\ stack \in [Threads -> Seq(Frames)]
  /\ pc \in [Frames -> Labels]
  /\ arg \in [Frames -> Tasks \cup {None}]
  /\ num_outstanding \in [Frames -> Nat]
  /\ latch_mtx \in [Frames -> Tasks \cup {None}]
  /\ canceling \in [Frames -> BOOLEAN] /\ alive \in [Frames -> BOOLEAN]
  /\ destroying \in SUBSET Frames /\ late \in BOOLEAN

(* Tasks between their start and their last access to the group. *)
InFlight(t) == pc[t] \notin {"new", "dropped", "done"}

(* wait() "blocks until all tasks associated with this task group are
   finished" (threadpool.h:234): when its loop has ended, no task of the
   group is queued or executed anywhere, also one that a task of the group
   ran in the group, although the loop reads the count without the mutex. *)
WaitComplete ==
  \A f \in Frames : pc[f] = "uncancel" => \A t \in Owned(f) : ~InFlight(t)

(* A group outlives its tasks: a queued or executing task, down to the unlock
   in its last release(), never refers to a destroyed group, and reference()
   never comes "too late to keep any waiting threads blocked"
   (countdown_latch.h:141), even for tasks run while the owner waits. *)
GroupOutlivesTasks ==
  ~late /\ \A t \in Tasks : InFlight(t) => alive[Into[t]]

(* The canceling state "is reset at the end of a wait" (threadpool.h:243), and
   no straggler of the batch that was waited for can set it again: the next
   batch is not affected by an earlier cancel(). *)
CancelEnds == \A f \in Frames : pc[f] = "waited" => ~canceling[f]

(* A thread blocked in latch.wait() on tasks that are not finished *)
Blocked(p) == /\ stack[p] # <<>> /\ pc[Top(p)] \in {"latchwait", "latchsleep"}
              /\ num_outstanding[Top(p)] > 0

(* Tasks are queued and no thread will take them: some workers block in wait(),
   where they still count as working ("should this do a num_working++
   somewhere?", threadpool.h:277), so dispatch() has woken none of the others,
   and a client that might have taken them has left. *)
Starved ==
  /\ global_queue # <<>> /\ num_working > 0
  /\ \A w \in Workers : w \in asleep \/ Blocked(w)
  /\ \A c \in Clients : pc[c] = "exit" \/ Blocked(c)
  /\ \E c \in Clients : pc[c] = "exit"
  /\ \E c \in Clients : Blocked(c)

(* A fork and join hangs for no other reason: every client gets through its
   groups, with fewer threads than waiting frames, unless one client leaves the
   pool starving while another waits. *)
ReturnsUnlessStarved == <>Finished \/ <>[]Starved

(* wait() "blocks until all tasks associated with this task group are
   finished. While waiting, this work steals" (threadpool.h:234): the threads
   that wait do not block for ever on tasks that are in the queue, beside a
   worker that sleeps. *)
WaitingSteals == ~(Starved /\ asleep # {})
=============================================================================
