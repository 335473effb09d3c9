--------------------------------- MODULE Future ---------------------------------
(***************************************************************************)
(* One commitment of include/oConcurrency/future.h, the state a promise    *)
(* and its future share. It is made by promise<T> or promise<void>, whose  *)
(* setters are threads of the program, or by async(), which runs the       *)
(* function as the only task of a task_group of its own.                   *)
(*                                                                         *)
(* The flags of state_t are bit-fields of one byte: writing one of them    *)
(* loads and stores the byte. TaskGroup.tla has the steps of the task      *)
(* group; here the job is a process of its own, whichever thread runs it.  *)
(***************************************************************************)
EXTENDS Naturals, FiniteSets

CONSTANTS
  Client,  \* the thread that has the future
  Job,     \* the activation of the task
  Setters, \* the threads that share a promise
  Kinds,   \* how the commitment may have been made
  None

Threads == {Client, Job} \cup Setters

ASSUME FutureAssumption ==
  /\ Client # Job /\ Setters \cap {Client, Job} = {} /\ None \notin Threads
  /\ Setters # {}
  /\ Kinds \subseteq {"promise", "promise_void", "async", "async_void"}

VARIABLES
  kind,
  state,       \* the flags of the commitment
  stored, ex,  \* who stored the value and the exception, or None
  mtx,
  refs,        \* the threads that own the commitment
  outstanding, \* the latch of the task group
  group,       \* "none", "live" or "freed"
  pc,
  byte,        \* byte[p]: the flags p has loaded and not yet stored
  got,         \* what get() returned or threw: who set it
  joined,      \* the client waited for the task group (history)
  broken,      \* a destructor has thrown broken_promise
  left         \* owners that went without having made the promise ready (history)

vars == <<kind, state, stored, ex, mtx, refs, outstanding, group, pc, byte,
          got, joined, broken, left>>
commitment == <<state, stored, ex, mtx>>
task == <<outstanding, group>>
history == <<got, joined, broken, left>>

Goto(p, label) == pc' = [pc EXCEPT ![p] = label]

is_ready == "ready" \in state
has_task == group # "none"
IsVoid == kind \in {"promise_void", "async_void"}
ByTask == kind \in {"async", "async_void"}

(* Definitions named Bug... are seeded bugs: the definition that follows them
   with one plausible mistake. No specification uses them. *)

Init ==
  /\ kind \in Kinds
  /\ state = {} /\ stored = None /\ ex = None /\ mtx = None
  /\ refs = IF ByTask THEN {Client} ELSE {Client} \cup Setters
  /\ outstanding = 0 /\ group = "none"
  /\ pc = [p \in Threads |-> IF p = Client THEN IF ByTask THEN "async" ELSE "get_future"
                             ELSE IF p = Job \/ ByTask THEN "done" ELSE "call"]
  /\ byte = [p \in Threads |-> {}]
  /\ got = None /\ joined = FALSE /\ broken = FALSE /\ left = {}

(* p's shared_ptr goes: the last owner destroys the commitment, and with it
   the task group, without running its destructor. *)
Drop(p) ==
  /\ refs' = refs \ {p}
  /\ group' = IF refs = {p} /\ has_task THEN "freed" ELSE group
  /\ broken' = \/ broken
               \/ refs = {p} /\ ~is_ready            \* ~commitment_base()
               \/ /\ p # Client /\ refs \subseteq {Client, p}  \* ~promise()
                  /\ ~is_ready /\ "future" \in state

---------------------------------------------------------------------------
(* The client: async() or get_future(), then is_ready() or get() *)

(* commit_to_task(): the job owns the promise from now on *)
Async ==
  /\ pc[Client] = "async"
  /\ group' = "live" /\ outstanding' = 2
  /\ refs' = refs \cup {Job}
  /\ pc' = [pc EXCEPT ![Client] = "get_future", ![Job] = "call"]
  /\ UNCHANGED <<kind, commitment, byte, history>>

(* set_future_attached(), under the mutex *)
LoadFuture ==
  /\ pc[Client] = "get_future" /\ mtx = None
  /\ mtx' = Client
  /\ byte' = [byte EXCEPT ![Client] = state]
  /\ Goto(Client, "attach")
  /\ UNCHANGED <<kind, state, stored, ex, refs, task, history>>

StoreFuture ==
  /\ pc[Client] = "attach"
  /\ state' = byte[Client] \cup {"future"}
  /\ byte' = [byte EXCEPT ![Client] = {}]
  /\ mtx' = None
  /\ Goto(Client, "holds")
  /\ UNCHANGED <<kind, stored, ex, refs, task, history>>

(* wait(): the first test takes no mutex. *)
GetReady ==
  /\ pc[Client] = "holds" /\ is_ready
  /\ Goto(Client, "take")
  /\ UNCHANGED <<kind, commitment, refs, task, byte, history>>

GetNotReady ==
  /\ pc[Client] = "holds" /\ ~is_ready
  /\ Goto(Client, IF has_task THEN "join" ELSE "lock")
  /\ UNCHANGED <<kind, commitment, refs, task, byte, history>>

(* task->wait(): its latch loses the reference of the constructor... *)
GroupWait ==
  /\ pc[Client] = "join"
  /\ outstanding' = outstanding - 1
  /\ Goto(Client, "joining")
  /\ UNCHANGED <<kind, commitment, refs, group, byte, history>>

(* Bug: the wait for the task ends when the value is there. *)
BugGroupWaitReturn ==
  /\ pc[Client] = "joining" /\ (outstanding = 0 \/ is_ready)
  /\ outstanding' = 1 /\ joined' = TRUE
  /\ Goto(Client, "take")
  /\ UNCHANGED <<kind, commitment, refs, group, byte, got, broken, left>>

(* ... and gets it back when the task is gone. *)
GroupWaitReturn ==
  /\ pc[Client] = "joining" /\ outstanding = 0
  /\ outstanding' = 1 /\ joined' = TRUE
  /\ Goto(Client, "take")
  /\ UNCHANGED <<kind, commitment, refs, group, byte, got, broken, left>>

(* CV.wait() *)
Lock ==
  /\ pc[Client] = "lock" /\ mtx = None
  /\ mtx' = Client
  /\ Goto(Client, "test")
  /\ UNCHANGED <<kind, state, stored, ex, refs, task, byte, history>>

TestReady ==
  /\ pc[Client] = "test" /\ is_ready
  /\ mtx' = None
  /\ Goto(Client, "take")
  /\ UNCHANGED <<kind, state, stored, ex, refs, task, byte, history>>

TestNotReady ==
  /\ pc[Client] = "test" /\ ~is_ready
  /\ Goto(Client, "sleep")
  /\ UNCHANGED <<kind, commitment, refs, task, byte, history>>

Sleep ==
  /\ pc[Client] = "sleep"
  /\ mtx' = None
  /\ Goto(Client, "asleep")
  /\ UNCHANGED <<kind, state, stored, ex, refs, task, byte, history>>

SpuriousWakeup ==
  /\ pc[Client] = "asleep"
  /\ Goto(Client, "lock")
  /\ UNCHANGED <<kind, commitment, refs, task, byte, history>>

(* move_value(), void_value() *)
Take ==
  /\ pc[Client] = "take"
  /\ got' = IF "except" \in state THEN ex ELSE stored
  /\ Goto(Client, "taken")
  /\ UNCHANGED <<kind, commitment, refs, task, byte, joined, broken, left>>

(* The future is destroyed, used or not. *)
DropFuture ==
  /\ pc[Client] \in {"holds", "taken"}
  /\ Drop(Client)
  /\ Goto(Client, "done")
  /\ UNCHANGED <<kind, commitment, outstanding, byte, got, joined, left>>

---------------------------------------------------------------------------
(* The promise: a setter, or the job *)

(* f() has returned, or the program calls set_value() *)
SetValue(p) ==
  /\ pc[p] = "call"
  /\ Goto(p, IF IsVoid THEN "set_void" ELSE "set_value")
  /\ UNCHANGED <<kind, commitment, refs, task, byte, history>>

(* f() has thrown, or the program calls set_exception() *)
SetException(p) ==
  /\ pc[p] = "call"
  /\ Goto(p, "set_exception")
  /\ UNCHANGED <<kind, commitment, refs, task, byte, history>>

(* set_exception_at_thread_exit() by the program. Nothing makes the commitment
   ready when the thread exits; the owner may still set it, or leave. *)
SetExceptionAtThreadExit(p) ==
  /\ pc[p] = "call" /\ p # Job /\ mtx = None
  /\ ~is_ready /\ "except_at_thread_exit" \notin state
  /\ ex' = p
  /\ state' = state \cup {"except_at_thread_exit"}
  /\ UNCHANGED <<kind, stored, mtx, refs, task, pc, byte, history>>

(* promise_already_satisfied, after which the owner's promise goes *)
ThrowAtThreadExit(p) ==
  /\ pc[p] = "call" /\ p # Job /\ mtx = None
  /\ is_ready \/ "except_at_thread_exit" \in state
  /\ left' = left \cup {p}
  /\ Goto(p, "drop")
  /\ UNCHANGED <<kind, commitment, refs, task, byte, got, joined, broken>>

(* The owner of a promise lets it go unset, or set for the exit of its thread
   only. *)
Leave(p) ==
  /\ pc[p] = "call" /\ p # Job
  /\ left' = left \cup {p}
  /\ Goto(p, "drop")
  /\ UNCHANGED <<kind, commitment, refs, task, byte, got, joined, broken>>

(* promise_already_satisfied *)
Throw(p) ==
  /\ pc[p] \in {"set_value", "set_exception"} /\ mtx = None /\ is_ready
  /\ Goto(p, "drop")
  /\ UNCHANGED <<kind, commitment, refs, task, byte, history>>

(* Bug: the value is stored whatever was set before. *)
BugStoreValue(p) ==
  /\ pc[p] = "set_value" /\ mtx = None
  /\ mtx' = p /\ stored' = p
  /\ Goto(p, "value_flags")
  /\ UNCHANGED <<kind, state, ex, refs, task, byte, history>>

(* internal_set_value(): the value first, then the flags *)
StoreValue(p) ==
  /\ pc[p] = "set_value" /\ mtx = None /\ ~is_ready
  /\ mtx' = p /\ stored' = p
  /\ Goto(p, "value_flags")
  /\ UNCHANGED <<kind, state, ex, refs, task, byte, history>>

(* no one is notified *)
ValueFlags(p) ==
  /\ pc[p] = "value_flags"
  /\ state' = state \cup {"value", "ready"}
  /\ mtx' = None
  /\ Goto(p, "drop")
  /\ UNCHANGED <<kind, stored, ex, refs, task, byte, history>>

(* Bug: ready is set before ex. *)
BugStoreException(p) ==
  /\ pc[p] = "set_exception" /\ mtx = None /\ ~is_ready
  /\ mtx' = p /\ ex' = p
  /\ state' = state \cup {"ready"}
  /\ Goto(p, "exception_flags")
  /\ UNCHANGED <<kind, stored, refs, task, byte, history>>

StoreException(p) ==
  /\ pc[p] = "set_exception" /\ mtx = None /\ ~is_ready
  /\ mtx' = p /\ ex' = p
  /\ Goto(p, "exception_flags")
  /\ UNCHANGED <<kind, state, stored, refs, task, byte, history>>

(* Bug: the exception does not make the commitment ready. *)
BugExceptionFlags(p) ==
  /\ pc[p] = "exception_flags"
  /\ state' = state \cup {"except", "except_at_thread_exit"}
  /\ mtx' = None
  /\ Goto(p, "drop")
  /\ UNCHANGED <<kind, stored, ex, refs, task, byte, history>>

ExceptionFlags(p) ==
  /\ pc[p] = "exception_flags"
  /\ state' = state \cup {"except", "except_at_thread_exit", "ready"}
  /\ mtx' = None
  /\ Goto(p, "drop")
  /\ UNCHANGED <<kind, stored, ex, refs, task, byte, history>>

(* set_void_value(): "no lock required for this trivial case" *)
LoadVoid(p) ==
  /\ pc[p] = "set_void"
  /\ byte' = [byte EXCEPT ![p] = state]
  /\ Goto(p, "store_void")
  /\ UNCHANGED <<kind, commitment, refs, task, history>>

StoreVoid(p) ==
  /\ pc[p] = "store_void"
  /\ state' = byte[p] \cup {"ready"}
  /\ stored' = p
  /\ byte' = [byte EXCEPT ![p] = {}]
  /\ Goto(p, IF has_task THEN "drop" ELSE "notify")
  /\ UNCHANGED <<kind, ex, mtx, refs, task, history>>

NotifyAll(p) ==
  /\ pc[p] = "notify"
  /\ pc' = [pc EXCEPT ![p] = "drop", ![Client] = IF @ = "asleep" THEN "lock" ELSE @]
  /\ UNCHANGED <<kind, commitment, refs, task, byte, history>>

(* The promise is destroyed with its last owner; the job's is an argument of
   fulfill_promise(), which the lambda of task_group::run() has called. *)
DropPromise(p) ==
  /\ pc[p] = "drop"
  /\ Drop(p)
  /\ Goto(p, IF p = Job THEN "release" ELSE "done")
  /\ UNCHANGED <<kind, commitment, outstanding, byte, got, joined, left>>

(* Bug: the lambda of a task whose promise is gone does not release. *)
BugRelease ==
  /\ pc[Job] = "release"
  /\ outstanding' = IF Client \in refs THEN outstanding ELSE outstanding - 1
  /\ Goto(Job, "done")
  /\ UNCHANGED <<kind, commitment, refs, group, byte, history>>

(* latch.release(), the last access of the lambda to the group; into freed
   memory it has no effect the model looks at. *)
Release ==
  /\ pc[Job] = "release"
  /\ outstanding' = IF group = "live" THEN outstanding - 1 ELSE outstanding
  /\ Goto(Job, "done")
  /\ UNCHANGED <<kind, commitment, refs, group, byte, history>>

---------------------------------------------------------------------------
ClientStep ==
  \/ Async \/ LoadFuture \/ StoreFuture \/ GetReady \/ GetNotReady
  \/ GroupWait \/ GroupWaitReturn
  \/ Lock \/ TestReady \/ TestNotReady \/ Sleep \/ Take
SetStep(p) ==
  \/ SetValue(p) \/ SetException(p) \/ Leave(p)
  \/ ThrowAtThreadExit(p) \/ Throw(p) \/ StoreValue(p) \/ ValueFlags(p)
  \/ StoreException(p) \/ ExceptionFlags(p)
  \/ LoadVoid(p) \/ StoreVoid(p) \/ NotifyAll(p) \/ DropPromise(p)

Next ==
  \/ ClientStep \/ SpuriousWakeup \/ DropFuture
  \/ \E p \in Setters \cup {Job} : SetStep(p) \/ SetExceptionAtThreadExit(p)
  \/ Release

Spec == Init /\ [][Next]_vars

(* Every thread goes on while it can; the job is executed by a worker or by
   the waiting client, unless the pool starves (ReturnsUnlessStarved of
   TaskGroup.tla). *)
Fairness ==
  /\ WF_vars(ClientStep) /\ WF_vars(Release)
  /\ \A p \in Setters \cup {Job} : WF_vars(SetStep(p))

FairSpec == Spec /\ Fairness

---------------------------------------------------------------------------
Flags == {"value", "except", "except_at_thread_exit", "future", "ready"}
ClientLabels == {"async", "get_future", "attach", "holds", "join", "joining", "lock",
                 "test", "sleep", "asleep", "take", "taken", "done"}
SetterLabels == {"call", "set_value", "set_exception", "set_void", "value_flags",
                 "exception_flags", "store_void", "notify", "drop", "release", "done"}

TypeOK ==
  /\ kind \in Kinds /\ state \in SUBSET Flags
  /\ {stored, ex, mtx, got} \subseteq Threads \cup {None}
  /\ refs \in SUBSET Threads
  /\ outstanding \in 0..2 /\ group \in {"none", "live", "freed"}
  /\ byte \in [Threads -> SUBSET Flags]
  /\ joined \in BOOLEAN /\ broken \in BOOLEAN /\ left \in SUBSET Setters
  /\ pc \in [Threads -> ClientLabels \cup SetterLabels]
  /\ pc[Client] \in ClientLabels
  /\ \A p \in Setters \cup {Job} : pc[p] \in SetterLabels

(* get() returns a value or throws an exception that was completely stored,
   although wait() may see the ready flag without the mutex. *)
GetSeesResult == pc[Client] = "taken" => got # None

(* The first value or exception wins: once the commitment is ready a second
   set_value() or set_exception() of another owner of the promise changes
   nothing, nor does the future being attached at the same time. *)
FirstSetWins ==
  [][is_ready /\ ~IsVoid => stored' = stored /\ is_ready'
                            /\ (ex' # ex => "except" \notin state)]_vars

(* A destructor finds a promise broken only when every owner left without
   having made it ready: one owner's set_value() or set_exception() is enough,
   whichever owner goes last, and the promise of an async() is never broken. *)
BrokenWhenAllLeft == ~IsVoid /\ broken => ~ByTask /\ left = Setters

(* A client that did wait for the task group frees it only after the job made
   its last access to it. *)
JoinOutlivesJob == joined /\ group = "freed" => pc[Job] = "done"

(* get() on the future of an async() returns. *)
GetReturns == pc[Client] = "join" ~> pc[Client] = "taken"

(* A task group is destroyed (concurrency.h:41 "create/destroy a task group",
   concurrency_ouro.cpp:49 "~task_group_ouro() { wait(); }") when its tasks no
   longer use it. *)
GroupOutlivesJob == group = "freed" => pc[Job] = "done"
=============================================================================
