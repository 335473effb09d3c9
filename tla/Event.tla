--------------------------------- MODULE Event ---------------------------------
(***************************************************************************)
(* ouro::event (include/oConcurrency/event.h): a mask of flags, a mutex    *)
(* and a condition variable. set() tests the mask without the mutex and    *)
(* does nothing when its flags are set; with autoreset it only notifies.   *)
(* (Names that other components have too are prefixed, so that one module  *)
(* of proofs can extend this one and Future.)                              *)
(***************************************************************************)
EXTENDS Naturals, FiniteSets

CONSTANTS
  EventSetters, Resetters, \* the threads that call set() and reset()
  Waiters,            \* the threads that call one of the wait functions
  Bits,               \* the flags of the mask
  Timeout,            \* the relative time passed to wait_for()
  MaxTime,            \* bound: the clock stops there
  NoThread

EventThreads == EventSetters \cup Resetters \cup Waiters

ASSUME EventAssumption ==
  /\ EventSetters \cap Waiters = {} /\ Resetters \cap (EventSetters \cup Waiters) = {}
  /\ NoThread \notin EventThreads
  /\ Timeout \in Nat /\ MaxTime \in Nat

VARIABLES
  set_mask, do_auto_reset,
  event_mtx, \* the thread that holds the mutex, or NoThread
  event_pc,
  mask,   \* mask[p]: the mask p passed
  any,    \* any[w]: w is in wait_any(), otherwise in wait()
  timed,  \* timed[w]: w is in the wait_for() of its kind
  wakeup, \* wakeup[w]: when the cv.wait_for() w sleeps in times out
  called, \* called[w]: when a timed w called (history)
  now,    \* the clock
  owed    \* waiters that slept when a set() that releases them began, until one
          \* of their flags is reset (history)

event_vars ==
  <<set_mask, do_auto_reset, event_mtx, event_pc, mask, any, timed, wakeup, called, now, owed>>
args == <<do_auto_reset, mask, any, timed, called>>

Masks == (SUBSET Bits) \ {{}}
EventGoto(p, label) == event_pc' = [event_pc EXCEPT ![p] = label]

is_set(m) == m \subseteq set_mask
is_any_set(m) == m \cap set_mask # {}
Satisfied(w) == IF any[w] THEN is_any_set(mask[w]) ELSE is_set(mask[w])
Asleep == {w \in Waiters : event_pc[w] = "asleep"}

(* Definitions named Bug... are seeded bugs: the definition that follows them
   with one plausible mistake. No specification uses them. *)

EventInit ==
  /\ set_mask = {} /\ do_auto_reset \in BOOLEAN /\ event_mtx = NoThread
  /\ event_pc = [p \in EventThreads |-> "idle"]
  /\ mask = [p \in EventThreads |-> {}]
  /\ any = [w \in Waiters |-> FALSE] /\ timed = [w \in Waiters |-> FALSE]
  /\ wakeup = [w \in Waiters |-> 0] /\ called = [w \in Waiters |-> 0]
  /\ now = 0 /\ owed = {}

---------------------------------------------------------------------------
(* set() *)

(* if (!is_set(mask)), without the mutex *)
SetCall(s, m) ==
  /\ event_pc[s] = "idle"
  /\ mask' = [mask EXCEPT ![s] = m]
  /\ owed' = owed \cup {w \in Asleep : mask[w] \subseteq m}
  /\ EventGoto(s, IF is_set(m) THEN "set_done"
                  ELSE IF do_auto_reset THEN "notify_one" ELSE "or")
  /\ UNCHANGED <<set_mask, do_auto_reset, event_mtx, any, timed, wakeup, called, now>>

(* Bug: set_mask is written without the mutex. *)
BugOr(s) ==
  /\ event_pc[s] = "or"
  /\ set_mask' = set_mask \cup mask[s]
  /\ EventGoto(s, "notify_all")
  /\ UNCHANGED <<event_mtx, args, wakeup, now, owed>>

(* set_mask |= mask, under the mutex *)
Or(s) ==
  /\ event_pc[s] = "or" /\ event_mtx = NoThread
  /\ set_mask' = set_mask \cup mask[s]
  /\ EventGoto(s, "notify_all")
  /\ UNCHANGED <<event_mtx, args, wakeup, now, owed>>

SetNotifyAll(s) ==
  /\ event_pc[s] = "notify_all"
  /\ event_pc' = [p \in EventThreads |->
                    IF p = s THEN "set_done"
                    ELSE IF p \in Asleep THEN "relock" ELSE event_pc[p]]
  /\ UNCHANGED <<set_mask, event_mtx, args, wakeup, now, owed>>

(* autoreset: no flag is set, one waiter is woken *)
SetNotifyOne(s) ==
  /\ event_pc[s] = "notify_one"
  /\ IF Asleep = {} THEN EventGoto(s, "set_done")
     ELSE \E w \in Asleep : event_pc' = [event_pc EXCEPT ![s] = "set_done", ![w] = "relock"]
  /\ UNCHANGED <<set_mask, event_mtx, args, wakeup, now, owed>>

SetReturn(s) ==
  /\ event_pc[s] = "set_done"
  /\ mask' = [mask EXCEPT ![s] = {}]
  /\ EventGoto(s, "idle")
  /\ UNCHANGED <<set_mask, do_auto_reset, event_mtx, any, timed, called, wakeup, now, owed>>

(* reset(): set_mask &= ~mask, under the mutex *)
Reset(r, m) ==
  /\ event_mtx = NoThread /\ m \cap set_mask # {}
  /\ set_mask' = set_mask \ m
  /\ owed' = {w \in owed : mask[w] \cap m = {}}
  /\ UNCHANGED <<event_mtx, event_pc, args, wakeup, now>>

---------------------------------------------------------------------------
(* wait(), wait_any(), wait_for(), wait_for_any() *)

WaitCall(w, m, a, t) ==
  /\ event_pc[w] = "idle" /\ event_mtx = NoThread /\ (t => MaxTime > 0)
  /\ event_mtx' = w
  /\ mask' = [mask EXCEPT ![w] = m]
  /\ any' = [any EXCEPT ![w] = a]
  /\ timed' = [timed EXCEPT ![w] = t]
  /\ called' = [called EXCEPT ![w] = IF t THEN now ELSE 0]
  /\ EventGoto(w, "test")
  /\ UNCHANGED <<set_mask, do_auto_reset, wakeup, now, owed>>

(* A wait returns, and its arguments and locals are gone. *)
WaitReturn(w) ==
  /\ mask' = [mask EXCEPT ![w] = {}]
  /\ any' = [any EXCEPT ![w] = FALSE]
  /\ timed' = [timed EXCEPT ![w] = FALSE]
  /\ called' = [called EXCEPT ![w] = 0]
  /\ wakeup' = [wakeup EXCEPT ![w] = 0]
  /\ owed' = owed \ {w}
  /\ EventGoto(w, "idle")
  /\ UNCHANGED <<do_auto_reset, now>>

(* while (!is_set(mask)) cv.wait(lock): the condition is read here... *)
TestSatisfied(w) ==
  /\ event_pc[w] = "test" /\ Satisfied(w)
  /\ event_mtx' = NoThread
  /\ WaitReturn(w)
  /\ UNCHANGED set_mask

TestUnsatisfied(w) ==
  /\ event_pc[w] = "test" /\ ~Satisfied(w)
  /\ EventGoto(w, "sleep")
  /\ UNCHANGED <<set_mask, event_mtx, args, wakeup, now, owed>>

(* Bug: the relative time is passed as a time of the clock. *)
BugSleep(w) ==
  /\ event_pc[w] = "sleep"
  /\ event_mtx' = NoThread
  /\ wakeup' = [wakeup EXCEPT ![w] = IF timed[w] THEN Timeout ELSE 0]
  /\ EventGoto(w, "asleep")
  /\ UNCHANGED <<set_mask, args, now, owed>>

(* ... and the mutex is given up only now. A cv.wait_for() starts its time
   again each time it is called. *)
WaitSleep(w) ==
  /\ event_pc[w] = "sleep"
  /\ event_mtx' = NoThread
  /\ wakeup' = [wakeup EXCEPT ![w] = IF timed[w] THEN now + Timeout ELSE 0]
  /\ EventGoto(w, "asleep")
  /\ UNCHANGED <<set_mask, args, now, owed>>

WaitSpuriousWakeup(w) ==
  /\ event_pc[w] = "asleep"
  /\ EventGoto(w, "relock")
  /\ UNCHANGED <<set_mask, event_mtx, args, wakeup, now, owed>>

Relock(w) ==
  /\ event_pc[w] = "relock" /\ event_mtx = NoThread
  /\ event_mtx' = w
  /\ EventGoto(w, "test")
  /\ UNCHANGED <<set_mask, args, wakeup, now, owed>>

(* cv.wait_for() times out and the wait returns, after the mutex was taken
   and given back. *)
TimeOut(w) ==
  /\ event_pc[w] = "asleep" /\ timed[w] /\ now >= wakeup[w] /\ event_mtx = NoThread
  /\ WaitReturn(w)
  /\ UNCHANGED <<set_mask, event_mtx>>

(* The clock; a sleeper whose time has come is served first. *)
Tick ==
  /\ now < MaxTime
  /\ \A w \in Waiters : timed[w] /\ event_pc[w] # "idle" =>
                          event_pc[w] = "asleep" /\ now < wakeup[w]
  /\ now' = now + 1
  /\ UNCHANGED <<set_mask, event_mtx, event_pc, args, wakeup, owed>>

---------------------------------------------------------------------------
SetterStep(s) == Or(s) \/ SetNotifyAll(s) \/ SetNotifyOne(s) \/ SetReturn(s)
WaiterStep(w) == TestSatisfied(w) \/ TestUnsatisfied(w) \/ WaitSleep(w) \/ Relock(w)

EventNext ==
  \/ \E s \in EventSetters : SetterStep(s) \/ \E m \in Masks : SetCall(s, m)
  \/ \E r \in Resetters, m \in Masks : Reset(r, m)
  \/ \E w \in Waiters :
       \/ WaiterStep(w) \/ WaitSpuriousWakeup(w) \/ TimeOut(w)
       \/ \E m \in Masks, a \in BOOLEAN, t \in BOOLEAN : WaitCall(w, m, a, t)
  \/ Tick

EventSpec == EventInit /\ [][EventNext]_event_vars

(* A thread inside a function goes on, and gets a mutex that is released
   again and again; nobody has to call, and no time has to pass. *)
EventFairness ==
  /\ \A s \in EventSetters : SF_event_vars(SetterStep(s))
  /\ \A w \in Waiters : SF_event_vars(Relock(w)) /\ WF_event_vars(WaiterStep(w))

FairEventSpec == EventSpec /\ EventFairness

---------------------------------------------------------------------------
EventTypeOK ==
  /\ set_mask \in SUBSET Bits /\ do_auto_reset \in BOOLEAN
  /\ event_mtx \in Waiters \cup {NoThread}
  /\ event_pc \in [EventThreads -> {"idle", "or", "notify_all", "notify_one", "set_done",
                               "test", "sleep", "asleep", "relock"}]
  /\ mask \in [EventThreads -> SUBSET Bits]
  /\ any \in [Waiters -> BOOLEAN] /\ timed \in [Waiters -> BOOLEAN]
  /\ wakeup \in [Waiters -> 0..MaxTime + Timeout] /\ called \in [Waiters -> 0..MaxTime]
  /\ now \in 0..MaxTime /\ owed \in SUBSET Waiters
  /\ \A w \in Waiters : event_pc[w] \in {"test", "sleep"} <=> event_mtx = w

(* set() unblocks "any threads waiting on this event" (event.h:32), although
   it tests the mask without the mutex and may do nothing: a waiter never
   sleeps on flags that are set, unless a setter is about to notify it. *)
NoLostWakeup ==
  ~do_auto_reset =>
    \A w \in Asleep : Satisfied(w) => \E s \in EventSetters : event_pc[s] = "notify_all"

(* A thread that sleeps when set() is called with all its flags returns from
   its wait, whoever's notification wakes it, unless a flag is reset first. *)
SetReleases == \A w \in Waiters : w \in owed /\ ~do_auto_reset ~> w \notin owed

(* A wait that gives up slept for the whole time it was called with, however
   often it was woken and went back to sleep. *)
NeverEarly ==
  [][\A w \in Waiters : event_pc[w] = "asleep" /\ event_pc'[w] = "idle" =>
       now >= called[w] + Timeout]_event_vars
=============================================================================
