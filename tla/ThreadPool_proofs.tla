-------------------------- MODULE ThreadPool_proofs --------------------------
(***************************************************************************)
(* Safety of the thread pool for any number of workers, clients and tasks. *)
(***************************************************************************)
EXTENDS ThreadPool, FiniteSetTheorems, TLAPS

USE DEF Threads, At

(* The number of busy workers moves by one when one worker joins or leaves. *)
LEMMA BusyFinite ==
  ASSUME TypeOK
  PROVE  IsFiniteSet(Busy) /\ Cardinality(Busy) \in Nat
<1>1. Busy \in SUBSET Workers
  BY DEF Busy
<1>2. IsFiniteSet(Busy)
  BY <1>1, FS_Subset, WorkersAssumption
<1>3. QED
  BY <1>2, FS_CardinalityType

(* A pool without busy worker executes nothing. *)
LEMMA NobodyBusy ==
  ASSUME IInv, num_working = 0
  PROVE  \A w \in Workers : pc[w] \in {"asleep", "woken"} /\ task[w] = None
<1>1. Busy = {}
  BY BusyFinite, FS_EmptySet DEF IInv, CountInv
<1>2. QED
  BY <1>1 DEF IInv, Busy, Resting, SyncInv

LEMMA InitInv == Init => IInv
<1> SUFFICES ASSUME Init PROVE IInv
  OBVIOUS
<1> USE DEF Init
<1>1. Resting = {} /\ Busy = Workers
  BY ThreadsAssumption DEF Resting, Busy
<1>2. TypeOK
  BY WorkersAssumption, ThreadsAssumption, NoneAssumption, FS_CardinalityType
     DEF TypeOK, WorkerLabels, ClientLabels
<1>3. SyncInv
  BY ThreadsAssumption, NoneAssumption DEF SyncInv
<1>4. CountInv
  BY <1>1 DEF CountInv
<1>5. PlaceInv /\ FlushInv
  BY ThreadsAssumption DEF PlaceInv, FlushInv, Queued, Executing
<1>6. StartInv
  BY ThreadsAssumption DEF StartInv
<1>7. FlushComplete
  BY ThreadsAssumption DEF FlushComplete
<1>8. QED
  BY <1>2, <1>3, <1>4, <1>5, <1>6, <1>7 DEF IInv

(* The queue after pop_front() and push_back(). *)
LEMMA QueuedPop ==
  ASSUME global_queue \in Seq(Tasks), global_queue # <<>>,
         global_queue' = Tail(global_queue)
  PROVE  /\ Queued \subseteq Queued' \cup {Head(global_queue)}
         /\ Queued' \subseteq Queued
         /\ Head(global_queue) \in Queued
<1>1. ASSUME NEW i \in 1..Len(global_queue), i # 1
      PROVE  global_queue[i] \in Queued'
  <2>1. i - 1 \in 1..Len(global_queue') /\ global_queue[i] = global_queue'[i - 1]
    BY <1>1
  <2>2. QED
    BY <2>1 DEF Queued
<1>2. ASSUME NEW i \in 1..Len(global_queue')
      PROVE  global_queue'[i] \in Queued
  <2>1. i + 1 \in 1..Len(global_queue) /\ global_queue'[i] = global_queue[i + 1]
    BY <1>2
  <2>2. QED
    BY <2>1 DEF Queued
<1>3. 1 \in 1..Len(global_queue) /\ Head(global_queue) = global_queue[1]
  OBVIOUS
<1>4. QED
  BY <1>1, <1>2, <1>3 DEF Queued

(* What is queued and executed depends on these two variables only. *)
LEMMA Unmoved ==
  ASSUME UNCHANGED <<global_queue, task>>
  PROVE  Queued' = Queued /\ Executing' = Executing
  BY DEF Queued, Executing

(* push_back() adds its argument to what is queued. *)
LEMMA QueuedPush ==
  ASSUME global_queue \in Seq(Tasks), NEW t \in Tasks,
         global_queue' = Append(global_queue, t)
  PROVE  Queued' = Queued \cup {t}
<1>1. Len(global_queue') = Len(global_queue) + 1
  OBVIOUS
<1>2. /\ \A i \in 1..Len(global_queue) : global_queue'[i] = global_queue[i]
      /\ global_queue'[Len(global_queue) + 1] = t
  OBVIOUS
<1>3. 1..Len(global_queue') = 1..Len(global_queue) \cup {Len(global_queue) + 1}
  BY <1>1
<1>4. QED
  BY <1>2, <1>3 DEF Queued

(* Every step of a worker's main loop keeps the accounting. *)
LEMMA WorkerInv ==
  ASSUME IInv, NEW w \in Workers, WorkerStep(w)
  PROVE  IInv'
<1> USE DEF IInv
<1>w. w \in Threads /\ w \notin Clients /\ w # Owner
  BY ThreadsAssumption
<1>1. CASE BeginThread(w)
  <2> USE <1>1 DEF BeginThread, Goto, state, history
  <2>1. TypeOK'
    BY <1>w DEF TypeOK, WorkerLabels, ClientLabels
  <2>2. SyncInv'
    BY NoneAssumption DEF SyncInv, TypeOK
  <2>3. CountInv'
    <3>1. Busy' = Busy
      BY DEF Busy, Resting, TypeOK
    <3>2. QED
      BY <3>1 DEF CountInv
  <2>4. PlaceInv' /\ FlushInv' /\ FlushComplete'
    BY <1>w, Unmoved DEF PlaceInv, FlushInv, FlushComplete, TypeOK
  <2>5. StartInv'
    BY <1>w, ThreadsAssumption DEF StartInv, TypeOK
  <2>6. QED
    BY <2>1, <2>2, <2>3, <2>4, <2>5
<1>2. CASE Lock(w)
  <2> USE <1>2 DEF Lock, Goto, history
  <2>1. TypeOK'
    BY <1>w DEF TypeOK, WorkerLabels, ClientLabels
  <2>2. SyncInv'
    BY NoneAssumption DEF SyncInv, TypeOK
  <2>3. CountInv'
    <3>1. Busy' = Busy
      BY DEF Busy, Resting, TypeOK
    <3>2. QED
      BY <3>1 DEF CountInv
  <2>4. PlaceInv' /\ FlushInv' /\ FlushComplete'
    BY <1>w, Unmoved DEF PlaceInv, FlushInv, FlushComplete, TypeOK
  <2>5. StartInv'
    BY <1>w, ThreadsAssumption DEF StartInv, TypeOK
  <2>6. QED
    BY <2>1, <2>2, <2>3, <2>4, <2>5
<1>3. CASE Sleep(w)
  <2> USE <1>3 DEF Sleep, Goto, history
  <2>1. w \in Busy /\ Busy' = Busy \ {w}
    BY DEF Busy, Resting, TypeOK
  <2>2. num_working' = Cardinality(Busy') /\ num_working' \in Nat
    <3>1. IsFiniteSet(Busy) /\ num_working = Cardinality(Busy)
      BY BusyFinite DEF CountInv
    <3>2. /\ Cardinality(Busy \ {w}) = Cardinality(Busy) - 1
          /\ Cardinality(Busy \ {w}) \in Nat
      BY <2>1, <3>1, FS_RemoveElement, FS_CardinalityType
    <3>3. QED
      BY <2>1, <3>1, <3>2
  <2>3. TypeOK'
    BY <1>w, <2>2 DEF TypeOK, WorkerLabels, ClientLabels
  <2>4. SyncInv'
    BY NoneAssumption DEF SyncInv, TypeOK
  <2>5. PlaceInv' /\ FlushInv' /\ FlushComplete'
    BY <1>w, Unmoved DEF PlaceInv, FlushInv, FlushComplete, TypeOK
  <2>6. StartInv'
    BY <1>w, ThreadsAssumption DEF StartInv, TypeOK
  <2>7. QED
    BY <2>2, <2>3, <2>4, <2>5, <2>6 DEF CountInv
<1>4. CASE SpuriousWakeup(w)
  <2> USE <1>4 DEF SpuriousWakeup, Goto, history
  <2>1. TypeOK'
    BY <1>w DEF TypeOK, WorkerLabels, ClientLabels
  <2>2. SyncInv'
    BY NoneAssumption DEF SyncInv, TypeOK
  <2>3. CountInv'
    <3>1. Busy' = Busy
      BY DEF Busy, Resting, TypeOK, SyncInv
    <3>2. QED
      BY <3>1 DEF CountInv
  <2>4. PlaceInv' /\ FlushInv' /\ FlushComplete'
    BY <1>w, Unmoved DEF PlaceInv, FlushInv, FlushComplete, TypeOK
  <2>5. StartInv'
    BY <1>w, ThreadsAssumption DEF StartInv, TypeOK
  <2>6. QED
    BY <2>1, <2>2, <2>3, <2>4, <2>5
<1>5. CASE Rewake(w)
  <2> USE <1>5 DEF Rewake, Goto, history
  <2>1. w \notin Busy /\ Busy' = Busy \cup {w}
    BY DEF Busy, Resting, TypeOK
  <2>2. num_working' = Cardinality(Busy') /\ num_working' \in Nat
    <3>1. IsFiniteSet(Busy) /\ num_working = Cardinality(Busy)
      BY BusyFinite DEF CountInv
    <3>2. /\ Cardinality(Busy \cup {w}) = Cardinality(Busy) + 1
          /\ Cardinality(Busy \cup {w}) \in Nat
      BY <2>1, <3>1, FS_AddElement, FS_CardinalityType
    <3>3. QED
      BY <2>1, <3>1, <3>2
  <2>3. TypeOK'
    BY <1>w, <2>2 DEF TypeOK, WorkerLabels, ClientLabels
  <2>4. SyncInv'
    BY NoneAssumption DEF SyncInv, TypeOK
  <2>5. PlaceInv' /\ FlushInv' /\ FlushComplete'
    BY <1>w, Unmoved DEF PlaceInv, FlushInv, FlushComplete, TypeOK
  <2>6. StartInv'
    BY <1>w, ThreadsAssumption DEF StartInv, TypeOK
  <2>7. QED
    BY <2>2, <2>3, <2>4, <2>5, <2>6 DEF CountInv
<1>6. CASE Pop(w)
  <2> USE <1>6 DEF Pop, Goto, history
  <2>1. TypeOK'
    BY <1>w DEF TypeOK, WorkerLabels, ClientLabels
  <2>2. Head(global_queue) \in Tasks
    BY DEF TypeOK
  <2>3. SyncInv'
    BY <2>2, NoneAssumption DEF SyncInv, TypeOK
  <2>4. CountInv'
    <3>1. Busy' = Busy
      BY DEF Busy, Resting, TypeOK
    <3>2. QED
      BY <3>1 DEF CountInv
  <2>5. /\ Executing \subseteq Executing' \cup {None}
        /\ Executing' \subseteq Executing \cup {Head(global_queue)}
        /\ Head(global_queue) \in Executing'
    BY NoneAssumption DEF Executing, SyncInv, TypeOK
  <2>6. /\ Queued \subseteq Queued' \cup Executing'
        /\ Queued' \subseteq Queued /\ Head(global_queue) \in Queued
    BY <2>5, QueuedPop DEF TypeOK
  <2>7. PlaceInv' /\ FlushInv' /\ FlushComplete'
    BY <1>w, <2>5, <2>6, NoneAssumption DEF PlaceInv, FlushInv, FlushComplete, TypeOK
  <2>8. StartInv'
    BY <1>w, ThreadsAssumption DEF StartInv, TypeOK
  <2>9. QED
    BY <2>1, <2>3, <2>4, <2>7, <2>8
<1>7. CASE Exit(w)
  <2> USE <1>7 DEF Exit, Goto, history
  <2>1. TypeOK'
    BY <1>w DEF TypeOK, WorkerLabels, ClientLabels
  <2>2. SyncInv'
    BY NoneAssumption DEF SyncInv, TypeOK
  <2>3. CountInv'
    <3>1. Busy' = Busy
      BY DEF Busy, Resting, TypeOK
    <3>2. QED
      BY <3>1 DEF CountInv
  <2>4. PlaceInv' /\ FlushInv' /\ FlushComplete'
    BY <1>w, Unmoved DEF PlaceInv, FlushInv, FlushComplete, TypeOK
  <2>5. StartInv'
    BY <1>w, ThreadsAssumption DEF StartInv, TypeOK
  <2>6. QED
    BY <2>1, <2>2, <2>3, <2>4, <2>5
<1>8. CASE FinishTask(w)
  <2> USE <1>8 DEF FinishTask, Goto, state
  <2>1. TypeOK'
    <3>1. task[w] \in pushed
      BY NoneAssumption DEF PlaceInv, Executing, SyncInv
    <3>2. QED
      BY <1>w, <3>1 DEF TypeOK, WorkerLabels, ClientLabels
  <2>2. SyncInv'
    BY NoneAssumption DEF SyncInv, TypeOK
  <2>3. CountInv'
    <3>1. Busy' = Busy
      BY DEF Busy, Resting, TypeOK
    <3>2. QED
      BY <3>1 DEF CountInv
  <2>4. /\ Executing \subseteq Executing' \cup {task[w]}
        /\ Executing' \subseteq Executing \cup {None}
    BY DEF Executing, TypeOK
  <2>5. PlaceInv' /\ FlushInv' /\ FlushComplete'
    BY <1>w, <2>4 DEF PlaceInv, FlushInv, FlushComplete, Queued, TypeOK
  <2>6. StartInv'
    BY <1>w, ThreadsAssumption DEF StartInv, TypeOK
  <2>7. QED
    BY <2>1, <2>2, <2>3, <2>5, <2>6
<1>9. QED
  BY <1>1, <1>2, <1>3, <1>4, <1>5, <1>6, <1>7, <1>8 DEF WorkerStep

(* Workers that keep their labels are as busy as before. *)
LEMMA SameBusy ==
  ASSUME TypeOK, TypeOK', \A w \in Workers : pc'[w] \in {"asleep", "woken"}
                                       <=> pc[w] \in {"asleep", "woken"}
  PROVE  Busy' = Busy
BY DEF Busy, Resting

(* A step that moves one client from one label to another, and changes at
   most what that client flushes, keeps what concerns the workers. *)
LEMMA ClientMove ==
  ASSUME IInv, NEW c \in Clients, NEW label \in ClientLabels \ {"push"},
         Goto(c, label), NEW S \in SUBSET pushed,
         flushed' = [flushed EXCEPT ![c] = S],
         UNCHANGED <<state, task, arg, history, alive>>
  PROVE  TypeOK' /\ SyncInv' /\ CountInv' /\ PlaceInv'
<1> USE DEF IInv, Goto, state, history
<1>c. c \in Threads /\ c \notin Workers
  BY ThreadsAssumption
<1>1. TypeOK'
  BY <1>c DEF TypeOK
<1>2. SyncInv'
  BY <1>c DEF SyncInv, TypeOK
<1>3. CountInv'
  BY <1>c, <1>1, SameBusy DEF CountInv, TypeOK
<1>4. PlaceInv'
  BY Unmoved DEF PlaceInv
<1>5. QED
  BY <1>1, <1>2, <1>3, <1>4

(* Publication and the steps of flush() keep the accounting. *)
LEMMA ClientInv ==
  ASSUME IInv, NEW c \in Clients, ClientStep(c)
  PROVE  IInv'
<1> USE DEF IInv, ClientLabels
<1>t. flushed[c] \in SUBSET pushed /\ flushed \in [Clients -> SUBSET Tasks]
  BY DEF FlushInv, TypeOK
<1>k. flushed = [flushed EXCEPT ![c] = flushed[c]]
  BY <1>t
<1>1. CASE Publish(c)
  <2> USE <1>1 DEF Publish, Goto
  <2>1. TypeOK' /\ SyncInv' /\ CountInv' /\ PlaceInv'
    BY <1>t, <1>k, ClientMove
  <2>2. FlushInv' /\ FlushComplete'
    BY Unmoved DEF FlushInv, FlushComplete, TypeOK, state, history
  <2>3. StartInv'
    BY ThreadsAssumption DEF StartInv, TypeOK, state
  <2>4. QED
    BY <2>1, <2>2, <2>3
<1>2. CASE FlushCall(c)
  <2> USE <1>2 DEF FlushCall, Goto
  <2>1. TypeOK' /\ SyncInv' /\ CountInv' /\ PlaceInv'
    BY ClientMove
  <2>2. FlushInv' /\ FlushComplete'
    BY Unmoved DEF FlushInv, FlushComplete, TypeOK, state, history
  <2>3. StartInv'
    BY ThreadsAssumption DEF StartInv, TypeOK, state
  <2>4. QED
    BY <2>1, <2>2, <2>3
<1>3. CASE FlushRunning(c)
  <2> USE <1>3 DEF FlushRunning, Goto
  <2>1. TypeOK' /\ SyncInv' /\ CountInv' /\ PlaceInv'
    <3>1. CASE running
      BY <1>t, <1>k, <3>1, ClientMove
    <3>2. CASE ~running
      BY <3>2, ClientMove
    <3>3. QED
      BY <3>1, <3>2
  <2>2. FlushInv' /\ FlushComplete'
    BY Unmoved DEF FlushInv, FlushComplete, TypeOK, state, history
  <2>3. StartInv'
    BY ThreadsAssumption DEF StartInv, TypeOK, state
  <2>4. QED
    BY <2>1, <2>2, <2>3
<1>4. CASE FlushEmpty(c)
  <2> USE <1>4 DEF FlushEmpty, Goto
  <2>1. TypeOK' /\ SyncInv' /\ CountInv' /\ PlaceInv'
    BY <1>t, <1>k, ClientMove
  <2>2. FlushInv' /\ FlushComplete'
    <3>1. global_queue = <<>> => Queued = {}
      BY DEF Queued
    <3>2. QED
      BY <3>1, <1>t, Unmoved DEF FlushInv, FlushComplete, TypeOK, state, history, PlaceInv
  <2>3. StartInv'
    BY ThreadsAssumption DEF StartInv, TypeOK, state
  <2>4. QED
    BY <2>1, <2>2, <2>3
<1>5. CASE FlushIdle(c)
  <2> USE <1>5 DEF FlushIdle, Goto
  <2>1. TypeOK' /\ SyncInv' /\ CountInv' /\ PlaceInv'
    BY <1>t, <1>k, ClientMove
  <2>2. num_working = 0 => flushed[c] \subseteq done
    <3>1. num_working = 0 => Executing \subseteq {None}
      BY NobodyBusy DEF Executing
    <3>2. QED
      BY <3>1, <1>t, NoneAssumption DEF FlushInv, TypeOK
  <2>3. FlushInv' /\ FlushComplete'
    BY <2>2, Unmoved DEF FlushInv, FlushComplete, TypeOK, state, history
  <2>4. StartInv'
    BY NobodyBusy, ThreadsAssumption DEF StartInv, TypeOK, state
  <2>5. QED
    BY <2>1, <2>3, <2>4
<1>6. CASE FlushReturn(c)
  <2> USE <1>6 DEF FlushReturn, Goto
  <2>1. TypeOK' /\ SyncInv' /\ CountInv' /\ PlaceInv'
    BY ClientMove
  <2>2. FlushInv' /\ FlushComplete'
    BY Unmoved DEF FlushInv, FlushComplete, TypeOK, state, history
  <2>3. StartInv'
    BY ThreadsAssumption DEF StartInv, TypeOK, state
  <2>4. QED
    BY <2>1, <2>2, <2>3
<1>7. QED
  BY <1>1, <1>2, <1>3, <1>4, <1>5, <1>6 DEF ClientStep

(* Every step of dispatch() keeps the accounting. *)
LEMMA DispatchInv ==
  ASSUME IInv, NEW p \in Threads, DispatchStep(p)
  PROVE  IInv'
<1> USE DEF IInv
<1>1. ASSUME NEW t \in Tasks, DispatchCall(p, t)
      PROVE  IInv'
  <2> USE <1>1 DEF DispatchCall, MayDispatch, Goto, state
  <2>1. TypeOK'
    BY ThreadsAssumption DEF TypeOK, WorkerLabels, ClientLabels
  <2>2. SyncInv'
    BY ThreadsAssumption DEF SyncInv, TypeOK
  <2>3. CountInv'
    BY <2>1, ThreadsAssumption, SameBusy DEF CountInv, TypeOK
  <2>4. PlaceInv' /\ FlushInv' /\ FlushComplete'
    BY ThreadsAssumption, Unmoved DEF PlaceInv, FlushInv, FlushComplete, TypeOK
  <2>5. StartInv'
    BY ThreadsAssumption DEF StartInv, TypeOK
  <2>6. QED
    BY <2>1, <2>2, <2>3, <2>4, <2>5
<1>2. ASSUME NEW t \in Tasks, DispatchThrow(p, t)
      PROVE  IInv'
  <2> USE <1>2 DEF DispatchThrow, state
  <2>1. TypeOK'
    BY DEF TypeOK
  <2>2. SyncInv' /\ CountInv' /\ StartInv'
    BY DEF SyncInv, CountInv, Busy, Resting, StartInv
  <2>3. PlaceInv' /\ FlushInv' /\ FlushComplete'
    BY Unmoved DEF PlaceInv, FlushInv, FlushComplete
  <2>4. QED
    BY <2>1, <2>2, <2>3
<1>3. CASE DispatchPush(p)
  <2> DEFINE label == IF p \in Workers THEN "body" ELSE "idle"
  <2> USE <1>3 DEF DispatchPush
  <2>1. work_available' \in SUBSET work_available /\ p \notin work_available
    BY ThreadsAssumption DEF NotifyOne, SyncInv, TypeOK
  <2>2. /\ pc' \in [Threads -> WorkerLabels \cup ClientLabels]
        /\ pc'[p] = label
        /\ \A c \in Clients \ {p} : pc'[c] = pc[c]
        /\ \A w \in Workers \ {p} :
             pc'[w] = IF w \in work_available \ work_available' THEN "woken" ELSE pc[w]
    BY <2>1, ThreadsAssumption DEF Woken, TypeOK, WorkerLabels, ClientLabels
  <2>3. arg[p] \in requested /\ arg[p] \in Tasks
    BY DEF SyncInv, TypeOK
  <2>4. TypeOK'
    <3>1. /\ \A w \in Workers : pc'[w] \in WorkerLabels
          /\ \A c \in Clients : pc'[c] \in ClientLabels
      BY <2>2, ThreadsAssumption DEF TypeOK, WorkerLabels, ClientLabels
    <3>2. global_queue' \in Seq(Tasks) /\ arg' \in [Threads -> Tasks \cup {None}]
      BY <2>3 DEF TypeOK
    <3>3. pushed' \in SUBSET requested /\ done \in SUBSET pushed'
      BY <2>3 DEF TypeOK
    <3>4. QED
      BY <2>1, <2>2, <3>1, <3>2, <3>3 DEF TypeOK
  <2>5. SyncInv'
    BY <2>1, <2>2, ThreadsAssumption DEF SyncInv, TypeOK
  <2>6. CountInv'
    BY <2>2, <2>4, SameBusy DEF CountInv, SyncInv
  <2>7. Queued' = Queued \cup {arg[p]} /\ Executing' = Executing
    BY <2>3, QueuedPush DEF TypeOK, Executing
  <2>8. PlaceInv' /\ FlushInv' /\ FlushComplete'
    BY <2>2, <2>7, ThreadsAssumption DEF PlaceInv, FlushInv, FlushComplete, TypeOK
  <2>9. StartInv'
    BY <2>2, ThreadsAssumption DEF StartInv
  <2>10. QED
    BY <2>4, <2>5, <2>6, <2>8, <2>9
<1>4. QED
  BY <1>1, <1>2, <1>3 DEF DispatchStep

(* Both steps of join() keep the accounting. *)
LEMMA JoinInv ==
  ASSUME IInv, JoinCall \/ JoinReturn
  PROVE  IInv'
<1> USE DEF IInv
<1>o. Owner \in Threads /\ Owner \notin Workers
  BY ThreadsAssumption
<1>1. CASE JoinCall
  <2> USE <1>1 DEF JoinCall, history
  <2>1. /\ pc' \in [Threads -> WorkerLabels \cup ClientLabels]
        /\ pc'[Owner] = "joining"
        /\ \A c \in Clients \ {Owner} : pc'[c] = pc[c]
        /\ \A w \in Workers :
             pc'[w] = IF w \in work_available THEN "woken" ELSE pc[w]
    BY <1>o, ThreadsAssumption DEF Woken, TypeOK, WorkerLabels, ClientLabels
  <2>2. TypeOK'
    BY <2>1, ThreadsAssumption DEF TypeOK, WorkerLabels, ClientLabels
  <2>3. SyncInv'
    BY <2>1, ThreadsAssumption DEF SyncInv, TypeOK
  <2>4. CountInv'
    BY <2>1, <2>2, SameBusy DEF CountInv, SyncInv
  <2>5. PlaceInv' /\ FlushInv' /\ FlushComplete'
    BY <2>1, Unmoved DEF PlaceInv, FlushInv, FlushComplete
  <2>6. StartInv'
    BY <2>1 DEF StartInv
  <2>7. QED
    BY <2>2, <2>3, <2>4, <2>5, <2>6
<1>2. CASE JoinReturn
  <2> USE <1>2, <1>o DEF JoinReturn, Goto, state, history
  <2>1. TypeOK'
    BY ThreadsAssumption DEF TypeOK, ClientLabels
  <2>2. SyncInv'
    BY DEF SyncInv, TypeOK
  <2>3. CountInv'
    BY <2>1, SameBusy DEF CountInv, TypeOK
  <2>4. PlaceInv' /\ FlushInv' /\ FlushComplete'
    BY Unmoved DEF PlaceInv, FlushInv, FlushComplete, TypeOK
  <2>5. StartInv'
    BY DEF StartInv, TypeOK
  <2>6. QED
    BY <2>1, <2>2, <2>3, <2>4, <2>5
<1>3. QED
  BY <1>1, <1>2

(* The accounting of the pool holds in every reachable state, for any number
   of workers, clients and tasks. *)
THEOREM PoolAccounting == Spec => []IInv
<1>1. Init => IInv
  BY InitInv
<1>2. IInv /\ [Next]_vars => IInv'
  <2> SUFFICES ASSUME IInv, [Next]_vars PROVE IInv'
    OBVIOUS
  <2>1. CASE Step
    BY <2>1, WorkerInv, ClientInv, DispatchInv, JoinInv DEF Step
  <2>2. CASE UNCHANGED vars
    BY <2>2 DEF vars, IInv, TypeOK, SyncInv, CountInv, Busy, Resting, PlaceInv,
                Queued, Executing, FlushInv, StartInv, FlushComplete
  <2>3. QED
    BY <2>1, <2>2 DEF Next, Halted
<1>3. QED
  BY <1>1, <1>2, PTL DEF Spec

(* Every variable keeps its type; num_working in particular never falls
   below zero, where the size_t of the code would wrap. *)
THEOREM TypeCorrect == Spec => []TypeOK
<1>1. IInv => TypeOK
  BY DEF IInv
<1>2. QED
  BY <1>1, PoolAccounting, PTL

(* flush() returns only when everything dispatched before it has finished. *)
THEOREM FlushIsComplete == Spec => []FlushComplete
<1>1. IInv => FlushComplete
  BY DEF IInv
<1>2. QED
  BY <1>1, PoolAccounting, PTL

(* The constructor returns only when every worker has started. *)
THEOREM ConstructorIsSettled == Spec => []ConstructorSettles
<1>1. IInv => ConstructorSettles
  BY DEF IInv, StartInv, ConstructorSettles
<1>2. QED
  BY <1>1, PoolAccounting, PTL

(* The queue is never left non-empty with every worker asleep, although most
   calls of dispatch() notify nobody. *)
THEOREM WakeupNeverLost == Spec => []NoLostWakeup
<1>1. Init => NoLostWakeup
  BY DEF Init, NoLostWakeup
<1>2. IInv /\ NoLostWakeup /\ [Next]_vars => NoLostWakeup'
  <2> SUFFICES ASSUME IInv, NoLostWakeup, [Next]_vars PROVE NoLostWakeup'
    OBVIOUS
  <2> USE DEF NoLostWakeup
  <2>1. CASE UNCHANGED vars
    BY <2>1 DEF vars
  <2>2. ASSUME NEW w \in Workers, WorkerStep(w)
        PROVE  NoLostWakeup'
    <3>1. CASE Sleep(w)
      BY <3>1 DEF Sleep
    <3>2. CASE SpuriousWakeup(w)
      BY <3>2 DEF SpuriousWakeup
    <3>3. CASE Pop(w)
      BY <3>3 DEF Pop, IInv, SyncInv
    <3>4. CASE BeginThread(w) \/ Lock(w) \/ Rewake(w) \/ Exit(w) \/ FinishTask(w)
      BY <3>4 DEF BeginThread, Lock, Rewake, Exit, FinishTask, state
    <3>5. QED
      BY <2>2, <3>1, <3>2, <3>3, <3>4 DEF WorkerStep
  <2>3. ASSUME NEW c \in Clients, ClientStep(c)
        PROVE  NoLostWakeup'
    BY <2>3 DEF ClientStep, Publish, FlushCall, FlushRunning, FlushEmpty,
                FlushIdle, FlushReturn, state
  <2>4. ASSUME NEW p \in Threads, DispatchStep(p)
        PROVE  NoLostWakeup'
    <3>1. CASE \E t \in Tasks : DispatchCall(p, t) \/ DispatchThrow(p, t)
      BY <3>1 DEF DispatchCall, DispatchThrow, state
    <3>2. CASE DispatchPush(p) /\ num_working = 0
      BY <3>2, WorkersAssumption DEF DispatchPush, NotifyOne, IInv, TypeOK
    <3>3. CASE DispatchPush(p) /\ num_working # 0
      <4>1. Busy # {}
        BY <3>3, FS_EmptySet DEF IInv, CountInv
      <4>2. QED
        BY <3>3, <4>1 DEF DispatchPush, IInv, SyncInv, Busy, Resting
    <3>4. QED
      BY <2>4, <3>1, <3>2, <3>3 DEF DispatchStep
  <2>5. CASE JoinCall \/ JoinReturn
    BY <2>5, WorkersAssumption DEF JoinCall, JoinReturn, state
  <2>6. QED
    BY <2>1, <2>2, <2>3, <2>4, <2>5 DEF Next, Step, Halted
<1>3. QED
  BY <1>1, <1>2, PoolAccounting, PTL DEF Spec

(* An orderly join() returns only when everything that was ever queued has
   been executed: the workers drain the queue before they exit. *)
THEOREM JoinIsDrained ==
  ASSUME OrderlyJoin
  PROVE  Spec => []JoinDrains
<1>1. Init => ExitInv
  BY ThreadsAssumption DEF Init, ExitInv
<1>2. IInv /\ ExitInv /\ [Next]_vars => ExitInv'
  <2> SUFFICES ASSUME IInv, ExitInv, [Next]_vars PROVE ExitInv'
    OBVIOUS
  <2> USE ThreadsAssumption DEF ExitInv, IInv, TypeOK
  <2>1. CASE UNCHANGED vars
    BY <2>1 DEF vars
  <2>2. ASSUME NEW w \in Workers, WorkerStep(w)
        PROVE  ExitInv'
    <3>1. CASE BeginThread(w) \/ Lock(w) \/ Sleep(w) \/ SpuriousWakeup(w)
      BY <3>1 DEF BeginThread, Lock, Sleep, SpuriousWakeup, state, Goto, SyncInv
    <3>2. CASE Rewake(w) \/ FinishTask(w)
      BY <3>2 DEF Rewake, FinishTask, state, Goto
    <3>3. CASE Pop(w)
      BY <3>3 DEF Pop, Goto
    <3>4. CASE Exit(w)
      BY <3>4 DEF Exit, Goto
    <3>5. QED
      BY <2>2, <3>1, <3>2, <3>3, <3>4 DEF WorkerStep
  <2>3. ASSUME NEW c \in Clients, ClientStep(c)
        PROVE  ExitInv'
    BY <2>3 DEF ClientStep, Publish, FlushCall, FlushRunning, FlushEmpty,
                FlushIdle, FlushReturn, state, Goto, ClientLabels
  <2>4. ASSUME NEW p \in Threads, DispatchStep(p)
        PROVE  ExitInv'
    <3>1. CASE \E t \in Tasks : DispatchCall(p, t) \/ DispatchThrow(p, t)
      BY <3>1 DEF DispatchCall, DispatchThrow, MayDispatch, state, Goto
    <3>2. CASE DispatchPush(p)
      <4>1. running /\ \A w \in Workers : pc[w] # "exit"
        BY <3>2 DEF DispatchPush
      <4>2. \A w \in Workers : pc'[w] # "exit"
        BY <3>2, <4>1 DEF DispatchPush, Woken
      <4>3. pc[Owner] # "joined" /\ pc'[Owner] # "joined"
        BY <3>2, <4>1, WorkersAssumption DEF DispatchPush, Woken
      <4>4. QED
        BY <3>2, <4>1, <4>2, <4>3 DEF DispatchPush
    <3>3. QED
      BY <2>4, <3>1, <3>2 DEF DispatchStep
  <2>5. CASE JoinCall
    BY <2>5, OrderlyJoin DEF JoinCall, Woken, NoDispatchToCome, SyncInv
  <2>6. CASE JoinReturn
    BY <2>6 DEF JoinReturn, Goto, state
  <2>7. QED
    BY <2>1, <2>2, <2>3, <2>4, <2>5, <2>6 DEF Next, Step, Halted
<1>3. IInv /\ ExitInv => JoinDrains
  <2> SUFFICES ASSUME IInv, ExitInv, pc[Owner] = "joined" PROVE pushed = done
    BY DEF JoinDrains
  <2>1. \A w \in Workers : pc[w] = "exit"
    BY DEF ExitInv
  <2>2. Executing \subseteq {None}
    BY <2>1 DEF Executing, IInv, SyncInv
  <2>3. Queued = {}
    BY <2>1, WorkersAssumption DEF ExitInv, Queued
  <2>4. None \notin pushed /\ done \subseteq pushed
    BY NoneAssumption DEF IInv, TypeOK
  <2>5. pushed \subseteq done
    BY <2>2, <2>3, <2>4 DEF IInv, PlaceInv
  <2>6. QED
    BY <2>4, <2>5
<1>4. QED
  BY <1>1, <1>2, <1>3, PoolAccounting, PTL DEF Spec
=============================================================================
