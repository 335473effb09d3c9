----------------------------- MODULE Future_proofs -----------------------------
(***************************************************************************)
(* Safety of one commitment for any setters and every kind of commitment:  *)
(* what get() sees is complete, the first set wins, no kept promise is     *)
(* reported broken, and a client that waited frees the group after its     *)
(* job.  And, in the last section, safety of the event.                    *)
(***************************************************************************)
EXTENDS Future, Event, TLAPS

USE FutureAssumption DEF Threads, Goto, has_task, is_ready, IsVoid, ByTask

Owners == Setters \cup {Job}

(* Who holds the mutex. Only set_void_value() writes the flags without it. *)
MutexInv ==
  /\ pc[Client] \in {"attach", "test", "sleep"} <=> mtx = Client
  /\ \A p \in Owners : pc[p] \in {"value_flags", "exception_flags"} <=> mtx = p
  /\ \A p \in Owners : ~IsVoid => pc[p] \notin {"set_void", "store_void", "notify"}

(* The job exists from async() on, and then nobody else sets the promise. *)
KindInv ==
  /\ pc[Client] = "async" => ByTask /\ group = "none" /\ ~joined
  /\ \A p \in Setters : pc[p] # "release" /\ (ByTask => pc[p] = "done")
  /\ ByTask /\ pc[Client] # "async" <=> group # "none"
  /\ group = "none" => pc[Job] = "done"
  /\ pc[Client] \in {"join", "joining"} => group # "none"
  /\ ByTask => left = {}

(* Who owns the commitment *)
OwnerInv ==
  /\ pc[Client] # "done" => Client \in refs
  /\ \A p \in Owners : pc[p] \notin {"release", "done"} => p \in refs
  /\ group = "freed" => refs = {}

(* The latch counts the job, until it released, and the client, but for the
   time it is in wait(). *)
LatchInv ==
  /\ group = "live" => outstanding = (IF pc[Job] = "done" THEN 0 ELSE 1)
                                     + (IF pc[Client] = "joining" THEN 0 ELSE 1)
  /\ joined => pc[Job] = "done"

(* What a client that looks at the commitment is to find. A flag that
   set_void_value() wipes out leaves its value in place of the exception. *)
Result == "except" \in state \/ stored # None

ResultInv ==
  /\ "except" \in state => ex # None
  /\ \A p \in Threads : "except" \in byte[p] => ex # None
  /\ \A p \in Threads : "ready" \in byte[p] => "except" \in byte[p] \/ stored # None
  /\ \A p \in Owners : /\ pc[p] = "value_flags" => stored # None
                       /\ pc[p] = "exception_flags" => ex # None
  /\ is_ready => Result
  /\ pc[Client] = "take" => Result
  /\ group # "none" /\ pc[Job] \in {"notify", "drop", "release", "done"} => Result
  /\ pc[Client] = "attach" /\ Result => "except" \in byte[Client] \/ stored # None

(* But for the void kinds, the flags cannot change under the client that
   attaches the future, and an owner that is through leaves them ready. *)
ReadyInv ==
  ~IsVoid =>
    /\ pc[Client] = "attach" => byte[Client] = state
    /\ \A p \in Owners : pc[p] = "drop" => is_ready \/ p \in left
    /\ \A p \in Setters : ~ByTask /\ pc[p] = "done" => is_ready \/ p \in left
    /\ group # "none" /\ pc[Job] \in {"release", "done"} => is_ready

IInv == /\ TypeOK /\ MutexInv /\ KindInv /\ OwnerInv /\ LatchInv
        /\ ResultInv /\ ReadyInv /\ GetSeesResult /\ BrokenWhenAllLeft

LEMMA InitInv == Init => IInv
<1> SUFFICES ASSUME Init PROVE IInv
  OBVIOUS
<1>1. TypeOK
  <2>1. pc \in [Threads -> ClientLabels \cup SetterLabels]
    BY DEF Init, ClientLabels, SetterLabels
  <2>2. pc[Client] \in ClientLabels /\ \A p \in Setters \cup {Job} : pc[p] \in SetterLabels
    BY DEF Init, ClientLabels, SetterLabels
  <2>3. byte \in [Threads -> SUBSET Flags] /\ refs \in SUBSET Threads
    BY DEF Init
  <2>4. {stored, ex, mtx, got} \subseteq Threads \cup {None} /\ state \in SUBSET Flags
    BY DEF Init
  <2>5. /\ kind \in Kinds /\ joined \in BOOLEAN /\ broken \in BOOLEAN
        /\ outstanding = 0 /\ group = "none" /\ left = {}
    BY Zenon DEF Init
  <2>6. QED
    BY <2>1, <2>2, <2>3, <2>4, <2>5 DEF TypeOK
<1>2. MutexInv /\ KindInv /\ OwnerInv /\ LatchInv
  BY DEF Init, MutexInv, KindInv, OwnerInv, LatchInv, Owners
<1>3. ResultInv /\ ReadyInv /\ GetSeesResult /\ BrokenWhenAllLeft
  BY DEF Init, ResultInv, ReadyInv, Result, Owners, GetSeesResult, BrokenWhenAllLeft
<1>4. QED
  BY <1>1, <1>2, <1>3 DEF IInv

LEMMA ClientInv ==
  ASSUME IInv, ClientStep \/ SpuriousWakeup \/ DropFuture
  PROVE  IInv'
<1> USE DEF IInv, commitment, task, history
<1>1. TypeOK'
  <2>1. CASE Async
    BY <2>1 DEF Async, TypeOK, Flags, ClientLabels, SetterLabels, KindInv, LatchInv, OwnerInv
  <2>2. CASE LoadFuture
    BY <2>2 DEF LoadFuture, TypeOK, Flags, ClientLabels, SetterLabels, KindInv, LatchInv,
       OwnerInv
  <2>3. CASE StoreFuture
    BY <2>3 DEF StoreFuture, TypeOK, Flags, ClientLabels, SetterLabels, KindInv, LatchInv,
       OwnerInv
  <2>4. CASE GetReady
    BY <2>4 DEF GetReady, TypeOK, Flags, ClientLabels, SetterLabels, KindInv, LatchInv, OwnerInv
  <2>5. CASE GetNotReady
    BY <2>5 DEF GetNotReady, TypeOK, Flags, ClientLabels, SetterLabels, KindInv, LatchInv,
       OwnerInv
  <2>6. CASE GroupWait
    BY <2>6 DEF GroupWait, TypeOK, Flags, ClientLabels, SetterLabels, KindInv, LatchInv,
       OwnerInv
  <2>7. CASE GroupWaitReturn
    BY <2>7 DEF GroupWaitReturn, TypeOK, Flags, ClientLabels, SetterLabels, KindInv,
       LatchInv, OwnerInv
  <2>8. CASE Lock
    BY <2>8 DEF Lock, TypeOK, Flags, ClientLabels, SetterLabels, KindInv, LatchInv, OwnerInv
  <2>9. CASE TestReady
    BY <2>9 DEF TestReady, TypeOK, Flags, ClientLabels, SetterLabels, KindInv, LatchInv,
       OwnerInv
  <2>10. CASE TestNotReady
    BY <2>10 DEF TestNotReady, TypeOK, Flags, ClientLabels, SetterLabels, KindInv, LatchInv,
       OwnerInv
  <2>11. CASE Sleep
    BY <2>11 DEF Sleep, TypeOK, Flags, ClientLabels, SetterLabels, KindInv, LatchInv, OwnerInv
  <2>12. CASE Take
    BY <2>12 DEF Take, TypeOK, Flags, ClientLabels, SetterLabels, KindInv, LatchInv, OwnerInv
  <2>13. CASE SpuriousWakeup
    BY <2>13 DEF SpuriousWakeup, TypeOK, Flags, ClientLabels, SetterLabels, KindInv,
       LatchInv, OwnerInv
  <2>14. CASE DropFuture
    BY <2>14 DEF DropFuture, Drop, TypeOK, Flags, ClientLabels, SetterLabels, KindInv,
       LatchInv, OwnerInv
  <2>15. QED
    BY <2>1, <2>2, <2>3, <2>4, <2>5, <2>6, <2>7, <2>8, <2>9, <2>10, <2>11, <2>12, <2>13,
       <2>14 DEF ClientStep
<1>2. MutexInv'
  <2>1. CASE Async
    BY <2>1 DEF Async, TypeOK, MutexInv, KindInv, Owners
  <2>2. CASE LoadFuture
    BY <2>2 DEF LoadFuture, TypeOK, MutexInv, KindInv, Owners
  <2>3. CASE StoreFuture
    BY <2>3 DEF StoreFuture, TypeOK, MutexInv, KindInv, Owners
  <2>4. CASE GetReady
    BY <2>4 DEF GetReady, TypeOK, MutexInv, KindInv, Owners
  <2>5. CASE GetNotReady
    BY <2>5 DEF GetNotReady, TypeOK, MutexInv, KindInv, Owners
  <2>6. CASE GroupWait
    BY <2>6 DEF GroupWait, TypeOK, MutexInv, KindInv, Owners
  <2>7. CASE GroupWaitReturn
    BY <2>7 DEF GroupWaitReturn, TypeOK, MutexInv, KindInv, Owners
  <2>8. CASE Lock
    BY <2>8 DEF Lock, TypeOK, MutexInv, KindInv, Owners
  <2>9. CASE TestReady
    BY <2>9 DEF TestReady, TypeOK, MutexInv, KindInv, Owners
  <2>10. CASE TestNotReady
    BY <2>10 DEF TestNotReady, TypeOK, MutexInv, KindInv, Owners
  <2>11. CASE Sleep
    BY <2>11 DEF Sleep, TypeOK, MutexInv, KindInv, Owners
  <2>12. CASE Take
    BY <2>12 DEF Take, TypeOK, MutexInv, KindInv, Owners
  <2>13. CASE SpuriousWakeup
    BY <2>13 DEF SpuriousWakeup, TypeOK, MutexInv, KindInv, Owners
  <2>14. CASE DropFuture
    BY <2>14 DEF DropFuture, Drop, TypeOK, MutexInv, KindInv, Owners
  <2>15. QED
    BY <2>1, <2>2, <2>3, <2>4, <2>5, <2>6, <2>7, <2>8, <2>9, <2>10, <2>11, <2>12, <2>13,
       <2>14 DEF ClientStep
<1>3. KindInv'
  <2>1. kind' = kind /\ left' = left
    BY DEF ClientStep, Async, LoadFuture, StoreFuture, GetReady, GetNotReady, GroupWait,
       GroupWaitReturn, Lock, TestReady, TestNotReady, Sleep, Take, SpuriousWakeup,
       DropFuture
  <2>2. CASE Async \/ DropFuture
    BY <2>1, <2>2 DEF Async, DropFuture, Drop, TypeOK, KindInv, Owners
  <2>3. CASE ~(Async \/ DropFuture)
    BY <2>1, <2>3 DEF ClientStep, LoadFuture, StoreFuture, GetReady, GetNotReady, GroupWait,
       GroupWaitReturn, Lock, TestReady, TestNotReady, Sleep, Take, SpuriousWakeup,
       TypeOK, KindInv, Owners
  <2>4. QED
    BY <2>2, <2>3
<1>4. OwnerInv'
  BY DEF ClientStep, Async, LoadFuture, StoreFuture, GetReady, GetNotReady, GroupWait,
     GroupWaitReturn, Lock, TestReady, TestNotReady, Sleep, Take, SpuriousWakeup,
     DropFuture, Drop, TypeOK, OwnerInv, Owners
<1>5. LatchInv'
  <2>1. CASE Async
    BY <2>1 DEF Async, TypeOK, LatchInv, KindInv, OwnerInv, Owners
  <2>2. CASE LoadFuture
    BY <2>2 DEF LoadFuture, TypeOK, LatchInv, KindInv, OwnerInv, Owners
  <2>3. CASE StoreFuture
    BY <2>3 DEF StoreFuture, TypeOK, LatchInv, KindInv, OwnerInv, Owners
  <2>4. CASE GetReady
    BY <2>4 DEF GetReady, TypeOK, LatchInv, KindInv, OwnerInv, Owners
  <2>5. CASE GetNotReady
    BY <2>5 DEF GetNotReady, TypeOK, LatchInv, KindInv, OwnerInv, Owners
  <2>6. CASE GroupWait
    BY <2>6 DEF GroupWait, TypeOK, LatchInv, KindInv, OwnerInv, Owners
  <2>7. CASE GroupWaitReturn
    BY <2>7 DEF GroupWaitReturn, TypeOK, LatchInv, KindInv, OwnerInv, Owners
  <2>8. CASE Lock
    BY <2>8 DEF Lock, TypeOK, LatchInv, KindInv, OwnerInv, Owners
  <2>9. CASE TestReady
    BY <2>9 DEF TestReady, TypeOK, LatchInv, KindInv, OwnerInv, Owners
  <2>10. CASE TestNotReady
    BY <2>10 DEF TestNotReady, TypeOK, LatchInv, KindInv, OwnerInv, Owners
  <2>11. CASE Sleep
    BY <2>11 DEF Sleep, TypeOK, LatchInv, KindInv, OwnerInv, Owners
  <2>12. CASE Take
    BY <2>12 DEF Take, TypeOK, LatchInv, KindInv, OwnerInv, Owners
  <2>13. CASE SpuriousWakeup
    BY <2>13 DEF SpuriousWakeup, TypeOK, LatchInv, KindInv, OwnerInv, Owners
  <2>14. CASE DropFuture
    BY <2>14 DEF DropFuture, Drop, TypeOK, LatchInv, KindInv, OwnerInv, Owners
  <2>15. QED
    BY <2>1, <2>2, <2>3, <2>4, <2>5, <2>6, <2>7, <2>8, <2>9, <2>10, <2>11, <2>12, <2>13,
       <2>14 DEF ClientStep
<1>6. ResultInv'
  <2>1. CASE Async
    BY <2>1 DEF Async, TypeOK, ResultInv, Result, KindInv, MutexInv, LatchInv, OwnerInv, Owners
  <2>2. CASE LoadFuture
    BY <2>2 DEF LoadFuture, TypeOK, ResultInv, Result, KindInv, MutexInv, LatchInv,
       OwnerInv, Owners
  <2>3. CASE StoreFuture
    BY <2>3 DEF StoreFuture, TypeOK, ResultInv, Result, KindInv, MutexInv, LatchInv,
       OwnerInv, Owners
  <2>4. CASE GetReady
    BY <2>4 DEF GetReady, TypeOK, ResultInv, Result, KindInv, MutexInv, LatchInv, OwnerInv,
       Owners
  <2>5. CASE GetNotReady
    BY <2>5 DEF GetNotReady, TypeOK, ResultInv, Result, KindInv, MutexInv, LatchInv,
       OwnerInv, Owners
  <2>6. CASE GroupWait
    BY <2>6 DEF GroupWait, TypeOK, ResultInv, Result, KindInv, MutexInv, LatchInv, OwnerInv,
       Owners
  <2>7. CASE GroupWaitReturn
    BY <2>7 DEF GroupWaitReturn, TypeOK, ResultInv, Result, KindInv, MutexInv, LatchInv,
       OwnerInv, Owners
  <2>8. CASE Lock
    BY <2>8 DEF Lock, TypeOK, ResultInv, Result, KindInv, MutexInv, LatchInv, OwnerInv, Owners
  <2>9. CASE TestReady
    BY <2>9 DEF TestReady, TypeOK, ResultInv, Result, KindInv, MutexInv, LatchInv, OwnerInv,
       Owners
  <2>10. CASE TestNotReady
    BY <2>10 DEF TestNotReady, TypeOK, ResultInv, Result, KindInv, MutexInv, LatchInv,
       OwnerInv, Owners
  <2>11. CASE Sleep
    BY <2>11 DEF Sleep, TypeOK, ResultInv, Result, KindInv, MutexInv, LatchInv, OwnerInv, Owners
  <2>12. CASE Take
    BY <2>12 DEF Take, TypeOK, ResultInv, Result, KindInv, MutexInv, LatchInv, OwnerInv, Owners
  <2>13. CASE SpuriousWakeup
    BY <2>13 DEF SpuriousWakeup, TypeOK, ResultInv, Result, KindInv, MutexInv, LatchInv,
       OwnerInv, Owners
  <2>14. CASE DropFuture
    BY <2>14 DEF DropFuture, Drop, TypeOK, ResultInv, Result, KindInv, MutexInv, LatchInv,
       OwnerInv, Owners
  <2>15. QED
    BY <2>1, <2>2, <2>3, <2>4, <2>5, <2>6, <2>7, <2>8, <2>9, <2>10, <2>11, <2>12, <2>13,
       <2>14 DEF ClientStep
<1>7. ReadyInv'
  <2>1. CASE Async
    BY <2>1 DEF Async, TypeOK, ReadyInv, KindInv, MutexInv, Owners
  <2>2. CASE LoadFuture
    BY <2>2 DEF LoadFuture, TypeOK, ReadyInv, KindInv, MutexInv, Owners
  <2>3. CASE StoreFuture
    BY <2>3 DEF StoreFuture, TypeOK, ReadyInv, KindInv, MutexInv, Owners
  <2>4. CASE GetReady
    BY <2>4 DEF GetReady, TypeOK, ReadyInv, KindInv, MutexInv, Owners
  <2>5. CASE GetNotReady
    BY <2>5 DEF GetNotReady, TypeOK, ReadyInv, KindInv, MutexInv, Owners
  <2>6. CASE GroupWait
    BY <2>6 DEF GroupWait, TypeOK, ReadyInv, KindInv, MutexInv, Owners
  <2>7. CASE GroupWaitReturn
    BY <2>7 DEF GroupWaitReturn, TypeOK, ReadyInv, KindInv, MutexInv, Owners
  <2>8. CASE Lock
    BY <2>8 DEF Lock, TypeOK, ReadyInv, KindInv, MutexInv, Owners
  <2>9. CASE TestReady
    BY <2>9 DEF TestReady, TypeOK, ReadyInv, KindInv, MutexInv, Owners
  <2>10. CASE TestNotReady
    BY <2>10 DEF TestNotReady, TypeOK, ReadyInv, KindInv, MutexInv, Owners
  <2>11. CASE Sleep
    BY <2>11 DEF Sleep, TypeOK, ReadyInv, KindInv, MutexInv, Owners
  <2>12. CASE Take
    BY <2>12 DEF Take, TypeOK, ReadyInv, KindInv, MutexInv, Owners
  <2>13. CASE SpuriousWakeup
    BY <2>13 DEF SpuriousWakeup, TypeOK, ReadyInv, KindInv, MutexInv, Owners
  <2>14. CASE DropFuture
    BY <2>14 DEF DropFuture, Drop, TypeOK, ReadyInv, KindInv, MutexInv, Owners
  <2>15. QED
    BY <2>1, <2>2, <2>3, <2>4, <2>5, <2>6, <2>7, <2>8, <2>9, <2>10, <2>11, <2>12, <2>13,
       <2>14 DEF ClientStep
<1>8. GetSeesResult'
  BY DEF ClientStep, Async, LoadFuture, StoreFuture, GetReady, GetNotReady, GroupWait,
     GroupWaitReturn, Lock, TestReady, TestNotReady, Sleep, Take, SpuriousWakeup,
     DropFuture, Drop, TypeOK, GetSeesResult, ResultInv, Result, Owners
<1>9. BrokenWhenAllLeft'
  <2>1. CASE DropFuture
    <3>1. SUFFICES ASSUME ~IsVoid, refs = {Client}, ~is_ready PROVE ~ByTask /\ left = Setters
      BY <2>1 DEF DropFuture, Drop, BrokenWhenAllLeft
    <3>2. CASE ByTask
      BY <2>1, <3>1, <3>2 DEF DropFuture, KindInv, OwnerInv, ReadyInv, Owners
    <3>3. CASE ~ByTask
      <4>1. SUFFICES ASSUME NEW p \in Setters PROVE p \in left
        BY <3>3 DEF TypeOK
      <4>2. pc[p] \in {"release", "done"}
        BY <3>1 DEF OwnerInv, Owners
      <4>3. pc[p] # "release"
        BY <3>3 DEF KindInv, Owners, TypeOK
      <4>4. QED
        BY <3>1, <3>3, <4>2, <4>3 DEF ReadyInv
    <3>4. QED
      BY <3>2, <3>3
  <2>2. CASE ~DropFuture
    BY <2>2 DEF ClientStep, Async, LoadFuture, StoreFuture, GetReady, GetNotReady, GroupWait,
                GroupWaitReturn, Lock, TestReady, TestNotReady, Sleep, Take, SpuriousWakeup,
                BrokenWhenAllLeft
  <2>3. QED
    BY <2>1, <2>2
<1>10. QED
  BY <1>1, <1>2, <1>3, <1>4, <1>5, <1>6, <1>7, <1>8, <1>9

LEMMA SetterInv ==
  ASSUME IInv, NEW p \in Owners, SetStep(p) \/ SetExceptionAtThreadExit(p)
  PROVE  IInv'
<1> USE DEF IInv, commitment, task, history
<1>1. TypeOK'
  <2>1. CASE SetValue(p)
    BY <2>1 DEF SetValue, TypeOK, Flags, ClientLabels, SetterLabels, KindInv, LatchInv, OwnerInv
  <2>2. CASE SetException(p)
    BY <2>2 DEF SetException, TypeOK, Flags, ClientLabels, SetterLabels, KindInv, LatchInv,
       OwnerInv
  <2>3. CASE SetExceptionAtThreadExit(p)
    BY <2>3 DEF SetExceptionAtThreadExit, TypeOK, Flags, ClientLabels, SetterLabels,
       KindInv, LatchInv, OwnerInv
  <2>4. CASE Throw(p)
    BY <2>4 DEF Throw, TypeOK, Flags, ClientLabels, SetterLabels, KindInv, LatchInv, OwnerInv
  <2>5. CASE StoreValue(p)
    BY <2>5 DEF StoreValue, TypeOK, Flags, ClientLabels, SetterLabels, KindInv, LatchInv,
       OwnerInv
  <2>6. CASE ValueFlags(p)
    BY <2>6 DEF ValueFlags, TypeOK, Flags, ClientLabels, SetterLabels, KindInv, LatchInv,
       OwnerInv
  <2>7. CASE StoreException(p)
    BY <2>7 DEF StoreException, TypeOK, Flags, ClientLabels, SetterLabels, KindInv,
       LatchInv, OwnerInv
  <2>8. CASE ExceptionFlags(p)
    BY <2>8 DEF ExceptionFlags, TypeOK, Flags, ClientLabels, SetterLabels, KindInv,
       LatchInv, OwnerInv
  <2>9. CASE LoadVoid(p)
    BY <2>9 DEF LoadVoid, TypeOK, Flags, ClientLabels, SetterLabels, KindInv, LatchInv, OwnerInv
  <2>10. CASE StoreVoid(p)
    BY <2>10 DEF StoreVoid, TypeOK, Flags, ClientLabels, SetterLabels, KindInv, LatchInv,
       OwnerInv
  <2>11. CASE NotifyAll(p)
    BY <2>11 DEF NotifyAll, TypeOK, Flags, ClientLabels, SetterLabels, KindInv, LatchInv,
       OwnerInv
  <2>12. CASE DropPromise(p)
    BY <2>12 DEF DropPromise, Drop, TypeOK, Flags, ClientLabels, SetterLabels, KindInv,
       LatchInv, OwnerInv
  <2>13. CASE Leave(p) \/ ThrowAtThreadExit(p)
    <3>1. p \in Setters /\ left' = left \cup {p} /\ pc' = [pc EXCEPT ![p] = "drop"]
      BY <2>13 DEF Leave, ThrowAtThreadExit, Owners
    <3>2. /\ UNCHANGED <<kind, state, stored, ex, mtx, got, refs, outstanding, group>>
          /\ UNCHANGED <<byte, joined, broken>>
      BY <2>13 DEF Leave, ThrowAtThreadExit
    <3>3. QED
      BY <3>1, <3>2 DEF TypeOK, ClientLabels, SetterLabels
  <2>14. QED
    BY <2>1, <2>2, <2>3, <2>4, <2>5, <2>6, <2>7, <2>8, <2>9, <2>10, <2>11, <2>12, <2>13
       DEF SetStep
<1>2. MutexInv'
  <2>1. CASE SetValue(p)
    BY <2>1 DEF SetValue, TypeOK, MutexInv, KindInv, Owners
  <2>2. CASE SetException(p)
    BY <2>2 DEF SetException, TypeOK, MutexInv, KindInv, Owners
  <2>3. CASE SetExceptionAtThreadExit(p)
    BY <2>3 DEF SetExceptionAtThreadExit, TypeOK, MutexInv, KindInv, Owners
  <2>4. CASE Throw(p)
    BY <2>4 DEF Throw, TypeOK, MutexInv, KindInv, Owners
  <2>5. CASE StoreValue(p)
    BY <2>5 DEF StoreValue, TypeOK, MutexInv, KindInv, Owners
  <2>6. CASE ValueFlags(p)
    BY <2>6 DEF ValueFlags, TypeOK, MutexInv, KindInv, Owners
  <2>7. CASE StoreException(p)
    BY <2>7 DEF StoreException, TypeOK, MutexInv, KindInv, Owners
  <2>8. CASE ExceptionFlags(p)
    BY <2>8 DEF ExceptionFlags, TypeOK, MutexInv, KindInv, Owners
  <2>9. CASE LoadVoid(p)
    BY <2>9 DEF LoadVoid, TypeOK, MutexInv, KindInv, Owners
  <2>10. CASE StoreVoid(p)
    BY <2>10 DEF StoreVoid, TypeOK, MutexInv, KindInv, Owners
  <2>11. CASE NotifyAll(p)
    BY <2>11 DEF NotifyAll, TypeOK, MutexInv, KindInv, Owners
  <2>12. CASE DropPromise(p)
    BY <2>12 DEF DropPromise, Drop, TypeOK, MutexInv, KindInv, Owners
  <2>13. CASE Leave(p) \/ ThrowAtThreadExit(p)
    BY <2>13 DEF Leave, ThrowAtThreadExit, TypeOK, MutexInv, KindInv, Owners
  <2>14. QED
    BY <2>1, <2>2, <2>3, <2>4, <2>5, <2>6, <2>7, <2>8, <2>9, <2>10, <2>11, <2>12, <2>13
       DEF SetStep
<1>3. KindInv'
  <2>1. CASE SetValue(p)
    BY <2>1 DEF SetValue, TypeOK, KindInv, Owners
  <2>2. CASE SetException(p)
    BY <2>2 DEF SetException, TypeOK, KindInv, Owners
  <2>3. CASE SetExceptionAtThreadExit(p)
    BY <2>3 DEF SetExceptionAtThreadExit, TypeOK, KindInv, Owners
  <2>4. CASE Throw(p)
    BY <2>4 DEF Throw, TypeOK, KindInv, Owners
  <2>5. CASE StoreValue(p)
    BY <2>5 DEF StoreValue, TypeOK, KindInv, Owners
  <2>6. CASE ValueFlags(p)
    BY <2>6 DEF ValueFlags, TypeOK, KindInv, Owners
  <2>7. CASE StoreException(p)
    BY <2>7 DEF StoreException, TypeOK, KindInv, Owners
  <2>8. CASE ExceptionFlags(p)
    BY <2>8 DEF ExceptionFlags, TypeOK, KindInv, Owners
  <2>9. CASE LoadVoid(p)
    BY <2>9 DEF LoadVoid, TypeOK, KindInv, Owners
  <2>10. CASE StoreVoid(p)
    BY <2>10 DEF StoreVoid, TypeOK, KindInv, Owners
  <2>11. CASE NotifyAll(p)
    BY <2>11 DEF NotifyAll, TypeOK, KindInv, Owners
  <2>12. CASE DropPromise(p)
    BY <2>12 DEF DropPromise, Drop, TypeOK, KindInv, Owners
  <2>13. CASE Leave(p) \/ ThrowAtThreadExit(p)
    BY <2>13 DEF Leave, ThrowAtThreadExit, TypeOK, KindInv, Owners
  <2>14. QED
    BY <2>1, <2>2, <2>3, <2>4, <2>5, <2>6, <2>7, <2>8, <2>9, <2>10, <2>11, <2>12, <2>13
       DEF SetStep
<1>4. OwnerInv'
  <2>1. CASE SetValue(p)
    BY <2>1 DEF SetValue, TypeOK, OwnerInv, Owners
  <2>2. CASE SetException(p)
    BY <2>2 DEF SetException, TypeOK, OwnerInv, Owners
  <2>3. CASE SetExceptionAtThreadExit(p)
    BY <2>3 DEF SetExceptionAtThreadExit, TypeOK, OwnerInv, Owners
  <2>4. CASE Throw(p)
    BY <2>4 DEF Throw, TypeOK, OwnerInv, Owners
  <2>5. CASE StoreValue(p)
    BY <2>5 DEF StoreValue, TypeOK, OwnerInv, Owners
  <2>6. CASE ValueFlags(p)
    BY <2>6 DEF ValueFlags, TypeOK, OwnerInv, Owners
  <2>7. CASE StoreException(p)
    BY <2>7 DEF StoreException, TypeOK, OwnerInv, Owners
  <2>8. CASE ExceptionFlags(p)
    BY <2>8 DEF ExceptionFlags, TypeOK, OwnerInv, Owners
  <2>9. CASE LoadVoid(p)
    BY <2>9 DEF LoadVoid, TypeOK, OwnerInv, Owners
  <2>10. CASE StoreVoid(p)
    BY <2>10 DEF StoreVoid, TypeOK, OwnerInv, Owners
  <2>11. CASE NotifyAll(p)
    BY <2>11 DEF NotifyAll, TypeOK, OwnerInv, Owners
  <2>12. CASE DropPromise(p)
    BY <2>12 DEF DropPromise, Drop, TypeOK, OwnerInv, Owners
  <2>13. CASE Leave(p) \/ ThrowAtThreadExit(p)
    BY <2>13 DEF Leave, ThrowAtThreadExit, TypeOK, OwnerInv, Owners
  <2>14. QED
    BY <2>1, <2>2, <2>3, <2>4, <2>5, <2>6, <2>7, <2>8, <2>9, <2>10, <2>11, <2>12, <2>13
       DEF SetStep
<1>5. LatchInv'
  <2>1. CASE SetValue(p)
    BY <2>1 DEF SetValue, TypeOK, LatchInv, KindInv, OwnerInv, Owners
  <2>2. CASE SetException(p)
    BY <2>2 DEF SetException, TypeOK, LatchInv, KindInv, OwnerInv, Owners
  <2>3. CASE SetExceptionAtThreadExit(p)
    BY <2>3 DEF SetExceptionAtThreadExit, TypeOK, LatchInv, KindInv, OwnerInv, Owners
  <2>4. CASE Throw(p)
    BY <2>4 DEF Throw, TypeOK, LatchInv, KindInv, OwnerInv, Owners
  <2>5. CASE StoreValue(p)
    BY <2>5 DEF StoreValue, TypeOK, LatchInv, KindInv, OwnerInv, Owners
  <2>6. CASE ValueFlags(p)
    BY <2>6 DEF ValueFlags, TypeOK, LatchInv, KindInv, OwnerInv, Owners
  <2>7. CASE StoreException(p)
    BY <2>7 DEF StoreException, TypeOK, LatchInv, KindInv, OwnerInv, Owners
  <2>8. CASE ExceptionFlags(p)
    BY <2>8 DEF ExceptionFlags, TypeOK, LatchInv, KindInv, OwnerInv, Owners
  <2>9. CASE LoadVoid(p)
    BY <2>9 DEF LoadVoid, TypeOK, LatchInv, KindInv, OwnerInv, Owners
  <2>10. CASE StoreVoid(p)
    BY <2>10 DEF StoreVoid, TypeOK, LatchInv, KindInv, OwnerInv, Owners
  <2>11. CASE NotifyAll(p)
    BY <2>11 DEF NotifyAll, TypeOK, LatchInv, KindInv, OwnerInv, Owners
  <2>12. CASE DropPromise(p)
    BY <2>12 DEF DropPromise, Drop, TypeOK, LatchInv, KindInv, OwnerInv, Owners
  <2>13. CASE Leave(p) \/ ThrowAtThreadExit(p)
    BY <2>13 DEF Leave, ThrowAtThreadExit, TypeOK, LatchInv, KindInv, OwnerInv, Owners
  <2>14. QED
    BY <2>1, <2>2, <2>3, <2>4, <2>5, <2>6, <2>7, <2>8, <2>9, <2>10, <2>11, <2>12, <2>13
       DEF SetStep
<1>6. ResultInv'
  <2>1. CASE SetValue(p)
    BY <2>1 DEF SetValue, TypeOK, ResultInv, Result, KindInv, MutexInv, LatchInv, OwnerInv,
       Owners
  <2>2. CASE SetException(p)
    BY <2>2 DEF SetException, TypeOK, ResultInv, Result, KindInv, MutexInv, LatchInv,
       OwnerInv, Owners
  <2>3. CASE SetExceptionAtThreadExit(p)
    BY <2>3 DEF SetExceptionAtThreadExit, TypeOK, ResultInv, Result, KindInv, MutexInv,
       LatchInv, OwnerInv, Owners
  <2>4. CASE Throw(p)
    BY <2>4 DEF Throw, TypeOK, ResultInv, Result, KindInv, MutexInv, LatchInv, OwnerInv, Owners
  <2>5. CASE StoreValue(p)
    BY <2>5 DEF StoreValue, TypeOK, ResultInv, Result, KindInv, MutexInv, LatchInv,
       OwnerInv, Owners
  <2>6. CASE ValueFlags(p)
    BY <2>6 DEF ValueFlags, TypeOK, ResultInv, Result, KindInv, MutexInv, LatchInv,
       OwnerInv, Owners
  <2>7. CASE StoreException(p)
    BY <2>7 DEF StoreException, TypeOK, ResultInv, Result, KindInv, MutexInv, LatchInv,
       OwnerInv, Owners
  <2>8. CASE ExceptionFlags(p)
    BY <2>8 DEF ExceptionFlags, TypeOK, ResultInv, Result, KindInv, MutexInv, LatchInv,
       OwnerInv, Owners
  <2>9. CASE LoadVoid(p)
    BY <2>9 DEF LoadVoid, TypeOK, ResultInv, Result, KindInv, MutexInv, LatchInv, OwnerInv,
       Owners
  <2>10. CASE StoreVoid(p)
    BY <2>10 DEF StoreVoid, TypeOK, ResultInv, Result, KindInv, MutexInv, LatchInv,
       OwnerInv, Owners
  <2>11. CASE NotifyAll(p)
    BY <2>11 DEF NotifyAll, TypeOK, ResultInv, Result, KindInv, MutexInv, LatchInv,
       OwnerInv, Owners
  <2>12. CASE DropPromise(p)
    BY <2>12 DEF DropPromise, Drop, TypeOK, ResultInv, Result, KindInv, MutexInv, LatchInv,
       OwnerInv, Owners
  <2>13. CASE Leave(p) \/ ThrowAtThreadExit(p)
    BY <2>13 DEF Leave, ThrowAtThreadExit, TypeOK, ResultInv, Result, KindInv, MutexInv,
       LatchInv, OwnerInv, Owners
  <2>14. QED
    BY <2>1, <2>2, <2>3, <2>4, <2>5, <2>6, <2>7, <2>8, <2>9, <2>10, <2>11, <2>12, <2>13
       DEF SetStep
<1>7. ReadyInv'
  <2>1. CASE SetValue(p)
    BY <2>1 DEF SetValue, TypeOK, ReadyInv, KindInv, MutexInv, Owners
  <2>2. CASE SetException(p)
    BY <2>2 DEF SetException, TypeOK, ReadyInv, KindInv, MutexInv, Owners
  <2>3. CASE SetExceptionAtThreadExit(p)
    BY <2>3 DEF SetExceptionAtThreadExit, TypeOK, ReadyInv, KindInv, MutexInv, Owners
  <2>4. CASE Throw(p)
    BY <2>4 DEF Throw, TypeOK, ReadyInv, KindInv, MutexInv, Owners
  <2>5. CASE StoreValue(p)
    BY <2>5 DEF StoreValue, TypeOK, ReadyInv, KindInv, MutexInv, Owners
  <2>6. CASE ValueFlags(p)
    BY <2>6 DEF ValueFlags, TypeOK, ReadyInv, KindInv, MutexInv, Owners
  <2>7. CASE StoreException(p)
    BY <2>7 DEF StoreException, TypeOK, ReadyInv, KindInv, MutexInv, Owners
  <2>8. CASE ExceptionFlags(p)
    BY <2>8 DEF ExceptionFlags, TypeOK, ReadyInv, KindInv, MutexInv, Owners
  <2>9. CASE LoadVoid(p)
    BY <2>9 DEF LoadVoid, TypeOK, ReadyInv, KindInv, MutexInv, Owners
  <2>10. CASE StoreVoid(p)
    BY <2>10 DEF StoreVoid, TypeOK, ReadyInv, KindInv, MutexInv, Owners
  <2>11. CASE NotifyAll(p)
    BY <2>11 DEF NotifyAll, TypeOK, ReadyInv, KindInv, MutexInv, Owners
  <2>12. CASE DropPromise(p)
    BY <2>12 DEF DropPromise, Drop, TypeOK, ReadyInv, KindInv, MutexInv, Owners
  <2>13. CASE Leave(p) \/ ThrowAtThreadExit(p)
    BY <2>13 DEF Leave, ThrowAtThreadExit, TypeOK, ReadyInv, KindInv, MutexInv, Owners
  <2>14. QED
    BY <2>1, <2>2, <2>3, <2>4, <2>5, <2>6, <2>7, <2>8, <2>9, <2>10, <2>11, <2>12, <2>13
       DEF SetStep
<1>8. GetSeesResult'
  <2>1. CASE SetValue(p)
    BY <2>1 DEF SetValue, TypeOK, GetSeesResult, ResultInv, Result, Owners
  <2>2. CASE SetException(p)
    BY <2>2 DEF SetException, TypeOK, GetSeesResult, ResultInv, Result, Owners
  <2>3. CASE SetExceptionAtThreadExit(p)
    BY <2>3 DEF SetExceptionAtThreadExit, TypeOK, GetSeesResult, ResultInv, Result, Owners
  <2>4. CASE Throw(p)
    BY <2>4 DEF Throw, TypeOK, GetSeesResult, ResultInv, Result, Owners
  <2>5. CASE StoreValue(p)
    BY <2>5 DEF StoreValue, TypeOK, GetSeesResult, ResultInv, Result, Owners
  <2>6. CASE ValueFlags(p)
    BY <2>6 DEF ValueFlags, TypeOK, GetSeesResult, ResultInv, Result, Owners
  <2>7. CASE StoreException(p)
    BY <2>7 DEF StoreException, TypeOK, GetSeesResult, ResultInv, Result, Owners
  <2>8. CASE ExceptionFlags(p)
    BY <2>8 DEF ExceptionFlags, TypeOK, GetSeesResult, ResultInv, Result, Owners
  <2>9. CASE LoadVoid(p)
    BY <2>9 DEF LoadVoid, TypeOK, GetSeesResult, ResultInv, Result, Owners
  <2>10. CASE StoreVoid(p)
    BY <2>10 DEF StoreVoid, TypeOK, GetSeesResult, ResultInv, Result, Owners
  <2>11. CASE NotifyAll(p)
    BY <2>11 DEF NotifyAll, TypeOK, GetSeesResult, ResultInv, Result, Owners
  <2>12. CASE DropPromise(p)
    BY <2>12 DEF DropPromise, Drop, TypeOK, GetSeesResult, ResultInv, Result, Owners
  <2>13. CASE Leave(p) \/ ThrowAtThreadExit(p)
    BY <2>13 DEF Leave, ThrowAtThreadExit, TypeOK, GetSeesResult, ResultInv, Result, Owners
  <2>14. QED
    BY <2>1, <2>2, <2>3, <2>4, <2>5, <2>6, <2>7, <2>8, <2>9, <2>10, <2>11, <2>12, <2>13
       DEF SetStep
<1>9. BrokenWhenAllLeft'
  <2>1. CASE SetValue(p)
    BY <2>1 DEF SetValue, TypeOK, BrokenWhenAllLeft, ReadyInv, KindInv, OwnerInv, Owners
  <2>2. CASE SetException(p)
    BY <2>2 DEF SetException, TypeOK, BrokenWhenAllLeft, ReadyInv, KindInv, OwnerInv, Owners
  <2>3. CASE SetExceptionAtThreadExit(p)
    BY <2>3 DEF SetExceptionAtThreadExit, TypeOK, BrokenWhenAllLeft, ReadyInv, KindInv, OwnerInv,
                Owners
  <2>4. CASE Throw(p)
    BY <2>4 DEF Throw, TypeOK, BrokenWhenAllLeft, ReadyInv, KindInv, OwnerInv, Owners
  <2>5. CASE StoreValue(p)
    BY <2>5 DEF StoreValue, TypeOK, BrokenWhenAllLeft, ReadyInv, KindInv, OwnerInv, Owners
  <2>6. CASE ValueFlags(p)
    BY <2>6 DEF ValueFlags, TypeOK, BrokenWhenAllLeft, ReadyInv, KindInv, OwnerInv, Owners
  <2>7. CASE StoreException(p)
    BY <2>7 DEF StoreException, TypeOK, BrokenWhenAllLeft, ReadyInv, KindInv, OwnerInv, Owners
  <2>8. CASE ExceptionFlags(p)
    BY <2>8 DEF ExceptionFlags, TypeOK, BrokenWhenAllLeft, ReadyInv, KindInv, OwnerInv, Owners
  <2>9. CASE LoadVoid(p)
    BY <2>9 DEF LoadVoid, TypeOK, BrokenWhenAllLeft, ReadyInv, KindInv, OwnerInv, Owners
  <2>10. CASE StoreVoid(p)
    BY <2>10 DEF StoreVoid, TypeOK, BrokenWhenAllLeft, ReadyInv, KindInv, OwnerInv, Owners
  <2>11. CASE NotifyAll(p)
    BY <2>11 DEF NotifyAll, TypeOK, BrokenWhenAllLeft, ReadyInv, KindInv, OwnerInv, Owners
  <2>12. CASE DropPromise(p)
    <3>1. SUFFICES ASSUME ~IsVoid, refs \subseteq {Client, p}, ~is_ready
                   PROVE  ~ByTask /\ left = Setters
      BY <2>12 DEF DropPromise, Drop, BrokenWhenAllLeft, OwnerInv, Owners
    <3>2. pc[p] = "drop" /\ p \in left
      BY <2>12, <3>1 DEF DropPromise, ReadyInv
    <3>3. ~ByTask
      BY <3>2 DEF KindInv
    <3>4. ASSUME NEW q \in Setters PROVE q \in left
      <4>1. CASE q = p
        BY <3>2, <4>1
      <4>2. CASE q # p
        <5>1. pc[q] \in {"release", "done"}
          BY <3>1, <4>2 DEF OwnerInv, Owners
        <5>2. pc[q] # "release"
          BY <3>3 DEF KindInv, Owners, TypeOK
        <5>3. QED
          BY <3>1, <3>3, <5>1, <5>2 DEF ReadyInv
      <4>3. QED
        BY <4>1, <4>2
    <3>5. QED
      BY <3>3, <3>4 DEF TypeOK
  <2>13. CASE Leave(p) \/ ThrowAtThreadExit(p)
    <3>1. p \in Setters /\ left' = left \cup {p} /\ UNCHANGED <<kind, broken>>
      BY <2>13 DEF Leave, ThrowAtThreadExit, Owners
    <3>2. QED
      BY <3>1 DEF BrokenWhenAllLeft
  <2>14. QED
    BY <2>1, <2>2, <2>3, <2>4, <2>5, <2>6, <2>7, <2>8, <2>9, <2>10, <2>11, <2>12, <2>13
       DEF SetStep
<1>10. QED
  BY <1>1, <1>2, <1>3, <1>4, <1>5, <1>6, <1>7, <1>8, <1>9

LEMMA ReleaseInv == IInv /\ Release => IInv'
<1> SUFFICES ASSUME IInv, Release PROVE IInv'
  OBVIOUS
<1> USE DEF IInv, Release, commitment, task, history
<1>1. TypeOK'
  BY DEF TypeOK, SetterLabels, LatchInv
<1>2. MutexInv' /\ KindInv' /\ OwnerInv'
  BY DEF TypeOK, MutexInv, KindInv, OwnerInv, Owners
<1>3. LatchInv'
  BY DEF TypeOK, LatchInv
<1>4. ResultInv'
  BY DEF TypeOK, ResultInv, Result, Owners
<1>5. ReadyInv' /\ GetSeesResult' /\ BrokenWhenAllLeft'
  BY DEF TypeOK, ReadyInv, GetSeesResult, BrokenWhenAllLeft, Owners
<1>6. QED
  BY <1>1, <1>2, <1>3, <1>4, <1>5

LEMMA StepInv == IInv /\ [Next]_vars => IInv'
<1> SUFFICES ASSUME IInv, [Next]_vars PROVE IInv'
  OBVIOUS
<1>1. CASE Next
  BY <1>1, ClientInv, SetterInv, ReleaseInv DEF Next, Owners
<1>2. CASE UNCHANGED vars
  BY <1>2 DEF vars, IInv, TypeOK, MutexInv, KindInv, OwnerInv, LatchInv, ResultInv, Result,
              ReadyInv, GetSeesResult, BrokenWhenAllLeft
<1>3. QED
  BY <1>1, <1>2

(* The mutex, the owners, the latch and the flags agree in every state. *)
THEOREM CommitmentInvariant == Spec => []IInv
<1>1. QED
  BY InitInv, StepInv, PTL DEF Spec

(* The variables of a commitment keep their types, and its task group's latch
   stays within its two references. *)
THEOREM CommitmentTypeCorrect == Spec => []TypeOK
<1>1. IInv => TypeOK
  BY DEF IInv
<1>2. QED
  BY <1>1, CommitmentInvariant, PTL

(* get() returns a result that was completely stored, although wait() may see
   the ready flag without the mutex. *)
THEOREM ResultIsComplete == Spec => []GetSeesResult
<1>1. IInv => GetSeesResult
  BY DEF IInv
<1>2. QED
  BY <1>1, CommitmentInvariant, PTL

(* No destructor reports a promise broken that its owners have kept. *)
THEOREM PromiseIsKept == Spec => []BrokenWhenAllLeft
<1>1. IInv => BrokenWhenAllLeft
  BY DEF IInv
<1>2. QED
  BY <1>1, CommitmentInvariant, PTL

(* A client that did wait for the task group frees it only after the job made
   its last access to it. *)
THEOREM JoinedGroupOutlivesJob == Spec => []JoinOutlivesJob
<1>1. IInv => JoinOutlivesJob
  BY DEF IInv, LatchInv, JoinOutlivesJob
<1>2. QED
  BY <1>1, CommitmentInvariant, PTL

(* Once a commitment is ready, no other owner of the promise changes it. *)
THEOREM FirstSetIsKept == Spec => FirstSetWins
<1> USE DEF commitment, task, history
<1>1. ASSUME IInv, Next, is_ready, ~IsVoid
      PROVE  stored' = stored /\ is_ready' /\ ex' = ex
  <2>1. CASE \E p \in Owners : SetStep(p) \/ SetExceptionAtThreadExit(p)
    BY <1>1, <2>1 DEF IInv, MutexInv, Owners, SetStep, SetValue, SetException,
       SetExceptionAtThreadExit, Leave, ThrowAtThreadExit, Throw,
       StoreValue, ValueFlags, StoreException, ExceptionFlags, LoadVoid, StoreVoid,
       NotifyAll, DropPromise
  <2>2. CASE StoreFuture
    BY <1>1, <2>2 DEF StoreFuture, IInv, ReadyInv
  <2>3. CASE ClientStep /\ ~StoreFuture
    BY <1>1, <2>3 DEF ClientStep, Async, LoadFuture, GetReady, GetNotReady, GroupWait,
                GroupWaitReturn, Lock, TestReady, TestNotReady, Sleep, Take
  <2>4. CASE SpuriousWakeup \/ DropFuture \/ Release
    BY <1>1, <2>4 DEF SpuriousWakeup, DropFuture, Drop, Release
  <2>5. QED
    BY <1>1, <2>1, <2>2, <2>3, <2>4 DEF Next, Owners
<1>2. IInv /\ [Next]_vars =>
        [is_ready /\ ~IsVoid => stored' = stored /\ is_ready'
                                /\ (ex' # ex => "except" \notin state)]_vars
  BY <1>1
<1>3. QED
  BY <1>2, CommitmentInvariant, PTL DEF Spec, FirstSetWins

---------------------------------------------------------------------------
(* ouro::event, the other object that threads share by a mutex and a
   condition variable: for any threads, flags, times and both kinds of event
   no wakeup is lost and no timed wait gives up early. *)

HIDE FutureAssumption DEF Threads, Goto, has_task, is_ready, IsVoid, ByTask

USE EventAssumption DEF EventThreads, EventGoto

(* Between its test and its sleep a waiter's flags stay unset: it holds the
   mutex, and set() needs it to write the mask. *)
SleepInv ==
  ~do_auto_reset => \A w \in Waiters : event_pc[w] = "sleep" => ~Satisfied(w)

(* The deadline of a wait was computed after the call. *)
TimeInv ==
  \A w \in Waiters :
    /\ called[w] <= now
    /\ timed[w] /\ event_pc[w] = "asleep" => wakeup[w] >= called[w] + Timeout

(* The inductive invariant *)
EventIInv == EventTypeOK /\ SleepInv /\ TimeInv /\ NoLostWakeup

Setting(s) == SetterStep(s) \/ \E m \in Masks : SetCall(s, m)

Waiting(w) ==
  \/ WaiterStep(w) \/ WaitSpuriousWakeup(w) \/ TimeOut(w)
  \/ \E m \in Masks, a \in BOOLEAN, t \in BOOLEAN : WaitCall(w, m, a, t)

LEMMA EventInitInv == EventInit => EventIInv
<1> SUFFICES ASSUME EventInit PROVE EventIInv
  OBVIOUS
<1> USE DEF EventInit
<1>1. EventTypeOK
  BY DEF EventTypeOK
<1>2. SleepInv /\ TimeInv /\ NoLostWakeup
  BY DEF SleepInv, TimeInv, NoLostWakeup, Asleep
<1>3. QED
  BY <1>1, <1>2 DEF EventIInv

(* A flag that is taken away satisfies nobody. *)
LEMMA ResetUnsatisfies ==
  ASSUME NEW w \in Waiters, set_mask' \subseteq set_mask,
         mask'[w] = mask[w], any'[w] = any[w], Satisfied(w)'
  PROVE  Satisfied(w)
  BY DEF Satisfied, is_set, is_any_set

(* What set() and reset() preserve *)
LEMMA SettingInv ==
  ASSUME EventIInv, NEW s \in EventSetters, Setting(s)
  PROVE  EventIInv'
<1> USE DEF EventIInv
<1>1. EventTypeOK'
  <2> USE DEF EventTypeOK, args
  <2>1. CASE \E m \in Masks : SetCall(s, m)
    BY <2>1 DEF SetCall, Masks, Asleep
  <2>2. CASE Or(s)
    BY <2>2 DEF Or
  <2>3. CASE SetNotifyAll(s)
    <3>1. event_pc' \in [EventThreads -> {"idle", "or", "notify_all", "notify_one", "set_done",
                               "test", "sleep", "asleep", "relock"}]
      BY <2>3 DEF SetNotifyAll
    <3>2. \A w \in Waiters : \/ event_pc'[w] = event_pc[w]
                             \/ event_pc[w] = "asleep" /\ event_pc'[w] = "relock"
      BY <2>3 DEF SetNotifyAll, Asleep
    <3>3. QED
      BY <2>3, <3>1, <3>2 DEF SetNotifyAll
  <2>4. CASE SetNotifyOne(s)
    BY <2>4 DEF SetNotifyOne, Asleep
  <2>5. CASE SetReturn(s)
    BY <2>5 DEF SetReturn
  <2>6. QED
    BY <2>1, <2>2, <2>3, <2>4, <2>5 DEF Setting, SetterStep
<1>2. CASE \E m \in Masks : SetCall(s, m)
  BY <1>1, <1>2 DEF SetCall, EventTypeOK, SleepInv, TimeInv, NoLostWakeup, Satisfied,
                    is_set, is_any_set, Asleep
<1>3. CASE Or(s)
  <2>1. /\ event_pc'[s] = "notify_all"
        /\ \A w \in Waiters : event_pc'[w] = event_pc[w] /\ event_pc[w] # "sleep"
    BY <1>3 DEF Or, EventTypeOK
  <2>2. SleepInv' /\ NoLostWakeup'
    BY <2>1 DEF SleepInv, NoLostWakeup
  <2>3. TimeInv'
    BY <1>3, <2>1 DEF Or, args, TimeInv
  <2>4. QED
    BY <1>1, <2>2, <2>3
<1>4. CASE SetNotifyAll(s)
  <2>1. Asleep' = {} /\ \A w \in Waiters : event_pc'[w] = "sleep" => event_pc[w] = "sleep"
    BY <1>4 DEF SetNotifyAll, Asleep, EventTypeOK
  <2>2. NoLostWakeup'
    BY <2>1 DEF NoLostWakeup
  <2>3. SleepInv' /\ TimeInv'
    BY <1>4, <2>1 DEF SetNotifyAll, args, SleepInv, TimeInv, Satisfied, is_set,
                      is_any_set, Asleep
  <2>4. QED
    BY <1>1, <2>2, <2>3
<1>5. CASE SetNotifyOne(s) \/ SetReturn(s)
  <2>1. \A p \in EventThreads : p # s => \/ event_pc'[p] = event_pc[p]
                                         \/ event_pc[p] = "asleep" /\ event_pc'[p] = "relock"
    BY <1>5 DEF SetNotifyOne, SetReturn, Asleep, EventTypeOK
  <2>2. event_pc[s] # "notify_all"
    BY <1>5 DEF SetNotifyOne, SetReturn
  <2>3. /\ UNCHANGED <<set_mask, do_auto_reset, any, timed, called, wakeup, now>>
        /\ \A w \in Waiters : mask'[w] = mask[w]
    BY <1>5 DEF SetNotifyOne, SetReturn, args, EventTypeOK
  <2>4. \A w \in Waiters : Satisfied(w)' = Satisfied(w)
    BY <2>3 DEF Satisfied, is_set, is_any_set
  <2>5. SleepInv'
    BY <2>1, <2>3, <2>4 DEF SleepInv
  <2>6. TimeInv'
    BY <2>1, <2>3 DEF TimeInv
  <2>7. NoLostWakeup'
    <3>1. SUFFICES ASSUME ~do_auto_reset, NEW w \in Asleep', Satisfied(w)'
                   PROVE  \E q \in EventSetters : event_pc'[q] = "notify_all"
      BY <2>3 DEF NoLostWakeup
    <3>2. w \in Asleep
      BY <2>1 DEF Asleep
    <3>3. PICK q \in EventSetters : event_pc[q] = "notify_all"
      BY <2>4, <3>1, <3>2 DEF NoLostWakeup, Asleep
    <3>4. QED
      BY <2>1, <2>2, <3>3
  <2>8. QED
    BY <1>1, <2>5, <2>6, <2>7
<1>6. QED
  BY <1>2, <1>3, <1>4, <1>5 DEF Setting, SetterStep

LEMMA ResetInv ==
  ASSUME EventIInv, NEW r \in Resetters, NEW m \in Masks, Reset(r, m)
  PROVE  EventIInv'
<1> USE DEF EventIInv, Reset, args
<1>1. EventTypeOK'
  BY DEF EventTypeOK, Masks
<1>2. \A w \in Waiters : Satisfied(w)' => Satisfied(w)
  BY ResetUnsatisfies
<1>3. SleepInv'
  BY <1>2 DEF SleepInv
<1>4. NoLostWakeup'
  BY <1>2 DEF NoLostWakeup, Asleep
<1>5. TimeInv'
  BY DEF TimeInv
<1>6. QED
  BY <1>1, <1>3, <1>4, <1>5

(* A step of a waiter changes no mask of the event and no other thread; it goes
   to sleep only from the label that the test has led it to. *)
LEMMA WaitingInv ==
  ASSUME EventIInv, NEW w \in Waiters, Waiting(w)
  PROVE  EventIInv'
<1> USE DEF EventIInv
<1>1. EventTypeOK'
  <2>1. CASE TestSatisfied(w)
    BY <2>1 DEF TestSatisfied, WaitReturn, EventTypeOK, args
  <2>2. CASE TestUnsatisfied(w)
    BY <2>2 DEF TestUnsatisfied, EventTypeOK, args
  <2>3. CASE WaitSleep(w)
    BY <2>3 DEF WaitSleep, EventTypeOK, args
  <2>4. CASE Relock(w) \/ WaitSpuriousWakeup(w)
    BY <2>4 DEF Relock, WaitSpuriousWakeup, EventTypeOK, args
  <2>5. CASE TimeOut(w)
    BY <2>5 DEF TimeOut, WaitReturn, EventTypeOK, args
  <2>6. CASE \E m \in Masks, a \in BOOLEAN, t \in BOOLEAN : WaitCall(w, m, a, t)
    <3>1. PICK m \in Masks, a \in BOOLEAN, t \in BOOLEAN : WaitCall(w, m, a, t)
      BY <2>6
    <3>2. QED
      BY <3>1 DEF WaitCall, Masks, EventTypeOK, args
  <2>7. QED
    BY <2>1, <2>2, <2>3, <2>4, <2>5, <2>6 DEF Waiting, WaiterStep
<1>2. /\ UNCHANGED <<set_mask, do_auto_reset, now>>
      /\ \A p \in EventThreads : p # w => event_pc'[p] = event_pc[p] /\ mask'[p] = mask[p]
      /\ \A v \in Waiters : v # w => /\ any'[v] = any[v] /\ timed'[v] = timed[v]
                                     /\ called'[v] = called[v] /\ wakeup'[v] = wakeup[v]
  BY DEF Waiting, WaiterStep, TestSatisfied, TestUnsatisfied, WaitReturn, WaitSleep,
         Relock, WaitSpuriousWakeup, TimeOut, WaitCall, args, EventTypeOK
<1>3. \A v \in Waiters : v # w => Satisfied(v)' = Satisfied(v)
  BY <1>2 DEF Satisfied, is_set, is_any_set
<1>4. event_pc'[w] = "sleep" => ~Satisfied(w)'
  BY DEF Waiting, WaiterStep, TestSatisfied, TestUnsatisfied, WaitReturn, WaitSleep,
         Relock, WaitSpuriousWakeup, TimeOut, WaitCall, args, EventTypeOK,
         Satisfied, is_set, is_any_set
<1>5. event_pc'[w] = "asleep" => WaitSleep(w)
  BY DEF Waiting, WaiterStep, TestSatisfied, TestUnsatisfied, WaitReturn, WaitSleep,
         Relock, WaitSpuriousWakeup, TimeOut, WaitCall, EventTypeOK
<1>6. SleepInv'
  BY <1>2, <1>3, <1>4 DEF SleepInv
<1>7. NoLostWakeup'
  <2>1. event_pc'[w] = "asleep" /\ ~do_auto_reset => ~Satisfied(w)'
    BY <1>5 DEF WaitSleep, SleepInv, Satisfied, is_set, is_any_set, args
  <2>2. SUFFICES ASSUME ~do_auto_reset, NEW v \in Waiters, event_pc'[v] = "asleep",
                        Satisfied(v)'
                 PROVE  \E s \in EventSetters : event_pc'[s] = "notify_all"
    BY <1>2 DEF NoLostWakeup, Asleep
  <2>3. v # w /\ Satisfied(v) /\ v \in Asleep
    BY <1>2, <1>3, <2>1, <2>2 DEF Asleep
  <2>4. PICK s \in EventSetters : event_pc[s] = "notify_all"
    BY <2>2, <2>3 DEF NoLostWakeup
  <2>5. QED
    BY <1>2, <2>4
<1>8. TimeInv'
  <2>1. called'[w] \in {called[w], 0, now}
    BY DEF Waiting, WaiterStep, TestSatisfied, TestUnsatisfied, WaitReturn, WaitSleep,
           Relock, WaitSpuriousWakeup, TimeOut, WaitCall, args, EventTypeOK
  <2>2. timed'[w] /\ event_pc'[w] = "asleep" => wakeup'[w] >= called'[w] + Timeout
    BY <1>5 DEF WaitSleep, args, EventTypeOK, TimeInv
  <2>3. QED
    BY <1>2, <2>1, <2>2 DEF TimeInv, EventTypeOK
<1>9. QED
  BY <1>1, <1>6, <1>7, <1>8

LEMMA TickInv == EventIInv /\ Tick => EventIInv'
<1> SUFFICES ASSUME EventIInv, Tick PROVE EventIInv'
  OBVIOUS
<1> USE DEF EventIInv, Tick, args
<1>1. EventTypeOK' /\ TimeInv'
  BY DEF EventTypeOK, TimeInv
<1>2. SleepInv' /\ NoLostWakeup'
  BY DEF SleepInv, NoLostWakeup, Satisfied, is_set, is_any_set, Asleep
<1>3. QED
  BY <1>1, <1>2

LEMMA EventStepInv == EventIInv /\ [EventNext]_event_vars => EventIInv'
<1> SUFFICES ASSUME EventIInv, [EventNext]_event_vars PROVE EventIInv'
  OBVIOUS
<1>1. CASE EventNext
  BY <1>1, SettingInv, ResetInv, WaitingInv, TickInv DEF EventNext, Setting, Waiting
<1>2. CASE UNCHANGED event_vars
  BY <1>2 DEF event_vars, EventIInv, EventTypeOK, SleepInv, TimeInv, NoLostWakeup,
              Satisfied, is_set, is_any_set, Asleep
<1>3. QED
  BY <1>1, <1>2

(* The mutex, the labels and the times of all threads agree, and the parts of
   the argument above hold in every state. *)
THEOREM EventInvariant == EventSpec => []EventIInv
<1>1. QED
  BY EventInitInv, EventStepInv, PTL DEF EventSpec

(* The variables keep their types; a waiter holds the mutex just between its
   test and its sleep. *)
THEOREM EventTypeCorrect == EventSpec => []EventTypeOK
<1>1. EventIInv => EventTypeOK
  BY DEF EventIInv
<1>2. QED
  BY <1>1, EventInvariant, PTL

(* No waiter sleeps on flags that are set unless it is about to be notified,
   although set() tests the mask without the mutex. *)
THEOREM WakeupIsNotLost == EventSpec => []NoLostWakeup
<1>1. EventIInv => NoLostWakeup
  BY DEF EventIInv
<1>2. QED
  BY <1>1, EventInvariant, PTL

(* A timed wait that gives up has slept for its whole time. *)
THEOREM TimeoutIsNotEarly == EventSpec => NeverEarly
<1>1. ASSUME EventIInv, [EventNext]_event_vars, NEW w \in Waiters,
             event_pc[w] = "asleep", event_pc'[w] = "idle"
      PROVE  now >= called[w] + Timeout
  <2>1. TimeOut(w)
    BY <1>1 DEF EventNext, SetterStep, SetCall, Or, SetNotifyAll, SetNotifyOne,
                SetReturn, Reset, WaiterStep, TestSatisfied, TestUnsatisfied, WaitReturn,
                WaitSleep, Relock, WaitSpuriousWakeup, TimeOut, WaitCall, Tick, event_vars,
                args, EventIInv, EventTypeOK, Asleep
  <2>2. QED
    BY <1>1, <2>1 DEF TimeOut, EventIInv, TimeInv, EventTypeOK
<1>2. EventIInv /\ [EventNext]_event_vars =>
        \A w \in Waiters : event_pc[w] = "asleep" /\ event_pc'[w] = "idle" =>
                             now >= called[w] + Timeout
  BY <1>1
<1>3. QED
  BY <1>2, EventInvariant, PTL DEF EventSpec, NeverEarly
=============================================================================
