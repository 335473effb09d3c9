---------------------------- MODULE TaskGroup_proofs ----------------------------
(***************************************************************************)
(* Safety of fork and join for any workers, clients and tasks, however     *)
(* they nest: wait() is exact, a group outlives its tasks, reference() is  *)
(* never late and a cancel ends with its batch. The stacks play no part in *)
(* the argument: where a frame is matters, not which thread runs it.       *)
(***************************************************************************)
EXTENDS TaskGroup, FiniteSetTheorems, TLAPS

USE SetsAssumption, ForkAssumption DEF Frames, Threads, Goto

(* The tasks that have a reference to the latch of f's group *)
Held(t) == pc[t] \notin {"new", "dropped", "unlock", "done"}
Holding(f) == {t \in Owned(f) : Held(t)}

(* The reference of the constructor, which wait() gives up for a time *)
OwnReference(f) ==
  IF pc[f] \in {"test", "steal", "latchwait", "latchsleep", "reset"} THEN 0 ELSE 1

CountInv ==
  \A f \in Frames : num_outstanding[f] = OwnReference(f) + Cardinality(Holding(f))

(* A task is queued once, by the frame that runs it. *)
QueueInv ==
  /\ \A i \in 1..Len(global_queue) : pc[global_queue[i]] = "queued"
  /\ \A i, j \in 1..Len(global_queue) : i # j => global_queue[i] # global_queue[j]
  /\ \A f \in Frames : arg[f] # None <=> pc[f] = "push"
  /\ \A f \in Frames : arg[f] # None =>
       /\ RunBy[arg[f]] = f /\ pc[arg[f]] = "queued"
       /\ \A i \in 1..Len(global_queue) : global_queue[i] # arg[f]

(* A task that has released still holds the mutex of the latch. *)
LatchInv == \A t \in Tasks : pc[t] = "unlock" => latch_mtx[Into[t]] = t

(* The count that Test reads as zero stays zero, since no frame is left that
   could run a task in the group, and reset() waits for the last unlock. *)
SettledInv ==
  /\ \A t \in Tasks : /\ pc[Into[t]] = "reset" => ~Held(t)
                      /\ pc[Into[t]] \in {"uncancel", "waited"} => ~InFlight(t)
  /\ CancelEnds

(* A frame that uses its group has one, and so has every task in flight. *)
AliveInv ==
  /\ \A t \in Tasks : pc[Into[t]] \notin {"new", "queued", "dropped", "lambda", "exit",
                                          "release", "unlock", "done"} => alive[Into[t]]
  /\ GroupOutlivesTasks

IInv == TypeOK /\ CountInv /\ QueueInv /\ LatchInv /\ SettledInv /\ AliveInv

LEMMA InitInv == Init => IInv
<1> SUFFICES ASSUME Init PROVE IInv
  OBVIOUS
<1>1. TypeOK
  <2>1. stack \in [Threads -> Seq(Frames)]
    <3>1. \A p \in Threads : stack[p] \in Seq(Frames)
      <4>1. SUFFICES ASSUME NEW p \in Threads PROVE stack[p] \in Seq(Frames)
        OBVIOUS
      <4>2. CASE p \in Clients
        <5>1. stack[p] = <<p>> /\ p \in Frames
          BY <4>2 DEF Init
        <5>2. QED
          BY <5>1
      <4>3. CASE p \notin Clients
        BY <4>3 DEF Init
      <4>4. QED
        BY <4>2, <4>3
    <3>2. QED
      BY <3>1 DEF Init
  <2>2. pc \in [Frames -> Labels] /\ arg \in [Frames -> Tasks \cup {None}]
    BY DEF Init, Labels
  <2>3. num_outstanding \in [Frames -> Nat] /\ latch_mtx \in [Frames -> Tasks \cup {None}]
    BY DEF Init
  <2>4. /\ canceling \in [Frames -> BOOLEAN] /\ alive \in [Frames -> BOOLEAN]
    BY DEF Init
  <2>5. /\ global_queue \in Seq(Tasks) /\ asleep \in SUBSET Workers /\ woken \in SUBSET Workers
        /\ destroying \in SUBSET Frames
    BY DEF Init
  <2>6. late \in BOOLEAN
    BY Zenon DEF Init
  <2>7. QED
    BY <2>1, <2>2, <2>3, <2>4, <2>5, <2>6 DEF TypeOK
<1>2. CountInv
  <2>1. \A f \in Frames : Holding(f) = {}
    BY DEF Init, Holding, Held, Owned
  <2>2. \A f \in Frames : OwnReference(f) = 1 /\ num_outstanding[f] = 1
    BY DEF Init, OwnReference
  <2>3. QED
    BY <2>1, <2>2, FS_EmptySet DEF CountInv
<1>3. QueueInv /\ LatchInv
  BY DEF Init, QueueInv, LatchInv
<1>4. SettledInv /\ AliveInv
  BY DEF Init, SettledInv, CancelEnds, AliveInv, GroupOutlivesTasks, Held, InFlight
<1>5. QED
  BY <1>1, <1>2, <1>3, <1>4 DEF IInv

LEMMA HoldingIsFinite ==
  ASSUME NEW f \in Frames
  PROVE  /\ IsFiniteSet(Holding(f)) /\ Cardinality(Holding(f)) \in Nat
         /\ Cardinality(Holding(f)) = 0 <=> Holding(f) = {}
<1>1. Holding(f) \in SUBSET Tasks
  BY DEF Holding, Owned
<1>2. QED
  BY <1>1, FS_Subset, FS_CardinalityType, FS_EmptySet

LEMMA HeadIsQueued ==
  ASSUME TypeOK, QueueInv, global_queue # <<>>
  PROVE  /\ Head(global_queue) \in Tasks /\ pc[Head(global_queue)] = "queued"
         /\ Head(global_queue) = global_queue[1] /\ Len(global_queue) >= 1
  BY DEF TypeOK, QueueInv

(* What every step that moves no reference preserves *)
LEMMA SameCount ==
  ASSUME CountInv, UNCHANGED num_outstanding,
         \A t \in Tasks : Held(t)' = Held(t),
         \A f \in Frames : OwnReference(f)' = OwnReference(f)
  PROVE  CountInv'
<1>1. \A f \in Frames : Holding(f)' = Holding(f)
  BY DEF Holding, Owned
<1>2. QED
  BY <1>1 DEF CountInv

(* What the workers preserve *)
LEMMA WorkerInv ==
  ASSUME IInv, NEW w \in Workers, WorkerStep(w) \/ SpuriousWakeup(w)
  PROVE  IInv'
<1> USE DEF IInv, pool, group, OnTop
<1>1. TypeOK'
  <2>1. CASE Take(w)
    BY <2>1, HeadIsQueued DEF Take, Start, TypeOK, Labels
  <2>2. CASE Sleep(w)
    BY <2>2 DEF Sleep, TypeOK, Labels
  <2>3. CASE Rewake(w)
    BY <2>3 DEF Rewake, TypeOK, Labels
  <2>4. CASE SpuriousWakeup(w)
    BY <2>4 DEF SpuriousWakeup, TypeOK, Labels
  <2>5. QED
    BY <2>1, <2>2, <2>3, <2>4 DEF WorkerStep
<1>2. QueueInv'
  <2>1. CASE Take(w)
    BY <2>1, HeadIsQueued DEF Take, Start, TypeOK, QueueInv
  <2>2. CASE Sleep(w)
    BY <2>2 DEF Sleep, TypeOK, QueueInv
  <2>3. CASE Rewake(w)
    BY <2>3 DEF Rewake, TypeOK, QueueInv
  <2>4. CASE SpuriousWakeup(w)
    BY <2>4 DEF SpuriousWakeup, TypeOK, QueueInv
  <2>5. QED
    BY <2>1, <2>2, <2>3, <2>4 DEF WorkerStep
<1>3. LatchInv'
  <2>1. CASE Take(w)
    BY <2>1, HeadIsQueued DEF Take, Start, TypeOK, LatchInv
  <2>2. CASE Sleep(w)
    BY <2>2 DEF Sleep, TypeOK, LatchInv
  <2>3. CASE Rewake(w)
    BY <2>3 DEF Rewake, TypeOK, LatchInv
  <2>4. CASE SpuriousWakeup(w)
    BY <2>4 DEF SpuriousWakeup, TypeOK, LatchInv
  <2>5. QED
    BY <2>1, <2>2, <2>3, <2>4 DEF WorkerStep
<1>4. CountInv'
  <2>1. CASE Take(w)
    BY <2>1, HeadIsQueued, SameCount DEF Take, Start, TypeOK, Held, OwnReference
  <2>2. CASE Sleep(w)
    BY <2>2, SameCount DEF Sleep, TypeOK, Held, OwnReference, QueueInv
  <2>3. CASE Rewake(w)
    BY <2>3, SameCount DEF Rewake, TypeOK, Held, OwnReference, QueueInv
  <2>4. CASE SpuriousWakeup(w)
    BY <2>4, SameCount DEF SpuriousWakeup, TypeOK, Held, OwnReference, QueueInv
  <2>5. QED
    BY <2>1, <2>2, <2>3, <2>4 DEF WorkerStep
<1>5. SettledInv'
  <2>1. CASE Take(w)
    BY <2>1, HeadIsQueued DEF Take, Start, TypeOK, SettledInv, CancelEnds, Held, InFlight
  <2>2. CASE Sleep(w)
    BY <2>2 DEF Sleep, TypeOK, SettledInv, CancelEnds, Held, InFlight
  <2>3. CASE Rewake(w)
    BY <2>3 DEF Rewake, TypeOK, SettledInv, CancelEnds, Held, InFlight
  <2>4. CASE SpuriousWakeup(w)
    BY <2>4 DEF SpuriousWakeup, TypeOK, SettledInv, CancelEnds, Held, InFlight
  <2>5. QED
    BY <2>1, <2>2, <2>3, <2>4 DEF WorkerStep
<1>6. AliveInv'
  <2>1. CASE Take(w)
    BY <2>1, HeadIsQueued DEF Take, Start, TypeOK, AliveInv, GroupOutlivesTasks, InFlight
  <2>2. CASE Sleep(w)
    BY <2>2 DEF Sleep, TypeOK, AliveInv, GroupOutlivesTasks, InFlight
  <2>3. CASE Rewake(w)
    BY <2>3 DEF Rewake, TypeOK, AliveInv, GroupOutlivesTasks, InFlight
  <2>4. CASE SpuriousWakeup(w)
    BY <2>4 DEF SpuriousWakeup, TypeOK, AliveInv, GroupOutlivesTasks, InFlight
  <2>5. QED
    BY <2>1, <2>2, <2>3, <2>4 DEF WorkerStep
<1>7. QED
  BY <1>1, <1>2, <1>3, <1>4, <1>5, <1>6

(* What a frame preserves that uses its group *)
LEMMA FrameInv ==
  ASSUME IInv, NEW p \in Threads, NEW f \in Frames,
         (FrameStep(p, f) /\ \A t \in Tasks : ~Run(p, f, t)) \/ LatchSpuriousWakeup(p, f)
  PROVE  IInv'
<1> USE DEF IInv, pool, group, OnTop
<1>1. TypeOK'
  <2>1. CASE Push(p, f)
    <3>1. arg[f] \in Tasks
      BY <2>1 DEF Push, TypeOK, QueueInv
    <3>2. QED
      BY <2>1, <3>1 DEF Push, NotifyOne, TypeOK, Labels
  <2>2. CASE WaitCall(p, f)
    BY <2>2 DEF WaitCall, TypeOK, Labels
  <2>3. CASE NoGroup(p, f)
    BY <2>3 DEF NoGroup, TypeOK, Labels
  <2>4. CASE WaitRelease(p, f)
    <3>1. OwnReference(f) = 1
      BY <2>4 DEF WaitRelease, OwnReference
    <3>2. num_outstanding[f] - 1 \in Nat
      BY <3>1, HoldingIsFinite DEF CountInv
    <3>3. QED
      BY <2>4, <3>2 DEF WaitRelease, TypeOK, Labels
  <2>5. CASE Test(p, f)
    BY <2>5 DEF Test, TypeOK, Labels
  <2>6. CASE StealNothing(p, f)
    BY <2>6 DEF StealNothing, TypeOK, Labels
  <2>7. CASE Steal(p, f)
    <3>1. stack' \in [Threads -> Seq(Frames)] /\ global_queue' \in Seq(Tasks)
      BY <2>7, HeadIsQueued DEF Steal, Start, TypeOK
    <3>2. pc' \in [Frames -> Labels]
      BY <2>7, HeadIsQueued DEF Steal, TypeOK, Labels
    <3>3. QED
      BY <2>7, <3>1, <3>2 DEF Steal, TypeOK
  <2>8. CASE LatchWait(p, f)
    BY <2>8 DEF LatchWait, TypeOK, Labels
  <2>9. CASE LatchSpuriousWakeup(p, f)
    BY <2>9 DEF LatchSpuriousWakeup, TypeOK, Labels
  <2>10. CASE Reset(p, f)
    BY <2>10 DEF Reset, TypeOK, Labels
  <2>11. CASE Uncancel(p, f)
    <3>1. pc' = [pc EXCEPT ![f] = "exit"] \/ pc' = [pc EXCEPT ![f] = "waited"]
      BY <2>11, Zenon DEF Uncancel
    <3>2. alive' \in [Frames -> BOOLEAN] /\ canceling' \in [Frames -> BOOLEAN]
      <4>1. alive \in [Frames -> BOOLEAN] /\ canceling \in [Frames -> BOOLEAN]
        BY DEF TypeOK
      <4>2. alive' \in [Frames -> BOOLEAN]
        <5>1. alive' = [alive EXCEPT ![f] = FALSE] \/ alive' = alive
          BY <2>11, Zenon DEF Uncancel
        <5>2. CASE alive' = [alive EXCEPT ![f] = FALSE]
          BY <4>1, <5>2, ZenonT(40)
        <5>3. CASE alive' = alive
          BY <4>1, <5>3
        <5>4. QED
          BY <5>1, <5>2, <5>3
      <4>3. canceling' \in [Frames -> BOOLEAN]
        BY <2>11, <4>1, ZenonT(40) DEF Uncancel
      <4>4. QED
        BY <4>2, <4>3
    <3>3. QED
      BY <2>11, <3>1, <3>2 DEF Uncancel, TypeOK, Labels
  <2>12. CASE WaitReturn(p, f)
    BY <2>12 DEF WaitReturn, TypeOK, Labels
  <2>13. QED
    BY <2>1, <2>2, <2>3, <2>4, <2>5, <2>6, <2>7, <2>8, <2>9, <2>10, <2>11, <2>12 DEF FrameStep
<1>2. QueueInv'
  <2>1. CASE Push(p, f)
    BY <2>1 DEF Push, TypeOK, QueueInv
  <2>2. CASE WaitCall(p, f)
    BY <2>2 DEF WaitCall, TypeOK, QueueInv
  <2>3. CASE NoGroup(p, f)
    BY <2>3 DEF NoGroup, TypeOK, QueueInv
  <2>4. CASE WaitRelease(p, f)
    BY <2>4 DEF WaitRelease, TypeOK, QueueInv
  <2>5. CASE Test(p, f)
    BY <2>5 DEF Test, TypeOK, QueueInv
  <2>6. CASE StealNothing(p, f)
    BY <2>6 DEF StealNothing, TypeOK, QueueInv
  <2>7. CASE Steal(p, f)
    BY <2>7, HeadIsQueued DEF Steal, Start, TypeOK, QueueInv
  <2>8. CASE LatchWait(p, f)
    BY <2>8 DEF LatchWait, TypeOK, QueueInv
  <2>9. CASE LatchSpuriousWakeup(p, f)
    BY <2>9 DEF LatchSpuriousWakeup, TypeOK, QueueInv
  <2>10. CASE Reset(p, f)
    BY <2>10 DEF Reset, TypeOK, QueueInv
  <2>11. CASE Uncancel(p, f)
    BY <2>11 DEF Uncancel, TypeOK, QueueInv
  <2>12. CASE WaitReturn(p, f)
    BY <2>12 DEF WaitReturn, TypeOK, QueueInv
  <2>13. QED
    BY <2>1, <2>2, <2>3, <2>4, <2>5, <2>6, <2>7, <2>8, <2>9, <2>10, <2>11, <2>12 DEF FrameStep
<1>3. LatchInv'
  <2>1. CASE Push(p, f)
    BY <2>1 DEF Push, TypeOK, LatchInv
  <2>2. CASE WaitCall(p, f)
    BY <2>2 DEF WaitCall, TypeOK, LatchInv
  <2>3. CASE NoGroup(p, f)
    BY <2>3 DEF NoGroup, TypeOK, LatchInv
  <2>4. CASE WaitRelease(p, f)
    BY <2>4 DEF WaitRelease, TypeOK, LatchInv
  <2>5. CASE Test(p, f)
    BY <2>5 DEF Test, TypeOK, LatchInv
  <2>6. CASE StealNothing(p, f)
    BY <2>6 DEF StealNothing, TypeOK, LatchInv
  <2>7. CASE Steal(p, f)
    BY <2>7, HeadIsQueued DEF Steal, Start, TypeOK, LatchInv
  <2>8. CASE LatchWait(p, f)
    BY <2>8 DEF LatchWait, TypeOK, LatchInv
  <2>9. CASE LatchSpuriousWakeup(p, f)
    BY <2>9 DEF LatchSpuriousWakeup, TypeOK, LatchInv
  <2>10. CASE Reset(p, f)
    BY <2>10 DEF Reset, TypeOK, LatchInv
  <2>11. CASE Uncancel(p, f)
    BY <2>11 DEF Uncancel, TypeOK, LatchInv
  <2>12. CASE WaitReturn(p, f)
    BY <2>12 DEF WaitReturn, TypeOK, LatchInv
  <2>13. QED
    BY <2>1, <2>2, <2>3, <2>4, <2>5, <2>6, <2>7, <2>8, <2>9, <2>10, <2>11, <2>12 DEF FrameStep
<1>4. CountInv'
  <2>1. CASE Push(p, f)
    BY <2>1, SameCount DEF Push, TypeOK, Held, OwnReference, QueueInv
  <2>2. CASE WaitCall(p, f)
    BY <2>2, SameCount DEF WaitCall, TypeOK, Held, OwnReference, QueueInv
  <2>3. CASE NoGroup(p, f)
    BY <2>3, SameCount DEF NoGroup, TypeOK, Held, OwnReference, QueueInv
  <2>4. CASE WaitRelease(p, f)
    <3>1. \A g \in Frames : Holding(g)' = Holding(g)
      BY <2>4 DEF WaitRelease, TypeOK, Holding, Held, Owned
    <3>2. \A g \in Frames \ {f} : OwnReference(g)' = OwnReference(g)
      BY <2>4 DEF WaitRelease, TypeOK, OwnReference
    <3>3. OwnReference(f) = 1 /\ OwnReference(f)' = 0
      BY <2>4 DEF WaitRelease, TypeOK, OwnReference
    <3>4. QED
      BY <2>4, <3>1, <3>2, <3>3, HoldingIsFinite DEF WaitRelease, TypeOK, CountInv
  <2>5. CASE Test(p, f)
    BY <2>5, SameCount DEF Test, TypeOK, Held, OwnReference, QueueInv
  <2>6. CASE StealNothing(p, f)
    BY <2>6, SameCount DEF StealNothing, TypeOK, Held, OwnReference, QueueInv
  <2>7. CASE Steal(p, f)
    BY <2>7, HeadIsQueued, SameCount DEF Steal, Start, TypeOK, Held, OwnReference
  <2>8. CASE LatchWait(p, f)
    BY <2>8, SameCount DEF LatchWait, TypeOK, Held, OwnReference, QueueInv
  <2>9. CASE LatchSpuriousWakeup(p, f)
    BY <2>9, SameCount DEF LatchSpuriousWakeup, TypeOK, Held, OwnReference, QueueInv
  <2>10. CASE Reset(p, f)
    <3>1. \A g \in Frames : Holding(g)' = Holding(g)
      BY <2>10 DEF Reset, TypeOK, Holding, Held, Owned
    <3>2. \A g \in Frames \ {f} : OwnReference(g)' = OwnReference(g)
      BY <2>10 DEF Reset, TypeOK, OwnReference
    <3>3. OwnReference(f)' = 1 /\ Holding(f) = {}
      BY <2>10 DEF Reset, TypeOK, OwnReference, SettledInv, Holding, Owned
    <3>4. Cardinality(Holding(f)) = 0
      BY <3>3, HoldingIsFinite
    <3>5. num_outstanding' = [num_outstanding EXCEPT ![f] = 1]
      BY <2>10 DEF Reset
    <3>6. num_outstanding'[f] = OwnReference(f)' + Cardinality(Holding(f)')
      <4>1. num_outstanding'[f] = 1
        BY <3>5 DEF TypeOK
      <4>2. Cardinality(Holding(f)') = 0
        BY <3>1, <3>4
      <4>3. QED
        BY <3>3, <4>1, <4>2
    <3>7. \A g \in Frames \ {f} : num_outstanding'[g] = OwnReference(g)' + Cardinality(Holding(g)')
      BY <3>1, <3>2, <3>5 DEF TypeOK, CountInv
    <3>8. QED
      BY <3>6, <3>7 DEF CountInv
  <2>11. CASE Uncancel(p, f)
    BY <2>11, SameCount DEF Uncancel, TypeOK, Held, OwnReference, QueueInv
  <2>12. CASE WaitReturn(p, f)
    BY <2>12, SameCount DEF WaitReturn, TypeOK, Held, OwnReference, QueueInv
  <2>13. QED
    BY <2>1, <2>2, <2>3, <2>4, <2>5, <2>6, <2>7, <2>8, <2>9, <2>10, <2>11, <2>12 DEF FrameStep
<1>5. SettledInv'
  <2>1. CASE Push(p, f)
    BY <2>1 DEF Push, TypeOK, SettledInv, CancelEnds, Held, InFlight
  <2>2. CASE WaitCall(p, f)
    BY <2>2 DEF WaitCall, TypeOK, SettledInv, CancelEnds, Held, InFlight
  <2>3. CASE NoGroup(p, f)
    BY <2>3 DEF NoGroup, TypeOK, SettledInv, CancelEnds, Held, InFlight
  <2>4. CASE WaitRelease(p, f)
    BY <2>4 DEF WaitRelease, TypeOK, SettledInv, CancelEnds, Held, InFlight
  <2>5. CASE Test(p, f)
    <3>1. pc'[f] = "reset" => \A t \in Tasks : Into[t] = f => ~Held(t)
      <4>1. OwnReference(f) = 0
        BY <2>5 DEF Test, OwnReference
      <4>2. num_outstanding[f] = 0 => Holding(f) = {}
        BY <4>1, HoldingIsFinite DEF CountInv
      <4>3. QED
        BY <2>5, <4>2 DEF Test, TypeOK, Holding, Owned
    <3>2. QED
      BY <2>5, <3>1 DEF Test, TypeOK, SettledInv, CancelEnds, Held, InFlight
  <2>6. CASE StealNothing(p, f)
    BY <2>6 DEF StealNothing, TypeOK, SettledInv, CancelEnds, Held, InFlight
  <2>7. CASE Steal(p, f)
    BY <2>7, HeadIsQueued DEF Steal, Start, TypeOK, SettledInv, CancelEnds, Held, InFlight
  <2>8. CASE LatchWait(p, f)
    BY <2>8 DEF LatchWait, TypeOK, SettledInv, CancelEnds, Held, InFlight
  <2>9. CASE LatchSpuriousWakeup(p, f)
    BY <2>9 DEF LatchSpuriousWakeup, TypeOK, SettledInv, CancelEnds, Held, InFlight
  <2>10. CASE Reset(p, f)
    BY <2>10 DEF Reset, LatchInv, TypeOK, SettledInv, CancelEnds, Held, InFlight
  <2>11. CASE Uncancel(p, f)
    <3>1. pc'[f] \in {"waited", "exit"} /\ \A g \in Frames \ {f} : pc'[g] = pc[g]
      BY <2>11 DEF Uncancel, TypeOK
    <3>2. ~canceling'[f] /\ \A g \in Frames \ {f} : canceling'[g] = canceling[g]
      BY <2>11 DEF Uncancel, TypeOK
    <3>3. QED
      BY <2>11, <3>1, <3>2 DEF Uncancel, SettledInv, CancelEnds, Held, InFlight
  <2>12. CASE WaitReturn(p, f)
    BY <2>12 DEF WaitReturn, TypeOK, SettledInv, CancelEnds, Held, InFlight
  <2>13. QED
    BY <2>1, <2>2, <2>3, <2>4, <2>5, <2>6, <2>7, <2>8, <2>9, <2>10, <2>11, <2>12 DEF FrameStep
<1>6. AliveInv'
  <2>1. CASE Push(p, f)
    BY <2>1 DEF Push, TypeOK, AliveInv, GroupOutlivesTasks, InFlight
  <2>2. CASE WaitCall(p, f)
    BY <2>2 DEF WaitCall, TypeOK, AliveInv, GroupOutlivesTasks, InFlight
  <2>3. CASE NoGroup(p, f)
    BY <2>3 DEF NoGroup, TypeOK, AliveInv, GroupOutlivesTasks, InFlight
  <2>4. CASE WaitRelease(p, f)
    BY <2>4 DEF WaitRelease, TypeOK, AliveInv, GroupOutlivesTasks, InFlight
  <2>5. CASE Test(p, f)
    BY <2>5 DEF Test, TypeOK, AliveInv, GroupOutlivesTasks, InFlight
  <2>6. CASE StealNothing(p, f)
    BY <2>6 DEF StealNothing, TypeOK, AliveInv, GroupOutlivesTasks, InFlight
  <2>7. CASE Steal(p, f)
    BY <2>7, HeadIsQueued DEF Steal, Start, TypeOK, AliveInv, GroupOutlivesTasks, InFlight
  <2>8. CASE LatchWait(p, f)
    BY <2>8 DEF LatchWait, TypeOK, AliveInv, GroupOutlivesTasks, InFlight
  <2>9. CASE LatchSpuriousWakeup(p, f)
    BY <2>9 DEF LatchSpuriousWakeup, TypeOK, AliveInv, GroupOutlivesTasks, InFlight
  <2>10. CASE Reset(p, f)
    BY <2>10 DEF Reset, TypeOK, AliveInv, GroupOutlivesTasks, InFlight
  <2>11. CASE Uncancel(p, f)
    <3>1. CASE f \in destroying
      <4>1. pc' = [pc EXCEPT ![f] = "exit"] /\ alive' = [alive EXCEPT ![f] = FALSE] /\ late' = late
        BY <2>11, <3>1 DEF Uncancel
      <4>2. \A t \in Tasks : Into[t] = f => ~InFlight(t)
        BY <2>11 DEF Uncancel, SettledInv
      <4>3. QED
        BY <2>11, <4>1, <4>2 DEF Uncancel, TypeOK, AliveInv, GroupOutlivesTasks, InFlight
    <3>2. CASE f \notin destroying
      <4>1. pc' = [pc EXCEPT ![f] = "waited"] /\ alive' = alive /\ late' = late
        BY <2>11, <3>2 DEF Uncancel
      <4>2. QED
        BY <2>11, <4>1 DEF Uncancel, TypeOK, AliveInv, GroupOutlivesTasks, InFlight
    <3>3. QED
      BY <3>1, <3>2
  <2>12. CASE WaitReturn(p, f)
    BY <2>12 DEF WaitReturn, TypeOK, AliveInv, GroupOutlivesTasks, InFlight
  <2>13. QED
    BY <2>1, <2>2, <2>3, <2>4, <2>5, <2>6, <2>7, <2>8, <2>9, <2>10, <2>11, <2>12 DEF FrameStep
<1>7. QED
  BY <1>1, <1>2, <1>3, <1>4, <1>5, <1>6

(* What the lambda of a task preserves *)
LEMMA TaskInv ==
  ASSUME IInv, NEW p \in Threads, NEW t \in Tasks, TaskStep(p, t) \/ Cancel(p, t)
  PROVE  IInv'
<1> USE DEF IInv, pool, group, OnTop
<1>1. TypeOK'
  <2>1. CASE Lambda(p, t)
    <3>1. UNCHANGED <<canceling, late>> /\ pc[t] = "lambda"
      BY <2>1, Zenon DEF Lambda
    <3>2. PICK l \in {"release", "body"} : pc' = [pc EXCEPT ![t] = l]
      BY <2>1, Zenon DEF Lambda
    <3>3. alive' \in [Frames -> BOOLEAN]
      <4>1. CASE alive' = alive
        BY <4>1 DEF TypeOK
      <4>2. CASE alive' = [alive EXCEPT ![t] = TRUE]
        BY <4>2 DEF TypeOK
      <4>3. QED
        BY <2>1, <4>1, <4>2, Zenon DEF Lambda
    <3>4. pc' \in [Frames -> Labels]
      BY <3>2 DEF TypeOK, Labels
    <3>5. QED
      BY <2>1, <3>3, <3>4 DEF Lambda, TypeOK
  <2>2. CASE TaskReturns(p, t)
    BY <2>2 DEF TaskReturns, TypeOK, Labels
  <2>3. CASE Cancel(p, t)
    BY <2>3 DEF Cancel, TypeOK, Labels
  <2>4. CASE Release(p, t)
    <3>1. num_outstanding[Into[t]] >= 1
      <4>1. t \in Holding(Into[t])
        BY <2>4 DEF Release, TypeOK, Holding, Held, Owned
      <4>2. QED
        BY <4>1, HoldingIsFinite DEF CountInv, OwnReference
    <3>2. pc' \in [Frames -> Labels]
      BY <2>4 DEF Release, TypeOK, Labels
    <3>3. num_outstanding' \in [Frames -> Nat] /\ latch_mtx' \in [Frames -> Tasks \cup {None}]
      BY <2>4, <3>1 DEF Release, TypeOK
    <3>4. QED
      BY <2>4, <3>2, <3>3 DEF Release, TypeOK
  <2>5. CASE Unlock(p, t)
    BY <2>5 DEF Unlock, TypeOK, Labels
  <2>6. QED
    BY <2>1, <2>2, <2>3, <2>4, <2>5 DEF TaskStep
<1>2. QueueInv'
  <2>1. CASE Lambda(p, t)
    BY <2>1 DEF Lambda, TypeOK, QueueInv
  <2>2. CASE TaskReturns(p, t)
    BY <2>2 DEF TaskReturns, TypeOK, QueueInv
  <2>3. CASE Cancel(p, t)
    BY <2>3 DEF Cancel, TypeOK, QueueInv
  <2>4. CASE Release(p, t)
    BY <2>4 DEF Release, TypeOK, QueueInv
  <2>5. CASE Unlock(p, t)
    BY <2>5 DEF Unlock, TypeOK, QueueInv
  <2>6. QED
    BY <2>1, <2>2, <2>3, <2>4, <2>5 DEF TaskStep
<1>3. LatchInv'
  <2>1. CASE Lambda(p, t)
    BY <2>1 DEF Lambda, TypeOK, LatchInv
  <2>2. CASE TaskReturns(p, t)
    BY <2>2 DEF TaskReturns, TypeOK, LatchInv
  <2>3. CASE Cancel(p, t)
    BY <2>3 DEF Cancel, TypeOK, LatchInv
  <2>4. CASE Release(p, t)
    BY <2>4 DEF Release, TypeOK, LatchInv
  <2>5. CASE Unlock(p, t)
    BY <2>5 DEF Unlock, TypeOK, LatchInv
  <2>6. QED
    BY <2>1, <2>2, <2>3, <2>4, <2>5 DEF TaskStep
<1>4. CountInv'
  <2>1. CASE Lambda(p, t)
    BY <2>1, SameCount DEF Lambda, TypeOK, Held, OwnReference, QueueInv
  <2>2. CASE TaskReturns(p, t)
    BY <2>2, SameCount DEF TaskReturns, TypeOK, Held, OwnReference, QueueInv
  <2>3. CASE Cancel(p, t)
    BY <2>3, SameCount DEF Cancel, TypeOK, Held, OwnReference, QueueInv
  <2>4. CASE Release(p, t)
    <3> DEFINE g == Into[t]
    <3>0. g \in Frames /\ IsFiniteSet(Holding(g)) /\ Cardinality(Holding(g)) \in Nat
      BY HoldingIsFinite
    <3> HIDE DEF g
    <3>1. t \in Holding(g) /\ Holding(g)' = Holding(g) \ {t}
      BY <2>4 DEF g, Release, TypeOK, Holding, Held, Owned
    <3>2. \A h \in Frames \ {g} : Holding(h)' = Holding(h)
      BY <2>4 DEF g, Release, TypeOK, Holding, Held, Owned
    <3>3. \A h \in Frames : OwnReference(h)' = OwnReference(h)
      BY <2>4 DEF g, Release, TypeOK, OwnReference
    <3>4. Cardinality(Holding(g)') = Cardinality(Holding(g)) - 1
      <4>1. Cardinality(Holding(g) \ {t}) = Cardinality(Holding(g)) - 1
        BY <3>0, <3>1, FS_RemoveElement
      <4>2. QED
        BY <3>1, <4>1
    <3>5. num_outstanding' = [num_outstanding EXCEPT ![g] = @ - 1]
      BY <2>4 DEF g, Release
    <3>6. QED
      BY <3>0, <3>2, <3>3, <3>4, <3>5 DEF TypeOK, CountInv, OwnReference
  <2>5. CASE Unlock(p, t)
    BY <2>5, SameCount DEF Unlock, TypeOK, Held, OwnReference, QueueInv
  <2>6. QED
    BY <2>1, <2>2, <2>3, <2>4, <2>5 DEF TaskStep
<1>5. SettledInv'
  <2>1. CASE Lambda(p, t)
    <3>1. UNCHANGED <<canceling, late>> /\ pc[t] = "lambda"
      BY <2>1, Zenon DEF Lambda
    <3>2. PICK l \in {"release", "body"} : pc' = [pc EXCEPT ![t] = l]
      BY <2>1, Zenon DEF Lambda
    <3>3. QED
      BY <3>1, <3>2 DEF TypeOK, SettledInv, CancelEnds, Held, InFlight
  <2>2. CASE TaskReturns(p, t)
    BY <2>2 DEF TaskReturns, TypeOK, SettledInv, CancelEnds, Held, InFlight
  <2>3. CASE Cancel(p, t)
    BY <2>3 DEF Cancel, TypeOK, SettledInv, CancelEnds, Held, InFlight
  <2>4. CASE Release(p, t)
    BY <2>4 DEF Release, TypeOK, SettledInv, CancelEnds, Held, InFlight
  <2>5. CASE Unlock(p, t)
    BY <2>5 DEF Unlock, TypeOK, SettledInv, CancelEnds, Held, InFlight
  <2>6. QED
    BY <2>1, <2>2, <2>3, <2>4, <2>5 DEF TaskStep
<1>6. AliveInv'
  <2>1. CASE Lambda(p, t)
    <3>1. UNCHANGED <<canceling, late>> /\ pc[t] = "lambda"
      BY <2>1, Zenon DEF Lambda
    <3>2. PICK l \in {"release", "body"} : pc' = [pc EXCEPT ![t] = l]
      BY <2>1, Zenon DEF Lambda
    <3>3. \A f \in Frames : alive[f] => alive'[f]
      <4>1. CASE alive' = alive
        BY <4>1
      <4>2. CASE alive' = [alive EXCEPT ![t] = TRUE]
        BY <4>2 DEF TypeOK
      <4>3. QED
        BY <2>1, <4>1, <4>2, Zenon DEF Lambda
    <3>4. pc'[t] = "body" => \A u \in Tasks : Into[u] = t => alive'[t]
      <4>1. CASE canceling[Into[t]]
        BY <2>1, <4>1 DEF Lambda, TypeOK
      <4>2. CASE ~canceling[Into[t]]
        BY <2>1, <4>2 DEF Lambda, TypeOK, Owned
      <4>3. QED
        BY <4>1, <4>2
    <3>5. QED
      BY <3>1, <3>2, <3>3, <3>4 DEF TypeOK, AliveInv, GroupOutlivesTasks, InFlight
  <2>2. CASE TaskReturns(p, t)
    BY <2>2 DEF TaskReturns, TypeOK, AliveInv, GroupOutlivesTasks, InFlight
  <2>3. CASE Cancel(p, t)
    BY <2>3 DEF Cancel, TypeOK, AliveInv, GroupOutlivesTasks, InFlight
  <2>4. CASE Release(p, t)
    BY <2>4 DEF Release, TypeOK, AliveInv, GroupOutlivesTasks, InFlight
  <2>5. CASE Unlock(p, t)
    BY <2>5 DEF Unlock, TypeOK, AliveInv, GroupOutlivesTasks, InFlight
  <2>6. QED
    BY <2>1, <2>2, <2>3, <2>4, <2>5 DEF TaskStep
<1>7. QED
  BY <1>1, <1>2, <1>3, <1>4, <1>5, <1>6

(* What run() preserves *)
LEMMA RunInv ==
  ASSUME IInv, NEW p \in Threads, NEW f \in Frames, NEW t \in Tasks, Run(p, f, t)
  PROVE  IInv'
<1> USE DEF IInv, pool, group, OnTop
<1> DEFINE g == Into[t]
<1>1. num_outstanding[g] >= 1
  <2>1. CASE g = f
    BY <2>1, HoldingIsFinite DEF Run, CountInv, OwnReference
  <2>2. CASE g # f
    <3>1. f \in Holding(g)
      BY <2>2 DEF Run, Holding, Held, Owned
    <3>2. QED
      BY <3>1, HoldingIsFinite DEF CountInv, OwnReference
  <2>3. QED
    BY <2>1, <2>2
<1>2. /\ pc[f] = "body" /\ RunBy[t] = f /\ pc[t] = "new" /\ g \in Frames
      /\ UNCHANGED <<global_queue, asleep, woken, stack, latch_mtx, canceling, alive,
                     destroying, late>>
      /\ \/ /\ canceling[g] /\ pc' = [pc EXCEPT ![t] = "dropped"]
            /\ UNCHANGED <<arg, num_outstanding>>
         \/ /\ pc' = [pc EXCEPT ![f] = "push", ![t] = "queued"]
            /\ num_outstanding' = [num_outstanding EXCEPT ![g] = @ + 1]
            /\ arg' = [arg EXCEPT ![f] = t]
  BY <1>1 DEF Run, TypeOK, Asked
<1> HIDE DEF g
<1>3. /\ \A h \in Frames \ {f, t} : pc'[h] = pc[h]
      /\ pc'[f] \in {"body", "push"} /\ pc'[t] \in {"queued", "dropped"}
  BY <1>2 DEF TypeOK
<1>4. TypeOK'
  <2>1. pc' \in [Frames -> Labels]
    <3>1. CASE pc' = [pc EXCEPT ![t] = "dropped"]
      BY <3>1 DEF TypeOK, Labels
    <3>2. CASE pc' = [pc EXCEPT ![f] = "push", ![t] = "queued"]
      BY <3>2 DEF TypeOK, Labels
    <3>3. QED
      BY <1>2, <3>1, <3>2
  <2>2. arg' \in [Frames -> Tasks \cup {None}] /\ num_outstanding' \in [Frames -> Nat]
    <3>1. CASE UNCHANGED <<arg, num_outstanding>>
      BY <3>1 DEF TypeOK
    <3>2. CASE /\ num_outstanding' = [num_outstanding EXCEPT ![g] = @ + 1]
               /\ arg' = [arg EXCEPT ![f] = t]
      BY <3>2 DEF g, TypeOK
    <3>3. QED
      BY <1>2, <3>1, <3>2
  <2>3. QED
    BY <1>2, <2>1, <2>2 DEF TypeOK
<1>5. QueueInv' /\ LatchInv'
  <2>1. \A i \in 1..Len(global_queue) : global_queue[i] \in Tasks /\ global_queue[i] # t
    BY <1>2 DEF TypeOK, QueueInv
  <2>2. \A h \in Frames : arg[h] # t
    BY <1>2 DEF QueueInv
  <2>3. LatchInv'
    BY <1>2, <1>3 DEF LatchInv
  <2>4. CASE arg' = arg /\ pc' = [pc EXCEPT ![t] = "dropped"]
    BY <1>2, <2>1, <2>2, <2>3, <2>4 DEF TypeOK, QueueInv
  <2>5. CASE /\ arg' = [arg EXCEPT ![f] = t]
             /\ pc' = [pc EXCEPT ![f] = "push", ![t] = "queued"]
    BY <1>2, <2>1, <2>2, <2>3, <2>5 DEF TypeOK, QueueInv
  <2>6. QED
    BY <1>2, <2>4, <2>5
<1>6. CountInv'
  <2>1. CASE UNCHANGED num_outstanding /\ pc' = [pc EXCEPT ![t] = "dropped"]
    BY <1>2, <2>1, SameCount DEF TypeOK, Held, OwnReference
  <2>2. CASE /\ pc' = [pc EXCEPT ![f] = "push", ![t] = "queued"]
             /\ num_outstanding' = [num_outstanding EXCEPT ![g] = @ + 1]
    <3>1. t \notin Holding(g) /\ Holding(g)' = Holding(g) \cup {t}
      BY <1>2, <2>2 DEF g, TypeOK, Holding, Held, Owned
    <3>2. \A h \in Frames \ {g} : Holding(h)' = Holding(h)
      BY <1>2, <2>2 DEF g, TypeOK, Holding, Held, Owned
    <3>3. \A h \in Frames : OwnReference(h)' = OwnReference(h)
      BY <1>2, <2>2 DEF TypeOK, OwnReference
    <3>4. IsFiniteSet(Holding(g)) /\ Cardinality(Holding(g)) \in Nat
      BY <1>2, HoldingIsFinite
    <3>5. Cardinality(Holding(g)') = Cardinality(Holding(g)) + 1
      BY <3>1, <3>4, FS_AddElement
    <3>6. QED
      BY <1>2, <2>2, <3>2, <3>3, <3>4, <3>5 DEF TypeOK, CountInv, OwnReference
  <2>3. QED
    BY <1>2, <2>1, <2>2
<1>7. pc[g] \notin {"reset", "uncancel", "waited"}
  <2>1. CASE g = f
    BY <1>2, <2>1
  <2>2. CASE g # f
    <3>1. f \in Tasks /\ Into[f] = g
      BY <1>2, <2>2 DEF g
    <3>2. QED
      BY <1>2, <3>1 DEF SettledInv, Held, InFlight
  <2>3. QED
    BY <2>1, <2>2
<1>8. SettledInv'
  BY <1>2, <1>3, <1>7 DEF g, SettledInv, CancelEnds, Held, InFlight
<1>9. AliveInv'
  <2>1. alive[g]
    <3>1. CASE g = f
      BY <1>2, <3>1 DEF g, AliveInv
    <3>2. CASE g # f
      BY <1>2, <3>2 DEF g, AliveInv, GroupOutlivesTasks, InFlight
    <3>3. QED
      BY <3>1, <3>2
  <2>2. QED
    BY <1>2, <1>3, <2>1 DEF g, AliveInv, GroupOutlivesTasks, InFlight
<1>10. QED
  BY <1>4, <1>5, <1>6, <1>8, <1>9

LEMMA StepInv == IInv /\ [Next]_vars => IInv'
<1> SUFFICES ASSUME IInv, [Next]_vars PROVE IInv'
  OBVIOUS
<1>1. CASE \E w \in Workers : WorkerStep(w) \/ SpuriousWakeup(w)
  BY <1>1, WorkerInv
<1>2. CASE \E p \in Threads, f \in Frames, t \in Tasks : Run(p, f, t)
  BY <1>2, RunInv
<1>3. CASE \E p \in Threads, f \in Frames :
             (FrameStep(p, f) /\ \A t \in Tasks : ~Run(p, f, t)) \/ LatchSpuriousWakeup(p, f)
  BY <1>3, FrameInv
<1>4. CASE \E p \in Threads, t \in Tasks : TaskStep(p, t) \/ Cancel(p, t)
  BY <1>4, TaskInv
<1>5. CASE UNCHANGED vars
  <2>1. CountInv'
    BY <1>5, SameCount DEF vars, IInv, Held, OwnReference
  <2>2. TypeOK' /\ QueueInv' /\ LatchInv'
    BY <1>5 DEF vars, IInv, TypeOK, QueueInv, LatchInv
  <2>3. SettledInv' /\ AliveInv'
    BY <1>5 DEF vars, IInv, SettledInv, CancelEnds, AliveInv, GroupOutlivesTasks, Held, InFlight
  <2>4. QED
    BY <2>1, <2>2, <2>3 DEF IInv
<1>6. ASSUME NEW p \in Threads, ThreadStep(p) \/ ThreadMay(p) PROVE IInv'
  <2> DEFINE f == Top(p)
  <2>1. f \in Frames
    BY <1>6 DEF ThreadStep, ThreadMay, Top, IInv, TypeOK
  <2>2. CASE f \in Tasks /\ (TaskStep(p, f) \/ Cancel(p, f))
    BY <1>4, <2>2
  <2>3. CASE LatchSpuriousWakeup(p, f)
    BY <1>3, <2>1, <2>3
  <2>4. CASE \E t \in Tasks : Run(p, f, t)
    BY <1>2, <2>1, <2>4
  <2>5. CASE FrameStep(p, f) /\ \A t \in Tasks : ~Run(p, f, t)
    BY <1>3, <2>1, <2>5
  <2>6. Cancel(p, f) => f \in Tasks
    BY SetsAssumption DEF Cancel
  <2>7. QED
    BY <1>6, <2>2, <2>3, <2>4, <2>5, <2>6 DEF ThreadStep, ThreadMay
<1>7. QED
  BY <1>1, <1>5, <1>6 DEF Next, Halted

(* The latch of every group counts exactly the tasks that still use it, and
   the queue, the mutexes and the frames agree. *)
THEOREM ForkJoinInvariant == Spec => []IInv
<1>1. QED
  BY InitInv, StepInv, PTL DEF Spec

(* The variables keep their types; no latch is released more often than it
   was referenced. *)
THEOREM TaskGroupTypeCorrect == Spec => []TypeOK
<1>1. IInv => TypeOK
  BY DEF IInv
<1>2. QED
  BY <1>1, ForkJoinInvariant, PTL

(* When the loop of wait() has ended no task of the group is queued or
   executed, though it reads the count without the mutex and tasks of the
   group may run others in it. *)
THEOREM WaitIsExact == Spec => []WaitComplete
<1>1. IInv => WaitComplete
  BY DEF IInv, SettledInv, WaitComplete, Owned
<1>2. QED
  BY <1>1, ForkJoinInvariant, PTL

(* No task in flight refers to a destroyed group, and reference() is never
   too late. *)
THEOREM GroupIsAlive == Spec => []GroupOutlivesTasks
<1>1. IInv => GroupOutlivesTasks
  BY DEF IInv, AliveInv
<1>2. QED
  BY <1>1, ForkJoinInvariant, PTL

(* No straggler of the batch that was waited for cancels the next one. *)
THEOREM CancelIsOver == Spec => []CancelEnds
<1>1. IInv => CancelEnds
  BY DEF IInv, SettledInv, CancelEnds
<1>2. QED
  BY <1>1, ForkJoinInvariant, PTL
=============================================================================
