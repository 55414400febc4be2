-------------------------- MODULE TaskQueueProofs --------------------------
(***************************************************************************)
(* The queue's invariants hold for any number of workers, any tasks and    *)
(* any bound on the pushes; and it implements the safety part of WorkQueue. *)
(***************************************************************************)
EXTENDS TaskQueue, FiniteSetTheorems, SequenceTheorems, TLAPS

(* Workers are finitely many, hence so are those who wait, those chosen    *)
(* and those asleep; and whoever sleeps waits.                             *)
LEMMA WaitersFinite ==
  ASSUME TypeOK, CountersExact
  PROVE  /\ IsFiniteSet(Waiters) /\ Cardinality(Waiters) \in Nat
         /\ IsFiniteSet(notified) /\ Cardinality(notified) \in Nat
         /\ IsFiniteSet(Sleeping) /\ Cardinality(Sleeping) \in Nat
         /\ Cardinality(Sleeping) <= Cardinality(Waiters)
<1>1. Waiters \in SUBSET Workers /\ IsFiniteSet(Workers)
  BY QueueAssumption DEF Waiters
<1>2. IsFiniteSet(Waiters)
  BY <1>1, FS_Subset
<1>3. notified \in SUBSET Waiters /\ Sleeping \in SUBSET Waiters
  BY DEF CountersExact, Sleeping
<1>4. /\ IsFiniteSet(notified)
      /\ IsFiniteSet(Sleeping)
      /\ Cardinality(Sleeping) <= Cardinality(Waiters)
  BY <1>2, <1>3, FS_Subset
<1>5. QED
  BY <1>2, <1>4, FS_CardinalityType

(* A batch is a sequence of tasks, at least one.                           *)
LEMMA BatchIsSeq ==
  ASSUME NEW ts \in Batches
  PROVE  ts \in Seq(Tasks) /\ Len(ts) \in Nat /\ Len(ts) > 0
<1>1. PICK n \in 1..MaxPushes : ts \in [1..n -> Tasks]
  BY DEF Batches
<1>2. n \in Nat /\ n > 0
  BY QueueAssumption
<1>3. ts \in Seq(Tasks)
  BY <1>1, <1>2
<1>4. Len(ts) = n
  BY <1>1, <1>2, <1>3, LenProperties
<1>5. QED
  BY <1>2, <1>3, <1>4

(* Signalling chooses sleepers only, as many as there are tasks if anybody *)
(* is left asleep.                                                         *)
LEMMA SignalChooses ==
  ASSUME TypeOK, CountersExact, NEW k \in Nat, SignalWaiting(k)
  PROVE  /\ notified \subseteq notified'
         /\ notified' \subseteq Waiters
         /\ Cardinality(notified') \in Nat
         /\ Waiters \ notified' # {} => Cardinality(notified') = Cardinality(notified) + k
<1>1. PICK chosen \in SUBSET Sleeping :
        /\ Cardinality(chosen) = Smaller(Smaller(k, waiting), Cardinality(Sleeping))
        /\ notified' = notified \cup chosen
  BY DEF SignalWaiting
<1>2. chosen \in SUBSET Waiters /\ notified \in SUBSET Waiters /\ chosen \cap notified = {}
  BY <1>1 DEF Sleeping, CountersExact
<1>3. /\ IsFiniteSet(chosen) /\ IsFiniteSet(notified)
      /\ Cardinality(chosen) \in Nat /\ Cardinality(notified) \in Nat
  BY <1>2, WaitersFinite, FS_Subset, FS_CardinalityType
<1>4. Cardinality(notified') = Cardinality(notified) + Cardinality(chosen)
  <2>1. Cardinality(notified \cup chosen)
          = Cardinality(notified) + Cardinality(chosen) - Cardinality(notified \cap chosen)
    BY <1>3, FS_Union
  <2>2. notified \cap chosen = {}
    BY <1>2
  <2>3. Cardinality(notified \cap chosen) = 0
    BY <2>2, FS_EmptySet
  <2>4. QED
    BY <2>1, <2>3, <1>1, <1>3
<1>5. ASSUME Waiters \ notified' # {}
      PROVE  Cardinality(chosen) = k
  <2>1. chosen # Sleeping
    BY <1>5, <1>1 DEF Sleeping
  <2>2. /\ Cardinality(chosen) <= Cardinality(Sleeping)
        /\ Cardinality(chosen) # Cardinality(Sleeping)
    BY <1>1, <2>1, WaitersFinite, FS_Subset
  <2>3. waiting = Cardinality(Waiters)
    BY DEF CountersExact
  <2>4. QED
    BY <1>1, <2>2, <2>3, WaitersFinite, <1>3 DEF Smaller
<1>6. QED
  BY <1>1, <1>2, <1>3, <1>4, <1>5

LEMMA InitIInv == Init => IInv
<1> SUFFICES ASSUME Init PROVE IInv
  OBVIOUS
<1>1. Waiters = {}
  BY DEF Init, Waiters
<1>2. TypeOK
  BY EmptySeq DEF Init, TypeOK
<1>3. CountersExact
  BY <1>1, FS_EmptySet DEF Init, CountersExact
<1>4. ClosedWakesAll /\ NoLostWakeup
  BY <1>1 DEF Init, ClosedWakesAll, NoLostWakeup, Sleeping
<1>5. QED
  BY <1>2, <1>3, <1>4 DEF IInv

(***************************************************************************)
(* What each action does to the invariant.                                 *)
(***************************************************************************)
LEMMA PushStep ==
  ASSUME IInv, NEW ts \in Batches, Push(ts)
  PROVE  IInv'
<1> USE DEF IInv
<1>1. ts \in Seq(Tasks) /\ Len(ts) \in Nat /\ Len(ts) > 0
  BY BatchIsSeq
<1>2. tasks' \in Seq(Tasks) /\ Len(tasks') = Len(tasks) + Len(ts)
  BY <1>1, ConcatProperties DEF Push, TypeOK
<1>3. Waiters' = Waiters
  BY DEF Push, Waiters
<1>4. /\ notified \subseteq notified'
      /\ notified' \subseteq Waiters
      /\ Cardinality(notified') \in Nat
      /\ Waiters \ notified' # {} => Cardinality(notified') = Cardinality(notified) + Len(ts)
  BY <1>1, SignalChooses DEF Push
<1>5. Len(tasks) \in Nat
  BY LenProperties DEF TypeOK
<1>6. TypeOK'
  BY <1>1, <1>2, <1>4 DEF Push, TypeOK, Waiters
<1>7. CountersExact'
  BY <1>2, <1>3, <1>4 DEF Push, CountersExact
<1>8. ClosedWakesAll'
  BY <1>3, <1>4 DEF Push, ClosedWakesAll, Sleeping
<1>9. NoLostWakeup'
  BY <1>1, <1>2, <1>3, <1>4, <1>5, WaitersFinite DEF NoLostWakeup, Sleeping
<1>10. QED
  BY <1>6, <1>7, <1>8, <1>9

LEMMA PopNowStep ==
  ASSUME IInv, NEW w \in Workers, PopNow(w)
  PROVE  IInv'
<1> USE DEF IInv
<1>1. Waiters' = Waiters /\ w \notin Waiters
  BY DEF PopNow, PopTask, PopNothing, Waiters, TypeOK
<1>2. CASE PopTask(w)
  <2>1. Head(tasks) \in Tasks /\ Tail(tasks) \in Seq(Tasks) /\ Len(Tail(tasks)) = Len(tasks) - 1
    BY <1>2, HeadTailProperties DEF PopTask, TypeOK
  <2>2. Len(tasks) \in Nat /\ Len(Tail(tasks)) \in Nat
    BY <2>1, LenProperties DEF TypeOK
  <2>3. TypeOK'
    BY <1>2, <2>1, <2>2 DEF PopNow, PopTask, TypeOK, CountersExact
  <2>4. CountersExact'
    BY <1>1, <1>2, <2>1 DEF PopNow, PopTask, CountersExact
  <2>5. ClosedWakesAll'
    BY <1>1 DEF PopNow, ClosedWakesAll, Sleeping
  <2>6. NoLostWakeup'
    BY <1>1, <1>2, <2>1, <2>2, WaitersFinite DEF PopNow, PopTask, NoLostWakeup, Sleeping
  <2>7. QED
    BY <2>3, <2>4, <2>5, <2>6
<1>3. CASE PopNothing(w)
  <2>1. TypeOK'
    BY <1>3 DEF PopNow, PopNothing, TypeOK
  <2>2. CountersExact' /\ ClosedWakesAll' /\ NoLostWakeup'
    BY <1>1, <1>3 DEF PopNow, PopNothing, CountersExact, ClosedWakesAll, NoLostWakeup, Sleeping
  <2>3. QED
    BY <2>1, <2>2
<1>4. QED
  BY <1>2, <1>3 DEF PopNow

LEMMA PopWaitStep ==
  ASSUME IInv, NEW w \in Workers, PopWait(w)
  PROVE  IInv'
<1> USE DEF IInv
<1>1. Waiters' = Waiters \cup {w} /\ w \notin Waiters
  BY DEF PopWait, Waiters, TypeOK
<1>2. Cardinality(Waiters') = Cardinality(Waiters) + 1
  BY <1>1, WaitersFinite, FS_AddElement
<1>3. TypeOK'
  BY DEF PopWait, TypeOK
<1>4. CountersExact'
  BY <1>1, <1>2 DEF PopWait, CountersExact
<1>5. ClosedWakesAll'
  BY DEF PopWait, ClosedWakesAll
<1>6. Len(tasks') = 0 /\ notified' = notified
  BY EmptySeq DEF PopWait
<1>7. NoLostWakeup'
  BY <1>6, WaitersFinite DEF NoLostWakeup
<1>8. QED
  BY <1>3, <1>4, <1>5, <1>7

LEMMA WakeStep ==
  ASSUME IInv, NEW w \in Workers, Wake(w)
  PROVE  IInv'
<1> USE DEF IInv
<1>1. w \in notified /\ w \in Waiters /\ notified' = notified \ {w}
  BY DEF Wake, CountersExact
<1>2. Waiters' = Waiters \ {w}
  BY <1>1 DEF Wake, PopTask, PopNothing, Waiters, TypeOK
<1>3. /\ Cardinality(Waiters') = Cardinality(Waiters) - 1
      /\ Cardinality(notified') = Cardinality(notified) - 1
      /\ Cardinality(Waiters') \in Nat
      /\ Cardinality(notified') \in Nat
  <2>1. IsFiniteSet(Waiters \ {w}) /\ IsFiniteSet(notified \ {w})
    BY WaitersFinite, FS_RemoveElement
  <2>2. Cardinality(Waiters \ {w}) = Cardinality(Waiters) - 1
    BY <1>1, WaitersFinite, FS_RemoveElement
  <2>3. Cardinality(notified \ {w}) = Cardinality(notified) - 1
    BY <1>1, WaitersFinite, FS_RemoveElement
  <2>4. QED
    BY <1>1, <1>2, <2>1, <2>2, <2>3, FS_CardinalityType
<1>4. Sleeping' = Sleeping
  BY <1>1, <1>2 DEF Sleeping
<1>5. waiting' = Cardinality(Waiters') /\ idleWorkers' = waiting'
  BY <1>3, WaitersFinite DEF Wake, CountersExact
<1>6. ClosedWakesAll'
  BY <1>4 DEF Wake, ClosedWakesAll
<1>7. CASE PopTask(w)
  <2>1. Head(tasks) \in Tasks /\ Tail(tasks) \in Seq(Tasks) /\ Len(Tail(tasks)) = Len(tasks) - 1
    BY <1>7, HeadTailProperties DEF PopTask, TypeOK
  <2>2. Len(tasks) \in Nat /\ Len(Tail(tasks)) \in Nat
    BY <2>1, LenProperties DEF TypeOK
  <2>3. TypeOK'
    BY <1>1, <1>3, <1>5, <1>7, <2>1, <2>2 DEF Wake, PopTask, TypeOK, CountersExact
  <2>4. CountersExact'
    BY <1>1, <1>2, <1>5, <1>7, <2>1 DEF PopTask, CountersExact
  <2>5. NoLostWakeup'
    BY <1>3, <1>4, <1>7, <2>1, <2>2, WaitersFinite DEF PopTask, NoLostWakeup
  <2>6. QED
    BY <1>6, <2>3, <2>4, <2>5
<1>8. CASE PopNothing(w)
  <2>1. TypeOK'
    BY <1>1, <1>3, <1>5, <1>8 DEF Wake, PopNothing, TypeOK
  <2>2. CountersExact'
    BY <1>1, <1>2, <1>5, <1>8 DEF PopNothing, CountersExact
  <2>3. Len(tasks') = 0
    BY <1>8, EmptySeq DEF PopNothing
  <2>4. NoLostWakeup'
    BY <1>3, <2>3 DEF NoLostWakeup
  <2>5. QED
    BY <1>6, <2>1, <2>2, <2>4
<1>9. QED
  BY <1>7, <1>8 DEF Wake

LEMMA WakeAgainStep ==
  ASSUME IInv, NEW w \in Workers, WakeAgain(w)
  PROVE  IInv'
<1> USE DEF IInv
<1>1. notified' = notified \ {w} /\ Waiters' = Waiters
  BY DEF WakeAgain, Waiters
<1>2. Cardinality(notified') \in Nat
  BY <1>1, WaitersFinite, FS_RemoveElement, FS_CardinalityType
<1>3. TypeOK'
  BY DEF WakeAgain, TypeOK
<1>4. CountersExact'
  BY <1>1 DEF WakeAgain, CountersExact
<1>5. ClosedWakesAll'
  BY DEF WakeAgain, ClosedWakesAll
<1>6. Len(tasks') = 0
  BY EmptySeq DEF WakeAgain
<1>7. NoLostWakeup'
  BY <1>2, <1>6 DEF NoLostWakeup
<1>8. QED
  BY <1>3, <1>4, <1>5, <1>7

LEMMA FinishStep ==
  ASSUME IInv, NEW w \in Workers, Finish(w)
  PROVE  IInv'
<1> USE DEF IInv
<1>1. Waiters' = Waiters
  BY DEF Finish, Waiters, TypeOK
<1>2. TypeOK'
  BY DEF Finish, TypeOK
<1>3. CountersExact' /\ ClosedWakesAll' /\ NoLostWakeup'
  BY <1>1 DEF Finish, CountersExact, ClosedWakesAll, NoLostWakeup, Sleeping
<1>4. QED
  BY <1>2, <1>3

LEMMA CloseStep ==
  ASSUME IInv, Close
  PROVE  IInv'
<1> USE DEF IInv
<1>1. Waiters' = Waiters /\ notified' = Waiters
  BY DEF Close, Waiters, Sleeping, CountersExact
<1>2. TypeOK'
  BY <1>1 DEF Close, TypeOK, Waiters
<1>3. CountersExact' /\ ClosedWakesAll' /\ NoLostWakeup'
  BY <1>1 DEF Close, CountersExact, ClosedWakesAll, NoLostWakeup, Sleeping
<1>4. QED
  BY <1>2, <1>3

LEMMA DrainStep ==
  ASSUME IInv, DrainRemaining
  PROVE  IInv'
<1> USE DEF IInv
<1>1. Waiters' = Waiters
  BY DEF DrainRemaining, Waiters
<1>2. tasks' = <<>> /\ tasks' \in Seq(Tasks) /\ Len(tasks') = 0
  BY EmptySeq DEF DrainRemaining
<1>3. TypeOK'
  BY <1>2 DEF DrainRemaining, TypeOK
<1>4. CountersExact' /\ ClosedWakesAll'
  BY <1>1, <1>2 DEF DrainRemaining, CountersExact, ClosedWakesAll, Sleeping
<1>5. Cardinality(notified') \in Nat
  BY WaitersFinite DEF DrainRemaining
<1>6. NoLostWakeup'
  BY <1>2, <1>5 DEF NoLostWakeup
<1>7. QED
  BY <1>3, <1>4, <1>6

(* IInv is inductive.                                                      *)
LEMMA NextIInv == IInv /\ [Next]_vars => IInv'
<1> SUFFICES ASSUME IInv, [Next]_vars PROVE IInv'
  OBVIOUS
<1>1. CASE UNCHANGED vars
  BY <1>1 DEF vars, IInv, TypeOK, CountersExact, ClosedWakesAll, NoLostWakeup, Sleeping, Waiters
<1>2. CASE Next
  BY <1>2, PushStep, CloseStep, DrainStep, PopNowStep, PopWaitStep, WakeStep, WakeAgainStep,
     FinishStep DEF Next
<1>3. QED
  BY <1>1, <1>2

LEMMA Invariance == Spec => []IInv
  BY InitIInv, NextIInv, PTL DEF Spec

(* The variables keep their types (task_queue.go:11-20).                   *)
THEOREM TypeCorrect == Spec => []TypeOK
<1>1. IInv => TypeOK
  BY DEF IInv
<1>2. QED
  BY <1>1, Invariance, PTL

(* No wakeup is lost, whatever the number of workers and of tasks pushed   *)
(* at once, although Signal is issued by the counter waiting.              *)
THEOREM WakeupsSuffice == Spec => []NoLostWakeup
<1>1. IInv => NoLostWakeup
  BY DEF IInv
<1>2. QED
  BY <1>1, Invariance, PTL

(* What Len and IdleWorkers read without the mutex is exact between two    *)
(* critical sections.                                                      *)
THEOREM CountersCorrect == Spec => []CountersExact
<1>1. IInv => CountersExact
  BY DEF IInv
<1>2. QED
  BY <1>1, Invariance, PTL

(* Close leaves nobody asleep, and nobody falls asleep after it.           *)
THEOREM CloseWakesEveryone == Spec => []ClosedWakesAll
<1>1. IInv => ClosedWakesAll
  BY DEF IInv
<1>2. QED
  BY <1>1, Invariance, PTL

(***************************************************************************)
(* Refinement: every step of the code's queue is a step of the abstract    *)
(* queue or leaves it as it is.                                            *)
(***************************************************************************)
LEMMA PutRefined ==
  ASSUME IInv, NEW ts \in Batches, Push(ts)
  PROVE  Abstract!Put
<1>1. tasks \in Seq(Tasks) /\ Len(tasks) \in Nat
  BY LenProperties DEF IInv, TypeOK
<1>2. ts \in Seq(Tasks) /\ Len(ts) \in Nat /\ Len(ts) > 0
  BY BatchIsSeq
<1>3. /\ tasks' = tasks \o ts
      /\ tasks' \in Seq(Tasks)
      /\ Len(tasks') = Len(tasks) + Len(ts)
      /\ \A i \in 1..Len(tasks) : tasks'[i] = tasks[i]
  BY <1>1, <1>2, ConcatProperties DEF Push
<1>4. SubSeq(tasks', 1, Len(tasks)) = tasks
  <2>1. \A i \in 1..Len(tasks) : tasks'[i] \in Tasks
    BY <1>1, <1>3, ElementOfSeq
  <2>2. /\ SubSeq(tasks', 1, Len(tasks)) \in Seq(Tasks)
        /\ Len(SubSeq(tasks', 1, Len(tasks))) = Len(tasks)
        /\ \A i \in 1..Len(tasks) : SubSeq(tasks', 1, Len(tasks))[i] = tasks'[i]
    BY <1>1, <2>1, SubSeqProperties
  <2>3. QED
    BY <1>1, <1>3, <2>2, SeqEqual
<1>5. QED
  BY <1>1, <1>2, <1>3, <1>4 DEF Push, Abstract!Put

LEMMA TakeRefined ==
  ASSUME IInv, NEW w \in Workers, pc[w] \in {"pop", "wait"},
         PopTask(w) \/ PopNothing(w), UNCHANGED done
  PROVE  Abstract!Take(w) \/ Abstract!Leave(w)
<1>1. CASE PopTask(w)
  BY <1>1 DEF PopTask, Abstract!Take, IInv, TypeOK
<1>2. CASE PopNothing(w)
  BY <1>2 DEF PopNothing, Abstract!Leave, IInv, TypeOK
<1>3. QED
  BY <1>1, <1>2

LEMMA StepRefined == IInv /\ [Next]_vars => [Abstract!WQNext]_(Abstract!wqVars)
<1> SUFFICES ASSUME IInv, [Next]_vars
             PROVE  Abstract!WQNext \/ UNCHANGED Abstract!wqVars
  OBVIOUS
<1>1. ASSUME NEW ts \in Batches, Push(ts)
      PROVE  Abstract!WQNext
  BY <1>1, PutRefined DEF Abstract!WQNext
<1>2. CASE Close
  BY <1>2 DEF Close, Abstract!WQNext, Abstract!Shut
<1>3. CASE DrainRemaining
  BY <1>3 DEF DrainRemaining, Abstract!WQNext, Abstract!Empty
<1>4. ASSUME NEW w \in Workers, PopNow(w)
      PROVE  Abstract!WQNext
  BY <1>4, TakeRefined DEF PopNow, Abstract!WQNext
<1>5. ASSUME NEW w \in Workers, Wake(w)
      PROVE  Abstract!WQNext
  <2>1. pc[w] = "wait"
    BY <1>5 DEF Wake, IInv, CountersExact, Waiters
  <2>2. QED
    BY <1>5, <2>1, TakeRefined DEF Wake, Abstract!WQNext
<1>6. ASSUME NEW w \in Workers, PopWait(w) \/ WakeAgain(w)
      PROVE  UNCHANGED Abstract!wqVars
  BY <1>6 DEF PopWait, WakeAgain, Abstract!wqVars, IInv, TypeOK
<1>7. ASSUME NEW w \in Workers, Finish(w)
      PROVE  Abstract!WQNext
  BY <1>7 DEF Finish, Abstract!WQNext, Abstract!AskAgain, IInv, TypeOK
<1>8. CASE UNCHANGED vars
  BY <1>8 DEF vars, Abstract!wqVars
<1>9. QED
  BY <1>1, <1>2, <1>3, <1>4, <1>5, <1>6, <1>7, <1>8 DEF Next

(* The mutex, the condition variable and the counters implement the safety *)
(* part of the abstract queue: first in first out, each task to one worker, *)
(* no worker let go while a task is left.                                  *)
THEOREM ImplementsQueue == Spec => Abstract!WQSafety
<1>1. Init => Abstract!WQInit
  BY DEF Init, Abstract!WQInit
<1>2. QED
  BY <1>1, StepRefined, Invariance, PTL DEF Spec, Abstract!WQSafety
=============================================================================
