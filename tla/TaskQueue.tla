----------------------------- MODULE TaskQueue -----------------------------
(***************************************************************************)
(* src/internal/engine/concurrent/task_queue.go: the queue that hands byte *)
(* ranges to the download workers.  Each call runs under q.mu, so it is    *)
(* one step, except Pop, which q.cond.Wait cuts in two: a worker that      *)
(* finds nothing goes to sleep and, once a Signal or Broadcast has made it *)
(* runnable, tests the queue again when it gets the mutex back.  The       *)
(* counters idleWorkers, waiting and size are read by others without the   *)
(* mutex.                                                                  *)
(***************************************************************************)
EXTENDS Naturals, Sequences, FiniteSets

CONSTANTS Workers,     \* the goroutines that call Pop
          Tasks,       \* the ranges that may be pushed
          NoTask,      \* held by a worker that never took one
          MaxPushes    \* bound: tasks pushed in a behaviour

ASSUME QueueAssumption ==
  /\ IsFiniteSet(Workers)
  /\ Workers # {}
  /\ NoTask \notin Tasks
  /\ MaxPushes \in Nat

VARIABLES tasks,        \* q.tasks[q.head:]
          done,         \* q.done
          pc,           \* per worker: "pop", "wait" (inside cond.Wait), "busy", "gone"
          notified,     \* the waiters a Signal or Broadcast has already chosen
          waiting,      \* q.waiting
          idleWorkers,  \* q.idleWorkers
          size,         \* q.size
          held,         \* the task a worker was last given
          pushed        \* tasks pushed so far, only to bound the model

vars == <<tasks, done, pc, notified, waiting, idleWorkers, size, held, pushed>>

(* Inside cond.Wait; and of those, the ones no Signal has chosen yet.      *)
Waiters == {w \in Workers : pc[w] = "wait"}
Sleeping == Waiters \ notified

TypeOK ==
  /\ tasks \in Seq(Tasks)
  /\ done \in BOOLEAN
  /\ pc \in [Workers -> {"pop", "wait", "busy", "gone"}]
  /\ notified \in SUBSET Workers
  /\ waiting \in Nat
  /\ idleWorkers \in Nat
  /\ size \in Nat
  /\ held \in [Workers -> Tasks \cup {NoTask}]
  /\ pushed \in Nat

Init ==
  /\ tasks = <<>>
  /\ done = FALSE
  /\ pc = [w \in Workers |-> "pop"]
  /\ notified = {}
  /\ waiting = 0
  /\ idleWorkers = 0
  /\ size = 0
  /\ held = [w \in Workers |-> NoTask]
  /\ pushed = 0

(***************************************************************************)
(* signalWaitingWorkersLocked(k): at most one Signal per waiter, where a   *)
(* waiter already chosen still counts as waiting; each Signal chooses one  *)
(* more sleeper, if there is one.                                          *)
(***************************************************************************)
Smaller(a, b) == IF a < b THEN a ELSE b

\* Mutant: PushMultiple signals once.
SignalOne(k) ==
  \E chosen \in SUBSET Sleeping :
    /\ Cardinality(chosen) = Smaller(1, Cardinality(Sleeping))
    /\ notified' = notified \cup chosen

SignalWaiting(k) ==
  \E chosen \in SUBSET Sleeping :
    /\ Cardinality(chosen) = Smaller(Smaller(k, waiting), Cardinality(Sleeping))
    /\ notified' = notified \cup chosen

(* What a caller may push.                                                 *)
Batches == UNION {[1..n -> Tasks] : n \in 1..MaxPushes}

(* Push and PushMultiple: append, count, signal.                           *)
Push(ts) ==
  /\ pushed + Len(ts) <= MaxPushes
  /\ tasks' = tasks \o ts
  /\ size' = size + Len(ts)
  /\ SignalWaiting(Len(ts))
  /\ pushed' = pushed + Len(ts)
  /\ UNCHANGED <<done, pc, waiting, idleWorkers, held>>

(* What Pop does once it holds the mutex and need not wait.                *)
PopTask(w) ==
  /\ tasks # <<>>
  /\ held' = [held EXCEPT ![w] = Head(tasks)]
  /\ tasks' = Tail(tasks)
  /\ size' = size - 1
  /\ pc' = [pc EXCEPT ![w] = "busy"]

\* Mutant: a closed queue is left at once.
PopClosed(w) ==
  /\ done
  /\ pc' = [pc EXCEPT ![w] = "gone"]
  /\ UNCHANGED <<tasks, size, held>>

PopNothing(w) ==
  /\ tasks = <<>>
  /\ done
  /\ pc' = [pc EXCEPT ![w] = "gone"]
  /\ UNCHANGED <<tasks, size, held>>

(* Pop, entered.                                                           *)
PopNow(w) ==
  /\ pc[w] = "pop"
  /\ PopTask(w) \/ PopNothing(w)
  /\ UNCHANGED <<done, notified, waiting, idleWorkers, pushed>>

PopWait(w) ==
  /\ pc[w] = "pop"
  /\ tasks = <<>>
  /\ ~done
  /\ pc' = [pc EXCEPT ![w] = "wait"]
  /\ waiting' = waiting + 1
  /\ idleWorkers' = idleWorkers + 1
  /\ UNCHANGED <<tasks, done, notified, size, held, pushed>>

(* Pop, back from cond.Wait: leave with a task or with nothing, or find    *)
(* that another worker was faster and wait again.                          *)
Wake(w) ==
  /\ w \in notified
  /\ notified' = notified \ {w}
  /\ waiting' = waiting - 1
  /\ idleWorkers' = idleWorkers - 1
  /\ PopTask(w) \/ PopNothing(w)
  /\ UNCHANGED <<done, pushed>>

WakeAgain(w) ==
  /\ w \in notified
  /\ tasks = <<>>
  /\ ~done
  /\ notified' = notified \ {w}
  /\ UNCHANGED <<tasks, done, pc, waiting, idleWorkers, size, held, pushed>>

(* The worker is through with its task and calls Pop again.                *)
Finish(w) ==
  /\ pc[w] = "busy"
  /\ pc' = [pc EXCEPT ![w] = "pop"]
  /\ UNCHANGED <<tasks, done, notified, waiting, idleWorkers, size, held, pushed>>

Close ==
  /\ done' = TRUE
  /\ notified' = notified \cup Sleeping
  /\ UNCHANGED <<tasks, pc, waiting, idleWorkers, size, held, pushed>>

DrainRemaining ==
  /\ tasks' = <<>>
  /\ size' = 0
  /\ UNCHANGED <<done, pc, notified, waiting, idleWorkers, held, pushed>>

Next ==
  \/ \E ts \in Batches : Push(ts)
  \/ Close
  \/ DrainRemaining
  \/ \E w \in Workers : PopNow(w) \/ PopWait(w) \/ Wake(w) \/ WakeAgain(w) \/ Finish(w)

(* The runtime schedules every goroutine that can run; a worker returns to *)
(* Pop because a transfer ends, fails or is cancelled.                     *)
Fairness ==
  \A w \in Workers :
    /\ WF_vars(PopNow(w) \/ PopWait(w))
    /\ WF_vars(Wake(w) \/ WakeAgain(w))
    /\ WF_vars(Finish(w))

Spec == Init /\ [][Next]_vars /\ Fairness
-----------------------------------------------------------------------------
(* No wakeup is lost (task_queue.go:60, 108-125): if a worker still sleeps, *)
(* every task in the queue is matched by a waiter that has been chosen and *)
(* is about to look.  Signalling by the counter waiting, which also counts *)
(* the waiters already chosen, must not break this, nor must a worker that *)
(* pops without ever waiting.                                              *)
NoLostWakeup ==
  Sleeping # {} => Len(tasks) <= Cardinality(notified)

(* What the monitor and the balancer read without q.mu (Len, IdleWorkers)  *)
(* agrees, between two critical sections, with the queue and with the      *)
(* workers inside cond.Wait, also after a drain and after Broadcast.       *)
CountersExact ==
  /\ size = Len(tasks)
  /\ idleWorkers = Cardinality(Waiters)
  /\ waiting = idleWorkers
  /\ notified \subseteq Waiters

(* A sleeper of a closed queue has been woken: nobody waits for a task     *)
(* that no one will push (task_queue.go:76-81).                            *)
ClosedWakesAll == done => Sleeping = {}

(* Together they are inductive.                                            *)
IInv == TypeOK /\ CountersExact /\ ClosedWakesAll /\ NoLostWakeup

(* The locks, the condition variable and the counters implement the        *)
(* abstract queue: first in first out, each task to one worker, a pending  *)
(* task is taken, a worker leaves only a closed and empty queue.           *)
Abstract == INSTANCE WorkQueue WITH
  pending <- tasks,
  closed <- done,
  state <- [w \in Workers |-> IF pc[w] \in {"pop", "wait"} THEN "asking" ELSE pc[w]]

ImplementsWorkQueue == Abstract!WQSpec
=============================================================================
