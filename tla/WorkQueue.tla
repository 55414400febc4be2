----------------------------- MODULE WorkQueue -----------------------------
(***************************************************************************)
(* What the downloader needs of its task queue: tasks leave in the order   *)
(* they came, each to one worker; a worker with nothing to take is idle,   *)
(* and while there is a task some worker is going to take one; a closed    *)
(* queue lets a worker go only when no task is left.  The engine           *)
(* (ConcurrentDownloader) is written against this queue; TaskQueue shows   *)
(* that the mutex, the condition variable and the counters of              *)
(* task_queue.go implement it.                                             *)
(***************************************************************************)
EXTENDS Naturals, Sequences

CONSTANTS Workers,   \* the goroutines that pop
          Tasks,     \* what may be queued
          NoTask     \* held by a worker that never took one

VARIABLES pending,   \* the tasks in the queue, oldest first
          closed,    \* Close was called
          state,     \* what each worker does
          held       \* the task each busy worker last took

wqVars == <<pending, closed, state, held>>

WQTypeOK ==
  /\ pending \in Seq(Tasks)
  /\ closed \in BOOLEAN
  /\ state \in [Workers -> {"asking", "busy", "gone"}]
  /\ held \in [Workers -> Tasks \cup {NoTask}]

WQInit ==
  /\ pending = <<>>
  /\ closed = FALSE
  /\ state = [w \in Workers |-> "asking"]
  /\ held = [w \in Workers |-> NoTask]

(* Tasks join behind those already there.                                  *)
Put ==
  /\ pending' \in Seq(Tasks)
  /\ Len(pending) < Len(pending')
  /\ SubSeq(pending', 1, Len(pending)) = pending
  /\ UNCHANGED <<closed, state, held>>

Take(w) ==
  /\ state[w] = "asking"
  /\ pending # <<>>
  /\ held' = [held EXCEPT ![w] = Head(pending)]
  /\ pending' = Tail(pending)
  /\ state' = [state EXCEPT ![w] = "busy"]
  /\ UNCHANGED closed

Leave(w) ==
  /\ state[w] = "asking"
  /\ pending = <<>>
  /\ closed
  /\ state' = [state EXCEPT ![w] = "gone"]
  /\ UNCHANGED <<pending, closed, held>>

AskAgain(w) ==
  /\ state[w] = "busy"
  /\ state' = [state EXCEPT ![w] = "asking"]
  /\ UNCHANGED <<pending, closed, held>>

Shut ==
  /\ closed' = TRUE
  /\ UNCHANGED <<pending, state, held>>

Empty ==
  /\ pending' = <<>>
  /\ UNCHANGED <<closed, state, held>>

WQNext ==
  \/ Put
  \/ Shut
  \/ Empty
  \/ \E w \in Workers : Take(w) \/ Leave(w) \/ AskAgain(w)

WQSafety == WQInit /\ [][WQNext]_wqVars

(* A waiting task is taken by somebody, and a worker of a closed, empty    *)
(* queue is let go.                                                        *)
WQFairness ==
  /\ WF_wqVars(\E w \in Workers : Take(w))
  /\ \A w \in Workers : WF_wqVars(Leave(w))

WQSpec == WQSafety /\ WQFairness
=============================================================================
