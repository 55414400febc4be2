------------------------ MODULE ConcurrentDownloader ------------------------
(***************************************************************************)
(* The multi-connection transfer engine of                                 *)
(* src/internal/engine/concurrent: one file of FileSize bytes is cut into  *)
(* ranges, workers take ranges from the queue, write what they receive and *)
(* report; meanwhile a balancer splits (StealWork) or duplicates           *)
(* (HedgeWork) the range of a busy worker, a health monitor cancels slow   *)
(* requests, a completion monitor closes the queue, and a pause, a cancel  *)
(* or a crash may interrupt everything; a later session goes on from the   *)
(* ranges that were saved.                                                 *)
(*                                                                         *)
(* A byte stands for one unit of transfer.  The queue is the one WorkQueue *)
(* specifies.  Servers are taken to honour Range: the body of a request is *)
(* the part of the range that lies in the file, and a range that starts    *)
(* behind the end is refused (416).                                        *)
(***************************************************************************)
EXTENDS Integers, Sequences, FiniteSets

CONSTANTS Workers,       \* numConns goroutines
          NoWorker,      \* none of them
          FileSize,      \* the size of the file
          ChunkSize,     \* determineChunkSize
          MinChunk,      \* types.MinChunk: the smallest range worth splitting
          BufferSize,    \* Runtime.GetWorkerBufferSize
          MaxRetries,    \* Runtime.GetMaxTaskRetries
          MaxFaults,     \* bound: network or disk errors in a behaviour
          MaxCancels,    \* bound: requests the health monitor cancels
          MaxHedges,     \* bound: ranges the balancer duplicates
          MaxSessions    \* bound: times the download is started

ASSUME EngineAssumption ==
  /\ IsFiniteSet(Workers) /\ Workers # {} /\ NoWorker \notin Workers
  /\ FileSize \in Nat \ {0}
  /\ ChunkSize \in Nat \ {0}
  /\ MinChunk \in Nat \ {0}
  /\ BufferSize \in Nat \ {0}
  /\ MaxRetries \in Nat \ {0}
  /\ {MaxFaults, MaxCancels, MaxHedges, MaxSessions} \subseteq Nat

VARIABLES
  written,     \* the bytes of the file that are on disk
  queue,       \* queue.tasks
  closed,      \* queue.done
  pc,          \* where each worker is
  task,        \* worker: its variable task
  attempt,     \* worker: its variable attempt
  got,         \* worker: readSoFar
  readErr,     \* worker: readErr, then lastErr
  pend,        \* worker: pendingBytes
  active,      \* the keys of d.activeTasks
  cur,         \* activeTask.CurrentOffset
  stop,        \* activeTask.StopAt
  hedged,      \* activeTask.Hedged
  cell,        \* activeTask.SharedMaxOffset: a cell, 0 for nil
  cancelled,   \* activeTask.Cancel was called by the health monitor
  maxOff,      \* the contents of the cells
  downloaded,  \* d.State.Downloaded
  bal,         \* where the balancer is; from "aim" to "push" and in "dup" it holds d.activeMu
  loot,        \* StealWork and HedgeWork: their victim, remaining, current
  mon,         \* where the completion monitor is
  paused,      \* d.State.Paused
  ctxDone,     \* downloadCtx is cancelled
  main,        \* where Download is, then how it ended
  saved,       \* handlePause: activeRemaining, then remainingTasks
  outbox,      \* a DownloadPausedMsg no one has stored yet
  stored,      \* the tasks in the state database
  faults, cancels, sessions   \* what the bounds count

worker == <<pc, task, attempt, got, readErr, pend>>
entry == <<active, cur, stop, hedged, cell, cancelled>>
balancer == <<bal, loot>>
session == <<paused, ctxDone, main, saved, outbox, stored, sessions>>
vars == <<written, queue, closed, worker, entry, maxOff, downloaded,
          balancer, mon, session, faults, cancels>>

-----------------------------------------------------------------------------
Bytes == 0..(FileSize - 1)
Task == [off : Nat, end : Nat, cell : Nat]
NoTask == [off |-> 0, end |-> 0, cell |-> 0]
NoLoot == [victim |-> NoWorker, remaining |-> 0, from |-> 0]

Lesser(a, b) == IF a < b THEN a ELSE b
Greater(a, b) == IF a > b THEN a ELSE b

TaskBytes(t) == t.off..(t.end - 1)
BytesOf(ts) == UNION {TaskBytes(ts[i]) : i \in DOMAIN ts}

(* The lengths of ts added up, a byte that is in two ranges counted twice. *)
TotalLength(ts) == Cardinality(UNION {{i} \X TaskBytes(ts[i]) : i \in DOMAIN ts})

(* createTasks: the whole file in ranges of ChunkSize, the last one shorter. *)
FreshTasks ==
  [i \in 1..((FileSize + ChunkSize - 1) \div ChunkSize) |->
     [off |-> (i - 1) * ChunkSize, end |-> Lesser(i * ChunkSize, FileSize), cell |-> 0]]

(* RemainingBytes and RemainingTask of an active task.                     *)
Remaining(w) == IF cur[w] >= stop[w] THEN 0 ELSE stop[w] - cur[w]
RemainingTask(w) == [off |-> cur[w], end |-> stop[w], cell |-> 0]

(* alignedSplitSize, with AlignSize one unit.                              *)
SplitSize(remaining) ==
  IF remaining \div 2 < MinChunk THEN 0 ELSE remaining \div 2

Idle == {w \in Workers : pc[w] = "idle"}

\* Mutant: StealWork unlocks before it pushes.
MuFreeAtPush == bal \notin {"aim", "cut", "dup"}
MuFree == bal \notin {"aim", "cut", "push", "dup"}

-----------------------------------------------------------------------------
SessionStart(ts) ==
  /\ queue' = ts
  /\ closed' = FALSE
  /\ pc' = [w \in Workers |-> "pop"]
  /\ task' = [w \in Workers |-> NoTask]
  /\ attempt' = [w \in Workers |-> 0]
  /\ got' = [w \in Workers |-> 0]
  /\ readErr' = [w \in Workers |-> "nil"]
  /\ pend' = [w \in Workers |-> 0]
  /\ active' = {}
  /\ cur' = [w \in Workers |-> 0]
  /\ stop' = [w \in Workers |-> 0]
  /\ hedged' = [w \in Workers |-> FALSE]
  /\ cell' = [w \in Workers |-> 0]
  /\ cancelled' = [w \in Workers |-> FALSE]
  /\ maxOff' = <<>>
  /\ bal' = "rest"
  /\ loot' = NoLoot
  /\ mon' = "rest"
  /\ paused' = FALSE
  /\ ctxDone' = FALSE
  /\ main' = "run"
  /\ saved' = <<>>

Init ==
  /\ written = {}
  /\ queue = FreshTasks
  /\ closed = FALSE
  /\ pc = [w \in Workers |-> "pop"]
  /\ task = [w \in Workers |-> NoTask]
  /\ attempt = [w \in Workers |-> 0]
  /\ got = [w \in Workers |-> 0]
  /\ readErr = [w \in Workers |-> "nil"]
  /\ pend = [w \in Workers |-> 0]
  /\ active = {}
  /\ cur = [w \in Workers |-> 0]
  /\ stop = [w \in Workers |-> 0]
  /\ hedged = [w \in Workers |-> FALSE]
  /\ cell = [w \in Workers |-> 0]
  /\ cancelled = [w \in Workers |-> FALSE]
  /\ maxOff = <<>>
  /\ downloaded = 0
  /\ bal = "rest"
  /\ loot = NoLoot
  /\ mon = "rest"
  /\ paused = FALSE
  /\ ctxDone = FALSE
  /\ main = "run"
  /\ saved = <<>>
  /\ outbox = <<>>
  /\ stored = <<>>
  /\ faults = 0
  /\ cancels = 0
  /\ sessions = 1

-----------------------------------------------------------------------------
(* worker: queue.Pop, as WorkQueue has it; a popped task starts at its     *)
(* first attempt.                                                          *)
Pop(w) ==
  /\ pc[w] \in {"pop", "idle"}
  /\ queue # <<>>
  /\ task' = [task EXCEPT ![w] = Head(queue)]
  /\ queue' = Tail(queue)
  /\ attempt' = [attempt EXCEPT ![w] = 0]
  /\ pc' = [pc EXCEPT ![w] = "try"]
  /\ UNCHANGED <<written, closed, got, readErr, pend, entry, maxOff, downloaded,
                 balancer, mon, session, faults, cancels>>

PopNothing(w) ==
  /\ pc[w] \in {"pop", "idle"}
  /\ queue = <<>>
  /\ pc' = [pc EXCEPT ![w] = IF closed THEN "exit" ELSE "idle"]
  /\ pc' # pc
  /\ UNCHANGED <<written, queue, closed, task, attempt, got, readErr, pend, entry,
                 maxOff, downloaded, balancer, mon, session, faults, cancels>>

(* worker: the range is entered in d.activeTasks and requested.            *)
Register(w) ==
  /\ pc[w] = "try"
  /\ MuFree
  /\ active' = active \cup {w}
  /\ cur' = [cur EXCEPT ![w] = task[w].off]
  /\ stop' = [stop EXCEPT ![w] = task[w].end]
  /\ cell' = [cell EXCEPT ![w] = task[w].cell]
  /\ hedged' = [hedged EXCEPT ![w] = task[w].cell # 0]
  /\ cancelled' = [cancelled EXCEPT ![w] = FALSE]
  /\ pc' = [pc EXCEPT ![w] = "read"]
  /\ UNCHANGED <<written, queue, closed, task, attempt, got, readErr, pend, maxOff,
                 downloaded, balancer, mon, session, faults, cancels>>

(* downloadTask: fill the buffer, up to StopAt as it is now, to the end of *)
(* the response body, or to an error.  n bytes arrive and err ends it.     *)
Receive(w, n, err) ==
  /\ got' = [got EXCEPT ![w] = n]
  /\ readErr' = [readErr EXCEPT ![w] = err]
  /\ pc' = [pc EXCEPT ![w] = IF n > 0 THEN "write" ELSE "returned"]
  /\ UNCHANGED <<written, queue, closed, task, attempt, pend, entry, maxOff,
                 downloaded, balancer, mon, session, cancels>>

ReadSize(w) == Lesser(BufferSize, stop[w] - cur[w])
BodyLeft(w) == Greater(0, Lesser(task[w].end, FileSize) - cur[w])

(* The offset after this buffer.                                           *)
NextOffset(w) == cur[w] + got[w]

ReadStopped(w) ==
  /\ pc[w] = "read"
  /\ cur[w] >= stop[w]
  /\ Receive(w, 0, "nil")
  /\ UNCHANGED faults

ReadBody(w) ==
  /\ pc[w] = "read"
  /\ cur[w] < stop[w]
  /\ task[w].off < FileSize
  /\ IF BodyLeft(w) < ReadSize(w)
     THEN Receive(w, BodyLeft(w), "eof")
     ELSE Receive(w, ReadSize(w), "nil")
  /\ UNCHANGED faults

(* The request is refused, cancelled or breaks off.  (A failing WriteAt    *)
(* leaves the same state as an error before the first byte.)               *)
ReadFails(w) ==
  /\ pc[w] = "read"
  /\ cur[w] < stop[w]
  /\ \E n \in 0..(ReadSize(w) - 1) :
       /\ n <= BodyLeft(w)
       /\ Receive(w, n, "fail")
  /\ \/ /\ \/ ctxDone
           \/ cancelled[w]
           \/ task[w].off >= FileSize
        /\ UNCHANGED faults
     \/ /\ faults < MaxFaults
        /\ faults' = faults + 1

(* downloadTask: StopAt is read again, what lies behind it is dropped, the *)
(* rest is written.                                                        *)
Write(w) ==
  /\ pc[w] = "write"
  /\ LET n == Lesser(got[w], stop[w] - cur[w]) IN
     IF n <= 0
     THEN /\ got' = [got EXCEPT ![w] = 0]
          /\ readErr' = [readErr EXCEPT ![w] = "nil"]
          /\ pc' = [pc EXCEPT ![w] = "returned"]
          /\ UNCHANGED written
     ELSE /\ got' = [got EXCEPT ![w] = n]
          /\ written' = written \cup (cur[w]..(cur[w] + n - 1))
          /\ pc' = [pc EXCEPT ![w] = "count"]
          /\ UNCHANGED readErr
  /\ UNCHANGED <<queue, closed, task, attempt, pend, entry, maxOff, downloaded,
                 balancer, mon, session, faults, cancels>>

(* downloadTask: newlyWritten.  Racing workers share a cell with the       *)
(* highest offset any of them reached.                                     *)
Count(w) ==
  /\ pc[w] = "count"
  /\ pc' = [pc EXCEPT ![w] = "store"]
  /\ LET offset == NextOffset(w) IN
     IF cell[w] = 0
     THEN /\ pend' = [pend EXCEPT ![w] = @ + got[w]]
          /\ UNCHANGED maxOff
     ELSE /\ pend' = [pend EXCEPT ![w] =
                        @ + Lesser(got[w], Greater(0, offset - maxOff[cell[w]]))]
          /\ maxOff' = [maxOff EXCEPT ![cell[w]] = Greater(@, offset)]
  /\ UNCHANGED <<written, queue, closed, task, attempt, got, readErr, entry,
                 downloaded, balancer, mon, session, faults, cancels>>

(* downloadTask: CurrentOffset moves on; flushUpdates when the batch is    *)
(* large or old enough.                                                    *)
Store(w) ==
  /\ pc[w] = "store"
  /\ cur' = [cur EXCEPT ![w] = NextOffset(w)]
  /\ got' = [got EXCEPT ![w] = 0]
  /\ pc' = [pc EXCEPT ![w] = IF readErr[w] = "nil" THEN "read" ELSE "returned"]
  /\ \/ UNCHANGED <<pend, downloaded>>
     \/ /\ downloaded' = downloaded + pend[w]
        /\ pend' = [pend EXCEPT ![w] = 0]
  /\ UNCHANGED <<written, queue, closed, task, attempt, readErr, active, stop, hedged,
                 cell, cancelled, maxOff, balancer, mon, session, faults, cancels>>

(* worker, back from downloadTask (whose deferred flushUpdates has run):   *)
(* the download is being stopped, and the entry stays for handlePause; or  *)
(* the health monitor cancelled the request, and what is left of it goes   *)
(* back to the queue; or neither.                                          *)
Flush(w) ==
  /\ downloaded' = downloaded + pend[w]
  /\ pend' = [pend EXCEPT ![w] = 0]

Abandon(w) ==
  /\ pc[w] = "returned"
  /\ ctxDone
  /\ Flush(w)
  /\ pc' = [pc EXCEPT ![w] = "exit"]
  /\ attempt' = [attempt EXCEPT ![w] = 0]
  /\ readErr' = [readErr EXCEPT ![w] = "nil"]
  /\ UNCHANGED <<written, queue, closed, task, got, entry, maxOff,
                 balancer, mon, session, faults, cancels>>

Requeue(w) ==
  /\ pc[w] = "returned"
  /\ ~ctxDone
  /\ cancelled[w]
  /\ readErr[w] = "fail"
  /\ Flush(w)
  /\ LET rest == [RemainingTask(w) EXCEPT !.end = Lesser(@, task[w].end)] IN
     queue' = IF rest.off < rest.end THEN Append(queue, rest) ELSE queue
  /\ readErr' = [readErr EXCEPT ![w] = "nil"]
  /\ pc' = [pc EXCEPT ![w] = "drop"]
  /\ UNCHANGED <<written, closed, task, attempt, got, entry, maxOff, balancer, mon,
                 session, faults, cancels>>

Ended(w) ==
  /\ pc[w] = "returned"
  /\ ~ctxDone
  /\ ~(cancelled[w] /\ readErr[w] = "fail")
  /\ Flush(w)
  /\ pc' = [pc EXCEPT ![w] = "drop"]
  /\ UNCHANGED <<written, queue, closed, task, attempt, got, readErr, entry, maxOff,
                 balancer, mon, session, faults, cancels>>

(* worker: delete(d.activeTasks, id).  After an error the task shrinks to  *)
(* what is left up to its own end and is tried again, or given back.       *)
MayRetry(w) == attempt[w] + 1 < MaxRetries

Unregister(w) ==
  /\ pc[w] = "drop"
  /\ MuFree
  /\ active' = active \ {w}
  /\ cur' = [cur EXCEPT ![w] = 0]
  /\ stop' = [stop EXCEPT ![w] = 0]
  /\ hedged' = [hedged EXCEPT ![w] = FALSE]
  /\ cell' = [cell EXCEPT ![w] = 0]
  /\ cancelled' = [cancelled EXCEPT ![w] = FALSE]
  /\ readErr' = [readErr EXCEPT ![w] = "nil"]
  /\ IF readErr[w] = "fail"
     THEN /\ task' = [task EXCEPT ![w] = IF cur[w] > @.off
                                         THEN [off |-> cur[w], end |-> @.end, cell |-> 0]
                                         ELSE @]
          /\ attempt' = [attempt EXCEPT ![w] = @ + 1]
          /\ pc' = [pc EXCEPT ![w] = IF MayRetry(w) THEN "try" ELSE "giveback"]
     ELSE /\ task' = [task EXCEPT ![w] = NoTask]
          /\ attempt' = [attempt EXCEPT ![w] = 0]
          /\ pc' = [pc EXCEPT ![w] = "pop"]
  /\ UNCHANGED <<written, queue, closed, got, pend, maxOff, downloaded, balancer, mon,
                 session, faults, cancels>>

GiveBack(w) ==
  /\ pc[w] = "giveback"
  /\ queue' = Append(queue, task[w])
  /\ task' = [task EXCEPT ![w] = NoTask]
  /\ attempt' = [attempt EXCEPT ![w] = 0]
  /\ pc' = [pc EXCEPT ![w] = "pop"]
  /\ UNCHANGED <<written, closed, got, readErr, pend, entry, maxOff, downloaded,
                 balancer, mon, session, faults, cancels>>

-----------------------------------------------------------------------------
(* The balancer changes the queue, its own variables, and what BalKeeps    *)
(* leaves out.                                                             *)
BalKeeps == UNCHANGED <<written, closed, worker, active, cur, cancelled, downloaded,
                        mon, session, faults, cancels>>

(* runBalancer: some worker is idle and the queue is empty.  (A tick may   *)
(* still win the select after the context is done.)                        *)
BalanceTick ==
  /\ bal = "rest"
  /\ Idle # {}
  /\ queue = <<>>
  /\ bal' = "steal"
  /\ BalKeeps /\ UNCHANGED <<queue, loot, stop, hedged, cell, maxOff>>

(* StealWork: the entry with the most bytes left, if that is enough to     *)
(* split.  d.activeMu is taken here and kept up to the Push, but the       *)
(* victim goes on moving its CurrentOffset.                                *)
StealPick ==
  /\ bal = "steal"
  /\ \E v \in active :
       /\ Remaining(v) > MinChunk
       /\ SplitSize(Remaining(v)) > 0
       /\ \A w \in active : Remaining(w) <= Remaining(v)
       /\ loot' = [victim |-> v, remaining |-> Remaining(v), from |-> 0]
  /\ bal' = "aim"
  /\ BalKeeps /\ UNCHANGED <<queue, stop, hedged, cell, maxOff>>

AfterNoSteal == IF queue = <<>> THEN "hedge" ELSE "rest"

StealNothing ==
  /\ bal = "steal"
  /\ \A v \in active : Remaining(v) <= MinChunk \/ SplitSize(Remaining(v)) = 0
  /\ bal' = AfterNoSteal
  /\ BalKeeps /\ UNCHANGED <<queue, loot, stop, hedged, cell, maxOff>>

StealAim ==
  /\ bal = "aim"
  /\ loot' = [loot EXCEPT !.from = cur[loot.victim]]
  /\ bal' = "cut"
  /\ BalKeeps /\ UNCHANGED <<queue, stop, hedged, cell, maxOff>>

NewStop == loot.from + SplitSize(loot.remaining)

StealCut ==
  /\ bal = "cut"
  /\ stop' = [stop EXCEPT ![loot.victim] = NewStop]
  /\ bal' = "push"
  /\ BalKeeps /\ UNCHANGED <<queue, loot, hedged, cell, maxOff>>

(* What is stolen: from where the victim will stop, or has got to, up to   *)
(* what StealWork takes for the victim's end.                              *)
\* Mutant: the victim's end is read after it was moved.
StolenTaskReread == [off |-> Greater(NewStop, cur[loot.victim]),
                     end |-> stop[loot.victim],
                     cell |-> 0]
StolenTask == [off |-> Greater(NewStop, cur[loot.victim]),
               end |-> loot.from + loot.remaining,
               cell |-> 0]

StealPush ==
  /\ bal = "push"
  /\ IF StolenTask.off < StolenTask.end
     THEN /\ queue' = Append(queue, StolenTask)
          /\ bal' = "rest"
     ELSE /\ bal' = AfterNoSteal
          /\ UNCHANGED queue
  /\ loot' = NoLoot
  /\ BalKeeps /\ UNCHANGED <<stop, hedged, cell, maxOff>>

(* HedgeWork: the not yet hedged entry with the most bytes left is marked, *)
(* then its offset and its end are read again, and the rest of it is       *)
(* queued a second time, both copies sharing a cell.  The cell is          *)
(* published to the victim while the victim may be counting.               *)
HedgeMark ==
  /\ bal = "hedge"
  /\ Len(maxOff) < MaxHedges
  /\ \E v \in active :
       /\ ~hedged[v]
       /\ Remaining(v) > 0
       /\ \A w \in active : hedged[w] \/ Remaining(w) <= Remaining(v)
       /\ hedged' = [hedged EXCEPT ![v] = TRUE]
       /\ loot' = [NoLoot EXCEPT !.victim = v]
  /\ bal' = "dup"
  /\ BalKeeps /\ UNCHANGED <<queue, stop, cell, maxOff>>

HedgeNothing ==
  /\ bal = "hedge"
  /\ \/ \A v \in active : hedged[v] \/ Remaining(v) = 0
     \/ Len(maxOff) >= MaxHedges
  /\ bal' = "rest"
  /\ BalKeeps /\ UNCHANGED <<queue, loot, stop, hedged, cell, maxOff>>

HedgePush ==
  /\ bal = "dup"
  /\ LET v == loot.victim IN
     IF cur[v] >= stop[v]
     THEN UNCHANGED <<queue, cell, maxOff>>
     ELSE /\ maxOff' = Append(maxOff, cur[v])
          /\ cell' = [cell EXCEPT ![v] = Len(maxOff) + 1]
          /\ queue' = Append(queue, [off |-> cur[v], end |-> stop[v], cell |-> Len(maxOff) + 1])
  /\ bal' = "rest"
  /\ loot' = NoLoot
  /\ BalKeeps /\ UNCHANGED <<stop, hedged>>

-----------------------------------------------------------------------------
(* runHealthMonitor: a request that has stalled or is slow is cancelled.   *)
HealthCancel(w) ==
  /\ cancels < MaxCancels
  /\ MuFree
  /\ w \in active
  /\ pc[w] \in {"read", "write", "count", "store", "returned"}
  /\ ~cancelled[w]
  /\ cancelled' = [cancelled EXCEPT ![w] = TRUE]
  /\ cancels' = cancels + 1
  /\ UNCHANGED <<written, queue, closed, worker, active, cur, stop, hedged, cell, maxOff,
                 downloaded, balancer, mon, session, faults>>

(* runCompletionMonitor: Len is read first, IdleWorkers or Downloaded      *)
(* later; or the context is done.                                          *)
MonKeeps == UNCHANGED <<written, queue, worker, entry, maxOff, downloaded, balancer,
                        session, faults, cancels>>

MonitorLen ==
  /\ mon = "rest"
  /\ queue = <<>>
  /\ mon' = "empty"
  /\ MonKeeps /\ UNCHANGED closed

MonitorDecide ==
  /\ mon = "empty"
  /\ IF Idle = Workers \/ downloaded >= FileSize
     THEN closed' = TRUE /\ mon' = "gone"
     ELSE mon' = "rest" /\ UNCHANGED closed
  /\ MonKeeps

\* Mutant: the monitor leaves the queue open when the context ends.
MonitorQuits ==
  /\ mon = "rest"
  /\ ctxDone
  /\ mon' = "gone"
  /\ MonKeeps /\ UNCHANGED closed

MonitorStop ==
  /\ mon = "rest"
  /\ ctxDone
  /\ closed' = TRUE
  /\ mon' = "gone"
  /\ MonKeeps

-----------------------------------------------------------------------------
SessionKeeps == UNCHANGED <<written, closed, worker, entry, maxOff, downloaded,
                            balancer, mon, faults, cancels>>

(* State.Pause: the flag first, then the context.  A cancel (or shutdown)  *)
(* only ends the context.                                                  *)
Running == main \in {"run", "ctx", "collect", "drain"}

Pause ==
  /\ Running
  /\ ~paused
  /\ paused' = TRUE
  /\ SessionKeeps /\ UNCHANGED <<queue, ctxDone, main, saved, outbox, stored, sessions>>

CancelContext ==
  /\ Running
  /\ ~ctxDone
  /\ ctxDone' = TRUE
  /\ SessionKeeps /\ UNCHANGED <<queue, paused, main, saved, outbox, stored, sessions>>

(* Download, after executeWorkers: IsPaused, then downloadCtx.Err.         *)
\* Mutant: handlePause does not wait for the workers.
WorkersCancelled ==
  /\ main = "run"
  /\ ctxDone
  /\ main' = IF paused THEN "collect" ELSE "ctx"
  /\ SessionKeeps /\ UNCHANGED <<queue, paused, ctxDone, saved, outbox, stored, sessions>>

WorkersJoined ==
  /\ main = "run"
  /\ \A w \in Workers : pc[w] = "exit"
  /\ main' = IF paused THEN "collect" ELSE "ctx"
  /\ SessionKeeps /\ UNCHANGED <<queue, paused, ctxDone, saved, outbox, stored, sessions>>

CheckContext ==
  /\ main = "ctx"
  /\ main' = IF ctxDone THEN "canceled" ELSE "done"
  /\ SessionKeeps /\ UNCHANGED <<queue, paused, ctxDone, saved, outbox, stored, sessions>>

\* Mutant: the map of active tasks is left after its first entry.
CollectedOne == {w \in active : Remaining(w) > 0 /\ w = CHOOSE v \in active : TRUE}

(* handlePause: what active tasks have left (in no particular order)...    *)
Collected == {w \in active : Remaining(w) > 0}

CollectActive ==
  /\ main = "collect"
  /\ MuFree
  /\ \E order \in [1..Cardinality(Collected) -> Collected] :
       /\ \A w \in Collected : \E i \in DOMAIN order : order[i] = w
       /\ saved' = [i \in DOMAIN order |-> RemainingTask(order[i])]
  /\ main' = "drain"
  /\ SessionKeeps /\ UNCHANGED <<queue, paused, ctxDone, outbox, stored, sessions>>

(* ... and what the queue still holds.  If that is nothing, the download   *)
(* is complete after all; else it is sent off to be stored.                *)
(* (FinalizeSession puts VerifiedProgress for a negative Downloaded.)      *)
WithoutCells(ts) == [i \in DOMAIN ts |-> [ts[i] EXCEPT !.cell = 0]]
ComputedDownloaded(ts) == FileSize - TotalLength(ts)

RemainingTasks == WithoutCells(queue) \o saved

DrainQueue ==
  /\ main = "drain"
  /\ queue' = <<>>
  /\ LET rest == RemainingTasks IN
     IF TotalLength(rest) = 0
     THEN /\ paused' = FALSE
          /\ main' = "done"
          /\ downloaded' = FileSize
          /\ UNCHANGED <<saved, outbox>>
     ELSE /\ saved' = rest
          /\ outbox' = rest
          /\ main' = "paused"
          /\ downloaded' \in IF ComputedDownloaded(rest) >= 0
                            THEN {ComputedDownloaded(rest)}
                            ELSE 0..FileSize
          /\ UNCHANGED paused
  /\ UNCHANGED <<written, closed, worker, entry, maxOff, balancer, mon, ctxDone, stored,
                 sessions, faults, cancels>>

(* The event worker stores a pause message when it gets to it, maybe only  *)
(* after the next session has begun.                                       *)
Persist ==
  /\ outbox # <<>>
  /\ stored' = outbox
  /\ outbox' = <<>>
  /\ SessionKeeps /\ UNCHANGED <<queue, paused, ctxDone, main, saved, sessions>>

(* setupTasks: resume from the stored tasks, if any; Downloaded is then    *)
(* what they leave (RecalculateProgress).  Else start over.                *)
SetupTasks == IF stored # <<>> THEN stored ELSE FreshTasks

Restart ==
  /\ sessions < MaxSessions
  /\ sessions' = sessions + 1
  /\ SessionStart(SetupTasks)
  /\ downloaded' = IF stored # <<>>
                   THEN ComputedDownloaded([i \in DOMAIN stored |->
                          [stored[i] EXCEPT !.end = Lesser(@, FileSize)]])
                   ELSE 0
  /\ UNCHANGED <<written, stored, faults, cancels>>

Resume ==
  /\ main \in {"paused", "canceled"}
  /\ Restart
  /\ UNCHANGED outbox

(* The process dies, with the messages in it, and the file survives.       *)
Crash ==
  /\ main # "done"
  /\ Restart
  /\ outbox' = <<>>

-----------------------------------------------------------------------------
WorkerStep(w) ==
  \/ Pop(w) \/ PopNothing(w) \/ Register(w)
  \/ ReadStopped(w) \/ ReadBody(w) \/ ReadFails(w)
  \/ Write(w) \/ Count(w) \/ Store(w)
  \/ Abandon(w) \/ Requeue(w) \/ Ended(w) \/ Unregister(w) \/ GiveBack(w)

BalancerStep ==
  \/ BalanceTick
  \/ StealPick \/ StealNothing \/ StealAim \/ StealCut \/ StealPush
  \/ HedgeMark \/ HedgeNothing \/ HedgePush

MonitorStep == MonitorLen \/ MonitorDecide \/ MonitorStop

DownloadStep == WorkersJoined \/ CheckContext \/ CollectActive \/ DrainQueue

Next ==
  \/ \E w \in Workers : WorkerStep(w) \/ HealthCancel(w)
  \/ BalancerStep
  \/ MonitorStep
  \/ DownloadStep
  \/ Pause \/ CancelContext \/ Persist \/ Resume \/ Crash

(* Every goroutine that can run is scheduled; the tickers of the balancer  *)
(* and of the completion monitor keep ticking.  A select takes any of its  *)
(* ready cases at random, so a done context is not passed over for ever    *)
(* for the ticker.  Nobody has to press pause, and no fault has to happen. *)
Fairness ==
  /\ \A w \in Workers : WF_vars(WorkerStep(w))
  /\ WF_vars(BalancerStep)
  /\ WF_vars(MonitorLen)
  /\ WF_vars(MonitorDecide)
  /\ SF_vars(MonitorStop)
  /\ WF_vars(DownloadStep)

Spec == Init /\ [][Next]_vars /\ Fairness
-----------------------------------------------------------------------------
TypeOK ==
  /\ written \subseteq Bytes
  /\ queue \in Seq(Task)
  /\ closed \in BOOLEAN
  /\ pc \in [Workers -> {"pop", "idle", "try", "read", "write", "count", "store",
                         "returned", "drop", "giveback", "exit"}]
  /\ task \in [Workers -> Task]
  /\ attempt \in [Workers -> 0..MaxRetries]
  /\ got \in [Workers -> Nat]
  /\ readErr \in [Workers -> {"nil", "eof", "fail"}]
  /\ pend \in [Workers -> Nat]
  /\ active \subseteq Workers
  /\ cur \in [Workers -> Nat]
  /\ stop \in [Workers -> Nat]
  /\ hedged \in [Workers -> BOOLEAN]
  /\ cell \in [Workers -> Nat]
  /\ cancelled \in [Workers -> BOOLEAN]
  /\ maxOff \in Seq(Nat)
  /\ downloaded \in Int
  /\ bal \in {"rest", "steal", "aim", "cut", "push", "hedge", "dup"}
  /\ loot \in [victim : Workers \cup {NoWorker}, remaining : Nat, from : Nat]
  /\ mon \in {"rest", "empty", "gone"}
  /\ paused \in BOOLEAN
  /\ ctxDone \in BOOLEAN
  /\ main \in {"run", "ctx", "collect", "drain", "done", "canceled", "paused"}
  /\ saved \in Seq(Task)
  /\ outbox \in Seq(Task)
  /\ stored \in Seq(Task)
  /\ {faults, cancels, sessions} \subseteq Nat

(* What the engine still owes: the bytes in the queue, those of the task a *)
(* worker has in hand, and those of an active task between its offset and  *)
(* its end; while StealWork has moved the end but not queued the rest,     *)
(* that rest too.                                                          *)
InHand == {w \in Workers : pc[w] \in {"try", "giveback"}}
Duty(w) == cur[w]..(Lesser(stop[w], task[w].end) - 1)
InFlight == IF bal = "push" THEN TaskBytes(StolenTask) ELSE {}

(* A worker that failed and is about to leave the registry will take its   *)
(* task up again from where it is, to the end the task had.                *)
Owed ==
  BytesOf(queue) \cup InFlight
    \cup (UNION {TaskBytes(task[w]) : w \in InHand})
    \cup (UNION {Duty(w) : w \in active})

Missing == Bytes \ written

(* No byte is forgotten while the download runs: splitting, duplicating,   *)
(* cancelling, failing and requeuing ranges concurrently, whatever is not  *)
(* on disk is still in somebody's hands (worker.go:104-178, 403-537).      *)
NoByteForgotten == main \in {"run", "collect"} => Missing \subseteq Owed

(* Download reports success (and handlePause a completion at the boundary) *)
(* only for a file that is whole, however the monitor's unlocked reads of  *)
(* Len, IdleWorkers and Downloaded were interleaved with the workers       *)
(* (downloader.go:283-302, 461, 542-547).                                  *)
DoneMeansWhole == main = "done" => Missing = {}

(* A pause loses nothing: the ranges handed to the database contain every  *)
(* byte that is not on disk, also when the balancer moves a range between  *)
(* the registry and the queue while handlePause collects them, first here, *)
(* then there (downloader.go:523-536).                                     *)
PauseKeepsMissing == main = "paused" => Missing \subseteq BytesOf(saved)

(* Whatever session a restart begins from -- a pause message not stored    *)
(* yet, one stored late, a crash -- the tasks it loads contain every byte  *)
(* not on disk (downloader.go:360-391).                                    *)
RestartCovers ==
  /\ stored # <<>> => Missing \subseteq BytesOf(stored)
  /\ outbox # <<>> => Missing \subseteq BytesOf(outbox)

(* The bytes of an active task before its offset are on disk: what the     *)
(* balancer and handlePause leave out, trusting CurrentOffset, is there.   *)
PrefixOnDisk ==
  \A w \in active : (task[w].off..(cur[w] - 1)) \cap Bytes \subseteq written

(* The download comes to an end: idle workers are let go, by the monitor   *)
(* or by the end of the context, whatever was requeued, given back or      *)
(* duplicated before (downloader.go:445-520).                              *)
Settles == <>(main \in {"done", "canceled", "paused"})

-----------------------------------------------------------------------------
(* What comments of the source say and the code does not keep.             *)

(* worker.go:401, "StealWork tries to split an active task": what is       *)
(* stolen is a part of the victim's task.                                  *)
StealSplits ==
  bal = "push" /\ StolenTask.off < StolenTask.end
    => StolenTask.end <= task[loot.victim].end

(* downloader.go:537, "Calculate Downloaded from remaining tasks (ensures  *)
(* consistency)": a pause reports a number of bytes a file of this size    *)
(* can have.                                                               *)
PausedReportSane == main = "paused" => ComputedDownloaded(saved) \in 0..FileSize
=============================================================================
