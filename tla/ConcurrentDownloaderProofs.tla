--------------------- MODULE ConcurrentDownloaderProofs ---------------------
(***************************************************************************)
(* Proofs about the transfer engine: for every number of workers, every    *)
(* size of file, chunk and buffer, and any number of faults, cancelled     *)
(* requests, hedges and sessions, no byte that is not on disk is           *)
(* forgotten, not by a split, a duplicate, a retry, a pause or a restart,  *)
(* and a download that is told to be done is whole.                        *)
(***************************************************************************)
EXTENDS ConcurrentDownloader, FiniteSetTheorems, SequenceTheorems, TLAPS

Busy == {"read", "write", "count", "store", "returned", "drop"}
Filled == {"write", "count", "store"}

(* What holds of each worker w.  Who is between Register and Unregister    *)
(* has an entry; only the end of the context leaves an entry behind; the   *)
(* workers are joined before anything else is done.                        *)
Registered(w) ==
  /\ pc[w] \in Busy => w \in active
  /\ w \in active => pc[w] \in Busy \cup {"exit"}
  /\ w \in active /\ pc[w] = "exit" => ctxDone
  /\ main # "run" => pc[w] = "exit"

(* A buffer holds bytes of the file and of the task.                       *)
Filling(w) ==
  /\ pc[w] \in Filled =>
       /\ got[w] > 0
       /\ cur[w] + got[w] <= task[w].end
       /\ cur[w] + got[w] <= FileSize
  /\ w \in active => task[w].off <= cur[w]

(* Bytes the offset has passed, or will when it is stored, are on disk.    *)
OnDisk(w) ==
  /\ w \in active => (task[w].off..(cur[w] - 1)) \cap Bytes \subseteq written
  /\ pc[w] \in {"count", "store"} => cur[w]..(cur[w] + got[w] - 1) \subseteq written

CellKnown(w) == cell[w] <= Len(maxOff) /\ task[w].cell <= Len(maxOff)

Tries(w) == pc[w] \in Busy \cup {"try"} => attempt[w] < MaxRetries

(* While w does not move, a split that is under way does not raise its end. *)
NotRaised(w) ==
  /\ bal = "aim" /\ loot.victim = w => loot.remaining <= stop[w] - cur[w]
  /\ bal = "cut" /\ loot.victim = w => loot.from = cur[w] /\ loot.remaining <= stop[w] - cur[w]

(* A worker whose body has ended has reached the end of its task or of the *)
(* file, unless StealWork has taken the rest from it.                      *)
BodyEnd(w) == Lesser(task[w].end, FileSize)
EndedAtEnd(w) ==
  /\ pc[w] = "write" /\ readErr[w] = "eof" =>
       /\ cur[w] + got[w] = BodyEnd(w)
       /\ stop[w] >= cur[w] + got[w] \/ NotRaised(w)
  /\ pc[w] \in {"count", "store"} /\ readErr[w] = "eof" =>
       \/ cur[w] + got[w] >= BodyEnd(w)
       \/ cur[w] + got[w] >= stop[w] /\ NotRaised(w)

At(w) ==
  /\ Registered(w) /\ Filling(w) /\ OnDisk(w) /\ CellKnown(w)
  /\ Tries(w) /\ EndedAtEnd(w)

(* A download whose workers have all left by themselves has nothing queued. *)
LeftEmpty == (\A w \in Workers : pc[w] = "exit") /\ ~ctxDone => queue = <<>>

(* Cells that are referred to exist.  What is stored refers to none.       *)
Uncelled(ts) == \A i \in DOMAIN ts : ts[i].cell = 0
Celled == \A i \in DOMAIN queue : queue[i].cell <= Len(maxOff)
NoCells == Uncelled(saved) /\ Uncelled(outbox) /\ Uncelled(stored)

(* StealWork and HedgeWork keep hold of their victim, and what StealWork   *)
(* takes for the victim's end is not before it.                            *)
LootHeld ==
  /\ ~MuFree => loot.victim \in active
  /\ bal = "aim" => cur[loot.victim] + loot.remaining >= stop[loot.victim]
  /\ bal = "cut" => loot.from + loot.remaining >= stop[loot.victim]

(* A worker that has come to the end, or has given the rest back, owes     *)
(* nothing, whatever StealWork may still do to its entry.                  *)
RealDuty(w) ==
  IF pc[w] \in {"returned", "drop"} /\ readErr[w] # "fail" THEN {} ELSE Duty(w)

(* Every byte that is not on disk is in somebody's hands.                  *)
Covers(ts, b) == \E i \in DOMAIN ts : b \in TaskBytes(ts[i])
Holds(w, b) ==
  \/ pc[w] \in {"try", "giveback"} /\ b \in TaskBytes(task[w])
  \/ w \in active /\ b \in RealDuty(w)
Loot(b) == bal = "push" /\ b \in TaskBytes(StolenTask)
InHands(b) == Covers(queue, b) \/ Loot(b) \/ \E w \in Workers : Holds(w, b)

Known(b) ==
  /\ main \in {"run", "ctx", "collect"} => InHands(b)
  /\ main = "drain" => Covers(queue, b) \/ Covers(saved, b)
  /\ main = "paused" => Covers(saved, b)
  /\ main # "done"
  /\ stored # <<>> => Covers(stored, b)
  /\ outbox # <<>> => Covers(outbox, b)

AllAt == \A w \in Workers : At(w)
Coverage == \A b \in Missing : Known(b)

EngineInv ==
  TypeOK /\ AllAt /\ LeftEmpty /\ Celled /\ NoCells /\ LootHeld /\ Coverage

-----------------------------------------------------------------------------
(* What Head, Tail, Append and \o do to the bytes of a sequence of tasks.  *)
LEMMA PopCovers ==
  ASSUME NEW q \in Seq(Task), q # <<>>
  PROVE  /\ Head(q) \in Task /\ Tail(q) \in Seq(Task)
         /\ \A b : Covers(q, b) => b \in TaskBytes(Head(q)) \/ Covers(Tail(q), b)
         /\ \A i \in DOMAIN Tail(q) : \E j \in DOMAIN q : Tail(q)[i] = q[j]
         /\ 1 \in DOMAIN q /\ Head(q) = q[1]
<1>1. /\ Head(q) = q[1] /\ Tail(q) \in Seq(Task)
      /\ Len(q) \in Nat \ {0} /\ Len(Tail(q)) = Len(q) - 1
      /\ \A i \in 1..Len(Tail(q)) : Tail(q)[i] = q[i + 1]
  BY HeadTailProperties, EmptySeq, LenProperties
<1>2. DOMAIN q = 1..Len(q) /\ DOMAIN Tail(q) = 1..Len(Tail(q))
  BY <1>1, LenProperties
<1>3. Head(q) \in Task
  BY <1>1, <1>2, ElementOfSeq
<1>4. ASSUME NEW b, Covers(q, b)
      PROVE  b \in TaskBytes(Head(q)) \/ Covers(Tail(q), b)
  <2>1. PICK i \in 1..Len(q) : b \in TaskBytes(q[i])
    BY <1>2, <1>4 DEF Covers
  <2>2. CASE i = 1
    BY <1>1, <2>1, <2>2
  <2>3. CASE i # 1
    <3>1. i - 1 \in DOMAIN Tail(q) /\ Tail(q)[i - 1] = q[i]
      BY <1>1, <1>2, <2>3
    <3>2. QED
      BY <2>1, <3>1 DEF Covers
  <2>4. QED
    BY <2>2, <2>3
<1>5. \A i \in DOMAIN Tail(q) : i + 1 \in DOMAIN q /\ Tail(q)[i] = q[i + 1]
  BY <1>1, <1>2
<1>6. QED
  BY <1>1, <1>2, <1>3, <1>4, <1>5

LEMMA AppendCovers ==
  ASSUME NEW q \in Seq(Task), NEW t \in Task
  PROVE  /\ Append(q, t) \in Seq(Task)
         /\ \A b : Covers(q, b) \/ b \in TaskBytes(t) => Covers(Append(q, t), b)
         /\ \A i \in DOMAIN Append(q, t) :
              Append(q, t)[i] = t \/ (i \in DOMAIN q /\ Append(q, t)[i] = q[i])
<1>1. /\ Append(q, t) \in Seq(Task) /\ Len(Append(q, t)) = Len(q) + 1
      /\ \A i \in 1..Len(q) : Append(q, t)[i] = q[i]
      /\ Append(q, t)[Len(q) + 1] = t
  BY AppendProperties
<1>2. DOMAIN q = 1..Len(q) /\ DOMAIN Append(q, t) = 1..(Len(q) + 1) /\ Len(q) \in Nat
  BY <1>1, LenProperties
<1>3. ASSUME NEW b, Covers(q, b)
      PROVE  Covers(Append(q, t), b)
  BY <1>1, <1>2, <1>3 DEF Covers
<1>4. ASSUME NEW b, b \in TaskBytes(t)
      PROVE  Covers(Append(q, t), b)
  <2>1. Len(q) + 1 \in DOMAIN Append(q, t)
    BY <1>2
  <2>2. QED
    BY <1>1, <1>4, <2>1 DEF Covers
<1>5. \A i \in DOMAIN Append(q, t) :
        Append(q, t)[i] = t \/ (i \in DOMAIN q /\ Append(q, t)[i] = q[i])
  <2>1. \A i \in DOMAIN Append(q, t) : i = Len(q) + 1 \/ i \in DOMAIN q
    BY <1>2
  <2>2. \A i \in DOMAIN q : Append(q, t)[i] = q[i]
    BY <1>1, <1>2
  <2>3. Append(q, t)[Len(q) + 1] = t
    BY <1>1
  <2>4. QED
    BY <2>1, <2>2, <2>3
<1>6. QED
  BY <1>1, <1>3, <1>4, <1>5

LEMMA ConcatCovers ==
  ASSUME NEW q \in Seq(Task), NEW s \in Seq(Task)
  PROVE  /\ q \o s \in Seq(Task)
         /\ \A b : Covers(q, b) \/ Covers(s, b) => Covers(q \o s, b)
         /\ Uncelled(q) /\ Uncelled(s) => Uncelled(q \o s)
<1>1. /\ q \o s \in Seq(Task) /\ Len(q \o s) = Len(q) + Len(s)
      /\ \A i \in 1..(Len(q) + Len(s)) : (q \o s)[i] = IF i <= Len(q) THEN q[i] ELSE s[i - Len(q)]
  BY ConcatProperties
<1>2. /\ Len(q) \in Nat /\ Len(s) \in Nat /\ DOMAIN q = 1..Len(q) /\ DOMAIN s = 1..Len(s)
      /\ DOMAIN (q \o s) = 1..(Len(q) + Len(s))
  BY <1>1, LenProperties
<1>3. \A i \in DOMAIN q : i \in DOMAIN (q \o s) /\ (q \o s)[i] = q[i]
  BY <1>1, <1>2
<1>4. ASSUME NEW i \in DOMAIN s
      PROVE  i + Len(q) \in DOMAIN (q \o s) /\ (q \o s)[i + Len(q)] = s[i]
  <2>1. i + Len(q) \in 1..(Len(q) + Len(s)) /\ ~(i + Len(q) <= Len(q)) /\ (i + Len(q)) - Len(q) = i
    BY <1>2
  <2>2. (q \o s)[i + Len(q)] = s[(i + Len(q)) - Len(q)]
    BY <1>1, <2>1
  <2>3. QED
    BY <1>2, <2>1, <2>2
<1>5. \A i \in DOMAIN (q \o s) :
        \/ i \in DOMAIN q /\ (q \o s)[i] = q[i]
        \/ i - Len(q) \in DOMAIN s /\ (q \o s)[i] = s[i - Len(q)]
  <2>1. \A i \in DOMAIN (q \o s) : i \in DOMAIN q \/ (~(i <= Len(q)) /\ i - Len(q) \in DOMAIN s)
    <3>1. \A n, m \in Nat : \A i \in 1..(n + m) : i \in 1..n \/ (~(i <= n) /\ i - n \in 1..m)
      OBVIOUS
    <3>2. QED
      BY <1>2, <3>1
  <2>2. \A i \in DOMAIN (q \o s) : ~(i <= Len(q)) => (q \o s)[i] = s[i - Len(q)]
    BY <1>1, <1>2
  <2>3. QED
    BY <1>3, <2>1, <2>2
<1>6. \A b : Covers(q, b) \/ Covers(s, b) => Covers(q \o s, b)
  BY <1>3, <1>4 DEF Covers
<1>7. Uncelled(q) /\ Uncelled(s) => Uncelled(q \o s)
  BY <1>5 DEF Uncelled
<1>8. QED
  BY <1>1, <1>6, <1>7

LEMMA WithoutCellsCovers ==
  ASSUME NEW q \in Seq(Task)
  PROVE  /\ WithoutCells(q) \in Seq(Task) /\ Uncelled(WithoutCells(q))
         /\ \A b : Covers(q, b) => Covers(WithoutCells(q), b)
<1>1. Len(q) \in Nat /\ q \in [1..Len(q) -> Task] /\ DOMAIN q = 1..Len(q)
  BY LenProperties
<1>2. WithoutCells(q) \in [1..Len(q) -> Task]
  BY <1>1 DEF WithoutCells, Task
<1>3. WithoutCells(q) \in Seq(Task)
  BY <1>1, <1>2, SeqDef
<1>4. \A i \in DOMAIN q : i \in DOMAIN WithoutCells(q) /\ WithoutCells(q)[i].off = q[i].off
                          /\ WithoutCells(q)[i].end = q[i].end
  BY <1>1 DEF WithoutCells, Task
<1>5. Uncelled(WithoutCells(q))
  BY <1>1 DEF WithoutCells, Uncelled, Task
<1>6. QED
  BY <1>3, <1>4, <1>5 DEF Covers, TaskBytes

(* The lengths of finitely many tasks add up to a number, and to zero only *)
(* if none of them has a byte.                                             *)
LEMMA TotalLengthType ==
  ASSUME NEW ts \in Seq(Task)
  PROVE  /\ TotalLength(ts) \in Nat
         /\ TotalLength(ts) = 0 => \A b : ~Covers(ts, b)
<1> DEFINE row(i) == {i} \X TaskBytes(ts[i])
           rows == {row(i) : i \in DOMAIN ts}
<1>1. Len(ts) \in Nat /\ DOMAIN ts = 1..Len(ts) /\ \A i \in DOMAIN ts : ts[i] \in Task
  BY LenProperties, ElementOfSeq
<1>2. IsFiniteSet(DOMAIN ts)
  BY <1>1, FS_Interval
<1>3. IsFiniteSet(rows)
  <2>1. \A x \in rows : \E i \in DOMAIN ts : x = row(i)
    OBVIOUS
  <2>2. [i \in DOMAIN ts |-> row(i)] \in Surjection(DOMAIN ts, rows)
    BY <2>1 DEF Surjection
  <2>3. QED
    BY <1>2, <2>2, FS_Surjection
<1>4. \A i \in DOMAIN ts : IsFiniteSet(row(i))
  <2>1. ASSUME NEW i \in DOMAIN ts
        PROVE  IsFiniteSet(row(i))
    <3>1. IsFiniteSet({i})
      BY FS_Singleton
    <3>2. ts[i].off \in Int /\ ts[i].end - 1 \in Int
      BY <1>1 DEF Task
    <3>3. IsFiniteSet(TaskBytes(ts[i]))
      BY <3>2, FS_Interval DEF TaskBytes
    <3>4. QED
      BY <3>1, <3>3, FS_Product
  <2>2. QED
    BY <2>1
<1>5. IsFiniteSet(UNION rows)
  BY <1>3, <1>4, FS_UNION
<1>6. TotalLength(ts) = Cardinality(UNION rows)
  BY DEF TotalLength
<1>7. TotalLength(ts) \in Nat
  BY <1>5, <1>6, FS_CardinalityType
<1>8. ASSUME TotalLength(ts) = 0, NEW b, Covers(ts, b)
      PROVE  FALSE
  <2>1. UNION rows = {}
    BY <1>5, <1>6, <1>8, FS_EmptySet
  <2>2. PICK i \in DOMAIN ts : b \in TaskBytes(ts[i])
    BY <1>8 DEF Covers
  <2>3. <<i, b>> \in row(i) /\ row(i) \in rows
    BY <2>2
  <2>4. QED
    BY <2>1, <2>3
<1>9. QED
  BY <1>7, <1>8

(* Ranges of ChunkSize lie side by side from the first byte to the last.   *)
LEMMA FreshTasksCover ==
  /\ FreshTasks \in Seq(Task) /\ Uncelled(FreshTasks)
  /\ \A b \in Bytes : Covers(FreshTasks, b)
<1> DEFINE N == (FileSize + ChunkSize - 1) \div ChunkSize
<1> USE EngineAssumption
<1>1. N \in Nat /\ N * ChunkSize >= FileSize
  OBVIOUS
<1>2. \A i \in 1..N : (i - 1) * ChunkSize \in Nat /\ i * ChunkSize \in Nat
  BY <1>1
<1>3. DOMAIN FreshTasks = 1..N
  BY DEF FreshTasks
<1>4. \A i \in 1..N : FreshTasks[i] \in Task /\ FreshTasks[i].cell = 0
  BY <1>2 DEF FreshTasks, Task, Lesser
<1>5. ASSUME NEW b \in Bytes
      PROVE  Covers(FreshTasks, b)
  <2> DEFINE k == b \div ChunkSize
  <2>1. k \in Nat /\ k * ChunkSize <= b /\ b < (k + 1) * ChunkSize
    BY DEF Bytes
  <2>2. k + 1 \in 1..N
    BY <1>1, <2>1 DEF Bytes
  <2>3. b \in TaskBytes(FreshTasks[k + 1])
    BY <2>1, <2>2 DEF FreshTasks, TaskBytes, Lesser, Bytes
  <2>4. QED
    BY <1>3, <2>2, <2>3 DEF Covers
<1>6. FreshTasks \in Seq(Task)
  <2>1. FreshTasks \in [1..N -> Task]
    BY <1>3, <1>4 DEF FreshTasks
  <2>2. QED
    BY <1>1, <2>1, SeqDef
<1>7. QED
  BY <1>3, <1>4, <1>5, <1>6 DEF Uncelled

-----------------------------------------------------------------------------
(* What the steps of each goroutine leave alone.                           *)
LEMMA WorkerFrame ==
  ASSUME NEW w \in Workers, WorkerStep(w) \/ HealthCancel(w)
  PROVE  UNCHANGED <<closed, balancer, mon, session>>
BY DEF WorkerStep, HealthCancel, Pop, PopNothing, Register, ReadStopped, ReadBody, ReadFails,
       Receive, Write, Count, Store, Abandon, Requeue, Ended, Flush, Unregister, GiveBack,
       balancer, session

LEMMA BalancerFrame ==
  ASSUME BalancerStep
  PROVE  UNCHANGED <<written, closed, worker, active, cur, cancelled, downloaded,
                     mon, session, faults, cancels>>
BY DEF BalancerStep, BalanceTick, StealPick, StealNothing, StealAim, StealCut, StealPush,
       HedgeMark, HedgeNothing, HedgePush, BalKeeps, worker, session

LEMMA MonitorFrame ==
  ASSUME MonitorStep
  PROVE  UNCHANGED <<written, queue, worker, entry, maxOff, downloaded, balancer,
                     session, faults, cancels>>
BY DEF MonitorStep, MonitorLen, MonitorDecide, MonitorStop, MonKeeps, worker, entry, balancer, session

LEMMA SessionFrame ==
  ASSUME DownloadStep \/ Pause \/ CancelContext \/ Persist
  PROVE  UNCHANGED <<written, closed, worker, entry, maxOff, balancer, mon, sessions, faults, cancels>>
BY DEF DownloadStep, WorkersJoined, CheckContext, CollectActive, DrainQueue, Pause, CancelContext,
       Persist, SessionKeeps, worker, entry, balancer

LEMMA RestartFrame ==
  ASSUME Resume \/ Crash
  PROVE  /\ SessionStart(SetupTasks)
         /\ UNCHANGED <<written, stored, faults, cancels>>
         /\ outbox' = outbox \/ outbox' = <<>>
BY DEF Resume, Crash, Restart

(* A step is one of a worker, of the balancer, or of the download.         *)
LEMMA StepCases ==
  ASSUME [Next]_vars
  PROVE  \/ \E w \in Workers : WorkerStep(w) \/ HealthCancel(w)
         \/ BalancerStep
         \/ MonitorStep
         \/ DownloadStep \/ Pause \/ CancelContext \/ Persist
         \/ Resume \/ Crash
         \/ UNCHANGED vars
BY DEF Next

-----------------------------------------------------------------------------
(* The steps of one worker, field by field.                                *)
Shaped ==
  /\ DOMAIN pc = Workers /\ DOMAIN task = Workers /\ DOMAIN attempt = Workers
  /\ DOMAIN got = Workers /\ DOMAIN readErr = Workers /\ DOMAIN pend = Workers
  /\ DOMAIN cur = Workers /\ DOMAIN stop = Workers /\ DOMAIN cell = Workers
  /\ DOMAIN hedged = Workers /\ DOMAIN cancelled = Workers

Numbers(w) ==
  /\ task[w].off \in Nat /\ task[w].end \in Nat /\ task[w].cell \in Nat
  /\ attempt[w] \in Nat /\ got[w] \in Nat
  /\ cur[w] \in Nat /\ stop[w] \in Nat /\ cell[w] \in Nat

LEMMA TypesGive ==
  ASSUME TypeOK
  PROVE  /\ Shaped /\ Len(maxOff) \in Nat /\ FileSize \in Nat /\ active \subseteq Workers
         /\ loot.remaining \in Nat /\ loot.from \in Nat
         /\ \A w \in Workers : Numbers(w)
<1>1. Shaped /\ Len(maxOff) \in Nat /\ FileSize \in Nat /\ active \subseteq Workers
  BY EngineAssumption, LenProperties DEF TypeOK, Shaped
<1>2. loot.remaining \in Nat /\ loot.from \in Nat
  BY DEF TypeOK
<1>3. \A w \in Workers : task[w].off \in Nat /\ task[w].end \in Nat /\ task[w].cell \in Nat
  BY DEF TypeOK, Task
<1>4. \A w \in Workers : attempt[w] \in Nat
  BY EngineAssumption DEF TypeOK
<1>5. \A w \in Workers : /\ got[w] \in Nat /\ cur[w] \in Nat /\ stop[w] \in Nat /\ cell[w] \in Nat
  BY DEF TypeOK
<1>6. QED
  BY <1>1, <1>2, <1>3, <1>4, <1>5 DEF Numbers

SameWorker(v) ==
  /\ pc'[v] = pc[v] /\ task'[v] = task[v] /\ attempt'[v] = attempt[v]
  /\ got'[v] = got[v] /\ readErr'[v] = readErr[v]
  /\ cur'[v] = cur[v] /\ stop'[v] = stop[v] /\ cell'[v] = cell[v]
  /\ v \in active' <=> v \in active

LEMMA PopEffect ==
  ASSUME Shaped, NEW w \in Workers, Pop(w)
  PROVE  /\ pc[w] \in {"pop", "idle"} /\ queue # <<>>
         /\ queue' = Tail(queue) /\ task'[w] = Head(queue)
         /\ pc'[w] = "try" /\ attempt'[w] = 0
         /\ UNCHANGED <<written, got, readErr, active, cur, stop, cell, maxOff>>
         /\ \A v \in Workers \ {w} : SameWorker(v)
BY DEF Pop, Shaped, SameWorker, entry

LEMMA PopNothingEffect ==
  ASSUME Shaped, NEW w \in Workers, PopNothing(w)
  PROVE  /\ pc[w] \in {"pop", "idle"} /\ pc'[w] \in {"idle", "exit"} /\ queue = <<>>
         /\ UNCHANGED <<written, queue, task, attempt, got, readErr, active, cur, stop, cell, maxOff>>
         /\ \A v \in Workers \ {w} : SameWorker(v)
BY DEF PopNothing, Shaped, SameWorker, entry

LEMMA RegisterEffect ==
  ASSUME Shaped, NEW w \in Workers, Register(w)
  PROVE  /\ pc[w] = "try" /\ MuFree /\ pc'[w] = "read"
         /\ active' = active \cup {w}
         /\ cur'[w] = task[w].off /\ stop'[w] = task[w].end /\ cell'[w] = task[w].cell
         /\ UNCHANGED <<written, queue, task, attempt, got, readErr, maxOff>>
         /\ \A v \in Workers \ {w} : SameWorker(v)
BY DEF Register, Shaped, SameWorker

(* The three ways to read: n bytes arrive, and err ends it.                *)
LEMMA ReadEffect ==
  ASSUME Shaped, NEW w \in Workers, Numbers(w), FileSize \in Nat, BufferSize \in Nat \ {0},
         ReadStopped(w) \/ ReadBody(w) \/ ReadFails(w)
  PROVE  /\ pc[w] = "read"
         /\ pc'[w] = IF got'[w] > 0 THEN "write" ELSE "returned"
         /\ got'[w] \in Nat /\ readErr'[w] \in {"nil", "eof", "fail"}
         /\ got'[w] > 0 => /\ got'[w] <= BodyLeft(w)
                           /\ cur[w] + got'[w] <= task[w].end
                           /\ cur[w] + got'[w] <= FileSize
         /\ got'[w] = 0 /\ readErr'[w] = "nil" => cur[w] >= stop[w]
         /\ got'[w] = 0 /\ readErr'[w] = "eof" => cur[w] >= BodyEnd(w)
         /\ got'[w] > 0 /\ readErr'[w] = "eof" =>
              cur[w] + got'[w] = BodyEnd(w) /\ stop[w] >= cur[w] + got'[w]
         /\ UNCHANGED <<written, queue, task, attempt, active, cur, stop, cell, maxOff>>
         /\ \A v \in Workers \ {w} : SameWorker(v)
<1>1. ASSUME NEW n, NEW err, Receive(w, n, err)
      PROVE  /\ got'[w] = n /\ readErr'[w] = err
             /\ pc'[w] = IF n > 0 THEN "write" ELSE "returned"
             /\ UNCHANGED <<written, queue, task, attempt, active, cur, stop, cell, maxOff>>
             /\ \A v \in Workers \ {w} : SameWorker(v)
  BY <1>1 DEF Receive, Shaped, SameWorker, entry
<1> DEFINE Left == BodyLeft(w)
<1>2. /\ Left \in Nat
      /\ Left > 0 => cur[w] + Left = BodyEnd(w)
      /\ Left = 0 => cur[w] >= BodyEnd(w)
      /\ BodyEnd(w) <= task[w].end /\ BodyEnd(w) <= FileSize
  BY DEF BodyLeft, BodyEnd, Lesser, Greater, Numbers
<1>3. cur[w] < stop[w] => /\ ReadSize(w) \in Nat \ {0} /\ cur[w] + ReadSize(w) <= stop[w]
  BY DEF ReadSize, Lesser, Numbers
<1>4. cur[w] \in Nat /\ stop[w] \in Nat /\ task[w].end \in Nat /\ BodyEnd(w) \in Nat
  BY DEF Numbers, BodyEnd, Lesser
<1>5. CASE ReadStopped(w)
  BY <1>1, <1>4, <1>5 DEF ReadStopped
<1>6. CASE ReadBody(w)
  <2>1. CASE Left < ReadSize(w)
    <3>1. Receive(w, Left, "eof") /\ cur[w] < stop[w] /\ pc[w] = "read"
      BY <1>6, <2>1 DEF ReadBody
    <3>2. got'[w] = Left /\ readErr'[w] = "eof"
      BY <1>1, <3>1
    <3>3. pc'[w] = IF Left > 0 THEN "write" ELSE "returned"
      BY <1>1, <3>1
    <3>4. /\ UNCHANGED <<written, queue, task, attempt, active, cur, stop, cell, maxOff>>
          /\ \A v \in Workers \ {w} : SameWorker(v)
      BY <1>1, <3>1
    <3>5. Left > 0 => cur[w] + Left = BodyEnd(w) /\ stop[w] >= cur[w] + Left
      BY <1>2, <1>3, <1>4, <2>1, <3>1
    <3>6. QED
      BY <1>2, <1>4, <3>1, <3>2, <3>3, <3>4, <3>5
  <2>2. CASE ~(Left < ReadSize(w))
    <3>1. Receive(w, ReadSize(w), "nil") /\ cur[w] < stop[w] /\ pc[w] = "read"
      BY <1>6, <2>2 DEF ReadBody
    <3>2. got'[w] = ReadSize(w) /\ readErr'[w] = "nil" /\ ReadSize(w) \in Nat \ {0} /\ ReadSize(w) <= Left
      BY <1>1, <1>2, <1>3, <2>2, <3>1
    <3>3. pc'[w] = IF ReadSize(w) > 0 THEN "write" ELSE "returned"
      BY <1>1, <3>1
    <3>4. /\ UNCHANGED <<written, queue, task, attempt, active, cur, stop, cell, maxOff>>
          /\ \A v \in Workers \ {w} : SameWorker(v)
      BY <1>1, <3>1
    <3>5. cur[w] + ReadSize(w) <= BodyEnd(w)
      BY <1>2, <1>4, <3>2
    <3>6. QED
      BY <1>2, <1>4, <3>1, <3>2, <3>3, <3>4, <3>5
  <2>3. QED
    BY <2>1, <2>2
<1>7. CASE ReadFails(w)
  <2>1. PICK n \in 0..(ReadSize(w) - 1) : n <= Left /\ Receive(w, n, "fail")
    BY <1>7 DEF ReadFails
  <2>2. cur[w] < stop[w] /\ pc[w] = "read"
    BY <1>7 DEF ReadFails
  <2>3. n \in Nat
    BY <1>3, <2>1, <2>2
  <2>4. got'[w] = n /\ readErr'[w] = "fail"
    BY <1>1, <2>1
  <2>5. pc'[w] = IF n > 0 THEN "write" ELSE "returned"
    BY <1>1, <2>1
  <2>6. /\ UNCHANGED <<written, queue, task, attempt, active, cur, stop, cell, maxOff>>
        /\ \A v \in Workers \ {w} : SameWorker(v)
    BY <1>1, <2>1
  <2>7. n > 0 => cur[w] + n <= BodyEnd(w)
    BY <1>2, <1>4, <2>1, <2>3
  <2>8. QED
    BY <1>2, <1>4, <2>1, <2>2, <2>3, <2>4, <2>5, <2>6, <2>7
<1>8. QED
  BY <1>5, <1>6, <1>7

LEMMA WriteEffect ==
  ASSUME Shaped, NEW w \in Workers, Numbers(w), Write(w)
  PROVE  /\ pc[w] = "write"
         /\ \/ /\ pc'[w] = "returned" /\ got'[w] = 0 /\ readErr'[w] = "nil" /\ written' = written
               /\ got[w] > 0 => cur[w] >= stop[w]
            \/ /\ pc'[w] = "count" /\ readErr' = readErr
               /\ got'[w] \in Nat /\ got'[w] > 0 /\ got'[w] <= got[w]
               /\ got'[w] = got[w] \/ (cur[w] + got'[w] = stop[w] /\ got'[w] < got[w])
               /\ written' = written \cup (cur[w]..(cur[w] + got'[w] - 1))
         /\ UNCHANGED <<queue, task, attempt, active, cur, stop, cell, maxOff>>
         /\ \A v \in Workers \ {w} : SameWorker(v)
<1> DEFINE n == Lesser(got[w], stop[w] - cur[w])
<1>1. n \in Int /\ n <= got[w] /\ (n = got[w] \/ (n < got[w] /\ cur[w] + n = stop[w]))
  BY DEF Lesser, Numbers
<1>2. got[w] \in Nat /\ cur[w] \in Nat /\ stop[w] \in Nat
  BY DEF Numbers
<1>3. pc[w] = "write" /\ UNCHANGED <<queue, task, attempt, active, cur, stop, cell, maxOff>>
  BY DEF Write, entry
<1>4. \A v \in Workers \ {w} : SameWorker(v)
  BY DEF Write, Shaped, SameWorker, entry
<1>5. CASE n <= 0
  <2>1. pc'[w] = "returned" /\ got'[w] = 0 /\ readErr'[w] = "nil" /\ written' = written
    BY <1>5 DEF Write, Shaped
  <2>2. got[w] > 0 => cur[w] >= stop[w]
    BY <1>1, <1>2, <1>5
  <2>3. QED
    BY <1>3, <1>4, <2>1, <2>2
<1>6. CASE ~(n <= 0)
  <2>1. pc'[w] = "count" /\ readErr' = readErr /\ got'[w] = n
        /\ written' = written \cup (cur[w]..(cur[w] + n - 1))
    BY <1>6 DEF Write, Shaped
  <2>2. n \in Nat /\ n > 0 /\ n <= got[w] /\ (n = got[w] \/ (cur[w] + n = stop[w] /\ n < got[w]))
    BY <1>1, <1>6
  <2> HIDE DEF n
  <2>3. /\ got'[w] \in Nat /\ got'[w] > 0 /\ got'[w] <= got[w]
        /\ got'[w] = got[w] \/ (cur[w] + got'[w] = stop[w] /\ got'[w] < got[w])
        /\ written' = written \cup (cur[w]..(cur[w] + got'[w] - 1))
    BY <2>1, <2>2
  <2>4. QED
    BY <1>3, <1>4, <2>1, <2>3
<1>7. QED
  BY <1>5, <1>6

LEMMA CountEffect ==
  ASSUME Shaped, NEW w \in Workers, Count(w), maxOff \in Seq(Nat), CellKnown(w), Numbers(w)
  PROVE  /\ pc[w] = "count" /\ pc'[w] = "store" /\ maxOff' \in Seq(Nat)
         /\ Len(maxOff') = Len(maxOff)
         /\ UNCHANGED <<written, queue, task, attempt, got, readErr, active, cur, stop, cell>>
         /\ \A v \in Workers \ {w} : SameWorker(v)
<1>1. /\ pc[w] = "count" /\ pc'[w] = "store"
      /\ UNCHANGED <<written, queue, task, attempt, got, readErr, active, cur, stop, cell>>
      /\ \A v \in Workers \ {w} : SameWorker(v)
  BY DEF Count, Shaped, SameWorker, entry
<1>2. CASE maxOff' = maxOff
  BY <1>1, <1>2
<1>3. CASE cell[w] # 0
  <2>1. maxOff' = [maxOff EXCEPT ![cell[w]] = Greater(@, NextOffset(w))]
    BY <1>3 DEF Count
  <2>2. cell[w] \in 1..Len(maxOff)
    BY <1>3 DEF CellKnown, Numbers
  <2>3. maxOff[cell[w]] \in Nat
    BY <2>2, ElementOfSeq
  <2>4. Greater(maxOff[cell[w]], NextOffset(w)) \in Nat
    BY <2>3 DEF Greater, NextOffset, Numbers
  <2>5. maxOff' \in Seq(Nat) /\ Len(maxOff') = Len(maxOff)
    BY <2>1, <2>2, <2>4, ExceptSeq
  <2>6. QED
    BY <1>1, <2>5
<1>4. QED
  BY <1>2, <1>3 DEF Count

LEMMA StoreEffect ==
  ASSUME Shaped, NEW w \in Workers, Store(w)
  PROVE  /\ pc[w] = "store" /\ cur'[w] = cur[w] + got[w] /\ got'[w] = 0
         /\ pc'[w] = IF readErr[w] = "nil" THEN "read" ELSE "returned"
         /\ UNCHANGED <<written, queue, task, attempt, readErr, active, stop, cell, maxOff>>
         /\ \A v \in Workers \ {w} : SameWorker(v)
BY DEF Store, Shaped, SameWorker, NextOffset

LEMMA AbandonEffect ==
  ASSUME Shaped, NEW w \in Workers, Abandon(w)
  PROVE  /\ pc[w] = "returned" /\ ctxDone /\ pc'[w] = "exit"
         /\ attempt'[w] = 0 /\ readErr'[w] = "nil"
         /\ UNCHANGED <<written, queue, task, got, active, cur, stop, cell, maxOff>>
         /\ \A v \in Workers \ {w} : SameWorker(v)
BY DEF Abandon, Flush, Shaped, SameWorker, entry

LEMMA RequeueEffect ==
  ASSUME Shaped, NEW w \in Workers, Requeue(w), Numbers(w)
  PROVE  /\ pc[w] = "returned" /\ pc'[w] = "drop" /\ readErr'[w] = "nil"
         /\ \/ queue' = queue /\ Duty(w) = {}
            \/ \E t \in Task : t.cell = 0 /\ TaskBytes(t) = Duty(w) /\ queue' = Append(queue, t)
         /\ UNCHANGED <<written, task, attempt, got, active, cur, stop, cell, maxOff>>
         /\ \A v \in Workers \ {w} : SameWorker(v)
<1>1. /\ pc[w] = "returned" /\ pc'[w] = "drop" /\ readErr'[w] = "nil"
      /\ UNCHANGED <<written, task, attempt, got, active, cur, stop, cell, maxOff>>
      /\ \A v \in Workers \ {w} : SameWorker(v)
  BY DEF Requeue, Flush, Shaped, SameWorker, entry
<1> DEFINE end == Lesser(stop[w], task[w].end)
           t == [off |-> cur[w], end |-> end, cell |-> 0]
<1>2. [RemainingTask(w) EXCEPT !.end = Lesser(@, task[w].end)] = t
  BY DEF RemainingTask
<1>3. cur[w] \in Nat /\ end \in Nat
  BY DEF Numbers, Lesser
<1>4. t \in Task /\ t.cell = 0 /\ TaskBytes(t) = Duty(w)
  BY <1>3 DEF Task, TaskBytes, Duty
<1>5. queue' = IF t.off < t.end THEN Append(queue, t) ELSE queue
  BY <1>2 DEF Requeue
<1>6. ~(t.off < t.end) => Duty(w) = {}
  BY <1>3 DEF Duty
<1>7. QED
  BY <1>1, <1>4, <1>5, <1>6

LEMMA EndedEffect ==
  ASSUME Shaped, NEW w \in Workers, Ended(w)
  PROVE  /\ pc[w] = "returned" /\ pc'[w] = "drop"
         /\ UNCHANGED <<written, queue, task, attempt, got, readErr, active, cur, stop, cell, maxOff>>
         /\ \A v \in Workers \ {w} : SameWorker(v)
BY DEF Ended, Flush, Shaped, SameWorker, entry

LEMMA UnregisterEffect ==
  ASSUME Shaped, NEW w \in Workers, Unregister(w)
  PROVE  /\ pc[w] = "drop" /\ MuFree /\ active' = active \ {w}
         /\ cur'[w] = 0 /\ stop'[w] = 0 /\ cell'[w] = 0 /\ readErr'[w] = "nil"
         /\ \/ /\ readErr[w] = "fail"
               /\ task'[w] = IF cur[w] > task[w].off
                             THEN [off |-> cur[w], end |-> task[w].end, cell |-> 0]
                             ELSE task[w]
               /\ attempt'[w] = attempt[w] + 1
               /\ pc'[w] = IF attempt[w] + 1 < MaxRetries THEN "try" ELSE "giveback"
            \/ /\ readErr[w] # "fail"
               /\ task'[w] = NoTask /\ attempt'[w] = 0 /\ pc'[w] = "pop"
         /\ UNCHANGED <<written, queue, got, maxOff>>
         /\ \A v \in Workers \ {w} : SameWorker(v)
<1>1. /\ pc[w] = "drop" /\ MuFree /\ active' = active \ {w}
      /\ UNCHANGED <<written, queue, got, maxOff>>
  BY DEF Unregister
<1>2. cur'[w] = 0 /\ stop'[w] = 0 /\ cell'[w] = 0 /\ readErr'[w] = "nil"
  BY DEF Unregister, Shaped
<1>3. \A v \in Workers \ {w} : SameWorker(v)
  <2>1. ASSUME NEW v \in Workers \ {w}
        PROVE  SameWorker(v)
    <3>1. cur'[v] = cur[v] /\ stop'[v] = stop[v] /\ cell'[v] = cell[v] /\ readErr'[v] = readErr[v]
          /\ got'[v] = got[v] /\ (v \in active' <=> v \in active)
      BY DEF Unregister, Shaped
    <3>2. CASE readErr[w] = "fail"
      <4>1. pc'[v] = pc[v] /\ task'[v] = task[v] /\ attempt'[v] = attempt[v]
        BY <3>2 DEF Unregister, Shaped
      <4>2. QED
        BY <3>1, <4>1 DEF SameWorker
    <3>3. CASE readErr[w] # "fail"
      <4>1. pc'[v] = pc[v] /\ task'[v] = task[v] /\ attempt'[v] = attempt[v]
        BY <3>3 DEF Unregister, Shaped
      <4>2. QED
        BY <3>1, <4>1 DEF SameWorker
    <3>4. QED
      BY <3>2, <3>3
  <2>2. QED
    BY <2>1
<1>4. CASE readErr[w] = "fail"
  <2>1. /\ task' = [task EXCEPT ![w] = IF cur[w] > task[w].off
                                       THEN [off |-> cur[w], end |-> task[w].end, cell |-> 0]
                                       ELSE task[w]]
        /\ attempt' = [attempt EXCEPT ![w] = attempt[w] + 1]
        /\ pc' = [pc EXCEPT ![w] = IF MayRetry(w) THEN "try" ELSE "giveback"]
    BY <1>4 DEF Unregister
  <2>2. attempt'[w] = attempt[w] + 1 /\ pc'[w] = IF MayRetry(w) THEN "try" ELSE "giveback"
    BY <2>1 DEF Shaped
  <2>3. task'[w] = IF cur[w] > task[w].off
                   THEN [off |-> cur[w], end |-> task[w].end, cell |-> 0]
                   ELSE task[w]
    BY <2>1 DEF Shaped
  <2>4. QED
    BY <1>1, <1>2, <1>4, <1>3, <2>2, <2>3 DEF MayRetry
<1>5. CASE readErr[w] # "fail"
  <2>1. /\ task' = [task EXCEPT ![w] = NoTask]
        /\ attempt' = [attempt EXCEPT ![w] = 0]
        /\ pc' = [pc EXCEPT ![w] = "pop"]
    BY <1>5 DEF Unregister
  <2>2. task'[w] = NoTask /\ attempt'[w] = 0 /\ pc'[w] = "pop"
    BY <2>1 DEF Shaped
  <2>3. QED
    BY <1>1, <1>2, <1>5, <1>3, <2>2
<1>6. QED
  BY <1>4, <1>5

LEMMA GiveBackEffect ==
  ASSUME Shaped, NEW w \in Workers, GiveBack(w)
  PROVE  /\ pc[w] = "giveback" /\ queue' = Append(queue, task[w])
         /\ task'[w] = NoTask /\ attempt'[w] = 0 /\ pc'[w] = "pop"
         /\ UNCHANGED <<written, got, readErr, active, cur, stop, cell, maxOff>>
         /\ \A v \in Workers \ {w} : SameWorker(v)
BY DEF GiveBack, Shaped, SameWorker, entry

LEMMA HealthCancelEffect ==
  ASSUME Shaped, NEW w \in Workers, HealthCancel(w)
  PROVE  /\ pc[w] # "exit"
         /\ UNCHANGED <<written, queue, task, attempt, got, readErr, active, cur, stop, cell, maxOff>>
         /\ \A v \in Workers : SameWorker(v)
BY DEF HealthCancel, SameWorker, worker

-----------------------------------------------------------------------------
(* AllAt under the steps of a worker.                                      *)
LEMMA OthersAt ==
  ASSUME NEW v \in Workers, At(v), SameWorker(v), written \subseteq written',
         Len(maxOff') = Len(maxOff), UNCHANGED <<main, ctxDone, bal, loot>>
  PROVE  At(v)'
<1>1. Registered(v)' /\ Tries(v)'
  BY DEF At, SameWorker, Registered, Tries
<1>2. Filling(v)'
  BY DEF At, SameWorker, Filling
<1>3. OnDisk(v)'
  BY DEF At, SameWorker, OnDisk, Bytes
<1>4. CellKnown(v)'
  BY DEF At, SameWorker, CellKnown
<1>5. EndedAtEnd(v)'
  BY DEF At, SameWorker, EndedAtEnd, NotRaised, BodyEnd
<1>6. QED
  BY <1>1, <1>2, <1>3, <1>4, <1>5 DEF At

LEMMA WorkerAt ==
  ASSUME TypeOK, AllAt, LootHeld, Celled, NEW w \in Workers, WorkerStep(w) \/ HealthCancel(w)
  PROVE  AllAt' /\ Len(maxOff') = Len(maxOff) /\ written \subseteq written' /\ main = "run"
<1>1. Shaped /\ Numbers(w) /\ Len(maxOff) \in Nat /\ FileSize \in Nat
  BY TypesGive
<1>2. UNCHANGED <<main, ctxDone, bal, loot>>
  BY WorkerFrame DEF balancer, session
<1>3. At(w)
  BY DEF AllAt
<1> DEFINE Fine == /\ At(w)' /\ Len(maxOff') = Len(maxOff) /\ written \subseteq written' /\ pc[w] # "exit"
                   /\ \A v \in Workers \ {w} : SameWorker(v)
<1>4. CASE Fine
  <2>1. \A v \in Workers \ {w} : At(v)'
    BY <1>2, <1>4, OthersAt DEF AllAt
  <2>2. main = "run"
    BY <1>3, <1>4 DEF At, Registered
  <2>3. QED
    BY <1>4, <2>1, <2>2 DEF AllAt
<1>5. CASE Pop(w)
  <2>1. /\ pc[w] \in {"pop", "idle"} /\ queue # <<>> /\ task'[w] = Head(queue)
        /\ pc'[w] = "try" /\ attempt'[w] = 0
        /\ UNCHANGED <<written, active, cur, stop, cell, maxOff>>
        /\ \A v \in Workers \ {w} : SameWorker(v)
    BY <1>1, <1>5, PopEffect
  <2>2. w \notin active
    BY <1>3, <2>1 DEF At, Registered, Busy
  <2>3. Head(queue).cell <= Len(maxOff)
    BY PopCovers, <2>1 DEF TypeOK, Celled
  <2>4. Registered(w)' /\ Filling(w)' /\ OnDisk(w)' /\ EndedAtEnd(w)'
    BY <1>2, <1>3, <2>1, <2>2 DEF At, Registered, Filling, OnDisk, EndedAtEnd, Busy, Filled
  <2>5. CellKnown(w)'
    BY <1>3, <2>1, <2>3 DEF At, CellKnown
  <2>6. Tries(w)'
    BY <2>1, EngineAssumption DEF Tries
  <2>7. QED
    BY <1>4, <2>1, <2>4, <2>5, <2>6 DEF At
<1>6. CASE PopNothing(w)
  <2>1. /\ pc[w] \in {"pop", "idle"} /\ pc'[w] \in {"idle", "exit"}
        /\ UNCHANGED <<written, task, attempt, active, cur, stop, cell, maxOff>>
        /\ \A v \in Workers \ {w} : SameWorker(v)
    BY <1>1, <1>6, PopNothingEffect
  <2>2. w \notin active
    BY <1>3, <2>1 DEF At, Registered, Busy
  <2>3. Registered(w)' /\ Filling(w)' /\ OnDisk(w)' /\ EndedAtEnd(w)'
    BY <1>2, <1>3, <2>1, <2>2 DEF At, Registered, Filling, OnDisk, EndedAtEnd, Busy, Filled
  <2>4. CellKnown(w)' /\ Tries(w)'
    BY <1>3, <2>1 DEF At, CellKnown, Tries, Busy
  <2>5. QED
    BY <1>4, <2>1, <2>3, <2>4 DEF At
<1>7. CASE Register(w)
  <2>1. /\ pc[w] = "try" /\ pc'[w] = "read" /\ active' = active \cup {w}
        /\ cur'[w] = task[w].off /\ stop'[w] = task[w].end /\ cell'[w] = task[w].cell
        /\ UNCHANGED <<written, task, attempt, maxOff>>
        /\ \A v \in Workers \ {w} : SameWorker(v)
    BY <1>1, <1>7, RegisterEffect
  <2>2. Registered(w)' /\ EndedAtEnd(w)'
    BY <1>2, <1>3, <2>1 DEF At, Registered, EndedAtEnd, Busy
  <2>3. Filling(w)' /\ OnDisk(w)'
    BY <1>1, <2>1 DEF Filling, OnDisk, Filled, Numbers
  <2>4. CellKnown(w)' /\ Tries(w)'
    BY <1>3, <2>1 DEF At, CellKnown, Tries, Busy
  <2>5. QED
    BY <1>4, <2>1, <2>2, <2>3, <2>4 DEF At
<1>8. CASE ReadStopped(w) \/ ReadBody(w) \/ ReadFails(w)
  <2>1. /\ pc[w] = "read"
        /\ pc'[w] = IF got'[w] > 0 THEN "write" ELSE "returned"
        /\ got'[w] \in Nat
        /\ got'[w] > 0 => cur[w] + got'[w] <= task[w].end /\ cur[w] + got'[w] <= FileSize
        /\ got'[w] > 0 /\ readErr'[w] = "eof" =>
             cur[w] + got'[w] = BodyEnd(w) /\ stop[w] >= cur[w] + got'[w]
        /\ UNCHANGED <<written, task, attempt, active, cur, stop, cell, maxOff>>
        /\ \A v \in Workers \ {w} : SameWorker(v)
    BY <1>1, <1>8, ReadEffect, EngineAssumption
  <2>2. pc'[w] \in {"write", "returned"} /\ (pc'[w] = "write" => got'[w] > 0)
    BY <2>1
  <2>3. Registered(w)' /\ Tries(w)' /\ CellKnown(w)'
    BY <1>2, <1>3, <2>1, <2>2 DEF At, Registered, Tries, CellKnown, Busy
  <2>4. Filling(w)' /\ OnDisk(w)'
    BY <1>3, <2>1, <2>2 DEF At, Filling, OnDisk, Filled, Bytes
  <2>5. EndedAtEnd(w)'
    BY <2>1, <2>2 DEF EndedAtEnd, BodyEnd
  <2>6. QED
    BY <1>4, <2>1, <2>3, <2>4, <2>5 DEF At
<1>9. CASE Write(w)
  <2>1. /\ pc[w] = "write"
        /\ \/ /\ pc'[w] = "returned" /\ written' = written
           \/ /\ pc'[w] = "count" /\ readErr' = readErr
              /\ got'[w] \in Nat /\ got'[w] > 0 /\ got'[w] <= got[w]
              /\ got'[w] = got[w] \/ (cur[w] + got'[w] = stop[w] /\ got'[w] < got[w])
              /\ written' = written \cup (cur[w]..(cur[w] + got'[w] - 1))
        /\ UNCHANGED <<queue, task, attempt, active, cur, stop, cell, maxOff>>
        /\ \A v \in Workers \ {w} : SameWorker(v)
    BY <1>1, <1>9, WriteEffect
  <2>2. pc'[w] \in {"returned", "count"} /\ written \subseteq written'
    BY <2>1
  <2>3. Registered(w)' /\ Tries(w)' /\ CellKnown(w)'
    BY <1>2, <1>3, <2>1, <2>2 DEF At, Registered, Tries, CellKnown, Busy
  <2>4. OnDisk(w)'
    BY <1>3, <2>1, <2>2 DEF At, OnDisk, Bytes
  <2>5. Filling(w)'
    <3>1. got[w] \in Nat /\ cur[w] \in Nat /\ task[w].end \in Nat /\ FileSize \in Nat
      BY <1>1 DEF Numbers
    <3>2. cur[w] + got[w] <= task[w].end /\ cur[w] + got[w] <= FileSize
      BY <1>3, <2>1 DEF At, Filling, Filled
    <3>3. pc'[w] = "count" =>
            /\ got'[w] > 0
            /\ cur[w] + got'[w] <= task[w].end /\ cur[w] + got'[w] <= FileSize
      BY <2>1, <3>1, <3>2
    <3>4. w \in active' => task'[w].off <= cur'[w]
      BY <1>3, <2>1 DEF At, Filling
    <3>5. QED
      BY <2>1, <2>2, <3>3, <3>4 DEF Filling, Filled
  <2>6. EndedAtEnd(w)'
    <3>1. CASE pc'[w] = "returned"
      BY <3>1 DEF EndedAtEnd
    <3>2. CASE pc'[w] = "count" /\ readErr[w] = "eof"
      <4>1. NotRaised(w)' <=> NotRaised(w)
        BY <1>2, <2>1 DEF NotRaised
      <4>2. BodyEnd(w)' = BodyEnd(w)
        BY <2>1 DEF BodyEnd
      <4>3. cur[w] + got[w] = BodyEnd(w) /\ (stop[w] >= cur[w] + got[w] \/ NotRaised(w))
        BY <1>3, <2>1, <3>2 DEF At, EndedAtEnd
      <4>4. cur[w] + got'[w] >= BodyEnd(w) \/ (cur[w] + got'[w] >= stop[w] /\ NotRaised(w))
        BY <1>1, <2>1, <3>2, <4>3 DEF Numbers
      <4>5. QED
        BY <2>1, <3>2, <4>1, <4>2, <4>4 DEF EndedAtEnd
    <3>3. CASE pc'[w] = "count" /\ readErr[w] # "eof"
      BY <2>1, <3>3 DEF EndedAtEnd
    <3>4. QED
      BY <2>2, <3>1, <3>2, <3>3
  <2>7. QED
    BY <1>4, <2>1, <2>2, <2>3, <2>4, <2>5, <2>6 DEF At
<1>10. CASE Count(w)
  <2>1. /\ pc[w] = "count" /\ pc'[w] = "store" /\ Len(maxOff') = Len(maxOff)
        /\ UNCHANGED <<written, queue, task, attempt, got, readErr, active, cur, stop, cell>>
        /\ \A v \in Workers \ {w} : SameWorker(v)
    BY <1>1, <1>3, <1>10, CountEffect DEF TypeOK, At
  <2>2. Registered(w)' /\ Tries(w)' /\ CellKnown(w)'
    BY <1>2, <1>3, <2>1 DEF At, Registered, Tries, CellKnown, Busy
  <2>3. Filling(w)' /\ OnDisk(w)'
    BY <1>3, <2>1 DEF At, Filling, OnDisk, Filled, Bytes
  <2>4. EndedAtEnd(w)'
    BY <1>2, <1>3, <2>1 DEF At, EndedAtEnd, NotRaised, BodyEnd
  <2>5. QED
    BY <1>4, <2>1, <2>2, <2>3, <2>4 DEF At
<1>11. CASE Store(w)
  <2>1. /\ pc[w] = "store" /\ cur'[w] = cur[w] + got[w]
        /\ pc'[w] = IF readErr[w] = "nil" THEN "read" ELSE "returned"
        /\ UNCHANGED <<written, queue, task, attempt, readErr, active, stop, cell, maxOff>>
        /\ \A v \in Workers \ {w} : SameWorker(v)
    BY <1>1, <1>11, StoreEffect
  <2>2. pc'[w] \in {"read", "returned"}
    BY <2>1
  <2>3. Registered(w)' /\ Tries(w)' /\ CellKnown(w)' /\ EndedAtEnd(w)'
    BY <1>2, <1>3, <2>1, <2>2 DEF At, Registered, Tries, CellKnown, EndedAtEnd, Busy
  <2>4. Filling(w)'
    BY <1>1, <1>3, <2>1, <2>2 DEF At, Filling, Filled, Numbers
  <2>5. OnDisk(w)'
    <3>1. cur[w]..(cur[w] + got[w] - 1) \subseteq written
      BY <1>3, <2>1 DEF At, OnDisk
    <3>2. w \in active => (task[w].off..(cur[w] - 1)) \cap Bytes \subseteq written
      BY <1>3 DEF At, OnDisk
    <3>3. \A b \in task[w].off..(cur[w] + got[w] - 1) :
            b \in task[w].off..(cur[w] - 1) \/ b \in cur[w]..(cur[w] + got[w] - 1)
      BY <1>1 DEF Numbers
    <3>4. w \in active => (task[w].off..(cur[w] + got[w] - 1)) \cap Bytes \subseteq written
      BY <3>1, <3>2, <3>3
    <3>5. w \in active' => (task'[w].off..(cur'[w] - 1)) \cap Bytes \subseteq written'
      <4>1. task'[w].off = task[w].off /\ active' = active /\ written' = written
        BY <2>1
      <4>2. cur'[w] - 1 = cur[w] + got[w] - 1
        BY <1>1, <2>1 DEF Numbers
      <4>3. QED
        BY <3>4, <4>1, <4>2
    <3>6. Bytes' = Bytes /\ pc'[w] \notin {"count", "store"}
      BY <2>2 DEF Bytes
    <3>7. QED
      BY <3>5, <3>6 DEF OnDisk
  <2>6. QED
    BY <1>4, <2>1, <2>3, <2>4, <2>5 DEF At
<1>12. CASE Abandon(w)
  <2>1. /\ pc[w] = "returned" /\ ctxDone /\ pc'[w] = "exit"
        /\ UNCHANGED <<written, queue, task, got, active, cur, stop, cell, maxOff>>
        /\ \A v \in Workers \ {w} : SameWorker(v)
    BY <1>1, <1>12, AbandonEffect
  <2>2. Registered(w)' /\ Tries(w)' /\ CellKnown(w)' /\ EndedAtEnd(w)'
    BY <1>2, <1>3, <2>1 DEF At, Registered, Tries, CellKnown, EndedAtEnd, Busy
  <2>3. Filling(w)' /\ OnDisk(w)'
    BY <1>3, <2>1 DEF At, Filling, OnDisk, Filled, Bytes
  <2>4. QED
    BY <1>4, <2>1, <2>2, <2>3 DEF At
<1>13. CASE Requeue(w) \/ Ended(w)
  <2>1. /\ pc[w] = "returned" /\ pc'[w] = "drop"
        /\ UNCHANGED <<written, task, attempt, got, active, cur, stop, cell, maxOff>>
        /\ \A v \in Workers \ {w} : SameWorker(v)
    BY <1>1, <1>13, RequeueEffect, EndedEffect
  <2>2. Registered(w)' /\ Tries(w)' /\ CellKnown(w)' /\ EndedAtEnd(w)'
    BY <1>2, <1>3, <2>1 DEF At, Registered, Tries, CellKnown, EndedAtEnd, Busy
  <2>3. Filling(w)' /\ OnDisk(w)'
    BY <1>3, <2>1 DEF At, Filling, OnDisk, Filled, Bytes
  <2>4. QED
    BY <1>4, <2>1, <2>2, <2>3 DEF At
<1>14. CASE Unregister(w)
  <2>1. /\ pc[w] = "drop" /\ active' = active \ {w} /\ cell'[w] = 0
        /\ UNCHANGED <<written, maxOff>>
        /\ \A v \in Workers \ {w} : SameWorker(v)
    BY <1>1, <1>14, UnregisterEffect
  <2>2. /\ pc'[w] \in {"try", "giveback", "pop"}
        /\ pc'[w] = "try" => attempt'[w] < MaxRetries
        /\ task'[w].cell <= Len(maxOff)
    <3>1. CASE readErr[w] = "fail"
      <4>1. /\ task'[w] = IF cur[w] > task[w].off
                          THEN [off |-> cur[w], end |-> task[w].end, cell |-> 0]
                          ELSE task[w]
            /\ attempt'[w] = attempt[w] + 1
            /\ pc'[w] = IF attempt[w] + 1 < MaxRetries THEN "try" ELSE "giveback"
        BY <1>1, <1>14, <3>1, UnregisterEffect
      <4>2. task'[w].cell = 0 \/ task'[w].cell = task[w].cell
        BY <4>1
      <4>3. task'[w].cell <= Len(maxOff)
        BY <1>1, <1>3, <4>2 DEF At, CellKnown
      <4>4. QED
        BY <4>1, <4>3
    <3>2. CASE readErr[w] # "fail"
      <4>1. task'[w] = NoTask /\ pc'[w] = "pop"
        BY <1>1, <1>14, <3>2, UnregisterEffect
      <4>2. QED
        BY <1>1, <4>1 DEF NoTask
    <3>3. QED
      BY <3>1, <3>2
  <2>3. Registered(w)' /\ Tries(w)' /\ CellKnown(w)' /\ EndedAtEnd(w)'
    BY <1>1, <1>2, <1>3, <2>1, <2>2 DEF At, Registered, Tries, CellKnown, EndedAtEnd, Busy
  <2>4. Filling(w)' /\ OnDisk(w)'
    BY <2>1, <2>2 DEF Filling, OnDisk, Filled
  <2>5. QED
    BY <1>4, <2>1, <2>3, <2>4 DEF At
<1>15. CASE GiveBack(w)
  <2>1. /\ pc[w] = "giveback" /\ task'[w] = NoTask /\ pc'[w] = "pop"
        /\ UNCHANGED <<written, got, readErr, active, cur, stop, cell, maxOff>>
        /\ \A v \in Workers \ {w} : SameWorker(v)
    BY <1>1, <1>15, GiveBackEffect
  <2>2. w \notin active
    BY <1>3, <2>1 DEF At, Registered, Busy
  <2>3. Registered(w)' /\ Tries(w)' /\ CellKnown(w)' /\ EndedAtEnd(w)'
    BY <1>1, <1>2, <1>3, <2>1, <2>2 DEF At, Registered, Tries, CellKnown, EndedAtEnd, Busy, NoTask
  <2>4. Filling(w)' /\ OnDisk(w)'
    BY <2>1, <2>2 DEF Filling, OnDisk, Filled
  <2>5. QED
    BY <1>4, <2>1, <2>3, <2>4 DEF At
<1>16. CASE HealthCancel(w)
  <2>1. /\ pc[w] # "exit" /\ UNCHANGED <<written, maxOff>> /\ \A v \in Workers : SameWorker(v)
    BY <1>1, <1>16, HealthCancelEffect
  <2>2. At(w)'
    BY <1>2, <1>3, <2>1, OthersAt
  <2>3. QED
    BY <1>4, <2>1, <2>2
<1>17. QED
  BY <1>5, <1>6, <1>7, <1>8, <1>9, <1>10, <1>11, <1>12, <1>13, <1>14, <1>15, <1>16 DEF WorkerStep

-----------------------------------------------------------------------------
(* AllAt and LootHeld under the steps of the balancer.  It moves the ends  *)
(* of ranges and hands out cells.                                          *)
LEMMA HedgePushEffect ==
  ASSUME TypeOK, LootHeld, HedgePush
  PROVE  /\ maxOff' \in Seq(Nat) /\ Len(maxOff') >= Len(maxOff)
         /\ \A w \in Workers : cell'[w] = cell[w] \/ cell'[w] <= Len(maxOff')
         /\ cell' \in [Workers -> Nat]
         /\ \/ queue' = queue
            \/ \E t \in Task : t.cell <= Len(maxOff') /\ queue' = Append(queue, t)
         /\ bal = "dup" /\ bal' = "rest" /\ loot' = NoLoot /\ stop' = stop
<1> DEFINE v == loot.victim
           t == [off |-> cur[v], end |-> stop[v], cell |-> Len(maxOff) + 1]
<1>1. bal = "dup" /\ bal' = "rest" /\ loot' = NoLoot /\ stop' = stop
  BY DEF HedgePush
<1>2. cell \in [Workers -> Nat] /\ maxOff \in Seq(Nat) /\ Len(maxOff) \in Nat
  BY LenProperties DEF TypeOK
<1>3. CASE cur[v] >= stop[v]
  BY <1>1, <1>2, <1>3 DEF HedgePush
<1>4. CASE ~(cur[v] >= stop[v])
  <2>1. /\ maxOff' = Append(maxOff, cur[v])
        /\ cell' = [cell EXCEPT ![v] = Len(maxOff) + 1]
        /\ queue' = Append(queue, t)
    BY <1>4 DEF HedgePush
  <2>2. v \in Workers /\ cur[v] \in Nat /\ stop[v] \in Nat
    BY <1>1 DEF TypeOK, LootHeld, MuFree
  <2>3. maxOff' \in Seq(Nat) /\ Len(maxOff') = Len(maxOff) + 1
    BY <1>2, <2>1, <2>2, AppendProperties
  <2>4. t \in Task /\ t.cell <= Len(maxOff')
    BY <1>2, <2>2, <2>3 DEF Task
  <2>5. cell' \in [Workers -> Nat]
    <3>1. Len(maxOff) + 1 \in Nat
      BY <1>2
    <3>2. QED
      BY <1>2, <2>1, <3>1
  <2>6. ASSUME NEW w \in Workers
        PROVE  cell'[w] = cell[w] \/ cell'[w] <= Len(maxOff')
    <3>1. CASE w = v
      <4>1. cell'[w] = Len(maxOff')
        BY <1>2, <2>1, <2>3, <3>1
      <4>2. QED
        BY <1>2, <2>3, <4>1
    <3>2. CASE w # v
      BY <1>2, <2>1, <3>2
    <3>3. QED
      BY <3>1, <3>2
  <2>7. \E x \in Task : x.cell <= Len(maxOff') /\ queue' = Append(queue, x)
    BY <2>1, <2>4
  <2>8. Len(maxOff') >= Len(maxOff)
    BY <1>2, <2>3
  <2>9. QED
    BY <1>1, <2>3, <2>5, <2>6, <2>7, <2>8
<1>5. QED
  BY <1>3, <1>4

LEMMA BalancerAt ==
  ASSUME TypeOK, AllAt, LootHeld, BalancerStep
  PROVE  AllAt' /\ LootHeld'
<1>1. /\ UNCHANGED <<written, pc, task, attempt, got, readErr, active, cur, main, ctxDone>>
  BY BalancerFrame DEF worker, session
<1>2. /\ Len(maxOff) \in Nat /\ FileSize \in Nat /\ active \subseteq Workers
      /\ loot.remaining \in Nat /\ loot.from \in Nat
      /\ \A v \in Workers : Numbers(v)
  BY TypesGive
<1>3. ASSUME NEW v \in Workers, CellKnown(v)', EndedAtEnd(v)'
      PROVE  At(v)'
  <2>1. At(v)
    BY DEF AllAt
  <2>2. Registered(v)' /\ Filling(v)' /\ OnDisk(v)' /\ Tries(v)'
    BY <1>1, <2>1 DEF At, Registered, Filling, OnDisk, Tries, Bytes
  <2>3. QED
    BY <1>3, <2>2 DEF At
<1>4. ASSUME UNCHANGED <<cell, maxOff>>, NEW v \in Workers
      PROVE  CellKnown(v)'
  BY <1>1, <1>4 DEF AllAt, At, CellKnown
<1>5. ASSUME stop' = stop, NEW v \in Workers, NotRaised(v) => NotRaised(v)'
      PROVE  EndedAtEnd(v)'
  BY <1>1, <1>5 DEF AllAt, At, EndedAtEnd, BodyEnd
<1>6. CASE BalanceTick \/ StealNothing \/ HedgeNothing \/ HedgeMark
  <2>1. UNCHANGED <<stop, cell, maxOff>> /\ bal' \notin {"aim", "cut"}
    BY <1>6 DEF BalanceTick, StealNothing, HedgeNothing, HedgeMark, AfterNoSteal
  <2>2. \A v \in Workers : NotRaised(v)'
    BY <2>1 DEF NotRaised
  <2>3. LootHeld'
    <3>1. CASE BalanceTick \/ StealNothing \/ HedgeNothing
      BY <3>1 DEF BalanceTick, StealNothing, HedgeNothing, AfterNoSteal, LootHeld, MuFree
    <3>2. CASE HedgeMark
      <4>1. PICK v \in active : loot' = [NoLoot EXCEPT !.victim = v]
        BY <3>2 DEF HedgeMark
      <4>2. loot'.victim = v /\ bal' = "dup"
        BY <3>2, <4>1 DEF HedgeMark, NoLoot
      <4>3. QED
        BY <1>1, <4>2 DEF LootHeld
    <3>3. QED
      BY <1>6, <3>1, <3>2
  <2>4. QED
    BY <1>3, <1>4, <1>5, <2>1, <2>2, <2>3 DEF AllAt
<1>7. CASE StealPick
  <2>1. PICK u \in active : loot' = [victim |-> u, remaining |-> Remaining(u), from |-> 0]
                            /\ Remaining(u) > MinChunk
    BY <1>7 DEF StealPick
  <2>2. UNCHANGED <<stop, cell, maxOff>> /\ bal' = "aim"
    BY <1>7 DEF StealPick
  <2>3. Remaining(u) = stop[u] - cur[u]
    BY <1>2, <2>1, EngineAssumption DEF Remaining, Numbers
  <2>4. loot'.victim = u /\ loot'.remaining = stop[u] - cur[u]
    BY <2>1, <2>3
  <2>5. \A v \in Workers : NotRaised(v)'
    BY <1>1, <1>2, <2>2, <2>4 DEF NotRaised, Numbers
  <2>6. LootHeld'
    BY <1>1, <1>2, <2>2, <2>4 DEF LootHeld, Numbers
  <2>7. QED
    BY <1>3, <1>4, <1>5, <2>2, <2>5, <2>6 DEF AllAt
<1>8. CASE StealAim
  <2>1. /\ bal = "aim" /\ bal' = "cut" /\ UNCHANGED <<stop, cell, maxOff>>
        /\ loot' = [loot EXCEPT !.from = cur[loot.victim]]
    BY <1>8 DEF StealAim
  <2>2. loot'.victim = loot.victim /\ loot'.remaining = loot.remaining /\ loot'.from = cur[loot.victim]
    BY <2>1 DEF TypeOK
  <2>3. \A v \in Workers : NotRaised(v) => NotRaised(v)'
    BY <1>1, <2>1, <2>2 DEF NotRaised
  <2>4. LootHeld'
    BY <1>1, <2>1, <2>2 DEF LootHeld, MuFree
  <2>5. QED
    BY <1>3, <1>4, <1>5, <2>1, <2>3, <2>4 DEF AllAt
<1>9. CASE StealCut
  <2>1. /\ bal = "cut" /\ bal' = "push" /\ UNCHANGED <<loot, cell, maxOff>>
        /\ stop' = [stop EXCEPT ![loot.victim] = NewStop]
    BY <1>9 DEF StealCut
  <2>2. LootHeld'
    BY <1>1, <2>1 DEF LootHeld, MuFree
  <2>3. \A v \in Workers : NotRaised(v)'
    BY <2>1 DEF NotRaised
  <2>4. ASSUME NEW v \in Workers
        PROVE  EndedAtEnd(v)'
    <3>1. EndedAtEnd(v)
      BY DEF AllAt, At
    <3>2. CASE v # loot.victim
      <4>1. stop'[v] = stop[v]
        BY <2>1, <3>2 DEF TypeOK
      <4>2. QED
        BY <1>1, <2>3, <3>1, <4>1 DEF EndedAtEnd, BodyEnd
    <3>3. CASE v = loot.victim
      <4>1. NotRaised(v) => NewStop <= stop[v]
        <5>1. SplitSize(loot.remaining) <= loot.remaining /\ SplitSize(loot.remaining) \in Nat
          BY <1>2, EngineAssumption DEF SplitSize
        <5>2. QED
          BY <1>2, <2>1, <3>3, <5>1 DEF NotRaised, NewStop, Numbers
      <4>2. stop'[v] = NewStop /\ NewStop \in Nat
        <5>1. SplitSize(loot.remaining) \in Nat
          BY <1>2, EngineAssumption DEF SplitSize
        <5>2. stop \in [Workers -> Nat]
          BY DEF TypeOK
        <5>3. QED
          BY <1>2, <2>1, <3>3, <5>1, <5>2 DEF NewStop
      <4>3. cur[v] \in Nat /\ got[v] \in Nat /\ stop[v] \in Nat
        BY <1>2 DEF Numbers
      <4>4. cur[v] + got[v] >= stop[v] /\ NotRaised(v) => cur[v] + got[v] >= stop'[v]
        BY <4>1, <4>2, <4>3
      <4>5. QED
        BY <1>1, <2>3, <3>1, <4>4 DEF EndedAtEnd, BodyEnd
    <3>4. QED
      BY <3>2, <3>3
  <2>5. QED
    BY <1>3, <1>4, <2>1, <2>2, <2>4 DEF AllAt
<1>10. CASE StealPush
  <2>1. UNCHANGED <<stop, cell, maxOff>> /\ bal' \notin {"aim", "cut", "push", "dup"}
    BY <1>10 DEF StealPush, AfterNoSteal
  <2>2. \A v \in Workers : NotRaised(v)'
    BY <2>1 DEF NotRaised
  <2>3. LootHeld'
    BY <2>1 DEF LootHeld, MuFree
  <2>4. QED
    BY <1>3, <1>4, <1>5, <2>1, <2>2, <2>3 DEF AllAt
<1>11. CASE HedgePush
  <2>1. /\ Len(maxOff') >= Len(maxOff) /\ maxOff' \in Seq(Nat)
        /\ \A v \in Workers : cell'[v] = cell[v] \/ cell'[v] <= Len(maxOff')
        /\ bal' = "rest" /\ stop' = stop
    BY <1>11, HedgePushEffect
  <2>2. Len(maxOff') \in Nat
    BY <2>1, LenProperties
  <2>3. \A v \in Workers : CellKnown(v)'
    BY <1>1, <1>2, <2>1, <2>2 DEF AllAt, At, CellKnown, Numbers
  <2>4. (\A v \in Workers : NotRaised(v)') /\ LootHeld'
    BY <2>1 DEF NotRaised, LootHeld, MuFree
  <2>5. QED
    BY <1>3, <1>5, <2>1, <2>3, <2>4 DEF AllAt
<1>12. QED
  BY <1>6, <1>7, <1>8, <1>9, <1>10, <1>11 DEF BalancerStep

-----------------------------------------------------------------------------
(* LootHeld under the steps of a worker: while the balancer holds the      *)
(* registry, a worker can only move its own offset on.                     *)
LEMMA WorkerLoot ==
  ASSUME TypeOK, AllAt, LootHeld, NEW w \in Workers, WorkerStep(w) \/ HealthCancel(w)
  PROVE  LootHeld'
<1>1. Shaped /\ Numbers(w) /\ FileSize \in Nat /\ active \subseteq Workers
      /\ loot.remaining \in Nat /\ loot.from \in Nat
      /\ \A v \in Workers : Numbers(v)
  BY TypesGive
<1>2. UNCHANGED <<bal, loot>>
  BY WorkerFrame DEF balancer
<1>3. CASE MuFree
  BY <1>2, <1>3 DEF LootHeld, MuFree
<1>4. CASE ~MuFree /\ UNCHANGED <<active, cur, stop>>
  BY <1>2, <1>4 DEF LootHeld, MuFree
<1>5. CASE Store(w)
  <2>1. UNCHANGED <<active, stop>> /\ cur'[w] = cur[w] + got[w] /\ \A v \in Workers \ {w} : cur'[v] = cur[v]
    BY <1>1, <1>5, StoreEffect DEF SameWorker
  <2>2. \A v \in Workers : cur'[v] \in Nat /\ cur'[v] >= cur[v]
    BY <1>1, <2>1 DEF Numbers
  <2>3. bal = "aim" => cur'[loot.victim] + loot.remaining >= stop[loot.victim]
    <3>1. ASSUME bal = "aim"
          PROVE  cur'[loot.victim] + loot.remaining >= stop[loot.victim]
      <4> DEFINE v == loot.victim
      <4>1. v \in Workers /\ cur[v] + loot.remaining >= stop[v]
        BY <1>1, <3>1 DEF LootHeld, MuFree
      <4>2. cur[v] \in Nat /\ stop[v] \in Nat /\ cur'[v] \in Nat /\ cur'[v] >= cur[v]
        BY <1>1, <2>2, <4>1 DEF Numbers
      <4>3. QED
        BY <1>1, <4>1, <4>2
    <3>2. QED
      BY <3>1
  <2>4. QED
    BY <1>2, <2>1, <2>3 DEF LootHeld, MuFree
<1>6. CASE Register(w) \/ Unregister(w)
  BY <1>1, <1>3, <1>6, RegisterEffect, UnregisterEffect
<1>7. CASE ReadStopped(w) \/ ReadBody(w) \/ ReadFails(w)
  BY <1>1, <1>3, <1>4, <1>7, ReadEffect, EngineAssumption
<1>8. CASE Pop(w) \/ PopNothing(w) \/ Write(w)
  BY <1>1, <1>3, <1>4, <1>8, PopEffect, PopNothingEffect, WriteEffect
<1>9. CASE Count(w)
  BY <1>1, <1>3, <1>4, <1>9, CountEffect DEF TypeOK, AllAt, At
<1>10. CASE Abandon(w) \/ Requeue(w) \/ Ended(w) \/ GiveBack(w) \/ HealthCancel(w)
  BY <1>1, <1>3, <1>4, <1>10, AbandonEffect, RequeueEffect, EndedEffect, GiveBackEffect,
     HealthCancelEffect
<1>11. QED
  BY <1>5, <1>6, <1>7, <1>8, <1>9, <1>10 DEF WorkerStep

(* What is done to the queue.                                              *)
Appended == \E t \in Task : t.cell <= Len(maxOff') /\ queue' = Append(queue, t)

LEMMA WorkerQueue ==
  ASSUME TypeOK, AllAt, NEW w \in Workers, WorkerStep(w) \/ HealthCancel(w)
  PROVE  \/ queue' = queue
         \/ Pop(w) /\ queue # <<>> /\ queue' = Tail(queue)
         \/ Appended
<1>1. Shaped /\ Numbers(w) /\ Len(maxOff) \in Nat /\ FileSize \in Nat
  BY TypesGive
<1>2. CASE ReadStopped(w) \/ ReadBody(w) \/ ReadFails(w)
  BY <1>1, <1>2, ReadEffect, EngineAssumption
<1>3. CASE Pop(w)
  BY <1>1, <1>3, PopEffect
<1>4. CASE PopNothing(w) \/ Register(w) \/ Write(w) \/ Store(w)
  BY <1>1, <1>4, PopNothingEffect, RegisterEffect, WriteEffect, StoreEffect
<1>5. CASE Count(w)
  BY <1>1, <1>5, CountEffect DEF TypeOK, AllAt, At
<1>6. CASE Abandon(w) \/ Ended(w) \/ Unregister(w) \/ HealthCancel(w)
  BY <1>1, <1>6, AbandonEffect, EndedEffect, UnregisterEffect, HealthCancelEffect
<1>7. CASE Requeue(w)
  BY <1>1, <1>7, RequeueEffect DEF Appended
<1>8. CASE GiveBack(w)
  <2>1. queue' = Append(queue, task[w]) /\ maxOff' = maxOff
    BY <1>1, <1>8, GiveBackEffect
  <2>2. task[w] \in Task
    BY DEF TypeOK
  <2>3. task[w].cell <= Len(maxOff)
    BY DEF AllAt, At, CellKnown
  <2>4. QED
    BY <2>1, <2>2, <2>3 DEF Appended
<1>9. QED
  BY <1>2, <1>3, <1>4, <1>5, <1>6, <1>7, <1>8 DEF WorkerStep

LEMMA BalancerQueue ==
  ASSUME TypeOK, LootHeld, BalancerStep
  PROVE  /\ queue' = queue \/ (Appended /\ loot.victim \in active)
         /\ maxOff' \in Seq(Nat) /\ Len(maxOff') >= Len(maxOff)
<1>1. maxOff \in Seq(Nat) /\ Len(maxOff) \in Nat
  BY LenProperties DEF TypeOK
<1>2. CASE HedgePush
  BY <1>2, HedgePushEffect DEF Appended, LootHeld, MuFree
<1>3. CASE StealPush
  <2>1. maxOff' = maxOff /\ bal = "push"
    BY <1>3 DEF StealPush
  <2>2. loot.victim \in active
    BY <2>1 DEF LootHeld, MuFree
  <2>3. StolenTask \in Task /\ StolenTask.cell = 0
    <3>1. NewStop \in Nat /\ cur[loot.victim] \in Nat /\ loot.from + loot.remaining \in Nat
      <4>1. loot.from \in Nat /\ loot.remaining \in Nat /\ active \subseteq Workers
            /\ \A v \in Workers : Numbers(v)
        BY TypesGive
      <4>2. SplitSize(loot.remaining) \in Nat
        BY <4>1, EngineAssumption DEF SplitSize
      <4>3. QED
        BY <2>2, <4>1, <4>2 DEF NewStop, Numbers
    <3>2. Greater(NewStop, cur[loot.victim]) \in Nat
      BY <3>1 DEF Greater
    <3>3. QED
      BY <3>1, <3>2 DEF StolenTask, Task
  <2>4. queue' = queue \/ queue' = Append(queue, StolenTask)
    BY <1>3 DEF StealPush
  <2>5. QED
    BY <1>1, <2>1, <2>2, <2>3, <2>4 DEF Appended
<1>4. CASE UNCHANGED <<queue, maxOff>>
  BY <1>1, <1>4
<1>5. QED
  BY <1>2, <1>3, <1>4 DEF BalancerStep, BalanceTick, StealPick, StealNothing, StealAim, StealCut,
                          HedgeMark, HedgeNothing

LEMMA QueueTyped ==
  ASSUME TypeOK, Celled, maxOff' \in Seq(Nat), Len(maxOff') >= Len(maxOff),
         queue' = queue \/ (queue # <<>> /\ queue' = Tail(queue)) \/ Appended
  PROVE  queue' \in Seq(Task) /\ Celled'
<1>1. queue \in Seq(Task) /\ Len(maxOff) \in Nat /\ Len(maxOff') \in Nat
  BY LenProperties DEF TypeOK
<1>2. \A i \in DOMAIN queue : queue[i].cell \in Nat /\ queue[i].cell <= Len(maxOff')
  <2>1. \A i \in DOMAIN queue : queue[i] \in Task
    BY <1>1, ElementOfSeq, LenProperties
  <2>2. QED
    BY <1>1, <2>1 DEF Celled, Task
<1>3. CASE queue' = queue
  BY <1>1, <1>2, <1>3 DEF Celled
<1>4. CASE queue # <<>> /\ queue' = Tail(queue)
  <2>1. Tail(queue) \in Seq(Task) /\ \A i \in DOMAIN Tail(queue) : \E j \in DOMAIN queue : Tail(queue)[i] = queue[j]
    BY <1>1, <1>4, PopCovers
  <2>2. QED
    BY <1>2, <1>4, <2>1 DEF Celled
<1>5. CASE Appended
  <2>1. PICK t \in Task : t.cell <= Len(maxOff') /\ queue' = Append(queue, t)
    BY <1>5 DEF Appended
  <2>2. /\ Append(queue, t) \in Seq(Task)
        /\ \A i \in DOMAIN Append(queue, t) :
             Append(queue, t)[i] = t \/ (i \in DOMAIN queue /\ Append(queue, t)[i] = queue[i])
    BY <1>1, AppendCovers
  <2>3. QED
    BY <1>2, <2>1, <2>2 DEF Celled
<1>6. QED
  BY <1>3, <1>4, <1>5

(* LeftEmpty: a worker leaves only on an empty queue or when the context   *)
(* is done, and the balancer adds to the queue only for an entry.          *)
LEMMA WorkerLeft ==
  ASSUME TypeOK, AllAt, LeftEmpty, NEW w \in Workers, WorkerStep(w) \/ HealthCancel(w)
  PROVE  LeftEmpty'
<1>1. Shaped /\ Numbers(w) /\ FileSize \in Nat
  BY TypesGive
<1>2. ctxDone' = ctxDone
  BY WorkerFrame DEF session
<1>3. CASE PopNothing(w)
  BY <1>1, <1>2, <1>3, PopNothingEffect DEF LeftEmpty
<1>4. CASE Abandon(w)
  BY <1>1, <1>2, <1>4, AbandonEffect DEF LeftEmpty
<1>5. CASE pc'[w] # "exit"
  BY <1>5 DEF LeftEmpty
<1>6. CASE ReadStopped(w) \/ ReadBody(w) \/ ReadFails(w)
  <2>1. pc'[w] = IF got'[w] > 0 THEN "write" ELSE "returned"
    BY <1>1, <1>6, ReadEffect, EngineAssumption
  <2>2. QED
    BY <1>5, <2>1
<1>7. CASE Pop(w) \/ Register(w) \/ Requeue(w) \/ Ended(w) \/ GiveBack(w)
  BY <1>1, <1>5, <1>7, PopEffect, RegisterEffect, RequeueEffect, EndedEffect, GiveBackEffect
<1>8. CASE Write(w)
  BY <1>1, <1>5, <1>8, WriteEffect
<1>9. CASE Count(w)
  BY <1>1, <1>5, <1>9, CountEffect DEF TypeOK, AllAt, At
<1>10. CASE Store(w)
  BY <1>1, <1>5, <1>10, StoreEffect
<1>11. CASE Unregister(w)
  BY <1>1, <1>5, <1>11, UnregisterEffect
<1>12. CASE HealthCancel(w)
  <2>1. pc[w] # "exit" /\ SameWorker(w)
    BY <1>1, <1>12, HealthCancelEffect
  <2>2. QED
    BY <1>5, <2>1 DEF SameWorker
<1>13. QED
  BY <1>3, <1>4, <1>6, <1>7, <1>8, <1>9, <1>10, <1>11, <1>12 DEF WorkerStep

LEMMA BalancerLeft ==
  ASSUME TypeOK, AllAt, LootHeld, LeftEmpty, BalancerStep
  PROVE  LeftEmpty'
<1>1. UNCHANGED <<pc, ctxDone>>
  BY BalancerFrame DEF worker, session
<1>2. CASE queue' = queue
  BY <1>1, <1>2 DEF LeftEmpty
<1>3. CASE loot.victim \in active
  <2>1. pc[loot.victim] = "exit" => ctxDone
    BY <1>3 DEF AllAt, At, Registered, TypeOK
  <2>2. QED
    BY <1>1, <1>3, <2>1 DEF LeftEmpty, TypeOK
<1>4. QED
  BY <1>2, <1>3, BalancerQueue

-----------------------------------------------------------------------------
(* The steps of the download: all of it but Coverage and the types.        *)
LEMMA SessionRest ==
  ASSUME TypeOK, AllAt, LeftEmpty, Celled, LootHeld,
         DownloadStep \/ Pause \/ CancelContext \/ Persist
  PROVE  AllAt' /\ LeftEmpty' /\ Celled' /\ LootHeld'
<1>1. UNCHANGED <<written, pc, task, attempt, got, readErr, active, cur, stop, cell, maxOff, bal, loot>>
  BY SessionFrame DEF worker, entry, balancer
<1>2. /\ main' # "run" => main # "run" \/ \A w \in Workers : pc[w] = "exit"
      /\ ctxDone => ctxDone'
      /\ queue' = queue \/ queue' = <<>>
  BY DEF DownloadStep, WorkersJoined, CheckContext, CollectActive, DrainQueue, Pause,
         CancelContext, Persist
<1>3. ASSUME NEW w \in Workers
      PROVE  At(w)'
  <2>1. At(w)
    BY DEF AllAt
  <2>2. Registered(w)'
    BY <1>1, <1>2, <2>1 DEF At, Registered
  <2>3. Filling(w)' /\ OnDisk(w)' /\ CellKnown(w)' /\ Tries(w)'
    BY <1>1, <2>1 DEF At, Filling, OnDisk, Bytes, CellKnown, Tries
  <2>4. EndedAtEnd(w)'
    BY <1>1, <2>1 DEF At, EndedAtEnd, NotRaised, BodyEnd
  <2>5. QED
    BY <2>2, <2>3, <2>4 DEF At
<1>4. LeftEmpty'
  BY <1>1, <1>2 DEF LeftEmpty
<1>5. Celled'
  BY <1>1, <1>2 DEF Celled
<1>6. LootHeld'
  BY <1>1 DEF LootHeld, MuFree
<1>7. QED
  BY <1>3, <1>4, <1>5, <1>6 DEF AllAt

(* A session begins with an empty registry and a queue without cells.      *)
LEMMA RestartRest ==
  ASSUME TypeOK, NoCells, Resume \/ Crash
  PROVE  /\ AllAt' /\ LeftEmpty' /\ Celled' /\ NoCells' /\ LootHeld'
         /\ queue' \in Seq(Task)
<1>1. SessionStart(SetupTasks) /\ written' = written /\ stored' = stored
      /\ (outbox' = outbox \/ outbox' = <<>>)
  BY RestartFrame
<1>2. SetupTasks \in Seq(Task) /\ Uncelled(SetupTasks)
  BY FreshTasksCover DEF SetupTasks, TypeOK, NoCells
<1>3. /\ queue' = SetupTasks /\ active' = {} /\ maxOff' = <<>> /\ saved' = <<>>
      /\ bal' = "rest" /\ main' = "run"
  BY <1>1 DEF SessionStart
<1>4. Len(<<>>) = 0
  OBVIOUS
<1>5. ASSUME NEW w \in Workers
      PROVE  At(w)'
  <2>1. pc'[w] = "pop" /\ task'[w] = NoTask /\ cell'[w] = 0
    BY <1>1 DEF SessionStart
  <2>2. Registered(w)' /\ Filling(w)' /\ OnDisk(w)' /\ Tries(w)' /\ EndedAtEnd(w)'
    BY <1>3, <2>1 DEF Registered, Filling, OnDisk, Tries, EndedAtEnd, Busy, Filled
  <2>3. CellKnown(w)'
    BY <1>3, <1>4, <2>1 DEF CellKnown, NoTask
  <2>4. QED
    BY <2>2, <2>3 DEF At
<1>6. LeftEmpty'
  <2>1. \A w \in Workers : pc'[w] = "pop"
    BY <1>1 DEF SessionStart
  <2>2. QED
    BY <2>1, EngineAssumption DEF LeftEmpty
<1>7. Celled'
  BY <1>2, <1>3, <1>4 DEF Celled, Uncelled
<1>8. NoCells'
  BY <1>1, <1>3 DEF NoCells, Uncelled
<1>9. LootHeld'
  BY <1>3 DEF LootHeld, MuFree
<1>10. QED
  BY <1>2, <1>3, <1>5, <1>6, <1>7, <1>8, <1>9 DEF AllAt

LEMMA MonitorRest ==
  ASSUME TypeOK, AllAt, LeftEmpty, Celled, LootHeld, MonitorStep \/ UNCHANGED vars
  PROVE  AllAt' /\ LeftEmpty' /\ Celled' /\ LootHeld'
<1>1. UNCHANGED <<written, queue, pc, task, attempt, got, readErr, active, cur, stop, cell, maxOff,
                  bal, loot, main, ctxDone>>
  BY MonitorFrame DEF vars, worker, entry, balancer, session
<1>2. ASSUME NEW w \in Workers
      PROVE  At(w)'
  <2>1. At(w)
    BY DEF AllAt
  <2>2. Registered(w)' /\ Filling(w)' /\ OnDisk(w)' /\ CellKnown(w)' /\ Tries(w)'
    BY <1>1, <2>1 DEF At, Registered, Filling, OnDisk, Bytes, CellKnown, Tries
  <2>3. EndedAtEnd(w)'
    BY <1>1, <2>1 DEF At, EndedAtEnd, NotRaised, BodyEnd
  <2>4. QED
    BY <2>2, <2>3 DEF At
<1>3. LeftEmpty' /\ Celled' /\ LootHeld'
  BY <1>1 DEF LeftEmpty, Celled, LootHeld, MuFree
<1>4. QED
  BY <1>2, <1>3 DEF AllAt

(* What handlePause saves: a list of the entries that have something left, *)
(* then the queue before it.                                               *)
LEMMA CollectActiveEffect ==
  ASSUME TypeOK, CollectActive
  PROVE  /\ MuFree /\ main = "collect" /\ main' = "drain"
         /\ UNCHANGED <<written, queue, outbox, stored>>
         /\ saved' \in Seq(Task) /\ Uncelled(saved')
         /\ \A w \in active, b \in Nat : cur[w] <= b /\ b < stop[w] => Covers(saved', b)
<1>1. /\ MuFree /\ main = "collect" /\ main' = "drain"
      /\ UNCHANGED <<written, queue, outbox, stored>>
  BY DEF CollectActive, SessionKeeps
<1>2. PICK order \in [1..Cardinality(Collected) -> Collected] :
        /\ \A w \in Collected : \E i \in DOMAIN order : order[i] = w
        /\ saved' = [i \in DOMAIN order |-> RemainingTask(order[i])]
  BY DEF CollectActive
<1>3. active \subseteq Workers /\ \A w \in Workers : Numbers(w)
  BY TypesGive
<1>4. Collected \subseteq active /\ Cardinality(Collected) \in Nat
  <2>1. Collected \subseteq Workers
    BY <1>3 DEF Collected
  <2>2. IsFiniteSet(Collected)
    BY <2>1, EngineAssumption, FS_Subset
  <2>3. QED
    BY <2>2, FS_CardinalityType DEF Collected
<1>5. \A w \in active : RemainingTask(w) \in Task
  BY <1>3 DEF RemainingTask, Task, Numbers
<1>6. DOMAIN saved' = 1..Cardinality(Collected) /\ DOMAIN order = 1..Cardinality(Collected)
  BY <1>2
<1>7. saved' \in Seq(Task)
  <2>1. saved' \in [1..Cardinality(Collected) -> Task]
    BY <1>2, <1>4, <1>5
  <2>2. QED
    BY <1>4, <2>1, SeqDef
<1>8. Uncelled(saved')
  BY <1>2 DEF Uncelled, RemainingTask
<1>9. ASSUME NEW w \in active, NEW b \in Nat, cur[w] <= b, b < stop[w]
      PROVE  Covers(saved', b)
  <2>1. w \in Collected
    <3>1. cur[w] \in Nat /\ stop[w] \in Nat
      BY <1>3 DEF Numbers
    <3>2. QED
      BY <1>9, <3>1 DEF Collected, Remaining
  <2>2. PICK i \in DOMAIN order : order[i] = w
    BY <1>2, <2>1
  <2>3. i \in DOMAIN saved' /\ saved'[i] = RemainingTask(w)
    BY <1>2, <2>2
  <2>4. b \in TaskBytes(RemainingTask(w))
    BY <1>3, <1>9 DEF TaskBytes, RemainingTask, Numbers
  <2>5. QED
    BY <2>3, <2>4 DEF Covers
<1>10. QED
  BY <1>1, <1>7, <1>8, <1>9

LEMMA DrainQueueEffect ==
  ASSUME TypeOK, DrainQueue, Uncelled(saved)
  PROVE  /\ main = "drain" /\ queue' = <<>> /\ UNCHANGED <<written, stored>>
         /\ downloaded' \in Int /\ paused' \in BOOLEAN
         /\ \/ /\ main' = "done" /\ UNCHANGED <<saved, outbox>>
               /\ \A b : ~Covers(queue, b) /\ ~Covers(saved, b)
            \/ /\ main' = "paused" /\ saved' = RemainingTasks /\ outbox' = RemainingTasks
         /\ RemainingTasks \in Seq(Task) /\ Uncelled(RemainingTasks)
         /\ \A b : Covers(queue, b) \/ Covers(saved, b) => Covers(RemainingTasks, b)
<1>1. main = "drain" /\ queue' = <<>> /\ UNCHANGED <<written, stored>>
  BY DEF DrainQueue
<1>2. /\ WithoutCells(queue) \in Seq(Task) /\ Uncelled(WithoutCells(queue))
      /\ \A b : Covers(queue, b) => Covers(WithoutCells(queue), b)
  BY WithoutCellsCovers DEF TypeOK
<1>3. /\ RemainingTasks \in Seq(Task) /\ Uncelled(RemainingTasks)
      /\ \A b : Covers(WithoutCells(queue), b) \/ Covers(saved, b) => Covers(RemainingTasks, b)
  BY <1>2, ConcatCovers DEF TypeOK, RemainingTasks
<1>4. /\ TotalLength(RemainingTasks) \in Nat
      /\ TotalLength(RemainingTasks) = 0 => \A b : ~Covers(RemainingTasks, b)
  BY <1>3, TotalLengthType
<1>5. CASE TotalLength(RemainingTasks) = 0
  <2>1. main' = "done" /\ UNCHANGED <<saved, outbox>> /\ paused' = FALSE /\ downloaded' = FileSize
    BY <1>5 DEF DrainQueue
  <2>2. \A b : ~Covers(queue, b) /\ ~Covers(saved, b)
    BY <1>2, <1>3, <1>4, <1>5
  <2>3. downloaded' \in Int
    BY <2>1, EngineAssumption
  <2>4. QED
    BY <1>1, <1>2, <1>3, <2>1, <2>2, <2>3
<1>6. CASE TotalLength(RemainingTasks) # 0
  <2>1. /\ main' = "paused" /\ saved' = RemainingTasks /\ outbox' = RemainingTasks /\ paused' = paused
        /\ downloaded' \in IF ComputedDownloaded(RemainingTasks) >= 0
                          THEN {ComputedDownloaded(RemainingTasks)} ELSE 0..FileSize
    BY <1>6 DEF DrainQueue
  <2>2. ComputedDownloaded(RemainingTasks) \in Int
    BY <1>4, EngineAssumption DEF ComputedDownloaded
  <2>3. downloaded' \in Int /\ paused' \in BOOLEAN
    BY <2>1, <2>2, EngineAssumption DEF TypeOK
  <2>4. QED
    BY <1>1, <1>2, <1>3, <2>1, <2>3
<1>7. QED
  BY <1>5, <1>6

LEMMA NoCellsStep ==
  ASSUME TypeOK, NoCells, [Next]_vars
  PROVE  NoCells'
<1>1. CASE UNCHANGED <<saved, outbox, stored>>
  BY <1>1 DEF NoCells
<1>2. CASE \E w \in Workers : WorkerStep(w) \/ HealthCancel(w)
  BY <1>1, <1>2, WorkerFrame DEF session
<1>3. CASE BalancerStep \/ MonitorStep \/ UNCHANGED vars
  BY <1>1, <1>3, BalancerFrame, MonitorFrame DEF session, vars
<1>4. CASE WorkersJoined \/ CheckContext \/ Pause \/ CancelContext
  BY <1>1, <1>4 DEF WorkersJoined, CheckContext, Pause, CancelContext
<1>5. CASE CollectActive
  BY <1>5, CollectActiveEffect DEF NoCells
<1>6. CASE DrainQueue
  BY <1>6, DrainQueueEffect DEF NoCells
<1>7. CASE Persist
  BY <1>7 DEF Persist, NoCells, Uncelled
<1>8. CASE Resume \/ Crash
  BY <1>8, RestartRest
<1>9. QED
  BY <1>2, <1>3, <1>4, <1>5, <1>6, <1>7, <1>8, StepCases DEF DownloadStep

-----------------------------------------------------------------------------
(* The types, in groups.                                                   *)
WorkerTypes ==
  /\ pc \in [Workers -> {"pop", "idle", "try", "read", "write", "count", "store",
                         "returned", "drop", "giveback", "exit"}]
  /\ task \in [Workers -> Task]
  /\ attempt \in [Workers -> 0..MaxRetries]
  /\ got \in [Workers -> Nat]
  /\ readErr \in [Workers -> {"nil", "eof", "fail"}]
  /\ pend \in [Workers -> Nat]
EntryTypes ==
  /\ active \subseteq Workers
  /\ cur \in [Workers -> Nat]
  /\ stop \in [Workers -> Nat]
  /\ hedged \in [Workers -> BOOLEAN]
  /\ cell \in [Workers -> Nat]
  /\ cancelled \in [Workers -> BOOLEAN]
SharedTypes ==
  /\ written \subseteq Bytes
  /\ queue \in Seq(Task)
  /\ maxOff \in Seq(Nat)
  /\ downloaded \in Int
LootTypes ==
  /\ bal \in {"rest", "steal", "aim", "cut", "push", "hedge", "dup"}
  /\ loot \in [victim : Workers \cup {NoWorker}, remaining : Nat, from : Nat]
SessionTypes ==
  /\ closed \in BOOLEAN
  /\ mon \in {"rest", "empty", "gone"}
  /\ paused \in BOOLEAN
  /\ ctxDone \in BOOLEAN
  /\ main \in {"run", "ctx", "collect", "drain", "done", "canceled", "paused"}
  /\ saved \in Seq(Task)
  /\ outbox \in Seq(Task)
  /\ stored \in Seq(Task)
CountTypes == {faults, cancels, sessions} \subseteq Nat

LEMMA TypesGrouped ==
  /\ TypeOK <=> WorkerTypes /\ EntryTypes /\ SharedTypes /\ LootTypes /\ SessionTypes /\ CountTypes
  /\ TypeOK' <=> WorkerTypes' /\ EntryTypes' /\ SharedTypes' /\ LootTypes' /\ SessionTypes' /\ CountTypes'
BY DEF TypeOK, WorkerTypes, EntryTypes, SharedTypes, LootTypes, SessionTypes, CountTypes

LEMMA WorkerTypesStep ==
  ASSUME TypeOK, AllAt, NEW w \in Workers, WorkerStep(w) \/ HealthCancel(w)
  PROVE  WorkerTypes' /\ EntryTypes'
<1>1. WorkerTypes /\ EntryTypes /\ queue \in Seq(Task) /\ maxOff \in Seq(Nat)
      /\ Shaped /\ Numbers(w) /\ FileSize \in Nat
  BY TypesGive DEF TypeOK, WorkerTypes, EntryTypes
<1>2. 0 \in 0..MaxRetries /\ NoTask \in Task
  BY EngineAssumption DEF NoTask, Task
<1>3. CASE Pop(w)
  <2>1. Head(queue) \in Task
    BY <1>1, <1>3, PopCovers DEF Pop
  <2>2. QED
    BY <1>1, <1>2, <1>3, <2>1 DEF Pop, WorkerTypes, EntryTypes, entry
<1>4. CASE PopNothing(w)
  BY <1>1, <1>4 DEF PopNothing, WorkerTypes, EntryTypes, entry
<1>5. CASE Register(w)
  <2>1. task[w].off \in Nat /\ task[w].end \in Nat /\ task[w].cell \in Nat /\ (task[w].cell # 0) \in BOOLEAN
    BY <1>1 DEF Numbers
  <2>2. WorkerTypes'
    BY <1>1, <1>5 DEF Register, WorkerTypes
  <2>3. cur' \in [Workers -> Nat] /\ stop' \in [Workers -> Nat] /\ cell' \in [Workers -> Nat]
    BY <1>1, <1>5, <2>1 DEF Register, EntryTypes
  <2>4. hedged' \in [Workers -> BOOLEAN] /\ cancelled' \in [Workers -> BOOLEAN] /\ active' \subseteq Workers
    BY <1>1, <1>5, <2>1 DEF Register, EntryTypes
  <2>5. QED
    BY <2>2, <2>3, <2>4 DEF EntryTypes
<1>6. CASE ReadStopped(w) \/ ReadBody(w) \/ ReadFails(w)
  <2>1. got'[w] \in Nat /\ readErr'[w] \in {"nil", "eof", "fail"}
    BY <1>1, <1>6, ReadEffect, EngineAssumption
  <2>2. PICK n, err : Receive(w, n, err)
    BY <1>6 DEF ReadStopped, ReadBody, ReadFails
  <2>3. n \in Nat /\ err \in {"nil", "eof", "fail"}
    BY <1>1, <2>1, <2>2 DEF Receive, Shaped
  <2>4. QED
    BY <1>1, <2>2, <2>3 DEF Receive, WorkerTypes, EntryTypes, entry
<1>7. CASE Write(w)
  <2>1. got'[w] \in Nat
    BY <1>1, <1>7, WriteEffect
  <2>2. \E n, e, p : /\ got' = [got EXCEPT ![w] = n]
                     /\ (readErr' = readErr \/ readErr' = [readErr EXCEPT ![w] = "nil"])
                     /\ pc' = [pc EXCEPT ![w] = p] /\ p \in {"returned", "count"}
    BY <1>7 DEF Write
  <2>3. got' \in [Workers -> Nat]
    BY <1>1, <2>1, <2>2 DEF WorkerTypes
  <2>4. UNCHANGED <<task, attempt, pend, entry>>
    BY <1>7 DEF Write
  <2>5. QED
    BY <1>1, <2>2, <2>3, <2>4 DEF WorkerTypes, EntryTypes, entry
<1>8. CASE Count(w)
  <2>1. pend' \in [Workers -> Nat]
    <3>1. CASE cell[w] = 0
      <4>1. pend[w] \in Nat /\ got[w] \in Nat
        BY <1>1 DEF WorkerTypes
      <4>2. pend[w] + got[w] \in Nat
        BY <4>1
      <4>3. pend' = [pend EXCEPT ![w] = pend[w] + got[w]]
        BY <1>8, <3>1 DEF Count
      <4>4. QED
        BY <1>1, <4>2, <4>3 DEF WorkerTypes
    <3>2. CASE cell[w] # 0
      <4>1. cell[w] \in 1..Len(maxOff)
        BY <1>1, <3>2, TypesGive DEF AllAt, At, CellKnown, Numbers
      <4>2. maxOff[cell[w]] \in Nat
        BY <1>1, <4>1, ElementOfSeq
      <4>3. pend[w] + Lesser(got[w], Greater(0, NextOffset(w) - maxOff[cell[w]])) \in Nat
        <5>1. pend[w] \in Nat /\ got[w] \in Nat
          BY <1>1 DEF WorkerTypes
        <5>2. NextOffset(w) \in Nat
          BY <1>1 DEF Numbers, NextOffset
        <5>3. QED
          BY <4>2, <5>1, <5>2 DEF Lesser, Greater
      <4>4. pend' = [pend EXCEPT ![w] = pend[w] + Lesser(got[w], Greater(0, NextOffset(w) - maxOff[cell[w]]))]
        BY <1>8, <3>2 DEF Count
      <4>5. QED
        BY <1>1, <4>3, <4>4 DEF WorkerTypes
    <3>3. QED
      BY <3>1, <3>2
  <2>2. QED
    BY <1>1, <1>8, <2>1 DEF Count, WorkerTypes, EntryTypes, entry
<1>9. CASE Store(w)
  <2>1. NextOffset(w) \in Nat
    BY <1>1 DEF NextOffset, Numbers
  <2>2. cur' \in [Workers -> Nat]
    BY <1>1, <1>9, <2>1 DEF Store, EntryTypes
  <2>3. pend' \in [Workers -> Nat]
    BY <1>1, <1>9 DEF Store, WorkerTypes
  <2>4. QED
    BY <1>1, <1>9, <2>2, <2>3 DEF Store, WorkerTypes, EntryTypes
<1>10. CASE Abandon(w)
  BY <1>1, <1>2, <1>10 DEF Abandon, Flush, WorkerTypes, EntryTypes, entry
<1>11. CASE Requeue(w)
  BY <1>1, <1>11 DEF Requeue, Flush, WorkerTypes, EntryTypes, entry
<1>12. CASE Ended(w)
  BY <1>1, <1>12 DEF Ended, Flush, WorkerTypes, EntryTypes, entry
<1>13. CASE Unregister(w)
  <2>1. EntryTypes' /\ UNCHANGED <<got, pend>>
    BY <1>1, <1>13 DEF Unregister, EntryTypes
  <2>2. readErr' \in [Workers -> {"nil", "eof", "fail"}]
    BY <1>1, <1>13 DEF Unregister, WorkerTypes
  <2>3. pc[w] = "drop"
    BY <1>13 DEF Unregister
  <2>4. attempt[w] + 1 \in 0..MaxRetries
    <3>1. attempt[w] < MaxRetries
      BY <2>3 DEF AllAt, At, Tries, Busy
    <3>2. attempt[w] \in Nat
      BY <1>1 DEF Numbers
    <3>3. QED
      BY <3>1, <3>2, EngineAssumption
  <2>5. (IF cur[w] > task[w].off THEN [off |-> cur[w], end |-> task[w].end, cell |-> 0] ELSE task[w]) \in Task
    BY <1>1 DEF Numbers, Task, WorkerTypes
  <2>6. task' \in [Workers -> Task]
    BY <1>1, <1>2, <1>13, <2>5 DEF Unregister, WorkerTypes
  <2>7. attempt' \in [Workers -> 0..MaxRetries]
    BY <1>1, <1>2, <1>13, <2>4 DEF Unregister, WorkerTypes
  <2>8. pc' \in [Workers -> {"pop", "idle", "try", "read", "write", "count", "store",
                            "returned", "drop", "giveback", "exit"}]
    BY <1>1, <1>13 DEF Unregister, WorkerTypes
  <2>9. QED
    BY <1>1, <2>1, <2>2, <2>6, <2>7, <2>8 DEF WorkerTypes
<1>14. CASE GiveBack(w)
  BY <1>1, <1>2, <1>14 DEF GiveBack, WorkerTypes, EntryTypes, entry
<1>15. CASE HealthCancel(w)
  BY <1>1, <1>15 DEF HealthCancel, WorkerTypes, EntryTypes, worker
<1>16. QED
  BY <1>3, <1>4, <1>5, <1>6, <1>7, <1>8, <1>9, <1>10, <1>11, <1>12, <1>13, <1>14, <1>15 DEF WorkerStep

LEMMA WorkerSharedTypes ==
  ASSUME TypeOK, AllAt, Celled, NEW w \in Workers, WorkerStep(w) \/ HealthCancel(w),
         Len(maxOff') = Len(maxOff)
  PROVE  SharedTypes' /\ CountTypes' /\ Celled'
<1>1. Shaped /\ Numbers(w) /\ Len(maxOff) \in Nat /\ FileSize \in Nat
      /\ written \subseteq Bytes /\ maxOff \in Seq(Nat) /\ downloaded \in Int /\ pend[w] \in Nat
  BY TypesGive DEF TypeOK
<1>2. maxOff' \in Seq(Nat)
  <2>1. CASE Count(w)
    BY <1>1, <2>1, CountEffect DEF AllAt, At
  <2>2. CASE maxOff' = maxOff
    BY <1>1, <2>2
  <2>3. QED
    BY <2>1, <2>2 DEF WorkerStep, HealthCancel, Pop, PopNothing, Register, ReadStopped, ReadBody,
       ReadFails, Receive, Write, Store, Abandon, Requeue, Ended, Unregister, GiveBack
<1>3. queue' \in Seq(Task) /\ Celled'
  BY <1>1, <1>2, WorkerQueue, QueueTyped
<1>4. downloaded' \in Int
  <2>1. downloaded' = downloaded \/ downloaded' = downloaded + pend[w]
    BY DEF WorkerStep, HealthCancel, Pop, PopNothing, Register, ReadStopped, ReadBody,
       ReadFails, Receive, Write, Count, Store, Abandon, Requeue, Ended, Flush, Unregister, GiveBack
  <2>2. QED
    BY <1>1, <2>1
<1>5. written' \subseteq Bytes'
  <2>1. CASE Write(w)
    <3>1. /\ pc[w] = "write"
          /\ \/ written' = written
             \/ /\ got'[w] \in Nat /\ got'[w] <= got[w]
                /\ written' = written \cup (cur[w]..(cur[w] + got'[w] - 1))
      BY <1>1, <2>1, WriteEffect
    <3>2. cur[w] + got[w] <= FileSize
      BY <3>1 DEF AllAt, At, Filling, Filled
    <3>3. ASSUME got'[w] \in Nat, got'[w] <= got[w]
          PROVE  cur[w]..(cur[w] + got'[w] - 1) \subseteq Bytes
      <4>1. cur[w] \in Nat /\ got[w] \in Nat
        BY <1>1 DEF Numbers
      <4>2. cur[w] + got'[w] <= FileSize
        BY <1>1, <3>2, <3>3, <4>1
      <4>3. QED
        BY <1>1, <3>3, <4>1, <4>2 DEF Bytes
    <3>4. Bytes' = Bytes
      BY DEF Bytes
    <3>5. QED
      BY <1>1, <3>1, <3>3, <3>4
  <2>2. CASE written' = written
    BY <1>1, <2>2 DEF Bytes
  <2>3. QED
    BY <2>1, <2>2 DEF WorkerStep, HealthCancel, Pop, PopNothing, Register, ReadStopped, ReadBody,
       ReadFails, Receive, Count, Store, Abandon, Requeue, Ended, Unregister, GiveBack
<1>6. CountTypes'
  <2>1. (faults' = faults \/ faults' = faults + 1) /\ (cancels' = cancels \/ cancels' = cancels + 1)
        /\ sessions' = sessions
    BY DEF WorkerStep, HealthCancel, Pop, PopNothing, Register, ReadStopped, ReadBody, session,
       ReadFails, Receive, Write, Count, Store, Abandon, Requeue, Ended, Unregister, GiveBack
  <2>2. QED
    <3>1. faults \in Nat /\ cancels \in Nat /\ sessions \in Nat
      BY DEF TypeOK
    <3>2. faults' \in Nat /\ cancels' \in Nat /\ sessions' \in Nat
      BY <2>1, <3>1
    <3>3. QED
      BY <3>2 DEF CountTypes
<1>7. QED
  BY <1>2, <1>3, <1>4, <1>5, <1>6 DEF SharedTypes

LEMMA BalancerTypes ==
  ASSUME TypeOK, LootHeld, Celled, BalancerStep
  PROVE  TypeOK' /\ Celled'
<1>1. UNCHANGED <<written, closed, worker, active, cur, cancelled, downloaded, mon, session,
                  faults, cancels>>
  BY BalancerFrame
<1>2. maxOff' \in Seq(Nat) /\ queue' \in Seq(Task) /\ Celled'
  BY BalancerQueue, QueueTyped
<1>3. active \subseteq Workers /\ loot.remaining \in Nat /\ loot.from \in Nat
      /\ \A v \in Workers : Numbers(v)
  BY TypesGive
<1>4. WorkerTypes' /\ SessionTypes' /\ CountTypes' /\ SharedTypes'
  <2>1. WorkerTypes /\ SessionTypes /\ CountTypes /\ SharedTypes
    BY TypesGrouped
  <2>2. QED
    BY <1>1, <1>2, <2>1 DEF WorkerTypes, SessionTypes, CountTypes, SharedTypes, worker, session, Bytes
<1>5. LootTypes'
  <2>1. bal' \in {"rest", "steal", "aim", "cut", "push", "hedge", "dup"}
    BY DEF BalancerStep, BalanceTick, StealPick, StealNothing, StealAim, StealCut, StealPush,
           HedgeMark, HedgeNothing, HedgePush, AfterNoSteal
  <2>2. NoLoot \in [victim : Workers \cup {NoWorker}, remaining : Nat, from : Nat]
    BY DEF NoLoot
  <2>3. CASE loot' = loot \/ loot' = NoLoot
    BY <2>1, <2>2, <2>3 DEF LootTypes, TypeOK
  <2>4. CASE StealPick
    <3>1. PICK v \in active : loot' = [victim |-> v, remaining |-> Remaining(v), from |-> 0]
      BY <2>4 DEF StealPick
    <3>2. v \in Workers /\ Remaining(v) \in Nat
      BY <1>3 DEF Remaining, Numbers
    <3>3. QED
      BY <2>1, <3>1, <3>2 DEF LootTypes
  <2>5. CASE StealAim
    <3>1. bal = "aim" /\ loot' = [loot EXCEPT !.from = cur[loot.victim]]
      BY <2>5 DEF StealAim
    <3>2. cur[loot.victim] \in Nat
      BY <1>3, <3>1 DEF LootHeld, MuFree, Numbers
    <3>3. QED
      BY <2>1, <3>1, <3>2 DEF LootTypes, TypeOK
  <2>6. CASE HedgeMark
    <3>1. PICK v \in active : loot' = [NoLoot EXCEPT !.victim = v]
      BY <2>6 DEF HedgeMark
    <3>2. QED
      BY <1>3, <2>1, <2>2, <3>1 DEF LootTypes
  <2>7. QED
    BY <2>3, <2>4, <2>5, <2>6 DEF BalancerStep, BalanceTick, StealNothing, StealCut, StealPush,
       HedgeNothing, HedgePush
<1>6. EntryTypes'
  <2>1. EntryTypes
    BY TypesGrouped
  <2>2. CASE HedgePush
    <3>1. cell' \in [Workers -> Nat] /\ stop' = stop /\ hedged' = hedged
      BY <2>2, HedgePushEffect DEF HedgePush
    <3>2. QED
      BY <1>1, <2>1, <3>1 DEF EntryTypes
  <2>3. CASE StealCut
    <3>1. NewStop \in Nat
      <4>1. SplitSize(loot.remaining) \in Nat
        BY <1>3, EngineAssumption DEF SplitSize
      <4>2. QED
        BY <1>3, <4>1 DEF NewStop
    <3>2. stop' = [stop EXCEPT ![loot.victim] = NewStop] /\ cell' = cell /\ hedged' = hedged
      BY <2>3 DEF StealCut
    <3>3. QED
      BY <1>1, <2>1, <3>1, <3>2 DEF EntryTypes
  <2>4. CASE HedgeMark
    <3>1. PICK v \in active : hedged' = [hedged EXCEPT ![v] = TRUE]
      BY <2>4 DEF HedgeMark
    <3>2. cell' = cell /\ stop' = stop
      BY <2>4 DEF HedgeMark
    <3>3. QED
      BY <1>1, <2>1, <3>1, <3>2 DEF EntryTypes
  <2>5. CASE UNCHANGED <<stop, hedged, cell>>
    BY <1>1, <2>1, <2>5 DEF EntryTypes
  <2>6. QED
    BY <2>2, <2>3, <2>4, <2>5 DEF BalancerStep, BalanceTick, StealPick, StealNothing, StealAim,
       StealPush, HedgeNothing
<1>7. QED
  BY <1>2, <1>4, <1>5, <1>6, TypesGrouped

LEMMA SessionTypesStep ==
  ASSUME TypeOK, NoCells, DownloadStep \/ Pause \/ CancelContext \/ Persist
  PROVE  TypeOK'
<1>1. WorkerTypes /\ EntryTypes /\ SharedTypes /\ LootTypes /\ SessionTypes /\ CountTypes
  BY TypesGrouped
<1>2. UNCHANGED <<written, closed, worker, entry, maxOff, balancer, mon, sessions, faults, cancels>>
  BY SessionFrame
<1>3. WorkerTypes' /\ EntryTypes' /\ LootTypes' /\ CountTypes'
  BY <1>1, <1>2 DEF WorkerTypes, EntryTypes, LootTypes, CountTypes, worker, entry, balancer
<1>4. CASE WorkersJoined \/ CheckContext \/ Pause \/ CancelContext \/ Persist
  <2>1. queue' = queue /\ downloaded' = downloaded
    BY <1>4 DEF WorkersJoined, CheckContext, Pause, CancelContext, Persist, SessionKeeps
  <2>2. SharedTypes'
    BY <1>1, <1>2, <2>1 DEF SharedTypes, Bytes
  <2>3. <<>> \in Seq(Task)
    BY EmptySeq
  <2>4. SessionTypes'
    BY <1>1, <1>2, <1>4, <2>3 DEF SessionTypes, WorkersJoined, CheckContext, Pause, CancelContext, Persist
  <2>5. QED
    BY <1>3, <2>2, <2>4, TypesGrouped
<1>5. CASE CollectActive
  <2>1. queue' = queue /\ downloaded' = downloaded /\ UNCHANGED <<paused, ctxDone, outbox, stored>>
    BY <1>5 DEF CollectActive, SessionKeeps
  <2>2. main' = "drain" /\ saved' \in Seq(Task)
    BY <1>5, CollectActiveEffect
  <2>3. SharedTypes' /\ SessionTypes'
    BY <1>1, <1>2, <2>1, <2>2 DEF SharedTypes, SessionTypes, Bytes
  <2>4. QED
    BY <1>3, <2>3, TypesGrouped
<1>6. CASE DrainQueue
  <2>1. /\ queue' = <<>> /\ downloaded' \in Int /\ paused' \in BOOLEAN /\ stored' = stored
        /\ \/ main' = "done" /\ UNCHANGED <<saved, outbox>>
           \/ main' = "paused" /\ saved' = RemainingTasks /\ outbox' = RemainingTasks
        /\ RemainingTasks \in Seq(Task)
    BY <1>6, DrainQueueEffect DEF NoCells
  <2>2. ctxDone' = ctxDone
    BY <1>6 DEF DrainQueue
  <2>3. <<>> \in Seq(Task)
    BY EmptySeq
  <2>4. SharedTypes'
    BY <1>1, <1>2, <2>1, <2>3 DEF SharedTypes, Bytes
  <2>5. SessionTypes'
    BY <1>1, <1>2, <2>1, <2>2 DEF SessionTypes
  <2>6. QED
    BY <1>3, <2>4, <2>5, TypesGrouped
<1>7. QED
  BY <1>4, <1>5, <1>6 DEF DownloadStep

LEMMA RestartTypes ==
  ASSUME TypeOK, NoCells, Resume \/ Crash
  PROVE  TypeOK'
<1>1. SessionStart(SetupTasks) /\ UNCHANGED <<written, stored, faults, cancels>>
      /\ (outbox' = outbox \/ outbox' = <<>>)
  BY RestartFrame
<1>2. queue' \in Seq(Task)
  BY RestartRest
<1>3. downloaded' \in Int
  <2> DEFINE clipped == [i \in DOMAIN stored |-> [stored[i] EXCEPT !.end = Lesser(@, FileSize)]]
  <2>1. downloaded' = 0 \/ downloaded' = ComputedDownloaded(clipped)
    BY DEF Resume, Crash, Restart
  <2>2. stored \in Seq(Task) /\ Len(stored) \in Nat /\ DOMAIN stored = 1..Len(stored)
    BY LenProperties DEF TypeOK
  <2>3. \A i \in DOMAIN stored : clipped[i] \in Task
    <3>1. ASSUME NEW i \in DOMAIN stored
          PROVE  [stored[i] EXCEPT !.end = Lesser(@, FileSize)] \in Task
      <4>1. stored[i] \in Task
        BY <2>2, ElementOfSeq
      <4>2. Lesser(stored[i].end, FileSize) \in Nat
        BY <4>1, EngineAssumption DEF Lesser, Task
      <4>3. QED
        BY <4>1, <4>2 DEF Task
    <3>2. QED
      BY <3>1
  <2>4. clipped \in Seq(Task)
    <3>1. clipped \in [1..Len(stored) -> Task]
      BY <2>2, <2>3
    <3>2. QED
      BY <2>2, <3>1, SeqDef
  <2> HIDE DEF clipped
  <2>5. ComputedDownloaded(clipped) \in Int
    BY <2>4, TotalLengthType, EngineAssumption DEF ComputedDownloaded
  <2>6. QED
    BY <2>1, <2>5
<1>4. <<>> \in Seq(Task) /\ <<>> \in Seq(Nat)
  BY EmptySeq
<1>5. NoTask \in Task /\ 0 \in 0..MaxRetries
  BY EngineAssumption DEF NoTask, Task
<1>6. WorkerTypes'
  BY <1>1, <1>5 DEF SessionStart, WorkerTypes
<1>7. EntryTypes'
  BY <1>1 DEF SessionStart, EntryTypes
<1>8. SharedTypes'
  <2>1. maxOff' = <<>>
    BY <1>1 DEF SessionStart
  <2>2. QED
    BY <1>1, <1>2, <1>3, <1>4, <2>1 DEF SharedTypes, TypeOK, Bytes
<1>9. LootTypes'
  BY <1>1 DEF SessionStart, LootTypes, NoLoot
<1>10. SessionTypes'
  <2>1. outbox' \in Seq(Task) /\ stored' \in Seq(Task)
    BY <1>1, <1>4 DEF TypeOK
  <2>2. QED
    BY <1>1, <1>4, <2>1 DEF SessionStart, SessionTypes
<1>11. CountTypes'
  <2>1. sessions' = sessions + 1
    BY DEF Resume, Crash, Restart
  <2>2. QED
    BY <1>1, <2>1 DEF TypeOK, CountTypes
<1>12. QED
  BY <1>6, <1>7, <1>8, <1>9, <1>10, <1>11, TypesGrouped

LEMMA MonitorTypes ==
  ASSUME TypeOK, MonitorStep \/ UNCHANGED vars
  PROVE  TypeOK'
<1>1. WorkerTypes /\ EntryTypes /\ SharedTypes /\ LootTypes /\ SessionTypes /\ CountTypes
  BY TypesGrouped
<1>2. UNCHANGED <<written, queue, worker, entry, maxOff, downloaded, balancer,
                  session, faults, cancels>>
  BY MonitorFrame DEF vars
<1>3. closed' \in BOOLEAN /\ mon' \in {"rest", "empty", "gone"}
  BY <1>1 DEF MonitorStep, MonitorLen, MonitorDecide, MonitorStop, vars, SessionTypes
<1>4. WorkerTypes' /\ EntryTypes' /\ SharedTypes' /\ LootTypes'
  BY <1>1, <1>2 DEF WorkerTypes, EntryTypes, SharedTypes, LootTypes, worker, entry, balancer, Bytes
<1>5. SessionTypes' /\ CountTypes'
  BY <1>1, <1>2, <1>3 DEF SessionTypes, CountTypes, session
<1>6. QED
  BY <1>4, <1>5, TypesGrouped

LEMMA WorkerAllTypes ==
  ASSUME TypeOK, AllAt, Celled, LootHeld, NEW w \in Workers, WorkerStep(w) \/ HealthCancel(w)
  PROVE  TypeOK' /\ Celled'
<1>1. LootTypes /\ SessionTypes
  BY TypesGrouped
<1>2. LootTypes' /\ SessionTypes'
  BY <1>1, WorkerFrame DEF LootTypes, SessionTypes, balancer, session
<1>3. WorkerTypes' /\ EntryTypes'
  BY WorkerTypesStep
<1>4. SharedTypes' /\ CountTypes' /\ Celled'
  BY WorkerAt, WorkerSharedTypes
<1>5. QED
  BY <1>2, <1>3, <1>4, TypesGrouped

-----------------------------------------------------------------------------
(* Coverage under the steps of a worker.  A worker that has nothing to do  *)
(* with a byte keeps holding it; the one that moves hands it on.           *)
LEMMA OthersHold ==
  ASSUME NEW v \in Workers, NEW b, SameWorker(v), Holds(v, b)
  PROVE  Holds(v, b)'
BY DEF SameWorker, Holds, RealDuty, Duty

LEMMA WorkerHands ==
  ASSUME TypeOK, AllAt, LootHeld, NEW w \in Workers, WorkerStep(w) \/ HealthCancel(w),
         NEW b \in Bytes, b \notin written', InHands(b)
  PROVE  InHands(b)'
<1>1. /\ Shaped /\ FileSize \in Nat /\ active \subseteq Workers
      /\ loot.remaining \in Nat /\ loot.from \in Nat /\ b \in Nat
      /\ \A v \in Workers : Numbers(v)
  BY TypesGive DEF Bytes
<1>2. UNCHANGED <<bal, loot>>
  BY WorkerFrame DEF balancer
<1>3. Numbers(w) /\ At(w)
  BY <1>1 DEF AllAt
<1>4. \A v \in Workers \ {w} : SameWorker(v)
  <2>1. CASE ReadStopped(w) \/ ReadBody(w) \/ ReadFails(w)
    BY <1>1, <2>1, ReadEffect, EngineAssumption
  <2>2. CASE Pop(w) \/ PopNothing(w) \/ Register(w)
    BY <1>1, <2>2, PopEffect, PopNothingEffect, RegisterEffect
  <2>3. CASE Write(w) \/ Store(w) \/ Abandon(w)
    BY <1>1, <2>3, WriteEffect, StoreEffect, AbandonEffect
  <2>4. CASE Requeue(w) \/ Ended(w) \/ Unregister(w)
    BY <1>1, <2>4, RequeueEffect, EndedEffect, UnregisterEffect
  <2>5. CASE GiveBack(w) \/ HealthCancel(w)
    BY <1>1, <2>5, GiveBackEffect, HealthCancelEffect
  <2>6. CASE Count(w)
    BY <1>1, <1>3, <2>6, CountEffect DEF TypeOK, At
  <2>7. QED
    BY <2>1, <2>2, <2>3, <2>4, <2>5, <2>6 DEF WorkerStep
<1>5. \A v \in Workers \ {w} : Holds(v, b) => Holds(v, b)'
  BY <1>4, OthersHold
(* The queue loses a byte only to the worker that pops it.                 *)
<1>6. Covers(queue, b) => InHands(b)'
  <2>1. CASE queue' = queue
    BY <2>1 DEF InHands, Covers
  <2>2. CASE Pop(w)
    <3>1. queue # <<>> /\ queue' = Tail(queue) /\ task'[w] = Head(queue) /\ pc'[w] = "try"
      BY <1>1, <2>2, PopEffect
    <3>2. Covers(queue, b) => b \in TaskBytes(Head(queue)) \/ Covers(Tail(queue), b)
      BY <3>1, PopCovers DEF TypeOK
    <3>3. b \in TaskBytes(Head(queue)) => Holds(w, b)'
      BY <3>1 DEF Holds, TaskBytes
    <3>4. Covers(Tail(queue), b) => Covers(queue, b)'
      BY <3>1 DEF Covers, TaskBytes
    <3>5. QED
      BY <3>2, <3>3, <3>4 DEF InHands
  <2>3. CASE Appended
    <3>1. PICK t \in Task : queue' = Append(queue, t)
      BY <2>3 DEF Appended
    <3>2. Covers(queue, b) => Covers(Append(queue, t), b)
      BY AppendCovers DEF TypeOK
    <3>3. QED
      BY <3>1, <3>2 DEF InHands, Covers
  <2>4. QED
    BY <2>1, <2>2, <2>3, WorkerQueue
(* While the stolen range is held back, its victim may move on.            *)
<1>7. Loot(b) => Loot(b)'
  <2>1. SUFFICES ASSUME Loot(b)
                 PROVE  Loot(b)'
    OBVIOUS
  <2> DEFINE u == loot.victim
  <2>2. bal = "push" /\ ~MuFree /\ u \in active /\ u \in Workers
    BY <1>1, <2>1 DEF Loot, LootHeld, MuFree
  <2>3. NewStop' = NewStop /\ bal' = "push"
    BY <1>2, <2>2 DEF NewStop
  <2>4. CASE cur'[u] = cur[u]
    BY <1>2, <2>1, <2>3, <2>4 DEF Loot, StolenTask, TaskBytes
  <2>5. CASE u # w
    BY <1>4, <2>2, <2>4, <2>5 DEF SameWorker
  <2>6. CASE u = w /\ Store(w)
    <3>1. pc[w] = "store" /\ cur'[w] = cur[w] + got[w] /\ written' = written
      BY <1>1, <2>6, StoreEffect
    <3>2. cur[w]..(cur[w] + got[w] - 1) \subseteq written
      BY <1>3, <3>1 DEF At, OnDisk
    <3>3. cur[w] \in Nat /\ got[w] \in Nat
      BY <1>3 DEF Numbers
    <3>4. b >= cur[w] /\ b >= NewStop /\ b < loot.from + loot.remaining
      <4>1. NewStop \in Nat
        <5>1. SplitSize(loot.remaining) \in Nat
          BY <1>1, EngineAssumption DEF SplitSize
        <5>2. QED
          BY <1>1, <5>1 DEF NewStop
      <4>2. b \in Greater(NewStop, cur[w])..((loot.from + loot.remaining) - 1)
        BY <2>1, <2>6 DEF Loot, StolenTask, TaskBytes
      <4>3. QED
        BY <1>1, <3>3, <4>1, <4>2 DEF Greater
    <3>5. b >= cur'[w]
      BY <1>1, <3>1, <3>2, <3>3, <3>4
    <3>6. b >= Greater(NewStop, cur'[w]) /\ Greater(NewStop, cur'[w]) \in Int
      <4>1. NewStop \in Nat
        <5>1. SplitSize(loot.remaining) \in Nat
          BY <1>1, EngineAssumption DEF SplitSize
        <5>2. QED
          BY <1>1, <5>1 DEF NewStop
      <4>2. QED
        BY <3>1, <3>3, <3>4, <3>5, <4>1 DEF Greater
    <3>7. b \in Greater(NewStop, cur'[w])..((loot.from + loot.remaining) - 1)
      BY <1>1, <3>4, <3>6
    <3>8. QED
      BY <1>2, <2>3, <2>6, <3>7 DEF Loot, StolenTask, TaskBytes
  <2>7. CASE u = w /\ UNCHANGED cur
    BY <2>4, <2>7
  <2>8. CASE Register(w) \/ Unregister(w)
    BY <1>1, <2>2, <2>8, RegisterEffect, UnregisterEffect
  <2>9. UNCHANGED cur \/ Store(w) \/ Register(w) \/ Unregister(w)
    BY DEF WorkerStep, HealthCancel, Pop, PopNothing, ReadStopped, ReadBody,
       ReadFails, Receive, Write, Count, Abandon, Requeue, Ended, GiveBack, entry
  <2>10. QED
    BY <2>5, <2>6, <2>7, <2>8, <2>9
(* What w itself holds.                                                    *)
<1>8. Holds(w, b) => InHands(b)'
  <2>1. SUFFICES ASSUME Holds(w, b)
                 PROVE  InHands(b)'
    OBVIOUS
  <2>2. Holds(w, b)' => InHands(b)'
    BY DEF InHands
  <2>3. \/ pc[w] \in {"try", "giveback"} /\ b \in TaskBytes(task[w])
        \/ /\ w \in active /\ b \in Duty(w) /\ ~(pc[w] \in {"returned", "drop"} /\ readErr[w] # "fail")
    BY <2>1 DEF Holds, RealDuty
  <2>4. b \in Duty(w) => cur[w] <= b /\ b < stop[w] /\ b < task[w].end
    BY <1>1, <1>3 DEF Duty, Lesser, Numbers
  <2>5. pc[w] \in {"pop", "idle"} => FALSE
    BY <1>3, <2>3 DEF At, Registered, Busy
  <2>6. CASE Pop(w) \/ PopNothing(w)
    BY <1>1, <2>5, <2>6, PopEffect, PopNothingEffect
  <2>7. CASE Register(w)
    <3>1. /\ pc[w] = "try" /\ pc'[w] = "read" /\ active' = active \cup {w}
          /\ cur'[w] = task[w].off /\ stop'[w] = task[w].end /\ task'[w] = task[w]
      BY <1>1, <2>7, RegisterEffect
    <3>2. b \in TaskBytes(task[w])
      BY <1>3, <2>3, <3>1 DEF At, Registered, Busy
    <3>3. b \in Duty(w)'
      BY <1>3, <3>1, <3>2 DEF Duty, TaskBytes, Lesser, Numbers
    <3>4. QED
      BY <2>2, <3>1, <3>3 DEF Holds, RealDuty
  <2>8. CASE ReadStopped(w) \/ ReadBody(w) \/ ReadFails(w)
    <3>1. /\ pc[w] = "read"
          /\ pc'[w] = IF got'[w] > 0 THEN "write" ELSE "returned"
          /\ got'[w] \in Nat /\ readErr'[w] \in {"nil", "eof", "fail"}
          /\ got'[w] = 0 /\ readErr'[w] = "nil" => cur[w] >= stop[w]
          /\ got'[w] = 0 /\ readErr'[w] = "eof" => cur[w] >= BodyEnd(w)
          /\ UNCHANGED <<task, active, cur, stop>>
      BY <1>1, <2>8, ReadEffect, EngineAssumption
    <3>2. b \in Duty(w) /\ w \in active /\ b < FileSize
      BY <1>1, <2>3, <3>1 DEF Bytes
    <3>3. cur[w] < stop[w] /\ cur[w] < BodyEnd(w)
      BY <1>1, <1>3, <2>4, <3>2 DEF BodyEnd, Lesser, Numbers
    <3>4. pc'[w] = "returned" => readErr'[w] = "fail"
      <4>1. cur[w] \in Nat /\ stop[w] \in Nat /\ BodyEnd(w) \in Nat
        BY <1>1, <1>3 DEF BodyEnd, Lesser, Numbers
      <4>2. QED
        BY <3>1, <3>3, <4>1
    <3>5. pc'[w] \in {"write", "returned"} /\ Duty(w)' = Duty(w) /\ w \in active'
      BY <3>1, <3>2 DEF Duty
    <3>6. QED
      BY <2>2, <3>2, <3>4, <3>5 DEF Holds, RealDuty
  <2>9. CASE Write(w)
    <3>1. /\ pc[w] = "write" /\ UNCHANGED <<task, active, cur, stop>>
          /\ \/ pc'[w] = "returned" /\ (got[w] > 0 => cur[w] >= stop[w])
             \/ pc'[w] = "count"
      BY <1>1, <2>9, WriteEffect
    <3>2. b \in Duty(w) /\ w \in active
      BY <2>3, <3>1
    <3>3. got[w] > 0
      BY <1>3, <3>1 DEF At, Filling, Filled
    <3>4. cur[w] < stop[w]
      BY <1>1, <1>3, <2>4, <3>2 DEF Numbers
    <3>5. pc'[w] = "count"
      BY <1>3, <3>1, <3>3, <3>4 DEF Numbers
    <3>6. Duty(w)' = Duty(w) /\ w \in active'
      BY <3>1, <3>2 DEF Duty
    <3>7. QED
      BY <2>2, <3>2, <3>5, <3>6 DEF Holds, RealDuty
  <2>10. CASE Count(w)
    <3>1. /\ pc[w] = "count" /\ pc'[w] = "store" /\ UNCHANGED <<task, active, cur, stop>>
      BY <1>1, <1>3, <2>10, CountEffect DEF TypeOK, At
    <3>2. b \in Duty(w) /\ w \in active
      BY <2>3, <3>1
    <3>3. Duty(w)' = Duty(w)
      BY <3>1 DEF Duty
    <3>4. QED
      BY <2>2, <3>1, <3>2, <3>3 DEF Holds, RealDuty
  <2>11. CASE Store(w)
    <3>1. /\ pc[w] = "store" /\ cur'[w] = cur[w] + got[w]
          /\ pc'[w] = IF readErr[w] = "nil" THEN "read" ELSE "returned"
          /\ UNCHANGED <<written, task, readErr, active, stop>>
      BY <1>1, <2>11, StoreEffect
    <3>2. b \in Duty(w) /\ w \in active /\ b < FileSize
      BY <1>1, <2>3, <3>1 DEF Bytes
    <3>3. cur[w] \in Nat /\ got[w] \in Nat /\ stop[w] \in Nat /\ task[w].end \in Nat
          /\ BodyEnd(w) \in Nat
      BY <1>1, <1>3 DEF Numbers, BodyEnd, Lesser
    <3>4. b \notin cur[w]..(cur[w] + got[w] - 1)
      BY <1>3, <3>1 DEF At, OnDisk
    <3>5. cur[w] <= b /\ b < stop[w] /\ b < task[w].end
      BY <2>4, <3>2
    <3>6. cur[w] + got[w] <= b
      BY <1>1, <3>3, <3>4, <3>5
    <3>7. b \in Duty(w)'
      BY <1>1, <3>1, <3>3, <3>5, <3>6 DEF Duty, Lesser
    <3>8. readErr[w] # "eof"
      <4>1. b < BodyEnd(w)
        BY <1>1, <3>2, <3>3, <3>5 DEF BodyEnd, Lesser
      <4>2. ~(cur[w] + got[w] >= BodyEnd(w)) /\ ~(cur[w] + got[w] >= stop[w])
        BY <1>1, <3>3, <3>5, <3>6, <4>1
      <4>3. QED
        BY <1>3, <3>1, <4>2 DEF At, EndedAtEnd
    <3>9. readErr[w] \in {"nil", "fail"}
      BY <3>8 DEF TypeOK
    <3>10. QED
      BY <2>2, <3>1, <3>2, <3>7, <3>9 DEF Holds, RealDuty
  <2>12. CASE Abandon(w)
    <3>1. pc[w] = "returned" /\ pc'[w] = "exit" /\ UNCHANGED <<task, active, cur, stop>>
      BY <1>1, <2>12, AbandonEffect
    <3>2. b \in Duty(w) /\ w \in active
      BY <2>3, <3>1
    <3>3. Duty(w)' = Duty(w)
      BY <3>1 DEF Duty
    <3>4. QED
      BY <2>2, <3>1, <3>2, <3>3 DEF Holds, RealDuty
  <2>13. CASE Requeue(w)
    <3>1. /\ pc[w] = "returned"
          /\ \/ queue' = queue /\ Duty(w) = {}
             \/ \E t \in Task : t.cell = 0 /\ TaskBytes(t) = Duty(w) /\ queue' = Append(queue, t)
      BY <1>1, <1>3, <2>13, RequeueEffect
    <3>2. b \in Duty(w)
      BY <2>3, <3>1
    <3>3. PICK t \in Task : TaskBytes(t) = Duty(w) /\ queue' = Append(queue, t)
      BY <3>1, <3>2
    <3>4. Covers(Append(queue, t), b)
      BY <3>2, <3>3, AppendCovers DEF TypeOK
    <3>5. QED
      BY <3>3, <3>4 DEF InHands, Covers
  <2>14. CASE Ended(w)
    <3>1. pc[w] = "returned" /\ pc'[w] = "drop" /\ UNCHANGED <<task, readErr, active, cur, stop>>
      BY <1>1, <2>14, EndedEffect
    <3>2. b \in Duty(w) /\ w \in active /\ readErr[w] = "fail"
      BY <2>3, <3>1
    <3>3. Duty(w)' = Duty(w)
      BY <3>1 DEF Duty
    <3>4. QED
      BY <2>2, <3>1, <3>2, <3>3 DEF Holds, RealDuty
  <2>15. CASE Unregister(w)
    <3>1. pc[w] = "drop"
      BY <2>15 DEF Unregister
    <3>2. b \in Duty(w) /\ w \in active /\ readErr[w] = "fail"
      BY <2>3, <3>1
    <3>3. /\ task'[w] = IF cur[w] > task[w].off
                        THEN [off |-> cur[w], end |-> task[w].end, cell |-> 0]
                        ELSE task[w]
          /\ pc'[w] = IF attempt[w] + 1 < MaxRetries THEN "try" ELSE "giveback"
      BY <1>1, <2>15, <3>2, UnregisterEffect
    <3>4. task[w].off <= cur[w]
      BY <1>3, <3>2 DEF At, Filling
    <3>5. cur[w] \in Nat /\ task[w].off \in Nat /\ task[w].end \in Nat
      BY <1>3 DEF Numbers
    <3>6. task'[w].off <= cur[w] /\ task'[w].off \in Nat /\ task'[w].end = task[w].end
      BY <3>3, <3>4, <3>5
    <3>7. b \in TaskBytes(task'[w])
      BY <1>1, <2>4, <3>2, <3>5, <3>6 DEF TaskBytes
    <3>8. pc'[w] \in {"try", "giveback"}
      BY <3>3
    <3>9. Holds(w, b)'
      BY <3>7, <3>8 DEF Holds, TaskBytes
    <3>10. QED
      BY <2>2, <3>9
  <2>16. CASE GiveBack(w)
    <3>1. pc[w] = "giveback" /\ queue' = Append(queue, task[w])
      BY <1>1, <2>16, GiveBackEffect
    <3>2. b \in TaskBytes(task[w])
      BY <1>3, <2>3, <3>1 DEF At, Registered, Busy
    <3>3. Covers(Append(queue, task[w]), b)
      BY <3>2, AppendCovers DEF TypeOK
    <3>4. QED
      BY <3>1, <3>3 DEF InHands, Covers
  <2>17. CASE HealthCancel(w)
    BY <1>1, <2>1, <2>2, <2>17, HealthCancelEffect, OthersHold
  <2>18. QED
    BY <2>6, <2>7, <2>8, <2>9, <2>10, <2>11, <2>12, <2>13, <2>14, <2>15, <2>16, <2>17 DEF WorkerStep
<1>9. QED
  BY <1>5, <1>6, <1>7, <1>8 DEF InHands

-----------------------------------------------------------------------------
(* Coverage under the steps of the balancer: it queues what it takes from  *)
(* an entry, and until then holds it.                                      *)
LEMMA BalancerHands ==
  ASSUME TypeOK, LootHeld, BalancerStep, NEW b \in Bytes, InHands(b)
  PROVE  InHands(b)'
<1>1. /\ FileSize \in Nat /\ active \subseteq Workers /\ b \in Nat
      /\ loot.remaining \in Nat /\ loot.from \in Nat
      /\ \A v \in Workers : Numbers(v)
  BY TypesGive DEF Bytes
<1>2. UNCHANGED <<pc, task, readErr, active, cur>>
  BY BalancerFrame DEF worker
<1>3. Covers(queue, b) => InHands(b)'
  <2>1. CASE queue' = queue
    BY <2>1 DEF InHands, Covers
  <2>2. CASE Appended
    <3>1. PICK t \in Task : queue' = Append(queue, t)
      BY <2>2 DEF Appended
    <3>2. Covers(queue, b) => Covers(Append(queue, t), b)
      BY AppendCovers DEF TypeOK
    <3>3. QED
      BY <3>1, <3>2 DEF InHands, Covers
  <2>3. QED
    BY <2>1, <2>2, BalancerQueue
<1>4. ASSUME stop' = stop, NEW v \in Workers, Holds(v, b)
      PROVE  InHands(b)'
  BY <1>2, <1>4 DEF Holds, RealDuty, Duty, InHands
<1>5. CASE stop' = stop /\ bal # "push"
  BY <1>3, <1>4, <1>5 DEF InHands, Loot
<1>6. CASE StealCut
  <2> DEFINE u == loot.victim
  <2>1. /\ bal = "cut" /\ bal' = "push" /\ loot' = loot
        /\ stop' = [stop EXCEPT ![u] = NewStop]
    BY <1>6 DEF StealCut
  <2>2. u \in Workers /\ u \in active
    BY <1>1, <2>1 DEF LootHeld, MuFree
  <2>3. NewStop \in Nat
    <3>1. SplitSize(loot.remaining) \in Nat
      BY <1>1, EngineAssumption DEF SplitSize
    <3>2. QED
      BY <1>1, <3>1 DEF NewStop
  <2>4. ASSUME NEW v \in Workers, Holds(v, b)
        PROVE  InHands(b)'
    <3>1. CASE v # u
      <4>1. stop'[v] = stop[v]
        BY <2>1, <3>1 DEF TypeOK
      <4>2. QED
        BY <1>2, <2>4, <4>1 DEF Holds, RealDuty, Duty, InHands
    <3>2. CASE v = u /\ pc[v] \in {"try", "giveback"} /\ b \in TaskBytes(task[v])
      BY <1>2, <3>2 DEF InHands, Holds
    <3>3. CASE v = u /\ v \in active /\ b \in RealDuty(v)
      <4>1. b \in Duty(v) /\ RealDuty(v) = Duty(v) /\ RealDuty(v)' = Duty(v)'
        BY <1>2, <3>3 DEF RealDuty
      <4>2. cur[v] \in Nat /\ stop[v] \in Nat /\ task[v].end \in Nat
        BY <1>1, <3>3 DEF Numbers
      <4>3. cur[v] <= b /\ b < stop[v] /\ b < task[v].end
        BY <1>1, <4>1, <4>2 DEF Duty, Lesser
      <4>4. stop'[v] = NewStop
        BY <2>1, <2>2, <3>3 DEF TypeOK
      <4>5. CASE b < NewStop
        <5>1. b \in Duty(v)'
          BY <1>1, <1>2, <2>3, <4>2, <4>3, <4>4, <4>5 DEF Duty, Lesser
        <5>2. QED
          BY <1>2, <2>2, <3>3, <4>1, <5>1 DEF InHands, Holds
      <4>6. CASE ~(b < NewStop)
        <5>1. b < loot.from + loot.remaining
          <6>1. loot.from + loot.remaining >= stop[v]
            BY <2>1, <3>3 DEF LootHeld
          <6>2. QED
            BY <1>1, <4>2, <4>3, <6>1
        <5>2. b >= Greater(NewStop, cur[v]) /\ Greater(NewStop, cur[v]) \in Int
          BY <1>1, <2>3, <4>2, <4>3, <4>6 DEF Greater
        <5>3. b \in Greater(NewStop, cur[v])..((loot.from + loot.remaining) - 1)
          BY <1>1, <5>1, <5>2
        <5>4. b \in TaskBytes(StolenTask)
          BY <3>3, <5>3 DEF TaskBytes, StolenTask
        <5>5. TaskBytes(StolenTask)' = TaskBytes(StolenTask)
          BY <1>2, <2>1 DEF TaskBytes, StolenTask, NewStop
        <5>6. QED
          BY <2>1, <5>4, <5>5 DEF InHands, Loot
      <4>7. QED
        BY <4>5, <4>6
    <3>4. QED
      BY <2>4, <3>1, <3>2, <3>3 DEF Holds
  <2>5. ~Loot(b)
    BY <2>1 DEF Loot
  <2>6. QED
    BY <1>3, <2>4, <2>5 DEF InHands
<1>7. CASE StealPush
  <2>1. stop' = stop
    BY <1>7 DEF StealPush
  <2>2. Loot(b) => InHands(b)'
    <3>1. CASE StolenTask.off < StolenTask.end
      <4>1. queue' = Append(queue, StolenTask)
        BY <1>7, <3>1 DEF StealPush
      <4>2. StolenTask \in Task
        <5>1. NewStop \in Nat /\ cur[loot.victim] \in Nat
          <6>1. SplitSize(loot.remaining) \in Nat
            BY <1>1, EngineAssumption DEF SplitSize
          <6>2. loot.victim \in Workers
            BY <1>1, <1>7 DEF StealPush, LootHeld, MuFree
          <6>3. QED
            BY <1>1, <6>1, <6>2 DEF NewStop, Numbers
        <5>2. Greater(NewStop, cur[loot.victim]) \in Nat /\ loot.from + loot.remaining \in Nat
          BY <1>1, <5>1 DEF Greater
        <5>3. QED
          BY <5>2 DEF StolenTask, Task
      <4>3. Loot(b) => Covers(Append(queue, StolenTask), b)
        BY <4>2, AppendCovers DEF TypeOK, Loot
      <4>4. QED
        BY <4>1, <4>3 DEF InHands, Covers
    <3>2. CASE ~(StolenTask.off < StolenTask.end)
      <4>1. StolenTask.off \in Int /\ StolenTask.end \in Int
        <5>1. NewStop \in Nat /\ cur[loot.victim] \in Nat
          <6>1. SplitSize(loot.remaining) \in Nat
            BY <1>1, EngineAssumption DEF SplitSize
          <6>2. loot.victim \in Workers
            BY <1>1, <1>7 DEF StealPush, LootHeld, MuFree
          <6>3. QED
            BY <1>1, <6>1, <6>2 DEF NewStop, Numbers
        <5>2. QED
          BY <1>1, <5>1 DEF StolenTask, Greater
      <4>2. ~Loot(b)
        BY <1>1, <3>2, <4>1 DEF Loot, TaskBytes
      <4>3. QED
        BY <4>2
    <3>3. QED
      BY <3>1, <3>2
  <2>3. QED
    BY <1>3, <1>4, <2>1, <2>2 DEF InHands
<1>8. QED
  BY <1>5, <1>6, <1>7 DEF BalancerStep, BalanceTick, StealPick, StealNothing, StealAim, StealCut,
                          HedgeMark, HedgeNothing, HedgePush

LEMMA CoverageStep ==
  ASSUME EngineInv, [Next]_vars
  PROVE  Coverage'
<1>1. TypeOK /\ AllAt /\ LeftEmpty /\ Celled /\ NoCells /\ LootHeld /\ Coverage
  BY DEF EngineInv
<1>2. CASE \E w \in Workers : WorkerStep(w) \/ HealthCancel(w)
  <2>1. PICK w \in Workers : WorkerStep(w) \/ HealthCancel(w)
    BY <1>2
  <2>2. written \subseteq written' /\ main = "run"
    BY <1>1, <2>1, WorkerAt
  <2>3. UNCHANGED <<main, saved, outbox, stored>>
    BY <2>1, WorkerFrame DEF session
  <2>4. ASSUME NEW b \in Missing'
        PROVE  Known(b)'
    <3>1. b \in Bytes /\ b \notin written' /\ b \in Missing
      BY <2>2 DEF Missing, Bytes
    <3>2. Known(b)
      BY <1>1, <3>1 DEF Coverage
    <3>3. InHands(b)'
      BY <1>1, <2>1, <2>2, <3>1, <3>2, WorkerHands DEF Known
    <3>4. QED
      BY <2>2, <2>3, <3>2, <3>3 DEF Known, Covers
  <2>5. QED
    BY <2>4 DEF Coverage
<1>3. CASE BalancerStep
  <2>1. UNCHANGED <<written, main, saved, outbox, stored>>
    BY <1>3, BalancerFrame DEF session
  <2>2. ASSUME NEW b \in Missing'
        PROVE  Known(b)'
    <3>1. b \in Bytes /\ b \in Missing
      BY <2>1 DEF Missing, Bytes
    <3>2. Known(b)
      BY <1>1, <3>1 DEF Coverage
    <3>3. InHands(b) => InHands(b)'
      BY <1>1, <1>3, <3>1, BalancerHands
    <3>4. Covers(queue, b) => Covers(queue, b)'
      <4>1. CASE queue' = queue
        BY <4>1 DEF Covers
      <4>2. CASE Appended
        <5>1. PICK t \in Task : queue' = Append(queue, t)
          BY <4>2 DEF Appended
        <5>2. Covers(queue, b) => Covers(Append(queue, t), b)
          BY <1>1, AppendCovers DEF TypeOK
        <5>3. QED
          BY <5>1, <5>2 DEF Covers
      <4>3. QED
        BY <1>1, <1>3, <4>1, <4>2, BalancerQueue
    <3>5. Covers(saved, b)' = Covers(saved, b) /\ Covers(stored, b)' = Covers(stored, b)
          /\ Covers(outbox, b)' = Covers(outbox, b)
      BY <2>1 DEF Covers
    <3>6. QED
      BY <2>1, <3>2, <3>3, <3>4, <3>5 DEF Known
  <2>3. QED
    BY <2>2 DEF Coverage
<1>4. CASE MonitorStep \/ UNCHANGED vars
  <2>1. UNCHANGED <<written, queue, pc, task, readErr, active, cur, stop, bal, loot, main,
                    saved, outbox, stored>>
    BY <1>4, MonitorFrame DEF vars, worker, entry, balancer, session
  <2>2. ASSUME NEW b \in Missing'
        PROVE  Known(b)'
    <3>1. b \in Missing /\ Known(b)
      BY <1>1, <2>1 DEF Missing, Bytes, Coverage
    <3>2. InHands(b)' <=> InHands(b)
      BY <2>1 DEF InHands, Covers, Loot, TaskBytes, StolenTask, NewStop, Holds, RealDuty, Duty
    <3>3. QED
      BY <2>1, <3>1, <3>2 DEF Known, Covers
  <2>3. QED
    BY <2>2 DEF Coverage
<1>5. CASE DownloadStep \/ Pause \/ CancelContext \/ Persist
  <2>1. UNCHANGED <<written, pc, task, readErr, active, cur, stop, bal, loot>>
    BY <1>5, SessionFrame DEF worker, entry, balancer
  <2>2. ASSUME NEW b \in Missing'
        PROVE  Known(b)'
    <3>1. b \in Bytes /\ b \in Missing /\ Known(b)
      BY <1>1, <2>1 DEF Missing, Bytes, Coverage
    <3>2. queue' = queue => (InHands(b)' <=> InHands(b))
      BY <2>1 DEF InHands, Covers, Loot, TaskBytes, StolenTask, NewStop, Holds, RealDuty, Duty
    <3>3. CASE Pause \/ CancelContext
      <4>1. UNCHANGED <<queue, main, saved, outbox, stored>>
        BY <3>3 DEF Pause, CancelContext
      <4>2. QED
        BY <3>1, <3>2, <4>1 DEF Known, Covers
    <3>4. CASE Persist
      <4>1. UNCHANGED <<queue, main, saved>> /\ stored' = outbox /\ outbox' = <<>> /\ outbox # <<>>
        BY <3>4 DEF Persist
      <4>2. QED
        BY <3>1, <3>2, <4>1 DEF Known, Covers
    <3>5. CASE WorkersJoined
      <4>1. UNCHANGED <<queue, saved, outbox, stored>> /\ main = "run" /\ main' \in {"collect", "ctx"}
        BY <3>5 DEF WorkersJoined
      <4>2. QED
        BY <3>1, <3>2, <4>1 DEF Known, Covers
    <3>6. CASE CheckContext
      <4>1. /\ UNCHANGED <<queue, saved, outbox, stored>> /\ main = "ctx"
            /\ main' = IF ctxDone THEN "canceled" ELSE "done"
        BY <3>6 DEF CheckContext
      <4>2. ctxDone
        <5>1. SUFFICES ASSUME ~ctxDone
                       PROVE  FALSE
          OBVIOUS
        <5>2. \A w \in Workers : pc[w] = "exit"
          BY <1>1, <4>1 DEF AllAt, At, Registered
        <5>3. queue = <<>> /\ \A w \in Workers : w \notin active
          BY <1>1, <5>1, <5>2 DEF LeftEmpty, AllAt, At, Registered
        <5>4. ~Loot(b)
          BY <1>1, <5>3, TypesGive DEF Loot, LootHeld, MuFree
        <5>5. \A w \in Workers : ~Holds(w, b)
          BY <5>2, <5>3 DEF Holds
        <5>6. ~Covers(queue, b)
          BY <5>3 DEF Covers
        <5>7. QED
          BY <3>1, <4>1, <5>4, <5>5, <5>6 DEF Known, InHands
      <4>3. QED
        BY <3>1, <4>1, <4>2 DEF Known, Covers
    <3>7. CASE CollectActive
      <4>1. /\ MuFree /\ main = "collect" /\ main' = "drain"
            /\ UNCHANGED <<written, queue, outbox, stored>>
            /\ \A w \in active : cur[w] <= b /\ b < stop[w] => Covers(saved', b)
        BY <1>1, <3>1, <3>7, CollectActiveEffect DEF Bytes
      <4>2. \A w \in Workers : pc[w] = "exit"
        BY <1>1, <4>1 DEF AllAt, At, Registered
      <4>3. Covers(queue, b) \/ \E w \in active : b \in Duty(w)
        BY <3>1, <4>1, <4>2 DEF Known, InHands, Loot, MuFree, Holds, RealDuty
      <4>4. ASSUME NEW w \in active, b \in Duty(w)
            PROVE  Covers(saved', b)
        <5>1. cur[w] \in Nat /\ stop[w] \in Nat /\ task[w].end \in Nat
          BY <1>1, TypesGive DEF Numbers
        <5>2. cur[w] <= b /\ b < stop[w]
          BY <4>4, <5>1 DEF Duty, Lesser
        <5>3. QED
          BY <4>1, <5>2
      <4>5. Covers(queue, b) \/ Covers(saved', b)
        BY <4>3, <4>4
      <4>6. QED
        BY <3>1, <4>1, <4>5 DEF Known, Covers
    <3>8. CASE DrainQueue
      <4>1. /\ main = "drain" /\ UNCHANGED <<written, stored>>
            /\ \/ /\ main' = "done" /\ UNCHANGED <<saved, outbox>>
                  /\ ~Covers(queue, b) /\ ~Covers(saved, b)
               \/ /\ main' = "paused" /\ saved' = RemainingTasks /\ outbox' = RemainingTasks
            /\ Covers(queue, b) \/ Covers(saved, b) => Covers(RemainingTasks, b)
        BY <1>1, <3>8, DrainQueueEffect DEF NoCells
      <4>2. Covers(queue, b) \/ Covers(saved, b)
        BY <3>1, <4>1 DEF Known
      <4>3. main' = "paused" /\ Covers(saved', b) /\ Covers(outbox', b)
        BY <4>1, <4>2
      <4>4. QED
        BY <3>1, <4>1, <4>3 DEF Known, Covers
    <3>9. QED
      BY <1>5, <3>3, <3>4, <3>5, <3>6, <3>7, <3>8 DEF DownloadStep
  <2>3. QED
    BY <2>2 DEF Coverage
<1>6. CASE Resume \/ Crash
  <2>1. /\ SessionStart(SetupTasks) /\ UNCHANGED <<written, stored>>
        /\ outbox' = outbox \/ outbox' = <<>>
    BY <1>6, RestartFrame
  <2>2. queue' = SetupTasks /\ main' = "run"
    BY <2>1 DEF SessionStart
  <2>3. ASSUME NEW b \in Missing'
        PROVE  Known(b)'
    <3>1. b \in Bytes /\ Known(b)
      BY <1>1, <2>1 DEF Missing, Bytes, Coverage
    <3>2. Covers(SetupTasks, b)
      BY <3>1, FreshTasksCover DEF SetupTasks, Known
    <3>3. InHands(b)'
      BY <2>2, <3>2 DEF InHands, Covers, TaskBytes
    <3>4. QED
      BY <2>1, <2>2, <3>1, <3>3 DEF Known, Covers
  <2>4. QED
    BY <2>3 DEF Coverage
<1>7. QED
  BY <1>2, <1>3, <1>4, <1>5, <1>6, StepCases

-----------------------------------------------------------------------------
LEMMA InitInv ==
  ASSUME Init
  PROVE  EngineInv
<1>1. FreshTasks \in Seq(Task) /\ Uncelled(FreshTasks) /\ \A b \in Bytes : Covers(FreshTasks, b)
  BY FreshTasksCover
<1>2. Len(<<>>) = 0 /\ <<>> \in Seq(Task) /\ <<>> \in Seq(Nat)
  BY EmptySeq
<1>3. TypeOK
  <2>1. NoTask \in Task /\ 0 \in 0..MaxRetries
    BY EngineAssumption DEF NoTask, Task
  <2>2. WorkerTypes
    BY <2>1 DEF Init, WorkerTypes
  <2>3. EntryTypes /\ LootTypes /\ CountTypes
    BY DEF Init, EntryTypes, LootTypes, NoLoot, CountTypes
  <2>4. SharedTypes
    BY <1>1, <1>2 DEF Init, SharedTypes
  <2>5. SessionTypes
    BY <1>2 DEF Init, SessionTypes
  <2>6. QED
    BY <2>2, <2>3, <2>4, <2>5, TypesGrouped
<1>4. ASSUME NEW w \in Workers
      PROVE  At(w)
  <2>1. pc[w] = "pop" /\ task[w] = NoTask /\ cell[w] = 0 /\ active = {} /\ maxOff = <<>> /\ main = "run"
    BY DEF Init
  <2>2. Registered(w) /\ Filling(w) /\ OnDisk(w) /\ Tries(w) /\ EndedAtEnd(w)
    BY <2>1 DEF Registered, Filling, OnDisk, Tries, EndedAtEnd, Busy, Filled
  <2>3. CellKnown(w)
    BY <1>2, <2>1 DEF CellKnown, NoTask
  <2>4. QED
    BY <2>2, <2>3 DEF At
<1>5. LeftEmpty
  <2>1. \A w \in Workers : pc[w] = "pop"
    BY DEF Init
  <2>2. QED
    BY <2>1, EngineAssumption DEF LeftEmpty
<1>6. Celled /\ NoCells
  BY <1>1, <1>2 DEF Init, Celled, NoCells, Uncelled
<1>7. LootHeld
  BY DEF Init, LootHeld, MuFree
<1>8. Coverage
  BY <1>1 DEF Init, Coverage, Known, InHands, Missing
<1>9. QED
  BY <1>3, <1>4, <1>5, <1>6, <1>7, <1>8 DEF EngineInv, AllAt

LEMMA StepInv ==
  ASSUME EngineInv, [Next]_vars
  PROVE  EngineInv'
<1>1. TypeOK /\ AllAt /\ LeftEmpty /\ Celled /\ NoCells /\ LootHeld
  BY DEF EngineInv
<1>2. Coverage' /\ NoCells'
  BY <1>1, CoverageStep, NoCellsStep
<1>3. CASE \E w \in Workers : WorkerStep(w) \/ HealthCancel(w)
  BY <1>1, <1>2, <1>3, WorkerAt, WorkerLoot, WorkerLeft, WorkerAllTypes DEF EngineInv
<1>4. CASE BalancerStep
  BY <1>1, <1>2, <1>4, BalancerAt, BalancerLeft, BalancerTypes DEF EngineInv
<1>5. CASE MonitorStep \/ UNCHANGED vars
  BY <1>1, <1>2, <1>5, MonitorRest, MonitorTypes DEF EngineInv
<1>6. CASE DownloadStep \/ Pause \/ CancelContext \/ Persist
  BY <1>1, <1>2, <1>6, SessionRest, SessionTypesStep DEF EngineInv
<1>7. CASE Resume \/ Crash
  BY <1>1, <1>2, <1>7, RestartRest, RestartTypes DEF EngineInv
<1>8. QED
  BY <1>3, <1>4, <1>5, <1>6, <1>7, StepCases

(* EngineInv is an invariant of the engine, for every number of workers,   *)
(* every size and any number of faults, cancels, hedges and sessions.      *)
LEMMA EngineInvHolds == Spec => []EngineInv
<1>1. Init => EngineInv
  BY InitInv
<1>2. EngineInv /\ [Next]_vars => EngineInv'
  BY StepInv
<1>3. QED
  BY <1>1, <1>2, PTL DEF Spec

-----------------------------------------------------------------------------
(* Every variable of the engine keeps its type: offsets never become       *)
(* negative, a cell that is read exists, an attempt is within its limit    *)
(* (worker.go:77-185, 403-537).                                            *)
THEOREM EngineTypes == Spec => []TypeOK
<1>1. EngineInv => TypeOK
  BY DEF EngineInv
<1>2. QED
  BY <1>1, EngineInvHolds, PTL

LEMMA HandsAreOwed ==
  ASSUME TypeOK, NEW b, InHands(b)
  PROVE  b \in Owed
<1>1. CASE Covers(queue, b)
  BY <1>1 DEF Covers, Owed, BytesOf
<1>2. CASE Loot(b)
  BY <1>2 DEF Loot, Owed, InFlight
<1>3. ASSUME NEW w \in Workers, Holds(w, b)
      PROVE  b \in Owed
  <2>1. CASE pc[w] \in {"try", "giveback"} /\ b \in TaskBytes(task[w])
    BY <2>1 DEF Owed, InHand
  <2>2. CASE w \in active /\ b \in RealDuty(w)
    <3>1. b \in Duty(w)
      BY <2>2 DEF RealDuty
    <3>2. QED
      BY <2>2, <3>1 DEF Owed
  <2>3. QED
    BY <1>3, <2>1, <2>2 DEF Holds
<1>4. QED
  BY <1>1, <1>2, <1>3 DEF InHands

(* While the download runs, a byte that is not on disk is in the queue, in *)
(* the task a worker has in hand, in the range of an entry, or in what     *)
(* StealWork has cut off and not queued yet (worker.go:104-178, 403-537).  *)
THEOREM NothingIsForgotten == Spec => []NoByteForgotten
<1>1. EngineInv => NoByteForgotten
  <2>1. SUFFICES ASSUME EngineInv, main \in {"run", "collect"}, NEW b \in Missing
                 PROVE  b \in Owed
    BY DEF NoByteForgotten
  <2>2. TypeOK /\ InHands(b)
    BY <2>1 DEF EngineInv, Coverage, Known
  <2>3. QED
    BY <2>2, HandsAreOwed
<1>2. QED
  BY <1>1, EngineInvHolds, PTL

(* A download is told to be done only when every byte is on disk           *)
(* (downloader.go:283-302, 461, 542-547).                                  *)
THEOREM DoneIsAlwaysWhole == Spec => []DoneMeansWhole
<1>1. EngineInv => DoneMeansWhole
  BY DEF EngineInv, Coverage, Known, DoneMeansWhole
<1>2. QED
  BY <1>1, EngineInvHolds, PTL

LEMMA CoversBytesOf ==
  ASSUME NEW ts, NEW b, Covers(ts, b)
  PROVE  b \in BytesOf(ts)
BY DEF Covers, BytesOf

(* What a pause hands over contains every byte that is not on disk         *)
(* (downloader.go:523-536).                                                *)
THEOREM PausesKeepWhatIsMissing == Spec => []PauseKeepsMissing
<1>1. EngineInv => PauseKeepsMissing
  BY CoversBytesOf DEF EngineInv, Coverage, Known, PauseKeepsMissing
<1>2. QED
  BY <1>1, EngineInvHolds, PTL

(* Whatever session a restart begins from, the tasks it loads contain      *)
(* every byte that is not on disk (downloader.go:360-391).                 *)
THEOREM RestartsCoverWhatIsMissing == Spec => []RestartCovers
<1>1. EngineInv => RestartCovers
  BY CoversBytesOf DEF EngineInv, Coverage, Known, RestartCovers
<1>2. QED
  BY <1>1, EngineInvHolds, PTL

(* The bytes of an active task before its offset are on disk, so what the  *)
(* balancer and handlePause leave out, trusting CurrentOffset, is there    *)
(* (worker.go:320-380).                                                    *)
THEOREM PrefixIsOnDisk == Spec => []PrefixOnDisk
<1>1. EngineInv => PrefixOnDisk
  BY DEF EngineInv, TypeOK, AllAt, At, OnDisk, PrefixOnDisk
<1>2. QED
  BY <1>1, EngineInvHolds, PTL
=============================================================================
