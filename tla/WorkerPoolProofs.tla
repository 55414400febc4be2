-------------------------- MODULE WorkerPoolProofs --------------------------
(***************************************************************************)
(* Proofs about the pool, for every number of downloads and every capacity *)
(* of the channel.  For all workers and callers: its types, that the wait  *)
(* group counts the workers inside a download, and that what is listed as  *)
(* queued is on its way to a worker.  In the scope in which they hold: a   *)
(* download runs once at a time, done means whole, and an announced pause  *)
(* can be resumed.                                                         *)
(***************************************************************************)
EXTENDS WorkerPool, FiniteSetTheorems, SequenceTheorems, TLAPS

(* A worker past the channel holds a download, and so does a caller that   *)
(* is in the middle of a call.                                             *)
Held ==
  /\ \A w \in Workers : pc[w] \notin {"recv", "gone"} => cfg[w] \in Downloads
  /\ \A c \in Callers : cpc[c] # "idle" => cid[c] \in Downloads

(* The workers between wg.Add and wg.Done.                                 *)
Counted == {w \in Workers : pc[w] \notin {"recv", "check", "start", "gone"}}
WaitGroupExact == wg = Cardinality(Counted)

PoolInv == TypeOK /\ Held /\ WaitGroupExact /\ QueuedIsComing

(* Cancelling contexts keeps the type and the length of ads.               *)
LEMMA CancelledType ==
  ASSUME NEW rs, ads \in Seq(AD)
  PROVE  Cancelled(rs) \in Seq(AD) /\ Len(Cancelled(rs)) = Len(ads)
<1>1. Len(ads) \in Nat /\ DOMAIN ads = 1..Len(ads) /\ \A r \in 1..Len(ads) : ads[r] \in AD
  BY LenProperties
<1>2. Cancelled(rs) \in [1..Len(ads) -> AD]
  BY <1>1 DEF Cancelled, AD
<1>3. QED
  BY <1>1, <1>2, LenProperties

(* The workers are finitely many, hence the counted ones.                  *)
LEMMA CountedFinite == IsFiniteSet(Counted) /\ Cardinality(Counted) \in Nat
<1>1. Counted \in SUBSET Workers
  BY DEF Counted
<1>2. QED
  BY <1>1, PoolAssumption, FS_Subset, FS_CardinalityType

(* A cell of ads changed keeps the type.                                   *)
LEMMA StoppedType ==
  ASSUME NEW r, ads \in Seq(AD)
  PROVE  [ads EXCEPT ![r].running = FALSE] \in Seq(AD)
         /\ Len([ads EXCEPT ![r].running = FALSE]) = Len(ads)
<1> DEFINE new == [ads EXCEPT ![r].running = FALSE]
<1>1. Len(ads) \in Nat /\ ads \in [1..Len(ads) -> AD]
  BY LenProperties
<1>2. new \in [1..Len(ads) -> AD]
  BY <1>1 DEF AD
<1>3. QED
  BY <1>1, <1>2, LenProperties

(* Every step keeps the types.                                             *)
LEMMA TypesStep ==
  ASSUME TypeOK, Held, wg' \in Nat, [Next]_vars
  PROVE  TypeOK'
<1> USE PoolAssumption DEF pool, flags, states, worker, caller, shutdown, history, files,
                           TypeOK, Held
<1>0. Len(ads) \in Nat /\ 0 \in 0..Len(ads)
  <2>1. Len(ads) \in Nat
    BY LenProperties
  <2>2. QED
    BY <2>1
<1>1. ASSUME NEW w \in Workers, Receive(w)
      PROVE  TypeOK'
  <2>1. taskChan' \in Seq(Downloads) /\ Len(taskChan') <= Capacity /\ Head(taskChan) \in Downloads
    BY <1>1, HeadTailProperties, LenProperties DEF Receive
  <2>2. QED
    BY <1>1, <2>1 DEF Receive, GoTo, WorkerKeeps
<1>2. ASSUME NEW w \in Workers, Exit(w)
      PROVE  TypeOK'
  BY <1>2 DEF Exit, GoTo, WorkerKeeps
<1>3. ASSUME NEW w \in Workers, CheckQueued(w)
      PROVE  TypeOK'
  BY <1>3 DEF CheckQueued, GoTo, WorkerKeeps
<1>4. ASSUME NEW w \in Workers, Start(w)
      PROVE  TypeOK'
  <2>1. ads' \in Seq(AD) /\ Len(ads') = Len(ads) + 1
    <3>1. [id |-> cfg[w], running |-> TRUE, ctxDone |-> FALSE] \in AD
      BY <1>4 DEF Start, AD
    <3>2. QED
      BY <1>4, <3>1, AppendProperties DEF Start
  <2>2. 0..Len(ads) \subseteq 0..Len(ads') /\ Len(ads') \in 0..Len(ads')
    BY <1>0, <2>1
  <2>3. /\ downloads' \in [Downloads -> 0..Len(ads')]
        /\ cancelFunc' \in [Downloads -> 0..Len(ads')]
        /\ ad' \in [Workers -> 0..Len(ads')]
        /\ cad' \in [Callers -> 0..Len(ads')]
    BY <1>4, <2>2 DEF Start, GoTo, WorkerKeeps
  <2>4. QED
    BY <1>4, <2>1, <2>3 DEF Start, GoTo, WorkerKeeps
<1>5. ASSUME NEW w \in Workers, Register(w)
      PROVE  TypeOK'
  BY <1>5 DEF Register, GoTo, WorkerKeeps
<1>6. ASSUME NEW w \in Workers, TransferEnds(w)
      PROVE  TypeOK'
  BY <1>6 DEF TransferEnds, GoTo, WorkerKeeps, EngineKeeps
<1>7. ASSUME NEW w \in Workers, BootstrapCanceled(w)
      PROVE  TypeOK'
  BY <1>7 DEF BootstrapCanceled, GoTo, WorkerKeeps, EngineKeeps
<1>8. ASSUME NEW w \in Workers, AskPaused(w)
      PROVE  TypeOK'
  BY <1>8 DEF AskPaused, GoTo, WorkerKeeps, EngineKeeps
<1>9. ASSUME NEW w \in Workers, HandlePause(w)
      PROVE  TypeOK'
  <2>1. /\ Paused' \in [Downloads -> BOOLEAN]
        /\ told' \in [Downloads -> {"none", "started", "paused", "complete", "error"}]
        /\ err' \in [Workers -> {"nil", "paused", "canceled", "error"}]
    <3>1. CASE Paused' = [Paused EXCEPT ![cfg[w]] = FALSE]
               /\ err' = [err EXCEPT ![w] = "nil"] /\ told' = told
      BY <3>1
    <3>2. CASE told' = [told EXCEPT ![cfg[w]] = "paused"]
               /\ err' = [err EXCEPT ![w] = "paused"] /\ Paused' = Paused
      BY <3>2
    <3>3. QED
      BY <1>9, <3>1, <3>2, Zenon DEF HandlePause
  <2>2. QED
    BY <1>9, <2>1 DEF HandlePause, GoTo, WorkerKeeps, EngineKeeps
<1>10. ASSUME NEW w \in Workers, CheckContext(w)
      PROVE  TypeOK'
  BY <1>10 DEF CheckContext, GoTo, WorkerKeeps, EngineKeeps
<1>11. ASSUME NEW w \in Workers, ConcurrentFails(w)
      PROVE  TypeOK'
  <2>1. {resumes', errors'} \subseteq Nat
    BY <1>11 DEF ConcurrentFails, EngineKeeps, WorkerKeeps
  <2>2. UNCHANGED <<pool, ads, states, cfg, ad, err, isPaused, caller, shutdown, history,
                    whole, told>>
    BY <1>11 DEF ConcurrentFails, EngineKeeps, WorkerKeeps
  <2>3. QED
    BY <1>11, <2>1, <2>2 DEF ConcurrentFails, GoTo
<1>12. ASSUME NEW w \in Workers, ResetPaused(w)
      PROVE  TypeOK'
  BY <1>12 DEF ResetPaused, GoTo, WorkerKeeps, EngineKeeps
<1>13. ASSUME NEW w \in Workers, ResetPausing(w)
      PROVE  TypeOK'
  BY <1>13 DEF ResetPausing, GoTo, WorkerKeeps, EngineKeeps
<1>14. ASSUME NEW w \in Workers, SingleEnds(w)
      PROVE  TypeOK'
  <2>1. /\ whole' \subseteq Downloads
        /\ err' \in [Workers -> {"nil", "paused", "canceled", "error"}]
        /\ errors' \in Nat
    <3>1. cfg[w] \in Downloads
      BY <1>14 DEF SingleEnds
    <3>2. CASE whole' = whole \cup {cfg[w]} /\ err' = [err EXCEPT ![w] = "nil"] /\ errors' = errors
      BY <3>1, <3>2
    <3>3. CASE whole' = whole /\ err' = [err EXCEPT ![w] = "canceled"] /\ errors' = errors
      BY <3>3
    <3>4. CASE whole' = whole /\ err' = [err EXCEPT ![w] = "error"] /\ errors' = errors + 1
      BY <3>4
    <3>5. QED
      BY <1>14, <3>2, <3>3, <3>4, Zenon DEF SingleEnds
  <2>2. QED
    BY <1>14, <2>1 DEF SingleEnds, GoTo, WorkerKeeps, EngineKeeps
<1>15. ASSUME NEW w \in Workers, Report(w)
      PROVE  TypeOK'
  BY <1>15 DEF Report, GoTo, WorkerKeeps, EngineKeeps
<1>16. ASSUME NEW w \in Workers, NotRunning(w)
      PROVE  TypeOK'
  <2>1. ads' \in Seq(AD) /\ Len(ads') = Len(ads)
    BY <1>16, StoppedType DEF NotRunning
  <2>2. QED
    BY <1>16, <2>1 DEF NotRunning, GoTo, WorkerKeeps
<1>17. ASSUME NEW w \in Workers, ReadPaused(w)
      PROVE  TypeOK'
  BY <1>17 DEF ReadPaused, GoTo, WorkerKeeps
<1>18. ASSUME NEW w \in Workers, ClearPausing(w)
      PROVE  TypeOK'
  BY <1>18 DEF ClearPausing, GoTo, WorkerKeeps
<1>19. ASSUME NEW w \in Workers, Settle(w)
      PROVE  TypeOK'
  BY <1>19 DEF Settle, GoTo, WorkerKeeps
<1>20. ASSUME NEW w \in Workers, Forget(w)
      PROVE  TypeOK'
  <2>1. downloads' \in [Downloads -> 0..Len(ads')]
    BY <1>20, <1>0 DEF Forget, GoTo, WorkerKeeps
  <2>2. QED
    BY <1>20, <2>1 DEF Forget, GoTo, WorkerKeeps
<1>21. ASSUME NEW w \in Workers, Leave(w)
      PROVE  TypeOK'
  <2>1. /\ cfg' \in [Workers -> Downloads \cup {NoDownload}]
        /\ err' \in [Workers -> {"nil", "paused", "canceled", "error"}]
    BY <1>21 DEF Leave
  <2>2. /\ ad' \in [Workers -> 0..Len(ads)]
        /\ isPaused' \in [Workers -> BOOLEAN]
    BY <1>21, <1>0 DEF Leave
  <2>3. UNCHANGED <<taskChan, queued, downloads, ads, states, files, caller, shutdown, history>>
    BY <1>21 DEF Leave, WorkerKeeps
  <2>4. pc' \in [Workers -> {"recv", "check", "start", "register", "concurrent", "joined",
                           "save", "context", "reset", "reset2", "single", "ended",
                           "returned", "stopped", "clear", "settle", "forget", "leave", "gone"}]
    BY <1>21 DEF Leave, GoTo
  <2>5. QED
    BY <2>1, <2>2, <2>3, <2>4
<1>22. ASSUME NEW c \in Callers, Add(c)
      PROVE  TypeOK'
  BY <1>22 DEF Add, CallerKeeps, CallTo
<1>23. ASSUME NEW c \in Callers, Send(c)
      PROVE  TypeOK'
  <2>1. taskChan' \in Seq(Downloads) /\ Len(taskChan') <= Capacity
    BY <1>23, AppendProperties, LenProperties DEF Send
  <2>2. cid' \in [Callers -> Downloads \cup {NoDownload}] /\ cad' \in [Callers -> 0..Len(ads')]
    BY <1>23, <1>0 DEF Send, CallerKeeps, CallTo, Return
  <2>3. QED
    BY <1>23, <2>1, <2>2 DEF Send, CallerKeeps, CallTo, Return
<1>24. ASSUME NEW c \in Callers, SendPanics(c)
      PROVE  TypeOK'
  BY <1>24 DEF SendPanics, CallerKeeps, CallTo
<1>25. ASSUME NEW c \in Callers, PauseSeen(c)
      PROVE  TypeOK'
  <2>1. /\ cpc' \in [Callers -> {"idle", "add", "send", "panic", "paused?", "pausing?", "mark",
                             "flag", "cancel", "stop", "done"}]
        /\ cid' \in [Callers -> Downloads \cup {NoDownload}]
        /\ cad' \in [Callers -> 0..Len(ads')]
    <3>0. ads' = ads
      BY <1>25 DEF PauseSeen
    <3>1. CASE Return(c)
      BY <1>0, <3>1, <3>0 DEF CallTo, Return
    <3>2. CASE CallTo(c, "pausing?") /\ cid' = cid /\ cad' = cad
      BY <3>2, <3>0 DEF CallTo
    <3>3. QED
      BY <1>25, <3>1, <3>2, Zenon DEF PauseSeen
  <2>2. QED
    BY <1>25, <2>1 DEF PauseSeen, CallerKeeps, CallTo, Return
<1>26. ASSUME NEW c \in Callers, PauseUnderWay(c)
      PROVE  TypeOK'
  <2>1. ads' \in Seq(AD) /\ Len(ads') = Len(ads)
    BY <1>26, CancelledType DEF PauseUnderWay
  <2>2. /\ cpc' \in [Callers -> {"idle", "add", "send", "panic", "paused?", "pausing?", "mark",
                             "flag", "cancel", "stop", "done"}]
        /\ cid' \in [Callers -> Downloads \cup {NoDownload}]
        /\ cad' \in [Callers -> 0..Len(ads')]
    <3>1. CASE Return(c)
      BY <1>0, <3>1, <2>1 DEF CallTo, Return
    <3>2. CASE CallTo(c, "mark") /\ cid' = cid /\ cad' = cad
      BY <3>2, <2>1 DEF CallTo
    <3>3. QED
      BY <1>26, <3>1, <3>2, Zenon DEF PauseUnderWay
  <2>3. QED
    BY <1>26, <2>1, <2>2 DEF PauseUnderWay, CallerKeeps, CallTo, Return
<1>27. ASSUME NEW c \in Callers, PauseMark(c)
      PROVE  TypeOK'
  BY <1>27 DEF PauseMark, CallerKeeps, CallTo
<1>28. ASSUME NEW c \in Callers, PauseFlag(c)
      PROVE  TypeOK'
  BY <1>28 DEF PauseFlag, CallerKeeps, CallTo
<1>29. ASSUME NEW c \in Callers, PauseCancel(c)
      PROVE  TypeOK'
  BY <1>29, CancelledType DEF PauseCancel, CallerKeeps, CallTo, Return
<1>30. ASSUME NEW c \in Callers, CancelStop(c)
      PROVE  TypeOK'
  BY <1>30, CancelledType DEF CancelStop, CallerKeeps, CallTo
<1>31. ASSUME NEW c \in Callers, CancelDone(c)
      PROVE  TypeOK'
  BY <1>31 DEF CancelDone, CallerKeeps, CallTo, Return
<1>32. ASSUME NEW c \in Callers, NEW d \in Downloads, Enqueue(c, d)
      PROVE  TypeOK'
  BY <1>32 DEF Enqueue, CallerKeeps, CallTo
<1>33. ASSUME NEW c \in Callers, NEW d \in Downloads, PauseLookup(c, d)
      PROVE  TypeOK'
  <2>1. /\ cpc' \in [Callers -> {"idle", "add", "send", "panic", "paused?", "pausing?", "mark",
                             "flag", "cancel", "stop", "done"}]
        /\ cid' \in [Callers -> Downloads \cup {NoDownload}]
        /\ cad' \in [Callers -> 0..Len(ads')]
    <3>0. ads' = ads
      BY <1>33 DEF PauseLookup
    <3>1. CASE cid' = [cid EXCEPT ![c] = d] /\ cad' = [cad EXCEPT ![c] = downloads[d]]
               /\ CallTo(c, "paused?")
      BY <3>0, <3>1 DEF CallTo
    <3>2. CASE UNCHANGED caller
      BY <3>0, <3>2
    <3>3. QED
      BY <1>33, <3>1, <3>2, Zenon DEF PauseLookup
  <2>2. ids' \subseteq Downloads
    BY <1>33 DEF PauseLookup
  <2>3. QED
    BY <1>33, <2>1, <2>2 DEF PauseLookup, CallerKeeps
<1>34. ASSUME NEW c \in Callers, NEW d \in Downloads, ExtractPausedConfig(c, d)
      PROVE  TypeOK'
  <2>1. downloads' \in [Downloads -> 0..Len(ads')]
    BY <1>34, <1>0 DEF ExtractPausedConfig
  <2>2. /\ resumes' \in Nat
        /\ cid' \in [Callers -> Downloads \cup {NoDownload}]
    BY <1>34 DEF ExtractPausedConfig
  <2>3. QED
    BY <1>34, <2>1, <2>2 DEF ExtractPausedConfig, CallerKeeps, CallTo
<1>35. ASSUME NEW c \in Callers, NEW d \in Downloads, Cancel(c, d)
      PROVE  TypeOK'
  <2>1. /\ cpc' \in [Callers -> {"idle", "add", "send", "panic", "paused?", "pausing?", "mark",
                             "flag", "cancel", "stop", "done"}]
        /\ cid' \in [Callers -> Downloads \cup {NoDownload}]
        /\ cad' \in [Callers -> 0..Len(ads')]
    <3>0. ads' = ads
      BY <1>35 DEF Cancel
    <3>1. CASE cid' = [cid EXCEPT ![c] = d] /\ cad' = [cad EXCEPT ![c] = downloads[d]]
               /\ CallTo(c, "stop")
      BY <3>0, <3>1 DEF CallTo
    <3>2. CASE UNCHANGED caller
      BY <3>0, <3>2
    <3>3. QED
      BY <1>35, <3>1, <3>2, Zenon DEF Cancel
  <2>2. downloads' \in [Downloads -> 0..Len(ads')]
    BY <1>35, <1>0 DEF Cancel, CallerKeeps, CallTo
  <2>3. QED
    BY <1>35, <2>1, <2>2 DEF Cancel, CallerKeeps, CallTo
<1>36. ASSUME PauseAll
      PROVE  TypeOK'
  BY <1>36 DEF PauseAll, ShutKeeps
<1>37. ASSUME ClearQueued
      PROVE  TypeOK'
  BY <1>37 DEF ClearQueued, ShutKeeps
<1>38. ASSUME DrainChannel
      PROVE  TypeOK'
  <2>1. taskChan' \in Seq(Downloads) /\ Len(taskChan') <= Capacity
    <3>1. CASE taskChan' = taskChan
      BY <3>1
    <3>2. CASE taskChan # <<>> /\ taskChan' = Tail(taskChan)
      BY <3>2, HeadTailProperties, LenProperties
    <3>3. QED
      BY <1>38, <3>1, <3>2, Zenon DEF DrainChannel
  <2>2. shut' \in {"drain", "wait"}
    BY <1>38 DEF DrainChannel
  <2>3. QED
    BY <1>38, <2>1, <2>2 DEF DrainChannel, ShutKeeps
<1>39. ASSUME WaitPausing
      PROVE  TypeOK'
  BY <1>39 DEF WaitPausing, ShutKeeps, Stale
<1>40. ASSUME Close
      PROVE  TypeOK'
  BY <1>40 DEF Close, ShutKeeps
<1>41. CASE UNCHANGED vars
  BY <1>41 DEF vars
<1>42. QED
  BY <1>1, <1>2, <1>3, <1>4, <1>5, <1>6, <1>7, <1>8, <1>9, <1>10, <1>11, <1>12,
     <1>13, <1>14, <1>15, <1>16, <1>17, <1>18, <1>19, <1>20, <1>21, <1>22,
     <1>23, <1>24, <1>25, <1>26, <1>27, <1>28, <1>29, <1>30, <1>31, <1>32,
     <1>33, <1>34, <1>35, <1>36, <1>37, <1>38, <1>39, <1>40, <1>41 DEF Next,
     WorkerStep, CallerStep, Call, ShutdownStep

(* A step of a worker moves nobody else, and no caller.                     *)
LEMMA OthersStay ==
  ASSUME TypeOK, NEW w \in Workers, WorkerStep(w)
  PROVE  /\ \A v \in Workers \ {w} : pc'[v] = pc[v] /\ cfg'[v] = cfg[v]
         /\ UNCHANGED <<caller, shutdown>>
<1>1. CASE Receive(w) \/ Exit(w) \/ CheckQueued(w) \/ Start(w) \/ Register(w)
  BY <1>1 DEF Receive, Exit, CheckQueued, Start, Register, GoTo, WorkerKeeps, TypeOK
<1>2. CASE \/ TransferEnds(w) \/ BootstrapCanceled(w) \/ AskPaused(w)
           \/ HandlePause(w) \/ CheckContext(w)
  BY <1>2 DEF TransferEnds, BootstrapCanceled, AskPaused, HandlePause, CheckContext,
              GoTo, WorkerKeeps, EngineKeeps, TypeOK
<1>3. CASE \/ ConcurrentFails(w) \/ ResetPaused(w) \/ ResetPausing(w)
           \/ SingleEnds(w) \/ Report(w)
  BY <1>3 DEF ConcurrentFails, ResetPaused, ResetPausing, SingleEnds, Report,
              GoTo, WorkerKeeps, EngineKeeps, TypeOK
<1>4. CASE \/ NotRunning(w) \/ ReadPaused(w) \/ ClearPausing(w)
           \/ Settle(w) \/ Forget(w) \/ Leave(w)
  BY <1>4 DEF NotRunning, ReadPaused, ClearPausing, Settle, Forget, Leave,
              GoTo, WorkerKeeps, TypeOK
<1>5. QED
  BY <1>1, <1>2, <1>3, <1>4 DEF WorkerStep

(* Only Receive takes from the channel and gives a worker a download; what *)
(* is listed as queued only shrinks, by the download that is registered.   *)
LEMMA WorkKeeps ==
  ASSUME TypeOK, NEW w \in Workers, WorkerStep(w), ~Receive(w)
  PROVE  /\ taskChan' = taskChan /\ queued' \subseteq queued
         /\ pc'[w] \notin {"recv", "gone"} =>
              pc[w] \notin {"recv", "gone"} /\ cfg'[w] = cfg[w]
         /\ pc[w] \in {"check", "start", "register"} /\ cfg[w] \in queued' =>
              pc'[w] \in {"check", "start", "register"}
<1>1. CASE Exit(w) \/ CheckQueued(w) \/ Start(w) \/ Register(w)
  BY <1>1 DEF Exit, CheckQueued, Start, Register, GoTo, pool, TypeOK
<1>2. CASE \/ TransferEnds(w) \/ BootstrapCanceled(w) \/ AskPaused(w)
           \/ HandlePause(w) \/ CheckContext(w)
  BY <1>2 DEF TransferEnds, BootstrapCanceled, AskPaused, HandlePause, CheckContext,
              EngineKeeps, pool
<1>3. CASE \/ ConcurrentFails(w) \/ ResetPaused(w) \/ ResetPausing(w)
           \/ SingleEnds(w) \/ Report(w)
  BY <1>3 DEF ConcurrentFails, ResetPaused, ResetPausing, SingleEnds, Report,
              EngineKeeps, pool
<1>4. CASE NotRunning(w) \/ ReadPaused(w) \/ ClearPausing(w)
  BY <1>4 DEF NotRunning, ReadPaused, ClearPausing, pool
<1>5. CASE Settle(w)
  BY <1>5 DEF Settle, pool
<1>6. CASE Forget(w) \/ Leave(w)
  BY <1>6 DEF Forget, Leave, GoTo, TypeOK
<1>7. QED
  BY <1>1, <1>2, <1>3, <1>4, <1>5, <1>6 DEF WorkerStep

(* Only Start and Leave change who is counted.                             *)
LEMMA WaitGroupStep ==
  ASSUME TypeOK, WaitGroupExact, [Next]_vars
  PROVE  WaitGroupExact' /\ wg' \in Nat
<1>1. ASSUME NEW w \in Workers, Start(w)
      PROVE  WaitGroupExact'
  <2>1. Counted' = Counted \cup {w} /\ w \notin Counted
    BY <1>1 DEF Start, GoTo, Counted, TypeOK
  <2>2. Cardinality(Counted') = Cardinality(Counted) + 1
    BY <2>1, CountedFinite, FS_AddElement
  <2>3. QED
    BY <1>1, <2>2 DEF Start, WaitGroupExact
<1>2. ASSUME NEW w \in Workers, Leave(w)
      PROVE  WaitGroupExact'
  <2>1. Counted' = Counted \ {w} /\ w \in Counted
    BY <1>2 DEF Leave, GoTo, Counted, TypeOK
  <2>2. Cardinality(Counted') = Cardinality(Counted) - 1
    BY <2>1, CountedFinite, FS_RemoveElement
  <2>3. QED
    BY <1>2, <2>2 DEF Leave, WaitGroupExact
<1>3. ASSUME NEW w \in Workers, WorkerStep(w), ~Start(w), ~Leave(w)
      PROVE  WaitGroupExact'
  <2>1. wg' = wg
    BY <1>3 DEF WorkerStep, Receive, Exit, CheckQueued, Start, Register,
       TransferEnds, BootstrapCanceled, AskPaused, HandlePause, CheckContext,
       ConcurrentFails, ResetPaused, ResetPausing, SingleEnds, Report,
       NotRunning, ReadPaused, ClearPausing, Settle, Forget, Leave, GoTo,
       WorkerKeeps, EngineKeeps, pool
  <2>2. \A v \in Workers \ {w} : pc'[v] = pc[v]
    BY <1>3, OthersStay
  <2>3. w \in Counted' => w \in Counted
    BY <1>3 DEF WorkerStep, Receive, Exit, CheckQueued, Start, Register,
       TransferEnds, BootstrapCanceled, AskPaused, HandlePause, CheckContext,
       ConcurrentFails, ResetPaused, ResetPausing, SingleEnds, Report,
       NotRunning, ReadPaused, ClearPausing, Settle, Forget, Leave, GoTo,
       WorkerKeeps, EngineKeeps, worker, Counted, TypeOK
  <2>4. ASSUME w \in Counted
        PROVE  w \in Counted'
    <3>0. ASSUME NEW l, GoTo(w, l)
          PROVE  pc'[w] = l
      BY <3>0 DEF GoTo, TypeOK
    <3>1. pc[w] \notin {"recv", "check", "start", "gone"}
      BY <2>4 DEF Counted
    <3>2. CASE Receive(w) \/ Exit(w) \/ CheckQueued(w)
      BY <3>1, <3>2 DEF Receive, Exit, CheckQueued
    <3>3. CASE \/ Register(w) \/ NotRunning(w) \/ ReadPaused(w) \/ ClearPausing(w)
               \/ Settle(w) \/ Forget(w)
      <4>1. pc'[w] \notin {"recv", "check", "start", "gone"}
        BY <3>0, <3>3 DEF Register, NotRunning, ReadPaused, ClearPausing, Settle, Forget
      <4>2. QED
        BY <4>1 DEF Counted
    <3>4. CASE \/ TransferEnds(w) \/ BootstrapCanceled(w) \/ AskPaused(w)
               \/ HandlePause(w) \/ CheckContext(w)
      BY <3>4 DEF TransferEnds, BootstrapCanceled, AskPaused, HandlePause, CheckContext,
                  GoTo, Counted, TypeOK
    <3>5. CASE \/ ConcurrentFails(w) \/ ResetPaused(w) \/ ResetPausing(w)
               \/ SingleEnds(w) \/ Report(w)
      <4>1. pc'[w] \notin {"recv", "check", "start", "gone"}
        BY <3>0, <3>5 DEF ConcurrentFails, ResetPaused, ResetPausing, SingleEnds, Report
      <4>2. QED
        BY <4>1 DEF Counted
    <3>6. QED
      BY <1>3, <3>2, <3>3, <3>4, <3>5 DEF WorkerStep
  <2>5. Counted' = Counted
    BY <2>2, <2>3, <2>4 DEF Counted
  <2>6. QED
    BY <2>1, <2>5 DEF WaitGroupExact
<1>4. ASSUME wg' = wg, pc' = pc
      PROVE  WaitGroupExact'
  <2>1. Counted' = Counted
    BY <1>4 DEF Counted
  <2>2. QED
    BY <1>4, <2>1 DEF WaitGroupExact
<1>5. ASSUME NEW c \in Callers, CallerStep(c)
      PROVE  wg' = wg /\ pc' = pc
  BY <1>5 DEF CallerStep, Add, Send, SendPanics, PauseSeen, PauseUnderWay,
     PauseMark, PauseFlag, PauseCancel, CancelStop, CancelDone, CallTo, Return,
     CallerKeeps, pool, worker
<1>6. ASSUME NEW c \in Callers, NEW d \in Downloads, Call(c, d)
      PROVE  wg' = wg /\ pc' = pc
  BY <1>6 DEF Call, Enqueue, PauseLookup, ExtractPausedConfig, Cancel, CallTo,
     CallerKeeps, pool, worker
<1>7. ASSUME PauseAll \/ ShutdownStep
      PROVE  wg' = wg /\ pc' = pc
  BY <1>7 DEF PauseAll, ShutdownStep, ClearQueued, DrainChannel, WaitPausing,
     Close, ShutKeeps, pool, worker
<1>8. ASSUME UNCHANGED vars
      PROVE  wg' = wg /\ pc' = pc
  BY <1>8 DEF vars, pool, worker
<1>9. WaitGroupExact'
  BY <1>1, <1>2, <1>3, <1>4, <1>5, <1>6, <1>7, <1>8 DEF Next
<1>10. Cardinality(Counted') \in Nat
  <2>1. Counted' \in SUBSET Workers
    BY DEF Counted
  <2>2. QED
    BY <2>1, PoolAssumption, FS_Subset, FS_CardinalityType
<1>11. QED
  BY <1>9, <1>10 DEF WaitGroupExact

(* Who holds a download goes on holding it.                                *)
LEMMA HeldStep ==
  ASSUME TypeOK, Held, [Next]_vars
  PROVE  Held'
<1>1. ASSUME NEW w \in Workers, Receive(w)
      PROVE  Held'
  <2>1. Head(taskChan) \in Downloads
    BY <1>1, HeadTailProperties DEF Receive, TypeOK
  <2>2. QED
    BY <1>1, <2>1 DEF Receive, GoTo, WorkerKeeps, caller, TypeOK, Held
<1>2. ASSUME NEW w \in Workers, WorkerStep(w), ~Receive(w)
      PROVE  Held'
  <2>1. cpc' = cpc /\ cid' = cid
    BY <1>2, OthersStay DEF caller
  <2>2. \A v \in Workers : pc'[v] \notin {"recv", "gone"} =>
          pc[v] \notin {"recv", "gone"} /\ cfg'[v] = cfg[v]
    BY <1>2, OthersStay, WorkKeeps
  <2>3. QED
    BY <2>1, <2>2 DEF Held
<1>3. ASSUME NEW c \in Callers, CallerStep(c)
      PROVE  Held'
  <2>1. pc' = pc /\ cfg' = cfg
    BY <1>3 DEF CallerStep, Add, Send, SendPanics, PauseSeen, PauseUnderWay,
       PauseMark, PauseFlag, PauseCancel, CancelStop, CancelDone, CallTo,
       Return, CallerKeeps, worker
  <2>2. \A b \in Callers : cpc'[b] # "idle" => cpc[b] # "idle" /\ cid'[b] = cid[b]
    BY <1>3 DEF CallerStep, Add, Send, SendPanics, PauseSeen, PauseUnderWay,
       PauseMark, PauseFlag, PauseCancel, CancelStop, CancelDone, CallTo,
       Return, CallerKeeps, caller, TypeOK
  <2>3. QED
    BY <2>1, <2>2 DEF Held
<1>4. ASSUME NEW c \in Callers, NEW d \in Downloads, Call(c, d)
      PROVE  Held'
  <2>1. pc' = pc /\ cfg' = cfg
    BY <1>4 DEF Call, Enqueue, PauseLookup, ExtractPausedConfig, Cancel, CallTo,
       CallerKeeps, worker
  <2>2. \A b \in Callers : cpc'[b] # "idle" =>
          cid'[b] = d \/ (cpc[b] # "idle" /\ cid'[b] = cid[b])
    BY <1>4 DEF Call, Enqueue, PauseLookup, ExtractPausedConfig, Cancel, CallTo,
       CallerKeeps, caller, TypeOK
  <2>3. QED
    BY <1>4, <2>1, <2>2 DEF Held
<1>5. ASSUME PauseAll \/ ShutdownStep
      PROVE  Held'
  BY <1>5 DEF PauseAll, ShutdownStep, ClearQueued, DrainChannel, WaitPausing,
     Close, ShutKeeps, worker, caller, Held
<1>6. CASE UNCHANGED vars
  BY <1>6 DEF vars, worker, caller, Held
<1>7. QED
  BY <1>1, <1>2, <1>3, <1>4, <1>5, <1>6 DEF Next

(* What is queued stays on its way: Receive, Send and Add move it along,   *)
(* the other steps of a worker drop only what is not queued, the other     *)
(* steps of a caller are not about a download being sent.                  *)
LEMMA QueuedStep ==
  ASSUME TypeOK, Held, QueuedIsComing, [Next]_vars
  PROVE  QueuedIsComing'
<1>1. ASSUME NEW w \in Workers, Receive(w)
      PROVE  QueuedIsComing'
  <2>1. /\ queued' = queued /\ shut' = shut /\ cpc' = cpc /\ cid' = cid
        /\ cfg'[w] = taskChan[1] /\ pc'[w] = "check" /\ pc[w] = "recv"
        /\ \A v \in Workers \ {w} : pc'[v] = pc[v] /\ cfg'[v] = cfg[v]
    BY <1>1 DEF Receive, GoTo, WorkerKeeps, caller, shutdown, TypeOK
  <2>2. taskChan \in Seq(Downloads) /\ taskChan # <<>> /\ taskChan' = Tail(taskChan)
    BY <1>1 DEF Receive, TypeOK
  <2>3. \A i \in DOMAIN taskChan :
          i = 1 \/ (i - 1 \in DOMAIN taskChan' /\ taskChan'[i - 1] = taskChan[i])
    BY <2>2, HeadTailProperties, LenProperties
  <2>4. QED
    BY <2>1, <2>3 DEF QueuedIsComing, OnItsWay
<1>2. ASSUME NEW w \in Workers, WorkerStep(w), ~Receive(w)
      PROVE  QueuedIsComing'
  <2>1. \A v \in Workers :
          pc[v] \in {"check", "start", "register"} /\ cfg[v] \in queued' =>
            pc'[v] \in {"check", "start", "register"} /\ cfg'[v] = cfg[v]
    BY <1>2, OthersStay, WorkKeeps
  <2>2. /\ taskChan' = taskChan /\ cpc' = cpc /\ cid' = cid /\ shut' = shut
        /\ queued' \subseteq queued
    BY <1>2, OthersStay, WorkKeeps DEF caller, shutdown
  <2>3. QED
    BY <2>1, <2>2 DEF QueuedIsComing, OnItsWay
<1>3. ASSUME NEW c \in Callers, Send(c)
      PROVE  QueuedIsComing'
  <2>1. /\ queued' = queued /\ shut' = shut /\ pc' = pc /\ cfg' = cfg
        /\ \A b \in Callers \ {c} : cpc'[b] = cpc[b] /\ cid'[b] = cid[b]
    BY <1>3 DEF Send, CallerKeeps, CallTo, Return, worker, shutdown, TypeOK
  <2>2. /\ taskChan \in Seq(Downloads) /\ cid[c] \in Downloads
        /\ taskChan' = Append(taskChan, cid[c])
    BY <1>3 DEF Send, TypeOK, Held
  <2>3. /\ \A i \in DOMAIN taskChan : i \in DOMAIN taskChan' /\ taskChan'[i] = taskChan[i]
        /\ \E i \in DOMAIN taskChan' : taskChan'[i] = cid[c]
    BY <2>2, AppendProperties, LenProperties
  <2>4. QED
    BY <2>1, <2>3 DEF QueuedIsComing, OnItsWay
<1>4. ASSUME NEW c \in Callers, Add(c)
      PROVE  QueuedIsComing'
  <2>1. /\ taskChan' = taskChan /\ pc' = pc /\ cfg' = cfg /\ cid' = cid /\ shut' = shut
        /\ queued' = queued \cup {cid[c]} /\ cpc'[c] = "send"
        /\ \A b \in Callers \ {c} : cpc'[b] = cpc[b]
        /\ cpc[c] # "send"
    BY <1>4 DEF Add, CallerKeeps, CallTo, worker, shutdown, TypeOK
  <2>2. QED
    BY <2>1 DEF QueuedIsComing, OnItsWay
<1>5. ASSUME /\ taskChan' = taskChan /\ pc' = pc /\ cfg' = cfg
             /\ queued' \subseteq queued
             /\ shut' = "no" => shut = "no"
             /\ \A b \in Callers : cpc[b] = "send" => cpc'[b] = "send" /\ cid'[b] = cid[b]
      PROVE  QueuedIsComing'
  BY <1>5 DEF QueuedIsComing, OnItsWay
<1>6. ASSUME NEW c \in Callers, CallerStep(c), ~Add(c), ~Send(c), ~SendPanics(c)
      PROVE  QueuedIsComing'
  <2>1. /\ taskChan' = taskChan /\ pc' = pc /\ cfg' = cfg /\ queued' = queued
        /\ shut' = shut
    BY <1>6 DEF CallerStep, Add, Send, SendPanics, PauseSeen, PauseUnderWay,
       PauseMark, PauseFlag, PauseCancel, CancelStop, CancelDone, CallTo,
       Return, CallerKeeps, pool, worker, shutdown
  <2>2. \A b \in Callers : cpc[b] = "send" => cpc'[b] = "send" /\ cid'[b] = cid[b]
    BY <1>6 DEF CallerStep, Add, Send, SendPanics, PauseSeen, PauseUnderWay,
       PauseMark, PauseFlag, PauseCancel, CancelStop, CancelDone, CallTo,
       Return, CallerKeeps, TypeOK
  <2>3. QED
    BY <1>5, <2>1, <2>2
<1>7. ASSUME NEW c \in Callers, SendPanics(c)
      PROVE  QueuedIsComing'
  BY <1>7 DEF SendPanics, shutdown, QueuedIsComing
<1>8. ASSUME NEW c \in Callers, NEW d \in Downloads, Call(c, d)
      PROVE  QueuedIsComing'
  <2>1. /\ taskChan' = taskChan /\ pc' = pc /\ cfg' = cfg /\ queued' \subseteq queued
        /\ shut' = shut
    BY <1>8 DEF Call, Enqueue, PauseLookup, ExtractPausedConfig, Cancel, CallTo,
       CallerKeeps, pool, worker, shutdown
  <2>2. \A b \in Callers : cpc[b] = "send" => cpc'[b] = "send" /\ cid'[b] = cid[b]
    BY <1>8 DEF Call, Enqueue, PauseLookup, ExtractPausedConfig, Cancel, CallTo,
       CallerKeeps, caller, TypeOK
  <2>3. QED
    BY <1>5, <2>1, <2>2
<1>9. ASSUME PauseAll \/ ShutdownStep
      PROVE  shut' # "no"
  BY <1>9 DEF PauseAll, ShutdownStep, ClearQueued, DrainChannel, WaitPausing,
     Close, ShutKeeps
<1>10. CASE UNCHANGED vars
  BY <1>10 DEF vars, pool, worker, caller, shutdown, QueuedIsComing, OnItsWay
<1>11. QED
  BY <1>1, <1>2, <1>3, <1>4, <1>6, <1>7, <1>8, <1>9, <1>10 DEF Next, QueuedIsComing

(* PoolInv is inductive.                                                   *)
LEMMA InitInv == Init => PoolInv
<1> SUFFICES ASSUME Init PROVE PoolInv
  OBVIOUS
<1>1. TypeOK
  <2>1. ads \in Seq(AD) /\ Len(ads) = 0 /\ taskChan \in Seq(Downloads) /\ Len(taskChan) = 0
    BY DEF Init
  <2>2. QED
    BY <2>1, PoolAssumption DEF Init, TypeOK
<1>2. Held
  BY DEF Init, Held
<1>3. WaitGroupExact
  <2>1. Counted = {}
    BY DEF Init, Counted
  <2>2. QED
    BY <2>1, FS_EmptySet DEF Init, WaitGroupExact
<1>4. QueuedIsComing
  BY DEF Init, QueuedIsComing
<1>5. QED
  BY <1>1, <1>2, <1>3, <1>4 DEF PoolInv

LEMMA NextInv == PoolInv /\ [Next]_vars => PoolInv'
<1> SUFFICES ASSUME PoolInv, [Next]_vars PROVE PoolInv'
  OBVIOUS
<1>1. WaitGroupExact' /\ wg' \in Nat
  BY WaitGroupStep DEF PoolInv
<1>2. TypeOK'
  BY <1>1, TypesStep DEF PoolInv
<1>3. Held' /\ QueuedIsComing'
  BY HeldStep, QueuedStep DEF PoolInv
<1>4. QED
  BY <1>1, <1>2, <1>3 DEF PoolInv

LEMMA PoolInvariant == Spec => []PoolInv
  BY InitInv, NextInv, PTL DEF Spec

(* The variables have their types; in particular the wait group never goes *)
(* below zero, which would panic (pool.go:340-398).                        *)
THEOREM PoolTypesCorrect == Spec => []TypeOK
<1>1. PoolInv => TypeOK
  BY DEF PoolInv
<1>2. QED
  BY <1>1, PoolInvariant, PTL

(* Whatever is cancelled, resumed and enqueued by whomever, a download     *)
(* listed as queued is in the channel, on its way there or with a worker   *)
(* (pool.go:103-112, 330-356), for any number of each.                     *)
THEOREM QueuedComes == Spec => []QueuedIsComing
<1>1. PoolInv => QueuedIsComing
  BY DEF PoolInv
<1>2. QED
  BY <1>1, PoolInvariant, PTL

(* When GracefulShutdown closes taskChan no worker is inside a download    *)
(* (pool.go:545-552): the wait group counts them exactly.                  *)
THEOREM CloseFindsNobody ==
  Spec => [][Close => \A w \in Workers : ~Running(w)]_vars
<1>1. ASSUME PoolInv, Close, NEW w \in Workers
      PROVE  ~Running(w)
  <2>1. Cardinality(Counted) = 0
    BY <1>1 DEF PoolInv, WaitGroupExact, Close
  <2>2. Counted = {}
    BY <2>1, CountedFinite, FS_EmptySet
  <2>3. pc[w] \in {"recv", "check", "start", "gone"}
    BY <2>2 DEF Counted
  <2>4. QED
    BY <2>3 DEF Running, InEngine
<1>2. PoolInv /\ [Next]_vars => [Close => \A w \in Workers : ~Running(w)]_vars
  BY <1>1
<1>3. QED
  BY <1>2, PoolInvariant, PTL DEF Spec
-----------------------------------------------------------------------------
(* One run at a time.  A download that is on its way to a worker or with   *)
(* one is in one place only, as long as it is taken out of the pool only   *)
(* after its worker has let go of it.                                      *)
Sole == Closer \notin Callers /\ \A b, c \in Callers : b = c
Pausable == Sole \/ resumes = 0

Ahead == {"check", "start", "register"}
Inside == {"concurrent", "joined", "save", "context", "single", "ended", "returned"}
Letting == {"stopped", "clear"}

(* Worker w has its download for itself; caller c hands one over.          *)
Bound(w) == pc[w] \in Ahead \cup Inside \/ (Pausable /\ pc[w] \in Letting)
Giving(c) == cpc[c] \in {"add", "send"}

Single ==
  /\ \A i, j \in DOMAIN taskChan : i # j => taskChan[i] # taskChan[j]
  /\ \A i \in DOMAIN taskChan, c \in Callers : Giving(c) => cid[c] # taskChan[i]
  /\ \A i \in DOMAIN taskChan, w \in Workers : Bound(w) => cfg[w] # taskChan[i]
  /\ \A b, c \in Callers : b # c /\ Giving(b) /\ Giving(c) => cid[b] # cid[c]
  /\ \A c \in Callers, w \in Workers : Giving(c) /\ Bound(w) => cid[c] # cfg[w]
  /\ \A v, w \in Workers : v # w /\ Bound(v) /\ Bound(w) => cfg[v] # cfg[w]

(* Download d is on its way to a worker, or with one that may yet clear    *)
(* its flags.                                                              *)
Given(d) ==
  \/ \E i \in DOMAIN taskChan : taskChan[i] = d
  \/ \E c \in Callers : Giving(c) /\ cid[c] = d
Astir(d) ==
  \/ Given(d)
  \/ \E w \in Workers : cfg[w] = d /\ (pc[w] \in Ahead \cup Inside \/ (Sole /\ pc[w] \in Letting))

(* What looks extractable is at rest, also once the flag of a pause that   *)
(* is under way is set.                                                    *)
Rested == Pausable => \A d \in Downloads : Paused[d] /\ ~Pausing[d] => ~Astir(d)
Flagged ==
  Pausable => \A c \in Callers, d \in Downloads :
    cpc[c] = "flag" /\ cid[c] = d => Pausing[d] \/ ~Astir(d)

(* What was never enqueued is nowhere.                                     *)
Untouched ==
  \A d \in Downloads \ added :
    /\ downloads[d] = 0 /\ ~Paused[d]
    /\ \A i \in DOMAIN taskChan : taskChan[i] # d
    /\ \A c \in Callers : cpc[c] # "idle" => cid[c] # d
    /\ \A w \in Workers : pc[w] \notin {"recv", "gone"} => cfg[w] # d

(* A worker has an activeDownload of its download, which runs; the map has *)
(* that one, as long as nothing was resumed.                               *)
Owned ==
  \A w \in Workers : pc[w] \in {"register"} \cup Inside =>
    ad[w] # 0 /\ ads[ad[w]].id = cfg[w] /\ ads[ad[w]].running
Mapped ==
  resumes = 0 => \A d \in Downloads : downloads[d] # 0 =>
    /\ ~Given(d)
    /\ \A w \in Workers : cfg[w] = d =>
         pc[w] \notin Ahead /\ (pc[w] \in Inside => downloads[d] = ad[w])

NoFailure == \A w \in Workers : pc[w] \notin {"reset", "reset2"}
OpenWhileSole == Sole => shut = "no"

RunInv == Single /\ Rested /\ Flagged /\ Untouched /\ Owned /\ Mapped /\ OpenWhileSole /\ NoFailure

(* The channel after its first entry was taken, and with one more.         *)
LEMMA TailEntries ==
  ASSUME taskChan \in Seq(Downloads), taskChan # <<>>, taskChan' = Tail(taskChan)
  PROVE  /\ 1 \in DOMAIN taskChan /\ Head(taskChan) = taskChan[1]
         /\ \A i \in DOMAIN taskChan' :
              i \in Nat /\ i + 1 # 1 /\ i + 1 \in DOMAIN taskChan /\ taskChan'[i] = taskChan[i + 1]
  BY HeadTailProperties, LenProperties

LEMMA AppendEntries ==
  ASSUME NEW d \in Downloads, taskChan \in Seq(Downloads), taskChan' = Append(taskChan, d)
  PROVE  \A i \in DOMAIN taskChan' :
           \/ i \in DOMAIN taskChan /\ taskChan'[i] = taskChan[i]
           \/ i = Len(taskChan) + 1 /\ taskChan'[i] = d /\ i \notin DOMAIN taskChan
  BY AppendProperties, LenProperties

(* Most steps take a download nowhere new.                                 *)
Working == Ahead \cup Inside \cup Letting
Narrows ==
  /\ taskChan' = taskChan /\ resumes' = resumes
  /\ \A c \in Callers : Giving(c)' => Giving(c) /\ cid'[c] = cid[c]
  /\ \A w \in Workers :
       /\ pc'[w] \in Working => pc[w] \in Working /\ cfg'[w] = cfg[w]
       /\ pc'[w] \in Ahead \cup Inside => pc[w] \in Ahead \cup Inside

LEMMA NarrowKeeps ==
  ASSUME Narrows
  PROVE  /\ Single => Single'
         /\ \A d : (Given(d)' => Given(d)) /\ (Astir(d)' => Astir(d))
<1>1. Pausable' = Pausable
  BY DEF Narrows, Pausable, Sole
<1>2. \A w \in Workers : Bound(w)' => Bound(w) /\ cfg'[w] = cfg[w]
  BY <1>1 DEF Narrows, Bound, Working
<1>3. \A d : Given(d)' => Given(d)
  BY DEF Narrows, Given
<1>4. \A d : Astir(d)' => Astir(d)
  BY <1>3 DEF Narrows, Astir, Working, Sole
<1>5. Single => Single'
  BY <1>2 DEF Narrows, Single
<1>6. QED
  BY <1>3, <1>4, <1>5

(* Where a worker that has no failed engine goes.                          *)
LEMMA WorkNarrows ==
  ASSUME TypeOK, NoFailure, errors' = errors, NEW w \in Workers, WorkerStep(w), ~Receive(w)
  PROVE  Narrows /\ NoFailure'
<1> USE DEF Working, Ahead, Inside, Letting
<1>1. ~ConcurrentFails(w) /\ ~ResetPaused(w) /\ ~ResetPausing(w)
  <2>1. errors \in Nat
    BY DEF TypeOK
  <2>2. errors + 1 # errors
    BY <2>1
  <2>3. QED
    BY <2>2 DEF NoFailure, ConcurrentFails, ResetPaused, ResetPausing
<1>2. /\ pc'[w] \in Working => pc[w] \in Working
      /\ pc'[w] \in Ahead \cup Inside => pc[w] \in Ahead \cup Inside
      /\ pc'[w] \notin {"reset", "reset2"}
  <2>0. ASSUME NEW l, GoTo(w, l)
        PROVE  pc'[w] = l
    BY <2>0 DEF GoTo, TypeOK
  <2>1. CASE Exit(w) \/ CheckQueued(w) \/ Start(w) \/ Register(w)
    BY <2>0, <2>1 DEF Exit, CheckQueued, Start, Register
  <2>2. CASE \/ TransferEnds(w) \/ BootstrapCanceled(w) \/ AskPaused(w)
             \/ HandlePause(w) \/ CheckContext(w)
    BY <2>0, <2>2 DEF TransferEnds, BootstrapCanceled, AskPaused, HandlePause, CheckContext
  <2>3. CASE SingleEnds(w) \/ Report(w)
    BY <2>0, <2>3 DEF SingleEnds, Report
  <2>4. CASE \/ NotRunning(w) \/ ReadPaused(w) \/ ClearPausing(w)
             \/ Settle(w) \/ Forget(w) \/ Leave(w)
    BY <2>0, <2>4 DEF NotRunning, ReadPaused, ClearPausing, Settle, Forget, Leave
  <2>5. QED
    BY <1>1, <2>1, <2>2, <2>3, <2>4 DEF WorkerStep
<1>3. /\ taskChan' = taskChan
      /\ pc'[w] \in Working => cfg'[w] = cfg[w]
      /\ \A v \in Workers \ {w} : pc'[v] = pc[v] /\ cfg'[v] = cfg[v]
      /\ cpc' = cpc /\ cid' = cid
  BY WorkKeeps, OthersStay DEF caller
<1>4. resumes' = resumes
  BY DEF WorkerStep, Receive, Exit, CheckQueued, Start, Register,
     TransferEnds, BootstrapCanceled, AskPaused, HandlePause, CheckContext,
     ConcurrentFails, ResetPaused, ResetPausing, SingleEnds, Report,
     NotRunning, ReadPaused, ClearPausing, Settle, Forget, Leave,
     WorkerKeeps, EngineKeeps, history
<1>5. Narrows
  <2>1. \A c \in Callers : Giving(c)' => Giving(c) /\ cid'[c] = cid[c]
    BY <1>3 DEF Giving
  <2>2. \A v \in Workers :
          /\ pc'[v] \in Working => pc[v] \in Working /\ cfg'[v] = cfg[v]
          /\ pc'[v] \in Ahead \cup Inside => pc[v] \in Ahead \cup Inside
    BY <1>2, <1>3
  <2>3. QED
    BY <1>3, <1>4, <2>1, <2>2 DEF Narrows
<1>6. NoFailure'
  BY <1>2, <1>3 DEF NoFailure
<1>7. QED
  BY <1>5, <1>6

(* The steps of callers and of a shutdown that hand nothing over.          *)
LEMMA CallNarrows ==
  ASSUME TypeOK,
         \/ \E c \in Callers : CallerStep(c) /\ ~Send(c)
         \/ \E c \in Callers, d \in Downloads : PauseLookup(c, d) \/ Cancel(c, d)
         \/ PauseAll \/ ClearQueued \/ WaitPausing \/ Close
         \/ UNCHANGED vars
  PROVE  Narrows /\ pc' = pc /\ cfg' = cfg
<1>1. ASSUME NEW c \in Callers, CallerStep(c), ~Send(c)
      PROVE  /\ taskChan' = taskChan /\ resumes' = resumes /\ pc' = pc /\ cfg' = cfg
             /\ \A b \in Callers : Giving(b)' => Giving(b) /\ cid'[b] = cid[b]
  BY <1>1 DEF CallerStep, Add, SendPanics, PauseSeen, PauseUnderWay, PauseMark, PauseFlag,
     PauseCancel, CancelStop, CancelDone, CallTo, Return, CallerKeeps, pool, worker, history,
     Giving, TypeOK
<1>2. ASSUME NEW c \in Callers, NEW d \in Downloads, PauseLookup(c, d) \/ Cancel(c, d)
      PROVE  /\ taskChan' = taskChan /\ resumes' = resumes /\ pc' = pc /\ cfg' = cfg
             /\ \A b \in Callers : Giving(b)' => Giving(b) /\ cid'[b] = cid[b]
  BY <1>2 DEF PauseLookup, Cancel, CallTo, CallerKeeps, pool, worker, history, caller,
     Giving, TypeOK
<1>3. CASE PauseAll \/ ClearQueued \/ WaitPausing \/ Close \/ UNCHANGED vars
  <2>1. /\ taskChan' = taskChan /\ resumes' = resumes /\ pc' = pc /\ cfg' = cfg
        /\ cpc' = cpc /\ cid' = cid
    BY <1>3 DEF PauseAll, ClearQueued, WaitPausing, Close, ShutKeeps, vars, pool, worker,
       caller, history
  <2>2. QED
    BY <2>1 DEF Narrows, Giving
<1>4. ASSUME taskChan' = taskChan, resumes' = resumes, pc' = pc, cfg' = cfg,
             \A b \in Callers : Giving(b)' => Giving(b) /\ cid'[b] = cid[b]
      PROVE  Narrows
  BY <1>4 DEF Narrows
<1>5. QED
  BY <1>1, <1>2, <1>3, <1>4

(* A worker takes the first of the channel.                                *)
LEMMA ReceiveMoves ==
  ASSUME TypeOK, Single, NEW w \in Workers, Receive(w)
  PROVE  /\ Single'
         /\ \A d : Given(d)' => Given(d)
         /\ \A d \in Downloads : Astir(d)' => Astir(d)
<1> USE DEF Ahead, Inside, Letting
<1>1. /\ pc[w] = "recv" /\ taskChan \in Seq(Downloads) /\ taskChan # <<>>
      /\ taskChan' = Tail(taskChan)
      /\ pc'[w] = "check" /\ cfg'[w] = Head(taskChan)
      /\ \A v \in Workers \ {w} : pc'[v] = pc[v] /\ cfg'[v] = cfg[v]
      /\ cpc' = cpc /\ cid' = cid /\ resumes' = resumes
  BY DEF Receive, GoTo, WorkerKeeps, caller, history, TypeOK
<1>2. /\ 1 \in DOMAIN taskChan /\ Head(taskChan) = taskChan[1]
      /\ \A i \in DOMAIN taskChan' :
           i \in Nat /\ i + 1 # 1 /\ i + 1 \in DOMAIN taskChan /\ taskChan'[i] = taskChan[i + 1]
  BY <1>1, TailEntries
<1>3. Pausable' = Pausable
  BY <1>1 DEF Pausable, Sole
<1>4. \A v \in Workers : Bound(v)' => v = w \/ (Bound(v) /\ cfg'[v] = cfg[v])
  BY <1>1, <1>3 DEF Bound
<1>5. \A c \in Callers : Giving(c)' = Giving(c)
  BY <1>1 DEF Giving
<1>6. ~Bound(w)
  BY <1>1 DEF Bound
<1>7. \A d : Given(d)' => Given(d)
  BY <1>1, <1>2, <1>5 DEF Given
<1>8. \A d \in Downloads : Astir(d)' => Astir(d)
  <2> SUFFICES ASSUME NEW d \in Downloads, Astir(d)' PROVE Astir(d)
    OBVIOUS
  <2>1. CASE Given(d)'
    BY <2>1, <1>7 DEF Astir
  <2>2. ASSUME NEW v \in Workers, cfg'[v] = d,
               pc'[v] \in Ahead \cup Inside \/ (Sole /\ pc'[v] \in Letting)
        PROVE  Astir(d)
    <3>1. CASE v = w
      BY <3>1, <2>2, <1>1, <1>2 DEF Astir, Given
    <3>2. CASE v # w
      BY <3>2, <2>2, <1>1 DEF Astir
    <3> QED BY <3>1, <3>2
  <2>3. Sole' = Sole
    BY DEF Sole
  <2> QED BY <2>1, <2>2, <2>3 DEF Astir
<1>9. Single'
  <2>1. \A i, j \in DOMAIN taskChan' : i # j => taskChan'[i] # taskChan'[j]
    BY <1>2 DEF Single
  <2>2. \A i \in DOMAIN taskChan', c \in Callers : Giving(c)' => cid'[c] # taskChan'[i]
    BY <1>1, <1>2, <1>5 DEF Single
  <2>3. \A i \in DOMAIN taskChan', v \in Workers : Bound(v)' => cfg'[v] # taskChan'[i]
    BY <1>1, <1>2, <1>4 DEF Single
  <2>4. \A c \in Callers, v \in Workers : Giving(c)' /\ Bound(v)' => cid'[c] # cfg'[v]
    BY <1>1, <1>2, <1>4, <1>5 DEF Single
  <2>5. \A u, v \in Workers : u # v /\ Bound(u)' /\ Bound(v)' => cfg'[u] # cfg'[v]
    BY <1>1, <1>2, <1>4 DEF Single
  <2>6. \A b, c \in Callers : b # c /\ Giving(b)' /\ Giving(c)' => cid'[b] # cid'[c]
    BY <1>1, <1>5 DEF Single
  <2> QED BY <2>1, <2>2, <2>3, <2>4, <2>5, <2>6 DEF Single
<1> QED BY <1>7, <1>8, <1>9

(* A caller puts its download into the channel.                            *)
LEMMA SendMoves ==
  ASSUME TypeOK, Held, Single, NEW c \in Callers, Send(c)
  PROVE  /\ Single'
         /\ \A d : (Given(d)' => Given(d)) /\ (Astir(d)' => Astir(d))
<1>1. /\ cpc[c] = "send" /\ cpc'[c] = "idle" /\ cid[c] \in Downloads
      /\ taskChan \in Seq(Downloads) /\ taskChan' = Append(taskChan, cid[c])
      /\ pc' = pc /\ cfg' = cfg /\ resumes' = resumes
      /\ \A b \in Callers \ {c} : cpc'[b] = cpc[b] /\ cid'[b] = cid[b]
  BY DEF Send, Return, CallTo, CallerKeeps, worker, history, TypeOK, Held
<1>2. \A i \in DOMAIN taskChan' :
        \/ i \in DOMAIN taskChan /\ taskChan'[i] = taskChan[i]
        \/ i = Len(taskChan) + 1 /\ taskChan'[i] = cid[c] /\ i \notin DOMAIN taskChan
  BY <1>1, AppendEntries
<1>3. \A w \in Workers : Bound(w)' = Bound(w)
  BY <1>1 DEF Bound, Pausable, Sole
<1>4. Giving(c) /\ ~Giving(c)' /\ \A b \in Callers \ {c} : Giving(b)' = Giving(b)
  BY <1>1 DEF Giving
<1>5. \A d : Given(d)' => Given(d)
  BY <1>1, <1>2, <1>4 DEF Given
<1>6. \A d : Astir(d)' => Astir(d)
  BY <1>1, <1>5 DEF Astir, Sole
<1>7. Single'
  <2>1. \A i, j \in DOMAIN taskChan' : i # j => taskChan'[i] # taskChan'[j]
    BY <1>2, <1>4 DEF Single
  <2>2. \A i \in DOMAIN taskChan', b \in Callers : Giving(b)' => cid'[b] # taskChan'[i]
    BY <1>1, <1>2, <1>4 DEF Single
  <2>3. \A i \in DOMAIN taskChan', v \in Workers : Bound(v)' => cfg'[v] # taskChan'[i]
    BY <1>1, <1>2, <1>3, <1>4 DEF Single
  <2>4. \A b \in Callers, v \in Workers : Giving(b)' /\ Bound(v)' => cid'[b] # cfg'[v]
    BY <1>1, <1>3, <1>4 DEF Single
  <2>5. \A u, v \in Workers : u # v /\ Bound(u)' /\ Bound(v)' => cfg'[u] # cfg'[v]
    BY <1>1, <1>3 DEF Single
  <2>6. \A a, b \in Callers : a # b /\ Giving(a)' /\ Giving(b)' => cid'[a] # cid'[b]
    BY <1>1, <1>4 DEF Single
  <2> QED BY <2>1, <2>2, <2>3, <2>4, <2>5, <2>6 DEF Single
<1> QED BY <1>5, <1>6, <1>7

(* A shutdown throws the first of the channel away.                        *)
LEMMA DrainMoves ==
  ASSUME TypeOK, Single, DrainChannel
  PROVE  /\ Single'
         /\ \A d : (Given(d)' => Given(d)) /\ (Astir(d)' => Astir(d))
<1>1. /\ pc' = pc /\ cfg' = cfg /\ cpc' = cpc /\ cid' = cid /\ resumes' = resumes
      /\ taskChan \in Seq(Downloads)
      /\ taskChan' = taskChan \/ (taskChan # <<>> /\ taskChan' = Tail(taskChan))
  BY DEF DrainChannel, ShutKeeps, worker, caller, history, TypeOK
<1>2. CASE taskChan' = taskChan
  <2>1. Narrows
    BY <1>1, <1>2 DEF Narrows, Giving
  <2> QED BY <2>1, NarrowKeeps
<1>3. CASE taskChan # <<>> /\ taskChan' = Tail(taskChan)
  <2>1. \A i \in DOMAIN taskChan' :
          i \in Nat /\ i + 1 # 1 /\ i + 1 \in DOMAIN taskChan /\ taskChan'[i] = taskChan[i + 1]
    BY <1>1, <1>3, TailEntries
  <2>2. /\ \A w \in Workers : Bound(w)' = Bound(w)
        /\ \A c \in Callers : Giving(c)' = Giving(c)
    BY <1>1 DEF Bound, Giving, Pausable, Sole
  <2>3. \A d : Given(d)' => Given(d)
    BY <1>1, <2>1, <2>2 DEF Given
  <2>4. \A d : Astir(d)' => Astir(d)
    BY <1>1, <2>3 DEF Astir, Sole
  <2>5. \A i, j \in DOMAIN taskChan' : i # j => taskChan'[i] # taskChan'[j]
    BY <2>1 DEF Single
  <2>6. Single'
    BY <1>1, <2>1, <2>2, <2>5 DEF Single
  <2> QED BY <2>3, <2>4, <2>6
<1> QED BY <1>1, <1>2, <1>3

(* A caller begins to hand d over: nobody else had it.                     *)
LEMMA GiveMoves ==
  ASSUME TypeOK, Single, NEW c \in Callers, NEW d \in Downloads,
         cpc[c] = "idle",
         taskChan' = taskChan, pc' = pc, cfg' = cfg,
         cpc' = [cpc EXCEPT ![c] = "add"], cid' = [cid EXCEPT ![c] = d],
         \A w \in Workers : Bound(w)' => Bound(w) /\ cfg[w] # d,
         ~Given(d)
  PROVE  /\ Single'
         /\ \A e : Given(e)' => Given(e) \/ e = d
         /\ \A e \in Downloads : Astir(e)' => Astir(e) \/ e = d
<1>1. /\ cid'[c] = d /\ ~Giving(c)
      /\ \A b \in Callers \ {c} : cid'[b] = cid[b] /\ Giving(b)' = Giving(b)
  BY DEF Giving, TypeOK
<1>2. \A e : Given(e)' => Given(e) \/ e = d
  BY <1>1 DEF Given
<1>3. \A e \in Downloads : Astir(e)' => Astir(e) \/ e = d
  BY <1>2 DEF Astir, Sole
<1>4. Single'
  <2>1. \A i \in DOMAIN taskChan, b \in Callers : Giving(b)' => cid'[b] # taskChan[i]
    BY <1>1 DEF Single, Given
  <2>2. \A b \in Callers, w \in Workers : Giving(b)' /\ Bound(w)' => cid'[b] # cfg[w]
    BY <1>1 DEF Single
  <2>3. \A a, b \in Callers : a # b /\ Giving(a)' /\ Giving(b)' => cid'[a] # cid'[b]
    BY <1>1 DEF Single, Given
  <2> QED BY <2>1, <2>2, <2>3 DEF Single
<1> QED BY <1>2, <1>3, <1>4

(* What a worker does to the map and to the flag of a pause.               *)
LEMMA WorkMaps ==
  ASSUME TypeOK, NEW w \in Workers, WorkerStep(w)
  PROVE  /\ added' = added /\ resumes' = resumes /\ shut' = shut
         /\ \/ downloads' = downloads
            \/ downloads' = [downloads EXCEPT ![cfg[w]] = 0]
            \/ Register(w) /\ downloads' = [downloads EXCEPT ![cfg[w]] = ad[w]]
         /\ Paused' = Paused \/ Paused' = [Paused EXCEPT ![cfg[w]] = FALSE]
<1>1. CASE Receive(w) \/ Exit(w) \/ CheckQueued(w) \/ Start(w) \/ Register(w)
  BY <1>1 DEF Receive, Exit, CheckQueued, Start, Register, WorkerKeeps, history, shutdown, pool,
              states, flags
<1>2. CASE \/ TransferEnds(w) \/ BootstrapCanceled(w) \/ AskPaused(w)
           \/ HandlePause(w) \/ CheckContext(w)
  BY <1>2 DEF TransferEnds, BootstrapCanceled, AskPaused, HandlePause, CheckContext,
              EngineKeeps, WorkerKeeps, history, shutdown, pool, flags
<1>3. CASE \/ ConcurrentFails(w) \/ ResetPaused(w) \/ ResetPausing(w)
           \/ SingleEnds(w) \/ Report(w)
  BY <1>3 DEF ConcurrentFails, ResetPaused, ResetPausing, SingleEnds, Report,
              EngineKeeps, WorkerKeeps, history, shutdown, pool, flags
<1>4. CASE \/ NotRunning(w) \/ ReadPaused(w) \/ ClearPausing(w)
           \/ Settle(w) \/ Forget(w) \/ Leave(w)
  BY <1>4 DEF NotRunning, ReadPaused, ClearPausing, Settle, Forget, Leave,
              WorkerKeeps, history, shutdown, pool, states, flags
<1>5. QED
  BY <1>1, <1>2, <1>3, <1>4 DEF WorkerStep

Clean(d) ==
  /\ downloads[d] = 0 /\ ~Paused[d]
  /\ \A i \in DOMAIN taskChan : taskChan[i] # d
  /\ \A c \in Callers : cpc[c] # "idle" => cid[c] # d
  /\ \A w \in Workers : pc[w] \notin {"recv", "gone"} => cfg[w] # d

LEMMA UntouchedStep ==
  ASSUME TypeOK, Held, Untouched, [Next]_vars
  PROVE  Untouched'
<1> SUFFICES ASSUME NEW d \in Downloads, d \notin added' PROVE Clean(d)'
  BY DEF Untouched, Clean
<1> USE DEF Clean
<1>1. ASSUME NEW w \in Workers, WorkerStep(w)
      PROVE  Clean(d)'
  <2>1. Clean(d)
    BY <1>1, WorkMaps DEF Untouched
  <2>2. cpc' = cpc /\ cid' = cid /\ \A v \in Workers \ {w} : pc'[v] = pc[v] /\ cfg'[v] = cfg[v]
    BY <1>1, OthersStay DEF caller
  <2>3. CASE Receive(w)
    <3>1. /\ taskChan \in Seq(Downloads) /\ taskChan # <<>> /\ taskChan' = Tail(taskChan)
          /\ cfg'[w] = Head(taskChan) /\ downloads' = downloads /\ Paused' = Paused
      BY <2>3 DEF Receive, states, flags, TypeOK
    <3>2. /\ cfg'[w] # d
          /\ \A i \in DOMAIN taskChan' : taskChan'[i] # d
      BY <2>1, <3>1, TailEntries
    <3> QED BY <2>1, <2>2, <3>1, <3>2
  <2>4. CASE ~Receive(w)
    <3>1. taskChan' = taskChan
          /\ (pc'[w] \notin {"recv", "gone"} => pc[w] \notin {"recv", "gone"} /\ cfg'[w] = cfg[w])
      BY <1>1, <2>4, WorkKeeps
    <3>2. downloads'[d] = 0
      <4>1. CASE downloads' = downloads \/ downloads' = [downloads EXCEPT ![cfg[w]] = 0]
        BY <2>1, <4>1 DEF TypeOK
      <4>2. CASE Register(w) /\ downloads' = [downloads EXCEPT ![cfg[w]] = ad[w]]
        <5>1. cfg[w] # d
          BY <2>1, <4>2 DEF Register
        <5> QED BY <2>1, <4>2, <5>1 DEF TypeOK
      <4> QED BY <1>1, <4>1, <4>2, WorkMaps
    <3>3. ~Paused'[d]
      BY <1>1, <2>1, WorkMaps DEF TypeOK
    <3> QED BY <2>1, <2>2, <3>1, <3>2, <3>3
  <2> QED BY <2>3, <2>4
<1>2. ASSUME NEW c \in Callers, CallerStep(c)
      PROVE  Clean(d)'
  <2>1. /\ added' = added /\ downloads' = downloads /\ pc' = pc /\ cfg' = cfg
        /\ Paused' = Paused \/ (cpc[c] # "idle" /\ Paused' = [Paused EXCEPT ![cid[c]] = TRUE])
    BY <1>2 DEF CallerStep, Add, Send, SendPanics, PauseSeen, PauseUnderWay, PauseMark, PauseFlag,
       PauseCancel, CancelStop, CancelDone, CallerKeeps, pool, worker, history, states, flags
  <2>2. Clean(d)
    BY <2>1 DEF Untouched
  <2>3. \A b \in Callers : cpc'[b] # "idle" => cpc[b] # "idle" /\ cid'[b] = cid[b]
    BY <1>2 DEF CallerStep, Add, Send, SendPanics, PauseSeen, PauseUnderWay,
       PauseMark, PauseFlag, PauseCancel, CancelStop, CancelDone, CallTo,
       Return, CallerKeeps, caller, TypeOK
  <2>4. \A i \in DOMAIN taskChan' : taskChan'[i] # d
    <3>1. CASE Send(c)
      <4>1. /\ taskChan \in Seq(Downloads) /\ cid[c] \in Downloads /\ cpc[c] # "idle"
            /\ taskChan' = Append(taskChan, cid[c])
        BY <3>1 DEF Send, TypeOK, Held
      <4> QED BY <2>2, <4>1, AppendEntries
    <3>2. CASE ~Send(c)
      BY <1>2, <2>2, <3>2, CallNarrows DEF Narrows
    <3> QED BY <3>1, <3>2
  <2>5. ~Paused'[d]
    BY <2>1, <2>2 DEF TypeOK
  <2> QED BY <2>1, <2>2, <2>3, <2>4, <2>5
<1>3. ASSUME NEW c \in Callers, NEW e \in Downloads, Call(c, e)
      PROVE  Clean(d)'
  <2>1. /\ pc' = pc /\ cfg' = cfg /\ taskChan' = taskChan /\ added \subseteq added'
        /\ Paused' = Paused \/ Paused' = [Paused EXCEPT ![e] = FALSE]
        /\ downloads' = downloads \/ downloads' = [downloads EXCEPT ![e] = 0]
    BY <1>3 DEF Call, Enqueue, PauseLookup, ExtractPausedConfig, Cancel,
       CallerKeeps, pool, worker, history, states, flags
  <2>2. Clean(d)
    BY <2>1 DEF Untouched
  <2>3. \A b \in Callers : cpc'[b] # "idle" =>
           \/ cid'[b] = e /\ (e \in added' \/ downloads[e] # 0)
           \/ cpc[b] # "idle" /\ cid'[b] = cid[b]
    BY <1>3 DEF Call, Enqueue, PauseLookup, ExtractPausedConfig, Extractable, Cancel, CallTo,
       CallerKeeps, caller, TypeOK
  <2>4. downloads'[d] = 0 /\ ~Paused'[d]
    BY <2>1, <2>2 DEF TypeOK
  <2> QED BY <2>1, <2>2, <2>3, <2>4
<1>4. CASE PauseAll \/ ShutdownStep \/ UNCHANGED vars
  <2>1. /\ pc' = pc /\ cfg' = cfg /\ cpc' = cpc /\ cid' = cid /\ downloads' = downloads
        /\ Paused' = Paused /\ added' = added
        /\ taskChan' = taskChan \/ (taskChan # <<>> /\ taskChan' = Tail(taskChan))
    BY <1>4 DEF PauseAll, ShutdownStep, ClearQueued, DrainChannel, WaitPausing, Close, ShutKeeps,
       vars, pool, worker, caller, history, states, flags
  <2>2. Clean(d)
    BY <2>1 DEF Untouched
  <2>3. \A i \in DOMAIN taskChan' : taskChan'[i] # d
    BY <2>1, <2>2, TailEntries DEF TypeOK
  <2> QED BY <2>1, <2>2, <2>3
<1> QED BY <1>1, <1>2, <1>3, <1>4 DEF Next

LEMMA OpenStep ==
  ASSUME OpenWhileSole, [Next]_vars
  PROVE  OpenWhileSole'
<1> SUFFICES ASSUME Sole, shut = "no" PROVE shut' = "no"
  BY DEF OpenWhileSole, Sole
<1>1. ASSUME NEW w \in Workers, WorkerStep(w) PROVE shut' = shut
  BY <1>1 DEF WorkerStep, Receive, Exit, CheckQueued, Start, Register,
     TransferEnds, BootstrapCanceled, AskPaused, HandlePause, CheckContext,
     ConcurrentFails, ResetPaused, ResetPausing, SingleEnds, Report,
     NotRunning, ReadPaused, ClearPausing, Settle, Forget, Leave,
     WorkerKeeps, EngineKeeps, shutdown
<1>2. ASSUME NEW c \in Callers, CallerStep(c) \/ \E d \in Downloads : Call(c, d) PROVE shut' = shut
  BY <1>2 DEF CallerStep, Add, Send, SendPanics, PauseSeen, PauseUnderWay, PauseMark, PauseFlag,
     PauseCancel, CancelStop, CancelDone, Call, Enqueue, PauseLookup, ExtractPausedConfig, Cancel,
     shutdown
<1>3. ~PauseAll /\ ~ShutdownStep
  BY DEF Sole, PauseAll, ShutdownStep, ClearQueued, DrainChannel, WaitPausing, Close
<1> QED BY <1>1, <1>2, <1>3 DEF Next, vars, shutdown

-----------------------------------------------------------------------------
(* A step keeps whose an activeDownload is; only its own worker says that  *)
(* it stops running, and only a pause or a removal of it that its context  *)
(* is done.                                                                *)
Cancels(c, r) ==
  \/ cpc[c] = "pausing?" /\ Pausing[cid[c]] /\ r = cad[c]
  \/ cpc[c] = "cancel" /\ r \in {cad[c], cancelFunc[cid[c]]}
  \/ cpc[c] = "stop" /\ r = cad[c]

LEMMA AdsKept ==
  ASSUME TypeOK, [Next]_vars
  PROVE  \A r \in 1..Len(ads) :
           /\ ads'[r].id = ads[r].id
           /\ ads'[r].running = ads[r].running \/ \E w \in Workers : NotRunning(w) /\ r = ad[w]
           /\ ads[r].ctxDone => ads'[r].ctxDone
           /\ ads'[r].ctxDone => ads[r].ctxDone \/ \E c \in Callers : CallerStep(c) /\ Cancels(c, r)
<1>0. /\ ads \in Seq(AD) /\ Len(ads) \in Nat /\ DOMAIN ads = 1..Len(ads)
      /\ \A r \in 1..Len(ads) : ads[r] \in AD
  BY LenProperties DEF TypeOK
<1>1. ASSUME NEW rs, ads' = Cancelled(rs)
      PROVE  \A r \in 1..Len(ads) :
               /\ ads'[r].id = ads[r].id /\ ads'[r].running = ads[r].running
               /\ ads[r].ctxDone => ads'[r].ctxDone
               /\ ads'[r].ctxDone => ads[r].ctxDone \/ r \in rs
  BY <1>0, <1>1 DEF Cancelled, AD
<1>2. ASSUME NEW w \in Workers, Start(w)
      PROVE  \A r \in 1..Len(ads) : ads'[r] = ads[r]
  <2>1. cfg[w] \in Downloads \cup {NoDownload}
        /\ ads' = Append(ads, [id |-> cfg[w], running |-> TRUE, ctxDone |-> FALSE])
    BY <1>2 DEF Start, TypeOK
  <2> QED BY <1>0, <2>1
<1>3. ASSUME NEW w \in Workers, NotRunning(w)
      PROVE  \A r \in 1..Len(ads) :
               /\ ads'[r].id = ads[r].id /\ ads'[r].ctxDone = ads[r].ctxDone
               /\ r # ad[w] => ads'[r].running = ads[r].running
  BY <1>0, <1>3 DEF NotRunning, AD
<1>4. ASSUME NEW w \in Workers, WorkerStep(w), ~Start(w), ~NotRunning(w)
      PROVE  ads' = ads
  BY <1>4 DEF WorkerStep, Receive, Exit, CheckQueued, Register,
     TransferEnds, BootstrapCanceled, AskPaused, HandlePause, CheckContext,
     ConcurrentFails, ResetPaused, ResetPausing, SingleEnds, Report,
     ReadPaused, ClearPausing, Settle, Forget, Leave, EngineKeeps
<1>5. ASSUME NEW c \in Callers, CallerStep(c)
      PROVE  ads' = ads \/ \E rs : ads' = Cancelled(rs) /\ \A r \in rs : Cancels(c, r)
  <2>1. CASE PauseUnderWay(c) /\ Pausing[cid[c]]
    <3>1. ads' = Cancelled({cad[c]}) /\ \A r \in {cad[c]} : Cancels(c, r)
      BY <2>1 DEF PauseUnderWay, Cancels
    <3> QED BY <3>1
  <2>2. CASE PauseCancel(c)
    <3>1. ads' = Cancelled({cad[c], cancelFunc[cid[c]]})
          /\ \A r \in {cad[c], cancelFunc[cid[c]]} : Cancels(c, r)
      BY <2>2 DEF PauseCancel, Cancels
    <3> QED BY <3>1
  <2>3. CASE CancelStop(c)
    <3>1. ads' = Cancelled({cad[c]}) /\ \A r \in {cad[c]} : Cancels(c, r)
      BY <2>3 DEF CancelStop, Cancels
    <3> QED BY <3>1
  <2>4. CASE ~PauseCancel(c) /\ ~CancelStop(c) /\ ~(PauseUnderWay(c) /\ Pausing[cid[c]])
    BY <1>5, <2>4 DEF CallerStep, Add, Send, SendPanics, PauseSeen, PauseUnderWay, PauseMark,
       PauseFlag, CancelDone
  <2> QED BY <2>1, <2>2, <2>3, <2>4
<1>6. ASSUME \/ \E c \in Callers, d \in Downloads : Call(c, d)
             \/ PauseAll \/ ShutdownStep \/ UNCHANGED vars
      PROVE  ads' = ads
  BY <1>6 DEF Call, Enqueue, PauseLookup, ExtractPausedConfig, Cancel, PauseAll, ShutdownStep,
     ClearQueued, DrainChannel, WaitPausing, Close, ShutKeeps, vars
<1>7. CASE ads' = ads
  BY <1>7
<1>8. CASE \E c \in Callers : CallerStep(c)
  <2>1. PICK c \in Callers : CallerStep(c)
    BY <1>8
  <2>2. CASE \E rs : ads' = Cancelled(rs) /\ \A r \in rs : Cancels(c, r)
    <3>1. PICK rs : ads' = Cancelled(rs) /\ \A r \in rs : Cancels(c, r)
      BY <2>2
    <3> QED BY <1>1, <2>1, <3>1
  <2> QED BY <1>5, <1>7, <2>1, <2>2
<1>9. CASE \E w \in Workers : WorkerStep(w)
  <2>1. PICK w \in Workers : WorkerStep(w)
    BY <1>9
  <2> QED BY <1>2, <1>3, <1>4, <1>7, <2>1
<1> QED BY <1>6, <1>7, <1>8, <1>9 DEF Next

(* Which activeDownload a worker has, and how it gets on, but for failures. *)
LEMMA WorkOwns ==
  ASSUME TypeOK, Held, NoFailure, errors' = errors, NEW w \in Workers, WorkerStep(w)
  PROVE  /\ \A v \in Workers \ {w} : ad'[v] = ad[v]
         /\ pc'[w] \in Ahead => pc[w] \in Ahead \/ Receive(w)
         /\ pc'[w] \in Inside => pc[w] \in Inside \/ (Register(w) /\ pc[w] = "register")
         /\ pc'[w] \in {"register"} \cup Inside => ad'[w] = ad[w] \/ Start(w)
         /\ pc'[w] = "register" => Start(w)
         /\ NotRunning(w) => pc'[w] = "stopped"
         /\ Start(w) => /\ pc'[w] = "register" /\ cfg'[w] = cfg[w] /\ ad'[w] = Len(ads) + 1
                        /\ ads'[Len(ads) + 1].id = cfg[w] /\ ads'[Len(ads) + 1].running
                        /\ ~ads'[Len(ads) + 1].ctxDone
<1> USE DEF Ahead, Inside
<1>0. ASSUME NEW l, GoTo(w, l)
      PROVE  pc'[w] = l
  BY <1>0 DEF GoTo, TypeOK
<1>1. ~ConcurrentFails(w) /\ ~ResetPaused(w) /\ ~ResetPausing(w)
  <2>1. errors \in Nat
    BY DEF TypeOK
  <2>2. errors + 1 # errors
    BY <2>1
  <2>3. QED
    BY <2>2 DEF NoFailure, ConcurrentFails, ResetPaused, ResetPausing
<1>2. CASE Receive(w) \/ Exit(w) \/ CheckQueued(w) \/ Register(w)
  BY <1>0, <1>2 DEF Receive, Exit, CheckQueued, Register, Start, NotRunning, TypeOK
<1>3. CASE Start(w)
  <2>1. /\ pc[w] = "start" /\ pc'[w] = "register" /\ cfg' = cfg
        /\ ads' = Append(ads, [id |-> cfg[w], running |-> TRUE, ctxDone |-> FALSE])
        /\ ad' = [ad EXCEPT ![w] = Len(ads')] /\ cfg[w] \in Downloads
    BY <1>0, <1>3 DEF Start, Held
  <2>2. [id |-> cfg[w], running |-> TRUE, ctxDone |-> FALSE] \in AD
    BY <2>1 DEF AD
  <2>3. /\ Len(ads') = Len(ads) + 1
        /\ ads'[Len(ads) + 1] = [id |-> cfg[w], running |-> TRUE, ctxDone |-> FALSE]
    BY <2>1, <2>2, AppendProperties DEF TypeOK
  <2>4. ad'[w] = Len(ads) + 1 /\ \A v \in Workers \ {w} : ad'[v] = ad[v]
    BY <2>1, <2>3 DEF TypeOK
  <2> QED BY <1>3, <2>1, <2>3, <2>4 DEF NotRunning
<1>4. CASE \/ TransferEnds(w) \/ BootstrapCanceled(w) \/ AskPaused(w)
           \/ HandlePause(w) \/ CheckContext(w)
  BY <1>0, <1>4 DEF TransferEnds, BootstrapCanceled, AskPaused, HandlePause, CheckContext,
     EngineKeeps, Start, NotRunning
<1>5. CASE SingleEnds(w) \/ Report(w)
  BY <1>0, <1>5 DEF SingleEnds, Report, EngineKeeps, Start, NotRunning
<1>6. CASE \/ NotRunning(w) \/ ReadPaused(w) \/ ClearPausing(w)
           \/ Settle(w) \/ Forget(w) \/ Leave(w)
  BY <1>0, <1>6 DEF NotRunning, ReadPaused, ClearPausing, Settle, Forget, Leave, Start, TypeOK
<1> QED BY <1>1, <1>2, <1>3, <1>4, <1>5, <1>6 DEF WorkerStep

LEMMA OwnedStep ==
  ASSUME TypeOK, Held, Single, NoFailure, Owned, errors' = errors, [Next]_vars
  PROVE  Owned'
<1> USE DEF Inside
<1>0. ASSUME NEW v \in Workers, pc[v] \in {"register"} \cup Inside
      PROVE  ad[v] \in 1..Len(ads) /\ ads[ad[v]].id = cfg[v] /\ ads[ad[v]].running
  <2>1. Len(ads) \in Nat /\ ad[v] \in 0..Len(ads) /\ ad[v] # 0
    BY <1>0, LenProperties DEF TypeOK, Owned
  <2> QED BY <1>0, <2>1 DEF Owned
<1>1. ASSUME NEW v \in Workers, pc[v] \in {"register"} \cup Inside, ad'[v] = ad[v],
             cfg'[v] = cfg[v],
             \A w \in Workers : NotRunning(w) => ad[w] # ad[v]
      PROVE  ad'[v] # 0 /\ ads'[ad'[v]].id = cfg'[v] /\ ads'[ad'[v]].running
  <2>1. ad[v] # 0
    BY <1>0, <1>1
  <2> QED BY <1>0, <1>1, <2>1, AdsKept
<1>2. ASSUME NEW w \in Workers, WorkerStep(w)
      PROVE  Owned'
  <2> SUFFICES ASSUME NEW v \in Workers, pc'[v] \in {"register"} \cup Inside
               PROVE  ad'[v] # 0 /\ ads'[ad'[v]].id = cfg'[v] /\ ads'[ad'[v]].running
    BY DEF Owned
  <2>1. CASE v = w
    <3>1. CASE Start(w)
      <4>1. Len(ads) \in Nat
        BY LenProperties DEF TypeOK
      <4> QED BY <1>2, <2>1, <3>1, <4>1, WorkOwns
    <3>2. CASE ~Start(w)
      <4>1. ad'[w] = ad[w] /\ pc[w] \in {"register"} \cup Inside /\ ~NotRunning(w) /\ ~Receive(w)
        BY <1>2, <2>1, <3>2, WorkOwns DEF Receive
      <4>2. cfg'[w] = cfg[w]
        BY <1>2, <4>1, <2>1, WorkKeeps
      <4>3. \A x \in Workers : ~NotRunning(x) \/ x # w
        BY <4>1
      <4>4. ASSUME NEW x \in Workers, NotRunning(x) PROVE ad[x] # ad[w]
        <5>1. pc[x] = "returned" /\ x # w
          BY <4>1, <4>4 DEF NotRunning
        <5>2. cfg[x] # cfg[w]
          BY <4>1, <5>1 DEF Single, Bound, Ahead
        <5> QED BY <1>0, <4>1, <5>1, <5>2
      <4> QED BY <1>1, <2>1, <4>1, <4>2, <4>4
    <3> QED BY <3>1, <3>2
  <2>2. CASE v # w
    <3>1. pc'[v] = pc[v] /\ cfg'[v] = cfg[v] /\ ad'[v] = ad[v]
      BY <1>2, <2>2, OthersStay, WorkOwns
    <3>2. ASSUME NEW x \in Workers, NotRunning(x) PROVE ad[x] # ad[v]
      <4>1. pc[x] = "returned" /\ pc'[x] = "stopped"
        BY <3>2 DEF NotRunning, GoTo, TypeOK
      <4>2. x = w
        BY <1>2, <4>1, OthersStay
      <4>3. cfg[x] # cfg[v]
        BY <2>2, <3>1, <4>1, <4>2 DEF Single, Bound, Ahead
      <4> QED BY <1>0, <3>1, <4>1, <4>3
    <3> QED BY <1>1, <3>1, <3>2
  <2> QED BY <2>1, <2>2
<1>3. CASE pc' = pc /\ cfg' = cfg /\ ad' = ad
  <2>1. ASSUME NEW w \in Workers PROVE ~NotRunning(w)
    BY <1>3, <2>1 DEF NotRunning, GoTo, TypeOK
  <2>2. \A v \in Workers : pc'[v] \in {"register"} \cup Inside =>
          ad'[v] # 0 /\ ads'[ad'[v]].id = cfg'[v] /\ ads'[ad'[v]].running
    BY <1>1, <1>3, <2>1
  <2> QED BY <2>2 DEF Owned
<1>4. (\E w \in Workers : WorkerStep(w)) \/ (pc' = pc /\ cfg' = cfg /\ ad' = ad)
  <2>1. ASSUME NEW c \in Callers, CallerStep(c)
        PROVE  pc' = pc /\ cfg' = cfg /\ ad' = ad
    BY <2>1 DEF CallerStep, Add, Send, SendPanics, PauseSeen, PauseUnderWay, PauseMark, PauseFlag,
       PauseCancel, CancelStop, CancelDone, CallerKeeps, worker
  <2>2. ASSUME NEW c \in Callers, NEW d \in Downloads, Call(c, d)
        PROVE  pc' = pc /\ cfg' = cfg /\ ad' = ad
    BY <2>2 DEF Call, Enqueue, PauseLookup, ExtractPausedConfig, Cancel, CallerKeeps, worker
  <2>3. ASSUME PauseAll \/ ShutdownStep \/ UNCHANGED vars
        PROVE  pc' = pc /\ cfg' = cfg /\ ad' = ad
    BY <2>3 DEF PauseAll, ShutdownStep, ClearQueued, DrainChannel, WaitPausing, Close, ShutKeeps,
       vars, worker
  <2> QED BY <2>1, <2>2, <2>3 DEF Next
<1> QED BY <1>2, <1>3, <1>4

-----------------------------------------------------------------------------
(* Only an enqueue and a resume give a download out.                       *)
Stays ==
  /\ Single' /\ resumes' = resumes /\ NoFailure'
  /\ \A d : Given(d)' => Given(d)
  /\ \A d \in Downloads : Astir(d)' => Astir(d)

LEMMA StepStays ==
  ASSUME TypeOK, Held, Single, NoFailure, errors' = errors, [Next]_vars,
         \A c \in Callers, d \in Downloads : ~Enqueue(c, d) /\ ~ExtractPausedConfig(c, d)
  PROVE  Stays
<1>1. ASSUME NEW w \in Workers, Receive(w) PROVE Stays
  <2>1. /\ pc'[w] = "check" /\ resumes' = resumes
        /\ \A v \in Workers \ {w} : pc'[v] = pc[v]
    BY <1>1 DEF Receive, GoTo, WorkerKeeps, history, TypeOK
  <2>2. NoFailure'
    BY <2>1 DEF NoFailure
  <2> QED BY <1>1, <2>1, <2>2, ReceiveMoves DEF Stays
<1>2. ASSUME NEW w \in Workers, WorkerStep(w), ~Receive(w) PROVE Stays
  BY <1>2, WorkNarrows, NarrowKeeps DEF Stays, Narrows
<1>3. ASSUME NEW c \in Callers, Send(c) PROVE Stays
  <2>1. pc' = pc /\ resumes' = resumes
    BY <1>3 DEF Send, CallerKeeps, worker, history
  <2> QED BY <1>3, <2>1, SendMoves DEF Stays, NoFailure
<1>4. CASE DrainChannel
  <2>1. pc' = pc /\ resumes' = resumes
    BY <1>4 DEF DrainChannel, ShutKeeps, worker, history
  <2> QED BY <1>4, <2>1, DrainMoves DEF Stays, NoFailure
<1>5. CASE Narrows /\ pc' = pc
  BY <1>5, NarrowKeeps DEF Stays, Narrows, NoFailure
<1>6. ASSUME NEW c \in Callers, CallerStep(c) PROVE Stays
  <2>1. CASE Send(c)
    BY <1>3, <2>1
  <2>2. CASE ~Send(c)
    BY <1>5, <1>6, <2>2, CallNarrows
  <2> QED BY <2>1, <2>2
<1>7. ASSUME NEW c \in Callers, NEW d \in Downloads, Call(c, d) PROVE Stays
  BY <1>5, <1>7, CallNarrows DEF Call
<1>8. CASE PauseAll \/ ClearQueued \/ WaitPausing \/ Close \/ UNCHANGED vars
  BY <1>5, <1>8, CallNarrows
<1> QED BY <1>1, <1>2, <1>4, <1>6, <1>7, <1>8 DEF Next, ShutdownStep

(* An enqueue gives out what was nowhere.                                  *)
LEMMA EnqueueGives ==
  ASSUME TypeOK, Single, Untouched, NoFailure, NEW c \in Callers, NEW d \in Downloads, Enqueue(c, d)
  PROVE  /\ Single' /\ NoFailure' /\ resumes' = resumes
         /\ downloads' = downloads /\ downloads[d] = 0
         /\ Paused' = Paused /\ Pausing' = Pausing /\ ~Paused[d]
         /\ \A e : Given(e)' => Given(e) \/ e = d
         /\ \A e \in Downloads : Astir(e)' => Astir(e) \/ e = d
         /\ \A b \in Callers : cpc'[b] = "flag" => cpc[b] = "flag" /\ cid'[b] = cid[b] /\ cid[b] # d
<1>1. /\ cpc[c] = "idle" /\ d \notin added /\ taskChan' = taskChan /\ pc' = pc /\ cfg' = cfg
      /\ cpc' = [cpc EXCEPT ![c] = "add"] /\ cid' = [cid EXCEPT ![c] = d]
      /\ resumes' = resumes /\ downloads' = downloads /\ Paused' = Paused /\ Pausing' = Pausing
  BY DEF Enqueue, CallTo, CallerKeeps, pool, worker, states, flags
<1>2. /\ downloads[d] = 0 /\ ~Paused[d] /\ ~Given(d)
      /\ \A b \in Callers : cpc[b] # "idle" => cid[b] # d
      /\ \A w \in Workers : pc[w] \notin {"recv", "gone"} => cfg[w] # d
  BY <1>1 DEF Untouched, Given, Giving
<1>3. \A w \in Workers : Bound(w)' => Bound(w) /\ cfg[w] # d
  BY <1>1, <1>2 DEF Bound, Pausable, Sole, Ahead, Inside, Letting
<1>4. \A b \in Callers : cpc'[b] = "flag" => cpc[b] = "flag" /\ cid'[b] = cid[b] /\ cid[b] # d
  BY <1>1, <1>2 DEF TypeOK
<1> QED BY <1>1, <1>2, <1>3, <1>4, GiveMoves DEF NoFailure

(* A resume gives out what is at rest, since it may still be paused again. *)
Resumable == Sole \/ MaxResumes \in {0, 1}

LEMMA ExtractGives ==
  ASSUME TypeOK, Single, Rested, NoFailure, Resumable,
         NEW c \in Callers, NEW d \in Downloads, ExtractPausedConfig(c, d)
  PROVE  /\ Single' /\ NoFailure' /\ Pausable /\ (Pausable' => Sole) /\ resumes' # 0
         /\ Paused[d] /\ ~Pausing[d] /\ ~Astir(d)
         /\ Paused' = [Paused EXCEPT ![d] = FALSE] /\ Pausing' = Pausing
         /\ \A e \in Downloads : Astir(e)' => Astir(e) \/ e = d
         /\ Sole => \A b \in Callers : cpc'[b] # "flag"
<1>1. /\ cpc[c] = "idle" /\ Paused[d] /\ ~Pausing[d] /\ resumes < MaxResumes
      /\ taskChan' = taskChan /\ pc' = pc /\ cfg' = cfg
      /\ cpc' = [cpc EXCEPT ![c] = "add"] /\ cid' = [cid EXCEPT ![c] = d]
      /\ resumes' = resumes + 1 /\ Paused' = [Paused EXCEPT ![d] = FALSE] /\ Pausing' = Pausing
  BY DEF ExtractPausedConfig, Extractable, CallTo, CallerKeeps, worker
<1>2. resumes \in Nat /\ MaxResumes \in Nat
  BY PoolAssumption DEF TypeOK
<1>3. Pausable /\ resumes' # 0
  BY <1>1, <1>2 DEF Pausable, Resumable
<1>4. Pausable' => Sole
  BY <1>3 DEF Pausable, Sole
<1>5. ~Astir(d)
  BY <1>1, <1>3 DEF Rested
<1>6. \A w \in Workers : Bound(w)' => Bound(w) /\ cfg[w] # d
  BY <1>1, <1>3, <1>4, <1>5 DEF Bound, Astir
<1>7. ~Given(d)
  BY <1>5 DEF Astir
<1>8. Sole => \A b \in Callers : cpc'[b] # "flag"
  BY <1>1 DEF Sole, TypeOK
<1>9. /\ Single' /\ \A e \in Downloads : Astir(e)' => Astir(e) \/ e = d
  BY <1>1, <1>6, <1>7, GiveMoves
<1> QED BY <1>1, <1>3, <1>4, <1>5, <1>8, <1>9 DEF NoFailure

(* The map has the activeDownload of the worker, until something is        *)
(* resumed.                                                                *)
LEMMA MappedStep ==
  ASSUME TypeOK, Held, Single, Untouched, NoFailure, Mapped, Rested, Resumable,
         errors' = errors, [Next]_vars
  PROVE  Mapped'
<1> USE DEF Ahead, Inside
<1>0. resumes \in Nat
  BY DEF TypeOK
<1>1. ASSUME NEW c \in Callers, NEW d \in Downloads, ExtractPausedConfig(c, d)
      PROVE  Mapped'
  BY <1>1, ExtractGives DEF Mapped
<1>2. ASSUME NEW c \in Callers, NEW d \in Downloads, Enqueue(c, d)
      PROVE  Mapped'
  <2>1. pc' = pc /\ cfg' = cfg /\ ad' = ad
    BY <1>2 DEF Enqueue, CallerKeeps, worker
  <2> QED BY <1>2, <2>1, EnqueueGives DEF Mapped
<1>3. ASSUME Stays, NEW w \in Workers, WorkerStep(w)
      PROVE  Mapped'
  <2> SUFFICES ASSUME resumes' = 0, NEW d \in Downloads, downloads'[d] # 0
               PROVE  /\ ~Given(d)'
                      /\ \A v \in Workers : cfg'[v] = d =>
                           pc'[v] \notin Ahead /\ (pc'[v] \in Inside => downloads'[d] = ad'[v])
    BY DEF Mapped
  <2>0. resumes = 0
    BY <1>3 DEF Stays
  <2>1. CASE Register(w) /\ d = cfg[w]
    <3>1. /\ downloads'[d] = ad[w] /\ ad' = ad /\ pc[w] = "register"
          /\ pc'[w] \in {"concurrent", "single"} /\ cfg' = cfg
      BY <2>1 DEF Register, GoTo, TypeOK
    <3>2. Bound(w)
      BY <3>1 DEF Bound
    <3>3. ~Given(d)
      BY <2>1, <3>2 DEF Single, Given
    <3>4. ASSUME NEW v \in Workers, v # w, cfg'[v] = d PROVE pc'[v] \notin Ahead \cup Inside
      <4>1. pc'[v] = pc[v] /\ cfg[v] = cfg[w]
        BY <1>3, <2>1, <3>1, <3>4, OthersStay
      <4> QED BY <3>2, <3>4, <4>1 DEF Single, Bound
    <3> QED BY <1>3, <3>1, <3>3, <3>4 DEF Stays
  <2>2. CASE ~(Register(w) /\ d = cfg[w])
    <3>1. downloads'[d] = downloads[d]
      <4>1. \/ downloads' = downloads
            \/ downloads' = [downloads EXCEPT ![cfg[w]] = 0]
            \/ Register(w) /\ downloads' = [downloads EXCEPT ![cfg[w]] = ad[w]]
        BY <1>3, WorkMaps
      <4>2. downloads \in [Downloads -> 0..Len(ads)]
        BY DEF TypeOK
      <4> QED BY <2>2, <4>1, <4>2
    <3>2. ~Given(d) /\ \A v \in Workers : cfg[v] = d =>
            pc[v] \notin Ahead /\ (pc[v] \in Inside => downloads[d] = ad[v])
      BY <2>0, <3>1 DEF Mapped
    <3>3. ASSUME NEW v \in Workers, v # w, cfg'[v] = d
          PROVE  pc'[v] \notin Ahead /\ (pc'[v] \in Inside => downloads'[d] = ad'[v])
      <4>1. pc'[v] = pc[v] /\ cfg'[v] = cfg[v] /\ ad'[v] = ad[v]
        BY <1>3, <3>3, OthersStay, WorkOwns
      <4> QED BY <3>1, <3>2, <3>3, <4>1
    <3>4. ASSUME Receive(w) PROVE cfg'[w] # d
      <4>1. 1 \in DOMAIN taskChan /\ cfg'[w] = taskChan[1]
        BY <3>4, TailEntries DEF Receive, TypeOK
      <4> QED BY <3>2, <4>1 DEF Given
    <3>5. ASSUME cfg'[w] = d, pc'[w] \in Ahead PROVE FALSE
      <4>1. ~Receive(w) /\ pc[w] \in Ahead
        BY <1>3, <3>4, <3>5, WorkOwns
      <4>2. cfg'[w] = cfg[w]
        BY <1>3, <3>5, <4>1, WorkKeeps
      <4> QED BY <3>2, <3>5, <4>1, <4>2
    <3>6. ASSUME cfg'[w] = d, pc'[w] \in Inside PROVE downloads'[d] = ad'[w]
      <4>1. ~Receive(w)
        BY <3>4, <3>6
      <4>2. cfg[w] = d
        BY <1>3, <3>6, <4>1, WorkKeeps
      <4>3. pc[w] \in Inside /\ ad'[w] = ad[w]
        BY <1>3, <2>2, <3>6, <4>2, WorkOwns
      <4> QED BY <3>1, <3>2, <4>2, <4>3
    <3>7. \A v \in Workers : cfg'[v] = d =>
            pc'[v] \notin Ahead /\ (pc'[v] \in Inside => downloads'[d] = ad'[v])
      BY <3>3, <3>5, <3>6
    <3> QED BY <1>3, <3>2, <3>7 DEF Stays
  <2> QED BY <2>1, <2>2
<1>4. ASSUME Stays, pc' = pc, cfg' = cfg, ad' = ad,
             \A d \in Downloads : downloads'[d] \in {0, downloads[d]}
      PROVE  Mapped'
  BY <1>4 DEF Mapped, Stays
<1>5. ASSUME NEW c \in Callers, CallerStep(c)
      PROVE  pc' = pc /\ cfg' = cfg /\ ad' = ad /\ downloads' = downloads
  BY <1>5 DEF CallerStep, Add, Send, SendPanics, PauseSeen, PauseUnderWay, PauseMark, PauseFlag,
     PauseCancel, CancelStop, CancelDone, CallerKeeps, worker, pool
<1>6. ASSUME NEW c \in Callers, NEW d \in Downloads, PauseLookup(c, d) \/ Cancel(c, d)
      PROVE  /\ pc' = pc /\ cfg' = cfg /\ ad' = ad
             /\ \A e \in Downloads : downloads'[e] \in {0, downloads[e]}
  BY <1>6 DEF PauseLookup, Cancel, CallerKeeps, worker, pool, TypeOK
<1>7. ASSUME PauseAll \/ ShutdownStep \/ UNCHANGED vars
      PROVE  pc' = pc /\ cfg' = cfg /\ ad' = ad /\ downloads' = downloads
  BY <1>7 DEF PauseAll, ShutdownStep, ClearQueued, DrainChannel, WaitPausing, Close, ShutKeeps,
     vars, worker, pool
<1>8. CASE \A c \in Callers, d \in Downloads : ~Enqueue(c, d) /\ ~ExtractPausedConfig(c, d)
  <2>1. Stays
    BY <1>8, StepStays
  <2>2. ASSUME NEW c \in Callers, CallerStep(c) PROVE Mapped'
    BY <1>4, <1>5, <2>1, <2>2
  <2>3. ASSUME NEW c \in Callers, NEW d \in Downloads, Call(c, d) PROVE Mapped'
    BY <1>4, <1>6, <1>8, <2>1, <2>3 DEF Call
  <2>4. ASSUME PauseAll \/ ShutdownStep \/ UNCHANGED vars PROVE Mapped'
    BY <1>4, <1>7, <2>1, <2>4
  <2> QED BY <1>3, <2>1, <2>2, <2>3, <2>4 DEF Next
<1> QED BY <1>1, <1>2, <1>8

(* The worker that clears the flag of a pause is the last that has it.     *)
LEMMA ClearsAlone ==
  ASSUME TypeOK, Single, Stays, Pausable, NEW w \in Workers, ClearPausing(w),
         NEW d \in Downloads, d = cfg[w]
  PROVE  ~Astir(d)'
<1> USE DEF Ahead, Inside, Letting
<1>1. /\ pc[w] = "clear" /\ pc'[w] = "settle" /\ cfg' = cfg
      /\ \A v \in Workers \ {w} : pc'[v] = pc[v]
  BY DEF ClearPausing, GoTo, TypeOK
<1>2. Bound(w)
  BY <1>1 DEF Bound
<1>3. ~Given(d)
  BY <1>2 DEF Single, Given
<1>4. \A v \in Workers : v # w /\ pc[v] \in Ahead \cup Inside \cup Letting => cfg[v] # cfg[w]
  BY <1>2 DEF Single, Bound
<1>5. ~Given(d)'
  BY <1>1, <1>3 DEF Stays
<1> QED BY <1>1, <1>4, <1>5 DEF Astir

(* A shutdown sets right what no worker has.                               *)
LEMMA StaleRests ==
  ASSUME TypeOK, Owned, Mapped, ~Sole, resumes = 0, NEW d \in Stale
  PROVE  d \in Downloads /\ ~Astir(d)
<1>1. d \in Downloads /\ downloads[d] # 0 /\ ~ads[downloads[d]].running
  BY DEF Stale
<1>2. ASSUME NEW w \in Workers, cfg[w] = d PROVE pc[w] \notin Ahead \cup Inside
  BY <1>1, <1>2 DEF Mapped, Owned
<1> QED BY <1>1, <1>2 DEF Astir, Mapped

LEMMA RestedStep ==
  ASSUME TypeOK, Held, Single, Untouched, NoFailure, Owned, Mapped, OpenWhileSole, Rested, Flagged,
         Resumable, errors' = errors, [Next]_vars
  PROVE  Rested' /\ Flagged'
<1>1. ASSUME NEW c \in Callers, NEW d \in Downloads, ExtractPausedConfig(c, d)
      PROVE  Rested' /\ Flagged'
  <2>1. Rested'
    <3> SUFFICES ASSUME NEW e \in Downloads, Paused'[e], ~Pausing'[e], Astir(e)' PROVE FALSE
      BY DEF Rested
    <3>1. e # d
      BY <1>1, ExtractGives DEF TypeOK
    <3>2. Paused[e] /\ ~Pausing[e] /\ Astir(e) /\ Pausable
      BY <1>1, <3>1, ExtractGives DEF TypeOK
    <3> QED BY <3>2 DEF Rested
  <2>2. Flagged'
    BY <1>1, ExtractGives DEF Flagged
  <2> QED BY <2>1, <2>2
<1>2. ASSUME NEW c \in Callers, NEW d \in Downloads, Enqueue(c, d)
      PROVE  Rested' /\ Flagged'
  <2>0. Pausable' = Pausable
    BY <1>2, EnqueueGives DEF Pausable, Sole
  <2>1. Rested'
    BY <1>2, <2>0, EnqueueGives DEF Rested
  <2>2. ASSUME NEW b \in Callers, NEW e \in Downloads, cpc'[b] = "flag", cid'[b] = e, Pausable
        PROVE  Pausing'[e] \/ ~Astir(e)'
    <3>1. cpc[b] = "flag" /\ cid[b] = e /\ e # d /\ Pausing' = Pausing
      BY <1>2, <2>2, EnqueueGives
    <3> QED BY <1>2, <2>2, <3>1, EnqueueGives DEF Flagged
  <2> QED BY <2>0, <2>1, <2>2 DEF Flagged
<1>3. ASSUME Stays,
             Pausable => \A d \in Downloads :
               /\ Paused'[d] => Paused[d]
               /\ Pausing[d] => Pausing'[d] \/ ~Astir(d)',
             \A b \in Callers : cpc'[b] = "flag" => cpc[b] = "flag" /\ cid'[b] = cid[b]
      PROVE  Rested' /\ Flagged'
  <2>0. Pausable' = Pausable
    BY <1>3 DEF Pausable, Sole, Stays
  <2>1. Rested'
    BY <1>3, <2>0 DEF Rested, Stays
  <2>2. ASSUME NEW b \in Callers, NEW e \in Downloads, cpc'[b] = "flag", cid'[b] = e, Pausable
        PROVE  Pausing'[e] \/ ~Astir(e)'
    <3>1. cpc[b] = "flag" /\ cid[b] = e
      BY <1>3, <2>2
    <3> QED BY <1>3, <2>2, <3>1 DEF Flagged, Stays
  <2> QED BY <2>0, <2>1, <2>2 DEF Flagged
<1>4. ASSUME Stays, NEW w \in Workers, WorkerStep(w)
      PROVE  Rested' /\ Flagged'
  <2>0. Paused' = Paused \/ Paused' = [Paused EXCEPT ![cfg[w]] = FALSE]
    BY <1>4, WorkMaps
  <2>1. /\ \A d \in Downloads : Paused'[d] => Paused[d]
        /\ cpc' = cpc /\ cid' = cid
    BY <1>4, <2>0, OthersStay DEF TypeOK, caller
  <2>2. CASE ClearPausing(w)
    <3>1. cfg[w] \in Downloads /\ Pausing' = [Pausing EXCEPT ![cfg[w]] = FALSE]
      BY <2>2 DEF ClearPausing, Held
    <3>2. Pausable => \A d \in Downloads : Pausing[d] => Pausing'[d] \/ ~Astir(d)'
      <4>1. ASSUME NEW d \in Downloads, Pausable, Pausing[d], d # cfg[w] PROVE Pausing'[d]
        BY <3>1, <4>1 DEF TypeOK
      <4> QED BY <1>4, <2>2, <4>1, ClearsAlone
    <3> QED BY <1>3, <1>4, <2>1, <3>2
  <2>3. CASE ~ClearPausing(w)
    <3>1. ~ResetPausing(w)
      BY DEF NoFailure, ResetPausing
    <3>2. Pausing' = Pausing
      <4>1. CASE Receive(w) \/ Exit(w) \/ CheckQueued(w) \/ Start(w) \/ Register(w)
        BY <4>1 DEF Receive, Exit, CheckQueued, Start, Register, states, flags
      <4>2. CASE \/ TransferEnds(w) \/ BootstrapCanceled(w) \/ AskPaused(w)
                 \/ HandlePause(w) \/ CheckContext(w)
        BY <4>2 DEF TransferEnds, BootstrapCanceled, AskPaused, HandlePause, CheckContext, flags
      <4>3. CASE ConcurrentFails(w) \/ ResetPaused(w) \/ SingleEnds(w) \/ Report(w)
        BY <4>3 DEF ConcurrentFails, ResetPaused, SingleEnds, Report, flags
      <4>4. CASE NotRunning(w) \/ ReadPaused(w) \/ Settle(w) \/ Forget(w) \/ Leave(w)
        BY <4>4 DEF NotRunning, ReadPaused, Settle, Forget, Leave, states, flags
      <4> QED BY <1>4, <2>3, <3>1, <4>1, <4>2, <4>3, <4>4 DEF WorkerStep
    <3> QED BY <1>3, <1>4, <2>1, <3>2
  <2> QED BY <2>2, <2>3
<1>5. ASSUME Stays, NEW c \in Callers, CallerStep(c)
      PROVE  Rested' /\ Flagged'
  <2>0. Pausable' = Pausable
    BY <1>5 DEF Pausable, Sole, Stays
  <2>1. CASE PauseMark(c)
    <3>1. /\ Paused' = Paused /\ Pausing' = [Pausing EXCEPT ![cid[c]] = TRUE] /\ cid' = cid
          /\ \A b \in Callers : cpc'[b] = "flag" => b = c \/ cpc[b] = "flag"
          /\ cid[c] \in Downloads
      BY <2>1 DEF PauseMark, CallTo, TypeOK, Held
    <3>2. Rested'
      BY <1>5, <2>0, <3>1 DEF Rested, Stays, TypeOK
    <3>3. ASSUME NEW b \in Callers, NEW e \in Downloads, cpc'[b] = "flag", cid'[b] = e, Pausable
          PROVE  Pausing'[e] \/ ~Astir(e)'
      <4>1. CASE e = cid[c]
        BY <3>1, <4>1 DEF TypeOK
      <4>2. CASE e # cid[c]
        <5>1. cpc[b] = "flag" /\ cid[b] = e
          BY <3>1, <3>3, <4>2
        <5>2. Pausing'[e] = Pausing[e]
          BY <3>1, <4>2 DEF TypeOK
        <5> QED BY <1>5, <3>3, <5>1, <5>2 DEF Flagged, Stays
      <4> QED BY <4>1, <4>2
    <3> QED BY <2>0, <3>1, <3>2, <3>3 DEF Flagged
  <2>2. CASE PauseFlag(c)
    <3>1. /\ cpc[c] = "flag" /\ cid[c] \in Downloads
          /\ Paused' = [Paused EXCEPT ![cid[c]] = TRUE] /\ Pausing' = Pausing /\ cid' = cid
          /\ \A b \in Callers : cpc'[b] = "flag" => cpc[b] = "flag"
      BY <2>2 DEF PauseFlag, CallTo, TypeOK, Held
    <3>2. ASSUME NEW d \in Downloads, Paused'[d], ~Pausing'[d], Pausable
          PROVE  ~Astir(d)'
      <4>1. CASE d = cid[c]
        BY <1>5, <3>1, <3>2, <4>1 DEF Flagged, Stays
      <4>2. CASE d # cid[c]
        <5>1. Paused[d]
          BY <3>1, <3>2, <4>2 DEF TypeOK
        <5> QED BY <1>5, <3>1, <3>2, <5>1 DEF Rested, Stays
      <4> QED BY <4>1, <4>2
    <3>3. ASSUME NEW b \in Callers, NEW e \in Downloads, cpc'[b] = "flag", cid'[b] = e, Pausable
          PROVE  Pausing'[e] \/ ~Astir(e)'
      <4>1. cpc[b] = "flag" /\ cid[b] = e
        BY <3>1, <3>3
      <4> QED BY <1>5, <3>1, <3>3, <4>1 DEF Flagged, Stays
    <3> QED BY <2>0, <3>2, <3>3 DEF Rested, Flagged
  <2>3. CASE ~PauseMark(c) /\ ~PauseFlag(c)
    <3>1. Paused' = Paused /\ Pausing' = Pausing
      BY <1>5, <2>3 DEF CallerStep, Add, Send, SendPanics, PauseSeen, PauseUnderWay,
         PauseCancel, CancelStop, CancelDone, states, flags
    <3>2. \A b \in Callers : cpc'[b] = "flag" => cpc[b] = "flag" /\ cid'[b] = cid[b]
      BY <1>5, <2>3 DEF CallerStep, Add, Send, SendPanics, PauseSeen, PauseUnderWay,
         PauseCancel, CancelStop, CancelDone, CallTo, Return, TypeOK
    <3> QED BY <1>3, <1>5, <3>1, <3>2
  <2> QED BY <2>1, <2>2, <2>3
<1>6. ASSUME Stays, NEW c \in Callers, NEW d \in Downloads, PauseLookup(c, d) \/ Cancel(c, d)
      PROVE  Rested' /\ Flagged'
  <2>1. Paused' = Paused /\ Pausing' = Pausing
    BY <1>6 DEF PauseLookup, Cancel, states, flags
  <2>2. \A b \in Callers : cpc'[b] = "flag" => cpc[b] = "flag" /\ cid'[b] = cid[b]
    BY <1>6 DEF PauseLookup, Cancel, CallTo, caller, TypeOK
  <2> QED BY <1>3, <1>6, <2>1, <2>2
<1>7. ASSUME Stays, PauseAll \/ ClearQueued \/ DrainChannel \/ Close \/ UNCHANGED vars
      PROVE  Rested' /\ Flagged'
  <2>1. Paused' = Paused /\ Pausing' = Pausing /\ cpc' = cpc /\ cid' = cid
    BY <1>7 DEF PauseAll, ClearQueued, DrainChannel, Close, ShutKeeps, vars, caller, states, flags
  <2> QED BY <1>3, <1>7, <2>1
<1>8. ASSUME Stays, WaitPausing
      PROVE  Rested' /\ Flagged'
  <2>1. /\ Paused' = Paused /\ cpc' = cpc /\ cid' = cid
        /\ \A d \in Downloads : Pausing[d] => Pausing'[d] \/ d \in Stale
    BY <1>8 DEF WaitPausing, ShutKeeps, caller
  <2>2. ~Sole
    BY <1>8 DEF OpenWhileSole, WaitPausing
  <2>3. Pausable => \A d \in Downloads : Pausing[d] => Pausing'[d] \/ ~Astir(d)'
    BY <1>8, <2>1, <2>2, StaleRests DEF Pausable, Stays
  <2> QED BY <1>3, <1>8, <2>1, <2>3
<1>9. CASE \A c \in Callers, d \in Downloads : ~Enqueue(c, d) /\ ~ExtractPausedConfig(c, d)
  <2>1. Stays
    BY <1>9, StepStays
  <2>2. ASSUME NEW c \in Callers, NEW d \in Downloads, Call(c, d) PROVE Rested' /\ Flagged'
    BY <1>6, <1>9, <2>1, <2>2 DEF Call
  <2> QED BY <1>4, <1>5, <1>7, <1>8, <2>1, <2>2 DEF Next, ShutdownStep
<1> QED BY <1>1, <1>2, <1>9

-----------------------------------------------------------------------------
LEMMA ErrorsGrow ==
  ASSUME [Next]_vars
  PROVE  errors' = errors \/ (errors < MaxErrors /\ errors' = errors + 1)
<1>1. ASSUME NEW w \in Workers, WorkerStep(w)
      PROVE  errors' = errors \/ (errors < MaxErrors /\ errors' = errors + 1)
  <2>1. CASE Receive(w) \/ Exit(w) \/ CheckQueued(w) \/ Start(w) \/ Register(w)
    BY <2>1 DEF Receive, Exit, CheckQueued, Start, Register, files
  <2>2. CASE \/ TransferEnds(w) \/ BootstrapCanceled(w) \/ AskPaused(w)
             \/ HandlePause(w) \/ CheckContext(w)
    BY <2>2 DEF TransferEnds, BootstrapCanceled, AskPaused, HandlePause, CheckContext, files
  <2>3. CASE \/ ConcurrentFails(w) \/ ResetPaused(w) \/ ResetPausing(w)
             \/ SingleEnds(w) \/ Report(w)
    BY <2>3 DEF ConcurrentFails, ResetPaused, ResetPausing, SingleEnds, Report, files
  <2>4. CASE \/ NotRunning(w) \/ ReadPaused(w) \/ ClearPausing(w)
             \/ Settle(w) \/ Forget(w) \/ Leave(w)
    BY <2>4 DEF NotRunning, ReadPaused, ClearPausing, Settle, Forget, Leave, files
  <2> QED BY <1>1, <2>1, <2>2, <2>3, <2>4 DEF WorkerStep
<1>2. ASSUME NEW c \in Callers, CallerStep(c) \/ \E d \in Downloads : Call(c, d)
      PROVE  errors' = errors
  BY <1>2 DEF CallerStep, Add, Send, SendPanics, PauseSeen, PauseUnderWay, PauseMark, PauseFlag,
     PauseCancel, CancelStop, CancelDone, Call, Enqueue, PauseLookup, ExtractPausedConfig, Cancel,
     CallerKeeps, files
<1>3. CASE PauseAll \/ ShutdownStep \/ UNCHANGED vars
  BY <1>3 DEF PauseAll, ShutdownStep, ClearQueued, DrainChannel, WaitPausing, Close, ShutKeeps,
     vars, files
<1> QED BY <1>1, <1>2, <1>3 DEF Next

LEMMA RunInit == Init => RunInv
<1> SUFFICES ASSUME Init PROVE RunInv
  OBVIOUS
<1>1. /\ \A w \in Workers : pc[w] = "recv"
      /\ \A c \in Callers : cpc[c] = "idle"
      /\ DOMAIN taskChan = {}
      /\ \A d \in Downloads : downloads[d] = 0 /\ ~Paused[d]
      /\ shut = "no"
  BY DEF Init
<1>2. Single
  BY <1>1 DEF Single, Bound, Giving, Ahead, Inside, Letting
<1>3. Rested /\ Flagged /\ Untouched
  BY <1>1 DEF Rested, Flagged, Untouched
<1>4. Owned /\ Mapped /\ OpenWhileSole /\ NoFailure
  BY <1>1 DEF Owned, Mapped, OpenWhileSole, NoFailure, Inside
<1> QED BY <1>2, <1>3, <1>4 DEF RunInv

LEMMA RunStep ==
  ASSUME TypeOK, Held, RunInv, Resumable, errors' = errors, [Next]_vars
  PROVE  RunInv'
<1> USE DEF RunInv
<1>1. Rested' /\ Flagged'
  BY RestedStep
<1>2. Untouched' /\ OpenWhileSole' /\ Owned' /\ Mapped'
  BY UntouchedStep, OpenStep, OwnedStep, MappedStep
<1>3. Single' /\ NoFailure'
  <2>1. CASE \E c \in Callers, d \in Downloads : Enqueue(c, d)
    BY <2>1, EnqueueGives
  <2>2. CASE \E c \in Callers, d \in Downloads : ExtractPausedConfig(c, d)
    BY <2>2, ExtractGives
  <2>3. CASE \A c \in Callers, d \in Downloads : ~Enqueue(c, d) /\ ~ExtractPausedConfig(c, d)
    BY <2>3, StepStays DEF Stays
  <2> QED BY <2>1, <2>2, <2>3
<1> QED BY <1>1, <1>2, <1>3

(* As long as no engine has failed.                                        *)
RunUnfailed == errors = 0 => RunInv

LEMMA RunInvariant ==
  ASSUME Resumable
  PROVE  Spec => [](TypeOK /\ RunUnfailed)
<1>1. Init => PoolInv /\ RunUnfailed
  BY InitInv, RunInit DEF RunUnfailed
<1>2. PoolInv /\ RunUnfailed /\ [Next]_vars => PoolInv' /\ RunUnfailed'
  <2> SUFFICES ASSUME PoolInv, RunUnfailed, [Next]_vars PROVE PoolInv' /\ RunUnfailed'
    OBVIOUS
  <2>1. PoolInv'
    BY NextInv
  <2>2. ASSUME errors' = 0 PROVE RunInv'
    <3>1. errors' = errors \/ errors' = errors + 1
      BY ErrorsGrow
    <3>2. errors \in Nat
      BY DEF PoolInv, TypeOK
    <3>3. errors' = errors /\ errors = 0
      BY <2>2, <3>1, <3>2
    <3> QED BY <3>3, RunStep DEF RunUnfailed, PoolInv
  <2> QED BY <2>1, <2>2 DEF RunUnfailed
<1>3. PoolInv => TypeOK
  BY DEF PoolInv
<1> QED BY <1>1, <1>2, <1>3, PTL DEF Spec

(* No download runs twice at a time, so that two workers never write to    *)
(* one file (pool.go:275-298, 358-370): for any number of workers and      *)
(* downloads, when engines do not fail, and either one goroutine calls the *)
(* pool and it is not shut down, or any number call it and shut it down    *)
(* but a single download is resumed.                                       *)
THEOREM EachRunsOnce ==
  ASSUME Resumable, MaxErrors = 0
  PROVE  Spec => []OneRunPerDownload
<1>1. Init => errors = 0
  BY DEF Init
<1>2. errors = 0 /\ [Next]_vars => (errors = 0)'
  BY ErrorsGrow
<1>3. errors = 0 /\ TypeOK /\ RunUnfailed => OneRunPerDownload
  <2> SUFFICES ASSUME RunInv, NEW v \in Workers, NEW w \in Workers, v # w, Running(v), Running(w)
               PROVE  cfg[v] # cfg[w]
    BY DEF RunUnfailed, OneRunPerDownload
  <2>1. ASSUME NEW u \in Workers, Running(u) PROVE Bound(u)
    BY <2>1 DEF Running, InEngine, Bound, Ahead, Inside, RunInv, NoFailure
  <2> QED BY <2>1 DEF RunInv, Single
<1> QED BY <1>1, <1>2, <1>3, RunInvariant, PTL DEF Spec

-----------------------------------------------------------------------------
(* Done means whole.  With one caller, a context is done only of a         *)
(* download that is paused, or whole, or removed, so that a worker whose   *)
(* context is done is not taken for one that has finished.                 *)
Kept(d) == d \in whole \cup removed
Spared(d) == Paused[d] \/ Kept(d)

(* Whose context a caller or the state of a download has at hand.          *)
Contexts ==
  /\ \A d \in Downloads : /\ downloads[d] # 0 => ads[downloads[d]].id = d
                          /\ cancelFunc[d] # 0 => ads[cancelFunc[d]].id = d
  /\ \A c \in Callers : /\ cpc[c] = "idle" => cad[c] = 0
                        /\ cad[c] # 0 => ads[cad[c]].id = cid[c]

DownloadFine(d) ==
  /\ Done[d] => Kept(d)
  /\ Pausing[d] => Spared(d) \/ \E c \in Callers : cpc[c] = "flag" /\ cid[c] = d
CallerFine(c, d) ==
  /\ cpc[c] = "cancel" => Spared(d)
  /\ cpc[c] \in {"stop", "done"} => d \in removed
WorkerFine(w, d) ==
  /\ pc[w] \in {"register"} \cup (Inside \ {"returned"}) /\ CtxDone(w) => Spared(d)
  /\ pc[w] \in {"joined", "context"} => Kept(d) \/ CtxDone(w)
  /\ pc[w] = "save" => Spared(d)
  /\ pc[w] = "ended" => /\ err[w] = "nil" => Kept(d)
                        /\ err[w] = "paused" => Spared(d)
                        /\ err[w] = "canceled" => CtxDone(w)
  /\ pc[w] \in {"returned", "stopped"} /\ err[w] = "nil" => Spared(d)
  /\ pc[w] \in {"clear", "settle"} /\ err[w] = "nil" /\ ~isPaused[w] => Kept(d)

DoneInv ==
  /\ Contexts
  /\ \A d \in Downloads :
       /\ DownloadFine(d)
       /\ \A c \in Callers : cid[c] = d => CallerFine(c, d)
       /\ \A w \in Workers : cfg[w] = d => WorkerFine(w, d)

(* What a worker leaves alone.                                             *)
LEMMA WorkSpares ==
  ASSUME TypeOK, Held, NoFailure, errors' = errors, NEW w \in Workers, WorkerStep(w)
  PROVE  /\ whole \subseteq whole' /\ removed' = removed
         /\ \/ Paused' = Paused
            \/ HandlePause(w) /\ cfg[w] \in whole /\ Paused' = [Paused EXCEPT ![cfg[w]] = FALSE]
         /\ Pausing' = Pausing \/ (ClearPausing(w) /\ Pausing' = [Pausing EXCEPT ![cfg[w]] = FALSE])
         /\ Done' = Done \/ (Settle(w) /\ ~isPaused[w] /\ err[w] = "nil"
                             /\ Done' = [Done EXCEPT ![cfg[w]] = TRUE])
         /\ cancelFunc' = cancelFunc
            \/ (Start(w) /\ cancelFunc' = [cancelFunc EXCEPT ![cfg[w]] = Len(ads) + 1])
         /\ \A v \in Workers \ {w} : err'[v] = err[v] /\ isPaused'[v] = isPaused[v]
<1>1. ~ConcurrentFails(w) /\ ~ResetPaused(w) /\ ~ResetPausing(w)
  <2>1. errors \in Nat
    BY DEF TypeOK
  <2>2. errors + 1 # errors
    BY <2>1
  <2>3. QED
    BY <2>2 DEF NoFailure, ConcurrentFails, ResetPaused, ResetPausing
<1>2. CASE Receive(w) \/ Exit(w) \/ CheckQueued(w) \/ Register(w)
  BY <1>2 DEF Receive, Exit, CheckQueued, Register, WorkerKeeps, history, states, flags, files
<1>3. CASE Start(w)
  <2>1. Len(ads') = Len(ads) + 1
    BY <1>3, AppendProperties DEF Start, TypeOK, AD, Held
  <2> QED BY <1>3, <2>1 DEF Start, WorkerKeeps, history, flags, files
<1>4. CASE TransferEnds(w) \/ BootstrapCanceled(w) \/ AskPaused(w) \/ CheckContext(w)
  BY <1>4 DEF TransferEnds, BootstrapCanceled, AskPaused, CheckContext,
     EngineKeeps, WorkerKeeps, history, flags, files, TypeOK
<1>5. CASE HandlePause(w)
  <2>1. /\ Pausing' = Pausing /\ Done' = Done /\ whole' = whole /\ removed' = removed
        /\ cancelFunc' = cancelFunc /\ isPaused' = isPaused
    BY <1>5 DEF HandlePause, EngineKeeps, WorkerKeeps, history
  <2>2. Paused' = Paused \/ (cfg[w] \in whole /\ Paused' = [Paused EXCEPT ![cfg[w]] = FALSE])
    BY <1>5 DEF HandlePause
  <2>3. \A v \in Workers \ {w} : err'[v] = err[v]
    BY <1>5 DEF HandlePause, TypeOK
  <2> QED BY <1>5, <2>1, <2>2, <2>3
<1>6. CASE SingleEnds(w)
  <2>1. /\ Pausing' = Pausing /\ Done' = Done /\ removed' = removed /\ Paused' = Paused
        /\ cancelFunc' = cancelFunc /\ isPaused' = isPaused
    BY <1>6 DEF SingleEnds, EngineKeeps, WorkerKeeps, history, flags
  <2>2. whole \subseteq whole' /\ \A v \in Workers \ {w} : err'[v] = err[v]
    BY <1>6 DEF SingleEnds, TypeOK
  <2> QED BY <2>1, <2>2
<1>7. CASE Report(w)
  <2>1. /\ Pausing' = Pausing /\ Done' = Done /\ removed' = removed /\ Paused' = Paused
        /\ cancelFunc' = cancelFunc /\ isPaused' = isPaused /\ whole' = whole
    BY <1>7 DEF Report, EngineKeeps, WorkerKeeps, history, flags
  <2>2. err[w] \in {"nil", "paused", "canceled", "error"}
    BY DEF TypeOK
  <2>3. err' = [err EXCEPT ![w] = "nil"] \/ err' = err
    <3>1. CASE err[w] = "paused"
      BY <1>7, <3>1 DEF Report
    <3>2. CASE err[w] # "paused" /\ Paused[cfg[w]]
      BY <1>7, <3>2 DEF Report
    <3>3. CASE err[w] # "paused" /\ ~Paused[cfg[w]]
      BY <1>7, <2>2, <3>3 DEF Report
    <3> QED BY <3>1, <3>2, <3>3
  <2> QED BY <2>1, <2>3 DEF TypeOK
<1>8. CASE \/ NotRunning(w) \/ ReadPaused(w) \/ Forget(w) \/ Leave(w)
  BY <1>8 DEF NotRunning, ReadPaused, Forget, Leave, WorkerKeeps, history, states, flags, files,
     TypeOK
<1>9. CASE ClearPausing(w) \/ Settle(w)
  BY <1>9 DEF ClearPausing, Settle, WorkerKeeps, history, files
<1> QED BY <1>1, <1>2, <1>3, <1>4, <1>5, <1>6, <1>7, <1>8, <1>9 DEF WorkerStep

(* What callers leave alone.                                               *)
LEMMA CallSpares ==
  ASSUME TypeOK, Held, Sole, OpenWhileSole, [Next]_vars, \A w \in Workers : ~WorkerStep(w)
  PROVE  /\ whole' = whole /\ removed \subseteq removed'
         /\ pc' = pc /\ cfg' = cfg /\ ad' = ad /\ err' = err /\ isPaused' = isPaused
         /\ cancelFunc' = cancelFunc
         /\ \A d \in Downloads :
              /\ downloads'[d] \in {0, downloads[d]}
              /\ Paused[d] => Paused'[d] \/ \E c \in Callers : ExtractPausedConfig(c, d)
              /\ Pausing'[d] => Pausing[d] \/ \E c \in Callers : PauseMark(c) /\ cid[c] = d
              /\ Done'[d] => Done[d] \/ \E c \in Callers : CancelDone(c) /\ cid[c] = d
<1>1. ASSUME NEW c \in Callers, CallerStep(c)
      PROVE  /\ whole' = whole /\ removed' = removed /\ downloads' = downloads
             /\ pc' = pc /\ cfg' = cfg /\ ad' = ad /\ err' = err /\ isPaused' = isPaused
             /\ cancelFunc' = cancelFunc
             /\ Paused' = Paused \/ Paused' = [Paused EXCEPT ![cid[c]] = TRUE]
             /\ Pausing' = Pausing \/ (PauseMark(c) /\ Pausing' = [Pausing EXCEPT ![cid[c]] = TRUE])
             /\ Done' = Done \/ (CancelDone(c) /\ Done' = [Done EXCEPT ![cid[c]] = TRUE])
  <2>1. CASE Add(c) \/ Send(c) \/ SendPanics(c) \/ PauseSeen(c) \/ PauseUnderWay(c) \/ PauseMark(c)
    BY <2>1 DEF Add, Send, SendPanics, PauseSeen, PauseUnderWay, PauseMark, CallerKeeps, pool,
       states, flags, worker, files, history
  <2>2. CASE PauseFlag(c) \/ PauseCancel(c) \/ CancelStop(c) \/ CancelDone(c)
    BY <2>2 DEF PauseFlag, PauseCancel, CancelStop, CancelDone, CallerKeeps, pool,
       states, flags, worker, files, history
  <2> QED BY <1>1, <2>1, <2>2 DEF CallerStep
<1>2. ASSUME NEW c \in Callers, NEW e \in Downloads, Call(c, e)
      PROVE  /\ whole' = whole /\ removed \subseteq removed'
             /\ downloads' = downloads \/ downloads' = [downloads EXCEPT ![e] = 0]
             /\ pc' = pc /\ cfg' = cfg /\ ad' = ad /\ err' = err /\ isPaused' = isPaused
             /\ cancelFunc' = cancelFunc /\ Pausing' = Pausing /\ Done' = Done
             /\ Paused' = Paused
                \/ (ExtractPausedConfig(c, e) /\ Paused' = [Paused EXCEPT ![e] = FALSE])
  BY <1>2 DEF Call, Enqueue, PauseLookup, ExtractPausedConfig, Cancel, CallerKeeps, pool,
     states, flags, worker, files, history
<1>3. ~PauseAll /\ ~ShutdownStep
  BY DEF Sole, OpenWhileSole, PauseAll, ShutdownStep, ClearQueued, DrainChannel, WaitPausing, Close
<1>4. ASSUME UNCHANGED vars
      PROVE  /\ whole' = whole /\ removed' = removed /\ downloads' = downloads
             /\ pc' = pc /\ cfg' = cfg /\ ad' = ad /\ err' = err /\ isPaused' = isPaused
             /\ cancelFunc' = cancelFunc /\ Pausing' = Pausing /\ Done' = Done /\ Paused' = Paused
  BY <1>4 DEF vars, pool, states, flags, worker, files, history
<1>5. ASSUME NEW c \in Callers, CallerStep(c), NEW d \in Downloads
      PROVE  /\ Paused[d] => Paused'[d]
             /\ Pausing'[d] => Pausing[d] \/ (PauseMark(c) /\ cid[c] = d)
             /\ Done'[d] => Done[d] \/ (CancelDone(c) /\ cid[c] = d)
  <2>1. Paused[d] => Paused'[d]
    BY <1>1, <1>5 DEF TypeOK
  <2>2. Pausing'[d] => Pausing[d] \/ (PauseMark(c) /\ cid[c] = d)
    BY <1>1, <1>5 DEF TypeOK
  <2>3. Done'[d] => Done[d] \/ (CancelDone(c) /\ cid[c] = d)
    BY <1>1, <1>5 DEF TypeOK
  <2> QED BY <2>1, <2>2, <2>3
<1>6. ASSUME NEW c \in Callers, NEW e \in Downloads, Call(c, e), NEW d \in Downloads
      PROVE  /\ downloads'[d] \in {0, downloads[d]}
             /\ Paused[d] => Paused'[d] \/ ExtractPausedConfig(c, d)
  <2>1. downloads'[d] \in {0, downloads[d]}
    BY <1>2, <1>6 DEF TypeOK
  <2>2. Paused' = Paused \/ (ExtractPausedConfig(c, e) /\ Paused' = [Paused EXCEPT ![e] = FALSE])
    BY <1>2, <1>6
  <2>3. CASE Paused' = Paused
    BY <2>1, <2>3
  <2>4. CASE ExtractPausedConfig(c, e) /\ Paused' = [Paused EXCEPT ![e] = FALSE]
    <3>1. CASE e = d
      BY <2>1, <2>4, <3>1
    <3>2. CASE e # d
      <4>1. Paused'[d] = Paused[d]
        BY <2>4, <3>2 DEF TypeOK
      <4> QED BY <2>1, <4>1
    <3> QED BY <3>1, <3>2
  <2> QED BY <2>1, <2>2, <2>3, <2>4
<1>7. CASE UNCHANGED vars
  BY <1>4, <1>7
<1>8. CASE \E c \in Callers : CallerStep(c)
  <2>1. PICK c \in Callers : CallerStep(c)
    BY <1>8
  <2> QED BY <1>1, <1>5, <2>1
<1>9. CASE \E c \in Callers, e \in Downloads : Call(c, e)
  <2>1. PICK c \in Callers, e \in Downloads : Call(c, e)
    BY <1>9
  <2> QED BY <1>2, <1>6, <2>1
<1> QED BY <1>3, <1>7, <1>8, <1>9 DEF Next

(* What is spared stays so, unless it is resumed.                          *)
LEMMA SparedStays ==
  ASSUME TypeOK, Held, Sole, OpenWhileSole, NoFailure, errors' = errors, [Next]_vars,
         NEW d \in Downloads
  PROVE  /\ Kept(d) => Kept(d)'
         /\ Spared(d) => Spared(d)' \/ \E c \in Callers : ExtractPausedConfig(c, d)
<1>1. CASE \E w \in Workers : WorkerStep(w)
  <2>1. PICK w \in Workers : WorkerStep(w)
    BY <1>1
  <2>2. Kept(d) => Kept(d)'
    BY <2>1, WorkSpares DEF Kept
  <2>3. Paused[d] => Paused'[d] \/ Kept(d)
    BY <2>1, WorkSpares DEF Kept, TypeOK
  <2> QED BY <2>2, <2>3 DEF Spared
<1>2. CASE \A w \in Workers : ~WorkerStep(w)
  <2>1. Kept(d) => Kept(d)'
    BY <1>2, CallSpares DEF Kept
  <2>2. Paused[d] => Paused'[d] \/ \E c \in Callers : ExtractPausedConfig(c, d)
    BY <1>2, CallSpares
  <2> QED BY <2>1, <2>2 DEF Spared
<1> QED BY <1>1, <1>2

(* What a caller goes through, seen from its place and its download.       *)
LEMMA CallMoves ==
  ASSUME TypeOK, Held, Sole, OpenWhileSole, [Next]_vars, NEW c \in Callers
  PROVE  /\ cpc[c] = "flag" => (cpc'[c] = "flag" /\ cid'[c] = cid[c]) \/ Paused'[cid[c]]
         /\ PauseMark(c) => cpc'[c] = "flag" /\ cid'[c] = cid[c]
         /\ cpc'[c] = "cancel" => /\ cid'[c] = cid[c]
                                  /\ cpc[c] = "cancel" \/ Paused'[cid[c]]
         /\ cpc'[c] \in {"stop", "done"} =>
              \/ cid'[c] = cid[c] /\ cpc[c] \in {"stop", "done"}
              \/ cid'[c] \in removed'
         /\ cpc'[c] = "idle" => cad'[c] = 0 \/ (cpc[c] = "idle" /\ cad'[c] = cad[c])
         /\ cad'[c] # 0 =>
              \/ cad'[c] = cad[c] /\ cid'[c] = cid[c]
              \/ cad'[c] = cad[c] /\ cpc[c] = "idle"
              \/ cid'[c] \in Downloads /\ cad'[c] = downloads[cid'[c]]
<1>1. ASSUME cpc' = cpc, cid' = cid, cad' = cad
      PROVE  /\ ~PauseMark(c)
             /\ cpc'[c] = cpc[c] /\ cid'[c] = cid[c] /\ cad'[c] = cad[c]
  BY <1>1 DEF PauseMark, CallTo, TypeOK
<1>2. CASE \E w \in Workers : WorkerStep(w)
  BY <1>1, <1>2, OthersStay DEF caller
<1>3. CASE UNCHANGED vars
  BY <1>1, <1>3 DEF vars, caller
<1>4. ~PauseAll /\ ~ShutdownStep
  BY DEF Sole, OpenWhileSole, PauseAll, ShutdownStep, ClearQueued, DrainChannel, WaitPausing, Close
<1>5. ASSUME NEW b \in Callers, CallerStep(b)
      PROVE  b = c
  BY <1>5 DEF Sole
<1>6. CASE CallerStep(c)
  <2>0. cid[c] \in Downloads /\ c \in DOMAIN cpc /\ c \in DOMAIN cid /\ c \in DOMAIN cad
    BY <1>6 DEF CallerStep, Add, Send, SendPanics, PauseSeen, PauseUnderWay, PauseMark,
       PauseFlag, PauseCancel, CancelStop, CancelDone, Held, TypeOK
  <2>1. CASE Add(c) \/ Send(c) \/ SendPanics(c) \/ PauseSeen(c) \/ PauseUnderWay(c)
    BY <2>0, <2>1 DEF Add, Send, SendPanics, PauseSeen, PauseUnderWay, PauseMark, CallTo, Return
  <2>2. CASE PauseMark(c)
    BY <2>0, <2>2 DEF PauseMark, CallTo
  <2>3. CASE PauseFlag(c)
    <3>1. Paused'[cid[c]]
      BY <2>0, <2>3 DEF PauseFlag, TypeOK
    <3> QED BY <2>0, <2>3, <3>1 DEF PauseFlag, PauseMark, CallTo
  <2>4. CASE PauseCancel(c) \/ CancelStop(c) \/ CancelDone(c)
    BY <2>0, <2>4 DEF PauseCancel, CancelStop, CancelDone, PauseMark, CallTo, Return
  <2> QED BY <1>6, <2>1, <2>2, <2>3, <2>4 DEF CallerStep
<1>7. CASE \E b \in Callers, e \in Downloads : Call(b, e)
  <2>1. PICK e \in Downloads : Call(c, e)
    BY <1>7 DEF Sole
  <2>2. cpc[c] = "idle" /\ c \in DOMAIN cpc /\ c \in DOMAIN cid /\ c \in DOMAIN cad
    BY <2>1 DEF Call, Enqueue, PauseLookup, ExtractPausedConfig, Cancel, TypeOK
  <2>3. CASE Enqueue(c, e) \/ ExtractPausedConfig(c, e)
    BY <2>2, <2>3 DEF Enqueue, ExtractPausedConfig, PauseMark, CallTo
  <2>4. CASE PauseLookup(c, e) \/ Cancel(c, e)
    BY <2>2, <2>4 DEF PauseLookup, Cancel, PauseMark, CallTo, caller
  <2> QED BY <2>1, <2>3, <2>4 DEF Call
<1> QED BY <1>2, <1>3, <1>4, <1>5, <1>6, <1>7 DEF Next

(* Contexts belong to the download they are kept for.                      *)
LEMMA ContextsStep ==
  ASSUME TypeOK, Held, Sole, OpenWhileSole, NoFailure, Owned, Contexts,
         errors' = errors, [Next]_vars
  PROVE  Contexts'
<1>0. /\ Len(ads) \in Nat
      /\ \A d \in Downloads : downloads[d] \in 0..Len(ads) /\ cancelFunc[d] \in 0..Len(ads)
      /\ \A c \in Callers : cad[c] \in 0..Len(ads)
      /\ \A w \in Workers : ad[w] \in 0..Len(ads)
  BY LenProperties DEF TypeOK
<1>1. \A r \in 0..Len(ads) : r # 0 => ads'[r].id = ads[r].id
  BY <1>0, AdsKept
<1>2. ASSUME NEW d \in Downloads, downloads'[d] # 0 PROVE ads'[downloads'[d]].id = d
  <2>1. CASE downloads'[d] \in {0, downloads[d]}
    BY <1>0, <1>1, <1>2, <2>1 DEF Contexts
  <2>2. CASE \E w \in Workers : WorkerStep(w)
    <3>1. PICK w \in Workers : WorkerStep(w)
      BY <2>2
    <3>2. CASE Register(w) /\ downloads' = [downloads EXCEPT ![cfg[w]] = ad[w]] /\ cfg[w] = d
      <4>1. downloads'[d] = ad[w] /\ pc[w] = "register"
        BY <3>2 DEF TypeOK, Register
      <4> QED BY <1>0, <1>1, <3>2, <4>1 DEF Owned
    <3>3. CASE ~(Register(w) /\ downloads' = [downloads EXCEPT ![cfg[w]] = ad[w]] /\ cfg[w] = d)
      <4>1. \/ downloads' = downloads
            \/ downloads' = [downloads EXCEPT ![cfg[w]] = 0]
            \/ Register(w) /\ downloads' = [downloads EXCEPT ![cfg[w]] = ad[w]]
        BY <3>1, WorkMaps
      <4>2. downloads'[d] \in {0, downloads[d]}
        BY <3>3, <4>1 DEF TypeOK
      <4> QED BY <2>1, <4>2
    <3> QED BY <3>2, <3>3
  <2>3. CASE \A w \in Workers : ~WorkerStep(w)
    BY <2>1, <2>3, CallSpares
  <2> QED BY <2>2, <2>3
<1>3. ASSUME NEW d \in Downloads, cancelFunc'[d] # 0 PROVE ads'[cancelFunc'[d]].id = d
  <2>1. CASE cancelFunc'[d] = cancelFunc[d]
    BY <1>0, <1>1, <1>3, <2>1 DEF Contexts
  <2>2. CASE \E w \in Workers : WorkerStep(w)
    <3>1. PICK w \in Workers : WorkerStep(w)
      BY <2>2
    <3>2. CASE Start(w) /\ cancelFunc' = [cancelFunc EXCEPT ![cfg[w]] = Len(ads) + 1] /\ cfg[w] = d
      <4>1. cancelFunc'[d] = Len(ads) + 1
        BY <3>2 DEF TypeOK
      <4> QED BY <3>1, <3>2, <4>1, WorkOwns
    <3>3. CASE ~(Start(w) /\ cancelFunc' = [cancelFunc EXCEPT ![cfg[w]] = Len(ads) + 1]
                 /\ cfg[w] = d)
      <4>1. \/ cancelFunc' = cancelFunc
            \/ Start(w) /\ cancelFunc' = [cancelFunc EXCEPT ![cfg[w]] = Len(ads) + 1]
        BY <3>1, WorkSpares
      <4>2. cancelFunc'[d] = cancelFunc[d]
        BY <3>3, <4>1 DEF TypeOK
      <4> QED BY <2>1, <4>2
    <3> QED BY <3>2, <3>3
  <2>3. CASE \A w \in Workers : ~WorkerStep(w)
    BY <2>1, <2>3, CallSpares
  <2> QED BY <2>2, <2>3
<1>4. ASSUME NEW c \in Callers
      PROVE  /\ cpc'[c] = "idle" => cad'[c] = 0
             /\ cad'[c] # 0 => ads'[cad'[c]].id = cid'[c]
  <2>1. cpc'[c] = "idle" => cad'[c] = 0
    BY CallMoves DEF Contexts
  <2>2. ASSUME cad'[c] # 0 PROVE ads'[cad'[c]].id = cid'[c]
    <3>1. \/ cad'[c] = cad[c] /\ cid'[c] = cid[c]
          \/ cid'[c] \in Downloads /\ cad'[c] = downloads[cid'[c]]
      BY <2>2, CallMoves DEF Contexts
    <3> QED BY <1>0, <1>1, <2>2, <3>1 DEF Contexts
  <2> QED BY <2>1, <2>2
<1> QED BY <1>2, <1>3, <1>4 DEF Contexts

(* A context that is done is that of a download that is spared.            *)
LEMMA CtxSpared ==
  ASSUME TypeOK, Held, Sole, NoFailure, Owned, DoneInv, errors' = errors, [Next]_vars,
         NEW v \in Workers, pc[v] \in {"register"} \cup (Inside \ {"returned"}),
         NEW d \in Downloads, cfg[v] = d
  PROVE  /\ CtxDone(v) => ads'[ad[v]].ctxDone
         /\ ads'[ad[v]].ctxDone => Spared(d)
<1>1. ad[v] \in 1..Len(ads) /\ ads[ad[v]].id = d
  <2>1. Len(ads) \in Nat /\ ad[v] \in 0..Len(ads) /\ ad[v] # 0
    BY LenProperties DEF TypeOK, Owned
  <2> QED BY <2>1 DEF Owned
<1>2. CtxDone(v) => Spared(d)
  BY DEF DoneInv, WorkerFine
<1>3. ASSUME NEW c \in Callers, CallerStep(c), Cancels(c, ad[v])
      PROVE  Spared(d)
  <2>1. cpc[c] # "idle" /\ cid[c] \in Downloads
    BY <1>3 DEF Cancels, Held
  <2>2. cid[c] = d
    BY <1>1, <1>3, <2>1 DEF Cancels, DoneInv, Contexts
  <2>3. CASE cpc[c] = "pausing?"
    <3>1. Pausing[d]
      BY <1>3, <2>2, <2>3 DEF Cancels
    <3>2. \A b \in Callers : cpc[b] # "flag"
      BY <2>3 DEF Sole
    <3> QED BY <3>1, <3>2 DEF DoneInv, DownloadFine
  <2>4. CASE cpc[c] = "cancel"
    BY <2>2, <2>4 DEF DoneInv, CallerFine
  <2>5. CASE cpc[c] = "stop"
    BY <2>2, <2>5 DEF DoneInv, CallerFine, Spared, Kept
  <2> QED BY <1>3, <2>3, <2>4, <2>5 DEF Cancels
<1>4. /\ ads[ad[v]].ctxDone => ads'[ad[v]].ctxDone
      /\ ads'[ad[v]].ctxDone =>
           ads[ad[v]].ctxDone \/ \E c \in Callers : CallerStep(c) /\ Cancels(c, ad[v])
  BY <1>1, AdsKept
<1> QED BY <1>2, <1>3, <1>4 DEF CtxDone

(* A worker that does not move.                                            *)
LEMMA WorkerRests ==
  ASSUME TypeOK, Held, Sole, NoFailure, Owned, DoneInv, errors' = errors, [Next]_vars,
         NEW d \in Downloads, Kept(d) => Kept(d)', Spared(d) => Spared(d)',
         NEW v \in Workers, cfg'[v] = d,
         pc'[v] = pc[v], cfg'[v] = cfg[v], ad'[v] = ad[v], err'[v] = err[v],
         isPaused'[v] = isPaused[v]
  PROVE  WorkerFine(v, d)'
<1>1. WorkerFine(v, d)
  BY DEF DoneInv
<1>2. ASSUME pc[v] \in {"register"} \cup (Inside \ {"returned"})
      PROVE  /\ CtxDone(v) => CtxDone(v)'
             /\ CtxDone(v)' => Spared(d)'
  <2>1. /\ CtxDone(v) => ads'[ad[v]].ctxDone
        /\ ads'[ad[v]].ctxDone => Spared(d)
    BY <1>2, CtxSpared
  <2> QED BY <2>1 DEF CtxDone
<1> QED BY <1>1, <1>2 DEF WorkerFine, Inside

(* A worker that moves.                                                    *)
LEMMA WorkerGoesOn ==
  ASSUME TypeOK, Held, Sole, NoFailure, Owned, DoneInv, errors' = errors,
         NEW d \in Downloads, Kept(d) => Kept(d)', Spared(d) => Spared(d)',
         NEW w \in Workers, WorkerStep(w), cfg'[w] = d
  PROVE  WorkerFine(w, d)'
<1> USE DEF WorkerFine, Inside
<1>0. ASSUME NEW l, GoTo(w, l)
      PROVE  pc'[w] = l
  BY <1>0 DEF GoTo, TypeOK
<1>1. ~ConcurrentFails(w) /\ ~ResetPaused(w) /\ ~ResetPausing(w)
  <2>1. errors \in Nat
    BY DEF TypeOK
  <2>2. errors + 1 # errors
    BY <2>1
  <2>3. QED
    BY <2>2 DEF NoFailure, ConcurrentFails, ResetPaused, ResetPausing
<1>2. CASE Receive(w) \/ Exit(w) \/ CheckQueued(w) \/ Settle(w) \/ Forget(w) \/ Leave(w)
  <2>1. pc'[w] \in {"check", "gone", "start", "recv", "leave", "forget"}
    BY <1>0, <1>2 DEF Receive, Exit, CheckQueued, Settle, Forget, Leave
  <2> QED BY <2>1
<1>3. CASE Start(w)
  <2>1. pc'[w] = "register" /\ ~CtxDone(w)'
    BY <1>3, WorkOwns DEF CtxDone
  <2> QED BY <2>1
<1>4. ASSUME cfg' = cfg
      PROVE  cfg[w] = d /\ WorkerFine(w, d)
  BY <1>4 DEF DoneInv
<1>5. CASE Register(w)
  <2>1. /\ cfg' = cfg /\ ads' = ads /\ ad' = ad /\ pc[w] = "register"
        /\ pc'[w] \in {"concurrent", "single"}
    BY <1>0, <1>5 DEF Register
  <2>2. CtxDone(w)' => CtxDone(w)
    BY <2>1 DEF CtxDone
  <2> QED BY <1>4, <2>1, <2>2
<1>6. ASSUME EngineKeeps
      PROVE  cfg' = cfg /\ CtxDone(w)' = CtxDone(w)
  BY <1>6 DEF EngineKeeps, CtxDone
<1>7. CASE TransferEnds(w)
  <2>1. pc[w] = "concurrent" /\ pc'[w] = "joined" /\ EngineKeeps
    BY <1>0, <1>7 DEF TransferEnds
  <2>2. Kept(d)' \/ CtxDone(w)
    BY <1>4, <1>6, <1>7, <2>1 DEF TransferEnds, Kept
  <2> QED BY <1>4, <1>6, <2>1, <2>2
<1>8. CASE BootstrapCanceled(w)
  <2>1. pc[w] = "concurrent" /\ pc'[w] = "ended" /\ EngineKeeps /\ CtxDone(w)
        /\ err'[w] = "canceled"
    BY <1>0, <1>8 DEF BootstrapCanceled, TypeOK
  <2> QED BY <1>4, <1>6, <2>1
<1>9. CASE AskPaused(w)
  <2>1. /\ pc[w] = "joined" /\ EngineKeeps
        /\ pc'[w] = IF Paused[cfg[w]] THEN "save" ELSE "context"
    BY <1>0, <1>9 DEF AskPaused
  <2> QED BY <1>4, <1>6, <2>1 DEF Spared
<1>10. CASE HandlePause(w)
  <2>1. pc[w] = "save" /\ pc'[w] = "ended" /\ EngineKeeps /\ whole' = whole
    BY <1>0, <1>10 DEF HandlePause
  <2>2. (err'[w] = "nil" /\ cfg[w] \in whole) \/ err'[w] = "paused"
    BY <1>10 DEF HandlePause, TypeOK
  <2> QED BY <1>4, <1>6, <2>1, <2>2 DEF Kept
<1>11. CASE CheckContext(w)
  <2>1. /\ pc[w] = "context" /\ pc'[w] = "ended" /\ EngineKeeps
        /\ err'[w] = IF CtxDone(w) THEN "canceled" ELSE "nil"
    BY <1>0, <1>11 DEF CheckContext, TypeOK
  <2> QED BY <1>4, <1>6, <2>1
<1>12. CASE SingleEnds(w)
  <2>1. pc[w] = "single" /\ pc'[w] = "ended" /\ EngineKeeps
    BY <1>0, <1>12 DEF SingleEnds
  <2>2. \/ err'[w] = "nil" /\ whole' = whole \cup {cfg[w]}
        \/ err'[w] = "canceled" /\ CtxDone(w)
        \/ err'[w] = "error"
    BY <1>12 DEF SingleEnds, TypeOK
  <2>3. err'[w] = "nil" => Kept(d)'
    BY <1>4, <1>6, <2>1, <2>2 DEF Kept
  <2> QED BY <1>4, <1>6, <2>1, <2>2, <2>3
<1>13. CASE Report(w)
  <2>1. pc[w] = "ended" /\ pc'[w] = "returned" /\ EngineKeeps
    BY <1>0, <1>13 DEF Report
  <2>2. cfg[w] = d /\ WorkerFine(w, d)
    BY <1>4, <1>6, <2>1
  <2>3. /\ CtxDone(w) => Spared(d)
        /\ err[w] = "nil" => Kept(d)
        /\ err[w] = "paused" => Spared(d)
        /\ err[w] = "canceled" => CtxDone(w)
    BY <2>1, <2>2
  <2>4. err'[w] = "nil" => Spared(d)
    <3>1. CASE err[w] \in {"nil", "paused", "canceled"}
      BY <2>3, <3>1 DEF Spared
    <3>2. CASE err[w] = "error"
      <4>1. err' = err \/ Paused[d]
        BY <1>13, <2>2, <3>2 DEF Report
      <4> QED BY <3>2, <4>1 DEF Spared
    <3> QED BY <3>1, <3>2 DEF TypeOK
  <2> QED BY <2>1, <2>4
<1>14. CASE NotRunning(w)
  <2>1. pc[w] = "returned" /\ pc'[w] = "stopped" /\ cfg' = cfg /\ err' = err
    BY <1>0, <1>14 DEF NotRunning
  <2> QED BY <1>4, <2>1
<1>15. CASE ReadPaused(w)
  <2>1. /\ pc[w] = "stopped" /\ pc'[w] = "clear" /\ cfg' = cfg /\ err' = err
        /\ isPaused'[w] = Paused[cfg[w]]
    BY <1>0, <1>15 DEF ReadPaused, TypeOK
  <2> QED BY <1>4, <2>1 DEF Spared
<1>16. CASE ClearPausing(w)
  <2>1. /\ pc[w] = "clear" /\ pc'[w] = "settle" /\ cfg' = cfg /\ err' = err
        /\ isPaused' = isPaused
    BY <1>0, <1>16 DEF ClearPausing
  <2> QED BY <1>4, <2>1
<1> QED BY <1>1, <1>2, <1>3, <1>5, <1>7, <1>8, <1>9, <1>10, <1>11, <1>12, <1>13, <1>14, <1>15,
           <1>16 DEF WorkerStep

(* A resume takes what is at rest, and nothing else changes.               *)
LEMMA DoneExtract ==
  ASSUME TypeOK, Held, RunInv, Sole, DoneInv, Contexts', errors' = errors, [Next]_vars,
         NEW c \in Callers, NEW e \in Downloads, ExtractPausedConfig(c, e)
  PROVE  DoneInv'
<1>1. /\ pc' = pc /\ cfg' = cfg /\ ad' = ad /\ err' = err /\ isPaused' = isPaused
      /\ ads' = ads /\ whole' = whole /\ removed' = removed /\ Done' = Done /\ Pausing' = Pausing
      /\ Paused' = [Paused EXCEPT ![e] = FALSE] /\ ~Pausing[e]
  BY DEF ExtractPausedConfig, Extractable, CallerKeeps, worker, files
<1>2. /\ cpc[c] = "idle" /\ cpc'[c] = "add" /\ \A b \in Callers : b = c
  BY DEF ExtractPausedConfig, CallTo, TypeOK, Sole
<1>3. ~Astir(e)
  BY ExtractGives DEF RunInv, Resumable
<1>4. ASSUME NEW d \in Downloads
      PROVE  /\ Kept(d)' = Kept(d)
             /\ d # e => Spared(d)' = Spared(d)
  BY <1>1, <1>4 DEF Kept, Spared, TypeOK
<1>5. ASSUME NEW d \in Downloads
      PROVE  DownloadFine(d)'
  <2>1. DownloadFine(d) /\ ~\E b \in Callers : cpc[b] = "flag"
    BY <1>2 DEF DoneInv
  <2> QED BY <1>1, <1>4, <2>1 DEF DownloadFine
<1>6. ASSUME NEW d \in Downloads, NEW b \in Callers
      PROVE  CallerFine(b, d)'
  BY <1>2 DEF CallerFine
<1>7. ASSUME NEW d \in Downloads, NEW w \in Workers, cfg'[w] = d
      PROVE  WorkerFine(w, d)'
  <2>1. WorkerFine(w, d) /\ cfg[w] = d /\ CtxDone(w)' = CtxDone(w)
    BY <1>1, <1>7 DEF DoneInv, CtxDone
  <2>2. CASE d = e
    <3>1. pc[w] \notin Ahead \cup Inside \cup Letting
      BY <1>3, <2>1, <2>2 DEF Astir
    <3>2. pc[w] \notin {"register", "stopped", "clear"} \cup Inside
      BY <3>1 DEF Ahead, Letting
    <3> QED BY <1>1, <1>4, <2>1, <3>2 DEF WorkerFine, Inside
  <2>3. CASE d # e
    BY <1>1, <1>4, <2>1, <2>3 DEF WorkerFine
  <2> QED BY <2>2, <2>3
<1> QED BY <1>5, <1>6, <1>7 DEF DoneInv

LEMMA DoneStep ==
  ASSUME TypeOK, Held, RunInv, Sole, DoneInv, errors' = errors, [Next]_vars
  PROVE  DoneInv'
<1> USE DEF RunInv
<1>0. Contexts'
  BY ContextsStep DEF DoneInv
<1>1. CASE \E c \in Callers, e \in Downloads : ExtractPausedConfig(c, e)
  BY <1>0, <1>1, DoneExtract
<1>2. CASE \A c \in Callers, e \in Downloads : ~ExtractPausedConfig(c, e)
  <2>1. \A d \in Downloads : (Kept(d) => Kept(d)') /\ (Spared(d) => Spared(d)')
    BY <1>2, SparedStays
  <2>2. ASSUME NEW d \in Downloads, NEW c \in Callers, cid'[c] = d
        PROVE  CallerFine(c, d)'
    <3>1. ASSUME cpc'[c] = "cancel" PROVE Spared(d)'
      <4>1. cid[c] = d /\ (cpc[c] = "cancel" \/ Paused'[d])
        BY <2>2, <3>1, CallMoves
      <4> QED BY <2>1, <4>1 DEF DoneInv, CallerFine, Spared
    <3>2. ASSUME cpc'[c] \in {"stop", "done"} PROVE d \in removed'
      <4>1. (cid[c] = d /\ cpc[c] \in {"stop", "done"}) \/ d \in removed'
        BY <2>2, <3>2, CallMoves
      <4>2. removed \subseteq removed'
        BY WorkSpares, CallSpares
      <4> QED BY <4>1, <4>2 DEF DoneInv, CallerFine
    <3> QED BY <3>1, <3>2 DEF CallerFine
  <2>3. ASSUME NEW d \in Downloads
        PROVE  DownloadFine(d)'
    <3>0. DownloadFine(d)
      BY DEF DoneInv
    <3>1. ASSUME Done'[d] PROVE Kept(d)'
      <4>1. CASE \E w \in Workers : WorkerStep(w)
        <5>1. PICK w \in Workers : WorkerStep(w)
          BY <4>1
        <5>2. CASE Settle(w) /\ ~isPaused[w] /\ err[w] = "nil" /\ cfg[w] = d
          <6>1. pc[w] = "settle"
            BY <5>2 DEF Settle
          <6> QED BY <2>1, <5>2, <6>1 DEF DoneInv, WorkerFine
        <5>3. CASE ~(Settle(w) /\ ~isPaused[w] /\ err[w] = "nil" /\ cfg[w] = d)
          <6>1. \/ Done' = Done
                \/ (Settle(w) /\ ~isPaused[w] /\ err[w] = "nil"
                    /\ Done' = [Done EXCEPT ![cfg[w]] = TRUE])
            BY <5>1, WorkSpares
          <6>2. Done'[d] = Done[d]
            BY <5>3, <6>1 DEF TypeOK
          <6> QED BY <2>1, <3>0, <3>1, <6>2 DEF DownloadFine
        <5> QED BY <5>2, <5>3
      <4>2. CASE \A w \in Workers : ~WorkerStep(w)
        <5>1. Done[d] \/ \E c \in Callers : CancelDone(c) /\ cid[c] = d
          BY <3>1, <4>2, CallSpares
        <5>2. ASSUME NEW c \in Callers, CancelDone(c), cid[c] = d PROVE d \in removed
          BY <5>2 DEF CancelDone, DoneInv, CallerFine
        <5> QED BY <2>1, <3>0, <5>1, <5>2 DEF DownloadFine, Kept
      <4> QED BY <4>1, <4>2
    <3>2. ASSUME Pausing'[d]
          PROVE  Spared(d)' \/ \E c \in Callers : cpc'[c] = "flag" /\ cid'[c] = d
      <4>1. Pausing[d] \/ \E c \in Callers : PauseMark(c) /\ cid[c] = d
        <5>1. CASE \E w \in Workers : WorkerStep(w)
          <6>1. PICK w \in Workers : WorkerStep(w)
            BY <5>1
          <6>2. Pausing' = Pausing \/ Pausing' = [Pausing EXCEPT ![cfg[w]] = FALSE]
            BY <6>1, WorkSpares
          <6> QED BY <3>2, <6>2 DEF TypeOK
        <5>2. CASE \A w \in Workers : ~WorkerStep(w)
          BY <3>2, <5>2, CallSpares
        <5> QED BY <5>1, <5>2
      <4>2. ASSUME NEW c \in Callers, cpc[c] = "flag", cid[c] = d
            PROVE  Spared(d)' \/ (cpc'[c] = "flag" /\ cid'[c] = d)
        <5>1. (cpc'[c] = "flag" /\ cid'[c] = d) \/ Paused'[d]
          BY <4>2, CallMoves
        <5> QED BY <5>1 DEF Spared
      <4>3. ASSUME NEW c \in Callers, PauseMark(c), cid[c] = d
            PROVE  cpc'[c] = "flag" /\ cid'[c] = d
        BY <4>3, CallMoves
      <4> QED BY <2>1, <3>0, <4>1, <4>2, <4>3 DEF DownloadFine
    <3> QED BY <3>1, <3>2 DEF DownloadFine
  <2>4. ASSUME NEW d \in Downloads, NEW v \in Workers, cfg'[v] = d
        PROVE  WorkerFine(v, d)'
    <3>1. CASE WorkerStep(v)
      BY <2>1, <2>4, <3>1, WorkerGoesOn
    <3>2. CASE ~WorkerStep(v)
      <4>1. /\ pc'[v] = pc[v] /\ cfg'[v] = cfg[v] /\ ad'[v] = ad[v] /\ err'[v] = err[v]
            /\ isPaused'[v] = isPaused[v]
        <5>1. CASE \E w \in Workers : WorkerStep(w)
          <6>1. PICK w \in Workers : WorkerStep(w) /\ w # v
            BY <3>2, <5>1
          <6> QED BY <6>1, OthersStay, WorkOwns, WorkSpares
        <5>2. CASE \A w \in Workers : ~WorkerStep(w)
          BY <5>2, CallSpares
        <5> QED BY <5>1, <5>2
      <4> QED BY <2>1, <2>4, <4>1, WorkerRests
    <3> QED BY <3>1, <3>2
  <2> QED BY <1>0, <2>2, <2>3, <2>4 DEF DoneInv
<1> QED BY <1>1, <1>2

LEMMA DoneInit == Init => DoneInv
<1> SUFFICES ASSUME Init PROVE DoneInv
  OBVIOUS
<1>1. /\ \A w \in Workers : pc[w] = "recv"
      /\ \A c \in Callers : cpc[c] = "idle" /\ cad[c] = 0
      /\ \A d \in Downloads : downloads[d] = 0 /\ cancelFunc[d] = 0 /\ ~Done[d] /\ ~Pausing[d]
  BY DEF Init
<1>2. Contexts
  BY <1>1 DEF Contexts
<1> QED BY <1>1, <1>2 DEF DoneInv, DownloadFine, CallerFine, WorkerFine, Inside

DoneUnfailed == errors = 0 => RunInv /\ DoneInv

(* A download counts as done only if its file is whole or someone removed  *)
(* it (manager.go:231-275, pool.go:358-396): for any number of workers and *)
(* downloads and any number of resumes, when one goroutine calls the pool, *)
(* at any time, and until an engine fails.                                 *)
THEOREM DoneOnlyWhole ==
  ASSUME Sole
  PROVE  Spec => []DoneIsWhole
<1>1. Init => PoolInv /\ DoneUnfailed
  BY InitInv, RunInit, DoneInit DEF DoneUnfailed
<1>2. PoolInv /\ DoneUnfailed /\ [Next]_vars => PoolInv' /\ DoneUnfailed'
  <2> SUFFICES ASSUME PoolInv, DoneUnfailed, [Next]_vars PROVE PoolInv' /\ DoneUnfailed'
    OBVIOUS
  <2>1. PoolInv'
    BY NextInv
  <2>2. ASSUME errors' = 0 PROVE RunInv' /\ DoneInv'
    <3>1. errors' = errors \/ errors' = errors + 1
      BY ErrorsGrow
    <3>2. errors \in Nat
      BY DEF PoolInv, TypeOK
    <3>3. errors' = errors /\ errors = 0
      BY <2>2, <3>1, <3>2
    <3> QED BY <3>3, RunStep, DoneStep DEF DoneUnfailed, PoolInv, Resumable
  <2> QED BY <2>1, <2>2 DEF DoneUnfailed
<1>3. DoneUnfailed => DoneIsWhole
  BY DEF DoneUnfailed, DoneInv, DownloadFine, Kept, DoneIsWhole
<1> QED BY <1>1, <1>2, <1>3, PTL DEF Spec

-----------------------------------------------------------------------------
(* A pause that was announced holds, with one worker and one caller, even  *)
(* when engines fail.                                                      *)
One == Sole /\ \A v, w \in Workers : v = w

(* Download d is to be taken up.                                           *)
Coming(d) == Given(d) \/ \E w \in Workers : cfg[w] = d /\ pc[w] \in Ahead
Pauses(c) == cpc[c] \in {"paused?", "pausing?", "mark", "flag", "cancel"}
Fresh == {"concurrent", "joined", "save", "context"}
After == {"ended", "returned", "stopped", "clear"}

(* It comes only once, listed as queued, with its flag clear, and not      *)
(* while it is being paused.                                               *)
WayFine(d) ==
  /\ \A i, j \in DOMAIN taskChan : taskChan[i] = d /\ taskChan[j] = d => i = j
  /\ \A c \in Callers : Giving(c) /\ cid[c] = d => \A i \in DOMAIN taskChan : taskChan[i] # d
  /\ \A w \in Workers : pc[w] \in Ahead /\ cfg[w] = d => ~Given(d)
  /\ Coming(d) => /\ downloads[d] = 0 /\ ~Paused[d]
                  /\ d \in queued \/ \E c \in Callers : cpc[c] = "add" /\ cid[c] = d
                  /\ \A c \in Callers : Pauses(c) => cid[c] # d

(* A run that no pause has ended stays in the map, and when it is paused   *)
(* it is marked as pausing.                                                *)
PauseFine(d) ==
  /\ \A c \in Callers : cpc[c] \in {"pausing?", "mark", "flag"} /\ cid[c] = d => ~Paused[d]
  /\ \A w \in Workers : cfg[w] = d /\ pc[w] \in Fresh =>
       /\ downloads[d] # 0
       /\ Paused[d] => Pausing[d]
       /\ pc[w] = "save" => Paused[d]
       /\ \A c \in Callers : cpc[c] = "flag" /\ cid[c] = d => Pausing[d]

(* What was announced as paused rests in the map, paused, as soon as its   *)
(* worker has cleared the mark, until it is resumed.                       *)
PausedFine(d) ==
  told[d] = "paused" =>
    /\ ~Coming(d) => /\ downloads[d] # 0 /\ Paused[d]
                     /\ Pausing[d] => \E w \in Workers : cfg[w] = d /\ pc[w] \in After
    /\ \A w \in Workers : cfg[w] = d =>
         /\ pc[w] \notin Fresh \cup {"reset", "reset2", "single", "forget"}
         /\ pc[w] \in After => ~Coming(d) /\ Pausing[d]
         /\ pc[w] = "ended" => err[w] = "paused"
         /\ pc[w] \in {"clear", "settle"} => isPaused[w]

AllFine(d) == WayFine(d) /\ PauseFine(d) /\ PausedFine(d)
KeptInv ==
  /\ \A w \in Workers : pc[w] = "register" => ad[w] # 0
  /\ \A d \in Downloads \ removed : AllFine(d)

(* A step about another download.                                          *)
LEMMA ElsewhereFine ==
  ASSUME NEW d \in Downloads, AllFine(d),
         downloads'[d] = downloads[d], Paused'[d] = Paused[d], Pausing'[d] = Pausing[d],
         told'[d] = told[d], d \in queued => d \in queued',
         \A i, j \in DOMAIN taskChan' : taskChan'[i] = d /\ taskChan'[j] = d => i = j,
         (\E i \in DOMAIN taskChan' : taskChan'[i] = d)
           <=> \E i \in DOMAIN taskChan : taskChan[i] = d,
         \A c \in Callers : \/ cid'[c] = cid[c] /\ cpc'[c] = cpc[c]
                            \/ /\ cid[c] = d => cpc[c] = "idle"
                               /\ cid'[c] = d => cpc'[c] = "idle",
         \A w \in Workers : \/ /\ cfg'[w] = cfg[w] /\ pc'[w] = pc[w] /\ err'[w] = err[w]
                               /\ isPaused'[w] = isPaused[w]
                            \/ /\ cfg[w] = d => pc[w] \in {"recv", "leave"}
                               /\ cfg'[w] = d => pc'[w] \in {"recv", "gone"}
  PROVE  AllFine(d)'
<1> USE DEF Ahead, After, Fresh
<1>1. \A c \in Callers : /\ (cid'[c] = d /\ cpc'[c] # "idle") <=> (cid[c] = d /\ cpc[c] # "idle")
                         /\ cid'[c] = d /\ cpc'[c] # "idle" => cpc'[c] = cpc[c]
  OBVIOUS
<1>2. \A w \in Workers :
        /\ (cfg'[w] = d /\ pc'[w] \notin {"recv", "gone", "leave"})
             <=> (cfg[w] = d /\ pc[w] \notin {"recv", "gone", "leave"})
        /\ cfg'[w] = d /\ pc'[w] \notin {"recv", "gone", "leave"} =>
             pc'[w] = pc[w] /\ err'[w] = err[w] /\ isPaused'[w] = isPaused[w]
  OBVIOUS
<1>3. Given(d)' = Given(d)
  BY <1>1 DEF Given, Giving
<1>4. Coming(d)' = Coming(d)
  BY <1>2, <1>3 DEF Coming
<1>5. WayFine(d)'
  <2>1. \A c \in Callers : Giving(c)' /\ cid'[c] = d =>
          \A i \in DOMAIN taskChan' : taskChan'[i] # d
    BY <1>1 DEF AllFine, WayFine, Giving
  <2>2. \A w \in Workers : pc'[w] \in Ahead /\ cfg'[w] = d => ~Given(d)'
    BY <1>2, <1>3 DEF AllFine, WayFine
  <2>3. ASSUME Coming(d)'
        PROVE  /\ downloads'[d] = 0 /\ ~Paused'[d]
               /\ d \in queued' \/ \E c \in Callers : cpc'[c] = "add" /\ cid'[c] = d
               /\ \A c \in Callers : Pauses(c)' => cid'[c] # d
    BY <1>1, <1>4, <2>3 DEF AllFine, WayFine, Pauses
  <2> QED BY <2>1, <2>2, <2>3 DEF WayFine
<1>6. PauseFine(d)'
  BY <1>1, <1>2 DEF AllFine, PauseFine
<1>7. PausedFine(d)'
  BY <1>2, <1>4 DEF AllFine, PausedFine
<1> QED BY <1>5, <1>6, <1>7 DEF AllFine

(* What a worker does to other downloads than its own.                     *)
LEMMA WorkElsewhere ==
  ASSUME TypeOK, NEW w \in Workers, WorkerStep(w), NEW d \in Downloads, cfg[w] # d
  PROVE  /\ downloads'[d] = downloads[d] /\ Paused'[d] = Paused[d] /\ Pausing'[d] = Pausing[d]
         /\ told'[d] = told[d] /\ (d \in queued => d \in queued')
<1>1. CASE Receive(w) \/ Exit(w) \/ CheckQueued(w) \/ Start(w) \/ Register(w)
  BY <1>1 DEF Receive, Exit, CheckQueued, Start, Register, pool, states, flags, files, TypeOK
<1>2. CASE \/ TransferEnds(w) \/ BootstrapCanceled(w) \/ AskPaused(w)
           \/ HandlePause(w) \/ CheckContext(w)
  BY <1>2 DEF TransferEnds, BootstrapCanceled, AskPaused, HandlePause, CheckContext,
              EngineKeeps, pool, flags, files, TypeOK
<1>3. CASE \/ ConcurrentFails(w) \/ ResetPaused(w) \/ ResetPausing(w) \/ SingleEnds(w)
  BY <1>3 DEF ConcurrentFails, ResetPaused, ResetPausing, SingleEnds,
              EngineKeeps, pool, flags, files, TypeOK
<1>4. CASE Report(w)
  <2>1. UNCHANGED <<downloads, queued, Paused, Pausing>>
    BY <1>4 DEF Report, EngineKeeps, pool, flags
  <2>2. told' = told \/ \E l : told' = [told EXCEPT ![cfg[w]] = l]
    <3>1. err[w] \in {"nil", "paused", "canceled", "error"}
      BY DEF TypeOK
    <3>2. CASE err[w] = "paused" \/ Paused[cfg[w]]
      BY <1>4, <3>2 DEF Report
    <3>3. CASE err[w] # "paused" /\ ~Paused[cfg[w]]
      BY <1>4, <3>1, <3>3 DEF Report
    <3> QED BY <3>2, <3>3
  <2> QED BY <2>1, <2>2 DEF TypeOK
<1>5. CASE \/ NotRunning(w) \/ ReadPaused(w) \/ ClearPausing(w)
           \/ Settle(w) \/ Forget(w) \/ Leave(w)
  BY <1>5 DEF NotRunning, ReadPaused, ClearPausing, Settle, Forget, Leave,
              pool, states, flags, files, TypeOK
<1> QED BY <1>1, <1>2, <1>3, <1>4, <1>5 DEF WorkerStep

LEMMA WorkerElsewhereFine ==
  ASSUME TypeOK, Held, One, NEW w \in Workers, WorkerStep(w), NEW d \in Downloads, AllFine(d),
         cfg[w] = d => pc[w] \in {"recv", "leave"}, cfg'[w] = d => pc'[w] \in {"recv", "gone"}
  PROVE  AllFine(d)'
<1>0. cpc' = cpc /\ cid' = cid
  BY OthersStay DEF caller
<1>1. \A v \in Workers : v = w
  BY DEF One
<1>2. /\ downloads'[d] = downloads[d] /\ Paused'[d] = Paused[d] /\ Pausing'[d] = Pausing[d]
      /\ told'[d] = told[d] /\ (d \in queued => d \in queued')
  <2>1. CASE cfg[w] # d
    BY <2>1, WorkElsewhere
  <2>2. CASE pc[w] \in {"recv", "leave"}
    BY <2>2 DEF WorkerStep, Receive, Exit, CheckQueued, Start, Register,
       TransferEnds, BootstrapCanceled, AskPaused, HandlePause, CheckContext,
       ConcurrentFails, ResetPaused, ResetPausing, SingleEnds, Report,
       NotRunning, ReadPaused, ClearPausing, Settle, Forget, Leave, pool, states, flags, files
  <2> QED BY <2>1, <2>2
<1>3. CASE Receive(w)
  <2>0. /\ taskChan \in Seq(Downloads) /\ taskChan # <<>> /\ taskChan' = Tail(taskChan)
        /\ cfg'[w] = Head(taskChan) /\ pc'[w] = "check"
    BY <1>3 DEF Receive, GoTo, TypeOK
  <2>1. /\ 1 \in DOMAIN taskChan /\ Head(taskChan) = taskChan[1]
        /\ \A i \in DOMAIN taskChan' :
             i \in Nat /\ i + 1 # 1 /\ i + 1 \in DOMAIN taskChan /\ taskChan'[i] = taskChan[i + 1]
    BY <2>0, TailEntries
  <2>2. taskChan[1] # d
    BY <2>0, <2>1
  <2>3. \A i \in DOMAIN taskChan :
          i = 1 \/ (i - 1 \in DOMAIN taskChan' /\ taskChan'[i - 1] = taskChan[i])
    <3>1. /\ Len(taskChan) \in Nat /\ DOMAIN taskChan = 1..Len(taskChan)
          /\ Len(taskChan') = Len(taskChan) - 1 /\ DOMAIN taskChan' = 1..Len(taskChan')
      BY <2>0, HeadTailProperties, LenProperties
    <3>2. \A i \in 1..(Len(taskChan) - 1) : taskChan'[i] = taskChan[i + 1]
      BY <2>1, <3>1
    <3> QED BY <3>1, <3>2
  <2>4. \A i, j \in DOMAIN taskChan' : taskChan'[i] = d /\ taskChan'[j] = d => i = j
    <3> SUFFICES ASSUME NEW i \in DOMAIN taskChan', NEW j \in DOMAIN taskChan',
                        taskChan'[i] = d, taskChan'[j] = d
                 PROVE  i = j
      OBVIOUS
    <3>1. i + 1 = j + 1
      BY <2>1 DEF AllFine, WayFine
    <3> QED BY <2>1, <3>1
  <2>5. (\E i \in DOMAIN taskChan' : taskChan'[i] = d)
        <=> \E i \in DOMAIN taskChan : taskChan[i] = d
    BY <2>1, <2>2, <2>3
  <2> QED BY <1>0, <1>1, <1>2, <2>4, <2>5, ElsewhereFine
<1>4. CASE ~Receive(w)
  <2>1. taskChan' = taskChan
    BY <1>4, WorkKeeps
  <2>2. \A i, j \in DOMAIN taskChan' : taskChan'[i] = d /\ taskChan'[j] = d => i = j
    BY <2>1 DEF AllFine, WayFine
  <2> QED BY <1>0, <1>1, <1>2, <2>1, <2>2, ElsewhereFine
<1> QED BY <1>3, <1>4

(* A worker takes d from the channel.                                      *)
LEMMA ReceivedFine ==
  ASSUME TypeOK, One, NEW w \in Workers, Receive(w), NEW d \in Downloads, AllFine(d),
         cfg'[w] = d
  PROVE  AllFine(d)'
<1> USE DEF Ahead
<1>1. /\ taskChan \in Seq(Downloads) /\ taskChan # <<>> /\ taskChan' = Tail(taskChan)
      /\ cfg'[w] = Head(taskChan) /\ pc'[w] = "check" /\ pc[w] = "recv"
      /\ cpc' = cpc /\ cid' = cid /\ queued' = queued /\ downloads' = downloads
      /\ Paused' = Paused /\ Pausing' = Pausing /\ told' = told
  BY DEF Receive, GoTo, WorkerKeeps, caller, states, flags, files, TypeOK
<1>2. /\ 1 \in DOMAIN taskChan /\ taskChan[1] = d
      /\ \A i \in DOMAIN taskChan' :
           i \in Nat /\ i + 1 # 1 /\ i + 1 \in DOMAIN taskChan /\ taskChan'[i] = taskChan[i + 1]
  BY <1>1, TailEntries
<1>3. \A i \in DOMAIN taskChan' : taskChan'[i] # d
  BY <1>2 DEF AllFine, WayFine
<1>4. \A c \in Callers : ~(Giving(c) /\ cid[c] = d)
  BY <1>2 DEF AllFine, WayFine
<1>5. Coming(d) /\ Coming(d)' /\ ~Given(d)'
  BY <1>1, <1>2, <1>3, <1>4 DEF Coming, Given, Giving
<1>6. \A v \in Workers : v = w
  BY DEF One
<1>7. WayFine(d)'
  BY <1>1, <1>3, <1>4, <1>5, <1>6 DEF AllFine, WayFine, Giving, Pauses
<1>8. PauseFine(d)'
  BY <1>1, <1>6 DEF AllFine, PauseFine, Fresh
<1>9. PausedFine(d)'
  BY <1>1, <1>5, <1>6 DEF AllFine, PausedFine, Fresh, After
<1> QED BY <1>7, <1>8, <1>9 DEF AllFine

(* A step of the worker of d: what is on its way is not disturbed.         *)
LEMMA WorkWays ==
  ASSUME TypeOK, One, NEW w \in Workers, NEW d \in Downloads, AllFine(d),
         taskChan' = taskChan, cpc' = cpc, cid' = cid,
         cfg[w] = d, cfg'[w] = d,
         pc'[w] \in Ahead => pc[w] \in Ahead /\ d \in queued',
         pc[w] \notin Ahead /\ d \in queued => d \in queued',
         Coming(d)' => downloads'[d] \in {0, downloads[d]} /\ (Paused'[d] => Paused[d])
  PROVE  /\ WayFine(d)'
         /\ Given(d)' = Given(d)
         /\ Coming(d)' => Coming(d)
<1>1. \A v \in Workers : v = w
  BY DEF One
<1>2. Given(d)' = Given(d) /\ \A c \in Callers : Giving(c)' = Giving(c) /\ Pauses(c)' = Pauses(c)
  BY DEF Given, Giving, Pauses
<1>3. Coming(d)' => Coming(d)
  BY <1>1, <1>2 DEF Coming
<1>4. \A i, j \in DOMAIN taskChan' : taskChan'[i] = d /\ taskChan'[j] = d => i = j
  BY DEF AllFine, WayFine
<1>5. \A c \in Callers : Giving(c)' /\ cid'[c] = d => \A i \in DOMAIN taskChan' : taskChan'[i] # d
  BY <1>2 DEF AllFine, WayFine
<1>6. \A v \in Workers : pc'[v] \in Ahead /\ cfg'[v] = d => ~Given(d)'
  BY <1>1, <1>2 DEF AllFine, WayFine
<1>7. ASSUME Coming(d)'
      PROVE  /\ downloads'[d] = 0 /\ ~Paused'[d]
             /\ d \in queued' \/ \E c \in Callers : cpc'[c] = "add" /\ cid'[c] = d
             /\ \A c \in Callers : Pauses(c)' => cid'[c] # d
  <2>1. /\ downloads[d] = 0 /\ ~Paused[d]
        /\ d \in queued \/ \E c \in Callers : cpc[c] = "add" /\ cid[c] = d
        /\ \A c \in Callers : Pauses(c) => cid[c] # d
    BY <1>3, <1>7 DEF AllFine, WayFine
  <2>2. d \in queued' \/ \E c \in Callers : cpc[c] = "add" /\ cid[c] = d
    <3>1. CASE pc'[w] \in Ahead
      BY <3>1
    <3>2. CASE pc'[w] \notin Ahead
      <4>1. Given(d)
        BY <1>1, <1>2, <1>7, <3>2 DEF Coming
      <4>2. pc[w] \notin Ahead
        BY <4>1 DEF AllFine, WayFine
      <4> QED BY <2>1, <4>2
    <3> QED BY <3>1, <3>2
  <2> QED BY <1>2, <1>7, <2>1, <2>2
<1>8. WayFine(d)'
  BY <1>4, <1>5, <1>6, <1>7 DEF WayFine
<1> QED BY <1>2, <1>3, <1>8

LEMMA WorkedFine ==
  ASSUME TypeOK, Held, One, OpenWhileSole, NEW w \in Workers, WorkerStep(w), ~Receive(w),
         pc[w] = "register" => ad[w] # 0,
         NEW d \in Downloads, AllFine(d), cfg[w] = d, pc[w] # "recv", cfg'[w] = d
  PROVE  AllFine(d)'
<1> USE DEF Ahead, Fresh, After
<1>0. ASSUME NEW l, GoTo(w, l)
      PROVE  pc'[w] = l
  BY <1>0 DEF GoTo, TypeOK
<1>1. /\ taskChan' = taskChan /\ cpc' = cpc /\ cid' = cid
      /\ \A v \in Workers : v = w
      /\ \A c \in Callers : Giving(c)' = Giving(c) /\ Pauses(c)' = Pauses(c)
  BY WorkKeeps, OthersStay DEF caller, One, Giving, Pauses
<1>2. ASSUME WayFine(d)', Given(d)' = Given(d), Coming(d)' => Coming(d), PauseFine(d)',
             told'[d] = told[d],
             told[d] = "paused" =>
               /\ ~Coming(d)' => /\ downloads'[d] # 0 /\ Paused'[d]
                                 /\ Pausing'[d] => pc'[w] \in After
               /\ pc'[w] \notin Fresh \cup {"reset", "reset2", "single", "forget"}
               /\ pc'[w] \in After => ~Coming(d)' /\ Pausing'[d]
               /\ pc'[w] = "ended" => err'[w] = "paused"
               /\ pc'[w] \in {"clear", "settle"} => isPaused'[w]
      PROVE  AllFine(d)'
  <2>1. PausedFine(d)'
    BY <1>1, <1>2 DEF PausedFine
  <2> QED BY <1>2, <2>1 DEF AllFine
<1>3. /\ WayFine(d) /\ PauseFine(d) /\ PausedFine(d)
      /\ told[d] = "paused" =>
               /\ ~Coming(d) => /\ downloads[d] # 0 /\ Paused[d]
                                /\ Pausing[d] => pc[w] \in After
               /\ pc[w] \notin Fresh \cup {"reset", "reset2", "single", "forget"}
               /\ pc[w] \in After => ~Coming(d) /\ Pausing[d]
               /\ pc[w] = "ended" => err[w] = "paused"
               /\ pc[w] \in {"clear", "settle"} => isPaused[w]
  BY <1>1 DEF AllFine, PausedFine
<1>4. CASE CheckQueued(w)
  <2>1. /\ pc[w] = "check" /\ pc'[w] = IF d \in queued THEN "start" ELSE "recv"
        /\ queued' = queued /\ downloads' = downloads /\ Paused' = Paused /\ Pausing' = Pausing
        /\ told' = told
    BY <1>0, <1>4 DEF CheckQueued, pool, states, flags, files
  <2>2. Coming(d) /\ ~Given(d)
    BY <1>3, <2>1 DEF Coming, WayFine
  <2>3. d \in queued
    BY <1>3, <2>2 DEF WayFine, Given, Giving
  <2>4. Coming(d)'
    BY <2>1, <2>3 DEF Coming
  <2>5. WayFine(d)' /\ Given(d)' = Given(d) /\ (Coming(d)' => Coming(d))
    BY <1>1, <2>1, <2>3, WorkWays
  <2>6. PauseFine(d)'
    BY <1>1, <1>3, <2>1, <2>3 DEF PauseFine
  <2> QED BY <1>2, <2>1, <2>3, <2>4, <2>5, <2>6
<1>5. CASE Start(w)
  <2>1. /\ pc[w] = "start" /\ pc'[w] = "register"
        /\ queued' = queued /\ downloads' = downloads /\ Paused' = Paused /\ Pausing' = Pausing
        /\ told' = told
    BY <1>0, <1>5 DEF Start, flags, files
  <2>2. Coming(d) /\ ~Given(d)
    BY <1>3, <2>1 DEF Coming, WayFine
  <2>3. d \in queued
    BY <1>3, <2>2 DEF WayFine, Given, Giving
  <2>4. Coming(d)'
    BY <2>1 DEF Coming
  <2>5. WayFine(d)' /\ Given(d)' = Given(d) /\ (Coming(d)' => Coming(d))
    BY <1>1, <2>1, <2>3, WorkWays
  <2>6. PauseFine(d)'
    BY <1>1, <1>3, <2>1 DEF PauseFine
  <2> QED BY <1>2, <2>1, <2>4, <2>5, <2>6
<1>6. CASE Register(w)
  <2>1. /\ pc[w] = "register" /\ pc'[w] \in {"concurrent", "single"}
        /\ downloads'[d] = ad[w] /\ ad[w] # 0 /\ Paused' = Paused /\ Pausing' = Pausing
        /\ told'[d] = "started"
    BY <1>0, <1>6 DEF Register, states, flags, TypeOK
  <2>2. Coming(d) /\ ~Given(d)
    BY <1>3, <2>1 DEF Coming, WayFine
  <2>3. ~Paused[d] /\ \A c \in Callers : Pauses(c) => cid[c] # d
    BY <1>3, <2>2 DEF WayFine
  <2>4. ~Given(d)' /\ ~Coming(d)'
    BY <1>1, <2>1, <2>2 DEF Coming, Given
  <2>5. WayFine(d)'
    BY <1>1, <1>3, <2>4 DEF WayFine
  <2>6. PauseFine(d)'
    BY <1>1, <2>1, <2>3 DEF PauseFine, Pauses
  <2>7. PausedFine(d)'
    BY <2>1 DEF PausedFine
  <2> QED BY <2>5, <2>6, <2>7 DEF AllFine
<1>7. ASSUME queued' = queued, pc[w] \notin Ahead, pc'[w] \notin Ahead,
             Coming(d)' => downloads'[d] \in {0, downloads[d]} /\ (Paused'[d] => Paused[d])
      PROVE  /\ WayFine(d)' /\ Given(d)' = Given(d)
             /\ Coming(d)' <=> Coming(d)
  <2>1. WayFine(d)' /\ Given(d)' = Given(d)
    BY <1>1, <1>7, WorkWays
  <2>2. Coming(d) <=> Given(d)
    BY <1>1, <1>7 DEF Coming
  <2>3. Coming(d)' <=> Given(d)'
    BY <1>1, <1>7 DEF Coming
  <2> QED BY <2>1, <2>2, <2>3
<1>8. CASE TransferEnds(w) \/ BootstrapCanceled(w) \/ AskPaused(w) \/ CheckContext(w)
  <2>1. /\ pc[w] \in Fresh /\ pc'[w] \in {"joined", "ended", "save", "context"}
        /\ pc'[w] = "save" => Paused[d]
        /\ queued' = queued /\ downloads' = downloads /\ Paused' = Paused /\ Pausing' = Pausing
        /\ told' = told
    BY <1>0, <1>8 DEF TransferEnds, BootstrapCanceled, AskPaused, CheckContext, EngineKeeps,
       pool, flags, files
  <2>2. told[d] # "paused"
    BY <1>3, <2>1
  <2>3. WayFine(d)' /\ Given(d)' = Given(d) /\ (Coming(d)' <=> Coming(d))
    BY <1>7, <2>1
  <2>4. PauseFine(d)'
    BY <1>1, <1>3, <2>1 DEF PauseFine
  <2> QED BY <1>2, <2>1, <2>2, <2>3, <2>4
<1>9. CASE HandlePause(w)
  <2>1. /\ pc[w] = "save" /\ pc'[w] = "ended"
        /\ queued' = queued /\ downloads' = downloads /\ Pausing' = Pausing
    BY <1>0, <1>9 DEF HandlePause, EngineKeeps, pool
  <2>2. \/ told' = told /\ Paused' = [Paused EXCEPT ![d] = FALSE]
        \/ told'[d] = "paused" /\ err'[w] = "paused" /\ Paused' = Paused
    BY <1>9 DEF HandlePause, TypeOK
  <2>3. downloads[d] # 0 /\ Paused[d] /\ Pausing[d] /\ told[d] # "paused"
    BY <1>3, <2>1 DEF PauseFine
  <2>4. ~Coming(d)
    BY <1>3, <2>3 DEF WayFine
  <2>5. Paused'[d] => Paused[d]
    BY <2>3
  <2>6. WayFine(d)' /\ Given(d)' = Given(d) /\ ~Coming(d)'
    BY <1>7, <2>1, <2>4, <2>5
  <2>7. PauseFine(d)'
    <3>1. \A c \in Callers : cpc'[c] \in {"pausing?", "mark", "flag"} /\ cid'[c] = d => ~Paused'[d]
      BY <1>1, <1>3, <2>5 DEF PauseFine
    <3> QED BY <1>1, <2>1, <3>1 DEF PauseFine
  <2>8. PausedFine(d)'
    BY <1>1, <2>1, <2>2, <2>3, <2>6 DEF PausedFine
  <2> QED BY <2>6, <2>7, <2>8 DEF AllFine
<1>10. CASE ConcurrentFails(w) \/ ResetPaused(w) \/ ResetPausing(w) \/ SingleEnds(w)
  <2>1. /\ pc[w] \in {"concurrent", "reset", "reset2", "single"}
        /\ pc'[w] \in {"reset", "reset2", "single", "ended"}
        /\ queued' = queued /\ downloads' = downloads /\ told' = told
        /\ Paused' = Paused \/ Paused' = [Paused EXCEPT ![d] = FALSE]
    BY <1>0, <1>10 DEF ConcurrentFails, ResetPaused, ResetPausing, SingleEnds, EngineKeeps,
       pool, flags, files
  <2>2. told[d] # "paused" /\ (Paused'[d] => Paused[d])
    BY <1>3, <2>1 DEF TypeOK
  <2>3. WayFine(d)' /\ Given(d)' = Given(d) /\ (Coming(d)' <=> Coming(d))
    BY <1>7, <2>1, <2>2
  <2>4. PauseFine(d)'
    BY <1>1, <1>3, <2>1, <2>2 DEF PauseFine
  <2> QED BY <1>2, <2>1, <2>2, <2>3, <2>4
<1>11. CASE Report(w)
  <2>1. /\ pc[w] = "ended" /\ pc'[w] = "returned"
        /\ queued' = queued /\ downloads' = downloads /\ Paused' = Paused /\ Pausing' = Pausing
    BY <1>0, <1>11 DEF Report, EngineKeeps, pool, flags
  <2>2. told' = told \/ (told[d] # "paused" /\ told'[d] # "paused")
    <3>1. err[w] \in {"nil", "paused", "canceled", "error"}
      BY DEF TypeOK
    <3>2. CASE err[w] = "paused" \/ Paused[cfg[w]]
      BY <1>11, <3>2 DEF Report
    <3>3. CASE err[w] # "paused" /\ ~Paused[cfg[w]]
      <4>1. told[d] # "paused"
        BY <1>3, <2>1, <3>3
      <4>2. \/ told' = told
            \/ told' = [told EXCEPT ![d] = "complete"]
            \/ told' = [told EXCEPT ![d] = "error"]
        BY <1>11, <3>1, <3>3 DEF Report
      <4> QED BY <4>1, <4>2 DEF TypeOK
    <3> QED BY <3>2, <3>3
  <2>3. WayFine(d)' /\ Given(d)' = Given(d) /\ (Coming(d)' <=> Coming(d))
    BY <1>7, <2>1
  <2>4. PauseFine(d)'
    BY <1>1, <1>3, <2>1 DEF PauseFine
  <2>5. CASE told' = told
    BY <1>2, <1>3, <2>1, <2>3, <2>4, <2>5
  <2>6. CASE told'[d] # "paused"
    BY <2>3, <2>4, <2>6 DEF AllFine, PausedFine
  <2> QED BY <2>2, <2>5, <2>6
<1>12. CASE NotRunning(w) \/ ReadPaused(w)
  <2>1. /\ pc[w] \in {"returned", "stopped"} /\ pc'[w] \in {"stopped", "clear"}
        /\ pc'[w] = "clear" => isPaused'[w] = Paused[d]
        /\ queued' = queued /\ downloads' = downloads /\ Paused' = Paused /\ Pausing' = Pausing
        /\ told' = told
    BY <1>0, <1>12 DEF NotRunning, ReadPaused, pool, states, flags, files, TypeOK
  <2>2. WayFine(d)' /\ Given(d)' = Given(d) /\ (Coming(d)' <=> Coming(d))
    BY <1>7, <2>1
  <2>3. PauseFine(d)'
    BY <1>1, <1>3, <2>1 DEF PauseFine
  <2> QED BY <1>2, <1>3, <2>1, <2>2, <2>3
<1>13. CASE ClearPausing(w)
  <2>1. /\ pc[w] = "clear" /\ pc'[w] = "settle"
        /\ queued' = queued /\ downloads' = downloads /\ Paused' = Paused /\ ~Pausing'[d]
        /\ told' = told /\ isPaused' = isPaused
    BY <1>0, <1>13 DEF ClearPausing, pool, files, TypeOK
  <2>2. WayFine(d)' /\ Given(d)' = Given(d) /\ (Coming(d)' <=> Coming(d))
    BY <1>7, <2>1
  <2>3. PauseFine(d)'
    BY <1>1, <1>3, <2>1 DEF PauseFine
  <2> QED BY <1>2, <1>3, <2>1, <2>2, <2>3
<1>14. CASE Settle(w)
  <2>1. /\ pc[w] = "settle" /\ pc'[w] = IF isPaused[w] THEN "leave" ELSE "forget"
        /\ queued' = queued /\ downloads' = downloads /\ Paused' = Paused /\ Pausing' = Pausing
        /\ told' = told
    BY <1>0, <1>14 DEF Settle, pool, files
  <2>2. WayFine(d)' /\ Given(d)' = Given(d) /\ (Coming(d)' <=> Coming(d))
    BY <1>7, <2>1
  <2>3. PauseFine(d)'
    BY <1>1, <1>3, <2>1 DEF PauseFine
  <2> QED BY <1>2, <1>3, <2>1, <2>2, <2>3
<1>15. CASE Forget(w)
  <2>1. /\ pc[w] = "forget" /\ pc'[w] = "leave"
        /\ queued' = queued /\ downloads'[d] = 0 /\ Paused' = Paused /\ Pausing' = Pausing
        /\ told' = told
    BY <1>0, <1>15 DEF Forget, states, flags, files, TypeOK
  <2>2. WayFine(d)' /\ Given(d)' = Given(d) /\ (Coming(d)' <=> Coming(d))
    BY <1>7, <2>1
  <2>3. PauseFine(d)'
    BY <1>1, <1>3, <2>1 DEF PauseFine
  <2> QED BY <1>2, <1>3, <2>1, <2>2, <2>3
<1>16. ~Exit(w) /\ ~Leave(w)
  <2>1. ~Exit(w)
    BY DEF Exit
  <2>2. Leave(w) => cfg'[w] = NoDownload
    BY DEF Leave, TypeOK
  <2> QED BY <2>1, <2>2, PoolAssumption
<1> QED BY <1>4, <1>5, <1>6, <1>8, <1>9, <1>10, <1>11, <1>12, <1>13, <1>14, <1>15, <1>16
        DEF WorkerStep

(* A step of a caller about d.                                             *)
LEMMA CalledFine ==
  ASSUME TypeOK, Held, One, OpenWhileSole, NEW c \in Callers, CallerStep(c),
         NEW d \in Downloads, AllFine(d), cid[c] = d
  PROVE  AllFine(d)'
<1>1. /\ downloads' = downloads /\ told' = told /\ pc' = pc /\ cfg' = cfg /\ err' = err
      /\ isPaused' = isPaused /\ queued \subseteq queued'
  BY DEF CallerStep, Add, Send, SendPanics, PauseSeen, PauseUnderWay, PauseMark, PauseFlag,
     PauseCancel, CancelStop, CancelDone, CallerKeeps, pool, worker, files
<1>2. \A b \in Callers : b = c
  BY DEF One, Sole
<1>3. c \in DOMAIN cpc /\ c \in DOMAIN cid
  BY DEF TypeOK
<1>4. WayFine(d) /\ PauseFine(d) /\ PausedFine(d)
  BY DEF AllFine
<1>5. CASE Add(c)
  <2>1. /\ taskChan' = taskChan /\ cpc[c] = "add" /\ cpc'[c] = "send" /\ cid' = cid
        /\ d \in queued' /\ Paused' = Paused /\ Pausing' = Pausing
    BY <1>3, <1>5 DEF Add, CallTo, states, flags
  <2>2. Given(d) /\ Given(d)' /\ Coming(d) /\ Coming(d)' /\ ~Pauses(c)'
    BY <2>1 DEF Given, Giving, Coming, Pauses
  <2>3. WayFine(d)'
    BY <1>1, <1>2, <1>4, <2>1, <2>2 DEF WayFine, Giving
  <2>4. PauseFine(d)'
    BY <1>1, <1>2, <1>4, <2>1 DEF PauseFine
  <2>5. PausedFine(d)'
    BY <1>1, <1>4, <2>1, <2>2 DEF PausedFine
  <2> QED BY <2>3, <2>4, <2>5 DEF AllFine
<1>6. CASE Send(c)
  <2>1. /\ taskChan \in Seq(Downloads) /\ taskChan' = Append(taskChan, d)
        /\ cpc[c] = "send" /\ cpc'[c] = "idle" /\ queued' = queued
        /\ Paused' = Paused /\ Pausing' = Pausing
    BY <1>3, <1>6 DEF Send, Return, CallTo, states, flags, TypeOK
  <2>2. \A i \in DOMAIN taskChan' :
          \/ i \in DOMAIN taskChan /\ taskChan'[i] = taskChan[i]
          \/ i = Len(taskChan) + 1 /\ taskChan'[i] = d /\ i \notin DOMAIN taskChan
    BY <2>1, AppendEntries
  <2>3. /\ Given(d) /\ Coming(d) /\ Giving(c) /\ ~Giving(c)' /\ ~Pauses(c)'
        /\ \A i \in DOMAIN taskChan : taskChan[i] # d
    BY <1>4, <2>1 DEF Given, Giving, Coming, WayFine, Pauses
  <2>4. Len(taskChan) + 1 \in DOMAIN taskChan' /\ taskChan'[Len(taskChan) + 1] = d
    BY <2>1, AppendProperties, LenProperties
  <2>5. Coming(d)'
    BY <2>4 DEF Coming, Given
  <2>6. \A w \in Workers : ~(pc[w] \in Ahead /\ cfg[w] = d)
    BY <1>4, <2>3 DEF WayFine
  <2>7. WayFine(d)'
    BY <1>1, <1>2, <1>4, <2>1, <2>2, <2>3, <2>6 DEF WayFine
  <2>8. PauseFine(d)'
    BY <1>1, <1>2, <1>4, <2>1 DEF PauseFine
  <2>9. PausedFine(d)'
    BY <1>1, <1>4, <2>1, <2>3, <2>5 DEF PausedFine
  <2> QED BY <2>7, <2>8, <2>9 DEF AllFine
<1>7. ~SendPanics(c)
  BY DEF SendPanics, OpenWhileSole, One
<1>8. CASE PauseSeen(c) \/ PauseUnderWay(c) \/ PauseMark(c) \/ PauseFlag(c) \/ PauseCancel(c)
  <2>1. /\ Pauses(c) /\ ~Giving(c) /\ ~Giving(c)' /\ taskChan' = taskChan
        /\ cpc'[c] \in {"idle", "pausing?", "mark", "flag", "cancel"}
        /\ cpc'[c] # "idle" => cid'[c] = d
    BY <1>3, <1>8 DEF PauseSeen, PauseUnderWay, PauseMark, PauseFlag, PauseCancel, CallTo, Return,
       Pauses, Giving, pool
  <2>2. ~Coming(d)
    BY <1>4, <2>1 DEF WayFine
  <2>3. Given(d)' <=> Given(d)
    BY <1>2, <2>1 DEF Given
  <2>4. ~Coming(d)'
    BY <1>1, <2>2, <2>3 DEF Coming
  <2>5. WayFine(d)'
    BY <1>1, <1>2, <1>4, <2>1, <2>3, <2>4 DEF WayFine
  <2>6. CASE PauseSeen(c) \/ PauseUnderWay(c) \/ PauseCancel(c)
    <3>1. /\ Paused' = Paused /\ Pausing' = Pausing
          /\ cpc'[c] \in {"pausing?", "mark"} =>
               ~Paused[d] \/ cpc[c] \in {"pausing?", "mark", "flag"}
          /\ cpc'[c] # "flag"
      BY <1>3, <2>6 DEF PauseSeen, PauseUnderWay, PauseCancel, CallTo, Return, states, flags
    <3>2. PauseFine(d)'
      BY <1>1, <1>2, <1>4, <2>1, <3>1 DEF PauseFine
    <3>3. PausedFine(d)'
      BY <1>1, <1>4, <2>2, <2>4, <3>1 DEF PausedFine
    <3> QED BY <2>5, <3>2, <3>3 DEF AllFine
  <2>7. CASE PauseMark(c)
    <3>1. Paused' = Paused /\ Pausing'[d] /\ ~Paused[d]
      BY <1>4, <2>7 DEF PauseMark, PauseFine, TypeOK
    <3>2. told[d] # "paused"
      BY <1>4, <2>2, <3>1 DEF PausedFine
    <3>3. PauseFine(d)'
      BY <1>1, <1>2, <1>4, <2>1, <3>1 DEF PauseFine
    <3> QED BY <1>1, <2>5, <3>2, <3>3 DEF AllFine, PausedFine
  <2>8. CASE PauseFlag(c)
    <3>1. /\ cpc[c] = "flag" /\ cpc'[c] = "cancel" /\ Paused'[d] /\ Pausing' = Pausing
          /\ ~Paused[d]
      BY <1>3, <1>4, <2>8 DEF PauseFlag, PauseFine, CallTo, TypeOK
    <3>2. told[d] # "paused"
      BY <1>4, <2>2, <3>1 DEF PausedFine
    <3>3. PauseFine(d)'
      BY <1>1, <1>2, <1>4, <2>1, <3>1 DEF PauseFine
    <3> QED BY <1>1, <2>5, <3>2, <3>3 DEF AllFine, PausedFine
  <2> QED BY <1>8, <2>6, <2>7, <2>8
<1>9. CASE CancelStop(c) \/ CancelDone(c)
  <2>1. /\ ~Giving(c) /\ ~Giving(c)' /\ ~Pauses(c)' /\ taskChan' = taskChan /\ queued' = queued
        /\ cpc'[c] \in {"idle", "done"} /\ cpc[c] # "add"
        /\ Paused' = Paused /\ Pausing' = Pausing
    BY <1>3, <1>9 DEF CancelStop, CancelDone, CallTo, Return, Giving, Pauses, pool, states, flags
  <2>2. Given(d)' <=> Given(d)
    BY <1>2, <2>1 DEF Given
  <2>3. Coming(d)' <=> Coming(d)
    BY <1>1, <2>2 DEF Coming
  <2>4. WayFine(d)'
    BY <1>1, <1>2, <1>4, <2>1, <2>2, <2>3 DEF WayFine
  <2>5. PauseFine(d)'
    BY <1>1, <1>2, <1>4, <2>1 DEF PauseFine
  <2>6. PausedFine(d)'
    BY <1>1, <1>4, <2>1, <2>3 DEF PausedFine
  <2> QED BY <2>4, <2>5, <2>6 DEF AllFine
<1> QED BY <1>5, <1>6, <1>7, <1>8, <1>9 DEF CallerStep

(* A call about d that does not remove it.                                 *)
LEMMA BegunFine ==
  ASSUME TypeOK, Held, One, Untouched, NEW c \in Callers, NEW d \in Downloads, Call(c, d),
         AllFine(d), d \notin removed'
  PROVE  AllFine(d)'
<1>1. \A b \in Callers : b = c
  BY DEF One, Sole
<1>2. /\ told' = told /\ pc' = pc /\ cfg' = cfg /\ err' = err /\ isPaused' = isPaused
      /\ taskChan' = taskChan /\ Pausing' = Pausing
      /\ cpc[c] = "idle" /\ c \in DOMAIN cpc /\ c \in DOMAIN cid
      /\ \A b \in Callers : ~Giving(b)
  BY <1>1 DEF Call, Enqueue, PauseLookup, ExtractPausedConfig, Cancel, CallerKeeps, worker, files,
     pool, states, flags, Giving, TypeOK
<1>3. ~Cancel(c, d)
  BY DEF Cancel
<1>4. WayFine(d) /\ PauseFine(d) /\ PausedFine(d)
  BY DEF AllFine
<1>5. CASE PauseLookup(c, d)
  <2>0. c # Closer
    BY DEF One, Sole
  <2>1. /\ downloads[d] # 0 /\ downloads' = downloads /\ queued' = queued
        /\ cpc'[c] = "paused?" /\ cid'[c] = d /\ Paused' = Paused
    BY <1>2, <1>5, <2>0 DEF PauseLookup, CallTo, pool, states, flags
  <2>2. ~Coming(d)
    BY <1>4, <2>1 DEF WayFine
  <2>3. ~Given(d)' /\ ~Coming(d)'
    BY <1>1, <1>2, <2>1, <2>2 DEF Coming, Given, Giving
  <2>4. WayFine(d)'
    BY <1>2, <1>4, <2>3 DEF WayFine, Given
  <2>5. PauseFine(d)'
    BY <1>1, <1>2, <1>4, <2>1 DEF PauseFine
  <2>6. PausedFine(d)'
    BY <1>2, <1>4, <2>1, <2>2, <2>3 DEF PausedFine
  <2> QED BY <2>4, <2>5, <2>6 DEF AllFine
<1>6. ASSUME cpc'[c] = "add", cid'[c] = d, downloads'[d] = 0, ~Paused'[d], ~Given(d),
             \A w \in Workers : cfg[w] = d => pc[w] \notin Ahead \cup Fresh,
             told[d] = "paused" => \A w \in Workers : cfg[w] = d => pc[w] \notin After
      PROVE  AllFine(d)'
  <2>1. Coming(d)' /\ ~Pauses(c)'
    BY <1>6 DEF Coming, Given, Giving, Pauses
  <2>2. WayFine(d)'
    BY <1>1, <1>2, <1>6, <2>1 DEF WayFine, Given
  <2>3. PauseFine(d)'
    BY <1>1, <1>2, <1>6 DEF PauseFine
  <2>4. PausedFine(d)'
    BY <1>2, <1>4, <1>6, <2>1 DEF PausedFine, After
  <2> QED BY <2>2, <2>3, <2>4 DEF AllFine
<1>7. CASE Enqueue(c, d)
  <2>1. /\ cpc'[c] = "add" /\ cid'[c] = d /\ d \notin added
        /\ downloads' = downloads /\ Paused' = Paused
    BY <1>2, <1>7 DEF Enqueue, CallTo, pool, states, flags
  <2>2. /\ downloads[d] = 0 /\ ~Paused[d] /\ ~Given(d)
        /\ \A w \in Workers : cfg[w] = d => pc[w] \in {"recv", "gone"}
    BY <1>2, <2>1 DEF Untouched, Given
  <2> QED BY <1>6, <2>1, <2>2 DEF Ahead, Fresh, After
<1>8. CASE ExtractPausedConfig(c, d)
  <2>1. /\ cpc'[c] = "add" /\ cid'[c] = d /\ downloads[d] # 0 /\ Paused[d] /\ ~Pausing[d]
        /\ downloads'[d] = 0 /\ ~Paused'[d]
    BY <1>2, <1>8 DEF ExtractPausedConfig, Extractable, CallTo, TypeOK
  <2>2. ~Coming(d)
    BY <1>4, <2>1 DEF WayFine
  <2>3. \A w \in Workers : cfg[w] = d => pc[w] \notin Ahead \cup Fresh
    BY <1>4, <2>1, <2>2 DEF PauseFine, Coming
  <2>4. told[d] = "paused" => \A w \in Workers : cfg[w] = d => pc[w] \notin After
    BY <1>4, <2>1 DEF PausedFine
  <2> QED BY <1>6, <2>1, <2>2, <2>3, <2>4 DEF Coming
<1> QED BY <1>3, <1>5, <1>7, <1>8 DEF Call

(* What a caller does to other downloads than its own.                     *)
LEMMA CallElsewhereFine ==
  ASSUME TypeOK, Held, One, OpenWhileSole, NEW c \in Callers, NEW d \in Downloads, AllFine(d),
         \/ CallerStep(c) /\ cid[c] # d
         \/ \E e \in Downloads \ {d} : Call(c, e)
  PROVE  AllFine(d)'
<1>1. \A b \in Callers : b = c
  BY DEF One, Sole
<1>2. CASE CallerStep(c) /\ cid[c] # d
  <2>1. /\ downloads' = downloads /\ told' = told /\ pc' = pc /\ cfg' = cfg /\ err' = err
        /\ isPaused' = isPaused /\ queued \subseteq queued'
        /\ cid'[c] = d => cpc'[c] = "idle"
    BY <1>2 DEF CallerStep, Add, Send, SendPanics, PauseSeen, PauseUnderWay, PauseMark, PauseFlag,
       PauseCancel, CancelStop, CancelDone, CallerKeeps, CallTo, Return, pool, worker, files, TypeOK
  <2>2. Paused'[d] = Paused[d] /\ Pausing'[d] = Pausing[d]
    <3>1. CASE PauseMark(c) \/ PauseFlag(c)
      BY <1>2, <3>1 DEF PauseMark, PauseFlag, TypeOK
    <3>2. CASE ~PauseMark(c) /\ ~PauseFlag(c)
      BY <1>2, <3>2 DEF CallerStep, Add, Send, SendPanics, PauseSeen, PauseUnderWay,
         PauseCancel, CancelStop, CancelDone, states, flags
    <3> QED BY <3>1, <3>2
  <2>3. CASE ~Send(c)
    <3>1. taskChan' = taskChan
      BY <1>2, <2>3 DEF CallerStep, Add, SendPanics, PauseSeen, PauseUnderWay, PauseMark,
         PauseFlag, PauseCancel, CancelStop, CancelDone, pool
    <3>2. \A i, j \in DOMAIN taskChan' : taskChan'[i] = d /\ taskChan'[j] = d => i = j
      BY <3>1 DEF AllFine, WayFine
    <3> QED BY <1>1, <1>2, <2>1, <2>2, <3>1, <3>2, ElsewhereFine
  <2>4. CASE Send(c)
    <3>1. taskChan \in Seq(Downloads) /\ taskChan' = Append(taskChan, cid[c])
          /\ cid[c] \in Downloads
      BY <2>4 DEF Send, TypeOK, Held
    <3>2. \A i \in DOMAIN taskChan' :
            \/ i \in DOMAIN taskChan /\ taskChan'[i] = taskChan[i]
            \/ i = Len(taskChan) + 1 /\ taskChan'[i] = cid[c] /\ i \notin DOMAIN taskChan
      BY <3>1, AppendEntries
    <3>3. \A i \in DOMAIN taskChan : i \in DOMAIN taskChan' /\ taskChan'[i] = taskChan[i]
      BY <3>1, AppendProperties, LenProperties
    <3>4. \A i, j \in DOMAIN taskChan' : taskChan'[i] = d /\ taskChan'[j] = d => i = j
      BY <1>2, <3>2 DEF AllFine, WayFine
    <3>5. (\E i \in DOMAIN taskChan' : taskChan'[i] = d)
            <=> \E i \in DOMAIN taskChan : taskChan[i] = d
      BY <1>2, <3>2, <3>3
    <3> QED BY <1>1, <1>2, <2>1, <2>2, <3>4, <3>5, ElsewhereFine
  <2> QED BY <2>3, <2>4
<1>3. ASSUME NEW e \in Downloads, e # d, Call(c, e)
      PROVE  AllFine(d)'
  <2>1. /\ told' = told /\ pc' = pc /\ cfg' = cfg /\ err' = err /\ isPaused' = isPaused
        /\ taskChan' = taskChan /\ Pausing' = Pausing /\ cpc[c] = "idle"
        /\ \/ cid'[c] = cid[c] /\ cpc'[c] = cpc[c]
           \/ cid'[c] = e
        /\ d \in queued => d \in queued'
    BY <1>3 DEF Call, Enqueue, PauseLookup, ExtractPausedConfig, Cancel, CallerKeeps, CallTo,
       worker, files, pool, states, flags, caller, TypeOK
  <2>2. Paused'[d] = Paused[d] /\ downloads'[d] = downloads[d]
    BY <1>3 DEF Call, Enqueue, PauseLookup, ExtractPausedConfig, Cancel, pool, states, flags, TypeOK
  <2>3. \A i, j \in DOMAIN taskChan' : taskChan'[i] = d /\ taskChan'[j] = d => i = j
    BY <2>1 DEF AllFine, WayFine
  <2> QED BY <1>1, <1>3, <2>1, <2>2, <2>3, ElsewhereFine
<1> QED BY <1>2, <1>3

LEMMA KeptStep ==
  ASSUME TypeOK, Held, Untouched, OpenWhileSole, One, KeptInv, [Next]_vars
  PROVE  KeptInv'
<1>1. ASSUME NEW d \in Downloads, d \notin removed'
      PROVE  AllFine(d)'
  <2>0. d \notin removed => AllFine(d)
    BY <1>1 DEF KeptInv
  <2>1. ASSUME NEW w \in Workers, WorkerStep(w) PROVE AllFine(d)'
    <3>1. removed' = removed
      BY <2>1 DEF WorkerStep, Receive, Exit, CheckQueued, Start, Register,
         TransferEnds, BootstrapCanceled, AskPaused, HandlePause, CheckContext,
         ConcurrentFails, ResetPaused, ResetPausing, SingleEnds, Report,
         NotRunning, ReadPaused, ClearPausing, Settle, Forget, Leave,
         WorkerKeeps, EngineKeeps, history
    <3>2. AllFine(d)
      BY <1>1, <2>0, <3>1
    <3>3. CASE Receive(w) /\ cfg'[w] = d
      BY <3>2, <3>3, ReceivedFine
    <3>4. CASE /\ cfg[w] = d => pc[w] \in {"recv", "leave"}
               /\ cfg'[w] = d => pc'[w] \in {"recv", "gone"}
      BY <2>1, <3>2, <3>4, WorkerElsewhereFine
    <3>5. CASE ~Receive(w) /\ cfg[w] = d /\ pc[w] # "recv" /\ cfg'[w] = d
      BY <2>1, <3>2, <3>5, WorkedFine DEF KeptInv
    <3>6. cfg'[w] # cfg[w] => Receive(w) \/ (pc[w] = "leave" /\ cfg'[w] = NoDownload)
      BY <2>1 DEF WorkerStep, Exit, CheckQueued, Start, Register,
         TransferEnds, BootstrapCanceled, AskPaused, HandlePause, CheckContext,
         ConcurrentFails, ResetPaused, ResetPausing, SingleEnds, Report,
         NotRunning, ReadPaused, ClearPausing, Settle, Forget, Leave, EngineKeeps, TypeOK
    <3>7. Receive(w) => pc[w] = "recv"
      BY DEF Receive
    <3>8. pc[w] = "recv" => Receive(w) \/ pc'[w] \in {"recv", "gone"}
      BY <2>1 DEF WorkerStep, Exit, CheckQueued, Start, Register,
         TransferEnds, BootstrapCanceled, AskPaused, HandlePause, CheckContext,
         ConcurrentFails, ResetPaused, ResetPausing, SingleEnds, Report,
         NotRunning, ReadPaused, ClearPausing, Settle, Forget, Leave, GoTo, TypeOK
    <3> QED BY <3>3, <3>4, <3>5, <3>6, <3>7, <3>8, PoolAssumption
  <2>2. ASSUME NEW c \in Callers, CallerStep(c) PROVE AllFine(d)'
    <3>1. removed' = removed
      BY <2>2 DEF CallerStep, Add, Send, SendPanics, PauseSeen, PauseUnderWay, PauseMark, PauseFlag,
         PauseCancel, CancelStop, CancelDone, history
    <3> QED BY <1>1, <2>0, <2>2, <3>1, CalledFine, CallElsewhereFine
  <2>3. ASSUME NEW c \in Callers, NEW e \in Downloads, Call(c, e) PROVE AllFine(d)'
    <3>1. removed \subseteq removed'
      BY <2>3 DEF Call, Enqueue, PauseLookup, ExtractPausedConfig, Cancel, history
    <3> QED BY <1>1, <2>0, <2>3, <3>1, BegunFine, CallElsewhereFine
  <2>4. ~PauseAll /\ ~ShutdownStep
    BY DEF One, Sole, OpenWhileSole, PauseAll, ShutdownStep, ClearQueued, DrainChannel, WaitPausing,
       Close
  <2>5. CASE UNCHANGED vars
    <3>1. AllFine(d)
      BY <1>1, <2>0, <2>5 DEF vars, history
    <3>2. \A i, j \in DOMAIN taskChan' : taskChan'[i] = d /\ taskChan'[j] = d => i = j
      BY <2>5, <3>1 DEF AllFine, WayFine, vars, pool
    <3> QED BY <2>5, <3>1, <3>2, ElsewhereFine
         DEF vars, pool, states, flags, worker, caller, files
  <2> QED BY <2>1, <2>2, <2>3, <2>4, <2>5 DEF Next
<1>2. ASSUME NEW w \in Workers, pc'[w] = "register" PROVE ad'[w] # 0
  <2>1. CASE Start(w)
    <3>1. Len(ads') = Len(ads) + 1 /\ Len(ads) \in Nat
      BY <2>1, AppendProperties, LenProperties DEF Start, TypeOK, AD, Held
    <3> QED BY <2>1, <3>1 DEF Start, TypeOK
  <2>2. CASE WorkerStep(w) /\ ~Start(w)
    <3>1. ASSUME NEW l, GoTo(w, l) PROVE pc'[w] = l
      BY <3>1 DEF GoTo, TypeOK
    <3>2. FALSE
      BY <1>2, <2>2, <3>1 DEF WorkerStep, Receive, Exit, CheckQueued, Register,
         TransferEnds, BootstrapCanceled, AskPaused, HandlePause, CheckContext,
         ConcurrentFails, ResetPaused, ResetPausing, SingleEnds, Report,
         NotRunning, ReadPaused, ClearPausing, Settle, Forget, Leave
    <3> QED BY <3>2
  <2>3. CASE ~WorkerStep(w)
    <3>1. \A v \in Workers : ~WorkerStep(v)
      BY <2>3 DEF One
    <3>2. pc' = pc /\ ad' = ad
      BY <3>1, CallSpares DEF One
    <3> QED BY <1>2, <3>2 DEF KeptInv
  <2> QED BY <2>1, <2>2, <2>3
<1> QED BY <1>1, <1>2 DEF KeptInv

LEMMA KeptInit == Init => KeptInv
<1> SUFFICES ASSUME Init PROVE KeptInv
  OBVIOUS
<1>1. /\ \A w \in Workers : pc[w] = "recv"
      /\ \A c \in Callers : cpc[c] = "idle"
      /\ DOMAIN taskChan = {}
      /\ \A d \in Downloads : told[d] = "none"
  BY DEF Init
<1>2. \A d \in Downloads : ~Coming(d)
  BY <1>1 DEF Coming, Given, Giving, Ahead
<1> QED BY <1>1, <1>2 DEF KeptInv, AllFine, WayFine, PauseFine, PausedFine, Giving, Ahead, Fresh,
           After

(* A pause that was announced holds, until the download is resumed or      *)
(* removed (pool.go:361-370): for any number of downloads, resumes and     *)
(* engine errors, with one worker and one goroutine that calls the pool at *)
(* any time.                                                               *)
THEOREM PausedStaysResumable ==
  ASSUME One
  PROVE  Spec => []PausedIsResumable
<1> DEFINE I == PoolInv /\ Untouched /\ OpenWhileSole /\ KeptInv
<1>1. Init => I
  BY InitInv, RunInit, KeptInit DEF RunInv
<1>2. I /\ [Next]_vars => I'
  BY NextInv, UntouchedStep, OpenStep, KeptStep DEF PoolInv
<1>3. KeptInv => PausedIsResumable
  <2> SUFFICES ASSUME KeptInv, NEW d \in Downloads, told[d] = "paused", Quiet(d), d \notin removed
               PROVE  Extractable(d)
    BY DEF PausedIsResumable
  <2>1. ~Coming(d) /\ \A w \in Workers : cfg[w] # d
    BY DEF Quiet, Coming, Given
  <2> QED BY <2>1 DEF KeptInv, AllFine, PausedFine, Extractable
<1> QED BY <1>1, <1>2, <1>3, PTL DEF Spec
=============================================================================
