----------------------------- MODULE WorkerPool -----------------------------
(***************************************************************************)
(* src/internal/download: the pool of workers (pool.go) and TUIDownload    *)
(* (manager.go), which a worker calls for each download it takes from      *)
(* taskChan.  Callers (the HTTP interface, the terminal interface, the     *)
(* shutdown) enqueue, pause, resume, cancel at the same time; the maps are *)
(* under p.mu, the flags of a ProgressState are atomics read and written   *)
(* one by one.                                                             *)
(*                                                                         *)
(* A download has one ProgressState, handed on when it is resumed, so the  *)
(* flags are indexed by the download; each start makes a new activeDownload *)
(* with a new context.  The engines are what ConcurrentDownloader shows    *)
(* them to be: a transfer ends because the file is whole, because the      *)
(* context is done, or with an error.                                      *)
(***************************************************************************)
EXTENDS Integers, Sequences, FiniteSets

CONSTANTS Workers,         \* the maxDownloads goroutines of the pool
          Downloads,       \* the downloads, by id
          RangeDownloads,  \* those whose server supports ranges
          Callers,         \* goroutines that call the pool
          Closer,          \* the one of them, if any, that calls GracefulShutdown
          NoDownload,      \* no id
          Capacity,        \* the capacity of taskChan, 100 in the code
          MaxResumes,      \* bound: downloads resumed in a behaviour
          MaxErrors        \* bound: engine errors in a behaviour

ASSUME PoolAssumption ==
  /\ IsFiniteSet(Workers) /\ Workers # {}
  /\ RangeDownloads \subseteq Downloads
  /\ NoDownload \notin Downloads
  /\ Capacity \in Nat \ {0}
  /\ {MaxResumes, MaxErrors} \subseteq Nat

VARIABLES
  taskChan,    \* p.taskChan
  queued,      \* the keys of p.queued
  downloads,   \* p.downloads: id to activeDownload, 0 for none
  wg,          \* p.wg
  ads,         \* the activeDownloads made so far: id, running, context cancelled
  Paused, Pausing, Done,  \* the flags of the ProgressStates
  cancelFunc,  \* State.cancelFunc: the activeDownload whose context it cancels
  pc,          \* where each worker is
  cfg,         \* worker: the id it has received
  ad,          \* worker: its activeDownload
  err,         \* worker: downloadErr, then err
  isPaused,    \* worker: its variable isPaused
  cpc,         \* where each caller is
  cid, cad,    \* caller: the id and the activeDownload it works on
  shut,        \* where GracefulShutdown is
  ids,         \* PauseAll: the ids it has still to pause
  added, removed,         \* ids ever enqueued; ids Cancel has found
  whole,       \* the downloads whose working file is complete
  told,        \* the last event sent for a download
  resumes, errors         \* what the bounds count

pool == <<taskChan, queued, downloads, wg>>
flags == <<Paused, Pausing, Done>>
states == <<flags, cancelFunc>>
worker == <<pc, cfg, ad, err, isPaused>>
caller == <<cpc, cid, cad>>
shutdown == <<shut, ids>>
history == <<added, removed, resumes>>
files == <<whole, told, errors>>
vars == <<pool, ads, states, worker, caller, shutdown, history, files>>

AD == [id : Downloads, running : BOOLEAN, ctxDone : BOOLEAN]

-----------------------------------------------------------------------------
Init ==
  /\ taskChan = <<>>
  /\ queued = {}
  /\ downloads = [d \in Downloads |-> 0]
  /\ wg = 0
  /\ ads = <<>>
  /\ Paused = [d \in Downloads |-> FALSE]
  /\ Pausing = [d \in Downloads |-> FALSE]
  /\ Done = [d \in Downloads |-> FALSE]
  /\ cancelFunc = [d \in Downloads |-> 0]
  /\ pc = [w \in Workers |-> "recv"]
  /\ cfg = [w \in Workers |-> NoDownload]
  /\ ad = [w \in Workers |-> 0]
  /\ err = [w \in Workers |-> "nil"]
  /\ isPaused = [w \in Workers |-> FALSE]
  /\ cpc = [c \in Callers |-> "idle"]
  /\ cid = [c \in Callers |-> NoDownload]
  /\ cad = [c \in Callers |-> 0]
  /\ shut = "no"
  /\ ids = {}
  /\ added = {}
  /\ removed = {}
  /\ whole = {}
  /\ told = [d \in Downloads |-> "none"]
  /\ resumes = 0
  /\ errors = 0

Cancelled(rs) == [r \in DOMAIN ads |-> IF r \in rs THEN [ads[r] EXCEPT !.ctxDone = TRUE]
                                                   ELSE ads[r]]

-----------------------------------------------------------------------------
(* worker.  GoTo is the program counter; each action says what else it     *)
(* changes.                                                                *)
GoTo(w, l) == pc' = [pc EXCEPT ![w] = l]
WorkerKeeps == UNCHANGED <<caller, shutdown, history>>

(* for cfg := range p.taskChan                                             *)
Receive(w) ==
  /\ pc[w] = "recv"
  /\ taskChan # <<>>
  /\ cfg' = [cfg EXCEPT ![w] = Head(taskChan)]
  /\ taskChan' = Tail(taskChan)
  /\ GoTo(w, "check")
  /\ WorkerKeeps
  /\ UNCHANGED <<queued, downloads, wg, ads, states, ad, err, isPaused, files>>

Exit(w) ==
  /\ pc[w] = "recv"
  /\ taskChan = <<>>
  /\ shut = "closed"
  /\ GoTo(w, "gone")
  /\ WorkerKeeps
  /\ UNCHANGED <<pool, ads, states, cfg, ad, err, isPaused, files>>

(* stillQueued, read under a lock that is released before the download is  *)
(* registered.                                                             *)
CheckQueued(w) ==
  /\ pc[w] = "check"
  /\ GoTo(w, IF cfg[w] \in queued THEN "start" ELSE "recv")
  /\ WorkerKeeps
  /\ UNCHANGED <<pool, ads, states, cfg, ad, err, isPaused, files>>

(* wg.Add, the context, the activeDownload, SetCancelFunc, running.        *)
Start(w) ==
  /\ pc[w] = "start"
  /\ wg' = wg + 1
  /\ ads' = Append(ads, [id |-> cfg[w], running |-> TRUE, ctxDone |-> FALSE])
  /\ ad' = [ad EXCEPT ![w] = Len(ads')]
  /\ cancelFunc' = [cancelFunc EXCEPT ![cfg[w]] = Len(ads')]
  /\ GoTo(w, "register")
  /\ WorkerKeeps
  /\ UNCHANGED <<taskChan, queued, downloads, flags, cfg, err, isPaused, files>>

\* Mutant: the id stays queued.
RegisterKeepsQueued(w) ==
  /\ pc[w] = "register"
  /\ downloads' = [downloads EXCEPT ![cfg[w]] = ad[w]]
  /\ told' = [told EXCEPT ![cfg[w]] = "started"]
  /\ GoTo(w, IF cfg[w] \in RangeDownloads THEN "concurrent" ELSE "single")
  /\ WorkerKeeps
  /\ UNCHANGED <<taskChan, queued, wg, ads, states, cfg, ad, err, isPaused, whole, errors>>

(* From queued to downloads under one lock; TUIDownload sends its          *)
(* DownloadStartedMsg.                                                     *)
Register(w) ==
  /\ pc[w] = "register"
  /\ queued' = queued \ {cfg[w]}
  /\ downloads' = [downloads EXCEPT ![cfg[w]] = ad[w]]
  /\ told' = [told EXCEPT ![cfg[w]] = "started"]
  /\ GoTo(w, IF cfg[w] \in RangeDownloads THEN "concurrent" ELSE "single")
  /\ WorkerKeeps
  /\ UNCHANGED <<taskChan, wg, ads, states, cfg, ad, err, isPaused, whole, errors>>

(* TUIDownload, in the engines.                                            *)
EngineKeeps == WorkerKeeps /\ UNCHANGED <<pool, ads, cancelFunc, cfg, ad, isPaused>>
CtxDone(w) == ads[ad[w]].ctxDone

(* ConcurrentDownloader: its workers are through, with the file or because *)
(* of the context...                                                       *)
TransferEnds(w) ==
  /\ pc[w] = "concurrent"
  /\ \/ whole' = whole \cup {cfg[w]}
     \/ CtxDone(w) /\ UNCHANGED whole
  /\ GoTo(w, "joined")
  /\ EngineKeeps
  /\ UNCHANGED <<flags, err, told, errors>>

(* The context is done before the size of the file is known.               *)
BootstrapCanceled(w) ==
  /\ pc[w] = "concurrent"
  /\ CtxDone(w)
  /\ err' = [err EXCEPT ![w] = "canceled"]
  /\ GoTo(w, "ended")
  /\ EngineKeeps
  /\ UNCHANGED <<flags, files>>

(* ... then it asks IsPaused, and if not, for the context.                 *)
AskPaused(w) ==
  /\ pc[w] = "joined"
  /\ GoTo(w, IF Paused[cfg[w]] THEN "save" ELSE "context")
  /\ EngineKeeps
  /\ UNCHANGED <<flags, err, files>>

(* handlePause: complete at the boundary, or a DownloadPausedMsg.          *)
HandlePause(w) ==
  /\ pc[w] = "save"
  /\ \/ /\ cfg[w] \in whole
        /\ Paused' = [Paused EXCEPT ![cfg[w]] = FALSE]
        /\ err' = [err EXCEPT ![w] = "nil"]
        /\ UNCHANGED told
     \/ /\ told' = [told EXCEPT ![cfg[w]] = "paused"]
        /\ err' = [err EXCEPT ![w] = "paused"]
        /\ UNCHANGED Paused
  /\ GoTo(w, "ended")
  /\ EngineKeeps
  /\ UNCHANGED <<Pausing, Done, whole, errors>>

CheckContext(w) ==
  /\ pc[w] = "context"
  /\ err' = [err EXCEPT ![w] = IF CtxDone(w) THEN "canceled" ELSE "nil"]
  /\ GoTo(w, "ended")
  /\ EngineKeeps
  /\ UNCHANGED <<flags, files>>

(* An error of the concurrent engine: SessionReset, the file truncated,    *)
(* and on with a single connection.                                        *)
ConcurrentFails(w) ==
  /\ pc[w] = "concurrent"
  /\ errors < MaxErrors
  /\ errors' = errors + 1
  /\ GoTo(w, "reset")
  /\ EngineKeeps
  /\ UNCHANGED <<flags, err, whole, told>>

ResetPaused(w) ==
  /\ pc[w] = "reset"
  /\ Done' = [Done EXCEPT ![cfg[w]] = FALSE]
  /\ Paused' = [Paused EXCEPT ![cfg[w]] = FALSE]
  /\ GoTo(w, "reset2")
  /\ EngineKeeps
  /\ UNCHANGED <<Pausing, err, files>>

ResetPausing(w) ==
  /\ pc[w] = "reset2"
  /\ Pausing' = [Pausing EXCEPT ![cfg[w]] = FALSE]
  /\ whole' = whole \ {cfg[w]}
  /\ GoTo(w, "single")
  /\ EngineKeeps
  /\ UNCHANGED <<Paused, Done, err, told, errors>>

(* SingleDownloader: one copy loop.                                        *)
SingleEnds(w) ==
  /\ pc[w] = "single"
  /\ \/ /\ whole' = whole \cup {cfg[w]}
        /\ err' = [err EXCEPT ![w] = "nil"]
        /\ UNCHANGED errors
     \/ /\ CtxDone(w)
        /\ err' = [err EXCEPT ![w] = "canceled"]
        /\ UNCHANGED <<whole, errors>>
     \/ /\ errors < MaxErrors
        /\ errors' = errors + 1
        /\ err' = [err EXCEPT ![w] = "error"]
        /\ UNCHANGED whole
  /\ GoTo(w, "ended")
  /\ EngineKeeps
  /\ UNCHANGED <<flags, told>>

(* TUIDownload, back from the engine: ErrPaused is not an error; nothing   *)
(* is sent while the download is paused; a cancelled context is not an     *)
(* error either.                                                           *)
Report(w) ==
  /\ pc[w] = "ended"
  /\ LET d == cfg[w] IN
     CASE err[w] = "paused" ->
            err' = [err EXCEPT ![w] = "nil"] /\ UNCHANGED told
       [] err[w] # "paused" /\ Paused[d] -> UNCHANGED <<err, told>>
       [] err[w] = "nil" /\ ~Paused[d] ->
            told' = [told EXCEPT ![d] = "complete"] /\ UNCHANGED err
       [] err[w] = "canceled" /\ ~Paused[d] ->
            err' = [err EXCEPT ![w] = "nil"] /\ UNCHANGED told
       [] err[w] = "error" /\ ~Paused[d] ->
            told' = [told EXCEPT ![d] = "error"] /\ UNCHANGED err
  /\ GoTo(w, "returned")
  /\ EngineKeeps
  /\ UNCHANGED <<flags, whole, errors>>

(* The worker, back from TUIDownload.                                      *)
NotRunning(w) ==
  /\ pc[w] = "returned"
  /\ ads' = [ads EXCEPT ![ad[w]].running = FALSE]
  /\ GoTo(w, "stopped")
  /\ WorkerKeeps
  /\ UNCHANGED <<pool, states, cfg, ad, err, isPaused, files>>

ReadPaused(w) ==
  /\ pc[w] = "stopped"
  /\ isPaused' = [isPaused EXCEPT ![w] = Paused[cfg[w]]]
  /\ GoTo(w, "clear")
  /\ WorkerKeeps
  /\ UNCHANGED <<pool, ads, states, cfg, ad, err, files>>

\* Mutant: Pausing is left as it is.
KeepPausing(w) ==
  /\ pc[w] = "clear"
  /\ GoTo(w, "settle")
  /\ WorkerKeeps
  /\ UNCHANGED <<pool, ads, states, cfg, ad, err, isPaused, files>>

ClearPausing(w) ==
  /\ pc[w] = "clear"
  /\ Pausing' = [Pausing EXCEPT ![cfg[w]] = FALSE]
  /\ GoTo(w, "settle")
  /\ WorkerKeeps
  /\ UNCHANGED <<pool, ads, Paused, Done, cancelFunc, cfg, ad, err, isPaused, files>>

(* A paused download stays in the map; else it is done unless it failed,   *)
(* and deleted, whatever the map has under that id by now.                 *)
Settle(w) ==
  /\ pc[w] = "settle"
  /\ IF ~isPaused[w] /\ err[w] = "nil"
     THEN Done' = [Done EXCEPT ![cfg[w]] = TRUE]
     ELSE UNCHANGED Done
  /\ GoTo(w, IF isPaused[w] THEN "leave" ELSE "forget")
  /\ WorkerKeeps
  /\ UNCHANGED <<pool, ads, Paused, Pausing, cancelFunc, cfg, ad, err, isPaused, files>>

Forget(w) ==
  /\ pc[w] = "forget"
  /\ downloads' = [downloads EXCEPT ![cfg[w]] = 0]
  /\ GoTo(w, "leave")
  /\ WorkerKeeps
  /\ UNCHANGED <<taskChan, queued, wg, ads, states, cfg, ad, err, isPaused, files>>

\* Mutant: a paused download never calls wg.Done.
LeaveUnlessPaused(w) ==
  /\ pc[w] = "leave"
  /\ wg' = IF isPaused[w] THEN wg ELSE wg - 1
  /\ cfg' = [cfg EXCEPT ![w] = NoDownload]
  /\ ad' = [ad EXCEPT ![w] = 0]
  /\ err' = [err EXCEPT ![w] = "nil"]
  /\ isPaused' = [isPaused EXCEPT ![w] = FALSE]
  /\ GoTo(w, "recv")
  /\ WorkerKeeps
  /\ UNCHANGED <<taskChan, queued, downloads, ads, states, files>>

Leave(w) ==
  /\ pc[w] = "leave"
  /\ wg' = wg - 1
  /\ cfg' = [cfg EXCEPT ![w] = NoDownload]
  /\ ad' = [ad EXCEPT ![w] = 0]
  /\ err' = [err EXCEPT ![w] = "nil"]
  /\ isPaused' = [isPaused EXCEPT ![w] = FALSE]
  /\ GoTo(w, "recv")
  /\ WorkerKeeps
  /\ UNCHANGED <<taskChan, queued, downloads, ads, states, files>>

-----------------------------------------------------------------------------
(* The callers.                                                            *)
CallerKeeps == UNCHANGED <<worker, files>>
CallTo(c, l) == cpc' = [cpc EXCEPT ![c] = l]
ServiceCallers == Callers \ {Closer}

(* The lifecycle manager adds a new download; no more once the program     *)
(* shuts down (cmd/shutdown.go cancels enqueues first), but an Add may be  *)
(* under way.  Pause, resume and cancel may come at any time.              *)
Enqueue(c, d) ==
  /\ shut = "no"
  /\ c \in ServiceCallers
  /\ cpc[c] = "idle"
  /\ d \notin added
  /\ added' = added \cup {d}
  /\ cid' = [cid EXCEPT ![c] = d]
  /\ CallTo(c, "add")
  /\ CallerKeeps
  /\ UNCHANGED <<pool, ads, states, cad, shutdown, removed, resumes>>

(* Add: p.queued under the lock, then the channel, which may be full, or   *)
(* closed, which panics.                                                   *)
Add(c) ==
  /\ cpc[c] = "add"
  /\ queued' = queued \cup {cid[c]}
  /\ CallTo(c, "send")
  /\ CallerKeeps
  /\ UNCHANGED <<taskChan, downloads, wg, ads, states, cid, cad, shutdown, history>>

Return(c) == CallTo(c, "idle") /\ cid' = [cid EXCEPT ![c] = NoDownload]
                               /\ cad' = [cad EXCEPT ![c] = 0]

Send(c) ==
  /\ cpc[c] = "send"
  /\ shut # "closed"
  /\ Len(taskChan) < Capacity
  /\ taskChan' = Append(taskChan, cid[c])
  /\ Return(c)
  /\ CallerKeeps
  /\ UNCHANGED <<queued, downloads, wg, ads, states, shutdown, history>>

SendPanics(c) ==
  /\ cpc[c] = "send"
  /\ shut = "closed"
  /\ CallTo(c, "panic")
  /\ CallerKeeps
  /\ UNCHANGED <<pool, ads, states, cid, cad, shutdown, history>>

(* Pause: the map is read under the lock, all else happens after it.       *)
PauseLookup(c, d) ==
  /\ cpc[c] = "idle"
  /\ c = Closer => shut = "pausing" /\ d \in ids
  /\ ids' = IF c = Closer THEN ids \ {d} ELSE ids
  /\ \/ /\ downloads[d] # 0
        /\ cid' = [cid EXCEPT ![c] = d]
        /\ cad' = [cad EXCEPT ![c] = downloads[d]]
        /\ CallTo(c, "paused?")
     \/ /\ downloads[d] = 0
        /\ c = Closer
        /\ UNCHANGED caller
  /\ CallerKeeps
  /\ UNCHANGED <<pool, ads, states, shut, history>>

PauseSeen(c) ==
  /\ cpc[c] = "paused?"
  /\ IF Paused[cid[c]] THEN Return(c) ELSE CallTo(c, "pausing?") /\ UNCHANGED <<cid, cad>>
  /\ CallerKeeps
  /\ UNCHANGED <<pool, ads, states, shutdown, history>>

PauseUnderWay(c) ==
  /\ cpc[c] = "pausing?"
  /\ IF Pausing[cid[c]]
     THEN Return(c) /\ ads' = Cancelled({cad[c]})
     ELSE CallTo(c, "mark") /\ UNCHANGED <<ads, cid, cad>>
  /\ CallerKeeps
  /\ UNCHANGED <<pool, states, shutdown, history>>

PauseMark(c) ==
  /\ cpc[c] = "mark"
  /\ Pausing' = [Pausing EXCEPT ![cid[c]] = TRUE]
  /\ CallTo(c, "flag")
  /\ CallerKeeps
  /\ UNCHANGED <<pool, ads, Paused, Done, cancelFunc, cid, cad, shutdown, history>>

\* Mutant: only the context is cancelled.
PauseUnflagged(c) ==
  /\ cpc[c] = "flag"
  /\ CallTo(c, "cancel")
  /\ CallerKeeps
  /\ UNCHANGED <<pool, ads, states, cid, cad, shutdown, history>>

PauseFlag(c) ==
  /\ cpc[c] = "flag"
  /\ Paused' = [Paused EXCEPT ![cid[c]] = TRUE]
  /\ CallTo(c, "cancel")
  /\ CallerKeeps
  /\ UNCHANGED <<pool, ads, Pausing, Done, cancelFunc, cid, cad, shutdown, history>>

(* State.Pause calls what was last given to SetCancelFunc, Pause then its  *)
(* own activeDownload's cancel.                                            *)
PauseCancel(c) ==
  /\ cpc[c] = "cancel"
  /\ ads' = Cancelled({cad[c], cancelFunc[cid[c]]})
  /\ Return(c)
  /\ CallerKeeps
  /\ UNCHANGED <<pool, states, shutdown, history>>

(* Resume, as long as the pool has the paused download:                    *)
(* ExtractPausedConfig, then Add.                                          *)
\* Mutant: a download that is still pausing may be taken.
ExtractableSoon(d) == downloads[d] # 0 /\ Paused[d]
Extractable(d) == downloads[d] # 0 /\ Paused[d] /\ ~Pausing[d]

ExtractPausedConfig(c, d) ==
  /\ c \in ServiceCallers
  /\ cpc[c] = "idle"
  /\ resumes < MaxResumes
  /\ Extractable(d)
  /\ resumes' = resumes + 1
  /\ downloads' = [downloads EXCEPT ![d] = 0]
  /\ Paused' = [Paused EXCEPT ![d] = FALSE]
  /\ cid' = [cid EXCEPT ![c] = d]
  /\ CallTo(c, "add")
  /\ CallerKeeps
  /\ UNCHANGED <<taskChan, queued, wg, ads, Pausing, Done, cancelFunc, cad, shutdown,
                 added, removed>>

(* Cancel: out of both maps, then the context; when the worker has         *)
(* stopped, or after three seconds, Done.                                  *)
Cancel(c, d) ==
  /\ c \in ServiceCallers
  /\ cpc[c] = "idle"
  /\ d \in queued \/ downloads[d] # 0
  /\ queued' = queued \ {d}
  /\ downloads' = [downloads EXCEPT ![d] = 0]
  /\ removed' = removed \cup {d}
  /\ IF downloads[d] # 0
     THEN /\ cid' = [cid EXCEPT ![c] = d]
          /\ cad' = [cad EXCEPT ![c] = downloads[d]]
          /\ CallTo(c, "stop")
     ELSE UNCHANGED caller
  /\ CallerKeeps
  /\ UNCHANGED <<taskChan, wg, ads, states, shutdown, added, resumes>>

CancelStop(c) ==
  /\ cpc[c] = "stop"
  /\ ads' = Cancelled({cad[c]})
  /\ CallTo(c, "done")
  /\ CallerKeeps
  /\ UNCHANGED <<pool, states, cid, cad, shutdown, history>>

CancelDone(c) ==
  /\ cpc[c] = "done"
  /\ Done' = [Done EXCEPT ![cid[c]] = TRUE]
  /\ Return(c)
  /\ CallerKeeps
  /\ UNCHANGED <<pool, ads, Paused, Pausing, cancelFunc, shutdown, history>>

-----------------------------------------------------------------------------
(* GracefulShutdown: PauseAll chooses its ids under the lock and pauses    *)
(* them one by one, ...                                                    *)
ShutKeeps == UNCHANGED <<wg, downloads, ads, worker, caller, history, files>>

PauseAll ==
  /\ Closer \in Callers
  /\ shut = "no"
  /\ shut' = "pausing"
  /\ ids' = {d \in Downloads : downloads[d] # 0 /\ ~Paused[d] /\ ~Done[d] /\ ~Pausing[d]}
  /\ ShutKeeps /\ UNCHANGED <<taskChan, queued, states>>

(* ... the queue is cleared, the channel drained, ...                      *)
ClearQueued ==
  /\ shut = "pausing"
  /\ ids = {}
  /\ cpc[Closer] = "idle"
  /\ queued' = {}
  /\ shut' = "drain"
  /\ ShutKeeps /\ UNCHANGED <<taskChan, states, ids>>

DrainChannel ==
  /\ shut = "drain"
  /\ IF taskChan = <<>>
     THEN shut' = "wait" /\ UNCHANGED taskChan
     ELSE taskChan' = Tail(taskChan) /\ UNCHANGED shut
  /\ ShutKeeps /\ UNCHANGED <<queued, states, ids>>

(* ... then every 100 ms the downloads that are pausing are looked at: one *)
(* without a worker is set right, one with a worker is waited for, for     *)
(* thirty seconds at most.  The look ends at the first of the latter.      *)
Stale == {d \in Downloads : downloads[d] # 0 /\ Pausing[d] /\ ~ads[downloads[d]].running}
StillPausing == {d \in Downloads : downloads[d] # 0 /\ Pausing[d] /\ ads[downloads[d]].running}

WaitPausing ==
  /\ shut = "wait"
  /\ \E seen \in SUBSET Stale :
       /\ StillPausing = {} => seen = Stale
       /\ Pausing' = [d \in Downloads |-> Pausing[d] /\ d \notin seen]
  /\ shut' \in IF StillPausing = {} THEN {"join"} ELSE {"wait", "join"}
  /\ ShutKeeps /\ UNCHANGED <<taskChan, queued, Paused, Done, cancelFunc, ids>>

(* p.wg.Wait, and the channel is closed.                                   *)
Close ==
  /\ shut = "join"
  /\ wg = 0
  /\ shut' = "closed"
  /\ ShutKeeps /\ UNCHANGED <<taskChan, queued, states, ids>>

-----------------------------------------------------------------------------
WorkerStep(w) ==
  \/ Receive(w) \/ Exit(w) \/ CheckQueued(w) \/ Start(w) \/ Register(w)
  \/ TransferEnds(w) \/ BootstrapCanceled(w) \/ AskPaused(w) \/ HandlePause(w)
  \/ CheckContext(w) \/ ConcurrentFails(w) \/ ResetPaused(w) \/ ResetPausing(w)
  \/ SingleEnds(w) \/ Report(w)
  \/ NotRunning(w) \/ ReadPaused(w) \/ ClearPausing(w) \/ Settle(w) \/ Forget(w) \/ Leave(w)

(* What a caller goes on with once it has begun.                           *)
CallerStep(c) ==
  \/ Add(c) \/ Send(c) \/ SendPanics(c)
  \/ PauseSeen(c) \/ PauseUnderWay(c) \/ PauseMark(c) \/ PauseFlag(c) \/ PauseCancel(c)
  \/ CancelStop(c) \/ CancelDone(c)

Call(c, d) ==
  Enqueue(c, d) \/ PauseLookup(c, d) \/ ExtractPausedConfig(c, d) \/ Cancel(c, d)

ShutdownStep == ClearQueued \/ DrainChannel \/ WaitPausing \/ Close

Next ==
  \/ \E w \in Workers : WorkerStep(w)
  \/ \E c \in Callers : CallerStep(c)
  \/ \E c \in Callers, d \in Downloads : Call(c, d)
  \/ PauseAll
  \/ ShutdownStep

(* Goroutines are scheduled, engines come to an end (ConcurrentDownloader's *)
(* Settles), and a shutdown goes on; nobody has to call anything.           *)
Fairness ==
  /\ \A w \in Workers : WF_vars(WorkerStep(w))
  /\ \A c \in Callers : WF_vars(CallerStep(c))
  /\ WF_vars(\E d \in Downloads : PauseLookup(Closer, d))
  /\ WF_vars(ShutdownStep)

Spec == Init /\ [][Next]_vars /\ Fairness
-----------------------------------------------------------------------------
TypeOK ==
  /\ taskChan \in Seq(Downloads) /\ Len(taskChan) <= Capacity
  /\ queued \subseteq Downloads
  /\ ads \in Seq(AD)
  /\ downloads \in [Downloads -> 0..Len(ads)]
  /\ wg \in Nat
  /\ Paused \in [Downloads -> BOOLEAN]
  /\ Pausing \in [Downloads -> BOOLEAN]
  /\ Done \in [Downloads -> BOOLEAN]
  /\ cancelFunc \in [Downloads -> 0..Len(ads)]
  /\ pc \in [Workers -> {"recv", "check", "start", "register", "concurrent", "joined",
                         "save", "context", "reset", "reset2", "single", "ended",
                         "returned", "stopped", "clear", "settle", "forget", "leave", "gone"}]
  /\ cfg \in [Workers -> Downloads \cup {NoDownload}]
  /\ ad \in [Workers -> 0..Len(ads)]
  /\ err \in [Workers -> {"nil", "paused", "canceled", "error"}]
  /\ isPaused \in [Workers -> BOOLEAN]
  /\ cpc \in [Callers -> {"idle", "add", "send", "panic", "paused?", "pausing?", "mark",
                          "flag", "cancel", "stop", "done"}]
  /\ cid \in [Callers -> Downloads \cup {NoDownload}]
  /\ cad \in [Callers -> 0..Len(ads)]
  /\ shut \in {"no", "pausing", "drain", "wait", "join", "closed"}
  /\ ids \subseteq Downloads
  /\ added \subseteq Downloads /\ removed \subseteq Downloads /\ whole \subseteq Downloads
  /\ told \in [Downloads -> {"none", "started", "paused", "complete", "error"}]
  /\ {resumes, errors} \subseteq Nat

(* Nobody is at work on d, or about to be.                                 *)
InEngine(w) == pc[w] \in {"concurrent", "joined", "save", "context", "reset", "reset2",
                          "single", "ended"}
Quiet(d) ==
  /\ \A w \in Workers : cfg[w] # d
  /\ \A c \in Callers : cid[c] # d
  /\ \A i \in DOMAIN taskChan : taskChan[i] # d
Running(w) == pc[w] \in {"register", "returned"} \/ InEngine(w)

OnItsWay(d) ==
  \/ \E i \in DOMAIN taskChan : taskChan[i] = d
  \/ \E c \in Callers : cpc[c] = "send" /\ cid[c] = d
  \/ \E w \in Workers : cfg[w] = d /\ pc[w] \in {"check", "start", "register"}

(* A download the pool lists as queued will be taken up: its configuration *)
(* is in the channel, on its way there, or with a worker -- whatever was   *)
(* cancelled and resumed meanwhile (pool.go:103-112, 330-356).             *)
QueuedIsComing == shut = "no" => \A d \in queued : OnItsWay(d)

(* Two workers never write to one file: a paused download can only be      *)
(* taken for a resume after the worker that paused it has left TUIDownload *)
(* (pool.go:275-298, 358-370).                                             *)
OneRunPerDownload ==
  \A v, w \in Workers : v # w /\ Running(v) /\ Running(w) => cfg[v] # cfg[w]

(* A download counts as done only if its file is whole or someone removed  *)
(* it, although a pause and a removal both end the context, and only the   *)
(* flag, read three times, tells a pause (manager.go:231-275,              *)
(* pool.go:358-396).  After an engine failed it need not be so:            *)
(* SessionReset clears a pause that arrived.                               *)
DoneIsWhole ==
  errors = 0 => \A d \in Downloads : Done[d] => d \in whole \cup removed

(* A pause that was announced holds: the download is still in the pool and *)
(* can be resumed (pool.go:361-370).                                       *)
PausedIsResumable ==
  \A d \in Downloads :
    told[d] = "paused" /\ Quiet(d) /\ d \notin removed => Extractable(d)

(* GracefulShutdown ends: every download is paused, or done, and every     *)
(* worker lets go of the wait group (pool.go:484-553).                     *)
ShutdownEnds == shut = "pausing" ~> shut = "closed"

-----------------------------------------------------------------------------
(* What comments of the source say and the code does not keep.             *)

(* pool.go:487, "Discard all queued-but-not-yet-started downloads so that  *)
(* idle workers do not pick them up and begin downloading after shutdown   *)
(* is initiated": none starts once the queue was cleared.                  *)
ShutdownStartsNothing ==
  [][\A w \in Workers : Start(w) => shut \in {"no", "pausing"}]_vars

(* pool.go:361, "If Pause() was called ... We keep the task in p.downloads *)
(* (so it can be resumed)": only whole, failed or removed downloads are    *)
(* deleted.                                                                *)
PausedIsKept ==
  [][\A w \in Workers : Forget(w) /\ err[w] = "nil" => cfg[w] \in whole \cup removed]_vars

(* pool.go:200, "Send pause message is now exclusively handled by worker   *)
(* return paths": a download that rests paused in the pool has sent one.   *)
PauseAnnounced ==
  \A d \in Downloads :
    downloads[d] # 0 /\ Paused[d] /\ Quiet(d) => told[d] = "paused"
=============================================================================
