------------------------------ MODULE Lifecycle ------------------------------
(***************************************************************************)
(* What happens to a download between the request and its finished file:   *)
(* src/internal/processing (LifecycleManager: Enqueue, Pause, Resume,      *)
(* Cancel, the event worker), the rows of the state database, the working  *)
(* files on disk, and the starts and ends of the program (src/cmd).        *)
(*                                                                         *)
(* The requests, the pool's workers and the event worker run side by side. *)
(* Workers and requests tell what happened in events; the events go        *)
(* through one channel to the event worker, which alone writes rows and    *)
(* promotes or removes files while the program runs.  The pool itself is   *)
(* the module WorkerPool and an engine ConcurrentDownloader; here a run    *)
(* only opens its working file and ends, one way or another.               *)
(***************************************************************************)
EXTENDS Integers, Sequences, FiniteSets

CONSTANTS Downloads,     \* requested downloads, by id
          Workers,       \* workers of the pool
          Callers,       \* goroutines that serve pause, resume and remove
          Nobody,        \* no download, no worker
          MaxName,       \* file names 1, 2, ...: the wanted one, then its suffixes
          Wanted,        \* the base name of a download
          Races,         \* which of KnownRaces may happen
          Integrity,     \* TRUE if starting the program runs the integrity check
          MaxEvents,     \* bound: events under way, 200 in the code
          MaxCalls,      \* bound: calls to pause, resume or remove
          MaxErrors,     \* bound: transfers that fail
          MaxRejects,    \* bound: requests that are aborted
          MaxStops       \* bound: times the program is shut down or killed

Names == 1 .. MaxName
NoName == 0

(* Races the code does not rule out, and which break what is stated below; *)
(* a run without them shows that nothing else does.                        *)
(*   "rash"    somebody pauses or resumes a download that is on the move,  *)
(*             or removes one that is being resumed                        *)
(*   "torn"    a file is promoted between two steps of one enqueue         *)
(*   "late"    a transfer ends before its enqueue has published            *)
(*   "silent"  a transfer that was stopped ends by itself all the same     *)
(*   "reuse"   a failed download is resumed or removed, whose name another *)
(*             one wants                                                   *)
KnownRaces == {"rash", "torn", "late", "silent", "reuse"}

ASSUME LifecycleAssumption ==
  /\ MaxName \in Nat \ {0}
  /\ Wanted \in [Downloads -> Names]
  /\ Nobody \notin Downloads \cup Workers
  /\ Races \subseteq KnownRaces
  /\ Integrity \in BOOLEAN
  /\ MaxEvents \in Nat \ {0}
  /\ {MaxCalls, MaxErrors, MaxRejects, MaxStops} \subseteq Nat

VARIABLES
  \* on disk
  surge,       \* name.surge: whose reservation it is, Nobody if it does not exist
  final,       \* the file itself: whose bytes it has
  row,         \* downloads.status, "none" without a row
  dest,        \* the file name a download has in its row and configuration
  \* the pool
  queued,      \* keys of p.queued
  entry,       \* what p.downloads has: "none", "active", "pausing", "paused"
  holder,      \* the worker that entered it there
  run,         \* run[w]: what worker w does: its step, its download, how it is stopped
  \* the requests
  enq,         \* where the enqueue of a download is
  cand,        \* the name it looks at
  call,        \* call[c]: the step and download of a caller
  \* events
  evs,         \* on their way to the event worker
  half,        \* the event worker is between the two writes of its event
  \* the program
  phase,       \* "up", "stopping", "closed", "down"
  toResume,    \* what resumePausedDownloads has still to resume
  \* history
  stored,      \* the queued event of a download was stored
  asked,       \* somebody removed it
  gone,        \* its removal was stored
  failed,      \* it failed or was aborted
  used         \* how often the bounded things happened

disk == <<surge, final, row, dest>>
pool == <<queued, entry, holder>>
requests == <<enq, cand, call>>
program == <<phase, toResume>>
history == <<stored, asked, gone, failed>>
vars == <<disk, pool, run, requests, evs, half, program, history, used>>

Statuses == {"none", "queued", "downloading", "paused", "completed", "error"}
EventKinds == {"queued", "started", "paused", "pausedRow", "complete", "error", "removed", "removedDone"}

IdleRun == [pc |-> "idle", d |-> Nobody, stop |-> "no"]
IdleCall == [pc |-> "idle", d |-> Nobody]
Unused == [calls |-> 0, errors |-> 0, rejects |-> 0, stops |-> 0]
Use(k) == used' = [used EXCEPT ![k] = @ + 1]

Init ==
  /\ surge = [n \in Names |-> Nobody]
  /\ final = [n \in Names |-> Nobody]
  /\ row = [d \in Downloads |-> "none"]
  /\ dest = [d \in Downloads |-> NoName]
  /\ queued = {}
  /\ entry = [d \in Downloads |-> "none"]
  /\ holder = [d \in Downloads |-> Nobody]
  /\ run = [w \in Workers |-> IdleRun]
  /\ enq = [d \in Downloads |-> "new"]
  /\ cand = [d \in Downloads |-> NoName]
  /\ call = [c \in Callers |-> IdleCall]
  /\ evs = <<>>
  /\ half = FALSE
  /\ phase = "up"
  /\ toResume = {}
  /\ stored = {} /\ asked = {} /\ gone = {} /\ failed = {}
  /\ used = Unused

(* InputCh and the listener's channel, one after the other; whoever finds  *)
(* them full waits.  (An event that waits for a second is dropped: not     *)
(* modelled.)                                                              *)
Event(k, d) == [kind |-> k, d |-> d, name |-> dest[d]]
Tell(e) == Len(evs) < MaxEvents /\ evs' = Append(evs, e)

-----------------------------------------------------------------------------
(* Enqueue.                                                                *)
Running == phase \in {"up", "stopping"}
EnqTo(d, l) == enq' = [enq EXCEPT ![d] = l]

(* The name a download is given before it is made unique: the one it was   *)
(* asked for with, the server's, or that of the URL, with an extension.    *)
BaseName(d) == Wanted[d]

Request(d) ==
  /\ phase = "up"
  /\ enq[d] = "new"
  /\ EnqTo(d, "final?")
  /\ cand' = [cand EXCEPT ![d] = BaseName(d)]
  /\ UNCHANGED <<disk, pool, run, call, evs, half, program, history, used>>

(* isNameActive: the pool has a download with that name.                   *)
NameActive(n) == \E d \in Downloads : (d \in queued \/ entry[d] # "none") /\ dest[d] = n

NextCandidate(d) ==
  /\ cand[d] < MaxName
  /\ cand' = [cand EXCEPT ![d] = @ + 1]
  /\ EnqTo(d, "final?")

(* GetUniqueFilename asks the pool and stats the final file, and then      *)
(* stats the working file.                                                 *)
LookForFinal(d) ==
  /\ enq[d] = "final?"
  /\ IF NameActive(cand[d]) \/ final[cand[d]] # Nobody
     THEN NextCandidate(d)
     ELSE EnqTo(d, "surge?") /\ UNCHANGED cand
  /\ UNCHANGED <<disk, pool, run, call, evs, half, program, history, used>>

LookForSurge(d) ==
  /\ enq[d] = "surge?"
  /\ IF surge[cand[d]] # Nobody
     THEN NextCandidate(d)
     ELSE EnqTo(d, "reserve") /\ UNCHANGED cand
  /\ UNCHANGED <<disk, pool, run, call, evs, half, program, history, used>>

\* Mutant: the working file is opened without O_EXCL.
ReserveShared(d) ==
  /\ enq[d] = "reserve"
  /\ surge' = [surge EXCEPT ![cand[d]] = d]
  /\ dest' = [dest EXCEPT ![d] = cand[d]]
  /\ EnqTo(d, "dispatch")
  /\ UNCHANGED <<final, row, cand, pool, run, call, evs, half, program, history, used>>

(* precreateWorkingFile, with O_EXCL; if it exists, from the start.        *)
Reserve(d) ==
  /\ enq[d] = "reserve"
  /\ IF surge[cand[d]] = Nobody
     THEN /\ surge' = [surge EXCEPT ![cand[d]] = d]
          /\ dest' = [dest EXCEPT ![d] = cand[d]]
          /\ EnqTo(d, "dispatch")
          /\ UNCHANGED cand
     ELSE /\ cand' = [cand EXCEPT ![d] = BaseName(d)]
          /\ EnqTo(d, "final?")
          /\ UNCHANGED <<surge, dest>>
  /\ UNCHANGED <<final, row, pool, run, call, evs, half, program, history, used>>

(* The service's add: the id is new, the pool takes the configuration.     *)
Dispatch(d) ==
  /\ enq[d] = "dispatch"
  /\ queued' = queued \cup {d}
  /\ EnqTo(d, "publish")
  /\ UNCHANGED <<disk, entry, holder, run, cand, call, evs, half, program, history, used>>

(* The queued event comes after the dispatch.                              *)
PublishQueued(d) ==
  /\ enq[d] = "publish"
  /\ Tell(Event("queued", d))
  /\ EnqTo(d, "done")
  /\ UNCHANGED <<disk, pool, run, cand, call, half, program, history, used>>

(* The request's context ends (its client is gone, or the program shuts    *)
(* down) before the reservation: recordPreflightDownloadError adds a row   *)
(* in "error" under a new id, d here, with the name inferred from the URL, *)
(* and publishes an error event for it.                                    *)
InferredName(d) == Wanted[d]

Abort(d) ==
  /\ enq[d] \in {"final?", "surge?", "reserve"}
  /\ used.rejects < MaxRejects
  /\ Use("rejects")
  /\ row' = [row EXCEPT ![d] = "error"]
  /\ dest' = [dest EXCEPT ![d] = InferredName(d)]
  /\ Tell([kind |-> "error", d |-> d, name |-> InferredName(d)])
  /\ EnqTo(d, "aborted")
  /\ failed' = failed \cup {d}
  /\ UNCHANGED <<surge, final, pool, run, cand, call, half, program, stored, asked, gone>>

EnqueueStep(d) ==
  /\ Running
  /\ \/ LookForFinal(d) \/ LookForSurge(d) \/ Reserve(d) \/ Dispatch(d) \/ PublishQueued(d)

-----------------------------------------------------------------------------
(* The pool's workers.                                                     *)
\* Mutant: what a worker takes stays queued.
TakeAgain(w, d) ==
  /\ run[w].pc = "idle"
  /\ d \in queued
  /\ entry' = [entry EXCEPT ![d] = "active"]
  /\ holder' = [holder EXCEPT ![d] = w]
  /\ run' = [run EXCEPT ![w] = [pc |-> "open", d |-> d, stop |-> "no"]]
  /\ Tell(Event("started", d))
  /\ UNCHANGED <<disk, queued, requests, half, program, history, used>>

(* A worker takes a download that is still queued, enters it in            *)
(* p.downloads, and TUIDownload tells that it has started.                 *)
Take(w, d) ==
  /\ run[w].pc = "idle"
  /\ d \in queued
  /\ queued' = queued \ {d}
  /\ entry' = [entry EXCEPT ![d] = "active"]
  /\ holder' = [holder EXCEPT ![d] = w]
  /\ run' = [run EXCEPT ![w] = [pc |-> "open", d |-> d, stop |-> "no"]]
  /\ Tell(Event("started", d))
  /\ UNCHANGED <<disk, requests, half, program, history, used>>

RunTo(w, l) == run' = [run EXCEPT ![w].pc = l]

(* The engine opens the working file, which must exist.                    *)
OpenWorkingFile(w) ==
  /\ run[w].pc = "open"
  /\ IF surge[dest[run[w].d]] # Nobody
     THEN RunTo(w, "transfer") /\ UNCHANGED failed
     ELSE /\ "silent" \in Races \/ run[w].stop = "no"
          /\ RunTo(w, "error")
          /\ failed' = failed \cup {run[w].d}
  /\ UNCHANGED <<disk, pool, requests, evs, half, program, stored, asked, gone, used>>

(* The transfer ends: with all bytes, an error, or its context.            *)
Transferred(w) ==
  /\ run[w].pc = "transfer"
  /\ "silent" \in Races \/ run[w].stop # "pause"
  /\ RunTo(w, "complete")
  /\ UNCHANGED <<disk, pool, requests, evs, half, program, history, used>>

TransferFails(w) ==
  /\ run[w].pc = "transfer"
  /\ used.errors < MaxErrors
  /\ "silent" \in Races \/ run[w].stop = "no"
  /\ Use("errors")
  /\ RunTo(w, "error")
  /\ failed' = failed \cup {run[w].d}
  /\ UNCHANGED <<disk, pool, requests, evs, half, program, stored, asked, gone>>

TransferStops(w) ==
  /\ run[w].pc \in {"open", "transfer"}
  /\ run[w].stop # "no"
  /\ RunTo(w, "stopped")
  /\ UNCHANGED <<disk, pool, requests, evs, half, program, history, used>>

(* TUIDownload and the worker after it: nothing is told of a download that *)
(* was removed, or whose transfer ended as it was being paused; a paused   *)
(* one stays in p.downloads, else what is there under the id is deleted.   *)
Outcome(w) ==
  CASE run[w].stop = "pause" -> IF run[w].pc = "stopped" THEN {"paused"} ELSE {}
    [] run[w].pc = "stopped" -> {}
    [] OTHER -> {run[w].pc}

Finish(w) ==
  LET d == run[w].d IN
  /\ run[w].pc \in {"complete", "error", "stopped"}
  /\ "late" \in Races \/ enq[d] # "publish"
  /\ IF Outcome(w) = {}
     THEN UNCHANGED evs
     ELSE \E k \in Outcome(w) : Tell(Event(k, d))
  /\ entry' = [entry EXCEPT ![d] =
       IF run[w].stop # "pause" THEN "none"
       ELSE IF holder[d] = w /\ @ = "pausing" THEN "paused" ELSE @]
  /\ run' = [run EXCEPT ![w] = IdleRun]
  /\ UNCHANGED <<disk, queued, holder, requests, half, program, history, used>>

WorkerStep(w) ==
  /\ Running
  /\ \/ \E d \in Downloads : Take(w, d)
     \/ OpenWorkingFile(w) \/ Transferred(w) \/ TransferStops(w) \/ Finish(w)

-----------------------------------------------------------------------------
(* The event worker, one event after the other.                            *)
HeadIs(k) == evs # <<>> /\ Head(evs).kind = k
Handled == evs' = Tail(evs) /\ half' = FALSE
HandlerKeeps == UNCHANGED <<pool, run, requests, program, asked, failed, used>>
SetRow(d, s) == row' = [row EXCEPT ![d] = s]

StoreQueued ==
  LET d == Head(evs).d IN
  /\ HeadIs("queued")
  /\ SetRow(d, "queued")
  /\ stored' = stored \cup {d}
  /\ Handled
  /\ HandlerKeeps /\ UNCHANGED <<surge, final, dest, gone>>

StoreStarted ==
  /\ HeadIs("started")
  /\ SetRow(Head(evs).d, "downloading")
  /\ Handled
  /\ HandlerKeeps /\ UNCHANGED <<surge, final, dest, stored, gone>>

(* A worker's pause brings its state and is stored in any case.            *)
StorePaused ==
  /\ HeadIs("paused")
  /\ SetRow(Head(evs).d, "paused")
  /\ Handled
  /\ HandlerKeeps /\ UNCHANGED <<surge, final, dest, stored, gone>>

(* One made up by LifecycleManager.Pause has none and needs a row.         *)
StorePausedRow ==
  LET d == Head(evs).d IN
  /\ HeadIs("pausedRow")
  /\ IF row[d] # "none" THEN SetRow(d, "paused") ELSE UNCHANGED row
  /\ Handled
  /\ HandlerKeeps /\ UNCHANGED <<surge, final, dest, stored, gone>>

(* finalizeCompletedFile renames the working file; ...                     *)
Promote ==
  LET n == dest[Head(evs).d] IN
  /\ HeadIs("complete") /\ ~half
  /\ row[Head(evs).d] # "none" /\ n # NoName
  /\ surge[n] # Nobody
  /\ "torn" \in Races \/ \A d \in Downloads : enq[d] \notin {"surge?", "reserve"}
  /\ final' = [final EXCEPT ![n] = surge[n]]
  /\ surge' = [surge EXCEPT ![n] = Nobody]
  /\ half' = TRUE
  /\ HandlerKeeps /\ UNCHANGED <<row, dest, evs, stored, gone>>

\* Mutant: a completion is stored whether or not its file was promoted.
StoreCompletedAnyway ==
  LET d == Head(evs).d IN
  /\ HeadIs("complete")
  /\ SetRow(d, "completed")
  /\ Handled
  /\ HandlerKeeps /\ UNCHANGED <<surge, final, dest, stored, gone>>

(* ... the rename succeeded, or failed although the final file is there.   *)
StoreCompleted ==
  LET d == Head(evs).d IN
  /\ HeadIs("complete")
  /\ half \/ (row[d] # "none" /\ dest[d] # NoName
              /\ surge[dest[d]] = Nobody /\ final[dest[d]] # Nobody)
  /\ SetRow(d, "completed")
  /\ Handled
  /\ HandlerKeeps /\ UNCHANGED <<surge, final, dest, stored, gone>>

(* Neither file is there, or no row that would say where: an error.        *)
PromoteFails ==
  LET d == Head(evs).d IN
  /\ HeadIs("complete") /\ ~half
  /\ row[d] = "none" \/ dest[d] = NoName
       \/ (surge[dest[d]] = Nobody /\ final[dest[d]] = Nobody)
  /\ SetRow(d, "error")
  /\ dest' = [dest EXCEPT ![d] = IF row[d] = "none" THEN NoName ELSE @]
  /\ failed' = failed \cup {d}
  /\ Handled
  /\ UNCHANGED <<surge, final, pool, run, requests, program, stored, asked, gone, used>>

Without(n) == IF n = NoName THEN surge ELSE [surge EXCEPT ![n] = Nobody]

(* An error goes into the row, if there is one, and its working file, or   *)
(* the one the event names, is removed.                                    *)
StoreError ==
  LET d == Head(evs).d IN
  /\ HeadIs("error")
  /\ IF row[d] # "none" THEN SetRow(d, "error") ELSE UNCHANGED row
  /\ surge' = Without(IF row[d] # "none" /\ dest[d] # NoName THEN dest[d] ELSE Head(evs).name)
  /\ Handled
  /\ HandlerKeeps /\ UNCHANGED <<final, dest, stored, gone>>

(* A removal deletes tasks and row, and then the working file.             *)
DeleteRow ==
  LET d == Head(evs).d IN
  /\ HeadIs("removed") \/ HeadIs("removedDone")
  /\ ~half
  /\ SetRow(d, "none")
  /\ gone' = gone \cup {d}
  /\ half' = TRUE
  /\ HandlerKeeps /\ UNCHANGED <<surge, final, dest, evs, stored>>

DeleteWorkingFile ==
  /\ HeadIs("removed") \/ HeadIs("removedDone")
  /\ half
  /\ surge' = IF HeadIs("removed") THEN Without(Head(evs).name) ELSE surge
  /\ Handled
  /\ HandlerKeeps /\ UNCHANGED <<final, row, dest, stored, gone>>

EventStep ==
  /\ phase # "down"
  /\ \/ StoreQueued \/ StoreStarted \/ StorePaused \/ StorePausedRow
     \/ Promote \/ StoreCompleted \/ PromoteFails \/ StoreError
     \/ DeleteRow \/ DeleteWorkingFile

-----------------------------------------------------------------------------
(* Pause, resume, remove.  The front ends call them with the ids they list, *)
(* of requests that have returned and were not removed.  A careful one only *)
(* pauses what the pool transfers or a row at rest says is paused, and only *)
(* resumes what is paused, or rests.                                        *)
Listed(d) == enq[d] \in {"done", "aborted"} /\ d \notin asked

Pending(d) == \E i \in DOMAIN evs : evs[i].d = d
AtWork(d) == \/ d \in queued \cup toResume \/ entry[d] # "none"
             \/ \E w \in Workers : run[w].d = d
             \/ \E c \in Callers : call[c].d = d
AtRest(d) == ~Pending(d) /\ ~AtWork(d)

OnlyName(d) ==
  "reuse" \in Races \/ d \notin failed \/ \A e \in Downloads \ {d} : Wanted[e] # Wanted[d]
MayPause(d) == "rash" \notin Races => entry[d] = "active" \/ (AtRest(d) /\ row[d] = "paused")
MayResume(d) ==
  /\ "rash" \notin Races => entry[d] = "paused" \/ (AtRest(d) /\ row[d] \in {"paused", "error"})
  /\ OnlyName(d)
MayRemove(d) ==
  /\ "rash" \notin Races => d \notin toResume /\ \A c \in Callers : call[c].d # d
  /\ OnlyName(d)

MayCall(c, d) ==
  /\ Running
  /\ call[c].pc = "idle"
  /\ Listed(d)
  /\ used.calls < MaxCalls
CallTo(c, l, d) == call' = [call EXCEPT ![c] = [pc |-> l, d |-> d]]

(* The pool has it and pauses it, or does nothing: paused already.         *)
Pause(c, d) ==
  /\ MayCall(c, d) /\ MayPause(d)
  /\ entry[d] # "none"
  /\ Use("calls")
  /\ "silent" \in Races \/ run[holder[d]].pc \in {"open", "transfer", "stopped"}
  /\ IF entry[d] = "active"
     THEN /\ entry' = [entry EXCEPT ![d] = "pausing"]
          /\ run' = [run EXCEPT ![holder[d]].stop = "pause"]
     ELSE UNCHANGED <<entry, run>>
  /\ UNCHANGED <<disk, queued, holder, requests, evs, half, program, history>>

(* The pool does not: if there is a row, a pause is made up.               *)
PauseStored(c, d) ==
  /\ MayCall(c, d) /\ MayPause(d)
  /\ entry[d] = "none"
  /\ row[d] # "none"
  /\ Use("calls")
  /\ Tell(Event("pausedRow", d))
  /\ UNCHANGED <<disk, pool, run, requests, half, program, history>>

(* Resume, the hot path: ExtractPausedConfig, then Add.                    *)
ResumeHot(c, d) ==
  /\ MayCall(c, d)
  /\ entry[d] = "paused"
  /\ Use("calls")
  /\ entry' = [entry EXCEPT ![d] = "none"]
  /\ CallTo(c, "add", d)
  /\ UNCHANGED <<disk, queued, holder, run, enq, cand, evs, half, program, history>>

(* The cold path: a row that is not completed.                             *)
Cold(d) == entry[d] \notin {"pausing", "paused"} /\ row[d] \notin {"none", "completed"}

ResumeCold(c, d) ==
  /\ MayCall(c, d) /\ MayResume(d)
  /\ Cold(d)
  /\ Use("calls")
  /\ CallTo(c, "add", d)
  /\ UNCHANGED <<disk, pool, run, enq, cand, evs, half, program, history>>

(* resumePausedDownloads resumes what the start of the program has found.  *)
ResumeStored(c, d) ==
  /\ phase = "up"
  /\ call[c].pc = "idle"
  /\ d \in toResume
  /\ toResume' = toResume \ {d}
  /\ IF Cold(d) THEN CallTo(c, "add", d) ELSE UNCHANGED call
  /\ UNCHANGED <<disk, pool, run, enq, cand, evs, half, phase, history, used>>

Add(c) ==
  /\ Running
  /\ call[c].pc = "add"
  /\ queued' = queued \cup {call[c].d}
  /\ call' = [call EXCEPT ![c] = IdleCall]
  /\ UNCHANGED <<disk, entry, holder, run, enq, cand, evs, half, program, history, used>>

\* Mutant: the context of the download is not cancelled.
CancelKeepsRun(c, d) ==
  /\ MayCall(c, d) /\ MayRemove(d)
  /\ Use("calls")
  /\ queued' = queued \ {d}
  /\ entry' = [entry EXCEPT ![d] = "none"]
  /\ asked' = asked \cup {d}
  /\ CallTo(c, "publish", d)
  /\ UNCHANGED <<disk, run, holder, enq, cand, evs, half, program, stored, gone, failed>>

(* Cancel: out of the pool's maps, its context is cancelled, and ...       *)
Cancel(c, d) ==
  /\ MayCall(c, d) /\ MayRemove(d)
  /\ Use("calls")
  /\ queued' = queued \ {d}
  /\ entry' = [entry EXCEPT ![d] = "none"]
  /\ run' = IF entry[d] \in {"active", "pausing"}
            THEN [run EXCEPT ![holder[d]].stop =
                    IF run[holder[d]].d = d /\ @ = "no" THEN "cancel" ELSE @]
            ELSE run
  /\ asked' = asked \cup {d}
  /\ CallTo(c, CASE entry[d] \in {"active", "pausing"} -> "wait"
                 [] entry[d] = "paused" \/ d \in queued -> "publish"
                 [] OTHER -> "look", d)
  /\ UNCHANGED <<disk, holder, enq, cand, evs, half, program, stored, gone, failed>>

(* ... its worker has left TUIDownload (the pool waits for three seconds;  *)
(* that a worker takes longer is not modelled); then its row is read and   *)
(* its removal published, unless neither the pool nor a row has it.        *)
CancelWaited(c) ==
  /\ Running
  /\ call[c].pc = "wait"
  /\ run[holder[call[c].d]].d # call[c].d
  /\ CallTo(c, "publish", call[c].d)
  /\ UNCHANGED <<disk, pool, run, enq, cand, evs, half, program, history, used>>

NotFound(c) ==
  /\ Running
  /\ call[c].pc = "look"
  /\ row[call[c].d] = "none"
  /\ call' = [call EXCEPT ![c] = IdleCall]
  /\ UNCHANGED <<disk, pool, run, enq, cand, evs, half, program, history, used>>

PublishRemoved(c) ==
  LET d == call[c].d IN
  /\ Running
  /\ call[c].pc = "publish" \/ (call[c].pc = "look" /\ row[d] # "none")
  /\ Tell(Event(IF row[d] = "completed" THEN "removedDone" ELSE "removed", d))
  /\ call' = [call EXCEPT ![c] = IdleCall]
  /\ UNCHANGED <<disk, pool, run, enq, cand, half, program, history, used>>

CallerStep(c) ==
  Add(c) \/ CancelWaited(c) \/ NotFound(c) \/ PublishRemoved(c) \/ \E d \in Downloads : ResumeStored(c, d)

Calls(c, d) ==
  Pause(c, d) \/ PauseStored(c, d) \/ ResumeHot(c, d) \/ ResumeCold(c, d) \/ Cancel(c, d)

-----------------------------------------------------------------------------
(* The program ends: GracefulShutdown empties the queue and pauses what is  *)
(* active; when its workers are done InputCh is closed.  Nobody waits for   *)
(* the event worker: the process exits with events still to be stored.      *)
Shutdown ==
  /\ phase = "up"
  /\ used.stops < MaxStops
  /\ Use("stops")
  /\ phase' = "stopping"
  /\ queued' = {}
  /\ entry' = [d \in Downloads |-> IF entry[d] = "active" THEN "pausing" ELSE entry[d]]
  /\ run' = [w \in Workers |->
               IF \E d \in Downloads : entry[d] = "active" /\ holder[d] = w
               THEN [run[w] EXCEPT !.stop = "pause"] ELSE run[w]]
  /\ UNCHANGED <<disk, holder, requests, evs, half, toResume, history>>

CloseInput ==
  /\ phase = "stopping"
  /\ \A w \in Workers : run[w].pc = "idle"
  /\ phase' = "closed"
  /\ UNCHANGED <<disk, pool, run, requests, evs, half, toResume, history, used>>

(* What is in memory is gone, on disk is what was written.                 *)
Gone ==
  /\ phase' = "down"
  /\ queued' = {} /\ toResume' = {}
  /\ entry' = [d \in Downloads |-> "none"]
  /\ holder' = [d \in Downloads |-> Nobody]
  /\ run' = [w \in Workers |-> IdleRun]
  /\ enq' = [d \in Downloads |-> IF enq[d] \in {"new", "aborted"} THEN enq[d] ELSE "done"]
  /\ call' = [c \in Callers |-> IdleCall]
  /\ evs' = <<>> /\ half' = FALSE
  /\ UNCHANGED <<disk, cand, history>>

Exit == phase = "closed" /\ Gone /\ UNCHANGED used

Kill ==
  /\ phase \in {"up", "stopping"}
  /\ used.stops < MaxStops
  /\ Use("stops")
  /\ Gone

\* Mutant: nothing is normalized.
NormalizedNone == row

(* NormalizeStaleDownloads: nobody downloads any more.                     *)
Normalized == [d \in Downloads |-> IF row[d] = "downloading" THEN "paused" ELSE row[d]]

(* ValidateIntegrity: rows to be resumed whose working file is missing are *)
(* deleted, and working files no row asks for.  (It looks for them in the  *)
(* directories rows name.)                                                 *)
Resumable(r, d) == r[d] \in {"paused", "queued"}
Missing(r) == {d \in Downloads : Resumable(r, d) /\ (dest[d] = NoName \/ surge[dest[d]] = Nobody)}
\* Mutant: only files of paused downloads are expected.
ExpectedPaused(r) == {dest[d] : d \in {e \in Downloads : r[e] = "paused"}}

Expected(r) == {dest[d] : d \in {e \in Downloads : r[e] \notin {"none", "completed"}}}

Validated(r) == [d \in Downloads |-> IF d \in Missing(r) THEN "none" ELSE r[d]]
KnownFiles(r) ==
  IF \A d \in Downloads : r[d] = "none" \/ dest[d] = NoName
  THEN surge
  ELSE [n \in Names |-> IF n \in Expected(r) THEN surge[n] ELSE Nobody]

(* The program starts.  Paused downloads are resumed if AutoResume is set. *)
Start ==
  /\ phase = "down"
  /\ LET r == IF Integrity THEN Validated(Normalized) ELSE row
     IN /\ row' = r
        /\ surge' = IF Integrity THEN KnownFiles(Normalized) ELSE surge
        /\ \E auto \in BOOLEAN :
             toResume' = {d \in Downloads : r[d] = "queued" \/ (auto /\ r[d] = "paused")}
  /\ phase' = "up"
  /\ UNCHANGED <<final, dest, pool, run, requests, evs, half, history, used>>

-----------------------------------------------------------------------------
Next ==
  \/ \E d \in Downloads : Request(d) \/ EnqueueStep(d) \/ (Running /\ Abort(d))
  \/ \E w \in Workers : WorkerStep(w) \/ (Running /\ TransferFails(w))
  \/ EventStep
  \/ \E c \in Callers : CallerStep(c) \/ \E d \in Downloads : Calls(c, d)
  \/ Shutdown \/ CloseInput \/ Exit \/ Kill \/ Start

(* Goroutines are scheduled, transfers end, a program that shuts down exits *)
(* and is started again.  Nobody has to request, pause, remove or stop     *)
(* anything.                                                               *)
Fairness ==
  /\ \A d \in Downloads : WF_vars(EnqueueStep(d))
  /\ \A w \in Workers : WF_vars(WorkerStep(w))
  /\ \A c \in Callers : WF_vars(CallerStep(c))
  /\ WF_vars(EventStep)
  /\ WF_vars(CloseInput) /\ WF_vars(Exit) /\ WF_vars(Start)

Spec == Init /\ [][Next]_vars
LiveSpec == Spec /\ Fairness

-----------------------------------------------------------------------------
TypeOK ==
  /\ surge \in [Names -> Downloads \cup {Nobody}]
  /\ final \in [Names -> Downloads \cup {Nobody}]
  /\ row \in [Downloads -> Statuses]
  /\ dest \in [Downloads -> Names \cup {NoName}]
  /\ queued \subseteq Downloads
  /\ entry \in [Downloads -> {"none", "active", "pausing", "paused"}]
  /\ holder \in [Downloads -> Workers \cup {Nobody}]
  /\ run \in [Workers -> [pc : {"idle", "open", "transfer", "complete", "error", "stopped"},
                          d : Downloads \cup {Nobody}, stop : {"no", "pause", "cancel"}]]
  /\ enq \in [Downloads -> {"new", "final?", "surge?", "reserve", "dispatch", "publish",
                            "done", "aborted"}]
  /\ cand \in [Downloads -> Names \cup {NoName}]
  /\ call \in [Callers -> [pc : {"idle", "add", "wait", "look", "publish"}, d : Downloads \cup {Nobody}]]
  /\ evs \in Seq([kind : EventKinds, d : Downloads, name : Names \cup {NoName}])
  /\ half \in BOOLEAN
  /\ phase \in {"up", "stopping", "closed", "down"}
  /\ toResume \subseteq Downloads
  /\ gone \subseteq Downloads
  /\ stored \subseteq Downloads /\ asked \subseteq Downloads /\ failed \subseteq Downloads
  /\ used \in [calls : Nat, errors : Nat, rejects : Nat, stops : Nat]

Transferring(w) == run[w].pc = "transfer"

(* A transfer writes to the file its own download reserved, and to no      *)
(* other's: neither a name handed out twice (file_utils.go:66-67) nor the  *)
(* removal of another's file (events.go:298-305, 337) takes it away.       *)
OwnFile == \A w \in Workers : Transferring(w) => surge[dest[run[w].d]] = run[w].d

(* Two workers never transfer to one file: a download that is resumed is   *)
(* not still running (pause_resume.go:84-150).                             *)
OneWriter ==
  \A v, w \in Workers :
    v # w /\ Transferring(v) /\ Transferring(w) => dest[run[v].d] # dest[run[w].d]

(* Once the removal of a download was stored no event that was under way   *)
(* and no later start brings its row back (events.go:329-330).             *)
RemovedStaysGone == \A d \in gone : row[d] = "none"

(* A request that was stored is not lost, whatever ends the program and    *)
(* whatever the start after it cleans up: unless it failed or is removed   *)
(* it has a row or its file (state.go:810-959).                            *)
AcceptedSurvives ==
  \A d \in stored \ (asked \cup failed) :
    row[d] # "none" \/ (dest[d] # NoName /\ final[dest[d]] = d)

(* A row says completed only when the final file has the bytes of that     *)
(* very download (events.go:205-274).                                      *)
CompletedIsThere == \A d \in Downloads : row[d] = "completed" => final[dest[d]] = d

(* No row says that a download is queued or under way while nothing works  *)
(* on it and nothing is to be stored about it: it would look frozen for    *)
(* ever (state.go:786-791).                                                *)
NothingFrozen ==
  \A d \in Downloads :
    phase = "up" /\ AtRest(d) => row[d] \notin {"queued", "downloading"}

(* Completed is final: no event that comes late turns it into something    *)
(* else, only a removal does.                                              *)
CompletedStays ==
  [][\A d \in Downloads : row[d] = "completed" /\ row'[d] # "completed" => d \in asked]_vars

(* What is queued or under way comes to an end, over any stops and starts. *)
ComesToRest ==
  \A d \in Downloads :
    row[d] \in {"queued", "downloading"} ~> row[d] \in {"none", "paused", "completed", "error"}
=============================================================================
