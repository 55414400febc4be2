----------------------------- MODULE Checkpoint -----------------------------
(***************************************************************************)
(* What is known of a download's progress, in memory and in the database,  *)
(* from session to session: the ProgressState of                           *)
(* src/internal/engine/types/progress.go, with the map of chunks that the  *)
(* interface draws, and the row and the tasks that                         *)
(* src/internal/engine/state/state.go keeps of a paused download.          *)
(*                                                                         *)
(* The same bytes are counted twice, by what the workers report and by the *)
(* tasks that remain, and a session starts from either.  Stealing and      *)
(* hedging of tasks are ConcurrentDownloader's and left out here, so tasks *)
(* do not overlap; names and files are Lifecycle's.                        *)
(***************************************************************************)
EXTENDS Integers, Sequences, FiniteSets, FiniteSetsExt, Functions

CONSTANTS Total,         \* bytes of the file
          ChunkSizes,    \* chunk sizes the settings of a session may lead to
          Fetchers,      \* connections
          URLs,          \* addresses the file can be had from
          FirstURL,
          Late,          \* TRUE if events may still be under way when somebody resumes or updates
          MaxRead,       \* bound: bytes of one write
          MaxFetchFails, \* bound: tasks that fail
          MaxTime,       \* bound: ticks of the clock
          MaxSessions, MaxKills, MaxUpdates, MaxSyncFails

ASSUME CheckpointAssumption ==
  /\ {Total, MaxRead} \subseteq Nat \ {0}
  /\ ChunkSizes \subseteq Nat \ {0}
  /\ IsFiniteSet(Fetchers)
  /\ FirstURL \in URLs
  /\ Late \in BOOLEAN
  /\ {MaxFetchFails, MaxTime, MaxSessions, MaxKills, MaxUpdates, MaxSyncFails} \subseteq Nat

VARIABLES
  mode,    \* "down", "rest", "queued", "run", "pausing", "ending", "single", "done"
  cfg,     \* the pool's configuration: URL, TotalSize, SupportsRange
  ps,      \* the ProgressState, NoState without one
  plan,    \* tasks that wait in the queue
  fetch,   \* fetch[f]: the task of a connection, and the bytes it has yet to report
  at,      \* bytes the single connection has copied
  disk,    \* bytes that were written to the working file
  row,     \* the row in downloads
  tasks,   \* its rows in tasks
  sent,    \* events on their way to the event worker
  half,    \* the event worker is between two writes of one event
  now,     \* the clock
  worked,  \* ticks that passed while a session ran
  plain,   \* a single connection was used: its figures are rougher
  count    \* how often the bounded things happened

memory == <<cfg, ps>>
session == <<plan, fetch, at>>
database == <<row, tasks>>
events == <<sent, half>>
clock == <<now, worked>>
checkpointVars == <<mode, memory, session, disk, database, events, clock, plain, count>>

Less(a, b) == IF a < b THEN a ELSE b
More(a, b) == IF a > b THEN a ELSE b
SumOf(f) == FoldFunction(+, 0, f)
Inc(k) == count' = [count EXCEPT ![k] = @ + 1]

-----------------------------------------------------------------------------
(* Chunks and tasks.                                                       *)
Task(from, n) == [off |-> from, len |-> n]
BytesOf(t) == t.off .. (t.off + t.len - 1)

\* bitmapLayout; how four chunks share a byte is left out.
Chunks(s) == 0 .. (((Total + s - 1) \div s) - 1)

ChunkLen(s, i) == Less(Total, (i + 1) * s) - i * s

Overlap(s, i, t) == More(0, Less(t.off + t.len, i * s + ChunkLen(s, i)) - More(t.off, i * s))
OverlapAll(s, i, ts) == SumOf([k \in DOMAIN ts |-> Overlap(s, i, ts[k])])

\* createTasks
FreshTasks(s) ==
  [k \in 1 .. Cardinality(Chunks(s)) |-> Task((k - 1) * s, ChunkLen(s, k - 1))]

-----------------------------------------------------------------------------
(* ProgressState.  Its methods hold its lock, but for the atomic counters. *)
NoState == [total |-> -1]

NewProgressState(t) ==
  [total |-> t, size |-> 0, bits |-> <<>>, chunk |-> <<>>, verified |-> 0, downloaded |-> 0,
   base |-> 0, since |-> now, elapsed |-> 0]

SyncSessionStart(p) == [p EXCEPT !.base = p.verified, !.since = now]

SetTotalSize(p, t) ==
  IF p.total = t THEN p ELSE SyncSessionStart([p EXCEPT !.total = t])

\* Mutant: the session's clock runs on.
FinalizeSessionRunsOn(p, n) ==
  [p EXCEPT !.elapsed = @ + (now - p.since), !.base = n, !.downloaded = n, !.verified = n]

FinalizeSession(p, n) ==
  [p EXCEPT !.elapsed = @ + (now - p.since), !.since = now,
            !.base = n, !.downloaded = n, !.verified = n]

Blank(s) == [i \in Chunks(s) |-> 0]

SessionReset(p) ==
  [p EXCEPT !.verified = 0, !.downloaded = 0, !.base = 0, !.since = now, !.elapsed = 0,
            !.bits = [i \in DOMAIN @ |-> "pending"], !.chunk = [i \in DOMAIN @ |-> 0]]

InitBitmap(p, s) ==
  IF p.size = s THEN p
  ELSE [p EXCEPT !.size = s, !.bits = [i \in Chunks(s) |-> "pending"], !.chunk = Blank(s)]

RestoreBitmap(p, bits, s) ==
  IF s = 0 \/ p.total <= 0 THEN p
  ELSE [p EXCEPT !.size = s, !.bits = bits,
                 !.chunk = IF DOMAIN @ = Chunks(s) THEN @ ELSE Blank(s)]

\* What a report of written bytes adds to a chunk: no more than it lacks.
Gain(p, i, t) == Less(Overlap(p.size, i, t), ChunkLen(p.size, i) - p.chunk[i])
GainAll(p, t) == SumOf([i \in Chunks(p.size) |-> Gain(p, i, t)])

SetChunkState(p, i, n) ==
  IF n = ChunkLen(p.size, i) THEN "completed" ELSE IF n > 0 THEN "downloading" ELSE "pending"

\* UpdateChunkStatus, at the start of a task ...
MarkDownloading(p, t) ==
  [p EXCEPT !.bits = [i \in DOMAIN @ |->
     IF Overlap(p.size, i, t) > 0 /\ @[i] # "completed" THEN "downloading" ELSE @[i]]]

\* ... and when bytes were written; VerifiedProgress follows after the unlock.
MarkCompleted(p, t) ==
  [p EXCEPT !.chunk = [i \in DOMAIN @ |-> @[i] + Gain(p, i, t)],
            !.bits = [i \in DOMAIN @ |->
              IF Overlap(p.size, i, t) = 0 \/ @[i] = "completed" THEN @[i]
              ELSE SetChunkState(p, i, p.chunk[i] + Gain(p, i, t))]]

\* What no remaining task asks for is there.
RecalculateProgress(p, ts) ==
  LET left == [i \in Chunks(p.size) |-> OverlapAll(p.size, i, ts)]
      n == [i \in DOMAIN left |-> More(0, ChunkLen(p.size, i) - left[i])]
  IN [p EXCEPT !.chunk = n, !.verified = Total - SumOf(left),
               !.bits = [i \in DOMAIN n |-> SetChunkState(p, i, n[i])]]

-----------------------------------------------------------------------------
(* The database.  Statements and transactions are atomic.                  *)
AddToMasterList(r) == row' = [row EXCEPT !.status = r.status, !.url = r.url, !.total = r.total,
                                         !.downloaded = r.downloaded, !.elapsed = r.elapsed]

SaveState(s) ==
  /\ row' = [row EXCEPT !.status = "paused", !.url = s.url, !.total = Total, !.elapsed = s.elapsed,
                        !.downloaded = s.downloaded, !.size = s.size, !.bits = s.bits]
  /\ tasks' = s.tasks

\* LoadState looks for the URL (and a path, here always the same).
LoadState(u) ==
  IF row.url = u /\ row.status # "completed" THEN [row |-> row, tasks |-> tasks]
  ELSE [row |-> row, tasks |-> <<>>]
\* LoadStates looks for the id.
LoadStates == [row |-> row, tasks |-> tasks]

-----------------------------------------------------------------------------
IdleFetch == [off |-> 0, stop |-> 0, from |-> 0, n |-> 0, add |-> -1]
Flushed(f) == fetch[f].n = 0
Idle(f) == Flushed(f) /\ fetch[f].off = fetch[f].stop

CheckpointInit ==
  /\ mode = "queued"
  /\ cfg = [url |-> FirstURL, total |-> Total, ranges |-> TRUE]
  /\ now = 0 /\ worked = 0
  /\ ps = [NewProgressState(0) EXCEPT !.since = 0]
  /\ plan = <<>> /\ fetch = [f \in Fetchers |-> IdleFetch] /\ at = 0
  /\ disk = {}
  /\ row = [status |-> "queued", url |-> FirstURL, total |-> 0, downloaded |-> 0, elapsed |-> 0,
            size |-> 0, bits |-> <<>>]
  /\ tasks = <<>>
  /\ sent = <<>> /\ half = FALSE
  /\ plain = FALSE
  /\ count = [fails |-> 0, sessions |-> 0, kills |-> 0, updates |-> 0, syncs |-> 0]

Tell(e) == sent' = Append(sent, e)

(* setupTasks: from what a pause has stored, or from the beginning.        *)
SetupTasks(p, s) ==
  LET saved == LoadState(cfg.url)
      p1 == SyncSessionStart([p EXCEPT !.verified = saved.row.downloaded,
                                       !.elapsed = saved.row.elapsed])
      p2 == RecalculateProgress(RestoreBitmap(p1, saved.row.bits, saved.row.size), saved.tasks)
  IN IF saved.tasks = <<>>
     THEN /\ ps' = SyncSessionStart([p EXCEPT !.downloaded = 0])
          /\ plan' = FreshTasks(s)
     ELSE /\ ps' = IF saved.row.size > 0
                   THEN SyncSessionStart([p2 EXCEPT !.downloaded = p2.verified])
                   ELSE [p1 EXCEPT !.downloaded = saved.row.downloaded]
          /\ plan' = saved.tasks

(* A worker of the pool takes the download: TUIDownload up to the engine.  *)
Begin ==
  /\ mode = "queued"
  /\ count.sessions < MaxSessions
  /\ Inc("sessions")
  /\ Tell([kind |-> "started", url |-> cfg.url, total |-> cfg.total])
  /\ cfg' = [cfg EXCEPT !.total = Total]
  /\ LET p == SetTotalSize(ps, Total)
     IN IF cfg.ranges
        THEN /\ \E s \in ChunkSizes : SetupTasks(InitBitmap(p, s), s)
             /\ mode' = "run"
             /\ UNCHANGED <<at, plain>>
        ELSE /\ ps' = p
             /\ at' = 0 /\ mode' = "single" /\ plain' = TRUE
             /\ UNCHANGED plan
  /\ UNCHANGED <<fetch, disk, database, half, clock>>

-----------------------------------------------------------------------------
(* The connections.                                                        *)
PopTask(f) ==
  /\ mode = "run"
  /\ Idle(f)
  /\ plan # <<>>
  /\ LET t == Head(plan)
     IN /\ fetch' = [fetch EXCEPT ![f] =
                       [off |-> t.off, stop |-> t.off + t.len, from |-> t.off, n |-> 0, add |-> -1]]
        /\ ps' = MarkDownloading(ps, t)
  /\ plan' = Tail(plan)
  /\ UNCHANGED <<mode, cfg, at, disk, database, events, clock, plain, count>>

(* Bytes reach the file; they are reported in batches.                     *)
WriteBytes(f) ==
  LET a == fetch[f] IN
  /\ mode \in {"run", "pausing"}
  /\ a.add = -1
  /\ \E n \in 1 .. Less(MaxRead, a.stop - a.off) :
       /\ disk' = disk \cup BytesOf(Task(a.off, n))
       /\ fetch' = [fetch EXCEPT ![f].off = @ + n, ![f].n = @ + n,
                                 ![f].from = IF a.n = 0 THEN a.off ELSE @]
  /\ UNCHANGED <<mode, memory, plan, at, database, events, clock, plain, count>>

(* flushUpdates: the chunk map under the lock, ...                         *)
FlushMap(f) ==
  LET t == Task(fetch[f].from, fetch[f].n) IN
  /\ fetch[f].n > 0 /\ fetch[f].add = -1
  /\ ps' = MarkCompleted(ps, t)
  /\ fetch' = [fetch EXCEPT ![f].add = GainAll(ps, t)]
  /\ UNCHANGED <<mode, cfg, plan, at, disk, database, events, clock, plain, count>>

(* ... and the counters after it.                                          *)
FlushCounters(f) ==
  /\ fetch[f].add # -1
  /\ ps' = [ps EXCEPT !.verified = @ + fetch[f].add, !.downloaded = @ + fetch[f].n]
  /\ fetch' = [fetch EXCEPT ![f].add = -1, ![f].n = 0]
  /\ UNCHANGED <<mode, cfg, plan, at, disk, database, events, clock, plain, count>>

\* Mutant: the whole task is queued again.
FetchFailsWhole(f) ==
  LET a == fetch[f] IN
  /\ mode = "run"
  /\ Flushed(f) /\ a.off < a.stop
  /\ count.fails < MaxFetchFails
  /\ Inc("fails")
  /\ plan' = Append(plan, Task(0, a.stop))
  /\ fetch' = [fetch EXCEPT ![f] = IdleFetch]
  /\ UNCHANGED <<mode, memory, at, disk, database, events, clock, plain>>

(* What is left of a task that failed goes back to the queue.              *)
FetchFails(f) ==
  LET a == fetch[f] IN
  /\ mode = "run"
  /\ Flushed(f) /\ a.off < a.stop
  /\ count.fails < MaxFetchFails
  /\ Inc("fails")
  /\ plan' = Append(plan, Task(a.off, a.stop - a.off))
  /\ fetch' = [fetch EXCEPT ![f] = IdleFetch]
  /\ UNCHANGED <<mode, memory, at, disk, database, events, clock, plain>>

AskPause ==
  /\ mode = "run"
  /\ mode' = "pausing"
  /\ UNCHANGED <<memory, session, disk, database, events, clock, plain, count>>

-----------------------------------------------------------------------------
(* The ends of a session.                                                  *)
Working == {f \in Fetchers : fetch[f].off < fetch[f].stop}
ActiveTasks ==
  FoldSet(LAMBDA f, ts : Append(ts, Task(fetch[f].off, fetch[f].stop - fetch[f].off)),
          <<>>, Working)
SessionEnds == fetch' = [f \in Fetchers |-> IdleFetch] /\ plan' = <<>>

\* Mutant: tasks that were being worked on are forgotten.
RemainingQueued == plan

(* handlePause: what remains is in the queue or with a connection.         *)
RemainingTasks == plan \o ActiveTasks

HandlePause ==
  LET ts == RemainingTasks
      left == SumOf([k \in DOMAIN ts |-> ts[k].len])
      p == FinalizeSession(ps, Total - left)
  IN /\ mode = "pausing"
     /\ \A f \in Fetchers : Flushed(f)
     /\ ps' = p
     /\ IF left = 0
        THEN mode' = "ending" /\ UNCHANGED sent
        ELSE /\ mode' = "rest"
             /\ Tell([kind |-> "paused", url |-> cfg.url, downloaded |-> p.verified,
                      elapsed |-> p.elapsed, tasks |-> ts, bits |-> p.bits, size |-> p.size])
     /\ SessionEnds
     /\ UNCHANGED <<cfg, at, disk, database, half, clock, plain, count>>

(* The monitor closes the queue; the file is synced.                       *)
AllFetched ==
  /\ mode = "run"
  /\ plan = <<>> /\ \A f \in Fetchers : Idle(f)
  /\ mode' = "ending"
  /\ SessionEnds
  /\ UNCHANGED <<memory, at, disk, database, events, clock, plain, count>>

Finished(p) ==
  /\ ps' = FinalizeSession(p, Total)
  /\ mode' = "done"
  /\ Tell([kind |-> "complete", elapsed |-> FinalizeSession(p, Total).elapsed])

Complete ==
  /\ mode = "ending"
  /\ Finished(ps)
  /\ UNCHANGED <<cfg, session, disk, database, half, clock, plain, count>>

(* The sync fails: from byte 0 over one connection, in an emptied file.    *)
SyncFails ==
  /\ mode = "ending"
  /\ count.syncs < MaxSyncFails
  /\ Inc("syncs")
  /\ ps' = SessionReset(ps)
  /\ disk' = {} /\ at' = 0
  /\ mode' = "single" /\ plain' = TRUE
  /\ UNCHANGED <<cfg, plan, fetch, database, events, clock>>

(* One connection: the counters get the bytes that were read.              *)
SingleCopy ==
  /\ mode = "single"
  /\ \E n \in 1 .. Less(MaxRead, Total - at) : at' = at + n
  /\ disk' = disk \cup (at .. (at' - 1))
  /\ \/ UNCHANGED ps
     \/ ps' = [ps EXCEPT !.verified = at', !.downloaded = at']
  /\ UNCHANGED <<mode, cfg, plan, fetch, database, events, clock, plain, count>>

SingleDone ==
  /\ mode = "single"
  /\ at = Total
  /\ Finished([ps EXCEPT !.verified = at, !.downloaded = at])
  /\ UNCHANGED <<cfg, session, disk, database, half, clock, plain, count>>

(* A pause ends it; nothing is sent.                                       *)
SingleStops ==
  /\ mode = "single"
  /\ mode' = "rest"
  /\ UNCHANGED <<memory, session, disk, database, events, clock, plain, count>>

-----------------------------------------------------------------------------
(* The event worker.                                                       *)
Next1(k) == sent # <<>> /\ Head(sent).kind = k
Taken == sent' = Tail(sent) /\ half' = FALSE
StoreKeeps == UNCHANGED <<mode, memory, session, disk, clock, plain, count>>

StoreStarted ==
  /\ Next1("started")
  /\ AddToMasterList([row EXCEPT !.status = "downloading", !.url = Head(sent).url,
                                 !.total = Head(sent).total])
  /\ Taken
  /\ StoreKeeps /\ UNCHANGED tasks

(* A pause is stored in two writes: the entry, ...                         *)
StorePausedEntry ==
  LET s == Head(sent) IN
  /\ Next1("paused") /\ ~half
  /\ AddToMasterList([row EXCEPT !.status = "paused", !.downloaded = s.downloaded, !.total = Total,
                                 !.elapsed = More(@, s.elapsed)])
  /\ half' = TRUE
  /\ StoreKeeps /\ UNCHANGED <<tasks, sent>>

(* ... and its state.                                                      *)
StorePausedState ==
  /\ Next1("paused") /\ half
  /\ SaveState([Head(sent) EXCEPT !.elapsed = More(row.elapsed, @)])
  /\ Taken
  /\ StoreKeeps

StoreComplete ==
  /\ Next1("complete") /\ ~half
  /\ AddToMasterList([row EXCEPT !.status = "completed", !.downloaded = Total, !.total = Total,
                                 !.elapsed = Head(sent).elapsed])
  /\ half' = TRUE
  /\ StoreKeeps /\ UNCHANGED <<tasks, sent>>

DeleteTasks ==
  /\ Next1("complete") /\ half
  /\ tasks' = <<>>
  /\ Taken
  /\ StoreKeeps /\ UNCHANGED row

-----------------------------------------------------------------------------
(* Resume and a new address.                                               *)
EventsStored == Late \/ sent = <<>>

(* The pool still has the configuration: hydrateConfigFromDisk.            *)
HotResume ==
  /\ mode = "rest"
  /\ ps # NoState
  /\ EventsStored
  /\ cfg' = [cfg EXCEPT !.ranges = @ \/ LoadState(cfg.url).tasks # <<>>]
  /\ mode' = "queued"
  /\ UNCHANGED <<ps, session, disk, database, events, clock, plain, count>>

\* buildResumeConfig
ResumedState(saved) ==
  SyncSessionStart([NewProgressState(saved.row.total) EXCEPT
    !.downloaded = saved.row.downloaded, !.verified = saved.row.downloaded,
    !.elapsed = saved.row.elapsed])

(* Only the database has it: Resume, or ResumeBatch for several.           *)
ColdResume ==
  /\ mode = "rest"
  /\ ps = NoState
  /\ \E saved \in {LoadState(row.url), LoadStates} :
       /\ ps' = ResumedState(saved)
       /\ cfg' = [url |-> row.url, total |-> row.total, ranges |-> saved.tasks # <<>>]
  /\ mode' = "queued"
  /\ UNCHANGED <<session, disk, database, events, clock, plain, count>>

(* UpdateURL: the pool's configuration, if it has one that does not run,   *)
(* and the row.                                                            *)
UpdateURL ==
  /\ mode = "rest"
  /\ EventsStored
  /\ count.updates < MaxUpdates
  /\ Inc("updates")
  /\ \E u \in URLs \ {row.url} :
       /\ cfg' = IF ps = NoState THEN cfg ELSE [cfg EXCEPT !.url = u]
       /\ row' = [row EXCEPT !.url = u]
  /\ UNCHANGED <<mode, ps, session, disk, tasks, events, clock, plain>>

(* The process is killed, and started again; memory and events are lost.   *)
KillProcess ==
  /\ mode \notin {"down", "done"}
  /\ count.kills < MaxKills
  /\ Inc("kills")
  /\ mode' = "down"
  /\ ps' = NoState
  /\ SessionEnds /\ at' = 0
  /\ sent' = <<>> /\ half' = FALSE
  /\ UNCHANGED <<cfg, disk, database, clock, plain>>

Restart ==
  /\ mode = "down"
  /\ mode' = "rest"
  /\ row' = [row EXCEPT !.status = IF @ = "downloading" THEN "paused" ELSE @]
  /\ UNCHANGED <<memory, session, disk, tasks, events, clock, plain, count>>

Tick ==
  /\ now < MaxTime
  /\ now' = now + 1
  /\ worked' = IF mode \in {"run", "pausing", "ending", "single"} THEN worked + 1 ELSE worked
  /\ UNCHANGED <<mode, memory, session, disk, database, events, plain, count>>

CheckpointNext ==
  \/ Begin
  \/ \E f \in Fetchers :
       PopTask(f) \/ WriteBytes(f) \/ FlushMap(f) \/ FlushCounters(f) \/ FetchFails(f)
  \/ AskPause \/ HandlePause \/ AllFetched \/ Complete \/ SyncFails
  \/ SingleCopy \/ SingleDone \/ SingleStops
  \/ StoreStarted \/ StorePausedEntry \/ StorePausedState \/ StoreComplete \/ DeleteTasks
  \/ HotResume \/ ColdResume \/ UpdateURL
  \/ KillProcess \/ Restart \/ Tick

CheckpointSpec == CheckpointInit /\ [][CheckpointNext]_checkpointVars

-----------------------------------------------------------------------------
Fetching == mode \in {"run", "pausing"} /\ ~plain
Charted == ps # NoState /\ ~plain /\ ps.size > 0
Adding == SumOf([f \in Fetchers |-> More(0, fetch[f].add)])

(* The two figures of the progress agree: what workers have reported, but  *)
(* for reports between the unlock and the counter, is the sum over the     *)
(* chunks, however often the download was killed, or resumed with chunks   *)
(* of another size; a pause, which takes the progress from the tasks that  *)
(* remain, does not move it (progress.go:422-589, downloader.go:537-551).  *)
VerifiedIsSum == Charted => ps.verified + Adding = SumOf(ps.chunk)

(* No chunk is shown with more bytes than the file has of it, and none as  *)
(* completed that has a hole (progress.go:484-498, 569-588).               *)
ChunksAreWritten ==
  Fetching =>
    \A i \in DOMAIN ps.chunk :
      LET s == ps.size
          written == Cardinality(disk \cap BytesOf(Task(i * s, ChunkLen(s, i))))
      IN /\ ps.chunk[i] <= written
         /\ ps.bits[i] = "completed" => written = ChunkLen(s, i)

(* The time a download has taken is the time its sessions have run, unless *)
(* a kill has lost some; it is never counted twice (progress.go:197-223).  *)
ElapsedIsWorked ==
  /\ ~plain => row.elapsed <= worked
  /\ ps # NoState /\ ~plain =>
       LET e == ps.elapsed +
                (IF mode \in {"run", "pausing", "ending"} THEN now - ps.since ELSE 0)
       IN IF count.kills = 0 THEN e = worked ELSE e <= worked
=============================================================================
