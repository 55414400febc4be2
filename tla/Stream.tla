-------------------------------- MODULE Stream --------------------------------
(***************************************************************************)
(* src/internal/stream/downloader.go: one stream download, from Start to   *)
(* its last event.  A goroutine of its own (not of the worker pool) fetches *)
(* the manifest, downloads the parts one after the other, each with its own *)
(* segment workers, and joins them.  What the servers answer and whether    *)
(* ffmpeg succeeds is external.                                             *)
(*                                                                         *)
(* Data is abstracted to which segments of a part are on disk; progress    *)
(* events, sidecars, the choice of a quality and a full disk are left out. *)
(***************************************************************************)
EXTENDS Integers, Sequences, FiniteSets, FiniteSetsExt

CONSTANTS Workers,     \* segWorkerCount() of them
          Segments,    \* segments a playlist lists for a part
          Absent,      \* how many of them, at its end, do not exist
          MaxRetries,  \* 12 in the code
          Answers,     \* what a server answers for a segment that exists
          FFmpeg       \* whether ffmpeg may be there, a set of Booleans

KnownAnswers == {"ok", "bad", "skip", "404", "429", "error"}

ASSUME StreamAssumption ==
  /\ IsFiniteSet(Workers) /\ Workers # {}
  /\ Segments \in Nat \ {0} /\ Absent \in 0 .. Segments
  /\ MaxRetries \in Nat \ {0}
  /\ Answers \subseteq KnownAnswers
  /\ FFmpeg \subseteq BOOLEAN

VARIABLES
  req,        \* the request, what its manifest will say, and the machine
  stage,      \* where run() is
  part,       \* index of the part it downloads
  next,       \* the first segment still in the jobs channel
  worker,     \* the segment workers
  cancelled,  \* dCtx
  errs,       \* how many errors are in the errs channel
  got,        \* the segments of a part that are on disk
  told        \* the events published

vars == <<req, stage, part, next, worker, cancelled, errs, got, told>>

PartNames == {"video", "audio", "init"}

(* init, fmp4, crypt and subs are about HLS: an #EXT-X-MAP, fragmented MP4, *)
(* keys, subtitle renditions; video and audio about the other kinds.        *)
Requests ==
  {r \in [kind : {"hls", "dash", "adaptive", "direct", "subtitles"}, init : BOOLEAN,
          fmp4 : BOOLEAN, crypt : BOOLEAN, subs : BOOLEAN, video : BOOLEAN,
          audio : BOOLEAN, ffmpeg : FFmpeg] :
     /\ r.kind # "hls" => ~(r.init \/ r.fmp4 \/ r.crypt \/ r.subs)
     /\ r.init => r.fmp4
     /\ r.kind \in {"dash", "adaptive"} => r.video \/ r.audio
     /\ r.kind \in {"hls", "direct"} => r.video /\ ~r.audio
     /\ r.kind = "subtitles" => ~r.video /\ ~r.audio}

Parts ==
  (IF req.video THEN <<"video">> ELSE <<>>)
  \o (IF req.audio THEN <<"audio">> ELSE <<>>)
  \o (IF req.init THEN <<"init">> ELSE <<>>)
Part == Parts[part]

IdleWorker == [pc |-> "return", seg |-> 0, attempt |-> 0, lastErr |-> "nil"]
NewWorker == [IdleWorker EXCEPT !.pc = "next"]

Init ==
  /\ req \in Requests
  /\ stage = "new"
  /\ part = 1
  /\ next = 1
  /\ worker = [w \in Workers |-> IdleWorker]
  /\ cancelled = FALSE
  /\ errs = 0
  /\ got = [p \in PartNames |-> {}]
  /\ told = <<>>

Say(e) == told' = Append(told, e)
pool == <<next, worker, cancelled, errs>>

-----------------------------------------------------------------------------
(* Start publishes, and starts the goroutine.                              *)
Start ==
  /\ stage = "new"
  /\ stage' = "run"
  /\ Say("queued")
  /\ UNCHANGED <<req, part, pool, got>>

(* run publishes and goes to the code of the kind.                         *)
Run ==
  /\ stage = "run"
  /\ stage' = IF req.kind \in {"adaptive", "direct"} THEN "part" ELSE "manifest"
  /\ Say("started")
  /\ UNCHANGED <<req, part, pool, got>>

\* Mutant: the error is only logged.
FailQuietly == stage' = "ended" /\ UNCHANGED told

(* The goroutine returns: with an error that Start publishes, or nil.      *)
Fail == stage' = "ended" /\ Say("error")
Complete == stage' = "ended" /\ Say("complete")
Silent == stage' = "ended" /\ UNCHANGED told

(* fetchText and the parsers; an empty playlist or one without usable      *)
(* streams is an error like a failed request.  The keys of encrypted       *)
(* segments are fetched here, too.  Where only subtitles are asked for,    *)
(* they are downloaded here as text: a track that fails is left out, and   *)
(* one has to be saved.                                                    *)
SubtitlesOnly == req.kind = "subtitles" /\ Complete

Manifest ==
  /\ stage = "manifest"
  /\ \/ Fail
     \/ SubtitlesOnly
     \/ req.kind # "subtitles" /\ stage' = "part" /\ UNCHANGED told
  /\ UNCHANGED <<req, part, pool, got>>

-----------------------------------------------------------------------------
(* downloadFileDirect: one connection, the whole file or an error.         *)
DownloadFile ==
  /\ stage = "part"
  /\ req.kind \in {"adaptive", "direct"}
  /\ \/ Fail /\ UNCHANGED <<part, got>>
     \/ /\ got' = [got EXCEPT ![Part] = 1 .. Segments]
        /\ part' = part + 1
        /\ stage' = IF part < Len(Parts) THEN "part" ELSE "join"
        /\ UNCHANGED told
  /\ UNCHANGED <<req, pool>>

-----------------------------------------------------------------------------
(* downloadSegments: the jobs channel has all segments and is closed, then *)
(* the workers start.                                                      *)
SegmentCount == IF Part = "init" THEN 1 ELSE Segments
ExistIn(p) == IF p = "init" THEN 1 ELSE Segments - Absent
Exist == ExistIn(Part)

StartWorkers ==
  /\ stage = "part"
  /\ req.kind \in {"hls", "dash"}
  /\ stage' = "workers"
  /\ next' = 1
  /\ worker' = [w \in Workers |-> NewWorker]
  /\ cancelled' = FALSE
  /\ errs' = 0
  /\ UNCHANGED <<req, part, got, told>>

PoolKeeps == UNCHANGED <<req, stage, part, told>>
WorkerIs(w, r) == worker' = [worker EXCEPT ![w] = r]
WorkerTo(w, l) == worker' = [worker EXCEPT ![w].pc = l]

(* A worker receives a job, or finds the channel empty, and returns if     *)
(* dCtx has ended.                                                         *)
NextJob(w) ==
  /\ worker[w].pc = "next"
  /\ IF next > SegmentCount
     THEN WorkerTo(w, "return") /\ UNCHANGED next
     ELSE /\ next' = next + 1
          /\ WorkerIs(w, IF cancelled THEN IdleWorker
                         ELSE [pc |-> "get", seg |-> next, attempt |-> 0, lastErr |-> "nil"])
  /\ PoolKeeps /\ UNCHANGED <<cancelled, errs, got>>

Reply(seg) ==
  (IF seg > Exist THEN {"404"} ELSE Answers) \ (IF seg = 1 THEN {} ELSE {"bad"})

(* The segment is written to its file; or it is a fragment that is skipped *)
(* without one.                                                            *)
Succeed(w, a) ==
  /\ worker[w].pc = "get"
  /\ a \in {"ok", "skip"} \cap Reply(worker[w].seg)
  /\ got' = [got EXCEPT ![Part] = IF a = "ok" THEN @ \cup {worker[w].seg} ELSE @]
  /\ worker[w].seg = 1 => a = "ok"
  /\ WorkerTo(w, "next")
  /\ PoolKeeps /\ UNCHANGED <<next, cancelled, errs>>

\* Mutant: the error is reported, and the next job taken.
FirstInvalidGoesOn(w, a) ==
  /\ worker[w].pc = "get"
  /\ worker[w].seg = 1
  /\ a \in {"bad", "skip"} \cap Reply(1)
  /\ got' = [got EXCEPT ![Part] = IF a = "bad" THEN @ \cup {1} ELSE @]
  /\ cancelled' = TRUE
  /\ WorkerTo(w, "next")
  /\ PoolKeeps /\ UNCHANGED <<next, errs>>

(* The first segment is validated at once: if it is an error page, or not  *)
(* there, all workers are stopped.                                         *)
FirstInvalid(w, a) ==
  /\ worker[w].pc = "get"
  /\ worker[w].seg = 1
  /\ a \in {"bad", "skip"} \cap Reply(1)
  /\ got' = [got EXCEPT ![Part] = IF a = "bad" THEN @ \cup {1} ELSE @]
  /\ cancelled' = TRUE
  /\ WorkerTo(w, "report")
  /\ PoolKeeps /\ UNCHANGED <<next, errs>>

(* An attempt fails.  Waiting for a limited rate does not touch lastErr,   *)
(* but the loop counts it like any other.                                  *)
Tried(w, a) ==
  LET e == IF a = "429" THEN worker[w].lastErr ELSE a IN
  [worker[w] EXCEPT !.attempt = @ + 1, !.lastErr = e,
     !.pc = IF worker[w].attempt + 1 < MaxRetries THEN "get"
            ELSE CASE e = "nil" -> "next" [] e = "404" -> "return" [] OTHER -> "report"]

(* It is tried again; after the last attempt a 404 ends the worker without *)
(* an error, any other error is reported, and without one the next job is  *)
(* taken.                                                                  *)
Retry(w, a) ==
  /\ worker[w].pc = "get"
  /\ a \in {"404", "429", "error"} \cap Reply(worker[w].seg)
  /\ WorkerIs(w, Tried(w, a))
  /\ PoolKeeps /\ UNCHANGED <<next, cancelled, errs, got>>

(* dCtx ends a request or a wait; after the last attempt that is an error, *)
(* unless the wait is for a limited rate.                                  *)
GiveUp(w) ==
  /\ worker[w].pc = "get"
  /\ cancelled
  /\ \/ /\ worker[w].attempt < MaxRetries - 1 \/ "429" \in Reply(worker[w].seg)
        /\ WorkerTo(w, "return")
     \/ worker[w].attempt = MaxRetries - 1 /\ WorkerTo(w, "report")
  /\ PoolKeeps /\ UNCHANGED <<next, cancelled, errs, got>>

\* Mutant: errs has room for one error.
ReportInTurn(w) ==
  /\ worker[w].pc = "report"
  /\ errs < 1
  /\ errs' = errs + 1
  /\ WorkerIs(w, IdleWorker)
  /\ PoolKeeps /\ UNCHANGED <<next, cancelled, got>>

(* errs has room for one error of each worker; nobody receives before all  *)
(* have returned.                                                          *)
Report(w) ==
  /\ worker[w].pc = "report"
  /\ errs < Cardinality(Workers)
  /\ errs' = errs + 1
  /\ WorkerIs(w, IdleWorker)
  /\ PoolKeeps /\ UNCHANGED <<next, cancelled, got>>

WorkerStep(w) ==
  /\ stage = "workers"
  /\ \/ NextJob(w) \/ GiveUp(w) \/ Report(w)
     \/ \E a \in KnownAnswers : Succeed(w, a) \/ FirstInvalid(w, a) \/ Retry(w, a)

-----------------------------------------------------------------------------
(* Missing files at the end are trimmed, others leave a hole.              *)
Kept(p) == IF got[p] = {} THEN 0 ELSE Max(got[p])
Hole(p) == 1 .. Kept(p) \ got[p] # {}

\* Mutant: the errors of the workers are not looked at.
PartUnchecked ==
  \/ Part = "init" /\ Kept(Part) = 0
  \/ (req.kind = "dash" \/ (req.crypt /\ Part = "video")) /\ Hole(Part)
  \/ req.kind = "hls" /\ Part = "video" /\ Kept(Part) > 0 /\ 1 \notin got[Part]

(* An error of a worker, an init segment that is not there, a hole in what *)
(* catFiles or the decryption reads, or no first segment, which runHLS     *)
(* validates again.                                                        *)
PartFails ==
  \/ errs > 0
  \/ Part = "init" /\ Kept(Part) = 0
  \/ (req.kind = "dash" \/ (req.crypt /\ Part = "video")) /\ Hole(Part)
  \/ req.kind = "hls" /\ Part = "video" /\ Kept(Part) > 0 /\ 1 \notin got[Part]

(* Decryption, or what it yields, may be no good.                          *)
MayFail == PartFails \/ (req.crypt /\ Part = "video" /\ Kept(Part) > 0)

(* runHLS looks into segFiles[0], unless it has an init segment and no     *)
(* subtitles.                                                              *)
PartPanics ==
  req.kind = "hls" /\ Part = "video" /\ Kept(Part) = 0 /\ (req.subs \/ ~req.init)

EndPart ==
  /\ stage = "workers"
  /\ \A w \in Workers : worker[w].pc = "return"
  /\ \/ MayFail /\ Fail
     \/ ~PartFails /\ PartPanics /\ stage' = "panic" /\ UNCHANGED told
     \/ /\ ~PartFails /\ ~PartPanics
        /\ stage' = IF part < Len(Parts) THEN "part" ELSE "join"
        /\ UNCHANGED told
  /\ part' = part + 1
  /\ UNCHANGED <<req, pool, got>>

-----------------------------------------------------------------------------
(* catFiles of the parts of an HLS stream: a hole is an error.             *)
HLSHole == req.kind = "hls" /\ Hole("video")

(* Segments of MPEG-TS are joined by ffmpeg's concat demuxer, for which a  *)
(* missing file need not be an error, or by catFiles.                      *)
MuxConcat ==
  /\ req.kind = "hls" /\ ~req.subs /\ ~req.fmp4
  /\ \/ req.ffmpeg /\ (Complete \/ Fail)
     \/ ~req.ffmpeg /\ ~HLSHole /\ Complete
     \/ ~req.ffmpeg /\ HLSHole /\ Fail

(* assembleHLSWithSubtitles.                                               *)
MuxSubtitles ==
  /\ req.kind = "hls" /\ req.subs
  /\ \/ HLSHole /\ Fail
     \/ ~HLSHole /\ Complete
     \/ ~HLSHole /\ req.ffmpeg /\ Fail

(* mux of one or two inputs; without ffmpeg one is renamed, and that is    *)
(* all.                                                                    *)
Inputs == Cardinality({i \in DOMAIN Parts : Parts[i] # "init"})
Mux ==
  /\ req.kind \in {"dash", "adaptive"} \/ (req.kind = "hls" /\ ~req.subs /\ req.fmp4)
  /\ \/ HLSHole /\ Fail
     \/ ~HLSHole /\ req.ffmpeg /\ (Complete \/ Fail)
     \/ ~HLSHole /\ ~req.ffmpeg /\ Inputs = 1 /\ Silent
     \/ ~HLSHole /\ ~req.ffmpeg /\ Inputs > 1 /\ Fail

Join ==
  /\ stage = "join"
  /\ \/ MuxConcat \/ MuxSubtitles \/ Mux
     \/ req.kind = "direct" /\ Complete
  /\ UNCHANGED <<req, part, pool, got>>

-----------------------------------------------------------------------------
Main == Start \/ Run \/ Manifest \/ DownloadFile \/ StartWorkers \/ EndPart \/ Join
Next == Main \/ \E w \in Workers : WorkerStep(w)

(* Requests have timeouts or end, and the goroutines run.                  *)
Fairness == WF_vars(Main) /\ \A w \in Workers : WF_vars(WorkerStep(w))

Spec == Init /\ [][Next]_vars
LiveSpec == Spec /\ Fairness

-----------------------------------------------------------------------------
TypeOK ==
  /\ req \in Requests
  /\ stage \in {"new", "run", "manifest", "part", "workers", "join", "ended", "panic"}
  /\ part \in Nat \ {0} /\ next \in Nat \ {0}
  /\ worker \in [Workers -> [pc : {"next", "get", "report", "return"}, seg : Nat,
                             attempt : 0 .. MaxRetries, lastErr : {"nil", "404", "error"}]]
  /\ cancelled \in BOOLEAN
  /\ errs \in 0 .. Cardinality(Workers)
  /\ got \in [PartNames -> SUBSET (1 .. Segments)]
  /\ told \in Seq({"queued", "started", "complete", "error"})

Told(e) == \E i \in DOMAIN told : told[i] = e

(* A stream that is said to be complete has every segment that exists, of  *)
(* every part: the workers that stop at the end of an open-ended stream    *)
(* leave nothing before it to nobody (downloader.go:1091-1123).            *)
CompleteIsWhole ==
  Told("complete") =>
    \A i \in 1 .. Len(Parts) : 1 .. ExistIn(Parts[i]) \subseteq got[Parts[i]]

(* A stream whose first segment was found to be an error page is never     *)
(* said to be complete, however the other workers race the cancellation    *)
(* (downloader.go:1044-1051).                                              *)
InvalidIsRefused == cancelled => ~Told("complete")

(* A goroutine that ends has told how, once, and does not panic            *)
(* (downloader.go:218-227).  mux without ffmpeg is the exception: it       *)
(* renames a single input and tells nobody (downloader.go:1367-1369).      *)
RenamesOnly ==
  /\ ~req.ffmpeg /\ Inputs = 1
  /\ req.kind \in {"dash", "adaptive"} \/ (req.kind = "hls" /\ ~req.subs /\ req.fmp4)
EndIsTold ==
  /\ stage # "panic"
  /\ stage = "ended" =>
       \/ told \in {<<"queued", "started", e>> : e \in {"complete", "error"}}
       \/ RenamesOnly /\ told = <<"queued", "started">>

(* A stream download ends: its workers never wait for each other at the    *)
(* errs channel (downloader.go:1008, 1049, 1098).                          *)
Ends == stage = "new" ~> stage \in {"ended", "panic"}
=============================================================================
